----------------------------- MODULE Negotiation -----------------------------
(***************************************************************************)
(* Telnet option negotiation of one connection (mud-net                    *)
(* telnet/negotiation.rs) against a client that follows the protocol, over *)
(* the two directions of the TCP stream.  An option either side may turn   *)
(* on or off is agreed by one verb each way: the server's "yes" is DO for  *)
(* an option of the client (NAWS, TTYPE) and WILL for one of its own (EOR, *)
(* CHARSET, ECHO), and its "no" is DONT or WONT.                           *)
(***************************************************************************)
EXTENDS Naturals, Sequences

CONSTANTS
  Options,      (* the options in play                                      *)
  Willing,      (* those the client agrees to whenever asked                *)
  MaxWhims,     (* bound: changes the client makes by itself                *)
  MaxSecrets    (* bound: times the World changes the client's echo         *)

Opening  == {"NAWS", "TTYPE", "EOR", "CHARSET"}
Known    == Opening \union {"ECHO"}
QState   == {"No", "WantYes", "Yes", "WantNo"}

ASSUME NegotiationAssumption ==
  /\ Options \subseteq Known \union {"unsupported"}
  /\ Willing \subseteq Options
  /\ MaxWhims \in Nat /\ MaxSecrets \in Nat

VARIABLES
  server,     (* Negotiator: the QState of each known option                *)
  charset,    (* charset_mode: how text to the client is encoded            *)
  masked,     (* what the World last asked of the client's echo             *)
  client,     (* the client's own state of each option                      *)
  toClient,   (* verbs and requests on their way to the client              *)
  toServer,   (* verbs and answers on their way to the server               *)
  whims, secrets   (* changes made so far                                   *)

bounds == <<whims, secrets>>
vars   == <<server, charset, masked, client, toClient, toServer, bounds>>

Msg(o, v) == [option |-> o, verb |-> v]
Yes(o)    == <<Msg(o, "yes")>>
No(o)     == <<Msg(o, "no")>>
Become(o, q) == server' = [server EXCEPT ![o] = q]
Reply(ms)    == toClient' = toClient \o ms

-----------------------------------------------------------------------------
\* A newly enabled option the server then asks about: TTYPE SEND, CHARSET REQUEST.
Request(o) == IF o \in {"TTYPE", "CHARSET"} THEN <<Msg(o, "ask")>> ELSE <<>>

EnableSilently(o) ==                          \* mutant: never acknowledges
  /\ Become(o, "Yes") /\ UNCHANGED toClient
Enable(o) ==
  CASE server[o] = "WantYes"         -> Become(o, "Yes") /\ Reply(Request(o))
    [] server[o] \in {"No", "WantNo"} -> Become(o, "Yes") /\ Reply(Yes(o) \o Request(o))
    [] server[o] = "Yes"             -> UNCHANGED <<server, toClient>>

DisableInsisting(o) ==                        \* mutant: offers again when refused
  Become(o, "WantYes") /\ Reply(Yes(o))
Disable(o) ==
  IF server[o] = "Yes" THEN Become(o, "No") /\ Reply(No(o))
                       ELSE Become(o, "No") /\ UNCHANGED toClient

\* DO ECHO: agreement to an outstanding offer, a stale one, or a request refused.
AgreeEcho ==
  CASE server["ECHO"] = "WantYes" -> Become("ECHO", "Yes") /\ UNCHANGED toClient
    [] server["ECHO"] = "No"      -> Reply(No("ECHO")) /\ UNCHANGED server
    [] OTHER                      -> UNCHANGED <<server, toClient>>

\* on_negotiate, and the CHARSET answer of on_charset_subnegotiation.
OnVerb(m) ==
  CASE m.option \notin Known /\ m.verb = "yes" -> Reply(No(m.option)) /\ UNCHANGED server
    [] m.option \notin Known /\ m.verb = "no"  -> UNCHANGED <<server, toClient>>
    [] m.option = "ECHO" /\ m.verb = "yes"     -> AgreeEcho
    [] m.option \in Opening /\ m.verb = "yes"  -> Enable(m.option)
    [] m.option \in Known /\ m.verb = "no"     -> Disable(m.option)
    [] OTHER                                   -> UNCHANGED <<server, toClient>>
OnAnswer(m) ==
  charset' = IF m.option # "CHARSET" THEN charset
             ELSE CASE m.verb = "accepted" -> "Utf8"
                    [] m.verb = "rejected" -> "Ascii"
                    [] OTHER               -> charset
ServerReceives ==
  /\ toServer # <<>>
  /\ OnVerb(Head(toServer)) /\ OnAnswer(Head(toServer))
  /\ toServer' = Tail(toServer)
  /\ UNCHANGED <<masked, client, bounds>>

\* set_echo: the World masks a password, and unmasks after it.  It asks only
\* for changes.
SuppressEcho ==
  IF server["ECHO"] \in {"No", "WantNo"}
  THEN Become("ECHO", "WantYes") /\ Reply(Yes("ECHO"))
  ELSE UNCHANGED <<server, toClient>>
RestoreEchoWhenAgreed ==                      \* mutant: not from WantYes
  IF server["ECHO"] = "Yes"
  THEN Become("ECHO", "WantNo") /\ Reply(No("ECHO"))
  ELSE UNCHANGED <<server, toClient>>
RestoreEcho ==
  IF server["ECHO"] \in {"Yes", "WantYes"}
  THEN Become("ECHO", "WantNo") /\ Reply(No("ECHO"))
  ELSE UNCHANGED <<server, toClient>>
SetEcho ==
  /\ "ECHO" \in Options /\ secrets < MaxSecrets /\ secrets' = secrets + 1
  /\ masked' = ~masked
  /\ IF masked THEN RestoreEcho ELSE SuppressEcho
  /\ UNCHANGED <<charset, client, toServer, whims>>

-----------------------------------------------------------------------------
\* The client answers a verb that asks it to change and takes as an answer one
\* that meets its own request.
ClientBecomes(o, q) == client' = [client EXCEPT ![o] = q]
Answer(ms) == toServer' = toServer \o ms
ClientHears(o, v) ==
  CASE v = "yes" /\ client[o] = "No" ->
         \/ ClientBecomes(o, "Yes") /\ Answer(Yes(o))
         \/ o \notin Willing /\ UNCHANGED client /\ Answer(No(o))
    [] v = "yes" /\ client[o] = "WantYes" -> ClientBecomes(o, "Yes") /\ Answer(<<>>)
    [] v = "no" /\ client[o] = "Yes" -> ClientBecomes(o, "No") /\ Answer(No(o))
    [] v = "no" /\ client[o] \in {"WantYes", "WantNo"} -> ClientBecomes(o, "No") /\ Answer(<<>>)
    [] v = "ask" -> /\ UNCHANGED client
                    /\ \E a \in {"accepted", "rejected"} : Answer(<<Msg(o, a)>>)
    [] OTHER -> UNCHANGED client /\ Answer(<<>>)
ClientReceives ==
  /\ toClient # <<>>
  /\ ClientHears(Head(toClient).option, Head(toClient).verb)
  /\ toClient' = Tail(toClient)
  /\ UNCHANGED <<server, charset, masked, bounds>>

\* The client turns an option on or off unasked.
Whim(o) ==
  /\ whims < MaxWhims /\ whims' = whims + 1
  /\ \/ client[o] = "No"  /\ ClientBecomes(o, "WantYes") /\ Answer(Yes(o))
     \/ client[o] = "Yes" /\ ClientBecomes(o, "WantNo")  /\ Answer(No(o))
  /\ UNCHANGED <<server, charset, masked, toClient, secrets>>

-----------------------------------------------------------------------------
\* Negotiator::new: the opening offers.
Offer(o) == IF o \in Options THEN Yes(o) ELSE <<>>
Init ==
  /\ server = [o \in Options \cap Known |-> IF o = "ECHO" THEN "No" ELSE "WantYes"]
  /\ toClient = Offer("NAWS") \o Offer("TTYPE") \o Offer("EOR") \o Offer("CHARSET")
  /\ charset = "Ascii" /\ masked = FALSE
  /\ client = [o \in Options |-> "No"]
  /\ toServer = <<>> /\ whims = 0 /\ secrets = 0

Next ==
  \/ ServerReceives \/ SetEcho
  \/ ClientReceives \/ \E o \in Options : Whim(o)

\* The stream delivers what is sent, and both ends read it.
Spec == Init /\ [][Next]_vars /\ WF_vars(ServerReceives) /\ WF_vars(ClientReceives)

-----------------------------------------------------------------------------
\* States and verbs stay in their ranges; the server never sends a request
\* about an option it has not agreed to.
NegotiationTypeOK ==
  /\ server \in [Options \cap Known -> QState]
  /\ client \in [Options -> QState]
  /\ charset \in {"Ascii", "Utf8"} /\ masked \in BOOLEAN
  /\ \A n \in 1 .. Len(toClient) :
       /\ toClient[n].option \in Options /\ toClient[n].verb \in {"yes", "no", "ask"}
       /\ toClient[n].verb = "ask" => toClient[n].option \in {"TTYPE", "CHARSET"}

Quiet == toClient = <<>> /\ toServer = <<>>

\* With nothing in flight both ends agree on every option, however requests of
\* the two crossed.
Agreement ==
  Quiet => \A o \in Options \cap Known : server[o] = "Yes" <=> client[o] = "Yes"

\* The two together: requests only about agreed options, and agreement at rest.
NegotiationInv == NegotiationTypeOK /\ Agreement

\* Between passwords the client's echo is its own again: nothing in flight and
\* nothing masked, it has not been left suppressing.
EchoRestored == "ECHO" \in Options /\ Quiet /\ ~masked => client["ECHO"] = "No"

\* The two ends stop talking: no exchange of verbs loops.
NegotiationEnds == <>[]Quiet

\* telnet/mod.rs:36: "Secret entry: the client is asked to stop echoing", and
\* session/mod.rs:203: "masking still lands before the prompt it protects":
\* then a client that always agrees has stopped once nothing is in flight.
SecretMasked ==
  Quiet /\ masked /\ whims = 0 /\ "ECHO" \in Willing => client["ECHO"] = "Yes"
=============================================================================
