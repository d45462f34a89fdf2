------------------------------- MODULE Gateway -------------------------------
(***************************************************************************)
(* One tenant's gateway (mud-gateway) and the World loop it feeds (mudd    *)
(* world_loop.rs): a task per connection, the router task, the two bounded *)
(* channels of the IPC transport between router and World with the         *)
(* handshake that opens them (mud-ipc handshake.rs), the bounded           *)
(* command channel into the router and a bounded output buffer per         *)
(* connection.  Bytes, rendering and rate limiting are left out; a line is *)
(* one that reaches the World as "say" (answered and broadcast) or "quit". *)
(***************************************************************************)
EXTENDS Naturals, SequencesExt

CONSTANTS
  Conns,          (* the connections, each with the SessionId minted for it *)
  MaxLines,       (* bound: lines the clients type between them             *)
  CommandCap,     (* COMMAND_CAPACITY (256)                                 *)
  ToWorldCap,     (* IN_MEMORY_CAPACITY (256), router to World              *)
  ToGatewayCap,   (* IN_MEMORY_CAPACITY (256), World to router              *)
  OutCap,         (* OUTPUT_CAPACITY (64)                                   *)
  NoFrame,        (* the router is not in the middle of a send              *)
  NoConn,         (* the World is not dropping a session                    *)
  Versions,       (* the schema versions builds may speak                   *)
  SCHEMA_VERSION, (* the one the World's build speaks                       *)
  WorldIds,       (* the worlds a gateway may be configured for             *)
  Here            (* the one this World serves                              *)

ASSUME GatewayAssumption ==
  /\ {MaxLines, CommandCap, ToWorldCap, ToGatewayCap, OutCap} \subseteq Nat \ {0}
  /\ NoConn \notin Conns
  /\ SCHEMA_VERSION \in Versions /\ Here \in WorldIds

Line  == {"say", "quit"}
Phase == {"idle", "registering", "connecting", "open", "forwarding", "writing",
          "disconnecting", "deregistering", "done"}

VARIABLES
  phase,      (* where each connection task is                              *)
  batch,      (* the lines of the last read not yet forwarded               *)
  typed,      (* how many lines the clients have typed                      *)
  out,        (* the output buffer of each connection                       *)
  commands,   (* the command channel into the router                        *)
  registry,   (* the connections the router can address                     *)
  held,       (* the frame the router is sending to the World               *)
  gate,       (* serve: "announcing", "awaiting" the ack, "serving" with a
                 router, "deaf" once the listener failed, "ended"           *)
  hello,      (* the handshake the gateway is of: its version and world     *)
  toWorld,    (* the frames in flight to the World                          *)
  toGateway,  (* the frames in flight to the router                         *)
  sessions,   (* SessionService.sessions                                    *)
  replies,    (* what the World has still to send for the current frame     *)
  leaver,     (* the session it drops after that                            *)
  loop,       (* run: "accepting" the handshake, "looping", "stopped"       *)
  forgotten   (* history: the sessions the World has dropped                *)

connVars   == <<phase, batch, typed>>
routerVars == <<registry, held, gate, hello>>
worldVars  == <<sessions, replies, leaver, loop, forgotten>>
vars == <<connVars, out, commands, routerVars, toWorld, toGateway, worldVars>>

Register(c)   == [kind |-> "Register", conn |-> c]
Deregister(c) == [kind |-> "Deregister", conn |-> c]
Connect(c)    == [kind |-> "Connect", conn |-> c]
Input(c, l)   == [kind |-> "Input", conn |-> c, line |-> l]
Disconnect(c) == [kind |-> "Disconnect", conn |-> c]
Output(c)     == [kind |-> "Output", conn |-> c]
Close(c)      == [kind |-> "Close", conn |-> c]

\* What the router forwards to the World, and what it gets back.
GatewayFrame ==
       [kind : {"Connect", "Disconnect"}, conn : Conns]
  \union [kind : {"Input"}, conn : Conns, line : Line]
WorldFrame == [kind : {"Output", "Close"}, conn : Conns]

ASSUME NoFrameAssumption == NoFrame \notin GatewayFrame

routerUp == gate \in {"serving", "deaf"}
worldUp  == loop # "stopped"

Resume    == [kind |-> "Resume", conn |-> NoConn]
ResumeAck == [kind |-> "ResumeAck", conn |-> NoConn]

-----------------------------------------------------------------------------
\* The handshake.  announce_sessions sends what this gateway is, and waits: any
\* error, a peer that has gone among them, ends serve.
HandshakeStep == UNCHANGED <<connVars, out, commands, registry, held, hello,
                             sessions, replies, leaver, forgotten>>
AnnounceSessions ==
  /\ gate = "announcing"
  /\ IF worldUp THEN toWorld' = Append(toWorld, Resume) /\ gate' = "awaiting"
                ELSE gate' = "ended" /\ UNCHANGED toWorld
  /\ HandshakeStep /\ UNCHANGED <<toGateway, loop>>

\* accept_resume: version, then world; the ack leaves before the loop starts.
Agreed == hello.version = SCHEMA_VERSION /\ hello.world = Here
AcceptResume ==
  /\ loop = "accepting" /\ toWorld # <<>>
  /\ toWorld' = Tail(toWorld)
  /\ IF Head(toWorld) = Resume /\ Agreed
     THEN toGateway' = Append(toGateway, ResumeAck) /\ loop' = "looping"
     ELSE loop' = "stopped" /\ UNCHANGED toGateway
  /\ HandshakeStep /\ UNCHANGED gate

\* The gateway checks the ack by its own version and world, then the router runs.
HearAckOnly ==                                 \* mutant: waits for an ack
  /\ gate = "awaiting" /\ toGateway # <<>>
  /\ gate' = IF Head(toGateway) = ResumeAck /\ Agreed THEN "serving" ELSE "ended"
  /\ toGateway' = Tail(toGateway)
HearAck ==
  /\ gate = "awaiting"
  /\ IF toGateway # <<>>
     THEN /\ gate' = IF Head(toGateway) = ResumeAck /\ Agreed THEN "serving" ELSE "ended"
          /\ toGateway' = Tail(toGateway)
     ELSE ~worldUp /\ gate' = "ended" /\ UNCHANGED toGateway
CheckAck == HearAck /\ HandshakeStep /\ UNCHANGED <<toWorld, loop>>

-----------------------------------------------------------------------------
\* run_connection: every send to the router awaits room, and fails once the
\* router is gone.
Send(m) == routerUp /\ Len(commands) < CommandCap /\ commands' = Append(commands, m)
Goto(c, p) == phase' = [phase EXCEPT ![c] = p]
ConnStep == UNCHANGED <<routerVars, toWorld, toGateway, worldVars>>

\* serve accepts and spawns the connection task.
Accept(c) ==
  /\ gate = "serving" /\ phase[c] = "idle" /\ Goto(c, "registering")
  /\ ConnStep /\ UNCHANGED <<batch, typed, out, commands>>

\* A client cannot be accepted, or the session ids are used up: serve returns, and
\* lets go of the router, which goes on for the connections there are.
ListenerFails(c) ==
  /\ gate = "serving" /\ phase[c] = "idle" /\ gate' = "deaf"
  /\ UNCHANGED <<connVars, out, commands, registry, held, hello, toWorld, toGateway, worldVars>>

\* The session is registered, then announced to the World.
AnnounceConnectFirst(c) ==                     \* mutant: the order swapped
  \/ phase[c] = "registering" /\ Send(Connect(c)) /\ Goto(c, "connecting")
  \/ phase[c] = "connecting" /\ Send(Register(c)) /\ Goto(c, "open")
AnnounceRegisterOnly(c) ==                     \* mutant: no Connect
  phase[c] = "registering" /\ Send(Register(c)) /\ Goto(c, "open")
Announce(c) ==
  \/ phase[c] = "registering" /\ Send(Register(c)) /\ Goto(c, "connecting")
  \/ phase[c] = "connecting" /\ Send(Connect(c)) /\ Goto(c, "open")
Open(c) == Announce(c) /\ ConnStep /\ UNCHANGED <<batch, typed, out>>

\* One read: the lines it completes are forwarded before anything else.
Read(c, lines) ==
  /\ phase[c] = "open" /\ typed + Len(lines) <= MaxLines
  /\ typed' = typed + Len(lines)
  /\ batch' = [batch EXCEPT ![c] = lines]
  /\ Goto(c, "forwarding")
  /\ ConnStep /\ UNCHANGED <<out, commands>>
Forward(c) ==
  /\ phase[c] = "forwarding" /\ Send(Input(c, Head(batch[c])))
  /\ batch' = [batch EXCEPT ![c] = Tail(@)]
  /\ IF Len(batch[c]) = 1 THEN Goto(c, "open") ELSE UNCHANGED phase
  /\ ConnStep /\ UNCHANGED <<typed, out>>

\* The client is gone (EOF or socket error, also while a write is pending), and
\* the World is owed a Disconnect.
AfterHangupSilently == "deregistering"         \* mutant: no Disconnect
AfterHangup == "disconnecting"
Hangup(c) ==
  /\ phase[c] \in {"open", "writing"} /\ Goto(c, AfterHangup)
  /\ ConnStep /\ UNCHANGED <<batch, typed, out, commands>>

\* The output arm: Close ends the task, anything else is written first.
After(kind) == IF kind = "Close" THEN "deregistering" ELSE "writing"
TakeOutput(c) ==
  /\ phase[c] = "open" /\ out[c] # <<>>
  /\ out' = [out EXCEPT ![c] = Tail(@)]
  /\ Goto(c, After(Head(out[c])))
  /\ ConnStep /\ UNCHANGED <<batch, typed, commands>>
Written(c) ==
  /\ phase[c] = "writing" /\ Goto(c, "open")
  /\ ConnStep /\ UNCHANGED <<batch, typed, out, commands>>

\* run_connection after its loop: the Disconnect if owed, then Deregister.
LeaveOnceDrained(c) ==                         \* mutant: waits for the buffer
  /\ \/ phase[c] = "disconnecting" /\ out[c] = <<>> /\ Send(Disconnect(c))
        /\ Goto(c, "deregistering")
     \/ phase[c] = "deregistering" /\ Send(Deregister(c)) /\ Goto(c, "done")
  /\ ConnStep /\ UNCHANGED <<batch, typed, out>>
Leave(c) ==
  /\ \/ phase[c] = "disconnecting" /\ Send(Disconnect(c)) /\ Goto(c, "deregistering")
     \/ phase[c] = "deregistering" /\ Send(Deregister(c)) /\ Goto(c, "done")
  /\ ConnStep /\ UNCHANGED <<batch, typed, out>>

\* With the router gone a pending send fails, and an idle task sees its output
\* channel closed once the buffer is drained.
AbandonedSending(c) ==                         \* mutant: an idle task stays
  phase[c] \in {"registering", "connecting", "forwarding",
                "disconnecting", "deregistering"}
Abandoned(c) ==
  \/ phase[c] \in {"registering", "connecting", "forwarding",
                    "disconnecting", "deregistering"}
  \/ phase[c] = "open" /\ out[c] = <<>>
Abandon(c) ==
  /\ ~routerUp /\ Abandoned(c)
  /\ Goto(c, "done")
  /\ ConnStep /\ UNCHANGED <<batch, typed, out, commands>>

-----------------------------------------------------------------------------
\* route: a payload nobody will read is dropped, and so is any payload, Close
\* included, that finds the buffer full.
Reachable(c) == c \in registry /\ phase[c] \notin {"disconnecting", "deregistering", "done"}
Route(frame) ==
  out' = [c \in Conns |->
            IF c = frame.conn /\ Reachable(c) /\ Len(out[c]) < OutCap
            THEN Append(out[c], frame.kind) ELSE out[c]]

RouterStep == UNCHANGED <<connVars, worldVars>>
RouteWorld ==
  /\ routerUp /\ held = NoFrame /\ toGateway # <<>>
  /\ Route(Head(toGateway))
  /\ toGateway' = Tail(toGateway)
  /\ RouterStep /\ UNCHANGED <<commands, routerVars, toWorld>>

TakeCommand ==
  /\ routerUp /\ held = NoFrame /\ commands # <<>>
  /\ LET m == Head(commands) IN
       /\ registry' = CASE m.kind = "Register"   -> registry \union {m.conn}
                        [] m.kind = "Deregister" -> registry \ {m.conn}
                        [] OTHER                 -> registry
       /\ held' = IF m.kind \in {"Register", "Deregister"} THEN NoFrame ELSE m
  /\ commands' = Tail(commands)
  /\ RouterStep /\ UNCHANGED <<out, gate, hello, toWorld, toGateway>>

\* endpoint.send awaits room; until then the router does nothing else.
SendToWorld ==
  /\ routerUp /\ held # NoFrame /\ worldUp /\ Len(toWorld) < ToWorldCap
  /\ toWorld' = Append(toWorld, held)
  /\ held' = NoFrame
  /\ RouterStep /\ UNCHANGED <<out, commands, registry, gate, hello, toGateway>>

\* The World closed the endpoint, or serve and every connection have ended:
\* run_router returns and its channels drop.
PeerGone    == routerUp /\ ~worldUp /\ (held # NoFrame \/ toGateway = <<>>)
SendersGone == /\ gate = "deaf" /\ held = NoFrame /\ commands = <<>>
               /\ \A c \in Conns : phase[c] \in {"idle", "done"}
RouterStops ==
  /\ PeerGone \/ SendersGone
  /\ gate' = "ended" /\ registry' = {} /\ held' = NoFrame
  /\ commands' = <<>> /\ toGateway' = <<>>
  /\ RouterStep /\ UNCHANGED <<out, hello, toWorld>>

-----------------------------------------------------------------------------
\* world_loop.rs: one frame is handled to the end, every reply sent, before the
\* next is received.  Who hears a broadcast is left open.
Audience(c) == SUBSET (sessions \ {c})
Heard(others) == SetToSeq({Output(d) : d \in others})
Finish(c) == sessions' = sessions \ {c} /\ forgotten' = forgotten \union ({c} \cap sessions)

\* SessionService::connect, and the greeting.
OnConnect(c) ==
  /\ sessions' = sessions \union {c}
  /\ replies' = <<Output(c)>>
  /\ UNCHANGED <<leaver, forgotten>>

\* handle_input: nothing for an unknown session; "quit" closes the connection
\* and drops the session once everything is sent.
OnInput(c, line) ==
  /\ IF c \notin sessions
     THEN UNCHANGED <<replies, leaver>>
     ELSE \E others \in Audience(c) :
            \/ /\ line = "say"
               /\ replies' = <<Output(c)>> \o Heard(others)
               /\ UNCHANGED leaver
            \/ /\ line = "quit"
               /\ replies' = <<Output(c)>> \o Heard(others) \o <<Close(c)>>
               /\ leaver' = c
  /\ UNCHANGED <<sessions, forgotten>>

\* handle_disconnect: the farewells first, then the session goes.
OnDisconnect(c) ==
  \E others \in IF c \in sessions THEN Audience(c) ELSE {{}} :
    /\ replies' = Heard(others)
    /\ IF others = {} THEN Finish(c) /\ UNCHANGED leaver
                      ELSE leaver' = c /\ UNCHANGED <<sessions, forgotten>>

WorldReceives ==
  /\ loop = "looping" /\ replies = <<>> /\ toWorld # <<>>
  /\ LET f == Head(toWorld) IN
       \/ f.kind = "Connect" /\ OnConnect(f.conn)
       \/ f.kind = "Input" /\ OnInput(f.conn, f.line)
       \/ f.kind = "Disconnect" /\ OnDisconnect(f.conn)
  /\ toWorld' = Tail(toWorld)
  /\ UNCHANGED <<connVars, out, commands, routerVars, toGateway, loop>>

WorldSends ==
  /\ worldUp /\ gate # "ended" /\ replies # <<>> /\ Len(toGateway) < ToGatewayCap
  /\ toGateway' = Append(toGateway, Head(replies))
  /\ replies' = Tail(replies)
  /\ IF Len(replies) = 1 /\ leaver # NoConn
     THEN Finish(leaver) /\ leaver' = NoConn
     ELSE UNCHANGED <<sessions, forgotten, leaver>>
  /\ UNCHANGED <<connVars, out, commands, routerVars, toWorld, loop>>

\* The loop returns (a failed tick, a fault): the World and its channels go.  It
\* does so too once the gateway is gone: at a reply it cannot send, or when the
\* frames that were under way are handled.
Stopped ==
  /\ worldUp /\ loop' = "stopped"
  /\ sessions' = {} /\ replies' = <<>> /\ leaver' = NoConn /\ toWorld' = <<>>
  /\ UNCHANGED <<connVars, out, commands, routerVars, toGateway, forgotten>>
WorldStops  == loop = "looping" /\ Stopped
PeerClosed  == gate = "ended" /\ (toWorld = <<>> \/ replies # <<>>) /\ Stopped

-----------------------------------------------------------------------------
Init ==
  /\ phase = [c \in Conns |-> "idle"] /\ batch = [c \in Conns |-> <<>>]
  /\ typed = 0 /\ out = [c \in Conns |-> <<>>]
  /\ commands = <<>> /\ registry = {} /\ held = NoFrame
  /\ gate = "announcing" /\ loop = "accepting"
  /\ hello \in [version : Versions, world : WorldIds]
  /\ toWorld = <<>> /\ toGateway = <<>>
  /\ sessions = {} /\ replies = <<>> /\ leaver = NoConn
  /\ forgotten = {}

Lines == UNION {[1 .. n -> Line] : n \in 1 .. MaxLines}
Router == RouteWorld \/ TakeCommand \/ SendToWorld \/ RouterStops
Next ==
  \/ \E c \in Conns :
       \/ Accept(c) \/ Open(c) \/ Forward(c) \/ Hangup(c)
       \/ TakeOutput(c) \/ Written(c) \/ Leave(c) \/ Abandon(c)
       \/ ListenerFails(c) \/ \E lines \in Lines : Read(c, lines)
  \/ AnnounceSessions \/ AcceptResume \/ CheckAck
  \/ Router \/ WorldReceives \/ WorldSends \/ WorldStops \/ PeerClosed

\* The runtime polls every ready task, and select! takes a ready branch at
\* random.  A client eventually reads what is written to it or goes.
ClientTakes(c) == Written(c) \/ (phase[c] = "writing" /\ Hangup(c))
Fairness ==
  /\ \A c \in Conns :
       /\ WF_vars(Open(c)) /\ WF_vars(Forward(c)) /\ WF_vars(Leave(c))
       /\ WF_vars(Abandon(c)) /\ WF_vars(TakeOutput(c)) /\ WF_vars(ClientTakes(c))
  /\ WF_vars(RouteWorld) /\ WF_vars(TakeCommand) /\ WF_vars(SendToWorld)
  /\ WF_vars(RouterStops) /\ WF_vars(WorldReceives) /\ WF_vars(WorldSends)
  /\ WF_vars(AnnounceSessions) /\ WF_vars(AcceptResume) /\ WF_vars(CheckAck)
  /\ WF_vars(PeerClosed)

Spec     == Init /\ [][Next]_vars
FairSpec == Spec /\ Fairness

-----------------------------------------------------------------------------
\* Every variable stays in its range; no channel exceeds its capacity.
GatewayTypeOK ==
  /\ phase \in [Conns -> Phase] /\ typed \in 0 .. MaxLines
  /\ \A c \in Conns : batch[c] = <<>> \/ batch[c] \in Lines
  /\ \A c \in Conns : ToSet(out[c]) \subseteq {"Output", "Close"} /\ Len(out[c]) <= OutCap
  /\ ToSet(commands) \subseteq GatewayFrame \union [kind : {"Register", "Deregister"}, conn : Conns]
  /\ Len(commands) <= CommandCap
  /\ registry \subseteq Conns /\ held \in GatewayFrame \union {NoFrame}
  /\ ToSet(toWorld) \subseteq GatewayFrame \union {Resume} /\ Len(toWorld) <= ToWorldCap
  /\ ToSet(toGateway) \subseteq WorldFrame \union {ResumeAck} /\ Len(toGateway) <= ToGatewayCap
  /\ ToSet(replies) \subseteq WorldFrame /\ leaver \in Conns \union {NoConn}
  /\ sessions \subseteq Conns /\ forgotten \subseteq Conns
  /\ gate \in {"announcing", "awaiting", "serving", "deaf", "ended"}
  /\ loop \in {"accepting", "looping", "stopped"}

\* router.rs:5: "a connection's Register always precedes its Connect, so the
\* World can never address a session the router does not know yet": a frame on
\* its way to a connection finds it registered, or past its life.
AddressedIsKnown ==
  \A f \in ToSet(toGateway) \union ToSet(replies) :
    routerUp /\ f.conn \notin registry => phase[f.conn] = "done"

\* The two together: every frame is in its range, its channel within its
\* capacity, and its connection known to the router.
GatewayInv == GatewayTypeOK /\ AddressedIsKnown

\* The World never keeps a session whose connection task has left without a
\* Disconnect on the way or the World dropping it at this moment.
Departing(c) ==
  Disconnect(c) \in ToSet(commands) \union {held} \union ToSet(toWorld)
NoOrphanSession ==
  \A c \in sessions :
    routerUp /\ phase[c] \in {"deregistering", "done"} => Departing(c) \/ leaver = c

\* Input reaches the World no earlier than the Connect of its session: inside the
\* session's life, or after the World dropped it at the client's own Disconnect or
\* at its own Close, when lines typed before may still be on their way; and a
\* dropped session stays dropped.
NoStrayInput ==
  [][/\ \A c \in Conns :
          worldUp /\ toWorld # <<>> /\ Head(toWorld).kind = "Input" /\ Head(toWorld).conn = c
          => c \in sessions \union forgotten
     /\ sessions' \cap forgotten = {}]_vars

\* A client that hangs up is forgotten by the World, however full the channels
\* and buffers, but for one way to stand still: the router awaits room for a
\* frame to the World (router.rs:91) while the World awaits room for a reply to
\* the router (the sends of world_loop.rs), and neither receives meanwhile.
MutualWait ==
  /\ held # NoFrame /\ Len(toWorld) = ToWorldCap
  /\ replies # <<>> /\ Len(toGateway) = ToGatewayCap
HangupForgotten ==
  \A c \in Conns : phase[c] = "disconnecting" ~> c \notin sessions \/ MutualWait

\* The handshake ends with both sides at work, and of one version and one world,
\* or with both gone: neither serves a peer it does not match, nor waits for one
\* that has refused it (handshake.rs).
MeetOrPart ==
  gate = "announcing" ~> \/ Agreed /\ routerUp
                         \/ gate = "ended" /\ loop = "stopped"

\* When the World stops, the router and every connection task end; and when the
\* router ends, the World does.
ShutdownEnds ==
  /\ ~worldUp ~> ~routerUp /\ \A c \in Conns : phase[c] \in {"idle", "done"}
  /\ gate = "ended" ~> ~worldUp
=============================================================================
