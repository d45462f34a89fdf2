----------------------------- MODULE TelnetStream -----------------------------
(***************************************************************************)
(* What a telnet client sends and what the server makes of it, byte by     *)
(* byte: the IAC parser (mud-net telnet/parser.rs), the line decoder       *)
(* (line.rs) behind it and the subnegotiations the machine turns into      *)
(* events (telnet/mod.rs).  All three keep their state between reads, so   *)
(* how the stream is cut into packets does not show.                       *)
(***************************************************************************)
EXTENDS Naturals, Sequences

CONSTANTS
  Text,        (* bytes the player's lines are made of                       *)
  Payloads,    (* payloads of the client's subnegotiations                   *)
  MaxLine,     (* MAX_LINE_BYTES                                             *)
  MaxSubneg,   (* MAX_SUBNEG_BYTES                                           *)
  MaxEvents,   (* bound: events the client sends                             *)
  Noise        (* bytes a client that speaks no telnet sends in any order    *)

Verbs    == {"WILL", "WONT", "DO", "DONT"}
Controls == Verbs \union {"IAC", "SB", "SE", "NOP"}
Endings  == {<<"CR", "LF">>, <<"CR", "NUL">>, <<"LF">>}
Offered  == {"TTYPE", "NAWS", "CHARSET", "other"}
Bytes    == Text \union Controls \union {"CR", "LF", "NUL", "TTYPE"}

ASSUME StreamAssumption ==
  /\ MaxLine \in Nat \ {0} /\ MaxSubneg \in Nat \ {0} /\ MaxEvents \in Nat
  /\ Text \intersect {"CR", "LF"} = {} /\ Payloads \subseteq Seq(Bytes)
  /\ Noise \subseteq Bytes

VARIABLES
  parser,   (* IacParser: its State                                          *)
  line,     (* LineDecoder                                                   *)
  got,      (* what the machine made of the stream, in order                 *)
  wire,     (* bytes the client has yet to put out                           *)
  typed,    (* the line it is sending, so far                                *)
  subneg,   (* the subnegotiation it is sending, so far                      *)
  meant,    (* what it meant by the bytes put out                            *)
  garbage   (* whether it is one that speaks no telnet                       *)

server == <<parser, line, got>>
client == <<wire, typed, subneg, meant, garbage>>
vars   == <<server, client>>

-----------------------------------------------------------------------------
\* IacParser::step: the next state and the item the byte completes.
InData      == [at |-> "Data"]
Sub(o, p, over) == [at |-> "SubPayload", option |-> o, payload |-> p, overflowed |-> over]
Goes(p)     == [to |-> p, item |-> <<>>]
Gives(item) == [to |-> InData, item |-> <<item>>]
Data(b)     == [is |-> "data", byte |-> b]
Negotiate(v, o)    == [is |-> "negotiate", verb |-> v, option |-> o]
Subnegotiated(o, p) == [is |-> "sub", option |-> o, payload |-> p]

AfterIac(b) ==
  CASE b = "IAC"   -> Gives(Data("IAC"))
    [] b \in Verbs -> Goes([at |-> "Verb", verb |-> b])
    [] b = "SB"    -> Goes([at |-> "SubOption"])
    [] OTHER       -> Gives([is |-> "command"])

SubPush(p, b) ==
  IF p.overflowed \/ Len(p.payload) >= MaxSubneg
  THEN Sub(p.option, p.payload, TRUE)
  ELSE Sub(p.option, Append(p.payload, b), FALSE)

ClosedUnlessOverflowed(p) ==                \* mutant: an oversized one never ends
  IF p.overflowed THEN Goes([p EXCEPT !.at = "SubPayload"])
  ELSE Gives(Subnegotiated(p.option, p.payload))
Closed(p) == IF p.overflowed THEN Goes(InData) ELSE Gives(Subnegotiated(p.option, p.payload))

AfterSubIacUnescaped(p, b) ==               \* mutant: any byte but SE continues
  IF b = "SE" THEN Closed(p) ELSE Goes(SubPush(p, b))
AfterSubIac(p, b) ==
  CASE b = "SE"  -> Closed(p)
    [] b = "IAC" -> Goes(SubPush(p, b))
    [] OTHER     -> AfterIac(b)

ParserStep(p, b) ==
  CASE p.at = "Data"      -> IF b = "IAC" THEN Goes([at |-> "Iac"]) ELSE Gives(Data(b))
    [] p.at = "Iac"       -> AfterIac(b)
    [] p.at = "Verb"      -> Gives(Negotiate(p.verb, b))
    [] p.at = "SubOption" -> Goes(Sub(b, <<>>, FALSE))
    [] p.at = "SubPayload" ->
         Goes(IF b = "IAC" THEN [p EXCEPT !.at = "SubIac"] ELSE SubPush(p, b))
    [] p.at = "SubIac"    -> AfterSubIac(p, b)

\* LineDecoder::push: a line comes out at its terminator, unless it overflowed.
\* What is not UTF-8 comes out as the replacement character.
Lossy(bytes) == [n \in DOMAIN bytes |-> IF bytes[n] \in {"IAC", "SE"} THEN "U+FFFD" ELSE bytes[n]]
Line(buf)    == [is |-> "line", text |-> Lossy(buf)]
Fresh(swallow) == [buf |-> <<>>, overflowed |-> FALSE, swallow |-> swallow]
Done(l)      == IF l.overflowed THEN <<>> ELSE <<Line(l.buf)>>
Out(l, es)   == [line |-> l, events |-> es]

KeepOverflowing(l, b) ==                    \* mutant: only notes the overflow
  [l EXCEPT !.swallow = FALSE, !.overflowed = Len(l.buf) >= MaxLine, !.buf = Append(@, b)]
Keep(l, b) ==
  IF Len(l.buf) >= MaxLine THEN [l EXCEPT !.swallow = FALSE, !.overflowed = TRUE]
  ELSE [l EXCEPT !.swallow = FALSE, !.buf = Append(@, b)]

LineStep(l, b) ==
  CASE l.swallow /\ b \in {"LF", "NUL"} -> Out([l EXCEPT !.swallow = FALSE], <<>>)
    [] b = "CR" -> Out(Fresh(TRUE), Done(l))
    [] b = "LF" /\ ~l.swallow -> Out(Fresh(FALSE), Done(l))
    [] OTHER    -> Out(Keep(l, b), <<>>)

\* TelnetMachine::on_subnegotiation: the events of a complete subnegotiation.
\* A CHARSET answer goes to the negotiator, and a terminal's type follows IS,
\* the byte that is also NUL.
Announced(o, p) ==
  CASE o = "NAWS" /\ Len(p) = 4 -> <<[is |-> "window", size |-> p]>>
    [] o = "TTYPE" /\ p # <<>> /\ p[1] = "NUL" -> <<[is |-> "terminal", name |-> Lossy(Tail(p))]>>
    [] o = "CHARSET" -> <<[is |-> "charset", answer |-> p]>>
    [] OTHER -> <<>>

\* TelnetMachine::receive, one byte of it: the line decoder's part, and the
\* events, of an item.
Takes(l, item) ==
  CASE item.is = "data"      -> LineStep(l, item.byte)
    [] item.is = "negotiate" -> Out(l, <<item>>)
    [] item.is = "sub"       -> Out(l, Announced(item.option, item.payload))
    [] item.is = "command"   -> Out(l, <<>>)
TakesAny(l, items) == IF items = <<>> THEN Out(l, <<>>) ELSE Takes(l, items[1])
Machine(p, l) == [parser |-> p, line |-> l, got |-> <<>>]
Receive(m, b) ==
  LET s   == ParserStep(m.parser, b)
      out == TakesAny(m.line, s.item)
  IN  [parser |-> s.to, line |-> out.line, got |-> m.got \o out.events]

Reads(b) ==
  LET m == Receive(Machine(parser, line), b)
  IN  /\ parser' = m.parser /\ line' = m.line
      /\ got' = IF garbage THEN got ELSE got \o m.got

-----------------------------------------------------------------------------
\* A client that speaks telnet (RFC 854) sends the bytes of a line, its end,
\* and between them commands, negotiations and subnegotiations.  It doubles an
\* IAC that is data.
Escaped(b)  == IF b = "IAC" THEN <<"IAC", "IAC">> ELSE <<b>>
NoSub       == [option |-> "none", payload |-> <<>>]
Says(bytes) == wire = <<>> /\ ~garbage /\ wire' = bytes
Means(es)   == meant' = meant \o es /\ Len(meant') <= MaxEvents

Types(b) ==
  /\ subneg = NoSub /\ Len(typed) <= MaxLine
  /\ Says(Escaped(b)) /\ typed' = Append(typed, b) /\ UNCHANGED <<subneg, meant>>
Ends(e) ==
  /\ subneg = NoSub /\ Says(e) /\ typed' = <<>> /\ UNCHANGED subneg
  /\ Means(IF Len(typed) <= MaxLine THEN <<Line(typed)>> ELSE <<>>)
Commands ==
  subneg = NoSub /\ Says(<<"IAC", "NOP">>) /\ UNCHANGED <<typed, subneg, meant>>
Asks(v) ==
  /\ subneg = NoSub /\ Says(<<"IAC", v, "TTYPE">>) /\ UNCHANGED <<typed, subneg>>
  /\ Means(<<Negotiate(v, "TTYPE")>>)

\* A subnegotiation: its option, one of the payloads, and its end.
Opens(o) ==
  /\ subneg = NoSub /\ Len(meant) < MaxEvents /\ Says(<<"IAC", "SB", o>>)
  /\ subneg' = [option |-> o, payload |-> <<>>] /\ UNCHANGED <<typed, meant>>
Adds(b) ==
  /\ subneg # NoSub /\ Says(Escaped(b))
  /\ subneg' = [subneg EXCEPT !.payload = Append(@, b)] /\ UNCHANGED <<typed, meant>>
Finishes ==
  /\ subneg # NoSub /\ Says(<<"IAC", "SE">>) /\ subneg' = NoSub /\ UNCHANGED typed
  /\ Means(IF Len(subneg.payload) <= MaxSubneg
           THEN Announced(subneg.option, subneg.payload) ELSE <<>>)
\* Or another command breaks it off.
BreaksOff ==
  /\ subneg # NoSub /\ Says(<<"IAC", "WILL", "TTYPE">>) /\ subneg' = NoSub
  /\ Means(<<Negotiate("WILL", "TTYPE")>>) /\ UNCHANGED typed
Continues(p) ==
  LET n == Len(subneg.payload)
  IN  n < Len(p) /\ subneg.payload = SubSeq(p, 1, n) /\ Adds(p[n + 1])

ClientSends ==
  /\ \/ \E b \in Text : Types(b)
     \/ \E e \in Endings : Ends(e)
     \/ Commands
     \/ \E v \in Verbs : Asks(v)
     \/ \E o \in Offered : Opens(o)
     \/ \E p \in Payloads : Continues(p)
     \/ subneg.payload \in Payloads /\ (Finishes \/ BreaksOff)
  /\ UNCHANGED <<server, garbage>>

ByteArrives ==
  /\ wire # <<>> /\ Reads(Head(wire))
  /\ wire' = Tail(wire) /\ UNCHANGED <<typed, subneg, meant, garbage>>

\* A client that sends anything at all.  What is made of it is not recorded.
GarbageArrives(b) ==
  /\ garbage /\ Reads(b) /\ UNCHANGED client

Init ==
  /\ parser = InData /\ line = Fresh(FALSE) /\ got = <<>>
  /\ wire = <<>> /\ typed = <<>> /\ subneg = NoSub /\ meant = <<>> /\ garbage \in BOOLEAN
Next == ClientSends \/ ByteArrives \/ \E b \in Noise : GarbageArrives(b)
Spec == Init /\ [][Next]_vars

-----------------------------------------------------------------------------
\* The decoder never keeps more of a client's bytes than its two limits,
\* whatever it is sent (parser.rs:18-20, line.rs:8-9).
StreamTypeOK ==
  /\ parser.at \in {"Data", "Iac", "Verb", "SubOption", "SubPayload", "SubIac"}
  /\ parser.at \in {"SubPayload", "SubIac"} => Len(parser.payload) <= MaxSubneg
  /\ Len(line.buf) <= MaxLine /\ line.overflowed \in BOOLEAN /\ line.swallow \in BOOLEAN

\* Once its bytes are read, the machine has made of them exactly what the
\* client meant, in order: no line lost, split, merged, doubled or cut short,
\* whatever else was sent in its midst.
Understood == wire = <<>> => got = meant

\* Whatever a client has sent, IAC SE twice (once more than where it stands in a
\* subnegotiation's option) and an end of line bring the decoder back to the
\* start: garbage degrades, it never aborts the stream (parser.rs:5-6).
Resynchronises ==
  LET Ended(m) == Receive(Receive(m, "IAC"), "SE")
      m == Receive(Receive(Ended(Ended(Machine(parser, line))), "CR"), "LF")
  IN  m.parser = InData /\ m.line = Fresh(FALSE)

\* The two together: whatever arrives, memory stays bounded and the stream can be
\* taken up again.
Withstands == StreamTypeOK /\ Resynchronises
=============================================================================
