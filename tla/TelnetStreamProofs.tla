-------------------------- MODULE TelnetStreamProofs --------------------------
(***************************************************************************)
(* Proofs about the telnet stream, for any two limits, any payloads and    *)
(* lines and any bytes from a client that speaks no telnet.  What the      *)
(* inductive invariant says is said of the moment the client's bytes have  *)
(* been read: the decoder then holds exactly what the client is in the     *)
(* middle of, and has made of the rest what was meant.                     *)
(***************************************************************************)
EXTENDS TelnetStream, SequenceTheorems, TLAPS

\* Every byte that arrives, and every character that comes out.
Byte  == Bytes \union Offered
Shown == Byte \union {"U+FFFD"}

\* The ranges of the parser and the decoder, within their limits.
Payload == {p \in Seq(Byte) : Len(p) <= MaxSubneg}
ParserState ==
  {InData, [at |-> "Iac"], [at |-> "SubOption"]}
    \union {[at |-> "Verb", verb |-> v] : v \in Verbs}
    \union [at : {"SubPayload", "SubIac"}, option : Byte, payload : Payload, overflowed : BOOLEAN]
LineState ==
  [buf : {b \in Seq(Byte) : Len(b) <= MaxLine}, overflowed : BOOLEAN, swallow : BOOLEAN]
Event ==
  [is : {"line"}, text : Seq(Shown)] \union [is : {"negotiate"}, verb : Verbs, option : Byte]
    \union [is : {"window"}, size : Seq(Byte)] \union [is : {"terminal"}, name : Seq(Shown)]
    \union [is : {"charset"}, answer : Seq(Byte)]
Item ==
  [is : {"data"}, byte : Byte] \union [is : {"negotiate"}, verb : Verbs, option : Byte]
    \union [is : {"sub"}, option : Byte, payload : Seq(Byte)] \union [is : {"command"}]
MachineState == [parser : ParserState, line : LineState, got : Seq(Event)]

\* The bytes under way, read to the end: never more than three.
After(m, w) ==
  CASE Len(w) = 0 -> m
    [] Len(w) = 1 -> Receive(m, w[1])
    [] Len(w) = 2 -> Receive(Receive(m, w[1]), w[2])
    [] Len(w) = 3 -> Receive(Receive(Receive(m, w[1]), w[2]), w[3])

\* A decoder that holds the bytes b of a line, and a parser in the middle of the
\* subnegotiation s; what overflowed is not kept.
Holds(l, b) ==
  /\ ~l.swallow
  /\ IF Len(b) <= MaxLine THEN l.buf = b /\ ~l.overflowed ELSE l.overflowed /\ Len(l.buf) >= MaxLine
Within(p, s) ==
  IF s = NoSub THEN p = InData
  ELSE /\ p.at = "SubPayload" /\ p.option = s.option
       /\ IF Len(s.payload) <= MaxSubneg THEN p.payload = s.payload /\ ~p.overflowed
          ELSE p.overflowed

Rests(m, t, s) == Holds(m.line, t) /\ Within(m.parser, s)

Ranges ==
  /\ parser \in ParserState /\ line \in LineState /\ got \in Seq(Event)
  /\ wire \in Seq(Byte) /\ Len(wire) <= 3 /\ typed \in Seq(Text) /\ meant \in Seq(Event)
  /\ subneg \in {NoSub} \union [option : Offered, payload : Seq(Bytes)]
  /\ garbage \in BOOLEAN
Understands ==
  LET m == After(Machine(parser, line), wire)
  IN  Rests(m, typed, subneg) /\ got \o m.got = meant
Silent == wire = <<>> /\ got = <<>> /\ meant = <<>>

StreamProofInv == Ranges /\ IF garbage THEN Silent ELSE Understands

-----------------------------------------------------------------------------
\* IacParser::step keeps within its states, and completes items of its four kinds.
LEMMA ParserStepTypes ==
  ASSUME NEW p \in ParserState, NEW b \in Byte
  PROVE  /\ ParserStep(p, b).to \in ParserState
         /\ \/ ParserStep(p, b).item = <<>>
            \/ \E i \in Item : ParserStep(p, b).item = <<i>>
  <1> DEFINE Sound(s) == s.to \in ParserState /\ (s.item = <<>> \/ \E i \in Item : s.item = <<i>>)
  <1>1. /\ InData \in ParserState /\ [at |-> "Iac"] \in ParserState /\ [at |-> "SubOption"] \in ParserState
        /\ \A v \in Verbs : [at |-> "Verb", verb |-> v] \in ParserState
        /\ \A q \in ParserState : Sound(Goes(q))
        /\ \A i \in Item : Sound(Gives(i))
    BY DEF ParserState, Goes, Gives
  <1>2. /\ \A c \in Byte : Data(c) \in Item
        /\ \A v \in Verbs, c \in Byte : Negotiate(v, c) \in Item
        /\ \A c \in Byte, q \in Seq(Byte) : Subnegotiated(c, q) \in Item
        /\ [is |-> "command"] \in Item
    BY DEF Data, Negotiate, Subnegotiated, Item
  <1> HIDE DEF Sound
  <1>3. Sound(AfterIac(b))
    BY <1>1, <1>2 DEF AfterIac
  <1>4. CASE p.at \in {"Data", "Iac", "SubOption"}
    <2>1. Sub(b, <<>>, FALSE) \in ParserState
      BY StreamAssumption, EmptySeq DEF ParserState, Payload, Sub
    <2>2. Sound(ParserStep(p, b))
      BY <1>1, <1>2, <1>3, <1>4, <2>1 DEF ParserStep
    <2> QED BY <2>2 DEF Sound
  <1>5. CASE p.at = "Verb"
    <2>1. p.verb \in Verbs
      BY <1>5 DEF ParserState, InData
    <2>2. Sound(ParserStep(p, b))
      BY <1>1, <1>2, <1>5, <2>1 DEF ParserStep
    <2> QED BY <2>2 DEF Sound
  <1>6. CASE p.at \in {"SubPayload", "SubIac"}
    <2>1. /\ p \in [at : {"SubPayload", "SubIac"}, option : Byte, payload : Payload, overflowed : BOOLEAN]
          /\ p.payload \in Seq(Byte) /\ Len(p.payload) \in Nat /\ Len(p.payload) <= MaxSubneg
          /\ p.option \in Byte
      BY <1>6 DEF ParserState, InData, Payload
    <2>2. SubPush(p, b) \in ParserState
      <3>1. CASE p.overflowed \/ Len(p.payload) >= MaxSubneg
        BY <2>1, <3>1 DEF SubPush, Sub, ParserState
      <3>2. CASE ~(p.overflowed \/ Len(p.payload) >= MaxSubneg)
        <4>1. Append(p.payload, b) \in Payload
          BY <2>1, <3>2, StreamAssumption, AppendProperties DEF Payload
        <4> QED BY <2>1, <3>2, <4>1 DEF SubPush, Sub, ParserState
      <3> QED BY <3>1, <3>2
    <2>3. [p EXCEPT !.at = "SubIac"] \in ParserState
      BY <2>1 DEF ParserState
    <2>4. Sound(Closed(p))
      BY <1>1, <1>2, <2>1 DEF Closed
    <2>5. Sound(ParserStep(p, b))
      BY <1>1, <1>3, <1>6, <2>2, <2>3, <2>4 DEF ParserStep, AfterSubIac
    <2> QED BY <2>5 DEF Sound
  <1>7. p.at \in {"Data", "Iac", "SubOption", "Verb", "SubPayload", "SubIac"}
    BY DEF ParserState, InData
  <1> QED BY <1>4, <1>5, <1>6, <1>7

\* What comes out of bytes is characters.
LEMMA LossyTypes ==
  ASSUME NEW q \in Seq(Byte)
  PROVE  Lossy(q) \in Seq(Shown)
  <1>1. DOMAIN q = 1 .. Len(q) /\ Len(q) \in Nat /\ \A n \in 1 .. Len(q) : q[n] \in Byte
    BY ElementOfSeq, LenProperties
  <1> DEFINE n == Len(q)
             f == [k \in 1 .. n |-> IF q[k] \in {"IAC", "SE"} THEN "U+FFFD" ELSE q[k]]
  <1>2. f \in Seq(Shown)
    <2>1. \A k \in 1 .. n : f[k] \in Shown
      BY <1>1 DEF Shown
    <2> HIDE DEF f
    <2>2. f \in [1 .. n -> Shown]
      BY <2>1 DEF f
    <2> QED BY <1>1, <2>2, SeqDef
  <1>3. Lossy(q) = f
    BY <1>1 DEF Lossy
  <1> QED BY <1>2, <1>3

\* LineDecoder::push keeps its limit, and gives lines.
LEMMA LineStepTypes ==
  ASSUME NEW l \in LineState, NEW b \in Byte
  PROVE  LineStep(l, b).line \in LineState /\ LineStep(l, b).events \in Seq(Event)
  <1>1. /\ l.buf \in Seq(Byte) /\ Len(l.buf) \in Nat /\ Len(l.buf) <= MaxLine
        /\ l.overflowed \in BOOLEAN /\ l.swallow \in BOOLEAN
    BY DEF LineState
  <1>2. Fresh(TRUE) \in LineState /\ Fresh(FALSE) \in LineState
    BY StreamAssumption, EmptySeq DEF Fresh, LineState
  <1>3. Done(l) \in Seq(Event)
    <2>1. Line(l.buf) \in Event
      BY <1>1, LossyTypes DEF Line, Event
    <2> QED BY <2>1, EmptySeq DEF Done
  <1>4. Keep(l, b) \in LineState
    <2>1. CASE Len(l.buf) >= MaxLine
      BY <1>1, <2>1 DEF Keep, LineState
    <2>2. CASE ~(Len(l.buf) >= MaxLine)
      <3>1. Append(l.buf, b) \in Seq(Byte) /\ Len(Append(l.buf, b)) <= MaxLine
        BY <1>1, <2>2, StreamAssumption, AppendProperties
      <3> QED BY <1>1, <2>2, <3>1 DEF Keep, LineState
    <2> QED BY <2>1, <2>2
  <1>5. [l EXCEPT !.swallow = FALSE] \in LineState
    BY DEF LineState
  <1>6. <<>> \in Seq(Event)
    BY EmptySeq
  <1> QED BY <1>2, <1>3, <1>4, <1>5, <1>6 DEF LineStep, Out

\* on_subnegotiation gives events.
LEMMA AnnouncedTypes ==
  ASSUME NEW o \in Byte, NEW p \in Seq(Byte)
  PROVE  Announced(o, p) \in Seq(Event)
  <1>1. [is |-> "window", size |-> p] \in Event /\ [is |-> "charset", answer |-> p] \in Event
    BY DEF Event
  <1>2. p # <<>> => [is |-> "terminal", name |-> Lossy(Tail(p))] \in Event
    <2>1. p # <<>> => Tail(p) \in Seq(Byte)
      BY HeadTailProperties
    <2> QED BY <2>1, LossyTypes DEF Event
  <1>3. <<>> \in Seq(Event) /\ \A e \in Event : <<e>> \in Seq(Event)
    BY EmptySeq
  <1> QED BY <1>1, <1>2, <1>3 DEF Announced

\* What the machine makes of an item.
LEMMA TakesTypes ==
  ASSUME NEW l \in LineState, NEW i \in Item
  PROVE  Takes(l, i).line \in LineState /\ Takes(l, i).events \in Seq(Event)
  <1>1. <<>> \in Seq(Event) /\ \A e \in Event : <<e>> \in Seq(Event)
    BY EmptySeq
  <1>2. CASE i.is = "data"
    BY <1>2, LineStepTypes DEF Takes, Item
  <1>3. CASE i.is = "negotiate"
    <2>1. i \in Event
      BY <1>3 DEF Item, Event
    <2> QED BY <1>1, <1>3, <2>1 DEF Takes, Out
  <1>4. CASE i.is = "sub"
    <2>1. Announced(i.option, i.payload) \in Seq(Event)
      BY <1>4, AnnouncedTypes DEF Item
    <2> QED BY <1>4, <2>1 DEF Takes, Out
  <1>5. CASE i.is = "command"
    BY <1>1, <1>5 DEF Takes, Out
  <1> QED BY <1>2, <1>3, <1>4, <1>5 DEF Item

\* What a byte makes of the machine, and what it adds to what was given before.
Made(m, b) == TakesAny(m.line, ParserStep(m.parser, b).item)

\* A byte leaves the machine within its ranges, and adds events behind those it
\* has given.
LEMMA ReceiveTypes ==
  ASSUME NEW m \in MachineState, NEW b \in Byte
  PROVE  /\ Made(m, b).events \in Seq(Event)
         /\ Receive(m, b) = [parser |-> ParserStep(m.parser, b).to, line |-> Made(m, b).line,
                             got |-> m.got \o Made(m, b).events]
         /\ Receive(m, b) \in MachineState
  <1>1. m.parser \in ParserState /\ m.line \in LineState /\ m.got \in Seq(Event)
    BY DEF MachineState
  <1>2. Receive(m, b) = [parser |-> ParserStep(m.parser, b).to, line |-> Made(m, b).line,
                         got |-> m.got \o Made(m, b).events]
    BY DEF Receive, Made
  <1>3. Made(m, b).line \in LineState /\ Made(m, b).events \in Seq(Event)
    <2> DEFINE s == ParserStep(m.parser, b)
    <2>1. s.item = <<>> \/ \E i \in Item : s.item = <<i>>
      BY <1>1, ParserStepTypes
    <2> HIDE DEF s
    <2>2. CASE s.item = <<>>
      BY <1>1, <2>2, EmptySeq DEF Made, TakesAny, Out, s
    <2>3. ASSUME NEW i \in Item, s.item = <<i>>
          PROVE  Made(m, b).line \in LineState /\ Made(m, b).events \in Seq(Event)
      <3>1. Made(m, b) = Takes(m.line, i)
        BY <2>3 DEF Made, TakesAny, s
      <3> QED BY <1>1, <3>1, TakesTypes
    <2> QED BY <2>1, <2>2, <2>3
  <1>4. Receive(m, b) \in MachineState
    <2>1. m.got \o Made(m, b).events \in Seq(Event)
      BY <1>1, <1>3, ConcatProperties
    <2> QED BY <1>1, <1>2, <1>3, <2>1, ParserStepTypes DEF MachineState
  <1> QED BY <1>2, <1>3, <1>4

-----------------------------------------------------------------------------
\* A byte that completes no item, and one that completes one.
LEMMA Going ==
  ASSUME NEW m \in MachineState, NEW b \in Byte, NEW q, ParserStep(m.parser, b) = Goes(q)
  PROVE  Receive(m, b) = [parser |-> q, line |-> m.line, got |-> m.got]
  <1>1. ParserStep(m.parser, b).to = q /\ ParserStep(m.parser, b).item = <<>>
    BY DEF Goes
  <1>2. Made(m, b) = Out(m.line, <<>>)
    BY <1>1 DEF Made, TakesAny
  <1>3. m.got \o <<>> = m.got
    BY ConcatEmptySeq DEF MachineState
  <1>4. Made(m, b).line = m.line /\ Made(m, b).events = <<>>
    BY <1>2 DEF Out
  <1>5. Receive(m, b) = [parser |-> ParserStep(m.parser, b).to, line |-> Made(m, b).line,
                         got |-> m.got \o Made(m, b).events]
    BY ReceiveTypes
  <1> QED BY <1>1, <1>3, <1>4, <1>5

\* The second of the two: the item goes to the line decoder or becomes events.
LEMMA Giving ==
  ASSUME NEW m \in MachineState, NEW b \in Byte, NEW i \in Item, ParserStep(m.parser, b) = Gives(i)
  PROVE  Receive(m, b) = [parser |-> InData, line |-> Takes(m.line, i).line,
                          got |-> m.got \o Takes(m.line, i).events]
  <1>1. ParserStep(m.parser, b).to = InData /\ ParserStep(m.parser, b).item = <<i>>
    BY DEF Gives
  <1>2. Made(m, b) = Takes(m.line, i)
    BY <1>1 DEF Made, TakesAny
  <1> QED BY <1>1, <1>2, ReceiveTypes

\* What was given before changes nothing of what a byte makes.
Prefixed(g, m) == [parser |-> m.parser, line |-> m.line, got |-> g \o m.got]

\* A step of the machine is the same whatever it gave before.
LEMMA ReceivePrefixed ==
  ASSUME NEW m \in MachineState, NEW b \in Byte, NEW g \in Seq(Event)
  PROVE  Prefixed(g, m) \in MachineState /\ Receive(Prefixed(g, m), b) = Prefixed(g, Receive(m, b))
  <1>1. g \o m.got \in Seq(Event) /\ m.got \in Seq(Event)
    BY ConcatProperties DEF MachineState
  <1>2. Prefixed(g, m) \in MachineState
    BY <1>1 DEF Prefixed, MachineState
  <1>3. Made(Prefixed(g, m), b) = Made(m, b) /\ Made(m, b).events \in Seq(Event)
    BY ReceiveTypes DEF Made, Prefixed
  <1>4. (g \o m.got) \o Made(m, b).events = g \o (m.got \o Made(m, b).events)
    <2>1. \A x, y, z \in Seq(Event) : (x \o y) \o z = x \o (y \o z)
      BY ConcatAssociative
    <2> QED BY <1>1, <1>3, <2>1
  <1>5. Receive(Prefixed(g, m), b) =
          [parser |-> ParserStep(m.parser, b).to, line |-> Made(m, b).line,
           got |-> (g \o m.got) \o Made(m, b).events]
    BY <1>2, <1>3, ReceiveTypes DEF Prefixed
  <1>6. Receive(m, b) = [parser |-> ParserStep(m.parser, b).to, line |-> Made(m, b).line,
                         got |-> m.got \o Made(m, b).events]
    BY ReceiveTypes
  <1> QED BY <1>2, <1>4, <1>5, <1>6 DEF Prefixed

\* The bytes under way, one by one.
LEMMA Few ==
  ASSUME NEW w \in Seq(Byte), Len(w) <= 3
  PROVE  \/ Len(w) = 0
         \/ Len(w) = 1 /\ w[1] \in Byte
         \/ Len(w) = 2 /\ w[1] \in Byte /\ w[2] \in Byte
         \/ Len(w) = 3 /\ w[1] \in Byte /\ w[2] \in Byte /\ w[3] \in Byte
  <1>1. PICK n \in Nat : n = Len(w)
    OBVIOUS
  <1>2. n \in {0, 1, 2, 3} /\ \A i \in 1 .. n : w[i] \in Byte
    BY <1>1, ElementOfSeq
  <1>3. n = 1 => w[1] \in Byte
    BY <1>2
  <1>4. n = 2 => w[1] \in Byte /\ w[2] \in Byte
    BY <1>2
  <1>5. n = 3 => w[1] \in Byte /\ w[2] \in Byte /\ w[3] \in Byte
    BY <1>2
  <1> QED BY <1>1, <1>2, <1>3, <1>4, <1>5

\* The bytes under way leave a machine in range, whatever it gave before.
LEMMA AfterPrefixed ==
  ASSUME NEW m \in MachineState, NEW g \in Seq(Event), NEW w \in Seq(Byte), Len(w) <= 3
  PROVE  After(m, w) \in MachineState /\ After(Prefixed(g, m), w) = Prefixed(g, After(m, w))
  <1>1. \A n \in MachineState, b \in Byte :
          Receive(n, b) \in MachineState /\ Receive(Prefixed(g, n), b) = Prefixed(g, Receive(n, b))
    BY ReceiveTypes, ReceivePrefixed
  <1>2. CASE Len(w) = 0
    BY <1>2 DEF After
  <1>3. CASE Len(w) = 1
    <2>1. w[1] \in Byte
      <3>1. 1 \in 1 .. Len(w)
        BY <1>3
      <3> QED BY <3>1, ElementOfSeq
    <2>2. \A n : After(n, w) = Receive(n, w[1])
      BY <1>3 DEF After
    <2> QED BY <1>1, <2>1, <2>2
  <1>4. CASE Len(w) = 2
    <2>1. w[1] \in Byte /\ w[2] \in Byte
      BY <1>4, Few
    <2>2. \A n : After(n, w) = Receive(Receive(n, w[1]), w[2])
      BY <1>4 DEF After
    <2> QED BY <1>1, <2>1, <2>2
  <1>5. CASE Len(w) = 3
    <2>1. w[1] \in Byte /\ w[2] \in Byte /\ w[3] \in Byte
      BY <1>5, Few
    <2>2. \A n : After(n, w) = Receive(Receive(Receive(n, w[1]), w[2]), w[3])
      BY <1>5 DEF After
    <2> QED BY <1>1, <2>1, <2>2
  <1> QED BY <1>2, <1>3, <1>4, <1>5, Few

\* Reading the bytes under way begins with the first of them.
LEMMA AfterFirst ==
  ASSUME NEW m, NEW w \in Seq(Byte), Len(w) <= 3, w # <<>>
  PROVE  After(m, w) = After(Receive(m, Head(w)), Tail(w))
  <1> DEFINE r == Tail(w)
  <1>1. /\ Len(r) = Len(w) - 1 /\ Head(w) = w[1] /\ Len(w) # 0
        /\ \A i \in 1 .. Len(r) : r[i] = w[i + 1]
    BY HeadTailProperties, EmptySeq
  <1> HIDE DEF r
  <1>2. CASE Len(w) = 1
    <2>1. Len(r) = 0
      BY <1>1, <1>2
    <2>2. \A n : After(n, r) = n
      BY <2>1 DEF After
    <2>3. After(m, w) = Receive(m, w[1])
      BY <1>2 DEF After
    <2> QED BY <1>1, <2>2, <2>3 DEF r
  <1>3. CASE Len(w) = 2
    <2>1. Len(r) = 1 /\ r[1] = w[2]
      BY <1>1, <1>3
    <2>2. \A n : After(n, r) = Receive(n, w[2])
      BY <2>1 DEF After
    <2>3. After(m, w) = Receive(Receive(m, w[1]), w[2])
      BY <1>3 DEF After
    <2> QED BY <1>1, <2>2, <2>3 DEF r
  <1>4. CASE Len(w) = 3
    <2>1. Len(r) = 2 /\ r[1] = w[2] /\ r[2] = w[3]
      BY <1>1, <1>4
    <2>2. \A n : After(n, r) = Receive(Receive(n, w[2]), w[3])
      BY <2>1 DEF After
    <2>3. After(m, w) = Receive(Receive(Receive(m, w[1]), w[2]), w[3])
      BY <1>4 DEF After
    <2> QED BY <1>1, <2>2, <2>3 DEF r
  <1> QED BY <1>1, <1>2, <1>3, <1>4, Few

-----------------------------------------------------------------------------
\* The bytes in play, and what the bytes a client puts out at once add up to.
LEMMA PlayBytes ==
  /\ Text \subseteq Byte /\ Verbs \subseteq Byte /\ Offered \subseteq Byte /\ Bytes \subseteq Byte
  /\ {"IAC", "SB", "SE", "NOP", "CR", "LF", "NUL", "TTYPE", "WILL"} \subseteq Byte
  /\ "WILL" \in Verbs /\ \A v \in Verbs : v \notin {"IAC", "SB", "SE", "NOP"}
  /\ \A b \in Text : b \notin {"CR", "LF"}
  BY StreamAssumption DEF Byte, Bytes, Controls, Verbs, Offered

\* Reading one, two and three bytes that are written out.
LEMMA Sentences ==
  /\ \A m, a : After(m, <<a>>) = Receive(m, a)
  /\ \A m, a, b : After(m, <<a, b>>) = Receive(Receive(m, a), b)
  /\ \A m, a, b, c : After(m, <<a, b, c>>) = Receive(Receive(Receive(m, a), b), c)
  <1>1. ASSUME NEW m, NEW a PROVE After(m, <<a>>) = Receive(m, a)
    <2>1. Len(<<a>>) = 1 /\ <<a>>[1] = a
      OBVIOUS
    <2> QED BY <2>1 DEF After
  <1>2. ASSUME NEW m, NEW a, NEW b PROVE After(m, <<a, b>>) = Receive(Receive(m, a), b)
    <2>1. Len(<<a, b>>) = 2 /\ <<a, b>>[1] = a /\ <<a, b>>[2] = b
      OBVIOUS
    <2> QED BY <2>1 DEF After
  <1>3. ASSUME NEW m, NEW a, NEW b, NEW c
        PROVE  After(m, <<a, b, c>>) = Receive(Receive(Receive(m, a), b), c)
    <2>1. Len(<<a, b, c>>) = 3 /\ <<a, b, c>>[1] = a /\ <<a, b, c>>[2] = b /\ <<a, b, c>>[3] = c
      OBVIOUS
    <2> QED BY <2>1 DEF After
  <1> QED BY <1>1, <1>2, <1>3

\* Two bytes, of which the first completes nothing.
LEMMA GoesOn ==
  ASSUME NEW m \in MachineState, NEW a \in Byte, NEW b, NEW q, ParserStep(m.parser, a) = Goes(q)
  PROVE  LET n == [parser |-> q, line |-> m.line, got |-> m.got]
         IN  n \in MachineState /\ Receive(m, a) = n
  BY Going, ReceiveTypes

\* A byte of data, doubled where it must be.
LEMMA Escapes ==
  ASSUME NEW m \in MachineState, m.parser = InData, NEW b \in Byte
  PROVE  After(m, Escaped(b)) =
           [parser |-> InData, line |-> LineStep(m.line, b).line,
            got |-> m.got \o LineStep(m.line, b).events]
  <1>1. Data(b) \in Item /\ \A l : Takes(l, Data(b)) = LineStep(l, b)
    BY DEF Data, Item, Takes
  <1>2. CASE b # "IAC"
    <2>1. ParserStep(m.parser, b) = Gives(Data(b))
      BY <1>2 DEF ParserStep, InData
    <2>2. Escaped(b) = <<b>>
      BY <1>2 DEF Escaped
    <2>3. After(m, <<b>>) = Receive(m, b)
      BY Sentences
    <2> QED BY <1>1, <2>1, <2>2, <2>3, Giving
  <1>3. CASE b = "IAC"
    <2> DEFINE n == [parser |-> [at |-> "Iac"], line |-> m.line, got |-> m.got]
    <2>1. ParserStep(m.parser, b) = Goes([at |-> "Iac"])
      BY <1>3 DEF ParserStep, InData
    <2>2. Receive(m, b) = n /\ n \in MachineState
      BY <2>1, GoesOn
    <2>3. ParserStep(n.parser, b) = Gives(Data(b))
      <3>1. \A q : q = [at |-> "Iac"] => ParserStep(q, b) = AfterIac(b)
        BY DEF ParserStep
      <3>2. AfterIac(b) = Gives(Data(b))
        BY <1>3 DEF AfterIac, Verbs
      <3> QED BY <3>1, <3>2
    <2>4. Receive(n, b) = [parser |-> InData, line |-> LineStep(m.line, b).line,
                           got |-> m.got \o LineStep(m.line, b).events]
      BY <1>1, <2>2, <2>3, Giving
    <2>5. Escaped(b) = <<b, b>>
      BY <1>3 DEF Escaped
    <2>6. After(m, <<b, b>>) = Receive(Receive(m, b), b)
      BY Sentences
    <2> QED BY <2>2, <2>4, <2>5, <2>6
  <1> QED BY <1>2, <1>3

\* The line decoder keeps a byte of text.
LEMMA Kept ==
  ASSUME NEW l \in LineState, NEW t \in Seq(Text), Holds(l, t), NEW b \in Text
  PROVE  /\ LineStep(l, b).events = <<>>
         /\ Holds(LineStep(l, b).line, Append(t, b))
  <1>1. b \notin {"CR", "LF"} /\ ~l.swallow /\ MaxLine \in Nat
    BY PlayBytes, StreamAssumption DEF Holds
  <1>2. LineStep(l, b) = Out(Keep(l, b), <<>>)
    BY <1>1 DEF LineStep
  <1>3. /\ Len(t) \in Nat /\ Len(Append(t, b)) = Len(t) + 1
        /\ Len(l.buf) \in Nat /\ Len(l.buf) <= MaxLine /\ l.overflowed \in BOOLEAN
    BY AppendProperties DEF LineState
  <1>4. Holds(Keep(l, b), Append(t, b))
    <2>1. CASE Len(l.buf) >= MaxLine
      <3>1. Keep(l, b) = [l EXCEPT !.swallow = FALSE, !.overflowed = TRUE]
        BY <2>1 DEF Keep
      <3>2. Keep(l, b).overflowed /\ ~Keep(l, b).swallow /\ Keep(l, b).buf = l.buf
        BY <3>1 DEF LineState
      <3>3. Len(t) >= MaxLine
        BY <1>3, <1>1, <2>1 DEF Holds
      <3> QED BY <1>1, <1>3, <2>1, <3>2, <3>3 DEF Holds
    <2>2. CASE ~(Len(l.buf) >= MaxLine)
      <3>1. Keep(l, b) = [l EXCEPT !.swallow = FALSE, !.buf = Append(l.buf, b)]
        BY <2>2 DEF Keep
      <3>2. /\ Keep(l, b).overflowed = l.overflowed /\ ~Keep(l, b).swallow
            /\ Keep(l, b).buf = Append(l.buf, b)
        BY <3>1 DEF LineState
      <3>3. Len(t) <= MaxLine /\ l.buf = t /\ ~l.overflowed
        BY <2>2 DEF Holds
      <3>4. Len(t) + 1 <= MaxLine
        BY <1>1, <1>3, <2>2, <3>3
      <3> QED BY <1>3, <3>2, <3>3, <3>4 DEF Holds
    <2> QED BY <2>1, <2>2
  <1> QED BY <1>2, <1>4 DEF Out

\* The start of a line, and the second byte of an end of two.
LEMMA LineStarts ==
  /\ \A l : LineStep(l, "CR") = Out(Fresh(TRUE), Done(l))
  /\ LineStep(Fresh(TRUE), "LF") = Out(Fresh(FALSE), <<>>)
  /\ LineStep(Fresh(TRUE), "NUL") = Out(Fresh(FALSE), <<>>)
  /\ Fresh(TRUE) \in LineState /\ Fresh(FALSE) \in LineState /\ Holds(Fresh(FALSE), <<>>)
  <1>1. \A l : LineStep(l, "CR") = Out(Fresh(TRUE), Done(l))
    BY DEF LineStep
  <1>2. Fresh(TRUE) \in LineState /\ Fresh(FALSE) \in LineState
    BY StreamAssumption, EmptySeq DEF Fresh, LineState
  <1>3. /\ Fresh(TRUE).swallow /\ [Fresh(TRUE) EXCEPT !.swallow = FALSE] = Fresh(FALSE)
        /\ ~Fresh(FALSE).swallow /\ Fresh(FALSE).buf = <<>> /\ ~Fresh(FALSE).overflowed
    <2>1. [Fresh(TRUE) EXCEPT !.swallow = FALSE] = Fresh(FALSE)
      <3> DEFINE r == [Fresh(TRUE) EXCEPT !.swallow = FALSE]
      <3>1. r \in LineState /\ r.buf = Fresh(TRUE).buf /\ r.overflowed = Fresh(TRUE).overflowed
            /\ r.swallow = FALSE
        BY <1>2 DEF LineState
      <3>2. /\ Fresh(TRUE).buf = Fresh(FALSE).buf /\ Fresh(TRUE).overflowed = Fresh(FALSE).overflowed
            /\ Fresh(FALSE).swallow = FALSE
        BY DEF Fresh
      <3>3. \A x, y \in LineState :
              x.buf = y.buf /\ x.overflowed = y.overflowed /\ x.swallow = y.swallow => x = y
        BY DEF LineState
      <3> HIDE DEF r
      <3>4. r = Fresh(FALSE)
        BY <1>2, <3>1, <3>2, <3>3
      <3> QED BY <3>4 DEF r
    <2>2. Fresh(TRUE).swallow = TRUE /\ Fresh(FALSE).swallow = FALSE /\ Fresh(FALSE).overflowed = FALSE
      BY DEF Fresh
    <2>3. Fresh(FALSE).buf = <<>>
      BY DEF Fresh
    <2> QED BY <2>1, <2>2, <2>3
  <1>4. /\ LineStep(Fresh(TRUE), "LF") = Out(Fresh(FALSE), <<>>)
        /\ LineStep(Fresh(TRUE), "NUL") = Out(Fresh(FALSE), <<>>)
    BY <1>3 DEF LineStep
  <1>5. Holds(Fresh(FALSE), <<>>)
    <2>1. Len(<<>>) = 0 /\ 0 <= MaxLine
      BY StreamAssumption
    <2> QED BY <1>3, <2>1 DEF Holds
  <1> QED BY <1>1, <1>2, <1>4, <1>5

\* The line decoder gives the line at each of the two bytes that end it.
LEMMA LineEnds ==
  ASSUME NEW l \in LineState, NEW t \in Seq(Text), Holds(l, t)
  PROVE  LET es == IF Len(t) <= MaxLine THEN <<Line(t)>> ELSE <<>>
         IN  LineStep(l, "CR") = Out(Fresh(TRUE), es) /\ LineStep(l, "LF") = Out(Fresh(FALSE), es)
  <1>1. ~l.swallow /\ Done(l) = IF Len(t) <= MaxLine THEN <<Line(t)>> ELSE <<>>
    BY DEF Holds, Done
  <1>2. LineStep(l, "CR") = Out(Fresh(TRUE), Done(l)) /\ LineStep(l, "LF") = Out(Fresh(FALSE), Done(l))
    BY <1>1 DEF LineStep
  <1> QED BY <1>1, <1>2

\* The parser inside a subnegotiation: one more byte of its payload, its end, and
\* a command that breaks it off.
LEMMA SubSteps ==
  ASSUME NEW m \in MachineState, NEW s \in [option : Offered, payload : Seq(Bytes)], Within(m.parser, s)
  PROVE  /\ s # NoSub /\ m.parser.at = "SubPayload" /\ m.parser.option = s.option
         /\ m.parser.overflowed \in BOOLEAN /\ m.parser.payload \in Seq(Byte)
         /\ Len(m.parser.payload) \in Nat /\ Len(m.parser.payload) <= MaxSubneg
         /\ \A b \in Byte : b # "IAC" => ParserStep(m.parser, b) = Goes(SubPush(m.parser, b))
         /\ ParserStep(m.parser, "IAC") = Goes([m.parser EXCEPT !.at = "SubIac"])
         /\ \A b \in Byte : ParserStep([m.parser EXCEPT !.at = "SubIac"], b) =
                              AfterSubIac([m.parser EXCEPT !.at = "SubIac"], b)
  <1>1. s # NoSub
    BY DEF NoSub, Offered
  <1>2. m.parser.at = "SubPayload" /\ m.parser.option = s.option /\ m.parser \in ParserState
    BY <1>1 DEF Within, MachineState
  <1>3. m.parser \in [at : {"SubPayload", "SubIac"}, option : Byte, payload : Payload, overflowed : BOOLEAN]
    BY <1>2 DEF ParserState, InData
  <1>4. [m.parser EXCEPT !.at = "SubIac"].at = "SubIac"
    BY <1>3
  <1>5. ParserStep(m.parser, "IAC") = Goes([m.parser EXCEPT !.at = "SubIac"])
    BY <1>2 DEF ParserStep
  <1>6. \A b \in Byte : b # "IAC" => ParserStep(m.parser, b) = Goes(SubPush(m.parser, b))
    BY <1>2 DEF ParserStep
  <1>7. \A q, b : q.at = "SubIac" => ParserStep(q, b) = AfterSubIac(q, b)
    BY DEF ParserStep
  <1> QED BY <1>1, <1>2, <1>3, <1>4, <1>5, <1>6, <1>7 DEF Payload

\* A byte pushed keeps the parser in the subnegotiation, or past its limit.
LEMMA Pushed ==
  ASSUME NEW p \in ParserState, p.at \in {"SubPayload", "SubIac"},
         NEW s \in [option : Offered, payload : Seq(Bytes)],
         p.option = s.option,
         IF Len(s.payload) <= MaxSubneg THEN p.payload = s.payload /\ ~p.overflowed ELSE p.overflowed,
         NEW b \in Bytes
  PROVE  Within(SubPush(p, b), [s EXCEPT !.payload = Append(@, b)])
  <1> DEFINE z == [s EXCEPT !.payload = Append(@, b)]
  <1>1. /\ s.payload \in Seq(Bytes) /\ Len(s.payload) \in Nat /\ MaxSubneg \in Nat
        /\ Len(Append(s.payload, b)) = Len(s.payload) + 1
    BY StreamAssumption, AppendProperties
  <1>2. z.payload = Append(s.payload, b) /\ z.option = s.option /\ z # NoSub
    <2>1. z.payload = Append(s.payload, b) /\ z.option = s.option /\ s.option \in Offered
      OBVIOUS
    <2> QED BY <2>1 DEF NoSub, Offered
  <1> HIDE DEF z
  <1>3. /\ p.payload \in Seq(Byte) /\ Len(p.payload) \in Nat /\ Len(p.payload) <= MaxSubneg
        /\ p.overflowed \in BOOLEAN
    BY DEF ParserState, Payload, InData
  <1>4. CASE p.overflowed \/ Len(p.payload) >= MaxSubneg
    <2>1. SubPush(p, b) = Sub(p.option, p.payload, TRUE)
      BY <1>4 DEF SubPush
    <2>2. ~(Len(z.payload) <= MaxSubneg)
      BY <1>1, <1>2, <1>3, <1>4
    <2> QED BY <1>2, <2>1, <2>2 DEF Within, Sub, z
  <1>5. CASE ~(p.overflowed \/ Len(p.payload) >= MaxSubneg)
    <2>1. SubPush(p, b) = Sub(p.option, Append(p.payload, b), FALSE) /\ p.payload = s.payload
      BY <1>5 DEF SubPush
    <2>2. Len(z.payload) <= MaxSubneg
      BY <1>1, <1>2, <1>5, <2>1
    <2> QED BY <1>2, <2>1, <2>2 DEF Within, Sub, z
  <1> QED BY <1>4, <1>5

\* A byte of a payload arrives as itself, doubled where it must be.
LEMMA SubEscapes ==
  ASSUME NEW m \in MachineState, NEW s \in [option : Offered, payload : Seq(Bytes)], Within(m.parser, s),
         NEW b \in Bytes
  PROVE  /\ After(m, Escaped(b)).line = m.line /\ After(m, Escaped(b)).got = m.got
         /\ Within(After(m, Escaped(b)).parser, [s EXCEPT !.payload = Append(@, b)])
  <1> DEFINE p == m.parser
             z == [s EXCEPT !.payload = Append(@, b)]
             i == [p EXCEPT !.at = "SubIac"]
  <1>1. b \in Byte /\ p \in ParserState
    BY PlayBytes DEF MachineState
  <1>2. /\ p.at = "SubPayload" /\ p.option = s.option
        /\ IF Len(s.payload) <= MaxSubneg THEN p.payload = s.payload /\ ~p.overflowed ELSE p.overflowed
    BY SubSteps DEF Within
  <1>3. CASE b # "IAC"
    <2>1. ParserStep(p, b) = Goes(SubPush(p, b)) /\ Within(SubPush(p, b), z)
      BY <1>1, <1>2, <1>3, SubSteps, Pushed
    <2>2. Receive(m, b) = [parser |-> SubPush(p, b), line |-> m.line, got |-> m.got]
      BY <1>1, <2>1, Going
    <2>3. Escaped(b) = <<b>> /\ After(m, <<b>>) = Receive(m, b)
      BY <1>3, Sentences DEF Escaped
    <2> QED BY <2>1, <2>2, <2>3
  <1>4. CASE b = "IAC"
    <2> DEFINE n == [parser |-> i, line |-> m.line, got |-> m.got]
    <2>1. ParserStep(p, b) = Goes(i) /\ ParserStep(i, b) = AfterSubIac(i, b)
      BY <1>1, <1>4, SubSteps
    <2>2. n \in MachineState /\ Receive(m, b) = n
      BY <1>1, <2>1, GoesOn
    <2>3. /\ i.at = "SubIac" /\ i.option = p.option /\ i.payload = p.payload
          /\ i.overflowed = p.overflowed
      <3>1. p \in [at : {"SubPayload", "SubIac"}, option : Byte, payload : Payload, overflowed : BOOLEAN]
        BY <1>1, <1>2 DEF ParserState, InData
      <3> QED BY <3>1
    <2>4. i \in ParserState
      BY <2>2 DEF MachineState
    <2> HIDE DEF i
    <2>5. AfterSubIac(i, b) = Goes(SubPush(i, b)) /\ Within(SubPush(i, b), z)
      <3>1. AfterSubIac(i, b) = Goes(SubPush(i, b))
        BY <1>4 DEF AfterSubIac
      <3>2. Within(SubPush(i, b), z)
        BY <1>2, <2>3, <2>4, Pushed
      <3> QED BY <3>1, <3>2
    <2>6. Receive(n, b) = [parser |-> SubPush(i, b), line |-> m.line, got |-> m.got]
      BY <1>1, <2>1, <2>2, <2>5, Going
    <2>7. Escaped(b) = <<b, b>> /\ After(m, <<b, b>>) = Receive(Receive(m, b), b)
      BY <1>4, Sentences DEF Escaped
    <2> QED BY <2>2, <2>5, <2>6, <2>7
  <1> QED BY <1>3, <1>4

\* The bytes around a payload.
LEMMA SubOpens ==
  ASSUME NEW m \in MachineState, m.parser = InData, NEW o \in Offered
  PROVE  LET n == After(m, <<"IAC", "SB", o>>)
         IN  n.line = m.line /\ n.got = m.got /\ Within(n.parser, [option |-> o, payload |-> <<>>])
  <1> DEFINE i == [at |-> "Iac"]
             j == [at |-> "SubOption"]
             n == [parser |-> i, line |-> m.line, got |-> m.got]
             k == [parser |-> j, line |-> m.line, got |-> m.got]
  <1>1. o \in Byte /\ "IAC" \in Byte /\ "SB" \in Byte
    BY PlayBytes
  <1>2. ParserStep(m.parser, "IAC") = Goes(i)
    BY DEF ParserStep, InData
  <1>3. \A q : q = i => ParserStep(q, "SB") = Goes(j)
    BY DEF ParserStep, AfterIac, Verbs
  <1>4. \A q : q = j => ParserStep(q, o) = Goes(Sub(o, <<>>, FALSE))
    BY DEF ParserStep
  <1>5. n \in MachineState /\ Receive(m, "IAC") = n
    BY <1>1, <1>2, GoesOn
  <1>6. k \in MachineState /\ Receive(n, "SB") = k
    <2>1. ParserStep(n.parser, "SB") = Goes(j)
      BY <1>3
    <2> QED BY <1>1, <1>5, <2>1, GoesOn
  <1>7. Receive(k, o) = [parser |-> Sub(o, <<>>, FALSE), line |-> m.line, got |-> m.got]
    <2>1. ParserStep(k.parser, o) = Goes(Sub(o, <<>>, FALSE))
      BY <1>4
    <2> QED BY <1>1, <1>6, <2>1, Going
  <1>8. Within(Sub(o, <<>>, FALSE), [option |-> o, payload |-> <<>>])
    <2>1. Len(<<>>) = 0 /\ 0 <= MaxSubneg
      BY StreamAssumption
    <2>2. [option |-> o, payload |-> <<>>] # NoSub
      BY DEF NoSub, Offered
    <2> QED BY <2>1, <2>2 DEF Within, Sub
  <1>9. After(m, <<"IAC", "SB", o>>) = Receive(Receive(Receive(m, "IAC"), "SB"), o)
    BY Sentences
  <1>10. After(m, <<"IAC", "SB", o>>) = [parser |-> Sub(o, <<>>, FALSE), line |-> m.line, got |-> m.got]
    BY <1>5, <1>6, <1>7, <1>9
  <1> HIDE DEF n, k
  <1>11. \A x : x = [parser |-> Sub(o, <<>>, FALSE), line |-> m.line, got |-> m.got] =>
               x.parser = Sub(o, <<>>, FALSE) /\ x.line = m.line /\ x.got = m.got
    OBVIOUS
  <1>12. /\ After(m, <<"IAC", "SB", o>>).parser = Sub(o, <<>>, FALSE)
         /\ After(m, <<"IAC", "SB", o>>).line = m.line /\ After(m, <<"IAC", "SB", o>>).got = m.got
    BY <1>10, <1>11
  <1> QED BY <1>8, <1>12

\* IAC SE gives what the payload announces, or nothing if it overflowed.
LEMMA SubCloses ==
  ASSUME NEW m \in MachineState, NEW s \in [option : Offered, payload : Seq(Bytes)], Within(m.parser, s)
  PROVE  After(m, <<"IAC", "SE">>) =
           [parser |-> InData, line |-> m.line,
            got |-> m.got \o (IF Len(s.payload) <= MaxSubneg THEN Announced(s.option, s.payload)
                                                             ELSE <<>>)]
  <1> DEFINE p == m.parser
             i == [p EXCEPT !.at = "SubIac"]
             n == [parser |-> i, line |-> m.line, got |-> m.got]
  <1>1. "IAC" \in Byte /\ "SE" \in Byte /\ s \in [option : Byte, payload : Seq(Byte)]
    <2>1. s.payload \in Seq(Byte)
      BY PlayBytes, SeqMonotonic
    <2> QED BY <2>1, PlayBytes
  <1>2. n \in MachineState /\ Receive(m, "IAC") = n
    <2>1. ParserStep(p, "IAC") = Goes(i)
      BY SubSteps
    <2> QED BY <1>1, <2>1, GoesOn
  <1>3. ParserStep(i, "SE") = Closed(i)
    <2>1. ParserStep(i, "SE") = AfterSubIac(i, "SE")
      BY <1>1, SubSteps
    <2> QED BY <2>1 DEF AfterSubIac
  <1>4. /\ i.option = s.option /\ i.payload = p.payload /\ i.overflowed = p.overflowed
        /\ IF Len(s.payload) <= MaxSubneg THEN p.payload = s.payload /\ ~p.overflowed ELSE p.overflowed
    <2>1. p \in [at : {"SubPayload", "SubIac"}, option : Byte, payload : Payload, overflowed : BOOLEAN]
      <3>1. p.at = "SubPayload" /\ p \in ParserState
        BY SubSteps DEF MachineState
      <3> QED BY <3>1 DEF ParserState, InData
    <2>2. i.option = p.option /\ i.payload = p.payload /\ i.overflowed = p.overflowed
      BY <2>1
    <2> QED BY <2>2, SubSteps DEF Within
  <1>5. After(m, <<"IAC", "SE">>) = Receive(Receive(m, "IAC"), "SE")
    BY Sentences
  <1> HIDE DEF i
  <1>6. CASE Len(s.payload) <= MaxSubneg
    <2> DEFINE e == Subnegotiated(s.option, s.payload)
    <2>1. e \in Item /\ Takes(m.line, e) = Out(m.line, Announced(s.option, s.payload))
      BY <1>1 DEF Subnegotiated, Item, Takes
    <2>2. ParserStep(n.parser, "SE") = Gives(e)
      BY <1>3, <1>4, <1>6 DEF Closed
    <2> HIDE DEF e
    <2>3. Receive(n, "SE") = [parser |-> InData, line |-> Takes(m.line, e).line,
                              got |-> m.got \o Takes(m.line, e).events]
      BY <1>1, <1>2, <2>1, <2>2, Giving
    <2> QED BY <1>2, <1>5, <1>6, <2>1, <2>3 DEF Out
  <1>7. CASE ~(Len(s.payload) <= MaxSubneg)
    <2>1. ParserStep(n.parser, "SE") = Goes(InData)
      BY <1>3, <1>4, <1>7 DEF Closed
    <2>2. Receive(n, "SE") = [parser |-> InData, line |-> m.line, got |-> m.got]
      BY <1>1, <1>2, <2>1, Going
    <2>3. m.got \o <<>> = m.got
      BY ConcatEmptySeq DEF MachineState
    <2> QED BY <1>2, <1>5, <1>7, <2>2, <2>3
  <1> QED BY <1>6, <1>7

\* A command, between lines and in the middle of a subnegotiation.
LEMMA Commanded ==
  ASSUME NEW m \in MachineState, NEW i \in ParserState, ParserStep(m.parser, "IAC") = Goes(i),
         i = [at |-> "Iac"] \/ i.at = "SubIac"
  PROVE  /\ After(m, <<"IAC", "NOP">>) = [parser |-> InData, line |-> m.line, got |-> m.got]
         /\ \A v \in Verbs :
              After(m, <<"IAC", v, "TTYPE">>) =
                [parser |-> InData, line |-> m.line, got |-> m.got \o <<Negotiate(v, "TTYPE")>>]
  <1> DEFINE n == [parser |-> i, line |-> m.line, got |-> m.got]
  <1>1. "IAC" \in Byte /\ "NOP" \in Byte /\ "TTYPE" \in Byte /\ Verbs \subseteq Byte
    BY PlayBytes
  <1>2. n \in MachineState /\ Receive(m, "IAC") = n
    BY <1>1, GoesOn
  <1>3. \A b : b \notin {"SE", "IAC"} => ParserStep(i, b) = AfterIac(b)
    <2>1. \A q, b : q.at = "Iac" => ParserStep(q, b) = AfterIac(b)
      BY DEF ParserStep
    <2>2. \A q, b : q.at = "SubIac" => ParserStep(q, b) = AfterSubIac(q, b)
      BY DEF ParserStep
    <2>3. \A q, b : b \notin {"SE", "IAC"} => AfterSubIac(q, b) = AfterIac(b)
      BY DEF AfterSubIac
    <2>4. i.at \in {"Iac", "SubIac"}
      OBVIOUS
    <2> QED BY <2>1, <2>2, <2>3, <2>4
  <1>4. After(m, <<"IAC", "NOP">>) = [parser |-> InData, line |-> m.line, got |-> m.got]
    <2> DEFINE c == [is |-> "command"]
    <2>1. AfterIac("NOP") = Gives(c)
      BY DEF AfterIac, Verbs
    <2>2. ParserStep(n.parser, "NOP") = Gives(c)
      BY <1>3, <2>1
    <2>3. c \in Item /\ Takes(m.line, c) = Out(m.line, <<>>)
      BY DEF Item, Takes
    <2> HIDE DEF c
    <2>4. Receive(n, "NOP") = [parser |-> InData, line |-> Takes(m.line, c).line,
                               got |-> m.got \o Takes(m.line, c).events]
      BY <1>1, <1>2, <2>2, <2>3, Giving
    <2>5. m.got \o <<>> = m.got
      BY ConcatEmptySeq DEF MachineState
    <2>6. After(m, <<"IAC", "NOP">>) = Receive(Receive(m, "IAC"), "NOP")
      BY Sentences
    <2> QED BY <1>2, <2>3, <2>4, <2>5, <2>6 DEF Out
  <1>5. ASSUME NEW v \in Verbs
        PROVE  After(m, <<"IAC", v, "TTYPE">>) =
                 [parser |-> InData, line |-> m.line, got |-> m.got \o <<Negotiate(v, "TTYPE")>>]
    <2> DEFINE q == [at |-> "Verb", verb |-> v]
               k == [parser |-> q, line |-> m.line, got |-> m.got]
               e == Negotiate(v, "TTYPE")
    <2>1. AfterIac(v) = Goes(q) /\ v \notin {"SE", "IAC"}
      BY <1>5 DEF AfterIac, Verbs
    <2>2. ParserStep(n.parser, v) = Goes(q)
      BY <1>3, <2>1
    <2>3. k \in MachineState /\ Receive(n, v) = k
      BY <1>1, <1>2, <2>2, GoesOn
    <2>4. \A z : z = q => ParserStep(z, "TTYPE") = Gives(e)
      BY DEF ParserStep
    <2>5. ParserStep(k.parser, "TTYPE") = Gives(e)
      BY <2>4
    <2>6. e \in Item /\ Takes(m.line, e) = Out(m.line, <<e>>)
      BY <1>1, <1>5 DEF Negotiate, Item, Takes
    <2> HIDE DEF e
    <2>7. Receive(k, "TTYPE") = [parser |-> InData, line |-> Takes(m.line, e).line,
                                 got |-> m.got \o Takes(m.line, e).events]
      BY <1>1, <2>3, <2>5, <2>6, Giving
    <2>8. After(m, <<"IAC", v, "TTYPE">>) = Receive(Receive(Receive(m, "IAC"), v), "TTYPE")
      BY Sentences
    <2>9. Takes(m.line, e).line = m.line /\ Takes(m.line, e).events = <<e>>
      BY <2>6 DEF Out
    <2>10. Receive(k, "TTYPE") = [parser |-> InData, line |-> m.line, got |-> m.got \o <<e>>]
      BY <2>7, <2>9
    <2>11. After(m, <<"IAC", v, "TTYPE">>) = Receive(k, "TTYPE")
      BY <1>2, <2>3, <2>8
    <2> QED BY <2>10, <2>11 DEF e
  <1> QED BY <1>4, <1>5
\* The end of a line, one or two bytes of data.
LEMMA LineEnded ==
  ASSUME NEW m \in MachineState, m.parser = InData, NEW t \in Seq(Text), Holds(m.line, t),
         NEW e \in Endings
  PROVE  After(m, e) = [parser |-> InData, line |-> Fresh(FALSE),
                        got |-> m.got \o (IF Len(t) <= MaxLine THEN <<Line(t)>> ELSE <<>>)]
  <1> DEFINE es == IF Len(t) <= MaxLine THEN <<Line(t)>> ELSE <<>>
             n  == [parser |-> InData, line |-> Fresh(TRUE), got |-> m.got \o es]
  <1> HIDE DEF es
  <1>1. "CR" \in Byte /\ "LF" \in Byte /\ "NUL" \in Byte /\ m.line \in LineState
    BY PlayBytes DEF MachineState
  <1>2. \A b \in {"CR", "LF", "NUL"}, z \in MachineState : z.parser = InData =>
          Receive(z, b) = [parser |-> InData, line |-> LineStep(z.line, b).line,
                           got |-> z.got \o LineStep(z.line, b).events]
    <2> SUFFICES ASSUME NEW b \in {"CR", "LF", "NUL"}, NEW z \in MachineState, z.parser = InData
                 PROVE  Receive(z, b) = [parser |-> InData, line |-> LineStep(z.line, b).line,
                                         got |-> z.got \o LineStep(z.line, b).events]
      OBVIOUS
    <2>1. Escaped(b) = <<b>> /\ After(z, <<b>>) = Receive(z, b) /\ b \in Byte
      BY <1>1, Sentences DEF Escaped
    <2> QED BY <2>1, Escapes
  <1>3. /\ LineStep(m.line, "CR") = Out(Fresh(TRUE), es) /\ LineStep(m.line, "LF") = Out(Fresh(FALSE), es)
        /\ LineStep(Fresh(TRUE), "LF") = Out(Fresh(FALSE), <<>>)
        /\ LineStep(Fresh(TRUE), "NUL") = Out(Fresh(FALSE), <<>>)
    BY <1>1, LineEnds, LineStarts DEF es
  <1>4. /\ LineStep(m.line, "CR").line = Fresh(TRUE) /\ LineStep(m.line, "CR").events = es
        /\ LineStep(m.line, "LF").line = Fresh(FALSE) /\ LineStep(m.line, "LF").events = es
        /\ LineStep(Fresh(TRUE), "LF").line = Fresh(FALSE) /\ LineStep(Fresh(TRUE), "LF").events = <<>>
        /\ LineStep(Fresh(TRUE), "NUL").line = Fresh(FALSE) /\ LineStep(Fresh(TRUE), "NUL").events = <<>>
    <2>1. \A x, y : Out(x, y).line = x /\ Out(x, y).events = y
      BY DEF Out
    <2> QED BY <1>3, <2>1
  <1>5. Receive(m, "CR") = n /\ n \in MachineState
    <2>1. Receive(m, "CR") = [parser |-> InData, line |-> LineStep(m.line, "CR").line,
                              got |-> m.got \o LineStep(m.line, "CR").events]
      BY <1>2
    <2>2. Receive(m, "CR") = n
      BY <1>4, <2>1
    <2> QED BY <1>1, <2>2, ReceiveTypes
  <1>6. (m.got \o es) \o <<>> = m.got \o es
    <2>1. m.got \o es \in Seq(Event)
      BY <1>5 DEF MachineState
    <2> QED BY <2>1, ConcatEmptySeq
  <1>7. /\ Receive(n, "LF") = [parser |-> InData, line |-> Fresh(FALSE), got |-> m.got \o es]
        /\ Receive(n, "NUL") = [parser |-> InData, line |-> Fresh(FALSE), got |-> m.got \o es]
    <2>1. /\ Receive(n, "LF") = [parser |-> InData, line |-> LineStep(n.line, "LF").line,
                                 got |-> n.got \o LineStep(n.line, "LF").events]
          /\ Receive(n, "NUL") = [parser |-> InData, line |-> LineStep(n.line, "NUL").line,
                                  got |-> n.got \o LineStep(n.line, "NUL").events]
      BY <1>2, <1>5
    <2> QED BY <1>4, <1>6, <2>1
  <1>8. Receive(m, "LF") = [parser |-> InData, line |-> Fresh(FALSE), got |-> m.got \o es]
    <2>1. Receive(m, "LF") = [parser |-> InData, line |-> LineStep(m.line, "LF").line,
                              got |-> m.got \o LineStep(m.line, "LF").events]
      BY <1>2
    <2> QED BY <1>4, <2>1
  <1>9. After(m, e) = [parser |-> InData, line |-> Fresh(FALSE), got |-> m.got \o es]
    <2>1. CASE e = <<"CR", "LF">>
      <3>1. After(m, e) = Receive(Receive(m, "CR"), "LF")
        BY <2>1, Sentences
      <3> QED BY <1>5, <1>7, <3>1
    <2>2. CASE e = <<"CR", "NUL">>
      <3>1. After(m, e) = Receive(Receive(m, "CR"), "NUL")
        BY <2>2, Sentences
      <3> QED BY <1>5, <1>7, <3>1
    <2>3. CASE e = <<"LF">>
      BY <2>3, <1>8, Sentences
    <2> QED BY <2>1, <2>2, <2>3 DEF Endings
  <1> QED BY <1>9 DEF es

-----------------------------------------------------------------------------
\* A client with no bytes under way: the decoder stands where it does.
LEMMA Idle ==
  ASSUME StreamProofInv, ~garbage, wire = <<>>
  PROVE  LET m == Machine(parser, line)
         IN  /\ m \in MachineState /\ m.parser = parser /\ m.line = line /\ m.got = <<>>
             /\ Holds(line, typed) /\ Within(parser, subneg) /\ got = meant
  <1> DEFINE m == Machine(parser, line)
  <1>1. m \in MachineState /\ m.parser = parser /\ m.line = line /\ m.got = <<>>
    BY EmptySeq DEF StreamProofInv, Ranges, MachineState, Machine
  <1> HIDE DEF m
  <1>2. \A n : After(n, wire) = n
    BY DEF After
  <1>3. Rests(After(m, wire), typed, subneg) /\ got \o After(m, wire).got = meant
    BY DEF StreamProofInv, Understands, m
  <1>4. got \o <<>> = got
    BY ConcatEmptySeq DEF StreamProofInv, Ranges
  <1> QED BY <1>1, <1>2, <1>3, <1>4 DEF Rests, m

\* A client puts out the bytes w: it is enough that they leave the decoder where
\* the client is, and add what it meant by them.
LEMMA Spoken ==
  ASSUME StreamProofInv, ~garbage, UNCHANGED <<server, garbage>>,
         wire' \in Seq(Byte), Len(wire') <= 3, typed' \in Seq(Text),
         subneg' \in {NoSub} \union [option : Offered, payload : Seq(Bytes)],
         Rests(After(Machine(parser, line), wire'), typed', subneg'),
         got = meant,
         meant' = meant \o After(Machine(parser, line), wire').got
  PROVE  StreamProofInv'
  <1> DEFINE m == Machine(parser, line)
  <1>1. m \in MachineState
    BY EmptySeq DEF StreamProofInv, Ranges, MachineState, Machine
  <1>2. After(m, wire') \in MachineState
    <2>1. <<>> \in Seq(Event)
      BY EmptySeq
    <2> QED BY <1>1, <2>1, AfterPrefixed
  <1>3. meant' \in Seq(Event)
    <2>1. After(m, wire').got \in Seq(Event) /\ meant \in Seq(Event)
      BY <1>2 DEF MachineState, StreamProofInv, Ranges
    <2> QED BY <2>1, ConcatProperties
  <1>4. parser' = parser /\ line' = line /\ got' = got /\ garbage' = garbage
    BY DEF server
  <1>5. Ranges'
    BY <1>3, <1>4 DEF StreamProofInv, Ranges
  <1>6. Understands'
    BY <1>4 DEF Understands
  <1> QED BY <1>4, <1>5, <1>6 DEF StreamProofInv
\* Whatever a client that speaks telnet puts out, reading it leads where it means.
LEMMA ClientKeeps ==
  ASSUME StreamProofInv, ClientSends
  PROVE  StreamProofInv'
  <1> DEFINE m == Machine(parser, line)
  <1>1. ~garbage /\ wire = <<>> /\ UNCHANGED <<server, garbage>>
    BY DEF ClientSends, Types, Ends, Commands, Asks, Opens, Continues, Adds, Finishes, BreaksOff, Says
  <1>2. /\ m \in MachineState /\ m.parser = parser /\ m.line = line /\ m.got = <<>>
        /\ Holds(line, typed) /\ Within(parser, subneg) /\ got = meant
    BY <1>1, Idle
  <1> HIDE DEF m
  <1>3. /\ typed \in Seq(Text) /\ meant \in Seq(Event)
        /\ subneg \in {NoSub} \union [option : Offered, payload : Seq(Bytes)]
    BY DEF StreamProofInv, Ranges
  <1>4. meant \o <<>> = meant /\ <<>> \o <<>> = <<>>
    BY <1>3, ConcatEmptySeq, EmptySeq
  <1>5. subneg = NoSub => parser = InData
    BY <1>2 DEF Within
  <1>6. subneg # NoSub => /\ subneg \in [option : Offered, payload : Seq(Bytes)]
                          /\ ParserStep(parser, "IAC") = Goes([parser EXCEPT !.at = "SubIac"])
                          /\ [parser EXCEPT !.at = "SubIac"] \in ParserState
                          /\ [parser EXCEPT !.at = "SubIac"].at = "SubIac"
    <2> SUFFICES ASSUME subneg # NoSub
                 PROVE  /\ subneg \in [option : Offered, payload : Seq(Bytes)]
                        /\ ParserStep(parser, "IAC") = Goes([parser EXCEPT !.at = "SubIac"])
                        /\ [parser EXCEPT !.at = "SubIac"] \in ParserState
                        /\ [parser EXCEPT !.at = "SubIac"].at = "SubIac"
      OBVIOUS
    <2>1. parser \in ParserState
      BY DEF StreamProofInv, Ranges
    <2>2. parser.at = "SubPayload" /\ ParserStep(parser, "IAC") = Goes([parser EXCEPT !.at = "SubIac"])
      BY <1>2, <1>3, SubSteps
    <2>3. parser \in [at : {"SubPayload", "SubIac"}, option : Byte, payload : Payload, overflowed : BOOLEAN]
      BY <2>1, <2>2 DEF ParserState, InData
    <2> QED BY <1>3, <2>2, <2>3 DEF ParserState
  <1>7. Holds(line, typed) /\ Within(InData, NoSub)
    BY <1>2 DEF Within
  <1>8. ASSUME wire' \in Seq(Byte), Len(wire') <= 3, typed' \in Seq(Text),
               subneg' \in {NoSub} \union [option : Offered, payload : Seq(Bytes)],
               Holds(After(m, wire').line, typed'), Within(After(m, wire').parser, subneg'),
               meant' = meant \o After(m, wire').got
        PROVE  StreamProofInv'
    BY <1>1, <1>2, <1>8, Spoken DEF Rests, m
  <1>9. \A b \in Byte : Escaped(b) \in Seq(Byte) /\ Len(Escaped(b)) <= 3
    BY DEF Escaped
  <1>10. \A b \in Byte : <<b>> \in Seq(Byte) /\ Len(<<b>>) = 1
    OBVIOUS
  <1>11. \A a, b \in Byte : <<a, b>> \in Seq(Byte) /\ Len(<<a, b>>) = 2
    OBVIOUS
  <1>12. \A a, b, c \in Byte : <<a, b, c>> \in Seq(Byte) /\ Len(<<a, b, c>>) = 3
    OBVIOUS
  <1>13. ASSUME NEW b \in Text, Types(b)
         PROVE  StreamProofInv'
    <2>1. wire' = Escaped(b) /\ typed' = Append(typed, b) /\ subneg' = NoSub /\ meant' = meant
          /\ subneg = NoSub /\ b \in Byte
      BY <1>13, PlayBytes DEF Types, Says
    <2>2. LineStep(line, b).events = <<>> /\ Holds(LineStep(line, b).line, Append(typed, b))
      BY <1>2, <1>3, Kept DEF MachineState
    <2>3. After(m, wire') = [parser |-> InData, line |-> LineStep(line, b).line, got |-> <<>>]
      BY <1>2, <1>4, <1>5, <2>1, <2>2, Escapes
    <2>4. Append(typed, b) \in Seq(Text)
      BY <1>3, AppendProperties
    <2> QED BY <1>3, <1>4, <1>7, <1>8, <1>9, <2>1, <2>2, <2>3, <2>4
  <1>14. ASSUME NEW e \in Endings, Ends(e)
         PROVE  StreamProofInv'
    <2> DEFINE es == IF Len(typed) <= MaxLine THEN <<Line(typed)>> ELSE <<>>
    <2>1. wire' = e /\ typed' = <<>> /\ subneg' = NoSub /\ meant' = meant \o es /\ subneg = NoSub
      BY <1>14 DEF Ends, Says, Means
    <2>2. After(m, e) = [parser |-> InData, line |-> Fresh(FALSE), got |-> m.got \o es]
      BY <1>2, <1>3, <1>5, <2>1, LineEnded
    <2>3. es \in Seq(Event) /\ <<>> \o es = es
      <3>1. typed \in Seq(Byte)
        BY <1>3, PlayBytes, SeqMonotonic
      <3>2. Line(typed) \in Event
        BY <3>1, LossyTypes DEF Line, Event
      <3>3. es \in Seq(Event)
        BY <3>2, EmptySeq
      <3> QED BY <3>3, ConcatEmptySeq
    <2> HIDE DEF es
    <2>4. Holds(Fresh(FALSE), <<>>)
      BY LineStarts
    <2>5. e \in Seq(Byte) /\ Len(e) <= 3
      <3>1. "CR" \in Byte /\ "LF" \in Byte /\ "NUL" \in Byte
        BY PlayBytes
      <3>2. e = <<"CR", "LF">> \/ e = <<"CR", "NUL">> \/ e = <<"LF">>
        BY DEF Endings
      <3>3. CASE e = <<"LF">>
        BY <1>10, <3>1, <3>3
      <3>4. CASE e = <<"CR", "LF">>
        BY <1>11, <3>1, <3>4
      <3>5. CASE e = <<"CR", "NUL">>
        BY <1>11, <3>1, <3>5
      <3> QED BY <3>2, <3>3, <3>4, <3>5
    <2>6. After(m, wire') = [parser |-> InData, line |-> Fresh(FALSE), got |-> es]
      BY <1>2, <2>1, <2>2, <2>3
    <2> QED BY <1>7, <1>8, <2>1, <2>4, <2>5, <2>6, EmptySeq
  <1>15. ASSUME Commands
         PROVE  StreamProofInv'
    <2>1. wire' = <<"IAC", "NOP">> /\ typed' = typed /\ subneg' = NoSub /\ meant' = meant /\ subneg = NoSub
      BY <1>15 DEF Commands, Says
    <2>2. ParserStep(parser, "IAC") = Goes([at |-> "Iac"]) /\ [at |-> "Iac"] \in ParserState
      <3>1. parser = InData
        BY <1>5, <2>1
      <3>2. \A q : q = InData => ParserStep(q, "IAC") = Goes([at |-> "Iac"])
        BY DEF ParserStep, InData
      <3> QED BY <3>1, <3>2 DEF ParserState
    <2>3. After(m, wire') = [parser |-> InData, line |-> line, got |-> <<>>]
      BY <1>2, <2>1, <2>2, Commanded
    <2>4. wire' \in Seq(Byte) /\ Len(wire') <= 3
      BY <1>11, <2>1, PlayBytes
    <2> QED BY <1>3, <1>4, <1>7, <1>8, <2>1, <2>3, <2>4
  <1>16. \A v \in Verbs : /\ <<"IAC", v, "TTYPE">> \in Seq(Byte) /\ Len(<<"IAC", v, "TTYPE">>) <= 3
                          /\ <<>> \o <<Negotiate(v, "TTYPE")>> = <<Negotiate(v, "TTYPE")>>
    <2> SUFFICES ASSUME NEW v \in Verbs
                 PROVE  /\ <<"IAC", v, "TTYPE">> \in Seq(Byte) /\ Len(<<"IAC", v, "TTYPE">>) <= 3
                        /\ <<>> \o <<Negotiate(v, "TTYPE")>> = <<Negotiate(v, "TTYPE")>>
      OBVIOUS
    <2>1. v \in Byte /\ "IAC" \in Byte /\ "TTYPE" \in Byte
      BY PlayBytes
    <2>2. <<Negotiate(v, "TTYPE")>> \in Seq({Negotiate(v, "TTYPE")})
      OBVIOUS
    <2> QED BY <1>12, <2>1, <2>2, ConcatEmptySeq
  <1>17. ASSUME NEW v \in Verbs, Asks(v)
         PROVE  StreamProofInv'
    <2>1. /\ wire' = <<"IAC", v, "TTYPE">> /\ typed' = typed /\ subneg' = NoSub
          /\ meant' = meant \o <<Negotiate(v, "TTYPE")>> /\ subneg = NoSub
      BY <1>17 DEF Asks, Says, Means
    <2>2. ParserStep(parser, "IAC") = Goes([at |-> "Iac"]) /\ [at |-> "Iac"] \in ParserState
      <3>1. parser = InData
        BY <1>5, <2>1
      <3>2. \A q : q = InData => ParserStep(q, "IAC") = Goes([at |-> "Iac"])
        BY DEF ParserStep, InData
      <3> QED BY <3>1, <3>2 DEF ParserState
    <2>3. After(m, wire') = [parser |-> InData, line |-> line, got |-> <<Negotiate(v, "TTYPE")>>]
      BY <1>2, <1>16, <2>1, <2>2, Commanded
    <2>4. wire' \in Seq(Byte) /\ Len(wire') <= 3
      BY <1>16, <2>1
    <2>5. Holds(After(m, wire').line, typed') /\ Within(After(m, wire').parser, subneg')
      BY <1>7, <2>1, <2>3
    <2>6. meant' = meant \o After(m, wire').got
      <3>1. After(m, wire').got = <<Negotiate(v, "TTYPE")>>
        BY <2>3
      <3> QED BY <2>1, <3>1
    <2> QED BY <1>3, <1>8, <2>1, <2>4, <2>5, <2>6
  <1>18. ASSUME NEW o \in Offered, Opens(o)
         PROVE  StreamProofInv'
    <2>1. /\ wire' = <<"IAC", "SB", o>> /\ typed' = typed /\ meant' = meant /\ subneg = NoSub
          /\ subneg' = [option |-> o, payload |-> <<>>]
      BY <1>18 DEF Opens, Says
    <2>2. After(m, wire').line = line /\ After(m, wire').got = <<>> /\ Within(After(m, wire').parser, subneg')
      BY <1>2, <1>5, <2>1, SubOpens
    <2>3. wire' \in Seq(Byte) /\ Len(wire') <= 3
      BY <1>12, <2>1, PlayBytes
    <2>4. subneg' \in [option : Offered, payload : Seq(Bytes)]
      BY <2>1, EmptySeq
    <2> QED BY <1>3, <1>4, <1>7, <1>8, <2>1, <2>2, <2>3, <2>4
  <1>19. ASSUME NEW p \in Payloads, Continues(p)
         PROVE  StreamProofInv'
    <2> DEFINE b == p[Len(subneg.payload) + 1]
    <2>1. /\ wire' = Escaped(b) /\ typed' = typed /\ meant' = meant /\ subneg # NoSub
          /\ subneg' = [subneg EXCEPT !.payload = Append(@, b)] /\ Len(subneg.payload) < Len(p)
      BY <1>19 DEF Continues, Adds, Says
    <2>2. b \in Bytes /\ b \in Byte
      <3>1. p \in Seq(Bytes) /\ Len(p) \in Nat
        BY StreamAssumption
      <3>2. Len(subneg.payload) \in Nat
        BY <1>3, <2>1
      <3>3. Len(subneg.payload) + 1 \in 1 .. Len(p)
        BY <2>1, <3>1, <3>2
      <3>4. b \in Bytes
        BY <3>1, <3>3, ElementOfSeq
      <3> QED BY <3>4, PlayBytes
    <2> HIDE DEF b
    <2>3. /\ After(m, wire').line = line /\ After(m, wire').got = <<>>
          /\ Within(After(m, wire').parser, subneg')
      BY <1>2, <1>3, <2>1, <2>2, SubEscapes
    <2>4. subneg' \in [option : Offered, payload : Seq(Bytes)]
      <3>1. subneg.payload \in Seq(Bytes)
        BY <1>3, <2>1
      <3>2. Append(subneg.payload, b) \in Seq(Bytes)
        BY <2>2, <3>1, AppendProperties
      <3> QED BY <1>3, <2>1, <3>2
    <2> QED BY <1>3, <1>4, <1>7, <1>8, <1>9, <2>1, <2>2, <2>3, <2>4
  <1>20. ASSUME Finishes
         PROVE  StreamProofInv'
    <2> DEFINE es == IF Len(subneg.payload) <= MaxSubneg THEN Announced(subneg.option, subneg.payload)
                     ELSE <<>>
    <2>1. /\ wire' = <<"IAC", "SE">> /\ typed' = typed /\ meant' = meant \o es /\ subneg # NoSub
          /\ subneg' = NoSub
      BY <1>20 DEF Finishes, Says, Means
    <2>2. After(m, wire') = [parser |-> InData, line |-> line, got |-> <<>> \o es]
      BY <1>2, <1>6, <2>1, SubCloses
    <2>3. <<>> \o es = es
      <3>1. subneg.option \in Byte /\ subneg.payload \in Seq(Byte)
        <4>1. subneg.option \in Offered /\ subneg.payload \in Seq(Bytes)
          BY <1>6, <2>1
        <4> QED BY <4>1, PlayBytes, SeqMonotonic
      <3>2. es \in Seq(Event)
        BY <3>1, AnnouncedTypes, EmptySeq
      <3> QED BY <3>2, ConcatEmptySeq
    <2> HIDE DEF es
    <2>4. wire' \in Seq(Byte) /\ Len(wire') <= 3
      BY <1>11, <2>1, PlayBytes
    <2> QED BY <1>3, <1>7, <1>8, <2>1, <2>2, <2>3, <2>4
  <1>21. ASSUME BreaksOff
         PROVE  StreamProofInv'
    <2>1. /\ wire' = <<"IAC", "WILL", "TTYPE">> /\ typed' = typed /\ subneg' = NoSub
          /\ meant' = meant \o <<Negotiate("WILL", "TTYPE")>> /\ subneg # NoSub /\ "WILL" \in Verbs
      BY <1>21 DEF BreaksOff, Says, Means, Verbs
    <2>2. After(m, wire') = [parser |-> InData, line |-> line, got |-> <<Negotiate("WILL", "TTYPE")>>]
      BY <1>2, <1>6, <1>16, <2>1, Commanded
    <2>3. wire' \in Seq(Byte) /\ Len(wire') <= 3
      BY <1>16, <2>1
    <2>4. Holds(After(m, wire').line, typed') /\ Within(After(m, wire').parser, subneg')
      BY <1>7, <2>1, <2>2
    <2>5. meant' = meant \o After(m, wire').got
      <3>1. After(m, wire').got = <<Negotiate("WILL", "TTYPE")>>
        BY <2>2
      <3> QED BY <2>1, <3>1
    <2> QED BY <1>3, <1>8, <2>1, <2>3, <2>4, <2>5
  <1> QED BY <1>13, <1>14, <1>15, <1>17, <1>18, <1>19, <1>20, <1>21 DEF ClientSends
\* A byte read is one the decoder has behind it: the rest leads to the same place.
LEMMA ByteKeeps ==
  ASSUME StreamProofInv, ByteArrives
  PROVE  StreamProofInv'
  <1> DEFINE m == Machine(parser, line)
             n == Machine(parser, line)'
             r == Receive(m, Head(wire))
  <1>1. /\ wire # <<>> /\ wire' = Tail(wire) /\ ~garbage /\ garbage' = garbage
        /\ typed' = typed /\ subneg' = subneg /\ meant' = meant
        /\ parser' = r.parser /\ line' = r.line /\ got' = got \o r.got
    BY DEF ByteArrives, Reads, StreamProofInv, Silent
  <1>2. /\ wire \in Seq(Byte) /\ Len(wire) <= 3 /\ got \in Seq(Event)
        /\ Head(wire) \in Byte /\ Tail(wire) \in Seq(Byte) /\ Len(Tail(wire)) <= 3
    <2>1. wire \in Seq(Byte) /\ Len(wire) <= 3 /\ got \in Seq(Event)
      BY DEF StreamProofInv, Ranges
    <2>2. Head(wire) \in Byte /\ Tail(wire) \in Seq(Byte) /\ Len(Tail(wire)) = Len(wire) - 1
      BY <1>1, <2>1, HeadTailProperties
    <2>3. Len(wire) \in Nat
      BY <2>1
    <2> QED BY <2>1, <2>2, <2>3
  <1>3. m \in MachineState
    BY EmptySeq DEF StreamProofInv, Ranges, MachineState, Machine
  <1>4. After(m, wire) = After(r, Tail(wire))
    BY <1>1, <1>2, AfterFirst
  <1>5. r \in MachineState
    BY <1>2, <1>3, ReceiveTypes
  <1>6. Rests(After(m, wire), typed, subneg) /\ got \o After(m, wire).got = meant
    BY <1>1 DEF StreamProofInv, Understands
  <1> HIDE DEF m, r
  <1>7. n \in MachineState /\ r.got \in Seq(Event) /\ r = Prefixed(r.got, n)
    <2>1. r.parser \in ParserState /\ r.line \in LineState /\ r.got \in Seq(Event)
      BY <1>5 DEF MachineState
    <2>2. n = [parser |-> r.parser, line |-> r.line, got |-> <<>>]
      BY <1>1 DEF Machine
    <2>3. n \in MachineState /\ n.parser = r.parser /\ n.line = r.line /\ n.got = <<>>
      BY <2>1, <2>2, EmptySeq DEF MachineState
    <2>4. r.got \o <<>> = r.got
      BY <2>1, ConcatEmptySeq
    <2>5. r = [parser |-> r.parser, line |-> r.line, got |-> r.got]
      BY <1>5 DEF MachineState
    <2>6. Prefixed(r.got, n) = [parser |-> r.parser, line |-> r.line, got |-> r.got]
      BY <2>3, <2>4 DEF Prefixed
    <2> QED BY <2>1, <2>3, <2>5, <2>6
  <1> HIDE DEF n
  <1> DEFINE a == After(n, Tail(wire))
  <1>8. a \in MachineState /\ After(m, wire) = Prefixed(r.got, a)
    BY <1>2, <1>4, <1>7, AfterPrefixed
  <1> HIDE DEF a
  <1>9. /\ After(m, wire).parser = a.parser /\ After(m, wire).line = a.line
        /\ After(m, wire).got = r.got \o a.got
    <2>1. /\ Prefixed(r.got, a).parser = a.parser /\ Prefixed(r.got, a).line = a.line
          /\ Prefixed(r.got, a).got = r.got \o a.got
      BY DEF Prefixed
    <2> QED BY <1>8, <2>1
  <1>10. (got \o r.got) \o a.got = got \o (r.got \o a.got)
    <2>1. a.got \in Seq(Event)
      BY <1>8 DEF MachineState
    <2>2. \A x, y, z \in Seq(Event) : (x \o y) \o z = x \o (y \o z)
      BY ConcatAssociative
    <2> QED BY <1>2, <1>7, <2>1, <2>2
  <1>11. Rests(a, typed, subneg) /\ got' \o a.got = meant
    BY <1>1, <1>6, <1>9, <1>10 DEF Rests
  <1>12. Understands'
    <2>1. a = After(Machine(parser, line)', wire')
      BY <1>1 DEF a, n
    <2> QED BY <1>1, <1>11, <2>1 DEF Understands
  <1>13. Ranges'
    <2>1. r.parser \in ParserState /\ r.line \in LineState /\ got \o r.got \in Seq(Event)
      BY <1>2, <1>5, <1>7, ConcatProperties DEF MachineState
    <2> QED BY <1>1, <1>2, <2>1 DEF StreamProofInv, Ranges
  <1> QED BY <1>1, <1>12, <1>13 DEF StreamProofInv

\* Whatever arrives, the decoder stays within its ranges.
LEMMA GarbageKeeps ==
  ASSUME StreamProofInv, NEW b \in Noise, GarbageArrives(b)
  PROVE  StreamProofInv'
  <1> DEFINE m == Machine(parser, line)
             r == Receive(m, b)
  <1>1. /\ garbage /\ garbage' = garbage /\ wire' = wire /\ typed' = typed /\ subneg' = subneg
        /\ meant' = meant /\ got' = got /\ parser' = r.parser /\ line' = r.line
    BY DEF GarbageArrives, Reads, client
  <1>2. b \in Byte
    BY StreamAssumption, PlayBytes
  <1>3. m \in MachineState
    BY EmptySeq DEF StreamProofInv, Ranges, MachineState, Machine
  <1>4. r \in MachineState
    BY <1>2, <1>3, ReceiveTypes
  <1> HIDE DEF r
  <1>5. r.parser \in ParserState /\ r.line \in LineState
    BY <1>4 DEF MachineState
  <1>6. Ranges'
    BY <1>1, <1>5 DEF StreamProofInv, Ranges
  <1> QED BY <1>1, <1>6 DEF StreamProofInv, Silent

\* A new connection: nothing read, nothing meant.
LEMMA StreamStart ==
  ASSUME Init
  PROVE  StreamProofInv
  <1>1. Fresh(FALSE) \in LineState /\ Holds(Fresh(FALSE), <<>>)
    BY LineStarts
  <1>2. Ranges
    <2>1. InData \in ParserState
      BY DEF ParserState
    <2>2. <<>> \in Seq(Byte) /\ <<>> \in Seq(Event) /\ <<>> \in Seq(Text) /\ Len(<<>>) <= 3
      BY EmptySeq
    <2> QED BY <1>1, <2>1, <2>2 DEF Init, Ranges
  <1>3. Understands
    <2>1. \A n : After(n, <<>>) = n
      BY DEF After
    <2>2. /\ Machine(parser, line).parser = InData /\ Machine(parser, line).line = Fresh(FALSE)
          /\ Machine(parser, line).got = <<>>
      BY DEF Init, Machine
    <2>3. <<>> \o <<>> = <<>>
      BY EmptySeq, ConcatEmptySeq
    <2>4. Within(InData, NoSub)
      BY DEF Within
    <2> QED BY <1>1, <2>1, <2>2, <2>3, <2>4 DEF Init, Understands, Rests
  <1> QED BY <1>2, <1>3 DEF StreamProofInv, Init, Silent

\* The invariant: the decoder's ranges, and where it stands in what the client
\* means, at every byte of the stream.
THEOREM StreamCorrect == Spec => []StreamProofInv
  <1>1. Init => StreamProofInv
    BY StreamStart
  <1>2. StreamProofInv /\ [Next]_vars => StreamProofInv'
    <2> SUFFICES ASSUME StreamProofInv, [Next]_vars
                 PROVE  StreamProofInv'
      OBVIOUS
    <2>1. CASE ClientSends
      BY <2>1, ClientKeeps
    <2>2. CASE ByteArrives
      BY <2>2, ByteKeeps
    <2>3. ASSUME NEW b \in Noise, GarbageArrives(b)
          PROVE  StreamProofInv'
      BY <2>3, GarbageKeeps
    <2>4. CASE UNCHANGED vars
      BY <2>4 DEF vars, server, client, StreamProofInv, Ranges, Understands, Silent
    <2> QED BY <2>1, <2>2, <2>3, <2>4 DEF Next
  <1> QED BY <1>1, <1>2, PTL DEF Spec

\* What was read is what was meant (line.rs:37-75, parser.rs:92-155).
THEOREM StreamUnderstood == Spec => []Understood
  <1>1. StreamProofInv => Understood
    <2> SUFFICES ASSUME StreamProofInv, wire = <<>>
                 PROVE  got = meant
      BY DEF Understood
    <2>1. CASE garbage
      BY <2>1 DEF StreamProofInv, Silent
    <2>2. CASE ~garbage
      BY <2>2, Idle
    <2> QED BY <2>1, <2>2
  <1> QED BY <1>1, StreamCorrect, PTL
\* IAC SE leaves the parser at the start or in a payload, and in a payload it ends it.
LEMMA SubnegotiationEnds ==
  ASSUME NEW p \in ParserState
  PROVE  LET q == ParserStep(ParserStep(p, "IAC").to, "SE").to
         IN  /\ q = InData \/ q.at = "SubPayload"
             /\ p = InData \/ p.at = "SubPayload" => q = InData
  <1> DEFINE r == ParserStep(p, "IAC").to
             q == ParserStep(r, "SE").to
  <1>1. \A z : z.at = "Data" => ParserStep(z, "SE").to = InData /\ ParserStep(z, "IAC").to = [at |-> "Iac"]
    BY DEF ParserStep, Gives, Goes
  <1>2. \A z : z.at = "Iac" => ParserStep(z, "SE").to = InData /\ ParserStep(z, "IAC").to = InData
    <2>1. AfterIac("SE").to = InData /\ AfterIac("IAC").to = InData
      BY DEF AfterIac, Gives, Verbs
    <2> QED BY <2>1 DEF ParserStep
  <1>3. \A z : z.at = "Verb" => ParserStep(z, "IAC").to = InData
    BY DEF ParserStep, Gives
  <1>4. \A z, b : SubPush(z, b).at = "SubPayload"
    BY DEF SubPush, Sub
  <1>5. \A z : z.at = "SubOption" => ParserStep(z, "IAC").to.at = "SubPayload"
    BY DEF ParserStep, Goes, Sub
  <1>6. \A z : z.at = "SubPayload" => /\ ParserStep(z, "IAC").to = [z EXCEPT !.at = "SubIac"]
                                     /\ ParserStep(z, "SE").to = SubPush(z, "SE")
    BY DEF ParserStep, Goes
  <1>7. \A z : z.at = "SubIac" => /\ ParserStep(z, "IAC").to = SubPush(z, "IAC")
                                 /\ ParserStep(z, "SE").to = InData
    <2>1. \A z : Closed(z).to = InData
      BY DEF Closed, Gives, Goes
    <2> QED BY <2>1 DEF ParserStep, AfterSubIac, Goes
  <1>8. InData.at = "Data" /\ [at |-> "Iac"].at = "Iac"
    BY DEF InData
  <1>9. p.at = "SubPayload" => [p EXCEPT !.at = "SubIac"].at = "SubIac"
    <2> SUFFICES ASSUME p.at = "SubPayload"
                 PROVE  [p EXCEPT !.at = "SubIac"].at = "SubIac"
      OBVIOUS
    <2>1. p \in [at : {"SubPayload", "SubIac"}, option : Byte, payload : Payload, overflowed : BOOLEAN]
      BY DEF ParserState, InData
    <2> QED BY <2>1
  <1>10. p.at \in {"Data", "Iac", "Verb", "SubOption", "SubPayload", "SubIac"}
    BY DEF ParserState, InData
  <1>11. CASE p.at = "Data"
    BY <1>1, <1>2, <1>8, <1>11
  <1>12. CASE p.at \in {"Iac", "Verb"}
    BY <1>1, <1>2, <1>3, <1>8, <1>12
  <1>13. CASE p.at \in {"SubOption", "SubIac"}
    <2>1. r.at = "SubPayload"
      BY <1>4, <1>5, <1>7, <1>13
    <2> HIDE DEF r
    <2>2. q.at = "SubPayload"
      <3>1. \A z : z.at = "SubPayload" => ParserStep(z, "SE").to = SubPush(z, "SE")
        BY <1>6
      <3>2. q = SubPush(r, "SE")
        BY <2>1, <3>1
      <3> QED BY <1>4, <3>2
    <2>3. p # InData /\ p.at # "SubPayload"
      BY <1>8, <1>13
    <2> QED BY <2>2, <2>3 DEF r
  <1>14. CASE p.at = "SubPayload"
    BY <1>6, <1>7, <1>9, <1>14
  <1> QED BY <1>10, <1>11, <1>12, <1>13, <1>14

\* From whatever the decoder was left in, the bytes Resynchronises sends lead back
\* to the start.
LEMMA Resynchronised ==
  ASSUME StreamProofInv
  PROVE  Resynchronises
  <1> DEFINE m0 == Machine(parser, line)
             m1 == Receive(Receive(m0, "IAC"), "SE")
             m2 == Receive(Receive(m1, "IAC"), "SE")
             m3 == Receive(m2, "CR")
             m4 == Receive(m3, "LF")
  <1>1. "IAC" \in Byte /\ "SE" \in Byte /\ "CR" \in Byte /\ "LF" \in Byte
    BY PlayBytes
  <1>2. m0 \in MachineState
    BY EmptySeq DEF StreamProofInv, Ranges, MachineState, Machine
  <1>3. \A z \in MachineState, b \in Byte :
          /\ Receive(z, b) \in MachineState /\ Receive(z, b).parser = ParserStep(z.parser, b).to
          /\ z.parser \in ParserState
    <2> SUFFICES ASSUME NEW z \in MachineState, NEW b \in Byte
                 PROVE  /\ Receive(z, b) \in MachineState /\ z.parser \in ParserState
                        /\ Receive(z, b).parser = ParserStep(z.parser, b).to
      OBVIOUS
    <2>1. Receive(z, b).parser = ParserStep(z.parser, b).to
      BY DEF Receive
    <2> QED BY <2>1, ReceiveTypes DEF MachineState
  <1>4. \A z \in MachineState :
          /\ Receive(Receive(z, "IAC"), "SE") \in MachineState
          /\ Receive(Receive(z, "IAC"), "SE").parser = ParserStep(ParserStep(z.parser, "IAC").to, "SE").to
    BY <1>1, <1>3
  <1> HIDE DEF m0
  <1>5. m1 \in MachineState /\ (m1.parser = InData \/ m1.parser.at = "SubPayload")
    BY <1>1, <1>2, <1>3, <1>4, SubnegotiationEnds
  <1> HIDE DEF m1
  <1>6. m2 \in MachineState /\ m2.parser = InData
    BY <1>1, <1>3, <1>4, <1>5, SubnegotiationEnds
  <1> HIDE DEF m2
  <1>7. \A b \in {"CR", "LF"}, z \in MachineState : z.parser = InData =>
          Receive(z, b).parser = InData /\ Receive(z, b).line = LineStep(z.line, b).line
    <2> SUFFICES ASSUME NEW b \in {"CR", "LF"}, NEW z \in MachineState, z.parser = InData
                 PROVE  Receive(z, b).parser = InData /\ Receive(z, b).line = LineStep(z.line, b).line
      OBVIOUS
    <2>1. Escaped(b) = <<b>> /\ After(z, <<b>>) = Receive(z, b) /\ b \in Byte
      BY <1>1, Sentences DEF Escaped
    <2>2. Receive(z, b) = [parser |-> InData, line |-> LineStep(z.line, b).line,
                           got |-> z.got \o LineStep(z.line, b).events]
      BY <2>1, Escapes
    <2> QED BY <2>2
  <1>8. \A x, y : Out(x, y).line = x
    BY DEF Out
  <1>9. m3 \in MachineState /\ m3.parser = InData /\ m3.line = Fresh(TRUE)
    <2>1. LineStep(m2.line, "CR").line = Fresh(TRUE)
      BY <1>8, LineStarts
    <2> QED BY <1>1, <1>3, <1>6, <1>7, <2>1
  <1> HIDE DEF m3
  <1>10. m4.parser = InData /\ m4.line = Fresh(FALSE)
    <2>1. LineStep(m3.line, "LF").line = Fresh(FALSE)
      BY <1>8, <1>9, LineStarts
    <2> QED BY <1>7, <1>9, <2>1
  <1> QED BY <1>10 DEF Resynchronises, m0, m1, m2, m3

\* Whatever arrives, what the decoder keeps of it stays within the two limits, and
\* the stream can be taken up again (parser.rs:5-6,18-20, line.rs:8-9).
THEOREM StreamWithstands == Spec => []Withstands
  <1>1. StreamProofInv => StreamTypeOK
    <2> SUFFICES ASSUME StreamProofInv
                 PROVE  StreamTypeOK
      OBVIOUS
    <2>1. parser \in ParserState /\ line \in LineState
      BY DEF StreamProofInv, Ranges
    <2>2. parser.at \in {"Data", "Iac", "Verb", "SubOption", "SubPayload", "SubIac"}
      BY <2>1 DEF ParserState, InData
    <2>3. parser.at \in {"SubPayload", "SubIac"} => Len(parser.payload) <= MaxSubneg
      BY <2>1 DEF ParserState, InData, Payload
    <2> QED BY <2>1, <2>2, <2>3 DEF StreamTypeOK, LineState
  <1>2. StreamProofInv => Withstands
    BY <1>1, Resynchronised DEF Withstands
  <1> QED BY <1>2, StreamCorrect, PTL
=============================================================================
