---------------------------- MODULE GatewayProofs ----------------------------
(***************************************************************************)
(* Proofs about the gateway and the World loop it feeds, for any number of *)
(* connections and any channel capacities.  A connection's Register,       *)
(* Connect, lines and Disconnect cross three queues in that order, and the *)
(* World's answers come back through two more; what the inductive          *)
(* invariant says is where in them a connection's Connect may be, given    *)
(* the phase of its task, and that nothing of it overtakes it.             *)
(***************************************************************************)
EXTENDS Gateway, FiniteSetTheorems, SequenceTheorems, TLAPS

\* In queue q, every member of B has an a in front of it; and a occurs once.
Before(q, a, B) == \A j \in 1 .. Len(q) : q[j] \in B => \E i \in 1 .. (j - 1) : q[i] = a
Once(q, a) == \A i, j \in 1 .. Len(q) : q[i] = a /\ q[j] = a => i = j

-----------------------------------------------------------------------------
\* Queues: what an append and a receive do to membership, order and number.
LEMMA QueueEmpty ==
  /\ ToSet(<<>>) = {}
  /\ \A a, B : Before(<<>>, a, B) /\ Once(<<>>, a)
  BY EmptySeq DEF ToSet, Before, Once

\* A frame sent joins the back of its channel.
LEMMA QueueAppend ==
  ASSUME NEW S, NEW q \in Seq(S), NEW x \in S
  PROVE  /\ Append(q, x) \in Seq(S) /\ Append(q, x) # <<>>
         /\ Len(Append(q, x)) = Len(q) + 1
         /\ ToSet(Append(q, x)) = ToSet(q) \union {x}
         /\ \A a, B : Before(q, a, B) /\ (x \in B => a \in ToSet(q)) => Before(Append(q, x), a, B)
         /\ \A a : Once(q, a) /\ (x = a => a \notin ToSet(q)) => Once(Append(q, x), a)
  <1> DEFINE r == Append(q, x)
  <1>1. /\ r \in Seq(S) /\ Len(r) = Len(q) + 1 /\ Len(q) \in Nat /\ r # <<>>
        /\ \A i \in 1 .. Len(q) : r[i] = q[i]
        /\ r[Len(q) + 1] = x
        /\ DOMAIN q = 1 .. Len(q) /\ DOMAIN r = 1 .. (Len(q) + 1)
    BY AppendProperties
  <1> HIDE DEF r
  <1>2. ToSet(r) = ToSet(q) \union {x}
    <2>1. \A i \in 1 .. Len(r) : i \in 1 .. Len(q) \/ i = Len(q) + 1
      BY <1>1
    <2>2. \A i \in 1 .. Len(r) : r[i] \in ToSet(q) \union {x}
      BY <1>1, <2>1 DEF ToSet
    <2>3. \A i \in 1 .. Len(q) : i \in 1 .. Len(r)
      BY <1>1
    <2>4. Len(q) + 1 \in 1 .. Len(r)
      BY <1>1
    <2>5. ToSet(q) \union {x} \subseteq ToSet(r)
      BY <1>1, <2>3, <2>4 DEF ToSet
    <2>6. ToSet(r) \subseteq ToSet(q) \union {x}
      BY <1>1, <2>2 DEF ToSet
    <2> QED BY <2>5, <2>6
  <1>3. ASSUME NEW a, NEW B, Before(q, a, B), x \in B => a \in ToSet(q)
        PROVE  Before(r, a, B)
    <2> SUFFICES ASSUME NEW j \in 1 .. Len(r), r[j] \in B
                 PROVE  \E i \in 1 .. (j - 1) : r[i] = a
      BY DEF Before
    <2>1. CASE j = Len(q) + 1
      <3>1. PICK i \in 1 .. Len(q) : q[i] = a
        BY <1>1, <1>3, <2>1 DEF ToSet
      <3> QED BY <1>1, <2>1, <3>1
    <2>2. CASE j # Len(q) + 1
      <3>1. j \in 1 .. Len(q) /\ q[j] \in B
        BY <1>1, <2>2
      <3>2. PICK i \in 1 .. (j - 1) : q[i] = a
        BY <1>3, <3>1 DEF Before
      <3>3. i \in 1 .. Len(q)
        BY <1>1, <3>1
      <3> QED BY <1>1, <3>2, <3>3
    <2> QED BY <2>1, <2>2
  <1>4. ASSUME NEW a, Once(q, a), x = a => a \notin ToSet(q)
        PROVE  Once(r, a)
    BY <1>1, <1>4 DEF Once, ToSet
  <1> QED BY <1>1, <1>2, <1>3, <1>4 DEF r

\* A frame received leaves the front of its channel.
LEMMA QueueTail ==
  ASSUME NEW S, NEW q \in Seq(S), q # <<>>
  PROVE  /\ Tail(q) \in Seq(S) /\ Head(q) \in S
         /\ Len(Tail(q)) = Len(q) - 1
         /\ ToSet(q) = {Head(q)} \union ToSet(Tail(q))
         /\ \A a, B : Before(q, a, B) => Head(q) \notin B
         /\ \A a, B : Before(q, a, B) /\ Head(q) # a => Before(Tail(q), a, B)
         /\ \A a : Once(q, a) => Once(Tail(q), a) /\ (Head(q) = a => a \notin ToSet(Tail(q)))
  <1> DEFINE r == Tail(q)
  <1>1. /\ r \in Seq(S) /\ Head(q) \in S /\ Len(q) \in Nat \ {0} /\ Len(r) = Len(q) - 1
        /\ q[1] = Head(q)
        /\ \A i \in 1 .. Len(r) : r[i] = q[i + 1]
        /\ DOMAIN q = 1 .. Len(q) /\ DOMAIN r = 1 .. (Len(q) - 1)
    BY HeadTailProperties, EmptySeq
  <1> HIDE DEF r
  <1>2. ToSet(q) = {Head(q)} \union ToSet(r)
    <2>1. \A i \in 1 .. Len(q) : i = 1 \/ (i - 1 \in 1 .. Len(r) /\ r[i - 1] = q[i])
      BY <1>1
    <2>2. \A i \in 1 .. Len(q) : q[i] \in {Head(q)} \union {r[j] : j \in 1 .. Len(r)}
      BY <1>1, <2>1
    <2>3. \A j \in 1 .. Len(r) : \E i \in 1 .. Len(q) : q[i] = r[j]
      <3> SUFFICES ASSUME NEW j \in 1 .. Len(r) PROVE \E i \in 1 .. Len(q) : q[i] = r[j]
        OBVIOUS
      <3>1. j + 1 \in 1 .. Len(q) /\ q[j + 1] = r[j]
        BY <1>1
      <3> QED BY <3>1
    <2>4. /\ ToSet(q) = {q[i] : i \in 1 .. Len(q)} /\ ToSet(r) = {r[j] : j \in 1 .. Len(r)}
          /\ Head(q) \in ToSet(q)
      BY <1>1 DEF ToSet
    <2>5. ToSet(q) \subseteq {Head(q)} \union ToSet(r)
      BY <2>2, <2>4
    <2>6. ToSet(r) \subseteq ToSet(q)
      BY <2>3, <2>4
    <2> QED BY <2>4, <2>5, <2>6
  <1>3. ASSUME NEW a, NEW B, Before(q, a, B)
        PROVE  Head(q) \notin B
    BY <1>1, <1>3 DEF Before
  <1>4. ASSUME NEW a, NEW B, Before(q, a, B), Head(q) # a
        PROVE  Before(r, a, B)
    <2> SUFFICES ASSUME NEW j \in 1 .. Len(r), r[j] \in B
                 PROVE  \E i \in 1 .. (j - 1) : r[i] = a
      BY DEF Before
    <2>1. j + 1 \in 1 .. Len(q) /\ q[j + 1] \in B
      BY <1>1
    <2>2. PICK i \in 1 .. j : q[i] = a
      BY <1>4, <2>1 DEF Before
    <2>3. i - 1 \in 1 .. (j - 1) /\ r[i - 1] = q[i]
      BY <1>1, <1>4, <2>2
    <2> QED BY <2>2, <2>3
  <1>5. ASSUME NEW a, Once(q, a)
        PROVE  Once(r, a) /\ (Head(q) = a => a \notin ToSet(r))
    <2>1. Once(r, a)
      <3> SUFFICES ASSUME NEW i \in 1 .. Len(r), NEW j \in 1 .. Len(r), r[i] = a, r[j] = a
                   PROVE  i = j
        BY DEF Once
      <3>1. i + 1 \in 1 .. Len(q) /\ j + 1 \in 1 .. Len(q) /\ q[i + 1] = a /\ q[j + 1] = a
        BY <1>1
      <3>2. i + 1 = j + 1
        BY <1>5, <3>1 DEF Once
      <3> QED BY <3>2
    <2>2. ASSUME Head(q) = a, NEW i \in 1 .. Len(r), r[i] = a
          PROVE  FALSE
      <3>1. 1 \in 1 .. Len(q) /\ i + 1 \in 1 .. Len(q) /\ q[1] = a /\ q[i + 1] = a
        BY <1>1, <2>2
      <3>2. 1 = i + 1
        BY <1>5, <3>1 DEF Once
      <3> QED BY <3>2
    <2> QED BY <1>1, <2>1, <2>2 DEF ToSet
  <1> QED BY <1>1, <1>2, <1>3, <1>4, <1>5 DEF r

-----------------------------------------------------------------------------
Inner(c) == {Input(c, l) : l \in Line} \union {Disconnect(c)}
Outer(c) == {Register(c), Deregister(c)}
Command  == GatewayFrame \union [kind : {"Register", "Deregister"}, conn : Conns]

\* Frames and commands are told apart by kind and connection.
LEMMA CommandCases ==
  ASSUME NEW m \in Command
  PROVE  /\ m.conn \in Conns
         /\ m.kind \in {"Register", "Connect", "Input", "Disconnect", "Deregister"}
         /\ m \in GatewayFrame <=> m.kind \notin {"Register", "Deregister"}
         /\ \A c \in Conns :
              /\ m = Register(c) <=> m.kind = "Register" /\ m.conn = c
              /\ m = Connect(c) <=> m.kind = "Connect" /\ m.conn = c
              /\ m = Disconnect(c) <=> m.kind = "Disconnect" /\ m.conn = c
              /\ m = Deregister(c) <=> m.kind = "Deregister" /\ m.conn = c
              /\ m \in Inner(c) <=> m.kind \in {"Input", "Disconnect"} /\ m.conn = c
         /\ m.kind = "Input" => m.line \in Line /\ m = Input(m.conn, m.line)
  <1>1. CASE m \in [kind : {"Connect", "Disconnect"}, conn : Conns]
    BY <1>1 DEF GatewayFrame, Register, Connect, Disconnect, Deregister, Inner, Input
  <1>2. CASE m \in [kind : {"Input"}, conn : Conns, line : Line]
    BY <1>2 DEF GatewayFrame, Register, Connect, Disconnect, Deregister, Inner, Input
  <1>3. CASE m \in [kind : {"Register", "Deregister"}, conn : Conns]
    BY <1>3 DEF GatewayFrame, Register, Connect, Disconnect, Deregister, Inner, Input
  <1> QED BY <1>1, <1>2, <1>3 DEF Command, GatewayFrame

\* What each router command carries.
LEMMA CommandTypes ==
  ASSUME NEW c \in Conns
  PROVE  /\ Register(c) \in Command /\ Register(c).kind = "Register" /\ Register(c).conn = c
         /\ Deregister(c) \in Command /\ Deregister(c).kind = "Deregister" /\ Deregister(c).conn = c
         /\ Connect(c) \in GatewayFrame /\ Connect(c).kind = "Connect" /\ Connect(c).conn = c
         /\ Disconnect(c) \in GatewayFrame /\ Disconnect(c).kind = "Disconnect"
         /\ Disconnect(c).conn = c
         /\ \A l \in Line : /\ Input(c, l) \in GatewayFrame /\ Input(c, l).kind = "Input"
                            /\ Input(c, l).conn = c
  BY DEF Command, GatewayFrame, Register, Connect, Disconnect, Deregister, Input

\* The World's frames, and the two of the handshake, which name no connection.
LEMMA WorldFrameCases ==
  /\ \A c \in Conns : /\ Output(c) \in WorldFrame /\ Output(c).kind = "Output"
                      /\ Output(c).conn = c
                      /\ Close(c) \in WorldFrame /\ Close(c).kind = "Close" /\ Close(c).conn = c
  /\ \A f \in WorldFrame : /\ f.conn \in Conns /\ f.kind \in {"Output", "Close"}
                           /\ f # ResumeAck
                           /\ f.kind = "Close" => f = Close(f.conn)
  /\ ResumeAck.conn \notin Conns /\ ResumeAck.kind = "ResumeAck"
  /\ Resume.conn \notin Conns /\ Resume.kind = "Resume" /\ Resume \notin GatewayFrame
  BY GatewayAssumption DEF WorldFrame, GatewayFrame, Output, Close, ResumeAck, Resume

-----------------------------------------------------------------------------
\* Types, with the queues as sequences; there are finitely many sessions.
QueuesOK ==
  /\ phase \in [Conns -> Phase] /\ typed \in 0 .. MaxLines
  /\ batch \in [Conns -> {<<>>} \union Lines]
  /\ out \in [Conns -> Seq({"Output", "Close"})]
  /\ \A c \in Conns : Len(out[c]) <= OutCap
  /\ commands \in Seq(Command) /\ Len(commands) <= CommandCap
  /\ registry \subseteq Conns /\ held \in GatewayFrame \union {NoFrame}
  /\ toWorld \in Seq(GatewayFrame \union {Resume}) /\ Len(toWorld) <= ToWorldCap
  /\ toGateway \in Seq(WorldFrame \union {ResumeAck}) /\ Len(toGateway) <= ToGatewayCap
  /\ replies \in Seq(WorldFrame) /\ leaver \in Conns \union {NoConn}
  /\ sessions \subseteq Conns /\ forgotten \subseteq Conns /\ IsFiniteSet(sessions)
  /\ gate \in {"announcing", "awaiting", "serving", "deaf", "ended"}
  /\ loop \in {"accepting", "looping", "stopped"}

\* A task forwards only while it has lines.
Forwarding == \A c \in Conns : phase[c] = "forwarding" => batch[c] # <<>>

\* The handshake runs alone in its queues, before any connection is accepted,
\* and a side that has gone leaves nothing behind.
Handshake ==
  /\ gate = "announcing" => loop = "accepting" /\ toWorld = <<>>
  /\ loop = "accepting" => /\ gate \in {"announcing", "awaiting"} /\ toGateway = <<>>
                           /\ gate = "awaiting" => toWorld = <<Resume>>
  /\ gate = "awaiting" => toGateway \in {<<>>, <<ResumeAck>>}
  /\ gate \in {"announcing", "awaiting"} => \A c \in Conns : phase[c] = "idle"
  /\ loop # "accepting" => Resume \notin ToSet(toWorld)
  /\ gate # "awaiting" => ResumeAck \notin ToSet(toGateway)
  /\ ~worldUp => toWorld = <<>> /\ sessions = {} /\ replies = <<>> /\ leaver = NoConn
  /\ ~routerUp => held = NoFrame /\ commands = <<>>

\* A connection the World has met, one whose Connect is on its way, and one
\* that has got past the router.
Met(c)     == c \in sessions \union forgotten
Pending(c) == Connect(c) \in ToSet(commands) \union {held} \union ToSet(toWorld)
Beyond(c) ==
  \/ held # NoFrame /\ held.conn = c
  \/ \E m \in ToSet(toWorld) : m.conn = c
  \/ c \in sessions
  \/ \E f \in ToSet(toGateway) \union ToSet(replies) : f.conn = c

\* Before it announces itself, nothing of a connection is anywhere.
Unannounced ==
  \A c \in Conns : phase[c] \in {"idle", "registering", "connecting"} =>
    /\ \A m \in ToSet(commands) : m.conn = c => m = Register(c)
    /\ ~Beyond(c) /\ c \notin forgotten /\ "Close" \notin ToSet(out[c])

\* The router knows a connection before anything of it passes, and to its end.
Registered ==
  \A c \in Conns : routerUp =>
    /\ phase[c] \notin {"idle", "registering", "done"} =>
         c \in registry \/ Register(c) \in ToSet(commands)
    /\ phase[c] # "done" =>
         /\ c \in registry \/ Before(commands, Register(c), {Connect(c)} \union Inner(c))
         /\ Beyond(c) => c \in registry
         /\ Deregister(c) \notin ToSet(commands)

\* A Connect is sent once, and is handled once.
ConnectOnce ==
  \A c \in Conns :
    /\ Once(toWorld, Connect(c)) /\ Once(commands, Connect(c))
    /\ held = Connect(c) => Connect(c) \notin ToSet(toWorld)
    /\ Connect(c) \in ToSet(commands) => held # Connect(c) /\ Connect(c) \notin ToSet(toWorld)
    /\ Pending(c) => ~Met(c)

\* Until the World has met a connection, its lines and its Disconnect are
\* behind its Connect, in whichever queue that is.
ConnectFirst ==
  \A c \in Conns : worldUp /\ ~Met(c) =>
    /\ Before(toWorld, Connect(c), Inner(c))
    /\ held \in Inner(c) => Connect(c) \in ToSet(toWorld)
    /\ \/ Connect(c) \in ToSet(toWorld) \union {held}
       \/ Before(commands, Connect(c), Inner(c))
    /\ routerUp /\ phase[c] \in {"open", "forwarding", "writing", "disconnecting"} => Pending(c)

\* A task that has left owes the World nothing: its Disconnect is on the way.
Owed ==
  \A c \in Conns :
    /\ routerUp /\ worldUp /\ phase[c] \in {"deregistering", "done"}
    /\ c \in sessions \/ Pending(c)
    => Departing(c) \/ leaver = c

\* A Close is the last reply of its frame, and its session is dropped with it.
Closing ==
  /\ \A c \in Conns : Close(c) \in ToSet(toGateway) \/ "Close" \in ToSet(out[c]) => c \in forgotten
  /\ \A i \in 1 .. Len(replies) :
       replies[i].kind = "Close" => i = Len(replies) /\ leaver = replies[i].conn
  /\ leaver # NoConn => replies # <<>> /\ leaver \in sessions
  /\ sessions \cap forgotten = {}

Protocol == /\ Unannounced /\ Registered /\ ConnectOnce /\ ConnectFirst /\ Owed /\ Closing
GatewayProofInv == QueuesOK /\ Forwarding /\ Handshake /\ Protocol

-----------------------------------------------------------------------------
\* A task that changes phase and touches no queue into the router.
LEMMA PhaseStep ==
  ASSUME GatewayProofInv, NEW c \in Conns, NEW p \in Phase, Goto(c, p),
         ConnStep, commands' = commands,
         \A d \in Conns : ToSet(out'[d]) \subseteq ToSet(out[d]),
         \/ phase[c] = "idle" /\ p = "registering" /\ gate = "serving"
         \/ /\ phase[c] \in {"open", "forwarding", "writing"}
            /\ p \in {"open", "forwarding", "writing", "disconnecting"}
         \/ phase[c] = "open" /\ p = "deregistering" /\ "Close" \in ToSet(out[c])
         \/ gate = "ended" /\ p = "done"
  PROVE  Handshake' /\ Protocol'
  <1>1. UNCHANGED <<registry, held, gate, toWorld, toGateway, sessions, replies, leaver,
                    loop, forgotten, commands>>
    BY DEF ConnStep, routerVars, worldVars
  <1>2. /\ phase'[c] = p
        /\ \A d \in Conns : d # c => phase'[d] = phase[d]
    BY DEF Goto, GatewayProofInv, QueuesOK
  <1>3. (routerUp' <=> routerUp) /\ (worldUp' <=> worldUp)
    BY <1>1 DEF routerUp, worldUp
  <1>4. \A d \in Conns : /\ Met(d)' <=> Met(d)
                         /\ Pending(d)' <=> Pending(d)
                         /\ Beyond(d)' <=> Beyond(d)
                         /\ Departing(d)' <=> Departing(d)
    BY <1>1 DEF Met, Pending, Beyond, Departing
  <1>5. phase[c] = "idle" => gate = "serving" \/ gate = "ended"
    OBVIOUS
  <1>6. Handshake'
    BY <1>1, <1>2, <1>3, <1>5 DEF GatewayProofInv, Handshake
  <1>7. Unannounced'
    BY <1>1, <1>2, <1>4 DEF GatewayProofInv, Protocol, Unannounced
  <1>8. Registered'
    <2>1. ASSUME routerUp PROVE p # "done" /\ phase[c] # "done"
      BY <2>1 DEF routerUp
    <2>2. ASSUME routerUp, p \notin {"idle", "registering", "done"}
          PROVE  phase[c] \notin {"idle", "registering", "done"}
      BY <2>2 DEF routerUp
    <2> QED BY <1>1, <1>2, <1>3, <1>4, <2>1, <2>2 DEF GatewayProofInv, Protocol, Registered
  <1>9. ConnectOnce'
    BY <1>1, <1>4 DEF GatewayProofInv, Protocol, ConnectOnce
  <1>10. ConnectFirst'
    <2>1. ASSUME routerUp, p \in {"open", "forwarding", "writing", "disconnecting"}
          PROVE  phase[c] \in {"open", "forwarding", "writing", "disconnecting"}
      BY <2>1 DEF routerUp
    <2> QED BY <1>1, <1>2, <1>3, <1>4, <2>1 DEF GatewayProofInv, Protocol, ConnectFirst
  <1>11. Owed'
    <2>1. ASSUME routerUp, p \in {"deregistering", "done"}
          PROVE  c \notin sessions /\ ~Pending(c)
      <3>1. c \in forgotten
        BY <2>1 DEF routerUp, GatewayProofInv, Protocol, Closing
      <3> QED BY <3>1 DEF GatewayProofInv, Protocol, Closing, ConnectOnce, Met
    <2> QED BY <1>1, <1>2, <1>3, <1>4, <2>1 DEF GatewayProofInv, Protocol, Owed
  <1>12. Closing'
    BY <1>1 DEF GatewayProofInv, Protocol, Closing
  <1> QED BY <1>6, <1>7, <1>8, <1>9, <1>10, <1>11, <1>12 DEF Protocol

\* A task that sends its next command to the router.
LEMMA SendStep ==
  ASSUME GatewayProofInv, NEW c \in Conns, NEW p \in Phase, Goto(c, p),
         NEW m \in Command, Send(m), ConnStep, out' = out,
         \/ phase[c] = "registering" /\ m = Register(c) /\ p = "connecting"
         \/ phase[c] = "connecting" /\ m = Connect(c) /\ p = "open"
         \/ phase[c] = "forwarding" /\ m \in Inner(c) /\ p \in {"open", "forwarding"}
         \/ phase[c] = "disconnecting" /\ m = Disconnect(c) /\ p = "deregistering"
         \/ phase[c] = "deregistering" /\ m = Deregister(c) /\ p = "done"
  PROVE  Handshake' /\ Protocol'
  <1>1. UNCHANGED <<registry, held, gate, toWorld, toGateway, sessions, replies, leaver,
                    loop, forgotten, out>>
    BY DEF ConnStep, routerVars, worldVars
  <1>2. /\ phase'[c] = p
        /\ \A d \in Conns : d # c => phase'[d] = phase[d]
    BY DEF Goto, GatewayProofInv, QueuesOK
  <1>3. routerUp /\ routerUp' /\ (worldUp' <=> worldUp)
    BY <1>1 DEF Send, routerUp, worldUp
  <1>4. /\ ToSet(commands') = ToSet(commands) \union {m}
        /\ \A a, B : /\ Before(commands, a, B) /\ (m \in B => a \in ToSet(commands))
                     => Before(commands', a, B)
        /\ \A a : Once(commands, a) /\ (m = a => a \notin ToSet(commands)) => Once(commands', a)
    BY QueueAppend DEF Send, GatewayProofInv, QueuesOK
  <1>5. /\ m.conn = c
        /\ \A d \in Conns :
             /\ m = Register(d) <=> m.kind = "Register" /\ m.conn = d
             /\ m = Connect(d) <=> m.kind = "Connect" /\ m.conn = d
             /\ m = Disconnect(d) <=> m.kind = "Disconnect" /\ m.conn = d
             /\ m = Deregister(d) <=> m.kind = "Deregister" /\ m.conn = d
             /\ m \in Inner(d) <=> m.kind \in {"Input", "Disconnect"} /\ m.conn = d
    BY CommandCases, CommandTypes
  <1>6. \A d \in Conns : /\ Met(d)' <=> Met(d)
                         /\ Beyond(d)' <=> Beyond(d)
                         /\ Pending(d)' <=> Pending(d) \/ m = Connect(d)
                         /\ Departing(d)' <=> Departing(d) \/ m = Disconnect(d)
    BY <1>1, <1>4 DEF Met, Pending, Beyond, Departing
  <1>7. Handshake'
    BY <1>1, <1>2, <1>3 DEF GatewayProofInv, Handshake, routerUp, worldUp
  <1>8. Unannounced'
    BY <1>1, <1>2, <1>4, <1>5, <1>6 DEF GatewayProofInv, Protocol, Unannounced
  <1>9. Registered'
    <2> SUFFICES ASSUME NEW d \in Conns
                 PROVE  /\ phase'[d] \notin {"idle", "registering", "done"} =>
                             d \in registry \/ Register(d) \in ToSet(commands')
                        /\ phase'[d] # "done" =>
                             /\ d \in registry \/ Before(commands', Register(d), {Connect(d)} \union Inner(d))
                             /\ Beyond(d)' => d \in registry
                             /\ Deregister(d) \notin ToSet(commands')
      BY <1>1 DEF Registered
    <2>1. CASE d # c
      BY <1>2, <1>3, <1>4, <1>5, <1>6, <2>1 DEF GatewayProofInv, Protocol, Registered
    <2>2. CASE d = c
      <3>1. phase[c] \notin {"idle", "done"}
        OBVIOUS
      <3>2. m = Register(c) \/ c \in registry \/ Register(c) \in ToSet(commands)
        BY <1>3 DEF GatewayProofInv, Protocol, Registered
      <3>3. \/ c \in registry
            \/ Before(commands', Register(c), {Connect(c)} \union Inner(c))
        BY <1>3, <1>4, <1>5, <3>1, <3>2 DEF GatewayProofInv, Protocol, Registered
      <3>4. p # "done" => Deregister(c) \notin ToSet(commands')
        BY <1>3, <1>4, <1>5, <3>1 DEF GatewayProofInv, Protocol, Registered
      <3>5. Beyond(c) => c \in registry
        BY <1>3, <3>1 DEF GatewayProofInv, Protocol, Registered
      <3> QED BY <1>2, <1>4, <1>6, <2>2, <3>2, <3>3, <3>4, <3>5
    <2> QED BY <2>1, <2>2
  <1>10. m = Connect(c) =>
           ~Pending(c) /\ ~Met(c) /\ \A x \in ToSet(commands) : x.conn = c => x = Register(c)
    <2> SUFFICES ASSUME m = Connect(c)
                 PROVE  /\ ~Pending(c) /\ ~Met(c)
                        /\ \A x \in ToSet(commands) : x.conn = c => x = Register(c)
      OBVIOUS
    <2>1. phase[c] = "connecting"
      BY <1>5, CommandTypes
    <2>2. /\ \A x \in ToSet(commands) : x.conn = c => x = Register(c)
          /\ ~Beyond(c) /\ c \notin forgotten
      BY <2>1 DEF GatewayProofInv, Protocol, Unannounced
    <2>3. Connect(c).conn = c /\ Connect(c) # Register(c)
      BY CommandTypes
    <2>4. held # Connect(c)
      BY <2>2, <2>3, CommandTypes, NoFrameAssumption DEF Beyond
    <2> QED BY <2>2, <2>3, <2>4 DEF Pending, Beyond, Met
  <1>11. ConnectOnce'
    BY <1>1, <1>4, <1>5, <1>6, <1>10 DEF GatewayProofInv, Protocol, ConnectOnce, Pending
  <1>12. ConnectFirst'
    <2> SUFFICES ASSUME NEW d \in Conns, worldUp, ~Met(d)
                 PROVE  /\ Before(toWorld, Connect(d), Inner(d))
                        /\ held \in Inner(d) => Connect(d) \in ToSet(toWorld)
                        /\ \/ Connect(d) \in ToSet(toWorld) \union {held}
                           \/ Before(commands', Connect(d), Inner(d))
                        /\ phase'[d] \in {"open", "forwarding", "writing", "disconnecting"}
                             => Pending(d)'
      BY <1>1, <1>3, <1>6 DEF ConnectFirst
    <2>1. /\ Before(toWorld, Connect(d), Inner(d))
          /\ held \in Inner(d) => Connect(d) \in ToSet(toWorld)
          /\ \/ Connect(d) \in ToSet(toWorld) \union {held}
             \/ Before(commands, Connect(d), Inner(d))
          /\ phase[d] \in {"open", "forwarding", "writing", "disconnecting"} => Pending(d)
      BY <1>3 DEF GatewayProofInv, Protocol, ConnectFirst
    <2>2. m \in Inner(d) => Pending(d)
      BY <1>5, <2>1
    <2>3. \/ Connect(d) \in ToSet(toWorld) \union {held}
          \/ Before(commands', Connect(d), Inner(d))
      BY <1>4, <2>1, <2>2 DEF Pending
    <2>4. phase'[d] \in {"open", "forwarding", "writing", "disconnecting"} => Pending(d)'
      BY <1>2, <1>6, <2>1
    <2> QED BY <2>1, <2>3, <2>4
  <1>13. Owed'
    BY <1>1, <1>2, <1>3, <1>5, <1>6 DEF GatewayProofInv, Protocol, Owed
  <1>14. Closing'
    BY <1>1 DEF GatewayProofInv, Protocol, Closing
  <1> QED BY <1>7, <1>8, <1>9, <1>11, <1>12, <1>13, <1>14 DEF Protocol

-----------------------------------------------------------------------------
\* The connection tasks and the listener.
LEMMA QueuesFrame ==
  ASSUME QueuesOK, ConnStep, phase' \in [Conns -> Phase],
         UNCHANGED <<batch, typed>> \/ (batch' \in [Conns -> {<<>>} \union Lines] /\ typed' \in 0 .. MaxLines),
         out' = out \/ (out' \in [Conns -> Seq({"Output", "Close"})]
                        /\ \A c \in Conns : Len(out'[c]) <= OutCap),
         commands' = commands \/ (commands' \in Seq(Command) /\ Len(commands') <= CommandCap)
  PROVE  QueuesOK'
  BY DEF QueuesOK, ConnStep, routerVars, worldVars

\* A send that goes through leaves the channel of the router well formed and within its capacity.
LEMMA SendQueue ==
  ASSUME QueuesOK, NEW m \in Command, Send(m)
  PROVE  commands' \in Seq(Command) /\ Len(commands') <= CommandCap
  BY QueueAppend, GatewayAssumption DEF Send, QueuesOK

\* A connection task's own moves between two awaits keep the invariant.
LEMMA TaskSteps ==
  ASSUME GatewayProofInv, NEW c \in Conns,
         \/ Accept(c) \/ Hangup(c) \/ Written(c) \/ Abandon(c)
         \/ Open(c) \/ Leave(c)
  PROVE  GatewayProofInv'
  <1>1. QueuesOK /\ Forwarding /\ phase \in [Conns -> Phase]
    BY DEF GatewayProofInv, QueuesOK
  <1>2. ASSUME NEW p \in Phase, p # "forwarding", Goto(c, p), UNCHANGED batch
        PROVE  phase' \in [Conns -> Phase] /\ Forwarding'
    BY <1>1, <1>2 DEF Goto, Forwarding
  <1>3. CASE Accept(c)
    <2>1. /\ Goto(c, "registering") /\ ConnStep /\ UNCHANGED <<batch, typed, out, commands>>
          /\ phase[c] = "idle" /\ gate = "serving"
      BY <1>3 DEF Accept
    <2>2. phase' \in [Conns -> Phase] /\ Forwarding'
      BY <1>2, <2>1 DEF Phase
    <2>3. QueuesOK'
      BY <1>1, <2>1, <2>2, QueuesFrame
    <2>4. Handshake' /\ Protocol'
      BY <2>1, PhaseStep DEF Phase
    <2> QED BY <2>2, <2>3, <2>4 DEF GatewayProofInv
  <1>4. CASE Hangup(c)
    <2>1. /\ Goto(c, "disconnecting") /\ ConnStep /\ UNCHANGED <<batch, typed, out, commands>>
          /\ phase[c] \in {"open", "writing"}
      BY <1>4 DEF Hangup, AfterHangup
    <2>2. phase' \in [Conns -> Phase] /\ Forwarding'
      BY <1>2, <2>1 DEF Phase
    <2>3. QueuesOK'
      BY <1>1, <2>1, <2>2, QueuesFrame
    <2>4. Handshake' /\ Protocol'
      BY <2>1, PhaseStep DEF Phase
    <2> QED BY <2>2, <2>3, <2>4 DEF GatewayProofInv
  <1>5. CASE Written(c)
    <2>1. /\ Goto(c, "open") /\ ConnStep /\ UNCHANGED <<batch, typed, out, commands>>
          /\ phase[c] = "writing"
      BY <1>5 DEF Written
    <2>2. phase' \in [Conns -> Phase] /\ Forwarding'
      BY <1>2, <2>1 DEF Phase
    <2>3. QueuesOK'
      BY <1>1, <2>1, <2>2, QueuesFrame
    <2>4. Handshake' /\ Protocol'
      BY <2>1, PhaseStep DEF Phase
    <2> QED BY <2>2, <2>3, <2>4 DEF GatewayProofInv
  <1>6. CASE Abandon(c)
    <2>1. /\ Goto(c, "done") /\ ConnStep /\ UNCHANGED <<batch, typed, out, commands>>
          /\ phase[c] # "idle" /\ ~routerUp
      BY <1>6 DEF Abandon, Abandoned
    <2>2. phase' \in [Conns -> Phase] /\ Forwarding'
      BY <1>2, <2>1 DEF Phase
    <2>3. QueuesOK'
      BY <1>1, <2>1, <2>2, QueuesFrame
    <2>4. gate = "ended"
      BY <1>1, <2>1 DEF GatewayProofInv, Handshake, QueuesOK, routerUp
    <2>5. Handshake' /\ Protocol'
      BY <2>1, <2>4, PhaseStep DEF Phase
    <2> QED BY <2>2, <2>3, <2>5 DEF GatewayProofInv
  <1>7. ASSUME Open(c) \/ Leave(c)
        PROVE  GatewayProofInv'
    <2>1. PICK m \in Command, p \in Phase :
            /\ Goto(c, p) /\ Send(m) /\ p # "forwarding"
            /\ \/ phase[c] = "registering" /\ m = Register(c) /\ p = "connecting"
               \/ phase[c] = "connecting" /\ m = Connect(c) /\ p = "open"
               \/ phase[c] = "disconnecting" /\ m = Disconnect(c) /\ p = "deregistering"
               \/ phase[c] = "deregistering" /\ m = Deregister(c) /\ p = "done"
      BY <1>7, CommandTypes DEF Open, Announce, Leave, Phase, Command
    <2>2. ConnStep /\ UNCHANGED <<batch, typed, out>>
      BY <1>7 DEF Open, Leave
    <2>3. phase' \in [Conns -> Phase] /\ Forwarding'
      BY <1>2, <2>1, <2>2
    <2>4. QueuesOK'
      BY <1>1, <2>1, <2>2, <2>3, QueuesFrame, SendQueue
    <2>5. Handshake' /\ Protocol'
      BY <2>1, <2>2, SendStep
    <2> QED BY <2>3, <2>4, <2>5 DEF GatewayProofInv
  <1> QED BY <1>3, <1>4, <1>5, <1>6, <1>7

\* A batch of lines is never longer than the clients may type, and forwarding
\* it line by line keeps it so.
LEMMA ReadStep ==
  ASSUME GatewayProofInv, NEW c \in Conns, NEW lines \in Lines, Read(c, lines)
  PROVE  GatewayProofInv'
  <1>1. /\ Goto(c, "forwarding") /\ ConnStep /\ UNCHANGED <<out, commands>>
        /\ phase[c] = "open" /\ typed' = typed + Len(lines) /\ typed + Len(lines) <= MaxLines
        /\ batch' = [batch EXCEPT ![c] = lines]
    BY DEF Read
  <1>2. /\ phase \in [Conns -> Phase] /\ batch \in [Conns -> {<<>>} \union Lines]
        /\ typed \in Nat /\ MaxLines \in Nat
    BY GatewayAssumption DEF GatewayProofInv, QueuesOK
  <1>3. lines # <<>> /\ Len(lines) \in Nat
    <2>1. PICK n \in 1 .. MaxLines : lines \in [1 .. n -> Line]
      BY DEF Lines
    <2>2. n \in Nat \ {0} /\ lines \in Seq(Line) /\ Len(lines) = n
      BY <1>2, <2>1, SeqDef, LenProperties
    <2> QED BY <2>2, EmptySeq
  <1>4. phase' \in [Conns -> Phase] /\ batch' \in [Conns -> {<<>>} \union Lines]
    BY <1>1, <1>2 DEF Goto, Phase
  <1>5. Forwarding'
    BY <1>1, <1>2, <1>3 DEF GatewayProofInv, Forwarding, Goto
  <1>6. typed' \in 0 .. MaxLines
    BY <1>1, <1>2, <1>3
  <1>7. QueuesOK'
    BY <1>1, <1>4, <1>6, QueuesFrame DEF GatewayProofInv
  <1>8. Handshake' /\ Protocol'
    BY <1>1, PhaseStep DEF Phase
  <1> QED BY <1>5, <1>7, <1>8 DEF GatewayProofInv

\* Forwarding a line: the connection waits for room in the router's channel.
LEMMA ForwardStep ==
  ASSUME GatewayProofInv, NEW c \in Conns, Forward(c)
  PROVE  GatewayProofInv'
  <1>1. /\ phase[c] = "forwarding" /\ Send(Input(c, Head(batch[c])))
        /\ batch' = [batch EXCEPT ![c] = Tail(@)]
        /\ IF Len(batch[c]) = 1 THEN Goto(c, "open") ELSE UNCHANGED phase
        /\ ConnStep /\ UNCHANGED <<typed, out>>
    BY DEF Forward
  <1>2. /\ phase \in [Conns -> Phase] /\ batch \in [Conns -> {<<>>} \union Lines]
        /\ batch[c] \in Lines
    BY <1>1 DEF GatewayProofInv, QueuesOK, Forwarding
  <1>3. PICK n \in 1 .. MaxLines : batch[c] \in [1 .. n -> Line]
    BY <1>2 DEF Lines
  <1>4. /\ n \in Nat \ {0} /\ batch[c] \in Seq(Line) /\ Len(batch[c]) = n /\ batch[c] # <<>>
        /\ MaxLines \in Nat
    <2>1. n \in Nat \ {0} /\ batch[c] \in Seq(Line) /\ Len(batch[c]) = n /\ MaxLines \in Nat
      BY <1>3, SeqDef, LenProperties, GatewayAssumption
    <2> QED BY <2>1, EmptySeq
  <1>5. /\ Head(batch[c]) \in Line /\ Tail(batch[c]) \in Seq(Line)
        /\ Len(Tail(batch[c])) = n - 1
    BY <1>4, HeadTailProperties
  <1>6. n # 1 => Tail(batch[c]) \in Lines /\ Tail(batch[c]) # <<>>
    <2> SUFFICES ASSUME n # 1 PROVE Tail(batch[c]) \in Lines /\ Tail(batch[c]) # <<>>
      OBVIOUS
    <2>1. n - 1 \in 1 .. MaxLines
      BY <1>3, <1>4
    <2>2. Tail(batch[c]) \in [1 .. Len(Tail(batch[c])) -> Line]
      BY <1>5, LenProperties
    <2>3. Tail(batch[c]) \in [1 .. (n - 1) -> Line]
      BY <1>5, <2>2
    <2>4. Tail(batch[c]) \in Lines
      BY <2>1, <2>3 DEF Lines
    <2>5. Len(Tail(batch[c])) # 0
      BY <1>4, <1>5
    <2> QED BY <1>5, <2>4, <2>5, EmptySeq
  <1>7. n = 1 => Tail(batch[c]) = <<>>
    <2> SUFFICES ASSUME n = 1 PROVE Tail(batch[c]) = <<>>
      OBVIOUS
    <2>1. Len(Tail(batch[c])) = 0
      BY <1>5
    <2> QED BY <1>5, <2>1, EmptySeq
  <1>8. batch' \in [Conns -> {<<>>} \union Lines]
    BY <1>1, <1>2, <1>6, <1>7
  <1> DEFINE p == IF n = 1 THEN "open" ELSE "forwarding"
  <1>9. p \in Phase /\ Goto(c, p) /\ phase' \in [Conns -> Phase]
    BY <1>1, <1>2, <1>4 DEF Phase, Goto
  <1>10. Forwarding'
    BY <1>1, <1>2, <1>4, <1>6, <1>9 DEF GatewayProofInv, Forwarding, Goto
  <1>11. Input(c, Head(batch[c])) \in Command /\ Input(c, Head(batch[c])) \in Inner(c)
    BY <1>5, CommandTypes DEF Command, Inner
  <1>12. QueuesOK'
    <2>1. commands' \in Seq(Command) /\ Len(commands') <= CommandCap
      BY <1>1, <1>11, SendQueue DEF GatewayProofInv
    <2>2. typed' \in 0 .. MaxLines
      BY <1>1 DEF GatewayProofInv, QueuesOK
    <2> QED BY <1>1, <1>8, <1>9, <2>1, <2>2, QueuesFrame DEF GatewayProofInv
  <1>13. Handshake' /\ Protocol'
    BY <1>1, <1>9, <1>11, SendStep
  <1> QED BY <1>10, <1>12, <1>13 DEF GatewayProofInv

\* Taking output: a Close ends the loop of the connection.
LEMMA TakeOutputStep ==
  ASSUME GatewayProofInv, NEW c \in Conns, TakeOutput(c)
  PROVE  GatewayProofInv'
  <1> DEFINE p == After(Head(out[c]))
  <1>1. /\ phase[c] = "open" /\ out[c] # <<>> /\ out' = [out EXCEPT ![c] = Tail(@)]
        /\ Goto(c, p) /\ ConnStep /\ UNCHANGED <<batch, typed, commands>>
    BY DEF TakeOutput
  <1>2. /\ phase \in [Conns -> Phase] /\ out \in [Conns -> Seq({"Output", "Close"})]
        /\ \A d \in Conns : Len(out[d]) <= OutCap
        /\ OutCap \in Nat
    BY GatewayAssumption DEF GatewayProofInv, QueuesOK
  <1>3. /\ Tail(out[c]) \in Seq({"Output", "Close"}) /\ Len(Tail(out[c])) = Len(out[c]) - 1
        /\ ToSet(out[c]) = {Head(out[c])} \union ToSet(Tail(out[c]))
        /\ Head(out[c]) \in {"Output", "Close"}
    BY <1>1, <1>2, QueueTail
  <1>4. out' \in [Conns -> Seq({"Output", "Close"})] /\ \A d \in Conns : Len(out'[d]) <= OutCap
    <2>1. Len(out[c]) \in Nat
      BY <1>2, LenProperties
    <2> QED BY <1>1, <1>2, <1>3, <2>1
  <1>5. \A d \in Conns : ToSet(out'[d]) \subseteq ToSet(out[d])
    BY <1>1, <1>2, <1>3
  <1>6. /\ p \in {"writing", "deregistering"} /\ p \in Phase
        /\ p = "deregistering" => "Close" \in ToSet(out[c])
    BY <1>3 DEF After, Phase
  <1> HIDE DEF p
  <1>7. phase' \in [Conns -> Phase] /\ Forwarding'
    BY <1>1, <1>2, <1>6 DEF Goto, GatewayProofInv, Forwarding
  <1>8. QueuesOK'
    BY <1>1, <1>4, <1>7, QueuesFrame DEF GatewayProofInv
  <1>9. Handshake' /\ Protocol'
    BY <1>1, <1>5, <1>6, PhaseStep
  <1> QED BY <1>7, <1>8, <1>9 DEF GatewayProofInv

-----------------------------------------------------------------------------
\* The listener and the handshake.  Until the gateway serves there is nothing of
\* any connection anywhere, but for the handshake's two frames.
LEMMA BeforeServing ==
  ASSUME GatewayProofInv, gate \in {"announcing", "awaiting"}
  PROVE  /\ \A c \in Conns : phase[c] = "idle" /\ ~Beyond(c) /\ c \notin forgotten
         /\ commands = <<>> /\ held = NoFrame /\ sessions = {} /\ forgotten = {}
         /\ replies = <<>> /\ leaver = NoConn
  <1>1. \A c \in Conns : phase[c] = "idle"
    BY DEF GatewayProofInv, Handshake
  <1>2. \A c \in Conns : ~Beyond(c) /\ c \notin forgotten
    BY <1>1 DEF GatewayProofInv, Protocol, Unannounced
  <1>3. commands = <<>> /\ held = NoFrame
    BY DEF GatewayProofInv, Handshake, routerUp
  <1>4. sessions = {} /\ forgotten = {}
    BY <1>2 DEF Beyond, GatewayProofInv, QueuesOK
  <1>5. leaver = NoConn
    BY <1>4 DEF GatewayProofInv, Protocol, Closing
  <1>6. replies = <<>>
    <2> SUFFICES ASSUME replies # <<>> PROVE FALSE
      OBVIOUS
    <2>1. Head(replies) \in WorldFrame /\ Head(replies) \in ToSet(replies)
      BY QueueTail DEF GatewayProofInv, QueuesOK
    <2>2. Head(replies).conn \in Conns
      BY <2>1, WorldFrameCases
    <2> QED BY <1>2, <2>1, <2>2 DEF Beyond
  <1> QED BY <1>1, <1>2, <1>3, <1>4, <1>5, <1>6

\* A queue with one frame of the handshake in it.
LEMMA QueueOne ==
  ASSUME NEW S, NEW x \in S
  PROVE  /\ <<x>> \in Seq(S) /\ Len(<<x>>) = 1 /\ ToSet(<<x>>) = {x}
         /\ Append(<<>>, x) = <<x>> /\ Head(<<x>>) = x /\ Tail(<<x>>) = <<>> /\ <<x>> # <<>>
         /\ \A a, B : x \notin B => Before(<<x>>, a, B)
         /\ \A a : Once(<<x>>, a)
  <1>1. <<x>> \in Seq(S) /\ Len(<<x>>) = 1 /\ Append(<<>>, x) = <<x>> /\ Head(<<x>>) = x
        /\ Tail(<<x>>) = <<>> /\ <<x>> # <<>> /\ <<x>>[1] = x /\ DOMAIN <<x>> = 1 .. 1
    OBVIOUS
  <1>2. ToSet(<<x>>) = {x}
    BY <1>1 DEF ToSet
  <1> QED BY <1>1, <1>2 DEF Before, Once

\* The handshake's frames are of no connection: as long as the queues hold
\* nothing else, the protocol is where it was.
LEMMA HandshakeProtocol ==
  ASSUME GatewayProofInv,
         UNCHANGED <<phase, out, commands, registry, held, sessions, replies, leaver, forgotten>>,
         toWorld' = toWorld \/ {toWorld, toWorld'} \subseteq {<<>>, <<Resume>>},
         toGateway' = toGateway \/ {toGateway, toGateway'} \subseteq {<<>>, <<ResumeAck>>},
         worldUp' => worldUp,
         (routerUp' => routerUp) \/ \A c \in Conns : phase[c] = "idle"
  PROVE  Protocol'
  <1>1. /\ ToSet(<<Resume>>) = {Resume} /\ ToSet(<<ResumeAck>>) = {ResumeAck} /\ ToSet(<<>>) = {}
        /\ \A c \in Conns : Resume \notin {Connect(c)} \union Inner(c)
    <2>1. \A c \in Conns, m \in GatewayFrame : Resume # m
      BY WorldFrameCases
    <2>2. \A c \in Conns : {Connect(c)} \union Inner(c) \subseteq GatewayFrame
      BY CommandTypes DEF Inner
    <2> QED BY <2>1, <2>2, QueueOne, QueueEmpty
  <1>2. \A c \in Conns :
          /\ Connect(c) \in ToSet(toWorld') <=> Connect(c) \in ToSet(toWorld)
          /\ Disconnect(c) \in ToSet(toWorld') <=> Disconnect(c) \in ToSet(toWorld)
          /\ (\E m \in ToSet(toWorld') : m.conn = c) <=> (\E m \in ToSet(toWorld) : m.conn = c)
          /\ Before(toWorld, Connect(c), Inner(c)) => Before(toWorld', Connect(c), Inner(c))
          /\ Once(toWorld, Connect(c)) => Once(toWorld', Connect(c))
    <2> SUFFICES ASSUME {toWorld, toWorld'} \subseteq {<<>>, <<Resume>>}
                 PROVE  \A c \in Conns :
          /\ Connect(c) \in ToSet(toWorld') <=> Connect(c) \in ToSet(toWorld)
          /\ Disconnect(c) \in ToSet(toWorld') <=> Disconnect(c) \in ToSet(toWorld)
          /\ (\E m \in ToSet(toWorld') : m.conn = c) <=> (\E m \in ToSet(toWorld) : m.conn = c)
          /\ Before(toWorld, Connect(c), Inner(c)) => Before(toWorld', Connect(c), Inner(c))
          /\ Once(toWorld, Connect(c)) => Once(toWorld', Connect(c))
      OBVIOUS
    <2>1. ToSet(toWorld) \subseteq {Resume} /\ ToSet(toWorld') \subseteq {Resume}
      BY <1>1
    <2>2. \A c \in Conns : Before(toWorld', Connect(c), Inner(c)) /\ Once(toWorld', Connect(c))
      BY <1>1, QueueOne, QueueEmpty
    <2>3. \A c \in Conns : Resume # Connect(c) /\ Resume # Disconnect(c) /\ Resume.conn # c
      BY <1>1, WorldFrameCases DEF Inner
    <2> QED BY <2>1, <2>2, <2>3
  <1>3. \A c \in Conns :
          /\ (\E f \in ToSet(toGateway') : f.conn = c) <=> (\E f \in ToSet(toGateway) : f.conn = c)
          /\ Close(c) \in ToSet(toGateway') => Close(c) \in ToSet(toGateway)
    BY <1>1, WorldFrameCases
  <1>4. \A d \in Conns : /\ Met(d)' <=> Met(d)
                         /\ Pending(d)' <=> Pending(d)
                         /\ Beyond(d)' <=> Beyond(d)
                         /\ Departing(d)' <=> Departing(d)
    BY <1>2, <1>3 DEF Met, Pending, Beyond, Departing
  <1>5. Unannounced'
    BY <1>4 DEF GatewayProofInv, Protocol, Unannounced
  <1>6. Registered'
    <2>1. CASE routerUp' => routerUp
      BY <1>4, <2>1 DEF GatewayProofInv, Protocol, Registered
    <2>2. ASSUME \A c \in Conns : phase[c] = "idle", NEW c \in Conns
          PROVE  /\ Before(commands, Register(c), {Connect(c)} \union Inner(c))
                 /\ ~Beyond(c) /\ Deregister(c) \notin ToSet(commands)
      <3>1. /\ \A m \in ToSet(commands) : m.conn = c => m = Register(c)
            /\ ~Beyond(c)
        BY <2>2 DEF GatewayProofInv, Protocol, Unannounced
      <3>2. Deregister(c).conn = c /\ Deregister(c) # Register(c)
        BY CommandTypes
      <3>3. \A m \in {Connect(c)} \union Inner(c) : m.conn = c /\ m # Register(c)
        BY CommandTypes DEF Inner
      <3>4. \A j \in 1 .. Len(commands) : commands[j] \in ToSet(commands)
        BY LenProperties DEF GatewayProofInv, QueuesOK, ToSet
      <3> QED BY <3>1, <3>2, <3>3, <3>4 DEF Before
    <2>3. CASE \A c \in Conns : phase[c] = "idle"
      BY <1>4, <2>2, <2>3 DEF Registered
    <2> QED BY <2>1, <2>3
  <1>7. ConnectOnce'
    BY <1>2, <1>4 DEF GatewayProofInv, Protocol, ConnectOnce
  <1>8. ConnectFirst'
    BY <1>2, <1>4 DEF GatewayProofInv, Protocol, ConnectFirst
  <1>9. Owed'
    BY <1>4 DEF GatewayProofInv, Protocol, Owed
  <1>10. Closing'
    BY <1>3 DEF GatewayProofInv, Protocol, Closing
  <1> QED BY <1>5, <1>6, <1>7, <1>8, <1>9, <1>10 DEF Protocol

\* A gate that moves with nothing else, but for the queues of the handshake.
LEMMA HandshakeQueues ==
  ASSUME QueuesOK,
         UNCHANGED <<connVars, out, commands, registry, held, sessions, replies, leaver, forgotten>>,
         toWorld' = toWorld \/ toWorld' \in {<<>>, <<Resume>>},
         toGateway' = toGateway \/ toGateway' \in {<<>>, <<ResumeAck>>},
         gate' \in {"announcing", "awaiting", "serving", "deaf", "ended"},
         loop' \in {"accepting", "looping", "stopped"}
  PROVE  QueuesOK'
  <1>1. <<Resume>> \in Seq(GatewayFrame \union {Resume}) /\ Len(<<Resume>>) = 1
        /\ <<ResumeAck>> \in Seq(WorldFrame \union {ResumeAck}) /\ Len(<<ResumeAck>>) = 1
        /\ <<>> \in Seq(GatewayFrame \union {Resume}) /\ <<>> \in Seq(WorldFrame \union {ResumeAck})
        /\ Len(<<>>) = 0
    BY EmptySeq
  <1>2. 1 <= ToWorldCap /\ 1 <= ToGatewayCap /\ 0 <= ToWorldCap /\ 0 <= ToGatewayCap
    BY GatewayAssumption
  <1>3. toWorld' \in Seq(GatewayFrame \union {Resume}) /\ Len(toWorld') <= ToWorldCap
    BY <1>1, <1>2 DEF QueuesOK
  <1>4. toGateway' \in Seq(WorldFrame \union {ResumeAck}) /\ Len(toGateway') <= ToGatewayCap
    BY <1>1, <1>2 DEF QueuesOK
  <1> QED BY <1>3, <1>4 DEF QueuesOK, connVars

\* No step of the handshake disturbs a session: none exists before it is done.
LEMMA HandshakeSteps ==
  ASSUME GatewayProofInv,
         AnnounceSessions \/ AcceptResume \/ CheckAck \/ \E c \in Conns : ListenerFails(c)
  PROVE  GatewayProofInv'
  <1>1. UNCHANGED <<phase, batch, out, commands, registry, held, sessions, replies, leaver, forgotten>>
        /\ UNCHANGED <<connVars>>
    BY DEF AnnounceSessions, AcceptResume, CheckAck, ListenerFails, HandshakeStep, connVars,
           worldVars
  <1>2. Forwarding'
    BY <1>1 DEF GatewayProofInv, Forwarding
  <1>3. QueuesOK /\ Handshake
    BY DEF GatewayProofInv
  <1>4. /\ Append(<<>>, Resume) = <<Resume>> /\ Tail(<<Resume>>) = <<>> /\ <<Resume>> # <<>>
        /\ Append(<<>>, ResumeAck) = <<ResumeAck>> /\ Tail(<<ResumeAck>>) = <<>>
        /\ ToSet(<<Resume>>) = {Resume} /\ ToSet(<<>>) = {} /\ ToSet(<<ResumeAck>>) = {ResumeAck}
    BY QueueOne, QueueEmpty
  <1>5. CASE AnnounceSessions
    <2>1. /\ gate = "announcing" /\ toWorld = <<>> /\ loop = "accepting" /\ worldUp
          /\ \A c \in Conns : phase[c] = "idle"
      BY <1>3, <1>5 DEF AnnounceSessions, Handshake, worldUp
    <2>2. toWorld' = <<Resume>> /\ gate' = "awaiting" /\ UNCHANGED <<toGateway, loop>>
      BY <1>4, <1>5, <2>1 DEF AnnounceSessions
    <2>3. QueuesOK'
      BY <1>1, <1>3, <2>1, <2>2, HandshakeQueues
    <2>4. Protocol'
      BY <1>1, <2>1, <2>2, HandshakeProtocol DEF worldUp
    <2>5. Handshake'
      BY <1>1, <1>3, <1>4, <2>1, <2>2 DEF Handshake, routerUp, worldUp
    <2> QED BY <1>2, <2>3, <2>4, <2>5 DEF GatewayProofInv
  <1>6. CASE AcceptResume
    <2>1. gate = "awaiting" /\ toWorld = <<Resume>> /\ toGateway = <<>> /\ loop = "accepting"
      BY <1>3, <1>6 DEF AcceptResume, Handshake
    <2>2. /\ toWorld' = <<>> /\ gate' = gate
          /\ \/ toGateway' = <<ResumeAck>> /\ loop' = "looping"
             \/ toGateway' = <<>> /\ loop' = "stopped"
      BY <1>4, <1>6, <2>1 DEF AcceptResume
    <2>3. /\ \A c \in Conns : phase[c] = "idle"
          /\ commands = <<>> /\ held = NoFrame /\ sessions = {} /\ replies = <<>> /\ leaver = NoConn
      BY <2>1, BeforeServing
    <2>4. QueuesOK'
      BY <1>1, <1>3, <2>1, <2>2, HandshakeQueues
    <2>5. Protocol'
      BY <1>1, <2>1, <2>2, <2>3, HandshakeProtocol DEF worldUp
    <2>6. Handshake'
      BY <1>1, <1>4, <2>1, <2>2, <2>3 DEF Handshake, routerUp, worldUp
    <2> QED BY <1>2, <2>4, <2>5, <2>6 DEF GatewayProofInv
  <1>7. CASE CheckAck
    <2>1. gate = "awaiting" /\ toGateway \in {<<>>, <<ResumeAck>>} /\ UNCHANGED <<toWorld, loop>>
      BY <1>3, <1>7 DEF CheckAck, HearAck, Handshake
    <2>2. /\ toGateway' = <<>> /\ gate' \in {"serving", "ended"}
          /\ loop # "accepting"
      <3>1. CASE toGateway # <<>>
        BY <1>3, <1>4, <1>7, <2>1, <3>1 DEF CheckAck, HearAck, Handshake
      <3>2. CASE toGateway = <<>>
        BY <1>3, <1>7, <2>1, <3>2 DEF CheckAck, HearAck, worldUp
      <3> QED BY <3>1, <3>2
    <2>3. /\ \A c \in Conns : phase[c] = "idle"
          /\ commands = <<>> /\ held = NoFrame /\ sessions = {} /\ replies = <<>> /\ leaver = NoConn
      BY <2>1, BeforeServing
    <2>4. QueuesOK'
      BY <1>1, <1>3, <2>1, <2>2, HandshakeQueues DEF QueuesOK
    <2>5. Protocol'
      BY <1>1, <2>1, <2>2, <2>3, HandshakeProtocol DEF worldUp
    <2>6. Handshake'
      BY <1>1, <1>3, <1>4, <2>1, <2>2, <2>3 DEF Handshake, routerUp, worldUp
    <2> QED BY <1>2, <2>4, <2>5, <2>6 DEF GatewayProofInv
  <1>8. CASE \E c \in Conns : ListenerFails(c)
    <2>1. gate = "serving" /\ gate' = "deaf" /\ UNCHANGED <<toWorld, toGateway, loop>>
      BY <1>8 DEF ListenerFails, worldVars
    <2>2. QueuesOK'
      BY <1>1, <1>3, <2>1, HandshakeQueues DEF QueuesOK
    <2>3. Protocol'
      BY <1>1, <2>1, HandshakeProtocol DEF worldUp, routerUp
    <2>4. Handshake'
      BY <1>1, <1>3, <2>1 DEF Handshake, routerUp, worldUp
    <2> QED BY <1>2, <2>2, <2>3, <2>4 DEF GatewayProofInv
  <1> QED BY <1>5, <1>6, <1>7, <1>8

-----------------------------------------------------------------------------
\* The router.  What it holds is a frame of the gateway or nothing.
LEMMA NoFrameIsNone ==
  \A c \in Conns : NoFrame # Connect(c) /\ NoFrame # Disconnect(c) /\ NoFrame \notin Inner(c)
  BY CommandTypes, NoFrameAssumption DEF Inner

\* Routing a frame of the World adds it to one buffer, if anything.
LEMMA RouteWorldStep ==
  ASSUME GatewayProofInv, RouteWorld
  PROVE  GatewayProofInv'
  <1> DEFINE f == Head(toGateway)
  <1>1. /\ routerUp /\ toGateway # <<>> /\ Route(f) /\ toGateway' = Tail(toGateway)
        /\ UNCHANGED <<connVars, phase, batch, typed, worldVars, sessions, replies, leaver, loop,
                       forgotten, commands, registry, held, gate, toWorld>>
    BY DEF RouteWorld, RouterStep, connVars, worldVars, routerVars
  <1>2. QueuesOK /\ toGateway \in Seq(WorldFrame \union {ResumeAck})
    BY DEF GatewayProofInv, QueuesOK
  <1>3. /\ f \in WorldFrame \union {ResumeAck} /\ Tail(toGateway) \in Seq(WorldFrame \union {ResumeAck})
        /\ Len(toGateway') = Len(toGateway) - 1 /\ Len(toGateway) \in Nat
        /\ ToSet(toGateway) = {f} \union ToSet(toGateway')
    BY <1>1, <1>2, QueueTail, LenProperties
  <1>4. f \in WorldFrame /\ f.conn \in Conns /\ f.kind \in {"Output", "Close"}
        /\ (f.kind = "Close" => f = Close(f.conn))
    <2>1. ResumeAck \notin ToSet(toGateway)
      BY <1>1 DEF GatewayProofInv, Handshake, routerUp
    <2> QED BY <1>3, <2>1, WorldFrameCases
  <1> HIDE DEF f
  <1>5. ASSUME NEW c \in Conns
        PROVE  /\ out'[c] \in Seq({"Output", "Close"}) /\ Len(out'[c]) <= OutCap
               /\ "Close" \in ToSet(out'[c]) => "Close" \in ToSet(out[c]) \/ (f = Close(c) /\ f.conn = c)
    <2>1. out[c] \in Seq({"Output", "Close"}) /\ Len(out[c]) <= OutCap /\ OutCap \in Nat
          /\ Len(out[c]) \in Nat
      BY <1>2, GatewayAssumption, LenProperties DEF QueuesOK
    <2>2. CASE out'[c] = out[c]
      BY <2>1, <2>2
    <2>3. CASE c = f.conn /\ Len(out[c]) < OutCap /\ out'[c] = Append(out[c], f.kind)
      <3>1. /\ out'[c] \in Seq({"Output", "Close"}) /\ Len(out'[c]) = Len(out[c]) + 1
            /\ ToSet(out'[c]) = ToSet(out[c]) \union {f.kind}
        BY <1>4, <2>1, <2>3, QueueAppend
      <3> QED BY <1>4, <2>1, <2>3, <3>1
    <2> QED BY <1>1, <2>2, <2>3 DEF Route
  <1>6. QueuesOK'
    <2>1. out' \in [Conns -> Seq({"Output", "Close"})] /\ \A c \in Conns : Len(out'[c]) <= OutCap
      BY <1>1, <1>5 DEF Route
    <2>2. toGateway' \in Seq(WorldFrame \union {ResumeAck}) /\ Len(toGateway') <= ToGatewayCap
      BY <1>1, <1>2, <1>3, GatewayAssumption DEF QueuesOK
    <2> QED BY <1>1, <1>2, <2>1, <2>2 DEF QueuesOK
  <1>7. Forwarding'
    BY <1>1 DEF GatewayProofInv, Forwarding
  <1>8. Handshake'
    BY <1>1, <1>3 DEF GatewayProofInv, Handshake, routerUp, worldUp
  <1>9. \A d \in Conns : /\ Met(d)' <=> Met(d)
                         /\ Pending(d)' <=> Pending(d)
                         /\ Beyond(d)' => Beyond(d)
                         /\ f.conn = d => Beyond(d)
                         /\ Departing(d)' <=> Departing(d)
    BY <1>1, <1>3 DEF Met, Pending, Beyond, Departing
  <1>10. routerUp' /\ (worldUp' <=> worldUp)
    BY <1>1 DEF routerUp, worldUp
  <1>11. Unannounced'
    BY <1>1, <1>5, <1>9 DEF GatewayProofInv, Protocol, Unannounced
  <1>12. Registered'
    BY <1>1, <1>9 DEF GatewayProofInv, Protocol, Registered
  <1>13. ConnectOnce'
    BY <1>1, <1>9 DEF GatewayProofInv, Protocol, ConnectOnce
  <1>14. ConnectFirst'
    BY <1>1, <1>9, <1>10 DEF GatewayProofInv, Protocol, ConnectFirst
  <1>15. Owed'
    BY <1>1, <1>9, <1>10 DEF GatewayProofInv, Protocol, Owed
  <1>16. Closing'
    BY <1>1, <1>3, <1>5 DEF GatewayProofInv, Protocol, Closing
  <1> QED BY <1>6, <1>7, <1>8, <1>11, <1>12, <1>13, <1>14, <1>15, <1>16 DEF GatewayProofInv, Protocol

\* Taking a command: a registration is done, a frame is held for the World.
LEMMA TakeCommandStep ==
  ASSUME GatewayProofInv, TakeCommand
  PROVE  GatewayProofInv'
  <1> DEFINE m == Head(commands)
  <1>1. /\ routerUp /\ held = NoFrame /\ commands # <<>> /\ commands' = Tail(commands)
        /\ registry' = CASE m.kind = "Register"   -> registry \union {m.conn}
                         [] m.kind = "Deregister" -> registry \ {m.conn}
                         [] OTHER                 -> registry
        /\ held' = IF m.kind \in {"Register", "Deregister"} THEN NoFrame ELSE m
        /\ UNCHANGED <<phase, batch, typed, sessions, replies, leaver, loop, forgotten, out, gate,
                       toWorld, toGateway>>
    BY DEF TakeCommand, RouterStep, connVars, worldVars
  <1>2. QueuesOK /\ commands \in Seq(Command)
    BY DEF GatewayProofInv, QueuesOK
  <1>3. /\ m \in Command /\ commands' \in Seq(Command)
        /\ Len(commands') = Len(commands) - 1 /\ Len(commands) \in Nat
        /\ ToSet(commands) = {m} \union ToSet(commands')
        /\ \A a, B : Before(commands, a, B) => m \notin B
        /\ \A a, B : Before(commands, a, B) /\ m # a => Before(commands', a, B)
        /\ \A a : Once(commands, a) => Once(commands', a) /\ (m = a => a \notin ToSet(commands'))
    BY <1>1, <1>2, QueueTail, LenProperties
  <1>4. /\ m.conn \in Conns
        /\ m \in GatewayFrame <=> m.kind \notin {"Register", "Deregister"}
        /\ \A c \in Conns :
             /\ m = Register(c) <=> m.kind = "Register" /\ m.conn = c
             /\ m = Connect(c) <=> m.kind = "Connect" /\ m.conn = c
             /\ m = Disconnect(c) <=> m.kind = "Disconnect" /\ m.conn = c
             /\ m = Deregister(c) <=> m.kind = "Deregister" /\ m.conn = c
             /\ m \in Inner(c) <=> m.kind \in {"Input", "Disconnect"} /\ m.conn = c
        /\ m.kind \in {"Register", "Connect", "Input", "Disconnect", "Deregister"}
    BY <1>3, CommandCases
  <1> HIDE DEF m
  <1>5. /\ held' = NoFrame \/ held' = m
        /\ m.kind \in {"Connect", "Input", "Disconnect"} => held' = m
        /\ held' \in GatewayFrame \union {NoFrame}
        /\ held' # NoFrame => held' = m /\ m.kind \in {"Connect", "Input", "Disconnect"}
    BY <1>1, <1>4
  <1>6. QueuesOK'
    <2>1. registry' \subseteq Conns
      BY <1>1, <1>2, <1>4 DEF QueuesOK
    <2>2. Len(commands') <= CommandCap
      BY <1>2, <1>3, GatewayAssumption DEF QueuesOK
    <2> QED BY <1>1, <1>2, <1>3, <1>5, <2>1, <2>2 DEF QueuesOK
  <1>7. Forwarding'
    BY <1>1 DEF GatewayProofInv, Forwarding
  <1>8. routerUp' /\ (worldUp' <=> worldUp)
    BY <1>1 DEF routerUp, worldUp
  <1>9. Handshake'
    BY <1>1, <1>8 DEF GatewayProofInv, Handshake, worldUp
  <1>10. ASSUME NEW d \in Conns
         PROVE  /\ Met(d)' <=> Met(d)
                /\ Pending(d)' <=> Pending(d)
                /\ Beyond(d)' <=> Beyond(d) \/ (held' # NoFrame /\ m.conn = d)
                /\ Departing(d)' <=> Departing(d)
    <2>1. Connect(d) \in ToSet(commands) \union {held} <=> Connect(d) \in ToSet(commands') \union {held'}
      BY <1>1, <1>3, <1>4, <1>5, NoFrameIsNone
    <2>2. Disconnect(d) \in ToSet(commands) \union {held} <=> Disconnect(d) \in ToSet(commands') \union {held'}
      BY <1>1, <1>3, <1>4, <1>5, NoFrameIsNone
    <2>3. Met(d)' <=> Met(d)
      BY <1>1 DEF Met
    <2>4. Beyond(d)' <=> Beyond(d) \/ (held' # NoFrame /\ m.conn = d)
      BY <1>1, <1>5 DEF Beyond
    <2> QED BY <1>1, <2>1, <2>2, <2>3, <2>4 DEF Pending, Departing
  <1>11. Unannounced'
    <2>1. ASSUME NEW d \in Conns, held' # NoFrame, m.conn = d
          PROVE  phase[d] \notin {"idle", "registering", "connecting"}
      <3>1. m \in ToSet(commands) /\ m # Register(d)
        BY <1>3, <1>4, <1>5, <2>1
      <3> QED BY <2>1, <3>1 DEF GatewayProofInv, Protocol, Unannounced
    <2> QED BY <1>1, <1>3, <1>10, <2>1 DEF GatewayProofInv, Protocol, Unannounced
  <1>12. Registered'
    <2> SUFFICES ASSUME NEW d \in Conns
                 PROVE  /\ phase[d] \notin {"idle", "registering", "done"} =>
                             d \in registry' \/ Register(d) \in ToSet(commands')
                        /\ phase[d] # "done" =>
                             /\ d \in registry' \/ Before(commands', Register(d), {Connect(d)} \union Inner(d))
                             /\ Beyond(d)' => d \in registry'
                             /\ Deregister(d) \notin ToSet(commands')
      BY <1>1 DEF Registered
    <2>1. /\ phase[d] \notin {"idle", "registering", "done"} =>
                d \in registry \/ Register(d) \in ToSet(commands)
          /\ phase[d] # "done" =>
                /\ d \in registry \/ Before(commands, Register(d), {Connect(d)} \union Inner(d))
                /\ Beyond(d) => d \in registry
                /\ Deregister(d) \notin ToSet(commands)
      BY <1>1 DEF GatewayProofInv, Protocol, Registered
    <2>2. /\ m = Register(d) => d \in registry'
          /\ phase[d] # "done" /\ d \in registry => d \in registry'
      BY <1>1, <1>3, <1>4, <2>1
    <2>3. ASSUME phase[d] # "done", held' # NoFrame, m.conn = d
          PROVE  d \in registry
      <3>1. m \in {Connect(d)} \union Inner(d)
        BY <1>4, <1>5, <2>3
      <3> QED BY <1>3, <2>1, <2>3, <3>1
    <2>4. phase[d] # "done" =>
            d \in registry' \/ Before(commands', Register(d), {Connect(d)} \union Inner(d))
      BY <1>3, <2>1, <2>2
    <2> QED BY <1>3, <1>10, <2>1, <2>2, <2>3, <2>4
  <1>13. ConnectOnce'
    <2> SUFFICES ASSUME NEW d \in Conns
                 PROVE  /\ Once(toWorld, Connect(d)) /\ Once(commands', Connect(d))
                        /\ held' = Connect(d) => Connect(d) \notin ToSet(toWorld)
                        /\ Connect(d) \in ToSet(commands') =>
                             held' # Connect(d) /\ Connect(d) \notin ToSet(toWorld)
                        /\ Pending(d) => ~Met(d)
      BY <1>1, <1>10 DEF ConnectOnce
    <2>1. /\ Once(toWorld, Connect(d)) /\ Once(commands, Connect(d))
          /\ Connect(d) \in ToSet(commands) => Connect(d) \notin ToSet(toWorld)
          /\ Pending(d) => ~Met(d)
      BY DEF GatewayProofInv, Protocol, ConnectOnce
    <2>2. held' = Connect(d) => m = Connect(d)
      BY <1>5, NoFrameIsNone
    <2> QED BY <1>3, <2>1, <2>2
  <1>14. ConnectFirst'
    <2> SUFFICES ASSUME NEW d \in Conns, worldUp, ~Met(d)
                 PROVE  /\ Before(toWorld, Connect(d), Inner(d))
                        /\ held' \in Inner(d) => Connect(d) \in ToSet(toWorld)
                        /\ \/ Connect(d) \in ToSet(toWorld) \union {held'}
                           \/ Before(commands', Connect(d), Inner(d))
                        /\ phase[d] \in {"open", "forwarding", "writing", "disconnecting"}
                             => Pending(d)
      BY <1>1, <1>8, <1>10 DEF ConnectFirst
    <2>1. /\ Before(toWorld, Connect(d), Inner(d))
          /\ \/ Connect(d) \in ToSet(toWorld) \union {held}
             \/ Before(commands, Connect(d), Inner(d))
          /\ phase[d] \in {"open", "forwarding", "writing", "disconnecting"} => Pending(d)
      BY <1>1 DEF GatewayProofInv, Protocol, ConnectFirst
    <2>2. \/ Connect(d) \in ToSet(toWorld)
          \/ Before(commands, Connect(d), Inner(d))
      BY <1>1, <2>1, NoFrameIsNone
    <2>3. held' \in Inner(d) => Connect(d) \in ToSet(toWorld)
      BY <1>3, <1>5, <2>2, NoFrameIsNone
    <2>4. m = Connect(d) => held' = Connect(d)
      BY <1>4, <1>5
    <2>5. \/ Connect(d) \in ToSet(toWorld) \union {held'}
          \/ Before(commands', Connect(d), Inner(d))
      BY <1>3, <2>2, <2>4
    <2> QED BY <2>1, <2>3, <2>5
  <1>15. Owed'
    BY <1>1, <1>8, <1>10 DEF GatewayProofInv, Protocol, Owed
  <1>16. Closing'
    BY <1>1 DEF GatewayProofInv, Protocol, Closing
  <1> QED BY <1>6, <1>7, <1>9, <1>11, <1>12, <1>13, <1>14, <1>15, <1>16 DEF GatewayProofInv, Protocol

\* Sending what is held, which is behind everything sent before it.
LEMMA SendToWorldStep ==
  ASSUME GatewayProofInv, SendToWorld
  PROVE  GatewayProofInv'
  <1>1. /\ routerUp /\ held # NoFrame /\ worldUp /\ Len(toWorld) < ToWorldCap
        /\ toWorld' = Append(toWorld, held) /\ held' = NoFrame
        /\ UNCHANGED <<phase, batch, typed, sessions, replies, leaver, loop, forgotten, out, gate,
                       commands, registry, toGateway>>
    BY DEF SendToWorld, RouterStep, connVars, worldVars
  <1>2. QueuesOK /\ toWorld \in Seq(GatewayFrame \union {Resume}) /\ held \in GatewayFrame
    BY <1>1 DEF GatewayProofInv, QueuesOK
  <1>3. /\ toWorld' \in Seq(GatewayFrame \union {Resume})
        /\ Len(toWorld') = Len(toWorld) + 1 /\ Len(toWorld) \in Nat
        /\ ToSet(toWorld') = ToSet(toWorld) \union {held}
        /\ \A a, B : /\ Before(toWorld, a, B) /\ (held \in B => a \in ToSet(toWorld))
                     => Before(toWorld', a, B)
        /\ \A a : Once(toWorld, a) /\ (held = a => a \notin ToSet(toWorld)) => Once(toWorld', a)
    BY <1>1, <1>2, QueueAppend, LenProperties
  <1>4. QueuesOK'
    BY <1>1, <1>2, <1>3, GatewayAssumption DEF QueuesOK
  <1>5. Forwarding'
    BY <1>1 DEF GatewayProofInv, Forwarding
  <1>6. routerUp' /\ worldUp' /\ gate \notin {"announcing", "awaiting"} /\ loop # "accepting"
    BY <1>1 DEF GatewayProofInv, Handshake, routerUp, worldUp
  <1>7. held # Resume /\ held # NoFrame
    BY <1>1, <1>2, WorldFrameCases
  <1>8. Handshake'
    BY <1>1, <1>3, <1>6, <1>7 DEF GatewayProofInv, Handshake
  <1>9. \A d \in Conns : /\ Met(d)' <=> Met(d)
                         /\ Pending(d)' <=> Pending(d)
                         /\ Beyond(d)' <=> Beyond(d)
                         /\ Departing(d)' <=> Departing(d)
    BY <1>1, <1>3, NoFrameIsNone DEF Met, Pending, Beyond, Departing
  <1>10. Unannounced'
    BY <1>1, <1>9 DEF GatewayProofInv, Protocol, Unannounced
  <1>11. Registered'
    BY <1>1, <1>9 DEF GatewayProofInv, Protocol, Registered
  <1>12. ConnectOnce'
    BY <1>1, <1>3, <1>9, NoFrameIsNone DEF GatewayProofInv, Protocol, ConnectOnce
  <1>13. ConnectFirst'
    BY <1>1, <1>3, <1>9, NoFrameIsNone DEF GatewayProofInv, Protocol, ConnectFirst
  <1>14. Owed'
    BY <1>1, <1>9 DEF GatewayProofInv, Protocol, Owed
  <1>15. Closing'
    BY <1>1 DEF GatewayProofInv, Protocol, Closing
  <1> QED BY <1>4, <1>5, <1>8, <1>10, <1>11, <1>12, <1>13, <1>14, <1>15 DEF GatewayProofInv, Protocol

\* The router that returns takes its queues with it.
LEMMA RouterStopsStep ==
  ASSUME GatewayProofInv, RouterStops
  PROVE  GatewayProofInv'
  <1>1. /\ gate \in {"serving", "deaf"} /\ gate' = "ended" /\ registry' = {} /\ held' = NoFrame
        /\ commands' = <<>> /\ toGateway' = <<>>
        /\ UNCHANGED <<phase, batch, typed, sessions, replies, leaver, loop, forgotten, out, toWorld>>
    BY DEF RouterStops, PeerGone, SendersGone, RouterStep, connVars, worldVars, routerUp
  <1>2. /\ ToSet(<<>>) = {} /\ Len(<<>>) = 0
        /\ \A a, B : Before(<<>>, a, B) /\ Once(<<>>, a)
        /\ <<>> \in Seq(Command) /\ <<>> \in Seq(WorldFrame \union {ResumeAck})
    BY QueueEmpty, EmptySeq
  <1>3. QueuesOK'
    BY <1>1, <1>2, GatewayAssumption DEF GatewayProofInv, QueuesOK
  <1>4. Forwarding'
    BY <1>1 DEF GatewayProofInv, Forwarding
  <1>5. Handshake'
    BY <1>1, <1>2 DEF GatewayProofInv, Handshake, routerUp, worldUp
  <1>6. \A d \in Conns : /\ Met(d)' <=> Met(d)
                         /\ Pending(d)' => Pending(d)
                         /\ Beyond(d)' => Beyond(d)
    BY <1>1, <1>2, NoFrameIsNone DEF Met, Pending, Beyond
  <1>7. ~routerUp' /\ (worldUp' <=> worldUp)
    BY <1>1 DEF routerUp, worldUp
  <1>8. Unannounced'
    BY <1>1, <1>2, <1>6 DEF GatewayProofInv, Protocol, Unannounced
  <1>9. Registered' /\ Owed'
    BY <1>7 DEF Registered, Owed
  <1>10. ConnectOnce'
    BY <1>1, <1>2, <1>6, NoFrameIsNone DEF GatewayProofInv, Protocol, ConnectOnce
  <1>11. ConnectFirst'
    BY <1>1, <1>2, <1>6, <1>7, NoFrameIsNone DEF GatewayProofInv, Protocol, ConnectFirst
  <1>12. Closing'
    BY <1>1, <1>2 DEF GatewayProofInv, Protocol, Closing
  <1> QED BY <1>3, <1>4, <1>5, <1>8, <1>9, <1>10, <1>11, <1>12 DEF GatewayProofInv, Protocol

-----------------------------------------------------------------------------
\* What the World sends to those who hear a broadcast: one output each, in some
\* order.
LEMMA HeardList ==
  ASSUME NEW S \in SUBSET Conns, IsFiniteSet(S)
  PROVE  /\ Heard(S) \in Seq(WorldFrame)
         /\ \A i \in 1 .. Len(Heard(S)) : Heard(S)[i].kind = "Output" /\ Heard(S)[i].conn \in S
         /\ S # {} => Heard(S) # <<>>
         /\ S = {} => Heard(S) = <<>>
  <1> DEFINE T == {Output(d) : d \in S}
             r == Heard(S)
  <1>1. IsFiniteSet(T)
    <2> DEFINE g == [d \in S |-> Output(d)]
    <2>1. g \in Surjection(S, T)
      BY DEF Surjection
    <2> QED BY <2>1, FS_Surjection
  <1>2. Cardinality(T) \in Nat /\ (Cardinality(T) = 0 <=> S = {})
    BY <1>1, FS_CardinalityType, FS_EmptySet
  <1>3. \E g \in [1 .. Cardinality(T) -> T] : IsInjective(g)
    BY <1>1, FS_CardinalityType DEF ExistsBijection, Bijection, Injection
  <1>4. r \in [1 .. Cardinality(T) -> T]
    BY <1>3 DEF Heard, SetToSeq
  <1>5. \A f \in T : f \in WorldFrame /\ f.kind = "Output" /\ f.conn \in S
    BY WorldFrameCases
  <1>6. r \in Seq(WorldFrame)
    <2>1. r \in [1 .. Cardinality(T) -> WorldFrame]
      <3> HIDE DEF T, r
      <3> QED BY <1>4, <1>5
    <2> HIDE DEF T, r
    <2> QED BY <1>2, <2>1, SeqDef
  <1>7. Len(r) = Cardinality(T)
    BY <1>2, <1>4, <1>6, LenProperties
  <1>8. S = {} => r = <<>>
    BY <1>2, <1>6, <1>7, EmptySeq
  <1>9. S # {} => r # <<>>
    BY <1>2, <1>7, EmptySeq
  <1> HIDE DEF T
  <1>10. \A i \in 1 .. Len(r) : r[i].kind = "Output" /\ r[i].conn \in S
    BY <1>4, <1>5, <1>7
  <1> QED BY <1>6, <1>8, <1>9, <1>10

\* The two answers to a line: a Close, if there is one, is the last.
LEMMA AnswerList ==
  ASSUME NEW c \in Conns, NEW S \in SUBSET Conns, IsFiniteSet(S)
  PROVE  LET said == <<Output(c)>> \o Heard(S)
             quit == <<Output(c)>> \o Heard(S) \o <<Close(c)>>
         IN  /\ said \in Seq(WorldFrame) /\ quit \in Seq(WorldFrame)
             /\ said # <<>> /\ quit # <<>>
             /\ \A i \in 1 .. Len(said) : said[i].kind = "Output" /\ said[i].conn \in S \union {c}
             /\ \A i \in 1 .. Len(quit) :
                  /\ quit[i].conn \in S \union {c}
                  /\ quit[i].kind = "Close" => i = Len(quit) /\ quit[i].conn = c
  <1> DEFINE one == <<Output(c)>>
             end == <<Close(c)>>
             h == Heard(S)
             said == one \o h
             quit == said \o end
  <1>1. /\ Output(c) \in WorldFrame /\ Output(c).kind = "Output" /\ Output(c).conn = c
        /\ Close(c) \in WorldFrame /\ Close(c).conn = c
    BY WorldFrameCases
  <1>2. /\ one \in Seq(WorldFrame) /\ Len(one) = 1 /\ one[1] = Output(c)
        /\ end \in Seq(WorldFrame) /\ Len(end) = 1 /\ end[1] = Close(c)
    BY <1>1
  <1>3. /\ h \in Seq(WorldFrame) /\ Len(h) \in Nat
        /\ \A i \in 1 .. Len(h) : h[i].kind = "Output" /\ h[i].conn \in S
    BY HeardList, LenProperties
  <1> HIDE DEF one, end, h
  <1>4. /\ said \in Seq(WorldFrame) /\ Len(said) = 1 + Len(h)
        /\ \A i \in 1 .. (1 + Len(h)) : said[i] = IF i <= 1 THEN one[i] ELSE h[i - 1]
    <2>1. /\ one \o h \in Seq(WorldFrame) /\ Len(one \o h) = Len(one) + Len(h)
          /\ \A i \in 1 .. (Len(one) + Len(h)) :
               (one \o h)[i] = IF i <= Len(one) THEN one[i] ELSE h[i - Len(one)]
      BY <1>2, <1>3, ConcatProperties
    <2> QED BY <1>2, <2>1
  <1> HIDE DEF said
  <1>5. /\ quit \in Seq(WorldFrame) /\ Len(quit) = Len(said) + 1
        /\ \A i \in 1 .. (Len(said) + 1) : quit[i] = IF i <= Len(said) THEN said[i] ELSE end[i - Len(said)]
    <2>1. /\ said \o end \in Seq(WorldFrame) /\ Len(said \o end) = Len(said) + Len(end)
          /\ \A i \in 1 .. (Len(said) + Len(end)) :
               (said \o end)[i] = IF i <= Len(said) THEN said[i] ELSE end[i - Len(said)]
      BY <1>2, <1>4, ConcatProperties
    <2> QED BY <1>2, <2>1
  <1> HIDE DEF quit
  <1>6. \A i \in 1 .. Len(said) : said[i].kind = "Output" /\ said[i].conn \in S \union {c}
    <2> SUFFICES ASSUME NEW i \in 1 .. Len(said)
                 PROVE  said[i].kind = "Output" /\ said[i].conn \in S \union {c}
      OBVIOUS
    <2>1. CASE i = 1
      BY <1>1, <1>2, <1>3, <1>4, <2>1
    <2>2. CASE i # 1
      <3>1. i - 1 \in 1 .. Len(h) /\ said[i] = h[i - 1]
        BY <1>3, <1>4, <2>2
      <3> QED BY <1>3, <3>1
    <2> QED BY <2>1, <2>2
  <1>7. \A i \in 1 .. Len(quit) :
          /\ quit[i].conn \in S \union {c}
          /\ quit[i].kind = "Close" => i = Len(quit) /\ quit[i].conn = c
    <2> SUFFICES ASSUME NEW i \in 1 .. Len(quit)
                 PROVE  /\ quit[i].conn \in S \union {c}
                        /\ quit[i].kind = "Close" => i = Len(quit) /\ quit[i].conn = c
      OBVIOUS
    <2>1. CASE i \in 1 .. Len(said)
      BY <1>3, <1>4, <1>5, <1>6, <2>1
    <2>2. CASE i = Len(said) + 1
      <3>1. quit[i] = end[1]
        BY <1>3, <1>4, <1>5, <2>2
      <3> QED BY <1>1, <1>2, <1>5, <2>2, <3>1
    <2> QED BY <1>3, <1>4, <1>5, <2>1, <2>2
  <1>8. said # <<>> /\ quit # <<>>
    BY <1>3, <1>4, <1>5, EmptySeq
  <1> QED BY <1>4, <1>5, <1>6, <1>7, <1>8 DEF said, quit, one, end, h

\* What handling frame f does to the World's own state: a Connect opens its
\* session, a Disconnect ends it at once or after the farewells, and the replies
\* are to connections the World knows.
Handled(f, c) ==
  /\ replies' \in Seq(WorldFrame)
  /\ \A i \in 1 .. Len(replies') :
       /\ replies'[i].conn \in sessions \union {c}
       /\ replies'[i].kind = "Close" => i = Len(replies') /\ leaver' = replies'[i].conn
  /\ leaver' \in {NoConn, c}
  /\ leaver' = c => replies' # <<>> /\ c \in sessions'
  /\ sessions' \subseteq sessions \union {c} /\ forgotten' \subseteq forgotten \union {c}
  /\ \A d \in Conns \ {c} : d \in sessions => d \in sessions'
  /\ forgotten \subseteq forgotten'
  /\ sessions' \cap forgotten' = {}
  /\ c \in sessions' \union forgotten'
  /\ f.kind # "Connect" => sessions' \subseteq sessions
  /\ f.kind = "Disconnect" => c \notin sessions' \/ leaver' = c

\* The World's next frame is of a session it has met, or is that session's
\* Connect, which nothing of it overtakes.
LEMMA NextFrame ==
  ASSUME GatewayProofInv, loop = "looping", toWorld # <<>>
  PROVE  LET f == Head(toWorld) IN
         /\ f \in GatewayFrame /\ f.conn \in Conns /\ f \in ToSet(toWorld)
         /\ f.kind = "Connect" => f = Connect(f.conn) /\ ~Met(f.conn)
         /\ f.kind # "Connect" => f \in Inner(f.conn) /\ Met(f.conn)
  <1> DEFINE f == Head(toWorld)
  <1>1. /\ f \in GatewayFrame \union {Resume} /\ f \in ToSet(toWorld)
        /\ \A a, B : Before(toWorld, a, B) => f \notin B
    BY QueueTail DEF GatewayProofInv, QueuesOK
  <1>2. f \in GatewayFrame /\ f \in Command
    BY <1>1 DEF GatewayProofInv, Handshake, Command
  <1> HIDE DEF f
  <1>3. /\ f.conn \in Conns
        /\ f.kind = "Connect" => f = Connect(f.conn)
        /\ f.kind # "Connect" => f \in Inner(f.conn)
    BY <1>2, CommandCases
  <1>4. f.kind = "Connect" => ~Met(f.conn)
    BY <1>1, <1>3 DEF GatewayProofInv, Protocol, ConnectOnce, Pending
  <1>5. f.kind # "Connect" => Met(f.conn)
    BY <1>1, <1>3 DEF GatewayProofInv, Protocol, ConnectFirst, worldUp
  <1> QED BY <1>1, <1>2, <1>3, <1>4, <1>5 DEF f

\* What the World knows of its sessions once it has handled a frame.
LEMMA HandlingFrame ==
  ASSUME GatewayProofInv, WorldReceives
  PROVE  Handled(Head(toWorld), Head(toWorld).conn)
  <1> DEFINE f == Head(toWorld)
             c == f.conn
  <1>1. /\ loop = "looping" /\ replies = <<>> /\ toWorld # <<>>
        /\ \/ f.kind = "Connect" /\ OnConnect(c)
           \/ f.kind = "Input" /\ OnInput(c, f.line)
           \/ f.kind = "Disconnect" /\ OnDisconnect(c)
    BY DEF WorldReceives
  <1>2. /\ c \in Conns
        /\ f.kind = "Connect" => ~Met(c)
        /\ f.kind # "Connect" => Met(c)
    BY <1>1, NextFrame
  <1> SUFFICES Handled(f, c)
    OBVIOUS
  <1> HIDE DEF f
  <1> HIDE DEF c
  <1>3. leaver = NoConn /\ sessions \cap forgotten = {} /\ c # NoConn
    BY <1>1, <1>2, GatewayAssumption DEF GatewayProofInv, Protocol, Closing
  <1>4. sessions \in SUBSET Conns /\ IsFiniteSet(sessions)
    BY DEF GatewayProofInv, QueuesOK
  <1>5. ASSUME NEW others \in SUBSET (sessions \ {c})
        PROVE  others \in SUBSET Conns /\ IsFiniteSet(others)
    BY <1>4, <1>5, FS_Subset
  <1>6. CASE f.kind = "Connect" /\ OnConnect(c)
    <2>1. /\ sessions' = sessions \union {c} /\ replies' = <<Output(c)>>
          /\ leaver' = NoConn /\ forgotten' = forgotten
      BY <1>3, <1>6 DEF OnConnect
    <2>2. Output(c) \in WorldFrame /\ Output(c).kind = "Output" /\ Output(c).conn = c
      BY <1>2, WorldFrameCases
    <2>3. replies' \in Seq(WorldFrame) /\ Len(replies') = 1 /\ replies'[1] = Output(c)
      BY <2>1, <2>2
    <2>4. \A i \in 1 .. Len(replies') : replies'[i].kind = "Output" /\ replies'[i].conn = c
      BY <2>2, <2>3
    <2>5. c \notin forgotten
      BY <1>2, <1>6 DEF Met
    <2> QED BY <1>3, <1>6, <2>1, <2>3, <2>4, <2>5 DEF Handled
  <1>7. CASE f.kind = "Input" /\ OnInput(c, f.line)
    <2>1. sessions' = sessions /\ forgotten' = forgotten /\ c \in sessions \union forgotten
      BY <1>2, <1>7 DEF OnInput, Met
    <2>2. CASE c \notin sessions
      <3>1. replies' = <<>> /\ leaver' = NoConn
        BY <1>1, <1>3, <1>7, <2>2 DEF OnInput
      <3>2. replies' \in Seq(WorldFrame) /\ Len(replies') = 0
        BY <3>1, EmptySeq
      <3> QED BY <1>3, <1>7, <2>1, <3>1, <3>2 DEF Handled
    <2>3. CASE c \in sessions
      <3>1. PICK others \in SUBSET (sessions \ {c}) :
              \/ replies' = <<Output(c)>> \o Heard(others) /\ leaver' = leaver
              \/ replies' = <<Output(c)>> \o Heard(others) \o <<Close(c)>> /\ leaver' = c
        BY <1>7, <2>3 DEF OnInput, Audience
      <3>2. others \in SUBSET Conns /\ IsFiniteSet(others) /\ others \subseteq sessions
        BY <1>5
      <3>3. /\ replies' \in Seq(WorldFrame) /\ replies' # <<>> /\ leaver' \in {NoConn, c}
            /\ \A i \in 1 .. Len(replies') :
                 /\ replies'[i].conn \in sessions \union {c}
                 /\ replies'[i].kind = "Close" => i = Len(replies') /\ leaver' = replies'[i].conn
        <4>1. CASE replies' = <<Output(c)>> \o Heard(others) /\ leaver' = leaver
          BY <1>2, <1>3, <3>2, <4>1, AnswerList
        <4>2. CASE replies' = <<Output(c)>> \o Heard(others) \o <<Close(c)>> /\ leaver' = c
          BY <1>2, <1>3, <3>2, <4>2, AnswerList
        <4> QED BY <3>1, <4>1, <4>2
      <3> QED BY <1>3, <1>7, <2>1, <2>3, <3>3 DEF Handled
    <2> QED BY <2>2, <2>3
  <1>8. CASE f.kind = "Disconnect" /\ OnDisconnect(c)
    <2>1. PICK others \in SUBSET (sessions \ {c}) :
            /\ replies' = Heard(others)
            /\ c \notin sessions => others = {}
            /\ IF others = {} THEN Finish(c) /\ UNCHANGED leaver
                              ELSE leaver' = c /\ UNCHANGED <<sessions, forgotten>>
      BY <1>8 DEF OnDisconnect, Audience
    <2>2. others \in SUBSET Conns /\ IsFiniteSet(others) /\ others \subseteq sessions
      BY <1>5
    <2>3. /\ replies' \in Seq(WorldFrame)
          /\ \A i \in 1 .. Len(replies') : replies'[i].kind = "Output" /\ replies'[i].conn \in sessions
          /\ others # {} => replies' # <<>>
      BY <2>1, <2>2, HeardList
    <2>4. c \in sessions \union forgotten
      BY <1>2, <1>8 DEF Met
    <2>5. CASE others = {}
      <3>1. /\ sessions' = sessions \ {c} /\ forgotten' = forgotten \union ({c} \cap sessions)
            /\ leaver' = NoConn
        BY <1>3, <2>1, <2>5 DEF Finish
      <3> QED BY <1>3, <1>8, <2>3, <2>4, <3>1 DEF Handled
    <2>6. CASE others # {}
      <3>1. leaver' = c /\ sessions' = sessions /\ forgotten' = forgotten /\ c \in sessions
        BY <2>1, <2>6
      <3> QED BY <1>3, <1>8, <2>3, <2>4, <2>6, <3>1 DEF Handled
    <2> QED BY <2>5, <2>6
  <1> QED BY <1>1, <1>6, <1>7, <1>8

\* The World receives a frame: Connected, input or Disconnected.
LEMMA WorldReceivesStep ==
  ASSUME GatewayProofInv, WorldReceives
  PROVE  GatewayProofInv'
  <1>0. PICK f \in GatewayFrame, c \in Conns :
          /\ f = Head(toWorld) /\ c = f.conn /\ f \in ToSet(toWorld)
          /\ f.kind = "Connect" => f = Connect(c) /\ ~Met(c)
          /\ f.kind # "Connect" => f \in Inner(c) /\ Met(c)
    BY NextFrame DEF WorldReceives
  <1>1. /\ loop = "looping" /\ replies = <<>> /\ toWorld # <<>> /\ toWorld' = Tail(toWorld)
        /\ UNCHANGED <<phase, batch, typed, out, commands, registry, held, gate, toGateway, loop>>
    BY DEF WorldReceives, connVars, routerVars
  <1>2. /\ f \in GatewayFrame /\ c \in Conns /\ f \in ToSet(toWorld)
        /\ f.kind = "Connect" => f = Connect(c) /\ ~Met(c)
        /\ f.kind # "Connect" => f \in Inner(c) /\ Met(c)
    BY <1>0
  <1>3. Handled(f, c)
    BY <1>0, HandlingFrame
  <1>4. QueuesOK /\ toWorld \in Seq(GatewayFrame \union {Resume})
    BY DEF GatewayProofInv, QueuesOK
  <1>5. /\ toWorld' \in Seq(GatewayFrame \union {Resume})
        /\ Len(toWorld') = Len(toWorld) - 1 /\ Len(toWorld) \in Nat
        /\ ToSet(toWorld) = {f} \union ToSet(toWorld')
        /\ \A a, B : Before(toWorld, a, B) /\ f # a => Before(toWorld', a, B)
        /\ \A a : Once(toWorld, a) => Once(toWorld', a) /\ (f = a => a \notin ToSet(toWorld'))
    BY <1>0, <1>1, <1>4, QueueTail, LenProperties
  <1>6. \A d \in Conns : /\ f = Connect(d) <=> f.kind = "Connect" /\ c = d
                         /\ f = Disconnect(d) <=> f.kind = "Disconnect" /\ c = d
    BY <1>0, CommandCases DEF Command
  <1>7. worldUp /\ worldUp' /\ (routerUp' <=> routerUp)
    BY <1>1 DEF worldUp, routerUp
  <1>8. leaver = NoConn /\ c # NoConn /\ ToSet(replies) = {}
    BY <1>1, <1>2, GatewayAssumption, QueueEmpty DEF GatewayProofInv, Protocol, Closing
  <1>9. QueuesOK'
    <2>1. IsFiniteSet(sessions') /\ sessions' \subseteq Conns /\ forgotten' \subseteq Conns
      <3>1. IsFiniteSet(sessions \union {c}) /\ sessions \subseteq Conns /\ forgotten \subseteq Conns
        BY <1>4, FS_AddElement DEF QueuesOK
      <3> QED BY <1>2, <1>3, <3>1, FS_Subset DEF Handled
    <2>2. replies' \in Seq(WorldFrame) /\ leaver' \in Conns \union {NoConn}
      BY <1>2, <1>3 DEF Handled
    <2>3. Len(toWorld') <= ToWorldCap
      BY <1>4, <1>5, GatewayAssumption DEF QueuesOK
    <2> QED BY <1>1, <1>4, <1>5, <2>1, <2>2, <2>3 DEF QueuesOK
  <1>10. Forwarding'
    BY <1>1 DEF GatewayProofInv, Forwarding
  <1>11. Handshake'
    BY <1>1, <1>5, <1>7 DEF GatewayProofInv, Handshake, routerUp
  <1>12. ASSUME NEW d \in Conns
         PROVE  /\ Met(d)' <=> Met(d) \/ c = d
                /\ Pending(d)' => Pending(d)
                /\ d # c => (Pending(d)' <=> Pending(d))
                /\ Beyond(d)' => Beyond(d)
                /\ Departing(d)' <=> Departing(d) /\ ~(f.kind = "Disconnect" /\ c = d /\ ~Departing(d)')
    <2>1. Met(d)' <=> Met(d) \/ c = d
      BY <1>3 DEF Met, Handled
    <2>2. Beyond(d)' => Beyond(d)
      <3>1. ASSUME NEW r \in ToSet(replies') PROVE r.conn \in sessions \union {c}
        <4>1. PICK i \in 1 .. Len(replies') : r = replies'[i]
          BY <1>3, LenProperties DEF Handled, ToSet
        <4> QED BY <1>3, <4>1 DEF Handled
      <3>2. c = d => Beyond(d)
        BY <1>0 DEF Beyond
      <3> QED BY <1>1, <1>3, <1>5, <1>8, <3>1, <3>2 DEF Beyond, Handled
    <2>3. (Pending(d)' => Pending(d)) /\ (d # c => (Pending(d)' <=> Pending(d)))
      BY <1>1, <1>5, <1>6 DEF Pending
    <2>4. Departing(d)' <=> Departing(d) /\ ~(f.kind = "Disconnect" /\ c = d /\ ~Departing(d)')
      BY <1>1, <1>5, <1>6 DEF Departing
    <2> QED BY <2>1, <2>2, <2>3, <2>4
  <1>13. Pending(c)' => FALSE
    <2>1. CASE f.kind = "Connect"
      <3>1. f = Connect(c) /\ Once(toWorld, f) /\ f \in ToSet(toWorld)
        BY <1>2, <2>1 DEF GatewayProofInv, Protocol, ConnectOnce
      <3>2. f \notin ToSet(toWorld')
        BY <1>5, <3>1
      <3>3. f \notin ToSet(commands) \union {held}
        BY <1>2, <3>1 DEF GatewayProofInv, Protocol, ConnectOnce
      <3> QED BY <1>1, <3>1, <3>2, <3>3 DEF Pending
    <2>2. CASE f.kind # "Connect"
      BY <1>2, <1>12, <2>2 DEF GatewayProofInv, Protocol, ConnectOnce
    <2> QED BY <2>1, <2>2
  <1>14. Unannounced'
    <2>1. Beyond(c)
      BY <1>0 DEF Beyond
    <2> QED BY <1>1, <1>2, <1>3, <1>12, <2>1 DEF GatewayProofInv, Protocol, Unannounced, Handled
  <1>15. Registered'
    BY <1>1, <1>7, <1>12 DEF GatewayProofInv, Protocol, Registered
  <1>16. ConnectOnce'
    BY <1>1, <1>5, <1>12, <1>13 DEF GatewayProofInv, Protocol, ConnectOnce
  <1>17. ConnectFirst'
    <2> SUFFICES ASSUME NEW d \in Conns, ~Met(d), d # c
                 PROVE  /\ Before(toWorld', Connect(d), Inner(d))
                        /\ held \in Inner(d) => Connect(d) \in ToSet(toWorld')
                        /\ \/ Connect(d) \in ToSet(toWorld') \union {held}
                           \/ Before(commands, Connect(d), Inner(d))
                        /\ routerUp /\ phase[d] \in {"open", "forwarding", "writing", "disconnecting"}
                             => Pending(d)
      BY <1>1, <1>7, <1>12 DEF ConnectFirst
    <2>1. f # Connect(d)
      BY <1>6
    <2> QED BY <1>5, <1>7, <2>1 DEF GatewayProofInv, Protocol, ConnectFirst
  <1>18. Owed'
    <2> SUFFICES ASSUME NEW d \in Conns, routerUp, phase[d] \in {"deregistering", "done"},
                        d \in sessions' \/ Pending(d)'
                 PROVE  Departing(d)' \/ leaver' = d
      BY <1>1, <1>7 DEF Owed
    <2>1. d \in sessions \/ Pending(d)
      BY <1>2, <1>3, <1>12, <1>6 DEF Handled, Pending
    <2>2. Departing(d)
      BY <1>2, <1>7, <1>8, <2>1, GatewayAssumption DEF GatewayProofInv, Protocol, Owed
    <2>3. CASE f.kind = "Disconnect" /\ c = d
      BY <1>3, <1>13, <2>3 DEF Handled, Pending
    <2>4. CASE ~(f.kind = "Disconnect" /\ c = d)
      BY <1>12, <2>2, <2>4
    <2> QED BY <2>3, <2>4
  <1>19. Closing'
    BY <1>1, <1>3, <1>8 DEF GatewayProofInv, Protocol, Closing, Handled
  <1> QED BY <1>9, <1>10, <1>11, <1>14, <1>15, <1>16, <1>17, <1>18, <1>19 DEF GatewayProofInv, Protocol

\* Sending a reply: the last one takes the session that leaves with it.
LEMMA WorldSendsStep ==
  ASSUME GatewayProofInv, WorldSends
  PROVE  GatewayProofInv'
  <1> DEFINE f == Head(replies)
             gone == IF Len(replies) = 1 /\ leaver # NoConn THEN {leaver} ELSE {}
  <1>1. /\ worldUp /\ gate # "ended" /\ replies # <<>> /\ Len(toGateway) < ToGatewayCap
        /\ toGateway' = Append(toGateway, f) /\ replies' = Tail(replies)
        /\ UNCHANGED <<phase, batch, typed, out, commands, registry, held, gate, toWorld, loop>>
    BY DEF WorldSends, connVars, routerVars
  <1>2. QueuesOK /\ toGateway \in Seq(WorldFrame \union {ResumeAck}) /\ replies \in Seq(WorldFrame)
    BY DEF GatewayProofInv, QueuesOK
  <1>3. /\ f \in WorldFrame /\ replies' \in Seq(WorldFrame) /\ Len(replies') = Len(replies) - 1
        /\ Len(replies) \in Nat \ {0} /\ f = replies[1]
        /\ ToSet(replies) = {f} \union ToSet(replies')
        /\ \A i \in 1 .. Len(replies') : replies'[i] = replies[i + 1]
    BY <1>1, <1>2, QueueTail, HeadTailProperties, EmptySeq
  <1>4. /\ toGateway' \in Seq(WorldFrame \union {ResumeAck})
        /\ Len(toGateway') = Len(toGateway) + 1 /\ Len(toGateway) \in Nat
        /\ ToSet(toGateway') = ToSet(toGateway) \union {f}
    BY <1>1, <1>2, <1>3, QueueAppend, LenProperties
  <1>5. /\ leaver # NoConn => leaver \in sessions
        /\ sessions \cap forgotten = {}
        /\ \A i \in 1 .. Len(replies) :
             replies[i].kind = "Close" => i = Len(replies) /\ leaver = replies[i].conn
        /\ sessions \subseteq Conns /\ forgotten \subseteq Conns /\ NoConn \notin Conns
    BY GatewayAssumption DEF GatewayProofInv, QueuesOK, Protocol, Closing
  <1>6. /\ sessions' = sessions \ gone /\ forgotten' = forgotten \union gone /\ gone \subseteq sessions
        /\ gone = {} \/ (gone = {leaver} /\ Len(replies) = 1 /\ leaver # NoConn /\ leaver' = NoConn)
        /\ gone = {} => leaver' = leaver /\ (leaver # NoConn => Len(replies) # 1)
    <2>1. CASE Len(replies) = 1 /\ leaver # NoConn
      BY <1>5, <2>1 DEF WorldSends, Finish
    <2>2. CASE ~(Len(replies) = 1 /\ leaver # NoConn)
      BY <1>5, <2>2 DEF WorldSends
    <2> QED BY <2>1, <2>2
  <1>7. /\ f.conn \in Conns /\ f # ResumeAck
        /\ \A c \in Conns : f = Close(c) => c = f.conn /\ f.kind = "Close"
    BY <1>3, WorldFrameCases
  <1>8. f.kind = "Close" => f.conn \in gone
    <2> SUFFICES ASSUME f.kind = "Close" PROVE f.conn \in gone
      OBVIOUS
    <2>1. 1 = Len(replies) /\ leaver = f.conn
      BY <1>3, <1>5
    <2> QED BY <1>5, <1>7, <2>1
  <1> HIDE DEF f
  <1> HIDE DEF gone
  <1>9. worldUp' /\ (routerUp' <=> routerUp) /\ loop # "accepting" /\ gate \notin {"announcing"}
    <2>1. gate \notin {"announcing", "awaiting"}
      BY <1>1, BeforeServing
    <2> QED BY <1>1, <2>1 DEF worldUp, routerUp, GatewayProofInv, Handshake
  <1>10. QueuesOK'
    <2>1. IsFiniteSet(sessions') /\ sessions' \subseteq Conns /\ forgotten' \subseteq Conns
      BY <1>2, <1>5, <1>6, FS_Subset DEF QueuesOK
    <2>2. leaver' \in Conns \union {NoConn} /\ Len(toGateway') <= ToGatewayCap
      BY <1>1, <1>2, <1>4, <1>6, GatewayAssumption DEF QueuesOK
    <2> QED BY <1>1, <1>2, <1>3, <1>4, <2>1, <2>2 DEF QueuesOK
  <1>11. Forwarding'
    BY <1>1 DEF GatewayProofInv, Forwarding
  <1>12. Handshake'
    <2>1. gate \notin {"announcing", "awaiting"}
      BY <1>1, BeforeServing
    <2> QED BY <1>1, <1>4, <1>7, <1>9, <2>1 DEF GatewayProofInv, Handshake, routerUp
  <1>13. \A d \in Conns : /\ Met(d)' <=> Met(d)
                          /\ Pending(d)' <=> Pending(d)
                          /\ Beyond(d)' => Beyond(d)
                          /\ Departing(d)' <=> Departing(d)
    BY <1>1, <1>3, <1>4, <1>6 DEF Met, Pending, Beyond, Departing
  <1>14. Unannounced'
    <2>1. \A d \in gone : d \in Conns /\ Beyond(d)
      BY <1>5, <1>6 DEF Beyond
    <2> QED BY <1>1, <1>6, <1>13, <2>1 DEF GatewayProofInv, Protocol, Unannounced
  <1>15. Registered'
    BY <1>1, <1>9, <1>13 DEF GatewayProofInv, Protocol, Registered
  <1>16. ConnectOnce'
    BY <1>1, <1>13 DEF GatewayProofInv, Protocol, ConnectOnce
  <1>17. ConnectFirst'
    BY <1>1, <1>9, <1>13 DEF GatewayProofInv, Protocol, ConnectFirst
  <1>18. Owed'
    <2> SUFFICES ASSUME NEW d \in Conns, routerUp, phase[d] \in {"deregistering", "done"},
                        d \in sessions' \/ Pending(d)'
                 PROVE  Departing(d)' \/ leaver' = d
      BY <1>1, <1>9 DEF Owed
    <2>1. (d \in sessions \/ Pending(d)) /\ d \notin gone
      BY <1>6, <1>13 DEF GatewayProofInv, Protocol, ConnectOnce, Met
    <2>2. Departing(d) \/ leaver = d
      BY <1>1, <2>1 DEF GatewayProofInv, Protocol, Owed
    <2> QED BY <1>6, <1>13, <2>1, <2>2
  <1>19. Closing'
    <2>1. \A c \in Conns : Close(c) \in ToSet(toGateway') \/ "Close" \in ToSet(out'[c]) => c \in forgotten'
      BY <1>1, <1>4, <1>6, <1>7, <1>8 DEF GatewayProofInv, Protocol, Closing
    <2>2. \A i \in 1 .. Len(replies') :
            replies'[i].kind = "Close" => i = Len(replies') /\ leaver' = replies'[i].conn
      <3> SUFFICES ASSUME NEW i \in 1 .. Len(replies'), replies'[i].kind = "Close"
                   PROVE  i = Len(replies') /\ leaver' = replies'[i].conn
        OBVIOUS
      <3>1. i + 1 \in 1 .. Len(replies) /\ replies[i + 1].kind = "Close" /\ Len(replies) # 1
        BY <1>3
      <3>2. i + 1 = Len(replies) /\ leaver = replies[i + 1].conn
        BY <1>5, <3>1
      <3>3. leaver' = leaver
        BY <1>6, <3>1
      <3> QED BY <1>3, <3>2, <3>3
    <2>3. leaver' # NoConn => replies' # <<>> /\ leaver' \in sessions'
      <3> SUFFICES ASSUME leaver' # NoConn PROVE replies' # <<>> /\ leaver' \in sessions'
        OBVIOUS
      <3>1. gone = {} /\ leaver' = leaver /\ Len(replies) # 1
        BY <1>6
      <3>2. Len(replies') # 0
        BY <1>3, <3>1
      <3> QED BY <1>5, <1>6, <3>1, <3>2, EmptySeq
    <2>4. sessions' \cap forgotten' = {}
      BY <1>5, <1>6
    <2> QED BY <2>1, <2>2, <2>3, <2>4 DEF Closing
  <1> QED BY <1>10, <1>11, <1>12, <1>14, <1>15, <1>16, <1>17, <1>18, <1>19 DEF GatewayProofInv, Protocol

\* The World that stops leaves no session, no reply and no frame behind.
LEMMA StoppedStep ==
  ASSUME GatewayProofInv, WorldStops \/ PeerClosed
  PROVE  GatewayProofInv'
  <1>1. /\ worldUp /\ loop' = "stopped" /\ sessions' = {} /\ replies' = <<>> /\ leaver' = NoConn
        /\ toWorld' = <<>>
        /\ loop = "looping" \/ gate = "ended"
        /\ UNCHANGED <<phase, batch, typed, out, commands, registry, held, gate, toGateway, forgotten>>
    BY DEF WorldStops, PeerClosed, Stopped, connVars, routerVars
  <1>2. /\ ToSet(<<>>) = {} /\ Len(<<>>) = 0 /\ \A a, B : Before(<<>>, a, B) /\ Once(<<>>, a)
        /\ <<>> \in Seq(WorldFrame) /\ <<>> \in Seq(GatewayFrame \union {Resume})
    BY QueueEmpty, EmptySeq
  <1>3. QueuesOK'
    <2>1. IsFiniteSet({})
      BY FS_EmptySet
    <2> QED BY <1>1, <1>2, <2>1, GatewayAssumption DEF GatewayProofInv, QueuesOK
  <1>4. Forwarding'
    BY <1>1 DEF GatewayProofInv, Forwarding
  <1>5. ~worldUp' /\ (routerUp' <=> routerUp) /\ loop # "accepting"
    BY <1>1 DEF worldUp, routerUp, GatewayProofInv, Handshake
  <1>6. Handshake'
    BY <1>1, <1>2, <1>5 DEF GatewayProofInv, Handshake
  <1>7. \A d \in Conns : /\ Met(d)' => Met(d)
                         /\ Pending(d)' => Pending(d)
                         /\ Beyond(d)' => Beyond(d)
    BY <1>1, <1>2 DEF Met, Pending, Beyond
  <1>8. Unannounced'
    BY <1>1, <1>7 DEF GatewayProofInv, Protocol, Unannounced
  <1>9. Registered'
    BY <1>1, <1>5, <1>7 DEF GatewayProofInv, Protocol, Registered
  <1>10. ConnectOnce'
    BY <1>1, <1>2, <1>7 DEF GatewayProofInv, Protocol, ConnectOnce
  <1>11. ConnectFirst' /\ Owed'
    BY <1>5 DEF ConnectFirst, Owed
  <1>12. Closing'
    BY <1>1, <1>2 DEF GatewayProofInv, Protocol, Closing
  <1> QED BY <1>3, <1>4, <1>6, <1>8, <1>9, <1>10, <1>11, <1>12 DEF GatewayProofInv, Protocol

-----------------------------------------------------------------------------
\* Before the handshake there are no sessions and no frames.
LEMMA GatewayStart ==
  ASSUME Init
  PROVE  GatewayProofInv
  <1>1. /\ phase = [c \in Conns |-> "idle"] /\ batch = [c \in Conns |-> <<>>]
        /\ typed = 0 /\ out = [c \in Conns |-> <<>>]
        /\ commands = <<>> /\ registry = {} /\ held = NoFrame
        /\ gate = "announcing" /\ loop = "accepting"
        /\ toWorld = <<>> /\ toGateway = <<>>
        /\ sessions = {} /\ replies = <<>> /\ leaver = NoConn /\ forgotten = {}
    BY DEF Init
  <1>2. /\ ToSet(<<>>) = {} /\ Len(<<>>) = 0 /\ \A a, B : Before(<<>>, a, B) /\ Once(<<>>, a)
        /\ <<>> \in Seq(WorldFrame) /\ <<>> \in Seq(GatewayFrame \union {Resume})
        /\ <<>> \in Seq(Command) /\ <<>> \in Seq(WorldFrame \union {ResumeAck})
        /\ <<>> \in Seq({"Output", "Close"})
    BY QueueEmpty, EmptySeq
  <1>3. QueuesOK
    <2>1. IsFiniteSet({})
      BY FS_EmptySet
    <2>2. /\ phase \in [Conns -> Phase] /\ batch \in [Conns -> {<<>>} \union Lines]
          /\ out \in [Conns -> Seq({"Output", "Close"})] /\ \A c \in Conns : Len(out[c]) <= OutCap
      BY <1>1, <1>2, GatewayAssumption DEF Phase
    <2>3. /\ typed \in 0 .. MaxLines /\ Len(commands) <= CommandCap /\ Len(toWorld) <= ToWorldCap
          /\ Len(toGateway) <= ToGatewayCap
      BY <1>1, <1>2, GatewayAssumption
    <2> QED BY <1>1, <1>2, <2>1, <2>2, <2>3 DEF QueuesOK
  <1>4. Forwarding /\ Handshake
    BY <1>1, <1>2 DEF Forwarding, Handshake, routerUp, worldUp
  <1>5. \A d \in Conns : ~Met(d) /\ ~Pending(d) /\ ~Beyond(d)
    BY <1>1, <1>2, NoFrameIsNone DEF Met, Pending, Beyond
  <1>6. Unannounced /\ ConnectOnce
    BY <1>1, <1>2, <1>5, NoFrameIsNone DEF Unannounced, ConnectOnce
  <1>7. Registered /\ Owed
    BY <1>1 DEF Registered, Owed, routerUp
  <1>8. ConnectFirst
    BY <1>1, <1>2, NoFrameIsNone DEF ConnectFirst, routerUp
  <1>9. Closing
    BY <1>1, <1>2 DEF Closing
  <1> QED BY <1>3, <1>4, <1>6, <1>7, <1>8, <1>9 DEF GatewayProofInv, Protocol

\* Every step of every task keeps the invariant.
LEMMA GatewayStep ==
  ASSUME GatewayProofInv, [Next]_vars
  PROVE  GatewayProofInv'
  <1>1. ASSUME NEW c \in Conns,
               Accept(c) \/ Open(c) \/ Hangup(c) \/ Written(c) \/ Leave(c) \/ Abandon(c)
        PROVE  GatewayProofInv'
    BY <1>1, TaskSteps
  <1>2. ASSUME NEW c \in Conns, Forward(c) PROVE GatewayProofInv'
    BY <1>2, ForwardStep
  <1>3. ASSUME NEW c \in Conns, TakeOutput(c) PROVE GatewayProofInv'
    BY <1>3, TakeOutputStep
  <1>4. ASSUME NEW c \in Conns, NEW lines \in Lines, Read(c, lines) PROVE GatewayProofInv'
    BY <1>4, ReadStep
  <1>5. CASE AnnounceSessions \/ AcceptResume \/ CheckAck \/ \E c \in Conns : ListenerFails(c)
    BY <1>5, HandshakeSteps
  <1>6. CASE Router
    BY <1>6, RouteWorldStep, TakeCommandStep, SendToWorldStep, RouterStopsStep DEF Router
  <1>7. CASE WorldReceives
    BY <1>7, WorldReceivesStep
  <1>8. CASE WorldSends
    BY <1>8, WorldSendsStep
  <1>9. CASE WorldStops \/ PeerClosed
    BY <1>9, StoppedStep
  <1>10. CASE UNCHANGED vars
    <2>1. UNCHANGED <<phase, batch, typed, out, commands, registry, held, gate, toWorld, toGateway,
                      sessions, replies, leaver, loop, forgotten>>
      BY <1>10 DEF vars, connVars, routerVars, worldVars
    <2>2. QueuesOK' /\ Forwarding'
      BY <2>1 DEF GatewayProofInv, QueuesOK, Forwarding
    <2>3. (routerUp' <=> routerUp) /\ (worldUp' <=> worldUp)
      BY <2>1 DEF routerUp, worldUp
    <2>4. Handshake'
      BY <2>1, <2>3 DEF GatewayProofInv, Handshake
    <2>5. \A d \in Conns : /\ Met(d)' <=> Met(d)
                           /\ Pending(d)' <=> Pending(d)
                           /\ Beyond(d)' <=> Beyond(d)
                           /\ Departing(d)' <=> Departing(d)
      BY <2>1 DEF Met, Pending, Beyond, Departing
    <2>6. Unannounced' /\ Registered'
      BY <2>1, <2>3, <2>5 DEF GatewayProofInv, Protocol, Unannounced, Registered
    <2>7. ConnectOnce' /\ ConnectFirst'
      BY <2>1, <2>3, <2>5 DEF GatewayProofInv, Protocol, ConnectOnce, ConnectFirst
    <2>8. Owed' /\ Closing'
      BY <2>1, <2>3, <2>5 DEF GatewayProofInv, Protocol, Owed, Closing
    <2> QED BY <2>2, <2>4, <2>6, <2>7, <2>8 DEF GatewayProofInv, Protocol
  <1> QED BY <1>1, <1>2, <1>3, <1>4, <1>5, <1>6, <1>7, <1>8, <1>9, <1>10 DEF Next

-----------------------------------------------------------------------------
\* The inductive invariant holds of every state of the gateway and its World.
THEOREM GatewayCorrect == Spec => []GatewayProofInv
  <1>1. Init => GatewayProofInv
    BY GatewayStart
  <1>2. GatewayProofInv /\ [Next]_vars => GatewayProofInv'
    BY GatewayStep
  <1> QED BY <1>1, <1>2, PTL DEF Spec

\* Every channel stays within its capacity, and the router knows every connection
\* the World addresses, or its task has left (router.rs:5).
THEOREM GatewayAddressed == Spec => []GatewayInv
  <1>1. ASSUME GatewayProofInv PROVE GatewayTypeOK
    <2>1. QueuesOK
      BY <1>1 DEF GatewayProofInv
    <2>2. ASSUME NEW S, NEW q \in Seq(S) PROVE ToSet(q) \subseteq S
      BY LenProperties DEF ToSet
    <2>3. /\ ToSet(commands) \subseteq Command
          /\ ToSet(toWorld) \subseteq GatewayFrame \union {Resume}
          /\ ToSet(toGateway) \subseteq WorldFrame \union {ResumeAck}
          /\ ToSet(replies) \subseteq WorldFrame
          /\ \A c \in Conns : ToSet(out[c]) \subseteq {"Output", "Close"}
      BY <2>1, <2>2 DEF QueuesOK
    <2> QED BY <2>1, <2>3 DEF QueuesOK, GatewayTypeOK, Command
  <1>2. ASSUME GatewayProofInv PROVE AddressedIsKnown
    <2> SUFFICES ASSUME NEW f \in ToSet(toGateway) \union ToSet(replies), routerUp,
                        f.conn \notin registry
                 PROVE  phase[f.conn] = "done"
      BY DEF AddressedIsKnown
    <2>1. f \in WorldFrame \union {ResumeAck} /\ f # ResumeAck
      <3>1. ToSet(toGateway) \subseteq WorldFrame \union {ResumeAck} /\ ToSet(replies) \subseteq WorldFrame
        BY <1>1, <1>2 DEF GatewayTypeOK
      <3>2. ResumeAck \notin ToSet(toGateway)
        BY <1>2 DEF GatewayProofInv, Handshake, routerUp
      <3> QED BY <3>1, <3>2, WorldFrameCases
    <2>2. f.conn \in Conns
      BY <2>1, WorldFrameCases
    <2>3. Beyond(f.conn)
      BY DEF Beyond
    <2> QED BY <1>2, <2>2, <2>3 DEF GatewayProofInv, Protocol, Registered
  <1>3. GatewayProofInv => GatewayInv
    BY <1>1, <1>2 DEF GatewayInv
  <1> QED BY <1>3, GatewayCorrect, PTL

\* No session outlives its connection task: a task that has left has its
\* Disconnect on the way, or the World is dropping the session at this moment.
THEOREM GatewayNoOrphan == Spec => []NoOrphanSession
  <1>1. ASSUME GatewayProofInv PROVE NoOrphanSession
    <2>1. worldUp \/ sessions = {}
      BY <1>1 DEF GatewayProofInv, Handshake
    <2>2. sessions \subseteq Conns
      BY <1>1 DEF GatewayProofInv, QueuesOK
    <2> QED BY <1>1, <2>1, <2>2 DEF GatewayProofInv, Protocol, Owed, NoOrphanSession
  <1> QED BY <1>1, GatewayCorrect, PTL

\* A line reaches the World in the life of its session or after the World's own
\* Close, never before its Connect; and no step brings a dropped session back.
THEOREM GatewayInput == Spec => NoStrayInput
  <1> DEFINE Stray(c) == /\ worldUp /\ toWorld # <<>> /\ Head(toWorld).kind = "Input"
                         /\ Head(toWorld).conn = c
  <1>1. ASSUME GatewayProofInv, GatewayProofInv', [Next]_vars
        PROVE  /\ \A c \in Conns : Stray(c) => c \in sessions \union forgotten
               /\ sessions' \cap forgotten = {}
    <2>1. ASSUME NEW c \in Conns, Stray(c) PROVE c \in sessions \union forgotten
      <3>1. /\ Head(toWorld) \in GatewayFrame \union {Resume}
            /\ \A a, B : Before(toWorld, a, B) => Head(toWorld) \notin B
        BY <1>1, <2>1, QueueTail DEF GatewayProofInv, QueuesOK
      <3>2. Head(toWorld) \in Command
        BY <2>1, <3>1, WorldFrameCases DEF Command
      <3>3. Head(toWorld) \in Inner(c)
        BY <2>1, <3>2, CommandCases
      <3> QED BY <1>1, <2>1, <3>1, <3>3 DEF GatewayProofInv, Protocol, ConnectFirst, Met
    <2>2. forgotten \subseteq forgotten'
      <3>1. CASE WorldReceives
        BY <1>1, <3>1, HandlingFrame DEF Handled
      <3>2. CASE WorldSends
        BY <3>2 DEF WorldSends, Finish
      <3>3. ASSUME ~WorldReceives, ~WorldSends PROVE forgotten' = forgotten
        <4>1. ASSUME NEW c \in Conns,
                     \/ Accept(c) \/ Open(c) \/ Forward(c) \/ Hangup(c) \/ TakeOutput(c)
                     \/ Written(c) \/ Leave(c) \/ Abandon(c) \/ \E lines \in Lines : Read(c, lines)
              PROVE  ConnStep
          BY <4>1 DEF Accept, Open, Forward, Hangup, TakeOutput, Written, Leave, Abandon, Read
        <4>2. ASSUME NEW c \in Conns, ListenerFails(c) PROVE forgotten' = forgotten
          BY <4>2 DEF ListenerFails, worldVars
        <4>3. ASSUME AnnounceSessions \/ AcceptResume \/ CheckAck PROVE forgotten' = forgotten
          BY <4>3 DEF AnnounceSessions, AcceptResume, CheckAck, HandshakeStep
        <4>4. ASSUME Router PROVE forgotten' = forgotten
          BY <4>4 DEF Router, RouteWorld, TakeCommand, SendToWorld, RouterStops, RouterStep, worldVars
        <4>5. ASSUME WorldStops \/ PeerClosed PROVE forgotten' = forgotten
          BY <4>5 DEF WorldStops, PeerClosed, Stopped
        <4>6. ASSUME UNCHANGED vars PROVE forgotten' = forgotten
          BY <4>6 DEF vars, worldVars
        <4>7. ConnStep => forgotten' = forgotten
          BY DEF ConnStep, worldVars
        <4> QED BY <1>1, <3>3, <4>1, <4>2, <4>3, <4>4, <4>5, <4>6, <4>7 DEF Next
      <3> QED BY <3>1, <3>2, <3>3
    <2>3. sessions' \cap forgotten' = {}
      BY <1>1 DEF GatewayProofInv, Protocol, Closing
    <2> QED BY <2>1, <2>2, <2>3
  <1>2. GatewayProofInv /\ GatewayProofInv' /\ [Next]_vars =>
          [/\ \A c \in Conns :
                worldUp /\ toWorld # <<>> /\ Head(toWorld).kind = "Input" /\ Head(toWorld).conn = c
                => c \in sessions \union forgotten
           /\ sessions' \cap forgotten = {}]_vars
    BY <1>1
  <1> QED BY <1>2, GatewayCorrect, PTL DEF Spec, NoStrayInput
==============================================================================
