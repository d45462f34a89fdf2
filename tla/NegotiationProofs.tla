-------------------------- MODULE NegotiationProofs --------------------------
(***************************************************************************)
(* Proofs about telnet negotiation, for any options in play, any number of *)
(* whims of the client and of passwords of the World, and so any number of *)
(* verbs crossing on the two streams.  What the inductive invariant says   *)
(* of an option is the same whichever end decides about it: where the two  *)
(* ends differ, some verb still under way will make them agree.            *)
(***************************************************************************)
EXTENDS Negotiation, SequenceTheorems, TLAPS

Message ==
  [option : Options, verb : {"yes", "no", "ask", "accepted", "rejected"}]

\* Of option o, verb v is under way in q; v with w somewhere behind it; and
\* every v with a w behind it, so that v is not the last word.
Said(q, o, v)        == \E i \in 1 .. Len(q) : q[i] = Msg(o, v)
SaidThen(q, o, v, w) == \E i, j \in 1 .. Len(q) : i < j /\ q[i] = Msg(o, v) /\ q[j] = Msg(o, w)
Outdone(q, o, v, w)  ==
  \A i \in 1 .. Len(q) : q[i] = Msg(o, v) => \E j \in 1 .. Len(q) : i < j /\ q[j] = Msg(o, w)
Silent(q, o) == ~Said(q, o, "yes") /\ ~Said(q, o, "no")

\* An option at s on the server and at c on the client, with tc and ts under
\* way to the client and to the server.  The last word of each end is of its
\* state; and an end that is not where the other is will hear of it.
LastWords(o, s, c, tc, ts) ==
  /\ s \in {"WantYes", "Yes"} => Outdone(tc, o, "no", "yes")
  /\ s = "WantNo"             => Outdone(tc, o, "yes", "no")
  /\ c \in {"WantYes", "Yes"} => Outdone(ts, o, "no", "yes")
  /\ c = "WantNo"             => Outdone(ts, o, "yes", "no")
Pending(o, s, c, tc, ts) ==
  /\ c \in {"WantYes", "Yes"} /\ Silent(ts, o) => s = "Yes" \/ Said(tc, o, "no")
  /\ c \in {"WantYes", "No"} => s = "No" \/ Said(ts, o, "no") \/ Said(tc, o, "yes")
  /\ c = "WantNo" => s = "No" \/ Said(ts, o, "no") \/ SaidThen(tc, o, "no", "yes")
  /\ c = "WantNo" => \/ Said(tc, o, "no")
                     \/ s = "Yes" /\ Said(ts, o, "no")
                     \/ s \in {"No", "WantYes"} /\ SaidThen(ts, o, "yes", "no")
  /\ s = "WantNo" /\ Silent(tc, o) => c \in {"No", "WantYes"}
Fits(o, s, c, tc, ts) == LastWords(o, s, c, tc, ts) /\ Pending(o, s, c, tc, ts)

\* The server wants an echo exactly while the World masks, and never waits to
\* be rid of an option it opened with.
Wanted ==
  /\ "ECHO" \in Options => /\ server["ECHO"] \in {"WantYes", "Yes"} => masked
                           /\ server["ECHO"] = "WantNo" => ~masked
  /\ \A o \in Options \cap Opening : server[o] # "WantNo"

\* What the server says; and the ranges of states and streams.
Spoken ==
  {m \in Message : /\ m.verb \in {"yes", "no", "ask"}
                   /\ m.verb = "ask" => m.option \in {"TTYPE", "CHARSET"}}
Ranges ==
  /\ server \in [Options \cap Known -> QState] /\ client \in [Options -> QState]
  /\ charset \in {"Ascii", "Utf8"} /\ masked \in BOOLEAN
  /\ toClient \in Seq(Spoken) /\ toServer \in Seq(Message)

NegotiationProofInv ==
  /\ Ranges /\ Wanted
  /\ \A o \in Options \cap Known : Fits(o, server[o], client[o], toClient, toServer)

-----------------------------------------------------------------------------
\* What a verb sent does to what is under way of any option.
LEMMA Sent ==
  ASSUME NEW q \in Seq(Message), NEW x \in Message
  PROVE  /\ Append(q, x) \in Seq(Message) /\ Append(q, x) = q \o <<x>>
         /\ \A i \in 1 .. Len(Append(q, x)) : Append(q, x)[i] = x \/ \E k \in 1 .. Len(q) : Append(q, x)[i] = q[k]
         /\ \A o, v : Said(Append(q, x), o, v) <=> Said(q, o, v) \/ x = Msg(o, v)
         /\ \A o, v, w : SaidThen(Append(q, x), o, v, w) <=>
              SaidThen(q, o, v, w) \/ (Said(q, o, v) /\ x = Msg(o, w))
         /\ \A o, v, w : v # w =>
              (Outdone(Append(q, x), o, v, w) <=>
                 x = Msg(o, w) \/ (x # Msg(o, v) /\ Outdone(q, o, v, w)))
  <1> DEFINE r == Append(q, x)
  <1>1. /\ r \in Seq(Message) /\ Len(r) = Len(q) + 1 /\ Len(q) \in Nat
        /\ \A i \in 1 .. Len(q) : r[i] = q[i]
        /\ r[Len(q) + 1] = x
    BY AppendProperties
  <1>2. r = q \o <<x>>
    BY AppendIsConcat
  <1> HIDE DEF r
  <1>3. \A i \in 1 .. Len(r) : i \in 1 .. Len(q) \/ i = Len(q) + 1
    BY <1>1
  <1>4. 1 .. Len(q) \subseteq 1 .. Len(r) /\ Len(q) + 1 \in 1 .. Len(r)
    BY <1>1
  <1>5. ASSUME NEW o, NEW v
        PROVE  Said(r, o, v) <=> Said(q, o, v) \/ x = Msg(o, v)
    BY <1>1, <1>3, <1>4 DEF Said
  <1>6. ASSUME NEW o, NEW v, NEW w
        PROVE  SaidThen(r, o, v, w) <=> SaidThen(q, o, v, w) \/ (Said(q, o, v) /\ x = Msg(o, w))
    <2>1. ASSUME NEW i \in 1 .. Len(r), NEW j \in 1 .. Len(r), i < j, r[i] = Msg(o, v), r[j] = Msg(o, w)
          PROVE  SaidThen(q, o, v, w) \/ (Said(q, o, v) /\ x = Msg(o, w))
      <3>1. i \in 1 .. Len(q)
        BY <1>1, <1>3, <2>1
      <3> QED BY <1>1, <1>3, <2>1, <3>1 DEF Said, SaidThen
    <2>2. ASSUME SaidThen(q, o, v, w) PROVE SaidThen(r, o, v, w)
      BY <1>1, <1>4, <2>2 DEF SaidThen
    <2>3. ASSUME Said(q, o, v), x = Msg(o, w) PROVE SaidThen(r, o, v, w)
      <3>1. PICK i \in 1 .. Len(q) : q[i] = Msg(o, v)
        BY <2>3 DEF Said
      <3>2. i < Len(q) + 1 /\ r[i] = Msg(o, v) /\ r[Len(q) + 1] = Msg(o, w)
        BY <1>1, <2>3, <3>1
      <3> QED BY <1>4, <3>1, <3>2 DEF SaidThen
    <2> QED BY <2>1, <2>2, <2>3 DEF SaidThen
  <1>7. ASSUME NEW o, NEW v, NEW w, v # w
        PROVE  Outdone(r, o, v, w) <=> x = Msg(o, w) \/ (x # Msg(o, v) /\ Outdone(q, o, v, w))
    <2>1. Msg(o, v) # Msg(o, w)
      BY <1>7 DEF Msg
    <2>2. ASSUME x = Msg(o, w) PROVE Outdone(r, o, v, w)
      <3>1. \A i \in 1 .. Len(r) : r[i] = Msg(o, v) => i < Len(q) + 1
        BY <1>1, <1>3, <2>1, <2>2
      <3> QED BY <1>1, <1>4, <2>2, <3>1 DEF Outdone
    <2>3. ASSUME x = Msg(o, v) PROVE ~Outdone(r, o, v, w)
      <3>1. \A j \in 1 .. Len(r) : ~(Len(q) + 1 < j)
        BY <1>1
      <3> QED BY <1>1, <1>4, <2>3, <3>1 DEF Outdone
    <2>4. ASSUME x # Msg(o, v), x # Msg(o, w), Outdone(q, o, v, w) PROVE Outdone(r, o, v, w)
      BY <1>1, <1>3, <1>4, <2>4 DEF Outdone
    <2>5. ASSUME x # Msg(o, v), x # Msg(o, w), Outdone(r, o, v, w) PROVE Outdone(q, o, v, w)
      BY <1>1, <1>3, <1>4, <2>5 DEF Outdone
    <2> QED BY <2>2, <2>3, <2>4, <2>5
  <1> QED BY <1>1, <1>2, <1>3, <1>5, <1>6, <1>7 DEF r

\* And what a verb received was to what is still under way.
LEMMA Received ==
  ASSUME NEW q \in Seq(Message), q # <<>>
  PROVE  /\ Tail(q) \in Seq(Message) /\ Head(q) \in Message /\ \E k \in 1 .. Len(q) : Head(q) = q[k]
         /\ \A i \in 1 .. Len(Tail(q)) : \E k \in 1 .. Len(q) : Tail(q)[i] = q[k]
         /\ \A o, v : Said(q, o, v) <=> Head(q) = Msg(o, v) \/ Said(Tail(q), o, v)
         /\ \A o, v, w : SaidThen(q, o, v, w) <=>
              SaidThen(Tail(q), o, v, w) \/ (Head(q) = Msg(o, v) /\ Said(Tail(q), o, w))
         /\ \A o, v, w : Outdone(q, o, v, w) <=>
              Outdone(Tail(q), o, v, w) /\ (Head(q) = Msg(o, v) => Said(Tail(q), o, w))
  <1> DEFINE r == Tail(q)
  <1>1. /\ r \in Seq(Message) /\ Head(q) \in Message /\ Len(q) \in Nat \ {0} /\ Len(r) = Len(q) - 1
        /\ q[1] = Head(q)
        /\ \A i \in 1 .. Len(r) : r[i] = q[i + 1]
    BY HeadTailProperties, EmptySeq
  <1> HIDE DEF r
  <1>2. \A i \in 1 .. Len(q) : i = 1 \/ (i - 1 \in 1 .. Len(r) /\ r[i - 1] = q[i])
    BY <1>1
  <1>3. \A i \in 1 .. Len(r) : i + 1 \in 1 .. Len(q) /\ 1 < i + 1
    BY <1>1
  <1>4. 1 \in 1 .. Len(q)
    BY <1>1
  <1>5. ASSUME NEW o, NEW v
        PROVE  Said(q, o, v) <=> Head(q) = Msg(o, v) \/ Said(r, o, v)
    BY <1>1, <1>2, <1>3, <1>4 DEF Said
  <1>6. ASSUME NEW o, NEW v, NEW w
        PROVE  SaidThen(q, o, v, w) <=> SaidThen(r, o, v, w) \/ (Head(q) = Msg(o, v) /\ Said(r, o, w))
    <2>1. ASSUME NEW i \in 1 .. Len(q), NEW j \in 1 .. Len(q), i < j, q[i] = Msg(o, v), q[j] = Msg(o, w)
          PROVE  SaidThen(r, o, v, w) \/ (Head(q) = Msg(o, v) /\ Said(r, o, w))
      <3>1. j - 1 \in 1 .. Len(r) /\ r[j - 1] = Msg(o, w)
        BY <1>2, <2>1
      <3>2. CASE i = 1
        BY <1>1, <2>1, <3>1, <3>2 DEF Said
      <3>3. CASE i # 1
        <4>1. i - 1 \in 1 .. Len(r) /\ r[i - 1] = Msg(o, v) /\ i - 1 < j - 1
          BY <1>2, <2>1, <3>3
        <4> QED BY <3>1, <4>1 DEF SaidThen
      <3> QED BY <3>2, <3>3
    <2>2. ASSUME NEW i \in 1 .. Len(r), NEW j \in 1 .. Len(r), i < j, r[i] = Msg(o, v), r[j] = Msg(o, w)
          PROVE  SaidThen(q, o, v, w)
      <3>1. /\ i + 1 \in 1 .. Len(q) /\ j + 1 \in 1 .. Len(q) /\ i + 1 < j + 1
            /\ q[i + 1] = Msg(o, v) /\ q[j + 1] = Msg(o, w)
        BY <1>1, <1>3, <2>2
      <3> QED BY <3>1 DEF SaidThen
    <2>3. ASSUME Head(q) = Msg(o, v), NEW j \in 1 .. Len(r), r[j] = Msg(o, w)
          PROVE  SaidThen(q, o, v, w)
      <3>1. j + 1 \in 1 .. Len(q) /\ 1 < j + 1 /\ q[j + 1] = Msg(o, w) /\ q[1] = Msg(o, v)
        BY <1>1, <1>3, <2>3
      <3> QED BY <1>4, <3>1 DEF SaidThen
    <2> QED BY <2>1, <2>2, <2>3 DEF Said, SaidThen
  <1>7. ASSUME NEW o, NEW v, NEW w
        PROVE  Outdone(q, o, v, w) <=>
                 Outdone(r, o, v, w) /\ (Head(q) = Msg(o, v) => Said(r, o, w))
    <2>1. ASSUME Outdone(q, o, v, w), NEW i \in 1 .. Len(r), r[i] = Msg(o, v)
          PROVE  \E j \in 1 .. Len(r) : i < j /\ r[j] = Msg(o, w)
      <3>1. i + 1 \in 1 .. Len(q) /\ q[i + 1] = Msg(o, v)
        BY <1>1, <1>3, <2>1
      <3>2. PICK j \in 1 .. Len(q) : i + 1 < j /\ q[j] = Msg(o, w)
        BY <2>1, <3>1 DEF Outdone
      <3>3. j - 1 \in 1 .. Len(r) /\ i < j - 1 /\ r[j - 1] = Msg(o, w)
        BY <1>2, <3>2
      <3> QED BY <3>3
    <2>2. ASSUME Outdone(q, o, v, w), Head(q) = Msg(o, v) PROVE Said(r, o, w)
      <3>1. PICK j \in 1 .. Len(q) : 1 < j /\ q[j] = Msg(o, w)
        BY <1>1, <1>4, <2>2 DEF Outdone
      <3> QED BY <1>2, <3>1 DEF Said
    <2>3. ASSUME Outdone(r, o, v, w), Head(q) = Msg(o, v) => Said(r, o, w),
                 NEW i \in 1 .. Len(q), q[i] = Msg(o, v)
          PROVE  \E j \in 1 .. Len(q) : i < j /\ q[j] = Msg(o, w)
      <3>1. CASE i = 1
        <4>1. PICK j \in 1 .. Len(r) : r[j] = Msg(o, w)
          BY <1>1, <2>3, <3>1 DEF Said
        <4> QED BY <1>1, <1>3, <3>1, <4>1
      <3>2. CASE i # 1
        <4>1. i - 1 \in 1 .. Len(r) /\ r[i - 1] = Msg(o, v)
          BY <1>2, <2>3, <3>2
        <4>2. PICK j \in 1 .. Len(r) : i - 1 < j /\ r[j] = Msg(o, w)
          BY <2>3, <4>1 DEF Outdone
        <4>3. j + 1 \in 1 .. Len(q) /\ i < j + 1 /\ q[j + 1] = Msg(o, w)
          BY <1>1, <1>3, <4>2
        <4> QED BY <4>3
      <3> QED BY <3>1, <3>2
    <2> QED BY <2>1, <2>2, <2>3 DEF Outdone
  <1>8. Head(q) = q[1] /\ \A i \in 1 .. Len(r) : r[i] = q[i + 1]
    BY <1>1
  <1> QED BY <1>1, <1>3, <1>4, <1>5, <1>6, <1>7, <1>8 DEF r

\* Nothing is under way in an empty stream.
LEMMA Nothing ==
  \A o, v, w : ~Said(<<>>, o, v) /\ ~SaidThen(<<>>, o, v, w) /\ Outdone(<<>>, o, v, w)
  BY EmptySeq DEF Said, SaidThen, Outdone

-----------------------------------------------------------------------------
\* How the three ways to speak of a stream follow from one another.
LEMMA Follows ==
  \A q, o, v, w : /\ SaidThen(q, o, v, w) => Said(q, o, v) /\ Said(q, o, w)
                  /\ Outdone(q, o, v, w) /\ Said(q, o, v) => SaidThen(q, o, v, w)
                  /\ ~Said(q, o, v) => Outdone(q, o, v, w)
  BY DEF Said, SaidThen, Outdone

\* The two verbs of an option are two messages, and what is under way of it is
\* settled by them alone.
LEMMA OwnVerbs ==
  ASSUME NEW o \in Options, NEW q \in Seq(Message), NEW v \in {"yes", "no"}
  PROVE  LET r == Append(q, Msg(o, v)) IN
         /\ r \in Seq(Message) /\ Said(r, o, v)
         /\ v = "yes" =>
              /\ Said(r, o, "no") <=> Said(q, o, "no")
              /\ SaidThen(r, o, "no", "yes") <=> SaidThen(q, o, "no", "yes") \/ Said(q, o, "no")
              /\ SaidThen(r, o, "yes", "no") <=> SaidThen(q, o, "yes", "no")
              /\ Outdone(r, o, "no", "yes") /\ ~Outdone(r, o, "yes", "no")
         /\ v = "no" =>
              /\ Said(r, o, "yes") <=> Said(q, o, "yes")
              /\ SaidThen(r, o, "yes", "no") <=> SaidThen(q, o, "yes", "no") \/ Said(q, o, "yes")
              /\ SaidThen(r, o, "no", "yes") <=> SaidThen(q, o, "no", "yes")
              /\ Outdone(r, o, "yes", "no") /\ ~Outdone(r, o, "no", "yes")
  <1>1. Msg(o, "yes") # Msg(o, "no") /\ Msg(o, v) \in Message
    BY DEF Msg, Message
  <1>2. PICK x \in Message : x = Msg(o, v)
    BY <1>1
  <1> DEFINE r == Append(q, x)
  <1>3. r \in Seq(Message)
    BY Sent
  <1>4. \A a, w : Said(r, a, w) <=> Said(q, a, w) \/ x = Msg(a, w)
    BY Sent
  <1>5. \A a, w, z : SaidThen(r, a, w, z) <=>
              SaidThen(q, a, w, z) \/ (Said(q, a, w) /\ x = Msg(a, z))
    BY Sent
  <1>6. \A a, w, z : w # z => (Outdone(r, a, w, z) <=>
              x = Msg(a, z) \/ (x # Msg(a, w) /\ Outdone(q, a, w, z)))
    BY Sent
  <1> HIDE DEF r
  <1>7. CASE v = "yes"
    BY <1>1, <1>2, <1>3, <1>4, <1>5, <1>6, <1>7 DEF r
  <1>8. CASE v = "no"
    BY <1>1, <1>2, <1>3, <1>4, <1>5, <1>6, <1>8 DEF r
  <1> QED BY <1>7, <1>8

\* The same of the verb at the head of a stream.
LEMMA OwnHead ==
  ASSUME NEW o \in Options, NEW q \in Seq(Message), q # <<>>, NEW v \in {"yes", "no"}, Head(q) = Msg(o, v)
  PROVE  LET r == Tail(q) IN
         /\ r \in Seq(Message)
         /\ v = "yes" =>
              /\ Said(q, o, "yes") /\ (Said(q, o, "no") <=> Said(r, o, "no"))
              /\ SaidThen(q, o, "yes", "no") <=> Said(r, o, "no")
              /\ SaidThen(q, o, "no", "yes") <=> SaidThen(r, o, "no", "yes")
              /\ Outdone(q, o, "yes", "no") <=> Outdone(r, o, "yes", "no") /\ Said(r, o, "no")
              /\ Outdone(q, o, "no", "yes") <=> Outdone(r, o, "no", "yes")
         /\ v = "no" =>
              /\ Said(q, o, "no") /\ (Said(q, o, "yes") <=> Said(r, o, "yes"))
              /\ SaidThen(q, o, "no", "yes") <=> Said(r, o, "yes")
              /\ SaidThen(q, o, "yes", "no") <=> SaidThen(r, o, "yes", "no")
              /\ Outdone(q, o, "no", "yes") <=> Outdone(r, o, "no", "yes") /\ Said(r, o, "yes")
              /\ Outdone(q, o, "yes", "no") <=> Outdone(r, o, "yes", "no")
  <1> DEFINE r == Tail(q)
  <1>1. Msg(o, "yes") # Msg(o, "no")
    BY DEF Msg
  <1>2. r \in Seq(Message)
    BY Received
  <1>3. \A w : Said(q, o, w) <=> Msg(o, v) = Msg(o, w) \/ Said(r, o, w)
    BY Received
  <1>4. \A w, x : SaidThen(q, o, w, x) <=>
              SaidThen(r, o, w, x) \/ (Msg(o, v) = Msg(o, w) /\ Said(r, o, x))
    BY Received
  <1>5. \A w, x : Outdone(q, o, w, x) <=>
              Outdone(r, o, w, x) /\ (Msg(o, v) = Msg(o, w) => Said(r, o, x))
    BY Received
  <1> HIDE DEF r
  <1>6. CASE v = "yes"
    BY <1>1, <1>2, <1>3, <1>4, <1>5, <1>6, Follows DEF r
  <1>7. CASE v = "no"
    BY <1>1, <1>2, <1>3, <1>4, <1>5, <1>7, Follows DEF r
  <1> QED BY <1>6, <1>7

\* The server hears an option accepted.
LEMMA ServerHearsYes ==
  ASSUME NEW o \in Options, NEW s \in QState, NEW c \in QState,
         NEW tc \in Seq(Message), NEW ts \in Seq(Message), Fits(o, s, c, tc, ts),
         ts # <<>>, Head(ts) = Msg(o, "yes")
  PROVE  LET r == Tail(ts) IN
         /\ s = "WantYes" => Fits(o, "Yes", c, tc, r)
         /\ s \in {"Yes", "WantNo"} => Fits(o, s, c, tc, r)
         /\ s = "No" => Fits(o, "No", c, Append(tc, Msg(o, "no")), r)
         /\ s = "No" => Fits(o, "Yes", c, Append(tc, Msg(o, "yes")), r)
  BY OwnVerbs, OwnHead, Follows DEF Fits, LastWords, Pending, Silent, QState

\* The server hears an option refused, or turned off.
LEMMA ServerHearsNo ==
  ASSUME NEW o \in Options, NEW s \in QState, NEW c \in QState,
         NEW tc \in Seq(Message), NEW ts \in Seq(Message), Fits(o, s, c, tc, ts),
         ts # <<>>, Head(ts) = Msg(o, "no")
  PROVE  LET r == Tail(ts) IN
         /\ s = "Yes" => Fits(o, "No", c, Append(tc, Msg(o, "no")), r)
         /\ s # "Yes" => Fits(o, "No", c, tc, r)
  BY OwnVerbs, OwnHead, Follows DEF Fits, LastWords, Pending, Silent, QState

\* The server asks for a change by itself.
LEMMA ServerAsks ==
  ASSUME NEW o \in Options, NEW s \in QState, NEW c \in QState,
         NEW tc \in Seq(Message), NEW ts \in Seq(Message), Fits(o, s, c, tc, ts)
  PROVE  /\ s \in {"No", "WantNo"} => Fits(o, "WantYes", c, Append(tc, Msg(o, "yes")), ts)
         /\ s \in {"Yes", "WantYes"} => Fits(o, "WantNo", c, Append(tc, Msg(o, "no")), ts)
  BY OwnVerbs, Follows DEF Fits, LastWords, Pending, Silent, QState

\* The client hears an offer.
LEMMA ClientHearsYes ==
  ASSUME NEW o \in Options, NEW s \in QState, NEW c \in QState,
         NEW tc \in Seq(Message), NEW ts \in Seq(Message), Fits(o, s, c, tc, ts),
         tc # <<>>, Head(tc) = Msg(o, "yes")
  PROVE  LET r == Tail(tc) IN
         /\ c = "No" => Fits(o, s, "Yes", r, Append(ts, Msg(o, "yes")))
         /\ c = "No" => Fits(o, s, "No", r, Append(ts, Msg(o, "no")))
         /\ c = "WantYes" => Fits(o, s, "Yes", r, ts)
         /\ c \in {"Yes", "WantNo"} => Fits(o, s, c, r, ts)
  BY OwnVerbs, OwnHead, Follows DEF Fits, LastWords, Pending, Silent, QState

\* The client hears an option turned off.
LEMMA ClientHearsNo ==
  ASSUME NEW o \in Options, NEW s \in QState, NEW c \in QState,
         NEW tc \in Seq(Message), NEW ts \in Seq(Message), Fits(o, s, c, tc, ts),
         tc # <<>>, Head(tc) = Msg(o, "no")
  PROVE  LET r == Tail(tc) IN
         /\ c = "Yes" => Fits(o, s, "No", r, Append(ts, Msg(o, "no")))
         /\ c # "Yes" => Fits(o, s, "No", r, ts)
  BY OwnVerbs, OwnHead, Follows DEF Fits, LastWords, Pending, Silent, QState

\* The client asks for a change by itself.
LEMMA ClientAsks ==
  ASSUME NEW o \in Options, NEW s \in QState, NEW c \in QState,
         NEW tc \in Seq(Message), NEW ts \in Seq(Message), Fits(o, s, c, tc, ts)
  PROVE  /\ c = "No" => Fits(o, s, "WantYes", tc, Append(ts, Msg(o, "yes")))
         /\ c = "Yes" => Fits(o, s, "WantNo", tc, Append(ts, Msg(o, "no")))
  BY OwnVerbs, Follows DEF Fits, LastWords, Pending, Silent, QState

-----------------------------------------------------------------------------
\* Two streams with the same under way of an option.
Alike(q, r, o) ==
  \A v, w \in {"yes", "no"} :
    /\ Said(q, o, v) <=> Said(r, o, v)
    /\ SaidThen(q, o, v, w) <=> SaidThen(r, o, v, w)
    /\ v # w => (Outdone(q, o, v, w) <=> Outdone(r, o, v, w))
Aside(m, o) == m # Msg(o, "yes") /\ m # Msg(o, "no")

\* An option fits streams that carry the same about it.
LEMMA AlikeFits ==
  ASSUME NEW o, NEW s, NEW c, NEW tc, NEW ts, NEW tc2, NEW ts2,
         Alike(tc, tc2, o), Alike(ts, ts2, o), Fits(o, s, c, tc, ts)
  PROVE  Fits(o, s, c, tc2, ts2)
  BY DEF Alike, Fits, LastWords, Pending, Silent

\* A message aside of an option is sent without a difference to it.
LEMMA AlikeSent ==
  ASSUME NEW q \in Seq(Message), NEW x \in Message, NEW o, Aside(x, o)
  PROVE  Alike(q, Append(q, x), o)
  <1> DEFINE r == Append(q, x)
  <1>1. \A a, v : Said(r, a, v) <=> Said(q, a, v) \/ x = Msg(a, v)
    BY Sent
  <1>2. \A a, v, w : SaidThen(r, a, v, w) <=>
              SaidThen(q, a, v, w) \/ (Said(q, a, v) /\ x = Msg(a, w))
    BY Sent
  <1>3. \A a, v, w : v # w => (Outdone(r, a, v, w) <=>
              x = Msg(a, w) \/ (x # Msg(a, v) /\ Outdone(q, a, v, w)))
    BY Sent
  <1> HIDE DEF r
  <1>4. \A v \in {"yes", "no"} : x # Msg(o, v)
    BY DEF Aside
  <1>5. Alike(q, r, o)
    BY <1>1, <1>2, <1>3, <1>4 DEF Alike
  <1> QED BY <1>5 DEF r

\* And received without one.
LEMMA AlikeReceived ==
  ASSUME NEW q \in Seq(Message), q # <<>>, NEW o, Aside(Head(q), o)
  PROVE  Alike(q, Tail(q), o)
  <1> DEFINE r == Tail(q)
             h == Head(q)
  <1>1. \A a, v : Said(q, a, v) <=> h = Msg(a, v) \/ Said(r, a, v)
    BY Received
  <1>2. \A a, v, w : SaidThen(q, a, v, w) <=>
              SaidThen(r, a, v, w) \/ (h = Msg(a, v) /\ Said(r, a, w))
    BY Received
  <1>3. \A a, v, w : Outdone(q, a, v, w) <=>
              Outdone(r, a, v, w) /\ (h = Msg(a, v) => Said(r, a, w))
    BY Received
  <1>4. \A v \in {"yes", "no"} : h # Msg(o, v)
    BY DEF Aside
  <1> HIDE DEF r, h
  <1>5. Alike(q, r, o)
    BY <1>1, <1>2, <1>3, <1>4 DEF Alike
  <1> QED BY <1>5 DEF r

\* Alike is reflexive and transitive.
LEMMA AlikeItself ==
  /\ \A q, o : Alike(q, q, o)
  /\ \A q, r, t, o : Alike(q, r, o) /\ Alike(r, t, o) => Alike(q, t, o)
  BY DEF Alike

\* A message about another option, or of another kind, leaves an option alone.
LEMMA AsideOf ==
  ASSUME NEW m \in Message, NEW o
  PROVE  /\ m.option # o => Aside(m, o)
         /\ m.verb \notin {"yes", "no"} => Aside(m, o)
         /\ m = Msg(m.option, m.verb)
  BY DEF Aside, Msg, Message

-----------------------------------------------------------------------------
\* A verb in reply, and a verb with the request that follows it.
LEMMA Replies ==
  ASSUME NEW q \in Seq(Spoken), NEW o \in Options, NEW v \in {"yes", "no"}
  PROVE  LET r == q \o <<Msg(o, v)>> IN
         /\ r = Append(q, Msg(o, v)) /\ r \in Seq(Spoken) /\ q \in Seq(Message)
         /\ \A p : p # o => Alike(q, r, p)
  <1>1. Msg(o, v) \in Spoken /\ Spoken \subseteq Message /\ Msg(o, v).option = o
    BY DEF Msg, Spoken, Message
  <1>2. q \in Seq(Message)
    BY <1>1, SeqMonotonic
  <1>3. q \o <<Msg(o, v)>> = Append(q, Msg(o, v)) /\ Append(q, Msg(o, v)) \in Seq(Spoken)
    BY <1>1, AppendIsConcat, AppendProperties
  <1>4. ASSUME NEW p, p # o PROVE Alike(q, Append(q, Msg(o, v)), p)
    <2>1. Aside(Msg(o, v), p)
      BY <1>1, <1>4, AsideOf
    <2> QED BY <1>1, <1>2, <2>1, AlikeSent
  <1> QED BY <1>2, <1>3, <1>4

\* The request that may follow an acceptance is about no state.
LEMMA Requests ==
  ASSUME NEW q \in Seq(Spoken), NEW o \in Options
  PROVE  q \o Request(o) \in Seq(Spoken) /\ \A p : Alike(q, q \o Request(o), p)
  <1>1. CASE o \in {"TTYPE", "CHARSET"}
    <2>1. Msg(o, "ask") \in Spoken /\ Msg(o, "ask") \in Message /\ Msg(o, "ask").verb = "ask"
      BY <1>1 DEF Msg, Spoken, Message
    <2>2. Request(o) = <<Msg(o, "ask")>>
      BY <1>1 DEF Request
    <2>3. q \o Request(o) = Append(q, Msg(o, "ask")) /\ Append(q, Msg(o, "ask")) \in Seq(Spoken)
      BY <2>1, <2>2, AppendIsConcat, AppendProperties
    <2>4. q \in Seq(Message)
      BY SeqMonotonic DEF Spoken
    <2>5. ASSUME NEW p PROVE Alike(q, Append(q, Msg(o, "ask")), p)
      <3>1. Aside(Msg(o, "ask"), p)
        BY <2>1, AsideOf
      <3> QED BY <2>1, <2>4, <3>1, AlikeSent
    <2> QED BY <2>3, <2>5
  <1>2. CASE o \notin {"TTYPE", "CHARSET"}
    <2>1. q \o Request(o) = q
      BY <1>2, ConcatEmptySeq DEF Request
    <2> QED BY <2>1, AlikeItself
  <1> QED BY <1>1, <1>2

\* The two together are, for every option, the verb alone.
LEMMA RepliesRequests ==
  ASSUME NEW q \in Seq(Spoken), NEW o \in Options
  PROVE  LET r == q \o (Yes(o) \o Request(o)) IN
         /\ r \in Seq(Spoken) /\ Alike(Append(q, Msg(o, "yes")), r, o)
         /\ \A p : p # o => Alike(q, r, p)
  <1> DEFINE a == Append(q, Msg(o, "yes"))
  <1>1. a = q \o Yes(o) /\ a \in Seq(Spoken) /\ \A p : p # o => Alike(q, a, p)
    BY Replies DEF Yes
  <1>2. q \o (Yes(o) \o Request(o)) = a \o Request(o)
    <2>1. Yes(o) \in Seq(Spoken) /\ Request(o) \in Seq(Spoken)
      <3>1. Msg(o, "yes") \in Spoken /\ (o \in {"TTYPE", "CHARSET"} => Msg(o, "ask") \in Spoken)
        BY DEF Msg, Spoken, Message
      <3> QED BY <3>1 DEF Yes, Request
    <2>2. q \o (Yes(o) \o Request(o)) = (q \o Yes(o)) \o Request(o)
      BY <2>1, ConcatAssociative
    <2> QED BY <1>1, <2>2
  <1>3. a \o Request(o) \in Seq(Spoken) /\ \A p : Alike(a, a \o Request(o), p)
    BY <1>1, Requests
  <1> HIDE DEF a
  <1>4. \A p : p # o => Alike(q, a \o Request(o), p)
    BY <1>1, <1>3, AlikeItself
  <1> QED BY <1>2, <1>3, <1>4 DEF a

\* An action about one option leaves the others as they were.
LEMMA Rest ==
  ASSUME NegotiationProofInv, NEW o \in Options,
         \A p \in Options \cap Known : p # o =>
           /\ server'[p] = server[p] /\ client'[p] = client[p]
           /\ Alike(toClient, toClient', p) /\ Alike(toServer, toServer', p),
         o \in Known => Fits(o, server'[o], client'[o], toClient', toServer'),
         Ranges', Wanted'
  PROVE  NegotiationProofInv'
  <1>1. ASSUME NEW p \in Options \cap Known
        PROVE  Fits(p, server'[p], client'[p], toClient', toServer')
    <2>1. CASE p = o
      BY <1>1, <2>1
    <2>2. CASE p # o
      <3>1. Fits(p, server[p], client[p], toClient, toServer)
        BY <1>1 DEF NegotiationProofInv
      <3> QED BY <1>1, <2>2, <3>1, AlikeFits
    <2> QED BY <2>1, <2>2
  <1> QED BY <1>1 DEF NegotiationProofInv

\* Changing an option keeps the states in range, and what the server wants as
\* long as it is the World that asks for the echo.
LEMMA Becomes ==
  ASSUME Ranges, Wanted, NEW o \in Options \cap Known, NEW q \in QState, Become(o, q), masked' = masked,
         o = "ECHO" => (q \in {"WantYes", "Yes"} => masked) /\ (q = "WantNo" => ~masked),
         o # "ECHO" => q # "WantNo"
  PROVE  /\ server' \in [Options \cap Known -> QState] /\ Wanted'
         /\ server'[o] = q /\ \A p \in Options \cap Known : p # o => server'[p] = server[p]
  BY DEF Ranges, Wanted, Become, Known, Opening

\* on_negotiate: a reply about one option.
LEMMA ServerReceivesStep ==
  ASSUME NegotiationProofInv, ServerReceives
  PROVE  NegotiationProofInv'
  <1>1. PICK m, o : m = Head(toServer) /\ o = m.option
    OBVIOUS
  <1> DEFINE tail == Tail(toServer)
  <1>2. /\ toServer \in Seq(Message) /\ toServer # <<>> /\ toServer' = tail /\ tail \in Seq(Message)
        /\ m \in Message /\ o \in Options /\ m = Msg(o, m.verb)
        /\ client' = client /\ masked' = masked /\ charset' \in {"Ascii", "Utf8"}
        /\ OnVerb(m)
    <2>1. toServer # <<>> /\ m \in Message /\ tail \in Seq(Message)
      BY <1>1, Received DEF ServerReceives, NegotiationProofInv, Ranges
    <2>2. m.option \in Options /\ m = Msg(m.option, m.verb)
      BY <2>1, AsideOf DEF Message
    <2>3. charset' \in {"Ascii", "Utf8"}
      BY <1>1 DEF ServerReceives, OnAnswer, NegotiationProofInv, Ranges
    <2> QED BY <1>1, <2>1, <2>2, <2>3 DEF ServerReceives, NegotiationProofInv, Ranges
  <1>3. /\ Ranges /\ Wanted /\ toClient \in Seq(Spoken)
        /\ \A p : p # o => Alike(toServer, tail, p)
        /\ m.verb \notin {"yes", "no"} => Alike(toServer, tail, o)
        /\ \A p : Alike(toClient, toClient, p)
    BY <1>1, <1>2, AsideOf, AlikeReceived, AlikeItself DEF NegotiationProofInv, Ranges
  <1> HIDE DEF tail
  <1> DEFINE Good ==
        /\ server' \in [Options \cap Known -> QState] /\ Wanted' /\ toClient' \in Seq(Spoken)
        /\ \A p \in Options \cap Known : p # o => server'[p] = server[p] /\ Alike(toClient, toClient', p)
        /\ o \in Known => Fits(o, server'[o], client[o], toClient', tail)
  <1>4. server' = server /\ toClient' = toClient
          /\ (o \in Known => Fits(o, server[o], client[o], toClient, tail)) => Good
    <2> SUFFICES ASSUME server' = server, toClient' = toClient,
                        o \in Known => Fits(o, server[o], client[o], toClient, tail)
                 PROVE  Good
      OBVIOUS
    <2>1. server' \in [Options \cap Known -> QState] /\ Wanted' /\ toClient' \in Seq(Spoken)
      BY <1>2, <1>3 DEF Ranges, Wanted
    <2> QED BY <1>3, <2>1
  <1> SUFFICES Good
    <2>1. SUFFICES ASSUME Good PROVE NegotiationProofInv'
      OBVIOUS
    <2>2. Ranges' /\ Wanted'
      BY <1>2, <1>3, <2>1 DEF Ranges
    <2> QED BY <1>2, <1>3, <2>1, <2>2, Rest
  <1> HIDE DEF Good
  <1>5. CASE o \notin Known
    <2>1. CASE m.verb = "yes"
      <3>1. server' = server /\ toClient' = toClient \o No(o)
        BY <1>1, <1>2, <1>5, <2>1 DEF OnVerb, Reply, Known, Opening
      <3>2. toClient' \in Seq(Spoken) /\ \A p : p # o => Alike(toClient, toClient', p)
        BY <1>2, <1>3, <3>1, Replies DEF No
      <3>3. server' \in [Options \cap Known -> QState] /\ Wanted'
        BY <1>2, <1>3, <3>1 DEF Ranges, Wanted
      <3> QED BY <1>5, <3>1, <3>2, <3>3 DEF Good
    <2>2. CASE m.verb # "yes"
      <3>1. server' = server /\ toClient' = toClient
        BY <1>1, <1>2, <1>5, <2>2 DEF OnVerb, Known, Opening
      <3> QED BY <1>4, <1>5, <3>1
    <2> QED BY <2>1, <2>2
  <1>6. ASSUME o \in Known
        PROVE  /\ o \in Options \cap Known /\ server[o] \in QState /\ client[o] \in QState
               /\ Fits(o, server[o], client[o], toClient, toServer) /\ toClient \in Seq(Message)
    <2>1. Spoken \subseteq Message
      BY DEF Spoken
    <2> QED BY <1>2, <1>6, <2>1, SeqMonotonic DEF NegotiationProofInv, Ranges
  <1>7. CASE o \in Known /\ m.verb \notin {"yes", "no"}
    <2>1. server' = server /\ toClient' = toClient
      BY <1>1, <1>2, <1>7 DEF OnVerb
    <2>2. Fits(o, server[o], client[o], toClient, tail)
      BY <1>3, <1>6, <1>7, AlikeFits
    <2> QED BY <1>4, <2>1, <2>2
  <1>8. CASE o \in Known /\ m.verb = "no"
    <2>1. Disable(o)
      BY <1>1, <1>2, <1>8 DEF OnVerb
    <2>2. Head(toServer) = Msg(o, "no")
      BY <1>1, <1>2, <1>8
    <2>3. CASE server[o] = "Yes"
      <3>1. Become(o, "No") /\ toClient' = toClient \o No(o)
        BY <2>1, <2>3 DEF Disable, Reply
      <3>2. /\ toClient' \in Seq(Spoken) /\ toClient' = Append(toClient, Msg(o, "no"))
            /\ \A p : p # o => Alike(toClient, toClient', p)
        BY <1>2, <1>3, <3>1, Replies DEF No
      <3>3. Fits(o, "No", client[o], toClient', tail)
        BY <1>2, <1>6, <1>8, <2>2, <2>3, <3>2, ServerHearsNo DEF tail
      <3>4. "No" \in QState
        BY DEF QState
      <3>5. /\ server' \in [Options \cap Known -> QState] /\ Wanted' /\ server'[o] = "No"
            /\ \A p \in Options \cap Known : p # o => server'[p] = server[p]
        BY <1>2, <1>3, <1>6, <1>8, <3>1, <3>4, Becomes
      <3> QED BY <1>3, <3>2, <3>3, <3>5 DEF Good
    <2>4. CASE server[o] # "Yes"
      <3>1. Become(o, "No") /\ toClient' = toClient
        BY <2>1, <2>4 DEF Disable
      <3>2. Fits(o, "No", client[o], toClient', tail)
        BY <1>2, <1>6, <1>8, <2>2, <2>4, <3>1, ServerHearsNo DEF tail
      <3>3. "No" \in QState
        BY DEF QState
      <3>4. /\ server' \in [Options \cap Known -> QState] /\ Wanted' /\ server'[o] = "No"
            /\ \A p \in Options \cap Known : p # o => server'[p] = server[p]
        BY <1>2, <1>3, <1>6, <1>8, <3>1, <3>3, Becomes
      <3> QED BY <1>3, <3>1, <3>2, <3>4 DEF Good
    <2> QED BY <2>3, <2>4
  <1>9. CASE o \in Known /\ m.verb = "yes"
    <2>1. /\ o = "ECHO" => AgreeEcho
          /\ o \in Opening => Enable(o)
          /\ o = "ECHO" \/ o \in Opening
          /\ o \in Opening => o # "ECHO"
      BY <1>1, <1>2, <1>9 DEF OnVerb, Known, Opening
    <2>2. Head(toServer) = Msg(o, "yes")
      BY <1>1, <1>2, <1>9
    <2>3. "Yes" \in QState
      BY DEF QState
    <2>4. CASE server[o] = "WantYes"
      <3>1. Become(o, "Yes") /\ (toClient' = toClient \/ toClient' = toClient \o Request(o))
        BY <2>1, <2>4 DEF AgreeEcho, Enable, Reply
      <3>2. toClient' \in Seq(Spoken) /\ \A p : Alike(toClient, toClient', p)
        BY <1>2, <1>3, <3>1, Requests
      <3>3. Fits(o, "Yes", client[o], toClient, tail)
        BY <1>2, <1>6, <1>9, <2>2, <2>4, ServerHearsYes DEF tail
      <3>4. Fits(o, "Yes", client[o], toClient', tail)
        BY <3>2, <3>3, AlikeFits, AlikeItself
      <3>5. o = "ECHO" => masked
        BY <1>2, <1>3, <2>4 DEF Wanted
      <3>6. /\ server' \in [Options \cap Known -> QState] /\ Wanted' /\ server'[o] = "Yes"
            /\ \A p \in Options \cap Known : p # o => server'[p] = server[p]
        BY <1>2, <1>3, <1>6, <1>9, <2>3, <3>1, <3>5, Becomes
      <3> QED BY <1>3, <3>2, <3>4, <3>6 DEF Good
    <2>5. CASE server[o] = "No" /\ o = "ECHO"
      <3>1. server' = server /\ toClient' = toClient \o No(o)
        BY <2>1, <2>5 DEF AgreeEcho, Reply
      <3>2. /\ toClient' \in Seq(Spoken) /\ toClient' = Append(toClient, Msg(o, "no"))
            /\ \A p : p # o => Alike(toClient, toClient', p)
        BY <1>2, <1>3, <3>1, Replies DEF No
      <3>3. Fits(o, "No", client[o], toClient', tail)
        BY <1>2, <1>6, <1>9, <2>2, <2>5, <3>2, ServerHearsYes DEF tail
      <3>4. server' \in [Options \cap Known -> QState] /\ Wanted'
        BY <1>2, <1>3, <3>1 DEF Ranges, Wanted
      <3> QED BY <2>5, <3>1, <3>2, <3>3, <3>4 DEF Good
    <2>6. CASE server[o] = "No" /\ o \in Opening
      <3>1. Become(o, "Yes") /\ toClient' = toClient \o (Yes(o) \o Request(o))
        BY <2>1, <2>6 DEF Enable, Reply
      <3>2. /\ toClient' \in Seq(Spoken) /\ Alike(Append(toClient, Msg(o, "yes")), toClient', o)
            /\ \A p : p # o => Alike(toClient, toClient', p)
        BY <1>2, <1>3, <3>1, RepliesRequests
      <3>3. Fits(o, "Yes", client[o], Append(toClient, Msg(o, "yes")), tail)
        BY <1>2, <1>6, <1>9, <2>2, <2>6, ServerHearsYes DEF tail
      <3>4. Fits(o, "Yes", client[o], toClient', tail)
        BY <3>2, <3>3, AlikeFits, AlikeItself
      <3>5. /\ server' \in [Options \cap Known -> QState] /\ Wanted' /\ server'[o] = "Yes"
            /\ \A p \in Options \cap Known : p # o => server'[p] = server[p]
        BY <1>2, <1>3, <1>6, <1>9, <2>1, <2>3, <2>6, <3>1, Becomes
      <3> QED BY <1>3, <3>2, <3>4, <3>5 DEF Good
    <2>7. CASE server[o] \in {"Yes", "WantNo"}
      <3>1. o \in Opening => server[o] # "WantNo"
        BY <1>2, <1>3 DEF Wanted
      <3>2. server' = server /\ toClient' = toClient
        BY <2>1, <2>7, <3>1 DEF AgreeEcho, Enable
      <3>3. Fits(o, server[o], client[o], toClient, tail)
        BY <1>2, <1>6, <1>9, <2>2, <2>7, ServerHearsYes DEF tail
      <3> QED BY <1>4, <3>2, <3>3
    <2> QED BY <1>6, <1>9, <2>1, <2>4, <2>5, <2>6, <2>7 DEF QState
  <1> QED BY <1>5, <1>6, <1>7, <1>8, <1>9

\* set_echo: the World's own change.
LEMMA SetEchoStep ==
  ASSUME NegotiationProofInv, SetEcho
  PROVE  NegotiationProofInv'
  <1> DEFINE o == "ECHO"
  <1>1. /\ o \in Options \cap Known /\ server[o] \in QState /\ client[o] \in QState
        /\ server \in [Options \cap Known -> QState] /\ masked \in BOOLEAN
        /\ toClient \in Seq(Spoken) /\ toClient \in Seq(Message) /\ toServer \in Seq(Message)
        /\ Fits(o, server[o], client[o], toClient, toServer)
        /\ masked' = ~masked /\ client' = client /\ toServer' = toServer /\ charset' = charset
    <2>1. o \in Options \cap Known /\ Spoken \subseteq Message
      BY DEF SetEcho, Known, Spoken
    <2>2. toClient \in Seq(Message)
      BY <2>1, SeqMonotonic DEF NegotiationProofInv, Ranges
    <2> QED BY <2>1, <2>2 DEF SetEcho, NegotiationProofInv, Ranges
  <1>2. CASE server[o] \in {"Yes", "WantYes"}
    <2>1. masked /\ Become(o, "WantNo") /\ toClient' = toClient \o No(o)
      BY <1>1, <1>2 DEF SetEcho, RestoreEcho, SuppressEcho, Reply, NegotiationProofInv, Wanted
    <2>2. /\ toClient' \in Seq(Spoken) /\ toClient' = Append(toClient, Msg(o, "no"))
          /\ \A p : p # o => Alike(toClient, toClient', p)
      BY <1>1, <2>1, Replies DEF No
    <2>3. Fits(o, "WantNo", client[o], toClient', toServer)
      BY <1>1, <1>2, <2>2, ServerAsks
    <2>4. /\ server' \in [Options \cap Known -> QState] /\ server'[o] = "WantNo"
          /\ \A p \in Options \cap Known : p # o => server'[p] = server[p]
      BY <1>1, <2>1 DEF Become, QState
    <2>5. Ranges' /\ Wanted'
      BY <1>1, <2>1, <2>2, <2>4 DEF NegotiationProofInv, Ranges, Wanted, Known, Opening
    <2> QED BY <1>1, <2>2, <2>3, <2>4, <2>5, AlikeItself, Rest
  <1>3. CASE server[o] \in {"No", "WantNo"} /\ ~masked
    <2>1. Become(o, "WantYes") /\ toClient' = toClient \o Yes(o)
      BY <1>1, <1>3 DEF SetEcho, SuppressEcho, Reply
    <2>2. /\ toClient' \in Seq(Spoken) /\ toClient' = Append(toClient, Msg(o, "yes"))
          /\ \A p : p # o => Alike(toClient, toClient', p)
      BY <1>1, <2>1, Replies DEF Yes
    <2>3. Fits(o, "WantYes", client[o], toClient', toServer)
      BY <1>1, <1>3, <2>2, ServerAsks
    <2>4. /\ server' \in [Options \cap Known -> QState] /\ server'[o] = "WantYes"
          /\ \A p \in Options \cap Known : p # o => server'[p] = server[p]
      BY <1>1, <2>1 DEF Become, QState
    <2>5. Ranges' /\ Wanted'
      BY <1>1, <1>3, <2>2, <2>4 DEF NegotiationProofInv, Ranges, Wanted, Known, Opening
    <2> QED BY <1>1, <2>2, <2>3, <2>4, <2>5, AlikeItself, Rest
  <1>4. CASE server[o] \in {"No", "WantNo"} /\ masked
    <2>1. server[o] = "No" /\ server' = server /\ toClient' = toClient
      BY <1>1, <1>4 DEF SetEcho, RestoreEcho, NegotiationProofInv, Wanted
    <2>2. Ranges' /\ Wanted'
      BY <1>1, <1>4, <2>1 DEF NegotiationProofInv, Ranges, Wanted
    <2> QED BY <1>1, <2>1, <2>2, AlikeItself, Rest
  <1> QED BY <1>1, <1>2, <1>3, <1>4 DEF QState

\* The client's answer to one verb or request.
LEMMA ClientReceivesStep ==
  ASSUME NegotiationProofInv, ClientReceives
  PROVE  NegotiationProofInv'
  <1>1. PICK m, o, v : m = Head(toClient) /\ o = m.option /\ v = m.verb
    OBVIOUS
  <1> DEFINE tail == Tail(toClient)
  <1>2. Spoken \subseteq Message
    BY DEF Spoken
  <1>3. /\ toClient \in Seq(Spoken) /\ toClient \in Seq(Message) /\ toClient # <<>>
        /\ toServer \in Seq(Message) /\ toClient' = tail /\ tail \in Seq(Spoken)
        /\ server' = server /\ charset' = charset /\ masked' = masked
        /\ client \in [Options -> QState] /\ ClientHears(o, v)
    BY <1>1, <1>2, SeqMonotonic, HeadTailProperties DEF ClientReceives, NegotiationProofInv, Ranges
  <1>4. m \in Spoken /\ m \in Message /\ o \in Options /\ m = Msg(o, v) /\ v \in {"yes", "no", "ask"}
    <2>1. m \in Spoken
      BY <1>1, <1>3, HeadTailProperties
    <2> QED BY <1>1, <1>2, <2>1, AsideOf DEF Spoken, Message
  <1>5. /\ \A p : p # o => Alike(toClient, tail, p)
        /\ v = "ask" => Alike(toClient, tail, o)
    BY <1>1, <1>3, <1>4, AsideOf, AlikeReceived
  <1>6. o \in Known => /\ o \in Options \cap Known /\ server[o] \in QState
                       /\ Fits(o, server[o], client[o], toClient, toServer)
    BY <1>4 DEF NegotiationProofInv, Ranges
  <1>7. client[o] \in QState /\ Head(toClient) = Msg(o, v)
    BY <1>1, <1>3, <1>4
  <1> HIDE DEF tail
  <1> DEFINE Good ==
        /\ client' \in [Options -> QState] /\ toServer' \in Seq(Message)
        /\ \A p \in Options : p # o => client'[p] = client[p] /\ Alike(toServer, toServer', p)
        /\ o \in Known => Fits(o, server[o], client'[o], tail, toServer')
  <1> SUFFICES Good
    <2>1. SUFFICES ASSUME Good PROVE NegotiationProofInv'
      OBVIOUS
    <2>2. Ranges' /\ Wanted'
      BY <1>3, <2>1 DEF NegotiationProofInv, Ranges, Wanted
    <2> QED BY <1>3, <1>4, <1>5, <2>1, <2>2, Rest
  \* Where it stays, and where it goes, without a word or with one.
  <1>8. client' = client /\ toServer' = toServer
          /\ (o \in Known => Fits(o, server[o], client[o], tail, toServer)) => Good
    BY <1>3, AlikeItself
  <1>9. ASSUME NEW q \in QState, ClientBecomes(o, q)
        PROVE  /\ client' \in [Options -> QState] /\ client'[o] = q
               /\ \A p \in Options : p # o => client'[p] = client[p]
    BY <1>3, <1>4, <1>9 DEF ClientBecomes
  <1>10. ASSUME NEW w \in {"yes", "no", "accepted", "rejected"}, Answer(<<Msg(o, w)>>)
         PROVE  /\ toServer' = Append(toServer, Msg(o, w)) /\ toServer' \in Seq(Message)
                /\ \A p : p # o => Alike(toServer, toServer', p)
                /\ w \notin {"yes", "no"} => Alike(toServer, toServer', o)
    <2>1. Msg(o, w) \in Message /\ Msg(o, w).option = o /\ Msg(o, w).verb = w
      BY <1>4, <1>10 DEF Msg, Message
    <2>2. toServer' = Append(toServer, Msg(o, w)) /\ toServer' \in Seq(Message)
      BY <1>3, <1>10, <2>1, Sent DEF Answer
    <2>3. /\ \A p : p # o => Aside(Msg(o, w), p)
          /\ w \notin {"yes", "no"} => Aside(Msg(o, w), o)
      BY <2>1, AsideOf
    <2> QED BY <1>3, <2>1, <2>2, <2>3, AlikeSent
  <1>11. Answer(<<>>) => toServer' = toServer
    BY <1>3, ConcatEmptySeq DEF Answer
  <1> HIDE DEF Good
  <1>12. QState = {"No", "WantYes", "Yes", "WantNo"} /\ \A p : Alike(toServer, toServer, p)
    BY AlikeItself DEF QState
  <1>13. CASE v = "ask"
    <2>1. PICK a \in {"accepted", "rejected"} : Answer(<<Msg(o, a)>>) /\ client' = client
      BY <1>3, <1>13 DEF ClientHears
    <2>2. toServer' \in Seq(Message) /\ \A p : Alike(toServer, toServer', p)
      BY <1>10, <2>1
    <2>3. o \in Known => Fits(o, server[o], client[o], tail, toServer')
      BY <1>5, <1>6, <1>13, <2>2, AlikeFits
    <2> QED BY <1>3, <2>1, <2>2, <2>3 DEF Good
  <1>14. CASE v = "yes" /\ client[o] = "No"
    <2>1. CASE ClientBecomes(o, "Yes") /\ Answer(<<Msg(o, "yes")>>)
      <3>1. o \in Known => Fits(o, server[o], "Yes", tail, toServer')
        BY <1>3, <1>6, <1>7, <1>10, <1>12, <1>14, <2>1, ClientHearsYes DEF tail
      <3> QED BY <1>9, <1>10, <1>12, <2>1, <3>1 DEF Good
    <2>2. CASE client' = client /\ Answer(<<Msg(o, "no")>>)
      <3>1. o \in Known => Fits(o, server[o], "No", tail, toServer')
        BY <1>3, <1>6, <1>7, <1>10, <1>12, <1>14, <2>2, ClientHearsYes DEF tail
      <3> QED BY <1>3, <1>10, <1>14, <2>2, <3>1 DEF Good
    <2> QED BY <1>3, <1>14, <2>1, <2>2 DEF ClientHears, Yes, No
  <1>15. CASE v = "yes" /\ client[o] = "WantYes"
    <2>1. ClientBecomes(o, "Yes") /\ toServer' = toServer
      BY <1>3, <1>11, <1>15 DEF ClientHears
    <2>2. o \in Known => Fits(o, server[o], "Yes", tail, toServer)
      BY <1>3, <1>6, <1>7, <1>15, ClientHearsYes DEF tail
    <2> QED BY <1>3, <1>9, <1>12, <2>1, <2>2 DEF Good
  <1>16. CASE v = "yes" /\ client[o] \in {"Yes", "WantNo"}
    <2>1. client' = client /\ toServer' = toServer
      BY <1>3, <1>11, <1>16 DEF ClientHears
    <2>2. o \in Known => Fits(o, server[o], client[o], tail, toServer)
      BY <1>3, <1>6, <1>7, <1>16, ClientHearsYes DEF tail
    <2> QED BY <1>8, <2>1, <2>2
  <1>17. CASE v = "no" /\ client[o] = "Yes"
    <2>1. ClientBecomes(o, "No") /\ Answer(<<Msg(o, "no")>>)
      BY <1>3, <1>17 DEF ClientHears, No
    <2>2. o \in Known => Fits(o, server[o], "No", tail, toServer')
      BY <1>3, <1>6, <1>7, <1>10, <1>17, <2>1, ClientHearsNo DEF tail
    <2> QED BY <1>9, <1>10, <1>12, <2>1, <2>2 DEF Good
  <1>18. CASE v = "no" /\ client[o] \in {"WantYes", "WantNo"}
    <2>1. ClientBecomes(o, "No") /\ toServer' = toServer
      BY <1>3, <1>11, <1>18 DEF ClientHears
    <2>2. o \in Known => Fits(o, server[o], "No", tail, toServer)
      BY <1>3, <1>6, <1>7, <1>18, ClientHearsNo DEF tail
    <2> QED BY <1>3, <1>9, <1>12, <2>1, <2>2 DEF Good
  <1>19. CASE v = "no" /\ client[o] = "No"
    <2>1. client' = client /\ toServer' = toServer
      BY <1>3, <1>11, <1>19 DEF ClientHears
    <2>2. o \in Known => Fits(o, server[o], client[o], tail, toServer)
      BY <1>3, <1>6, <1>7, <1>19, ClientHearsNo DEF tail
    <2> QED BY <1>8, <2>1, <2>2
  <1> QED BY <1>4, <1>7, <1>12, <1>13, <1>14, <1>15, <1>16, <1>17, <1>18, <1>19

\* The client's own change.
LEMMA WhimStep ==
  ASSUME NegotiationProofInv, NEW o \in Options, Whim(o)
  PROVE  NegotiationProofInv'
  <1>1. PICK v \in {"yes", "no"}, q \in {"WantYes", "WantNo"} :
          /\ client[o] = IF v = "yes" THEN "No" ELSE "Yes"
          /\ q = IF v = "yes" THEN "WantYes" ELSE "WantNo"
          /\ ClientBecomes(o, q) /\ toServer' = toServer \o <<Msg(o, v)>>
    BY DEF Whim, Answer, Yes, No
  <1>2. /\ toServer \in Seq(Message) /\ toClient' = toClient /\ server' = server
        /\ charset' = charset /\ masked' = masked
        /\ client \in [Options -> QState] /\ client[o] \in QState
        /\ toClient \in Seq(Message)
    <2>1. Spoken \subseteq Message
      BY DEF Spoken
    <2> QED BY <2>1, SeqMonotonic DEF Whim, NegotiationProofInv, Ranges
  <1>3. /\ Msg(o, v) \in Message /\ Msg(o, v).option = o
        /\ \A p : p # o => Aside(Msg(o, v), p)
    BY AsideOf DEF Msg, Message
  <1>4. /\ toServer' = Append(toServer, Msg(o, v)) /\ toServer' \in Seq(Message)
        /\ \A p : p # o => Alike(toServer, toServer', p)
    <2>1. toServer' = Append(toServer, Msg(o, v)) /\ toServer' \in Seq(Message)
      BY <1>1, <1>2, <1>3, Sent
    <2>2. ASSUME NEW p, p # o PROVE Alike(toServer, Append(toServer, Msg(o, v)), p)
      <3>1. Aside(Msg(o, v), p)
        BY <1>3, <2>2
      <3> QED BY <1>2, <1>3, <3>1, AlikeSent
    <2> QED BY <2>1, <2>2
  <1>5. /\ client' \in [Options -> QState] /\ client'[o] = q
        /\ \A p \in Options : p # o => client'[p] = client[p]
    BY <1>1, <1>2 DEF ClientBecomes, QState
  <1>6. ASSUME o \in Known PROVE Fits(o, server[o], q, toClient, toServer')
    <2>1. server[o] \in QState /\ Fits(o, server[o], client[o], toClient, toServer)
      BY <1>6 DEF NegotiationProofInv, Ranges
    <2> QED BY <1>1, <1>2, <1>4, <2>1, ClientAsks
  <1>7. Ranges' /\ Wanted'
    BY <1>2, <1>4, <1>5 DEF NegotiationProofInv, Ranges, Wanted
  <1> QED BY <1>2, <1>4, <1>5, <1>6, <1>7, AlikeItself, Rest

-----------------------------------------------------------------------------
\* Offers under way: of each option of P in play, and nothing said against any.
Offered(q, P) ==
  /\ q \in Seq(Spoken)
  /\ \A o : ~Said(q, o, "no")
  /\ \A o \in Options \cap P : Said(q, o, "yes")

\* One more offer of Negotiator::new is one more option under way.
LEMMA OneMoreOffer ==
  ASSUME NEW q, NEW P, NEW p \in Known, Offered(q, P)
  PROVE  Offered(q \o Offer(p), P \union {p})
  <1>1. CASE p \in Options
    <2>1. q \in Seq(Spoken) /\ Offer(p) = <<Msg(p, "yes")>>
      BY <1>1 DEF Offered, Offer, Yes
    <2>2. /\ q \o Offer(p) = Append(q, Msg(p, "yes")) /\ Append(q, Msg(p, "yes")) \in Seq(Spoken)
          /\ q \in Seq(Message)
      BY <1>1, <2>1, Replies
    <2>3. PICK x \in Message : x = Msg(p, "yes")
      BY <1>1 DEF Msg, Message
    <2>4. \A o, v : Said(Append(q, x), o, v) <=> Said(q, o, v) \/ x = Msg(o, v)
      BY <2>2, Sent
    <2>5. \A o : x # Msg(o, "no")
      BY <2>3 DEF Msg
    <2>6. Offered(Append(q, x), P \union {p})
      BY <2>2, <2>3, <2>4, <2>5 DEF Offered
    <2> QED BY <2>2, <2>3, <2>6
  <1>2. CASE p \notin Options
    <2>1. q \o Offer(p) = q
      BY <1>2, ConcatEmptySeq DEF Offer, Offered
    <2> QED BY <1>2, <2>1 DEF Offered
  <1> QED BY <1>1, <1>2

\* Negotiator::new: an offer is under way for each option the server opens with.
LEMMA NegotiationStart == Init => NegotiationProofInv
  <1> SUFFICES ASSUME Init PROVE NegotiationProofInv
    OBVIOUS
  <1>1. Offered(toClient, Opening)
    <2>1. Offered(<<>>, {})
      BY Nothing, EmptySeq DEF Offered
    <2>2. Offered(Offer("NAWS"), {"NAWS"})
      <3>1. Offered(<<>> \o Offer("NAWS"), {} \union {"NAWS"})
        BY <2>1, OneMoreOffer DEF Known, Opening
      <3>2. Offer("NAWS") \in Seq({Msg("NAWS", "yes")})
        <4>1. <<>> \in Seq({Msg("NAWS", "yes")}) /\ <<Msg("NAWS", "yes")>> \in Seq({Msg("NAWS", "yes")})
          <5> DEFINE x == Msg("NAWS", "yes")
          <5> HIDE DEF x
          <5>1. <<>> \in Seq({x}) /\ <<x>> \in Seq({x})
            BY EmptySeq
          <5> QED BY <5>1 DEF x
        <4> QED BY <4>1 DEF Offer, Yes
      <3>3. <<>> \o Offer("NAWS") = Offer("NAWS")
        BY <3>2, ConcatEmptySeq
      <3>4. {} \union {"NAWS"} = {"NAWS"}
        OBVIOUS
      <3> QED BY <3>1, <3>3, <3>4
    <2>3. Offered(Offer("NAWS") \o Offer("TTYPE"), {"NAWS"} \union {"TTYPE"})
      BY <2>2, OneMoreOffer DEF Known, Opening
    <2>4. Offered(Offer("NAWS") \o Offer("TTYPE") \o Offer("EOR"), {"NAWS"} \union {"TTYPE"} \union {"EOR"})
      BY <2>3, OneMoreOffer DEF Known, Opening
    <2>5. Offered(toClient, {"NAWS"} \union {"TTYPE"} \union {"EOR"} \union {"CHARSET"})
      BY <2>4, OneMoreOffer DEF Init, Known, Opening
    <2>6. {"NAWS"} \union {"TTYPE"} \union {"EOR"} \union {"CHARSET"} = Opening
      BY DEF Opening
    <2> QED BY <2>5, <2>6
  <1>2. Ranges
    <2>1. toServer \in Seq(Message)
      BY EmptySeq DEF Init
    <2> QED BY <1>1, <2>1 DEF Init, Ranges, Offered, QState
  <1>3. Wanted
    BY DEF Init, Wanted, Known, Opening
  <1>4. ASSUME NEW o \in Options \cap Known
        PROVE  Fits(o, server[o], client[o], toClient, toServer)
    <2>1. /\ client[o] = "No" /\ toServer = <<>> /\ ~Said(toClient, o, "no")
          /\ IF o \in Opening THEN server[o] = "WantYes" /\ Said(toClient, o, "yes")
                              ELSE server[o] = "No"
      BY <1>1, <1>4 DEF Init, Offered, Known, Opening
    <2> QED BY <2>1, Nothing, Follows DEF Fits, LastWords, Pending, Silent
  <1> QED BY <1>2, <1>3, <1>4 DEF NegotiationProofInv

\* Every step keeps it.
LEMMA NegotiationStep == NegotiationProofInv /\ [Next]_vars => NegotiationProofInv'
  <1>1. ASSUME NegotiationProofInv, UNCHANGED vars PROVE NegotiationProofInv'
    BY <1>1 DEF vars, NegotiationProofInv, Ranges, Wanted
  <1> QED BY <1>1, ServerReceivesStep, SetEchoStep, ClientReceivesStep, WhimStep DEF Next

\* Where the two ends of a connection differ about an option, a verb under way
\* will make them agree; and the server's wish about the echo is the World's
\* (negotiation.rs, on_negotiate, enable, disable and set_echo).
THEOREM NegotiationCorrect == Spec => []NegotiationProofInv
  BY NegotiationStart, NegotiationStep, PTL DEF Spec

\* At rest: with nothing under way both ends agree, and the echo is the World's.
LEMMA AtRest ==
  ASSUME NegotiationProofInv
  PROVE  NegotiationInv /\ EchoRestored
  <1>1. NegotiationTypeOK
    <2>1. \A n \in 1 .. Len(toClient) : toClient[n] \in Spoken
      BY ElementOfSeq DEF NegotiationProofInv, Ranges
    <2> QED BY <2>1 DEF NegotiationTypeOK, NegotiationProofInv, Ranges, Spoken, Message
  <1>2. ASSUME Quiet, NEW o \in Options \cap Known
        PROVE  /\ client[o] \in {"No", "Yes"}
               /\ server[o] = "Yes" <=> client[o] = "Yes"
    <2>1. /\ toClient = <<>> /\ toServer = <<>> /\ server[o] \in QState /\ client[o] \in QState
          /\ Fits(o, server[o], client[o], toClient, toServer)
      BY <1>2 DEF Quiet, NegotiationProofInv, Ranges
    <2> QED BY <2>1, Nothing DEF Fits, LastWords, Pending, Silent, QState
  <1>3. EchoRestored
    BY <1>2 DEF EchoRestored, Known, NegotiationProofInv, Wanted
  <1> QED BY <1>1, <1>2, <1>3 DEF NegotiationInv, Agreement

\* The ranges hold, a request is only ever about TTYPE or CHARSET, and with no
\* verb under way both ends have settled every option alike, however requests
\* crossed (negotiation.rs, on_negotiate).
THEOREM NegotiationSound == Spec => []NegotiationInv
  BY NegotiationCorrect, AtRest, PTL

\* Between passwords, with no verb under way, the client's echo is its own
\* (negotiation.rs, set_echo).
THEOREM NegotiationEchoRestored == Spec => []EchoRestored
  BY NegotiationCorrect, AtRest, PTL
=============================================================================
