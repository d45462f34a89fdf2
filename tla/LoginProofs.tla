----------------------------- MODULE LoginProofs -----------------------------
(***************************************************************************)
(* Proofs about the login of any number of sessions against any number of  *)
(* accounts and puppets, the backend failing each effect or not.  What the *)
(* inductive invariant adds is what a session's machine, the effect being  *)
(* performed for it and the password it last gave know of one another.     *)
(***************************************************************************)
EXTENDS Login, FiniteSetTheorems, SequenceTheorems, TLAPS

\* The rows.  Keys are handed out in order, and nobody takes a name twice.
RowsOK ==
  /\ accounts \subseteq [id : Ids, username : Usernames, password : Passwords,
                         state : AccountStates]
  /\ \A r, q \in accounts : r.username = q.username => r = q
  /\ puppets \subseteq [key : Keys, account : Ids, name : Names]
  /\ IsFiniteSet(puppets) /\ \A p \in puppets : p.key <= Cardinality(puppets)
  /\ resident \subseteq {p.key : p \in puppets}

\* What each state holds.
Shape(st) ==
  \/ st.at \in {"Absent", "Anon", "AwaitingAuth", "AwaitingRegister"} /\ st = At(st.at)
  \/ st.at = "LoginPassword" /\ st = LoginPassword(st.username) /\ st.username \in Usernames
  \/ st.at = "RegisterPassword" /\ st = RegisterPassword(st.username) /\ st.username \in Usernames
  \/ /\ st.at = "RegisterConfirm" /\ st = RegisterConfirm(st.username, st.password)
     /\ st.username \in Usernames /\ st.password \in Passwords
  \/ st.at = "PuppetSelect" /\ st = PuppetSelect(st.account, st.puppets)
  \/ st.at = "AwaitingCreate" /\ st = AwaitingCreate(st.account, st.puppets)
  \/ st.at = "AwaitingEnter" /\ st = AwaitingEnter(st.account, st.puppets, st.chosen)
  \/ st.at = "InWorld" /\ st = InWorld(st.account, st.puppet)

\* The account is active, and claimed by its own username and password.
Proved(rows, a, cl) ==
  \E r \in rows : r.id = a /\ r.state = "active" /\ cl = <<r.username, r.password>>

\* A list of keys of one account, oldest first.
Owns(rows, a, k) == \E p \in rows : p.key = k /\ p.account = a
Lists(rows, a, list) ==
  /\ list \in Seq(Keys)
  /\ \A n \in 1 .. Len(list) : Owns(rows, a, list[n])
  /\ \A m, n \in 1 .. Len(list) : m < n => list[m] < list[n]

\* A session in state st with effect eff under way and claim cl fits the rows.
Fits(accs, pups, res, st, eff, cl) ==
  /\ Shape(st)
  /\ st.at \in {"PuppetSelect", "AwaitingCreate", "AwaitingEnter", "InWorld"} =>
       Proved(accs, st.account, cl) /\ st.account \in Ids
  /\ st.at \in {"PuppetSelect", "AwaitingCreate", "AwaitingEnter"} =>
       Lists(pups, st.account, st.puppets)
  /\ st.at = "AwaitingEnter" => st.chosen \in Matches(st.puppets)
  /\ st.at = "InWorld" => Owns(pups, st.account, st.puppet) /\ st.puppet \in res
  /\ st.at = "AwaitingAuth" =>
       \E u \in Usernames, pw \in Passwords :
         eff = [kind |-> "Authenticate", username |-> u, password |-> pw] /\ cl = <<u, pw>>
  /\ st.at = "AwaitingRegister" =>
       \E u \in Usernames, pw \in Passwords :
         eff = [kind |-> "Register", username |-> u, password |-> pw] /\ cl = <<u, pw>>
  /\ st.at = "AwaitingCreate" =>
       /\ \E nm \in Names : eff = [kind |-> "CreatePuppet", account |-> st.account, name |-> nm]
       /\ Cardinality(pups) < MaxPuppets
  /\ st.at = "AwaitingEnter" =>
       eff = [kind |-> "Enter", account |-> st.account, puppet |-> st.chosen]
  /\ ~Awaiting(st) => eff = NoEffect

\* The effect under way is that of the session being driven.
EffectOf(s) == IF driving = s THEN effect ELSE NoEffect
SessionsOK ==
  /\ driving \in Sids \union {NoOne} /\ (driving = NoOne => effect = NoEffect)
  /\ DOMAIN state = Sids /\ state = [s \in Sids |-> state[s]]
  /\ claim = [s \in Sids |-> claim[s]]
  /\ \A s \in Sids : Fits(accounts, puppets, resident, state[s], EffectOf(s), claim[s])
  /\ driving # NoOne => Awaiting(state[driving])

\* A line is answered by one block; a block with a prompt is that prompt alone.
OutputsOK ==
  /\ echo \in [Sids -> {"Enabled", "Suppressed"}]
  /\ pending \in {<<>>, <<"Line">>} /\ (pending # <<>> => effect.kind = "Enter")
  /\ driving # NoOne => outputs = <<>>
  /\ \/ outputs = <<>>
     \/ \E e \in {"Enabled", "Suppressed"} :
          outputs \in {<<[kinds |-> <<"Line">>, echo |-> e]>>,
                       <<[kinds |-> <<"Line", "Line">>, echo |-> e]>>,
                       <<[kinds |-> <<"Prompt">>, echo |-> "Suppressed"]>>}

LoginProofInv == RowsOK /\ SessionsOK /\ OutputsOK /\ EchoFollowsState

-----------------------------------------------------------------------------
\* The n-th oldest of a finite set of keys: every place of the list is taken by
\* one key, and later places by later keys.
LEMMA OldestFirstSorted ==
  ASSUME NEW S \in SUBSET Nat, IsFiniteSet(S)
  PROVE  /\ OldestFirst(S) \in Seq(S)
         /\ \A m, n \in 1 .. Len(OldestFirst(S)) :
              m < n => OldestFirst(S)[m] < OldestFirst(S)[n]
  <1> DEFINE below(k) == {j \in S : j < k}
             size == Cardinality(S)
             rank == [k \in S |-> Cardinality(below(k)) + 1]
             list == OldestFirst(S)
  <1>1. size \in Nat /\ \A k \in S : IsFiniteSet(below(k)) /\ Cardinality(below(k)) \in Nat
    <2>1. ASSUME NEW k \in S PROVE IsFiniteSet(below(k)) /\ Cardinality(below(k)) \in Nat
      <3>1. below(k) \in SUBSET S
        OBVIOUS
      <3> QED BY <3>1, FS_Subset, FS_CardinalityType
    <2> QED BY <2>1, FS_CardinalityType
  <1>2. \A k \in S : rank[k] \in 1 .. size
    <2> SUFFICES ASSUME NEW k \in S PROVE Cardinality(below(k)) + 1 \in 1 .. size
      OBVIOUS
    <2>1. below(k) \in SUBSET (S \ {k})
      OBVIOUS
    <2>2. IsFiniteSet(S \ {k}) /\ Cardinality(S \ {k}) = size - 1
      BY FS_RemoveElement
    <2>3. Cardinality(below(k)) <= Cardinality(S \ {k})
      BY <2>1, <2>2, FS_Subset
    <2>4. Cardinality(below(k)) \in Nat /\ size \in Nat
      BY <1>1
    <2> HIDE DEF below, size
    <2> QED BY <2>2, <2>3, <2>4
  <1>3. ASSUME NEW j \in S, NEW k \in S, j < k
        PROVE  rank[j] < rank[k]
    <2>1. below(j) \in SUBSET (below(k) \ {j}) /\ j \in below(k)
      <3>1. \A i \in S : i < j => i < k /\ i # j
        BY <1>3
      <3>2. below(j) \in SUBSET (below(k) \ {j})
        BY <3>1
      <3> QED BY <1>3, <3>2
    <2>2. IsFiniteSet(below(k) \ {j}) /\ Cardinality(below(k) \ {j}) = Cardinality(below(k)) - 1
      BY <1>1, <2>1, FS_RemoveElement
    <2>3. Cardinality(below(j)) <= Cardinality(below(k) \ {j})
      BY <2>1, <2>2, FS_Subset
    <2> QED BY <1>1, <2>2, <2>3
  <1>4. \A n \in 1 .. size : \E k \in S : rank[k] = n
    <2>1. \A j, k \in S : rank[j] = rank[k] => j = k
      <3> SUFFICES ASSUME NEW j \in S, NEW k \in S, rank[j] = rank[k], j # k PROVE FALSE
        OBVIOUS
      <3>1. j < k \/ k < j
        OBVIOUS
      <3>2. rank[j] < rank[k] \/ rank[k] < rank[j]
        BY <1>3, <3>1
      <3>3. rank[j] \in Nat /\ rank[k] \in Nat
        BY <1>2
      <3> QED BY <3>2, <3>3
    <2>2. rank \in [S -> 1 .. size]
      BY <1>2
    <2>3. rank \in Injection(S, 1 .. size)
      BY <2>1, <2>2 DEF Injection, IsInjective
    <2>4. IsFiniteSet(1 .. size) /\ Cardinality(1 .. size) = size
      BY <1>1, FS_Interval
    <2>5. rank \in Surjection(S, 1 .. size)
      BY <2>3, <2>4, FS_Injection
    <2> QED BY <2>5 DEF Surjection
  <1>5. \A n \in 1 .. size : list[n] \in S /\ rank[list[n]] = n
    <2> SUFFICES ASSUME NEW n \in 1 .. size PROVE list[n] \in S /\ rank[list[n]] = n
      OBVIOUS
    <2>1. \E k \in S : Cardinality(below(k)) = n - 1
      <3>1. PICK k \in S : Cardinality(below(k)) + 1 = n
        BY <1>4
      <3>2. Cardinality(below(k)) \in Nat
        BY <1>1
      <3> HIDE DEF below
      <3> QED BY <3>1, <3>2
    <2>2. list[n] = CHOOSE k \in S : Cardinality(below(k)) = n - 1
      BY DEF OldestFirst
    <2>3. list[n] \in S /\ Cardinality(below(list[n])) = n - 1
      BY <2>1, <2>2
    <2>4. n - 1 + 1 = n
      BY <1>1
    <2> QED BY <2>3, <2>4
  <1>6. list \in [1 .. size -> S]
    BY <1>5 DEF OldestFirst
  <1> HIDE DEF size, rank, list
  <1>7. list \in Seq(S)
    BY <1>1, <1>6, SeqDef
  <1>8. Len(list) = size
    BY <1>1, <1>6, <1>7, LenProperties
  <1>9. \A m, n \in 1 .. Len(list) : m < n => list[m] < list[n]
    <2> SUFFICES ASSUME NEW m \in 1 .. size, NEW n \in 1 .. size, m < n PROVE list[m] < list[n]
      BY <1>8
    <2>1. list[m] \in S /\ list[n] \in S /\ list[m] # list[n] /\ ~(rank[list[n]] < rank[list[m]])
      BY <1>1, <1>5
    <2>2. ~(list[n] < list[m])
      BY <1>3, <2>1
    <2>3. list[m] \in Nat /\ list[n] \in Nat
      BY <2>1
    <2> QED BY <2>1, <2>2, <2>3
  <1> QED BY <1>7, <1>9 DEF list

\* Rows are only added, so a session that waits for nothing fits on.
LEMMA FitsGrows ==
  ASSUME NEW accs, NEW pups, NEW res, NEW accs2, NEW pups2, NEW res2, NEW st, NEW cl,
         accs \subseteq accs2, pups \subseteq pups2, res \subseteq res2,
         ~Awaiting(st), Fits(accs, pups, res, st, NoEffect, cl)
  PROVE  Fits(accs2, pups2, res2, st, NoEffect, cl)
  <1>1. ASSUME NEW a, NEW k, Owns(pups, a, k) PROVE Owns(pups2, a, k)
    BY <1>1 DEF Owns
  <1>2. ASSUME NEW a, NEW list, Lists(pups, a, list) PROVE Lists(pups2, a, list)
    BY <1>1, <1>2 DEF Lists
  <1>3. ASSUME NEW a, Proved(accs, a, cl) PROVE Proved(accs2, a, cl)
    BY <1>3 DEF Proved
  <1> QED BY <1>1, <1>2, <1>3 DEF Fits, Awaiting

\* No backend row is taken twice, so there is an id left for a name not taken.
LEMMA AccountRoom ==
  ASSUME RowsOK, NEW u \in Usernames, \A r \in accounts : r.username # u
  PROVE  Cardinality(accounts) + 1 \in Ids
  <1> DEFINE f == [r \in accounts |-> r.username]
             others == Usernames \ {u}
  <1>1. IsFiniteSet(others) /\ Cardinality(others) = Cardinality(Usernames) - 1
    BY LoginAssumption, FS_RemoveElement
  <1>2. f \in Injection(accounts, others)
    BY DEF RowsOK, Injection, IsInjective
  <1>3. IsFiniteSet(accounts) /\ Cardinality(accounts) <= Cardinality(others)
    BY <1>1, <1>2, FS_Injection
  <1>4. Cardinality(accounts) \in Nat /\ Cardinality(Usernames) \in Nat
    BY <1>3, LoginAssumption, FS_CardinalityType
  <1> QED BY <1>1, <1>3, <1>4 DEF Ids

-----------------------------------------------------------------------------
\* A transition the driver may take: a prompt comes alone, from a state that
\* collects a secret, and a line goes before an effect only on the way in.
Sound(t) ==
  /\ t.messages \in {<<>>, <<"Line">>, <<"Prompt">>}
  /\ t.terminal \in {"None", "Closed", "Bound"}
  /\ t.messages = <<"Prompt">> => CollectsSecret(t.state) /\ t.effect = NoEffect
                                  /\ t.terminal = "None"
  /\ t.terminal # "None" => t.effect = NoEffect /\ ~CollectsSecret(t.state)
  /\ t.effect # NoEffect => /\ Awaiting(t.state)
                            /\ t.messages = <<>> \/ (t.messages = <<"Line">> /\ t.effect.kind = "Enter")

\* What a line already pending makes of nothing more and of a second line.
LEMMA LineBlocks == <<"Line">> \o <<>> = <<"Line">> /\ <<"Line">> \o <<"Line">> = <<"Line", "Line">>
  <1> DEFINE S == {"Line"}
  <1>1. <<>> \in Seq(S) /\ <<"Line">> \in Seq(S) /\ "Line" \in S
    OBVIOUS
  <1>2. <<"Line">> \o <<>> = <<"Line">>
    BY <1>1, ConcatEmptySeq
  <1>3. Append(<<"Line">>, "Line") = <<"Line">> \o <<"Line">>
    BY <1>1, AppendIsConcat
  <1>4. Append(<<"Line">>, "Line") = <<"Line", "Line">>
    <2>1. /\ <<"Line", "Line">> \in Seq(S) /\ Len(<<"Line", "Line">>) = 2 /\ Len(<<"Line">>) = 1
          /\ <<"Line">>[1] = "Line" /\ <<"Line", "Line">>[1] = "Line" /\ <<"Line", "Line">>[2] = "Line"
      OBVIOUS
    <2>2. Append(<<"Line">>, "Line") \in Seq(S) /\ Len(Append(<<"Line">>, "Line")) = 2
      BY <1>1, <2>1, AppendProperties
    <2>3. \A i \in 1 .. 2 : Append(<<"Line">>, "Line")[i] = "Line"
      BY <1>1, <2>2, ElementOfSeq
    <2>4. \A i \in 1 .. 2 : <<"Line", "Line">>[i] = "Line"
      BY <2>1
    <2> QED BY <2>1, <2>2, <2>3, <2>4, SeqEqual
  <1> QED BY <1>2, <1>3, <1>4

\* One turn of drive: if the session fits its next state, everything else is in
\* order whatever the transition.
LEMMA DriveStep ==
  ASSUME SessionsOK, OutputsOK, EchoFollowsState,
         NEW s \in Sids, NEW t, NEW held \in {<<>>, <<"Line">>},
         driving \in {NoOne, s}, state[s].at # "Absent",
         Drive(s, t, <<>>, held), Sound(t), DOMAIN claim' = Sids,
         \A d \in Sids \ {s} : claim'[d] = claim[d], claim' = [d \in Sids |-> claim'[d]],
         held # <<>> => ~CollectsSecret(state[s]) /\ ~CollectsSecret(t.state) /\ t.messages # <<"Prompt">>
                        /\ t.effect = NoEffect,
         accounts \subseteq accounts', puppets \subseteq puppets', resident \subseteq resident',
         Fits(accounts', puppets', resident', Landed(t), t.effect, claim'[s]),
         t.effect # NoEffect => Landed(t) = t.state
  PROVE  SessionsOK' /\ OutputsOK' /\ EchoFollowsState'
  <1> DEFINE told  == IF Change(s, t) = "Same" THEN echo[s] ELSE Change(s, t)
             was   == CollectsSecret(state[s])
             is    == CollectsSecret(t.state)
  <1>1. /\ state' = [state EXCEPT ![s] = Landed(t)] /\ effect' = t.effect
        /\ driving' = IF Ends(t) THEN NoOne ELSE s
        /\ echo' = [echo EXCEPT ![s] = told]
    BY DEF Drive
  <1>2. Ends(t) <=> t.effect = NoEffect
    BY DEF Ends, Sound
  <1>3. /\ state' = [d \in Sids |-> state'[d]] /\ DOMAIN state' = Sids
        /\ state'[s] = Landed(t) /\ \A d \in Sids \ {s} : state'[d] = state[d]
    BY <1>1 DEF SessionsOK
  <1>4. /\ Change(s, t) = "Same" <=> (was <=> is)
        /\ ~was /\ is => Change(s, t) = "Suppressed"
        /\ was /\ ~is => Change(s, t) = "Enabled"
        /\ echo[s] = "Suppressed" <=> was
        /\ echo[s] \in {"Enabled", "Suppressed"}
    BY DEF Change, EchoChange, EchoFollowsState, OutputsOK
  <1>5. told \in {"Enabled", "Suppressed"} /\ (told = "Suppressed" <=> is)
    BY <1>4
  <1> HIDE DEF told
  <1>6. SessionsOK'
    <2>1. driving' \in Sids \union {NoOne} /\ (driving' = NoOne => effect' = NoEffect)
      BY <1>1, <1>2, LoginAssumption
    <2>2. ASSUME NEW d \in Sids
          PROVE  Fits(accounts', puppets', resident', state'[d],
                      IF driving' = d THEN effect' ELSE NoEffect, claim'[d])
      <3>1. CASE d = s
        BY <1>1, <1>2, <1>3, <3>1, LoginAssumption
      <3>2. CASE d # s
        <4>1. driving # d /\ driving' # d
          BY <1>1, <3>2, LoginAssumption
        <4>2. Fits(accounts, puppets, resident, state[d], NoEffect, claim[d])
          BY <4>1 DEF SessionsOK, EffectOf
        <4>3. ~Awaiting(state[d])
          BY <4>2 DEF Fits, Awaiting, NoEffect
        <4>4. Fits(accounts', puppets', resident', state[d], NoEffect, claim[d])
          BY <4>2, <4>3, FitsGrows
        <4> QED BY <1>3, <3>2, <4>1, <4>4
      <3> QED BY <3>1, <3>2
    <2>3. driving' # NoOne => Awaiting(state'[driving'])
      BY <1>1, <1>2, <1>3 DEF Sound
    <2> QED BY <1>3, <2>1, <2>2, <2>3 DEF SessionsOK, EffectOf
  <1>7. EchoFollowsState'
    <2> SUFFICES ASSUME NEW d \in Sids, state'[d].at # "Absent"
                 PROVE  echo'[d] = "Suppressed" <=> CollectsSecret(state'[d])
      BY DEF EchoFollowsState
    <2>1. CASE d # s
      BY <1>1, <1>3, <2>1 DEF EchoFollowsState, OutputsOK
    <2>2. CASE d = s
      <3>1. echo'[s] = told
        BY <1>1 DEF OutputsOK
      <3>2. CollectsSecret(Landed(t)) <=> is
        <4>1. CASE t.terminal = "None"
          BY <4>1 DEF Landed
        <4>2. CASE t.terminal # "None"
          <5>1. ~is /\ Landed(t).at \in {"InWorld", "Absent"}
            BY <4>2 DEF Sound, Landed, InWorld, At
          <5> QED BY <5>1 DEF CollectsSecret
        <4> QED BY <4>1, <4>2
      <3> QED BY <1>3, <1>5, <2>2, <3>1, <3>2
    <2> QED BY <2>1, <2>2
  <1>8. OutputsOK'
    <2> DEFINE shown == IF Change(s, t) = "Same" THEN <<>> ELSE <<>> \o Blocks(held, echo[s])
               block == IF Change(s, t) = "Same" THEN held \o t.messages ELSE t.messages
    <2>1. /\ pending' = IF Ends(t) THEN <<>> ELSE block
          /\ outputs' = shown \o (IF Ends(t) THEN Blocks(block, told) ELSE <<>>)
      BY DEF Drive, told
    <2>2. shown = <<>>
      <3>1. CASE held = <<>>
        BY <3>1 DEF Blocks
      <3>2. CASE held # <<>>
        BY <1>4, <3>2
      <3> QED BY <3>1, <3>2
    <2>3. /\ block \in {<<>>, <<"Line">>, <<"Prompt">>, <<"Line", "Line">>}
          /\ block = <<"Prompt">> => t.messages = <<"Prompt">>
          /\ t.effect # NoEffect => block = t.messages
      <3>1. held = <<>> => block = t.messages
        BY DEF Sound
      <3>2. held = <<"Line">> => block \in {<<"Line">>, <<"Line", "Line">>} /\ t.effect = NoEffect
        <4> SUFFICES ASSUME held = <<"Line">>
                     PROVE  block \in {<<"Line">>, <<"Line", "Line">>} /\ t.effect = NoEffect
          OBVIOUS
        <4>1. held # <<>>
          OBVIOUS
        <4>2. t.effect = NoEffect /\ ~was /\ ~is /\ t.messages \in {<<>>, <<"Line">>}
          BY <4>1 DEF Sound
        <4>3. block = <<"Line">> \o t.messages
          BY <1>4, <4>2
        <4>4. <<"Line">> \o <<>> = <<"Line">> /\ <<"Line">> \o <<"Line">> = <<"Line", "Line">>
          BY LineBlocks
        <4> QED BY <4>2, <4>3, <4>4
      <3>3. <<"Line">> # <<"Prompt">> /\ <<"Line", "Line">> # <<"Prompt">>
        OBVIOUS
      <3> QED BY <3>1, <3>2, <3>3 DEF Sound
    <2> HIDE DEF shown, block
    <2>4. outputs' = IF Ends(t) /\ block # <<>> THEN <<[kinds |-> block, echo |-> told]>> ELSE <<>>
      BY <2>1, <2>2 DEF Blocks
    <2>5. block = <<"Prompt">> => told = "Suppressed"
      BY <1>5, <2>3 DEF Sound
    <2>6. pending' \in {<<>>, <<"Line">>} /\ (pending' # <<>> => effect'.kind = "Enter")
      BY <1>1, <1>2, <2>1, <2>3 DEF Sound
    <2>7. driving' # NoOne => outputs' = <<>>
      BY <1>1, <2>4
    <2>8. echo' \in [Sids -> {"Enabled", "Suppressed"}]
      BY <1>1, <1>5 DEF OutputsOK
    <2> QED BY <1>5, <2>3, <2>4, <2>5, <2>6, <2>7, <2>8 DEF OutputsOK
  <1> QED BY <1>6, <1>7, <1>8

\* The claim a turn leaves its session.
NewClaim(s, t) ==
  CASE Landed(t).at \in {"Anon", "Absent"}            -> NoClaim
    [] t.effect.kind \in {"Authenticate", "Register"} -> <<t.effect.username, t.effect.password>>
    [] OTHER                                          -> claim[s]

\* One whole turn: drive, and the claim that goes with it.
LEMMA TurnStep ==
  ASSUME SessionsOK, OutputsOK, EchoFollowsState,
         NEW s \in Sids, NEW t, NEW sent, NEW held \in {<<>>, <<"Line">>}, sent = <<>>,
         driving \in {NoOne, s}, state[s].at # "Absent",
         Drive(s, t, sent, held), Claimed(s, t), Sound(t),
         held # <<>> => ~CollectsSecret(state[s]) /\ ~CollectsSecret(t.state)
                        /\ t.messages # <<"Prompt">> /\ t.effect = NoEffect,
         accounts \subseteq accounts', puppets \subseteq puppets', resident \subseteq resident',
         Fits(accounts', puppets', resident', Landed(t), t.effect, NewClaim(s, t)),
         t.effect # NoEffect => Landed(t) = t.state
  PROVE  SessionsOK' /\ OutputsOK' /\ EchoFollowsState'
  <1>1. claim' = [claim EXCEPT ![s] = NewClaim(s, t)]
    BY DEF Claimed, NewClaim
  <1>2. claim = [d \in Sids |-> claim[d]]
    BY DEF SessionsOK
  <1>3. /\ DOMAIN claim' = Sids /\ \A d \in Sids \ {s} : claim'[d] = claim[d]
        /\ claim' = [d \in Sids |-> claim'[d]] /\ claim'[s] = NewClaim(s, t)
    <2> HIDE DEF NewClaim
    <2> QED BY <1>1, <1>2
  <1>4. Fits(accounts', puppets', resident', Landed(t), t.effect, claim'[s])
    BY <1>3
  <1>5. Drive(s, t, <<>>, held)
    OBVIOUS
  <1> QED BY <1>3, <1>4, <1>5, DriveStep

\* A session that waits for nothing is not in a waiting state.
LEMMA IdleFits ==
  ASSUME NEW accs, NEW pups, NEW res, NEW st, NEW cl, Fits(accs, pups, res, st, NoEffect, cl)
  PROVE  ~Awaiting(st)
  BY DEF Fits, Awaiting, NoEffect

\* The states before the password fit whatever the rows.
LEMMA PlainFits ==
  ASSUME NEW accs, NEW pups, NEW res, NEW st, NEW cl,
         \/ st \in {At("Anon"), At("Absent")}
         \/ \E u \in Usernames : st \in {LoginPassword(u), RegisterPassword(u)}
         \/ \E u \in Usernames, pw \in Passwords : st = RegisterConfirm(u, pw)
  PROVE  Fits(accs, pups, res, st, NoEffect, cl)
  <1>1. st.at \in {"Anon", "Absent", "LoginPassword", "RegisterPassword", "RegisterConfirm"}
    BY DEF At, LoginPassword, RegisterPassword, RegisterConfirm
  <1>2. Shape(st)
    <2>1. CASE st \in {At("Anon"), At("Absent")}
      BY <2>1 DEF At, Shape
    <2>2. ASSUME NEW u \in Usernames, st \in {LoginPassword(u), RegisterPassword(u)} PROVE Shape(st)
      BY <2>2 DEF LoginPassword, RegisterPassword, Shape
    <2>3. ASSUME NEW u \in Usernames, NEW pw \in Passwords, st = RegisterConfirm(u, pw) PROVE Shape(st)
      BY <2>3 DEF RegisterConfirm, Shape
    <2> QED BY <2>1, <2>2, <2>3
  <1> QED BY <1>1, <1>2 DEF Fits, Awaiting

-----------------------------------------------------------------------------
\* A turn that leaves a session fitting the rows.
TurnFits(s, t, accs, pups, res) ==
  /\ Sound(t)
  /\ Fits(accs, pups, res, Landed(t), t.effect, NewClaim(s, t))
  /\ t.effect # NoEffect => Landed(t) = t.state

\* A turn that says something and waits for the next line.
LEMMA SaidTurn ==
  ASSUME NEW accs, NEW pups, NEW res, NEW s, NEW st, NEW m, NEW t, t = Says(st, m),
         m \in {<<>>, <<"Line">>} \/ (m = <<"Prompt">> /\ CollectsSecret(st)),
         Fits(accs, pups, res, st, NoEffect,
              IF st.at \in {"Anon", "Absent"} THEN NoClaim ELSE claim[s])
  PROVE  TurnFits(s, t, accs, pups, res)
  <1>1. t.state = st /\ t.messages = m /\ t.effect = NoEffect /\ t.terminal = "None"
    BY DEF Says, Transition
  <1>2. Sound(t)
    <2>1. <<"Line">> # <<"Prompt">> /\ <<>> # <<"Prompt">>
      OBVIOUS
    <2> QED BY <1>1, <2>1 DEF Sound
  <1>3. Landed(t) = st
    BY <1>1 DEF Landed
  <1>4. NewClaim(s, t) = IF st.at \in {"Anon", "Absent"} THEN NoClaim ELSE claim[s]
    BY <1>1, <1>3 DEF NewClaim, NoEffect
  <1> QED BY <1>1, <1>2, <1>3, <1>4 DEF TurnFits

\* A turn that ends the session.
LEMMA ByeTurn ==
  ASSUME NEW accs, NEW pups, NEW res, NEW s, NEW st, NEW t, t = Bye(st), ~CollectsSecret(st)
  PROVE  TurnFits(s, t, accs, pups, res)
  <1>1. t.state = st /\ t.messages = <<"Line">> /\ t.effect = NoEffect /\ t.terminal = "Closed"
    BY DEF Bye, Transition
  <1>2. Sound(t)
    <2>1. <<"Line">> # <<"Prompt">>
      OBVIOUS
    <2> QED BY <1>1, <2>1 DEF Sound
  <1>3. Landed(t) = At("Absent")
    BY <1>1 DEF Landed
  <1>4. Fits(accs, pups, res, At("Absent"), NoEffect, NewClaim(s, t))
    BY PlainFits
  <1> QED BY <1>1, <1>2, <1>3, <1>4 DEF TurnFits

\* A turn that asks for an effect.
LEMMA AskedTurn ==
  ASSUME NEW accs, NEW pups, NEW res, NEW s, NEW t, t.terminal = "None",
         t.messages = <<>> \/ (t.messages = <<"Line">> /\ t.effect.kind = "Enter"),
         Awaiting(t.state), t.effect # NoEffect,
         Fits(accs, pups, res, t.state, t.effect,
              IF t.effect.kind \in {"Authenticate", "Register"}
              THEN <<t.effect.username, t.effect.password>> ELSE claim[s])
  PROVE  TurnFits(s, t, accs, pups, res)
  <1>1. <<"Line">> # <<"Prompt">> /\ <<>> # <<"Prompt">>
    OBVIOUS
  <1>2. Sound(t)
    BY <1>1 DEF Sound
  <1>3. Landed(t) = t.state
    BY DEF Landed
  <1>4. NewClaim(s, t) = IF t.effect.kind \in {"Authenticate", "Register"}
                         THEN <<t.effect.username, t.effect.password>> ELSE claim[s]
    BY <1>3 DEF NewClaim, Awaiting
  <1> QED BY <1>2, <1>3, <1>4 DEF TurnFits

-----------------------------------------------------------------------------
\* What a line does leaves the session fitting the rows: a name given is one of
\* the usernames, a password is checked as the claim, and a puppet chosen is on
\* the list displayed.
LEMMA InputTurn ==
  ASSUME NEW s \in Sids, NEW st, st = state[s], st.at \notin {"Absent", "InWorld"},
         Fits(accounts, puppets, resident, st, NoEffect, claim[s]),
         NEW t \in DispatchInput(st)
  PROVE  TurnFits(s, t, accounts, puppets, resident)
  <1>1. Shape(st) /\ ~Awaiting(st)
    BY IdleFits DEF Fits
  <1>2. CASE st.at = "Anon"
    <2>1. st = At("Anon") /\ ~CollectsSecret(st)
      BY <1>1, <1>2 DEF Shape, CollectsSecret
    <2>2. Fits(accounts, puppets, resident, st, NoEffect,
               IF st.at \in {"Anon", "Absent"} THEN NoClaim ELSE claim[s])
      BY <2>1, PlainFits
    <2>3. t \in AnonInput(st)
      BY <1>2 DEF DispatchInput
    <2>4. CASE t \in {Says(st, <<>>), Says(st, <<"Line">>)}
      BY <2>2, <2>4, SaidTurn
    <2>5. CASE t = Bye(st)
      BY <2>1, <2>5, ByeTurn
    <2>6. ASSUME NEW u \in Usernames, NEW sel, sel \in {LoginPassword(u), RegisterPassword(u)},
                 t = Says(sel, <<"Prompt">>)
          PROVE  TurnFits(s, t, accounts, puppets, resident)
      <3>1. CollectsSecret(sel)
        BY <2>6 DEF CollectsSecret, LoginPassword, RegisterPassword
      <3>2. Fits(accounts, puppets, resident, sel, NoEffect,
                 IF sel.at \in {"Anon", "Absent"} THEN NoClaim ELSE claim[s])
        BY <2>6, PlainFits
      <3> QED BY <2>6, <3>1, <3>2, SaidTurn
    <2> QED BY <2>3, <2>4, <2>5, <2>6 DEF AnonInput
  <1>3. CASE st.at = "LoginPassword"
    <2>1. PICK pw \in Passwords : t = CaptureLogin(st, pw)
      BY <1>3 DEF DispatchInput
    <2>2. st.username \in Usernames
      BY <1>1, <1>3 DEF Shape
    <2>3. /\ t.state = At("AwaitingAuth") /\ t.messages = <<>> /\ t.terminal = "None"
          /\ t.effect = [kind |-> "Authenticate", username |-> st.username, password |-> pw]
      BY <2>1 DEF CaptureLogin, Asks, Transition
    <2>4. /\ Awaiting(t.state) /\ t.effect # NoEffect
          /\ t.effect.kind = "Authenticate" /\ t.effect.username = st.username
          /\ t.effect.password = pw
      BY <2>3 DEF Awaiting, At, NoEffect
    <2>5. Fits(accounts, puppets, resident, t.state, t.effect, <<st.username, pw>>)
      BY <2>2, <2>3 DEF Fits, Shape, Awaiting, At
    <2> QED BY <2>3, <2>4, <2>5, AskedTurn
  <1>4. CASE st.at = "RegisterPassword"
    <2>1. PICK pw \in Passwords : t = CaptureRegister(st, pw)
      BY <1>4 DEF DispatchInput
    <2>2. PICK sel : sel = RegisterConfirm(st.username, pw) /\ t = Says(sel, <<"Prompt">>)
      BY <2>1 DEF CaptureRegister
    <2>3. st.username \in Usernames
      BY <1>1, <1>4 DEF Shape
    <2>4. CollectsSecret(sel)
      BY <2>2 DEF CollectsSecret, RegisterConfirm
    <2>5. Fits(accounts, puppets, resident, sel, NoEffect,
               IF sel.at \in {"Anon", "Absent"} THEN NoClaim ELSE claim[s])
      BY <2>2, <2>3, PlainFits
    <2> QED BY <2>2, <2>4, <2>5, SaidTurn
  <1>5. CASE st.at = "RegisterConfirm"
    <2>1. PICK pw \in Passwords : t = ConfirmRegister(st, pw)
      BY <1>5 DEF DispatchInput
    <2>2. st.username \in Usernames
      BY <1>1, <1>5 DEF Shape
    <2>3. CASE st.password # pw
      <3>1. t = Says(At("Anon"), <<"Line">>)
        BY <2>1, <2>3 DEF ConfirmRegister
      <3>2. Fits(accounts, puppets, resident, At("Anon"), NoEffect,
                 IF At("Anon").at \in {"Anon", "Absent"} THEN NoClaim ELSE claim[s])
        BY PlainFits
      <3> QED BY <3>1, <3>2, SaidTurn
    <2>4. CASE st.password = pw
      <3>1. /\ t.state = At("AwaitingRegister") /\ t.messages = <<>> /\ t.terminal = "None"
            /\ t.effect = [kind |-> "Register", username |-> st.username, password |-> pw]
        BY <2>1, <2>4 DEF ConfirmRegister, Asks, Transition
      <3>2. /\ Awaiting(t.state) /\ t.effect # NoEffect
            /\ t.effect.kind = "Register" /\ t.effect.username = st.username
            /\ t.effect.password = pw
        BY <3>1 DEF Awaiting, At, NoEffect
      <3>3. Fits(accounts, puppets, resident, t.state, t.effect, <<st.username, pw>>)
        BY <2>2, <3>1 DEF Fits, Shape, Awaiting, At
      <3> QED BY <3>1, <3>2, <3>3, AskedTurn
    <2> QED BY <2>3, <2>4
  <1>6. CASE st.at = "PuppetSelect"
    <2>1. /\ st = PuppetSelect(st.account, st.puppets) /\ ~CollectsSecret(st)
          /\ Proved(accounts, st.account, claim[s]) /\ st.account \in Ids
          /\ Lists(puppets, st.account, st.puppets)
      BY <1>1, <1>6 DEF Fits, Shape, CollectsSecret
    <2>2. t \in SelectInput(st)
      BY <1>6 DEF DispatchInput
    <2>3. CASE t \in {Says(st, <<>>), Says(st, <<"Line">>)}
      <3>1. Fits(accounts, puppets, resident, st, NoEffect,
                 IF st.at \in {"Anon", "Absent"} THEN NoClaim ELSE claim[s])
        BY <1>6
      <3> QED BY <2>3, <3>1, SaidTurn
    <2>4. CASE t = Bye(st)
      BY <2>1, <2>4, ByeTurn
    <2>5. ASSUME NEW k \in Matches(st.puppets), t = EnterPuppet(st, k)
          PROVE  TurnFits(s, t, accounts, puppets, resident)
      <3>1. /\ t.state = AwaitingEnter(st.account, st.puppets, k)
            /\ t.messages = <<>> /\ t.terminal = "None"
            /\ t.effect = [kind |-> "Enter", account |-> st.account, puppet |-> k]
        BY <2>5 DEF EnterPuppet, Asks, Transition
      <3>2. Awaiting(t.state) /\ t.effect # NoEffect /\ t.effect.kind = "Enter"
        BY <3>1 DEF Awaiting, AwaitingEnter, NoEffect
      <3>3. Fits(accounts, puppets, resident, t.state, t.effect, claim[s])
        BY <2>1, <2>5, <3>1 DEF Fits, Shape, Awaiting, AwaitingEnter
      <3> QED BY <3>1, <3>2, <3>3, AskedTurn
    <2>6. ASSUME NEW nm \in Names, Cardinality(puppets) < MaxPuppets,
                 t = Asks(AwaitingCreate(st.account, st.puppets),
                          [kind |-> "CreatePuppet", account |-> st.account, name |-> nm])
          PROVE  TurnFits(s, t, accounts, puppets, resident)
      <3>1. /\ t.state = AwaitingCreate(st.account, st.puppets)
            /\ t.messages = <<>> /\ t.terminal = "None"
            /\ t.effect = [kind |-> "CreatePuppet", account |-> st.account, name |-> nm]
        BY <2>6 DEF Asks, Transition
      <3>2. Awaiting(t.state) /\ t.effect # NoEffect /\ t.effect.kind = "CreatePuppet"
        BY <3>1 DEF Awaiting, AwaitingCreate, NoEffect
      <3>3. Fits(accounts, puppets, resident, t.state, t.effect, claim[s])
        BY <2>1, <2>6, <3>1 DEF Fits, Shape, Awaiting, AwaitingCreate
      <3> QED BY <3>1, <3>2, <3>3, AskedTurn
    <2> QED BY <2>2, <2>3, <2>4, <2>5, <2>6 DEF SelectInput
  <1> QED BY <1>1, <1>2, <1>3, <1>4, <1>5, <1>6 DEF Shape, Awaiting

-----------------------------------------------------------------------------
\* A backend error leaves a session where it was before its effect: at the list
\* as displayed, or at the beginning, even when the effect's row was committed.
LEMMA FailedTurn ==
  ASSUME NEW s \in Sids, NEW st, Awaiting(st), NEW eff,
         NEW accs, NEW pups, NEW res,
         accounts \subseteq accs, puppets \subseteq pups, resident \subseteq res,
         Fits(accounts, puppets, resident, st, eff, claim[s]),
         NEW t, t = DispatchEffect(st, Result("BackendError"))
  PROVE  /\ TurnFits(s, t, accs, pups, res)
         /\ t.effect = NoEffect /\ ~CollectsSecret(t.state) /\ t.messages # <<"Prompt">>
  <1>1. t = Failed(st)
    BY DEF DispatchEffect, Result, Awaiting
  <1>2. <<"Line">> # <<"Prompt">>
    OBVIOUS
  <1>3. CASE st.at \in {"AwaitingCreate", "AwaitingEnter"}
    <2>1. PICK sel : sel = PuppetSelect(st.account, st.puppets) /\ t = Says(sel, <<"Line">>)
      BY <1>1, <1>3 DEF Failed
    <2>2. Fits(accounts, puppets, resident, sel, NoEffect, claim[s]) /\ sel.at = "PuppetSelect"
      BY <1>3, <2>1 DEF Fits, Shape, PuppetSelect, Awaiting
    <2>3. Fits(accs, pups, res, sel, NoEffect,
               IF sel.at \in {"Anon", "Absent"} THEN NoClaim ELSE claim[s])
      BY <2>2, IdleFits, FitsGrows
    <2>4. TurnFits(s, t, accs, pups, res)
      BY <2>1, <2>3, SaidTurn
    <2>5. t.effect = NoEffect /\ t.state = sel /\ t.messages = <<"Line">>
      BY <2>1 DEF Says, Transition
    <2> QED BY <1>2, <2>2, <2>4, <2>5 DEF CollectsSecret
  <1>4. CASE st.at \notin {"AwaitingCreate", "AwaitingEnter"}
    <2>1. t = Says(At("Anon"), <<"Line">>)
      BY <1>1, <1>4 DEF Failed
    <2>2. Fits(accs, pups, res, At("Anon"), NoEffect,
               IF At("Anon").at \in {"Anon", "Absent"} THEN NoClaim ELSE claim[s])
      BY PlainFits
    <2>3. TurnFits(s, t, accs, pups, res)
      BY <2>1, <2>2, SaidTurn
    <2>4. t.effect = NoEffect /\ t.state = At("Anon") /\ t.messages = <<"Line">>
      BY <2>1 DEF Says, Transition
    <2> QED BY <1>2, <2>3, <2>4 DEF CollectsSecret, At
  <1> QED BY <1>3, <1>4

\* An account's puppets as the store returns them.
LEMMA PuppetsListed ==
  ASSUME RowsOK, NEW a
  PROVE  Lists(puppets, a, PuppetsOf(a))
  <1> DEFINE rows == {p \in puppets : p.account = a}
             keys == {p.key : p \in rows}
             list == OldestFirst(keys)
  <1>1. keys \subseteq Keys /\ keys \in SUBSET Nat
    BY LoginAssumption DEF RowsOK, Keys
  <1>2. IsFiniteSet(keys)
    <2> DEFINE f == [p \in rows |-> p.key]
    <2>1. IsFiniteSet(rows)
      BY FS_Subset DEF RowsOK
    <2>2. f \in Surjection(rows, keys)
      BY DEF Surjection
    <2> HIDE DEF rows, keys, f
    <2> QED BY <2>1, <2>2, FS_Surjection
  <1>3. /\ list \in Seq(keys)
        /\ \A m, n \in 1 .. Len(list) : m < n => list[m] < list[n]
    <2> HIDE DEF keys
    <2> QED BY <1>1, <1>2, OldestFirstSorted
  <1>4. list \in Seq(Keys) /\ \A n \in 1 .. Len(list) : list[n] \in keys
    <2> HIDE DEF keys, list
    <2>1. \A n \in 1 .. Len(list) : list[n] \in keys
      BY <1>3, ElementOfSeq
    <2>2. list \in Seq(Keys)
      BY <1>1, <1>3, SeqMonotonic
    <2> QED BY <2>1, <2>2
  <1>5. \A k \in keys : Owns(puppets, a, k)
    BY DEF Owns
  <1>6. PuppetsOf(a) = list
    BY DEF PuppetsOf
  <1> HIDE DEF keys, list
  <1> QED BY <1>3, <1>4, <1>5, <1>6 DEF Lists

\* A session let in sees the account's list, whether it logged in or registered.
LEMMA SelectTurn ==
  ASSUME NEW s \in Sids, NEW accs, NEW pups, NEW res, NEW a \in Ids, NEW list, NEW t,
         t = EnterPuppetSelect(a, list), Proved(accs, a, claim[s]), Lists(pups, a, list)
  PROVE  TurnFits(s, t, accs, pups, res) /\ t.effect = NoEffect
  <1>1. PICK sel : sel = PuppetSelect(a, list) /\ t = Says(sel, <<"Line">>)
    BY DEF EnterPuppetSelect
  <1>2. sel.at = "PuppetSelect" /\ sel.account = a /\ sel.puppets = list
    BY <1>1 DEF PuppetSelect
  <1>3. Fits(accs, pups, res, sel, NoEffect,
             IF sel.at \in {"Anon", "Absent"} THEN NoClaim ELSE claim[s])
    BY <1>1, <1>2 DEF Fits, Shape, Awaiting
  <1>4. t.effect = NoEffect
    BY <1>1 DEF Says, Transition
  <1> QED BY <1>1, <1>3, <1>4, SaidTurn

\* A list grows at its end, by a key above all that were handed out.
LEMMA ListGrows ==
  ASSUME NEW rows, NEW rows2, NEW a, NEW list, NEW k \in Keys, Lists(rows, a, list),
         rows \subseteq rows2, Owns(rows2, a, k), \A p \in rows : p.key < k
  PROVE  Lists(rows2, a, Append(list, k)) /\ k \in Matches(Append(list, k))
  <1> DEFINE n == Len(list)
             more == Append(list, k)
  <1>1. list \in Seq(Keys) /\ n \in Nat
    BY LenProperties DEF Lists
  <1>2. /\ more \in Seq(Keys) /\ Len(more) = n + 1
        /\ \A i \in 1 .. n : more[i] = list[i]
        /\ more[n + 1] = k
    BY <1>1, AppendProperties
  <1> HIDE DEF more, n
  <1>3. ASSUME NEW i \in 1 .. n PROVE Owns(rows2, a, list[i]) /\ list[i] < k
    <2>1. PICK p \in rows : p.key = list[i] /\ p.account = a
      BY <1>3 DEF Lists, Owns, n
    <2> QED BY <2>1 DEF Owns
  <1>4. \A i \in 1 .. n + 1 : i = n + 1 \/ i \in 1 .. n
    BY <1>1
  <1>5. \A i \in 1 .. n + 1 : Owns(rows2, a, more[i])
    BY <1>2, <1>3, <1>4
  <1>6. ASSUME NEW i \in 1 .. n + 1, NEW j \in 1 .. n + 1, i < j
        PROVE  more[i] < more[j]
    <2>1. i \in 1 .. n
      BY <1>1, <1>6
    <2>2. CASE j = n + 1
      BY <1>2, <1>3, <2>1, <2>2
    <2>3. CASE j \in 1 .. n
      BY <1>2, <1>6, <2>1, <2>3 DEF Lists, n
    <2> QED BY <1>4, <2>2, <2>3
  <1>7. n + 1 \in 1 .. n + 1
    BY <1>1
  <1>8. k \in Matches(more)
    BY <1>2, <1>7 DEF Matches
  <1> QED BY <1>2, <1>5, <1>6, <1>8 DEF Lists, more

\* The puppet just created is entered, from the list it now ends.
LEMMA CreatedTurn ==
  ASSUME NEW s \in Sids, NEW st, st.at = "AwaitingCreate", NEW eff, RowsOK,
         NEW pups, NEW k, k = Cardinality(puppets) + 1, NEW name \in Names,
         pups = puppets \union {[key |-> k, account |-> st.account, name |-> name]},
         NEW res, Fits(accounts, puppets, resident, st, eff, claim[s]),
         NEW t, t = DispatchEffect(st, [kind |-> "PuppetCreated", key |-> k])
  PROVE  TurnFits(s, t, accounts, pups, res)
  <1> DEFINE row == [key |-> k, account |-> st.account, name |-> name]
  <1>1. /\ Proved(accounts, st.account, claim[s]) /\ st.account \in Ids
        /\ Lists(puppets, st.account, st.puppets) /\ Cardinality(puppets) < MaxPuppets
    BY DEF Fits
  <1>2. Cardinality(puppets) \in Nat
    BY FS_CardinalityType DEF RowsOK
  <1>3. k \in Keys
    BY <1>1, <1>2, LoginAssumption DEF Keys
  <1>4. \A p \in puppets : p.key < k
    BY <1>2 DEF RowsOK, Keys
  <1>5. row.key = k /\ row.account = st.account /\ row \in pups
    OBVIOUS
  <1> HIDE DEF row
  <1>6. Owns(pups, st.account, k)
    BY <1>5 DEF Owns
  <1>7. PICK list : list = Append(st.puppets, k)
    OBVIOUS
  <1>8. Lists(pups, st.account, list) /\ k \in Matches(list)
    BY <1>1, <1>3, <1>4, <1>6, <1>7, ListGrows
  <1>9. t = [EnterPuppet(PuppetSelect(st.account, list), k) EXCEPT !.messages = <<"Line">>]
    BY <1>7 DEF DispatchEffect
  <1>10. /\ t.state = AwaitingEnter(st.account, list, k)
         /\ t.messages = <<"Line">> /\ t.terminal = "None"
         /\ t.effect = [kind |-> "Enter", account |-> st.account, puppet |-> k]
    BY <1>9 DEF EnterPuppet, PuppetSelect, Asks, Transition
  <1>11. Awaiting(t.state) /\ t.effect # NoEffect /\ t.effect.kind = "Enter"
    BY <1>10 DEF Awaiting, AwaitingEnter, NoEffect
  <1>12. Fits(accounts, pups, res, t.state, t.effect, claim[s])
    BY <1>1, <1>8, <1>10 DEF Fits, Shape, Awaiting, AwaitingEnter
  <1> QED BY <1>10, <1>11, <1>12, AskedTurn

\* A resident puppet is controlled by the session that chose it.
LEMMA EnteredTurn ==
  ASSUME NEW s \in Sids, NEW st, st.at = "AwaitingEnter", st.chosen \in resident, NEW eff,
         Fits(accounts, puppets, resident, st, eff, claim[s]),
         NEW t, t = DispatchEffect(st, Result("Entered"))
  PROVE  /\ TurnFits(s, t, accounts, puppets, resident)
         /\ t.effect = NoEffect /\ ~CollectsSecret(t.state) /\ t.messages # <<"Prompt">>
  <1>1. t = Transition(st, <<"Line">>, NoEffect, "Bound")
    BY DEF DispatchEffect, Result, Awaiting
  <1>2. t.state = st /\ t.messages = <<"Line">> /\ t.effect = NoEffect /\ t.terminal = "Bound"
    BY <1>1 DEF Transition
  <1>3. <<"Line">> # <<"Prompt">> /\ ~CollectsSecret(st)
    BY DEF CollectsSecret
  <1>4. Sound(t)
    BY <1>2, <1>3 DEF Sound
  <1>5. Landed(t) = InWorld(st.account, st.chosen)
    BY <1>2 DEF Landed
  <1>6. NewClaim(s, t) = claim[s]
    BY <1>2, <1>5 DEF NewClaim, InWorld, NoEffect
  <1>7. Owns(puppets, st.account, st.chosen)
    <2>1. Lists(puppets, st.account, st.puppets) /\ st.chosen \in Matches(st.puppets)
      BY DEF Fits
    <2> QED BY <2>1 DEF Lists, Matches
  <1>8. Fits(accounts, puppets, resident, InWorld(st.account, st.chosen), NoEffect, claim[s])
    BY <1>7 DEF Fits, Shape, Awaiting, InWorld
  <1> QED BY <1>2, <1>3, <1>4, <1>5, <1>6, <1>8 DEF TurnFits

-----------------------------------------------------------------------------
\* What is known of the session being driven.
LEMMA Driven ==
  ASSUME SessionsOK, OutputsOK, driving # NoOne
  PROVE  /\ driving \in Sids /\ Awaiting(state[driving]) /\ outputs = <<>>
         /\ Fits(accounts, puppets, resident, state[driving], effect, claim[driving])
         /\ effect.kind = "Authenticate" => state[driving].at = "AwaitingAuth"
         /\ effect.kind = "Register" => state[driving].at = "AwaitingRegister"
         /\ effect.kind = "CreatePuppet" => state[driving].at = "AwaitingCreate"
         /\ effect.kind = "Enter" => state[driving].at = "AwaitingEnter"
  <1>1. driving \in Sids /\ Awaiting(state[driving]) /\ outputs = <<>>
    BY DEF SessionsOK, OutputsOK
  <1>2. Fits(accounts, puppets, resident, state[driving], effect, claim[driving])
    BY <1>1 DEF SessionsOK, EffectOf
  <1> QED BY <1>1, <1>2 DEF Fits, Awaiting

\* One result fed back: the turn it takes keeps everything in order.  A line is
\* pending only before an entry, whose results say only lines.
LEMMA FeedStep ==
  ASSUME SessionsOK, OutputsOK, EchoFollowsState, driving # NoOne,
         NEW result, Feed(result), NEW t, t = DispatchEffect(state[driving], result),
         accounts \subseteq accounts', puppets \subseteq puppets', resident \subseteq resident',
         TurnFits(driving, t, accounts', puppets', resident'),
         effect.kind = "Enter" =>
           t.effect = NoEffect /\ ~CollectsSecret(t.state) /\ t.messages # <<"Prompt">>
  PROVE  SessionsOK' /\ OutputsOK' /\ EchoFollowsState'
  <1>1. PICK s \in Sids : s = driving
    BY Driven
  <1>2. /\ Awaiting(state[s]) /\ outputs = <<>> /\ pending \in {<<>>, <<"Line">>}
        /\ pending # <<>> => effect.kind = "Enter"
    BY <1>1, Driven DEF OutputsOK
  <1>3. state[s].at # "Absent" /\ ~CollectsSecret(state[s])
    BY <1>2 DEF Awaiting, CollectsSecret
  <1>4. Drive(s, t, outputs, pending) /\ Claimed(s, t)
    BY <1>1 DEF Feed
  <1>5. TurnFits(s, t, accounts', puppets', resident')
    BY <1>1
  <1>6. driving \in {NoOne, s}
    BY <1>1
  <1>7. /\ Sound(t) /\ Fits(accounts', puppets', resident', Landed(t), t.effect, NewClaim(s, t))
        /\ t.effect # NoEffect => Landed(t) = t.state
    BY <1>5 DEF TurnFits
  <1>8. pending # <<>> => ~CollectsSecret(state[s]) /\ ~CollectsSecret(t.state)
                          /\ t.messages # <<"Prompt">> /\ t.effect = NoEffect
    BY <1>2, <1>3
  <1> QED BY <1>2, <1>3, <1>4, <1>6, <1>7, <1>8, TurnStep

\* The backend fails, having added rows or none.
LEMMA FailsStep ==
  ASSUME SessionsOK, OutputsOK, EchoFollowsState, driving # NoOne, Fails,
         accounts \subseteq accounts', puppets \subseteq puppets', resident \subseteq resident'
  PROVE  SessionsOK' /\ OutputsOK' /\ EchoFollowsState'
  <1>1. PICK s \in Sids : s = driving
    BY Driven
  <1>2. PICK st : st = state[s]
    OBVIOUS
  <1>3. Awaiting(st) /\ Fits(accounts, puppets, resident, st, effect, claim[s])
    BY <1>1, <1>2, Driven
  <1>4. PICK t : t = DispatchEffect(st, Result("BackendError"))
    OBVIOUS
  <1>5. /\ TurnFits(s, t, accounts', puppets', resident')
        /\ t.effect = NoEffect /\ ~CollectsSecret(t.state) /\ t.messages # <<"Prompt">>
    BY <1>3, <1>4, FailedTurn
  <1>6. Feed(Result("BackendError")) /\ t = DispatchEffect(state[driving], Result("BackendError"))
    BY <1>1, <1>2, <1>4 DEF Fails
  <1>7. TurnFits(driving, t, accounts', puppets', resident')
    BY <1>1, <1>5
  <1> QED BY <1>5, <1>6, <1>7, FeedStep

\* A login: the row found is of the username and password claimed.
LEMMA AuthenticateStep ==
  ASSUME RowsOK, SessionsOK, OutputsOK, EchoFollowsState, driving # NoOne, Authenticate
  PROVE  SessionsOK' /\ OutputsOK' /\ EchoFollowsState'
  <1>1. PICK s \in Sids : s = driving
    BY Driven
  <1>2. PICK st : st = state[s]
    OBVIOUS
  <1>3. /\ Awaiting(st) /\ Fits(accounts, puppets, resident, st, effect, claim[s])
        /\ st.at = "AwaitingAuth" /\ effect.kind # "Enter"
    BY <1>1, <1>2, Driven DEF Authenticate
  <1>4. /\ effect.username \in Usernames /\ claim[s] = <<effect.username, effect.password>>
    <2>1. PICK u \in Usernames, pw \in Passwords :
            effect = [kind |-> "Authenticate", username |-> u, password |-> pw] /\ claim[s] = <<u, pw>>
      BY <1>3 DEF Fits
    <2> QED BY <2>1
  <1>5. accounts' = accounts /\ puppets' = puppets /\ resident' = resident
    BY DEF Authenticate, dbVars
  <1>6. CASE Feed(Result("LoginRejected"))
    <2>1. PICK t : t = DispatchEffect(st, Result("LoginRejected"))
      OBVIOUS
    <2>2. t = Says(At("Anon"), <<"Line">>)
      BY <1>3, <2>1 DEF DispatchEffect, Result
    <2>3. Fits(accounts', puppets', resident', At("Anon"), NoEffect,
               IF At("Anon").at \in {"Anon", "Absent"} THEN NoClaim ELSE claim[s])
      BY PlainFits
    <2>4. TurnFits(s, t, accounts', puppets', resident')
      BY <2>2, <2>3, SaidTurn
    <2>5. /\ TurnFits(driving, t, accounts', puppets', resident')
          /\ t = DispatchEffect(state[driving], Result("LoginRejected"))
      BY <1>1, <1>2, <2>1, <2>4
    <2> QED BY <1>3, <1>5, <1>6, <2>5, FeedStep
  <1>7. ASSUME NEW r \in Verified(effect.username, effect.password),
               NEW result,
               result = [kind |-> "Authenticated", account |-> r.id, puppets |-> PuppetsOf(r.id)],
               Feed(result)
        PROVE  SessionsOK' /\ OutputsOK' /\ EchoFollowsState'
    <2>1. PICK t : t = DispatchEffect(st, result)
      OBVIOUS
    <2>2. PICK list : list = PuppetsOf(r.id)
      OBVIOUS
    <2>3. t = EnterPuppetSelect(r.id, list)
      BY <1>3, <1>7, <2>1, <2>2 DEF DispatchEffect
    <2>4. /\ r \in accounts /\ r.username = effect.username /\ r.password = effect.password
          /\ r.state = "active"
      BY DEF Verified, RowsOf
    <2>5. r.id \in Ids
      BY <2>4 DEF RowsOK
    <2>6. Proved(accounts, r.id, claim[s])
      BY <1>4, <2>4 DEF Proved
    <2>7. Lists(puppets, r.id, list)
      BY <2>2, PuppetsListed
    <2>8. TurnFits(s, t, accounts', puppets', resident')
      BY <1>5, <2>3, <2>5, <2>6, <2>7, SelectTurn
    <2>9. TurnFits(driving, t, accounts', puppets', resident') /\ t = DispatchEffect(state[driving], result)
      BY <1>1, <1>2, <2>1, <2>8
    <2> QED BY <1>3, <1>5, <1>7, <2>9, FeedStep
  <1>8. CASE Fails
    BY <1>5, <1>8, FailsStep
  <1> QED BY <1>6, <1>7, <1>8 DEF Authenticate

\* A registration: the row added is the claim, and its name was nobody's.
LEMMA RegisterStep ==
  ASSUME RowsOK, SessionsOK, OutputsOK, EchoFollowsState, driving # NoOne, Register
  PROVE  RowsOK' /\ SessionsOK' /\ OutputsOK' /\ EchoFollowsState'
  <1>1. PICK s \in Sids : s = driving
    BY Driven
  <1>2. PICK st : st = state[s]
    OBVIOUS
  <1>3. /\ Awaiting(st) /\ Fits(accounts, puppets, resident, st, effect, claim[s])
        /\ st.at = "AwaitingRegister" /\ effect.kind # "Enter"
    BY <1>1, <1>2, Driven DEF Register
  <1>4. PICK u \in Usernames, pw \in Passwords :
          /\ effect = [kind |-> "Register", username |-> u, password |-> pw]
          /\ claim[s] = <<u, pw>>
    BY <1>3 DEF Fits
  <1>5. puppets' = puppets /\ resident' = resident
    BY DEF Register
  <1>6. CASE Feed(Result("RegisterRejected")) /\ UNCHANGED accounts
    <2>1. PICK t : t = DispatchEffect(st, Result("RegisterRejected"))
      OBVIOUS
    <2>2. t = Says(At("Anon"), <<"Line">>)
      BY <1>3, <2>1 DEF DispatchEffect, Result
    <2>3. Fits(accounts', puppets', resident', At("Anon"), NoEffect,
               IF At("Anon").at \in {"Anon", "Absent"} THEN NoClaim ELSE claim[s])
      BY PlainFits
    <2>4. TurnFits(s, t, accounts', puppets', resident')
      BY <2>2, <2>3, SaidTurn
    <2>5. /\ TurnFits(driving, t, accounts', puppets', resident')
          /\ t = DispatchEffect(state[driving], Result("RegisterRejected"))
      BY <1>1, <1>2, <2>1, <2>4
    <2>6. SessionsOK' /\ OutputsOK' /\ EchoFollowsState'
      BY <1>3, <1>5, <1>6, <2>5, FeedStep
    <2> QED BY <1>5, <1>6, <2>6 DEF RowsOK
  <1>7. ASSUME ~Taken(effect.username), NEW r, r = NewRow(effect.username, effect.password),
               accounts' = accounts \union {r},
               NEW result, result = [kind |-> "Registered", account |-> r.id], Feed(result)
        PROVE  RowsOK' /\ SessionsOK' /\ OutputsOK' /\ EchoFollowsState'
    <2>1. \A q \in accounts : q.username # u
      BY <1>4, <1>7 DEF Taken, RowsOf
    <2>2. Cardinality(accounts) + 1 \in Ids
      BY <2>1, AccountRoom
    <2>3. /\ r \in [id : Ids, username : Usernames, password : Passwords, state : AccountStates]
          /\ r.id \in Ids /\ r.username = u /\ r.password = pw /\ r.state = "active"
      BY <1>4, <1>7, <2>2 DEF NewRow, AccountStates
    <2>4. RowsOK'
      BY <1>5, <1>7, <2>1, <2>3 DEF RowsOK
    <2>5. PICK t : t = DispatchEffect(st, result)
      OBVIOUS
    <2>6. t = EnterPuppetSelect(r.id, <<>>)
      BY <1>3, <1>7, <2>5 DEF DispatchEffect
    <2>7. Proved(accounts', r.id, claim[s])
      BY <1>4, <1>7, <2>3 DEF Proved
    <2>8. Lists(puppets', r.id, <<>>)
      <3>1. <<>> \in Seq(Keys) /\ Len(<<>>) = 0
        BY EmptySeq
      <3> QED BY <3>1 DEF Lists
    <2>9. TurnFits(s, t, accounts', puppets', resident')
      BY <2>3, <2>6, <2>7, <2>8, SelectTurn
    <2>10. TurnFits(driving, t, accounts', puppets', resident') /\ t = DispatchEffect(state[driving], result)
      BY <1>1, <1>2, <2>5, <2>9
    <2>11. accounts \subseteq accounts'
      BY <1>7
    <2>12. SessionsOK' /\ OutputsOK' /\ EchoFollowsState'
      BY <1>3, <1>5, <1>7, <2>10, <2>11, FeedStep
    <2> QED BY <2>4, <2>12
  <1>8. CASE Fails /\ UNCHANGED accounts
    <2>1. SessionsOK' /\ OutputsOK' /\ EchoFollowsState'
      BY <1>5, <1>8, FailsStep
    <2> QED BY <1>5, <1>8, <2>1 DEF RowsOK
  <1> QED BY <1>6, <1>7, <1>8 DEF Register

\* The row of a puppet just created is in order, resident or not.
LEMMA PuppetRows ==
  ASSUME RowsOK, driving # NoOne, SessionsOK, OutputsOK, effect.kind = "CreatePuppet",
         accounts' = accounts, puppets' = puppets \union {NewPuppet},
         resident' \in {resident, resident \union {NewPuppet.key}}
  PROVE  RowsOK'
  <1>1. PICK s \in Sids : s = driving
    BY Driven
  <1>2. PICK st : st = state[s]
    OBVIOUS
  <1>3. st.at = "AwaitingCreate" /\ Fits(accounts, puppets, resident, st, effect, claim[s])
    BY <1>1, <1>2, Driven
  <1>4. /\ st.account \in Ids /\ Cardinality(puppets) < MaxPuppets
        /\ \E nm \in Names : effect = [kind |-> "CreatePuppet", account |-> st.account, name |-> nm]
    BY <1>3 DEF Fits
  <1>5. Cardinality(puppets) \in Nat
    BY FS_CardinalityType DEF RowsOK
  <1>6. Cardinality(puppets) + 1 \in Keys
    BY <1>4, <1>5, LoginAssumption DEF Keys
  <1>7. PICK p : p = NewPuppet
    OBVIOUS
  <1>8. p \in [key : Keys, account : Ids, name : Names] /\ p.key = Cardinality(puppets) + 1
    BY <1>4, <1>6, <1>7 DEF NewPuppet
  <1>9. p \notin puppets
    <2>1. \A q \in puppets : q.key # Cardinality(puppets) + 1
      BY <1>5 DEF RowsOK, Keys
    <2> QED BY <1>8, <2>1
  <1>10. IsFiniteSet(puppets') /\ Cardinality(puppets') = Cardinality(puppets) + 1
    BY <1>7, <1>9, FS_AddElement DEF RowsOK
  <1>11. puppets' = puppets \union {p}
    BY <1>7
  <1>12. \A q \in puppets' : q.key <= Cardinality(puppets')
    <2> SUFFICES ASSUME NEW q \in puppets' PROVE q.key <= Cardinality(puppets) + 1
      BY <1>10
    <2>1. CASE q = p
      BY <1>5, <1>8, <2>1
    <2>2. CASE q \in puppets
      BY <1>5, <2>2 DEF RowsOK, Keys
    <2> QED BY <1>11, <2>1, <2>2
  <1>13. puppets' \subseteq [key : Keys, account : Ids, name : Names]
    BY <1>8, <1>11 DEF RowsOK
  <1>14. resident' \subseteq {q.key : q \in puppets'}
    BY <1>7, <1>11 DEF RowsOK
  <1> QED BY <1>10, <1>12, <1>13, <1>14 DEF RowsOK

\* A puppet's row commits before its entity lives: whichever step fails, the
\* session returns to the list it saw, and otherwise enters with the new key.
LEMMA CreatePuppetStep ==
  ASSUME RowsOK, SessionsOK, OutputsOK, EchoFollowsState, driving # NoOne, CreatePuppet
  PROVE  RowsOK' /\ SessionsOK' /\ OutputsOK' /\ EchoFollowsState'
  <1>1. PICK s \in Sids : s = driving
    BY Driven
  <1>2. PICK st : st = state[s]
    OBVIOUS
  <1>3. /\ Fits(accounts, puppets, resident, st, effect, claim[s])
        /\ st.at = "AwaitingCreate" /\ effect.kind = "CreatePuppet"
    BY <1>1, <1>2, Driven DEF CreatePuppet
  <1>4. PICK nm \in Names : effect = [kind |-> "CreatePuppet", account |-> st.account, name |-> nm]
    BY <1>3 DEF Fits
  <1>5. accounts' = accounts
    BY DEF CreatePuppet
  <1>6. ASSUME puppets' = puppets \union {NewPuppet}, resident' = resident \union {NewPuppet.key},
               NEW result, result = [kind |-> "PuppetCreated", key |-> NewPuppet.key], Feed(result)
        PROVE  RowsOK' /\ SessionsOK' /\ OutputsOK' /\ EchoFollowsState'
    <2>1. PICK k : k = Cardinality(puppets) + 1
      OBVIOUS
    <2>2. /\ NewPuppet = [key |-> k, account |-> st.account, name |-> nm]
          /\ NewPuppet.key = k
      BY <1>4, <2>1 DEF NewPuppet
    <2>3. PICK t : t = DispatchEffect(st, result)
      OBVIOUS
    <2>4. /\ t = DispatchEffect(st, [kind |-> "PuppetCreated", key |-> k])
          /\ puppets' = puppets \union {[key |-> k, account |-> st.account, name |-> nm]}
      BY <1>6, <2>2, <2>3
    <2>5. TurnFits(s, t, accounts, puppets', resident')
      BY <1>3, <2>1, <2>4, CreatedTurn
    <2>6. TurnFits(driving, t, accounts', puppets', resident') /\ t = DispatchEffect(state[driving], result)
      BY <1>1, <1>2, <1>5, <2>3, <2>5
    <2>7. SessionsOK' /\ OutputsOK' /\ EchoFollowsState'
      BY <1>3, <1>5, <1>6, <2>6, FeedStep
    <2>8. RowsOK'
      BY <1>3, <1>5, <1>6, PuppetRows
    <2> QED BY <2>7, <2>8
  <1>7. ASSUME puppets' = puppets \union {NewPuppet},
               resident' \in {resident, resident \union {NewPuppet.key}}, Fails
        PROVE  RowsOK' /\ SessionsOK' /\ OutputsOK' /\ EchoFollowsState'
    <2>1. puppets \subseteq puppets' /\ resident \subseteq resident'
      BY <1>7
    <2>2. SessionsOK' /\ OutputsOK' /\ EchoFollowsState'
      BY <1>5, <1>7, <2>1, FailsStep
    <2>3. RowsOK'
      BY <1>3, <1>5, <1>7, PuppetRows
    <2> QED BY <2>2, <2>3
  <1>8. CASE Fails /\ UNCHANGED <<puppets, resident>>
    <2>1. SessionsOK' /\ OutputsOK' /\ EchoFollowsState'
      BY <1>5, <1>8, FailsStep
    <2> QED BY <1>5, <1>8, <2>1 DEF RowsOK
  <1> QED BY <1>6, <1>7, <1>8 DEF CreatePuppet

\* An entry: by a resident puppet, or the list again.
LEMMA EnterStep ==
  ASSUME SessionsOK, OutputsOK, EchoFollowsState, driving # NoOne, Enter
  PROVE  SessionsOK' /\ OutputsOK' /\ EchoFollowsState'
  <1>1. PICK s \in Sids : s = driving
    BY Driven
  <1>2. PICK st : st = state[s]
    OBVIOUS
  <1>3. /\ Awaiting(st) /\ Fits(accounts, puppets, resident, st, effect, claim[s])
        /\ st.at = "AwaitingEnter"
    BY <1>1, <1>2, Driven DEF Enter
  <1>4. effect.puppet = st.chosen
    <2>1. effect = [kind |-> "Enter", account |-> st.account, puppet |-> st.chosen]
      BY <1>3 DEF Fits
    <2> QED BY <2>1
  <1>5. accounts' = accounts /\ puppets' = puppets /\ resident' = resident
    BY DEF Enter, dbVars
  <1>6. CASE st.chosen \in resident
    <2>1. Feed(Result("Entered"))
      BY <1>4, <1>6 DEF Enter
    <2>2. PICK t : t = DispatchEffect(st, Result("Entered"))
      OBVIOUS
    <2>3. /\ TurnFits(s, t, accounts', puppets', resident')
          /\ t.effect = NoEffect /\ ~CollectsSecret(t.state) /\ t.messages # <<"Prompt">>
      BY <1>3, <1>5, <1>6, <2>2, EnteredTurn
    <2>4. /\ TurnFits(driving, t, accounts', puppets', resident')
          /\ t = DispatchEffect(state[driving], Result("Entered"))
      BY <1>1, <1>2, <2>2, <2>3
    <2> QED BY <1>5, <2>1, <2>3, <2>4, FeedStep
  <1>7. CASE st.chosen \notin resident
    <2>1. Fails
      BY <1>4, <1>7 DEF Enter, Fails
    <2> QED BY <1>5, <2>1, FailsStep
  <1> QED BY <1>6, <1>7

-----------------------------------------------------------------------------
\* A line typed while nobody is driven.
LEMMA OnInputStep ==
  ASSUME SessionsOK, OutputsOK, EchoFollowsState, NEW s \in Sids, OnInput(s)
  PROVE  SessionsOK' /\ OutputsOK' /\ EchoFollowsState'
  <1>1. PICK st : st = state[s]
    OBVIOUS
  <1>2. /\ driving = NoOne /\ st.at \notin {"Absent", "InWorld"}
        /\ accounts' = accounts /\ puppets' = puppets /\ resident' = resident
    BY <1>1 DEF OnInput, dbVars
  <1>3. Fits(accounts, puppets, resident, st, NoEffect, claim[s])
    BY <1>1, <1>2, LoginAssumption DEF SessionsOK, EffectOf
  <1>4. PICK t \in DispatchInput(st) : Drive(s, t, <<>>, <<>>) /\ Claimed(s, t)
    BY <1>1 DEF OnInput
  <1>5. TurnFits(s, t, accounts, puppets, resident)
    BY <1>1, <1>2, <1>3, InputTurn
  <1>6. /\ Sound(t) /\ Fits(accounts', puppets', resident', Landed(t), t.effect, NewClaim(s, t))
        /\ t.effect # NoEffect => Landed(t) = t.state
    BY <1>2, <1>5 DEF TurnFits
  <1>7. /\ accounts \subseteq accounts' /\ puppets \subseteq puppets' /\ resident \subseteq resident'
        /\ driving \in {NoOne, s} /\ state[s].at # "Absent"
    BY <1>1, <1>2
  <1>8. PICK sent, held \in {<<>>, <<"Line">>} : sent = <<>> /\ held = <<>>
    OBVIOUS
  <1>9. Drive(s, t, sent, held)
    BY <1>4, <1>8
  <1> QED BY <1>4, <1>6, <1>7, <1>8, <1>9, TurnStep

\* A connection, or the end of one: the session starts over.
LEMMA EndsStep ==
  ASSUME SessionsOK, OutputsOK, EchoFollowsState, NEW s \in Sids, Connect(s) \/ Disconnect(s)
  PROVE  SessionsOK' /\ OutputsOK' /\ EchoFollowsState'
  <1>1. /\ driving = NoOne /\ driving' = driving /\ effect' = effect
        /\ accounts' = accounts /\ puppets' = puppets /\ resident' = resident
        /\ pending' = pending /\ outputs' = outputs
        /\ echo' = [echo EXCEPT ![s] = "Enabled"]
    BY DEF Connect, Disconnect, dbVars
  <1>2. PICK st : st \in {At("Anon"), At("Absent")} /\ state' = [state EXCEPT ![s] = st]
    BY DEF Connect, Disconnect
  <1>3. claim' = claim \/ claim' = [claim EXCEPT ![s] = NoClaim]
    BY DEF Connect, Disconnect
  <1>4. DOMAIN state = Sids /\ claim = [d \in Sids |-> claim[d]] /\ state = [d \in Sids |-> state[d]]
    BY DEF SessionsOK
  <1>5. /\ DOMAIN state' = Sids /\ state' = [d \in Sids |-> state'[d]]
        /\ state'[s] = st /\ \A d \in Sids \ {s} : state'[d] = state[d]
    BY <1>2, <1>4
  <1>6. claim' = [d \in Sids |-> claim'[d]] /\ \A d \in Sids \ {s} : claim'[d] = claim[d]
    BY <1>3, <1>4
  <1>7. ASSUME NEW d \in Sids
        PROVE  Fits(accounts', puppets', resident', state'[d], EffectOf(d)', claim'[d])
    <2>1. EffectOf(d)' = NoEffect /\ EffectOf(d) = NoEffect
      BY <1>1, LoginAssumption DEF EffectOf
    <2>2. CASE d = s
      BY <1>2, <1>5, <2>1, <2>2, PlainFits
    <2>3. CASE d # s
      BY <1>1, <1>5, <1>6, <2>1, <2>3 DEF SessionsOK
    <2> QED BY <2>2, <2>3
  <1>8. SessionsOK'
    BY <1>1, <1>5, <1>6, <1>7 DEF SessionsOK
  <1>9. OutputsOK'
    BY <1>1 DEF OutputsOK
  <1>10. EchoFollowsState'
    <2>1. ~CollectsSecret(st)
      BY <1>2 DEF At, CollectsSecret
    <2> QED BY <1>1, <1>5, <2>1 DEF EchoFollowsState, OutputsOK
  <1> QED BY <1>8, <1>9, <1>10

\* The process restarts: rows stay, and every session is gone.
LEMMA RestartStep ==
  ASSUME RowsOK, Restart
  PROVE  LoginProofInv'
  <1>1. PICK e, st, c : /\ e = [d \in Sids |-> "Enabled"] /\ st = [d \in Sids |-> At("Absent")]
                        /\ c = [d \in Sids |-> NoClaim]
    OBVIOUS
  <1>2. /\ accounts' = accounts /\ puppets' = puppets /\ resident' = {p.key : p \in puppets}
        /\ state' = st /\ driving' = NoOne /\ effect' = NoEffect
        /\ pending' = <<>> /\ outputs' = <<>> /\ echo' = e /\ claim' = c
    BY <1>1 DEF Restart
  <1>3. RowsOK'
    BY <1>2 DEF RowsOK
  <1>4. ASSUME NEW d \in Sids
        PROVE  Fits(accounts', puppets', resident', state'[d], EffectOf(d)', claim'[d])
    <2>1. EffectOf(d)' = NoEffect /\ state'[d] = At("Absent")
      BY <1>1, <1>2 DEF EffectOf
    <2> QED BY <2>1, PlainFits
  <1>5. SessionsOK'
    BY <1>1, <1>2, <1>4 DEF SessionsOK
  <1>6. OutputsOK'
    BY <1>1, <1>2 DEF OutputsOK
  <1>7. EchoFollowsState'
    BY <1>1, <1>2 DEF EchoFollowsState, At
  <1> QED BY <1>3, <1>5, <1>6, <1>7 DEF LoginProofInv

\* A new tenant is in order, with an account or none.
LEMMA InitOK == Init => LoginProofInv
  <1> SUFFICES ASSUME Init PROVE LoginProofInv
    OBVIOUS
  <1>1. RowsOK
    <2>1. IsFiniteSet(puppets)
      BY FS_EmptySet DEF Init
    <2>2. /\ accounts \subseteq [id : Ids, username : Usernames, password : Passwords,
                                 state : AccountStates]
          /\ \A r, q \in accounts : r.username = q.username => r = q
      <3>1. CASE accounts = {}
        BY <3>1
      <3>2. ASSUME NEW u \in Usernames, NEW pw \in Passwords, NEW st \in AccountStates,
                   accounts = {[id |-> 1, username |-> u, password |-> pw, state |-> st]}
            PROVE  <2>2
        <4>1. IsFiniteSet(Usernames) /\ Usernames # {}
          BY LoginAssumption
        <4>2. Cardinality(Usernames) \in Nat /\ Cardinality(Usernames) # 0
          BY <4>1, FS_CardinalityType, FS_EmptySet
        <4>3. 1 \in Ids
          BY <4>2 DEF Ids
        <4> QED BY <3>2, <4>3
      <3> QED BY <3>1, <3>2 DEF Init
    <2> QED BY <2>1, <2>2 DEF Init, RowsOK
  <1>2. ASSUME NEW d \in Sids
        PROVE  Fits(accounts, puppets, resident, state[d], EffectOf(d), claim[d])
    <2>1. EffectOf(d) = NoEffect /\ state[d] = At("Absent")
      BY DEF Init, EffectOf
    <2> QED BY <2>1, PlainFits
  <1>3. SessionsOK
    BY <1>2 DEF Init, SessionsOK
  <1>4. OutputsOK
    BY DEF Init, OutputsOK
  <1>5. EchoFollowsState
    BY DEF Init, EchoFollowsState, At
  <1> QED BY <1>1, <1>3, <1>4, <1>5 DEF LoginProofInv

\* Every step of the system keeps sessions, rows, outputs and echo in order.
LEMMA StepOK == LoginProofInv /\ [Next]_vars => LoginProofInv'
  <1> SUFFICES ASSUME LoginProofInv, [Next]_vars PROVE LoginProofInv'
    OBVIOUS
  <1>1. RowsOK /\ SessionsOK /\ OutputsOK /\ EchoFollowsState
    BY DEF LoginProofInv
  <1>2. ASSUME NEW s \in Sids, Connect(s) \/ Disconnect(s) PROVE LoginProofInv'
    <2>1. accounts' = accounts /\ puppets' = puppets /\ resident' = resident
      BY <1>2 DEF Connect, Disconnect, dbVars
    <2>2. RowsOK'
      BY <1>1, <2>1 DEF RowsOK
    <2> QED BY <1>1, <1>2, <2>2, EndsStep DEF LoginProofInv
  <1>3. ASSUME NEW s \in Sids, OnInput(s) PROVE LoginProofInv'
    <2>1. accounts' = accounts /\ puppets' = puppets /\ resident' = resident
      BY <1>3 DEF OnInput, dbVars
    <2>2. RowsOK'
      BY <1>1, <2>1 DEF RowsOK
    <2> QED BY <1>1, <1>3, <2>2, OnInputStep DEF LoginProofInv
  <1>4. CASE driving # NoOne /\ (Authenticate \/ Enter)
    <2>1. accounts' = accounts /\ puppets' = puppets /\ resident' = resident
      BY <1>4 DEF Authenticate, Enter, dbVars
    <2>2. RowsOK'
      BY <1>1, <2>1 DEF RowsOK
    <2> QED BY <1>1, <1>4, <2>2, AuthenticateStep, EnterStep DEF LoginProofInv
  <1>5. CASE driving # NoOne /\ Register
    BY <1>1, <1>5, RegisterStep DEF LoginProofInv
  <1>6. CASE driving # NoOne /\ CreatePuppet
    BY <1>1, <1>6, CreatePuppetStep DEF LoginProofInv
  <1>7. CASE Restart
    BY <1>1, <1>7, RestartStep
  <1>8. CASE UNCHANGED vars
    BY <1>8 DEF LoginProofInv, RowsOK, SessionsOK, OutputsOK, EchoFollowsState, EffectOf,
                vars, dbVars, outVars
  <1> QED BY <1>2, <1>3, <1>4, <1>5, <1>6, <1>7, <1>8 DEF Next, Perform

-----------------------------------------------------------------------------
\* Of any number of sessions, accounts and puppets: sessions, rows, the effect
\* under way, the claims and the echo fit one another in every state.
THEOREM LoginCorrect == Spec => []LoginProofInv
  <1>1. Init => LoginProofInv
    BY InitOK
  <1>2. LoginProofInv /\ [Next]_vars => LoginProofInv'
    BY StepOK
  <1> QED BY <1>1, <1>2, PTL DEF Spec

\* Rows and sessions stay in their ranges, and a session awaits an effect exactly
\* while its line is being driven: no result is lost and none is waited for
\* twice (session/mod.rs drive).
THEOREM LoginSound == Spec => []LoginInv
  <1>1. LoginProofInv => LoginInv
    <2> SUFFICES ASSUME LoginProofInv PROVE LoginInv
      OBVIOUS
    <2>1. RowsOK /\ SessionsOK /\ OutputsOK
      BY DEF LoginProofInv
    <2>2. ASSUME NEW s \in Sids PROVE Awaiting(state[s]) <=> driving = s
      <3>1. CASE driving = s
        BY <2>1, <3>1, LoginAssumption DEF SessionsOK
      <3>2. CASE driving # s
        <4>1. Fits(accounts, puppets, resident, state[s], NoEffect, claim[s])
          BY <2>1, <3>2 DEF SessionsOK, EffectOf
        <4> QED BY <3>2, <4>1, IdleFits
      <3> QED BY <3>1, <3>2
    <2>3. driving = NoOne <=> effect = NoEffect
      <3>1. CASE driving = NoOne
        BY <2>1, <3>1 DEF SessionsOK
      <3>2. CASE driving # NoOne
        <4>1. /\ Awaiting(state[driving])
              /\ Fits(accounts, puppets, resident, state[driving], effect, claim[driving])
          BY <2>1, <3>2, Driven
        <4> QED BY <3>2, <4>1, IdleFits
      <3> QED BY <3>1, <3>2
    <2>4. LoginTypeOK
      BY <2>1, <2>3 DEF LoginTypeOK, RowsOK, OutputsOK
    <2> QED BY <2>2, <2>4 DEF LoginInv, AwaitingIsDriven
  <1> QED BY <1>1, LoginCorrect, PTL

\* A session past the password acts for an active account it gave the username
\* and password of, and lists, chooses and controls that account's own puppets,
\* in the order displayed (fsm.rs, mud-db accounts.rs).
THEOREM LoginActsForItsAccount == Spec => []ActsForItsAccount
  <1>1. LoginProofInv => ActsForItsAccount
    <2> SUFFICES ASSUME LoginProofInv PROVE ActsForItsAccount
      OBVIOUS
    <2>1. RowsOK /\ \A s \in Sids : Fits(accounts, puppets, resident, state[s], EffectOf(s), claim[s])
      BY DEF LoginProofInv, SessionsOK
    <2>2. Identified
      BY <2>1 DEF Identified, HasAccount, RowsOK, Fits, Proved
    <2>3. ASSUME NEW s \in Sids, NEW st, st = state[s], NEW list, list = ListOf(st)
          PROVE  /\ \A n \in 1 .. Len(list) : OwnedBy(st.account, list[n])
                 /\ \A m, n \in 1 .. Len(list) : m < n => list[m] < list[n]
                 /\ st.at = "AwaitingEnter" => st.chosen \in {list[n] : n \in 1 .. Len(list)}
                 /\ st.at = "InWorld" => OwnedBy(st.account, st.puppet) /\ st.puppet \in resident
      <3>1. Fits(accounts, puppets, resident, st, EffectOf(s), claim[s]) /\ Shape(st)
        BY <2>1, <2>3 DEF Fits
      <3>2. CASE st.at \in {"PuppetSelect", "AwaitingCreate", "AwaitingEnter"}
        <4>1. Lists(puppets, st.account, st.puppets)
          BY <3>1, <3>2 DEF Fits
        <4>2. list = st.puppets
          BY <2>3, <3>1, <3>2 DEF Shape, ListOf, PuppetSelect, AwaitingCreate, AwaitingEnter
        <4> QED BY <3>1, <3>2, <4>1, <4>2 DEF Fits, Lists, Owns, OwnedBy, Matches
      <3>3. CASE st.at \notin {"PuppetSelect", "AwaitingCreate", "AwaitingEnter"}
        <4>1. list = <<>>
          BY <2>3, <3>1, <3>3 DEF Shape, ListOf, At, LoginPassword, RegisterPassword,
                                  RegisterConfirm, InWorld
        <4> QED BY <3>1, <3>3, <4>1 DEF Fits, Owns, OwnedBy
      <3> QED BY <3>2, <3>3
    <2>4. OwnPuppets
      BY <2>3 DEF OwnPuppets
    <2> QED BY <2>2, <2>4 DEF ActsForItsAccount
  <1> QED BY <1>1, LoginCorrect, PTL

\* What is typed as a secret is never echoed: the echo is off exactly while a
\* password is asked for, and its prompt lands after the change, last of its
\* block (session/mod.rs drive).
THEOREM LoginSecretsMasked == Spec => []SecretsMasked
  <1>1. LoginProofInv => SecretsMasked
    <2> SUFFICES ASSUME LoginProofInv PROVE SecretsMasked
      OBVIOUS
    <2>1. OutputsOK /\ EchoFollowsState
      BY DEF LoginProofInv
    <2>2. ASSUME NEW n \in 1 .. Len(outputs), NEW b, b = outputs[n],
                 NEW m \in 1 .. Len(b.kinds), b.kinds[m] = "Prompt"
          PROVE  b.echo = "Suppressed" /\ m = Len(b.kinds)
      <3>1. outputs # <<>>
        BY <2>2
      <3>2. PICK e \in {"Enabled", "Suppressed"} :
              outputs \in {<<[kinds |-> <<"Line">>, echo |-> e]>>,
                           <<[kinds |-> <<"Line", "Line">>, echo |-> e]>>,
                           <<[kinds |-> <<"Prompt">>, echo |-> "Suppressed"]>>}
        BY <2>1, <3>1 DEF OutputsOK
      <3>3. n = 1
        <4>1. PICK x : outputs = <<x>>
          BY <3>2
        <4>2. Len(outputs) = 1
          BY <4>1
        <4> QED BY <2>2, <4>2
      <3>4. CASE outputs = <<[kinds |-> <<"Prompt">>, echo |-> "Suppressed"]>>
        <4>1. b.kinds = <<"Prompt">> /\ b.echo = "Suppressed"
          BY <2>2, <3>3, <3>4
        <4>2. Len(b.kinds) = 1
          BY <4>1
        <4> QED BY <2>2, <4>1, <4>2
      <3>5. CASE outputs = <<[kinds |-> <<"Line">>, echo |-> e]>>
        <4>1. b.kinds = <<"Line">>
          BY <2>2, <3>3, <3>5
        <4>2. Len(b.kinds) = 1 /\ b.kinds[1] = "Line"
          BY <4>1
        <4>3. m = 1
          BY <2>2, <4>2
        <4> QED BY <2>2, <4>2, <4>3
      <3>6. CASE outputs = <<[kinds |-> <<"Line", "Line">>, echo |-> e]>>
        <4>1. b.kinds = <<"Line", "Line">>
          BY <2>2, <3>3, <3>6
        <4>2. Len(b.kinds) = 2 /\ b.kinds[1] = "Line" /\ b.kinds[2] = "Line"
          BY <4>1
        <4>3. m = 1 \/ m = 2
          BY <2>2, <4>2
        <4> QED BY <2>2, <4>2, <4>3
      <3> QED BY <3>2, <3>4, <3>5, <3>6
    <2>3. PromptsMasked
      BY <2>2 DEF PromptsMasked
    <2> QED BY <2>1, <2>3 DEF SecretsMasked
  <1> QED BY <1>1, LoginCorrect, PTL

==============================================================================
