-------------------------- MODULE RateLimiterProofs --------------------------
(***************************************************************************)
(* The bound of RateLimiter on what one session's commands cost the World, *)
(* and that it drops nothing else, for every rate, burst and behaviour of  *)
(* the clock.                                                              *)
(***************************************************************************)
EXTENDS RateLimiter, TLAPS

\* What a window let in is still in the bucket or had the time to drain.
WindowInBucket == since <= last /\ admitted <= level + (last - since)

\* The bucket holds what the spell poured in less what has drained: the level
\* never forgives work by a reading that goes back, nor counts it twice.
LevelOwed == idle <= last /\ (level = 0 \/ level = poured - (last - idle))

\* A drop found the bucket too full for one command.
DropFull == decision = "Drop" => level + Unit > Capacity

LimiterInv == LimiterTypeOK /\ WindowInBucket /\ LevelOwed /\ DropFull

LEMMA CapacityIsNat == Capacity \in Nat /\ Unit <= Capacity /\ Unit \in Nat \ {0}
<1>1. Unit \in Nat \ {0} /\ Burst \in Nat \ {0}
  BY LimiterAssumption
<1>2. Burst * Unit \in Nat /\ Burst * Unit >= Unit
  <2>1. Burst * Unit \in Nat
    BY <1>1
  <2>2. PICK b \in Nat : Burst = b + 1
    <3>1. Burst - 1 \in Nat /\ Burst = (Burst - 1) + 1
      BY <1>1
    <3>2. QED
      BY <3>1
  <2>3. Burst * Unit = b * Unit + Unit /\ b * Unit \in Nat
    BY <1>1, <2>2
  <2>4. QED
    BY <1>1, <2>1, <2>3
<1>3. QED
  BY <1>1, <1>2 DEF Capacity

\* The initial bucket is empty and no time has passed.
LEMMA InvInit == Init => LimiterInv
BY CapacityIsNat, LimiterAssumption
   DEF Init, LimiterInv, LimiterTypeOK, WindowInBucket, LevelOwed, DropFull, Time, Larger

\* A check moves the reading forwards and pours in one command or none.
LEMMA InvCheck ==
  ASSUME LimiterInv, NEW now \in Time, Check(now)
  PROVE  LimiterInv'
<1>1. /\ level \in Int /\ 0 <= level /\ level <= Capacity
      /\ last \in Int /\ now \in Int /\ since \in Int /\ idle \in Int
      /\ admitted \in Nat /\ poured \in Nat /\ Unit \in Nat \ {0} /\ Capacity \in Int
  BY CapacityIsNat, LimiterAssumption DEF LimiterInv, LimiterTypeOK, Time
<1>2. PICK step \in Nat : last' = last + step /\ last' \in Time
  <2>1. last' = Larger(last, now) /\ last \in Time
    BY DEF Check, LimiterInv, LimiterTypeOK
  <2>2. last' \in Time
    BY <2>1 DEF Larger
  <2>3. CASE last >= now
    <3>1. last' = last + 0
      BY <1>1, <2>1, <2>3 DEF Larger
    <3>2. QED
      BY <2>2, <3>1
  <2>4. CASE ~(last >= now)
    <3>1. last' = now /\ now - last \in Nat
      BY <1>1, <2>1, <2>4 DEF Larger
    <3>2. PICK step \in Nat : now - last = step
      BY <3>1
    <3>3. now = last + step
      BY <1>1, <3>2
    <3>4. QED
      BY <2>2, <3>1, <3>3
  <2>5. QED
    BY <2>3, <2>4
<1>3. PICK d \in Nat : /\ d <= level /\ d >= level - step /\ (d = 0 \/ d = level - step)
                       /\ d = Drained(now)
  <2>1. /\ Drained(now) \in Nat /\ Drained(now) <= level
        /\ (Drained(now) = 0 /\ level <= step) \/ Drained(now) = level - step
    BY <1>1, <1>2 DEF Check, Drained, Elapsed, Larger
  <2>2. QED
    BY <1>1, <2>1
<1>4. PICK pour \in Nat :
        /\ level' = d + pour
        /\ \/ d + Unit <= Capacity /\ decision' = "Forward" /\ pour = Unit
           \/ ~(d + Unit <= Capacity) /\ decision' = "Drop" /\ pour = 0
        /\ admitted' = admitted + pour /\ since' = since
        /\ d = 0 => idle' = last' /\ poured' = pour
        /\ d # 0 => idle' = idle /\ poured' = poured + pour
  <2>1. CASE Fits(now)
    <3>1. level' = d + Unit /\ decision' = "Forward" /\ d + Unit <= Capacity
      BY <1>3, <2>1 DEF Check, Fits
    <3>2. level' - d = Unit
      BY <1>1, <1>3, <3>1
    <3>3. QED
      BY <1>1, <1>3, <3>1, <3>2 DEF Check
  <2>2. CASE ~Fits(now)
    <3>1. level' = d /\ decision' = "Drop" /\ ~(d + Unit <= Capacity)
      BY <1>3, <2>2 DEF Check, Fits
    <3>2. level' - d = 0 /\ level' = d + 0
      BY <1>1, <1>3, <3>1
    <3>3. /\ admitted' = admitted + 0 /\ since' = since
          /\ d = 0 => idle' = last' /\ poured' = 0
          /\ d # 0 => idle' = idle /\ poured' = poured + 0
      <4>1. level' - Drained(now) = 0
        BY <1>3, <3>2
      <4>2. QED
        BY <1>1, <1>3, <4>1 DEF Check
    <3>4. QED
      BY <3>1, <3>2, <3>3
  <2>3. QED
    BY <2>1, <2>2
<1>5. level' \in Int /\ 0 <= level' /\ level' <= Capacity
  BY <1>1, <1>3, <1>4
<1>6. LimiterTypeOK'
  <2>1. idle' \in Time /\ since' \in Time
    BY <1>2, <1>4 DEF LimiterInv, LimiterTypeOK
  <2>2. poured' \in Nat /\ admitted' \in Nat
    BY <1>1, <1>4
  <2>3. decision' \in {"None", "Forward", "Drop"}
    BY <1>4
  <2>4. level' \in 0 .. Capacity
    BY <1>1, <1>5
  <2>5. QED
    BY <1>2, <2>1, <2>2, <2>3, <2>4 DEF LimiterTypeOK
<1>7. WindowInBucket'
  <2>1. since <= last /\ admitted <= level + (last - since)
    BY DEF LimiterInv, WindowInBucket
  <2>2. since' <= last' /\ admitted' <= level' + (last' - since')
    BY <1>1, <1>2, <1>3, <1>4, <2>1
  <2>3. QED
    BY <2>2 DEF WindowInBucket
<1>8. LevelOwed'
  <2>1. idle <= last /\ (level = 0 \/ level = poured - (last - idle))
    BY DEF LimiterInv, LevelOwed
  <2>2. CASE d = 0
    <3>1. idle' = last' /\ poured' = pour /\ level' = pour
      BY <1>4, <2>2
    <3>2. idle' <= last' /\ level' = poured' - (last' - idle')
      BY <1>1, <1>2, <1>4, <3>1
    <3>3. QED
      BY <3>2 DEF LevelOwed
  <2>3. CASE d # 0
    <3>1. level = poured - (last - idle) /\ d = level - step
      BY <1>1, <1>2, <1>3, <2>1, <2>3
    <3>2. idle' = idle /\ poured' = poured + pour
      BY <1>4, <2>3
    <3>3. idle' <= last' /\ level' = poured' - (last' - idle')
      BY <1>1, <1>2, <1>3, <1>4, <2>1, <3>1, <3>2
    <3>4. QED
      BY <3>3 DEF LevelOwed
  <2>4. QED
    BY <2>2, <2>3
<1>9. DropFull'
  BY <1>1, <1>3, <1>4 DEF DropFull
<1>10. QED
  BY <1>6, <1>7, <1>8, <1>9 DEF LimiterInv

\* A window opens, or nothing happens.
LEMMA InvWatch ==
  ASSUME LimiterInv, Watch \/ UNCHANGED vars
  PROVE  LimiterInv'
BY CapacityIsNat
   DEF LimiterInv, LimiterTypeOK, WindowInBucket, LevelOwed, DropFull, Watch, vars,
       limiter, window, spell, Time

\* The invariant of the limiter: it holds in every reachable state
\* (ratelimit.rs:82-93).
THEOREM LimiterCorrect == Spec => []LimiterInv
<1>1. LimiterInv /\ [Next]_vars => LimiterInv'
  BY InvCheck, InvWatch DEF Next
<1>2. QED
  BY InvInit, <1>1, PTL DEF Spec

\* For every rate and burst: the bucket's level stays between empty and full.
THEOREM LimiterTypes == Spec => []LimiterTypeOK
BY LimiterCorrect, PTL DEF LimiterInv

\* For every rate and burst, and whatever the clock does: what any window lets
\* in is at most the burst and the sustained rate times its length.
THEOREM LimiterBounds == Spec => []WindowBounded
<1>1. LimiterInv => WindowBounded
  BY CapacityIsNat DEF LimiterInv, LimiterTypeOK, WindowInBucket, WindowBounded, Time
<1>2. QED
  BY LimiterCorrect, <1>1, PTL

\* For every rate and burst: only a command in excess of both is dropped.
THEOREM LimiterFair == Spec => []DropsOnlyExcess
<1>1. LimiterInv => DropsOnlyExcess
  <2>1. SUFFICES ASSUME LimiterInv, decision = "Drop"
                 PROVE  poured + Unit > Capacity + (last - idle)
    BY DEF DropsOnlyExcess
  <2>2. level + Unit > Capacity /\ (level = 0 \/ level = poured - (last - idle))
    BY <2>1 DEF LimiterInv, DropFull, LevelOwed
  <2>3. QED
    BY <2>1, <2>2, CapacityIsNat DEF LimiterInv, LimiterTypeOK, Time
<1>2. QED
  BY LimiterCorrect, <1>1, PTL

\* For every rate and burst: both bounds hold in every reachable state.
THEOREM LimiterBoth == Spec => []LimiterBounded
BY LimiterTypes, LimiterBounds, PTL DEF LimiterBounded
=============================================================================
