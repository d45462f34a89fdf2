----------------------------- MODULE RateLimiter -----------------------------
(***************************************************************************)
(* The leaky bucket that admits the commands of one session (mud-net       *)
(* ratelimit.rs, called by mud-gateway connection.rs).  Time and the       *)
(* bucket's level are measured in the unit the bucket drains in one tick   *)
(* of the clock, so that a command pours Unit into it and Unit ticks drain *)
(* one command: the sustained rate is one command per Unit ticks.  The     *)
(* code keeps the level in an f64; the model's is exact.                   *)
(***************************************************************************)
EXTENDS Integers

CONSTANTS
  Unit,      (* ticks in which one command drains: the clock rate over the rate *)
  Burst,     (* commands the bucket holds                                    *)
  MaxTime    (* bound: the latest reading of the clock                       *)

ASSUME LimiterAssumption ==
  Unit \in Nat \ {0} /\ Burst \in Nat \ {0} /\ MaxTime \in Nat

Capacity == Burst * Unit
Time     == 0 .. MaxTime

VARIABLES
  level, last,       (* RateLimiter: undrained work, latest reading         *)
  decision,          (* what the last check answered                        *)
  (* What the properties observe, not in the code: *)
  since, admitted,   (* a window opened at any time, the work let in since  *)
  idle, poured       (* when the bucket was last empty, the work let in since *)

limiter == <<level, last, decision>>
window  == <<since, admitted>>
spell   == <<idle, poured>>
vars    == <<limiter, window, spell>>

Larger(a, b) == IF a >= b THEN a ELSE b

\* What has drained from the bucket by now.  A reading earlier than the last
\* one drains nothing.
Elapsed(now)  == Larger(now - last, 0)
DrainedBelowEmpty(now) == level - Elapsed(now)   \* mutant: no floor
DrainedEitherWay(now) ==                         \* mutant: time that runs back drains
  Larger(level - Larger(now - last, last - now), 0)
Drained(now) == Larger(level - Elapsed(now), 0)

\* check: one command at the reading now.
FitsEmpty(now) == Drained(now) = 0               \* mutant: no burst
Fits(now) == Drained(now) + Unit <= Capacity

Check(now) ==
  /\ last' = Larger(last, now)
  /\ \/ Fits(now)  /\ decision' = "Forward" /\ level' = Drained(now) + Unit
     \/ ~Fits(now) /\ decision' = "Drop"    /\ level' = Drained(now)
  /\ LET in    == level' - Drained(now)
         empty == Drained(now) = 0
     IN  /\ admitted' = admitted + in /\ UNCHANGED since
         /\ idle'   = IF empty THEN last' ELSE idle
         /\ poured' = (IF empty THEN 0 ELSE poured) + in

\* A window over which the commands let in are counted may open at any time.
Watch == since' = last /\ admitted' = 0 /\ UNCHANGED <<limiter, spell>>

Init ==
  /\ last \in Time /\ level = 0 /\ decision = "None"
  /\ since = last /\ admitted = 0 /\ idle = last /\ poured = 0

Next == Watch \/ \E now \in Time : Check(now)
Spec == Init /\ [][Next]_vars

-----------------------------------------------------------------------------
\* The bucket's level stays between empty and full.
LimiterTypeOK ==
  /\ level \in 0 .. Capacity /\ last \in Time
  /\ decision \in {"None", "Forward", "Drop"}
  /\ since \in Time /\ admitted \in Nat /\ idle \in Time /\ poured \in Nat

\* Over every window, whenever it opened and whatever the clock did meanwhile,
\* the commands forwarded to the World are at most the burst and the sustained
\* rate times its length (ratelimit.rs:53-57, 82-93).
WindowBounded == admitted <= Capacity + (last - since)

\* A command is dropped only in a spell of the client's own making: since the
\* bucket was last empty it sent so much that this command too would exceed the
\* burst and the rate.  One that keeps to the rate is never dropped.
DropsOnlyExcess ==
  decision = "Drop" => poured + Unit > Capacity + (last - idle)

\* The two bounds together: the bucket's own, and what it means for the World.
LimiterBounded == LimiterTypeOK /\ WindowBounded
=============================================================================
