--------------------------- MODULE HandleAllocator ---------------------------
(***************************************************************************)
(* What an entity arena promises, without slots or generations: a handle   *)
(* is given out at most once in the life of the arena, and a handle given  *)
(* back is dead for good.                                                  *)
(***************************************************************************)
CONSTANT Handles

VARIABLES
  live,   (* the handles that name an entity                                *)
  dead    (* the handles that did and never will again                      *)

Init == live = {} /\ dead = {}

Alloc(h) ==
  /\ h \notin live \union dead
  /\ live' = live \union {h}
  /\ UNCHANGED dead

Release(h) ==
  /\ h \in live
  /\ live' = live \ {h}
  /\ dead' = dead \union {h}

Next == \E h \in Handles : Alloc(h) \/ Release(h)

Spec == Init /\ [][Next]_<<live, dead>>
=============================================================================
