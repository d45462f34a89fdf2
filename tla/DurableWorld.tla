----------------------------- MODULE DurableWorld -----------------------------
(***************************************************************************)
(* What a tenant's world promises its players across crashes, in terms of  *)
(* durable names only (EntityKey and room slug): an entity is moved, born  *)
(* and destroyed one at a time and only while the server runs, a destroyed *)
(* entity never returns, and stopping and starting move nobody.            *)
(***************************************************************************)
CONSTANTS
  Keys,    (* the EntityKeys                                                *)
  Slugs,   (* the durable names of rooms                                    *)
  NoSlug   (* located nowhere                                               *)

VARIABLES
  used,    (* the keys ever given to an entity                              *)
  alive,   (* the keys of the entities that exist                           *)
  place,   (* place[k]: the room of entity k                                *)
  running  (* whether the server runs                                       *)

Init ==
  /\ used = {}
  /\ alive = {}
  /\ place = [k \in Keys |-> NoSlug]
  /\ running = FALSE

Born(k, at) ==
  /\ running
  /\ k \notin used
  /\ used' = used \union {k}
  /\ alive' = alive \union {k}
  /\ place' = [place EXCEPT ![k] = at]
  /\ UNCHANGED running

Destroyed(k) ==
  /\ running
  /\ k \in alive
  /\ alive' = alive \ {k}
  /\ place' = [place EXCEPT ![k] = NoSlug]
  /\ UNCHANGED <<used, running>>

Moved(k, at) ==
  /\ running
  /\ k \in alive
  /\ place' = [place EXCEPT ![k] = at]
  /\ UNCHANGED <<used, alive, running>>

Restart == running' = ~running /\ UNCHANGED <<used, alive, place>>

Next ==
  \/ \E k \in Keys : Destroyed(k) \/ \E at \in Slugs \union {NoSlug} : Born(k, at) \/ Moved(k, at)
  \/ Restart

Spec == Init /\ [][Next]_<<used, alive, place, running>>
=============================================================================
