----------------------------- MODULE MCWorldLoop -----------------------------
(***************************************************************************)
(* WorldLoop in a world where every room has a way to every other.         *)
(***************************************************************************)
EXTENDS WorldLoop

AllRooms == [r \in Slugs |-> Slugs \ {r}]
=============================================================================
