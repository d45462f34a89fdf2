-------------------------------- MODULE World --------------------------------
(***************************************************************************)
(* The mutable world of one tenant (mud-core world.rs): the arena joined   *)
(* with the location, inventory and naming side tables.  The tables are    *)
(* keyed by slot, not by handle, and never look at liveness; World checks  *)
(* a handle against the arena before it touches them.  A list is kept as a *)
(* set: no property depends on the order of occupants, items or keywords.  *)
(***************************************************************************)
EXTENDS EntityArena

CONSTANTS
  Places,    (* the PlaceIds of the loaded rooms                            *)
  NoPlace,   (* no location                                                 *)
  Keywords   (* the words an entity may answer to                           *)

ASSUME WorldAssumption == NoPlace \notin Places

VARIABLES
  location,   (* LocationOf.by_slot: the place of each slot                 *)
  occupants,  (* LocationOf.occupants: the handles in each place            *)
  contents,   (* Inventory.by_slot: the handles each slot's entity holds    *)
  keywords    (* Naming.by_slot                                             *)

tableVars == <<location, occupants, contents, keywords>>
worldVars == <<arenaVars, tableVars>>

-----------------------------------------------------------------------------
\* World::is_located_in, ::contains, ::location_of and ::inventory_of.
IsLocatedIn(e, p) == Resolves(e) /\ location[e.slot] = p
Contains(c, i)    == Resolves(c) /\ i \in contents[c.slot]
LocationOf(e)     == IF Resolves(e) THEN location[e.slot] ELSE NoPlace
InventoryOf(c)    == IF Resolves(c) THEN contents[c.slot] ELSE {}

\* World::satisfies; the precondition is optional.
NoGuard == [kind |-> "None"]
Satisfies(pre) ==
  /\ pre.kind = "LocatedIn" => IsLocatedIn(pre.entity, pre.place)
  /\ pre.kind = "Contains" => Contains(pre.container, pre.item)

-----------------------------------------------------------------------------
\* remove_occupant: drop whoever sits in place p at slot s.
Without(s, p) == {h \in occupants[p] : h.slot # s}

\* LocationOf::remove, for an entity's own slot.
RemoveLocation(e) ==
  /\ location' = [location EXCEPT ![e.slot] = NoPlace]
  /\ occupants' = [p \in Places |->
                     IF p = location[e.slot] THEN Without(e.slot, p) ELSE occupants[p]]

\* Mutant of place: the previous place keeps its occupant.
PlaceWithoutLeaving(e, at) ==
  /\ location' = [location EXCEPT ![e.slot] = at]
  /\ occupants' = [occupants EXCEPT ![at] = @ \union {e}]

\* LocationOf::place: leave the previous place, then enter the new one.
PlaceAt(e, at) ==
  /\ location' = [location EXCEPT ![e.slot] = at]
  /\ occupants' = [p \in Places |->
                     LET left == IF p = location[e.slot] THEN Without(e.slot, p)
                                                         ELSE occupants[p]
                     IN IF p = at THEN left \union {e} ELSE left]

\* Inventory::insert and ::remove: an entry is recognised by its slot.
HeldAt(s, c) == \E h \in contents[c.slot] : h.slot = s
InsertByHandle(c, i) ==                        \* mutant: compares whole handles
  contents' = [contents EXCEPT ![c.slot] = @ \union {i}]
Insert(c, i) ==
  contents' = [contents EXCEPT ![c.slot] = IF HeldAt(i.slot, c) THEN @ ELSE @ \union {i}]
Remove(c, i) ==
  contents' = [contents EXCEPT ![c.slot] = {h \in @ : h.slot # i.slot}]

-----------------------------------------------------------------------------
WorldInit ==
  /\ ArenaInit
  /\ location = [s \in SlotIndex |-> NoPlace]
  /\ occupants = [p \in Places |-> {}]
  /\ contents = [s \in SlotIndex |-> {}]
  /\ keywords = [s \in SlotIndex |-> {}]

Create(h) == Alloc(h) /\ UNCHANGED tableVars

\* Mutant of teardown: the inventory of the freed slot is not cleared.
TeardownKeepingContents(e) ==
  /\ FreeHandle(e)
  /\ RemoveLocation(e)
  /\ keywords' = [keywords EXCEPT ![e.slot] = {}]
  /\ UNCHANGED contents

\* The containers that hold e as an item keep their entry.
Teardown(e) ==
  /\ FreeHandle(e)
  /\ RemoveLocation(e)
  /\ contents' = [contents EXCEPT ![e.slot] = {}]
  /\ keywords' = [keywords EXCEPT ![e.slot] = {}]

MoveTo(e, at) ==
  /\ Resolves(e)
  /\ PlaceAt(e, at)
  /\ UNCHANGED <<arenaVars, contents, keywords>>

ClearLocation(e) ==
  /\ Resolves(e)
  /\ RemoveLocation(e)
  /\ UNCHANGED <<arenaVars, contents, keywords>>

NameEntity(e, words) ==
  /\ Resolves(e)
  /\ keywords' = [keywords EXCEPT ![e.slot] = words]
  /\ UNCHANGED <<arenaVars, location, occupants, contents>>

AddUnresolvedItem(c, i) ==                     \* mutant: the item is not resolved
  /\ Resolves(c)
  /\ Insert(c, i)
  /\ UNCHANGED <<arenaVars, location, occupants, keywords>>

InventoryAdd(c, i) ==
  /\ Resolves(c) /\ Resolves(i)
  /\ Insert(c, i)
  /\ UNCHANGED <<arenaVars, location, occupants, keywords>>

\* Only the container is resolved.
InventoryRemove(c, i) ==
  /\ Resolves(c)
  /\ Remove(c, i)
  /\ UNCHANGED <<arenaVars, location, occupants, keywords>>

-----------------------------------------------------------------------------
\* The vocabulary of write_model.rs.
Effect ==
       {[kind |-> "Create"]}
  \union [kind : {"Teardown", "ClearLocation"}, entity : EntityId]
  \union [kind : {"MoveTo"}, entity : EntityId, place : Places]
  \union [kind : {"InventoryAdd", "InventoryRemove"}, container : EntityId, item : EntityId]

Precondition ==
       {NoGuard}
  \union [kind : {"LocatedIn"}, entity : EntityId, place : Places]
  \union [kind : {"Contains"}, container : EntityId, item : EntityId]

\* Whether apply_effect performs the effect or reports TickEvent::Rejected.
Accepted(eff) ==
  /\ eff.kind = "Create" => ~Exhausted
  /\ eff.kind \in {"Teardown", "MoveTo", "ClearLocation"} => Resolves(eff.entity)
  /\ eff.kind \in {"InventoryAdd", "InventoryRemove"} => Resolves(eff.container)
  /\ eff.kind = "InventoryAdd" => Resolves(eff.item)

\* World::apply_effect; a rejected effect changes nothing.
ApplyEffect(eff) ==
  \/ eff.kind = "Create" /\ \E h \in EntityId : Create(h)
  \/ eff.kind = "Teardown" /\ Teardown(eff.entity)
  \/ eff.kind = "MoveTo" /\ MoveTo(eff.entity, eff.place)
  \/ eff.kind = "ClearLocation" /\ ClearLocation(eff.entity)
  \/ eff.kind = "InventoryAdd" /\ InventoryAdd(eff.container, eff.item)
  \/ eff.kind = "InventoryRemove" /\ InventoryRemove(eff.container, eff.item)
  \/ ~Accepted(eff) /\ UNCHANGED worldVars

WorldNext ==
  \/ \E eff \in Effect : ApplyEffect(eff)
  \/ \E e \in EntityId, words \in SUBSET Keywords : NameEntity(e, words)

WorldSpec == WorldInit /\ [][WorldNext]_worldVars

-----------------------------------------------------------------------------
\* Every table keeps its shape, and an inventory holds only handles that the
\* arena returned at some time.
WorldTypeOK ==
  /\ ArenaTypeOK
  /\ location \in [SlotIndex -> Places \union {NoPlace}]
  /\ occupants \in [Places -> SUBSET EntityId]
  /\ contents \in [SlotIndex -> SUBSET minted]
  /\ keywords \in [SlotIndex -> SUBSET Keywords]

\* The reverse index of a place is exactly the live entities whose forward
\* entry is that place: the lockstep of LocationOf, and the liveness that
\* occupants_of claims "by construction" without checking it.
OccupantsExact ==
  \A p \in Places : occupants[p] = {h \in LiveHandles : location[h.slot] = p}

\* A slot that is not live carries no location, items or keywords, so the next
\* entity in it inherits nothing from the last (what teardown clears it for).
DeadSlotsClean ==
  \A s \in SlotIndex :
    slots[s].st # "live" =>
      location[s] = NoPlace /\ contents[s] = {} /\ keywords[s] = {}

\* No container lists two handles of one slot: insert's test by slot.
OneEntryPerSlot ==
  \A s \in SlotIndex : \A h, k \in contents[s] : h.slot = k.slot => h = k

\* The tables fit the arena and each other after any sequence of operations, on
\* handles of any age and any tenant: every table keeps its shape, the free list
\* is exactly the slots to reuse, each place lists exactly who is there, nothing
\* is left in a dead slot, and no container lists a slot twice.
WorldExact ==
  WorldTypeOK /\ FreeListExact /\ OccupantsExact /\ DeadSlotsClean /\ OneEntryPerSlot
=============================================================================
