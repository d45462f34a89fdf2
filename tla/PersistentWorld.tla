--------------------------- MODULE PersistentWorld ---------------------------
(***************************************************************************)
(* The write-through world of one tenant (mud-db persistent_world.rs and   *)
(* accounts.rs): the in-memory World, the database behind it, the one to   *)
(* one map between EntityKey and EntityId, and the PlaceMap between the    *)
(* durable slug and the per-boot PlaceId of a room (World's Places).       *)
(*                                                                         *)
(* A failed database write makes tick return DbError, on which mudd stops; *)
(* so a failed write and a kill have one outcome, memory is gone and the   *)
(* database is as before the command, and both are the action Crash.       *)
(***************************************************************************)
EXTENDS World, FiniteSets, FiniteSetsExt

CONSTANTS
  MaxKey,         (* bound: the AUTOINCREMENT keys are 1 .. MaxKey           *)
  Slugs, NoSlug,  (* the durable names of rooms; no location row             *)
  NoId,           (* an absent entry of by_key                               *)
  StartRoom       (* the slug where a new puppet starts                      *)

Keys  == 1 .. MaxKey
NoKey == 0

ASSUME PersistAssumption ==
  /\ MaxKey \in Nat \ {0}
  /\ NoSlug \notin Slugs /\ StartRoom \in Slugs
  /\ NoId \notin EntityId

VARIABLES
  rows,      (* the entities table: the keys that have a row                *)
  nextKey,   (* the AUTOINCREMENT sequence                                  *)
  dbPlace,   (* the location table, by entity_key                           *)
  dbHolder,  (* the inventory table, from item_key to container_key         *)
  byKey,     (* by_key: the handle of each resident entity                  *)
  byId,      (* by_id: the key of each handle                               *)
  placeMap,  (* PlaceMap::by_id: the slug of each PlaceId of this boot      *)
  up,        (* whether the process runs                                    *)
  unplaced,  (* history: the resident keys whose location hydrate failed to *)
             (* replay and no effect has set since                          *)
  masked,    (* history: <<container, item>> of each inventory row whose    *)
             (* add memory ignored, a stale handle of the item's slot being *)
             (* listed (Inventory::insert)                                  *)
  kept       (* history: <<container, item>> where memory still lists an    *)
             (* item whose row an add to another container has replaced     *)

dbVars  == <<rows, nextKey, dbPlace, dbHolder>>
mapVars == <<byKey, byId>>
apart   == <<masked, kept>>
vars    == <<worldVars, dbVars, mapVars, placeMap, up, unplaced, apart>>

\* What PlaceMap::from_pairs builds from the loaded rooms, each parsed once
\* and given the next PlaceId: some rooms, one to one.
PlaceMaps ==
  {m \in [Places -> Slugs \union {NoSlug}] :
     \A p, q \in Places : m[p] = m[q] /\ m[p] # NoSlug => p = q}
Rooms(m)       == {m[p] : p \in Places} \ {NoSlug}
IdOf(m, slug)  == CHOOSE p \in Places : m[p] = slug
SlugAt(m, p)   == IF p = NoPlace THEN NoSlug ELSE m[p]

Resident(k) == byKey[k] # NoId

\* What memory says: the entity of key c holds the entity of key i, by handle.
Holds(c, i) == Resident(c) /\ Resident(i) /\ Contains(byKey[c], byKey[i])

-----------------------------------------------------------------------------
\* The process ends: everything but the database is gone.
Discard ==
  /\ up' = FALSE
  /\ slots' = [s \in SlotIndex |-> Vacant]
  /\ len' = 0 /\ free' = <<>> /\ minted' = {}
  /\ location' = [s \in SlotIndex |-> NoPlace]
  /\ occupants' = [p \in Places |-> {}]
  /\ contents' = [s \in SlotIndex |-> {}]
  /\ keywords' = [s \in SlotIndex |-> {}]
  /\ byKey' = [k \in Keys |-> NoId]
  /\ byId' = [h \in EntityId |-> NoKey]
  /\ placeMap' = [p \in Places |-> NoSlug]
  /\ unplaced' = {} /\ masked' = {} /\ kept' = {}

Crash == up /\ Discard /\ UNCHANGED dbVars

-----------------------------------------------------------------------------
\* load: every row in key order takes the next slot of a new arena, then the
\* location and inventory rows are replayed.
Rank(k)    == Cardinality({j \in rows : j < k})
Loaded(k)  == Own(Rank(k), FIRST)
KeyAt(s)   == CHOOSE k \in rows : Rank(k) = s
KeptInSwapped(k) == {i \in rows : dbHolder[k] = i}   \* mutant: item and container
KeptIn(k) == {i \in rows : dbHolder[i] = k}
Loadable(m) ==
  /\ Cardinality(rows) <= MaxSlots
  /\ StartRoom \in Rooms(m)
  /\ \A k \in rows : dbPlace[k] \in Rooms(m) \union {NoSlug}

Load(m) ==
  /\ ~up /\ Loadable(m)
  /\ up' = TRUE
  /\ placeMap' = m
  /\ LET n == Cardinality(rows)
         At(s) == IF s < n THEN dbPlace[KeyAt(s)] ELSE NoSlug
     IN /\ slots' = [s \in SlotIndex |-> IF s < n THEN Live(FIRST) ELSE Vacant]
        /\ len' = n /\ free' = <<>>
        /\ location' = [s \in SlotIndex |->
                          IF At(s) = NoSlug THEN NoPlace ELSE IdOf(m, At(s))]
        /\ contents' = [s \in SlotIndex |->
                          IF s < n THEN {Loaded(i) : i \in KeptIn(KeyAt(s))} ELSE {}]
  /\ minted' = {Loaded(k) : k \in rows}
  /\ occupants' = [p \in Places |->
                     {Loaded(k) : k \in {j \in rows : dbPlace[j] # NoSlug /\ dbPlace[j] = m[p]}}]
  /\ keywords' = [s \in SlotIndex |-> {}]
  /\ byKey' = [k \in Keys |-> IF k \in rows THEN Loaded(k) ELSE NoId]
  /\ byId' = [h \in EntityId |->
                IF \E k \in rows : Loaded(k) = h THEN KeyAt(h.slot) ELSE NoKey]
  /\ UNCHANGED <<dbVars, unplaced, apart>>

\* A start room or a located row's room that is not loaded, or more rows than
\* slots: the boot is refused.
LoadRefused(m) == ~up /\ ~Loadable(m) /\ UNCHANGED vars

-----------------------------------------------------------------------------
\* key_of and PlaceMap::key_of: what the durable half of apply looks up after
\* memory has changed; a miss is a DbError, which stops the process.
Mapped(eff) ==
  /\ eff.kind \in {"Teardown", "MoveTo", "ClearLocation"} => byId[eff.entity] # NoKey
  /\ eff.kind = "MoveTo" => placeMap[eff.place] # NoSlug
  /\ eff.kind \in {"InventoryAdd", "InventoryRemove"} =>
       byId[eff.item] # NoKey /\ byId[eff.container] # NoKey

\* INSERT INTO entities: the key comes from the AUTOINCREMENT sequence.
MaxRowPlusOne == IF rows = {} THEN 1 ELSE Max(rows) + 1   \* mutant: plain rowid
NewKey == nextKey
InsertRow(at) ==
  /\ NewKey <= MaxKey
  /\ rows' = rows \union {NewKey}
  /\ nextKey' = NewKey + 1
  /\ dbPlace' = [dbPlace EXCEPT ![NewKey] = at]
  /\ UNCHANGED dbHolder

MapKey(k, h) ==
  /\ byKey' = [byKey EXCEPT ![k] = h]
  /\ byId' = [byId EXCEPT ![h] = k]

\* apply_create: the row first, then the handle.
PersistCreate ==
  /\ \E h \in EntityId : Create(h) /\ InsertRow(NoSlug) /\ MapKey(NewKey, h)
  /\ UNCHANGED apart

\* persist_teardown: the schema cascades to the entity's location, to its own
\* containment and to that of everything it held.
Cascade(k) ==
  [i \in Keys |-> IF i = k \/ dbHolder[i] = k THEN NoKey ELSE dbHolder[i]]
ForgetKeyOnly(k, e) ==                                 \* mutant: by_id keeps e
  byKey' = [byKey EXCEPT ![k] = NoId] /\ UNCHANGED byId
Forget(k, e) ==
  /\ byKey' = [byKey EXCEPT ![k] = NoId]
  /\ byId' = [byId EXCEPT ![e] = NoKey]
PersistTeardown(e) ==
  LET k == byId[e] IN
  /\ Teardown(e)
  /\ rows' = rows \ {k}
  /\ dbPlace' = [dbPlace EXCEPT ![k] = NoSlug]
  /\ dbHolder' = Cascade(k)
  /\ Forget(k, e)
  /\ masked' = {m \in masked : k \notin {m[1], m[2]}}
  /\ kept' = {m \in kept : k \notin {m[1], m[2]}}
  /\ UNCHANGED nextKey

\* persist_move stores the slug, not the PlaceId of this boot.
PersistMove(e, at) ==
  /\ MoveTo(e, at)
  /\ dbPlace' = [dbPlace EXCEPT ![byId[e]] = placeMap[at]]
  /\ UNCHANGED <<rows, nextKey, dbHolder, mapVars, apart>>

ClearLocationVolatile(e) ==                    \* mutant: the row survives
  ClearLocation(e) /\ UNCHANGED <<dbVars, mapVars, apart>>
PersistClearLocation(e) ==
  /\ ClearLocation(e)
  /\ dbPlace' = [dbPlace EXCEPT ![byId[e]] = NoSlug]
  /\ UNCHANGED <<rows, nextKey, dbHolder, mapVars, apart>>

\* An upsert on item_key: a second container replaces the first in the row, and
\* joins it in memory, unless its list names a dead handle of the item's slot.
Masks(c, i) == HeldAt(i.slot, c) /\ i \notin contents[c.slot]
AddApart(c, i, old) ==
  LET here == <<byId[c], byId[i]>>
      left == <<old, byId[i]>>
  IN  /\ masked' = (masked \ {left, here}) \union (IF Masks(c, i) THEN {here} ELSE {})
      /\ kept' = (kept \union ({left} \ (masked \union {<<NoKey, byId[i]>>}))) \ {here}
FirstHolderStays(c, i) ==                      \* mutant: the insert does nothing
  dbHolder' = [dbHolder EXCEPT ![byId[i]] = IF @ = NoKey THEN byId[c] ELSE @]
UpsertHolder(c, i) == dbHolder' = [dbHolder EXCEPT ![byId[i]] = byId[c]]
PersistInventoryAdd(c, i) ==
  /\ InventoryAdd(c, i)
  /\ UpsertHolder(c, i)
  /\ AddApart(c, i, dbHolder[byId[i]])
  /\ UNCHANGED <<rows, nextKey, dbPlace, mapVars>>

\* The row goes only if it names this container.
RemoveApart(c, i) ==
  /\ masked' = masked \ {<<byId[c], byId[i]>>}
  /\ kept' = kept \ {<<byId[c], byId[i]>>}
InventoryRemoveVolatile(c, i) ==               \* mutant: the row survives
  InventoryRemove(c, i) /\ RemoveApart(c, i) /\ UNCHANGED <<dbVars, mapVars>>
PersistInventoryRemove(c, i) ==
  /\ InventoryRemove(c, i)
  /\ dbHolder' = [dbHolder EXCEPT ![byId[i]] = IF @ = byId[c] THEN NoKey ELSE @]
  /\ RemoveApart(c, i)
  /\ UNCHANGED <<rows, nextKey, dbPlace, mapVars>>

Persist(eff) ==
  /\ \/ eff.kind = "Create" /\ PersistCreate
     \/ eff.kind = "Teardown" /\ PersistTeardown(eff.entity)
     \/ eff.kind = "MoveTo" /\ PersistMove(eff.entity, eff.place)
     \/ eff.kind = "ClearLocation" /\ PersistClearLocation(eff.entity)
     \/ eff.kind = "InventoryAdd" /\ PersistInventoryAdd(eff.container, eff.item)
     \/ eff.kind = "InventoryRemove" /\ PersistInventoryRemove(eff.container, eff.item)
  /\ unplaced' = unplaced \ (IF eff.kind \in {"Teardown", "MoveTo", "ClearLocation"}
                              THEN {byId[eff.entity]} ELSE {})
  /\ UNCHANGED <<placeMap, up>>

\* PersistentWorld::apply: guard, arena, then database.
ApplyGuarded(pre, eff) ==
  /\ up
  /\ \/ ~(Satisfies(pre) /\ Accepted(eff)) /\ UNCHANGED vars
     \/ Satisfies(pre) /\ Accepted(eff) /\ Mapped(eff) /\ Persist(eff)
     \/ Satisfies(pre) /\ Accepted(eff) /\ ~Mapped(eff) /\ Discard /\ UNCHANGED dbVars

-----------------------------------------------------------------------------
\* hydrate, with the outcomes of its two queries: the handle is minted and
\* mapped before the location is read.
Replay(h, k) ==
  LET at == dbPlace[k] IN
  \/ /\ at \in Rooms(placeMap)
     /\ PlaceAt(h, IdOf(placeMap, at))
     /\ UNCHANGED unplaced
  \/ /\ unplaced' = IF at = NoSlug THEN unplaced ELSE unplaced \union {k}
     /\ UNCHANGED <<location, occupants>>

Hydrate(k) ==
  /\ up /\ k \in rows /\ ~Resident(k)
  /\ \E h \in EntityId :
       Alloc(h) /\ MapKey(k, h) /\ Replay(h, k)
  /\ UNCHANGED <<contents, keywords, dbVars, placeMap, up, apart>>

\* Accounts::create_puppet: entity, ownership and start in one transaction.
\* DbBackend::create_puppet then hydrates the key, which may fail.
CreatePuppet ==
  /\ up
  /\ InsertRow(StartRoom)
  /\ UNCHANGED <<worldVars, mapVars, placeMap, up, unplaced, apart>>

-----------------------------------------------------------------------------
Init ==
  /\ WorldInit
  /\ rows = {} /\ nextKey = 1
  /\ dbPlace = [k \in Keys |-> NoSlug]
  /\ dbHolder = [k \in Keys |-> NoKey]
  /\ byKey = [k \in Keys |-> NoId]
  /\ byId = [h \in EntityId |-> NoKey]
  /\ placeMap = [p \in Places |-> NoSlug]
  /\ up = FALSE /\ unplaced = {} /\ masked = {} /\ kept = {}

\* Submitters hold handles the arena gave them, live or stale by now, and the
\* PlaceIds of loaded rooms, and guard an effect by what they read of the
\* entities it is about.
HandlesOf(x) == {x[f] : f \in DOMAIN x \intersect {"entity", "container", "item"}}
Known(x) ==
  /\ HandlesOf(x) \subseteq minted
  /\ "place" \in DOMAIN x => placeMap[x.place] # NoSlug
GuardsFor(eff) == {pre \in Precondition : HandlesOf(pre) \subseteq HandlesOf(eff)}

Next ==
  \/ \E eff \in Effect :
       Known(eff) /\ \E pre \in GuardsFor(eff) : ApplyGuarded(pre, eff)
  \/ \E k \in Keys : Hydrate(k)
  \/ CreatePuppet
  \/ Crash
  \/ \E m \in PlaceMaps : Load(m) \/ LoadRefused(m)

Spec == Init /\ [][Next]_vars

-----------------------------------------------------------------------------
\* Every variable stays in its range, and the foreign keys of the schema hold:
\* a location or inventory row names entities that have a row.
PersistTypeOK ==
  /\ WorldTypeOK
  /\ nextKey \in 1 .. MaxKey + 1
  /\ rows \subseteq {k \in Keys : k < nextKey}
  /\ dbPlace \in [Keys -> Slugs \union {NoSlug}]
  /\ dbHolder \in [Keys -> Keys \union {NoKey}]
  /\ \A k \in Keys \ rows : dbPlace[k] = NoSlug /\ dbHolder[k] = NoKey
  /\ \A k \in Keys : dbHolder[k] \in rows \union {NoKey}
  /\ byKey \in [Keys -> EntityId \union {NoId}]
  /\ byId \in [EntityId -> Keys \union {NoKey}]
  /\ placeMap \in [Places -> Slugs \union {NoSlug}]
  /\ up \in BOOLEAN
  /\ unplaced \subseteq {k \in Keys : Resident(k)}
  /\ masked \subseteq Keys \X Keys /\ kept \subseteq Keys \X Keys

\* by_key and by_id are inverse to each other, by_id knows exactly the live
\* handles, and a resident key has a row: "a live handle that just passed an
\* arena op is always in the map" (key_of).
KeysMatchLive ==
  /\ \A h \in EntityId : byId[h] # NoKey <=> h \in LiveHandles
  /\ \A h \in LiveHandles : byKey[byId[h]] = h
  /\ \A k \in Keys : Resident(k) => k \in rows /\ byId[byKey[k]] = k

\* The two together: every table in its range and the maps exact.
PersistInv == PersistTypeOK /\ KeysMatchLive

\* Memory holds an item by its own handle exactly where its inventory row says
\* (inventory.rs:45, persistent_world.rs:392): whatever sequence of adds,
\* removes, teardowns and reuses of slots led here, the two differ only by the
\* row of an add that a stale handle of the slot hid from memory, and by the
\* entry a later add to another container left behind, and by these exactly.
HoldingsMatch ==
  up => \A c, i \in Keys :
          Holds(c, i) <=> \/ dbHolder[i] = c /\ <<c, i>> \notin masked
                          \/ <<c, i>> \in kept

\* Memory and database agree on where every resident entity is, and in rooms
\* of this boot, unless hydrate's location query failed after it mapped the key.
ResidentWhereDurable ==
  \A k \in Keys :
    Resident(k) /\ k \notin unplaced =>
      SlugAt(placeMap, location[byKey[k].slot]) = dbPlace[k]

\* What such a failure leaves, until an effect moves the entity or the process
\* ends (persistent_world.rs:304-319): it is nowhere in memory, and its row
\* still has the room it was to be in.
HydratedHalf ==
  \A k \in unplaced : location[byKey[k].slot] = NoPlace /\ dbPlace[k] # NoSlug

\* The three together: what memory says of a resident entity is what the
\* database says of it, but for three divergences, each of them exact.
MemoryMatchesRows == HoldingsMatch /\ ResidentWhereDurable /\ HydratedHalf

\* After a boot, memory is the database: every row is resident, where its
\* location row says under the new PlaceIds, and holds exactly its items.
LoadRebuilds ==
  [][~up /\ up' =>
       (/\ LiveHandles = {byKey[k] : k \in rows}
        /\ ResidentWhereDurable
        /\ \A c, i \in rows : Contains(byKey[c], byKey[i]) <=> dbHolder[i] = c)']_vars

\* The observable world, in durable names: what memory says of a resident
\* entity, and what the database says of the others.
Durable == INSTANCE DurableWorld
             WITH used <- 1 .. (nextKey - 1), alive <- rows, running <- up,
                  place <- [k \in Keys |->
                              IF Resident(k) /\ k \notin unplaced
                                THEN SlugAt(placeMap, location[byKey[k].slot])
                                ELSE dbPlace[k]]

\* One entity at a time is born, moves or dies, a crash or a boot moves nobody,
\* and a key never names a second entity.
ImplementsDurableWorld == Durable!Spec
=============================================================================
