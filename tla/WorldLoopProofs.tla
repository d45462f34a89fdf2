--------------------------- MODULE WorldLoopProofs ---------------------------
(***************************************************************************)
(* Proofs about the World loop at play, for any number of sessions,        *)
(* puppets, items and rooms and any length of the queue.  A get and a drop *)
(* are two effects each, and between them an item is nowhere; what the     *)
(* inductive invariant says is which effects may wait in the queue next to *)
(* which, and what the database must still hold of an item for those that  *)
(* wait on it to add up.  A puppet made at play changes none of it: its    *)
(* key is new, its handle is new, and no item is in it.                    *)
(***************************************************************************)
EXTENDS WorldLoop, PersistentWorldProofs

\* Every item was provisioned, and stays; a puppet with a row is always in a
\* room, if only of the database; an item may be carried by a puppet, and
\* nothing else is; and whatever is somewhere is in a room that is loaded.
Steady ==
  /\ Items \subseteq rows /\ unplaced \subseteq Puppets
  /\ up => \A k \in Items : Resident(k)
  /\ \A k \in Puppets \cap rows : dbPlace[k] # NoSlug
  /\ \A k \in Puppets : dbHolder[k] = NoKey
  /\ \A k \in Items : dbHolder[k] \in Puppets \union {NoKey}
  /\ \A c, i \in Keys : <<c, i>> \in kept => c \in Puppets
  /\ \A t \in SlotIndex : \A h \in contents[t] : IsItem(h)
  /\ \A t \in SlotIndex : location[t] = NoPlace \/ placeMap[location[t]] # NoSlug

Bound == \A s \in Sids : session[s] \notin Nobody => byId[session[s]] \in Puppets

\* What an effect is about, and whether it begins or completes a get or a drop.
Thing(eff)     == IF eff.kind \in {"ClearLocation", "MoveTo"} THEN eff.entity ELSE eff.item
Named(eff)     == byId[Thing(eff)]
Begins(eff)    == eff.kind \in {"ClearLocation", "InventoryRemove"}
Completes(eff) == eff.kind \in {"InventoryAdd", "MoveTo"} /\ Named(eff) \in Items
Lifting(eff)   == eff.kind \in {"ClearLocation", "InventoryAdd"}
Holding(eff)   == eff.kind \in {"InventoryAdd", "InventoryRemove"}
Pair(a, b) ==
  /\ Thing(a) = Thing(b)
  /\ \/ a.kind = "ClearLocation" /\ b.kind = "InventoryAdd"
     \/ a.kind = "InventoryRemove" /\ b.kind = "MoveTo"

\* An effect of a command: its handles and its room are known, so it is never
\* rejected and never stops the World.
Submittable(eff) ==
  /\ eff \in Effect
  /\ eff.kind \in {"ClearLocation", "MoveTo", "InventoryAdd", "InventoryRemove"}
  /\ Named(eff) \in Keys
  /\ eff.kind # "MoveTo" => Named(eff) \in Items
  /\ eff.kind = "MoveTo" => placeMap[eff.place] # NoSlug
  /\ Holding(eff) => byId[eff.container] \in Puppets

\* The two effects of a get or a drop stand next to each other, and only the
\* tick, which takes the first, separates them.
Paired ==
  \A n \in 1 .. Len(queue) :
    /\ Begins(queue[n]) => n < Len(queue) /\ Pair(queue[n], queue[n + 1])
    /\ Completes(queue[n]) => IF n = 1 THEN ticking ELSE Pair(queue[n - 1], queue[n])
QueueOK ==
  /\ queue \in Seq(Effect)
  /\ \A n \in 1 .. Len(queue) : Submittable(queue[n])
  /\ Paired

\* The tick is between the two effects of a command on item i.
Between(i) == ticking /\ Completes(Head(queue)) /\ Named(Head(queue)) = i

Kept ==
  \A i \in Items \ torn : dbPlace[i] # NoSlug \/ dbHolder[i] # NoKey \/ Between(i)

\* The items nobody reached for at another's time, and no crash caught.
Sure == Items \ (contested \union torn)

\* Such an item is either in a room or carried; between two effects it is as the
\* first one left it; and memory says what the database says.
Exact ==
  \A i \in Sure :
    IF Between(i)
      THEN IF Head(queue).kind = "InventoryAdd" THEN dbPlace[i] = NoSlug ELSE dbHolder[i] = NoKey
      ELSE dbHolder[i] # NoKey <=> dbPlace[i] = NoSlug
Agreed ==
  up => \A i \in Sure, c \in Puppets : Holds(c, i) <=> dbHolder[i] = c

\* All that waits on such an item lifts it, for one puppet, or all of it lets
\* it go, and the database has not given it to anyone else meanwhile.
OneMind ==
  \A m, n \in 1 .. Len(queue) :
    Named(queue[m]) = Named(queue[n]) /\ Named(queue[m]) \in Sure =>
      /\ Lifting(queue[m]) <=> Lifting(queue[n])
      /\ queue[m].kind = "InventoryAdd" /\ queue[n].kind = "InventoryAdd" =>
           queue[m].container = queue[n].container
StillHis ==
  \A n \in 1 .. Len(queue) : Named(queue[n]) \in Sure =>
    /\ Holding(queue[n]) => dbHolder[Named(queue[n])] \in {NoKey, byId[queue[n].container]}
    /\ ~ticking => (Lifting(queue[n]) <=> dbHolder[Named(queue[n])] = NoKey)

LoopProofInv ==
  /\ DurableInv /\ Steady /\ LoopTypeOK /\ Bound /\ QueueOK
  /\ Kept /\ Exact /\ Agreed /\ OneMind /\ StillHis /\ Stranded

-----------------------------------------------------------------------------
\* While the process runs, the keys and the live handles are one to one.
LEMMA KeyedHandles ==
  ASSUME DurableInv, Steady
  PROVE  /\ \A h \in EntityId : byId[h] # NoKey =>
              h \in LiveHandles /\ Resolves(h) /\ h.slot \in SlotIndex /\ byKey[byId[h]] = h
         /\ \A h, g \in EntityId : byId[h] # NoKey /\ byId[h] = byId[g] => h = g
         /\ \A h, g \in EntityId :
              byId[h] # NoKey /\ byId[g] # NoKey /\ h.slot = g.slot => h = g
         /\ \A h \in EntityId : byId[h] # NoKey => Resident(byId[h]) /\ byId[h] \in rows
         /\ \A k \in Keys : Resident(k) =>
              byKey[k] \in EntityId /\ byId[byKey[k]] = k /\ byKey[k].slot \in SlotIndex
         /\ up => \A k \in Items : Resident(k)
         /\ \A t \in SlotIndex : contents[t] \subseteq EntityId
         /\ NoKey \notin Keys /\ Items \subseteq Keys /\ Puppets \subseteq Keys
         /\ byId \in [EntityId -> Keys \union {NoKey}]
  <1>1. byId \in [EntityId -> Keys \union {NoKey}] /\ byKey \in [Keys -> EntityId \union {NoId}]
    BY DEF DurableInv, MapsOK
  <1>2. NoKey \notin Keys /\ Items \subseteq Keys /\ Puppets \subseteq Keys
    BY LoopAssumption DEF NoKey, Keys, Items
  <1>3. /\ \A h \in EntityId : byId[h] # NoKey <=> h \in LiveHandles
        /\ \A h \in LiveHandles : byKey[byId[h]] = h
        /\ \A k \in Keys : Resident(k) => byId[byKey[k]] = k
    BY DEF DurableInv, KeysMatchLive
  <1>4. \A h \in EntityId : byId[h] # NoKey =>
          h \in LiveHandles /\ Resolves(h) /\ h.slot \in SlotIndex /\ byKey[byId[h]] = h
    BY <1>3 DEF LiveHandles, EntityId
  <1>5. \A h, g \in EntityId : byId[h] # NoKey /\ byId[h] = byId[g] => h = g
    BY <1>4
  <1>6. \A h, g \in EntityId : byId[h] # NoKey /\ byId[g] # NoKey /\ h.slot = g.slot => h = g
    BY <1>4, OneHandlePerSlot
  <1>7. /\ \A k \in Keys : Resident(k) =>
             byKey[k] \in EntityId /\ byId[byKey[k]] = k /\ byKey[k].slot \in SlotIndex
        /\ up => \A k \in Items : Resident(k)
    BY <1>1, <1>3, ResidentLive DEF Steady, DurableInv
  <1>9. \A h \in EntityId : byId[h] # NoKey => Resident(byId[h]) /\ byId[h] \in rows
    BY <1>4, LiveResident DEF DurableInv
  <1>8. \A t \in SlotIndex : contents[t] \subseteq EntityId
    <2>1. contents \in [SlotIndex -> SUBSET minted] /\ minted \subseteq EntityId
      BY DEF DurableInv, WorldInv, WorldTypeOK, ArenaTypeOK
    <2> QED BY <2>1
  <1> QED BY <1>1, <1>2, <1>4, <1>5, <1>6, <1>7, <1>8, <1>9

\* Every resident entity in a room of the database is in that room in memory,
\* unless its hydrate failed, and every row of the inventory has its entry.
LEMMA InMemory ==
  ASSUME DurableInv, Steady, up
  PROVE  /\ \A k \in Keys \ unplaced : Resident(k) /\ dbPlace[k] # NoSlug =>
              /\ location[byKey[k].slot] \in Places
              /\ placeMap[location[byKey[k].slot]] = dbPlace[k]
         /\ \A k \in Keys : Resident(k) /\ dbPlace[k] = NoSlug =>
              location[byKey[k].slot] = NoPlace
         /\ \A k \in unplaced : Resident(k) /\ location[byKey[k].slot] = NoPlace
         /\ \A i \in Items : i \notin unplaced /\ Resident(i)
         /\ \A i \in Items : dbHolder[i] # NoKey => Holds(dbHolder[i], i)
  <1>1. /\ \A k \in Keys \ unplaced : Resident(k) =>
             SlugAt(placeMap, location[byKey[k].slot]) = dbPlace[k]
        /\ \A k \in unplaced : Resident(k) /\ location[byKey[k].slot] = NoPlace
    BY DEF DurableInv, ResidentWhereDurable, HydratedHalf, MapsOK
  <1>2. \A k \in Keys : Resident(k) =>
          byKey[k] \in EntityId /\ byKey[k].slot \in SlotIndex /\ byId[byKey[k]] = k
    BY KeyedHandles
  <1>3. location \in [SlotIndex -> Places \union {NoPlace}]
    BY DEF DurableInv, WorldInv, WorldTypeOK
  <1>4. \A i \in Items : i \notin unplaced /\ Resident(i)
    BY DEF Steady, Items
  <1>5. ASSUME NEW i \in Items, dbHolder[i] # NoKey
        PROVE  Holds(dbHolder[i], i)
    <2> DEFINE c == dbHolder[i]
    <2>1. /\ c \in Keys /\ i \in Keys /\ Resident(c) /\ Resident(i)
          /\ HeldAt(byKey[i].slot, byKey[c])
      BY <1>5, KeyedHandles DEF DurableInv, HoldingsHeld, Steady
    <2>2. PICK h \in contents[byKey[c].slot] : h.slot = byKey[i].slot
      BY <2>1 DEF HeldAt
    <2>3. h \in EntityId /\ byId[h] \in Items
      BY <1>2, <2>1, <2>2, KeyedHandles DEF Steady, IsItem
    <2>4. h = byKey[i]
      BY <1>2, <2>1, <2>2, <2>3, KeyedHandles
    <2> QED BY <2>1, <2>2, <2>4, HoldsByList DEF DurableInv
  <1>6. \A k \in Keys : Resident(k) =>
          /\ location[byKey[k].slot] \in Places \union {NoPlace}
          /\ location[byKey[k].slot] = NoPlace \/ placeMap[location[byKey[k].slot]] # NoSlug
    BY <1>2, <1>3 DEF Steady
  <1> QED BY <1>1, <1>4, <1>5, <1>6 DEF SlugAt

-----------------------------------------------------------------------------
\* A step that leaves the world and the database alone keeps what is said of
\* them: a command only submits.
LEMMA QuietWorld ==
  ASSUME DurableInv, Steady, UNCHANGED vars
  PROVE  /\ DurableInv' /\ Steady'
         /\ UNCHANGED <<rows, dbPlace, dbHolder, byKey, byId, placeMap, up, unplaced>>
         /\ \A k \in Keys : Resident(k)' <=> Resident(k)
         /\ \A c, i \in Keys : Holds(c, i)' <=> Holds(c, i)
  <1>1. UNCHANGED <<rows, dbPlace, dbHolder, byKey, byId, placeMap, up, slots, contents, location,
                    unplaced, kept>>
    BY DEF vars, worldVars, arenaVars, tableVars, dbVars, mapVars, apart
  <1>2. DurableInv'
    BY StutterDurable
  <1>3. Steady'
    BY <1>1 DEF Steady, IsItem, Resident
  <1>4. \A c, i \in Keys : Holds(c, i)' <=> Holds(c, i)
    BY <1>1 DEF Holds, Contains, Resolves, Resident
  <1>5. \A k \in Keys : Resident(k)' <=> Resident(k)
    BY <1>1 DEF Resident
  <1> QED BY <1>1, <1>2, <1>3, <1>4, <1>5

\* Neither do the invariants of the queue move when it stands still and no item
\* and no handle in use changes its rows, its key or its holder.
LEMMA QuietLoop ==
  ASSUME LoopProofInv,
         UNCHANGED <<queue, ticking, contested, torn, placeMap, up, dbHolder>>,
         \A i \in Items : dbPlace'[i] = dbPlace[i],
         \A h \in EntityId : byId[h] # NoKey => byId'[h] = byId[h],
         \A k \in Keys : k \in unplaced' => k \in unplaced \/ ~Resident(k),
         up => \A c \in Puppets, i \in Items : Holds(c, i)' <=> Holds(c, i)
  PROVE  QueueOK' /\ Kept' /\ Exact' /\ Agreed' /\ OneMind' /\ StillHis' /\ Stranded'
  <1>1. \A n \in 1 .. Len(queue) :
          /\ Submittable(queue[n]) /\ Thing(queue[n]) \in EntityId /\ Named(queue[n]) \in Keys
          /\ Holding(queue[n]) => queue[n].container \in EntityId
    BY DEF LoopProofInv, QueueOK, Submittable, Effect, Thing, Holding
  <1>2. NoKey \notin Keys /\ Puppets \subseteq Keys
    BY KeyedHandles DEF LoopProofInv
  <1>3. \A n \in 1 .. Len(queue) :
          /\ Named(queue[n])' = Named(queue[n])
          /\ Holding(queue[n]) => byId'[queue[n].container] = byId[queue[n].container]
    BY <1>1, <1>2 DEF Named, Thing, Submittable
  <1>4. \A n \in 1 .. Len(queue) :
          /\ Submittable(queue[n])' /\ (Completes(queue[n])' <=> Completes(queue[n]))
    BY <1>1, <1>3 DEF Submittable, Completes, Holding
  <1>5. QueueOK'
    BY <1>4 DEF LoopProofInv, QueueOK, Paired, Begins, Pair, Thing
  <1>6. \A i : Between(i)' <=> Between(i)
    <2>1. ticking => 1 \in 1 .. Len(queue) /\ Head(queue) = queue[1]
      BY EmptySeq DEF LoopProofInv, LoopTypeOK, QueueOK
    <2> QED BY <1>3, <1>4, <2>1 DEF Between
  <1>7. Kept' /\ Exact'
    BY <1>6 DEF LoopProofInv, Kept, Exact, Sure
  <1>8. Agreed'
    BY DEF LoopProofInv, Agreed, Sure
  <1>9. OneMind' /\ StillHis'
    BY <1>3 DEF LoopProofInv, OneMind, StillHis, Sure, Lifting, Holding
  <1>10. Stranded'
    <2> SUFFICES ASSUME NEW n \in 1 .. Len(queue), queue[n].kind = "MoveTo"
                 PROVE  byId'[queue[n].entity] \notin unplaced'
      BY DEF Stranded
    <2>1. byId[queue[n].entity] \notin unplaced /\ queue[n].entity \in EntityId
          /\ byId[queue[n].entity] \in Keys
      BY <1>1 DEF LoopProofInv, Stranded, Named, Thing
    <2>2. Resident(byId[queue[n].entity])
      BY <1>2, <2>1, KeyedHandles DEF LoopProofInv
    <2> QED BY <1>2, <2>1, <2>2
  <1> QED BY <1>5, <1>7, <1>8, <1>9, <1>10

\* A session connects, drops or enters the world, its puppet being resident.
LEMMA SessionsStep ==
  ASSUME LoopProofInv, NEW s \in Sids,
         ConnectSession(s) \/ DropSession(s) \/ \E k \in Puppets : Enter(s, k)
  PROVE  LoopProofInv'
  <1>1. PICK to : /\ SessionStep(s, to) /\ up
                  /\ \/ to \in Nobody
                     \/ to \in EntityId /\ byId[to] \in Puppets
    <2>1. CASE ConnectSession(s) \/ DropSession(s)
      BY <2>1 DEF ConnectSession, DropSession, Nobody, Listening, Settled
    <2>2. ASSUME NEW k \in Puppets, Enter(s, k)
          PROVE  SessionStep(s, byKey[k]) /\ up /\ byKey[k] \in EntityId /\ byId[byKey[k]] = k
      BY <2>2, KeyedHandles DEF LoopProofInv, Enter, Listening, Settled
    <2> QED BY <2>1, <2>2
  <1>2. /\ session' = [session EXCEPT ![s] = to]
        /\ UNCHANGED <<vars, queue, ticking, hydrating, contested, torn>>
    BY <1>1 DEF SessionStep
  <1>3. /\ DurableInv' /\ Steady'
        /\ UNCHANGED <<rows, dbPlace, dbHolder, byKey, byId, placeMap, up, unplaced>>
        /\ \A k \in Keys : Resident(k)' <=> Resident(k)
        /\ \A c, i \in Keys : Holds(c, i)' <=> Holds(c, i)
    BY <1>2, QuietWorld DEF LoopProofInv
  <1>4. LoopTypeOK'
    BY <1>1, <1>2, <1>3, KeyedHandles DEF LoopProofInv, LoopTypeOK, Settled
  <1>5. Bound'
    BY <1>1, <1>2, <1>3 DEF LoopProofInv, Bound, LoopTypeOK
  <1>6. QueueOK' /\ Kept' /\ Exact' /\ Agreed' /\ OneMind' /\ StillHis' /\ Stranded'
    BY <1>2, <1>3, QuietLoop, KeyedHandles DEF LoopProofInv
  <1> QED BY <1>3, <1>4, <1>5, <1>6 DEF LoopProofInv

\* The rows of a new puppet: its key is nobody's yet, and no item's.
LEMMA NewPuppetStep ==
  ASSUME LoopProofInv, NEW s \in Sids, NewPuppet(s)
  PROVE  LoopProofInv'
  <1>1. /\ Listening /\ CreatePuppet /\ hydrating' = nextKey
        /\ UNCHANGED <<session, queue, ticking, contested, torn>>
    BY DEF NewPuppet, NewKey
  <1>2. /\ up /\ ~ticking /\ InsertRow(StartRoom)
        /\ UNCHANGED <<worldVars, mapVars, placeMap, up, unplaced, apart>>
    BY <1>1 DEF CreatePuppet, Listening, Settled
  <1>3. /\ byKey' = byKey /\ byId' = byId /\ contents' = contents /\ slots' = slots
        /\ kept' = kept /\ location' = location
    BY <1>2 DEF mapVars, worldVars, arenaVars, tableVars, apart
  <1>4. DurableInv'
    BY <1>1, CreatePuppetDurable DEF LoopProofInv
  <1>5. /\ nextKey \in Keys /\ nextKey \notin rows /\ ~Resident(nextKey)
        /\ rows' = rows \union {nextKey} /\ dbPlace'[nextKey] = StartRoom
        /\ \A j \in Keys : j # nextKey => dbPlace'[j] = dbPlace[j]
        /\ dbHolder' = dbHolder /\ StartRoom # NoSlug
    BY <1>2, InsertRowRows, PersistAssumption DEF LoopProofInv
  <1>6. /\ nextKey \in Puppets /\ Items \subseteq Keys /\ Puppets \subseteq Keys
        /\ \A i \in Items : dbPlace'[i] = dbPlace[i]
    BY <1>5, LoopAssumption DEF LoopProofInv, Steady, Items
  <1>7. \A c, i \in Keys : Holds(c, i)' <=> Holds(c, i)
    BY <1>3 DEF Holds, Contains, Resident, Resolves
  <1>8. Steady'
    BY <1>2, <1>3, <1>5, <1>6 DEF LoopProofInv, Steady, IsItem, Resident
  <1>9. LoopTypeOK'
    BY <1>1, <1>2, <1>3, <1>5, <1>6 DEF LoopProofInv, LoopTypeOK, Settled, Resident
  <1>10. Bound'
    BY <1>1, <1>3 DEF LoopProofInv, Bound
  <1>11. QueueOK' /\ Kept' /\ Exact' /\ Agreed' /\ OneMind' /\ StillHis' /\ Stranded'
    BY <1>1, <1>2, <1>3, <1>5, <1>6, <1>7, QuietLoop, KeyedHandles DEF LoopProofInv
  <1> QED BY <1>4, <1>8, <1>9, <1>10, <1>11 DEF LoopProofInv

\* What is placed at hydrate is placed in a loaded room.
LEMMA HydratedRoom ==
  ASSUME DurableInv, Steady, NEW h \in EntityId, NEW k \in Keys, Replay(h, k)
  PROVE  \A t \in SlotIndex : location'[t] = NoPlace \/ placeMap[location'[t]] # NoSlug
  <1>1. location \in [SlotIndex -> Places \union {NoPlace}]
    BY DEF DurableInv, WorldInv, WorldTypeOK
  <1>2. CASE location' = location
    BY <1>2 DEF Steady
  <1>3. CASE /\ dbPlace[k] \in Rooms(placeMap)
             /\ location' = [location EXCEPT ![h.slot] = IdOf(placeMap, dbPlace[k])]
    <2>1. placeMap[IdOf(placeMap, dbPlace[k])] # NoSlug
      BY <1>3 DEF Rooms, IdOf
    <2> QED BY <1>1, <1>3, <2>1 DEF Steady
  <1> QED BY <1>2, <1>3 DEF Replay, PlaceAt

\* Its residency: a fresh handle, in its room or, the query having failed, in
\* none; nothing that waits in the queue names it.
LEMMA HydratePuppetStep ==
  ASSUME LoopProofInv, HydratePuppet
  PROVE  LoopProofInv'
  <1> DEFINE k == hydrating
  <1>1. /\ up /\ k # NoKey /\ hydrating' = NoKey
        /\ UNCHANGED <<session, queue, ticking, contested, torn>>
    BY DEF HydratePuppet
  <1>2. k \in Puppets /\ k \in Keys /\ k \in rows /\ ~Resident(k)
    BY <1>1, KeyedHandles DEF LoopProofInv, LoopTypeOK
  <1>3. CASE UNCHANGED vars
    <2>1. /\ DurableInv' /\ Steady'
          /\ UNCHANGED <<rows, dbPlace, dbHolder, byKey, byId, placeMap, up, unplaced>>
          /\ \A c, i \in Keys : Holds(c, i)' <=> Holds(c, i)
      BY <1>3, QuietWorld DEF LoopProofInv
    <2>2. LoopTypeOK' /\ Bound'
      BY <1>1, <2>1 DEF LoopProofInv, LoopTypeOK, Bound
    <2>3. QueueOK' /\ Kept' /\ Exact' /\ Agreed' /\ OneMind' /\ StillHis' /\ Stranded'
      BY <1>1, <2>1, QuietLoop, KeyedHandles DEF LoopProofInv
    <2> QED BY <2>1, <2>2, <2>3 DEF LoopProofInv
  <1>4. CASE Hydrate(k)
    <2>1. PICK h \in EntityId : Alloc(h) /\ MapKey(k, h) /\ Replay(h, k)
      BY <1>4 DEF Hydrate
    <2>2. /\ UNCHANGED <<contents, rows, nextKey, dbPlace, dbHolder, placeMap, up, kept>>
      BY <1>4 DEF Hydrate, dbVars, apart
    <2>3. DurableInv'
      BY <1>2, <1>4, HydrateDurable DEF LoopProofInv
    <2>4. h \notin LiveHandles /\ byId[h] = NoKey
      <3>1. h \notin LiveHandles
        BY <2>1, ReuseArena, GrowArena DEF Alloc, LoopProofInv, DurableInv, WorldInv, LiveHandles
      <3> QED BY <3>1 DEF LoopProofInv, DurableInv, KeysMatchLive
    <2>5. /\ byKey'[k] = h /\ \A j \in Keys : j # k => byKey'[j] = byKey[j]
          /\ byId'[h] = k /\ \A x \in EntityId : x # h => byId'[x] = byId[x]
      BY <1>2, <2>1 DEF MapKey, LoopProofInv, DurableInv, MapsOK
    <2>6. unplaced' \subseteq unplaced \union {k}
      BY <2>1 DEF Replay
    <2>7. \A j \in Keys : Resident(j)' <=> Resident(j) \/ j = k
      BY <1>2, <2>5, PersistAssumption DEF Resident
    <2>8. \A c, i \in Keys : Holds(c, i)' <=> Holds(c, i)
      BY <1>2, <2>1, <2>2, <2>3, <2>5, FreshHoldsNothing DEF LoopProofInv, DurableInv
    <2>9. \A t \in SlotIndex : \A x \in contents[t] : byId'[x] \in Items
      <3> SUFFICES ASSUME NEW t \in SlotIndex, NEW x \in contents[t]
                   PROVE  byId'[x] \in Items
        OBVIOUS
      <3>1. x \in EntityId /\ byId[x] \in Items /\ byId[x] # NoKey
        BY KeyedHandles DEF LoopProofInv, Steady, IsItem
      <3> QED BY <2>4, <2>5, <3>1
    <2>10. Steady'
      <3>1. Items \subseteq Keys
        BY DEF Items
      <3>2. \A t \in SlotIndex : location'[t] = NoPlace \/ placeMap[location'[t]] # NoSlug
        BY <1>2, <2>1, HydratedRoom DEF LoopProofInv
      <3> QED BY <1>2, <2>2, <2>6, <2>7, <2>9, <3>1, <3>2 DEF LoopProofInv, Steady, IsItem
    <2>11. LoopTypeOK'
      BY <1>1, <2>2 DEF LoopProofInv, LoopTypeOK
    <2>12. Bound'
      <3>1. \A s \in Sids : session[s] \notin Nobody =>
              session[s] \in EntityId /\ byId[session[s]] \in Puppets /\ byId[session[s]] # NoKey
        BY KeyedHandles DEF LoopProofInv, Bound, LoopTypeOK
      <3> QED BY <1>1, <2>4, <2>5, <3>1 DEF Bound
    <2>13. QueueOK' /\ Kept' /\ Exact' /\ Agreed' /\ OneMind' /\ StillHis' /\ Stranded'
      BY <1>1, <1>2, <2>2, <2>4, <2>5, <2>6, <2>8, QuietLoop, KeyedHandles DEF LoopProofInv
    <2> QED BY <2>3, <2>10, <2>11, <2>12, <2>13 DEF LoopProofInv
  <1> QED BY <1>3, <1>4 DEF HydratePuppet

\* The tick begins: what was queued is drained before anything else happens.
LEMMA StartTickStep ==
  ASSUME LoopProofInv, StartTick
  PROVE  LoopProofInv'
  <1>1. /\ up /\ ~ticking /\ hydrating = NoKey /\ queue # <<>> /\ ticking' = TRUE
        /\ UNCHANGED <<vars, session, queue, hydrating, contested, torn>>
    BY DEF StartTick, Listening, Settled
  <1>2. /\ DurableInv' /\ Steady'
        /\ UNCHANGED <<rows, dbPlace, dbHolder, byKey, byId, placeMap, up, unplaced>>
        /\ \A c, i \in Keys : Holds(c, i)' <=> Holds(c, i)
    BY <1>1, QuietWorld DEF LoopProofInv
  <1>3. LoopTypeOK' /\ Bound'
    BY <1>1, <1>2 DEF LoopProofInv, LoopTypeOK, Bound
  <1>4. queue \in Seq(Effect) /\ Len(queue) \in Nat \ {0} /\ 1 \in 1 .. Len(queue)
        /\ Head(queue) = queue[1]
    BY <1>1, EmptySeq DEF LoopProofInv, QueueOK
  <1>5. ~Completes(Head(queue))
    BY <1>1, <1>4 DEF LoopProofInv, QueueOK, Paired
  <1>6. QueueOK'
    BY <1>1, <1>2 DEF LoopProofInv, QueueOK, Submittable, Paired, Named, Thing, Begins, Completes,
                      Holding, Pair
  <1>7. \A i : ~Between(i) /\ ~Between(i)'
    BY <1>1, <1>2, <1>5 DEF Between, Completes, Named, Thing
  <1>8. Kept' /\ Exact'
    BY <1>1, <1>2, <1>7 DEF LoopProofInv, Kept, Exact, Sure
  <1>9. Agreed'
    BY <1>1, <1>2, KeyedHandles DEF LoopProofInv, Agreed, Sure
  <1>10. OneMind' /\ StillHis' /\ Stranded'
    BY <1>1, <1>2 DEF LoopProofInv, OneMind, StillHis, Named, Thing, Sure, Lifting, Holding, Stranded
  <1> QED BY <1>2, <1>3, <1>6, <1>8, <1>9, <1>10 DEF LoopProofInv

\* Without a queue there is nothing to say of one.
LEMMA NothingQueued ==
  queue = <<>> /\ ~ticking => QueueOK /\ OneMind /\ StillHis /\ Stranded /\ \A i : ~Between(i)
  <1> SUFFICES ASSUME queue = <<>>, ~ticking
               PROVE  QueueOK /\ OneMind /\ StillHis /\ Stranded /\ \A i : ~Between(i)
    OBVIOUS
  <1>1. queue \in Seq(Effect) /\ Len(queue) = 0 /\ \A n \in 1 .. Len(queue) : FALSE
    BY EmptySeq
  <1> QED BY <1>1 DEF QueueOK, Paired, OneMind, StillHis, Stranded, Between

\* A process that stops loses its sessions and its queue; an item a crash finds
\* between two effects is torn from then on.
LEMMA DieStep ==
  ASSUME LoopProofInv, Die
  PROVE  LoopProofInv'
  <1>1. /\ up /\ Discard /\ UNCHANGED dbVars
        /\ session' = [s \in Sids |-> Absent] /\ queue' = <<>> /\ ticking' = FALSE
        /\ torn' = torn \union (IF ticking THEN SecondHalf(Head(queue)) ELSE {})
        /\ contested' = contested /\ hydrating' = NoKey
    BY DEF Die, Crash
  <1>2. /\ up' = FALSE /\ unplaced' = {} /\ kept' = {}
        /\ contents' = [s \in SlotIndex |-> {}] /\ location' = [s \in SlotIndex |-> NoPlace]
        /\ UNCHANGED <<rows, dbPlace, dbHolder>>
    BY <1>1 DEF Discard, dbVars
  <1>3. DurableInv'
    BY <1>1, DiscardDurable DEF LoopProofInv
  <1>4. Steady'
    BY <1>2 DEF LoopProofInv, Steady
  <1>5. ASSUME ticking
        PROVE  /\ SecondHalf(Head(queue)) \subseteq Items
               /\ \A i \in Items : Between(i) => i \in SecondHalf(Head(queue))
    <2> DEFINE e == Head(queue)
    <2>1. Submittable(e)
      <3>1. queue \in Seq(Effect) /\ queue # <<>>
        BY <1>5 DEF LoopProofInv, QueueOK, LoopTypeOK
      <3>2. 1 \in 1 .. Len(queue) /\ e = queue[1]
        BY <3>1, EmptySeq
      <3> QED BY <3>2 DEF LoopProofInv, QueueOK
    <2>2. SecondHalf(e) = IF Completes(e) THEN {Named(e)} ELSE {}
      BY <2>1 DEF Submittable, SecondHalf, Completes, Named, Thing
    <2> QED BY <2>2 DEF Between, Completes
  <1>6. torn \subseteq torn' /\ torn' \subseteq Items
        /\ \A i \in Items \ torn' : ~Between(i)
    BY <1>1, <1>5 DEF LoopProofInv, LoopTypeOK, Between
  <1>7. LoopTypeOK'
    <2>1. Len(<<>>) <= MaxQueue /\ \A n \in 1 .. Len(<<>>) : FALSE
      BY LoopAssumption
    <2> QED BY <1>1, <1>2, <1>6, <2>1 DEF LoopProofInv, LoopTypeOK, Nobody
  <1>8. Bound'
    BY <1>1 DEF Bound, Nobody
  <1>9. (queue = <<>> /\ ~ticking =>
           QueueOK /\ OneMind /\ StillHis /\ Stranded /\ \A i : ~Between(i))'
    BY NothingQueued, PTL
  <1>10. Sure' \subseteq Sure /\ \A i \in Sure' : ~Between(i)
    BY <1>1, <1>6 DEF Sure
  <1>11. Kept' /\ Exact' /\ Agreed'
    BY <1>1, <1>2, <1>6, <1>9, <1>10 DEF LoopProofInv, Kept, Exact, Agreed
  <1> QED BY <1>1, <1>3, <1>4, <1>7, <1>8, <1>9, <1>11 DEF LoopProofInv

\* The provisioned database before the first boot.
LEMMA LoopStart == LoopInit => LoopProofInv
  <1> SUFFICES ASSUME LoopInit PROVE LoopProofInv
    OBVIOUS
  <1> USE PersistAssumption, LoopAssumption
  <1>1. /\ WorldInit
        /\ rows = 1 .. Provisioned /\ nextKey = Provisioned + 1
        /\ dbPlace = [k \in Keys |-> IF k \in rows THEN StartRoom ELSE NoSlug]
        /\ dbHolder = [k \in Keys |-> NoKey]
        /\ byKey = [k \in Keys |-> NoId] /\ byId = [h \in EntityId |-> NoKey]
        /\ placeMap = [p \in Places |-> NoSlug]
        /\ up = FALSE /\ unplaced = {} /\ masked = {} /\ kept = {} /\ contested = {} /\ torn = {}
        /\ session = [s \in Sids |-> Absent] /\ queue = <<>> /\ ticking = FALSE
        /\ hydrating = NoKey
    BY DEF LoopInit
  <1>2. WorldInv
    BY <1>1, InitWorld
  <1>3. RowsOK
    BY <1>1 DEF RowsOK, Keys, NoKey
  <1>4. MapsOK /\ \A k \in Keys : ~Resident(k)
    BY <1>1 DEF MapsOK, Resident
  <1>5. LiveHandles = {}
    BY <1>1 DEF WorldInit, ArenaInit, LiveHandles, Resolves, Live, Vacant, EntityId
  <1>6. /\ KeysMatchLive /\ HoldingsHeld /\ ResidentWhereDurable /\ DownEmpty
        /\ ApartOK /\ HoldingsMatch /\ HydratedHalf
    BY <1>1, <1>4, <1>5 DEF KeysMatchLive, HoldingsHeld, ResidentWhereDurable, DownEmpty, ApartOK,
                            HoldingsMatch, HydratedHalf
  <1>7. DurableInv
    BY <1>2, <1>3, <1>4, <1>6 DEF DurableInv
  <1>8. Steady
    <2>1. Items \subseteq rows
      BY <1>1 DEF Items, Keys
    <2>2. /\ \A t \in SlotIndex : contents[t] = {} /\ location[t] = NoPlace
          /\ \A k \in Keys : dbHolder[k] = NoKey
          /\ \A k \in Keys \cap rows : dbPlace[k] # NoSlug
      BY <1>1 DEF WorldInit
    <2> QED BY <1>1, <2>1, <2>2 DEF Steady, Items
  <1>9. LoopTypeOK
    <2>1. Len(queue) = 0 /\ \A n \in 1 .. Len(queue) : FALSE
      BY <1>1
    <2>2. session \in [Sids -> Nobody \union EntityId] /\ \A s \in Sids : session[s] = Absent
      BY <1>1 DEF Nobody
    <2>3. /\ ticking \in BOOLEAN /\ ~ticking /\ queue = <<>> /\ contested = {} /\ torn = {}
          /\ hydrating = NoKey
      BY <1>1
    <2>4. Len(queue) <= MaxQueue
      BY <2>1
    <2> QED BY <2>1, <2>2, <2>3, <2>4 DEF LoopTypeOK
  <1>10. Bound
    BY <1>1 DEF Bound, Nobody
  <1>11. QueueOK /\ OneMind /\ StillHis /\ Stranded /\ \A i : ~Between(i)
    BY <1>1, NothingQueued
  <1>12. NoKey \notin Keys /\ StartRoom # NoSlug /\ Items \subseteq rows
    BY <1>8 DEF NoKey, Keys, Steady
  <1>13. Kept /\ Exact /\ Agreed
    BY <1>1, <1>11, <1>12 DEF Kept, Exact, Agreed, Sure, Items
  <1> QED BY <1>7, <1>8, <1>9, <1>10, <1>11, <1>13 DEF LoopProofInv

\* Every slot that a boot fills has its row.
LEMMA RowsRanked ==
  ASSUME DurableInv, NEW t \in SlotIndex, t < Cardinality(rows)
  PROVE  KeyAt(t) \in rows
  <1>1. RowsOK /\ Cardinality(rows) \in Nat
    BY RankRange DEF DurableInv
  <1>2. t \in 0 .. (Cardinality(rows) - 1)
    BY <1>1 DEF SlotIndex
  <1>3. \E k \in rows : Rank(k) = t
    BY <1>1, <1>2, RankBijective
  <1> QED BY <1>3 DEF KeyAt

\* A boot brings back who carries what, and where it lies, as the rows say.
LEMMA BootStep ==
  ASSUME LoopProofInv, NEW m \in PlaceMaps, Boot(m)
  PROVE  LoopProofInv'
  <1>1. /\ Load(m) /\ ~up /\ up' = TRUE
        /\ UNCHANGED <<rows, dbPlace, dbHolder, unplaced, kept>>
        /\ UNCHANGED <<session, queue, ticking, hydrating, contested, torn>>
    BY DEF Boot, Load, loopVars, dbVars, apart
  <1>2. /\ DurableInv'
        /\ LiveHandles' = {byKey'[k] : k \in rows'}
        /\ \A c, i \in rows' : Contains(byKey[c], byKey[i])' <=> dbHolder'[i] = c
    BY <1>1, LoadDurable DEF LoopProofInv
  <1>3. /\ queue = <<>> /\ ~ticking /\ hydrating = NoKey
        /\ \A s \in Sids : session[s] = Absent
    BY <1>1 DEF LoopProofInv, LoopTypeOK, Settled
  <1>4. \A k \in Items : Resident(k)' /\ k \in rows'
    <2>1. LiveHandles' \subseteq EntityId
      BY DEF LiveHandles
    <2>2. \A k \in Items : k \in rows' /\ byKey'[k] \in LiveHandles'
      BY <1>1, <1>2 DEF LoopProofInv, Steady
    <2> QED BY <2>1, <2>2, PersistAssumption DEF Resident
  <1>5. \A t \in SlotIndex : \A h \in contents'[t] : byId'[h] \in Items
    <2> SUFFICES ASSUME NEW t \in SlotIndex, NEW h \in contents'[t]
                 PROVE  byId'[h] \in Items
      OBVIOUS
    <2>1. PICK i \in rows : t < Cardinality(rows) /\ dbHolder[i] = KeyAt(t) /\ h = Loaded(i)
      BY <1>1 DEF Load, KeptIn
    <2>2. KeyAt(t) \in rows
      BY <2>1, RowsRanked DEF LoopProofInv
    <2>3. i \in Items
      BY <2>1, <2>2, KeyedHandles DEF LoopProofInv, Steady, Items, DurableInv, RowsOK
    <2>4. byKey'[i] = h
      BY <1>1, <2>1, <2>3 DEF Load, Items
    <2> QED BY <1>2, <1>4, <2>3, <2>4 DEF DurableInv, KeysMatchLive, Items
  <1>6. Steady'
    <2>1. \A t \in SlotIndex : location'[t] = NoPlace \/ placeMap'[location'[t]] # NoSlug
      <3> SUFFICES ASSUME NEW t \in SlotIndex, location'[t] # NoPlace
                   PROVE  placeMap'[location'[t]] # NoSlug
        OBVIOUS
      <3>1. PICK k : /\ t < Cardinality(rows) /\ k = KeyAt(t) /\ dbPlace[k] # NoSlug
                     /\ location'[t] = IdOf(m, dbPlace[k])
        BY <1>1, PersistAssumption DEF Load
      <3>2. k \in rows
        BY <3>1, RowsRanked DEF LoopProofInv
      <3>3. \E p \in Places : m[p] = dbPlace[k]
        BY <1>1, <3>1, <3>2 DEF Load, Loadable, Rooms
      <3> QED BY <1>1, <3>1, <3>3 DEF Load, IdOf
    <2> QED BY <1>1, <1>4, <1>5, <2>1 DEF LoopProofInv, Steady, IsItem
  <1>7. LoopTypeOK' /\ Bound'
    BY <1>1, <1>3 DEF LoopProofInv, LoopTypeOK, Bound, Nobody
  <1>8. (queue = <<>> /\ ~ticking =>
           QueueOK /\ OneMind /\ StillHis /\ Stranded /\ \A i : ~Between(i))'
    BY NothingQueued, PTL
  <1>9. \A i : ~Between(i)
    BY <1>3 DEF Between
  <1>10. Kept' /\ Exact'
    BY <1>1, <1>3, <1>8, <1>9 DEF LoopProofInv, Kept, Exact, Sure
  <1>11. Agreed'
    <2> SUFFICES ASSUME NEW i \in Sure, NEW c \in Puppets
                 PROVE  Holds(c, i)' <=> dbHolder[i] = c
      BY <1>1 DEF Agreed, Sure
    <2>1. i \in Items /\ i \in rows' /\ Resident(i)' /\ c \in Keys /\ c # NoKey
      BY <1>4, KeyedHandles DEF LoopProofInv, Sure
    <2>2. CASE c \in rows
      <3>1. Resident(c)'
        <4>1. byKey'[c] \in EntityId
          BY <1>1, <1>2, <2>2 DEF LiveHandles
        <4> QED BY <4>1, PersistAssumption DEF Resident
      <3> QED BY <1>1, <1>2, <2>1, <2>2, <3>1 DEF Holds
    <2>3. CASE c \notin rows
      <3>1. ~Resident(c)' /\ dbHolder[i] # c
        BY <1>1, <1>2, <2>1, <2>3 DEF DurableInv, KeysMatchLive, RowsOK
      <3> QED BY <3>1 DEF Holds
    <2> QED BY <2>2, <2>3
  <1> QED BY <1>1, <1>2, <1>3, <1>6, <1>7, <1>8, <1>10, <1>11 DEF LoopProofInv

-----------------------------------------------------------------------------
\* What a submission does to the queue.
LEMMA QueueGrows ==
  ASSUME NEW q \in Seq(Effect), NEW e \in Seq(Effect)
  PROVE  /\ q \o e \in Seq(Effect) /\ Len(q \o e) = Len(q) + Len(e)
         /\ Len(q) \in Nat /\ Len(e) \in Nat
         /\ \A n \in 1 .. Len(q) : (q \o e)[n] = q[n]
         /\ \A n \in 1 .. Len(e) : (q \o e)[Len(q) + n] = e[n]
         /\ \A n \in 1 .. Len(q \o e) :
              n \in 1 .. Len(q) \/ \E k \in 1 .. Len(e) : n = Len(q) + k
  <1>1. /\ q \o e \in Seq(Effect) /\ Len(q \o e) = Len(q) + Len(e)
        /\ \A i \in 1 .. Len(q) + Len(e) :
             (q \o e)[i] = IF i <= Len(q) THEN q[i] ELSE e[i - Len(q)]
    BY ConcatProperties
  <1>2. Len(q) \in Nat /\ Len(e) \in Nat
    BY LenProperties
  <1>3. \A n \in 1 .. Len(q) : (q \o e)[n] = q[n]
    BY <1>1, <1>2
  <1>4. \A n \in 1 .. Len(e) : (q \o e)[Len(q) + n] = e[n]
    <2> SUFFICES ASSUME NEW n \in 1 .. Len(e) PROVE (q \o e)[Len(q) + n] = e[n]
      OBVIOUS
    <2>1. Len(q) + n \in 1 .. Len(q) + Len(e) /\ ~(Len(q) + n <= Len(q)) /\ Len(q) + n - Len(q) = n
      BY <1>2
    <2> QED BY <1>1, <2>1
  <1>5. ASSUME NEW n \in 1 .. Len(q \o e), n \notin 1 .. Len(q)
        PROVE  \E k \in 1 .. Len(e) : n = Len(q) + k
    <2>1. n - Len(q) \in 1 .. Len(e) /\ n = Len(q) + (n - Len(q))
      BY <1>1, <1>2, <1>5
    <2> QED BY <2>1
  <1> QED BY <1>1, <1>2, <1>3, <1>4, <1>5

\* A command submits whole pairs, or a move of its caller, who is somewhere,
\* and about an item that is not contested only what fits with whatever waits.
LEMMA SubmitStep ==
  ASSUME LoopProofInv, Listening, NEW effs \in Seq(Effect), Submit(effs),
         contested \subseteq contested', contested' \subseteq Items,
         \A n \in 1 .. Len(effs) :
           /\ Submittable(effs[n])
           /\ Begins(effs[n]) => n < Len(effs) /\ Pair(effs[n], effs[n + 1])
           /\ Completes(effs[n]) => n > 1 /\ Pair(effs[n - 1], effs[n])
           /\ effs[n].kind = "MoveTo" => Named(effs[n]) \notin unplaced,
         \A n \in 1 .. Len(effs) : Named(effs[n]) \in Sure' =>
           /\ Lifting(effs[n]) <=> dbHolder[Named(effs[n])] = NoKey
           /\ Holding(effs[n]) =>
                dbHolder[Named(effs[n])] \in {NoKey, byId[effs[n].container]},
         \A m, n \in 1 .. Len(effs) :
           effs[m].kind = "InventoryAdd" /\ effs[n].kind = "InventoryAdd" =>
             effs[m].container = effs[n].container,
         \A m \in 1 .. Len(queue), n \in 1 .. Len(effs) :
           queue[m].kind = "InventoryAdd" /\ effs[n].kind = "InventoryAdd" =>
             (Named(queue[m]) = Named(effs[n]) /\ Named(effs[n]) \in Sure' =>
                queue[m].container = effs[n].container)
  PROVE  LoopProofInv'
  <1>1. /\ up /\ ~ticking /\ queue' = queue \o effs /\ Len(queue) + Len(effs) <= MaxQueue
        /\ UNCHANGED <<vars, session, ticking, hydrating, torn>>
    BY DEF Listening, Settled, Submit
  <1>2. /\ DurableInv' /\ Steady'
        /\ UNCHANGED <<rows, dbPlace, dbHolder, byKey, byId, placeMap, up, unplaced>>
        /\ \A k \in Keys : Resident(k)' <=> Resident(k)
        /\ \A c, i \in Keys : Holds(c, i)' <=> Holds(c, i)
    BY <1>1, QuietWorld DEF LoopProofInv
  <1>3. /\ queue \in Seq(Effect) /\ queue' \in Seq(Effect)
        /\ Len(queue') = Len(queue) + Len(effs)
        /\ Len(queue) \in Nat /\ Len(effs) \in Nat
        /\ \A n \in 1 .. Len(queue) : queue'[n] = queue[n]
        /\ \A n \in 1 .. Len(effs) : queue'[Len(queue) + n] = effs[n]
        /\ \A n \in 1 .. Len(queue') :
             n \in 1 .. Len(queue) \/ \E k \in 1 .. Len(effs) : n = Len(queue) + k
    BY <1>1, QueueGrows DEF LoopProofInv, QueueOK
  <1>4. LoopTypeOK'
    <2>1. \A n \in 1 .. Len(queue') : queue'[n] \in Effect
      BY <1>3, ElementOfSeq
    <2>2. hydrating = NoKey
      BY DEF Listening
    <2> QED BY <1>1, <1>2, <1>3, <2>1, <2>2 DEF LoopProofInv, LoopTypeOK
  <1>5. Bound'
    BY <1>1, <1>2 DEF LoopProofInv, Bound
  <1>6. /\ \A e : Submittable(e)' <=> Submittable(e)
        /\ \A e : Completes(e)' <=> Completes(e)
        /\ \A e : Named(e)' = Named(e)
    BY <1>2 DEF Submittable, Completes, Named, Thing, Holding
  <1>7. Sure' \subseteq Sure
    BY <1>1 DEF Sure
  <1>8. \A i : ~Between(i) /\ ~Between(i)'
    BY <1>1 DEF Between
  <1>9. Kept' /\ Exact'
    BY <1>1, <1>2, <1>7, <1>8 DEF LoopProofInv, Kept, Exact
  <1>10. Agreed'
    BY <1>1, <1>2, <1>7, KeyedHandles DEF LoopProofInv, Agreed, Sure
  <1>11. \A n \in 1 .. Len(queue') : Submittable(queue'[n])
    BY <1>3 DEF LoopProofInv, QueueOK
  <1>12. ASSUME NEW n \in 1 .. Len(queue')
         PROVE  /\ Begins(queue'[n]) => n < Len(queue') /\ Pair(queue'[n], queue'[n + 1])
                /\ Completes(queue'[n]) => n > 1 /\ Pair(queue'[n - 1], queue'[n])
    <2>1. CASE n \in 1 .. Len(queue)
      <3>1. queue'[n] = queue[n]
        BY <1>3, <2>1
      <3>2. ASSUME Begins(queue[n])
            PROVE  n < Len(queue') /\ Pair(queue'[n], queue'[n + 1])
        <4>1. n < Len(queue) /\ Pair(queue[n], queue[n + 1])
          BY <2>1, <3>2 DEF LoopProofInv, QueueOK, Paired
        <4>2. n + 1 \in 1 .. Len(queue) /\ n < Len(queue')
          BY <1>3, <2>1, <4>1
        <4> QED BY <1>3, <3>1, <4>1, <4>2
      <3>3. ASSUME Completes(queue[n])
            PROVE  n > 1 /\ Pair(queue'[n - 1], queue'[n])
        <4>1. n # 1 /\ Pair(queue[n - 1], queue[n])
          BY <1>1, <2>1, <3>3 DEF LoopProofInv, QueueOK, Paired
        <4>2. n - 1 \in 1 .. Len(queue) /\ n > 1
          BY <1>3, <2>1, <4>1
        <4> QED BY <1>3, <3>1, <4>1, <4>2
      <3> QED BY <3>1, <3>2, <3>3
    <2>2. ASSUME NEW k \in 1 .. Len(effs), n = Len(queue) + k
          PROVE  /\ Begins(queue'[n]) => n < Len(queue') /\ Pair(queue'[n], queue'[n + 1])
                 /\ Completes(queue'[n]) => n > 1 /\ Pair(queue'[n - 1], queue'[n])
      <3>1. queue'[n] = effs[k]
        BY <1>3, <2>2
      <3>2. ASSUME Begins(effs[k])
            PROVE  n < Len(queue') /\ Pair(queue'[n], queue'[n + 1])
        <4>1. k < Len(effs) /\ Pair(effs[k], effs[k + 1])
          BY <3>2
        <4>2. k + 1 \in 1 .. Len(effs) /\ n + 1 = Len(queue) + (k + 1) /\ n < Len(queue')
          BY <1>3, <2>2, <4>1
        <4>3. queue'[n + 1] = effs[k + 1]
          BY <1>3, <4>2
        <4> QED BY <3>1, <4>1, <4>2, <4>3
      <3>3. ASSUME Completes(effs[k])
            PROVE  n > 1 /\ Pair(queue'[n - 1], queue'[n])
        <4>1. k > 1 /\ Pair(effs[k - 1], effs[k])
          BY <3>3
        <4>2. k - 1 \in 1 .. Len(effs) /\ n - 1 = Len(queue) + (k - 1) /\ n > 1
          BY <1>3, <2>2, <4>1
        <4>3. queue'[n - 1] = effs[k - 1]
          BY <1>3, <4>2
        <4> QED BY <3>1, <4>1, <4>2, <4>3
      <3> QED BY <3>1, <3>2, <3>3
    <2> QED BY <1>3, <2>1, <2>2
  <1>13. QueueOK'
    <2>1. Paired'
      BY <1>6, <1>12 DEF Paired, Begins, Pair, Thing
    <2> QED BY <1>3, <1>6, <1>11, <2>1 DEF QueueOK
  <1>14. ASSUME NEW n \in 1 .. Len(queue'), Named(queue'[n]) \in Sure'
         PROVE  /\ Lifting(queue'[n]) <=> dbHolder[Named(queue'[n])] = NoKey
                /\ Holding(queue'[n]) =>
                     dbHolder[Named(queue'[n])] \in {NoKey, byId[queue'[n].container]}
    <2>1. CASE n \in 1 .. Len(queue)
      BY <1>1, <1>3, <1>7, <1>14, <2>1 DEF LoopProofInv, StillHis
    <2>2. ASSUME NEW k \in 1 .. Len(effs), n = Len(queue) + k
          PROVE  /\ Lifting(queue'[n]) <=> dbHolder[Named(queue'[n])] = NoKey
                 /\ Holding(queue'[n]) =>
                      dbHolder[Named(queue'[n])] \in {NoKey, byId[queue'[n].container]}
      <3>1. queue'[n] = effs[k]
        BY <1>3, <2>2
      <3> QED BY <1>14, <3>1
    <2> QED BY <1>3, <2>1, <2>2
  <1>15. StillHis'
    BY <1>2, <1>6, <1>14 DEF StillHis, Holding, Lifting
  <1>16. ASSUME NEW m \in 1 .. Len(queue'), NEW n \in 1 .. Len(queue'),
                Named(queue'[m]) = Named(queue'[n]), Named(queue'[m]) \in Sure',
                queue'[m].kind = "InventoryAdd", queue'[n].kind = "InventoryAdd"
         PROVE  queue'[m].container = queue'[n].container
    <2>1. CASE m \in 1 .. Len(queue) /\ n \in 1 .. Len(queue)
      <3>1. queue'[m] = queue[m] /\ queue'[n] = queue[n] /\ OneMind
        BY <1>3, <2>1 DEF LoopProofInv
      <3>2. /\ Named(queue[m]) = Named(queue[n]) /\ Named(queue[m]) \in Sure
            /\ queue[m].kind = "InventoryAdd" /\ queue[n].kind = "InventoryAdd"
        BY <1>7, <1>16, <3>1
      <3>3. queue[m].container = queue[n].container
        BY <2>1, <3>1, <3>2 DEF OneMind
      <3> QED BY <3>1, <3>3
    <2>2. ASSUME m \in 1 .. Len(queue), NEW k \in 1 .. Len(effs), n = Len(queue) + k
          PROVE  queue'[m].container = queue'[n].container
      <3>1. queue'[m] = queue[m] /\ queue'[n] = effs[k]
        BY <1>3, <2>2
      <3>2. /\ queue[m].kind = "InventoryAdd" /\ effs[k].kind = "InventoryAdd"
            /\ Named(queue[m]) = Named(effs[k]) /\ Named(effs[k]) \in Sure'
        BY <1>16, <3>1
      <3>3. queue[m].container = effs[k].container
        BY <2>2, <3>2
      <3> QED BY <3>1, <3>3
    <2>3. ASSUME n \in 1 .. Len(queue), NEW k \in 1 .. Len(effs), m = Len(queue) + k
          PROVE  queue'[m].container = queue'[n].container
      <3>1. queue'[n] = queue[n] /\ queue'[m] = effs[k]
        BY <1>3, <2>3
      <3>2. /\ queue[n].kind = "InventoryAdd" /\ effs[k].kind = "InventoryAdd"
            /\ Named(queue[n]) = Named(effs[k]) /\ Named(effs[k]) \in Sure'
        BY <1>16, <3>1
      <3>3. queue[n].container = effs[k].container
        BY <2>3, <3>2
      <3> QED BY <3>1, <3>3
    <2>4. ASSUME NEW k \in 1 .. Len(effs), m = Len(queue) + k,
                 NEW l \in 1 .. Len(effs), n = Len(queue) + l
          PROVE  queue'[m].container = queue'[n].container
      <3>1. queue'[m] = effs[k] /\ queue'[n] = effs[l]
        BY <1>3, <2>4
      <3> QED BY <1>16, <2>4, <3>1
    <2> QED BY <1>3, <2>1, <2>2, <2>3, <2>4
  <1>17. OneMind'
    BY <1>6, <1>14, <1>16 DEF OneMind, Lifting
  <1>18. Stranded'
    <2> SUFFICES ASSUME NEW n \in 1 .. Len(queue'), queue'[n].kind = "MoveTo"
                 PROVE  byId[queue'[n].entity] \notin unplaced
      BY <1>2 DEF Stranded
    <2>1. CASE n \in 1 .. Len(queue)
      BY <1>3, <2>1 DEF LoopProofInv, Stranded
    <2>2. ASSUME NEW k \in 1 .. Len(effs), n = Len(queue) + k
          PROVE  byId[queue'[n].entity] \notin unplaced
      <3>1. queue'[n] = effs[k]
        BY <1>3, <2>2
      <3> QED BY <3>1 DEF Named, Thing
    <2> QED BY <1>3, <2>1, <2>2
  <1> QED BY <1>2, <1>4, <1>5, <1>9, <1>10, <1>13, <1>15, <1>17, <1>18 DEF LoopProofInv

\* Two effects for each item, in its turn.
LEMMA Turns ==
  ASSUME NEW L \in Nat, NEW n \in 1 .. 2 * L
  PROVE  /\ Turn(n) \in 1 .. L
         /\ First(n) => n < 2 * L /\ ~First(n + 1) /\ Turn(n + 1) = Turn(n)
         /\ ~First(n) => n > 1 /\ First(n - 1) /\ Turn(n - 1) = Turn(n)
  BY DEF Turn, First

\* What a command chooses is a sequence of the candidates.
LEMMA ChosenItems ==
  ASSUME NEW H \in SUBSET EntityId, NEW is \in Chosen(H),
         \A h, g \in H : h.slot = g.slot => h = g
  PROVE  is \in Seq(H)
  <1>1. PICK S \in SUBSET H : is \in Seqs!SetToSeqs(S)
    BY DEF Chosen
  <1>2. IsFiniteSet(S) /\ Cardinality(S) \in Nat
    <2> DEFINE f == [h \in S |-> h.slot]
    <2>1. IsFiniteSet(SlotIndex)
      BY FS_Interval, ArenaAssumption DEF SlotIndex
    <2>2. f \in [S -> SlotIndex]
      BY DEF EntityId
    <2>3. \A h, g \in S : f[h] = f[g] => h = g
      OBVIOUS
    <2>4. f \in Injection(S, SlotIndex)
      BY <2>2, <2>3 DEF Injection, IsInjective
    <2>5. IsFiniteSet(S)
      BY <2>1, <2>4, FS_Injection
    <2> QED BY <2>5, FS_CardinalityType
  <1>3. is \in [1 .. Cardinality(S) -> S]
    <2>1. Seqs!Cardinality(S) = Cardinality(S)
      BY DEF Seqs!Cardinality, Cardinality
    <2> QED BY <1>1, <2>1 DEF Seqs!SetToSeqs
  <1>4. is \in [1 .. Cardinality(S) -> H]
    BY <1>3
  <1> QED BY <1>2, <1>4, SeqDef

\* The caller of a command: a live puppet in a room that is loaded.
LEMMA CallerKnown ==
  ASSUME LoopProofInv, NEW s \in Sids, CanCommand(s)
  PROVE  /\ Listening /\ up /\ ~ticking
         /\ Caller(s) \in EntityId /\ byId[Caller(s)] \in Puppets /\ Resolves(Caller(s))
         /\ ResolvedAt(s) = location[Caller(s).slot]
         /\ ResolvedAt(s) \in Places /\ placeMap[ResolvedAt(s)] # NoSlug
         /\ byId[Caller(s)] \notin unplaced
  <1>1. /\ Listening /\ up /\ ~ticking /\ session[s] \notin Nobody
        /\ LocationOf(Caller(s)) # NoPlace /\ ResolvedAt(s) = LocationOf(Caller(s))
    BY DEF CanCommand, Listening, Settled, ResolvedAt
  <1>2. Caller(s) \in EntityId /\ byId[Caller(s)] \in Puppets
    BY <1>1 DEF LoopProofInv, Bound, LoopTypeOK, Caller
  <1>3. Resolves(Caller(s)) /\ byKey[byId[Caller(s)]] = Caller(s) /\ byId[Caller(s)] \in Keys
    BY <1>2, KeyedHandles DEF LoopProofInv
  <1>4. ResolvedAt(s) = location[Caller(s).slot]
    BY <1>1, <1>3 DEF LocationOf
  <1>5. byId[Caller(s)] \notin unplaced
    BY <1>1, <1>3, <1>4, InMemory DEF LoopProofInv
  <1>6. location[Caller(s).slot] \in Places /\ placeMap[location[Caller(s).slot]] # NoSlug
    <2>1. location[Caller(s).slot] \in Places \union {NoPlace} /\ Caller(s).slot \in SlotIndex
      BY <1>2 DEF LoopProofInv, DurableInv, WorldInv, WorldTypeOK, EntityId
    <2> QED BY <1>1, <1>4, <2>1 DEF LoopProofInv, Steady
  <1> QED BY <1>1, <1>2, <1>3, <1>4, <1>5, <1>6

\* The two effects of a get, for an item and a puppet.
LEMMA TakeEffect ==
  ASSUME LoopProofInv, NEW i \in EntityId, byId[i] \in Items,
         NEW c \in EntityId, byId[c] \in Puppets
  PROVE  /\ Submittable(Clear(i)) /\ Named(Clear(i)) = byId[i]
         /\ Begins(Clear(i)) /\ ~Completes(Clear(i)) /\ Lifting(Clear(i)) /\ ~Holding(Clear(i))
         /\ Clear(i).kind # "InventoryAdd"
         /\ Submittable(Put(c, i)) /\ Named(Put(c, i)) = byId[i]
         /\ ~Begins(Put(c, i)) /\ Lifting(Put(c, i))
         /\ Put(c, i).kind = "InventoryAdd" /\ Put(c, i).container = c /\ Put(c, i).item = i
         /\ Pair(Clear(i), Put(c, i))
  <1>1. byId[i] \in Keys
    BY DEF Items
  <1>2. Clear(i) \in Effect /\ Put(c, i) \in Effect
    BY DEF Clear, Put, Effect
  <1> QED BY <1>1, <1>2 DEF Clear, Put, Submittable, Named, Thing, Begins, Completes, Lifting,
                            Holding, Pair

\* The two effects of a drop.
LEMMA DropEffect ==
  ASSUME LoopProofInv, NEW i \in EntityId, byId[i] \in Items,
         NEW c \in EntityId, byId[c] \in Puppets, NEW p \in Places, placeMap[p] # NoSlug
  PROVE  /\ Submittable(Take(c, i)) /\ Named(Take(c, i)) = byId[i]
         /\ Begins(Take(c, i)) /\ ~Completes(Take(c, i)) /\ ~Lifting(Take(c, i))
         /\ Take(c, i).kind # "InventoryAdd" /\ Take(c, i).container = c
         /\ Submittable(Move(i, p)) /\ Named(Move(i, p)) = byId[i]
         /\ ~Begins(Move(i, p)) /\ ~Lifting(Move(i, p)) /\ ~Holding(Move(i, p))
         /\ Move(i, p).kind # "InventoryAdd"
         /\ Pair(Take(c, i), Move(i, p))
  <1>1. byId[i] \in Keys
    BY DEF Items
  <1>2. Take(c, i) \in Effect /\ Move(i, p) \in Effect
    BY DEF Take, Move, Effect
  <1> QED BY <1>1, <1>2 DEF Take, Move, Submittable, Named, Thing, Begins, Completes, Lifting,
                            Holding, Pair

\* get: what lies on the floor is carried by nobody, and whoever else has
\* reached for it before makes it contested.
LEMMA GetStep ==
  ASSUME LoopProofInv, NEW s \in Sids, Get(s)
  PROVE  LoopProofInv'
  <1>1. PICK c, H : c = Caller(s) /\ H = Floor(s)
    OBVIOUS
  <1>2. /\ Listening /\ up /\ ~ticking /\ c \in EntityId /\ byId[c] \in Puppets
        /\ ResolvedAt(s) \in Places /\ placeMap[ResolvedAt(s)] # NoSlug
    BY <1>1, CallerKnown DEF Get
  <1>3. PICK is \in Chosen(H) :
          /\ Submit(TakeEffects(c, is))
          /\ contested' = contested \union AlreadyTaken(c, Seqs!ToSet(is))
    BY <1>1 DEF Get
  <1>4. H \in SUBSET EntityId /\ \A h \in H : byId[h] \in Items /\ dbPlace[byId[h]] # NoSlug
    <2> SUFFICES ASSUME NEW h \in H
                 PROVE  h \in EntityId /\ byId[h] \in Items /\ dbPlace[byId[h]] # NoSlug
      OBVIOUS
    <2>1. h \in LiveHandles /\ location[h.slot] = ResolvedAt(s) /\ byId[h] \in Items
      BY <1>1, <1>2 DEF Floor, IsItem, LoopProofInv, DurableInv, WorldInv, TablesOK, OccupantsExact
    <2>2. h \in EntityId /\ byId[h] \in Keys /\ byKey[byId[h]] = h
      BY <2>1, KeyedHandles DEF LiveHandles, LoopProofInv
    <2>3. location[h.slot] # NoPlace
      BY <1>2, <2>1, WorldAssumption
    <2> QED BY <1>2, <2>1, <2>2, <2>3, InMemory DEF LoopProofInv
  <1>5. is \in Seq(H)
    BY <1>4, ChosenItems, KeyedHandles DEF LoopProofInv, Items
  <1>6. PICK L \in Nat : L = Len(is)
    BY <1>5, LenProperties
  <1>6a. PICK effs : effs = TakeEffects(c, is)
    OBVIOUS
  <1>7. \A n \in 1 .. L : is[n] \in H
    BY <1>5, <1>6, ElementOfSeq
  <1>8. \A n \in 1 .. 2 * L :
          /\ effs[n] = IF First(n) THEN Clear(is[Turn(n)]) ELSE Put(c, is[Turn(n)])
          /\ is[Turn(n)] \in H
    BY <1>6, <1>6a, <1>7, Turns DEF TakeEffects, TwoEach
  <1>9. effs \in Seq(Effect) /\ Len(effs) = 2 * L
    <2>1. \A n \in 1 .. 2 * L : effs[n] \in Effect
      BY <1>2, <1>4, <1>8, TakeEffect DEF Submittable
    <2>2. DOMAIN effs = 1 .. 2 * L /\ effs = [n \in 1 .. 2 * L |-> effs[n]]
      BY <1>6, <1>6a DEF TakeEffects, TwoEach
    <2>3. effs \in [1 .. 2 * L -> Effect] /\ 2 * L \in Nat
      BY <2>1, <2>2
    <2>4. effs \in Seq(Effect)
      BY <2>3, SeqDef
    <2> QED BY <2>2, <2>3, <2>4, LenProperties
  <1>10. ASSUME NEW n \in 1 .. Len(effs)
         PROVE  /\ Submittable(effs[n]) /\ Named(effs[n]) = byId[is[Turn(n)]] /\ Lifting(effs[n])
                /\ is[Turn(n)] \in H
                /\ Begins(effs[n]) => n < Len(effs) /\ Pair(effs[n], effs[n + 1])
                /\ Completes(effs[n]) => n > 1 /\ Pair(effs[n - 1], effs[n])
                /\ Named(effs[n]) \notin unplaced
                /\ Holding(effs[n]) => effs[n].container = c
                /\ effs[n].kind = "InventoryAdd" =>
                     effs[n].container = c /\ effs[n].item = is[Turn(n)]
    <2>1. n \in 1 .. 2 * L
      BY <1>9
    <2>2. is[Turn(n)] \in EntityId /\ byId[is[Turn(n)]] \in Items \ unplaced /\ is[Turn(n)] \in H
      BY <1>2, <1>4, <1>8, <2>1, InMemory DEF LoopProofInv
    <2>3. CASE First(n)
      <3>1. n + 1 \in 1 .. 2 * L /\ n < 2 * L
        <4>1. n < 2 * L
          BY <2>1, <2>3, Turns
        <4> QED BY <2>1, <4>1
      <3>2. effs[n] = Clear(is[Turn(n)]) /\ effs[n + 1] = Put(c, is[Turn(n)])
        BY <1>8, <2>1, <2>3, <3>1, Turns
      <3> QED BY <1>2, <1>9, <2>2, <3>1, <3>2, TakeEffect
    <2>4. CASE ~First(n)
      <3>1. n - 1 \in 1 .. 2 * L /\ n > 1
        BY <2>1, <2>4, Turns
      <3>2. effs[n] = Put(c, is[Turn(n)]) /\ effs[n - 1] = Clear(is[Turn(n)])
        BY <1>8, <2>1, <2>4, <3>1, Turns
      <3> QED BY <1>2, <1>9, <2>2, <3>1, <3>2, TakeEffect
    <2> QED BY <2>3, <2>4
  <1>11. /\ AlreadyTaken(c, Seqs!ToSet(is)) \subseteq Items
         /\ \A m \in 1 .. Len(queue), n \in 1 .. L :
              queue[m].kind = "InventoryAdd" /\ queue[m].item = is[n] /\ queue[m].container # c
                => byId[is[n]] \in contested'
    <2>1. Seqs!ToSet(is) = {is[n] : n \in 1 .. L}
      BY <1>5, <1>6, LenProperties DEF Seqs!ToSet
    <2> QED BY <1>3, <1>4, <1>7, <2>1 DEF AlreadyTaken
  <1>12. Sure' \subseteq Sure /\ Sure' \subseteq Items \ contested'
    BY <1>3 DEF Sure, Submit
  <1>13. ASSUME NEW n \in 1 .. Len(effs), Named(effs[n]) \in Sure'
         PROVE  /\ Lifting(effs[n]) <=> dbHolder[Named(effs[n])] = NoKey
                /\ Holding(effs[n]) =>
                     dbHolder[Named(effs[n])] \in {NoKey, byId[effs[n].container]}
    <2>1. dbPlace[Named(effs[n])] # NoSlug
      BY <1>4, <1>10
    <2>2. ~Between(Named(effs[n]))
      BY <1>2 DEF Between
    <2>3. dbHolder[Named(effs[n])] = NoKey
      BY <1>12, <1>13, <2>1, <2>2 DEF LoopProofInv, Exact
    <2> QED BY <1>10, <2>3
  <1>14. ASSUME NEW m \in 1 .. Len(queue), NEW n \in 1 .. Len(effs),
                queue[m].kind = "InventoryAdd", effs[n].kind = "InventoryAdd",
                Named(queue[m]) = Named(effs[n]), Named(effs[n]) \in Sure'
         PROVE  queue[m].container = effs[n].container
    <2>1. Submittable(queue[m]) /\ queue[m].item \in EntityId
      BY <1>14 DEF LoopProofInv, QueueOK, Submittable, Effect
    <2>2. byId[queue[m].item] = byId[is[Turn(n)]]
      BY <1>10, <1>14 DEF Named, Thing
    <2>3. queue[m].item = is[Turn(n)]
      BY <1>4, <1>10, <2>1, <2>2, KeyedHandles DEF LoopProofInv, Items
    <2>4. Turn(n) \in 1 .. L
      BY <1>9, Turns
    <2> QED BY <1>10, <1>11, <1>12, <1>14, <2>3, <2>4
  <1>15. contested \subseteq contested' /\ contested' \subseteq Items
    BY <1>3, <1>11 DEF LoopProofInv, LoopTypeOK
  <1>16. Submit(effs)
    BY <1>3, <1>6a
  <1> QED BY <1>2, <1>9, <1>10, <1>13, <1>14, <1>15, <1>16, SubmitStep

\* drop: what a puppet holds is his by the database too, unless it is contested.
LEMMA DropStep ==
  ASSUME LoopProofInv, NEW s \in Sids, Drop(s)
  PROVE  LoopProofInv'
  <1>1. PICK c, H, p : c = Caller(s) /\ H = InventoryOf(Caller(s)) /\ p = ResolvedAt(s)
    OBVIOUS
  <1>2. /\ Listening /\ up /\ ~ticking /\ c \in EntityId /\ byId[c] \in Puppets /\ Resolves(c)
        /\ p \in Places /\ placeMap[p] # NoSlug
    BY <1>1, CallerKnown DEF Drop
  <1>3. PICK is \in Chosen(H) : Submit(DropEffects(c, is, p))
    BY <1>1 DEF Drop
  <1>4. contested' = contested
    BY DEF Drop
  <1>5. /\ H \in SUBSET EntityId
        /\ \A h \in H : byId[h] \in Items /\ Contains(c, h)
    <2>1. H = contents[c.slot] /\ c.slot \in SlotIndex
      BY <1>1, <1>2, KeyedHandles DEF InventoryOf, EntityId
    <2> QED BY <1>2, <2>1, KeyedHandles DEF LoopProofInv, Steady, IsItem, Contains
  <1>6. is \in Seq(H)
    BY <1>5, ChosenItems, KeyedHandles DEF LoopProofInv, Items
  <1>7. PICK L \in Nat : L = Len(is)
    BY <1>6, LenProperties
  <1>7a. PICK effs : effs = DropEffects(c, is, p)
    OBVIOUS
  <1>8. \A n \in 1 .. L : is[n] \in H
    BY <1>6, <1>7, ElementOfSeq
  <1>9. \A n \in 1 .. 2 * L :
          /\ effs[n] = IF First(n) THEN Take(c, is[Turn(n)]) ELSE Move(is[Turn(n)], p)
          /\ is[Turn(n)] \in H
    BY <1>7, <1>7a, <1>8, Turns DEF DropEffects, TwoEach
  <1>10. effs \in Seq(Effect) /\ Len(effs) = 2 * L
    <2>1. \A n \in 1 .. 2 * L : effs[n] \in Effect
      BY <1>2, <1>5, <1>9, DropEffect DEF Submittable
    <2>2. DOMAIN effs = 1 .. 2 * L /\ effs = [n \in 1 .. 2 * L |-> effs[n]]
      BY <1>7, <1>7a DEF DropEffects, TwoEach
    <2>3. effs \in [1 .. 2 * L -> Effect] /\ 2 * L \in Nat
      BY <2>1, <2>2
    <2>4. effs \in Seq(Effect)
      BY <2>3, SeqDef
    <2> QED BY <2>2, <2>3, <2>4, LenProperties
  <1>11. ASSUME NEW n \in 1 .. Len(effs)
         PROVE  /\ Submittable(effs[n]) /\ Named(effs[n]) = byId[is[Turn(n)]] /\ ~Lifting(effs[n])
                /\ is[Turn(n)] \in H
                /\ Begins(effs[n]) => n < Len(effs) /\ Pair(effs[n], effs[n + 1])
                /\ Completes(effs[n]) => n > 1 /\ Pair(effs[n - 1], effs[n])
                /\ Named(effs[n]) \notin unplaced
                /\ Holding(effs[n]) => effs[n].container = c
                /\ effs[n].kind # "InventoryAdd"
    <2>1. n \in 1 .. 2 * L
      BY <1>10
    <2>2. is[Turn(n)] \in EntityId /\ byId[is[Turn(n)]] \in Items \ unplaced /\ is[Turn(n)] \in H
      BY <1>2, <1>5, <1>9, <2>1, InMemory DEF LoopProofInv
    <2>3. CASE First(n)
      <3>1. n + 1 \in 1 .. 2 * L /\ n < 2 * L
        <4>1. n < 2 * L
          BY <2>1, <2>3, Turns
        <4> QED BY <2>1, <4>1
      <3>2. effs[n] = Take(c, is[Turn(n)]) /\ effs[n + 1] = Move(is[Turn(n)], p)
        BY <1>9, <2>1, <2>3, <3>1, Turns
      <3> QED BY <1>2, <1>10, <2>2, <3>1, <3>2, DropEffect
    <2>4. CASE ~First(n)
      <3>1. n - 1 \in 1 .. 2 * L /\ n > 1
        BY <2>1, <2>4, Turns
      <3>2. effs[n] = Move(is[Turn(n)], p) /\ effs[n - 1] = Take(c, is[Turn(n)])
        BY <1>9, <2>1, <2>4, <3>1, Turns
      <3> QED BY <1>2, <1>10, <2>2, <3>1, <3>2, DropEffect
    <2> QED BY <2>3, <2>4
  <1>12. Sure' = Sure
    BY <1>3, <1>4 DEF Sure, Submit
  <1>13. ASSUME NEW n \in 1 .. Len(effs), Named(effs[n]) \in Sure'
         PROVE  /\ Lifting(effs[n]) <=> dbHolder[Named(effs[n])] = NoKey
                /\ Holding(effs[n]) =>
                     dbHolder[Named(effs[n])] \in {NoKey, byId[effs[n].container]}
    <2> DEFINE h == is[Turn(n)]
    <2>1. h \in EntityId /\ byId[h] \in Sure /\ Contains(c, h) /\ Named(effs[n]) = byId[h]
      BY <1>5, <1>11, <1>12, <1>13
    <2>2. byKey[byId[c]] = c /\ byKey[byId[h]] = h /\ byId[c] # NoKey
      BY <1>2, <2>1, KeyedHandles DEF LoopProofInv, Sure, Items
    <2>3. Holds(byId[c], byId[h])
      BY <1>2, <2>1, <2>2, KeyedHandles DEF LoopProofInv, Holds, Sure
    <2>4. dbHolder[byId[h]] = byId[c]
      BY <1>2, <2>1, <2>3 DEF LoopProofInv, Agreed
    <2> QED BY <1>11, <2>1, <2>2, <2>4
  <1>14. contested \subseteq contested' /\ contested' \subseteq Items
    BY <1>4 DEF LoopProofInv, LoopTypeOK
  <1>15. Submit(effs)
    BY <1>3, <1>7a
  <1> QED BY <1>2, <1>10, <1>11, <1>13, <1>14, <1>15, SubmitStep

\* A direction: the caller goes to a loaded room.
LEMMA WalkStep ==
  ASSUME LoopProofInv, NEW s \in Sids, NEW to \in Places, Walk(s, to)
  PROVE  LoopProofInv'
  <1>1. PICK c, e, effs : c = Caller(s) /\ e = Move(c, to) /\ effs = <<e>>
    OBVIOUS
  <1>2. /\ Listening /\ up /\ ~ticking /\ c \in EntityId /\ byId[c] \in Puppets
        /\ ResolvedAt(s) \in Places /\ placeMap[ResolvedAt(s)] # NoSlug
        /\ byId[c] \notin unplaced
    BY <1>1, CallerKnown DEF Walk
  <1>3. /\ placeMap[to] \in Exits[placeMap[ResolvedAt(s)]]
        /\ Submit(effs) /\ contested' = contested
    BY <1>1 DEF Walk
  <1>4. placeMap[to] # NoSlug
    <2>1. placeMap[ResolvedAt(s)] \in Slugs
      BY <1>2 DEF LoopProofInv, DurableInv, MapsOK
    <2> QED BY <1>3, <2>1, LoopAssumption, PersistAssumption
  <1>5. /\ Submittable(e) /\ ~Begins(e) /\ Named(e) \in Puppets /\ ~Completes(e)
        /\ e.kind # "InventoryAdd" /\ e \in Effect /\ Named(e) \notin unplaced
    <2>1. e = [kind |-> "MoveTo", entity |-> c, place |-> to]
      BY <1>1 DEF Move
    <2>2. e \in Effect /\ e.kind = "MoveTo" /\ e.entity = c /\ e.place = to
      BY <1>2, <2>1 DEF Effect
    <2>3. Named(e) = byId[c] /\ byId[c] \in Keys /\ byId[c] \notin Items
      BY <1>2, <2>2, LoopAssumption DEF Named, Thing, Items
    <2> QED BY <1>2, <1>4, <2>2, <2>3 DEF Submittable, Begins, Completes, Holding
  <1>6. effs \in Seq(Effect) /\ Len(effs) = 1 /\ \A n \in 1 .. Len(effs) : effs[n] = e
    BY <1>1, <1>5
  <1>7. Puppets \cap Sure' = {} /\ contested \subseteq contested' /\ contested' \subseteq Items
    BY <1>3 DEF Sure, Items, LoopProofInv, LoopTypeOK
  <1> QED BY <1>2, <1>3, <1>5, <1>6, <1>7, SubmitStep

-----------------------------------------------------------------------------
\* The effect at the head of a tick is applied, in memory and in the database:
\* never rejected, and never a lookup without a key.
LEMMA Applied ==
  ASSUME LoopProofInv, ApplyNext, NEW e, e = Head(queue)
  PROVE  /\ up /\ up' = TRUE /\ ticking /\ Submittable(e) /\ Persist(e) /\ DurableInv'
         /\ queue \in Seq(Effect) /\ queue # <<>> /\ queue' = Tail(queue)
         /\ ticking' = (queue' # <<>>)
         /\ UNCHANGED <<session, hydrating, contested, torn, rows, byKey, byId, placeMap, slots>>
         /\ unplaced' \subseteq unplaced /\ hydrating = NoKey
  <1>1. /\ ticking /\ queue # <<>> /\ ApplyGuarded(NoGuard, e)
        /\ queue' = IF up' THEN Tail(queue) ELSE <<>>
        /\ ticking' = (queue' # <<>>)
        /\ session' = IF up' THEN session ELSE [s \in Sids |-> Absent]
        /\ UNCHANGED <<hydrating, contested, torn>> /\ hydrating = NoKey
    BY DEF ApplyNext, LoopProofInv, LoopTypeOK, Settled
  <1>2. queue \in Seq(Effect) /\ Submittable(e)
    <2>1. queue \in Seq(Effect)
      BY DEF LoopProofInv, QueueOK
    <2>2. 1 \in 1 .. Len(queue) /\ e = queue[1]
      BY <1>1, <2>1, EmptySeq
    <2> QED BY <2>1, <2>2 DEF LoopProofInv, QueueOK
  <1>3. e \in Effect /\ up
    BY <1>1, <1>2 DEF Submittable, ApplyGuarded
  <1>4. /\ e.kind \in {"ClearLocation", "MoveTo", "InventoryAdd", "InventoryRemove"}
        /\ e.kind \in {"ClearLocation", "MoveTo"} =>
             e.entity \in EntityId /\ byId[e.entity] \in Keys
        /\ e.kind = "MoveTo" => e.place \in Places /\ placeMap[e.place] # NoSlug
        /\ e.kind \in {"InventoryAdd", "InventoryRemove"} =>
             /\ e.item \in EntityId /\ e.container \in EntityId
             /\ byId[e.item] \in Items /\ byId[e.container] \in Puppets
    BY <1>2, <1>3 DEF Submittable, Effect, Named, Thing, Holding
  <1>5. /\ NoKey \notin Keys /\ Items \subseteq Keys /\ Puppets \subseteq Keys
        /\ \A h \in EntityId : byId[h] \in Keys => Resolves(h)
    BY KeyedHandles DEF LoopProofInv
  <1>6. Accepted(e) /\ Mapped(e) /\ Satisfies(NoGuard)
    <2>1. Accepted(e)
      BY <1>4, <1>5 DEF Accepted
    <2>2. Mapped(e)
      BY <1>4, <1>5 DEF Mapped
    <2> QED BY <2>1, <2>2 DEF Satisfies, NoGuard
  <1>7. Persist(e)
    BY <1>1, <1>6 DEF ApplyGuarded
  <1>8. DurableInv'
    BY <1>3, <1>6, <1>7, PersistDurable DEF LoopProofInv
  <1>9. up' = up /\ placeMap' = placeMap /\ unplaced' \subseteq unplaced
    BY <1>7 DEF Persist
  <1>10. UNCHANGED <<rows, byKey, byId, slots>>
    BY <1>4, <1>7 DEF Persist, PersistMove, PersistClearLocation, PersistInventoryAdd,
                      PersistInventoryRemove, MoveTo, ClearLocation, InventoryAdd,
                      InventoryRemove, mapVars, arenaVars
  <1> QED BY <1>1, <1>2, <1>3, <1>7, <1>8, <1>9, <1>10

\* What the application of an effect changes, by keys: at most the row of its
\* item or puppet, and who holds it in memory.
LEMMA AppliedRows ==
  ASSUME LoopProofInv, ApplyNext, NEW e, e = Head(queue), NEW k, k = Named(e)
  PROVE  /\ \A j \in Keys \ {k} : dbPlace'[j] = dbPlace[j] /\ dbHolder'[j] = dbHolder[j]
         /\ e.kind = "ClearLocation" => dbPlace'[k] = NoSlug /\ dbHolder'[k] = dbHolder[k]
         /\ e.kind = "MoveTo" => dbPlace'[k] # NoSlug /\ dbHolder'[k] = dbHolder[k]
         /\ e.kind = "InventoryAdd" =>
              dbPlace'[k] = dbPlace[k] /\ dbHolder'[k] = byId[e.container]
         /\ e.kind = "InventoryRemove" =>
              /\ dbPlace'[k] = dbPlace[k]
              /\ dbHolder'[k] = IF dbHolder[k] = byId[e.container] THEN NoKey ELSE dbHolder[k]
  <1>1. /\ Persist(e) /\ Submittable(e)
        /\ dbPlace \in [Keys -> Slugs \union {NoSlug}] /\ dbHolder \in [Keys -> Keys \union {NoKey}]
    BY Applied DEF LoopProofInv, DurableInv, RowsOK
  <1>2. k \in Keys
    BY <1>1 DEF Submittable
  <1>3. CASE e.kind = "ClearLocation"
    <2>1. dbPlace' = [dbPlace EXCEPT ![k] = NoSlug] /\ dbHolder' = dbHolder
      BY <1>1, <1>3 DEF Persist, PersistClearLocation, Named, Thing
    <2> QED BY <1>1, <1>2, <1>3, <2>1
  <1>4. CASE e.kind = "MoveTo"
    <2>1. dbPlace' = [dbPlace EXCEPT ![k] = placeMap[e.place]] /\ dbHolder' = dbHolder
      BY <1>1, <1>4 DEF Persist, PersistMove, Named, Thing
    <2>2. placeMap[e.place] # NoSlug
      BY <1>1, <1>4 DEF Submittable
    <2> QED BY <1>1, <1>2, <1>4, <2>1, <2>2
  <1>5. CASE e.kind = "InventoryAdd"
    <2>1. dbHolder' = [dbHolder EXCEPT ![k] = byId[e.container]] /\ dbPlace' = dbPlace
      BY <1>1, <1>5 DEF Persist, PersistInventoryAdd, UpsertHolder, Named, Thing
    <2> QED BY <1>1, <1>2, <1>5, <2>1
  <1>6. CASE e.kind = "InventoryRemove"
    <2>1. /\ dbHolder' = [dbHolder EXCEPT ![k] = IF @ = byId[e.container] THEN NoKey ELSE @]
          /\ dbPlace' = dbPlace
      BY <1>1, <1>6 DEF Persist, PersistInventoryRemove, Named, Thing
    <2> QED BY <1>1, <1>2, <1>6, <2>1
  <1> QED BY <1>1, <1>3, <1>4, <1>5, <1>6 DEF Submittable

\* No two handles of a slot are in play, so an entry recognised by its slot is
\* the item itself.
LEMMA AppliedContents ==
  ASSUME LoopProofInv, ApplyNext, NEW e, e = Head(queue)
  PROVE  /\ contents \in [SlotIndex -> SUBSET EntityId]
         /\ e.kind \in {"ClearLocation", "MoveTo"} => contents' = contents
         /\ e.kind = "InventoryAdd" =>
              contents' = [contents EXCEPT ![e.container.slot] = @ \union {e.item}]
         /\ e.kind = "InventoryRemove" =>
              contents' = [contents EXCEPT ![e.container.slot] = @ \ {e.item}]
  <1>1. Persist(e) /\ Submittable(e)
    BY Applied
  <1>2. contents \in [SlotIndex -> SUBSET EntityId]
    <2>1. contents \in [SlotIndex -> SUBSET minted] /\ minted \subseteq EntityId
      BY DEF LoopProofInv, DurableInv, WorldInv, WorldTypeOK, ArenaTypeOK
    <2> QED BY <2>1
  <1>3. e.kind \in {"ClearLocation", "MoveTo"} => contents' = contents
    BY <1>1 DEF Persist, PersistMove, PersistClearLocation, MoveTo, ClearLocation
  <1>4. ASSUME e.kind \in {"InventoryAdd", "InventoryRemove"}
        PROVE  /\ e.item \in EntityId /\ e.container.slot \in SlotIndex
               /\ \A x \in contents[e.container.slot] :
                    x \in EntityId /\ (x.slot = e.item.slot => x = e.item)
    <2>1. /\ e.item \in EntityId /\ e.container \in EntityId
          /\ byId[e.item] \in Items /\ byId[e.container] \in Puppets
      BY <1>1, <1>4 DEF Submittable, Effect, Named, Thing, Holding
    <2>2. e.container.slot \in SlotIndex /\ byId[e.item] # NoKey
      BY <2>1, KeyedHandles DEF LoopProofInv
    <2>3. \A x \in contents[e.container.slot] : x \in EntityId /\ byId[x] # NoKey
      BY <2>2, KeyedHandles DEF LoopProofInv, Steady, IsItem
    <2> QED BY <2>1, <2>2, <2>3, KeyedHandles DEF LoopProofInv
  <1>5. ASSUME e.kind = "InventoryAdd"
        PROVE  contents' = [contents EXCEPT ![e.container.slot] = @ \union {e.item}]
    <2>1. contents' = [contents EXCEPT ![e.container.slot] =
                         IF HeldAt(e.item.slot, e.container) THEN @ ELSE @ \union {e.item}]
      BY <1>1, <1>5 DEF Persist, PersistInventoryAdd, InventoryAdd, Insert
    <2>2. HeldAt(e.item.slot, e.container) => e.item \in contents[e.container.slot]
      BY <1>4, <1>5 DEF HeldAt
    <2>3. (IF HeldAt(e.item.slot, e.container) THEN contents[e.container.slot]
             ELSE contents[e.container.slot] \union {e.item})
            = contents[e.container.slot] \union {e.item}
      BY <2>2
    <2> QED BY <1>2, <1>4, <1>5, <2>1, <2>3
  <1>6. ASSUME e.kind = "InventoryRemove"
        PROVE  contents' = [contents EXCEPT ![e.container.slot] = @ \ {e.item}]
    <2>1. contents' = [contents EXCEPT ![e.container.slot] = {x \in @ : x.slot # e.item.slot}]
      BY <1>1, <1>6 DEF Persist, PersistInventoryRemove, InventoryRemove, Remove
    <2>2. {x \in contents[e.container.slot] : x.slot # e.item.slot}
            = contents[e.container.slot] \ {e.item}
      BY <1>4, <1>6
    <2> QED BY <1>2, <1>4, <1>6, <2>1, <2>2
  <1> QED BY <1>2, <1>3, <1>5, <1>6

\* What holds after a step is by the lists after it.
LEMMA NextByList ==
  ASSUME MapsOK', KeysMatchLive'
  PROVE  \A c, i \in Keys : Holds(c, i)' <=>
           Resident(c)' /\ Resident(i)' /\ byKey'[i] \in contents'[byKey'[c].slot]
  <1>1. (MapsOK /\ KeysMatchLive =>
           \A c, i \in Keys :
             Holds(c, i) <=> Resident(c) /\ Resident(i) /\ byKey[i] \in contents[byKey[c].slot])'
    BY HoldsByList, PTL
  <1> QED BY <1>1

\* In terms of keys: one puppet more, or one less, holds the item.
LEMMA AppliedHoldings ==
  ASSUME LoopProofInv, ApplyNext, NEW e, e = Head(queue),
         NEW d \in Puppets, NEW i \in Items
  PROVE  Holds(d, i)' <=>
           \/ Holds(d, i)
              /\ ~(e.kind = "InventoryRemove" /\ d = byId[e.container] /\ i = Named(e))
           \/ e.kind = "InventoryAdd" /\ d = byId[e.container] /\ i = Named(e)
  <1> DEFINE D == byKey[d]
             I == byKey[i]
  <1>1. /\ up /\ Submittable(e) /\ byKey' = byKey /\ slots' = slots
        /\ contents \in [SlotIndex -> SUBSET EntityId]
    BY Applied, AppliedContents
  <1>2. /\ I \in EntityId /\ byId[I] = i /\ d \in Keys /\ i \in Keys /\ Resident(i)
        /\ Resident(d) => D \in EntityId /\ byId[D] = d /\ D.slot \in SlotIndex
        /\ d # NoKey /\ i # NoKey
    BY <1>1, KeyedHandles DEF LoopProofInv
  <1>3. Holds(d, i)' <=> Resident(d) /\ I \in contents'[D.slot]
    <2>1. DurableInv'
      BY Applied
    <2>2. Holds(d, i)' <=> Resident(d)' /\ Resident(i)' /\ byKey'[i] \in contents'[byKey'[d].slot]
      BY <1>2, <2>1, NextByList DEF DurableInv
    <2> QED BY <1>1, <1>2, <2>2 DEF Resident
  <1>4. Holds(d, i) <=> Resident(d) /\ I \in contents[D.slot]
    BY <1>2, HoldsByList DEF LoopProofInv, DurableInv
  <1>5. CASE e.kind \in {"ClearLocation", "MoveTo"}
    BY <1>3, <1>4, <1>5, AppliedContents
  <1>6. CASE e.kind \in {"InventoryAdd", "InventoryRemove"}
    <2>1. /\ e.item \in EntityId /\ e.container \in EntityId /\ Named(e) = byId[e.item]
          /\ byId[e.container] \in Puppets
      BY <1>1, <1>6 DEF Submittable, Effect, Named, Thing, Holding
    <2>2. /\ e.container.slot \in SlotIndex /\ byId[e.container] # NoKey
          /\ Resident(byId[e.container])
      BY <2>1, KeyedHandles DEF LoopProofInv
    <2>3. Resident(d) => (D.slot = e.container.slot <=> d = byId[e.container])
      BY <1>2, <2>1, <2>2, KeyedHandles DEF LoopProofInv
    <2>4. I = e.item <=> i = Named(e)
      BY <1>2, <2>1, KeyedHandles DEF LoopProofInv
    <2>5. CASE e.kind = "InventoryAdd"
      <3>1. Resident(d) => (I \in contents'[D.slot] <=>
              I \in contents[D.slot] \/ (D.slot = e.container.slot /\ I = e.item))
        BY <1>1, <1>2, <2>2, <2>5, AppliedContents
      <3> QED BY <1>3, <1>4, <2>2, <2>3, <2>4, <2>5, <3>1
    <2>6. CASE e.kind = "InventoryRemove"
      <3>1. Resident(d) => (I \in contents'[D.slot] <=>
              I \in contents[D.slot] /\ ~(D.slot = e.container.slot /\ I = e.item))
        BY <1>1, <1>2, <2>2, <2>6, AppliedContents
      <3> QED BY <1>3, <1>4, <2>2, <2>3, <2>4, <2>6, <3>1
    <2> QED BY <1>6, <2>5, <2>6
  <1> QED BY <1>1, <1>5, <1>6 DEF Submittable

\* An entry that an add leaves behind is a puppet's, for only puppets hold.
LEMMA AppliedKept ==
  ASSUME LoopProofInv, ApplyNext, NEW e, e = Head(queue)
  PROVE  \A c, i \in Keys : <<c, i>> \in kept' => c \in Puppets
  <1>1. Persist(e) /\ Submittable(e)
    BY Applied
  <1>2. \A c, i \in Keys : <<c, i>> \in kept => c \in Puppets
    BY DEF LoopProofInv, Steady
  <1>3. CASE e.kind \in {"ClearLocation", "MoveTo"}
    <2>1. kept' = kept
      BY <1>1, <1>3 DEF Persist, PersistMove, PersistClearLocation, apart
    <2> QED BY <1>2, <2>1
  <1>4. CASE e.kind = "InventoryRemove"
    <2>1. kept' \subseteq kept
      BY <1>1, <1>4 DEF Persist, PersistInventoryRemove, RemoveApart
    <2> QED BY <1>2, <2>1
  <1>5. CASE e.kind = "InventoryAdd"
    <2> DEFINE k == byId[e.item]
               old == <<dbHolder[k], k>>
    <2>1. kept' \subseteq kept \union ({old} \ {<<NoKey, k>>})
      BY <1>1, <1>5 DEF Persist, PersistInventoryAdd, AddApart
    <2>2. k \in Items
      BY <1>1, <1>5 DEF Submittable, Named, Thing
    <2>3. dbHolder[k] \in Puppets \union {NoKey}
      BY <2>2 DEF LoopProofInv, Steady
    <2> QED BY <1>2, <2>1, <2>3
  <1> QED BY <1>1, <1>3, <1>4, <1>5 DEF Submittable

\* An effect that places places in a room that is loaded.
LEMMA AppliedPlaces ==
  ASSUME LoopProofInv, ApplyNext, NEW e, e = Head(queue)
  PROVE  \A t \in SlotIndex : location'[t] = NoPlace \/ placeMap[location'[t]] # NoSlug
  <1>1. Persist(e) /\ Submittable(e)
    BY Applied
  <1>2. /\ location \in [SlotIndex -> Places \union {NoPlace}]
        /\ \A t \in SlotIndex : location[t] = NoPlace \/ placeMap[location[t]] # NoSlug
    BY DEF LoopProofInv, DurableInv, WorldInv, WorldTypeOK, Steady
  <1>3. CASE e.kind \in {"InventoryAdd", "InventoryRemove"}
    <2>1. location' = location
      BY <1>1, <1>3 DEF Persist, PersistInventoryAdd, PersistInventoryRemove, InventoryAdd,
                        InventoryRemove
    <2> QED BY <1>2, <2>1
  <1>4. CASE e.kind = "ClearLocation"
    <2>1. location' = [location EXCEPT ![e.entity.slot] = NoPlace]
      BY <1>1, <1>4 DEF Persist, PersistClearLocation, ClearLocation, RemoveLocation
    <2> QED BY <1>2, <2>1
  <1>5. CASE e.kind = "MoveTo"
    <2>1. location' = [location EXCEPT ![e.entity.slot] = e.place] /\ placeMap[e.place] # NoSlug
      BY <1>1, <1>5 DEF Submittable, Persist, PersistMove, MoveTo, PlaceAt
    <2> QED BY <1>2, <2>1
  <1> QED BY <1>1, <1>3, <1>4, <1>5 DEF Submittable

\* The queue after its head was taken.
LEMMA QueueShrinks ==
  ASSUME LoopProofInv, ApplyNext, NEW e, e = Head(queue)
  PROVE  /\ queue' \in Seq(Effect) /\ Len(queue) \in Nat \ {0} /\ Len(queue') = Len(queue) - 1
         /\ e = queue[1] /\ 1 \in 1 .. Len(queue)
         /\ \A n \in 1 .. Len(queue') : queue'[n] = queue[n + 1] /\ n + 1 \in 1 .. Len(queue)
         /\ queue' # <<>> =>
              2 \in 1 .. Len(queue) /\ 1 \in 1 .. Len(queue') /\ Head(queue') = queue[2]
         /\ Len(queue) > 1 => queue' # <<>>
         /\ QueueOK' /\ LoopTypeOK' /\ Stranded'
         /\ \A x : Named(x)' = Named(x) /\ (Completes(x)' <=> Completes(x))
         /\ Begins(e) => ticking' /\ Completes(Head(queue')) /\ Pair(e, Head(queue'))
         /\ ~Begins(e) => \A i : ~Between(i)'
  <1>1. /\ queue \in Seq(Effect) /\ queue # <<>> /\ queue' = Tail(queue)
        /\ ticking' = (queue' # <<>>) /\ up /\ up' = TRUE /\ ticking /\ Submittable(e)
        /\ UNCHANGED <<session, hydrating, contested, torn, byKey, byId, placeMap>>
        /\ hydrating = NoKey /\ unplaced' \subseteq unplaced
    BY Applied
  <1>2. /\ queue' \in Seq(Effect) /\ Len(queue) \in Nat \ {0} /\ Len(queue') = Len(queue) - 1
        /\ \A n \in 1 .. Len(queue') : queue'[n] = queue[n + 1]
    BY <1>1, HeadTailProperties, EmptySeq
  <1>3. e = queue[1] /\ 1 \in 1 .. Len(queue)
    BY <1>1, <1>2
  <1>4. \A n \in 1 .. Len(queue') : queue'[n] = queue[n + 1] /\ n + 1 \in 1 .. Len(queue)
    BY <1>2
  <1>5. ASSUME queue' # <<>>
        PROVE  2 \in 1 .. Len(queue) /\ 1 \in 1 .. Len(queue') /\ Head(queue') = queue[2]
    <2>1. Len(queue') \in Nat \ {0}
      BY <1>2, <1>5, EmptySeq
    <2>2. 2 \in 1 .. Len(queue) /\ 1 \in 1 .. Len(queue')
      BY <1>2, <2>1
    <2>3. Head(queue') = queue'[1] /\ queue'[1] = queue[1 + 1]
      BY <1>2, <2>2
    <2> QED BY <2>2, <2>3
  <1>6. ASSUME Len(queue) > 1 PROVE queue' # <<>>
    <2>1. Len(queue') # 0
      BY <1>2, <1>6
    <2> QED BY <2>1, EmptySeq
  <1>7. \A x : Named(x)' = Named(x) /\ (Completes(x)' <=> Completes(x))
               /\ (Submittable(x)' <=> Submittable(x))
    BY <1>1 DEF Named, Thing, Completes, Submittable, Holding
  <1>8. Paired
    BY DEF LoopProofInv, QueueOK
  <1>9. ASSUME Begins(e)
        PROVE  ticking' /\ Completes(Head(queue')) /\ Pair(e, Head(queue'))
    <2>1. Len(queue) > 1 /\ Pair(e, queue[2])
      BY <1>2, <1>3, <1>8, <1>9 DEF Paired
    <2>2. queue' # <<>> /\ Head(queue') = queue[2]
      BY <1>5, <1>6, <2>1
    <2>3. Named(e) \in Items /\ Named(queue[2]) = Named(e)
      BY <1>1, <1>9, <2>1 DEF Submittable, Begins, Pair, Named
    <2> QED BY <1>1, <2>1, <2>2, <2>3 DEF Pair, Completes
  <1>10. ASSUME ~Begins(e), NEW i, Between(i)' PROVE FALSE
    <2>1. queue' # <<>> /\ Completes(queue[2])
      BY <1>1, <1>5, <1>7, <1>10 DEF Between
    <2>2. Pair(queue[1], queue[2])
      <3>1. 2 \in 1 .. Len(queue) /\ 2 # 1 /\ 2 - 1 = 1
        BY <1>5, <2>1
      <3> QED BY <1>8, <2>1, <3>1 DEF Paired
    <2> QED BY <1>3, <1>10, <2>2 DEF Pair, Begins
  <1>11. QueueOK'
    <2>1. \A n \in 1 .. Len(queue') : Submittable(queue'[n])
      BY <1>4 DEF LoopProofInv, QueueOK
    <2>2. ASSUME NEW n \in 1 .. Len(queue')
          PROVE  /\ Begins(queue'[n]) => n < Len(queue') /\ Pair(queue'[n], queue'[n + 1])
                 /\ Completes(queue'[n]) => IF n = 1 THEN ticking' ELSE Pair(queue'[n - 1], queue'[n])
      <3>1. queue'[n] = queue[n + 1] /\ n + 1 \in 1 .. Len(queue)
        BY <1>4
      <3>2. ASSUME Begins(queue[n + 1])
            PROVE  n < Len(queue') /\ Pair(queue'[n], queue'[n + 1])
        <4>1. n + 1 < Len(queue) /\ Pair(queue[n + 1], queue[(n + 1) + 1])
          BY <1>8, <3>1, <3>2 DEF Paired
        <4>2. n < Len(queue') /\ n + 1 \in 1 .. Len(queue')
          BY <1>2, <4>1
        <4> QED BY <1>4, <3>1, <4>1, <4>2
      <3>3. ASSUME Completes(queue[n + 1]), n # 1
            PROVE  Pair(queue'[n - 1], queue'[n])
        <4>1. n + 1 # 1 /\ (n + 1) - 1 = n /\ n - 1 \in 1 .. Len(queue') /\ (n - 1) + 1 = n
          BY <1>2, <3>3
        <4>2. Pair(queue[n], queue[n + 1])
          BY <1>8, <3>1, <3>3, <4>1 DEF Paired
        <4>3. queue'[n - 1] = queue[n]
          BY <1>4, <4>1
        <4> QED BY <3>1, <4>2, <4>3
      <3>4. ticking'
        <4>1. Len(queue') # 0
          BY <1>2
        <4>2. queue' # <<>>
          BY <4>1, EmptySeq
        <4> QED BY <1>1, <4>2
      <3> QED BY <3>1, <3>2, <3>3, <3>4
    <2>3. Paired'
      BY <1>7, <2>2 DEF Paired, Begins, Pair, Thing
    <2> QED BY <1>2, <1>7, <2>1, <2>3 DEF QueueOK
  <1>12. LoopTypeOK'
    <2>1. Len(queue') <= MaxQueue
      BY <1>2, LoopAssumption DEF LoopProofInv, LoopTypeOK
    <2>2. \A n \in 1 .. Len(queue') : queue'[n] \in Effect
      BY <1>2, ElementOfSeq
    <2> QED BY <1>1, <2>1, <2>2 DEF LoopProofInv, LoopTypeOK
  <1>13. Stranded'
    BY <1>1, <1>4 DEF LoopProofInv, Stranded
  <1> QED BY <1>2, <1>3, <1>4, <1>5, <1>6, <1>7, <1>9, <1>10, <1>11, <1>12, <1>13

\* The tick applies one effect: a first one leaves its item as the second, now
\* at the head, expects it; a second one settles it.
LEMMA ApplyStep ==
  ASSUME LoopProofInv, ApplyNext
  PROVE  LoopProofInv'
  <1>1. PICK e, k : e = Head(queue) /\ k = Named(e)
    OBVIOUS
  <1>2. /\ up /\ up' = TRUE /\ ticking /\ Submittable(e) /\ DurableInv'
        /\ ticking' = (queue' # <<>>)
        /\ UNCHANGED <<session, contested, torn, rows, byKey, byId, placeMap, slots>>
        /\ unplaced' \subseteq unplaced
    BY <1>1, Applied
  <1>3. /\ QueueOK' /\ LoopTypeOK' /\ Stranded'
        /\ Begins(e) => ticking' /\ Completes(Head(queue')) /\ Pair(e, Head(queue'))
        /\ ~Begins(e) => \A i : ~Between(i)'
        /\ e = queue[1] /\ 1 \in 1 .. Len(queue)
        /\ \A n \in 1 .. Len(queue') : queue'[n] = queue[n + 1] /\ n + 1 \in 1 .. Len(queue)
        /\ \A x : Named(x)' = Named(x) /\ (Completes(x)' <=> Completes(x))
    BY <1>1, QueueShrinks
  <1>4. /\ \A j \in Keys \ {k} : dbPlace'[j] = dbPlace[j] /\ dbHolder'[j] = dbHolder[j]
        /\ e.kind = "ClearLocation" => dbPlace'[k] = NoSlug /\ dbHolder'[k] = dbHolder[k]
        /\ e.kind = "MoveTo" => dbPlace'[k] # NoSlug /\ dbHolder'[k] = dbHolder[k]
        /\ e.kind = "InventoryAdd" =>
             dbPlace'[k] = dbPlace[k] /\ dbHolder'[k] = byId[e.container]
        /\ e.kind = "InventoryRemove" =>
             /\ dbPlace'[k] = dbPlace[k]
             /\ dbHolder'[k] = IF dbHolder[k] = byId[e.container] THEN NoKey ELSE dbHolder[k]
    BY <1>1, AppliedRows
  <1>5. /\ e.kind \in {"ClearLocation", "MoveTo", "InventoryAdd", "InventoryRemove"}
        /\ k \in Keys /\ (e.kind # "MoveTo" => k \in Items)
        /\ Holding(e) => byId[e.container] \in Puppets
    BY <1>1, <1>2 DEF Submittable
  <1>6. NoKey \notin Keys /\ Items \subseteq Keys /\ Puppets \subseteq Keys /\ Puppets \cap Items = {}
    BY KeyedHandles DEF LoopProofInv, Items
  <1>7. Sure' = Sure /\ Sure \subseteq Items
    BY <1>2 DEF Sure
  <1>8. Completes(e) <=> e.kind = "InventoryAdd" \/ (e.kind = "MoveTo" /\ k \in Items)
    BY <1>1, <1>5 DEF Completes
  <1>9. \A i : Between(i) <=> Completes(e) /\ i = k
    BY <1>1, <1>2 DEF Between
  <1>10. Begins(e) <=> e.kind \in {"ClearLocation", "InventoryRemove"}
    BY DEF Begins
  <1>11. Begins(e) => \A i : Between(i)' <=> i = k
    BY <1>1, <1>2, <1>3 DEF Between, Pair, Named
  <1>12. Steady'
    <2>1. /\ \A j \in Puppets \cap rows : dbPlace'[j] # NoSlug
          /\ \A j \in Puppets : dbHolder'[j] = NoKey
      BY <1>4, <1>5, <1>6 DEF LoopProofInv, Steady
    <2>2. \A j \in Items : dbHolder'[j] \in Puppets \union {NoKey}
      BY <1>4, <1>5, <1>6 DEF LoopProofInv, Steady, Holding
    <2>3. \A t \in SlotIndex : \A h \in contents'[t] : byId[h] \in Items
      <3>1. \A t \in SlotIndex : \A h \in contents[t] : byId[h] \in Items
        BY DEF LoopProofInv, Steady, IsItem
      <3>2. e.kind = "InventoryAdd" => byId[e.item] \in Items
        BY <1>1, <1>5 DEF Named, Thing
      <3>3. \A t \in SlotIndex : contents'[t] \subseteq contents[t]
              \union (IF e.kind = "InventoryAdd" THEN {e.item} ELSE {})
        BY <1>1, <1>5, AppliedContents
      <3> QED BY <3>1, <3>2, <3>3
    <2>4. \A c, i \in Keys : <<c, i>> \in kept' => c \in Puppets
      BY <1>1, AppliedKept
    <2>5. \A t \in SlotIndex : location'[t] = NoPlace \/ placeMap[location'[t]] # NoSlug
      BY <1>1, AppliedPlaces
    <2> QED BY <1>2, <2>1, <2>2, <2>3, <2>4, <2>5 DEF LoopProofInv, Steady, Resident, IsItem
  <1>13. Bound'
    BY <1>2 DEF LoopProofInv, Bound
  <1>14. Kept'
    <2> SUFFICES ASSUME NEW i \in Items \ torn
                 PROVE  dbPlace'[i] # NoSlug \/ dbHolder'[i] # NoKey \/ Between(i)'
      BY <1>2 DEF Kept
    <2>1. CASE i # k
      BY <1>4, <1>6, <1>9, <2>1 DEF LoopProofInv, Kept
    <2>2. CASE i = k /\ Begins(e)
      BY <1>11, <2>2
    <2>3. CASE i = k /\ ~Begins(e)
      BY <1>4, <1>5, <1>6, <1>10, <2>3 DEF Holding
    <2> QED BY <2>1, <2>2, <2>3
  <1>15. ASSUME k \in Sure, Holding(e)
         PROVE  dbHolder[k] \in {NoKey, byId[e.container]}
    BY <1>1, <1>3, <1>15 DEF LoopProofInv, StillHis
  <1>16. Exact'
    <2> SUFFICES ASSUME NEW i \in Sure
                 PROVE  IF Between(i)'
                          THEN IF Head(queue').kind = "InventoryAdd"
                                 THEN dbPlace'[i] = NoSlug ELSE dbHolder'[i] = NoKey
                          ELSE dbHolder'[i] # NoKey <=> dbPlace'[i] = NoSlug
      BY <1>7 DEF Exact
    <2>1. CASE i # k
      <3>1. ~Between(i) /\ ~Between(i)'
        BY <1>3, <1>9, <1>11, <2>1
      <3>2. dbHolder[i] # NoKey <=> dbPlace[i] = NoSlug
        BY <3>1 DEF LoopProofInv, Exact
      <3> QED BY <1>4, <1>6, <1>7, <2>1, <3>1, <3>2
    <2>2. CASE i = k /\ e.kind = "ClearLocation"
      <3>1. Between(i)' /\ Head(queue').kind = "InventoryAdd"
        BY <1>3, <1>10, <1>11, <2>2 DEF Pair
      <3> QED BY <1>4, <2>2, <3>1
    <2>3. CASE i = k /\ e.kind = "InventoryRemove"
      <3>1. Between(i)' /\ Head(queue').kind = "MoveTo"
        BY <1>3, <1>10, <1>11, <2>3 DEF Pair
      <3>2. dbHolder'[i] = NoKey
        BY <1>4, <1>15, <2>3 DEF Holding
      <3> QED BY <3>1, <3>2
    <2>4. CASE i = k /\ e.kind = "InventoryAdd"
      <3>1. Between(i) /\ ~Between(i)'
        BY <1>3, <1>8, <1>9, <1>10, <2>4
      <3>2. dbPlace[i] = NoSlug
        BY <1>1, <2>4, <3>1 DEF LoopProofInv, Exact
      <3>3. byId[e.container] # NoKey
        BY <1>5, <1>6, <2>4 DEF Holding
      <3> QED BY <1>4, <2>4, <3>1, <3>2, <3>3
    <2>5. CASE i = k /\ e.kind = "MoveTo"
      <3>1. Between(i) /\ ~Between(i)'
        BY <1>3, <1>7, <1>8, <1>9, <1>10, <2>5
      <3>2. dbHolder[i] = NoKey
        BY <1>1, <2>5, <3>1 DEF LoopProofInv, Exact
      <3> QED BY <1>4, <2>5, <3>1, <3>2
    <2> QED BY <1>5, <2>1, <2>2, <2>3, <2>4, <2>5
  <1>17. Agreed'
    <2> SUFFICES ASSUME NEW i \in Sure, NEW c \in Puppets
                 PROVE  Holds(c, i)' <=> dbHolder'[i] = c
      BY <1>7 DEF Agreed
    <2>1. Holds(c, i) <=> dbHolder[i] = c
      BY <1>2 DEF LoopProofInv, Agreed
    <2>2. Holds(c, i)' <=>
            \/ dbHolder[i] = c
               /\ ~(e.kind = "InventoryRemove" /\ c = byId[e.container] /\ i = k)
            \/ e.kind = "InventoryAdd" /\ c = byId[e.container] /\ i = k
      BY <1>1, <1>7, <2>1, AppliedHoldings
    <2>3. CASE i # k
      BY <1>4, <1>6, <1>7, <2>2, <2>3
    <2>4. CASE i = k /\ e.kind \in {"ClearLocation", "MoveTo"}
      BY <1>4, <2>2, <2>4
    <2>5. CASE i = k /\ e.kind = "InventoryAdd"
      BY <1>4, <1>6, <1>15, <2>2, <2>5 DEF Holding
    <2>6. CASE i = k /\ e.kind = "InventoryRemove"
      BY <1>4, <1>6, <1>15, <2>2, <2>6 DEF Holding
    <2> QED BY <1>5, <2>3, <2>4, <2>5, <2>6
  <1>18. OneMind'
    <2>1. \A m, n \in 1 .. Len(queue') :
            Named(queue'[m]) = Named(queue'[n]) /\ Named(queue'[m]) \in Sure =>
              /\ Lifting(queue'[m]) <=> Lifting(queue'[n])
              /\ queue'[m].kind = "InventoryAdd" /\ queue'[n].kind = "InventoryAdd" =>
                   queue'[m].container = queue'[n].container
      BY <1>3 DEF LoopProofInv, OneMind
    <2> QED BY <1>3, <1>7, <2>1 DEF OneMind, Lifting
  <1>19. StillHis'
    <2>1. ASSUME NEW n \in 1 .. Len(queue'), Named(queue'[n]) \in Sure, Holding(queue'[n])
          PROVE  dbHolder'[Named(queue'[n])] \in {NoKey, byId[queue'[n].container]}
      <3>1. PICK f : f = queue[n + 1] /\ f = queue'[n] /\ n + 1 \in 1 .. Len(queue)
        BY <1>3
      <3>2. dbHolder[Named(f)] \in {NoKey, byId[f.container]} /\ Named(f) \in Keys
        BY <1>6, <1>7, <2>1, <3>1 DEF LoopProofInv, StillHis
      <3>3. CASE Named(f) # k
        BY <1>4, <3>1, <3>2, <3>3
      <3>4. CASE Named(f) = k /\ e.kind # "InventoryAdd"
        BY <1>4, <1>5, <3>1, <3>2, <3>4
      <3>5. CASE Named(f) = k /\ e.kind = "InventoryAdd"
        <4>1. Lifting(f) <=> Lifting(e)
          BY <1>1, <1>3, <2>1, <3>1, <3>5 DEF LoopProofInv, OneMind
        <4>2. f.kind = "InventoryAdd"
          BY <2>1, <3>1, <3>5, <4>1 DEF Lifting, Holding
        <4>3. f.container = e.container
          BY <1>1, <1>3, <2>1, <3>1, <3>5, <4>2 DEF LoopProofInv, OneMind
        <4> QED BY <1>4, <3>1, <3>5, <4>3
      <3> QED BY <3>3, <3>4, <3>5
    <2>2. ASSUME ~ticking' PROVE \A n \in 1 .. Len(queue') : FALSE
      <3>1. queue' = <<>>
        BY <1>2, <2>2
      <3>2. Len(queue') = 0
        BY <3>1
      <3> QED BY <3>2
    <2> QED BY <1>2, <1>3, <1>7, <2>1, <2>2 DEF StillHis, Holding
  <1> QED BY <1>2, <1>3, <1>12, <1>13, <1>14, <1>16, <1>17, <1>18, <1>19 DEF LoopProofInv

-----------------------------------------------------------------------------
\* Every command, tick, crash and boot keeps the invariant.
LEMMA LoopStep == LoopProofInv /\ [LoopNext]_allVars => LoopProofInv'
  <1> SUFFICES ASSUME LoopProofInv, [LoopNext]_allVars PROVE LoopProofInv'
    OBVIOUS
  <1>1. CASE UNCHANGED allVars
    <2>1. UNCHANGED <<vars, session, queue, ticking, hydrating, contested, torn>>
      BY <1>1 DEF allVars, loopVars
    <2>2. /\ DurableInv' /\ Steady'
          /\ UNCHANGED <<rows, dbPlace, dbHolder, byKey, byId, placeMap, up, unplaced>>
          /\ \A k \in Keys : Resident(k)' <=> Resident(k)
          /\ \A c, i \in Keys : Holds(c, i)' <=> Holds(c, i)
      BY <2>1, QuietWorld DEF LoopProofInv
    <2>3. LoopTypeOK' /\ Bound'
      BY <2>1, <2>2, KeyedHandles DEF LoopProofInv, LoopTypeOK, Bound, Settled
    <2>4. QueueOK' /\ Kept' /\ Exact' /\ Agreed' /\ OneMind' /\ StillHis' /\ Stranded'
      BY <2>1, <2>2, QuietLoop, KeyedHandles DEF LoopProofInv
    <2> QED BY <2>2, <2>3, <2>4 DEF LoopProofInv
  <1>2. ASSUME NEW s \in Sids,
               ConnectSession(s) \/ DropSession(s) \/ \E k \in Puppets : Enter(s, k)
        PROVE  LoopProofInv'
    BY <1>2, SessionsStep
  <1>3. ASSUME NEW s \in Sids, Get(s) \/ Drop(s) \/ \E to \in Places : Walk(s, to)
        PROVE  LoopProofInv'
    BY <1>3, GetStep, DropStep, WalkStep
  <1>8. ASSUME NEW s \in Sids, NewPuppet(s) PROVE LoopProofInv'
    BY <1>8, NewPuppetStep
  <1>9. CASE HydratePuppet
    BY <1>9, HydratePuppetStep
  <1>4. CASE StartTick
    BY <1>4, StartTickStep
  <1>5. CASE ApplyNext
    BY <1>5, ApplyStep
  <1>6. CASE Die
    BY <1>6, DieStep
  <1>7. ASSUME NEW m \in PlaceMaps, Boot(m) PROVE LoopProofInv'
    BY <1>7, BootStep
  <1> QED BY <1>1, <1>2, <1>3, <1>4, <1>5, <1>6, <1>7, <1>8, <1>9 DEF LoopNext

\* The inductive invariant of the World loop.
THEOREM LoopCorrect == LoopSpec => []LoopProofInv
  BY LoopStart, LoopStep, PTL DEF LoopSpec

\* Nothing outlives the process, and a session in the world resolves, whatever
\* the others do, whoever makes a puppet at play and however often the process
\* dies: all but the sessions that entered with a puppet whose hydrate failed
\* after it had mapped the key, which are nowhere, and stay so.
THEOREM LoopSound == LoopSpec => []LoopInv
  <1>1. LoopProofInv => LoopInv
    <2> SUFFICES ASSUME LoopProofInv, NEW s \in Sids, session[s] \notin Nobody
                 PROVE  /\ Resolves(session[s]) /\ byId[session[s]] \in Puppets
                        /\ ResolvedAt(s) = NoPlace <=> byId[session[s]] \in unplaced
      BY DEF LoopInv, InWorldResolves, LoopProofInv
    <2>1. session[s] \in EntityId /\ byId[session[s]] \in Puppets /\ up
      BY DEF LoopProofInv, Bound, LoopTypeOK, Nobody
    <2>2. /\ Resolves(session[s]) /\ byKey[byId[session[s]]] = session[s]
          /\ byId[session[s]] \in Keys /\ Resident(byId[session[s]])
          /\ byId[session[s]] \in rows
      BY <2>1, KeyedHandles DEF LoopProofInv
    <2>3. ResolvedAt(s) = location[session[s].slot]
      BY <2>2 DEF ResolvedAt, Caller, LocationOf
    <2>4. dbPlace[byId[session[s]]] # NoSlug
      BY <2>1, <2>2 DEF LoopProofInv, Steady
    <2> QED BY <2>1, <2>2, <2>3, <2>4, InMemory, WorldAssumption DEF LoopProofInv
  <1> QED BY <1>1, LoopCorrect, PTL

\* Between ticks an item is in a room or carried, in memory and in the database,
\* unless a crash caught it between its two effects, and never both, unless two
\* players reached for it at one time: however the commands of any number of
\* players interleave in the queue.
THEOREM LoopItemsSomewhere == LoopSpec => []ItemsSomewhere
  <1>1. LoopProofInv => ItemsSomewhere
    <2> SUFFICES ASSUME LoopProofInv, NEW i \in Items \ torn, ~ticking
                 PROVE  /\ dbPlace[i] # NoSlug \/ dbHolder[i] # NoKey
                        /\ up => InRoom(byKey[i]) \/ Carried(byKey[i])
                        /\ up /\ i \notin contested => ~(InRoom(byKey[i]) /\ Carried(byKey[i]))
      BY DEF ItemsSomewhere, Settled
    <2>1. dbPlace[i] # NoSlug \/ dbHolder[i] # NoKey
      BY DEF LoopProofInv, Kept, Between
    <2>2. i \in Keys /\ (up => Resident(i) /\ i \notin unplaced)
      BY KeyedHandles, InMemory DEF LoopProofInv
    <2>3. ASSUME up, dbPlace[i] # NoSlug PROVE InRoom(byKey[i])
      BY <2>2, <2>3, InMemory, WorldAssumption DEF LoopProofInv, InRoom
    <2>4. ASSUME up, dbHolder[i] # NoKey PROVE Carried(byKey[i])
      <3>1. Holds(dbHolder[i], i) /\ dbHolder[i] \in Puppets
        BY <2>4, InMemory DEF LoopProofInv, Steady
      <3>2. Contains(byKey[dbHolder[i]], byKey[i]) /\ byKey[dbHolder[i]] \in LiveHandles
        <4>1. dbHolder[i] \in Keys /\ Resident(dbHolder[i])
          BY <3>1, LoopAssumption DEF Holds
        <4>2. byKey[dbHolder[i]] \in LiveHandles
          BY <4>1, ResidentLive DEF LoopProofInv, DurableInv
        <4> QED BY <3>1, <4>2 DEF Holds
      <3> QED BY <3>2 DEF Carried
    <2>5. ASSUME up, i \notin contested, InRoom(byKey[i]), Carried(byKey[i]) PROVE FALSE
      <3>1. PICK c \in LiveHandles : Contains(c, byKey[i])
        BY <2>5 DEF Carried
      <3>2. byId[c] \in Keys /\ Holds(byId[c], i)
        <4>1. byId[c] \in Keys /\ Resident(byId[c]) /\ byKey[byId[c]] = c
          BY <3>1, LiveResident DEF LoopProofInv, DurableInv
        <4> QED BY <2>2, <2>5, <3>1, <4>1 DEF Holds
      <3>3. dbHolder[i] = byId[c] \/ <<byId[c], i>> \in kept
        BY <2>2, <2>5, <3>2 DEF LoopProofInv, DurableInv, HoldingsMatch
      <3>4. byId[c] \in Puppets
        BY <2>2, <3>2, <3>3, KeyedHandles DEF LoopProofInv, Steady
      <3>5. i \in Sure /\ ~Between(i)
        BY <2>5 DEF Sure, Between
      <3>6. dbHolder[i] = byId[c]
        BY <2>5, <3>2, <3>4, <3>5 DEF LoopProofInv, Agreed
      <3>7. dbPlace[i] = NoSlug
        BY <3>2, <3>5, <3>6, KeyedHandles DEF LoopProofInv, Exact
      <3>8. location[byKey[i].slot] = NoPlace
        BY <2>2, <2>5, <3>7, InMemory DEF LoopProofInv
      <3> QED BY <2>5, <3>8 DEF InRoom
    <2> QED BY <2>1, <2>3, <2>4, <2>5
  <1> QED BY <1>1, LoopCorrect, PTL

\* Between ticks memory and the database agree on who carries an item, and what
\* is carried lies in no room, but for the items two players reached for at one
\* time and those a crash tore.
THEOREM LoopCarriedIsDurable == LoopSpec => []CarriedIsDurable
  <1>1. LoopProofInv => CarriedIsDurable
    <2> SUFFICES ASSUME LoopProofInv, up, ~ticking, NEW i \in Sure
                 PROVE  /\ \A c \in Puppets : Holds(c, i) <=> dbHolder[i] = c
                        /\ dbHolder[i] # NoKey <=> dbPlace[i] = NoSlug
      BY DEF CarriedIsDurable, Settled, Sure
    <2>1. ~Between(i)
      BY DEF Between
    <2> QED BY <2>1 DEF LoopProofInv, Agreed, Exact
  <1> QED BY <1>1, LoopCorrect, PTL

=============================================================================
