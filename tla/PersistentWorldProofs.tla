------------------------ MODULE PersistentWorldProofs ------------------------
(***************************************************************************)
(* Proofs about the live world and its rows, for any number of tenants,    *)
(* keys, slots, generations, places and slugs: the arena alone, then the   *)
(* aggregate, then the write-through world.  The arena's inductive         *)
(* invariant adds to the free list's exactness that the Vec's end          *)
(* separates the vacant slots from the others, and that a minted handle is *)
(* never ahead of its slot's generation.  The side tables never see        *)
(* liveness, so the aggregate's ties them to the arena's: the occupants of *)
(* a place are the live handles whose slot points there, and a slot that   *)
(* is not live is clean in every table.  The write-through world's joins   *)
(* these with the exactness of the key maps, the agreement of memory with  *)
(* the rows but for the pairs that its histories name, and two facts more: *)
(* the item of a row is resident with its holder, and a stopped process    *)
(* has nothing in memory.                                                  *)
(* The hard step is the boot, where row number r of the table, in key      *)
(* order, must land in slot r and nowhere else.                            *)
(***************************************************************************)
EXTENDS PersistentWorld, FiniteSetTheorems, SequenceTheorems, TLAPS

\* The indices from len on, and only they, have never been pushed.
VecEnd == \A s \in SlotIndex : slots[s] = Vacant <=> s >= len

\* Where the generation of a slot stands against every handle minted in it.
NeverAhead ==
  \A h \in minted :
    /\ h.tenant = Tenant
    /\ h.slot < len
    /\ slots[h.slot].st = "live" => h.generation <= slots[h.slot].generation
    /\ slots[h.slot].st = "free" => h.generation < slots[h.slot].generation

\* Nothing lives that alloc did not return.
LiveWasMinted == \A h \in EntityId : Resolves(h) => h \in minted

ArenaInv == ArenaTypeOK /\ FreeListExact /\ VecEnd /\ NeverAhead /\ LiveWasMinted

-----------------------------------------------------------------------------
\* The members of SlotState are told apart by their st field.
LEMMA SlotStateCases ==
  ASSUME NEW x \in SlotState
  PROVE  /\ x.st \in {"live", "free", "burned", "vacant"}
         /\ x.st = "live" => x.generation \in Generation /\ x = Live(x.generation)
         /\ x.st = "free" => x.generation \in Generation /\ x = Free(x.generation)
         /\ x.st = "burned" <=> x = Burned
         /\ x.st = "vacant" <=> x = Vacant
  BY DEF SlotState, Live, Free, Burned, Vacant

LEMMA InitArena == ArenaInit => ArenaInv
  <1> SUFFICES ASSUME ArenaInit PROVE ArenaInv
    OBVIOUS
  <1> USE ArenaAssumption DEF ArenaInit
  <1>1. ArenaTypeOK
    BY DEF ArenaTypeOK, SlotIndex, SlotState
  <1>2. FreeListExact
    BY DEF FreeListExact, Vacant
  <1>3. VecEnd
    BY DEF VecEnd, SlotIndex
  <1>4. NeverAhead
    BY DEF NeverAhead
  <1>5. LiveWasMinted
    BY DEF LiveWasMinted, Resolves, EntityId, Live, Vacant
  <1> QED BY <1>1, <1>2, <1>3, <1>4, <1>5 DEF ArenaInv

\* Popping the free list re-activates its last slot at the waiting generation.
LEMMA ReuseArena ==
  ASSUME ArenaInv, NEW h \in EntityId, Reuse(h)
  PROVE  /\ ArenaInv'
         /\ h \notin minted
         /\ ~Resolves(h)
         /\ LiveHandles' = LiveHandles \union {h}
         /\ minted' = minted \union {h}
  <1> USE ArenaAssumption
  <1> DEFINE n == Len(free)
             s == free[n]
  <1>1. /\ n \in Nat \ {0}
        /\ s \in SlotIndex
        /\ slots[s].st = "free"
        /\ slots[s].generation \in Generation
        /\ slots[s] = Free(h.generation)
        /\ h = Own(s, h.generation)
        /\ h.slot = s /\ h.tenant = Tenant /\ h.generation \in Generation
    BY SlotStateCases DEF ArenaInv, ArenaTypeOK, FreeListExact, Reuse, Own, EntityId
  <1>2. /\ slots' = [slots EXCEPT ![s] = Live(h.generation)]
        /\ len' = len
        /\ minted' = minted \union {h}
        /\ free' = SubSeq(free, 1, n - 1)
    BY DEF Reuse
  <1>3. /\ free' \in Seq(SlotIndex)
        /\ Len(free') = n - 1
        /\ \A i \in 1 .. (n - 1) : free'[i] = free[i]
    <2>1. \A i \in 1 .. (n - 1) : free[i] \in SlotIndex
      BY <1>1 DEF ArenaInv, ArenaTypeOK
    <2>2. 1 \in Int /\ n - 1 \in Int /\ n - 1 - 1 + 1 = n - 1
      BY <1>1
    <2>3. /\ SubSeq(free, 1, n - 1) \in Seq(SlotIndex)
          /\ Len(SubSeq(free, 1, n - 1)) = IF 1 <= n - 1 THEN n - 1 - 1 + 1 ELSE 0
          /\ \A i \in 1 .. (n - 1 - 1 + 1) : SubSeq(free, 1, n - 1)[i] = free[1 + i - 1]
      BY <2>1, <2>2, SubSeqProperties
    <2> QED BY <1>1, <1>2, <2>2, <2>3
  <1>4. \A i \in 1 .. (n - 1) : free[i] # s
    BY <1>1 DEF ArenaInv, FreeListExact
  <1>5. h \notin minted /\ ~Resolves(h)
    BY <1>1 DEF ArenaInv, NeverAhead, EntityId, Generation, Resolves, Live, Free
  <1>6. ArenaTypeOK'
    BY <1>1, <1>2, <1>3 DEF ArenaInv, ArenaTypeOK, SlotState, Live
  <1>7. FreeListExact'
    <2>1. \A i \in 1 .. Len(free') : slots'[free'[i]].st = "free"
      BY <1>1, <1>2, <1>3, <1>4 DEF ArenaInv, ArenaTypeOK, FreeListExact
    <2>2. \A i, j \in 1 .. Len(free') : free'[i] = free'[j] => i = j
      BY <1>1, <1>3 DEF ArenaInv, FreeListExact
    <2>3. ASSUME NEW t \in SlotIndex, slots'[t].st = "free"
          PROVE  \E i \in 1 .. Len(free') : free'[i] = t
      <3>1. t # s /\ slots[t].st = "free"
        BY <2>3, <1>1, <1>2 DEF ArenaInv, ArenaTypeOK, Live
      <3>2. PICK i \in 1 .. n : free[i] = t
        BY <3>1 DEF ArenaInv, FreeListExact
      <3> QED BY <3>1, <3>2, <1>1, <1>3
    <2> QED BY <2>1, <2>2, <2>3 DEF FreeListExact
  <1>8. VecEnd'
    BY <1>1, <1>2 DEF ArenaInv, ArenaTypeOK, VecEnd, SlotIndex, Live, Free, Vacant
  <1>9. NeverAhead'
    <2> SUFFICES ASSUME NEW m \in minted'
                 PROVE  /\ m.tenant = Tenant
                        /\ m.slot < len'
                        /\ slots'[m.slot].st = "live" => m.generation <= slots'[m.slot].generation
                        /\ slots'[m.slot].st = "free" => m.generation < slots'[m.slot].generation
      BY DEF NeverAhead
    <2>1. s < len
      BY <1>1 DEF ArenaInv, ArenaTypeOK, VecEnd, SlotIndex, Free, Vacant
    <2>2. CASE m = h
      BY <2>1, <2>2, <1>1, <1>2 DEF ArenaInv, ArenaTypeOK, Live, Generation
    <2>3. CASE m \in minted /\ m.slot = s
      BY <2>3, <1>1, <1>2 DEF ArenaInv, ArenaTypeOK, NeverAhead, EntityId, Live, Free, Generation
    <2>4. CASE m \in minted /\ m.slot # s
      BY <2>4, <1>2 DEF ArenaInv, ArenaTypeOK, NeverAhead, EntityId
    <2> QED BY <2>2, <2>3, <2>4, <1>2
  <1>10. ASSUME NEW x \in EntityId
         PROVE  Resolves(x)' <=> Resolves(x) \/ x = h
    <2>1. CASE x.slot = s
      BY <2>1, <1>1, <1>2
         DEF ArenaInv, ArenaTypeOK, Resolves, Owned, EntityId, Live, Free, Own
    <2>2. CASE x.slot # s
      BY <2>2, <1>1, <1>2 DEF ArenaInv, ArenaTypeOK, Resolves, Owned, EntityId
    <2> QED BY <2>1, <2>2
  <1>11. LiveWasMinted'
    BY <1>2, <1>10 DEF ArenaInv, LiveWasMinted
  <1>12. LiveHandles' = LiveHandles \union {h}
    BY <1>10 DEF LiveHandles
  <1> QED BY <1>2, <1>5, <1>6, <1>7, <1>8, <1>9, <1>11, <1>12 DEF ArenaInv

\* Growing the Vec mints the first generation of an index never used.
LEMMA GrowArena ==
  ASSUME ArenaInv, NEW h \in EntityId, Grow(h)
  PROVE  /\ ArenaInv'
         /\ h \notin minted
         /\ ~Resolves(h)
         /\ LiveHandles' = LiveHandles \union {h}
         /\ minted' = minted \union {h}
  <1> USE ArenaAssumption
  <1>1. /\ len \in SlotIndex
        /\ slots[len] = Vacant
        /\ h.slot = len /\ h.tenant = Tenant /\ h.generation = 0
        /\ slots' = [slots EXCEPT ![len] = Live(0)]
        /\ len' = len + 1
        /\ minted' = minted \union {h}
        /\ free' = free /\ free = <<>>
    BY DEF ArenaInv, ArenaTypeOK, VecEnd, Grow, Own, SlotIndex, FIRST
  <1>2. h \notin minted /\ ~Resolves(h)
    BY <1>1 DEF ArenaInv, NeverAhead, Resolves, Live, Vacant, SlotIndex
  <1>3. ArenaTypeOK'
    BY <1>1 DEF ArenaInv, ArenaTypeOK, SlotState, Live, Generation, SlotIndex
  <1>4. FreeListExact'
    BY <1>1 DEF ArenaInv, ArenaTypeOK, FreeListExact, Live
  <1>5. VecEnd'
    BY <1>1 DEF ArenaInv, ArenaTypeOK, VecEnd, SlotIndex, Live, Vacant
  <1>6. NeverAhead'
    <2> SUFFICES ASSUME NEW m \in minted'
                 PROVE  /\ m.tenant = Tenant
                        /\ m.slot < len'
                        /\ slots'[m.slot].st = "live" => m.generation <= slots'[m.slot].generation
                        /\ slots'[m.slot].st = "free" => m.generation < slots'[m.slot].generation
      BY DEF NeverAhead
    <2>1. CASE m = h
      BY <2>1, <1>1 DEF ArenaInv, ArenaTypeOK, Live, SlotIndex
    <2>2. CASE m \in minted
      BY <2>2, <1>1 DEF ArenaInv, ArenaTypeOK, NeverAhead, EntityId, SlotIndex
    <2> QED BY <2>1, <2>2, <1>1
  <1>7. ASSUME NEW x \in EntityId
        PROVE  Resolves(x)' <=> Resolves(x) \/ x = h
    <2>1. CASE x.slot = len
      BY <2>1, <1>1 DEF ArenaInv, ArenaTypeOK, Resolves, Owned, EntityId, Live, Vacant
    <2>2. CASE x.slot # len
      BY <2>2, <1>1 DEF ArenaInv, ArenaTypeOK, Resolves, Owned, EntityId
    <2> QED BY <2>1, <2>2
  <1>8. LiveWasMinted'
    BY <1>1, <1>7 DEF ArenaInv, LiveWasMinted
  <1>9. LiveHandles' = LiveHandles \union {h}
    BY <1>7 DEF LiveHandles
  <1> QED BY <1>1, <1>2, <1>3, <1>4, <1>5, <1>6, <1>8, <1>9 DEF ArenaInv

\* Freeing retires exactly the handle freed, by recycling or burning its slot.
LEMMA FreeArena ==
  ASSUME ArenaInv, NEW h \in EntityId, FreeHandle(h)
  PROVE  /\ ArenaInv'
         /\ h \in LiveHandles
         /\ LiveHandles' = LiveHandles \ {h}
         /\ minted' = minted
  <1> USE ArenaAssumption
  <1> DEFINE s == h.slot
             g == h.generation
  <1>1. /\ s \in SlotIndex /\ g \in Generation
        /\ h.tenant = Tenant
        /\ slots[s] = Live(g)
        /\ h \in LiveHandles
        /\ len' = len /\ minted' = minted
    BY DEF FreeHandle, Resolves, Owned, EntityId, LiveHandles
  <1>2. s < len
    BY <1>1 DEF ArenaInv, ArenaTypeOK, VecEnd, SlotIndex, Live, Vacant
  <1>3. ASSUME NEW x \in EntityId, NEW v,
               slots' = [slots EXCEPT ![s] = v], v.st # "live"
        PROVE  Resolves(x)' <=> Resolves(x) /\ x # h
    <2>1. CASE x.slot = s
      BY <2>1, <1>1, <1>3 DEF ArenaInv, ArenaTypeOK, Resolves, Owned, EntityId, Live
    <2>2. CASE x.slot # s
      BY <2>2, <1>1, <1>3 DEF ArenaInv, ArenaTypeOK, Resolves, Owned, EntityId
    <2> QED BY <2>1, <2>2
  <1>4. CASE HasNext(g)
    <2>1. /\ slots' = [slots EXCEPT ![s] = Free(g + 1)]
          /\ free' = Append(free, s)
          /\ slots'[s] = Free(g + 1)
          /\ g + 1 \in Generation
      BY <1>1, <1>4 DEF FreeHandle, HasNext, Generation, ArenaInv, ArenaTypeOK
    <2>2. /\ free' \in Seq(SlotIndex)
          /\ Len(free') = Len(free) + 1
          /\ \A i \in 1 .. Len(free) : free'[i] = free[i]
          /\ free'[Len(free) + 1] = s
      BY <1>1, <2>1, AppendProperties DEF ArenaInv, ArenaTypeOK
    <2>3. \A i \in 1 .. Len(free) : free[i] # s
      BY <1>1 DEF ArenaInv, FreeListExact, Live
    <2>4. ArenaTypeOK'
      BY <1>1, <2>1, <2>2 DEF ArenaInv, ArenaTypeOK, SlotState, Free
    <2>5. FreeListExact'
      <3>1. \A i \in 1 .. Len(free') : slots'[free'[i]].st = "free"
        BY <1>1, <2>1, <2>2, <2>3 DEF ArenaInv, ArenaTypeOK, FreeListExact, Free
      <3>2. \A i, j \in 1 .. Len(free') : free'[i] = free'[j] => i = j
        BY <2>2, <2>3 DEF ArenaInv, ArenaTypeOK, FreeListExact
      <3>3. ASSUME NEW t \in SlotIndex, slots'[t].st = "free"
            PROVE  \E i \in 1 .. Len(free') : free'[i] = t
        <4>1. CASE t = s
          BY <4>1, <2>2 DEF ArenaInv, ArenaTypeOK
        <4>2. CASE t # s
          <5>1. PICK i \in 1 .. Len(free) : free[i] = t
            BY <4>2, <3>3, <2>1 DEF ArenaInv, ArenaTypeOK, FreeListExact
          <5> QED BY <5>1, <2>2 DEF ArenaInv, ArenaTypeOK
        <4> QED BY <4>1, <4>2
      <3> QED BY <3>1, <3>2, <3>3 DEF FreeListExact
    <2>6. VecEnd'
      BY <1>1, <2>1 DEF ArenaInv, ArenaTypeOK, VecEnd, Live, Free, Vacant
    <2>7. NeverAhead'
      BY <1>1, <2>1 DEF ArenaInv, ArenaTypeOK, NeverAhead, EntityId, Live, Free, Generation
    <2>8. \A x \in EntityId : Resolves(x)' <=> Resolves(x) /\ x # h
      <3>1. Free(g + 1).st # "live"
        BY DEF Free
      <3> QED BY <1>3, <2>1, <3>1
    <2>9. LiveWasMinted' /\ LiveHandles' = LiveHandles \ {h}
      BY <1>1, <2>8 DEF ArenaInv, LiveWasMinted, LiveHandles
    <2> QED BY <1>1, <2>4, <2>5, <2>6, <2>7, <2>9 DEF ArenaInv
  <1>5. CASE ~HasNext(g)
    <2>1. /\ slots' = [slots EXCEPT ![s] = Burned]
          /\ slots'[s] = Burned
          /\ free' = free
      BY <1>1, <1>5 DEF FreeHandle, ArenaInv, ArenaTypeOK
    <2>2. ArenaTypeOK'
      BY <1>1, <2>1 DEF ArenaInv, ArenaTypeOK, SlotState
    <2>3. FreeListExact'
      BY <1>1, <2>1 DEF ArenaInv, ArenaTypeOK, FreeListExact, Live, Burned
    <2>4. VecEnd'
      BY <1>1, <2>1 DEF ArenaInv, ArenaTypeOK, VecEnd, Live, Burned, Vacant
    <2>5. NeverAhead'
      BY <1>1, <2>1 DEF ArenaInv, ArenaTypeOK, NeverAhead, EntityId, Burned
    <2>6. \A x \in EntityId : Resolves(x)' <=> Resolves(x) /\ x # h
      <3>1. Burned.st # "live"
        BY DEF Burned
      <3> QED BY <1>3, <2>1, <3>1
    <2>7. LiveWasMinted' /\ LiveHandles' = LiveHandles \ {h}
      BY <1>1, <2>6 DEF ArenaInv, LiveWasMinted, LiveHandles
    <2> QED BY <1>1, <2>2, <2>3, <2>4, <2>5, <2>7 DEF ArenaInv
  <1> QED BY <1>4, <1>5

\* A step that leaves the arena's variables alone preserves its invariant.
LEMMA StutterArena ==
  ASSUME ArenaInv, UNCHANGED arenaVars
  PROVE  ArenaInv' /\ LiveHandles' = LiveHandles /\ minted' = minted
  BY DEF arenaVars, ArenaInv, ArenaTypeOK, FreeListExact, VecEnd, NeverAhead,
         LiveWasMinted, Resolves, LiveHandles

-----------------------------------------------------------------------------
LEMMA StepArena == ArenaInv /\ [ArenaNext]_arenaVars => ArenaInv'
  <1> SUFFICES ASSUME ArenaInv, [ArenaNext]_arenaVars PROVE ArenaInv'
    OBVIOUS
  <1>1. ASSUME NEW h \in EntityId, Alloc(h) PROVE ArenaInv'
    BY <1>1, ReuseArena, GrowArena DEF Alloc
  <1>2. ASSUME NEW h \in EntityId, FreeHandle(h) PROVE ArenaInv'
    BY <1>2, FreeArena
  <1>3. ASSUME UNCHANGED arenaVars PROVE ArenaInv'
    BY <1>3, StutterArena
  <1> QED BY <1>1, <1>2, <1>3 DEF ArenaNext, HandleRejected, AllocRejected

\* The inductive invariant of the arena.
THEOREM ArenaCorrect == ArenaSpec => []ArenaInv
  BY InitArena, StepArena, PTL DEF ArenaSpec

\* Type correctness of the arena.
THEOREM ArenaTypes == ArenaSpec => []ArenaTypeOK
  <1>1. ArenaInv => ArenaTypeOK
    BY DEF ArenaInv
  <1> QED BY <1>1, ArenaCorrect, PTL

\* The free list never holds a slot twice, nor one that is not free: alloc
\* cannot reach its unreachable! arms nor hand one slot to two owners.
THEOREM ArenaFreeList == ArenaSpec => []FreeListExact
  <1>1. ArenaInv => FreeListExact
    BY DEF ArenaInv
  <1> QED BY <1>1, ArenaCorrect, PTL

\* Use after teardown is impossible: a handle once dead stays dead, however
\* often its slot is recycled and at whatever width the generation has.
THEOREM ArenaStaleForever == ArenaSpec => StaleForever
  <1>1. ASSUME ArenaInv, [ArenaNext]_arenaVars
        PROVE  [\A h \in minted : ~Resolves(h) => ~Resolves(h)']_arenaVars
    <2>1. ASSUME NEW x \in EntityId, Alloc(x), NEW h \in minted, ~Resolves(h)
          PROVE  ~Resolves(h)'
      <3>1. x \notin minted /\ LiveHandles' = LiveHandles \union {x}
        BY <1>1, <2>1, ReuseArena, GrowArena DEF Alloc
      <3>2. h \in EntityId
        BY <1>1 DEF ArenaInv, ArenaTypeOK
      <3> QED BY <2>1, <3>1, <3>2 DEF LiveHandles
    <2>2. ASSUME NEW x \in EntityId, FreeHandle(x), NEW h \in minted, ~Resolves(h)
          PROVE  ~Resolves(h)'
      <3>1. LiveHandles' = LiveHandles \ {x}
        BY <1>1, <2>2, FreeArena
      <3>2. h \in EntityId
        BY <1>1 DEF ArenaInv, ArenaTypeOK
      <3> QED BY <2>2, <3>1, <3>2 DEF LiveHandles
    <2> QED BY <1>1, <2>1, <2>2 DEF ArenaNext, HandleRejected, AllocRejected
  <1> QED BY <1>1, ArenaCorrect, PTL DEF ArenaSpec, StaleForever

\* free retires the handle it was given and nothing else, so a stale or
\* foreign handle never ends the life of the entity now in its slot.
THEOREM ArenaFreeExact == ArenaSpec => FreeEndsOnlyItsHandle
  <1>1. ArenaInv => [\A h \in EntityId :
          FreeHandle(h) => h \in LiveHandles /\ LiveHandles' = LiveHandles \ {h}]_arenaVars
    BY FreeArena
  <1> QED BY <1>1, ArenaCorrect, PTL DEF FreeEndsOnlyItsHandle

\* The arena implements the allocator that never gives a handle out twice.
THEOREM ArenaImplementsAllocator == ArenaSpec => ImplementsAllocator
  <1>1. ArenaInit => Allocator!Init
    BY DEF ArenaInit, Allocator!Init, LiveHandles, Resolves, EntityId, Live, Vacant
  <1>2. ASSUME ArenaInv, [ArenaNext]_arenaVars
        PROVE  [Allocator!Next]_<<LiveHandles, minted \ LiveHandles>>
    <2>1. ASSUME NEW h \in EntityId, Alloc(h)
          PROVE  Allocator!Alloc(h)
      <3>1. /\ h \notin minted /\ ~Resolves(h)
            /\ LiveHandles' = LiveHandles \union {h}
            /\ minted' = minted \union {h}
        BY <1>2, <2>1, ReuseArena, GrowArena DEF Alloc
      <3> QED BY <3>1 DEF Allocator!Alloc, LiveHandles
    <2>2. ASSUME NEW h \in EntityId, FreeHandle(h)
          PROVE  Allocator!Release(h)
      <3>1. h \in LiveHandles /\ LiveHandles' = LiveHandles \ {h} /\ minted' = minted
        BY <1>2, <2>2, FreeArena
      <3>2. h \in minted
        BY <1>2, <3>1 DEF ArenaInv, LiveWasMinted, LiveHandles
      <3> QED BY <3>1, <3>2 DEF Allocator!Release
    <2>3. ASSUME UNCHANGED arenaVars
          PROVE  UNCHANGED <<LiveHandles, minted \ LiveHandles>>
      BY <1>2, <2>3, StutterArena
    <2> QED BY <1>2, <2>1, <2>2, <2>3 DEF ArenaNext, Allocator!Next, HandleRejected, AllocRejected
  <1> QED BY <1>1, <1>2, ArenaCorrect, PTL
          DEF ArenaSpec, ImplementsAllocator, Allocator!Spec
-----------------------------------------------------------------------------
\* The world aggregate.
TablesOK == OccupantsExact /\ DeadSlotsClean /\ OneEntryPerSlot

WorldInv == ArenaInv /\ WorldTypeOK /\ TablesOK

-----------------------------------------------------------------------------
\* A slot is live at one generation, so two live handles have two slots.
LEMMA OneHandlePerSlot ==
  ASSUME NEW h \in LiveHandles, NEW k \in LiveHandles, h.slot = k.slot
  PROVE  h = k
  BY DEF LiveHandles, Resolves, Owned, EntityId, Live

\* What an allocation does to the slots.
LEMMA AllocSlots ==
  ASSUME ArenaInv, NEW h \in EntityId, Alloc(h)
  PROVE  /\ h.slot \in SlotIndex
         /\ slots[h.slot].st # "live" /\ slots'[h.slot].st = "live"
         /\ \A t \in SlotIndex : t # h.slot => slots'[t] = slots[t]
  <1> USE ArenaAssumption
  <1>1. h.slot \in SlotIndex
    BY DEF EntityId
  <1>2. CASE Reuse(h)
    BY <1>1, <1>2 DEF Reuse, Own, Live, ArenaInv, ArenaTypeOK, FreeListExact
  <1>3. CASE Grow(h)
    BY <1>1, <1>3 DEF Grow, Own, Live, Vacant, ArenaInv, ArenaTypeOK, VecEnd, SlotIndex
  <1> QED BY <1>1, <1>2, <1>3 DEF Alloc

\* What freeing a handle does to the slots.
LEMMA FreeSlots ==
  ASSUME ArenaInv, NEW h \in EntityId, FreeHandle(h)
  PROVE  /\ h.slot \in SlotIndex
         /\ slots'[h.slot].st # "live"
         /\ \A t \in SlotIndex : t # h.slot => slots'[t] = slots[t]
  BY DEF FreeHandle, EntityId, Free, Burned, ArenaInv, ArenaTypeOK

-----------------------------------------------------------------------------
LEMMA InitWorld == WorldInit => WorldInv
  <1> SUFFICES ASSUME WorldInit PROVE WorldInv
    OBVIOUS
  <1>1. ArenaInv /\ ArenaTypeOK
    BY InitArena DEF WorldInit, ArenaInv
  <1>2. WorldTypeOK
    BY <1>1 DEF WorldInit, WorldTypeOK
  <1>3. OccupantsExact
    BY WorldAssumption DEF WorldInit, OccupantsExact, LiveHandles, EntityId
  <1>4. DeadSlotsClean
    BY DEF WorldInit, DeadSlotsClean
  <1>5. OneEntryPerSlot
    BY DEF WorldInit, OneEntryPerSlot
  <1> QED BY <1>1, <1>2, <1>3, <1>4, <1>5 DEF WorldInv, TablesOK

\* A fresh handle gets a clean slot: no table mentions it.
LEMMA CreateWorld ==
  ASSUME WorldInv, NEW h \in EntityId, Create(h)
  PROVE  WorldInv'
  <1>1. /\ ArenaInv'
        /\ LiveHandles' = LiveHandles \union {h}
        /\ minted' = minted \union {h}
    BY ReuseArena, GrowArena DEF Create, Alloc, WorldInv
  <1>2. /\ h.slot \in SlotIndex
        /\ slots[h.slot].st # "live" /\ slots'[h.slot].st = "live"
        /\ \A t \in SlotIndex : t # h.slot => slots'[t] = slots[t]
    BY AllocSlots DEF Create, WorldInv
  <1>3. UNCHANGED <<location, occupants, contents, keywords>>
    BY DEF Create, tableVars
  <1>4. WorldTypeOK'
    BY <1>1, <1>3 DEF WorldInv, WorldTypeOK, ArenaInv
  <1>5. OccupantsExact'
    <2>1. location[h.slot] = NoPlace
      BY <1>2 DEF WorldInv, TablesOK, DeadSlotsClean
    <2> QED BY <1>1, <1>3, <2>1, WorldAssumption DEF WorldInv, TablesOK, OccupantsExact
  <1>6. DeadSlotsClean'
    BY <1>2, <1>3 DEF WorldInv, TablesOK, DeadSlotsClean
  <1>7. OneEntryPerSlot'
    BY <1>3 DEF WorldInv, TablesOK, OneEntryPerSlot
  <1> QED BY <1>1, <1>4, <1>5, <1>6, <1>7 DEF WorldInv, TablesOK

\* Taking a live entity off the map leaves every other occupant in place.
LEMMA RemoveLocationExact ==
  ASSUME WorldInv, NEW e \in LiveHandles, RemoveLocation(e)
  PROVE  /\ location' \in [SlotIndex -> Places \union {NoPlace}]
         /\ occupants' \in [Places -> SUBSET EntityId]
         /\ location'[e.slot] = NoPlace
         /\ \A t \in SlotIndex : t # e.slot => location'[t] = location[t]
         /\ \A p \in Places :
              occupants'[p] = {h \in LiveHandles : h # e /\ location'[h.slot] = p}
  <1>1. e \in EntityId /\ e.slot \in SlotIndex
    BY DEF LiveHandles, EntityId
  <1>2. /\ location' = [location EXCEPT ![e.slot] = NoPlace]
        /\ location \in [SlotIndex -> Places \union {NoPlace}]
        /\ occupants \in [Places -> SUBSET EntityId]
    BY DEF RemoveLocation, WorldInv, WorldTypeOK
  <1>3. ASSUME NEW p \in Places
        PROVE  /\ occupants'[p] = {h \in LiveHandles : h # e /\ location'[h.slot] = p}
               /\ occupants'[p] \in SUBSET EntityId
    <2>1. \A h \in LiveHandles :
            h.slot \in SlotIndex /\ (h # e <=> h.slot # e.slot)
      BY OneHandlePerSlot DEF LiveHandles, EntityId
    <2>2. occupants[p] = {h \in LiveHandles : location[h.slot] = p}
      BY DEF WorldInv, TablesOK, OccupantsExact
    <2>3. occupants'[p] = IF p = location[e.slot] THEN Without(e.slot, p) ELSE occupants[p]
      BY DEF RemoveLocation
    <2>4. {h \in LiveHandles : h # e /\ location'[h.slot] = p}
            = {h \in LiveHandles : h.slot # e.slot /\ location[h.slot] = p}
      BY <1>1, <1>2, <2>1
    <2>5. CASE p = location[e.slot]
      BY <2>2, <2>3, <2>4, <2>5, <1>2 DEF Without
    <2>6. CASE p # location[e.slot]
      BY <2>1, <2>2, <2>3, <2>4, <2>6, <1>2
    <2> QED BY <2>5, <2>6
  <1>4. occupants' \in [Places -> SUBSET EntityId]
    <2>1. occupants' = [p \in Places |-> occupants'[p]]
      BY DEF RemoveLocation
    <2> QED BY <1>3, <2>1
  <1> QED BY <1>1, <1>2, <1>3, <1>4

\* Placing a live entity moves it, and only it, between the occupant sets.
LEMMA PlaceAtExact ==
  ASSUME WorldInv, NEW e \in LiveHandles, NEW at \in Places, PlaceAt(e, at)
  PROVE  /\ location' \in [SlotIndex -> Places \union {NoPlace}]
         /\ occupants' \in [Places -> SUBSET EntityId]
         /\ \A t \in SlotIndex : t # e.slot => location'[t] = location[t]
         /\ \A p \in Places :
              occupants'[p] = {h \in LiveHandles : location'[h.slot] = p}
  <1>1. e \in EntityId /\ e.slot \in SlotIndex
    BY DEF LiveHandles, EntityId
  <1>2. /\ location' = [location EXCEPT ![e.slot] = at]
        /\ location \in [SlotIndex -> Places \union {NoPlace}]
        /\ occupants \in [Places -> SUBSET EntityId]
    BY DEF PlaceAt, WorldInv, WorldTypeOK
  <1>3. ASSUME NEW p \in Places
        PROVE  /\ occupants'[p] = {h \in LiveHandles : location'[h.slot] = p}
               /\ occupants'[p] \in SUBSET EntityId
    <2> DEFINE left == IF p = location[e.slot] THEN Without(e.slot, p) ELSE occupants[p]
    <2>1. \A h \in LiveHandles :
            h.slot \in SlotIndex /\ h \in EntityId /\ (h # e <=> h.slot # e.slot)
      BY OneHandlePerSlot DEF LiveHandles, EntityId
    <2>2. occupants[p] = {h \in LiveHandles : location[h.slot] = p}
      BY DEF WorldInv, TablesOK, OccupantsExact
    <2>3. occupants'[p] = IF p = at THEN left \union {e} ELSE left
      BY DEF PlaceAt
    <2>4. left = {h \in LiveHandles : h # e /\ location[h.slot] = p}
      <3>1. CASE p = location[e.slot]
        BY <2>1, <2>2, <3>1 DEF Without
      <3>2. CASE p # location[e.slot]
        BY <2>1, <2>2, <3>2
      <3> QED BY <3>1, <3>2
    <2>5. \A h \in LiveHandles :
            location'[h.slot] = IF h = e THEN at ELSE location[h.slot]
      BY <1>1, <1>2, <2>1
    <2> HIDE DEF left
    <2>6. CASE p = at
      BY <2>1, <2>3, <2>4, <2>5, <2>6
    <2>7. CASE p # at
      BY <2>1, <2>3, <2>4, <2>5, <2>7
    <2> QED BY <2>6, <2>7
  <1>4. occupants' \in [Places -> SUBSET EntityId]
    <2>1. occupants' = [p \in Places |-> occupants'[p]]
      BY DEF PlaceAt
    <2> QED BY <1>3, <2>1
  <1> QED BY <1>1, <1>2, <1>3, <1>4

\* Tearing down frees the handle and leaves its slot clean.
LEMMA TeardownWorld ==
  ASSUME WorldInv, NEW e \in EntityId, Teardown(e)
  PROVE  WorldInv'
  <1>1. /\ ArenaInv'
        /\ e \in LiveHandles
        /\ LiveHandles' = LiveHandles \ {e}
        /\ minted' = minted
    BY FreeArena DEF Teardown, WorldInv
  <1>2. /\ e.slot \in SlotIndex
        /\ slots'[e.slot].st # "live"
        /\ \A t \in SlotIndex : t # e.slot => slots'[t] = slots[t]
    BY FreeSlots DEF Teardown, WorldInv
  <1>3. /\ location' \in [SlotIndex -> Places \union {NoPlace}]
        /\ occupants' \in [Places -> SUBSET EntityId]
        /\ location'[e.slot] = NoPlace
        /\ \A t \in SlotIndex : t # e.slot => location'[t] = location[t]
        /\ \A p \in Places :
             occupants'[p] = {h \in LiveHandles : h # e /\ location'[h.slot] = p}
    BY <1>1, RemoveLocationExact DEF Teardown
  <1>4. /\ contents' = [contents EXCEPT ![e.slot] = {}]
        /\ keywords' = [keywords EXCEPT ![e.slot] = {}]
        /\ contents \in [SlotIndex -> SUBSET minted]
        /\ keywords \in [SlotIndex -> SUBSET Keywords]
    BY DEF Teardown, WorldInv, WorldTypeOK
  <1>5. WorldTypeOK'
    BY <1>1, <1>2, <1>3, <1>4 DEF WorldTypeOK, ArenaInv
  <1>6. OccupantsExact'
    BY <1>1, <1>3 DEF OccupantsExact
  <1>7. DeadSlotsClean'
    BY <1>2, <1>3, <1>4 DEF WorldInv, TablesOK, DeadSlotsClean
  <1>8. OneEntryPerSlot'
    BY <1>2, <1>4 DEF WorldInv, TablesOK, OneEntryPerSlot
  <1> QED BY <1>1, <1>5, <1>6, <1>7, <1>8 DEF WorldInv, TablesOK

\* The effects that leave the arena alone keep the live handles.
LEMMA ArenaUnchanged ==
  ASSUME WorldInv, UNCHANGED arenaVars
  PROVE  ArenaInv' /\ LiveHandles' = LiveHandles /\ minted' = minted /\ slots' = slots
  BY StutterArena DEF WorldInv, arenaVars

LEMMA MoveToWorld ==
  ASSUME WorldInv, NEW e \in EntityId, NEW at \in Places, MoveTo(e, at)
  PROVE  WorldInv'
  <1>1. e \in LiveHandles /\ e.slot \in SlotIndex /\ slots[e.slot].st = "live"
    BY DEF MoveTo, LiveHandles, EntityId, Resolves, Live
  <1>2. ArenaInv' /\ LiveHandles' = LiveHandles /\ minted' = minted /\ slots' = slots
    BY ArenaUnchanged DEF MoveTo
  <1>3. /\ location' \in [SlotIndex -> Places \union {NoPlace}]
        /\ occupants' \in [Places -> SUBSET EntityId]
        /\ \A t \in SlotIndex : t # e.slot => location'[t] = location[t]
        /\ \A p \in Places : occupants'[p] = {h \in LiveHandles : location'[h.slot] = p}
    BY <1>1, PlaceAtExact DEF MoveTo
  <1>4. UNCHANGED <<contents, keywords>>
    BY DEF MoveTo
  <1>5. WorldTypeOK'
    BY <1>2, <1>3, <1>4 DEF WorldInv, WorldTypeOK, ArenaInv
  <1>6. OccupantsExact' /\ OneEntryPerSlot'
    BY <1>2, <1>3, <1>4 DEF WorldInv, TablesOK, OccupantsExact, OneEntryPerSlot
  <1>7. DeadSlotsClean'
    BY <1>1, <1>2, <1>3, <1>4 DEF WorldInv, TablesOK, DeadSlotsClean
  <1> QED BY <1>2, <1>5, <1>6, <1>7 DEF WorldInv, TablesOK

LEMMA ClearLocationWorld ==
  ASSUME WorldInv, NEW e \in EntityId, ClearLocation(e)
  PROVE  WorldInv'
  <1>1. e \in LiveHandles /\ e.slot \in SlotIndex /\ slots[e.slot].st = "live"
    BY DEF ClearLocation, LiveHandles, EntityId, Resolves, Live
  <1>2. ArenaInv' /\ LiveHandles' = LiveHandles /\ minted' = minted /\ slots' = slots
    BY ArenaUnchanged DEF ClearLocation
  <1>3. /\ location' \in [SlotIndex -> Places \union {NoPlace}]
        /\ occupants' \in [Places -> SUBSET EntityId]
        /\ location'[e.slot] = NoPlace
        /\ \A t \in SlotIndex : t # e.slot => location'[t] = location[t]
        /\ \A p \in Places :
             occupants'[p] = {h \in LiveHandles : h # e /\ location'[h.slot] = p}
    BY <1>1, RemoveLocationExact DEF ClearLocation
  <1>4. UNCHANGED <<contents, keywords>>
    BY DEF ClearLocation
  <1>5. WorldTypeOK'
    BY <1>2, <1>3, <1>4 DEF WorldInv, WorldTypeOK, ArenaInv
  <1>6. OccupantsExact' /\ OneEntryPerSlot'
    BY <1>2, <1>3, <1>4, WorldAssumption
       DEF WorldInv, TablesOK, OccupantsExact, OneEntryPerSlot
  <1>7. DeadSlotsClean'
    BY <1>1, <1>2, <1>3, <1>4 DEF WorldInv, TablesOK, DeadSlotsClean
  <1> QED BY <1>2, <1>5, <1>6, <1>7 DEF WorldInv, TablesOK

\* Changing what one live slot holds keeps every table's shape.
LEMMA ContentsWorld ==
  ASSUME WorldInv, NEW s \in SlotIndex, slots[s].st = "live",
         NEW held \in SUBSET minted,
         \A h, k \in held : h.slot = k.slot => h = k,
         contents' = [contents EXCEPT ![s] = held],
         UNCHANGED <<arenaVars, location, occupants, keywords>>
  PROVE  WorldInv'
  <1>1. ArenaInv' /\ LiveHandles' = LiveHandles /\ minted' = minted /\ slots' = slots
    BY ArenaUnchanged
  <1>2. contents \in [SlotIndex -> SUBSET minted]
    BY DEF WorldInv, WorldTypeOK
  <1>3. WorldTypeOK'
    BY <1>1, <1>2 DEF WorldInv, WorldTypeOK, ArenaInv
  <1>4. OccupantsExact'
    BY <1>1 DEF WorldInv, TablesOK, OccupantsExact
  <1>5. OneEntryPerSlot'
    BY <1>2 DEF WorldInv, TablesOK, OneEntryPerSlot
  <1>6. DeadSlotsClean'
    BY <1>1, <1>2 DEF WorldInv, TablesOK, DeadSlotsClean
  <1> QED BY <1>1, <1>3, <1>4, <1>5, <1>6 DEF WorldInv, TablesOK

LEMMA InventoryAddWorld ==
  ASSUME WorldInv, NEW c \in EntityId, NEW i \in EntityId, InventoryAdd(c, i)
  PROVE  WorldInv'
  <1>1. /\ c.slot \in SlotIndex /\ slots[c.slot].st = "live"
        /\ i \in minted
        /\ contents[c.slot] \in SUBSET minted
    BY DEF InventoryAdd, Resolves, EntityId, Live, WorldInv, WorldTypeOK, ArenaInv, LiveWasMinted
  <1> DEFINE held == IF HeldAt(i.slot, c) THEN contents[c.slot]
                                          ELSE contents[c.slot] \union {i}
  <1>2. held \in SUBSET minted
    BY <1>1
  <1>3. \A h, k \in held : h.slot = k.slot => h = k
    BY <1>1 DEF HeldAt, WorldInv, TablesOK, OneEntryPerSlot
  <1>4. contents' = [contents EXCEPT ![c.slot] = held]
    BY <1>1 DEF InventoryAdd, Insert, WorldInv, WorldTypeOK
  <1>5. UNCHANGED <<arenaVars, location, occupants, keywords>>
    BY DEF InventoryAdd
  <1> HIDE DEF held
  <1> QED BY <1>1, <1>2, <1>3, <1>4, <1>5, ContentsWorld

LEMMA InventoryRemoveWorld ==
  ASSUME WorldInv, NEW c \in EntityId, NEW i \in EntityId, InventoryRemove(c, i)
  PROVE  WorldInv'
  <1>1. /\ c.slot \in SlotIndex /\ slots[c.slot].st = "live"
        /\ contents[c.slot] \in SUBSET minted
    BY DEF InventoryRemove, Resolves, EntityId, Live, WorldInv, WorldTypeOK
  <1> DEFINE held == {h \in contents[c.slot] : h.slot # i.slot}
  <1>2. held \in SUBSET minted
    BY <1>1
  <1>3. \A h, k \in held : h.slot = k.slot => h = k
    BY <1>1 DEF WorldInv, TablesOK, OneEntryPerSlot
  <1>4. contents' = [contents EXCEPT ![c.slot] = held]
    BY <1>1 DEF InventoryRemove, Remove, WorldInv, WorldTypeOK
  <1>5. UNCHANGED <<arenaVars, location, occupants, keywords>>
    BY DEF InventoryRemove
  <1> HIDE DEF held
  <1> QED BY <1>1, <1>2, <1>3, <1>4, <1>5, ContentsWorld

LEMMA NameEntityWorld ==
  ASSUME WorldInv, NEW e \in EntityId, NEW words \in SUBSET Keywords, NameEntity(e, words)
  PROVE  WorldInv'
  <1>1. /\ e.slot \in SlotIndex /\ slots[e.slot].st = "live"
        /\ keywords' = [keywords EXCEPT ![e.slot] = words]
        /\ UNCHANGED <<arenaVars, location, occupants, contents>>
    BY DEF NameEntity, Resolves, EntityId, Live
  <1>2. ArenaInv' /\ LiveHandles' = LiveHandles /\ minted' = minted /\ slots' = slots
    BY <1>1, ArenaUnchanged
  <1>3. WorldTypeOK'
    BY <1>1, <1>2 DEF WorldInv, WorldTypeOK, ArenaInv
  <1>4. OccupantsExact' /\ OneEntryPerSlot'
    BY <1>1, <1>2 DEF WorldInv, TablesOK, OccupantsExact, OneEntryPerSlot
  <1>5. DeadSlotsClean'
    BY <1>1, <1>2 DEF WorldInv, WorldTypeOK, TablesOK, DeadSlotsClean
  <1> QED BY <1>2, <1>3, <1>4, <1>5 DEF WorldInv, TablesOK

LEMMA StutterWorld ==
  ASSUME WorldInv, UNCHANGED worldVars
  PROVE  WorldInv'
  <1>1. UNCHANGED <<arenaVars, location, occupants, contents, keywords>>
    BY DEF worldVars, tableVars
  <1>2. ArenaInv' /\ LiveHandles' = LiveHandles /\ minted' = minted /\ slots' = slots
    BY <1>1, ArenaUnchanged
  <1> QED BY <1>1, <1>2 DEF WorldInv, WorldTypeOK, ArenaInv, TablesOK,
                            OccupantsExact, DeadSlotsClean, OneEntryPerSlot

-----------------------------------------------------------------------------
\* apply_effect preserves the invariant, whichever effect it is given.
LEMMA ApplyEffectWorld ==
  ASSUME WorldInv, NEW eff \in Effect, ApplyEffect(eff)
  PROVE  WorldInv'
  <1>1. CASE eff.kind = "Create" /\ \E h \in EntityId : Create(h)
    BY <1>1, CreateWorld
  <1>2. CASE eff.kind = "Teardown" /\ Teardown(eff.entity)
    <2>1. eff.entity \in EntityId
      BY <1>2 DEF Effect
    <2> QED BY <1>2, <2>1, TeardownWorld
  <1>3. CASE eff.kind = "MoveTo" /\ MoveTo(eff.entity, eff.place)
    <2>1. eff.entity \in EntityId /\ eff.place \in Places
      BY <1>3 DEF Effect
    <2> QED BY <1>3, <2>1, MoveToWorld
  <1>4. CASE eff.kind = "ClearLocation" /\ ClearLocation(eff.entity)
    <2>1. eff.entity \in EntityId
      BY <1>4 DEF Effect
    <2> QED BY <1>4, <2>1, ClearLocationWorld
  <1>5. CASE eff.kind = "InventoryAdd" /\ InventoryAdd(eff.container, eff.item)
    <2>1. eff.container \in EntityId /\ eff.item \in EntityId
      BY <1>5 DEF Effect
    <2> QED BY <1>5, <2>1, InventoryAddWorld
  <1>6. CASE eff.kind = "InventoryRemove" /\ InventoryRemove(eff.container, eff.item)
    <2>1. eff.container \in EntityId /\ eff.item \in EntityId
      BY <1>6 DEF Effect
    <2> QED BY <1>6, <2>1, InventoryRemoveWorld
  <1>7. CASE UNCHANGED worldVars
    BY <1>7, StutterWorld
  <1> QED BY <1>1, <1>2, <1>3, <1>4, <1>5, <1>6, <1>7 DEF ApplyEffect

LEMMA StepWorld == WorldInv /\ [WorldNext]_worldVars => WorldInv'
  BY ApplyEffectWorld, NameEntityWorld, StutterWorld DEF WorldNext

\* The inductive invariant of the world aggregate.
THEOREM WorldCorrect == WorldSpec => []WorldInv
  BY InitWorld, StepWorld, PTL DEF WorldSpec

\* Type correctness of the world aggregate.
THEOREM WorldTypes == WorldSpec => []WorldTypeOK
  <1>1. WorldInv => WorldTypeOK
    BY DEF WorldInv
  <1> QED BY <1>1, WorldCorrect, PTL

\* occupants_of(p) lists exactly the live entities whose location is p, after
\* any sequence of creations, moves, clears and teardowns.
THEOREM WorldOccupants == WorldSpec => []OccupantsExact
  <1>1. WorldInv => OccupantsExact
    BY DEF WorldInv, TablesOK
  <1> QED BY <1>1, WorldCorrect, PTL

\* An entity created in a recycled slot starts without location, items and
\* keywords.
THEOREM WorldDeadSlots == WorldSpec => []DeadSlotsClean
  <1>1. WorldInv => DeadSlotsClean
    BY DEF WorldInv, TablesOK
  <1> QED BY <1>1, WorldCorrect, PTL

\* No container ever lists two handles of one slot.
THEOREM WorldEntries == WorldSpec => []OneEntryPerSlot
  <1>1. WorldInv => OneEntryPerSlot
    BY DEF WorldInv, TablesOK
  <1> QED BY <1>1, WorldCorrect, PTL

\* All of it together: the side tables fit the arena and each other, for every
\* number of tenants, slots, generations and places.
THEOREM WorldTablesExact == WorldSpec => []WorldExact
  <1>1. WorldInv => WorldExact
    BY DEF WorldInv, ArenaInv, TablesOK, WorldExact
  <1> QED BY <1>1, WorldCorrect, PTL

-----------------------------------------------------------------------------
\* The write-through world: its rows and the maps over them.
RowsOK ==
  /\ nextKey \in 1 .. MaxKey + 1
  /\ rows \subseteq {k \in Keys : k < nextKey}
  /\ dbPlace \in [Keys -> Slugs \union {NoSlug}]
  /\ dbHolder \in [Keys -> Keys \union {NoKey}]
  /\ \A k \in Keys \ rows : dbPlace[k] = NoSlug /\ dbHolder[k] = NoKey
  /\ \A k \in Keys : dbHolder[k] \in rows \union {NoKey}

MapsOK ==
  /\ byKey \in [Keys -> EntityId \union {NoId}]
  /\ byId \in [EntityId -> Keys \union {NoKey}]
  /\ placeMap \in [Places -> Slugs \union {NoSlug}]
  /\ up \in BOOLEAN
  /\ unplaced \subseteq {k \in Keys : Resident(k)}

\* Memory dies with the process.
DownEmpty == ~up => \A k \in Keys : ~Resident(k)

\* The item of a row is resident with its holder, whose list has the item's
\* slot, under whatever handle.
HoldingsHeld ==
  \A i \in Keys : up /\ dbHolder[i] # NoKey =>
    /\ Resident(i) /\ Resident(dbHolder[i])
    /\ HeldAt(byKey[i].slot, byKey[dbHolder[i]])

\* The masked pairs are rows, the kept ones are not, and a stopped process has
\* neither.
ApartOK ==
  /\ masked \subseteq Keys \X Keys /\ kept \subseteq Keys \X Keys
  /\ \A c, i \in Keys : <<c, i>> \in masked => dbHolder[i] = c
  /\ \A c, i \in Keys : <<c, i>> \in kept => dbHolder[i] # c
  /\ ~up => masked = {} /\ kept = {}

DurableInv ==
  /\ WorldInv /\ RowsOK /\ MapsOK /\ KeysMatchLive /\ DownEmpty
  /\ HoldingsHeld /\ ApartOK /\ HoldingsMatch
  /\ ResidentWhereDurable /\ HydratedHalf

-----------------------------------------------------------------------------
\* The rows are finitely many keys, and a row's rank is a slot below their
\* number.
LEMMA RankRange ==
  ASSUME RowsOK
  PROVE  /\ IsFiniteSet(rows) /\ Cardinality(rows) \in Nat
         /\ \A k \in Keys : Rank(k) \in Nat
         /\ \A k \in rows : Rank(k) < Cardinality(rows)
  <1> USE PersistAssumption DEF Keys
  <1>1. IsFiniteSet(Keys) /\ rows \in SUBSET Keys
    BY FS_Interval DEF RowsOK
  <1>2. IsFiniteSet(rows) /\ Cardinality(rows) \in Nat
    BY <1>1, FS_Subset, FS_CardinalityType
  <1>3. ASSUME NEW k \in Keys
        PROVE  IsFiniteSet({j \in rows : j < k}) /\ Rank(k) \in Nat
    <2>1. {j \in rows : j < k} \in SUBSET rows
      OBVIOUS
    <2> QED BY <1>2, <2>1, FS_Subset, FS_CardinalityType DEF Rank
  <1>4. ASSUME NEW k \in rows
        PROVE  Rank(k) < Cardinality(rows)
    <2>1. k \in Keys /\ k \in Nat
      BY <1>1
    <2>2. {j \in rows : j < k} \in SUBSET (rows \ {k})
      BY <2>1
    <2>3. IsFiniteSet(rows \ {k}) /\ Cardinality(rows \ {k}) = Cardinality(rows) - 1
      BY <1>2, FS_RemoveElement
    <2>4. Rank(k) <= Cardinality(rows \ {k})
      BY <2>2, <2>3, FS_Subset DEF Rank
    <2>5. Rank(k) \in Nat
      BY <1>3, <2>1
    <2> QED BY <1>2, <2>3, <2>4, <2>5
  <1> QED BY <1>2, <1>3, <1>4

\* A later row has a higher rank.
LEMMA RankRises ==
  ASSUME RowsOK, NEW j \in rows, NEW k \in Keys, j < k
  PROVE  Rank(j) < Rank(k)
  <1> USE PersistAssumption DEF Keys
  <1> DEFINE below(x) == {i \in rows : i < x}
  <1>1. IsFiniteSet(rows) /\ rows \in SUBSET Keys
    BY RankRange DEF RowsOK
  <1>2. j \in Keys /\ below(j) \in SUBSET (below(k) \ {j}) /\ j \in below(k)
    <2>1. j \in Nat /\ k \in Nat /\ rows \subseteq Nat
      BY <1>1
    <2>2. \A i \in rows : i < j => i < k /\ i # j
      BY <2>1
    <2>3. below(j) \in SUBSET (below(k) \ {j})
      BY <2>2
    <2> QED BY <1>1, <2>3
  <1>3. IsFiniteSet(below(k)) /\ IsFiniteSet(below(k) \ {j})
    BY <1>1, FS_Subset
  <1>4. Cardinality(below(k) \ {j}) = Cardinality(below(k)) - 1
    BY <1>2, <1>3, FS_RemoveElement
  <1>5. Cardinality(below(j)) <= Cardinality(below(k) \ {j})
    BY <1>2, <1>3, FS_Subset
  <1>6. Rank(j) \in Nat /\ Rank(k) \in Nat
    BY <1>2, RankRange
  <1> QED BY <1>4, <1>5, <1>6 DEF Rank

\* Ranks number the rows without gap or clash, so load fills the slots from 0
\* up, one row each.
LEMMA RankBijective ==
  ASSUME RowsOK
  PROVE  /\ \A j, k \in rows : Rank(j) = Rank(k) => j = k
         /\ \A s \in 0 .. (Cardinality(rows) - 1) : \E k \in rows : Rank(k) = s
  <1> USE PersistAssumption DEF Keys
  <1> DEFINE n == Cardinality(rows)
             f == [k \in rows |-> Rank(k)]
  <1>1. IsFiniteSet(rows) /\ n \in Nat /\ rows \in SUBSET Keys
    BY RankRange DEF RowsOK
  <1>2. ASSUME NEW j \in rows, NEW k \in rows, Rank(j) = Rank(k)
        PROVE  j = k
    <2>1. j \in Keys /\ k \in Keys /\ Rank(j) \in Nat
      BY <1>1, RankRange
    <2>2. ~(j < k) /\ ~(k < j)
      BY <1>2, <2>1, RankRises
    <2> QED BY <2>1, <2>2
  <1>3. f \in [rows -> 0 .. (n - 1)]
    BY <1>1, RankRange
  <1>4. f \in Injection(rows, 0 .. (n - 1))
    BY <1>2, <1>3 DEF Injection, IsInjective
  <1>5. IsFiniteSet(0 .. (n - 1)) /\ Cardinality(0 .. (n - 1)) = n
    BY <1>1, FS_Interval
  <1>6. f \in Surjection(rows, 0 .. (n - 1))
    BY <1>4, <1>5, FS_Injection
  <1>7. \A s \in 0 .. (n - 1) : \E k \in rows : f[k] = s
    BY <1>6 DEF Surjection
  <1> QED BY <1>2, <1>7

-----------------------------------------------------------------------------
\* Two resident keys have two live handles in two slots.
LEMMA ResidentLive ==
  ASSUME MapsOK, KeysMatchLive
  PROVE  /\ \A k \in Keys : Resident(k) =>
              /\ byKey[k] \in LiveHandles /\ byKey[k] \in EntityId
              /\ byKey[k].slot \in SlotIndex
         /\ \A j, k \in Keys :
              Resident(j) /\ Resident(k) /\ byKey[j].slot = byKey[k].slot => j = k
  <1>1. ASSUME NEW k \in Keys, Resident(k)
        PROVE  /\ byKey[k] \in LiveHandles /\ byKey[k] \in EntityId
               /\ byKey[k].slot \in SlotIndex
    <2>1. byKey[k] \in EntityId
      BY <1>1 DEF MapsOK, Resident
    <2>2. byId[byKey[k]] = k /\ k # NoKey
      BY <1>1, PersistAssumption DEF KeysMatchLive, Keys, NoKey
    <2>3. byKey[k] \in LiveHandles
      BY <2>1, <2>2 DEF KeysMatchLive
    <2> QED BY <2>1, <2>3 DEF EntityId
  <1>2. ASSUME NEW j \in Keys, NEW k \in Keys, Resident(j), Resident(k),
               byKey[j].slot = byKey[k].slot
        PROVE  j = k
    <2>1. byKey[j] = byKey[k]
      BY <1>1, <1>2, OneHandlePerSlot
    <2> QED BY <1>2, <2>1 DEF KeysMatchLive
  <1> QED BY <1>1, <1>2

\* key_of never misses: a handle that resolves has a resident key with a row.
LEMMA LiveResident ==
  ASSUME MapsOK, KeysMatchLive, NEW e \in LiveHandles
  PROVE  /\ e \in EntityId /\ e.slot \in SlotIndex
         /\ byId[e] \in Keys /\ byId[e] \in rows
         /\ Resident(byId[e]) /\ byKey[byId[e]] = e
  <1>1. e \in EntityId /\ e.slot \in SlotIndex
    BY DEF LiveHandles, EntityId
  <1>2. byId[e] \in Keys /\ byKey[byId[e]] = e
    BY <1>1 DEF MapsOK, KeysMatchLive
  <1>3. Resident(byId[e])
    BY <1>1, <1>2, PersistAssumption DEF Resident
  <1> QED BY <1>1, <1>2, <1>3 DEF KeysMatchLive

\* A resident entity resolves, so what it holds is what its slot's list has.
LEMMA HoldsByList ==
  MapsOK /\ KeysMatchLive =>
    \A c, i \in Keys :
      Holds(c, i) <=> Resident(c) /\ Resident(i) /\ byKey[i] \in contents[byKey[c].slot]
  BY ResidentLive DEF Holds, Contains, LiveHandles

\* Where nobody's holdings change, neither do the two divergences.
LEMMA SameHoldings ==
  ASSUME ApartOK, HoldingsMatch, UNCHANGED <<dbHolder, up, apart>>,
         up => \A c, i \in Keys : Holds(c, i)' <=> Holds(c, i)
  PROVE  ApartOK' /\ HoldingsMatch'
  <1>1. dbHolder' = dbHolder /\ up' = up /\ masked' = masked /\ kept' = kept
    BY DEF apart
  <1> QED BY <1>1 DEF ApartOK, HoldingsMatch

\* A handle just minted is in no list, and its slot's list is empty.
LEMMA FreshHoldsNothing ==
  ASSUME WorldInv, MapsOK, KeysMatchLive, MapsOK', KeysMatchLive',
         NEW k \in Keys, NEW h \in EntityId, Alloc(h), ~Resident(k), contents' = contents,
         byKey'[k] = h, \A j \in Keys : j # k => byKey'[j] = byKey[j]
  PROVE  \A c, i \in Keys : Holds(c, i)' <=> Holds(c, i)
  <1>1. h \notin minted
    BY ReuseArena, GrowArena DEF Alloc, WorldInv
  <1>2. h.slot \in SlotIndex /\ contents[h.slot] = {}
    BY AllocSlots DEF WorldInv, TablesOK, DeadSlotsClean
  <1>3. \A s \in SlotIndex : h \notin contents[s]
    BY <1>1 DEF WorldInv, WorldTypeOK
  <1>4. \A c, i \in Keys : Holds(c, i) <=>
          Resident(c) /\ Resident(i) /\ byKey[i] \in contents[byKey[c].slot]
    BY HoldsByList
  <1>5. \A c, i \in Keys : Holds(c, i)' <=>
          Resident(c)' /\ Resident(i)' /\ byKey'[i] \in contents[byKey'[c].slot]
    <2>1. (MapsOK /\ KeysMatchLive =>
             \A c, i \in Keys : Holds(c, i) <=>
               Resident(c) /\ Resident(i) /\ byKey[i] \in contents[byKey[c].slot])'
      BY HoldsByList, PTL
    <2> QED BY <2>1
  <1>6. \A j \in Keys : Resident(j)' <=> Resident(j) \/ j = k
    BY PersistAssumption DEF Resident
  <1>7. \A j \in Keys : Resident(j) => byKey[j].slot \in SlotIndex
    BY ResidentLive
  <1> SUFFICES ASSUME NEW c \in Keys, NEW i \in Keys
               PROVE  Holds(c, i)' <=> Holds(c, i)
    OBVIOUS
  <1>8. CASE c = k
    BY <1>2, <1>4, <1>5, <1>8
  <1>9. CASE c # k /\ i = k
    BY <1>3, <1>4, <1>5, <1>6, <1>7, <1>9
  <1>10. CASE c # k /\ i # k
    BY <1>4, <1>5, <1>6, <1>10
  <1> QED BY <1>8, <1>9, <1>10

\* A new handle under a key that had none keeps the maps exact.
LEMMA MintKeys ==
  ASSUME MapsOK, KeysMatchLive,
         NEW k \in Keys, NEW h \in EntityId, ~Resident(k), h \notin LiveHandles,
         MapKey(k, h), LiveHandles' = LiveHandles \union {h},
         k \in rows', rows \subseteq rows'
  PROVE  /\ KeysMatchLive'
         /\ byKey' \in [Keys -> EntityId \union {NoId}]
         /\ byId' \in [EntityId -> Keys \union {NoKey}]
         /\ byKey'[k] = h
         /\ \A j \in Keys : j # k => byKey'[j] = byKey[j]
         /\ \A j \in Keys : Resident(j)' <=> Resident(j) \/ j = k
  <1> USE PersistAssumption
  <1>1. /\ byKey' = [byKey EXCEPT ![k] = h] /\ byId' = [byId EXCEPT ![h] = k]
        /\ byKey \in [Keys -> EntityId \union {NoId}]
        /\ byId \in [EntityId -> Keys \union {NoKey}]
        /\ k # NoKey
    BY DEF MapKey, MapsOK, Keys, NoKey
  <1>2. /\ byKey'[k] = h /\ \A j \in Keys : j # k => byKey'[j] = byKey[j]
        /\ byId'[h] = k /\ \A x \in EntityId : x # h => byId'[x] = byId[x]
    BY <1>1
  <1>3. \A j \in Keys : Resident(j)' <=> Resident(j) \/ j = k
    BY <1>2 DEF Resident
  <1>4. \A x \in EntityId : byId'[x] # NoKey <=> x \in LiveHandles'
    BY <1>1, <1>2 DEF KeysMatchLive
  <1>5. ASSUME NEW x \in LiveHandles'
        PROVE  byKey'[byId'[x]] = x
    <2>1. CASE x = h
      BY <1>2, <2>1
    <2>2. CASE x # h
      <3>1. x \in LiveHandles
        BY <1>5, <2>2
      <3>2. byId[x] \in Keys /\ Resident(byId[x]) /\ byKey[byId[x]] = x /\ x \in EntityId
        BY <3>1, LiveResident
      <3> QED BY <1>2, <2>2, <3>2
    <2> QED BY <2>1, <2>2
  <1>6. ASSUME NEW j \in Keys, Resident(j)'
        PROVE  j \in rows' /\ byId'[byKey'[j]] = j
    <2>1. CASE j = k
      BY <1>2, <2>1
    <2>2. CASE j # k
      <3>1. Resident(j) /\ byKey'[j] = byKey[j]
        BY <1>2, <1>3, <1>6, <2>2
      <3>2. byKey[j] \in LiveHandles /\ byKey[j] \in EntityId
        BY <3>1, ResidentLive
      <3> QED BY <1>2, <3>1, <3>2 DEF KeysMatchLive
    <2> QED BY <2>1, <2>2
  <1>7. KeysMatchLive'
    BY <1>4, <1>5, <1>6 DEF KeysMatchLive
  <1> QED BY <1>1, <1>2, <1>3, <1>7

\* Forgetting a handle and its key, in both maps, keeps them exact.
LEMMA ForgetKeys ==
  ASSUME MapsOK, KeysMatchLive,
         NEW e \in LiveHandles, Forget(byId[e], e),
         LiveHandles' = LiveHandles \ {e}, rows' = rows \ {byId[e]}
  PROVE  /\ KeysMatchLive'
         /\ byKey' \in [Keys -> EntityId \union {NoId}]
         /\ byId' \in [EntityId -> Keys \union {NoKey}]
         /\ \A j \in Keys : Resident(j)' <=> Resident(j) /\ j # byId[e]
         /\ \A j \in Keys : j # byId[e] => byKey'[j] = byKey[j]
  <1> USE PersistAssumption
  <1> DEFINE k == byId[e]
  <1>1. e \in EntityId /\ k \in Keys /\ Resident(k) /\ byKey[k] = e
    BY LiveResident
  <1>2. /\ byKey' = [byKey EXCEPT ![k] = NoId] /\ byId' = [byId EXCEPT ![e] = NoKey]
        /\ byKey \in [Keys -> EntityId \union {NoId}]
        /\ byId \in [EntityId -> Keys \union {NoKey}]
    BY DEF Forget, MapsOK
  <1> HIDE DEF k
  <1>3. /\ byKey'[k] = NoId /\ \A j \in Keys : j # k => byKey'[j] = byKey[j]
        /\ byId'[e] = NoKey /\ \A x \in EntityId : x # e => byId'[x] = byId[x]
    BY <1>1, <1>2
  <1>4. \A j \in Keys : Resident(j)' <=> Resident(j) /\ j # k
    BY <1>3 DEF Resident
  <1>5. \A x \in EntityId : byId'[x] # NoKey <=> x \in LiveHandles'
    BY <1>3 DEF KeysMatchLive
  <1>6. ASSUME NEW x \in LiveHandles'
        PROVE  byKey'[byId'[x]] = x
    <2>1. x \in LiveHandles /\ x # e
      BY <1>6
    <2>2. byId[x] \in Keys /\ byKey[byId[x]] = x /\ x \in EntityId
      BY <2>1, LiveResident
    <2> QED BY <1>1, <1>3, <2>1, <2>2
  <1>7. ASSUME NEW j \in Keys, Resident(j)'
        PROVE  j \in rows' /\ byId'[byKey'[j]] = j
    <2>1. Resident(j) /\ j # k /\ byKey'[j] = byKey[j]
      BY <1>3, <1>4, <1>7
    <2>2. byKey[j] \in EntityId /\ byId[byKey[j]] = j /\ j \in rows
      BY <2>1, ResidentLive DEF KeysMatchLive
    <2>3. byKey[j] # e
      BY <2>1, <2>2 DEF k
    <2> QED BY <1>3, <2>1, <2>2, <2>3 DEF k
  <1>8. KeysMatchLive'
    BY <1>5, <1>6, <1>7 DEF KeysMatchLive
  <1>9. byKey' \in [Keys -> EntityId \union {NoId}] /\ byId' \in [EntityId -> Keys \union {NoKey}]
    BY <1>2
  <1> QED BY <1>3, <1>4, <1>8, <1>9 DEF k

\* What the AUTOINCREMENT insert does to the tables: the key is new.
LEMMA InsertRowRows ==
  ASSUME DurableInv, NEW at \in Slugs \union {NoSlug}, InsertRow(at)
  PROVE  /\ RowsOK'
         /\ nextKey \in Keys /\ nextKey \notin rows /\ ~Resident(nextKey)
         /\ rows' = rows \union {nextKey} /\ nextKey' = nextKey + 1
         /\ dbPlace' = [dbPlace EXCEPT ![nextKey] = at]
         /\ dbPlace'[nextKey] = at /\ \A j \in Keys : j # nextKey => dbPlace'[j] = dbPlace[j]
         /\ dbHolder' = dbHolder /\ dbHolder[nextKey] = NoKey
         /\ \A j \in Keys : dbHolder[j] # nextKey
  <1> USE PersistAssumption
  <1>1. /\ nextKey \in Keys /\ nextKey \notin rows
        /\ rows' = rows \union {nextKey} /\ nextKey' = nextKey + 1
        /\ dbPlace' = [dbPlace EXCEPT ![nextKey] = at] /\ dbHolder' = dbHolder
    BY DEF InsertRow, NewKey, Keys, DurableInv, RowsOK
  <1>2. /\ nextKey' \in 1 .. MaxKey + 1
        /\ rows' \subseteq {k \in Keys : k < nextKey'}
    BY <1>1 DEF InsertRow, NewKey, Keys, DurableInv, RowsOK
  <1>3. /\ dbPlace' \in [Keys -> Slugs \union {NoSlug}]
        /\ dbPlace'[nextKey] = at /\ \A j \in Keys : j # nextKey => dbPlace'[j] = dbPlace[j]
    BY <1>1 DEF DurableInv, RowsOK
  <1>4. /\ dbHolder' \in [Keys -> Keys \union {NoKey}]
        /\ \A k \in Keys : dbHolder'[k] \in rows' \union {NoKey}
        /\ dbHolder[nextKey] = NoKey
        /\ \A j \in Keys : dbHolder[j] # nextKey
    BY <1>1 DEF DurableInv, RowsOK, Keys, NoKey
  <1>5. \A k \in Keys \ rows' : dbPlace'[k] = NoSlug /\ dbHolder'[k] = NoKey
    BY <1>1, <1>3 DEF DurableInv, RowsOK
  <1>6. ~Resident(nextKey)
    BY <1>1 DEF DurableInv, KeysMatchLive
  <1> QED BY <1>1, <1>2, <1>3, <1>4, <1>5, <1>6 DEF RowsOK

-----------------------------------------------------------------------------
\* The effects, one lemma each.  Where memory and rows agree, a change at one
\* entity's slot and at its key leaves every other entity agreeing, because
\* two resident keys never share a slot.
LEMMA CreateDurable ==
  ASSUME DurableInv, up, PersistCreate, UNCHANGED <<placeMap, up, unplaced>>
  PROVE  DurableInv'
  <1> USE PersistAssumption
  <1>1. PICK h \in EntityId : Create(h) /\ InsertRow(NoSlug) /\ MapKey(nextKey, h)
    BY DEF PersistCreate, NewKey
  <1>2. WorldInv'
    BY <1>1, CreateWorld DEF DurableInv
  <1>3. h \notin LiveHandles /\ LiveHandles' = LiveHandles \union {h}
    BY <1>1, ReuseArena, GrowArena DEF Create, Alloc, DurableInv, WorldInv, LiveHandles
  <1>4. /\ RowsOK'
        /\ nextKey \in Keys /\ ~Resident(nextKey) /\ rows' = rows \union {nextKey}
        /\ dbPlace'[nextKey] = NoSlug
        /\ \A j \in Keys : j # nextKey => dbPlace'[j] = dbPlace[j]
        /\ dbHolder' = dbHolder /\ dbHolder[nextKey] = NoKey
        /\ \A j \in Keys : dbHolder[j] # nextKey
    BY <1>1, InsertRowRows
  <1>5. /\ KeysMatchLive'
        /\ byKey' \in [Keys -> EntityId \union {NoId}]
        /\ byId' \in [EntityId -> Keys \union {NoKey}]
        /\ byKey'[nextKey] = h
        /\ \A j \in Keys : j # nextKey => byKey'[j] = byKey[j]
        /\ \A j \in Keys : Resident(j)' <=> Resident(j) \/ j = nextKey
    BY <1>1, <1>3, <1>4, MintKeys DEF DurableInv
  <1>6. MapsOK'
    BY <1>5 DEF DurableInv, MapsOK
  <1>7. UNCHANGED <<location, contents>> /\ location[h.slot] = NoPlace
    BY <1>1, AllocSlots DEF Create, tableVars, DurableInv, WorldInv, TablesOK, DeadSlotsClean
  <1>8. HoldingsHeld'
    <2> SUFFICES ASSUME NEW i \in Keys, dbHolder'[i] # NoKey
                 PROVE  /\ Resident(i)' /\ Resident(dbHolder[i])'
                        /\ HeldAt(byKey[i].slot, byKey[dbHolder[i]])'
      BY DEF HoldingsHeld
    <2>1. /\ i # nextKey /\ dbHolder'[i] = dbHolder[i] /\ dbHolder[i] # nextKey
          /\ dbHolder[i] \in Keys
      BY <1>4 DEF DurableInv, RowsOK
    <2>2. /\ Resident(i) /\ Resident(dbHolder[i])
          /\ HeldAt(byKey[i].slot, byKey[dbHolder[i]])
      BY <2>1 DEF DurableInv, HoldingsHeld
    <2> QED BY <1>5, <1>7, <2>1, <2>2 DEF HeldAt
  <1>9. ResidentWhereDurable'
    <2> SUFFICES ASSUME NEW j \in Keys, Resident(j)', j \notin unplaced'
                 PROVE  SlugAt(placeMap', location'[byKey'[j].slot]) = dbPlace'[j]
      BY DEF ResidentWhereDurable, SlugAt
    <2>1. CASE j = nextKey
      BY <1>4, <1>5, <1>7, <2>1 DEF SlugAt
    <2>2. CASE j # nextKey
      BY <1>4, <1>5, <1>7, <2>2 DEF DurableInv, ResidentWhereDurable
    <2> QED BY <2>1, <2>2
  <1>10. DownEmpty'
    BY DEF DownEmpty
  <1>11. ApartOK' /\ HoldingsMatch'
    <2>1. \A c, i \in Keys : Holds(c, i)' <=> Holds(c, i)
      BY <1>1, <1>4, <1>5, <1>6, <1>7, FreshHoldsNothing DEF Create, DurableInv
    <2>2. UNCHANGED <<dbHolder, up, apart>>
      BY <1>4 DEF PersistCreate
    <2> QED BY <2>1, <2>2, SameHoldings DEF DurableInv
  <1>12. HydratedHalf'
    <2>1. \A j \in unplaced : j \in Keys /\ Resident(j) /\ j # nextKey
      BY <1>4 DEF DurableInv, MapsOK
    <2> QED BY <1>4, <1>5, <1>7, <2>1 DEF DurableInv, HydratedHalf
  <1> QED BY <1>2, <1>4, <1>5, <1>6, <1>8, <1>9, <1>10, <1>11, <1>12 DEF DurableInv

\* destroy: memory and rows lose the entity together.
LEMMA TeardownDurable ==
  ASSUME DurableInv, up, NEW e \in EntityId, PersistTeardown(e),
         unplaced' = unplaced \ {byId[e]}, UNCHANGED <<placeMap, up>>
  PROVE  DurableInv' /\ byId[e] \in rows
  <1> USE PersistAssumption
  <1> DEFINE k == byId[e]
  <1>1. WorldInv'
    BY TeardownWorld DEF PersistTeardown, DurableInv
  <1>2. e \in LiveHandles /\ LiveHandles' = LiveHandles \ {e}
    BY FreeArena DEF PersistTeardown, Teardown, DurableInv, WorldInv
  <1>3. k \in Keys /\ k \in rows /\ Resident(k) /\ byKey[k] = e
    BY <1>2, LiveResident DEF DurableInv
  <1>4. /\ rows' = rows \ {k} /\ nextKey' = nextKey
        /\ dbPlace' = [dbPlace EXCEPT ![k] = NoSlug]
        /\ dbHolder' = [i \in Keys |-> IF i = k \/ dbHolder[i] = k THEN NoKey ELSE dbHolder[i]]
    BY DEF PersistTeardown, Cascade
  <1>5. /\ KeysMatchLive'
        /\ byKey' \in [Keys -> EntityId \union {NoId}]
        /\ byId' \in [EntityId -> Keys \union {NoKey}]
        /\ \A j \in Keys : Resident(j)' <=> Resident(j) /\ j # k
        /\ \A j \in Keys : j # k => byKey'[j] = byKey[j]
    BY <1>2, <1>4, ForgetKeys DEF PersistTeardown, DurableInv
  <1> HIDE DEF k
  <1>6. RowsOK'
    BY <1>3, <1>4 DEF DurableInv, RowsOK, Keys, NoKey
  <1>7. MapsOK'
    BY <1>5 DEF DurableInv, MapsOK, k
  <1>8. \A t \in SlotIndex : t # e.slot => location'[t] = location[t] /\ contents'[t] = contents[t]
    BY <1>2, RemoveLocationExact
       DEF PersistTeardown, Teardown, DurableInv, WorldInv, WorldTypeOK
  <1>9. \A j \in Keys : Resident(j)' =>
          /\ Resident(j) /\ j # k /\ byKey'[j] = byKey[j]
          /\ byKey[j].slot \in SlotIndex /\ byKey[j].slot # e.slot
    BY <1>3, <1>5, ResidentLive DEF DurableInv
  <1>10. HoldingsHeld'
    <2> SUFFICES ASSUME NEW i \in Keys, dbHolder'[i] # NoKey
                 PROVE  /\ Resident(i)' /\ Resident(dbHolder[i])'
                        /\ HeldAt(byKey[i].slot, byKey[dbHolder[i]])'
      BY DEF HoldingsHeld
    <2>1. /\ i # k /\ dbHolder'[i] = dbHolder[i] /\ dbHolder[i] # k
          /\ dbHolder[i] \in Keys
      BY <1>4 DEF DurableInv, RowsOK
    <2>2. /\ Resident(i) /\ Resident(dbHolder[i])
          /\ HeldAt(byKey[i].slot, byKey[dbHolder[i]])
      BY <2>1 DEF DurableInv, HoldingsHeld
    <2>3. Resident(i)' /\ Resident(dbHolder[i])'
      BY <1>5, <2>1, <2>2
    <2> QED BY <1>8, <1>9, <2>1, <2>2, <2>3 DEF HeldAt
  <1>11. ResidentWhereDurable'
    <2> SUFFICES ASSUME NEW j \in Keys, Resident(j)', j \notin unplaced'
                 PROVE  SlugAt(placeMap', location'[byKey'[j].slot]) = dbPlace'[j]
      BY DEF ResidentWhereDurable, SlugAt
    <2>1. dbPlace'[j] = dbPlace[j] /\ j \notin unplaced
      BY <1>4, <1>9 DEF DurableInv, RowsOK, k
    <2> QED BY <1>8, <1>9, <2>1 DEF DurableInv, ResidentWhereDurable
  <1>12. DownEmpty'
    BY DEF DownEmpty
  <1>13. /\ masked' \subseteq masked /\ kept' \subseteq kept
         /\ \A c, i \in Keys :
              /\ <<c, i>> \in masked' <=> <<c, i>> \in masked /\ c # k /\ i # k
              /\ <<c, i>> \in kept' <=> <<c, i>> \in kept /\ c # k /\ i # k
    BY DEF PersistTeardown, k
  <1>14. (MapsOK /\ KeysMatchLive =>
            \A c, i \in Keys : Holds(c, i) <=>
              Resident(c) /\ Resident(i) /\ byKey[i] \in contents[byKey[c].slot])'
    BY HoldsByList, PTL
  <1>15. ASSUME NEW c \in Keys, NEW i \in Keys
         PROVE  Holds(c, i)' <=> Holds(c, i) /\ c # k /\ i # k
    <2>1. Holds(c, i) <=> Resident(c) /\ Resident(i) /\ byKey[i] \in contents[byKey[c].slot]
      BY HoldsByList DEF DurableInv
    <2>2. Holds(c, i)' <=>
            Resident(c)' /\ Resident(i)' /\ byKey'[i] \in contents'[byKey'[c].slot]
      BY <1>5, <1>7, <1>14
    <2> QED BY <1>5, <1>8, <1>9, <2>1, <2>2
  <1>16. ApartOK'
    BY <1>4, <1>13 DEF DurableInv, ApartOK, RowsOK, NoKey, Keys
  <1>17. HoldingsMatch'
    <2> SUFFICES ASSUME NEW c \in Keys, NEW i \in Keys
                 PROVE  Holds(c, i)' <=> \/ dbHolder'[i] = c /\ <<c, i>> \notin masked'
                                        \/ <<c, i>> \in kept'
      BY DEF HoldingsMatch
    <2>1. Holds(c, i) <=> \/ dbHolder[i] = c /\ <<c, i>> \notin masked
                          \/ <<c, i>> \in kept
      BY DEF DurableInv, HoldingsMatch
    <2>2. dbHolder'[i] = c <=> dbHolder[i] = c /\ c # k /\ i # k
      BY <1>4 DEF Keys, NoKey
    <2> QED BY <1>13, <1>15, <2>1, <2>2
  <1>18. HydratedHalf'
    <2> SUFFICES ASSUME NEW j \in unplaced'
                 PROVE  location'[byKey'[j].slot] = NoPlace /\ dbPlace'[j] # NoSlug
      BY DEF HydratedHalf
    <2>1. j \in unplaced /\ j \in Keys /\ j # k /\ Resident(j)'
      BY <1>5 DEF DurableInv, MapsOK, k
    <2>2. dbPlace'[j] = dbPlace[j]
      BY <1>4, <2>1 DEF DurableInv, RowsOK
    <2> QED BY <1>8, <1>9, <2>1, <2>2 DEF DurableInv, HydratedHalf
  <1> QED BY <1>1, <1>3, <1>5, <1>6, <1>7, <1>10, <1>11, <1>12, <1>16, <1>17, <1>18 DEF DurableInv, k

\* The effects that create and destroy nothing keep the maps as they are.
LEMMA SameKeys ==
  ASSUME DurableInv, UNCHANGED <<mapVars, rows, placeMap, up>>, LiveHandles' = LiveHandles,
         unplaced' \in SUBSET unplaced
  PROVE  /\ KeysMatchLive' /\ MapsOK' /\ DownEmpty'
         /\ byKey' = byKey /\ \A j \in Keys : Resident(j)' <=> Resident(j)
         /\ \A c, i \in Keys :
              Holds(c, i)' <=> Resident(c) /\ Resident(i) /\ byKey[i] \in contents'[byKey[c].slot]
  <1>1. byKey' = byKey /\ byId' = byId /\ rows' = rows
    BY DEF mapVars
  <1>2. \A j \in Keys : Resident(j)' <=> Resident(j)
    BY <1>1 DEF Resident
  <1>3. KeysMatchLive'
    BY <1>1, <1>2 DEF DurableInv, KeysMatchLive
  <1>4. MapsOK' /\ DownEmpty'
    BY <1>1, <1>2 DEF DurableInv, MapsOK, DownEmpty
  <1>5. (MapsOK /\ KeysMatchLive =>
           \A c, i \in Keys : Holds(c, i) <=>
             Resident(c) /\ Resident(i) /\ byKey[i] \in contents[byKey[c].slot])'
    BY HoldsByList, PTL
  <1> QED BY <1>1, <1>2, <1>3, <1>4, <1>5

\* Moving one live entity, in memory and in its row alike.
LEMMA RelocateDurable ==
  ASSUME DurableInv, up, NEW e \in LiveHandles, NEW at \in Slugs \union {NoSlug},
         WorldInv', LiveHandles' = LiveHandles, contents' = contents,
         \A t \in SlotIndex : t # e.slot => location'[t] = location[t],
         SlugAt(placeMap, location'[e.slot]) = at,
         dbPlace' = [dbPlace EXCEPT ![byId[e]] = at],
         unplaced' = unplaced \ {byId[e]},
         UNCHANGED <<rows, nextKey, dbHolder, mapVars, placeMap, up, apart>>
  PROVE  DurableInv'
  <1> DEFINE k == byId[e]
  <1>1. k \in Keys /\ k \in rows /\ Resident(k) /\ byKey[k] = e
    BY LiveResident DEF DurableInv
  <1>2. /\ KeysMatchLive' /\ MapsOK' /\ DownEmpty'
        /\ byKey' = byKey /\ \A j \in Keys : Resident(j)' <=> Resident(j)
        /\ \A c, i \in Keys :
             Holds(c, i)' <=> Resident(c) /\ Resident(i) /\ byKey[i] \in contents'[byKey[c].slot]
    BY SameKeys
  <1> HIDE DEF k
  <1>3. dbPlace'[k] = at /\ \A j \in Keys : j # k => dbPlace'[j] = dbPlace[j]
    BY <1>1 DEF DurableInv, RowsOK, k
  <1>4. RowsOK'
    BY <1>1, <1>3 DEF DurableInv, RowsOK, k
  <1>5. HoldingsHeld'
    BY <1>2 DEF DurableInv, HoldingsHeld, HeldAt, RowsOK, NoKey, Keys
  <1>6. ResidentWhereDurable'
    <2> SUFFICES ASSUME NEW j \in Keys, Resident(j)', j \notin unplaced'
                 PROVE  SlugAt(placeMap', location'[byKey'[j].slot]) = dbPlace'[j]
      BY DEF ResidentWhereDurable, SlugAt
    <2>1. Resident(j) /\ byKey'[j] = byKey[j] /\ byKey[j].slot \in SlotIndex
      BY <1>2, ResidentLive DEF DurableInv
    <2>2. CASE j = k
      BY <1>1, <1>3, <2>1, <2>2 DEF SlugAt
    <2>3. CASE j # k
      <3>1. byKey[j].slot # e.slot /\ j \notin unplaced
        BY <1>1, <2>1, <2>3, ResidentLive DEF DurableInv, k
      <3> QED BY <1>3, <2>1, <2>3, <3>1 DEF DurableInv, ResidentWhereDurable
    <2> QED BY <2>2, <2>3
  <1>7. ApartOK' /\ HoldingsMatch'
    <2>1. \A c, i \in Keys : Holds(c, i)' <=> Holds(c, i)
      BY <1>2, HoldsByList DEF DurableInv
    <2> QED BY <2>1, SameHoldings DEF DurableInv
  <1>8. HydratedHalf'
    <2> SUFFICES ASSUME NEW j \in unplaced'
                 PROVE  location'[byKey'[j].slot] = NoPlace /\ dbPlace'[j] # NoSlug
      BY DEF HydratedHalf
    <2>1. j \in unplaced /\ j \in Keys /\ j # k /\ Resident(j)
      BY DEF DurableInv, MapsOK, k
    <2>2. byKey[j].slot \in SlotIndex /\ byKey[j].slot # e.slot
      BY <1>1, <2>1, ResidentLive DEF DurableInv
    <2> QED BY <1>2, <1>3, <2>1, <2>2 DEF DurableInv, HydratedHalf
  <1> QED BY <1>2, <1>4, <1>5, <1>6, <1>7, <1>8 DEF DurableInv

\* MoveTo of a live entity to a mapped place, in memory and in its row.
LEMMA MoveDurable ==
  ASSUME DurableInv, up, NEW e \in EntityId, NEW at \in Places, PersistMove(e, at),
         unplaced' = unplaced \ {byId[e]}, UNCHANGED <<placeMap, up>>
  PROVE  DurableInv'
  <1>1. e \in LiveHandles
    BY DEF PersistMove, MoveTo, LiveHandles
  <1>2. WorldInv' /\ LiveHandles' = LiveHandles
    BY MoveToWorld, ArenaUnchanged DEF PersistMove, MoveTo, DurableInv
  <1>3. /\ \A t \in SlotIndex : t # e.slot => location'[t] = location[t]
        /\ location'[e.slot] = at /\ contents' = contents
    BY <1>1 DEF PersistMove, MoveTo, PlaceAt, DurableInv, WorldInv, WorldTypeOK,
                LiveHandles, EntityId
  <1>4. SlugAt(placeMap, location'[e.slot]) = placeMap[at]
    BY <1>3, WorldAssumption DEF SlugAt
  <1>5. placeMap[at] \in Slugs \union {NoSlug}
    BY DEF DurableInv, MapsOK
  <1>6. /\ dbPlace' = [dbPlace EXCEPT ![byId[e]] = placeMap[at]]
        /\ UNCHANGED <<rows, nextKey, dbHolder, mapVars, apart>>
    BY DEF PersistMove
  <1> QED BY <1>1, <1>2, <1>3, <1>4, <1>5, <1>6, RelocateDurable

\* ClearLocation of a live entity, in memory and in its row.
LEMMA ClearDurable ==
  ASSUME DurableInv, up, NEW e \in EntityId, PersistClearLocation(e),
         unplaced' = unplaced \ {byId[e]}, UNCHANGED <<placeMap, up>>
  PROVE  DurableInv'
  <1>1. e \in LiveHandles
    BY DEF PersistClearLocation, ClearLocation, LiveHandles
  <1>2. WorldInv' /\ LiveHandles' = LiveHandles
    BY ClearLocationWorld, ArenaUnchanged DEF PersistClearLocation, ClearLocation, DurableInv
  <1>3. /\ \A t \in SlotIndex : t # e.slot => location'[t] = location[t]
        /\ location'[e.slot] = NoPlace /\ contents' = contents
    BY <1>1, RemoveLocationExact DEF PersistClearLocation, ClearLocation, DurableInv
  <1>4. SlugAt(placeMap, location'[e.slot]) = NoSlug
    BY <1>3 DEF SlugAt
  <1>5. /\ dbPlace' = [dbPlace EXCEPT ![byId[e]] = NoSlug]
        /\ UNCHANGED <<rows, nextKey, dbHolder, mapVars, apart>>
    BY DEF PersistClearLocation
  <1> QED BY <1>1, <1>2, <1>3, <1>4, <1>5, RelocateDurable

\* A container that already lists the item's slot, under whatever handle,
\* satisfies the new row as it is.
LEMMA AddDurable ==
  ASSUME DurableInv, up, NEW c \in EntityId, NEW i \in EntityId, PersistInventoryAdd(c, i),
         UNCHANGED <<placeMap, up, unplaced>>
  PROVE  DurableInv'
  <1> DEFINE kc == byId[c]
             ki == byId[i]
  <1>1. c \in LiveHandles /\ i \in LiveHandles
    BY DEF PersistInventoryAdd, InventoryAdd, LiveHandles
  <1>2. /\ kc \in Keys /\ kc \in rows /\ Resident(kc) /\ byKey[kc] = c
        /\ ki \in Keys /\ ki \in rows /\ Resident(ki) /\ byKey[ki] = i
        /\ c.slot \in SlotIndex
    BY <1>1, LiveResident DEF DurableInv
  <1> HIDE DEF kc, ki
  <1>3. WorldInv' /\ LiveHandles' = LiveHandles /\ location' = location
    BY InventoryAddWorld, ArenaUnchanged DEF PersistInventoryAdd, InventoryAdd, DurableInv
  <1>4. /\ rows' = rows /\ nextKey' = nextKey /\ dbPlace' = dbPlace
        /\ dbHolder' = [dbHolder EXCEPT ![ki] = kc] /\ UNCHANGED mapVars
    BY DEF PersistInventoryAdd, UpsertHolder, kc, ki
  <1>5. /\ KeysMatchLive' /\ MapsOK' /\ DownEmpty'
        /\ byKey' = byKey /\ \A j \in Keys : Resident(j)' <=> Resident(j)
        /\ \A x, y \in Keys :
             Holds(x, y)' <=> Resident(x) /\ Resident(y) /\ byKey[y] \in contents'[byKey[x].slot]
    BY <1>3, <1>4, SameKeys
  <1>6. /\ dbHolder' \in [Keys -> Keys \union {NoKey}]
        /\ dbHolder'[ki] = kc /\ \A j \in Keys : j # ki => dbHolder'[j] = dbHolder[j]
    BY <1>2, <1>4 DEF DurableInv, RowsOK
  <1>7. RowsOK'
    BY <1>2, <1>4, <1>6 DEF DurableInv, RowsOK
  <1>8. /\ HeldAt(i.slot, c)'
        /\ \A s \in SlotIndex : contents[s] \subseteq contents'[s]
    BY <1>2 DEF PersistInventoryAdd, InventoryAdd, Insert, HeldAt, DurableInv, WorldInv, WorldTypeOK
  <1>9. HoldingsHeld'
    <2> SUFFICES ASSUME NEW j \in Keys, dbHolder'[j] # NoKey
                 PROVE  /\ Resident(j)' /\ Resident(dbHolder[j])'
                        /\ HeldAt(byKey[j].slot, byKey[dbHolder[j]])'
      BY DEF HoldingsHeld
    <2>1. CASE j = ki
      BY <1>2, <1>5, <1>6, <1>8, <2>1 DEF HeldAt
    <2>2. CASE j # ki
      <3>1. /\ Resident(j) /\ Resident(dbHolder[j]) /\ dbHolder[j] \in Keys
            /\ HeldAt(byKey[j].slot, byKey[dbHolder[j]])
            /\ dbHolder'[j] = dbHolder[j]
        BY <1>6, <2>2 DEF DurableInv, HoldingsHeld, RowsOK
      <3>2. byKey[dbHolder[j]].slot \in SlotIndex
        BY <3>1, ResidentLive DEF DurableInv
      <3> QED BY <1>5, <1>8, <3>1, <3>2 DEF HeldAt
    <2> QED BY <2>1, <2>2
  <1>10. ResidentWhereDurable' /\ HydratedHalf'
    BY <1>3, <1>4, <1>5 DEF DurableInv, ResidentWhereDurable, HydratedHalf, SlugAt
  <1>11. \A x, y \in Keys :
           /\ Holds(x, y) <=> Resident(x) /\ Resident(y) /\ byKey[y] \in contents[byKey[x].slot]
           /\ Holds(x, y) <=> \/ dbHolder[y] = x /\ <<x, y>> \notin masked
                              \/ <<x, y>> \in kept
           /\ Resident(x) => byKey[x].slot \in SlotIndex
           /\ Resident(x) /\ x # kc => byKey[x].slot # c.slot
           /\ Resident(y) /\ y # ki => byKey[y].slot # i.slot /\ byKey[y] # i
    BY <1>2, HoldsByList, ResidentLive DEF DurableInv, HoldingsMatch
  <1>12. \A s \in SlotIndex : contents'[s] =
           IF s = c.slot /\ ~HeldAt(i.slot, c) THEN contents[s] \union {i} ELSE contents[s]
    BY <1>2 DEF PersistInventoryAdd, InventoryAdd, Insert, DurableInv, WorldInv, WorldTypeOK
  <1> DEFINE here == <<kc, ki>>
             left == <<dbHolder[ki], ki>>
  <1>13. /\ masked' = (masked \ {left, here}) \union (IF Masks(c, i) THEN {here} ELSE {})
         /\ kept' = (kept \union ({left} \ (masked \union {<<NoKey, ki>>}))) \ {here}
    BY DEF PersistInventoryAdd, AddApart, kc, ki
  <1>14. \A x, y \in Keys :
           /\ <<x, y>> = here <=> x = kc /\ y = ki
           /\ <<x, y>> = left <=> x = dbHolder[ki] /\ y = ki
           /\ <<x, y>> # <<NoKey, ki>>
    BY DEF Keys, NoKey
  <1>15. \A x, y \in Keys :
           /\ <<x, y>> \in masked' <=>
                IF x = kc /\ y = ki THEN Masks(c, i)
                ELSE <<x, y>> \in masked /\ ~(x = dbHolder[ki] /\ y = ki)
           /\ <<x, y>> \in kept' <=>
                /\ ~(x = kc /\ y = ki)
                /\ \/ <<x, y>> \in kept
                   \/ x = dbHolder[ki] /\ y = ki /\ <<x, y>> \notin masked
    <2> HIDE DEF here, left
    <2> QED BY <1>13, <1>14
  <1>16. masked' \subseteq Keys \X Keys /\ kept' \subseteq Keys \X Keys
    <2>1. here \in Keys \X Keys
      BY <1>2
    <2>2. left \in Keys \X Keys \/ left = <<NoKey, ki>>
      BY <1>2 DEF DurableInv, RowsOK
    <2>3. masked \subseteq Keys \X Keys /\ kept \subseteq Keys \X Keys
      BY DEF DurableInv, ApartOK
    <2> HIDE DEF here, left
    <2> QED BY <1>13, <2>1, <2>2, <2>3
  <1> HIDE DEF here, left
  <1>17. ApartOK'
    <2>1. ASSUME NEW x \in Keys, NEW y \in Keys, <<x, y>> \in masked'
          PROVE  dbHolder'[y] = x
      BY <1>6, <1>15, <2>1 DEF DurableInv, ApartOK
    <2>2. ASSUME NEW x \in Keys, NEW y \in Keys, <<x, y>> \in kept'
          PROVE  dbHolder'[y] # x
      BY <1>6, <1>15, <2>2 DEF DurableInv, ApartOK
    <2> QED BY <1>16, <2>1, <2>2 DEF ApartOK
  <1>18. HoldingsMatch'
    <2> SUFFICES ASSUME NEW x \in Keys, NEW y \in Keys
                 PROVE  Holds(x, y)' <=> \/ dbHolder'[y] = x /\ <<x, y>> \notin masked'
                                        \/ <<x, y>> \in kept'
      BY DEF HoldingsMatch
    <2>1. CASE x = kc /\ y = ki
      BY <1>2, <1>5, <1>6, <1>12, <1>15, <2>1 DEF Masks
    <2>2. CASE x # kc /\ y = ki
      <3>1. Holds(x, y)' <=> Holds(x, y)
        BY <1>2, <1>5, <1>11, <1>12, <2>2
      <3> QED BY <1>6, <1>11, <1>15, <2>2, <3>1
    <2>3. CASE y # ki
      <3>1. Holds(x, y)' <=> Holds(x, y)
        BY <1>2, <1>5, <1>11, <1>12, <2>3
      <3> QED BY <1>6, <1>11, <1>15, <2>3, <3>1
    <2> QED BY <2>1, <2>2, <2>3
  <1> QED BY <1>3, <1>5, <1>7, <1>9, <1>10, <1>17, <1>18 DEF DurableInv

\* Taking an item out of the container its row names ends the row; taking it
\* out of another leaves it.
LEMMA RemoveDurable ==
  ASSUME DurableInv, up, NEW c \in EntityId, NEW i \in EntityId,
         PersistInventoryRemove(c, i), byId[i] # NoKey,
         UNCHANGED <<placeMap, up, unplaced>>
  PROVE  DurableInv'
  <1> DEFINE kc == byId[c]
             ki == byId[i]
  <1>1. c \in LiveHandles /\ i \in LiveHandles
    BY DEF PersistInventoryRemove, InventoryRemove, LiveHandles, DurableInv, KeysMatchLive
  <1>2. /\ kc \in Keys /\ kc \in rows /\ Resident(kc) /\ byKey[kc] = c
        /\ ki \in Keys /\ ki \in rows /\ Resident(ki) /\ byKey[ki] = i
        /\ c.slot \in SlotIndex
    BY <1>1, LiveResident DEF DurableInv
  <1> HIDE DEF kc, ki
  <1>3. WorldInv' /\ LiveHandles' = LiveHandles /\ location' = location
    BY InventoryRemoveWorld, ArenaUnchanged DEF PersistInventoryRemove, InventoryRemove, DurableInv
  <1>4. /\ rows' = rows /\ nextKey' = nextKey /\ dbPlace' = dbPlace
        /\ dbHolder' = [dbHolder EXCEPT ![ki] = IF @ = kc THEN NoKey ELSE @]
        /\ UNCHANGED mapVars
    BY DEF PersistInventoryRemove, kc, ki
  <1>5. /\ KeysMatchLive' /\ MapsOK' /\ DownEmpty'
        /\ byKey' = byKey /\ \A j \in Keys : Resident(j)' <=> Resident(j)
        /\ \A x, y \in Keys :
             Holds(x, y)' <=> Resident(x) /\ Resident(y) /\ byKey[y] \in contents'[byKey[x].slot]
    BY <1>3, <1>4, SameKeys
  <1>6. /\ dbHolder' \in [Keys -> Keys \union {NoKey}]
        /\ dbHolder'[ki] # kc \/ dbHolder'[ki] = NoKey
        /\ \A j \in Keys : dbHolder'[j] = dbHolder[j] \/ dbHolder'[j] = NoKey
    BY <1>2, <1>4 DEF DurableInv, RowsOK
  <1>7. RowsOK'
    BY <1>2, <1>4, <1>6 DEF DurableInv, RowsOK
  <1>8. \A s \in SlotIndex :
          contents'[s] = IF s = c.slot THEN {h \in contents[s] : h.slot # i.slot} ELSE contents[s]
    BY <1>2 DEF PersistInventoryRemove, InventoryRemove, Remove, DurableInv, WorldInv, WorldTypeOK
  <1>9. HoldingsHeld'
    <2> SUFFICES ASSUME NEW j \in Keys, dbHolder'[j] # NoKey
                 PROVE  /\ Resident(j)' /\ Resident(dbHolder[j])'
                        /\ HeldAt(byKey[j].slot, byKey[dbHolder[j]])'
      BY DEF HoldingsHeld
    <2>1. /\ Resident(j) /\ Resident(dbHolder[j]) /\ dbHolder[j] \in Keys
          /\ HeldAt(byKey[j].slot, byKey[dbHolder[j]])
          /\ dbHolder'[j] = dbHolder[j]
      BY <1>6 DEF DurableInv, HoldingsHeld, RowsOK
    <2>2. byKey[dbHolder[j]].slot \in SlotIndex
      BY <2>1, ResidentLive DEF DurableInv
    <2>3. byKey[dbHolder[j]].slot = c.slot => byKey[j].slot # i.slot
      <3> SUFFICES ASSUME byKey[dbHolder[j]].slot = c.slot, byKey[j].slot = i.slot
                   PROVE  FALSE
        OBVIOUS
      <3>1. dbHolder[j] = kc /\ j = ki
        BY <1>2, <2>1, ResidentLive DEF DurableInv
      <3> QED BY <1>2, <1>6, <2>1, <3>1 DEF Keys, NoKey
    <2>4. HeldAt(byKey[j].slot, byKey[dbHolder[j]])'
      BY <1>5, <1>8, <2>1, <2>2, <2>3 DEF HeldAt
    <2> QED BY <1>5, <2>1, <2>4
  <1>10. ResidentWhereDurable' /\ HydratedHalf'
    BY <1>3, <1>4, <1>5 DEF DurableInv, ResidentWhereDurable, HydratedHalf, SlugAt
  <1>11. \A x, y \in Keys :
           /\ Holds(x, y) <=> Resident(x) /\ Resident(y) /\ byKey[y] \in contents[byKey[x].slot]
           /\ Holds(x, y) <=> \/ dbHolder[y] = x /\ <<x, y>> \notin masked
                              \/ <<x, y>> \in kept
           /\ Resident(x) => byKey[x].slot \in SlotIndex
           /\ Resident(x) /\ x # kc => byKey[x].slot # c.slot
           /\ Resident(y) /\ y # ki => byKey[y].slot # i.slot /\ byKey[y] # i
    BY <1>2, HoldsByList, ResidentLive DEF DurableInv, HoldingsMatch
  <1>12. dbHolder'[ki] = IF dbHolder[ki] = kc THEN NoKey ELSE dbHolder[ki]
    BY <1>2, <1>4 DEF DurableInv, RowsOK
  <1>13. /\ \A j \in Keys : j # ki => dbHolder'[j] = dbHolder[j]
         /\ masked' = masked \ {<<kc, ki>>} /\ kept' = kept \ {<<kc, ki>>}
    BY <1>2, <1>4 DEF PersistInventoryRemove, RemoveApart, DurableInv, RowsOK, kc, ki
  <1>14. \A x, y \in Keys : <<x, y>> = <<kc, ki>> <=> x = kc /\ y = ki
    OBVIOUS
  <1>15. \A x, y \in Keys : dbHolder'[y] = x <=> dbHolder[y] = x /\ ~(x = kc /\ y = ki)
    BY <1>12, <1>13 DEF Keys, NoKey
  <1>16. ApartOK'
    BY <1>13, <1>14, <1>15 DEF DurableInv, ApartOK
  <1>17. HoldingsMatch'
    <2> SUFFICES ASSUME NEW x \in Keys, NEW y \in Keys
                 PROVE  Holds(x, y)' <=> \/ dbHolder'[y] = x /\ <<x, y>> \notin masked'
                                        \/ <<x, y>> \in kept'
      BY DEF HoldingsMatch
    <2>1. CASE x = kc /\ y = ki
      BY <1>2, <1>5, <1>8, <1>13, <1>15, <2>1
    <2>2. CASE ~(x = kc /\ y = ki)
      <3>1. Holds(x, y)' <=> Holds(x, y)
        BY <1>2, <1>5, <1>8, <1>11, <2>2
      <3> QED BY <1>11, <1>13, <1>14, <1>15, <2>2, <3>1
    <2> QED BY <2>1, <2>2
  <1> QED BY <1>3, <1>5, <1>7, <1>9, <1>10, <1>16, <1>17 DEF DurableInv

\* apply: whatever effect passes the guard, with its durable half.
LEMMA PersistDurable ==
  ASSUME DurableInv, up, NEW eff \in Effect, Mapped(eff), Persist(eff)
  PROVE  DurableInv'
  <1>1. /\ UNCHANGED <<placeMap, up>>
        /\ unplaced' = unplaced \ (IF eff.kind \in {"Teardown", "MoveTo", "ClearLocation"}
                                     THEN {byId[eff.entity]} ELSE {})
    BY DEF Persist
  <1>2. CASE eff.kind = "Create" /\ PersistCreate
    BY <1>1, <1>2, CreateDurable
  <1>3. CASE eff.kind = "Teardown" /\ PersistTeardown(eff.entity)
    <2>1. eff.entity \in EntityId
      BY <1>3 DEF Effect
    <2> QED BY <1>1, <1>3, <2>1, TeardownDurable
  <1>4. CASE eff.kind = "MoveTo" /\ PersistMove(eff.entity, eff.place)
    <2>1. eff.entity \in EntityId /\ eff.place \in Places
      BY <1>4 DEF Effect
    <2> QED BY <1>1, <1>4, <2>1, MoveDurable
  <1>5. CASE eff.kind = "ClearLocation" /\ PersistClearLocation(eff.entity)
    <2>1. eff.entity \in EntityId
      BY <1>5 DEF Effect
    <2> QED BY <1>1, <1>5, <2>1, ClearDurable
  <1>6. CASE eff.kind = "InventoryAdd" /\ PersistInventoryAdd(eff.container, eff.item)
    <2>1. eff.container \in EntityId /\ eff.item \in EntityId
      BY <1>6 DEF Effect
    <2> QED BY <1>1, <1>6, <2>1, AddDurable
  <1>7. CASE eff.kind = "InventoryRemove" /\ PersistInventoryRemove(eff.container, eff.item)
    <2>1. eff.container \in EntityId /\ eff.item \in EntityId
      BY <1>7 DEF Effect
    <2>2. byId[eff.item] # NoKey
      BY <1>7 DEF Mapped
    <2> QED BY <1>1, <1>7, <2>1, <2>2, RemoveDurable
  <1> QED BY <1>2, <1>3, <1>4, <1>5, <1>6, <1>7 DEF Persist

-----------------------------------------------------------------------------
\* The world takes a fresh handle and places it in the same step.
LEMMA PlaceFreshWorld ==
  ASSUME WorldInv, NEW h \in EntityId, Alloc(h), NEW at \in Places, PlaceAt(h, at),
         UNCHANGED <<contents, keywords>>
  PROVE  /\ WorldInv'
         /\ location'[h.slot] = at
         /\ \A t \in SlotIndex : t # h.slot => location'[t] = location[t]
  <1>1. /\ ArenaInv' /\ h \notin LiveHandles
        /\ LiveHandles' = LiveHandles \union {h}
        /\ minted' = minted \union {h}
    BY ReuseArena, GrowArena DEF Alloc, WorldInv, LiveHandles
  <1>2. /\ h.slot \in SlotIndex
        /\ slots[h.slot].st # "live" /\ slots'[h.slot].st = "live"
        /\ \A t \in SlotIndex : t # h.slot => slots'[t] = slots[t]
    BY AllocSlots DEF WorldInv
  <1>3. location[h.slot] = NoPlace
    BY <1>2 DEF WorldInv, TablesOK, DeadSlotsClean
  <1>4. /\ location' = [location EXCEPT ![h.slot] = at]
        /\ location \in [SlotIndex -> Places \union {NoPlace}]
    BY DEF PlaceAt, WorldInv, WorldTypeOK
  <1>5. /\ location' \in [SlotIndex -> Places \union {NoPlace}]
        /\ location'[h.slot] = at
        /\ \A t \in SlotIndex : t # h.slot => location'[t] = location[t]
    BY <1>2, <1>4
  <1>6. occupants' = [p \in Places |-> IF p = at THEN occupants[p] \union {h} ELSE occupants[p]]
    BY <1>3, WorldAssumption DEF PlaceAt
  <1>7. occupants' \in [Places -> SUBSET EntityId]
    BY <1>6 DEF WorldInv, WorldTypeOK
  <1>8. OccupantsExact'
    <2> SUFFICES ASSUME NEW p \in Places
                 PROVE  occupants'[p] = {x \in LiveHandles' : location'[x.slot] = p}
      BY DEF OccupantsExact
    <2>1. \A x \in LiveHandles : x.slot \in SlotIndex /\ x.slot # h.slot
      BY <1>1, <1>2 DEF LiveHandles, Resolves, EntityId, Live
    <2>2. occupants[p] = {x \in LiveHandles : location'[x.slot] = p}
      BY <1>5, <2>1 DEF WorldInv, TablesOK, OccupantsExact
    <2> QED BY <1>1, <1>5, <1>6, <2>2
  <1>9. WorldTypeOK'
    BY <1>1, <1>5, <1>7 DEF WorldInv, WorldTypeOK, ArenaInv
  <1>10. DeadSlotsClean' /\ OneEntryPerSlot'
    BY <1>2, <1>5 DEF WorldInv, TablesOK, DeadSlotsClean, OneEntryPerSlot
  <1> QED BY <1>1, <1>5, <1>8, <1>9, <1>10 DEF WorldInv, TablesOK

\* hydrate leaves a handle behind even when the location query fails; then the
\* key counts as unplaced, and memory says nothing of its room.
LEMMA HydrateDurable ==
  ASSUME DurableInv, NEW k \in Keys, Hydrate(k)
  PROVE  DurableInv'
  <1> USE PersistAssumption
  <1>1. PICK h \in EntityId : Alloc(h) /\ MapKey(k, h) /\ Replay(h, k)
    BY DEF Hydrate
  <1>2. /\ up /\ k \in rows /\ ~Resident(k)
        /\ UNCHANGED <<contents, keywords, rows, nextKey, dbPlace, dbHolder, placeMap, up, apart>>
    BY DEF Hydrate, dbVars
  <1>3. h \notin LiveHandles /\ LiveHandles' = LiveHandles \union {h}
    BY <1>1, ReuseArena, GrowArena DEF Alloc, DurableInv, WorldInv, LiveHandles
  <1>4. h.slot \in SlotIndex /\ location[h.slot] = NoPlace
    BY <1>1, AllocSlots DEF DurableInv, WorldInv, TablesOK, DeadSlotsClean
  <1>5. /\ KeysMatchLive'
        /\ byKey' \in [Keys -> EntityId \union {NoId}]
        /\ byId' \in [EntityId -> Keys \union {NoKey}]
        /\ byKey'[k] = h
        /\ \A j \in Keys : j # k => byKey'[j] = byKey[j]
        /\ \A j \in Keys : Resident(j)' <=> Resident(j) \/ j = k
    BY <1>1, <1>2, <1>3, MintKeys DEF DurableInv
  <1>6. /\ WorldInv'
        /\ unplaced \subseteq unplaced' /\ unplaced' \subseteq unplaced \union {k}
        /\ \A t \in SlotIndex : t # h.slot => location'[t] = location[t]
        /\ k \in unplaced' \/ SlugAt(placeMap, location'[h.slot]) = dbPlace[k]
        /\ k \in unplaced' => location'[h.slot] = NoPlace /\ dbPlace[k] # NoSlug
    <2> DEFINE at == dbPlace[k]
    <2>0. k \notin unplaced
      BY <1>2 DEF DurableInv, MapsOK
    <2>1. CASE /\ at \in Rooms(placeMap)
               /\ PlaceAt(h, IdOf(placeMap, at))
               /\ UNCHANGED unplaced
      <3>1. IdOf(placeMap, at) \in Places /\ placeMap[IdOf(placeMap, at)] = at
        BY <2>1 DEF Rooms, IdOf
      <3>2. /\ WorldInv' /\ location'[h.slot] = IdOf(placeMap, at)
            /\ \A t \in SlotIndex : t # h.slot => location'[t] = location[t]
        BY <1>1, <1>2, <2>1, <3>1, PlaceFreshWorld DEF DurableInv
      <3> QED BY <2>0, <2>1, <3>1, <3>2, WorldAssumption DEF SlugAt
    <2>2. CASE /\ unplaced' = IF at = NoSlug THEN unplaced ELSE unplaced \union {k}
               /\ UNCHANGED <<location, occupants>>
      <3>1. WorldInv'
        BY <1>1, <1>2, <2>2, CreateWorld DEF Create, tableVars, DurableInv
      <3> QED BY <1>4, <2>0, <2>2, <3>1 DEF SlugAt
    <2> QED BY <1>1, <2>1, <2>2 DEF Replay
  <1>7. RowsOK' /\ DownEmpty'
    BY <1>2 DEF DurableInv, RowsOK, DownEmpty
  <1>8. MapsOK'
    BY <1>2, <1>5, <1>6 DEF DurableInv, MapsOK
  <1>9. HoldingsHeld'
    <2> SUFFICES ASSUME NEW i \in Keys, dbHolder'[i] # NoKey
                 PROVE  /\ Resident(i)' /\ Resident(dbHolder[i])'
                        /\ HeldAt(byKey[i].slot, byKey[dbHolder[i]])'
      BY DEF HoldingsHeld
    <2>1. /\ Resident(i) /\ Resident(dbHolder[i]) /\ dbHolder[i] \in Keys
          /\ HeldAt(byKey[i].slot, byKey[dbHolder[i]])
          /\ dbHolder'[i] = dbHolder[i]
      BY <1>2 DEF DurableInv, HoldingsHeld, RowsOK
    <2> QED BY <1>2, <1>5, <2>1 DEF HeldAt
  <1>10. ResidentWhereDurable'
    <2> SUFFICES ASSUME NEW j \in Keys, Resident(j)', j \notin unplaced'
                 PROVE  SlugAt(placeMap', location'[byKey'[j].slot]) = dbPlace'[j]
      BY DEF ResidentWhereDurable, SlugAt
    <2>1. CASE j = k
      BY <1>2, <1>5, <1>6, <2>1 DEF SlugAt
    <2>2. CASE j # k
      <3>1. Resident(j) /\ byKey'[j] = byKey[j] /\ j \notin unplaced
        BY <1>5, <1>6, <2>2
      <3>2. byKey[j] \in LiveHandles /\ byKey[j].slot \in SlotIndex
        BY <3>1, ResidentLive DEF DurableInv
      <3>3. byKey[j].slot # h.slot
        BY <1>1, <3>2, AllocSlots DEF DurableInv, WorldInv, LiveHandles, Resolves, Live
      <3> QED BY <1>2, <1>6, <3>1, <3>2, <3>3 DEF DurableInv, ResidentWhereDurable, SlugAt
    <2> QED BY <2>1, <2>2
  <1>11. ApartOK' /\ HoldingsMatch'
    <2>1. \A c, i \in Keys : Holds(c, i)' <=> Holds(c, i)
      BY <1>1, <1>2, <1>5, <1>8, FreshHoldsNothing DEF DurableInv
    <2> QED BY <1>2, <2>1, SameHoldings DEF DurableInv
  <1>12. HydratedHalf'
    <2> SUFFICES ASSUME NEW j \in unplaced', j # k
                 PROVE  location'[byKey'[j].slot] = NoPlace /\ dbPlace'[j] # NoSlug
      BY <1>2, <1>5, <1>6 DEF HydratedHalf
    <2>1. j \in unplaced /\ j \in Keys /\ Resident(j) /\ byKey'[j] = byKey[j]
      BY <1>5, <1>6 DEF DurableInv, MapsOK
    <2>2. byKey[j] \in LiveHandles /\ byKey[j].slot \in SlotIndex
      BY <2>1, ResidentLive DEF DurableInv
    <2>3. byKey[j].slot # h.slot
      BY <1>1, <2>2, AllocSlots DEF DurableInv, WorldInv, LiveHandles, Resolves, Live
    <2> QED BY <1>2, <1>6, <2>1, <2>2, <2>3 DEF DurableInv, HydratedHalf
  <1> QED BY <1>5, <1>6, <1>7, <1>8, <1>9, <1>10, <1>11, <1>12 DEF DurableInv

\* create_puppet touches the database only; its key is not resident yet.
LEMMA CreatePuppetDurable ==
  ASSUME DurableInv, CreatePuppet
  PROVE  DurableInv'
  <1>1. up /\ InsertRow(StartRoom) /\ UNCHANGED <<worldVars, mapVars, placeMap, up, unplaced, apart>>
    BY DEF CreatePuppet
  <1>2. /\ RowsOK'
        /\ nextKey \in Keys /\ ~Resident(nextKey) /\ rows' = rows \union {nextKey}
        /\ \A j \in Keys : j # nextKey => dbPlace'[j] = dbPlace[j]
        /\ dbHolder' = dbHolder
    BY <1>1, InsertRowRows, PersistAssumption
  <1>3. WorldInv'
    BY <1>1, StutterWorld DEF DurableInv
  <1>4. /\ byKey' = byKey /\ byId' = byId /\ location' = location /\ contents' = contents
        /\ slots' = slots
    BY <1>1 DEF mapVars, worldVars, arenaVars, tableVars
  <1>5. LiveHandles' = LiveHandles
    BY <1>4 DEF LiveHandles, Resolves
  <1>6. KeysMatchLive' /\ MapsOK'
    BY <1>1, <1>2, <1>4, <1>5 DEF DurableInv, KeysMatchLive, MapsOK, Resident
  <1>7. HoldingsHeld' /\ DownEmpty'
    BY <1>1, <1>2, <1>4 DEF DurableInv, HoldingsHeld, HeldAt, DownEmpty, Resident
  <1>8. ResidentWhereDurable'
    BY <1>1, <1>2, <1>4 DEF DurableInv, ResidentWhereDurable, Resident, SlugAt
  <1>9. HydratedHalf'
    <2>1. \A j \in unplaced : j \in Keys /\ j # nextKey
      BY <1>2 DEF DurableInv, MapsOK
    <2> QED BY <1>1, <1>2, <1>4, <2>1 DEF DurableInv, HydratedHalf
  <1>10. ApartOK' /\ HoldingsMatch'
    <2>1. \A c, i \in Keys : Holds(c, i)' <=> Holds(c, i)
      BY <1>4 DEF Holds, Contains, Resident, Resolves
    <2> QED BY <1>1, <1>2, <2>1, SameHoldings DEF DurableInv
  <1> QED BY <1>2, <1>3, <1>6, <1>7, <1>8, <1>9, <1>10 DEF DurableInv

\* A stopped process is the initial memory over the rows as they are.
LEMMA DiscardDurable ==
  ASSUME DurableInv, Discard, UNCHANGED dbVars
  PROVE  DurableInv'
  <1> USE PersistAssumption
  <1>1. WorldInv'
    <2>1. WorldInit'
      BY DEF Discard, WorldInit, ArenaInit
    <2>2. (WorldInit => WorldInv)'
      BY InitWorld, PTL
    <2> QED BY <2>1, <2>2
  <1>2. \A k \in Keys : ~Resident(k)'
    BY DEF Discard, Resident
  <1>3. RowsOK'
    BY DEF dbVars, DurableInv, RowsOK
  <1>4. MapsOK'
    BY <1>2 DEF Discard, MapsOK
  <1>5. LiveHandles' = {}
    BY DEF Discard, LiveHandles, Resolves, Live, Vacant, EntityId
  <1>6. KeysMatchLive'
    BY <1>2, <1>5 DEF Discard, KeysMatchLive
  <1>7. HoldingsHeld' /\ ResidentWhereDurable' /\ DownEmpty'
    BY <1>2 DEF Discard, HoldingsHeld, ResidentWhereDurable, DownEmpty
  <1>8. ApartOK' /\ HoldingsMatch' /\ HydratedHalf'
    BY DEF Discard, ApartOK, HoldingsMatch, HydratedHalf
  <1> QED BY <1>1, <1>3, <1>4, <1>6, <1>7, <1>8 DEF DurableInv

-----------------------------------------------------------------------------
\* Where load puts the rows: row k in slot Rank(k), and KeyAt finds it there.
LEMMA LoadSlots ==
  ASSUME RowsOK, Cardinality(rows) <= MaxSlots
  PROVE  /\ \A k \in rows :
              /\ Loaded(k) \in EntityId /\ Loaded(k).slot = Rank(k)
              /\ Loaded(k).tenant = Tenant /\ Loaded(k).generation = FIRST
              /\ Rank(k) \in SlotIndex /\ Rank(k) < Cardinality(rows)
              /\ KeyAt(Rank(k)) = k
         /\ \A j, k \in rows : Rank(j) = Rank(k) => j = k
         /\ \A s \in SlotIndex : s < Cardinality(rows) => KeyAt(s) \in rows /\ Rank(KeyAt(s)) = s
         /\ Cardinality(rows) \in Nat /\ rows \subseteq Keys
  <1> USE ArenaAssumption
  <1>1. Cardinality(rows) \in Nat /\ rows \subseteq Keys
    BY RankRange DEF RowsOK
  <1>2. \A j, k \in rows : Rank(j) = Rank(k) => j = k
    BY RankBijective
  <1>3. ASSUME NEW k \in rows
        PROVE  /\ Loaded(k) \in EntityId /\ Loaded(k).slot = Rank(k)
               /\ Loaded(k).tenant = Tenant /\ Loaded(k).generation = FIRST
               /\ Rank(k) \in SlotIndex /\ Rank(k) < Cardinality(rows)
               /\ KeyAt(Rank(k)) = k
    <2>1. Rank(k) \in Nat /\ Rank(k) < Cardinality(rows)
      BY <1>1, RankRange
    <2>2. Rank(k) \in SlotIndex
      BY <1>1, <2>1 DEF SlotIndex
    <2>3. KeyAt(Rank(k)) = k
      BY <1>2 DEF KeyAt
    <2>4. Loaded(k) = [tenant |-> Tenant, slot |-> Rank(k), generation |-> FIRST]
      BY DEF Loaded, Own
    <2>5. FIRST \in Generation
      BY DEF FIRST, Generation
    <2> QED BY <2>1, <2>2, <2>3, <2>4, <2>5 DEF EntityId
  <1>4. ASSUME NEW s \in SlotIndex, s < Cardinality(rows)
        PROVE  KeyAt(s) \in rows /\ Rank(KeyAt(s)) = s
    <2>1. s \in 0 .. (Cardinality(rows) - 1)
      BY <1>1, <1>4 DEF SlotIndex
    <2>2. \E k \in rows : Rank(k) = s
      BY <2>1, RankBijective
    <2> QED BY <2>2 DEF KeyAt
  <1> QED BY <1>1, <1>2, <1>3, <1>4

\* What one boot leaves in the arena: the loaded handles, and nothing else.
LEMMA LoadArena ==
  ASSUME RowsOK, NEW m \in PlaceMaps, Load(m)
  PROVE  /\ ArenaInv'
         /\ LiveHandles' = {Loaded(k) : k \in rows}
         /\ minted' = {Loaded(k) : k \in rows}
         /\ \A s \in SlotIndex : slots'[s] = IF s < Cardinality(rows) THEN Live(FIRST) ELSE Vacant
  <1> USE ArenaAssumption
  <1> DEFINE n == Cardinality(rows)
  <1>1. /\ n <= MaxSlots
        /\ slots' = [s \in SlotIndex |-> IF s < n THEN Live(FIRST) ELSE Vacant]
        /\ len' = n /\ free' = <<>> /\ minted' = {Loaded(k) : k \in rows}
    BY DEF Load, Loadable
  <1>2. /\ n \in Nat
        /\ \A k \in rows :
             /\ Loaded(k) \in EntityId /\ Loaded(k).slot = Rank(k)
             /\ Loaded(k).tenant = Tenant /\ Loaded(k).generation = FIRST
             /\ Rank(k) \in SlotIndex /\ Rank(k) < n
        /\ \A s \in SlotIndex : s < n => KeyAt(s) \in rows /\ Rank(KeyAt(s)) = s
    BY <1>1, LoadSlots
  <1> HIDE DEF n
  <1>3. ASSUME NEW h \in EntityId
        PROVE  Resolves(h)' <=> h \in {Loaded(k) : k \in rows}
    <2>1. ASSUME Resolves(h)'
          PROVE  h \in {Loaded(k) : k \in rows}
      <3>1. h.slot \in SlotIndex /\ h.slot < n /\ h.tenant = Tenant /\ h.generation = FIRST
        BY <1>1, <2>1 DEF Resolves, Owned, EntityId, Live, Vacant
      <3>2. KeyAt(h.slot) \in rows /\ Loaded(KeyAt(h.slot)) \in EntityId
            /\ Loaded(KeyAt(h.slot)).slot = h.slot
            /\ Loaded(KeyAt(h.slot)).tenant = h.tenant
            /\ Loaded(KeyAt(h.slot)).generation = h.generation
        BY <1>2, <3>1
      <3>3. h = Loaded(KeyAt(h.slot))
        BY <3>2 DEF EntityId
      <3> QED BY <3>2, <3>3
    <2>2. ASSUME NEW k \in rows, h = Loaded(k)
          PROVE  Resolves(h)'
      BY <1>1, <1>2, <2>2 DEF Resolves, Owned, Live
    <2> QED BY <2>1, <2>2
  <1>4. LiveHandles' = {Loaded(k) : k \in rows}
    BY <1>2, <1>3 DEF LiveHandles
  <1>5. ArenaTypeOK'
    BY <1>1, <1>2 DEF ArenaTypeOK, SlotState, Live, FIRST, Generation
  <1>6. FreeListExact'
    BY <1>1 DEF FreeListExact, Live, Vacant
  <1>7. VecEnd'
    BY <1>1, <1>2 DEF VecEnd, Live, Vacant, SlotIndex
  <1>8. NeverAhead'
    BY <1>1, <1>2 DEF NeverAhead, Live, FIRST
  <1>9. LiveWasMinted'
    BY <1>1, <1>3 DEF LiveWasMinted
  <1> QED BY <1>1, <1>4, <1>5, <1>6, <1>7, <1>8, <1>9 DEF ArenaInv, n

\* What one boot leaves in the side tables, slot by slot and place by place.
LEMMA LoadTables ==
  ASSUME RowsOK, NEW m \in PlaceMaps, Load(m)
  PROVE  /\ WorldInv'
         /\ \A k \in rows :
              /\ SlugAt(m, location'[Rank(k)]) = dbPlace[k]
              /\ contents'[Rank(k)] = {Loaded(i) : i \in KeptIn(k)}
  <1> DEFINE n == Cardinality(rows)
             At(s) == IF s < n THEN dbPlace[KeyAt(s)] ELSE NoSlug
  <1>1. /\ n <= MaxSlots
        /\ \A k \in rows : dbPlace[k] \in Rooms(m) \union {NoSlug}
        /\ location' = [s \in SlotIndex |-> IF At(s) = NoSlug THEN NoPlace ELSE IdOf(m, At(s))]
        /\ contents' = [s \in SlotIndex |->
                          IF s < n THEN {Loaded(i) : i \in KeptIn(KeyAt(s))} ELSE {}]
        /\ occupants' = [p \in Places |->
              {Loaded(k) : k \in {j \in rows : dbPlace[j] # NoSlug /\ dbPlace[j] = m[p]}}]
        /\ keywords' = [s \in SlotIndex |-> {}]
    BY DEF Load, Loadable
  <1>2. /\ \A k \in rows :
             /\ Loaded(k) \in EntityId /\ Loaded(k).slot = Rank(k)
             /\ Rank(k) \in SlotIndex /\ Rank(k) < n /\ KeyAt(Rank(k)) = k
        /\ \A j, k \in rows : Rank(j) = Rank(k) => j = k
        /\ \A s \in SlotIndex : s < n => KeyAt(s) \in rows /\ Rank(KeyAt(s)) = s
    BY <1>1, LoadSlots
  <1>3. /\ ArenaInv' /\ LiveHandles' = {Loaded(k) : k \in rows}
        /\ minted' = {Loaded(k) : k \in rows}
        /\ \A s \in SlotIndex : slots'[s] = IF s < n THEN Live(FIRST) ELSE Vacant
    BY LoadArena
  <1>4. \A slug \in Rooms(m) : IdOf(m, slug) \in Places /\ m[IdOf(m, slug)] = slug
    BY DEF Rooms, IdOf
  <1>5. ASSUME NEW k \in rows
        PROVE  /\ dbPlace[k] = NoSlug => location'[Rank(k)] = NoPlace
               /\ dbPlace[k] # NoSlug =>
                    /\ location'[Rank(k)] \in Places
                    /\ m[location'[Rank(k)]] = dbPlace[k]
               /\ contents'[Rank(k)] = {Loaded(i) : i \in KeptIn(k)}
    <2>1. Rank(k) \in SlotIndex /\ At(Rank(k)) = dbPlace[k] /\ KeyAt(Rank(k)) = k /\ Rank(k) < n
      BY <1>2
    <2>2. location'[Rank(k)] = IF dbPlace[k] = NoSlug THEN NoPlace ELSE IdOf(m, dbPlace[k])
      BY <1>1, <2>1
    <2>3. dbPlace[k] # NoSlug => dbPlace[k] \in Rooms(m)
      BY <1>1
    <2>4. contents'[Rank(k)] = {Loaded(i) : i \in KeptIn(k)}
      BY <1>1, <2>1
    <2> QED BY <1>4, <2>2, <2>3, <2>4
  <1>6. location' \in [SlotIndex -> Places \union {NoPlace}]
    <2>1. ASSUME NEW s \in SlotIndex, At(s) # NoSlug
          PROVE  IdOf(m, At(s)) \in Places
      BY <1>1, <1>2, <1>4, <2>1
    <2> QED BY <1>1, <2>1
  <1>7. \A s \in SlotIndex : ~(s < n) => location'[s] = NoPlace /\ contents'[s] = {}
    BY <1>1
  <1> HIDE DEF n, At
  <1>8. occupants' \in [Places -> SUBSET EntityId]
    BY <1>1, <1>2
  <1>9. contents' \in [SlotIndex -> SUBSET minted']
    BY <1>1, <1>3 DEF KeptIn
  <1>10. WorldTypeOK'
    BY <1>1, <1>3, <1>6, <1>8, <1>9 DEF WorldTypeOK, ArenaInv
  <1>11. OccupantsExact'
    <2> SUFFICES ASSUME NEW p \in Places
                 PROVE  occupants'[p] = {h \in LiveHandles' : location'[h.slot] = p}
      BY DEF OccupantsExact
    <2>1. occupants'[p] = {Loaded(k) : k \in {j \in rows : dbPlace[j] # NoSlug /\ dbPlace[j] = m[p]}}
      BY <1>1
    <2>2. ASSUME NEW k \in rows
          PROVE  dbPlace[k] # NoSlug /\ dbPlace[k] = m[p] <=> location'[Loaded(k).slot] = p
      <3>1. \A q \in Places : m[q] = m[p] /\ m[q] # NoSlug => q = p
        BY DEF PlaceMaps
      <3> QED BY <1>2, <1>5, <3>1, WorldAssumption
    <2> QED BY <1>3, <2>1, <2>2
  <1>12. DeadSlotsClean'
    BY <1>1, <1>3, <1>7 DEF DeadSlotsClean, Live
  <1>13. OneEntryPerSlot'
    <2> SUFFICES ASSUME NEW s \in SlotIndex, NEW h \in contents'[s], NEW g \in contents'[s],
                        h.slot = g.slot
                 PROVE  h = g
      BY DEF OneEntryPerSlot
    <2>1. PICK i \in rows : h = Loaded(i)
      BY <1>3, <1>9
    <2>2. PICK j \in rows : g = Loaded(j)
      BY <1>3, <1>9
    <2> QED BY <1>2, <2>1, <2>2
  <1>14. \A k \in rows : SlugAt(m, location'[Rank(k)]) = dbPlace[k]
    BY <1>5, WorldAssumption DEF SlugAt
  <1> QED BY <1>3, <1>5, <1>10, <1>11, <1>12, <1>13, <1>14 DEF WorldInv, TablesOK

\* A boot gives every row a handle, and the maps, the rooms and the holdings
\* come out as the rows say.
LEMMA LoadDurable ==
  ASSUME DurableInv, NEW m \in PlaceMaps, Load(m)
  PROVE  /\ DurableInv'
         /\ LiveHandles' = {byKey'[k] : k \in rows'}
         /\ \A c, i \in rows' : Contains(byKey[c], byKey[i])' <=> dbHolder'[i] = c
  <1> USE PersistAssumption
  <1>1. /\ ~up /\ up' /\ up' \in BOOLEAN /\ placeMap' = m /\ unplaced' = unplaced
        /\ masked' = masked /\ kept' = kept
        /\ Cardinality(rows) <= MaxSlots
        /\ rows' = rows /\ nextKey' = nextKey /\ dbPlace' = dbPlace /\ dbHolder' = dbHolder
        /\ byKey' = [k \in Keys |-> IF k \in rows THEN Loaded(k) ELSE NoId]
        /\ byId' = [h \in EntityId |->
                      IF \E k \in rows : Loaded(k) = h THEN KeyAt(h.slot) ELSE NoKey]
    BY DEF Load, Loadable, dbVars, apart
  <1>2. /\ WorldInv'
        /\ \A k \in rows : /\ SlugAt(m, location'[Rank(k)]) = dbPlace[k]
                           /\ contents'[Rank(k)] = {Loaded(i) : i \in KeptIn(k)}
    BY LoadTables DEF DurableInv
  <1>3. /\ LiveHandles' = {Loaded(k) : k \in rows}
        /\ \A s \in SlotIndex : slots'[s] = IF s < Cardinality(rows) THEN Live(FIRST) ELSE Vacant
    BY LoadArena DEF DurableInv
  <1>4. /\ rows \subseteq Keys
        /\ \A k \in rows :
             /\ Loaded(k) \in EntityId /\ Loaded(k).slot = Rank(k) /\ KeyAt(Rank(k)) = k
             /\ k # NoKey
        /\ \A j, k \in rows : Rank(j) = Rank(k) => j = k
    BY <1>1, LoadSlots DEF DurableInv, Keys, NoKey
  <1>5. /\ \A k \in Keys : Resident(k)' <=> k \in rows
        /\ \A k \in rows : byKey'[k] = Loaded(k) /\ byId'[Loaded(k)] = k
        /\ \A h \in EntityId : byId'[h] # NoKey <=> \E k \in rows : Loaded(k) = h
    <2>1. \A k \in Keys : byKey'[k] = IF k \in rows THEN Loaded(k) ELSE NoId
      BY <1>1
    <2>2. \A k \in Keys : Resident(k)' <=> k \in rows
      BY <1>4, <2>1 DEF Resident
    <2>3. \A k \in rows : byKey'[k] = Loaded(k)
      BY <1>4, <2>1
    <2>4. \A k \in rows : byId'[Loaded(k)] = k
      BY <1>1, <1>4
    <2>5. ASSUME NEW h \in EntityId, byId'[h] # NoKey
          PROVE  \E k \in rows : Loaded(k) = h
      BY <1>1, <2>5
    <2> QED BY <1>4, <2>2, <2>3, <2>4, <2>5
  <1>6. RowsOK'
    BY <1>1 DEF DurableInv, RowsOK
  <1>0. unplaced' = {} /\ masked' = {} /\ kept' = {}
    BY <1>1 DEF DurableInv, MapsOK, DownEmpty, ApartOK
  <1>7. MapsOK'
    <2>1. unplaced = {}
      BY <1>0, <1>1
    <2>2. byKey' \in [Keys -> EntityId \union {NoId}]
      BY <1>1, <1>4
    <2>3. byId' \in [EntityId -> Keys \union {NoKey}]
      BY <1>1, <1>4
    <2>4. placeMap' \in [Places -> Slugs \union {NoSlug}]
      BY <1>1 DEF PlaceMaps
    <2> QED BY <1>1, <2>1, <2>2, <2>3, <2>4 DEF MapsOK
  <1>8. KeysMatchLive'
    BY <1>1, <1>3, <1>4, <1>5 DEF KeysMatchLive
  <1>9. ResidentWhereDurable'
    BY <1>1, <1>2, <1>4, <1>5 DEF ResidentWhereDurable, SlugAt
  <1>10. ASSUME NEW c \in rows, NEW i \in rows
         PROVE  /\ Contains(byKey[c], byKey[i])' <=> dbHolder'[i] = c
                /\ dbHolder'[i] = c => HeldAt(byKey[i].slot, byKey[c])'
    <2>1. contents'[byKey'[c].slot] = {Loaded(j) : j \in KeptIn(c)}
      BY <1>2, <1>4, <1>5
    <2>2. \A j \in KeptIn(c) : j \in rows /\ dbHolder[j] = c
      BY DEF KeptIn
    <2>3. Loaded(i) \in {Loaded(j) : j \in KeptIn(c)} <=> dbHolder[i] = c
      <3>1. \A j \in KeptIn(c) : Loaded(j) = Loaded(i) => j = i
        BY <1>4, <2>2
      <3> QED BY <2>2, <3>1 DEF KeptIn
    <2>4. Resolves(byKey[c])'
      BY <1>3, <1>5 DEF LiveHandles
    <2> QED BY <1>1, <1>5, <2>1, <2>3, <2>4 DEF Contains, HeldAt
  <1>11. HoldingsHeld'
    <2> SUFFICES ASSUME NEW i \in Keys, dbHolder'[i] # NoKey
                 PROVE  /\ Resident(i)' /\ Resident(dbHolder[i])'
                        /\ HeldAt(byKey[i].slot, byKey[dbHolder[i]])'
      BY DEF HoldingsHeld
    <2>1. i \in rows /\ dbHolder'[i] \in rows /\ dbHolder'[i] = dbHolder[i]
      BY <1>1 DEF DurableInv, RowsOK
    <2>2. /\ Resident(i)' /\ Resident(dbHolder[i])'
      BY <1>4, <1>5, <2>1
    <2>3. HeldAt(byKey[i].slot, byKey[dbHolder[i]])'
      BY <1>10, <2>1
    <2> QED BY <2>2, <2>3
  <1>12. DownEmpty'
    BY <1>1 DEF DownEmpty
  <1>13. LiveHandles' = {byKey'[k] : k \in rows'}
    <2>1. {Loaded(k) : k \in rows} = {byKey'[k] : k \in rows}
      BY <1>5
    <2> QED BY <1>1, <1>3, <2>1
  <1>14. \A c, i \in rows' : Contains(byKey[c], byKey[i])' <=> dbHolder'[i] = c
    BY <1>1, <1>10
  <1>15. ApartOK' /\ HydratedHalf'
    BY <1>0, <1>1 DEF ApartOK, HydratedHalf
  <1>16. HoldingsMatch'
    <2> SUFFICES ASSUME NEW c \in Keys, NEW i \in Keys
                 PROVE  Holds(c, i)' <=> dbHolder'[i] = c
      BY <1>0 DEF HoldingsMatch
    <2>1. dbHolder[i] = c => c \in rows /\ i \in rows
      BY DEF DurableInv, RowsOK, Keys, NoKey
    <2> QED BY <1>1, <1>5, <1>10, <2>1 DEF Holds
  <1> QED BY <1>1, <1>2, <1>6, <1>7, <1>8, <1>9, <1>11, <1>12, <1>13, <1>14, <1>15, <1>16 DEF DurableInv

-----------------------------------------------------------------------------
\* The empty world over the empty database.
LEMMA InitDurable == Init => DurableInv
  <1> SUFFICES ASSUME Init PROVE DurableInv
    OBVIOUS
  <1> USE PersistAssumption DEF Init
  <1>1. WorldInv
    BY InitWorld
  <1>2. RowsOK
    BY DEF RowsOK, Keys, NoKey
  <1>3. MapsOK /\ \A k \in Keys : ~Resident(k)
    BY DEF MapsOK, Resident
  <1>4. LiveHandles = {}
    BY DEF WorldInit, ArenaInit, LiveHandles, Resolves, Live, Vacant, EntityId
  <1>5. KeysMatchLive
    BY <1>3, <1>4 DEF KeysMatchLive
  <1>6. HoldingsHeld /\ ResidentWhereDurable /\ DownEmpty
    BY <1>3 DEF HoldingsHeld, ResidentWhereDurable, DownEmpty
  <1>7. ApartOK /\ HoldingsMatch /\ HydratedHalf
    BY DEF ApartOK, HoldingsMatch, HydratedHalf
  <1> QED BY <1>1, <1>2, <1>3, <1>5, <1>6, <1>7 DEF DurableInv

\* A step that changes no variable changes nothing of the invariant.
LEMMA StutterDurable ==
  ASSUME DurableInv, UNCHANGED vars
  PROVE  DurableInv'
  <1>1. UNCHANGED <<rows, nextKey, dbPlace, dbHolder, byKey, byId, placeMap, up, unplaced,
                    slots, location, contents, masked, kept>>
    BY DEF vars, worldVars, arenaVars, tableVars, dbVars, mapVars, apart
  <1>2. WorldInv'
    BY StutterWorld DEF vars, DurableInv
  <1>3. LiveHandles' = LiveHandles
    BY <1>1 DEF LiveHandles, Resolves
  <1>4. RowsOK' /\ MapsOK' /\ KeysMatchLive' /\ DownEmpty'
    BY <1>1, <1>3 DEF DurableInv, RowsOK, MapsOK, KeysMatchLive, DownEmpty, Resident
  <1>5. HoldingsHeld' /\ ResidentWhereDurable' /\ HydratedHalf'
    BY <1>1 DEF DurableInv, HoldingsHeld, HeldAt, ResidentWhereDurable, SlugAt, Resident,
                HydratedHalf
  <1>6. ApartOK' /\ HoldingsMatch'
    <2>1. \A c, i \in Keys : Holds(c, i)' <=> Holds(c, i)
      BY <1>1 DEF Holds, Contains, Resident, Resolves
    <2> QED BY <1>1, <2>1, SameHoldings DEF DurableInv, apart
  <1> QED BY <1>2, <1>4, <1>5, <1>6 DEF DurableInv

\* A scheduled command is applied, skipped, or stops the World: tick.
LEMMA ApplyGuardedDurable ==
  ASSUME DurableInv, NEW eff \in Effect, NEW pre, ApplyGuarded(pre, eff)
  PROVE  DurableInv'
  <1>1. CASE UNCHANGED vars
    BY <1>1, StutterDurable
  <1>2. CASE up /\ Mapped(eff) /\ Persist(eff)
    BY <1>2, PersistDurable
  <1>3. CASE Discard /\ UNCHANGED dbVars
    BY <1>3, DiscardDurable
  <1> QED BY <1>1, <1>2, <1>3 DEF ApplyGuarded

\* Every operation of the persistent world keeps the invariant.
LEMMA StepDurable == DurableInv /\ [Next]_vars => DurableInv'
  <1> SUFFICES ASSUME DurableInv, [Next]_vars PROVE DurableInv'
    OBVIOUS
  <1>1. CASE UNCHANGED vars
    BY <1>1, StutterDurable
  <1>2. ASSUME NEW eff \in Effect, NEW pre \in GuardsFor(eff), ApplyGuarded(pre, eff)
        PROVE  DurableInv'
    BY <1>2, ApplyGuardedDurable
  <1>3. ASSUME NEW k \in Keys, Hydrate(k) PROVE DurableInv'
    BY <1>3, HydrateDurable
  <1>4. CASE CreatePuppet
    BY <1>4, CreatePuppetDurable
  <1>5. CASE Crash
    BY <1>5, DiscardDurable DEF Crash
  <1>6. ASSUME NEW m \in PlaceMaps, Load(m) PROVE DurableInv'
    BY <1>6, LoadDurable
  <1>7. ASSUME NEW m \in PlaceMaps, LoadRefused(m) PROVE DurableInv'
    BY <1>7, StutterDurable DEF LoadRefused
  <1> QED BY <1>1, <1>2, <1>3, <1>4, <1>5, <1>6, <1>7 DEF Next

\* The inductive invariant of the persistent world.
THEOREM DurableCorrect == Spec => []DurableInv
  BY InitDurable, StepDurable, PTL DEF Spec

\* The key maps are exact after any number of boots, crashes, hydrations and
\* effects: key_of never misses a live handle, so apply never gives up after
\* memory has changed.
THEOREM PersistentMaps == Spec => []PersistInv
  <1>1. DurableInv => PersistInv
    BY DEF DurableInv, RowsOK, MapsOK, ApartOK, WorldInv, PersistInv, PersistTypeOK
  <1> QED BY <1>1, DurableCorrect, PTL

\* What memory says of a resident entity is what the database says of it,
\* whatever slots and PlaceIds this boot has given out, but for the rows a stale
\* handle hides, the entries a later add left behind and the places a failed
\* hydrate did not replay, and exactly for these.
THEOREM PersistentMemory == Spec => []MemoryMatchesRows
  <1>1. DurableInv => MemoryMatchesRows
    BY DEF DurableInv, MemoryMatchesRows
  <1> QED BY <1>1, DurableCorrect, PTL

\* A boot rebuilds memory from the rows exactly.
THEOREM PersistentLoad == Spec => LoadRebuilds
  <1>1. ASSUME DurableInv, [Next]_vars, ~up, up'
        PROVE  (/\ LiveHandles = {byKey[k] : k \in rows}
                /\ ResidentWhereDurable
                /\ \A c, i \in rows : Contains(byKey[c], byKey[i]) <=> dbHolder[i] = c)'
    <2>1. PICK m \in PlaceMaps : Load(m)
      <3>1. ASSUME NEW eff \in Effect, NEW pre, ApplyGuarded(pre, eff) PROVE FALSE
        BY <1>1, <3>1 DEF ApplyGuarded
      <3>2. ASSUME NEW k \in Keys, Hydrate(k) PROVE FALSE
        BY <1>1, <3>2 DEF Hydrate
      <3>3. ASSUME NEW m \in PlaceMaps, LoadRefused(m) PROVE FALSE
        BY <1>1, <3>3 DEF LoadRefused, vars
      <3> QED BY <1>1, <3>1, <3>2, <3>3 DEF Next, CreatePuppet, Crash, vars
    <2>2. /\ DurableInv' /\ LiveHandles' = {byKey'[k] : k \in rows'}
          /\ \A c, i \in rows' : Contains(byKey[c], byKey[i])' <=> dbHolder'[i] = c
      BY <1>1, <2>1, LoadDurable
    <2>3. ResidentWhereDurable'
      BY <2>2 DEF DurableInv
    <2>4. (LiveHandles = {byKey[k] : k \in rows})'
      BY <2>2
    <2>5. (\A c, i \in rows : Contains(byKey[c], byKey[i]) <=> dbHolder[i] = c)'
      BY <2>2
    <2> QED BY <2>3, <2>4, <2>5
  <1> QED BY <1>1, DurableCorrect, PTL DEF Spec, LoadRebuilds

-----------------------------------------------------------------------------
\* Where the refinement mapping sees each entity.
Placed ==
  [k \in Keys |-> IF Resident(k) /\ k \notin unplaced
                    THEN SlugAt(placeMap, location[byKey[k].slot])
                    ELSE dbPlace[k]]

\* Since memory agrees with the rows, the mapping is the location table.
LEMMA PlacedIsDurable == DurableInv => Placed = dbPlace
  BY DEF DurableInv, RowsOK, ResidentWhereDurable, Placed

\* The abstract steps, in terms of the tables.
BornRow(k, at) ==
  /\ up /\ up' = up /\ k \in Keys /\ at \in Slugs \union {NoSlug}
  /\ k = nextKey /\ nextKey' = nextKey + 1
  /\ rows' = rows \union {k}
  /\ dbPlace' = [dbPlace EXCEPT ![k] = at]
DestroyedRow(k) ==
  /\ up /\ up' = up /\ k \in rows
  /\ rows' = rows \ {k}
  /\ dbPlace' = [dbPlace EXCEPT ![k] = NoSlug] /\ nextKey' = nextKey
MovedRow(k, at) ==
  /\ up /\ up' = up /\ k \in rows /\ at \in Slugs \union {NoSlug}
  /\ dbPlace' = [dbPlace EXCEPT ![k] = at] /\ rows' = rows /\ nextKey' = nextKey
SameRows == rows' = rows /\ nextKey' = nextKey /\ dbPlace' = dbPlace

\* A step over the tables is a step or a stutter of the durable world.
LEMMA RowStep ==
  ASSUME DurableInv, DurableInv',
         \/ \E k \in Keys : \/ \E at \in Slugs \union {NoSlug} : BornRow(k, at) \/ MovedRow(k, at)
                            \/ DestroyedRow(k)
         \/ SameRows
  PROVE  [Durable!Next]_<<1 .. (nextKey - 1), rows, Placed, up>>
  <1>1. Placed = dbPlace /\ Placed' = dbPlace'
    <2>1. (DurableInv => Placed = dbPlace)'
      BY PlacedIsDurable, PTL
    <2> QED BY <2>1, PlacedIsDurable
  <1>2. nextKey \in Nat \ {0} /\ up \in BOOLEAN /\ up' \in BOOLEAN
    BY PersistAssumption DEF DurableInv, RowsOK, MapsOK
  <1>3. ASSUME NEW k \in Keys, NEW at \in Slugs \union {NoSlug}, BornRow(k, at)
        PROVE  Durable!Born(k, at)
    <2>1. /\ k \notin 1 .. (nextKey - 1)
          /\ 1 .. (nextKey' - 1) = (1 .. (nextKey - 1)) \union {k}
      BY <1>2, <1>3 DEF BornRow
    <2> QED BY <1>1, <1>3, <2>1 DEF BornRow, Durable!Born, Placed
  <1>4. ASSUME NEW k \in Keys, NEW at \in Slugs \union {NoSlug}, MovedRow(k, at)
        PROVE  Durable!Moved(k, at)
    BY <1>1, <1>4 DEF MovedRow, Durable!Moved, Placed
  <1>5. ASSUME NEW k \in Keys, DestroyedRow(k)
        PROVE  Durable!Destroyed(k)
    BY <1>1, <1>5 DEF DestroyedRow, Durable!Destroyed, Placed
  <1>6. ASSUME SameRows, up' # up
        PROVE  Durable!Restart
    BY <1>1, <1>2, <1>6 DEF SameRows, Durable!Restart, Placed
  <1>7. ASSUME SameRows, up' = up
        PROVE  UNCHANGED <<1 .. (nextKey - 1), rows, Placed, up>>
    BY <1>1, <1>7 DEF SameRows
  <1> QED BY <1>3, <1>4, <1>5, <1>6, <1>7 DEF Durable!Next

\* Every step of the program is one of those: the effects that create, move,
\* clear or tear down change one row, create_puppet adds one, and hydrating,
\* holding, crashing and booting change none.
RowsStep ==
  \/ \E k \in Keys : \/ \E at \in Slugs \union {NoSlug} : BornRow(k, at) \/ MovedRow(k, at)
                     \/ DestroyedRow(k)
  \/ SameRows

\* An effect written through is a step of the durable rows, or no step.
LEMMA PersistStepsRows ==
  ASSUME DurableInv, up, NEW eff \in Effect, Persist(eff)
  PROVE  RowsStep
  <1> USE PersistAssumption
  <1>1. up' = up
    BY DEF Persist
  <1>2. CASE PersistCreate
    <2>1. InsertRow(NoSlug)
      BY <1>2 DEF PersistCreate
    <2>2. BornRow(nextKey, NoSlug) /\ nextKey \in Keys
      BY <1>1, <2>1, InsertRowRows DEF BornRow
    <2> QED BY <2>2 DEF RowsStep
  <1>3. CASE eff.kind = "Teardown" /\ PersistTeardown(eff.entity)
    <2>1. eff.entity \in LiveHandles
      BY <1>3 DEF Effect, PersistTeardown, Teardown, FreeHandle, LiveHandles
    <2>2. byId[eff.entity] \in Keys /\ byId[eff.entity] \in rows
      BY <2>1, LiveResident DEF DurableInv
    <2>3. DestroyedRow(byId[eff.entity])
      BY <1>1, <1>3, <2>2 DEF PersistTeardown, DestroyedRow
    <2> QED BY <2>2, <2>3 DEF RowsStep
  <1>4. CASE eff.kind = "MoveTo" /\ PersistMove(eff.entity, eff.place)
    <2>1. eff.entity \in LiveHandles /\ eff.place \in Places
      BY <1>4 DEF Effect, PersistMove, MoveTo, LiveHandles
    <2>2. byId[eff.entity] \in Keys /\ byId[eff.entity] \in rows
      BY <2>1, LiveResident DEF DurableInv
    <2>3. placeMap[eff.place] \in Slugs \union {NoSlug}
      BY <2>1 DEF DurableInv, MapsOK
    <2>4. MovedRow(byId[eff.entity], placeMap[eff.place])
      BY <1>1, <1>4, <2>2, <2>3 DEF PersistMove, MovedRow
    <2> QED BY <2>2, <2>3, <2>4 DEF RowsStep
  <1>5. CASE eff.kind = "ClearLocation" /\ PersistClearLocation(eff.entity)
    <2>1. eff.entity \in LiveHandles
      BY <1>5 DEF Effect, PersistClearLocation, ClearLocation, LiveHandles
    <2>2. byId[eff.entity] \in Keys /\ byId[eff.entity] \in rows
      BY <2>1, LiveResident DEF DurableInv
    <2>3. MovedRow(byId[eff.entity], NoSlug)
      BY <1>1, <1>5, <2>2 DEF PersistClearLocation, MovedRow
    <2> QED BY <2>2, <2>3 DEF RowsStep
  <1>6. CASE eff.kind = "InventoryAdd" /\ PersistInventoryAdd(eff.container, eff.item)
    BY <1>6 DEF PersistInventoryAdd, RowsStep, SameRows
  <1>7. CASE eff.kind = "InventoryRemove" /\ PersistInventoryRemove(eff.container, eff.item)
    BY <1>7 DEF PersistInventoryRemove, RowsStep, SameRows
  <1> QED BY <1>2, <1>3, <1>4, <1>5, <1>6, <1>7 DEF Persist

\* So is every operation: the simulation, step by step.
LEMMA NextStepsRows ==
  ASSUME DurableInv, [Next]_vars
  PROVE  RowsStep
  <1> USE PersistAssumption
  <1>1. ASSUME UNCHANGED dbVars PROVE RowsStep
    BY <1>1 DEF dbVars, RowsStep, SameRows
  <1>2. ASSUME NEW eff \in Effect, NEW pre, ApplyGuarded(pre, eff) PROVE RowsStep
    BY <1>1, <1>2, PersistStepsRows DEF ApplyGuarded, vars
  <1>3. CASE CreatePuppet
    <2>1. BornRow(nextKey, StartRoom) /\ nextKey \in Keys
      BY <1>3, InsertRowRows DEF CreatePuppet, BornRow
    <2> QED BY <2>1 DEF RowsStep
  <1>4. ASSUME NEW k \in Keys, Hydrate(k) PROVE RowsStep
    BY <1>1, <1>4 DEF Hydrate
  <1>5. CASE Crash
    BY <1>1, <1>5 DEF Crash
  <1>6. ASSUME NEW m \in PlaceMaps, Load(m) PROVE RowsStep
    BY <1>1, <1>6 DEF Load
  <1>7. ASSUME UNCHANGED vars PROVE RowsStep
    BY <1>1, <1>7 DEF vars
  <1> QED BY <1>2, <1>3, <1>4, <1>5, <1>6, <1>7 DEF Next, LoadRefused

\* The persistent world implements the durable one: players see entities born,
\* moved and destroyed one at a time while the server runs, no key comes back,
\* and neither a crash, a boot nor a hydration moves anybody.
THEOREM PersistentImplementsDurable == Spec => ImplementsDurableWorld
  <1>1. Init => Durable!Init
    BY PersistAssumption DEF Init, Durable!Init, Resident
  <1>2. ASSUME DurableInv, [Next]_vars
        PROVE  [Durable!Next]_<<1 .. (nextKey - 1), rows, Placed, up>>
    <2>1. DurableInv'
      BY <1>2, StepDurable
    <2>2. RowsStep
      BY <1>2, NextStepsRows
    <2> QED BY <1>2, <2>1, <2>2, RowStep DEF RowsStep
  <1> QED BY <1>1, <1>2, DurableCorrect, PTL
          DEF Spec, ImplementsDurableWorld, Durable!Spec, Placed

==============================================================================
