----------------------------- MODULE EntityArena -----------------------------
(***************************************************************************)
(* The per-tenant generational arena of mud-core (entity/arena.rs,         *)
(* entity/id.rs).  A handle names a tenant, a slot and a generation; it is *)
(* valid while its slot is live at exactly that generation.  The width     *)
(* limits of the packed 64-bit id appear as MaxSlots (32 bits in the code) *)
(* and MaxGen (20 bits).                                                   *)
(***************************************************************************)
EXTENDS Naturals, Sequences

CONSTANTS
  Tenants,   (* every tenant tag a handle may carry                         *)
  Tenant,    (* the tag of the tenant that owns this arena                  *)
  MaxSlots,  (* how many slots the slot space has                           *)
  MaxGen     (* the largest generation: a slot freed at it is burned        *)

ASSUME ArenaAssumption ==
  /\ Tenant \in Tenants
  /\ MaxSlots \in Nat \ {0}
  /\ MaxGen \in Nat

VARIABLES
  slots,   (* slots[s]: the state of slot s; beyond the Vec's end, Vacant   *)
  len,     (* the length of the Vec of slots                                *)
  free,    (* the free list, a stack of slot indices                        *)
  minted   (* history: every handle alloc has returned (no code reads it)   *)

arenaVars == <<slots, len, free, minted>>

SlotIndex  == 0 .. (MaxSlots - 1)
Generation == 0 .. MaxGen
FIRST      == 0

\* An EntityId: the three packed fields, each within its width.
EntityId == [tenant : Tenants, slot : SlotIndex, generation : Generation]
Own(s, g) == [tenant |-> Tenant, slot |-> s, generation |-> g]

\* SlotState, with one more value for the indices the Vec has not reached.
Live(g) == [st |-> "live", generation |-> g]
Free(g) == [st |-> "free", generation |-> g]
Burned  == [st |-> "burned"]
Vacant  == [st |-> "vacant"]

SlotState ==
  [st : {"live", "free"}, generation : Generation] \union {Burned, Vacant}

-----------------------------------------------------------------------------
\* Generation::next: MaxGen has no successor.
HasNext(g) == g < MaxGen

\* EntityArena::ensure_owned and ::resolve: the handle was minted here and its
\* slot is live at the handle's generation.
Owned(h)    == h.tenant = Tenant
Resolves(h) == Owned(h) /\ slots[h.slot] = Live(h.generation)

\* Which error resolve and free report for a handle that does not resolve.
ResolveError(h) == IF Owned(h) THEN "StaleHandle" ELSE "CrossTenant"

LiveHandles == {h \in EntityId : Resolves(h)}

-----------------------------------------------------------------------------
ArenaInit ==
  /\ slots = [s \in SlotIndex |-> Vacant]
  /\ len = 0
  /\ free = <<>>
  /\ minted = {}

\* alloc when the free list has a slot: pop it and re-activate it (reuse).
Reuse(h) ==
  /\ free # <<>>
  /\ LET s == free[Len(free)] IN
       /\ h = Own(s, slots[s].generation)
       /\ slots' = [slots EXCEPT ![s] = Live(h.generation)]
  /\ free' = SubSeq(free, 1, Len(free) - 1)
  /\ minted' = minted \union {h}
  /\ UNCHANGED len

\* alloc with an empty free list: push a fresh slot at the first generation.
Grow(h) ==
  /\ free = <<>>
  /\ len < MaxSlots
  /\ h = Own(len, FIRST)
  /\ slots' = [slots EXCEPT ![len] = Live(FIRST)]
  /\ len' = len + 1
  /\ minted' = minted \union {h}
  /\ UNCHANGED free

Alloc(h) == Reuse(h) \/ Grow(h)

\* The only way alloc fails: nothing to reuse and no index left.
Exhausted == free = <<>> /\ len = MaxSlots

\* Mutants of free: the generation stays, wraps, or a dead handle passes.
Recycle(h, g) ==
  /\ slots' = [slots EXCEPT ![h.slot] = Free(g)]
  /\ free' = Append(free, h.slot)
  /\ UNCHANGED <<len, minted>>
FreeSameGeneration(h) == Resolves(h) /\ Recycle(h, h.generation)
FreeWrapping(h) ==
  Resolves(h) /\ Recycle(h, IF HasNext(h.generation) THEN h.generation + 1 ELSE FIRST)
FreeDead(h) ==
  /\ Owned(h) /\ HasNext(h.generation)
  /\ slots[h.slot] \in {Live(h.generation), Free(h.generation + 1)}
  /\ Recycle(h, h.generation + 1)

\* EntityArena::free on a handle that resolves: recycle the slot one
\* generation up, or burn it when there is none.
FreeHandle(h) ==
  /\ Resolves(h)
  /\ IF HasNext(h.generation)
     THEN /\ slots' = [slots EXCEPT ![h.slot] = Free(h.generation + 1)]
          /\ free' = Append(free, h.slot)
     ELSE /\ slots' = [slots EXCEPT ![h.slot] = Burned]
          /\ UNCHANGED free
  /\ UNCHANGED <<len, minted>>

\* A failed call of either operation leaves the arena as it was.
HandleRejected(h)    == ~Resolves(h) /\ UNCHANGED arenaVars
AllocRejected  == Exhausted /\ UNCHANGED arenaVars

ArenaNext ==
  \/ \E h \in EntityId : Alloc(h) \/ FreeHandle(h) \/ HandleRejected(h)
  \/ AllocRejected

ArenaSpec == ArenaInit /\ [][ArenaNext]_arenaVars

-----------------------------------------------------------------------------
\* Every variable stays in its range.
ArenaTypeOK ==
  /\ slots \in [SlotIndex -> SlotState]
  /\ len \in 0 .. MaxSlots
  /\ free \in Seq(SlotIndex)
  /\ minted \in SUBSET EntityId

\* The free list holds every free slot once and no other slot: what the two
\* unreachable! arms of reuse rely on, and what keeps two later allocations
\* from being handed one slot after a double free.
FreeListExact ==
  /\ \A i \in 1 .. Len(free) : slots[free[i]].st = "free"
  /\ \A i, j \in 1 .. Len(free) : free[i] = free[j] => i = j
  /\ \A s \in SlotIndex :
       slots[s].st = "free" => \E i \in 1 .. Len(free) : free[i] = s

\* A handle the arena returned and that no longer resolves never resolves
\* again, whatever is allocated later in its slot: the use-after-teardown
\* guarantee of the generation and of burning a slot at the last one.
StaleForever ==
  [][\A h \in minted : ~Resolves(h) => ~Resolves(h)']_arenaVars

\* free ends the life of the handle it is given and of no other: a foreign or
\* stale handle that shares the slot of a live one cannot free it.
FreeEndsOnlyItsHandle ==
  [][\A h \in EntityId :
       FreeHandle(h) => h \in LiveHandles /\ LiveHandles' = LiveHandles \ {h}]_arenaVars

\* The arena implements the abstract allocator: what is live, and what was
\* live and will never be again.
Allocator == INSTANCE HandleAllocator
               WITH Handles <- EntityId, live <- LiveHandles,
                    dead <- minted \ LiveHandles

\* Each alloc returns a handle never returned before, and only free retires
\* one: the contract of the abstract allocator.
ImplementsAllocator == Allocator!Spec
=============================================================================
