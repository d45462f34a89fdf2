------------------------------ MODULE WorldLoop ------------------------------
(***************************************************************************)
(* The World loop of one tenant at play (mudd world_loop.rs): sessions     *)
(* bound to puppets (mud-engine session/), the commands that change the    *)
(* world (mud-engine builtins/), the scheduler queue between a command and *)
(* the tick that applies it, and crashes.  A command reads the world when  *)
(* it is dispatched; its effects, submitted without a precondition, apply  *)
(* one by one at the next tick.  The loop is one task, so a login or a     *)
(* dispatch runs to its end before the next frame or tick; only the making *)
(* of a puppet is two steps here, its row and its residency, either of     *)
(* which the process may not live to take.                                 *)
(***************************************************************************)
EXTENDS PersistentWorld

CONSTANTS
  Sids,          (* the session ids                                         *)
  Absent,        (* a session that does not exist                           *)
  LoggingIn,     (* a session connected and not in the world                *)
  Provisioned,   (* the keys 1 .. Provisioned have rows before the first    *)
                 (* boot; the later ones are of puppets made at play        *)
  Puppets,       (* the keys that are puppets; the other keys are items     *)
  Exits,         (* Exits[r]: the rooms one step from room r, by slug       *)
  MaxQueue       (* bound: effects waiting for a tick                       *)

ASSUME LoopAssumption ==
  /\ Absent # LoggingIn /\ {Absent, LoggingIn} \cap EntityId = {}
  /\ Provisioned \in 0 .. MaxKey
  /\ Puppets \subseteq Keys /\ (Provisioned + 1) .. MaxKey \subseteq Puppets
  /\ Exits \in [Slugs -> SUBSET Slugs]
  /\ MaxQueue \in Nat \ {0}

VARIABLES
  session,   (* each session: Absent, LoggingIn, or its entity    *)
  queue,     (* Scheduler.queue: the effects submitted since the last tick  *)
  ticking,   (* whether the tick is draining the queue                      *)
  hydrating, (* the new puppet whose hydrate the loop awaits, or NoKey      *)
  contested, (* history: the items two players were taking at one time      *)
  torn       (* history: the items a crash caught between their two effects *)

loopVars == <<session, queue, ticking, hydrating, contested, torn>>
allVars  == <<vars, loopVars>>

Seqs         == INSTANCE SequencesExt
Items        == Keys \ Puppets
Nobody       == {Absent, LoggingIn}
Settled      == up /\ ~ticking
Listening    == Settled /\ hydrating = NoKey

\* The entities a keyword names.  No code outside the tests names one, and a
\* puppet is created without keywords: the items are named by world building.
IsEntity(h)  == byId[h] # NoKey           \* mutant: puppets answer to keywords
IsItem(h)    == byId[h] \in Items

-----------------------------------------------------------------------------
\* SessionService: connect, disconnect (quit and a lost client alike), and a
\* login that ends in the binding of the puppet's resident entity, wherever it
\* is: only the key is looked up.
SessionStep(s, to) ==
  /\ session' = [session EXCEPT ![s] = to]
  /\ UNCHANGED <<vars, queue, ticking, hydrating, contested, torn>>

ConnectSession(s) == Listening /\ session[s] = Absent /\ SessionStep(s, LoggingIn)
DropSession(s)    == Listening /\ session[s] # Absent /\ SessionStep(s, Absent)
Enter(s, k) ==
  /\ Listening /\ session[s] = LoggingIn
  /\ k \in Puppets /\ Resident(k)
  /\ SessionStep(s, byKey[k])

\* "new" at the roster, DbBackend::create_puppet: the rows in one transaction,
\* then hydrate; the row outlives a hydrate that fails, mapped or not.
NewPuppet(s) ==
  /\ Listening /\ session[s] = LoggingIn
  /\ CreatePuppet
  /\ hydrating' = NewKey
  /\ UNCHANGED <<session, queue, ticking, contested, torn>>
HydratePuppet ==
  /\ up /\ hydrating # NoKey
  /\ Hydrate(hydrating) \/ UNCHANGED vars
  /\ hydrating' = NoKey
  /\ UNCHANGED <<session, queue, ticking, contested, torn>>

-----------------------------------------------------------------------------
\* RegistryResolver::resolve: a session in the world whose puppet is somewhere.
Caller(s)      == session[s]
ResolvedAt(s)  == IF session[s] \in Nobody THEN NoPlace ELSE LocationOf(Caller(s))
CanCommand(s)  == Listening /\ ResolvedAt(s) # NoPlace

Clear(i)       == [kind |-> "ClearLocation", entity |-> i]
Move(e, p)     == [kind |-> "MoveTo", entity |-> e, place |-> p]
Put(c, i)      == [kind |-> "InventoryAdd", container |-> c, item |-> i]
Take(c, i)     == [kind |-> "InventoryRemove", container |-> c, item |-> i]

\* handle_input submits the effects of a reply in order.
Submit(effs) ==
  /\ Len(queue) + Len(effs) <= MaxQueue
  /\ queue' = queue \o effs
  /\ UNCHANGED <<vars, session, ticking, hydrating, torn>>

\* resolve_among: the argument names one of the candidates, or "all" of those
\* with a common prefix, which the command takes in the order they come in.
Chosen(candidates) == UNION {Seqs!SetToSeqs(S) : S \in SUBSET candidates \ {{}}}

\* A reply is folded over the chosen items, two effects for each in its turn.
TwoEach(is)    == 1 .. 2 * Len(is)
First(n)       == n % 2 = 1
Turn(n)        == (n + 1) \div 2

\* get: items on the floor; lift each, then hold it.
Floor(s) == {h \in occupants[ResolvedAt(s)] \ {Caller(s)} : IsItem(h)}
TakeEffectsSwapped(c, is) ==                    \* mutant: into the item
  [n \in TwoEach(is) |-> IF First(n) THEN Clear(is[Turn(n)]) ELSE Put(is[Turn(n)], c)]
TakeEffects(c, is) ==
  [n \in TwoEach(is) |-> IF First(n) THEN Clear(is[Turn(n)]) ELSE Put(c, is[Turn(n)])]
AlreadyTaken(c, is) ==
  {byId[i] : i \in {j \in is : \E n \in 1 .. Len(queue) :
                      /\ queue[n].kind = "InventoryAdd"
                      /\ queue[n].item = j /\ queue[n].container # c}}
Get(s) ==
  /\ CanCommand(s)
  /\ \E is \in Chosen(Floor(s)) :
       /\ Submit(TakeEffects(Caller(s), is))
       /\ contested' = contested \union AlreadyTaken(Caller(s), Seqs!ToSet(is))

\* drop: carried items; release each, then place it here.
DropEffectsKeeping(c, is, p) ==                 \* mutant: still carried
  [n \in DOMAIN is |-> Move(is[n], p)]
DropEffects(c, is, p) ==
  [n \in TwoEach(is) |-> IF First(n) THEN Take(c, is[Turn(n)]) ELSE Move(is[Turn(n)], p)]
Drop(s) ==
  /\ CanCommand(s)
  /\ \E is \in Chosen(InventoryOf(Caller(s))) :
       Submit(DropEffects(Caller(s), is, ResolvedAt(s)))
  /\ UNCHANGED contested

\* A direction: announced in both rooms now, applied at the tick.
Walk(s, to) ==
  /\ CanCommand(s)
  /\ placeMap[to] \in Exits[placeMap[ResolvedAt(s)]]
  /\ Submit(<<Move(Caller(s), to)>>)
  /\ UNCHANGED contested

-----------------------------------------------------------------------------
\* tick: drain the queue in arrival order, applying each effect to memory and
\* to the database; then the loop listens again.
StartTick ==
  /\ Listening /\ queue # <<>>
  /\ ticking' = TRUE
  /\ UNCHANGED <<vars, session, queue, hydrating, contested, torn>>
ApplyNext ==
  /\ ticking /\ queue # <<>>
  /\ ApplyGuarded(NoGuard, Head(queue))
  /\ queue' = IF up' THEN Tail(queue) ELSE <<>>
  /\ ticking' = (queue' # <<>>)
  /\ session' = IF up' THEN session ELSE [s \in Sids |-> Absent]
  /\ UNCHANGED <<hydrating, contested, torn>>

\* The process dies with its sessions and its queue, and may die between two
\* effects of a tick: of those, the second effect on an item is now lost.
SecondHalf(eff) ==
  CASE eff.kind = "InventoryAdd"                          -> {byId[eff.item]}
    [] eff.kind = "MoveTo" /\ byId[eff.entity] \in Items  -> {byId[eff.entity]}
    [] OTHER                                              -> {}
DieKeepingSessions ==                    \* mutant: the bindings outlive it
  /\ Crash /\ UNCHANGED <<session, contested, torn>>
  /\ queue' = <<>> /\ ticking' = FALSE /\ hydrating' = NoKey
Die ==
  /\ Crash
  /\ session' = [s \in Sids |-> Absent] /\ queue' = <<>> /\ ticking' = FALSE
  /\ hydrating' = NoKey
  /\ torn' = torn \union (IF ticking THEN SecondHalf(Head(queue)) ELSE {})
  /\ UNCHANGED contested
Boot(m) == Load(m) /\ UNCHANGED loopVars

-----------------------------------------------------------------------------
\* A provisioned database before the first boot: every entity in StartRoom.
LoopInit ==
  /\ WorldInit
  /\ rows = 1 .. Provisioned /\ nextKey = Provisioned + 1
  /\ dbPlace = [k \in Keys |-> IF k \in rows THEN StartRoom ELSE NoSlug]
  /\ dbHolder = [k \in Keys |-> NoKey]
  /\ byKey = [k \in Keys |-> NoId]
  /\ byId = [h \in EntityId |-> NoKey]
  /\ placeMap = [p \in Places |-> NoSlug]
  /\ up = FALSE /\ unplaced = {} /\ masked = {} /\ kept = {}
  /\ contested = {} /\ torn = {}
  /\ session = [s \in Sids |-> Absent] /\ queue = <<>> /\ ticking = FALSE
  /\ hydrating = NoKey

LoopNext ==
  \/ \E s \in Sids :
       \/ ConnectSession(s) \/ DropSession(s) \/ \E k \in Puppets : Enter(s, k)
       \/ NewPuppet(s)
       \/ Get(s) \/ Drop(s) \/ \E to \in Places : Walk(s, to)
  \/ HydratePuppet
  \/ StartTick \/ ApplyNext \/ Die
  \/ \E m \in PlaceMaps : Boot(m)

LoopSpec == LoopInit /\ [][LoopNext]_allVars

-----------------------------------------------------------------------------
\* Sessions, queue and flags stay in their ranges; no session, effect or
\* creation outlives the process, and a creation is of a new puppet's row.
LoopTypeOK ==
  /\ session \in [Sids -> Nobody \union EntityId]
  /\ Len(queue) <= MaxQueue /\ \A n \in 1 .. Len(queue) : queue[n] \in Effect
  /\ ticking \in BOOLEAN /\ (ticking => queue # <<>>)
  /\ hydrating \in Puppets \union {NoKey}
  /\ hydrating # NoKey => Settled /\ hydrating \in rows /\ ~Resident(hydrating)
  /\ contested \subseteq Items /\ torn \subseteq Items
  /\ ~up => queue = <<>> /\ \A s \in Sids : session[s] = Absent

\* A session in the world is bound to a live puppet, and its commands are
\* dropped as those of an unknown session (resolver.rs:38) exactly if it entered
\* with a puppet that its creation left mapped and without a place
\* (persistent_world.rs:304, backend.rs:102).
InWorldResolves ==
  \A s \in Sids : session[s] \notin Nobody =>
    /\ Resolves(session[s]) /\ byId[session[s]] \in Puppets
    /\ ResolvedAt(s) = NoPlace <=> byId[session[s]] \in unplaced

\* Nothing that waits for a tick moves such a puppet: it is stranded until the
\* process ends, though its row has had a room all along.
Stranded ==
  \A n \in 1 .. Len(queue) :
    queue[n].kind = "MoveTo" => byId[queue[n].entity] \notin unplaced

\* The three together: nothing outlives the process, what lives in it resolves
\* but for the puppets a failed creation left, and these stay where they are.
LoopInv == LoopTypeOK /\ InWorldResolves /\ Stranded

\* Between ticks every item is in a room or carried, in memory and in the
\* database, unless a crash caught it between its two effects, and never both,
\* unless two players were taking it at one time: what each pair of effects
\* adds up to, however the pairs of two sessions interleave.
Carried(h) == \E c \in LiveHandles : Contains(c, h)
InRoom(h)  == location[h.slot] # NoPlace
ItemsSomewhere ==
  \A i \in Items \ torn :
    /\ ~ticking => dbPlace[i] # NoSlug \/ dbHolder[i] # NoKey
    /\ Settled => InRoom(byKey[i]) \/ Carried(byKey[i])
    /\ Settled /\ i \notin contested => ~(InRoom(byKey[i]) /\ Carried(byKey[i]))

\* Between ticks memory and database agree on who carries an item, and what is
\* carried lies in no room of the database, unless two players were taking it at
\* one time or a crash caught it between its two effects.
CarriedIsDurable ==
  Settled => \A i \in Items \ (contested \union torn) :
    /\ \A c \in Puppets : Holds(c, i) <=> dbHolder[i] = c
    /\ dbHolder[i] # NoKey <=> dbPlace[i] = NoSlug

=============================================================================
