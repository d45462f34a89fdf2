# A formal model of ferrodun

TLA+ modules, TLC configurations and TLAPS proofs for ferrodun, the MUD server
in `crates/`. One `mudd` process serves several tenants; every tenant has a
telnet gateway, a World task, an in-memory world and a SQLite database of its
own, and shares nothing with the others. The modules model one tenant, from the
bytes of a client to the rows of the database and from a builder's files to the
cells of a client's screen; the `mudd tenant` commands that register tenants; and
the boot of all of them.

Paths below are relative to `crates/`; `SPEC.md` is the repository's
specification. `PROJECT.json` maps every definition to the lines it models.

## 1. The system

```
 client == bytes ==> TelnetMachine -> RateLimiter -> connection task
                      (mud-net)        (mud-net)        |      ^
                                              ToRouter  |      | ToConnection
                                              (256)     v      | (64, try_send)
                                                       router task      mud-gateway
                                                        |      ^
                                           GatewayFrame |      | WorldFrame
                                              (256)     v      | (256)
                                                       World task       mudd
                                  SessionService <------+------> commands
                                  (login machines)              (mud-cmd, mud-engine)
                                        |                          | effects
                                  LoginBackend                 Scheduler, ticked
                                        |                          |
                                 accounts, puppets  ------  PersistentWorld ---- SQLite
                                                       (arena + side tables)
```

| Component | State | Operations | What makes it hard | What makes it correct |
|---|---|---|---|---|
| entity arena (`mud-core/src/entity`) | slots, free list, next slot | alloc, free, resolve | stale and foreign handles, generations that run out | a handle denotes one entity for ever; nothing is given out twice |
| live world (`mud-core/src/world.rs`, `side_tables`) | arena, location, occupants, inventories, keywords | spawn, teardown, set/clear location, inventory add/remove, effects | side tables are indexed by slot and know nothing of liveness | the tables agree with the arena and with each other |
| scheduler (`mud-core/src/scheduler.rs`) | queue of commands | submit, tick | preconditions against a world that moved on | each command is applied whole or skipped |
| persistent world (`mud-db`) | world, two key maps, rows | load, hydrate, create, effects, destroy, tick | memory first, then the database; crash and fault between | what was durable is what a boot rebuilds |
| accounts (`mud-db`, `mud-account`) | accounts and puppets tables | authenticate, register, create puppet, list | several sessions of one account | names, ownership, states that may not log in |
| login machine (`mud-session`) | a state per session | line in, effect result in | every effect may fail; lists read earlier are used later | a session gets only what its password gives it; it always comes to rest |
| session service (`mud-engine/src/session`) | the map of sessions | connect, input, disconnect, drive | output blocks and echo changes in order | a secret is never prompted for unmasked |
| World loop (`mudd/src/world_loop.rs`) | sessions, roster, queue | select over frames and ticks | commands are resolved before the effects of earlier ones | an item is somewhere, once |
| commands (`mud-engine/src/builtins`) | none | get, drop, move, look, say, ... | one command is several effects | as above |
| gateway (`mud-gateway`) | connection tasks, registry, four bounded channels | register, route, forward, hang up, shut down | full channels, hangups racing closes | the World learns of every session once, and every closed session ends |
| telnet (`mud-net/src/telnet`) | parser, line, 256 option states | decode, negotiate, mask | arbitrary input, crossing negotiations | what a conforming client means is what arrives; both ends agree |
| rate limiter (`mud-net/src/ratelimit.rs`) | bucket level, last reading | check | a clock that goes back, the edge of the burst | no more than rate and burst, and nothing less |
| command sets (`mud-cmd`, `mud-engine/src/layers.rs`) | none (a pure merge) | merge, lookup, parse | names, aliases and prefixes that collide across layers | a lower layer never changes what a word means |
| tenant catalogue (`mudd/src/catalog.rs`, `tenant.rs`, `scaffold.rs`) | `catalog.toml`, folders | add, remove, purge | separate processes, kills, torn writes | a reported tenant stays, with a folder that boots |
| IPC handshake (`mud-ipc/src/handshake.rs`) | version and world id of each end | announce, accept, acknowledge | either end may be gone or another at every step | the ends meet, or both stop |
| pipeline (`mud-engine/src/pipeline.rs`, `dispatch.rs`, `presence.rs`, `mudd/src/world_loop.rs`) | the next command id; the moves that wait | resolve, parse, lock, handle, fan out, tick | one reply is for many; two sessions of a puppet; moves announced before they happen | the right command, for those who may, heard by those in sight |
| locks (`mud-core/src/locks`) | none | parse, resolve, evaluate | precedence, chains, parentheses | a lock lets through whom its text says |
| world loading (`mud-world`, `mud-core/src/place`, `region.rs`) | files; rooms, regions and palette, immutable once loaded | scan, bind, validate | one mistake of many in many files; ids given by file order | what is loaded is what was written, or an error that is true |
| boot (`mudd/src/boot.rs`, `config.rs`, `main.rs`) | the tenants served | settings, load each tenant, listen, serve | one tenant of several fails; folders edited between boots | all tenants or none; a puppet stays in its room |
| rendering (`mud-core/src/text`, `mud-net/src/render.rs`) | none | compile markup, render for a tier, encode | unbalanced tags, doubled braces, escapes on a poor terminal | nothing of a text is lost, and no style leaks |
| messages (`mud-i18n`, `mud-engine/src/text.rs`, `look.rs`) | none | look up, interpolate, sanitize, lay out a room | a player's text inside a template | what was said is what is heard |
| frame codec (`mud-schema`) | none | encode, decode | | see section 7 |

Within a tenant the World is one task: it handles one frame or one tick at a
time, and that is why the World-side modules have no finer interleaving. The
interleavings that matter are between sessions' commands and ticks
(`WorldLoop`, `Pipeline`), between a builder's edits and boots (`Boot`), between
tasks (`Gateway`), between the two ends of a wire (`Negotiation`), between
processes (`TenantCatalog`), and between any step and a crash.

## 2. Modules

| Module | Role | Composed from |
|---|---|---|
| `HandleAllocator` | abstract: handles are given out once and end once | |
| `EntityArena` | the arena, implements `HandleAllocator` | INSTANCE `HandleAllocator` |
| `World` | arena and side tables | EXTENDS `EntityArena` |
| `DurableWorld` | abstract: entities by key, across crashes | |
| `PersistentWorld` | world, key maps and database, implements `DurableWorld` | EXTENDS `World`, INSTANCE `DurableWorld` |
| `WorldLoop`, `MCWorldLoop` | sessions, commands, queue and ticks | EXTENDS `PersistentWorld` |
| `Login` | login machines, driver, accounts store | |
| `Gateway` | connection tasks, router, channels, World at the far end | |
| `Negotiation` | option states against a client, two FIFO streams | |
| `TelnetStream`, `MCTelnetStream` | IAC parser and line decoder, byte by byte | |
| `RateLimiter` | the leaky bucket and a clock | |
| `CmdSet` | merge, token ownership, lookup | |
| `Locks` | lock parser, resolver, evaluator | |
| `Markup` | styles, palettes, the markup compiler | |
| `Rendering` | tiers, the ANSI form, telnet encoding, a terminal | EXTENDS `Markup` |
| `WorldFiles` | KDL files to rooms, regions, palette and banner | EXTENDS `Rendering` |
| `Messages` | message catalogue, interpolation, sanitizing, the view of a room | EXTENDS `WorldFiles` |
| `Boot`, `MCBoot` | `mudd serve` over the folders of all tenants | EXTENDS `Messages` |
| `Pipeline`, `MCPipeline` | a line from the caller to whoever hears of it | EXTENDS `CmdSet`, `Locks`, `Messages` |
| `TenantCatalog`, `MCTenantCatalog` | the catalogue commands as processes | |
| `PersistentWorldProofs` | theorems about `EntityArena`, `World` and `PersistentWorld` | EXTENDS `PersistentWorld` |
| `WorldLoopProofs` | theorems, resting on those | EXTENDS `WorldLoop`, `PersistentWorldProofs` |
| `RateLimiterProofs`, `GatewayProofs`, `LoginProofs`, `TenantCatalogProofs`, `NegotiationProofs`, `TelnetStreamProofs` | theorems | EXTENDS the module it is about |

An `MC` module only holds what a `.cfg` cannot express: sets of records or
sequences. In every module a definition whose comment says *mutant* or *with a
bug* is a mutated form of the definition next to it: the properties are tested
by putting it in that one's place. A variable called *history* is no state of
the code: it remembers something a property is conditional on.

### How state and actions correspond to the code

* **Arena.** `slots` is the `Vec<SlotState>` with every index not yet pushed
  `Vacant`; `len` its length; `free` the free list, last in first out.
  `Alloc` is `alloc` (`Reuse` or `Grow`), `FreeHandle` is `free`, which burns a
  slot whose generation is the last. `minted` is history. Handles of foreign
  tenants are arguments too.
* **World.** `location`, `occupants` and `contents` are the side tables, by slot
  where the code indexes by slot. Every operation takes any handle, live, stale
  or foreign, and follows the code's resolve and early return. `Teardown`
  clears the entity's own rows; the entries *of* it in other containers stay,
  as the code says they do.
* **PersistentWorld.** `rows`, `dbPlace` and `dbHolder` are the entities,
  location and inventory tables by key, `nextKey` the AUTOINCREMENT sequence;
  `byKey` and `byId` are separate variables, as they can disagree; `placeMap`
  gives the rooms of this boot their `PlaceId`s. Writing through is one action
  with the memory change: the World task awaits the query before it does anything
  else, and a failed one stops it, which is `Crash`. `CreatePuppet` adds a row
  without an entity, as `create_puppet` does, and `Hydrate` makes it resident.
  `Holds` is what a reader of memory is told: both entities resident, and the very
  handle in the container's list. Three histories remember where memory and rows part:
  `unplaced`, the keys whose location query failed; `masked`, the rows of an add that
  a stale entry of the slot swallowed; `kept`, the entries memory keeps of an item the
  rows have since given to another container.
* **WorldLoop.** `NewPuppet` and `HydratePuppet` are `create_puppet` at play: the
  rows, then the residency, which may fail with the key mapped or not; the loop
  awaits it (`hydrating`) and takes nothing else meanwhile. A session enters with
  any resident puppet, placed or not, as the code looks up the key alone. A command
  is resolved and its effects queued in one action, against the world as it is; a
  tick applies the queue effect by effect, and the process may die between two of
  them. `contested` and `torn` remember the items two players reached for at one
  time, and those a crash caught between the two effects of a command.
* **Login.** `state` is `SessionFsm`'s state; `driving` and `effect` are the
  driver's loop, one action per effect, with every result the backend may give.
  `outputs` records each block with the echo mode the client has when it arrives.
* **Handshake.** Part of `Gateway`: `gate` and `loop` are how far `serve` and `run`
  are, `hello` what the gateway is of. A listener that fails leaves the router
  "deaf": it goes on until its last connection ends, and its end is what the World
  sees as a closed peer. `mudd` exits at the first tenant task that ends
  (`mudd/src/main.rs:97`); the model lets the others go on as far as they might get
  before the runtime drops them, and shows that they end by themselves.
* **Gateway.** `phase` is the point of the connection task's `async` code
  between two awaits; the channels are sequences with the code's capacities as
  constants. An awaited `send` to a full channel blocks its task; `try_send`
  to a full one drops.
* **Negotiation.** `server` is the Q-method state of each option, `client` the
  other end's, `toClient` and `toServer` the two directions of the stream. The
  client answers as RFC 1143 asks and changes its mind `MaxWhims` times.
* **TelnetStream.** One action per byte; bytes are classes (text, IAC, verbs,
  CR, LF, NUL). A client that speaks telnet puts out a few bytes at a time: one of a
  line (`typed`) or of a subnegotiation (`subneg`), doubled if it is an IAC, or a
  command. `meant` is what it meant by what it has sent and `got` what
  the machine made of it; a `garbage` client means nothing and sends control bytes
  in any order.
* **RateLimiter.** Exact arithmetic: time in ticks, a command costs `Unit`
  ticks. The code uses `f64` seconds; rounding is left out (section 7).
* **CmdSet.** `sets` grows by one set per step; the table is a function of it.
  A token is a sequence of letters, and the trie the function from tokens to
  owners with the prefix relation.
* **Pipeline.** A line is a first word, its switches and the rest. `Type` is
  `handle_input` to its end: the id, the merge, the parse, the lock, the handler,
  the outputs in order (`last`), and the moves submitted (`queue`). The roster is
  chosen anew at each step: `session_of` iterates a hash map, so with two sessions of
  a puppet either may be found. A message is its phrases and its arguments; `Wire`
  and `Write` are the author of layers and of a lock, at work before play.
* **Locks.** A text is a sequence of tokens; the recursive descent is the code's,
  function by function. Its reference, `Reads`, does not descend: it splits a text
  at the operators outside every parenthesis.
* **Files, markup and screens.** A folder is a function from paths to documents of
  KDL nodes (`node`, `args`, `props`, `children`), or one that does not parse. A
  text is a sequence of characters, a colour its hex digits. A screen is a sequence
  of style changes and characters, and `Shown` how a terminal reads one back: it is
  the external reader `SeenAsMeant` compares with what an author wrote (`RoomCells`,
  an automaton over the text).
* **Boot.** `folder` and `saved` are what is durable; `Serve`, `BootTenant`, `Refuse`
  and `Listen` are one process, `Stop` ends it anywhere, and `Edit` is a builder. One
  turn of the loop of `boot` is one action: the steps in it write nothing but the
  lock of a port and the tenant's tasks, and all go with the process.
* **TenantCatalog.** A command is a process with its own copy of the catalogue;
  every file operation is an action. `fs::write` is a truncation and a write,
  and a write over a longer file another process wrote meanwhile leaves its
  tail. `overlapped` and `torn` remember that two commands ran at once, and that a
  write was cut short.

## 3. Runs

Distinct states are for the bounds in the `.cfg`.

| Run | States | What it shows |
|---|---|---|
| `World` | 3 728 | under any sequence of operations with own, stale and foreign handles the side tables agree with the arena and each other; stale handles stay stale, a free ends only its handle, the arena implements the abstract allocator |
| `PersistentWorld` | 78 116 | key maps, memory and rows agree after every step, each item by its own handle and both ways round, and what a half-failed `hydrate` or a swallowed add leaves is just that; every reload rebuilds what was durable; `DurableWorld` is implemented |
| `WorldLoop` | 2 324 828 | two players, one of them made at play, one item, crashes between any two effects: an in-world session fails to resolve exactly if the creation of its puppet failed half way; an item is never nowhere, nor in a room and carried, and what is carried is carried on disk, but for the items named below |
| `Login` | 282 928 | nobody becomes anyone without the password, or plays another account's puppet; secrets are masked; a session that waits is being driven; (fairness) every line comes to rest |
| `Gateway` | 179 648 | a session the World addresses is known; none is orphaned or gets stray input; (fairness) the handshake ends with both ends at work or both gone, hangups are forgotten unless router and World wait on each other, and the end of either side is the end of all |
| `Negotiation` | 264 369 | both ends agree when nothing is in flight, the client has its echo back after the last secret, and (fairness) they stop talking |
| `TelnetStream` | 1 665 033 | a conforming client's lines, verbs and subnegotiations arrive as meant, at and past both limits; control bytes in any order keep the limits and can always be resynchronised |
| `RateLimiter` | 1 266 | no window lets in more than burst and rate; only excess is dropped |
| `Boot` | 124 964 | what is served is what was written, whatever the mistake; a refusal has its reason and leaves nothing behind; puppets stay in their rooms over edits and boots; a screen of any tier shows what the author meant |
| `Pipeline` | 268 968 | the loops of the merge meet the documented rules, and a word runs what answers to it and means what the nearest layer says; a lock lets through whom its text reads for; a line is heard as said, but for a tight `{$message}` in it, by those in sight; announced moves come true |
| `TenantCatalog` | 2 316 154 | two commands at once never save a catalogue that would not load; commands that do not overlap keep what an `add` reported, and a folder with its `config.toml` |

### Disagreements between the code and what it says

One has a run whose one property states the claim; TLC's counterexample is the
shortest way to it, and `PROJECT.json` quotes the lines. `Negotiation_SecretMasked`:
a stale `DONT` is taken as the answer to a newer offer, and a willing client echoes
a password.

The rest came up while modelling, and are the reason for a condition in a
property or for a bound:

* Two players who get one item between two ticks both hold it, and drop it in two
  rooms (`mudd/src/world_loop.rs:182`, `mud-core/src/side_tables/inventory.rs:8-10`,
  `SPEC.md:850-853`): `contested` in `CarriedIsDurable`, and in the "never both" of
  `ItemsSomewhere`.
* A crash between the two effects of a `get` or `drop` leaves the item nowhere for
  good (`mud-engine/src/builtins/items.rs:104`; `SPEC.md:846-856` asks for one
  `MutationCommand`): `torn` in `ItemsSomewhere` and `CarriedIsDurable`.
* `hydrate` maps its key before a query that may fail, and the retry returns an
  entity without its location (`mud-db/src/sqlite/persistent_world.rs:304`):
  `unplaced` in `ResidentWhereDurable`, and `HydratedHalf` says what it leaves: the
  row has a place, memory none. Met at play, it strands a player: the row of a new
  puppet stays when its `hydrate` fails (`mudd/src/backend.rs:102`), the next choice of that
  puppet enters the world, and every command of the session is dropped as of an
  unknown one (`mud-engine/src/session/resolver.rs:38`) until the process ends.
  `InWorldResolves` says that this, and nothing else, keeps a session from resolving,
  and `Stranded` that nothing queued brings it back.
* The container entry of a torn-down item masks the next item of its slot: adding
  that one reports success, writes the row and adds nothing to memory
  (`mud-core/src/side_tables/inventory.rs:45`): `masked` in `HoldingsMatch`, the
  other part of `MemoryMatchesRows`. An item added to a second container leaves the
  first in the rows and not in memory: `kept`. And `inventory_remove` takes out the
  live item of a slot for a stale handle of it (`world.rs:133`).
* An `InventoryRemove` of a torn-down item is accepted by the arena and has no key,
  so it stops the World as a database failure does: the third branch of
  `ApplyGuarded` (`mud-db/src/sqlite/persistent_world.rs:174` reserves `DbError`
  for those).
* Of two moves queued within one tick the second is announced where the puppet was
  before the first, so the audiences of `movement.rs:42-44` are not exact then;
  `ArrivesWhereHeard` says what does hold: once the queue is drained the puppet is where
  its last arrival was announced.
* Two sessions may be in the world with one puppet (`SPEC.md:1979`), and then any one of
  them hears what the puppet hears (`mud-engine/src/session/resolver.rs:56`): a choice
  in `Pipeline`. Two puppets may share a name (`SPEC.md:1963`). Nothing in the code
  forbids either and no property claims it.
* `translate` fills one argument after another and scans what the last one filled in
  (`mud-i18n/src/translate.rs:72`), and of one argument the spaced form and then the tight
  one over the result (`:78-79`): `say x{$message}` is heard as `xx{$message}`.
  `HeardAsSaid` states it through `ReadBack`: each tight placeholder in a message reads
  as the whole message once more, and anything else, a placeholder of the name or the spaced
  form included, is heard as it was typed. A name spells no placeholder and the message
  is filled in last, so no more can happen; a mutant swaps the two.
* A builder who removes the room a puppet was saved in keeps that tenant, and every
  other, from booting (`mud-db/src/sqlite/persistent_world.rs:136`); and the tenants
  booted first already serve while later ones load, and go when one of those is refused
  (`mudd/src/boot.rs:39`).
* A full output buffer drops a `Close` as it drops output
  (`mud-gateway/src/router.rs:113`): no property says that a session the World
  closes loses its connection.
* Router and World wait on each other for ever once both IPC channels are full and
  each holds one frame more (`mud-gateway/src/router.rs:91`,
  `mudd/src/world_loop.rs:158` and its other sends; the comment at
  `mud-ipc/src/transport.rs:35` calls the capacity "backpressure, not a correctness
  bound"): `MutualWait`, the one exception of `HangupForgotten`. The run reaches it;
  without `\/ MutualWait` TLC shows the way there.
* An outer container takes a word the inner one answers to by alias, and the name
  of a `Replace` winner may run another command, whose alias has a higher priority
  (`mud-cmd/src/cmdset.rs:214`): `LocalFirst` is about lower priorities and
  `Union`. Containers contribute no commands yet (`mud-engine/src/layers.rs:13-15`)
  and no set is authored as `Replace`, so both wait for their first user.
* Two `mudd tenant` commands at once lose a tenant one of them reported, as each
  saves the copy it loaded (`mudd/src/tenant.rs:79`): `overlapped`. A purge killed
  half way leaves a folder with a `config.toml` and no world, which the next `add`
  registers (`mudd/src/tenant.rs:81`): `RegisteredHasConfig` claims no more.

## 4. Bounds

Every unbounded quantity of the code has a named constant.

* `MaxSlots`, `MaxGen`: two or three slots with two or three generations let a
  slot be reused, handled by a stale and by a foreign handle, and burned, and
  let the space run out. `WorldLoop` uses one generation: nothing in the loop
  tears an entity down.
* `Provisioned`, `Puppets`: a puppet and an item from the first boot, and a third key
  that is a puppet's if one is made at play, so that its creation can fail in each way.
* `MaxKey`: three keys; a key is created, destroyed and not reused while another
  lives. Two rooms suffice to be in the wrong one, and two boots give the same
  slug different `PlaceId`s.
* `MaxQueue` bounds the effects waiting for a tick: five hold a `get` of two
  effects from each of two players and a move, so every pair of commands meets
  in one queue.
* `MaxLines`: two clients type two lines between them; capacity 1 on every channel
  makes each of them fill, those to and from the World at one time too. The real
  capacities are 64 and 256.
* `MaxWhims`, `MaxSecrets`: two changes of the client's mind across four options, and
  four echo changes of the World, cross in every order on the two streams.
* `MaxLine`, `MaxSubneg`, `MaxEvents`: limits of two to four bytes; inputs reach,
  meet and pass them, and an escaped IAC falls on them. A client that
  sends garbage sends without end, from `Noise`.
* `MaxTime` caps the clock's readings; nine ticks are three times what drains a
  command. It is only a bound for TLC: the theorems hold for any value of it.
* `MaxSets`, `Bundles`: three sets over names that share tokens, at two
  levels: below, level and above, and one set between two others.
* `MaxPieces`, `Pieces`: locks of up to five pieces, each a call, an operator or a
  parenthesis, well formed or not: enough for both precedences, chains of three, and a
  parenthesis that changes a reading. `LockSamples` are the locks play goes on under.
* `MaxLayers`, `MaxId`, `MaxContent`, and `MaxQueue` of `Pipeline`: one layer above the
  built-ins, three command ids and then none, a cap on speech that one line passes,
  and two moves that wait for one tick. `Lines` has a line per outcome of the parser,
  and for `say` one per escape form and edge of the cap, and the placeholders tight, spaced,
  beside other text, twice, and made by an escape that is taken out.
* `Versions`, `WorldIds`: two of each, so that both, one or none agree.
* `Starts`, `EditedFolders`: each kind of mistake `mud-world` and `mudd` report, once,
  and good folders whose files change places; every description of up to four
  characters over braces, a tag and letters, and longer ones with nested tags.
  `MaxEdits`: two, so that a second one undoes or worsens the first between two boots.
  `Names`: two tenants, to fail at the first or at the second.
* `MaxTag`, `MaxPort`: two tags and three ports for two names; that a full range
  refuses an `add` is a guard of `CanAdd` these bounds do not reach. `HandEdits` are
  the catalogues an operator wrote: one with a gap, one that does not load.
* `MaxPuppets`: two puppets, of one account or of two.

`CHECK_DEADLOCK FALSE` is set where the system really stops: in `Gateway` when
every task has ended, in `Negotiation` when both ends are quiet and out of whims,
in `Pipeline` when no set of the layers can be served or the ids have run out, in
`Boot` when there is nothing to serve, and in `TenantCatalog` when the file does not load.

## 5. Fairness

* `Gateway` (`FairSpec`): weak fairness of every task's own steps, tokio's promise
  that a ready task is polled, and of a client that reads what it is sent; of the
  steps of the handshake and of the World's notice of a closed peer, `recv`
  returning. Nothing is assumed of what clients type or when they hang up.
* `Login` (`FairSpec`): weak fairness of `Perform`, the driver's next effect: the
  World task awaits it, and the backend answers or fails.
* `Negotiation`: weak fairness of each end's reading, TCP's and the two loops'.
* The other modules state only safety and assume nothing.

## 6. Proofs

TLAPS checks these for every value of the constants that satisfies the module's
named assumption.

* `PersistentWorldProofs`, the arena, from `ArenaAssumption`. `ArenaInv` strengthens
  the free list's exactness (`FreeListExact`) with `VecEnd` (the slots past the end
  of the `Vec` are those never used) and `NeverAhead` (a handle given out is never
  ahead of its slot's generation). The last one is what makes reuse safe: a new
  handle's generation is above that of every handle the slot ever had. From it
  follow `ArenaStaleForever`, `ArenaFreeExact` and, step by step, that the arena
  implements `HandleAllocator` (`ArenaImplementsAllocator`).
* `PersistentWorldProofs`, the aggregate, from `WorldAssumption` too. `WorldInv` is
  `ArenaInv` with the four invariants of `World`. They need each other: that the
  occupants of a place are exact (`WorldOccupants`) holds over a teardown only
  because a slot that is not live is clean (`WorldDeadSlots`), and a spawn only
  finds a clean slot because the arena gives out no live one. `WorldTablesExact` is
  their conjunction as the run checks it, `WorldExact`.
* `PersistentWorldProofs`, the write-through world, from `PersistAssumption` too.
  `DurableInv` joins `WorldInv` with the ranges of rows and maps, the exactness of
  the key maps (`KeysMatchLive`), the agreement of memory with rows
  (`HoldingsMatch`, `ResidentWhereDurable`, `HydratedHalf`), what the histories may
  hold (`ApartOK`) and `DownEmpty`: a stopped process has nothing in memory. The
  last is needed because a boot starts from that memory. The boot is the hard step:
  `load` puts row number r, in key order, in slot r, and the lemmas `RankRange`,
  `RankRises` and `RankBijective` show that ranks number the rows without gap or
  clash. Each effect has a lemma of its own and `PersistDurable` joins them.
  `HoldingsMatch` is an equivalence over handles, so a step that moves no list and
  no row still has to keep it: `SameHoldings` says when it does, `FreshHoldsNothing`
  that a handle given out just now is in no list, which the generations give.
  `PersistentImplementsDurable` is the refinement of `DurableWorld` under `Placed`,
  every step a step or a stutter, crashes and failed commits included;
  `PersistentLoad` is the action property `LoadRebuilds`.
* `WorldLoopProofs`, from `LoopAssumption` and those above. A `get` and a `drop` are
  two effects each, and between them the item is nowhere, so neither
  `ItemsSomewhere` nor `CarriedIsDurable` is inductive. `LoopProofInv` says what may
  wait in the queue: the two effects of a command stand next to each other
  (`Paired`), and only the tick comes between; of an item nobody contested, all that
  waits lifts it, for one puppet, or all of it lets go (`OneMind`), and the database
  has not given it to anyone else meanwhile (`StillHis`). `Exact` says how the first
  effect left the item the second is to complete; with `HoldingsMatch` it gives the
  "never both" of `ItemsSomewhere`. A puppet made at play has a key and a handle no
  session, effect or row knows, so `Steady` holds over its two steps; `Stranded`
  holds because whoever submits a move is somewhere, or moves what it carries, and a
  stranded puppet is neither. `SubmitStep` is the shape of every command,
  `QueueShrinks` and `ApplyStep` of every effect a tick applies. The result holds
  for any sessions, items and rooms, any puppets made at play, any length of the
  queue, `get all` and `drop all` of any number of items, and a crash between any
  two effects.
* `RateLimiterProofs`, from `LimiterAssumption`. `LimiterInv` relates the level to
  two ghosts, one for a window chosen anywhere and one for a spell without an empty
  bucket: what a window admitted is still in the bucket or had time to drain, and
  the level is what was poured less what drained. `LimiterBounds` and `LimiterFair`
  are its two consequences, the bound and that nothing else is dropped; `LimiterBoth`
  is the bound with the type invariant, as the run checks it.
* `GatewayProofs`, from `GatewayAssumption` and `NoFrameAssumption`: capacities are
  positive, and neither "no connection" nor "no frame" is one. Connections may be
  any set. `GatewayProofInv` says, for each phase of a connection's task, where its
  `Register`, `Connect`, lines and `Disconnect` may be in the three queues it writes
  to, that none overtakes the other (`Before`), and that each of those that may not
  repeat is there once (`Once`); its first part is that the handshake is over before
  any of them moves (`Handshake`). `QueueAppend` and `QueueTail` carry these over a
  send and a receive.
* `LoginProofs`, from `LoginAssumption`: "no session" is none of the sessions, and there
  are finitely many user names, as they are of 1 to 32 characters; `Ids` numbers the
  accounts they can make. `Fits` relates a machine's state to the
  effect under way, the rows, and the credentials last given (`claim`, history): a state
  past the password has them proved, and while a result is awaited its effect is the one
  the state asked for. `OldestFirstSorted` shows that the list a player chooses a
  puppet from is in order whatever its length. Every answer of the backend is a step.
* `TenantCatalogProofs`, from `CatalogAssumption`: hand edits are sequences of entries
  and none is the malformed file. `Sits` says what the only running
  command has still to do at each of its stages; `InOrder` adds that a command that
  overlaps none finds file and folders fitting each other. What a command may
  save holds without it, however many overlap (`CatalogSound`). `LowestFree` shows
  that the port and tag an `add` picks exist and are free.
* `NegotiationProofs`, from `NegotiationAssumption`: the options in play are some of
  the five the server knows and one it does not, and the client is willing about any
  of them. Whims and passwords may be as many as they like, so any number of verbs
  may cross. That both ends agree at rest is far from inductive. `Fits` says of one
  option, with its two states and what is under way each way, that the last word an
  end has sent is of its state (`LastWords`), and that an end which is not where the
  other is will hear so (`Pending`). `Wanted` ties the server's echo to what the
  World asked for. `Sent` and `Received` say what one more and one fewer verb do to
  `Said`, `SaidThen` and `Outdone`, the three ways `Fits` speaks of a stream; each
  move of an end on its option is then a lemma about `Fits` alone (`ServerHearsYes`
  to `ClientAsks`), and `Rest` leaves the other options as they were.
* `TelnetStreamProofs`, from `StreamAssumption`: the limits are positive, text has no
  line end in it, payloads are sequences of bytes. `Understood` speaks of the moments
  with no byte under way. `StreamProofInv` says the same of every moment by reading
  on: the decoder, given the bytes still under way (`After`, never more than three),
  rests where the client is (`Rests`: it holds the line typed so far and is within the
  subnegotiation begun, or has noted that they overflowed) and has made of the
  stream what was meant. A byte that arrives changes neither side of that (`AfterFirst`,
  `AfterPrefixed`), so what is left is one lemma for each thing a client may put out:
  a byte of a line (`Escapes`, `Kept`), its end (`LineEnded`), a command (`Commanded`), and
  the start, a byte and the end of a subnegotiation (`SubOpens`, `SubEscapes`, `SubCloses`).
  `ReceiveTypes` is the limits, for a client that sends anything, and
  `SubnegotiationEnds` how the parser leaves any state on `IAC SE`, from which
  `StreamWithstands` follows.

Only model-checked:

* liveness (`MeetOrPart`, `ShutdownEnds`, `HangupForgotten`, `LinesEnd`,
  `NegotiationEnds`), since the prover handles neither fairness nor ENABLED in use;
* what reaches a recursive operator: everything above `Markup`, `Locks` and
  `Messages`, which is `Rendering`, `WorldFiles`, `Boot` and `Pipeline`. Their
  properties compare what a parser, a compiler or a loader makes of a text of any
  length with what the text reads as: an induction over that text;
* what a fold over a sequence of any length computes (the merge of `CmdSet`, on which
  `TableInv` and `LocalFirst` are stated), an induction again.

## 7. Not modelled

* **Live sessions of a handshake**: a gateway announces none and the World insists on
  it; the reconnect that would announce some is not written yet.
* **Frame codec**: serde's encoding serves a socket endpoint no program opens; the
  in-memory endpoint hands frames over as they are, and the four channels of `Gateway`
  are it.
* **Keywords** have no writer outside tests: `Keywords` and the external `IsItem`
  stand for the entities world building gives names to. `visible_places` has no caller.
* **Grammars of KDL, TOML and clap, and the logger**: a file parses or does not, and
  then is its nodes. Wording of errors and of output appears only as kinds.
* **The nearest of sixteen or 256 colours**: a colour of a tier is a function of the
  colour, and which one is left open.
* **`f64` in the rate limiter**: the model is exact. Rounding is below a
  microsecond's worth of work for the rates the configuration admits; what it can
  do at the very edge of the burst is not claimed.
* **Password hashing** is equality; the SQL behind a query is the rows it returns.

## 8. Plan

Done, in this order, the most important first: arena; world; persistence; the World
loop; login; gateway with its handshake; telnet; rate limiter; command sets; tenant
catalogue; world loading, markup and boot; locks, messages and the pipeline.

Every safety property of a run is proved but those of `Boot` and `Pipeline`
(section 6).

Next:

1. A composition of `Login` with `WorldLoop`: the creation of a puppet is in both, but
   the list a player chooses from, and the outcome shown to whoever asked for a puppet
   that was made and not hydrated, only in `Login`.
2. `Pipeline` split in two, the merge, the parse and the lock behind operators that
   a module without recursion declares as constants, so that its table of moves and
   audiences (`PipelineInv`) can be proved over any reading.
