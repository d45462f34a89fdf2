--------------------------------- MODULE Boot ---------------------------------
(***************************************************************************)
(* `mudd serve` (mudd main.rs, config.rs, boot.rs): one process at a time  *)
(* loads every registered tenant's folder and database, binds its address, *)
(* and serves until it stops.  A builder edits the folders at any time;    *)
(* what is durable of a tenant is its folder and the slug of the room its  *)
(* puppet is in, which one process saves and the next one looks up in the  *)
(* world it has loaded by then.                                            *)
(***************************************************************************)
EXTENDS Messages

CONSTANTS
  Names,         (* the tenants' names                                      *)
  Starts,        (* what there may be at first: [folder, catalog, taken,    *)
                 (* edits]; a catalogue is a sequence of [name, port, tag]  *)
                 (* with distinct names, ports and tags, as Catalog::load   *)
                 (* has it                                                  *)
  EditedFolders, (* EditedFolders[n]: what a builder may make of n's        *)
  Invocations,   (* the settings and flags of a serve: see Resolve          *)
  MaxEdits       (* bound: edits of folders                                 *)

VARIABLES
  folder,    (* each tenant's folder                                        *)
  saved,     (* the slug the database has for each tenant's puppet, or <<>> *)
  edits,     (* how often a folder was edited: a bound counts it            *)
  taken,     (* the ports that are another program's                        *)
  catalog,   (* catalog.toml                                                *)
  phase,     (* "down", "booting" or "serving"                              *)
  server,    (* ServerConfig of the process                                 *)
  stacks,    (* the tenants booted so far, in registry order                *)
  refused,   (* the tenant the last boot stopped at, with what it was then  *)
  view       (* the last room looked at: [stack, text]                      *)

disk    == <<folder, saved, edits, taken, catalog>>
process == <<phase, server, stacks, refused, view>>
vars    == <<disk, process>>

NoServer  == [rate |-> 0, tenants |-> <<>>]
NoRefusal == [tenant |-> "", folder |-> "", saved |-> <<>>, cause |-> "none"]
NoView    == [room |-> 0, tenant |-> "", text |-> <<>>]
DEFAULT_RATE == 10
DEFAULT_LISTEN == 4000

-----------------------------------------------------------------------------
(* Settings::resolve and serve_tenants.                                    *)

\* Built-in default, then config.toml, then the environment, then the flag;
\* 0 stands for a value that is not given.
Rate(inv) ==
  CASE inv.flag # 0 -> inv.flag [] inv.flag = 0 /\ inv.env # 0 -> inv.env
    [] inv.flag = 0 /\ inv.env = 0 /\ inv.toml # 0 -> inv.toml [] OTHER -> DEFAULT_RATE

\* The tenants' folders have a place when one is configured or a home is known.
Resolve(inv) ==
  IF inv.tenants_dir \/ inv.home THEN Ok([rate |-> Rate(inv)]) ELSE Err("NoHome")

Entry(name, listen, tag) == [name |-> name, listen |-> listen, tag |-> tag]

TenantsFromCatalog(c) ==
  IF c = <<>> THEN Err("NoTenants")
  ELSE Ok([i \in DOMAIN c |-> Entry(c[i].name, c[i].port, c[i].tag)])
ServeTenants(inv, c) ==
  IF inv.tenant_dir # "" THEN Ok(<<Entry(inv.tenant_dir, DEFAULT_LISTEN, 0)>>)
  ELSE TenantsFromCatalog(c)

-----------------------------------------------------------------------------
(* The process.                                                            *)

\* main.rs serve, up to boot.  A failure here exits: nothing has changed.
Serve(inv) ==
  LET tenants == ServeTenants(inv, catalog) IN
  /\ phase = "down"
  /\ Resolve(inv).ok /\ tenants.ok
  /\ phase' = "booting"
  /\ server' = [rate |-> Resolve(inv).val.rate, tenants |-> tenants.val]
  /\ refused' = NoRefusal
  /\ UNCHANGED <<disk, stacks, view>>

Booted  == Len(stacks)
Current == server.tenants[Booted + 1]

\* PersistentWorld::load: a saved slug names a loaded room.
Placeable(world, slug) == slug = <<>> \/ slug \in SlugsOf(world.rooms)

\* Where the puppet of a saved slug stands.  With a bug in the first: always in
\* the start room.
PlaceAtStart(world, slug) == IF slug = <<>> THEN 0 ELSE world.start
PlaceOf(world, slug)      == IF slug = <<>> THEN 0 ELSE IdOfSlug(world.rooms, slug)

\* An address of the process itself is as taken as one of another program.
Bound  == {stacks[i].entry.listen : i \in DOMAIN stacks}
IsFree(listen) == listen \notin taken \cup Bound

\* One turn of the loop of boot: config, world, database, address, tasks.
BootTenant ==
  LET world == LoadTenant(folder[Current.name]) IN
  /\ phase = "booting" /\ Booted < Len(server.tenants)
  /\ world.ok
  /\ Placeable(world.val, saved[Current.name])
  /\ IsFree(Current.listen)
  /\ stacks' = Append(stacks,
       [entry |-> Current, rate |-> server.rate, world |-> world.val,
        source |-> folder[Current.name],
        at |-> PlaceOf(world.val, saved[Current.name])])
  /\ UNCHANGED <<disk, phase, server, refused, view>>

Down(r) ==
  /\ phase' = "down" /\ server' = NoServer /\ stacks' = <<>> /\ view' = NoView
  /\ refused' = r
  /\ UNCHANGED disk

\* An error on the way: what was booted is dropped with the process.  The
\* database may fail on its own (open, world_id, load).  With a bug in the
\* first: a tenant that does not load is passed over.
Cause(entry) ==
  LET world == LoadTenant(folder[entry.name]) IN
  IF ~world.ok THEN world.error
  ELSE IF ~Placeable(world.val, saved[entry.name]) THEN "UnknownPlaceKey"
  ELSE IF ~IsFree(entry.listen) THEN "AddrInUse"
  ELSE "Database"
RefuseSkipping ==
  /\ phase = "booting" /\ Booted < Len(server.tenants)
  /\ Cause(Current) # "Database"
  /\ server' = [server EXCEPT !.tenants = RemoveAt(@, Booted + 1)]
  /\ UNCHANGED <<disk, phase, stacks, refused, view>>
Refuse ==
  /\ phase = "booting" /\ Booted < Len(server.tenants)
  /\ Down([tenant |-> Current.name, folder |-> folder[Current.name],
           saved |-> saved[Current.name], cause |-> Cause(Current)])

Listen ==
  /\ phase = "booting" /\ Booted = Len(server.tenants)
  /\ phase' = "serving"
  /\ UNCHANGED <<disk, server, stacks, refused, view>>

\* async_main: a signal, the end of any task, or a crash.
Stop == phase # "down" /\ Down(NoRefusal)

-----------------------------------------------------------------------------
(* Play, in the tenant of stacks[i], from the moment its tasks are spawned: *)
(* others may still be loading.  A move is one step here: WorldLoop has it  *)
(* in two.                                                                 *)

Room(i) == stacks[i].world.rooms[stacks[i].at]

\* DbBackend::create_puppet, in the start room of the configuration.
NewPuppet(i) ==
  LET w == stacks[i].world IN
  /\ saved[stacks[i].entry.name] = <<>>
  /\ saved' = [saved EXCEPT ![stacks[i].entry.name] = w.rooms[w.start].slug]
  /\ stacks' = [stacks EXCEPT ![i].at = w.start]
  /\ UNCHANGED <<folder, edits, taken, catalog, phase, server, refused, view>>

\* Move: along an exit to a room the registry has.
Walk(i, dir) ==
  LET to == Room(i).exits[dir] IN
  /\ stacks[i].at # 0
  /\ dir \in DOMAIN Room(i).exits
  /\ saved' = [saved EXCEPT ![stacks[i].entry.name] = stacks[i].world.rooms[to].slug]
  /\ stacks' = [stacks EXCEPT ![i].at = to]
  /\ view' = NoView
  /\ UNCHANGED <<folder, edits, taken, catalog, phase, server, refused>>

Look(i) ==
  /\ stacks[i].at # 0
  /\ view' = [room |-> stacks[i].at, tenant |-> stacks[i].entry.name,
              text |-> RenderRoom(Room(i), <<>>, <<>>, EN)]
  /\ UNCHANGED <<disk, phase, server, stacks, refused>>

\* A builder replaces a folder; the process does not read it again.
Edit(n, f) ==
  /\ edits < MaxEdits /\ f # folder[n]
  /\ folder' = [folder EXCEPT ![n] = f]
  /\ edits' = edits + 1
  /\ UNCHANGED <<saved, taken, catalog, process>>

Init ==
  /\ \E s \in Starts :
       folder = s.folder /\ catalog = s.catalog /\ taken = s.taken /\ edits = s.edits
  /\ saved = [n \in Names |-> <<>>]
  /\ phase = "down" /\ server = NoServer /\ stacks = <<>>
  /\ refused = NoRefusal /\ view = NoView

Next ==
  \/ \E inv \in Invocations : Serve(inv)
  \/ BootTenant \/ Refuse \/ Listen \/ Stop
  \/ \E i \in DOMAIN stacks :
       NewPuppet(i) \/ Look(i) \/ \E dir \in Directions : Walk(i, dir)
  \/ \E n \in Names : \E f \in EditedFolders[n] : Edit(n, f)

Spec == Init /\ [][Next]_vars

-----------------------------------------------------------------------------
(* What a folder says, read off its nodes.                                 *)

NodesAt(f, p)  == f.files[FullPath(p)].nodes
RoomPaths(f)   == {p \in ToSet(WorldPaths(f)) : ~IsManifest(p)}
Manifests(f)   == {p \in ToSet(WorldPaths(f)) : IsManifest(p)}
Covering(f, p) == {m \in Manifests(f) : Within(p[1], m[1])}

\* The room nodes of a folder, each with its path and its place there.
Authored(f) ==
  UNION {{[path |-> p, node |-> NodesAt(f, p)[i], nr |-> i] : i \in DOMAIN NodesAt(f, p)} :
         p \in RoomPaths(f)}
SlugIn(a)         == a.node.args[1]
ChildrenOf(a, name) == SelectSeq(a.node.children, LAMBDA c : c.node = name)
\* The target written last for a direction.
Leads(a, dir) == SelectSeq(ChildrenOf(a, "exit"), LAMBDA c : c.args[1] = <<dir>>)

ValidSlug(text) == text # <<>> /\ ToSet(text) \subseteq SlugChars
ValidHex(text)  == Len(text) = 7 /\ text[1] = "#" /\ ToSet(Tail(text)) \subseteq HexDigits

\* The colour names a palette file defines, wherever in the file it does.
NamedColors(nodes) ==
  DOMAIN Baseline.colors
    \cup {nodes[i].args[1][1] : i \in {j \in DOMAIN nodes : nodes[j].node = "color"}}
ValidToken(nodes, text) ==
  ValidHex(text) \/ (text # <<>> /\ text[1] # "#" /\ text[1] \in NamedColors(nodes))

PathIn(f, field, otherwise) == Default(f.config[field], Relative(otherwise))

WellFormedConfig(f) ==
  /\ f.config.parses /\ f.config.start_room.set
  /\ \A path \in {PathIn(f, "banner", "welcome.kdl"), PathIn(f, "palette", "palette.kdl")} :
       ~path.absolute /\ \A i \in DOMAIN path.parts : path.parts[i] # ".."

WellFormedPalette(f) ==
  LET path  == PathIn(f, "palette", "palette.kdl").parts
      nodes == f.files[path].nodes
  IN  FileAt(f, path) =>
        /\ f.files[path].parses
        /\ \A i \in DOMAIN nodes :
             \/ nodes[i].node = "color" /\ Len(nodes[i].args) >= 2 /\ ValidHex(nodes[i].args[2])
             \/ /\ nodes[i].node = "role" /\ nodes[i].args # <<>>
                /\ \A p \in nodes[i].props :
                     p[1] \in {"fg", "bg"} => ValidToken(nodes, p[2])

\* Regions are flat, and each has one name of its own.
WellFormedRegions(f) ==
  /\ \A m \in Manifests(f) :
       /\ m[1] # <<>> /\ f.files[FullPath(m)].parses /\ Len(NodesAt(f, m)) = 1
       /\ LET n == NodesAt(f, m)[1] IN
          /\ n.node = "region" /\ n.args # <<>> /\ ValidSlug(n.args[1])
          /\ \A i \in DOMAIN n.children : n.children[i].node = "name"
  /\ \A m, o \in Manifests(f) :
       m # o => /\ NodesAt(f, m)[1].args[1] # NodesAt(f, o)[1].args[1]
                /\ ~Within(m[1], o[1])

WellFormedExit(f, c) ==
  /\ Len(c.args) >= 2 /\ c.args[1] \in {<<d>> : d \in Directions}
  /\ c.args[2] \in {SlugIn(a) : a \in Authored(f)}
WellFormedRoom(f, a) ==
  LET described == ChildrenOf(a, "description") IN
  /\ a.node.node = "room" /\ a.node.args # <<>> /\ ValidSlug(SlugIn(a))
  /\ \A i \in DOMAIN a.node.children :
       a.node.children[i].node \in {"title", "description", "exit"}
  /\ described # <<>> /\ Last(described).args # <<>>
WellFormedRooms(f) ==
  /\ \A p \in RoomPaths(f) : f.files[FullPath(p)].parses /\ Covering(f, p) # {}
  /\ \A a \in Authored(f) : WellFormedRoom(f, a)
  /\ \A a, b \in Authored(f) : SlugIn(a) = SlugIn(b) => a = b
  /\ \A a \in Authored(f) : \A i \in DOMAIN ChildrenOf(a, "exit") :
       WellFormedExit(f, ChildrenOf(a, "exit")[i])
  /\ f.config.start_room.to \in {SlugIn(a) : a \in Authored(f)}

WellFormedBanner(f) ==
  LET path  == PathIn(f, "banner", "welcome.kdl").parts
      nodes == f.files[path].nodes
  IN  /\ FileAt(f, path) /\ f.files[path].parses
      /\ \E i \in DOMAIN nodes :
           /\ nodes[i].node = "banner" /\ nodes[i].args # <<>>
           /\ \A j \in 1 .. i - 1 : nodes[j].node # "banner"

WellFormed(f) ==
  /\ WellFormedConfig(f) /\ WellFormedPalette(f) /\ WellFormedRegions(f)
  /\ WellFormedRooms(f) /\ WellFormedBanner(f)

-----------------------------------------------------------------------------
(* Properties.                                                             *)

\* What is served is what was written (load_rooms, resolve_rooms): every room
\* node of the folder is a room under its slug and no other room is; each is in
\* the one region whose manifest covers its file; an exit leads where the last
\* exit node of its direction says, and no exit node is left out.
ServesRoom(w, f, a) ==
  LET r == w.rooms[IdOfSlug(w.rooms, SlugIn(a))] IN
  /\ \E m \in Covering(f, a.path) :
       /\ Covering(f, a.path) = {m}
       /\ w.regions.keys[r.region] = NodesAt(f, m)[1].args[1]
  /\ DOMAIN r.exits = {d \in Directions : Leads(a, d) # <<>>}
  /\ \A d \in DOMAIN r.exits : w.rooms[r.exits[d]].slug = Last(Leads(a, d)).args[2]
ServedAsWritten ==
  \A i \in DOMAIN stacks :
    LET w == stacks[i].world
        f == stacks[i].source
    IN  /\ SlugsOf(w.rooms) = {SlugIn(a) : a \in Authored(f)}
        /\ Len(w.rooms) = Cardinality(Authored(f))
        /\ \A a \in Authored(f) : ServesRoom(w, f, a)
        /\ w.rooms[w.start].slug = f.config.start_room.to

\* A boot stops for a reason (boot, load_world, PersistentWorld::load): the
\* tenant it stopped at has a folder that breaks a rule of the format, or a
\* puppet in a room the folder no longer has, or an address in use, or its
\* database failed.  And it does stop: no tenant is served from a folder that
\* breaks a rule.
RefusedForCause ==
  /\ \A i \in DOMAIN stacks : WellFormed(stacks[i].source)
  /\ refused.cause \notin {"none", "Database", "AddrInUse"} =>
       \/ ~WellFormed(refused.folder)
       \/ refused.saved \notin {<<>>} \cup {SlugIn(a) : a \in Authored(refused.folder)}

\* Once a process serves, it serves every tenant of the catalogue at its own
\* address and under its own tag, or the one tenant it was told to (boot aborts
\* all tenants on any error): no tenant is silently missing and no two share a
\* port or a tag.
AllOrNothing ==
  phase = "serving" =>
    /\ \/ {stacks[i].entry : i \in DOMAIN stacks}
            = {Entry(e.name, e.port, e.tag) : e \in ToSet(catalog)}
       \/ Len(stacks) = 1 /\ stacks[1].entry.tag = 0
    /\ \A i, j \in DOMAIN stacks :
         i # j => /\ stacks[i].entry.listen # stacks[j].entry.listen
                  /\ stacks[i].entry.tag # stacks[j].entry.tag
    /\ \A i \in DOMAIN stacks : stacks[i].entry.listen \notin taken

\* The two together: a boot ends with every tenant served, or with none and a
\* reason.
BootsOrRefuses == RefusedForCause /\ AllOrNothing

\* A puppet stays in its room over edits, crashes and boots, under whatever
\* PlaceId the room has next (PlaceMap, PersistentWorld::load): the room a
\* process has it in is the one whose slug is saved.
PuppetsStay ==
  \A i \in DOMAIN stacks :
    LET slug == saved[stacks[i].entry.name] IN
    IF slug = <<>> THEN stacks[i].at = 0
    ELSE stacks[i].at \in DOMAIN stacks[i].world.rooms /\ Room(i).slug = slug

-----------------------------------------------------------------------------
(* What an author meant, by an automaton that reads a character at a time. *)
(* Each character kept has the tags written before it.                     *)

Keep(m, chs) ==
  [m EXCEPT !.cells = @ \o [i \in DOMAIN chs |-> [ch |-> chs[i], tags |-> m.tags]]]
In(m, mode)  == [m EXCEPT !.mode = mode]
Reader(m, ch) ==
  CASE m.mode = "text" /\ ch = "{"    -> In(m, "open")
    [] m.mode = "text" /\ ch = "}"    -> In(m, "close")
    [] m.mode = "text"                -> Keep(m, <<ch>>)
    [] m.mode = "open" /\ ch = "{"    -> In(Keep(m, <<"{">>), "text")
    [] m.mode \in {"open", "tag"} /\ ch = "}" ->
         [m EXCEPT !.mode = "text", !.tags = Append(@, m.tag), !.tag = <<>>]
    [] m.mode \in {"open", "tag"}     -> [m EXCEPT !.mode = "tag", !.tag = Append(@, ch)]
    [] m.mode = "close" /\ ch = "}"   -> In(Keep(m, <<"}">>), "text")
    [] m.mode = "close" /\ ch = "{"   -> In(Keep(m, <<"}">>), "open")
    [] OTHER                          -> In(Keep(m, <<"}", ch>>), "text")
Meant(text) ==
  LET m == FoldLeft(Reader, [mode |-> "text", tag |-> <<>>, tags |-> <<>>, cells |-> <<>>], text)
  IN  CASE m.mode = "text"  -> m.cells
        [] m.mode = "close" -> Keep(m, <<"}">>).cells
        [] OTHER            -> Keep(m, <<"{">> \o m.tag).cells

\* A tag is in force until a close of its own: until then more tags have been
\* opened than closed since.
Closes(tags, j, k) == Cardinality({i \in j .. k : tags[i] = <<"/">>})
InForce(tags) ==
  {j \in DOMAIN tags : /\ tags[j] # <<"/">>
                       /\ \A k \in j .. Len(tags) : 2 * Closes(tags, j, k) < k - j + 1}
ColorMeant(tags, layer, field, palette) ==
  LET named == {j \in InForce(tags) :
                  /\ field.colors /\ Len(tags[j]) = 2 /\ tags[j][1] = layer
                  /\ tags[j][2] \in DOMAIN palette.colors}
      inner == CHOOSE j \in named : \A k \in named : k <= j
  IN  IF named = {} THEN NoColor ELSE palette.colors[tags[inner][2]]
StyleMeant(tags, field, palette) ==
  [fg |-> ColorMeant(tags, "fg=", field, palette),
   bg |-> ColorMeant(tags, "bg=", field, palette),
   attrs |-> field.default.attrs \cup
     (field.attrs \cap {AttributeTags[tags[j]] :
                          j \in {i \in InForce(tags) : tags[i] \in DOMAIN AttributeTags}})]
CellsMeant(text, field, palette) ==
  LET cells == Meant(text)
  IN  [i \in DOMAIN cells |-> [ch |-> cells[i].ch,
                               style |-> StyleMeant(cells[i].tags, field, palette)]]

\* The room an author wrote, as cells: title and description each in its style,
\* the exits in the style of the system role.
InStyle(text, style) == [i \in DOMAIN text |-> [ch |-> text[i], style |-> style]]
FieldCells(a, name, field, palette) ==
  LET written == ChildrenOf(a, name)
  IN  IF written = <<>> \/ Last(written).args = <<>> THEN <<>>
      ELSE CellsMeant(Last(written).args[1], field, palette)
HasTitle(a) == ChildrenOf(a, "title") # <<>> /\ Last(ChildrenOf(a, "title")).args # <<>>
ExitCells(a, palette) ==
  LET ways  == SelectSeq(DirectionOrder, LAMBDA d : Leads(a, d) # <<>>)
      words == FlattenSeq([i \in DOMAIN ways |->
                 IF i = 1 THEN <<ways[i]>> ELSE <<", ", ways[i]>>])
  IN  IF ways = <<>> THEN <<>>
      ELSE InStyle(<<"LF", "Exits: ">> \o words, palette.roles["system"])
RoomCells(a, palette) ==
  FieldCells(a, "title", TITLE, palette)
    \o (IF HasTitle(a) THEN InStyle(<<"LF">>, Unstyled) ELSE <<>>)
    \o FieldCells(a, "description", DESCRIPTION, palette)
    \o ExitCells(a, palette)

\* A cell as a terminal of a tier has it: lines end in CR LF, and a terminal of
\* ASCII has the letter without its accent.
OnTerminal(cells, tier, charset) ==
  FlattenSeq([i \in DOMAIN cells |->
    LET style == ToAnstyle(cells[i].style, tier)
        Cell(ch) == [ch |-> ch, style |-> style]
    IN  CASE cells[i].ch = "LF" -> <<Cell("CR"), Cell("LF")>>
          [] cells[i].ch = "e-acute" /\ charset = "Ascii" -> <<Cell("e")>>
          [] OTHER -> <<Cell(cells[i].ch)>>])

\* What a client shows of a room is what its author meant, on every terminal
\* (compile_markup, render, encode_output): no character of the text is lost to
\* a brace, a bad tag or an escape, and none is in a style that another span
\* or a closed tag left behind.
SeenAsMeant ==
  view.room # 0 =>
    \E i \in DOMAIN stacks :
      /\ stacks[i].entry.name = view.tenant
      /\ LET palette == stacks[i].world.palette
             slug    == stacks[i].world.rooms[view.room].slug
             a       == CHOOSE b \in Authored(stacks[i].source) : SlugIn(b) = slug
         IN  \A tier \in Tiers, charset \in {"Utf8", "Ascii"} :
               Shown(EncodeOutput(Render(view.text, palette, tier), charset)).cells
                 = OnTerminal(RoomCells(a, palette), tier, charset)
=============================================================================
