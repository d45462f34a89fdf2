------------------------------ MODULE WorldFiles ------------------------------
(***************************************************************************)
(* From a tenant's folder to its loaded world: config.toml, the palette,   *)
(* the region manifests, the rooms and the banner (mud-world, and the      *)
(* places and regions of mud-core).  A folder is what a builder wrote: a   *)
(* file is a list of KDL nodes or does not parse, and a node is            *)
(* [node, args, props, children].  Every operator here is a function of    *)
(* the folder: loading writes nothing.                                     *)
(***************************************************************************)
EXTENDS Rendering

CONSTANT PathOrder   (* the paths of KDL files as PathBuf sorts them: each a
                        pair of a directory, which is a sequence of names, and
                        a file name *)

\* Result: a value or the error that ends the load.
Ok(v)  == [ok |-> TRUE, val |-> v]
Err(e) == [ok |-> FALSE, error |-> e]
Then(r, F(_))        == IF r.ok THEN F(r.val) ELSE r
TryFold(F(_, _), init, seq) ==
  FoldLeft(LAMBDA r, x : Then(r, LAMBDA v : F(v, x)), Ok(init), seq)

Missing == [ok |-> FALSE]
\* arg, property, and the boolean attributes of a role.
Arg(n, i)   == IF i <= Len(n.args) THEN Ok(n.args[i]) ELSE Err("MissingField")
HasProp(n, key)  == \E p \in n.props : p[1] = key
PropOf(n, key)   == (CHOOSE p \in n.props : p[1] = key)[2]

\* PlaceKey::parse and RegionKey::parse (slug.rs), on the letters in use.
SlugChars == {"a", "b", "c", "d", "e", "r", "1", "_", "-"}
ParseSlug(text, error) ==
  IF text # <<>> /\ ToSet(text) \subseteq SlugChars THEN Ok(text) ELSE Err(error)
ParsePlaceKey(text)  == ParseSlug(text, "InvalidSlug")
ParseRegionKey(text) == ParseSlug(text, "InvalidRegionSlug")

-----------------------------------------------------------------------------
(* TenantConfig::load: start_room is required, and the configured paths    *)
(* stay inside the folder.                                                 *)

\* ensure_contained: a relative path without "..".
EnsureContained(path) ==
  IF path.absolute \/ ".." \in ToSet(path.parts) THEN Err("EscapingPath") ELSE Ok(path)

Default(field, otherwise) == IF field.set THEN field.to ELSE otherwise
Relative(name) == [absolute |-> FALSE, parts |-> <<name>>]
DefaultBanner  == Relative("welcome.kdl")
DefaultPalette == Relative("palette.kdl")

LoadConfig(toml) ==
  LET banner  == Default(toml.banner, DefaultBanner)
      palette == Default(toml.palette, DefaultPalette)
  IN  IF ~toml.parses \/ ~toml.start_room.set THEN Err("Config")
      ELSE Then(EnsureContained(banner), LAMBDA b :
             Then(EnsureContained(palette), LAMBDA p :
               Ok([banner |-> b.parts, palette |-> p.parts,
                   start_room |-> toml.start_room.to])))

\* A file of the folder, by its path inside it.
FileAt(folder, path) == path \in DOMAIN folder.files
ReadKdl(folder, path) ==
  IF ~FileAt(folder, path) THEN Err("Io")
  ELSE IF ~folder.files[path].parses THEN Err("Kdl")
  ELSE Ok(folder.files[path].nodes)

-----------------------------------------------------------------------------
(* load_palette: the baseline, then the colours of the file, then its      *)
(* roles, which may name any of them.                                      *)

ResolveHex(text) ==
  LET c == FromHex(text) IN IF c.ok THEN Ok(c.color) ELSE Err("InvalidColor")

ResolveColorToken(text, palette) ==
  IF text # <<>> /\ text[1] = "#" THEN ResolveHex(text)
  ELSE IF Len(text) = 1 /\ text[1] \in DOMAIN palette.colors
       THEN Ok(palette.colors[text[1]]) ELSE Err("UnknownColorName")

ParseColor(n) ==
  Then(Arg(n, 1), LAMBDA name : Then(Arg(n, 2), LAMBDA hex :
    Then(ResolveHex(hex), LAMBDA color : Ok([name |-> name[1], color |-> color]))))

Flags == {<<"bold", "BOLD">>, <<"italic", "ITALIC">>, <<"underline", "UNDERLINE">>,
          <<"blink", "BLINK">>, <<"reverse", "REVERSE">>}
FlagsOf(n) == {f[2] : f \in {g \in Flags : HasProp(n, g[1]) /\ PropOf(n, g[1]) = <<"true">>}}

ColorProp(n, key, palette) ==
  IF HasProp(n, key) THEN ResolveColorToken(PropOf(n, key), palette) ELSE Ok(NoColor)
ParseRole(n, palette) ==
  Then(Arg(n, 1), LAMBDA name :
    Then(ColorProp(n, "fg", palette), LAMBDA fg :
      Then(ColorProp(n, "bg", palette), LAMBDA bg :
        Ok([name |-> name[1], style |-> [fg |-> fg, bg |-> bg, attrs |-> FlagsOf(n)]]))))

PaletteColor(palette, n) ==
  IF n.node # "color" THEN Ok(palette)
  ELSE Then(ParseColor(n), LAMBDA c : Ok(InsertColor(palette, c.name, c.color)))
PaletteRole(palette, n) ==
  CASE n.node = "color" -> Ok(palette)
    [] n.node = "role"  ->
         Then(ParseRole(n, palette), LAMBDA r : Ok(InsertRole(palette, r.name, r.style)))
    [] OTHER -> Err("UnexpectedNode")

\* With a bug in the first: nodes are read in the order they were written.
PaletteOnePass(folder, path) ==
  IF ~FileAt(folder, path) THEN Ok(Baseline)
  ELSE Then(ReadKdl(folder, path), LAMBDA nodes :
         TryFold(LAMBDA p, n : Then(PaletteColor(p, n), LAMBDA q : PaletteRole(q, n)),
                 Baseline, nodes))
LoadPalette(folder, path) ==
  IF ~FileAt(folder, path) THEN Ok(Baseline)
  ELSE Then(ReadKdl(folder, path), LAMBDA nodes :
         Then(TryFold(PaletteColor, Baseline, nodes), LAMBDA colored :
           TryFold(PaletteRole, colored, nodes)))

\* load_banner: the text of the first banner node.
LoadBanner(folder, path) ==
  Then(ReadKdl(folder, path), LAMBDA nodes :
    LET banners == SelectSeq(nodes, LAMBDA n : n.node = "banner")
    IN  IF banners = <<>> THEN Err("MissingField") ELSE Arg(banners[1], 1))

-----------------------------------------------------------------------------
(* Regions: RegionBinder::load over the manifests, in the order of their   *)
(* paths.  A binder is [manifests, keys]: the folders governed, in order,  *)
(* and the slug of each; a RegionId is a position.                         *)

WORLD_SUBDIR == "world"
REGION_MANIFEST == "region.kdl"

\* collect_kdl_files: the KDL files under world/, sorted; a path of the folder
\* is "world", the directory's names, the file name.
FullPath(p) == <<WORLD_SUBDIR>> \o p[1] \o <<p[2]>>
WorldPaths(folder) == SelectSeq(PathOrder, LAMBDA p : FileAt(folder, FullPath(p)))
IsManifest(p) == p[2] = REGION_MANIFEST

NoRegions == [manifests |-> <<>>, keys |-> <<>>, names |-> <<>>]
Within(dir, other) == IsPrefix(other, dir)
DisplayName(n) == IF n.args = <<>> THEN Missing ELSE Ok(n.args[1])

\* parse_manifest: exactly one region, and in it names only; the last name with
\* a text holds, and one without a text unsets it.
ParseManifest(nodes) ==
  IF \E i \in DOMAIN nodes :
       /\ nodes[i].node # "region"
       /\ \A j \in 1 .. i - 1 : j = 1 /\ nodes[j].node = "region"
  THEN Err("UnexpectedNode")
  ELSE IF Len(nodes) # 1 THEN Err("InvalidRegionManifest")
  ELSE Then(Arg(nodes[1], 1), LAMBDA text :
         Then(ParseRegionKey(text), LAMBDA key :
           Then(TryFold(LAMBDA name, child :
                          IF child.node = "name" THEN Ok(DisplayName(child))
                          ELSE Err("UnexpectedNode"),
                        Missing, nodes[1].children),
                LAMBDA name : Ok([key |-> key, name |-> name]))))

\* The regions a manifest may not touch.
Nested(binder, dir) ==
  \E i \in DOMAIN binder.manifests :
    Within(dir, binder.manifests[i]) \/ Within(binder.manifests[i], dir)

\* One manifest of the load.
BindManifest(folder, binder, p) ==
  IF p[1] = <<>> THEN Err("RegionManifestAtWorldRoot")
  ELSE Then(ReadKdl(folder, FullPath(p)), LAMBDA nodes :
         Then(ParseManifest(nodes), LAMBDA m :
           IF m.key \in ToSet(binder.keys) THEN Err("DuplicateRegionSlug")
           ELSE IF Nested(binder, p[1]) THEN Err("NestedRegion")
           ELSE Ok([manifests |-> Append(binder.manifests, p[1]),
                    keys      |-> Append(binder.keys, m.key),
                    names     |-> Append(binder.names, m.name)])))

LoadBinder(folder, paths) ==
  TryFold(LAMBDA b, p : BindManifest(folder, b, p), NoRegions, paths)

\* region_for: the first manifest folder the directory lies in.
RegionFor(binder, dir) ==
  LET over == {i \in DOMAIN binder.manifests : Within(dir, binder.manifests[i])}
  IN  IF over = {} THEN Err("RoomOutsideRegion")
      ELSE Ok(CHOOSE i \in over : \A j \in over : i <= j)

-----------------------------------------------------------------------------
(* Directions (place/room.rs).                                             *)

\* Direction::ALL, in canonical order, and name.
DirectionOrder == <<"north", "east", "south", "west", "up", "down">>
Directions     == ToSet(DirectionOrder)
Opposite(d) ==
  CASE d = "north" -> "south" [] d = "south" -> "north" [] d = "east" -> "west"
    [] d = "west" -> "east"   [] d = "up" -> "down"     [] d = "down" -> "up"

ParseDirection(text) ==
  IF Len(text) = 1 /\ text[1] \in Directions THEN Ok(text[1])
  ELSE Err("UnknownDirection")

-----------------------------------------------------------------------------
(* Rooms: parsed in the order of the files, then linked.                   *)

ParseExit(n) ==
  Then(Arg(n, 1), LAMBDA word : Then(ParseDirection(word), LAMBDA dir :
    Then(Arg(n, 2), LAMBDA target : Ok([dir |-> dir, target |-> target]))))

\* A child of a room: the last title and the last description hold, and one
\* without a text unsets them.
Field(n, policy, palette) ==
  IF n.args = <<>> THEN Missing ELSE Ok(CompileMarkup(n.args[1], policy, palette).text)
RoomChild(palette, raw, n) ==
  CASE n.node = "title"       -> Ok([raw EXCEPT !.title = Field(n, TITLE, palette)])
    [] n.node = "description" ->
         Ok([raw EXCEPT !.description = Field(n, DESCRIPTION, palette)])
    [] n.node = "exit"        ->
         Then(ParseExit(n), LAMBDA e : Ok([raw EXCEPT !.exits = Append(@, e)]))
    [] OTHER -> Err("UnexpectedNode")

ParseRoom(n, region, palette) ==
  Then(Arg(n, 1), LAMBDA text : Then(ParsePlaceKey(text), LAMBDA slug :
    Then(TryFold(LAMBDA raw, child : RoomChild(palette, raw, child),
                 [slug |-> slug, region |-> region, title |-> Missing,
                  description |-> Missing, exits |-> <<>>],
                 n.children),
         LAMBDA raw : IF raw.description.ok THEN Ok(raw) ELSE Err("MissingField"))))

\* One node of a room file.  raws[id] is the room of PlaceId id, so the next id
\* is one past the last.
SlugsOf(raws) == {raws[i].slug : i \in DOMAIN raws}
AddRoom(raws, n, region, palette) ==
  IF n.node # "room" THEN Err("UnexpectedNode")
  ELSE Then(ParseRoom(n, region, palette), LAMBDA raw :
         IF raw.slug \in SlugsOf(raws) THEN Err("DuplicateSlug")
         ELSE Ok(Append(raws, raw)))

\* One room file, in the region of its directory.
ReadRooms(folder, binder, palette, raws, p) ==
  Then(RegionFor(binder, p[1]), LAMBDA region :
    Then(ReadKdl(folder, FullPath(p)), LAMBDA nodes :
      TryFold(LAMBDA rs, n : AddRoom(rs, n, region, palette), raws, nodes)))

\* resolve_exit_target and with_exit: a later exit replaces an earlier one.  With
\* a bug in the first: an exit that leads nowhere is left out.
WithExit(exits, dir, to) ==
  [d \in DOMAIN exits \cup {dir} |-> IF d = dir THEN to ELSE exits[d]]
IdOfSlug(rooms, slug) == CHOOSE id \in DOMAIN rooms : rooms[id].slug = slug
LinkExitDropped(raws, exits, e) ==
  IF e.target \notin SlugsOf(raws) THEN Ok(exits)
  ELSE Ok(WithExit(exits, e.dir, IdOfSlug(raws, e.target)))
LinkExit(raws, exits, e) ==
  Then(ParsePlaceKey(e.target), LAMBDA slug :
    IF slug \notin SlugsOf(raws) THEN Err("DanglingExit")
    ELSE Ok(WithExit(exits, e.dir, IdOfSlug(raws, slug))))

\* resolve_rooms: RoomData, its exits a function on the directions wired.
RoomData(raw, exits) ==
  [slug |-> raw.slug, region |-> raw.region, title |-> raw.title,
   description |-> raw.description.val, exits |-> exits]
LinkRoom(raws, raw) ==
  Then(TryFold(LAMBDA exits, e : LinkExit(raws, exits, e), [d \in {} |-> 0], raw.exits),
       LAMBDA exits : Ok(RoomData(raw, exits)))
ResolveRooms(raws) ==
  TryFold(LAMBDA rooms, raw : Then(LinkRoom(raws, raw), LAMBDA r : Ok(Append(rooms, r))),
          <<>>, raws)

\* load_rooms.
LoadRooms(folder, palette) ==
  LET paths == WorldPaths(folder) IN
  Then(LoadBinder(folder, SelectSeq(paths, IsManifest)), LAMBDA binder :
    Then(TryFold(LAMBDA raws, p : ReadRooms(folder, binder, palette, raws, p), <<>>,
                 SelectSeq(paths, LAMBDA p : ~IsManifest(p))), LAMBDA raws :
      Then(ResolveRooms(raws), LAMBDA rooms :
        Ok([rooms |-> rooms, regions |-> binder]))))

-----------------------------------------------------------------------------
\* load_world: palette, rooms, banner, and last the start room.
StartRoomOf(rooms, text) ==
  Then(ParsePlaceKey(text), LAMBDA slug :
    IF slug \in SlugsOf(rooms) THEN Ok(IdOfSlug(rooms, slug)) ELSE Err("UnknownStartRoom"))

LoadWorld(folder, config) ==
  Then(LoadPalette(folder, config.palette), LAMBDA palette :
    Then(LoadRooms(folder, palette), LAMBDA loaded :
      Then(LoadBanner(folder, config.banner), LAMBDA banner :
        Then(StartRoomOf(loaded.rooms, config.start_room), LAMBDA start :
          Ok([palette |-> palette, rooms |-> loaded.rooms, regions |-> loaded.regions,
              banner |-> banner, start |-> start])))))

\* What a tenant's folder holds, from config.toml on.
LoadTenant(folder) ==
  Then(LoadConfig(folder.config), LAMBDA c : LoadWorld(folder, c))
=============================================================================
