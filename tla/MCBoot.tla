-------------------------------- MODULE MCBoot --------------------------------
(***************************************************************************)
(* Boot with two tenants.  The folder of the first is a map of two rooms   *)
(* in one of its broken or rearranged forms, or has a description of up to *)
(* four characters, braces and tags among them; that of the second is good *)
(* or has no banner.                                                       *)
(***************************************************************************)
EXTENDS Boot

\* KDL nodes.
N(node, args, children) ==
  [node |-> node, args |-> args, props |-> {}, children |-> children]
Role(name, props) == [node |-> "role", args |-> <<name>>, props |-> props, children |-> <<>>]
Doc(nodes) == [parses |-> TRUE, nodes |-> nodes]
Garbage    == [parses |-> FALSE, nodes |-> <<>>]

Exit(dir, to) == N("exit", << <<dir>>, to >>, <<>>)
Title(text)   == N("title", <<text>>, <<>>)
Text(text)    == N("description", <<text>>, <<>>)
ARoom(slug, children) == N("room", <<slug>>, children)
Region(slug)  == N("region", <<slug>>, <<N("name", << <<"K">> >>, <<>>)>>)

a == <<"a">>
b == <<"b">>
hex(d) == <<"#", d, d, d, d, d, d>>

RoomA(text) == ARoom(a, <<Title(text), Text(text), Exit("north", b)>>)
RoomB == ARoom(b, <<Text(<<"d">>), Exit("south", a), Exit("up", b), Exit("south", b)>>)

\* Directories under world/, and the paths in their order.
Keep1 == <<"keep">>
Deep  == <<"keep", "deep">>
Wild  == <<"wild">>
MCPathOrder ==
  << <<Keep1, "a.kdl">>, <<Deep, "b.kdl">>, <<Deep, "region.kdl">>, <<Keep1, "region.kdl">>,
     << <<>>, "region.kdl">>, <<Wild, "0.kdl">>, <<Wild, "region.kdl">> >>
At(dir, file) == FullPath(<<dir, file>>)

Unset == [set |-> FALSE]
Set(v) == [set |-> TRUE, to |-> v]
Plainly(start) == [parses |-> TRUE, start_room |-> Set(start), banner |-> Unset,
                   palette |-> Unset]

\* A folder from its config and its files: later files replace earlier ones.
With(f, path, doc) == [f EXCEPT !.files = [p \in DOMAIN @ \cup {path} |->
                                             IF p = path THEN doc ELSE @[p]]]
Without(f, path) == [f EXCEPT !.files = [p \in DOMAIN @ \ {path} |-> @[p]]]

Good(text) ==
  [config |-> Plainly(a),
   files  |-> [p \in {<<"welcome.kdl">>, At(Keep1, "region.kdl"), At(Keep1, "a.kdl"),
                      At(Deep, "b.kdl")} |->
     CASE p = <<"welcome.kdl">>         -> Doc(<<N("banner", << <<"W">> >>, <<>>)>>)
       [] p = At(Keep1, "region.kdl")   -> Doc(<<Region(a)>>)
       [] p = At(Keep1, "a.kdl")        -> Doc(<<RoomA(text)>>)
       [] OTHER                         -> Doc(<<RoomB>>)]]
Base == Good(<<"a">>)
PaletteFile(nodes) == With(Base, <<"palette.kdl">>, Doc(nodes))

\* The rooms in other files and another order: the ids are exchanged.
Rearranged ==
  With(With(Without(Base, At(Keep1, "a.kdl")), At(Wild, "0.kdl"), Doc(<<RoomA(a)>>)),
       At(Wild, "region.kdl"), Doc(<<Region(b)>>))
\* A palette whose role names a colour defined below it.
Restyled ==
  PaletteFile(<<Role(<<"system">>, {<<"fg", <<"mud">>>>, <<"bold", <<"true">>>>}),
                N("color", << <<"mud">>, hex("1") >>, <<>>)>>)
\* The second room is gone, with the exit to it or without.
OnlyA(children) ==
  With(Without(Base, At(Deep, "b.kdl")), At(Keep1, "a.kdl"), Doc(<<ARoom(a, children)>>))

Broken ==
  { OnlyA(<<Text(a), Exit("north", b)>>),                          \* dangling exit
    OnlyA(<<Title(a)>>),                                           \* no description
    OnlyA(<<Text(a), N("exti", <<>>, <<>>)>>),                     \* a misspelt node
    OnlyA(<<Text(a), Exit("n", a)>>),                              \* no such direction
    With(Base, At(Deep, "b.kdl"), Doc(<<RoomB, RoomB>>)),          \* a slug twice
    With(Base, At(Deep, "b.kdl"), Garbage),
    With(Base, At(Deep, "region.kdl"), Doc(<<Region(b)>>)),        \* a region in a region
    With(Base, At(<<>>, "region.kdl"), Doc(<<Region(b)>>)),        \* a region of the root
    With(Base, At(Keep1, "region.kdl"), Doc(<<Region(a), Region(b)>>)),
    Without(Base, At(Keep1, "region.kdl")),                        \* rooms in no region
    With(Base, At(Wild, "region.kdl"), Doc(<<Region(a)>>)),        \* a region's slug twice
    Without(Base, <<"welcome.kdl">>),
    PaletteFile(<<N("color", << <<"mud">>, <<"#", "1">> >>, <<>>)>>),
    PaletteFile(<<Role(<<"say">>, {<<"bg", <<"mud">>>>})>>),       \* no such colour
    [Base EXCEPT !.config = Plainly(<<"c">>)],                     \* no such start room
    [Base EXCEPT !.config.start_room = Unset],
    [Base EXCEPT !.config.banner = Set([absolute |-> FALSE, parts |-> <<"..", "w">>])] }

GoodEdits == {Base, Rearranged, Restyled, OnlyA(<<Text(a), Text(b)>>)}

\* Descriptions: all the short ones, and longer ones with tags in tags.
Alphabet == {"{", "}", "/", "b", "x"}
Short == UNION {[1 .. n -> Alphabet] : n \in 0 .. 4}
BTag == <<"{", "b", "}">>
Red  == <<"{", "fg=", "red", "}">>
Bad  == <<"{", "fg=", "x", "}">>
Back(c) == <<"{", "bg=", c, "}">>
End  == <<"{", "/", "}">>
Long ==
  { BTag \o <<"x">> \o Red \o <<"x">> \o End \o <<"x">> \o End \o <<"x">>,
    BTag \o Bad \o <<"x">> \o End \o <<"x">> \o End \o <<"e-acute">>,
    Red \o Back("red") \o <<"x", "LF">> \o End \o BTag \o <<"x">> \o End \o <<"}", "}">>,
    End \o BTag \o <<"x">> \o BTag \o End \o <<"x">>,
    <<"{", "i", "}", "x", "{", "q", "}", "x">> \o End \o <<"x">> \o Red,
    Back("mud") \o <<"x">> \o End \o <<"x", "{", "u", "}", "x">> }

MCEditedFolders ==
  [first  |-> GoodEdits \cup Broken,
   second |-> {Base, Without(Base, <<"welcome.kdl">>)}]

MCInvocations ==
  { [flag |-> 0, env |-> 5, toml |-> 3, tenants_dir |-> FALSE, home |-> TRUE, tenant_dir |-> ""],
    [flag |-> 2, env |-> 5, toml |-> 0, tenants_dir |-> TRUE, home |-> FALSE,
     tenant_dir |-> "first"] }

Row(name, port, tag) == [name |-> name, port |-> port, tag |-> tag]
Both == <<Row("first", 4000, 1), Row("second", 4001, 2)>>

\* Folders that are edited, and descriptions that are only looked at.
MCMaxEdits == 2
First(text, rows, ports, count) ==
  [folder |-> [first |-> Good(text), second |-> Base], catalog |-> rows,
   taken |-> ports, edits |-> count]
MCStarts ==
  {First(a, <<>>, {}, 0), First(a, Both, {}, 0), First(a, Both, {4001}, MCMaxEdits)}
    \cup {First(t, Both, {}, MCMaxEdits) : t \in Short \cup Long}
=============================================================================
