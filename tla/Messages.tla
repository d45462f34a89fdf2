------------------------------- MODULE Messages -------------------------------
(***************************************************************************)
(* The texts the engine speaks: the catalogue of templates and how they    *)
(* are filled (mud-i18n), what is left of a player's line before another   *)
(* player sees it (mud-engine text.rs), and the view of a room (look.rs).  *)
(* A template is a sequence of characters; a fixed phrase of one stands as *)
(* one character, and the names of arguments are cut to a letter.          *)
(***************************************************************************)
EXTENDS WorldFiles

-----------------------------------------------------------------------------
(* Catalog: lookup by locale and key, then translate.                      *)

EN == "en"

\* The two spellings of a placeholder.
Spaced(arg) == <<"{", " ", "$", arg, " ", "}">>
Tight(arg)  == <<"{", "$", arg, "}">>

\* ENTRIES: of each message the players see in the world, the phrases and the
\* arguments in their places.
ENTRIES ==
  [k \in {"look.exits", "look.also-here", "look.player-here", "look.players-here",
          "look.void", "move.no-exit", "move.depart", "move.arrive-from",
          "presence.enter", "presence.leave", "say.speech", "say.broadcast",
          "say.nothing", "who.online", "content.too-long", "command.not-found",
          "command.ambiguous", "command.bad-switch", "command.unbound",
          "command.denied", "quit.goodbye"} |->
    CASE k = "look.exits"        -> <<"Exits: ">> \o Spaced("x")
      [] k = "look.also-here"    -> <<"Also here: ">> \o Spaced("n")
      [] k = "look.player-here"  -> Spaced("n") \o <<" is here.">>
      [] k = "look.players-here" -> Spaced("n") \o <<" are here.">>
      [] k = "move.depart"       -> Spaced("n") \o <<" leaves ">> \o Spaced("d")
      [] k = "move.arrive-from"  -> Spaced("n") \o <<" arrives from ">> \o Spaced("d")
      [] k = "presence.enter"    -> Spaced("n") \o <<" appears.">>
      [] k = "presence.leave"    -> Spaced("n") \o <<" disappears.">>
      [] k = "say.speech"        -> <<"You say, ">> \o Spaced("m") \o <<"'">>
      [] k = "say.broadcast"     -> Spaced("n") \o <<" says, ">> \o Spaced("m") \o <<"'">>
      [] k = "who.online"        -> <<"Players online: ">> \o Spaced("n")
      [] k = "command.ambiguous" -> <<"Which? ">> \o Spaced("o")
      [] k = "command.bad-switch" -> <<"Invalid switch: ">> \o Spaced("r")
      [] OTHER -> <<k>>]

\* builtin_en: one locale.
Builtin == [locale \in {EN} |-> ENTRIES]

\* str::replace: every occurrence from the left, none overlapping.
RECURSIVE Replace(_, _, _)
Replace(text, from, to) ==
  IF text = <<>> THEN <<>>
  ELSE IF IsPrefix(from, text)
       THEN to \o Replace(SubSeq(text, Len(from) + 1, Len(text)), from, to)
       ELSE <<text[1]>> \o Replace(Tail(text), from, to)

\* interpolate: one argument after another, each over what the last one left.
Interpolate(template, args) ==
  FoldLeft(LAMBDA acc, a : Replace(Replace(acc, Spaced(a[1]), a[2]), Tight(a[1]), a[2]),
           template, args)

\* translate: the locale, then English, then the key itself.
Lookup(catalog, locale, key) ==
  IF locale \in DOMAIN catalog /\ key \in DOMAIN catalog[locale]
  THEN Ok(catalog[locale][key]) ELSE Missing
Translate(catalog, locale, key, args) ==
  LET here  == Lookup(catalog, locale, key)
      en    == Lookup(catalog, EN, key)
      found == IF here.ok THEN here.val ELSE IF en.ok THEN en.val ELSE <<key>>
  IN  Interpolate(found, args)

\* t! with the catalogue built in.
T(locale, key, args) == Translate(Builtin, locale, key, args)

\* system.
System(text) == <<InRole(text, "system")>>

-----------------------------------------------------------------------------
(* sanitize: the cap on what a player says, then strip.                    *)

CsiParams == {" ", ";", "1", "$"}
CsiFinals == {"[", "]", "{", "}", "\\", "a", "b", "m", "n"}

\* consume_csi: what is left after the body of a CSI sequence.
RECURSIVE ConsumeCsi(_)
ConsumeCsi(text) ==
  IF text # <<>> /\ text[1] \in CsiParams THEN ConsumeCsi(Tail(text))
  ELSE IF text # <<>> /\ text[1] \in CsiFinals THEN Tail(text)
  ELSE text

\* consume_osc: up to BEL, to ESC \\ or to the end of the line.
RECURSIVE ConsumeOsc(_)
ConsumeOsc(text) ==
  CASE text = <<>> \/ (text # <<>> /\ text[1] = "LF") -> text
    [] text # <<>> /\ text[1] = "BEL" -> Tail(text)
    [] text # <<>> /\ text[1] = "ESC" ->
         IF Len(text) > 1 /\ text[2] = "\\" THEN SubSeq(text, 3, Len(text)) ELSE Tail(text)
    [] OTHER -> ConsumeOsc(Tail(text))

\* strip: escape sequences go whole, other control characters alone.
RECURSIVE Strip(_)
Strip(text) ==
  LET rest == Tail(text) IN
  CASE text = <<>> -> <<>>
    [] text # <<>> /\ text[1] = "ESC" /\ rest # <<>> /\ rest[1] = "[" ->
         Strip(ConsumeCsi(Tail(rest)))
    [] text # <<>> /\ text[1] = "ESC" /\ rest # <<>> /\ rest[1] = "]" ->
         Strip(ConsumeOsc(Tail(rest)))
    [] text # <<>> /\ text[1] = "ESC" /\ (rest = <<>> \/ rest[1] \notin {"[", "]"}) ->
         Strip(rest)
    [] OTHER -> (IF text[1] \in Controls THEN <<>> ELSE <<text[1]>>) \o Strip(rest)

Sanitize(raw, maxContent) ==
  IF Len(raw) > maxContent THEN Err("ContentTooLong") ELSE Ok(Strip(raw))

\* str::trim leaves nothing.
Blank(text) == ToSet(text) \subseteq {" ", "LF", "CR"}

-----------------------------------------------------------------------------
(* render_room: title, description, exits, the players and the things here. *)

\* Names joined by commas, and by "and" before the last.
Joined(names, sep) ==
  FlattenSeq([i \in DOMAIN names |-> IF i = 1 THEN names[i] ELSE <<sep>> \o names[i]])
AndJoin(names) ==
  IF Len(names) <= 1 THEN Joined(names, ", ")
  ELSE Joined(Front(names), ", ") \o <<" and ">> \o Last(names)

ExitNames(room) == SelectSeq(DirectionOrder, LAMBDA d : d \in DOMAIN room.exits)
Line(text) == InRole(<<"LF">> \o text, "system")

ExitsLine(room, locale) ==
  LET names == ExitNames(room)
      words == [i \in DOMAIN names |-> <<names[i]>>]
  IN  IF names = <<>> THEN <<>>
      ELSE <<Line(T(locale, "look.exits", << <<"x", Joined(words, ", ")>> >>))>>
PlayersLine(players, locale) ==
  IF players = <<>> THEN <<>>
  ELSE <<Line(T(locale, IF Len(players) = 1 THEN "look.player-here" ELSE "look.players-here",
                << <<"n", AndJoin(players)>> >>))>>
ThingsLine(things, locale) ==
  IF things = <<>> THEN <<>>
  ELSE <<Line(T(locale, "look.also-here", << <<"n", Joined(things, ", ")>> >>))>>

RenderRoom(room, players, things, locale) ==
  (IF room.title.ok THEN Append(room.title.val, Plain(<<"LF">>)) ELSE <<>>)
    \o room.description
    \o ExitsLine(room, locale) \o PlayersLine(players, locale) \o ThingsLine(things, locale)
=============================================================================
