-------------------------------- MODULE Markup --------------------------------
(***************************************************************************)
(* Styled text: styles, palettes, and the compiler from a builder's markup *)
(* to spans (mud-core text/).  A text is a sequence of characters; a       *)
(* colour is a tuple of hex digits, and the tuple <<>> is no colour.       *)
(***************************************************************************)
EXTENDS Integers, Sequences, FiniteSets, SequencesExt

NoColor == <<>>
HexDigits == {"0", "1", "2", "3", "4", "5", "6", "7",
              "8", "9", "a", "b", "c", "d", "e", "f"}

\* Color::from_hex, of the characters an author wrote: three pairs of digits
\* after a "#", nothing more and nothing less.
FromHex(text) ==
  IF text = <<>> \/ text[1] # "#" THEN [ok |-> FALSE, why |-> "MissingHash"]
  ELSE IF ToSet(Tail(text)) \subseteq HexDigits
       THEN IF Len(text) = 7 THEN [ok |-> TRUE, color |-> Tail(text)]
            ELSE [ok |-> FALSE, why |-> "BadLength"]
       ELSE [ok |-> FALSE, why |-> "InvalidDigit"]

-----------------------------------------------------------------------------
(* Styles.                                                                 *)

Unstyled == [fg |-> NoColor, bg |-> NoColor, attrs |-> {}]

WithFg(s, color)  == [s EXCEPT !.fg = color]
WithBg(s, color)  == [s EXCEPT !.bg = color]
WithAttrs(s, set) == [s EXCEPT !.attrs = @ \cup set]

IsUnstyled(s) == s = Unstyled

\* The roles the engine itself speaks in.
BaselineRoles == {"error", "system", "alert", "prompt", "say", "emote", "tell"}

\* Span::plain, Span::styled and Span::role: a role stays a name until the text
\* is rendered.
Plain(text)         == [text |-> text, kind |-> "Plain",  style |-> Unstyled, role |-> ""]
Styled(text, style) == [text |-> text, kind |-> "Direct", style |-> style,    role |-> ""]
InRole(text, role)  == [text |-> text, kind |-> "Role",   style |-> Unstyled, role |-> role]

\* StyledText::to_plain_string.
PlainString(spans) == FlattenSeq([i \in DOMAIN spans |-> spans[i].text])

-----------------------------------------------------------------------------
(* Palettes: styles of roles and colours of names, as functions on the     *)
(* names defined.                                                          *)

ResolveRole(palette, role) ==
  IF role \in DOMAIN palette.roles THEN palette.roles[role] ELSE Unstyled

InsertRole(palette, role, style) ==
  [palette EXCEPT !.roles =
     [r \in DOMAIN @ \cup {role} |-> IF r = role THEN style ELSE @[r]]]

InsertColor(palette, name, color) ==
  [palette EXCEPT !.colors =
     [n \in DOMAIN @ \cup {name} |-> IF n = name THEN color ELSE @[n]]]

\* Palette::baseline, one name for the sixteen and two distinct styles for the
\* seven roles.
Baseline ==
  LET red == <<"c", "c", "0", "0", "0", "0">>
  IN  [colors |-> [n \in {"red"} |-> red],
       roles  |-> [r \in BaselineRoles |->
                     IF r = "alert"
                     THEN WithAttrs(WithBg(Unstyled, red), {"BOLD"})
                     ELSE WithFg(Unstyled, red)]]

-----------------------------------------------------------------------------
(* What a field admits.                                                    *)

TITLE == [default |-> WithAttrs(Unstyled, {"BOLD"}), colors |-> FALSE, attrs |-> {}]
DESCRIPTION == [default |-> Unstyled, colors |-> TRUE,
                attrs |-> {"BOLD", "ITALIC", "UNDERLINE"}]

-----------------------------------------------------------------------------
(* The compiler, at a point of its single pass: the spans so far, the      *)
(* styles of the open tags, the text since the last span, and the          *)
(* diagnostics.                                                            *)

Start == [out |-> <<>>, diags |-> <<>>, stack |-> <<>>, buf |-> <<>>]

Diagnose(c, what) == [c EXCEPT !.diags = Append(@, what)]
PushText(c, text) == [c EXCEPT !.buf = @ \o text]

\* effective_style: inner colours over outer ones, attributes together.
EffectiveStyle(c, field) ==
  FoldLeft(LAMBDA acc, layer :
             [fg    |-> IF layer.fg # NoColor THEN layer.fg ELSE acc.fg,
              bg    |-> IF layer.bg # NoColor THEN layer.bg ELSE acc.bg,
              attrs |-> acc.attrs \cup layer.attrs],
           field.default, c.stack)

Flush(c, field) ==
  LET style == EffectiveStyle(c, field)
      span  == IF IsUnstyled(style) THEN Plain(c.buf) ELSE Styled(c.buf, style)
  IN  IF c.buf = <<>> THEN c
      ELSE [c EXCEPT !.out = Append(@, span), !.buf = <<>>]

AttributeTags == [t \in {<<"b">>, <<"i">>, <<"u">>} |->
  CASE t = <<"b">> -> "BOLD" [] t = <<"i">> -> "ITALIC" [] OTHER -> "UNDERLINE"]

\* resolve_tag and color.
ResolveColor(field, palette, name) ==
  IF ~field.colors THEN [ok |-> FALSE, why |-> "DisallowedTag"]
  ELSE IF \E n \in DOMAIN palette.colors : name = <<n>>
       THEN [ok |-> TRUE, color |-> palette.colors[name[1]]]
       ELSE [ok |-> FALSE, why |-> "UnknownColor"]

ResolveTag(field, palette, tag) ==
  CASE tag \in DOMAIN AttributeTags ->
         IF AttributeTags[tag] \in field.attrs
         THEN [ok |-> TRUE, style |-> WithAttrs(Unstyled, {AttributeTags[tag]})]
         ELSE [ok |-> FALSE, why |-> "DisallowedTag"]
    [] tag # <<>> /\ tag[1] = "fg=" ->
         LET c == ResolveColor(field, palette, Tail(tag))
         IN  IF c.ok THEN [ok |-> TRUE, style |-> WithFg(Unstyled, c.color)] ELSE c
    [] tag # <<>> /\ tag[1] = "bg=" ->
         LET c == ResolveColor(field, palette, Tail(tag))
         IN  IF c.ok THEN [ok |-> TRUE, style |-> WithBg(Unstyled, c.color)] ELSE c
    [] OTHER -> [ok |-> FALSE, why |-> "DisallowedTag"]

\* apply_tag: a tag that adds nothing still opens, so that its close closes it.
\* With a bug in the first: a bad tag is not opened.
ApplyTagUnbalanced(c0, field, palette, tag) ==
  LET c == Flush(c0, field)
      r == ResolveTag(field, palette, tag)
  IN  IF tag = <<"/">>
      THEN IF c.stack = <<>> THEN Diagnose(c, "Malformed")
           ELSE [c EXCEPT !.stack = Front(@)]
      ELSE IF r.ok THEN [c EXCEPT !.stack = Append(@, r.style)]
           ELSE Diagnose(c, r.why)
ApplyTag(c0, field, palette, tag) ==
  LET c == Flush(c0, field)
      r == ResolveTag(field, palette, tag)
  IN  IF tag = <<"/">>
      THEN IF c.stack = <<>> THEN Diagnose(c, "Malformed")
           ELSE [c EXCEPT !.stack = Front(@)]
      ELSE IF r.ok THEN [c EXCEPT !.stack = Append(@, r.style)]
           ELSE [Diagnose(c, r.why) EXCEPT !.stack = Append(@, Unstyled)]

\* The scanner: a doubled brace is a brace, a single one opens a tag that ends
\* at the first closing brace.
RECURSIVE Scan(_, _, _, _)
Scan(c, field, palette, input) ==
  LET rest   == Tail(input)
      ends   == {i \in DOMAIN rest : rest[i] = "}"}
      stop   == CHOOSE i \in ends : \A j \in ends : i <= j
      Twice  == rest # <<>> /\ rest[1] = input[1]
  IN  CASE input = <<>> -> c
        [] input # <<>> /\ input[1] \in {"{", "}"} /\ Twice ->
             Scan(PushText(c, <<input[1]>>), field, palette, Tail(rest))
        [] input # <<>> /\ input[1] = "{" /\ ~Twice /\ ends # {} ->
             Scan(ApplyTag(c, field, palette, SubSeq(rest, 1, stop - 1)),
                  field, palette, SubSeq(rest, stop + 1, Len(rest)))
        [] input # <<>> /\ input[1] = "{" /\ ~Twice /\ ends = {} ->
             PushText(Diagnose(c, "Malformed"), input)
        [] OTHER -> Scan(PushText(c, <<input[1]>>), field, palette, rest)

\* compile_markup.
CompileMarkup(input, field, palette) ==
  LET end == Flush(Scan(Start, field, palette, input), field)
      all == IF end.stack = <<>> THEN end ELSE Diagnose(end, "Malformed")
  IN  [text |-> all.out, diagnostics |-> all.diags]
=============================================================================
