------------------------------ MODULE Rendering ------------------------------
(***************************************************************************)
(* What a client is sent of a styled text: the ANSI form of its tier       *)
(* (mud-net render.rs, convert.rs, tier.rs) and the telnet encoding of     *)
(* that form (telnet/mod.rs).  A screen is a sequence of [sgr, ch, style]: *)
(* an escape sequence that sets a style, or a character.                   *)
(***************************************************************************)
EXTENDS Markup

Tiers == {"Mono", "Ansi16", "Xterm256", "Truecolor"}
DEFAULT_TENANT_TIER == "Ansi16"

\* resolve_tier.
ResolveTier(noColor, tenantDefault) == IF noColor THEN "Mono" ELSE tenantDefault

\* color_for_tier: the nearest colour of a tier is the tier's form of the colour.
ColorForTier(color, tier) ==
  IF color = NoColor \/ tier = "Mono" THEN NoColor ELSE <<tier>> \o color

\* to_anstyle and to_effects: every attribute survives every tier.
ToAnstyle(style, tier) ==
  [fg |-> ColorForTier(style.fg, tier), bg |-> ColorForTier(style.bg, tier),
   attrs |-> style.attrs]

Char(ch)   == [sgr |-> FALSE, ch |-> ch, style |-> Unstyled]
Sgr(style) == [sgr |-> TRUE,  ch |-> "", style |-> style]
Chars(text) == [i \in DOMAIN text |-> Char(text[i])]

\* resolve.
ResolveStyle(span, palette) ==
  IF span.kind = "Role" THEN ResolveRole(palette, span.role) ELSE span.style

\* One span: prefix, text, reset; an unstyled span has neither.  With a bug in
\* the first: the reset is left to the next prefix.
RenderSpanOpen(span, palette, tier) ==
  LET style == ToAnstyle(ResolveStyle(span, palette), tier)
  IN  IF IsUnstyled(style) THEN Chars(span.text)
      ELSE <<Sgr(style)>> \o Chars(span.text)
RenderSpan(span, palette, tier) ==
  LET style == ToAnstyle(ResolveStyle(span, palette), tier)
  IN  IF IsUnstyled(style) THEN Chars(span.text)
      ELSE <<Sgr(style)>> \o Chars(span.text) \o <<Sgr(Unstyled)>>

Render(spans, palette, tier) ==
  FlattenSeq([i \in DOMAIN spans |-> RenderSpan(spans[i], palette, tier)])

-----------------------------------------------------------------------------
(* encode_output: characters of a legacy charset, the line ends of telnet, *)
(* and the doubled IAC.                                                    *)

\* transliterate_preserving_escapes: a character outside ASCII becomes an ASCII
\* one, control characters but "LF" disappear, escape sequences pass.
NonAscii == {"e-acute"}
Controls == {"ESC", "BEL", "CR", "NUL"}
Transliterated(item) ==
  IF item.sgr \/ item.ch \notin NonAscii \cup Controls THEN <<item>>
  ELSE IF item.ch \in NonAscii THEN Chars(<<"e">>)
  ELSE IF item.ch = "ESC" THEN <<item>> ELSE <<>>

\* One byte of the encoded text.
Escaped(item) ==
  CASE item.ch = "LF"  -> Chars(<<"CR", "LF">>)
    [] item.ch = "CR"  -> <<>>
    [] item.ch = "IAC" -> Chars(<<"IAC", "IAC">>)
    [] OTHER           -> <<item>>

EncodeOutput(screen, charset) ==
  LET ascii == IF charset = "Utf8" THEN screen
               ELSE FlattenSeq([i \in DOMAIN screen |-> Transliterated(screen[i])])
  IN  FlattenSeq([i \in DOMAIN ascii |-> Escaped(ascii[i])])

PromptFrame(eor) == Chars(IF eor THEN <<"IAC", "EOR">> ELSE <<"IAC", "GA">>)

-----------------------------------------------------------------------------
(* How a terminal reads a screen back: the characters it shows, each in    *)
(* the style in force.                                                     *)

Shown(screen) ==
  LET Step(acc, item) ==
        IF item.sgr THEN [acc EXCEPT !.style = item.style]
        ELSE [acc EXCEPT !.cells = Append(@, [ch |-> item.ch, style |-> acc.style])]
  IN  FoldLeft(Step, [style |-> Unstyled, cells |-> <<>>], screen)

TextShown(screen) ==
  LET cells == Shown(screen).cells IN [i \in DOMAIN cells |-> cells[i].ch]
=============================================================================
