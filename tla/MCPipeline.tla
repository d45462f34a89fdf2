------------------------------ MODULE MCPipeline ------------------------------
(***************************************************************************)
(* Two puppets, two sessions and three rooms in a row, the last with an    *)
(* exit to a place no room has.  The built-in commands by their first two  *)
(* letters, and an author's, whose names share letters with them.          *)
(***************************************************************************)
EXTENDS Pipeline

Cmd(name, aliases) == [name |-> name, aliases |-> aliases]

MCNameOrder ==
  << <<"l", "o">>, <<"n">>, <<"n", "o">>, <<"q", "u">>, <<"s">>, <<"s", "a">>,
     <<"s", "o">>, <<"w", "h">> >>
MCBuiltins ==
  << Cmd(<<"l", "o">>, << <<"l">> >>), Cmd(<<"s", "a">>, <<>>), Cmd(<<"w", "h">>, <<>>),
     Cmd(<<"n", "o">>, << <<"n">> >>), Cmd(<<"s", "o">>, << <<"s">> >>),
     Cmd(<<"q", "u">>, <<>>) >>
MCBundles ==
  { <<Cmd(<<"s">>, <<>>)>>, <<Cmd(<<"s">>, << <<"n">> >>)>>,
    <<Cmd(<<"s", "o">>, << <<"n", "s">> >>)>>,
    <<Cmd(<<"n">>, << <<"s">>, <<"n", "s">> >>)>>,
    <<Cmd(<<"s", "o">>, << <<"n">> >>), Cmd(<<"n">>, <<>>)>> }

MCPuppetOrder == <<"ana", "bo">>
MCPathOrder == <<>>
MCGated == <<"n", "o">>

Line3(head, switches, args) == [head |-> head, switches |-> switches, args |-> args]
Bare(head) == Line3(head, <<>>, <<>>)
Saying(text) == Line3(<<"s", "a">>, <<>>, text)
MCLines ==
  {Bare(<<>>), Line3(<<>>, << <<"a">> >>, <<>>), Line3(<<"n">>, << <<>> >>, <<>>),
   Bare(<<"N">>), Bare(<<"n", "o">>), Bare(<<"s">>), Bare(<<"l">>), Bare(<<"w">>),
   Bare(<<"q">>), Bare(<<"z">>),
   Saying(<<"h">>), Saying(<<"{", "$", "n", "}">>), Saying(<<"ESC", "[", "1", "m", "a">>),
   Saying(<<"a">> \o Tight("m")), Saying(Tight("m") \o <<"b">> \o Tight("m")),
   Saying(<<"a">> \o Spaced("m") \o <<"b">>), Saying(<<"a">> \o Spaced("n")),
   Saying(<<"a", "{", "ESC", "[", "m", "$", "m", "}">>),
   Saying(<<"ESC", "]", "a", "BEL", "{", " ", "$", "m", " ", "}">>),
   Saying(<<"ESC", "]", "a", "ESC", "[", "b">>), Saying(<<"BEL", " ", "NUL">>),
   Saying([i \in 1 .. 13 |-> "h"])}

MCNameOf == [p \in {"ana", "bo"} |-> <<IF p = "ana" THEN "Ana" ELSE "Bo">>]
MCAccess ==
  [p \in {"ana", "bo"} |->
     IF p = "ana" THEN [NoAccess EXCEPT !.perm = {"b"}] ELSE [NoAccess EXCEPT !.self = TRUE]]

Here(exits) == [title |-> Ok(<<Styled(<<"Room">>, TITLE.default)>>),
                description |-> <<Plain(<<"Quiet.">>)>>, exits |-> exits]
MCRooms ==
  << Here([d \in {"north"} |-> 2]),
     Here([d \in {"north", "south"} |-> IF d = "north" THEN 3 ELSE 1]),
     Here([d \in {"north", "south"} |-> IF d = "north" THEN 4 ELSE 2]) >>

P == <<"perm", "(", "b", ")">>
S == <<"self", "(", ")">>
MCPieces ==
  {P, S, <<"(">> \o P \o <<"or">> \o S \o <<")">>, <<"not">>, <<"and">>, <<"or">>,
   <<"(">>, <<")">>, <<"perm", "(", ")">>, <<"fly", "(", ")">>}
MCLockSamples == {<<>>, <<P>>}
=============================================================================
