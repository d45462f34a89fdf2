--------------------------- MODULE MCTelnetStream ---------------------------
(***************************************************************************)
(* Bytes for TLC: payloads short, at and past the two lengths that matter  *)
(* (four bytes of NAWS, MaxSubneg = 4), with bytes that must be escaped    *)
(* there.                                                                  *)
(***************************************************************************)
EXTENDS TelnetStream

PayloadsAtLimits ==
  {<<>>, <<"NUL", "a">>, <<"IAC", "a", "NUL", "IAC">>, <<"NUL", "SE", "IAC", "a">>,
   <<"NUL", "a", "a", "IAC", "IAC">>}
=============================================================================
