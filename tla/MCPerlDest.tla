----------------------------- MODULE MCPerlDest -----------------------------
(***************************************************************************)
(* Model checking of the Perl destination.                                 *)
(***************************************************************************)
EXTENDS PerlDest

CONSTANTS s1, s2

MCSources == {s1, s2}
=============================================================================
