--------------------------- MODULE MCRiemannDest ---------------------------
(***************************************************************************)
(* Model checking of the Riemann destination on two sources.               *)
(***************************************************************************)
EXTENDS RiemannDest

CONSTANTS s1, s2

MCSources == {s1, s2}
=============================================================================
