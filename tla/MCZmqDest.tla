----------------------------- MODULE MCZmqDest -----------------------------
(***************************************************************************)
(* Model checking of the ZeroMQ destination.                               *)
(***************************************************************************)
EXTENDS ZmqDest

CONSTANTS s1, s2

MCSources == {s1, s2}
=============================================================================
