---------------------------- MODULE MCPythonDest ----------------------------
(***************************************************************************)
(* Model checking of the Python destination.                               *)
(***************************************************************************)
EXTENDS PythonDest

CONSTANTS s1, s2

MCSources == {s1, s2}
=============================================================================
