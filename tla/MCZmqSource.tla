----------------------------- MODULE MCZmqSource -----------------------------
(***************************************************************************)
(* Model checking of the ZeroMQ source.                                    *)
(***************************************************************************)
EXTENDS ZmqSource

CONSTANTS p1, p2

MCPorts == {p1, p2}
=============================================================================
