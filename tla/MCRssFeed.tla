------------------------------ MODULE MCRssFeed ------------------------------
(***************************************************************************)
(* Model checking of the RSS destination.                                  *)
(***************************************************************************)
EXTENDS RssFeed

CONSTANTS w1, w2, p1, p2

MCWriters == {w1, w2}
MCPorts == {p1, p2}
=============================================================================
