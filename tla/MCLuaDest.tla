----------------------------- MODULE MCLuaDest -----------------------------
(***************************************************************************)
(* Model checking of the Lua destination, with any script and with the one *)
(* for Elasticsearch.                                                      *)
(***************************************************************************)
EXTENDS EsBatch

CONSTANTS s1, s2

MCSources == {s1, s2}
=============================================================================
