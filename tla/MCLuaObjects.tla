---------------------------- MODULE MCLuaObjects ----------------------------
(***************************************************************************)
(* Model checking of the objects of a Lua script.                          *)
(***************************************************************************)
EXTENDS LuaObjects, TLC

CONSTANTS o1, o2, o3

MCObjects == {o1, o2, o3}

\* The objects are alike until they are made, and no property tells them apart.
Symmetry == Permutations(MCObjects)
=============================================================================
