--------------------------- MODULE MCTriggerSource ---------------------------
(***************************************************************************)
(* Model checking of the trigger source.                                   *)
(***************************************************************************)
EXTENDS TriggerSource
=============================================================================
