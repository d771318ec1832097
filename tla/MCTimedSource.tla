--------------------------- MODULE MCTimedSource ---------------------------
(***************************************************************************)
(* Model checking of the two timer-driven sources: a configuration has one *)
(* driver of either kind.                                                  *)
(***************************************************************************)
EXTENDS MonitorSource

Trigger == INSTANCE TriggerSource

VARIABLE kind   \* the driver the configuration names: "trigger" or "monitor"

MCInit == Init /\ kind \in {"trigger", "monitor"}

MCNext ==
    /\ UNCHANGED kind
    /\ \/ kind = "trigger" /\ Trigger!Next /\ UNCHANGED luaVars
       \/ kind = "monitor" /\ Next

\* The main loop runs what is due.  The liveness property is about the walk of
\* the monitor source.
MCSpec ==
    /\ MCInit /\ [][MCNext]_<<vars, kind>>
    /\ WF_<<vars, kind>>(kind = "monitor" /\ alive /\ HandlerStep /\ UNCHANGED kind)
=============================================================================
