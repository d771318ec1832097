--------------------------- MODULE TriggerSource ---------------------------
(***************************************************************************)
(* The trigger source (src/modules/trigger-source/trigger-source.c): each  *)
(* time its timer expires it posts the configured message.                 *)
(***************************************************************************)
EXTENDS TimedSource

\* The driver's init; that of the source cannot fail and reads no option.
TriggerSdInit == SdInit(TRUE, FALSE)

\* trigger_source_triggered(), up to the check of the window.
Triggered == Expire("post")

\* The message is made from the option string and queued.
PostMessage ==
    /\ pc = "post"
    /\ Queue
    /\ UseOption

HandlerStep == Triggered \/ PostMessage \/ UpdateWatches

\* A process that ended does nothing any more.
Next == alive /\ (Tick \/ Ack \/ TriggerSdInit \/ SdDeinit \/ HandlerStep)

\* Time passes, the main loop runs what is due, and the destinations
\* acknowledge what they were given; nothing says when the driver goes.
Spec ==
    /\ TimedInit /\ [][Next]_timedVars
    /\ WF_timedVars(alive /\ Tick) /\ WF_timedVars(alive /\ HandlerStep)
    /\ WF_timedVars(alive /\ Ack)

TypeOK == TimedTypeOK /\ pc \in {"idle", "post", "update"}
=============================================================================
