------------------------------ MODULE Delivery ------------------------------
(***************************************************************************)
(* What a threaded destination of the incubator promises to the log path   *)
(* that feeds it, whatever the target is: every message it accepted gets   *)
(* exactly one verdict, in the order the messages were accepted.           *)
(* A verdict is what the statistics of the driver count: "stored" or       *)
(* "dropped".  Messages without a verdict are still pending.               *)
(***************************************************************************)
EXTENDS Sequences

CONSTANTS
    Message,    \* the messages the log path can hand over
    Verdicts    \* the outcomes a destination can report

VARIABLES
    accepted,   \* the messages handed over so far
    pending,    \* those still waiting for their verdict, oldest first
    settled     \* the verdicts given, oldest first

vars == <<accepted, pending, settled>>

Init ==
    /\ accepted = {}
    /\ pending = <<>>
    /\ settled = <<>>

\* The log path hands a message over; a message is handed over only once.
Accept(m) ==
    /\ m \notin accepted
    /\ accepted' = accepted \union {m}
    /\ pending' = Append(pending, m)
    /\ UNCHANGED settled

\* The oldest pending message gets its one verdict.
Settle(v) ==
    /\ pending # <<>>
    /\ settled' = Append(settled, [msg |-> Head(pending), verdict |-> v])
    /\ pending' = Tail(pending)
    /\ UNCHANGED accepted

Next ==
    \/ \E m \in Message : Accept(m)
    \/ \E v \in Verdicts : Settle(v)

Spec == Init /\ [][Next]_vars
=============================================================================
