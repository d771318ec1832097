----------------------------- MODULE StateStore -----------------------------
(***************************************************************************)
(* What $(state) promises: named values that are set one at a time, and a  *)
(* value once set is read until another one takes its place.               *)
(***************************************************************************)
CONSTANTS
    Names,      \* the names of variables
    Values,     \* the values they are set to
    Unset       \* what a name has that was never set

VARIABLE store

Init == store = [n \in Names |-> Unset]

Set(n, v) == store' = [store EXCEPT ![n] = v]

Next == \E n \in Names, v \in Values : Set(n, v)

Spec == Init /\ [][Next]_store
=============================================================================
