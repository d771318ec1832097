--------------------------- MODULE MCTemplateFuncs ---------------------------
(***************************************************************************)
(* Model checking of the template functions.                               *)
(***************************************************************************)
EXTENDS TemplateFuncs

CONSTANTS t1, t2, v1, v2, x, y

MCThreads == {t1, t2}
MCNames == {x, y}
MCValues == {v1, v2}

\* Numbers below zero, the bounds of two bytes (of three values), and more: -11 is
\* 7 as an id, and 18 and 21 are 0 and 3.
MCNumbers == {-11} \union -2..11 \union {18, 21}

MCTexts == {<<>>, <<"a">>, <<"a", "b">>}

\* Two names of one number, as aliases are.
MCServices == [ssh |-> 5, http |-> 8, www |-> 8, first |-> 0]
MCProtocols == [ip |-> 0, icmp |-> 1, tcp |-> 6, same |-> 4]
MCUsers == [root |-> 0, toor |-> 0, sys |-> 3]
MCGroups == [adm |-> 4, empty |-> 7]
MCMembers == [adm |-> <<"root", "sys">>, empty |-> <<>>]
=============================================================================
