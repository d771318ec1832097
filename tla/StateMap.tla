------------------------------ MODULE StateMap ------------------------------
(***************************************************************************)
(* The template function $(state) (src/modules/basicfuncs-plus/            *)
(* state-funcs.c): one hash table for the whole process, made by the first *)
(* call that sets something, behind a readers-writer lock.  Templates are  *)
(* formatted by any thread of syslog-ng.                                   *)
(*                                                                         *)
(* A call with a value sets the name under the writer lock, gives the lock *)
(* back, and then reads the name like a call without a value: its result   *)
(* is whatever the name has by then.                                       *)
(***************************************************************************)
EXTENDS Integers, Sequences, FiniteSets

CONSTANTS
    Threads,    \* the threads that format templates
    Names,      \* the names of variables
    Values,     \* the values they are set to
    Unset,      \* what a name has that was never set
    MaxCalls    \* bound: how many calls of $(state) are made

ASSUME UnsetAssumption == Unset \notin Values
ASSUME MaxCallsAssumption == MaxCalls \in Nat

VARIABLES
    pc,         \* where each thread is in tf_state()
    name,       \* the first argument of each thread's call
    value,      \* its second argument, or Unset
    result,     \* what each thread's last call appended to its result
    made,       \* the hash table exists
    table,      \* what the hash table holds
    broken,     \* g_hash_table_insert() is halfway
    leaked,     \* keys and values that were replaced and never released
    sets,       \* history: what was set, in order
    since       \* history: how long sets was when a thread's call began, or
                \* which of them is its own

stateVars == <<pc, name, value, result, made, table, broken, leaked, sets, since>>

Steps == {"idle", "setlock", "insert", "link", "setunlock", "getlock", "lookup", "getunlock"}

StateInit ==
    /\ pc = [t \in Threads |-> "idle"]
    /\ name \in [Threads -> Names]
    /\ value = [t \in Threads |-> Unset]
    /\ result = [t \in Threads |-> Unset]
    /\ made = FALSE
    /\ table = [n \in Names |-> Unset]
    /\ broken = FALSE
    /\ leaked = 0
    /\ sets = <<>>
    /\ since = [t \in Threads |-> 0]

Goes(t, from, to) == pc[t] = from /\ pc' = [pc EXCEPT ![t] = to]

\* g_rw_lock_*_lock(): who holds the lock is told by where the threads are.
Writing == {t \in Threads : pc[t] \in {"insert", "link", "setunlock"}}
Reading == {t \in Threads : pc[t] \in {"lookup", "getunlock"}}

-----------------------------------------------------------------------------
\* tf_state(): one argument reads, two set and then read.
Call(t, n, v) ==
    /\ Len(sets) + Cardinality({u \in Threads : pc[u] # "idle"}) < MaxCalls
    /\ Goes(t, "idle", IF v = Unset THEN "getlock" ELSE "setlock")
    /\ name' = [name EXCEPT ![t] = n]
    /\ value' = [value EXCEPT ![t] = v]
    /\ since' = [since EXCEPT ![t] = Len(sets)]
    /\ UNCHANGED <<result, made, table, broken, leaked, sets>>

\* tf_state_set().
SetLock(t) ==
    /\ Writing = {} /\ Reading = {}
    /\ Goes(t, "setlock", "insert")
    /\ UNCHANGED <<name, value, result, made, table, broken, leaked, sets, since>>

\* Mutation of InsertBegins: every call makes a table.
InsertBegins_New(t) ==
    /\ Goes(t, "insert", "link")
    /\ made' = TRUE
    /\ broken' = TRUE
    /\ table' = [n \in Names |-> Unset]
    /\ UNCHANGED <<name, value, result, leaked, sets, since>>

\* The table is made if there is none, and the insertion begins.
InsertBegins(t) ==
    /\ Goes(t, "insert", "link")
    /\ made' = TRUE
    /\ broken' = TRUE
    /\ UNCHANGED <<name, value, result, table, leaked, sets, since>>

\* The insertion is complete.  The table was made without functions to release
\* keys and values: of a name that was there the old value stays, and the copy
\* of its key.
InsertEnds(t) ==
    /\ Goes(t, "link", "setunlock")
    /\ table' = [table EXCEPT ![name[t]] = value[t]]
    /\ leaked' = leaked + (IF table[name[t]] = Unset THEN 0 ELSE 2)
    /\ broken' = FALSE
    /\ sets' = Append(sets, <<name[t], value[t]>>)
    /\ since' = [since EXCEPT ![t] = Len(sets')]
    /\ UNCHANGED <<name, value, result, made>>

SetUnlock(t) ==
    /\ Goes(t, "setunlock", "getlock")
    /\ UNCHANGED <<name, value, result, made, table, broken, leaked, sets, since>>

\* Mutation of GetLock: the table is read without the lock.
GetLock_None(t) ==
    /\ Goes(t, "getlock", "lookup")
    /\ UNCHANGED <<name, value, result, made, table, broken, leaked, sets, since>>

\* tf_state_get(), which both kinds of calls end with.
GetLock(t) ==
    /\ Writing = {}
    /\ Goes(t, "getlock", "lookup")
    /\ UNCHANGED <<name, value, result, made, table, broken, leaked, sets, since>>

\* Without a table, or without the name in it, nothing is appended.
Lookup(t) ==
    /\ Goes(t, "lookup", "getunlock")
    /\ result' = [result EXCEPT ![t] = IF made THEN table[name[t]] ELSE Unset]
    /\ UNCHANGED <<name, value, made, table, broken, leaked, sets, since>>

GetUnlock(t) ==
    /\ Goes(t, "getunlock", "idle")
    /\ UNCHANGED <<name, value, result, made, table, broken, leaked, sets, since>>

ThreadStep(t) ==
    \/ \E n \in Names, v \in Values \union {Unset} : Call(t, n, v)
    \/ SetLock(t) \/ InsertBegins(t) \/ InsertEnds(t) \/ SetUnlock(t)
    \/ GetLock(t) \/ Lookup(t) \/ GetUnlock(t)

StateNext == \E t \in Threads : ThreadStep(t)

StateSpec == StateInit /\ [][StateNext]_stateVars

-----------------------------------------------------------------------------
\* Properties.

StateTypeOK ==
    /\ pc \in [Threads -> Steps]
    /\ name \in [Threads -> Names]
    /\ value \in [Threads -> Values \union {Unset}]
    /\ result \in [Threads -> Values \union {Unset}]
    /\ made \in BOOLEAN /\ broken \in BOOLEAN
    /\ table \in [Names -> Values \union {Unset}]
    /\ leaked \in Nat
    /\ sets \in Seq(Names \X Values)
    /\ since \in [Threads -> 0..Len(sets)]

\* What name n had after the first k values were set.
ValueAfter(n, k) ==
    LET own == {i \in 1..k : sets[i][1] = n}
    IN  IF own = {} THEN Unset ELSE sets[CHOOSE i \in own : \A j \in own : j <= i][2]

\* The lock keeps writers apart from readers and from each other, so that nobody
\* sees an insertion that is halfway; and what a call reads is what the name had
\* at some moment of the call: for a call that set a value its own or a later
\* one, never an earlier one.
ReadsAreCurrent ==
    /\ broken => Reading = {}
    /\ Cardinality(Writing) <= 1
    /\ \A t \in Threads :
          pc[t] = "getunlock" =>
              \E k \in since[t]..Len(sets) : result[t] = ValueAfter(name[t], k)

\* The hash table implements the store of named values.
Store == INSTANCE StateStore WITH store <- table

StoreSpec == Store!Spec
=============================================================================
