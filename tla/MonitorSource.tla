--------------------------- MODULE MonitorSource ---------------------------
(***************************************************************************)
(* The monitor source (src/modules/monitor-source/monitor-source.c): each  *)
(* time its timer expires it calls a Lua function and posts what that      *)
(* returns, a string or a table, as the values of a message.               *)
(*                                                                         *)
(* The walk over the table asks for each key as a string.  lua_tostring()  *)
(* turns a number into its string on the stack, and lua_next() goes on     *)
(* from that string: to the entry after the one with the string as its     *)
(* key, or into an error that nobody catches.                              *)
(***************************************************************************)
EXTENDS TimedSource, Sequences, FiniteSets

CONSTANTS
    MaxEntries, \* bound: the entries of a table the script returns
    Slots,      \* bound: the slots Lua guarantees to C code (LUA_MINSTACK)
    MaxErrors   \* bound: how many calls of the script fail

ASSUME BoundsAssumption == MaxEntries \in Nat /\ Slots \in Nat /\ MaxErrors \in Nat

VARIABLES
    errors,     \* error messages of failed calls left on the Lua stack
    lost,       \* messages made for calls that failed, and never released
    table,      \* the table the script returned, in the order of lua_next()
    at,         \* the place of the walk in that table
    pairs       \* the names set on the message so far

luaVars == <<errors, lost, table, at, pairs>>
vars == <<timedVars, luaVars>>

\* Keys: two strings, the number that reads like the first of them, and a
\* Boolean, which has no string.
StringKeys == {"1", "name"}
Keys == StringKeys \union {"number 1", "boolean"}

\* What lua_tostring() makes of a key, the empty string standing for NULL.
ToString(key) ==
    IF key \in StringKeys THEN key ELSE IF key = "number 1" THEN "1" ELSE ""

\* An entry has a value that is a string (or a number), or one that is not.
Entries == [key : Keys, isString : BOOLEAN]

\* The tables a script may return: no key twice, in any order.
Tables ==
    {t \in UNION {[1..n -> Entries] : n \in 0..MaxEntries} :
        \A i, j \in DOMAIN t : i # j => t[i].key # t[j].key}

Init ==
    /\ TimedInit
    /\ errors = 0 /\ lost = 0
    /\ table = <<>> /\ at = 0
    /\ pairs = {}

-----------------------------------------------------------------------------

\* monitor_sd_init() makes a Lua state and has monitor_source_init() load the
\* script, which may fail; the driver does not look at the result.
MonitorSdInit ==
    /\ \E started \in BOOLEAN : SdInit(started, TRUE)
    /\ errors' = 0
    /\ UNCHANGED <<lost, table, at, pairs>>

MonitorSdDeinit == SdDeinit /\ UNCHANGED luaVars

\* The script runs when it is loaded, when it is called and, with what it left to
\* finalise, when its state is closed, and nothing keeps it from ending the process
\* (os.exit()).
ScriptEnds ==
    /\ pc \in {"idle", "call"}
    /\ phase = "up" \/ inits < MaxInits
    /\ death' = "script"
    /\ UNCHANGED <<luaVars, phase, inits, option, corrupt, registered, running, left,
                   window, pc>>

\* monitor_source_monitored(), up to the check of the window.
Monitored == Expire("call") /\ UNCHANGED luaVars

\* Mutation of StackFits: the walk copies each key before it reads it.
StackFits_Copy == 1 + errors + 4 <= Slots

\* On the stack: the table of library functions, the errors, and at most the
\* result, a key and a value.  More than there are slots is undefined.
StackFits == 1 + errors + 3 <= Slots

\* The function is looked up under the name the option gives it, and called.
Call ==
    \/ UseOption
    \/ ~StackFits /\ death' = "driver" /\ UNCHANGED corrupt

\* The function is called and fails.  The message that was made for its result
\* is not released, the error stays on the stack, and the timer goes on.
ScriptFails ==
    /\ pc = "call" /\ lost < MaxErrors
    /\ errors' = errors + 1
    /\ lost' = lost + 1
    /\ Call
    /\ pc' = "update"
    /\ UNCHANGED <<table, at, pairs,
                   phase, inits, option, registered, running, left, window>>

\* The function returns: a string becomes the value MESSAGE, a table is walked,
\* and anything else leaves the message empty.
ScriptReturns ==
    /\ pc = "call"
    /\ \/ \E t \in Tables :
             table' = t /\ at' = 1 /\ pairs' = {} /\ pc' = "walk"
       \/ \E result \in {{"MESSAGE"}, {}} :
             pairs' = result /\ table' = <<>> /\ at' = 0 /\ pc' = "post"
    /\ Call
    /\ UNCHANGED <<errors, lost,
                   phase, inits, option, registered, running, left, window>>

\* The place of a string key in the table, 0 if it is none of its keys.
PlaceOf(key) ==
    IF \E i \in DOMAIN table : table[i].key = key
    THEN CHOOSE i \in DOMAIN table : table[i].key = key
    ELSE 0

\* Mutation of NextPlace: a value that is not a string is not taken off.
NextPlace_NoPop == IF table[at].isString THEN at + 1 ELSE at

\* Where lua_next() goes on: it looks for the key it finds on the stack, which
\* is the string of a number by now.
NextPlace ==
    IF table[at].key = "number 1" THEN PlaceOf("1") + 1 ELSE at + 1

\* Mutation of Walk: the walk ends at the first value that is not a string.
Walk_Stop ==
    /\ pc = "walk" /\ at <= Len(table)
    /\ LET e == table[at]
       IN  /\ pairs' = IF e.isString THEN pairs \union {ToString(e.key)} ELSE pairs
           /\ at' = IF e.isString THEN NextPlace ELSE Len(table) + 1
           /\ death' = IF \/ e.key = "number 1" /\ PlaceOf("1") = 0
                          \/ e.key = "boolean" /\ e.isString
                       THEN "driver" ELSE "no"
    /\ UNCHANGED <<errors, lost, table, phase, inits, option, corrupt, registered, running,
                   left, window, pc>>

\* One entry.  A value that is a string is set under the string of the key; a
\* key without one is a null pointer then.  A number whose string is no key of
\* the table ends the process: the error of lua_next() is not protected.
Walk ==
    /\ pc = "walk" /\ at <= Len(table)
    /\ LET e == table[at]
       IN  /\ pairs' = IF e.isString THEN pairs \union {ToString(e.key)} ELSE pairs
           /\ at' = NextPlace
           /\ death' = IF \/ e.key = "number 1" /\ PlaceOf("1") = 0
                          \/ e.key = "boolean" /\ e.isString
                       THEN "driver" ELSE "no"
    /\ UNCHANGED <<errors, lost, table, phase, inits, option, corrupt, registered, running,
                   left, window, pc>>

WalkEnds ==
    /\ pc = "walk" /\ at > Len(table)
    /\ pc' = "post"
    /\ UNCHANGED <<luaVars, phase, inits, option, corrupt, death, registered, running,
                   left, window>>

\* The message goes out, and what the handler knew of the result is gone.
PostMessage ==
    /\ pc = "post"
    /\ Queue
    /\ table' = <<>> /\ at' = 0 /\ pairs' = {}
    /\ UNCHANGED <<corrupt, death, errors, lost>>

HandlerStep ==
    \/ Monitored \/ ScriptFails \/ ScriptReturns \/ Walk \/ WalkEnds \/ PostMessage
    \/ UpdateWatches /\ UNCHANGED luaVars

\* A process that ended does nothing any more.
Next ==
    /\ alive
    /\ \/ Tick /\ UNCHANGED luaVars
       \/ Ack /\ UNCHANGED luaVars
       \/ MonitorSdInit \/ MonitorSdDeinit \/ ScriptEnds
       \/ HandlerStep

\* Time passes, the main loop runs what is due, and the destinations
\* acknowledge what they were given.
Spec ==
    /\ Init /\ [][Next]_vars
    /\ WF_vars(alive /\ Tick /\ UNCHANGED luaVars)
    /\ WF_vars(alive /\ Ack /\ UNCHANGED luaVars)
    /\ WF_vars(alive /\ HandlerStep)

-----------------------------------------------------------------------------
\* Properties.

HasKey(key) == PlaceOf(key) # 0

TypeOK ==
    /\ TimedTypeOK
    /\ pc \in {"idle", "call", "walk", "post", "update"}
    /\ errors \in 0..MaxErrors /\ lost \in 0..MaxErrors
    /\ table \in Seq(Entries)
    /\ at \in 0..(MaxEntries + 1)
    /\ pairs \subseteq (StringKeys \union {"MESSAGE", ""})

\* What a table becomes.  If its keys are all strings, a message with exactly the
\* values of the table that are strings.  If one is a number it is never posted,
\* unless the string of that number is a key as well and comes later; what is
\* between them is skipped.
TablesArePostedRight ==
    pc = "post" /\ table # <<>> =>
        /\ ~HasKey("number 1") /\ ~HasKey("boolean") =>
              pairs = {table[i].key : i \in {j \in DOMAIN table : table[j].isString}}
        /\ HasKey("number 1") => PlaceOf("number 1") < PlaceOf("1")

\* What the process dies of when the script does not end it: the table in its
\* hands, by a number whose string is no key or a string value under a key without
\* a string; calls that failed since the driver was initialised, for each leaves
\* its error on the stack, and together they take the slots a walk needs; or, from
\* the second life of the driver on, the option it freed.
CrashHasACause ==
    death = "driver" =>
        \/ HasKey("number 1") /\ ~HasKey("1")
        \/ \E i \in DOMAIN table : table[i] = [key |-> "boolean", isString |-> TRUE]
        \/ errors >= Slots - 3
        \/ corrupt

\* A walk comes to an end, unless a number follows the string that reads alike:
\* then the main thread goes round for ever.
WalkComesToAnEnd ==
    pc = "walk" ~>
        \/ pc # "walk" \/ ~alive
        \/ HasKey("1") /\ PlaceOf("1") < PlaceOf("number 1")
=============================================================================
