------------------------------ MODULE LuaDest ------------------------------
(***************************************************************************)
(* The Lua destination (src/modules/lua/lua-dest.c): the insert function   *)
(* lua_dd_queue() and the stack of the Lua state it shares with nobody     *)
(* but leaves values on.                                                   *)
(*                                                                         *)
(* Nothing in the driver looks at how deep the stack is.  Initialisation   *)
(* leaves the library tables on it (and a nil when there is no init        *)
(* function), each failed call leaves its error message, and a parameter   *)
(* that does not convert makes lua_settable() aim at the wrong value.      *)
(*                                                                         *)
(* The state is made with the driver and closed by its deinit, so a driver *)
(* can be initialised once.  When a reload brings a driver whose init      *)
(* fails, syslog-ng falls back on the old configuration and initialises    *)
(* the old driver again, with a state that is closed.                      *)
(*                                                                         *)
(* The process may end in two ways: the script ends it (os.exit(), a field *)
(* of something that is no message, a finaliser called by hand), or the    *)
(* driver uses a Lua state in a way nobody defined, and then it may also   *)
(* go on.                                                                  *)
(***************************************************************************)
EXTENDS LogThrDest

CONSTANTS
    NParams,        \* how many values params() has, 0 without params()
    BadGlobals,     \* how many globals() of a configuration do not convert to
                    \* their type: the numbers there may be
    StackSlots      \* bound: the slots Lua guarantees to C code (LUA_MINSTACK)

\* The library tables luaL_openlib() leaves: Message, Template and syslogng.
Libraries == 3

ASSUME NParamsAssumption == NParams \in Nat
ASSUME BadGlobalsAssumption == BadGlobals \subseteq Nat
ASSUME StackSlotsAssumption == StackSlots \in Nat

VARIABLES
    pc,         \* where the worker is inside lua_dd_queue()
    luaState,   \* self->state of the driver that ran last: "none" before there
                \* was one, "open", or "closed"
    bad,        \* the globals that did not convert, of the driver initialised last
    refused,    \* the init of a driver has failed, and the old one is to be back
    restored,   \* the driver that ran last had run before
    stack,      \* the stack of self->state: what kind of value is where
    base,       \* how many values initialisation left on it
    before,     \* history: what "dropped" was when this driver was initialised
    left,       \* parameters still to be put in the table of this call
    success,    \* local success of the insert
    death       \* what ended the process: "no", "script" or "driver"

stateVars == <<luaState, bad, refused, restored, base, before>>
drvVars == <<pc, stack, stateVars, left, success, death>>
vars == <<thrVars, drvVars>>

Kinds == {"library", "nil", "error", "function", "message", "table", "key", "value"}

alive == death = "no"

\* lua_setglobal() takes a value off the stack for each global.  One that does
\* not convert was never pushed, so a library table goes in its place, and when
\* there is none left whatever lies below the stack.
InjectGlobals(st, n) == SubSeq(st, 1, Len(st) - n)

\* More went off the stack than was on it.
Underrun == bad > Libraries

\* What is on the stack when the worker starts: lua_dd_init() registered the
\* libraries, set the globals, n of them bad, and looked for the init function,
\* which either ran or was not there, and then its nil stays.
InitialStack(hasInitFunc, n) ==
    InjectGlobals([i \in 1..Libraries |-> "library"], n)
        \o (IF hasInitFunc THEN <<>> ELSE <<"nil">>)

\* What the driver's calls of Lua may come to.  Using a closed state, reading
\* below the stack and pushing beyond the slots Lua guarantees are undefined:
\* the process may die, or go on as if nothing had happened.
Deaths(depth) ==
    IF luaState = "closed" \/ Underrun \/ depth > StackSlots THEN {"no", "driver"} ELSE {"no"}

Init ==
    /\ ThrInit
    /\ pc = "idle"
    /\ luaState = "none"
    /\ bad = 0
    /\ refused = FALSE /\ restored = FALSE
    /\ stack = <<>>
    /\ base = 0
    /\ before = 0
    /\ left = 0
    /\ success = TRUE
    /\ death = "no"

-----------------------------------------------------------------------------
\* The environment of the driver.

SourceStep(s) == Post(s) /\ UNCHANGED drvVars

StopRequest == Terminate /\ UNCHANGED drvVars

-----------------------------------------------------------------------------
\* The main thread: lua_dd_init() and lua_dd_deinit().

\* What lua_dd_init() does when it succeeds: the script is loaded, n globals are
\* bad, and the thread starts.  The script runs in it, and may end the process.
Begin(hasInitFunc, n) ==
    /\ Start
    /\ bad' = n
    /\ stack' = InitialStack(hasInitFunc, n)
    /\ base' = Len(stack')
    /\ before' = dropped
    /\ death' \in {"script"} \union Deaths(Len(stack))'
    /\ UNCHANGED <<pc, left, success>>

\* The driver of a configuration that was just read, with a state of its own.
InitSucceeds(hasInitFunc) ==
    /\ ~refused
    /\ luaState' = "open"
    /\ restored' = FALSE
    /\ \E n \in BadGlobals : Begin(hasInitFunc, n)
    /\ UNCHANGED refused

\* The file does not load, the init function fails, or there is no queue
\* function: whatever becomes of the new driver, nothing runs, and the state of
\* the old one is what it was.
InitFails ==
    /\ ~refused
    /\ worker = "down" /\ lives < MaxLives
    /\ refused' = TRUE
    /\ bad' \in BadGlobals
    /\ death' \in {"no", "script"} \union (IF Underrun' THEN {"driver"} ELSE {})
    /\ UNCHANGED <<thrVars, pc, stack, luaState, restored, base, before, left, success>>

\* Mutation of Close: the state is left open.
Close_Open == luaState' = luaState

\* lua_close(), which leaves the pointer to the state.
Close == luaState' = "closed"

\* The deinit function is called if there is one, else the nil in its place
\* stays on the stack, like the error of a call that fails; nobody looks at the
\* result.  Then the state is closed, a second time if it was.
Deinit ==
    /\ GoDown
    /\ death' \in {"script"} \union Deaths(Len(stack) + 1)
    /\ Close
    /\ UNCHANGED <<pc, stack, bad, refused, restored, base, before, left, success>>

\* The new configuration was refused: the old driver is initialised again, with
\* the state its deinit left.  Its globals are gone since its first init.
Revert(hasInitFunc) ==
    /\ refused /\ luaState # "none"
    /\ refused' = FALSE
    /\ restored' = TRUE
    /\ UNCHANGED luaState
    /\ Begin(hasInitFunc, 0)

MainStep ==
    \/ \E hasInitFunc \in BOOLEAN : InitSucceeds(hasInitFunc) \/ Revert(hasInitFunc)
    \/ InitFails \/ Deinit

-----------------------------------------------------------------------------
\* The worker thread.

CallInsert ==
    /\ Wake \/ Reopen
    /\ pc' = "pop"
    /\ UNCHANGED <<stack, stateVars, left, success, death>>

\* An empty queue ends the insert at once.
Pop ==
    /\ pc = "pop"
    /\ \/ PopHead /\ pc' = "push"
       \/ PopNothing /\ pc' = "idle"
    /\ UNCHANGED <<stack, stateVars, left, success, death>>

\* The queue function, the message (formatted, or an object in raw mode) and,
\* with params(), an empty table.
PushCall ==
    /\ pc = "push"
    /\ stack' = stack \o (IF NParams > 0 THEN <<"function", "message", "table">>
                                          ELSE <<"function", "message">>)
    /\ death' \in Deaths(Len(stack'))
    /\ left' = NParams
    /\ pc' = IF NParams > 0 THEN "params" ELSE "call"
    /\ UNCHANGED <<thrVars, stateVars, success>>

\* One parameter: the key is pushed, its value too if it converts, and
\* lua_settable(-3) stores the two topmost values in the third.  With the value
\* the third is the table and both are taken off again; without it the third is
\* the message, which is no table, and the error has nobody to catch it.
AddParameter ==
    /\ pc = "params" /\ left > 0
    /\ \E converts \in BOOLEAN :
          LET args == IF converts THEN <<"key", "value">> ELSE <<"key">>
              st == stack \o args
              target == st[Len(st) - 2]
          IN  /\ stack' = IF target = "table" THEN SubSeq(st, 1, Len(st) - 2) ELSE st
              /\ death' \in (IF target # "table" THEN {"driver"} ELSE Deaths(Len(st)))
    /\ left' = left - 1
    /\ pc' = IF left' = 0 THEN "call" ELSE "params"
    /\ UNCHANGED <<thrVars, stateVars, success>>

\* The values a call takes: the function and its one or two arguments.
CallDepth == IF NParams > 0 THEN 3 ELSE 2

\* Mutation of AfterCall: the error message is taken off the stack.
AfterCall_Clean(ok) == SubSeq(stack, 1, Len(stack) - CallDepth)

\* Mutation of AfterCall: the arguments of a failed call stay.
AfterCall_Keep(ok) ==
    IF ok THEN SubSeq(stack, 1, Len(stack) - CallDepth) ELSE Append(stack, "error")

\* lua_pcall() takes the function and its arguments off the stack; a failed one
\* puts its error message there, which the driver logs and leaves.
AfterCall(ok) ==
    SubSeq(stack, 1, Len(stack) - CallDepth) \o (IF ok THEN <<>> ELSE <<"error">>)

CallScript ==
    /\ pc = "call"
    /\ \E ok \in BOOLEAN : stack' = AfterCall(ok) /\ success' = ok
    /\ death' \in {"script"} \union Deaths(Len(stack))
    /\ pc' = "verdict"
    /\ UNCHANGED <<thrVars, stateVars, left>>

\* lua_dd_ack_message() or lua_dd_drop_message(), which the frame hears about.
FinishInsert ==
    /\ pc = "verdict"
    /\ IF success THEN Settle("stored", TRUE) ELSE Settle("dropped", FALSE)
    /\ pc' = "idle"
    /\ UNCHANGED <<stack, stateVars, left, success, death>>

LeaveLoop == Exit /\ UNCHANGED drvVars

WorkerStep ==
    \/ CallInsert \/ Pop \/ PushCall \/ AddParameter \/ CallScript \/ FinishInsert
    \/ LeaveLoop

\* A process that ended does nothing any more.
Next ==
    /\ alive
    /\ \/ \E s \in Sources : SourceStep(s)
       \/ StopRequest \/ MainStep
       \/ WorkerStep

\* The worker is a thread of its own: it is scheduled when it can run.
Spec == Init /\ [][Next]_vars /\ WF_vars(alive /\ WorkerStep)

-----------------------------------------------------------------------------
\* Properties.

TypeOK ==
    /\ ThrTypeOK
    /\ pc \in {"idle", "pop", "push", "params", "call", "verdict"}
    /\ stack \in Seq(Kinds)
    /\ luaState \in {"none", "open", "closed"}
    /\ bad \in Nat
    /\ refused \in BOOLEAN /\ restored \in BOOLEAN
    /\ base \in 0..(Libraries + 1)
    /\ before \in 0..dropped
    /\ left \in 0..NParams
    /\ success \in BOOLEAN /\ death \in {"no", "script", "driver"}
    /\ pc = "idle" <=> worker # "insert"
    /\ held # <<>> <=> pc \in {"push", "params", "call", "verdict"}

\* What the queue function of this driver has refused.
DropsSinceInit == dropped - before

\* Between two inserts the stack of a state that is what it should be holds what
\* initialisation left and one error message for every message this driver ever
\* dropped: drops pile up and nothing else does, and only a new driver begins with
\* an empty pile.
DropsPileUp ==
    pc = "idle" /\ luaState = "open" /\ ~Underrun =>
        /\ Len(stack) = base + DropsSinceInit
        /\ \A i \in DOMAIN stack : stack[i] = "error" <=> i > base

\* A process that its script does not end dies of dropped messages, of a parameter
\* that does not convert, of more bad globals than there are libraries, or of a
\* driver that was brought back after a refused configuration: without them the
\* stack has the room a call takes.
CrashNeedsDropOrBadParameter ==
    death = "driver" =>
        \/ restored
        \/ Underrun
        \/ stack[Len(stack)] = "key"
        \/ base + DropsSinceInit + CallDepth + (IF NParams > 0 THEN 2 ELSE 0) > StackSlots

\* A driver that is brought back because the next configuration was refused always
\* runs on a closed state, for its deinit closed it, and no other driver does.
ClosedStateComesBack == worker # "down" => (restored <=> luaState = "closed")
=============================================================================
