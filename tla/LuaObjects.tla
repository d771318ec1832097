----------------------------- MODULE LuaObjects -----------------------------
(***************************************************************************)
(* The messages and templates a Lua script gets at (lua-msg.c,             *)
(* lua-template.c and lua-utils.c under src/modules/lua), over the life of *)
(* the Lua state of one destination in raw mode (lua-dest.c).              *)
(*                                                                         *)
(* An object of syslog-ng is counted by reference.  Lua sees it through a  *)
(* userdata, here its handle, that owns one reference until the collector  *)
(* runs its finaliser.  The finaliser is a function a script can also call *)
(* by name, and then a reference goes that somebody else counts on.        *)
(***************************************************************************)
EXTENDS Naturals, FiniteSets

CONSTANTS
    Objects     \* bound: all messages and templates there will ever be

ASSUME ObjectsAssumption == IsFiniteSet(Objects)

VARIABLES
    phase,      \* the state: "new", "init", "idle", "call", "deinit", or its end
    kind,       \* what became of each object
    refs,       \* its references; 0 once it is freed
    handle,     \* its userdata: "none", "live", or "gone" once finalised
    reach,      \* the script, or the Lua stack, still has the handle
    working,    \* at most one: the message lua_dd_queue() works on
    byHand,     \* history: the objects whose finaliser the script called
    crash       \* "no", or what brought the process down

objVars == <<phase, kind, refs, handle, reach, working, byHand, crash>>

ObjKinds == {"unborn", "queued", "made", "template", "broken"}

ObjInit ==
    /\ phase = "new"
    /\ kind = [o \in Objects |-> "unborn"]
    /\ refs = [o \in Objects |-> 0]
    /\ handle = [o \in Objects |-> "none"]
    /\ reach = [o \in Objects |-> FALSE]
    /\ working = {}
    /\ byHand = {}
    /\ crash = "no"

\* A function of the script is running: the only time Lua does anything.
Running == phase \in {"init", "call", "deinit"}

-----------------------------------------------------------------------------
\* References.

\* log_msg_unref() and log_template_unref() of each of a set of objects.  To use
\* one that is freed is undefined: nothing may come of it, or a crash.
Touch(os) == crash' \in (IF \E o \in os : refs[o] = 0 THEN {"no", "freed"} ELSE {"no"})
Unref(os) ==
    /\ Touch(os)
    /\ refs' = [o \in Objects |-> IF o \in os /\ refs[o] > 0 THEN refs[o] - 1 ELSE refs[o]]

\* An object of kind k comes to be with n references, and with a handle.
Create(o, k, n) ==
    /\ kind[o] = "unborn"
    /\ kind' = [kind EXCEPT ![o] = k]
    /\ refs' = [refs EXCEPT ![o] = n]
    /\ handle' = [handle EXCEPT ![o] = "live"]
    /\ reach' = [reach EXCEPT ![o] = TRUE]

\* Mutation of CreateFromLogmsg: the handle has no reference of its own.
CreateFromLogmsg_NoRef(o, k) == Create(o, k, 1)

\* lua_message_create_from_logmsg(): the handle gets a reference of its own, next
\* to the one the caller has.
CreateFromLogmsg(o, k) == Create(o, k, 2)

-----------------------------------------------------------------------------
\* What a script can do while one of its functions runs.

\* Message.new(): log_msg_new_empty() returns a reference that nobody keeps.
MessageNew(o) ==
    /\ Running
    /\ CreateFromLogmsg(o, "made")
    /\ UNCHANGED <<phase, working, byHand, crash>>

\* Template.new(): the handle takes over the only reference.
TemplateNew(o) ==
    /\ Running
    /\ Create(o, "template", 1)
    /\ UNCHANGED <<phase, working, byHand, crash>>

\* Template.new() of what does not compile: luaL_error() leaves the function
\* before there is a handle.
TemplateFails(o) ==
    /\ Running /\ kind[o] = "unborn"
    /\ kind' = [kind EXCEPT ![o] = "broken"]
    /\ refs' = [refs EXCEPT ![o] = 1]
    /\ UNCHANGED <<phase, handle, reach, working, byHand, crash>>

\* Reading or writing a value, the time, or formatting a message.
UseObject(o) ==
    /\ Running /\ reach[o]
    /\ Touch({o})
    /\ UNCHANGED <<phase, kind, refs, handle, reach, working, byHand>>

\* An argument of another type converts to NULL, which nobody looks for.
UseOther ==
    /\ Running
    /\ crash' = "null"
    /\ UNCHANGED <<phase, kind, refs, handle, reach, working, byHand>>

Forget(o) ==
    /\ Running /\ reach[o]
    /\ reach' = [reach EXCEPT ![o] = FALSE]
    /\ UNCHANGED <<phase, kind, refs, handle, working, byHand, crash>>

\* The finaliser is a method of templates, and in the metatable of messages.
FinaliseByHand(o) ==
    /\ Running /\ reach[o]
    /\ Unref({o})
    /\ byHand' = byHand \union {o}
    /\ UNCHANGED <<phase, kind, handle, reach, working>>

\* The collector finds a handle nobody has and calls its finaliser.
Collect(o) ==
    /\ Running /\ handle[o] = "live" /\ ~reach[o]
    /\ Unref({o})
    /\ handle' = [handle EXCEPT ![o] = "gone"]
    /\ UNCHANGED <<phase, kind, reach, working, byHand>>

ScriptStep ==
    \/ UseOther
    \/ \E o \in Objects :
          \/ MessageNew(o) \/ TemplateNew(o) \/ TemplateFails(o)
          \/ UseObject(o) \/ Forget(o) \/ FinaliseByHand(o) \/ Collect(o)

-----------------------------------------------------------------------------
\* The driver.

\* lua_dd_init() runs the file first, when there is nothing of syslog-ng in the
\* state, and closes the state if that fails.
LoadFile ==
    /\ phase = "new"
    /\ phase' \in {"init", "closed"}
    /\ UNCHANGED <<kind, refs, handle, reach, working, byHand, crash>>

\* The init function returned.  If it failed, or there is no queue function, the
\* driver is not initialised and its state is never closed.
InitReturns ==
    /\ phase = "init"
    /\ phase' \in {"idle", "abandoned"}
    /\ UNCHANGED <<kind, refs, handle, reach, working, byHand, crash>>

\* lua_dd_queue() pops a message, with the reference the queue had, and hands it
\* to the queue function.
CallQueueFunc(o) ==
    /\ phase = "idle"
    /\ CreateFromLogmsg(o, "queued")
    /\ working' = {o}
    /\ phase' = "call"
    /\ UNCHANGED <<byHand, crash>>

\* The function returned or failed: either way lua_dd_accept_message()
\* acknowledges and releases the message.
AcceptMessage ==
    /\ phase = "call"
    /\ Unref(working)
    /\ working' = {}
    /\ phase' = "idle"
    /\ UNCHANGED <<kind, handle, reach, byHand>>

\* lua_dd_deinit() calls the deinit function, if there is one.
CallDeinit ==
    /\ phase = "idle"
    /\ phase' = "deinit"
    /\ UNCHANGED <<kind, refs, handle, reach, working, byHand, crash>>

Live == {o \in Objects : handle[o] = "live"}

\* lua_close() finalises every handle there is, whoever has it.
CloseState ==
    /\ phase = "deinit"
    /\ phase' = "closed"
    /\ Unref(Live)
    /\ handle' = [o \in Objects |-> IF o \in Live THEN "gone" ELSE handle[o]]
    /\ reach' = [o \in Objects |-> FALSE]
    /\ UNCHANGED <<kind, working, byHand>>

\* The deinit of the base class refuses: the state is left as it is.
DeinitRefused ==
    /\ phase = "deinit"
    /\ phase' = "abandoned"
    /\ UNCHANGED <<kind, refs, handle, reach, working, byHand, crash>>

ObjDriverStep ==
    \/ LoadFile \/ InitReturns \/ AcceptMessage \/ CallDeinit \/ CloseState \/ DeinitRefused
    \/ \E o \in Objects : CallQueueFunc(o)

\* A process that crashed does nothing any more.
ObjNext == crash = "no" /\ (ScriptStep \/ ObjDriverStep)

ObjSpec == ObjInit /\ [][ObjNext]_objVars

-----------------------------------------------------------------------------
\* Properties.

\* Every live handle is of an object that was given one, the driver works on a
\* queued message exactly while the queue function runs, and nothing is live or within
\* reach in a state that is closed.
ObjTypeOK ==
    /\ phase \in {"new", "init", "idle", "call", "deinit", "closed", "abandoned"}
    /\ kind \in [Objects -> ObjKinds]
    /\ refs \in [Objects -> 0..2]
    /\ handle \in [Objects -> {"none", "live", "gone"}]
    /\ reach \in [Objects -> BOOLEAN]
    /\ working \subseteq Objects /\ byHand \subseteq Objects
    /\ crash \in {"no", "null", "freed"}
    /\ working # {} <=> phase = "call"
    /\ \A o \in working : kind[o] = "queued"
    /\ \A o \in Objects :
          /\ handle[o] = "none" <=> kind[o] \in {"unborn", "broken"}
          /\ reach[o] => handle[o] = "live"
          /\ phase \in {"new", "closed"} => handle[o] # "live"

OneIf(b) == IF b THEN 1 ELSE 0

\* Who should have a reference: the driver, the handle, and, for a message the
\* script made or a template that did not compile, nobody any more.
Owners(o) ==
    OneIf(o \in working) + OneIf(handle[o] = "live") + OneIf(kind[o] \in {"made", "broken"})

\* The count of an object is that of its owners, unless the script finalised it
\* by hand; then it falls short.  So no object is freed while the driver or a
\* handle has it, a message from the queue and a template are freed with their last
\* owner, and what the script made is never freed at all.
RefsAreOwners ==
    \A o \in Objects :
        IF o \in byHand THEN refs[o] <= Owners(o) ELSE refs[o] = Owners(o)

\* Freed memory is used only if the script called a finaliser itself.
NoUseAfterFree == crash = "freed" => byHand # {}
=============================================================================
