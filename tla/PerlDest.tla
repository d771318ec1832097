------------------------------ MODULE PerlDest ------------------------------
(***************************************************************************)
(* The Perl destination (src/modules/perl/perl-dest.c): the insert         *)
(* function perl_worker_eval(), the argument stack of the interpreter it   *)
(* drives by hand, and the message context of the logging code.            *)
(*                                                                         *)
(* call_pv() leaves exactly one value on the stack, undef when the script  *)
(* died.  After a death the code pops that value and then, because the     *)
(* count is 1 all the same, pops another one and reads the verdict from    *)
(* it.  So each death moves the stack pointer one slot down for as long as  *)
(* the interpreter lives, which is one life of the worker thread.          *)
(***************************************************************************)
EXTENDS LogThrDest

CONSTANTS
    DropOnError     \* on-error() of the driver has the drop-message flag

ASSUME DropOnErrorAssumption == DropOnError \in BOOLEAN

VARIABLES
    pc,         \* where the worker is inside perl_worker_eval()
    success,    \* local success of the insert
    vpOk,       \* local vp_ok of the insert
    sp,         \* the stack pointer, counted in slots from its base (slot 0)
    alive,      \* the process has not crashed
    context,    \* the message of msg_set_context(): <<>> or <<m>>
    answer,     \* what became of the message in the script
    answers,    \* history: the answers for the settled messages, with the life
    interpreters,   \* how many Perl interpreters the process holds
    goodbyes    \* history: what the deinit function said at each end of the thread

evalVars == <<pc, success, vpOk, answer, answers>>
deinitVars == <<interpreters, goodbyes>>
drvVars == <<evalVars, deinitVars, sp, alive, context>>
vars == <<thrVars, drvVars>>

\* The queue function returns a true or a false value, or dies.
ScriptAnswers == {"true", "false", "die"}

\* "unconvertible": the message never got to the script.
Answers == ScriptAnswers \union {"unconvertible"}

\* "none": no deinit-func() is configured.
Goodbyes == ScriptAnswers \union {"none"}
Refusals == {"false", "die"}

Init ==
    /\ ThrInit
    /\ pc = "idle"
    /\ success = TRUE
    /\ vpOk = TRUE
    /\ sp = 0
    /\ alive = TRUE
    /\ context = <<>>
    /\ answer = "true"
    /\ answers = <<>>
    /\ interpreters = 0
    /\ goodbyes = <<>>

-----------------------------------------------------------------------------
\* The environment of the driver.

SourceStep(s) == Post(s) /\ UNCHANGED drvVars

StopRequest == Terminate /\ UNCHANGED drvVars

\* The main thread's part of the deinit is that of the frame.
DriverDeinit == GoDown /\ UNCHANGED drvVars

-----------------------------------------------------------------------------
\* The worker thread.

\* The driver starts its thread, and the thread makes an interpreter of its own.
\* Whether the file parses and what the init function returns is not looked at;
\* a death there is popped once, so the stack starts from its base.  The
\* context of the log belongs to the thread.
ThreadInit ==
    /\ Start
    /\ interpreters' = interpreters + 1
    /\ sp' = 0
    /\ context' = <<>>
    /\ UNCHANGED <<evalVars, goodbyes, alive>>

CallInsert ==
    /\ Wake \/ Reopen
    /\ pc' = "pop"
    /\ UNCHANGED <<success, vpOk, answer, answers, deinitVars, sp, alive, context>>

\* An empty queue ends the insert at once; a popped message becomes the
\* context of what is logged from here on.
Pop ==
    /\ pc = "pop"
    /\ \/ PopHead /\ pc' = "convert" /\ context' = held'
       \/ PopNothing /\ pc' = "idle" /\ UNCHANGED context
    /\ success' = TRUE
    /\ UNCHANGED <<vpOk, answer, answers, deinitVars, sp, alive>>

\* The name-value pairs become a hash.  A value that does not convert ends the
\* insert when on-error() drops the message, with the context still set.
Convert ==
    /\ pc = "convert"
    /\ \E converts \in BOOLEAN :
          /\ vpOk' = (converts \/ ~DropOnError)
          /\ pc' = IF vpOk' THEN "call" ELSE "verdict"
          /\ answer' = IF vpOk' THEN answer ELSE "unconvertible"
    /\ UNCHANGED <<thrVars, success, answers, deinitVars, sp, alive, context>>

\* Mutation of Pops: the second pop is skipped after a death.
Pops_Once(a) == 1

\* How many values the insert pops after the call.
Pops(a) == IF a = "die" THEN 2 ELSE 1

\* What the last pop reads as a number other than zero.  After a death it is
\* the slot the pointer stood at before the call: the undef at the base of the
\* stack the first time, memory in front of the stack later.
ReadAsInt(a) ==
    IF a # "die" THEN {a = "true"} ELSE IF sp = 0 THEN {FALSE} ELSE BOOLEAN

\* Mutation of ClearContext: the context survives the call.
ClearContext_Forgotten == UNCHANGED context

\* msg_set_context(NULL) after the call.
ClearContext == context' = <<>>

\* The call pushes one argument above sp and finds its one result in the same
\* slot.  Reaching in front of the stack is undefined: the process may die.
CallScript ==
    /\ pc = "call"
    /\ \E a \in ScriptAnswers :
          /\ answer' = a
          /\ success' \in ReadAsInt(a)
          /\ sp' = sp + 1 - Pops(a)
          /\ alive' \in (IF sp + 2 - Pops(a) < 0 THEN BOOLEAN ELSE {TRUE})
    /\ ClearContext
    /\ pc' = "verdict"
    /\ UNCHANGED <<thrVars, vpOk, answers, deinitVars>>

\* Mutation of Verdict: the conversion does not count.
Verdict_SuccessOnly == IF success THEN "stored" ELSE "dropped"

Verdict == IF success /\ vpOk THEN "stored" ELSE "dropped"

\* The stack frame is left (it restores temporaries, not the pointer), and the
\* message gets its verdict.
FinishInsert ==
    /\ pc = "verdict"
    /\ Settle(Verdict, success)
    /\ answers' = Append(answers, [says |-> answer, life |-> lives])
    /\ pc' = "idle"
    /\ UNCHANGED <<success, vpOk, answer, deinitVars, sp, alive, context>>

\* Mutation of Destroyed: the deinit function has no say.
Destroyed_Always(goodbye) == TRUE

\* A deinit function that returns false or dies ends the deinit of the thread
\* before perl_destruct().
Destroyed(goodbye) == goodbye \notin Refusals

\* The thread leaves its loop and runs its deinit.  The deinit function finds
\* its result one slot above the pointer, like the queue function.
LeaveLoop ==
    /\ Exit
    /\ \E goodbye \in Goodbyes :
          /\ goodbyes' = Append(goodbyes, goodbye)
          /\ interpreters' = interpreters - (IF Destroyed(goodbye) THEN 1 ELSE 0)
          /\ alive' \in (IF goodbye # "none" /\ sp + 1 < 0 THEN BOOLEAN ELSE {TRUE})
    /\ UNCHANGED <<evalVars, sp, context>>

WorkerStep ==
    CallInsert \/ Pop \/ Convert \/ CallScript \/ FinishInsert \/ LeaveLoop

\* A process that crashed does nothing any more.
Next ==
    /\ alive
    /\ \/ \E s \in Sources : SourceStep(s)
       \/ StopRequest \/ ThreadInit \/ DriverDeinit
       \/ WorkerStep

\* The worker is a thread of its own: it is scheduled when it can run.
Spec == Init /\ [][Next]_vars /\ WF_vars(alive /\ WorkerStep)

-----------------------------------------------------------------------------
\* Properties.

\* The messages settled before place n of the history on which the script of
\* the given life died.
Deaths(n, life) ==
    {i \in DOMAIN answers : i < n /\ answers[i] = [says |-> "die", life |-> life]}

TypeOK ==
    /\ ThrTypeOK
    /\ pc \in {"idle", "pop", "convert", "call", "verdict"}
    /\ success \in BOOLEAN /\ vpOk \in BOOLEAN /\ alive \in BOOLEAN
    /\ sp \in Int
    /\ context \in {<<>>} \union {<<m>> : m \in Message}
    /\ answer \in Answers
    /\ answers \in Seq([says : Answers, life : 1..MaxLives])
    /\ interpreters \in 0..MaxLives
    /\ goodbyes \in Seq(Goodbyes)
    /\ pc = "idle" <=> worker # "insert"
    /\ held # <<>> <=> pc \in {"convert", "call", "verdict"}

\* What counts as stored was answered with a true value, or the script died on
\* it and had died before in the same life of the interpreter: the first death
\* of an interpreter is a drop, a later one may be either.
StoredIsTrueOrLaterDeath ==
    \A i \in DOMAIN settled :
        settled[i].verdict = "stored" =>
            \/ answers[i].says = "true"
            \/ answers[i].says = "die" /\ Deaths(i, answers[i].life) # {}

\* The stack pointer tells how often the script has died in this interpreter:
\* nothing puts a slot back, and nothing but a death takes one.  A new
\* interpreter starts afresh, whatever the last one went through.
StackTellsDeaths ==
    pc = "idle" => sp = -Cardinality(Deaths(Len(answers) + 1, lives))

\* Outside an insert the context names a message only if that message was the
\* last to be settled and did not convert: whatever the thread logs until its
\* next pop is taken to be about a message that has been released.
DanglingContext ==
    pc = "idle" /\ context # <<>> =>
        /\ answers[Len(answers)].says = "unconvertible"
        /\ context = <<settled[Len(settled)].msg>>

\* The interpreters of the process are that of the running thread and one for
\* each end of the thread whose deinit function failed, for ever.
InterpretersLeft ==
    interpreters =
        Cardinality({i \in DOMAIN goodbyes : goodbyes[i] \in Refusals})
        + (IF worker \in {"down", "stopped"} THEN 0 ELSE 1)
=============================================================================
