----------------------------- MODULE PythonDest -----------------------------
(***************************************************************************)
(* The Python destination (src/modules/python/python-dest.c): the insert   *)
(* function python_worker_eval(), the interpreter lock it shares with the  *)
(* other Python destinations of the process and with the main thread, the  *)
(* reference counts of what the script returns, and the init and deinit of *)
(* the driver around its lives.                                            *)
(*                                                                         *)
(* _py_function_return_value_as_bool() releases the returned object in     *)
(* every case but None, and _py_call_function_with_arguments() releases    *)
(* what is not None once more.  So an answer True or False costs the       *)
(* process one reference to a shared object, any other object is released  *)
(* after it may be gone, and an exception releases a null pointer.         *)
(*                                                                         *)
(* python_worker_deinit() returns at once when the deinit function of the  *)
(* script says FALSE.  The frame then never hands over the queue, and what *)
(* waited in it is stranded with the driver.                               *)
(***************************************************************************)
EXTENDS LogThrDest, Functions

CONSTANTS
    DropOnError,    \* on-error() of the driver has the drop-message flag
    BoolRefs,       \* bound: references to True and to False at the start
    MaxFailures     \* bound: how many inits of the driver fail

ASSUME DropOnErrorAssumption == DropOnError \in BOOLEAN
ASSUME BoolRefsAssumption == BoolRefs \in Nat \ {0}
ASSUME MaxFailuresAssumption == MaxFailures \in Nat

VARIABLES
    pc,         \* where the worker is inside python_worker_eval()
    mainPc,     \* where the main thread is in the driver's init, "deinit" or "idle"
    gil,        \* who has the interpreter lock: "free", "worker", "main" or "other"
    success,    \* local success of the insert
    vpOk,       \* local vp_ok of the insert
    refs,       \* the reference counts of True and False
    alive,      \* the process has not crashed
    answer,     \* what became of the message in the script
    answers,    \* history: the answers for the settled messages
    found,      \* self->py.init and self->py.deinit: those the script has
    pins,       \* the references the driver took to the objects of the script
    begunWith,  \* history: how many lives began with an init, a deinit function
    failures,   \* history: what the failed inits failed of
    stranded    \* the messages left in the queue of a driver whose deinit refused

evalVars == <<pc, success, vpOk, refs, alive, answer, answers>>
pinVars == <<found, pins, begunWith, failures>>
lifeVars == <<mainPc, pinVars, stranded>>
drvVars == <<evalVars, gil, lifeVars>>
vars == <<thrVars, drvVars>>

\* What the queue function of the script does: it returns None, a Boolean or
\* another object, or it raises an exception.
ScriptAnswers == {"None", "True", "False", "object", "exception"}

\* "unconvertible": the message never got to the script.
Answers == ScriptAnswers \union {"unconvertible"}

\* The functions a script may have besides its queue function.
Functions == {"init", "deinit"}

\* The objects of a script that the driver takes references to.
Objects == {"module", "queue"} \union Functions

Init ==
    /\ ThrInit
    /\ pc = "idle"
    /\ mainPc = "idle"
    /\ gil = "free"
    /\ success = TRUE
    /\ vpOk = TRUE
    /\ refs = [b \in {"True", "False"} |-> BoolRefs]
    /\ alive = TRUE
    /\ answer = "None"
    /\ answers = <<>>
    /\ found = {}
    /\ pins = [o \in Objects |-> 0]
    /\ begunWith = [f \in Functions |-> 0]
    /\ failures = <<>>
    /\ stranded = {}

-----------------------------------------------------------------------------
\* The environment of the driver.

SourceStep(s) == mainPc = "idle" /\ Post(s) /\ UNCHANGED drvVars

StopRequest == Terminate /\ UNCHANGED drvVars

GilGoes(from, to) == gil = from /\ gil' = to

\* Another thread runs Python code: a destination of its own.
OtherTakesGil == GilGoes("free", "other") /\ UNCHANGED <<thrVars, evalVars, lifeVars>>
OtherReleasesGil == GilGoes("other", "free") /\ UNCHANGED <<thrVars, evalVars, lifeVars>>

-----------------------------------------------------------------------------
\* The main thread.

\* python_worker_init() and python_worker_deinit() take the interpreter lock
\* before they look at the script.
EnsureInit ==
    /\ mainPc = "idle" /\ worker = "down" /\ lives < MaxLives
    /\ GilGoes("free", "main")
    /\ mainPc' = "import"
    /\ UNCHANGED <<thrVars, evalVars, pinVars, stranded>>

EnsureDeinit ==
    /\ mainPc = "idle" /\ worker = "stopped"
    /\ GilGoes("free", "main")
    /\ mainPc' = "deinit"
    /\ UNCHANGED <<thrVars, evalVars, pinVars, stranded>>

\* Mutation of LeaveInit: an init that fails returns with the lock.
LeaveInit_KeepGil == gil' \in {"free", "main"} /\ mainPc' = "idle"

\* Every return from the init gives the lock back.
LeaveInit == GilGoes("main", "free") /\ mainPc' = "idle"

\* What an init can fail of: the script does not load, it has no queue function
\* or one that is not callable, or its init function says FALSE.
Reasons == {"load", "missing", "uncallable", "init"}

InitFails(reason) ==
    /\ Len(failures) < MaxFailures
    /\ failures' = Append(failures, reason)
    /\ LeaveInit

\* A lookup takes a reference to each object it returns, Py_DECREF() gives one back.
Took(objects) == [o \in Objects |-> pins[o] + (IF o \in objects THEN 1 ELSE 0)]
GaveBack(objects) == [o \in Objects |-> pins[o] - (IF o \in objects THEN 1 ELSE 0)]

\* PyImport_Import() on the script.
ImportScript ==
    /\ mainPc = "import"
    /\ \/ InitFails("load") /\ UNCHANGED pins
       \/ pins' = Took({"module"}) /\ mainPc' = "queue" /\ UNCHANGED <<gil, failures>>
    /\ UNCHANGED <<thrVars, evalVars, found, begunWith, stranded>>

\* Mutation of LookUpQueue: a script without a queue function keeps its module.
LookUpQueue_KeepModule ==
    /\ mainPc = "queue"
    /\ \/ InitFails("missing") /\ UNCHANGED pins
       \/ pins' = Took({"queue"}) /\ mainPc' = "functions" /\ UNCHANGED <<gil, failures>>
    /\ UNCHANGED <<thrVars, evalVars, found, begunWith, stranded>>

\* The queue function is looked up.  If it is missing or cannot be called the
\* module is released, the object found under its name is not.
LookUpQueue ==
    /\ mainPc = "queue"
    /\ \/ InitFails("missing") /\ pins' = GaveBack({"module"})
       \/ InitFails("uncallable")
          /\ pins' = [GaveBack({"module"}) EXCEPT !["queue"] = @ + 1]
       \/ pins' = Took({"queue"}) /\ mainPc' = "functions" /\ UNCHANGED <<gil, failures>>
    /\ UNCHANGED <<thrVars, evalVars, found, begunWith, stranded>>

\* The init and the deinit function are looked up; what is not callable is
\* released at once and counts as missing.
LookUpFunctions ==
    /\ mainPc = "functions"
    /\ found' \in SUBSET Functions
    /\ pins' = Took(found')
    /\ mainPc' = "call"
    /\ UNCHANGED <<thrVars, evalVars, gil, begunWith, failures, stranded>>

\* The init function says FALSE: everything looked up is released.
InitRefused ==
    /\ mainPc = "call" /\ "init" \in found
    /\ InitFails("init")
    /\ pins' = GaveBack({"module", "queue"} \union found)
    /\ UNCHANGED <<thrVars, evalVars, found, begunWith, stranded>>

\* Mutation of StartThread: the queue of this life has another name.
StartThread_OtherName ==
    /\ worker = "down"
    /\ worker' = "waiting"
    /\ terminate' = FALSE
    /\ lives' = lives + 1
    /\ queue' = <<>>
    /\ UNCHANGED <<posted, credit, held, settled, stored, dropped>>

\* The queue comes back under the persistent name, which init has completed.
StartThread == Start

\* The init function, if there is one, agrees.  What was looked up is released
\* neither by the deinit nor by the free function.
InitSucceeds ==
    /\ mainPc = "call"
    /\ LeaveInit
    /\ StartThread
    /\ begunWith' = [f \in Functions |-> begunWith[f] + (IF f \in found THEN 1 ELSE 0)]
    /\ UNCHANGED <<evalVars, found, pins, failures, stranded>>

\* The deinit function agrees, or there is none: the deinit of the frame runs.
DeinitAgrees ==
    /\ mainPc = "deinit"
    /\ GilGoes("main", "free")
    /\ mainPc' = "idle"
    /\ GoDown
    /\ UNCHANGED <<evalVars, pinVars, stranded>>

\* The deinit function says FALSE or raises: the deinit of the frame does not
\* run, and nobody gets the queue.
DeinitRefused ==
    /\ mainPc = "deinit" /\ "deinit" \in found
    /\ GilGoes("main", "free")
    /\ mainPc' = "idle"
    /\ worker' = "down"
    /\ stranded' = stranded \union Range(queue)
    /\ queue' = <<>>
    /\ UNCHANGED <<posted, credit, held, terminate, lives, settled, stored, dropped,
                   evalVars, pinVars>>

MainStep ==
    \/ EnsureInit \/ ImportScript \/ LookUpQueue \/ LookUpFunctions \/ InitRefused
    \/ InitSucceeds
    \/ EnsureDeinit \/ DeinitAgrees \/ DeinitRefused

-----------------------------------------------------------------------------
\* The worker thread.

CallInsert ==
    /\ Wake \/ Reopen
    /\ pc' = "pop"
    /\ UNCHANGED <<success, vpOk, refs, alive, answer, answers, gil, lifeVars>>

\* An empty queue ends the insert at once, before it takes the lock.
Pop ==
    /\ pc = "pop"
    /\ \/ PopHead /\ pc' = "ensure"
       \/ PopNothing /\ pc' = "idle"
    /\ success' = TRUE
    /\ UNCHANGED <<vpOk, refs, alive, answer, answers, gil, lifeVars>>

\* PyGILState_Ensure() blocks until the lock is free.
EnsureGil ==
    /\ pc = "ensure" /\ gil = "free"
    /\ gil' = "worker"
    /\ pc' = "convert"
    /\ UNCHANGED <<thrVars, success, vpOk, refs, alive, answer, answers, lifeVars>>

\* Mutation of Convert: a failed conversion leaves without releasing the lock.
Convert_KeepGil ==
    /\ pc = "convert"
    /\ \E converts \in BOOLEAN :
          /\ vpOk' = (converts \/ ~DropOnError)
          /\ pc' = IF vpOk' THEN "call" ELSE "verdict"
          /\ answer' = IF vpOk' THEN answer ELSE "unconvertible"
    /\ UNCHANGED <<thrVars, success, refs, alive, answers, gil, lifeVars>>

\* The name-value pairs become a dict.  A value that does not convert makes
\* _py_create_dict_from_message() fail only when on-error() drops the message.
Convert ==
    /\ pc = "convert"
    /\ \E converts \in BOOLEAN :
          /\ vpOk' = (converts \/ ~DropOnError)
          /\ pc' = IF vpOk' THEN "call" ELSE "release"
          /\ answer' = IF vpOk' THEN answer ELSE "unconvertible"
    /\ UNCHANGED <<thrVars, success, refs, alive, answers, gil, lifeVars>>

\* The answer as _py_function_return_value_as_bool() reads it.
AsBool(a) == a \in {"None", "True"}

\* Mutation of Released: the answer is released once, as it should be.
Released_Once(a) == refs

\* The call hands over one reference to its answer; a Boolean loses two.
Released(a) == [b \in {"True", "False"} |-> refs[b] - (IF a = b THEN 1 ELSE 0)]

\* Does the process survive the releases?  The null pointer of an exception is
\* fatal; an object may be freed by the first release, and the second one then
\* writes to freed memory; the last reference to True or False is fatal.
Survives(a) ==
    IF a = "object" THEN BOOLEAN
    ELSE {a # "exception" /\ \A b \in {"True", "False"} : Released(a)[b] > 0}

\* _py_call_function_with_arguments() on the queue function of the script.
CallScript ==
    /\ pc = "call"
    /\ \E a \in ScriptAnswers :
          /\ answer' = a
          /\ success' = AsBool(a)
          /\ refs' = Released(a)
          /\ alive' \in Survives(a)
    /\ pc' = "release"
    /\ UNCHANGED <<thrVars, vpOk, answers, gil, lifeVars>>

\* Mutation of ReleaseGil: the lock is not released after a failed call.
ReleaseGil_OnSuccess ==
    /\ pc = "release"
    /\ gil' = IF success THEN "free" ELSE gil
    /\ pc' = "verdict"
    /\ UNCHANGED <<thrVars, success, vpOk, refs, alive, answer, answers, lifeVars>>

\* PyGILState_Release(), on every path that took the lock.
ReleaseGil ==
    /\ pc = "release"
    /\ gil' = "free"
    /\ pc' = "verdict"
    /\ UNCHANGED <<thrVars, success, vpOk, refs, alive, answer, answers, lifeVars>>

\* Mutation of Verdict: the conversion does not count.
Verdict_SuccessOnly == IF success THEN "stored" ELSE "dropped"

Verdict == IF success /\ vpOk THEN "stored" ELSE "dropped"

FinishInsert ==
    /\ pc = "verdict"
    /\ Settle(Verdict, success)
    /\ answers' = Append(answers, answer)
    /\ pc' = "idle"
    /\ UNCHANGED <<success, vpOk, refs, alive, answer, gil, lifeVars>>

LeaveLoop == Exit /\ UNCHANGED drvVars

WorkerStep ==
    \/ CallInsert \/ Pop \/ Convert \/ CallScript \/ ReleaseGil \/ FinishInsert
    \/ LeaveLoop

\* A process that crashed does nothing any more.
Next ==
    /\ alive
    /\ \/ \E s \in Sources : SourceStep(s)
       \/ StopRequest
       \/ OtherTakesGil \/ OtherReleasesGil
       \/ EnsureGil
       \/ WorkerStep
       \/ MainStep

\* The worker runs when it can; a thread that holds the interpreter lock gives
\* it up in the end, and the interpreter does not pass a waiting thread over
\* for ever.
Spec ==
    /\ Init /\ [][Next]_vars
    /\ WF_vars(alive /\ WorkerStep)
    /\ WF_vars(alive /\ OtherReleasesGil)
    /\ SF_vars(alive /\ EnsureGil)

-----------------------------------------------------------------------------
\* Properties.

TypeOK ==
    /\ ThrTypeOK
    /\ pc \in {"idle", "pop", "ensure", "convert", "call", "release", "verdict"}
    /\ mainPc \in {"idle", "import", "queue", "functions", "call", "deinit"}
    /\ gil \in {"free", "worker", "main", "other"}
    /\ success \in BOOLEAN /\ vpOk \in BOOLEAN /\ alive \in BOOLEAN
    /\ refs \in [{"True", "False"} -> 0..BoolRefs]
    /\ answer \in Answers
    /\ answers \in Seq(Answers)
    /\ found \subseteq Functions
    /\ pins \in [Objects -> Nat]
    /\ begunWith \in [Functions -> Nat]
    /\ failures \in Seq(Reasons)
    /\ stranded \subseteq Message
    /\ pc = "idle" <=> worker # "insert"
    /\ held # <<>> <=> pc \in {"ensure", "convert", "call", "release", "verdict"}

\* The lock is the worker's between PyGILState_Ensure() and the matching
\* release and never elsewhere, so Python code of two threads never overlaps
\* and no path of the insert leaves the interpreter locked.  The same holds of
\* the main thread and the many returns of the init and the deinit.
GilPaired ==
    /\ gil = "worker" <=> pc \in {"convert", "call", "release"}
    /\ gil = "main" <=> mainPc # "idle"

\* "stored" says that the script took the message: its values converted and
\* its queue function returned True or None.
StoredIffTaken ==
    /\ Len(answers) = Len(settled)
    /\ \A i \in DOMAIN settled :
          settled[i].verdict = "stored" <=> answers[i] \in {"None", "True"}

\* A script that answers True wears the process out: each answer costs one of
\* the references to True, and a live process has seen fewer than BoolRefs.
TrueWearsOut ==
    alive => Cardinality({i \in DOMAIN answers : answers[i] = "True"}) < BoolRefs

\* What the lives of the driver leave behind once the main thread is out of them:
\* each pins the module, the queue function and whatever else the script had,
\* although all of it may be loaded anew, while the inits that failed released
\* what they had looked up so far, whichever way they left, except for a queue
\* function that is not callable.
LivesPinTheScript ==
    mainPc \in {"idle", "deinit"} =>
        /\ pins["module"] = lives
        /\ pins["queue"] =
              lives + Cardinality({i \in DOMAIN failures : failures[i] = "uncallable"})
        /\ \A f \in Functions : pins[f] = begunWith[f]

\* A reload loses no message but those that wait when a deinit function refuses;
\* these keep their places in the flow-control windows of their sources.
ReloadKeepsMessages ==
    /\ \A m \in Posted : m \in stranded \/ \E i \in DOMAIN Ledger : Ledger[i] = m
    /\ \A s \in Sources :
          credit[s] <= Window - Cardinality({m \in stranded : m[1] = s})

\* Every posted message gets its verdict, as long as the process lives and is
\* not told to stop, unless it was stranded.
EveryPostIsSettled ==
    \A m \in Message :
        m \in Posted ~>
            \/ terminate \/ ~alive \/ m \in stranded
            \/ \E i \in DOMAIN settled : settled[i].msg = m
=============================================================================
