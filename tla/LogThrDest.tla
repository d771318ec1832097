----------------------------- MODULE LogThrDest -----------------------------
(***************************************************************************)
(* The frame every threaded destination of the incubator runs in:          *)
(* syslog-ng's LogThrDestDriver (external, modelled from how riemann.c,    *)
(* python-dest.c, perl-dest.c, lua-dest.c and zmq-destination.c use it)    *)
(* together with the shape their insert functions share: pop one message,  *)
(* work on it, give it one verdict, tell the frame whether to go on.       *)
(*                                                                         *)
(* Source threads push messages on the queue while the worker thread of    *)
(* the destination takes them off.  The log path is flow controlled: each  *)
(* source owns a window of messages that may be unacknowledged, and the    *)
(* acknowledgement of a message gives its place in the window back.        *)
(*                                                                         *)
(* A reload of the configuration ends the worker, takes the driver down    *)
(* and starts another life of it; the queue is handed from one life to the *)
(* next under the persistent name of the driver.                           *)
(*                                                                         *)
(* The driver modules extend this one: they add the state of the driver    *)
(* and split the work between the pop and the verdict into its steps.      *)
(***************************************************************************)
EXTENDS Integers, Sequences, FiniteSets

CONSTANTS
    Sources,    \* the source threads that feed the destination
    MaxPosts,   \* bound: how many messages each source posts
    Window,     \* the flow-control window of a source (log_iw_size)
    MaxLives    \* bound: how often the worker thread is started

ASSUME SourcesAssumption == IsFiniteSet(Sources)
ASSUME MaxPostsAssumption == MaxPosts \in Nat
ASSUME WindowAssumption == Window \in Nat \ {0}
ASSUME MaxLivesAssumption == MaxLives \in Nat

VARIABLES
    posted,     \* how many messages each source has posted
    credit,     \* what is left of each source's window
    queue,      \* LogQueue of the driver: the messages waiting
    held,       \* the message the running insert call popped: <<>> or <<m>>
    worker,     \* what the worker thread of the driver is doing
    terminate,  \* the main thread asked the worker thread to stop
    lives,      \* how often the worker thread was started
    settled,    \* history: the verdicts in the order they were given
    stored,     \* stats counter "stored" of the driver
    dropped     \* stats counter "dropped" of the driver

thrVars == <<posted, credit, queue, held, worker, terminate, lives,
             settled, stored, dropped>>

\* A message is known by its source and its place among that source's posts.
Message == Sources \X (1..MaxPosts)

Verdicts == {"stored", "dropped"}

\* "down": the driver is not initialised and there is no thread; "waiting": at
\* the top of the loop, waiting for the queue; "insert": inside the driver's
\* insert function; "suspended": an insert returned FALSE and time-reopen()
\* runs; "stopped": the thread has left and the driver awaits its deinit.
WorkerStates == {"down", "waiting", "insert", "suspended", "stopped"}

ThrInit ==
    /\ posted = [s \in Sources |-> 0]
    /\ credit = [s \in Sources |-> Window]
    /\ queue = <<>>
    /\ held = <<>>
    /\ worker = "down"
    /\ terminate = FALSE
    /\ lives = 0
    /\ settled = <<>>
    /\ stored = 0
    /\ dropped = 0

-----------------------------------------------------------------------------
\* The steps of the frame around the insert function.

\* Mutation of Post: the message is pushed at the head of the queue.
Post_AtHead(s) ==
    /\ worker # "down"
    /\ posted[s] < MaxPosts
    /\ credit[s] > 0
    /\ posted' = [posted EXCEPT ![s] = @ + 1]
    /\ credit' = [credit EXCEPT ![s] = @ - 1]
    /\ queue' = <<<<s, posted[s] + 1>>>> \o queue
    /\ UNCHANGED <<held, worker, terminate, lives, settled, stored, dropped>>

\* A source thread pushes its next message, if its window has room.  The
\* sources run only while the drivers of their configuration are initialised.
Post(s) ==
    /\ worker # "down"
    /\ posted[s] < MaxPosts
    /\ credit[s] > 0
    /\ posted' = [posted EXCEPT ![s] = @ + 1]
    /\ credit' = [credit EXCEPT ![s] = @ - 1]
    /\ queue' = Append(queue, <<s, posted[s] + 1>>)
    /\ UNCHANGED <<held, worker, terminate, lives, settled, stored, dropped>>

\* The main thread initialises the driver: the queue of its former life is
\* there again, and a worker thread starts on it.
Start ==
    /\ worker = "down" /\ lives < MaxLives
    /\ worker' = "waiting"
    /\ terminate' = FALSE
    /\ lives' = lives + 1
    /\ UNCHANGED <<posted, credit, queue, held, settled, stored, dropped>>

\* The main thread asks for the end of the worker (reload or shutdown).
Terminate ==
    /\ worker # "down" /\ ~terminate
    /\ terminate' = TRUE
    /\ UNCHANGED <<posted, credit, queue, held, worker, lives, settled, stored, dropped>>

\* The worker thread moves from one state to another and touches nothing else.
WorkerGoes(from, to) ==
    /\ worker = from
    /\ worker' = to
    /\ UNCHANGED <<posted, credit, queue, held, terminate, lives, settled, stored, dropped>>

\* The frame calls the driver's insert function.  Its wait on the queue may end
\* without a message, so the insert may find nothing to pop.
Wake == ~terminate /\ WorkerGoes("waiting", "insert")

\* time-reopen() is over: insert is called whatever the queue holds.
Reopen == ~terminate /\ WorkerGoes("suspended", "insert")

\* A worker that was asked to stop leaves its loop, never out of an insert.
Exit == terminate /\ \E w \in {"waiting", "suspended"} : WorkerGoes(w, "stopped")

\* Once the thread has left, the main thread deinitialises the driver, which
\* hands the queue over to the next life.
GoDown == WorkerGoes("stopped", "down")

-----------------------------------------------------------------------------
\* The steps of an insert function the drivers share.

\* log_queue_pop_head() gives the oldest message; nothing goes to a backlog.
PopHead ==
    /\ worker = "insert" /\ held = <<>> /\ queue # <<>>
    /\ held' = <<Head(queue)>>
    /\ queue' = Tail(queue)
    /\ UNCHANGED <<posted, credit, worker, terminate, lives, settled, stored, dropped>>

\* log_queue_pop_head() finds nothing: the insert returns TRUE.
PopNothing == held = <<>> /\ queue = <<>> /\ WorkerGoes("insert", "waiting")

\* The held message leaves the insert with its verdict; ok is what the insert
\* returns to the frame, which suspends the worker when it is FALSE.
GiveVerdict(verdict, ok) ==
    /\ worker = "insert" /\ held # <<>>
    /\ settled' = Append(settled, [msg |-> Head(held), verdict |-> verdict])
    /\ held' = <<>>
    /\ worker' = IF ok THEN "waiting" ELSE "suspended"
    /\ UNCHANGED <<posted, terminate, lives>>

\* stats_counter_inc() on the counter of the verdict.
Count(verdict) ==
    /\ stored' = stored + (IF verdict = "stored" THEN 1 ELSE 0)
    /\ dropped' = dropped + (IF verdict = "dropped" THEN 1 ELSE 0)

\* n calls of log_msg_ack() give n places back to the window of the source.
Acknowledge(n) == credit' = [credit EXCEPT ![Head(held)[1]] = @ + n]

\* Mutation of Settle: a dropped message is not acknowledged.
Settle_NoAckOfDrop(verdict, ok) ==
    /\ GiveVerdict(verdict, ok) /\ Count(verdict) /\ UNCHANGED queue
    /\ Acknowledge(IF verdict = "stored" THEN 1 ELSE 0)

\* The end the drivers' insert functions share: count the message, acknowledge
\* it, release it and return.
Settle(verdict, ok) ==
    GiveVerdict(verdict, ok) /\ Count(verdict) /\ Acknowledge(1) /\ UNCHANGED queue

ThrNext ==
    \/ \E s \in Sources : Post(s)
    \/ Start \/ Terminate \/ GoDown
    \/ Wake \/ Reopen \/ Exit
    \/ PopHead \/ PopNothing
    \/ \E verdict \in Verdicts, ok \in BOOLEAN : Settle(verdict, ok)

\* The contract of a well-behaved driver, for any work it does in between.
ThrSpec == ThrInit /\ [][ThrNext]_thrVars

-----------------------------------------------------------------------------
\* What the frame guarantees.

ThrTypeOK ==
    /\ posted \in [Sources -> 0..MaxPosts]
    /\ credit \in [Sources -> 0..Window]
    /\ queue \in Seq(Message)
    /\ held \in {<<>>} \union {<<m>> : m \in Message}
    /\ worker \in WorkerStates
    /\ terminate \in BOOLEAN
    /\ lives \in 0..MaxLives
    /\ settled \in Seq([msg : Message, verdict : Verdicts])
    /\ stored \in Nat
    /\ dropped \in Nat

\* Every message ever posted, in the order of the queue: settled, held, waiting.
SettledMessages == [i \in DOMAIN settled |-> settled[i].msg]
Ledger == SettledMessages \o held \o queue

\* The messages the sources have posted so far.
Posted == {m \in Message : m[2] <= posted[m[1]]}

\* The verdicts on the messages of one source.
SettledOf(s) == {i \in DOMAIN settled : settled[i].msg[1] = s}

\* Nothing is lost: each posted message is waiting, held or settled.
NothingLost == \A m \in Posted : \E i \in DOMAIN Ledger : Ledger[i] = m

\* Nothing is invented or handled twice, and the messages of one source keep
\* their order from the push to the verdict.
OnceAndInOrder ==
    /\ \A i \in DOMAIN Ledger : Ledger[i] \in Posted
    /\ \A i, j \in DOMAIN Ledger :
          i < j /\ Ledger[i][1] = Ledger[j][1] => Ledger[i][2] < Ledger[j][2]

\* The window of a source is conserved: what is not left in it is exactly
\* what the source posted and the destination has not settled.
WindowConserved ==
    \A s \in Sources :
        credit[s] + posted[s] = Window + Cardinality(SettledOf(s))

\* The two statistics counters add up to the verdicts given.
CountersAddUp == stored + dropped = Len(settled)

\* A message is held only inside an insert call.
HeldInInsert == held # <<>> => worker = "insert"

\* The frame implements the promise of a destination.
Promise == INSTANCE Delivery WITH
    accepted <- Posted,
    pending <- held \o queue

PromiseSpec == Promise!Spec
=============================================================================
