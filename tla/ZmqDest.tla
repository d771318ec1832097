------------------------------ MODULE ZmqDest ------------------------------
(***************************************************************************)
(* The ZeroMQ destination (src/modules/zmq/zmq-destination.c): its insert  *)
(* function zmq_worker_insert(), the socket it binds and never looks after *)
(* and the peers that come and go.                                         *)
(*                                                                         *)
(* This driver does not keep the contract of the others.  It pops without  *)
(* a backlog and then acknowledges or rewinds the backlog, which is empty: *)
(* no message is ever acknowledged, counted or tried again.  After a send  *)
(* that failed the frame has the socket closed, but the pointer stays set, *)
(* so that the insert never creates another one.  Closing waits for what a *)
(* connected peer has not read yet, and a send may wait for a peer.         *)
(***************************************************************************)
EXTENDS LogThrDest

CONSTANTS
    SocketTypes \* the values of socket-type() to look at

ASSUME SocketTypesAssumption == SocketTypes \subseteq {"publish", "push", "request"}

VARIABLES
    pc,         \* where the worker is: its start, idle, or inside the insert
    socketType, \* self->socket_type, fixed by the configuration
    socket,     \* self->socket: "null", "bound", "unbound", or "closed"
    replyDue,   \* libzmq: the request socket has sent and read no reply since
    sendOk,     \* local success of the insert
    peer,       \* environment: a subscriber or puller is connected
    unread,     \* environment: something sent has not left for the peer yet
    alive,      \* the process has not crashed
    taken,      \* history: the messages the insert was done with, and how
    received    \* history: the messages handed to a connected peer

drvVars == <<pc, socketType, socket, replyDue, sendOk, peer, unread, alive, taken, received>>
vars == <<thrVars, drvVars>>

Outcomes == {"sent", "failed"}

Init ==
    /\ ThrInit
    /\ pc = "idle"
    /\ socketType \in SocketTypes
    /\ socket = "null"
    /\ replyDue = FALSE
    /\ sendOk = TRUE
    /\ peer = FALSE
    /\ unread = FALSE
    /\ alive = TRUE
    /\ taken = <<>>
    /\ received = <<>>

-----------------------------------------------------------------------------
\* The environment of the driver.

SourceStep(s) == Post(s) /\ UNCHANGED drvVars

StopRequest == Terminate /\ UNCHANGED drvVars

\* Peers connect to a bound socket, read what was sent, and leave.
PeerConnects ==
    /\ ~peer /\ socket = "bound"
    /\ peer' = TRUE
    /\ UNCHANGED <<thrVars, socketType, pc, socket, replyDue, sendOk, unread, alive, taken, received>>

PeerReads ==
    /\ unread
    /\ unread' = FALSE
    /\ UNCHANGED <<thrVars, socketType, pc, socket, replyDue, sendOk, peer, alive, taken, received>>

PeerLeaves ==
    /\ peer
    /\ peer' = FALSE /\ unread' = FALSE
    /\ UNCHANGED <<thrVars, socketType, pc, socket, replyDue, sendOk, alive, taken, received>>

-----------------------------------------------------------------------------
\* The main thread.

\* zmq_dd_init() of a new driver, which has no socket yet; what the start of the
\* thread returns is not looked at.
DriverInit ==
    /\ Start
    /\ pc' = "start"
    /\ socket' = "null"
    /\ UNCHANGED <<socketType, replyDue, sendOk, peer, unread, alive, taken, received>>

\* The driver has no deinit of its own.
DriverDeinit == GoDown /\ UNCHANGED drvVars

-----------------------------------------------------------------------------
\* The worker thread.

\* create_zmq_socket() and zmq_bind(): there may be no socket to be had, or the
\* port may be taken.  Nobody looks at what zmq_dd_connect() returns.  What the
\* former socket had to wait for is of no concern to the new one.
ConnectTo(next) ==
    /\ socket' \in {"null", "bound", "unbound"}
    /\ replyDue' = FALSE
    /\ pc' = next
    /\ UNCHANGED <<thrVars, socketType, sendOk, peer, unread, alive, taken, received>>

\* zmq_worker_thread_init().
ThreadInit == pc = "start" /\ ConnectTo("idle")

CallInsert ==
    /\ pc = "idle"
    /\ Wake \/ Reopen
    /\ pc' = "pop"
    /\ UNCHANGED <<socketType, socket, replyDue, sendOk, peer, unread, alive, taken, received>>

\* An empty queue ends the insert at once.
Pop ==
    /\ pc = "pop"
    /\ \/ PopHead /\ pc' = "connect"
       \/ PopNothing /\ pc' = "idle"
    /\ UNCHANGED <<socketType, socket, replyDue, sendOk, peer, unread, alive, taken, received>>

\* Mutation of Connect: the insert makes a new socket for a closed one too.
Connect_Closed ==
    /\ pc = "connect"
    /\ \/ socket \in {"null", "closed"} /\ ConnectTo("send")
       \/ /\ socket \in {"bound", "unbound"}
          /\ pc' = "send"
          /\ UNCHANGED <<thrVars, socketType, socket, replyDue, sendOk, peer, unread, alive, taken, received>>

\* The insert connects when there is no socket at all.
Connect ==
    /\ pc = "connect"
    /\ \/ socket = "null" /\ ConnectTo("send")
       \/ /\ socket # "null"
          /\ pc' = "send"
          /\ UNCHANGED <<thrVars, socketType, socket, replyDue, sendOk, peer, unread, alive, taken, received>>

\* What zmq_send() may do.  Publishing never waits and loses what nobody
\* listens to; the others wait for a peer.  A request socket must read the reply
\* to its last request before it may send again, and the insert reads nothing:
\* then, or without a socket, the send fails at once; a closed socket is freed
\* memory.
CanSend ==
    /\ socket \in {"bound", "unbound"}
    /\ socketType # "publish" => peer
    /\ ~replyDue
CanFail == socket \in {"null", "closed"} \/ replyDue
CanCrash == socket = "closed"
Blocked == ~CanSend /\ ~CanFail

Send ==
    /\ pc = "send"
    /\ \/ /\ CanSend /\ sendOk' = TRUE /\ replyDue' = (socketType = "request")
          /\ IF peer
             THEN received' = Append(received, Head(held)) /\ unread' \in {unread, TRUE}
             ELSE UNCHANGED <<received, unread>>
          /\ UNCHANGED alive
       \/ CanFail /\ sendOk' = FALSE /\ UNCHANGED <<alive, replyDue, received, unread>>
       \/ CanCrash /\ alive' = FALSE /\ UNCHANGED <<sendOk, replyDue, received, unread>>
    /\ pc' = "done"
    /\ UNCHANGED <<thrVars, socketType, socket, peer, taken>>

\* A signal interrupts a send that waits; nobody promises that one comes.
Interrupted ==
    /\ pc = "send" /\ Blocked
    /\ sendOk' = FALSE
    /\ pc' = "done"
    /\ UNCHANGED <<thrVars, socketType, socket, replyDue, peer, unread, alive, taken, received>>

\* What a message leaves behind in the driver's books.
Release(outcome) ==
    /\ taken' = Append(taken, [msg |-> Head(held), outcome |-> outcome, life |-> lives])
    /\ held' = <<>>

\* Mutation of FinishSent: the message is acknowledged.
FinishSent_Ack ==
    /\ pc = "done" /\ sendOk
    /\ Release("sent")
    /\ Acknowledge(1)
    /\ worker' = "waiting"
    /\ pc' = "idle"
    /\ UNCHANGED <<posted, queue, terminate, lives, settled, stored, dropped,
                   socketType, socket, replyDue, sendOk, peer, unread, alive, received>>

\* log_queue_ack_backlog() finds an empty backlog: the message is released and
\* neither acknowledged nor counted.
FinishSent ==
    /\ pc = "done" /\ sendOk
    /\ Release("sent")
    /\ worker' = "waiting"
    /\ pc' = "idle"
    /\ UNCHANGED <<posted, credit, queue, terminate, lives, settled, stored, dropped,
                   socketType, socket, replyDue, sendOk, peer, unread, alive, received>>

\* Mutation of Closed: the pointer is reset, so that the insert connects again.
Closed_Null == "null"

\* zmq_dd_disconnect() closes what there is; only a socket that never was is
\* still seen as missing.
Closed == IF socket = "null" THEN "null" ELSE "closed"

\* Mutation of FinishFailed: the message goes back to the queue.
FinishFailed_PushBack ==
    /\ pc = "done" /\ ~sendOk
    /\ Release("failed")
    /\ queue' = held \o queue
    /\ socket' = Closed
    /\ worker' = "suspended"
    /\ pc' = "idle"
    /\ UNCHANGED <<posted, credit, terminate, lives, settled, stored, dropped,
                   socketType, replyDue, sendOk, peer, unread, alive, received>>

\* Mutation of FinishFailed: the insert tries again by itself.
FinishFailed_Retry ==
    /\ pc = "done" /\ ~sendOk
    /\ pc' = "send"
    /\ UNCHANGED <<thrVars, socketType, socket, replyDue, sendOk, peer, unread, alive, taken, received>>

\* log_queue_rewind_backlog() finds nothing to give back: the message is
\* released all the same.  The frame disconnects and suspends; closing what is
\* closed already touches freed memory.  zmq_ctx_destroy() comes back when
\* nothing is left unread.
FinishFailed ==
    /\ pc = "done" /\ ~sendOk /\ ~unread
    /\ Release("failed")
    /\ alive' \in (IF socket = "closed" THEN BOOLEAN ELSE {TRUE})
    /\ socket' = Closed
    /\ peer' = FALSE
    /\ worker' = "suspended"
    /\ pc' = "idle"
    /\ UNCHANGED <<posted, credit, queue, terminate, lives, settled, stored, dropped,
                   socketType, replyDue, sendOk, unread, received>>

\* The worker leaves its loop; the frame disconnects once more, and waits for
\* what is unread once more.
LeaveLoop ==
    /\ pc = "idle" /\ ~unread
    /\ Exit
    /\ alive' \in (IF socket = "closed" THEN BOOLEAN ELSE {TRUE})
    /\ socket' = Closed
    /\ peer' = FALSE
    /\ UNCHANGED <<socketType, pc, replyDue, sendOk, unread, taken, received>>

WorkerStep ==
    \/ ThreadInit \/ CallInsert \/ Pop \/ Connect \/ Send
    \/ FinishSent \/ FinishFailed \/ LeaveLoop

\* A process that crashed does nothing any more.
Next ==
    /\ alive
    /\ \/ \E s \in Sources : SourceStep(s)
       \/ StopRequest \/ DriverInit \/ DriverDeinit
       \/ PeerConnects \/ PeerReads \/ PeerLeaves \/ Interrupted
       \/ WorkerStep

\* The worker is a thread of its own: it is scheduled when it can run.  Nothing
\* is promised of the peers, nor of signals.
Spec == Init /\ [][Next]_vars /\ WF_vars(alive /\ WorkerStep)

-----------------------------------------------------------------------------
\* Properties.

TypeOK ==
    /\ ThrTypeOK
    /\ pc \in {"start", "idle", "pop", "connect", "send", "done"}
    /\ socketType \in SocketTypes
    /\ socket \in {"null", "bound", "unbound", "closed"}
    /\ replyDue \in BOOLEAN /\ sendOk \in BOOLEAN /\ peer \in BOOLEAN /\ unread \in BOOLEAN /\ alive \in BOOLEAN
    /\ taken \in Seq([msg : Message, outcome : Outcomes, life : 1..MaxLives])
    /\ received \in Seq(Message)
    /\ pc \in {"start", "idle"} <=> worker # "insert"
    /\ held # <<>> <=> pc \in {"connect", "send", "done"}

TakenMessages == [i \in DOMAIN taken |-> taken[i].msg]

\* A message is taken once: it is sent or it fails, and a failed one does not
\* come back although the code asks the queue to rewind.
TakenOnce ==
    LET all == TakenMessages \o held \o queue
    IN  /\ {all[i] : i \in DOMAIN all} = Posted
        /\ \A i, j \in DOMAIN all : i # j => all[i] # all[j]

\* The window of a source shrinks with every message and never grows: with flow
\* control this destination stops each of its sources after Window messages.
SourcesStall ==
    \A s \in Sources : credit[s] = Window - posted[s]

\* A socket that was closed after a failed send stays closed while the worker
\* lives: no later message reaches a peer until the driver is initialised anew.
ClosedForGood ==
    [][socket = "closed" =>
          received' = received /\ (socket' = "closed" \/ worker = "down")]_vars

\* A request socket carries one message in each life of the worker: the next
\* send fails for the reply nobody read, the socket is closed over it, and no
\* fresh socket, which would owe no reply, takes its place.
OneRequestOnly ==
    socketType = "request" =>
        \A n \in 1..lives :
            Cardinality({i \in DOMAIN taken : taken[i].outcome = "sent" /\ taken[i].life = n}) <= 1

\* A worker that is asked to stop stops, unless its send waits for a peer or its
\* disconnect for a peer to read: those two keep the main thread for as long as
\* the peers like, and nothing else does.
StopsUnlessBlocked ==
    terminate ~> \/ worker \in {"stopped", "down"}
                 \/ ~alive
                 \/ pc = "send" /\ Blocked
                 \/ unread
=============================================================================
