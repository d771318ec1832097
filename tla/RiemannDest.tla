---------------------------- MODULE RiemannDest ----------------------------
(***************************************************************************)
(* The Riemann destination (src/modules/riemann/riemann.c): the insert     *)
(* function of the worker thread, step by step, against a Riemann server   *)
(* that goes away and comes back on its own, over TCP or over UDP.         *)
(*                                                                         *)
(* The client is created at most once per life of the worker: insert calls  *)
(* riemann_dd_connect() with reconnect = TRUE, which keeps whatever client *)
(* there is, and nobody tells the driver that the connection broke because *)
(* the result of the oneshot send is not looked at.  Over TCP a client is  *)
(* created only while the server is up and an outage breaks it; over UDP   *)
(* it needs no server, and each send is a datagram of its own that may get *)
(* lost or overtaken.                                                      *)
(***************************************************************************)
EXTENDS LogThrDest

CONSTANTS
    DropOnError,    \* on-error() of the driver has the drop-message flag
    SeqMax          \* bound: where the sequence number wraps (2^31 - 1)

ASSUME DropOnErrorAssumption == DropOnError \in BOOLEAN
ASSUME SeqMaxAssumption == SeqMax \in Nat \ {0}

VARIABLES
    pc,         \* where the worker is inside riemann_worker_insert()
    transport,  \* self->type, from type() of the configuration: "tcp" or "udp"
    client,     \* self->client: "null", "live", or "stale" (its connection broke)
    needDrop,   \* local need_drop of the insert
    seqNum,     \* self->seq_num
    server,     \* environment: the Riemann server is "up" or "down"
    inFlight,   \* environment: the datagrams on their way to the server
    reached     \* history: the messages that reached the server, as they came

drvVars == <<pc, transport, client, needDrop, seqNum, server, inFlight, reached>>
vars == <<thrVars, drvVars>>

Init ==
    /\ ThrInit
    /\ pc = "idle"
    /\ transport \in {"tcp", "udp"}
    /\ client = "null"
    /\ needDrop = FALSE
    /\ seqNum = 1
    /\ server = "up"
    /\ inFlight = {}
    /\ reached = <<>>

-----------------------------------------------------------------------------
\* The environment of the driver.

SourceStep(s) == Post(s) /\ UNCHANGED drvVars

\* The main thread.  riemann_worker_init() fills in the defaults and starts the
\* worker thread; the driver of a new configuration has a sequence number of
\* its own, one that is initialised again goes on with it.  Both have the type()
\* of the one configuration.
DriverInit ==
    /\ Start
    /\ seqNum' \in {1, seqNum}
    /\ UNCHANGED <<pc, transport, client, needDrop, server, inFlight, reached>>

StopRequest == Terminate /\ UNCHANGED drvVars

\* The deinit is the frame's own.
DriverDeinit == GoDown /\ UNCHANGED drvVars

\* The server goes away: an open connection is broken from now on.  A datagram
\* socket has no connection that could break.
ServerDown ==
    /\ server = "up"
    /\ server' = "down"
    /\ client' = IF client = "live" /\ transport = "tcp" THEN "stale" ELSE client
    /\ UNCHANGED <<thrVars, pc, transport, needDrop, seqNum, inFlight, reached>>

\* The server is back; the connections of its former life stay broken.
ServerUp ==
    /\ server = "down"
    /\ server' = "up"
    /\ UNCHANGED <<thrVars, pc, transport, client, needDrop, seqNum, inFlight, reached>>

\* Any datagram on its way comes next to a server that is up; one that never
\* comes is lost.  The network makes no copies.
DatagramArrives(m) ==
    /\ m \in inFlight /\ server = "up"
    /\ inFlight' = inFlight \ {m}
    /\ reached' = Append(reached, m)
    /\ UNCHANGED <<thrVars, pc, transport, client, needDrop, seqNum, server>>

-----------------------------------------------------------------------------
\* The worker thread.

CallInsert ==
    /\ Wake
    /\ pc' = "connect"
    /\ needDrop' = FALSE
    /\ UNCHANGED <<transport, client, seqNum, server, inFlight, reached>>

\* Mutation of Connect: a new client whenever the old one does not work.
Connect_Again ==
    /\ pc = "connect"
    /\ pc' = "pop"
    /\ client' = IF server = "up" THEN "live" ELSE client
    /\ UNCHANGED <<thrVars, transport, needDrop, seqNum, server, inFlight, reached>>

\* riemann_dd_connect(self, TRUE): keep the client there is, else create one;
\* the insert goes on whether that worked or not.  riemann_client_create() may
\* fail at any time; over TCP it does while the server is down.
Connect ==
    /\ pc = "connect"
    /\ pc' = "pop"
    /\ \/ UNCHANGED client
       \/ /\ client = "null"
          /\ transport = "udp" \/ server = "up"
          /\ client' = "live"
    /\ UNCHANGED <<thrVars, transport, needDrop, seqNum, server, inFlight, reached>>

\* An empty queue ends the insert at once.
Pop ==
    /\ pc = "pop"
    /\ \/ PopHead /\ pc' = "fields"
       \/ PopNothing /\ pc' = "idle"
    /\ UNCHANGED <<transport, client, needDrop, seqNum, server, inFlight, reached>>

\* metric() and ttl() may fail to cast.  A failed cast leaves the field out of
\* the event, unless on-error() tells to drop the message.
FillFields ==
    /\ pc = "fields"
    /\ \E castFails \in BOOLEAN : needDrop' = (castFails /\ DropOnError)
    /\ pc' = "send"
    /\ UNCHANGED <<thrVars, transport, client, seqNum, server, inFlight, reached>>

\* The send leaves when the event need not be dropped and there is a client that
\* works.
Leaves == ~needDrop /\ client = "live"

\* Mutation of SendOneshot: a send whose answer is late is done again.
SendOneshot_Resend ==
    /\ pc = "send"
    /\ reached' = IF Leaves THEN Append(reached, Head(held)) ELSE reached
    /\ pc' \in (IF Len(reached) < 3 THEN {"send", "verdict"} ELSE {"verdict"})
    /\ UNCHANGED <<thrVars, transport, client, needDrop, seqNum, server, inFlight>>

\* Over a live connection the event reaches the server, a datagram is on its way
\* from here on; the result of the send is ignored.
SendOneshot ==
    /\ pc = "send"
    /\ reached' = IF Leaves /\ transport = "tcp"
                  THEN Append(reached, Head(held)) ELSE reached
    /\ inFlight' = inFlight \union (IF Leaves /\ transport = "udp" THEN {Head(held)} ELSE {})
    /\ pc' = "verdict"
    /\ UNCHANGED <<thrVars, transport, client, needDrop, seqNum, server>>

\* step_sequence_number() of syslog-ng: 1, 2, ..., SeqMax, 1, ...
StepSequenceNumber(n) == IF n = SeqMax THEN 1 ELSE n + 1

\* Mutation of Success: a cast that failed makes it FALSE, as the branch for
\* failures after it expects.
Success_Cast == held # <<>> /\ ~needDrop

\* What the insert reports: success is what log_queue_pop_head() returned, TRUE
\* here; need_drop is looked at only when success is FALSE.
Success == held # <<>>

FinishInsert ==
    /\ pc = "verdict"
    /\ Settle(IF Success THEN "stored" ELSE "dropped", Success)
    /\ seqNum' = StepSequenceNumber(seqNum)
    /\ pc' = "idle"
    /\ UNCHANGED <<transport, client, needDrop, server, inFlight, reached>>

\* The worker leaves its loop; the frame calls riemann_dd_disconnect().
LeaveLoop ==
    /\ Exit
    /\ client' = "null"
    /\ UNCHANGED <<pc, transport, needDrop, seqNum, server, inFlight, reached>>

WorkerStep ==
    \/ CallInsert \/ Connect \/ Pop \/ FillFields \/ SendOneshot \/ FinishInsert
    \/ LeaveLoop

\* The frame suspends the worker after an insert that returned FALSE; this
\* insert never does, so there is no step for the end of a suspension.
Next ==
    \/ \E s \in Sources : SourceStep(s)
    \/ DriverInit \/ StopRequest \/ DriverDeinit
    \/ ServerDown \/ ServerUp \/ \E m \in inFlight : DatagramArrives(m)
    \/ WorkerStep

\* The worker is a thread of its own: it is scheduled when it can run.
Spec == Init /\ [][Next]_vars /\ WF_vars(WorkerStep)

-----------------------------------------------------------------------------
\* Properties.

TypeOK ==
    /\ ThrTypeOK
    /\ pc \in {"idle", "connect", "pop", "fields", "send", "verdict"}
    /\ transport \in {"tcp", "udp"}
    /\ client \in {"null", "live", "stale"}
    /\ needDrop \in BOOLEAN
    /\ seqNum \in 1..SeqMax
    /\ server \in {"up", "down"}
    /\ inFlight \subseteq Message
    /\ reached \in Seq(Message)
    /\ pc = "idle" <=> worker # "insert"
    /\ held # <<>> <=> pc \in {"fields", "send", "verdict"}

\* Whatever need_drop says and whatever became of the send, the message counts
\* as stored: the counter "dropped" of this driver never moves.
EveryVerdictIsStored == dropped = 0 /\ stored = Len(settled)

\* A message reaches the server at most once, over TCP in the order of the
\* queue, across outages, skipped sends and reconnections; the datagrams of UDP
\* may get lost and overtake each other.
ReachedOnceInOrder ==
    /\ \A i, j \in DOMAIN reached : i # j => reached[i] # reached[j]
    /\ transport = "tcp" =>
          \A i, j \in DOMAIN reached :
             i < j => \E a, b \in DOMAIN Ledger :
                         a < b /\ Ledger[a] = reached[i] /\ Ledger[b] = reached[j]

\* A connection that broke, as only one over TCP can, is never repaired while the
\* worker runs: no message reaches the server again, although the server may be
\* back and although every further message counts as stored.  Over UDP there is
\* nothing to repair: the messages after an outage reach the server again.
BrokenForGood ==
    [][client = "stale" =>
          /\ transport = "tcp" /\ reached' = reached
          /\ client' = "stale" \/ worker' = "stopped"]_vars
=============================================================================
