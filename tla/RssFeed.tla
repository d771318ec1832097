------------------------------ MODULE RssFeed ------------------------------
(***************************************************************************)
(* The RSS destination (src/modules/rss/rss.c).  The threads of the log    *)
(* path append messages to a backlog of bounded length under a lock, and   *)
(* the main thread, when a client connects, walks the backlog and numbers  *)
(* its entries without taking the lock.                                    *)
(*                                                                         *)
(* Messages are appended at the tail and removed at the head, so the n-th  *)
(* message ever appended is node n, and three numbers make up the list:    *)
(* nodes 1..freed are released memory, self->backlog points to node head,  *)
(* and appended is the tail.                                               *)
(*                                                                         *)
(* The listening socket is registered with the main loop by init, and      *)
(* nothing takes it back: a reload leaves the port with a driver that is   *)
(* freed.                                                                  *)
(***************************************************************************)
EXTENDS Integers, Sequences, FiniteSets

CONSTANTS
    Writers,    \* the threads that queue messages
    Limit,      \* the length of the backlog (100)
    Buffers,    \* the entries the buffers of a socket take from a feed
    MaxMsgs,    \* bound: how many messages each driver is given
    Ports       \* the ports a configuration may name

ASSUME LimitAssumption == Limit \in Nat \ {0}
ASSUME BuffersAssumption == Buffers \in Nat
ASSUME MaxMsgsAssumption == MaxMsgs \in Nat
ASSUME PortsAssumption == Ports # {} /\ IsFiniteSet(Ports)

VARIABLES
    appended,   \* messages appended so far
    freed,      \* messages and nodes released so far
    head,       \* the node self->backlog points to; none if it is not there yet
    id,         \* self->id
    wpc,        \* where each writer is in _append_msg_to_backlog()
    rpc,        \* where the main thread is in _accept_and_serve_rss_connection()
    item,       \* local feed_item: a node, or 0 for NULL
    offset,     \* local offset
    feed,       \* the entries formatted so far, as pairs of node and id
    client,     \* the client: "none", "silent", "asked", or "reads" its answer
    port,       \* self->port of the driver of the running configuration
    serves,     \* whom a connection to each port reaches: "nobody", the "current"
                \* driver, or one that was "freed"
    up,         \* the process has not crashed or given up
    lives,      \* history: how many drivers were initialised
    ghost,      \* history: a connection reached a driver that was freed
    overlap,    \* history: a writer was active since the connection came
    touched     \* history: the walk has read released memory

listVars == <<appended, freed, head, id>>
readVars == <<rpc, item, offset, feed, client>>
driverVars == <<port, serves, lives, ghost>>
rssVars == <<listVars, wpc, readVars, driverVars, up, overlap, touched>>

RssInit ==
    /\ appended = 0 /\ freed = 0 /\ head = 1 /\ id = 0
    /\ wpc = [w \in Writers |-> "idle"]
    /\ rpc = "idle" /\ item = 0 /\ offset = 0 /\ feed = <<>>
    /\ client = "none"
    /\ \E p \in Ports :
          /\ port = p
          /\ serves = [q \in Ports |-> IF q = p THEN "current" ELSE "nobody"]
    /\ lives = 1 /\ ghost = FALSE
    /\ up = TRUE /\ overlap = FALSE /\ touched = FALSE

-----------------------------------------------------------------------------
\* The writers.

\* g_mutex: the steps of a writer that holds the lock.
Locked == {"append", "remove", "move", "count", "unlock"}
LockFree == \A w \in Writers : wpc[w] \notin Locked

\* Writer w goes from one step to the next; the main thread is not disturbed.
WriterGoes(w, from, to) ==
    /\ wpc[w] = from
    /\ wpc' = [wpc EXCEPT ![w] = to]
    /\ overlap' = TRUE
    /\ UNCHANGED <<readVars, driverVars, up, touched>>

\* rss_dd_queue() gets a message.
QueueMsg(w) ==
    /\ appended + Cardinality({v \in Writers : wpc[v] \in {"lock", "append"}}) < MaxMsgs
    /\ WriterGoes(w, "idle", "lock")
    /\ UNCHANGED listVars

Lock(w) == LockFree /\ WriterGoes(w, "lock", "append") /\ UNCHANGED listVars

\* Mutation of AppendMsg: the length is compared before the message is added.
AppendMsg_CheckFirst(w) ==
    /\ WriterGoes(w, "append", IF appended - freed > Limit THEN "remove" ELSE "unlock")
    /\ appended' = appended + 1
    /\ UNCHANGED <<freed, head, id>>

\* g_list_append(), and the length decides whether a message has to go.
AppendMsg(w) ==
    /\ WriterGoes(w, "append", IF appended + 1 - freed > Limit THEN "remove" ELSE "unlock")
    /\ appended' = appended + 1
    /\ UNCHANGED <<freed, head, id>>

\* g_list_remove() releases the first node, and its message is released after;
\* self->backlog is assigned only when it returns.
FreeHead(w) ==
    /\ WriterGoes(w, "remove", "move")
    /\ freed' = freed + 1
    /\ UNCHANGED <<appended, head, id>>

MoveHead(w) ==
    /\ WriterGoes(w, "move", "count")
    /\ head' = head + 1
    /\ UNCHANGED <<appended, freed, id>>

\* Mutation of CountRemoved: the number of the first entry is not kept up.
CountRemoved_Forgotten(w) == WriterGoes(w, "count", "unlock") /\ UNCHANGED listVars

CountRemoved(w) ==
    /\ WriterGoes(w, "count", "unlock")
    /\ id' = id + 1
    /\ UNCHANGED <<appended, freed, head>>

\* The lock is given back, and the message goes to the end of its log path,
\* which acknowledges it.
Unlock(w) == WriterGoes(w, "unlock", "idle") /\ UNCHANGED listVars

WriterStep(w) ==
    AppendMsg(w) \/ FreeHead(w) \/ MoveHead(w) \/ CountRemoved(w) \/ Unlock(w)

-----------------------------------------------------------------------------
\* The main thread.

ReaderGoes(from, to) ==
    /\ rpc = from
    /\ rpc' = to
    /\ UNCHANGED <<listVars, wpc, driverVars>>

\* A client connects to the port of the driver; the walk starts at the head of
\* the backlog.  accept() is given a length nobody has set, and fails when it
\* happens to be negative: then there is no connection to answer on.
Accept ==
    /\ ReaderGoes("idle", "offset")
    /\ serves[port] = "current"
    /\ client' \in {"silent", "none"}
    /\ item' = IF head <= appended THEN head ELSE 0
    /\ feed' = <<>>
    /\ overlap' = ~LockFree
    /\ touched' = FALSE
    /\ UNCHANGED <<offset, up>>

\* int offset = self->id: a second read, of another field.
ReadOffset ==
    /\ ReaderGoes("offset", "format")
    /\ offset' = id
    /\ UNCHANGED <<item, feed, client, up, overlap, touched>>

\* Reading released memory is undefined: the process may die of it, or find
\* what was there before.
Touch(node) ==
    /\ touched' = (touched \/ node <= freed)
    /\ up' \in (IF node <= freed THEN BOOLEAN ELSE {TRUE})

\* The title and the description of the entry are formatted from its message.
FormatEntry ==
    /\ item # 0 /\ ReaderGoes("format", "next")
    /\ Touch(item)
    /\ feed' = Append(feed, <<item, offset>>)
    /\ UNCHANGED <<item, offset, client, overlap>>

\* g_list_next(); the link of a released node has been reset to NULL, or not yet.
NextEntry ==
    /\ ReaderGoes("next", "format")
    /\ Touch(item)
    /\ item' \in (IF item < appended THEN {item + 1} ELSE {0})
                 \union (IF item <= freed THEN {0} ELSE {})
    /\ offset' = offset + 1
    /\ UNCHANGED <<feed, client, overlap>>

\* Mutation of FormatEnd: an empty backlog is not answered.
FormatEnd_NotEmpty ==
    /\ item = 0 /\ feed # <<>> /\ ReaderGoes("format", "respond")
    /\ UNCHANGED <<item, offset, feed, client, up, overlap, touched>>

\* The footer ends the feed.
FormatEnd ==
    /\ item = 0 /\ ReaderGoes("format", "respond")
    /\ UNCHANGED <<item, offset, feed, client, up, overlap, touched>>

\* The client sends its request, and takes what it is answered, or does not.
ClientAsks ==
    /\ client = "silent" /\ client' = "asked"
    /\ UNCHANGED <<listVars, wpc, rpc, item, offset, feed, driverVars, up, overlap, touched>>

ClientReads ==
    /\ client = "asked" /\ client' = "reads"
    /\ UNCHANGED <<listVars, wpc, rpc, item, offset, feed, driverVars, up, overlap, touched>>

\* It closes the connection: nothing waits for it any more.
ClientLeaves ==
    /\ client \in {"silent", "asked", "reads"} /\ client' = "none"
    /\ UNCHANGED <<listVars, wpc, rpc, item, offset, feed, driverVars, up, overlap, touched>>

ClientStep == ClientAsks \/ ClientReads \/ ClientLeaves

\* _respond_with_feed(): the main thread reads the request, which blocks until
\* there is one; without a connection the call fails at once, as those after it.
Respond ==
    /\ client # "silent" /\ ReaderGoes("respond", "write")
    /\ UNCHANGED <<item, offset, feed, client, up, overlap, touched>>

\* A feed larger than the buffers waits for a client that does not read it.
WriteBlocks == client = "asked" /\ Len(feed) > Buffers

\* The feed is written, and the connection is closed.
WriteFeed ==
    /\ ~WriteBlocks /\ ReaderGoes("write", "idle")
    /\ client' = "none"
    /\ UNCHANGED <<item, offset, feed, up, overlap, touched>>

ReaderStep == ReadOffset \/ FormatEntry \/ NextEntry \/ FormatEnd \/ Respond \/ WriteFeed

-----------------------------------------------------------------------------
\* The reload of the configuration, in the main thread, with no writer about.

\* Mutation of Release: deinit unregisters the socket and closes it.
Release_Closed == [serves EXCEPT ![port] = "nobody"]

\* rss_dd_deinit() does nothing, and rss_dd_free() releases the driver the
\* listening socket is registered for.
Release == [serves EXCEPT ![port] = "freed"]

Quiet == rpc = "idle" /\ \A w \in Writers : wpc[w] = "idle"

\* The new configuration names a port nobody listens on: the new driver starts
\* with an empty backlog.
Reload(p) ==
    /\ Quiet /\ serves[p] = "nobody"
    /\ appended' = 0 /\ freed' = 0 /\ head' = 1 /\ id' = 0
    /\ feed' = <<>>
    /\ port' = p
    /\ serves' = [Release EXCEPT ![p] = "current"]
    /\ lives' = lives + 1
    /\ UNCHANGED <<wpc, rpc, item, offset, client, ghost, up, overlap, touched>>

\* It names one that was used before: bind() fails and so does init.  The old
\* driver is initialised again, and its bind() fails over its own socket:
\* syslog-ng gives up.
ReloadFails(p) ==
    /\ Quiet /\ serves[p] # "nobody"
    /\ up' = FALSE
    /\ UNCHANGED <<listVars, wpc, readVars, driverVars, overlap, touched>>

\* A client connects to the port of a driver that was freed: the handler runs on
\* released memory, and if it returns nothing has changed.
AcceptFreed(p) ==
    /\ rpc = "idle" /\ serves[p] = "freed"
    /\ ghost' = TRUE
    /\ up' \in BOOLEAN
    /\ UNCHANGED <<listVars, wpc, readVars, port, serves, lives, overlap, touched>>

\* A process that crashed does nothing any more.
RssNext ==
    /\ up
    /\ \/ \E w \in Writers : QueueMsg(w) \/ Lock(w) \/ WriterStep(w)
       \/ Accept \/ ClientStep \/ ReaderStep
       \/ \E p \in Ports : Reload(p) \/ ReloadFails(p) \/ AcceptFreed(p)

\* Every thread runs when it can and gets the lock in the end; no client need
\* come, and one that came need not say anything, or read.
RssSpec ==
    /\ RssInit /\ [][RssNext]_rssVars
    /\ WF_rssVars(up /\ ReaderStep)
    /\ \A w \in Writers : WF_rssVars(up /\ WriterStep(w)) /\ SF_rssVars(up /\ Lock(w))

-----------------------------------------------------------------------------
\* Properties.

RssTypeOK ==
    /\ appended \in 0..MaxMsgs /\ freed \in 0..MaxMsgs /\ id \in 0..MaxMsgs
    /\ head \in 1..(MaxMsgs + 1)
    /\ wpc \in [Writers -> {"idle", "lock"} \union Locked]
    /\ rpc \in {"idle", "offset", "format", "next", "respond", "write"}
    /\ item \in 0..MaxMsgs /\ offset \in 0..(2 * MaxMsgs)
    /\ feed \in Seq((1..MaxMsgs) \X (0..(2 * MaxMsgs)))
    /\ client \in {"none", "silent", "asked", "reads"}
    /\ port \in Ports /\ serves \in [Ports -> {"nobody", "current", "freed"}]
    /\ lives \in Nat /\ ghost \in BOOLEAN
    /\ up \in BOOLEAN /\ overlap \in BOOLEAN /\ touched \in BOOLEAN

\* The backlog holds the newest messages, never more than the limit when the
\* lock is free, and self->id counts what was removed from it.
BacklogIsBounded ==
    /\ appended - freed \in 0..(Limit + 1)
    /\ LockFree => /\ freed = IF appended > Limit THEN appended - Limit ELSE 0
                   /\ id = freed /\ head = freed + 1

\* A feed no writer interfered with is the backlog, each entry numbered by how
\* many messages came before it, the same in every feed it appears in.  Under
\* interference, as long as the walk reads no released memory, the number of an
\* entry is its own or one too low (when the walk started between the removal of
\* a message and its count), and the entries are consecutive.
FeedIsRight ==
    /\ rpc = "respond" /\ ~overlap =>
          feed = [i \in 1..(appended - freed) |-> <<freed + i, freed + i - 1>>]
    /\ ~touched =>
          /\ \A i \in DOMAIN feed : feed[i][2] - feed[i][1] \in {-2, -1}
          /\ \A i \in DOMAIN feed : feed[i][1] = feed[1][1] + i - 1

\* Each driver uses up a port: of the ports that were listened on one reaches the
\* running driver and the others reach freed ones, so that a process survives
\* fewer reloads than there are ports, and the first is enough for a connection
\* to run on freed memory.
PortsAreUsedUp ==
    /\ Cardinality({p \in Ports : serves[p] # "nobody"}) = lives
    /\ {p \in Ports : serves[p] = "current"} = {port}
    /\ ghost => lives > 1

\* The main thread comes back from a connection, whatever the writers do, unless
\* the client keeps it: one that says nothing, and one that asks for a feed larger
\* than the buffers and does not read it.
MainThreadReturns ==
    rpc # "idle" ~> (rpc = "idle" \/ client = "silent" \/ WriteBlocks \/ ~up)
=============================================================================
