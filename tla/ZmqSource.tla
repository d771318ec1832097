----------------------------- MODULE ZmqSource -----------------------------
(***************************************************************************)
(* The ZeroMQ source (src/modules/zmq/zmq-source.c and zmq-transport.c)    *)
(* across reloads of the configuration.  Its context is handed from the    *)
(* old configuration to the new one through the persistent configuration   *)
(* (external), under a name made of address and port; its socket is not:   *)
(* each init creates and binds a socket of its own, and nothing ever       *)
(* closes one.                                                             *)
(*                                                                         *)
(* Contexts and sockets are numbered in the order they are made.           *)
(***************************************************************************)
EXTENDS Integers, FiniteSets

CONSTANTS
    Ports,          \* the ports a configuration may name
    MaxReloads,     \* bound: how often the configuration is reloaded
    MaxMsgs         \* bound: how many messages are pushed to each port

ASSUME MaxReloadsAssumption == MaxReloads \in Nat
ASSUME MaxMsgsAssumption == MaxMsgs \in Nat

VARIABLES
    asserts,    \* the build keeps g_assert()
    main,       \* the main thread: where it is, or "hung", or "crashed"
    port,       \* the port of the configuration in use
    next,       \* the port of the configuration being loaded
    context,    \* zmq_reader_context of the driver in use, 0 for NULL
    reader,     \* the socket its log reader reads, 0 for no reader
    kept,       \* the persistent configuration: a context per port, 0 for none
    sockets,    \* all sockets: number, context, port, and whether bind worked
    reloads,    \* how many reloads have begun
    pushed,     \* messages pushed to each port so far
    waiting,    \* messages that wait in each socket
    read        \* messages the source has read from each port

cfgVars == <<asserts, port, next, reloads>>
srcDrvVars == <<context, reader, kept, sockets>>
msgVars == <<pushed, waiting, read>>
srcVars == <<main, cfgVars, srcDrvVars, msgVars>>

SocketNos == 1..(2 * MaxReloads + 2)

\* A socket of the source, the one bound to a port, if any, and those of a context.
Socket(n) == CHOOSE s \in sockets : s.no = n
BoundTo(p) == {s \in sockets : s.port = p /\ s.bound}
OpenIn(c) == {s \in sockets : s.context = c}

SrcInit ==
    /\ asserts \in BOOLEAN
    /\ main = "start"
    /\ port \in Ports /\ next = port
    /\ context = 0 /\ reader = 0
    /\ kept = [p \in Ports |-> 0]
    /\ sockets = {}
    /\ reloads = 0
    /\ pushed = [p \in Ports |-> 0]
    /\ waiting = [n \in SocketNos |-> 0]
    /\ read = [p \in Ports |-> 0]

-----------------------------------------------------------------------------
\* The pushers, and the reader in the main loop.

\* A message for a port goes to the socket that is bound to it; without one
\* the pusher keeps it to itself.
Push(p) ==
    /\ main # "crashed" /\ pushed[p] < MaxMsgs
    /\ \E s \in BoundTo(p) : waiting' = [waiting EXCEPT ![s.no] = @ + 1]
    /\ pushed' = [pushed EXCEPT ![p] = @ + 1]
    /\ UNCHANGED <<main, cfgVars, srcDrvVars, read>>

\* log_transport_zmq_read_method(), from the main loop.  The descriptor the reader
\* polls (ZMQ_FD) tells of changes only; that a message which waits is read all the
\* same is left to the reader (external), which reads until there is nothing more.
Read ==
    /\ main = "running" /\ reader # 0 /\ waiting[reader] > 0
    /\ waiting' = [waiting EXCEPT ![reader] = @ - 1]
    /\ read' = [read EXCEPT ![port] = @ + 1]
    /\ UNCHANGED <<main, cfgVars, srcDrvVars, pushed>>

-----------------------------------------------------------------------------
\* The driver.

\* Mutation of SdInit: sockets share a port.
SdInit_Share(p) ==
    LET no == Cardinality(sockets) + 1
        c == IF kept[p] # 0 THEN kept[p] ELSE no
    IN  /\ context' = c
        /\ kept' = [kept EXCEPT ![p] = 0]
        /\ sockets' = sockets \union
               {[no |-> no, context |-> c, port |-> p, bound |-> TRUE]}
        /\ reader' = no

\* zmq_sd_init(): the context kept under the name of the port is taken over, or
\* a new one made; then create_reader() makes a socket and binds it, which the
\* port may be taken for, and nobody looks.
SdInit(p) ==
    LET no == Cardinality(sockets) + 1
        c == IF kept[p] # 0 THEN kept[p] ELSE no
    IN  /\ context' = c
        /\ kept' = [kept EXCEPT ![p] = 0]
        /\ sockets' = sockets \union
               {[no |-> no, context |-> c, port |-> p, bound |-> BoundTo(p) = {}]}
        /\ reader' = no

SrcStart ==
    /\ main = "start"
    /\ SdInit(port)
    /\ main' = "running"
    /\ UNCHANGED <<cfgVars, msgVars>>

\* The reader sees the end of its input or an error, and zmq_sd_notify() takes
\* the driver down; the pipe still counts as initialised.  A read of zero bytes
\* is an end of input.  Outside a reload there may be nobody to keep a context.
Notify ==
    /\ main = "running" /\ reader # 0
    /\ kept' \in {kept, [kept EXCEPT ![port] = context]}
    /\ context' = 0 /\ reader' = 0
    /\ UNCHANGED <<main, cfgVars, sockets, msgVars>>

-----------------------------------------------------------------------------
\* A reload: the old driver goes down, the new one comes up, what was kept for
\* nobody is destroyed, and the old driver is freed.

\* Mutation of SdDeinit: a context that is gone is noticed.
SdDeinit_Check(p) ==
    /\ main = "running" /\ reloads < MaxReloads
    /\ reloads' = reloads + 1 /\ next' = p
    /\ main' = "deinited"
    /\ kept' = IF context = 0 THEN kept ELSE [kept EXCEPT ![port] = context]
    /\ context' = 0 /\ reader' = 0
    /\ UNCHANGED <<asserts, port, sockets, msgVars>>

\* zmq_sd_deinit(): the reader goes, the context is kept under the name of the
\* port, and the pointer to it is reset.  Without a context it is a null pointer.
SdDeinit(p) ==
    /\ main = "running" /\ reloads < MaxReloads
    /\ reloads' = reloads + 1 /\ next' = p
    /\ main' = IF context = 0 THEN "crashed" ELSE "deinited"
    /\ kept' = [kept EXCEPT ![port] = context]
    /\ context' = 0 /\ reader' = 0
    /\ UNCHANGED <<asserts, port, sockets, msgVars>>

NewInit ==
    /\ main = "deinited"
    /\ SdInit(next)
    /\ port' = next
    /\ main' = "inited"
    /\ UNCHANGED <<asserts, next, reloads, msgVars>>

\* zmq_socket_deinit() on each context nobody fetched: zmq_ctx_destroy() waits
\* until all sockets of the context are closed.
DestroyKept ==
    /\ main = "inited"
    /\ IF \E p \in Ports : kept[p] # 0 /\ OpenIn(kept[p]) # {}
       THEN main' = "hung" /\ UNCHANGED kept
       ELSE main' = "freeing" /\ kept' = [p \in Ports |-> 0]
    /\ UNCHANGED <<cfgVars, context, reader, sockets, msgVars>>

\* zmq_sd_free() of the old driver: g_assert() looks for the reader in the
\* context that deinit has set to NULL.
FreeOld ==
    /\ main = "freeing"
    /\ main' = IF asserts THEN "crashed" ELSE "running"
    /\ UNCHANGED <<cfgVars, srcDrvVars, msgVars>>

MainStep == SrcStart \/ NewInit \/ DestroyKept \/ FreeOld \/ Read

SrcNext ==
    \/ \E p \in Ports : Push(p) \/ SdDeinit(p)
    \/ Notify
    \/ MainStep

\* The main thread runs, and pushers keep pushing; a reload or an end of input
\* need not come.
SrcSpec ==
    SrcInit /\ [][SrcNext]_srcVars /\ WF_srcVars(MainStep) /\ \A p \in Ports : WF_srcVars(Push(p))

-----------------------------------------------------------------------------
\* Properties.

SrcTypeOK ==
    /\ asserts \in BOOLEAN
    /\ main \in {"start", "running", "deinited", "inited", "freeing", "hung", "crashed"}
    /\ port \in Ports /\ next \in Ports
    /\ context \in {0} \union SocketNos /\ reader \in {0} \union SocketNos
    /\ kept \in [Ports -> {0} \union SocketNos]
    /\ sockets \subseteq [no : SocketNos, context : SocketNos, port : Ports, bound : BOOLEAN]
    /\ reloads \in 0..MaxReloads
    /\ pushed \in [Ports -> 0..MaxMsgs] /\ read \in [Ports -> 0..MaxMsgs]
    /\ waiting \in [SocketNos -> 0..MaxMsgs]

\* The source hears its port in the first configuration that names it and never
\* again: the socket of that time keeps the port and nobody reads it.
DeafAfterFirst ==
    reader # 0 =>
        (Socket(reader).bound <=> \A s \in sockets : s.port = port => s.no >= reader)

\* A reload that changes the port never ends: the main thread hangs over the
\* old context.  One that keeps the port ends only in a build without asserts.
ReloadsThatEnd ==
    /\ main = "freeing" => port = (CHOOSE s \in sockets : s.no = 1).port
    /\ main = "running" /\ reloads > 0 =>
          ~asserts /\ Cardinality({s.port : s \in sockets}) = 1

\* What the test of the module expects: after a reload that changed the port,
\* a message pushed to the new port is received.
ReceivesAfterPortChange ==
    \A p \in Ports :
        (main = "inited" /\ port = p /\ Cardinality({s.port : s \in sockets}) = 2)
            ~> read[p] > 0
=============================================================================
