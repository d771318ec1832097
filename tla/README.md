# Verification of the syslog-ng incubator modules

TLA+ models, TLC runs and TLAPS proofs for the modules of the syslog-ng
incubator: the destinations that hand log messages to Riemann, Python, Perl,
Lua and ZeroMQ, the RSS destination, and the trigger, monitor and ZeroMQ sources.

What they have in common is syslog-ng's pipeline. A message belongs to the source
that posted it until somebody acknowledges it; a driver runs partly in the main
thread (configuration, timers, connections) and partly in a worker thread of its
own (inserts), and an embedded interpreter or a library adds state the C code
only sees through an interface that is easy to get wrong. The models follow that
state: queues and windows, interpreter locks, argument stacks, sockets and
contexts, timers and the flags that double them.

Contents: [inventory](#inventory) · [modules](#modules-and-how-they-map-to-the-code) ·
[runs](#runs) · [fairness](#fairness) · [proofs](#proofs) · [findings](#findings) ·
[not modelled](#what-is-not-modelled) · [plan](#plan)

## Inventory

| component | state it keeps | operations | called by / interacts with |
|---|---|---|---|
| Threaded destination frame (`LogThrDestDriver`, `LogQueue`, `LogSource` of syslog-ng, external) | queue of the driver, counters stored/dropped, state of the worker, flow-control window of each source | push, wake, reopen, insert, disconnect, terminate, acknowledge | source threads push; the worker thread calls the driver's insert; an acknowledgement reaches back to the source |
| Riemann (`modules/riemann/riemann.c`) | client, sequence number | connect, insert, disconnect | worker thread; Riemann server over TCP or UDP |
| Python (`modules/python/python-dest.c`) | module and function objects, their references | init, eval, deinit, which the script may refuse | worker thread and main thread, both under the interpreter lock of the process |
| Perl (`modules/perl/perl-dest.c`) | interpreter, its argument stack | thread init, eval, thread deinit | worker thread only |
| Lua (`modules/lua/lua-dest.c`) | Lua state and its stack, globals, mode | init, queue, deinit | init in the main thread, queue in the worker |
| ZeroMQ destination (`modules/zmq/zmq-destination.c`) | context, socket | thread init, insert, disconnect | worker thread; peers that connect to the bound port |
| Trigger source (`modules/trigger-source/trigger-source.c`) | timer, `watches_running`, options | init, deinit, timer handler | main thread; destinations acknowledge from their threads |
| Monitor source (`modules/monitor-source/monitor-source.c`) | the same, and a Lua state | the same, and the call of the script | the same |
| RSS (`modules/rss/rss.c`) | backlog, count of removed entries, listening socket, which outlives the driver | queue, serve a connection, init, free | any thread of the log path queues; the main thread serves |
| ZeroMQ source (`modules/zmq/zmq-source.c`, `zmq-transport.c`) | context (handed over through the persistent configuration), reader, sockets | init, deinit, notify, free, read | main thread only; peers push |
| basicfuncs-plus, getent, graphite-output | a hash table behind `$(state)`; otherwise none | template functions | any thread that formats a template |
| Lua objects (`lua-msg.c`, `lua-template.c`, `lua-utils.c`) | references held by the Lua collector | create, index, format, collect | scripts of the Lua destination; the monitor source shares the logging functions only |
| Elasticsearch (`lua/elasticsearch.lua`, `scl/elasticsearch/es-bridge`) | batch of a script | queue, flush | Lua destination, a pipe |
| logmongource (`tools/visualize`) | none shared | follow a collection | stand-alone |
| grammars, parsers, plugin glue | none at run time | set options | configuration parser |

What is hard here, and what has to be right:

* **Concurrency.** Sources post while a worker inserts, and acknowledgements come
  back while a timer handler runs. A popped message is in nobody's queue until its
  verdict, so exactly one verdict per message, in order, and one acknowledgement
  is the core promise. Python code of several threads is kept apart by one lock
  that every path has to give back. The RSS feed is formatted without the lock the
  writers use.
* **Failure.** Servers go away, scripts die, values do not convert, ports are
  taken. Each of these has an error path, and most defects of this code are in
  them: the path forgets one of the things the normal path did.
* **Ordering and lifetime.** A reload deinitialises, initialises and frees drivers in a
  fixed order. What outlives a deinit (a socket, a context, an option string, a
  registered descriptor) is met again by the next life.
* **Limits.** Windows that fill, a backlog of 100, the 20 slots of a Lua stack, a
  sequence number that wraps, reference counts that run out.

The correctness properties per component are in the table of [runs](#runs), and
`PROJECT.json` lists the hazards line by line.

## Modules and how they map to the code

`PROJECT.json` maps each definition to its lines. Definitions named
`Name_Something` ("Mutation of Name") are plausible defects; they are not part of
any specification and only serve to show that the properties can fail.

### The frame and the promise

**`Delivery`** is the abstract promise of a destination: accept each message
once, settle the oldest pending message with one verdict.

**`LogThrDest`** is the frame. `Post` is a source pushing within its window,
`Wake`, `Reopen`, `Exit`, `Terminate` are the worker loop of syslog-ng as the
drivers see it, `PopHead`, `PopNothing` and `Settle` are the steps all insert
functions share (pop without backlog; count, acknowledge, release, return).
`Start` and `GoDown` are the two ends of a life of the driver: a reload of the
configuration terminates the worker, deinitialises the driver and initialises it
again, and the queue goes from one life to the next under the persistent name.
`held` is the local variable `msg` between pop and verdict. `Promise` instantiates
`Delivery` with `accepted <- Posted` and `pending <- held \o queue`.

### The destinations

The driver modules extend the frame. Each has a program counter `pc` that splits
the insert where another thread, the environment or an error path can come in
between; a step of the frame and a step of the driver are one action.

* **`RiemannDest`**: `Connect` → `Pop` → `FillFields` → `SendOneshot` →
  `FinishInsert`. `transport` is `type()` of the configuration. Over TCP a client needs a
  server that is up, and an outage makes it "stale", which the code cannot tell. Over UDP a
  client needs no server and no outage breaks it; what it sends is a datagram `inFlight`, which
  arrives (`DatagramArrives`), late or after a later one, or never. `FillFields` decides
  `need_drop`, which holds back the event but not the verdict, since `Success` is what the pop
  returned. `DriverInit` is the init with its defaults.
* **`PythonDest`**: `Pop` → `EnsureGil` → `Convert` → `CallScript` → `ReleaseGil` →
  `FinishInsert` in the worker; in the main thread (`mainPc`) the init, `EnsureInit` →
  `ImportScript` → `LookUpQueue` → `LookUpFunctions` → `InitRefused` or `InitSucceeds`, of which
  each but the first can fail, and the deinit, `EnsureDeinit` → `DeinitAgrees` or
  `DeinitRefused`. `gil` is the interpreter lock; `refs` are the counts of `True` and `False`, of
  which `Released` takes the one reference too many. `pins` are the references to the objects of
  the script, counted where the code takes one (`Took`) and gives one back (`GaveBack`);
  `begunWith` and `failures` are histories of what the inits came to. `stranded` is the queue of a driver whose deinit function
  says FALSE, so that the deinit of the frame never runs. `Survives` says which answers
  the process survives (an exception is a `Py_DECREF` of NULL; an object that is
  released twice may be gone).
* **`PerlDest`**: `ThreadInit`, then `Pop` → `Convert` → `CallScript` → `FinishInsert`,
  and `LeaveLoop` with the deinit of the thread. `sp` is the stack pointer in slots;
  `Pops` is 2 after a death, and `ReadAsInt` what the last `POPi` can see. `context` is
  what `msg_set_context()` set. `interpreters` counts those that were made and not
  destroyed: a deinit function that fails (`Goodbyes`) returns before `perl_destruct()`.
* **`LuaDest`**: `Pop` → `PushCall` → `AddParameter`* → `CallScript` →
  `FinishInsert`. `stack` holds the kinds of the values on the Lua stack;
  `InitialStack` is what `lua_dd_init()` leaves. `InitSucceeds`, `InitFails`, `Deinit` and
  `Revert` are the life of the driver: a refused configuration makes syslog-ng
  initialise the previous driver again (`restored`), whose state was closed. `death` says what
  ended the process. The script can, wherever it runs: `os.exit()`, a field of something that is
  no message, a finaliser called by hand. The driver can by using a state in a way nobody
  defined (`Deaths`): one that is closed, one from which more globals were taken than were on it
  (`Underrun`), or more slots than Lua guarantees. What that comes to is open: the process dies, or
  goes on as if nothing had happened. Only an error nobody catches is certain death.
* **`EsBatch`** puts `elasticsearch.lua` into `LuaDest`: `ElasticInit`, `ElasticQueue`
  (append; post the request when the count is a multiple of the batch size) and
  `ElasticDeinit`. `sound` says that the script has always run on a state that is what it should
  be; of its variables in another one nothing can be said. Whether the script is this one
  or any other is a choice of the run, so that the properties of `LuaDest` are checked for both.
* **`LuaObjects`** stands beside them: the messages and templates a script in raw mode
  has, each with its reference count, its userdata (`handle`), and whether the script
  can still get at it (`reach`). `phase` is the life of the Lua state: `LoadFile` →
  `InitReturns` → (`CallQueueFunc` → `AcceptMessage`)* → `Deinit` → `Close`. Lua does
  something, collecting included, only while one of its functions runs (`Running`).
* **`ZmqDest`**: `ThreadInit`, then `Pop` → `Connect` → `Send` → `FinishSent` or
  `FinishFailed`. This driver does not settle anything: it acknowledges or rewinds
  a backlog it never filled, so it extends the frame without keeping its contract, and
  `taken` is a history of what it did. `replyDue` is the state of a request socket in the library:
  set by a send, cleared by a new socket, for nothing here ever receives the reply. A message counts as `received` when the
  library has handed it to the pipe of a connected peer. `unread` says that the pipe holds
  something: `zmq_ctx_destroy()`, at the end of the loop and after each failure, waits
  until a peer has read it. A send without a peer waits (`Blocked`) until one comes or a
  signal arrives (`Interrupted`).

**`RssFeed`**: the writers' steps under the lock (`Lock`, `AppendMsg`, `FreeHead`,
`MoveHead`, `CountRemoved`, `Unlock`) and the main thread's without it (`Accept`,
`ReadOffset`, `FormatEntry`, `NextEntry`, `FormatEnd`, then `Respond`, which reads the request,
and `WriteFeed`, which writes the answer and closes). The connection blocks both ways: the read
waits for a client that has not asked (`ClientAsks`), the write for one that does not read
(`ClientReads`) a feed larger than the `Buffers` (`WriteBlocks`), unless it hangs up
(`ClientLeaves`). Since messages
are appended at one end and removed at the other, the list is three numbers:
`freed`, `head` and `appended`. Reading a released node is undefined: it may end the
walk, go on as if nothing had happened, or crash. `Reload` and `ReloadFails` follow the
listening sockets: `serves` says which driver a port reaches, a freed one included
(`AcceptFreed`).

### The sources

**`TimedSource`** is the frame `trigger-source.c` implements and
`monitor-source.c` repeats. `registered` is what the main loop knows of the timer,
`running` is `watches_running`; `Expire` is the check at the start of the handler,
`UpdateWatches` the one at its end; `Ack` comes from other threads in between.
`option` follows the option string through `sd_deinit`; using one that is freed, or freeing it
again, may end the process or not (`UseOption`), and `corrupt` remembers that it did not. **`TriggerSource`** adds the
posting of the message; **`MonitorSource`** the call of the script, which may end the process (`ScriptEnds`), or fail and
leave its error on the Lua stack (`errors`, `Slots`), and the walk over its result, where
`NextPlace` is how `lua_next()` goes on after `lua_tostring()` has turned a number key into
a string. `MCTimedSource` checks both in one run, by the `kind` of the driver.

**`ZmqSource`**: `SdDeinit` → `NewInit` → `DestroyKept` → `FreeOld` is one reload in
the order syslog-ng performs it. `kept` is the persistent configuration, `sockets`
everything that was ever bound or tried to be, since nothing closes a socket.
`asserts` says whether the build keeps `g_assert()`. `Read` may take any message that waits. The
descriptor of a ZeroMQ socket only reports changes, so the code may in fact leave one waiting;
no property depends on a read that must come.

### The template functions

**`StateMap`** is `$(state)`: `SetLock` → `InsertBegins` → `InsertEnds` → `SetUnlock` →
`GetLock` → `Lookup` → `GetUnlock`, in any number of threads. `broken` marks the moment in
which `g_hash_table_insert()` is halfway. **`StateStore`** is what it promises: a store in
which each set is one step.

**`TemplateFuncs`** adds the functions without state as operators (`Or`, `DivX`,
`Padding`, `Getent`, `Graphite`) and an action for each that calls it with any of a small
set of arguments. Lengths are unsigned words of `Word` values, widths signed ones, and port
numbers two bytes of `Byte` values, and users and groups `Ids` values (`AsId`), so that
conversions, casts and byte order do what they do in C: a number too large for the type is cut
(`Cut`), and the user of the number `Ids` is the user 0.
A database may have several names for a number; which of them a lookup by number finds is
the library's choice, and `SameKey` says when an answer still reads back.

## Runs

A run ends in seconds to a minute. `CHECK_DEADLOCK` is off in all of them because
every system here may really stop: sources have a bounded number of messages, workers
are told to terminate, processes crash.

| run | module | states | what it checks |
|---|---|---|---|
| `riemann` | `MCRiemannDest` | 266 608 | `EveryVerdictIsStored` (nothing is ever counted as dropped), `ReachedOnceInOrder` (delivery across outages, skipped sends and reloads: at most once, over TCP in order), `BrokenForGood` (a client over TCP that broke is kept while the worker lives), `PromiseSpec` (the driver implements `Delivery`) |
| `python` | `MCPythonDest` | 116 665 | `GilPaired`, `StoredIffTaken` (a verdict is the script's), `TrueWearsOut` (each `True` costs a reference), `LivesPinTheScript` (which objects of the script are never released, over successful and failed inits), `ReloadKeepsMessages` (only a refused deinit strands messages, and their places in the windows with them), `EveryPostIsSettled` (liveness, against other users of the lock) |
| `perl` | `MCPerlDest` | 1 235 215 | `StoredIsTrueOrLaterDeath`, `StackTellsDeaths` (the stack pointer counts the deaths), `DanglingContext`, `InterpretersLeft` (one for each refused deinit) |
| `lua` | `MCLuaDest` | 347 828 | `DropsPileUp` (the stack between two inserts), `CrashNeedsDropOrBadParameter` (what ends the process when the script does not), `WindowConserved` (window, posts and verdicts of each source add up), `ClosedStateComesBack` (a refused configuration, and nothing else, makes a worker run on a closed state), `BatchesAreWhole` (what `elasticsearch.lua` posts) |
| `lua_objects` | `MCLuaObjects` | 17 544 | `RefsAreOwners` (references are counted right unless a script finalises by hand; what `Message.new()` made is never freed) |
| `zmq_dest` | `MCZmqDest` | 128 565 | `SourcesStall` (the window never recovers), `TakenOnce`, `OneRequestOnly` (in each life of the worker), `ClosedForGood`, `StopsUnlessBlocked` (liveness: what can keep a worker from stopping) |
| `timed` | `MCTimedSource` | 30 518 | `TimerFollowsWindow`, `CorruptFromSecondLifeOn`, `TablesArePostedRight`, `CrashHasACause` (what ends the process when the script does not), `WalkComesToAnEnd` (liveness) |
| `trigger_period` | `MCTriggerSource` | – | `Periodically`, expected to fail: see [findings](#findings) |
| `rss` | `MCRssFeed` | 87 304 | `BacklogIsBounded`, `FeedIsRight` (what a reader without the lock can see), `PortsAreUsedUp` (sockets over reloads), `MainThreadReturns` (liveness: only a client that says nothing or does not read keeps the main thread) |
| `zmq_source` | `MCZmqSource` | 592 | `DeafAfterFirst`, `ReloadsThatEnd` |
| `zmq_source_test` | `MCZmqSource` | – | `ReceivesAfterPortChange`, expected to fail: see [findings](#findings) |
| `templates` | `MCTemplateFuncs` | 339 988 | `ReadsAreCurrent`, `StoreSpec` (the map implements the store), `PaddingIsRight`, `TextsReadBack` (which lookups, lists and lines read back, and what a number too large for its type finds) |

Each module also states its type invariant (`TypeOK`, `ThrTypeOK`, `EsTypeOK`, `TimedTypeOK`,
`RssTypeOK`, `SrcTypeOK`, `ObjTypeOK`, `StateTypeOK`), which ties control state and data
together. They hold in all these instances; the runs leave them out, and those of the frame,
Riemann, Perl, the timed sources, `$(state)` and the Lua objects are proved.

Several of the properties state a defect of the code, exactly as far as it goes:
`EveryVerdictIsStored` and `BrokenForGood`, `TrueWearsOut` and `LivesPinTheScript`,
`StackTellsDeaths`, `InterpretersLeft` and `DanglingContext`, `DropsPileUp` and `ClosedStateComesBack`,
`SourcesStall`, `ClosedForGood` and `OneRequestOnly`, `CorruptFromSecondLifeOn`,
`PortsAreUsedUp`, `DeafAfterFirst`. They are meant to break when the code is repaired, and
then to be replaced by the property one would have liked to write.

### Bounds

| bound | value | why it is enough |
|---|---|---|
| sources × messages | 2 × 2, or 1 × 3 | two sources show every interleaving of posts around one worker; two messages of one source show order; three inserts follow each other in every way |
| `Window` | 1 or 2 | with 1 a source must wait for each acknowledgement, with 2 it need not |
| `MaxLives` | 2 | a life that begins with the queue, the state and the debts of another |
| `MaxFailures` (Python) | 1 | one failed init before, between or after the lives |
| `SeqMax` | 3 | wraps within four messages |
| `BoolRefs`, `MaxPosts` (Python) | 2, 2 | one answer `True` is survived, the second takes the last reference |
| `BadGlobals` (Lua) | 1 or 4 | a global in place of a library, and one more than there are libraries |
| `StackSlots` (Lua) | 9 | full after initialisation, a call and a few drops |
| `BatchSize` | 2 | four messages make a short batch, a whole one and a rest |
| `Objects` (Lua) | 3 | a queued message, one the script made and a template at once; they do not interact but through the state they live in |
| `MaxInits` of timed sources | 3 | a freed option is met in life 2 and freed again in life 3 |
| `Freq`, `Window` of timed sources | 2, 2 (1 in `trigger_period`) | the window fills while the timer is pending and after it has expired |
| `MaxEntries` | 3 | a number, its string, and one entry between or around them, in every order |
| `Slots`, `MaxErrors` (monitor) | 5, 2 | the second failed call leaves the walk a slot short |
| `Limit`, `MaxMsgs` (RSS) | 2, 4 | the backlog overflows twice while a feed of two entries is formatted |
| `Buffers` (RSS) | 1 | a feed of one entry is written at once, one of two waits for the client |
| `Ports` (RSS) | 2 | one reload that works and one that does not |
| `Ports`, `MaxReloads`, `MaxMsgs` (ZeroMQ source) | 2, 2, 2 | a port is kept, left, and come back to; one message read, one waiting |
| threads, names, values, `MaxCalls` (`$(state)`) | 2, 2, 2, 4 | both threads set the same name twice around each other's reads |
| `Word`, `Memory`, `Byte` | 128, 20, 3 | a width below zero wraps to more than the memory; two bytes with and without different halves |
| `Ids`, numbers | 18; -11, -2 to 11, 18, 21 | numbers that fit every type, and on either side some that wrap to one in a database |
| databases | 3 or 4 names | aliases of one number, a number with equal and with different bytes, a group without members |
| messages and pairs (`$(graphite-output)`) | 2, 2 | an empty, a short and a long list at both levels; this one is a bound of the model, not of the run |

The theorems below hold for all values of the constants, that is, without any of these
bounds but the last.

## Fairness

* Worker threads (`WorkerStep`, the RSS writers): weak fairness, they are threads of
  their own that the system schedules when they can run.
* The interpreter lock and the backlog's mutex: strong fairness of `EnsureGil` and
  `Lock`, since both hand the lock to a waiting thread in the end; weak fairness of the
  other user of the interpreter, which returns from its call. That the main thread gets
  the lock for an init or a deinit is not needed.
* The main loop (`Tick`, `HandlerStep`, `MainStep`, `ReaderStep`): weak fairness, it
  runs what is due. `MCTimedSource` needs that of the handler alone.
* `Ack` of the timed sources: weak fairness, which is generous: the violation of
  `Periodically` does not need a destination that withholds acknowledgements.
* Nothing is assumed of servers, peers, signals and HTTP clients, of posts, reloads and
  the request to stop. In `zmq_source_test` the pusher does push, as in the test.

## Proofs

The eight `_proofs` modules are checked by TLAPS for every set of sources, threads,
objects and names, every number of messages and lives, every window. Every safety property
and every refinement that a run checks is also the statement of a theorem; TLC checked the
inductive invariants below on the instances of the runs before they were proved.

**Frame** (`LogThrDest_proofs`).

* `ThrTypeCorrect`: type correctness with the bounds on credits. The inductive part
  (`WeakTypeOK`) only says natural numbers; that `credit` stays within `0..Window`
  follows from conservation: the verdicts on the messages of a source are at most as many as
  its posts (`SettledNumbers`, `SettledAtMostPosted`), and a post needs credit.
* `NothingIsLost`, `SettledOnceAndInOrder`: over the ledger
  `settled ∘ held ∘ queue`. `LedgerStep` shows that a step either appends the
  posted message to the ledger or leaves it as it is: a pop moves the border between
  queue and held, a verdict the one between held and settled. Order and uniqueness of
  the ledger are then inductive together.
* `WindowIsConserved`: `credit + posted = Window + |verdicts|` for each source. It
  needs `HeldInInsert` and `CountersAddUp` in the invariant (`Accounts`), and the
  cardinality of the set of verdicts of a source to grow by one with each
  (`SettledGrows`).
* `ThrImplementsPromise`: every step of the frame accepts, settles the oldest
  pending message, or stutters in `Delivery`.

**Riemann, Perl, Lua** keep the contract of the frame (`RiemannKeepsContract`,
`PerlKeepsContract`, `LuaKeepsContract`): every step is a step of the frame or leaves its
variables alone, so all of the above holds of them, the promise included.

* `RiemannTypeCorrect`, `EveryVerdictStored`: with `VerdictInv` (a message is held between
  `Pop` and `FinishInsert`, so `Success` is true there), no message is ever counted as dropped.
* `ConnectionBrokenForGood`: no action but the end of the worker changes a stale
  client, and no send over it reaches the server. It needs that only TCP makes a client stale and
  leaves nothing in flight that could arrive later (`TransportInv`).
* `ReachedOnlyOnceInOrder`: the `Frontier` of the ledger is the last place whose message
  may have been sent: the settled messages, and the held one once `SendOneshot` is over.
  Everything that reached the server or is on its way is behind it, a step never moves it back,
  and a send takes the place right at it. A datagram is on its way or has arrived, never both.
* `PerlTypeCorrect`, `StackPointerTellsDeaths`, `InterpretersAreLeft`: `CountAppend` says by
  how much a count over a history grows, and the pointer is minus the deaths in the
  history of this life, but for the one between a death and its verdict.
  `OnlyLaterDeathsAreStored` follows, since the first death finds the pointer at 0.
* `ContextDangles`: the context is only ever the held message or the last settled one.
* `DropsPileUpHolds`: while the state is sound, the stack is what initialisation left, one error
  for each drop of this life (`Piled`), and what the step of the insert the worker is in
  put above. `CrashesAreExplained` goes through the uses of the state (`DeathFacts`): one that is
  undefined is of a closed or underrun state, or goes beyond the slots, and then base, drops and
  the call together do.
* `ClosedStateHolds`: a deinit leaves the state closed and a driver that is down, so that only a
  new driver or a revert makes the worker run again, and the two differ in the state they get.
* `EsConservesWindows`: `elasticsearch.lua` is one of the things a script may do (`EsBatch`
  implements `LuaDest`).
* `BatchesHold`: what that script posts, for every batch size, as long as the script runs on states that
  are `sound`. The invariant (`EsInv`) says how
  long the request is: the remainder of the count once this life has posted, before that one
  less than the count, which starts at one. `NextRemainder` says how a remainder goes on, and
  `ParcelsGrow` that a post adds its size to what was posted in all.

**Python** (`PythonDest_proofs`) is not an implementation of the promise: a deinit that
refuses empties the queue without a verdict. Its invariant is proved from its own steps.

* `GilIsPaired`, `StoredIfAndOnlyIfTaken`, `TrueAnswersWearOut`.
* `LivesPin`: the invariant (`PinsInv`) says for each object how many references the lives and
  failures before left, and that an init under way holds one more of what it has looked up so far;
  each return from the init gives that back, but for the object that cannot be called.
* `OnlyRefusalsStrand`: the invariant (`StrandedInv`) says that stranded messages and the
  ledger divide what was posted. `LedgerLosesQueue` shows that a refusal cuts the ledger
  behind the settled messages. The settled and the stranded messages of a source have
  numbers of their own (`SettledAndStranded`), which is why its window is smaller by as many
  as are stranded.

**ZeroMQ destination** (`Zmq_proofs`), which does not keep the contract of the frame
either: `SourcesAreStalled`, `MessagesAreTakenOnce` (over the ledger
`taken ∘ held ∘ queue`), `SocketIsClosedForGood`, `RequestsAreSingle`. The last needs that after
the first send of a life the socket owes a reply or is closed, and that a socket that was closed
is not made again before the next init (`RequestInv`).

**ZeroMQ source** (`Zmq_proofs`).

* `SourceGoesDeaf`: sockets are numbered in the order they were made and none goes away, so
  the first of a port has it for good (`FirstIsBound`). With the reader being one of the
  sockets of the current port (`SocketsInv`), it hears that port only when it is the first.
* `ReloadsEndSeldom`: between deinit and init the old context waits under the name of the
  old port, with a socket still open (`StillOpen`), and only an init for the same port takes
  it away. So whoever gets past the destruction of what is kept has one port
  (`ReloadInv`).

**Timed sources** (`MainLoop_proofs`): `TriggerFollowsWindow`, `TriggerIsCorrupt`,
`MonitorFollowsWindow`, `MonitorIsCorrupt`. The property is not inductive: the handler
is beyond the check of its window while others acknowledge. `TimerInv` adds that the handler
runs only in a source that is up, with its timer off the list of the main loop, and that
beyond the check there is room; acknowledgements can only make more. `LifeInv` ties the option
string to the number of lives. Both are shown once for the steps the two sources share.

* `TablesBecomeMessages`: `WalkInv` says what the walk has set when it is at a place: the strings
  before it (`StringsSoFar`), if no key is a number or without a string; and that a number lies
  behind it only if it jumped forward from there (`NumberPassed`).
* `CrashesHaveACause`: an error on the stack is of a call that failed since the last init
  (`CallsInv`), a crash leaves the table it died of, and an option that is freed has been used by
  the time it ends the process.

**RSS** (`MainLoop_proofs`).

* `BacklogStaysBounded`: `WritersInv` says how far `appended`, `freed`, `head` and `id` are apart
  at each step of the one writer that has the lock.
* `FeedsAreRight`: a walk nobody interfered with has seen the oldest messages in their order
  (`QuietWalk`). One that was interfered with knows only what it saw: its entries are
  consecutive, and its number is right or one too low (`BusyWalk`), which is how far `id` and
  `head` can be apart when it starts.
* `ReloadsUseUpPorts`: `PortsInv` counts the ports by the lives.

**Lua objects** (`Lua_proofs`): `ObjTypeOK` is inductive alone, `RefsAreOwners`
relative to it. `CreateKeepsCount` and `UnrefKeepsCount` are the two ways a count changes: an
object comes with as many references as owners, and a release takes one reference from
objects that lose one owner. `FreedIsNotUsed` follows: whoever touches an
object owns it (`TouchIsSafe`), so its count is not 0.

**`$(state)`** (`TemplateFuncs_proofs`): `StateImplementsStore`, where the end of an insertion is
the set of the store and every other step stutters, and `ReadsAreOfTheCall`. The latter needs
the exclusion of the lock, derived from where the threads are, and that the table holds the
last place of each name in the history of sets (`TableIsLast`). `TemplatesKeepState` carries
both over to a process that calls the other functions in between.

**The functions that compute** (`TemplateFuncs_proofs`). Each call makes its property true by
itself (`PaddingStep`, `GetentStep`, `GraphiteStep`), so that the work is in the operators.

* `PaddingsAreRight`: `OneRemainder` (a quotient and a remainder are the only ones) gives what
  a signed width becomes as an unsigned one (`UnsignedIs`, `WidthIs`) and that the padding
  starts over at its end (`PadCharIs`); `SuffixOfConcat` that the text ends what comes of it.
* `AnswersReadBack`: `SwappedTwice` says that two conversions of byte order leave the two lowest
  bytes, `CastsKeep` that a number which fits its type survives the cast, on which `ServicesReadBack` rests, and one of them is what `ProtocolsReadBack` finds
  missing. `ListIs` says that only the members of a group are a list. For the lines of
  `$(graphite-output)`, `WholeConcat` says that whole lines one after the other are readable when each
  is, and `LineIs` which lines are.

Assumptions: the named ASSUMEs on the constants, which every run evaluates: a finite set of
sources, natural bounds, a window of at least one, Boolean options. `TemplateFuncs` also says what
the types of the code say: a number is a signed machine word, a port fits two bytes, the numbers of users, groups and protocols
fit theirs, each type counts at least twice what the smaller one does, a text fits the memory, and the memory is less than a quarter of what a word counts. The last is what
makes a width below zero always too much; with a memory of half the address space it would not
be. Nothing else is assumed.

Only model-checked:

* the liveness properties (`EveryPostIsSettled`, `StopsUnlessBlocked`, `WalkComesToAnEnd`,
  `MainThreadReturns`): fairness is out of the reach of the prover;
* the two runs that expect a violation, which are about one behaviour each;
* the type invariants of `PythonDest`, `LuaDest`, `EsBatch`, `ZmqDest`, `RssFeed` and `ZmqSource` beyond the
  parts the proofs use;
* `$(graphite-output)` is proved for up to two messages of two pairs: for longer lists it
  would take an induction over the list.

## Findings

* `trigger_period`: the README describes the trigger source as one that
  "periodically generates a message". After its window has filled once it stops its
  timer and stays silent, although everything is acknowledged
  (`trigger-source.c:119`). The same code is in the monitor source.
* `zmq_source_test`: the scenario of the module's own test, a reload that changes
  the port, hangs the main thread in `zmq_ctx_destroy()` (`zmq-source.c:133`).

## What is not modelled

* Formatting of events, feeds and messages; escaping; wording of errors; the digits of a
  quotient.
* Memory that leaks without being reached again (buffers of an insert that found
  nothing, the tuple of arguments in the Python error path, the mark Perl keeps
  of a call that was not made, the Riemann client that is disconnected and not freed, the
  time-stamps of `$(graphite-output)`).
* The internals of syslog-ng, libzmq, the Riemann client and the interpreters: they
  appear as the environment, in the way the code here uses them. A queue that overflows, a
  disk queue and a backlog are among them: no driver here uses one.
* Two ZeroMQ destinations in one configuration, which share the persistent name `zmq()`:
  the model has one.
* In `LuaObjects`: formatted mode, where a script has no message of the queue, and the use of a
  state that is closed, which is part of `LuaDest` (`Revert`).
* What becomes of a queue that a refused Python deinit strands. syslog-ng frees it some time
  later with the driver, and what that does to the messages and to the windows of their sources is
  its own matter; `ReloadKeepsMessages` speaks of what the driver has done until then.
* Network copies of a datagram, and a new type or address of a server in a reload.
* `es-bridge`: a loop of two calls without state that reads lines and posts each.
* Grammars and plugin tables: an option is a constant of the model.
* `logmongource`: a stand-alone, sequential tool that counts the documents of a collection
  once, prints them and exits; what could be said of it is about its layout.

## Plan

What is left, in the order of what it would add:

1. The type invariants that are only model-checked, as theorems.
2. Two destinations of a kind in one process: the shared persistent name of ZeroMQ, and two
   Python drivers over one interpreter lock, as a composition of two instances.
3. The monitor and the trigger source as refinements of one abstract timed source that posts while
   it has room.
