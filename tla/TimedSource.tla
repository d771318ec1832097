---------------------------- MODULE TimedSource ----------------------------
(***************************************************************************)
(* The timer-driven source that src/modules/trigger-source/                *)
(* trigger-source.c implements and monitor-source.c repeats: a timer of    *)
(* the main loop, the flag watches_running that doubles what the timer     *)
(* knows, the flow-control window of the source (external, LogSource), and *)
(* the option string of the driver, which sd_deinit frees and leaves.      *)
(*                                                                         *)
(* Everything here runs in the main thread but one thing: the destinations *)
(* acknowledge messages from threads of their own, at any moment, and      *)
(* nothing tells the source about it.                                      *)
(*                                                                         *)
(* Reading the freed option, or freeing it again, is undefined: the        *)
(* process may end there, or go on with what it finds.                     *)
(***************************************************************************)
EXTENDS Integers

CONSTANTS
    Freq,       \* seconds between two messages (trigger-freq(), default 10)
    Window,     \* the flow-control window of the source (log_iw_size)
    MaxInits    \* bound: how often the driver is initialised

ASSUME FreqAssumption == Freq \in Nat \ {0}
ASSUME WindowAssumption == Window \in Nat \ {0}
ASSUME MaxInitsAssumption == MaxInits \in Nat \ {0}

VARIABLES
    phase,      \* the driver is "down" (no source) or "up"
    inits,      \* how often the driver has been initialised
    option,     \* the option string: "unset", "set", or "freed"
    corrupt,    \* the freed option was read, or freed once more
    death,      \* what ended the process: "no", "script" or "driver"
    registered, \* iv_timer_registered()
    running,    \* self->watches_running
    left,       \* seconds until the timer expires
    window,     \* what is left of the flow-control window
    pc          \* where the main thread is inside the timer handler

timedVars == <<phase, inits, option, corrupt, death, registered, running, left,
               window, pc>>

alive == death = "no"

TimedInit ==
    /\ phase = "down" /\ inits = 0
    /\ option \in {"unset", "set"}
    /\ corrupt = FALSE /\ death = "no"
    /\ registered = FALSE /\ running = FALSE
    /\ left = 0
    /\ window = Window
    /\ pc = "idle"

-----------------------------------------------------------------------------
\* Around the source.

\* A second passes while the timer waits for it.
Tick ==
    /\ registered /\ left > 0
    /\ left' = left - 1
    /\ UNCHANGED <<phase, inits, option, corrupt, death, registered, running, window, pc>>

\* A destination acknowledges a message; the place in the window is back, and
\* the source, which has no wakeup method, is not told.
Ack ==
    /\ phase = "up" /\ window < Window
    /\ window' = window + 1
    /\ UNCHANGED <<phase, inits, option, corrupt, death, registered, running, left, pc>>

-----------------------------------------------------------------------------
\* The life of the driver.

\* start_watches() on a fresh source, with the first expiry Freq from now.
StartWatches ==
    registered' = TRUE /\ running' = TRUE /\ left' = Freq

\* stop_watches(): what the flag calls stopped is left alone.
StopWatches ==
    /\ running' = FALSE
    /\ registered' = (registered /\ ~running)

\* The option is used, or freed, whatever it points to.
UseOption ==
    /\ corrupt' = (corrupt \/ option = "freed")
    /\ death' \in (IF option = "freed" THEN {"no", "driver"} ELSE {"no"})

\* sd_init(): the option gets its default only when the pointer is NULL, and a
\* new source with a full window is made.  started: its init() succeeded; the
\* driver does not look.  reads: that init() uses the option already.
SdInit(started, reads) ==
    /\ phase = "down" /\ inits < MaxInits
    /\ phase' = "up"
    /\ inits' = inits + 1
    /\ option' = IF option = "unset" THEN "set" ELSE option
    /\ IF reads THEN UseOption ELSE UNCHANGED <<corrupt, death>>
    /\ window' = Window
    /\ pc' = "idle"
    /\ IF started THEN StartWatches ELSE UNCHANGED <<registered, running, left>>

\* Mutation of SdDeinit: the pointer is reset when the option is freed.
SdDeinit_Reset ==
    /\ phase = "up" /\ pc = "idle"
    /\ phase' = "down"
    /\ StopWatches
    /\ option' = "unset"
    /\ UNCHANGED <<inits, left, window, pc, corrupt, death>>

\* sd_deinit(): the source is stopped and released, and the option freed; the
\* pointer to it keeps its value.
SdDeinit ==
    /\ phase = "up" /\ pc = "idle"
    /\ phase' = "down"
    /\ StopWatches
    /\ UseOption
    /\ option' = "freed"
    /\ UNCHANGED <<inits, left, window, pc>>

-----------------------------------------------------------------------------
\* The timer handler.

\* The timer expires: the main loop takes it off its list and calls the
\* handler, which has nothing to do without room in the window.
Expire(next) ==
    /\ pc = "idle" /\ registered /\ left = 0
    /\ registered' = FALSE
    /\ pc' = IF window > 0 THEN next ELSE "update"
    /\ UNCHANGED <<phase, inits, option, corrupt, death, running, left, window>>

\* log_pipe_queue(): the message takes a place in the window.
Queue ==
    /\ window' = window - 1
    /\ pc' = "update"
    /\ UNCHANGED <<phase, inits, option, registered, running, left>>

\* Mutation of UpdateWatches: the timer is restarted whatever the window.
UpdateWatches_Always ==
    /\ pc = "update"
    /\ StartWatches
    /\ pc' = "idle"
    /\ UNCHANGED <<phase, inits, option, corrupt, death, window>>

\* update_watches(): the window is looked at once more.  Without room the timer
\* is stopped; else it is stopped, set to Freq from now, and started again.
UpdateWatches ==
    /\ pc = "update"
    /\ IF window = 0 THEN StopWatches /\ UNCHANGED left ELSE StartWatches
    /\ pc' = "idle"
    /\ UNCHANGED <<phase, inits, option, corrupt, death, window>>

-----------------------------------------------------------------------------
\* Properties of the timer, for any source built on it.

TimedTypeOK ==
    /\ phase \in {"down", "up"}
    /\ inits \in 0..MaxInits
    /\ option \in {"unset", "set", "freed"}
    /\ death \in {"no", "script", "driver"}
    /\ corrupt \in BOOLEAN /\ registered \in BOOLEAN /\ running \in BOOLEAN
    /\ left \in 0..Freq
    /\ window \in 0..Window

\* The flag, the main loop and the window agree, whatever the acknowledging
\* threads do.  Between two runs of the handler the flag is right, so that a
\* deinit never leaves a timer behind that would fire into a freed source; and a
\* timer is pending only while the window has room, so that the check at the
\* start of the handler cannot fail.
TimerFollowsWindow ==
    /\ pc = "idle" => (running <=> registered)
    /\ phase = "down" => ~registered /\ ~running
    /\ registered => window > 0

\* The option string outlives the first deinit as a dangling pointer: a driver
\* that is initialised once is clean, and from the second life on what the source
\* does is made from freed memory.
CorruptFromSecondLifeOn ==
    /\ corrupt => inits > 1
    /\ inits > 1 /\ (pc = "update" \/ phase = "down") => corrupt

\* The documented behaviour: a source that is up keeps generating messages.
Periodically == phase = "up" ~> (pc # "idle" \/ phase = "down")
=============================================================================
