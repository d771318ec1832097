-------------------------- MODULE MainLoop_proofs --------------------------
(***************************************************************************)
(* Proofs about the components that live in the main loop: the two timed   *)
(* sources (TriggerSource and MonitorSource, over TimedSource) and the RSS *)
(* destination (RssFeed).                                                  *)
(*                                                                         *)
(* Timed sources.  TimedInv ties the timer, the flag and the window to the *)
(* place in the handler, and the option to the number of lives; it is      *)
(* shown once for the steps both sources share, and then for each source.  *)
(* MonitorInv adds what the walk over a table has done so far.             *)
(*                                                                         *)
(* RSS.  WritersInv says how far the three numbers of the backlog are      *)
(* apart at each step of the one writer that has the lock; FeedInv what    *)
(* the walk of the main thread knows of them, without the lock; PortsInv   *)
(* counts the ports a process has used up.                                 *)
(***************************************************************************)
EXTENDS MonitorSource, RssFeed, SequenceTheorems, FiniteSetTheorems, TLAPS

-----------------------------------------------------------------------------
\* The timer and the life of the driver, as both timed sources have them.

\* The handler runs only in a source that is up, with the timer off the list of
\* the main loop, and beyond the check of the window only with room in it: what
\* the acknowledging threads do meanwhile can only make more.
TimerInv ==
    /\ TimedTypeOK /\ TimerFollowsWindow
    /\ pc # "idle" => phase = "up" /\ ~registered
    /\ pc \notin {"idle", "update"} => window > 0

\* The option string is freed by the first deinit, and what is freed stays so.
LifeInv ==
    /\ CorruptFromSecondLifeOn
    /\ inits = 0 => phase = "down" /\ option # "freed"
    /\ inits = 1 => option = (IF phase = "up" THEN "set" ELSE "freed")
    /\ inits > 1 => option = "freed"

TimedInv == TimerInv /\ LifeInv

LEMMA TimedInvInit == TimedInit => TimedInv
<1> SUFFICES ASSUME TimedInit PROVE TimedInv
  OBVIOUS
<1>1. inits \in 0..MaxInits /\ left \in 0..Freq /\ window \in 0..Window
  BY FreqAssumption, WindowAssumption, MaxInitsAssumption DEF TimedInit
<1>2. TimedTypeOK
  BY <1>1 DEF TimedInit, TimedTypeOK
<1>3. LifeInv
  BY DEF TimedInit, LifeInv, CorruptFromSecondLifeOn
<1>4. QED
  BY <1>2, <1>3 DEF TimedInit, TimedInv, TimerInv, TimerFollowsWindow

\* What the two sources have in common keeps the invariant.
LEMMA TimedStep ==
    ASSUME TimedInv, Tick \/ Ack \/ SdDeinit \/ UpdateWatches \/ UNCHANGED timedVars
    PROVE  TimedInv'
<1> USE FreqAssumption, WindowAssumption, MaxInitsAssumption
    DEF TimedInv, TimerInv, LifeInv, TimedTypeOK, TimerFollowsWindow, CorruptFromSecondLifeOn
<1>1. CASE Tick
  BY <1>1 DEF Tick
<1>2. CASE Ack
  BY <1>2 DEF Ack
<1>3. CASE SdDeinit
  <2>1. /\ phase = "up" /\ pc = "idle" /\ phase' = "down" /\ option' = "freed"
        /\ ~running' /\ running' \in BOOLEAN /\ registered' = (registered /\ ~running)
        /\ corrupt' = (corrupt \/ option = "freed") /\ death' \in {"no", "driver"}
        /\ UNCHANGED <<inits, left, window, pc>>
    BY <1>3 DEF SdDeinit, StopWatches, UseOption
  <2>2. ~registered' /\ registered' \in BOOLEAN /\ corrupt' \in BOOLEAN
    BY <2>1
  <2>3. TimedTypeOK'
    BY <2>1, <2>2
  <2>4. LifeInv'
    <3>1. inits = 1 => ~corrupt'
      BY <2>1
    <3>2. inits > 1 => corrupt'
      BY <2>1
    <3>3. QED
      BY <2>1, <2>2, <3>1, <3>2
  <2>5. QED
    BY <2>1, <2>2, <2>3, <2>4
<1>4. CASE UpdateWatches
  <2>1. /\ pc = "update" /\ pc' = "idle"
        /\ UNCHANGED <<phase, inits, option, corrupt, death, window>>
        /\ \/ window = 0 /\ ~registered' /\ ~running' /\ left' = left
           \/ window # 0 /\ registered' /\ running' /\ left' = Freq
        /\ registered' \in BOOLEAN /\ running' \in BOOLEAN
    BY <1>4 DEF UpdateWatches, StartWatches, StopWatches
  <2>2. TimedTypeOK'
    BY <2>1
  <2>3. QED
    BY <2>1, <2>2
<1>5. CASE UNCHANGED timedVars
  BY <1>5 DEF timedVars
<1>6. QED
  BY <1>1, <1>2, <1>3, <1>4, <1>5

LEMMA SdInitStep ==
    ASSUME TimedInv, NEW started \in BOOLEAN, NEW reads \in BOOLEAN, SdInit(started, reads)
    PROVE  TimedInv'
<1> USE FreqAssumption, WindowAssumption, MaxInitsAssumption
    DEF TimedInv, TimerInv, LifeInv, TimedTypeOK, TimerFollowsWindow, CorruptFromSecondLifeOn
<1>1. /\ phase = "down" /\ inits < MaxInits /\ phase' = "up" /\ inits' = inits + 1
      /\ option' = (IF option = "unset" THEN "set" ELSE option)
      /\ corrupt' = (corrupt \/ (reads /\ option = "freed"))
      /\ death' \in {death, "no", "driver"}
      /\ window' = Window /\ pc' = "idle"
      /\ \/ registered' /\ running' /\ left' = Freq
         \/ ~registered' /\ ~running' /\ left' = left
      /\ registered' \in BOOLEAN /\ running' \in BOOLEAN
  BY DEF SdInit, StartWatches, UseOption
<1>2. corrupt' \in BOOLEAN /\ (corrupt' => corrupt \/ option = "freed")
  BY <1>1
<1>3. inits' \in 0..MaxInits /\ left' \in 0..Freq /\ window' \in 0..Window /\ window' > 0
  BY <1>1
<1>4. TimedTypeOK'
  BY <1>1, <1>2, <1>3
<1>5. LifeInv'
  BY <1>1, <1>2
<1>6. QED
  BY <1>1, <1>3, <1>4, <1>5

\* The handler begins.  As the timer is pending only with room in the window, it
\* gets beyond the check.
LEMMA ExpireStep ==
    ASSUME TimedInv, NEW step \in {"post", "call"}, Expire(step)
    PROVE  TimedInv' /\ pc' = step
BY DEF TimedInv, TimerInv, LifeInv, TimedTypeOK, TimerFollowsWindow, CorruptFromSecondLifeOn,
       Expire

\* It goes on and leaves the timer alone.
LEMMA HandlerStepInv ==
    ASSUME TimedInv, pc \notin {"idle", "update"}, pc' # "idle",
           pc' = "update" /\ inits > 1 => corrupt',
           death' \in {"no", "script", "driver"},
           corrupt' \in BOOLEAN, corrupt' => corrupt \/ option = "freed",
           corrupt => corrupt',
           window' \in {window, window - 1} /\ (window' # window => pc' = "update"),
           UNCHANGED <<phase, inits, option, registered, running, left>>
    PROVE  TimedInv'
<1> USE DEF TimedInv, TimerInv, LifeInv, TimedTypeOK, TimerFollowsWindow, CorruptFromSecondLifeOn
<1>1. window' \in 0..Window /\ (pc' \notin {"idle", "update"} => window' > 0)
  BY WindowAssumption
<1>2. TimedTypeOK'
  BY <1>1
<1>3. LifeInv'
  OBVIOUS
<1>4. QED
  BY <1>1, <1>2, <1>3

-----------------------------------------------------------------------------
\* The trigger source.

Trigger == INSTANCE TriggerSource

LEMMA TriggerStep == TimedInv /\ Trigger!TypeOK /\ [Trigger!Next]_timedVars
                        => TimedInv' /\ Trigger!TypeOK'
<1> SUFFICES ASSUME TimedInv, Trigger!TypeOK, [Trigger!Next]_timedVars
             PROVE  TimedInv' /\ pc' \in {"idle", "post", "update"}
  BY DEF Trigger!TypeOK, Trigger!TimedTypeOK, TimedTypeOK, TimedInv, TimerInv
<1>1. pc \in {"idle", "post", "update"}
  BY DEF Trigger!TypeOK
<1>2. CASE Tick \/ Ack \/ SdDeinit \/ UpdateWatches \/ UNCHANGED timedVars
  BY <1>1, <1>2, TimedStep DEF Tick, Ack, SdDeinit, UpdateWatches, timedVars
<1>3. CASE SdInit(TRUE, FALSE)
  BY <1>3, SdInitStep DEF SdInit
<1>4. CASE Expire("post")
  BY <1>4, ExpireStep
<1>5. CASE Trigger!PostMessage
  <2>1. /\ pc = "post" /\ pc' = "update" /\ window' = window - 1
        /\ corrupt' = (corrupt \/ option = "freed") /\ death' \in {"no", "driver"}
        /\ UNCHANGED <<phase, inits, option, registered, running, left>>
    BY <1>5 DEF Trigger!PostMessage, Trigger!Queue, Trigger!UseOption
  <2>2. (inits > 1 => corrupt') /\ corrupt' \in BOOLEAN /\ (corrupt => corrupt')
    BY <2>1 DEF TimedInv, TimerInv, LifeInv, TimedTypeOK
  <2>3. QED
    BY <2>1, <2>2, HandlerStepInv
<1>6. QED
  BY <1>2, <1>3, <1>4, <1>5
     DEF Trigger!Next, Trigger!HandlerStep, Trigger!Tick, Tick, Trigger!Ack, Ack,
         Trigger!SdDeinit, SdDeinit, Trigger!StopWatches, StopWatches, Trigger!UpdateWatches,
         UpdateWatches, Trigger!StartWatches, StartWatches, Trigger!TriggerSdInit,
         Trigger!SdInit, SdInit, Trigger!UseOption, UseOption, Trigger!Triggered, Trigger!Expire, Expire

LEMMA TriggerInvariant == Trigger!Spec => []TimedInv
<1>1. Trigger!TimedInit => TimedInv /\ Trigger!TypeOK
  <2>1. Trigger!TimedInit => TimedInit
    BY DEF Trigger!TimedInit, TimedInit
  <2>2. Trigger!TimedInit => pc \in {"idle", "post", "update"}
    BY DEF Trigger!TimedInit
  <2>3. QED
    BY <2>1, <2>2, TimedInvInit
       DEF Trigger!TypeOK, Trigger!TimedTypeOK, TimedTypeOK, TimedInv, TimerInv
<1>2. QED
  BY <1>1, TriggerStep, PTL DEF Trigger!Spec, Trigger!timedVars, timedVars

\* Flag, timer and window of the trigger source agree.
THEOREM TriggerFollowsWindow == Trigger!Spec => []TimerFollowsWindow
<1>1. TimedInv => TimerFollowsWindow
  BY DEF TimedInv, TimerInv
<1>2. QED
  BY <1>1, TriggerInvariant, PTL

\* What the trigger source posts is made from freed memory from its second life on.
THEOREM TriggerIsCorrupt == Trigger!Spec => []CorruptFromSecondLifeOn
<1>1. TimedInv => CorruptFromSecondLifeOn
  BY DEF TimedInv, LifeInv
<1>2. QED
  BY <1>1, TriggerInvariant, PTL

-----------------------------------------------------------------------------
\* The tables of the monitor source.

\* A table is a sequence of entries, and has a key at one place at most.
LEMMA TablesAreSequences ==
    ASSUME NEW t \in Tables
    PROVE  /\ t \in Seq(Entries) /\ DOMAIN t = 1..Len(t) /\ Len(t) \in 0..MaxEntries
           /\ \A i \in DOMAIN t : t[i] \in Entries
           /\ \A i, j \in DOMAIN t : t[i].key = t[j].key => i = j
<1>1. PICK n \in 0..MaxEntries : t \in [1..n -> Entries]
  BY DEF Tables
<1>2. n \in Nat /\ t \in Seq(Entries)
  BY <1>1, BoundsAssumption, SeqDef
<1>3. DOMAIN t = 1..n /\ Len(t) = n
  BY <1>1, <1>2, LenProperties
<1>4. \A i, j \in DOMAIN t : t[i].key = t[j].key => i = j
  BY DEF Tables
<1>5. QED
  BY <1>1, <1>2, <1>3, <1>4

\* PlaceOf finds the key if the table has it, and 0 otherwise.
LEMMA PlaceOfIsRight ==
    ASSUME table \in Tables, NEW key
    PROVE  /\ HasKey(key) <=> \E i \in DOMAIN table : table[i].key = key
           /\ HasKey(key) => PlaceOf(key) \in DOMAIN table /\ table[PlaceOf(key)].key = key
           /\ \A i \in DOMAIN table : table[i].key = key => PlaceOf(key) = i
           /\ PlaceOf(key) \in Nat
<1>1. DOMAIN table = 1..Len(table) /\ Len(table) \in Nat
  BY TablesAreSequences
<1>2. CASE \E i \in DOMAIN table : table[i].key = key
  <2>1. PlaceOf(key) = CHOOSE i \in DOMAIN table : table[i].key = key
    BY <1>2 DEF PlaceOf
  <2>2. PlaceOf(key) \in DOMAIN table /\ table[PlaceOf(key)].key = key
    BY <1>2, <2>1
  <2>3. \A i \in DOMAIN table : table[i].key = key => PlaceOf(key) = i
    BY <2>2, TablesAreSequences
  <2>4. PlaceOf(key) \in Nat /\ PlaceOf(key) # 0
    BY <1>1, <2>2
  <2>5. QED
    BY <1>2, <2>2, <2>3, <2>4 DEF HasKey
<1>3. CASE ~\E i \in DOMAIN table : table[i].key = key
  BY <1>3 DEF PlaceOf, HasKey
<1>4. QED
  BY <1>2, <1>3

-----------------------------------------------------------------------------
\* The monitor source.

\* Its init() calls the script already, so the freed option is read at once.
ReadsAtOnce == phase = "up" /\ inits > 1 => corrupt

\* Each error on the stack is of a call that left a message behind.
CallsInv ==
    /\ errors \in Nat /\ lost \in 0..MaxErrors /\ errors <= lost

\* What the walk has set so far: the strings among the entries before its place.
StringsSoFar ==
    ~HasKey("number 1") /\ ~HasKey("boolean") =>
        pairs = {table[i].key : i \in {j \in DOMAIN table : j < at /\ table[j].isString}}

\* A number lies behind the walk only if it jumped forward from there.
NumberPassed ==
    HasKey("number 1") /\ PlaceOf("number 1") < at =>
        PlaceOf("number 1") < PlaceOf("1")

WalkInv ==
    /\ table \in Tables
    /\ pairs \subseteq StringKeys \union {"MESSAGE", ""}
    /\ pc = "walk" => at >= 1
    /\ table = <<>> => at \in 0..1
    /\ table # <<>> =>
          /\ pc \in {"walk", "post"}
          /\ at \in 1..(Len(table) + 1)
          /\ pc = "post" => at > Len(table)
          /\ StringsSoFar /\ NumberPassed

MonitorInv ==
    /\ TimedInv /\ ReadsAtOnce
    /\ pc \in {"idle", "call", "walk", "post", "update"}
    /\ CallsInv /\ WalkInv /\ CrashHasACause

LEMMA EmptyTable == <<>> \in Tables /\ Len(<<>>) = 0
<1>1. <<>> \in [1..0 -> Entries]
  OBVIOUS
<1>2. 0 \in 0..MaxEntries
  BY BoundsAssumption
<1>3. \A i, j \in DOMAIN <<>> : i # j => <<>>[i].key # <<>>[j].key
  OBVIOUS
<1>4. QED
  BY <1>1, <1>2, <1>3 DEF Tables

LEMMA MonitorInit == Init => MonitorInv
<1> SUFFICES ASSUME Init PROVE MonitorInv
  OBVIOUS
<1>1. TimedInv
  BY TimedInvInit DEF Init
<1>2. ReadsAtOnce /\ CallsInv /\ CrashHasACause /\ pc = "idle"
  BY BoundsAssumption DEF Init, TimedInit, ReadsAtOnce, CallsInv, CrashHasACause
<1>3. WalkInv
  BY EmptyTable DEF Init, TimedInit, WalkInv
<1>4. QED
  BY <1>1, <1>2, <1>3 DEF MonitorInv

\* A step that leaves the result alone, while there is none.
LEMMA NoResultStep ==
    ASSUME MonitorInv, pc \notin {"walk", "post"}, pc' \notin {"walk", "post"},
           UNCHANGED <<table, at, pairs>>
    PROVE  WalkInv'
BY EmptyTable DEF MonitorInv, WalkInv

\* What a call does to the option, and what it may die of.
LEMMA CallFacts ==
    ASSUME MonitorInv, Call, pc = "call"
    PROVE  /\ corrupt' \in BOOLEAN /\ (corrupt => corrupt')
           /\ (corrupt' => corrupt \/ option = "freed") /\ (inits > 1 => corrupt')
           /\ death' \in {"no", "driver"}
           /\ death' = "driver" => corrupt' \/ errors >= Slots - 3
<1>1. /\ corrupt \in BOOLEAN /\ phase = "up" /\ (inits > 1 => option = "freed" /\ corrupt)
      /\ errors \in Nat
  BY DEF MonitorInv, TimedInv, TimerInv, LifeInv, TimedTypeOK, ReadsAtOnce, CallsInv
<1>2. CASE UseOption
  BY <1>1, <1>2 DEF UseOption
<1>3. CASE ~StackFits /\ death' = "driver" /\ UNCHANGED corrupt
  BY <1>1, <1>3, BoundsAssumption DEF StackFits
<1>4. QED
  BY <1>2, <1>3 DEF Call

LEMMA ScriptFailsStep ==
    ASSUME MonitorInv, alive, ScriptFails
    PROVE  MonitorInv'
<1>1. /\ pc = "call" /\ pc' = "update" /\ lost < MaxErrors /\ errors' = errors + 1
      /\ lost' = lost + 1 /\ Call
      /\ UNCHANGED <<table, at, pairs, phase, inits, option, registered, running, left, window>>
  BY DEF ScriptFails
<1>2. /\ corrupt' \in BOOLEAN /\ (corrupt => corrupt')
      /\ (corrupt' => corrupt \/ option = "freed") /\ (inits > 1 => corrupt')
      /\ death' \in {"no", "driver"}
      /\ death' = "driver" => corrupt' \/ errors >= Slots - 3
  BY <1>1, CallFacts
<1>3. TimedInv'
  BY <1>1, <1>2, HandlerStepInv DEF MonitorInv
<1>4. ReadsAtOnce'
  BY <1>1, <1>2 DEF ReadsAtOnce
<1>5. CallsInv' /\ CrashHasACause'
  <2>2. errors \in Nat /\ lost \in 0..MaxErrors /\ errors <= lost
    BY DEF MonitorInv, CallsInv
  <2>3. death' = "driver" => corrupt' \/ errors' >= Slots - 3
    BY <1>1, <1>2, <2>2, BoundsAssumption
  <2>4. CallsInv'
    BY <1>1, <2>2, BoundsAssumption DEF CallsInv
  <2>5. QED
    BY <2>3, <2>4 DEF CrashHasACause
<1>6. WalkInv'
  BY <1>1, NoResultStep
<1>7. QED
  BY <1>1, <1>3, <1>4, <1>5, <1>6 DEF MonitorInv

LEMMA ScriptReturnsStep ==
    ASSUME MonitorInv, alive, ScriptReturns
    PROVE  MonitorInv'
<1>1. /\ pc = "call" /\ pc' \in {"walk", "post"} /\ Call
      /\ UNCHANGED <<errors, lost, phase, inits, option, registered, running, left, window>>
  BY DEF ScriptReturns
<1>2. /\ corrupt' \in BOOLEAN /\ (corrupt => corrupt')
      /\ (corrupt' => corrupt \/ option = "freed") /\ (inits > 1 => corrupt')
      /\ death' \in {"no", "driver"}
      /\ death' = "driver" => corrupt' \/ errors >= Slots - 3
  BY <1>1, CallFacts
<1>3. TimedInv'
  BY <1>1, <1>2, HandlerStepInv DEF MonitorInv
<1>4. ReadsAtOnce'
  BY <1>1, <1>2 DEF ReadsAtOnce
<1>5. CallsInv' /\ CrashHasACause'
  <2>2. errors \in Nat /\ lost \in 0..MaxErrors /\ errors <= lost
    BY DEF MonitorInv, CallsInv
  <2>3. death' = "driver" => corrupt' \/ errors' >= Slots - 3
    BY <1>1, <1>2, <2>2, BoundsAssumption
  <2>4. CallsInv'
    BY <1>1, <2>2 DEF CallsInv
  <2>5. QED
    BY <2>3, <2>4 DEF CrashHasACause
<1>6. WalkInv'
  <2>1. CASE \E t \in Tables : table' = t /\ at' = 1 /\ pairs' = {} /\ pc' = "walk"
    <3>1. table' \in Tables /\ at' = 1 /\ pairs' = {} /\ pc' = "walk"
      BY <2>1
    <3>2. Len(table') \in Nat /\ DOMAIN table' = 1..Len(table')
      BY <3>1, TablesAreSequences
    <3>3. StringsSoFar'
      <4>1. {j \in DOMAIN table' : j < at' /\ table'[j].isString} = {}
        BY <3>1, <3>2
      <4>2. QED
        BY <3>1, <4>1 DEF StringsSoFar
    <3>4. NumberPassed'
      <4>1. \/ PlaceOf("number 1")' = 0
            \/ PlaceOf("number 1")' \in DOMAIN table'
        BY DEF PlaceOf
      <4>2. \A i \in DOMAIN table' : ~(i < at')
        BY <3>1, <3>2
      <4>3. QED
        BY <4>1, <4>2 DEF NumberPassed, HasKey
    <3>5. at' \in 0..1 /\ at' \in 1..(Len(table') + 1) /\ at' >= 1
      BY <3>1, <3>2
    <3>6. QED
      BY <3>1, <3>3, <3>4, <3>5 DEF WalkInv
  <2>2. CASE \E result \in {{"MESSAGE"}, {}} :
                pairs' = result /\ table' = <<>> /\ at' = 0 /\ pc' = "post"
    <3>1. table' = <<>> /\ at' = 0 /\ pairs' \subseteq {"MESSAGE"} /\ pc' = "post"
      BY <2>2
    <3>2. 0 \in 0..1
      OBVIOUS
    <3>3. QED
      BY <3>1, <3>2, EmptyTable DEF WalkInv
  <2>3. QED
    BY <2>1, <2>2 DEF ScriptReturns
<1>7. QED
  BY <1>1, <1>3, <1>4, <1>5, <1>6 DEF MonitorInv

\* How the process ends is nothing the timer knows of.
LEMMA QuietDeath ==
    ASSUME TimedInv, death' \in {"no", "script", "driver"},
           UNCHANGED <<phase, inits, option, corrupt, registered, running, left, window, pc>>
    PROVE  TimedInv'
BY DEF TimedInv, TimerInv, LifeInv, TimedTypeOK, TimerFollowsWindow, CorruptFromSecondLifeOn

LEMMA WalkStep ==
    ASSUME MonitorInv, alive, Walk
    PROVE  MonitorInv'
<1> DEFINE e == table[at]
<1>1. /\ pc = "walk" /\ at <= Len(table) /\ table' = table
      /\ pairs' = (IF e.isString THEN pairs \union {ToString(e.key)} ELSE pairs)
      /\ at' = NextPlace
      /\ death' = (IF \/ e.key = "number 1" /\ PlaceOf("1") = 0
                      \/ e.key = "boolean" /\ e.isString
                   THEN "driver" ELSE "no")
      /\ UNCHANGED <<errors, lost, phase, inits, option, corrupt, registered, running, left,
                     window, pc>>
  BY DEF Walk
<1>2. table \in Tables
  BY DEF MonitorInv, WalkInv
<1>3. /\ table \in Tables /\ DOMAIN table = 1..Len(table) /\ Len(table) \in Nat
      /\ \A i \in DOMAIN table : table[i] \in Entries
  BY <1>2, TablesAreSequences
<1>4. at \in DOMAIN table /\ e \in Entries /\ table # <<>> /\ at \in Nat /\ at \in 1..Len(table)
  <2>1. at >= 1 /\ at \in Nat
    <3>1. at >= 1
      BY <1>1 DEF MonitorInv, WalkInv
    <3>2. \/ at \in 0..1
          \/ at \in 1..(Len(table) + 1)
      BY DEF MonitorInv, WalkInv
    <3>3. QED
      BY <1>3, <3>1, <3>2
  <2>2. at \in 1..Len(table)
    <3>1. at <= Len(table) /\ Len(table) \in Nat
      BY <1>1, <1>3
    <3>2. QED
      BY <2>1, <3>1
  <2>3. QED
    BY <1>3, <2>1, <2>2, EmptyTable
<1>5. TimedInv' /\ ReadsAtOnce' /\ pc' = "walk"
  BY <1>1, QuietDeath DEF MonitorInv, ReadsAtOnce
<1>6. CallsInv'
  BY <1>1 DEF MonitorInv, CallsInv
<1>7. \A key : PlaceOf(key)' = PlaceOf(key) /\ HasKey(key)' = HasKey(key)
  BY <1>1 DEF PlaceOf, HasKey
<1>8. CrashHasACause'
  <2>1. SUFFICES ASSUME death' = "driver" PROVE \/ HasKey("number 1") /\ ~HasKey("1")
                                     \/ e = [key |-> "boolean", isString |-> TRUE]
    BY <1>1, <1>4, <1>7 DEF CrashHasACause
  <2>2. CASE e.key = "number 1" /\ PlaceOf("1") = 0
    BY <1>3, <1>4, <2>2, PlaceOfIsRight DEF HasKey
  <2>3. CASE e.key = "boolean" /\ e.isString
    BY <1>4, <2>3 DEF Entries
  <2>4. QED
    BY <1>1, <2>1, <2>2, <2>3
<1>9. at' \in 1..(Len(table) + 1) /\ NumberPassed'
  <2>1. CASE e.key = "number 1"
    <3>1. PICK p \in Nat : /\ PlaceOf("1") = p
                           /\ p = 0 \/ (p \in DOMAIN table /\ table[p].key = "1")
      BY <1>3, PlaceOfIsRight DEF HasKey
    <3>2. at' = p + 1 /\ PlaceOf("number 1") = at
      BY <1>1, <1>3, <1>4, <2>1, <3>1, PlaceOfIsRight DEF NextPlace
    <3>3. p # at
      <4>1. CASE p = 0
        <5>1. 0 \notin 1..Len(table)
          BY <1>3
        <5>2. QED
          BY <1>4, <4>1, <5>1
      <4>2. CASE p \in DOMAIN table /\ table[p].key = "1"
        <5>1. table[p] # table[at]
          BY <2>1, <4>2
        <5>2. QED
          BY <5>1
      <4>3. QED
        BY <3>1, <4>1, <4>2
    <3>4. p <= Len(table) /\ Len(table) \in Nat /\ at \in Nat
      BY <1>3, <1>4, <3>1
    <3>5. at' \in 1..(Len(table) + 1) /\ (at < at' => at < p)
      <4>1. p \in Nat /\ at' = p + 1
        BY <3>1, <3>2
      <4>2. QED
        BY <3>3, <3>4, <4>1
    <3>6. QED
      BY <1>7, <3>1, <3>2, <3>5 DEF NumberPassed
  <2>2. CASE e.key # "number 1"
    <3>1. PICK p \in Nat : PlaceOf("number 1") = p /\ (HasKey("number 1") => p # at)
      BY <1>3, <1>4, <2>2, PlaceOfIsRight
    <3>2. at' = at + 1 /\ at \in 1..Len(table) /\ Len(table) \in Nat
      BY <1>1, <1>3, <1>4, <2>2 DEF NextPlace
    <3>3. NumberPassed
      BY <1>4 DEF MonitorInv, WalkInv
    <3>4. at' \in 1..(Len(table) + 1) /\ (p < at' /\ p # at => p < at)
      BY <3>2
    <3>5. QED
      BY <1>7, <3>1, <3>3, <3>4 DEF NumberPassed
  <2>3. QED
    BY <2>1, <2>2
<1>10. StringsSoFar'
  <2>1. SUFFICES ASSUME ~HasKey("number 1"), ~HasKey("boolean")
                 PROVE  pairs' = {table[i].key : i \in {j \in DOMAIN table :
                                                          j < at' /\ table[j].isString}}
    BY <1>1, <1>7 DEF StringsSoFar
  <2>2. e.key # "number 1" /\ e.key # "boolean"
    BY <1>3, <1>4, <2>1, PlaceOfIsRight
  <2>3. at' = at + 1 /\ ToString(e.key) = e.key
    BY <1>1, <1>4, <2>2 DEF NextPlace, ToString, Entries, Keys
  <2>4. pairs = {table[i].key : i \in {j \in DOMAIN table : j < at /\ table[j].isString}}
    BY <1>4, <2>1 DEF MonitorInv, WalkInv, StringsSoFar
  <2>5. \A j \in DOMAIN table : j < at' <=> j < at \/ j = at
    BY <1>3, <1>4, <2>3
  <2>6. QED
    BY <1>1, <1>4, <2>3, <2>4, <2>5
<1>11. pairs' \subseteq StringKeys \union {"MESSAGE", ""}
  BY <1>1 DEF MonitorInv, WalkInv, ToString, StringKeys
<1>12. WalkInv'
  <2>1. at' >= 1
    BY <1>3, <1>9
  <2>2. QED
    BY <1>1, <1>3, <1>4, <1>5, <1>9, <1>10, <1>11, <2>1 DEF WalkInv
<1>13. QED
  BY <1>5, <1>6, <1>8, <1>12 DEF MonitorInv

\* The steps that do not look at what the script returned, and the end of the walk.
LEMMA WalkEndsStep ==
    ASSUME MonitorInv, alive, WalkEnds
    PROVE  MonitorInv'
<1>1. /\ pc = "walk" /\ at > Len(table) /\ pc' = "post"
      /\ UNCHANGED <<luaVars, phase, inits, option, corrupt, death, registered, running, left,
                     window>>
  BY DEF WalkEnds
<1>2. TimedInv'
  BY <1>1, HandlerStepInv DEF MonitorInv, TimedInv, TimerInv, TimedTypeOK
<1>3. WalkInv'
  BY <1>1 DEF luaVars, MonitorInv, WalkInv, StringsSoFar, NumberPassed, HasKey, PlaceOf
<1>4. ReadsAtOnce' /\ CallsInv'
  BY <1>1 DEF luaVars, MonitorInv, ReadsAtOnce, CallsInv
<1>5. CrashHasACause'
  BY <1>1 DEF alive, CrashHasACause
<1>6. QED
  BY <1>1, <1>2, <1>3, <1>4, <1>5 DEF MonitorInv

LEMMA PostMessageStep ==
    ASSUME MonitorInv, alive, PostMessage
    PROVE  MonitorInv'
<1>1. /\ pc = "post" /\ pc' = "update" /\ window' = window - 1
      /\ table' = <<>> /\ at' = 0 /\ pairs' = {}
      /\ UNCHANGED <<corrupt, death, errors, lost, phase, inits, option, registered,
                      running, left>>
  BY DEF PostMessage, Queue
<1>2. /\ phase = "up" /\ corrupt \in BOOLEAN /\ (inits > 1 => corrupt)
      /\ death \in {"no", "script", "driver"}
  BY <1>1 DEF MonitorInv, TimedInv, TimerInv, TimedTypeOK, ReadsAtOnce
<1>3. TimedInv'
  BY <1>1, <1>2, HandlerStepInv DEF MonitorInv
<1>4. WalkInv'
  BY <1>1, EmptyTable DEF WalkInv
<1>5. ReadsAtOnce' /\ CallsInv'
  BY <1>1 DEF MonitorInv, ReadsAtOnce, CallsInv
<1>6. CrashHasACause'
  BY <1>1 DEF alive, CrashHasACause
<1>7. QED
  BY <1>1, <1>3, <1>4, <1>5, <1>6 DEF MonitorInv

\* A step of the main loop or of the other threads.
LEMMA MonitorOuterStep ==
    ASSUME MonitorInv, alive,
           \/ (Tick \/ Ack \/ UpdateWatches) /\ UNCHANGED luaVars
           \/ MonitorSdInit \/ MonitorSdDeinit \/ Monitored \/ ScriptEnds
    PROVE  MonitorInv'
<1>1. CASE (Tick \/ Ack) /\ UNCHANGED luaVars
  <2>1. TimedInv' /\ UNCHANGED <<pc, phase, inits, corrupt, death>>
    BY <1>1, TimedStep DEF MonitorInv, Tick, Ack
  <2>2. WalkInv'
    BY <1>1, <2>1 DEF luaVars, MonitorInv, WalkInv, StringsSoFar, NumberPassed, HasKey, PlaceOf
  <2>3. ReadsAtOnce' /\ CallsInv'
    BY <1>1, <2>1 DEF luaVars, MonitorInv, ReadsAtOnce, CallsInv
  <2>4. CrashHasACause'
    BY <2>1 DEF alive, CrashHasACause
  <2>5. QED
    BY <2>1, <2>2, <2>3, <2>4 DEF MonitorInv
<1>2. CASE (UpdateWatches \/ SdDeinit \/ Expire("call")) /\ UNCHANGED luaVars
  <2>1. TimedInv' /\ pc' \in {"idle", "call"} /\ pc \in {"idle", "update"}
    <3>1. CASE UpdateWatches \/ SdDeinit
      BY <3>1, TimedStep DEF MonitorInv, UpdateWatches, SdDeinit
    <3>2. CASE Expire("call")
      <4>1. TimedInv' /\ pc' = "call"
        BY <3>2, ExpireStep DEF MonitorInv
      <4>2. QED
        BY <3>2, <4>1 DEF Expire
    <3>3. QED
      BY <1>2, <3>1, <3>2
  <2>2. WalkInv'
    BY <1>2, <2>1, NoResultStep DEF luaVars
  <2>3. ReadsAtOnce'
    <3>1. (phase' = "up" => phase = "up") /\ inits' = inits
      BY <1>2 DEF UpdateWatches, SdDeinit, Expire
    <3>2. corrupt => corrupt'
      BY <1>2 DEF UpdateWatches, SdDeinit, UseOption, Expire
    <3>3. QED
      BY <3>1, <3>2 DEF MonitorInv, ReadsAtOnce
  <2>4. death' = "driver" => death = "driver" \/ corrupt'
    BY <1>2 DEF UpdateWatches, SdDeinit, UseOption, Expire
  <2>5. CrashHasACause'
    <3>1. corrupt => corrupt'
      BY <1>2 DEF UpdateWatches, SdDeinit, UseOption, Expire
    <3>2. UNCHANGED <<table, errors>>
      BY <1>2 DEF luaVars
    <3>3. QED
      BY <2>4, <3>1, <3>2 DEF MonitorInv, CrashHasACause, HasKey, PlaceOf
  <2>6. QED
    BY <1>2, <2>1, <2>2, <2>3, <2>5 DEF luaVars, MonitorInv, CallsInv
<1>3. CASE MonitorSdInit
  <2>1. PICK started \in BOOLEAN : SdInit(started, TRUE)
    BY <1>3 DEF MonitorSdInit
  <2>2. /\ phase = "down" /\ pc' = "idle" /\ inits' = inits + 1
        /\ corrupt' = (corrupt \/ option = "freed")
        /\ death' = "driver" => option = "freed"
        /\ errors' = 0 /\ UNCHANGED <<lost, table, at, pairs>>
    BY <1>3, <2>1 DEF SdInit, UseOption, MonitorSdInit
  <2>3. TimedInv'
    BY <2>1, SdInitStep DEF MonitorInv
  <2>4. pc = "idle"
    BY <2>2 DEF MonitorInv, TimedInv, TimerInv
  <2>5. WalkInv'
    BY <2>2, <2>4, NoResultStep
  <2>6. ReadsAtOnce'
    <3>1. inits \in 0..MaxInits
      BY DEF MonitorInv, TimedInv, TimerInv, TimedTypeOK
    <3>2. inits = 0 \/ option = "freed"
      BY <2>2, <3>1, MaxInitsAssumption DEF MonitorInv, TimedInv, LifeInv
    <3>3. inits' > 1 => option = "freed"
      BY <2>2, <3>1, <3>2, MaxInitsAssumption
    <3>4. inits' > 1 => corrupt'
      BY <2>2, <3>3
    <3>5. QED
      BY <3>4 DEF ReadsAtOnce
  <2>7. CallsInv' /\ CrashHasACause'
    <3>1. lost \in 0..MaxErrors
      BY DEF MonitorInv, CallsInv
    <3>2. 0 \in Nat /\ 0 <= lost
      BY <3>1, BoundsAssumption
    <3>3. CallsInv'
      BY <2>2, <3>1, <3>2 DEF CallsInv
    <3>4. death' = "driver" => corrupt'
      BY <2>2
    <3>5. QED
      BY <3>3, <3>4 DEF CrashHasACause
  <2>8. QED
    BY <2>2, <2>3, <2>5, <2>6, <2>7 DEF MonitorInv
<1>4. CASE ScriptEnds
  <2>1. /\ pc \in {"idle", "call"} /\ death' = "script"
        /\ UNCHANGED <<luaVars, phase, inits, option, corrupt, registered, running, left,
                       window, pc>>
    BY <1>4 DEF ScriptEnds
  <2>2. TimedInv'
    BY <2>1, QuietDeath DEF MonitorInv
  <2>3. WalkInv'
    BY <2>1, NoResultStep DEF luaVars
  <2>4. QED
    BY <2>1, <2>2, <2>3 DEF luaVars, MonitorInv, ReadsAtOnce, CallsInv, CrashHasACause
<1>5. QED
  BY <1>1, <1>2, <1>3, <1>4 DEF MonitorSdDeinit, Monitored

LEMMA MonitorStep == MonitorInv /\ [Next]_vars => MonitorInv'
<1> SUFFICES ASSUME MonitorInv, [Next]_vars PROVE MonitorInv'
  OBVIOUS
<1>1. CASE Next
  BY <1>1, ScriptFailsStep, ScriptReturnsStep, WalkStep, WalkEndsStep, PostMessageStep,
     MonitorOuterStep DEF Next, HandlerStep
<1>2. CASE UNCHANGED vars
  <2>1. TimedInv' /\ UNCHANGED <<pc, phase, inits, corrupt, death>>
    BY <1>2, TimedStep DEF vars, timedVars, MonitorInv
  <2>2. WalkInv'
    BY <1>2, <2>1 DEF vars, luaVars, MonitorInv, WalkInv, StringsSoFar, NumberPassed, HasKey,
                      PlaceOf
  <2>3. CrashHasACause'
    BY <1>2, <2>1 DEF vars, luaVars, MonitorInv, CrashHasACause, HasKey, PlaceOf
  <2>4. ReadsAtOnce' /\ CallsInv'
    BY <1>2, <2>1 DEF vars, luaVars, MonitorInv, ReadsAtOnce, CallsInv
  <2>5. QED
    BY <2>1, <2>2, <2>3, <2>4 DEF MonitorInv
<1>3. QED
  BY <1>1, <1>2

LEMMA MonitorInvariant == Spec => []MonitorInv
BY MonitorInit, MonitorStep, PTL DEF Spec

\* The monitor source's state has the types that the model gives it.
THEOREM MonitorTypes == Spec => []TypeOK
<1>1. MonitorInv => TypeOK
  <2> SUFFICES ASSUME MonitorInv PROVE TypeOK
    OBVIOUS
  <2>1. table \in Tables
    BY DEF MonitorInv, WalkInv
  <2>2. table \in Seq(Entries) /\ Len(table) \in 0..MaxEntries
    BY <2>1, TablesAreSequences
  <2>3. at \in 0..(MaxEntries + 1)
    <3>1. \/ at \in 0..1
          \/ at \in 1..(Len(table) + 1)
      BY DEF MonitorInv, WalkInv
    <3>2. QED
      BY <2>2, <3>1, BoundsAssumption
  <2>4. errors \in 0..MaxErrors
    BY BoundsAssumption DEF MonitorInv, CallsInv
  <2>5. QED
    BY <2>2, <2>3, <2>4 DEF TypeOK, MonitorInv, CallsInv, WalkInv, TimedInv, TimerInv
<1>2. QED
  BY <1>1, MonitorInvariant, PTL

\* Flag, timer and window of the monitor source agree.
THEOREM MonitorFollowsWindow == Spec => []TimerFollowsWindow
<1>1. MonitorInv => TimerFollowsWindow
  BY DEF MonitorInv, TimedInv, TimerInv
<1>2. QED
  BY <1>1, MonitorInvariant, PTL

\* What the monitor source does is made from freed memory from its second life on.
THEOREM MonitorIsCorrupt == Spec => []CorruptFromSecondLifeOn
<1>1. MonitorInv => CorruptFromSecondLifeOn
  BY DEF MonitorInv, TimedInv, LifeInv
<1>2. QED
  BY <1>1, MonitorInvariant, PTL

\* A table of strings becomes a message with exactly its strings; one with a number
\* is posted only if the string of that number comes later in it.
THEOREM TablesBecomeMessages == Spec => []TablesArePostedRight
<1>1. MonitorInv => TablesArePostedRight
  <2> SUFFICES ASSUME MonitorInv, pc = "post", table # <<>>
               PROVE  /\ ~HasKey("number 1") /\ ~HasKey("boolean") =>
                           pairs = {table[i].key : i \in {j \in DOMAIN table : table[j].isString}}
                      /\ HasKey("number 1") => PlaceOf("number 1") < PlaceOf("1")
    BY DEF TablesArePostedRight
  <2>1. table \in Tables
    BY DEF MonitorInv, WalkInv
  <2>2. DOMAIN table = 1..Len(table) /\ Len(table) \in Nat
    BY <2>1, TablesAreSequences
  <2>3. at \in 1..(Len(table) + 1) /\ at > Len(table) /\ StringsSoFar /\ NumberPassed
    BY DEF MonitorInv, WalkInv
  <2>4. DOMAIN table = 1..Len(table) /\ Len(table) \in Nat /\ at > Len(table) /\ at \in Nat
        /\ StringsSoFar /\ NumberPassed /\ table \in Tables
    BY <2>1, <2>2, <2>3
  <2>5. \A j \in DOMAIN table : j < at
    BY <2>4
  <2>6. HasKey("number 1") => PlaceOf("number 1") \in DOMAIN table
    BY <2>4, PlaceOfIsRight
  <2>7. {j \in DOMAIN table : j < at /\ table[j].isString}
           = {j \in DOMAIN table : table[j].isString}
    BY <2>5
  <2>8. QED
    BY <2>4, <2>5, <2>6, <2>7 DEF StringsSoFar, NumberPassed
<1>2. QED
  BY <1>1, MonitorInvariant, PTL

\* A process its script does not end dies of the table it walks, of the errors it
\* left on the stack, or of the option it freed.
THEOREM CrashesHaveACause == Spec => []CrashHasACause
<1>1. MonitorInv => CrashHasACause
  BY DEF MonitorInv
<1>2. QED
  BY <1>1, MonitorInvariant, PTL

-----------------------------------------------------------------------------
\* The backlog of the RSS destination.

OneWriterHolds ==
    \A v, w \in Writers : wpc[v] \in Locked /\ wpc[w] \in Locked => v = w

\* The backlog as it is between two writers: the newest messages, all three
\* numbers in step.
Settled ==
    /\ freed = IF appended > Limit THEN appended - Limit ELSE 0
    /\ id = freed /\ head = freed + 1

\* How far the three numbers are apart at each step of the writer with the lock.
WritersInv ==
    /\ wpc \in [Writers -> {"idle", "lock"} \union Locked]
    /\ OneWriterHolds
    /\ appended \in Nat /\ freed \in Nat /\ id \in Nat /\ head \in Nat
    /\ LockFree => Settled
    /\ \A w \in Writers :
          /\ wpc[w] \in {"append", "unlock"} => Settled
          /\ wpc[w] = "remove" =>
                appended = freed + Limit + 1 /\ id = freed /\ head = freed + 1
          /\ wpc[w] = "move" =>
                appended = freed + Limit /\ id = freed - 1 /\ head = freed
          /\ wpc[w] = "count" =>
                appended = freed + Limit /\ id = freed - 1 /\ head = freed + 1

-----------------------------------------------------------------------------
\* The feed.

\* The entries of the k oldest messages, each with its own number.
Numbered(k) == [i \in 1..k |-> <<freed + i, freed + i - 1>>]

\* A walk that no writer interferes with has seen the Len(feed) oldest messages.
QuietWalk ==
    ~overlap =>
        /\ rpc # "idle" => LockFree
        /\ rpc = "offset" => item = IF freed < appended THEN freed + 1 ELSE 0
        /\ rpc = "format" =>
              /\ feed = Numbered(Len(feed)) /\ Len(feed) <= appended - freed
              /\ offset = freed + Len(feed)
              /\ item = IF freed + Len(feed) < appended THEN freed + Len(feed) + 1 ELSE 0
        /\ rpc = "next" =>
              /\ feed = Numbered(Len(feed)) /\ Len(feed) \in 1..(appended - freed)
              /\ offset = freed + Len(feed) - 1
              /\ item = freed + Len(feed)
        /\ rpc = "respond" => feed = Numbered(appended - freed)

\* The number of an entry, next to the node it is about.
Near(node, number) == number - node \in {-2, -1}

\* A walk among writers: the node it starts from is the oldest one or released by
\* the time the number is read, and the two go on together.
BusyWalk ==
    /\ rpc = "offset" => feed = <<>> /\ ~touched /\ item <= freed + 1
    /\ ~touched =>
          /\ \A i \in DOMAIN feed : Near(feed[i][1], feed[i][2])
          /\ \A i \in DOMAIN feed : feed[i][1] = feed[1][1] + i - 1
          /\ rpc = "format" /\ item > freed =>
                /\ Near(item, offset)
                /\ feed # <<>> => item = feed[1][1] + Len(feed)
          /\ rpc = "next" =>
                /\ feed # <<>> /\ item = feed[1][1] + Len(feed) - 1
                /\ Near(item, offset)

WalkTypes ==
    /\ rpc \in {"idle", "offset", "format", "next", "respond", "write"}
    /\ item \in Nat /\ offset \in Nat /\ feed \in Seq(Nat \X Nat)
    /\ overlap \in BOOLEAN /\ touched \in BOOLEAN

-----------------------------------------------------------------------------
\* The ports.

PortsInv ==
    /\ port \in Ports /\ serves \in [Ports -> {"nobody", "current", "freed"}]
    /\ lives \in Nat \ {0}
    /\ PortsAreUsedUp
    /\ (\E p \in Ports : serves[p] = "freed") => lives > 1

LEMMA WritersInit == RssInit => WritersInv
<1> SUFFICES ASSUME RssInit PROVE WritersInv
  OBVIOUS
<1>1. /\ wpc \in [Writers -> {"idle", "lock"} \union Locked]
      /\ \A w \in Writers : wpc[w] = "idle"
  BY DEF RssInit
<1>2. Settled
  BY LimitAssumption DEF RssInit, Settled
<1>3. OneWriterHolds
  BY <1>1 DEF OneWriterHolds, Locked
<1>4. QED
  BY <1>1, <1>2, <1>3 DEF WritersInv, RssInit

\* A writer that gets the lock, or has it and keeps it, has it alone.
LEMMA HolderGoes ==
    ASSUME WritersInv, NEW w \in Writers, NEW from, NEW to \in Locked,
           WriterGoes(w, from, to), from \in Locked \/ LockFree
    PROVE  /\ wpc[w] = from /\ wpc'[w] = to
           /\ wpc' \in [Writers -> {"idle", "lock"} \union Locked]
           /\ OneWriterHolds' /\ ~LockFree'
           /\ \A v \in Writers : v # w => wpc'[v] \notin Locked
<1>1. /\ wpc[w] = from /\ wpc' = [wpc EXCEPT ![w] = to]
      /\ wpc \in [Writers -> {"idle", "lock"} \union Locked]
  BY DEF WriterGoes, WritersInv
<1>2. wpc'[w] = to /\ wpc' \in [Writers -> {"idle", "lock"} \union Locked]
  BY <1>1
<1>3. \A v \in Writers : v # w => wpc'[v] = wpc[v] /\ wpc[v] \notin Locked
  BY <1>1 DEF WritersInv, OneWriterHolds, LockFree
<1>4. QED
  BY <1>1, <1>2, <1>3 DEF OneWriterHolds, LockFree

\* What a step of the writer with the lock has to show.
LEMMA HolderKeeps ==
    ASSUME WritersInv, NEW w \in Writers, NEW from, NEW to \in Locked,
           WriterGoes(w, from, to), from \in Locked \/ LockFree,
           appended' \in Nat, freed' \in Nat, id' \in Nat, head' \in Nat,
           to \in {"append", "unlock"} => Settled',
           to = "remove" =>
              appended' = freed' + Limit + 1 /\ id' = freed' /\ head' = freed' + 1,
           to = "move" =>
              appended' = freed' + Limit /\ id' = freed' - 1 /\ head' = freed',
           to = "count" =>
              appended' = freed' + Limit /\ id' = freed' - 1 /\ head' = freed' + 1
    PROVE  WritersInv'
<1>1. /\ wpc'[w] = to /\ wpc' \in [Writers -> {"idle", "lock"} \union Locked]
      /\ OneWriterHolds' /\ ~LockFree'
      /\ \A v \in Writers : v # w => wpc'[v] \notin Locked
  BY HolderGoes
<1>2. \A v \in Writers : wpc'[v] \in Locked => v = w
  BY <1>1
<1>3. \A v \in Writers :
          /\ wpc'[v] \in {"append", "unlock"} => Settled'
          /\ wpc'[v] = "remove" =>
                appended' = freed' + Limit + 1 /\ id' = freed' /\ head' = freed' + 1
          /\ wpc'[v] = "move" =>
                appended' = freed' + Limit /\ id' = freed' - 1 /\ head' = freed'
          /\ wpc'[v] = "count" =>
                appended' = freed' + Limit /\ id' = freed' - 1 /\ head' = freed' + 1
  <2> SUFFICES ASSUME NEW v \in Writers
               PROVE  /\ wpc'[v] \in {"append", "unlock"} => Settled'
                      /\ wpc'[v] = "remove" =>
                            appended' = freed' + Limit + 1 /\ id' = freed' /\ head' = freed' + 1
                      /\ wpc'[v] = "move" =>
                            appended' = freed' + Limit /\ id' = freed' - 1 /\ head' = freed'
                      /\ wpc'[v] = "count" =>
                            appended' = freed' + Limit /\ id' = freed' - 1 /\ head' = freed' + 1
    OBVIOUS
  <2>1. CASE v = w
    BY <1>1, <2>1
  <2>2. CASE v # w
    BY <1>1, <2>2 DEF Locked
  <2>3. QED
    BY <2>1, <2>2
<1>4. QED
  BY <1>1, <1>3 DEF WritersInv

\* A step without the lock, or the one that gives it back.
LEMMA OutsiderKeeps ==
    ASSUME WritersInv, NEW w \in Writers, NEW from, NEW to \in {"idle", "lock"},
           WriterGoes(w, from, to), from \in {"idle", "lock", "unlock"}, UNCHANGED listVars
    PROVE  WritersInv'
<1>1. /\ wpc[w] = from /\ wpc' = [wpc EXCEPT ![w] = to]
      /\ wpc \in [Writers -> {"idle", "lock"} \union Locked]
  BY DEF WriterGoes, WritersInv
<1>2. wpc'[w] = to /\ wpc' \in [Writers -> {"idle", "lock"} \union Locked]
  BY <1>1
<1>3. \A v \in Writers : v # w => wpc'[v] = wpc[v]
  BY <1>1
<1>4. OneWriterHolds'
  BY <1>2, <1>3 DEF WritersInv, OneWriterHolds, Locked
<1>5. Settled' <=> Settled
  BY DEF listVars, Settled
<1>6. LockFree' => Settled'
  <2>1. CASE from = "unlock"
    BY <1>1, <1>5, <2>1 DEF WritersInv
  <2>2. CASE from # "unlock"
    <3>1. wpc[w] \notin Locked
      BY <1>1, <2>2 DEF Locked
    <3>2. LockFree' => LockFree
      BY <1>3, <3>1 DEF LockFree
    <3>3. QED
      BY <1>5, <3>2 DEF WritersInv
  <2>3. QED
    BY <2>1, <2>2
<1>7. \A v \in Writers : wpc'[v] \in Locked => wpc'[v] = wpc[v]
  BY <1>2, <1>3 DEF Locked
<1>8. QED
  BY <1>2, <1>4, <1>5, <1>6, <1>7 DEF WritersInv, Locked, listVars

LEMMA WritersStep ==
    ASSUME WritersInv, NEW w \in Writers, QueueMsg(w) \/ Lock(w) \/ WriterStep(w)
    PROVE  WritersInv' /\ freed' >= freed
<1> USE LimitAssumption
<1>1. /\ appended \in Nat /\ freed \in Nat /\ id \in Nat /\ head \in Nat
      /\ \A s : wpc[w] = s =>
          /\ s \in {"append", "unlock"} => Settled
          /\ s = "remove" =>
                appended = freed + Limit + 1 /\ id = freed /\ head = freed + 1
          /\ s = "move" =>
                appended = freed + Limit /\ id = freed - 1 /\ head = freed
          /\ s = "count" =>
                appended = freed + Limit /\ id = freed - 1 /\ head = freed + 1
  BY DEF WritersInv
<1>2. CASE QueueMsg(w)
  BY <1>1, <1>2, OutsiderKeeps DEF QueueMsg, listVars
<1>3. CASE Lock(w)
  <2>1. LockFree /\ WriterGoes(w, "lock", "append") /\ UNCHANGED listVars
    BY <1>3 DEF Lock
  <2>2. Settled'
    BY <2>1 DEF WritersInv, Settled, listVars
  <2>3. QED
    BY <1>1, <2>1, <2>2, HolderKeeps DEF listVars, Locked
<1>4. CASE AppendMsg(w)
  <2>1. /\ WriterGoes(w, "append", IF appended + 1 - freed > Limit THEN "remove" ELSE "unlock")
        /\ appended' = appended + 1 /\ UNCHANGED <<freed, head, id>>
    BY <1>4 DEF AppendMsg
  <2>2. Settled
    BY <1>1, <2>1 DEF WriterGoes
  <2>3. CASE appended + 1 - freed > Limit
    <3>1. WriterGoes(w, "append", "remove")
      BY <2>1, <2>3
    <3>2. appended' = freed' + Limit + 1 /\ id' = freed' /\ head' = freed' + 1
      BY <1>1, <2>1, <2>2, <2>3 DEF Settled
    <3>3. QED
      BY <1>1, <2>1, <3>1, <3>2, HolderKeeps DEF Locked
  <2>4. CASE ~(appended + 1 - freed > Limit)
    <3>1. WriterGoes(w, "append", "unlock")
      BY <2>1, <2>4
    <3>2. Settled'
      BY <1>1, <2>1, <2>2, <2>4 DEF Settled
    <3>3. QED
      BY <1>1, <2>1, <3>1, <3>2, HolderKeeps DEF Locked
  <2>5. QED
    BY <2>3, <2>4
<1>5. CASE FreeHead(w)
  <2>1. /\ WriterGoes(w, "remove", "move")
        /\ freed' = freed + 1 /\ UNCHANGED <<appended, head, id>>
    BY <1>5 DEF FreeHead
  <2>2. appended = freed + Limit + 1 /\ id = freed /\ head = freed + 1
    BY <1>1, <2>1 DEF WriterGoes
  <2>3. /\ appended' = freed' + Limit /\ id' = freed' - 1 /\ head' = freed'
        /\ freed' \in Nat /\ freed' >= freed
    BY <1>1, <2>1, <2>2
  <2>4. QED
    BY <1>1, <2>1, <2>3, HolderKeeps DEF Locked
<1>6. CASE MoveHead(w)
  <2>1. /\ WriterGoes(w, "move", "count")
        /\ head' = head + 1 /\ UNCHANGED <<appended, freed, id>>
    BY <1>6 DEF MoveHead
  <2>2. appended = freed + Limit /\ id = freed - 1 /\ head = freed
    BY <1>1, <2>1 DEF WriterGoes
  <2>3. QED
    BY <1>1, <2>1, <2>2, HolderKeeps DEF Locked
<1>7. CASE CountRemoved(w)
  <2>1. /\ WriterGoes(w, "count", "unlock")
        /\ id' = id + 1 /\ UNCHANGED <<appended, freed, head>>
    BY <1>7 DEF CountRemoved
  <2>2. appended = freed + Limit /\ id = freed - 1 /\ head = freed + 1
    BY <1>1, <2>1 DEF WriterGoes
  <2>3. Settled'
    BY <1>1, <2>1, <2>2 DEF Settled
  <2>4. id' \in Nat /\ freed' >= freed
    BY <1>1, <2>1
  <2>5. QED
    BY <1>1, <2>1, <2>3, <2>4, HolderKeeps DEF Locked
<1>8. CASE Unlock(w)
  BY <1>1, <1>8, OutsiderKeeps DEF Unlock, listVars
<1>9. QED
  BY <1>2, <1>3, <1>4, <1>5, <1>6, <1>7, <1>8 DEF WriterStep

\* The main thread does not write the backlog, and a reload starts a new one.
LEMMA OthersKeepWriters ==
    ASSUME WritersInv,
           \/ Accept \/ ClientStep \/ ReaderStep \/ UNCHANGED rssVars
           \/ \E p \in Ports : Reload(p) \/ ReloadFails(p) \/ AcceptFreed(p)
    PROVE  WritersInv'
<1>1. CASE UNCHANGED <<listVars, wpc>>
  BY <1>1 DEF listVars, WritersInv, OneWriterHolds, LockFree, Settled
<1>2. CASE \E p \in Ports : Reload(p)
  <2>1. /\ appended' = 0 /\ freed' = 0 /\ head' = 1 /\ id' = 0 /\ wpc' = wpc
        /\ \A w \in Writers : wpc[w] = "idle"
    BY <1>2 DEF Reload, Quiet
  <2>2. Settled'
    BY <2>1, LimitAssumption DEF Settled
  <2>3. QED
    BY <2>1, <2>2 DEF WritersInv, OneWriterHolds, Locked
<1>3. QED
  BY <1>1, <1>2 DEF Accept, ClientStep, ClientAsks, ClientReads, ClientLeaves, ReaderStep,
                    ReadOffset, FormatEntry, NextEntry, FormatEnd, Respond, WriteFeed,
                    ReaderGoes, ReloadFails, AcceptFreed, rssVars

LEMMA WritersInvariant == RssSpec => []WritersInv
<1>1. WritersInv /\ [RssNext]_rssVars => WritersInv'
  BY WritersStep, OthersKeepWriters DEF RssNext
<1>2. QED
  BY <1>1, WritersInit, PTL DEF RssSpec

\* The backlog is bounded and its numbers are in step whenever the lock is free.
THEOREM BacklogStaysBounded == RssSpec => []BacklogIsBounded
<1>1. WritersInv => BacklogIsBounded
  <2> SUFFICES ASSUME WritersInv PROVE BacklogIsBounded
    OBVIOUS
  <2>1. LockFree => Settled
    BY DEF WritersInv
  <2>2. appended - freed \in 0..(Limit + 1)
    <3>1. appended \in Nat /\ freed \in Nat
      BY DEF WritersInv
    <3>2. CASE Settled
      BY <3>1, <3>2, LimitAssumption DEF Settled
    <3>3. CASE ~Settled
      <4>1. PICK w \in Writers : wpc[w] \in Locked
        BY <2>1, <3>3 DEF LockFree
      <4>2. appended = freed + Limit + 1 \/ appended = freed + Limit
        BY <3>3, <4>1 DEF WritersInv, Locked
      <4>3. QED
        BY <3>1, <4>2, LimitAssumption
    <3>4. QED
      BY <3>2, <3>3
  <2>3. QED
    BY <2>1, <2>2 DEF BacklogIsBounded, Settled
<1>2. QED
  BY <1>1, WritersInvariant, PTL

-----------------------------------------------------------------------------
\* The ports.

LEMMA PortsInit == RssInit => PortsInv
<1> SUFFICES ASSUME RssInit PROVE PortsInv
  OBVIOUS
<1>1. PICK p \in Ports : /\ port = p
                         /\ serves = [q \in Ports |-> IF q = p THEN "current" ELSE "nobody"]
  BY DEF RssInit
<1>2. {q \in Ports : serves[q] # "nobody"} = {p} /\ {q \in Ports : serves[q] = "current"} = {p}
  BY <1>1
<1>3. Cardinality({p}) = 1
  BY FS_Singleton
<1>4. lives = 1 /\ ~ghost
  BY DEF RssInit
<1>5. PortsAreUsedUp
  BY <1>1, <1>2, <1>3, <1>4 DEF PortsAreUsedUp
<1>6. QED
  BY <1>1, <1>4, <1>5 DEF PortsInv

\* A reload takes a port nobody listened on, and leaves one behind.
LEMMA ReloadTakesAPort ==
    ASSUME PortsInv, NEW p \in Ports, Reload(p)
    PROVE  PortsInv'
<1> DEFINE used == {q \in Ports : serves[q] # "nobody"}
<1>1. /\ serves[p] = "nobody" /\ port' = p /\ lives' = lives + 1 /\ ghost' = ghost
      /\ serves' = [[serves EXCEPT ![port] = "freed"] EXCEPT ![p] = "current"]
  BY DEF Reload, Release
<1>2. /\ port \in Ports /\ serves \in [Ports -> {"nobody", "current", "freed"}]
      /\ lives \in Nat \ {0} /\ Cardinality(used) = lives
      /\ {q \in Ports : serves[q] = "current"} = {port}
  BY DEF PortsInv, PortsAreUsedUp
<1>3. serves[port] = "current" /\ port # p /\ p \notin used
  BY <1>1, <1>2
<1>4. /\ serves' \in [Ports -> {"nobody", "current", "freed"}]
      /\ serves'[p] = "current" /\ serves'[port] = "freed"
      /\ \A q \in Ports : q # p /\ q # port => serves'[q] = serves[q]
  BY <1>1, <1>2, <1>3
<1>5. {q \in Ports : serves'[q] # "nobody"} = used \union {p}
  BY <1>2, <1>3, <1>4
<1>6. {q \in Ports : serves'[q] = "current"} = {p}
  BY <1>2, <1>3, <1>4
<1>7. Cardinality(used \union {p}) = lives + 1
  <2>1. IsFiniteSet(used)
    BY PortsAssumption, FS_Subset
  <2>2. QED
    BY <1>2, <1>3, <2>1, FS_AddElement
<1>8. lives' \in Nat \ {0} /\ lives' > 1
  BY <1>1, <1>2
<1>9. PortsAreUsedUp'
  BY <1>1, <1>5, <1>6, <1>7, <1>8 DEF PortsAreUsedUp
<1>10. QED
  BY <1>1, <1>4, <1>8, <1>9 DEF PortsInv

LEMMA PortsStep == PortsInv /\ [RssNext]_rssVars => PortsInv'
<1> SUFFICES ASSUME PortsInv, [RssNext]_rssVars PROVE PortsInv'
  OBVIOUS
<1>1. CASE UNCHANGED driverVars
  BY <1>1 DEF driverVars, PortsInv, PortsAreUsedUp
<1>2. CASE \E p \in Ports : Reload(p)
  BY <1>2, ReloadTakesAPort
<1>3. CASE \E p \in Ports : AcceptFreed(p)
  BY <1>3 DEF AcceptFreed, PortsInv, PortsAreUsedUp
<1>4. CASE \E w \in Writers : QueueMsg(w) \/ Lock(w) \/ WriterStep(w)
  <2>1. UNCHANGED driverVars
    BY <1>4 DEF QueueMsg, Lock, WriterStep, AppendMsg, FreeHead, MoveHead, CountRemoved, Unlock,
                WriterGoes
  <2>2. QED
    BY <1>1, <2>1
<1>5. CASE \/ Accept \/ ClientStep \/ ReaderStep \/ UNCHANGED rssVars
           \/ \E p \in Ports : ReloadFails(p)
  <2>1. UNCHANGED driverVars
    BY <1>5 DEF Accept, ClientStep, ClientAsks, ClientReads, ClientLeaves, ReaderStep,
                ReadOffset, FormatEntry, NextEntry, FormatEnd, Respond, WriteFeed, ReaderGoes, ReloadFails, rssVars, driverVars
  <2>2. QED
    BY <1>1, <2>1
<1>6. QED
  BY <1>2, <1>3, <1>4, <1>5 DEF RssNext

\* Each driver uses up a port, and a connection to freed memory takes a reload.
THEOREM ReloadsUseUpPorts == RssSpec => []PortsAreUsedUp
<1>1. PortsInv => PortsAreUsedUp
  BY DEF PortsInv
<1>2. QED
  BY <1>1, PortsInit, PortsStep, PTL DEF RssSpec

-----------------------------------------------------------------------------
\* The steps of the walk.

LEMMA NextNumbered ==
    ASSUME freed \in Nat, NEW k \in Nat
    PROVE  /\ Numbered(k) \in Seq(Nat \X Nat) /\ Len(Numbered(k)) = k
           /\ Append(Numbered(k), <<freed + k + 1, freed + k>>) = Numbered(k + 1)
           /\ Numbered(0) = <<>>
<1>1. \A j \in Nat : Numbered(j) \in Seq(Nat \X Nat) /\ Len(Numbered(j)) = j
  <2> SUFFICES ASSUME NEW j \in Nat PROVE Numbered(j) \in Seq(Nat \X Nat) /\ Len(Numbered(j)) = j
    OBVIOUS
  <2>1. \A i \in 1..j : <<freed + i, freed + i - 1>> \in Nat \X Nat
    OBVIOUS
  <2>2. QED
    BY <2>1, IsASeq DEF Numbered
<1>2. Append(Numbered(k), <<freed + k + 1, freed + k>>) = Numbered(k + 1)
  <2> DEFINE s == Append(Numbered(k), <<freed + k + 1, freed + k>>)
  <2>1. <<freed + k + 1, freed + k>> \in Nat \X Nat
    OBVIOUS
  <2>2. s \in Seq(Nat \X Nat) /\ Len(s) = k + 1 /\ s[k + 1] = <<freed + k + 1, freed + k>>
        /\ \A i \in 1..k : s[i] = Numbered(k)[i]
    <3>1. PICK q \in Seq(Nat \X Nat) : q = Numbered(k) /\ Len(q) = k
      BY <1>1
    <3>2. PICK e \in Nat \X Nat : e = <<freed + k + 1, freed + k>>
      BY <2>1
    <3>3. /\ Append(q, e) \in Seq(Nat \X Nat) /\ Len(Append(q, e)) = k + 1
          /\ \A i \in 1..k : Append(q, e)[i] = q[i]
          /\ Append(q, e)[k + 1] = e
      BY <3>1, AppendProperties
    <3>4. QED
      BY <3>1, <3>2, <3>3
  <2>3. \A i \in 1..(k + 1) : s[i] = Numbered(k + 1)[i]
    <3> SUFFICES ASSUME NEW i \in 1..(k + 1) PROVE s[i] = Numbered(k + 1)[i]
      OBVIOUS
    <3>1. CASE i = k + 1
      BY <2>2, <3>1 DEF Numbered
    <3>2. CASE i # k + 1
      <4>1. i \in 1..k
        BY <3>2
      <4>2. QED
        BY <2>2, <4>1 DEF Numbered
    <3>3. QED
      BY <3>1, <3>2
  <2>4. Numbered(k + 1) \in Seq(Nat \X Nat) /\ Len(Numbered(k + 1)) = k + 1
    BY <1>1
  <2>5. QED
    BY <2>2, <2>3, <2>4, SeqEqual
<1>3. Numbered(0) = <<>>
  BY DEF Numbered
<1>4. QED
  BY <1>1, <1>2, <1>3

\* How far the head and the count are behind what was released.
LEMMA Lag ==
    ASSUME WritersInv
    PROVE  /\ freed \in Nat /\ appended \in Nat /\ head \in {freed, freed + 1}
           /\ id \in {freed, freed - 1} /\ id \in Nat /\ head \in Nat
           /\ freed <= appended
           /\ LockFree => head = freed + 1 /\ id = freed
<1>1. /\ freed \in Nat /\ appended \in Nat /\ id \in Nat /\ head \in Nat
      /\ LockFree => Settled
  BY DEF WritersInv
<1>2. CASE Settled
  BY <1>1, <1>2, LimitAssumption DEF Settled
<1>3. CASE ~Settled
  <2>1. PICK w \in Writers : wpc[w] \in Locked
    BY <1>1, <1>3 DEF LockFree
  <2>2. wpc[w] \in {"remove", "move", "count"}
    BY <1>3, <2>1 DEF WritersInv, Locked
  <2>3. \/ appended = freed + Limit + 1 /\ id = freed /\ head = freed + 1
        \/ appended = freed + Limit /\ id = freed - 1 /\ head = freed
        \/ appended = freed + Limit /\ id = freed - 1 /\ head = freed + 1
    BY <2>2 DEF WritersInv
  <2>4. QED
    BY <1>1, <1>3, <2>3, LimitAssumption
<1>4. QED
  BY <1>2, <1>3

FeedInv == WalkTypes /\ QuietWalk /\ BusyWalk

LEMMA FeedInit == RssInit => FeedInv
<1> SUFFICES ASSUME RssInit PROVE FeedInv
  OBVIOUS
<1>1. feed = <<>> /\ feed \in Seq(Nat \X Nat) /\ DOMAIN feed = {}
  BY DEF RssInit
<1>2. QED
  BY <1>1 DEF RssInit, FeedInv, WalkTypes, QuietWalk, BusyWalk

\* A writer only makes the walk interfered with, and releases more.
LEMMA WriterKeepsFeed ==
    ASSUME WritersInv, FeedInv, NEW w \in Writers, QueueMsg(w) \/ Lock(w) \/ WriterStep(w)
    PROVE  FeedInv'
<1>1. overlap' = TRUE /\ UNCHANGED <<readVars, touched>>
  BY DEF QueueMsg, Lock, WriterStep, AppendMsg, FreeHead, MoveHead, CountRemoved, Unlock,
         WriterGoes
<1>2. freed \in Nat /\ freed' \in Nat /\ freed' >= freed
  BY WritersStep DEF WritersInv
<1>3. WalkTypes' /\ QuietWalk'
  BY <1>1 DEF readVars, FeedInv, WalkTypes, QuietWalk
<1>4. item \in Nat /\ (item <= freed + 1 => item <= freed' + 1) /\ (item > freed' => item > freed)
  <2>1. item \in Nat
    BY DEF FeedInv, WalkTypes
  <2>2. \A a, b, i \in Nat : b >= a => (i <= a + 1 => i <= b + 1) /\ (i > b => i > a)
    OBVIOUS
  <2>3. QED
    BY <1>2, <2>1, <2>2
<1>5. BusyWalk'
  BY <1>1, <1>4 DEF readVars, FeedInv, BusyWalk, Near
<1>6. QED
  BY <1>3, <1>5 DEF FeedInv

LEMMA AcceptStep ==
    ASSUME WritersInv, FeedInv, Accept
    PROVE  FeedInv'
<1>1. /\ rpc' = "offset" /\ item' = (IF head <= appended THEN head ELSE 0) /\ feed' = <<>>
      /\ overlap' = ~LockFree /\ touched' = FALSE /\ UNCHANGED <<listVars, wpc, offset>>
  BY DEF Accept, ReaderGoes
<1>2. /\ freed \in Nat /\ appended \in Nat /\ head \in {freed, freed + 1} /\ head \in Nat
      /\ LockFree => head = freed + 1
      /\ LockFree' = LockFree
  BY <1>1, Lag DEF LockFree
<1>3. item' \in Nat /\ item' <= freed' + 1
  BY <1>1, <1>2 DEF listVars
<1>4. feed' \in Seq(Nat \X Nat) /\ DOMAIN feed' = {} /\ overlap' \in BOOLEAN
  BY <1>1
<1>5. WalkTypes'
  BY <1>1, <1>3, <1>4 DEF FeedInv, WalkTypes
<1>6. QuietWalk'
  <2>1. SUFFICES ASSUME LockFree PROVE item' = IF freed < appended THEN freed + 1 ELSE 0
    BY <1>1, <1>2 DEF QuietWalk, listVars
  <2>2. QED
    BY <1>1, <1>2, <2>1
<1>7. BusyWalk'
  BY <1>1, <1>3, <1>4 DEF BusyWalk
<1>8. QED
  BY <1>5, <1>6, <1>7 DEF FeedInv

LEMMA ReadOffsetStep ==
    ASSUME WritersInv, FeedInv, ReadOffset
    PROVE  FeedInv'
<1>1. /\ rpc = "offset" /\ rpc' = "format" /\ offset' = id
      /\ UNCHANGED <<listVars, wpc, item, feed, overlap, touched>>
  BY DEF ReadOffset, ReaderGoes
<1>2. /\ freed \in Nat /\ appended \in Nat /\ id \in {freed, freed - 1} /\ id \in Nat
      /\ freed <= appended
      /\ LockFree => id = freed
      /\ LockFree' = LockFree
  BY <1>1, Lag DEF LockFree
<1>3. feed = <<>> /\ Len(feed) = 0 /\ DOMAIN feed = {} /\ item <= freed + 1 /\ item \in Nat
  BY <1>1 DEF FeedInv, BusyWalk, WalkTypes
<1>4. WalkTypes'
  BY <1>1, <1>2 DEF FeedInv, WalkTypes
<1>5. QuietWalk'
  <2>1. SUFFICES ASSUME ~overlap
                 PROVE  /\ LockFree' /\ feed' = Numbered(Len(feed))' /\ Len(feed') <= appended' - freed'
                        /\ offset' = freed' + Len(feed')
                        /\ item' = IF freed' + Len(feed') < appended' THEN freed' + Len(feed') + 1 ELSE 0
    BY <1>1 DEF QuietWalk
  <2>2. LockFree /\ item = IF freed < appended THEN freed + 1 ELSE 0
    BY <1>1, <2>1 DEF FeedInv, QuietWalk
  <2>3. Numbered(0)' = <<>>
    BY <1>1, <1>2, NextNumbered DEF Numbered, listVars
  <2>4. freed' = freed /\ appended' = appended /\ item' = item /\ Len(feed') = 0 /\ feed' = <<>>
    BY <1>1, <1>3 DEF listVars
  <2>5. feed' = Numbered(Len(feed))'
    BY <2>3, <2>4 DEF Numbered
  <2>6. /\ LockFree' /\ 0 <= appended - freed /\ offset' = freed + 0
        /\ item = IF freed + 0 < appended THEN freed + 0 + 1 ELSE 0
    <3>1. LockFree'
      BY <1>2, <2>2
    <3>2. 0 <= appended - freed /\ freed + 0 = freed
      BY <1>2
    <3>3. offset' = freed
      BY <1>1, <1>2, <2>2
    <3>4. QED
      BY <2>2, <3>1, <3>2, <3>3
  <2>7. QED
    BY <2>4, <2>5, <2>6
<1>6. BusyWalk'
  <2>1. item > freed => Near(item, id)
    BY <1>2, <1>3 DEF Near
  <2>2. QED
    BY <1>1, <1>3, <2>1 DEF BusyWalk, listVars, Near
<1>7. QED
  BY <1>4, <1>5, <1>6 DEF FeedInv

LEMMA FormatEntryStep ==
    ASSUME WritersInv, FeedInv, FormatEntry
    PROVE  FeedInv'
<1>1. /\ rpc = "format" /\ rpc' = "next" /\ item # 0
      /\ touched' = (touched \/ item <= freed) /\ feed' = Append(feed, <<item, offset>>)
      /\ UNCHANGED <<listVars, wpc, item, offset, overlap>>
  BY DEF FormatEntry, ReaderGoes, Touch
<1>2. /\ item \in Nat /\ offset \in Nat /\ feed \in Seq(Nat \X Nat)
      /\ freed \in Nat /\ appended \in Nat /\ <<item, offset>> \in Nat \X Nat
      /\ Len(feed) \in Nat /\ DOMAIN feed = 1..Len(feed) /\ touched \in BOOLEAN
  BY Lag, LenProperties DEF FeedInv, WalkTypes
<1>3. /\ feed' \in Seq(Nat \X Nat) /\ Len(feed') = Len(feed) + 1
      /\ feed'[Len(feed) + 1] = <<item, offset>>
      /\ \A i \in 1..Len(feed) : feed'[i] = feed[i]
      /\ DOMAIN feed' = 1..(Len(feed) + 1)
  BY <1>1, <1>2, AppendProperties, LenProperties
<1>4. WalkTypes'
  BY <1>1, <1>2, <1>3 DEF FeedInv, WalkTypes
<1>5. QuietWalk'
  <2>1. SUFFICES ASSUME ~overlap
                 PROVE  /\ LockFree' /\ feed' = Numbered(Len(feed))'
                        /\ Len(feed') \in 1..(appended' - freed')
                        /\ offset' = freed' + Len(feed') - 1 /\ item' = freed' + Len(feed')
    BY <1>1 DEF QuietWalk
  <2>2. /\ LockFree /\ feed = Numbered(Len(feed)) /\ offset = freed + Len(feed)
        /\ freed + Len(feed) < appended /\ item = freed + Len(feed) + 1
    BY <1>1, <2>1 DEF FeedInv, QuietWalk
  <2>3. freed' = freed /\ appended' = appended /\ LockFree' = LockFree
    BY <1>1 DEF listVars, LockFree
  <2>4. feed' = Numbered(Len(feed) + 1)
    BY <1>1, <1>2, <2>2, NextNumbered
  <2>5. feed' = Numbered(Len(feed))'
    BY <1>3, <2>3, <2>4 DEF Numbered
  <2>6. Len(feed') \in 1..(appended - freed) /\ offset = freed + Len(feed') - 1
        /\ item = freed + Len(feed')
    BY <1>2, <1>3, <2>2
  <2>7. QED
    BY <1>1, <2>2, <2>3, <2>5, <2>6
<1>6. BusyWalk'
  <2>1. SUFFICES ASSUME ~touched'
                 PROVE  /\ \A i \in DOMAIN feed' : Near(feed'[i][1], feed'[i][2])
                        /\ \A i \in DOMAIN feed' : feed'[i][1] = feed'[1][1] + i - 1
                        /\ feed' # <<>> /\ item' = feed'[1][1] + Len(feed') - 1
                        /\ Near(item', offset')
    BY <1>1 DEF BusyWalk, Near
  <2>2. ~touched /\ item > freed
    <3>1. ~touched /\ ~(item <= freed)
      BY <1>1, <2>1
    <3>2. QED
      BY <1>2, <3>1
  <2>3. /\ Near(item, offset) /\ (feed # <<>> => item = feed[1][1] + Len(feed))
        /\ \A i \in DOMAIN feed : Near(feed[i][1], feed[i][2])
        /\ \A i \in DOMAIN feed : feed[i][1] = feed[1][1] + i - 1
    BY <1>1, <2>2 DEF FeedInv, BusyWalk
  <2>4. \A i \in DOMAIN feed' : Near(feed'[i][1], feed'[i][2])
    <3>1. \A i \in DOMAIN feed' : i \in DOMAIN feed \/ i = Len(feed) + 1
      BY <1>2, <1>3
    <3>2. <<item, offset>>[1] = item /\ <<item, offset>>[2] = offset
      OBVIOUS
    <3>3. \A i \in DOMAIN feed : Near(feed'[i][1], feed'[i][2])
      BY <1>2, <1>3, <2>3
    <3>4. Near(feed'[Len(feed) + 1][1], feed'[Len(feed) + 1][2])
      BY <1>3, <2>3, <3>2
    <3>5. QED
      BY <3>1, <3>3, <3>4
  <2>5. item = feed'[1][1] + Len(feed') - 1
    <3>1. CASE feed = <<>>
      <4>1. Len(feed) = 0
        BY <3>1
      <4>2. feed'[1] = <<item, offset>> /\ Len(feed') = 1
        BY <1>3, <4>1
      <4>3. QED
        BY <1>2, <4>2
    <3>2. CASE feed # <<>>
      <4>1. 1 \in 1..Len(feed)
        BY <1>2, <3>2, EmptySeq
      <4>2. feed'[1] = feed[1] /\ feed[1] \in Nat \X Nat
        BY <1>2, <1>3, <4>1, ElementOfSeq
      <4>3. item = feed[1][1] + Len(feed) /\ feed[1][1] \in Nat
        BY <2>3, <3>2, <4>2
      <4>4. QED
        BY <1>2, <1>3, <4>2, <4>3
    <3>3. QED
      BY <3>1, <3>2
  <2>6. \A i \in DOMAIN feed' : feed'[i][1] = feed'[1][1] + i - 1
    <3> SUFFICES ASSUME NEW i \in DOMAIN feed' PROVE feed'[i][1] = feed'[1][1] + i - 1
      OBVIOUS
    <3>1. CASE i = Len(feed) + 1
      BY <1>2, <1>3, <2>5, <3>1
    <3>2. CASE i # Len(feed) + 1
      <4>1. i \in 1..Len(feed) /\ 1 \in 1..Len(feed)
        <5>1. i \in 1..(Len(feed) + 1) /\ Len(feed) \in Nat
          BY <1>2, <1>3
        <5>2. QED
          BY <3>2, <5>1
      <4>2. QED
        BY <1>2, <1>3, <2>3, <4>1
    <3>3. QED
      BY <3>1, <3>2
  <2>7. feed' # <<>>
    BY <1>2, <1>3
  <2>8. QED
    BY <1>1, <2>3, <2>4, <2>5, <2>6, <2>7
<1>7. QED
  BY <1>4, <1>5, <1>6 DEF FeedInv

LEMMA NextEntryStep ==
    ASSUME WritersInv, FeedInv, NextEntry
    PROVE  FeedInv'
<1>1. /\ rpc = "next" /\ rpc' = "format" /\ touched' = (touched \/ item <= freed)
      /\ item' \in (IF item < appended THEN {item + 1} ELSE {0})
                      \union (IF item <= freed THEN {0} ELSE {})
      /\ offset' = offset + 1 /\ UNCHANGED <<listVars, wpc, feed, overlap>>
  BY DEF NextEntry, ReaderGoes, Touch
<1>2. /\ item \in Nat /\ offset \in Nat /\ feed \in Seq(Nat \X Nat) /\ Len(feed) \in Nat
      /\ freed \in Nat /\ appended \in Nat /\ touched \in BOOLEAN /\ DOMAIN feed = 1..Len(feed)
  BY Lag, LenProperties DEF FeedInv, WalkTypes
<1>3. WalkTypes'
  BY <1>1, <1>2 DEF FeedInv, WalkTypes
<1>4. QuietWalk'
  <2>1. SUFFICES ASSUME ~overlap
                 PROVE  /\ LockFree' /\ feed' = Numbered(Len(feed))' /\ Len(feed') <= appended' - freed'
                        /\ offset' = freed' + Len(feed')
                        /\ item' = IF freed' + Len(feed') < appended' THEN freed' + Len(feed') + 1 ELSE 0
    BY <1>1 DEF QuietWalk
  <2>2. /\ LockFree /\ feed = Numbered(Len(feed)) /\ Len(feed) \in 1..(appended - freed)
        /\ offset = freed + Len(feed) - 1 /\ item = freed + Len(feed)
    BY <1>1, <2>1 DEF FeedInv, QuietWalk
  <2>3. freed' = freed /\ appended' = appended /\ LockFree' = LockFree /\ Len(feed') = Len(feed)
    BY <1>1 DEF listVars, LockFree
  <2>4. feed' = Numbered(Len(feed))'
    BY <1>1, <2>2, <2>3 DEF Numbered
  <2>5. ~(item <= freed)
    BY <1>2, <2>2
  <2>6. item' = (IF item < appended THEN item + 1 ELSE 0)
    BY <1>1, <2>5
  <2>7. offset' = freed + Len(feed) /\ Len(feed) <= appended - freed
        /\ item' = (IF freed + Len(feed) < appended THEN freed + Len(feed) + 1 ELSE 0)
    BY <1>1, <1>2, <2>2, <2>6
  <2>8. QED
    BY <2>2, <2>3, <2>4, <2>7
<1>5. BusyWalk'
  <2>1. SUFFICES ASSUME ~touched'
                 PROVE  /\ \A i \in DOMAIN feed' : Near(feed'[i][1], feed'[i][2])
                        /\ \A i \in DOMAIN feed' : feed'[i][1] = feed'[1][1] + i - 1
                        /\ item' > freed' =>
                              /\ Near(item', offset')
                              /\ feed' # <<>> => item' = feed'[1][1] + Len(feed')
    BY <1>1 DEF BusyWalk, Near
  <2>2. ~touched /\ item > freed
    <3>1. ~touched /\ ~(item <= freed)
      BY <1>1, <2>1
    <3>2. QED
      BY <1>2, <3>1
  <2>3. /\ Near(item, offset) /\ item = feed[1][1] + Len(feed) - 1 /\ feed # <<>>
        /\ \A i \in DOMAIN feed : Near(feed[i][1], feed[i][2])
        /\ \A i \in DOMAIN feed : feed[i][1] = feed[1][1] + i - 1
    BY <1>1, <2>2 DEF FeedInv, BusyWalk
  <2>4. feed[1][1] \in Nat
    <3>1. 1 \in 1..Len(feed)
      BY <1>2, <2>3, EmptySeq
    <3>2. feed[1] \in Nat \X Nat
      BY <1>2, <3>1, ElementOfSeq
    <3>3. QED
      BY <3>2
  <2>5. item' = item + 1 \/ item' = 0
    BY <1>1
  <2>6. item' > freed => Near(item', offset') /\ item' = feed[1][1] + Len(feed)
    <3>1. offset - item \in {-2, -1} /\ item = feed[1][1] + Len(feed) - 1
      BY <2>3 DEF Near
    <3>2. CASE item' = 0
      BY <1>2, <3>2
    <3>3. CASE item' = item + 1
      <4>1. offset' - item' \in {-2, -1}
        <5>1. offset' = offset + 1
          BY <1>1
        <5>2. \A i, k \in Nat : k - i \in {-2, -1} => (k + 1) - (i + 1) \in {-2, -1}
          OBVIOUS
        <5>3. (offset + 1) - (item + 1) \in {-2, -1}
          BY <1>2, <3>1, <5>2
        <5>4. QED
          BY <3>3, <5>1, <5>3
      <4>2. item' = feed[1][1] + Len(feed)
        BY <1>2, <2>4, <3>1, <3>3
      <4>3. QED
        BY <4>1, <4>2 DEF Near
    <3>4. QED
      BY <2>5, <3>2, <3>3
  <2>7. QED
    BY <1>1, <2>3, <2>6 DEF listVars
<1>6. QED
  BY <1>3, <1>4, <1>5 DEF FeedInv

\* The other steps of the main thread, none of which looks at the backlog.
LEMMA OtherKeepsFeed ==
    ASSUME WritersInv, FeedInv,
           \/ FormatEnd \/ Respond \/ WriteFeed \/ ClientStep \/ UNCHANGED rssVars
           \/ \E p \in Ports : Reload(p) \/ ReloadFails(p) \/ AcceptFreed(p)
    PROVE  FeedInv'
<1>1. CASE FormatEnd
  <2>1. /\ rpc = "format" /\ rpc' = "respond" /\ item = 0
        /\ UNCHANGED <<listVars, wpc, item, offset, feed, overlap, touched>>
    BY <1>1 DEF FormatEnd, ReaderGoes
  <2>2. QuietWalk'
    <3>1. SUFFICES ASSUME ~overlap PROVE LockFree' /\ feed' = Numbered(appended - freed)'
      BY <2>1 DEF QuietWalk
    <3>2. /\ LockFree /\ feed = Numbered(Len(feed)) /\ Len(feed) <= appended - freed
          /\ item = IF freed + Len(feed) < appended THEN freed + Len(feed) + 1 ELSE 0
      BY <2>1, <3>1 DEF FeedInv, QuietWalk
    <3>3. Len(feed) \in Nat /\ freed \in Nat /\ appended \in Nat
      BY Lag, LenProperties DEF FeedInv, WalkTypes
    <3>4. Len(feed) = appended - freed
      BY <2>1, <3>2, <3>3
    <3>5. QED
      BY <2>1, <3>2, <3>4 DEF listVars, LockFree, Numbered
  <2>3. QED
    BY <2>1, <2>2 DEF FeedInv, WalkTypes, BusyWalk, Near
<1>2. CASE Respond \/ WriteFeed
  <2>1. /\ rpc \in {"respond", "write"} /\ rpc' \in {"write", "idle"}
        /\ UNCHANGED <<listVars, wpc, item, offset, feed, overlap, touched>>
    BY <1>2 DEF Respond, WriteFeed, ReaderGoes
  <2>2. WalkTypes'
    BY <2>1 DEF FeedInv, WalkTypes
  <2>3. QuietWalk'
    BY <2>1 DEF FeedInv, QuietWalk, LockFree
  <2>4. BusyWalk'
    BY <2>1 DEF FeedInv, BusyWalk, Near
  <2>5. QED
    BY <2>2, <2>3, <2>4 DEF FeedInv
<1>3. CASE \E p \in Ports : Reload(p)
  <2>1. rpc = "idle" /\ feed' = <<>> /\ UNCHANGED <<rpc, item, offset, overlap, touched>>
    BY <1>3 DEF Reload, Quiet
  <2>2. feed' \in Seq(Nat \X Nat) /\ DOMAIN feed' = {}
    BY <2>1
  <2>3. QED
    BY <2>1, <2>2 DEF FeedInv, WalkTypes, QuietWalk, BusyWalk
<1>4. CASE UNCHANGED <<listVars, wpc, rpc, item, offset, feed, overlap, touched>>
  BY <1>4 DEF listVars, FeedInv, WalkTypes, QuietWalk, BusyWalk, Near, Numbered, LockFree
<1>5. QED
  BY <1>1, <1>2, <1>3, <1>4
     DEF ClientStep, ClientAsks, ClientReads, ClientLeaves, ReloadFails, AcceptFreed,
         rssVars, readVars

LEMMA FeedInvariant == RssSpec => []FeedInv
<1>1. WritersInv /\ FeedInv /\ [RssNext]_rssVars => FeedInv'
  BY WriterKeepsFeed, AcceptStep, ReadOffsetStep, FormatEntryStep, NextEntryStep, OtherKeepsFeed
     DEF RssNext, ReaderStep
<1>2. QED
  BY <1>1, FeedInit, WritersInvariant, PTL DEF RssSpec

\* A feed that no writer interferes with is the backlog, numbered as in every other
\* feed; and a walk among writers that reads no released memory gives consecutive
\* entries, each with its own number or the one before it.
THEOREM FeedsAreRight == RssSpec => []FeedIsRight
<1>1. WritersInv /\ FeedInv => FeedIsRight
  <2> SUFFICES ASSUME WritersInv, FeedInv PROVE FeedIsRight
    OBVIOUS
  <2>1. rpc = "respond" /\ ~overlap =>
            feed = [i \in 1..(appended - freed) |-> <<freed + i, freed + i - 1>>]
    BY DEF FeedInv, QuietWalk, Numbered
  <2>2. ~touched =>
            /\ \A i \in DOMAIN feed : feed[i][2] - feed[i][1] \in {-2, -1}
            /\ \A i \in DOMAIN feed : feed[i][1] = feed[1][1] + i - 1
    BY DEF FeedInv, BusyWalk, Near
  <2>3. QED
    BY <2>1, <2>2 DEF FeedIsRight
<1>2. QED
  BY <1>1, FeedInvariant, WritersInvariant, PTL
=============================================================================
