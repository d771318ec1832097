--------------------------- MODULE PythonDest_proofs ---------------------------
(***************************************************************************)
(* Proofs about the Python destination, for any sources, window, number of *)
(* messages, lives and references to the Booleans, and either on-error().  *)
(***************************************************************************)
EXTENDS PythonDest, LogThrDest_proofs

\* Every step but that of a deinit which refuses is one the frame allows, or one
\* it does not see.
LEMMA DriverStep == success \in BOOLEAN /\ [Next]_vars => [ThrNext]_thrVars \/ DeinitRefused
<1> SUFFICES ASSUME success \in BOOLEAN, [Next]_vars
             PROVE  [ThrNext]_thrVars \/ DeinitRefused
  OBVIOUS
<1>1. ASSUME NEW s \in Sources, SourceStep(s) PROVE ThrNext
  BY <1>1 DEF SourceStep, ThrNext
<1>2. CASE StopRequest \/ LeaveLoop \/ CallInsert \/ InitSucceeds \/ DeinitAgrees
  BY <1>2 DEF StopRequest, LeaveLoop, CallInsert, InitSucceeds, StartThread, DeinitAgrees, ThrNext
<1>3. CASE Pop
  BY <1>3 DEF Pop, ThrNext
<1>4. CASE FinishInsert
  <2>1. Verdict \in Verdicts /\ Settle(Verdict, success)
    BY <1>4 DEF FinishInsert, Verdict, Verdicts
  <2>2. QED
    BY <2>1 DEF ThrNext
<1>5. CASE \/ OtherTakesGil \/ OtherReleasesGil \/ EnsureInit \/ EnsureDeinit \/ ImportScript
         \/ LookUpQueue \/ LookUpFunctions \/ InitRefused \/ EnsureGil \/ Convert \/ CallScript \/ ReleaseGil \/ UNCHANGED vars
  BY <1>5 DEF OtherTakesGil, OtherReleasesGil, EnsureInit, EnsureDeinit, ImportScript,
              LookUpQueue, LookUpFunctions, InitRefused, EnsureGil, Convert, CallScript, ReleaseGil, vars
<1>6. QED
  BY <1>1, <1>2, <1>3, <1>4, <1>5 DEF Next, WorkerStep, MainStep

-----------------------------------------------------------------------------
\* Types and control.

Control ==
    /\ pc \in {"idle", "pop", "ensure", "convert", "call", "release", "verdict"}
    /\ pc = "idle" <=> worker # "insert"
    /\ held # <<>> <=> pc \in {"ensure", "convert", "call", "release", "verdict"}
    /\ mainPc = "deinit" => worker = "stopped"
    /\ mainPc \in {"import", "queue", "functions", "call"} => worker = "down"
    /\ mainPc \in {"idle", "import", "queue", "functions", "call", "deinit"}

DriverTypeOK ==
    /\ success \in BOOLEAN /\ vpOk \in BOOLEAN /\ alive \in BOOLEAN
    /\ refs \in [{"True", "False"} -> Int]
    /\ answer \in Answers
    /\ answers \in Seq(Answers)
    /\ found \subseteq Functions
    /\ pins \in [Objects -> Int]
    /\ begunWith \in [Functions -> Int]
    /\ failures \in Seq(Reasons)

LEMMA WeakTypeKept == WeakTypeOK /\ success \in BOOLEAN /\ [Next]_vars => WeakTypeOK'
<1> SUFFICES ASSUME WeakTypeOK, success \in BOOLEAN, [Next]_vars PROVE WeakTypeOK'
  OBVIOUS
<1>1. CASE DeinitRefused
  <2>1. queue' \in Seq(Message)
    <3>1. <<>> \in Seq(Message)
      BY EmptySeq
    <3>2. queue' = <<>>
      BY <1>1 DEF DeinitRefused
    <3>3. QED
      BY <3>1, <3>2
  <2>2. worker' \in WorkerStates
    BY <1>1 DEF DeinitRefused, WorkerStates
  <2>3. QED
    BY <1>1, <2>1, <2>2 DEF DeinitRefused, WeakTypeOK
<1>2. CASE [ThrNext]_thrVars
  BY <1>2, WeakTypeStep
<1>3. QED
  BY <1>1, <1>2, DriverStep

LEMMA DriverTypeInit == Init => DriverTypeOK
<1> SUFFICES ASSUME Init PROVE DriverTypeOK
  OBVIOUS
<1>1. <<>> \in Seq(Answers) /\ <<>> \in Seq(Reasons)
  BY EmptySeq
<1>2. answers \in Seq(Answers) /\ failures \in Seq(Reasons)
  BY <1>1, Zenon DEF Init
<1>3. /\ refs \in [{"True", "False"} -> Int] /\ pins \in [Objects -> Int]
      /\ begunWith \in [Functions -> Int]
  BY BoolRefsAssumption DEF Init
<1>4. QED
  BY <1>2, <1>3 DEF Init, DriverTypeOK, Answers, ScriptAnswers

LEMMA DriverTypeStep == DriverTypeOK /\ [Next]_vars => DriverTypeOK'
<1> SUFFICES ASSUME DriverTypeOK, [Next]_vars PROVE DriverTypeOK'
  OBVIOUS
<1> USE DEF DriverTypeOK
<1>1. CASE ImportScript \/ LookUpQueue \/ LookUpFunctions \/ InitRefused
  <2>1. failures' \in Seq(Reasons)
    <3>1. failures' = failures \/ \E reason \in Reasons : failures' = Append(failures, reason)
      BY <1>1 DEF ImportScript, LookUpQueue, LookUpFunctions, InitRefused, InitFails, Reasons
    <3>2. \A reason \in Reasons : Append(failures, reason) \in Seq(Reasons)
      BY AppendProperties
    <3> HIDE DEF DriverTypeOK
    <3>3. failures \in Seq(Reasons)
      BY DEF DriverTypeOK
    <3>4. QED
      BY <3>1, <3>2, <3>3
  <2>2. pins' \in [Objects -> Int] /\ found' \subseteq Functions
    <3>1. \A objects \in SUBSET Objects :
             Took(objects) \in [Objects -> Int] /\ GaveBack(objects) \in [Objects -> Int]
      BY DEF Took, GaveBack
    <3>2. CASE ImportScript
      BY <3>1, <3>2 DEF ImportScript, Objects
    <3>3. CASE LookUpQueue
      <4>1. GaveBack({"module"}) \in [Objects -> Int] /\ Took({"queue"}) \in [Objects -> Int]
        BY <3>1 DEF Objects
      <4>2. [GaveBack({"module"}) EXCEPT !["queue"] = @ + 1] \in [Objects -> Int]
        BY <4>1 DEF Objects
      <4>3. QED
        BY <3>3, <4>1, <4>2 DEF LookUpQueue
    <3>4. CASE LookUpFunctions
      BY <3>1, <3>4 DEF LookUpFunctions, Objects
    <3>5. CASE InitRefused
      BY <3>1, <3>5 DEF InitRefused, Objects
    <3>6. QED
      BY <1>1, <3>2, <3>3, <3>4, <3>5
  <2>3. QED
    BY <1>1, <2>1, <2>2 DEF ImportScript, LookUpQueue, LookUpFunctions, InitRefused, evalVars
<1>2. CASE InitSucceeds
  <2>1. begunWith' \in [Functions -> Int]
    BY <1>2 DEF InitSucceeds
  <2>2. QED
    BY <1>2, <2>1 DEF InitSucceeds, evalVars
<1>3. CASE Pop
  BY <1>3 DEF Pop, lifeVars, pinVars
<1>4. CASE Convert
  BY <1>4 DEF Convert, Answers, lifeVars, pinVars
<1>5. CASE CallScript
  <2>1. PICK a \in ScriptAnswers :
           answer' = a /\ success' = AsBool(a) /\ refs' = Released(a) /\ alive' \in Survives(a)
    BY <1>5 DEF CallScript
  <2>2. refs' \in [{"True", "False"} -> Int]
    BY <2>1 DEF Released
  <2>3. success' \in BOOLEAN /\ answer' \in Answers
    BY <2>1 DEF AsBool, Answers
  <2>4. alive' \in BOOLEAN
    <3>1. Survives(a) \subseteq BOOLEAN
      BY DEF Survives
    <3>2. QED
      BY <2>1, <3>1
  <2>5. QED
    BY <1>5, <2>2, <2>3, <2>4 DEF CallScript, lifeVars, pinVars
<1>6. CASE FinishInsert
  BY <1>6, AppendProperties DEF FinishInsert, lifeVars, pinVars
<1>7. CASE UNCHANGED <<success, vpOk, alive, refs, answer, answers, pinVars>>
  BY <1>7 DEF pinVars
<1>8. QED
  <2>1. \/ ImportScript \/ LookUpQueue \/ LookUpFunctions \/ InitRefused
        \/ InitSucceeds \/ Pop \/ Convert \/ CallScript \/ FinishInsert
        \/ UNCHANGED <<success, vpOk, alive, refs, answer, answers, pinVars>>
    BY DEF Next, WorkerStep, MainStep, SourceStep, StopRequest, OtherTakesGil,
           OtherReleasesGil, EnsureInit, EnsureDeinit, DeinitAgrees, DeinitRefused,
           EnsureGil, CallInsert, ReleaseGil, LeaveLoop, vars, drvVars, evalVars, lifeVars, pinVars
  <2>2. QED
    BY <1>1, <1>2, <1>3, <1>4, <1>5, <1>6, <1>7, <2>1

LEMMA ControlStep == Control /\ [Next]_vars => Control'
<1> SUFFICES ASSUME Control, [Next]_vars PROVE Control'
  OBVIOUS
<1> USE DEF Control
<1>1. ASSUME NEW s \in Sources, SourceStep(s) PROVE Control'
  BY <1>1 DEF SourceStep, Post, drvVars, evalVars, lifeVars
<1>2. CASE StopRequest \/ LeaveLoop
  BY <1>2 DEF StopRequest, LeaveLoop, Terminate, Exit, WorkerGoes, drvVars, evalVars, lifeVars
<1>3. CASE InitSucceeds \/ DeinitAgrees \/ DeinitRefused
  <2>1. /\ worker # "insert" /\ worker' # "insert" /\ held' = held /\ pc' = pc
        /\ mainPc' = "idle"
    BY <1>3 DEF InitSucceeds, LeaveInit, StartThread, DeinitAgrees, DeinitRefused, Start, GoDown,
                WorkerGoes, evalVars
  <2>2. QED
    BY <2>1
<1>4. CASE CallInsert
  BY <1>4 DEF CallInsert, Wake, Reopen, WorkerGoes, lifeVars
<1>5. CASE Pop
  <2> mainPc' = mainPc
    BY <1>5 DEF Pop, lifeVars
  <2>1. CASE PopHead /\ pc' = "ensure"
    <3>1. held' = <<Head(queue)>> /\ <<Head(queue)>> # <<>>
      BY <2>1 DEF PopHead
    <3>2. QED
      BY <2>1, <3>1 DEF PopHead
  <2>2. CASE PopNothing /\ pc' = "idle"
    BY <2>2 DEF PopNothing, WorkerGoes
  <2>3. QED
    BY <1>5, <2>1, <2>2 DEF Pop
<1>6. CASE EnsureGil \/ Convert \/ CallScript \/ ReleaseGil
  BY <1>6 DEF EnsureGil, Convert, CallScript, ReleaseGil, thrVars, lifeVars
<1>7. CASE FinishInsert
  BY <1>7 DEF FinishInsert, Settle, GiveVerdict, lifeVars
<1>8. CASE \/ OtherTakesGil \/ OtherReleasesGil \/ EnsureInit \/ EnsureDeinit \/ ImportScript
         \/ LookUpQueue \/ LookUpFunctions \/ InitRefused \/ UNCHANGED vars
  BY <1>8 DEF OtherTakesGil, OtherReleasesGil, EnsureInit, EnsureDeinit, ImportScript, LookUpQueue,
              LookUpFunctions, InitRefused, InitFails, LeaveInit, vars, thrVars, drvVars, evalVars, lifeVars
<1>9. QED
  BY <1>1, <1>2, <1>3, <1>4, <1>5, <1>6, <1>7, <1>8 DEF Next, WorkerStep, MainStep

-----------------------------------------------------------------------------
\* The interpreter lock.

LEMMA GilStep == Control /\ GilPaired /\ [Next]_vars => GilPaired'
<1> SUFFICES ASSUME Control, GilPaired, [Next]_vars PROVE GilPaired'
  OBVIOUS
<1> USE DEF GilPaired
<1>1. CASE \/ EnsureInit \/ EnsureDeinit \/ ImportScript \/ LookUpQueue \/ LookUpFunctions
         \/ InitRefused \/ InitSucceeds \/ DeinitAgrees \/ DeinitRefused
  BY <1>1 DEF EnsureInit, EnsureDeinit, ImportScript, LookUpQueue, LookUpFunctions, InitRefused,
              InitFails, InitSucceeds, DeinitAgrees, DeinitRefused, LeaveInit, GilGoes, evalVars
<1>2. CASE OtherTakesGil \/ OtherReleasesGil
  BY <1>2 DEF OtherTakesGil, OtherReleasesGil, GilGoes, evalVars, lifeVars
<1>3. CASE EnsureGil \/ Convert \/ CallScript \/ ReleaseGil \/ FinishInsert
  BY <1>3 DEF EnsureGil, Convert, CallScript, ReleaseGil, FinishInsert, lifeVars
<1>4. CASE CallInsert
  BY <1>4 DEF CallInsert, Wake, Reopen, WorkerGoes, Control, lifeVars
<1>5. CASE Pop
  BY <1>5 DEF Pop, lifeVars
<1>6. CASE UNCHANGED drvVars
  BY <1>6 DEF drvVars, evalVars, lifeVars
<1>7. QED
  BY <1>1, <1>2, <1>3, <1>4, <1>5, <1>6
     DEF Next, WorkerStep, MainStep, SourceStep, StopRequest, LeaveLoop, vars

-----------------------------------------------------------------------------
\* What the lives of the driver leave behind.

Uncallable(reasons) == Cardinality({i \in DOMAIN reasons : reasons[i] = "uncallable"})

\* The strengthening of LivesPinTheScript to every place inside the init.
PinsInv ==
    /\ pins["module"] = lives + (IF mainPc \in {"queue", "functions", "call"} THEN 1 ELSE 0)
    /\ pins["queue"] = lives + Uncallable(failures)
                          + (IF mainPc \in {"functions", "call"} THEN 1 ELSE 0)
    /\ \A f \in Functions :
          pins[f] = begunWith[f] + (IF mainPc = "call" /\ f \in found THEN 1 ELSE 0)

LEMMA UncallableType ==
    ASSUME NEW reasons \in Seq(Reasons)
    PROVE  Uncallable(reasons) \in Nat
<1> DEFINE kind == {"uncallable"}
<1>1. {i \in DOMAIN reasons : reasons[i] = "uncallable"} = {i \in DOMAIN reasons : reasons[i] \in kind}
  OBVIOUS
<1> HIDE DEF kind
<1>2. Cardinality({i \in DOMAIN reasons : reasons[i] \in kind}) \in Nat
  BY CountType
<1>3. QED
  BY <1>1, <1>2 DEF Uncallable

LEMMA UncallableAppend ==
    ASSUME NEW reasons \in Seq(Reasons), NEW reason \in Reasons
    PROVE  Uncallable(Append(reasons, reason))
              = Uncallable(reasons) + (IF reason = "uncallable" THEN 1 ELSE 0)
<1> DEFINE kind == {"uncallable"}
           longer == Append(reasons, reason)
<1>1. /\ {i \in DOMAIN reasons : reasons[i] = "uncallable"} = {i \in DOMAIN reasons : reasons[i] \in kind}
      /\ {i \in DOMAIN longer : longer[i] = "uncallable"} = {i \in DOMAIN longer : longer[i] \in kind}
      /\ reason \in kind <=> reason = "uncallable"
  OBVIOUS
<1> HIDE DEF kind
<1>2. Cardinality({i \in DOMAIN longer : longer[i] \in kind})
         = Cardinality({i \in DOMAIN reasons : reasons[i] \in kind})
              + (IF reason \in kind THEN 1 ELSE 0)
  BY CountAppend
<1>3. QED
  BY <1>1, <1>2 DEF Uncallable

LEMMA PinsStep ==
    ASSUME WeakTypeOK, DriverTypeOK, Control, PinsInv, [Next]_vars
    PROVE  PinsInv'
<1> DEFINE u == Uncallable(failures)
<1>1. /\ failures \in Seq(Reasons) /\ u \in Nat /\ lives \in Nat
      /\ found \subseteq Functions /\ pins \in [Objects -> Int] /\ begunWith \in [Functions -> Int]
  BY UncallableType DEF DriverTypeOK, WeakTypeOK
<1>2. ASSUME NEW reason \in Reasons, InitFails(reason)
      PROVE  /\ u' = u + (IF reason = "uncallable" THEN 1 ELSE 0)
             /\ mainPc' = "idle"
  BY <1>1, <1>2, UncallableAppend DEF InitFails, LeaveInit
<1>3. ASSUME NEW objects \in SUBSET Objects
      PROVE  /\ Took(objects) \in [Objects -> Int] /\ GaveBack(objects) \in [Objects -> Int]
             /\ \A o \in Objects : /\ o \in objects => Took(objects)[o] = pins[o] + 1
                                   /\ o \notin objects => Took(objects)[o] = pins[o]
                                   /\ o \in objects => GaveBack(objects)[o] = pins[o] - 1
                                   /\ o \notin objects => GaveBack(objects)[o] = pins[o]
  BY <1>1 DEF Took, GaveBack
<1>4. /\ Functions \subseteq Objects /\ "module" \in Objects /\ "queue" \in Objects
      /\ "module" \notin Functions /\ "queue" \notin Functions
  BY DEF Objects, Functions
<1>5. u = Uncallable(failures) /\ u' = Uncallable(failures')
  OBVIOUS
<1>6. UNCHANGED failures => u' = u
  OBVIOUS
<1> HIDE DEF u
<1> USE DEF PinsInv
<1>7. CASE ImportScript
  <2>1. CASE InitFails("load") /\ UNCHANGED pins
    <3>1. u' = u /\ mainPc' = "idle"
      BY <1>1, <1>2, <2>1 DEF Reasons
    <3>2. QED
      BY <1>5, <1>7, <2>1, <3>1 DEF ImportScript, thrVars
  <2>2. CASE pins' = Took({"module"}) /\ mainPc' = "queue" /\ UNCHANGED failures
    <3>1. /\ pins'["module"] = pins["module"] + 1 /\ pins'["queue"] = pins["queue"]
          /\ \A f \in Functions : pins'[f] = pins[f]
      BY <1>3, <1>4, <2>2
    <3>2. QED
      BY <1>1, <1>5, <1>6, <1>7, <2>2, <3>1 DEF ImportScript, thrVars
  <2>3. QED
    BY <1>7, <2>1, <2>2 DEF ImportScript
<1>8. CASE LookUpQueue
  <2>1. CASE InitFails("missing") /\ pins' = GaveBack({"module"})
    <3>1. u' = u /\ mainPc' = "idle"
      BY <1>1, <1>2, <2>1 DEF Reasons
    <3>2. /\ pins'["module"] = pins["module"] - 1 /\ pins'["queue"] = pins["queue"]
          /\ \A f \in Functions : pins'[f] = pins[f]
      BY <1>3, <1>4, <2>1
    <3>3. QED
      BY <1>1, <1>5, <1>8, <3>1, <3>2 DEF LookUpQueue, thrVars
  <2>2. CASE InitFails("uncallable") /\ pins' = [GaveBack({"module"}) EXCEPT !["queue"] = @ + 1]
    <3>1. u' = u + 1 /\ mainPc' = "idle"
      BY <1>1, <1>2, <2>2 DEF Reasons
    <3>2. /\ pins'["module"] = pins["module"] - 1 /\ pins'["queue"] = pins["queue"] + 1
          /\ \A f \in Functions : pins'[f] = pins[f]
      BY <1>3, <1>4, <2>2
    <3>3. mainPc = "queue" /\ UNCHANGED <<lives, begunWith, found>>
      BY <1>8 DEF LookUpQueue, thrVars
    <3>4. /\ pins["module"] = lives + 1 /\ pins["queue"] = lives + u
          /\ \A f \in Functions : pins[f] = begunWith[f]
      BY <1>1, <1>5, <3>3
    <3>5. /\ pins'["module"] = lives /\ pins'["queue"] = lives + u'
          /\ \A f \in Functions : pins'[f] = begunWith'[f]
      BY <1>1, <3>1, <3>2, <3>3, <3>4
    <3>6. QED
      BY <1>1, <1>5, <3>1, <3>3, <3>5
  <2>3. CASE pins' = Took({"queue"}) /\ mainPc' = "functions" /\ UNCHANGED failures
    <3>1. /\ pins'["module"] = pins["module"] /\ pins'["queue"] = pins["queue"] + 1
          /\ \A f \in Functions : pins'[f] = pins[f]
      BY <1>3, <1>4, <2>3
    <3>2. QED
      BY <1>1, <1>5, <1>6, <1>8, <2>3, <3>1 DEF LookUpQueue, thrVars
  <2>4. QED
    BY <1>8, <2>1, <2>2, <2>3 DEF LookUpQueue
<1>9. CASE LookUpFunctions
  <2>1. /\ mainPc = "functions" /\ mainPc' = "call" /\ found' \subseteq Functions
        /\ pins' = Took(found') /\ UNCHANGED <<lives, begunWith, failures>>
    BY <1>9 DEF LookUpFunctions, thrVars
  <2>2. /\ pins'["module"] = pins["module"] /\ pins'["queue"] = pins["queue"]
        /\ \A f \in Functions : pins'[f] = pins[f] + (IF f \in found' THEN 1 ELSE 0)
    BY <1>1, <1>3, <1>4, <2>1
  <2>3. QED
    BY <1>1, <1>5, <1>6, <2>1, <2>2
<1>10. CASE InitRefused
  <2>1. /\ mainPc = "call" /\ u' = u /\ mainPc' = "idle"
        /\ pins' = GaveBack({"module", "queue"} \union found)
        /\ UNCHANGED <<lives, begunWith, found>>
    BY <1>1, <1>2, <1>10 DEF InitRefused, Reasons, thrVars
  <2>2. /\ pins'["module"] = pins["module"] - 1 /\ pins'["queue"] = pins["queue"] - 1
        /\ \A f \in Functions : pins'[f] = pins[f] - (IF f \in found THEN 1 ELSE 0)
    <3> DEFINE all == {"module", "queue"} \union found
    <3>1. all \in SUBSET Objects /\ "module" \in all /\ "queue" \in all
          /\ \A f \in Functions : f \in all <=> f \in found
      BY <1>1, <1>4
    <3>2. pins' = GaveBack(all)
      BY <2>1
    <3> HIDE DEF all
    <3>3. QED
      BY <1>1, <1>3, <1>4, <3>1, <3>2
  <2>3. /\ pins["module"] = lives + 1 /\ pins["queue"] = lives + u + 1
        /\ \A f \in Functions : pins[f] = begunWith[f] + (IF f \in found THEN 1 ELSE 0)
    BY <1>5, <2>1
  <2>4. /\ pins'["module"] = lives /\ pins'["queue"] = lives + u'
        /\ \A f \in Functions : pins'[f] = begunWith'[f]
    <3>1. begunWith' = begunWith /\ u' = u
      BY <2>1
    <3>2. \A f \in Functions : begunWith[f] \in Int
      BY <1>1
    <3> HIDE DEF PinsInv
    <3>3. \A f \in Functions : pins'[f] = begunWith[f]
      BY <2>2, <2>3, <3>2
    <3>4. pins'["module"] = lives /\ pins'["queue"] = lives + u
      BY <1>1, <2>2, <2>3
    <3>5. QED
      BY <3>1, <3>3, <3>4
  <2>5. mainPc' = "idle" /\ lives' = lives /\ u' \in Nat /\ begunWith' = begunWith
    BY <1>1, <2>1
  <2>6. \A f \in Functions : begunWith'[f] \in Int
    BY <1>1, <2>5
  <2>7. QED
    BY <1>1, <1>5, <2>4, <2>5, <2>6
<1>11. CASE InitSucceeds
  <2>1. /\ mainPc = "call" /\ mainPc' = "idle" /\ lives' = lives + 1
        /\ begunWith' = [f \in Functions |-> begunWith[f] + (IF f \in found THEN 1 ELSE 0)]
        /\ UNCHANGED <<pins, failures, found>>
    BY <1>11 DEF InitSucceeds, LeaveInit, StartThread, Start
  <2>2. QED
    BY <1>1, <1>5, <1>6, <2>1
<1>12. CASE UNCHANGED <<pinVars, lives>>
            /\ (mainPc' = mainPc \/ {mainPc, mainPc'} \subseteq {"idle", "import", "deinit"})
  BY <1>12 DEF pinVars
<1>13. QED
  <2>1. CASE EnsureInit \/ EnsureDeinit \/ DeinitAgrees \/ DeinitRefused
    BY <1>12, <2>1 DEF EnsureInit, EnsureDeinit, DeinitAgrees, DeinitRefused, GoDown, WorkerGoes,
                       thrVars
  <2>2. CASE UNCHANGED <<pinVars, mainPc, lives>>
    BY <1>12, <2>2 DEF pinVars
  <2>3. \/ EnsureInit \/ EnsureDeinit \/ DeinitAgrees \/ DeinitRefused
        \/ ImportScript \/ LookUpQueue \/ LookUpFunctions \/ InitRefused \/ InitSucceeds
        \/ UNCHANGED <<pinVars, mainPc, lives>>
    BY DEF Next, WorkerStep, MainStep, SourceStep, StopRequest, OtherTakesGil,
           OtherReleasesGil, EnsureGil, CallInsert, Pop, Convert, CallScript, ReleaseGil,
           FinishInsert, LeaveLoop, Post, Terminate, Wake, Reopen, Exit, PopHead, PopNothing,
           WorkerGoes, Settle, GiveVerdict, vars, thrVars, drvVars, lifeVars
  <2>4. QED
    BY <1>7, <1>8, <1>9, <1>10, <1>11, <2>1, <2>2, <2>3

-----------------------------------------------------------------------------
\* The verdicts and the references.

\* What a verdict adds to the two histories.
LEMMA HistoriesGrow ==
    ASSUME WeakTypeOK, Control, DriverTypeOK, FinishInsert, Len(answers) = Len(settled)
    PROVE  /\ Len(answers) \in Nat
           /\ DOMAIN settled = 1..Len(answers) /\ DOMAIN settled' = 1..(Len(answers) + 1)
           /\ Len(answers') = Len(answers) + 1 /\ Len(settled') = Len(answers) + 1
           /\ \A i \in 1..Len(answers) : answers'[i] = answers[i] /\ settled'[i] = settled[i]
           /\ answers'[Len(answers) + 1] = answer
           /\ settled'[Len(answers) + 1].verdict = Verdict
<1> DEFINE r == [msg |-> Head(held), verdict |-> Verdict]
<1>1. answers \in Seq(Answers) /\ answer \in Answers /\ answers' = Append(answers, answer)
  BY DEF DriverTypeOK, FinishInsert
<1>2. settled \in Seq([msg : Message, verdict : Verdicts]) /\ settled' = Append(settled, r)
  BY DEF WeakTypeOK, FinishInsert, Settle, GiveVerdict
<1>3. r \in [msg : Message, verdict : Verdicts]
  <2>1. Head(held) \in Message
    BY HeldFacts DEF FinishInsert, Settle, GiveVerdict
  <2>2. QED
    BY <2>1 DEF Verdict, Verdicts
<1>4. r.verdict = Verdict
  OBVIOUS
<1> HIDE DEF r
<1>5. /\ Len(answers) \in Nat /\ Len(answers') = Len(answers) + 1
      /\ \A i \in 1..Len(answers) : answers'[i] = answers[i]
      /\ answers'[Len(answers) + 1] = answer
  BY <1>1, AppendProperties, LenProperties
<1>6. /\ DOMAIN settled = 1..Len(settled)
      /\ DOMAIN settled' = 1..(Len(settled) + 1) /\ Len(settled') = Len(settled) + 1
      /\ \A i \in 1..Len(settled) : settled'[i] = settled[i]
      /\ settled'[Len(settled) + 1] = r
  BY <1>2, <1>3, AppendProperties, LenProperties
<1>7. QED
  BY <1>4, <1>5, <1>6

\* After the call, the two locals of the insert say what became of the message.
TakenInv ==
    /\ pc = "call" => vpOk
    /\ pc \in {"release", "verdict"} => (success /\ vpOk <=> answer \in {"None", "True"})
    /\ StoredIffTaken

LEMMA TakenStep ==
    ASSUME WeakTypeOK, Control, DriverTypeOK, TakenInv, [Next]_vars
    PROVE  TakenInv'
<1> USE DEF TakenInv
<1>1. CASE FinishInsert
  <2> DEFINE n == Len(answers)
  <2>1. /\ n \in Nat
        /\ DOMAIN settled = 1..n /\ DOMAIN settled' = 1..(n + 1)
        /\ Len(answers') = n + 1 /\ Len(settled') = n + 1
        /\ \A i \in 1..n : answers'[i] = answers[i] /\ settled'[i] = settled[i]
        /\ answers'[n + 1] = answer
        /\ settled'[n + 1].verdict = Verdict
    BY <1>1, HistoriesGrow DEF StoredIffTaken
  <2>2. pc = "verdict" /\ pc' = "idle"
    BY <1>1 DEF FinishInsert
  <2> HIDE DEF n
  <2>3. Verdict = "stored" <=> answer \in {"None", "True"}
    BY <2>2 DEF Verdict
  <2>4. StoredIffTaken'
    BY <2>1, <2>3 DEF StoredIffTaken
  <2>5. QED
    BY <2>2, <2>4
<1>2. CASE CallScript
  BY <1>2 DEF CallScript, ScriptAnswers, AsBool, StoredIffTaken, thrVars
<1>3. CASE Convert
  <2>1. UNCHANGED <<answers, settled>>
    BY <1>3 DEF Convert, thrVars
  <2>2. \/ pc' = "call" /\ vpOk'
        \/ pc' = "release" /\ ~vpOk' /\ answer' = "unconvertible"
    BY <1>3 DEF Convert
  <2>3. QED
    BY <2>1, <2>2 DEF StoredIffTaken
<1>4. CASE UNCHANGED <<answers, settled>> /\ pc' \in {"idle", "pop", "ensure", "convert"}
  BY <1>4 DEF StoredIffTaken
<1>5. CASE UNCHANGED <<answers, settled, answer, success, vpOk>>
           /\ (pc' = pc \/ (pc = "release" /\ pc' = "verdict"))
  BY <1>5 DEF StoredIffTaken
<1>6. QED
  <2>1. ASSUME NEW s \in Sources, SourceStep(s)
        PROVE  UNCHANGED <<answers, settled, answer, success, vpOk, pc>>
    BY <2>1 DEF SourceStep, Post, drvVars, evalVars
  <2>2. CASE StopRequest \/ LeaveLoop
    BY <1>5, <2>2 DEF StopRequest, LeaveLoop, Terminate, Exit, WorkerGoes, drvVars, evalVars
  <2>3. CASE OtherTakesGil \/ OtherReleasesGil \/ MainStep
    BY <1>5, <2>3 DEF OtherTakesGil, OtherReleasesGil, MainStep, EnsureInit, EnsureDeinit, ImportScript,
                      LookUpQueue, LookUpFunctions, InitRefused, InitSucceeds, StartThread, Start, DeinitAgrees, DeinitRefused, GoDown,
                      WorkerGoes, thrVars, evalVars
  <2>4. CASE CallInsert \/ EnsureGil
    BY <1>4, <2>4 DEF CallInsert, Wake, Reopen, WorkerGoes, EnsureGil, thrVars
  <2>5. CASE Pop
    BY <1>4, <2>5 DEF Pop, PopHead, PopNothing, WorkerGoes
  <2>6. CASE ReleaseGil
    BY <1>5, <2>6 DEF ReleaseGil, thrVars
  <2>7. CASE UNCHANGED vars
    BY <1>5, <2>7 DEF vars, thrVars, drvVars, evalVars
  <2>8. QED
    BY <1>1, <1>2, <1>3, <1>5, <2>1, <2>2, <2>3, <2>4, <2>5, <2>6, <2>7 DEF Next, WorkerStep

\* The references to True that are left are those the answers have not cost; the
\* process dies of the last.
RefsInv ==
    /\ refs["True"] = BoolRefs
                         - Cardinality({i \in DOMAIN answers : answers[i] = "True"})
                         - (IF pc \in {"release", "verdict"} /\ answer = "True" THEN 1 ELSE 0)
    /\ alive => refs["True"] > 0

LEMMA RefsStep ==
    ASSUME Control, DriverTypeOK, RefsInv, [Next]_vars
    PROVE  RefsInv'
<1> DEFINE n == Cardinality({i \in DOMAIN answers : answers[i] = "True"})
<1>0. answers \in Seq(Answers) /\ answer \in Answers
  BY DEF DriverTypeOK
<1>1. n \in Nat
  <2> DEFINE kind == {"True"}
  <2>1. {i \in DOMAIN answers : answers[i] = "True"} = {i \in DOMAIN answers : answers[i] \in kind}
    OBVIOUS
  <2> HIDE DEF kind
  <2>2. Cardinality({i \in DOMAIN answers : answers[i] \in kind}) \in Nat
    BY <1>0, CountType
  <2>3. QED
    BY <2>1, <2>2
<1>2. CASE FinishInsert
  <2> DEFINE kind == {"True"}
  <2>1. /\ answers' = Append(answers, answer) /\ pc = "verdict" /\ pc' = "idle"
        /\ UNCHANGED <<refs, alive>>
    BY <1>2 DEF FinishInsert
  <2>2. /\ {i \in DOMAIN answers : answers[i] = "True"}
               = {i \in DOMAIN answers : answers[i] \in kind}
        /\ {i \in DOMAIN answers' : answers'[i] = "True"}
               = {i \in DOMAIN Append(answers, answer) : Append(answers, answer)[i] \in kind}
    BY <2>1
  <2>3. answer \in kind <=> answer = "True"
    OBVIOUS
  <2> HIDE DEF kind
  <2>4. Cardinality({i \in DOMAIN Append(answers, answer) : Append(answers, answer)[i] \in kind})
           = Cardinality({i \in DOMAIN answers : answers[i] \in kind})
                + (IF answer \in kind THEN 1 ELSE 0)
    BY <1>0, CountAppend
  <2>5. n' = n + (IF answer = "True" THEN 1 ELSE 0)
    BY <2>2, <2>3, <2>4
  <2> HIDE DEF n
  <2>6. refs["True"] = BoolRefs - n - (IF answer = "True" THEN 1 ELSE 0)
    BY <2>1 DEF RefsInv, n
  <2>7. refs'["True"] = BoolRefs - n' - 0
    BY <1>1, <2>1, <2>5, <2>6, BoolRefsAssumption
  <2>8. QED
    BY <2>1, <2>7 DEF RefsInv, n
<1>3. CASE CallScript
  <2>1. PICK a \in ScriptAnswers :
           answer' = a /\ refs' = Released(a) /\ alive' \in Survives(a)
    BY <1>3 DEF CallScript
  <2>2. pc = "call" /\ pc' = "release" /\ answers' = answers /\ alive
    BY <1>3 DEF CallScript, Next, vars, drvVars, evalVars
  <2>3. refs'["True"] = refs["True"] - (IF a = "True" THEN 1 ELSE 0)
    BY <2>1 DEF Released
  <2>4. alive' => refs'["True"] > 0
    <3>1. CASE a = "object"
      BY <2>2, <2>3, <3>1 DEF RefsInv, DriverTypeOK
    <3>2. CASE a # "object"
      <4>1. alive' => \A b \in {"True", "False"} : Released(a)[b] > 0
        BY <2>1, <3>2 DEF Survives
      <4>2. QED
        BY <2>1, <4>1
    <3>3. QED
      BY <3>1, <3>2
  <2> HIDE DEF n
  <2>5. refs["True"] = BoolRefs - n - 0
    BY <2>2 DEF RefsInv, n
  <2>6. refs'["True"] = BoolRefs - n - (IF a = "True" THEN 1 ELSE 0)
    BY <1>1, <2>3, <2>5, BoolRefsAssumption
  <2>7. QED
    BY <2>1, <2>2, <2>4, <2>6 DEF RefsInv, n
<1>4. CASE UNCHANGED <<answers, refs, alive>> /\ pc \notin {"release", "verdict"}
           /\ (pc' \in {"release", "verdict"} => answer' # "True")
  BY <1>4 DEF RefsInv
<1>5. CASE UNCHANGED <<answers, refs, alive, answer>>
           /\ (pc' = pc \/ (pc = "release" /\ pc' = "verdict"))
  BY <1>5 DEF RefsInv
<1>6. QED
  <2>1. CASE Convert
    BY <1>4, <2>1 DEF Convert
  <2>2. CASE CallInsert
    BY <1>4, <2>2 DEF CallInsert, Wake, Reopen, WorkerGoes, Control
  <2>3. CASE Pop \/ EnsureGil
    BY <1>4, <2>3 DEF Pop, EnsureGil
  <2>4. CASE ReleaseGil
    BY <1>5, <2>4 DEF ReleaseGil
  <2>5. CASE UNCHANGED <<answers, refs, alive, answer, pc>>
    BY <1>5, <2>5
  <2>6. \/ FinishInsert \/ CallScript \/ Convert \/ CallInsert \/ Pop \/ EnsureGil \/ ReleaseGil
        \/ UNCHANGED <<answers, refs, alive, answer, pc>>
    BY DEF Next, WorkerStep, MainStep, SourceStep, StopRequest, OtherTakesGil,
           OtherReleasesGil, EnsureInit, EnsureDeinit, ImportScript, LookUpQueue,
           LookUpFunctions, InitRefused, InitSucceeds, DeinitAgrees,
           DeinitRefused, LeaveLoop, vars, drvVars, evalVars
  <2>7. QED
    BY <1>2, <1>3, <2>1, <2>2, <2>3, <2>4, <2>5, <2>6

-----------------------------------------------------------------------------
\* What a deinit that refuses strands.

\* The messages stranded were posted and are in the ledger no more; every other
\* is.  The frame's accounts hold, since stranding leaves windows and verdicts
\* alone.
StrandedInv ==
    /\ stranded \subseteq Posted
    /\ \A i \in DOMAIN Ledger : Ledger[i] \notin stranded
    /\ \A m \in Posted : m \in stranded \/ \E i \in DOMAIN Ledger : Ledger[i] = m
    /\ OnceAndInOrder
    /\ Accounts

\* What is stranded are the places of the ledger behind the settled messages.
LEMMA LedgerLosesQueue ==
    ASSUME WeakTypeOK, Control, DeinitRefused
    PROVE  /\ stranded' = stranded \union Range(queue) /\ Posted' = Posted
           /\ \A i \in DOMAIN Ledger' : i \in DOMAIN Ledger /\ Ledger'[i] = Ledger[i]
           /\ DOMAIN Ledger' \subseteq Nat /\ DOMAIN Ledger \subseteq Nat
           /\ \A i \in DOMAIN Ledger : i \notin DOMAIN Ledger' => Ledger[i] \in Range(queue)
           /\ \A m \in Range(queue) :
                 \E k \in DOMAIN Ledger : Ledger[k] = m /\ \A i \in DOMAIN Ledger' : i < k
<1> DEFINE n == Len(SettledMessages)
           q == Len(queue)
<1>1. held = <<>> /\ held' = <<>> /\ queue' = <<>> /\ SettledMessages' = SettledMessages
  BY DEF DeinitRefused, Control, SettledMessages
<1>2. /\ SettledMessages \in Seq(Message) /\ queue \in Seq(Message)
      /\ n \in Nat /\ q \in Nat /\ DOMAIN queue = 1..q
  BY LedgerType, LenProperties DEF WeakTypeOK
<1>3. SettledMessages \o <<>> = SettledMessages
  BY <1>2, ConcatEmptySeq
<1>4. Ledger' = SettledMessages
  BY <1>1, <1>3 DEF Ledger
<1>5. Ledger = SettledMessages \o queue
  BY <1>1, <1>3 DEF Ledger
<1>6. /\ DOMAIN Ledger = 1..(n + q) /\ DOMAIN Ledger' = 1..n
      /\ \A i \in 1..n : Ledger[i] = Ledger'[i]
      /\ \A i \in 1..(n + q) : i > n => Ledger[i] = queue[i - n]
  <2>1. /\ SettledMessages \o queue \in Seq(Message)
        /\ Len(SettledMessages \o queue) = n + q
        /\ \A i \in 1..(n + q) :
              (SettledMessages \o queue)[i] = IF i <= n THEN SettledMessages[i] ELSE queue[i - n]
    BY <1>2, ConcatProperties
  <2>2. DOMAIN Ledger = 1..(n + q) /\ DOMAIN Ledger' = 1..n
    BY <1>2, <1>4, <1>5, <2>1, LenProperties
  <2> HIDE DEF n, q
  <2>3. QED
    BY <1>2, <1>4, <1>5, <2>1, <2>2
<1> HIDE DEF n, q
<1>7. \A i \in DOMAIN Ledger : i \notin DOMAIN Ledger' => Ledger[i] \in Range(queue)
  <2> SUFFICES ASSUME NEW i \in 1..(n + q), i \notin 1..n PROVE Ledger[i] \in Range(queue)
    BY <1>6
  <2>1. i > n /\ i - n \in 1..q
    BY <1>2
  <2>2. QED
    BY <1>2, <1>6, <2>1 DEF Range
<1>8. ASSUME NEW m \in Range(queue)
      PROVE  \E k \in DOMAIN Ledger : Ledger[k] = m /\ \A i \in DOMAIN Ledger' : i < k
  <2>1. PICK j \in 1..q : queue[j] = m
    BY <1>2, <1>8 DEF Range
  <2>2. n + j \in 1..(n + q) /\ n + j > n /\ (n + j) - n = j
    BY <1>2, <2>1
  <2>3. Ledger[n + j] = m
    BY <1>6, <2>1, <2>2
  <2>4. \A i \in 1..n : i < n + j
    BY <1>2, <2>1
  <2>5. QED
    BY <1>6, <2>2, <2>3, <2>4
<1>9. QED
  <2>1. Posted' = Posted /\ stranded' = stranded \union Range(queue)
    BY DEF DeinitRefused, Posted
  <2>2. \A i \in DOMAIN Ledger' : i \in DOMAIN Ledger /\ Ledger'[i] = Ledger[i]
    BY <1>2, <1>6
  <2>3. DOMAIN Ledger' \subseteq Nat /\ DOMAIN Ledger \subseteq Nat
    BY <1>2, <1>6
  <2>4. QED
    BY <1>7, <1>8, <2>1, <2>2, <2>3

LEMMA StrandedStep ==
    ASSUME WeakTypeOK, Control, success \in BOOLEAN, StrandedInv, [Next]_vars
    PROVE  StrandedInv'
<1> USE DEF StrandedInv
<1>1. CASE DeinitRefused
  <2>1. Accounts'
    BY <1>1 DEF DeinitRefused, Accounts, WindowConserved, CountersAddUp, HeldInInsert, SettledOf,
                Control
  <2>2. OnceAndInOrder'
    BY <1>1, LedgerLosesQueue DEF OnceAndInOrder
  <2>3. stranded' \subseteq Posted'
    BY <1>1, LedgerLosesQueue DEF OnceAndInOrder
  <2>4. \A m \in Posted' : m \in stranded' \/ \E i \in DOMAIN Ledger' : Ledger'[i] = m
    BY <1>1, LedgerLosesQueue
  <2>5. ASSUME NEW i \in DOMAIN Ledger', Ledger'[i] \in stranded' PROVE FALSE
    <3>1. i \in DOMAIN Ledger /\ Ledger'[i] = Ledger[i]
      BY <1>1, LedgerLosesQueue
    <3>2. Ledger[i] \in Range(queue)
      BY <1>1, <2>5, <3>1, LedgerLosesQueue
    <3>3. PICK k \in DOMAIN Ledger : Ledger[k] = Ledger[i] /\ i < k
      BY <1>1, <3>2, LedgerLosesQueue
    <3>4. Ledger[i][2] < Ledger[i][2]
      BY <3>1, <3>3 DEF OnceAndInOrder
    <3>5. Ledger[i][2] \in Nat
      BY <3>1 DEF OnceAndInOrder, Posted, Message
    <3>6. QED
      BY <3>4, <3>5
  <2>6. QED
    BY <2>1, <2>2, <2>3, <2>4, <2>5
<1>2. CASE [ThrNext]_thrVars /\ stranded' = stranded
  <2>1. OnceAndInOrder' /\ Accounts'
    BY <1>2, LedgerInvariantStep, AccountsStep
  <2>2. CASE Ledger' = Ledger /\ posted' = posted
    BY <1>2, <2>1, <2>2 DEF Posted
  <2>3. ASSUME NEW s \in Sources, Arrival(s) PROVE StrandedInv'
    <3> DEFINE m == <<s, posted[s] + 1>>
               n == Len(Ledger)
    <3>1. /\ DOMAIN Ledger = 1..n /\ n \in Nat /\ DOMAIN Ledger' = 1..(n + 1)
          /\ \A i \in 1..n : Ledger'[i] = Ledger[i]
          /\ Ledger'[n + 1] = m
          /\ Posted' = Posted \union {m}
      BY <2>3, ArrivalFacts
    <3>2. m \notin Posted
      <4>1. posted[s] \in Nat /\ m[1] = s /\ m[2] = posted[s] + 1
        BY <2>3, ArrivalFacts
      <4>2. QED
        BY <4>1 DEF Posted
    <3> HIDE DEF m, n
    <3>3. \A i \in DOMAIN Ledger' : Ledger'[i] \notin stranded'
      BY <1>2, <3>1, <3>2
    <3>4. \A x \in Posted' : x \in stranded' \/ \E i \in DOMAIN Ledger' : Ledger'[i] = x
      BY <1>2, <3>1
    <3>5. QED
      BY <1>2, <2>1, <3>1, <3>3, <3>4
  <2>4. QED
    BY <1>2, <2>2, <2>3, LedgerStep
<1>3. DeinitRefused \/ stranded' = stranded
  BY DEF Next, WorkerStep, MainStep, SourceStep, StopRequest, OtherTakesGil,
         OtherReleasesGil, EnsureInit, EnsureDeinit, ImportScript, LookUpQueue,
           LookUpFunctions, InitRefused, InitSucceeds, DeinitAgrees,
         EnsureGil, CallInsert, Pop, Convert, CallScript, ReleaseGil, FinishInsert, LeaveLoop,
         vars, drvVars, lifeVars
<1>4. QED
  BY <1>1, <1>2, <1>3, DriverStep

\* The settled and the stranded messages of a source have numbers of their own,
\* and all of them were posted.
LEMMA SettledAndStranded ==
    ASSUME WeakTypeOK, StrandedInv, NEW s \in Sources
    PROVE  /\ Cardinality({m \in stranded : m[1] = s}) \in Nat
           /\ Cardinality(SettledOf(s)) + Cardinality({m \in stranded : m[1] = s}) <= posted[s]
<1> DEFINE X == {m \in stranded : m[1] = s}
           S == SettledOf(s)
           A == {settled[i].msg[2] : i \in S}
           B == {m[2] : m \in X}
           f == [i \in S |-> settled[i].msg[2]]
           g == [m \in X |-> m[2]]
<1>1. posted[s] \in Nat /\ IsFiniteSet(S) /\ Cardinality(S) \in Nat
  BY SettledFinite DEF WeakTypeOK
<1>2. /\ \A i \in S : /\ i \in DOMAIN Ledger /\ Ledger[i] = settled[i].msg
                       /\ settled[i].msg[2] \in 1..posted[s]
      /\ \A i, j \in S : i # j => settled[i].msg[2] # settled[j].msg[2]
  BY SettledNumbers DEF StrandedInv
<1>3. \A m \in X : m \in Posted /\ m = <<s, m[2]>> /\ m[2] \in 1..posted[s]
  BY DEF StrandedInv, Posted, Message
<1>4. IsFiniteSet(1..posted[s]) /\ Cardinality(1..posted[s]) = posted[s]
  BY <1>1, CountNumbers
<1>5. A \subseteq 1..posted[s] /\ B \subseteq 1..posted[s]
  BY <1>2, <1>3
<1>6. A \intersect B = {}
  <2> SUFFICES ASSUME NEW i \in S, NEW m \in X, settled[i].msg[2] = m[2] PROVE FALSE
    OBVIOUS
  <2>1. settled[i].msg = Ledger[i] /\ i \in DOMAIN Ledger /\ settled[i].msg[1] = s
    BY <1>2 DEF SettledOf
  <2>2. Ledger[i] = <<s, Ledger[i][2]>>
    BY <2>1 DEF StrandedInv, OnceAndInOrder, Posted, Message
  <2>3. Ledger[i] = m
    BY <1>3, <2>1, <2>2
  <2>4. QED
    BY <2>1, <2>3 DEF StrandedInv
<1>7. Cardinality(A) = Cardinality(S)
  <2>1. f \in Surjection(S, A)
    BY Zenon DEF Surjection
  <2>2. \A i, j \in S : i # j => f[i] # f[j]
    BY <1>2
  <2>3. f \in Injection(S, A)
    BY <2>2, Zenon DEF Injection, IsInjective
  <2>4. QED
    BY <1>1, <2>1, <2>3, FS_Surjection
<1>8. IsFiniteSet(X)
  <2>1. \A x, y \in X : x # y => g[x] # g[y]
    BY <1>3
  <2>2. \A x \in X : g[x] \in 1..posted[s]
    BY <1>3
  <2>3. g \in Injection(X, 1..posted[s])
    BY <2>1, <2>2, Zenon DEF Injection, IsInjective
  <2>4. QED
    BY <1>4, <2>3, FS_Injection
<1>9. Cardinality(B) = Cardinality(X)
  <2>1. g \in Surjection(X, B)
    BY Zenon DEF Surjection
  <2>2. \A x, y \in X : x # y => g[x] # g[y]
    BY <1>3
  <2>3. g \in Injection(X, B)
    BY <2>2, Zenon DEF Injection, IsInjective
  <2>4. QED
    BY <1>8, <2>1, <2>3, FS_Surjection
<1> HIDE DEF A, B, S, X
<1>10. IsFiniteSet(A) /\ IsFiniteSet(B) /\ Cardinality(X) \in Nat
  BY <1>4, <1>5, <1>8, FS_Subset, FS_CardinalityType
<1>11. Cardinality(A \union B) = Cardinality(A) + Cardinality(B)
  <2>1. Cardinality(A \union B) = Cardinality(A) + Cardinality(B) - Cardinality(A \intersect B)
    BY <1>10, FS_Union
  <2>2. Cardinality(A) \in Nat /\ Cardinality(B) \in Nat
    BY <1>10, FS_CardinalityType
  <2>3. QED
    BY <1>6, <2>1, <2>2, FS_EmptySet
<1>12. Cardinality(A \union B) <= posted[s]
  <2>1. A \union B \in SUBSET (1..posted[s])
    BY <1>5
  <2>2. QED
    BY <1>4, <2>1, FS_Subset
<1>13. QED
  BY <1>7, <1>9, <1>10, <1>11, <1>12 DEF S, X

-----------------------------------------------------------------------------
\* The inductive invariant and what follows from it.

PythonInv ==
    /\ WeakTypeOK /\ DriverTypeOK /\ Control
    /\ GilPaired /\ PinsInv
    /\ TakenInv /\ RefsInv /\ StrandedInv

LEMMA PythonInvInit == Init => PythonInv
<1> SUFFICES ASSUME Init PROVE PythonInv
  OBVIOUS
<1>1. WeakTypeOK
  BY WeakTypeInit DEF Init
<1>2. Control /\ GilPaired
  BY DEF Init, ThrInit, Control, GilPaired
<1>3. answers = <<>> /\ settled = <<>> /\ failures = <<>>
  BY DEF Init, ThrInit
<1>4. DOMAIN answers = {} /\ DOMAIN failures = {} /\ DOMAIN settled = {} /\ Len(answers) = Len(settled)
  BY <1>3
<1>5. PinsInv
  <2>1. Uncallable(failures) = 0
    <3>1. {i \in DOMAIN failures : failures[i] = "uncallable"} = {}
      BY <1>4
    <3>2. QED
      BY <3>1, FS_EmptySet DEF Uncallable
  <2>2. QED
    BY <2>1 DEF PinsInv, Objects, Functions, Init, ThrInit
<1>6. TakenInv
  BY <1>4 DEF TakenInv, StoredIffTaken, Init
<1>7. RefsInv
  <2>1. Cardinality({i \in DOMAIN answers : answers[i] = "True"}) = 0
    <3>1. {i \in DOMAIN answers : answers[i] = "True"} = {}
      BY <1>4
    <3>2. QED
      BY <3>1, FS_EmptySet
  <2>2. refs["True"] = BoolRefs /\ pc = "idle"
    BY DEF Init
  <2>3. QED
    BY <2>1, <2>2, BoolRefsAssumption DEF RefsInv
<1>8. StrandedInv
  <2>1. OnceAndInOrder /\ Accounts
    BY LedgerInit, AccountsInit DEF Init
  <2>2. Posted = {}
    BY DEF Posted, Message, Init, ThrInit
  <2>3. QED
    BY <2>1, <2>2 DEF StrandedInv, Init
<1>9. QED
  BY <1>1, <1>2, <1>5, <1>6, <1>7, <1>8, DriverTypeInit DEF PythonInv

\* The invariant is inductive.
THEOREM PythonInvariant == Spec => []PythonInv
<1>1. PythonInv /\ [Next]_vars => PythonInv'
  <2> SUFFICES ASSUME PythonInv, [Next]_vars PROVE PythonInv'
    OBVIOUS
  <2>1. /\ WeakTypeOK /\ DriverTypeOK /\ Control /\ GilPaired /\ PinsInv
        /\ TakenInv /\ RefsInv /\ StrandedInv /\ success \in BOOLEAN
    BY DEF PythonInv, DriverTypeOK
  <2>2. WeakTypeOK' /\ DriverTypeOK' /\ Control' /\ GilPaired'
    BY <2>1, WeakTypeKept, DriverTypeStep, ControlStep, GilStep
  <2>3. PinsInv' /\ TakenInv' /\ RefsInv' /\ StrandedInv'
    BY <2>1, PinsStep, TakenStep, RefsStep, StrandedStep
  <2>4. QED
    BY <2>2, <2>3 DEF PythonInv
<1>2. QED
  BY <1>1, PythonInvInit, PTL DEF Spec

\* The interpreter lock is taken and given back in pairs, on every path of the
\* insert, the init and the deinit.
THEOREM GilIsPaired == Spec => []GilPaired
BY PythonInvariant, PTL DEF PythonInv

\* A message is counted as stored exactly when the script took it.
THEOREM StoredIfAndOnlyIfTaken == Spec => []StoredIffTaken
BY PythonInvariant, PTL DEF PythonInv, TakenInv

\* A process that lives has seen fewer answers True than there were references
\* to it: each costs one.
THEOREM TrueAnswersWearOut == Spec => []TrueWearsOut
<1>1. PythonInv => TrueWearsOut
  <2> SUFFICES ASSUME PythonInv, alive
               PROVE  Cardinality({i \in DOMAIN answers : answers[i] = "True"}) < BoolRefs
    BY DEF TrueWearsOut
  <2> DEFINE n == Cardinality({i \in DOMAIN answers : answers[i] = "True"})
             kind == {"True"}
  <2>1. n \in Nat
    <3>0. answers \in Seq(Answers)
      BY DEF PythonInv, DriverTypeOK
    <3>1. {i \in DOMAIN answers : answers[i] = "True"} = {i \in DOMAIN answers : answers[i] \in kind}
      OBVIOUS
    <3> HIDE DEF kind
    <3>2. Cardinality({i \in DOMAIN answers : answers[i] \in kind}) \in Nat
      BY <3>0, CountType
    <3>3. QED
      BY <3>1, <3>2
  <2>2. \E k \in {0, 1} : refs["True"] = BoolRefs - n - k
    BY DEF PythonInv, RefsInv
  <2>3. refs["True"] > 0
    BY DEF PythonInv, RefsInv
  <2> HIDE DEF n
  <2>4. n < BoolRefs
    BY <2>1, <2>2, <2>3, BoolRefsAssumption
  <2>5. QED
    BY <2>4 DEF n
<1>2. QED
  BY <1>1, PythonInvariant, PTL

\* Whatever way the inits that failed have left, outside an init the references
\* never given back are those of the lives and of the queue functions that could
\* not be called.
THEOREM LivesPin == Spec => []LivesPinTheScript
<1>1. PythonInv => LivesPinTheScript
  <2> SUFFICES ASSUME PythonInv, mainPc \in {"idle", "deinit"}
               PROVE  /\ pins["module"] = lives
                      /\ pins["queue"] = lives + Uncallable(failures)
                      /\ \A f \in Functions : pins[f] = begunWith[f]
    BY DEF LivesPinTheScript, Uncallable
  <2>1. PinsInv /\ begunWith \in [Functions -> Int] /\ lives \in Nat
    BY DEF PythonInv, WeakTypeOK, DriverTypeOK
  <2>2. Uncallable(failures) \in Nat
    BY UncallableType DEF PythonInv, DriverTypeOK
  <2>3. QED
    BY <2>1, <2>2 DEF PinsInv
<1>2. QED
  BY <1>1, PythonInvariant, PTL

\* A reload loses no message but those that wait when a deinit function refuses,
\* and the windows of their sources are smaller by them for good.
THEOREM OnlyRefusalsStrand == Spec => []ReloadKeepsMessages
<1>1. PythonInv => ReloadKeepsMessages
  <2> SUFFICES ASSUME PythonInv PROVE ReloadKeepsMessages
    OBVIOUS
  <2>1. WeakTypeOK /\ StrandedInv /\ WindowConserved
    BY DEF PythonInv, StrandedInv, Accounts
  <2>2. ASSUME NEW s \in Sources
        PROVE  credit[s] <= Window - Cardinality({m \in stranded : m[1] = s})
    <3> DEFINE x == Cardinality({m \in stranded : m[1] = s})
               n == Cardinality(SettledOf(s))
    <3>1. /\ credit[s] \in Nat /\ posted[s] \in Nat /\ n \in Nat
          /\ credit[s] + posted[s] = Window + n
      BY <2>1, SettledFinite DEF WeakTypeOK, WindowConserved
    <3>2. x \in Nat /\ n + x <= posted[s]
      BY <2>1, SettledAndStranded
    <3> HIDE DEF x, n
    <3>3. credit[s] <= Window - x
      BY <3>1, <3>2, WindowAssumption
    <3>4. QED
      BY <3>3 DEF x
  <2>3. QED
    BY <2>1, <2>2 DEF ReloadKeepsMessages, StrandedInv
<1>2. QED
  BY <1>1, PythonInvariant, PTL
=============================================================================
