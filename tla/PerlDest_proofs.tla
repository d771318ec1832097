---------------------------- MODULE PerlDest_proofs ----------------------------
(***************************************************************************)
(* Proofs about the Perl destination, for any sources, window, number of   *)
(* messages and of lives, and either on-error().                           *)
(***************************************************************************)
EXTENDS PerlDest, LogThrDest_proofs

LEMMA VerdictFacts == Verdict \in Verdicts /\ (success \in BOOLEAN /\ Settle(Verdict, success) => ThrNext)
<1>1. Verdict \in Verdicts
  BY DEF Verdict, Verdicts
<1>2. QED
  BY <1>1 DEF ThrNext

\* The steps that leave the frame alone, those it takes by itself and those in
\* which it is told the verdict.
LEMMA DriverStep == success \in BOOLEAN /\ [Next]_vars => [ThrNext]_thrVars
<1> SUFFICES ASSUME success \in BOOLEAN, [Next]_vars PROVE [ThrNext]_thrVars
  OBVIOUS
<1>1. ASSUME NEW s \in Sources, SourceStep(s) PROVE ThrNext
  BY <1>1 DEF SourceStep, ThrNext
<1>2. CASE ThreadInit \/ StopRequest \/ DriverDeinit
  BY <1>2 DEF ThreadInit, StopRequest, DriverDeinit, ThrNext
<1>3. CASE CallInsert \/ LeaveLoop
  BY <1>3 DEF CallInsert, LeaveLoop, ThrNext
<1>4. CASE Pop
  BY <1>4 DEF Pop, ThrNext
<1>5. CASE FinishInsert
  BY <1>5, VerdictFacts DEF FinishInsert
<1>6. CASE Convert \/ CallScript
  BY <1>6 DEF Convert, CallScript
<1>7. CASE UNCHANGED vars
  BY <1>7 DEF vars
<1>8. QED
  BY <1>1, <1>2, <1>3, <1>4, <1>5, <1>6, <1>7 DEF Next, WorkerStep

-----------------------------------------------------------------------------
\* Types and control.

\* What the insert function returns is a truth value, even when it was read from
\* in front of the stack.
SuccessType == success \in BOOLEAN

LEMMA SuccessTypeStep == SuccessType /\ [Next]_vars => SuccessType'
<1> SUFFICES ASSUME SuccessType, [Next]_vars PROVE SuccessType'
  OBVIOUS
<1>1. CASE CallScript
  BY <1>1 DEF CallScript, ReadAsInt, SuccessType
<1>2. CASE Pop
  BY <1>2 DEF Pop, SuccessType
<1>3. CASE UNCHANGED success
  BY <1>3 DEF SuccessType
<1>4. CallScript \/ Pop \/ UNCHANGED success
  BY DEF Next, WorkerStep, SourceStep, StopRequest, DriverDeinit, ThreadInit, CallInsert,
         Convert, FinishInsert, LeaveLoop, vars, drvVars, evalVars
<1>5. QED
  BY <1>1, <1>2, <1>3, <1>4

\* The driver keeps the contract of the frame.
THEOREM PerlKeepsContract == Spec => ThrSpec
<1>1. Init => ThrInit /\ SuccessType
  BY DEF Init, SuccessType
<1>2. SuccessType /\ [Next]_vars => [ThrNext]_thrVars
  BY DriverStep DEF SuccessType
<1>3. QED
  BY <1>1, <1>2, SuccessTypeStep, PTL DEF Spec, ThrSpec

\* Hence each message posted to the driver gets exactly one verdict, in order,
\* however often the script dies, as long as the process lives.
THEOREM PerlKeepsPromise == Spec => PromiseSpec
BY PerlKeepsContract, ThrImplementsPromise, PTL

\* Where the worker is in the insert function, what the frame knows of it, and
\* that a driver which is up has begun a life.
Control ==
    /\ pc \in {"idle", "pop", "convert", "call", "verdict"}
    /\ pc = "idle" <=> worker # "insert"
    /\ held # <<>> <=> pc \in {"convert", "call", "verdict"}
    /\ worker # "down" => lives >= 1

LEMMA ControlStep == WeakTypeOK /\ Control /\ [Next]_vars => Control'
<1> SUFFICES ASSUME WeakTypeOK, Control, [Next]_vars PROVE Control'
  OBVIOUS
<1> USE DEF Control
<1>1. ASSUME NEW s \in Sources, SourceStep(s) PROVE Control'
  BY <1>1 DEF SourceStep, Post, drvVars, evalVars
<1>2. CASE ThreadInit
  <2>1. lives' >= 1
    BY <1>2 DEF ThreadInit, Start, WeakTypeOK
  <2>2. QED
    BY <1>2, <2>1 DEF ThreadInit, Start, evalVars
<1>3. CASE StopRequest \/ DriverDeinit
  BY <1>3 DEF StopRequest, DriverDeinit, Terminate, GoDown, WorkerGoes, drvVars, evalVars
<1>4. CASE CallInsert
  BY <1>4 DEF CallInsert, Wake, Reopen, WorkerGoes
<1>5. CASE LeaveLoop
  BY <1>5 DEF LeaveLoop, Exit, WorkerGoes, evalVars
<1>6. CASE Pop
  <2>1. CASE PopHead /\ pc' = "convert"
    <3>1. held' = <<Head(queue)>> /\ <<Head(queue)>> # <<>>
      BY <2>1 DEF PopHead
    <3>2. QED
      BY <2>1, <3>1 DEF PopHead
  <2>2. CASE PopNothing /\ pc' = "idle"
    BY <2>2 DEF PopNothing, WorkerGoes
  <2>3. QED
    BY <1>6, <2>1, <2>2 DEF Pop
<1>7. CASE Convert \/ CallScript
  BY <1>7 DEF Convert, CallScript, thrVars
<1>8. CASE FinishInsert
  BY <1>8 DEF FinishInsert, Settle, GiveVerdict
<1>9. CASE UNCHANGED vars
  BY <1>9 DEF vars, thrVars, drvVars, evalVars
<1>10. QED
  BY <1>1, <1>2, <1>3, <1>4, <1>5, <1>6, <1>7, <1>8, <1>9 DEF Next, WorkerStep

LEMMA ControlInit == Init => Control
BY DEF Init, ThrInit, Control

\* What an insert notes when it is through with a message.
Entries == [says : Answers, life : 1..MaxLives]
Entry == [says |-> answer, life |-> lives]

DriverTypeOK ==
    /\ SuccessType
    /\ vpOk \in BOOLEAN /\ alive \in BOOLEAN
    /\ sp \in Int
    /\ context \in {<<>>} \union {<<m>> : m \in Message}
    /\ answer \in Answers
    /\ answers \in Seq([says : Answers, life : 1..MaxLives])
    /\ interpreters \in Int /\ interpreters <= lives
    /\ goodbyes \in Seq(Goodbyes)

LEMMA EntryType ==
    ASSUME WeakTypeOK, Control, DriverTypeOK, FinishInsert
    PROVE  Entry \in Entries
<1>1. lives \in 1..MaxLives
  BY DEF FinishInsert, Control, WeakTypeOK, Settle, GiveVerdict
<1>2. QED
  BY <1>1 DEF Entry, Entries, DriverTypeOK

LEMMA DriverTypeInit == Init => DriverTypeOK
<1> SUFFICES ASSUME Init PROVE DriverTypeOK
  OBVIOUS
<1>1. <<>> \in Seq([says : Answers, life : 1..MaxLives]) /\ <<>> \in Seq(Goodbyes)
  BY EmptySeq
<1>2. answers \in Seq([says : Answers, life : 1..MaxLives]) /\ goodbyes \in Seq(Goodbyes)
  BY <1>1, Zenon DEF Init
<1>3. QED
  BY <1>2 DEF Init, ThrInit, DriverTypeOK, SuccessType, Answers, ScriptAnswers

LEMMA DriverTypeStep ==
    ASSUME WeakTypeOK, Control, DriverTypeOK, [Next]_vars
    PROVE  DriverTypeOK'
<1> USE DEF DriverTypeOK
<1>1. answers' \in Seq([says : Answers, life : 1..MaxLives])
  <2>1. CASE FinishInsert
    BY <2>1, EntryType, AppendProperties DEF FinishInsert, Entry, Entries
  <2>2. CASE UNCHANGED answers
    BY <2>2
  <2>3. FinishInsert \/ UNCHANGED answers
    BY DEF Next, WorkerStep, SourceStep, StopRequest, DriverDeinit, ThreadInit, CallInsert,
           Pop, Convert, CallScript, LeaveLoop, vars, drvVars, evalVars
  <2>4. QED
    BY <2>1, <2>2, <2>3
<1>2. goodbyes' \in Seq(Goodbyes) /\ interpreters' \in Int
  <2>1. CASE LeaveLoop
    BY <2>1, AppendProperties DEF LeaveLoop
  <2>2. CASE UNCHANGED goodbyes /\ interpreters' \in {interpreters, interpreters + 1}
    BY <2>2
  <2>3. LeaveLoop \/ (UNCHANGED goodbyes /\ interpreters' \in {interpreters, interpreters + 1})
    BY DEF Next, WorkerStep, SourceStep, StopRequest, DriverDeinit, ThreadInit, CallInsert,
           Pop, Convert, CallScript, FinishInsert, vars, drvVars, deinitVars
  <2>4. QED
    BY <2>1, <2>2, <2>3
<1>3. context' \in {<<>>} \union {<<m>> : m \in Message}
  <2>1. CASE Pop
    <3>1. CASE PopHead /\ context' = held'
      BY <3>1, HeadTailProperties DEF PopHead, WeakTypeOK
    <3>2. QED
      BY <2>1, <3>1 DEF Pop
  <2>2. context' \in {context, <<>>} \/ Pop
    BY DEF Next, WorkerStep, SourceStep, StopRequest, DriverDeinit, ThreadInit, CallInsert,
           Convert, CallScript, ClearContext, FinishInsert, LeaveLoop, vars, drvVars
  <2>3. QED
    BY <2>1, <2>2
<1>4. sp' \in Int
  <2>1. sp' \in {sp, 0, sp + 1 - 1, sp + 1 - 2}
    BY DEF Next, WorkerStep, SourceStep, StopRequest, DriverDeinit, ThreadInit, CallInsert,
           Pop, Convert, CallScript, Pops, FinishInsert, LeaveLoop, vars, drvVars
  <2>2. QED
    BY <2>1
<1>5. vpOk' \in BOOLEAN /\ answer' \in Answers
  <2>1. CASE Convert
    BY <2>1 DEF Convert, Answers
  <2>2. CASE CallScript
    BY <2>2 DEF CallScript, Answers
  <2>3. Convert \/ CallScript \/ UNCHANGED <<vpOk, answer>>
    BY DEF Next, WorkerStep, SourceStep, StopRequest, DriverDeinit, ThreadInit, CallInsert,
           Pop, FinishInsert, LeaveLoop, vars, drvVars, evalVars
  <2>4. QED
    BY <2>1, <2>2, <2>3
<1>6. alive' \in BOOLEAN
  <2>1. CASE CallScript \/ LeaveLoop
    BY <2>1 DEF CallScript, LeaveLoop
  <2>2. CallScript \/ LeaveLoop \/ UNCHANGED alive
    BY DEF Next, WorkerStep, SourceStep, StopRequest, DriverDeinit, ThreadInit, CallInsert,
           Pop, Convert, FinishInsert, vars, drvVars
  <2>3. QED
    BY <2>1, <2>2
<1>7. interpreters' <= lives'
  <2>1. lives \in Int
    BY DEF WeakTypeOK
  <2>2. CASE ThreadInit
    BY <2>1, <2>2 DEF ThreadInit, Start
  <2>3. CASE LeaveLoop
    <3>1. lives' = lives /\ interpreters' \in {interpreters, interpreters - 1}
      BY <2>3 DEF LeaveLoop, Exit, WorkerGoes
    <3>2. QED
      BY <2>1, <3>1
  <2>4. ThreadInit \/ LeaveLoop \/ UNCHANGED <<lives, interpreters>>
    BY DEF Next, WorkerStep, SourceStep, StopRequest, DriverDeinit, CallInsert, Pop, Convert,
           CallScript, FinishInsert, Post, Terminate, GoDown, Wake, Reopen, PopHead,
           PopNothing, WorkerGoes, Settle, GiveVerdict, vars, thrVars, drvVars, deinitVars
  <2>5. QED
    BY <2>2, <2>3, <2>4
<1>8. QED
  BY <1>1, <1>2, <1>3, <1>4, <1>5, <1>6, <1>7, SuccessTypeStep

-----------------------------------------------------------------------------
\* The interpreters.

\* Every end of the thread notes one goodbye and keeps the interpreter if it was
\* a refusal.
LEMMA InterpretersStep ==
    ASSUME WeakTypeOK, DriverTypeOK, InterpretersLeft, [Next]_vars
    PROVE  InterpretersLeft'
<1> USE DEF InterpretersLeft
<1>1. CASE LeaveLoop
  <2>1. PICK goodbye \in Goodbyes :
           /\ goodbyes' = Append(goodbyes, goodbye)
           /\ interpreters' = interpreters - (IF Destroyed(goodbye) THEN 1 ELSE 0)
    BY <1>1 DEF LeaveLoop
  <2>2. worker \notin {"down", "stopped"} /\ worker' = "stopped"
    BY <1>1 DEF LeaveLoop, Exit, WorkerGoes
  <2> DEFINE before == Cardinality({i \in DOMAIN goodbyes : goodbyes[i] \in Refusals})
             after == Cardinality({i \in DOMAIN goodbyes' : goodbyes'[i] \in Refusals})
  <2>3. before \in Nat
    BY CountType DEF DriverTypeOK
  <2>4. after = before + (IF goodbye \in Refusals THEN 1 ELSE 0)
    <3>1. goodbyes \in Seq(Goodbyes)
      BY DEF DriverTypeOK
    <3>2. QED
      BY <2>1, <3>1, CountAppend
  <2>5. interpreters = before + 1
    BY <2>2
  <2> HIDE DEF before, after
  <2>6. interpreters' = after + 0
    BY <2>1, <2>3, <2>4, <2>5 DEF Destroyed
  <2>7. QED
    BY <2>2, <2>6 DEF after
<1>2. CASE ThreadInit
  <2>1. /\ worker = "down" /\ worker' = "waiting"
        /\ goodbyes' = goodbyes /\ interpreters' = interpreters + 1
    BY <1>2 DEF ThreadInit, Start
  <2>2. Cardinality({i \in DOMAIN goodbyes : goodbyes[i] \in Refusals}) \in Nat
    BY CountType DEF DriverTypeOK
  <2>3. QED
    BY <2>1, <2>2
<1>3. CASE UNCHANGED <<goodbyes, interpreters>>
          /\ (worker \in {"down", "stopped"} <=> worker' \in {"down", "stopped"})
  BY <1>3
<1>4. QED
  <2>1. ASSUME NEW s \in Sources, SourceStep(s)
        PROVE  UNCHANGED <<goodbyes, interpreters, worker>>
    BY <2>1 DEF SourceStep, Post, drvVars, deinitVars
  <2>2. CASE StopRequest \/ DriverDeinit
    BY <1>3, <2>2 DEF StopRequest, DriverDeinit, Terminate, GoDown, WorkerGoes, drvVars,
                      deinitVars
  <2>3. CASE CallInsert \/ Pop
    BY <1>3, <2>3 DEF CallInsert, Pop, Wake, Reopen, PopHead, PopNothing, WorkerGoes, deinitVars
  <2>4. CASE Convert \/ CallScript
    BY <1>3, <2>4 DEF Convert, CallScript, deinitVars, thrVars
  <2>5. CASE FinishInsert
    BY <1>3, <2>5 DEF FinishInsert, Settle, GiveVerdict, deinitVars
  <2>6. CASE UNCHANGED vars
    BY <1>3, <2>6 DEF vars, thrVars, drvVars, deinitVars
  <2>7. QED
    BY <1>1, <1>2, <1>3, <2>1, <2>2, <2>3, <2>4, <2>5, <2>6 DEF Next, WorkerStep

-----------------------------------------------------------------------------
\* The stack and what is read from it.

\* The deaths of one interpreter so far.
DeathsOf(life) == Cardinality({i \in DOMAIN answers : answers[i] \in {[says |-> "die", life |-> life]}})

LEMMA DeathsOfFacts ==
    ASSUME DriverTypeOK, NEW life
    PROVE  /\ Deaths(Len(answers) + 1, life)
                 = {i \in DOMAIN answers : answers[i] \in {[says |-> "die", life |-> life]}}
           /\ DeathsOf(life) = Cardinality(Deaths(Len(answers) + 1, life))
<1>1. DOMAIN answers = 1..Len(answers) /\ Len(answers) \in Nat
  BY LenProperties DEF DriverTypeOK
<1>2. \A i \in DOMAIN answers : i < Len(answers) + 1
  BY <1>1
<1>3. QED
  BY <1>2 DEF Deaths, DeathsOf

\* A life that has not begun has seen no death; between a death and its verdict
\* the pointer is one slot ahead of the history.
StackInv ==
    /\ \A i \in DOMAIN answers : answers[i].life <= lives
    /\ sp = -DeathsOf(lives) - (IF pc = "verdict" /\ answer = "die" THEN 1 ELSE 0)

LEMMA StackInvStep ==
    ASSUME WeakTypeOK, Control, DriverTypeOK, StackInv, [Next]_vars
    PROVE  StackInv'
<1> USE DEF StackInv
<1>0. Len(answers) \in Nat /\ DOMAIN answers = 1..Len(answers)
  BY LenProperties DEF DriverTypeOK
<1>1. CASE FinishInsert
  <2>1. /\ answers' = Append(answers, Entry) /\ pc = "verdict" /\ pc' = "idle"
        /\ lives' = lives /\ sp' = sp
    BY <1>1 DEF FinishInsert, Entry, Settle, GiveVerdict
  <2>2. Entry \in Entries
    BY <1>1, EntryType
  <2>3. \A i \in DOMAIN answers' : answers'[i].life <= lives'
    <3>1. /\ DOMAIN answers' = 1..(Len(answers) + 1)
          /\ \A i \in 1..Len(answers) : answers'[i] = answers[i]
          /\ answers'[Len(answers) + 1] = Entry
      BY <1>0, <2>1, <2>2, AppendProperties, LenProperties DEF DriverTypeOK, Entries
    <3>2. Entry.life = lives /\ lives <= lives
      BY DEF Entry, WeakTypeOK
    <3>3. QED
      BY <1>0, <2>1, <3>1, <3>2
  <2> DEFINE dead == {[says |-> "die", life |-> lives]}
  <2>4. Entry \in dead <=> answer = "die"
    BY DEF Entry
  <2>5. DeathsOf(lives)' = DeathsOf(lives) + (IF Entry \in dead THEN 1 ELSE 0)
    <3>1. answers \in Seq(Entries)
      BY DEF DriverTypeOK, Entries
    <3> HIDE DEF dead
    <3>2. Cardinality({i \in DOMAIN Append(answers, Entry) : Append(answers, Entry)[i] \in dead})
             = Cardinality({i \in DOMAIN answers : answers[i] \in dead})
                  + (IF Entry \in dead THEN 1 ELSE 0)
      BY <2>2, <3>1, CountAppend
    <3>3. QED
      BY <2>1, <3>2 DEF DeathsOf, dead
  <2>6. DeathsOf(lives) \in Nat
    BY CountType DEF DriverTypeOK, DeathsOf
  <2> HIDE DEF dead
  <2>7. sp' = -DeathsOf(lives)' - 0
    BY <2>1, <2>4, <2>5, <2>6
  <2>8. QED
    BY <2>1, <2>3, <2>7
<1>2. CASE ThreadInit
  <2>1. /\ lives' = lives + 1 /\ sp' = 0 /\ pc = "idle" /\ pc' = pc /\ answers' = answers
    BY <1>2 DEF ThreadInit, Start, Control, evalVars
  <2>2. \A i \in DOMAIN answers : answers[i].life <= lives /\ answers[i].life \in Nat
    <3>1. \A i \in 1..Len(answers) : answers[i] \in [says : Answers, life : 1..MaxLives]
      BY ElementOfSeq DEF DriverTypeOK
    <3>2. QED
      BY <1>0, <3>1, MaxLivesAssumption
  <2>3. lives \in Nat
    BY DEF WeakTypeOK
  <2>4. \A i \in DOMAIN answers : answers[i].life <= lives' /\ answers[i].life # lives'
    BY <2>1, <2>2, <2>3
  <2>5. DeathsOf(lives)' = 0
    <3>1. {i \in DOMAIN answers : answers[i] \in {[says |-> "die", life |-> lives']}} = {}
      BY <2>4
    <3>2. QED
      BY <2>1, <3>1, FS_EmptySet DEF DeathsOf
  <2>6. sp' = -DeathsOf(lives)' - 0
    BY <2>1, <2>5
  <2>7. QED
    BY <2>1, <2>4, <2>6
<1>3. CASE CallScript
  <2>1. PICK a \in ScriptAnswers : answer' = a /\ sp' = sp + 1 - Pops(a)
    BY <1>3 DEF CallScript
  <2>2. /\ UNCHANGED <<lives, answers>> /\ pc = "call" /\ pc' = "verdict"
    BY <1>3 DEF CallScript, thrVars
  <2>3. DeathsOf(lives) \in Nat /\ DeathsOf(lives)' = DeathsOf(lives)
    BY <2>2, CountType DEF DriverTypeOK, DeathsOf
  <2>4. QED
    BY <2>1, <2>2, <2>3 DEF Pops
<1>4. CASE Convert
  <2>1. /\ UNCHANGED <<lives, answers, sp>> /\ pc = "convert"
        /\ pc' = "call" \/ answer' = "unconvertible"
    BY <1>4 DEF Convert, thrVars
  <2>2. DeathsOf(lives)' = DeathsOf(lives)
    BY <2>1 DEF DeathsOf
  <2>3. QED
    BY <2>1, <2>2
<1>5. CASE UNCHANGED <<lives, answers, sp>> /\ pc # "verdict" /\ pc' # "verdict"
  BY <1>5 DEF DeathsOf
<1>6. CASE UNCHANGED <<lives, answers, answer, sp, pc>>
  BY <1>6 DEF DeathsOf
<1>7. QED
  <2>1. ASSUME NEW s \in Sources, SourceStep(s)
        PROVE  UNCHANGED <<lives, answers, answer, sp, pc>>
    BY <2>1 DEF SourceStep, Post, drvVars, evalVars
  <2>2. CASE StopRequest \/ DriverDeinit \/ LeaveLoop
    BY <1>6, <2>2 DEF StopRequest, DriverDeinit, LeaveLoop, Terminate, GoDown, Exit,
                      WorkerGoes, drvVars, evalVars
  <2>3. CASE CallInsert
    BY <1>5, <2>3 DEF CallInsert, Wake, Reopen, WorkerGoes, Control
  <2>4. CASE Pop
    BY <1>5, <2>4 DEF Pop, PopHead, PopNothing, WorkerGoes
  <2>5. CASE UNCHANGED vars
    BY <1>6, <2>5 DEF vars, thrVars, drvVars, evalVars
  <2>6. QED
    BY <1>1, <1>2, <1>3, <1>4, <1>6, <2>1, <2>2, <2>3, <2>4, <2>5 DEF Next, WorkerStep

-----------------------------------------------------------------------------
\* The verdicts.

\* What a verdict adds to the two histories.
LEMMA HistoriesGrow ==
    ASSUME WeakTypeOK, Control, DriverTypeOK, FinishInsert, Len(answers) = Len(settled)
    PROVE  /\ Len(answers) \in Nat
           /\ DOMAIN answers = 1..Len(answers) /\ DOMAIN settled = 1..Len(answers)
           /\ DOMAIN answers' = 1..(Len(answers) + 1)
           /\ DOMAIN settled' = 1..(Len(answers) + 1)
           /\ Len(answers') = Len(answers) + 1 /\ Len(settled') = Len(answers) + 1
           /\ \A i \in 1..Len(answers) : answers'[i] = answers[i] /\ settled'[i] = settled[i]
           /\ answers'[Len(answers) + 1] = Entry
           /\ settled'[Len(answers) + 1] = [msg |-> Head(held), verdict |-> Verdict]
<1> DEFINE r == [msg |-> Head(held), verdict |-> Verdict]
<1>1. answers \in Seq(Entries) /\ Entry \in Entries /\ answers' = Append(answers, Entry)
  BY EntryType DEF DriverTypeOK, Entries, FinishInsert, Entry
<1>2. settled \in Seq([msg : Message, verdict : Verdicts]) /\ settled' = Append(settled, r)
  BY DEF WeakTypeOK, FinishInsert, Settle, GiveVerdict
<1>3. r \in [msg : Message, verdict : Verdicts]
  <2>1. Head(held) \in Message
    BY HeldFacts DEF FinishInsert, Settle, GiveVerdict
  <2>2. QED
    BY <2>1, VerdictFacts
<1> HIDE DEF r
<1>4. /\ Len(answers) \in Nat /\ DOMAIN answers = 1..Len(answers)
      /\ DOMAIN answers' = 1..(Len(answers) + 1) /\ Len(answers') = Len(answers) + 1
      /\ \A i \in 1..Len(answers) : answers'[i] = answers[i]
      /\ answers'[Len(answers) + 1] = Entry
  BY <1>1, AppendProperties, LenProperties
<1>5. /\ DOMAIN settled = 1..Len(settled)
      /\ DOMAIN settled' = 1..(Len(settled) + 1) /\ Len(settled') = Len(settled) + 1
      /\ \A i \in 1..Len(settled) : settled'[i] = settled[i]
      /\ settled'[Len(settled) + 1] = r
  BY <1>2, <1>3, AppendProperties, LenProperties
<1>6. QED
  BY <1>4, <1>5 DEF r

\* A true success was read from an answer, or after a death that was not the
\* first of the interpreter.
StoredInv ==
    /\ Len(answers) = Len(settled)
    /\ pc = "verdict" /\ success /\ vpOk =>
          \/ answer = "true"
          \/ answer = "die" /\ Deaths(Len(answers) + 1, lives) # {}
    /\ StoredIsTrueOrLaterDeath

LEMMA StoredInvStep ==
    ASSUME WeakTypeOK, Control, DriverTypeOK, StackInv, StoredInv, [Next]_vars
    PROVE  StoredInv'
<1> USE DEF StoredInv
<1>1. CASE FinishInsert
  <2> DEFINE n == Len(answers)
  <2>1. /\ n \in Nat
        /\ DOMAIN answers = 1..n /\ DOMAIN settled = 1..n
        /\ DOMAIN answers' = 1..(n + 1) /\ DOMAIN settled' = 1..(n + 1)
        /\ Len(answers') = n + 1 /\ Len(settled') = n + 1
        /\ \A i \in 1..n : answers'[i] = answers[i] /\ settled'[i] = settled[i]
        /\ answers'[n + 1] = Entry
        /\ settled'[n + 1] = [msg |-> Head(held), verdict |-> Verdict]
    BY <1>1, HistoriesGrow
  <2>2. pc = "verdict" /\ pc' = "idle"
    BY <1>1 DEF FinishInsert
  <2> HIDE DEF n
  <2>3. \A k \in 1..(n + 1) : \A life :
           Deaths(k, life) # {} =>
              \E j \in DOMAIN answers' : j < k /\ answers'[j] = [says |-> "die", life |-> life]
    BY <2>1 DEF Deaths
  <2>4. ASSUME NEW i \in 1..n, settled'[i].verdict = "stored"
        PROVE  \/ answers'[i].says = "true"
               \/ answers'[i].says = "die" /\ Deaths(i, answers[i].life)' # {}
    <3>1. \/ answers[i].says = "true"
          \/ answers[i].says = "die" /\ Deaths(i, answers[i].life) # {}
      BY <2>1, <2>4 DEF StoredIsTrueOrLaterDeath
    <3>2. i \in 1..(n + 1) /\ answers'[i] = answers[i]
      BY <2>1
    <3>3. QED
      BY <2>3, <3>1, <3>2 DEF Deaths
  <2>5. ASSUME settled'[n + 1].verdict = "stored"
        PROVE  \/ answers'[n + 1].says = "true"
               \/ answers'[n + 1].says = "die" /\ (\E j \in DOMAIN answers' : j < n + 1 /\ answers'[j] = [says |-> "die", life |-> lives])
    <3>1. success /\ vpOk
      BY <2>1, <2>5 DEF Verdict
    <3>2. answer = "true" \/ (answer = "die" /\ Deaths(n + 1, lives) # {})
      BY <2>2, <3>1 DEF n
    <3>3. answers'[n + 1].says = answer /\ answers'[n + 1].life = lives
      BY <2>1 DEF Entry
    <3>4. n + 1 \in 1..(n + 1)
      BY <2>1
    <3>5. QED
      BY <2>3, <3>2, <3>3, <3>4
  <2>6. StoredIsTrueOrLaterDeath'
    <3>1. answers'[n + 1].life = lives
      BY <2>1 DEF Entry
    <3>2. ASSUME NEW i \in 1..(n + 1), settled'[i].verdict = "stored"
          PROVE  \/ answers'[i].says = "true"
                 \/ answers'[i].says = "die" /\ Deaths(i, answers[i].life)' # {}
      <4>1. CASE i \in 1..n
        BY <2>4, <3>2, <4>1
      <4>2. CASE i = n + 1
        BY <2>5, <3>1, <3>2, <4>2 DEF Deaths
      <4>3. QED
        BY <2>1, <4>1, <4>2
    <3>3. QED
      BY <2>1, <3>2 DEF StoredIsTrueOrLaterDeath
  <2>7. QED
    BY <2>1, <2>2, <2>6
<1>2. CASE CallScript
  <2>1. PICK a \in ScriptAnswers : answer' = a /\ success' \in ReadAsInt(a)
    BY <1>2 DEF CallScript
  <2>2. UNCHANGED <<lives, answers, settled>> /\ pc = "call"
    BY <1>2 DEF CallScript, thrVars
  <2>3. CASE a = "die" /\ sp # 0
    <3>1. DeathsOf(lives) # 0
      BY <2>2, <2>3, CountType DEF StackInv, DriverTypeOK, DeathsOf
    <3>2. Deaths(Len(answers) + 1, lives) # {}
      BY <3>1, DeathsOfFacts, FS_EmptySet
    <3>3. QED
      BY <2>1, <2>2, <2>3, <3>2 DEF StoredIsTrueOrLaterDeath, Deaths
  <2>4. CASE a # "die" \/ sp = 0
    <3>1. success' => a = "true"
      BY <2>1, <2>4 DEF ReadAsInt
    <3>2. QED
      BY <2>1, <2>2, <3>1 DEF StoredIsTrueOrLaterDeath, Deaths
  <2>5. QED
    BY <2>3, <2>4
<1>3. CASE Convert
  <2>1. UNCHANGED <<answers, settled>> /\ (pc' = "verdict" => ~vpOk')
    BY <1>3 DEF Convert, thrVars
  <2>2. QED
    BY <2>1 DEF StoredIsTrueOrLaterDeath, Deaths
<1>4. CASE UNCHANGED <<answers, settled>> /\ pc' # "verdict"
  BY <1>4 DEF StoredIsTrueOrLaterDeath, Deaths
<1>5. CASE UNCHANGED <<answers, settled, lives, answer, success, vpOk, pc>>
  BY <1>5 DEF StoredIsTrueOrLaterDeath, Deaths
<1>6. QED
  <2>1. ASSUME NEW s \in Sources, SourceStep(s)
        PROVE  UNCHANGED <<answers, settled, lives, answer, success, vpOk, pc>>
    BY <2>1 DEF SourceStep, Post, drvVars, evalVars
  <2>2. CASE StopRequest \/ DriverDeinit \/ LeaveLoop
    BY <1>5, <2>2 DEF StopRequest, DriverDeinit, LeaveLoop, Terminate, GoDown, Exit,
                      WorkerGoes, drvVars, evalVars
  <2>3. CASE CallInsert
    BY <1>4, <2>3 DEF CallInsert, Wake, Reopen, WorkerGoes
  <2>4. CASE Pop
    BY <1>4, <2>4 DEF Pop, PopHead, PopNothing, WorkerGoes
  <2>5. CASE ThreadInit
    BY <1>4, <2>5 DEF ThreadInit, Start, evalVars, Control
  <2>6. CASE UNCHANGED vars
    BY <1>5, <2>6 DEF vars, thrVars, drvVars, evalVars
  <2>7. QED
    BY <1>1, <1>2, <1>3, <1>5, <2>1, <2>2, <2>3, <2>4, <2>5, <2>6 DEF Next, WorkerStep

-----------------------------------------------------------------------------
\* The context of the log.

\* Outside an insert, and until the next pop, a context names the message that
\* was settled last; inside one it names the message the insert holds.
ContextInv ==
    /\ pc \in {"idle", "pop"} /\ context # <<>> =>
          /\ answers[Len(answers)].says = "unconvertible"
          /\ context = <<settled[Len(settled)].msg>>
    /\ pc = "convert" => context = held
    /\ pc = "verdict" /\ context # <<>> => answer = "unconvertible" /\ context = held

LEMMA ContextInvStep ==
    ASSUME WeakTypeOK, Control, DriverTypeOK, Len(answers) = Len(settled), ContextInv, [Next]_vars
    PROVE  ContextInv'
<1> USE DEF ContextInv
<1>1. CASE FinishInsert
  <2>1. /\ Len(answers') = Len(answers) + 1 /\ Len(settled') = Len(answers) + 1
        /\ answers'[Len(answers) + 1] = Entry
        /\ settled'[Len(answers) + 1] = [msg |-> Head(held), verdict |-> Verdict]
    BY <1>1, HistoriesGrow
  <2>2. held = <<Head(held)>> /\ pc = "verdict" /\ pc' = "idle" /\ context' = context
    BY <1>1, HeldFacts DEF FinishInsert, Settle, GiveVerdict
  <2>3. QED
    BY <2>1, <2>2 DEF Entry
<1>2. CASE Pop
  <2>1. CASE PopHead /\ pc' = "convert" /\ context' = held'
    BY <2>1
  <2>2. CASE PopNothing /\ pc' = "idle" /\ UNCHANGED context
    BY <1>2, <2>2 DEF Pop, PopNothing, WorkerGoes
  <2>3. QED
    BY <1>2, <2>1, <2>2 DEF Pop
<1>3. CASE Convert
  BY <1>3 DEF Convert, thrVars
<1>4. CASE CallScript \/ ThreadInit
  BY <1>4 DEF CallScript, ThreadInit, Start, ClearContext, evalVars, Control
<1>5. CASE CallInsert
  BY <1>5 DEF CallInsert, Wake, Reopen, WorkerGoes, Control
<1>6. CASE UNCHANGED <<answers, settled, answer, context, pc, held>>
  BY <1>6
<1>7. QED
  <2>1. ASSUME NEW s \in Sources, SourceStep(s)
        PROVE  UNCHANGED <<answers, settled, answer, context, pc, held>>
    BY <2>1 DEF SourceStep, Post, drvVars, evalVars
  <2>2. CASE StopRequest \/ DriverDeinit \/ LeaveLoop
    BY <1>6, <2>2 DEF StopRequest, DriverDeinit, LeaveLoop, Terminate, GoDown, Exit,
                      WorkerGoes, drvVars, evalVars
  <2>3. CASE UNCHANGED vars
    BY <1>6, <2>3 DEF vars, thrVars, drvVars, evalVars
  <2>4. QED
    BY <1>1, <1>2, <1>3, <1>4, <1>5, <1>6, <2>1, <2>2, <2>3 DEF Next, WorkerStep

-----------------------------------------------------------------------------
\* The inductive invariant and what follows from it.

PerlInv ==
    /\ Control /\ DriverTypeOK
    /\ InterpretersLeft
    /\ StackInv /\ StoredInv /\ ContextInv

LEMMA PerlInvInit == Init => PerlInv
<1> SUFFICES ASSUME Init PROVE PerlInv
  OBVIOUS
<1>1. answers = <<>> /\ settled = <<>> /\ goodbyes = <<>>
  BY DEF Init, ThrInit
<1>2. DOMAIN answers = {} /\ DOMAIN goodbyes = {} /\ DOMAIN settled = {}
  BY <1>1
<1>3. Len(answers) = Len(settled)
  BY <1>1
<1>4. InterpretersLeft
  <2>1. {i \in DOMAIN goodbyes : goodbyes[i] \in Refusals} = {}
    BY <1>2
  <2>2. Cardinality({i \in DOMAIN goodbyes : goodbyes[i] \in Refusals}) = 0
    BY <2>1, FS_EmptySet
  <2>3. QED
    BY <2>2 DEF InterpretersLeft, Init, ThrInit
<1>5. StackInv
  <2>1. {i \in DOMAIN answers : answers[i] \in {[says |-> "die", life |-> lives]}} = {}
    BY <1>2
  <2>2. DeathsOf(lives) = 0
    BY <2>1, FS_EmptySet DEF DeathsOf
  <2>3. QED
    BY <1>2, <2>2 DEF StackInv, Init
<1>6. StoredInv /\ ContextInv
  BY <1>2, <1>3 DEF StoredInv, StoredIsTrueOrLaterDeath, ContextInv, Init
<1>7. QED
  BY <1>4, <1>5, <1>6, ControlInit, DriverTypeInit DEF PerlInv

\* The invariant is inductive.
THEOREM PerlInvariant == Spec => []PerlInv
<1>1. Spec => []WeakTypeOK
  BY PerlKeepsContract, WeakTypeCorrect, PTL
<1>2. WeakTypeOK /\ PerlInv /\ [Next]_vars => PerlInv'
  <2> SUFFICES ASSUME WeakTypeOK, PerlInv, [Next]_vars PROVE PerlInv'
    OBVIOUS
  <2>1. /\ Control /\ DriverTypeOK /\ InterpretersLeft /\ StackInv /\ StoredInv /\ ContextInv
        /\ Len(answers) = Len(settled)
    BY DEF PerlInv, StoredInv
  <2>2. Control' /\ DriverTypeOK' /\ InterpretersLeft'
    BY <2>1, ControlStep, DriverTypeStep, InterpretersStep
  <2>3. StackInv' /\ StoredInv' /\ ContextInv'
    BY <2>1, StackInvStep, StoredInvStep, ContextInvStep
  <2>4. QED
    BY <2>2, <2>3 DEF PerlInv
<1>3. QED
  BY <1>1, <1>2, PerlInvInit, PTL DEF Spec

\* Nothing but a death of the script moves the stack pointer, by one slot and for
\* as long as the interpreter lives.
THEOREM StackPointerTellsDeaths == Spec => []StackTellsDeaths
<1>1. PerlInv => StackTellsDeaths
  <2> SUFFICES ASSUME PerlInv, pc = "idle"
               PROVE  sp = -Cardinality(Deaths(Len(answers) + 1, lives))
    BY DEF StackTellsDeaths
  <2>1. DeathsOf(lives) = Cardinality(Deaths(Len(answers) + 1, lives))
    BY DeathsOfFacts DEF PerlInv
  <2>2. DeathsOf(lives) \in Nat
    BY CountType DEF PerlInv, DriverTypeOK, DeathsOf
  <2>3. sp = -DeathsOf(lives) - 0
    BY DEF PerlInv, StackInv
  <2>4. QED
    BY <2>1, <2>2, <2>3
<1>2. QED
  BY <1>1, PerlInvariant, PTL

\* A message the script died on is stored only if the interpreter had seen a
\* death before; one it did not answer truly is never stored otherwise.
THEOREM OnlyLaterDeathsAreStored == Spec => []StoredIsTrueOrLaterDeath
BY PerlInvariant, PTL DEF PerlInv, StoredInv

\* The log of the worker thread names a released message exactly after a message
\* that did not convert.
THEOREM ContextDangles == Spec => []DanglingContext
<1>1. PerlInv => DanglingContext
  BY DEF PerlInv, ContextInv, DanglingContext
<1>2. QED
  BY <1>1, PerlInvariant, PTL

\* Each end of the thread whose deinit function fails leaves an interpreter.
THEOREM InterpretersAreLeft == Spec => []InterpretersLeft
BY PerlInvariant, PTL DEF PerlInv

\* Type correctness of the driver and its frame: there are never more
\* interpreters than the thread was started.
THEOREM PerlTypeCorrect == Spec => []TypeOK
<1>1. Spec => []ThrTypeOK
  BY PerlKeepsContract, ThrTypeCorrect, PTL
<1>2. ThrTypeOK /\ PerlInv => TypeOK
  <2> SUFFICES ASSUME ThrTypeOK, PerlInv PROVE TypeOK
    OBVIOUS
  <2>1. interpreters \in 0..MaxLives
    <3>1. Cardinality({i \in DOMAIN goodbyes : goodbyes[i] \in Refusals}) \in Nat
      BY CountType DEF PerlInv, DriverTypeOK
    <3>2. interpreters >= 0
      BY <3>1 DEF PerlInv, InterpretersLeft
    <3>3. QED
      BY <3>2, MaxLivesAssumption DEF PerlInv, DriverTypeOK, ThrTypeOK
  <2>2. QED
    BY <2>1 DEF TypeOK, PerlInv, Control, DriverTypeOK, SuccessType
<1>3. QED
  BY <1>1, <1>2, PerlInvariant, PTL
=============================================================================
