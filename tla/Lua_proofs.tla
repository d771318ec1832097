----------------------------- MODULE Lua_proofs ------------------------------
(***************************************************************************)
(* Proofs about the Lua destination (LuaDest), for any sources, window,    *)
(* number of messages, lives, parameters, bad globals and stack slots,     *)
(* with any script and with the one for Elasticsearch (EsBatch), and about *)
(* the objects of a Lua script (LuaObjects), for any number of objects and *)
(* any script.                                                             *)
(***************************************************************************)
EXTENDS EsBatch, LuaObjects, LogThrDest_proofs

\* The driver without its fairness.
LuaSafety == Init /\ [][Next]_vars

\* Whatever the script for Elasticsearch does is something a script may do.
LEMMA EsIsLua == EsSpec => LuaSafety
<1>1. EsInit => Init
  BY DEF EsInit
<1>2. [EsNext]_<<vars, esVars>> => [Next]_vars
  <2> SUFFICES ASSUME EsNext PROVE Next
    OBVIOUS
  <2>1. CASE ElasticInit
    BY <2>1 DEF EsNext, ElasticInit, MainStep, Next
  <2>2. CASE ElasticDeinit
    BY <2>2 DEF EsNext, ElasticDeinit, MainStep, Next
  <2>3. CASE ElasticCall
    BY <2>3 DEF EsNext, ElasticCall, WorkerStep, Next
  <2>4. CASE ~ElasticInit /\ ~ElasticDeinit /\ ~ElasticCall
    BY <2>4 DEF EsNext, MainStep, WorkerStep, Next
  <2>5. QED
    BY <2>1, <2>2, <2>3, <2>4
<1>3. QED
  BY <1>1, <1>2, PTL DEF EsSpec, LuaSafety

\* Every step of the driver is a step the frame allows, or one it does not see.
LEMMA DriverStep == [Next]_vars => [ThrNext]_thrVars
<1> SUFFICES ASSUME [Next]_vars PROVE [ThrNext]_thrVars
  OBVIOUS
<1>1. ASSUME NEW s \in Sources, SourceStep(s) PROVE ThrNext
  BY <1>1 DEF SourceStep, ThrNext
<1>2. CASE StopRequest \/ CallInsert \/ LeaveLoop
  BY <1>2 DEF StopRequest, CallInsert, LeaveLoop, ThrNext
<1>3. CASE MainStep
  BY <1>3 DEF MainStep, InitSucceeds, Begin, InitFails, Deinit, Revert, ThrNext
<1>4. CASE Pop
  BY <1>4 DEF Pop, ThrNext
<1>5. CASE FinishInsert
  <2>1. \E verdict \in Verdicts, ok \in BOOLEAN : Settle(verdict, ok)
    BY <1>5 DEF FinishInsert, Verdicts
  <2>2. QED
    BY <2>1 DEF ThrNext
<1>6. CASE PushCall \/ AddParameter \/ CallScript \/ UNCHANGED vars
  BY <1>6 DEF PushCall, AddParameter, CallScript, vars
<1>7. QED
  BY <1>1, <1>2, <1>3, <1>4, <1>5, <1>6 DEF Next, WorkerStep

LEMMA SafetyKeepsContract == LuaSafety => ThrSpec
<1>1. Init => ThrInit
  BY DEF Init
<1>2. QED
  BY <1>1, DriverStep, PTL DEF LuaSafety, ThrSpec

\* The driver keeps the contract of the frame.
THEOREM LuaKeepsContract == Spec => ThrSpec
BY SafetyKeepsContract, PTL DEF Spec, LuaSafety

\* Hence each message posted to the driver gets exactly one verdict, in order.
THEOREM LuaKeepsPromise == Spec => PromiseSpec
BY LuaKeepsContract, ThrImplementsPromise, PTL

\* With the script for Elasticsearch, too, every place of a window is given back
\* exactly once.
THEOREM EsConservesWindows == EsSpec => []WindowConserved
BY EsIsLua, SafetyKeepsContract, WindowIsConserved, PTL

-----------------------------------------------------------------------------
\* Control: where the worker is, and what the main thread made of the state.

Control ==
    /\ pc \in {"idle", "pop", "push", "params", "call", "verdict"}
    /\ pc = "idle" <=> worker # "insert"
    /\ luaState \in {"none", "open", "closed"}
    /\ luaState = "none" => worker = "down"
    /\ luaState = "open" => worker # "down"
    /\ ClosedStateComesBack

LEMMA ControlStep == Control /\ [Next]_vars => Control'
<1> SUFFICES ASSUME Control, [Next]_vars PROVE Control'
  OBVIOUS
<1> USE DEF Control, ClosedStateComesBack
<1>1. ASSUME NEW s \in Sources, SourceStep(s) PROVE Control'
  BY <1>1 DEF SourceStep, Post, drvVars, stateVars
<1>2. CASE StopRequest \/ LeaveLoop
  BY <1>2 DEF StopRequest, LeaveLoop, Terminate, Exit, WorkerGoes, drvVars, stateVars
<1>3. ASSUME NEW hasInitFunc \in BOOLEAN, InitSucceeds(hasInitFunc) \/ Revert(hasInitFunc)
      PROVE  Control'
  BY <1>3 DEF InitSucceeds, Revert, Begin, Start
<1>4. CASE InitFails
  BY <1>4 DEF InitFails, thrVars
<1>5. CASE Deinit
  BY <1>5 DEF Deinit, GoDown, WorkerGoes, Close
<1>6. CASE CallInsert
  BY <1>6 DEF CallInsert, Wake, Reopen, WorkerGoes, stateVars
<1>7. CASE Pop
  BY <1>7 DEF Pop, PopHead, PopNothing, WorkerGoes, stateVars
<1>8. CASE PushCall \/ AddParameter \/ CallScript
  <2>1. UNCHANGED <<thrVars, stateVars>> /\ pc # "idle" /\ pc' \in {"params", "call", "verdict"}
    BY <1>8 DEF PushCall, AddParameter, CallScript
  <2>2. QED
    BY <2>1 DEF thrVars, stateVars
<1>9. CASE FinishInsert
  BY <1>9 DEF FinishInsert, Settle, GiveVerdict, stateVars
<1>10. CASE UNCHANGED vars
  BY <1>10 DEF vars, thrVars, drvVars, stateVars
<1>11. QED
  BY <1>1, <1>2, <1>3, <1>4, <1>5, <1>6, <1>7, <1>8, <1>9, <1>10
     DEF Next, WorkerStep, MainStep

LEMMA ControlInit == Init => Control
BY DEF Init, ThrInit, Control, ClosedStateComesBack

LEMMA ControlHolds == LuaSafety => []Control
BY ControlInit, ControlStep, PTL DEF LuaSafety

\* A driver brought back after a refused configuration always runs on a state that
\* is closed, and no other driver does.
THEOREM ClosedStateHolds == Spec => []ClosedStateComesBack
BY ControlHolds, PTL DEF Spec, LuaSafety, Control

-----------------------------------------------------------------------------
\* The stack.

Pile == base + DropsSinceInit

\* What is above the pile: a call in preparation, or the error of one that
\* failed and is not counted yet.
Above ==
    IF pc \in {"params", "call"} THEN CallDepth
    ELSE IF pc = "verdict" /\ ~success THEN 1 ELSE 0

Piled ==
    /\ Len(stack) = Pile + Above
    /\ \A i \in 1..Pile : stack[i] = "error" <=> i > base
    /\ pc = "verdict" /\ ~success => stack[Pile + 1] = "error"
    /\ pc = "params" => stack[Pile + 2] = "message" /\ stack[Pile + 3] = "table"

StackInv ==
    /\ stack \in Seq(Kinds)
    /\ base \in Nat /\ before \in Nat /\ before <= dropped
    /\ success \in BOOLEAN
    /\ pc = "params" => NParams > 0
    /\ alive \/ pc = "idle" => Piled
    /\ CrashNeedsDropOrBadParameter

LEMMA PushFacts ==
    ASSUME NEW S, NEW a \in Seq(S), NEW b \in Seq(S)
    PROVE  /\ a \o b \in Seq(S)
           /\ Len(a \o b) = Len(a) + Len(b)
           /\ \A i \in 1..Len(a) : (a \o b)[i] = a[i]
           /\ \A i \in 1..Len(b) : (a \o b)[Len(a) + i] = b[i]
<1>1. Len(a) \in Nat /\ Len(b) \in Nat
  BY LenProperties
<1>2. /\ a \o b \in Seq(S)
      /\ Len(a \o b) = Len(a) + Len(b)
      /\ \A i \in 1..(Len(a) + Len(b)) :
            (a \o b)[i] = IF i <= Len(a) THEN a[i] ELSE b[i - Len(a)]
  BY ConcatProperties
<1>3. \A i \in 1..Len(b) : (a \o b)[Len(a) + i] = b[i]
  <2> SUFFICES ASSUME NEW i \in 1..Len(b) PROVE (a \o b)[Len(a) + i] = b[i]
    OBVIOUS
  <2>1. Len(a) + i \in 1..(Len(a) + Len(b)) /\ ~(Len(a) + i <= Len(a)) /\ (Len(a) + i) - Len(a) = i
    BY <1>1
  <2>2. QED
    BY <1>2, <2>1
<1>4. QED
  BY <1>1, <1>2, <1>3

LEMMA PrefixFacts ==
    ASSUME NEW S, NEW a \in Seq(S), NEW n \in 0..Len(a)
    PROVE  /\ SubSeq(a, 1, n) \in Seq(S)
           /\ Len(SubSeq(a, 1, n)) = n
           /\ \A i \in 1..n : SubSeq(a, 1, n)[i] = a[i]
<1>1. Len(a) \in Nat
  BY LenProperties
<1>2. QED
  BY <1>1

\* What the process may die of besides its script: it was brought back, its globals
\* took too much off the stack, or a call needs more than there is.
LEMMA DeathFacts ==
    ASSUME NEW depth, death' \in {"script"} \union Deaths(depth), death' = "driver",
           Control, worker # "down"
    PROVE  restored \/ Underrun \/ depth > StackSlots
BY DEF Deaths, Control, ClosedStateComesBack

\* The stack of a new driver: no error is on it.
LEMMA InitialStackFacts ==
    ASSUME NEW hasInitFunc \in BOOLEAN, NEW bads \in Nat
    PROVE  /\ InitialStack(hasInitFunc, bads) \in Seq(Kinds)
           /\ Len(InitialStack(hasInitFunc, bads)) \in Nat
           /\ \A i \in 1..Len(InitialStack(hasInitFunc, bads)) :
                 InitialStack(hasInitFunc, bads)[i] # "error"
<1> DEFINE libs == [i \in 1..Libraries |-> "library"]
           rest == Libraries - bads
           top == IF hasInitFunc THEN <<>> ELSE <<"nil">>
           Quiet == Kinds \ {"error"}
<1>1. libs \in Seq(Quiet) /\ Len(libs) = Libraries
  <2>1. libs \in [1..Libraries -> Quiet] /\ Libraries \in Nat
    BY DEF Libraries, Kinds
  <2>2. QED
    BY <2>1, SeqDef, LenProperties
<1>2. rest \in Int /\ rest <= Libraries
  BY DEF Libraries
<1>3. top \in Seq(Quiet)
  <2>1. <<>> \in Seq(Quiet)
    BY EmptySeq
  <2>2. "nil" \in Quiet
    BY DEF Kinds
  <2> HIDE DEF Quiet
  <2>3. <<"nil">> \in Seq(Quiet)
    BY <2>2
  <2>4. QED
    BY <2>1, <2>3
<1>4. InitialStack(hasInitFunc, bads) = SubSeq(libs, 1, rest) \o top
  BY <1>1 DEF InitialStack, InjectGlobals
<1> HIDE DEF libs, rest, top, Quiet
<1>5. SubSeq(libs, 1, rest) \in Seq(Quiet)
  <2>1. CASE rest >= 0
    BY <1>1, <1>2, <2>1, PrefixFacts
  <2>2. CASE rest < 0
    <3>1. SubSeq(libs, 1, rest) = <<>>
      BY <1>1, <1>2, <2>2
    <3>2. QED
      BY <3>1, EmptySeq
  <2>3. QED
    BY <1>2, <2>1, <2>2
<1>6. InitialStack(hasInitFunc, bads) \in Seq(Quiet)
  BY <1>3, <1>4, <1>5, PushFacts
<1>7. Len(InitialStack(hasInitFunc, bads)) \in Nat
  BY <1>6, LenProperties
<1>8. \A i \in 1..Len(InitialStack(hasInitFunc, bads)) : InitialStack(hasInitFunc, bads)[i] \in Quiet
  BY <1>6, ElementOfSeq
<1>9. InitialStack(hasInitFunc, bads) \in Seq(Kinds)
  <2>1. Quiet \subseteq Kinds
    BY DEF Quiet
  <2>2. InitialStack(hasInitFunc, bads) \in [1..Len(InitialStack(hasInitFunc, bads)) -> Quiet]
    BY <1>6, LenProperties
  <2>3. QED
    BY <1>7, <2>1, <2>2, SeqDef
<1>10. QED
  BY <1>7, <1>8, <1>9 DEF Quiet

LEMMA PileType ==
    ASSUME WeakTypeOK, StackInv
    PROVE  /\ base \in Nat /\ DropsSinceInit \in Nat /\ Pile \in Nat /\ Pile >= base
           /\ CallDepth \in {2, 3} /\ (NParams > 0 <=> CallDepth = 3)
           /\ Len(stack) \in Nat
<1>1. dropped \in Nat /\ base \in Nat /\ before \in Nat /\ before <= dropped
  BY DEF WeakTypeOK, StackInv
<1>2. Len(stack) \in Nat
  BY LenProperties DEF StackInv
<1>3. QED
  BY <1>1, <1>2, NParamsAssumption DEF Pile, DropsSinceInit, CallDepth

LEMMA PushStep ==
    ASSUME WeakTypeOK, Control, StackInv, alive, PushCall
    PROVE  StackInv'
<1> DEFINE args == IF NParams > 0 THEN <<"function", "message", "table">> ELSE <<"function", "message">>
<1>1. args \in Seq(Kinds) /\ Len(args) = CallDepth
  <2>1. "function" \in Kinds /\ "message" \in Kinds /\ "table" \in Kinds
    BY DEF Kinds
  <2>2. CASE NParams > 0
    BY <2>1, <2>2 DEF CallDepth
  <2>3. CASE ~(NParams > 0)
    BY <2>1, <2>3 DEF CallDepth
  <2>4. QED
    BY <2>2, <2>3
<1>2. NParams > 0 => args[2] = "message" /\ args[3] = "table"
  OBVIOUS
<1>3. /\ stack' = stack \o args
      /\ pc = "push" /\ pc' = (IF NParams > 0 THEN "params" ELSE "call")
      /\ UNCHANGED <<base, before, success, dropped, restored, bad>>
  BY DEF PushCall, stateVars, thrVars
<1>4. death' \in Deaths(Len(stack')) /\ worker # "down"
  BY <1>3 DEF PushCall, Control
<1> HIDE DEF args
<1>5. stack \in Seq(Kinds) /\ Piled
  BY DEF StackInv
<1>6. Len(stack) = Pile
  BY <1>3, <1>5, PileType DEF Piled, Above
<1>7. /\ stack' \in Seq(Kinds) /\ Len(stack') = Pile + CallDepth
      /\ \A i \in 1..Pile : stack'[i] = stack[i]
      /\ \A i \in 1..CallDepth : stack'[Pile + i] = args[i]
  <2>1. stack \in Seq(Kinds) /\ args \in Seq(Kinds)
    BY <1>1, <1>5
  <2>2. /\ stack \o args \in Seq(Kinds) /\ Len(stack \o args) = Len(stack) + Len(args)
        /\ \A i \in 1..Len(stack) : (stack \o args)[i] = stack[i]
        /\ \A i \in 1..Len(args) : (stack \o args)[Len(stack) + i] = args[i]
    BY <2>1, PushFacts
  <2>3. QED
    BY <1>1, <1>3, <1>6, <2>2
<1>8. UNCHANGED <<Pile, DropsSinceInit>>
  BY <1>3 DEF Pile, DropsSinceInit
<1>9. Piled'
  <2>1. Len(stack') = Pile' + Above'
    BY <1>3, <1>7, <1>8 DEF Above, CallDepth
  <2>2. \A i \in 1..Pile' : stack'[i] = "error" <=> i > base'
    BY <1>3, <1>5, <1>7, <1>8 DEF Piled
  <2>3. pc' = "params" => stack'[Pile' + 2] = "message" /\ stack'[Pile' + 3] = "table"
    <3>1. pc' = "params" => NParams > 0 /\ 2 \in 1..CallDepth /\ 3 \in 1..CallDepth
      BY <1>3, PileType
    <3>2. QED
      BY <1>2, <1>7, <1>8, <3>1
  <2>4. QED
    BY <1>3, <2>1, <2>2, <2>3 DEF Piled
<1>10. CrashNeedsDropOrBadParameter'
  <2>1. CASE Len(stack') > StackSlots
    <3>1. base' + DropsSinceInit' + CallDepth + (IF NParams > 0 THEN 2 ELSE 0) > StackSlots
      BY <1>3, <1>7, <1>8, <2>1, PileType, StackSlotsAssumption DEF Pile
    <3>2. QED
      BY <3>1 DEF CrashNeedsDropOrBadParameter
  <2>2. CASE ~(Len(stack') > StackSlots)
    BY <1>3, <1>4, <2>2, DeathFacts DEF CrashNeedsDropOrBadParameter, Underrun
  <2>3. QED
    BY <2>1, <2>2
<1>11. QED
  BY <1>3, <1>7, <1>9, <1>10 DEF StackInv

LEMMA ParameterStep ==
    ASSUME WeakTypeOK, Control, StackInv, alive, AddParameter
    PROVE  StackInv'
<1>1. PICK converts \in BOOLEAN :
         LET args == IF converts THEN <<"key", "value">> ELSE <<"key">>
             st == stack \o args
             target == st[Len(st) - 2]
         IN  /\ stack' = IF target = "table" THEN SubSeq(st, 1, Len(st) - 2) ELSE st
             /\ death' \in (IF target # "table" THEN {"driver"} ELSE Deaths(Len(st)))
  BY DEF AddParameter
<1> DEFINE args == IF converts THEN <<"key", "value">> ELSE <<"key">>
           st == stack \o args
           target == st[Len(st) - 2]
<1>2. /\ stack' = IF target = "table" THEN SubSeq(st, 1, Len(st) - 2) ELSE st
      /\ death' \in (IF target # "table" THEN {"driver"} ELSE Deaths(Len(st)))
  BY <1>1
<1>3. /\ pc = "params" /\ pc' \in {"params", "call"} /\ worker # "down"
      /\ UNCHANGED <<base, before, success, dropped, restored, bad>>
  BY DEF AddParameter, stateVars, thrVars, Control
<1>4. NParams > 0 /\ CallDepth = 3 /\ Piled /\ stack \in Seq(Kinds)
  BY <1>3, PileType DEF StackInv
<1>5. Len(stack) = Pile + 3 /\ Pile \in Nat
  BY <1>3, <1>4, PileType DEF Piled, Above
<1>6. UNCHANGED <<Pile, DropsSinceInit>>
  BY <1>3 DEF Pile, DropsSinceInit
<1>7. args \in Seq(Kinds) /\ Len(args) = (IF converts THEN 2 ELSE 1) /\ args[1] = "key"
  <2>1. "key" \in Kinds /\ "value" \in Kinds
    BY DEF Kinds
  <2>2. CASE converts
    BY <2>1, <2>2
  <2>3. CASE ~converts
    BY <2>1, <2>3
  <2>4. QED
    BY <2>2, <2>3
<1> HIDE DEF args
<1>8. /\ st \in Seq(Kinds) /\ Len(st) = Pile + 3 + (IF converts THEN 2 ELSE 1)
      /\ \A i \in 1..(Pile + 3) : st[i] = stack[i]
      /\ st[Pile + 4] = "key"
  <2>1. /\ st \in Seq(Kinds) /\ Len(st) = Len(stack) + Len(args)
        /\ \A i \in 1..Len(stack) : st[i] = stack[i]
        /\ \A i \in 1..Len(args) : st[Len(stack) + i] = args[i]
    <3>1. stack \in Seq(Kinds) /\ args \in Seq(Kinds)
      BY <1>4, <1>7
    <3>2. QED
      BY <3>1, PushFacts
  <2> HIDE DEF st
  <2>2. 1 \in 1..Len(args) /\ Len(stack) + 1 = Pile + 4
    BY <1>5, <1>7
  <2>3. QED
    BY <1>5, <1>7, <2>1, <2>2
<1> HIDE DEF st
<1>9. CASE converts
  <2>1. target = "table"
    BY <1>3, <1>4, <1>5, <1>8, <1>9 DEF Piled
  <2>2. stack' = SubSeq(st, 1, Pile + 3) /\ death' \in Deaths(Pile + 5)
    <3>1. Len(st) = Pile + 5 /\ Len(st) - 2 = Pile + 3
      BY <1>5, <1>8, <1>9
    <3>2. stack' = SubSeq(st, 1, Len(st) - 2) /\ death' \in Deaths(Len(st))
      BY <1>2, <2>1
    <3>3. QED
      BY <3>1, <3>2
  <2>3. /\ stack' \in Seq(Kinds) /\ Len(stack') = Pile + 3
        /\ \A i \in 1..(Pile + 3) : stack'[i] = stack[i]
    BY <1>5, <1>8, <1>9, <2>2, PrefixFacts
  <2>4. Piled'
    <3>1. Len(stack') = Pile' + Above'
      BY <1>3, <1>4, <1>6, <2>3 DEF Above
    <3>2. \A i \in 1..Pile' : stack'[i] = "error" <=> i > base'
      BY <1>3, <1>4, <1>5, <1>6, <2>3 DEF Piled
    <3>3. stack'[Pile' + 2] = "message" /\ stack'[Pile' + 3] = "table"
      BY <1>3, <1>4, <1>5, <1>6, <2>3 DEF Piled
    <3>4. QED
      BY <1>3, <3>1, <3>2, <3>3 DEF Piled
  <2>5. CrashNeedsDropOrBadParameter'
    <3>1. CASE Pile + 5 > StackSlots
      <4>1. base' + DropsSinceInit' + CallDepth + (IF NParams > 0 THEN 2 ELSE 0) > StackSlots
        BY <1>3, <1>4, <1>6, <3>1, PileType, StackSlotsAssumption DEF Pile
      <4>2. QED
        BY <4>1 DEF CrashNeedsDropOrBadParameter
    <3>2. CASE ~(Pile + 5 > StackSlots)
      BY <1>3, <2>2, <3>2, DeathFacts DEF CrashNeedsDropOrBadParameter, Underrun
    <3>3. QED
      BY <3>1, <3>2
  <2>6. QED
    BY <1>3, <1>4, <2>3, <2>4, <2>5 DEF StackInv
<1>10. CASE ~converts
  <2>1. target = "message"
    BY <1>3, <1>4, <1>5, <1>8, <1>10 DEF Piled
  <2>2. stack' = st /\ ~alive'
    BY <1>2, <2>1 DEF alive
  <2>3. stack'[Len(stack')] = "key"
    BY <1>5, <1>8, <1>10, <2>2
  <2>4. CrashNeedsDropOrBadParameter'
    BY <2>3 DEF CrashNeedsDropOrBadParameter
  <2>5. QED
    BY <1>3, <1>4, <1>8, <2>2, <2>4 DEF StackInv
<1>11. QED
  BY <1>9, <1>10

LEMMA CallStep ==
    ASSUME WeakTypeOK, Control, StackInv, alive, CallScript
    PROVE  StackInv'
<1>1. PICK ok \in BOOLEAN : stack' = AfterCall(ok) /\ success' = ok
  BY DEF CallScript
<1>2. /\ pc = "call" /\ pc' = "verdict"
      /\ death' \in {"script"} \union Deaths(Len(stack)) /\ worker # "down"
      /\ UNCHANGED <<base, before, dropped, restored, bad>>
  BY DEF CallScript, stateVars, thrVars, Control
<1> DEFINE left3 == SubSeq(stack, 1, Len(stack) - CallDepth)
           top == IF ok THEN <<>> ELSE <<"error">>
<1>3. Piled /\ stack \in Seq(Kinds)
  BY DEF StackInv
<1>4. Len(stack) = Pile + CallDepth /\ Pile \in 0..Len(stack) /\ Len(stack) - CallDepth = Pile
  BY <1>2, <1>3, PileType DEF Piled, Above
<1>5. UNCHANGED <<Pile, DropsSinceInit>>
  BY <1>2 DEF Pile, DropsSinceInit
<1>6. /\ left3 \in Seq(Kinds) /\ Len(left3) = Pile
      /\ \A i \in 1..Pile : left3[i] = stack[i]
  BY <1>3, <1>4, PrefixFacts
<1>7. top \in Seq(Kinds) /\ Len(top) = (IF ok THEN 0 ELSE 1) /\ (~ok => top[1] = "error")
  <2>1. "error" \in Kinds
    BY DEF Kinds
  <2>2. CASE ok
    <3>1. <<>> \in Seq(Kinds) /\ Len(<<>>) = 0
      BY EmptySeq
    <3>2. top = <<>>
      BY <2>2
    <3> HIDE DEF top
    <3>3. QED
      BY <2>2, <3>1, <3>2
  <2>3. CASE ~ok
    BY <2>1, <2>3
  <2>4. QED
    BY <2>2, <2>3
<1>8. stack' = left3 \o top
  BY <1>1 DEF AfterCall
<1> HIDE DEF left3, top
<1>9. /\ left3 \o top \in Seq(Kinds) /\ Len(left3 \o top) = Len(left3) + Len(top)
      /\ \A i \in 1..Len(left3) : (left3 \o top)[i] = left3[i]
      /\ \A i \in 1..Len(top) : (left3 \o top)[Len(left3) + i] = top[i]
  <2>1. left3 \in Seq(Kinds) /\ top \in Seq(Kinds)
    BY <1>6, <1>7
  <2>2. QED
    BY <2>1, PushFacts
<1>10. Piled'
  <2>1. Len(stack') = Pile' + Above'
    BY <1>1, <1>2, <1>5, <1>6, <1>7, <1>8, <1>9 DEF Above
  <2>2. \A i \in 1..Pile' : stack'[i] = "error" <=> i > base'
    BY <1>2, <1>3, <1>5, <1>6, <1>8, <1>9 DEF Piled
  <2>3. ~success' => stack'[Pile' + 1] = "error"
    BY <1>1, <1>5, <1>6, <1>7, <1>8, <1>9
  <2>4. QED
    BY <1>2, <2>1, <2>2, <2>3 DEF Piled
<1>11. CrashNeedsDropOrBadParameter'
  <2>1. CASE Len(stack) > StackSlots
    <3>1. base + DropsSinceInit + CallDepth + (IF NParams > 0 THEN 2 ELSE 0) > StackSlots
      BY <1>4, <2>1, PileType, StackSlotsAssumption DEF Pile
    <3>2. QED
      BY <1>2, <1>5, <3>1 DEF CrashNeedsDropOrBadParameter
  <2>2. CASE ~(Len(stack) > StackSlots)
    BY <1>2, <2>2, DeathFacts DEF CrashNeedsDropOrBadParameter, Underrun
  <2>3. QED
    BY <2>1, <2>2
<1>12. QED
  BY <1>1, <1>2, <1>8, <1>9, <1>10, <1>11 DEF StackInv

LEMMA FinishStep ==
    ASSUME WeakTypeOK, Control, StackInv, alive, FinishInsert
    PROVE  StackInv'
<1>1. /\ pc = "verdict" /\ pc' = "idle"
      /\ UNCHANGED <<stack, base, before, success, death>>
  BY DEF FinishInsert, stateVars
<1>2. dropped' = dropped + (IF success THEN 0 ELSE 1) /\ dropped \in Nat
  BY DEF FinishInsert, Settle, Count, WeakTypeOK
<1>3. Piled /\ success \in BOOLEAN
  BY DEF StackInv
<1>4. Pile' = Pile + (IF success THEN 0 ELSE 1) /\ Pile \in Nat /\ Pile >= base /\ base \in Nat
  BY <1>1, <1>2, PileType DEF Pile, DropsSinceInit, StackInv
<1>5. Piled'
  <2>1. Len(stack') = Pile' + Above'
    BY <1>1, <1>3, <1>4 DEF Piled, Above
  <2>2. \A i \in 1..Pile' : stack'[i] = "error" <=> i > base'
    BY <1>1, <1>3, <1>4 DEF Piled
  <2>3. QED
    BY <1>1, <2>1, <2>2 DEF Piled
<1>6. QED
  BY <1>1, <1>2, <1>5 DEF StackInv, CrashNeedsDropOrBadParameter, alive

LEMMA NewDriverStep ==
    ASSUME WeakTypeOK, Control, StackInv, NEW hasInitFunc \in BOOLEAN, NEW n \in Nat,
           Begin(hasInitFunc, n), luaState' = "closed" => restored'
    PROVE  StackInv'
<1> DEFINE new == InitialStack(hasInitFunc, n)
<1>1. /\ stack' = new /\ base' = Len(stack') /\ before' = dropped
      /\ UNCHANGED <<pc, success, dropped>>
      /\ death' \in {"script"} \union Deaths(Len(stack))'
      /\ worker = "down"
  BY DEF Begin, Start
<1>2. new \in Seq(Kinds) /\ Len(new) \in Nat /\ \A i \in 1..Len(new) : new[i] # "error"
  BY InitialStackFacts
<1> HIDE DEF new
<1>3. pc' = "idle" /\ dropped \in Nat
  BY <1>1 DEF Control, WeakTypeOK
<1>4. DropsSinceInit' = 0 /\ Pile' = Len(new) /\ Above' = 0
  BY <1>1, <1>2, <1>3 DEF DropsSinceInit, Pile, Above
<1>5. Piled'
  BY <1>1, <1>2, <1>3, <1>4 DEF Piled
<1>6. CrashNeedsDropOrBadParameter'
  <2>1. CASE Len(stack') > StackSlots
    <3>1. CallDepth \in {2, 3}
      BY PileType
    <3>2. base' + DropsSinceInit' + CallDepth + (IF NParams > 0 THEN 2 ELSE 0) > StackSlots
      BY <1>1, <1>2, <1>4, <2>1, <3>1, NParamsAssumption, StackSlotsAssumption
    <3>3. QED
      BY <3>2 DEF CrashNeedsDropOrBadParameter
  <2>2. CASE ~(Len(stack') > StackSlots)
    BY <1>1, <2>2 DEF Deaths, CrashNeedsDropOrBadParameter
  <2>3. QED
    BY <2>1, <2>2
<1>7. QED
  BY <1>1, <1>2, <1>3, <1>5, <1>6 DEF StackInv

LEMMA DeinitStep ==
    ASSUME WeakTypeOK, Control, StackInv, alive, Deinit
    PROVE  StackInv'
<1>1. /\ UNCHANGED <<pc, stack, base, before, dropped, success, restored, bad>>
      /\ death' \in {"script"} \union Deaths(Len(stack) + 1)
      /\ worker = "stopped"
  BY DEF Deinit, GoDown, WorkerGoes
<1>2. pc = "idle" /\ Piled
  BY <1>1 DEF Control, StackInv
<1>3. Len(stack) = Pile
  BY <1>2, PileType DEF Piled, Above
<1>4. UNCHANGED <<Pile, DropsSinceInit, Above>>
  BY <1>1 DEF Pile, DropsSinceInit, Above
<1>5. CrashNeedsDropOrBadParameter'
  <2>1. CASE Len(stack) + 1 > StackSlots
    <3>1. base + DropsSinceInit + CallDepth + (IF NParams > 0 THEN 2 ELSE 0) > StackSlots
      BY <1>3, <2>1, PileType, StackSlotsAssumption DEF Pile
    <3>2. QED
      BY <1>1, <1>4, <3>1 DEF CrashNeedsDropOrBadParameter
  <2>2. CASE ~(Len(stack) + 1 > StackSlots)
    BY <1>1, <2>2, DeathFacts DEF CrashNeedsDropOrBadParameter, Underrun
  <2>3. QED
    BY <2>1, <2>2
<1>6. Piled'
  BY <1>1, <1>2, <1>4 DEF Piled
<1>7. QED
  BY <1>1, <1>2, <1>5, <1>6 DEF StackInv

\* An init that fails leaves the stack of the driver that ran before alone.
LEMMA InitFailsStep ==
    ASSUME WeakTypeOK, StackInv, alive, InitFails
    PROVE  StackInv'
<1>1. /\ UNCHANGED <<pc, stack, base, before, dropped, success>>
      /\ death' = "driver" => Underrun'
  BY DEF InitFails, thrVars
<1>2. UNCHANGED <<Pile, Above>>
  BY <1>1 DEF Pile, DropsSinceInit, Above
<1>3. Piled'
  BY <1>1, <1>2 DEF StackInv, Piled
<1>4. QED
  BY <1>1, <1>3 DEF StackInv, CrashNeedsDropOrBadParameter

\* Every other step leaves the stack and what it is measured by alone.
LEMMA OtherStep ==
    ASSUME StackInv,
           UNCHANGED <<stack, base, before, dropped, success, death, restored, bad>>,
           \/ pc \notin {"params", "call", "verdict"} /\ pc' \notin {"params", "call", "verdict"}
           \/ pc' = pc,
           pc' = "idle" => alive \/ pc = "idle"
    PROVE  StackInv'
<1>1. UNCHANGED <<Pile, DropsSinceInit, alive>>
  BY DEF Pile, DropsSinceInit, alive
<1>2. Above' = Above
  BY DEF Above
<1>3. Piled => Piled'
  BY <1>1, <1>2 DEF Piled
<1>4. CrashNeedsDropOrBadParameter'
  BY <1>1 DEF StackInv, CrashNeedsDropOrBadParameter, Underrun
<1>5. QED
  BY <1>1, <1>3, <1>4 DEF StackInv

LEMMA StackStep ==
    ASSUME WeakTypeOK, Control, StackInv, [Next]_vars
    PROVE  StackInv'
<1>1. CASE alive /\ PushCall
  BY <1>1, PushStep
<1>2. CASE alive /\ AddParameter
  BY <1>2, ParameterStep
<1>3. CASE alive /\ CallScript
  BY <1>3, CallStep
<1>4. CASE alive /\ FinishInsert
  BY <1>4, FinishStep
<1>5. ASSUME NEW hasInitFunc \in BOOLEAN, InitSucceeds(hasInitFunc) PROVE StackInv'
  <2>1. PICK n \in BadGlobals : Begin(hasInitFunc, n)
    BY <1>5 DEF InitSucceeds
  <2>2. n \in Nat /\ luaState' = "open"
    BY <1>5, BadGlobalsAssumption DEF InitSucceeds
  <2>3. QED
    BY <2>1, <2>2, NewDriverStep
<1>6. ASSUME NEW hasInitFunc \in BOOLEAN, Revert(hasInitFunc) PROVE StackInv'
  BY <1>6, NewDriverStep DEF Revert
<1>7. CASE alive /\ Deinit
  BY <1>7, DeinitStep
<1>8. CASE alive /\ \E s \in Sources : SourceStep(s)
  BY <1>8, OtherStep DEF SourceStep, Post, drvVars, stateVars
<1>9. CASE alive /\ (StopRequest \/ LeaveLoop)
  <2>1. UNCHANGED drvVars /\ dropped' = dropped
    BY <1>9 DEF StopRequest, LeaveLoop, Terminate, Exit, WorkerGoes
  <2>2. UNCHANGED <<stack, base, before, success, pc, death, restored, bad>>
    BY <2>1 DEF drvVars, stateVars
  <2>3. QED
    BY <1>9, <2>1, <2>2, OtherStep
<1>10. CASE alive /\ InitFails
  BY <1>10, InitFailsStep
<1>11. CASE alive /\ CallInsert
  BY <1>11, OtherStep DEF CallInsert, Wake, Reopen, WorkerGoes, stateVars, Control
<1>12. CASE alive /\ Pop
  <2>1. pc = "pop" /\ UNCHANGED <<stack, stateVars, left, success, death, dropped>>
    BY <1>12 DEF Pop, PopHead, PopNothing, WorkerGoes
  <2>2. CASE pc' = "push" \/ pc' = "idle"
    BY <1>12, <2>1, <2>2, OtherStep DEF stateVars
  <2>3. QED
    BY <1>12, <2>2 DEF Pop
<1>13. CASE UNCHANGED vars
  BY <1>13, OtherStep DEF vars, thrVars, drvVars, stateVars
<1>14. QED
  BY <1>1, <1>2, <1>3, <1>4, <1>5, <1>6, <1>7, <1>8, <1>9, <1>10, <1>11, <1>12, <1>13
     DEF Next, WorkerStep, MainStep

LEMMA StackInit == Init => StackInv
<1> SUFFICES ASSUME Init PROVE StackInv
  OBVIOUS
<1>1. <<>> \in Seq(Kinds)
  BY EmptySeq
<1>2. stack \in Seq(Kinds)
  BY <1>1, Zenon DEF Init
<1>3. Piled
  BY DEF Init, ThrInit, Piled, Pile, DropsSinceInit, Above
<1>4. QED
  BY <1>2, <1>3 DEF Init, ThrInit, StackInv, CrashNeedsDropOrBadParameter

\* The invariant is inductive, whatever the script does.
THEOREM StackInvariant == LuaSafety => []StackInv
<1>1. LuaSafety => []WeakTypeOK
  BY SafetyKeepsContract, WeakTypeCorrect, PTL
<1>2. WeakTypeOK /\ Control /\ StackInv /\ [Next]_vars => StackInv'
  BY StackStep
<1>3. QED
  BY <1>1, <1>2, ControlHolds, StackInit, PTL DEF LuaSafety

\* Between two inserts the stack is what initialisation left and the errors of
\* all drops since.
THEOREM DropsPileUpHolds == Spec => []DropsPileUp
<1>1. LuaSafety => []WeakTypeOK
  BY SafetyKeepsContract, WeakTypeCorrect, PTL
<1>2. WeakTypeOK /\ StackInv => DropsPileUp
  <2> SUFFICES ASSUME WeakTypeOK, StackInv, pc = "idle"
               PROVE  /\ Len(stack) = base + DropsSinceInit
                      /\ \A i \in DOMAIN stack : stack[i] = "error" <=> i > base
    BY DEF DropsPileUp
  <2>1. Piled /\ stack \in Seq(Kinds)
    BY DEF StackInv
  <2>2. Len(stack) = Pile /\ DOMAIN stack = 1..Len(stack)
    BY <2>1, PileType, LenProperties DEF Piled, Above
  <2>3. QED
    BY <2>1, <2>2 DEF Piled, Pile
<1>3. QED
  BY <1>1, <1>2, StackInvariant, PTL DEF Spec, LuaSafety

\* What the process dies of, when not of its script: drops, a parameter that does
\* not convert, too many bad globals, or a driver that was brought back.
THEOREM CrashesAreExplained == Spec => []CrashNeedsDropOrBadParameter
BY StackInvariant, PTL DEF Spec, LuaSafety, StackInv

-----------------------------------------------------------------------------
\* The batches of the script for Elasticsearch.

\* Division with remainder, and that it is unique.
LEMMA Divided ==
    \A n \in Nat, b \in Nat \ {0} :
        /\ n \div b \in Nat /\ n % b \in 0..(b - 1)
        /\ n = b * (n \div b) + (n % b)
OBVIOUS

LEMMA RemainderIsUnique ==
    ASSUME NEW b \in Nat \ {0}, NEW q \in Int, NEW p \in Int,
           NEW r \in 0..(b - 1), NEW s \in 0..(b - 1), b * q + r = b * p + s
    PROVE  r = s
<1>1. ASSUME NEW x \in Int, NEW y \in Int, x > y PROVE b * x - b * y >= b
  <2>1. b * (x - y) >= b
    BY <1>1
  <2>2. QED
    BY <2>1
<1>2. ~(q > p)
  BY <1>1
<1>3. ~(p > q)
  BY <1>1
<1>4. q = p
  BY <1>2, <1>3
<1>5. QED
  BY <1>4

\* How a remainder goes on.
LEMMA NextRemainder ==
    ASSUME NEW n \in Nat, NEW b \in Nat \ {0}
    PROVE  (n + 1) % b = IF n % b = b - 1 THEN 0 ELSE (n % b) + 1
<1> DEFINE m == n + 1
           r == n % b
           q == n \div b
           s == m % b
           p == m \div b
<1>1. m \in Nat
  OBVIOUS
<1>2. q \in Nat /\ r \in 0..(b - 1) /\ n = b * q + r
  BY Divided
<1>3. p \in Nat /\ s \in 0..(b - 1) /\ m = b * p + s
  <2> HIDE DEF m
  <2>1. QED
    BY <1>1, Divided
<1>4. m = n + 1
  OBVIOUS
<1> HIDE DEF m, r, q, s, p
<1>5. CASE r = b - 1
  <2>1. b * (q + 1) = b * q + b /\ q + 1 \in Int /\ 0 \in 0..(b - 1)
    BY <1>2
  <2>2. b * (q + 1) + 0 = b * p + s
    BY <1>2, <1>3, <1>4, <1>5, <2>1
  <2>3. 0 = s
    BY <1>3, <2>1, <2>2, RemainderIsUnique
  <2>4. QED
    BY <1>5, <2>3 DEF r, s, m
<1>6. CASE r # b - 1
  <2>1. r + 1 \in 0..(b - 1)
    BY <1>2, <1>6
  <2>2. b * q + (r + 1) = b * p + s
    BY <1>2, <1>3, <1>4
  <2>3. q \in Int /\ p \in Int
    BY <1>2, <1>3
  <2>4. r + 1 = s
    BY <1>3, <2>1, <2>2, <2>3, RemainderIsUnique
  <2>5. QED
    BY <1>6, <2>4 DEF r, s, m
<1>7. QED
  BY <1>5, <1>6

EsType ==
    /\ elastic \in BOOLEAN
    /\ msgcount \in Nat
    /\ request \in Seq(Message)
    /\ posts \in Seq([size : Nat, life : Nat, arrives : BOOLEAN])
    /\ unsent \in Nat
    /\ sound \in BOOLEAN

\* The messages that were posted.
Parcels == UNION {{n} \X (1..posts[n].size) : n \in DOMAIN posts}

\* A post weighs its size.
LEMMA ParcelsGrow ==
    ASSUME EsType, IsFiniteSet(Parcels), NEW r \in [size : Nat, life : Nat, arrives : BOOLEAN],
           posts' = Append(posts, r)
    PROVE  /\ PostedInAll \in Nat
           /\ IsFiniteSet(Parcels') /\ PostedInAll' = PostedInAll + r.size
           /\ Len(posts) \in Nat /\ DOMAIN posts = 1..Len(posts)
           /\ DOMAIN posts' = 1..(Len(posts) + 1)
           /\ \A i \in 1..Len(posts) : posts'[i] = posts[i]
           /\ posts'[Len(posts) + 1] = r
<1> DEFINE n == Len(posts)
           new == {n + 1} \X (1..r.size)
<1>1. /\ n \in Nat /\ DOMAIN posts = 1..n /\ DOMAIN posts' = 1..(n + 1)
      /\ \A i \in 1..n : posts'[i] = posts[i]
      /\ posts'[n + 1] = r
  BY AppendProperties, LenProperties DEF EsType
<1>2. r.size \in Nat
  OBVIOUS
<1> HIDE DEF n
<1>3. Parcels' = Parcels \union new
  BY <1>1 DEF Parcels
<1>4. Parcels \intersect new = {}
  BY <1>1 DEF Parcels
<1>5. IsFiniteSet(new) /\ Cardinality(new) = r.size
  <2>1. IsFiniteSet(1..r.size) /\ Cardinality(1..r.size) = r.size
    BY <1>2, CountNumbers
  <2>2. IsFiniteSet({n + 1}) /\ Cardinality({n + 1}) = 1
    BY FS_Singleton
  <2>3. IsFiniteSet(new) /\ Cardinality(new) = Cardinality({n + 1}) * Cardinality(1..r.size)
    BY <2>1, <2>2, FS_Product
  <2> HIDE DEF new
  <2>4. QED
    BY <1>2, <2>1, <2>2, <2>3
<1> HIDE DEF new
<1>6. /\ IsFiniteSet(Parcels \union new)
      /\ Cardinality(Parcels \union new)
            = Cardinality(Parcels) + Cardinality(new) - Cardinality(Parcels \intersect new)
  BY <1>5, FS_Union
<1>7. Cardinality(Parcels) \in Nat /\ Cardinality(Parcels \intersect new) = 0
  BY <1>4, FS_CardinalityType, FS_EmptySet
<1>8. PostedInAll = Cardinality(Parcels) /\ PostedInAll' = Cardinality(Parcels')
  BY DEF PostedInAll, Parcels
<1>9. PostedInAll' = PostedInAll + r.size
  BY <1>2, <1>3, <1>5, <1>6, <1>7, <1>8
<1>10. QED
  BY <1>1, <1>3, <1>6, <1>7, <1>8, <1>9 DEF n

\* Some request of this life was posted.
HasPosted == \E n \in DOMAIN posts : posts[n].life = lives

\* How many messages the request has: in a life that has posted what is left of
\* the count, before that one less than the count.
RequestRight ==
    luaState = "open" =>
        IF HasPosted \/ BatchSize = 1
        THEN Len(request) = msgcount % BatchSize
        ELSE Len(request) + 1 = msgcount /\ msgcount < BatchSize

PostsRight ==
    \A n \in DOMAIN posts :
        /\ posts[n].life <= lives
        /\ posts[n].size = IF FirstOfLife(n) /\ BatchSize > 1 THEN BatchSize - 1 ELSE BatchSize

EsRight ==
    /\ worker # "down" => luaState = "open"
    /\ IsFiniteSet(Parcels)
    /\ stored + (IF pc = "verdict" THEN 1 ELSE 0) = PostedInAll + Len(request) + unsent
    /\ pc = "verdict" => success
    /\ luaState # "open" => request = <<>>
    /\ unsent <= (lives - (IF luaState = "open" THEN 1 ELSE 0)) * (BatchSize - 1)
    /\ PostsRight /\ RequestRight

EsInv == EsType /\ (elastic /\ sound => EsRight)

Holding == pc \in {"push", "params", "call", "verdict"} => held # <<>>

LEMMA HoldingStep == Holding /\ [Next]_vars => Holding'
<1> SUFFICES ASSUME Holding, [Next]_vars PROVE Holding'
  OBVIOUS
<1> USE DEF Holding
<1>1. CASE UNCHANGED <<pc, held>>
  BY <1>1
<1>2. CASE Pop
  <2>1. CASE PopHead /\ pc' = "push"
    <3>1. held' = <<Head(queue)>> /\ <<Head(queue)>> # <<>>
      BY <2>1 DEF PopHead
    <3>2. QED
      BY <3>1
  <2>2. QED
    BY <1>2, <2>1 DEF Pop
<1>3. CASE CallInsert \/ FinishInsert
  BY <1>3 DEF CallInsert, FinishInsert
<1>4. CASE PushCall \/ AddParameter \/ CallScript
  BY <1>4 DEF PushCall, AddParameter, CallScript, thrVars
<1>5. CASE MainStep \/ StopRequest \/ LeaveLoop \/ \E s \in Sources : SourceStep(s)
  BY <1>1, <1>5 DEF MainStep, InitSucceeds, Begin, InitFails, Deinit, Revert, StopRequest, LeaveLoop,
                    SourceStep, Start, GoDown, Terminate, Exit, WorkerGoes, Post, thrVars, drvVars
<1>6. QED
  BY <1>1, <1>2, <1>3, <1>4, <1>5 DEF Next, WorkerStep, vars, thrVars, drvVars

\* The request is always short of a batch.
LEMMA RequestShort ==
    ASSUME EsType, EsRight
    PROVE  Len(request) \in 0..(BatchSize - 1)
<1>1. Len(request) \in Nat
  BY LenProperties DEF EsType
<1>2. CASE luaState # "open"
  BY <1>1, <1>2, BatchSizeAssumption DEF EsRight
<1>3. CASE luaState = "open"
  <2>1. msgcount % BatchSize \in 0..(BatchSize - 1)
    BY Divided, BatchSizeAssumption DEF EsType
  <2>2. CASE HasPosted \/ BatchSize = 1
    BY <1>3, <2>1, <2>2 DEF EsRight, RequestRight
  <2>3. CASE ~(HasPosted \/ BatchSize = 1)
    BY <1>1, <1>3, <2>3, BatchSizeAssumption DEF EsRight, RequestRight, EsType
  <2>4. QED
    BY <2>2, <2>3
<1>4. QED
  BY <1>2, <1>3

\* The queue function: the message goes to the request, and a whole request, or
\* the first one when it is a message short, goes to the server.
LEMMA ElasticQueueStep ==
    ASSUME WeakTypeOK, Control, Holding, EsInv, elastic, sound, ElasticCall
    PROVE  EsInv'
<1> DEFINE n == Len(posts)
           k == Len(request)
           b == BatchSize
           messages == request \o held
           due == (msgcount + 1) % b
<1>1. /\ pc = "call" /\ pc' = "verdict" /\ success'
      /\ UNCHANGED <<stored, lives, luaState, worker>>
  BY DEF ElasticCall, CallScript, thrVars, stateVars
<1>2. /\ msgcount' = msgcount + 1 /\ UNCHANGED <<elastic, unsent, sound>>
      /\ \/ due = 0 /\ \E arrives \in BOOLEAN : Flush(messages, arrives)
         \/ due # 0 /\ request' = messages /\ UNCHANGED posts
  BY DEF ElasticCall, ElasticQueue
<1>3. luaState = "open" /\ luaState' = "open"
  BY <1>1 DEF Control, EsInv, EsRight
<1>4. EsType /\ EsRight
  BY DEF EsInv
<1>5. /\ messages \in Seq(Message) /\ Len(messages) = k + 1
      /\ k \in 0..(b - 1) /\ b \in Nat /\ b > 0
  <2>1. held = <<Head(held)>> /\ Head(held) \in Message
    BY <1>1, HeldFacts DEF Holding
  <2>2. <<Head(held)>> \in Seq(Message) /\ Len(<<Head(held)>>) = 1
    BY <2>1
  <2>3. request \in Seq(Message) /\ held \in Seq(Message) /\ Len(held) = 1
    BY <1>4, <2>1, <2>2 DEF EsType
  <2>4. messages \in Seq(Message) /\ Len(messages) = k + Len(held)
    BY <2>3, ConcatProperties
  <2>5. QED
    BY <1>4, <2>3, <2>4, RequestShort, BatchSizeAssumption
<1>6. /\ msgcount \in Nat /\ unsent \in Nat /\ lives \in Nat /\ stored \in Nat
      /\ PostedInAll \in Nat
  <2>1. IsFiniteSet(Parcels)
    BY <1>4 DEF EsRight
  <2>2. Cardinality(Parcels) \in Nat
    BY <2>1, FS_CardinalityType
  <2>3. QED
    BY <1>4, <2>2 DEF EsType, WeakTypeOK, PostedInAll, Parcels
<1>7. due = IF msgcount % b = b - 1 THEN 0 ELSE (msgcount % b) + 1
  BY <1>6, NextRemainder, BatchSizeAssumption
<1>8. stored = PostedInAll + k + unsent
  BY <1>1, <1>4, <1>6 DEF EsRight
<1>9. /\ HasPosted \/ b = 1 => k = msgcount % b
      /\ ~HasPosted /\ b # 1 => k + 1 = msgcount /\ msgcount < b /\ msgcount % b = msgcount
  <2>1. /\ HasPosted \/ b = 1 => k = msgcount % b
        /\ ~HasPosted /\ b # 1 => k + 1 = msgcount /\ msgcount < b
    BY <1>3, <1>4 DEF EsRight, RequestRight
  <2>2. ASSUME msgcount < b PROVE msgcount % b = msgcount
    <3>1. msgcount \in 0..(b - 1) /\ b \in Nat \ {0}
      BY <1>5, <1>6, <2>2
    <3>2. /\ msgcount \div b \in Nat /\ msgcount % b \in 0..(b - 1)
          /\ msgcount = b * (msgcount \div b) + (msgcount % b)
      BY <1>6, <3>1, Divided
    <3> DEFINE q == msgcount \div b
               r == msgcount % b
    <3> HIDE DEF q, r
    <3>3. q \in Int /\ 0 \in Int /\ r \in 0..(b - 1) /\ b * 0 + msgcount = b * q + r
      BY <3>1, <3>2 DEF q, r
    <3>4. msgcount = r
      BY <3>1, <3>3, RemainderIsUnique
    <3>5. QED
      BY <3>4 DEF r
  <2>3. QED
    BY <2>1, <2>2
<1> DEFINE m == msgcount % b
<1>10. m \in 0..(b - 1)
  <2>1. b \in Nat \ {0}
    BY BatchSizeAssumption
  <2> HIDE DEF b
  <2>2. QED
    BY <1>6, <2>1, Divided
<1>11. (msgcount + 1) % b = due
  OBVIOUS
<1> HIDE DEF n, k, b, messages, due, m
<1>12. b = BatchSize
  BY DEF b
<1>13. CASE due # 0
  <2>1. request' = messages /\ posts' = posts
    BY <1>2, <1>13
  <2>2. Parcels' = Parcels /\ PostedInAll' = PostedInAll /\ HasPosted' = HasPosted
    BY <1>1, <2>1 DEF Parcels, PostedInAll, HasPosted
  <2>3. EsType'
    BY <1>2, <1>4, <1>5, <1>6, <2>1 DEF EsType
  <2>4. due = m + 1
    BY <1>7, <1>13 DEF m
  <2>5. RequestRight'
    <3>1. CASE HasPosted \/ b = 1
      <4>1. Len(request') = due
        BY <1>5, <1>9, <2>1, <2>4, <3>1 DEF m
      <4>2. QED
        BY <1>2, <1>11, <1>12, <2>2, <3>1, <4>1 DEF RequestRight
    <3>2. CASE ~(HasPosted \/ b = 1)
      <4>1. m = msgcount /\ k + 1 = msgcount /\ msgcount < b
        BY <1>9, <3>2 DEF m
      <4>2. m # b - 1
        BY <1>7, <1>13 DEF m
      <4>3. Len(request') + 1 = msgcount' /\ msgcount' < b
        BY <1>2, <1>5, <1>6, <2>1, <4>1, <4>2
      <4>4. QED
        BY <1>12, <2>2, <3>2, <4>3 DEF RequestRight
    <3>3. QED
      BY <3>1, <3>2
  <2>6. stored' + 1 = PostedInAll' + Len(request') + unsent'
    BY <1>1, <1>2, <1>5, <1>6, <1>8, <2>1, <2>2
  <2>7. PostsRight'
    BY <1>1, <1>4, <2>1 DEF EsRight, PostsRight, FirstOfLife
  <2>8. EsRight'
    BY <1>1, <1>2, <1>3, <1>4, <2>2, <2>5, <2>6, <2>7 DEF EsRight
  <2>9. QED
    BY <2>3, <2>8 DEF EsInv
<1>14. CASE due = 0
  <2>1. PICK arrives \in BOOLEAN : Flush(messages, arrives)
    BY <1>2, <1>14
  <2> DEFINE r == [size |-> k + 1, life |-> lives, arrives |-> arrives]
  <2>2. posts' = Append(posts, r) /\ request' = <<>>
    BY <1>5, <2>1 DEF Flush
  <2>3. r \in [size : Nat, life : Nat, arrives : BOOLEAN] /\ r.size = k + 1 /\ r.life = lives
    BY <1>5, <1>6
  <2> HIDE DEF r
  <2>4. /\ IsFiniteSet(Parcels') /\ PostedInAll' = PostedInAll + (k + 1)
        /\ n \in Nat /\ DOMAIN posts = 1..n
        /\ DOMAIN posts' = 1..(n + 1)
        /\ \A i \in 1..n : posts'[i] = posts[i]
        /\ posts'[n + 1] = r
    BY <1>4, <2>2, <2>3, ParcelsGrow DEF EsRight, n
  <2>5. m = b - 1
    BY <1>7, <1>10, <1>14 DEF m
  <2>6. Len(request') = 0
    BY <2>2
  <2>7. EsType'
    <3>1. posts' \in Seq([size : Nat, life : Nat, arrives : BOOLEAN])
      BY <1>4, <2>2, <2>3, AppendProperties DEF EsType
    <3>2. <<>> \in Seq(Message)
      BY EmptySeq
    <3>3. request' \in Seq(Message)
      BY <2>2, <3>2
    <3>4. QED
      BY <1>2, <1>4, <1>6, <3>1, <3>3 DEF EsType
  <2>8. r.size = IF ~HasPosted /\ b # 1 THEN b - 1 ELSE b
    <3>1. CASE HasPosted \/ b = 1
      BY <1>5, <1>9, <2>3, <2>5, <3>1 DEF m
    <3>2. CASE ~(HasPosted \/ b = 1)
      BY <1>5, <1>9, <2>3, <2>5, <3>2 DEF m
    <3>3. QED
      BY <3>1, <3>2
  <2>9. PostsRight'
    <3>1. ASSUME NEW i \in 1..n
          PROVE  /\ posts'[i].life <= lives'
                 /\ FirstOfLife(i)' = FirstOfLife(i)
                 /\ posts'[i].size = IF FirstOfLife(i) /\ b > 1 THEN b - 1 ELSE b
      <4>1. posts'[i] = posts[i] /\ \A j \in 1..(i - 1) : posts'[j] = posts[j]
        BY <2>4
      <4>2. FirstOfLife(i)' = FirstOfLife(i)
        BY <4>1 DEF FirstOfLife
      <4>3. /\ posts[i].life <= lives
            /\ posts[i].size = IF FirstOfLife(i) /\ b > 1 THEN b - 1 ELSE b
        BY <1>4, <1>12, <2>4 DEF EsRight, PostsRight
      <4>4. QED
        BY <1>1, <4>1, <4>2, <4>3
    <3>2. ASSUME NEW i \in 1..(n + 1), i = n + 1
          PROVE  /\ posts'[i].life <= lives'
                 /\ posts'[i].size = IF FirstOfLife(i)' /\ b > 1 THEN b - 1 ELSE b
      <4>1. i - 1 = n /\ posts'[i] = r
        BY <2>4, <3>2
      <4>2. FirstOfLife(i)' <=> \A j \in 1..n : posts'[j].life # posts'[i].life
        BY <4>1 DEF FirstOfLife
      <4>3. FirstOfLife(i)' <=> ~HasPosted
        BY <2>3, <2>4, <4>1, <4>2 DEF HasPosted
      <4>4. b > 1 <=> b # 1
        BY <1>5
      <4>5. QED
        BY <1>1, <1>6, <2>3, <2>8, <4>1, <4>3, <4>4
    <3>3. ASSUME NEW i \in 1..(n + 1)
          PROVE  /\ posts'[i].life <= lives'
                 /\ posts'[i].size = IF FirstOfLife(i)' /\ b > 1 THEN b - 1 ELSE b
      <4>1. CASE i \in 1..n
        BY <3>1, <4>1
      <4>2. CASE i = n + 1
        BY <3>2, <4>2
      <4>3. QED
        BY <2>4, <4>1, <4>2
    <3>4. QED
      BY <1>12, <2>4, <3>3 DEF PostsRight
  <2>10. RequestRight'
    <3>1. n + 1 \in DOMAIN posts' /\ posts'[n + 1].life = lives'
      BY <1>1, <2>3, <2>4
    <3>2. HasPosted'
      BY <3>1 DEF HasPosted
    <3>3. Len(request') = msgcount' % b
      BY <1>2, <1>11, <1>14, <2>6
    <3>4. QED
      BY <1>12, <3>2, <3>3 DEF RequestRight
  <2>11. stored' + 1 = PostedInAll' + Len(request') + unsent'
    BY <1>1, <1>2, <1>5, <1>6, <1>8, <2>4, <2>6
  <2>12. EsRight'
    BY <1>1, <1>2, <1>3, <1>4, <2>4, <2>9, <2>10, <2>11 DEF EsRight
  <2>13. QED
    BY <2>7, <2>12 DEF EsInv
<1>15. QED
  BY <1>13, <1>14

\* A new life begins with a count of one and an empty request.
LEMMA ElasticInitStep ==
    ASSUME WeakTypeOK, Control, EsInv, elastic, ElasticInit, sound'
    PROVE  EsInv'
<1>1. /\ worker = "down" /\ lives' = lives + 1 /\ luaState' = "open"
      /\ msgcount' = 1 /\ request' = <<>> /\ sound
      /\ UNCHANGED <<elastic, posts, unsent, stored, pc, success>>
  BY DEF ElasticInit, InitSucceeds, Revert, Begin, Start
<1>2. luaState # "open" /\ request = <<>> /\ EsType /\ EsRight /\ pc # "verdict"
  BY <1>1 DEF Control, EsInv, EsRight
<1>3. Parcels' = Parcels /\ PostedInAll' = PostedInAll
  BY <1>1 DEF Parcels, PostedInAll
<1>4. lives \in Nat /\ BatchSize \in Nat /\ BatchSize > 0
  BY BatchSizeAssumption DEF WeakTypeOK
<1>5. EsType'
  BY <1>1, <1>2 DEF EsType
<1>6. PostsRight' /\ ~HasPosted'
  <2>1. \A n \in DOMAIN posts : posts[n].life \in Nat /\ posts[n].life <= lives
    <3>1. \A n \in DOMAIN posts : posts[n] \in [size : Nat, life : Nat, arrives : BOOLEAN]
      BY <1>2, ElementOfSeq, LenProperties DEF EsType
    <3>2. QED
      BY <1>2, <3>1 DEF EsRight, PostsRight
  <2>2. ~HasPosted'
    BY <1>1, <1>4, <2>1 DEF HasPosted
  <2>3. \A n \in DOMAIN posts : posts[n].life <= lives'
    BY <1>1, <1>4, <2>1
  <2>4. QED
    BY <1>1, <1>2, <2>2, <2>3 DEF EsRight, PostsRight, FirstOfLife
<1>7. RequestRight'
  <2>1. Len(request') = 0
    BY <1>1
  <2>2. CASE BatchSize = 1
    <3>1. 1 % BatchSize \in 0..(BatchSize - 1)
      BY Divided, BatchSizeAssumption
    <3>2. 1 % BatchSize = 0
      BY <2>2, <3>1
    <3>3. QED
      BY <1>1, <2>1, <2>2, <3>2 DEF RequestRight
  <2>3. CASE BatchSize # 1
    BY <1>1, <1>4, <1>6, <2>1, <2>3 DEF RequestRight
  <2>4. QED
    BY <2>2, <2>3
<1>8. unsent' <= (lives' - 1) * (BatchSize - 1)
  <2>1. lives' - 1 = lives - 0
    BY <1>1, <1>4
  <2>2. unsent <= (lives - 0) * (BatchSize - 1)
    BY <1>2 DEF EsRight
  <2>3. QED
    BY <1>1, <2>1, <2>2
<1>9. EsRight'
  BY <1>1, <1>2, <1>3, <1>6, <1>7, <1>8 DEF EsRight
<1>10. QED
  BY <1>5, <1>9 DEF EsInv

\* A deinit takes the request with it.
LEMMA ElasticDeinitStep ==
    ASSUME WeakTypeOK, Control, EsInv, elastic, sound, ElasticDeinit
    PROVE  EsInv'
<1> DEFINE k == Len(request)
           b == BatchSize - 1
<1>1. /\ worker = "stopped" /\ worker' = "down" /\ luaState' = "closed"
      /\ request' = <<>> /\ unsent' = unsent + k
      /\ UNCHANGED <<elastic, sound, posts, msgcount, lives, stored, pc, success>>
  BY DEF ElasticDeinit, Deinit, GoDown, WorkerGoes, Close
<1>2. luaState = "open" /\ EsType /\ EsRight /\ pc # "verdict"
  BY <1>1 DEF Control, EsInv, EsRight
<1>3. Parcels' = Parcels /\ PostedInAll' = PostedInAll
  BY <1>1 DEF Parcels, PostedInAll
<1>4. k \in 0..b /\ b \in Nat /\ lives \in Nat /\ unsent \in Nat
  BY <1>2, RequestShort, BatchSizeAssumption DEF EsType, WeakTypeOK
<1>5. EsType'
  <2>1. <<>> \in Seq(Message)
    BY EmptySeq
  <2>2. request' \in Seq(Message)
    BY <1>1, <2>1
  <2>3. unsent' \in Nat
    BY <1>1, <1>4
  <2>4. QED
    BY <1>1, <1>2, <2>2, <2>3 DEF EsType
<1>6. PostsRight' /\ RequestRight'
  BY <1>1, <1>2 DEF EsRight, PostsRight, FirstOfLife, RequestRight
<1>7. stored' = PostedInAll' + Len(request') + unsent'
  <2>1. Cardinality(Parcels) \in Nat
    BY <1>2, FS_CardinalityType DEF EsRight
  <2>2. PostedInAll \in Nat /\ stored \in Nat
    BY <2>1 DEF PostedInAll, Parcels, WeakTypeOK
  <2>3. stored + 0 = PostedInAll + k + unsent
    BY <1>2 DEF EsRight
  <2>4. Len(request') = 0
    BY <1>1
  <2> HIDE DEF k
  <2>5. QED
    BY <1>1, <1>3, <1>4, <2>2, <2>3, <2>4
<1>8. unsent' <= (lives' - 0) * b
  <2>1. unsent <= (lives - 1) * b
    BY <1>2 DEF EsRight
  <2> HIDE DEF k, b
  <2>2. (lives - 1) * b + b = lives * b
    BY <1>4
  <2>3. (lives - 1) * b \in Int /\ lives * b \in Int
    BY <1>4
  <2> DEFINE x == (lives - 1) * b
             y == lives * b
  <2> HIDE DEF x, y
  <2>4. x \in Int /\ y \in Int /\ x + b = y /\ unsent <= x
    BY <2>1, <2>2, <2>3 DEF x, y
  <2>5. unsent' <= y
    BY <1>1, <1>4, <2>4
  <2>6. QED
    BY <1>1, <1>4, <2>5 DEF y
<1>9. EsRight'
  BY <1>1, <1>2, <1>3, <1>6, <1>7, <1>8 DEF EsRight
<1>10. QED
  BY <1>5, <1>9 DEF EsInv

\* On any state the globals of the script stay what they are.
LEMMA EsTypeStep ==
    ASSUME WeakTypeOK, Holding, EsType, [EsNext]_<<vars, esVars>>
    PROVE  EsType'
<1>1. CASE UNCHANGED esVars
  BY <1>1 DEF esVars, EsType
<1>2. CASE ElasticInit
  <2>1. <<>> \in Seq(Message)
    BY EmptySeq
  <2>2. request' \in Seq(Message) /\ msgcount' \in Nat
    <3>1. CASE elastic
      <4>1. request' = <<>> /\ msgcount' = 1
        BY <1>2, <3>1 DEF ElasticInit
      <4>2. QED
        BY <2>1, <4>1
    <3>2. CASE ~elastic
      BY <1>2, <3>2 DEF ElasticInit, EsType
    <3>3. QED
      BY <3>1, <3>2
  <2>3. sound' \in BOOLEAN /\ UNCHANGED <<elastic, posts, unsent>>
    BY <1>2 DEF ElasticInit
  <2>4. QED
    BY <2>2, <2>3 DEF EsType
<1>3. CASE ElasticDeinit
  <2>1. Len(request) \in Nat
    BY LenProperties DEF EsType
  <2>2. <<>> \in Seq(Message)
    BY EmptySeq
  <2>3. request' \in Seq(Message)
    BY <1>3, <2>2 DEF ElasticDeinit
  <2>4. QED
    BY <1>3, <2>1, <2>3 DEF ElasticDeinit, EsType
<1>4. CASE ElasticCall /\ elastic
  <2> DEFINE messages == request \o held
  <2>1. pc = "call" /\ ElasticQueue
    BY <1>4 DEF ElasticCall, CallScript
  <2>2. messages \in Seq(Message) /\ Len(messages) \in Nat
    <3>1. held = <<Head(held)>> /\ Head(held) \in Message
      BY <2>1, HeldFacts DEF Holding
    <3>2. <<Head(held)>> \in Seq(Message)
      BY <3>1
    <3>3. request \in Seq(Message) /\ held \in Seq(Message)
      BY <3>1, <3>2 DEF EsType
    <3>4. QED
      BY <3>3, ConcatProperties, LenProperties
  <2> HIDE DEF messages
  <2>3. /\ msgcount' = msgcount + 1 /\ UNCHANGED <<elastic, unsent, sound>>
        /\ \/ \E arrives \in BOOLEAN : Flush(messages, arrives)
           \/ request' = messages /\ UNCHANGED posts
    BY <2>1 DEF ElasticQueue, messages
  <2>4. request' \in Seq(Message)
    <3>1. <<>> \in Seq(Message)
      BY EmptySeq
    <3>2. request' = <<>> \/ request' = messages
      BY <2>3 DEF Flush
    <3>3. QED
      BY <2>2, <3>1, <3>2
  <2>5. posts' \in Seq([size : Nat, life : Nat, arrives : BOOLEAN])
    <3>1. CASE UNCHANGED posts
      BY <3>1 DEF EsType
    <3>2. ASSUME NEW arrives \in BOOLEAN, Flush(messages, arrives)
          PROVE  posts' \in Seq([size : Nat, life : Nat, arrives : BOOLEAN])
      <4> DEFINE p == [size |-> Len(messages), life |-> lives, arrives |-> arrives]
      <4>1. p \in [size : Nat, life : Nat, arrives : BOOLEAN]
        BY <2>2 DEF WeakTypeOK
      <4>2. posts' = Append(posts, p)
        BY <3>2 DEF Flush
      <4> HIDE DEF p
      <4>3. QED
        BY <4>1, <4>2, AppendProperties DEF EsType
    <3>3. QED
      BY <2>3, <3>1, <3>2
  <2>6. QED
    BY <2>3, <2>4, <2>5 DEF EsType
<1>5. QED
  BY <1>1, <1>2, <1>3, <1>4 DEF EsNext, ElasticCall

LEMMA EsInvStep ==
    ASSUME WeakTypeOK, Control, Holding, EsInv, [EsNext]_<<vars, esVars>>
    PROVE  EsInv'
<1>1. EsType'
  BY EsTypeStep DEF EsInv
<1>2. SUFFICES ASSUME elastic', sound' PROVE EsRight'
  BY <1>1 DEF EsInv
<1>3. elastic /\ sound
  BY <1>2 DEF EsNext, ElasticInit, ElasticDeinit, ElasticCall, ElasticQueue, esVars
<1>4. CASE ElasticInit
  BY <1>2, <1>3, <1>4, ElasticInitStep DEF EsInv
<1>5. CASE ElasticDeinit
  BY <1>2, <1>3, <1>5, ElasticDeinitStep DEF EsInv
<1>6. CASE ElasticCall
  BY <1>2, <1>3, <1>6, ElasticQueueStep DEF EsInv
<1>7. EsRight
  BY <1>3 DEF EsInv
<1>8. CASE FinishInsert /\ UNCHANGED esVars
  <2>1. /\ UNCHANGED <<msgcount, request, posts, unsent, lives, luaState>>
        /\ pc = "verdict" /\ pc' = "idle" /\ success /\ worker = "insert"
    BY <1>7, <1>8 DEF FinishInsert, Settle, GiveVerdict, stateVars, esVars, EsRight
  <2>2. Parcels' = Parcels /\ PostedInAll' = PostedInAll /\ PostsRight' = PostsRight
        /\ RequestRight' = RequestRight
    BY <2>1 DEF Parcels, PostedInAll, PostsRight, FirstOfLife, RequestRight, HasPosted
  <2>3. stored' = stored + 1
    BY <1>8, <2>1 DEF FinishInsert, Settle, Count
  <2>4. QED
    BY <1>7, <2>1, <2>2, <2>3 DEF EsRight, WeakTypeOK
<1>9. CASE /\ UNCHANGED <<msgcount, request, posts, unsent, lives, luaState, stored>>
           /\ UNCHANGED <<pc, success>> \/ (pc # "verdict" /\ pc' # "verdict")
           /\ worker = "down" => worker' = "down"
  <2>1. Parcels' = Parcels /\ PostedInAll' = PostedInAll /\ PostsRight' = PostsRight
        /\ RequestRight' = RequestRight
    BY <1>9 DEF Parcels, PostedInAll, PostsRight, FirstOfLife, RequestRight, HasPosted
  <2>2. QED
    BY <1>7, <1>9, <2>1 DEF EsRight
<1>10. CASE UNCHANGED <<vars, esVars>>
  BY <1>9, <1>10 DEF vars, thrVars, drvVars, stateVars, esVars
<1>11. CASE ((\E s \in Sources : SourceStep(s)) \/ StopRequest \/ LeaveLoop) /\ UNCHANGED esVars
  BY <1>9, <1>11 DEF SourceStep, Post, StopRequest, Terminate, LeaveLoop, Exit, WorkerGoes, drvVars,
                     stateVars, esVars
<1>12. CASE InitFails /\ UNCHANGED esVars
  BY <1>9, <1>12 DEF InitFails, thrVars, esVars
<1>13. CASE (CallInsert \/ Pop \/ PushCall \/ AddParameter) /\ UNCHANGED esVars
  BY <1>9, <1>13 DEF CallInsert, Wake, Reopen, Pop, PopHead, PopNothing, WorkerGoes, PushCall,
                     AddParameter, Control, thrVars, stateVars, esVars
<1>14. QED
  BY <1>4, <1>5, <1>6, <1>8, <1>10, <1>11, <1>12, <1>13 DEF EsNext

LEMMA EsInvInit == EsInit => EsInv
<1> SUFFICES ASSUME EsInit PROVE EsInv
  OBVIOUS
<1>1. <<>> \in Seq(Message) /\ <<>> \in Seq([size : Nat, life : Nat, arrives : BOOLEAN])
  BY EmptySeq
<1>2. request \in Seq(Message) /\ posts \in Seq([size : Nat, life : Nat, arrives : BOOLEAN])
  BY <1>1, Zenon DEF EsInit
<1>3. EsType
  BY <1>2 DEF EsInit, EsType
<1>4. posts = <<>> /\ DOMAIN posts = {} /\ Len(request) = 0
  BY DEF EsInit
<1>5. Parcels = {}
  BY <1>4 DEF Parcels
<1>6. IsFiniteSet(Parcels) /\ PostedInAll = 0
  BY <1>5, FS_EmptySet DEF PostedInAll, Parcels
<1>7. PostsRight /\ RequestRight
  BY <1>4 DEF PostsRight, RequestRight, EsInit, Init
<1>8. unsent <= (lives - 0) * (BatchSize - 1)
  BY BatchSizeAssumption DEF EsInit, Init, ThrInit
<1>9. EsRight
  BY <1>4, <1>6, <1>7, <1>8 DEF EsRight, EsInit, Init, ThrInit
<1>10. QED
  BY <1>3, <1>9 DEF EsInv

\* Every message counted as stored was posted once, is in the request, or went
\* with the state of a driver, and each request but the first of a life is of
\* the size it should have.
THEOREM BatchesHold == EsSpec => []BatchesAreWhole
<1>1. LuaSafety => []WeakTypeOK
  BY SafetyKeepsContract, WeakTypeCorrect, PTL
<1>2. LuaSafety => []Holding
  <2>1. Init => Holding
    BY DEF Init, Holding
  <2>2. QED
    BY <2>1, HoldingStep, PTL DEF LuaSafety
<1>3. WeakTypeOK /\ Control /\ Holding /\ EsInv /\ [EsNext]_<<vars, esVars>> => EsInv'
  BY EsInvStep
<1>4. WeakTypeOK /\ EsInv => BatchesAreWhole
  <2> SUFFICES ASSUME WeakTypeOK, EsInv, elastic, sound, pc = "idle"
               PROVE  /\ stored = PostedInAll + Len(request) + unsent
                      /\ unsent <= lives * (BatchSize - 1)
                      /\ \A n \in DOMAIN posts :
                            posts[n].size = IF FirstOfLife(n) /\ BatchSize > 1
                                            THEN BatchSize - 1 ELSE BatchSize
    BY DEF BatchesAreWhole
  <2>1. EsType /\ EsRight
    BY DEF EsInv
  <2>2. stored = PostedInAll + Len(request) + unsent
    BY <2>1 DEF EsRight, WeakTypeOK
  <2>3. unsent <= lives * (BatchSize - 1)
    <3> DEFINE b == BatchSize - 1
    <3>1. b \in Nat /\ lives \in Nat /\ unsent \in Nat
      BY <2>1, BatchSizeAssumption DEF EsType, WeakTypeOK
    <3>2. unsent <= (lives - 1) * b \/ unsent <= (lives - 0) * b
      BY <2>1 DEF EsRight
    <3> HIDE DEF b
    <3>3. (lives - 1) * b + b = lives * b /\ (lives - 1) * b \in Int /\ lives * b \in Int
      BY <3>1
    <3>4. unsent <= lives * b
      BY <3>1, <3>2, <3>3
    <3>5. QED
      BY <3>4 DEF b
  <2>4. QED
    BY <2>1, <2>2, <2>3 DEF EsRight, PostsRight
<1>5. QED
  BY <1>1, <1>2, <1>3, <1>4, EsInvInit, EsIsLua, ControlHolds, PTL DEF EsSpec

-----------------------------------------------------------------------------
\* The objects of a Lua script.

\* The type invariant is inductive on its own: objects come to be only while the
\* state is open, and handles only with them.
LEMMA ObjTypeInit == ObjInit => ObjTypeOK
BY DEF ObjInit, ObjTypeOK, ObjKinds

\* A new object of any kind with a handle, while a function runs, is well typed.
LEMMA CreateTyped ==
    ASSUME ObjTypeOK, NEW o \in Objects, NEW k \in {"queued", "made", "template"},
           NEW n \in 1..2, Create(o, k, n)
    PROVE  /\ kind' \in [Objects -> ObjKinds]
           /\ refs' \in [Objects -> 0..2]
           /\ handle' \in [Objects -> {"none", "live", "gone"}]
           /\ reach' \in [Objects -> BOOLEAN]
           /\ kind'[o] = k /\ \A p \in working : kind'[p] = "queued"
           /\ \A p \in Objects :
                 /\ handle'[p] = "none" <=> kind'[p] \in {"unborn", "broken"}
                 /\ reach'[p] => handle'[p] = "live"
BY DEF Create, ObjTypeOK, ObjKinds

\* Releasing references keeps them within their bounds.
LEMMA UnrefTyped ==
    ASSUME ObjTypeOK, NEW os, Unref(os)
    PROVE  refs' \in [Objects -> 0..2] /\ crash' \in {"no", "freed"}
BY DEF Unref, Touch, ObjTypeOK

LEMMA ObjTypeStep == ObjTypeOK /\ [ObjNext]_objVars => ObjTypeOK'
<1> SUFFICES ASSUME ObjTypeOK, [ObjNext]_objVars PROVE ObjTypeOK'
  OBVIOUS
<1>1. ASSUME NEW o \in Objects, MessageNew(o) PROVE ObjTypeOK'
  <2>1. Create(o, "made", 2)
    BY <1>1 DEF MessageNew, CreateFromLogmsg
  <2>2. QED
    BY <1>1, <2>1, CreateTyped DEF MessageNew, Running, ObjTypeOK
<1>2. ASSUME NEW o \in Objects, TemplateNew(o) PROVE ObjTypeOK'
  BY <1>2, CreateTyped DEF TemplateNew, Running, ObjTypeOK
<1>3. ASSUME NEW o \in Objects, TemplateFails(o) PROVE ObjTypeOK'
  BY <1>3 DEF TemplateFails, ObjTypeOK, ObjKinds
<1>4. CASE UseOther \/ \E o \in Objects : UseObject(o) \/ Forget(o)
  BY <1>4 DEF UseOther, UseObject, Forget, Touch, ObjTypeOK
<1>5. ASSUME NEW o \in Objects, FinaliseByHand(o) PROVE ObjTypeOK'
  BY <1>5, UnrefTyped DEF FinaliseByHand, ObjTypeOK
<1>6. ASSUME NEW o \in Objects, Collect(o) PROVE ObjTypeOK'
  BY <1>6, UnrefTyped DEF Collect, Running, ObjTypeOK
<1>7. CASE LoadFile \/ InitReturns \/ CallDeinit \/ DeinitRefused
  BY <1>7 DEF LoadFile, InitReturns, CallDeinit, DeinitRefused, ObjTypeOK
<1>8. ASSUME NEW o \in Objects, CallQueueFunc(o) PROVE ObjTypeOK'
  <2>1. Create(o, "queued", 2)
    BY <1>8 DEF CallQueueFunc, CreateFromLogmsg
  <2>2. QED
    BY <1>8, <2>1, CreateTyped DEF CallQueueFunc, ObjTypeOK
<1>9. CASE AcceptMessage
  BY <1>9, UnrefTyped DEF AcceptMessage, ObjTypeOK
<1>10. CASE CloseState
  BY <1>10, UnrefTyped DEF CloseState, Live, ObjTypeOK
<1>11. CASE UNCHANGED objVars
  BY <1>11 DEF objVars, ObjTypeOK
<1>12. QED
  BY <1>1, <1>2, <1>3, <1>4, <1>5, <1>6, <1>7, <1>8, <1>9, <1>10, <1>11
     DEF ObjNext, ScriptStep, ObjDriverStep

\* The states and counts of the objects are what they can be.
THEOREM ObjectsTypeCorrect == ObjSpec => []ObjTypeOK
BY ObjTypeInit, ObjTypeStep, PTL DEF ObjSpec

-----------------------------------------------------------------------------
\* References.

\* What an owner takes with it: if each object of os had one owner more than it
\* has afterwards, releasing them keeps counts and owners together.
LEMMA UnrefKeepsCount ==
    ASSUME ObjTypeOK, RefsAreOwners, NEW os, Unref(os),
           byHand' = byHand, kind' = kind,
           \A o \in Objects : Owners(o)' \in Nat,
           \A o \in Objects : Owners(o) = Owners(o)' + OneIf(o \in os)
    PROVE  RefsAreOwners'
<1> SUFFICES ASSUME NEW o \in Objects
             PROVE  IF o \in byHand THEN refs'[o] <= Owners(o)' ELSE refs'[o] = Owners(o)'
  BY DEF RefsAreOwners
<1>1. refs[o] \in Nat /\ (IF o \in byHand THEN refs[o] <= Owners(o) ELSE refs[o] = Owners(o))
  BY DEF ObjTypeOK, RefsAreOwners
<1>2. refs'[o] = IF o \in os /\ refs[o] > 0 THEN refs[o] - 1 ELSE refs[o]
  BY DEF Unref
<1>3. Owners(o)' \in Nat /\ Owners(o) = Owners(o)' + (IF o \in os THEN 1 ELSE 0)
  BY DEF OneIf
<1> HIDE DEF Owners
<1>4. QED
  BY <1>1, <1>2, <1>3

\* Creating an object with as many references as it has owners.
LEMMA CreateKeepsCount ==
    ASSUME ObjTypeOK, RefsAreOwners, NEW o \in Objects, NEW k, NEW n \in Nat, Create(o, k, n),
           byHand' = byHand, n = Owners(o)',
           \A p \in Objects \ {o} : (p \in working') <=> (p \in working)
    PROVE  RefsAreOwners'
<1> SUFFICES ASSUME NEW p \in Objects
             PROVE  IF p \in byHand THEN refs'[p] <= Owners(p)' ELSE refs'[p] = Owners(p)'
  BY DEF RefsAreOwners
<1>1. CASE p = o
  <2>1. refs'[o] = n
    BY DEF Create, ObjTypeOK
  <2>2. QED
    BY <1>1, <2>1
<1>2. CASE p # o
  <2>1. refs'[p] = refs[p] /\ kind'[p] = kind[p] /\ handle'[p] = handle[p]
    BY <1>2 DEF Create, ObjTypeOK
  <2>2. Owners(p)' = Owners(p)
    BY <1>2, <2>1 DEF Owners
  <2>3. QED
    BY <2>1, <2>2 DEF RefsAreOwners
<1>3. QED
  BY <1>1, <1>2

LEMMA RefsInit == ObjInit => RefsAreOwners
BY DEF ObjInit, RefsAreOwners, Owners, OneIf

LEMMA RefsStep == ObjTypeOK /\ RefsAreOwners /\ [ObjNext]_objVars => RefsAreOwners'
<1> SUFFICES ASSUME ObjTypeOK, RefsAreOwners, [ObjNext]_objVars PROVE RefsAreOwners'
  OBVIOUS
<1>0. \A o \in Objects : Owners(o) \in Nat /\ Owners(o)' \in Nat
  BY DEF Owners, OneIf
<1>1. ASSUME NEW o \in Objects, MessageNew(o) PROVE RefsAreOwners'
  <2>1. Create(o, "made", 2)
    BY <1>1 DEF MessageNew, CreateFromLogmsg
  <2>2. o \notin working
    BY <2>1 DEF Create, ObjTypeOK
  <2>3. 2 = Owners(o)' /\ working' = working /\ byHand' = byHand
    BY <1>1, <2>1, <2>2 DEF MessageNew, Create, Owners, OneIf, ObjTypeOK
  <2>4. QED
    BY <2>1, <2>3, CreateKeepsCount
<1>2. ASSUME NEW o \in Objects, TemplateNew(o) PROVE RefsAreOwners'
  <2>1. Create(o, "template", 1)
    BY <1>2 DEF TemplateNew
  <2>2. o \notin working
    BY <2>1 DEF Create, ObjTypeOK
  <2>3. 1 = Owners(o)' /\ working' = working /\ byHand' = byHand
    BY <1>2, <2>1, <2>2 DEF TemplateNew, Create, Owners, OneIf, ObjTypeOK
  <2>4. QED
    BY <2>1, <2>3, CreateKeepsCount
<1>3. ASSUME NEW o \in Objects, TemplateFails(o) PROVE RefsAreOwners'
  <2>1. o \notin working /\ handle[o] = "none"
    BY <1>3 DEF TemplateFails, ObjTypeOK
  <2>2. \A p \in Objects : p # o => refs'[p] = refs[p] /\ Owners(p)' = Owners(p)
    BY <1>3 DEF TemplateFails, ObjTypeOK, Owners
  <2>3. refs'[o] = 1 /\ Owners(o)' = 1
    BY <1>3, <2>1 DEF TemplateFails, ObjTypeOK, Owners, OneIf
  <2>4. byHand' = byHand
    BY <1>3 DEF TemplateFails
  <2>5. QED
    BY <2>2, <2>3, <2>4 DEF RefsAreOwners
<1>4. CASE \/ UseOther \/ LoadFile \/ InitReturns \/ CallDeinit \/ DeinitRefused
           \/ \E o \in Objects : UseObject(o) \/ Forget(o)
  <2>1. UNCHANGED <<refs, kind, handle, working, byHand>>
    BY <1>4 DEF UseOther, LoadFile, InitReturns, CallDeinit, DeinitRefused, UseObject, Forget
  <2>2. QED
    BY <2>1 DEF RefsAreOwners, Owners
<1>5. ASSUME NEW o \in Objects, FinaliseByHand(o) PROVE RefsAreOwners'
  <2> SUFFICES ASSUME NEW p \in Objects
               PROVE  IF p \in byHand' THEN refs'[p] <= Owners(p)' ELSE refs'[p] = Owners(p)'
    BY DEF RefsAreOwners
  <2>1. Owners(p)' = Owners(p) /\ Owners(p) \in Nat
    BY <1>0, <1>5 DEF FinaliseByHand, Owners
  <2>2. refs[p] \in Nat /\ (IF p \in byHand THEN refs[p] <= Owners(p) ELSE refs[p] = Owners(p))
    BY DEF ObjTypeOK, RefsAreOwners
  <2>3. refs'[p] = IF p = o /\ refs[p] > 0 THEN refs[p] - 1 ELSE refs[p]
    BY <1>5 DEF FinaliseByHand, Unref
  <2>4. byHand' = byHand \union {o}
    BY <1>5 DEF FinaliseByHand
  <2>5. QED
    BY <2>1, <2>2, <2>3, <2>4
<1>6. ASSUME NEW o \in Objects, Collect(o) PROVE RefsAreOwners'
  <2>1. \A p \in Objects : Owners(p) = Owners(p)' + OneIf(p \in {o})
    BY <1>6 DEF Collect, Owners, OneIf, ObjTypeOK
  <2>2. QED
    BY <1>0, <1>6, <2>1, UnrefKeepsCount DEF Collect
<1>7. ASSUME NEW o \in Objects, CallQueueFunc(o) PROVE RefsAreOwners'
  <2>1. Create(o, "queued", 2) /\ working = {} /\ working' = {o} /\ byHand' = byHand
    BY <1>7 DEF CallQueueFunc, CreateFromLogmsg, ObjTypeOK
  <2>2. 2 = Owners(o)'
    BY <2>1 DEF Create, Owners, OneIf, ObjTypeOK
  <2>3. QED
    BY <2>1, <2>2, CreateKeepsCount
<1>8. CASE AcceptMessage
  <2>1. \A p \in Objects : Owners(p) = Owners(p)' + OneIf(p \in working)
    BY <1>8 DEF AcceptMessage, Owners, OneIf, ObjTypeOK
  <2>2. QED
    BY <1>0, <1>8, <2>1, UnrefKeepsCount DEF AcceptMessage
<1>9. CASE CloseState
  <2>1. \A p \in Objects : Owners(p) = Owners(p)' + OneIf(p \in Live)
    BY <1>9 DEF CloseState, Live, Owners, OneIf, ObjTypeOK
  <2>2. QED
    BY <1>0, <1>9, <2>1, UnrefKeepsCount DEF CloseState
<1>10. CASE UNCHANGED objVars
  BY <1>10 DEF objVars, RefsAreOwners, Owners
<1>11. QED
  BY <1>1, <1>2, <1>3, <1>4, <1>5, <1>6, <1>7, <1>8, <1>9, <1>10
     DEF ObjNext, ScriptStep, ObjDriverStep

\* As long as the script calls no finaliser, the count of every object is that of
\* its owners: nothing is freed too early, and only what Message.new() made and
\* templates that did not compile are never freed.
THEOREM ReferencesAreCounted == ObjSpec => []RefsAreOwners
<1>1. ObjInit => ObjTypeOK /\ RefsAreOwners
  BY ObjTypeInit, RefsInit
<1>2. ObjTypeOK /\ RefsAreOwners /\ [ObjNext]_objVars => (ObjTypeOK /\ RefsAreOwners)'
  BY ObjTypeStep, RefsStep
<1>3. QED
  BY <1>1, <1>2, PTL DEF ObjSpec

-----------------------------------------------------------------------------
\* Use after free.

\* Whoever uses or releases an object has a reference to it, so that without a
\* finaliser called by hand the object is there.
LEMMA TouchIsSafe ==
    ASSUME ObjTypeOK, RefsAreOwners, byHand = {}, NEW os \in SUBSET Objects, Touch(os),
           \A o \in os : o \in working \/ handle[o] = "live"
    PROVE  crash' = "no"
<1>1. ASSUME NEW o \in os PROVE refs[o] # 0
  <2>1. refs[o] = Owners(o)
    BY DEF RefsAreOwners
  <2>2. Owners(o) # 0
    BY DEF Owners, OneIf
  <2>3. QED
    BY <2>1, <2>2
<1>2. QED
  BY <1>1 DEF Touch

LEMMA FreedStep ==
    ObjTypeOK /\ RefsAreOwners /\ NoUseAfterFree /\ [ObjNext]_objVars => NoUseAfterFree'
<1> SUFFICES ASSUME ObjTypeOK, RefsAreOwners, NoUseAfterFree, [ObjNext]_objVars,
                    crash' = "freed", byHand' = {}
             PROVE  FALSE
  BY DEF NoUseAfterFree
<1>1. ASSUME NEW o \in Objects, FinaliseByHand(o) PROVE FALSE
  BY <1>1 DEF FinaliseByHand
<1>2. ASSUME NEW o \in Objects, UseObject(o) PROVE FALSE
  BY <1>2, TouchIsSafe DEF UseObject, ObjTypeOK
<1>3. ASSUME NEW o \in Objects, Collect(o) PROVE FALSE
  BY <1>3, TouchIsSafe DEF Collect, Unref, ObjTypeOK
<1>4. CASE AcceptMessage
  BY <1>4, TouchIsSafe DEF AcceptMessage, Unref, ObjTypeOK
<1>5. CASE CloseState
  BY <1>5, TouchIsSafe DEF CloseState, Unref, Live
<1>6. CASE UseOther
  BY <1>6 DEF UseOther
<1>7. CASE \/ LoadFile \/ InitReturns \/ CallDeinit \/ DeinitRefused
           \/ \E o \in Objects : \/ MessageNew(o) \/ TemplateNew(o) \/ TemplateFails(o)
                                \/ Forget(o) \/ CallQueueFunc(o)
           \/ UNCHANGED objVars
  <2>1. UNCHANGED <<crash, byHand>>
    BY <1>7 DEF LoadFile, InitReturns, CallDeinit, DeinitRefused, MessageNew, TemplateNew,
                TemplateFails, Forget, CallQueueFunc, objVars
  <2>2. QED
    BY <2>1 DEF NoUseAfterFree
<1>8. QED
  BY <1>1, <1>2, <1>3, <1>4, <1>5, <1>6, <1>7 DEF ObjNext, ScriptStep, ObjDriverStep

\* Freed memory is used only if the script called a finaliser itself.
THEOREM FreedIsNotUsed == ObjSpec => []NoUseAfterFree
<1> DEFINE Inv == ObjTypeOK /\ RefsAreOwners /\ NoUseAfterFree
<1>1. ObjInit => Inv
  BY ObjTypeInit, RefsInit DEF ObjInit, NoUseAfterFree
<1>2. Inv /\ [ObjNext]_objVars => Inv'
  BY ObjTypeStep, RefsStep, FreedStep
<1>3. QED
  BY <1>1, <1>2, PTL DEF ObjSpec
=============================================================================
