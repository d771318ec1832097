-------------------------- MODULE RiemannDest_proofs --------------------------
(***************************************************************************)
(* Proofs about the Riemann destination, for any sources, window, number   *)
(* of messages, wrap-around of the sequence number and on-error().         *)
(***************************************************************************)
EXTENDS RiemannDest, LogThrDest_proofs

\* Every step of the driver is a step the frame allows, or one it does not see.
LEMMA DriverStep == [Next]_vars => [ThrNext]_thrVars
<1> SUFFICES ASSUME [Next]_vars PROVE [ThrNext]_thrVars
  OBVIOUS
<1>1. ASSUME NEW s \in Sources, SourceStep(s) PROVE ThrNext
  BY <1>1 DEF SourceStep, ThrNext
<1>2. CASE DriverInit \/ StopRequest \/ DriverDeinit
  BY <1>2 DEF DriverInit, StopRequest, DriverDeinit, ThrNext
<1>3. CASE CallInsert \/ LeaveLoop
  BY <1>3 DEF CallInsert, LeaveLoop, ThrNext
<1>4. CASE Pop
  BY <1>4 DEF Pop, ThrNext
<1>5. CASE FinishInsert
  <2> DEFINE verdict == IF Success THEN "stored" ELSE "dropped"
  <2>1. verdict \in Verdicts /\ Success \in BOOLEAN
    BY DEF Verdicts, Success
  <2>2. Settle(verdict, Success)
    BY <1>5 DEF FinishInsert
  <2>3. QED
    BY <2>1, <2>2 DEF ThrNext
<1>6. CASE \/ ServerDown \/ ServerUp \/ \E m \in inFlight : DatagramArrives(m)
         \/ Connect \/ FillFields \/ SendOneshot
  BY <1>6 DEF ServerDown, ServerUp, DatagramArrives, Connect, FillFields, SendOneshot
<1>7. CASE UNCHANGED vars
  BY <1>7 DEF vars
<1>8. QED
  BY <1>1, <1>2, <1>3, <1>4, <1>5, <1>6, <1>7 DEF Next, WorkerStep

\* The driver keeps the contract of the frame.
THEOREM RiemannKeepsContract == Spec => ThrSpec
<1>1. Init => ThrInit
  BY DEF Init
<1>2. QED
  BY <1>1, DriverStep, PTL DEF Spec, ThrSpec

\* Hence each message posted to the driver gets exactly one verdict, in order,
\* whatever the server does.
THEOREM RiemannKeepsPromise == Spec => PromiseSpec
BY RiemannKeepsContract, ThrImplementsPromise, PTL

-----------------------------------------------------------------------------
\* The statistics of the driver.

\* Inside an insert the control state of the driver and what the frame knows
\* agree; this is what makes Success true when the verdict is given.
Control ==
    /\ pc \in {"idle", "connect", "pop", "fields", "send", "verdict"}
    /\ pc = "idle" <=> worker # "insert"
    /\ held # <<>> <=> pc \in {"fields", "send", "verdict"}

VerdictInv == Control /\ EveryVerdictIsStored

LEMMA VerdictInvInit == Init => VerdictInv
<1> SUFFICES ASSUME Init PROVE VerdictInv
  OBVIOUS
<1>1. Len(settled) = 0
  BY EmptySeq DEF Init, ThrInit
<1>2. QED
  BY <1>1 DEF Init, ThrInit, VerdictInv, Control, EveryVerdictIsStored

LEMMA VerdictInvStep ==
    ASSUME WeakTypeOK, [Next]_vars, VerdictInv
    PROVE  VerdictInv'
<1> USE DEF VerdictInv, Control, EveryVerdictIsStored
<1>1. ASSUME NEW s \in Sources, SourceStep(s) PROVE VerdictInv'
  BY <1>1 DEF SourceStep, Post, drvVars
<1>2. CASE DriverInit \/ StopRequest \/ DriverDeinit
  BY <1>2 DEF DriverInit, StopRequest, DriverDeinit, Start, Terminate, GoDown, WorkerGoes,
              drvVars
<1>3. CASE CallInsert \/ LeaveLoop
  BY <1>3 DEF CallInsert, LeaveLoop, Wake, Exit, WorkerGoes
<1>4. CASE Pop
  <2>1. CASE PopHead /\ pc' = "fields"
    <3>1. held' = <<Head(queue)>> /\ worker' = worker /\ worker = "insert"
      BY <2>1 DEF PopHead
    <3>2. <<Head(queue)>> # <<>>
      OBVIOUS
    <3>3. Control'
      BY <2>1, <3>1, <3>2
    <3>4. EveryVerdictIsStored'
      BY <2>1 DEF PopHead
    <3>5. QED
      BY <3>3, <3>4
  <2>2. CASE PopNothing /\ pc' = "idle"
    BY <2>2 DEF PopNothing, WorkerGoes
  <2>3. QED
    BY <1>4, <2>1, <2>2 DEF Pop
<1>5. CASE FinishInsert
  <2>1. Success
    BY <1>5 DEF FinishInsert, Success
  <2>2. Settle("stored", TRUE)
    BY <1>5, <2>1 DEF FinishInsert
  <2>3. dropped' = dropped /\ stored' = stored + 1
    BY <2>2 DEF Settle, Count, WeakTypeOK
  <2>4. Len(settled') = Len(settled) + 1
    <3>1. Head(held) \in Message
      BY <2>2, HeldFacts DEF Settle, GiveVerdict
    <3>2. [msg |-> Head(held), verdict |-> "stored"] \in [msg : Message, verdict : Verdicts]
      BY <3>1 DEF Verdicts
    <3>3. QED
      BY <2>2, <3>2, AppendProperties DEF Settle, GiveVerdict, WeakTypeOK
  <2>5. Control'
    BY <1>5, <2>2 DEF FinishInsert, Settle, GiveVerdict
  <2>6. QED
    BY <2>3, <2>4, <2>5
<1>6. CASE \/ ServerDown \/ ServerUp \/ \E m \in inFlight : DatagramArrives(m)
         \/ Connect \/ FillFields \/ SendOneshot
  BY <1>6 DEF ServerDown, ServerUp, DatagramArrives, Connect, FillFields, SendOneshot, thrVars
<1>7. CASE UNCHANGED vars
  BY <1>7 DEF vars, thrVars, drvVars
<1>8. QED
  BY <1>1, <1>2, <1>3, <1>4, <1>5, <1>6, <1>7 DEF Next, WorkerStep

\* No message is ever counted as dropped, whatever on-error() says and whatever
\* happened to the send: "stored" counts every message the driver was given.
THEOREM EveryVerdictStored == Spec => []EveryVerdictIsStored
<1>1. Spec => []WeakTypeOK
  BY RiemannKeepsContract, WeakTypeCorrect, PTL
<1>2. WeakTypeOK /\ VerdictInv /\ [Next]_vars => VerdictInv'
  BY VerdictInvStep
<1>3. QED
  BY <1>1, <1>2, VerdictInvInit, PTL DEF Spec, VerdictInv

-----------------------------------------------------------------------------
\* The types of the driver.

DriverTypeOK ==
    /\ transport \in {"tcp", "udp"}
    /\ client \in {"null", "live", "stale"}
    /\ needDrop \in BOOLEAN
    /\ seqNum \in 1..SeqMax
    /\ server \in {"up", "down"}
    /\ inFlight \subseteq Message
    /\ reached \in Seq(Message)

LEMMA DriverTypeStep ==
    ASSUME WeakTypeOK, Control, DriverTypeOK, [Next]_vars
    PROVE  DriverTypeOK'
<1>1. reached' \in Seq(Message) /\ inFlight' \subseteq Message
  <2>1. CASE SendOneshot
    <3>1. Head(held) \in Message
      BY <2>1, HeldFacts DEF SendOneshot, Control
    <3>2. QED
      BY <2>1, <3>1, AppendProperties DEF SendOneshot, DriverTypeOK
  <2>2. ASSUME NEW m \in inFlight, DatagramArrives(m)
        PROVE  reached' \in Seq(Message) /\ inFlight' \subseteq Message
    BY <2>2, AppendProperties DEF DatagramArrives, DriverTypeOK
  <2>3. CASE UNCHANGED <<reached, inFlight>>
    BY <2>3 DEF DriverTypeOK
  <2>4. \/ SendOneshot \/ UNCHANGED <<reached, inFlight>>
        \/ \E m \in inFlight : DatagramArrives(m)
    BY DEF Next, WorkerStep, SourceStep, DriverInit, StopRequest, DriverDeinit, ServerDown,
           ServerUp, DatagramArrives, CallInsert, Connect, Pop, FillFields, FinishInsert, LeaveLoop,
           drvVars, vars
  <2>5. QED
    BY <2>1, <2>2, <2>3, <2>4
<1>2. seqNum' \in 1..SeqMax
  <2>1. seqNum' \in {1, seqNum, StepSequenceNumber(seqNum)}
    BY DEF Next, WorkerStep, SourceStep, DriverInit, StopRequest, DriverDeinit, ServerDown,
           ServerUp, DatagramArrives, CallInsert, Connect, Pop, FillFields, SendOneshot, FinishInsert,
           LeaveLoop, drvVars, vars
  <2>2. QED
    BY <2>1, SeqMaxAssumption DEF DriverTypeOK, StepSequenceNumber
<1>3. /\ transport' \in {"tcp", "udp"}
      /\ client' \in {"null", "live", "stale"}
      /\ server' \in {"up", "down"}
  BY DEF Next, WorkerStep, SourceStep, DriverInit, StopRequest, DriverDeinit, ServerDown,
         ServerUp, DatagramArrives, CallInsert, Connect, Pop, FillFields, SendOneshot, FinishInsert,
         LeaveLoop, drvVars, vars, DriverTypeOK
<1>4. needDrop' \in BOOLEAN
  BY DEF Next, WorkerStep, SourceStep, DriverInit, StopRequest, DriverDeinit, ServerDown,
         ServerUp, DatagramArrives, CallInsert, Connect, Pop, FillFields, SendOneshot, FinishInsert,
         LeaveLoop, drvVars, vars, DriverTypeOK
<1>5. QED
  BY <1>1, <1>2, <1>3, <1>4 DEF DriverTypeOK

\* Type correctness of the driver and its frame, and the agreement of the place
\* inside the insert function with what the frame knows of the worker.
THEOREM RiemannTypeCorrect == Spec => []TypeOK
<1>1. Spec => []ThrTypeOK
  BY RiemannKeepsContract, ThrTypeCorrect, PTL
<1>2. Spec => []WeakTypeOK
  BY RiemannKeepsContract, WeakTypeCorrect, PTL
<1>3. Init => DriverTypeOK
  <2>1. Init => seqNum \in 1..SeqMax
    BY SeqMaxAssumption DEF Init
  <2>2. Init => reached \in Seq(Message)
    BY EmptySeq, Zenon DEF Init
  <2>3. QED
    BY <2>1, <2>2 DEF Init, DriverTypeOK
<1>4. WeakTypeOK /\ VerdictInv /\ DriverTypeOK /\ [Next]_vars => DriverTypeOK'
  BY DriverTypeStep DEF VerdictInv
<1>5. WeakTypeOK /\ VerdictInv /\ [Next]_vars => VerdictInv'
  BY VerdictInvStep
<1>6. ThrTypeOK /\ VerdictInv /\ DriverTypeOK => TypeOK
  BY DEF TypeOK, VerdictInv, Control, DriverTypeOK
<1>7. QED
  BY <1>1, <1>2, <1>3, <1>4, <1>5, <1>6, VerdictInvInit, PTL DEF Spec

-----------------------------------------------------------------------------
\* A broken connection.

\* Only over TCP is there a connection that breaks, or no datagram on its way.
TransportInv ==
    /\ client = "stale" => transport = "tcp"
    /\ transport = "tcp" => inFlight = {}

LEMMA TransportStep == TransportInv /\ [Next]_vars => TransportInv'
BY DEF Next, WorkerStep, SourceStep, DriverInit, StopRequest, DriverDeinit, ServerDown,
       ServerUp, DatagramArrives, CallInsert, Connect, Pop, FillFields, SendOneshot,
       FinishInsert, LeaveLoop, drvVars, vars, TransportInv

\* The client of the driver is not repaired, replaced or used to any effect
\* after its connection broke, until the worker stops.
THEOREM ConnectionBrokenForGood == Spec => BrokenForGood
<1>1. ASSUME TransportInv, [Next]_vars, client = "stale"
      PROVE  /\ transport = "tcp" /\ reached' = reached
             /\ client' = "stale" \/ worker' = "stopped"
  <2>1. CASE \E s \in Sources : SourceStep(s)
    BY <1>1, <2>1 DEF SourceStep, drvVars, TransportInv
  <2>2. CASE DriverInit \/ StopRequest \/ DriverDeinit
    BY <1>1, <2>2 DEF DriverInit, StopRequest, DriverDeinit, drvVars, TransportInv
  <2>3. CASE LeaveLoop
    BY <1>1, <2>3 DEF LeaveLoop, Exit, WorkerGoes, TransportInv
  <2>4. CASE \/ ServerDown \/ ServerUp \/ CallInsert \/ Connect \/ Pop \/ FillFields
             \/ SendOneshot \/ FinishInsert
    BY <1>1, <2>4 DEF ServerDown, ServerUp, CallInsert, Connect, Pop, FillFields,
                      SendOneshot, Leaves, FinishInsert, TransportInv
  <2>5. CASE \E m \in inFlight : DatagramArrives(m)
    BY <1>1, <2>5 DEF TransportInv
  <2>6. CASE UNCHANGED vars
    BY <1>1, <2>6 DEF vars, drvVars, TransportInv
  <2>7. QED
    BY <1>1, <2>1, <2>2, <2>3, <2>4, <2>5, <2>6 DEF Next, WorkerStep
<1>2. TransportInv /\ [Next]_vars =>
        [client = "stale" =>
            /\ transport = "tcp" /\ reached' = reached
            /\ client' = "stale" \/ worker' = "stopped"]_vars
  BY <1>1
<1>3. Init => TransportInv
  BY DEF Init, TransportInv
<1>4. QED
  BY <1>2, <1>3, TransportStep, PTL DEF Spec, BrokenForGood

-----------------------------------------------------------------------------
\* What reaches the server.

\* The places of the ledger up to which messages may have reached the server.
Frontier == IF pc = "verdict" THEN Len(settled) + 1 ELSE Len(settled)

\* The message reached the server or is on its way.
Gone(m) == m \in inFlight \/ \E i \in DOMAIN reached : reached[i] = m

\* The strengthening: what has left lies in front of whatever is sent next, and
\* nothing that came is still on its way.
BehindFrontier ==
    /\ \A m \in Message : Gone(m) => \E a \in DOMAIN Ledger : a <= Frontier /\ Ledger[a] = m
    /\ \A i \in DOMAIN reached : reached[i] \notin inFlight

\* No two places of the ledger hold the same message.
LEMMA LedgerInjective ==
    ASSUME WeakTypeOK, OnceAndInOrder, NEW a \in DOMAIN Ledger, NEW b \in DOMAIN Ledger,
           Ledger[a] = Ledger[b]
    PROVE  a = b
<1>1. DOMAIN Ledger = 1..Len(Ledger) /\ Len(Ledger) \in Nat
  BY LedgerType, LenProperties
<1>2. Ledger[a] \in Message
  BY LedgerType, ElementOfSeq, <1>1
<1>3. Ledger[a][2] \in Int
  BY <1>2, MaxPostsAssumption DEF Message
<1>4. ~(a < b) /\ ~(b < a)
  BY <1>3 DEF OnceAndInOrder
<1>5. QED
  BY <1>1, <1>4

\* Places of the ledger keep their message.
LEMMA LedgerKeeps ==
    ASSUME WeakTypeOK, [Next]_vars
    PROVE  /\ DOMAIN Ledger \subseteq Nat
           /\ \A a \in DOMAIN Ledger : a \in DOMAIN Ledger' /\ Ledger'[a] = Ledger[a]
<1>1. Ledger \in Seq(Message) /\ Len(Ledger) \in Nat /\ DOMAIN Ledger = 1..Len(Ledger)
  BY LedgerType, LenProperties
<1>2. CASE Ledger' = Ledger
  BY <1>1, <1>2
<1>3. ASSUME NEW s \in Sources, Arrival(s)
      PROVE  \A a \in DOMAIN Ledger : a \in DOMAIN Ledger' /\ Ledger'[a] = Ledger[a]
  <2> DEFINE m == <<s, posted[s] + 1>>
  <2>1. m \in Message
    BY <1>3, MaxPostsAssumption DEF Arrival, Message, WeakTypeOK
  <2>2. Ledger' = Append(Ledger, m)
    BY <1>3 DEF Arrival
  <2> HIDE DEF m
  <2>3. QED
    BY <1>1, <2>1, <2>2, AppendProperties, LenProperties
<1>4. QED
  BY <1>1, <1>2, <1>3, LedgerStep, DriverStep

\* The message the insert holds comes right after the settled ones.
LEMMA HeldPlace ==
    ASSUME WeakTypeOK, held # <<>>
    PROVE  Len(settled) + 1 \in DOMAIN Ledger /\ Ledger[Len(settled) + 1] = Head(held)
<1>1. /\ SettledMessages \in Seq(Message) /\ Len(SettledMessages) = Len(settled)
      /\ held \in Seq(Message) /\ queue \in Seq(Message) /\ Ledger \in Seq(Message)
  BY LedgerType DEF WeakTypeOK
<1>2. Head(held) \in Message /\ held = <<Head(held)>>
  BY HeldFacts
<1> DEFINE front == Append(SettledMessages, Head(held))
<1>3. /\ front \in Seq(Message) /\ Len(front) = Len(settled) + 1 /\ Len(settled) \in Nat
      /\ front[Len(settled) + 1] = Head(held)
  BY <1>1, <1>2, AppendProperties, LenProperties
<1>4. SettledMessages \o held = front
  BY <1>1, <1>2, AppendIsConcat
<1> HIDE DEF front
<1>5. \A i \in 1..Len(front) : i \in 1..Len(front \o queue) /\ (front \o queue)[i] = front[i]
  BY <1>1, <1>3, PrefixOfConcat
<1>6. Ledger = front \o queue
  BY <1>4 DEF Ledger
<1>7. QED
  BY <1>1, <1>3, <1>5, <1>6, LenProperties

\* The border between what has been sent and what has not never moves back.
LEMMA FrontierStep ==
    ASSUME WeakTypeOK, Control, [Next]_vars
    PROVE  Len(settled) \in Nat /\ Frontier <= Frontier' /\ Frontier' \in Nat
<1>1. Len(settled) \in Nat
  BY LenProperties DEF WeakTypeOK
<1>2. CASE FinishInsert
  <2>1. settled' = Append(settled, [msg |-> Head(held),
                                     verdict |-> IF Success THEN "stored" ELSE "dropped"])
    BY <1>2 DEF FinishInsert, Settle, GiveVerdict
  <2>2. Head(held) \in Message
    BY <1>2, HeldFacts DEF FinishInsert, Control
  <2>3. [msg |-> Head(held), verdict |-> IF Success THEN "stored" ELSE "dropped"]
           \in [msg : Message, verdict : Verdicts]
    BY <2>2 DEF Verdicts
  <2>4. Len(settled') = Len(settled) + 1
    BY <2>1, <2>3, AppendProperties DEF WeakTypeOK
  <2>5. QED
    BY <1>1, <1>2, <2>4 DEF FinishInsert, Frontier
<1>3. CASE ~FinishInsert
  <2>1. settled' = settled
    BY <1>3 DEF Next, WorkerStep, SourceStep, Post, DriverInit, Start, StopRequest, Terminate,
           DriverDeinit, GoDown, ServerDown, ServerUp, DatagramArrives, CallInsert, Wake, Connect, Pop, PopHead,
           PopNothing, FillFields, SendOneshot, LeaveLoop, Exit, WorkerGoes, thrVars, vars
  <2>2. pc = "verdict" => pc' = "verdict"
    BY <1>3 DEF Next, WorkerStep, SourceStep, DriverInit, StopRequest,
           DriverDeinit, ServerDown, ServerUp, DatagramArrives, CallInsert, Wake, WorkerGoes, Connect, Pop,
           FillFields, SendOneshot, LeaveLoop, drvVars, vars, Control
  <2>3. QED
    BY <1>1, <2>1, <2>2 DEF Frontier
<1>4. QED
  BY <1>2, <1>3

LEMMA ReachStep ==
    ASSUME WeakTypeOK, OnceAndInOrder, Control, DriverTypeOK, TransportInv, BehindFrontier,
           ReachedOnceInOrder, [Next]_vars
    PROVE  BehindFrontier' /\ ReachedOnceInOrder'
<1> DEFINE n == Len(reached)
           l == Len(settled)
<1>1. /\ DOMAIN reached = 1..n /\ n \in Nat
      /\ \A i \in 1..n : reached[i] \in Message
  BY LenProperties, ElementOfSeq DEF DriverTypeOK
<1>2. transport' = transport
  BY DEF Next, WorkerStep, SourceStep, DriverInit, StopRequest, DriverDeinit, ServerDown,
         ServerUp, DatagramArrives, CallInsert, Connect, Pop, FillFields, SendOneshot,
         FinishInsert, LeaveLoop, drvVars, vars
<1>3. CASE UNCHANGED <<reached, inFlight>>
  BY <1>2, <1>3, LedgerKeeps, FrontierStep DEF BehindFrontier, ReachedOnceInOrder, Gone, Frontier
<1>4. ASSUME NEW m \in inFlight, DatagramArrives(m)
      PROVE  BehindFrontier' /\ ReachedOnceInOrder'
  <2>1. /\ DOMAIN reached' = 1..(n + 1) /\ reached'[n + 1] = m
        /\ \A i \in 1..n : reached'[i] = reached[i]
    BY <1>1, <1>4, AppendProperties, LenProperties DEF DatagramArrives, DriverTypeOK
  <2>2. /\ Ledger' = Ledger /\ Frontier' = Frontier /\ inFlight' = inFlight \ {m}
        /\ transport # "tcp"
    BY <1>4 DEF DatagramArrives, thrVars, Ledger, SettledMessages, Frontier, TransportInv
  <2> HIDE DEF n, l
  <2>3. \A i \in 1..n : reached[i] # m
    BY <1>1 DEF BehindFrontier
  <2>4. ReachedOnceInOrder'
    BY <1>1, <1>2, <2>1, <2>2, <2>3 DEF ReachedOnceInOrder
  <2>5. \A k \in Message : Gone(k)' => Gone(k)
    BY <1>1, <2>1, <2>2 DEF Gone
  <2>6. \A i \in DOMAIN reached' : reached'[i] \notin inFlight'
    BY <1>1, <2>1, <2>2 DEF BehindFrontier
  <2>7. QED
    BY <2>2, <2>4, <2>5, <2>6 DEF BehindFrontier
<1>5. CASE SendOneshot /\ Leaves
  <2> DEFINE m == Head(held)
  <2>1. pc = "send" /\ pc' = "verdict" /\ held # <<>> /\ UNCHANGED <<held, settled>>
    BY <1>5 DEF SendOneshot, Control, thrVars
  <2>2. m \in Message /\ l + 1 \in DOMAIN Ledger /\ Ledger[l + 1] = m /\ l \in Nat
    BY <2>1, HeldFacts, HeldPlace, FrontierStep
  <2>3. Frontier = l /\ Frontier' = l + 1
    BY <2>1 DEF Frontier
  <2>4. Ledger' = Ledger /\ DOMAIN Ledger \subseteq Nat
    BY <1>5, LedgerKeeps DEF SendOneshot, thrVars, Ledger, SettledMessages
  <2>5. transport = "tcp" => reached' = Append(reached, m) /\ inFlight' = inFlight
    BY <1>5 DEF SendOneshot
  <2>6. transport # "tcp" => reached' = reached /\ inFlight' = inFlight \union {m}
    BY <1>5 DEF SendOneshot, DriverTypeOK
  <2> HIDE DEF m, l
  <2>7. \A k \in Message : Gone(k) => \E a \in DOMAIN Ledger : a <= l /\ Ledger[a] = k
    BY <2>3 DEF BehindFrontier
  <2>8. ~Gone(m)
    <3>1. ASSUME NEW a \in DOMAIN Ledger, a <= l, Ledger[a] = m PROVE FALSE
      <4>1. a = l + 1
        BY <2>2, <3>1, LedgerInjective
      <4>2. QED
        BY <2>2, <3>1, <4>1
    <3>2. QED
      BY <2>2, <2>7, <3>1
  <2>9. CASE transport = "tcp"
    <3>1. /\ DOMAIN reached' = 1..(n + 1) /\ reached'[n + 1] = m
          /\ \A i \in 1..n : reached'[i] = reached[i]
      BY <1>1, <2>2, <2>5, <2>9, AppendProperties, LenProperties DEF DriverTypeOK
    <3> HIDE DEF n
    <3>2. \A i \in 1..n : reached[i] # m
      BY <1>1, <2>8 DEF Gone
    <3>3. \A k \in Message : Gone(k)' => Gone(k) \/ k = m
      BY <1>1, <2>5, <2>9, <3>1 DEF Gone
    <3>4. \A k \in Message : Gone(k)' => \E a \in DOMAIN Ledger : a <= l + 1 /\ Ledger[a] = k
      BY <2>2, <2>4, <2>7, <3>3
    <3>5. inFlight' = {}
      BY <2>5, <2>9 DEF TransportInv
    <3>6. BehindFrontier'
      BY <2>3, <2>4, <3>4, <3>5 DEF BehindFrontier
    <3>7. \A i, j \in 1..(n + 1) : i # j => reached'[i] # reached'[j]
      BY <1>1, <3>1, <3>2 DEF ReachedOnceInOrder
    <3>8. ASSUME NEW i \in 1..(n + 1), NEW j \in 1..(n + 1), i < j
          PROVE  \E a, b \in DOMAIN Ledger :
                    a < b /\ Ledger[a] = reached'[i] /\ Ledger[b] = reached'[j]
      <4>1. i \in 1..n
        BY <1>1, <3>8
      <4>2. CASE j \in 1..n
        BY <1>1, <2>9, <3>1, <3>8, <4>1, <4>2 DEF ReachedOnceInOrder
      <4>3. CASE j = n + 1
        <5>1. Gone(reached[i]) /\ reached[i] \in Message
          BY <1>1, <4>1 DEF Gone
        <5>2. PICK a \in DOMAIN Ledger : a <= l /\ Ledger[a] = reached[i]
          BY <2>7, <5>1
        <5>3. a < l + 1
          BY <2>2, <2>4, <5>2
        <5>4. QED
          BY <2>2, <3>1, <4>1, <4>3, <5>2, <5>3
      <4>4. QED
        BY <1>1, <3>8, <4>2, <4>3
    <3>9. QED
      BY <2>4, <3>1, <3>6, <3>7, <3>8 DEF ReachedOnceInOrder
  <2>10. CASE transport # "tcp"
    <3>1. \A k \in Message : Gone(k)' => Gone(k) \/ k = m
      BY <2>6, <2>10 DEF Gone
    <3>2. \A k \in Message : Gone(k)' => \E a \in DOMAIN Ledger : a <= l + 1 /\ Ledger[a] = k
      BY <2>2, <2>4, <2>7, <3>1
    <3>3. \A i \in DOMAIN reached' : reached'[i] \notin inFlight'
      BY <2>6, <2>8, <2>10 DEF Gone, BehindFrontier
    <3>4. BehindFrontier'
      BY <2>3, <2>4, <3>2, <3>3 DEF BehindFrontier
    <3>5. QED
      BY <1>2, <2>4, <2>6, <2>10, <3>4 DEF ReachedOnceInOrder
  <2>11. QED
    BY <2>9, <2>10
<1>6. \/ SendOneshot /\ Leaves
      \/ \E m \in inFlight : DatagramArrives(m)
      \/ UNCHANGED <<reached, inFlight>>
  BY DEF Next, WorkerStep, SourceStep, DriverInit, StopRequest, DriverDeinit, ServerDown,
         ServerUp, CallInsert, Connect, Pop, FillFields, SendOneshot, FinishInsert,
         LeaveLoop, drvVars, vars
<1>7. QED
  BY <1>3, <1>4, <1>5, <1>6

\* A message reaches the server at most once, over TCP in the order of the queue,
\* through any outages, failed casts and lives of the driver.
THEOREM ReachedOnlyOnceInOrder == Spec => []ReachedOnceInOrder
<1>1. Spec => []WeakTypeOK
  BY RiemannKeepsContract, WeakTypeCorrect, PTL
<1>2. Init => DriverTypeOK /\ TransportInv /\ BehindFrontier /\ ReachedOnceInOrder
  <2> SUFFICES ASSUME Init
               PROVE  DriverTypeOK /\ TransportInv /\ BehindFrontier /\ ReachedOnceInOrder
    OBVIOUS
  <2>1. seqNum \in 1..SeqMax
    BY SeqMaxAssumption DEF Init
  <2>2. reached \in Seq(Message)
    BY EmptySeq, Zenon DEF Init
  <2>3. DriverTypeOK
    BY <2>1, <2>2 DEF Init, DriverTypeOK
  <2>4. reached = << >> /\ DOMAIN reached = {} /\ inFlight = {} /\ TransportInv
    BY DEF Init, TransportInv
  <2>5. QED
    BY <2>3, <2>4, Zenon DEF BehindFrontier, ReachedOnceInOrder, Gone
<1>3. WeakTypeOK /\ VerdictInv /\ [Next]_vars => VerdictInv'
  BY VerdictInvStep
<1>4. WeakTypeOK /\ VerdictInv /\ DriverTypeOK /\ [Next]_vars => DriverTypeOK'
  BY DriverTypeStep DEF VerdictInv
<1>5. WeakTypeOK /\ OnceAndInOrder /\ VerdictInv /\ DriverTypeOK /\ TransportInv
         /\ BehindFrontier /\ ReachedOnceInOrder /\ [Next]_vars
         => BehindFrontier' /\ ReachedOnceInOrder'
  BY ReachStep DEF VerdictInv
<1>6. Spec => []OnceAndInOrder
  BY RiemannKeepsContract, SettledOnceAndInOrder, PTL
<1>7. QED
  BY <1>1, <1>2, <1>3, <1>4, <1>5, <1>6, VerdictInvInit, TransportStep, PTL DEF Spec
=============================================================================
