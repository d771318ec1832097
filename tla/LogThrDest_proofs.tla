-------------------------- MODULE LogThrDest_proofs --------------------------
(***************************************************************************)
(* Proofs about the frame, for any set of sources, any window and any      *)
(* number of messages.                                                     *)
(***************************************************************************)
EXTENDS LogThrDest, SequenceTheorems, FiniteSetTheorems, TLAPS

-----------------------------------------------------------------------------
\* The types, but for the upper end of a window: that a window never overflows
\* follows from the accounting below and not from the types alone.
WeakTypeOK ==
    /\ posted \in [Sources -> 0..MaxPosts]
    /\ credit \in [Sources -> Nat]
    /\ queue \in Seq(Message)
    /\ held \in {<<>>} \union {<<m>> : m \in Message}
    /\ worker \in WorkerStates
    /\ terminate \in BOOLEAN
    /\ lives \in 0..MaxLives
    /\ settled \in Seq([msg : Message, verdict : Verdicts])
    /\ stored \in Nat
    /\ dropped \in Nat

LEMMA HeldFacts ==
    ASSUME WeakTypeOK, held # <<>>
    PROVE  Head(held) \in Message /\ held = <<Head(held)>> /\ Head(held)[1] \in Sources
BY DEF WeakTypeOK, Message

LEMMA PostFacts ==
    ASSUME WeakTypeOK, NEW s \in Sources, Post(s)
    PROVE  /\ <<s, posted[s] + 1>> \in Message /\ posted[s] \in Nat
           /\ posted \in [Sources -> Nat]
           /\ posted' = [posted EXCEPT ![s] = @ + 1]
<1>1. posted \in [Sources -> 0..MaxPosts]
  BY DEF WeakTypeOK
<1>2. posted[s] < MaxPosts /\ posted' = [posted EXCEPT ![s] = @ + 1]
  BY DEF Post
<1>3. QED
  BY <1>1, <1>2, MaxPostsAssumption DEF Message

LEMMA WeakTypeInit == ThrInit => WeakTypeOK
<1> SUFFICES ASSUME ThrInit PROVE WeakTypeOK
  OBVIOUS
<1>1. <<>> \in Seq(Message) /\ <<>> \in Seq([msg : Message, verdict : Verdicts])
  BY EmptySeq
<1>2. posted \in [Sources -> 0..MaxPosts] /\ credit \in [Sources -> Nat]
  BY MaxPostsAssumption, WindowAssumption DEF ThrInit
<1>3. queue \in Seq(Message) /\ settled \in Seq([msg : Message, verdict : Verdicts])
  BY <1>1, Zenon DEF ThrInit
<1>4. worker \in WorkerStates /\ terminate \in BOOLEAN /\ stored \in Nat /\ dropped \in Nat
  BY DEF ThrInit, WorkerStates
<1>5. held \in {<<>>} \union {<<m>> : m \in Message}
  BY DEF ThrInit
<1>6. lives \in 0..MaxLives
  BY MaxLivesAssumption DEF ThrInit
<1>7. QED
  BY <1>2, <1>3, <1>4, <1>5, <1>6 DEF WeakTypeOK

LEMMA WeakTypeStep == WeakTypeOK /\ [ThrNext]_thrVars => WeakTypeOK'
<1> SUFFICES ASSUME WeakTypeOK, [ThrNext]_thrVars PROVE WeakTypeOK'
  OBVIOUS
<1> USE DEF WeakTypeOK
<1>1. ASSUME NEW s \in Sources, Post(s) PROVE WeakTypeOK'
  <2>1. <<s, posted[s] + 1>> \in Message
    BY <1>1, PostFacts
  <2>2. queue' \in Seq(Message)
    BY <1>1, <2>1, AppendProperties DEF Post
  <2>3. posted' \in [Sources -> 0..MaxPosts] /\ credit' \in [Sources -> Nat]
    BY <1>1, MaxPostsAssumption DEF Post
  <2>4. QED
    BY <1>1, <2>2, <2>3 DEF Post
<1>2. CASE Start \/ Terminate
  <2>1. lives' \in 0..MaxLives
    BY <1>2, MaxLivesAssumption DEF Start, Terminate
  <2>2. /\ worker' \in WorkerStates /\ terminate' \in BOOLEAN
        /\ UNCHANGED <<posted, credit, queue, held, settled, stored, dropped>>
    BY <1>2 DEF Start, Terminate, WorkerStates
  <2>3. QED
    BY <2>1, <2>2
<1>3. CASE Wake \/ Reopen \/ Exit \/ GoDown \/ PopNothing
  <2>1. /\ worker' \in WorkerStates
        /\ UNCHANGED <<posted, credit, queue, held, terminate, lives, settled, stored, dropped>>
    BY <1>3 DEF Wake, Reopen, Exit, GoDown, PopNothing, WorkerGoes, WorkerStates
  <2>2. QED
    BY <2>1
<1>4. CASE PopHead
  <2>1. Head(queue) \in Message /\ Tail(queue) \in Seq(Message)
    BY <1>4, HeadTailProperties DEF PopHead
  <2>2. QED
    BY <1>4, <2>1 DEF PopHead
<1>5. ASSUME NEW verdict \in Verdicts, NEW ok \in BOOLEAN, Settle(verdict, ok)
      PROVE  WeakTypeOK'
  <2>1. Head(held) \in Message /\ Head(held)[1] \in Sources
    BY <1>5, HeldFacts DEF Settle, GiveVerdict
  <2>2. settled' \in Seq([msg : Message, verdict : Verdicts])
    <3>1. [msg |-> Head(held), verdict |-> verdict] \in [msg : Message, verdict : Verdicts]
      BY <2>1
    <3>2. QED
      BY <1>5, <3>1, AppendProperties DEF Settle, GiveVerdict
  <2>3. credit' \in [Sources -> Nat]
    BY <1>5, <2>1 DEF Settle, Acknowledge
  <2>4. stored' \in Nat /\ dropped' \in Nat
    BY <1>5 DEF Settle, Count
  <2>5. QED
    BY <1>5, <2>2, <2>3, <2>4 DEF Settle, GiveVerdict, WorkerStates
<1>6. CASE UNCHANGED thrVars
  BY <1>6 DEF thrVars
<1>7. QED
  BY <1>1, <1>2, <1>3, <1>4, <1>5, <1>6 DEF ThrNext

\* Every variable of the frame has its type.
THEOREM WeakTypeCorrect == ThrSpec => []WeakTypeOK
BY WeakTypeInit, WeakTypeStep, PTL DEF ThrSpec

-----------------------------------------------------------------------------
\* The ledger: settled, held and waiting messages in one sequence.

LEMMA LedgerType ==
    ASSUME WeakTypeOK
    PROVE  /\ SettledMessages \in Seq(Message)
           /\ Len(SettledMessages) = Len(settled)
           /\ held \in Seq(Message)
           /\ Ledger \in Seq(Message)
<1>1. SettledMessages \in Seq(Message) /\ Len(SettledMessages) = Len(settled)
  <2>1. DOMAIN settled = 1..Len(settled) /\ Len(settled) \in Nat
    BY LenProperties DEF WeakTypeOK
  <2>2. \A i \in 1..Len(settled) : settled[i].msg \in Message
    <3>1. \A i \in 1..Len(settled) : settled[i] \in [msg : Message, verdict : Verdicts]
      BY ElementOfSeq DEF WeakTypeOK
    <3>2. QED
      BY <3>1
  <2>3. SettledMessages \in [1..Len(settled) -> Message]
    BY <2>1, <2>2 DEF SettledMessages
  <2>4. QED
    BY <2>1, <2>3, SeqDef, LenProperties
<1>2. held \in Seq(Message)
  <2>1. CASE held = <<>>
    BY <2>1, EmptySeq, Zenon
  <2>2. CASE held # <<>>
    <3>1. Head(held) \in Message /\ held = <<Head(held)>>
      BY <2>2, HeldFacts
    <3>2. <<Head(held)>> \in Seq(Message)
      BY <3>1
    <3>3. QED
      BY <3>1, <3>2
  <2>3. QED
    BY <2>1, <2>2
<1>3. QED
  BY <1>1, <1>2, ConcatProperties DEF Ledger, WeakTypeOK

\* A verdict moves the held message to the end of the settled ones.
LEMMA SettledGrows ==
    ASSUME WeakTypeOK, NEW verdict \in Verdicts, NEW ok, GiveVerdict(verdict, ok)
    PROVE  SettledMessages' = Append(SettledMessages, Head(held))
<1> DEFINE r == [msg |-> Head(held), verdict |-> verdict]
<1>1. Head(held) \in Message /\ r \in [msg : Message, verdict : Verdicts]
  BY HeldFacts DEF GiveVerdict
<1>2. settled' = Append(settled, r)
  BY DEF GiveVerdict
<1> HIDE DEF r
<1>3. /\ DOMAIN settled' = 1..(Len(settled) + 1)
      /\ DOMAIN settled = 1..Len(settled)
      /\ Len(settled) \in Nat
      /\ \A i \in 1..Len(settled) : settled'[i] = settled[i]
      /\ settled'[Len(settled) + 1] = r
  BY <1>1, <1>2, AppendProperties, LenProperties DEF WeakTypeOK
<1>4. SettledMessages' = [i \in 1..(Len(settled) + 1) |-> settled'[i].msg]
  BY <1>3 DEF SettledMessages
<1>5. /\ SettledMessages \in Seq(Message)
      /\ Len(SettledMessages) = Len(settled)
  BY LedgerType
<1>6. /\ Append(SettledMessages, Head(held)) \in Seq(Message)
      /\ Len(Append(SettledMessages, Head(held))) = Len(settled) + 1
      /\ \A i \in 1..Len(settled) :
            Append(SettledMessages, Head(held))[i] = SettledMessages[i]
      /\ Append(SettledMessages, Head(held))[Len(settled) + 1] = Head(held)
  BY <1>1, <1>5, AppendProperties
<1>7. \A i \in 1..(Len(settled) + 1) :
         SettledMessages'[i] = Append(SettledMessages, Head(held))[i]
  BY <1>3, <1>4, <1>6 DEF SettledMessages, r
<1>8. SettledMessages' \in Seq(Message) /\ Len(SettledMessages') = Len(settled) + 1
  <2>1. \A i \in 1..(Len(settled) + 1) : SettledMessages'[i] \in Message
    BY <1>6, <1>7, ElementOfSeq
  <2>2. SettledMessages' \in [1..(Len(settled) + 1) -> Message]
    BY <1>4, <2>1
  <2>3. QED
    BY <1>3, <2>2, SeqDef, LenProperties
<1>9. QED
  BY <1>6, <1>7, <1>8, SeqEqual

\* What a step does to the ledger: nothing, or the arrival of one message that
\* is the next one of its source.
Arrival(s) ==
    /\ posted[s] < MaxPosts
    /\ posted' = [posted EXCEPT ![s] = @ + 1]
    /\ Ledger' = Append(Ledger, <<s, posted[s] + 1>>)

LEMMA LedgerStep ==
    ASSUME WeakTypeOK, [ThrNext]_thrVars
    PROVE  \/ Ledger' = Ledger /\ posted' = posted
           \/ \E s \in Sources : Arrival(s)
<1> USE LedgerType DEF Ledger
<1>1. ASSUME NEW s \in Sources, Post(s) PROVE Arrival(s)
  <2> DEFINE m == <<s, posted[s] + 1>>
  <2>1. m \in Message
    BY <1>1, PostFacts
  <2>2. /\ queue' = Append(queue, m)
        /\ held' = held
        /\ SettledMessages' = SettledMessages
        /\ queue \in Seq(Message)
    BY <1>1 DEF Post, SettledMessages, WeakTypeOK
  <2> HIDE DEF m
  <2>3. SettledMessages \o held \in Seq(Message) /\ <<m>> \in Seq(Message)
    BY <2>1, ConcatProperties
  <2>4. Append(queue, m) = queue \o <<m>>
    BY <2>1, <2>2, AppendIsConcat
  <2>5. Append(Ledger, m) = (SettledMessages \o held \o queue) \o <<m>>
    BY <2>1, AppendIsConcat
  <2>6. (SettledMessages \o held) \o (queue \o <<m>>)
           = ((SettledMessages \o held) \o queue) \o <<m>>
    BY <2>2, <2>3, ConcatAssociative
  <2>7. Ledger' = Append(Ledger, m)
    BY <2>2, <2>4, <2>5, <2>6
  <2>8. QED
    BY <1>1, <2>7 DEF Post, Arrival, m
<1>2. CASE Start \/ Terminate \/ GoDown \/ Wake \/ Reopen \/ Exit \/ PopNothing \/ UNCHANGED thrVars
  BY <1>2 DEF Start, Terminate, GoDown, Wake, Reopen, Exit, PopNothing, WorkerGoes, thrVars,
              SettledMessages
<1>3. CASE PopHead
  <2>1. queue \in Seq(Message) /\ queue # <<>> /\ held = <<>>
    BY <1>3 DEF PopHead, WeakTypeOK
  <2>2. Head(queue) \in Message /\ Tail(queue) \in Seq(Message)
    BY <2>1, HeadTailProperties
  <2>3. <<Head(queue)>> \o Tail(queue) = queue
    BY <2>1, <2>2
  <2>4. SettledMessages \o held = SettledMessages
    BY <2>1, ConcatEmptySeq
  <2>5. <<Head(queue)>> \in Seq(Message)
    BY <2>2
  <2>6. (SettledMessages \o <<Head(queue)>>) \o Tail(queue)
           = SettledMessages \o (<<Head(queue)>> \o Tail(queue))
    BY <2>2, <2>5, ConcatAssociative
  <2>7. QED
    BY <1>3, <2>3, <2>4, <2>6 DEF PopHead, SettledMessages
<1>4. ASSUME NEW verdict \in Verdicts, NEW ok \in BOOLEAN, Settle(verdict, ok)
      PROVE  Ledger' = Ledger /\ posted' = posted
  <2>1. GiveVerdict(verdict, ok) /\ held' = <<>> /\ queue' = queue /\ posted' = posted
    BY <1>4 DEF Settle, GiveVerdict
  <2>2. Head(held) \in Message /\ held = <<Head(held)>>
    BY <2>1, HeldFacts DEF GiveVerdict
  <2>3. SettledMessages' = SettledMessages \o held
    BY <2>1, <2>2, SettledGrows, AppendIsConcat
  <2>4. SettledMessages \o held \in Seq(Message)
    BY ConcatProperties
  <2>5. SettledMessages' \o held' = SettledMessages \o held
    BY <2>1, <2>3, <2>4, ConcatEmptySeq
  <2>6. QED
    BY <2>1, <2>5
<1>5. QED
  BY <1>1, <1>2, <1>3, <1>4 DEF ThrNext

-----------------------------------------------------------------------------
\* Nothing is lost, nothing is handled twice or out of order.

LEMMA LedgerInit == ThrInit => NothingLost /\ OnceAndInOrder
<1> SUFFICES ASSUME ThrInit PROVE NothingLost /\ OnceAndInOrder
  OBVIOUS
<1>1. Posted = {}
  BY DEF ThrInit, Posted, Message
<1>2. SettledMessages = <<>>
  BY DEF ThrInit, SettledMessages
<1>3. Ledger = <<>>
  <2>1. <<>> \in Seq(Message)
    BY EmptySeq
  <2>2. <<>> \o <<>> = <<>>
    BY <2>1, ConcatEmptySeq
  <2>3. QED
    BY <1>2, <2>2 DEF Ledger, ThrInit
<1>4. QED
  BY <1>1, <1>3 DEF NothingLost, OnceAndInOrder

\* What an arrival does to the ledger and to the set of posted messages.
LEMMA ArrivalFacts ==
    ASSUME WeakTypeOK, NEW s \in Sources, Arrival(s)
    PROVE  /\ DOMAIN Ledger = 1..Len(Ledger) /\ Len(Ledger) \in Nat
           /\ DOMAIN Ledger' = 1..(Len(Ledger) + 1)
           /\ \A i \in 1..Len(Ledger) : Ledger'[i] = Ledger[i]
           /\ Ledger'[Len(Ledger) + 1] = <<s, posted[s] + 1>>
           /\ <<s, posted[s] + 1>> \in Message /\ posted[s] \in Nat
           /\ Posted' = Posted \union {<<s, posted[s] + 1>>}
<1> DEFINE m == <<s, posted[s] + 1>>
           n == Len(Ledger)
<1>1. m \in Message /\ posted[s] \in Nat /\ posted \in [Sources -> Nat]
  BY MaxPostsAssumption DEF Arrival, Message, WeakTypeOK
<1>2. Ledger \in Seq(Message) /\ n \in Nat /\ DOMAIN Ledger = 1..n
  BY LedgerType, LenProperties
<1>3. /\ DOMAIN Ledger' = 1..(n + 1)
      /\ \A i \in 1..n : Ledger'[i] = Ledger[i]
      /\ Ledger'[n + 1] = m
  <2>1. Ledger' = Append(Ledger, m)
    BY DEF Arrival
  <2>2. QED
    BY <2>1, <1>1, <1>2, AppendProperties, LenProperties
<1>4. Posted' = Posted \union {m}
  BY <1>1 DEF Arrival, Posted, Message
<1>5. QED
  BY <1>1, <1>2, <1>3, <1>4

LEMMA LedgerInvariantStep ==
    ASSUME WeakTypeOK, [ThrNext]_thrVars, OnceAndInOrder
    PROVE  (NothingLost => NothingLost') /\ OnceAndInOrder'
<1>1. CASE Ledger' = Ledger /\ posted' = posted
  BY <1>1 DEF NothingLost, OnceAndInOrder, Posted
<1>2. ASSUME NEW s \in Sources, Arrival(s) PROVE (NothingLost => NothingLost') /\ OnceAndInOrder'
  <2> DEFINE m == <<s, posted[s] + 1>>
             n == Len(Ledger)
  <2>1. posted[s] \in Nat /\ m[1] = s /\ m[2] = posted[s] + 1
    BY <1>2, ArrivalFacts
  <2>2. /\ n \in Nat /\ DOMAIN Ledger = 1..n
        /\ DOMAIN Ledger' = 1..(n + 1)
        /\ \A i \in 1..n : Ledger'[i] = Ledger[i]
        /\ Ledger'[n + 1] = m
        /\ Posted' = Posted \union {m}
    BY <1>2, ArrivalFacts
  <2> HIDE DEF m, n
  <2>3. NothingLost => NothingLost'
    <3>1. NothingLost => \A x \in Posted : \E i \in 1..(n + 1) : Ledger'[i] = x
      BY <2>2 DEF NothingLost
    <3>2. QED
      BY <2>2, <3>1 DEF NothingLost
  <2>4. \A i \in DOMAIN Ledger' : Ledger'[i] \in Posted'
    BY <2>2 DEF OnceAndInOrder
  <2>5. ASSUME NEW i \in DOMAIN Ledger', NEW j \in DOMAIN Ledger',
               i < j, Ledger'[i][1] = Ledger'[j][1]
        PROVE  Ledger'[i][2] < Ledger'[j][2]
    <3>1. i \in 1..n /\ Ledger'[i] = Ledger[i]
      BY <2>2, <2>5
    <3>2. CASE j \in 1..n
      BY <2>2, <2>5, <3>1, <3>2 DEF OnceAndInOrder
    <3>3. CASE j = n + 1
      <4>1. Ledger[i] \in Posted /\ Ledger[i][1] = s
        BY <2>1, <2>2, <2>5, <3>1, <3>3 DEF OnceAndInOrder
      <4>2. Ledger[i][2] <= posted[s] /\ Ledger[i][2] \in Nat
        BY <4>1 DEF Posted, Message
      <4>3. QED
        BY <2>1, <2>2, <3>1, <3>3, <4>2
    <3>4. QED
      BY <2>2, <3>2, <3>3
  <2>6. QED
    BY <2>3, <2>4, <2>5 DEF OnceAndInOrder
<1>3. QED
  BY <1>1, <1>2, LedgerStep

-----------------------------------------------------------------------------
\* The accounts: windows and counters.

Accounts == WindowConserved /\ CountersAddUp /\ HeldInInsert

LEMMA SettledFinite ==
    ASSUME WeakTypeOK, NEW s \in Sources
    PROVE  /\ IsFiniteSet(SettledOf(s)) /\ Cardinality(SettledOf(s)) \in Nat
           /\ SettledOf(s) \subseteq 1..Len(settled)
<1>1. DOMAIN settled = 1..Len(settled) /\ Len(settled) \in Nat
  BY LenProperties DEF WeakTypeOK
<1>2. IsFiniteSet(1..Len(settled))
  BY <1>1, FS_Interval
<1>3. QED
  BY <1>1, <1>2, FS_Subset, FS_CardinalityType DEF SettledOf

LEMMA AccountsInit == ThrInit => Accounts
<1> SUFFICES ASSUME ThrInit PROVE Accounts
  OBVIOUS
<1>1. \A s \in Sources : SettledOf(s) = {}
  BY DEF ThrInit, SettledOf
<1>2. WindowConserved
  BY <1>1, FS_EmptySet, WindowAssumption DEF WindowConserved, ThrInit
<1>3. Len(settled) = 0
  BY EmptySeq DEF ThrInit
<1>4. QED
  BY <1>2, <1>3 DEF Accounts, CountersAddUp, HeldInInsert, ThrInit

LEMMA AccountsStep ==
    ASSUME WeakTypeOK, [ThrNext]_thrVars, Accounts
    PROVE  Accounts'
<1> USE DEF Accounts
<1>1. ASSUME NEW s \in Sources, Post(s) PROVE Accounts'
  <2>1. /\ UNCHANGED <<settled, stored, dropped, held, worker>>
        /\ \A t \in Sources : credit'[t] + posted'[t] = credit[t] + posted[t]
    BY <1>1, MaxPostsAssumption DEF Post, WeakTypeOK
  <2>2. QED
    BY <2>1 DEF WindowConserved, CountersAddUp, HeldInInsert, SettledOf
<1>2. CASE Start \/ Terminate \/ GoDown \/ Wake \/ Reopen \/ Exit \/ PopNothing \/ PopHead
           \/ UNCHANGED thrVars
  <2>1. UNCHANGED <<posted, credit, settled, stored, dropped>>
    BY <1>2 DEF Start, Terminate, GoDown, Wake, Reopen, Exit, PopNothing, PopHead, WorkerGoes, thrVars
  <2>2. HeldInInsert'
    BY <1>2 DEF Start, Terminate, GoDown, Wake, Reopen, Exit, PopNothing, PopHead, WorkerGoes, thrVars,
                HeldInInsert
  <2>3. QED
    BY <2>1, <2>2 DEF WindowConserved, CountersAddUp, SettledOf
<1>3. ASSUME NEW verdict \in Verdicts, NEW ok \in BOOLEAN, Settle(verdict, ok)
      PROVE  Accounts'
  <2> DEFINE m == Head(held)
             n == Len(settled)
             r == [msg |-> m, verdict |-> verdict]
  <2>1. m \in Message /\ m[1] \in Sources
    BY <1>3, HeldFacts DEF Settle, GiveVerdict
  <2>2. /\ r \in [msg : Message, verdict : Verdicts]
        /\ r.msg = m
    BY <2>1
  <2>3. /\ settled' = Append(settled, r)
        /\ credit' = [credit EXCEPT ![m[1]] = @ + 1]
        /\ posted' = posted
        /\ held' = <<>>
    BY <1>3 DEF Settle, GiveVerdict, Acknowledge
  <2> HIDE DEF r
  <2>4. /\ n \in Nat /\ DOMAIN settled = 1..n /\ DOMAIN settled' = 1..(n + 1)
        /\ Len(settled') = n + 1
        /\ \A i \in 1..n : settled'[i] = settled[i]
        /\ settled'[n + 1] = r
    BY <2>2, <2>3, AppendProperties, LenProperties DEF WeakTypeOK
  <2> HIDE DEF m, n
  <2>5. ASSUME NEW s \in Sources
        PROVE  credit'[s] + posted'[s] = Window + Cardinality(SettledOf(s)')
    <3>1. /\ IsFiniteSet(SettledOf(s)) /\ Cardinality(SettledOf(s)) \in Nat
          /\ n + 1 \notin SettledOf(s)
      BY <2>4, SettledFinite DEF n
    <3>2. credit[s] \in Nat /\ posted[s] \in Nat
      BY DEF WeakTypeOK
    <3>3. credit[s] + posted[s] = Window + Cardinality(SettledOf(s))
      BY DEF WindowConserved
    <3>4. CASE m[1] = s
      <4>1. SettledOf(s)' = SettledOf(s) \union {n + 1}
        BY <2>2, <2>4, <3>4 DEF SettledOf
      <4>2. Cardinality(SettledOf(s)') = Cardinality(SettledOf(s)) + 1
        BY <3>1, <4>1, FS_AddElement
      <4>3. credit'[s] = credit[s] + 1 /\ posted'[s] = posted[s]
        BY <2>3, <3>4 DEF WeakTypeOK
      <4>4. QED
        BY <3>1, <3>2, <3>3, <4>2, <4>3, WindowAssumption
    <3>5. CASE m[1] # s
      <4>1. SettledOf(s)' = SettledOf(s)
        BY <2>2, <2>4, <3>5 DEF SettledOf
      <4>2. credit'[s] = credit[s] /\ posted'[s] = posted[s]
        BY <2>1, <2>3, <3>5 DEF WeakTypeOK
      <4>3. QED
        BY <3>3, <4>1, <4>2
    <3>6. QED
      BY <3>4, <3>5
  <2>6. stored' + dropped' = Len(settled')
    BY <1>3, <2>4 DEF Settle, Count, CountersAddUp, WeakTypeOK, Verdicts, n
  <2>7. QED
    BY <2>3, <2>5, <2>6 DEF WindowConserved, CountersAddUp, HeldInInsert
<1>4. QED
  BY <1>1, <1>2, <1>3 DEF ThrNext

-----------------------------------------------------------------------------
\* The inductive invariant and what follows from it.

ThrInv == WeakTypeOK /\ NothingLost /\ OnceAndInOrder /\ Accounts

\* The invariant is inductive: it holds at the start and every step keeps it.
THEOREM ThrInvariant == ThrSpec => []ThrInv
<1>1. ThrInit => ThrInv
  BY WeakTypeInit, LedgerInit, AccountsInit DEF ThrInv
<1>2. ThrInv /\ [ThrNext]_thrVars => ThrInv'
  BY WeakTypeStep, LedgerInvariantStep, AccountsStep DEF ThrInv
<1>3. QED
  BY <1>1, <1>2, PTL DEF ThrSpec

\* Every message a source posted is waiting, held or settled: no step of the
\* worker and no interleaving with the sources drops one silently.
THEOREM NothingIsLost == ThrSpec => []NothingLost
BY ThrInvariant, PTL DEF ThrInv

\* No message is settled twice, and those of one source are settled in order.
THEOREM SettledOnceAndInOrder == ThrSpec => []OnceAndInOrder
BY ThrInvariant, PTL DEF ThrInv

\* Every place of a flow-control window is given back exactly once.
THEOREM WindowIsConserved == ThrSpec => []WindowConserved
BY ThrInvariant, PTL DEF ThrInv, Accounts

\* The first of two concatenated sequences keeps its place.
LEMMA PrefixOfConcat ==
    ASSUME NEW S, NEW a \in Seq(S), NEW b \in Seq(S)
    PROVE  /\ a \o b \in Seq(S)
           /\ \A i \in 1..Len(a) : i \in 1..Len(a \o b) /\ (a \o b)[i] = a[i]
<1>1. Len(a) \in Nat /\ Len(b) \in Nat
  BY LenProperties
<1>2. /\ a \o b \in Seq(S)
      /\ Len(a \o b) = Len(a) + Len(b)
      /\ \A i \in 1..(Len(a) + Len(b)) :
            (a \o b)[i] = IF i <= Len(a) THEN a[i] ELSE b[i - Len(a)]
  BY ConcatProperties
<1>3. QED
  BY <1>1, <1>2

\* The messages of one source are settled under distinct numbers that were posted.
LEMMA SettledNumbers ==
    ASSUME WeakTypeOK, OnceAndInOrder, NEW s \in Sources
    PROVE  /\ \A i \in SettledOf(s) :
                 /\ i \in DOMAIN Ledger /\ Ledger[i] = settled[i].msg
                 /\ settled[i].msg[2] \in 1..posted[s]
           /\ \A i, j \in SettledOf(s) : i # j => settled[i].msg[2] # settled[j].msg[2]
<1>1. /\ posted[s] \in Nat
      /\ DOMAIN settled = 1..Len(settled) /\ Len(settled) \in Nat
  BY LenProperties DEF WeakTypeOK
<1>2. \A i \in 1..Len(settled) : i \in DOMAIN Ledger /\ Ledger[i] = settled[i].msg
  <2>1. /\ SettledMessages \in Seq(Message) /\ held \in Seq(Message)
        /\ Len(SettledMessages) = Len(settled) /\ queue \in Seq(Message)
    BY <1>1, LedgerType DEF WeakTypeOK
  <2>2. /\ SettledMessages \o held \in Seq(Message)
        /\ \A i \in 1..Len(settled) :
              /\ i \in 1..Len(SettledMessages \o held)
              /\ (SettledMessages \o held)[i] = SettledMessages[i]
    BY <2>1, PrefixOfConcat
  <2>3. /\ Ledger \in Seq(Message)
        /\ \A i \in 1..Len(SettledMessages \o held) :
              i \in 1..Len(Ledger) /\ Ledger[i] = (SettledMessages \o held)[i]
    BY <2>1, <2>2, PrefixOfConcat DEF Ledger
  <2>4. \A i \in 1..Len(settled) : SettledMessages[i] = settled[i].msg
    BY <1>1 DEF SettledMessages
  <2>5. QED
    BY <2>2, <2>3, <2>4, LenProperties
<1>3. SettledOf(s) \subseteq 1..Len(settled)
  BY <1>1 DEF SettledOf
<1>4. \A i \in SettledOf(s) : settled[i].msg[2] \in 1..posted[s]
  BY <1>1, <1>2, <1>3 DEF OnceAndInOrder, Posted, Message, SettledOf
<1>5. \A i, j \in SettledOf(s) : i < j => settled[i].msg[2] < settled[j].msg[2]
  BY <1>1, <1>2, <1>3 DEF OnceAndInOrder, SettledOf
<1>6. \A i, j \in SettledOf(s) : i # j => settled[i].msg[2] # settled[j].msg[2]
  <2>1. \A i, j \in SettledOf(s) : i # j => i < j \/ j < i
    BY <1>1, <1>3
  <2>2. \A i \in SettledOf(s) : settled[i].msg[2] \in Nat
    BY <1>1, <1>4
  <2>3. QED
    BY <1>5, <2>1, <2>2
<1>7. QED
  BY <1>2, <1>3, <1>4, <1>6

\* The numbers up to n are n.
LEMMA CountNumbers == \A n \in Nat : IsFiniteSet(1..n) /\ Cardinality(1..n) = n
<1>1. \A n \in Nat : IsFiniteSet(1..n) /\ Cardinality(1..n) = IF 1 > n THEN 0 ELSE n - 1 + 1
  BY FS_Interval
<1>2. \A n \in Nat : (IF 1 > n THEN 0 ELSE n - 1 + 1) = n
  OBVIOUS
<1>3. QED
  BY <1>1, <1>2

\* So there are no more of them than posts.
LEMMA SettledAtMostPosted ==
    ASSUME ThrInv, NEW s \in Sources
    PROVE  Cardinality(SettledOf(s)) <= posted[s]
<1> DEFINE f == [i \in SettledOf(s) |-> settled[i].msg[2]]
<1>1. WeakTypeOK /\ OnceAndInOrder /\ posted[s] \in Nat
  BY DEF ThrInv, WeakTypeOK
<1>2. f \in Injection(SettledOf(s), 1..posted[s])
  <2>1. \A i \in SettledOf(s) : f[i] \in 1..posted[s]
    BY <1>1, SettledNumbers
  <2>2. \A i, j \in SettledOf(s) : i # j => f[i] # f[j]
    BY <1>1, SettledNumbers
  <2>3. QED
    BY <2>1, <2>2, Zenon DEF Injection, IsInjective
<1>3. QED
  BY <1>1, <1>2, CountNumbers, FS_Injection

\* The types of the frame, the upper end of the windows included: a window
\* never holds more places than it was created with.
THEOREM ThrTypeCorrect == ThrSpec => []ThrTypeOK
<1>1. ThrInv => ThrTypeOK
  <2> SUFFICES ASSUME ThrInv PROVE ThrTypeOK
    OBVIOUS
  <2>1. ASSUME NEW s \in Sources PROVE credit[s] \in 0..Window
    <3>1. /\ credit[s] \in Nat /\ posted[s] \in Nat
          /\ credit[s] + posted[s] = Window + Cardinality(SettledOf(s))
      BY DEF ThrInv, WeakTypeOK, Accounts, WindowConserved
    <3>2. Cardinality(SettledOf(s)) \in Nat /\ Cardinality(SettledOf(s)) <= posted[s]
      BY SettledAtMostPosted, SettledFinite DEF ThrInv
    <3>3. QED
      BY <3>1, <3>2, WindowAssumption
  <2>2. credit \in [Sources -> 0..Window]
    BY <2>1 DEF ThrInv, WeakTypeOK
  <2>3. QED
    BY <2>2 DEF ThrInv, WeakTypeOK, ThrTypeOK
<1>2. QED
  BY <1>1, ThrInvariant, PTL

-----------------------------------------------------------------------------
\* The frame implements the promise of a destination.

\* The arrival of a message is its acceptance.
LEMMA PostAccepts ==
    ASSUME WeakTypeOK, NEW s \in Sources, Post(s)
    PROVE  \E m \in Message : Promise!Accept(m)
<1> DEFINE m == <<s, posted[s] + 1>>
<1>1. m \in Message /\ posted[s] \in Nat /\ m[1] = s /\ m[2] = posted[s] + 1
  BY PostFacts
<1>2. m \notin Posted
  BY <1>1 DEF Posted
<1>3. Posted' = Posted \union {m}
  BY <1>1, PostFacts DEF Posted, Message
<1> HIDE DEF m
<1>4. (held \o queue)' = Append(held \o queue, m)
  <2>1. /\ held \in Seq(Message) /\ queue \in Seq(Message)
        /\ held' = held /\ queue' = Append(queue, m)
    BY LedgerType DEF Post, WeakTypeOK, m
  <2>2. held \o queue \in Seq(Message) /\ <<m>> \in Seq(Message)
    BY <1>1, <2>1, ConcatProperties
  <2>3. Append(queue, m) = queue \o <<m>>
    BY <1>1, <2>1, AppendIsConcat
  <2>4. Append(held \o queue, m) = (held \o queue) \o <<m>>
    BY <1>1, <2>2, AppendIsConcat
  <2>5. (held \o queue) \o <<m>> = held \o (queue \o <<m>>)
    BY <2>1, <2>2, ConcatAssociative
  <2>6. QED
    BY <2>1, <2>3, <2>4, <2>5
<1>5. UNCHANGED settled
  BY DEF Post
<1>6. QED
  BY <1>1, <1>2, <1>3, <1>4, <1>5 DEF Promise!Accept

\* The verdict on the held message is the verdict on the oldest pending one.
LEMMA SettleSettles ==
    ASSUME WeakTypeOK, NEW verdict \in Verdicts, NEW ok \in BOOLEAN, Settle(verdict, ok)
    PROVE  \E v \in Verdicts : Promise!Settle(v)
<1>1. /\ Head(held) \in Message /\ held = <<Head(held)>> /\ queue \in Seq(Message)
      /\ held' = <<>> /\ queue' = queue /\ posted' = posted
      /\ settled' = Append(settled, [msg |-> Head(held), verdict |-> verdict])
  BY HeldFacts DEF Settle, GiveVerdict, WeakTypeOK
<1> DEFINE h == Head(held)
<1> HIDE DEF h
<1>2. held = <<h>> /\ h \in Message
  BY <1>1 DEF h
<1>3. /\ <<h>> \o queue # <<>>
      /\ Head(<<h>> \o queue) = h
      /\ Tail(<<h>> \o queue) = queue
  BY <1>1, <1>2
<1>4. (held \o queue)' = queue
  BY <1>1, ConcatEmptySeq
<1>5. Posted' = Posted
  BY <1>1 DEF Posted
<1>6. QED
  BY <1>1, <1>2, <1>3, <1>4, <1>5 DEF Promise!Settle, h

\* A pop only moves a message within the pending ones.
LEMMA PopStutters ==
    ASSUME WeakTypeOK, PopHead
    PROVE  UNCHANGED <<Posted, held \o queue, settled>>
<1>1. /\ queue \in Seq(Message) /\ queue # <<>> /\ held = <<>>
      /\ held' = <<Head(queue)>> /\ queue' = Tail(queue) /\ UNCHANGED <<posted, settled>>
  BY DEF PopHead, WeakTypeOK
<1>2. <<Head(queue)>> \o Tail(queue) = queue
  BY <1>1, HeadTailProperties
<1>3. held \o queue = queue
  BY <1>1, ConcatEmptySeq
<1>4. QED
  BY <1>1, <1>2, <1>3 DEF Posted

\* Each posted message gets exactly one verdict, in the order of the queue.
THEOREM ThrImplementsPromise == ThrSpec => PromiseSpec
<1>1. ThrInit => Promise!Init
  <2> SUFFICES ASSUME ThrInit PROVE Promise!Init
    OBVIOUS
  <2>1. Posted = {}
    BY DEF ThrInit, Posted, Message
  <2>2. held \o queue = <<>>
    <3>1. <<>> \in Seq(Message)
      BY EmptySeq
    <3>2. QED
      BY <3>1, ConcatEmptySeq DEF ThrInit
  <2>3. QED
    BY <2>1, <2>2 DEF ThrInit, Promise!Init
<1>2. WeakTypeOK /\ [ThrNext]_thrVars => [Promise!Next]_(Promise!vars)
  <2> SUFFICES ASSUME WeakTypeOK, [ThrNext]_thrVars PROVE [Promise!Next]_(Promise!vars)
    OBVIOUS
  <2>1. ASSUME NEW s \in Sources, Post(s) PROVE Promise!Next
    BY <2>1, PostAccepts DEF Promise!Next
  <2>2. CASE Start \/ Terminate \/ GoDown \/ Wake \/ Reopen \/ Exit \/ PopNothing \/ UNCHANGED thrVars
    BY <2>2 DEF Start, Terminate, GoDown, Wake, Reopen, Exit, PopNothing, WorkerGoes, thrVars,
                Promise!vars, Posted
  <2>3. CASE PopHead
    BY <2>3, PopStutters DEF Promise!vars
  <2>4. ASSUME NEW verdict \in Verdicts, NEW ok \in BOOLEAN, Settle(verdict, ok)
        PROVE  Promise!Next
    BY <2>4, SettleSettles DEF Promise!Next
  <2>5. QED
    BY <2>1, <2>2, <2>3, <2>4 DEF ThrNext
<1>3. QED
  BY <1>1, <1>2, WeakTypeCorrect, PTL DEF ThrSpec, PromiseSpec, Promise!Spec

-----------------------------------------------------------------------------
\* Counting in a history: there is a number of the entries of a kind, and an
\* appended one adds itself.
LEMMA CountType ==
    ASSUME NEW S, NEW h \in Seq(S), NEW T
    PROVE  /\ IsFiniteSet({i \in DOMAIN h : h[i] \in T})
           /\ Cardinality({i \in DOMAIN h : h[i] \in T}) \in Nat
<1>1. Len(h) \in Nat /\ DOMAIN h = 1..Len(h)
  BY LenProperties
<1>2. IsFiniteSet(1..Len(h)) /\ {i \in DOMAIN h : h[i] \in T} \subseteq 1..Len(h)
  BY <1>1, FS_Interval
<1>3. QED
  BY <1>2, FS_Subset, FS_CardinalityType

LEMMA CountAppend ==
    ASSUME NEW S, NEW h \in Seq(S), NEW e \in S, NEW T
    PROVE  Cardinality({i \in DOMAIN Append(h, e) : Append(h, e)[i] \in T})
              = Cardinality({i \in DOMAIN h : h[i] \in T}) + (IF e \in T THEN 1 ELSE 0)
<1> DEFINE n == Len(h)
           before == {i \in DOMAIN h : h[i] \in T}
           after == {i \in DOMAIN Append(h, e) : Append(h, e)[i] \in T}
<1>1. /\ n \in Nat /\ DOMAIN h = 1..n /\ DOMAIN Append(h, e) = 1..(n + 1)
      /\ \A i \in 1..n : Append(h, e)[i] = h[i]
      /\ Append(h, e)[n + 1] = e
  BY AppendProperties, LenProperties
<1>2. IsFiniteSet(before) /\ Cardinality(before) \in Nat
  BY CountType
<1>3. n + 1 \notin before
  BY <1>1
<1>4. after = IF e \in T THEN before \union {n + 1} ELSE before
  BY <1>1
<1> HIDE DEF n, before, after
<1>5. Cardinality(before \union {n + 1}) = Cardinality(before) + 1
  BY <1>2, <1>3, FS_AddElement
<1>6. Cardinality(after) = Cardinality(before) + (IF e \in T THEN 1 ELSE 0)
  BY <1>2, <1>4, <1>5
<1>7. QED
  BY <1>6, Zenon DEF before, after
=============================================================================
