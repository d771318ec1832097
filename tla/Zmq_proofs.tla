----------------------------- MODULE Zmq_proofs ------------------------------
(***************************************************************************)
(* Proofs about the ZeroMQ destination (ZmqDest), for any sources, window, *)
(* number of messages and of lives, and any socket types, and about the    *)
(* ZeroMQ source (ZmqSource), for any ports and number of reloads.         *)
(*                                                                         *)
(* The destination does not keep the contract of the frame, so the         *)
(* theorems of the frame do not hold of it and its invariants are proved   *)
(* from its own steps.                                                     *)
(***************************************************************************)
EXTENDS ZmqDest, ZmqSource, LogThrDest_proofs

\* The driver without its fairness.
ZmqSafety == Init /\ [][Next]_vars

Books == [msg : Message, outcome : Outcomes, life : Nat]

\* Where the insert has a message.
Busy == {"connect", "send", "done"}

\* What the proofs need of the types, and that a busy insert holds a message.
ZmqTypeOK ==
    /\ posted \in [Sources -> 0..MaxPosts]
    /\ credit \in [Sources -> Int]
    /\ queue \in Seq(Message)
    /\ held \in {<<>>} \union {<<m>> : m \in Message}
    /\ lives \in Nat
    /\ taken \in Seq(Books)
    /\ pc \in Busy => held # <<>>

\* A source posts a message.
Posting(s) == Post(s) /\ UNCHANGED <<taken, pc>>

\* A new life of the driver.
NewLife ==
    /\ UNCHANGED <<posted, credit, queue, held, taken>>
    /\ lives' = lives + 1 /\ pc' = "start"

Popping == PopHead /\ pc' = "connect" /\ UNCHANGED taken

\* The insert is done with its message.
Ending(outcome) ==
    /\ pc = "done" /\ pc' = "idle"
    /\ Release(outcome)
    /\ UNCHANGED <<posted, credit, queue, lives>>

\* Nothing the books are about changes.
Bookless ==
    /\ UNCHANGED <<posted, credit, queue, held, taken, lives>>
    /\ pc' \in Busy => pc \in Busy

\* What a step does to the books, whatever it does to the socket.
LEMMA StepCases ==
    ASSUME [Next]_vars
    PROVE  \/ \E s \in Sources : Posting(s)
           \/ NewLife \/ Popping
           \/ sendOk /\ Ending("sent")
           \/ ~sendOk /\ Ending("failed")
           \/ Bookless
<1> USE DEF Busy
<1>1. CASE \E s \in Sources : SourceStep(s)
  BY <1>1 DEF SourceStep, drvVars, Posting
<1>2. CASE DriverInit
  BY <1>2 DEF DriverInit, Start, NewLife
<1>3. CASE Pop
  BY <1>3 DEF Pop, PopNothing, WorkerGoes, Bookless, Popping
<1>4. CASE FinishSent
  BY <1>4 DEF FinishSent, Release, Ending
<1>5. CASE FinishFailed
  BY <1>5 DEF FinishFailed, Release, Ending
<1>6. CASE StopRequest \/ DriverDeinit \/ LeaveLoop \/ CallInsert
  BY <1>6 DEF StopRequest, Terminate, DriverDeinit, GoDown, LeaveLoop, Exit, CallInsert, Wake,
              Reopen, WorkerGoes, drvVars, Bookless
<1>7. CASE PeerConnects \/ PeerReads \/ PeerLeaves \/ Interrupted \/ Send
  BY <1>7 DEF PeerConnects, PeerReads, PeerLeaves, Interrupted, Send, thrVars, Bookless
<1>8. CASE ThreadInit \/ Connect
  BY <1>8 DEF ThreadInit, Connect, ConnectTo, thrVars, Bookless
<1>9. CASE UNCHANGED vars
  BY <1>9 DEF vars, thrVars, drvVars, Bookless
<1>10. QED
  BY <1>1, <1>2, <1>3, <1>4, <1>5, <1>6, <1>7, <1>8, <1>9 DEF Next, WorkerStep

-----------------------------------------------------------------------------
\* Types.

LEMMA ZmqTypeInit == Init => ZmqTypeOK
<1> SUFFICES ASSUME Init PROVE ZmqTypeOK
  OBVIOUS
<1>1. <<>> \in Seq(Message) /\ <<>> \in Seq(Books)
  BY EmptySeq
<1>2. queue \in Seq(Message) /\ taken \in Seq(Books)
  BY <1>1 DEF Init, ThrInit
<1>3. posted \in [Sources -> 0..MaxPosts] /\ credit \in [Sources -> Int]
  BY MaxPostsAssumption, WindowAssumption DEF Init, ThrInit
<1>4. QED
  BY <1>2, <1>3 DEF Init, ThrInit, ZmqTypeOK, Busy

\* What is posted is the next message of its source.
LEMMA PostingFacts ==
    ASSUME ZmqTypeOK, NEW s \in Sources, Posting(s)
    PROVE  /\ <<s, posted[s] + 1>> \in Message /\ posted[s] \in Nat
           /\ posted' = [posted EXCEPT ![s] = @ + 1] /\ posted' \in [Sources -> 0..MaxPosts]
           /\ credit' = [credit EXCEPT ![s] = @ - 1] /\ credit' \in [Sources -> Int]
           /\ queue' = Append(queue, <<s, posted[s] + 1>>)
           /\ UNCHANGED <<held, taken, lives, pc>>
<1>1. /\ posted[s] \in Nat /\ posted[s] + 1 \in 1..MaxPosts
      /\ posted' = [posted EXCEPT ![s] = @ + 1]
      /\ credit' = [credit EXCEPT ![s] = @ - 1]
      /\ queue' = Append(queue, <<s, posted[s] + 1>>)
      /\ UNCHANGED <<held, taken, lives, pc>>
  BY MaxPostsAssumption DEF ZmqTypeOK, Posting, Post
<1>2. posted' \in [Sources -> 0..MaxPosts] /\ credit' \in [Sources -> Int]
  BY <1>1, MaxPostsAssumption DEF ZmqTypeOK
<1>3. QED
  BY <1>1, <1>2 DEF Message

\* What the insert puts in the books.
LEMMA EndingFacts ==
    ASSUME ZmqTypeOK, NEW outcome \in Outcomes, Ending(outcome)
    PROVE  \E m \in Message :
              LET e == [msg |-> m, outcome |-> outcome, life |-> lives] IN
              /\ held = <<m>> /\ held' = <<>>
              /\ e \in Books /\ taken' = Append(taken, e)
<1>1. held # <<>>
  BY DEF ZmqTypeOK, Ending, Busy
<1>2. PICK m \in Message : held = <<m>>
  BY <1>1 DEF ZmqTypeOK
<1>3. Head(held) = m
  BY <1>2
<1>4. QED
  BY <1>2, <1>3 DEF Ending, Release, ZmqTypeOK, Books

LEMMA ZmqTypeStep ==
    ASSUME ZmqTypeOK, [Next]_vars
    PROVE  ZmqTypeOK'
<1>1. ASSUME NEW s \in Sources, Posting(s) PROVE ZmqTypeOK'
  <2>1. PICK m \in Message : queue' = Append(queue, m)
    BY <1>1, PostingFacts
  <2>2. queue' \in Seq(Message)
    BY <2>1, AppendProperties DEF ZmqTypeOK
  <2>3. QED
    BY <1>1, <2>2, PostingFacts DEF ZmqTypeOK
<1>2. CASE NewLife
  BY <1>2 DEF NewLife, ZmqTypeOK, Busy
<1>3. CASE Popping
  <2>1. queue \in Seq(Message) /\ queue # <<>>
    BY <1>3 DEF Popping, PopHead, ZmqTypeOK
  <2>2. Head(queue) \in Message /\ Tail(queue) \in Seq(Message)
    BY <2>1, HeadTailProperties
  <2>3. held' = <<Head(queue)>> /\ queue' = Tail(queue) /\ UNCHANGED <<posted, credit, taken, lives>>
    BY <1>3 DEF Popping, PopHead
  <2>4. QED
    BY <2>2, <2>3 DEF ZmqTypeOK
<1>4. ASSUME NEW outcome \in Outcomes, Ending(outcome) PROVE ZmqTypeOK'
  <2>1. PICK m \in Message :
           LET e == [msg |-> m, outcome |-> outcome, life |-> lives] IN
           held' = <<>> /\ e \in Books /\ taken' = Append(taken, e)
    BY <1>4, EndingFacts
  <2>2. taken' \in Seq(Books)
    BY <2>1, AppendProperties DEF ZmqTypeOK
  <2>3. QED
    BY <1>4, <2>1, <2>2 DEF Ending, ZmqTypeOK, Busy
<1>5. CASE Bookless
  BY <1>5 DEF Bookless, ZmqTypeOK
<1>6. QED
  BY <1>1, <1>2, <1>3, <1>4, <1>5, StepCases DEF Outcomes

-----------------------------------------------------------------------------
\* The window of a source is never given back.

LEMMA StallInit == Init => SourcesStall
BY WindowAssumption DEF Init, ThrInit, SourcesStall

LEMMA StallStep ==
    ASSUME ZmqTypeOK, SourcesStall, [Next]_vars
    PROVE  SourcesStall'
<1>1. ASSUME NEW s \in Sources, Posting(s) PROVE SourcesStall'
  <2>1. /\ posted' = [posted EXCEPT ![s] = @ + 1]
        /\ credit' = [credit EXCEPT ![s] = @ - 1]
    BY <1>1, PostingFacts
  <2>2. QED
    BY <2>1, WindowAssumption DEF SourcesStall, ZmqTypeOK
<1>2. CASE UNCHANGED <<posted, credit>>
  BY <1>2 DEF SourcesStall
<1>3. QED
  BY <1>1, <1>2, StepCases DEF NewLife, Popping, PopHead, Ending, Bookless

\* The window of each source only shrinks: no message is ever acknowledged.
THEOREM SourcesAreStalled == Spec => []SourcesStall
<1>1. Init => ZmqTypeOK /\ SourcesStall
  BY ZmqTypeInit, StallInit
<1>2. ZmqTypeOK /\ SourcesStall /\ [Next]_vars => ZmqTypeOK' /\ SourcesStall'
  BY ZmqTypeStep, StallStep
<1>3. QED
  BY <1>1, <1>2, PTL DEF Spec

-----------------------------------------------------------------------------
\* A message is taken once.

\* Taken, held and waiting: the sequence moves its borders and grows at its end.
LEMMA Borders ==
    ASSUME NEW a \in Seq(Message), NEW q \in Seq(Message), NEW m \in Message
    PROVE  /\ \A h \in Seq(Message) :
                 /\ a \o h \o q \in Seq(Message)
                 /\ a \o h \o Append(q, m) = Append(a \o h \o q, m)
           /\ q # <<>> => a \o <<Head(q)>> \o Tail(q) = a \o <<>> \o q
           /\ Append(a, m) \o <<>> \o q = a \o <<m>> \o q
<1>1. <<m>> \in Seq(Message) /\ <<>> \in Seq(Message)
  BY EmptySeq
<1>2. ASSUME NEW h \in Seq(Message)
      PROVE  a \o h \o q \in Seq(Message) /\ a \o h \o Append(q, m) = Append(a \o h \o q, m)
  <2>1. a \o h \in Seq(Message) /\ a \o h \o q \in Seq(Message)
    BY ConcatProperties
  <2>2. Append(q, m) = q \o <<m>> /\ Append(a \o h \o q, m) = (a \o h \o q) \o <<m>>
    BY <2>1, AppendIsConcat
  <2>3. (a \o h) \o (q \o <<m>>) = ((a \o h) \o q) \o <<m>>
    BY <1>1, <2>1, ConcatAssociative
  <2>4. QED
    BY <2>1, <2>2, <2>3
<1>3. a \o <<>> = a
  BY ConcatEmptySeq
<1>4. ASSUME q # <<>> PROVE a \o <<Head(q)>> \o Tail(q) = a \o <<>> \o q
  <2>1. Head(q) \in Message /\ Tail(q) \in Seq(Message)
    BY <1>4, HeadTailProperties
  <2>2. <<Head(q)>> \in Seq(Message) /\ <<Head(q)>> \o Tail(q) = q
    BY <1>4, <2>1
  <2>3. (a \o <<Head(q)>>) \o Tail(q) = a \o (<<Head(q)>> \o Tail(q))
    BY <2>1, <2>2, ConcatAssociative
  <2>4. QED
    BY <1>3, <2>2, <2>3
<1>5. Append(a, m) \o <<>> = a \o <<m>>
  <2>1. Append(a, m) = a \o <<m>> /\ Append(a, m) \in Seq(Message)
    BY AppendIsConcat, AppendProperties
  <2>2. QED
    BY <2>1, ConcatEmptySeq
<1>6. QED
  BY <1>2, <1>4, <1>5

\* Every message ever posted: taken, held, waiting.
ZmqLedger == TakenMessages \o held \o queue

LEMMA ZmqLedgerType ==
    ASSUME ZmqTypeOK
    PROVE  TakenMessages \in Seq(Message) /\ held \in Seq(Message) /\ ZmqLedger \in Seq(Message)
<1>1. TakenMessages \in Seq(Message)
  <2>1. Len(taken) \in Nat /\ DOMAIN taken = 1..Len(taken) /\ \A i \in 1..Len(taken) : taken[i] \in Books
    BY LenProperties, ElementOfSeq DEF ZmqTypeOK
  <2>2. TakenMessages \in [1..Len(taken) -> Message]
    BY <2>1 DEF TakenMessages, Books
  <2>3. QED
    BY <2>1, <2>2, SeqDef, LenProperties
<1>2. <<>> \in Seq(Message) /\ \A m \in Message : <<m>> \in Seq(Message)
  BY EmptySeq
<1>3. held \in Seq(Message)
  BY <1>2 DEF ZmqTypeOK
<1>4. TakenMessages \o held \in Seq(Message) /\ queue \in Seq(Message)
  BY <1>1, <1>3, ConcatProperties DEF ZmqTypeOK
<1>5. QED
  BY <1>1, <1>3, <1>4, ConcatProperties DEF ZmqLedger

\* An end of the insert moves the held message to the taken ones.
LEMMA TakenGrows ==
    ASSUME ZmqTypeOK, NEW e \in Books, taken' = Append(taken, e)
    PROVE  TakenMessages' = Append(TakenMessages, e.msg)
<1>1. /\ DOMAIN taken' = 1..(Len(taken) + 1)
      /\ DOMAIN taken = 1..Len(taken)
      /\ Len(taken) \in Nat
      /\ \A i \in 1..Len(taken) : taken'[i] = taken[i]
      /\ taken'[Len(taken) + 1] = e
  BY AppendProperties, LenProperties DEF ZmqTypeOK
<1>2. TakenMessages' = [i \in 1..(Len(taken) + 1) |-> taken'[i].msg]
  BY <1>1 DEF TakenMessages
<1>3. e.msg \in Message
  BY DEF Books
<1>4. TakenMessages \in Seq(Message) /\ Len(TakenMessages) = Len(taken)
  <2>1. TakenMessages \in Seq(Message)
    BY ZmqLedgerType
  <2>2. QED
    BY <2>1, <1>1, LenProperties DEF TakenMessages
<1> DEFINE longer == Append(TakenMessages, e.msg)
<1>5. /\ longer \in Seq(Message)
      /\ Len(longer) = Len(taken) + 1
      /\ \A i \in 1..Len(taken) : longer[i] = TakenMessages[i]
      /\ longer[Len(taken) + 1] = e.msg
  BY <1>3, <1>4, AppendProperties
<1>6. \A i \in 1..(Len(taken) + 1) : TakenMessages'[i] = longer[i]
  BY <1>1, <1>2, <1>5 DEF TakenMessages
<1> HIDE DEF longer
<1>7. TakenMessages' \in Seq(Message) /\ Len(TakenMessages') = Len(taken) + 1
  <2>1. \A i \in 1..(Len(taken) + 1) : TakenMessages'[i] \in Message
    BY <1>5, <1>6, ElementOfSeq
  <2>2. TakenMessages' \in [1..(Len(taken) + 1) -> Message]
    BY <1>2, <2>1
  <2>3. QED
    BY <1>1, <2>2, SeqDef, LenProperties
<1>8. TakenMessages' = longer
  BY <1>5, <1>6, <1>7, SeqEqual
<1>9. QED
  BY <1>8 DEF longer

\* A step appends the next message of a source to the ledger or leaves it alone.
LEMMA ZmqLedgerStep ==
    ASSUME ZmqTypeOK, [Next]_vars
    PROVE  \/ ZmqLedger' = ZmqLedger /\ posted' = posted
           \/ \E s \in Sources : Posting(s) /\ ZmqLedger' = Append(ZmqLedger, <<s, posted[s] + 1>>)
<1>1. ASSUME NEW s \in Sources, Posting(s)
      PROVE  ZmqLedger' = Append(ZmqLedger, <<s, posted[s] + 1>>)
  <2> DEFINE m == <<s, posted[s] + 1>>
  <2>1. m \in Message /\ queue' = Append(queue, m) /\ UNCHANGED <<held, taken>>
    BY <1>1, PostingFacts
  <2> HIDE DEF m
  <2>2. TakenMessages' = TakenMessages /\ queue \in Seq(Message)
    BY <2>1 DEF TakenMessages, ZmqTypeOK
  <2>3. TakenMessages \in Seq(Message) /\ held \in Seq(Message)
    BY ZmqLedgerType
  <2>4. TakenMessages \o held \o Append(queue, m) = Append(TakenMessages \o held \o queue, m)
    BY <2>1, <2>2, <2>3, Borders
  <2>5. QED
    BY <2>1, <2>2, <2>4 DEF ZmqLedger, m
<1>2. CASE Popping
  <2>1. /\ queue \in Seq(Message) /\ queue # <<>> /\ held = <<>> /\ posted' = posted
        /\ held' = <<Head(queue)>> /\ queue' = Tail(queue) /\ taken' = taken
    BY <1>2 DEF Popping, PopHead, ZmqTypeOK
  <2>2. TakenMessages' = TakenMessages /\ TakenMessages \in Seq(Message)
    BY <2>1, ZmqLedgerType DEF TakenMessages
  <2>3. Head(queue) \in Message
    BY <2>1, HeadTailProperties
  <2>4. TakenMessages \o <<Head(queue)>> \o Tail(queue) = TakenMessages \o <<>> \o queue
    BY <2>1, <2>2, <2>3, Borders
  <2>5. QED
    BY <2>1, <2>2, <2>4 DEF ZmqLedger
<1>3. ASSUME NEW outcome \in Outcomes, Ending(outcome)
      PROVE  ZmqLedger' = ZmqLedger /\ posted' = posted
  <2>1. PICK m \in Message :
           LET e == [msg |-> m, outcome |-> outcome, life |-> lives] IN
           held = <<m>> /\ held' = <<>> /\ e \in Books /\ taken' = Append(taken, e)
    BY <1>3, EndingFacts
  <2>2. TakenMessages' = Append(TakenMessages, m)
    BY <2>1, TakenGrows
  <2>3. queue' = queue /\ posted' = posted /\ queue \in Seq(Message)
    BY <1>3 DEF Ending, ZmqTypeOK
  <2>4. TakenMessages \in Seq(Message)
    BY ZmqLedgerType
  <2>5. Append(TakenMessages, m) \o <<>> \o queue = TakenMessages \o <<m>> \o queue
    BY <2>3, <2>4, Borders
  <2>6. QED
    BY <2>1, <2>2, <2>3, <2>5 DEF ZmqLedger
<1>4. CASE NewLife \/ Bookless
  BY <1>4 DEF NewLife, Bookless, ZmqLedger, TakenMessages
<1>5. QED
  BY <1>1, <1>2, <1>3, <1>4, StepCases DEF Outcomes

LEMMA TakenInit == Init => TakenOnce
<1> SUFFICES ASSUME Init PROVE TakenOnce
  OBVIOUS
<1>1. Posted = {}
  BY DEF Init, ThrInit, Posted, Message
<1>2. TakenMessages = <<>>
  BY DEF Init, TakenMessages
<1>3. <<>> \o <<>> \o <<>> = <<>>
  <2>1. <<>> \in Seq(Message)
    BY EmptySeq
  <2>2. QED
    BY <2>1, ConcatEmptySeq
<1>4. TakenMessages \o held \o queue = <<>>
  BY <1>2, <1>3 DEF Init, ThrInit
<1>5. QED
  BY <1>1, <1>4 DEF TakenOnce

LEMMA TakenStep ==
    ASSUME ZmqTypeOK, TakenOnce, [Next]_vars
    PROVE  TakenOnce'
<1>1. /\ {ZmqLedger[i] : i \in DOMAIN ZmqLedger} = Posted
      /\ \A i, j \in DOMAIN ZmqLedger : i # j => ZmqLedger[i] # ZmqLedger[j]
  BY DEF TakenOnce, ZmqLedger
<1>2. /\ {ZmqLedger'[i] : i \in DOMAIN ZmqLedger'} = Posted'
      /\ \A i, j \in DOMAIN ZmqLedger' : i # j => ZmqLedger'[i] # ZmqLedger'[j]
  <2>1. CASE ZmqLedger' = ZmqLedger /\ posted' = posted
    BY <1>1, <2>1 DEF Posted
  <2>2. ASSUME NEW s \in Sources, Posting(s), ZmqLedger' = Append(ZmqLedger, <<s, posted[s] + 1>>)
        PROVE  <1>2!1 /\ <1>2!2
    <3> DEFINE m == <<s, posted[s] + 1>>
               n == Len(ZmqLedger)
    <3>1. /\ m \in Message /\ posted[s] \in Nat /\ posted \in [Sources -> 0..MaxPosts]
          /\ posted' = [posted EXCEPT ![s] = @ + 1]
      BY <2>2, PostingFacts DEF ZmqTypeOK
    <3>2. ZmqLedger \in Seq(Message) /\ n \in Nat /\ DOMAIN ZmqLedger = 1..n
      BY ZmqLedgerType, LenProperties
    <3>3. Posted' = Posted \union {m} /\ m \notin Posted
      BY <3>1, MaxPostsAssumption DEF Posted, Message
    <3>4. ZmqLedger' = Append(ZmqLedger, m)
      BY <2>2
    <3> HIDE DEF m
    <3>5. /\ DOMAIN ZmqLedger' = 1..(n + 1)
          /\ \A i \in 1..n : ZmqLedger'[i] = ZmqLedger[i]
          /\ ZmqLedger'[n + 1] = m
      BY <3>1, <3>2, <3>4, AppendProperties, LenProperties
    <3> HIDE DEF n
    <3>6. {ZmqLedger'[i] : i \in DOMAIN ZmqLedger'} = Posted'
      BY <1>1, <3>2, <3>3, <3>5
    <3>7. \A i, j \in DOMAIN ZmqLedger' : i # j => ZmqLedger'[i] # ZmqLedger'[j]
      BY <1>1, <3>2, <3>3, <3>5
    <3>8. QED
      BY <3>6, <3>7
  <2>3. QED
    BY <2>1, <2>2, ZmqLedgerStep
<1>3. QED
  BY <1>2 DEF TakenOnce, ZmqLedger

\* Each posted message is waiting, held, or was taken exactly once.
THEOREM MessagesAreTakenOnce == Spec => []TakenOnce
<1>1. Init => ZmqTypeOK /\ TakenOnce
  BY ZmqTypeInit, TakenInit
<1>2. ZmqTypeOK /\ TakenOnce /\ [Next]_vars => ZmqTypeOK' /\ TakenOnce'
  BY ZmqTypeStep, TakenStep
<1>3. QED
  BY <1>1, <1>2, PTL DEF Spec

-----------------------------------------------------------------------------
\* A closed socket stays closed.

\* A driver that starts has no socket.
NewSocket == pc = "start" => socket = "null"

\* A socket that was closed after a failed send carries nothing to a peer and
\* stays closed until a new life of the driver.
THEOREM SocketIsClosedForGood == Spec => ClosedForGood
<1>1. Init => NewSocket
  BY DEF Init, NewSocket
<1>2. NewSocket /\ [Next]_vars => NewSocket'
  <2> SUFFICES ASSUME NewSocket, [Next]_vars PROVE NewSocket'
    OBVIOUS
  <2> USE DEF NewSocket
  <2>1. CASE UNCHANGED <<pc, socket>>
    BY <2>1
  <2>2. CASE pc' # "start"
    BY <2>2
  <2>3. CASE DriverInit
    BY <2>3 DEF DriverInit
  <2>4. CASE LeaveLoop
    BY <2>4 DEF LeaveLoop
  <2>5. CASE StopRequest \/ DriverDeinit \/ (\E s \in Sources : SourceStep(s)) \/ PeerConnects
             \/ PeerReads \/ PeerLeaves \/ UNCHANGED vars
    BY <2>1, <2>5 DEF StopRequest, DriverDeinit, SourceStep, PeerConnects, PeerReads, PeerLeaves,
                      drvVars, vars
  <2>6. CASE Interrupted \/ ThreadInit \/ CallInsert \/ Pop \/ Connect \/ Send \/ FinishSent \/ FinishFailed
    BY <2>2, <2>6 DEF Interrupted, ThreadInit, ConnectTo, CallInsert, Pop, Connect, Send,
                      FinishSent, FinishFailed
  <2>7. QED
    BY <2>3, <2>4, <2>5, <2>6 DEF Next, WorkerStep
<1>3. NewSocket /\ [Next]_vars =>
         [socket = "closed" => received' = received /\ (socket' = "closed" \/ worker = "down")]_vars
  <2> SUFFICES ASSUME NewSocket, [Next]_vars, socket = "closed"
               PROVE  received' = received /\ (socket' = "closed" \/ worker = "down")
    OBVIOUS
  <2>1. CASE UNCHANGED <<socket, received>>
    BY <2>1
  <2>2. CASE DriverInit
    BY <2>2 DEF DriverInit, Start
  <2>3. CASE LeaveLoop \/ FinishFailed
    BY <2>3 DEF LeaveLoop, FinishFailed, Closed
  <2>4. CASE Send
    BY <2>4 DEF Send, CanSend
  <2>5. CASE ThreadInit \/ Connect
    BY <2>5 DEF ThreadInit, Connect, NewSocket
  <2>6. CASE StopRequest \/ DriverDeinit \/ (\E s \in Sources : SourceStep(s)) \/ PeerConnects
             \/ PeerReads \/ PeerLeaves \/ Interrupted \/ CallInsert \/ Pop \/ FinishSent \/ UNCHANGED vars
    BY <2>1, <2>6 DEF StopRequest, DriverDeinit, SourceStep, PeerConnects, PeerReads, PeerLeaves,
                      Interrupted, CallInsert, Pop, FinishSent, drvVars, vars
  <2>7. QED
    BY <2>2, <2>3, <2>4, <2>5, <2>6 DEF Next, WorkerStep
<1>4. QED
  BY <1>1, <1>2, <1>3, PTL DEF Spec, ClosedForGood

-----------------------------------------------------------------------------
\* One request in each life.

\* The entries of the books that say a message of the given life was sent.
SentIn(n) == {e \in Books : e.outcome = "sent" /\ e.life = n}

SentCount(n) == Cardinality({i \in DOMAIN taken : taken[i] \in SentIn(n)})

\* A life that has sent its request has no socket that could send another: the
\* one it has owes a reply or is closed, and there is always one in the way of a
\* new connection.  Between its send and its end the insert holds that request.
RequestInv ==
    socketType = "request" =>
        /\ \A n \in 1..lives : SentCount(n) <= 1
        /\ \A i \in DOMAIN taken : taken[i].life <= lives
        /\ SentCount(lives) # 0 => /\ pc # "start" /\ socket # "null"
                                   /\ replyDue \/ socket = "closed"
        /\ alive /\ pc = "done" /\ sendOk => /\ SentCount(lives) = 0
                                             /\ replyDue /\ socket \in {"bound", "unbound"}

LEMMA SentEntries ==
    ASSUME ZmqTypeOK
    PROVE  /\ \A i \in DOMAIN taken : taken[i] \in Books
           /\ \A n \in Nat : /\ SentCount(n) \in Nat
                             /\ SentCount(n) = Cardinality({i \in DOMAIN taken :
                                   taken[i].outcome = "sent" /\ taken[i].life = n})
<1>1. \A i \in DOMAIN taken : taken[i] \in Books
  BY LenProperties, ElementOfSeq DEF ZmqTypeOK
<1>2. ASSUME NEW n \in Nat
      PROVE  /\ SentCount(n) \in Nat
             /\ SentCount(n) = Cardinality({i \in DOMAIN taken :
                                   taken[i].outcome = "sent" /\ taken[i].life = n})
  <2>1. {i \in DOMAIN taken : taken[i] \in SentIn(n)}
           = {i \in DOMAIN taken : taken[i].outcome = "sent" /\ taken[i].life = n}
    BY <1>1 DEF SentIn
  <2>2. taken \in Seq(Books)
    BY DEF ZmqTypeOK
  <2>3. SentCount(n) \in Nat
    BY <2>2, CountType DEF SentCount
  <2>4. QED
    BY <2>1, <2>3 DEF SentCount
<1>3. QED
  BY <1>1, <1>2

\* What is not in the books counts nothing.
LEMMA NoneSent ==
    ASSUME NEW n, \A i \in DOMAIN taken : ~(taken[i].outcome = "sent" /\ taken[i].life = n)
    PROVE  SentCount(n) = 0
<1>1. {i \in DOMAIN taken : taken[i] \in SentIn(n)} = {}
  BY DEF SentIn
<1>2. QED
  BY <1>1, FS_EmptySet DEF SentCount

LEMMA RequestInit == Init => RequestInv
<1> SUFFICES ASSUME Init PROVE RequestInv
  OBVIOUS
<1>1. taken = <<>> /\ lives = 0 /\ pc = "idle"
  BY DEF Init, ThrInit
<1>2. SentCount(lives) = 0
  BY <1>1, NoneSent
<1>3. QED
  BY <1>1, <1>2 DEF RequestInv

\* A step that leaves the books alone.
LEMMA RequestUnchanged ==
    ASSUME RequestInv, UNCHANGED <<taken, lives, socketType>>,
           socketType = "request" =>
              /\ SentCount(lives) # 0 => /\ pc' # "start" /\ socket' # "null"
                                         /\ replyDue' \/ socket' = "closed"
              /\ alive' /\ pc' = "done" /\ sendOk' =>
                    SentCount(lives) = 0 /\ replyDue' /\ socket' \in {"bound", "unbound"}
    PROVE  RequestInv'
<1>1. \A n : SentCount(n)' = SentCount(n)
  BY DEF SentCount
<1>2. QED
  BY <1>1 DEF RequestInv

LEMMA RequestStep ==
    ASSUME ZmqTypeOK, RequestInv, [Next]_vars
    PROVE  RequestInv'
<1>1. CASE Send
  <2>1. UNCHANGED <<taken, lives, socketType, socket>> /\ pc = "send" /\ pc' = "done"
    BY <1>1 DEF Send, thrVars
  <2>2. \/ CanSend /\ replyDue' = (socketType = "request")
        \/ UNCHANGED replyDue /\ (~sendOk' \/ ~alive')
    BY <1>1 DEF Send
  <2>3. socketType = "request" /\ CanSend => SentCount(lives) = 0
    BY DEF RequestInv, CanSend
  <2>4. CanSend => socket \in {"bound", "unbound"}
    BY DEF CanSend
  <2> HIDE DEF CanSend
  <2>5. socketType = "request" =>
           /\ SentCount(lives) # 0 => /\ pc' # "start" /\ socket' # "null"
                                      /\ replyDue' \/ socket' = "closed"
           /\ alive' /\ pc' = "done" /\ sendOk' =>
                 SentCount(lives) = 0 /\ replyDue' /\ socket' \in {"bound", "unbound"}
    BY <2>1, <2>2, <2>3, <2>4 DEF RequestInv
  <2>6. QED
    BY <2>1, <2>5, RequestUnchanged
<1>2. CASE Interrupted
  <2>1. UNCHANGED <<taken, lives, socketType, socket, replyDue>> /\ ~sendOk' /\ pc' = "done"
    BY <1>2 DEF Interrupted, thrVars
  <2>2. QED
    BY <2>1, RequestUnchanged DEF RequestInv
<1>3. CASE DriverInit
  <2>1. taken' = taken /\ lives' = lives + 1 /\ pc' = "start" /\ socketType' = socketType /\ lives \in Nat
    BY <1>3 DEF DriverInit, Start, ZmqTypeOK
  <2>2. \A n : SentCount(n)' = SentCount(n)
    BY <2>1 DEF SentCount
  <2>3. ASSUME socketType = "request" PROVE SentCount(lives + 1) = 0
    <3>1. \A i \in DOMAIN taken : taken[i].life <= lives /\ taken[i].life \in Nat
      BY <2>3, SentEntries DEF RequestInv, Books
    <3>2. \A i \in DOMAIN taken : taken[i].life # lives + 1
      BY <2>1, <3>1
    <3>3. QED
      BY <3>2, NoneSent
  <2>4. \A i \in DOMAIN taken : taken[i].life \in Nat
    BY SentEntries DEF Books
  <2>5. SentCount(lives)' = SentCount(lives + 1)
    BY <2>1 DEF SentCount, SentIn
  <2>6. QED
    BY <2>1, <2>2, <2>3, <2>4, <2>5 DEF RequestInv
<1>4. ASSUME NEW outcome \in Outcomes, Ending(outcome), socketType' = socketType,
             outcome = "sent" <=> sendOk, alive, replyDue' = replyDue,
             socket' = IF sendOk THEN socket ELSE Closed
      PROVE  RequestInv'
  <2>1. PICK m \in Message :
           LET e == [msg |-> m, outcome |-> outcome, life |-> lives] IN
           e \in Books /\ taken' = Append(taken, e)
    BY <1>4, EndingFacts
  <2> DEFINE e == [msg |-> m, outcome |-> outcome, life |-> lives]
  <2>2. /\ pc = "done" /\ pc' = "idle" /\ lives' = lives /\ lives \in Nat
        /\ e \in Books /\ taken' = Append(taken, e) /\ taken \in Seq(Books)
        /\ e.life = lives /\ e.outcome = outcome
    BY <1>4, <2>1 DEF Ending, ZmqTypeOK
  <2>3. ASSUME NEW n \in Nat
        PROVE  SentCount(n)' = SentCount(n) + (IF outcome = "sent" /\ n = lives THEN 1 ELSE 0)
    <3> DEFINE kind == SentIn(n)
    <3>1. e \in kind <=> outcome = "sent" /\ n = lives
      BY <2>2 DEF SentIn
    <3>2. SentIn(n)' = kind
      BY DEF SentIn, Books, Message
    <3> HIDE DEF e, kind
    <3>3. Cardinality({i \in DOMAIN Append(taken, e) : Append(taken, e)[i] \in kind})
             = Cardinality({i \in DOMAIN taken : taken[i] \in kind}) + (IF e \in kind THEN 1 ELSE 0)
      BY <2>2, CountAppend
    <3>4. SentCount(n)' = Cardinality({i \in DOMAIN Append(taken, e) : Append(taken, e)[i] \in kind})
      BY <2>2, <3>2 DEF SentCount
    <3>5. SentCount(n) = Cardinality({i \in DOMAIN taken : taken[i] \in kind})
      BY DEF SentCount, kind
    <3>6. QED
      BY <3>1, <3>3, <3>4, <3>5
  <2>4. ASSUME socketType = "request" PROVE \A n \in 1..lives : SentCount(n)' <= 1
    <3>1. ASSUME NEW n \in 1..lives PROVE SentCount(n)' <= 1
      <4>1. n \in Nat
        BY <2>2, <3>1
      <4>2. SentCount(n) \in Nat /\ SentCount(n) <= 1
        BY <2>4, <3>1, <4>1, SentEntries DEF RequestInv
      <4>3. outcome = "sent" /\ n = lives => SentCount(n) = 0
        BY <1>4, <2>2, <2>4 DEF RequestInv
      <4>4. QED
        BY <2>3, <4>2, <4>3
    <3>2. QED
      BY <3>1
  <2>5. ASSUME socketType = "request" PROVE \A i \in DOMAIN taken' : taken'[i].life <= lives
    <3> HIDE DEF e
    <3>1. /\ DOMAIN taken' = 1..(Len(taken) + 1) /\ DOMAIN taken = 1..Len(taken)
          /\ \A i \in 1..Len(taken) : taken'[i] = taken[i]
          /\ taken'[Len(taken) + 1] = e /\ Len(taken) \in Nat
      BY <2>2, AppendProperties, LenProperties
    <3>2. QED
      BY <2>2, <2>5, <3>1 DEF RequestInv
  <2>6. ASSUME socketType = "request", SentCount(lives)' # 0
        PROVE  socket' # "null" /\ (replyDue' \/ socket' = "closed")
    <3>1. CASE outcome = "sent"
      BY <1>4, <2>2, <2>6, <3>1 DEF RequestInv
    <3>2. CASE outcome # "sent"
      <4>1. SentCount(lives)' = SentCount(lives)
        <5>1. PICK k \in Nat : k = lives
          BY <2>2
        <5>2. SentCount(k)' = SentCount(k)
          <6>1. SentCount(k)' = SentCount(k) + 0
            BY <2>3, <3>2
          <6>2. SentCount(k) \in Nat
            BY SentEntries
          <6>3. QED
            BY <6>1, <6>2
        <5>3. SentCount(lives)' = SentCount(k)'
          BY <2>2, <5>1 DEF SentCount, SentIn
        <5>4. QED
          BY <5>1, <5>2, <5>3
      <4>2. socket # "null" /\ socket' = "closed"
        BY <1>4, <2>6, <3>2, <4>1 DEF RequestInv, Closed
      <4>3. QED
        BY <4>2
    <3>3. QED
      BY <3>1, <3>2
  <2>7. QED
    BY <1>4, <2>2, <2>4, <2>5, <2>6 DEF RequestInv
<1>5. CASE alive /\ FinishSent
  <2>1. /\ Ending("sent") /\ sendOk /\ alive
        /\ UNCHANGED <<socketType, socket, replyDue>>
    BY <1>5 DEF FinishSent, Release, Ending
  <2>2. QED
    BY <1>4, <2>1 DEF Outcomes
<1>6. CASE alive /\ FinishFailed
  <2>1. /\ Ending("failed") /\ ~sendOk /\ alive /\ socket' = Closed
        /\ UNCHANGED <<socketType, replyDue>>
    BY <1>6 DEF FinishFailed, Release, Ending
  <2>2. QED
    BY <1>4, <2>1 DEF Outcomes
<1>7. CASE /\ UNCHANGED <<taken, lives, socketType, sendOk, replyDue>>
           /\ pc' = "start" => pc = "start"
           /\ pc' = "done" => pc = "done" /\ socket' = socket /\ (alive' => alive)
           /\ socket' \in {socket, Closed}
  BY <1>7, RequestUnchanged DEF RequestInv, Closed
<1>8. CASE StopRequest \/ DriverDeinit \/ (\E s \in Sources : SourceStep(s))
  <2>1. UNCHANGED <<taken, lives, socketType, sendOk, replyDue, pc, socket, alive>>
    BY <1>8 DEF StopRequest, Terminate, DriverDeinit, GoDown, SourceStep, Post, WorkerGoes, drvVars
  <2>2. QED
    BY <1>7, <2>1
<1>9. CASE PeerConnects \/ PeerReads \/ PeerLeaves \/ UNCHANGED vars
  <2>1. UNCHANGED <<taken, lives, socketType, sendOk, replyDue, pc, socket, alive>>
    BY <1>9 DEF PeerConnects, PeerReads, PeerLeaves, thrVars, drvVars, vars
  <2>2. QED
    BY <1>7, <2>1
<1>10. CASE LeaveLoop \/ CallInsert \/ Pop
  <2>1. /\ UNCHANGED <<taken, lives, socketType, sendOk, replyDue>>
        /\ pc' \notin {"start", "done"} /\ socket' \in {socket, Closed}
    BY <1>10 DEF LeaveLoop, Exit, CallInsert, Wake, Reopen, Pop, PopHead, PopNothing, WorkerGoes
  <2>2. QED
    BY <1>7, <2>1
<1>11. CASE ThreadInit \/ Connect
  <2>1. CASE ThreadInit \/ (socket = "null" /\ ConnectTo("send"))
    <3>1. UNCHANGED <<taken, lives, socketType>> /\ pc' \in {"idle", "send"}
      BY <2>1 DEF ThreadInit, ConnectTo, thrVars
    <3>2. socketType = "request" => SentCount(lives) = 0
      BY <2>1 DEF RequestInv, ThreadInit
    <3>3. QED
      BY <3>1, <3>2, RequestUnchanged
  <2>2. CASE socket # "null" /\ Connect
    BY <1>7, <2>2 DEF Connect, thrVars
  <2>3. QED
    BY <1>11, <2>1, <2>2 DEF Connect
<1>12. QED
  BY <1>1, <1>2, <1>3, <1>5, <1>6, <1>8, <1>9, <1>10, <1>11 DEF Next, WorkerStep

\* A request socket carries at most one message in each life of the worker.
THEOREM RequestsAreSingle == Spec => []OneRequestOnly
<1>1. Init => ZmqTypeOK /\ RequestInv
  BY ZmqTypeInit, RequestInit
<1>2. ZmqTypeOK /\ RequestInv /\ [Next]_vars => ZmqTypeOK' /\ RequestInv'
  BY ZmqTypeStep, RequestStep
<1>3. ZmqTypeOK /\ RequestInv => OneRequestOnly
  <2> SUFFICES ASSUME ZmqTypeOK, RequestInv, socketType = "request", NEW n \in 1..lives
               PROVE  Cardinality({i \in DOMAIN taken :
                         taken[i].outcome = "sent" /\ taken[i].life = n}) <= 1
    BY DEF OneRequestOnly
  <2>1. SentCount(n) <= 1 /\ n \in Nat
    BY DEF RequestInv, ZmqTypeOK
  <2>2. QED
    BY <2>1, SentEntries
<1>4. QED
  BY <1>1, <1>2, <1>3, PTL DEF Spec

-----------------------------------------------------------------------------
\* The source: its sockets.

\* The sockets are numbered in the order they were made.
Numbering ==
    /\ IsFiniteSet(sockets)
    /\ \A s \in sockets : s.no \in 1..Cardinality(sockets) /\ s.port \in Ports
    /\ \A s, t \in sockets : s.no = t.no => s = t
    /\ \A n \in 1..Cardinality(sockets) : \E s \in sockets : s.no = n

\* The first socket of a port is the one that is bound to it, for good.
FirstIsBound ==
    /\ \A s \in sockets : s.bound <=> \A t \in sockets : t.port = s.port => t.no >= s.no
    /\ \A s \in sockets : BoundTo(s.port) # {}

SocketsInv ==
    /\ port \in Ports /\ next \in Ports
    /\ reader \in 0..Cardinality(sockets)
    /\ Numbering /\ FirstIsBound
    /\ \A s \in sockets : s.no = reader => s.port = port

-----------------------------------------------------------------------------
\* The source: its reloads.

OnePort == \A s \in sockets : s.port = port

\* A context that destroying the persistent configuration waits for.
StillOpen(p) == kept[p] # 0 /\ OpenIn(kept[p]) # {}

\* A context that is made has a socket, which is never closed.  Between deinit and
\* init the context waits under the name of the old port; an init for another port
\* leaves it there.
ReloadInv ==
    /\ asserts \in BOOLEAN /\ kept \in [Ports -> Nat]
    /\ context \in Nat /\ (context # 0 => OpenIn(context) # {})
    /\ main \in {"start", "running", "deinited", "inited", "freeing", "hung", "crashed"}
    /\ main = "start" => sockets = {} /\ reloads = 0
    /\ main # "start" => sockets # {}
    /\ main = "running" /\ reloads # 0 => ~asserts
    /\ main \in {"running", "deinited", "freeing"} => OnePort
    /\ main = "deinited" => StillOpen(port)
    /\ main = "inited" => OnePort \/ \E p \in Ports : StillOpen(p)

LEMMA SrcInvInit == SrcInit => SocketsInv /\ ReloadInv
<1> SUFFICES ASSUME SrcInit PROVE SocketsInv /\ ReloadInv
  OBVIOUS
<1>1. sockets = {} /\ IsFiniteSet(sockets) /\ Cardinality(sockets) = 0
  BY FS_EmptySet DEF SrcInit
<1>2. SocketsInv
  BY <1>1 DEF SrcInit, SocketsInv, Numbering, FirstIsBound
<1>3. kept \in [Ports -> Nat]
  BY DEF SrcInit
<1>4. ReloadInv
  BY <1>1, <1>3 DEF SrcInit, ReloadInv
<1>5. QED
  BY <1>2, <1>4

\* A new socket has the next number; it is bound only if it is the first of its port.
LEMMA NextSocket ==
    ASSUME SocketsInv, NEW p \in Ports, SdInit(p), port' = p, next' \in Ports
    PROVE  /\ SocketsInv'
           /\ sockets \subseteq sockets' /\ sockets' # {}
           /\ \A s \in sockets' : s \in sockets \/ s.port = p
           /\ OpenIn(context)' # {} /\ context' # 0
<1> DEFINE n == Cardinality(sockets)
           c == IF kept[p] # 0 THEN kept[p] ELSE n + 1
           new == [no |-> n + 1, context |-> c, port |-> p, bound |-> BoundTo(p) = {}]
<1>1. /\ context' = c /\ sockets' = sockets \union {new} /\ reader' = n + 1
  BY DEF SdInit
<1>2. /\ n \in Nat /\ IsFiniteSet(sockets)
      /\ \A s \in sockets : s.no \in 1..n /\ s.port \in Ports
      /\ \A s, t \in sockets : s.no = t.no => s = t
      /\ \A i \in 1..n : \E s \in sockets : s.no = i
  BY FS_CardinalityType DEF SocketsInv, Numbering
<1>3. new.no = n + 1 /\ new.port = p /\ new.context = c /\ (new.bound <=> BoundTo(p) = {})
  OBVIOUS
<1>4. /\ new \notin sockets /\ \A s \in sockets : s.no < n + 1 /\ s.no # n + 1 /\ s.no \in Nat
  BY <1>2, <1>3
<1>5. IsFiniteSet(sockets') /\ Cardinality(sockets') = n + 1
  BY <1>1, <1>2, <1>4, FS_AddElement
<1> HIDE DEF new
<1>6. Numbering'
  <2>1. \A s \in sockets' : s.no \in 1..(n + 1) /\ s.port \in Ports
    BY <1>1, <1>2, <1>3
  <2>2. \A s, t \in sockets' : s.no = t.no => s = t
    BY <1>1, <1>2, <1>3, <1>4
  <2>3. \A i \in 1..(n + 1) : \E s \in sockets' : s.no = i
    <3> SUFFICES ASSUME NEW i \in 1..(n + 1) PROVE \E s \in sockets' : s.no = i
      OBVIOUS
    <3>1. CASE i = n + 1
      BY <1>1, <1>3, <3>1
    <3>2. CASE i # n + 1
      <4>1. i \in 1..n
        BY <1>2, <3>2
      <4>2. QED
        BY <1>1, <1>2, <4>1
    <3>3. QED
      BY <3>1, <3>2
  <2>4. QED
    BY <1>5, <2>1, <2>2, <2>3 DEF Numbering
<1>7. FirstIsBound'
  <2>1. ASSUME NEW s \in sockets
        PROVE  s.bound <=> \A t \in sockets' : t.port = s.port => t.no >= s.no
    <3>1. s.bound <=> \A t \in sockets : t.port = s.port => t.no >= s.no
      BY DEF SocketsInv, FirstIsBound
    <3>2. new.no >= s.no
      BY <1>2, <1>3, <1>4
    <3>3. QED
      BY <1>1, <3>1, <3>2
  <2>2. new.bound <=> \A t \in sockets' : t.port = new.port => t.no >= new.no
    <3>1. BoundTo(p) = {} <=> \A t \in sockets : t.port # p
      BY DEF SocketsInv, FirstIsBound, BoundTo
    <3>2. \A t \in sockets : ~(t.no >= new.no)
      BY <1>2, <1>3, <1>4
    <3>3. new.no >= new.no
      BY <1>2, <1>3
    <3>4. QED
      BY <1>1, <1>3, <3>1, <3>2, <3>3
  <2>3. \A s \in sockets : BoundTo(s.port)' # {}
    BY <1>1 DEF SocketsInv, FirstIsBound, BoundTo
  <2>4. BoundTo(p)' # {}
    BY <1>1, <1>3 DEF BoundTo
  <2>5. QED
    BY <1>1, <1>3, <2>1, <2>2, <2>3, <2>4 DEF FirstIsBound
<1>8. \A s \in sockets' : s.no = reader' => s.port = port'
  BY <1>1, <1>3, <1>4
<1>9. OpenIn(context)' # {} /\ context' # 0
  <2>1. new \in OpenIn(context)'
    BY <1>1, <1>3 DEF OpenIn
  <2>2. c # 0
    BY <1>2
  <2>3. QED
    BY <1>1, <2>1, <2>2
<1>10. reader' \in 0..Cardinality(sockets')
  BY <1>1, <1>2, <1>5
<1>11. QED
  BY <1>1, <1>3, <1>6, <1>7, <1>8, <1>9, <1>10 DEF SocketsInv

LEMMA SrcInvStep == SocketsInv /\ ReloadInv /\ [SrcNext]_srcVars => SocketsInv' /\ ReloadInv'
<1> SUFFICES ASSUME SocketsInv, ReloadInv, [SrcNext]_srcVars PROVE SocketsInv' /\ ReloadInv'
  OBVIOUS
<1>1. ASSUME UNCHANGED <<main, cfgVars, srcDrvVars>>
      PROVE  SocketsInv' /\ ReloadInv'
  BY <1>1 DEF cfgVars, srcDrvVars, SocketsInv, Numbering, FirstIsBound, BoundTo, ReloadInv,
              OnePort, StillOpen, OpenIn
\* The reader goes; what it read stays as it is.
<1>2. ASSUME reader' = 0, UNCHANGED <<port, sockets>>, next' \in Ports
      PROVE  SocketsInv'
  <2>1. \A s \in sockets : s.no # 0
    BY FS_CardinalityType DEF SocketsInv, Numbering
  <2>2. 0 \in 0..Cardinality(sockets)
    BY FS_CardinalityType DEF SocketsInv, Numbering
  <2>3. QED
    BY <1>2, <2>1, <2>2 DEF SocketsInv, Numbering, FirstIsBound, BoundTo
<1>3. CASE SrcStart
  <2>1. /\ main = "start" /\ SdInit(port) /\ main' = "running"
        /\ UNCHANGED <<asserts, port, next, reloads>>
    BY <1>3 DEF SrcStart, cfgVars
  <2>2. port \in Ports /\ next' \in Ports /\ port' = port
    BY <2>1 DEF SocketsInv
  <2>3. /\ SocketsInv' /\ sockets' # {} /\ \A s \in sockets' : s \in sockets \/ s.port = port
        /\ OpenIn(context)' # {} /\ context' # 0
    BY <2>1, <2>2, NextSocket
  <2>4. sockets = {} /\ reloads = 0 /\ kept \in [Ports -> Nat] /\ asserts \in BOOLEAN
    BY <2>1 DEF ReloadInv
  <2>5. kept' \in [Ports -> Nat] /\ context' \in Nat
    <3>1. Cardinality(sockets) + 1 \in Nat
      BY FS_CardinalityType DEF SocketsInv, Numbering
    <3>2. QED
      BY <2>1, <2>2, <2>4, <3>1 DEF SdInit
  <2>6. OnePort'
    BY <2>2, <2>3, <2>4 DEF OnePort
  <2>7. QED
    BY <2>1, <2>3, <2>4, <2>5, <2>6 DEF ReloadInv
<1>4. CASE NewInit
  <2>1. /\ main = "deinited" /\ SdInit(next) /\ port' = next /\ main' = "inited"
        /\ UNCHANGED <<asserts, next, reloads>>
    BY <1>4 DEF NewInit
  <2>2. next \in Ports /\ next' \in Ports /\ port \in Ports
    BY <2>1 DEF SocketsInv
  <2>3. /\ SocketsInv' /\ sockets \subseteq sockets' /\ sockets' # {}
        /\ \A s \in sockets' : s \in sockets \/ s.port = next
        /\ OpenIn(context)' # {} /\ context' # 0
    BY <2>1, <2>2, NextSocket
  <2>4. kept \in [Ports -> Nat] /\ asserts \in BOOLEAN /\ OnePort /\ StillOpen(port)
    BY <2>1 DEF ReloadInv
  <2>5. /\ kept' \in [Ports -> Nat] /\ context' \in Nat
        /\ kept' = [kept EXCEPT ![next] = 0]
    <3>1. Cardinality(sockets) + 1 \in Nat
      BY FS_CardinalityType DEF SocketsInv, Numbering
    <3>2. QED
      BY <2>1, <2>2, <2>4, <3>1 DEF SdInit
  <2>6. OnePort' \/ \E p \in Ports : StillOpen(p)'
    <3>1. CASE next = port
      BY <2>1, <2>3, <2>4, <3>1 DEF OnePort
    <3>2. CASE next # port
      <4>1. PICK q \in Ports : q = port
        BY <2>2
      <4>2. kept'[q] = kept[q] /\ kept[q] # 0 /\ OpenIn(kept[q]) # {}
        BY <2>4, <2>5, <3>2, <4>1 DEF StillOpen
      <4>3. OpenIn(kept[q])' # {}
        BY <2>3, <4>2 DEF OpenIn
      <4>4. StillOpen(q)'
        BY <4>2, <4>3 DEF StillOpen
      <4>5. QED
        BY <4>4
    <3>3. QED
      BY <3>1, <3>2
  <2>7. QED
    BY <2>1, <2>3, <2>4, <2>5, <2>6 DEF ReloadInv
<1>5. CASE Notify
  <2>1. /\ main = "running" /\ kept' \in {kept, [kept EXCEPT ![port] = context]}
        /\ context' = 0 /\ reader' = 0 /\ UNCHANGED <<main, asserts, port, next, reloads, sockets>>
    BY <1>5 DEF Notify, cfgVars
  <2>2. SocketsInv'
    BY <1>2, <2>1 DEF SocketsInv
  <2>3. kept' \in [Ports -> Nat]
    BY <2>1 DEF ReloadInv
  <2>4. QED
    BY <2>1, <2>2, <2>3 DEF ReloadInv, OnePort
<1>6. CASE \E p \in Ports : SdDeinit(p)
  <2>1. PICK p \in Ports : SdDeinit(p)
    BY <1>6
  <2>2. /\ main = "running" /\ next' = p
        /\ main' = (IF context = 0 THEN "crashed" ELSE "deinited")
        /\ kept' = [kept EXCEPT ![port] = context] /\ context' = 0 /\ reader' = 0
        /\ UNCHANGED <<asserts, port, sockets>>
    BY <2>1 DEF SdDeinit
  <2>3. SocketsInv'
    BY <1>2, <2>2
  <2>4. /\ kept \in [Ports -> Nat] /\ port \in Ports /\ context \in Nat /\ asserts \in BOOLEAN
        /\ sockets # {} /\ OnePort
        /\ context # 0 => OpenIn(context) # {}
    BY <2>2 DEF ReloadInv, SocketsInv
  <2>5. kept' \in [Ports -> Nat] /\ kept'[port] = context
    BY <2>2, <2>4
  <2>6. main' = "deinited" => StillOpen(port)'
    BY <2>2, <2>4, <2>5 DEF StillOpen, OpenIn
  <2>7. OnePort'
    BY <2>2, <2>4 DEF OnePort
  <2>8. main' \in {"crashed", "deinited"}
    BY <2>2
  <2>9. QED
    BY <2>2, <2>3, <2>4, <2>5, <2>6, <2>7, <2>8 DEF ReloadInv
<1>7. CASE DestroyKept
  <2>1. /\ main = "inited" /\ UNCHANGED <<asserts, port, next, reloads, context, reader, sockets>>
        /\ \/ main' = "hung" /\ kept' = kept
           \/ /\ main' = "freeing" /\ kept' = [q \in Ports |-> 0]
              /\ ~\E p \in Ports : StillOpen(p)
    BY <1>7 DEF DestroyKept, cfgVars, StillOpen
  <2>2. SocketsInv'
    BY <2>1 DEF SocketsInv, Numbering, FirstIsBound, BoundTo
  <2>3. kept' \in [Ports -> Nat]
    BY <2>1 DEF ReloadInv
  <2>4. main' = "freeing" => OnePort'
    BY <2>1 DEF ReloadInv, OnePort
  <2>5. QED
    BY <2>1, <2>2, <2>3, <2>4 DEF ReloadInv, OpenIn
<1>8. CASE FreeOld
  <2>1. /\ main = "freeing" /\ main' = (IF asserts THEN "crashed" ELSE "running")
        /\ UNCHANGED <<asserts, port, next, reloads, srcDrvVars>>
    BY <1>8 DEF FreeOld, cfgVars
  <2>2. SocketsInv'
    BY <2>1 DEF srcDrvVars, SocketsInv, Numbering, FirstIsBound, BoundTo
  <2>3. main' \in {"crashed", "running"} /\ (main' = "running" => ~asserts)
    BY <2>1
  <2>4. QED
    BY <2>1, <2>2, <2>3 DEF srcDrvVars, ReloadInv, OnePort, OpenIn
<1>9. CASE \/ Read \/ UNCHANGED srcVars
           \/ \E p \in Ports : Push(p)
  BY <1>1, <1>9 DEF Read, Push, srcVars
<1>10. QED
  BY <1>3, <1>4, <1>5, <1>6, <1>7, <1>8, <1>9 DEF SrcNext, MainStep

LEMMA SrcInvariant == SrcSpec => [](SocketsInv /\ ReloadInv)
BY SrcInvInit, SrcInvStep, PTL DEF SrcSpec

\* The source hears a port in the first configuration that names it, and never again.
THEOREM SourceGoesDeaf == SrcSpec => []DeafAfterFirst
<1>1. SocketsInv => DeafAfterFirst
  <2> SUFFICES ASSUME SocketsInv, reader # 0
               PROVE  Socket(reader).bound <=> \A s \in sockets : s.port = port => s.no >= reader
    BY DEF DeafAfterFirst
  <2>1. reader \in 1..Cardinality(sockets)
    BY FS_CardinalityType DEF SocketsInv, Numbering
  <2>2. Socket(reader) \in sockets /\ Socket(reader).no = reader
    BY <2>1 DEF Socket, SocketsInv, Numbering
  <2>3. Socket(reader).port = port
    BY <2>2 DEF SocketsInv
  <2>4. QED
    BY <2>2, <2>3 DEF SocketsInv, FirstIsBound
<1>2. QED
  BY <1>1, SrcInvariant, PTL

\* A reload that changes the port never gets to the old driver, and one that keeps it
\* is survived only by a build without asserts.
THEOREM ReloadsEndSeldom == SrcSpec => []ReloadsThatEnd
<1>1. SocketsInv /\ ReloadInv => ReloadsThatEnd
  <2> SUFFICES ASSUME SocketsInv, ReloadInv PROVE ReloadsThatEnd
    OBVIOUS
  <2>1. ASSUME main = "freeing" PROVE port = (CHOOSE s \in sockets : s.no = 1).port
    <3>1. OnePort /\ sockets # {}
      BY <2>1 DEF ReloadInv
    <3>2. Cardinality(sockets) \in Nat /\ Cardinality(sockets) # 0
      BY <3>1, FS_CardinalityType, FS_EmptySet DEF SocketsInv, Numbering
    <3>3. \E s \in sockets : s.no = 1
      BY <3>2 DEF SocketsInv, Numbering
    <3>4. QED
      BY <3>1, <3>3 DEF OnePort
  <2>2. ASSUME main = "running", reloads > 0
        PROVE  ~asserts /\ Cardinality({s.port : s \in sockets}) = 1
    <3>1. reloads # 0
      BY <2>2
    <3>2. ~asserts /\ OnePort /\ sockets # {}
      BY <2>2, <3>1 DEF ReloadInv
    <3>3. {s.port : s \in sockets} = {port}
      BY <3>2 DEF OnePort
    <3>4. QED
      BY <3>2, <3>3, FS_Singleton
  <2>3. QED
    BY <2>1, <2>2 DEF ReloadsThatEnd
<1>2. QED
  BY <1>1, SrcInvariant, PTL
=============================================================================
