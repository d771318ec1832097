------------------------ MODULE TemplateFuncs_proofs ------------------------
(***************************************************************************)
(* Proofs about the template functions.  The first part is about $(state), *)
(* for any threads, names, values and number of calls: the hash table      *)
(* implements a store of named values, and every read is of a value the    *)
(* name had during the call.  The second part is about the functions that  *)
(* compute a text: what $(padding), $(getent) and $(graphite-output) give  *)
(* for any arguments, machine words and databases.                         *)
(***************************************************************************)
EXTENDS TemplateFuncs, FiniteSetTheorems, SequenceTheorems, TLAPS

\* A call that has not set its value yet has one to set.
Setting == \A t \in Threads : pc[t] \in {"setlock", "insert", "link"} => value[t] \in Values

\* The readers-writer lock: one writer, or no writer.
Exclusion ==
    \A t, u \in Threads :
        t \in Writing => (u \in Writing => u = t) /\ u \notin Reading

\* What the table has to do with the writer that is in the middle of it.
Halfway ==
    /\ \A t \in Threads : pc[t] = "link" => made
    /\ broken => \E t \in Threads : pc[t] = "link"
    /\ ~made => \A n \in Names : table[n] = Unset

\* The places in the history that set name n.
Own(n) == {i \in 1..Len(sets) : sets[i][1] = n}

\* The table holds what was set last: the strengthening that gives the history
\* of each name a last place, on which ValueAfter depends.
TableIsLast ==
    \A n \in Names :
        \/ Own(n) = {} /\ table[n] = Unset
        \/ \E i \in Own(n) : (\A j \in Own(n) : j <= i) /\ table[n] = sets[i][2]

\* What a thread has read.
ReadIsCurrent(t) ==
    pc[t] = "getunlock" =>
        \E k \in since[t]..Len(sets) : result[t] = ValueAfter(name[t], k)

StateInv ==
    /\ StateTypeOK /\ Setting /\ Exclusion /\ Halfway /\ TableIsLast
    /\ \A t \in Threads : ReadIsCurrent(t)

\* One thread moves and the others stay where they are.
LEMMA GoesFacts ==
    ASSUME StateTypeOK, NEW t \in Threads, NEW from \in Steps, NEW to \in Steps, Goes(t, from, to)
    PROVE  /\ pc[t] = from /\ pc'[t] = to
           /\ \A u \in Threads : u # t => pc'[u] = pc[u]
           /\ pc' \in [Threads -> Steps]
BY DEF Goes, StateTypeOK

-----------------------------------------------------------------------------
\* Types.

LEMMA TypeInit == StateInit => StateTypeOK
<1> SUFFICES ASSUME StateInit PROVE StateTypeOK
  OBVIOUS
<1>1. <<>> \in Seq(Names \X Values) /\ Len(<<>>) = 0
  BY EmptySeq
<1>2. sets \in Seq(Names \X Values) /\ Len(sets) = 0
  BY <1>1 DEF StateInit
<1>3. since \in [Threads -> 0..Len(sets)]
  BY <1>2 DEF StateInit
<1>4. QED
  BY <1>2, <1>3 DEF StateInit, StateTypeOK, Steps

\* What InsertEnds puts in table and history.
LEMMA EndFacts ==
    ASSUME StateTypeOK, Setting, NEW t \in Threads, InsertEnds(t)
    PROVE  /\ name[t] \in Names /\ value[t] \in Values
           /\ table' = [table EXCEPT ![name[t]] = value[t]]
           /\ sets' \in Seq(Names \X Values)
           /\ Len(sets') = Len(sets) + 1 /\ Len(sets) \in Nat
           /\ \A i \in 1..Len(sets) : sets'[i] = sets[i]
           /\ sets'[Len(sets) + 1] = <<name[t], value[t]>>
<1>1. name[t] \in Names /\ value[t] \in Values
  BY DEF StateTypeOK, Setting, InsertEnds, Goes
<1> DEFINE e == <<name[t], value[t]>>
<1>2. e \in Names \X Values /\ sets \in Seq(Names \X Values) /\ sets' = Append(sets, e)
  BY <1>1 DEF StateTypeOK, InsertEnds
<1> HIDE DEF e
<1>3. /\ sets' \in Seq(Names \X Values)
      /\ Len(sets') = Len(sets) + 1 /\ Len(sets) \in Nat
      /\ \A i \in 1..Len(sets) : sets'[i] = sets[i]
      /\ sets'[Len(sets) + 1] = e
  BY <1>2, AppendProperties, LenProperties
<1>4. QED
  BY <1>1, <1>3 DEF InsertEnds, e

LEMMA TypeStep ==
    ASSUME StateTypeOK, Setting, [StateNext]_stateVars
    PROVE  StateTypeOK' /\ Setting'
<1> USE DEF Steps
<1>1. ASSUME NEW t \in Threads, NEW n \in Names, NEW v \in Values \union {Unset}, Call(t, n, v)
      PROVE  StateTypeOK' /\ Setting'
  <2>1. Len(sets) \in Nat
    BY LenProperties DEF StateTypeOK
  <2>2. QED
    BY <1>1, <2>1 DEF Call, Goes, StateTypeOK, Setting
<1>2. ASSUME NEW t \in Threads, SetLock(t) \/ SetUnlock(t) \/ GetLock(t) \/ GetUnlock(t)
      PROVE  StateTypeOK' /\ Setting'
  BY <1>2 DEF SetLock, SetUnlock, GetLock, GetUnlock, Goes, StateTypeOK, Setting
<1>3. ASSUME NEW t \in Threads, InsertBegins(t) PROVE StateTypeOK' /\ Setting'
  BY <1>3 DEF InsertBegins, Goes, StateTypeOK, Setting
<1>4. ASSUME NEW t \in Threads, InsertEnds(t) PROVE StateTypeOK' /\ Setting'
  <2>1. /\ name[t] \in Names /\ value[t] \in Values
        /\ table' = [table EXCEPT ![name[t]] = value[t]]
        /\ sets' \in Seq(Names \X Values)
        /\ Len(sets') = Len(sets) + 1 /\ Len(sets) \in Nat
    BY <1>4, EndFacts
  <2>2. since' \in [Threads -> 0..Len(sets')]
    BY <1>4, <2>1 DEF InsertEnds, StateTypeOK
  <2>3. leaked' \in Nat
    BY <1>4 DEF InsertEnds, StateTypeOK
  <2>4. table' \in [Names -> Values \union {Unset}]
    BY <2>1 DEF StateTypeOK
  <2>5. QED
    BY <1>4, <2>1, <2>2, <2>3, <2>4 DEF InsertEnds, Goes, StateTypeOK, Setting
<1>5. ASSUME NEW t \in Threads, Lookup(t) PROVE StateTypeOK' /\ Setting'
  BY <1>5 DEF Lookup, Goes, StateTypeOK, Setting
<1>6. CASE UNCHANGED stateVars
  BY <1>6 DEF stateVars, StateTypeOK, Setting
<1>7. QED
  BY <1>1, <1>2, <1>3, <1>4, <1>5, <1>6 DEF StateNext, ThreadStep

-----------------------------------------------------------------------------
\* The table implements the store.

LEMMA StoreStep ==
    ASSUME StateTypeOK, Setting, [StateNext]_stateVars
    PROVE  [Store!Next]_table
<1>1. ASSUME NEW t \in Threads, InsertEnds(t) PROVE Store!Next
  BY <1>1, EndFacts DEF Store!Next, Store!Set
<1>2. ASSUME NEW t \in Threads,
             \/ \E n \in Names, v \in Values \union {Unset} : Call(t, n, v)
             \/ SetLock(t) \/ InsertBegins(t) \/ SetUnlock(t)
             \/ GetLock(t) \/ Lookup(t) \/ GetUnlock(t)
      PROVE  UNCHANGED table
  BY <1>2 DEF Call, SetLock, InsertBegins, SetUnlock, GetLock, Lookup, GetUnlock
<1>3. CASE UNCHANGED stateVars
  BY <1>3 DEF stateVars
<1>4. QED
  BY <1>1, <1>2, <1>3 DEF StateNext, ThreadStep

\* The hash table behind $(state) is a store of named values.
THEOREM StateImplementsStore == StateSpec => StoreSpec
<1>1. StateInit => StateTypeOK /\ Setting /\ Store!Init
  BY TypeInit DEF StateInit, Setting, Store!Init
<1>2. StateTypeOK /\ Setting /\ [StateNext]_stateVars => StateTypeOK' /\ Setting'
  BY TypeStep
<1>3. StateTypeOK /\ Setting /\ [StateNext]_stateVars => [Store!Next]_table
  BY StoreStep
<1>4. QED
  BY <1>1, <1>2, <1>3, PTL DEF StateSpec, StoreSpec, Store!Spec

-----------------------------------------------------------------------------
\* The lock, and the table in the middle of an insertion.

LEMMA LockStep ==
    ASSUME StateTypeOK, Exclusion, Halfway, [StateNext]_stateVars
    PROVE  Exclusion' /\ Halfway'
<1> USE DEF Exclusion, Halfway, Writing, Reading
<1>1. ASSUME NEW t \in Threads, NEW n \in Names, NEW v \in Values \union {Unset}, Call(t, n, v)
      PROVE  Exclusion' /\ Halfway'
  <2>1. /\ pc'[t] \in {"getlock", "setlock"} /\ pc[t] = "idle"
        /\ \A u \in Threads : u # t => pc'[u] = pc[u]
        /\ UNCHANGED <<made, table, broken>>
    BY <1>1 DEF Call, Goes, StateTypeOK
  <2>2. QED
    BY <2>1
<1>2. ASSUME NEW t \in Threads, SetLock(t) PROVE Exclusion' /\ Halfway'
  <2>1. /\ Writing = {} /\ Reading = {}
        /\ pc[t] = "setlock" /\ pc'[t] = "insert"
        /\ \A u \in Threads : u # t => pc'[u] = pc[u]
        /\ UNCHANGED <<made, table, broken>>
    BY <1>2 DEF SetLock, Goes, StateTypeOK
  <2>2. QED
    BY <2>1
<1>3. ASSUME NEW t \in Threads, InsertBegins(t) PROVE Exclusion' /\ Halfway'
  <2>1. /\ pc[t] = "insert" /\ pc'[t] = "link" /\ made'
        /\ \A u \in Threads : u # t => pc'[u] = pc[u]
        /\ UNCHANGED table
    BY <1>3 DEF InsertBegins, Goes, StateTypeOK
  <2>2. QED
    BY <2>1
<1>4. ASSUME NEW t \in Threads, InsertEnds(t) PROVE Exclusion' /\ Halfway'
  <2>1. /\ pc[t] = "link" /\ pc'[t] = "setunlock" /\ made /\ made' /\ ~broken'
        /\ \A u \in Threads : u # t => pc'[u] = pc[u]
    BY <1>4 DEF InsertEnds, Goes, StateTypeOK
  <2>2. QED
    BY <2>1
<1>5. ASSUME NEW t \in Threads, SetUnlock(t) PROVE Exclusion' /\ Halfway'
  <2>1. /\ pc[t] = "setunlock" /\ pc'[t] = "getlock"
        /\ \A u \in Threads : u # t => pc'[u] = pc[u]
        /\ UNCHANGED <<made, table, broken>>
    BY <1>5 DEF SetUnlock, Goes, StateTypeOK
  <2>2. QED
    BY <2>1
<1>6. ASSUME NEW t \in Threads, GetLock(t) PROVE Exclusion' /\ Halfway'
  <2>1. /\ Writing = {}
        /\ pc[t] = "getlock" /\ pc'[t] = "lookup"
        /\ \A u \in Threads : u # t => pc'[u] = pc[u]
        /\ UNCHANGED <<made, table, broken>>
    BY <1>6 DEF GetLock, Goes, StateTypeOK
  <2>2. QED
    BY <2>1
<1>7. ASSUME NEW t \in Threads, Lookup(t) \/ GetUnlock(t) PROVE Exclusion' /\ Halfway'
  <2>1. /\ \/ pc[t] = "lookup" /\ pc'[t] = "getunlock"
           \/ pc[t] = "getunlock" /\ pc'[t] = "idle"
        /\ \A u \in Threads : u # t => pc'[u] = pc[u]
        /\ UNCHANGED <<made, table, broken>>
    BY <1>7 DEF Lookup, GetUnlock, Goes, StateTypeOK
  <2>2. QED
    BY <2>1
<1>8. CASE UNCHANGED stateVars
  BY <1>8 DEF stateVars
<1>9. QED
  BY <1>1, <1>2, <1>3, <1>4, <1>5, <1>6, <1>7, <1>8 DEF StateNext, ThreadStep

-----------------------------------------------------------------------------
\* What the table holds is what was set last.

LEMMA LastStep ==
    ASSUME StateTypeOK, Setting, TableIsLast, [StateNext]_stateVars
    PROVE  TableIsLast'
<1>1. ASSUME NEW t \in Threads, InsertEnds(t) PROVE TableIsLast'
  <2> DEFINE l == Len(sets)
  <2>1. /\ name[t] \in Names /\ value[t] \in Values
        /\ table' = [table EXCEPT ![name[t]] = value[t]]
        /\ Len(sets') = l + 1 /\ l \in Nat
        /\ \A i \in 1..l : sets'[i] = sets[i]
        /\ sets'[l + 1] = <<name[t], value[t]>>
    BY <1>1, EndFacts
  <2> HIDE DEF l
  <2>2. ASSUME NEW n \in Names
        PROVE  \/ Own(n)' = {} /\ table'[n] = Unset
               \/ \E i \in Own(n)' : (\A j \in Own(n)' : j <= i) /\ table'[n] = sets'[i][2]
    <3>1. CASE n = name[t]
      <4>1. l + 1 \in Own(n)' /\ \A j \in Own(n)' : j <= l + 1
        BY <2>1, <3>1 DEF Own
      <4>2. table'[n] = sets'[l + 1][2]
        BY <2>1, <3>1 DEF StateTypeOK
      <4>3. QED
        BY <4>1, <4>2
    <3>2. CASE n # name[t]
      <4>1. Own(n)' = Own(n) /\ Own(n) \subseteq 1..l
        BY <2>1, <3>2 DEF Own, l
      <4>2. table'[n] = table[n]
        BY <2>1, <3>2 DEF StateTypeOK
      <4>3. QED
        BY <2>1, <4>1, <4>2 DEF TableIsLast
    <3>3. QED
      BY <3>1, <3>2
  <2>3. QED
    BY <2>2 DEF TableIsLast
<1>2. CASE UNCHANGED <<table, sets>>
  BY <1>2 DEF TableIsLast, Own
<1>3. QED
  BY <1>1, <1>2 DEF StateNext, ThreadStep, Call, SetLock, InsertBegins, SetUnlock, GetLock, Lookup,
                    GetUnlock, stateVars

\* So the table is what every name has after all that was set.
LEMMA TableIsCurrent ==
    ASSUME TableIsLast, Len(sets) \in Nat, NEW n \in Names
    PROVE  table[n] = ValueAfter(n, Len(sets))
<1>1. CASE Own(n) = {} /\ table[n] = Unset
  BY <1>1 DEF ValueAfter, Own
<1>2. ASSUME NEW i \in Own(n), \A j \in Own(n) : j <= i, table[n] = sets[i][2]
      PROVE  table[n] = ValueAfter(n, Len(sets))
  <2>1. \A k \in Own(n) : (\A j \in Own(n) : j <= k) => k = i
    BY <1>2 DEF Own
  <2>2. (CHOOSE k \in Own(n) : \A j \in Own(n) : j <= k) = i
    BY <1>2, <2>1
  <2>3. ValueAfter(n, Len(sets)) = IF Own(n) = {} THEN Unset
            ELSE sets[CHOOSE k \in Own(n) : \A j \in Own(n) : j <= k][2]
    BY DEF ValueAfter, Own
  <2>4. QED
    BY <1>2, <2>2, <2>3
<1>3. QED
  BY <1>1, <1>2 DEF TableIsLast

-----------------------------------------------------------------------------
\* Reads.

LEMMA ReadStep ==
    ASSUME StateInv, [StateNext]_stateVars, NEW t \in Threads
    PROVE  ReadIsCurrent(t)'
<1> USE DEF StateInv
<1>1. Len(sets) \in Nat /\ since[t] \in 0..Len(sets) /\ name[t] \in Names
  BY LenProperties DEF StateTypeOK
<1>2. CASE Lookup(t)
  <2>1. result'[t] = table[name[t]] /\ UNCHANGED <<sets, since, name>>
    BY <1>1, <1>2 DEF Lookup, StateTypeOK, Halfway
  <2>2. result'[t] = ValueAfter(name[t], Len(sets))
    BY <1>1, <2>1, TableIsCurrent
  <2>3. Len(sets) \in since[t]..Len(sets)
    BY <1>1
  <2>4. \A n, k : ValueAfter(n, k)' = ValueAfter(n, k)
    BY <2>1 DEF ValueAfter
  <2>5. QED
    BY <2>1, <2>2, <2>3, <2>4 DEF ReadIsCurrent
<1>3. CASE pc'[t] = pc[t] /\ UNCHANGED <<sets>> /\ UNCHANGED <<since[t], name[t], result[t]>>
  <2>1. \A n, k : ValueAfter(n, k)' = ValueAfter(n, k)
    BY <1>3 DEF ValueAfter
  <2>2. QED
    BY <1>3, <2>1 DEF ReadIsCurrent
<1>4. CASE pc'[t] # "getunlock"
  BY <1>4 DEF ReadIsCurrent
<1>5. ASSUME NEW u \in Threads, InsertEnds(u) PROVE ReadIsCurrent(t)'
  <2>1. u \in Writing /\ t \notin Reading /\ pc'[u] # "getunlock"
    BY <1>5 DEF InsertEnds, Goes, Writing, Exclusion, StateTypeOK
  <2>2. pc'[t] # "getunlock"
    BY <1>5, <2>1 DEF InsertEnds, Goes, Reading, StateTypeOK
  <2>3. QED
    BY <1>4, <2>2
<1>6. ASSUME NEW u \in Threads, NEW n \in Names, NEW v \in Values \union {Unset}, Call(u, n, v)
      PROVE  ReadIsCurrent(t)'
  <2>1. CASE u = t
    BY <1>4, <1>6, <2>1 DEF Call, Goes, StateTypeOK
  <2>2. CASE u # t
    BY <1>3, <1>6, <2>2 DEF Call, Goes, StateTypeOK
  <2>3. QED
    BY <2>1, <2>2
<1>7. ASSUME NEW u \in Threads, SetLock(u) \/ InsertBegins(u) \/ SetUnlock(u) \/ GetLock(u) \/ GetUnlock(u)
      PROVE  ReadIsCurrent(t)'
  <2>1. CASE u = t
    BY <1>4, <1>7, <2>1 DEF SetLock, InsertBegins, SetUnlock, GetLock, GetUnlock, Goes, StateTypeOK
  <2>2. CASE u # t
    BY <1>3, <1>7, <2>2 DEF SetLock, InsertBegins, SetUnlock, GetLock, GetUnlock, Goes, StateTypeOK
  <2>3. QED
    BY <2>1, <2>2
<1>8. ASSUME NEW u \in Threads, u # t, Lookup(u) PROVE ReadIsCurrent(t)'
  BY <1>3, <1>8 DEF Lookup, Goes, StateTypeOK
<1>9. CASE UNCHANGED stateVars
  BY <1>3, <1>9 DEF stateVars
<1>10. QED
  BY <1>2, <1>5, <1>6, <1>7, <1>8, <1>9 DEF StateNext, ThreadStep

LEMMA InvInit == StateInit => StateInv
<1> SUFFICES ASSUME StateInit PROVE StateInv
  OBVIOUS
<1>1. StateTypeOK
  BY TypeInit
<1>2. \A t \in Threads : pc[t] = "idle"
  BY DEF StateInit
<1>3. Setting /\ Exclusion /\ Halfway /\ \A t \in Threads : ReadIsCurrent(t)
  BY <1>2 DEF StateInit, Setting, Exclusion, Writing, Reading, Halfway, ReadIsCurrent
<1>4. TableIsLast
  <2>1. Len(sets) = 0
    BY EmptySeq DEF StateInit
  <2>2. QED
    BY <2>1 DEF StateInit, TableIsLast, Own
<1>5. QED
  BY <1>1, <1>3, <1>4 DEF StateInv

\* The invariant is inductive.
THEOREM StateInvariant == StateSpec => []StateInv
<1>1. StateInv /\ [StateNext]_stateVars => StateInv'
  BY TypeStep, LockStep, LastStep, ReadStep DEF StateInv
<1>2. QED
  BY <1>1, InvInit, PTL DEF StateSpec

\* No thread sees an insertion that is halfway, and what a call reads is what the
\* name had at some moment of the call.
THEOREM ReadsAreOfTheCall == StateSpec => []ReadsAreCurrent
<1>1. StateInv => ReadsAreCurrent
  <2> SUFFICES ASSUME StateInv PROVE ReadsAreCurrent
    OBVIOUS
  <2>1. broken => Reading = {}
    BY DEF StateInv, Halfway, Exclusion, Writing, Reading
  <2>2. Cardinality(Writing) <= 1
    <3>1. CASE Writing = {}
      BY <3>1, FS_EmptySet
    <3>2. ASSUME NEW t \in Writing PROVE Cardinality(Writing) <= 1
      <4>1. Writing = {t}
        BY <3>2 DEF StateInv, Exclusion, Writing
      <4>2. Cardinality({t}) = 1
        BY FS_Singleton
      <4>3. QED
        BY <4>1, <4>2
    <3>3. QED
      BY <3>1, <3>2
  <2>3. QED
    BY <2>1, <2>2 DEF StateInv, ReadIsCurrent, ReadsAreCurrent
<1>2. QED
  BY <1>1, StateInvariant, PTL

-----------------------------------------------------------------------------
\* Division: the quotients and remainders behind bytes, words and paddings.

LEMMA Divided ==
    \A n \in Int, b \in Nat \ {0} :
        /\ n \div b \in Int /\ n % b \in 0..(b - 1)
        /\ n = b * (n \div b) + (n % b)
OBVIOUS

\* A remainder and its quotient are the only ones.
LEMMA OneRemainder ==
    ASSUME NEW b \in Nat \ {0}, NEW q \in Int, NEW r \in 0..(b - 1), NEW n \in Int, n = b * q + r
    PROVE  n % b = r /\ n \div b = q
<1> DEFINE p == n \div b
           s == n % b
<1>1. p \in Int /\ s \in 0..(b - 1) /\ n = b * p + s
  BY Divided
<1> HIDE DEF p, s
<1>2. ASSUME NEW x \in Int, NEW y \in Int, x > y PROVE b * x - b * y >= b
  <2>1. b * (x - y) >= b
    BY <1>2
  <2>2. QED
    BY <2>1
<1>3. ~(q > p)
  <2> SUFFICES ASSUME q > p PROVE FALSE
    OBVIOUS
  <2>1. b * q - b * p >= b
    BY <1>1, <1>2
  <2>2. QED
    BY <1>1, <2>1
<1>4. ~(p > q)
  <2> SUFFICES ASSUME p > q PROVE FALSE
    OBVIOUS
  <2>1. b * p - b * q >= b
    BY <1>1, <1>2
  <2>2. QED
    BY <1>1, <2>1
<1>5. p = q
  BY <1>1, <1>3, <1>4
<1>6. s = r
  BY <1>1, <1>5
<1>7. QED
  BY <1>5, <1>6 DEF p, s

\* Swapping the bytes twice leaves what fits two bytes.
LEMMA SwappedTwice ==
    ASSUME NEW n \in Int
    PROVE  /\ Swapped(n) \in 0..(Byte * Byte - 1)
           /\ Swapped(Swapped(n)) = n % (Byte * Byte)
<1> DEFINE low == n % Byte
           q == n \div Byte
           high == q % Byte
           r == q \div Byte
<1>1. Byte \in Nat \ {0}
  BY ByteAssumption
<1>2. low \in 0..(Byte - 1) /\ q \in Int /\ n = Byte * q + low
  BY <1>1, Divided
<1>3. high \in 0..(Byte - 1) /\ r \in Int /\ q = Byte * r + high
  BY <1>1, <1>2, Divided
<1>4. Swapped(n) = low * Byte + high
  BY DEF Swapped
<1> HIDE DEF low, q, high, r
<1>5. ASSUME NEW x \in 0..(Byte - 1), NEW y \in 0..(Byte - 1)
      PROVE  /\ x * Byte + y \in 0..(Byte * Byte - 1)
             /\ (x * Byte + y) % Byte = y /\ (x * Byte + y) \div Byte = x
  <2>1. x * Byte \in Nat /\ x * Byte + y \in Nat /\ x * Byte = Byte * x
    BY <1>1
  <2>2. x * Byte + Byte <= Byte * Byte
    <3>1. (Byte - 1 - x) \in Nat
      BY <1>1
    <3>2. (Byte - 1 - x) * Byte >= 0
      BY <1>1, <3>1
    <3>3. QED
      BY <1>1, <3>2
  <2>3. x * Byte + y \in 0..(Byte * Byte - 1)
    BY <1>1, <2>1, <2>2
  <2>4. x * Byte + y = Byte * x + y /\ x \in Int /\ x * Byte + y \in Int
    BY <2>1
  <2>5. QED
    BY <1>1, <2>3, <2>4, OneRemainder
<1>6. Swapped(Swapped(n)) = high * Byte + low
  <2>1. (low * Byte + high) % Byte = high /\ (low * Byte + high) \div Byte = low
    BY <1>2, <1>3, <1>5
  <2>2. low % Byte = low
    <3>1. low = Byte * 0 + low /\ low \in Int
      BY <1>1, <1>2
    <3>2. QED
      BY <1>1, <1>2, <3>1, OneRemainder
  <2>3. QED
    BY <1>4, <2>1, <2>2 DEF Swapped
<1>7. n % (Byte * Byte) = high * Byte + low
  <2>1. Byte * Byte \in Nat \ {0}
    BY <1>1
  <2>2. n = (Byte * Byte) * r + (high * Byte + low)
    BY <1>1, <1>2, <1>3
  <2>3. high * Byte + low \in 0..(Byte * Byte - 1)
    BY <1>2, <1>3, <1>5
  <2>4. QED
    BY <1>3, <2>1, <2>2, <2>3, OneRemainder
<1>8. QED
  BY <1>2, <1>3, <1>4, <1>5, <1>6, <1>7

\* What fits an id is left as it is by the cast, and what two bytes hold by that to
\* an int.
LEMMA CastsKeep ==
    /\ \A n \in Int : AsId(n) \in 0..(Ids - 1)
    /\ \A n \in 0..(Ids - 1) : AsId(n) = n
    /\ \A n \in 0..(Byte * Byte - 1) : AsInt(n) = n
<1>1. Byte \in Nat \ {0} /\ Ids \in Nat /\ 2 * Byte * Byte <= Ids
  BY ByteAssumption, IdsAssumption
<1>2. Byte * Byte \in Nat \ {0} /\ 2 * (Byte * Byte) <= Ids
  BY <1>1
<1> DEFINE w == Byte * Byte
<1> HIDE DEF w
<1>3. w \in Nat \ {0} /\ 2 * w <= Ids /\ Ids \in Nat \ {0}
  BY <1>1, <1>2 DEF w
<1>4. \A n \in 0..(Ids - 1) : n % Ids = n
  <2> TAKE n \in 0..(Ids - 1)
  <2>1. n = Ids * 0 + n /\ n \in Int
    BY <1>3
  <2>2. QED
    BY <1>3, <2>1, OneRemainder
<1>5. \A n \in 0..(w - 1) : n \in 0..(Ids - 1) /\ 2 * n < Ids
  BY <1>3
<1>6. \A n \in 0..(w - 1) : AsInt(n) = n
  BY <1>4, <1>5 DEF AsInt
<1>7. \A n \in Int : n % Ids \in 0..(Ids - 1)
  BY <1>3, Divided
<1>8. QED
  BY <1>4, <1>6, <1>7 DEF AsId, w

\* A width is taken as it is unless it is below zero.
LEMMA UnsignedIs ==
    ASSUME NEW n \in Int, -Word <= n, n < Word
    PROVE  Unsigned(n) = IF n < 0 THEN Word + n ELSE n
<1>1. Word \in Nat \ {0}
  BY WordAssumption
<1>2. CASE n < 0
  <2>1. n = Word * (-1) + (Word + n) /\ Word + n \in 0..(Word - 1) /\ -1 \in Int
    BY <1>1, <1>2
  <2>2. n % Word = Word + n
    BY <1>1, <2>1, OneRemainder
  <2>3. QED
    BY <1>2, <2>2 DEF Unsigned
<1>3. CASE ~(n < 0)
  <2>1. n = Word * 0 + n /\ n \in 0..(Word - 1)
    BY <1>1, <1>3
  <2>2. n % Word = n
    BY <1>1, <2>1, OneRemainder
  <2>3. QED
    BY <1>3, <2>2 DEF Unsigned
<1>4. QED
  BY <1>2, <1>3

-----------------------------------------------------------------------------
\* Keys and answers.

\* A key reads as a number or as a text.
LEMMA KeyIs ==
    ASSUME NEW key \in Keys
    PROVE  \/ \E n \in Int : key = Number(n)
           \/ \E e : key = Text(e)
BY NumbersAssumption DEF Keys

LEMMA NumberIs ==
    ASSUME NEW n
    PROVE  /\ IsNumber(Number(n)) /\ Number(n).number = n /\ Number(n) # Nothing
           /\ "list" \notin DOMAIN Number(n)
           /\ \A m : Number(n) = Number(m) => n = m
BY DEF IsNumber, Number, Nothing

LEMMA TextIs ==
    ASSUME NEW s
    PROVE  /\ ~IsNumber(Text(s)) /\ Text(s).text = s /\ Text(s) # Nothing
           /\ "list" \notin DOMAIN Text(s)
           /\ \A t : Text(s) = Text(t) => s = t
           /\ \A n : Text(s) # Number(n)
BY DEF IsNumber, Number, Text, Nothing

LEMMA NothingIs == ~IsNumber(Nothing) /\ "list" \notin DOMAIN Nothing
BY DEF IsNumber, Nothing

\* What ByNumber and ByName find.
LEMMA ByNumberIs ==
    ASSUME NEW db, NEW n
    PROVE  \/ ByNumber(db, n) = Nothing /\ \A e \in DOMAIN db : db[e] # n
           \/ \E e \in DOMAIN db : db[e] = n /\ ByNumber(db, n) = Text(e)
BY DEF ByNumber

LEMMA ByNameIs ==
    ASSUME NEW db, NEW e
    PROVE  \/ e \notin DOMAIN db /\ ByName(db, e) = Nothing
           \/ e \in DOMAIN db /\ ByName(db, e) = Number(db[e])
BY DEF ByName

LEMMA PrintedIs ==
    /\ \A n : Printed(Number(n)) = Number(Swapped(n))
    /\ \A s : Printed(Text(s)) = Text(s)
    /\ Printed(Nothing) = Nothing
BY NumberIs, TextIs, NothingIs DEF Printed

-----------------------------------------------------------------------------
\* $(getent services): the port goes through the network's order and back.

\* A port swaps back to what it was.
LEMMA SwappedBack ==
    ASSUME NEW e \in DOMAIN Services
    PROVE  Services[e] \in Int /\ Swapped(Swapped(Services[e])) = Services[e]
<1> DEFINE n == Services[e]
           w == Byte * Byte
<1>1. Byte \in Nat \ {0}
  BY ByteAssumption
<1>2. n \in 0..(w - 1)
  BY DatabaseAssumption
<1>3. w \in Nat \ {0}
  BY <1>1
<1>4. Swapped(Swapped(n)) = n % w
  BY <1>2, <1>3, SwappedTwice
<1> HIDE DEF n, w
<1>5. n = w * 0 + n
  BY <1>2, <1>3
<1>6. n % w = n
  BY <1>2, <1>3, <1>5, OneRemainder
<1>7. n \in Int
  BY <1>2, <1>3
<1>8. QED
  BY <1>4, <1>6, <1>7 DEF n, w

LEMMA ServicesReadBack ==
    ASSUME NEW key \in Keys, GetentServices(key) # Nothing
    PROVE  SameKey(Services, GetentServices(GetentServices(key)), Cut(key, Byte * Byte))
<1> DEFINE net == [s \in DOMAIN Services |-> Swapped(Services[s])]
<1>1. ASSUME NEW n
      PROVE  GetentServices(Number(n)) = ByNumber(net, Swapped(n))
  BY NumberIs DEF GetentServices
<1>2. ASSUME NEW e
      PROVE  GetentServices(Text(e)) = Printed(ByName(net, e))
  BY TextIs DEF GetentServices
<1>3. DOMAIN net = DOMAIN Services /\ \A e \in DOMAIN Services : net[e] = Swapped(Services[e])
  OBVIOUS
<1> HIDE DEF net
<1>4. ASSUME NEW n \in Int, key = Number(n)
      PROVE  SameKey(Services, GetentServices(GetentServices(key)), Number(n % (Byte * Byte)))
  <2>1. PICK e \in DOMAIN net : net[e] = Swapped(n) /\ GetentServices(key) = Text(e)
    BY <1>1, <1>4, ByNumberIs
  <2>2. GetentServices(Text(e)) = Printed(Number(Swapped(n)))
    BY <1>2, <2>1, ByNameIs
  <2>3. GetentServices(Text(e)) = Number(n % (Byte * Byte))
    BY <2>2, PrintedIs, SwappedTwice
  <2>4. QED
    BY <2>1, <2>3, NumberIs DEF SameKey
<1>5. ASSUME NEW e, key = Text(e)
      PROVE  SameKey(Services, GetentServices(GetentServices(key)), key)
  <2>1. e \in DOMAIN Services /\ ByName(net, e) = Number(Swapped(Services[e]))
    BY <1>2, <1>3, <1>5, ByNameIs, PrintedIs
  <2>2. GetentServices(key) = Number(Services[e])
    BY <1>2, <1>5, <2>1, PrintedIs, SwappedBack
  <2>3. GetentServices(Number(Services[e])) = ByNumber(net, Swapped(Services[e]))
    BY <1>1
  <2>4. PICK f \in DOMAIN net : net[f] = Swapped(Services[e])
                                /\ GetentServices(Number(Services[e])) = Text(f)
    BY <1>3, <2>1, <2>3, ByNumberIs
  <2>5. Services[f] = Services[e]
    BY <1>3, <2>1, <2>4, SwappedBack
  <2>6. QED
    BY <1>3, <1>5, <2>2, <2>4, <2>5, TextIs DEF SameKey
<1>6. QED
  BY <1>4, <1>5, KeyIs, NumberIs, TextIs DEF Cut

\* $(getent protocols): the number is swapped when it is printed, and only then.
LEMMA ProtocolsReadBack ==
    ASSUME NEW e, GetentProtocols(Text(e)) # Nothing
    PROVE  SameKey(Protocols, GetentProtocols(GetentProtocols(Text(e))), Text(e))
               <=> Swapped(Protocols[e]) = Protocols[e]
<1> DEFINE swapped == Swapped(Protocols[e])
<1>1. GetentProtocols(Text(e)) = Printed(ByName(Protocols, e))
  BY TextIs DEF GetentProtocols
<1>2. e \in DOMAIN Protocols /\ GetentProtocols(Text(e)) = Number(swapped)
  BY <1>1, ByNameIs, PrintedIs
<1>3. GetentProtocols(Number(swapped)) = ByNumber(Protocols, swapped)
  <2>1. AsInt(swapped) = swapped
    BY <1>2, DatabaseAssumption, SwappedTwice, CastsKeep
  <2>2. QED
    BY <2>1, NumberIs DEF GetentProtocols
<1>4. SameKey(Protocols, ByNumber(Protocols, swapped), Text(e))
          <=> \E f \in DOMAIN Protocols : /\ ByNumber(Protocols, swapped) = Text(f)
                                          /\ Protocols[f] = Protocols[e]
  BY TextIs DEF SameKey
<1> HIDE DEF swapped
<1>5. CASE ByNumber(Protocols, swapped) = Nothing /\ \A f \in DOMAIN Protocols : Protocols[f] # swapped
  BY <1>2, <1>3, <1>4, <1>5, TextIs DEF swapped
<1>6. ASSUME NEW f \in DOMAIN Protocols, Protocols[f] = swapped, ByNumber(Protocols, swapped) = Text(f)
      PROVE  SameKey(Protocols, ByNumber(Protocols, swapped), Text(e)) <=> swapped = Protocols[e]
  <2>1. \A g : Text(f) = Text(g) => f = g
    BY TextIs
  <2>2. QED
    BY <1>4, <1>6, <2>1
<1>7. QED
  BY <1>2, <1>3, <1>5, <1>6, ByNumberIs DEF swapped

-----------------------------------------------------------------------------
\* $(getent passwd) and $(getent group).

\* Without a member, a number gives a name and a name gives a number.
LEMMA EntryReadsBack ==
    ASSUME NEW db, NEW rest, {"name", "id"} \intersect DOMAIN rest = {},
           \A e \in DOMAIN db : db[e] \in 0..(Ids - 1),
           NEW key \in Keys, Entry(db, key, Nothing, rest) # Nothing
    PROVE  SameKey(db, Entry(db, Entry(db, key, Nothing, rest), Nothing, rest), Cut(key, Ids))
<1>1. ASSUME NEW n
      PROVE  Entry(db, Number(n), Nothing, rest) = ByNumber(db, AsId(n))
  <2> DEFINE e == ByNumber(db, AsId(n))
  <2>1. e = Nothing \/ e # Nothing
    OBVIOUS
  <2>2. Entry(db, Number(n), Nothing, rest) = IF e = Nothing THEN Nothing ELSE
            CASE "name" = "name"        -> e
              [] "name" = "id"          -> ByName(db, e.text)
              [] "name" \in DOMAIN rest -> rest["name"][e.text]
              [] OTHER                  -> Nothing
    BY NumberIs DEF Entry
  <2>3. QED
    BY <2>2
<1>2. ASSUME NEW e, e \notin DOMAIN db PROVE Entry(db, Text(e), Nothing, rest) = Nothing
  BY <1>2, TextIs DEF Entry
<1>3. ASSUME NEW e, e \in DOMAIN db PROVE Entry(db, Text(e), Nothing, rest) = Number(db[e])
  <2>1. Entry(db, Text(e), Nothing, rest) = IF Text(e) = Nothing THEN Nothing ELSE
            CASE "id" = "name"        -> Text(e)
              [] "id" = "id"          -> ByName(db, Text(e).text)
              [] "id" \in DOMAIN rest -> rest["id"][Text(e).text]
              [] OTHER                -> Nothing
    BY <1>3, TextIs DEF Entry
  <2>2. QED
    BY <1>3, <2>1, TextIs DEF ByName
<1>4. ASSUME NEW n, key = Number(n)
      PROVE  SameKey(db, Entry(db, Entry(db, key, Nothing, rest), Nothing, rest),
                     Number(AsId(n)))
  <2>1. PICK e \in DOMAIN db : db[e] = AsId(n) /\ ByNumber(db, AsId(n)) = Text(e)
    BY <1>1, <1>4, ByNumberIs
  <2>2. Entry(db, key, Nothing, rest) = Text(e)
    BY <1>1, <1>4, <2>1
  <2>3. QED
    BY <1>3, <1>4, <2>1, <2>2, NumberIs DEF SameKey
<1>5. ASSUME NEW e, key = Text(e)
      PROVE  SameKey(db, Entry(db, Entry(db, key, Nothing, rest), Nothing, rest), key)
  <2>1. e \in DOMAIN db /\ Entry(db, key, Nothing, rest) = Number(db[e])
    BY <1>2, <1>3, <1>5
  <2>2. PICK f \in DOMAIN db : db[f] = db[e] /\ ByNumber(db, db[e]) = Text(f)
    BY <2>1, ByNumberIs
  <2>3. Entry(db, Number(db[e]), Nothing, rest) = Text(f)
    BY <1>1, <2>1, <2>2, CastsKeep
  <2>4. QED
    BY <1>5, <2>1, <2>2, <2>3, TextIs DEF SameKey
<1>6. QED
  BY <1>4, <1>5, KeyIs, NumberIs, TextIs DEF Cut, AsId

\* Only the members of a group are a list.
LEMMA ListIs ==
    ASSUME NEW entity \in {"services", "protocols", "passwd", "group", "hosts"}, NEW key \in Keys,
           NEW member \in {Nothing} \union {Text(m) : m \in {"name", "id", "members", "shell"}},
           ReadsBehindList(Getent(entity, key, member))
    PROVE  /\ entity = "group" /\ member = Text("members")
           /\ \E g \in DOMAIN Groups :
                 Members[g] = <<>> /\ Cut(key, Ids) \in {Text(g), Number(Groups[g])}
<1> DEFINE answer == Getent(entity, key, member)
<1>1. "list" \in DOMAIN answer /\ answer.list = <<>>
  BY DEF ReadsBehindList
<1>2. ASSUME NEW db, NEW n PROVE "list" \notin DOMAIN ByNumber(db, n)
  BY TextIs, NothingIs DEF ByNumber
<1>3. ASSUME NEW db, NEW n
      PROVE  "list" \notin DOMAIN ByName(db, n) /\ "list" \notin DOMAIN Printed(ByName(db, n))
  BY NumberIs, NothingIs, PrintedIs DEF ByName
<1>4. "list" \notin DOMAIN GetentServices(key)
  BY <1>2, <1>3 DEF GetentServices
<1>5. "list" \notin DOMAIN GetentProtocols(key)
  BY <1>2, <1>3 DEF GetentProtocols
\* The entry that is found, and what is asked of it.
<1>6. ASSUME NEW db, NEW rest, {"name", "id"} \intersect DOMAIN rest = {},
             "list" \in DOMAIN Entry(db, key, member, rest)
      PROVE  \E m \in DOMAIN rest, e \in DOMAIN db :
                /\ Entry(db, key, member, rest) = rest[m][e]
                /\ Cut(key, Ids) \in {Text(e), Number(db[e])}
                /\ m \notin {"name", "id"} /\ member = Text(m)
  <2> DEFINE e == IF IsNumber(key) THEN ByNumber(db, AsId(key.number))
                  ELSE IF key.text \in DOMAIN db THEN key ELSE Nothing
             what == IF member # Nothing THEN member.text
                     ELSE IF IsNumber(key) THEN "name" ELSE "id"
  <2>1. Entry(db, key, member, rest) = IF e = Nothing THEN Nothing ELSE
            CASE what = "name"        -> e
              [] what = "id"          -> ByName(db, e.text)
              [] what \in DOMAIN rest -> rest[what][e.text]
              [] OTHER                -> Nothing
    BY DEF Entry
  <2>2. PICK x \in DOMAIN db : e = Text(x) /\ Cut(key, Ids) \in {Text(x), Number(db[x])}
    <3>1. ASSUME NEW n \in Int, key = Number(n), e # Nothing
          PROVE  \E x \in DOMAIN db : e = Text(x) /\ Cut(key, Ids) \in {Text(x), Number(db[x])}
      <4>1. e = ByNumber(db, AsId(n)) /\ Cut(key, Ids) = Number(AsId(n))
        BY <3>1, NumberIs DEF Cut, AsId
      <4>2. QED
        BY <3>1, <4>1, ByNumberIs
    <3>2. ASSUME NEW y, key = Text(y), e # Nothing
          PROVE  \E x \in DOMAIN db : e = Text(x) /\ Cut(key, Ids) \in {Text(x), Number(db[x])}
      <4>1. Cut(key, Ids) = Text(y)
        BY <3>2, TextIs DEF Cut
      <4>2. QED
        BY <3>2, <4>1, TextIs
    <3>3. e # Nothing
      <4> HIDE DEF e, what
      <4>1. QED
        BY <1>6, <2>1, NothingIs
    <3> HIDE DEF e
    <3>4. QED
      BY <3>1, <3>2, <3>3, KeyIs
  <2> HIDE DEF e, what
  <2>3. "list" \notin DOMAIN e /\ e # Nothing /\ e.text = x
    BY <2>2, TextIs
  <2>4. what \in DOMAIN rest /\ what \notin {"name", "id"}
        /\ Entry(db, key, member, rest) = rest[what][x]
    BY <1>3, <1>6, <2>1, <2>3, NothingIs
  <2>5. member = Text(what)
    BY <2>4, TextIs DEF what
  <2>6. QED
    BY <2>2, <2>4, <2>5
<1>7. "list" \notin DOMAIN GetentPasswd(key, member)
  <2> DEFINE rest == [shell |-> [u \in DOMAIN Users |-> Text("sh")]]
  <2>1. DOMAIN rest = {"shell"} /\ \A u \in DOMAIN Users : rest["shell"][u] = Text("sh")
    OBVIOUS
  <2>2. GetentPasswd(key, member) = Entry(Users, key, member, rest)
    BY DEF GetentPasswd
  <2> HIDE DEF rest
  <2>3. QED
    BY <1>6, <2>1, <2>2, TextIs
<1>8. entity = "group" /\ answer = GetentGroup(key, member)
  BY <1>1, <1>4, <1>5, <1>7, NothingIs DEF Getent
<1>9. QED
  <2> DEFINE rest == [members |-> [g \in DOMAIN Groups |-> [list |-> Members[g]]]]
  <2>1. DOMAIN rest = {"members"} /\ \A g \in DOMAIN Groups : rest["members"][g].list = Members[g]
    OBVIOUS
  <2>2. GetentGroup(key, member) = Entry(Groups, key, member, rest)
    BY DEF GetentGroup
  <2> HIDE DEF rest
  <2>3. QED
    BY <1>1, <1>6, <1>8, <2>1, <2>2

-----------------------------------------------------------------------------
\* The lookups of a run.

\* What a lookup leaves is right, whatever was there before.
LEMMA GetentStep == CallGetent => LookupsReadBack' /\ LookupsAreSafe'
<1> SUFFICES ASSUME CallGetent PROVE LookupsReadBack' /\ LookupsAreSafe'
  OBVIOUS
<1>1. PICK entity \in {"services", "protocols", "passwd", "group", "hosts"}, key \in Keys,
           member \in {Nothing} \union {Text(m) : m \in {"name", "id", "members", "shell"}} :
        /\ last' = [fn |-> "getent", entity |-> entity, key |-> key, member |-> member,
                    out |-> Getent(entity, key, member)]
        /\ alive' \in IF ReadsBehindList(Getent(entity, key, member)) THEN BOOLEAN ELSE {TRUE}
  BY DEF CallGetent, Computes
<1> DEFINE out == Getent(entity, key, member)
<1>2. last'.entity = entity /\ last'.key = key /\ last'.member = member /\ last'.out = out
  BY <1>1
<1>3. LookupsReadBack'
  <2>1. ASSUME entity = "services", out # Nothing
        PROVE  SameKey(Services, GetentServices(out), Cut(key, Byte * Byte))
    BY <2>1, ServicesReadBack DEF Getent
  <2>2. ASSUME entity = "passwd", member = Nothing, out # Nothing
        PROVE  SameKey(Users, GetentPasswd(out, Nothing), Cut(key, Ids))
    <3> DEFINE rest == [shell |-> [u \in DOMAIN Users |-> Text("sh")]]
    <3>1. {"name", "id"} \intersect DOMAIN rest = {}
      OBVIOUS
    <3>2. \A k : GetentPasswd(k, Nothing) = Entry(Users, k, Nothing, rest)
      BY DEF GetentPasswd
    <3> HIDE DEF rest
    <3>3. QED
      BY <2>2, <3>1, <3>2, DatabaseAssumption, EntryReadsBack DEF Getent
  <2>3. ASSUME entity = "group", member = Nothing, out # Nothing
        PROVE  SameKey(Groups, GetentGroup(out, Nothing), Cut(key, Ids))
    <3> DEFINE rest == [members |-> [g \in DOMAIN Groups |-> [list |-> Members[g]]]]
    <3>1. {"name", "id"} \intersect DOMAIN rest = {}
      OBVIOUS
    <3>2. \A k : GetentGroup(k, Nothing) = Entry(Groups, k, Nothing, rest)
      BY DEF GetentGroup
    <3> HIDE DEF rest
    <3>3. QED
      BY <2>3, <3>1, <3>2, DatabaseAssumption, EntryReadsBack DEF Getent
  <2>4. ASSUME entity = "protocols", ~IsNumber(key), out # Nothing
        PROVE  SameKey(Protocols, GetentProtocols(out), key)
                   <=> Swapped(Protocols[key.text]) = Protocols[key.text]
    <3>1. PICK e : key = Text(e)
      BY <2>4, KeyIs, NumberIs
    <3>2. key.text = e /\ out = GetentProtocols(key)
      BY <2>4, <3>1, TextIs DEF Getent
    <3>3. QED
      BY <2>4, <3>1, <3>2, ProtocolsReadBack
  <2> HIDE DEF out
  <2>5. QED
    BY <1>2, <2>1, <2>2, <2>3, <2>4 DEF LookupsReadBack
<1>4. LookupsAreSafe'
  <2> SUFFICES ASSUME ~alive'
               PROVE  /\ entity = "group" /\ member = Text("members")
                      /\ \E g \in DOMAIN Groups :
                            Members[g] = <<>> /\ Cut(key, Ids) \in {Text(g), Number(Groups[g])}
    BY <1>2 DEF LookupsAreSafe
  <2>1. ReadsBehindList(Getent(entity, key, member))
    BY <1>1
  <2>2. QED
    BY <2>1, ListIs
<1>5. QED
  BY <1>3, <1>4

-----------------------------------------------------------------------------
\* $(padding).

\* A text in front of which something is put is a suffix of what comes of it.
LEMMA SuffixOfConcat ==
    ASSUME NEW S, NEW s \in Seq(S), NEW t \in Seq(S)
    PROVE  IsSuffix(t, s \o t)
<1> DEFINE u == s \o t
           n == Len(t)
<1>1. /\ u \in Seq(S) /\ Len(u) = Len(s) + n /\ n \in Nat /\ Len(s) \in Nat
      /\ \A i \in 1..(Len(s) + n) : u[i] = IF i <= Len(s) THEN s[i] ELSE t[i - Len(s)]
  BY ConcatProperties, LenProperties
<1> HIDE DEF u
<1>2. \A i \in 1..n : Reverse(u)[i] = Reverse(t)[i]
  <2> SUFFICES ASSUME NEW i \in 1..n PROVE Reverse(u)[i] = Reverse(t)[i]
    OBVIOUS
  <2>1. Reverse(u)[i] = u[(Len(u) - i) + 1] /\ Reverse(t)[i] = t[(n - i) + 1]
    BY <1>1 DEF Reverse
  <2>2. /\ (Len(u) - i) + 1 \in 1..(Len(s) + n) /\ ~((Len(u) - i) + 1 <= Len(s))
        /\ ((Len(u) - i) + 1) - Len(s) = (n - i) + 1
    BY <1>1
  <2>3. QED
    BY <1>1, <2>1, <2>2
<1>3. /\ Reverse(t) \in Seq(S) /\ Len(Reverse(t)) = n
      /\ Reverse(u) \in Seq(S) /\ Len(Reverse(u)) = Len(u)
  <2>1. ASSUME NEW v \in Seq(S) PROVE Reverse(v) \in Seq(S) /\ Len(Reverse(v)) = Len(v)
    <3>1. Len(v) \in Nat /\ \A j \in 1..Len(v) : v[j] \in S
      BY ElementOfSeq, LenProperties
    <3>2. Reverse(v) \in [1..Len(v) -> S]
      BY <3>1 DEF Reverse
    <3>3. QED
      BY <3>1, <3>2, SeqDef, LenProperties
  <2>2. QED
    BY <1>1, <2>1
<1>4. SubSeq(Reverse(t), 1, n) = SubSeq(Reverse(u), 1, n)
  BY <1>1, <1>2
<1>5. Len(Reverse(t)) <= Len(Reverse(u))
  BY <1>1, <1>3
<1> HIDE DEF n
<1>6. QED
  BY <1>3, <1>4, <1>5 DEF IsSuffix, IsPrefix, u

\* What texts and paddings are made of.
Characters == STRING \union {Blank}

\* The padding starts over at its end.
LEMMA PadCharIs ==
    ASSUME NEW pad \in Seq(Characters), pad # <<>>, NEW i \in Nat \ {0}
    PROVE  /\ PadChar(pad, i - 1) \in Characters
           /\ i <= Len(pad) => PadChar(pad, i - 1) = pad[i]
           /\ i > Len(pad) => PadChar(pad, i - 1) = PadChar(pad, (i - Len(pad)) - 1)
<1> DEFINE l == Len(pad)
<1>1. l \in Nat \ {0} /\ \A j \in 1..l : pad[j] \in Characters
  BY EmptySeq, LenProperties, ElementOfSeq
<1>2. \A j : PadChar(pad, j) = pad[(j % l) + 1]
  BY DEF PadChar
<1> HIDE DEF l
<1>3. (i - 1) % l \in 0..(l - 1)
  <2>1. i - 1 \in Int
    OBVIOUS
  <2>2. QED
    BY <1>1, <2>1, Divided
<1>4. ASSUME i <= l PROVE (i - 1) % l = i - 1
  <2> DEFINE m == i - 1
  <2>1. m \in 0..(l - 1) /\ m \in Int
    BY <1>1, <1>4
  <2> HIDE DEF m
  <2>2. m = l * 0 + m /\ 0 \in Int
    BY <1>1, <2>1
  <2>3. m % l = m
    BY <1>1, <2>1, <2>2, OneRemainder
  <2>4. QED
    BY <2>3 DEF m
<1>5. ASSUME i > l PROVE (i - 1) % l = ((i - l) - 1) % l
  <2> DEFINE m == (i - l) - 1
             q == m \div l
             r == m % l
  <2>1. m \in Int
    BY <1>1
  <2>2. q \in Int /\ r \in 0..(l - 1) /\ m = l * q + r
    BY <1>1, <2>1, Divided
  <2>3. i - 1 = m + l
    BY <1>1
  <2> HIDE DEF m, q, r
  <2>4. i - 1 = l * (q + 1) + r /\ q + 1 \in Int /\ i - 1 \in Int
    BY <1>1, <2>1, <2>2, <2>3
  <2>5. (i - 1) % l = r
    BY <1>1, <2>2, <2>4, OneRemainder
  <2>6. QED
    BY <2>5 DEF m, r
<1>6. PadChar(pad, i - 1) \in Characters
  <2>1. ((i - 1) % l) + 1 \in 1..l
    BY <1>1, <1>3
  <2>2. QED
    BY <1>1, <1>2, <2>1
<1>7. i <= l => PadChar(pad, i - 1) = pad[i]
  BY <1>2, <1>4
<1>8. i > l => PadChar(pad, i - 1) = PadChar(pad, (i - l) - 1)
  BY <1>2, <1>5
<1>9. QED
  BY <1>6, <1>7, <1>8 DEF l

\* What is to be added, for a width below the length of the text, up to it, and
\* below zero.
LEMMA WidthIs ==
    ASSUME NEW text \in Texts, NEW n \in Numbers
    PROVE  /\ n \in Int /\ Len(text) \in Nat
           /\ n < 0 => Short(text, Number(n)) /\ ToAdd(Len(text), n) > Memory
           /\ n >= 0 => (Short(text, Number(n)) <=> Len(text) < n)
           /\ n >= 0 /\ Len(text) < n => ToAdd(Len(text), n) = n - Len(text)
<1> DEFINE len == Len(text)
<1>1. text \in Seq(STRING) /\ len \in Nat /\ len <= Memory
  BY TextsAssumption, LenProperties
<1>2. n \in Int /\ -Word <= 2 * n /\ 2 * n < Word
  BY NumbersAssumption
<1>3. Word \in Nat /\ Memory \in Nat /\ 4 * Memory < Word
  BY WordAssumption
<1>4. -Word <= n /\ n < Word
  BY <1>2, <1>3
<1>5. Unsigned(n) = IF n < 0 THEN Word + n ELSE n
  BY <1>2, <1>4, UnsignedIs
<1>6. Short(text, Number(n)) <=> len < Unsigned(n)
  BY NumberIs DEF Short
<1>7. ToAdd(len, n) = Unsigned(Unsigned(n) - len)
  BY DEF ToAdd
<1> HIDE DEF len
<1>8. ASSUME n < 0 PROVE len < Unsigned(n) /\ ToAdd(len, n) > Memory
  <2> DEFINE d == (Word + n) - len
  <2>1. d \in Int /\ -Word <= d /\ d < Word /\ d >= 0 /\ d > Memory /\ len < Word + n
    BY <1>1, <1>2, <1>3, <1>8
  <2> HIDE DEF d
  <2>2. Unsigned(d) = d
    BY <2>1, UnsignedIs
  <2>3. QED
    BY <1>5, <1>7, <1>8, <2>1, <2>2 DEF d
<1>9. ASSUME n >= 0, len < n PROVE ToAdd(len, n) = n - len
  <2> DEFINE d == n - len
  <2>1. d \in Int /\ -Word <= d /\ d < Word /\ d >= 0
    BY <1>1, <1>2, <1>3, <1>4, <1>9
  <2> HIDE DEF d
  <2>2. Unsigned(d) = d
    BY <2>1, UnsignedIs
  <2>3. ~(n < 0)
    BY <1>2, <1>9
  <2>4. QED
    BY <1>5, <1>7, <2>2, <2>3 DEF d
<1>10. n >= 0 => Unsigned(n) = n
  BY <1>2, <1>5
<1>11. QED
  BY <1>1, <1>2, <1>6, <1>8, <1>9, <1>10 DEF len

\* What a padding leaves is right, whatever was there before.
LEMMA PaddingStep == CallPadding => PaddingIsRight'
<1> SUFFICES ASSUME CallPadding PROVE PaddingIsRight'
  OBVIOUS
<1>1. PICK text \in Texts, width \in NumberArgs, pad \in Texts \union {<<Blank>>} :
        /\ last' = [fn |-> "padding", text |-> text, width |-> width, pad |-> pad,
                    out |-> IF PaddingCrashes(text, width, pad) THEN <<>>
                            ELSE Padding(text, width, pad)]
        /\ alive' = ~PaddingCrashes(text, width, pad)
  <2>1. CallPadding <=>
          \E text \in Texts, width \in NumberArgs, pad \in Texts \union {<<Blank>>} :
            Computes([fn |-> "padding", text |-> text, width |-> width, pad |-> pad,
                      out |-> IF PaddingCrashes(text, width, pad) THEN <<>>
                              ELSE Padding(text, width, pad)],
                     {~PaddingCrashes(text, width, pad)})
    BY DEF CallPadding
  <2>2. QED
    BY <2>1 DEF Computes
<1> DEFINE crashes == PaddingCrashes(text, width, pad)
           out == IF crashes THEN <<>> ELSE Padding(text, width, pad)
<1>2. last'.text = text /\ last'.width = width /\ last'.pad = pad /\ last'.out = out
  BY <1>1
<1>3. CASE ~IsNumber(width)
  BY <1>2, <1>3 DEF PaddingIsRight
<1>4. ASSUME NEW n \in Numbers, width = Number(n) PROVE PaddingIsRight'
  <2> DEFINE missing == n - Len(text)
             pads == [i \in 1..missing |-> PadChar(pad, i - 1)]
  <2>1. pad \in Seq(Characters) /\ text \in Seq(Characters) /\ n \in Int /\ Len(text) \in Nat
    <3>1. <<Blank>> \in Seq(Characters)
      BY DEF Characters
    <3>2. \A t \in Texts : t \in Seq(Characters)
      BY TextsAssumption DEF Characters
    <3>3. QED
      BY <3>1, <3>2, WidthIs
  <2>2. IsNumber(width) /\ width.number = n
    BY <1>4, NumberIs
  <2>3. crashes <=> /\ Short(text, Number(n))
                    /\ pad = <<>> \/ ToAdd(Len(text), n) > Memory
    BY <1>4, <2>2 DEF PaddingCrashes
  <2>4. SUFFICES
          /\ alive' =>
                /\ n >= 0
                /\ missing > 0 => Len(out) = n
                /\ IsSuffix(text, out)
                /\ \A i \in 1..missing :
                      out[i] = (IF i <= Len(pad) THEN pad[i] ELSE out[i - Len(pad)])
          /\ missing <= 0 /\ n >= 0 => alive' /\ out = text
          /\ missing \in 1..Memory => (alive' <=> pad # <<>>)
    BY <1>2, <2>2 DEF PaddingIsRight
  <2>5. CASE n < 0
    <3>1. crashes
      BY <2>3, <2>5, WidthIs
    <3>2. ~(n >= 0) /\ ~(missing \in 1..Memory)
      BY <2>1, <2>5
    <3>3. QED
      BY <1>1, <3>1, <3>2
  <2>6. CASE n >= 0 /\ missing <= 0
    <3>1. ~Short(text, Number(n))
      BY <2>1, <2>6, WidthIs
    <3>2. ~crashes /\ out = text
      BY <1>4, <2>2, <2>3, <3>1 DEF Padding
    <3>3. IsSuffix(text, text)
      <4>1. <<>> \in Seq(Characters) /\ <<>> \o text = text
        BY <2>1, EmptySeq, ConcatEmptySeq
      <4>2. QED
        BY <2>1, <4>1, SuffixOfConcat
    <3>4. 1..missing = {} /\ ~(missing > 0) /\ ~(missing \in 1..Memory)
      BY <2>1, <2>6
    <3> HIDE DEF crashes, out, missing
    <3>5. QED
      BY <1>1, <2>6, <3>2, <3>3, <3>4 DEF crashes
  <2>7. CASE n >= 0 /\ missing > 0
    <3>1. Short(text, Number(n)) /\ ToAdd(Len(text), n) = missing
      BY <2>1, <2>7, WidthIs
    <3>2. crashes <=> pad = <<>> \/ missing > Memory
      BY <2>3, <3>1
    <3>3. missing \in Nat /\ ~(missing <= 0) /\ Memory \in Nat
      BY <2>1, <2>7, WordAssumption
    <3>4. missing \in 1..Memory => (alive' <=> pad # <<>>)
      <4>1. missing \in 1..Memory => ~(missing > Memory)
        BY <3>3
      <4>2. alive' <=> ~crashes
        BY <1>1
      <4> HIDE DEF missing, crashes
      <4>3. QED
        BY <3>2, <4>1, <4>2
    <3>5. ASSUME alive'
          PROVE  /\ Len(out) = n /\ IsSuffix(text, out)
                 /\ \A i \in 1..missing :
                       out[i] = (IF i <= Len(pad) THEN pad[i] ELSE out[i - Len(pad)])
      <4>1. ~crashes /\ pad # <<>>
        BY <1>1, <3>2, <3>5
      <4>2. out = pads \o text
        BY <1>4, <2>2, <3>1, <4>1 DEF Padding
      <4>3. \A i \in 1..missing : PadChar(pad, i - 1) \in Characters
        <5>1. \A i \in 1..missing : i \in Nat \ {0}
          BY <3>3
        <5>2. QED
          BY <2>1, <4>1, <5>1, PadCharIs
      <4>4. pads \in Seq(Characters) /\ Len(pads) = missing
        BY <3>3, <4>3, SeqDef, LenProperties
      <4>5. \A i \in 1..missing : pads[i] = PadChar(pad, i - 1)
        OBVIOUS
      <4> HIDE DEF pads, out, crashes
      <4>6. /\ Len(out) = missing + Len(text)
            /\ \A i \in 1..missing : out[i] = PadChar(pad, i - 1)
        BY <2>1, <3>3, <4>2, <4>4, <4>5, ConcatProperties
      <4>7. Len(out) = n
        BY <2>1, <4>6
      <4>8. IsSuffix(text, out)
        BY <2>1, <4>2, <4>4, SuffixOfConcat
      <4>9. ASSUME NEW i \in 1..missing
            PROVE  out[i] = (IF i <= Len(pad) THEN pad[i] ELSE out[i - Len(pad)])
        <5>1. i \in Nat \ {0} /\ Len(pad) \in Nat \ {0}
          BY <2>1, <3>3, <4>1, EmptySeq, LenProperties
        <5> HIDE DEF missing
        <5>2. CASE i <= Len(pad)
          BY <2>1, <4>1, <4>6, <5>1, <5>2, PadCharIs
        <5>3. CASE i > Len(pad)
          <6>1. i - Len(pad) \in 1..missing
            BY <3>3, <5>1, <5>3
          <6>2. PadChar(pad, i - 1) = PadChar(pad, (i - Len(pad)) - 1)
            BY <2>1, <4>1, <5>1, <5>3, PadCharIs
          <6>3. ~(i <= Len(pad))
            BY <5>1, <5>3
          <6>4. QED
            BY <4>6, <6>1, <6>2, <6>3
        <5>4. QED
          BY <5>1, <5>2, <5>3
      <4>10. QED
        BY <4>7, <4>8, <4>9
    <3> HIDE DEF crashes, out, missing
    <3>6. QED
      BY <2>7, <3>3, <3>4, <3>5
  <2>8. QED
    BY <2>1, <2>5, <2>6, <2>7
<1>5. QED
  BY <1>3, <1>4, TextIs DEF NumberArgs

-----------------------------------------------------------------------------
\* $(graphite-output).

\* The parts of the lines.
Parts == {"a", "b", "x", "y", "t1", "t2", Blank, EndOfLine}

\* Whole lines: nothing, or something that ends a line.
Whole(s) == s \in Seq(Parts) /\ (Len(s) > 0 => s[Len(s)] = EndOfLine)

\* Whole lines one after the other are readable when each of them is.
LEMMA WholeConcat ==
    ASSUME NEW s, NEW t, Whole(s), Whole(t)
    PROVE  Whole(s \o t) /\ (Readable(s \o t) <=> Readable(s) /\ Readable(t))
<1> DEFINE u == s \o t
           k == Len(s)
           l == Len(t)
<1>1. /\ u \in Seq(Parts) /\ Len(u) = k + l /\ k \in Nat /\ l \in Nat
      /\ DOMAIN s = 1..k /\ DOMAIN t = 1..l /\ DOMAIN u = 1..(k + l)
      /\ \A i \in 1..(k + l) : u[i] = IF i <= k THEN s[i] ELSE t[i - k]
  BY ConcatProperties, LenProperties DEF Whole
<1>2. (k > 0 => s[k] = EndOfLine) /\ (l > 0 => t[l] = EndOfLine)
  BY DEF Whole
<1> HIDE DEF u, k, l
<1>3. \A i \in 1..k : i \in 1..(k + l) /\ u[i] = s[i]
  BY <1>1
<1>4. \A i \in 1..l : i + k \in 1..(k + l) /\ u[i + k] = t[i]
  BY <1>1
<1>5. \A i \in 1..(k + l) : i \in 1..k \/ (i - k \in 1..l /\ (i - k) + k = i)
  BY <1>1
<1>6. Len(u) > 0 => u[Len(u)] = EndOfLine
  <2>1. CASE l > 0
    <3>1. l \in 1..l /\ l + k = k + l
      BY <1>1, <2>1
    <3>2. QED
      BY <1>1, <1>2, <1>4, <2>1, <3>1
  <2>2. CASE l = 0 /\ k > 0
    <3>1. k \in 1..k /\ k + l = k
      BY <1>1, <2>2
    <3>2. QED
      BY <1>1, <1>2, <1>3, <2>2, <3>1
  <2>3. CASE l = 0 /\ k = 0
    BY <1>1, <2>3
  <2>4. QED
    BY <1>1, <2>1, <2>2, <2>3
\* What ends with a readable line has a length of whole lines.
<1>7. ASSUME Readable(s) PROVE k % 6 = 0
  <2>1. CASE k > 0
    <3>1. k \in 1..k
      BY <1>1, <2>1
    <3>2. QED
      BY <1>1, <1>2, <1>7, <2>1, <3>1 DEF Readable
  <2>2. CASE k = 0
    BY <2>2
  <2>3. QED
    BY <1>1, <2>1, <2>2
<1>8. ASSUME k % 6 = 0, NEW i \in Nat PROVE (i + k) % 6 = 0 <=> i % 6 = 0
  <2> DEFINE a == i \div 6
             b == k \div 6
             r == i % 6
  <2>1. a \in Int /\ r \in 0..5 /\ i = 6 * a + r /\ b \in Int /\ k = 6 * b + 0
    <3>1. i \in Int /\ k \in Int /\ 6 \in Nat \ {0}
      BY <1>1
    <3>2. QED
      BY <1>8, <3>1, Divided
  <2> HIDE DEF a, b, r
  <2>2. i + k = 6 * (a + b) + r /\ a + b \in Int /\ i + k \in Int
    BY <2>1
  <2>3. (i + k) % 6 = r
    <3>1. r \in 0..(6 - 1) /\ 6 \in Nat \ {0}
      BY <2>1
    <3>2. QED
      BY <2>2, <3>1, OneRemainder
  <2>4. QED
    BY <2>3 DEF r
<1>9. Readable(u) => Readable(s)
  BY <1>1, <1>3 DEF Readable
<1>10. Readable(u) /\ k % 6 = 0 => Readable(t)
  <2> SUFFICES ASSUME Readable(u), k % 6 = 0, NEW i \in 1..l, t[i] = EndOfLine PROVE i % 6 = 0
    BY <1>1 DEF Readable
  <2>1. (i + k) % 6 = 0
    BY <1>1, <1>4 DEF Readable
  <2>2. i \in Nat
    OBVIOUS
  <2>3. QED
    BY <1>8, <2>1, <2>2
<1>11. Readable(s) /\ Readable(t) => Readable(u)
  <2> SUFFICES ASSUME Readable(s), Readable(t), NEW i \in 1..(k + l), u[i] = EndOfLine
               PROVE  i % 6 = 0
    BY <1>1 DEF Readable
  <2>1. CASE i \in 1..k
    BY <1>1, <1>3, <2>1 DEF Readable
  <2>2. CASE i - k \in 1..l /\ (i - k) + k = i
    <3> DEFINE j == i - k
    <3>1. j \in 1..l /\ j \in Nat /\ j + k = i
      BY <1>1, <2>2
    <3> HIDE DEF j
    <3>2. t[j] = EndOfLine
      BY <1>4, <3>1
    <3>3. j % 6 = 0
      BY <1>1, <3>1, <3>2 DEF Readable
    <3>4. QED
      BY <1>7, <1>8, <3>1, <3>3
  <2>3. QED
    BY <1>5, <2>1, <2>2
<1>12. QED
  BY <1>1, <1>6, <1>7, <1>9, <1>10, <1>11 DEF Whole, u

\* What FlattenSeq makes of up to two sequences.
LEMMA FlattenIs ==
    ASSUME NEW seqs, NEW n \in 0..2, Len(seqs) = n
    PROVE  /\ n = 0 => FlattenSeq(seqs) = seqs
           /\ n = 1 => FlattenSeq(seqs) = seqs[1]
           /\ n = 2 => FlattenSeq(seqs) = seqs[1] \o seqs[2]
<1>1. n = 0 => FlattenSeq(seqs) = seqs
  BY DEF FlattenSeq
<1>2. ASSUME n > 0
      PROVE  FlattenSeq(seqs) = IF n = 1 THEN seqs[1] ELSE seqs[1] \o seqs[2]
  <2> DEFINE Is(f) == f = [i \in 1..n |-> IF i = 1 THEN seqs[i] ELSE f[i - 1] \o seqs[i]]
             g == CHOOSE f : Is(f)
             h == [i \in 1..n |-> IF i = 1 THEN seqs[1] ELSE seqs[1] \o seqs[2]]
  <2>1. FlattenSeq(seqs) = g[n]
    BY <1>2 DEF FlattenSeq
  <2>2. Is(h)
    <3>1. \A i \in 1..n : i = 1 \/ (i = 2 /\ i - 1 = 1 /\ 1 \in 1..n)
      OBVIOUS
    <3>2. \A i \in 1..n : h[i] = IF i = 1 THEN seqs[i] ELSE h[i - 1] \o seqs[i]
      BY <3>1
    <3>3. QED
      BY <3>2
  <2>3. Is(g)
    <3> HIDE DEF Is, h
    <3>1. QED
      BY <2>2
  <2>4. g[1] = seqs[1]
    <3> HIDE DEF g
    <3>1. 1 \in 1..n
      BY <1>2
    <3>2. QED
      BY <2>3, <3>1
  <2>5. n = 2 => g[2] = g[1] \o seqs[2]
    <3> HIDE DEF g
    <3>1. n = 2 => 2 \in 1..n /\ 2 - 1 = 1
      OBVIOUS
    <3>2. QED
      BY <2>3, <3>1
  <2> HIDE DEF g
  <2>6. n = 1 \/ n = 2
    BY <1>2
  <2>7. CASE n = 1
    BY <2>1, <2>4, <2>7
  <2>8. CASE n = 2
    <3>1. n # 1
      BY <2>8
    <3>2. QED
      BY <2>1, <2>4, <2>5, <2>8, <3>1
  <2>9. QED
    BY <2>6, <2>7, <2>8
<1>3. n = 1 => n > 0 /\ n = 1
  OBVIOUS
<1>4. n = 2 => n > 0 /\ n # 1
  OBVIOUS
<1>5. QED
  BY <1>1, <1>2, <1>3, <1>4

LEMMA FlattenWhole ==
    ASSUME NEW n \in 0..2, NEW seqs, DOMAIN seqs = 1..n, seqs = [i \in 1..n |-> seqs[i]],
           \A i \in 1..n : Whole(seqs[i])
    PROVE  /\ Whole(FlattenSeq(seqs))
           /\ Readable(FlattenSeq(seqs)) <=> \A i \in 1..n : Readable(seqs[i])
<1>1. seqs \in Seq(Seq(Parts)) /\ Len(seqs) = n
  <2>1. \A i \in 1..n : seqs[i] \in Seq(Parts)
    BY DEF Whole
  <2>2. n \in Nat
    OBVIOUS
  <2>3. seqs \in [1..n -> Seq(Parts)]
    BY <2>1
  <2>4. QED
    BY <2>2, <2>3, SeqDef, LenProperties
<1>2. CASE n = 0
  <2>1. FlattenSeq(seqs) = <<>>
    BY <1>1, <1>2, FlattenIs, EmptySeq
  <2>2. Whole(<<>>) /\ Readable(<<>>)
    BY EmptySeq DEF Whole, Readable
  <2>3. 1..n = {}
    BY <1>2
  <2>4. QED
    BY <2>1, <2>2, <2>3
<1>3. CASE n = 1
  <2>1. FlattenSeq(seqs) = seqs[1]
    BY <1>1, <1>3, FlattenIs
  <2>2. 1 \in 1..n /\ \A i \in 1..n : i = 1
    BY <1>3
  <2>3. QED
    BY <2>1, <2>2
<1>4. CASE n = 2
  <2>1. FlattenSeq(seqs) = seqs[1] \o seqs[2]
    BY <1>1, <1>4, FlattenIs
  <2>2. 1 \in 1..n /\ 2 \in 1..n /\ \A i \in 1..n : i = 1 \/ i = 2
    BY <1>4
  <2>3. Whole(seqs[1]) /\ Whole(seqs[2])
    BY <2>2
  <2>4. /\ Whole(seqs[1] \o seqs[2])
        /\ Readable(seqs[1] \o seqs[2]) <=> Readable(seqs[1]) /\ Readable(seqs[2])
    BY <2>3, WholeConcat
  <2>5. QED
    BY <2>1, <2>2, <2>4
<1>5. QED
  BY <1>2, <1>3, <1>4

\* A line has one end, after its sixth part unless the value has a blank.
LEMMA LineIs ==
    ASSUME NEW pair \in Pairs, NEW time \in {"t1", "t2"}
    PROVE  /\ Whole(Line(pair, time))
           /\ Readable(Line(pair, time)) <=> Len(pair.value) = 1
<1> DEFINE metric == pair.name
           shown  == pair.value
<1>1. metric \in {"a", "b"} /\ (shown = <<"x">> \/ shown = <<"x", Blank, "y">>)
  BY DEF Pairs
<1>2. /\ "a" # EndOfLine /\ "b" # EndOfLine /\ "x" # EndOfLine /\ "y" # EndOfLine
      /\ "t1" # EndOfLine /\ "t2" # EndOfLine
  BY Zenon DEF EndOfLine
<1>3. Blank # EndOfLine
  BY Zenon DEF Blank, EndOfLine
<1> DEFINE plain == Parts \ {EndOfLine}
           left == <<metric, Blank>>
           right == <<Blank, time, EndOfLine>>
           begin == left \o shown
           line == begin \o right
<1>4. Line(pair, time) = line
  BY DEF Line
<1> HIDE DEF metric, shown
<1>5. shown \in Seq(plain) /\ (Len(shown) = 1 \/ Len(shown) = 3)
  <2>1. "x" \in plain /\ "y" \in plain /\ Blank \in plain
    BY <1>2, <1>3 DEF Parts
  <2> HIDE DEF plain
  <2>2. CASE shown = <<"x">>
    BY <2>1, <2>2
  <2>3. CASE shown = <<"x", Blank, "y">>
    BY <2>1, <2>3
  <2>4. QED
    BY <1>1, <2>2, <2>3
<1>6. /\ left \in Seq(plain) /\ Len(left) = 2
      /\ right \in Seq(Parts) /\ Len(right) = 3 /\ right[1] # EndOfLine /\ right[2] # EndOfLine
      /\ right[3] = EndOfLine
  BY <1>1, <1>2, <1>3 DEF Parts
<1> HIDE DEF left, right, plain
<1>7. begin \in Seq(plain) /\ Len(begin) = 2 + Len(shown)
  <2>1. shown \in Seq(plain) /\ left \in Seq(plain) /\ Len(left) = 2
    BY <1>5, <1>6
  <2>2. left \o shown \in Seq(plain) /\ Len(left \o shown) = Len(left) + Len(shown)
    BY <2>1, ConcatProperties
  <2>3. QED
    BY <2>1, <2>2
<1> HIDE DEF begin
<1> DEFINE k == Len(begin)
<1>8. (k = 3 \/ k = 5) /\ (k = 3 <=> Len(shown) = 1)
  <2>1. Len(begin) = 2 + Len(shown) /\ (Len(shown) = 1 \/ Len(shown) = 3)
    BY <1>5, <1>7
  <2>2. Len(shown) = 1 => k = 3
    BY <2>1
  <2>3. Len(shown) = 3 => k = 5
    BY <2>1
  <2>4. QED
    BY <2>1, <2>2, <2>3
<1>9. begin \in Seq(Parts) /\ \A i \in 1..k : begin[i] # EndOfLine
  <2>1. \A i \in 1..k : begin[i] \in plain
    BY <1>7, ElementOfSeq
  <2>2. plain \subseteq Parts /\ EndOfLine \notin plain
    BY DEF plain
  <2>3. QED
    BY <1>7, <2>1, <2>2
<1>10. /\ line \in Seq(Parts) /\ Len(line) = k + 3 /\ DOMAIN line = 1..(k + 3)
       /\ \A i \in 1..(k + 3) : line[i] = IF i <= k THEN begin[i] ELSE right[i - k]
  <2>1. /\ line \in Seq(Parts) /\ Len(line) = Len(begin) + Len(right)
        /\ \A i \in 1..(Len(begin) + Len(right)) :
              line[i] = IF i <= Len(begin) THEN begin[i] ELSE right[i - Len(begin)]
    BY <1>6, <1>9, ConcatProperties
  <2> HIDE DEF line
  <2>2. DOMAIN line = 1..Len(line)
    BY <2>1, LenProperties
  <2>3. QED
    BY <1>6, <2>1, <2>2
<1> HIDE DEF k, line
<1>11. line[k + 3] = EndOfLine
  <2>1. k + 3 \in 1..(k + 3) /\ ~(k + 3 <= k) /\ (k + 3) - k = 3
    BY <1>8
  <2>2. QED
    BY <1>6, <1>10, <2>1
<1>12. \A i \in 1..(k + 3) : line[i] = EndOfLine => i = k + 3
  <2> SUFFICES ASSUME NEW i \in 1..(k + 3), i # k + 3 PROVE line[i] # EndOfLine
    OBVIOUS
  <2>1. CASE i <= k
    <3>1. i \in 1..k
      BY <1>8, <2>1
    <3>2. QED
      BY <1>9, <1>10, <2>1, <3>1
  <2>2. CASE ~(i <= k)
    <3>1. i - k = 1 \/ i - k = 2
      BY <1>8, <2>2
    <3>2. QED
      BY <1>6, <1>10, <2>2, <3>1
  <2>3. QED
    BY <2>1, <2>2
<1>13. Readable(line) <=> (k + 3) % 6 = 0
  <2>1. k + 3 \in 1..(k + 3)
    BY <1>8
  <2>2. QED
    BY <1>10, <1>11, <1>12, <2>1 DEF Readable
<1>14. (k + 3) % 6 = 0 <=> k = 3
  BY <1>8
<1>15. Whole(line)
  BY <1>10, <1>11 DEF Whole
<1>16. QED
  BY <1>4, <1>8, <1>13, <1>14, <1>15 DEF shown

\* What is formatted for Graphite is right, whatever was there before.
LEMMA GraphiteStep == CallGraphite => LinesAreReadable'
<1> SUFFICES ASSUME CallGraphite PROVE LinesAreReadable'
  OBVIOUS
<1>1. PICK messages \in BoundedSeq(Messages, 2) :
        last' = [fn |-> "graphite-output", messages |-> messages, out |-> Graphite(messages)]
  BY DEF CallGraphite, Computes
<1>2. last'.messages = messages /\ last'.out = Graphite(messages)
  BY <1>1
<1>3. PICK n \in 0..2 : messages \in [1..n -> Messages]
  BY DEF BoundedSeq, SeqOf
<1> DEFINE lines(i) == [j \in DOMAIN messages[i].pairs |->
                           Line(messages[i].pairs[j], messages[i].time)]
           texts == [i \in DOMAIN messages |-> FlattenSeq(lines(i))]
<1>4. Graphite(messages) = FlattenSeq(texts)
  BY DEF Graphite
<1>5. ASSUME NEW i \in 1..n
      PROVE  /\ Whole(FlattenSeq(lines(i)))
             /\ Readable(FlattenSeq(lines(i)))
                    <=> \A j \in DOMAIN messages[i].pairs : Len(messages[i].pairs[j].value) = 1
  <2>1. messages[i].pairs \in BoundedSeq(Pairs, 2) /\ messages[i].time \in {"t1", "t2"}
    BY <1>3 DEF Messages
  <2>2. PICK m \in 0..2 : messages[i].pairs \in [1..m -> Pairs]
    BY <2>1 DEF BoundedSeq, SeqOf
  <2> DEFINE pairs == messages[i].pairs
             time == messages[i].time
             seqs == lines(i)
  <2>3. DOMAIN pairs = 1..m /\ \A j \in 1..m : pairs[j] \in Pairs
    BY <2>2
  <2>4. DOMAIN seqs = 1..m /\ seqs = [j \in 1..m |-> seqs[j]]
        /\ \A j \in 1..m : seqs[j] = Line(pairs[j], time)
    BY <2>3
  <2> HIDE DEF pairs, seqs
  <2>5. \A j \in 1..m : /\ Whole(seqs[j])
                        /\ Readable(seqs[j]) <=> Len(pairs[j].value) = 1
    BY <2>1, <2>3, <2>4, LineIs
  <2>6. /\ Whole(FlattenSeq(seqs))
        /\ Readable(FlattenSeq(seqs)) <=> \A j \in 1..m : Readable(seqs[j])
    <3>1. \A j \in 1..m : Whole(seqs[j])
      BY <2>5
    <3>2. QED
      BY <2>4, <3>1, FlattenWhole
  <2>7. /\ Whole(FlattenSeq(seqs))
        /\ Readable(FlattenSeq(seqs)) <=> \A j \in DOMAIN pairs : Len(pairs[j].value) = 1
    BY <2>3, <2>5, <2>6
  <2>8. QED
    BY <2>7 DEF pairs, seqs
<1>6. DOMAIN texts = 1..n /\ texts = [i \in 1..n |-> texts[i]] /\ DOMAIN messages = 1..n
      /\ \A i \in 1..n : texts[i] = FlattenSeq(lines(i))
  BY <1>3
<1> HIDE DEF texts, lines
<1>7. Readable(FlattenSeq(texts)) <=> \A i \in 1..n : Readable(texts[i])
  BY <1>5, <1>6, FlattenWhole
<1>8. QED
  BY <1>2, <1>4, <1>5, <1>6, <1>7 DEF LinesAreReadable

-----------------------------------------------------------------------------
\* The runs.

\* A step keeps what is said of the last call: it is the call of the step, or the
\* step is one of $(state).
LEMMA CallsStep ==
    PaddingIsRight /\ TextsReadBack /\ [Next]_vars => PaddingIsRight' /\ TextsReadBack'
<1> SUFFICES ASSUME PaddingIsRight, TextsReadBack, [Next]_vars
             PROVE  PaddingIsRight' /\ TextsReadBack'
  OBVIOUS
<1> USE DEF TextsReadBack
<1>1. CASE CallPadding
  <2>1. last'.fn = "padding"
    BY <1>1 DEF CallPadding, Computes
  <2>2. QED
    BY <1>1, <2>1, PaddingStep DEF LookupsReadBack, LookupsAreSafe, LinesAreReadable
<1>2. CASE CallGetent
  <2>1. last'.fn = "getent"
    BY <1>2 DEF CallGetent, Computes
  <2>2. QED
    BY <1>2, <2>1, GetentStep DEF PaddingIsRight, LinesAreReadable
<1>3. CASE CallGraphite
  <2>1. last'.fn = "graphite-output"
    BY <1>3 DEF CallGraphite, Computes
  <2>2. QED
    BY <1>3, <2>1, GraphiteStep DEF PaddingIsRight, LookupsReadBack, LookupsAreSafe
<1>4. CASE last'.fn \in {"none", "or", "divx"}
  <2>1. last'.fn \notin {"padding", "getent", "graphite-output"}
    BY <1>4
  <2>2. QED
    BY <2>1 DEF PaddingIsRight, LookupsReadBack, LookupsAreSafe, LinesAreReadable
<1>5. CASE CallOr
  <2>1. PICK call : Computes(call, {TRUE}) /\ call.fn = "or"
    BY <1>5 DEF CallOr
  <2>2. QED
    BY <1>4, <2>1 DEF Computes
<1>6. CASE CallDivX
  <2>1. PICK call : Computes(call, {TRUE}) /\ call.fn = "divx"
    BY <1>6 DEF CallDivX
  <2>2. QED
    BY <1>4, <2>1 DEF Computes
<1>7. CASE last' = [fn |-> "none"]
  <2>1. last'.fn = "none"
    BY <1>7
  <2>2. QED
    BY <1>4, <2>1
<1>8. CASE UNCHANGED vars
  BY <1>8 DEF vars, PaddingIsRight, LookupsReadBack, LookupsAreSafe, LinesAreReadable
<1>9. QED
  BY <1>1, <1>2, <1>3, <1>5, <1>6, <1>7, <1>8 DEF Next

LEMMA CallsInit == Init => PaddingIsRight /\ TextsReadBack
BY DEF Init, PaddingIsRight, TextsReadBack, LookupsReadBack, LookupsAreSafe, LinesAreReadable

\* $(padding) puts as much of the repeated padding before a text as is missing, and
\* ends the process exactly for an empty padding, a width below zero and one there
\* is no memory for; for any machine words, memory, texts and widths.
THEOREM PaddingsAreRight == Spec => []PaddingIsRight
<1>1. QED
  BY CallsInit, CallsStep, PTL DEF Spec

\* What $(getent) answers looks up what it was asked, except for the protocols, and
\* only a group without members can end the process; what $(graphite-output)
\* writes is readable unless a value has a blank; for any databases whose ports fit
\* two bytes, any size of a byte, and any keys, and for up to two messages of two
\* pairs.
THEOREM AnswersReadBack == Spec => []TextsReadBack
<1>1. QED
  BY CallsInit, CallsStep, PTL DEF Spec

\* A step of the template functions is one of $(state) or leaves its map alone.
LEMMA StepOfState == [Next]_vars => [StateNext]_stateVars
<1>1. CallOr \/ CallDivX \/ CallPadding \/ CallGetent \/ CallGraphite => UNCHANGED stateVars
  BY DEF CallOr, CallDivX, CallPadding, CallGetent, CallGraphite, Computes
<1>2. UNCHANGED vars => UNCHANGED stateVars
  BY DEF vars
<1>3. QED
  BY <1>1, <1>2 DEF Next

\* Together with the other template functions, $(state) is what it is alone: a store
\* of named values, of which every read is current.
THEOREM TemplatesKeepState == Spec => StoreSpec /\ []ReadsAreCurrent
<1>1. Init => StateInit
  BY DEF Init
<1>2. Spec => StateSpec
  BY <1>1, StepOfState, PTL DEF Spec, StateSpec
<1>3. QED
  BY <1>2, StateImplementsStore, ReadsAreOfTheCall
=============================================================================
