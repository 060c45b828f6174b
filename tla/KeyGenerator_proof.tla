-------------------------- MODULE KeyGenerator_proof --------------------------
(***************************************************************************)
(* Proofs about KeyGenerator: its keys are unique and, on a machine, grow. *)
(*                                                                         *)
(* What a machine will return next is lexicographically above the times    *)
(* and sequence numbers it has returned (Ahead), and Key is a strictly     *)
(* increasing and injective function of them.                              *)
(***************************************************************************)
EXTENDS KeyGenerator, TLAPS

(***************************************************************************)
(* The fields of a key do not overlap.                                     *)
(***************************************************************************)
\* A greater high part outweighs any low part below the size.
LEMMA HighPartWins ==
  ASSUME NEW a \in Nat, NEW b \in Nat, NEW size \in Nat \ {0},
         NEW s \in 0 .. (size - 1), NEW t \in 0 .. (size - 1),
         a < b
  PROVE  a * size + s < b * size + t
<1> DEFINE d == b - a - 1
<1>1. d \in Nat /\ b = a + 1 + d
  OBVIOUS
<1>2. d * size \in Nat /\ a * size \in Nat
  BY <1>1
<1>3. b * size = a * size + size + d * size
  BY <1>1
<1> QED
  BY <1>2, <1>3

\* Two numbers made of a high and a low part are equal only part by part.
LEMMA PartsAreUnique ==
  ASSUME NEW a \in Nat, NEW b \in Nat, NEW size \in Nat \ {0},
         NEW s \in 0 .. (size - 1), NEW t \in 0 .. (size - 1),
         a * size + s = b * size + t
  PROVE  a = b /\ s = t
<1>1. a * size \in Nat /\ b * size \in Nat
  OBVIOUS
<1>2. ~(a < b)
  BY <1>1, HighPartWins
<1>3. ~(b < a)
  BY <1>1, HighPartWins
<1>4. a = b
  BY <1>2, <1>3
<1> QED
  BY <1>1, <1>4

\* The high part of a key, its time and its worker id, and the room below it.
High(n, time) == time * WorkerIds + workId[n]
Size == SEQUENCE_MASK + 1

\* The sizes of the fields of a key, from the assumption on the machines.
LEMMA FieldTypes ==
  /\ WorkerIds \in Nat \ {0}
  /\ Size \in Nat \ {0}
  /\ 0 .. SEQUENCE_MASK = 0 .. (Size - 1)
  /\ \A n \in Nodes : workId[n] \in 0 .. (WorkerIds - 1)
BY NodesAssumption DEF Size

\* The high part of a key is a number.
LEMMA HighType ==
  ASSUME NEW n \in Nodes, NEW time \in Nat
  PROVE  High(n, time) \in Nat
<1>1. time * WorkerIds \in Nat
  BY FieldTypes
<1> QED
  BY <1>1, FieldTypes DEF High

\* A key is its high part and its sequence number.
LEMMA KeyParts ==
  ASSUME NEW n \in Nodes, NEW time \in Nat, NEW seq \in 0 .. SEQUENCE_MASK
  PROVE  Key(n, time, seq) = High(n, time) * Size + seq
BY DEF Key, High, Size

\* A key is a natural number: it is above the -1 that stands for no key.
LEMMA KeyType ==
  ASSUME NEW n \in Nodes, NEW time \in Nat, NEW seq \in 0 .. SEQUENCE_MASK
  PROVE  Key(n, time, seq) \in Nat
<1>1. High(n, time) * Size \in Nat
  BY HighType, FieldTypes
<1> QED
  BY <1>1, KeyParts, FieldTypes

\* Keys of one machine are ordered as their times, then their sequence numbers.
LEMMA KeyIncreases ==
  ASSUME NEW n \in Nodes,
         NEW t1 \in Nat, NEW s1 \in 0 .. SEQUENCE_MASK,
         NEW t2 \in Nat, NEW s2 \in 0 .. SEQUENCE_MASK,
         t1 < t2 \/ (t1 = t2 /\ s1 < s2)
  PROVE  Key(n, t1, s1) < Key(n, t2, s2)
<1>1. High(n, t1) \in Nat /\ High(n, t2) \in Nat
  BY HighType
<1>2. s1 \in 0 .. (Size - 1) /\ s2 \in 0 .. (Size - 1) /\ Size \in Nat \ {0}
  BY FieldTypes
<1>3. CASE t1 < t2
  <2>1. t1 * WorkerIds + workId[n] < t2 * WorkerIds + workId[n]
    BY <1>3, FieldTypes, HighPartWins
  <2>2. High(n, t1) < High(n, t2)
    BY <2>1 DEF High
  <2>3. High(n, t1) * Size + s1 < High(n, t2) * Size + s2
    BY <1>1, <1>2, <2>2, HighPartWins
  <2> QED
    BY <2>3, KeyParts
<1>4. CASE t1 = t2 /\ s1 < s2
  <2>1. High(n, t1) * Size \in Nat
    BY <1>1, <1>2
  <2>2. High(n, t1) * Size + s1 < High(n, t1) * Size + s2
    BY <1>4, <2>1
  <2> QED
    BY <1>4, <2>2, KeyParts
<1> QED
  BY <1>3, <1>4

\* Two calls return the same key only on the same machine, with the same time
\* and sequence number.
LEMMA KeyIsInjective ==
  ASSUME NEW n \in Nodes, NEW t1 \in Nat, NEW s1 \in 0 .. SEQUENCE_MASK,
         NEW m \in Nodes, NEW t2 \in Nat, NEW s2 \in 0 .. SEQUENCE_MASK,
         Key(n, t1, s1) = Key(m, t2, s2)
  PROVE  n = m /\ t1 = t2 /\ s1 = s2
<1>1. High(n, t1) \in Nat /\ High(m, t2) \in Nat
  BY HighType
<1>2. s1 \in 0 .. (Size - 1) /\ s2 \in 0 .. (Size - 1) /\ Size \in Nat \ {0}
  BY FieldTypes
<1>3. High(n, t1) * Size + s1 = High(m, t2) * Size + s2
  BY KeyParts
<1>4. High(n, t1) = High(m, t2) /\ s1 = s2
  BY <1>1, <1>2, <1>3, PartsAreUnique
<1>5. t1 * WorkerIds + workId[n] = t2 * WorkerIds + workId[m]
  BY <1>4 DEF High
<1>6. t1 = t2 /\ workId[n] = workId[m]
  BY <1>5, FieldTypes, PartsAreUnique
<1> QED
  BY <1>4, <1>6, DistinctWorkers

-----------------------------------------------------------------------------
(* The inductive invariant *)

\* The times and numbers a machine has returned are behind its next ones: behind
\* the last ones while it remembers them, behind its clock after a restart.
Ahead(n) ==
  IF lastTime[n] = 0
  THEN ~waiting[n] /\ Past(n, clock[n])
  ELSE \A r \in issued[n] :
         r[1] < lastTime[n] \/ (r[1] = lastTime[n] /\ (waiting[n] \/ r[2] <= sequence[n]))

LastKeyIssued(n) ==
  lastKey[n] = -1 \/ \E r \in issued[n] : lastKey[n] = Key(n, r[1], r[2])

IInv ==
  /\ TypeOK
  /\ \A n \in Nodes : Ahead(n) /\ LastKeyIssued(n)
  /\ UniqueKeys

\* <<time, seq>> is above everything machine n has returned.
Above(n, time, seq) ==
  \A r \in issued[n] : r[1] < time \/ (r[1] = time /\ r[2] < seq)

-----------------------------------------------------------------------------
(* Steps *)

\* The step in which generateKey returns a key above the earlier ones.
LEMMA ReturnStep ==
  ASSUME IInv,
         NEW n \in Nodes, NEW time \in Nat \ {0}, NEW seq \in 0 .. SEQUENCE_MASK,
         Above(n, time, seq),
         Return(n, time, seq),
         clock' = clock,
         waiting' = waiting \/ waiting' = [waiting EXCEPT ![n] = FALSE]
  PROVE  /\ IInv'
         /\ \A m \in Nodes : lastKey'[m] # lastKey[m] => lastKey'[m] > lastKey[m]
<1> DEFINE k == Key(n, time, seq)
<1>1. TypeOK /\ repeated = {}
  BY DEF IInv, UniqueKeys
<1>2. k \in Nat
  BY KeyType
<1>3. ~Issued(k)
  <2>1. SUFFICES ASSUME NEW m \in Nodes, NEW r \in issued[m], Key(m, r[1], r[2]) = k
                 PROVE  FALSE
    BY DEF Issued
  <2>2. r[1] \in Nat /\ r[2] \in 0 .. SEQUENCE_MASK
    BY <1>1 DEF TypeOK
  <2>3. m = n /\ r[1] = time /\ r[2] = seq
    BY <2>1, <2>2, KeyIsInjective
  <2> QED
    BY <2>2, <2>3 DEF Above
<1>4. TypeOK'
  <2>1. k \in Nat /\ <<time, seq>> \in Nat \X (0 .. SEQUENCE_MASK)
    BY <1>2
  <2> QED
    BY <1>1, <1>3, <2>1 DEF TypeOK, Return
<1>5. UniqueKeys'
  BY <1>1, <1>3 DEF UniqueKeys, Return
<1>6. ASSUME NEW m \in Nodes
      PROVE  Ahead(m)'
  <2>1. CASE m = n
    <3>1. lastTime'[n] = time /\ sequence'[n] = seq /\ time # 0
      BY <1>1 DEF TypeOK, Return
    <3>2. ASSUME NEW r \in issued'[n]
          PROVE  r[1] < time \/ (r[1] = time /\ r[2] <= seq)
      <4>1. r \in issued[n] \/ r = <<time, seq>>
        BY <1>1 DEF TypeOK, Return
      <4>2. CASE r \in issued[n]
        <5>1. r[1] \in Nat /\ r[2] \in Nat
          BY <1>1, <4>2 DEF TypeOK
        <5> QED
          BY <4>2, <5>1 DEF Above
      <4>3. CASE r = <<time, seq>>
        BY <4>3
      <4> QED
        BY <4>1, <4>2, <4>3
    <3> QED
      BY <2>1, <3>1, <3>2 DEF Ahead
  <2>2. CASE m # n
    <3>1. /\ lastTime'[m] = lastTime[m] /\ sequence'[m] = sequence[m]
          /\ issued'[m] = issued[m] /\ waiting'[m] = waiting[m] /\ clock'[m] = clock[m]
      BY <1>1, <2>2 DEF TypeOK, Return
    <3>2. Ahead(m)
      BY DEF IInv
    <3> QED
      BY <3>1, <3>2 DEF Ahead, Past
  <2> QED
    BY <2>1, <2>2
<1>7. ASSUME NEW m \in Nodes
      PROVE  LastKeyIssued(m)'
  <2>1. CASE m = n
    <3>1. lastKey'[n] = k /\ <<time, seq>> \in issued'[n]
      BY <1>1 DEF TypeOK, Return
    <3>2. Key(n, time, seq)' = k
      BY DEF Key
    <3> QED
      BY <2>1, <3>1, <3>2 DEF LastKeyIssued, Key
  <2>2. CASE m # n
    <3>1. issued'[m] = issued[m] /\ lastKey'[m] = lastKey[m]
      BY <1>1, <2>2 DEF TypeOK, Return
    <3>2. LastKeyIssued(m)
      BY DEF IInv
    <3> QED
      BY <3>1, <3>2 DEF LastKeyIssued, Key
  <2> QED
    BY <2>1, <2>2
<1>8. ASSUME NEW m \in Nodes, lastKey'[m] # lastKey[m]
      PROVE  lastKey'[m] > lastKey[m]
  <2>1. m = n /\ lastKey'[n] = k
    BY <1>1, <1>8 DEF TypeOK, Return
  <2>2. CASE lastKey[n] = -1
    BY <1>2, <2>1, <2>2
  <2>3. CASE lastKey[n] # -1
    <3>1. PICK r \in issued[n] : lastKey[n] = Key(n, r[1], r[2])
      BY <2>3 DEF IInv, LastKeyIssued
    <3>2. r[1] \in Nat /\ r[2] \in 0 .. SEQUENCE_MASK
      BY <1>1 DEF TypeOK
    <3>3. r[1] < time \/ (r[1] = time /\ r[2] < seq)
      BY DEF Above
    <3>4. Key(n, r[1], r[2]) < k /\ Key(n, r[1], r[2]) \in Nat
      BY <3>2, <3>3, KeyIncreases, KeyType
    <3> QED
      BY <1>2, <2>1, <3>1, <3>4
  <2> QED
    BY <2>2, <2>3
<1> QED
  BY <1>4, <1>5, <1>6, <1>7, <1>8 DEF IInv

\* A step that returns no key keeps what has been returned.
LEMMA QuietStep ==
  ASSUME IInv,
         TypeOK',
         UNCHANGED <<issued, lastKey, repeated>>,
         \A m \in Nodes : Ahead(m)'
  PROVE  /\ IInv'
         /\ \A m \in Nodes : lastKey'[m] # lastKey[m] => lastKey'[m] > lastKey[m]
<1>1. UniqueKeys'
  BY DEF IInv, UniqueKeys
<1>2. \A m \in Nodes : LastKeyIssued(m)'
  BY DEF IInv, LastKeyIssued, Key
<1> QED
  BY <1>1, <1>2 DEF IInv

\* Every step keeps the invariant, and moves a machine's last key upwards only.
LEMMA NextStep ==
  ASSUME IInv, [Next]_vars
  PROVE  /\ IInv'
         /\ \A m \in Nodes : lastKey'[m] # lastKey[m] => lastKey'[m] > lastKey[m]
<1>1. TypeOK /\ \A m \in Nodes : Ahead(m)
  BY DEF IInv
<1>2. CASE UNCHANGED vars
  <2>1. TypeOK' /\ \A m \in Nodes : Ahead(m)'
    BY <1>1, <1>2 DEF vars, TypeOK, Ahead, Past
  <2> QED
    BY <1>2, <2>1, QuietStep DEF vars
<1>3. ASSUME NEW n \in Nodes, FirstOfMillisecond(n)
      PROVE  /\ IInv'
             /\ \A m \in Nodes : lastKey'[m] # lastKey[m] => lastKey'[m] > lastKey[m]
  <2>1. clock[n] \in Nat \ {0} /\ lastTime[n] \in Nat /\ 0 \in 0 .. SEQUENCE_MASK
    BY <1>1, NodesAssumption DEF TypeOK
  <2>2. \A r \in issued[n] : r[1] \in Nat /\ r[2] \in Nat
    BY <1>1 DEF TypeOK
  <2>3. Above(n, clock[n], 0)
    BY <1>1, <1>3, <2>1, <2>2 DEF FirstOfMillisecond, Ahead, Past, Above
  <2> QED
    BY <1>3, <2>1, <2>3, ReturnStep DEF FirstOfMillisecond
<1>4. ASSUME NEW n \in Nodes, SameMillisecond(n)
      PROVE  /\ IInv'
             /\ \A m \in Nodes : lastKey'[m] # lastKey[m] => lastKey'[m] > lastKey[m]
  <2>1. clock[n] \in Nat \ {0} /\ lastTime[n] = clock[n] /\ sequence[n] + 1 \in 0 .. SEQUENCE_MASK
        /\ sequence[n] \in Nat
    BY <1>1, <1>4, NodesAssumption DEF TypeOK, SameMillisecond
  <2>2. \A r \in issued[n] : r[1] \in Nat /\ r[2] \in Nat
    BY <1>1 DEF TypeOK
  <2>3. Above(n, clock[n], sequence[n] + 1)
    BY <1>1, <1>4, <2>1, <2>2 DEF SameMillisecond, Ahead, Above
  <2> QED
    BY <1>4, <2>1, <2>3, ReturnStep DEF SameMillisecond
<1>5. ASSUME NEW n \in Nodes, WaitUntilNextTime(n)
      PROVE  /\ IInv'
             /\ \A m \in Nodes : lastKey'[m] # lastKey[m] => lastKey'[m] > lastKey[m]
  <2>1. clock[n] \in Nat \ {0} /\ lastTime[n] \in Nat /\ 0 \in 0 .. SEQUENCE_MASK
    BY <1>1, NodesAssumption DEF TypeOK
  <2>2. \A r \in issued[n] : r[1] \in Nat /\ r[2] \in Nat
    BY <1>1 DEF TypeOK
  <2>3. Above(n, clock[n], 0)
    BY <1>1, <1>5, <2>1, <2>2 DEF WaitUntilNextTime, Ahead, Above
  <2> QED
    BY <1>5, <2>1, <2>3, ReturnStep DEF WaitUntilNextTime
<1>6. ASSUME NEW n \in Nodes, Overflow(n)
      PROVE  TypeOK' /\ \A m \in Nodes : Ahead(m)'
  <2>1. TypeOK'
    BY <1>1, <1>6, NodesAssumption DEF TypeOK, Overflow
  <2>2. ASSUME NEW m \in Nodes
        PROVE  Ahead(m)'
    <3>1. CASE m = n
      <4>1. lastTime[n] \in Nat \ {0} /\ waiting'[n]
        BY <1>1, <1>6 DEF TypeOK, Overflow
      <4>2. \A r \in issued[n] : r[1] < lastTime[n] \/ r[1] = lastTime[n]
        BY <1>1, <4>1 DEF Ahead
      <4> QED
        BY <1>6, <3>1, <4>1, <4>2 DEF Overflow, Ahead
    <3>2. CASE m # n
      BY <1>1, <1>6, <3>2 DEF TypeOK, Overflow, Ahead, Past
    <3> QED
      BY <3>1, <3>2
  <2> QED
    BY <2>1, <2>2
<1>7. ASSUME NEW n \in Nodes, Tick(n)
      PROVE  TypeOK' /\ \A m \in Nodes : Ahead(m)'
  <2>1. TypeOK'
    BY <1>1, <1>7 DEF TypeOK, Tick
  <2>2. ASSUME NEW m \in Nodes, NEW r \in issued[m], r[1] < clock[m]
        PROVE  r[1] < clock'[m]
    BY <1>1, <1>7, <2>2 DEF TypeOK, Tick
  <2> QED
    BY <1>1, <1>7, <2>1, <2>2 DEF Tick, Ahead, Past
<1>8. ASSUME NEW n \in Nodes, NEW time \in 1 .. (clock[n] - 1), SetBack(n, time)
      PROVE  TypeOK' /\ \A m \in Nodes : Ahead(m)'
  <2>1. TypeOK'
    BY <1>1, <1>8 DEF TypeOK, SetBack
  <2>2. ASSUME NEW m \in Nodes, lastTime[m] = 0
        PROVE  Past(m, clock'[m])
    BY <1>1, <1>8, <2>2 DEF TypeOK, SetBack, Ahead
  <2> QED
    BY <1>1, <1>8, <2>1, <2>2 DEF SetBack, Ahead, Past
<1>9. ASSUME NEW n \in Nodes, Restart(n)
      PROVE  TypeOK' /\ \A m \in Nodes : Ahead(m)'
  <2>1. TypeOK'
    BY <1>1, <1>9, NodesAssumption DEF TypeOK, Restart
  <2>2. ASSUME NEW m \in Nodes
        PROVE  Ahead(m)'
    <3>1. CASE m = n
      BY <1>1, <1>9, <3>1 DEF TypeOK, Restart, Ahead, Past
    <3>2. CASE m # n
      BY <1>1, <1>9, <3>2 DEF TypeOK, Restart, Ahead, Past
    <3> QED
      BY <3>1, <3>2
  <2> QED
    BY <2>1, <2>2
<1>10. ASSUME TypeOK' /\ \A m \in Nodes : Ahead(m)', UNCHANGED <<issued, lastKey, repeated>>
       PROVE  /\ IInv'
              /\ \A m \in Nodes : lastKey'[m] # lastKey[m] => lastKey'[m] > lastKey[m]
  BY <1>10, QuietStep
<1> QED
  BY <1>2, <1>3, <1>4, <1>5, <1>6, <1>7, <1>8, <1>9, <1>10
  DEF Next, generateKey, Overflow, Tick, SetBack, Restart

-----------------------------------------------------------------------------
(* Theorems *)

\* A generator that has returned nothing is ahead of nothing.
LEMMA InitInvariant == Init => IInv
BY NodesAssumption DEF Init, IInv, TypeOK, Ahead, Past, LastKeyIssued, UniqueKeys

\* The inductive invariant always holds.
LEMMA Invariance == Spec => []IInv
<1>1. IInv /\ [Next]_vars => IInv'
  BY NextStep
<1> QED
  BY InitInvariant, <1>1, PTL DEF Spec

\* The variables of the generators keep their types for any number of machines
\* and any size of the fields: the sequence number never leaves its mask.
THEOREM TypeCorrect == Spec => []TypeOK
<1>1. IInv => TypeOK
  BY DEF IInv
<1> QED
  BY Invariance, <1>1, PTL

\* No key is returned twice by any of the machines (generateKey).
THEOREM KeysAreUnique == Spec => []UniqueKeys
<1>1. IInv => UniqueKeys
  BY DEF IInv
<1> QED
  BY Invariance, <1>1, PTL

\* Each machine returns growing keys, across overflows, clocks set back and
\* restarts (generateKey, waitUntilNextTime).
THEOREM KeysAlwaysGrow == Spec => KeysGrow
<1> DEFINE Grows == \A n \in Nodes : lastKey'[n] # lastKey[n] => lastKey'[n] > lastKey[n]
<1>1. IInv /\ [Next]_vars => [Grows]_vars
  BY NextStep
<1>2. Spec => [][Grows]_vars
  BY Invariance, <1>1, PTL DEF Spec
<1> QED
  BY <1>2 DEF KeysGrow
===============================================================================
