------------------------------ MODULE Stomp_proof ------------------------------
(***************************************************************************)
(* Proofs about sequences, which those about the scripts rest on, and that *)
(* the STOMP client handles frames as they were sent (Stomp, as a script   *)
(* of Scripts), for pieces of any size but one and any number of frames.   *)
(*                                                                         *)
(* What is on its way leads from what the receiver has to all that was     *)
(* sent, piece by piece; in both directions, because only from the frames  *)
(* upwards follows that a message's subscription is one of the client's.   *)
(***************************************************************************)
EXTENDS Scripts, FiniteSetTheorems, WellFoundedInduction, TLAPS

-----------------------------------------------------------------------------
(* Sequences *)

LEMMA InsertedAt ==
  ASSUME NEW Elems, NEW s \in Seq(Elems), NEW i \in 1 .. Len(s) + 1, NEW x \in Elems
  PROVE  /\ InsertAt(s, i, x) \in Seq(Elems)
         /\ Len(InsertAt(s, i, x)) = Len(s) + 1
         /\ \A j \in 1 .. Len(s) + 1 :
              InsertAt(s, i, x)[j] = IF j < i THEN s[j] ELSE IF j = i THEN x ELSE s[j - 1]
<1> DEFINE a == SubSeq(s, 1, i - 1)
           b == SubSeq(s, i, Len(s))
<1>1. /\ a \in Seq(Elems) /\ Len(a) = i - 1 /\ \A j \in 1 .. i - 1 : a[j] = s[j]
  OBVIOUS
<1>2. /\ b \in Seq(Elems) /\ Len(b) = Len(s) + 1 - i /\ \A j \in 1 .. Len(s) + 1 - i : b[j] = s[j + i - 1]
  OBVIOUS
<1>3. InsertAt(s, i, x) = a \o <<x>> \o b
  BY DEF InsertAt
<1> HIDE DEF a, b
<1> DEFINE c == a \o <<x>>
<1>4. c \in Seq(Elems) /\ Len(c) = i /\ c[i] = x /\ \A j \in 1 .. i - 1 : c[j] = s[j]
  BY <1>1
<1> HIDE DEF c
<1>5. c \o b \in Seq(Elems) /\ Len(c \o b) = Len(s) + 1
  <2>1. c \in Seq(Elems) /\ b \in Seq(Elems)
    BY <1>2, <1>4
  <2>2. c \o b \in Seq(Elems) /\ Len(c \o b) = Len(c) + Len(b)
    BY ONLY <2>1
  <2> QED
    BY <1>2, <1>4, <2>2
<1>6. ASSUME NEW j \in 1 .. Len(s) + 1
      PROVE (c \o b)[j] = IF j < i THEN s[j] ELSE IF j = i THEN x ELSE s[j - 1]
  <2>1. CASE j <= i
    BY <1>2, <1>4, <2>1
  <2>2. CASE j > i
    <3>1. (c \o b)[j] = b[j - i]
      BY <1>2, <1>4, <2>2
    <3>2. b[j - i] = s[(j - i) + i - 1]
      BY <1>2, <2>2
    <3> QED
      BY <3>1, <3>2, <2>2
  <2>3. j <= i \/ j > i
    OBVIOUS
  <2> QED
    BY <2>1, <2>2, <2>3, Zenon
<1> QED
  BY <1>3, <1>5, <1>6 DEF c

LEMMA RemovedAt ==
  ASSUME NEW Elems, NEW s \in Seq(Elems), NEW i \in 1 .. Len(s)
  PROVE  /\ RemoveAt(s, i) \in Seq(Elems)
         /\ Len(RemoveAt(s, i)) = Len(s) - 1
         /\ \A j \in 1 .. Len(s) - 1 : RemoveAt(s, i)[j] = IF j < i THEN s[j] ELSE s[j + 1]
<1> DEFINE a == SubSeq(s, 1, i - 1)
           b == SubSeq(s, i + 1, Len(s))
<1>1. /\ a \in Seq(Elems) /\ Len(a) = i - 1 /\ \A j \in 1 .. i - 1 : a[j] = s[j]
  OBVIOUS
<1>2. /\ b \in Seq(Elems) /\ Len(b) = Len(s) - i /\ \A j \in 1 .. Len(s) - i : b[j] = s[j + i]
  OBVIOUS
<1>3. RemoveAt(s, i) = a \o b
  BY DEF RemoveAt
<1> HIDE DEF a, b
<1>4. a \o b \in Seq(Elems) /\ Len(a \o b) = Len(s) - 1
  BY <1>1, <1>2
<1>5. ASSUME NEW j \in 1 .. Len(s) - 1 PROVE (a \o b)[j] = IF j < i THEN s[j] ELSE s[j + 1]
  <2>1. CASE j < i
    BY <1>1, <1>2, <2>1
  <2>2. CASE j >= i
    <3>1. (a \o b)[j] = b[j - (i - 1)]
      BY <1>1, <1>2, <2>2
    <3>2. b[j - (i - 1)] = s[(j - (i - 1)) + i]
      BY <1>2, <2>2
    <3> QED
      BY <3>1, <3>2, <2>2
  <2>3. j < i \/ j >= i
    OBVIOUS
  <2> QED
    BY <2>1, <2>2, <2>3, Zenon
<1> QED
  BY <1>3, <1>4, <1>5

\* Every set of natural numbers has a least one.
LEMMA LeastNumber ==
  ASSUME NEW Numbers \in SUBSET Nat, Numbers # {}
  PROVE  \E x \in Numbers : \A y \in Numbers : x <= y
<1> DEFINE Lower == {ss \in Nat \X Nat : ss[1] < ss[2]}
<1>1. IsWellFoundedOn(Lower, Nat)
  BY NatLessThanWellFounded DEF OpToRel
<1> HIDE DEF Lower
<1>2. PICK x \in Numbers : \A y \in Numbers : ~ (<<y, x>> \in Lower)
  BY <1>1, WFMin
<1>3. \A y \in Numbers : ~(y < x)
  BY <1>2 DEF Lower
<1> QED
  BY <1>3

Distinct(s) == \A i, j \in 1 .. Len(s) : s[i] = s[j] => i = j

LEMMA SeqDomain ==
  ASSUME NEW Elems, NEW s \in Seq(Elems)
  PROVE  DOMAIN s = 1 .. Len(s) /\ Len(s) \in Nat
OBVIOUS

LEMMA ElementOf ==
  ASSUME NEW Elems, NEW s \in Seq(Elems), NEW i \in 1 .. Len(s)
  PROVE  s[i] \in Elems
OBVIOUS

LEMMA FunctionIsSeq ==
  ASSUME NEW n \in Nat, NEW Elems, NEW f \in [1 .. n -> Elems]
  PROVE  f \in Seq(Elems) /\ Len(f) = n
OBVIOUS

LEMMA WiderSeq ==
  ASSUME NEW Elems, NEW More, Elems \subseteq More, NEW s \in Seq(Elems)
  PROVE  s \in Seq(More)
OBVIOUS

LEMMA InRange ==
  ASSUME NEW Elems, NEW s \in Seq(Elems), NEW x
  PROVE  /\ x \in Range(s) <=> \E i \in 1 .. Len(s) : s[i] = x
         /\ x \in Range(s) <=> Contains(s, x)
<1>1. Range(s) = {s[i] : i \in 1 .. Len(s)}
  BY SeqDomain DEF Range
<1>2. x \in Range(s) <=> \E i \in 1 .. Len(s) : s[i] = x
  BY <1>1
<1> QED
  BY <1>2 DEF Contains

LEMMA Appended ==
  ASSUME NEW Elems, NEW s \in Seq(Elems), NEW x \in Elems
  PROVE  /\ Append(s, x) \in Seq(Elems) /\ Len(Append(s, x)) = Len(s) + 1
         /\ Append(s, x)[Len(s) + 1] = x /\ \A i \in 1 .. Len(s) : Append(s, x)[i] = s[i]
OBVIOUS

\* k is the place of the first x.
FirstAt(s, k, x) == k \in 1 .. Len(s) /\ s[k] = x /\ \A i \in 1 .. k - 1 : s[i] # x

LEMMA FirstPlace ==
  ASSUME NEW Elems, NEW s \in Seq(Elems), NEW x, Contains(s, x)
  PROVE  \E k : FirstAt(s, k, x)
<1> DEFINE I == {i \in 1 .. Len(s) : s[i] = x}
<1>1. I \in SUBSET Nat /\ I # {}
  BY DEF Contains
<1>2. \A i : i \in I <=> i \in 1 .. Len(s) /\ s[i] = x
  OBVIOUS
<1> HIDE DEF I
<1>3. PICK k \in I : \A y \in I : k <= y
  BY <1>1, LeastNumber
<1> QED
  BY <1>2, <1>3 DEF FirstAt

LEMMA FirstSelected ==
  ASSUME NEW Elems, NEW s \in Seq(Elems), NEW x, NEW k, FirstAt(s, k, x)
  PROVE  SelectInSeq(s, LAMBDA v : v = x) = k /\ RemoveFirst(s, x) = RemoveAt(s, k)
<1> DEFINE I == {i \in 1 .. Len(s) : s[i] = x}
<1>1. k \in I /\ I \in SUBSET Nat /\ \A y \in I : k <= y
  BY DEF FirstAt
<1>2. SelectInSeq(s, LAMBDA v : v = x) = Min(I)
  BY <1>1 DEF SelectInSeq
<1>3. \A y \in I : (\A z \in I : y <= z) => y = k
  BY <1>1
<1>4. Min(I) = k
  <2> HIDE DEF I
  <2> QED
    BY <1>1, <1>3 DEF Min
<1>5. \E i \in 1 .. Len(s) : s[i] = x
  BY DEF FirstAt
<1> QED
  BY <1>2, <1>4, <1>5 DEF RemoveFirst

LEMMA FirstRemoved ==
  ASSUME NEW Elems, NEW s \in Seq(Elems), NEW x
  PROVE  RemoveFirst(s, x) \in Seq(Elems)
<1>1. CASE Contains(s, x)
  <2>1. PICK k : FirstAt(s, k, x)
    BY <1>1, FirstPlace
  <2>2. RemoveFirst(s, x) = RemoveAt(s, k) /\ k \in 1 .. Len(s)
    BY <2>1, FirstSelected DEF FirstAt
  <2> QED
    BY <2>2, RemovedAt
<1>2. CASE ~Contains(s, x)
  BY <1>2 DEF RemoveFirst, Contains
<1> QED
  BY <1>1, <1>2

-----------------------------------------------------------------------------
(* Sequences: how often they have an element, and sets of their places in order *)

Places(s, X) == {i \in 1 .. Len(s) : s[i] \in X}

Many(s, X) == Cardinality(Places(s, X))

LEMMA PlacesFinite ==
  ASSUME NEW Elems, NEW s \in Seq(Elems), NEW X
  PROVE  IsFiniteSet(Places(s, X)) /\ Many(s, X) \in Nat
<1>1. IsFiniteSet(1 .. Len(s))
  BY FS_Interval
<1>2. Places(s, X) \in SUBSET (1 .. Len(s))
  BY DEF Places
<1>3. IsFiniteSet(Places(s, X))
  BY <1>1, <1>2, FS_Subset
<1> QED
  BY <1>3, FS_CardinalityType DEF Many

LEMMA ManyAppended ==
  ASSUME NEW Elems, NEW s \in Seq(Elems), NEW x \in Elems, NEW X
  PROVE  Many(Append(s, x), X) = Many(s, X) + IF x \in X THEN 1 ELSE 0
<1> DEFINE t == Append(s, x)
           n == Len(s) + 1
<1>1. t \in Seq(Elems) /\ Len(t) = n /\ t[n] = x /\ \A i \in 1 .. Len(s) : t[i] = s[i]
  OBVIOUS
<1>2. IsFiniteSet(Places(s, X)) /\ Many(s, X) \in Nat
  BY PlacesFinite
<1>3. n \in Nat /\ n \notin Places(s, X)
  BY DEF Places
<1> HIDE DEF t
<1>4. CASE x \in X
  <2>1. Places(t, X) = Places(s, X) \union {n}
    BY <1>1, <1>4 DEF Places
  <2>2. Many(t, X) = Many(s, X) + 1
    BY <1>2, <1>3, <2>1, FS_AddElement DEF Many
  <2> QED
    BY <1>4, <2>2 DEF t
<1>5. CASE x \notin X
  <2>1. Places(t, X) = Places(s, X)
    BY <1>1, <1>5 DEF Places
  <2> QED
    BY <1>2, <1>5, <2>1 DEF Many, t
<1> QED
  BY <1>4, <1>5

LEMMA ManyRemoved ==
  ASSUME NEW Elems, NEW s \in Seq(Elems), NEW k \in 1 .. Len(s), NEW X
  PROVE  Many(RemoveAt(s, k), X) = Many(s, X) - IF s[k] \in X THEN 1 ELSE 0
<1> DEFINE t == RemoveAt(s, k)
           was == Places(s, X) \ {k}
           is == Places(t, X)
           f == [j \in is |-> IF j < k THEN j ELSE j + 1]
<1>1. t \in Seq(Elems) /\ Len(t) = Len(s) - 1 /\ \A j \in 1 .. Len(s) - 1 : t[j] = IF j < k THEN s[j] ELSE s[j + 1]
  BY RemovedAt
<1> HIDE DEF t
<1>2. IsFiniteSet(is) /\ IsFiniteSet(Places(s, X)) /\ Many(s, X) \in Nat
  BY <1>1, PlacesFinite
<1>3. \A j : j \in is <=> j \in 1 .. Len(s) - 1 /\ t[j] \in X
  BY <1>1 DEF Places
<1>4. \A i : i \in was <=> i \in 1 .. Len(s) /\ s[i] \in X /\ i # k
  BY DEF Places
<1> HIDE DEF is, was
<1>5. f \in Injection(is, was)
  <2>1. ASSUME NEW j \in is PROVE (IF j < k THEN j ELSE j + 1) \in was
    <3>1. j \in 1 .. Len(s) - 1 /\ t[j] \in X
      BY <1>3
    <3>2. CASE j < k
      <4>1. t[j] = s[j] /\ j \in 1 .. Len(s) /\ j # k
        BY <1>1, <3>1, <3>2
      <4> QED
        BY <1>4, <3>1, <3>2, <4>1
    <3>3. CASE ~(j < k)
      <4>1. t[j] = s[j + 1] /\ j + 1 \in 1 .. Len(s) /\ j + 1 # k
        BY <1>1, <3>1, <3>3
      <4> QED
        BY <1>4, <3>1, <3>3, <4>1
    <3> QED
      BY <3>2, <3>3
  <2>2. f \in [is -> was]
    BY <2>1
  <2>3. \A i, j \in is : f[i] = f[j] => i = j
    BY <1>3
  <2> QED
    BY <2>2, <2>3 DEF Injection, IsInjective
<1>6. f \in Surjection(is, was)
  <2>1. ASSUME NEW i \in was PROVE \E j \in is : f[j] = i
    <3>1. CASE i < k
      BY <1>1, <1>3, <1>4, <3>1
    <3>2. CASE i > k
      <4>1. i - 1 \in 1 .. Len(s) - 1 /\ ~(i - 1 < k)
        BY <1>4, <3>2
      <4>2. t[i - 1] = s[(i - 1) + 1] /\ (i - 1) + 1 = i
        BY <1>1, <1>4, <4>1
      <4>3. i - 1 \in is
        BY <1>3, <1>4, <4>1, <4>2
      <4>4. f[i - 1] = i
        BY <1>4, <4>1, <4>3
      <4> QED
        BY <4>3, <4>4
    <3> QED
      BY <1>4, <3>1, <3>2
  <2> QED
    BY <1>5, <2>1 DEF Injection, Surjection
<1>7. ExistsBijection(is, was)
  BY <1>5, <1>6 DEF ExistsBijection, Bijection
<1>8. Cardinality(was) = Cardinality(is)
  BY <1>2, <1>7, FS_Bijection
<1>9. Cardinality(was) = IF k \in Places(s, X) THEN Many(s, X) - 1 ELSE Many(s, X)
  BY <1>2, FS_RemoveElement DEF was, Many
<1>10. k \in Places(s, X) <=> s[k] \in X
  BY DEF Places
<1> QED
  BY <1>2, <1>8, <1>9, <1>10 DEF Many, is, t

\* Of the elements of a singleton and of the empty sequence.
LEMMA ManyOfNone ==
  ASSUME NEW X, NEW x, x \notin X
  PROVE  Many(<<>>, X) = 0 /\ Many(<<x>>, X) = 0
<1>1. Places(<<>>, X) = {}
  BY DEF Places
<1>2. Places(<<x>>, X) = {}
  <2>1. Len(<<x>>) = 1 /\ <<x>>[1] = x
    OBVIOUS
  <2> QED
    BY <2>1 DEF Places
<1> QED
  BY <1>1, <1>2, FS_EmptySet DEF Many

Increasing(s) == \A k, l \in DOMAIN s : k < l => s[k] < s[l]

LEMMA SomeIndices ==
  ASSUME NEW n \in Nat, NEW I \in SUBSET (1 .. n)
  PROVE  IsFiniteSet(I) /\ Cardinality(I) \in Nat
<1>1. IsFiniteSet(1 .. n)
  BY FS_Interval
<1>2. IsFiniteSet(I)
  BY <1>1, FS_Subset
<1> QED
  BY <1>2, FS_CardinalityType

\* Indices can be put in order.
LEMMA OrderExists ==
  ASSUME NEW n \in Nat, NEW I \in SUBSET (1 .. n)
  PROVE  \E s \in [1 .. Cardinality(I) -> I] : Increasing(s)
<1> DEFINE Orders(J) == {s \in [1 .. Cardinality(J) -> J] : Increasing(s)}
           Bad == {m \in Nat : \E J \in SUBSET (1 .. m) : Orders(J) = {}}
<1>1. SUFFICES ASSUME Bad # {} PROVE FALSE
  OBVIOUS
<1>2. PICK m \in Bad : \A y \in Bad : m <= y
  BY <1>1, LeastNumber
<1>3. PICK J \in SUBSET (1 .. m) : Orders(J) = {}
  BY <1>2
<1>4. m \in Nat /\ \A y \in Nat : y < m => y \notin Bad
  <2>1. Bad \subseteq Nat
    OBVIOUS
  <2> HIDE DEF Bad
  <2> QED
    BY <1>2, <2>1
<1>5. IsFiniteSet(J) /\ Cardinality(J) \in Nat
  BY <1>4, SomeIndices
<1>6. CASE m \notin J \/ m = 0
  <2>1. CASE m = 0
    <3>1. J = {}
      BY <2>1
    <3>2. Cardinality(J) = 0
      BY <3>1, FS_EmptySet
    <3>3. [i \in 1 .. 0 |-> 0] \in Orders(J)
      BY <3>1, <3>2 DEF Increasing
    <3> QED
      BY <1>3, <3>3
  <2>2. CASE m # 0 /\ m \notin J
    <3>1. J \in SUBSET (1 .. (m - 1)) /\ m - 1 \in Nat
      BY <1>4, <2>2
    <3>2. m - 1 \in Bad
      BY <1>3, <3>1
    <3>3. m - 1 < m
      BY <1>4
    <3> QED
      BY <1>4, <3>1, <3>2, <3>3
  <2> QED
    BY <1>6, <2>1, <2>2
<1>7. CASE m \in J /\ m # 0
  <2> DEFINE K == J \ {m}
             c == Cardinality(K)
  <2>1. K \in SUBSET (1 .. (m - 1)) /\ m - 1 \in Nat
    BY <1>4, <1>7
  <2>2. m - 1 \notin Bad
    <3>1. m - 1 < m
      BY <1>4
    <3> HIDE DEF Bad
    <3> QED
      BY <1>4, <2>1, <3>1
  <2>3. Orders(K) # {}
    BY <2>1, <2>2
  <2>4. PICK s \in [1 .. c -> K] : Increasing(s)
    BY <2>3
  <2>5. c \in Nat /\ Cardinality(J) = c + 1
    <3>1. c \in Nat
      BY <2>1, SomeIndices
    <3>2. c = Cardinality(J) - 1
      BY <1>5, <1>7, FS_RemoveElement
    <3> QED
      BY <1>5, <3>1, <3>2
  <2> HIDE DEF c
  <2> DEFINE t == [i \in 1 .. c + 1 |-> IF i = c + 1 THEN m ELSE s[i]]
  <2>6. t \in [1 .. c + 1 -> J]
    BY <1>7, <2>4, <2>5
  <2>7. ASSUME NEW k \in 1 .. c + 1, NEW l \in 1 .. c + 1, k < l PROVE t[k] < t[l]
    <3>1. k \in 1 .. c /\ s[k] \in K
      BY <2>4, <2>5, <2>7
    <3>2. s[k] \in 1 .. m - 1
      BY <2>1, <3>1
    <3>3. CASE l = c + 1
      BY <1>4, <2>5, <3>1, <3>2, <3>3
    <3>4. CASE l # c + 1
      BY <2>4, <2>5, <2>7, <3>1, <3>4 DEF Increasing
    <3> QED
      BY <3>3, <3>4
  <2>8. t \in Orders(J)
    BY <2>5, <2>6, <2>7 DEF Increasing
  <2> QED
    BY <1>3, <2>8
<1> QED
  BY <1>6, <1>7

\* An order has every index once.
LEMMA OrderComplete ==
  ASSUME NEW n \in Nat, NEW I \in SUBSET (1 .. n),
         NEW s \in [1 .. Cardinality(I) -> I], Increasing(s)
  PROVE  s \in Bijection(1 .. Cardinality(I), I) /\ Cardinality(I) \in Nat
<1> DEFINE c == Cardinality(I)
<1>1. IsFiniteSet(I) /\ c \in Nat
  BY SomeIndices
<1> HIDE DEF c
<1>2. s \in [1 .. c -> I]
  BY DEF c
<1>3. \A k, l \in 1 .. c : s[k] = s[l] => k = l
  <2>1. ASSUME NEW k \in 1 .. c, NEW l \in 1 .. c, k < l PROVE s[k] # s[l]
    <3>1. s[k] < s[l] /\ s[k] \in 1 .. n /\ s[l] \in 1 .. n
      BY <1>2, <2>1 DEF Increasing
    <3> QED
      BY <3>1
  <2>2. \A k, l \in 1 .. c : k # l => k < l \/ l < k
    BY <1>1
  <2> QED
    BY <2>1, <2>2
<1>4. s \in Injection(1 .. c, I)
  BY <1>2, <1>3 DEF Injection, IsInjective
<1>5. Cardinality(1 .. c) = c
  BY <1>1, FS_Interval
<1>6. s \in Surjection(1 .. c, I)
  BY <1>1, <1>4, <1>5, FS_Injection DEF c
<1> QED
  BY <1>1, <1>4, <1>6 DEF Bijection, c

-----------------------------------------------------------------------------
(* Sequences: an element put in, and taken away again *)

LEMMA SameSeq ==
  ASSUME NEW Elems, NEW s \in Seq(Elems), NEW t \in Seq(Elems), Len(s) = Len(t),
         \A i \in 1 .. Len(s) : s[i] = t[i]
  PROVE  s = t
OBVIOUS

LEMMA NotRemoved ==
  ASSUME NEW s, NEW x, ~Contains(s, x)
  PROVE  RemoveFirst(s, x) = s
BY DEF RemoveFirst, Contains

LEMMA InsertedContains ==
  ASSUME NEW Elems, NEW s \in Seq(Elems), NEW i \in 1 .. Len(s) + 1, NEW x \in Elems, NEW y
  PROVE  Contains(InsertAt(s, i, x), y) <=> y = x \/ Contains(s, y)
<1> DEFINE t == InsertAt(s, i, x)
<1>1. /\ Len(t) = Len(s) + 1
      /\ \A j \in 1 .. Len(s) + 1 : t[j] = IF j < i THEN s[j] ELSE IF j = i THEN x ELSE s[j - 1]
  BY InsertedAt
<1>2. Len(s) \in Nat
  BY SeqDomain
<1> HIDE DEF t
<1>3. ASSUME NEW j \in 1 .. Len(t), t[j] = y PROVE y = x \/ \E k \in 1 .. Len(s) : s[k] = y
  <2>1. CASE j < i
    BY <1>1, <1>2, <1>3, <2>1
  <2>2. CASE j = i
    BY <1>1, <1>2, <1>3, <2>2
  <2>3. CASE j > i
    <3>1. t[j] = s[j - 1] /\ j - 1 \in 1 .. Len(s)
      BY <1>1, <1>2, <2>3
    <3> QED
      BY <1>3, <3>1
  <2> QED
    BY <1>1, <1>2, <2>1, <2>2, <2>3
<1>4. t[i] = x /\ i \in 1 .. Len(t)
  BY <1>1, <1>2
<1>5. ASSUME NEW k \in 1 .. Len(s) PROVE \E j \in 1 .. Len(t) : t[j] = s[k]
  <2>1. CASE k < i
    <3>1. t[k] = s[k] /\ k \in 1 .. Len(t)
      BY <1>1, <1>2, <2>1
    <3> QED
      BY <3>1
  <2>2. CASE k >= i
    <3>1. k + 1 \in 1 .. Len(t) /\ ~(k + 1 < i) /\ k + 1 # i /\ (k + 1) - 1 = k
      BY <1>1, <1>2, <2>2
    <3>2. t[k + 1] = s[(k + 1) - 1]
      BY <1>1, <3>1
    <3> QED
      BY <3>1, <3>2
  <2> QED
    BY <1>2, <2>1, <2>2
<1> QED
  BY <1>3, <1>4, <1>5 DEF Contains, t

LEMMA InsertedDistinct ==
  ASSUME NEW Elems, NEW s \in Seq(Elems), NEW i \in 1 .. Len(s) + 1, NEW x \in Elems,
         Distinct(s), ~Contains(s, x)
  PROVE  Distinct(InsertAt(s, i, x))
<1> DEFINE t == InsertAt(s, i, x)
<1>1. /\ Len(t) = Len(s) + 1
      /\ \A j \in 1 .. Len(s) + 1 : t[j] = IF j < i THEN s[j] ELSE IF j = i THEN x ELSE s[j - 1]
  BY InsertedAt
<1>2. Len(s) \in Nat
  BY SeqDomain
<1> HIDE DEF t
<1>3. ASSUME NEW j \in 1 .. Len(t), NEW k \in 1 .. Len(t), j < k PROVE t[j] # t[k]
  <2>1. \A a, b \in 1 .. Len(s) : s[a] = s[b] => a = b
    BY DEF Distinct
  <2>2. \A a \in 1 .. Len(s) : s[a] # x
    BY DEF Contains
  <2>3. CASE k < i
    BY <1>1, <1>2, <1>3, <2>1, <2>3
  <2>4. CASE k = i
    BY <1>1, <1>2, <1>3, <2>2, <2>4
  <2>5. CASE k > i
    <3>1. t[k] = s[k - 1] /\ k - 1 \in 1 .. Len(s)
      BY <1>1, <1>2, <2>5
    <3>2. CASE j < i
      <4>1. t[j] = s[j] /\ j \in 1 .. Len(s) /\ j # k - 1
        BY <1>1, <1>2, <2>5, <3>2
      <4> QED
        BY <2>1, <3>1, <4>1
    <3>3. CASE j = i
      BY <1>1, <1>2, <2>2, <3>1, <3>3
    <3>4. CASE j > i
      <4>1. t[j] = s[j - 1] /\ j - 1 \in 1 .. Len(s) /\ j - 1 # k - 1
        BY <1>1, <1>2, <1>3, <3>4
      <4> QED
        BY <2>1, <3>1, <4>1
    <3> QED
      BY <1>2, <3>2, <3>3, <3>4
  <2> QED
    BY <1>1, <1>2, <2>3, <2>4, <2>5
<1>4. \A j, k \in 1 .. Len(t) : j # k => j < k \/ k < j
  BY <1>1, <1>2
<1> QED
  BY <1>3, <1>4 DEF Distinct, t

LEMMA InsertedRemoved ==
  ASSUME NEW Elems, NEW s \in Seq(Elems), NEW i \in 1 .. Len(s) + 1, NEW x \in Elems,
         ~Contains(s, x)
  PROVE  RemoveFirst(InsertAt(s, i, x), x) = s
<1> DEFINE t == InsertAt(s, i, x)
           r == RemoveAt(t, i)
<1>1. /\ t \in Seq(Elems) /\ Len(t) = Len(s) + 1
      /\ \A j \in 1 .. Len(s) + 1 : t[j] = IF j < i THEN s[j] ELSE IF j = i THEN x ELSE s[j - 1]
  BY InsertedAt
<1>2. Len(s) \in Nat
  BY SeqDomain
<1> HIDE DEF t
<1>3. FirstAt(t, i, x)
  BY <1>1, <1>2 DEF FirstAt, Contains
<1>4. RemoveFirst(t, x) = r
  BY <1>1, <1>3, FirstSelected
<1>5. r \in Seq(Elems) /\ Len(r) = Len(t) - 1 /\ \A j \in 1 .. Len(t) - 1 : r[j] = IF j < i THEN t[j] ELSE t[j + 1]
  BY <1>1, <1>3, RemovedAt DEF FirstAt
<1> HIDE DEF r
<1>6. ASSUME NEW j \in 1 .. Len(r) PROVE r[j] = s[j]
  <2>1. CASE j < i
    BY <1>1, <1>2, <1>5, <2>1
  <2>2. CASE j >= i
    <3>1. j + 1 \in 1 .. Len(s) + 1 /\ ~(j + 1 < i) /\ j + 1 # i /\ (j + 1) - 1 = j /\ j \in 1 .. Len(t) - 1
      BY <1>1, <1>2, <1>5, <2>2
    <3>2. r[j] = t[j + 1]
      BY <1>5, <2>2, <3>1
    <3>3. t[j + 1] = s[(j + 1) - 1]
      BY <1>1, <3>1
    <3> QED
      BY <3>1, <3>2, <3>3
  <2> QED
    BY <1>2, <1>5, <1>1, <2>1, <2>2
<1>7. Len(r) = Len(s)
  BY <1>1, <1>2, <1>5
<1> QED
  BY <1>4, <1>5, <1>6, <1>7, SameSeq DEF t

LEMMA AppendedInserted ==
  ASSUME NEW Elems, NEW s \in Seq(Elems), NEW x \in Elems
  PROVE  Append(s, x) = InsertAt(s, Len(s) + 1, x)
<1> DEFINE t == InsertAt(s, Len(s) + 1, x)
           a == Append(s, x)
<1>1. Len(s) \in Nat /\ Len(s) + 1 \in 1 .. Len(s) + 1
  BY SeqDomain
<1>2. /\ t \in Seq(Elems) /\ Len(t) = Len(s) + 1
      /\ \A j \in 1 .. Len(s) + 1 : t[j] = IF j < Len(s) + 1 THEN s[j] ELSE IF j = Len(s) + 1 THEN x ELSE s[j - 1]
  BY <1>1, InsertedAt
<1>3. a \in Seq(Elems) /\ Len(a) = Len(s) + 1 /\ a[Len(s) + 1] = x /\ \A i \in 1 .. Len(s) : a[i] = s[i]
  OBVIOUS
<1> HIDE DEF a, t
<1>4. \A j \in 1 .. Len(a) : a[j] = t[j]
  BY <1>1, <1>2, <1>3
<1>5. a = t
  BY <1>2, <1>3, <1>4, SameSeq
<1> QED
  BY <1>5 DEF a, t

LEMMA RemovedContains ==
  ASSUME NEW Elems, NEW s \in Seq(Elems), NEW x, Distinct(s)
  PROVE  /\ Distinct(RemoveFirst(s, x))
         /\ \A y : Contains(RemoveFirst(s, x), y) <=> Contains(s, y) /\ y # x
<1>1. CASE ~Contains(s, x)
  BY <1>1, NotRemoved
<1>2. CASE Contains(s, x)
  <2>1. PICK k : FirstAt(s, k, x)
    BY <1>2, FirstPlace
  <2> DEFINE t == RemoveAt(s, k)
  <2>2. RemoveFirst(s, x) = t /\ k \in 1 .. Len(s) /\ s[k] = x
    BY <2>1, FirstSelected DEF FirstAt
  <2>3. Len(t) = Len(s) - 1 /\ \A j \in 1 .. Len(s) - 1 : t[j] = IF j < k THEN s[j] ELSE s[j + 1]
    BY <2>2, RemovedAt
  <2> HIDE DEF t
  <2>4. Len(s) \in Nat /\ \A a, b \in 1 .. Len(s) : s[a] = s[b] => a = b
    BY SeqDomain DEF Distinct
  <2>5. ASSUME NEW j \in 1 .. Len(t)
        PROVE  \E a \in 1 .. Len(s) : t[j] = s[a] /\ a # k /\ a = IF j < k THEN j ELSE j + 1
    <3>1. CASE j < k
      BY <2>2, <2>3, <2>4, <3>1
    <3>2. CASE ~(j < k)
      <4>1. j + 1 \in 1 .. Len(s) /\ j + 1 # k /\ t[j] = s[j + 1]
        BY <2>2, <2>3, <2>4, <3>2
      <4> QED
        BY <3>2, <4>1
    <3> QED
      BY <3>1, <3>2
  <2>6. ASSUME NEW a \in 1 .. Len(s), a # k PROVE \E j \in 1 .. Len(t) : t[j] = s[a]
    <3>1. CASE a < k
      BY <2>2, <2>3, <2>4, <3>1
    <3>2. CASE a > k
      <4>1. a - 1 \in 1 .. Len(s) - 1 /\ ~(a - 1 < k) /\ (a - 1) + 1 = a
        BY <2>2, <2>4, <3>2
      <4>2. t[a - 1] = s[(a - 1) + 1]
        BY <2>3, <4>1
      <4> QED
        BY <2>3, <4>1, <4>2
    <3> QED
      BY <2>2, <2>4, <2>6, <3>1, <3>2
  <2>7. ASSUME NEW i \in 1 .. Len(t), NEW j \in 1 .. Len(t), t[i] = t[j] PROVE i = j
    <3>1. PICK a \in 1 .. Len(s) : t[i] = s[a] /\ a = IF i < k THEN i ELSE i + 1
      BY <2>5
    <3>2. PICK b \in 1 .. Len(s) : t[j] = s[b] /\ b = IF j < k THEN j ELSE j + 1
      BY <2>5
    <3>3. a = b
      BY <2>4, <2>7, <3>1, <3>2
    <3> QED
      BY <2>2, <2>3, <2>4, <3>1, <3>2, <3>3
  <2>8. ASSUME NEW y PROVE Contains(t, y) <=> Contains(s, y) /\ y # x
    <3>1. ASSUME NEW j \in 1 .. Len(t), t[j] = y PROVE Contains(s, y) /\ y # x
      <4>1. PICK a \in 1 .. Len(s) : t[j] = s[a] /\ a # k
        BY <2>5
      <4> QED
        BY <2>2, <2>4, <3>1, <4>1 DEF Contains
    <3>2. ASSUME NEW a \in 1 .. Len(s), s[a] = y, y # x PROVE Contains(t, y)
      <4>1. a # k
        BY <2>2, <3>2
      <4>2. PICK j \in 1 .. Len(t) : t[j] = s[a]
        BY <2>6, <4>1
      <4> QED
        BY <3>2, <4>2 DEF Contains
    <3> QED
      BY <3>1, <3>2 DEF Contains
  <2> QED
    BY <2>2, <2>7, <2>8 DEF Distinct
<1> QED
  BY <1>1, <1>2

\* Where x is before y.
LEMMA RemovedInTurn ==
  ASSUME NEW Elems, NEW s \in Seq(Elems), NEW x, NEW y, NEW k, NEW l,
         FirstAt(s, k, x), FirstAt(s, l, y), k < l
  PROVE  RemoveFirst(RemoveFirst(s, x), y) = RemoveFirst(RemoveFirst(s, y), x)
<1> DEFINE a == RemoveAt(s, k)
           b == RemoveAt(s, l)
           c == RemoveAt(a, l - 1)
           d == RemoveAt(b, k)
<1>1. k \in 1 .. Len(s) /\ l \in 1 .. Len(s) /\ Len(s) \in Nat
  BY SeqDomain DEF FirstAt
<1>2. RemoveFirst(s, x) = a /\ RemoveFirst(s, y) = b
  BY FirstSelected
<1>3. a \in Seq(Elems) /\ Len(a) = Len(s) - 1 /\ \A j \in 1 .. Len(s) - 1 : a[j] = IF j < k THEN s[j] ELSE s[j + 1]
  BY <1>1, RemovedAt
<1>4. b \in Seq(Elems) /\ Len(b) = Len(s) - 1 /\ \A j \in 1 .. Len(s) - 1 : b[j] = IF j < l THEN s[j] ELSE s[j + 1]
  BY <1>1, RemovedAt
<1> HIDE DEF a, b
<1>5. FirstAt(a, l - 1, y)
  <2>1. l - 1 \in 1 .. Len(s) - 1 /\ ~(l - 1 < k) /\ (l - 1) + 1 = l
    BY <1>1
  <2>2. a[l - 1] = s[(l - 1) + 1]
    BY <1>3, <2>1
  <2>3. ASSUME NEW j \in 1 .. (l - 1) - 1 PROVE a[j] # y
    <3>1. j \in 1 .. l - 1 /\ j + 1 \in 1 .. l - 1 /\ j \in 1 .. Len(s) - 1
      BY <1>1
    <3>2. s[j] # y /\ s[j + 1] # y
      BY <3>1 DEF FirstAt
    <3> QED
      BY <1>3, <3>1, <3>2
  <2> QED
    BY <1>3, <2>1, <2>2, <2>3 DEF FirstAt
<1>6. FirstAt(b, k, x)
  <2>1. k \in 1 .. Len(s) - 1
    BY <1>1
  <2>2. \A j \in 1 .. k : j \in 1 .. Len(s) - 1 /\ j < l
    BY <1>1
  <2> QED
    BY <1>1, <1>4, <2>1, <2>2 DEF FirstAt
<1>7. RemoveFirst(a, y) = c /\ RemoveFirst(b, x) = d
  BY <1>3, <1>4, <1>5, <1>6, FirstSelected
<1>8. l - 1 \in 1 .. Len(a) /\ k \in 1 .. Len(b)
  BY <1>5, <1>6 DEF FirstAt
<1>9. c \in Seq(Elems) /\ Len(c) = Len(a) - 1 /\ \A j \in 1 .. Len(a) - 1 : c[j] = IF j < l - 1 THEN a[j] ELSE a[j + 1]
  BY <1>3, <1>8, RemovedAt
<1>10. d \in Seq(Elems) /\ Len(d) = Len(b) - 1 /\ \A j \in 1 .. Len(b) - 1 : d[j] = IF j < k THEN b[j] ELSE b[j + 1]
  BY <1>4, <1>8, RemovedAt
<1> HIDE DEF c, d
<1>11. ASSUME NEW j \in 1 .. Len(s) - 2 PROVE c[j] = d[j]
  <2>1. j \in 1 .. Len(s) - 1 /\ j + 1 \in 1 .. Len(s) - 1 /\ j \in 1 .. Len(a) - 1 /\ j \in 1 .. Len(b) - 1
    BY <1>1, <1>3, <1>4
  <2>2. CASE j < k
    BY <1>1, <1>3, <1>4, <1>9, <1>10, <2>1, <2>2
  <2>3. CASE j >= k /\ j < l - 1
    <3>1. c[j] = a[j] /\ a[j] = s[j + 1]
      <4>1. c[j] = a[j]
        BY <1>9, <2>1, <2>3
      <4>2. ~(j < k)
        BY <1>1, <2>3
      <4> QED
        BY <1>3, <2>1, <4>1, <4>2
    <3>2. d[j] = b[j + 1] /\ b[j + 1] = s[j + 1]
      <4>1. d[j] = b[j + 1]
        BY <1>1, <1>10, <2>1, <2>3
      <4>2. j + 1 < l
        BY <1>1, <2>3
      <4> QED
        BY <1>4, <2>1, <4>1, <4>2
    <3> QED
      BY <3>1, <3>2
  <2>4. CASE j >= l - 1
    <3>1. ~(j < k) /\ ~(j + 1 < k) /\ ~(j + 1 < l)
      BY <1>1, <2>4
    <3>2. c[j] = a[j + 1] /\ d[j] = b[j + 1]
      BY <1>1, <1>9, <1>10, <2>1, <2>4, <3>1
    <3>3. a[j + 1] = s[(j + 1) + 1] /\ b[j + 1] = s[(j + 1) + 1]
      BY <1>3, <1>4, <2>1, <3>1
    <3> QED
      BY <3>2, <3>3
  <2> QED
    BY <1>1, <2>2, <2>3, <2>4
<1>12. Len(c) = Len(s) - 2 /\ Len(d) = Len(s) - 2
  BY <1>1, <1>3, <1>4, <1>9, <1>10
<1>13. c = d
  BY <1>9, <1>10, <1>11, <1>12, SameSeq
<1> QED
  BY <1>2, <1>7, <1>13

LEMMA RemovesCommute ==
  ASSUME NEW Elems, NEW s \in Seq(Elems), NEW x, NEW y, Distinct(s)
  PROVE  RemoveFirst(RemoveFirst(s, x), y) = RemoveFirst(RemoveFirst(s, y), x)
<1>1. CASE x = y
  BY <1>1
<1>2. CASE ~Contains(s, x) \/ ~Contains(s, y)
  <2>1. \A z, w : ~Contains(s, z) => RemoveFirst(s, z) = s /\ RemoveFirst(RemoveFirst(s, w), z) = RemoveFirst(s, w)
    BY RemovedContains, NotRemoved
  <2> QED
    BY <1>2, <2>1
<1>3. CASE x # y /\ Contains(s, x) /\ Contains(s, y)
  <2>1. PICK k : FirstAt(s, k, x)
    BY <1>3, FirstPlace
  <2>2. PICK l : FirstAt(s, l, y)
    BY <1>3, FirstPlace
  <2>3. k \in Int /\ l \in Int /\ k # l
    BY <1>3, <2>1, <2>2 DEF FirstAt
  <2>4. CASE k < l
    BY <2>1, <2>2, <2>4, RemovedInTurn
  <2>5. CASE l < k
    <3>1. RemoveFirst(RemoveFirst(s, y), x) = RemoveFirst(RemoveFirst(s, x), y)
      BY <2>1, <2>2, <2>5, RemovedInTurn
    <3> QED
      BY <3>1
  <2> QED
    BY <2>3, <2>4, <2>5
<1> QED
  BY <1>1, <1>2, <1>3

-----------------------------------------------------------------------------
(* Frames *)

Chars == S!Words \union Letters \union {LF, NUL}
Frames == [command : S!Words, header : S!Words, body : Seq(Chars \ {NUL})]

LEMMA StompOK ==
  /\ LF # NUL /\ LF \notin S!Words /\ NUL \notin S!Words /\ NUL \notin Letters
  /\ \A n \in 0 .. MaxFrames : S!sub(n) \in S!Words /\ S!tx(n) \in S!Words
  /\ \A m, n \in 0 .. MaxFrames : S!sub(m) = S!sub(n) => m = n
  /\ MaxFrames \in Nat /\ Pieces \subseteq Nat \ {0, 1}
<1>1. /\ LF # NUL /\ {LF, NUL} \intersect S!Words = {} /\ NUL \notin Letters
      /\ \A m, n \in 0 .. MaxFrames : S!sub(m) = S!sub(n) => m = n
      /\ MaxFrames \in Nat /\ Pieces \subseteq Nat \ {0, 1}
  BY ScriptsAssumption DEF S!StompAssumption
<1> HIDE DEF S!sub, S!tx
<1>2. \A n \in 0 .. MaxFrames : S!sub(n) \in S!Words /\ S!tx(n) \in S!Words
  BY DEF S!Words
<1> QED
  BY <1>1, <1>2

LEMMA Joined ==
  ASSUME NEW Elems, NEW s \in Seq(Elems), NEW t \in Seq(Elems)
  PROVE  /\ s \o t \in Seq(Elems) /\ Len(s \o t) = Len(s) + Len(t)
         /\ \A i \in 1 .. Len(s) : (s \o t)[i] = s[i]
         /\ \A i \in 1 .. Len(t) : (s \o t)[Len(s) + i] = t[i]
OBVIOUS

LEMMA Sliced ==
  ASSUME NEW Elems, NEW s \in Seq(Elems), NEW i \in Nat \ {0}, NEW j \in 0 .. Len(s)
  PROVE  /\ SubSeq(s, i, j) \in Seq(Elems)
         /\ Len(SubSeq(s, i, j)) = IF i <= j THEN j - i + 1 ELSE 0
         /\ \A k \in 1 .. j - i + 1 : SubSeq(s, i, j)[k] = s[i + k - 1]
OBVIOUS

LEMMA Marshalled ==
  ASSUME NEW f \in Frames
  PROVE  /\ S!marshall(f) \in Seq(Chars) /\ Len(S!marshall(f)) = Len(f.body) + 6
         /\ S!marshall(f)[1] = f.command /\ S!marshall(f)[2] = LF /\ S!marshall(f)[3] = f.header
         /\ S!marshall(f)[4] = LF /\ S!marshall(f)[5] = LF
         /\ \A i \in 1 .. Len(f.body) : S!marshall(f)[5 + i] = f.body[i]
         /\ S!marshall(f)[Len(f.body) + 6] = NUL
         /\ \A i \in 1 .. Len(f.body) + 5 : S!marshall(f)[i] # NUL
<1> DEFINE a == <<f.command, LF, f.header, LF, LF>>
           b == f.body
           c == <<NUL>>
           d == a \o b
<1>1. /\ a \in Seq(Chars) /\ Len(a) = 5
      /\ a[1] = f.command /\ a[2] = LF /\ a[3] = f.header /\ a[4] = LF /\ a[5] = LF
  BY DEF Frames, Chars
<1>2. b \in Seq(Chars) /\ Len(b) \in Nat /\ \A i \in 1 .. Len(b) : b[i] # NUL
  <2>1. b \in Seq(Chars \ {NUL})
    BY DEF Frames
  <2> HIDE DEF b
  <2>2. b \in Seq(Chars)
    BY <2>1, WiderSeq
  <2>3. \A i \in 1 .. Len(b) : b[i] \in Chars \ {NUL}
    BY <2>1, ElementOf
  <2> QED
    BY <2>2, <2>3, SeqDomain
<1>3. c \in Seq(Chars) /\ Len(c) = 1 /\ c[1] = NUL
  BY DEF Chars
<1>4. f.command # NUL /\ f.header # NUL /\ LF # NUL
  BY StompOK DEF Frames
<1>5. S!marshall(f) = d \o c
  BY DEF S!marshall
<1> HIDE DEF a, b, c
<1>6. /\ d \in Seq(Chars) /\ Len(d) = Len(b) + 5
      /\ \A i \in 1 .. 5 : d[i] = a[i]
      /\ \A i \in 1 .. Len(b) : d[5 + i] = b[i]
  <2>1. a \in Seq(Chars) /\ b \in Seq(Chars)
    BY <1>1, <1>2
  <2>2. /\ a \o b \in Seq(Chars) /\ Len(a \o b) = Len(a) + Len(b)
        /\ \A i \in 1 .. Len(a) : (a \o b)[i] = a[i]
        /\ \A i \in 1 .. Len(b) : (a \o b)[Len(a) + i] = b[i]
    BY ONLY <2>1, Joined
  <2> QED
    BY <1>1, <1>2, <2>2
<1> HIDE DEF d
<1>7. /\ d \o c \in Seq(Chars) /\ Len(d \o c) = Len(b) + 6
      /\ \A i \in 1 .. Len(b) + 5 : (d \o c)[i] = d[i]
      /\ (d \o c)[Len(b) + 6] = NUL
  <2>0. d \in Seq(Chars) /\ c \in Seq(Chars)
    BY <1>3, <1>6
  <2>1. /\ d \o c \in Seq(Chars) /\ Len(d \o c) = Len(d) + Len(c)
        /\ \A i \in 1 .. Len(d) : (d \o c)[i] = d[i]
        /\ \A i \in 1 .. Len(c) : (d \o c)[Len(d) + i] = c[i]
    BY ONLY <2>0, Joined
  <2>2. Len(d) + 1 = Len(b) + 6 /\ 1 \in 1 .. Len(c)
    BY <1>2, <1>3, <1>6
  <2> QED
    BY <1>2, <1>3, <1>6, <2>1, <2>2
<1>8. \A i \in 1 .. Len(b) + 5 : d[i] # NUL
  <2>1. ASSUME NEW i \in 1 .. Len(b) + 5, i > 5 PROVE d[i] # NUL
    <3>1. i - 5 \in 1 .. Len(b) /\ 5 + (i - 5) = i
      BY <1>2, <2>1
    <3> QED
      BY <1>2, <1>6, <3>1
  <2>2. \A i \in 1 .. 5 : d[i] # NUL
    BY <1>1, <1>4, <1>6
  <2> QED
    BY <1>2, <2>1, <2>2
<1>9. \A i \in 1 .. Len(b) : 5 + i \in 1 .. Len(b) + 5
  BY <1>2
<1>10. \A i \in 1 .. 5 : i \in 1 .. Len(b) + 5
  BY <1>2
<1> DEFINE t == d \o c
<1>11. /\ t[1] = f.command /\ t[2] = LF /\ t[3] = f.header /\ t[4] = LF /\ t[5] = LF
       /\ \A i \in 1 .. Len(b) : t[5 + i] = b[i]
       /\ \A i \in 1 .. Len(b) + 5 : t[i] # NUL
  BY <1>1, <1>6, <1>7, <1>8, <1>9, <1>10
<1>12. t \in Seq(Chars) /\ Len(t) = Len(b) + 6 /\ t[Len(b) + 6] = NUL
  BY <1>7
<1> HIDE DEF t
<1>13. S!marshall(f) = t
  BY <1>5 DEF t
<1> QED
  BY <1>11, <1>12, <1>13 DEF b

\* What is before the NUL of a frame's text is that frame.
LEMMA SingleRead ==
  ASSUME NEW f \in Frames, NEW data \in Seq(Chars), Len(data) = Len(f.body) + 5,
         \A i \in 1 .. Len(data) : data[i] = S!marshall(f)[i]
  PROVE  S!unmarshallSingle(data) = f
<1> DEFINE b == Len(f.body)
           At(i) == /\ data[i] = LF /\ data[i + 1] = LF
                    /\ \A j \in 1 .. i - 1 : ~(data[j] = LF /\ data[j + 1] = LF)
           divider == CHOOSE i \in DOMAIN data : At(i)
<1>1. b \in Nat /\ f.body \in Seq(Chars) /\ DOMAIN data = 1 .. b + 5
  <2>1. f.body \in Seq(Chars \ {NUL})
    BY DEF Frames
  <2> QED
    BY <2>1, WiderSeq, SeqDomain
<1>2. /\ data[1] = f.command /\ data[2] = LF /\ data[3] = f.header /\ data[4] = LF /\ data[5] = LF
      /\ \A i \in 1 .. b : data[5 + i] = f.body[i]
  <2>1. \A i \in 1 .. 5 : i \in 1 .. Len(data)
    BY <1>1
  <2>2. \A i \in 1 .. b : 5 + i \in 1 .. Len(data)
    BY <1>1
  <2> QED
    BY <2>1, <2>2, Marshalled
<1>3. data[1] # LF /\ data[3] # LF
  BY <1>2, StompOK DEF Frames
<1>4. At(4)
  <2>1. \A j \in 1 .. 4 - 1 : j = 1 \/ j = 2 \/ j = 3
    OBVIOUS
  <2> QED
    BY <1>2, <1>3, <2>1
<1>5. ASSUME NEW i \in DOMAIN data, At(i) PROVE i = 4
  <2>1. i \in Int /\ ~(4 \in 1 .. i - 1)
    BY <1>1, <1>2, <1>5
  <2>2. i # 1 /\ i # 2 /\ i # 3
    BY <1>3, <1>5
  <2> QED
    BY <1>1, <2>1, <2>2
<1>6. 4 \in DOMAIN data
  BY <1>1
<1>7. divider = 4
  <2> HIDE DEF At
  <2> QED
    BY <1>4, <1>5, <1>6
<1>8. SubSeq(data, 6, Len(data)) = f.body
  <2> DEFINE s == SubSeq(data, 6, Len(data))
  <2>1. s \in Seq(Chars) /\ Len(s) = b /\ \A k \in 1 .. b : s[k] = data[6 + k - 1]
    <3>1. Len(data) \in 0 .. Len(data) /\ 6 \in Nat \ {0}
      BY <1>1
    <3>2. /\ s \in Seq(Chars) /\ Len(s) = IF 6 <= Len(data) THEN Len(data) - 6 + 1 ELSE 0
          /\ \A k \in 1 .. Len(data) - 6 + 1 : s[k] = data[6 + k - 1]
      BY <3>1, Sliced
    <3> QED
      BY <1>1, <3>2
  <2> HIDE DEF s
  <2>2. \A k \in 1 .. Len(s) : s[k] = f.body[k]
    <3>1. \A k \in 1 .. b : 6 + k - 1 = 5 + k
      BY <1>1
    <3> QED
      BY <1>2, <2>1, <3>1
  <2>3. s = f.body
    BY <1>1, <2>1, <2>2, SameSeq
  <2> QED
    BY <2>3 DEF s
<1>9. \E i \in 1 .. Len(data) - 1 : data[i] = LF /\ data[i + 1] = LF
  <2>1. 4 \in 1 .. Len(data) - 1
    BY <1>1
  <2> QED
    BY <1>2, <2>1
<1>10. S!unmarshallSingle(data) = S!Frame(data[1], data[divider - 1], SubSeq(data, divider + 2, Len(data)))
  BY <1>9 DEF S!unmarshallSingle
<1> HIDE DEF divider
<1>11. S!unmarshallSingle(data) = S!Frame(f.command, f.header, f.body)
  <2>1. divider - 1 = 3 /\ divider + 2 = 6
    BY <1>7
  <2>2. /\ data[divider - 1] = f.header /\ data[1] = f.command
        /\ SubSeq(data, divider + 2, Len(data)) = f.body
    BY <1>2, <1>8, <2>1
  <2> QED
    BY <1>10, <2>2
<1> QED
  BY <1>11 DEF S!Frame, Frames

LEMMA SCardinality ==
  ASSUME NEW I
  PROVE  S!Cardinality(I) = Cardinality(I)
BY DEF S!Cardinality, Cardinality

LEMMA InOrderNone == S!inOrder({}) = <<>>
<1> DEFINE o == S!inOrder({})
<1>1. {} \in SUBSET (1 .. 0) /\ 0 \in Nat
  OBVIOUS
<1>2. Cardinality({}) = 0
  BY FS_EmptySet
<1>3. \E s \in [1 .. Cardinality({}) -> {}] : Increasing(s)
  BY <1>1, OrderExists
<1>4. o \in [1 .. 0 -> {}]
  BY <1>2, <1>3, SCardinality DEF S!inOrder, Increasing
<1> HIDE DEF o
<1>5. o \in Seq({}) /\ Len(o) = 0
  BY <1>1, <1>4, FunctionIsSeq
<1> QED
  BY <1>5 DEF o

LEMMA InOrderOne ==
  ASSUME NEW m \in Nat \ {0}
  PROVE  S!inOrder({m}) = <<m>>
<1> DEFINE o == S!inOrder({m})
<1>1. {m} \in SUBSET (1 .. m) /\ m \in Nat
  OBVIOUS
<1>2. Cardinality({m}) = 1
  BY FS_Singleton
<1>3. \E s \in [1 .. Cardinality({m}) -> {m}] : Increasing(s)
  BY <1>1, OrderExists
<1>4. o \in [1 .. 1 -> {m}]
  BY <1>2, <1>3, SCardinality DEF S!inOrder, Increasing
<1> HIDE DEF o
<1>5. o \in Seq({m}) /\ Len(o) = 1
  BY <1>4, FunctionIsSeq
<1>6. o[1] = m
  BY <1>4
<1> QED
  BY <1>5, <1>6 DEF o

-----------------------------------------------------------------------------
(* Frames read from a text *)

Trails == {<<>>, <<LF>>}

\* Of a frame without its end nothing is read.
LEMMA ReadPart ==
  ASSUME NEW data \in Seq(Chars), \A i \in 1 .. Len(data) : data[i] # NUL
  PROVE  S!unmarshall(data) = [frames |-> <<>>, partial |-> data]
<1> DEFINE ends == S!inOrder({i \in DOMAIN data : data[i] = NUL})
           Start(k) == IF k = 1 THEN 1
                       ELSE CHOOSE i \in ends[k - 1] + 1 .. Len(data) + 1 :
                              /\ i > Len(data) \/ data[i] # LF
                              /\ \A j \in ends[k - 1] + 1 .. i - 1 : data[j] = LF
           one(k) == S!unmarshallSingle(SubSeq(data, Start(k), ends[k] - 1))
           frames == [k \in 1 .. Len(ends) |-> one(k)]
           partial == SubSeq(data, Start(Len(ends) + 1), Len(data))
<1>1. S!unmarshall(data) = [frames |-> frames, partial |-> partial]
  BY DEF S!unmarshall
<1>2. {i \in DOMAIN data : data[i] = NUL} = {}
  BY SeqDomain
<1>3. ends = <<>>
  BY <1>2, InOrderNone
<1> HIDE DEF ends
<1>4. frames = <<>>
  <2> HIDE DEF one
  <2>1. frames \in [1 .. 0 -> {one(k) : k \in Nat}] /\ 0 \in Nat
    BY <1>3
  <2> HIDE DEF frames
  <2>2. frames \in Seq({one(k) : k \in Nat}) /\ Len(frames) = 0
    BY ONLY <2>1, FunctionIsSeq
  <2> QED
    BY <2>2
<1>5. partial = data
  <2>1. Start(Len(ends) + 1) = 1
    BY <1>3
  <2>2. SubSeq(data, 1, Len(data)) = data
    OBVIOUS
  <2> QED
    BY <2>1, <2>2
<1> QED
  BY <1>1, <1>4, <1>5

\* A whole frame is read, with or without the end of a line behind it.
LEMMA ReadFrame ==
  ASSUME NEW f \in Frames, NEW trail \in Trails
  PROVE  S!unmarshall(S!marshall(f) \o trail) = [frames |-> <<f>>, partial |-> <<>>]
<1> DEFINE t == S!marshall(f)
           data == t \o trail
           m == Len(f.body) + 6
           ends == S!inOrder({i \in DOMAIN data : data[i] = NUL})
           Start(k) == IF k = 1 THEN 1
                       ELSE CHOOSE i \in ends[k - 1] + 1 .. Len(data) + 1 :
                              /\ i > Len(data) \/ data[i] # LF
                              /\ \A j \in ends[k - 1] + 1 .. i - 1 : data[j] = LF
           one(k) == S!unmarshallSingle(SubSeq(data, Start(k), ends[k] - 1))
           frames == [k \in 1 .. Len(ends) |-> one(k)]
           partial == SubSeq(data, Start(Len(ends) + 1), Len(data))
<1>1. S!unmarshall(data) = [frames |-> frames, partial |-> partial]
  BY DEF S!unmarshall
<1>2. /\ t \in Seq(Chars) /\ Len(t) = m /\ m \in Nat /\ m > 5 /\ t[m] = NUL
      /\ \A i \in 1 .. m - 1 : t[i] # NUL
  <2>1. f.body \in Seq(Chars \ {NUL})
    BY DEF Frames
  <2>2. Len(f.body) \in Nat
    BY <2>1, SeqDomain
  <2>3. /\ t \in Seq(Chars) /\ Len(t) = m /\ t[m] = NUL
        /\ \A i \in 1 .. Len(f.body) + 5 : t[i] # NUL
    BY Marshalled
  <2>4. m - 1 = Len(f.body) + 5
    BY <2>2
  <2> QED
    BY <2>2, <2>3, <2>4
<1>3. Len(f.body) + 5 = m - 1
  <2>1. f.body \in Seq(Chars \ {NUL})
    BY DEF Frames
  <2>2. Len(f.body) \in Nat
    BY <2>1, SeqDomain
  <2> QED
    BY <2>2
<1> HIDE DEF t, m
<1>4. trail \in Seq(Chars) /\ Len(trail) \in 0 .. 1 /\ (Len(trail) = 1 => trail[1] = LF) /\ LF # NUL
  <2>1. CASE trail = <<>>
    BY <2>1, StompOK
  <2>2. CASE trail = <<LF>>
    <3>1. LF \in Chars
      BY DEF Chars
    <3> QED
      BY <2>2, <3>1, StompOK
  <2> QED
    BY <2>1, <2>2 DEF Trails
<1>5. /\ data \in Seq(Chars) /\ Len(data) = m + Len(trail)
      /\ \A i \in 1 .. m : data[i] = t[i]
      /\ \A i \in 1 .. Len(trail) : data[m + i] = LF
  <2>1. t \in Seq(Chars) /\ trail \in Seq(Chars)
    BY <1>2, <1>4
  <2>2. /\ data \in Seq(Chars) /\ Len(data) = Len(t) + Len(trail)
        /\ \A i \in 1 .. Len(t) : data[i] = t[i]
        /\ \A i \in 1 .. Len(trail) : data[Len(t) + i] = trail[i]
    BY ONLY <2>1, Joined
  <2>3. \A i \in 1 .. Len(trail) : trail[i] = LF
    BY <1>4
  <2> QED
    BY <1>2, <2>2, <2>3
<1> HIDE DEF data
<1>6. {i \in DOMAIN data : data[i] = NUL} = {m}
  <2>1. DOMAIN data = 1 .. m + Len(trail)
    BY <1>5, SeqDomain
  <2>2. ASSUME NEW i \in 1 .. m + Len(trail) PROVE data[i] = NUL <=> i = m
    <3>1. CASE i <= m
      BY <1>2, <1>4, <1>5, <3>1
    <3>2. CASE i > m
      <4>1. i - m \in 1 .. Len(trail) /\ m + (i - m) = i
        BY <1>2, <1>4, <3>2
      <4>2. data[m + (i - m)] = LF
        BY <1>5, <4>1
      <4> QED
        BY <1>4, <3>2, <4>1, <4>2
    <3> QED
      BY <1>2, <3>1, <3>2
  <2>3. m \in 1 .. m + Len(trail)
    BY <1>2, <1>4
  <2> QED
    BY <2>1, <2>2, <2>3
<1>7. ends = <<m>>
  BY <1>2, <1>6, InOrderOne
<1>8. Len(ends) = 1 /\ ends[1] = m
  BY <1>7
<1> HIDE DEF ends
<1>9. one(1) = f
  <2> DEFINE s == SubSeq(data, 1, m - 1)
  <2>1. one(1) = S!unmarshallSingle(s)
    BY <1>8
  <2>2. s \in Seq(Chars) /\ Len(s) = m - 1 /\ \A i \in 1 .. m - 1 : s[i] = data[i]
    <3>1. 1 \in Nat \ {0} /\ m - 1 \in 0 .. Len(data) /\ 1 <= m - 1
      BY <1>2, <1>4, <1>5
    <3>2. /\ s \in Seq(Chars) /\ Len(s) = IF 1 <= m - 1 THEN (m - 1) - 1 + 1 ELSE 0
          /\ \A k \in 1 .. (m - 1) - 1 + 1 : s[k] = data[1 + k - 1]
      BY ONLY <3>1, <1>5, Sliced
    <3>3. \A k \in 1 .. m - 1 : 1 + k - 1 = k
      BY <1>2
    <3>4. (m - 1) - 1 + 1 = m - 1
      BY <1>2
    <3> QED
      BY <3>1, <3>2, <3>3, <3>4
  <2> HIDE DEF s
  <2>3. \A i \in 1 .. Len(s) : s[i] = S!marshall(f)[i]
    BY <1>2, <1>5, <2>2 DEF t
  <2>4. S!unmarshallSingle(s) = f
    BY <1>3, <2>2, <2>3, SingleRead
  <2> QED
    BY <2>1, <2>4
<1>10. frames = <<f>>
  <2> HIDE DEF one
  <2>1. frames \in [1 .. 1 -> {f}] /\ 1 \in Nat
    BY <1>8, <1>9
  <2> HIDE DEF frames
  <2>2. frames \in Seq({f}) /\ Len(frames) = 1
    BY ONLY <2>1, FunctionIsSeq
  <2> QED
    BY <2>2
<1>11. partial = <<>>
  <2> DEFINE Ok(i) == /\ i > Len(data) \/ data[i] # LF
                      /\ \A j \in m + 1 .. i - 1 : data[j] = LF
  <2>1. Start(Len(ends) + 1) = CHOOSE i \in m + 1 .. Len(data) + 1 : Ok(i)
    <3>1. Len(ends) + 1 # 1 /\ (Len(ends) + 1) - 1 = 1
      BY <1>8
    <3>2. ends[(Len(ends) + 1) - 1] = m
      BY <1>8, <3>1
    <3> QED
      BY <3>1, <3>2
  <2>2. Len(data) + 1 \in m + 1 .. Len(data) + 1
    BY <1>2, <1>4, <1>5
  <2>3. \A j \in m + 1 .. Len(data) : data[j] = LF
    <3>1. ASSUME NEW j \in m + 1 .. Len(data) PROVE data[j] = LF
      <4>1. j - m \in 1 .. Len(trail) /\ m + (j - m) = j
        BY <1>2, <1>4, <1>5
      <4>2. data[m + (j - m)] = LF
        BY <1>5, <4>1
      <4> QED
        BY <4>1, <4>2
    <3> QED
      BY <3>1
  <2>4. Ok(Len(data) + 1)
    <3>1. (Len(data) + 1) - 1 = Len(data) /\ Len(data) + 1 > Len(data)
      BY <1>2, <1>4, <1>5
    <3> QED
      BY <2>3, <3>1
  <2>5. ASSUME NEW i \in m + 1 .. Len(data) + 1, Ok(i) PROVE i = Len(data) + 1
    <3>1. CASE i > Len(data)
      BY <1>2, <1>4, <1>5, <3>1
    <3>2. CASE i <= Len(data)
      <4>1. i \in m + 1 .. Len(data) /\ ~(i > Len(data))
        BY <1>2, <1>4, <1>5, <3>2
      <4> QED
        BY <2>3, <2>5, <4>1
    <3> QED
      BY <1>2, <1>4, <1>5, <3>1, <3>2
  <2> HIDE DEF Ok
  <2>6. (CHOOSE i \in m + 1 .. Len(data) + 1 : Ok(i)) = Len(data) + 1
    BY <2>2, <2>4, <2>5
  <2>7. partial = SubSeq(data, Len(data) + 1, Len(data))
    BY <2>1, <2>6
  <2> HIDE DEF partial, Start
  <2>8. SubSeq(data, Len(data) + 1, Len(data)) = <<>>
    <3>1. Len(data) \in Nat /\ Len(data) + 1 \in Nat \ {0} /\ Len(data) \in 0 .. Len(data) /\ ~(Len(data) + 1 <= Len(data))
      BY <1>2, <1>4, <1>5
    <3>2. /\ SubSeq(data, Len(data) + 1, Len(data)) \in Seq(Chars)
          /\ Len(SubSeq(data, Len(data) + 1, Len(data))) = 0
      BY <1>5, <3>1, Sliced
    <3> QED
      BY <3>2
  <2> QED
    BY <2>7, <2>8
<1>12. S!unmarshall(data) = [frames |-> <<f>>, partial |-> <<>>]
  BY <1>1, <1>10, <1>11
<1> QED
  BY <1>12 DEF data, t

-----------------------------------------------------------------------------
(* Callbacks *)

LEMMA CallNone == S!Callbacks(<<>>) = <<>>
<1> DEFINE called == S!inOrder({i \in DOMAIN <<>> : <<>>[i].command = "MESSAGE" => <<>>[i].header \in v4})
<1>1. S!Callbacks(<<>>) = [k \in DOMAIN called |-> <<>>[called[k]]]
  BY DEF S!Callbacks
<1>2. called = <<>>
  <2>1. {i \in DOMAIN <<>> : <<>>[i].command = "MESSAGE" => <<>>[i].header \in v4} = {}
    OBVIOUS
  <2> QED
    BY <2>1, InOrderNone
<1> HIDE DEF called
<1>3. [k \in DOMAIN called |-> <<>>[called[k]]] = [k \in 1 .. 0 |-> <<>>[called[k]]]
  BY <1>2
<1> DEFINE s == [k \in 1 .. 0 |-> <<>>[called[k]]]
<1>4. s \in [1 .. 0 -> {}] /\ 0 \in Nat
  OBVIOUS
<1>5. S!Callbacks(<<>>) = s
  BY <1>1, <1>3
<1> HIDE DEF s
<1>6. s \in Seq({}) /\ Len(s) = 0
  BY ONLY <1>4, FunctionIsSeq
<1> QED
  BY <1>5, <1>6

LEMMA CallOne ==
  ASSUME NEW f
  PROVE  S!Callbacks(<<f>>) = IF f.command = "MESSAGE" => f.header \in v4 THEN <<f>> ELSE <<>>
<1> DEFINE fs == <<f>>
           I == {i \in DOMAIN fs : fs[i].command = "MESSAGE" => fs[i].header \in v4}
           called == S!inOrder(I)
<1>1. S!Callbacks(<<f>>) = [k \in DOMAIN called |-> fs[called[k]]]
  BY DEF S!Callbacks
<1>2. DOMAIN fs = {1} /\ fs[1] = f
  OBVIOUS
<1> HIDE DEF fs
<1>3. CASE f.command = "MESSAGE" => f.header \in v4
  <2>1. I = {1}
    BY <1>2, <1>3
  <2> HIDE DEF I
  <2>2. called = <<1>>
    BY <2>1, InOrderOne
  <2>3. DOMAIN called = 1 .. 1 /\ called[1] = 1
    BY <2>2
  <2> HIDE DEF called
  <2> DEFINE s == [k \in DOMAIN called |-> fs[called[k]]]
  <2>4. s \in [1 .. 1 -> {f}] /\ 1 \in Nat /\ s[1] = f
    BY <1>2, <2>3
  <2> HIDE DEF s
  <2>5. s \in Seq({f}) /\ Len(s) = 1
    BY ONLY <2>4, FunctionIsSeq
  <2>6. s = <<f>>
    BY <2>4, <2>5
  <2> QED
    BY <1>1, <1>3, <2>6 DEF s
<1>4. CASE ~(f.command = "MESSAGE" => f.header \in v4)
  <2>1. I = {}
    BY <1>2, <1>4
  <2> HIDE DEF I
  <2>2. called = <<>>
    BY <2>1, InOrderNone
  <2>3. DOMAIN called = 1 .. 0
    BY <2>2
  <2> HIDE DEF called
  <2> DEFINE s == [k \in DOMAIN called |-> fs[called[k]]]
  <2>4. s \in [1 .. 0 -> {}] /\ 0 \in Nat
    BY <2>3
  <2> HIDE DEF s
  <2>5. s \in Seq({}) /\ Len(s) = 0
    BY ONLY <2>4, FunctionIsSeq
  <2>6. s = <<>>
    BY <2>5
  <2> QED
    BY <1>1, <1>4, <2>6 DEF s
<1> QED
  BY <1>3, <1>4

-----------------------------------------------------------------------------
(* Pieces on their way *)

\* A piece takes the receiver of the frames fs, who has n of them and text of the next one,
\* to m of them and more of the next one: it is a heart-beat or the end of a line between
\* two frames, or it belongs to the next frame, which it completes or not.
Takes(text, n, piece, more, m, fs) ==
  \/ piece = <<LF>> /\ text = <<>> /\ more = <<>> /\ m = n
  \/ /\ piece # <<LF>> /\ n + 1 \in 1 .. Len(fs)
     /\ \/ /\ m = n /\ more = text \o piece
           /\ \E q \in 1 .. Len(S!marshall(fs[n + 1])) - 1 : more = SubSeq(S!marshall(fs[n + 1]), 1, q)
        \/ /\ m = n + 1 /\ more = <<>>
           /\ \E trail \in Trails : text \o piece = S!marshall(fs[n + 1]) \o trail

\* The pieces do so one by one.
Way(text, n, pieces, more, m, fs) ==
  \E texts \in [0 .. Len(pieces) -> Seq(Chars)], counts \in [0 .. Len(pieces) -> Nat] :
    /\ texts[0] = text /\ counts[0] = n
    /\ texts[Len(pieces)] = more /\ counts[Len(pieces)] = m
    /\ \A i \in 1 .. Len(pieces) : Takes(texts[i - 1], counts[i - 1], pieces[i], texts[i], counts[i], fs)

LEMMA WayNone ==
  ASSUME NEW text \in Seq(Chars), NEW n \in Nat, NEW more, NEW m, NEW fs
  PROVE  Way(text, n, <<>>, more, m, fs) <=> more = text /\ m = n
<1>1. Len(<<>>) = 0 /\ 1 .. 0 = {}
  OBVIOUS
<1>2. ASSUME more = text, m = n PROVE Way(text, n, <<>>, more, m, fs)
  <2> DEFINE texts == [i \in 0 .. 0 |-> text]
             counts == [i \in 0 .. 0 |-> n]
  <2>1. texts \in [0 .. 0 -> Seq(Chars)] /\ counts \in [0 .. 0 -> Nat] /\ texts[0] = text /\ counts[0] = n
    OBVIOUS
  <2> HIDE DEF texts, counts
  <2> QED
    BY <1>1, <1>2, <2>1 DEF Way
<1>3. ASSUME Way(text, n, <<>>, more, m, fs) PROVE more = text /\ m = n
  BY <1>1, <1>3 DEF Way
<1> QED
  BY <1>2, <1>3

LEMMA WayOne ==
  ASSUME NEW text \in Seq(Chars), NEW n \in Nat, NEW piece, NEW more \in Seq(Chars), NEW m \in Nat, NEW fs,
         Takes(text, n, piece, more, m, fs)
  PROVE  Way(text, n, <<piece>>, more, m, fs)
<1> DEFINE texts == [i \in 0 .. 1 |-> IF i = 0 THEN text ELSE more]
           counts == [i \in 0 .. 1 |-> IF i = 0 THEN n ELSE m]
           ps == <<piece>>
<1>1. Len(ps) = 1 /\ ps[1] = piece
  OBVIOUS
<1>2. /\ texts \in [0 .. 1 -> Seq(Chars)] /\ counts \in [0 .. 1 -> Nat]
      /\ texts[0] = text /\ counts[0] = n /\ texts[1] = more /\ counts[1] = m
  OBVIOUS
<1> HIDE DEF texts, counts, ps
<1>3. \A i \in 1 .. 1 : Takes(texts[i - 1], counts[i - 1], ps[i], texts[i], counts[i], fs)
  <2>1. \A i \in 1 .. 1 : i = 1 /\ i - 1 = 0
    OBVIOUS
  <2> QED
    BY <1>1, <1>2, <2>1
<1>4. Way(text, n, ps, more, m, fs)
  BY <1>1, <1>2, <1>3 DEF Way
<1> QED
  BY <1>4 DEF ps

LEMMA WayJoined ==
  ASSUME NEW Elems, NEW ps \in Seq(Elems), NEW qs \in Seq(Elems), NEW fs,
         NEW text, NEW n, NEW more, NEW m, NEW last, NEW o,
         Way(text, n, ps, more, m, fs), Way(more, m, qs, last, o, fs)
  PROVE  Way(text, n, ps \o qs, last, o, fs)
<1> DEFINE a == Len(ps)
           b == Len(qs)
           rs == ps \o qs
<1>1. PICK ts \in [0 .. a -> Seq(Chars)], cs \in [0 .. a -> Nat] :
        /\ ts[0] = text /\ cs[0] = n /\ ts[a] = more /\ cs[a] = m
        /\ \A i \in 1 .. a : Takes(ts[i - 1], cs[i - 1], ps[i], ts[i], cs[i], fs)
  BY DEF Way
<1>2. PICK us \in [0 .. b -> Seq(Chars)], ds \in [0 .. b -> Nat] :
        /\ us[0] = more /\ ds[0] = m /\ us[b] = last /\ ds[b] = o
        /\ \A i \in 1 .. b : Takes(us[i - 1], ds[i - 1], qs[i], us[i], ds[i], fs)
  BY DEF Way
<1>3. /\ a \in Nat /\ b \in Nat /\ Len(rs) = a + b
      /\ \A i \in 1 .. a : rs[i] = ps[i]
      /\ \A i \in 1 .. b : rs[a + i] = qs[i]
  BY SeqDomain, Joined
<1> HIDE DEF a, b, rs
<1> DEFINE xs == [i \in 0 .. a + b |-> IF i <= a THEN ts[i] ELSE us[i - a]]
           es == [i \in 0 .. a + b |-> IF i <= a THEN cs[i] ELSE ds[i - a]]
<1>4. \A i \in 0 .. a + b : (i <= a => i \in 0 .. a) /\ (~(i <= a) => i - a \in 0 .. b)
  BY <1>3
<1>5. xs \in [0 .. a + b -> Seq(Chars)] /\ es \in [0 .. a + b -> Nat]
  BY <1>1, <1>2, <1>4
<1>6. /\ \A i \in 0 .. a : xs[i] = ts[i] /\ es[i] = cs[i]
      /\ \A i \in 1 .. b : xs[a + i] = us[i] /\ es[a + i] = ds[i]
  <2>1. \A i \in 0 .. a : i \in 0 .. a + b /\ i <= a
    BY <1>3
  <2>2. \A i \in 1 .. b : a + i \in 0 .. a + b /\ ~(a + i <= a) /\ (a + i) - a = i
    BY <1>3
  <2> QED
    BY <2>1, <2>2
<1> HIDE DEF xs, es
<1>7. xs[a + 0] = us[0] /\ es[a + 0] = ds[0] /\ a \in 0 .. a
  BY <1>1, <1>2, <1>3, <1>6
<1>8. \A i \in 0 .. b : xs[a + i] = us[i] /\ es[a + i] = ds[i]
  <2>1. \A i \in 0 .. b : i = 0 \/ i \in 1 .. b
    BY <1>3
  <2> QED
    BY <1>6, <1>7, <2>1
<1>9. ASSUME NEW i \in 1 .. a + b
      PROVE  Takes(xs[i - 1], es[i - 1], rs[i], xs[i], es[i], fs)
  <2>1. CASE i <= a
    <3>1. i \in 1 .. a /\ i - 1 \in 0 .. a /\ i \in 0 .. a
      BY <1>3, <2>1
    <3> QED
      BY <1>1, <1>3, <1>6, <3>1
  <2>2. CASE i > a
    <3>1. PICK k \in 1 .. b : a + k = i
      <4>1. i - a \in 1 .. b /\ a + (i - a) = i
        BY <1>3, <2>2
      <4> QED
        BY <4>1
    <3>4. k - 1 \in 0 .. b /\ k \in 0 .. b /\ a + (k - 1) = i - 1
      BY <1>3, <3>1
    <3>2. /\ xs[i] = us[k] /\ es[i] = ds[k] /\ xs[i - 1] = us[k - 1] /\ es[i - 1] = ds[k - 1]
          /\ rs[i] = qs[k]
      BY <1>3, <1>8, <3>1, <3>4
    <3>3. Takes(us[k - 1], ds[k - 1], qs[k], us[k], ds[k], fs)
      BY <1>2, <3>1
    <3> QED
      BY <3>2, <3>3
  <2> QED
    BY <1>3, <2>1, <2>2
<1>10. xs[0] = text /\ es[0] = n /\ xs[a + b] = last /\ es[a + b] = o
  <2>1. 0 \in 0 .. a /\ b \in 0 .. b
    BY <1>3
  <2> QED
    BY <1>1, <1>2, <1>6, <1>8, <2>1
<1>11. Way(text, n, rs, last, o, fs)
  BY <1>3, <1>5, <1>9, <1>10 DEF Way
<1> QED
  BY <1>11 DEF rs

LEMMA WayTail ==
  ASSUME NEW Elems, NEW ps \in Seq(Elems), ps # <<>>, NEW fs,
         NEW text, NEW n, NEW last, NEW o, Way(text, n, ps, last, o, fs)
  PROVE  \E more \in Seq(Chars), m \in Nat :
           Takes(text, n, Head(ps), more, m, fs) /\ Way(more, m, Tail(ps), last, o, fs)
<1> DEFINE a == Len(ps)
           qs == Tail(ps)
<1>1. PICK ts \in [0 .. a -> Seq(Chars)], cs \in [0 .. a -> Nat] :
        /\ ts[0] = text /\ cs[0] = n /\ ts[a] = last /\ cs[a] = o
        /\ \A i \in 1 .. a : Takes(ts[i - 1], cs[i - 1], ps[i], ts[i], cs[i], fs)
  BY DEF Way
<1>2. /\ a \in Nat /\ a > 0 /\ Len(qs) = a - 1 /\ Head(ps) = ps[1]
      /\ \A i \in 1 .. a - 1 : qs[i] = ps[i + 1]
  OBVIOUS
<1> HIDE DEF a, qs
<1> DEFINE us == [i \in 0 .. a - 1 |-> ts[i + 1]]
           ds == [i \in 0 .. a - 1 |-> cs[i + 1]]
<1>3. us \in [0 .. a - 1 -> Seq(Chars)] /\ ds \in [0 .. a - 1 -> Nat]
  <2>1. \A i \in 0 .. a - 1 : i + 1 \in 0 .. a
    BY <1>2
  <2> QED
    BY <1>1, <2>1
<1>4. \A i \in 0 .. a - 1 : us[i] = ts[i + 1] /\ ds[i] = cs[i + 1]
  OBVIOUS
<1> HIDE DEF us, ds
<1>5. ASSUME NEW i \in 1 .. a - 1
      PROVE  Takes(us[i - 1], ds[i - 1], qs[i], us[i], ds[i], fs)
  <2>1. i \in 0 .. a - 1 /\ i - 1 \in 0 .. a - 1 /\ (i - 1) + 1 = i /\ i + 1 \in 1 .. a /\ (i + 1) - 1 = i
    BY <1>2
  <2>2. /\ us[i] = ts[i + 1] /\ ds[i] = cs[i + 1] /\ us[i - 1] = ts[i] /\ ds[i - 1] = cs[i]
        /\ qs[i] = ps[i + 1]
    BY <1>2, <1>4, <2>1
  <2>3. Takes(ts[(i + 1) - 1], cs[(i + 1) - 1], ps[i + 1], ts[i + 1], cs[i + 1], fs)
    BY <1>1, <2>1
  <2> QED
    BY <2>1, <2>2, <2>3
<1>6. us[0] = ts[1] /\ ds[0] = cs[1] /\ us[a - 1] = last /\ ds[a - 1] = o
  <2>1. 0 \in 0 .. a - 1 /\ a - 1 \in 0 .. a - 1 /\ (a - 1) + 1 = a
    BY <1>2
  <2> QED
    BY <1>1, <1>4, <2>1
<1>7. Way(ts[1], cs[1], qs, last, o, fs)
  BY <1>2, <1>3, <1>5, <1>6 DEF Way
<1>8. Takes(text, n, ps[1], ts[1], cs[1], fs) /\ ts[1] \in Seq(Chars) /\ cs[1] \in Nat
  <2>1. 1 \in 1 .. a /\ 1 \in 0 .. a /\ 1 - 1 = 0
    BY <1>2
  <2> QED
    BY <1>1, <2>1
<1> QED
  BY <1>2, <1>7, <1>8 DEF qs

-----------------------------------------------------------------------------
(* The pieces of a frame *)

LEMMA TimesLess ==
  ASSUME NEW a \in Nat, NEW b \in Nat, NEW s \in Nat, a <= b
  PROVE  a * s <= b * s /\ a * s \in Nat
OBVIOUS

LEMMA Quotient ==
  ASSUME NEW a \in Nat, NEW s \in Nat \ {0}
  PROVE  a \div s \in Nat /\ (a \div s) * s <= a /\ a < (a \div s) * s + s
OBVIOUS

\* As many pieces as there are beginnings of one.
LEMMA PiecesCover ==
  ASSUME NEW len \in Nat, NEW size \in Nat \ {0}
  PROVE  /\ (len + size - 1) \div size \in Nat
         /\ len <= ((len + size - 1) \div size) * size
         /\ \A k \in 1 .. (len + size - 1) \div size :
              /\ (k - 1) * size \in Nat /\ (k - 1) * size < len
              /\ k * size \in Nat /\ k * size = (k - 1) * size + size
<1> DEFINE c == (len + size - 1) \div size
<1>1. c \in Nat /\ c * size <= len + size - 1 /\ len + size - 1 < c * size + size /\ c * size \in Nat
  <2>1. len + size - 1 \in Nat
    OBVIOUS
  <2> QED
    BY <2>1, Quotient
<1> HIDE DEF c
<1>2. len <= c * size
  BY <1>1
<1>3. ASSUME NEW k \in 1 .. c
      PROVE  /\ (k - 1) * size \in Nat /\ (k - 1) * size < len
             /\ k * size \in Nat /\ k * size = (k - 1) * size + size
  <2>1. k - 1 \in Nat /\ k \in Nat /\ k <= c
    BY <1>1
  <2>2. k * size = (k - 1) * size + size
    BY <2>1
  <2>3. k * size <= c * size /\ k * size \in Nat /\ (k - 1) * size \in Nat
    BY <1>1, <2>1, TimesLess
  <2>4. (k - 1) * size < len
    BY <1>1, <2>2, <2>3
  <2> QED
    BY <2>2, <2>3, <2>4
<1> QED
  BY <1>1, <1>2, <1>3 DEF c

LEMMA Singleton ==
  ASSUME NEW Elems, NEW s \in Seq(Elems), NEW x
  PROVE  s = <<x>> <=> Len(s) = 1 /\ s[1] = x
OBVIOUS

LEMMA SliceJoined ==
  ASSUME NEW Elems, NEW s \in Seq(Elems), NEW i \in 0 .. Len(s), NEW j \in i .. Len(s)
  PROVE  SubSeq(s, 1, i) \o SubSeq(s, i + 1, j) = SubSeq(s, 1, j)
<1> DEFINE x == SubSeq(s, 1, i)
           y == SubSeq(s, i + 1, j)
           z == SubSeq(s, 1, j)
<1>1. Len(s) \in Nat
  BY SeqDomain
<1>2. x \in Seq(Elems) /\ Len(x) = i /\ \A k \in 1 .. i : x[k] = s[k]
  BY <1>1
<1>3. y \in Seq(Elems) /\ Len(y) = j - i /\ \A k \in 1 .. j - i : y[k] = s[i + k]
  BY <1>1
<1>4. z \in Seq(Elems) /\ Len(z) = j /\ \A k \in 1 .. j : z[k] = s[k]
  BY <1>1
<1> HIDE DEF x, y, z
<1>5. /\ x \o y \in Seq(Elems) /\ Len(x \o y) = j
      /\ \A k \in 1 .. i : (x \o y)[k] = s[k]
      /\ \A k \in 1 .. j - i : (x \o y)[i + k] = s[i + k]
  <2>0. x \in Seq(Elems) /\ y \in Seq(Elems)
    BY <1>2, <1>3
  <2>1. /\ x \o y \in Seq(Elems) /\ Len(x \o y) = Len(x) + Len(y)
        /\ \A k \in 1 .. Len(x) : (x \o y)[k] = x[k]
        /\ \A k \in 1 .. Len(y) : (x \o y)[Len(x) + k] = y[k]
    BY ONLY <2>0, Joined
  <2> QED
    BY <1>1, <1>2, <1>3, <2>1
<1>6. \A k \in 1 .. j : (x \o y)[k] = z[k]
  <2>1. ASSUME NEW k \in 1 .. j PROVE (x \o y)[k] = s[k]
    <3>1. CASE k <= i
      BY <1>1, <1>5, <3>1
    <3>2. CASE k > i
      <4>1. k - i \in 1 .. j - i /\ i + (k - i) = k
        BY <1>1, <3>2
      <4>2. (x \o y)[i + (k - i)] = s[i + (k - i)]
        BY <1>5, <4>1
      <4> QED
        BY <4>1, <4>2
    <3>3. k <= i \/ k > i
      BY <1>1
    <3> QED
      BY <3>1, <3>2, <3>3
  <2> QED
    BY <1>4, <2>1
<1>7. x \o y = z
  <2> DEFINE w == x \o y
  <2>1. w \in Seq(Elems) /\ z \in Seq(Elems) /\ Len(w) = Len(z) /\ \A k \in 1 .. Len(w) : w[k] = z[k]
    BY <1>4, <1>5, <1>6
  <2> HIDE DEF w
  <2>2. w = z
    BY ONLY <2>1, SameSeq
  <2> QED
    BY <2>2 DEF w
<1> QED
  BY <1>7 DEF x, y, z

\* The pieces of a frame take the receiver from before it to behind it.
LEMMA FrameTakes ==
  ASSUME NEW f \in Frames, NEW trail \in Trails, NEW size \in Nat \ {0, 1},
         NEW fs, NEW n \in Nat, n + 1 \in 1 .. Len(fs), fs[n + 1] = f
  PROVE  /\ S!Cut(S!marshall(f) \o trail, size) \in Seq(Seq(Chars))
         /\ Way(<<>>, n, S!Cut(S!marshall(f) \o trail, size), <<>>, n + 1, fs)
<1> DEFINE head == S!marshall(f)
           text == head \o trail
           m == Len(head)
           len == Len(text)
           c == (len + size - 1) \div size
           Upto(k) == IF k * size < len THEN k * size ELSE len
           piece(k) == SubSeq(text, (k - 1) * size + 1, Upto(k))
           ps == S!Cut(text, size)
<1>1. /\ head \in Seq(Chars) /\ m \in Nat /\ m > 5 /\ head[m] = NUL
  <2>1. f.body \in Seq(Chars \ {NUL})
    BY DEF Frames
  <2>2. Len(f.body) \in Nat
    BY <2>1, SeqDomain
  <2>3. /\ head \in Seq(Chars) /\ m = Len(f.body) + 6 /\ head[Len(f.body) + 6] = NUL
    BY Marshalled
  <2> QED
    BY <2>2, <2>3
<1> HIDE DEF head
<1>2. trail \in Seq(Chars) /\ Len(trail) \in 0 .. 1 /\ LF # NUL
      /\ (Len(trail) = 1 => trail[1] = LF) /\ (Len(trail) = 0 => trail = <<>>)
  <2>1. CASE trail = <<>>
    BY <2>1, StompOK
  <2>2. CASE trail = <<LF>>
    <3>1. LF \in Chars
      BY DEF Chars
    <3> QED
      BY <2>2, <3>1, StompOK
  <2> QED
    BY <2>1, <2>2 DEF Trails
<1>3. /\ text \in Seq(Chars) /\ len = m + Len(trail)
      /\ \A i \in 1 .. m : text[i] = head[i]
      /\ \A i \in 1 .. Len(trail) : text[m + i] = trail[i]
  <2>1. head \in Seq(Chars) /\ trail \in Seq(Chars)
    BY <1>1, <1>2
  <2> QED
    BY ONLY <2>1, Joined
<1>4. trail = <<>> => text = head
  BY <1>1
<1>5. ps = [k \in 1 .. c |-> piece(k)]
  BY DEF S!Cut
<1> HIDE DEF text, m
<1>6. len \in Nat /\ m <= len /\ len <= m + 1 /\ (len > m => text[m + 1] = LF) /\ (len = m => text = head)
  <2>1. Len(trail) = 1 => trail[1] = LF /\ 1 \in 1 .. Len(trail)
    BY <1>2
  <2>2. Len(trail) = 0 => trail = <<>>
    BY <1>2
  <2> QED
    BY <1>1, <1>2, <1>3, <1>4, <2>1, <2>2
<1> HIDE DEF len
<1>7. /\ c \in Nat /\ len <= c * size
      /\ \A k \in 1 .. c : /\ (k - 1) * size \in Nat /\ (k - 1) * size < len
                           /\ k * size \in Nat /\ k * size = (k - 1) * size + size
  BY <1>6, PiecesCover
<1> HIDE DEF c
<1>8. /\ \A k \in 0 .. c : Upto(k) \in 0 .. len
      /\ \A k \in 1 .. c : Upto(k - 1) = (k - 1) * size /\ Upto(k - 1) < Upto(k)
      /\ \A k \in 1 .. c : Upto(k) = len \/ Upto(k) = Upto(k - 1) + size
      /\ Upto(0) = 0 /\ Upto(c) = len
  <2>1. Upto(0) = 0 /\ 0 * size = 0
    BY <1>1, <1>6
  <2>2. \A k \in 1 .. c : Upto(k) \in 0 .. len
    BY <1>6, <1>7
  <2>3. \A k \in 0 .. c : k = 0 \/ k \in 1 .. c
    BY <1>7
  <2>4. Upto(c) = len
    BY <1>6, <1>7
  <2>5. \A k \in 1 .. c : Upto(k - 1) = (k - 1) * size
    BY <1>7
  <2>6. \A k \in 1 .. c : (Upto(k) = len \/ Upto(k) = Upto(k - 1) + size) /\ Upto(k - 1) < Upto(k)
    BY <1>6, <1>7, <2>5
  <2>7. 0 \in 0 .. len
    BY <1>6
  <2> HIDE DEF Upto
  <2>8. \A k \in 0 .. c : Upto(k) \in 0 .. len
    BY <2>1, <2>2, <2>3, <2>7
  <2> QED
    BY <2>1, <2>4, <2>5, <2>6, <2>8
<1>9. \A k \in 1 .. c : piece(k) = SubSeq(text, Upto(k - 1) + 1, Upto(k))
  BY <1>8
<1> HIDE DEF Upto, piece
<1>10. \A k \in 1 .. c : piece(k) \in Seq(Chars) /\ Len(piece(k)) = Upto(k) - Upto(k - 1)
                         /\ \A i \in 1 .. Len(piece(k)) : piece(k)[i] = text[Upto(k - 1) + i]
  <2>1. ASSUME NEW k \in 1 .. c, NEW a, NEW b, a = Upto(k - 1), b = Upto(k)
        PROVE  piece(k) \in Seq(Chars) /\ Len(piece(k)) = b - a
               /\ \A i \in 1 .. Len(piece(k)) : piece(k)[i] = text[a + i]
    <3>1. k - 1 \in 0 .. c /\ k \in 0 .. c
      BY <1>7
    <3>2. a \in 0 .. len /\ b \in 0 .. len /\ a < b
      BY <1>8, <2>1, <3>1
    <3>3. a + 1 \in Nat \ {0} /\ b \in 0 .. Len(text) /\ a + 1 <= b /\ b - (a + 1) + 1 = b - a
      BY <1>6, <3>2 DEF len
    <3>4. /\ SubSeq(text, a + 1, b) \in Seq(Chars)
          /\ Len(SubSeq(text, a + 1, b)) = IF a + 1 <= b THEN b - (a + 1) + 1 ELSE 0
          /\ \A i \in 1 .. b - (a + 1) + 1 : SubSeq(text, a + 1, b)[i] = text[(a + 1) + i - 1]
      BY ONLY <3>3, <1>3, Sliced
    <3>5. piece(k) = SubSeq(text, a + 1, b)
      BY <1>9, <2>1
    <3>6. \A i \in 1 .. b - a : (a + 1) + i - 1 = a + i
      BY <1>6, <3>2
    <3> QED
      BY <3>3, <3>4, <3>5, <3>6
  <2> QED
    BY <2>1
<1>11. ps \in Seq(Seq(Chars)) /\ Len(ps) = c /\ \A k \in 1 .. c : ps[k] = piece(k)
  <2>1. ps \in [1 .. c -> Seq(Chars)]
    BY <1>5, <1>10
  <2>2. ps \in Seq(Seq(Chars)) /\ Len(ps) = c
    BY <1>7, <2>1, FunctionIsSeq
  <2> QED
    BY <1>5, <2>2
<1> DEFINE texts == [k \in 0 .. c |-> IF Upto(k) < m THEN SubSeq(text, 1, Upto(k)) ELSE <<>>]
           counts == [k \in 0 .. c |-> IF Upto(k) < m THEN n ELSE n + 1]
<1>12. /\ texts \in [0 .. c -> Seq(Chars)] /\ counts \in [0 .. c -> Nat]
       /\ \A k \in 0 .. c : SubSeq(text, 1, Upto(k)) \in Seq(Chars)
  <2>1. ASSUME NEW k \in 0 .. c PROVE SubSeq(text, 1, Upto(k)) \in Seq(Chars)
    <3>1. Upto(k) \in 0 .. Len(text) /\ 1 \in Nat \ {0}
      BY <1>8 DEF len
    <3> QED
      BY <1>3, <3>1, Sliced
  <2>2. <<>> \in Seq(Chars)
    OBVIOUS
  <2> QED
    BY <2>1, <2>2
<1>13. \A k \in 0 .. c : /\ texts[k] = IF Upto(k) < m THEN SubSeq(text, 1, Upto(k)) ELSE <<>>
                         /\ counts[k] = IF Upto(k) < m THEN n ELSE n + 1
  OBVIOUS
<1> HIDE DEF texts, counts, ps
<1>14. ASSUME NEW k \in 1 .. c
       PROVE  Takes(texts[k - 1], counts[k - 1], ps[k], texts[k], counts[k], fs)
  <2>1. PICK a \in 0 .. len, b \in 0 .. len : a = Upto(k - 1) /\ b = Upto(k)
    <3>1. k - 1 \in 0 .. c /\ k \in 0 .. c
      BY <1>7
    <3> QED
      BY <1>8, <3>1
  <2>2. a < b /\ (b = len \/ b = a + size)
    BY <1>8, <2>1
  <2>3. /\ texts[k - 1] = IF a < m THEN SubSeq(text, 1, a) ELSE <<>>
        /\ counts[k - 1] = IF a < m THEN n ELSE n + 1
        /\ texts[k] = IF b < m THEN SubSeq(text, 1, b) ELSE <<>>
        /\ counts[k] = IF b < m THEN n ELSE n + 1
    <3>1. k - 1 \in 0 .. c /\ k \in 0 .. c
      BY <1>7
    <3> QED
      BY <1>13, <2>1, <3>1
  <2>4. /\ ps[k] = SubSeq(text, a + 1, b) /\ ps[k] \in Seq(Chars) /\ Len(ps[k]) = b - a
        /\ \A i \in 1 .. b - a : ps[k][i] = text[a + i]
    BY <1>9, <1>10, <1>11, <2>1
  <2>5. SubSeq(text, 1, a) \o ps[k] = SubSeq(text, 1, b)
    <3>1. a \in 0 .. Len(text) /\ b \in a .. Len(text)
      BY <1>6, <2>1, <2>2 DEF len
    <3>2. SubSeq(text, 1, a) \o SubSeq(text, a + 1, b) = SubSeq(text, 1, b)
      BY ONLY <3>1, <1>3, SliceJoined
    <3> QED
      BY <2>4, <3>2
  <2>6. CASE a >= m
    <3>1. a = m /\ b = m + 1 /\ len = m + 1 /\ b - a = 1 /\ ~(a < m) /\ ~(b < m)
      BY <1>1, <1>6, <2>1, <2>2, <2>6
    <3>2. ps[k] = <<LF>>
      <4>1. Len(ps[k]) = 1 /\ ps[k][1] = LF
        BY <1>1, <1>6, <2>4, <3>1
      <4>2. ps[k] \in Seq(Chars)
        BY <2>4
      <4> QED
        BY ONLY <4>1, <4>2, Singleton
    <3> QED
      BY <2>3, <3>1, <3>2 DEF Takes
  <2>7. CASE a < m /\ b < m
    <3>1. b - a = size /\ b \in 1 .. m - 1
      BY <1>1, <1>6, <2>1, <2>2, <2>7
    <3>2. ps[k] # <<LF>>
      BY <2>4, <3>1
    <3>3. SubSeq(text, 1, b) = SubSeq(head, 1, b)
      <4> DEFINE u == SubSeq(text, 1, b)
                 v == SubSeq(head, 1, b)
      <4>1. u \in Seq(Chars) /\ Len(u) = b /\ \A i \in 1 .. b : u[i] = text[i]
        <5>1. 1 \in Nat \ {0} /\ b \in 0 .. Len(text) /\ 1 <= b /\ b - 1 + 1 = b
          BY <1>6, <3>1, <1>1, <2>1 DEF len
        <5>2. /\ u \in Seq(Chars) /\ Len(u) = IF 1 <= b THEN b - 1 + 1 ELSE 0
              /\ \A i \in 1 .. b - 1 + 1 : u[i] = text[1 + i - 1]
          BY ONLY <5>1, <1>3, Sliced
        <5>3. \A i \in 1 .. b : 1 + i - 1 = i
          BY <2>1
        <5> QED
          BY <5>1, <5>2, <5>3
      <4>2. v \in Seq(Chars) /\ Len(v) = b /\ \A i \in 1 .. b : v[i] = head[i]
        <5>1. 1 \in Nat \ {0} /\ b \in 0 .. Len(head) /\ 1 <= b /\ b - 1 + 1 = b
          BY <3>1, <1>1, <2>1 DEF m
        <5>2. /\ v \in Seq(Chars) /\ Len(v) = IF 1 <= b THEN b - 1 + 1 ELSE 0
              /\ \A i \in 1 .. b - 1 + 1 : v[i] = head[1 + i - 1]
          BY ONLY <5>1, <1>1, Sliced
        <5>3. \A i \in 1 .. b : 1 + i - 1 = i
          BY <2>1
        <5> QED
          BY <5>1, <5>2, <5>3
      <4> HIDE DEF u, v
      <4>3. \A i \in 1 .. Len(u) : u[i] = v[i]
        <5>1. \A i \in 1 .. b : i \in 1 .. m
          BY <1>1, <3>1
        <5> QED
          BY <1>3, <4>1, <4>2, <5>1
      <4>4. u = v
        BY <4>1, <4>2, <4>3, SameSeq
      <4> QED
        BY <4>4 DEF u, v
    <3>4. \E q \in 1 .. Len(S!marshall(fs[n + 1])) - 1 : texts[k] = SubSeq(S!marshall(fs[n + 1]), 1, q)
      BY <2>3, <2>7, <3>1, <3>3 DEF head, m
    <3> QED
      BY <2>3, <2>5, <2>7, <3>2, <3>4 DEF Takes
  <2>8. CASE a < m /\ b >= m
    <3>1. ps[k] # <<LF>>
      <4>1. m - a \in 1 .. b - a /\ a + (m - a) = m
        BY <1>1, <2>1, <2>8
      <4>2. ps[k][m - a] = NUL
        <5>1. ps[k][m - a] = text[a + (m - a)]
          BY <2>4, <4>1
        <5>2. m \in 1 .. m
          BY <1>1
        <5> QED
          BY <1>1, <1>3, <4>1, <5>1, <5>2
      <4>3. ASSUME ps[k] = <<LF>> PROVE FALSE
        <5>0. ps[k] \in Seq(Chars)
          BY <2>4
        <5>1. b - a = 1 /\ ps[k][1] = LF
          <6>1. Len(ps[k]) = 1 /\ ps[k][1] = LF
            BY ONLY <4>3, <5>0, Singleton
          <6> QED
            BY <2>4, <6>1
        <5>2. m - a = 1
          BY <1>1, <2>1, <4>1, <5>1
        <5> QED
          BY <1>2, <4>2, <5>1, <5>2
      <4> QED
        BY <4>3
    <3>2. \E end \in Trails : SubSeq(text, 1, b) = head \o end
      <4>1. CASE b = len
        <5>1. SubSeq(text, 1, len) = text
          BY <1>3 DEF len
        <5> QED
          BY <4>1, <5>1 DEF text
      <4>2. CASE b # len
        <5>1. b = m /\ m < len
          BY <1>1, <1>6, <2>1, <2>8, <4>2
        <5> DEFINE u == SubSeq(text, 1, m)
        <5>2. u \in Seq(Chars) /\ Len(u) = m /\ \A i \in 1 .. m : u[i] = text[i]
          <6>1. 1 \in Nat \ {0} /\ m \in 0 .. Len(text) /\ 1 <= m /\ m - 1 + 1 = m
            BY <1>6, <1>1 DEF len
          <6>2. /\ u \in Seq(Chars) /\ Len(u) = IF 1 <= m THEN m - 1 + 1 ELSE 0
                /\ \A i \in 1 .. m - 1 + 1 : u[i] = text[1 + i - 1]
            BY ONLY <6>1, <1>3, Sliced
          <6>3. \A i \in 1 .. m : 1 + i - 1 = i
            BY <1>1
          <6> QED
            BY <6>1, <6>2, <6>3
        <5> HIDE DEF u
        <5>3. u = head
          BY <1>1, <1>3, <5>2, SameSeq DEF m
        <5>4. head \o <<>> = head
          BY <1>1
        <5> QED
          BY <5>1, <5>3, <5>4 DEF u, Trails
      <4> QED
        BY <4>1, <4>2
    <3>3. \E end \in Trails : texts[k - 1] \o ps[k] = S!marshall(fs[n + 1]) \o end
      BY <2>3, <2>5, <2>8, <3>2 DEF head
    <3>4. texts[k] = <<>> /\ counts[k - 1] = n /\ counts[k] = n + 1
      BY <1>1, <2>1, <2>3, <2>8
    <3> QED
      BY <3>1, <3>3, <3>4 DEF Takes
  <2> QED
    BY <1>1, <2>1, <2>6, <2>7, <2>8
<1>15. texts[0] = <<>> /\ counts[0] = n /\ texts[c] = <<>> /\ counts[c] = n + 1
  <2>1. 0 \in 0 .. c /\ c \in 0 .. c /\ 0 < m /\ ~(len < m)
    BY <1>1, <1>6, <1>7
  <2>2. SubSeq(text, 1, 0) = <<>>
    <3>1. 0 \in 0 .. Len(text) /\ 1 \in Nat \ {0} /\ ~(1 <= 0)
      BY <1>6 DEF len
    <3>2. SubSeq(text, 1, 0) \in Seq(Chars) /\ Len(SubSeq(text, 1, 0)) = 0
      BY <1>3, <3>1, Sliced
    <3> QED
      BY <3>2
  <2> QED
    BY <1>8, <1>13, <2>1, <2>2
<1>16. Way(<<>>, n, ps, <<>>, n + 1, fs)
  BY <1>11, <1>12, <1>14, <1>15 DEF Way
<1> QED
  BY <1>11, <1>16 DEF ps, text, head

\* What is on its way stays so when one more frame is sent.
LEMMA WayMore ==
  ASSUME NEW fs \in Seq(Frames), NEW f \in Frames, NEW ps, NEW text, NEW n, NEW more, NEW m,
         Way(text, n, ps, more, m, fs)
  PROVE  Way(text, n, ps, more, m, Append(fs, f))
<1> DEFINE a == Len(ps)
           gs == Append(fs, f)
<1>1. PICK ts \in [0 .. a -> Seq(Chars)], cs \in [0 .. a -> Nat] :
        /\ ts[0] = text /\ cs[0] = n /\ ts[a] = more /\ cs[a] = m
        /\ \A i \in 1 .. a : Takes(ts[i - 1], cs[i - 1], ps[i], ts[i], cs[i], fs)
  BY DEF Way
<1>2. Len(fs) \in Nat /\ Len(gs) = Len(fs) + 1 /\ \A i \in 1 .. Len(fs) : gs[i] = fs[i]
  BY SeqDomain, Appended
<1> HIDE DEF gs
<1>3. \A i \in 1 .. Len(fs) : i \in 1 .. Len(gs)
  BY <1>2
<1>4. ASSUME NEW x, NEW k, NEW p, NEW y, NEW l, Takes(x, k, p, y, l, fs) PROVE Takes(x, k, p, y, l, gs)
  <2>1. CASE p = <<LF>>
    BY <1>4, <2>1 DEF Takes
  <2>2. CASE p # <<LF>>
    <3>1. k + 1 \in 1 .. Len(fs)
      BY <1>4, <2>2 DEF Takes
    <3>2. gs[k + 1] = fs[k + 1] /\ k + 1 \in 1 .. Len(gs)
      BY <1>2, <1>3, <3>1
    <3> QED
      BY <1>4, <2>2, <3>1, <3>2 DEF Takes
  <2> QED
    BY <2>1, <2>2
<1>5. \A i \in 1 .. a : Takes(ts[i - 1], cs[i - 1], ps[i], ts[i], cs[i], gs)
  BY <1>1, <1>4
<1>6. Way(text, n, ps, more, m, gs)
  BY <1>1, <1>5 DEF Way
<1> QED
  BY <1>6 DEF gs

\* A frame is sent behind what is on its way.
LEMMA CarriedFrame ==
  ASSUME NEW fs \in Seq(Frames), NEW f \in Frames, NEW trail \in Trails, NEW size \in Pieces,
         NEW ps \in Seq(Seq(Chars)), NEW text, NEW n, Way(text, n, ps, <<>>, Len(fs), fs)
  PROVE  /\ ps \o S!Cut(S!marshall(f) \o trail, size) \in Seq(Seq(Chars))
         /\ Way(text, n, ps \o S!Cut(S!marshall(f) \o trail, size), <<>>, Len(Append(fs, f)), Append(fs, f))
<1> DEFINE gs == Append(fs, f)
           qs == S!Cut(S!marshall(f) \o trail, size)
<1>1. /\ Len(fs) \in Nat /\ Len(gs) = Len(fs) + 1 /\ gs[Len(fs) + 1] = f
      /\ Len(fs) + 1 \in 1 .. Len(gs)
  BY SeqDomain, Appended
<1>2. Way(text, n, ps, <<>>, Len(fs), gs)
  BY WayMore
<1>3. size \in Nat \ {0, 1}
  BY StompOK
<1> HIDE DEF gs
<1>4. qs \in Seq(Seq(Chars)) /\ Way(<<>>, Len(fs), qs, <<>>, Len(fs) + 1, gs)
  BY <1>1, <1>3, FrameTakes
<1> HIDE DEF qs
<1>5. Way(text, n, ps \o qs, <<>>, Len(fs) + 1, gs)
  BY <1>2, <1>4, WayJoined
<1>6. ps \o qs \in Seq(Seq(Chars))
  BY ONLY <1>4, Joined, ps \in Seq(Seq(Chars))
<1> QED
  BY <1>1, <1>5, <1>6 DEF gs, qs

\* A heart-beat is.
LEMMA CarriedBeat ==
  ASSUME NEW fs, NEW ps \in Seq(Seq(Chars)), NEW text, NEW n, NEW m \in Nat, Way(text, n, ps, <<>>, m, fs)
  PROVE  ps \o << <<LF>> >> \in Seq(Seq(Chars)) /\ Way(text, n, ps \o << <<LF>> >>, <<>>, m, fs)
<1> DEFINE beat == <<LF>>
           qs == <<beat>>
<1>1. beat \in Seq(Chars)
  BY DEF Chars
<1>2. Takes(<<>>, m, beat, <<>>, m, fs)
  BY DEF Takes
<1>3. <<>> \in Seq(Chars)
  OBVIOUS
<1> HIDE DEF beat
<1>4. Way(<<>>, m, qs, <<>>, m, fs)
  BY <1>2, <1>3, WayOne
<1>5. qs \in Seq(Seq(Chars))
  BY <1>1
<1> HIDE DEF qs
<1>6. ps \o qs \in Seq(Seq(Chars))
  BY ONLY <1>5, Joined, ps \in Seq(Seq(Chars))
<1>7. Way(text, n, ps \o qs, <<>>, m, fs)
  BY <1>4, <1>5, WayJoined
<1> QED
  BY <1>6, <1>7 DEF qs, beat

\* What the receiver makes of a piece: nothing but a longer text, or the next frame.
LEMMA PieceRead ==
  ASSUME NEW fs \in Seq(Frames), NEW text, NEW n \in Nat, NEW piece, NEW more \in Seq(Chars), NEW m,
         piece # <<LF>>, Takes(text, n, piece, more, m, fs)
  PROVE  \/ /\ S!unmarshall(text \o piece) = [frames |-> <<>>, partial |-> more]
            /\ m = n
         \/ /\ S!unmarshall(text \o piece) = [frames |-> <<fs[n + 1]>>, partial |-> more]
            /\ m = n + 1 /\ n + 1 \in 1 .. Len(fs) /\ fs[n + 1] \in Frames
<1> DEFINE f == fs[n + 1]
           head == S!marshall(f)
<1>1. n + 1 \in 1 .. Len(fs)
  BY DEF Takes
<1>2. f \in Frames
  BY <1>1, ElementOf
<1>3. CASE /\ m = n /\ more = text \o piece
           /\ \E q \in 1 .. Len(head) - 1 : more = SubSeq(head, 1, q)
  <2>1. PICK q \in 1 .. Len(head) - 1 : more = SubSeq(head, 1, q)
    BY <1>3
  <2>2. head \in Seq(Chars) /\ Len(f.body) \in Nat /\ Len(head) = Len(f.body) + 6
        /\ \A i \in 1 .. Len(f.body) + 5 : head[i] # NUL
    <3>1. f.body \in Seq(Chars \ {NUL})
      BY <1>2 DEF Frames
    <3>2. Len(f.body) \in Nat
      BY <3>1, SeqDomain
    <3> QED
      BY <1>2, <3>2, Marshalled
  <2> HIDE DEF head, f
  <2>3. \A i \in 1 .. Len(more) : more[i] # NUL
    <3>1. 1 \in Nat \ {0} /\ q \in 0 .. Len(head) /\ 1 <= q /\ q - 1 + 1 = q /\ q <= Len(f.body) + 5
      BY <2>2
    <3>2. /\ Len(more) = IF 1 <= q THEN q - 1 + 1 ELSE 0
          /\ \A k \in 1 .. q - 1 + 1 : more[k] = head[1 + k - 1]
      BY ONLY <2>1, <3>1, <2>2, Sliced
    <3>3. \A k \in 1 .. q : 1 + k - 1 = k /\ k \in 1 .. Len(f.body) + 5
      BY <2>2, <3>1
    <3> QED
      BY <2>2, <3>1, <3>2, <3>3
  <2>4. S!unmarshall(more) = [frames |-> <<>>, partial |-> more]
    BY <2>3, ReadPart
  <2> QED
    BY <1>3, <2>4
<1>4. CASE m = n + 1 /\ more = <<>> /\ \E trail \in Trails : text \o piece = head \o trail
  <2>1. PICK trail \in Trails : text \o piece = head \o trail
    BY <1>4
  <2>2. S!unmarshall(head \o trail) = [frames |-> <<f>>, partial |-> <<>>]
    BY <1>2, ReadFrame
  <2> QED
    BY <1>1, <1>2, <1>4, <2>1, <2>2
<1> QED
  BY <1>3, <1>4 DEF Takes

-----------------------------------------------------------------------------
(* The connection: the inductive invariant *)

\* The first n ids of subscriptions.
SubIds(n) == {S!sub(i) : i \in 0 .. n - 1}

Wanted(f, subs) == f.command = "MESSAGE" => f.header \in subs

Brokers == [size : Pieces, period : Periods, text : Seq(Chars), subs : SUBSET S!Words,
            sent : Seq(Frames), quiet : Nat, alive : BOOLEAN]

BrokerOK(b, n) ==
  /\ b \in Brokers /\ b.subs \subseteq SubIds(n)
  /\ \A j \in 1 .. Len(b.sent) : b.sent[j].command = "MESSAGE" => b.sent[j].header \in SubIds(n)

\* Of the first n frames those were handled that were wanted, in their order; with the
\* frames that were not for a while.
Handled(n, sent, handled, subs) ==
  /\ \E at \in [1 .. Len(handled) -> 1 .. n] :
       /\ \A i, j \in 1 .. Len(handled) : i < j => at[i] < at[j]
       /\ \A i \in 1 .. Len(handled) : handled[i] = sent[at[i]]
  /\ \A j \in 1 .. n : Wanted(sent[j], subs) => \E i \in 1 .. Len(handled) : handled[i] = sent[j]

\* What the client has and what is on its way to it are the frames that are not handled yet.
DownOK(sent, text, pieces, handled, subs) ==
  \E n \in 0 .. Len(sent) :
    Way(text, n, pieces, <<>>, Len(sent), sent) /\ Handled(n, sent, handled, subs)

\* What the broker has and what is on its way to it are frames, too.
UpOK(text, pieces, n) ==
  \E fs \in Seq(Frames), k \in Nat :
    /\ Way(text, k, pieces, <<>>, Len(fs), fs)
    /\ \A j \in 1 .. Len(fs) : fs[j].command = "SUBSCRIBE" => fs[j].header \in SubIds(n)

FInv ==
  /\ v3 \in Nat /\ v10 \in Nat /\ v3 <= v10 /\ v3 <= MaxFrames + 1
  /\ v4 \subseteq SubIds(v3)
  /\ v5 \in Seq(Chars) /\ v9 \in Seq(Frames)
  /\ v11 \in Seq(Seq(Chars)) /\ v12 \in Seq(Seq(Chars))
  /\ BrokerOK(v13, v3)
  /\ DownOK(v13.sent, v5, v12, v9, v4)
  /\ v13.alive => UpOK(v13.text, v11, v3)

LEMMA IdsKnown ==
  ASSUME NEW n \in Nat
  PROVE  /\ SubIds(n) \subseteq SubIds(n + 1) /\ S!sub(n) \in SubIds(n + 1)
         /\ n <= MaxFrames + 1 => SubIds(n) \subseteq S!Words
         /\ n <= MaxFrames => S!sub(n) \in S!Words /\ S!tx(n) \in S!Words /\ S!sub(n) \notin SubIds(n)
<1>1. 0 .. n - 1 \subseteq 0 .. (n + 1) - 1 /\ n \in 0 .. (n + 1) - 1
  OBVIOUS
<1>2. SubIds(n) \subseteq SubIds(n + 1) /\ S!sub(n) \in SubIds(n + 1)
  BY <1>1 DEF SubIds
<1>3. ASSUME n <= MaxFrames + 1 PROVE SubIds(n) \subseteq S!Words
  <2>1. \A i \in 0 .. n - 1 : i \in 0 .. MaxFrames
    BY <1>3, StompOK
  <2> QED
    BY <2>1, StompOK DEF SubIds
<1>4. ASSUME n <= MaxFrames PROVE S!sub(n) \in S!Words /\ S!tx(n) \in S!Words /\ S!sub(n) \notin SubIds(n)
  <2>1. n \in 0 .. MaxFrames
    BY <1>4, StompOK
  <2>2. \A i \in 0 .. n - 1 : i \in 0 .. MaxFrames /\ i # n
    BY <1>4, StompOK
  <2> QED
    BY <2>1, <2>2, StompOK DEF SubIds
<1> QED
  BY <1>2, <1>3, <1>4

LEMMA DownNewSubs ==
  ASSUME NEW sent, NEW text, NEW ps, NEW handled, NEW subs, NEW more,
         DownOK(sent, text, ps, handled, subs),
         \A j \in 1 .. Len(sent) : sent[j].command = "MESSAGE" /\ sent[j].header \in more => sent[j].header \in subs,
         Len(sent) \in Nat
  PROVE  DownOK(sent, text, ps, handled, more)
<1>1. PICK n \in 0 .. Len(sent) :
        Way(text, n, ps, <<>>, Len(sent), sent) /\ Handled(n, sent, handled, subs)
  BY DEF DownOK
<1>2. \A j \in 1 .. n : j \in 1 .. Len(sent)
  OBVIOUS
<1>3. \A j \in 1 .. n : Wanted(sent[j], more) => Wanted(sent[j], subs)
  BY <1>2 DEF Wanted
<1>4. Handled(n, sent, handled, more)
  BY <1>1, <1>3 DEF Handled
<1> QED
  BY <1>1, <1>4 DEF DownOK

LEMMA DownPublished ==
  ASSUME NEW sent \in Seq(Frames), NEW text, NEW ps \in Seq(Seq(Chars)), NEW handled, NEW subs,
         NEW f \in Frames, NEW trail \in Trails, NEW size \in Pieces,
         DownOK(sent, text, ps, handled, subs)
  PROVE  /\ ps \o S!Cut(S!marshall(f) \o trail, size) \in Seq(Seq(Chars))
         /\ DownOK(Append(sent, f), text, ps \o S!Cut(S!marshall(f) \o trail, size), handled, subs)
<1> DEFINE gs == Append(sent, f)
           qs == ps \o S!Cut(S!marshall(f) \o trail, size)
<1>1. PICK n \in 0 .. Len(sent) :
        Way(text, n, ps, <<>>, Len(sent), sent) /\ Handled(n, sent, handled, subs)
  BY DEF DownOK
<1>2. qs \in Seq(Seq(Chars)) /\ Way(text, n, qs, <<>>, Len(gs), gs)
  BY <1>1, CarriedFrame
<1>3. /\ Len(sent) \in Nat /\ Len(gs) = Len(sent) + 1 /\ \A j \in 1 .. Len(sent) : gs[j] = sent[j]
  BY SeqDomain, Appended
<1> HIDE DEF gs, qs
<1>4. n \in 0 .. Len(gs) /\ \A j \in 1 .. n : gs[j] = sent[j]
  BY <1>3
<1>5. Handled(n, gs, handled, subs)
  BY <1>1, <1>4 DEF Handled
<1>6. DownOK(gs, text, qs, handled, subs)
  BY <1>2, <1>4, <1>5, ZenonT(40) DEF DownOK
<1> QED
  BY <1>2, <1>6 DEF gs, qs

\* The callbacks of the next frame.
LEMMA HandledNext ==
  ASSUME NEW sent \in Seq(Frames), NEW handled \in Seq(Frames), NEW subs, NEW n \in Nat,
         n + 1 \in 1 .. Len(sent), Handled(n, sent, handled, subs)
  PROVE  /\ Wanted(sent[n + 1], subs) =>
              /\ Append(handled, sent[n + 1]) \in Seq(Frames)
              /\ Handled(n + 1, sent, Append(handled, sent[n + 1]), subs)
         /\ ~Wanted(sent[n + 1], subs) => Handled(n + 1, sent, handled, subs)
<1> DEFINE f == sent[n + 1]
           h == Len(handled)
           more == Append(handled, f)
<1>1. PICK at \in [1 .. h -> 1 .. n] :
        /\ \A i, j \in 1 .. h : i < j => at[i] < at[j]
        /\ \A i \in 1 .. h : handled[i] = sent[at[i]]
  BY DEF Handled
<1>2. \A j \in 1 .. n : Wanted(sent[j], subs) => \E i \in 1 .. h : handled[i] = sent[j]
  BY DEF Handled
<1>3. h \in Nat /\ f \in Frames
  BY SeqDomain, ElementOf
<1>4. \A j \in 1 .. n + 1 : j \in 1 .. n \/ j = n + 1
  OBVIOUS
<1>5. ASSUME ~Wanted(f, subs) PROVE Handled(n + 1, sent, handled, subs)
  <2>1. at \in [1 .. h -> 1 .. n + 1]
    OBVIOUS
  <2>2. \A j \in 1 .. n + 1 : Wanted(sent[j], subs) => \E i \in 1 .. h : handled[i] = sent[j]
    BY <1>2, <1>4, <1>5
  <2> QED
    BY <1>1, <2>1, <2>2 DEF Handled
<1>6. ASSUME Wanted(f, subs) PROVE more \in Seq(Frames) /\ Handled(n + 1, sent, more, subs)
  <2>1. more \in Seq(Frames) /\ Len(more) = h + 1 /\ more[h + 1] = f /\ \A i \in 1 .. h : more[i] = handled[i]
    BY <1>3, Appended
  <2> HIDE DEF more, h
  <2> DEFINE to == [i \in 1 .. h + 1 |-> IF i = h + 1 THEN n + 1 ELSE at[i]]
  <2>2. \A i \in 1 .. h + 1 : i = h + 1 \/ (i \in 1 .. h /\ i # h + 1)
    BY <1>3
  <2>3. to \in [1 .. h + 1 -> 1 .. n + 1]
    BY <2>2
  <2>4. to[h + 1] = n + 1 /\ \A i \in 1 .. h : to[i] = at[i]
    BY <1>3
  <2> HIDE DEF to
  <2>5. \A i, j \in 1 .. h + 1 : i < j => to[i] < to[j]
    <3>1. ASSUME NEW i \in 1 .. h + 1, NEW j \in 1 .. h + 1, i < j PROVE to[i] < to[j]
      <4>1. i \in 1 .. h
        BY <1>3, <3>1
      <4>2. CASE j = h + 1
        <5>1. to[i] \in 1 .. n /\ to[j] = n + 1
          BY <2>4, <4>1, <4>2
        <5> QED
          BY <5>1
      <4>3. CASE j \in 1 .. h
        BY <1>1, <2>4, <3>1, <4>1, <4>3
      <4> QED
        BY <2>2, <4>2, <4>3
    <3> QED
      BY <3>1
  <2>6. \A i \in 1 .. h + 1 : more[i] = sent[to[i]]
    BY <1>1, <2>1, <2>2, <2>4
  <2>7. \A j \in 1 .. n + 1 : Wanted(sent[j], subs) => \E i \in 1 .. h + 1 : more[i] = sent[j]
    <3>1. ASSUME NEW j \in 1 .. n + 1, Wanted(sent[j], subs) PROVE \E i \in 1 .. h + 1 : more[i] = sent[j]
      <4>1. CASE j = n + 1
        <5>1. h + 1 \in 1 .. h + 1
          BY <1>3
        <5> QED
          BY <2>1, <4>1, <5>1
      <4>2. CASE j \in 1 .. n
        <5>1. PICK i \in 1 .. h : handled[i] = sent[j]
          BY <1>2, <3>1, <4>2
        <5>2. i \in 1 .. h + 1
          BY <1>3
        <5> QED
          BY <2>1, <5>1, <5>2
      <4> QED
        BY <1>4, <4>1, <4>2
    <3> QED
      BY <3>1
  <2>8. Handled(n + 1, sent, more, subs)
    BY <2>1, <2>3, <2>5, <2>6, <2>7, ZenonT(40) DEF Handled
  <2> QED
    BY <2>1, <2>8
<1> QED
  BY <1>5, <1>6

LEMMA WiderIds ==
  ASSUME NEW n \in Nat
  PROVE  /\ \A b : BrokerOK(b, n) => BrokerOK(b, n + 1)
         /\ \A text, ps : UpOK(text, ps, n) => UpOK(text, ps, n + 1)
<1>1. SubIds(n) \subseteq SubIds(n + 1)
  BY IdsKnown
<1>2. ASSUME NEW b, BrokerOK(b, n) PROVE BrokerOK(b, n + 1)
  BY <1>1, <1>2 DEF BrokerOK
<1>3. ASSUME NEW text, NEW ps, UpOK(text, ps, n) PROVE UpOK(text, ps, n + 1)
  <2>1. PICK fs \in Seq(Frames), k \in Nat :
          /\ Way(text, k, ps, <<>>, Len(fs), fs)
          /\ \A j \in 1 .. Len(fs) : fs[j].command = "SUBSCRIBE" => fs[j].header \in SubIds(n)
    BY <1>3 DEF UpOK
  <2>2. \A j \in 1 .. Len(fs) : fs[j].command = "SUBSCRIBE" => fs[j].header \in SubIds(n + 1)
    BY <1>1, <2>1
  <2> QED
    BY <2>1, <2>2 DEF UpOK
<1> QED
  BY <1>2, <1>3

LEMMA Untrailed ==
  ASSUME NEW f \in Frames
  PROVE  S!marshall(f) \o <<>> = S!marshall(f) /\ <<>> \in Trails
<1>1. S!marshall(f) \in Seq(Chars)
  BY Marshalled
<1> HIDE DEF S!marshall
<1> QED
  BY <1>1 DEF Trails

LEMMA FrameType ==
  ASSUME NEW command \in S!Words, NEW header \in S!Words, NEW body \in Seq(Chars \ {NUL})
  PROVE  /\ S!Frame(command, header, body) \in Frames
         /\ S!Frame(command, header, body).command = command
         /\ S!Frame(command, header, body).header = header
BY DEF S!Frame, Frames

\* What is on its way up when a frame is sent.
Sent(command, header, body) ==
  IF v13.alive THEN v11 \o S!Cut(S!marshall(S!Frame(command, header, body)), v13.size) ELSE <<>>

LEMMA Transmitted ==
  ASSUME FInv, NEW command \in S!Words, NEW header \in S!Words, NEW body \in Seq(Chars \ {NUL}),
         v11' = Sent(command, header, body), NEW n \in {v3, v3 + 1},
         command = "SUBSCRIBE" => header \in SubIds(n)
  PROVE  v11' \in Seq(Seq(Chars)) /\ (v13.alive => UpOK(v13.text, v11', n))
<1> DEFINE f == S!Frame(command, header, body)
           size == v13.size
           qs == v11 \o S!Cut(S!marshall(f) \o <<>>, size)
<1>1. f \in Frames /\ f.command = command /\ f.header = header
  BY FrameType
<1>2. v11' = IF v13.alive THEN qs ELSE <<>>
  BY <1>1, Untrailed DEF Sent
<1> HIDE DEF f
<1>3. size \in Pieces /\ v11 \in Seq(Seq(Chars)) /\ <<>> \in Trails
  BY <1>1, Untrailed DEF FInv, BrokerOK, Brokers
<1> HIDE DEF size
<1>4. CASE ~v13.alive
  BY <1>2, <1>4
<1>5. CASE v13.alive
  <2>1. UpOK(v13.text, v11, n)
    BY <1>5, WiderIds DEF FInv
  <2>2. PICK fs \in Seq(Frames), k \in Nat :
          /\ Way(v13.text, k, v11, <<>>, Len(fs), fs)
          /\ \A j \in 1 .. Len(fs) : fs[j].command = "SUBSCRIBE" => fs[j].header \in SubIds(n)
    BY <2>1 DEF UpOK
  <2> DEFINE gs == Append(fs, f)
  <2>3. qs \in Seq(Seq(Chars)) /\ Way(v13.text, k, qs, <<>>, Len(gs), gs)
    BY <1>1, <1>3, <2>2, CarriedFrame
  <2>4. /\ Len(fs) \in Nat /\ gs \in Seq(Frames) /\ Len(gs) = Len(fs) + 1 /\ gs[Len(fs) + 1] = f
        /\ \A j \in 1 .. Len(fs) : gs[j] = fs[j]
    BY <1>1, SeqDomain, Appended
  <2> HIDE DEF gs
  <2>5. \A j \in 1 .. Len(gs) : j \in 1 .. Len(fs) \/ j = Len(fs) + 1
    BY <2>4
  <2>6. \A j \in 1 .. Len(gs) : gs[j].command = "SUBSCRIBE" => gs[j].header \in SubIds(n)
    BY <1>1, <2>2, <2>4, <2>5
  <2> HIDE DEF qs
  <2>7. UpOK(v13.text, qs, n)
    BY <2>3, <2>4, <2>6 DEF UpOK
  <2> QED
    BY <1>2, <1>5, <2>3, <2>7
<1> QED
  BY <1>4, <1>5

-----------------------------------------------------------------------------
(* The connection: every step preserves it *)

LEMMA NoBody ==
  /\ <<>> \in Seq(Chars \ {NUL})
  /\ {"CONNECT", "CONNECTED", "SUBSCRIBE", "UNSUBSCRIBE", "BEGIN", "SEND", "DISCONNECT", "MESSAGE", "RECEIPT",
      "heart-beat", "destination", "receipt-id", ""} \subseteq S!Words
BY DEF S!Words

LEMMA onopenStep == ASSUME FInv, S!onopen PROVE FInv'
<1>1. v11' = Sent("CONNECT", "heart-beat", <<>>) /\ UNCHANGED <<v3, v4, v5, v9, v10, v12, v13>>
  BY DEF S!onopen, S!_transmit, S!Send, Sent
<1>2. v11' \in Seq(Seq(Chars)) /\ (v13.alive => UpOK(v13.text, v11', v3))
  BY <1>1, NoBody, Transmitted
<1> QED
  BY <1>1, <1>2 DEF FInv

LEMMA disconnectStep == ASSUME FInv, S!disconnect PROVE FInv'
<1>1. v11' = Sent("DISCONNECT", "", <<>>) /\ UNCHANGED <<v3, v4, v5, v9, v10, v12, v13>>
  BY DEF S!disconnect, S!_transmit, S!Send, Sent
<1>2. v11' \in Seq(Seq(Chars)) /\ (v13.alive => UpOK(v13.text, v11', v3))
  BY <1>1, NoBody, Transmitted
<1> QED
  BY <1>1, <1>2 DEF FInv

\* What a call of the user leaves alone, and the bound on the ids.
LEMMA CallStep ==
  ASSUME FInv, S!Call
  PROVE  /\ v3 \in Nat /\ v3 <= MaxFrames /\ v10' = v10 + 1 /\ v10' \in Nat /\ v3 + 1 <= v10'
         /\ UNCHANGED <<v5, v9, v12, v13>>
<1>1. v10 + Len(v13.sent) <= MaxFrames /\ v10' = v10 + 1 /\ UNCHANGED <<v5, v9, v12, v13>>
  BY DEF S!Call
<1>2. v3 \in Nat /\ v10 \in Nat /\ v3 <= v10 /\ v13.sent \in Seq(Frames)
  BY DEF FInv, BrokerOK, Brokers
<1>3. Len(v13.sent) \in Nat /\ MaxFrames \in Nat
  BY <1>2, SeqDomain, StompOK
<1> QED
  BY <1>1, <1>2, <1>3

LEMMA subscribeStep == ASSUME FInv, S!subscribe PROVE FInv'
<1>1. /\ v3 \in Nat /\ v3 <= MaxFrames /\ v10' \in Nat /\ v3 + 1 <= v10'
      /\ UNCHANGED <<v5, v9, v12, v13>>
  BY CallStep DEF S!subscribe
<1>2. v3' = v3 + 1 /\ v4' = v4 \union {S!sub(v3)} /\ v11' = Sent("SUBSCRIBE", S!sub(v3), <<>>)
  BY DEF S!subscribe, S!_transmit, S!Send, Sent
<1> HIDE DEF S!sub
<1>3. /\ S!sub(v3) \in S!Words /\ S!sub(v3) \notin SubIds(v3) /\ S!sub(v3) \in SubIds(v3 + 1)
      /\ SubIds(v3) \subseteq SubIds(v3 + 1)
  BY <1>1, IdsKnown
<1>4. v11' \in Seq(Seq(Chars)) /\ (v13.alive => UpOK(v13.text, v11', v3 + 1))
  BY <1>2, <1>3, NoBody, Transmitted
<1>5. BrokerOK(v13, v3 + 1)
  BY <1>1, WiderIds DEF FInv
<1>6. v4' \subseteq SubIds(v3 + 1)
  BY <1>2, <1>3 DEF FInv
<1>7. DownOK(v13.sent, v5, v12, v9, v4')
  <2>1. v13.sent \in Seq(Frames)
    BY DEF FInv, BrokerOK, Brokers
  <2>2. \A j \in 1 .. Len(v13.sent) : v13.sent[j].command = "MESSAGE" /\ v13.sent[j].header \in v4'
                                        => v13.sent[j].header \in v4
    BY <1>2, <1>3 DEF FInv, BrokerOK
  <2>3. Len(v13.sent) \in Nat
    BY <2>1, SeqDomain
  <2> QED
    BY <2>2, <2>3, DownNewSubs DEF FInv
<1>8. v3 + 1 \in Nat /\ v3 + 1 <= MaxFrames + 1
  BY <1>1, StompOK
<1> QED
  BY <1>1, <1>2, <1>4, <1>5, <1>6, <1>7, <1>8 DEF FInv

LEMMA unsubscribeStep == ASSUME FInv, NEW id \in v4, S!unsubscribe(id) PROVE FInv'
<1>1. /\ v3 \in Nat /\ v3 <= MaxFrames /\ v10' \in Nat /\ v3 + 1 <= v10'
      /\ UNCHANGED <<v5, v9, v12, v13>>
  BY CallStep DEF S!unsubscribe
<1>2. v3' = v3 /\ v4' = v4 \ {id} /\ v11' = Sent("UNSUBSCRIBE", id, <<>>)
  BY DEF S!unsubscribe, S!_transmit, S!Send, Sent
<1>3. id \in S!Words
  BY <1>1, IdsKnown DEF FInv
<1>4. v11' \in Seq(Seq(Chars)) /\ (v13.alive => UpOK(v13.text, v11', v3))
  BY <1>2, <1>3, NoBody, Transmitted
<1>5. DownOK(v13.sent, v5, v12, v9, v4')
  <2>1. v13.sent \in Seq(Frames)
    BY DEF FInv, BrokerOK, Brokers
  <2>2. Len(v13.sent) \in Nat
    BY <2>1, SeqDomain
  <2> QED
    BY <1>2, <2>2, DownNewSubs DEF FInv
<1>6. v4' \subseteq SubIds(v3) /\ v3 <= v10'
  BY <1>1, <1>2 DEF FInv
<1> QED
  BY <1>1, <1>2, <1>4, <1>5, <1>6 DEF FInv

LEMMA beginStep == ASSUME FInv, S!begin PROVE FInv'
<1>1. /\ v3 \in Nat /\ v3 <= MaxFrames /\ v10' \in Nat /\ v3 + 1 <= v10'
      /\ UNCHANGED <<v5, v9, v12, v13>>
  BY CallStep DEF S!begin
<1>2. v3' = v3 + 1 /\ v4' = v4 /\ v11' = Sent("BEGIN", S!tx(v3), <<>>)
  BY DEF S!begin, S!_transmit, S!Send, Sent
<1> HIDE DEF S!tx
<1>3. S!tx(v3) \in S!Words /\ SubIds(v3) \subseteq SubIds(v3 + 1)
  BY <1>1, IdsKnown
<1>4. v11' \in Seq(Seq(Chars)) /\ (v13.alive => UpOK(v13.text, v11', v3 + 1))
  BY <1>2, <1>3, NoBody, Transmitted
<1>5. BrokerOK(v13, v3 + 1) /\ v4 \subseteq SubIds(v3 + 1)
  BY <1>1, <1>3, WiderIds DEF FInv
<1>6. v3 + 1 \in Nat /\ v3 + 1 <= MaxFrames + 1
  BY <1>1, StompOK
<1> QED
  BY <1>1, <1>2, <1>4, <1>5, <1>6 DEF FInv

LEMMA BodyType == ASSUME NEW body \in S!Bodies PROVE body \in Seq(Chars \ {NUL})
<1>1. Letters \subseteq Chars \ {NUL} /\ LF \in Chars \ {NUL}
  BY StompOK DEF Chars
<1>2. body = <<>> \/ \E a \in Letters : body = <<a, LF>>
  BY DEF S!Bodies
<1>3. ASSUME NEW a \in Letters PROVE <<a, LF>> \in Seq(Chars \ {NUL})
  <2>1. a \in Chars \ {NUL}
    BY <1>1
  <2> HIDE DEF Chars
  <2> DEFINE C == Chars \ {NUL}
  <2>2. a \in C /\ LF \in C
    BY <1>1, <2>1
  <2> HIDE DEF C
  <2>3. <<a, LF>> \in Seq(C)
    BY <2>2
  <2> QED
    BY <2>3 DEF C
<1> QED
  BY <1>2, <1>3, NoBody

LEMMA sendStep == ASSUME FInv, NEW body \in S!Bodies, S!send("SEND", body) PROVE FInv'
<1>1. /\ v3 \in Nat /\ v10' \in Nat /\ v3 + 1 <= v10'
      /\ UNCHANGED <<v5, v9, v12, v13>>
  BY CallStep DEF S!send
<1>2. v3' = v3 /\ v4' = v4 /\ v11' = Sent("SEND", "destination", body)
  BY DEF S!send, S!_transmit, S!Send, Sent
<1>3. body \in Seq(Chars \ {NUL})
  BY BodyType
<1>4. v11' \in Seq(Seq(Chars)) /\ (v13.alive => UpOK(v13.text, v11', v3))
  BY <1>2, <1>3, NoBody, Transmitted
<1>5. v3 <= v10'
  BY <1>1
<1> QED
  BY <1>1, <1>2, <1>4, <1>5 DEF FInv

LEMMA pingStep == ASSUME FInv, S!ping PROVE FInv'
<1> DEFINE qs == v11 \o << <<LF>> >>
<1>1. UNCHANGED <<v3, v4, v5, v9, v10, v12, v13>> /\ v11' = IF v13.alive THEN qs ELSE <<>>
  BY DEF S!ping, S!Send
<1>2. CASE ~v13.alive
  BY <1>1, <1>2 DEF FInv
<1>3. CASE v13.alive
  <2>1. PICK fs \in Seq(Frames), k \in Nat :
          /\ Way(v13.text, k, v11, <<>>, Len(fs), fs)
          /\ \A j \in 1 .. Len(fs) : fs[j].command = "SUBSCRIBE" => fs[j].header \in SubIds(v3)
    BY <1>3 DEF FInv, UpOK
  <2>2. Len(fs) \in Nat /\ v11 \in Seq(Seq(Chars))
    BY SeqDomain DEF FInv
  <2>3. qs \in Seq(Seq(Chars)) /\ Way(v13.text, k, qs, <<>>, Len(fs), fs)
    BY <2>1, <2>2, CarriedBeat
  <2> HIDE DEF qs
  <2>4. UpOK(v13.text, qs, v3)
    BY <2>1, <2>3 DEF UpOK
  <2> QED
    BY <1>1, <1>3, <2>3, <2>4 DEF FInv
<1> QED
  BY <1>2, <1>3

LEMMA BrokerParts ==
  ASSUME FInv
  PROVE  /\ v13.size \in Pieces /\ v13.text \in Seq(Chars) /\ v13.sent \in Seq(Frames) /\ v13 \in Brokers
         /\ Len(v13.sent) \in Nat /\ SubIds(v3) \subseteq S!Words
<1>1. v13 \in Brokers /\ v13.sent \in Seq(Frames)
  BY DEF FInv, BrokerOK, Brokers
<1>2. Len(v13.sent) \in Nat
  BY <1>1, SeqDomain
<1>3. SubIds(v3) \subseteq S!Words
  BY IdsKnown DEF FInv
<1> QED
  BY <1>1, <1>2, <1>3 DEF Brokers

LEMMA onmessageStep == ASSUME FInv, S!onmessage PROVE FInv'
<1> DEFINE sent == v13.sent
           piece == Head(v12)
           data == S!unmarshall(v5 \o piece)
<1>1. /\ v12 # <<>> /\ v12' = Tail(v12) /\ UNCHANGED <<v3, v4, v10, v11, v13>>
      /\ piece = <<LF>> => UNCHANGED <<v5, v9>>
      /\ piece # <<LF>> => v5' = data.partial /\ v9' = v9 \o S!Callbacks(data.frames)
  BY DEF S!onmessage
<1>2. PICK n \in 0 .. Len(sent) :
        Way(v5, n, v12, <<>>, Len(sent), sent) /\ Handled(n, sent, v9, v4)
  BY DEF FInv, DownOK
<1>3. v12 \in Seq(Seq(Chars)) /\ v9 \in Seq(Frames) /\ v5 \in Seq(Chars) /\ sent \in Seq(Frames) /\ Len(sent) \in Nat
  BY BrokerParts DEF FInv
<1>4. PICK more \in Seq(Chars), m \in Nat :
        Takes(v5, n, piece, more, m, sent) /\ Way(more, m, Tail(v12), <<>>, Len(sent), sent)
  BY <1>1, <1>2, <1>3, WayTail
<1>5. v12' \in Seq(Seq(Chars))
  BY <1>1, <1>3
<1> HIDE DEF data
<1>6. /\ v5' \in Seq(Chars) /\ v9' \in Seq(Frames)
      /\ DownOK(sent, v5', v12', v9', v4)
  <2>1. CASE piece = <<LF>>
    <3>1. v5 = more /\ m = n
      BY <1>4, <2>1 DEF Takes
    <3>2. Way(v5', n, v12', <<>>, Len(sent), sent) /\ Handled(n, sent, v9', v4)
      BY <1>1, <1>2, <1>4, <2>1, <3>1
    <3> QED
      BY <1>1, <1>3, <2>1, <3>2 DEF DownOK
  <2>2. CASE piece # <<LF>> /\ data = [frames |-> <<>>, partial |-> more] /\ m = n
    <3>1. v5' = more /\ v9' = v9
      <4>1. data.frames = <<>> /\ data.partial = more
        BY <2>2
      <4>2. S!Callbacks(data.frames) = <<>>
        BY <4>1, CallNone
      <4>3. v9 \o <<>> = v9
        BY <1>3
      <4> QED
        BY <1>1, <2>2, <4>1, <4>2, <4>3
    <3>2. Way(v5', n, v12', <<>>, Len(sent), sent) /\ Handled(n, sent, v9', v4)
      BY <1>1, <1>2, <1>4, <2>2, <3>1
    <3> QED
      BY <1>3, <1>4, <3>1, <3>2 DEF DownOK
  <2>3. CASE /\ piece # <<LF>> /\ data = [frames |-> <<sent[n + 1]>>, partial |-> more] /\ m = n + 1
             /\ n + 1 \in 1 .. Len(sent) /\ sent[n + 1] \in Frames
    <3> DEFINE f == sent[n + 1]
    <3>1. v5' = more /\ v9' = v9 \o S!Callbacks(<<f>>)
      <4>1. data.frames = <<f>> /\ data.partial = more
        BY <2>3
      <4> QED
        BY <1>1, <2>3, <4>1
    <3>2. S!Callbacks(<<f>>) = IF Wanted(f, v4) THEN <<f>> ELSE <<>>
      BY CallOne DEF Wanted
    <3>3. n \in Nat /\ n + 1 \in 0 .. Len(sent)
      BY <1>3, <2>3
    <3>4. /\ Wanted(f, v4) => Append(v9, f) \in Seq(Frames) /\ Handled(n + 1, sent, Append(v9, f), v4)
          /\ ~Wanted(f, v4) => Handled(n + 1, sent, v9, v4)
      BY <1>2, <1>3, <2>3, <3>3, HandledNext
    <3>5. v9' = IF Wanted(f, v4) THEN Append(v9, f) ELSE v9
      <4>1. f \in Frames
        BY <2>3
      <4> HIDE DEF f
      <4>2. v9 \o <<f>> = Append(v9, f) /\ v9 \o <<>> = v9
        BY <1>3, <4>1
      <4> QED
        BY <3>1, <3>2, <4>2
    <3> HIDE DEF f
    <3>6. v9' \in Seq(Frames) /\ Handled(n + 1, sent, v9', v4)
      BY <1>3, <3>4, <3>5
    <3>7. Way(v5', n + 1, v12', <<>>, Len(sent), sent)
      BY <1>1, <1>4, <2>3, <3>1
    <3> QED
      BY <1>4, <3>1, <3>3, <3>6, <3>7 DEF DownOK
  <2>4. piece # <<LF>> => \/ data = [frames |-> <<>>, partial |-> more] /\ m = n
                          \/ /\ data = [frames |-> <<sent[n + 1]>>, partial |-> more] /\ m = n + 1
                             /\ n + 1 \in 1 .. Len(sent) /\ sent[n + 1] \in Frames
    <3>1. n \in Nat
      BY <1>3
    <3> HIDE DEF piece
    <3> QED
      BY <1>3, <1>4, <3>1, PieceRead DEF data
  <2> QED
    BY <2>1, <2>2, <2>3, <2>4
<1> QED
  BY <1>1, <1>5, <1>6 DEF FInv

LEMMA PublishStep ==
  ASSUME FInv, NEW f \in Frames, NEW trail \in Trails, f.command = "MESSAGE" => f.header \in v13.subs,
         S!Publish(f, trail)
  PROVE  FInv'
<1> DEFINE qs == v12 \o S!Cut(S!marshall(f) \o trail, v13.size)
           gs == Append(v13.sent, f)
<1>1. /\ v12' = qs /\ UNCHANGED <<v3, v4, v5, v9, v10, v11>>
      /\ v13' = [v13 EXCEPT !.sent = gs, !.quiet = 0]
  BY DEF S!Publish
<1>2. qs \in Seq(Seq(Chars)) /\ DownOK(gs, v5, qs, v9, v4)
  BY BrokerParts, DownPublished DEF FInv
<1>3. gs \in Seq(Frames) /\ Len(gs) = Len(v13.sent) + 1 /\ gs[Len(v13.sent) + 1] = f
      /\ \A j \in 1 .. Len(v13.sent) : gs[j] = v13.sent[j]
  BY BrokerParts, Appended
<1> HIDE DEF qs, gs
<1>4. \A j \in 1 .. Len(gs) : j \in 1 .. Len(v13.sent) \/ j = Len(v13.sent) + 1
  BY <1>3, BrokerParts
<1>5. \A j \in 1 .. Len(gs) : gs[j].command = "MESSAGE" => gs[j].header \in SubIds(v3)
  BY <1>3, <1>4 DEF FInv, BrokerOK
<1>6. /\ v13' \in Brokers /\ v13'.sent = gs /\ v13'.subs = v13.subs
      /\ v13'.text = v13.text /\ v13'.alive = v13.alive
  BY <1>1, <1>3, BrokerParts DEF Brokers
<1>7. BrokerOK(v13', v3)
  BY <1>5, <1>6 DEF BrokerOK, FInv
<1> QED
  BY <1>1, <1>2, <1>6, <1>7 DEF FInv

LEMMA BeatStep == ASSUME FInv, S!Beat PROVE FInv'
<1> DEFINE qs == v12 \o << <<LF>> >>
<1>1. UNCHANGED <<v3, v4, v5, v9, v10, v11>> /\ v13' = [v13 EXCEPT !.quiet = 0] /\ v12' = Append(v12, <<LF>>)
  BY DEF S!Beat
<1>2. v12' = qs
  <2> DEFINE beat == <<LF>>
  <2>1. beat \in Seq(Chars) /\ v12 \in Seq(Seq(Chars))
    BY DEF Chars, FInv
  <2> HIDE DEF beat
  <2>2. Append(v12, beat) = v12 \o <<beat>>
    BY <2>1
  <2> QED
    BY <1>1, <2>2 DEF beat
<1>3. PICK n \in 0 .. Len(v13.sent) :
        Way(v5, n, v12, <<>>, Len(v13.sent), v13.sent) /\ Handled(n, v13.sent, v9, v4)
  BY DEF FInv, DownOK
<1>4. qs \in Seq(Seq(Chars)) /\ Way(v5, n, qs, <<>>, Len(v13.sent), v13.sent)
  BY <1>3, BrokerParts, CarriedBeat DEF FInv
<1> HIDE DEF qs
<1>5. DownOK(v13.sent, v5, qs, v9, v4)
  BY <1>3, <1>4 DEF DownOK
<1>6. /\ v13' \in Brokers /\ v13'.sent = v13.sent /\ v13'.subs = v13.subs
      /\ v13'.text = v13.text /\ v13'.alive = v13.alive
  BY <1>1, BrokerParts DEF Brokers
<1>7. BrokerOK(v13', v3)
  BY <1>6 DEF BrokerOK, FInv
<1> QED
  BY <1>1, <1>2, <1>4, <1>5, <1>6, <1>7 DEF FInv

LEMMA DieStep == ASSUME FInv, S!Die PROVE FInv'
<1>1. UNCHANGED <<v3, v4, v5, v9, v10, v12>> /\ v13' = [v13 EXCEPT !.alive = FALSE] /\ v11' = <<>>
  BY DEF S!Die
<1>2. /\ v13' \in Brokers /\ v13'.sent = v13.sent /\ v13'.subs = v13.subs /\ ~v13'.alive
  BY <1>1, BrokerParts DEF Brokers
<1>3. BrokerOK(v13', v3)
  BY <1>2 DEF BrokerOK, FInv
<1> QED
  BY <1>1, <1>2, <1>3 DEF FInv

LEMMA TickStep == ASSUME FInv, S!Tick PROVE FInv'
<1>1. UNCHANGED <<v3, v4, v5, v9, v10, v11, v12>>
  BY DEF S!Tick
<1>2. \E q \in Nat : v13' = [v13 EXCEPT !.quiet = q]
  <2> DEFINE most == 2 * S!larger(v8.ttl, 1) + 1
             q == IF v13.quiet < most THEN v13.quiet + 1 ELSE v13.quiet
  <2>1. v13' = [v13 EXCEPT !.quiet = q]
    BY DEF S!Tick
  <2>2. v13.quiet \in Nat
    BY BrokerParts DEF Brokers
  <2> HIDE DEF most
  <2>3. q \in Nat
    BY <2>2
  <2> HIDE DEF q
  <2> QED
    BY <2>1, <2>3
<1>3. PICK q \in Nat : v13' = [v13 EXCEPT !.quiet = q]
  BY <1>2
<1>4. /\ v13' \in Brokers /\ v13'.sent = v13.sent /\ v13'.subs = v13.subs
      /\ v13'.text = v13.text /\ v13'.alive = v13.alive
  BY <1>3, BrokerParts DEF Brokers
<1>5. BrokerOK(v13', v3)
  BY <1>4 DEF BrokerOK, FInv
<1> QED
  BY <1>1, <1>4, <1>5 DEF FInv

LEMMA LinkStep == ASSUME FInv, S!checkPong \/ S!onclose \/ UNCHANGED <<v3, v4, v5, v9, v10, v11, v12, v13>> PROVE FInv'
<1>1. UNCHANGED <<v3, v4, v5, v9, v10, v11, v12, v13>>
  BY DEF S!checkPong, S!onclose
<1> QED
  BY <1>1 DEF FInv

\* The broker takes a frame: what it then keeps, and has sent.
Taken(more, reply, new, old, quiet) ==
  [v13 EXCEPT !.text = more, !.sent = v13.sent \o reply, !.subs = (v13.subs \union new) \ old, !.quiet = quiet]

Replies == {<<>>, <<S!Frame("CONNECTED", "heart-beat", <<>>)>>}

Replied(reply) == IF reply = <<>> THEN v12 ELSE v12 \o S!Cut(S!marshall(reply[1]), v13.size)

LEMMA BrokerTakes ==
  ASSUME FInv, NEW reply \in Replies, NEW more \in Seq(Chars), NEW new \in SUBSET SubIds(v3), NEW old,
         NEW quiet \in Nat
  PROVE  /\ BrokerOK(Taken(more, reply, new, old, quiet), v3)
         /\ Taken(more, reply, new, old, quiet).text = more
         /\ Taken(more, reply, new, old, quiet).alive = v13.alive
         /\ Replied(reply) \in Seq(Seq(Chars))
         /\ DownOK(Taken(more, reply, new, old, quiet).sent, v5, Replied(reply), v9, v4)
<1> DEFINE f == S!Frame("CONNECTED", "heart-beat", <<>>)
           b == Taken(more, reply, new, old, quiet)
           gs == v13.sent \o reply
           down == Replied(reply)
<1>1. f \in Frames /\ f.command = "CONNECTED"
  <2>1. "CONNECTED" \in S!Words /\ "heart-beat" \in S!Words /\ <<>> \in Seq(Chars \ {NUL})
    BY ONLY NoBody
  <2> QED
    BY <2>1 DEF S!Frame, Frames
<1> HIDE DEF f
<1>2. /\ gs \in Seq(Frames) /\ down \in Seq(Seq(Chars)) /\ DownOK(gs, v5, down, v9, v4)
      /\ \A j \in 1 .. Len(gs) : gs[j].command = "MESSAGE" => gs[j].header \in SubIds(v3)
  <2>1. CASE reply = <<>>
    <3>1. gs = v13.sent
      BY <2>1, BrokerParts
    <3> HIDE DEF gs
    <3> QED
      BY <2>1, <3>1, BrokerParts DEF FInv, BrokerOK, Replied
  <2>2. CASE reply = <<f>>
    <3>1. gs = Append(v13.sent, f)
      BY <1>1, <2>2, BrokerParts
    <3>2. reply # <<>> /\ reply[1] = f
      BY <2>2
    <3>3. down = v12 \o S!Cut(S!marshall(f) \o <<>>, v13.size) /\ <<>> \in Trails
      BY <1>1, <3>2, Untrailed DEF Replied
    <3> HIDE DEF gs, down
    <3>4. down \in Seq(Seq(Chars)) /\ DownOK(gs, v5, down, v9, v4)
      BY <1>1, <3>1, <3>3, BrokerParts, DownPublished DEF FInv
    <3>5. gs \in Seq(Frames) /\ Len(gs) = Len(v13.sent) + 1 /\ gs[Len(v13.sent) + 1] = f
          /\ \A j \in 1 .. Len(v13.sent) : gs[j] = v13.sent[j]
      BY <1>1, <3>1, BrokerParts, Appended
    <3>6. \A j \in 1 .. Len(gs) : j \in 1 .. Len(v13.sent) \/ j = Len(v13.sent) + 1
      BY <3>5, BrokerParts
    <3>7. \A j \in 1 .. Len(gs) : gs[j].command = "MESSAGE" => gs[j].header \in SubIds(v3)
      BY <1>1, <3>5, <3>6 DEF FInv, BrokerOK
    <3> QED
      BY <3>4, <3>5, <3>7
  <2> QED
    BY <2>1, <2>2 DEF f, Replies
<1> HIDE DEF gs, down, b
<1> DEFINE subs == (v13.subs \union new) \ old
<1>3. subs \subseteq SubIds(v3) /\ subs \subseteq S!Words
  <2>1. v13.subs \subseteq SubIds(v3) /\ SubIds(v3) \subseteq S!Words
    BY BrokerParts DEF FInv, BrokerOK
  <2> QED
    BY <2>1
<1> HIDE DEF subs
<1>4. b = [v13 EXCEPT !.text = more, !.sent = gs, !.subs = subs, !.quiet = quiet]
  BY DEF gs, subs, b, Taken
<1>5. b \in Brokers /\ b.sent = gs /\ b.subs = subs /\ b.text = more /\ b.alive = v13.alive
  BY <1>2, <1>3, <1>4, BrokerParts DEF Brokers
<1>6. BrokerOK(b, v3)
  BY <1>2, <1>3, <1>5 DEF BrokerOK
<1> QED
  BY <1>2, <1>5, <1>6 DEF down, b

LEMMA ReceiveStep == ASSUME FInv, S!Receive PROVE FInv'
<1> DEFINE piece == Head(v11)
           data == S!unmarshall(v13.text \o piece)
           ids(command) == {f.header : f \in {g \in S!ToSet(data.frames) : g.command = command}}
           reply == IF ids("CONNECT") = {} THEN <<>> ELSE <<S!Frame("CONNECTED", "heart-beat", <<>>)>>
           quiet == IF reply = <<>> THEN v13.quiet ELSE 0
<1>1. /\ v11 # <<>> /\ v13.alive /\ v11' = Tail(v11) /\ UNCHANGED <<v3, v4, v5, v9, v10>>
      /\ piece = <<LF>> => UNCHANGED <<v12, v13>>
      /\ piece # <<LF>> =>
           /\ v13' = [v13 EXCEPT !.text = data.partial, !.sent = v13.sent \o reply,
                        !.subs = (v13.subs \union ids("SUBSCRIBE")) \ ids("UNSUBSCRIBE"), !.quiet = quiet]
           /\ v12' = IF reply = <<>> THEN v12 ELSE v12 \o S!Cut(S!marshall(reply[1]), v13.size)
  BY DEF S!Receive
<1>2. PICK fs \in Seq(Frames), k \in Nat :
        /\ Way(v13.text, k, v11, <<>>, Len(fs), fs)
        /\ \A j \in 1 .. Len(fs) : fs[j].command = "SUBSCRIBE" => fs[j].header \in SubIds(v3)
  BY <1>1 DEF FInv, UpOK
<1>3. v11 \in Seq(Seq(Chars)) /\ Len(fs) \in Nat /\ v11' \in Seq(Seq(Chars))
  BY <1>1, SeqDomain DEF FInv
<1>4. PICK more \in Seq(Chars), m \in Nat :
        Takes(v13.text, k, piece, more, m, fs) /\ Way(more, m, Tail(v11), <<>>, Len(fs), fs)
  BY <1>1, <1>2, <1>3, WayTail
<1>5. UpOK(more, v11', v3)
  BY <1>1, <1>2, <1>4 DEF UpOK
<1>6. CASE piece = <<LF>>
  <2>1. v13.text = more
    BY <1>4, <1>6 DEF Takes
  <2> QED
    BY <1>1, <1>3, <1>5, <1>6, <2>1 DEF FInv
<1>7. CASE piece # <<LF>>
  <2>1. \/ data = [frames |-> <<>>, partial |-> more]
        \/ /\ data = [frames |-> <<fs[k + 1]>>, partial |-> more]
           /\ k + 1 \in 1 .. Len(fs) /\ fs[k + 1] \in Frames
    <3> HIDE DEF piece
    <3> QED
      BY <1>4, <1>7, PieceRead DEF data
  <2> HIDE DEF data
  <2>2. data.partial = more /\ ids("SUBSCRIBE") \in SUBSET SubIds(v3)
    <3>1. CASE data = [frames |-> <<>>, partial |-> more]
      <4>1. data.frames = <<>> /\ data.partial = more
        BY <3>1
      <4>2. S!ToSet(data.frames) = {}
        BY <4>1 DEF S!ToSet
      <4> QED
        BY <4>1, <4>2
    <3>2. CASE data = [frames |-> <<fs[k + 1]>>, partial |-> more] /\ k + 1 \in 1 .. Len(fs)
      <4>1. data.frames = <<fs[k + 1]>> /\ data.partial = more
        BY <3>2
      <4>2. S!ToSet(data.frames) = {fs[k + 1]}
        BY <4>1 DEF S!ToSet
      <4>3. fs[k + 1].command = "SUBSCRIBE" => fs[k + 1].header \in SubIds(v3)
        BY <1>2, <3>2
      <4> QED
        BY <4>1, <4>2, <4>3
    <3> QED
      BY <2>1, <3>1, <3>2
  <2> HIDE DEF ids
  <2>3. reply \in Replies /\ quiet \in Nat
    <3>1. v13.quiet \in Nat
      BY BrokerParts DEF Brokers
    <3> QED
      BY <3>1 DEF Replies
  <2> HIDE DEF reply, quiet
  <2> DEFINE new == ids("SUBSCRIBE")
             old == ids("UNSUBSCRIBE")
  <2>4. v13' = Taken(more, reply, new, old, quiet)
    BY <1>1, <1>7, <2>2 DEF Taken
  <2>5. new \in SUBSET SubIds(v3) /\ more \in Seq(Chars)
    BY <1>4, <2>2
  <2> HIDE DEF new, old
  <2>6. /\ BrokerOK(v13', v3) /\ v13'.text = more /\ v13'.alive = v13.alive
        /\ Replied(reply) \in Seq(Seq(Chars)) /\ DownOK(v13'.sent, v5, Replied(reply), v9, v4)
    BY <2>3, <2>4, <2>5, BrokerTakes
  <2>7. v12' = Replied(reply)
    BY <1>1, <1>7 DEF Replied
  <2> QED
    BY <1>1, <1>3, <1>5, <2>6, <2>7 DEF FInv
<1> QED
  BY <1>6, <1>7

LEMMA FInit == S!Init => FInv
<1> SUFFICES ASSUME S!Init PROVE FInv
  OBVIOUS
<1>1. PICK size \in Pieces, period \in Periods :
        v13 = [size |-> size, period |-> period, text |-> <<>>, subs |-> {}, sent |-> <<>>,
               quiet |-> 0, alive |-> TRUE]
  BY DEF S!Init
<1>2. v3 = 0 /\ v4 = {} /\ v5 = <<>> /\ v9 = <<>> /\ v10 = 0 /\ v11 = <<>> /\ v12 = <<>>
  BY DEF S!Init
<1>3. <<>> \in Seq(Chars) /\ <<>> \in Seq(Frames) /\ <<>> \in Seq(Seq(Chars)) /\ Len(<<>>) = 0 /\ 1 .. 0 = {}
  OBVIOUS
<1>4. v13 \in Brokers /\ v13.sent = <<>> /\ v13.text = <<>> /\ v13.subs = {}
  BY <1>1, <1>3 DEF Brokers
<1>5. BrokerOK(v13, 0)
  BY <1>3, <1>4 DEF BrokerOK
<1>6. Way(<<>>, 0, <<>>, <<>>, 0, <<>>)
  <2>1. <<>> \in Seq(Chars) /\ 0 \in Nat
    BY <1>3
  <2> QED
    BY ONLY <2>1, WayNone
<1>7. DownOK(<<>>, <<>>, <<>>, <<>>, {})
  <2>1. [i \in 1 .. 0 |-> i] \in [1 .. 0 -> 1 .. 0]
    OBVIOUS
  <2>2. Handled(0, <<>>, <<>>, {})
    BY <1>3, <2>1 DEF Handled
  <2>3. 0 \in 0 .. Len(<<>>)
    BY <1>3
  <2> QED
    BY <1>3, <1>6, <2>2, <2>3 DEF DownOK
<1>8. UpOK(<<>>, <<>>, 0)
  <2>1. \A j \in 1 .. Len(<<>>) : FALSE
    BY <1>3
  <2> QED
    BY <1>3, <1>6, <2>1 DEF UpOK
<1>9. 0 <= MaxFrames + 1
  BY StompOK
<1> QED
  BY <1>2, <1>3, <1>4, <1>5, <1>7, <1>8, <1>9 DEF FInv

LEMMA FNext == FInv /\ S!Next => FInv'
<1> SUFFICES ASSUME FInv, S!Next PROVE FInv'
  OBVIOUS
<1>1. CASE S!onopen
  BY <1>1, onopenStep
<1>2. CASE S!onmessage
  BY <1>2, onmessageStep
<1>3. CASE S!onclose \/ S!checkPong
  BY <1>3, LinkStep
<1>4. CASE S!ping
  BY <1>4, pingStep
<1>5. CASE S!disconnect
  BY <1>5, disconnectStep
<1>6. CASE S!subscribe
  BY <1>6, subscribeStep
<1>7. CASE S!begin
  BY <1>7, beginStep
<1>8. CASE \E id \in v4 : S!unsubscribe(id)
  BY <1>8, unsubscribeStep
<1>9. CASE \E body \in S!Bodies : S!send("SEND", body)
  BY <1>9, sendStep
<1>10. CASE S!Receive
  BY <1>10, ReceiveStep
<1>11. CASE S!Beat
  BY <1>11, BeatStep
<1>12. CASE S!Die
  BY <1>12, DieStep
<1>13. CASE S!Tick
  BY <1>13, TickStep
<1>14. CASE \E f \in [command : {"MESSAGE"}, header : v13.subs, body : S!Bodies], trail \in {<<>>, <<LF>>} :
              S!Publish(f, trail)
  <2>1. PICK f \in [command : {"MESSAGE"}, header : v13.subs, body : S!Bodies], trail \in Trails : S!Publish(f, trail)
    BY <1>14 DEF Trails
  <2>2. f \in Frames
    <3>1. v13.subs \subseteq S!Words
      BY BrokerParts DEF Brokers
    <3>2. f.body \in Seq(Chars \ {NUL})
      BY BodyType
    <3>3. f = [command |-> f.command, header |-> f.header, body |-> f.body] /\ f.command = "MESSAGE" /\ f.header \in v13.subs
      OBVIOUS
    <3>4. f.command \in S!Words /\ f.header \in S!Words
      BY <3>1, <3>3, NoBody
    <3> QED
      BY <3>2, <3>3, <3>4 DEF Frames
  <2> QED
    BY <2>1, <2>2, PublishStep
<1>15. CASE \E trail \in {<<>>, <<LF>>} : S!Publish(S!Frame("RECEIPT", "receipt-id", <<>>), trail)
  <2>1. PICK trail \in Trails : S!Publish(S!Frame("RECEIPT", "receipt-id", <<>>), trail)
    BY <1>15 DEF Trails
  <2> DEFINE f == S!Frame("RECEIPT", "receipt-id", <<>>)
  <2>2. f \in Frames /\ f.command # "MESSAGE"
    BY FrameType, NoBody
  <2> QED
    BY <2>1, <2>2, PublishStep
<1> QED
  BY <1>1, <1>2, <1>3, <1>4, <1>5, <1>6, <1>7, <1>8, <1>9, <1>10, <1>11, <1>12, <1>13, <1>14, <1>15
  DEF S!Next

LEMMA FAgrees == FInv => S!FramesIntact
<1> SUFFICES ASSUME FInv PROVE S!FramesIntact
  OBVIOUS
<1> DEFINE sent == v13.sent
<1>1. PICK n \in 0 .. Len(sent) :
        Way(v5, n, v12, <<>>, Len(sent), sent) /\ Handled(n, sent, v9, v4)
  BY DEF FInv, DownOK
<1>2. v9 \in Seq(Frames) /\ sent \in Seq(Frames) /\ v5 \in Seq(Chars)
  BY BrokerParts DEF FInv
<1>3. DOMAIN v9 = 1 .. Len(v9) /\ DOMAIN sent = 1 .. Len(sent) /\ Len(sent) \in Nat
  BY <1>2, SeqDomain
<1>4. PICK at \in [1 .. Len(v9) -> 1 .. n] :
        /\ \A i, j \in 1 .. Len(v9) : i < j => at[i] < at[j]
        /\ \A i \in 1 .. Len(v9) : v9[i] = sent[at[i]]
  BY <1>1 DEF Handled
<1>5. 1 .. n \subseteq 1 .. Len(sent) /\ n \in Nat
  BY <1>3
<1>6. at \in [DOMAIN v9 -> DOMAIN sent]
  BY <1>3, <1>4, <1>5
<1>7. ASSUME v12 = <<>>, NEW f \in S!ToSet(sent), Wanted(f, v4) PROVE f \in S!ToSet(v9)
  <2>1. n = Len(sent)
    BY <1>1, <1>2, <1>5, <1>7, WayNone
  <2>2. PICK j \in 1 .. Len(sent) : f = sent[j]
    BY <1>3, <1>7 DEF S!ToSet
  <2>3. PICK i \in 1 .. Len(v9) : v9[i] = sent[j]
    BY <1>1, <1>7, <2>1, <2>2 DEF Handled
  <2> QED
    BY <1>3, <2>2, <2>3 DEF S!ToSet
<1> QED
  BY <1>3, <1>4, <1>6, <1>7 DEF S!FramesIntact, Wanted

-----------------------------------------------------------------------------
(* The connection among the scripts *)

LEMMA SocketSteps ==
  ASSUME [NextScripts]_scripts
  PROVE  /\ part' = part
         /\ part = "stomp" => S!Next \/ UNCHANGED <<v3, v4, v5, v9, v10, v11, v12, v13>>
<1>1. CASE UNCHANGED scripts
  BY <1>1 DEF scripts
<1>2. CASE part = "stomp" /\ S!Next /\ keep13
  BY <1>2 DEF keep13
<1>3. CASE part # "stomp" /\ (keep0 \/ keep4 \/ keep5 \/ keep6 \/ keep7 \/ keep8 \/ keep14)
  BY <1>3 DEF keep0, keep4, keep5, keep6, keep7, keep8, keep14
<1> QED
  BY <1>1, <1>2, <1>3 DEF NextScripts

\* However frames are cut into pieces of at most any size and mixed with heart-beats, and
\* whatever is subscribed and given up meanwhile: frames are handled as they were sent and
\* in that order, and only a message whose subscription has ended is missing.
THEOREM FramesStayIntact == SpecScripts => []FramesIntact
<1> DEFINE Inv == part = "stomp" => FInv
<1>1. InitScripts => Inv
  BY FInit DEF InitScripts
<1>2. Inv /\ [NextScripts]_scripts => Inv'
  <2> SUFFICES ASSUME Inv, [NextScripts]_scripts PROVE Inv'
    OBVIOUS
  <2> QED
    BY SocketSteps, FNext, LinkStep
<1>3. Inv => FramesIntact
  BY FAgrees DEF FramesIntact
<1> QED
  BY <1>1, <1>2, <1>3, PTL DEF SpecScripts
=============================================================================
