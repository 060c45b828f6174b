----------------------------- MODULE Services_proof -----------------------------
(***************************************************************************)
(* Proofs about the services on redis: for any number of callers,          *)
(* suppliers are alone as long as they are quicker than the life of their  *)
(* lock, and for any limits and threads a window lets through no more      *)
(* calls than the calls that met another account for.                      *)
(*                                                                         *)
(* The lock does not say whose it is, so the invariant ties it to time: it *)
(* has as much of its life left as the one caller inside has of his.  The  *)
(* invariant of a limit ties the calls of every age to the stamps of that  *)
(* age, as long as the callers at the limit have not met.                  *)
(***************************************************************************)
EXTENDS Services, FiniteSetTheorems, TLAPS

-----------------------------------------------------------------------------
(* The cache: the inductive invariant *)

Calls == [at : {"idle", "direct", "setIfAbsent", "sleep", "supplier", "delete", "setValue"},
          result : Values \union {null},
          waits : 0 .. MaxWaits,
          left : 0 .. MUTEX_EXPIRE]

Entries == [value : Values \union {CACHE_PLACE_HOLDER}, left : Nat \ {0}]

TypeOK ==
  /\ table \in Values \union {null}
  /\ cache \in Entries \union {null}
  /\ mutex \in 0 .. MUTEX_EXPIRE
  /\ call \in [Callers -> Calls]
  /\ overrun \in BOOLEAN
  /\ failed \in BOOLEAN

\* Unless a supplier has outlived its lock, the lock is that of whom is inside.
LockLives == ~overrun => \A c \in Inside(call) : mutex > 0 /\ call[c].left = mutex

\* And there is one of them.
OneInside == ~overrun => \A c, d \in Inside(call) : c = d

\* Who leaves without taking the lock along has failed.
LockFreed == mutex > 0 /\ Inside(call) = {} => failed

IInv == TypeOK /\ LockLives /\ OneInside /\ LockFreed

-----------------------------------------------------------------------------
(* Every step of a caller preserves it *)

LEMMA InitIInv == Init => IInv
<1> SUFFICES ASSUME Init PROVE IInv
  OBVIOUS
<1> USE CacheAssumption DEF Init
<1>1. TypeOK
  <2>1. Idle \in Calls
    BY DEF Calls, Idle
  <2>2. 0 \in 0 .. MUTEX_EXPIRE
    OBVIOUS
  <2>3. call \in [Callers -> Calls]
    BY <2>1
  <2>4. overrun \in BOOLEAN /\ failed \in BOOLEAN
    OBVIOUS
  <2>5. cache \in Entries \union {null} /\ mutex \in 0 .. MUTEX_EXPIRE
    BY <2>2
  <2> QED
    BY <2>1, <2>2, <2>3, <2>4, <2>5 DEF TypeOK
<1>2. Inside(call) = {}
  BY DEF Inside, Idle
<1> QED
  BY <1>1, <1>2 DEF IInv, LockLives, OneInside, LockFreed

\* A caller that is neither inside before nor after changes nothing of the lock's.
LEMMA StaysOutside ==
  ASSUME IInv, TypeOK', UNCHANGED <<mutex, overrun, failed>>,
         NEW c \in Callers, c \notin Inside(call), c \notin Inside(call'),
         \A d \in Callers \ {c} : call'[d] = call[d]
  PROVE  IInv'
<1>1. Inside(call') = Inside(call) /\ \A d \in Inside(call) : call'[d] = call[d]
  BY DEF Inside
<1> QED
  BY <1>1 DEF IInv, LockLives, OneInside, LockFreed, Inside

\* One that leaves, having taken the lock or failed, leaves the others as they were.
LEMMA LeaveStep ==
  ASSUME IInv, TypeOK', NEW c \in Inside(call), Leave(c), c \notin Inside(call'),
         \A d \in Callers \ {c} : call'[d] = call[d],
         \/ mutex' = 0
         \/ mutex' = mutex /\ failed'
  PROVE  IInv'
<1>1. Inside(call') = Inside(call) \ {c}
  BY DEF Inside
<1>2. ~overrun' => Inside(call') = {}
  BY <1>1 DEF IInv, OneInside, Leave
<1>3. mutex' > 0 => failed'
  OBVIOUS
<1> QED
  BY <1>2, <1>3 DEF IInv, LockLives, OneInside, LockFreed, Inside

\* The lock is free only if nobody is inside, or one who is has outlived his.
LEMMA mutexLockStep ==
  ASSUME IInv, NEW c \in Callers, mutexLock(c)
  PROVE  IInv'
<1> USE DEF mutexLock, At
<1>1. TypeOK'
  <2>1. call' \in [Callers -> Calls]
    BY CacheAssumption DEF IInv, TypeOK, Calls, Goto
  <2>2. mutex' \in 0 .. MUTEX_EXPIRE
    BY CacheAssumption DEF IInv, TypeOK
  <2>3. failed' \in BOOLEAN
    BY DEF IInv, TypeOK
  <2> QED
    BY <2>1, <2>2, <2>3 DEF IInv, TypeOK
<1>2. \A d \in Callers \ {c} : call'[d] = call[d]
  BY DEF IInv, TypeOK, Goto
<1>3. CASE mutex = 0
  <2>1. ~overrun => Inside(call) = {}
    BY <1>3 DEF IInv, LockLives
  <2>2. Inside(call') = Inside(call) \union {c}
    BY <1>2, <1>3 DEF Inside, IInv, TypeOK, Calls
  <2>3. call'[c].left = MUTEX_EXPIRE /\ mutex' = MUTEX_EXPIRE /\ overrun' = overrun
    BY <1>3 DEF IInv, TypeOK, Calls
  <2> QED
    BY <1>1, <2>1, <2>2, <2>3, CacheAssumption
    DEF IInv, LockLives, OneInside, LockFreed, Inside
<1>4. CASE mutex # 0
  <2>1. c \notin Inside(call) /\ c \notin Inside(call')
    BY <1>4 DEF Inside, Goto, IInv, TypeOK, Calls
  <2> QED
    BY <1>1, <1>2, <1>4, <2>1, StaysOutside
<1> QED
  BY <1>3, <1>4

\* The answer is taken out from under the lock; without one the lock stays.
LEMMA supplierStep ==
  ASSUME IInv, NEW c \in Callers, supplier(c)
  PROVE  IInv'
<1> USE DEF supplier, At
<1>1. TypeOK'
  <2>1. call' \in [Callers -> Calls]
    BY CacheAssumption DEF IInv, TypeOK, Calls, Return, Idle
  <2>2. mutex' \in 0 .. MUTEX_EXPIRE
    BY CacheAssumption DEF IInv, TypeOK
  <2>3. overrun' \in BOOLEAN /\ failed' \in BOOLEAN
    BY DEF IInv, TypeOK, Leave
  <2> QED
    BY <2>1, <2>2, <2>3 DEF IInv, TypeOK
<1>2. \A d \in Callers \ {c} : call'[d] = call[d]
  BY DEF IInv, TypeOK, Return
<1>3. c \in Inside(call)
  BY DEF Inside
<1>4. CASE call' = [call EXCEPT ![c].at = "delete", ![c].result = table]
           /\ UNCHANGED <<overrun, failed>>
  <2>1. Inside(call') = Inside(call) /\ \A d \in Callers : call'[d].left = call[d].left
    BY <1>2, <1>3, <1>4 DEF Inside, IInv, TypeOK, Calls
  <2> QED
    BY <1>1, <1>4, <2>1 DEF IInv, LockLives, OneInside, LockFreed, Inside
<1>5. CASE Return(c) /\ Leave(c) /\ failed' = TRUE
  <2>1. c \notin Inside(call')
    BY <1>5 DEF Inside, Return, Idle, IInv, TypeOK
  <2> QED
    BY <1>1, <1>2, <1>3, <1>5, <2>1, LeaveStep
<1> QED
  BY <1>4, <1>5

LEMMA deleteStep ==
  ASSUME IInv, NEW c \in Callers, delete(c)
  PROVE  IInv'
<1> USE DEF delete, At
<1>1. TypeOK'
  BY CacheAssumption DEF IInv, TypeOK, Calls, Goto, Leave
<1>2. \A d \in Callers \ {c} : call'[d] = call[d]
  BY DEF IInv, TypeOK, Goto
<1>3. c \in Inside(call) /\ c \notin Inside(call')
  BY DEF Inside, Goto, IInv, TypeOK, Calls
<1> QED
  BY <1>1, <1>2, <1>3, LeaveStep

\* A command that throws: of the three, the one that frees the lock or takes it matters.
LEMMA throwStep ==
  ASSUME IInv, NEW c \in Callers, throw(c)
  PROVE  IInv'
<1> USE DEF throw, At
<1>1. TypeOK'
  <2>1. call' \in [Callers -> Calls]
    BY CacheAssumption DEF IInv, TypeOK, Calls, Return, Idle
  <2>2. mutex' \in 0 .. MUTEX_EXPIRE
    BY CacheAssumption DEF IInv, TypeOK
  <2>3. overrun' \in BOOLEAN /\ failed' \in BOOLEAN
    BY DEF IInv, TypeOK, Leave
  <2> QED
    BY <2>1, <2>2, <2>3 DEF IInv, TypeOK
<1>2. \A d \in Callers \ {c} : call'[d] = call[d]
  BY DEF IInv, TypeOK, Return
<1>3. c \notin Inside(call')
  BY DEF Inside, Return, Idle, IInv, TypeOK
<1>4. CASE At(c, "delete")
  <2>1. c \in Inside(call)
    BY <1>4 DEF Inside
  <2> QED
    BY <1>1, <1>2, <1>3, <1>4, <2>1, LeaveStep
<1>5. CASE ~At(c, "delete")
  <2>1. c \notin Inside(call)
    BY <1>5 DEF Inside
  <2>2. CASE UNCHANGED <<mutex, failed>>
    BY <1>1, <1>2, <1>3, <1>5, <2>1, <2>2, StaysOutside
  <2>3. CASE mutex = 0 /\ mutex' = MUTEX_EXPIRE /\ failed' = TRUE
    <3>1. Inside(call') = Inside(call)
      BY <1>2, <1>3, <2>1 DEF Inside
    <3>2. ~overrun => Inside(call) = {}
      BY <2>3 DEF IInv, LockLives
    <3> QED
      BY <1>1, <1>5, <2>3, <3>1, <3>2 DEF IInv, LockLives, OneInside, LockFreed, Inside
  <2> QED
    BY <1>5, <2>2, <2>3
<1> QED
  BY <1>4, <1>5

\* The steps of a caller before and after the lock.
LEMMA OutsideStep ==
  ASSUME IInv, NEW c \in Callers, getValue(c) \/ direct(c) \/ sleep(c) \/ setValue(c)
  PROVE  IInv'
<1> USE DEF getValue, direct, sleep, setValue, At, Goto, Return, Idle
<1>1. cache' \in Entries \union {null}
  BY CacheAssumption DEF IInv, TypeOK, Entries, Calls
<1>2. call' \in [Callers -> Calls]
  BY CacheAssumption DEF IInv, TypeOK, Calls
<1>3. TypeOK'
  BY <1>1, <1>2 DEF IInv, TypeOK
<1>4. \A d \in Callers \ {c} : call'[d] = call[d]
  BY DEF IInv, TypeOK
<1>5. c \notin Inside(call) /\ c \notin Inside(call')
  BY DEF Inside, IInv, TypeOK, Calls
<1> QED
  BY <1>3, <1>4, <1>5, StaysOutside

\* The lock and the time of who is inside grow old together.
LEMMA TickStep ==
  ASSUME IInv, Tick
  PROVE  IInv'
<1> USE DEF Tick, Less
<1>1. \A n \in 0 .. MUTEX_EXPIRE : Less(n) \in 0 .. MUTEX_EXPIRE
  BY CacheAssumption
<1>2. call' \in [Callers -> Calls]
  BY <1>1 DEF IInv, TypeOK, Calls
<1>3. cache' \in Entries \union {null}
  <2>1. CASE cache = null \/ cache.left = 1
    BY <2>1
  <2>2. CASE cache # null /\ cache.left # 1
    <3>1. cache \in Entries
      BY <2>2 DEF IInv, TypeOK
    <3>2. cache.left \in Nat \ {0}
      BY <3>1 DEF Entries
    <3>3. \A n \in Nat \ {0} : n # 1 => n - 1 \in Nat \ {0}
      OBVIOUS
    <3>4. cache.left - 1 \in Nat \ {0}
      BY <2>2, <3>2, <3>3
    <3> QED
      BY <2>2, <3>1, <3>4 DEF Entries
  <2> QED
    BY <2>1, <2>2
<1>4. TypeOK'
  BY <1>1, <1>2, <1>3 DEF IInv, TypeOK
<1>5. \A c \in Callers : call'[c].at = call[c].at /\ call'[c].left = Less(call[c].left)
  BY DEF IInv, TypeOK, Calls
<1>6. Inside(call') = Inside(call)
  BY <1>5 DEF Inside
<1>7. ~overrun' => ~overrun /\ \A c \in Inside(call) : call'[c].left # 0
  BY DEF IInv, TypeOK
<1>8. LockLives'
  BY <1>4, <1>5, <1>6, <1>7 DEF IInv, LockLives, Inside, TypeOK
<1>9. OneInside' /\ LockFreed'
  <2>1. mutex' > 0 => mutex > 0
    BY DEF IInv, TypeOK
  <2> QED
    BY <1>6, <1>7, <2>1 DEF IInv, OneInside, LockFreed
<1> QED
  BY <1>4, <1>8, <1>9 DEF IInv

LEMMA NextIInv == IInv /\ [Next]_vars => IInv'
<1> SUFFICES ASSUME IInv, [Next]_vars PROVE IInv'
  OBVIOUS
<1>1. CASE Write
  BY <1>1 DEF Write, IInv, TypeOK, LockLives, OneInside, LockFreed
<1>2. CASE UNCHANGED vars
  BY <1>2 DEF vars, IInv, TypeOK, LockLives, OneInside, LockFreed
<1> QED
  BY <1>1, <1>2, mutexLockStep, supplierStep, deleteStep, throwStep, OutsideStep, TickStep
  DEF Next

LEMMA IInvMutex == IInv => MutexKept
<1> SUFFICES ASSUME IInv PROVE MutexKept
  OBVIOUS
<1>1. ASSUME ~overrun PROVE Cardinality(Inside(call)) <= 1
  <2>1. Inside(call) = {} \/ \E c \in Inside(call) : Inside(call) = {c}
    BY <1>1 DEF IInv, OneInside
  <2>2. CASE Inside(call) = {}
    BY <2>2, FS_EmptySet
  <2>3. ASSUME NEW c \in Inside(call), Inside(call) = {c}
        PROVE  Cardinality(Inside(call)) <= 1
    BY <2>3, FS_Singleton
  <2> QED
    BY <2>1, <2>2, <2>3
<1> QED
  BY <1>1 DEF IInv, LockFreed, MutexKept

-----------------------------------------------------------------------------
(* The limits of a code: the inductive invariant *)

Ages(i)    == 0 .. Limits[i].ttl - 1
Tallies(i) == [S!Kinds -> [Ages(i) -> Nat]]

Steps == [at : {"idle", "size", "pop", "push", "replace", "trim", "send"},
          limit : Nat, size : Nat, shared : BOOLEAN]

SmsTypeOK ==
  /\ stamps \in [DOMAIN Limits -> Seq(Nat)]
  /\ DOMAIN tally = DOMAIN Limits
  /\ \A i \in DOMAIN Limits : tally[i] \in Tallies(i)
  /\ pc \in [Threads -> Steps]
  /\ \A t \in Threads :
       /\ pc[t].at \notin {"idle", "send"} => pc[t].limit \in DOMAIN Limits
       /\ pc[t].at \in {"pop", "replace", "trim"} => pc[t].size >= Limits[pc[t].limit].max

\* Who is between two commands of a limit, on its own or having met another.
Commands == {"pop", "push", "replace", "trim"}
Busy(i)  == {t \in Threads : pc[t].limit = i /\ pc[t].at \in Commands}
Met(i)   == {t \in Busy(i) : pc[t].shared}

\* What a caller on its own has read is still true of the list.
AtOwn(t) ==
  LET n   == Len(stamps[pc[t].limit])
      max == Limits[pc[t].limit].max
  IN  /\ pc[t].at \in {"pop", "trim"} => n = pc[t].size /\ n >= max
      /\ pc[t].at = "push" => n < max
      /\ pc[t].at = "replace" => n = pc[t].size - 1 /\ pc[t].size >= max

\* Nobody else is at the limit then.
Own(i) == \A t \in Busy(i) : ~pc[t].shared => Busy(i) = {t} /\ AtOwn(t)

\* The calls of age a or less, and what those that met another one may add to them.
Alone(i, a)   == tally[i]["alone"][a]
Refused(i, a) == tally[i]["refused"][a]
Credit(i, a)  == Limits[i].max * tally[i]["shared"][a]

\* The bound, for every age.
Bound(i) == \A a \in Ages(i) : Alone(i, a) <= Limits[i].max + Refused(i, a) + Credit(i, a)

\* While callers that met are at it no call is alone: the bound holds without the limit, once
\* the ones of them that have not been counted are.
Counted(i) == \A t \in Met(i) : pc[t].at = "trim"
Meeting(i) ==
  Met(i) # {} =>
    \A a \in Ages(i) :
      Alone(i, a) <= Refused(i, a) + Credit(i, a) + (IF Counted(i) THEN 0 ELSE Limits[i].max)

\* Otherwise each call alone has left its stamp, was refused or is made up for: behind a
\* stamp older than a there are as many.
Stamped(i) ==
  Met(i) = {} =>
    \A a \in Ages(i), k \in 0 .. Len(stamps[i]) :
      k = 0 \/ stamps[i][k] > a =>
        Alone(i, a) <= Len(stamps[i]) - k + Refused(i, a) + Credit(i, a)

\* A list longer than the limit, or that has been when a caller on its own read its size.
Long(i) == \/ Len(stamps[i]) > Limits[i].max
           \/ \E t \in Busy(i) : pc[t].at = "replace" /\ pc[t].size > Limits[i].max

\* Such a list leaves room for one more, until it has been taken.
Room(i) ==
  Met(i) = {} /\ Long(i) /\ (\A t \in Busy(i) : pc[t].at # "trim") =>
    \A a \in Ages(i) :
      stamps[i][Len(stamps[i])] <= a =>
        Alone(i, a) + 1 <= Limits[i].max + Refused(i, a) + Credit(i, a)

LimitInv(i) == Own(i) /\ Bound(i) /\ Meeting(i) /\ Stamped(i) /\ Room(i)
SmsInv == SmsTypeOK /\ \A i \in DOMAIN Limits : LimitInv(i)

-----------------------------------------------------------------------------
(* The limits: what a step does to the calls counted *)

LEMMA LimitType ==
  ASSUME NEW i \in DOMAIN Limits
  PROVE  Limits[i].max \in Nat \ {0} /\ Limits[i].ttl \in Nat \ {0}
<1> DEFINE X == [max : Nat \ {0}, ttl : Nat \ {0}]
<1>1. Limits \in Seq(X)
  BY SmsAssumption
<1>2. X = [max : Nat \ {0}, ttl : Nat \ {0}]
  OBVIOUS
<1> HIDE DEF X
<1>3. Limits[i] \in X
  BY <1>1
<1> QED
  BY <1>2, <1>3

LEMMA Credits == \A m, n \in Nat : m * n \in Nat /\ m * (n + 1) = m * n + m
OBVIOUS

LEMMA Counts ==
  ASSUME SmsTypeOK, NEW i \in DOMAIN Limits, NEW a \in Ages(i)
  PROVE  Alone(i, a) \in Nat /\ Refused(i, a) \in Nat /\ Credit(i, a) \in Nat
<1>1. tally[i]["alone"][a] \in Nat /\ tally[i]["refused"][a] \in Nat /\ tally[i]["shared"][a] \in Nat
  BY DEF SmsTypeOK, Tallies, S!Kinds
<1> QED
  BY <1>1, LimitType, Credits DEF Alone, Refused, Credit

LEMMA CountsAfter ==
  ASSUME SmsTypeOK', NEW i \in DOMAIN Limits, NEW a \in Ages(i)
  PROVE  Alone(i, a)' \in Nat /\ Refused(i, a)' \in Nat /\ Credit(i, a)' \in Nat
<1>1. tally'[i]["alone"][a] \in Nat /\ tally'[i]["refused"][a] \in Nat /\ tally'[i]["shared"][a] \in Nat
  BY DEF SmsTypeOK, Tallies, S!Kinds
<1> QED
  BY <1>1, LimitType, Credits DEF Alone, Refused, Credit

\* A call is counted once, for every age.
LEMMA CountStep ==
  ASSUME SmsTypeOK, NEW t \in Threads, NEW i \in DOMAIN Limits, pc[t].limit = i,
         NEW kind \in {"alone", "refused"}, S!Count(t, kind)
  PROVE  /\ DOMAIN tally' = DOMAIN Limits
         /\ \A j \in DOMAIN Limits : tally'[j] \in Tallies(j) /\ (j # i => tally'[j] = tally[j])
         /\ \A a \in Ages(i) :
              /\ Alone(i, a)' = Alone(i, a) + (IF ~pc[t].shared /\ kind = "alone" THEN 1 ELSE 0)
              /\ Refused(i, a)' = Refused(i, a) + (IF ~pc[t].shared /\ kind = "refused" THEN 1 ELSE 0)
              /\ Credit(i, a)' = Credit(i, a) + (IF pc[t].shared THEN Limits[i].max ELSE 0)
<1> DEFINE k == IF pc[t].shared THEN "shared" ELSE kind
<1>1. k \in S!Kinds
  BY DEF S!Kinds
<1>2. tally[i] \in [S!Kinds -> [Ages(i) -> Nat]]
  BY DEF SmsTypeOK, Tallies
<1>3. tally[i][k] \in [Ages(i) -> Nat]
  BY <1>1, <1>2
<1>4. S!Plus1(tally[i][k]) \in [Ages(i) -> Nat]
      /\ \A a \in Ages(i) : S!Plus1(tally[i][k])[a] = tally[i][k][a] + 1
  BY <1>3 DEF S!Plus1
<1> DEFINE new == [tally[i] EXCEPT ![k] = S!Plus1(tally[i][k])]
<1>5. tally' = [tally EXCEPT ![i] = new]
  BY DEF S!Count
<1>6. DOMAIN tally' = DOMAIN Limits /\ tally'[i] = new
      /\ \A j \in DOMAIN Limits : j # i => tally'[j] = tally[j]
  BY <1>5 DEF SmsTypeOK
<1>7. new \in [S!Kinds -> [Ages(i) -> Nat]] /\ new[k] = S!Plus1(tally[i][k])
      /\ \A l \in S!Kinds : l # k => new[l] = tally[i][l]
  BY <1>1, <1>2, <1>4
<1> HIDE DEF new
<1>8. \A j \in DOMAIN Limits : tally'[j] \in Tallies(j) /\ (j # i => tally'[j] = tally[j])
  BY <1>6, <1>7 DEF SmsTypeOK, Tallies
<1>9. ASSUME NEW a \in Ages(i)
      PROVE  /\ Alone(i, a)' = Alone(i, a) + (IF ~pc[t].shared /\ kind = "alone" THEN 1 ELSE 0)
             /\ Refused(i, a)' = Refused(i, a) + (IF ~pc[t].shared /\ kind = "refused" THEN 1 ELSE 0)
             /\ Credit(i, a)' = Credit(i, a) + (IF pc[t].shared THEN Limits[i].max ELSE 0)
  <2>0. tally[i]["alone"][a] \in Nat /\ tally[i]["refused"][a] \in Nat /\ tally[i]["shared"][a] \in Nat
    BY <1>2 DEF S!Kinds
  <2>1. new["alone"][a] = tally[i]["alone"][a] + (IF ~pc[t].shared /\ kind = "alone" THEN 1 ELSE 0)
    BY <1>4, <1>7, <2>0 DEF S!Kinds
  <2>2. new["refused"][a] = tally[i]["refused"][a] + (IF ~pc[t].shared /\ kind = "refused" THEN 1 ELSE 0)
    BY <1>4, <1>7, <2>0 DEF S!Kinds
  <2>3. new["shared"][a] = tally[i]["shared"][a] + (IF pc[t].shared THEN 1 ELSE 0)
    BY <1>4, <1>7, <2>0 DEF S!Kinds
  <2>4. Limits[i].max * new["shared"][a]
          = Limits[i].max * tally[i]["shared"][a] + (IF pc[t].shared THEN Limits[i].max ELSE 0)
    <3>1. CASE pc[t].shared
      BY <2>0, <2>3, <3>1, LimitType, Credits
    <3>2. CASE ~pc[t].shared
      <4>1. new["shared"][a] = tally[i]["shared"][a]
        BY <2>0, <2>3, <3>2
      <4>2. Limits[i].max * tally[i]["shared"][a] \in Nat
        BY <2>0, LimitType, Credits
      <4> QED
        BY <3>2, <4>1, <4>2
    <3> QED
      BY <3>1, <3>2
  <2> QED
    BY <1>6, <2>1, <2>2, <2>4 DEF Alone, Refused, Credit
<1> QED
  BY <1>6, <1>8, <1>9

-----------------------------------------------------------------------------
(* The limits: what a step does to who is at one *)

\* A limit whose stamps, calls and callers stay what they are.
LEMMA Elsewhere ==
  ASSUME NEW j \in DOMAIN Limits, LimitInv(j),
         stamps'[j] = stamps[j], tally'[j] = tally[j],
         Busy(j)' = Busy(j), \A u \in Busy(j) : pc'[u] = pc[u]
  PROVE  LimitInv(j)'
<1>1. Met(j)' = Met(j)
  BY DEF Met
<1>2. \A u \in Busy(j) : AtOwn(u)' <=> AtOwn(u)
  BY DEF AtOwn, Busy
<1>3. Own(j)'
  BY <1>2 DEF LimitInv, Own
<1>4. \A a \in Ages(j) : Alone(j, a)' = Alone(j, a) /\ Refused(j, a)' = Refused(j, a)
                         /\ Credit(j, a)' = Credit(j, a)
  BY DEF Alone, Refused, Credit
<1>5. Counted(j)' <=> Counted(j)
  BY <1>1 DEF Counted, Met
<1>6. Bound(j)' /\ Meeting(j)' /\ Stamped(j)'
  BY <1>1, <1>4, <1>5 DEF LimitInv, Bound, Meeting, Stamped
<1>7. Long(j)' <=> Long(j)
  BY DEF Long
<1>8. (\A u \in Busy(j)' : pc'[u].at # "trim") <=> (\A u \in Busy(j) : pc[u].at # "trim")
  OBVIOUS
<1>9. Room(j)'
  BY <1>1, <1>4, <1>7, <1>8 DEF LimitInv, Room
<1> QED
  BY <1>3, <1>6, <1>9 DEF LimitInv

\* Where the bound holds without the limit, whatever happens to the stamps does not matter.
LEMMA Settled ==
  ASSUME SmsTypeOK', NEW i \in DOMAIN Limits, Own(i)',
         \A a \in Ages(i) : Alone(i, a)' <= Refused(i, a)' + Credit(i, a)'
  PROVE  LimitInv(i)'
<1>1. Limits[i].max \in Nat \ {0}
  BY LimitType
<1>2. \A a \in Ages(i) : Alone(i, a)' \in Nat /\ Refused(i, a)' \in Nat /\ Credit(i, a)' \in Nat
  BY CountsAfter
<1>3. \A a \in Ages(i) : /\ Alone(i, a)' <= Limits[i].max + Refused(i, a)' + Credit(i, a)'
                         /\ Alone(i, a)' + 1 <= Limits[i].max + Refused(i, a)' + Credit(i, a)'
                         /\ \A n \in Nat : Alone(i, a)' <= n + Refused(i, a)' + Credit(i, a)'
  BY <1>1, <1>2
<1>4. \A k \in 0 .. Len(stamps'[i]) : Len(stamps'[i]) - k \in Nat
  BY DEF SmsTypeOK
<1>5. Bound(i)' /\ Room(i)'
  BY <1>3 DEF Bound, Room
<1>6. Stamped(i)'
  BY <1>3, <1>4 DEF Stamped
<1>7. Meeting(i)'
  BY <1>1, <1>2 DEF Meeting
<1> QED
  BY <1>5, <1>6, <1>7 DEF LimitInv

\* Who is at a limit after a step of one thread.
LEMMA BusyAfter ==
  ASSUME SmsTypeOK, NEW t \in Threads, NEW x, pc' = [pc EXCEPT ![t] = x]
  PROVE  /\ pc'[t] = x /\ \A u \in Threads \ {t} : pc'[u] = pc[u]
         /\ \A j \in DOMAIN Limits :
              /\ x.limit = j /\ x.at \in Commands => Busy(j)' = Busy(j) \union {t}
              /\ x.limit # j \/ x.at \notin Commands => Busy(j)' = Busy(j) \ {t}
<1>1. pc'[t] = x /\ \A u \in Threads \ {t} : pc'[u] = pc[u]
  BY DEF SmsTypeOK
<1> QED
  BY <1>1 DEF Busy

\* A step of one thread at its limit leaves the others alone.
LEMMA OneStep ==
  ASSUME SmsInv, SmsTypeOK', NEW t \in Threads, NEW i \in DOMAIN Limits, pc[t].limit = i,
         NEW x, pc' = [pc EXCEPT ![t] = x], x.limit = i \/ x.at \notin Commands,
         \A j \in DOMAIN Limits : j # i => stamps'[j] = stamps[j] /\ tally'[j] = tally[j],
         LimitInv(i)'
  PROVE  SmsInv'
<1>1. ASSUME NEW j \in DOMAIN Limits, j # i PROVE LimitInv(j)'
  <2>1. t \notin Busy(j)
    BY <1>1 DEF Busy
  <2>2. Busy(j)' = Busy(j) \ {t} /\ \A u \in Threads \ {t} : pc'[u] = pc[u]
    <3>1. x.limit # j \/ x.at \notin Commands
      BY <1>1
    <3>2. SmsTypeOK
      BY DEF SmsInv
    <3> QED
      BY <3>1, <3>2, BusyAfter
  <2>3. Busy(j)' = Busy(j) /\ \A u \in Busy(j) : pc'[u] = pc[u]
    BY <2>1, <2>2 DEF Busy
  <2> QED
    BY <1>1, <2>3, Elsewhere DEF SmsInv
<1> QED
  BY <1>1 DEF SmsInv

\* One that has met another goes on to its next command.
LEMMA MetGoesOn ==
  ASSUME SmsInv, SmsTypeOK', NEW i \in DOMAIN Limits, NEW t \in Met(i),
         NEW x \in Steps, pc' = [pc EXCEPT ![t] = x],
         pc[t].at # "trim", x.limit = i, x.at \in Commands \ {"trim"}, x.shared,
         tally'[i] = tally[i]
  PROVE  LimitInv(i)'
<1>1. t \in Threads /\ t \in Busy(i) /\ SmsTypeOK /\ LimitInv(i)
  BY DEF Met, Busy, SmsInv
<1>2. Busy(i)' = Busy(i) /\ pc'[t] = x /\ \A u \in Threads \ {t} : pc'[u] = pc[u]
  <2>1. pc'[t] = x /\ (\A u \in Threads \ {t} : pc'[u] = pc[u])
        /\ (x.limit = i /\ x.at \in Commands => Busy(i)' = Busy(i) \union {t})
    BY <1>1, BusyAfter
  <2> QED
    BY <1>1, <2>1
<1>3. Met(i)' = Met(i)
  BY <1>1, <1>2 DEF Met, Busy
<1>4. ~Counted(i) /\ ~Counted(i)'
  BY <1>2, <1>3 DEF Counted
<1>5. \A a \in Ages(i) : Alone(i, a)' = Alone(i, a) /\ Refused(i, a)' = Refused(i, a)
                         /\ Credit(i, a)' = Credit(i, a)
  BY DEF Alone, Refused, Credit
<1>6. Own(i)'
  BY <1>1, <1>2, <1>3 DEF LimitInv, Own, Met, Busy
<1>7. Bound(i)' /\ Meeting(i)'
  BY <1>1, <1>3, <1>4, <1>5 DEF LimitInv, Bound, Meeting
<1>8. Stamped(i)' /\ Room(i)'
  BY <1>3 DEF Stamped, Room
<1> QED
  BY <1>6, <1>7, <1>8 DEF LimitInv

\* The others that are at it have met it.
LEMMA MetOwn ==
  ASSUME SmsInv, NEW i \in DOMAIN Limits, NEW t \in Met(i),
         NEW x, pc' = [pc EXCEPT ![t] = x], x.limit = i /\ x.at \in Commands => x.shared
  PROVE  Own(i)'
<1>1. t \in Threads /\ t \in Busy(i) /\ SmsTypeOK /\ Own(i)
  BY DEF Met, Busy, SmsInv, LimitInv
<1>2. pc'[t] = x /\ \A u \in Threads \ {t} : pc'[u] = pc[u]
  BY <1>1, BusyAfter
<1>3. ASSUME NEW u \in Busy(i)', ~pc'[u].shared PROVE FALSE
  <2>1. u # t
    BY <1>2, <1>3 DEF Busy
  <2>2. u \in Busy(i) /\ ~pc[u].shared
    BY <1>2, <1>3, <2>1 DEF Busy
  <2> QED
    BY <1>1, <2>1, <2>2 DEF Own
<1> QED
  BY <1>3 DEF Own

\* Its call is counted, and with it as many as the limit allows.
LEMMA MetIsCounted ==
  ASSUME SmsInv, SmsTypeOK', NEW i \in DOMAIN Limits, NEW t \in Met(i),
         NEW x, pc' = [pc EXCEPT ![t] = x], x.limit = i /\ x.at \in Commands => x.shared,
         pc[t].at # "trim", NEW kind \in {"alone", "refused"}, S!Count(t, kind)
  PROVE  LimitInv(i)'
<1>1. t \in Threads /\ SmsTypeOK /\ Meeting(i) /\ pc[t].limit = i /\ pc[t].shared
  BY DEF Met, Busy, SmsInv, LimitInv
<1>2. Own(i)'
  BY MetOwn
<1>3. ~Counted(i) /\ Met(i) # {}
  BY DEF Counted
<1>4. ASSUME NEW a \in Ages(i) PROVE Alone(i, a)' <= Refused(i, a)' + Credit(i, a)'
  <2>1. Alone(i, a)' = Alone(i, a) /\ Refused(i, a)' = Refused(i, a)
        /\ Credit(i, a)' = Credit(i, a) + Limits[i].max
    BY <1>1, CountStep, Counts
  <2>2. Alone(i, a) <= Refused(i, a) + Credit(i, a) + Limits[i].max
    BY <1>1, <1>3 DEF Meeting
  <2> QED
    BY <1>1, <2>1, <2>2, Counts, LimitType
<1> QED
  BY <1>2, <1>4, Settled

\* It is done with the list.
LEMMA MetTrims ==
  ASSUME SmsInv, SmsTypeOK', NEW i \in DOMAIN Limits, NEW t \in Met(i),
         NEW x, pc' = [pc EXCEPT ![t] = x], x.at \notin Commands,
         pc[t].at = "trim", tally'[i] = tally[i]
  PROVE  LimitInv(i)'
<1>1. t \in Threads /\ t \in Busy(i) /\ SmsTypeOK /\ LimitInv(i)
  BY DEF Met, Busy, SmsInv
<1>2. Own(i)'
  BY MetOwn
<1>3. \A a \in Ages(i) : Alone(i, a)' = Alone(i, a) /\ Refused(i, a)' = Refused(i, a)
                         /\ Credit(i, a)' = Credit(i, a)
  BY DEF Alone, Refused, Credit
<1>4. CASE Counted(i)
  <2>1. \A a \in Ages(i) : Alone(i, a) <= Refused(i, a) + Credit(i, a) + 0
    BY <1>1, <1>4 DEF LimitInv, Meeting
  <2>2. \A a \in Ages(i) : Alone(i, a)' <= Refused(i, a)' + Credit(i, a)'
    BY <1>1, <1>3, <2>1, Counts
  <2> QED
    BY <1>2, <2>2, Settled
<1>5. ASSUME NEW u \in Met(i), pc[u].at # "trim" PROVE LimitInv(i)'
  <2>1. pc'[u] = pc[u] /\ u # t
    BY <1>1, <1>5, BusyAfter DEF Met, Busy
  <2>2. u \in Met(i)' /\ ~Counted(i)'
    BY <1>5, <2>1 DEF Met, Busy, Counted
  <2>3. ~Counted(i)
    BY <1>5 DEF Counted
  <2>4. Bound(i)' /\ Meeting(i)'
    BY <1>1, <1>3, <1>5, <2>2, <2>3 DEF LimitInv, Bound, Meeting
  <2>5. Stamped(i)' /\ Room(i)'
    BY <2>2 DEF Stamped, Room
  <2> QED
    BY <1>2, <2>4, <2>5 DEF LimitInv
<1> QED
  BY <1>4, <1>5 DEF Counted

-----------------------------------------------------------------------------
(* The limits: every step preserves the invariant *)

LEMMA TypeStep ==
  ASSUME SmsTypeOK, NEW t \in Threads, NEW x \in Steps, pc' = [pc EXCEPT ![t] = x],
         x.at \notin {"idle", "send"} => x.limit \in DOMAIN Limits,
         x.at \in {"pop", "replace", "trim"} => x.size >= Limits[x.limit].max,
         stamps' \in [DOMAIN Limits -> Seq(Nat)],
         DOMAIN tally' = DOMAIN Limits, \A i \in DOMAIN Limits : tally'[i] \in Tallies(i)
  PROVE  SmsTypeOK'
<1>1. pc' \in [Threads -> Steps] /\ pc'[t] = x /\ \A u \in Threads \ {t} : pc'[u] = pc[u]
  BY DEF SmsTypeOK
<1>2. \A u \in Threads :
        /\ pc'[u].at \notin {"idle", "send"} => pc'[u].limit \in DOMAIN Limits
        /\ pc'[u].at \in {"pop", "replace", "trim"} => pc'[u].size >= Limits[pc'[u].limit].max
  BY <1>1 DEF SmsTypeOK
<1> QED
  BY <1>1, <1>2 DEF SmsTypeOK

LEMMA AtLimit ==
  ASSUME SmsInv, NEW t \in Threads, pc[t].at \in Commands
  PROVE  /\ pc[t].limit \in DOMAIN Limits /\ pc[t].shared \in BOOLEAN
         /\ t \in Busy(pc[t].limit)
         /\ pc[t].shared => t \in Met(pc[t].limit)
         /\ ~pc[t].shared => Busy(pc[t].limit) = {t} /\ Met(pc[t].limit) = {} /\ AtOwn(t)
<1>1. pc[t] \in Steps /\ pc[t].limit \in DOMAIN Limits
  BY DEF SmsInv, SmsTypeOK, Commands
<1>2. t \in Busy(pc[t].limit) /\ (pc[t].shared => t \in Met(pc[t].limit))
  BY DEF Busy, Met
<1>3. ~pc[t].shared => Busy(pc[t].limit) = {t} /\ AtOwn(t)
  BY <1>1, <1>2 DEF SmsInv, LimitInv, Own
<1> QED
  BY <1>1, <1>2, <1>3 DEF Met, Steps

\* A thread on its way to the next limit, or to its next command.
Passed(t) == IF pc[t].limit = Len(Limits) THEN [S!Idle EXCEPT !.at = "send"]
             ELSE [S!Idle EXCEPT !.at = "size", !.limit = pc[t].limit + 1]
Gone(t, at) == [at |-> at, limit |-> pc[t].limit, size |-> pc[t].size, shared |-> pc[t].shared]

LEMMA PassStep ==
  ASSUME NEW t \in Threads, NEW i \in DOMAIN Limits, pc[t].limit = i, S!Pass(t)
  PROVE  /\ pc' = [pc EXCEPT ![t] = Passed(t)]
         /\ Passed(t) \in Steps /\ Passed(t).at \notin Commands
         /\ Passed(t).at \notin {"idle", "send"} => Passed(t).limit \in DOMAIN Limits
<1>1. pc' = [pc EXCEPT ![t] = Passed(t)]
  BY DEF S!Pass, Passed
<1>2. Limits \in Seq([max : Nat \ {0}, ttl : Nat \ {0}])
  BY SmsAssumption
<1>3. DOMAIN Limits = 1 .. Len(Limits) /\ Len(Limits) \in Nat
  BY <1>2
<1>4. CASE i = Len(Limits)
  <2>1. Passed(t) = [at |-> "send", limit |-> 0, size |-> 0, shared |-> FALSE]
    BY <1>4 DEF Passed, S!Idle
  <2>2. Passed(t) \in Steps /\ Passed(t).at \notin Commands /\ Passed(t).at = "send"
    BY <2>1 DEF Steps, Commands
  <2> QED
    BY <1>1, <2>2
<1>5. CASE i # Len(Limits)
  <2>1. Passed(t) = [at |-> "size", limit |-> i + 1, size |-> 0, shared |-> FALSE]
    BY <1>5 DEF Passed, S!Idle
  <2>2. i + 1 \in DOMAIN Limits /\ i + 1 \in Nat
    BY <1>3, <1>5
  <2>3. Passed(t) \in Steps /\ Passed(t).at \notin Commands /\ Passed(t).limit \in DOMAIN Limits
    BY <2>1, <2>2 DEF Steps, Commands
  <2> QED
    BY <1>1, <2>3
<1> QED
  BY <1>4, <1>5

LEMMA GotoStep ==
  ASSUME SmsTypeOK, NEW t \in Threads,
         NEW at \in {"idle", "size", "pop", "push", "replace", "trim", "send"}, S!Goto(t, at)
  PROVE  pc' = [pc EXCEPT ![t] = Gone(t, at)] /\ Gone(t, at) \in Steps
<1>1. pc[t] \in Steps
  BY DEF SmsTypeOK
<1>2. [pc[t] EXCEPT !.at = at] = Gone(t, at) /\ Gone(t, at) \in Steps
  BY <1>1 DEF Steps, Gone
<1>3. pc' = [pc EXCEPT ![t] = [pc[t] EXCEPT !.at = at]]
  BY DEF S!Goto
<1> QED
  BY <1>2, <1>3

\* A stamp at the end of a list.
LEMMA PushStep ==
  ASSUME SmsTypeOK, NEW t \in Threads, NEW i \in DOMAIN Limits, pc[t].limit = i, S!Push(t)
  PROVE  /\ stamps' \in [DOMAIN Limits -> Seq(Nat)] /\ Len(stamps'[i]) = Len(stamps[i]) + 1
         /\ stamps'[i][Len(stamps[i]) + 1] = 0
         /\ \A k \in 1 .. Len(stamps[i]) : stamps'[i][k] = stamps[i][k]
         /\ \A j \in DOMAIN Limits : j # i => stamps'[j] = stamps[j]
         /\ S!Count(t, "alone")
<1>1. stamps' = [stamps EXCEPT ![i] = Append(stamps[i], 0)] /\ S!Count(t, "alone")
  BY DEF S!Push
<1>2. stamps[i] \in Seq(Nat)
  BY DEF SmsTypeOK
<1>3. Append(stamps[i], 0) \in Seq(Nat) /\ Len(Append(stamps[i], 0)) = Len(stamps[i]) + 1
      /\ Append(stamps[i], 0)[Len(stamps[i]) + 1] = 0
      /\ \A k \in 1 .. Len(stamps[i]) : Append(stamps[i], 0)[k] = stamps[i][k]
  BY <1>2
<1> QED
  BY <1>1, <1>3 DEF SmsTypeOK

\* A call on its own is counted as what it is.
LEMMA OwnCount ==
  ASSUME SmsTypeOK, NEW t \in Threads, NEW i \in DOMAIN Limits, pc[t].limit = i, ~pc[t].shared,
         NEW kind \in {"alone", "refused"}, S!Count(t, kind)
  PROVE  \A a \in Ages(i) : /\ Alone(i, a)' = Alone(i, a) + (IF kind = "alone" THEN 1 ELSE 0)
                           /\ Refused(i, a)' = Refused(i, a) + (IF kind = "alone" THEN 0 ELSE 1)
                           /\ Credit(i, a)' = Credit(i, a)
<1>1. \A a \in Ages(i) : Alone(i, a) \in Nat /\ Refused(i, a) \in Nat /\ Credit(i, a) \in Nat
  BY Counts
<1>2. \A a \in Ages(i) :
        /\ Alone(i, a)' = Alone(i, a) + (IF ~pc[t].shared /\ kind = "alone" THEN 1 ELSE 0)
        /\ Refused(i, a)' = Refused(i, a) + (IF ~pc[t].shared /\ kind = "refused" THEN 1 ELSE 0)
        /\ Credit(i, a)' = Credit(i, a) + (IF pc[t].shared THEN Limits[i].max ELSE 0)
  BY CountStep
<1> QED
  BY <1>1, <1>2

LEMMA RightPushStep ==
  ASSUME SmsInv, NEW t \in Threads, NEW i \in DOMAIN Limits, pc[t].limit = i, S!rightPush(t)
  PROVE  SmsInv'
<1>1. pc[t].at = "push" /\ S!Push(t) /\ S!Pass(t)
  BY DEF S!rightPush, S!At
<1>2. pc[t].at \in Commands /\ SmsTypeOK
  BY <1>1 DEF Commands, SmsInv
<1>3. t \in Busy(i) /\ LimitInv(i)
  BY <1>2, AtLimit DEF SmsInv
<1> DEFINE x == Passed(t)
<1>4. /\ pc' = [pc EXCEPT ![t] = x] /\ x \in Steps /\ x.at \notin Commands
      /\ x.at \notin {"idle", "send"} => x.limit \in DOMAIN Limits
  BY <1>1, PassStep
<1> HIDE DEF x
<1>5. S!Count(t, "alone") /\ stamps' \in [DOMAIN Limits -> Seq(Nat)]
      /\ \A j \in DOMAIN Limits : j # i => stamps'[j] = stamps[j]
  BY <1>1, <1>2, <1>3, PushStep
<1>6. DOMAIN tally' = DOMAIN Limits
      /\ \A j \in DOMAIN Limits : tally'[j] \in Tallies(j) /\ (j # i => tally'[j] = tally[j])
  BY <1>2, <1>3, <1>5, CountStep
<1>7. SmsTypeOK'
  <2>1. x.at \notin {"pop", "replace", "trim"}
    BY <1>4 DEF Commands
  <2> QED
    BY <1>2, <1>4, <1>5, <1>6, <2>1, TypeStep
<1>8. CASE pc[t].shared
  <2>1. t \in Met(i)
    BY <1>2, <1>8, AtLimit
  <2>2. LimitInv(i)'
    BY <1>1, <1>3, <1>4, <1>5, <1>7, <2>1, MetIsCounted
  <2> QED
    BY <1>3, <1>4, <1>5, <1>6, <1>7, <2>2, OneStep
<1>9. CASE ~pc[t].shared
  <2>1. Busy(i) = {t} /\ Met(i) = {} /\ Len(stamps[i]) < Limits[i].max
    BY <1>1, <1>2, <1>9, AtLimit DEF AtOwn
  <2>2. Busy(i)' = {}
    <3>1. Busy(i)' = Busy(i) \ {t}
      BY <1>2, <1>4, BusyAfter
    <3> QED
      BY <2>1, <3>1
  <2>3. Len(stamps'[i]) = Len(stamps[i]) + 1 /\ stamps'[i][Len(stamps[i]) + 1] = 0
        /\ (\A k \in 1 .. Len(stamps[i]) : stamps'[i][k] = stamps[i][k])
    BY <1>1, <1>2, <1>3, PushStep
  <2>4. Len(stamps[i]) \in Nat /\ Limits[i].max \in Nat /\ Ages(i) \subseteq Nat
    BY <1>2, <1>3, LimitType DEF SmsTypeOK, Ages
  <2>5. \A a \in Ages(i) : Alone(i, a)' = Alone(i, a) + 1 /\ Refused(i, a)' = Refused(i, a)
                           /\ Credit(i, a)' = Credit(i, a)
    <3>1. \A a \in Ages(i) : /\ Alone(i, a)' = Alone(i, a) + (IF "alone" = "alone" THEN 1 ELSE 0)
                            /\ Refused(i, a)' = Refused(i, a) + (IF "alone" = "alone" THEN 0 ELSE 1)
                            /\ Credit(i, a)' = Credit(i, a)
      BY <1>2, <1>5, <1>9, OwnCount
    <3>2. \A a \in Ages(i) : Alone(i, a) \in Nat /\ Refused(i, a) \in Nat
      BY <1>2, Counts
    <3> QED
      BY <3>1, <3>2
  <2>6. Stamped(i)'
    <3> SUFFICES ASSUME NEW a \in Ages(i), NEW k \in 0 .. Len(stamps'[i]),
                        k = 0 \/ stamps'[i][k] > a
                 PROVE  Alone(i, a)' <= Len(stamps'[i]) - k + Refused(i, a)' + Credit(i, a)'
      BY DEF Stamped
    <3>1. k \in 0 .. Len(stamps[i])
      BY <2>3, <2>4
    <3>2. k = 0 \/ stamps[i][k] > a
      BY <2>3, <3>1
    <3>3. Alone(i, a) <= Len(stamps[i]) - k + Refused(i, a) + Credit(i, a)
      BY <1>3, <2>1, <3>1, <3>2 DEF LimitInv, Stamped
    <3> QED
      BY <1>2, <1>3, <2>3, <2>4, <2>5, <3>1, <3>3, Counts
  <2>7. Bound(i)'
    <3> SUFFICES ASSUME NEW a \in Ages(i)
                 PROVE  Alone(i, a)' <= Limits[i].max + Refused(i, a)' + Credit(i, a)'
      BY DEF Bound
    <3>1. Alone(i, a) <= Len(stamps[i]) - 0 + Refused(i, a) + Credit(i, a)
      BY <1>3, <2>1, <2>4 DEF LimitInv, Stamped
    <3> QED
      BY <1>2, <1>3, <2>1, <2>4, <2>5, <3>1, Counts
  <2>8. ~Long(i)'
    BY <2>1, <2>2, <2>3, <2>4 DEF Long
  <2>9. LimitInv(i)'
    BY <2>2, <2>6, <2>7, <2>8 DEF LimitInv, Own, Meeting, Met, Room
  <2> QED
    BY <1>3, <1>4, <1>5, <1>6, <1>7, <2>9, OneStep
<1> QED
  BY <1>2, <1>8, <1>9, AtLimit

LEMMA ReplaceStep ==
  ASSUME SmsInv, NEW t \in Threads, NEW i \in DOMAIN Limits, pc[t].limit = i, S!replace(t)
  PROVE  SmsInv'
<1>1. pc[t].at = "replace" /\ S!Push(t) /\ S!Goto(t, "trim")
  BY DEF S!replace, S!At
<1>2. pc[t].at \in Commands /\ SmsTypeOK
  BY <1>1 DEF Commands, SmsInv
<1>3. t \in Busy(i) /\ LimitInv(i)
  BY <1>2, AtLimit DEF SmsInv
<1> DEFINE x == Gone(t, "trim")
<1>4. pc' = [pc EXCEPT ![t] = x] /\ x \in Steps
  BY <1>1, <1>2, GotoStep
<1>5. x.at = "trim" /\ x.at \in Commands /\ x.limit = i /\ x.size = pc[t].size
      /\ x.shared = pc[t].shared
  BY DEF Gone, Commands
<1> HIDE DEF x
<1>6. S!Count(t, "alone") /\ stamps' \in [DOMAIN Limits -> Seq(Nat)]
      /\ \A j \in DOMAIN Limits : j # i => stamps'[j] = stamps[j]
  BY <1>1, <1>2, <1>3, PushStep
<1>7. DOMAIN tally' = DOMAIN Limits
      /\ \A j \in DOMAIN Limits : tally'[j] \in Tallies(j) /\ (j # i => tally'[j] = tally[j])
  BY <1>2, <1>3, <1>6, CountStep
<1>8. SmsTypeOK'
  <2>1. x.size >= Limits[x.limit].max
    BY <1>1, <1>2, <1>5 DEF SmsTypeOK
  <2> QED
    BY <1>2, <1>4, <1>5, <1>6, <1>7, <2>1, TypeStep
<1>9. CASE pc[t].shared
  <2>1. t \in Met(i)
    BY <1>2, <1>9, AtLimit
  <2>2. LimitInv(i)'
    BY <1>1, <1>3, <1>4, <1>5, <1>6, <1>8, <1>9, <2>1, MetIsCounted
  <2> QED
    BY <1>3, <1>4, <1>5, <1>6, <1>7, <1>8, <2>2, OneStep
<1>10. CASE ~pc[t].shared
  <2>1. Busy(i) = {t} /\ Met(i) = {} /\ Len(stamps[i]) = pc[t].size - 1
        /\ pc[t].size >= Limits[i].max
    BY <1>1, <1>2, <1>10, AtLimit DEF AtOwn
  <2>2. Busy(i)' = {t} /\ pc'[t] = x
    <3>1. Busy(i)' = Busy(i) \union {t} /\ pc'[t] = x
      BY <1>2, <1>4, <1>5, BusyAfter
    <3> QED
      BY <2>1, <3>1
  <2>3. Len(stamps'[i]) = Len(stamps[i]) + 1 /\ stamps'[i][Len(stamps[i]) + 1] = 0
        /\ (\A k \in 1 .. Len(stamps[i]) : stamps'[i][k] = stamps[i][k])
    BY <1>1, <1>2, <1>3, PushStep
  <2>4. Len(stamps[i]) \in Nat /\ Limits[i].max \in Nat \ {0} /\ Ages(i) \subseteq Nat
        /\ pc[t].size \in Nat /\ stamps[i] \in Seq(Nat)
    BY <1>2, <1>3, LimitType DEF SmsTypeOK, Ages, Steps
  <2>5. \A a \in Ages(i) : Alone(i, a)' = Alone(i, a) + 1 /\ Refused(i, a)' = Refused(i, a)
                           /\ Credit(i, a)' = Credit(i, a)
    <3>1. \A a \in Ages(i) : /\ Alone(i, a)' = Alone(i, a) + (IF "alone" = "alone" THEN 1 ELSE 0)
                            /\ Refused(i, a)' = Refused(i, a) + (IF "alone" = "alone" THEN 0 ELSE 1)
                            /\ Credit(i, a)' = Credit(i, a)
      BY <1>2, <1>6, <1>10, OwnCount
    <3>2. \A a \in Ages(i) : Alone(i, a) \in Nat /\ Refused(i, a) \in Nat
      BY <1>2, Counts
    <3> QED
      BY <3>1, <3>2
  <2>6. Stamped(i)'
    <3> SUFFICES ASSUME NEW a \in Ages(i), NEW k \in 0 .. Len(stamps'[i]),
                        k = 0 \/ stamps'[i][k] > a
                 PROVE  Alone(i, a)' <= Len(stamps'[i]) - k + Refused(i, a)' + Credit(i, a)'
      BY DEF Stamped
    <3>1. k \in 0 .. Len(stamps[i])
      BY <2>3, <2>4
    <3>2. k = 0 \/ stamps[i][k] > a
      BY <2>3, <3>1
    <3>3. Alone(i, a) <= Len(stamps[i]) - k + Refused(i, a) + Credit(i, a)
      BY <1>3, <2>1, <3>1, <3>2 DEF LimitInv, Stamped
    <3> QED
      BY <1>2, <1>3, <2>3, <2>4, <2>5, <3>1, <3>3, Counts
  <2>7. Bound(i)'
    <3> SUFFICES ASSUME NEW a \in Ages(i)
                 PROVE  Alone(i, a)' <= Limits[i].max + Refused(i, a)' + Credit(i, a)'
      BY DEF Bound
    <3>1. \A k \in 0 .. Len(stamps[i]) : k = 0 \/ stamps[i][k] > a =>
            Alone(i, a) <= Len(stamps[i]) - k + Refused(i, a) + Credit(i, a)
      BY <1>3, <2>1 DEF LimitInv, Stamped
    <3>2. CASE pc[t].size = Limits[i].max
      <4>1. Alone(i, a) <= Len(stamps[i]) - 0 + Refused(i, a) + Credit(i, a)
        BY <2>4, <3>1
      <4> QED
        BY <1>2, <1>3, <2>1, <2>4, <2>5, <3>2, <4>1, Counts
    <3>3. CASE pc[t].size > Limits[i].max
      <4>1. Len(stamps[i]) \in 1 .. Len(stamps[i]) /\ stamps[i][Len(stamps[i])] \in Nat
        BY <2>1, <2>4, <3>3
      <4>2. CASE stamps[i][Len(stamps[i])] <= a
        <5>1. Long(i) /\ \A u \in Busy(i) : pc[u].at # "trim"
          BY <1>1, <2>1, <3>3 DEF Long
        <5>2. Alone(i, a) + 1 <= Limits[i].max + Refused(i, a) + Credit(i, a)
          BY <1>3, <2>1, <4>2, <5>1 DEF LimitInv, Room
        <5> QED
          BY <2>5, <5>2
      <4>3. CASE stamps[i][Len(stamps[i])] > a
        <5>1. Alone(i, a) <= Len(stamps[i]) - Len(stamps[i]) + Refused(i, a) + Credit(i, a)
          BY <2>4, <3>1, <4>3
        <5> QED
          BY <1>2, <2>4, <2>5, <5>1, Counts
      <4> QED
        BY <2>4, <4>1, <4>2, <4>3
    <3> QED
      BY <2>1, <2>4, <3>2, <3>3
  <2>8. Own(i)'
    <3>1. Len(stamps'[i]) = x.size /\ x.size >= Limits[i].max
      BY <1>5, <2>1, <2>3, <2>4
    <3>2. AtOwn(t)'
      BY <1>5, <2>2, <3>1 DEF AtOwn
    <3> QED
      BY <2>2, <3>2 DEF Own
  <2>9. Met(i)' = {} /\ pc'[t].at = "trim"
    BY <1>5, <1>10, <2>2 DEF Met
  <2>10. LimitInv(i)'
    BY <2>2, <2>6, <2>7, <2>8, <2>9 DEF LimitInv, Meeting, Room
  <2> QED
    BY <1>3, <1>4, <1>5, <1>6, <1>7, <1>8, <2>10, OneStep
<1> QED
  BY <1>2, <1>9, <1>10, AtLimit

\* What a trim leaves of a list.
LEMMA TrimmedList ==
  ASSUME NEW list \in Seq(Nat), NEW from \in Nat, NEW to \in Nat
  PROVE  /\ S!Trimmed(list, from, to) \in Seq(Nat)
         /\ to = Len(list) /\ from <= to =>
              /\ Len(S!Trimmed(list, from, to)) = to - from
              /\ \A k \in 1 .. to - from : S!Trimmed(list, from, to)[k] = list[k + from]
<1> DEFINE n == IF to < Len(list) THEN to ELSE Len(list)
<1>1. n \in Nat /\ n <= Len(list) /\ Len(list) \in Nat
  OBVIOUS
<1>2. SubSeq(list, from + 1, n) \in Seq(Nat)
  BY <1>1
<1>3. ASSUME to = Len(list), from <= to
      PROVE  /\ Len(SubSeq(list, from + 1, n)) = to - from
             /\ \A k \in 1 .. to - from : SubSeq(list, from + 1, n)[k] = list[k + from]
  <2>1. n = to
    BY <1>3
  <2> QED
    BY <1>1, <1>3, <2>1
<1> QED
  BY <1>2, <1>3 DEF S!Trimmed

LEMMA TrimStep ==
  ASSUME SmsInv, NEW t \in Threads, NEW i \in DOMAIN Limits, pc[t].limit = i, S!trim(t)
  PROVE  SmsInv'
<1> DEFINE max == Limits[i].max
           from == pc[t].size - max
           left == S!Trimmed(stamps[i], from, pc[t].size)
<1>1. /\ pc[t].at = "trim" /\ S!Pass(t) /\ tally' = tally
      /\ stamps' = [stamps EXCEPT ![i] = left]
  BY DEF S!trim, S!Trim, S!At
<1>2. pc[t].at \in Commands /\ SmsTypeOK
  BY <1>1 DEF Commands, SmsInv
<1>3. t \in Busy(i) /\ LimitInv(i)
  BY <1>2, AtLimit DEF SmsInv
<1> DEFINE x == Passed(t)
<1>4. /\ pc' = [pc EXCEPT ![t] = x] /\ x \in Steps /\ x.at \notin Commands
      /\ x.at \notin {"idle", "send"} => x.limit \in DOMAIN Limits
  BY <1>1, PassStep
<1> HIDE DEF x
<1>5. stamps[i] \in Seq(Nat) /\ pc[t].size \in Nat /\ max \in Nat \ {0} /\ from \in Nat
  <2>1. pc[t].size >= max /\ pc[t] \in Steps
    BY <1>1, <1>2 DEF SmsTypeOK
  <2> QED
    BY <1>2, <2>1, LimitType DEF SmsTypeOK, Steps
<1>6. left \in Seq(Nat)
  BY <1>5, TrimmedList
<1>7. stamps' \in [DOMAIN Limits -> Seq(Nat)] /\ stamps'[i] = left
      /\ \A j \in DOMAIN Limits : j # i => stamps'[j] = stamps[j]
  BY <1>1, <1>2, <1>6 DEF SmsTypeOK
<1>8. SmsTypeOK'
  <2>1. x.at \notin {"pop", "replace", "trim"}
    BY <1>4 DEF Commands
  <2>2. DOMAIN tally' = DOMAIN Limits /\ \A j \in DOMAIN Limits : tally'[j] \in Tallies(j)
    BY <1>1, <1>2 DEF SmsTypeOK
  <2> QED
    BY <1>2, <1>4, <1>7, <2>1, <2>2, TypeStep
<1>9. CASE pc[t].shared
  <2>1. t \in Met(i)
    BY <1>2, <1>9, AtLimit
  <2>2. LimitInv(i)'
    BY <1>1, <1>4, <1>8, <2>1, MetTrims
  <2> QED
    BY <1>1, <1>4, <1>7, <1>8, <2>2, OneStep
<1>10. CASE ~pc[t].shared
  <2>1. Busy(i) = {t} /\ Met(i) = {} /\ Len(stamps[i]) = pc[t].size /\ pc[t].size >= max
    BY <1>1, <1>2, <1>10, AtLimit DEF AtOwn
  <2>2. Busy(i)' = {}
    <3>1. Busy(i)' = Busy(i) \ {t}
      BY <1>2, <1>4, BusyAfter
    <3> QED
      BY <2>1, <3>1
  <2> HIDE DEF left
  <2>3. Len(left) = max /\ \A k \in 1 .. max : left[k] = stamps[i][k + from]
    <3>1. from <= pc[t].size /\ pc[t].size - from = max
      BY <1>5
    <3>2. Len(left) = pc[t].size - from
          /\ \A k \in 1 .. pc[t].size - from : left[k] = stamps[i][k + from]
      BY <1>5, <2>1, <3>1, TrimmedList DEF left
    <3> QED
      BY <3>1, <3>2
  <2>4. \A a \in Ages(i) : Alone(i, a)' = Alone(i, a) /\ Refused(i, a)' = Refused(i, a)
                           /\ Credit(i, a)' = Credit(i, a)
    BY <1>1 DEF Alone, Refused, Credit
  <2>5. Bound(i)'
    BY <1>3, <2>4 DEF LimitInv, Bound
  <2>6. Stamped(i)'
    <3> SUFFICES ASSUME NEW a \in Ages(i), NEW k \in 0 .. Len(stamps'[i]),
                        k = 0 \/ stamps'[i][k] > a
                 PROVE  Alone(i, a)' <= Len(stamps'[i]) - k + Refused(i, a)' + Credit(i, a)'
      BY DEF Stamped
    <3>1. k \in 0 .. max
      BY <1>7, <2>3
    <3>2. CASE k = 0
      <4>1. Alone(i, a) <= max + Refused(i, a) + Credit(i, a)
        BY <1>3 DEF LimitInv, Bound
      <4> QED
        BY <1>2, <1>5, <1>7, <2>3, <2>4, <3>2, <4>1, Counts
    <3>3. CASE k # 0
      <4>1. k + from \in 0 .. Len(stamps[i]) /\ stamps[i][k + from] > a
        <5>1. k \in 1 .. max
          BY <1>5, <3>1, <3>3
        <5>2. left[k] > a /\ left[k] = stamps[i][k + from]
          BY <1>7, <2>3, <3>3, <5>1
        <5>3. from + max = Len(stamps[i]) /\ k + from <= from + max
          BY <1>5, <2>1, <5>1
        <5> QED
          BY <1>5, <5>1, <5>2, <5>3
      <4>2. Alone(i, a) <= Len(stamps[i]) - (k + from) + Refused(i, a) + Credit(i, a)
        BY <1>3, <2>1, <4>1 DEF LimitInv, Stamped
      <4> QED
        BY <1>2, <1>5, <1>7, <2>1, <2>3, <2>4, <3>1, <4>2, Counts
    <3> QED
      BY <3>2, <3>3
  <2>7. ~Long(i)'
    BY <1>5, <1>7, <2>2, <2>3 DEF Long
  <2>8. LimitInv(i)'
    BY <2>2, <2>5, <2>6, <2>7 DEF LimitInv, Own, Meeting, Met, Room
  <2> QED
    BY <1>1, <1>4, <1>7, <1>8, <2>8, OneStep
<1> QED
  BY <1>2, <1>9, <1>10, AtLimit

LEMMA LeftPopStep ==
  ASSUME SmsInv, NEW t \in Threads, NEW i \in DOMAIN Limits, pc[t].limit = i, S!leftPop(t)
  PROVE  SmsInv'
<1>1. /\ pc[t].at = "pop"
      /\ IF stamps[i] = <<>> THEN S!Goto(t, "push") /\ UNCHANGED <<stamps, tally>>
         ELSE /\ stamps' = [stamps EXCEPT ![i] = Tail(stamps[i])]
              /\ IF Head(stamps[i]) < Limits[i].ttl
                 THEN pc' = [pc EXCEPT ![t] = S!Idle] /\ S!Count(t, "refused")
                 ELSE S!Goto(t, "replace") /\ UNCHANGED tally
  BY DEF S!leftPop, S!At
<1>2. pc[t].at \in Commands /\ SmsTypeOK
  BY <1>1 DEF Commands, SmsInv
<1>3. t \in Busy(i) /\ LimitInv(i)
  BY <1>2, AtLimit DEF SmsInv
<1>4. stamps[i] \in Seq(Nat) /\ Len(stamps[i]) \in Nat /\ Limits[i].max \in Nat \ {0}
      /\ Limits[i].ttl \in Nat /\ Ages(i) = 0 .. Limits[i].ttl - 1
      /\ pc[t].size >= Limits[i].max /\ pc[t].size \in Nat
  BY <1>1, <1>2, LimitType DEF SmsTypeOK, Ages, Steps
<1>5. ~pc[t].shared => /\ Busy(i) = {t} /\ Met(i) = {}
                       /\ Len(stamps[i]) = pc[t].size
  BY <1>1, <1>2, AtLimit DEF AtOwn
<1>6. pc[t].shared => t \in Met(i)
  BY <1>2, AtLimit
<1>7. CASE stamps[i] = <<>>
  <2> DEFINE x == Gone(t, "push")
  <2>1. pc' = [pc EXCEPT ![t] = x] /\ x \in Steps
    BY <1>1, <1>2, <1>7, GotoStep
  <2>2. x.at = "push" /\ x.at \in Commands \ {"trim"} /\ x.limit = i /\ x.shared = pc[t].shared
    BY DEF Gone, Commands
  <2> HIDE DEF x
  <2>3. stamps' = stamps /\ tally' = tally
    BY <1>1, <1>7
  <2>4. SmsTypeOK'
    <3>1. /\ stamps' \in [DOMAIN Limits -> Seq(Nat)] /\ DOMAIN tally' = DOMAIN Limits
          /\ \A j \in DOMAIN Limits : tally'[j] \in Tallies(j)
      BY <1>2, <2>3 DEF SmsTypeOK
    <3> QED
      BY <1>2, <2>1, <2>2, <3>1, TypeStep
  <2>5. pc[t].shared
    BY <1>2, <1>4, <1>5, <1>7, AtLimit
  <2>6. LimitInv(i)'
    BY <1>1, <1>6, <2>1, <2>2, <2>3, <2>4, <2>5, MetGoesOn
  <2> QED
    BY <2>1, <2>2, <2>3, <2>4, <2>6, OneStep
<1>8. CASE stamps[i] # <<>>
  <2>1. stamps' = [stamps EXCEPT ![i] = Tail(stamps[i])]
    BY <1>1, <1>8
  <2>2. Tail(stamps[i]) \in Seq(Nat) /\ Len(Tail(stamps[i])) = Len(stamps[i]) - 1
        /\ Len(stamps[i]) # 0 /\ Head(stamps[i]) = stamps[i][1] /\ stamps[i][1] \in Nat
        /\ \A k \in 1 .. Len(stamps[i]) - 1 : Tail(stamps[i])[k] = stamps[i][k + 1]
    BY <1>4, <1>8
  <2>3. stamps' \in [DOMAIN Limits -> Seq(Nat)] /\ stamps'[i] = Tail(stamps[i])
        /\ \A j \in DOMAIN Limits : j # i => stamps'[j] = stamps[j]
    BY <1>2, <2>1, <2>2 DEF SmsTypeOK
  <2>4. CASE Head(stamps[i]) < Limits[i].ttl
    <3>1. pc' = [pc EXCEPT ![t] = S!Idle] /\ S!Count(t, "refused")
      BY <1>1, <1>8, <2>4
    <3> DEFINE x == S!Idle
    <3>2. x \in Steps /\ x.at = "idle" /\ x.at \notin Commands /\ ~x.shared
      BY DEF S!Idle, Steps, Commands
    <3> HIDE DEF x
    <3>3. DOMAIN tally' = DOMAIN Limits
          /\ \A j \in DOMAIN Limits : tally'[j] \in Tallies(j) /\ (j # i => tally'[j] = tally[j])
      BY <1>2, <3>1, CountStep
    <3>4. pc' = [pc EXCEPT ![t] = x]
      BY <3>1 DEF x
    <3>5. SmsTypeOK'
      BY <1>2, <2>3, <3>2, <3>3, <3>4, TypeStep
    <3>6. CASE pc[t].shared
      <4>1. LimitInv(i)'
        BY <1>1, <1>6, <3>1, <3>2, <3>4, <3>5, <3>6, MetIsCounted
      <4> QED
        BY <2>3, <3>2, <3>3, <3>4, <3>5, <4>1, OneStep
    <3>7. CASE ~pc[t].shared
      <4>1. Busy(i)' = {}
        <5>1. Busy(i)' = Busy(i) \ {t}
          BY <1>2, <3>2, <3>4, BusyAfter
        <5> QED
          BY <1>5, <3>7, <5>1
      <4>2. \A a \in Ages(i) : Alone(i, a)' = Alone(i, a) /\ Refused(i, a)' = Refused(i, a) + 1
                               /\ Credit(i, a)' = Credit(i, a)
        <5>1. \A a \in Ages(i) :
                /\ Alone(i, a)' = Alone(i, a) + (IF "refused" = "alone" THEN 1 ELSE 0)
                /\ Refused(i, a)' = Refused(i, a) + (IF "refused" = "alone" THEN 0 ELSE 1)
                /\ Credit(i, a)' = Credit(i, a)
          BY <1>2, <3>1, <3>7, OwnCount
        <5>2. \A a \in Ages(i) : Alone(i, a) \in Nat /\ Refused(i, a) \in Nat
          BY <1>2, Counts
        <5> QED
          BY <5>1, <5>2
      <4>3. Stamped(i)'
        <5> SUFFICES ASSUME NEW a \in Ages(i), NEW k \in 0 .. Len(stamps'[i]),
                            k = 0 \/ stamps'[i][k] > a
                     PROVE  Alone(i, a)' <= Len(stamps'[i]) - k + Refused(i, a)' + Credit(i, a)'
          BY DEF Stamped
        <5> DEFINE j == IF k = 0 THEN 0 ELSE k + 1
        <5>1. j \in 0 .. Len(stamps[i]) /\ (j = 0 \/ stamps[i][j] > a)
          BY <1>4, <2>2, <2>3
        <5>2. Alone(i, a) <= Len(stamps[i]) - j + Refused(i, a) + Credit(i, a)
          BY <1>3, <1>5, <3>7, <5>1 DEF LimitInv, Stamped
        <5>3. Len(stamps'[i]) - k + 1 >= Len(stamps[i]) - j /\ Len(stamps'[i]) - k \in Int
              /\ Len(stamps[i]) - j \in Int
          <6>1. k \in Int /\ Len(stamps'[i]) = Len(stamps[i]) - 1
            BY <1>4, <2>2, <2>3
          <6>2. j = k + 1 \/ (k = 0 /\ j = 0)
            OBVIOUS
          <6> HIDE DEF j
          <6> QED
            BY <1>4, <6>1, <6>2
        <5> HIDE DEF j
        <5> QED
          BY <1>2, <4>2, <5>2, <5>3, Counts
      <4>4. Bound(i)'
        BY <1>2, <1>3, <1>4, <4>2, Counts DEF LimitInv, Bound
      <4>5. Room(i)'
        <5> SUFFICES ASSUME Long(i)', NEW a \in Ages(i),
                            stamps'[i][Len(stamps'[i])] <= a
                     PROVE  Alone(i, a)' + 1 <= Limits[i].max + Refused(i, a)' + Credit(i, a)'
          BY DEF Room
        <5>1. Alone(i, a) <= Limits[i].max + Refused(i, a) + Credit(i, a)
          BY <1>3 DEF LimitInv, Bound
        <5> QED
          BY <1>2, <1>4, <4>2, <5>1, Counts
      <4>6. LimitInv(i)'
        BY <4>1, <4>3, <4>4, <4>5 DEF LimitInv, Own, Meeting, Met
      <4> QED
        BY <2>3, <3>2, <3>3, <3>4, <3>5, <4>6, OneStep
    <3> QED
      BY <3>6, <3>7
  <2>5. CASE ~(Head(stamps[i]) < Limits[i].ttl)
    <3>1. S!Goto(t, "replace") /\ tally' = tally
      BY <1>1, <1>8, <2>5
    <3> DEFINE x == Gone(t, "replace")
    <3>2. pc' = [pc EXCEPT ![t] = x] /\ x \in Steps
      BY <1>2, <3>1, GotoStep
    <3>3. x.at = "replace" /\ x.at \in Commands \ {"trim"} /\ x.limit = i
          /\ x.shared = pc[t].shared /\ x.size = pc[t].size
      BY DEF Gone, Commands
    <3> HIDE DEF x
    <3>4. SmsTypeOK'
      <4>1. DOMAIN tally' = DOMAIN Limits /\ \A j \in DOMAIN Limits : tally'[j] \in Tallies(j)
        BY <1>2, <3>1 DEF SmsTypeOK
      <4> QED
        BY <1>2, <1>4, <2>3, <3>2, <3>3, <4>1, TypeStep
    <3>5. CASE pc[t].shared
      <4>1. LimitInv(i)'
        BY <1>1, <1>6, <3>1, <3>2, <3>3, <3>4, <3>5, MetGoesOn
      <4> QED
        BY <2>3, <3>1, <3>2, <3>3, <3>4, <4>1, OneStep
    <3>6. CASE ~pc[t].shared
      <4>1. Busy(i)' = {t} /\ pc'[t] = x
        <5>1. Busy(i)' = Busy(i) \union {t} /\ pc'[t] = x
          <6>1. x.limit = i /\ x.at \in Commands
            BY <3>3
          <6> QED
            BY <1>2, <3>2, <6>1, BusyAfter
        <5> QED
          BY <1>5, <3>6, <5>1
      <4>2. \A a \in Ages(i) : Alone(i, a)' = Alone(i, a) /\ Refused(i, a)' = Refused(i, a)
                               /\ Credit(i, a)' = Credit(i, a)
        BY <3>1 DEF Alone, Refused, Credit
      <4>3. Stamped(i)'
        <5> SUFFICES ASSUME NEW a \in Ages(i), NEW k \in 0 .. Len(stamps'[i]),
                            k = 0 \/ stamps'[i][k] > a
                     PROVE  Alone(i, a)' <= Len(stamps'[i]) - k + Refused(i, a)' + Credit(i, a)'
          BY DEF Stamped
        <5>1. k + 1 \in 0 .. Len(stamps[i]) /\ stamps[i][k + 1] > a
          <6>1. k \in 0 .. Len(stamps[i]) - 1
            BY <2>2, <2>3
          <6>2. CASE k = 0
            BY <1>4, <2>2, <2>5, <6>1, <6>2
          <6>3. CASE k # 0
            BY <1>4, <2>2, <2>3, <6>1, <6>3
          <6> QED
            BY <6>2, <6>3
        <5>2. Alone(i, a) <= Len(stamps[i]) - (k + 1) + Refused(i, a) + Credit(i, a)
          BY <1>3, <1>5, <3>6, <5>1 DEF LimitInv, Stamped
        <5> QED
          BY <1>2, <1>4, <2>2, <2>3, <4>2, <5>2, Counts
      <4>4. Bound(i)'
        BY <1>3, <4>2 DEF LimitInv, Bound
      <4>5. Room(i)'
        <5> SUFFICES ASSUME Long(i)', NEW a \in Ages(i),
                            stamps'[i][Len(stamps'[i])] <= a
                     PROVE  Alone(i, a)' + 1 <= Limits[i].max + Refused(i, a)' + Credit(i, a)'
          BY DEF Room
        <5>1. Len(stamps[i]) > Limits[i].max
          BY <1>4, <1>5, <2>2, <2>3, <3>3, <3>6, <4>1 DEF Long
        <5>2. Long(i) /\ \A u \in Busy(i) : pc[u].at # "trim"
          BY <1>1, <1>5, <3>6, <5>1 DEF Long
        <5>3. Len(stamps[i]) - 1 \in 1 .. Len(stamps[i]) - 1
          BY <1>4, <5>1
        <5>4. stamps'[i][Len(stamps'[i])] = stamps[i][Len(stamps[i])]
          BY <1>4, <2>2, <2>3, <5>3
        <5>5. Alone(i, a) + 1 <= Limits[i].max + Refused(i, a) + Credit(i, a)
          BY <1>3, <1>5, <3>6, <5>2, <5>4 DEF LimitInv, Room
        <5> QED
          BY <4>2, <5>5
      <4>6. Own(i)'
        <5>1. Len(stamps'[i]) = x.size - 1 /\ x.size >= Limits[i].max
          BY <1>4, <1>5, <2>2, <2>3, <3>3, <3>6
        <5>2. AtOwn(t)'
          BY <3>3, <4>1, <5>1 DEF AtOwn
        <5> QED
          BY <4>1, <5>2 DEF Own
      <4>7. Met(i)' = {}
        BY <3>3, <3>6, <4>1 DEF Met
      <4>8. LimitInv(i)'
        BY <4>3, <4>4, <4>5, <4>6, <4>7 DEF LimitInv, Meeting
      <4> QED
        BY <2>3, <3>1, <3>2, <3>3, <3>4, <4>8, OneStep
    <3> QED
      BY <3>5, <3>6
  <2> QED
    BY <2>4, <2>5
<1> QED
  BY <1>7, <1>8

\* Whom it meets has met it.
LEMMA SizeStep ==
  ASSUME SmsInv, NEW t \in Threads, NEW i \in DOMAIN Limits, pc[t].limit = i, S!size(t)
  PROVE  SmsInv'
<1> DEFINE n == Len(stamps[i])
           met == S!Others(t, i)
           at == IF n < Limits[i].max THEN "push" ELSE "pop"
           flag == met # {}
           x == [at |-> at, limit |-> i, size |-> n, shared |-> flag]
<1>1. /\ pc[t].at = "size" /\ stamps' = stamps /\ tally' = tally
      /\ pc' = [u \in Threads |-> IF u = t THEN x ELSE
                                   IF u \in met THEN [pc[u] EXCEPT !.shared = TRUE] ELSE pc[u]]
  BY DEF S!size, S!At
<1>2. SmsTypeOK /\ LimitInv(i) /\ n \in Nat /\ Limits[i].max \in Nat
  BY LimitType DEF SmsInv, SmsTypeOK
<1>3. met = Busy(i) /\ t \notin Busy(i)
  BY <1>1 DEF S!Others, Busy, Commands
<1>4. /\ x \in Steps /\ x.limit = i /\ x.size = n /\ x.shared = (met # {})
      /\ x.at \in {"push", "pop"} /\ (x.at = "push" <=> n < Limits[i].max)
  <2>1. flag \in BOOLEAN /\ at \in {"push", "pop"} /\ (at = "push" <=> n < Limits[i].max)
    OBVIOUS
  <2> HIDE DEF flag, at
  <2>2. x \in Steps /\ x.at = at /\ x.limit = i /\ x.size = n /\ x.shared = flag
    <3>1. i \in Nat
      BY SmsAssumption
    <3> QED
      BY <1>2, <2>1, <3>1 DEF Steps
  <2> HIDE DEF x
  <2> QED
    BY <2>1, <2>2 DEF flag
<1> HIDE DEF x
<1>5. pc'[t] = x /\ \A u \in Threads \ Busy(i) : u # t => pc'[u] = pc[u]
  BY <1>1, <1>3
<1>6. ASSUME NEW u \in Busy(i)
      PROVE  /\ u \in Threads /\ pc[u] \in Steps /\ pc'[u] \in Steps
             /\ pc'[u].at = pc[u].at /\ pc'[u].limit = pc[u].limit
             /\ pc'[u].size = pc[u].size /\ pc'[u].shared = TRUE
  <2>1. pc[u] \in Steps /\ u \in Threads
    BY <1>2 DEF SmsTypeOK, Busy
  <2>2. pc'[u] = [pc[u] EXCEPT !.shared = TRUE]
    BY <1>1, <1>3, <2>1
  <2> QED
    BY <2>1, <2>2 DEF Steps
<1>7. ASSUME NEW u \in Threads
      PROVE  /\ pc'[u] \in Steps
             /\ pc'[u].at \notin {"idle", "send"} => pc'[u].limit \in DOMAIN Limits
             /\ pc'[u].at \in {"pop", "replace", "trim"} => pc'[u].size >= Limits[pc'[u].limit].max
  <2>1. CASE u = t
    BY <1>2, <1>4, <1>5, <2>1
  <2>2. CASE u \in Busy(i)
    BY <1>2, <1>6, <2>2 DEF SmsTypeOK
  <2>3. CASE u # t /\ u \notin Busy(i)
    <3>1. pc'[u] = pc[u]
      BY <1>5, <2>3
    <3> QED
      BY <1>2, <3>1 DEF SmsTypeOK
  <2> QED
    BY <2>1, <2>2, <2>3
<1>8. SmsTypeOK'
  <2>1. pc' = [u \in Threads |-> pc'[u]]
    BY <1>1
  <2>2. pc' \in [Threads -> Steps]
    BY <1>7, <2>1
  <2> QED
    BY <1>1, <1>2, <1>7, <2>2 DEF SmsTypeOK
<1>9. ASSUME NEW j \in DOMAIN Limits, j # i PROVE LimitInv(j)'
  <2>1. \A u \in Busy(j) : pc'[u] = pc[u] /\ u \in Threads \ Busy(i) /\ u # t
    BY <1>1, <1>5, <1>9 DEF Busy, Commands
  <2>2. ASSUME NEW u \in Threads, u \notin Busy(j) PROVE u \notin Busy(j)'
    <3>1. CASE u = t
      BY <1>4, <1>5, <1>9, <3>1 DEF Busy
    <3>2. CASE u \in Busy(i)
      BY <1>6, <1>9, <3>2 DEF Busy
    <3>3. CASE u # t /\ u \notin Busy(i)
      BY <1>5, <2>2, <3>3 DEF Busy
    <3> QED
      BY <3>1, <3>2, <3>3
  <2>3. Busy(j)' = Busy(j)
    BY <2>1, <2>2 DEF Busy
  <2> QED
    BY <1>1, <2>1, <2>3, Elsewhere DEF SmsInv
<1>10. Busy(i)' = Busy(i) \union {t}
  <2>1. t \in Busy(i)'
    BY <1>4, <1>5 DEF Busy, Commands
  <2>2. \A u \in Busy(i) : u \in Busy(i)'
    BY <1>6 DEF Busy
  <2>3. \A u \in Threads : u \notin Busy(i) /\ u # t => u \notin Busy(i)'
    BY <1>5 DEF Busy
  <2> QED
    BY <2>1, <2>2, <2>3 DEF Busy
<1>11. \A a \in Ages(i) : Alone(i, a)' = Alone(i, a) /\ Refused(i, a)' = Refused(i, a)
                          /\ Credit(i, a)' = Credit(i, a)
  BY <1>1 DEF Alone, Refused, Credit
<1>12. Bound(i)'
  BY <1>2, <1>11 DEF LimitInv, Bound
<1>13. CASE met = {}
  <2>1. Busy(i)' = {t} /\ Met(i)' = {} /\ Busy(i) = {} /\ Met(i) = {}
    BY <1>3, <1>4, <1>5, <1>10, <1>13 DEF Met
  <2>2. Own(i)'
    <3>1. Len(stamps'[i]) = n
      BY <1>1
    <3>2. AtOwn(t)'
      BY <1>2, <1>4, <1>5, <3>1 DEF AtOwn
    <3> QED
      BY <2>1, <3>2 DEF Own
  <2>3. Stamped(i)'
    BY <1>1, <1>2, <1>11, <2>1 DEF LimitInv, Stamped
  <2>4. Long(i)' => Long(i)
    BY <1>1, <1>4, <1>5, <2>1 DEF Long
  <2>5. Room(i)'
    BY <1>1, <1>2, <1>11, <2>1, <2>4 DEF LimitInv, Room
  <2> QED
    BY <1>8, <1>9, <1>12, <2>1, <2>2, <2>3, <2>5 DEF SmsInv, LimitInv, Meeting
<1>14. CASE met # {}
  <2>1. \A u \in Busy(i)' : pc'[u].shared
    BY <1>4, <1>5, <1>6, <1>10, <1>14
  <2>2. t \in Met(i)' /\ ~Counted(i)'
    <3>1. t \in Met(i)'
      BY <1>10, <2>1 DEF Met
    <3> QED
      BY <1>4, <1>5, <3>1 DEF Counted
  <2>3. Meeting(i)'
    <3>1. \A a \in Ages(i) : Alone(i, a) \in Nat /\ Refused(i, a) \in Nat /\ Credit(i, a) \in Nat
      BY <1>2, Counts
    <3>2. \A a \in Ages(i) : Alone(i, a) <= Refused(i, a) + Credit(i, a) + Limits[i].max
      BY <1>2, <3>1 DEF LimitInv, Bound
    <3> QED
      BY <1>11, <2>2, <3>2 DEF Meeting
  <2>4. Own(i)' /\ Stamped(i)' /\ Room(i)'
    BY <2>1, <2>2 DEF Own, Stamped, Room
  <2> QED
    BY <1>8, <1>9, <1>12, <2>3, <2>4 DEF SmsInv, LimitInv
<1> QED
  BY <1>13, <1>14

LEMMA SeqOfNat ==
  ASSUME NEW n \in Nat, NEW f \in [1 .. n -> Nat]
  PROVE  f \in Seq(Nat) /\ Len(f) = n
OBVIOUS

\* All stamps and all calls get older together.
LEMMA TickKeeps ==
  ASSUME SmsInv, S!Tick
  PROVE  SmsInv'
<1>1. /\ stamps' = [i \in DOMAIN Limits |->
                     [j \in DOMAIN stamps[i] |->
                        IF stamps[i][j] < Limits[i].ttl THEN stamps[i][j] + 1 ELSE Limits[i].ttl]]
      /\ tally' = [i \in DOMAIN Limits |-> [k \in S!Kinds |-> [a \in Ages(i) |->
                    IF a = 0 THEN 0 ELSE tally[i][k][a - 1]]]]
      /\ pc' = pc /\ SmsTypeOK
  BY DEF S!Tick, Ages, SmsInv
<1>2. ASSUME NEW i \in DOMAIN Limits
      PROVE  /\ Len(stamps'[i]) = Len(stamps[i]) /\ Len(stamps[i]) \in Nat
             /\ stamps'[i] \in Seq(Nat)
             /\ \A k \in 1 .. Len(stamps[i]) :
                  /\ stamps[i][k] \in Nat
                  /\ stamps'[i][k] = IF stamps[i][k] < Limits[i].ttl THEN stamps[i][k] + 1
                                     ELSE Limits[i].ttl
  <2>1. stamps[i] \in Seq(Nat) /\ Limits[i].ttl \in Nat
    BY <1>1, LimitType DEF SmsTypeOK
  <2>2. \A k \in 1 .. Len(stamps[i]) : stamps[i][k] \in Nat
    BY <2>1
  <2>3. stamps'[i] = [k \in 1 .. Len(stamps[i]) |->
                        IF stamps[i][k] < Limits[i].ttl THEN stamps[i][k] + 1 ELSE Limits[i].ttl]
    BY <1>1, <2>1
  <2>4. stamps'[i] \in [1 .. Len(stamps[i]) -> Nat]
    BY <2>1, <2>2, <2>3
  <2>5. stamps'[i] \in Seq(Nat) /\ Len(stamps'[i]) = Len(stamps[i])
    <3>1. Len(stamps[i]) \in Nat
      BY <2>1
    <3> QED
      BY <2>4, <3>1, SeqOfNat
  <2> QED
    BY <2>1, <2>2, <2>3, <2>5
<1>3. ASSUME NEW i \in DOMAIN Limits PROVE tally'[i] \in Tallies(i)
  <2>1. tally[i] \in [S!Kinds -> [Ages(i) -> Nat]] /\ Ages(i) = 0 .. Limits[i].ttl - 1
        /\ Limits[i].ttl \in Nat
    BY <1>1, LimitType DEF SmsTypeOK, Tallies, Ages
  <2>2. \A a \in Ages(i) : a # 0 => a - 1 \in Ages(i)
    BY <2>1
  <2>3. \A k \in S!Kinds, a \in Ages(i) : (IF a = 0 THEN 0 ELSE tally[i][k][a - 1]) \in Nat
    BY <2>1, <2>2
  <2> QED
    BY <1>1, <2>3 DEF Tallies
<1>4. SmsTypeOK'
  <2>1. stamps' \in [DOMAIN Limits -> Seq(Nat)]
    BY <1>1, <1>2
  <2>2. DOMAIN tally' = DOMAIN Limits
    BY <1>1
  <2> QED
    BY <1>1, <1>3, <2>1, <2>2 DEF SmsTypeOK
<1>5. ASSUME NEW i \in DOMAIN Limits PROVE LimitInv(i)'
  <2> USE <1>5
  <2>1. LimitInv(i) /\ Limits[i].max \in Nat \ {0} /\ Limits[i].ttl \in Nat \ {0}
        /\ Ages(i) = 0 .. Limits[i].ttl - 1
    BY LimitType DEF SmsInv, Ages
  <2>2. Busy(i)' = Busy(i) /\ Met(i)' = Met(i) /\ (Counted(i)' <=> Counted(i))
    BY <1>1 DEF Busy, Met, Counted
  <2>3. Own(i)'
    <3>1. \A u \in Busy(i) : AtOwn(u)' <=> AtOwn(u)
      BY <1>1, <1>2 DEF AtOwn, Busy
    <3> QED
      BY <1>1, <2>1, <2>2, <3>1 DEF LimitInv, Own
  <2>4. ASSUME NEW a \in Ages(i)
        PROVE  /\ a = 0 => Alone(i, a)' = 0 /\ Refused(i, a)' = 0 /\ Credit(i, a)' = 0
               /\ a # 0 => /\ a - 1 \in Ages(i) /\ Alone(i, a)' = Alone(i, a - 1)
                           /\ Refused(i, a)' = Refused(i, a - 1) /\ Credit(i, a)' = Credit(i, a - 1)
    <3>1. \A k \in S!Kinds : tally'[i][k][a] = IF a = 0 THEN 0 ELSE tally[i][k][a - 1]
      BY <1>1
    <3>2. a # 0 => a - 1 \in Ages(i)
      BY <2>1
    <3>3. Limits[i].max * 0 = 0
      BY <2>1
    <3> QED
      BY <3>1, <3>2, <3>3 DEF Alone, Refused, Credit, S!Kinds
  <2>5. Bound(i)'
    BY <2>1, <2>4 DEF LimitInv, Bound
  <2>6. Meeting(i)'
    BY <2>1, <2>2, <2>4 DEF LimitInv, Meeting
  <2>7. Stamped(i)'
    <3> SUFFICES ASSUME Met(i) = {}, NEW a \in Ages(i), NEW k \in 0 .. Len(stamps[i]),
                        k = 0 \/ stamps'[i][k] > a
                 PROVE  Alone(i, a)' <= Len(stamps[i]) - k + Refused(i, a)' + Credit(i, a)'
      BY <1>2, <2>2 DEF Stamped
    <3>1. CASE a = 0
      BY <1>2, <2>4, <3>1
    <3>2. CASE a # 0
      <4>1. k = 0 \/ stamps[i][k] > a - 1
        BY <1>2, <2>1
      <4>2. Alone(i, a - 1) <= Len(stamps[i]) - k + Refused(i, a - 1) + Credit(i, a - 1)
        BY <2>1, <2>4, <3>2, <4>1 DEF LimitInv, Stamped
      <4> QED
        BY <2>4, <3>2, <4>2
    <3> QED
      BY <3>1, <3>2
  <2>8. Room(i)'
    <3> SUFFICES ASSUME Met(i) = {}, Long(i)', \A u \in Busy(i) : pc[u].at # "trim",
                        NEW a \in Ages(i), stamps'[i][Len(stamps[i])] <= a
                 PROVE  Alone(i, a)' + 1 <= Limits[i].max + Refused(i, a)' + Credit(i, a)'
      BY <1>1, <1>2, <2>2 DEF Room
    <3>1. CASE a = 0
      BY <2>1, <2>4, <3>1
    <3>2. CASE a # 0
      <4>1. Long(i)
        BY <1>1, <1>2, <2>2 DEF Long
      <4>2. Len(stamps[i]) >= 1
        <5>1. CASE Len(stamps[i]) > Limits[i].max
          BY <1>2, <2>1, <5>1
        <5>2. ASSUME NEW u \in Busy(i), pc[u].at = "replace", pc[u].size > Limits[i].max
              PROVE  Len(stamps[i]) >= 1
          <6>1. ~pc[u].shared /\ u \in Threads /\ pc[u].limit = i
            BY <5>2 DEF Met, Busy
          <6>2. Len(stamps[i]) = pc[u].size - 1
            BY <2>1, <5>2, <6>1 DEF LimitInv, Own, AtOwn
          <6>3. pc[u].size \in Nat
            BY <1>1, <6>1 DEF SmsTypeOK, Steps
          <6> QED
            BY <1>2, <2>1, <5>2, <6>2, <6>3
        <5> QED
          BY <4>1, <5>1, <5>2 DEF Long
      <4>3. stamps[i][Len(stamps[i])] <= a - 1
        BY <1>2, <2>1, <4>2
      <4>4. Alone(i, a - 1) + 1 <= Limits[i].max + Refused(i, a - 1) + Credit(i, a - 1)
        BY <2>1, <2>4, <3>2, <4>1, <4>3 DEF LimitInv, Room
      <4> QED
        BY <2>4, <3>2, <4>4
    <3> QED
      BY <3>1, <3>2
  <2> QED
    BY <2>3, <2>5, <2>6, <2>7, <2>8 DEF LimitInv
<1> QED
  BY <1>4, <1>5 DEF SmsInv

\* Steps that take nobody to or from the commands of a limit.
LEMMA AwayStep ==
  ASSUME SmsInv, SmsTypeOK', UNCHANGED <<stamps, tally>>,
         NEW t \in Threads, pc[t].at \notin Commands, NEW x, pc' = [pc EXCEPT ![t] = x],
         x.at \notin Commands
  PROVE  SmsInv'
<1>1. ASSUME NEW j \in DOMAIN Limits PROVE LimitInv(j)'
  <2>1. t \notin Busy(j)
    BY DEF Busy
  <2>2. Busy(j)' = Busy(j) \ {t} /\ \A u \in Threads \ {t} : pc'[u] = pc[u]
    <3>1. SmsTypeOK
      BY DEF SmsInv
    <3> QED
      BY <3>1, BusyAfter
  <2>3. Busy(j)' = Busy(j) /\ \A u \in Busy(j) : pc'[u] = pc[u]
    BY <2>1, <2>2 DEF Busy
  <2> QED
    BY <2>3, Elsewhere DEF SmsInv
<1> QED
  BY <1>1 DEF SmsInv

LEMMA NextSmsInv == SmsInv /\ [S!Next]_(S!vars) => SmsInv'
<1> SUFFICES ASSUME SmsInv, [S!Next]_(S!vars) PROVE SmsInv'
  OBVIOUS
<1>1. SmsTypeOK
  BY DEF SmsInv
<1>2. ASSUME NEW t \in Threads, S!size(t) \/ S!leftPop(t) \/ S!rightPush(t) \/ S!replace(t) \/ S!trim(t)
      PROVE  SmsInv'
  <2>1. pc[t].limit \in DOMAIN Limits
    BY <1>1, <1>2 DEF SmsTypeOK, S!size, S!leftPop, S!rightPush, S!replace, S!trim, S!Trim, S!At
  <2>2. PICK i \in DOMAIN Limits : pc[t].limit = i
    BY <2>1
  <2> QED
    BY <1>2, <2>2, SizeStep, LeftPopStep, RightPushStep, ReplaceStep, TrimStep
<1>3. ASSUME NEW t \in Threads, S!smsLimitCheck(t) PROVE SmsInv'
  <2>1. pc[t].at = "idle" /\ pc' = [pc EXCEPT ![t] = [S!Idle EXCEPT !.at = "size", !.limit = 1]]
        /\ UNCHANGED <<stamps, tally>>
    BY <1>3 DEF S!smsLimitCheck, S!At
  <2> DEFINE x == [at |-> "size", limit |-> 1, size |-> 0, shared |-> FALSE]
  <2>2. ASSUME NEW y, y = [S!Idle EXCEPT !.at = "size", !.limit = 1] PROVE y = x
    BY <2>2 DEF S!Idle
  <2>3. x \in Steps /\ x.at = "size" /\ x.limit = 1
    BY DEF Steps
  <2>4. 1 \in DOMAIN Limits
    BY SmsAssumption
  <2>5. pc' = [pc EXCEPT ![t] = x]
    BY <2>1, <2>2
  <2> HIDE DEF x
  <2>6. SmsTypeOK'
    BY <1>1, <2>1, <2>3, <2>4, <2>5, TypeStep DEF SmsTypeOK
  <2>7. pc[t].at \notin Commands /\ x.at \notin Commands
    BY <2>1, <2>3 DEF Commands
  <2> QED
    BY <2>1, <2>5, <2>6, <2>7, AwayStep
<1>4. ASSUME NEW t \in Threads, S!sendSmsCode(t) PROVE SmsInv'
  <2>1. pc[t].at = "send" /\ pc' = [pc EXCEPT ![t] = S!Idle] /\ UNCHANGED <<stamps, tally>>
    BY <1>4 DEF S!sendSmsCode, S!At
  <2>2. S!Idle \in Steps /\ S!Idle.at = "idle"
    BY DEF S!Idle, Steps
  <2>3. SmsTypeOK'
    BY <1>1, <2>1, <2>2, TypeStep DEF SmsTypeOK
  <2> QED
    BY <2>1, <2>2, <2>3, AwayStep DEF Commands
<1>5. CASE UNCHANGED <<stamps, pc, tally>>
  <2>1. SmsTypeOK'
    BY <1>1, <1>5 DEF SmsTypeOK
  <2>2. ASSUME NEW j \in DOMAIN Limits PROVE LimitInv(j)'
    <3>1. Busy(j)' = Busy(j)
      BY <1>5 DEF Busy
    <3> QED
      BY <1>5, <3>1, Elsewhere DEF SmsInv
  <2> QED
    BY <2>1, <2>2 DEF SmsInv
<1>6. S!Expire => UNCHANGED <<stamps, pc, tally>>
  BY DEF S!Expire
<1>7. UNCHANGED S!vars => UNCHANGED <<stamps, pc, tally>>
  BY DEF S!vars
<1> QED
  BY <1>2, <1>3, <1>4, <1>5, <1>6, <1>7, TickKeeps DEF S!Next

LEMMA InitSmsInv == S!Init => SmsInv
<1> SUFFICES ASSUME S!Init PROVE SmsInv
  OBVIOUS
<1> USE DEF S!Init
<1>1. pc \in [Threads -> Steps] /\ \A t \in Threads : pc[t].at = "idle"
  BY DEF S!Idle, Steps
<1>2. ASSUME NEW i \in DOMAIN Limits
      PROVE  /\ tally[i] \in Tallies(i)
             /\ \A a \in Ages(i) : Alone(i, a) = 0 /\ Refused(i, a) = 0 /\ Credit(i, a) = 0
  <2>1. tally[i] = [k \in S!Kinds |-> [a \in Ages(i) |-> 0]]
    BY DEF Ages
  <2>2. Limits[i].max * 0 = 0
    BY LimitType
  <2> QED
    BY <2>1, <2>2 DEF Tallies, Alone, Refused, Credit, S!Kinds
<1>3. SmsTypeOK
  <2>1. stamps \in [DOMAIN Limits -> Seq(Nat)] /\ DOMAIN tally = DOMAIN Limits
    OBVIOUS
  <2> QED
    BY <1>1, <1>2, <2>1 DEF SmsTypeOK
<1>4. ASSUME NEW i \in DOMAIN Limits PROVE LimitInv(i)
  <2>1. Busy(i) = {} /\ Met(i) = {}
    BY <1>1 DEF Busy, Met, Commands
  <2>2. stamps[i] = <<>> /\ Len(stamps[i]) = 0 /\ Limits[i].max \in Nat \ {0}
    BY LimitType
  <2>3. ~Long(i)
    BY <2>1, <2>2 DEF Long
  <2>4. Stamped(i)
    BY <1>2, <2>2 DEF Stamped
  <2> QED
    BY <1>2, <2>1, <2>2, <2>3, <2>4 DEF LimitInv, Own, Bound, Meeting, Room
<1> QED
  BY <1>3, <1>4 DEF SmsInv

LEMMA SmsInvBound == SmsInv => WindowBound
<1> SUFFICES ASSUME SmsInv, NEW i \in DOMAIN Limits
             PROVE  S!Recent(i, "alone")
                      <= Limits[i].max * (1 + S!Recent(i, "shared")) + S!Recent(i, "refused")
  BY DEF WindowBound, S!WindowBound
<1>1. Limits[i].max \in Nat /\ Limits[i].ttl - 1 \in Ages(i)
  BY LimitType DEF Ages
<1>2. Alone(i, Limits[i].ttl - 1)
        <= Limits[i].max + Refused(i, Limits[i].ttl - 1) + Credit(i, Limits[i].ttl - 1)
  BY <1>1 DEF SmsInv, LimitInv, Bound
<1>3. tally[i]["alone"][Limits[i].ttl - 1] \in Nat /\ tally[i]["refused"][Limits[i].ttl - 1] \in Nat
      /\ tally[i]["shared"][Limits[i].ttl - 1] \in Nat
  BY <1>1 DEF SmsInv, SmsTypeOK, Tallies, S!Kinds
<1>4. Limits[i].max * (1 + tally[i]["shared"][Limits[i].ttl - 1])
        = Limits[i].max * tally[i]["shared"][Limits[i].ttl - 1] + Limits[i].max
      /\ Limits[i].max * tally[i]["shared"][Limits[i].ttl - 1] \in Nat
  <2>1. 1 + tally[i]["shared"][Limits[i].ttl - 1] = tally[i]["shared"][Limits[i].ttl - 1] + 1
    BY <1>3
  <2> QED
    BY <1>1, <1>3, <2>1, Credits
<1> QED
  BY <1>1, <1>2, <1>3, <1>4 DEF S!Recent, Alone, Refused, Credit

-----------------------------------------------------------------------------
(* The services together *)

\* In a behaviour of one service the other one stutters.
LEMMA Inductive == SpecServices => [](IInv /\ SmsInv)
<1>1. InitServices => IInv /\ SmsInv
  BY InitIInv, InitSmsInv DEF InitServices
<1>2. IInv /\ SmsInv /\ [NextServices]_services => (IInv /\ SmsInv)'
  <2> SUFFICES ASSUME IInv, SmsInv, [NextServices]_services PROVE IInv' /\ SmsInv'
    OBVIOUS
  <2>1. [Next]_vars
    BY DEF NextServices, services
  <2>2. [S!Next]_(S!vars)
    BY DEF NextServices, services, S!vars
  <2> QED
    BY <2>1, <2>2, NextIInv, NextSmsInv
<1> QED
  BY <1>1, <1>2, PTL DEF SpecServices

\* Every variable keeps its type: a lock and an entry never have more than their life left,
\* and a thread that has popped a stamp has read a full list.
THEOREM TypeCorrect == SpecServices => [](TypeOK /\ SmsTypeOK)
<1>1. IInv /\ SmsInv => TypeOK /\ SmsTypeOK
  BY DEF IInv, SmsInv
<1> QED
  BY <1>1, Inductive, PTL

\* Whatever callers do and whatever fails, two suppliers run at once only after one that
\* has outlived its lock, and a lock that nobody will delete is one a failure has left.
THEOREM MutexHolds == SpecServices => []MutexKept
<1>1. IInv /\ SmsInv => MutexKept
  BY IInvMutex
<1> QED
  BY <1>1, Inductive, PTL

\* However threads interleave their commands, a window lets through as many calls that met no
\* other as its limit allows, one more for each refusal and as many again for each call that
\* met another one.
THEOREM BoundHolds == SpecServices => []WindowBound
<1>1. IInv /\ SmsInv => WindowBound
  BY SmsInvBound
<1> QED
  BY <1>1, Inductive, PTL
=============================================================================
