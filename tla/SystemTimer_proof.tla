-------------------------- MODULE SystemTimer_proof --------------------------
(***************************************************************************)
(* Proofs about SystemTimer with every interleaving of its threads (Spec). *)
(*                                                                         *)
(* Three layers of an inductive invariant.  Control: the types, what the   *)
(* local variables hold where a thread reads them, and that a task's       *)
(* monitor has one holder.  Custody: an entry is in one place at a time.   *)
(* Wakeup: an expiration that is set has a wake-up behind it.  From the    *)
(* first two, every step is a step of TimerPromise or none.                *)
(***************************************************************************)
EXTENDS SystemTimer, TLAPS

-----------------------------------------------------------------------------
(* Wheel arithmetic *)

\* Flooring a time to the slots of a wheel gives a time, not after it.
LEMMA FloorType ==
  ASSUME NEW ms \in Nat, NEW s \in Nat \ {0}
  PROVE  Floor(ms, s) \in Nat /\ Floor(ms, s) <= ms
<1>1. ms % s \in 0 .. (s - 1) /\ ms = s * (ms \div s) + (ms % s) /\ ms \div s \in Nat
  OBVIOUS
<1>2. s * (ms \div s) \in Nat
  BY <1>1
<1> QED
  BY <1>1, <1>2 DEF Floor

\* The slot an entry is put in exists.
LEMMA BucketOfType ==
  ASSUME scaleMs \in [Wheels -> Nat \ {0}], NEW w \in Wheels, NEW ms \in Nat
  PROVE  BucketOf(ms, w) \in Buckets
<1>1. scaleMs[w] \in Nat \ {0}
  OBVIOUS
<1>2. ms \div scaleMs[w] \in Nat
  BY <1>1
<1>3. WheelSize \in Nat \ {0}
  BY TimerAssumption
<1>4. (ms \div scaleMs[w]) % WheelSize \in 0 .. (WheelSize - 1)
  BY <1>2, <1>3
<1> QED
  BY <1>4 DEF BucketOf, Buckets

\* A turn of a wheel takes time, so the next wheel's slots are not empty.
LEMMA IntervalType ==
  ASSUME scaleMs \in [Wheels -> Nat \ {0}], NEW w \in Wheels
  PROVE  interval(w) \in Nat \ {0}
<1>1. scaleMs[w] \in Nat \ {0} /\ WheelSize \in Nat \ {0}
  BY TimerAssumption
<1>2. scaleMs[w] * WheelSize \in Nat \ {0}
  BY <1>1
<1> QED
  BY <1>2 DEF interval

-----------------------------------------------------------------------------
(* Control *)

\* addEntry runs with an entry, and with a bucket once it has chosen one.
ThreadOK(th) ==
  /\ pc[th] \in AddEntry => ent[th] \in Entries
  /\ pc[th] \in {"link", "setExpire", "offer"} => bkt[th] \in Buckets

\* cancel and setEntry run with a task, and remove its entry.
CallerOK(c) ==
  /\ pc[c] = "setEntry" => ent[c] \in Entries
  /\ pc[c] \in {"setEntry", "remove", "unlink"} => tsk[c] \in Tasks
  /\ pc[c] \in {"remove", "unlink"} => entry[tsk[c]] \in Entries

\* The boss has a bucket in hand from the poll to the end of the flush.
BossOK ==
  /\ pc[Boss] \in {"advance", "lock", "flush"} \union AddEntry => polled \in Buckets
  /\ pc[Boss] = "poll" => polled = NoBucket

\* A task's monitor has one holder.
MonitorExclusion ==
  \A c, d \in Callers :
    c # d /\ pc[c] \in {"remove", "unlink"} /\ pc[d] \in {"remove", "unlink"}
      => tsk[c] # tsk[d]

Control ==
  /\ TypeOK
  /\ \A th \in Threads : ThreadOK(th)
  /\ \A c \in Callers : CallerOK(c)
  /\ BossOK
  /\ MonitorExclusion

\* What the assumption on the constants says of threads and of the null values.
LEMMA ThreadFacts ==
  /\ Boss \in Threads
  /\ \A c \in Callers : c \in Threads /\ c # Boss
  /\ \A th \in Threads : th = Boss \/ th \in Callers
  /\ 0 \in Wheels
  /\ NoBucket \notin Buckets /\ NoEntry \notin Entries /\ NoTask \notin Tasks
BY TimerAssumption DEF Threads, Wheels

\* The timer as start leaves it.
LEMMA InitControl == Init => Control
<1> SUFFICES ASSUME Init PROVE Control
  OBVIOUS
<1>1. Floor(StartMs, ScaleMs) \in Nat
  BY TimerAssumption, FloorType
<1>2. TypeOK
  BY <1>1, TimerAssumption, ThreadFacts DEF Init, TypeOK, CallerOnly, BossOnly
<1> QED
  BY <1>2, ThreadFacts
  DEF Init, Control, ThreadOK, CallerOK, BossOK, MonitorExclusion, AddEntry

\* One lemma for the steps of the callers, ...
LEMMA CallerControl ==
  ASSUME Control, NEW c \in Callers,
         \/ \E t \in Tasks : Cancel(c, t) \/ \E d \in Delays : AddTask(c, t, d)
         \/ SetEntry(c) \/ ReadTaskBucket(c) \/ Unlink(c)
  PROVE  Control'
<1> USE ThreadFacts
<1>0. /\ TypeOK /\ \A th \in Threads : ThreadOK(th)
      /\ \A d \in Callers : CallerOK(d) /\ BossOK /\ MonitorExclusion
  BY DEF Control
<1>1. ASSUME NEW t \in Tasks, Cancel(c, t)
      PROVE  Control'
  <2>1. TypeOK'
    BY <1>0, <1>1 DEF Cancel, TypeOK, Goto, CallerOnly, timerVars, taskVars, execVars
  <2>2. entry[t] \in Entries
    BY <1>0, <1>1 DEF Cancel, TypeOK
  <2>3. /\ \A th \in Threads : ThreadOK(th)' /\ BossOK'
        /\ \A d \in Callers : CallerOK(d)'
    BY <1>0, <1>1, <2>2
    DEF Cancel, At, Goto, TypeOK, ThreadOK, CallerOK, BossOK, AddEntry, timerVars,
        taskVars
  <2>4. MonitorExclusion'
    BY <1>0, <1>1 DEF Cancel, At, Goto, TypeOK, MonitorExclusion, TaskLocked
  <2> QED
    BY <2>1, <2>3, <2>4 DEF Control
<1>2. ASSUME NEW t \in Tasks, NEW d \in Delays, AddTask(c, t, d)
      PROVE  Control'
  <2>1. PICK e \in Entries :
          /\ baseTask' = [baseTask EXCEPT ![e] = t]
          /\ expireMs' = [expireMs EXCEPT ![e] = now + d]
          /\ ent' = [ent EXCEPT ![c] = e]
    BY <1>2 DEF AddTask
  <2>2. now + d \in Nat
    BY <1>0, TimerAssumption DEF TypeOK
  <2>3. TypeOK'
    BY <1>0, <1>2, <2>1, <2>2 DEF AddTask, TypeOK, Goto, CallerOnly, timerVars, execVars
  <2>4. /\ \A th \in Threads : ThreadOK(th)' /\ BossOK'
        /\ \A o \in Callers : CallerOK(o)'
    BY <1>0, <1>2, <2>1
    DEF AddTask, At, Goto, TypeOK, ThreadOK, CallerOK, BossOK, AddEntry, timerVars
  <2>5. MonitorExclusion'
    BY <1>0, <1>2 DEF AddTask, At, Goto, TypeOK, MonitorExclusion
  <2> QED
    BY <2>3, <2>4, <2>5 DEF Control
<1>3. CASE SetEntry(c)
  <2>1. tsk[c] \in Tasks /\ ent[c] \in Entries
    BY <1>0, <1>3 DEF SetEntry, At, CallerOK
  <2>2. TypeOK'
    BY <1>0, <1>3, <2>1
    DEF SetEntry, TypeOK, Goto, CallerOnly, AddEntry, timerVars, execVars
  <2>3. /\ \A th \in Threads : ThreadOK(th)' /\ BossOK'
    BY <1>0, <1>3, <2>1
    DEF SetEntry, At, Goto, TypeOK, ThreadOK, BossOK, AddEntry, timerVars
  <2>4. \A o \in Callers : CallerOK(o)'
    BY <1>0, <1>3, <2>1 DEF SetEntry, At, Goto, TypeOK, CallerOK, TaskLocked
  <2>5. MonitorExclusion'
    BY <1>0, <1>3 DEF SetEntry, At, Goto, TypeOK, MonitorExclusion, TaskLocked
  <2> QED
    BY <2>2, <2>3, <2>4, <2>5 DEF Control
<1>4. CASE ReadTaskBucket(c)
  <2>1. tsk[c] \in Tasks /\ entry[tsk[c]] \in Entries
    BY <1>0, <1>4 DEF ReadTaskBucket, At, CallerOK
  <2>2. TypeOK'
    BY <1>0, <1>4, <2>1
    DEF ReadTaskBucket, TypeOK, Goto, CallerOnly, AddEntry, timerVars, execVars
  <2>3. \A th \in Threads : ThreadOK(th)' /\ BossOK'
    BY <1>0, <1>4, <2>1
    DEF ReadTaskBucket, At, Goto, TypeOK, ThreadOK, BossOK, AddEntry, timerVars
  <2>4. \A o \in Callers : CallerOK(o)'
    BY <1>0, <1>4, <2>1 DEF ReadTaskBucket, At, Goto, TypeOK, CallerOK, MonitorExclusion
  <2>5. MonitorExclusion'
    BY <1>0, <1>4 DEF ReadTaskBucket, At, Goto, TypeOK, MonitorExclusion
  <2> QED
    BY <2>2, <2>3, <2>4, <2>5 DEF Control
<1>5. CASE Unlink(c)
  <2>1. TypeOK'
    BY <1>0, <1>5 DEF Unlink, TypeOK, Goto, CallerOnly, timerVars, execVars, locals
  <2>2. /\ \A th \in Threads : ThreadOK(th)' /\ BossOK'
        /\ \A o \in Callers : CallerOK(o)'
    BY <1>0, <1>5
    DEF Unlink, At, Goto, TypeOK, ThreadOK, CallerOK, BossOK, AddEntry, timerVars,
        locals
  <2>3. MonitorExclusion'
    BY <1>0, <1>5 DEF Unlink, At, Goto, TypeOK, MonitorExclusion, locals
  <2> QED
    BY <2>1, <2>2, <2>3 DEF Control
<1> QED
  BY <1>1, <1>2, <1>3, <1>4, <1>5

\* ... one for the steps of addEntry, whoever runs it, ...
LEMMA AddEntryControl ==
  ASSUME Control, NEW th \in Threads, AddEntryStep(th)
  PROVE  Control'
<1> USE ThreadFacts
<1>0. /\ TypeOK /\ \A o \in Threads : ThreadOK(o)
      /\ \A o \in Callers : CallerOK(o)
      /\ BossOK /\ MonitorExclusion
  BY DEF Control
<1>1. CASE CheckCancelled(th)
  <2>1. TypeOK'
    BY <1>0, <1>1
    DEF CheckCancelled, At, AfterAdd, TypeOK, ThreadOK, Goto, CallerOnly, AddEntry,
        BossOnly, timerVars, taskVars, execVars, locals
  <2>2. /\ \A o \in Threads : ThreadOK(o)'
        /\ BossOK'
    BY <1>0, <1>1
    DEF CheckCancelled, At, AfterAdd, Goto, TypeOK, ThreadOK, BossOK, AddEntry,
        timerVars, taskVars, execVars, locals
  <2>3. \A o \in Callers : CallerOK(o)'
    BY <1>0, <1>1
    DEF CheckCancelled, At, AfterAdd, Goto, TypeOK, CallerOK, timerVars, taskVars,
        execVars, locals
  <2>4. MonitorExclusion'
    BY <1>0, <1>1
    DEF CheckCancelled, At, AfterAdd, Goto, TypeOK, MonitorExclusion, timerVars,
        taskVars, execVars, locals
  <2> QED
    BY <2>1, <2>2, <2>3, <2>4 DEF Control
<1>2. CASE CheckExpired(th)
  <2>1. TypeOK'
    BY <1>0, <1>2
    DEF CheckExpired, At, AfterAdd, TypeOK, ThreadOK, Goto, CallerOnly, AddEntry,
        BossOnly, timerVars, taskVars, execVars, locals
  <2>2. /\ \A o \in Threads : ThreadOK(o)'
        /\ BossOK'
    BY <1>0, <1>2
    DEF CheckExpired, At, AfterAdd, Goto, TypeOK, ThreadOK, BossOK, AddEntry,
        timerVars, taskVars, execVars, locals
  <2>3. \A o \in Callers : CallerOK(o)'
    BY <1>0, <1>2
    DEF CheckExpired, At, AfterAdd, Goto, TypeOK, CallerOK, timerVars, taskVars,
        execVars, locals
  <2>4. MonitorExclusion'
    BY <1>0, <1>2
    DEF CheckExpired, At, AfterAdd, Goto, TypeOK, MonitorExclusion, timerVars,
        taskVars, execVars, locals
  <2> QED
    BY <2>1, <2>2, <2>3, <2>4 DEF Control
<1>3. CASE Place(th)
  <2>1. /\ ent[th] \in Entries /\ expireMs[ent[th]] \in Nat /\ wheel[th] \in Wheels
        /\ currentTime[wheel[th]] \in Nat
    BY <1>0, <1>3 DEF Place, At, TypeOK, ThreadOK, AddEntry
  <2>2. /\ BucketOf(expireMs[ent[th]], wheel[th]) \in Buckets
        /\ interval(wheel[th]) \in Nat \ {0}
    BY <1>0, <2>1, BucketOfType, IntervalType DEF TypeOK
  <2>3. Floor(currentTime[wheel[th]], interval(wheel[th])) \in Nat
    BY <2>1, <2>2, FloorType
  <2>4. wheel' \in [Threads -> Wheels] /\ bkt' \in [Threads -> Buckets \union {NoBucket}]
    BY <1>0, <1>3, <2>2 DEF Place, TypeOK
  <2>5. wheels' \in 1 .. MaxWheels
    <3>1. CASE UNCHANGED wheels
      BY <1>0, <3>1 DEF TypeOK
    <3>2. CASE wheel[th] + 1 \in Wheels /\ wheels' = wheel[th] + 2
      BY <2>1, <3>2, TimerAssumption DEF Wheels
    <3> QED
      BY <1>3, <3>1, <3>2 DEF Place
  <2>6. /\ scaleMs' \in [Wheels -> Nat \ {0}]
        /\ currentTime' \in [Wheels -> Nat]
    <3>1. CASE UNCHANGED <<scaleMs, currentTime>>
      BY <1>0, <3>1 DEF TypeOK
    <3>2. CASE /\ scaleMs' = [scaleMs EXCEPT ![wheel[th] + 1] = interval(wheel[th])]
               /\ currentTime' = [currentTime EXCEPT ![wheel[th] + 1] =
                                    Floor(currentTime[wheel[th]], interval(wheel[th]))]
      BY <1>0, <2>2, <2>3, <3>2 DEF TypeOK
    <3> QED
      BY <1>3, <3>1, <3>2 DEF Place
  <2>7. pc' \in [Threads -> CallerOnly \union AddEntry \union BossOnly]
    BY <1>0, <1>3 DEF Place, TypeOK, Goto, AddEntry
  <2>8. TypeOK'
    BY <1>0, <1>3, <2>4, <2>6, <2>7, <2>5 DEF Place, TypeOK, taskVars, execVars
  <2>9. /\ \A o \in Threads : ThreadOK(o)'
        /\ BossOK'
    BY <1>0, <1>3, <2>2
    DEF Place, At, Goto, TypeOK, ThreadOK, BossOK, AddEntry, taskVars
  <2>10. \A o \in Callers : CallerOK(o)'
    BY <1>0, <1>3 DEF Place, At, Goto, TypeOK, CallerOK, taskVars
  <2>11. MonitorExclusion'
    BY <1>0, <1>3 DEF Place, At, Goto, TypeOK, MonitorExclusion
  <2> QED
    BY <2>9, <2>10, <2>11, <2>8 DEF Control
<1>4. CASE Link(th)
  <2>1. TypeOK'
    BY <1>0, <1>4
    DEF Link, At, AfterAdd, TypeOK, ThreadOK, Goto, CallerOnly, AddEntry, BossOnly,
        timerVars, execVars, locals
  <2>2. /\ \A o \in Threads : ThreadOK(o)'
        /\ BossOK'
    BY <1>0, <1>4
    DEF Link, At, AfterAdd, Goto, TypeOK, ThreadOK, BossOK, AddEntry, timerVars,
        execVars, locals
  <2>3. \A o \in Callers : CallerOK(o)'
    BY <1>0, <1>4
    DEF Link, At, AfterAdd, Goto, TypeOK, CallerOK, timerVars, execVars, locals
  <2>4. MonitorExclusion'
    BY <1>0, <1>4
    DEF Link, At, AfterAdd, Goto, TypeOK, MonitorExclusion, timerVars, execVars, locals
  <2> QED
    BY <2>1, <2>2, <2>3, <2>4 DEF Control
<1>5. CASE SetExpire(th)
  <2>0. Floor(expireMs[ent[th]], scaleMs[wheel[th]]) \in Nat
    BY <1>0, <1>5, FloorType DEF SetExpire, At, TypeOK, ThreadOK, AddEntry
  <2>1. TypeOK'
    BY <1>0, <1>5, <2>0
    DEF SetExpire, At, AfterAdd, TypeOK, ThreadOK, Goto, CallerOnly, AddEntry,
        BossOnly, taskVars, execVars, locals
  <2>2. /\ \A o \in Threads : ThreadOK(o)'
        /\ BossOK'
    BY <1>0, <1>5, <2>0
    DEF SetExpire, At, AfterAdd, Goto, TypeOK, ThreadOK, BossOK, AddEntry, taskVars,
        execVars, locals
  <2>3. \A o \in Callers : CallerOK(o)'
    BY <1>0, <1>5
    DEF SetExpire, At, AfterAdd, Goto, TypeOK, CallerOK, taskVars, execVars, locals
  <2>4. MonitorExclusion'
    BY <1>0, <1>5
    DEF SetExpire, At, AfterAdd, Goto, TypeOK, MonitorExclusion, taskVars, execVars,
        locals
  <2> QED
    BY <2>1, <2>2, <2>3, <2>4 DEF Control
<1>6. CASE Offer(th)
  <2>1. TypeOK'
    BY <1>0, <1>6
    DEF Offer, At, AfterAdd, TypeOK, ThreadOK, Goto, CallerOnly, AddEntry, BossOnly,
        taskVars, execVars, locals
  <2>2. /\ \A o \in Threads : ThreadOK(o)'
        /\ BossOK'
    BY <1>0, <1>6
    DEF Offer, At, AfterAdd, Goto, TypeOK, ThreadOK, BossOK, AddEntry, taskVars,
        execVars, locals
  <2>3. \A o \in Callers : CallerOK(o)'
    BY <1>0, <1>6
    DEF Offer, At, AfterAdd, Goto, TypeOK, CallerOK, taskVars, execVars, locals
  <2>4. MonitorExclusion'
    BY <1>0, <1>6
    DEF Offer, At, AfterAdd, Goto, TypeOK, MonitorExclusion, taskVars, execVars, locals
  <2> QED
    BY <2>1, <2>2, <2>3, <2>4 DEF Control
<1>7. CASE Recheck(th)
  <2>1. TypeOK'
    BY <1>0, <1>7
    DEF Recheck, At, AfterAdd, TypeOK, ThreadOK, Goto, CallerOnly, AddEntry, BossOnly,
        timerVars, taskVars, execVars, locals
  <2>2. /\ \A o \in Threads : ThreadOK(o)'
        /\ BossOK'
    BY <1>0, <1>7
    DEF Recheck, At, AfterAdd, Goto, TypeOK, ThreadOK, BossOK, AddEntry, timerVars,
        taskVars, execVars, locals
  <2>3. \A o \in Callers : CallerOK(o)'
    BY <1>0, <1>7
    DEF Recheck, At, AfterAdd, Goto, TypeOK, CallerOK, timerVars, taskVars, execVars,
        locals
  <2>4. MonitorExclusion'
    BY <1>0, <1>7
    DEF Recheck, At, AfterAdd, Goto, TypeOK, MonitorExclusion, timerVars, taskVars,
        execVars, locals
  <2> QED
    BY <2>1, <2>2, <2>3, <2>4 DEF Control
<1>8. CASE Submit(th)
  <2>1. TypeOK'
    BY <1>0, <1>8
    DEF Submit, At, AfterAdd, TypeOK, ThreadOK, Goto, CallerOnly, AddEntry, BossOnly,
        timerVars, taskVars, locals
  <2>2. /\ \A o \in Threads : ThreadOK(o)'
        /\ BossOK'
    BY <1>0, <1>8
    DEF Submit, At, AfterAdd, Goto, TypeOK, ThreadOK, BossOK, AddEntry, timerVars,
        taskVars, locals
  <2>3. \A o \in Callers : CallerOK(o)'
    BY <1>0, <1>8
    DEF Submit, At, AfterAdd, Goto, TypeOK, CallerOK, timerVars, taskVars, locals
  <2>4. MonitorExclusion'
    BY <1>0, <1>8
    DEF Submit, At, AfterAdd, Goto, TypeOK, MonitorExclusion, timerVars, taskVars,
        locals
  <2> QED
    BY <2>1, <2>2, <2>3, <2>4 DEF Control
<1>9. CASE Rejected(th)
  <2>1. TypeOK'
    BY <1>0, <1>9
    DEF Rejected, At, AfterAdd, TypeOK, ThreadOK, Goto, CallerOnly, AddEntry, BossOnly,
        taskVars, execVars, locals
  <2>2. /\ \A o \in Threads : ThreadOK(o)'
        /\ BossOK'
    BY <1>0, <1>9
    DEF Rejected, At, AfterAdd, Goto, TypeOK, ThreadOK, BossOK, AddEntry, taskVars,
        execVars, locals
  <2>3. \A o \in Callers : CallerOK(o)'
    BY <1>0, <1>9
    DEF Rejected, At, AfterAdd, Goto, TypeOK, CallerOK, taskVars, execVars, locals
  <2>4. MonitorExclusion'
    BY <1>0, <1>9
    DEF Rejected, At, AfterAdd, Goto, TypeOK, MonitorExclusion, taskVars, execVars,
        locals
  <2> QED
    BY <2>1, <2>2, <2>3, <2>4 DEF Control
<1> QED
  BY <1>1, <1>2, <1>3, <1>4, <1>5, <1>6, <1>7, <1>8, <1>9 DEF AddEntryStep

\* ... one for the steps of the boss, ...
LEMMA BossControl ==
  ASSUME Control,
         \/ \E b \in Buckets : Poll(b)
         \/ Stop \/ AdvanceClock \/ BeginFlush
         \/ \E e \in Entries : FlushEntry(e)
         \/ EndFlush
  PROVE  Control'
<1> USE ThreadFacts
<1>0. /\ TypeOK /\ \A o \in Threads : ThreadOK(o)
      /\ \A o \in Callers : CallerOK(o)
      /\ BossOK /\ MonitorExclusion
  BY DEF Control
<1>1. ASSUME NEW b \in Buckets, Poll(b)
      PROVE  Control'
  <2>0. queue[b] - 1 \in Nat
    BY <1>0, <1>1 DEF Poll, Due, TypeOK
  <2>1. TypeOK'
    BY <1>0, <1>1, <2>0
    DEF Poll, At, TypeOK, BossOK, Goto, CallerOnly, AddEntry, BossOnly, taskVars,
        execVars
  <2>2. /\ \A o \in Threads : ThreadOK(o)'
        /\ BossOK'
    BY <1>0, <1>1, <2>0
    DEF Poll, At, Goto, TypeOK, ThreadOK, BossOK, AddEntry, taskVars, execVars
  <2>3. \A o \in Callers : CallerOK(o)'
    BY <1>0, <1>1
    DEF Poll, At, Goto, TypeOK, CallerOK, taskVars, execVars
  <2>4. MonitorExclusion'
    BY <1>0, <1>1
    DEF Poll, At, Goto, TypeOK, MonitorExclusion, taskVars, execVars
  <2> QED
    BY <2>1, <2>2, <2>3, <2>4 DEF Control
<1>2. CASE Stop
  <2>1. TypeOK'
    BY <1>0, <1>2
    DEF Stop, At, TypeOK, BossOK, Goto, CallerOnly, AddEntry, BossOnly, timerVars,
        taskVars, execVars, locals
  <2>2. /\ \A o \in Threads : ThreadOK(o)'
        /\ BossOK'
    BY <1>0, <1>2
    DEF Stop, At, Goto, TypeOK, ThreadOK, BossOK, AddEntry, timerVars, taskVars,
        execVars, locals
  <2>3. \A o \in Callers : CallerOK(o)'
    BY <1>0, <1>2
    DEF Stop, At, Goto, TypeOK, CallerOK, timerVars, taskVars, execVars, locals
  <2>4. MonitorExclusion'
    BY <1>0, <1>2
    DEF Stop, At, Goto, TypeOK, MonitorExclusion, timerVars, taskVars, execVars, locals
  <2> QED
    BY <2>1, <2>2, <2>3, <2>4 DEF Control
<1>3. CASE AdvanceClock
  <2> DEFINE w == wheel[Boss]
             timeMs == IF w = 0 THEN expiration[polled] ELSE currentTime[w - 1]
             moves == timeMs >= currentTime[w] + scaleMs[w]
  <2>1. w \in Wheels /\ polled \in Buckets /\ currentTime[w] \in Nat /\ scaleMs[w] \in Nat \ {0}
    BY <1>0, <1>3 DEF AdvanceClock, At, BossOK, TypeOK
  <2>2. moves => timeMs \in Nat
    <3>1. CASE w = 0
      <4>1. expiration[polled] \in Nat \union {-1}
        BY <1>0, <2>1 DEF TypeOK
      <4> QED
        BY <2>1, <3>1, <4>1
    <3>2. CASE w # 0
      <4>1. w - 1 \in Wheels
        BY <2>1, <3>2, TimerAssumption DEF Wheels
      <4>2. currentTime[w - 1] \in Nat
        BY <1>0, <4>1 DEF TypeOK
      <4> QED
        BY <3>2, <4>2
    <3> QED
      BY <3>1, <3>2
  <2>3. moves => Floor(timeMs, scaleMs[w]) \in Nat
    BY <2>1, <2>2, FloorType
  <2>4. currentTime' \in [Wheels -> Nat]
    BY <1>0, <1>3, <2>1, <2>3 DEF AdvanceClock, TypeOK
  <2>5. w + 1 < wheels => w + 1 \in Wheels
    BY <1>0, <2>1, TimerAssumption DEF TypeOK, Wheels
  <2>6. wheel' \in [Threads -> Wheels]
    BY <1>0, <1>3, <2>5 DEF AdvanceClock, TypeOK
  <2>7. TypeOK'
    BY <1>0, <1>3, <2>4, <2>6
    DEF AdvanceClock, TypeOK, Goto, BossOnly, taskVars, execVars
  <2>8. /\ \A o \in Threads : ThreadOK(o)'
        /\ BossOK'
    BY <1>0, <1>3, <2>1
    DEF AdvanceClock, At, Goto, TypeOK, ThreadOK, BossOK, AddEntry, taskVars
  <2>9. \A o \in Callers : CallerOK(o)'
    BY <1>0, <1>3 DEF AdvanceClock, At, Goto, TypeOK, CallerOK, taskVars
  <2>10. MonitorExclusion'
    BY <1>0, <1>3 DEF AdvanceClock, At, Goto, TypeOK, MonitorExclusion
  <2> QED
    BY <2>7, <2>8, <2>9, <2>10 DEF Control
<1>4. CASE BeginFlush
  <2>1. TypeOK'
    BY <1>0, <1>4
    DEF BeginFlush, At, TypeOK, BossOK, Goto, CallerOnly, AddEntry, BossOnly,
        timerVars, taskVars, execVars, locals
  <2>2. /\ \A o \in Threads : ThreadOK(o)'
        /\ BossOK'
    BY <1>0, <1>4
    DEF BeginFlush, At, Goto, TypeOK, ThreadOK, BossOK, AddEntry, timerVars, taskVars,
        execVars, locals
  <2>3. \A o \in Callers : CallerOK(o)'
    BY <1>0, <1>4
    DEF BeginFlush, At, Goto, TypeOK, CallerOK, timerVars, taskVars, execVars, locals
  <2>4. MonitorExclusion'
    BY <1>0, <1>4
    DEF BeginFlush, At, Goto, TypeOK, MonitorExclusion, timerVars, taskVars, execVars,
        locals
  <2> QED
    BY <2>1, <2>2, <2>3, <2>4 DEF Control
<1>5. ASSUME NEW e \in Entries, FlushEntry(e)
      PROVE  Control'
  <2>1. TypeOK'
    BY <1>0, <1>5
    DEF FlushEntry, At, TypeOK, BossOK, Goto, CallerOnly, AddEntry, BossOnly,
        timerVars, execVars, locals
  <2>2. /\ \A o \in Threads : ThreadOK(o)'
        /\ BossOK'
    BY <1>0, <1>5
    DEF FlushEntry, At, Goto, TypeOK, ThreadOK, BossOK, AddEntry, timerVars, execVars,
        locals
  <2>3. \A o \in Callers : CallerOK(o)'
    BY <1>0, <1>5
    DEF FlushEntry, At, Goto, TypeOK, CallerOK, timerVars, execVars, locals
  <2>4. MonitorExclusion'
    BY <1>0, <1>5
    DEF FlushEntry, At, Goto, TypeOK, MonitorExclusion, timerVars, execVars, locals
  <2> QED
    BY <2>1, <2>2, <2>3, <2>4 DEF Control
<1>6. CASE EndFlush
  <2>1. TypeOK'
    BY <1>0, <1>6
    DEF EndFlush, At, TypeOK, BossOK, Goto, CallerOnly, AddEntry, BossOnly, taskVars,
        execVars, locals
  <2>2. /\ \A o \in Threads : ThreadOK(o)'
        /\ BossOK'
    BY <1>0, <1>6
    DEF EndFlush, At, Goto, TypeOK, ThreadOK, BossOK, AddEntry, taskVars, execVars,
        locals
  <2>3. \A o \in Callers : CallerOK(o)'
    BY <1>0, <1>6
    DEF EndFlush, At, Goto, TypeOK, CallerOK, taskVars, execVars, locals
  <2>4. MonitorExclusion'
    BY <1>0, <1>6
    DEF EndFlush, At, Goto, TypeOK, MonitorExclusion, taskVars, execVars, locals
  <2> QED
    BY <2>1, <2>2, <2>3, <2>4 DEF Control
<1> QED
  BY <1>1, <1>2, <1>3, <1>4, <1>5, <1>6

\* ... and the clock, the executor and the shutdown disturb none of it.
LEMMA EnvironmentControl ==
  ASSUME Control, Environment \/ UNCHANGED vars
  PROVE  Control'
<1> USE ThreadFacts
<1>0. /\ TypeOK /\ \A o \in Threads : ThreadOK(o)
      /\ \A o \in Callers : CallerOK(o)
      /\ BossOK /\ MonitorExclusion
  BY DEF Control
<1>1. UNCHANGED <<pc, ent, bkt, tsk, entry, polled>>
  BY DEF Environment, Tick, Shutdown, Work, vars, timerVars, taskVars, execVars, locals
<1>2. TypeOK'
  <2>1. CASE Tick
    BY <1>0, <2>1 DEF Tick, TypeOK, timerVars, taskVars, execVars, locals
  <2>2. CASE Shutdown
    BY <1>0, <2>2 DEF Shutdown, TypeOK, taskVars, execVars, locals
  <2>3. ASSUME NEW e \in Entries, Work(e)
        PROVE  TypeOK'
    BY <1>0, <2>3 DEF Work, TypeOK, timerVars, taskVars, locals
  <2>4. CASE UNCHANGED vars
    BY <1>0, <2>4 DEF TypeOK, vars, timerVars, taskVars, execVars, locals
  <2> QED
    BY <2>1, <2>2, <2>3, <2>4 DEF Environment
<1> QED
  BY <1>0, <1>1, <1>2 DEF Control, ThreadOK, CallerOK, BossOK, MonitorExclusion

\* Every step of SystemTimer keeps the control layer ...
LEMMA ControlStep == Control /\ [Next]_vars => Control'
BY CallerControl, AddEntryControl, BossControl, EnvironmentControl, ThreadFacts
DEF Next, Begin, CallerStep, BossStep

\* ... so it always holds.
LEMMA ControlInvariant == Spec => []Control
BY InitControl, ControlStep, PTL DEF Spec

-----------------------------------------------------------------------------
(* Custody *)

\* An Entry that has not been constructed is nowhere.
Fresh(e) ==
  baseTask[e] = NoTask =>
    /\ submitted[e] = 0
    /\ ~Linked(e)
    /\ \A th \in Threads : ~Handling(th, e)

\* What AtMostOnce says of one entry.
OnePlace(e) ==
  /\ submitted[e] <= 1
  /\ submitted[e] = 1 => ~Linked(e)
  /\ \A th \in Threads : Handling(th, e) =>
       /\ submitted[e] = 0 /\ ~Linked(e)
       /\ \A o \in Threads \ {th} : ~Handling(o, e)

Custody == \A e \in Entries : Fresh(e) /\ OnePlace(e)

\* A step that brings e to no new place ...
NoNewPlace(e) ==
  /\ submitted'[e] = submitted[e]
  /\ Linked(e)' => Linked(e)
  /\ \A th \in Threads : Handling(th, e)' => Handling(th, e)
  /\ baseTask'[e] = baseTask[e]

\* ... leaves it in at most one.
LEMMA CustodyFrame ==
  ASSUME NEW e \in Entries, Fresh(e), OnePlace(e), NoNewPlace(e)
  PROVE  Fresh(e)' /\ OnePlace(e)'
<1>1. Fresh(e)'
  BY DEF Fresh, NoNewPlace
<1>2. /\ submitted'[e] <= 1
      /\ submitted'[e] = 1 => ~Linked(e)'
  BY DEF OnePlace, NoNewPlace
<1>3. ASSUME NEW th \in Threads, Handling(th, e)'
      PROVE  /\ submitted'[e] = 0 /\ ~Linked(e)'
             /\ \A o \in Threads \ {th} : ~Handling(o, e)'
  BY <1>3 DEF OnePlace, NoNewPlace
<1> QED
  BY <1>1, <1>2, <1>3 DEF OnePlace

\* No entry is anywhere when the timer is made.
LEMMA InitCustody == Init => Custody
BY TimerAssumption DEF Init, Custody, Fresh, OnePlace, Linked, Handling

\* The steps of the callers outside addEntry: only AddTask takes up an entry,
\* and takes a fresh one.
LEMMA CallerCustody ==
  ASSUME Control, Custody, NEW c \in Callers, NEW e \in Entries,
         \/ \E t \in Tasks : Cancel(c, t) \/ \E d \in Delays : AddTask(c, t, d)
         \/ SetEntry(c) \/ ReadTaskBucket(c) \/ Unlink(c)
  PROVE  Fresh(e)' /\ OnePlace(e)'
<1> USE ThreadFacts
<1>0. TypeOK /\ CallerOK(c) /\ Fresh(e) /\ OnePlace(e)
  BY DEF Control, Custody
<1>1. ASSUME NEW t \in Tasks, Cancel(c, t)
      PROVE  NoNewPlace(e)
  BY <1>0, <1>1
  DEF NoNewPlace, Cancel, At, Goto, TypeOK, Handling, Linked, taskVars, execVars
<1>2. ASSUME NEW t \in Tasks, NEW d \in Delays, AddTask(c, t, d)
      PROVE  Fresh(e)' /\ OnePlace(e)'
  <2>1. PICK f \in Entries :
          /\ baseTask[f] = NoTask
          /\ baseTask' = [baseTask EXCEPT ![f] = t]
          /\ ent' = [ent EXCEPT ![c] = f]
    BY <1>2 DEF AddTask
  <2>2. /\ pc' = [pc EXCEPT ![c] = "setEntry"] /\ pc[c] = "idle"
        /\ UNCHANGED <<taskBucket, submitted>>
    BY <1>2 DEF AddTask, At, Goto, execVars
  <2>3. CASE f # e
    <3>1. NoNewPlace(e)
      BY <1>0, <2>1, <2>2, <2>3 DEF NoNewPlace, Handling, Linked, TypeOK
    <3> QED
      BY <1>0, <3>1, CustodyFrame
  <2>4. CASE f = e
    <3>1. submitted[e] = 0 /\ ~Linked(e) /\ \A th \in Threads : ~Handling(th, e)
      BY <1>0, <2>1, <2>4 DEF Fresh
    <3>2. submitted'[e] = 0 /\ ~Linked(e)' /\ baseTask'[e] # NoTask
      BY <1>0, <2>1, <2>2, <2>4, <3>1 DEF Linked, TypeOK
    <3>3. \A th \in Threads : th # c => ~Handling(th, e)'
      BY <1>0, <2>1, <2>2, <3>1 DEF Handling, TypeOK
    <3> QED
      BY <3>2, <3>3 DEF Fresh, OnePlace
  <2> QED
    BY <2>3, <2>4
<1>3. SetEntry(c) => NoNewPlace(e)
  BY <1>0 DEF NoNewPlace, SetEntry, At, Goto, TypeOK, Handling, Linked, execVars
<1>4. ReadTaskBucket(c) => NoNewPlace(e)
  BY <1>0 DEF NoNewPlace, ReadTaskBucket, At, Goto, TypeOK, Handling, Linked, execVars
<1>5. Unlink(c) => NoNewPlace(e)
  BY <1>0
  DEF NoNewPlace, Unlink, At, Goto, TypeOK, CallerOK, Handling, Linked, execVars, locals
<1> QED
  BY <1>0, <1>1, <1>2, <1>3, <1>4, <1>5, CustodyFrame

\* addEntry: Link and Submit put the entry down, the other steps keep it.
LEMMA AddEntryCustody ==
  ASSUME Control, Custody, NEW th \in Threads, NEW e \in Entries, AddEntryStep(th)
  PROVE  Fresh(e)' /\ OnePlace(e)'
<1> USE ThreadFacts
<1>0. TypeOK /\ ThreadOK(th) /\ Fresh(e) /\ OnePlace(e)
  BY DEF Control, Custody
<1>1. CheckCancelled(th) => NoNewPlace(e)
  BY <1>0
  DEF NoNewPlace, CheckCancelled, At, Goto, TypeOK, Handling, Linked, taskVars,
      execVars, locals
<1>2. CheckExpired(th) => NoNewPlace(e)
  BY <1>0
  DEF NoNewPlace, CheckExpired, At, Goto, TypeOK, Handling, Linked, taskVars, execVars,
      locals
<1>3. Place(th) => NoNewPlace(e)
  BY <1>0 DEF NoNewPlace, Place, At, Goto, TypeOK, Handling, Linked, taskVars, execVars
<1>4. SetExpire(th) => NoNewPlace(e)
  BY <1>0
  DEF NoNewPlace, SetExpire, At, Goto, AfterAdd, TypeOK, Handling, Linked, taskVars,
      execVars, locals
<1>5. Offer(th) => NoNewPlace(e)
  BY <1>0
  DEF NoNewPlace, Offer, At, Goto, AfterAdd, TypeOK, Handling, Linked, taskVars,
      execVars, locals
<1>6. Recheck(th) => NoNewPlace(e)
  BY <1>0
  DEF NoNewPlace, Recheck, At, Goto, AfterAdd, TypeOK, Handling, Linked, taskVars,
      execVars, locals
<1>7. Rejected(th) => NoNewPlace(e)
  BY <1>0
  DEF NoNewPlace, Rejected, At, Goto, TypeOK, Handling, Linked, taskVars, execVars,
      locals
<1>8. ASSUME Link(th) \/ Submit(th), ent[th] # e
      PROVE  NoNewPlace(e)
  BY <1>0, <1>8
  DEF NoNewPlace, Link, Submit, At, Goto, AfterAdd, TypeOK, Handling, Linked, taskVars,
      execVars,
      locals
<1>9. ASSUME Link(th) \/ Submit(th), ent[th] = e
      PROVE  Fresh(e)' /\ OnePlace(e)'
  <2>1. Handling(th, e)
    BY <1>9 DEF Link, Submit, At, Handling
  <2>2. /\ submitted[e] = 0 /\ ~Linked(e) /\ baseTask[e] # NoTask
        /\ \A o \in Threads \ {th} : ~Handling(o, e)
    BY <1>0, <2>1 DEF OnePlace, Fresh
  <2>3. \A o \in Threads : ~Handling(o, e)'
    BY <1>0, <1>9, <2>2 DEF Link, Submit, At, Goto, AfterAdd, TypeOK, Handling, locals
  <2>4. baseTask'[e] # NoTask
    BY <1>9, <2>2 DEF Link, Submit, taskVars
  <2>5. CASE Link(th)
    <3>1. submitted'[e] = 0
      BY <2>2, <2>5 DEF Link, execVars
    <3> QED
      BY <2>3, <2>4, <3>1 DEF Fresh, OnePlace
  <2>6. CASE Submit(th)
    <3>1. submitted'[e] = 1 /\ ~Linked(e)'
      BY <1>0, <1>9, <2>2, <2>6 DEF Submit, TypeOK, Linked, taskVars
    <3> QED
      BY <2>3, <2>4, <3>1 DEF Fresh, OnePlace
  <2> QED
    BY <1>9, <2>5, <2>6
<1> QED
  BY <1>0, <1>1, <1>2, <1>3, <1>4, <1>5, <1>6, <1>7, <1>8, <1>9, CustodyFrame
  DEF AddEntryStep

\* The boss takes an entry out of its bucket before it handles it.
LEMMA BossCustody ==
  ASSUME Control, Custody, NEW e \in Entries,
         \/ \E b \in Buckets : Poll(b)
         \/ Stop \/ AdvanceClock \/ BeginFlush
         \/ \E f \in Entries : FlushEntry(f)
         \/ EndFlush
  PROVE  Fresh(e)' /\ OnePlace(e)'
<1> USE ThreadFacts
<1>0. TypeOK /\ BossOK /\ Fresh(e) /\ OnePlace(e)
  BY DEF Control, Custody
<1>1. ASSUME NEW b \in Buckets, Poll(b)
      PROVE  NoNewPlace(e)
  BY <1>0, <1>1
  DEF NoNewPlace, Poll, At, Goto, TypeOK, Handling, Linked, taskVars, execVars
<1>2. Stop => NoNewPlace(e)
  BY <1>0
  DEF NoNewPlace, Stop, At, Goto, TypeOK, Handling, Linked, taskVars, execVars, locals
<1>3. AdvanceClock => NoNewPlace(e)
  BY <1>0
  DEF NoNewPlace, AdvanceClock, At, Goto, TypeOK, Handling, Linked, taskVars, execVars
<1>4. BeginFlush => NoNewPlace(e)
  BY <1>0
  DEF NoNewPlace, BeginFlush, At, Goto, TypeOK, Handling, Linked, taskVars, execVars,
      locals
<1>5. EndFlush => NoNewPlace(e)
  BY <1>0
  DEF NoNewPlace, EndFlush, At, Goto, TypeOK, Handling, Linked, taskVars, execVars,
      locals
<1>6. ASSUME NEW f \in Entries, FlushEntry(f), f # e
      PROVE  NoNewPlace(e)
  BY <1>0, <1>6 DEF NoNewPlace, FlushEntry, At, Goto, TypeOK, Handling, Linked, execVars
<1>7. ASSUME FlushEntry(e)
      PROVE  Fresh(e)' /\ OnePlace(e)'
  <2>1. Linked(e)
    BY <1>0, <1>7 DEF FlushEntry, At, BossOK, Linked
  <2>2. submitted[e] = 0 /\ baseTask[e] # NoTask /\ \A th \in Threads : ~Handling(th, e)
    BY <1>0, <2>1 DEF Fresh, OnePlace, TypeOK
  <2>3. submitted'[e] = 0 /\ ~Linked(e)' /\ baseTask'[e] # NoTask
    BY <1>0, <1>7, <2>2 DEF FlushEntry, TypeOK, Linked, execVars
  <2>4. \A th \in Threads : th # Boss => ~Handling(th, e)'
    BY <1>0, <1>7, <2>2 DEF FlushEntry, Goto, TypeOK, Handling
  <2> QED
    BY <2>3, <2>4 DEF Fresh, OnePlace
<1> QED
  BY <1>0, <1>1, <1>2, <1>3, <1>4, <1>5, <1>6, <1>7, CustodyFrame

\* The clock, the executor and shutdown move no entry.
LEMMA EnvironmentCustody ==
  ASSUME Control, Custody, NEW e \in Entries, Environment \/ UNCHANGED vars
  PROVE  Fresh(e)' /\ OnePlace(e)'
<1>1. UNCHANGED <<baseTask, taskBucket, submitted, pc, ent>>
  BY DEF Environment, Tick, Shutdown, Work, vars, taskVars, execVars, locals
<1> QED
  BY <1>1 DEF Custody, Fresh, OnePlace, Handling, Linked

\* Every step keeps each entry in one place ...
LEMMA CustodyStep == Control /\ Custody /\ [Next]_vars => Custody'
<1> SUFFICES ASSUME Control, Custody, [Next]_vars, NEW e \in Entries
             PROVE  Fresh(e)' /\ OnePlace(e)'
  BY DEF Custody
<1> QED
  BY CallerCustody, AddEntryCustody, BossCustody, EnvironmentCustody, ThreadFacts
  DEF Next, Begin, CallerStep, BossStep

\* ... so it always is.
LEMMA CustodyInvariant == Spec => []Custody
BY InitCustody, CustodyStep, ControlInvariant, PTL DEF Spec

-----------------------------------------------------------------------------
(* Wakeup *)

\* A bucket with an expiration is queued, being flushed, or about to be queued.
Backed(b) ==
  expiration[b] # -1 =>
    \/ queue[b] > 0
    \/ polled = b
    \/ \E th \in Threads : pc[th] = "offer" /\ bkt[th] = b

\* A bucket with an entry has an expiration, is being flushed, or is about to
\* get one.
Timed(e) ==
  Linked(e) =>
    \/ expiration[taskBucket[e]] # -1
    \/ polled = taskBucket[e]
    \/ \E th \in Threads : pc[th] = "setExpire" /\ bkt[th] = taskBucket[e]

Awake  == (\A b \in Buckets : Backed(b)) /\ (\A e \in Entries : Timed(e))
Wakeup == ~At(Boss, "dead") => Awake

\* A step that links no entry and touches no wake-up.
Quiet ==
  /\ UNCHANGED <<expiration, queue, polled>>
  /\ \A th \in Threads : pc[th] \in {"setExpire", "offer"} =>
       pc'[th] = pc[th] /\ bkt'[th] = bkt[th]
  /\ \A e \in Entries : taskBucket'[e] \in {taskBucket[e], NoBucket}

\* Quiet steps lose no wake-up.
LEMMA QuietWakeup == Awake /\ Quiet => Awake'
<1> SUFFICES ASSUME Awake, Quiet PROVE Awake'
  OBVIOUS
<1>1. ASSUME NEW b \in Buckets PROVE Backed(b)'
  BY DEF Awake, Backed, Quiet
<1>2. ASSUME NEW e \in Entries PROVE Timed(e)'
  <2>1. CASE taskBucket'[e] = NoBucket
    BY <2>1 DEF Timed, Linked
  <2>2. CASE taskBucket'[e] = taskBucket[e]
    <3>1. Timed(e) /\ (Linked(e)' => Linked(e))
      BY <2>2 DEF Awake, Linked
    <3> QED
      BY <2>2, <3>1 DEF Timed, Quiet
  <2> QED
    BY <2>1, <2>2 DEF Quiet
<1> QED
  BY <1>1, <1>2 DEF Awake

\* The steps that are quiet.
LEMMA QuietSteps ==
  ASSUME Control, [Next]_vars
  PROVE  \/ Quiet
         \/ \E th \in Threads : Link(th) \/ SetExpire(th) \/ Offer(th)
         \/ \E b \in Buckets : Poll(b)
         \/ EndFlush
         \/ Rejected(Boss)
<1> USE ThreadFacts
<1>0. TypeOK
  BY DEF Control
<1>1. ASSUME NEW c \in Callers, NEW t \in Tasks, Cancel(c, t)
      PROVE  Quiet
  BY <1>0, <1>1 DEF Quiet, Cancel, At, Goto, TypeOK, timerVars, taskVars
<1>2. ASSUME NEW c \in Callers, NEW t \in Tasks, NEW d \in Delays, AddTask(c, t, d)
      PROVE  Quiet
  BY <1>0, <1>2 DEF Quiet, AddTask, At, Goto, TypeOK, timerVars
<1>3. ASSUME NEW c \in Callers, SetEntry(c)
      PROVE  Quiet
  BY <1>0, <1>3 DEF Quiet, SetEntry, At, Goto, TypeOK, timerVars
<1>4. ASSUME NEW c \in Callers, ReadTaskBucket(c)
      PROVE  Quiet
  BY <1>0, <1>4 DEF Quiet, ReadTaskBucket, At, Goto, TypeOK, timerVars
<1>5. ASSUME NEW c \in Callers, Unlink(c)
      PROVE  Quiet
  BY <1>0, <1>5 DEF Quiet, Unlink, At, Goto, TypeOK, timerVars, locals
<1>6. ASSUME NEW th \in Threads, CheckCancelled(th) \/ CheckExpired(th) \/ Recheck(th) \/ Submit(th)
      PROVE  Quiet
  BY <1>0, <1>6
  DEF Quiet, CheckCancelled, CheckExpired, Recheck, Submit, At, Goto, TypeOK,
      timerVars, taskVars, locals
<1>7. ASSUME NEW th \in Threads, Place(th)
      PROVE  Quiet
  BY <1>0, <1>7 DEF Quiet, Place, At, Goto, TypeOK, taskVars
<1>8. ASSUME NEW c \in Callers, Rejected(c)
      PROVE  Quiet
  BY <1>0, <1>8 DEF Quiet, Rejected, At, Goto, TypeOK, taskVars, locals
<1>9. CASE Stop \/ BeginFlush
  BY <1>0, <1>9
  DEF Quiet, Stop, BeginFlush, At, Goto, TypeOK, timerVars, taskVars, locals
<1>10. CASE AdvanceClock
  BY <1>0, <1>10 DEF Quiet, AdvanceClock, At, Goto, TypeOK, taskVars
<1>11. ASSUME NEW e \in Entries, FlushEntry(e)
       PROVE  Quiet
  BY <1>0, <1>11 DEF Quiet, FlushEntry, At, Goto, TypeOK, timerVars
<1>12. CASE Environment \/ UNCHANGED vars
  <2>1. UNCHANGED <<expiration, queue, polled, pc, bkt, taskBucket>>
    BY <1>12 DEF Environment, Tick, Shutdown, Work, vars, timerVars, taskVars, locals
  <2> QED
    BY <2>1 DEF Quiet
<1>13. ASSUME NEW th \in Threads, AddEntryStep(th)
       PROVE  \/ Quiet \/ Link(th) \/ SetExpire(th) \/ Offer(th)
              \/ th = Boss /\ Rejected(Boss)
  BY <1>6, <1>7, <1>8, <1>13 DEF AddEntryStep
<1> QED
  BY <1>1, <1>2, <1>3, <1>4, <1>5, <1>9, <1>10, <1>11, <1>12, <1>13
  DEF Next, Begin, CallerStep, BossStep

\* Nothing wakes a dead boss.
LEMMA BossStaysDead ==
  ASSUME Control, [Next]_vars, At(Boss, "dead")
  PROVE  At(Boss, "dead")'
<1> USE ThreadFacts
<1>0. TypeOK
  BY DEF Control
<1>1. ASSUME NEW c \in Callers, Begin(c) \/ SetEntry(c) \/ ReadTaskBucket(c) \/ Unlink(c)
      PROVE  pc'[Boss] = pc[Boss]
  BY <1>0, <1>1
  DEF Begin, Cancel, AddTask, SetEntry, ReadTaskBucket, Unlink, Goto, TypeOK
<1>2. ASSUME NEW c \in Callers, AddEntryStep(c)
      PROVE  pc'[Boss] = pc[Boss]
  BY <1>0, <1>2
  DEF AddEntryStep, CheckCancelled, CheckExpired, Place, Link, SetExpire, Offer,
      Recheck, Submit,
      Rejected, Goto, TypeOK
<1>3. ~BossStep
  BY
  DEF BossStep, Poll, Stop, AdvanceClock, BeginFlush, FlushEntry, EndFlush,
      AddEntryStep,
         CheckCancelled, CheckExpired, Place, Link, SetExpire, Offer, Recheck, Submit,
         Rejected, At
<1>4. Environment \/ UNCHANGED vars => pc'[Boss] = pc[Boss]
  BY DEF Environment, Tick, Shutdown, Work, vars
<1> QED
  BY <1>1, <1>2, <1>3, <1>4 DEF Next, CallerStep, At

\* The steps that set, reset, offer or take a wake-up lose none either.
LEMMA WakeupStep == Control /\ Wakeup /\ [Next]_vars => Wakeup'
<1> SUFFICES ASSUME Control, Wakeup, [Next]_vars, ~At(Boss, "dead")'
             PROVE  Awake'
  BY DEF Wakeup
<1> USE ThreadFacts
<1>0. TypeOK /\ \A th \in Threads : ThreadOK(th) /\ BossOK
  BY DEF Control
<1>1. Awake
  BY BossStaysDead DEF Wakeup
<1>2. ASSUME NEW th \in Threads, Link(th)
      PROVE  Awake'
  <2>1. /\ ent[th] \in Entries /\ bkt[th] \in Buckets /\ pc[th] = "link"
        /\ taskBucket' = [taskBucket EXCEPT ![ent[th]] = bkt[th]]
        /\ pc' = [pc EXCEPT ![th] = "setExpire"]
        /\ UNCHANGED <<expiration, queue, polled, bkt>>
    BY <1>0, <1>2 DEF Link, At, Goto, ThreadOK, AddEntry, timerVars, locals
  <2>2. ASSUME NEW b \in Buckets PROVE Backed(b)'
    BY <1>0, <2>1, <1>1 DEF Awake, Backed, TypeOK
  <2>3. ASSUME NEW e \in Entries PROVE Timed(e)'
    BY <1>0, <2>1, <1>1 DEF Awake, Timed, Linked, TypeOK
  <2> QED
    BY <2>2, <2>3 DEF Awake
<1>3. ASSUME NEW th \in Threads, SetExpire(th)
      PROVE  Awake'
  <2> DEFINE v == Floor(expireMs[ent[th]], scaleMs[wheel[th]])
  <2>1. v \in Nat
    BY <1>0, <1>3, FloorType DEF SetExpire, At, TypeOK, ThreadOK, AddEntry
  <2> HIDE DEF v
  <2>2. /\ bkt[th] \in Buckets /\ pc[th] = "setExpire"
        /\ expiration' = [expiration EXCEPT ![bkt[th]] = v]
        /\ UNCHANGED <<queue, polled, bkt, taskBucket>>
        /\ \/ expiration[bkt[th]] = v /\ pc' = [pc EXCEPT ![th] = AfterAdd(th)]
           \/ pc' = [pc EXCEPT ![th] = "offer"]
    BY <1>0, <1>3 DEF SetExpire, At, Goto, ThreadOK, taskVars, locals, v
  <2>3. ASSUME NEW b \in Buckets PROVE Backed(b)'
    BY <1>0, <2>1, <2>2, <1>1 DEF Awake, Backed, TypeOK
  <2>4. ASSUME NEW e \in Entries PROVE Timed(e)'
    <3>1. CASE taskBucket[e] = bkt[th]
      BY <1>0, <2>1, <2>2, <3>1 DEF Timed, Linked, TypeOK
    <3>2. CASE taskBucket[e] # bkt[th]
      BY <1>0, <2>2, <1>1, <3>2 DEF Awake, Timed, Linked, TypeOK
    <3> QED
      BY <3>1, <3>2
  <2> QED
    BY <2>3, <2>4 DEF Awake
<1>4. ASSUME NEW th \in Threads, Offer(th)
      PROVE  Awake'
  <2>1. /\ bkt[th] \in Buckets /\ pc[th] = "offer" /\ queue[bkt[th]] \in Nat
        /\ queue' = [queue EXCEPT ![bkt[th]] = queue[bkt[th]] + 1]
        /\ pc' = [pc EXCEPT ![th] = AfterAdd(th)]
        /\ UNCHANGED <<expiration, polled, bkt, taskBucket>>
    BY <1>0, <1>4 DEF Offer, At, Goto, ThreadOK, TypeOK, taskVars, locals
  <2>2. ASSUME NEW b \in Buckets PROVE Backed(b)'
    <3>1. CASE b = bkt[th]
      BY <1>0, <2>1, <3>1 DEF Backed, TypeOK
    <3>2. CASE b # bkt[th]
      BY <1>0, <2>1, <1>1, <3>2 DEF Awake, Backed, TypeOK
    <3> QED
      BY <3>1, <3>2
  <2>3. ASSUME NEW e \in Entries PROVE Timed(e)'
    BY <1>0, <2>1, <1>1 DEF Awake, Timed, Linked, TypeOK
  <2> QED
    BY <2>2, <2>3 DEF Awake
<1>5. ASSUME NEW c \in Buckets, Poll(c)
      PROVE  Awake'
  <2>1. /\ pc[Boss] = "poll" /\ polled = NoBucket /\ polled' = c
        /\ queue' = [queue EXCEPT ![c] = queue[c] - 1]
        /\ pc' = [pc EXCEPT ![Boss] = "advance"]
        /\ UNCHANGED <<expiration, bkt, taskBucket>>
    BY <1>0, <1>5 DEF Poll, At, Goto, BossOK, taskVars
  <2>2. ASSUME NEW b \in Buckets PROVE Backed(b)'
    BY <1>0, <2>1, <1>1 DEF Awake, Backed, TypeOK
  <2>3. ASSUME NEW e \in Entries PROVE Timed(e)'
    BY <1>0, <2>1, <1>1 DEF Awake, Timed, Linked, TypeOK
  <2> QED
    BY <2>2, <2>3 DEF Awake
<1>6. ASSUME EndFlush
      PROVE  Awake'
  <2>1. /\ pc[Boss] = "flush" /\ polled \in Buckets /\ polled' = NoBucket
        /\ \A e \in Entries : taskBucket[e] # polled
        /\ expiration' = [expiration EXCEPT ![polled] = -1]
        /\ pc' = [pc EXCEPT ![Boss] = "poll"]
        /\ UNCHANGED <<queue, bkt, taskBucket>>
    BY <1>0, <1>6 DEF EndFlush, At, Goto, BossOK, taskVars, locals
  <2>2. ASSUME NEW b \in Buckets PROVE Backed(b)'
    BY <1>0, <2>1, <1>1 DEF Awake, Backed, TypeOK
  <2>3. ASSUME NEW e \in Entries PROVE Timed(e)'
    BY <1>0, <2>1, <1>1 DEF Awake, Timed, Linked, TypeOK
  <2> QED
    BY <2>2, <2>3 DEF Awake
<1>7. ASSUME Rejected(Boss)
      PROVE  FALSE
  BY <1>0, <1>7 DEF Rejected, At, Goto, TypeOK
<1>8. ASSUME Quiet
      PROVE  Awake'
  BY <1>8, <1>1, QuietWakeup
<1> QED
  BY <1>2, <1>3, <1>4, <1>5, <1>6, <1>7, <1>8, QuietSteps

\* No bucket has an expiration when the timer is made.
LEMMA InitWakeup == Init => Wakeup
BY DEF Init, Wakeup, Awake, Backed, Timed, Linked

\* No wake-up is ever lost.
LEMMA WakeupInvariant == Spec => []Wakeup
BY InitWakeup, WakeupStep, ControlInvariant, PTL DEF Spec

-----------------------------------------------------------------------------
(* Cancellation *)

\* What CancelIsFinal says of one entry and one step.
StaysDoomed(e) == Doomed(e)' /\ submitted'[e] = submitted[e]

\* A step that does not hand e to a thread, nor e back to its task.
LEMMA DoomedFrame ==
  ASSUME NEW e \in Entries, Doomed(e),
         baseTask'[e] = baseTask[e],
         entry'[baseTask[e]] # e,
         submitted'[e] = submitted[e],
         \A th \in Threads :
           ent'[th] = e /\ pc'[th] \in {"setEntry", "remove", "unlink", "submit"} =>
             ent[th] = e /\ pc[th] \in {"setEntry", "remove", "unlink", "submit"}
  PROVE  StaysDoomed(e)
<1>1. baseTask'[e] # NoTask /\ entry'[baseTask'[e]] # e
  BY DEF Doomed
<1> QED
  BY <1>1 DEF Doomed, StaysDoomed

\* A cancelled entry stays cancelled in every step, and is not submitted in it.
LEMMA CancelStep ==
  ASSUME Control, [Next]_vars, NEW e \in Entries, Doomed(e)
  PROVE  StaysDoomed(e)
<1> USE ThreadFacts
<1>0. /\ TypeOK /\ \A th \in Threads : ThreadOK(th)
      /\ \A c \in Callers : CallerOK(c)
  BY DEF Control
<1>1. /\ baseTask[e] \in Tasks /\ entry[baseTask[e]] # e
      /\ \A th \in Threads : ent[th] = e => pc[th] \notin {"setEntry", "remove", "unlink", "submit"}
  BY <1>0 DEF Doomed, TypeOK
<1>2. ASSUME NEW c \in Callers, NEW t \in Tasks, Cancel(c, t)
      PROVE  StaysDoomed(e)
  <2>1. UNCHANGED <<baseTask, entry, submitted>>
    BY <1>2 DEF Cancel, taskVars, execVars
  <2>2. ent' = [ent EXCEPT ![c] = NoEntry] /\ pc' = [pc EXCEPT ![c] = "remove"]
    BY <1>2 DEF Cancel, Goto
  <2> QED
    BY <1>0, <1>1, <2>1, <2>2, DoomedFrame DEF TypeOK
<1>3. ASSUME NEW c \in Callers, NEW t \in Tasks, NEW d \in Delays, AddTask(c, t, d)
      PROVE  StaysDoomed(e)
  <2>1. PICK f \in Entries :
          /\ baseTask[f] = NoTask
          /\ baseTask' = [baseTask EXCEPT ![f] = t]
          /\ ent' = [ent EXCEPT ![c] = f]
    BY <1>3 DEF AddTask
  <2>2. f # e
    BY <1>1, <2>1
  <2>3. UNCHANGED <<entry, submitted>> /\ pc' = [pc EXCEPT ![c] = "setEntry"]
    BY <1>3 DEF AddTask, Goto, execVars
  <2> QED
    BY <1>0, <1>1, <2>1, <2>2, <2>3, DoomedFrame DEF TypeOK
<1>4. ASSUME NEW c \in Callers, SetEntry(c)
      PROVE  StaysDoomed(e)
  <2>1. pc[c] = "setEntry" /\ tsk[c] \in Tasks /\ ent[c] # e
    BY <1>0, <1>1, <1>4 DEF SetEntry, At, CallerOK
  <2>2. entry'[baseTask[e]] # e
    BY <1>0, <1>1, <1>4, <2>1 DEF SetEntry, TypeOK
  <2> QED
    BY <1>0, <1>1, <1>4, <2>1, <2>2, DoomedFrame DEF SetEntry, Goto, TypeOK, execVars
<1>5. ASSUME NEW c \in Callers, ReadTaskBucket(c)
      PROVE  StaysDoomed(e)
  <2>1. pc[c] = "remove" /\ tsk[c] \in Tasks /\ ent[c] # e
    BY <1>0, <1>1, <1>5 DEF ReadTaskBucket, At, CallerOK
  <2>2. entry'[baseTask[e]] # e
    BY <1>0, <1>1, <1>5, <2>1 DEF ReadTaskBucket, TypeOK
  <2> QED
    BY <1>0, <1>1, <1>5, <2>1, <2>2, DoomedFrame
    DEF ReadTaskBucket, Goto, TypeOK, execVars
<1>6. ASSUME NEW c \in Callers, Unlink(c)
      PROVE  StaysDoomed(e)
  BY <1>0, <1>1, <1>6, DoomedFrame DEF Unlink, At, Goto, TypeOK, execVars, locals
<1>7. ASSUME NEW th \in Threads, AddEntryStep(th)
      PROVE  StaysDoomed(e)
  <2>1. UNCHANGED <<baseTask, entry, ent>>
    BY <1>7
    DEF AddEntryStep, CheckCancelled, CheckExpired, Place, Link, SetExpire, Offer,
        Recheck, Submit,
        Rejected, taskVars, locals
  <2>2. submitted'[e] = submitted[e]
    <3>1. CASE Submit(th)
      BY <1>0, <1>1, <3>1 DEF Submit, At, TypeOK
    <3>2. CASE ~Submit(th)
      BY <1>7, <3>2
      DEF AddEntryStep, CheckCancelled, CheckExpired, Place, Link, SetExpire, Offer,
          Recheck,
          Rejected, execVars
    <3> QED
      BY <3>1, <3>2
  <2>3. ASSUME ent[th] = e
        PROVE  pc'[th] \notin {"setEntry", "remove", "unlink", "submit"}
    <3>1. cancelled(e) /\ ~At(th, "submit")
      BY <1>1, <2>3 DEF cancelled, At
    <3> QED
      BY <1>0, <1>7, <2>3, <3>1
      DEF AddEntryStep, CheckCancelled, CheckExpired, Place, Link, SetExpire, Offer,
          Recheck,
          Submit, Rejected, Goto, AfterAdd, TypeOK
  <2>4. \A o \in Threads : o # th => pc'[o] = pc[o]
    BY <1>0, <1>7
    DEF AddEntryStep, CheckCancelled, CheckExpired, Place, Link, SetExpire, Offer,
        Recheck, Submit,
        Rejected, Goto, TypeOK
  <2> QED
    BY <1>1, <2>1, <2>2, <2>3, <2>4, DoomedFrame
<1>8. ASSUME \/ \E b \in Buckets : Poll(b)
             \/ Stop \/ AdvanceClock \/ BeginFlush
             \/ \E f \in Entries : FlushEntry(f)
             \/ EndFlush
      PROVE  StaysDoomed(e)
  <2>1. UNCHANGED <<baseTask, entry, submitted>>
    BY <1>8
    DEF Poll, Stop, AdvanceClock, BeginFlush, FlushEntry, EndFlush, taskVars, execVars
  <2>2. pc'[Boss] \notin {"setEntry", "remove", "unlink", "submit"}
    BY <1>0, <1>8
    DEF Poll, Stop, AdvanceClock, BeginFlush, FlushEntry, EndFlush, At, Goto, TypeOK
  <2>3. \A o \in Threads : o # Boss => pc'[o] = pc[o] /\ ent'[o] = ent[o]
    BY <1>0, <1>8
    DEF Poll, Stop, AdvanceClock, BeginFlush, FlushEntry, EndFlush, Goto, TypeOK, locals
  <2> QED
    BY <1>1, <2>1, <2>2, <2>3, DoomedFrame
<1>9. ASSUME Environment \/ UNCHANGED vars
      PROVE  StaysDoomed(e)
  <2>1. UNCHANGED <<baseTask, entry, submitted, pc, ent>>
    BY <1>9 DEF Environment, Tick, Shutdown, Work, vars, taskVars, execVars, locals
  <2> QED
    BY <1>1, <2>1, DoomedFrame
<1> QED
  BY <1>2, <1>3, <1>4, <1>5, <1>6, <1>7, <1>8, <1>9
  DEF Next, Begin, CallerStep, BossStep

-----------------------------------------------------------------------------
(* The theorems *)

\* Every variable keeps its type: no thread reads a local it has not set, no
\* wheel is used before it is made (all of the package's fields).
THEOREM TypeCorrect == Spec => []TypeOK
<1>1. Control => TypeOK
  BY DEF Control
<1> QED
  BY <1>1, ControlInvariant, PTL

\* A task is handed to the executor at most once for each addTask, and its entry
\* is never in two buckets or in the hands of two threads (SystemTimer.addEntry,
\* TaskBucket.flush), however callers, boss and shutdown interleave.
THEOREM EntriesHaveOnePlace == Spec => []AtMostOnce
<1>1. Custody => AtMostOnce
  BY DEF Custody, OnePlace, AtMostOnce
<1> QED
  BY <1>1, CustodyInvariant, PTL

\* TaskBucket.add never finds its entry in a list, so its remove-and-retry loop
\* runs once.
THEOREM AddFindsUnlinked == Spec => []LinkFindsUnlinked
<1>1. Control /\ Custody => LinkFindsUnlinked
  <2> SUFFICES ASSUME Control, Custody, NEW th \in Threads, At(th, "link")
               PROVE  ~Linked(ent[th])
    BY DEF LinkFindsUnlinked
  <2>1. ent[th] \in Entries
    BY DEF Control, ThreadOK, AddEntry, At
  <2>2. Handling(th, ent[th])
    BY DEF Handling, At
  <2> QED
    BY <2>1, <2>2 DEF Custody, OnePlace
<1> QED
  BY <1>1, ControlInvariant, CustodyInvariant, PTL

\* While the boss lives no linked entry is left without a wake-up in the delay
\* queue (TaskBucket.setExpire, TimingWheel.add, TaskBucket.flush).
THEOREM NoEntryIsLost == Spec => []NoLostEntry
<1>1. Control /\ Wakeup => NoLostEntry
  <2> SUFFICES ASSUME Control, Awake, NEW e \in Entries, Linked(e)
               PROVE  \/ queue[taskBucket[e]] > 0
                      \/ polled = taskBucket[e]
                      \/ \E th \in Threads : /\ pc[th] \in {"setExpire", "offer"}
                                           /\ bkt[th] = taskBucket[e]
    BY DEF NoLostEntry, Wakeup
  <2>1. taskBucket[e] \in Buckets
    BY DEF Control, TypeOK, Linked
  <2> QED
    BY <2>1 DEF Awake, Backed, Timed
<1> QED
  BY <1>1, ControlInvariant, WakeupInvariant, PTL

\* Once cancelled, always cancelled: from the moment no thread is handing the
\* entry over, no step of any thread runs its task or makes it current again
\* (BaseTask.cancel, BaseTask.setEntry, Entry.cancelled).
THEOREM CancellationIsFinal == Spec => CancelIsFinal
<1>1. Control /\ [Next]_vars =>
        [\A e \in Entries : Doomed(e) => Doomed(e)' /\ submitted'[e] = submitted[e]]_vars
  BY CancelStep DEF StaysDoomed
<1> QED
  BY <1>1, ControlInvariant, PTL DEF Spec, CancelIsFinal

-----------------------------------------------------------------------------
(* SystemTimer implements TimerPromise: each of its steps is one step of it or none *)

(***************************************************************************)
(* Entries and their tasks point at each other.                            *)
(***************************************************************************)
\* c is giving e to its task, which does not know e yet.
Giving(c, e) == ent[c] = e /\ pc[c] \in {"setEntry", "remove", "unlink"}

Ties ==
  /\ \A t \in Tasks : entry[t] # NoEntry =>
       baseTask[entry[t]] = t /\ ~Unborn(entry[t])
  /\ \A c \in Callers : \A e \in Entries : Giving(c, e) => baseTask[e] = tsk[c]

\* A step that makes no new ties keeps the old ones.
LEMMA TiesFrame ==
  ASSUME Control, Ties, UNCHANGED <<baseTask, entry, tsk>>,
         \A c \in Callers : \A e \in Entries : Giving(c, e)' => Giving(c, e)
  PROVE  Ties'
<1>1. TypeOK
  BY DEF Control
<1>2. ASSUME NEW t \in Tasks, entry'[t] # NoEntry
      PROVE  baseTask'[entry'[t]] = t /\ ~Unborn(entry[t])'
  <2>1. entry[t] \in Entries /\ baseTask[entry[t]] = t /\ ~Unborn(entry[t])
    BY <1>1, <1>2 DEF Ties, TypeOK
  <2> QED
    BY <2>1 DEF Unborn, Giving
<1> QED
  BY <1>2 DEF Ties, Giving, Unborn

\* The last step of setEntry ties the new entry to its task.
LEMMA TiesMade ==
  ASSUME Control, Custody, Ties, NEW c \in Callers, SetEntry(c) \/ ReadTaskBucket(c)
  PROVE  Ties'
<1> USE ThreadFacts
<1>0. TypeOK /\ CallerOK(c)
  BY DEF Control
<1>1. /\ UNCHANGED <<baseTask, tsk, ent>>
      /\ \A o \in Callers : o # c => pc'[o] = pc[o]
      /\ tsk[c] \in Tasks
      /\ pc[c] \in {"setEntry", "remove"}
      /\ \/ UNCHANGED entry /\ pc'[c] \in {"remove", "unlink"}
         \/ /\ entry' = [entry EXCEPT ![tsk[c]] = ent[c]]
            /\ pc'[c] \notin {"setEntry", "remove", "unlink"}
  BY <1>0 DEF SetEntry, ReadTaskBucket, CallerOK, At, Goto, TypeOK
<1>2. \A o \in Callers : \A e \in Entries : Giving(o, e)' => Giving(o, e)
  BY <1>1 DEF Giving
<1>3. CASE UNCHANGED entry
  BY <1>1, <1>2, <1>3, TiesFrame
<1>4. CASE /\ entry' = [entry EXCEPT ![tsk[c]] = ent[c]]
           /\ pc'[c] \notin {"setEntry", "remove", "unlink"}
  <2>1. ASSUME NEW t \in Tasks, entry'[t] # NoEntry
        PROVE  baseTask'[entry'[t]] = t /\ ~Unborn(entry[t])'
    <3>1. CASE t # tsk[c]
      <4>1. /\ entry'[t] = entry[t] /\ entry[t] \in Entries
            /\ baseTask[entry[t]] = t /\ ~Unborn(entry[t])
        BY <1>0, <1>4, <2>1, <3>1 DEF Ties, TypeOK
      <4> QED
        BY <1>1, <1>2, <4>1 DEF Unborn, Giving
    <3>2. CASE t = tsk[c]
      <4>1. entry'[t] = ent[c] /\ ent[c] \in Entries
        BY <1>0, <1>1, <1>4, <2>1, <3>2 DEF TypeOK
      <4>2. Giving(c, ent[c]) /\ Handling(c, ent[c])
        BY <1>1 DEF Giving, Handling
      <4>3. baseTask[ent[c]] = t
        BY <3>2, <4>1, <4>2 DEF Ties
      <4>4. \A o \in Callers : o # c => ~Giving(o, ent[c])
        BY <4>1, <4>2 DEF Custody, OnePlace, Giving, Handling
      <4> QED
        BY <1>1, <1>2, <1>4, <4>1, <4>3, <4>4 DEF Unborn, Giving
    <3> QED
      BY <3>1, <3>2
  <2> QED
    BY <1>1, <1>2, <2>1 DEF Ties, Giving
<1> QED
  BY <1>1, <1>3, <1>4

\* addTask gives its task a fresh entry.
LEMMA TiesBegun ==
  ASSUME Control, Custody, Ties, NEW c \in Callers, NEW t \in Tasks, NEW d \in Delays,
         AddTask(c, t, d)
  PROVE  Ties'
<1> USE ThreadFacts
<1>0. TypeOK
  BY DEF Control
<1>1. PICK f \in Entries :
        /\ baseTask[f] = NoTask
        /\ baseTask' = [baseTask EXCEPT ![f] = t]
        /\ ent' = [ent EXCEPT ![c] = f]
  BY DEF AddTask
<1>2. /\ UNCHANGED entry
      /\ tsk' = [tsk EXCEPT ![c] = t]
      /\ pc' = [pc EXCEPT ![c] = "setEntry"]
  BY DEF AddTask, Goto
<1>3. ASSUME NEW u \in Tasks, entry'[u] # NoEntry
      PROVE  baseTask'[entry'[u]] = u /\ ~Unborn(entry[u])'
  <2>1. /\ entry[u] \in Entries /\ baseTask[entry[u]] = u /\ ~Unborn(entry[u])
        /\ entry[u] # f
    BY <1>0, <1>1, <1>2, <1>3 DEF Ties, TypeOK
  <2> QED
    BY <1>0, <1>1, <1>2, <2>1 DEF Unborn, TypeOK
<1>4. ASSUME NEW o \in Callers, NEW e \in Entries, Giving(o, e)'
      PROVE  baseTask'[e] = tsk'[o]
  <2>1. CASE o = c
    BY <1>0, <1>1, <1>2, <1>4, <2>1 DEF Giving, TypeOK
  <2>2. CASE o # c
    <3>1. Giving(o, e) /\ baseTask[e] = tsk[o] /\ tsk[o] \in Tasks
      BY <1>0, <1>1, <1>2, <1>4, <2>2 DEF Giving, Ties, Control, CallerOK, TypeOK
    <3> QED
      BY <1>0, <1>1, <1>2, <2>2, <3>1 DEF TypeOK
  <2> QED
    BY <2>1, <2>2
<1> QED
  BY <1>3, <1>4 DEF Ties

\* No other step makes a tie.
LEMMA TiesStep == Control /\ Custody /\ Ties /\ [Next]_vars => Ties'
<1> SUFFICES ASSUME Control, Custody, Ties, [Next]_vars PROVE Ties'
  OBVIOUS
<1> USE ThreadFacts
<1>0. TypeOK
  BY DEF Control
<1>1. ASSUME NEW c \in Callers, NEW t \in Tasks, Cancel(c, t)
      PROVE  Ties'
  <2>1. /\ UNCHANGED <<baseTask, entry>>
        /\ tsk' = [tsk EXCEPT ![c] = t]
        /\ ent' = [ent EXCEPT ![c] = NoEntry]
        /\ pc' = [pc EXCEPT ![c] = "remove"]
    BY <1>1 DEF Cancel, Goto, taskVars
  <2>2. \A o \in Callers : \A e \in Entries :
          Giving(o, e)' => o # c /\ Giving(o, e) /\ tsk'[o] = tsk[o]
    BY <1>0, <2>1 DEF Giving, TypeOK
  <2>3. ASSUME NEW u \in Tasks, entry'[u] # NoEntry
        PROVE  baseTask'[entry'[u]] = u /\ ~Unborn(entry[u])'
    <3>1. entry[u] \in Entries /\ baseTask[entry[u]] = u /\ ~Unborn(entry[u])
      BY <1>0, <2>1, <2>3 DEF Ties, TypeOK
    <3> QED
      BY <2>1, <2>2, <3>1 DEF Unborn, Giving
  <2> QED
    BY <2>1, <2>2, <2>3 DEF Ties
<1>2. ASSUME NEW c \in Callers, Unlink(c)
      PROVE  Ties'
  <2>1. UNCHANGED <<baseTask, entry, tsk, ent>> /\ pc' = [pc EXCEPT ![c] = "remove"]
        /\ pc[c] = "unlink"
    BY <1>2 DEF Unlink, At, Goto, locals
  <2>2. \A o \in Callers : \A e \in Entries : Giving(o, e)' => Giving(o, e)
    BY <1>0, <2>1 DEF Giving, TypeOK
  <2> QED
    BY <2>1, <2>2, TiesFrame
<1>3. ASSUME NEW th \in Threads, AddEntryStep(th)
      PROVE  Ties'
  <2>1. UNCHANGED <<baseTask, entry, tsk, ent>>
    BY <1>3
    DEF AddEntryStep, CheckCancelled, CheckExpired, Place, Link, SetExpire, Offer,
        Recheck, Submit, Rejected, taskVars, locals
  <2>2. pc'[th] \notin {"setEntry", "remove", "unlink"}
    BY <1>0, <1>3
    DEF AddEntryStep, CheckCancelled, CheckExpired, Place, Link, SetExpire, Offer,
        Recheck, Submit, Rejected, AfterAdd, Goto, TypeOK
  <2>3. \A o \in Threads : o # th => pc'[o] = pc[o]
    BY <1>0, <1>3
    DEF AddEntryStep, CheckCancelled, CheckExpired, Place, Link, SetExpire, Offer,
        Recheck, Submit, Rejected, Goto, TypeOK
  <2>4. \A o \in Callers : \A e \in Entries : Giving(o, e)' => Giving(o, e)
    BY <2>1, <2>2, <2>3 DEF Giving
  <2> QED
    BY <2>1, <2>4, TiesFrame
<1>4. ASSUME \/ \E b \in Buckets : Poll(b)
             \/ Stop \/ AdvanceClock \/ BeginFlush
             \/ \E f \in Entries : FlushEntry(f)
             \/ EndFlush
      PROVE  Ties'
  <2>1. UNCHANGED <<baseTask, entry, tsk>>
    BY <1>4
    DEF Poll, Stop, AdvanceClock, BeginFlush, FlushEntry, EndFlush, taskVars, locals
  <2>2. \A o \in Callers : pc'[o] = pc[o] /\ ent'[o] = ent[o]
    BY <1>0, <1>4
    DEF Poll, Stop, AdvanceClock, BeginFlush, FlushEntry, EndFlush, Goto, TypeOK, locals
  <2> QED
    BY <2>1, <2>2, TiesFrame DEF Giving
<1>5. ASSUME Environment \/ UNCHANGED vars
      PROVE  Ties'
  <2>1. UNCHANGED <<baseTask, entry, tsk, pc, ent>>
    BY <1>5 DEF Environment, Tick, Shutdown, Work, vars, taskVars, execVars, locals
  <2> QED
    BY <2>1, TiesFrame DEF Giving
<1> QED
  BY <1>1, <1>2, <1>3, <1>4, <1>5, TiesMade, TiesBegun
  DEF Next, Begin, CallerStep, BossStep

\* Entries and tasks always point at each other.
LEMMA TiesInvariant == Spec => []Ties
<1>1. Init => Ties
  BY ThreadFacts DEF Init, Ties, Giving
<1> QED
  BY <1>1, TiesStep, ControlInvariant, CustodyInvariant, PTL DEF Spec

(***************************************************************************)
(* Which steps change the status of an entry.                              *)
(***************************************************************************)
\* What th has to do with e is the same before and after the step.
SameRole(th, e) ==
  /\ Handling(th, e)' <=> Handling(th, e)
  /\ (ent[th] = e /\ pc[th] = "submit")' <=> ent[th] = e /\ pc[th] = "submit"
  /\ Giving(th, e)' <=> Giving(th, e)

\* An entry that stays where it is keeps its status.
LEMMA StatusFrame ==
  ASSUME NEW e \in Entries,
         baseTask'[e] = baseTask[e],
         submitted'[e] = submitted[e],
         Linked(e)' <=> Linked(e),
         \A th \in Threads : SameRole(th, e)
  PROVE  StatusOf(e)' = StatusOf(e) /\ (Unborn(e)' <=> Unborn(e))
<1>1. Unborn(e)' <=> Unborn(e)
  BY ThreadFacts DEF Unborn, SameRole, Giving
<1>2. Committed(e)' <=> Committed(e)
  BY DEF Committed, SameRole, At
<1>3. Pending(e)' <=> Pending(e)
  BY DEF Pending, SameRole
<1> QED
  BY <1>1, <1>2, <1>3 DEF StatusOf

\* Entries keep their withdrawals while their tasks keep entries and monitors.
LEMMA WithdrawnFrame ==
  ASSUME NEW e \in Entries,
         baseTask'[e] = baseTask[e],
         Unborn(e)' <=> Unborn(e),
         ~Unborn(e) => entry'[baseTask[e]] = entry[baseTask[e]],
         ~Unborn(e) => (TaskLocked(baseTask[e])' <=> TaskLocked(baseTask[e]))
  PROVE  Withdrawn(e)' <=> Withdrawn(e)
BY DEF Withdrawn

\* An entry one thread handles has been given to its task, or is being given to
\* it by that thread, and is not submitted.
LEMMA HandledFacts ==
  ASSUME Control, Custody, NEW th \in Threads, NEW e \in Entries, Handling(th, e)
  PROVE  /\ submitted[e] = 0 /\ ~Linked(e) /\ baseTask[e] \in Tasks
         /\ \A o \in Threads : o # th => ~Handling(o, e)
         /\ Unborn(e) <=> th \in Callers /\ Giving(th, e)
         /\ Committed(e) <=> pc[th] = "submit"
<1>1. /\ submitted[e] = 0 /\ ~Linked(e) /\ baseTask[e] \in Tasks
      /\ \A o \in Threads : o # th => ~Handling(o, e)
  BY DEF Control, TypeOK, Custody, OnePlace, Fresh
<1>2. baseTask[e] # NoTask
  BY <1>1, ThreadFacts
<1>3. \A o \in Threads : o # th => ~Giving(o, e) /\ ~(ent[o] = e /\ pc[o] = "submit")
  BY <1>1 DEF Handling, Giving
<1>4. Unborn(e) <=> th \in Callers /\ Giving(th, e)
  BY <1>2, <1>3, ThreadFacts DEF Unborn, Giving
<1>5. Committed(e) <=> pc[th] = "submit"
  BY <1>3 DEF Committed, At, Handling
<1> QED
  BY <1>1, <1>4, <1>5

\* The status of an entry follows from where it is: with a thread that runs
\* addEntry for it, ...
Settled ==
  \A th \in Threads : \A e \in Entries : Handling(th, e) /\ pc[th] \in AddEntry =>
    /\ ~Unborn(e)
    /\ StatusOf(e) = IF pc[th] = "submit" THEN "committed" ELSE "pending"

\* ... or with no thread.
AtEase ==
  \A e \in Entries : (\A th \in Threads : ~Handling(th, e)) =>
    /\ Unborn(e) <=> baseTask[e] = NoTask
    /\ StatusOf(e) = IF baseTask[e] = NoTask THEN "new"
                     ELSE IF submitted[e] > 0 THEN "submitted"
                     ELSE IF Linked(e) THEN "pending"
                     ELSE "gone"

\* So it is in every state ...
LEMMA StatusNow == Control /\ Custody => Settled /\ AtEase
<1> SUFFICES ASSUME Control, Custody PROVE Settled /\ AtEase
  OBVIOUS
<1>1. ASSUME NEW th \in Threads, NEW e \in Entries, Handling(th, e), pc[th] \in AddEntry
      PROVE  /\ ~Unborn(e)
             /\ StatusOf(e) = IF pc[th] = "submit" THEN "committed" ELSE "pending"
  <2>1. ~Unborn(e)
    BY <1>1, HandledFacts DEF Giving, AddEntry
  <2>2. submitted[e] = 0 /\ (Committed(e) <=> pc[th] = "submit") /\ Pending(e)
    BY <1>1, HandledFacts DEF Pending
  <2> QED
    BY <2>1, <2>2 DEF StatusOf
<1>2. ASSUME NEW e \in Entries, \A th \in Threads : ~Handling(th, e)
      PROVE  /\ Unborn(e) <=> baseTask[e] = NoTask
             /\ StatusOf(e) = IF baseTask[e] = NoTask THEN "new"
                              ELSE IF submitted[e] > 0 THEN "submitted"
                              ELSE IF Linked(e) THEN "pending"
                              ELSE "gone"
  <2>1. Unborn(e) <=> baseTask[e] = NoTask
    BY <1>2, ThreadFacts DEF Unborn, Handling
  <2>2. ~Committed(e) /\ (Pending(e) <=> Linked(e))
    BY <1>2 DEF Committed, Pending, Handling, At
  <2> QED
    BY <2>1, <2>2 DEF StatusOf
<1> QED
  BY <1>1, <1>2 DEF Settled, AtEase

\* ... and in the state after it.
LEMMA StatusNext == Control' /\ Custody' => Settled' /\ AtEase'
BY StatusNow, PTL

\* A step of TimerPromise that gives one entry a new status.
LEMMA PromiseMove ==
  ASSUME NEW f \in Entries, NEW from, NEW to,
         StatusOf(f) = from, StatusOf(f)' = to,
         \A e \in Entries : e # f => StatusOf(e)' = StatusOf(e),
         \A e \in Entries : Withdrawn(e)' <=> Withdrawn(e)
  PROVE  Promise!Move(f, from, to)
BY DEF Promise!Move

\* A step of TimerPromise that withdraws one entry.
LEMMA PromiseWithdraw ==
  ASSUME NEW f \in Entries, StatusOf(f) # "new",
         \A e \in Entries : StatusOf(e)' = StatusOf(e),
         \A e \in Entries : Withdrawn(e)' <=> Withdrawn(e) \/ e = f
  PROVE  Promise!Withdraw(f)
<1>1. {e \in Entries : Withdrawn(e)}' = {e \in Entries : Withdrawn(e)} \union {f}
  OBVIOUS
<1>2. [e \in Entries |-> StatusOf(e)]' = [e \in Entries |-> StatusOf(e)]
  OBVIOUS
<1> QED
  BY <1>1, <1>2 DEF Promise!Withdraw

\* A step that changes no status and no withdrawal.
LEMMA PromiseStutter ==
  ASSUME \A e \in Entries : StatusOf(e)' = StatusOf(e),
         \A e \in Entries : Withdrawn(e)' <=> Withdrawn(e)
  PROVE  UNCHANGED Promise!vars
BY DEF Promise!vars

-----------------------------------------------------------------------------
(* The steps *)

\* What every step of TimerPromise starts and ends with.
Regular == Control /\ Custody /\ Ties /\ Settled /\ AtEase

\* addTask makes an entry its task does not know: nothing yet.
LEMMA AddTaskPromise ==
  ASSUME Regular, Regular', NEW c \in Callers, NEW t \in Tasks, NEW d \in Delays,
         AddTask(c, t, d)
  PROVE  UNCHANGED Promise!vars
<1> USE ThreadFacts
<1>0. TypeOK
  BY DEF Regular, Control
<1>1. PICK f \in Entries :
        /\ baseTask[f] = NoTask
        /\ baseTask' = [baseTask EXCEPT ![f] = t]
        /\ ent' = [ent EXCEPT ![c] = f]
  BY DEF AddTask
<1>2. /\ UNCHANGED <<entry, submitted, taskBucket>>
      /\ tsk' = [tsk EXCEPT ![c] = t]
      /\ pc[c] = "idle" /\ pc' = [pc EXCEPT ![c] = "setEntry"]
  BY DEF AddTask, At, Goto, execVars
<1>3. ASSUME NEW e \in Entries, e # f
      PROVE  StatusOf(e)' = StatusOf(e) /\ (Withdrawn(e)' <=> Withdrawn(e))
  <2>1. \A th \in Threads : SameRole(th, e)
    BY <1>0, <1>1, <1>2, <1>3 DEF SameRole, Handling, Giving, TypeOK
  <2>2. baseTask'[e] = baseTask[e]
    BY <1>0, <1>1, <1>3 DEF TypeOK
  <2>3. StatusOf(e)' = StatusOf(e) /\ (Unborn(e)' <=> Unborn(e))
    BY <1>2, <2>1, <2>2, StatusFrame DEF Linked
  <2>4. TaskLocked(baseTask[e])' <=> TaskLocked(baseTask[e])
    BY <1>0, <1>2, <2>2 DEF TaskLocked, TypeOK
  <2> QED
    BY <1>2, <2>2, <2>3, <2>4, WithdrawnFrame
<1>4. Unborn(f) /\ Unborn(f)'
  BY <1>0, <1>1, <1>2 DEF Unborn, TypeOK
<1>5. /\ StatusOf(f)' = StatusOf(f)
      /\ Withdrawn(f)' <=> Withdrawn(f)
  BY <1>4 DEF StatusOf, Withdrawn
<1> QED
  BY <1>3, <1>5, PromiseStutter

\* cancel withdraws the entry of its task as soon as it holds the monitor.
LEMMA CancelPromise ==
  ASSUME Regular, Regular', NEW c \in Callers, NEW t \in Tasks, Cancel(c, t)
  PROVE  Promise!Next
<1> USE ThreadFacts
<1>0. TypeOK
  BY DEF Regular, Control
<1>1. PICK f \in Entries : f = entry[t] /\ baseTask[f] = t /\ ~Unborn(f)
  BY <1>0 DEF Cancel, Regular, Ties, TypeOK
<1>2. /\ UNCHANGED <<baseTask, entry, submitted, taskBucket>>
      /\ tsk' = [tsk EXCEPT ![c] = t]
      /\ ent' = [ent EXCEPT ![c] = NoEntry]
      /\ pc[c] = "idle" /\ pc' = [pc EXCEPT ![c] = "remove"]
  BY DEF Cancel, At, Goto, taskVars, execVars
<1>3. ASSUME NEW e \in Entries
      PROVE  StatusOf(e)' = StatusOf(e) /\ (Unborn(e)' <=> Unborn(e))
  <2>1. \A th \in Threads : SameRole(th, e)
    BY <1>0, <1>2 DEF SameRole, Handling, Giving, TypeOK
  <2> QED
    BY <1>2, <2>1, StatusFrame DEF Linked
<1>4. ASSUME NEW e \in Entries, e # f
      PROVE  Withdrawn(e)' <=> Withdrawn(e)
  <2>1. CASE baseTask[e] = t
    BY <1>1, <1>2, <1>3, <1>4, <2>1 DEF Withdrawn
  <2>2. CASE baseTask[e] # t
    <3>1. TaskLocked(baseTask[e])' <=> TaskLocked(baseTask[e])
      BY <1>0, <1>2, <2>2 DEF TaskLocked, TypeOK
    <3> QED
      BY <1>2, <1>3, <3>1, WithdrawnFrame
  <2> QED
    BY <2>1, <2>2
<1>5. Withdrawn(f)'
  <2>1. TaskLocked(t)'
    BY <1>0, <1>2 DEF TaskLocked, TypeOK
  <2> QED
    BY <1>1, <1>2, <1>3, <2>1 DEF Withdrawn
<1>6. StatusOf(f) # "new"
  BY <1>1 DEF StatusOf
<1>7. Promise!Withdraw(f)
  BY <1>1, <1>3, <1>4, <1>5, <1>6, PromiseWithdraw
<1> QED
  BY <1>1, <1>7 DEF Promise!Next

\* setEntry assigns the task's entry, alone in the task's monitor: the new entry
\* is added, an old one was withdrawn before.
LEMMA AssignPromise ==
  ASSUME Regular, Regular', NEW c \in Callers, NEW f \in Entries,
         ent[c] = f,
         \/ pc[c] = "setEntry" /\ entry[tsk[c]] = NoEntry
         \/ pc[c] = "remove",
         \A o \in Callers : o # c => ~(pc[o] \in {"remove", "unlink"} /\ tsk[o] = tsk[c]),
         entry' = [entry EXCEPT ![tsk[c]] = f],
         pc' = [pc EXCEPT ![c] = "cancelled"],
         UNCHANGED <<baseTask, submitted, taskBucket, tsk, ent>>
  PROVE  Promise!Next
<1> USE ThreadFacts
<1>0. TypeOK /\ CallerOK(c)
  BY DEF Regular, Control
<1>1. /\ tsk[c] \in Tasks /\ Giving(c, f) /\ baseTask[f] = tsk[c]
  BY <1>0 DEF CallerOK, Regular, Ties, Giving
<1>2. /\ pc'[c] = "cancelled" /\ pc[c] \in {"setEntry", "remove"}
      /\ \A o \in Threads : o # c => pc'[o] = pc[o]
  BY <1>0 DEF TypeOK
<1>3. ASSUME NEW e \in Entries, e # f
      PROVE  StatusOf(e)' = StatusOf(e) /\ (Withdrawn(e)' <=> Withdrawn(e))
  <2>1. \A th \in Threads : SameRole(th, e)
    BY <1>2, <1>3 DEF SameRole, Handling, Giving
  <2>2. StatusOf(e)' = StatusOf(e) /\ (Unborn(e)' <=> Unborn(e))
    BY <2>1, StatusFrame DEF Linked
  <2>3. CASE baseTask[e] = tsk[c]
    <3>1. entry[tsk[c]] # e \/ TaskLocked(tsk[c])
      BY <1>2 DEF TaskLocked
    <3>2. entry'[tsk[c]] # e
      BY <1>0, <1>1, <1>3 DEF TypeOK
    <3> QED
      BY <2>2, <2>3, <3>1, <3>2 DEF Withdrawn
  <2>4. CASE baseTask[e] # tsk[c]
    <3>1. TaskLocked(baseTask[e])' <=> TaskLocked(baseTask[e])
      BY <1>2, <2>4 DEF TaskLocked
    <3>2. entry'[baseTask[e]] = entry[baseTask[e]]
      BY <1>0, <2>4 DEF TypeOK
    <3> QED
      BY <2>2, <3>1, <3>2, WithdrawnFrame
  <2> QED
    BY <2>2, <2>3, <2>4
<1>4. StatusOf(f) = "new" /\ ~Withdrawn(f)
  BY <1>1 DEF StatusOf, Withdrawn, Unborn, Giving
<1>5. ~Unborn(f)' /\ StatusOf(f)' = "pending"
  <2>1. Handling(c, f)' /\ pc'[c] \in AddEntry /\ pc'[c] # "submit"
    BY <1>2 DEF Handling, AddEntry
  <2> QED
    BY <2>1 DEF Regular, Settled
<1>6. ~Withdrawn(f)'
  <2>1. entry'[tsk[c]] = f
    BY <1>0, <1>1 DEF TypeOK
  <2>2. ~TaskLocked(tsk[c])'
    BY <1>2 DEF TaskLocked
  <2> QED
    BY <1>1, <2>1, <2>2 DEF Withdrawn
<1>7. Promise!Move(f, "new", "pending")
  BY <1>3, <1>4, <1>5, <1>6, PromiseMove
<1> QED
  BY <1>7 DEF Promise!Next, Promise!Add

\* setEntry begins: it assigns at once, or withdraws the old entry.
LEMMA SetEntryPromise ==
  ASSUME Regular, Regular', NEW c \in Callers, SetEntry(c)
  PROVE  Promise!Next
<1> USE ThreadFacts
<1>0. TypeOK /\ CallerOK(c)
  BY DEF Regular, Control
<1>1. /\ pc[c] = "setEntry" /\ ~TaskLocked(tsk[c]) /\ tsk[c] \in Tasks
      /\ UNCHANGED <<baseTask, submitted, taskBucket, tsk, ent>>
  BY <1>0 DEF SetEntry, CallerOK, At, execVars
<1>2. PICK f \in Entries : ent[c] = f
  BY <1>0, <1>1 DEF CallerOK
<1>3. CASE entry[tsk[c]] = NoEntry
  <2>1. entry' = [entry EXCEPT ![tsk[c]] = f] /\ pc' = [pc EXCEPT ![c] = "cancelled"]
    BY <1>2, <1>3 DEF SetEntry, Goto
  <2>2. \A o \in Callers : o # c => ~(pc[o] \in {"remove", "unlink"} /\ tsk[o] = tsk[c])
    BY <1>1 DEF TaskLocked
  <2> QED
    BY <1>1, <1>2, <1>3, <2>1, <2>2, AssignPromise
<1>4. CASE entry[tsk[c]] # NoEntry
  <2>1. entry' = entry /\ pc' = [pc EXCEPT ![c] = "remove"]
    BY <1>4 DEF SetEntry, Goto
  <2>2. PICK g \in Entries : g = entry[tsk[c]] /\ baseTask[g] = tsk[c] /\ ~Unborn(g)
    BY <1>0, <1>1, <1>4 DEF Regular, Ties, TypeOK
  <2>3. ASSUME NEW e \in Entries
        PROVE  StatusOf(e)' = StatusOf(e) /\ (Unborn(e)' <=> Unborn(e))
    <3>1. \A th \in Threads : SameRole(th, e)
      BY <1>0, <1>1, <2>1 DEF SameRole, Handling, Giving, TypeOK
    <3> QED
      BY <1>1, <3>1, StatusFrame DEF Linked
  <2>4. ASSUME NEW e \in Entries, e # g
        PROVE  Withdrawn(e)' <=> Withdrawn(e)
    <3>1. CASE baseTask[e] = tsk[c]
      BY <1>1, <2>1, <2>2, <2>3, <2>4, <3>1 DEF Withdrawn
    <3>2. CASE baseTask[e] # tsk[c]
      <4>1. TaskLocked(baseTask[e])' <=> TaskLocked(baseTask[e])
        BY <1>0, <1>1, <2>1, <3>2 DEF TaskLocked, TypeOK
      <4> QED
        BY <1>1, <2>1, <2>3, <4>1, WithdrawnFrame
    <3> QED
      BY <3>1, <3>2
  <2>5. Withdrawn(g)'
    <3>1. TaskLocked(tsk[c])'
      BY <1>0, <1>1, <2>1 DEF TaskLocked, TypeOK
    <3> QED
      BY <1>1, <2>2, <2>3, <3>1 DEF Withdrawn
  <2>6. StatusOf(g) # "new"
    BY <2>2 DEF StatusOf
  <2>7. Promise!Withdraw(g)
    BY <2>2, <2>3, <2>4, <2>5, <2>6, PromiseWithdraw
  <2> QED
    BY <2>2, <2>7 DEF Promise!Next
<1> QED
  BY <1>3, <1>4

\* remove() goes round its loop, or ends: a cancel has nothing more to do, and
\* setEntry assigns the new entry.
LEMMA ReadTaskBucketPromise ==
  ASSUME Regular, Regular', NEW c \in Callers, ReadTaskBucket(c)
  PROVE  Promise!Next \/ UNCHANGED Promise!vars
<1> USE ThreadFacts
<1>0. TypeOK /\ CallerOK(c) /\ MonitorExclusion
  BY DEF Regular, Control
<1>1. /\ pc[c] = "remove" /\ tsk[c] \in Tasks
      /\ UNCHANGED <<baseTask, submitted, taskBucket, tsk, ent>>
  BY <1>0 DEF ReadTaskBucket, CallerOK, At, execVars
<1>2. \A o \in Callers : o # c => ~(pc[o] \in {"remove", "unlink"} /\ tsk[o] = tsk[c])
  BY <1>0, <1>1 DEF MonitorExclusion
<1>3. CASE entry' = entry /\ pc' = [pc EXCEPT ![c] = "unlink"]
  <2>1. ASSUME NEW e \in Entries
        PROVE  StatusOf(e)' = StatusOf(e) /\ (Withdrawn(e)' <=> Withdrawn(e))
    <3>1. \A th \in Threads : SameRole(th, e)
      BY <1>0, <1>1, <1>3 DEF SameRole, Handling, Giving, TypeOK
    <3>2. StatusOf(e)' = StatusOf(e) /\ (Unborn(e)' <=> Unborn(e))
      BY <1>1, <3>1, StatusFrame DEF Linked
    <3>3. TaskLocked(baseTask[e])' <=> TaskLocked(baseTask[e])
      BY <1>0, <1>1, <1>3 DEF TaskLocked, TypeOK
    <3> QED
      BY <1>1, <1>3, <3>2, <3>3, WithdrawnFrame
  <2> QED
    BY <2>1, PromiseStutter
<1>4. CASE /\ ent[c] = NoEntry
           /\ entry' = [entry EXCEPT ![tsk[c]] = NoEntry]
           /\ pc' = [pc EXCEPT ![c] = "idle"]
  <2>1. ASSUME NEW e \in Entries
        PROVE  StatusOf(e)' = StatusOf(e) /\ (Withdrawn(e)' <=> Withdrawn(e))
    <3>1. \A th \in Threads : SameRole(th, e)
      BY <1>0, <1>1, <1>4 DEF SameRole, Handling, Giving, TypeOK
    <3>2. StatusOf(e)' = StatusOf(e) /\ (Unborn(e)' <=> Unborn(e))
      BY <1>1, <3>1, StatusFrame DEF Linked
    <3>3. CASE baseTask[e] = tsk[c]
      <4>1. TaskLocked(tsk[c])
        BY <1>1 DEF TaskLocked
      <4>2. entry'[tsk[c]] # e
        BY <1>0, <1>1, <1>4 DEF TypeOK
      <4> QED
        BY <1>1, <3>2, <3>3, <4>1, <4>2 DEF Withdrawn
    <3>4. CASE baseTask[e] # tsk[c]
      <4>1. TaskLocked(baseTask[e])' <=> TaskLocked(baseTask[e])
        BY <1>0, <1>1, <1>4, <3>4 DEF TaskLocked, TypeOK
      <4>2. entry'[baseTask[e]] = entry[baseTask[e]]
        BY <1>0, <1>4, <3>4 DEF TypeOK
      <4> QED
        BY <1>1, <3>2, <4>1, <4>2, WithdrawnFrame
    <3> QED
      BY <3>2, <3>3, <3>4
  <2> QED
    BY <2>1, PromiseStutter
<1>5. CASE /\ ent[c] # NoEntry
           /\ entry' = [entry EXCEPT ![tsk[c]] = ent[c]]
           /\ pc' = [pc EXCEPT ![c] = "cancelled"]
  <2>1. PICK f \in Entries : ent[c] = f
    BY <1>0, <1>5 DEF TypeOK
  <2> QED
    BY <1>1, <1>2, <1>5, <2>1, AssignPromise
<1> QED
  BY <1>3, <1>4, <1>5 DEF ReadTaskBucket, Goto

\* TaskBucket.remove drops the entry, if it is still in that bucket.
LEMMA UnlinkPromise ==
  ASSUME Regular, Regular', NEW c \in Callers, Unlink(c)
  PROVE  Promise!Next \/ UNCHANGED Promise!vars
<1> USE ThreadFacts
<1>0. TypeOK /\ CallerOK(c)
  BY DEF Regular, Control
<1>1. /\ pc[c] = "unlink" /\ pc' = [pc EXCEPT ![c] = "remove"] /\ tsk[c] \in Tasks
      /\ UNCHANGED <<baseTask, entry, submitted, tsk, ent>>
  BY <1>0 DEF Unlink, CallerOK, At, Goto, execVars, locals
<1>2. PICK f \in Entries : f = entry[tsk[c]] /\ baseTask[f] = tsk[c] /\ ~Unborn(f)
  BY <1>0, <1>1 DEF CallerOK, Regular, Ties
<1>3. ASSUME NEW e \in Entries
      PROVE  /\ \A th \in Threads : SameRole(th, e)
             /\ TaskLocked(baseTask[e])' <=> TaskLocked(baseTask[e])
  BY <1>0, <1>1 DEF SameRole, Handling, Giving, TaskLocked, TypeOK
<1>4. ASSUME NEW e \in Entries, Linked(e)' <=> Linked(e)
      PROVE  StatusOf(e)' = StatusOf(e) /\ (Withdrawn(e)' <=> Withdrawn(e))
  <2>1. StatusOf(e)' = StatusOf(e) /\ (Unborn(e)' <=> Unborn(e))
    BY <1>1, <1>3, <1>4, StatusFrame
  <2> QED
    BY <1>1, <1>3, <2>1, WithdrawnFrame
<1>5. \A e \in Entries : e # f => (Linked(e)' <=> Linked(e))
  BY <1>0, <1>2 DEF Unlink, Linked, TypeOK
<1>6. CASE Linked(f)' <=> Linked(f)
  BY <1>4, <1>5, <1>6, PromiseStutter
<1>7. CASE ~(Linked(f)' <=> Linked(f))
  <2>1. Linked(f) /\ ~Linked(f)'
    BY <1>0, <1>2, <1>7 DEF Unlink, Linked, TypeOK
  <2>2. submitted[f] = 0 /\ \A th \in Threads : ~Handling(th, f)
    <3>1. OnePlace(f)
      BY DEF Regular, Custody
    <3>2. submitted[f] \in Nat
      BY <1>0 DEF TypeOK
    <3>3. submitted[f] <= 1 /\ submitted[f] # 1
      BY ONLY <3>1, <2>1 DEF OnePlace
    <3>4. \A th \in Threads : ~Handling(th, f)
      BY ONLY <3>1, <2>1 DEF OnePlace
    <3> QED
      BY ONLY <3>2, <3>3, <3>4
  <2>3. StatusOf(f) = "pending" /\ baseTask[f] # NoTask
    BY <1>1, <1>2, <2>1, <2>2 DEF Regular, AtEase
  <2>4. \A th \in Threads : ~Handling(th, f)'
    BY <1>3, <2>2 DEF SameRole
  <2>5. StatusOf(f)' = "gone" /\ ~Unborn(f)'
    BY <1>1, <2>1, <2>2, <2>3, <2>4 DEF Regular, AtEase
  <2>6. Withdrawn(f) /\ Withdrawn(f)'
    <3>1. TaskLocked(baseTask[f])
      BY <1>1, <1>2 DEF TaskLocked
    <3> QED
      BY <1>1, <1>2, <1>3, <2>5, <3>1 DEF Withdrawn
  <2>7. Promise!Move(f, "pending", "gone")
    BY <1>4, <1>5, <2>3, <2>5, <2>6, PromiseMove
  <2>8. Promise!Drop(f)
    BY <2>6, <2>7 DEF Promise!Drop
  <2> QED
    BY <2>8 DEF Promise!Next
<1> QED
  BY <1>6, <1>7

\* addEntry disturbs no entry but its own, and no withdrawal.
LEMMA AddEntryFrame ==
  ASSUME Regular, NEW th \in Threads, AddEntryStep(th)
  PROVE  /\ \A e \in Entries : Withdrawn(e)' <=> Withdrawn(e)
         /\ \A e \in Entries : e # ent[th] => StatusOf(e)' = StatusOf(e)
         /\ UNCHANGED <<baseTask, ent>>
         /\ \A o \in Threads : o # th => pc'[o] = pc[o]
         /\ pc[th] \in AddEntry
<1> USE ThreadFacts
<1>0. TypeOK /\ ThreadOK(th)
  BY DEF Regular, Control
<1>1. UNCHANGED <<baseTask, entry, ent, tsk>>
  BY DEF AddEntryStep, CheckCancelled, CheckExpired, Place, Link, SetExpire, Offer,
         Recheck, Submit, Rejected, taskVars, locals
<1>2. /\ pc[th] \in AddEntry
      /\ pc'[th] \notin {"setEntry", "remove", "unlink"}
      /\ \A o \in Threads : o # th => pc'[o] = pc[o]
  BY <1>0
  DEF AddEntryStep, CheckCancelled, CheckExpired, Place, Link, SetExpire, Offer,
      Recheck, Submit, Rejected, AfterAdd, Goto, At, AddEntry, TypeOK
<1>3. \A e \in Entries : e # ent[th] =>
        submitted'[e] = submitted[e] /\ taskBucket'[e] = taskBucket[e]
  BY <1>0
  DEF AddEntryStep, CheckCancelled, CheckExpired, Place, Link, SetExpire, Offer,
      Recheck, Submit, Rejected, TypeOK, taskVars, execVars
<1>4. pc[th] \notin {"setEntry", "remove", "unlink"}
  BY <1>2 DEF AddEntry
<1>5. ASSUME NEW e \in Entries
      PROVE  Withdrawn(e)' <=> Withdrawn(e)
  <2>1. Unborn(e)' <=> Unborn(e)
    BY <1>1, <1>2, <1>4 DEF Unborn
  <2>2. TaskLocked(baseTask[e])' <=> TaskLocked(baseTask[e])
    BY <1>1, <1>2, <1>4 DEF TaskLocked
  <2> QED
    BY <1>1, <2>1, <2>2, WithdrawnFrame
<1>6. ASSUME NEW e \in Entries, e # ent[th]
      PROVE  StatusOf(e)' = StatusOf(e)
  <2>1. \A o \in Threads : SameRole(o, e)
    BY <1>1, <1>2, <1>6 DEF SameRole, Handling, Giving
  <2> QED
    BY <1>1, <1>3, <1>6, <2>1, StatusFrame DEF Linked
<1> QED
  BY <1>1, <1>2, <1>5, <1>6

\* Where addEntry leaves its own entry decides what it has done.
LEMMA AddEntryPromise ==
  ASSUME Regular, Regular', NEW th \in Threads, AddEntryStep(th)
  PROVE  Promise!Next \/ UNCHANGED Promise!vars
<1> USE ThreadFacts
<1>0. TypeOK /\ ThreadOK(th)
  BY DEF Regular, Control
<1>1. /\ \A e \in Entries : Withdrawn(e)' <=> Withdrawn(e)
      /\ \A e \in Entries : e # ent[th] => StatusOf(e)' = StatusOf(e)
      /\ UNCHANGED <<baseTask, ent>>
      /\ \A o \in Threads : o # th => pc'[o] = pc[o]
      /\ pc[th] \in AddEntry
  BY AddEntryFrame
<1>2. PICK f \in Entries : ent[th] = f
  BY <1>0, <1>1 DEF ThreadOK
<1>3. ASSUME StatusOf(f)' = StatusOf(f)
      PROVE  UNCHANGED Promise!vars
  BY <1>1, <1>2, <1>3, PromiseStutter
<1>4. ASSUME NEW from, NEW to, StatusOf(f) = from, StatusOf(f)' = to
      PROVE  Promise!Move(f, from, to)
  BY <1>1, <1>2, <1>4, PromiseMove
<1>5. ASSUME pc[th] \in {"cancelled", "expired", "place", "link", "recheck", "submit"}
      PROVE  /\ Handling(th, f) /\ ~Unborn(f)
             /\ StatusOf(f) = IF pc[th] = "submit" THEN "committed" ELSE "pending"
             /\ submitted[f] = 0 /\ ~Linked(f) /\ baseTask[f] \in Tasks
             /\ \A o \in Threads : o # th => ~Handling(o, f)'
  <2>1. Handling(th, f)
    BY <1>2, <1>5 DEF Handling
  <2>2. \A o \in Threads : o # th => ~Handling(o, f)
    BY <2>1, HandledFacts DEF Regular
  <2>3. \A o \in Threads : o # th => ~Handling(o, f)'
    BY <1>1, <2>2 DEF Handling
  <2> QED
    BY <1>1, <2>1, <2>3, HandledFacts DEF Regular, Settled
<1>6. ASSUME pc'[th] \in {"cancelled", "expired", "place", "link", "recheck", "submit"}
      PROVE  StatusOf(f)' = IF pc'[th] = "submit" THEN "committed" ELSE "pending"
  <2>1. Handling(th, f)' /\ pc'[th] \in AddEntry
    BY <1>1, <1>2, <1>6 DEF Handling, AddEntry
  <2> QED
    BY <2>1 DEF Regular, Settled
<1>7. ASSUME pc[th] \in {"cancelled", "expired", "place", "link", "recheck", "submit"},
             pc'[th] \in {"setExpire", "idle", "flush", "dead"}
      PROVE  StatusOf(f)' = IF submitted'[f] > 0 THEN "submitted"
                           ELSE IF Linked(f)' THEN "pending" ELSE "gone"
  <2>1. \A o \in Threads : ~Handling(o, f)'
    BY <1>5, <1>7 DEF Handling
  <2>2. baseTask'[f] # NoTask
    BY <1>1, <1>5, <1>7
  <2> QED
    BY <2>1, <2>2 DEF Regular, AtEase
<1>8. CASE CheckCancelled(th) \/ CheckExpired(th) \/ Place(th)
  <2>1. /\ pc[th] \in {"cancelled", "expired", "place"}
        /\ pc'[th] \in {"cancelled", "expired", "place", "link", "recheck"}
    BY <1>0, <1>8 DEF CheckCancelled, CheckExpired, Place, At, Goto, TypeOK
  <2> QED
    BY <1>3, <1>5, <1>6, <2>1
<1>9. CASE Link(th)
  <2>1. /\ pc[th] = "link" /\ pc'[th] = "setExpire"
        /\ bkt[th] \in Buckets
        /\ submitted'[f] = submitted[f] /\ taskBucket'[f] = bkt[th]
    BY <1>0, <1>2, <1>9 DEF Link, At, Goto, ThreadOK, TypeOK, execVars
  <2>2. submitted'[f] = 0 /\ Linked(f)'
    BY <1>5, <2>1 DEF Linked
  <2> QED
    BY <1>3, <1>5, <1>7, <2>1, <2>2
<1>10. CASE SetExpire(th) \/ Offer(th)
  <2>1. /\ UNCHANGED <<submitted, taskBucket>>
        /\ pc[th] \in {"setExpire", "offer"}
        /\ pc'[th] \in {"offer", "flush", "idle"}
    BY <1>0, <1>10
    DEF SetExpire, Offer, At, Goto, AfterAdd, TypeOK, taskVars, execVars
  <2>2. \A o \in Threads : SameRole(o, f)
    BY <1>1, <2>1 DEF SameRole, Handling, Giving
  <2>3. StatusOf(f)' = StatusOf(f)
    BY <1>1, <2>1, <2>2, StatusFrame DEF Linked
  <2> QED
    BY <1>3, <2>3
<1>11. CASE Recheck(th)
  <2>1. /\ pc[th] = "recheck" /\ UNCHANGED <<submitted, taskBucket>>
        /\ MayGetEntry(f)
        /\ pc'[th] = IF cancelled(f) THEN AfterAdd(th) ELSE "submit"
    BY <1>0, <1>2, <1>11 DEF Recheck, At, Goto, TypeOK, taskVars, execVars
  <2>2. StatusOf(f) = "pending" /\ ~Unborn(f) /\ submitted[f] = 0 /\ ~Linked(f)
    BY <1>5, <2>1
  <2>3. CASE cancelled(f)
    <3>1. Withdrawn(f)
      BY <2>2, <2>3 DEF Withdrawn, cancelled
    <3>2. StatusOf(f)' = "gone"
      BY <1>7, <2>1, <2>2, <2>3 DEF AfterAdd, Linked
    <3>3. Promise!Drop(f)
      BY <1>4, <2>2, <3>1, <3>2 DEF Promise!Drop
    <3> QED
      BY <3>3 DEF Promise!Next
  <2>4. CASE ~cancelled(f)
    <3>1. ~Withdrawn(f)
      BY <2>1, <2>4 DEF Withdrawn, cancelled, MayGetEntry
    <3>2. StatusOf(f)' = "committed"
      BY <1>6, <2>1, <2>4
    <3>3. Promise!Commit(f)
      BY <1>4, <2>2, <3>1, <3>2 DEF Promise!Commit
    <3> QED
      BY <3>3 DEF Promise!Next
  <2> QED
    BY <2>3, <2>4
<1>12. CASE Submit(th)
  <2>1. /\ pc[th] = "submit" /\ pc'[th] \in {"flush", "idle"}
        /\ submitted'[f] = submitted[f] + 1
    BY <1>0, <1>2, <1>12 DEF Submit, At, Goto, AfterAdd, TypeOK
  <2>2. StatusOf(f) = "committed" /\ StatusOf(f)' = "submitted"
    BY <1>5, <1>7, <2>1
  <2>3. Promise!Submit(f)
    BY <1>4, <2>2 DEF Promise!Submit
  <2> QED
    BY <2>3 DEF Promise!Next
<1>13. CASE Rejected(th)
  <2>1. /\ pc[th] = "submit" /\ pc'[th] \in {"dead", "idle"}
        /\ UNCHANGED <<submitted, taskBucket>>
    BY <1>0, <1>13 DEF Rejected, At, Goto, TypeOK, taskVars, execVars
  <2>2. StatusOf(f) = "committed" /\ StatusOf(f)' = "gone"
    BY <1>5, <1>7, <2>1 DEF Linked
  <2>3. Promise!Refuse(f)
    BY <1>4, <2>2 DEF Promise!Refuse
  <2> QED
    BY <2>3 DEF Promise!Next
<1> QED
  BY <1>8, <1>9, <1>10, <1>11, <1>12, <1>13 DEF AddEntryStep

\* The boss's own steps promise nothing: what it takes out of a bucket is pending
\* in its hands.
LEMMA BossPromise ==
  ASSUME Regular, Regular',
         \/ \E b \in Buckets : Poll(b)
         \/ Stop \/ AdvanceClock \/ BeginFlush
         \/ \E f \in Entries : FlushEntry(f)
         \/ EndFlush
  PROVE  UNCHANGED Promise!vars
<1> USE ThreadFacts
<1>0. TypeOK /\ BossOK
  BY DEF Regular, Control
<1>1. UNCHANGED <<baseTask, entry, submitted, tsk>>
  BY DEF Poll, Stop, AdvanceClock, BeginFlush, FlushEntry, EndFlush, taskVars, execVars,
         locals
<1>2. /\ pc[Boss] \in {"poll", "advance", "lock", "flush"}
      /\ \A o \in Threads : o # Boss => pc'[o] = pc[o] /\ ent'[o] = ent[o]
  BY <1>0
  DEF Poll, Stop, AdvanceClock, BeginFlush, FlushEntry, EndFlush, At, Goto, TypeOK, locals
<1>3. ASSUME NEW e \in Entries
      PROVE  Withdrawn(e)' <=> Withdrawn(e)
  <2>1. Unborn(e)' <=> Unborn(e)
    BY <1>1, <1>2 DEF Unborn
  <2>2. TaskLocked(baseTask[e])' <=> TaskLocked(baseTask[e])
    BY <1>1, <1>2 DEF TaskLocked
  <2> QED
    BY <1>1, <2>1, <2>2, WithdrawnFrame
<1>4. ASSUME ~ \E f \in Entries : FlushEntry(f), NEW e \in Entries
      PROVE  StatusOf(e)' = StatusOf(e)
  <2>1. /\ UNCHANGED <<taskBucket, ent>>
        /\ pc'[Boss] \in {"poll", "advance", "lock", "flush", "stopped"}
    BY <1>0, <1>4
    DEF Poll, Stop, AdvanceClock, BeginFlush, EndFlush, At, Goto, TypeOK, taskVars, locals
  <2>2. \A o \in Threads : SameRole(o, e)
    BY <1>2, <2>1 DEF SameRole, Handling, Giving
  <2> QED
    BY <1>1, <2>1, <2>2, StatusFrame DEF Linked
<1>5. ASSUME NEW f \in Entries, FlushEntry(f), NEW e \in Entries
      PROVE  StatusOf(e)' = StatusOf(e)
  <2>1. /\ pc[Boss] = "flush" /\ pc'[Boss] = "cancelled" /\ ent'[Boss] = f
        /\ taskBucket[f] = polled /\ polled \in Buckets
        /\ taskBucket' = [taskBucket EXCEPT ![f] = NoBucket]
    BY <1>0, <1>5 DEF FlushEntry, At, Goto, BossOK, TypeOK
  <2>2. CASE e # f
    <3>1. \A o \in Threads : SameRole(o, e)
      BY <1>2, <2>1, <2>2 DEF SameRole, Handling, Giving
    <3>2. taskBucket'[e] = taskBucket[e]
      BY <1>0, <2>1, <2>2 DEF TypeOK
    <3> QED
      BY <1>1, <3>1, <3>2, StatusFrame DEF Linked
  <2>3. CASE e = f
    <3>1. Linked(e)
      BY <2>1, <2>3 DEF Linked
    <3>2. /\ submitted[e] = 0 /\ baseTask[e] # NoTask
          /\ \A th \in Threads : ~Handling(th, e)
      <4>1. OnePlace(e) /\ Fresh(e)
        BY DEF Regular, Custody
      <4>2. submitted[e] \in Nat
        BY <1>0 DEF TypeOK
      <4>3. submitted[e] <= 1 /\ submitted[e] # 1
        BY ONLY <4>1, <3>1 DEF OnePlace
      <4>4. baseTask[e] # NoTask
        BY ONLY <4>1, <3>1 DEF Fresh
      <4>5. \A th \in Threads : ~Handling(th, e)
        BY ONLY <4>1, <3>1 DEF OnePlace
      <4> QED
        BY ONLY <4>2, <4>3, <4>4, <4>5
    <3>3. StatusOf(e) = "pending"
      BY <3>1, <3>2 DEF Regular, AtEase
    <3>4. Handling(Boss, e)' /\ pc'[Boss] \in AddEntry
      BY <2>1, <2>3 DEF Handling, AddEntry
    <3>5. StatusOf(e)' = "pending"
      BY <2>1, <3>4 DEF Regular, Settled
    <3> QED
      BY <3>3, <3>5
  <2> QED
    BY <2>2, <2>3
<1> QED
  BY <1>3, <1>4, <1>5, PromiseStutter

\* Nor do the clock, the executor and shutdown.
LEMMA EnvironmentPromise ==
  ASSUME Environment \/ UNCHANGED vars
  PROVE  UNCHANGED Promise!vars
<1>1. UNCHANGED <<baseTask, entry, tsk, taskBucket, pc, ent>>
  BY DEF Environment, Tick, Shutdown, Work, vars, taskVars, execVars, locals
<1>2. UNCHANGED submitted
  BY DEF Environment, Tick, Shutdown, Work, vars, execVars
<1>3. ASSUME NEW e \in Entries
      PROVE  StatusOf(e)' = StatusOf(e) /\ (Withdrawn(e)' <=> Withdrawn(e))
  BY <1>1, <1>2
  DEF StatusOf, Withdrawn, Unborn, Committed, Pending, Handling, Linked, TaskLocked, At
<1> QED
  BY <1>3, PromiseStutter

-----------------------------------------------------------------------------
\* Nothing has been added when the timer is made.
LEMMA InitPromise == Init => Promise!Init
<1> SUFFICES ASSUME Init PROVE Promise!Init
  OBVIOUS
<1>1. \A e \in Entries : Unborn(e)
  BY DEF Init, Unborn
<1>2. \A e \in Entries : StatusOf(e) = "new" /\ ~Withdrawn(e)
  BY <1>1 DEF StatusOf, Withdrawn
<1> QED
  BY <1>2 DEF Promise!Init

\* Each step of SystemTimer is a step of TimerPromise or changes nothing there.
LEMMA StepPromise ==
  Regular /\ Regular' /\ [Next]_vars => [Promise!Next]_(Promise!vars)
<1> SUFFICES ASSUME Regular, Regular', [Next]_vars
             PROVE  Promise!Next \/ UNCHANGED Promise!vars
  OBVIOUS
<1> QED
  BY CancelPromise, AddTaskPromise, SetEntryPromise, ReadTaskBucketPromise, UnlinkPromise,
     AddEntryPromise, BossPromise, EnvironmentPromise, ThreadFacts
  DEF Next, Begin, CallerStep, BossStep

\* Whatever callers, boss and shutdown do and however they interleave, the timer
\* keeps its promise for every addTask: the task is handed over once, unless it
\* was withdrawn or the executor refused it.
THEOREM TimerKeepsPromise == Spec => KeepsPromise
<1>1. Control /\ Custody /\ Ties => Regular
  BY StatusNow DEF Regular
<1> QED
  BY <1>1, InitPromise, StepPromise, ControlInvariant, CustodyInvariant, TiesInvariant, PTL
  DEF Spec, KeepsPromise, Promise!Spec
=============================================================================
