----------------------------- MODULE SystemTimer -----------------------------
(***************************************************************************)
(* The timing-wheel timer (configuration/timer), thread by thread.         *)
(*                                                                         *)
(* Callers run addTask and cancel; the boss thread polls the delay queue,  *)
(* advances the wheels and flushes the bucket that came due, re-adding     *)
(* each entry or handing its task to the executor.  An action is the code  *)
(* between two points where another thread can interfere: a read of a      *)
(* shared field, the body of a synchronized block, an atomic variable, a   *)
(* call of the queue or of the executor.                                   *)
(*                                                                         *)
(* A bucket's linked list is the set of entries whose taskBucket is that   *)
(* bucket.  Two monitors are held across other steps: a task's, by the     *)
(* caller inside cancel or setEntry, and a bucket's, by the boss inside    *)
(* flush; both are read off the program counters.                          *)
(***************************************************************************)
EXTENDS Integers, FiniteSets

CONSTANTS
  ScaleMs,     \* milliseconds of one slot of the root wheel
  WheelSize,   \* slots of every wheel
  MaxWheels,   \* bound: wheels the hierarchy may grow to
  StartMs,     \* the clock when the timer is made
  Callers,     \* threads calling addTask and cancel
  Boss,        \* the thread of bossExecutor
  Tasks,       \* BaseTask objects
  Entries,     \* Entry objects; addTask takes an unused one
  Delays,      \* delayMs values a task may be given
  MaxTime,     \* bound: last value of the clock
  ExecutorCapacity, \* running plus queued tasks the executor accepts
  NoTask, NoEntry, NoBucket

\* Wheel 0 is the rootWheel; the overflowWheel of wheel w is wheel w + 1.
Wheels  == 0 .. (MaxWheels - 1)
Buckets == Wheels \X (0 .. (WheelSize - 1))

ASSUME TimerAssumption ==
  /\ ScaleMs \in Nat \ {0}
  /\ WheelSize \in Nat \ {0}
  /\ MaxWheels \in Nat \ {0}
  /\ StartMs \in Nat
  /\ Boss \notin Callers
  /\ Delays \subseteq Nat
  /\ MaxTime \in Nat
  /\ ExecutorCapacity \in Nat
  /\ NoTask \notin Tasks
  /\ NoEntry \notin Entries
  /\ NoBucket \notin Buckets

VARIABLES
  now,         \* System.currentTimeMillis()
  scaleMs,     \* TimingWheel.scaleMs of each wheel: milliseconds of its slots
  currentTime, \* TimingWheel.currentTime of each wheel
  wheels,      \* how many wheels exist: the overflow wheels are made lazily
  baseTask,    \* Entry.baseTask, NoTask for an Entry not yet constructed
  expireMs,    \* Entry.expireMs
  taskBucket,  \* Entry.taskBucket
  entry,       \* BaseTask.entry
  expiration,  \* TaskBucket.expiration
  queue,       \* how often each bucket is in the DelayQueue
  stale,       \* buckets whose expiration changed while they were queued
  polled,      \* the bucket the boss is working on
  started,     \* SystemTimer.started
  submitted,   \* times each entry's task was accepted by executor.submit
  backlog,     \* entries whose task the executor has not finished
  pc, tsk, ent, wheel, bkt   \* where each thread is, and its local variables

timerVars == <<scaleMs, currentTime, wheels, expiration, queue, stale, polled, started>>
taskVars  == <<baseTask, expireMs, taskBucket, entry>>
execVars  == <<submitted, backlog>>
locals    == <<tsk, ent, wheel, bkt>>
vars      == <<now, timerVars, taskVars, execVars, pc, locals>>

Threads == Callers \union {Boss}

CallerOnly == {"idle", "setEntry", "remove", "unlink"}
AddEntry   == {"cancelled", "expired", "place", "link", "setExpire", "offer",
               "recheck", "submit"}
BossOnly   == {"poll", "advance", "lock", "flush", "stopped", "dead"}

-----------------------------------------------------------------------------
(* Wheel arithmetic *)

\* The multiple of s at or below ms: timeMs - timeMs % scaleMs in the code, and
\* (expireMs / scaleMs) * scaleMs.
Floor(ms, s) == ms - (ms % s)

\* One turn of wheel w; one slot of wheel w + 1.
interval(w) == scaleMs[w] * WheelSize

\* Fault: the slot is not taken modulo the size of the wheel.
BucketOfUnwrapped(ms, w) == <<w, ms \div scaleMs[w]>>

\* buckets[(int) (virtualId % wheelSize)] of wheel w, virtualId = ms / scaleMs.
BucketOf(ms, w) == <<w, (ms \div scaleMs[w]) % WheelSize>>

TypeOK ==
  /\ now \in Nat
  /\ scaleMs \in [Wheels -> Nat \ {0}]
  /\ currentTime \in [Wheels -> Nat]
  /\ wheels \in 1 .. MaxWheels
  /\ baseTask \in [Entries -> Tasks \union {NoTask}]
  /\ expireMs \in [Entries -> Nat]
  /\ taskBucket \in [Entries -> Buckets \union {NoBucket}]
  /\ entry \in [Tasks -> Entries \union {NoEntry}]
  /\ expiration \in [Buckets -> Nat \union {-1}]
  /\ queue \in [Buckets -> Nat]
  /\ stale \in SUBSET Buckets
  /\ polled \in Buckets \union {NoBucket}
  /\ started \in BOOLEAN
  /\ submitted \in [Entries -> Nat]
  /\ backlog \in SUBSET Entries
  /\ pc \in [Threads -> CallerOnly \union AddEntry \union BossOnly]
  /\ tsk \in [Threads -> Tasks \union {NoTask}]
  /\ ent \in [Threads -> Entries \union {NoEntry}]
  /\ wheel \in [Threads -> Wheels]
  /\ bkt \in [Threads -> Buckets \union {NoBucket}]

Init ==
  /\ now = StartMs
  /\ scaleMs = [w \in Wheels |-> ScaleMs]
  /\ currentTime = [w \in Wheels |-> Floor(StartMs, ScaleMs)]
  /\ wheels = 1
  /\ baseTask = [e \in Entries |-> NoTask]
  /\ expireMs = [e \in Entries |-> 0]
  /\ taskBucket = [e \in Entries |-> NoBucket]
  /\ entry = [t \in Tasks |-> NoEntry]
  /\ expiration = [b \in Buckets |-> -1]
  /\ queue = [b \in Buckets |-> 0]
  /\ stale = {}
  /\ polled = NoBucket
  /\ started = TRUE
  /\ submitted = [e \in Entries |-> 0]
  /\ backlog = {}
  /\ pc = [th \in Threads |-> IF th = Boss THEN "poll" ELSE "idle"]
  /\ tsk = [th \in Threads |-> NoTask]
  /\ ent = [th \in Threads |-> NoEntry]
  /\ wheel = [th \in Threads |-> 0]
  /\ bkt = [th \in Threads |-> NoBucket]

-----------------------------------------------------------------------------
(* Monitors and thread control *)

At(th, label)   == pc[th] = label
Goto(th, label) == pc' = [pc EXCEPT ![th] = label]

\* A caller inside cancel() or setEntry() holds the task's monitor.
TaskLocked(t) == \E c \in Callers : pc[c] \in {"remove", "unlink"} /\ tsk[c] = t

\* The boss inside flush() holds the monitor of the bucket it polled.
FlushLocked(b) == polled = b /\ pc[Boss] \in {"flush"} \union AddEntry

\* th may run a synchronized method of b: monitors are reentrant.
MayEnter(th, b) == th = Boss \/ ~FlushLocked(b)

\* Entry.cancelled(): baseTask.getEntry() != this, getEntry() synchronized.
cancelled(e) == entry[baseTask[e]] # e
MayGetEntry(e) == ~TaskLocked(baseTask[e])

\* Where a thread goes when addEntry returns.
AfterAdd(th) == IF th = Boss THEN "flush" ELSE "idle"

-----------------------------------------------------------------------------
(* Callers: new Entry(task, delay + now), BaseTask.setEntry, cancel *)

AddTask(c, t, d) ==
  /\ At(c, "idle")
  /\ \E e \in Entries :
       /\ baseTask[e] = NoTask
       /\ \A f \in Entries : baseTask[f] = NoTask => e <= f
       /\ baseTask' = [baseTask EXCEPT ![e] = t]
       /\ expireMs' = [expireMs EXCEPT ![e] = now + d]
       /\ ent' = [ent EXCEPT ![c] = e]
  /\ tsk' = [tsk EXCEPT ![c] = t]
  /\ Goto(c, "setEntry")
  /\ UNCHANGED <<now, timerVars, taskBucket, entry, execVars, wheel, bkt>>

\* synchronized setEntry: enter, then remove the old entry or just assign.
SetEntry(c) ==
  /\ At(c, "setEntry")
  /\ ~TaskLocked(tsk[c])
  /\ IF entry[tsk[c]] = NoEntry
     THEN /\ entry' = [entry EXCEPT ![tsk[c]] = ent[c]]
          /\ wheel' = [wheel EXCEPT ![c] = 0]
          /\ Goto(c, "cancelled")
     ELSE /\ Goto(c, "remove")
          /\ UNCHANGED <<entry, wheel>>
  /\ UNCHANGED <<now, timerVars, baseTask, expireMs, taskBucket, execVars,
                 tsk, ent, bkt>>

Cancel(c, t) ==
  /\ At(c, "idle")
  /\ ~TaskLocked(t)
  /\ entry[t] # NoEntry
  /\ tsk' = [tsk EXCEPT ![c] = t]
  /\ ent' = [ent EXCEPT ![c] = NoEntry]
  /\ Goto(c, "remove")
  /\ UNCHANGED <<now, timerVars, taskVars, execVars, wheel, bkt>>

\* The loop of Entry.remove(): read taskBucket; when it is null, the caller
\* of remove() assigns BaseTask.entry and leaves the task's monitor.
ReadTaskBucket(c) ==
  LET t == tsk[c] IN
  /\ At(c, "remove")
  /\ bkt' = [bkt EXCEPT ![c] = taskBucket[entry[t]]]
  /\ IF taskBucket[entry[t]] # NoBucket
     THEN /\ Goto(c, "unlink")
          /\ UNCHANGED <<entry, wheel>>
     ELSE /\ entry' = [entry EXCEPT ![t] = ent[c]]
          /\ wheel' = [wheel EXCEPT ![c] = 0]
          /\ Goto(c, IF ent[c] = NoEntry THEN "idle" ELSE "cancelled")
  /\ UNCHANGED <<now, timerVars, baseTask, expireMs, taskBucket, execVars,
                 tsk, ent>>

\* TaskBucket.remove(entry), under the bucket's monitor.
Unlink(c) ==
  LET e == entry[tsk[c]] IN
  /\ At(c, "unlink")
  /\ MayEnter(c, bkt[c])
  /\ taskBucket' = IF taskBucket[e] = bkt[c]
                   THEN [taskBucket EXCEPT ![e] = NoBucket]
                   ELSE taskBucket
  /\ Goto(c, "remove")
  /\ UNCHANGED <<now, timerVars, baseTask, expireMs, entry, execVars, locals>>

-----------------------------------------------------------------------------
(* addEntry and TimingWheel.add, run by a caller or by the boss *)

CheckCancelled(th) ==
  /\ At(th, "cancelled")
  /\ MayGetEntry(ent[th])
  /\ Goto(th, IF cancelled(ent[th]) THEN "recheck" ELSE "expired")
  /\ UNCHANGED <<now, timerVars, taskVars, execVars, locals>>

\* Fault: an entry of the slot the wheel is in counts as not yet expired.
CheckExpiredNoSlot(th) ==
  /\ At(th, "expired")
  /\ Goto(th, IF expireMs[ent[th]] < currentTime[wheel[th]] THEN "recheck" ELSE "place")
  /\ UNCHANGED <<now, timerVars, taskVars, execVars, locals>>

CheckExpired(th) ==
  LET w == wheel[th] IN
  /\ At(th, "expired")
  /\ Goto(th, IF expireMs[ent[th]] < currentTime[w] + scaleMs[w]
              THEN "recheck" ELSE "place")
  /\ UNCHANGED <<now, timerVars, taskVars, execVars, locals>>

\* Fault: an overflow wheel is made, but the entry is not added to it.
PlaceMakeOnly(th) ==
  LET w == wheel[th]
      e == ent[th]
  IN
  /\ At(th, "place")
  /\ \/ /\ expireMs[e] < currentTime[w] + interval(w)
        /\ bkt' = [bkt EXCEPT ![th] = BucketOf(expireMs[e], w)]
        /\ Goto(th, "link")
        /\ UNCHANGED <<scaleMs, currentTime, wheels, wheel>>
     \/ /\ expireMs[e] >= currentTime[w] + interval(w)
        /\ w + 1 \in Wheels
        /\ IF wheels = w + 1
           THEN /\ wheels' = w + 2
                /\ scaleMs' = [scaleMs EXCEPT ![w + 1] = interval(w)]
                /\ currentTime' = [currentTime EXCEPT
                                     ![w + 1] = Floor(currentTime[w], interval(w))]
                /\ Goto(th, AfterAdd(th))
                /\ UNCHANGED wheel
           ELSE /\ wheel' = [wheel EXCEPT ![th] = w + 1]
                /\ Goto(th, "cancelled")
                /\ UNCHANGED <<scaleMs, currentTime, wheels>>
        /\ UNCHANGED bkt
  /\ UNCHANGED <<now, expiration, queue, stale, polled, started, taskVars,
                 execVars, tsk, ent>>

\* Choose the bucket in this wheel, or go on to the overflow wheel, made here
\* when it is missing.
Place(th) ==
  LET w == wheel[th]
      e == ent[th]
  IN
  /\ At(th, "place")
  /\ \/ /\ expireMs[e] < currentTime[w] + interval(w)
        /\ bkt' = [bkt EXCEPT ![th] = BucketOf(expireMs[e], w)]
        /\ Goto(th, "link")
        /\ UNCHANGED <<scaleMs, currentTime, wheels, wheel>>
     \/ /\ expireMs[e] >= currentTime[w] + interval(w)
        /\ w + 1 \in Wheels
        /\ wheel' = [wheel EXCEPT ![th] = w + 1]
        /\ IF wheels = w + 1
           THEN /\ wheels' = w + 2
                /\ scaleMs' = [scaleMs EXCEPT ![w + 1] = interval(w)]
                /\ currentTime' = [currentTime EXCEPT
                                     ![w + 1] = Floor(currentTime[w], interval(w))]
           ELSE UNCHANGED <<scaleMs, currentTime, wheels>>
        /\ Goto(th, "cancelled")
        /\ UNCHANGED bkt
  /\ UNCHANGED <<now, expiration, queue, stale, polled, started, taskVars,
                 execVars, tsk, ent>>

\* TaskBucket.add.  Its entry.remove() and the retry when the entry is linked
\* elsewhere find nothing to do (LinkFindsUnlinked).
Link(th) ==
  /\ At(th, "link")
  /\ MayEnter(th, bkt[th])
  /\ taskBucket' = [taskBucket EXCEPT ![ent[th]] = bkt[th]]
  /\ Goto(th, "setExpire")
  /\ UNCHANGED <<now, timerVars, baseTask, expireMs, entry, execVars, locals>>

\* Fault: add answers setExpire && offer, so false when the bucket is queued.
SetExpireAsAnswer(th) ==
  LET b == bkt[th]
      v == Floor(expireMs[ent[th]], scaleMs[wheel[th]])
  IN
  /\ At(th, "setExpire")
  /\ expiration' = [expiration EXCEPT ![b] = v]
  /\ Goto(th, IF expiration[b] = v THEN "recheck" ELSE "offer")
  /\ UNCHANGED <<now, scaleMs, currentTime, wheels, queue, stale, polled, started,
                 taskVars, execVars, locals>>

\* Fault: the expiration of any bucket is counted in slots of the root wheel.
SetExpireRootScale(th) ==
  LET b == bkt[th]
      v == Floor(expireMs[ent[th]], scaleMs[0])
  IN
  /\ At(th, "setExpire")
  /\ expiration' = [expiration EXCEPT ![b] = v]
  /\ IF expiration[b] = v
     THEN Goto(th, AfterAdd(th)) /\ UNCHANGED stale
     ELSE /\ Goto(th, "offer")
          /\ stale' = IF queue[b] > 0 THEN stale \union {b} ELSE stale
  /\ UNCHANGED <<now, scaleMs, currentTime, wheels, queue, polled, started, taskVars,
                 execVars, locals>>

\* expiration.getAndSet(virtualId * scaleMs) != virtualId * scaleMs
SetExpire(th) ==
  LET b == bkt[th]
      v == Floor(expireMs[ent[th]], scaleMs[wheel[th]])
  IN
  /\ At(th, "setExpire")
  /\ expiration' = [expiration EXCEPT ![b] = v]
  /\ IF expiration[b] = v
     THEN Goto(th, AfterAdd(th)) /\ UNCHANGED stale
     ELSE /\ Goto(th, "offer")
          /\ stale' = IF queue[b] > 0 THEN stale \union {b} ELSE stale
  /\ UNCHANGED <<now, scaleMs, currentTime, wheels, queue, polled, started, taskVars,
                 execVars, locals>>

Offer(th) ==
  /\ At(th, "offer")
  /\ queue' = [queue EXCEPT ![bkt[th]] = @ + 1]
  /\ Goto(th, AfterAdd(th))
  /\ UNCHANGED <<now, scaleMs, currentTime, wheels, expiration, stale, polled, started,
                 taskVars, execVars, locals>>

\* Fault: cancelled() is not asked again before the task is handed over.
RecheckNothing(th) ==
  /\ At(th, "recheck")
  /\ Goto(th, "submit")
  /\ UNCHANGED <<now, timerVars, taskVars, execVars, locals>>

\* rootWheel.add returned false: submit unless the entry is cancelled.
Recheck(th) ==
  /\ At(th, "recheck")
  /\ MayGetEntry(ent[th])
  /\ Goto(th, IF cancelled(ent[th]) THEN AfterAdd(th) ELSE "submit")
  /\ UNCHANGED <<now, timerVars, taskVars, execVars, locals>>

MayAccept == started /\ Cardinality(backlog) < ExecutorCapacity

Submit(th) ==
  /\ At(th, "submit")
  /\ MayAccept
  /\ submitted' = [submitted EXCEPT ![ent[th]] = @ + 1]
  /\ backlog' = backlog \union {ent[th]}
  /\ Goto(th, AfterAdd(th))
  /\ UNCHANGED <<now, timerVars, taskVars, locals>>

\* RejectedExecutionException: a caller gets it from addTask; on the boss it
\* leaves flush() (the finally-free block keeps expiration) and ends the loop.
Rejected(th) ==
  /\ At(th, "submit")
  /\ ~MayAccept
  /\ Goto(th, IF th = Boss THEN "dead" ELSE "idle")
  /\ polled' = IF th = Boss THEN NoBucket ELSE polled
  /\ UNCHANGED <<now, scaleMs, currentTime, wheels, expiration, queue, stale, started,
                 taskVars, execVars, locals>>

-----------------------------------------------------------------------------
(* The boss: SystemTimer.advanceClock *)

\* A due bucket the DelayQueue may hand out: the least one while the heap is
\* in order, any due one after an expiration changed inside the heap.
Due(b) ==
  /\ queue[b] > 0
  /\ expiration[b] <= now
  /\ stale = {} => \A o \in Buckets : queue[o] > 0 => expiration[b] <= expiration[o]

Poll(b) ==
  /\ At(Boss, "poll")
  /\ Due(b)
  /\ queue' = [queue EXCEPT ![b] = @ - 1]
  /\ stale' = IF queue[b] = 1 THEN stale \ {b} ELSE stale
  /\ polled' = b
  /\ wheel' = [wheel EXCEPT ![Boss] = 0]
  /\ Goto(Boss, "advance")
  /\ UNCHANGED <<now, scaleMs, currentTime, wheels, expiration, started, taskVars,
                 execVars, tsk, ent, bkt>>

\* poll found nothing due and the loop's condition is false.
Stop ==
  /\ At(Boss, "poll")
  /\ ~started
  /\ \A b \in Buckets : ~Due(b)
  /\ Goto(Boss, "stopped")
  /\ UNCHANGED <<now, timerVars, taskVars, execVars, locals>>

\* Fault: the overflow wheel is not told of the new time.
AdvanceClockRootOnly ==
  LET timeMs == expiration[polled] IN
  /\ At(Boss, "advance")
  /\ currentTime' = IF timeMs >= currentTime[0] + scaleMs[0]
                    THEN [currentTime EXCEPT ![0] = Floor(timeMs, scaleMs[0])]
                    ELSE currentTime
  /\ Goto(Boss, "lock")
  /\ UNCHANGED <<now, scaleMs, wheels, expiration, queue, stale, polled, started,
                 taskVars, execVars, locals>>

\* Fault: > for >=, the wheel does not move on to the very next slot.
AdvanceClockLate ==
  LET timeMs == expiration[polled] IN
  /\ At(Boss, "advance")
  /\ currentTime' = IF timeMs > currentTime[0] + scaleMs[0]
                    THEN [currentTime EXCEPT ![0] = Floor(timeMs, scaleMs[0])]
                    ELSE currentTime
  /\ Goto(Boss, "lock")
  /\ UNCHANGED <<now, scaleMs, wheels, expiration, queue, stale, polled, started,
                 taskVars, execVars, locals>>

\* TimingWheel.advanceClock, one wheel a step.  The root wheel is given the
\* expiration read now; an overflow wheel the new time of the wheel below.
AdvanceClock ==
  LET w == wheel[Boss]
      timeMs == IF w = 0 THEN expiration[polled] ELSE currentTime[w - 1]
      moves == timeMs >= currentTime[w] + scaleMs[w]
  IN
  /\ At(Boss, "advance")
  /\ currentTime' = IF moves
                    THEN [currentTime EXCEPT ![w] = Floor(timeMs, scaleMs[w])]
                    ELSE currentTime
  /\ IF moves /\ w + 1 < wheels
     THEN wheel' = [wheel EXCEPT ![Boss] = w + 1] /\ UNCHANGED pc
     ELSE Goto(Boss, "lock") /\ UNCHANGED wheel
  /\ UNCHANGED <<now, scaleMs, wheels, expiration, queue, stale, polled, started,
                 taskVars, execVars, tsk, ent, bkt>>

\* flush enters the bucket's monitor; no caller holds one between two steps.
BeginFlush ==
  /\ At(Boss, "lock")
  /\ Goto(Boss, "flush")
  /\ UNCHANGED <<now, timerVars, taskVars, execVars, locals>>

\* Fault: flush hands over an entry it has not removed from the list.
FlushEntryLinked(e) ==
  /\ At(Boss, "flush")
  /\ taskBucket[e] = polled
  /\ ent' = [ent EXCEPT ![Boss] = e]
  /\ wheel' = [wheel EXCEPT ![Boss] = 0]
  /\ Goto(Boss, "cancelled")
  /\ UNCHANGED <<now, timerVars, taskVars, execVars, tsk, bkt>>

\* Fault: a due entry is submitted without going down through the wheels.
FlushEntryNoCascade(e) ==
  /\ At(Boss, "flush")
  /\ taskBucket[e] = polled
  /\ taskBucket' = [taskBucket EXCEPT ![e] = NoBucket]
  /\ ent' = [ent EXCEPT ![Boss] = e]
  /\ Goto(Boss, "recheck")
  /\ UNCHANGED <<now, timerVars, baseTask, expireMs, entry, execVars, tsk, wheel, bkt>>

\* remove(head); consumer.accept(head)
FlushEntry(e) ==
  /\ At(Boss, "flush")
  /\ taskBucket[e] = polled
  /\ taskBucket' = [taskBucket EXCEPT ![e] = NoBucket]
  /\ ent' = [ent EXCEPT ![Boss] = e]
  /\ wheel' = [wheel EXCEPT ![Boss] = 0]
  /\ Goto(Boss, "cancelled")
  /\ UNCHANGED <<now, timerVars, baseTask, expireMs, entry, execVars, tsk, bkt>>

\* Fault: the expiration of the emptied bucket is not reset.
EndFlushKeepExpiration ==
  /\ At(Boss, "flush")
  /\ \A e \in Entries : taskBucket[e] # polled
  /\ polled' = NoBucket
  /\ Goto(Boss, "poll")
  /\ UNCHANGED <<now, scaleMs, currentTime, wheels, expiration, queue, stale, started,
                 taskVars, execVars, locals>>

EndFlush ==
  /\ At(Boss, "flush")
  /\ \A e \in Entries : taskBucket[e] # polled
  /\ expiration' = [expiration EXCEPT ![polled] = -1]
  /\ stale' = IF queue[polled] > 0 THEN stale \union {polled} ELSE stale
  /\ polled' = NoBucket
  /\ Goto(Boss, "poll")
  /\ UNCHANGED <<now, scaleMs, currentTime, wheels, queue, started, taskVars, execVars,
                 locals>>

-----------------------------------------------------------------------------
(* Clock, executor and shutdown *)

Tick ==
  /\ now < MaxTime
  /\ now' = now + 1
  /\ UNCHANGED <<timerVars, taskVars, execVars, pc, locals>>

Work(e) ==
  /\ e \in backlog
  /\ backlog' = backlog \ {e}
  /\ UNCHANGED <<now, timerVars, taskVars, submitted, pc, locals>>

Shutdown ==
  /\ started
  /\ started' = FALSE
  /\ UNCHANGED <<now, scaleMs, currentTime, wheels, expiration, queue, stale, polled,
                 taskVars, execVars, pc, locals>>

-----------------------------------------------------------------------------
AddEntryStep(th) ==
  \/ CheckCancelled(th) \/ CheckExpired(th) \/ Place(th) \/ Link(th)
  \/ SetExpire(th) \/ Offer(th) \/ Recheck(th) \/ Submit(th) \/ Rejected(th)

CallerStep(c) ==
  \/ SetEntry(c) \/ ReadTaskBucket(c) \/ Unlink(c) \/ AddEntryStep(c)

BossStep ==
  \/ \E b \in Buckets : Poll(b)
  \/ Stop
  \/ AdvanceClock
  \/ BeginFlush
  \/ \E e \in Entries : FlushEntry(e)
  \/ EndFlush
  \/ AddEntryStep(Boss)

Begin(c) == \E t \in Tasks : Cancel(c, t) \/ \E d \in Delays : AddTask(c, t, d)

Environment == Tick \/ Shutdown \/ \E e \in Entries : Work(e)

Next ==
  \/ \E c \in Callers : Begin(c) \/ CallerStep(c)
  \/ BossStep
  \/ Environment

Spec == Init /\ [][Next]_vars

(***************************************************************************)
(* The same timer when its operations do not overlap: a thread moves only  *)
(* while every other thread is between operations.  It is how the comments *)
(* of the code read, and what the documented claims need.                  *)
(***************************************************************************)
AtRest(th) == pc[th] \in {"idle", "poll", "stopped", "dead"}
Alone(th)  == \A o \in Threads \ {th} : AtRest(o)

SerialNext ==
  \/ \E c \in Callers : Alone(c) /\ (Begin(c) \/ CallerStep(c))
  \/ Alone(Boss) /\ BossStep
  \/ Environment

\* Threads are scheduled, the clock runs; nobody has to call the timer.
Fairness ==
  /\ WF_vars(Tick)
  /\ WF_vars(Alone(Boss) /\ BossStep)
  /\ \A c \in Callers : WF_vars(Alone(c) /\ CallerStep(c))
  /\ \A e \in Entries : WF_vars(Work(e))

SerialSpec == Init /\ [][SerialNext]_vars /\ Fairness
-----------------------------------------------------------------------------
(* Properties *)

\* th is between the construction of e and the end of addEntry(e), before e is
\* linked or its task handed over.
Handling(th, e) ==
  /\ ent[th] = e
  /\ pc[th] \in {"setEntry", "remove", "unlink", "cancelled", "expired", "place",
                 "link", "recheck", "submit"}

Linked(e) == taskBucket[e] # NoBucket

\* An entry is in one place at a time: in the hands of one thread, in one
\* bucket, or handed to the executor.  So the boss's re-adding of a flushed
\* bucket never gives a task to the executor twice (SystemTimer.addEntry).
AtMostOnce ==
  \A e \in Entries :
    /\ submitted[e] <= 1
    /\ submitted[e] = 1 => ~Linked(e)
    /\ \A th \in Threads : Handling(th, e) =>
         /\ submitted[e] = 0 /\ ~Linked(e)
         /\ \A o \in Threads \ {th} : ~Handling(o, e)

\* No wake-up is lost: while the boss lives, a bucket holding an entry is in the
\* delay queue, in the hands of the boss, or about to be offered.  setExpire
\* decides whether to offer outside the bucket's monitor, so an adder, another
\* adder and a flush that resets the expiration may meet in any order.
NoLostEntry ==
  ~At(Boss, "dead") =>
    \A e \in Entries : Linked(e) =>
      \/ queue[taskBucket[e]] > 0
      \/ polled = taskBucket[e]
      \/ \E th \in Threads : /\ pc[th] \in {"setExpire", "offer"}
                           /\ bkt[th] = taskBucket[e]

\* A cancelled entry (or one its task has replaced) that no thread is already
\* handing over stays so: its task is never run for it, whatever adds, flushes
\* and cancels overlap (BaseTask.cancel, Entry.cancelled).
Doomed(e) ==
  /\ baseTask[e] # NoTask
  /\ entry[baseTask[e]] # e
  /\ \A th \in Threads : ~(ent[th] = e /\ pc[th] \in {"setEntry", "remove", "unlink", "submit"})

CancelIsFinal ==
  [][\A e \in Entries : Doomed(e) => Doomed(e)' /\ submitted'[e] = submitted[e]]_vars

\* TaskBucket.add finds its entry in no list, so its remove-and-retry loop runs
\* once and never waits for the monitor of another bucket.
LinkFindsUnlinked ==
  \A th \in Threads : At(th, "link") => ~Linked(ent[th])

\* All the tasks of a bucket share its expiration (the comments of
\* TimingWheel.add and TaskBucket.expiration).  It holds while operations do not
\* overlap; the bucket being flushed and one whose expiration is about to be set
\* are not compared.
SameExpiration ==
  \A e \in Entries : Linked(e) =>
    LET b == taskBucket[e]
        v == Floor(expireMs[e], scaleMs[b[1]])
    IN \/ FlushLocked(b)
       \/ \E th \in Threads : At(th, "setExpire") /\ bkt[th] = b
       \/ expiration[b] = v

\* A task is handed over less than one slot of the root wheel before its time,
\* through however many wheels it came down.
NotEarly ==
  [][\A e \in Entries : submitted'[e] > submitted[e] => now + ScaleMs > expireMs[e]]_vars

\* No two threads wait for each other's monitors: a caller inside cancel or
\* setEntry, which holds its task's monitor, is not at the monitor of the bucket
\* being flushed while the boss, which holds that one, is at the task's (the
\* comment of TaskBucket.add: done outside, to prevent deadlock).
NoMonitorCycle ==
  \A c \in Callers :
    ~ /\ At(c, "unlink")
      /\ FlushLocked(bkt[c])
      /\ pc[Boss] \in {"cancelled", "recheck"}
      /\ baseTask[ent[Boss]] = tsk[c]

\* The wheels agree on the time: each overflow wheel stands at the start of the
\* slot the wheel below is turning in, and no wheel is ahead of the clock.  (The
\* boss sets the wheels one by one, so it is compared between its steps.)
WheelsAgree ==
  pc[Boss] # "advance" =>
    /\ currentTime[0] <= now
    /\ \A w \in Wheels : w > 0 /\ w < wheels =>
         currentTime[w] = Floor(currentTime[w - 1], scaleMs[w])

\* While operations do not overlap a flush ends: the boss never puts an entry
\* back into the bucket it is emptying, which would keep it there for ever.
NoReinsertion ==
  At(Boss, "link") => bkt[Boss] # polled

\* Every entry linked in a wheel leaves it: its task is handed to the executor,
\* or it was cancelled, or the timer was shut down or its boss died.  (Of the
\* entries that come due before the model's clock stops.)
EntryServed ==
  \A e \in Entries :
    (Linked(e) /\ expireMs[e] <= MaxTime)
              ~> \/ submitted[e] = 1
                 \/ \A t \in Tasks : entry[t] # e
                 \/ ~started
                 \/ At(Boss, "dead")

-----------------------------------------------------------------------------
(* What the timer promises *)

\* Where e stands for a caller, read off the places it can be in.
Unborn(e) ==
  \/ baseTask[e] = NoTask
  \/ \E c \in Callers : ent[c] = e /\ pc[c] \in {"setEntry", "remove", "unlink"}

Committed(e) == \E th \in Threads : ent[th] = e /\ At(th, "submit")
Pending(e)   == Linked(e) \/ \E th \in Threads : Handling(th, e)

StatusOf(e) ==
  IF Unborn(e) THEN "new"
  ELSE IF submitted[e] > 0 THEN "submitted"
  ELSE IF Committed(e) THEN "committed"
  ELSE IF Pending(e) THEN "pending"
  ELSE "gone"

\* e is not its task's entry, or a caller is removing it from its task.
Withdrawn(e) == ~Unborn(e) /\ (entry[baseTask[e]] # e \/ TaskLocked(baseTask[e]))

Promise == INSTANCE TimerPromise
             WITH status <- [e \in Entries |-> StatusOf(e)],
                  withdrawn <- {e \in Entries : Withdrawn(e)}

\* The timer implements TimerPromise, however its threads interleave: a task is
\* given up only if it was withdrawn or the executor refused it, and handed over
\* only if it was not withdrawn at the last look.
KeepsPromise == Promise!Spec
=============================================================================
