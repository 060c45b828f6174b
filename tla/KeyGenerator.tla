----------------------------- MODULE KeyGenerator -----------------------------
(***************************************************************************)
(* DefaultKeyGenerator: 64-bit keys made of the time in milliseconds, the  *)
(* worker id of the machine and a sequence number within the millisecond.  *)
(*                                                                         *)
(* generateKey is synchronized, so within a JVM one call runs at a time;   *)
(* the machines run side by side, each with a clock of its own that may be *)
(* set back, and a JVM may restart and lose lastTime and sequence.         *)
(***************************************************************************)
EXTENDS Integers

CONSTANTS
  Nodes,         \* machines
  workId,        \* worker id of each machine (Workspace.IP)
  WorkerIds,     \* how many worker ids the key has room for
  SEQUENCE_MASK, \* greatest sequence number
  MaxTime        \* bound: last value of a clock

ASSUME NodesAssumption ==
  /\ WorkerIds \in Nat \ {0}
  /\ SEQUENCE_MASK \in Nat
  /\ MaxTime \in Nat
  /\ workId \in [Nodes -> 0 .. (WorkerIds - 1)]

\* What Workspace asks of the machines: the last ten bits of their addresses
\* differ.
ASSUME DistinctWorkers ==
  \A n, m \in Nodes : workId[n] = workId[m] => n = m

VARIABLES
  clock,     \* System.currentTimeMillis() of each machine
  lastTime,  \* time of the last key
  sequence,  \* sequence number of the last key
  waiting,   \* the machine is inside waitUntilNextTime
  issued,    \* <<time, sequence>> of every key each machine has returned
  lastKey,   \* the last key each machine has returned, -1 before the first
  repeated   \* keys returned more than once

vars == <<clock, lastTime, sequence, waiting, issued, lastKey, repeated>>

\* ((time - EPOCH) << 22) | (workId << 12) | sequence; times count from EPOCH
\* and the fields do not overlap.
Key(n, time, seq) ==
  (time * WorkerIds + workId[n]) * (SEQUENCE_MASK + 1) + seq

TypeOK ==
  /\ clock \in [Nodes -> Nat \ {0}]
  /\ lastTime \in [Nodes -> Nat]
  /\ sequence \in [Nodes -> 0 .. SEQUENCE_MASK]
  /\ waiting \in [Nodes -> BOOLEAN]
  /\ issued \in [Nodes -> SUBSET (Nat \X (0 .. SEQUENCE_MASK))]
  /\ lastKey \in [Nodes -> Nat \union {-1}]
  /\ repeated \in SUBSET Nat

Init ==
  /\ clock = [n \in Nodes |-> 1]
  /\ lastTime = [n \in Nodes |-> 0]
  /\ sequence = [n \in Nodes |-> 0]
  /\ waiting = [n \in Nodes |-> FALSE]
  /\ issued = [n \in Nodes |-> {}]
  /\ lastKey = [n \in Nodes |-> -1]
  /\ repeated = {}

Issued(k) == \E m \in Nodes : \E r \in issued[m] : Key(m, r[1], r[2]) = k

\* generateKey returns, remembering the time and the sequence number.
Return(n, time, seq) ==
  LET k == Key(n, time, seq) IN
  /\ lastTime' = [lastTime EXCEPT ![n] = time]
  /\ sequence' = [sequence EXCEPT ![n] = seq]
  /\ issued' = [issued EXCEPT ![n] = @ \union {<<time, seq>>}]
  /\ lastKey' = [lastKey EXCEPT ![n] = k]
  /\ repeated' = IF Issued(k) THEN repeated \union {k} ELSE repeated

\* Fault: a clock behind lastTime counts as a new millisecond.
FirstOfMillisecondUnchecked(n) ==
  /\ ~waiting[n]
  /\ lastTime[n] # clock[n]
  /\ Return(n, clock[n], 0)
  /\ UNCHANGED <<clock, waiting>>

\* generateKey in a new millisecond.  A clock behind lastTime fails the check
\* and changes nothing.
FirstOfMillisecond(n) ==
  /\ ~waiting[n]
  /\ lastTime[n] < clock[n]
  /\ Return(n, clock[n], 0)
  /\ UNCHANGED <<clock, waiting>>

\* Fault: the sequence number is not masked.
SameMillisecondUnmasked(n) ==
  /\ ~waiting[n]
  /\ lastTime[n] = clock[n]
  /\ Return(n, clock[n], sequence[n] + 1)
  /\ UNCHANGED <<clock, waiting>>

\* generateKey again in the same millisecond.
SameMillisecond(n) ==
  /\ ~waiting[n]
  /\ lastTime[n] = clock[n]
  /\ sequence[n] < SEQUENCE_MASK
  /\ Return(n, clock[n], sequence[n] + 1)
  /\ UNCHANGED <<clock, waiting>>

\* The sequence number is used up: it wraps to 0, waitUntilNextTime spins ...
Overflow(n) ==
  /\ ~waiting[n]
  /\ lastTime[n] = clock[n]
  /\ sequence[n] = SEQUENCE_MASK
  /\ sequence' = [sequence EXCEPT ![n] = 0]
  /\ waiting' = [waiting EXCEPT ![n] = TRUE]
  /\ UNCHANGED <<clock, lastTime, issued, lastKey, repeated>>

\* Fault: < for <=, it does not wait for the millisecond to pass.
WaitUntilSameTime(n) ==
  /\ waiting[n]
  /\ clock[n] >= lastTime[n]
  /\ waiting' = [waiting EXCEPT ![n] = FALSE]
  /\ Return(n, clock[n], 0)
  /\ UNCHANGED clock

\* ... until the clock has passed the millisecond.
WaitUntilNextTime(n) ==
  /\ waiting[n]
  /\ clock[n] > lastTime[n]
  /\ waiting' = [waiting EXCEPT ![n] = FALSE]
  /\ Return(n, clock[n], 0)
  /\ UNCHANGED clock

generateKey(n) ==
  FirstOfMillisecond(n) \/ SameMillisecond(n) \/ Overflow(n) \/ WaitUntilNextTime(n)

Tick(n) ==
  /\ clock[n] < MaxTime
  /\ clock' = [clock EXCEPT ![n] = @ + 1]
  /\ UNCHANGED <<lastTime, sequence, waiting, issued, lastKey, repeated>>

\* Times of keys this machine has returned, from whichever run of the JVM.
Past(n, time) == \A r \in issued[n] : r[1] < time

\* The clock is set back.  The generator notices while it remembers lastTime.
SetBack(n, time) ==
  /\ lastTime[n] # 0 \/ Past(n, time)
  /\ clock' = [clock EXCEPT ![n] = time]
  /\ UNCHANGED <<lastTime, sequence, waiting, issued, lastKey, repeated>>

\* The JVM restarts: nothing of the generator is kept.  The operators see to it
\* that the clock is then later than in the run before.
Restart(n) ==
  /\ Past(n, clock[n])
  /\ lastTime' = [lastTime EXCEPT ![n] = 0]
  /\ sequence' = [sequence EXCEPT ![n] = 0]
  /\ waiting' = [waiting EXCEPT ![n] = FALSE]
  /\ UNCHANGED <<clock, issued, lastKey, repeated>>

Next ==
  \E n \in Nodes :
    \/ generateKey(n)
    \/ Tick(n)
    \/ \E time \in 1 .. (clock[n] - 1) : SetBack(n, time)
    \/ Restart(n)

Spec == Init /\ [][Next]_vars

-----------------------------------------------------------------------------
(* Properties *)

\* No key is ever returned twice, on one machine or on two, through bursts that
\* use up a millisecond, clocks set back and restarts.
UniqueKeys == repeated = {}

\* The keys of one machine only grow, in the order generateKey returned them,
\* across restarts too.
KeysGrow == [][\A n \in Nodes : lastKey'[n] # lastKey[n] => lastKey'[n] > lastKey[n]]_vars
=============================================================================
