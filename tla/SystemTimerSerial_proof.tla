---------------------- MODULE SystemTimerSerial_proof -----------------------
(***************************************************************************)
(* Proofs about SystemTimer when its operations do not overlap             *)
(* (SerialSpec): the wheels agree, a bucket stands for one slot, a flush   *)
(* ends, and no task runs early.                                           *)
(*                                                                         *)
(* What makes the four hold together is that an expiration which is set    *)
(* lies in the turn its wheel is in: then an index names one slot, so an   *)
(* addEntry never changes an expiration that is set, the delay queue stays *)
(* in order, and the boss takes the least expiration there is, so that     *)
(* advancing the wheels leaves no bucket behind.                           *)
(***************************************************************************)
EXTENDS SystemTimer_proof

-----------------------------------------------------------------------------
(* Rounding down to slots *)

\* Rounding down to a multiple of s: the multiple, and how far below x it is.
LEMMA FloorDiv ==
  ASSUME NEW x \in Nat, NEW s \in Nat \ {0}
  PROVE  /\ x \div s \in Nat
         /\ Floor(x, s) = s * (x \div s)
         /\ Floor(x, s) <= x /\ x < Floor(x, s) + s
         /\ Floor(x, s) \in Nat
         /\ Floor(x, s) % s = 0
<1> DEFINE q == x \div s
           r == x - s * q
<1>1. q \in Nat /\ s * q \in Nat /\ s * q <= x /\ x < s * q + s
  OBVIOUS
<1>2. r \in 0 .. (s - 1) /\ x = s * q + r
  BY <1>1
<1>3. \A p \in Nat, t \in 0 .. (s - 1) : (s * p + t) % s = t /\ (s * p) % s = 0
  OBVIOUS
<1>4. x % s = r
  <2> HIDE DEF q, r
  <2> QED
    BY <1>1, <1>2, <1>3
<1> QED
  BY <1>1, <1>3, <1>4 DEF Floor

\* A multiple of s is s times its quotient.
LEMMA MultipleIs ==
  ASSUME NEW x \in Nat, NEW s \in Nat \ {0}, x % s = 0
  PROVE  x = s * (x \div s) /\ x \div s \in Nat
OBVIOUS

\* The multiple of s less than s below x is the one rounding finds.
LEMMA FloorUnique ==
  ASSUME NEW m \in Nat, NEW x \in Nat, NEW s \in Nat \ {0},
         m % s = 0, m <= x, x < m + s
  PROVE  Floor(x, s) = m
<1>1. PICK k \in Nat : m = s * k
  BY MultipleIs
<1>2. x - m \in 0 .. (s - 1) /\ x = s * k + (x - m)
  BY <1>1
<1>3. \A p \in Nat, t \in 0 .. (s - 1) : (s * p + t) % s = t
  OBVIOUS
<1>4. x % s = x - m
  BY <1>2, <1>3
<1> QED
  BY <1>4 DEF Floor

\* Rounding leaves a multiple as it is.
LEMMA FloorSelf ==
  ASSUME NEW x \in Nat, NEW s \in Nat \ {0}, x % s = 0
  PROVE  Floor(x, s) = x
BY DEF Floor

\* The next multiple.
LEMMA NextMultiple ==
  ASSUME NEW x \in Nat, NEW s \in Nat \ {0}, x % s = 0
  PROVE  x + s \in Nat /\ (x + s) % s = 0
<1>1. PICK k \in Nat : x = s * k
  BY MultipleIs
<1>2. x + s = s * (k + 1) /\ k + 1 \in Nat
  BY <1>1
<1>3. \A p \in Nat : (s * p) % s = 0
  OBVIOUS
<1> QED
  BY <1>2, <1>3

\* Rounding keeps the order of times.
LEMMA FloorMonotone ==
  ASSUME NEW x \in Nat, NEW y \in Nat, NEW s \in Nat \ {0}, x <= y
  PROVE  Floor(x, s) <= Floor(y, s)
<1> DEFINE p == x \div s
           q == y \div s
<1>1. /\ p \in Nat /\ Floor(x, s) = s * p /\ s * p <= x
      /\ q \in Nat /\ Floor(y, s) = s * q /\ y < s * q + s
  BY FloorDiv
<1> HIDE DEF p, q
<1>2. s * p < s * (q + 1)
  BY <1>1
<1>3. p < q + 1
  BY <1>1, <1>2
<1>4. s * p <= s * q
  BY <1>1, <1>3
<1> QED
  BY <1>1, <1>4

\* A multiple of the slots of one wheel is one of the slots of the wheels below.
LEMMA MultipleOfMultiple ==
  ASSUME NEW x \in Nat, NEW s \in Nat \ {0}, NEW t \in Nat \ {0}, x % t = 0, t % s = 0
  PROVE  x % s = 0
<1>1. PICK k \in Nat : x = t * k
  BY MultipleIs
<1>2. PICK l \in Nat : t = s * l
  BY MultipleIs
<1>3. x = s * (l * k) /\ l * k \in Nat
  BY <1>1, <1>2
<1>4. \A p \in Nat : (s * p) % s = 0
  OBVIOUS
<1> QED
  BY <1>3, <1>4

\* Rounding to a wheel below first makes no difference.
LEMMA FloorFloor ==
  ASSUME NEW x \in Nat, NEW s \in Nat \ {0}, NEW t \in Nat \ {0}, t % s = 0
  PROVE  Floor(Floor(x, s), t) = Floor(x, t)
<1> DEFINE m == Floor(x, t)
<1>1. m \in Nat /\ m % t = 0 /\ m <= x /\ x < m + t
  BY FloorDiv
<1>2. Floor(x, s) \in Nat /\ Floor(x, s) <= x
  BY FloorDiv
<1>3. m % s = 0
  BY <1>1, MultipleOfMultiple
<1>4. Floor(m, s) = m
  BY <1>1, <1>3, FloorUnique
<1>5. m <= Floor(x, s)
  BY <1>1, <1>4, FloorMonotone
<1>6. Floor(x, s) < m + t
  BY <1>1, <1>2
<1> HIDE DEF m
<1>7. Floor(Floor(x, s), t) = m
  BY <1>1, <1>2, <1>5, <1>6, FloorUnique
<1> QED
  BY <1>7 DEF m

\* Within one turn of a wheel of n slots an index names one slot.
LEMMA SlotUnique ==
  ASSUME NEW s \in Nat \ {0}, NEW n \in Nat \ {0}, NEW c \in Nat, NEW x \in Nat, NEW y \in Nat,
         c % s = 0, c <= x, x < c + s * n, c <= y, y < c + s * n,
         x % s = 0, y % s = 0,
         (x \div s) % n = (y \div s) % n
  PROVE  x = y
<1> DEFINE a == x \div s
           b == y \div s
           k == c \div s
<1>1. a \in Nat /\ b \in Nat /\ k \in Nat /\ x = s * a /\ y = s * b /\ c = s * k
  BY MultipleIs
<1>2. a % n = b % n
  OBVIOUS
<1> HIDE DEF a, b, k
<1>3. s * k <= s * a /\ s * a < s * (k + n) /\ s * k <= s * b /\ s * b < s * (k + n)
  BY <1>1
<1>4. k <= a /\ k <= b
  BY <1>1, <1>3
<1>5. a < k + n /\ b < k + n
  BY <1>1, <1>3
<1>6. Floor(a, n) = a - (a % n) /\ Floor(b, n) = b - (b % n) /\ a % n \in 0 .. (n - 1)
  BY <1>1 DEF Floor
<1>7. PICK i \in Nat : Floor(a, n) = n * i
  BY <1>1, FloorDiv
<1>8. PICK j \in Nat : Floor(b, n) = n * j
  BY <1>1, FloorDiv
<1>9. n * i - n * j < n /\ n * j - n * i < n
  BY <1>1, <1>2, <1>4, <1>5, <1>6, <1>7, <1>8
<1>10. n * i < n * (j + 1) /\ n * j < n * (i + 1)
  BY <1>9
<1>11. i < j + 1 /\ j < i + 1
  BY <1>10
<1>12. i = j
  BY <1>11
<1>13. a = b
  BY <1>1, <1>2, <1>6, <1>7, <1>8, <1>12
<1> QED
  BY <1>1, <1>13

\* A time and the start of its slot have the same slot number.
LEMMA FloorSlot ==
  ASSUME NEW x \in Nat, NEW s \in Nat \ {0}
  PROVE  Floor(x, s) \div s = x \div s
<1> DEFINE q == x \div s
<1>1. q \in Nat /\ Floor(x, s) = s * q
  BY FloorDiv
<1>2. \A p \in Nat : (s * p) \div s = p
  OBVIOUS
<1> HIDE DEF q
<1>3. Floor(x, s) \div s = q
  BY <1>1, <1>2
<1> QED
  BY <1>3 DEF q

-----------------------------------------------------------------------------
(* The inductive invariant, on top of Control and Custody *)

\* One thread at a time is inside an operation.
OneMoves == \A t, u \in Threads : t = u \/ AtRest(t) \/ AtRest(u)

\* A slot of a wheel is a turn of the wheel below, hence a whole number of
\* slots of every wheel below.
Scales ==
  /\ scaleMs[0] = ScaleMs
  /\ \A w \in Wheels : w + 1 < wheels => scaleMs[w + 1] = interval(w)
  /\ \A j, w \in Wheels : j <= w /\ w < wheels => scaleMs[w] % scaleMs[j] = 0

\* The time the boss is advancing to.
dueMs == expiration[polled]

\* The wheels stand at one time, rounded to their slots; while the boss advances
\* them, those below its wheel at the new time and the others at the old one.
Clock ==
  /\ currentTime[0] <= now
  /\ pc[Boss] # "advance" =>
       \A w \in Wheels : w < wheels => currentTime[w] = Floor(currentTime[0], scaleMs[w])
  /\ pc[Boss] = "advance" =>
       /\ wheel[Boss] < wheels
       /\ currentTime[wheel[Boss]] <= dueMs
       /\ \A w \in Wheels : w < wheel[Boss] => currentTime[w] = Floor(dueMs, scaleMs[w])
       /\ \A w \in Wheels : wheel[Boss] <= w /\ w < wheels =>
            currentTime[w] = Floor(currentTime[wheel[Boss]], scaleMs[w])
       /\ \A b \in Buckets : expiration[b] # -1 => dueMs <= expiration[b]

\* The boss has a bucket whose time has come; once it has advanced the wheels,
\* they stand at that time.
Flush ==
  /\ AtRest(Boss) => polled = NoBucket
  /\ polled # NoBucket =>
       /\ dueMs # -1 /\ dueMs <= now
       /\ pc[Boss] # "advance" =>
            \A w \in Wheels : w < wheels => currentTime[w] = Floor(dueMs, scaleMs[w])

\* ms lies in the turn wheel w is in, and is not over.
InTurn(w, ms) ==
  w < wheels /\ currentTime[0] <= ms /\ ms < currentTime[w] + interval(w)

\* The expiration of a bucket is the start of a slot that has its index, in the
\* turn of its wheel, and a multiple of the slots of the wheels below.
SlotOK(b) ==
  /\ InTurn(b[1], expiration[b])
  /\ BucketOf(expiration[b], b[1]) = b
  /\ \A j \in Wheels : j <= b[1] => expiration[b] % scaleMs[j] = 0

\* A bucket is in the delay queue once, from the time its expiration is set until
\* the boss takes it.
Slots ==
  /\ stale = {}
  /\ \A b \in Buckets :
       /\ queue[b] > 0 => queue[b] = 1 /\ expiration[b] # -1 /\ b # polled
       /\ expiration[b] # -1 =>
            /\ SlotOK(b)
            /\ \/ queue[b] > 0 \/ polled = b \/ At(Boss, "dead")
               \/ \E th \in Threads : At(th, "offer") /\ bkt[th] = b

\* The entries of a bucket belong to the slot it stands for.
Members ==
  \A e \in Entries : Linked(e) =>
    \/ expiration[taskBucket[e]] = Floor(expireMs[e], scaleMs[taskBucket[e][1]])
    \/ \E th \in Threads : At(th, "setExpire") /\ ent[th] = e

\* An addEntry climbs to a wheel only with an entry that is later than the slot
\* the wheel is in, and chooses a bucket of the turn the wheel is in.
Climbing(th) ==
  LET e == ent[th]
      w == wheel[th]
  IN
  /\ pc[th] \in {"cancelled", "expired", "place", "link", "setExpire"} => w < wheels
  /\ pc[th] \in {"cancelled", "expired", "place"} /\ (w > 0 \/ pc[th] = "place") =>
       currentTime[w] + scaleMs[w] <= expireMs[e]
  /\ pc[th] \in {"link", "setExpire"} =>
       /\ bkt[th] = BucketOf(expireMs[e], w)
       /\ InTurn(w, Floor(expireMs[e], scaleMs[w]))
  /\ pc[th] = "setExpire" => taskBucket[e] = bkt[th]
  /\ pc[th] = "offer" => expiration[bkt[th]] # -1 /\ queue[bkt[th]] = 0

\* An entry about to be handed over has less than a slot to go.
HandingOver(th) ==
  /\ pc[th] = "recheck" => cancelled(ent[th]) \/ expireMs[ent[th]] < now + ScaleMs
  /\ pc[th] = "submit" => expireMs[ent[th]] < now + ScaleMs

\* An entry the boss re-adds goes down: it is earlier than the next slot of the
\* wheel it comes from.
GoingDown ==
  /\ pc[Boss] \in {"cancelled", "expired", "place"} =>
       /\ wheel[Boss] <= polled[1]
       /\ expireMs[ent[Boss]] < dueMs + scaleMs[polled[1]]
  /\ pc[Boss] \in {"link", "setExpire", "offer"} => bkt[Boss] # polled

Serial ==
  /\ OneMoves /\ Scales /\ Clock /\ Flush /\ Slots /\ Members /\ GoingDown
  /\ \A th \in Threads : Climbing(th) /\ HandingOver(th)

-----------------------------------------------------------------------------
(* What every step uses *)

\* The types the arithmetic needs.
LEMMA TimeTypes ==
  ASSUME Control
  PROVE  /\ now \in Nat /\ wheels \in 1 .. MaxWheels
         /\ \A w \in Wheels : /\ w \in Nat
                              /\ scaleMs[w] \in Nat \ {0}
                              /\ currentTime[w] \in Nat
                              /\ interval(w) \in Nat \ {0}
         /\ \A b \in Buckets : b[1] \in Wheels /\ queue[b] \in Nat
                               /\ expiration[b] \in Nat \union {-1}
         /\ \A e \in Entries : expireMs[e] \in Nat
         /\ \A th \in Threads : wheel[th] \in Wheels
BY IntervalType, TimerAssumption DEF Control, TypeOK, Wheels, Buckets

\* The wheels that exist are numbered from the root without a gap.
LEMMA WheelNumbers ==
  ASSUME Control
  PROVE  \A w \in Wheels : w < wheels => w + 1 = wheels \/ (w + 1 < wheels /\ w + 1 \in Wheels)
BY TimerAssumption DEF Control, TypeOK, Wheels

\* While one thread moves the others stay at rest.
LEMMA OthersRest ==
  ASSUME NEW th \in Threads, Alone(th), \A o \in Threads \ {th} : pc'[o] = pc[o],
         Climbing(th)', HandingOver(th)'
  PROVE  OneMoves' /\ \A o \in Threads : Climbing(o)' /\ HandingOver(o)'
<1>1. \A o \in Threads \ {th} : AtRest(o)'
  BY DEF Alone, AtRest
<1>2. \A o \in Threads \ {th} : Climbing(o)' /\ HandingOver(o)'
  BY <1>1 DEF AtRest, Climbing, HandingOver
<1> QED
  BY <1>1, <1>2 DEF OneMoves

\* A step that leaves wheels, buckets and delay queue alone keeps what is said of
\* them, unless the boss starts or ends an advance or gives up its bucket.
LEMMA QuietTimer ==
  ASSUME Control, Serial,
         UNCHANGED <<scaleMs, currentTime, wheels, expiration, queue, stale, polled>>,
         now' \in Nat, now <= now',
         pc'[Boss] = "advance" <=> pc[Boss] = "advance",
         pc[Boss] = "advance" => wheel'[Boss] = wheel[Boss],
         AtRest(Boss)' => AtRest(Boss),
         pc[Boss] = "dead" => pc'[Boss] = "dead",
         \A t \in Threads : pc[t] = "offer" => pc'[t] = "offer" /\ bkt'[t] = bkt[t]
  PROVE  Scales' /\ Clock' /\ Flush' /\ Slots'
<1>0. Scales /\ Clock /\ Flush /\ Slots /\ now \in Nat
  BY TimeTypes DEF Serial
<1>1. Scales'
  BY <1>0 DEF Scales, interval
<1>2. Clock'
  <2>1. currentTime'[0] <= now'
    BY <1>0, TimeTypes, ThreadFacts DEF Clock
  <2> QED
    BY <1>0, <2>1 DEF Clock, dueMs
<1>3. Flush'
  <2>1. polled # NoBucket => dueMs <= now'
    <3> SUFFICES ASSUME polled # NoBucket PROVE dueMs <= now'
      OBVIOUS
    <3>1. polled \in Buckets /\ dueMs <= now
      BY <1>0 DEF Flush, Control, TypeOK
    <3>2. expiration[polled] \in Nat \union {-1}
      BY <3>1, TimeTypes
    <3> QED
      BY <1>0, <3>1, <3>2 DEF dueMs
  <2> QED
    BY <1>0, <2>1 DEF Flush, dueMs
<1>4. Slots'
  <2>1. \A b \in Buckets : SlotOK(b)' <=> SlotOK(b)
    BY DEF SlotOK, InTurn, interval, BucketOf
  <2> QED
    BY <1>0, <2>1 DEF Slots, At
<1> QED
  BY <1>1, <1>2, <1>3, <1>4

\* A step that links nothing, and sets no expiration, leaves the buckets' entries
\* as they are.
LEMMA QuietMembers ==
  ASSUME Members, UNCHANGED <<scaleMs, expiration>>,
         \A e \in Entries : Linked(e)' =>
           Linked(e) /\ taskBucket'[e] = taskBucket[e] /\ expireMs'[e] = expireMs[e],
         \A t \in Threads : pc[t] = "setExpire" => pc'[t] = "setExpire" /\ ent'[t] = ent[t]
  PROVE  Members'
BY DEF Members, At

\* At the start nothing is linked or queued and there is one wheel.
LEMMA InitSerial == Init => Serial
<1> SUFFICES ASSUME Init PROVE Serial
  OBVIOUS
<1> USE ThreadFacts
<1>1. /\ StartMs \in Nat /\ ScaleMs \in Nat \ {0}
      /\ Floor(StartMs, ScaleMs) \in Nat
      /\ Floor(StartMs, ScaleMs) <= StartMs
      /\ Floor(StartMs, ScaleMs) % ScaleMs = 0
      /\ ScaleMs % ScaleMs = 0
  BY TimerAssumption, FloorDiv
<1>2. Floor(Floor(StartMs, ScaleMs), ScaleMs) = Floor(StartMs, ScaleMs)
  BY <1>1, FloorFloor
<1>3. \A th \in Threads : AtRest(th)
  BY DEF Init, AtRest
<1>4. \A w \in Wheels : w \in Nat /\ ~(w + 1 < 1)
  BY DEF Wheels
<1>5. Scales
  BY <1>1, <1>4 DEF Init, Scales
<1>6. Clock
  BY <1>1, <1>2 DEF Init, Clock
<1>7. Flush /\ Slots /\ Members /\ GoingDown /\ OneMoves
  BY <1>3 DEF Init, Flush, Slots, Members, GoingDown, OneMoves, Linked
<1>8. \A th \in Threads : Climbing(th) /\ HandingOver(th)
  BY <1>3 DEF AtRest, Climbing, HandingOver
<1> QED
  BY <1>5, <1>6, <1>7, <1>8 DEF Serial

-----------------------------------------------------------------------------
(* The steps, each taken while the other threads are at rest *)

\* Fresh entries are in no list.
LEMMA FreshUnlinked ==
  ASSUME Custody, NEW e \in Entries, baseTask[e] = NoTask
  PROVE  ~Linked(e)
BY DEF Custody, Fresh

\* addTask, setEntry, cancel and remove touch neither wheels nor buckets.
LEMMA CallerSerial ==
  ASSUME Control, Custody, Serial, NEW c \in Callers, Alone(c),
         \/ \E t \in Tasks : Cancel(c, t) \/ \E d \in Delays : AddTask(c, t, d)
         \/ SetEntry(c) \/ ReadTaskBucket(c) \/ Unlink(c)
  PROVE  Serial'
<1> USE ThreadFacts
<1>0. TypeOK /\ Members /\ GoingDown /\ Flush /\ wheels \in 1 .. MaxWheels
  BY TimeTypes DEF Control, Serial
<1>1. AtRest(Boss) /\ c \in Threads /\ c # Boss
  BY DEF Alone
<1>2. /\ UNCHANGED <<scaleMs, currentTime, wheels, expiration, queue, stale, polled>>
      /\ now' = now
      /\ pc[c] \in CallerOnly
      /\ pc'[c] \in {"setEntry", "remove", "unlink", "idle", "cancelled"}
      /\ \A o \in Threads \ {c} : pc'[o] = pc[o] /\ bkt'[o] = bkt[o] /\ ent'[o] = ent[o]
                                  /\ wheel'[o] = wheel[o]
      /\ pc'[c] = "cancelled" => wheel'[c] = 0
  BY <1>0
  DEF Cancel, AddTask, SetEntry, ReadTaskBucket, Unlink, At, Goto, TypeOK, timerVars,
      taskVars, execVars, locals, CallerOnly
<1>3. Scales' /\ Clock' /\ Flush' /\ Slots'
  BY <1>1, <1>2, TimeTypes, QuietTimer DEF CallerOnly, AtRest
<1>4. Members'
  <2>1. \A e \in Entries : Linked(e)' =>
          Linked(e) /\ taskBucket'[e] = taskBucket[e] /\ expireMs'[e] = expireMs[e]
    <3>1. ASSUME NEW t \in Tasks, NEW d \in Delays, AddTask(c, t, d)
          PROVE  \A e \in Entries : Linked(e)' =>
                   Linked(e) /\ taskBucket'[e] = taskBucket[e] /\ expireMs'[e] = expireMs[e]
      <4>1. PICK e \in Entries :
              baseTask[e] = NoTask /\ expireMs' = [expireMs EXCEPT ![e] = now + d]
        BY <3>1 DEF AddTask
      <4>2. ~Linked(e)
        BY <4>1, FreshUnlinked
      <4>3. taskBucket' = taskBucket
        BY <3>1 DEF AddTask
      <4> QED
        BY <1>0, <4>1, <4>2, <4>3 DEF Linked, TypeOK
    <3>2. CASE Unlink(c)
      BY <1>0, <3>2 DEF Unlink, Linked, TypeOK
    <3>3. CASE (\E t \in Tasks : Cancel(c, t)) \/ SetEntry(c) \/ ReadTaskBucket(c)
      BY <3>3 DEF Cancel, SetEntry, ReadTaskBucket, Linked, taskVars
    <3> QED
      BY <3>1, <3>2, <3>3
  <2>2. \A t \in Threads : pc[t] = "setExpire" => pc'[t] = "setExpire" /\ ent'[t] = ent[t]
    BY <1>2 DEF CallerOnly
  <2> QED
    BY <1>0, <1>2, <2>1, <2>2, QuietMembers
<1>5. GoingDown'
  BY <1>1, <1>2 DEF AtRest, GoingDown
<1>6. Climbing(c)' /\ HandingOver(c)'
  BY <1>0, <1>2 DEF Climbing, HandingOver
<1>7. OneMoves' /\ \A o \in Threads : Climbing(o)' /\ HandingOver(o)'
  BY <1>1, <1>2, <1>6, OthersRest
<1> QED
  BY <1>3, <1>4, <1>5, <1>7 DEF Serial

\* The expiration check holds back every entry but one of the root wheel's slot.
LEMMA ExpiredIsNear ==
  ASSUME Control, Serial, NEW th \in Threads, At(th, "expired"),
         expireMs[ent[th]] < currentTime[wheel[th]] + scaleMs[wheel[th]]
  PROVE  expireMs[ent[th]] < now + ScaleMs
<1> DEFINE e == ent[th]
           w == wheel[th]
<1>1. e \in Entries /\ w \in Wheels
  BY TimeTypes DEF At, Control, ThreadOK, AddEntry
<1>2. /\ expireMs[e] \in Nat /\ currentTime[w] \in Nat /\ scaleMs[w] \in Nat /\ w \in Nat
      /\ now \in Nat /\ currentTime[0] \in Nat
  BY <1>1, TimeTypes, ThreadFacts
<1>3. ~(w > 0)
  <2>1. w > 0 => currentTime[w] + scaleMs[w] <= expireMs[e]
    BY DEF Serial, Climbing, At
  <2> HIDE DEF e, w
  <2> QED
    BY <1>2, <2>1 DEF e, w
<1>4. w = 0
  BY <1>2, <1>3
<1>5. currentTime[0] <= now /\ scaleMs[0] = ScaleMs
  BY DEF Serial, Clock, Scales
<1> QED
  BY <1>2, <1>4, <1>5, TimerAssumption

\* The steps of addEntry that leave wheels and buckets alone.
LEMMA QuietAddSerial ==
  ASSUME Control, Serial, NEW th \in Threads, Alone(th),
         \/ CheckCancelled(th) \/ CheckExpired(th) \/ Link(th) \/ Recheck(th)
         \/ Submit(th)
  PROVE  Serial'
<1> USE ThreadFacts
<1>0. /\ TypeOK /\ Members /\ GoingDown /\ Flush /\ wheels \in 1 .. MaxWheels
      /\ Climbing(th) /\ HandingOver(th)
  BY TimeTypes DEF Control, Serial
<1>1. ent[th] \in Entries
  BY DEF Control, ThreadOK, CheckCancelled, CheckExpired, Link, Recheck, Submit, At,
         AddEntry
<1>2. /\ UNCHANGED <<scaleMs, currentTime, wheels, expiration, queue, stale, polled>>
      /\ UNCHANGED <<now, baseTask, expireMs, entry, ent, wheel, bkt>>
      /\ pc[th] \in {"cancelled", "expired", "link", "recheck", "submit"}
      /\ pc'[th] \in {"recheck", "expired", "place", "setExpire", "submit", "flush", "idle"}
      /\ pc'[th] = "idle" => th # Boss
      /\ \A o \in Threads \ {th} : pc'[o] = pc[o]
  BY <1>0
  DEF CheckCancelled, CheckExpired, Link, Recheck, Submit, At, Goto, TypeOK, AfterAdd,
      timerVars, taskVars, execVars, locals
<1>3. Scales' /\ Clock' /\ Flush' /\ Slots'
  <2>1. AtRest(Boss)' => AtRest(Boss)
    BY <1>2 DEF AtRest
  <2> QED
    BY <1>2, <2>1, TimeTypes, QuietTimer
<1>4. Members'
  <2>1. CASE Link(th)
    <3>1. taskBucket' = [taskBucket EXCEPT ![ent[th]] = bkt[th]] /\ pc'[th] = "setExpire"
      BY <1>0, <2>1 DEF Link, Goto, TypeOK
    <3>2. ASSUME NEW e \in Entries, Linked(e)'
          PROVE  \/ expiration'[taskBucket'[e]] = Floor(expireMs'[e], scaleMs'[taskBucket'[e][1]])
                 \/ \E t \in Threads : At(t, "setExpire")' /\ ent'[t] = e
      <4>1. CASE e = ent[th]
        BY <1>2, <3>1, <4>1 DEF At
      <4>2. CASE e # ent[th]
        <5>1. taskBucket'[e] = taskBucket[e]
          BY <3>1, <4>2
        <5>2. \/ expiration[taskBucket[e]] = Floor(expireMs[e], scaleMs[taskBucket[e][1]])
              \/ \E t \in Threads : At(t, "setExpire") /\ ent[t] = e
          BY <1>0, <3>2, <5>1 DEF Members, Linked
        <5>3. \A t \in Threads : At(t, "setExpire") => At(t, "setExpire")'
          BY <1>2 DEF At
        <5> QED
          BY <1>2, <5>1, <5>2, <5>3
      <4> QED
        BY <4>1, <4>2
    <3> QED
      BY <3>2 DEF Members
  <2>2. CASE ~Link(th)
    <3>1. taskBucket' = taskBucket
      BY <2>2 DEF CheckCancelled, CheckExpired, Recheck, Submit, taskVars
    <3> QED
      BY <1>0, <1>2, <3>1, QuietMembers DEF Linked
  <2> QED
    BY <2>1, <2>2
<1>5. pc'[th] \in {"expired", "place", "setExpire"} => Alone(th)
  OBVIOUS
<1>6. GoingDown'
  <2>1. CASE th = Boss
    <3>1. pc'[Boss] \in {"expired", "place"} => pc[Boss] \in {"cancelled", "expired"}
      BY <1>0, <1>2, <2>1
      DEF CheckCancelled, CheckExpired, Link, Recheck, Submit, At, Goto, TypeOK, AfterAdd
    <3>2. pc'[Boss] = "setExpire" => pc[Boss] = "link"
      BY <1>0, <1>2, <2>1
      DEF CheckCancelled, CheckExpired, Link, Recheck, Submit, At, Goto, TypeOK, AfterAdd
    <3> QED
      BY <1>0, <1>2, <2>1, <3>1, <3>2 DEF GoingDown, dueMs
  <2>2. CASE th # Boss
    <3>1. AtRest(Boss) /\ pc'[Boss] = pc[Boss]
      BY <1>2, <2>2 DEF Alone
    <3> QED
      BY <3>1 DEF AtRest, GoingDown
  <2> QED
    BY <2>1, <2>2
<1>7. Climbing(th)'
  <2>1. CASE CheckCancelled(th)
    <3>1. pc'[th] \in {"recheck", "expired"} /\ pc[th] = "cancelled"
      BY <1>0, <2>1 DEF CheckCancelled, At, Goto, TypeOK
    <3> QED
      BY <1>0, <1>2, <3>1 DEF Climbing
  <2>2. CASE CheckExpired(th)
    <3>1. /\ pc[th] = "expired" /\ pc'[th] \in {"recheck", "place"}
          /\ pc'[th] = "place" =>
               ~(expireMs[ent[th]] < currentTime[wheel[th]] + scaleMs[wheel[th]])
      BY <1>0, <2>2 DEF CheckExpired, At, Goto, TypeOK
    <3>2. /\ expireMs[ent[th]] \in Nat /\ currentTime[wheel[th]] \in Nat
          /\ scaleMs[wheel[th]] \in Nat
      BY <1>1, TimeTypes
    <3>3. pc'[th] = "place" => currentTime[wheel[th]] + scaleMs[wheel[th]] <= expireMs[ent[th]]
      BY <3>1, <3>2
    <3> QED
      BY <1>0, <1>2, <3>1, <3>3 DEF Climbing
  <2>3. CASE Link(th)
    <3>1. /\ pc[th] = "link" /\ pc'[th] = "setExpire"
          /\ taskBucket'[ent[th]] = bkt[th]
      BY <1>0, <1>1, <2>3 DEF Link, At, Goto, TypeOK
    <3> QED
      BY <1>0, <1>2, <3>1 DEF Climbing, InTurn, interval, BucketOf
  <2>4. CASE Recheck(th) \/ Submit(th)
    <3>1. pc'[th] \in {"submit", "flush", "idle"}
      BY <1>0, <2>4 DEF Recheck, Submit, At, Goto, TypeOK, AfterAdd
    <3> QED
      BY <3>1 DEF Climbing
  <2> QED
    BY <2>1, <2>2, <2>3, <2>4
<1>8. HandingOver(th)'
  <2>1. CASE CheckCancelled(th)
    <3>1. /\ pc'[th] \in {"recheck", "expired"}
          /\ pc'[th] = "recheck" => cancelled(ent[th])
      BY <1>0, <2>1 DEF CheckCancelled, At, Goto, TypeOK
    <3> QED
      BY <1>2, <3>1 DEF HandingOver, cancelled
  <2>2. CASE CheckExpired(th)
    <3>1. /\ pc'[th] \in {"recheck", "place"} /\ At(th, "expired")
          /\ pc'[th] = "recheck" =>
               expireMs[ent[th]] < currentTime[wheel[th]] + scaleMs[wheel[th]]
      BY <1>0, <2>2 DEF CheckExpired, At, Goto, TypeOK
    <3>2. pc'[th] = "recheck" => expireMs[ent[th]] < now + ScaleMs
      BY <3>1, ExpiredIsNear
    <3> QED
      BY <1>2, <3>1, <3>2 DEF HandingOver
  <2>3. CASE Recheck(th)
    <3>1. /\ pc[th] = "recheck" /\ pc'[th] \in {"submit", "flush", "idle"}
          /\ pc'[th] = "submit" => ~cancelled(ent[th])
      BY <1>0, <2>3 DEF Recheck, At, Goto, TypeOK, AfterAdd
    <3> QED
      BY <1>0, <1>2, <3>1 DEF HandingOver
  <2>4. CASE Link(th) \/ Submit(th)
    <3>1. pc'[th] \in {"setExpire", "flush", "idle"}
      BY <1>0, <2>4 DEF Link, Submit, At, Goto, TypeOK, AfterAdd
    <3> QED
      BY <3>1 DEF HandingOver
  <2> QED
    BY <2>1, <2>2, <2>3, <2>4
<1>9. OneMoves' /\ \A o \in Threads : Climbing(o)' /\ HandingOver(o)'
  BY <1>2, <1>7, <1>8, OthersRest
<1> QED
  BY <1>3, <1>4, <1>6, <1>9 DEF Serial

\* While an entry is added nobody advances the wheels: they stand at one time,
\* and if the boss adds it, at the time of the bucket it is flushing.
LEMMA Standing ==
  ASSUME Control, Serial, NEW th \in Threads, Alone(th), pc[th] \in AddEntry
  PROVE  /\ pc[Boss] # "advance"
         /\ \A w \in Wheels : w < wheels =>
              currentTime[w] = Floor(currentTime[0], scaleMs[w]) /\ currentTime[w] % scaleMs[w] = 0
         /\ th # Boss => polled = NoBucket
         /\ th = Boss => polled \in Buckets /\ dueMs \in Nat /\ SlotOK(polled)
<1>1. pc[Boss] # "advance"
  BY ThreadFacts DEF Alone, AtRest, AddEntry
<1>2. ASSUME NEW w \in Wheels, w < wheels
      PROVE  currentTime[w] = Floor(currentTime[0], scaleMs[w]) /\ currentTime[w] % scaleMs[w] = 0
  <2>1. currentTime[w] = Floor(currentTime[0], scaleMs[w])
    BY <1>1, <1>2 DEF Serial, Clock
  <2>2. currentTime[0] \in Nat /\ scaleMs[w] \in Nat \ {0}
    BY TimeTypes, ThreadFacts
  <2>3. Floor(currentTime[0], scaleMs[w]) % scaleMs[w] = 0
    BY <2>2, FloorDiv
  <2> QED
    BY <2>1, <2>3
<1>3. th # Boss => polled = NoBucket
  BY ThreadFacts DEF Alone, Serial, Flush
<1>4. th = Boss => polled \in Buckets /\ dueMs \in Nat /\ SlotOK(polled)
  <2> SUFFICES ASSUME th = Boss PROVE polled \in Buckets /\ dueMs \in Nat /\ SlotOK(polled)
    OBVIOUS
  <2>1. polled \in Buckets
    BY DEF Control, BossOK
  <2>2. dueMs # -1 /\ expiration[polled] \in Nat \union {-1}
    BY <2>1, TimeTypes, ThreadFacts DEF Serial, Flush
  <2> QED
    BY <2>1, <2>2 DEF Serial, Slots, dueMs
<1> QED
  BY <1>1, <1>2, <1>3, <1>4

\* An entry the boss re-adds does not get as high as the wheel it comes from.
LEMMA StaysBelow ==
  ASSUME Control, Serial, Alone(Boss), At(Boss, "place")
  PROVE  wheel[Boss] < polled[1] /\ polled[1] \in Wheels /\ polled[1] < wheels
<1> DEFINE e == ent[Boss]
           w == wheel[Boss]
           p == polled[1]
<1> USE ThreadFacts
<1>1. polled \in Buckets /\ dueMs \in Nat /\ SlotOK(polled) /\ pc[Boss] # "advance"
  BY Standing DEF At, AddEntry
<1>2. /\ p \in Wheels /\ w \in Wheels /\ p \in Nat /\ w \in Nat
      /\ scaleMs[p] \in Nat \ {0} /\ e \in Entries /\ expireMs[e] \in Nat
  BY <1>1, TimeTypes DEF Control, ThreadOK, At, AddEntry
<1>3. p < wheels /\ dueMs % scaleMs[p] = 0
  BY <1>1, <1>2 DEF SlotOK, InTurn, dueMs
<1>4. currentTime[p] = dueMs
  <2>1. currentTime[p] = Floor(dueMs, scaleMs[p])
    BY <1>1, <1>2, <1>3 DEF Serial, Flush
  <2>2. Floor(dueMs, scaleMs[p]) = dueMs
    BY <1>1, <1>2, <1>3, FloorSelf
  <2> QED
    BY <2>1, <2>2
<1>5. /\ w <= p /\ expireMs[e] < dueMs + scaleMs[p]
      /\ currentTime[w] + scaleMs[w] <= expireMs[e]
  BY DEF Serial, GoingDown, Climbing, At
<1> HIDE DEF e, w, p
<1>6. w # p
  BY <1>1, <1>2, <1>4, <1>5
<1>7. w < p
  BY <1>2, <1>5, <1>6
<1> QED
  BY <1>2, <1>3, <1>7 DEF w, p

\* TimingWheel.add chooses a bucket of the turn its wheel is in.
LEMMA PlaceHereSerial ==
  ASSUME Control, Serial, NEW th \in Threads, Alone(th), Place(th),
         expireMs[ent[th]] < currentTime[wheel[th]] + interval(wheel[th])
  PROVE  Serial'
<1> DEFINE e == ent[th]
           w == wheel[th]
<1> USE ThreadFacts
<1>0. /\ TypeOK /\ Members /\ GoingDown /\ Flush /\ wheels \in 1 .. MaxWheels
      /\ Climbing(th) /\ At(th, "place")
  BY TimeTypes DEF Control, Serial, Place
<1>1. /\ e \in Entries /\ w \in Wheels /\ expireMs[e] \in Nat /\ scaleMs[w] \in Nat \ {0}
      /\ currentTime[w] \in Nat /\ interval(w) \in Nat
  BY <1>0, TimeTypes DEF Control, ThreadOK, At, AddEntry
<1>2. /\ UNCHANGED <<scaleMs, currentTime, wheels, expiration, queue, stale, polled>>
      /\ UNCHANGED <<now, taskBucket, expireMs, ent, wheel>>
      /\ bkt' = [bkt EXCEPT ![th] = BucketOf(expireMs[e], w)]
      /\ pc' = [pc EXCEPT ![th] = "link"]
  BY <1>1 DEF Place, Goto, taskVars
<1>3. /\ pc[th] = "place" /\ pc'[th] = "link" /\ bkt'[th] = BucketOf(expireMs[e], w)
      /\ \A o \in Threads \ {th} : pc'[o] = pc[o] /\ bkt'[o] = bkt[o]
  BY <1>0, <1>2 DEF TypeOK, At
<1>4. Scales' /\ Clock' /\ Flush' /\ Slots'
  BY <1>2, <1>3, TimeTypes, QuietTimer DEF AtRest
<1>5. Members'
  BY <1>0, <1>2, <1>3, QuietMembers DEF Linked
<1>6. w < wheels /\ InTurn(w, Floor(expireMs[e], scaleMs[w]))
  <2>1. w < wheels /\ currentTime[w] + scaleMs[w] <= expireMs[e]
    BY <1>0, <1>3 DEF Climbing
  <2>2. currentTime[w] % scaleMs[w] = 0
    BY <1>1, <1>3, <2>1, Standing DEF AddEntry
  <2>3. Floor(currentTime[w], scaleMs[w]) = currentTime[w]
    BY <1>1, <2>2, FloorSelf
  <2>4. currentTime[0] \in Nat /\ currentTime[0] < currentTime[w] + scaleMs[w]
    <3>1. currentTime[0] \in Nat /\ currentTime[w] = Floor(currentTime[0], scaleMs[w])
      BY <1>3, <2>1, TimeTypes, Standing DEF AddEntry
    <3> QED
      BY <1>1, <3>1, FloorDiv
  <2>5. currentTime[0] <= Floor(expireMs[e], scaleMs[w])
    <3> DEFINE m == currentTime[w] + scaleMs[w]
    <3>1. m \in Nat /\ Floor(m, scaleMs[w]) = m
      BY <1>1, <2>2, FloorSelf, NextMultiple
    <3>2. m <= Floor(expireMs[e], scaleMs[w])
      BY <1>1, <2>1, <3>1, FloorMonotone
    <3> HIDE DEF e, w
    <3>3. Floor(expireMs[e], scaleMs[w]) \in Nat
      BY <1>1, FloorDiv
    <3> QED
      BY <1>1, <2>4, <3>1, <3>2, <3>3
  <2>6. Floor(expireMs[e], scaleMs[w]) \in Nat /\ Floor(expireMs[e], scaleMs[w]) <= expireMs[e]
    BY <1>1, FloorDiv
  <2>7. Floor(expireMs[e], scaleMs[w]) < currentTime[w] + interval(w)
    BY <1>1, <2>6
  <2> QED
    BY <2>1, <2>5, <2>7 DEF InTurn
<1>7. Climbing(th)' /\ HandingOver(th)'
  BY <1>2, <1>3, <1>6 DEF Climbing, HandingOver, InTurn, interval, BucketOf
<1>8. GoingDown'
  <2>1. CASE th = Boss
    <3>1. w < polled[1] /\ polled[1] \in Wheels
      BY <1>0, <2>1, StaysBelow
    <3>2. bkt'[Boss][1] = w
      BY <1>3, <2>1 DEF BucketOf
    <3>3. w # polled[1]
      BY <1>1, <3>1, TimeTypes
    <3> QED
      BY <1>2, <1>3, <2>1, <3>2, <3>3 DEF GoingDown
  <2>2. CASE th # Boss
    <3>1. AtRest(Boss) /\ pc'[Boss] = pc[Boss]
      BY <1>3, <2>2 DEF Alone
    <3> QED
      BY <3>1 DEF AtRest, GoingDown
  <2> QED
    BY <2>1, <2>2
<1>9. OneMoves' /\ \A o \in Threads : Climbing(o)' /\ HandingOver(o)'
  BY <1>3, <1>7, OthersRest
<1> QED
  BY <1>4, <1>5, <1>8, <1>9 DEF Serial

\* What the overflow wheel is when addEntry has climbed to it, made now or before.
OverflowMade(w) ==
  /\ scaleMs'[w + 1] = interval(w)
  /\ currentTime'[w + 1] = Floor(currentTime[w], interval(w))
  /\ w + 1 < wheels'
  /\ \A v \in Wheels : v < wheels => scaleMs'[v] = scaleMs[v] /\ currentTime'[v] = currentTime[v]
  /\ \A v \in Wheels : v < wheels' => v < wheels \/ v = w + 1
  /\ \A v \in Wheels : v < wheels => v < wheels'

\* TimingWheel.addOverflowWheel, and the wheel it leaves.
LEMMA OverflowWheel ==
  ASSUME Control, Serial, NEW th \in Threads, Alone(th), Place(th),
         ~(expireMs[ent[th]] < currentTime[wheel[th]] + interval(wheel[th]))
  PROVE  /\ wheel[th] + 1 \in Wheels /\ wheel[th] < wheels
         /\ interval(wheel[th]) % scaleMs[wheel[th]] = 0
         /\ OverflowMade(wheel[th])
<1> DEFINE w == wheel[th]
<1> USE ThreadFacts
<1>1. /\ w \in Wheels /\ w \in Nat /\ scaleMs[w] \in Nat \ {0} /\ currentTime[w] \in Nat
      /\ interval(w) \in Nat \ {0} /\ currentTime[0] \in Nat /\ wheels \in Nat
      /\ WheelSize \in Nat
  BY TimeTypes, TimerAssumption
<1>2. pc[th] = "place" /\ w < wheels
  BY DEF Place, At, Serial, Climbing
<1>3. /\ w + 1 \in Wheels
      /\ IF wheels = w + 1
           THEN /\ wheels' = w + 2
                /\ scaleMs' = [scaleMs EXCEPT ![w + 1] = interval(w)]
                /\ currentTime' = [currentTime EXCEPT
                                     ![w + 1] = Floor(currentTime[w], interval(w))]
           ELSE UNCHANGED <<scaleMs, currentTime, wheels>>
  BY DEF Place
<1>4. interval(w) % scaleMs[w] = 0
  <2>1. interval(w) = scaleMs[w] * WheelSize
    BY DEF interval
  <2>2. \A s \in Nat \ {0}, n \in Nat : (s * n) % s = 0
    OBVIOUS
  <2> QED
    BY <1>1, <2>1, <2>2
<1>5. \A v \in Wheels : v \in Nat
  BY TimeTypes
<1>6. CASE wheels = w + 1
  <2>1. /\ scaleMs'[w + 1] = interval(w)
        /\ currentTime'[w + 1] = Floor(currentTime[w], interval(w))
        /\ \A v \in Wheels \ {w + 1} : scaleMs'[v] = scaleMs[v] /\ currentTime'[v] = currentTime[v]
    BY <1>3, <1>6 DEF Control, TypeOK
  <2>2. wheels' = w + 2
    BY <1>3, <1>6
  <2> HIDE DEF w
  <2>3. OverflowMade(w)
    BY <1>1, <1>5, <1>6, <2>1, <2>2 DEF OverflowMade
  <2> QED
    BY <1>2, <1>3, <1>4, <2>3 DEF w
<1>7. CASE wheels # w + 1
  <2>1. UNCHANGED <<scaleMs, currentTime, wheels>>
    BY <1>3, <1>7
  <2>2. w + 1 < wheels
    BY <1>1, <1>2, <1>7
  <2>3. scaleMs[w + 1] = interval(w)
    BY <1>1, <2>2 DEF Serial, Scales
  <2>4. pc[Boss] # "advance" /\ currentTime[w] = Floor(currentTime[0], scaleMs[w])
    BY <1>1, <1>2, Standing DEF AddEntry
  <2>5. currentTime[w + 1] = Floor(currentTime[0], interval(w))
    BY <1>3, <2>2, <2>3, Standing, <1>2 DEF AddEntry
  <2>6. Floor(Floor(currentTime[0], scaleMs[w]), interval(w)) = Floor(currentTime[0], interval(w))
    BY <1>1, <1>4, FloorFloor
  <2>7. OverflowMade(w)
    BY <2>1, <2>2, <2>3, <2>4, <2>5, <2>6 DEF OverflowMade
  <2> QED
    BY <1>2, <1>3, <1>4, <2>7
<1> QED
  BY <1>6, <1>7

\* TimingWheel.add goes on to the overflow wheel.
LEMMA PlaceAboveSerial ==
  ASSUME Control, Serial, NEW th \in Threads, Alone(th), Place(th),
         ~(expireMs[ent[th]] < currentTime[wheel[th]] + interval(wheel[th]))
  PROVE  Serial'
<1> DEFINE e == ent[th]
           w == wheel[th]
           I == interval(w)
<1> USE ThreadFacts
<1>0. /\ TypeOK /\ Members /\ GoingDown /\ Flush /\ Scales /\ Clock /\ Slots
      /\ Climbing(th) /\ At(th, "place")
  BY DEF Control, Serial, Place
<1>1. /\ e \in Entries /\ w \in Wheels /\ w \in Nat
      /\ expireMs[e] \in Nat /\ scaleMs[w] \in Nat \ {0}
      /\ currentTime[w] \in Nat /\ I \in Nat \ {0} /\ currentTime[0] \in Nat
      /\ wheels \in 1 .. MaxWheels /\ now \in Nat
  BY <1>0, TimeTypes DEF Control, ThreadOK, At, AddEntry
<1>2. w + 1 \in Wheels /\ w < wheels /\ I % scaleMs[w] = 0 /\ OverflowMade(w)
  BY OverflowWheel
<1>3. /\ UNCHANGED <<now, expiration, queue, stale, polled, taskBucket, expireMs, ent, bkt>>
      /\ wheel' = [wheel EXCEPT ![th] = w + 1]
      /\ pc' = [pc EXCEPT ![th] = "cancelled"]
  BY <1>1 DEF Place, Goto, taskVars
<1>4. /\ pc[th] = "place" /\ pc'[th] = "cancelled" /\ wheel'[th] = w + 1
      /\ \A o \in Threads \ {th} : pc'[o] = pc[o]
  BY <1>0, <1>3 DEF TypeOK, At
<1>5. /\ pc[Boss] # "advance" /\ pc'[Boss] # "advance"
      /\ \A v \in Wheels : v < wheels => currentTime[v] = Floor(currentTime[0], scaleMs[v])
  BY <1>4, Standing DEF AddEntry
<1>6. Floor(Floor(currentTime[0], scaleMs[w]), I) = Floor(currentTime[0], I)
  BY <1>1, <1>2, FloorFloor
<1>7. 0 < wheels /\ scaleMs'[0] = scaleMs[0] /\ currentTime'[0] = currentTime[0]
  BY <1>1, <1>2 DEF OverflowMade
<1>8. Scales'
  <2>1. scaleMs'[0] = ScaleMs
    BY <1>0, <1>7 DEF Scales
  <2>2. ASSUME NEW v \in Wheels, v + 1 < wheels'
        PROVE  scaleMs'[v + 1] = scaleMs'[v] * WheelSize
    <3>1. v \in Nat
      BY TimeTypes
    <3>2. v + 1 \in Wheels
      <4>1. wheels' \in 1 .. MaxWheels
        BY AddEntryControl DEF AddEntryStep, Control, TypeOK
      <4> QED
        BY <2>2, <3>1, <4>1, TimerAssumption DEF Wheels
    <3>3. CASE v + 1 < wheels
      <4>1. scaleMs[v + 1] = interval(v)
        BY <1>0, <3>3 DEF Scales
      <4>2. v < wheels
        BY <1>1, <3>1, <3>3
      <4> QED
        BY <1>2, <3>2, <3>3, <4>1, <4>2 DEF OverflowMade, interval
    <3>4. CASE v + 1 = w + 1
      <4>1. v = w
        BY <1>1, <3>1, <3>4
      <4> QED
        BY <1>1, <1>2, <4>1 DEF OverflowMade, interval
    <3> QED
      BY <1>2, <2>2, <3>2, <3>3, <3>4 DEF OverflowMade
  <2>3. ASSUME NEW j \in Wheels, NEW v \in Wheels, j <= v, v < wheels'
        PROVE  scaleMs'[v] % scaleMs'[j] = 0
    <3>1. j \in Nat /\ v \in Nat /\ scaleMs[j] \in Nat \ {0} /\ scaleMs[v] \in Nat \ {0}
      BY TimeTypes
    <3>2. CASE v < wheels
      <4>1. j < wheels
        BY <1>1, <2>3, <3>1, <3>2
      <4> QED
        BY <1>0, <1>2, <2>3, <3>2, <4>1 DEF Scales, OverflowMade
    <3>3. CASE v = w + 1 /\ j = v
      <4>1. scaleMs'[v] = I /\ scaleMs'[j] = I
        BY <1>2, <3>3 DEF OverflowMade
      <4>2. \A s \in Nat \ {0} : s % s = 0
        OBVIOUS
      <4> QED
        BY <1>1, <4>1, <4>2
    <3>4. CASE v = w + 1 /\ j # v
      <4>1. j <= w
        BY <1>1, <2>3, <3>1, <3>4
      <4>2. j < wheels
        BY <1>1, <1>2, <3>1, <4>1
      <4>3. scaleMs'[v] = I /\ scaleMs'[j] = scaleMs[j]
        BY <1>2, <3>4, <4>2 DEF OverflowMade
      <4>4. scaleMs[w] % scaleMs[j] = 0
        BY <1>0, <1>1, <1>2, <4>1 DEF Scales
      <4>5. I % scaleMs[j] = 0
        BY <1>1, <1>2, <3>1, <4>4, MultipleOfMultiple
      <4> QED
        BY <4>3, <4>5
    <3> QED
      BY <1>2, <2>3, <3>2, <3>3, <3>4 DEF OverflowMade
  <2> QED
    BY <2>1, <2>2, <2>3 DEF Scales, interval
<1>9. Clock'
  <2>1. currentTime'[0] <= now'
    BY <1>0, <1>3, <1>7 DEF Clock
  <2>2. ASSUME NEW v \in Wheels, v < wheels'
        PROVE  currentTime'[v] = Floor(currentTime'[0], scaleMs'[v])
    <3>1. CASE v < wheels
      BY <1>2, <1>5, <1>7, <3>1 DEF OverflowMade
    <3>2. CASE v = w + 1
      BY <1>1, <1>2, <1>5, <1>6, <1>7, <3>2 DEF OverflowMade
    <3> QED
      BY <1>2, <2>2, <3>1, <3>2 DEF OverflowMade
  <2> QED
    BY <1>5, <2>1, <2>2 DEF Clock
<1>10. Flush'
  <2>1. AtRest(Boss)' => AtRest(Boss)
    BY <1>4 DEF AtRest
  <2>2. ASSUME polled # NoBucket, NEW v \in Wheels, v < wheels'
        PROVE  currentTime'[v] = Floor(dueMs, scaleMs'[v])
    <3>1. /\ dueMs \in Nat
          /\ \A u \in Wheels : u < wheels => currentTime[u] = Floor(dueMs, scaleMs[u])
      <4>1. polled \in Buckets
        BY <1>0, <2>2 DEF TypeOK
      <4>2. expiration[polled] \in Nat \union {-1} /\ dueMs # -1
        BY <1>0, <2>2, <4>1, TimeTypes DEF Flush
      <4> QED
        BY <1>0, <1>5, <2>2, <4>2 DEF Flush, dueMs
    <3>2. CASE v < wheels
      BY <1>2, <3>1, <3>2 DEF OverflowMade
    <3>3. CASE v = w + 1
      <4>1. Floor(Floor(dueMs, scaleMs[w]), I) = Floor(dueMs, I)
        BY <1>1, <1>2, <3>1, FloorFloor
      <4> QED
        BY <1>1, <1>2, <3>1, <3>3, <4>1 DEF OverflowMade
    <3> QED
      BY <1>2, <2>2, <3>2, <3>3 DEF OverflowMade
  <2> QED
    BY <1>0, <1>3, <2>1, <2>2 DEF Flush, dueMs
<1>11. ASSUME NEW b \in Buckets, SlotOK(b)
       PROVE  SlotOK(b)' /\ scaleMs'[b[1]] = scaleMs[b[1]]
  <2>1. b[1] \in Wheels /\ b[1] < wheels /\ b[1] \in Nat
    BY <1>11, TimeTypes DEF SlotOK, InTurn
  <2>2. /\ scaleMs'[b[1]] = scaleMs[b[1]] /\ currentTime'[b[1]] = currentTime[b[1]]
        /\ b[1] < wheels'
    BY <1>2, <2>1 DEF OverflowMade
  <2>3. ASSUME NEW j \in Wheels, j <= b[1]
        PROVE  scaleMs'[j] = scaleMs[j]
    <3>1. j < wheels
      BY <1>1, <2>1, <2>3, TimeTypes
    <3> QED
      BY <1>2, <3>1 DEF OverflowMade
  <2> QED
    BY <1>3, <1>7, <1>11, <2>2, <2>3 DEF SlotOK, InTurn, interval, BucketOf
<1>12. Slots'
  <2>1. ASSUME NEW b \in Buckets, expiration[b] # -1
        PROVE  \/ queue[b] > 0 \/ polled = b \/ At(Boss, "dead")'
               \/ \E t \in Threads : At(t, "offer")' /\ bkt'[t] = b
    BY <1>0, <1>3, <1>4, <2>1 DEF Slots, At
  <2> QED
    BY <1>0, <1>3, <1>11, <2>1 DEF Slots
<1>13. Members'
  <2> SUFFICES ASSUME NEW f \in Entries, Linked(f)
               PROVE  \/ expiration[taskBucket[f]] = Floor(expireMs[f], scaleMs'[taskBucket[f][1]])
                      \/ \E t \in Threads : At(t, "setExpire")' /\ ent'[t] = f
    BY <1>3 DEF Members, Linked
  <2>1. CASE \E t \in Threads : At(t, "setExpire") /\ ent[t] = f
    BY <1>3, <1>4, <2>1 DEF At
  <2>2. CASE expiration[taskBucket[f]] = Floor(expireMs[f], scaleMs[taskBucket[f][1]])
    <3>1. taskBucket[f] \in Buckets
      BY <1>0 DEF TypeOK, Linked
    <3>2. Floor(expireMs[f], scaleMs[taskBucket[f][1]]) \in Nat
      BY <3>1, TimeTypes, FloorDiv
    <3>3. SlotOK(taskBucket[f])
      BY <1>0, <2>2, <3>1, <3>2 DEF Slots
    <3> QED
      BY <1>11, <2>2, <3>1, <3>3
  <2> QED
    BY <1>0, <2>1, <2>2 DEF Members
<1>14. GoingDown'
  <2>1. CASE th = Boss
    <3>1. w < polled[1] /\ polled[1] \in Wheels /\ polled[1] < wheels
      BY <1>0, <2>1, StaysBelow
    <3>2. scaleMs'[polled[1]] = scaleMs[polled[1]]
      BY <1>2, <3>1 DEF OverflowMade
    <3>3. w + 1 <= polled[1]
      BY <1>1, <3>1, TimeTypes
    <3> QED
      BY <1>0, <1>3, <1>4, <2>1, <3>2, <3>3 DEF GoingDown, dueMs
  <2>2. CASE th # Boss
    <3>1. AtRest(Boss) /\ pc'[Boss] = pc[Boss]
      BY <1>4, <2>2 DEF Alone
    <3> QED
      BY <3>1 DEF AtRest, GoingDown
  <2> QED
    BY <2>1, <2>2
<1>15. Climbing(th)' /\ HandingOver(th)'
  <2>1. /\ Floor(currentTime[w], I) \in Nat /\ Floor(currentTime[w], I) <= currentTime[w]
    BY <1>1, FloorDiv
  <2>2. Floor(currentTime[w], I) + I <= expireMs[e]
    <3>1. ~(expireMs[e] < currentTime[w] + I)
      OBVIOUS
    <3> HIDE DEF I, e, w
    <3> QED
      BY <1>1, <2>1, <3>1
  <2>3. w + 1 < wheels' /\ currentTime'[w + 1] + scaleMs'[w + 1] <= expireMs[e]
    BY <1>2, <2>2 DEF OverflowMade
  <2> QED
    BY <1>3, <1>4, <2>3 DEF Climbing, HandingOver
<1>16. OneMoves' /\ \A o \in Threads : Climbing(o)' /\ HandingOver(o)'
  BY <1>4, <1>15, OthersRest
<1> QED
  BY <1>8, <1>9, <1>10, <1>12, <1>13, <1>14, <1>16 DEF Serial

\* A bucket whose expiration is set stands for the slot of the entry that is put
\* in it: the turn its wheel is in has one slot of each index.
LEMMA SlotOfEntry ==
  ASSUME Control, Serial, NEW th \in Threads, Alone(th), At(th, "setExpire")
  PROVE  LET b == bkt[th]
             v == Floor(expireMs[ent[th]], scaleMs[wheel[th]])
         IN  /\ b \in Buckets /\ b[1] = wheel[th] /\ v \in Nat
             /\ expiration[b] = v \/ expiration[b] = -1
             /\ InTurn(b[1], v) /\ BucketOf(v, b[1]) = b
             /\ \A j \in Wheels : j <= b[1] => v % scaleMs[j] = 0
<1> DEFINE e == ent[th]
           w == wheel[th]
           b == bkt[th]
           s == scaleMs[w]
           v == Floor(expireMs[e], s)
<1> USE ThreadFacts
<1>1. /\ e \in Entries /\ b \in Buckets /\ w \in Wheels /\ expireMs[e] \in Nat
      /\ s \in Nat \ {0} /\ currentTime[w] \in Nat
      /\ b[1] \in Wheels /\ expiration[b] \in Nat \union {-1}
      /\ WheelSize \in Nat \ {0}
  BY TimeTypes, TimerAssumption DEF Control, ThreadOK, At, AddEntry
<1>2. /\ w < wheels /\ b = BucketOf(expireMs[e], w) /\ InTurn(w, v)
  BY DEF Serial, Climbing, At
<1>3. v \in Nat /\ v % s = 0
  BY <1>1, FloorDiv
<1>4. b[1] = w /\ BucketOf(v, w) = b
  BY <1>1, <1>2, FloorSlot DEF BucketOf
<1>5. ASSUME NEW j \in Wheels, j <= w
      PROVE  v % scaleMs[j] = 0
  <2>1. scaleMs[w] % scaleMs[j] = 0
    BY <1>1, <1>2, <1>5 DEF Serial, Scales
  <2> QED
    BY <1>1, <1>3, <2>1, TimeTypes, MultipleOfMultiple
<1>6. ASSUME expiration[b] # -1
      PROVE  expiration[b] = v
  <2> DEFINE x == expiration[b]
             c == currentTime[w]
  <2>1. SlotOK(b) /\ x \in Nat
    BY <1>1, <1>6 DEF Serial, Slots
  <2>0. c <= currentTime[0] /\ currentTime[0] \in Nat
    <3>1. currentTime[0] \in Nat /\ c = Floor(currentTime[0], s)
      BY <1>1, <1>2, TimeTypes, Standing DEF At, AddEntry
    <3> QED
      BY <1>1, <3>1, FloorDiv
  <2>2. /\ currentTime[0] <= x /\ x < c + s * WheelSize /\ x % s = 0
        /\ BucketOf(x, w) = b
    BY <1>1, <1>4, <2>1, TimeTypes DEF SlotOK, InTurn, interval
  <2>3. currentTime[0] <= v /\ v < c + s * WheelSize
    BY <1>2 DEF InTurn, interval
  <2>4. (x \div s) % WheelSize = (v \div s) % WheelSize
    BY <1>4, <2>2 DEF BucketOf
  <2>5. c % s = 0
    BY <1>1, <1>2, Standing DEF At, AddEntry
  <2> HIDE DEF x, c, s, v
  <2>6. c \in Nat /\ c <= x /\ c <= v /\ s \in Nat \ {0} /\ v % s = 0 /\ v \in Nat
    BY <1>1, <1>3, <2>0, <2>1, <2>2, <2>3 DEF c, s, v
  <2>7. x = v
    BY <1>1, <2>1, <2>2, <2>3, <2>4, <2>5, <2>6, SlotUnique
  <2> QED
    BY <2>7 DEF x
<1> QED
  BY <1>1, <1>2, <1>3, <1>4, <1>5, <1>6

\* TaskBucket.setExpire sets an expiration that is not set, or leaves it.
LEMMA SetExpireSerial ==
  ASSUME Control, Serial, NEW th \in Threads, Alone(th), SetExpire(th)
  PROVE  Serial'
<1> DEFINE e == ent[th]
           b == bkt[th]
           v == Floor(expireMs[ent[th]], scaleMs[wheel[th]])
<1> USE ThreadFacts
<1>0. /\ TypeOK /\ Members /\ GoingDown /\ Flush /\ Scales /\ Clock /\ Slots
      /\ Climbing(th) /\ At(th, "setExpire") /\ pc[Boss] # "advance"
  BY Standing DEF Control, Serial, SetExpire, At, AddEntry
<1>1. /\ b \in Buckets /\ b[1] = wheel[th] /\ v \in Nat /\ e \in Entries
      /\ expiration[b] = v \/ expiration[b] = -1
      /\ InTurn(b[1], v) /\ BucketOf(v, b[1]) = b
      /\ \A j \in Wheels : j <= b[1] => v % scaleMs[j] = 0
      /\ taskBucket[e] = b
  BY <1>0, SlotOfEntry DEF Control, ThreadOK, At, AddEntry, Climbing
<1>2. v # -1 /\ queue[b] \in Nat
  BY <1>1, TimeTypes
<1>3. expiration[b] = -1 => queue[b] = 0
  BY <1>0, <1>1, <1>2 DEF Slots
<1>4. /\ UNCHANGED <<now, scaleMs, currentTime, wheels, queue, polled, taskBucket, expireMs,
                     ent, wheel, bkt>>
      /\ expiration' = [expiration EXCEPT ![b] = v]
      /\ stale' = {}
      /\ pc' = [pc EXCEPT ![th] = IF expiration[b] = v THEN AfterAdd(th) ELSE "offer"]
  <2>1. expiration[b] = v \/ ~(queue[b] > 0)
    BY <1>1, <1>2, <1>3
  <2> HIDE DEF b, v
  <2> QED
    BY <1>0, <2>1 DEF SetExpire, Goto, Slots, taskVars, locals, b, v
<1> HIDE DEF v
<1>5. /\ expiration'[b] = v
      /\ \A o \in Buckets \ {b} : expiration'[o] = expiration[o]
      /\ pc[th] = "setExpire" /\ pc'[th] \in {"flush", "idle", "offer"}
      /\ pc'[th] = "idle" => th # Boss
      /\ pc'[th] = "offer" <=> expiration[b] # v
      /\ \A o \in Threads \ {th} : pc'[o] = pc[o]
  BY <1>0, <1>1, <1>4 DEF TypeOK, At, AfterAdd
<1>6. polled # b
  <2>1. CASE th = Boss
    BY <1>0, <1>5, <2>1 DEF GoingDown
  <2>2. CASE th # Boss
    BY <1>0, <1>1, <2>2 DEF Alone, Flush
  <2> QED
    BY <2>1, <2>2
<1>7. polled # NoBucket => polled \in Buckets /\ dueMs' = dueMs
  BY <1>0, <1>4, <1>5, <1>6 DEF TypeOK, dueMs
<1>8. Scales'
  BY <1>0, <1>4 DEF Scales, interval
<1>9. Clock'
  <2>1. pc'[Boss] # "advance"
    BY <1>0, <1>5
  <2> QED
    BY <1>0, <1>4, <2>1 DEF Clock
<1>10. Flush'
  <2>1. AtRest(Boss)' => AtRest(Boss)
    BY <1>5 DEF AtRest
  <2>2. pc'[Boss] # "advance" /\ pc[Boss] # "advance"
    BY <1>0, <1>5
  <2> QED
    BY <1>0, <1>4, <1>7, <2>1, <2>2 DEF Flush
<1>11. Slots'
  <2>1. ASSUME NEW o \in Buckets
        PROVE  /\ queue'[o] > 0 => queue'[o] = 1 /\ expiration'[o] # -1 /\ o # polled'
               /\ expiration'[o] # -1 =>
                    /\ SlotOK(o)'
                    /\ \/ queue'[o] > 0 \/ polled' = o \/ At(Boss, "dead")'
                       \/ \E t \in Threads : At(t, "offer")' /\ bkt'[t] = o
    <3>1. CASE o = b
      <4>1. SlotOK(o)'
        BY <1>1, <1>4, <1>5, <3>1 DEF SlotOK, InTurn, interval, BucketOf
      <4>2. CASE expiration[b] = v
        BY <1>0, <1>1, <1>2, <1>4, <1>5, <3>1, <4>1, <4>2 DEF Slots, At
      <4>3. CASE expiration[b] # v
        <5>1. At(th, "offer")' /\ bkt'[th] = o /\ ~(queue'[o] > 0)
          BY <1>1, <1>3, <1>4, <1>5, <3>1, <4>3 DEF At
        <5> QED
          BY <4>1, <5>1
      <4> QED
        BY <4>2, <4>3
    <3>2. CASE o # b
      <4>1. expiration'[o] = expiration[o] /\ (SlotOK(o) => SlotOK(o)')
        BY <1>4, <1>5, <3>2 DEF SlotOK, InTurn, interval, BucketOf
      <4>2. At(Boss, "dead") => At(Boss, "dead")'
        BY <1>5 DEF At
      <4>3. \A t \in Threads : At(t, "offer") => At(t, "offer")'
        BY <1>5 DEF At
      <4> QED
        BY <1>0, <1>4, <4>1, <4>2, <4>3 DEF Slots
    <3> QED
      BY <3>1, <3>2
  <2> QED
    BY <1>4, <2>1 DEF Slots
<1>12. Members'
  <2> SUFFICES ASSUME NEW f \in Entries, Linked(f)
               PROVE  expiration'[taskBucket[f]] = Floor(expireMs[f], scaleMs[taskBucket[f][1]])
    BY <1>4 DEF Members, Linked
  <2>1. /\ taskBucket[f] \in Buckets /\ expireMs[f] \in Nat
        /\ scaleMs[taskBucket[f][1]] \in Nat \ {0}
    BY <1>0, TimeTypes DEF TypeOK, Linked
  <2>2. CASE f = e
    BY <1>1, <1>5, <2>2 DEF v
  <2>3. CASE f # e
    <3>1. ~\E t \in Threads : At(t, "setExpire") /\ ent[t] = f
      BY <2>3 DEF Alone, AtRest, At
    <3>2. expiration[taskBucket[f]] = Floor(expireMs[f], scaleMs[taskBucket[f][1]])
      BY <1>0, <3>1 DEF Members
    <3>3. expiration[taskBucket[f]] \in Nat
      BY <2>1, <3>2, FloorDiv
    <3>4. expiration'[taskBucket[f]] = expiration[taskBucket[f]]
      BY <1>1, <1>5, <2>1, <3>3
    <3> QED
      BY <3>2, <3>4
  <2> QED
    BY <2>2, <2>3
<1>13. GoingDown'
  <2>1. CASE th = Boss
    BY <1>4, <1>5, <1>6, <2>1 DEF GoingDown
  <2>2. CASE th # Boss
    <3>1. AtRest(Boss) /\ pc'[Boss] = pc[Boss]
      BY <1>5, <2>2 DEF Alone
    <3> QED
      BY <3>1 DEF AtRest, GoingDown
  <2> QED
    BY <2>1, <2>2
<1>14. Climbing(th)' /\ HandingOver(th)'
  <2>1. pc'[th] = "offer" => expiration'[bkt'[th]] # -1 /\ queue'[bkt'[th]] = 0
    BY <1>1, <1>2, <1>3, <1>4, <1>5
  <2> QED
    BY <1>5, <2>1 DEF Climbing, HandingOver
<1>15. OneMoves' /\ \A o \in Threads : Climbing(o)' /\ HandingOver(o)'
  BY <1>5, <1>14, OthersRest
<1> QED
  BY <1>8, <1>9, <1>10, <1>11, <1>12, <1>13, <1>15 DEF Serial

\* The bucket enters the delay queue.
LEMMA OfferSerial ==
  ASSUME Control, Serial, NEW th \in Threads, Alone(th), Offer(th)
  PROVE  Serial'
<1> DEFINE b == bkt[th]
<1> USE ThreadFacts
<1>0. /\ TypeOK /\ Members /\ GoingDown /\ Flush /\ Scales /\ Clock /\ Slots
      /\ Climbing(th) /\ At(th, "offer") /\ pc[Boss] # "advance"
  BY Standing DEF Control, Serial, Offer, At, AddEntry
<1>1. b \in Buckets /\ expiration[b] # -1 /\ queue[b] = 0
  BY <1>0 DEF Control, ThreadOK, At, AddEntry, Climbing
<1>2. /\ UNCHANGED <<now, scaleMs, currentTime, wheels, expiration, stale, polled, taskBucket,
                     expireMs, ent, wheel, bkt>>
      /\ queue'[b] = 1
      /\ \A o \in Buckets \ {b} : queue'[o] = queue[o]
      /\ pc[th] = "offer" /\ pc'[th] \in {"flush", "idle"}
      /\ pc'[th] = "idle" => th # Boss
      /\ \A o \in Threads \ {th} : pc'[o] = pc[o]
  BY <1>0, <1>1 DEF Offer, Goto, TypeOK, At, AfterAdd, taskVars, locals
<1>3. polled # b
  <2>1. CASE th = Boss
    BY <1>0, <1>2, <2>1 DEF GoingDown
  <2>2. CASE th # Boss
    BY <1>0, <1>1, <2>2 DEF Alone, Flush
  <2> QED
    BY <2>1, <2>2
<1>4. Scales'
  BY <1>0, <1>2 DEF Scales, interval
<1>5. Clock' /\ Flush'
  <2>1. pc'[Boss] # "advance" /\ (AtRest(Boss)' => AtRest(Boss))
    BY <1>0, <1>2 DEF AtRest
  <2> QED
    BY <1>0, <1>2, <2>1 DEF Clock, Flush, dueMs
<1>6. Slots'
  <2>1. ASSUME NEW o \in Buckets
        PROVE  /\ queue'[o] > 0 => queue'[o] = 1 /\ expiration'[o] # -1 /\ o # polled'
               /\ expiration'[o] # -1 =>
                    /\ SlotOK(o)'
                    /\ \/ queue'[o] > 0 \/ polled' = o \/ At(Boss, "dead")'
                       \/ \E t \in Threads : At(t, "offer")' /\ bkt'[t] = o
    <3>1. SlotOK(o) => SlotOK(o)'
      BY <1>2 DEF SlotOK, InTurn, interval, BucketOf
    <3>2. CASE o = b
      BY <1>0, <1>1, <1>2, <1>3, <3>1, <3>2 DEF Slots
    <3>3. CASE o # b
      <4>1. At(Boss, "dead") => At(Boss, "dead")'
        BY <1>2 DEF At
      <4>2. \A t \in Threads : At(t, "offer") /\ bkt[t] = o => At(t, "offer")'
        BY <1>2, <3>3 DEF At
      <4> QED
        BY <1>0, <1>2, <3>1, <3>3, <4>1, <4>2 DEF Slots
    <3> QED
      BY <3>2, <3>3
  <2> QED
    BY <1>0, <1>2, <2>1 DEF Slots
<1>7. Members'
  BY <1>0, <1>2, QuietMembers DEF Linked
<1>8. GoingDown'
  <2>1. CASE th = Boss
    BY <1>2, <2>1 DEF GoingDown
  <2>2. CASE th # Boss
    <3>1. AtRest(Boss) /\ pc'[Boss] = pc[Boss]
      BY <1>2, <2>2 DEF Alone
    <3> QED
      BY <3>1 DEF AtRest, GoingDown
  <2> QED
    BY <2>1, <2>2
<1>9. Climbing(th)' /\ HandingOver(th)'
  BY <1>2 DEF Climbing, HandingOver
<1>10. OneMoves' /\ \A o \in Threads : Climbing(o)' /\ HandingOver(o)'
  BY <1>2, <1>9, OthersRest
<1> QED
  BY <1>4, <1>5, <1>6, <1>7, <1>8, <1>10 DEF Serial

\* The executor refuses the task; the boss dies of it with its bucket in hand.
LEMMA RejectedSerial ==
  ASSUME Control, Serial, NEW th \in Threads, Alone(th), Rejected(th)
  PROVE  Serial'
<1> USE ThreadFacts
<1>0. /\ TypeOK /\ Members /\ GoingDown /\ Flush /\ Scales /\ Clock /\ Slots
      /\ At(th, "submit") /\ pc[Boss] # "advance"
  BY Standing DEF Control, Serial, Rejected, At, AddEntry
<1>1. /\ UNCHANGED <<now, scaleMs, currentTime, wheels, expiration, queue, stale, taskBucket,
                     expireMs, ent, wheel, bkt>>
      /\ pc[th] = "submit" /\ pc'[th] \in {"dead", "idle"}
      /\ th = Boss => pc'[th] = "dead" /\ polled' = NoBucket
      /\ th # Boss => pc'[th] = "idle" /\ polled' = polled
      /\ \A o \in Threads \ {th} : pc'[o] = pc[o]
  BY <1>0 DEF Rejected, Goto, TypeOK, At, taskVars, locals
<1>2. Scales'
  BY <1>0, <1>1 DEF Scales, interval
<1>3. Clock' /\ Flush'
  <2>1. pc'[Boss] # "advance"
    BY <1>0, <1>1
  <2>2. AtRest(Boss)' => polled' = NoBucket
    BY <1>0, <1>1 DEF AtRest, Flush
  <2> QED
    BY <1>0, <1>1, <2>1, <2>2 DEF Clock, Flush, dueMs
<1>4. Slots'
  <2>1. \A o \in Buckets : SlotOK(o) => SlotOK(o)'
    BY <1>1 DEF SlotOK, InTurn, interval, BucketOf
  <2>2. \A o \in Buckets : o # NoBucket
    OBVIOUS
  <2>3. \A t \in Threads : At(t, "offer") => At(t, "offer")'
    BY <1>1 DEF At
  <2>4. CASE th = Boss
    BY <1>0, <1>1, <2>1, <2>2, <2>3, <2>4 DEF Slots, At
  <2>5. CASE th # Boss
    BY <1>0, <1>1, <2>1, <2>3, <2>5 DEF Slots, At
  <2> QED
    BY <2>4, <2>5
<1>5. Members'
  BY <1>0, <1>1, QuietMembers DEF Linked
<1>6. GoingDown'
  BY <1>0, <1>1 DEF GoingDown, Alone, AtRest
<1>7. Climbing(th)' /\ HandingOver(th)'
  BY <1>1 DEF Climbing, HandingOver
<1>8. OneMoves' /\ \A o \in Threads : Climbing(o)' /\ HandingOver(o)'
  BY <1>1, <1>7, OthersRest
<1> QED
  BY <1>2, <1>3, <1>4, <1>5, <1>6, <1>8 DEF Serial

\* The boss takes the least expiration there is.
LEMMA PollSerial ==
  ASSUME Control, Serial, Alone(Boss), NEW b \in Buckets, Poll(b)
  PROVE  Serial'
<1> USE ThreadFacts
<1>0. /\ TypeOK /\ Members /\ Flush /\ Scales /\ Clock /\ Slots
      /\ At(Boss, "poll") /\ Due(b)
  BY DEF Control, Serial, Poll
<1>1. /\ queue[b] = 1 /\ expiration[b] # -1 /\ SlotOK(b) /\ polled = NoBucket /\ stale = {}
      /\ expiration[b] <= now
  BY <1>0 DEF Due, Slots, Flush, At, AtRest
<1>2. /\ UNCHANGED <<now, scaleMs, currentTime, wheels, expiration, taskBucket, expireMs, ent,
                     bkt>>
      /\ queue'[b] = 0
      /\ \A o \in Buckets \ {b} : queue'[o] = queue[o]
      /\ stale' = {} /\ polled' = b /\ wheel'[Boss] = 0
      /\ pc[Boss] = "poll" /\ pc'[Boss] = "advance"
      /\ \A o \in Threads \ {Boss} : pc'[o] = pc[o]
  BY <1>0, <1>1 DEF Poll, Goto, TypeOK, At, taskVars
<1>3. \A o \in Threads : AtRest(o)
  BY <1>2 DEF Alone, AtRest
<1>4. Scales'
  BY <1>0, <1>2 DEF Scales, interval
<1>5. /\ expiration[b] \in Nat /\ b[1] \in Wheels
      /\ currentTime[0] \in Nat /\ wheels \in 1 .. MaxWheels
  BY <1>1, TimeTypes
<1>6. ASSUME NEW o \in Buckets, expiration[o] # -1
      PROVE  expiration[b] <= expiration[o]
  <2>1. queue[o] > 0
    BY <1>0, <1>1, <1>2, <1>3, <1>6 DEF Slots, AtRest, At
  <2> QED
    BY <1>0, <1>1, <2>1 DEF Due
<1>7. currentTime[0] <= expiration[b]
  BY <1>1 DEF SlotOK, InTurn
<1>8. Clock'
  BY <1>0, <1>2, <1>5, <1>6, <1>7, TimeTypes DEF Clock, dueMs
<1>9. Flush'
  BY <1>1, <1>2 DEF Flush, AtRest, dueMs
<1>10. Slots'
  <2>1. \A o \in Buckets : SlotOK(o) => SlotOK(o)'
    BY <1>2 DEF SlotOK, InTurn, interval, BucketOf
  <2>2. \A o \in Buckets : expiration[o] # -1 => queue[o] > 0
    BY <1>0, <1>1, <1>2, <1>3 DEF Slots, AtRest, At
  <2> QED
    BY <1>0, <1>2, <2>1, <2>2 DEF Slots
<1>11. Members'
  BY <1>0, <1>2, QuietMembers DEF Linked
<1>12. GoingDown' /\ Climbing(Boss)' /\ HandingOver(Boss)'
  BY <1>2 DEF GoingDown, Climbing, HandingOver
<1>13. OneMoves' /\ \A o \in Threads : Climbing(o)' /\ HandingOver(o)'
  BY <1>2, <1>12, OthersRest
<1> QED
  BY <1>4, <1>8, <1>9, <1>10, <1>11, <1>12, <1>13 DEF Serial

\* One wheel of TimingWheel.advanceClock: the wheel comes to stand at the time the
\* boss advances to, whether it moves or was there already.
LEMMA AdvanceWheel ==
  ASSUME Control, Serial, Alone(Boss), AdvanceClock
  PROVE  LET k == wheel[Boss]
         IN  /\ polled \in Buckets /\ dueMs \in Nat /\ k \in Wheels /\ k < wheels
             /\ currentTime'[k] = Floor(dueMs, scaleMs[k])
             /\ currentTime[k] <= currentTime'[k]
             /\ \A v \in Wheels \ {k} : currentTime'[v] = currentTime[v]
             /\ \/ /\ pc'[Boss] = "advance" /\ wheel'[Boss] = k + 1 /\ k + 1 < wheels
                \/ /\ pc'[Boss] = "lock" /\ wheel' = wheel
                   /\ k + 1 < wheels => currentTime'[k] = currentTime[k]
<1> DEFINE k == wheel[Boss]
           timeMs == IF k = 0 THEN expiration[polled] ELSE currentTime[k - 1]
           moves == timeMs >= currentTime[k] + scaleMs[k]
<1> USE ThreadFacts
<1>0. TypeOK /\ Flush /\ Scales /\ Clock /\ At(Boss, "advance")
  BY DEF Control, Serial, AdvanceClock
<1>1. polled \in Buckets /\ dueMs \in Nat
  <2>1. polled \in Buckets
    BY <1>0 DEF Control, BossOK, At
  <2>2. dueMs # -1 /\ expiration[polled] \in Nat \union {-1}
    BY <1>0, <2>1, TimeTypes DEF Flush
  <2> QED
    BY <2>1, <2>2 DEF dueMs
<1>2. /\ k \in Wheels /\ k \in Nat /\ k < wheels
      /\ scaleMs[k] \in Nat \ {0} /\ currentTime[k] \in Nat
      /\ currentTime[k] <= dueMs /\ currentTime[k] = Floor(currentTime[k], scaleMs[k])
  BY <1>0, TimeTypes DEF Clock, At
<1>3. currentTime[k] % scaleMs[k] = 0
  <2>1. Floor(currentTime[k], scaleMs[k]) % scaleMs[k] = 0
    BY <1>2, FloorDiv
  <2> QED
    BY <1>2, <2>1
<1>4. timeMs \in Nat /\ Floor(timeMs, scaleMs[k]) = Floor(dueMs, scaleMs[k])
  <2>1. CASE k = 0
    BY <1>1, <2>1 DEF dueMs
  <2>2. CASE k # 0
    <3>1. k - 1 \in Wheels /\ k - 1 < k /\ k - 1 <= k
      BY <1>2, <2>2, TimerAssumption DEF Wheels
    <3>2. currentTime[k - 1] = Floor(dueMs, scaleMs[k - 1])
      BY <1>0, <3>1 DEF Clock, At
    <3>3. scaleMs[k] % scaleMs[k - 1] = 0
      BY <1>0, <1>2, <3>1 DEF Scales
    <3>4. scaleMs[k - 1] \in Nat \ {0} /\ currentTime[k - 1] \in Nat
      BY <3>1, TimeTypes
    <3>5. Floor(Floor(dueMs, scaleMs[k - 1]), scaleMs[k]) = Floor(dueMs, scaleMs[k])
      BY <1>1, <1>2, <3>3, <3>4, FloorFloor
    <3> QED
      BY <2>2, <3>2, <3>4, <3>5
  <2> QED
    BY <2>1, <2>2
<1>5. currentTime[k] <= Floor(dueMs, scaleMs[k]) /\ Floor(dueMs, scaleMs[k]) \in Nat
  BY <1>1, <1>2, FloorMonotone, FloorDiv
<1>6. /\ currentTime' = IF moves
                        THEN [currentTime EXCEPT ![k] = Floor(timeMs, scaleMs[k])]
                        ELSE currentTime
      /\ IF moves /\ k + 1 < wheels
         THEN wheel' = [wheel EXCEPT ![Boss] = k + 1] /\ pc' = pc
         ELSE pc' = [pc EXCEPT ![Boss] = "lock"] /\ wheel' = wheel
  BY DEF AdvanceClock, Goto
<1> HIDE DEF timeMs
<1>7. ~moves => currentTime[k] = Floor(dueMs, scaleMs[k])
  <2> SUFFICES ASSUME ~moves PROVE currentTime[k] = Floor(timeMs, scaleMs[k])
    BY <1>4
  <2> HIDE DEF k
  <2>1. timeMs < currentTime[k] + scaleMs[k]
    BY <1>2, <1>4
  <2>2. Floor(timeMs, scaleMs[k]) <= timeMs
    BY <1>2, <1>4, FloorDiv
  <2>3. currentTime[k] <= timeMs
    BY <1>2, <1>4, <1>5, <2>2
  <2> QED
    BY <1>2, <1>3, <1>4, <2>1, <2>3, FloorUnique
<1> HIDE DEF moves
<1>8. CASE moves
  <2>1. /\ currentTime'[k] = Floor(dueMs, scaleMs[k])
        /\ \A v \in Wheels \ {k} : currentTime'[v] = currentTime[v]
    BY <1>0, <1>2, <1>4, <1>6, <1>8 DEF TypeOK
  <2>2. CASE k + 1 < wheels
    <3>1. pc'[Boss] = "advance" /\ wheel'[Boss] = k + 1
      BY <1>0, <1>6, <1>8, <2>2 DEF TypeOK, At
    <3> QED
      BY <1>1, <1>2, <1>5, <2>1, <2>2, <3>1
  <2>3. CASE ~(k + 1 < wheels)
    <3>1. pc'[Boss] = "lock" /\ wheel' = wheel
      BY <1>0, <1>6, <2>3 DEF TypeOK
    <3> QED
      BY <1>1, <1>2, <1>5, <2>1, <2>3, <3>1
  <2> QED
    BY <2>2, <2>3
<1>9. CASE ~moves
  <2>1. currentTime' = currentTime /\ pc'[Boss] = "lock" /\ wheel' = wheel
    BY <1>0, <1>6, <1>9 DEF TypeOK
  <2> QED
    BY <1>1, <1>2, <1>5, <1>7, <1>9, <2>1
<1> QED
  BY <1>8, <1>9

\* The wheels move one by one, and stand at one time again when the boss is done.
LEMMA AdvanceSerial ==
  ASSUME Control, Serial, Alone(Boss), AdvanceClock
  PROVE  Serial'
<1> DEFINE k == wheel[Boss]
<1> USE ThreadFacts
<1>0. /\ TypeOK /\ Members /\ Flush /\ Scales /\ Clock /\ Slots /\ At(Boss, "advance")
  BY DEF Control, Serial, AdvanceClock
<1>1. /\ polled \in Buckets /\ dueMs \in Nat /\ k \in Wheels /\ k < wheels
      /\ currentTime'[k] = Floor(dueMs, scaleMs[k])
      /\ currentTime[k] <= currentTime'[k]
      /\ \A v \in Wheels \ {k} : currentTime'[v] = currentTime[v]
      /\ \/ /\ pc'[Boss] = "advance" /\ wheel'[Boss] = k + 1 /\ k + 1 < wheels
         \/ /\ pc'[Boss] = "lock" /\ wheel' = wheel
            /\ k + 1 < wheels => currentTime'[k] = currentTime[k]
  BY AdvanceWheel
<1>2. /\ UNCHANGED <<now, scaleMs, wheels, expiration, queue, stale, polled, taskBucket,
                     expireMs, ent, bkt>>
      /\ \A o \in Threads \ {Boss} : pc'[o] = pc[o]
  BY <1>0 DEF AdvanceClock, Goto, TypeOK, taskVars
<1>3. dueMs' = dueMs /\ dueMs <= now /\ polled # NoBucket
  BY <1>0, <1>1, <1>2 DEF Flush, dueMs
<1>4. /\ k \in Nat /\ wheels \in Nat /\ now \in Nat
      /\ \A v \in Wheels : /\ v \in Nat /\ scaleMs[v] \in Nat \ {0}
                           /\ currentTime[v] \in Nat
  BY <1>1, TimeTypes
<1>5. /\ currentTime[k] <= dueMs
      /\ \A v \in Wheels : v < k => currentTime[v] = Floor(dueMs, scaleMs[v])
      /\ \A v \in Wheels : k <= v /\ v < wheels =>
           currentTime[v] = Floor(currentTime[k], scaleMs[v])
      /\ \A b \in Buckets : expiration[b] # -1 => dueMs <= expiration[b]
  BY <1>0 DEF Clock, At
<1>6. ASSUME NEW v \in Wheels, NEW u \in Wheels, v <= u, u < wheels, NEW x \in Nat
      PROVE  Floor(Floor(x, scaleMs[v]), scaleMs[u]) = Floor(x, scaleMs[u])
  <2>1. scaleMs[u] % scaleMs[v] = 0
    BY <1>0, <1>6 DEF Scales
  <2> QED
    BY <1>4, <1>6, <2>1, FloorFloor
<1>7. Scales'
  BY <1>0, <1>2 DEF Scales, interval
<1>8. \A v \in Wheels : v <= k => currentTime'[v] = Floor(dueMs, scaleMs[v])
  BY <1>1, <1>4, <1>5
<1>9. /\ currentTime'[0] \in Nat /\ currentTime'[0] <= now
      /\ \A b \in Buckets : expiration[b] # -1 => currentTime'[0] <= expiration[b]
  <2>1. currentTime'[0] = Floor(dueMs, scaleMs[0])
    BY <1>4, <1>8
  <2>2. currentTime'[0] \in Nat /\ currentTime'[0] <= dueMs
    BY <1>1, <1>4, <2>1, FloorDiv
  <2>3. currentTime'[0] <= now
    BY <1>1, <1>3, <1>4, <2>2
  <2>4. ASSUME NEW b \in Buckets, expiration[b] # -1
        PROVE  currentTime'[0] <= expiration[b]
    BY <1>1, <1>5, <2>2, <2>4, TimeTypes
  <2> QED
    BY <2>2, <2>3, <2>4
<1>10. ASSUME pc'[Boss] = "advance"
       PROVE  Clock' /\ Flush' /\ GoingDown' /\ Climbing(Boss)' /\ HandingOver(Boss)'
  <2>1. wheel'[Boss] = k + 1 /\ k + 1 < wheels /\ k + 1 \in Wheels
    BY <1>1, <1>4, <1>10, WheelNumbers
  <2>2. /\ currentTime'[k + 1] = currentTime[k + 1]
        /\ currentTime[k + 1] = Floor(currentTime[k], scaleMs[k + 1])
    BY <1>1, <1>4, <1>5, <2>1
  <2>3. currentTime[k + 1] <= dueMs
    <3>1. Floor(currentTime[k], scaleMs[k + 1]) <= currentTime[k]
      BY <1>1, <1>4, <2>1, FloorDiv
    <3> QED
      BY <1>1, <1>4, <1>5, <2>1, <2>2, <3>1
  <2>4. ASSUME NEW v \in Wheels, v < k + 1
        PROVE  currentTime'[v] = Floor(dueMs, scaleMs[v])
    BY <1>4, <1>8, <2>4
  <2>5. ASSUME NEW v \in Wheels, k + 1 <= v, v < wheels
        PROVE  currentTime'[v] = Floor(currentTime'[k + 1], scaleMs[v])
    <3>1. v # k /\ k <= v
      BY <1>4, <2>5
    <3>2. currentTime'[v] = Floor(currentTime[k], scaleMs[v])
      BY <1>1, <1>5, <2>5, <3>1
    <3>3. Floor(Floor(currentTime[k], scaleMs[k + 1]), scaleMs[v])
            = Floor(currentTime[k], scaleMs[v])
      BY <1>1, <1>4, <1>6, <2>1, <2>5
    <3> QED
      BY <2>2, <3>2, <3>3
  <2>6. Clock'
    BY <1>2, <1>3, <1>5, <1>9, <1>10, <2>1, <2>2, <2>3, <2>4, <2>5 DEF Clock
  <2>7. Flush'
    BY <1>2, <1>3, <1>0, <1>10 DEF Flush, AtRest
  <2>8. GoingDown' /\ Climbing(Boss)' /\ HandingOver(Boss)'
    BY <1>10 DEF GoingDown, Climbing, HandingOver
  <2> QED
    BY <2>6, <2>7, <2>8
<1>11. ASSUME pc'[Boss] = "lock"
       PROVE  Clock' /\ Flush' /\ GoingDown' /\ Climbing(Boss)' /\ HandingOver(Boss)'
  <2>1. ASSUME NEW v \in Wheels, v < wheels
        PROVE  currentTime'[v] = Floor(dueMs, scaleMs[v])
    <3>1. CASE v <= k
      BY <1>8, <3>1
    <3>2. CASE ~(v <= k)
      <4>1. k + 1 < wheels \/ k + 1 = wheels
        BY <1>1, <1>4
      <4>2. k + 1 < wheels /\ k <= v /\ v # k
        BY <1>4, <2>1, <3>2, <4>1
      <4>3. currentTime[k] = Floor(dueMs, scaleMs[k])
        BY <1>1, <1>11, <4>2
      <4>4. currentTime'[v] = Floor(currentTime[k], scaleMs[v])
        BY <1>1, <1>5, <2>1, <4>2
      <4>5. Floor(Floor(dueMs, scaleMs[k]), scaleMs[v]) = Floor(dueMs, scaleMs[v])
        BY <1>1, <1>6, <2>1, <4>2
      <4> QED
        BY <4>3, <4>4, <4>5
    <3> QED
      BY <3>1, <3>2
  <2>2. ASSUME NEW v \in Wheels, v < wheels
        PROVE  currentTime'[v] = Floor(currentTime'[0], scaleMs[v])
    <3>1. currentTime'[0] = Floor(dueMs, scaleMs[0]) /\ 0 <= v
      BY <1>4, <1>8
    <3>2. Floor(Floor(dueMs, scaleMs[0]), scaleMs[v]) = Floor(dueMs, scaleMs[v])
      BY <1>1, <1>6, <2>2, <3>1
    <3> QED
      BY <2>1, <2>2, <3>1, <3>2
  <2>3. Clock'
    BY <1>2, <1>9, <1>11, <2>2 DEF Clock
  <2>4. Flush'
    BY <1>0, <1>2, <1>3, <1>11, <2>1 DEF Flush, AtRest
  <2>5. GoingDown' /\ Climbing(Boss)' /\ HandingOver(Boss)'
    BY <1>11 DEF GoingDown, Climbing, HandingOver
  <2> QED
    BY <2>3, <2>4, <2>5
<1>12. Slots'
  <2>1. ASSUME NEW b \in Buckets, expiration[b] # -1, SlotOK(b)
        PROVE  SlotOK(b)'
    <3> DEFINE w == b[1]
    <3>1. /\ w \in Wheels /\ interval(w) \in Nat /\ expiration[b] \in Nat \union {-1}
          /\ expiration[b] < currentTime[w] + interval(w)
      BY <2>1, TimeTypes DEF SlotOK, InTurn
    <3>2. currentTime'[w] \in Nat /\ currentTime[w] <= currentTime'[w]
      <4>1. CASE w = k
        <5>1. Floor(dueMs, scaleMs[k]) \in Nat
          BY <1>1, <1>4, FloorDiv
        <5> QED
          BY <1>1, <4>1, <5>1
      <4>2. CASE w # k
        BY <1>1, <1>4, <3>1, <4>2
      <4> QED
        BY <4>1, <4>2
    <3>3. expiration[b] < currentTime'[w] + interval(w)
      BY <1>4, <3>1, <3>2
    <3> QED
      BY <1>2, <1>9, <2>1, <3>3 DEF SlotOK, InTurn, interval, BucketOf
  <2>2. /\ ~At(Boss, "dead") /\ ~At(Boss, "offer")
        /\ \A t \in Threads : At(t, "offer") => At(t, "offer")'
    BY <1>0, <1>2 DEF At
  <2> QED
    BY <1>0, <1>2, <2>1, <2>2 DEF Slots
<1>13. Members'
  BY <1>0, <1>2, QuietMembers DEF Linked, At
<1>14. Clock' /\ Flush' /\ GoingDown' /\ Climbing(Boss)' /\ HandingOver(Boss)'
  BY <1>1, <1>10, <1>11
<1>15. OneMoves' /\ \A o \in Threads : Climbing(o)' /\ HandingOver(o)'
  BY <1>2, <1>14, OthersRest
<1> QED
  BY <1>7, <1>12, <1>13, <1>14, <1>15 DEF Serial

\* The boss enters the bucket, takes an entry out of it, or stops.
LEMMA QuietBossSerial ==
  ASSUME Control, Serial, Alone(Boss),
         Stop \/ BeginFlush \/ \E e \in Entries : FlushEntry(e)
  PROVE  Serial'
<1> USE ThreadFacts
<1>0. /\ TypeOK /\ Members /\ Flush /\ Slots /\ wheels \in 1 .. MaxWheels
  BY TimeTypes DEF Control, Serial
<1>1. /\ UNCHANGED <<now, scaleMs, currentTime, wheels, expiration, queue, stale, polled>>
      /\ UNCHANGED <<baseTask, expireMs, entry, bkt>>
      /\ pc[Boss] \in {"poll", "lock", "flush"}
      /\ pc'[Boss] \in {"stopped", "flush", "cancelled"}
      /\ pc'[Boss] = "stopped" => pc[Boss] = "poll"
      /\ \A o \in Threads \ {Boss} : pc'[o] = pc[o]
      /\ \A e \in Entries : taskBucket'[e] \in {taskBucket[e], NoBucket}
  BY <1>0
  DEF Stop, BeginFlush, FlushEntry, At, Goto, TypeOK, timerVars, taskVars, execVars, locals
<1>2. Scales' /\ Clock' /\ Flush' /\ Slots'
  BY <1>1, TimeTypes, QuietTimer DEF AtRest
<1>3. Members'
  <2>1. \A t \in Threads : pc[t] # "setExpire"
    BY <1>1 DEF Alone, AtRest
  <2> QED
    BY <1>0, <1>1, <2>1, QuietMembers DEF Linked
<1>4. GoingDown' /\ Climbing(Boss)' /\ HandingOver(Boss)'
  <2>1. CASE Stop \/ BeginFlush
    <3>1. pc'[Boss] \in {"stopped", "flush"}
      BY <1>0, <2>1 DEF Stop, BeginFlush, Goto, TypeOK
    <3> QED
      BY <3>1 DEF GoingDown, Climbing, HandingOver
  <2>2. ASSUME NEW e \in Entries, FlushEntry(e)
        PROVE  GoingDown' /\ Climbing(Boss)' /\ HandingOver(Boss)'
    <3>1. /\ pc[Boss] = "flush" /\ pc'[Boss] = "cancelled" /\ taskBucket[e] = polled
          /\ wheel'[Boss] = 0 /\ ent'[Boss] = e
      BY <1>0, <2>2 DEF FlushEntry, At, Goto, TypeOK
    <3>2. polled \in Buckets /\ polled # NoBucket
      BY <3>1 DEF Control, BossOK
    <3>3. /\ polled[1] \in Wheels /\ 0 <= polled[1] /\ scaleMs[polled[1]] \in Nat \ {0}
          /\ expireMs[e] \in Nat
      BY <3>2, TimeTypes
    <3>4. ~\E t \in Threads : At(t, "setExpire") /\ ent[t] = e
      BY <3>1 DEF Alone, AtRest, At
    <3>5. dueMs = Floor(expireMs[e], scaleMs[polled[1]])
      BY <1>0, <3>1, <3>2, <3>4 DEF Members, Linked, dueMs
    <3>6. expireMs[e] < dueMs + scaleMs[polled[1]]
      BY <3>3, <3>5, FloorDiv
    <3> QED
      BY <1>0, <1>1, <3>1, <3>3, <3>6 DEF GoingDown, Climbing, HandingOver, dueMs
  <2> QED
    BY <2>1, <2>2
<1>5. OneMoves' /\ \A o \in Threads : Climbing(o)' /\ HandingOver(o)'
  BY <1>1, <1>4, OthersRest
<1> QED
  BY <1>2, <1>3, <1>4, <1>5 DEF Serial

\* The bucket is empty and its expiration unset.
LEMMA EndFlushSerial ==
  ASSUME Control, Serial, Alone(Boss), EndFlush
  PROVE  Serial'
<1> USE ThreadFacts
<1>0. /\ TypeOK /\ Members /\ Flush /\ Scales /\ Clock /\ Slots /\ At(Boss, "flush")
  BY DEF Control, Serial, EndFlush
<1>1. polled \in Buckets /\ ~(queue[polled] > 0)
  BY <1>0 DEF Control, BossOK, At, Slots
<1>2. /\ UNCHANGED <<now, scaleMs, currentTime, wheels, queue, taskBucket, expireMs, ent,
                     wheel, bkt>>
      /\ expiration'[polled] = -1
      /\ \A o \in Buckets \ {polled} : expiration'[o] = expiration[o]
      /\ stale' = {} /\ polled' = NoBucket
      /\ pc[Boss] = "flush" /\ pc'[Boss] = "poll"
      /\ \A o \in Threads \ {Boss} : pc'[o] = pc[o]
      /\ \A e \in Entries : taskBucket[e] # polled
  BY <1>0, <1>1 DEF EndFlush, Goto, TypeOK, At, Slots, taskVars, locals
<1>3. \A o \in Threads : ~At(o, "offer") /\ ~At(o, "setExpire") /\ ~At(Boss, "dead")
  BY <1>2 DEF Alone, AtRest, At
<1>4. Scales'
  BY <1>0, <1>2 DEF Scales, interval
<1>5. Clock' /\ Flush'
  BY <1>0, <1>2 DEF Clock, Flush
<1>6. Slots'
  <2>1. ASSUME NEW o \in Buckets
        PROVE  /\ queue'[o] > 0 => queue'[o] = 1 /\ expiration'[o] # -1 /\ o # polled'
               /\ expiration'[o] # -1 => SlotOK(o)' /\ queue'[o] > 0
    <3>1. CASE o = polled
      BY <1>1, <1>2, <3>1
    <3>2. CASE o # polled
      <4>1. expiration'[o] = expiration[o] /\ (SlotOK(o) => SlotOK(o)')
        BY <1>2, <3>2 DEF SlotOK, InTurn, interval, BucketOf
      <4> QED
        BY <1>0, <1>2, <1>3, <3>2, <4>1 DEF Slots
    <3> QED
      BY <3>1, <3>2
  <2> QED
    BY <1>2, <2>1 DEF Slots
<1>7. Members'
  <2> SUFFICES ASSUME NEW f \in Entries, Linked(f)
               PROVE  expiration'[taskBucket[f]] = Floor(expireMs[f], scaleMs[taskBucket[f][1]])
    BY <1>2 DEF Members, Linked
  <2>1. taskBucket[f] \in Buckets \ {polled}
    BY <1>0, <1>2 DEF TypeOK, Linked
  <2> QED
    BY <1>0, <1>2, <1>3, <2>1 DEF Members
<1>8. GoingDown' /\ Climbing(Boss)' /\ HandingOver(Boss)'
  BY <1>2 DEF GoingDown, Climbing, HandingOver
<1>9. OneMoves' /\ \A o \in Threads : Climbing(o)' /\ HandingOver(o)'
  BY <1>2, <1>8, OthersRest
<1> QED
  BY <1>4, <1>5, <1>6, <1>7, <1>8, <1>9 DEF Serial

\* The clock, the executor and shutdown.
LEMMA EnvironmentSerial ==
  ASSUME Control, Serial, Environment
  PROVE  Serial'
<1> USE ThreadFacts
<1>0. /\ Members /\ GoingDown /\ OneMoves /\ now \in Nat /\ ScaleMs \in Nat
      /\ \A th \in Threads : Climbing(th) /\ HandingOver(th)
  BY TimeTypes, TimerAssumption DEF Serial
<1>1. /\ UNCHANGED <<scaleMs, currentTime, wheels, expiration, queue, stale, polled, taskVars,
                     pc, locals>>
      /\ now' = now \/ now' = now + 1
  BY DEF Environment, Tick, Work, Shutdown, timerVars
<1>2. now' \in Nat /\ now <= now'
  BY <1>0, <1>1
<1>3. UNCHANGED <<baseTask, expireMs, taskBucket, entry, ent, wheel, bkt>>
  BY <1>1 DEF taskVars, locals
<1>4. Scales' /\ Clock' /\ Flush' /\ Slots'
  BY <1>1, <1>2, <1>3, QuietTimer DEF AtRest
<1>5. Members'
  BY <1>0, <1>1, <1>3, QuietMembers DEF Linked
<1>6. GoingDown' /\ OneMoves'
  BY <1>0, <1>1, <1>3 DEF GoingDown, OneMoves, AtRest, dueMs
<1>7. ASSUME NEW th \in Threads
      PROVE  Climbing(th)' /\ HandingOver(th)'
  <2>1. Climbing(th)'
    BY <1>0, <1>1, <1>3 DEF Climbing, InTurn, interval, BucketOf
  <2>2. pc[th] \in {"recheck", "submit"} => expireMs[ent[th]] \in Nat
    BY TimeTypes DEF Control, ThreadOK, AddEntry
  <2>3. pc[th] \in {"recheck", "submit"} /\ expireMs[ent[th]] < now + ScaleMs
          => expireMs[ent[th]] < now' + ScaleMs
    BY <1>0, <1>2, <2>2
  <2>4. HandingOver(th)'
    BY <1>0, <1>1, <1>3, <2>3 DEF HandingOver, cancelled
  <2> QED
    BY <2>1, <2>4
<1> QED
  BY <1>4, <1>5, <1>6, <1>7 DEF Serial

-----------------------------------------------------------------------------
(* The theorems *)

LEMMA SerialStep == Control /\ Custody /\ Serial /\ [SerialNext]_vars => Serial'
<1> SUFFICES ASSUME Control, Custody, Serial, [SerialNext]_vars PROVE Serial'
  OBVIOUS
<1> USE ThreadFacts
<1>1. ASSUME NEW th \in Threads, Alone(th), AddEntryStep(th)
      PROVE  Serial'
  <2>1. CASE Place(th)
    BY <1>1, <2>1, PlaceHereSerial, PlaceAboveSerial
  <2> QED
    BY <1>1, <2>1, QuietAddSerial, SetExpireSerial, OfferSerial, RejectedSerial
    DEF AddEntryStep
<1>2. ASSUME NEW c \in Callers, Alone(c), Begin(c) \/ CallerStep(c)
      PROVE  Serial'
  BY <1>1, <1>2, CallerSerial DEF Begin, CallerStep
<1>3. CASE Alone(Boss) /\ BossStep
  BY <1>1, <1>3, PollSerial, AdvanceSerial, QuietBossSerial, EndFlushSerial DEF BossStep
<1>4. CASE Environment
  BY <1>4, EnvironmentSerial
<1>5. CASE UNCHANGED vars
  <2>1. /\ UNCHANGED <<now, scaleMs, currentTime, wheels, expiration, queue, stale, polled>>
        /\ UNCHANGED <<baseTask, expireMs, taskBucket, entry, pc, ent, wheel, bkt>>
    BY <1>5 DEF vars, timerVars, taskVars, locals
  <2> QED
    BY <2>1
    DEF Serial, OneMoves, Scales, Clock, Flush, Slots, Members, GoingDown, Climbing,
        HandingOver, AtRest, At, interval, dueMs, InTurn, SlotOK, BucketOf, Linked, cancelled
<1> QED
  BY <1>2, <1>3, <1>4, <1>5 DEF SerialNext

\* The serial timer is the timer.
LEMMA SerialIsTimer == SerialSpec => Spec
<1>1. [SerialNext]_vars => [Next]_vars
  BY DEF SerialNext, Next
<1> QED
  BY <1>1, PTL DEF SerialSpec, Spec

LEMMA SerialInvariant == SerialSpec => []Serial
BY InitSerial, SerialStep, SerialIsTimer, ControlInvariant, CustodyInvariant, PTL
DEF SerialSpec

\* While operations do not overlap, all the entries of a bucket belong to the slot
\* its expiration names (TaskBucket.expiration, TimingWheel.add).
THEOREM BucketsAreSlots == SerialSpec => []SameExpiration
<1>1. Serial => SameExpiration
  <2> SUFFICES ASSUME Serial, NEW e \in Entries, Linked(e)
               PROVE  \/ \E th \in Threads : At(th, "setExpire") /\ bkt[th] = taskBucket[e]
                      \/ expiration[taskBucket[e]]
                           = Floor(expireMs[e], scaleMs[taskBucket[e][1]])
    BY DEF SameExpiration
  <2> QED
    BY DEF Serial, Members, Climbing, At
<1> QED
  BY <1>1, SerialInvariant, PTL

\* While operations do not overlap, the wheels stand at one time, none of them
\* ahead of the clock (TimingWheel.advanceClock, TimingWheel.addOverflowWheel).
THEOREM WheelsStandTogether == SerialSpec => []WheelsAgree
<1>1. Control /\ Serial => WheelsAgree
  <2> SUFFICES ASSUME Control, Serial, pc[Boss] # "advance"
               PROVE  /\ currentTime[0] <= now
                      /\ \A w \in Wheels : w > 0 /\ w < wheels =>
                           currentTime[w] = Floor(currentTime[w - 1], scaleMs[w])
    BY DEF WheelsAgree
  <2>1. Clock /\ Scales
    BY DEF Serial
  <2>2. ASSUME NEW w \in Wheels, w > 0, w < wheels
        PROVE  currentTime[w] = Floor(currentTime[w - 1], scaleMs[w])
    <3>1. w \in Nat /\ w - 1 \in Wheels /\ w - 1 <= w /\ wheels \in Nat /\ w - 1 < wheels
      BY <2>2, TimeTypes, TimerAssumption DEF Wheels
    <3>2. /\ currentTime[w] = Floor(currentTime[0], scaleMs[w])
          /\ currentTime[w - 1] = Floor(currentTime[0], scaleMs[w - 1])
      BY <2>1, <2>2, <3>1 DEF Clock
    <3>3. scaleMs[w] % scaleMs[w - 1] = 0
      BY <2>1, <2>2, <3>1 DEF Scales
    <3>4. /\ currentTime[0] \in Nat /\ scaleMs[w] \in Nat \ {0}
          /\ scaleMs[w - 1] \in Nat \ {0}
      BY <3>1, TimeTypes, ThreadFacts
    <3> QED
      BY <3>2, <3>3, <3>4, FloorFloor
  <2> QED
    BY <2>1, <2>2 DEF Clock
<1> QED
  BY <1>1, SerialInvariant, SerialIsTimer, ControlInvariant, PTL

\* While operations do not overlap, the boss never puts an entry back into the
\* bucket it is emptying (TaskBucket.flush with SystemTimer.addEntry).
THEOREM FlushGoesDown == SerialSpec => []NoReinsertion
<1>1. Serial => NoReinsertion
  BY DEF Serial, GoingDown, NoReinsertion, At
<1> QED
  BY <1>1, SerialInvariant, PTL

\* While operations do not overlap, a task is handed over less than one slot of the
\* root wheel before its time (TimingWheel.add, SystemTimer.addEntry).
THEOREM NothingRunsEarly == SerialSpec => NotEarly
<1>1. Control /\ Serial /\ [SerialNext]_vars =>
        [\A e \in Entries : submitted'[e] > submitted[e] => now + ScaleMs > expireMs[e]]_vars
  <2> SUFFICES ASSUME Control, Serial, SerialNext, NEW e \in Entries,
                      submitted'[e] > submitted[e]
               PROVE  now + ScaleMs > expireMs[e]
    OBVIOUS
  <2>1. PICK th \in Threads : Submit(th)
    <3>1. submitted' # submitted
      BY DEF Control, TypeOK
    <3>2. ~\E c \in Callers : Begin(c)
      BY <3>1 DEF Begin, Cancel, AddTask, execVars
    <3>3. ~Environment
      BY <3>1 DEF Environment, Tick, Work, Shutdown, execVars
    <3>4. ASSUME NEW th \in Threads, AddEntryStep(th)
          PROVE  Submit(th)
      BY <3>1, <3>4
      DEF AddEntryStep, CheckCancelled, CheckExpired, Place, Link, SetExpire, Offer,
          Recheck, Rejected, execVars
    <3>5. CASE \E c \in Callers : CallerStep(c)
      BY <3>1, <3>4, <3>5, ThreadFacts DEF CallerStep, SetEntry, ReadTaskBucket, Unlink, execVars
    <3>6. CASE BossStep
      BY <3>1, <3>4, <3>6, ThreadFacts
      DEF BossStep, Poll, Stop, AdvanceClock, BeginFlush, FlushEntry, EndFlush, execVars
    <3> QED
      BY <3>2, <3>3, <3>5, <3>6 DEF SerialNext
  <2>2. e = ent[th] /\ pc[th] = "submit"
    BY <2>1 DEF Submit, At, Control, TypeOK
  <2>3. expireMs[e] < now + ScaleMs
    BY <2>2 DEF Serial, HandingOver
  <2> QED
    BY <2>3, TimeTypes, TimerAssumption
<1> QED
  BY <1>1, SerialInvariant, SerialIsTimer, ControlInvariant, PTL DEF SerialSpec, NotEarly
=============================================================================
