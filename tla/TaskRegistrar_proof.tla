------------------------- MODULE TaskRegistrar_proof -------------------------
(***************************************************************************)
(* Proofs about TaskRegistrar: what fires is what the maps hold and what   *)
(* the loaded list wants.                                                  *)
(*                                                                         *)
(* Three parts of one inductive invariant.  Keys: a future is known by one *)
(* key, that of its nid or one of its own.  Schedules: what fires is held, *)
(* what is held fires.  Progress: what the loops have passed is settled.   *)
(***************************************************************************)
EXTENDS TaskRegistrar, TLAPS

-----------------------------------------------------------------------------
(* The inductive invariant *)

Held(n) == scheduledFutures[n] # NoFuture

\* The refresh is between scheduling a future for n and putting it in the maps.
Replacing(n) == phase = "put" /\ nid[fresh] = n

\* What nobody has asked the scheduler for is nowhere.
UnusedNowhere ==
  \A f \in Futures : Unused(f) =>
    /\ nid[f] = NoNid
    /\ f # fresh
    /\ f \notin onceFutures
    /\ \A n \in Nids : scheduledFutures[n] # f
    /\ \A a \in Adders : adding[a] # f

\* A future under a nid runs its task, with the expression noted beside it.
HeldOK == \A n \in Nids : Held(n) =>
  /\ nid[scheduledFutures[n]] = n
  /\ cron[scheduledFutures[n]] = cronTaskMap[n]

\* A future on its way to a key of its own runs no cron task.
AddingOK == \A a \in Adders : adding[a] # NoFuture => nid[adding[a]] = NoNid

\* Among the keys a loop has to visit only those of one-shot futures are no nids.
VisitOK == \A f \in toVisit \intersect Futures : nid[f] = NoNid /\ ~Unused(f)

Keys == UnusedNowhere /\ HeldOK /\ AddingOK /\ VisitOK

\* A held future fires until destroy, or until another one takes its place.
HeldFires ==
  \A n \in Nids : Held(n) =>
    IF Replacing(n) THEN ~Waiting(scheduledFutures[n])
    ELSE destroyed \/ Waiting(scheduledFutures[n])

\* The future of a replacement fires already, as the loaded list wants it.
FreshOK ==
  /\ phase = "put" <=> fresh # NoFuture
  /\ phase = "put" =>
       /\ nid[fresh] \in toVisit \intersect Nids
       /\ cron[fresh] = taskList[nid[fresh]]
       /\ Waiting(fresh)

Schedules == NoOrphan /\ HeldFires /\ FreshOK

\* Keys the first loop has passed are enabled, those the second has passed have the
\* expression of the list.
Progress ==
  /\ phase = "idle" => toVisit = {}
  /\ phase \in {"add", "put"} => toVisit = toVisit \intersect Enabled(taskList)
  /\ \A n \in Nids : Held(n) => 
       /\ n \in Enabled(taskList) \/ (phase = "remove" /\ n \in toVisit)
       /\ phase # "remove" /\ n \notin toVisit => cronTaskMap[n] = taskList[n]

IInv == TypeOK /\ Keys /\ Schedules /\ Progress

-----------------------------------------------------------------------------
(* Every step preserves it *)

\* Nothing is scheduled, held or loaded at the start.
LEMMA InitIInv == Init => IInv
<1> SUFFICES ASSUME Init PROVE IInv
  OBVIOUS
<1>1. TypeOK
  BY RegistrarAssumption DEF Init, TypeOK, Configs
<1>2. Keys
  BY RegistrarAssumption DEF Init, Keys, UnusedNowhere, HeldOK, AddingOK, VisitOK, Held, Unused
<1>3. Schedules
  BY DEF Init, Schedules, NoOrphan, HeldFires, FreshOK, Held, Waiting
<1>4. Progress
  BY DEF Init, Progress, Held
<1> QED
  BY <1>1, <1>2, <1>3, <1>4 DEF IInv

\* What the refresh, once begun, does with the table does not concern the maps.
LEMMA EditTaskConfigStep ==
  ASSUME IInv, NEW n \in Nids, NEW c \in Crons \union {NoCron}, EditTaskConfig(n, c)
  PROVE  IInv'
<1> USE DEF EditTaskConfig, IInv, maps, futures, refresh
<1>1. TypeOK'
  BY DEF TypeOK, Configs
<1>2. Keys'
  BY DEF Keys, UnusedNowhere, HeldOK, AddingOK, VisitOK, Held, Unused
<1>3. Schedules'
  BY DEF Schedules, NoOrphan, HeldFires, FreshOK, Held, Waiting, Replacing
<1>4. Progress'
  BY DEF Progress, Held, Enabled
<1> QED
  BY <1>1, <1>2, <1>3, <1>4

\* The first loop has every key that is held before it.
LEMMA LoadStep ==
  ASSUME IInv, LoadOrRefreshTask
  PROVE  IInv'
<1> USE DEF LoadOrRefreshTask, IInv, maps, futures
<1>1. TypeOK'
  BY DEF TypeOK, Configs
<1>2. Keys'
  BY RegistrarAssumption DEF Keys, UnusedNowhere, HeldOK, AddingOK, VisitOK, Held, Unused, TypeOK
<1>3. Schedules'
  BY DEF Schedules, NoOrphan, HeldFires, FreshOK, Held, Waiting, Replacing
<1>4. Progress'
  BY DEF Progress, Held
<1> QED
  BY <1>1, <1>2, <1>3, <1>4

\* A future that is cancelled is not heard of again; one that is enabled stays.
LEMMA RemoveCronStep ==
  ASSUME IInv, NEW n \in Nids, RemoveCron(n)
  PROVE  IInv'
<1> USE DEF RemoveCron, IInv
<1>1. TypeOK'
  BY DEF TypeOK, Configs, AfterCancel
<1>2. \A f \in Futures : future'[f] = future[f] \/ future'[f] \in {"done", "cancelled"}
  BY DEF TypeOK, AfterCancel
<1>3. \A m \in Nids : scheduledFutures'[m] \in {scheduledFutures[m], NoFuture}
  BY DEF TypeOK
<1>4. Keys'
  <2>1. UnusedNowhere'
    BY <1>2, <1>3, RegistrarAssumption DEF Keys, UnusedNowhere, Unused
  <2>2. HeldOK'
    BY <1>3 DEF Keys, HeldOK, Held
  <2>3. AddingOK'
    BY DEF Keys, AddingOK
  <2>4. VisitOK'
    BY <1>2, RegistrarAssumption DEF Keys, VisitOK, Unused
  <2> QED
    BY <2>1, <2>2, <2>3, <2>4 DEF Keys
<1>5. Schedules'
  <2>1. NoOrphan'
    BY DEF Schedules, NoOrphan, Waiting, AfterCancel, TypeOK
  <2>2. HeldFires'
    BY DEF Schedules, HeldFires, Keys, HeldOK, Held, Waiting, Replacing, AfterCancel, TypeOK
  <2>3. FreshOK'
    BY DEF Schedules, FreshOK, TypeOK
  <2> QED
    BY <2>1, <2>2, <2>3 DEF Schedules
<1>6. Progress'
  BY DEF Progress, Held, Enabled, TypeOK
<1> QED
  BY <1>1, <1>4, <1>5, <1>6

\* A one-shot future is under no nid.
LEMMA RemoveOnceStep ==
  ASSUME IInv, NEW f \in Futures, RemoveOnce(f)
  PROVE  IInv'
<1> USE DEF RemoveOnce, IInv
<1>1. TypeOK'
  BY DEF TypeOK, Configs, AfterCancel
<1>2. \A g \in Futures : future'[g] = future[g] \/ future'[g] \in {"done", "cancelled"}
  BY DEF TypeOK, AfterCancel
<1>3. Keys'
  BY <1>2 DEF Keys, UnusedNowhere, HeldOK, AddingOK, VisitOK, Held, Unused
<1>4. nid[f] = NoNid
  BY DEF Keys, VisitOK
<1>5. Schedules'
  <2>1. NoOrphan'
    BY <1>2 DEF Schedules, NoOrphan, Waiting
  <2>2. HeldFires'
    BY <1>4, RegistrarAssumption
    DEF Schedules, HeldFires, Keys, HeldOK, Held, Waiting, Replacing, TypeOK
  <2>3. FreshOK'
    BY DEF Schedules, FreshOK
  <2> QED
    BY <2>1, <2>2, <2>3 DEF Schedules
<1>6. Progress'
  BY RegistrarAssumption DEF Progress, Held
<1> QED
  BY <1>1, <1>3, <1>5, <1>6

\* Only enabled keys are left in the map, and nobody puts one while the loop ends.
LEMMA EndRemoveStep ==
  ASSUME IInv, EndRemove
  PROVE  IInv'
<1> USE DEF EndRemove, IInv, maps, futures
<1>1. TypeOK'
  BY DEF TypeOK, Configs, Enabled
<1>2. Keys'
  BY RegistrarAssumption
  DEF Keys, UnusedNowhere, HeldOK, AddingOK, VisitOK, Held, Unused, Enabled
<1>3. Schedules'
  BY DEF Schedules, NoOrphan, HeldFires, FreshOK, Held, Waiting, Replacing
<1>4. Progress'
  BY DEF Progress, Held, Enabled
<1> QED
  BY <1>1, <1>2, <1>3, <1>4

\* A task is kept if it runs as the list wants, else a future nobody knows runs it
\* and the one held for it does no more.
LEMMA AddCronTaskStep ==
  ASSUME IInv, NEW n \in Nids, AddCronTask(n)
  PROVE  IInv'
<1> USE DEF IInv, maps
<1>1. CASE cronTaskMap[n] = taskList[n]
  <2> USE <1>1 DEF AddCronTask
  <2>1. TypeOK'
    BY DEF TypeOK, Configs
  <2>2. Keys'
    BY DEF Keys, UnusedNowhere, HeldOK, AddingOK, VisitOK, Held, Unused
  <2>3. Schedules'
    BY DEF Schedules, NoOrphan, HeldFires, FreshOK, Held, Waiting, Replacing
  <2>4. Progress'
    BY DEF Progress, Held, Enabled
  <2> QED
    BY <2>1, <2>2, <2>3, <2>4
<1>2. CASE cronTaskMap[n] # taskList[n]
  <2>1. PICK f \in Futures :
          /\ Unused(f)
          /\ nid' = [nid EXCEPT ![f] = n]
          /\ cron' = [cron EXCEPT ![f] = taskList[n]]
          /\ future' = [g \in Futures |->
                          IF g = f THEN "waiting"
                          ELSE IF g = scheduledFutures[n] THEN AfterCancel(future[g])
                          ELSE future[g]]
          /\ fresh' = f
          /\ phase' = "put"
          /\ UNCHANGED toVisit
    BY <1>2 DEF AddCronTask
  <2>2. /\ phase = "add"
        /\ n \in toVisit
        /\ UNCHANGED <<config, maps, running, taskList, adding, destroyed>>
    BY DEF AddCronTask
  <2>3. /\ nid[f] = NoNid /\ f # fresh /\ f \notin onceFutures
        /\ \A m \in Nids : scheduledFutures[m] # f
        /\ \A a \in Adders : adding[a] # f
        /\ f \notin toVisit
    BY <2>1 DEF Keys, UnusedNowhere, VisitOK
  <2>4. /\ \A g \in Futures \ {f} : nid'[g] = nid[g] /\ cron'[g] = cron[g]
        /\ nid'[f] = n /\ cron'[f] = taskList[n] /\ future'[f] = "waiting"
    BY <2>1 DEF TypeOK
  <2>5. \A g \in Futures \ {f} : Unused(g)' => Unused(g)
    BY <2>1 DEF Unused, AfterCancel
  <2>6. \A m \in Nids : Held(m) => scheduledFutures[m] \in Futures \ {f}
    BY <2>3 DEF Held, TypeOK
  <2>7. TypeOK'
    BY <2>1, <2>2, <2>3 DEF TypeOK, Configs, AfterCancel
  <2>8. Keys'
    <3>1. UnusedNowhere'
      BY <2>1, <2>2, <2>4, <2>5 DEF Keys, UnusedNowhere, Unused
    <3>2. HeldOK'
      BY <2>2, <2>4, <2>6 DEF Keys, HeldOK, Held
    <3>3. AddingOK'
      BY <2>2, <2>3, <2>4 DEF Keys, AddingOK, TypeOK
    <3>4. VisitOK'
      BY <2>1, <2>2, <2>3, <2>4, <2>5 DEF Keys, VisitOK
    <3> QED
      BY <3>1, <3>2, <3>3, <3>4 DEF Keys
  <2>9. Schedules'
    <3>1. fresh = NoFuture /\ nid'[fresh'] = n
      BY <2>1, <2>2, <2>4 DEF Schedules, FreshOK
    <3>2. NoOrphan'
      BY <2>1, <2>2, <2>4, <3>1, RegistrarAssumption
      DEF Schedules, NoOrphan, Waiting, AfterCancel
    <3>3. HeldFires'
      <4> SUFFICES ASSUME NEW m \in Nids, Held(m)
                   PROVE  IF m = n THEN future'[scheduledFutures[m]] # "waiting"
                          ELSE destroyed \/ future'[scheduledFutures[m]] = "waiting"
        BY <2>1, <2>2, <3>1 DEF HeldFires, Held, Replacing, Waiting
      <4> DEFINE g == scheduledFutures[m]
      <4>1. g \in Futures /\ g # f /\ nid[g] = m
        BY <2>6 DEF Keys, HeldOK
      <4>2. CASE m = n
        BY <2>1, <4>1, <4>2 DEF AfterCancel
      <4>3. CASE m # n
        <5>1. g # scheduledFutures[n]
          BY <4>1, <4>3, RegistrarAssumption DEF Keys, HeldOK, Held
        <5>2. future'[g] = future[g]
          BY <2>1, <4>1, <5>1
        <5> QED
          BY <2>2, <4>3, <5>2 DEF Schedules, HeldFires, Replacing, Waiting
      <4> QED
        BY <4>2, <4>3
    <3>4. FreshOK'
      BY <2>1, <2>2, <2>4, RegistrarAssumption DEF FreshOK, Waiting
    <3> QED
      BY <3>2, <3>3, <3>4 DEF Schedules
  <2>10. Progress'
    BY <2>1, <2>2 DEF Progress, Held, Enabled
  <2> QED
    BY <2>7, <2>8, <2>9, <2>10
<1> QED
  BY <1>1, <1>2

\* The maps get the nid of the future that runs it, in the expression of the list.
LEMMA PutCronTaskStep ==
  ASSUME IInv, PutCronTask
  PROVE  IInv'
<1> DEFINE n == nid[fresh]
<1> USE DEF IInv, futures
<1>1. /\ phase = "put"
      /\ scheduledFutures' = [scheduledFutures EXCEPT ![n] = fresh]
      /\ cronTaskMap' = [cronTaskMap EXCEPT ![n] = taskList[n]]
      /\ toVisit' = toVisit \ {n}
      /\ fresh' = NoFuture
      /\ phase' = "add"
      /\ UNCHANGED <<config, onceFutures, nid, cron, future, running, taskList,
                     adding, destroyed>>
  BY DEF PutCronTask
<1>2. /\ fresh \in Futures /\ Waiting(fresh) /\ cron[fresh] = taskList[n]
      /\ n \in toVisit \intersect Nids
  BY <1>1 DEF Schedules, FreshOK, TypeOK
<1>3. /\ scheduledFutures'[n] = fresh /\ cronTaskMap'[n] = taskList[n]
      /\ \A m \in Nids \ {n} : /\ scheduledFutures'[m] = scheduledFutures[m]
                               /\ cronTaskMap'[m] = cronTaskMap[m]
  BY <1>1, <1>2 DEF TypeOK, Configs
<1> HIDE DEF n
<1>4. TypeOK'
  BY <1>1, <1>2 DEF TypeOK, Configs
<1>5. Keys'
  <2>1. UnusedNowhere'
    BY <1>1, <1>2, <1>3, RegistrarAssumption DEF Keys, UnusedNowhere, Unused
  <2>2. HeldOK'
    BY <1>1, <1>2, <1>3 DEF Keys, HeldOK, Held, n
  <2>3. AddingOK'
    BY <1>1 DEF Keys, AddingOK
  <2>4. VisitOK'
    BY <1>1 DEF Keys, VisitOK, Unused
  <2> QED
    BY <2>1, <2>2, <2>3, <2>4 DEF Keys
<1>6. Schedules'
  <2>1. NoOrphan'
    <3> SUFFICES ASSUME NEW f \in Futures, Waiting(f), nid[f] # NoNid, f # fresh
                 PROVE  scheduledFutures'[nid[f]] = f
      BY <1>1, <1>2, <1>3 DEF NoOrphan, Waiting, n
    <3>1. nid[f] \in Nids /\ scheduledFutures[nid[f]] = f
      BY DEF Schedules, NoOrphan, TypeOK
    <3>2. nid[f] # n
      BY <1>1, <1>2, <3>1, RegistrarAssumption
      DEF Schedules, HeldFires, Held, Replacing, n
    <3> QED
      BY <1>3, <3>1, <3>2
  <2>2. HeldFires'
    BY <1>1, <1>2, <1>3 DEF Schedules, HeldFires, Held, Replacing, Waiting, n
  <2>3. FreshOK'
    BY <1>1 DEF FreshOK
  <2> QED
    BY <2>1, <2>2, <2>3 DEF Schedules
<1>7. Progress'
  BY <1>1, <1>2, <1>3 DEF Progress, Held, Enabled
<1> QED
  BY <1>4, <1>5, <1>6, <1>7

\* With nothing left to visit every key held has the expression of the list.
LEMMA EndRefreshStep ==
  ASSUME IInv, EndRefresh
  PROVE  IInv'
<1> USE DEF EndRefresh, IInv, maps, futures
<1>1. TypeOK'
  BY DEF TypeOK, Configs
<1>2. Keys'
  BY DEF Keys, UnusedNowhere, HeldOK, AddingOK, VisitOK, Held, Unused
<1>3. Schedules'
  BY DEF Schedules, NoOrphan, HeldFires, FreshOK, Held, Waiting, Replacing
<1>4. Progress'
  BY DEF Progress, Held
<1> QED
  BY <1>1, <1>2, <1>3, <1>4

\* A one-shot future runs no cron task.
LEMMA ScheduleOnceStep ==
  ASSUME IInv, NEW a \in Adders, ScheduleOnce(a)
  PROVE  IInv'
<1>1. PICK f \in Futures :
        /\ Unused(f)
        /\ future' = [future EXCEPT ![f] = "waiting"]
        /\ adding' = [adding EXCEPT ![a] = f]
  BY DEF ScheduleOnce
<1>2. UNCHANGED <<config, maps, nid, cron, running, refresh, destroyed>>
  BY DEF ScheduleOnce
<1> USE <1>2 DEF IInv, maps, refresh
<1>3. /\ nid[f] = NoNid /\ f # fresh
      /\ \A n \in Nids : scheduledFutures[n] # f
  BY <1>1 DEF Keys, UnusedNowhere
<1>4. /\ \A g \in Futures \ {f} : future'[g] = future[g]
      /\ future'[f] = "waiting"
      /\ \A b \in Adders : adding'[b] = IF b = a THEN f ELSE adding[b]
  BY <1>1 DEF TypeOK
<1>5. TypeOK'
  BY <1>1 DEF TypeOK, Configs
<1>6. Keys'
  BY <1>3, <1>4 DEF Keys, UnusedNowhere, HeldOK, AddingOK, VisitOK, Held, Unused
<1>7. Schedules'
  BY <1>3, <1>4
  DEF Schedules, NoOrphan, HeldFires, FreshOK, Held, Waiting, Replacing, TypeOK
<1>8. Progress'
  BY DEF Progress, Held
<1> QED
  BY <1>5, <1>6, <1>7, <1>8

\* Its key is its own: the maps of the cron tasks do not change.
LEMMA PutOnceStep ==
  ASSUME IInv, NEW a \in Adders, PutOnce(a)
  PROVE  IInv'
<1> USE DEF PutOnce, IInv, futures, refresh
<1>1. adding[a] \in Futures /\ nid[adding[a]] = NoNid
  BY DEF Keys, AddingOK, TypeOK
<1>2. TypeOK'
  BY <1>1 DEF TypeOK, Configs
<1>3. Keys'
  BY <1>1, RegistrarAssumption
  DEF Keys, UnusedNowhere, HeldOK, AddingOK, VisitOK, Held, Unused, TypeOK
<1>4. Schedules'
  BY DEF Schedules, NoOrphan, HeldFires, FreshOK, Held, Waiting, Replacing
<1>5. Progress'
  BY DEF Progress, Held
<1> QED
  BY <1>2, <1>3, <1>4, <1>5

\* A run begins; what fires and what is held stays.
LEMMA FireStep ==
  ASSUME IInv, NEW f \in Futures, Fire(f)
  PROVE  IInv'
<1> USE DEF Fire, IInv, maps, refresh
<1>1. TypeOK'
  BY DEF TypeOK, Configs
<1>2. Keys'
  BY DEF Keys, UnusedNowhere, HeldOK, AddingOK, VisitOK, Held, Unused
<1>3. Schedules'
  BY DEF Schedules, NoOrphan, HeldFires, FreshOK, Held, Waiting, Replacing
<1>4. Progress'
  BY DEF Progress, Held
<1> QED
  BY <1>1, <1>2, <1>3, <1>4

\* A run ends; only a one-shot future is done with it, and no nid holds one.
LEMMA FinishStep ==
  ASSUME IInv, NEW f \in Futures, Finish(f)
  PROVE  IInv'
<1> USE DEF Finish, IInv, maps, refresh
<1>1. \A g \in Futures :
        \/ future'[g] = future[g]
        \/ g = f /\ nid[g] = NoNid /\ Waiting(g) /\ future'[g] = "done"
  BY DEF TypeOK, Waiting
<1>2. TypeOK'
  BY DEF TypeOK, Configs
<1>3. Keys'
  BY <1>1 DEF Keys, UnusedNowhere, HeldOK, AddingOK, VisitOK, Held, Unused
<1>4. Schedules'
  <2>1. NoOrphan'
    BY <1>1 DEF Schedules, NoOrphan, Waiting
  <2>2. HeldFires'
    BY <1>1, RegistrarAssumption
    DEF Schedules, HeldFires, Keys, HeldOK, Held, Waiting, Replacing, TypeOK
  <2>3. FreshOK'
    BY <1>1, RegistrarAssumption DEF Schedules, FreshOK, Waiting, TypeOK
  <2> QED
    BY <2>1, <2>2, <2>3 DEF Schedules
<1>5. Progress'
  BY DEF Progress, Held
<1> QED
  BY <1>2, <1>3, <1>4, <1>5

\* The future on its way into the map is not among those destroy finds there.
LEMMA DestroyStep ==
  ASSUME IInv, Destroy
  PROVE  IInv'
<1> USE DEF Destroy, IInv, maps, refresh
<1> DEFINE known == {scheduledFutures[n] : n \in Nids} \union onceFutures
<1>1. \A f \in Futures :
        future'[f] = IF f \in known THEN AfterCancel(future[f]) ELSE future[f]
  OBVIOUS
<1>2. phase = "put" => fresh \notin known
  <2> SUFFICES ASSUME phase = "put" PROVE fresh \notin known
    OBVIOUS
  <2>1. nid[fresh] \in Nids /\ Waiting(fresh) /\ fresh # NoFuture
    BY DEF Schedules, FreshOK
  <2>2. fresh \notin onceFutures
    BY <2>1, RegistrarAssumption DEF TypeOK
  <2>3. ASSUME NEW n \in Nids PROVE scheduledFutures[n] # fresh
    BY <2>1 DEF Keys, HeldOK, Schedules, HeldFires, Held, Replacing
  <2> QED
    BY <2>2, <2>3
<1>3. TypeOK'
  <2>1. future' \in [Futures -> {"unused", "waiting", "cancelled", "done"}]
    BY DEF TypeOK, AfterCancel
  <2> QED
    BY <2>1 DEF TypeOK, Configs
<1> HIDE DEF known
<1>4. \A f \in Futures : /\ Unused(f)' => Unused(f)
                         /\ Waiting(f)' => Waiting(f)
  BY <1>1 DEF Unused, Waiting, AfterCancel
<1>5. Keys'
  BY <1>1, <1>4 DEF Keys, UnusedNowhere, HeldOK, AddingOK, VisitOK, Held
<1>6. Schedules'
  <2>1. NoOrphan'
    BY <1>4 DEF Schedules, NoOrphan
  <2>2. HeldFires'
    BY <1>4 DEF Schedules, HeldFires, Held, Replacing, TypeOK
  <2>3. FreshOK'
    BY <1>1, <1>2 DEF Schedules, FreshOK, Waiting, TypeOK
  <2> QED
    BY <2>1, <2>2, <2>3 DEF Schedules
<1>7. Progress'
  BY DEF Progress, Held
<1> QED
  BY <1>3, <1>5, <1>6, <1>7

LEMMA NextIInv == IInv /\ [Next]_vars => IInv'
<1> SUFFICES ASSUME IInv, [Next]_vars PROVE IInv'
  OBVIOUS
<1>1. CASE Next
  BY <1>1, EditTaskConfigStep, LoadStep, RemoveCronStep, AddCronTaskStep, RemoveOnceStep,
     FireStep, FinishStep, EndRemoveStep, PutCronTaskStep, EndRefreshStep, DestroyStep,
     ScheduleOnceStep, PutOnceStep
  DEF Next
<1>2. CASE UNCHANGED vars
  <2> USE <1>2 DEF vars, maps, futures, refresh, IInv
  <2>1. TypeOK'
    BY DEF TypeOK, Configs
  <2>2. Keys'
    BY DEF Keys, UnusedNowhere, HeldOK, AddingOK, VisitOK, Held, Unused
  <2>3. Schedules'
    BY DEF Schedules, NoOrphan, HeldFires, FreshOK, Held, Waiting, Replacing
  <2>4. Progress'
    BY DEF Progress, Held
  <2> QED
    BY <2>1, <2>2, <2>3, <2>4
<1> QED
  BY <1>1, <1>2

LEMMA Inductive == Spec => []IInv
BY InitIInv, NextIInv, PTL DEF Spec

-----------------------------------------------------------------------------
(* What it implies *)

\* However refreshes, edits, one-shot tasks, runs and destroy interleave, every variable
\* keeps its type: in particular no cron task is ever among the one-shot futures.
THEOREM TypeCorrect == Spec => []TypeOK
<1>1. IInv => TypeOK
  BY DEF IInv
<1> QED
  BY <1>1, Inductive, PTL

\* A cron schedule that still fires is the one scheduledFutures has for its nid, or the
\* refresh is about to put it there: cancelling what the map holds leaves none behind.
THEOREM NothingOrphaned == Spec => []NoOrphan
<1>1. IInv => NoOrphan
  BY DEF IInv, Schedules
<1> QED
  BY <1>1, Inductive, PTL

\* Between refreshes every cron schedule that fires has the expression its row had in
\* the list loaded last: disabled tasks and old expressions are gone.
THEOREM NothingOutdated == Spec => []NoOutdatedSchedule
<1>1. IInv => NoOutdatedSchedule
  <2> SUFFICES ASSUME IInv, phase = "idle",
                      NEW f \in Futures, Waiting(f), nid[f] # NoNid
               PROVE  cron[f] = taskList[nid[f]]
    BY DEF NoOutdatedSchedule
  <2>1. nid[f] \in Nids /\ scheduledFutures[nid[f]] = f
    BY RegistrarAssumption DEF IInv, TypeOK, Schedules, NoOrphan, FreshOK
  <2>2. Held(nid[f]) /\ toVisit = {}
    BY <2>1, RegistrarAssumption DEF IInv, Held, Progress
  <2> QED
    BY <2>1, <2>2 DEF IInv, Keys, HeldOK, Progress
<1> QED
  BY <1>1, Inductive, PTL

\* Until destroy, a nid whose key is in scheduledFutures and is not being replaced has a
\* live schedule in just the expression cronTaskMap gives, so skipping it is sound.
THEOREM SkippingSound == Spec => []SkipIsSound
<1>1. IInv => SkipIsSound
  BY DEF IInv, SkipIsSound, Keys, HeldOK, Schedules, HeldFires, Held, Replacing
<1> QED
  BY <1>1, Inductive, PTL
=============================================================================
