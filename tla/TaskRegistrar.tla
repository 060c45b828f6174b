---------------------------- MODULE TaskRegistrar ----------------------------
(***************************************************************************)
(* SystemTaskRegistrar: the cron tasks of the task_config table and the    *)
(* one-shot tasks, scheduled on Spring's TaskScheduler.                    *)
(*                                                                         *)
(* loadOrRefreshTask is synchronized, so one refresh runs at a time, but   *)
(* administrators edit the table, one-shot tasks are added by addTask and  *)
(* the scheduler runs tasks while it does; nor does destroy wait for it.   *)
(* cronTaskMap and scheduledFutures are concurrent maps: an access of one  *)
(* is an action.                                                           *)
(***************************************************************************)
EXTENDS Integers, FiniteSets

CONSTANTS
  Nids,       \* the nid of each row of task_config, a key of scheduledFutures
  Crons,      \* cron expressions
  Futures,    \* ScheduledFuture objects the scheduler may hand out
  Adders,     \* threads calling addTask (TestJobService runs on the scheduler)
  NoCron, NoNid, NoFuture

ASSUME RegistrarAssumption ==
  /\ NoCron \notin Crons
  /\ NoNid \notin Nids
  /\ NoFuture \notin Futures
  /\ Nids \intersect Futures = {}   \* a future stands for its "nid-counter" key, which is no nid

VARIABLES
  config,     \* task_config: the expression of each enabled nid, else NoCron
  cronTaskMap,      \* the expression each nid was last scheduled with
  scheduledFutures, \* nid -> future, for cron tasks
  onceFutures,      \* the futures in scheduledFutures under a "nid-counter" key
  nid, cron,        \* what each future runs: NoNid while unused or one-shot
  future,     \* "unused", "waiting" for its next run, "cancelled" or "done"
  running,    \* futures whose task is executing
  taskList,   \* list loaded by the refresh under way
  toVisit,    \* keys its current loop has still to visit
  phase,      \* where the refresh is: "idle", "remove", "add" or "put"
  fresh,      \* the future the refresh has scheduled and not yet put in the map
  adding,     \* the future each adder has scheduled and not yet put in the map
  destroyed   \* destroy() has run

maps    == <<cronTaskMap, scheduledFutures, onceFutures>>
futures == <<nid, cron, future, running>>
refresh == <<taskList, toVisit, phase, fresh>>
vars    == <<config, maps, futures, refresh, adding, destroyed>>

Configs == [Nids -> Crons \union {NoCron}]
Enabled(list) == {n \in Nids : list[n] # NoCron}

TypeOK ==
  /\ config \in Configs
  /\ cronTaskMap \in Configs
  /\ scheduledFutures \in [Nids -> Futures \union {NoFuture}]
  /\ onceFutures \in SUBSET {f \in Futures : nid[f] = NoNid}
  /\ nid \in [Futures -> Nids \union {NoNid}]
  /\ cron \in [Futures -> Crons \union {NoCron}]
  /\ future \in [Futures -> {"unused", "waiting", "cancelled", "done"}]
  /\ running \in SUBSET Futures
  /\ taskList \in Configs
  /\ toVisit \in SUBSET (Nids \union Futures)
  /\ phase \in {"idle", "remove", "add", "put"}
  /\ fresh \in Futures \union {NoFuture}
  /\ adding \in [Adders -> Futures \union {NoFuture}]
  /\ destroyed \in BOOLEAN

Init ==
  /\ config \in Configs
  /\ cronTaskMap = [n \in Nids |-> NoCron]
  /\ scheduledFutures = [n \in Nids |-> NoFuture]
  /\ onceFutures = {}
  /\ nid = [f \in Futures |-> NoNid]
  /\ cron = [f \in Futures |-> NoCron]
  /\ future = [f \in Futures |-> "unused"]
  /\ running = {}
  /\ taskList = [n \in Nids |-> NoCron]
  /\ toVisit = {}
  /\ phase = "idle"
  /\ fresh = NoFuture
  /\ destroyed = FALSE
  /\ adding = [a \in Adders |-> NoFuture]

-----------------------------------------------------------------------------
(* ScheduledFuture, as Spring's ThreadPoolTaskScheduler keeps it *)

Unused(f) == future[f] = "unused"

\* future.cancel(false): no further run, a run in progress goes on.  A one-shot
\* future that has run stays done.
AfterCancel(state) == IF state = "done" THEN "done" ELSE "cancelled"

-----------------------------------------------------------------------------
(* TaskConfigServiceImpl.editTaskConfig *)

\* Expressions are validated before they are saved.
EditTaskConfig(n, c) ==
  /\ config' = [config EXCEPT ![n] = c]
  /\ UNCHANGED <<maps, futures, refresh, adding, destroyed>>

-----------------------------------------------------------------------------
(* loadOrRefreshTask *)

\* Read the enabled rows and build the CronSystemTasks; removeCronTask starts
\* to walk over the keys of scheduledFutures.
LoadOrRefreshTask ==
  /\ phase = "idle"
  /\ taskList' = config
  /\ phase' = "remove"
  /\ toVisit' = {n \in Nids : scheduledFutures[n] # NoFuture} \union onceFutures
  /\ UNCHANGED <<config, maps, futures, fresh, adding, destroyed>>

\* Fault: the future of a disabled task is cancelled but left in the map.
RemoveCronKeepKey(n) ==
  /\ phase = "remove"
  /\ n \in toVisit
  /\ toVisit' = toVisit \ {n}
  /\ future' = IF n \in Enabled(taskList) THEN future
               ELSE [future EXCEPT ![scheduledFutures[n]] = AfterCancel(@)]
  /\ UNCHANGED <<config, maps, nid, cron, running, taskList, phase, fresh,
                 adding, destroyed>>

\* removeCronTask at the key of a cron task.  cronTaskMap is left as it is.
RemoveCron(n) ==
  /\ phase = "remove"
  /\ n \in toVisit
  /\ toVisit' = toVisit \ {n}
  /\ IF n \in Enabled(taskList)
     THEN UNCHANGED <<future, scheduledFutures>>
     ELSE /\ future' = [future EXCEPT ![scheduledFutures[n]] = AfterCancel(@)]
          /\ scheduledFutures' = [scheduledFutures EXCEPT ![n] = NoFuture]
  /\ UNCHANGED <<config, cronTaskMap, onceFutures, nid, cron, running, taskList,
                 phase, fresh, adding, destroyed>>

\* removeCronTask at the key of a one-shot task, which no list contains.
RemoveOnce(f) ==
  /\ phase = "remove"
  /\ f \in toVisit
  /\ toVisit' = toVisit \ {f}
  /\ future' = [future EXCEPT ![f] = AfterCancel(@)]
  /\ onceFutures' = onceFutures \ {f}
  /\ UNCHANGED <<config, cronTaskMap, scheduledFutures, nid, cron, running,
                 taskList, phase, fresh, adding, destroyed>>

\* The iterator is weakly consistent: a key put behind it is not visited.
EndRemove ==
  /\ phase = "remove"
  /\ toVisit = {}
  /\ phase' = "add"
  /\ toVisit' = Enabled(taskList)
  /\ UNCHANGED <<config, maps, futures, taskList, fresh, adding, destroyed>>

\* Fault: the future of the old expression is not cancelled.
AddCronTaskKeepOld(n) ==
  /\ phase = "add"
  /\ n \in toVisit
  /\ cronTaskMap[n] # taskList[n]
  /\ \E f \in Futures :
       /\ Unused(f)
       /\ nid' = [nid EXCEPT ![f] = n]
       /\ cron' = [cron EXCEPT ![f] = taskList[n]]
       /\ future' = [future EXCEPT ![f] = "waiting"]
       /\ fresh' = f
  /\ phase' = "put"
  /\ UNCHANGED <<config, maps, running, taskList, toVisit, adding, destroyed>>

\* Fault: a nid that has been scheduled once counts as unchanged.
AddCronTaskOnce(n) ==
  /\ phase = "add"
  /\ n \in toVisit
  /\ IF cronTaskMap[n] # NoCron
     THEN /\ toVisit' = toVisit \ {n}
          /\ UNCHANGED <<nid, cron, future, phase, fresh>>
     ELSE \E f \in Futures :
            /\ Unused(f)
            /\ nid' = [nid EXCEPT ![f] = n]
            /\ cron' = [cron EXCEPT ![f] = taskList[n]]
            /\ future' = [future EXCEPT ![f] = "waiting"]
            /\ fresh' = f
            /\ phase' = "put"
            /\ UNCHANGED toVisit
  /\ UNCHANGED <<config, maps, running, taskList, adding, destroyed>>

\* addCronTask: keep an unchanged task, else cancel the old future and schedule
\* a new one, ...
AddCronTask(n) ==
  /\ phase = "add"
  /\ n \in toVisit
  /\ IF cronTaskMap[n] = taskList[n]
     THEN /\ toVisit' = toVisit \ {n}
          /\ UNCHANGED <<nid, cron, future, phase, fresh>>
     ELSE \E f \in Futures :
            /\ Unused(f)
            /\ nid' = [nid EXCEPT ![f] = n]
            /\ cron' = [cron EXCEPT ![f] = taskList[n]]
            /\ future' = [g \in Futures |->
                            IF g = f THEN "waiting"
                            ELSE IF g = scheduledFutures[n] THEN AfterCancel(future[g])
                            ELSE future[g]]
            /\ fresh' = f
            /\ phase' = "put"
            /\ UNCHANGED toVisit
  /\ UNCHANGED <<config, maps, running, taskList, adding, destroyed>>

\* Fault: the future is put under the key addTask would make for it.
PutCronTaskOnceKey ==
  /\ phase = "put"
  /\ onceFutures' = onceFutures \union {fresh}
  /\ cronTaskMap' = [cronTaskMap EXCEPT ![nid[fresh]] = taskList[nid[fresh]]]
  /\ toVisit' = toVisit \ {nid[fresh]}
  /\ fresh' = NoFuture
  /\ phase' = "add"
  /\ UNCHANGED <<config, scheduledFutures, futures, taskList, adding, destroyed>>

\* ... and put it in both maps.
PutCronTask ==
  LET n == nid[fresh] IN
  /\ phase = "put"
  /\ scheduledFutures' = [scheduledFutures EXCEPT ![n] = fresh]
  /\ cronTaskMap' = [cronTaskMap EXCEPT ![n] = taskList[n]]
  /\ toVisit' = toVisit \ {n}
  /\ fresh' = NoFuture
  /\ phase' = "add"
  /\ UNCHANGED <<config, onceFutures, futures, taskList, adding, destroyed>>

EndRefresh ==
  /\ phase = "add"
  /\ toVisit = {}
  /\ phase' = "idle"
  /\ UNCHANGED <<config, maps, futures, taskList, toVisit, fresh, adding, destroyed>>

-----------------------------------------------------------------------------
(* addTask, not synchronized: schedule, then put *)

ScheduleOnce(a) ==
  /\ adding[a] = NoFuture
  /\ \E f \in Futures :
       /\ Unused(f)
       /\ future' = [future EXCEPT ![f] = "waiting"]
       /\ adding' = [adding EXCEPT ![a] = f]
  /\ UNCHANGED <<config, maps, nid, cron, running, refresh, destroyed>>

PutOnce(a) ==
  /\ adding[a] # NoFuture
  /\ onceFutures' = onceFutures \union {adding[a]}
  /\ adding' = [adding EXCEPT ![a] = NoFuture]
  /\ UNCHANGED <<config, cronTaskMap, scheduledFutures, futures, refresh, destroyed>>

-----------------------------------------------------------------------------
(* The scheduler runs a task; RunnableTask.run catches what it throws *)

Fire(f) ==
  /\ future[f] = "waiting"
  /\ f \notin running
  /\ running' = running \union {f}
  /\ UNCHANGED <<config, maps, nid, cron, future, refresh, adding, destroyed>>

\* A cron future goes back to waiting for its next time unless it was cancelled.
Finish(f) ==
  /\ f \in running
  /\ running' = running \ {f}
  /\ future' = IF nid[f] = NoNid /\ future[f] = "waiting"
               THEN [future EXCEPT ![f] = "done"] ELSE future
  /\ UNCHANGED <<config, maps, nid, cron, refresh, adding, destroyed>>

-----------------------------------------------------------------------------
(* @PreDestroy: every future in the map is cancelled, nothing is removed *)

Destroy ==
  /\ ~destroyed
  /\ destroyed' = TRUE
  /\ LET known == {scheduledFutures[n] : n \in Nids} \union onceFutures IN
     future' = [f \in Futures |-> IF f \in known THEN AfterCancel(future[f]) ELSE future[f]]
  /\ UNCHANGED <<config, maps, nid, cron, running, refresh, adding>>

-----------------------------------------------------------------------------
Next ==
  \/ \E n \in Nids, c \in Crons \union {NoCron} : EditTaskConfig(n, c)
  \/ LoadOrRefreshTask
  \/ \E n \in Nids : RemoveCron(n) \/ AddCronTask(n)
  \/ \E f \in Futures : RemoveOnce(f) \/ Fire(f) \/ Finish(f)
  \/ EndRemove
  \/ PutCronTask
  \/ EndRefresh
  \/ Destroy
  \/ \E a \in Adders : ScheduleOnce(a) \/ PutOnce(a)

Spec == Init /\ [][Next]_vars

-----------------------------------------------------------------------------
(* Properties *)

Waiting(f) == future[f] = "waiting"

\* A nid never runs on two schedules: a cron future that will still fire is the
\* one scheduledFutures holds for its nid (or is about to be put there), so the
\* next refresh can find and cancel it.
NoOrphan ==
  \A f \in Futures :
    Waiting(f) /\ nid[f] # NoNid => scheduledFutures[nid[f]] = f \/ fresh = f

\* After a refresh nothing fires on a schedule the loaded list does not contain:
\* a disabled task is cancelled and a changed expression has replaced the old.
NoOutdatedSchedule ==
  phase = "idle" =>
    \A f \in Futures : Waiting(f) /\ nid[f] # NoNid => cron[f] = taskList[nid[f]]

\* What cronTaskMap says of a nid that has a future is true: addCronTask skips
\* a task only if a live schedule has just its expression.
SkipIsSound ==
  ~destroyed => \A n \in Nids :
    LET f == scheduledFutures[n] IN
    f # NoFuture /\ (phase = "put" => nid[fresh] # n)
      => Waiting(f) /\ nid[f] = n /\ cron[f] = cronTaskMap[n]

\* A refresh schedules every task that is enabled (the comment on
\* loadOrRefreshTask: load or refresh the tasks configured in the system).
EnabledIsScheduled ==
  phase = "idle" /\ ~destroyed =>
    \A n \in Enabled(taskList) :
      \E f \in Futures : Waiting(f) /\ nid[f] = n /\ cron[f] = taskList[n]
=============================================================================
