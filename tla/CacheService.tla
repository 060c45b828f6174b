------------------------------ MODULE CacheService ------------------------------
(***************************************************************************)
(* getValue of CacheServiceImpl for one key: callers that find nothing in  *)
(* redis ask a supplier, one of them at a time, kept apart by a lock that  *)
(* redis drops after MUTEX_EXPIRE.  Every command may fail, a supplier may *)
(* throw, and both may take any time.  Times are what is left of them.     *)
(***************************************************************************)
EXTENDS Integers, FiniteSets

CONSTANTS
  Callers,
  MUTEX_EXPIRE, CACHE_EXPIRE, NULL_EXPIRE,   \* in ticks, of more than the 50 ms of a sleep
  Values,                                    \* what the supplier's table may hold
  null,                                      \* nothing: in the table, in redis, in a caller
  CACHE_PLACE_HOLDER,
  MaxWaits                                   \* bound: sleeps of one caller

ASSUME CacheAssumption ==
  /\ MUTEX_EXPIRE \in Nat \ {0} /\ CACHE_EXPIRE \in Nat \ {0} /\ NULL_EXPIRE \in Nat \ {0}
  /\ MaxWaits \in Nat

VARIABLES
  table,    \* what a supplier would find
  cache,    \* under the key: [value, left], or null
  mutex,    \* what is left of the lock, 0 without one
  call,     \* caller -> [at, result, waits, left]
  overrun,  \* a supplier has outlived its lock and is not alone since
  failed    \* the lock was not given back

vars == <<table, cache, mutex, call, overrun, failed>>

Idle == [at |-> "idle", result |-> null, waits |-> 0, left |-> 0]

Init ==
  /\ table \in Values \union {null}
  /\ cache = null /\ mutex = 0
  /\ call = [c \in Callers |-> Idle]
  /\ overrun = FALSE /\ failed = FALSE

At(c, at)   == call[c].at = at
Goto(c, at) == call' = [call EXCEPT ![c].at = at]
Return(c)   == call' = [call EXCEPT ![c] = Idle]

Inside(calls) == {c \in Callers : calls[c].at \in {"supplier", "delete"}}

-----------------------------------------------------------------------------
(* A caller *)

\* A value, or the placeholder of none, is the answer; when redis does not answer the
\* supplier is asked at once and its answer is not kept.
getValue(c) ==
  /\ At(c, "idle") /\ cache = null
  /\ Goto(c, "setIfAbsent") \/ Goto(c, "direct")
  /\ UNCHANGED <<table, cache, mutex, overrun, failed>>

direct(c) ==
  /\ At(c, "direct")
  /\ Return(c)
  /\ UNCHANGED <<table, cache, mutex, overrun, failed>>

\* The lock is taken by a command that also limits its life.
mutexLock(c) ==
  /\ At(c, "setIfAbsent")
  /\ IF mutex = 0
     THEN /\ mutex' = MUTEX_EXPIRE /\ failed' = FALSE
          /\ call' = [call EXCEPT ![c].at = "supplier", ![c].left = MUTEX_EXPIRE]
     ELSE Goto(c, "sleep") /\ UNCHANGED <<mutex, failed>>
  /\ UNCHANGED <<table, cache, overrun>>

Leave(c) == overrun' = (overrun /\ Inside(call) # {c})

supplier(c) ==
  /\ At(c, "supplier")
  /\ \/ /\ call' = [call EXCEPT ![c].at = "delete", ![c].result = table]
        /\ UNCHANGED <<overrun, failed>>
     \/ Return(c) /\ Leave(c) /\ failed' = TRUE
  /\ UNCHANGED <<table, cache, mutex>>

\* The lock there is, whosever it may be.
delete(c) ==
  /\ At(c, "delete")
  /\ mutex' = 0 /\ Goto(c, "setValue")
  /\ Leave(c)
  /\ UNCHANGED <<table, cache, failed>>

\* Fault: who waits deletes the lock like who held it.
sleepDeletes(c) ==
  /\ At(c, "sleep") /\ call[c].waits < MaxWaits
  /\ call' = [call EXCEPT ![c].at = "setIfAbsent", ![c].waits = @ + 1]
  /\ mutex' = 0
  /\ UNCHANGED <<table, cache, overrun, failed>>

\* doSupplier again, without a look into the cache.
sleep(c) ==
  /\ At(c, "sleep") /\ call[c].waits < MaxWaits
  /\ call' = [call EXCEPT ![c].at = "setIfAbsent", ![c].waits = @ + 1]
  /\ UNCHANGED <<table, cache, mutex, overrun, failed>>

\* Each doSupplier on the stack keeps the answer once more.
setValue(c) ==
  /\ At(c, "setValue")
  /\ cache' = IF call[c].result = null THEN [value |-> CACHE_PLACE_HOLDER, left |-> NULL_EXPIRE]
              ELSE [value |-> call[c].result, left |-> CACHE_EXPIRE]
  /\ IF call[c].waits = 0 THEN Return(c) ELSE call' = [call EXCEPT ![c].waits = @ - 1]
  /\ UNCHANGED <<table, mutex, overrun, failed>>

\* A command of redis throws, and redis may have carried it out nevertheless.
throw(c) ==
  /\ call[c].at \in {"setIfAbsent", "delete", "setValue"}
  /\ Return(c)
  /\ IF At(c, "delete") THEN Leave(c) /\ failed' = TRUE /\ mutex' \in {mutex, 0}
     ELSE /\ \/ UNCHANGED <<mutex, failed>>
             \/ At(c, "setIfAbsent") /\ mutex = 0 /\ mutex' = MUTEX_EXPIRE /\ failed' = TRUE
          /\ UNCHANGED overrun
  /\ UNCHANGED <<table, cache>>

-----------------------------------------------------------------------------
(* Time, and the writers of the table, which leave the cache alone *)

Less(n) == IF n = 0 THEN 0 ELSE n - 1

Tick ==
  /\ mutex' = Less(mutex)
  /\ cache' = IF cache = null \/ cache.left = 1 THEN null ELSE [cache EXCEPT !.left = @ - 1]
  /\ call' = [c \in Callers |-> [call[c] EXCEPT !.left = Less(@)]]
  /\ overrun' = (overrun \/ \E c \in Inside(call) : call'[c].left = 0)
  /\ UNCHANGED <<table, failed>>

Write ==
  /\ \E v \in Values \union {null} : v # table /\ table' = v
  /\ UNCHANGED <<cache, mutex, call, overrun, failed>>

Next ==
  \/ \E c \in Callers : getValue(c) \/ direct(c) \/ mutexLock(c) \/ supplier(c) \/ delete(c)
                        \/ sleep(c) \/ setValue(c) \/ throw(c)
  \/ Tick \/ Write

Spec == Init /\ [][Next]_vars

-----------------------------------------------------------------------------
(* Properties *)

\* Two suppliers run at once only after one that has outlived its lock, and a lock that
\* nobody is going to delete is one that a failure has left (mutexLock).
MutexKept ==
  /\ ~overrun => Cardinality(Inside(call)) <= 1
  /\ mutex > 0 /\ Inside(call) = {} => failed
=============================================================================
