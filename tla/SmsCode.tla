-------------------------------- MODULE SmsCode --------------------------------
(***************************************************************************)
(* sendSmsCode of SmsServiceImpl for one type and one mobile, called by    *)
(* several threads: the interval check, three times limit of               *)
(* CacheServiceImpl (one step for each command of redis), and the two keys *)
(* that are written after the message.  A stamp is its age, and the oldest *)
(* age of a limit stands for all that have left its window.                *)
(***************************************************************************)
EXTENDS Naturals, Sequences, FiniteSets

CONSTANTS
  Threads,
  Limits,      \* the limits in their order: [max, ttl], with a window of some ticks
  MaxCalls     \* bound: calls of a limit that its window remembers

VARIABLES
  keys,     \* of redis, besides the lists: [prefix, type]
  stamps,   \* limit -> the list of its stamps
  pc,       \* thread -> [at, limit, size, shared]
  tally     \* limit -> kind of its recent calls -> age -> how many of that age or less

vars == <<keys, stamps, pc, tally>>

\* The kinds of calls: those that met another one, and of the rest those let through and
\* those refused.
Kinds == {"alone", "shared", "refused"}

Idle == [at |-> "idle", limit |-> 0, size |-> 0, shared |-> FALSE]

Init ==
  /\ keys = {}
  /\ stamps = [i \in DOMAIN Limits |-> <<>>]
  /\ pc = [t \in Threads |-> Idle]
  /\ tally = [i \in DOMAIN Limits |-> [k \in Kinds |-> [a \in 0 .. Limits[i].ttl - 1 |-> 0]]]

At(t, at)   == pc[t].at = at
Goto(t, at) == pc' = [pc EXCEPT ![t].at = at]

\* How many calls of a kind the window of limit i remembers.
Recent(i, kind) == tally[i][kind][Limits[i].ttl - 1]

Plus1(f) == [a \in DOMAIN f |-> f[a] + 1]

Count(t, kind) ==
  LET i == pc[t].limit
      k == IF pc[t].shared THEN "shared" ELSE kind
  IN  tally' = [tally EXCEPT ![i] = [@ EXCEPT ![k] = Plus1(tally[i][k])]]

-----------------------------------------------------------------------------
(* limit *)

\* Who is between two commands of limit i, and so meets a caller of it.
Others(t, i) == {u \in Threads \ {t} : pc[u].limit = i /\ pc[u].at \in {"pop", "push", "replace", "trim"}}

size(t) ==
  /\ At(t, "size")
  /\ LET i == pc[t].limit
         n == Len(stamps[i])
         met == Others(t, i)
     IN  /\ Recent(i, "alone") + Recent(i, "shared") + Recent(i, "refused") + Cardinality(met)
               < MaxCalls
         /\ pc' = [u \in Threads |->
                     IF u = t THEN [at |-> IF n < Limits[i].max THEN "push" ELSE "pop",
                                    limit |-> i, size |-> n, shared |-> met # {}]
                     ELSE IF u \in met THEN [pc[u] EXCEPT !.shared = TRUE] ELSE pc[u]]
  /\ UNCHANGED <<keys, stamps, tally>>

\* A refusal keeps the stamp it has taken, and ends the call.
leftPop(t) ==
  /\ At(t, "pop")
  /\ LET i == pc[t].limit
         list == stamps[i]
     IN  IF list = <<>> THEN Goto(t, "push") /\ UNCHANGED <<stamps, tally>>
         ELSE /\ stamps' = [stamps EXCEPT ![i] = Tail(list)]
              /\ IF Head(list) < Limits[i].ttl
                 THEN pc' = [pc EXCEPT ![t] = Idle] /\ Count(t, "refused")
                 ELSE Goto(t, "replace") /\ UNCHANGED tally
  /\ UNCHANGED keys

\* The stamp is made and sent in one step, which lets the call through.
Push(t) ==
  /\ stamps' = [stamps EXCEPT ![pc[t].limit] = Append(@, 0)]
  /\ Count(t, "alone")

\* On to the next limit, or to the message.
Pass(t) ==
  pc' = [pc EXCEPT ![t] = IF @.limit = Len(Limits) THEN [Idle EXCEPT !.at = "send"]
                          ELSE [Idle EXCEPT !.at = "size", !.limit = pc[t].limit + 1]]

rightPush(t) ==
  /\ At(t, "push")
  /\ Push(t) /\ Pass(t)
  /\ UNCHANGED keys

replace(t) ==
  /\ At(t, "replace")
  /\ Push(t) /\ Goto(t, "trim")
  /\ UNCHANGED keys

\* What is left of a list from an index to one before another, counted from 0.
Trimmed(list, from, to) == SubSeq(list, from + 1, IF to < Len(list) THEN to ELSE Len(list))

Trim(t, from) ==
  /\ At(t, "trim")
  /\ stamps' = [stamps EXCEPT ![pc[t].limit] = Trimmed(@, from, pc[t].size)]
  /\ Pass(t)
  /\ UNCHANGED <<keys, tally>>

\* Fault: one stamp too many is cut.
trimOneMore(t) == Trim(t, pc[t].size - Limits[pc[t].limit].max + 1)

\* By the size that was read first, so that max stamps remain of a list nobody else changes.
trim(t) == Trim(t, pc[t].size - Limits[pc[t].limit].max)

-----------------------------------------------------------------------------
(* sendSmsCode *)

Key(prefix, type) == [prefix |-> prefix, type |-> type]

\* smsLimitCheck looks for the key under the type's value.
smsLimitCheck(t) ==
  /\ At(t, "idle")
  /\ Key("interval", "value") \notin keys
  /\ pc' = [pc EXCEPT ![t] = [Idle EXCEPT !.at = "size", !.limit = 1]]
  /\ UNCHANGED <<keys, stamps, tally>>

\* The code is kept under the type's value, the interval under its name; the message or
\* either command may fail.
sendSmsCode(t) ==
  /\ At(t, "send")
  /\ \E done \in {{}, {Key("code", "value")}, {Key("code", "value"), Key("interval", "name")}} :
       keys' = keys \union done
  /\ pc' = [pc EXCEPT ![t] = Idle]
  /\ UNCHANGED <<stamps, tally>>

\* Only the code has a time to live.
Expire ==
  /\ \E k \in keys : k.prefix = "code" /\ keys' = keys \ {k}
  /\ UNCHANGED <<stamps, pc, tally>>

Tick ==
  /\ stamps' = [i \in DOMAIN Limits |->
                  [j \in DOMAIN stamps[i] |->
                     IF stamps[i][j] < Limits[i].ttl THEN stamps[i][j] + 1 ELSE Limits[i].ttl]]
  /\ tally' = [i \in DOMAIN Limits |-> [k \in Kinds |-> [a \in 0 .. Limits[i].ttl - 1 |->
                 IF a = 0 THEN 0 ELSE tally[i][k][a - 1]]]]
  /\ UNCHANGED <<keys, pc>>

Next ==
  \/ \E t \in Threads : smsLimitCheck(t) \/ size(t) \/ leftPop(t) \/ rightPush(t) \/ replace(t)
                        \/ trim(t) \/ sendSmsCode(t)
  \/ Expire \/ Tick

Spec == Init /\ [][Next]_vars

-----------------------------------------------------------------------------
(* Properties *)

\* Of the calls that met no other, a window lets through as many as its limit allows, one
\* more for each refusal, which takes a stamp away without adding one, and as many again for
\* each call that met another, which may have trimmed all the stamps there were (limit).
WindowBound ==
  \A i \in DOMAIN Limits :
    Recent(i, "alone") <= Limits[i].max * (1 + Recent(i, "shared")) + Recent(i, "refused")
=============================================================================
