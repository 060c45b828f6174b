----------------------------- MODULE TimerPromise -----------------------------
(***************************************************************************)
(* What a timer promises for each task given to addTask, without wheels,   *)
(* buckets, queue or monitors: it is handed to the executor once, unless   *)
(* it is withdrawn first, by cancel or by giving the same task to the      *)
(* timer again.  SystemTimer implements this (KeepsPromise there).         *)
(***************************************************************************)
CONSTANT Entries   \* the addTask calls

VARIABLES
  status,    \* of each entry: "new", "pending", "committed", "submitted", "gone"
  withdrawn  \* entries cancelled or replaced, or about to be

vars == <<status, withdrawn>>

Init ==
  /\ status = [e \in Entries |-> "new"]
  /\ withdrawn = {}

Move(e, from, to) ==
  /\ status[e] = from
  /\ status' = [status EXCEPT ![e] = to]
  /\ UNCHANGED withdrawn

Add(e) == Move(e, "new", "pending")

\* A withdrawal is final; it may come at any time, too late too.
Withdraw(e) ==
  /\ status[e] # "new"
  /\ withdrawn' = withdrawn \union {e}
  /\ UNCHANGED status

\* The last look at the withdrawal, before the executor is called.
Commit(e) == e \notin withdrawn /\ Move(e, "pending", "committed")

Submit(e) == Move(e, "committed", "submitted")

\* The executor rejects the task.
Refuse(e) == Move(e, "committed", "gone")

\* Only a withdrawn entry is given up without asking the executor.
Drop(e) == e \in withdrawn /\ Move(e, "pending", "gone")

Next ==
  \E e \in Entries :
    Add(e) \/ Withdraw(e) \/ Commit(e) \/ Submit(e) \/ Refuse(e) \/ Drop(e)

Spec == Init /\ [][Next]_vars
=============================================================================
