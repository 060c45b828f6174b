---------------------------- MODULE MCSystemTimer ----------------------------
(***************************************************************************)
(* SystemTimer for TLC: the callers and the tasks are interchangeable.     *)
(***************************************************************************)
EXTENDS SystemTimer, TLC

\* The race run looks at a timer that is neither shut down nor cancelled on.
Uninterrupted ==
  started /\ \A c \in Callers : pc[c] \notin {"remove", "unlink"}

Symmetry == Permutations(Callers) \union Permutations(Tasks)
=============================================================================
