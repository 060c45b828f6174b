---------------------------- MODULE MCTaskRegistrar ----------------------------
(***************************************************************************)
(* TaskRegistrar for TLC: every set of constants is interchangeable.       *)
(***************************************************************************)
EXTENDS TaskRegistrar, TLC

Symmetry ==
  Permutations(Nids) \union Permutations(Crons) \union Permutations(Futures)
    \union Permutations(Adders)
=============================================================================
