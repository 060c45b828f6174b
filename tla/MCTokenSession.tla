---------------------------- MODULE MCTokenSession ----------------------------
(***************************************************************************)
(* TokenSession for TLC: users, tokens and threads are interchangeable.    *)
(***************************************************************************)
EXTENDS TokenSession, TLC

Symmetry == Permutations(Users) \union Permutations(Tokens) \union Permutations(Threads)
=============================================================================
