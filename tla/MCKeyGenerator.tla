---------------------------- MODULE MCKeyGenerator ----------------------------
(***************************************************************************)
(* KeyGenerator for TLC: two machines with the two ids there is room for.*)
(***************************************************************************)
EXTENDS KeyGenerator

CONSTANTS n1, n2

MCNodes  == {n1, n2}
MCworkId == [n \in MCNodes |-> IF n = n1 THEN 0 ELSE 1]
=============================================================================
