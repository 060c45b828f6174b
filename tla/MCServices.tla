------------------------------ MODULE MCServices ------------------------------
(***************************************************************************)
(* The services on redis on a small instance.                              *)
(***************************************************************************)
EXTENDS Services

\* A short window of one call and a longer one of two.
MCLimits == <<[max |-> 1, ttl |-> 1], [max |-> 2, ttl |-> 2]>>
=============================================================================
