------------------------------- MODULE Services -------------------------------
(***************************************************************************)
(* The services on redis, one behaviour for each: they use other keys.     *)
(* `part` is the service of a behaviour; the variables of the other one    *)
(* stay as they are at its start.                                          *)
(***************************************************************************)
EXTENDS CacheService, Sequences

CONSTANTS Threads, Limits, MaxCalls   \* of SmsCode

ASSUME SmsAssumption == Limits \in Seq([max : Nat \ {0}, ttl : Nat \ {0}]) /\ Limits # <<>>

VARIABLES part, keys, stamps, pc, tally

services == <<part, vars, keys, stamps, pc, tally>>

S == INSTANCE SmsCode

InitServices ==
  /\ Init /\ S!Init
  /\ part = "cache" \/ (part = "sms" /\ table = null)

NextServices ==
  \/ part = "cache" /\ Next /\ UNCHANGED <<part, keys, stamps, pc, tally>>
  \/ part = "sms" /\ S!Next /\ UNCHANGED <<part, vars>>

SpecServices == InitServices /\ [][NextServices]_services

-----------------------------------------------------------------------------
\* The limits of a verification code (SmsCode!WindowBound).
WindowBound == S!WindowBound
=============================================================================
