------------------------------- MODULE MCConsole -------------------------------
(***************************************************************************)
(* The instance of Scripts for TLC: the constants that are no plain sets.  *)
(***************************************************************************)
EXTENDS Scripts

\* The last day of a month whose next one is shorter.
MCToday == [year |-> 2000, month |-> 0, date |-> 31]
MCRangeDates == {MCToday, [year |-> 2000, month |-> 1, date |-> 1]}

\* Two roles have one name.
MCRoleData == <<[hide |-> "1", show |-> "x"], [hide |-> "2", show |-> "y"], [hide |-> "3", show |-> "x"]>>

\* A panel that has no options is in the state.
MCState == << <<"p1", "p3">>, <<"p2", "p4">> >>

MCPid == [a |-> "0", a1 |-> "a", a2 |-> "a", a11 |-> "a1", b |-> "0"]
=============================================================================
