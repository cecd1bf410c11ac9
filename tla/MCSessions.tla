----------------------------- MODULE MCSessions -----------------------------
(* Instances of Sessions for TLC.                                           *)
EXTENDS Sessions, TLC

CONSTANTS Crash_, Db_, Drain_, Restart_

MCFaults == [crash |-> Crash_, db |-> Db_, drain |-> Drain_, restart |-> Restart_]

MCSymmetry == Permutations(Token) \cup Permutations(Client)
==============================================================================
