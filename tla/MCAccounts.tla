----------------------------- MODULE MCAccounts -----------------------------
(* Instances of Accounts for TLC.                                           *)
EXTENDS Accounts, TLC

CONSTANTS Db_, Crash_, Stop_

MCFaults == [db |-> Db_, crash |-> Crash_, stop |-> Stop_]
==============================================================================
