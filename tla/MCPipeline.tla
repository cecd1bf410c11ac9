----------------------------- MODULE MCPipeline -----------------------------
(* Instances of Pipeline for TLC.                                           *)
EXTENDS Pipeline, TLC

CONSTANTS Crash_, Stop_, Db_, Imap_, Reply_, Uid_, Mark_, Dup_, Backfill_

MCFaults == [crash |-> Crash_, stop |-> Stop_, db |-> Db_, imap |-> Imap_, reply |-> Reply_,
             uid |-> Uid_, mark |-> Mark_, dup |-> Dup_, backfill |-> Backfill_]

MCSymmetry == Permutations(Worker)
==============================================================================
