----------------------------- MODULE MCActions -----------------------------
(* Instances of Actions for TLC.                                            *)
EXTENDS Actions, TLC

CONSTANTS Imap_, Uid_, Db_, Ask_

MCFaults == [imap |-> Imap_, uid |-> Uid_, db |-> Db_, ask |-> Ask_]

MCSymmetry == Permutations(Actor) \cup Permutations(Msg)
==============================================================================
