----------------------------- MODULE MCEngines -----------------------------
(* Instances of Engines for TLC.                                            *)
EXTENDS Engines, TLC

CONSTANTS x, y, Down_, Odd_, Db_

MCItems == <<x, y>>
MCFaults == [down |-> Down_, odd |-> Odd_, db |-> Db_]
MCSymmetry == Permutations(Scan)
==============================================================================
