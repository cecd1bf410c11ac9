----------------------------- MODULE MCListener -----------------------------
(* Instances of Listener for TLC.                                           *)
EXTENDS Listener, TLC

MCSymmetry == Permutations(Uid) \cup Permutations(Goroutine)
==============================================================================
