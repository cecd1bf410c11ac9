------------------------------ MODULE MCRules ------------------------------
(* Instances of Rules for TLC.                                              *)
EXTENDS Rules, TLC
==============================================================================
