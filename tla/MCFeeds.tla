------------------------------- MODULE MCFeeds -------------------------------
(* Instances of Feeds for TLC.                                              *)
EXTENDS Feeds, TLC

CONSTANTS Down_, Garbage_, Disk_, Cut_, Db_, Stop_, Call_

MCFaults == [down |-> Down_, garbage |-> Garbage_, disk |-> Disk_, cut |-> Cut_, db |-> Db_,
             stop |-> Stop_, call |-> Call_]

MCFeedSeq == <<"urlhaus", "phishtank">>
MCOffer == [urlhaus   |-> {<<"evil.com", "a">>},
            phishtank |-> {<<"google.com", "c">>}]
==============================================================================
