------------------------------ MODULE Delivery ------------------------------
(***************************************************************************)
(* What the IMAP side promises the pipeline, and the user: a message is    *)
(* marked \Seen only when a call of onEmail for it has returned, a mark is *)
(* never taken back, and every message in the inbox is handed over in the  *)
(* end. Module Listener implements this.                                   *)
(***************************************************************************)
CONSTANT Uid

VARIABLES
    inbox,        \* messages in INBOX
    seen,         \* messages marked \Seen
    returned      \* messages for which a call of onEmail has returned

state == <<inbox, seen, returned>>

Init == inbox = {} /\ seen = {} /\ returned = {}

Deliver(u) ==
    /\ u \notin inbox \cup returned
    /\ inbox' = inbox \cup {u}
    /\ UNCHANGED <<seen, returned>>

\* The pipeline leaves the message in INBOX or takes it out.
Finish(u) ==
    /\ u \in inbox \cup returned
    /\ returned' = returned \cup {u}
    /\ inbox' \in {inbox, inbox \ {u}}
    /\ UNCHANGED seen

Mark ==
    /\ seen \subseteq seen' /\ seen' \subseteq seen \cup (returned \cap inbox)
    /\ UNCHANGED <<inbox, returned>>

Next == (\E u \in Uid : Deliver(u) \/ Finish(u)) \/ Mark

Spec == Init /\ [][Next]_state

HandedOver == \A u \in Uid : u \in inbox ~> u \in returned
==============================================================================
