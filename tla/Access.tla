------------------------------- MODULE Access -------------------------------
(***************************************************************************)
(* What the session store promises, whatever interleaves with it: a token  *)
(* is accepted because a login granted it or because it was accepted when  *)
(* the store was last kept for a restart. A token that is neither accepted *)
(* nor kept is never accepted again.                                       *)
(***************************************************************************)
CONSTANT Token

VARIABLES
    live,      \* tokens a request may use
    kept,      \* tokens the next start will accept
    used       \* tokens ever granted

vars == <<live, kept, used>>

TypeOK == live \subseteq Token /\ kept \subseteq Token /\ used \subseteq Token

Init == live = {} /\ kept = {} /\ used = {}

Grant(t) ==
    /\ t \in Token \ used
    /\ live' = live \cup {t} /\ used' = used \cup {t}
    /\ UNCHANGED kept

\* A logout, a password change, a sweep, a crash.
Revoke == live' \subseteq live /\ UNCHANGED <<kept, used>>

\* Time passes.
Lapse == live' \subseteq live /\ kept' \subseteq kept /\ UNCHANGED used

Keep == kept' \subseteq live /\ UNCHANGED <<live, used>>

Resume == live' \subseteq kept /\ UNCHANGED <<kept, used>>

Next == (\E t \in Token : Grant(t)) \/ Revoke \/ Lapse \/ Keep \/ Resume

Spec == Init /\ [][Next]_vars

\* Only tokens that were granted are accepted or kept.
OnlyGranted == live \cup kept \subseteq used

\* A token that was granted and is neither accepted nor kept stays out.
OutStaysOut ==
    [][\A t \in used \ (live \cup kept) : t \notin live' \cup kept']_vars
==============================================================================
