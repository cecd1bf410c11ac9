------------------------------ MODULE Listener ------------------------------
(***************************************************************************)
(* How the messages of one mailbox reach the pipeline: the IDLE listener   *)
(* (imap/listener.go) with its dispatch goroutines and the two channels    *)
(* they report on, beside the recovery sweep (imap/recovery.go). The calls *)
(* of onEmail are opaque here; module Pipeline models what they do.        *)
(*                                                                         *)
(* Left out: the backoff delays, keepalives, and a user's own mail client, *)
(* which may mark, move or delete messages too.                            *)
(***************************************************************************)
EXTENDS Naturals, Sequences

CONSTANTS
    Uid,          \* messages, by their UID in INBOX
    Goroutine,    \* dispatch goroutines; as many as Listener.dispatchSem has slots (50)
    Sweeper,      \* and Recovery.dispatchSem
    SeenCap,      \* capacity of seenCh (256)
    ConfirmCap,   \* capacity of seenConfirmCh (256)
    None,         \* no message
    MaxFaults     \* how many faults may strike

ASSUME ListenerAssumption ==
    /\ None \notin Uid
    /\ SeenCap \in Nat /\ ConfirmCap \in Nat
    /\ MaxFaults \in Nat

VARIABLES
    inbox, seen,  \* the server: UIDs in INBOX, and those with \Seen
    exists,       \* an EXISTS is on its way to the listener's connection
    recorded,     \* the database: UIDs with a row under their INBOX address
    returned,     \* history: UIDs for which a call of onEmail has returned
    \* The listener's own goroutine.
    lpc,          \* where it is in runOnce, idleLoop and fetchUnseen
    newMail,      \* newMailCh, a channel of capacity 1
    marks,        \* the UIDs drainSeen has pulled
    batch,        \* the UIDs still to be fetched, then to be dispatched
    inFlight,     \* Listener.inFlight
    missed,       \* history: its last SEARCH or FETCH failed
    \* Its dispatch goroutines.
    gpc, job,     \* where each is, and its uid
    seenCh, seenConfirmCh,
    stuck,        \* history: UIDs whose confirmation was dropped on this connection
    \* The recovery sweep and its goroutines.
    rpc, rbatch,  \* as lpc and batch
    dispatched,   \* dispatchedUIDs
    rjob,
    stopping,     \* the context is cancelled
    left          \* faults still to come

server   == <<inbox, seen, exists>>
store    == <<recorded, returned>>
listener == <<lpc, newMail, marks, batch, inFlight, missed>>
workers  == <<gpc, job, seenCh, seenConfirmCh, stuck>>
recovery == <<rpc, rbatch, dispatched, rjob>>
vars     == <<server, store, listener, workers, recovery, stopping, left>>

Contents(ch) == {ch[i] : i \in DOMAIN ch}

Fails == left > 0 /\ left' = left - 1

Unseen == inbox \ seen

\* STORE +FLAGS \Seen; a UID that is not there is no error.
StoreSeen(U) == seen' = seen \cup (U \cap inbox)

Init ==
    /\ inbox = {} /\ seen = {} /\ recorded = {} /\ returned = {}
    /\ exists = FALSE
    /\ lpc = "offline" /\ newMail = FALSE /\ marks = {} /\ batch = {} /\ inFlight = {}
    /\ gpc = [g \in Goroutine |-> "free"] /\ job = [g \in Goroutine |-> None]
    /\ seenCh = <<>> /\ seenConfirmCh = <<>> /\ stuck = {}
    /\ rpc = "waiting" /\ rbatch = {} /\ dispatched = {}
    /\ rjob = [r \in Sweeper |-> None]
    /\ stopping = FALSE /\ left = MaxFaults /\ missed = FALSE

------------------------------------------------------------------------------
(* The server.                                                              *)

Arrive(u) ==
    /\ u \notin inbox \cup returned
    /\ inbox' = inbox \cup {u}
    /\ exists' = (lpc # "offline")
    /\ UNCHANGED <<seen, store, listener, workers, recovery, stopping, left>>

M_Notify_Unbuffered ==
    /\ exists /\ lpc # "offline"
    /\ newMail' = (newMail \/ lpc = "idle") /\ exists' = FALSE
    /\ UNCHANGED <<inbox, seen, store, lpc, marks, batch, inFlight, missed, workers, recovery,
                   stopping, left>>

\* The UnilateralDataHandler: newMailCh keeps one signal until it is read.
Notify ==
    /\ exists /\ lpc # "offline"
    /\ newMail' = TRUE /\ exists' = FALSE
    /\ UNCHANGED <<inbox, seen, store, lpc, marks, batch, inFlight, missed, workers, recovery,
                   stopping, left>>

------------------------------------------------------------------------------
(* runOnce and idleLoop.                                                    *)

\* A new connection: runOnce forgets what was in flight and looks for UNSEEN mail.
Connect ==
    /\ lpc = "offline" /\ ~stopping
    /\ lpc' = "drain" /\ inFlight' = {} /\ stuck' = {} /\ missed' = FALSE
    /\ newMail' = FALSE /\ exists' = FALSE
    /\ UNCHANGED <<inbox, seen, store, marks, batch, gpc, job, seenCh, seenConfirmCh, recovery,
                   stopping, left>>

Hangup ==
    /\ lpc' = "offline" /\ marks' = {} /\ batch' = {} /\ newMail' = FALSE
    /\ missed' = FALSE /\ exists' = FALSE
    /\ UNCHANGED <<inbox, seen, store, inFlight, workers, recovery, stopping>>

Disconnect == lpc # "offline" /\ Fails /\ Hangup

\* ctx.Done in idleLoop; fetchUnseen looks at ctx before each round.
Quit == stopping /\ lpc \in {"idle", "drain"} /\ Hangup /\ UNCHANGED left

\* IDLE is issued (again).
Enter ==
    /\ lpc = "enter"
    /\ lpc' = "idle"
    /\ UNCHANGED <<server, store, newMail, marks, batch, inFlight, missed, workers, recovery,
                   stopping, left>>

Wake ==
    /\ lpc = "idle" /\ newMail
    /\ lpc' = "drain" /\ newMail' = FALSE
    /\ UNCHANGED <<server, store, marks, batch, inFlight, missed, workers, recovery, stopping, left>>

------------------------------------------------------------------------------
(* One round of fetchUnseen.                                                *)

\* drainSeen empties seenCh.
DrainSeen ==
    /\ lpc = "drain" /\ ~stopping
    /\ marks' = Contents(seenCh) /\ seenCh' = <<>>
    /\ lpc' = "store"
    /\ UNCHANGED <<server, store, newMail, batch, inFlight, missed, gpc, job, seenConfirmCh, stuck,
                   recovery, stopping, left>>

\* One STORE for all of them; its error is only logged.
Store ==
    /\ lpc = "store"
    /\ \/ StoreSeen(marks) /\ UNCHANGED left
       \/ marks # {} /\ Fails /\ UNCHANGED seen
    /\ marks' = {} /\ lpc' = "confirm"
    /\ UNCHANGED <<inbox, exists, store, newMail, batch, inFlight, missed, workers, recovery,
                   stopping>>

DrainConfirmed ==
    /\ lpc = "confirm"
    /\ inFlight' = inFlight \ Contents(seenConfirmCh) /\ seenConfirmCh' = <<>>
    /\ lpc' = "search"
    /\ UNCHANGED <<server, store, newMail, marks, batch, missed, gpc, job, seenCh, stuck, recovery,
                   stopping, left>>

\* UID SEARCH UNSEEN without what is in flight; nothing left ends fetchUnseen.
Search ==
    /\ lpc = "search"
    /\ batch' = Unseen \ inFlight /\ missed' = FALSE
    /\ lpc' = IF batch' = {} THEN "enter" ELSE "fetch"
    /\ UNCHANGED <<server, store, newMail, marks, inFlight, workers, recovery, stopping, left>>

M_Fetch_NoPeek ==
    /\ lpc = "fetch"
    /\ batch' = batch \cap inbox /\ lpc' = "dispatch"
    /\ StoreSeen(batch)
    /\ UNCHANGED <<inbox, exists, store, newMail, marks, inFlight, missed, workers, recovery, stopping,
                   left>>

\* FETCH BODY.PEEK[]: nothing for a message that has gone.
Fetch ==
    /\ lpc = "fetch"
    /\ batch' = batch \cap inbox /\ lpc' = "dispatch"
    /\ UNCHANGED <<server, store, newMail, marks, inFlight, missed, workers, recovery, stopping, left>>

SearchFails ==
    /\ lpc \in {"search", "fetch"} /\ Fails
    /\ batch' = {} /\ lpc' = "enter" /\ missed' = TRUE
    /\ UNCHANGED <<server, store, newMail, marks, inFlight, workers, recovery, stopping>>

\* A free dispatch slot is a free goroutine.
Dispatch(u, g) ==
    /\ lpc = "dispatch" /\ u \in batch /\ gpc[g] = "free"
    /\ batch' = batch \ {u} /\ inFlight' = inFlight \cup {u}
    /\ gpc' = [gpc EXCEPT ![g] = "working"] /\ job' = [job EXCEPT ![g] = u]
    /\ UNCHANGED <<server, store, lpc, newMail, marks, missed, seenCh, seenConfirmCh, stuck, recovery,
                   stopping, left>>

\* ctx is done while fetchUnseen waits for a slot.
DispatchCancelled(u) ==
    /\ lpc = "dispatch" /\ u \in batch /\ stopping
    /\ batch' = {} /\ inFlight' = inFlight \cup {u} /\ lpc' = "enter"
    /\ UNCHANGED <<server, store, newMail, marks, missed, workers, recovery, stopping, left>>

\* A message that came without a body is passed over.
SkipEmpty(u) ==
    /\ lpc = "dispatch" /\ u \in batch /\ Fails
    /\ batch' = batch \ {u}
    /\ UNCHANGED <<server, store, lpc, newMail, marks, inFlight, missed, workers, recovery,
                   stopping>>

NextRound ==
    /\ lpc = "dispatch" /\ batch = {}
    /\ lpc' = "drain"
    /\ UNCHANGED <<server, store, newMail, marks, batch, inFlight, missed, workers, recovery,
                   stopping, left>>

------------------------------------------------------------------------------
(* A dispatch goroutine.                                                    *)

\* onEmail returns: it has written the row and left the message or taken it out
\* of INBOX; or it has not, because a write failed or its slot wait was cancelled.
OnEmail(u) ==
    /\ returned' = returned \cup {u}
    /\ \/ /\ recorded' = recorded \cup {u}
          /\ inbox' \in {inbox, inbox \ {u}}
          /\ UNCHANGED left
       \/ /\ IF stopping THEN UNCHANGED left ELSE Fails
          /\ UNCHANGED <<recorded, inbox>>

OnEmailReturns(g) ==
    /\ gpc[g] = "working"
    /\ OnEmail(job[g])
    /\ gpc' = [gpc EXCEPT ![g] = "done"]
    /\ UNCHANGED <<seen, exists, listener, job, seenCh, seenConfirmCh, stuck, recovery, stopping>>

M_PushSeen_FullReturns(g) ==
    /\ gpc[g] = "done"
    /\ IF Len(seenCh) < SeenCap
       THEN /\ seenCh' = Append(seenCh, job[g])
            /\ gpc' = [gpc EXCEPT ![g] = "confirm"] /\ UNCHANGED job
       ELSE /\ gpc' = [gpc EXCEPT ![g] = "free"] /\ job' = [job EXCEPT ![g] = None]
            /\ UNCHANGED seenCh
    /\ UNCHANGED <<server, store, listener, seenConfirmCh, stuck, recovery, stopping, left>>

\* seenCh <- uid, or nothing if it is full.
PushSeen(g) ==
    /\ gpc[g] = "done"
    /\ seenCh' = IF Len(seenCh) < SeenCap THEN Append(seenCh, job[g]) ELSE seenCh
    /\ gpc' = [gpc EXCEPT ![g] = "confirm"]
    /\ UNCHANGED <<server, store, listener, job, seenConfirmCh, stuck, recovery, stopping, left>>

\* seenConfirmCh <- uid, or nothing if it is full; then the slot is given back.
PushConfirm(g) ==
    /\ gpc[g] = "confirm"
    /\ IF Len(seenConfirmCh) < ConfirmCap
       THEN seenConfirmCh' = Append(seenConfirmCh, job[g]) /\ UNCHANGED stuck
       ELSE stuck' = stuck \cup {job[g]} /\ UNCHANGED seenConfirmCh
    /\ gpc' = [gpc EXCEPT ![g] = "free"] /\ job' = [job EXCEPT ![g] = None]
    /\ UNCHANGED <<server, store, listener, seenCh, recovery, stopping, left>>

------------------------------------------------------------------------------
(* Recovery.scan.                                                           *)

\* The ticker fires; dial, SELECT and SEARCH UNSEEN.
Sweep ==
    /\ rpc = "waiting" /\ ~stopping
    /\ rbatch' = Unseen
    /\ rpc' = IF rbatch' = {} THEN "waiting" ELSE "known"
    /\ UNCHANGED <<server, store, listener, workers, dispatched, rjob, stopping, left>>

M_DropKnown_KeepsKnown ==
    /\ rpc = "known"
    /\ rbatch' = rbatch \cap recorded
    /\ rpc' = IF rbatch' = {} THEN "waiting" ELSE "fetch"
    /\ UNCHANGED <<server, store, listener, workers, dispatched, rjob, stopping, left>>

\* The UIDs that have a row are not fetched.
DropKnown ==
    /\ rpc = "known"
    /\ rbatch' = rbatch \ recorded
    /\ rpc' = IF rbatch' = {} THEN "waiting" ELSE "fetch"
    /\ UNCHANGED <<server, store, listener, workers, dispatched, rjob, stopping, left>>

\* The error of Count is not looked at: a UID with a row may pass for unknown.
CountFails ==
    /\ rpc = "known" /\ Fails
    /\ rbatch' \in {U \in SUBSET rbatch : rbatch \ recorded \subseteq U /\ U # {}}
    /\ rpc' = "fetch"
    /\ UNCHANGED <<server, store, listener, workers, dispatched, rjob, stopping>>

SweepFetch ==
    /\ rpc = "fetch"
    /\ rbatch' = rbatch \cap inbox /\ rpc' = "dispatch"
    /\ UNCHANGED <<server, store, listener, workers, dispatched, rjob, stopping, left>>

SweepFails ==
    /\ rpc \in {"known", "fetch"} /\ Fails
    /\ rbatch' = {} /\ rpc' = "waiting"
    /\ UNCHANGED <<server, store, listener, workers, dispatched, rjob, stopping>>

SweepDispatch(u, r) ==
    /\ rpc = "dispatch" /\ u \in rbatch /\ rjob[r] = None
    /\ rbatch' = rbatch \ {u} /\ dispatched' = dispatched \cup {u}
    /\ rjob' = [rjob EXCEPT ![r] = u]
    /\ UNCHANGED <<server, store, listener, workers, rpc, stopping, left>>

SweepSkipsEmpty(u) ==
    /\ rpc = "dispatch" /\ u \in rbatch /\ Fails
    /\ rbatch' = rbatch \ {u}
    /\ UNCHANGED <<server, store, listener, workers, rpc, dispatched, rjob, stopping>>

SweepReturns(r) ==
    /\ rjob[r] # None
    /\ OnEmail(rjob[r])
    /\ rjob' = [rjob EXCEPT ![r] = None]
    /\ UNCHANGED <<seen, exists, listener, workers, rpc, rbatch, dispatched, stopping>>

\* wg.Wait, then one STORE for everything dispatched.
SweepStore ==
    /\ rpc = "dispatch" /\ rbatch = {} /\ \A r \in Sweeper : rjob[r] = None
    /\ \/ StoreSeen(dispatched) /\ UNCHANGED left
       \/ dispatched # {} /\ Fails /\ UNCHANGED seen
    /\ rpc' = "waiting" /\ dispatched' = {}
    /\ UNCHANGED <<inbox, exists, store, listener, workers, rbatch, rjob, stopping>>

------------------------------------------------------------------------------
(* Shutdown and crash.                                                      *)

Stop ==
    /\ ~stopping /\ Fails
    /\ stopping' = TRUE
    /\ UNCHANGED <<server, store, listener, workers, recovery>>

Boot ==
    /\ lpc' = "offline" /\ newMail' = FALSE /\ marks' = {} /\ batch' = {} /\ inFlight' = {}
    /\ missed' = FALSE
    /\ gpc' = [g \in Goroutine |-> "free"] /\ job' = [g \in Goroutine |-> None]
    /\ seenCh' = <<>> /\ seenConfirmCh' = <<>> /\ stuck' = {}
    /\ rpc' = "waiting" /\ rbatch' = {} /\ dispatched' = {}
    /\ rjob' = [r \in Sweeper |-> None]
    /\ stopping' = FALSE /\ exists' = FALSE
    /\ UNCHANGED <<inbox, seen, store>>

Restart ==
    /\ stopping /\ lpc = "offline" /\ rpc = "waiting"
    /\ \A g \in Goroutine : gpc[g] = "free"
    /\ Boot /\ UNCHANGED left

Crash == Fails /\ Boot

ListenerStep ==
    \/ Connect \/ Quit \/ Enter \/ Wake
    \/ DrainSeen \/ Store \/ DrainConfirmed \/ Search \/ Fetch \/ NextRound
    \/ \E u \in Uid : (\E g \in Goroutine : Dispatch(u, g)) \/ DispatchCancelled(u)

WorkerStep(g) == OnEmailReturns(g) \/ PushSeen(g) \/ PushConfirm(g)

RecoveryStep ==
    \/ Sweep \/ DropKnown \/ SweepFetch \/ SweepStore
    \/ \E u \in Uid, r \in Sweeper : SweepDispatch(u, r)

Fault ==
    \/ Disconnect \/ SearchFails \/ CountFails \/ SweepFails \/ Stop \/ Crash
    \/ \E u \in Uid : SkipEmpty(u) \/ SweepSkipsEmpty(u)

Next ==
    \/ \E u \in Uid : Arrive(u)
    \/ Notify
    \/ ListenerStep
    \/ \E g \in Goroutine : WorkerStep(g)
    \/ RecoveryStep
    \/ \E r \in Sweeper : SweepReturns(r)
    \/ Restart \/ Fault

Spec == Init /\ [][Next]_vars

\* The goroutines make progress, the connection is dialled again, the ticker
\* ticks, the server announces mail, and a stopped daemon is started again.
Fairness ==
    /\ WF_vars(Notify) /\ WF_vars(ListenerStep) /\ WF_vars(RecoveryStep) /\ WF_vars(Restart)
    /\ \A g \in Goroutine : WF_vars(WorkerStep(g))
    /\ \A r \in Sweeper : WF_vars(SweepReturns(r))

FairSpec == Spec /\ Fairness

------------------------------------------------------------------------------
(* Properties.                                                              *)

\* Every variable stays in its type; the two channels stay within capacity.
TypeOK ==
    /\ inbox \subseteq Uid /\ seen \subseteq Uid /\ exists \in BOOLEAN
    /\ recorded \subseteq Uid /\ returned \subseteq Uid
    /\ lpc \in {"offline", "drain", "store", "confirm", "search", "fetch", "dispatch",
               "enter", "idle"}
    /\ newMail \in BOOLEAN /\ missed \in BOOLEAN
    /\ marks \subseteq Uid /\ batch \subseteq Uid /\ inFlight \subseteq Uid
    /\ gpc \in [Goroutine -> {"free", "working", "done", "confirm"}]
    /\ job \in [Goroutine -> Uid \cup {None}]
    /\ seenCh \in Seq(Uid) /\ Len(seenCh) <= SeenCap
    /\ seenConfirmCh \in Seq(Uid) /\ Len(seenConfirmCh) <= ConfirmCap
    /\ stuck \subseteq Uid
    /\ rpc \in {"waiting", "known", "fetch", "dispatch"}
    /\ rbatch \subseteq Uid /\ dispatched \subseteq Uid
    /\ rjob \in [Sweeper -> Uid \cup {None}]
    /\ stopping \in BOOLEAN
    /\ left \in Nat

\* fetchUnseen loops "so messages that arrive while a FETCH is in flight are not
\* missed before the caller re-enters IDLE": whenever the listener sits in IDLE,
\* an UNSEEN message that it is not working on has been announced to it, or is
\* about to be, unless its last SEARCH or FETCH failed.
NothingForgotten ==
    lpc \in {"enter", "idle"} /\ ~stopping /\ ~missed
        => Unseen \subseteq inFlight \/ newMail \/ exists

Busy == {job[g] : g \in {h \in Goroutine : gpc[h] # "free"}}

\* The listener skips what is in flight, so nothing may stay there by mistake:
\* every such UID has a goroutine at work on it or its confirmation is waiting,
\* unless seenConfirmCh was full when it finished, or ctx is cancelled.
InFlightIsLive ==
    lpc # "offline" /\ ~stopping
        => inFlight \subseteq Busy \cup Contents(seenConfirmCh) \cup stuck

D == INSTANCE Delivery

\* Listener and recovery together mark a message \Seen only after a call of
\* onEmail for it has returned, and never unmark one, through reconnects, lost
\* and full channels, shutdowns and crashes.
Delivers == D!Spec

\* README.md:60 "a periodic recovery sweep that catches anything missed during
\* reconnects": every message that reaches the inbox is handed to onEmail, and
\* the call returns, however the connection, the sweep or the daemon fails.
EveryMessageHandedOver == D!HandedOver
==============================================================================
