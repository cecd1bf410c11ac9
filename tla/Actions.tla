------------------------------- MODULE Actions -------------------------------
(***************************************************************************)
(* What happens to a recorded message later: the requests of               *)
(* web/handlers/actions.go, single and bulk, and the retrospective scanner *)
(* of pipeline/retro.go, each reading a row, acting on the server by the   *)
(* address in that copy (imap/actions.go), and then writing the row. They  *)
(* interleave freely; IMAP calls and writes may fail.                      *)
(*                                                                         *)
(* One account, and one row for each message, as module Pipeline leaves    *)
(* them. A call of withRetry is one step that has one of the outcomes its  *)
(* three attempts can add up to. Answers, notifications, SSE events and    *)
(* Rspamd's training are left out: nothing here reads them.                *)
(***************************************************************************)
EXTENDS Naturals, FiniteSets

CONSTANTS
    Msg,          \* messages, and the rows that describe them
    Actor,        \* request handlers and the retro scanner's goroutine
    Faults        \* how often each kind of fault may strike, see FaultKind

\* imap: an IMAP call returns an error       uid: MoveToQuarantine returns UID 0
\* db: a write transaction fails             ask: requests and sweeps that may start
FaultKind == {"imap", "uid", "db", "ask"}

ASSUME ActionsAssumption == IsFiniteSet(Msg) /\ Faults \in [FaultKind -> Nat]

VARIABLES
    \* The IMAP server (external).
    folder, uid,  \* where each message is, and its UID there
    uidNext,      \* the next UID of each folder
    held,         \* history: every <<folder, uid, message>> ever assigned
    \* SQLite.
    rows,         \* rows[m]: status, imap_mailbox, imap_uid and account_uid
    audit,        \* <<row, action>> entries
    twins,        \* messages of which a rescan has inserted a second row
    \* The daemon.
    op,           \* what each actor is doing
    stage,        \* how far it is with each message
    snap,         \* the rows it has read
    nuid,         \* what MoveToQuarantine has returned
    target,       \* the row a rescan has updated (none: a second one), and what Decide said
    left,
    \* History.
    missed,       \* messages whose row's address an action found empty
    strayed,      \* <<row, message>>: an action at the row's own key hit another message
    blind,        \* <<row, message>>: so did an action at another address
    rescanned     \* rows a rescan has written

server  == <<folder, uid, uidNext, held>>
store   == <<rows, audit, twins>>
daemon  == <<op, stage, snap, nuid, target>>
history == <<missed, strayed, blind, rescanned>>
vars    == <<server, store, daemon, left, history>>

Folder == {"INBOX", "Quarantine"}
Address == Folder \X Nat

\* The statuses of a row, in the order of db/models.go.
AutoStatus == {"INBOX", "QUARANTINED"}
UserStatus == {"RELEASED", "DELETED", "LEARNED_HAM", "LEARNED_SPAM"}
Entry      == UserStatus \cup {"QUARANTINE", "RETRO_QUARANTINE", "RESCAN", "IMAP_FAIL", "PASS",
                               "QUAR_DESYNC"}

\* at is <<imap_mailbox, imap_uid>>, key the two in account_uid.
RowType == [status : AutoStatus \cup UserStatus, at : Address, key : Address]

\* BulkAction does three of them for several rows; for one row it does what the
\* single request does, up to the answer.
Bulk     == {"release", "delete", "learnSpam"}
Requests == Bulk \cup {"releaseLearn", "quarantine", "rescan"}
Releases == {"release", "releaseLearn"}
Moves    == {"quarantine", "retro", "rescan"}
OpType   == Requests \cup {"none", "retro"}

\* todo: asked for, not read       read: snap is its row
\* claimed: a rescan has written the new status, ahead of the action
\* acted: the IMAP call is over    failed: it has failed, a rescan is to revert
StageType == {"no", "todo", "read", "claimed", "acted", "failed"}

\* A flag leaves the row and the message where a pass does.
Decision == {"pass", "quarantine", "delete"}

Spend(k) == left[k] > 0 /\ left' = [left EXCEPT ![k] = @ - 1]
Unused(K) == \A k \in K : left[k] = Faults[k]

NoRow  == [status |-> "INBOX", at |-> <<"INBOX", 0>>, key |-> <<"INBOX", 0>>]
NoTarget == [row |-> {}, dec |-> "pass"]

\* The pipeline has left every message in INBOX or in quarantine, under its UID.
Init ==
    /\ folder \in [Msg -> Folder]
    /\ uid \in [Msg -> 1..Cardinality(Msg)]
    /\ uidNext = [f \in Folder |-> Cardinality(Msg) + 1]
    /\ \A m, n \in Msg : folder[m] = folder[n] /\ uid[m] = uid[n] => m = n
    /\ held = {<<folder[m], uid[m], m>> : m \in Msg}
    /\ rows = [m \in Msg |-> [status |-> IF folder[m] = "INBOX" THEN "INBOX" ELSE "QUARANTINED",
                              at |-> <<folder[m], uid[m]>>, key |-> <<folder[m], uid[m]>>]]
    /\ audit = {} /\ twins = {}
    /\ op = [a \in Actor |-> "none"]
    /\ stage = [a \in Actor |-> [m \in Msg |-> "no"]]
    /\ snap = [a \in Actor |-> [m \in Msg |-> NoRow]]
    /\ nuid = [a \in Actor |-> {}]
    /\ target = [a \in Actor |-> NoTarget]
    /\ left = Faults
    /\ missed = {} /\ strayed = {} /\ blind = {} /\ rescanned = {}

At(a, s) == {m \in Msg : stage[a][m] = s}
Working(m) == \E a \in Actor : stage[a][m] # "no"

------------------------------------------------------------------------------
(* Asking and reading.                                                      *)

\* A request for the rows M arrives and reads the first of them: withScan, and
\* the loop of BulkAction.
Ask(a, o, M, m) ==
    /\ op[a] = "none" /\ Spend("ask")
    /\ m \in M /\ (o \notin Bulk => M = {m})
    /\ op' = [op EXCEPT ![a] = o]
    /\ stage' = [stage EXCEPT ![a] = [n \in Msg |-> IF n = m THEN "read"
                                                   ELSE IF n \in M THEN "todo" ELSE "no"]]
    /\ snap' = [snap EXCEPT ![a][m] = rows[m]]
    /\ UNCHANGED <<server, store, nuid, target, history>>

\* BulkAction loads one row after the other.
ReadNext(a, m) ==
    /\ stage[a][m] = "todo"
    /\ snap' = [snap EXCEPT ![a][m] = rows[m]]
    /\ stage' = [stage EXCEPT ![a][m] = "read"]
    /\ UNCHANGED <<server, store, op, nuid, target, left, history>>

Advance(a, M, s) == stage' = [stage EXCEPT ![a] = [m \in Msg |-> IF m \in M THEN s ELSE @[m]]]

\* An early return before anything was done: no such row, unknown account, no
\* EML, Rspamd down. In a bulk request it ends the work on that row only.
Refuse(a, m) ==
    /\ stage[a][m] \in {"todo", "read"}
    /\ Advance(a, {m}, "no")
    /\ UNCHANGED <<server, store, op, snap, nuid, target, left, history>>

\* RetroScanner.sweep: the clean rows in INBOX are read as one page; evaluate
\* finds a feed hit for some of them (M).
Sweep(a, M) ==
    /\ op[a] = "none" /\ Spend("ask")
    /\ \A b \in Actor : op[b] # "retro"
    /\ M # {} /\ \A m \in M : rows[m].status = "INBOX"
    /\ op' = [op EXCEPT ![a] = "retro"]
    /\ Advance(a, M, "read")
    /\ snap' = [snap EXCEPT ![a] = [m \in Msg |-> IF m \in M THEN rows[m] ELSE @[m]]]
    /\ UNCHANGED <<server, store, nuid, target, history>>

Finish(a) ==
    /\ op[a] # "none" /\ stage[a] = [m \in Msg |-> "no"]
    /\ op' = [op EXCEPT ![a] = "none"]
    /\ snap' = [snap EXCEPT ![a] = [m \in Msg |-> NoRow]]
    /\ nuid' = [nuid EXCEPT ![a] = {}]
    /\ target' = [target EXCEPT ![a] = NoTarget]
    /\ UNCHANGED <<server, store, stage, left, history>>

------------------------------------------------------------------------------
(* The IMAP call.                                                           *)

\* The folder the call selects: ReleaseToInbox always the quarantine.
Source(a, m) == IF op[a] \in Releases THEN "Quarantine" ELSE snap[a][m].at[1]

\* The row a rescan is about to act for has been claimed; the others act as read.
Ready(a) == IF op[a] = "rescan" THEN "claimed" ELSE "read"

\* The rows one call serves: BulkAction makes one for each account (release) or
\* mailbox (delete) once all rows are read; the others act on a row at a time.
Group(a, m) ==
    IF op[a] \in Bulk THEN {n \in At(a, Ready(a)) : Source(a, n) = Source(a, m)} ELSE {m}

\* The messages at the UIDs of the group's copies.
Addressed(a, G, f) == {v \in Msg : folder[v] = f /\ \E m \in G : snap[a][m].at[2] = uid[v]}

\* MOVE: the server numbers what it moves from uidNext on.
MoveTo(V, f) ==
    \E new \in [V -> uidNext[f] .. uidNext[f] + Cardinality(V) - 1] :
        /\ \A v, w \in V : new[v] = new[w] => v = w
        /\ folder' = [v \in Msg |-> IF v \in V THEN f ELSE folder[v]]
        /\ uid' = [v \in Msg |-> IF v \in V THEN new[v] ELSE uid[v]]
        /\ uidNext' = [uidNext EXCEPT ![f] = @ + Cardinality(V)]
        /\ held' = held \cup {<<f, new[v], v>> : v \in V}

Expunge(V) ==
    /\ folder' = [v \in Msg |-> IF v \in V THEN "gone" ELSE folder[v]]
    /\ UNCHANGED <<uid, uidNext, held>>

\* An UID that is not there is no error for MOVE, STORE and EXPUNGE.
Effect(a, V) ==
    CASE op[a] \in Releases -> MoveTo(V, "INBOX")
      [] op[a] = "delete" \/ (op[a] = "rescan" /\ target[a].dec = "delete") -> Expunge(V)
      [] OTHER -> MoveTo(V, "Quarantine")

\* The call goes to the address in the row, and that is also the row's key.
Sure(a, m, f) == snap[a][m].at = snap[a][m].key /\ snap[a][m].at[1] = f

Record(a, G, f) ==
    LET V == Addressed(a, G, f)
        hits == {h \in G \X V : h[1] # h[2] /\ snap[a][h[1]].at[2] = uid[h[2]]}
    IN  /\ missed' = missed \cup {m \in G : m \notin V \/ <<f, uid[m]>> # snap[a][m].at}
        /\ strayed' = strayed \cup {h \in hits : Sure(a, h[1], f)}
        /\ blind' = blind \cup {h \in hits : ~Sure(a, h[1], f)}
        /\ UNCHANGED rescanned

Calls(a, m) ==
    /\ stage[a][m] = Ready(a)
    /\ op[a] # "learnSpam"
    /\ op[a] \in Bulk => At(a, "todo") = {}
    /\ op[a] = "retro" => At(a, "acted") = {}

\* The call succeeds. MoveToQuarantine returns the UID of COPYUID if it has moved
\* something; without COPYUID, and after a lost reply and a retry or the check
\* with MessageExists (F-054), it returns 0.
CallSucceeds(a, m) ==
    LET G == Group(a, m)  f == Source(a, m)  V == Addressed(a, G, f) IN
    /\ Calls(a, m)
    /\ Effect(a, V)
    /\ \/ /\ nuid' = [nuid EXCEPT ![a] = IF op[a] \in Moves THEN {uid'[v] : v \in V} ELSE {}]
          /\ UNCHANGED left
       \/ /\ op[a] \in Moves /\ V # {} /\ Spend("uid")
          /\ nuid' = [nuid EXCEPT ![a] = {}]
    /\ Record(a, G, f)
    /\ Advance(a, G, "acted")
    /\ UNCHANGED <<store, op, snap, target>>

\* Every attempt returns an error: none has taken effect, or an earlier one has.
\* A request answers 500 and leaves the row as it is; a rescan reverts.
CallFails(a, m) ==
    LET G == Group(a, m)  f == Source(a, m)  V == Addressed(a, G, f) IN
    /\ Calls(a, m) /\ Spend("imap")
    /\ \/ Effect(a, V) /\ Record(a, G, f)
       \/ UNCHANGED <<server, history>>
    /\ Advance(a, G, IF op[a] = "rescan" THEN "failed" ELSE "no")
    /\ UNCHANGED <<store, op, snap, nuid, target>>

------------------------------------------------------------------------------
(* Writing the row.                                                         *)

NewStatus(o) ==
    CASE o = "release"      -> "RELEASED"
      [] o = "releaseLearn" -> "LEARNED_HAM"
      [] o = "delete"       -> "DELETED"
      [] o = "learnSpam"    -> "LEARNED_SPAM"

Log(m, action) == audit' = audit \cup {<<m, action>>}

M_Writes_BeforeTheCall(a, m) == stage[a][m] \in {"read", "acted"}

Writes(a, m) == stage[a][m] = (IF op[a] = "learnSpam" THEN "read" ELSE "acted")

\* updateStatus: status and audit entry in one transaction; the row keeps its
\* address. Reading the EML and training Rspamd come before it.
UpdateStatus(a, m) ==
    /\ Writes(a, m) /\ op[a] \in Bulk \cup {"releaseLearn"}
    /\ rows' = [rows EXCEPT ![m].status = NewStatus(op[a])]
    /\ Log(m, NewStatus(op[a]))
    /\ Advance(a, {m}, "no")
    /\ UNCHANGED <<server, twins, op, snap, nuid, target, left, history>>

M_Requarantined_KeyWithoutUID(r, new) ==
    LET u == IF new = {} THEN r.at[2] ELSE CHOOSE u \in new : TRUE
    IN  [r EXCEPT !.at = <<"Quarantine", u>>, !.key = <<"Quarantine", u>>]

\* With UID 0 the mailbox is written and the UID is not.
Requarantined(r, new) ==
    IF new = {} THEN [r EXCEPT !.at = <<"Quarantine", @[2]>>]
    ELSE LET u == CHOOSE u \in new : TRUE
         IN  [r EXCEPT !.at = <<"Quarantine", u>>, !.key = <<"Quarantine", u>>]

\* Quarantine
WriteQuarantine(a, m) ==
    /\ Writes(a, m) /\ op[a] = "quarantine"
    /\ rows' = [rows EXCEPT ![m] = [Requarantined(@, nuid[a]) EXCEPT !.status = "QUARANTINED"]]
    /\ Log(m, "QUARANTINE")
    /\ Advance(a, {m}, "no")
    /\ UNCHANGED <<server, twins, op, snap, nuid, target, left, history>>

M_WriteClawback_Unguarded(a, m) ==
    /\ Writes(a, m) /\ op[a] = "retro"
    /\ rows' = [rows EXCEPT ![m] = [Requarantined(@, nuid[a]) EXCEPT !.status = "QUARANTINED"]]
    /\ Log(m, "RETRO_QUARANTINE")
    /\ Advance(a, {m}, "no")
    /\ UNCHANGED <<server, twins, op, snap, nuid, target, left, history>>

M_WriteClawback_LogsMatchesOnly(a, m) ==
    /\ Writes(a, m) /\ op[a] = "retro"
    /\ IF rows[m].status = "INBOX"
       THEN /\ rows' = [rows EXCEPT ![m] =
                           [Requarantined(@, nuid[a]) EXCEPT !.status = "QUARANTINED"]]
            /\ Log(m, "RETRO_QUARANTINE")
       ELSE UNCHANGED <<rows, audit>>
    /\ Advance(a, {m}, "no")
    /\ UNCHANGED <<server, twins, op, snap, nuid, target, left, history>>

\* clawback: the update matches the row only while its status is INBOX; the
\* audit entry is written in any case.
WriteClawback(a, m) ==
    /\ Writes(a, m) /\ op[a] = "retro"
    /\ rows' = IF rows[m].status = "INBOX"
               THEN [rows EXCEPT ![m] =
                        [Requarantined(@, nuid[a]) EXCEPT !.status = "QUARANTINED"]]
               ELSE rows
    /\ Log(m, "RETRO_QUARANTINE")
    /\ Advance(a, {m}, "no")
    /\ UNCHANGED <<server, twins, op, snap, nuid, target, left, history>>

\* The transaction fails after the mailbox was changed: a 500, a logged error, or,
\* in a bulk release or delete, nothing at all.
WriteFails(a, m) ==
    /\ Writes(a, m) /\ op[a] # "rescan" /\ Spend("db")
    /\ Advance(a, {m}, "no")
    /\ UNCHANGED <<server, store, op, snap, nuid, target, history>>

------------------------------------------------------------------------------
(* Rescan: process once more, with the address in the row (module Pipeline).*)

VerdictToAction(d) ==
    CASE d = "pass" -> "PASS" [] d = "quarantine" -> "QUARANTINE" [] d = "delete" -> "DELETED"

\* The audit entries of process are for the row it has updated.
LogTarget(n, E) == audit' = audit \cup (n \X E)

\* The audit entry, whose error is ignored; then process upserts the row that
\* has this account_uid, or inserts one. A pass is done but for its audit entry.
RescanUpsert(a, m, d) ==
    /\ op[a] = "rescan" /\ stage[a][m] = "read"
    /\ \E n \in SUBSET {k \in Msg : rows[k].key = snap[a][m].at} :
        /\ n = {} <=> \A k \in Msg : rows[k].key # snap[a][m].at
        /\ Cardinality(n) <= 1
        /\ rows' = [k \in Msg |-> IF k \notin n THEN rows[k] ELSE [rows[k] EXCEPT !.status =
                       CASE d = "pass" -> "INBOX" [] d = "quarantine" -> "QUARANTINED"
                         [] d = "delete" -> "DELETED"]]
        /\ LET log == n \X {VerdictToAction(e) : e \in {d} \cap {"pass"}} IN
           \/ audit' = audit \cup log \cup {<<m, "RESCAN">>} /\ UNCHANGED left
           \/ audit' = audit \cup log /\ Spend("db")
        /\ target' = [target EXCEPT ![a] = [row |-> n, dec |-> d]]
        /\ twins' = twins \cup {k \in {m} : n = {}}
        /\ rescanned' = rescanned \cup n
    /\ Advance(a, {m}, IF d = "pass" THEN "no" ELSE "claimed")
    /\ UNCHANGED <<server, op, snap, nuid, missed, strayed, blind>>

\* The upsert fails: process returns.
RescanUpsertFails(a, m) ==
    /\ op[a] = "rescan" /\ stage[a][m] = "read" /\ Spend("db")
    /\ Log(m, "RESCAN")
    /\ Advance(a, {m}, "no")
    /\ UNCHANGED <<server, rows, twins, op, snap, nuid, target, history>>

\* updateQuarantineUID, and the audit entry. A deletion leaves the row as claimed.
RescanRekey(a, m) ==
    LET t == target[a] IN
    /\ op[a] = "rescan" /\ stage[a][m] = "acted"
    /\ rows' = [k \in Msg |-> IF k \in t.row /\ t.dec = "quarantine"
                              THEN Requarantined(rows[k], nuid[a]) ELSE rows[k]]
    /\ \/ LogTarget(t.row, {VerdictToAction(t.dec)}) /\ UNCHANGED left
       \/ Spend("db") /\ UNCHANGED audit
    /\ Advance(a, {m}, "no")
    /\ UNCHANGED <<server, twins, op, snap, nuid, target, history>>

RescanRevert(a, m) ==
    LET t == target[a] IN
    /\ op[a] = "rescan" /\ stage[a][m] = "failed"
    /\ rows' = [k \in Msg |-> IF k \in t.row THEN [rows[k] EXCEPT !.status = "INBOX"] ELSE rows[k]]
    /\ LogTarget(t.row, {"IMAP_FAIL", VerdictToAction(t.dec)})
    /\ Advance(a, {m}, "no")
    /\ UNCHANGED <<server, twins, op, snap, nuid, target, left, history>>

\* The new address is not written (auditQuarantineDesync), or the status not reverted.
RescanWriteFails(a, m) ==
    LET t == target[a] IN
    /\ op[a] = "rescan" /\ Spend("db")
    /\ \/ /\ stage[a][m] = "acted" /\ t.dec = "quarantine"
          /\ LogTarget(t.row, {"QUAR_DESYNC", VerdictToAction(t.dec)})
       \/ /\ stage[a][m] = "failed"
          /\ LogTarget(t.row, {VerdictToAction(t.dec)})
    /\ Advance(a, {m}, "no")
    /\ UNCHANGED <<server, rows, twins, op, snap, nuid, target, history>>

Idle == (\A a \in Actor : op[a] = "none") /\ UNCHANGED vars

Step(a) ==
    \/ Finish(a)
    \/ \E m \in Msg :
        \/ ReadNext(a, m) \/ Refuse(a, m) \/ CallSucceeds(a, m) \/ CallFails(a, m)
        \/ UpdateStatus(a, m) \/ WriteQuarantine(a, m) \/ WriteClawback(a, m) \/ WriteFails(a, m)
        \/ (\E d \in Decision : RescanUpsert(a, m, d)) \/ RescanUpsertFails(a, m)
        \/ RescanRekey(a, m) \/ RescanRevert(a, m) \/ RescanWriteFails(a, m)

Next ==
    \/ \E a \in Actor :
        \/ \E M \in SUBSET Msg : (\E o \in Requests, m \in M : Ask(a, o, M, m)) \/ Sweep(a, M)
        \/ Step(a)
    \/ Idle

Spec == Init /\ [][Next]_vars

------------------------------------------------------------------------------
(* Properties.                                                              *)

\* Every variable stays in its type.
TypeOK ==
    /\ folder \in [Msg -> Folder \cup {"gone"}]
    /\ uid \in [Msg -> Nat] /\ uidNext \in [Folder -> Nat]
    /\ held \subseteq Folder \X Nat \X Msg
    /\ rows \in [Msg -> RowType]
    /\ audit \subseteq Msg \X Entry
    /\ twins \subseteq Msg
    /\ op \in [Actor -> OpType]
    /\ stage \in [Actor -> [Msg -> StageType]]
    /\ snap \in [Actor -> [Msg -> RowType]]
    /\ nuid \in [Actor -> SUBSET Nat]
    /\ target \in [Actor -> [row : SUBSET Msg, dec : Decision]]
    /\ left \in [FaultKind -> Nat]
    /\ missed \subseteq Msg
    /\ strayed \subseteq Msg \X Msg /\ blind \subseteq Msg \X Msg
    /\ rescanned \subseteq Msg

\* Whatever requests, bulk requests, rescans and sweeps overlap, whatever fails,
\* and however old the copy of the row an action works on is, a call at the
\* address the row is keyed by hits the message the row describes, or nothing:
\* addresses go stale, but the server never gives one to another message. Only
\* two kinds of call can be the first to hit another message: one for a row whose
\* mailbox was written without its UID (MoveToQuarantine returned 0, which
\* it also does when it found nothing to move), and a release of a row that is
\* not in quarantine, since ReleaseToInbox selects the quarantine all the same.
HitsOwnMessage == blind = {} => strayed = {}

PlaceOf(status) ==
    CASE status = "QUARANTINED" -> {"Quarantine"} [] status = "DELETED" -> {"gone"}
      [] status = "LEARNED_SPAM" -> {"INBOX", "Quarantine", "gone"} [] OTHER -> {"INBOX"}

\* As long as no call failed and every call made for a message found it, the
\* status of its row is where it is once nobody works on it, whatever
\* overlaps: two actions on one copy cannot both find the message. What is left
\* to break it is a call that reports success over an empty address, and a
\* rescan, which writes its status ahead of the action and of any mailbox.
OutOfSyncOnlyAfterMiss ==
    Unused({"imap", "uid", "db"}) /\ blind = {} =>
        \A m \in Msg : ~Working(m) /\ m \notin missed /\ m \notin rescanned
                          => folder[m] \in PlaceOf(rows[m].status)

\* clawback's guard on the status: what a user has decided about a message is
\* only ever replaced by what a user asks for later, never by a sweep that
\* read the row before.
UserDecisionStands ==
    [][\A m \in Msg : rows[m].status \in UserStatus /\ rows'[m] # rows[m] =>
            \E a \in Actor : op[a] \in Requests /\ stage'[a] # stage[a]]_vars

\* The audit entries that account for a message's being moved to f.
Explains(f) ==
    CASE f = "INBOX" -> {"RELEASED", "LEARNED_HAM"} [] f = "gone" -> {"DELETED", "RESCAN"}
      [] f = "Quarantine" -> {"QUARANTINE", "RETRO_QUARANTINE", "RESCAN"}

MovedTo(m, f) ==
    IF f = "gone" THEN folder[m] = "gone"
    ELSE \E h \in held : h[1] = f /\ h[3] = m /\ h[2] > Cardinality(Msg)

\* If no call and no write failed, every place a message was moved to is accounted
\* for in the audit log once nobody works on it, also where a sweep has moved a
\* message whose row a user changed meanwhile: this is why clawback logs even
\* when its update matched no row.
EveryMoveIsLogged ==
    Unused({"imap", "db"}) /\ blind = {} =>
        \A m \in Msg, f \in Folder \cup {"gone"} :
            ~Working(m) /\ MovedTo(m, f) => \E e \in Explains(f) : <<m, e>> \in audit
==============================================================================
