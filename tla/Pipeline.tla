------------------------------ MODULE Pipeline ------------------------------
(***************************************************************************)
(* One mailbox through pipeline/pipeline.go: every call of process is a    *)
(* worker that reads a message at an address (INBOX, uid), writes a scan   *)
(* row to SQLite, acts on the IMAP server and records what came of it.     *)
(* The server, the database and the goroutines interleave freely; writes   *)
(* and replies may fail, the daemon may be stopped or may crash, and the   *)
(* same message may be dispatched again.                                   *)
(*                                                                         *)
(* Left out: the stored EML file, statistics, notifications, SSE events    *)
(* and the \Flagged and \Deleted flags. Nothing modelled here reads them.  *)
(***************************************************************************)
EXTENDS Naturals, FiniteSets

CONSTANTS
    Msg,          \* messages that may arrive
    Worker,       \* goroutines that can be inside onEmail at once
    RowId,        \* primary keys of the scans table
    MaxSlots,     \* capacity of Pipeline.semaphore (MaxConcurrentScans)
    Inner, Outer, \* attempts of withRetry (3) and of takeIMAPAction (4)
    Class,        \* what Parse may do with a message, see ClassType
    Route,        \* what a parsed message may meet, see RouteType
    Decision,     \* what Decide may return, see DecisionType
    Faults        \* how often each kind of fault may strike, see FaultKind

ClassType == {"panics", "unparseable", "parses"}
RouteType == {"blocklist", "bypass", "scan"}
DecisionType == {"pass", "flag", "quarantine", "delete"}

\* crash: the daemon dies or is restarted      stop: ctx is cancelled
\* db: a write transaction fails               imap: an IMAP call fails, no effect
\* reply: an IMAP call takes effect, but fails uid: MOVE succeeds without COPYUID
\* mark: a \Seen mark is lost                  dup: a message in work is dispatched again
\* backfill: a backfill scan starts
FaultKind == {"crash", "stop", "db", "imap", "reply", "uid", "mark", "dup", "backfill"}

ASSUME PipelineAssumption ==
    /\ Msg # {}
    /\ RowId \subseteq Nat
    /\ MaxSlots \in Nat
    /\ Inner \in Nat \ {0} /\ Outer \in Nat \ {0}
    /\ Class \subseteq ClassType
    /\ Route \subseteq RouteType
    /\ Decision \subseteq DecisionType
    /\ Faults \in [FaultKind -> Nat]

VARIABLES
    \* The IMAP server (external).
    folder,       \* folder[m]: "unborn", "INBOX", "Quarantine" or "gone"
    uid,          \* uid[m]: the message's UID in that folder
    uidNext,      \* the next UID of each folder
    held,         \* history: every <<folder, uid, message>> ever assigned
    seen,         \* messages mailhook has marked \Seen in INBOX
    class,        \* what Parse does with the message's bytes
    \* SQLite.
    rows,         \* the scans table
    audit,        \* <<row, action>> entries of the audit log
    \* The daemon.
    pc,           \* where each worker is in process
    job,          \* the arguments of process: message, address, live or backfill
    plan,         \* the route the message took and the decision on it
    row,          \* rec.ID / scanRecord.ID
    tries,        \* attempts left in withRetry and in takeIMAPAction
    nuid,         \* the UID MoveToQuarantine returned, 0 if unknown
    semaphore,    \* workers holding a pipeline slot
    backlog,      \* messages a backfill scan found unknown and has yet to dispatch
    stopping,     \* the daemon's context is cancelled
    left          \* faults still to come

server == <<folder, uid, uidNext, held>>
store  == <<rows, audit>>
task   == <<job, plan, row, tries, nuid>>
daemon == <<semaphore, backlog, stopping>>
vars   == <<server, seen, class, store, pc, task, daemon, left>>

Folder == {"INBOX", "Quarantine"}
Status == {"none", "INBOX", "QUARANTINED", "DELETED"}

\* A row of scans. kf and uid are the two parts of account_uid that can change;
\* imap_uid always equals uid, while imap_mailbox (mbox) can differ from kf.
\* msg is the message whose content was scanned. "none": no such row.
RowType == [status : Status, kf : Folder, uid : Nat, mbox : Folder,
            msg : Msg, src : {"live", "backfill"}]

\* Where a worker can be: before it has written its row, and after.
BeforeRow == {"slot", "parse", "create", "upsert"}
WithRow   == {"imap", "check", "revert", "rekey", "desync", "audit"}
PcType    == {"idle", "returned"} \cup BeforeRow \cup WithRow

JobType   == [msg : Msg, addr : Nat, live : BOOLEAN]
PlanType  == [path : RouteType \cup {"panic", "unparseable"}, dec : DecisionType]
TriesType == [inner : Nat, outer : Nat]
Entry     == {"IMAP_FAIL", "QUAR_DESYNC", "BACKFILL", "DELETE", "QUARANTINE", "PASS"}

AnyMsg  == CHOOSE m \in Msg : TRUE
NoRow   == [status |-> "none", kf |-> "INBOX", uid |-> 0, mbox |-> "INBOX",
            msg |-> AnyMsg, src |-> "live"]
NoJob   == [msg |-> AnyMsg, addr |-> 0, live |-> TRUE]
NoPlan  == [path |-> "scan", dec |-> "pass"]
AllTries == [inner |-> Inner, outer |-> Outer]

Exists(i) == rows[i].status # "none"

Spend(k) == left[k] > 0 /\ left' = [left EXCEPT ![k] = @ - 1]

Init ==
    /\ folder = [m \in Msg |-> "unborn"]
    /\ uid = [m \in Msg |-> 0]
    /\ uidNext = [f \in Folder |-> 1]
    /\ held = {} /\ seen = {}
    /\ class \in [Msg -> Class]
    /\ rows = [i \in RowId |-> NoRow]
    /\ audit = {}
    /\ pc = [w \in Worker |-> "idle"]
    /\ job = [w \in Worker |-> NoJob]
    /\ plan = [w \in Worker |-> NoPlan]
    /\ row = [w \in Worker |-> 0]
    /\ tries = [w \in Worker |-> AllTries]
    /\ nuid = [w \in Worker |-> 0]
    /\ semaphore = {} /\ backlog = {} /\ stopping = FALSE
    /\ left = Faults

------------------------------------------------------------------------------
(* Arrival and dispatch.                                                    *)

\* The server assigns u in folder f to m.
Place(m, f) ==
    /\ folder' = [folder EXCEPT ![m] = f]
    /\ uid' = [uid EXCEPT ![m] = uidNext[f]]
    /\ uidNext' = [uidNext EXCEPT ![f] = @ + 1]
    /\ held' = held \cup {<<f, uidNext[f], m>>}

Arrive(m) ==
    /\ folder[m] = "unborn"
    /\ Place(m, "INBOX")
    /\ UNCHANGED <<seen, class, store, pc, task, daemon, left>>

Working(m) == \E w \in Worker : pc[w] # "idle" /\ job[w].msg = m

Start(w, m, live) ==
    /\ pc[w] = "idle" /\ ~stopping
    /\ folder[m] = "INBOX"
    /\ pc' = [pc EXCEPT ![w] = "slot"]
    /\ job' = [job EXCEPT ![w] = [msg |-> m, addr |-> uid[m], live |-> live]]
    /\ UNCHANGED <<server, seen, class, store, plan, row, tries, nuid, semaphore, stopping>>

M_Dispatch_WithoutPeek(w, m) ==
    /\ pc[w] = "idle" /\ ~stopping
    /\ folder[m] = "INBOX" /\ m \notin seen
    /\ IF Working(m) THEN Spend("dup") ELSE UNCHANGED left
    /\ pc' = [pc EXCEPT ![w] = "slot"]
    /\ job' = [job EXCEPT ![w] = [msg |-> m, addr |-> uid[m], live |-> TRUE]]
    /\ seen' = seen \cup {m}
    /\ UNCHANGED <<server, class, store, plan, row, tries, nuid, daemon>>

\* Listener.fetchUnseen and Recovery.scan hand every UNSEEN message to onEmail.
\* A message already in work is handed over a second time after a reconnect, or
\* when the recovery sweep meets one the listener dispatched.
Dispatch(w, m) ==
    /\ Start(w, m, TRUE)
    /\ m \notin seen
    /\ IF Working(m) THEN Spend("dup") ELSE UNCHANGED left
    /\ UNCHANGED backlog

\* BackfillScanner.scan: the messages whose UID no row of the mailbox has, read
\* once, before any of them is dispatched.
BackfillSnapshot ==
    /\ ~stopping /\ Spend("backfill")
    /\ backlog' = {m \in Msg : /\ folder[m] = "INBOX"
                               /\ ~\E i \in RowId : /\ Exists(i) /\ rows[i].mbox = "INBOX"
                                                    /\ rows[i].uid = uid[m]}
    /\ UNCHANGED <<server, seen, class, store, pc, task, semaphore, stopping>>

DispatchBackfill(w, m) ==
    /\ m \in backlog
    /\ Start(w, m, FALSE)
    /\ backlog' = backlog \ {m}
    /\ UNCHANGED left

------------------------------------------------------------------------------
(* process, up to the row.                                                  *)

Goto(w, where) ==
    /\ pc' = [pc EXCEPT ![w] = where]
    /\ UNCHANGED <<server, seen, class, job, backlog, stopping>>

\* process returns: the deferred release of the slot runs.
Return(w) ==
    /\ Goto(w, "returned")
    /\ semaphore' = semaphore \ {w}

AcquireSlot(w) ==
    /\ pc[w] = "slot"
    /\ Cardinality(semaphore) < MaxSlots
    /\ semaphore' = semaphore \cup {w}
    /\ Goto(w, "parse")
    /\ UNCHANGED <<store, plan, row, tries, nuid, left>>

SlotWaitCancelled(w) ==
    /\ pc[w] = "slot" /\ stopping
    /\ Return(w)
    /\ UNCHANGED <<store, plan, row, tries, nuid, left>>

Choose(w, path, dec) == plan' = [plan EXCEPT ![w] = [path |-> path, dec |-> dec]]

M_ParsePanics_KeepsSlot(w) ==
    /\ pc[w] = "parse" /\ class[job[w].msg] = "panics"
    /\ Choose(w, "panic", "quarantine")
    /\ Goto(w, "create")
    /\ UNCHANGED <<store, row, tries, nuid, left, semaphore>>

\* The slot's deferred release runs before the deferred recovery does.
ParsePanics(w) ==
    /\ pc[w] = "parse" /\ class[job[w].msg] = "panics"
    /\ Choose(w, "panic", "quarantine")
    /\ semaphore' = semaphore \ {w}
    /\ Goto(w, "create")
    /\ UNCHANGED <<store, row, tries, nuid, left>>

ParseFails(w) ==
    /\ pc[w] = "parse" /\ class[job[w].msg] = "unparseable"
    /\ Choose(w, "unparseable", "quarantine")
    /\ Goto(w, "create")
    /\ UNCHANGED <<store, row, tries, nuid, left, semaphore>>

Parses(w, route, dec, next) ==
    /\ pc[w] = "parse" /\ class[job[w].msg] = "parses"
    /\ route \in Route
    /\ Choose(w, route, dec)
    /\ Goto(w, next)
    /\ UNCHANGED <<store, row, tries, nuid, left, semaphore>>

Blocklisted(w) == Parses(w, "blocklist", "quarantine", "create")

\* whitelisted with bypass_scan, and the sender's authentication is aligned
Bypassed(w) == Parses(w, "bypass", "pass", "create")

\* Fan-out, Decide and the whitelist override: see module Verdict.
Scanned(w) == \E d \in Decision : Parses(w, "scan", d, "upsert")

\* The address a row is stored under is taken (unique index idx_account_uid).
HasKey(i, f, u) == Exists(i) /\ rows[i].kf = f /\ rows[i].uid = u
KeyTaken(w) == \E i \in RowId : HasKey(i, "INBOX", job[w].addr)

M_StatusFor_Backfill(w) ==
    CASE plan[w].dec = "delete"     -> "DELETED"
      [] plan[w].dec = "quarantine" -> "QUARANTINED"
      [] OTHER                      -> "INBOX"

\* buildScanRecord's status, and INBOX for a backfill.
StatusFor(w) ==
    CASE job[w].live /\ plan[w].dec = "delete"     -> "DELETED"
      [] job[w].live /\ plan[w].dec = "quarantine" -> "QUARANTINED"
      [] OTHER                                     -> "INBOX"

NewRow(w) ==
    [status |-> StatusFor(w), kf |-> "INBOX", uid |-> job[w].addr, mbox |-> "INBOX",
     msg |-> job[w].msg,
     \* the bypass branch leaves Source empty, which reads as live
     src |-> IF job[w].live \/ plan[w].path = "bypass" THEN "live" ELSE "backfill"]

\* i is the next primary key.
Fresh(i) == ~Exists(i) /\ \A j \in RowId : j < i => Exists(j)

Insert(w, i) ==
    /\ Fresh(i)
    /\ rows' = [rows EXCEPT ![i] = NewRow(w)]
    /\ row' = [row EXCEPT ![w] = i]

\* takeIMAPAction has something to do.
Acts(w) == job[w].live /\ plan[w].dec # "pass"

\* Panic, parse failure, blocklist and bypass: a plain Create.
CreateRow(w) ==
    /\ pc[w] = "create" /\ ~KeyTaken(w)
    /\ \E i \in RowId : Insert(w, i)
    /\ IF Acts(w) THEN Goto(w, "imap") /\ UNCHANGED semaphore ELSE Return(w)
    /\ UNCHANGED <<audit, plan, tries, nuid, left>>

\* A failed Create ends process; the bypass branch ignores the error and ends too.
CreateFails(w) ==
    /\ pc[w] = "create"
    /\ IF KeyTaken(w) THEN UNCHANGED left ELSE Spend("db")
    /\ Return(w)
    /\ UNCHANGED <<store, plan, row, tries, nuid>>

M_UpsertRow_Create(w) ==
    /\ pc[w] = "upsert"
    /\ IF KeyTaken(w)
       THEN Return(w) /\ UNCHANGED <<rows, row>>
       ELSE /\ \E i \in RowId : Insert(w, i)
            /\ Goto(w, IF Acts(w) THEN "imap" ELSE "audit") /\ UNCHANGED semaphore
    /\ UNCHANGED <<audit, plan, tries, nuid, left>>

\* The scan route: Create with OnConflict(account_uid, imap_uid) DoUpdates. Of the
\* columns modelled here only status is updated.
UpsertRow(w) ==
    /\ pc[w] = "upsert"
    /\ IF KeyTaken(w)
       THEN \E i \in RowId :
              /\ HasKey(i, "INBOX", job[w].addr)
              /\ rows' = [rows EXCEPT ![i].status = StatusFor(w)]
              /\ row' = [row EXCEPT ![w] = i]
       ELSE \E i \in RowId : Insert(w, i)
    /\ Goto(w, IF Acts(w) THEN "imap" ELSE "audit")
    /\ UNCHANGED <<audit, plan, tries, nuid, left, semaphore>>

M_UpsertFails_ActsAnyway(w) ==
    /\ pc[w] = "upsert"
    /\ Spend("db")
    /\ IF Acts(w) THEN Goto(w, "imap") /\ UNCHANGED semaphore ELSE Return(w)
    /\ UNCHANGED <<store, plan, row, tries, nuid>>

UpsertFails(w) ==
    /\ pc[w] = "upsert"
    /\ Spend("db")
    /\ Return(w)
    /\ UNCHANGED <<store, plan, row, tries, nuid>>

------------------------------------------------------------------------------
(* takeIMAPAction and what follows.                                         *)

Quarantines(w) == plan[w].dec = "quarantine"

\* The message is still where process was told it is.
AtSource(w) == folder[job[w].msg] = "INBOX" /\ uid[job[w].msg] = job[w].addr

Step(w, where) ==
    /\ pc' = [pc EXCEPT ![w] = where]
    /\ UNCHANGED <<seen, class, job, plan, row, daemon>>

M_MoveSucceeds_SourceUID(w) ==
    /\ pc[w] = "imap" /\ Quarantines(w) /\ AtSource(w)
    /\ Place(job[w].msg, "Quarantine")
    /\ nuid' = [nuid EXCEPT ![w] = job[w].addr]
    /\ Step(w, "rekey")
    /\ UNCHANGED <<store, tries, left>>

\* MOVE, and the UID of the copy from COPYUID.
MoveSucceeds(w) ==
    /\ pc[w] = "imap" /\ Quarantines(w) /\ AtSource(w)
    /\ Place(job[w].msg, "Quarantine")
    /\ nuid' = [nuid EXCEPT ![w] = uidNext["Quarantine"]]
    /\ Step(w, "rekey")
    /\ UNCHANGED <<store, tries, left>>

MoveWithoutUID(w) ==
    /\ pc[w] = "imap" /\ Quarantines(w) /\ AtSource(w)
    /\ Place(job[w].msg, "Quarantine")
    /\ Spend("uid")
    /\ Step(w, "rekey")
    /\ UNCHANGED <<store, tries, nuid>>

\* MOVE of a UID that is not there is no error: an empty OK, without COPYUID.
MoveFindsNothing(w) ==
    /\ pc[w] = "imap" /\ Quarantines(w) /\ ~AtSource(w)
    /\ Step(w, "rekey")
    /\ UNCHANGED <<server, store, tries, nuid, left>>

Expunge(m) == folder' = [folder EXCEPT ![m] = "gone"] /\ UNCHANGED <<uid, uidNext, held>>

\* STORE \Deleted and UID EXPUNGE, or STORE \Flagged; no error if absent.
DeleteOrFlagSucceeds(w) ==
    /\ pc[w] = "imap" /\ ~Quarantines(w)
    /\ IF plan[w].dec = "delete" /\ AtSource(w)
       THEN Expunge(job[w].msg) ELSE UNCHANGED server
    /\ Step(w, "audit")
    /\ UNCHANGED <<store, tries, nuid, left>>

\* withRetry and MoveToQuarantine have failed: the next of takeIMAPAction's rounds.
NextRound(w) ==
    /\ tries' = [tries EXCEPT ![w] = IF tries[w].outer > 1
                                     THEN [inner |-> Inner, outer |-> tries[w].outer - 1]
                                     ELSE AllTries]
    /\ Step(w, IF tries[w].outer > 1 THEN "imap" ELSE "revert")

\* One attempt of withRetry has failed. After the last, MoveToQuarantine looks
\* whether the message left the source all the same (F-054).
AfterFailure(w) ==
    IF tries[w].inner > 1
    THEN /\ tries' = [tries EXCEPT ![w] = [inner |-> tries[w].inner - 1,
                                           outer |-> tries[w].outer]]
         /\ Step(w, "imap")
    ELSE IF Quarantines(w) THEN Step(w, "check") /\ UNCHANGED tries
    ELSE NextRound(w)

AttemptFails(w) ==
    /\ pc[w] = "imap"
    /\ Spend("imap")
    /\ AfterFailure(w)
    /\ UNCHANGED <<server, store, nuid>>

AttemptLosesReply(w) ==
    /\ pc[w] = "imap" /\ AtSource(w)
    /\ \/ Quarantines(w) /\ Place(job[w].msg, "Quarantine")
       \/ plan[w].dec = "delete" /\ Expunge(job[w].msg)
    /\ Spend("reply")
    /\ AfterFailure(w)
    /\ UNCHANGED <<store, nuid>>

\* MessageExists
CheckFindsItGone(w) ==
    /\ pc[w] = "check" /\ ~AtSource(w)
    /\ Step(w, "rekey")
    /\ UNCHANGED <<server, store, tries, nuid, left>>

CheckFindsIt(w) ==
    /\ pc[w] = "check" /\ AtSource(w)
    /\ NextRound(w)
    /\ UNCHANGED <<server, store, nuid, left>>

CheckFails(w) ==
    /\ pc[w] = "check"
    /\ Spend("imap")
    /\ NextRound(w)
    /\ UNCHANGED <<server, store, nuid>>

\* A cancelled context ends the retries; the panic recovery has a context of its
\* own, which only its 30 seconds can end.
GiveUp(w) ==
    /\ pc[w] \in {"imap", "check"}
    /\ IF plan[w].path = "panic" THEN Spend("imap") ELSE stopping /\ UNCHANGED left
    /\ Step(w, "revert")
    /\ UNCHANGED <<server, store, tries, nuid>>

\* Only the scan route goes on to the audit entry; the others return.
Proceed(w) ==
    IF plan[w].path = "scan" THEN Goto(w, "audit") /\ UNCHANGED semaphore ELSE Return(w)

M_RevertStatus_AuditOnly(w) ==
    /\ pc[w] = "revert"
    /\ audit' = audit \cup {<<row[w], "IMAP_FAIL">>}
    /\ Proceed(w)
    /\ UNCHANGED <<rows, plan, row, tries, nuid, left>>

RevertStatus(w) ==
    /\ pc[w] = "revert"
    /\ rows' = [rows EXCEPT ![row[w]].status = "INBOX"]
    /\ audit' = audit \cup {<<row[w], "IMAP_FAIL">>}
    /\ Proceed(w)
    /\ UNCHANGED <<plan, row, tries, nuid, left>>

\* The transaction's statements are not checked one by one, so either of them,
\* or the whole transaction, may be lost.
RevertFails(w) ==
    /\ pc[w] = "revert"
    /\ Spend("db")
    /\ \/ UNCHANGED store
       \/ /\ rows' = [rows EXCEPT ![row[w]].status = "INBOX"]
          /\ UNCHANGED audit
       \/ /\ audit' = audit \cup {<<row[w], "IMAP_FAIL">>}
          /\ UNCHANGED rows
    /\ Proceed(w)
    /\ UNCHANGED <<plan, row, tries, nuid>>

NewKeyTaken(w) == nuid[w] > 0 /\ \E i \in RowId : i # row[w] /\ HasKey(i, "Quarantine", nuid[w])

M_UpdateQuarantineUID_AnyUID(w) ==
    /\ pc[w] = "rekey" /\ ~NewKeyTaken(w)
    /\ rows' = [rows EXCEPT ![row[w]] =
                   [@ EXCEPT !.mbox = "Quarantine", !.kf = "Quarantine",
                             !.uid = IF nuid[w] > 0 THEN nuid[w] ELSE @]]
    /\ Proceed(w)
    /\ UNCHANGED <<audit, plan, row, tries, nuid, left>>

\* updateQuarantineUID: with UID 0 only imap_mailbox changes.
UpdateQuarantineUID(w) ==
    /\ pc[w] = "rekey" /\ ~NewKeyTaken(w)
    /\ rows' = [rows EXCEPT ![row[w]] =
                   IF nuid[w] > 0
                   THEN [@ EXCEPT !.mbox = "Quarantine", !.kf = "Quarantine", !.uid = nuid[w]]
                   ELSE [@ EXCEPT !.mbox = "Quarantine"]]
    /\ Proceed(w)
    /\ UNCHANGED <<audit, plan, row, tries, nuid, left>>

M_UpdateQuarantineUIDFails_Dropped(w) ==
    /\ pc[w] = "rekey"
    /\ IF NewKeyTaken(w) THEN UNCHANGED left ELSE Spend("db")
    /\ Proceed(w)
    /\ UNCHANGED <<store, plan, row, tries, nuid>>

\* The blocklist branch drops the error; the others audit it.
UpdateQuarantineUIDFails(w) ==
    /\ pc[w] = "rekey"
    /\ IF NewKeyTaken(w) THEN UNCHANGED left ELSE Spend("db")
    /\ IF plan[w].path = "blocklist" THEN Return(w)
                                     ELSE Goto(w, "desync") /\ UNCHANGED semaphore
    /\ UNCHANGED <<store, plan, row, tries, nuid>>

AuditQuarantineDesync(w) ==
    /\ pc[w] = "desync"
    /\ \/ audit' = audit \cup {<<row[w], "QUAR_DESYNC">>} /\ UNCHANGED left
       \/ Spend("db") /\ UNCHANGED audit
    /\ Proceed(w)
    /\ UNCHANGED <<rows, plan, row, tries, nuid>>

\* verdictToAction
ActionName(w) ==
    CASE ~job[w].live                              -> "BACKFILL"
      [] job[w].live /\ plan[w].dec = "delete"     -> "DELETE"
      [] job[w].live /\ plan[w].dec = "quarantine" -> "QUARANTINE"
      [] OTHER                                     -> "PASS"

AuditAction(w) ==
    /\ pc[w] = "audit"
    /\ \/ audit' = audit \cup {<<row[w], ActionName(w)>>} /\ UNCHANGED left
       \/ Spend("db") /\ UNCHANGED audit
    /\ Return(w)
    /\ UNCHANGED <<rows, plan, row, tries, nuid>>

------------------------------------------------------------------------------
(* After process has returned; stopping and crashing.                       *)

Forget(w) ==
    /\ pc' = [pc EXCEPT ![w] = "idle"]
    /\ job' = [job EXCEPT ![w] = NoJob]
    /\ plan' = [plan EXCEPT ![w] = NoPlan]
    /\ row' = [row EXCEPT ![w] = 0]
    /\ tries' = [tries EXCEPT ![w] = AllTries]
    /\ nuid' = [nuid EXCEPT ![w] = 0]
    /\ UNCHANGED <<server, class, store, daemon>>

\* The dispatcher marks the UID \Seen once onEmail has returned, whatever it
\* did; the mark finds nothing if the message has left INBOX. Backfill never marks.
MarkSeen(w) ==
    /\ pc[w] = "returned"
    /\ seen' = IF job[w].live /\ AtSource(w) THEN seen \cup {job[w].msg} ELSE seen
    /\ Forget(w)
    /\ UNCHANGED left

\* seenCh is full, STORE fails, or the listener has gone.
MarkLost(w) ==
    /\ pc[w] = "returned" /\ job[w].live
    /\ IF stopping THEN UNCHANGED left ELSE Spend("mark")
    /\ Forget(w)
    /\ UNCHANGED seen

Stop ==
    /\ ~stopping /\ Spend("stop")
    /\ stopping' = TRUE
    /\ UNCHANGED <<server, seen, class, store, pc, task, semaphore, backlog>>

Boot ==
    /\ pc' = [w \in Worker |-> "idle"]
    /\ job' = [w \in Worker |-> NoJob]
    /\ plan' = [w \in Worker |-> NoPlan]
    /\ row' = [w \in Worker |-> 0]
    /\ tries' = [w \in Worker |-> AllTries]
    /\ nuid' = [w \in Worker |-> 0]
    /\ semaphore' = {} /\ backlog' = {} /\ stopping' = FALSE
    /\ UNCHANGED <<server, seen, class, store>>

\* Every worker has returned, as main waits for before it exits.
Restart ==
    /\ stopping /\ \A w \in Worker : pc[w] = "idle"
    /\ Boot
    /\ UNCHANGED left

Crash == Spend("crash") /\ Boot

\* Nothing in work: the daemon waits for mail.
WaitForMail == (\A w \in Worker : pc[w] = "idle") /\ UNCHANGED vars

ToTheRow(w) ==
    \/ AcquireSlot(w) \/ SlotWaitCancelled(w)
    \/ ParsePanics(w) \/ ParseFails(w) \/ Blocklisted(w) \/ Bypassed(w) \/ Scanned(w)
    \/ CreateRow(w) \/ CreateFails(w) \/ UpsertRow(w) \/ UpsertFails(w)

TakeIMAPAction(w) ==
    \/ MoveSucceeds(w) \/ MoveWithoutUID(w) \/ MoveFindsNothing(w)
    \/ DeleteOrFlagSucceeds(w)
    \/ AttemptFails(w) \/ AttemptLosesReply(w)
    \/ CheckFindsItGone(w) \/ CheckFindsIt(w) \/ CheckFails(w) \/ GiveUp(w)

Conclude(w) ==
    \/ RevertStatus(w) \/ RevertFails(w)
    \/ UpdateQuarantineUID(w) \/ UpdateQuarantineUIDFails(w)
    \/ AuditQuarantineDesync(w) \/ AuditAction(w)
    \/ MarkSeen(w) \/ MarkLost(w)

Process(w) == ToTheRow(w) \/ TakeIMAPAction(w) \/ Conclude(w)

Next ==
    \/ \E m \in Msg : Arrive(m)
    \/ \E w \in Worker, m \in Msg : Dispatch(w, m) \/ DispatchBackfill(w, m)
    \/ BackfillSnapshot
    \/ \E w \in Worker : Process(w)
    \/ Stop \/ Restart \/ Crash
    \/ WaitForMail

Spec == Init /\ [][Next]_vars

\* Goroutines make progress, the listener and the recovery sweep keep handing
\* over what is UNSEEN, and a stopped daemon is started again.
Fairness ==
    /\ \A w \in Worker : WF_vars(Process(w))
    /\ \A m \in Msg : WF_vars(\E w \in Worker : Dispatch(w, m))
    /\ WF_vars(Restart)

FairSpec == Spec /\ Fairness

------------------------------------------------------------------------------
(* Properties.                                                              *)

\* Every variable stays in its type.
TypeOK ==
    /\ folder \in [Msg -> Folder \cup {"unborn", "gone"}]
    /\ uid \in [Msg -> Nat]
    /\ uidNext \in [Folder -> Nat \ {0}]
    /\ held \subseteq Folder \X Nat \X Msg
    /\ seen \subseteq Msg
    /\ class \in [Msg -> ClassType]
    /\ rows \in [RowId -> RowType]
    /\ audit \subseteq RowId \X Entry
    /\ pc \in [Worker -> PcType]
    /\ job \in [Worker -> JobType]
    /\ plan \in [Worker -> PlanType]
    /\ row \in [Worker -> RowId \cup {0}]
    /\ tries \in [Worker -> TriesType]
    /\ nuid \in [Worker -> Nat]
    /\ semaphore \subseteq Worker
    /\ backlog \subseteq Msg
    /\ stopping \in BOOLEAN
    /\ left \in [FaultKind -> Nat]

\* The key a row is stored under, which recovery, backfill and the upsert look
\* up, was assigned by the server to the very message the row describes, and to
\* no other, through every retry, re-dispatch, lost reply and crash.
KeyTruthful == \A i \in RowId : Exists(i) => <<rows[i].kf, rows[i].uid, rows[i].msg>> \in held

\* A row whose key says Quarantine is exactly where the server has the message,
\* so that a later release or delete by that key cannot miss it.
QuarantineKeyExact ==
    \A i \in RowId : Exists(i) /\ rows[i].kf = "Quarantine" =>
        folder[rows[i].msg] = "Quarantine" /\ uid[rows[i].msg] = rows[i].uid

\* Write-ahead: the pipeline never moves or deletes a message of which the
\* database holds no row ("scan record upsert failed - skipping IMAP action").
RecordedBeforeTouched ==
    \A m \in Msg : folder[m] \in {"Quarantine", "gone"} =>
        \E i \in RowId : Exists(i) /\ rows[i].msg = m

Slotted == {"parse", "create", "upsert"} \cup WithRow

\* Every way out of process gives its slot back, and only a worker that is past
\* the slot wait holds one. The panic recovery runs without a slot.
SlotsReturned ==
    /\ semaphore = {w \in Worker : pc[w] \in Slotted /\ plan[w].path # "panic"}
    /\ Cardinality(semaphore) <= MaxSlots

Unused(K) == \A k \in K : left[k] = Faults[k]

Claims(i) == Exists(i) /\ rows[i].status \in {"QUARANTINED", "DELETED"}

\* Once nobody is working on a message, a row that says it was quarantined or
\* deleted is right that it is not in the inbox: a failed IMAP action is always
\* reverted, however often the message was dispatched and whatever replies were
\* lost, unless the daemon crashed or a database write failed.
NoFalseSafety ==
    Unused({"crash", "db"}) =>
        \A i \in RowId : Claims(i) /\ ~Working(rows[i].msg)
                            => folder[rows[i].msg] # "INBOX"

PlaceOf(status) ==
    CASE status = "INBOX" -> "INBOX" [] status = "QUARANTINED" -> "Quarantine"
      [] status = "DELETED" -> "gone"

\* README.md:73 "IMAP state and the local database are kept in sync": with no
\* crash, failed write, lost reply, second dispatch or backfill, the status of
\* every row is the place of its message as soon as its worker is done,
\* through failed IMAP calls, missing COPYUIDs, lost \Seen marks and shutdowns.
StatusInSync ==
    Unused({"crash", "db", "reply", "dup", "backfill"}) =>
        \A i \in RowId : Exists(i) /\ ~Working(rows[i].msg)
                            => folder[rows[i].msg] = PlaceOf(rows[i].status)

\* listener.go:232 "a crash before processing completes leaves the message UNSEEN
\* and eligible for retry": a row that wrongly claims its message was dealt with
\* is of a message still unseen, which the next dispatch will put right (if no
\* write failed, no shutdown cut a slot wait short and no second worker marked it).
FalseClaimsAreRetried ==
    Unused({"db", "stop", "dup"}) =>
        \A i \in RowId : Claims(i) /\ ~Working(rows[i].msg) /\ rows[i].msg \in seen
                            => folder[rows[i].msg] # "INBOX"

\* auditQuarantineDesync, "so the DB/IMAP divergence is never silent (F-056)": a
\* message moved to quarantine, whose new UID the server did report, and whose
\* row does not carry it has a QUAR_DESYNC entry, if one write has failed.
NeverSilent ==
    Unused({"crash", "dup", "uid", "reply", "backfill"}) /\ Faults["db"] - left["db"] <= 1 =>
        \A i \in RowId :
            Exists(i) /\ ~Working(rows[i].msg) /\ folder[rows[i].msg] = "Quarantine"
                => \/ rows[i].kf = "Quarantine" /\ rows[i].uid = uid[rows[i].msg]
                   \/ <<i, "QUAR_DESYNC">> \in audit

Settled(m) ==
    /\ ~Working(m)
    /\ folder[m] = "INBOX" => m \in seen
    /\ \E i \in RowId : Exists(i) /\ rows[i].msg = m
    /\ \A i \in RowId : Claims(i) /\ rows[i].msg = m => folder[m] # "INBOX"

\* Every message that arrives is eventually recorded, acted on and out of the
\* way, through crashes, failed and lost IMAP calls and lost marks, unless a write
\* fails, the daemon is stopped or the message is dispatched twice at once.
EventuallySettled ==
    \A m \in Msg :
        folder[m] = "INBOX" ~> (Settled(m) \/ ~Unused({"db", "stop", "dup"}))
==============================================================================
