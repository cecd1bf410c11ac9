-------------------------- MODULE Pipeline_proofs --------------------------
(***************************************************************************)
(* The safety of one mailbox's pipeline for any number of messages,         *)
(* workers, rows, retries and faults. First what its steps do: they keep    *)
(* the types, and each is of one of a few kinds. Then the invariants, which *)
(* are argued kind by kind.                                                 *)
(***************************************************************************)
EXTENDS Pipeline, FiniteSetTheorems, TLAPS

\* The server never assigns an address twice, nor two INBOX UIDs to a message.
Ledger ==
    /\ \A h, k \in held : h[1] = k[1] /\ h[2] = k[2] => h[3] = k[3]
    /\ \A h, k \in held : h[1] = "INBOX" /\ k[1] = "INBOX" /\ h[3] = k[3] => h[2] = k[2]
    /\ \A h \in held : h[2] < uidNext[h[1]] /\ folder[h[3]] # "unborn"
    /\ \A m \in Msg : folder[m] \in Folder => <<folder[m], uid[m], m>> \in held

\* process was given an address of its message.
JobTruth == \A w \in Worker : pc[w] # "idle" => <<"INBOX", job[w].addr, job[w].msg>> \in held

\* From the write of its row on, a worker holds the id of a row of its message.
RowHeld ==
    \A w \in Worker : pc[w] \in WithRow =>
        row[w] \in RowId /\ Exists(row[w]) /\ rows[row[w]].msg = job[w].msg

\* A UID from COPYUID is where the message is.
NewUIDTruth ==
    \A w \in Worker :
        /\ pc[w] \in BeforeRow \cup {"idle", "imap", "check", "revert"} => nuid[w] = 0
        /\ pc[w] = "rekey" /\ nuid[w] > 0 =>
              folder[job[w].msg] = "Quarantine" /\ uid[job[w].msg] = nuid[w]

\* The panic path starts at Parse.
PanicAfterParse == \A w \in Worker : pc[w] \in {"idle", "slot", "parse"} => plan[w].path # "panic"

LeftBound == \A k \in FaultKind : left[k] <= Faults[k]

\* While a row claims that a message still in INBOX was dealt with, the worker
\* that will act on it or revert the row is at work.
OnDuty(w, i) ==
    /\ pc[w] \in {"imap", "check", "revert"} /\ row[w] = i
    /\ plan[w].dec \in {"quarantine", "delete"}

Duty ==
    Unused({"crash", "db"}) =>
        \A i \in RowId : Claims(i) /\ folder[rows[i].msg] = "INBOX" =>
            \E w \in Worker : OnDuty(w, i)

IInv ==
    /\ TypeOK /\ IsFiniteSet(semaphore)
    /\ Ledger /\ JobTruth /\ RowHeld /\ NewUIDTruth /\ PanicAfterParse /\ LeftBound
    /\ KeyTruthful /\ QuarantineKeyExact /\ RecordedBeforeTouched
    /\ SlotsReturned /\ Duty

------------------------------------------------------------------------------
(* Types.                                                                   *)

\* The constant records the daemon starts from, and starts again from, are typed.
LEMMA Typed ==
    /\ PcType = {"idle", "returned", "slot", "parse", "create", "upsert",
                 "imap", "check", "revert", "rekey", "desync", "audit"}
    /\ NoRow \in RowType /\ NoJob \in JobType /\ NoPlan \in PlanType /\ AllTries \in TriesType
    /\ \A m \in Msg, a \in Nat, l \in BOOLEAN : [msg |-> m, addr |-> a, live |-> l] \in JobType
  <1>1. AnyMsg \in Msg
    BY PipelineAssumption, Zenon DEF AnyMsg
  <1> QED BY <1>1, PipelineAssumption, Zenon
          DEF PcType, BeforeRow, WithRow, NoRow, NoJob, NoPlan, AllTries, RowType, JobType,
              PlanType, TriesType, Status, Folder, RouteType, DecisionType

\* The daemon starts, with an empty database, in a typed state.
LEMMA TypeInit == Init => TypeOK
  <1> SUFFICES ASSUME Init PROVE TypeOK
    BY Zenon
  <1>1. class \in [Msg -> ClassType]
    BY PipelineAssumption, Zenon DEF Init
  <1>2. uidNext \in [Folder -> Nat \ {0}]
    BY DEF Init
  <1>3. /\ held \subseteq Folder \X Nat \X Msg /\ audit \subseteq RowId \X Entry
        /\ seen \subseteq Msg /\ semaphore \subseteq Worker /\ backlog \subseteq Msg
        /\ stopping \in BOOLEAN
    BY Zenon DEF Init
  <1>4. left \in [FaultKind -> Nat] /\ "idle" \in PcType
    BY PipelineAssumption, Typed, Zenon DEF Init
  <1>5. /\ rows \in [RowId -> RowType] /\ job \in [Worker -> JobType]
        /\ plan \in [Worker -> PlanType] /\ tries \in [Worker -> TriesType]
    BY Typed, Zenon DEF Init
  <1> QED BY <1>1, <1>2, <1>3, <1>4, <1>5, Zenon DEF Init, TypeOK

\* Arrival and MOVE keep the server typed.
LEMMA PlaceType ==
    ASSUME TypeOK, NEW m \in Msg, NEW f \in Folder, Place(m, f)
    PROVE  /\ folder' \in [Msg -> Folder \cup {"unborn", "gone"}]
           /\ uid' \in [Msg -> Nat]
           /\ uidNext' \in [Folder -> Nat \ {0}]
           /\ held' \subseteq Folder \X Nat \X Msg
  BY DEF Place, TypeOK

\* UID EXPUNGE keeps the server typed.
LEMMA ExpungeType ==
    ASSUME TypeOK, NEW m \in Msg, Expunge(m)
    PROVE  /\ folder' \in [Msg -> Folder \cup {"unborn", "gone"}]
           /\ uid' \in [Msg -> Nat]
           /\ uidNext' \in [Folder -> Nat \ {0}]
           /\ held' \subseteq Folder \X Nat \X Msg
  BY Zenon DEF Expunge, TypeOK

\* A fault that strikes keeps the budget typed, and is struck off it.
LEMMA SpendType ==
    ASSUME TypeOK, NEW k \in FaultKind, Spend(k)
    PROVE  left' \in [FaultKind -> Nat] /\ left'[k] < left[k]
  BY DEF Spend, TypeOK

\* buildScanRecord, and the literals of the Create branches, make a typed row.
LEMMA RowTyped ==
    ASSUME TypeOK
    PROVE  /\ \A w \in Worker : NewRow(w) \in RowType
           /\ \A r \in RowType, u \in Nat :
                 /\ \A st \in Status : [r EXCEPT !.status = st] \in RowType
                 /\ [r EXCEPT !.mbox = "Quarantine"] \in RowType
                 /\ [r EXCEPT !.mbox = "Quarantine", !.kf = "Quarantine", !.uid = u] \in RowType
  <1>1. ASSUME NEW w \in Worker PROVE NewRow(w) \in RowType
    <2>1. StatusFor(w) \in Status
      BY Zenon DEF StatusFor, Status
    <2>2. job[w].addr \in Nat /\ job[w].msg \in Msg
      BY Zenon DEF TypeOK, JobType
    <2> QED BY <2>1, <2>2, Zenon DEF NewRow, RowType, Folder
  <1> QED BY <1>1, Zenon DEF RowType, Folder

\* An INSERT keeps the table and rec.ID typed.
LEMMA InsertType ==
    ASSUME TypeOK, NEW w \in Worker, NEW i \in RowId, Insert(w, i)
    PROVE  rows' \in [RowId -> RowType] /\ row' \in [Worker -> RowId \cup {0}]
  <1>1. NewRow(w) \in RowType
    BY RowTyped, Zenon
  <1> QED BY <1>1, Zenon DEF Insert, TypeOK

\* withRetry and the rounds of takeIMAPAction keep their counters typed.
LEMMA AfterFailureType ==
    ASSUME TypeOK, NEW w \in Worker, AfterFailure(w) \/ NextRound(w)
    PROVE  /\ tries' \in [Worker -> TriesType] /\ pc' \in [Worker -> PcType]
           /\ UNCHANGED <<seen, class, job, plan, row, daemon>>
  <1>1. /\ tries[w].inner \in Nat /\ tries[w].outer \in Nat /\ AllTries \in TriesType
        /\ Inner \in Nat
    BY PipelineAssumption, Typed, Zenon DEF TypeOK, TriesType
  <1>2. ASSUME NextRound(w)
        PROVE  /\ tries' \in [Worker -> TriesType] /\ pc' \in [Worker -> PcType]
               /\ UNCHANGED <<seen, class, job, plan, row, daemon>>
    <2>1. tries[w].outer > 1 => [inner |-> Inner, outer |-> tries[w].outer - 1] \in TriesType
      BY <1>1 DEF TriesType
    <2> QED BY <1>1, <1>2, <2>1, Typed, Zenon DEF NextRound, Step, TypeOK
  <1>3. CASE tries[w].inner > 1 /\ AfterFailure(w)
    <2>1. [inner |-> tries[w].inner - 1, outer |-> tries[w].outer] \in TriesType
      BY <1>1, <1>3 DEF TriesType
    <2>2. /\ tries' = [tries EXCEPT ![w] = [inner |-> tries[w].inner - 1,
                                            outer |-> tries[w].outer]]
          /\ Step(w, "imap")
      BY <1>3, Zenon DEF AfterFailure
    <2> QED BY <2>1, <2>2, Typed, Zenon DEF Step, TypeOK
  <1>4. CASE ~(tries[w].inner > 1) /\ Quarantines(w) /\ AfterFailure(w)
    BY <1>4, Typed, Zenon DEF AfterFailure, Step, TypeOK
  <1> QED BY <1>2, <1>3, <1>4, Zenon DEF AfterFailure

\* The moves of a worker that Goto, Return and Proceed make.
LEMMA MoveType ==
    ASSUME TypeOK, NEW w \in Worker,
           \/ \E x \in PcType : Goto(w, x) /\ UNCHANGED semaphore
           \/ Return(w) \/ Proceed(w)
    PROVE  /\ pc' \in [Worker -> PcType] /\ semaphore' \subseteq Worker
           /\ UNCHANGED <<server, seen, class, job, backlog, stopping>>
  BY Typed DEF Goto, Return, Proceed, TypeOK

\* Every step of server, daemon and workers keeps every variable typed.
LEMMA TypeStep ==
    ASSUME TypeOK, RowHeld, [Next]_vars
    PROVE  TypeOK'
  <1>1. ASSUME NEW m \in Msg, Arrive(m) PROVE TypeOK'
    BY <1>1, PlaceType, Zenon DEF Arrive, TypeOK, Folder, store, task, daemon
  <1>2. ASSUME NEW w \in Worker, NEW m \in Msg, Dispatch(w, m) PROVE TypeOK'
    BY <1>2, SpendType, Typed, Zenon DEF Dispatch, Start, TypeOK, FaultKind, server, store
  <1>3. ASSUME NEW w \in Worker, NEW m \in Msg, DispatchBackfill(w, m) PROVE TypeOK'
    BY <1>3, Typed, Zenon DEF DispatchBackfill, Start, TypeOK, server, store
  <1>4. CASE BackfillSnapshot
    BY <1>4, SpendType, Zenon DEF BackfillSnapshot, TypeOK, FaultKind, server, store, task
  <1>5. CASE Stop
    BY <1>5, SpendType, Zenon DEF Stop, TypeOK, FaultKind, server, store, task
  <1>6. CASE Restart
    BY <1>6, Typed, Zenon DEF Restart, Boot, TypeOK, server, store
  <1>7. CASE Crash
    BY <1>7, SpendType, Typed, Zenon DEF Crash, Boot, TypeOK, FaultKind, server, store
  <1>8. CASE UNCHANGED vars
    BY <1>8, Zenon DEF vars, TypeOK, server, store, task, daemon
  <1>9. ASSUME NEW w \in Worker, ToTheRow(w) PROVE TypeOK'
    <2> USE DEF server, store, TypeOK
    <2>1. CASE AcquireSlot(w)
      BY <2>1, Typed, Zenon DEF AcquireSlot, Goto
    <2>2. CASE SlotWaitCancelled(w)
      BY <2>2, MoveType, Zenon DEF SlotWaitCancelled
    <2>3. ASSUME NEW path \in RouteType \cup {"panic", "unparseable"}, NEW d \in DecisionType,
                 Choose(w, path, d)
          PROVE  plan' \in [Worker -> PlanType]
      BY <2>3, Zenon DEF Choose, PlanType
    <2>4. CASE ParsePanics(w)
      BY <2>4, <2>3, Typed, Zenon DEF ParsePanics, Goto, DecisionType
    <2>5. CASE ParseFails(w)
      BY <2>5, <2>3, Typed, Zenon DEF ParseFails, Goto, DecisionType
    <2>6. ASSUME NEW route, NEW d \in DecisionType, NEW x \in PcType, Parses(w, route, d, x)
          PROVE  TypeOK'
      <3>1. plan' \in [Worker -> PlanType]
        BY <2>6, <2>3, PipelineAssumption, Zenon DEF Parses
      <3>2. pc' \in [Worker -> PcType]
        BY <2>6, Zenon DEF Parses, Goto
      <3> QED BY <2>6, <3>1, <3>2, Zenon DEF Parses, Goto
    <2>7. CASE Blocklisted(w) \/ Bypassed(w) \/ Scanned(w)
      BY <2>7, <2>6, PipelineAssumption, Typed, ZenonT(30)
      DEF Blocklisted, Bypassed, Scanned, DecisionType
    <2>8. CASE CreateRow(w)
      <3>1. pc' \in [Worker -> PcType] /\ semaphore' \subseteq Worker
            /\ UNCHANGED <<server, seen, class, job, backlog, stopping>>
        BY <2>8, MoveType, Typed, Zenon DEF CreateRow
      <3>2. rows' \in [RowId -> RowType] /\ row' \in [Worker -> RowId \cup {0}]
        BY <2>8, InsertType, Zenon DEF CreateRow
      <3> QED BY <2>8, <3>1, <3>2, Zenon DEF CreateRow
    <2>9. CASE CreateFails(w)
      BY <2>9, MoveType, SpendType, Zenon DEF CreateFails, FaultKind
    <2>10. CASE UpsertRow(w)
      <3>1. rows' \in [RowId -> RowType] /\ row' \in [Worker -> RowId \cup {0}]
        <4>1. StatusFor(w) \in Status
          BY Zenon DEF StatusFor, Status
        <4>2. CASE KeyTaken(w)
          <5>1. PICK i \in RowId : /\ rows' = [rows EXCEPT ![i].status = StatusFor(w)]
                                   /\ row' = [row EXCEPT ![w] = i]
            BY <2>10, <4>2, Zenon DEF UpsertRow
          <5> QED BY <4>1, <5>1, RowTyped, Zenon
        <4> QED BY <2>10, <4>2, InsertType, Zenon DEF UpsertRow
      <3> QED BY <2>10, <3>1, Typed, Zenon DEF UpsertRow, Goto
    <2>11. CASE UpsertFails(w)
      BY <2>11, MoveType, SpendType, Zenon DEF UpsertFails, FaultKind
    <2> QED BY <1>9, <2>1, <2>2, <2>4, <2>5, <2>7, <2>8, <2>9, <2>10, <2>11, Zenon
            DEF ToTheRow
  <1>10. ASSUME NEW w \in Worker, TakeIMAPAction(w) PROVE TypeOK'
    <2> USE DEF server, store, daemon
    <2>1. job[w].msg \in Msg /\ "Quarantine" \in Folder /\ uidNext["Quarantine"] \in Nat
      BY Zenon DEF TypeOK, JobType, Folder
    <2>2. CASE MoveSucceeds(w)
      BY <2>1, <2>2, PlaceType, Typed, Zenon DEF MoveSucceeds, Step, TypeOK
    <2>3. CASE MoveWithoutUID(w)
      BY <2>1, <2>3, PlaceType, SpendType, Typed, Zenon DEF MoveWithoutUID, Step, TypeOK, FaultKind
    <2>4. CASE MoveFindsNothing(w)
      BY <2>4, Typed, Zenon DEF MoveFindsNothing, Step, TypeOK
    <2>5. CASE DeleteOrFlagSucceeds(w)
      BY <2>1, <2>5, ExpungeType, Typed, Zenon DEF DeleteOrFlagSucceeds, Step, TypeOK
    <2>6. CASE AttemptFails(w)
      BY <2>6, AfterFailureType, SpendType, ZenonT(30) DEF AttemptFails, TypeOK, FaultKind
    <2>7. CASE AttemptLosesReply(w)
      BY <2>1, <2>7, PlaceType, ExpungeType, AfterFailureType, SpendType, Zenon
      DEF AttemptLosesReply, TypeOK, FaultKind
    <2>8. CASE CheckFindsItGone(w)
      BY <2>8, Typed, Zenon DEF CheckFindsItGone, Step, TypeOK
    <2>9. CASE CheckFindsIt(w)
      BY <2>9, AfterFailureType, Zenon DEF CheckFindsIt, TypeOK
    <2>10. CASE CheckFails(w)
      BY <2>10, AfterFailureType, SpendType, Zenon DEF CheckFails, TypeOK, FaultKind
    <2>11. CASE GiveUp(w)
      BY <2>11, SpendType, Typed, Zenon DEF GiveUp, Step, TypeOK, FaultKind
    <2> QED BY <1>10, <2>2, <2>3, <2>4, <2>5, <2>6, <2>7, <2>8, <2>9, <2>10, <2>11, Zenon
            DEF TakeIMAPAction
  <1>11. ASSUME NEW w \in Worker, Conclude(w) PROVE TypeOK'
    <2> USE DEF server, store
    <2>1. ASSUME pc[w] \in WithRow, NEW a \in Entry, audit' = audit \cup {<<row[w], a>>}
          PROVE  audit' \subseteq RowId \X Entry
      BY <2>1 DEF RowHeld, TypeOK
    <2>2. ASSUME NEW st \in Status, rows' = [rows EXCEPT ![row[w]].status = st]
          PROVE  rows' \in [RowId -> RowType]
      BY <2>2, RowTyped, Zenon DEF TypeOK
    <2>3. CASE RevertStatus(w)
      BY <2>1, <2>2, <2>3, MoveType, Zenon DEF RevertStatus, TypeOK, WithRow, Entry, Status
    <2>4. CASE RevertFails(w)
      BY <2>1, <2>2, <2>4, MoveType, SpendType, Zenon
      DEF RevertFails, TypeOK, WithRow, Entry, Status, FaultKind
    <2>5. CASE UpdateQuarantineUID(w)
      <3>1. rows' \in [RowId -> RowType]
        BY <2>5, RowTyped, Zenon DEF UpdateQuarantineUID, TypeOK
      <3> QED BY <2>5, <3>1, MoveType, Zenon DEF UpdateQuarantineUID, TypeOK
    <2>6. CASE UpdateQuarantineUIDFails(w)
      BY <2>6, MoveType, SpendType, Typed, Zenon DEF UpdateQuarantineUIDFails, TypeOK, FaultKind
    <2>7. CASE AuditQuarantineDesync(w)
      BY <2>1, <2>7, MoveType, SpendType, Typed, ZenonT(30)
      DEF AuditQuarantineDesync, TypeOK, WithRow, Entry, FaultKind
    <2>8. CASE AuditAction(w)
      <3>1. ActionName(w) \in Entry
        BY Zenon DEF ActionName, Entry
      <3> QED BY <2>1, <2>8, <3>1, MoveType, SpendType, Zenon
              DEF AuditAction, TypeOK, WithRow, FaultKind
    <2>9. CASE MarkSeen(w)
      <3>0. seen \subseteq Msg /\ job[w].msg \in Msg
        BY Zenon DEF TypeOK, JobType
      <3>1. seen' \subseteq Msg
        BY <2>9, <3>0, Zenon DEF MarkSeen
      <3>2. left' \in [FaultKind -> Nat]
        BY <2>9, Zenon DEF MarkSeen, TypeOK
      <3> QED BY <2>9, <3>1, <3>2, Typed, Zenon DEF MarkSeen, Forget, TypeOK, daemon
    <2>10. CASE MarkLost(w)
      BY <2>10, SpendType, Typed, Zenon DEF MarkLost, Forget, TypeOK, FaultKind, daemon
    <2> QED BY <1>11, <2>3, <2>4, <2>5, <2>6, <2>7, <2>8, <2>9, <2>10, Zenon DEF Conclude
  <1> QED BY <1>1, <1>2, <1>3, <1>4, <1>5, <1>6, <1>7, <1>8, <1>9, <1>10, <1>11, Zenon
          DEF Next, Process, WaitForMail

------------------------------------------------------------------------------
(* The kinds of step: what each does to the server, the rows and the worker *)
(* that takes it. Every action is of one kind (KindsOfStep), and the         *)
(* invariants are proved kind by kind.                                      *)

Own(w) == <<pc[w], job[w], plan[w], row[w], nuid[w]>>
Others(w) == \A v \in Worker : v # w => UNCHANGED Own(v)
SameTask(w) == UNCHANGED <<job[w], plan[w], row[w]>>

\* Arrive, BackfillSnapshot, Stop, WaitForMail and stuttering.
Idles ==
    /\ UNCHANGED <<rows, pc, job, plan, row, nuid>>
    /\ UNCHANGED backlog \/ left'["backfill"] < left["backfill"]
    /\ \/ UNCHANGED server
       \/ \E m \in Msg : folder[m] = "unborn" /\ Place(m, "INBOX")

\* Dispatch and DispatchBackfill.
Starts(w) ==
    \E m \in Msg, l \in BOOLEAN :
        /\ Start(w, m, l)
        /\ IF l THEN m \notin seen /\ UNCHANGED backlog /\ (Working(m) => left'["dup"] < left["dup"])
                ELSE m \in backlog

\* The steps of ToTheRow that write no row.
Approaches(w) ==
    /\ Others(w) /\ UNCHANGED <<server, rows, job[w], row[w], nuid[w]>>
    /\ pc[w] \in BeforeRow
    /\ \/ pc[w] = "slot" /\ pc'[w] = "parse" /\ UNCHANGED plan[w]
       \/ pc'[w] \in {"create", "upsert"}
       \/ pc'[w] = "returned" /\ (stopping \/ pc[w] = "create" \/ left'["db"] < left["db"])

\* CreateRow and UpsertRow.
Records(w) ==
    /\ Others(w) /\ UNCHANGED <<server, job[w], plan[w], nuid[w]>>
    /\ pc[w] \in {"create", "upsert"}
    /\ IF Acts(w) THEN pc'[w] = "imap" ELSE pc'[w] \in {"audit", "returned"}
    /\ \E i \in RowId :
          /\ row'[w] = i
          /\ \/ ~Exists(i) /\ rows' = [rows EXCEPT ![i] = NewRow(w)] /\ ~KeyTaken(w)
             \/ /\ HasKey(i, "INBOX", job[w].addr)
                /\ rows' = [rows EXCEPT ![i].status = StatusFor(w)]

\* The IMAP calls that take effect.
Touches(w) ==
    /\ Others(w) /\ SameTask(w) /\ UNCHANGED rows
    /\ pc[w] = "imap" /\ AtSource(w)
    /\ \/ /\ Place(job[w].msg, "Quarantine")
          /\ pc'[w] = "rekey" /\ nuid'[w] = uidNext["Quarantine"]
       \/ /\ Place(job[w].msg, "Quarantine") \/ Expunge(job[w].msg)
          /\ pc'[w] \in {"imap", "check", "revert", "rekey", "audit"} /\ UNCHANGED nuid[w]
    /\ \/ /\ Quarantines(w) /\ Place(job[w].msg, "Quarantine") /\ pc'[w] = "rekey"
          /\ nuid'[w] = uidNext["Quarantine"] \/ left'["uid"] < left["uid"]
       \/ plan[w].dec = "delete" /\ Expunge(job[w].msg) /\ pc'[w] = "audit"
       \/ left'["reply"] < left["reply"]

\* The IMAP calls that do not.
Retries(w) ==
    /\ Others(w) /\ SameTask(w) /\ UNCHANGED <<server, rows, nuid[w]>>
    /\ pc[w] \in {"imap", "check"}
    /\ \/ pc'[w] \in {"imap", "check", "revert"}
       \/ /\ pc'[w] \in {"rekey", "audit"}
          /\ ~AtSource(w) \/ plan[w].dec \notin {"quarantine", "delete"}

\* What follows takeIMAPAction.
Settles(w) ==
    /\ Others(w) /\ SameTask(w) /\ UNCHANGED <<server, nuid[w]>>
    /\ pc[w] \in {"revert", "rekey", "desync", "audit"}
    /\ pc'[w] \in {"desync", "audit", "returned"}
    /\ pc'[w] = "desync" => pc[w] = "rekey" /\ (NewKeyTaken(w) \/ left'["db"] < left["db"])
    /\ pc[w] = "desync" => <<row[w], "QUAR_DESYNC">> \in audit' \/ left'["db"] < left["db"]
    /\ \/ /\ UNCHANGED rows /\ (pc[w] = "revert" => left'["db"] < left["db"])
          /\ pc[w] = "rekey" => pc'[w] = "desync" \/ plan[w].path = "blocklist"
       \/ pc[w] = "revert" /\ rows' = [rows EXCEPT ![row[w]].status = "INBOX"]
       \/ /\ pc[w] = "rekey"
          /\ rows' = [rows EXCEPT ![row[w]] =
                         IF nuid[w] > 0
                         THEN [@ EXCEPT !.mbox = "Quarantine", !.kf = "Quarantine",
                                        !.uid = nuid[w]]
                         ELSE [@ EXCEPT !.mbox = "Quarantine"]]

\* MarkSeen and MarkLost.
Forgets(w) == pc[w] = "returned" /\ Forget(w)

\* Restart and Crash.
Boots ==
    /\ Boot
    /\ (\A w \in Worker : pc[w] = "idle") \/ left'["crash"] < left["crash"]

Kind(w) ==
    Starts(w) \/ Approaches(w) \/ Records(w) \/ Touches(w) \/ Retries(w) \/ Settles(w)
        \/ Forgets(w)

\* Every step is of one of the kinds above: what follows argues by kind, not
\* by action.
LEMMA KindsOfStep ==
    ASSUME TypeOK, [Next]_vars
    PROVE  Idles \/ Boots \/ \E w \in Worker : Kind(w)
  <1>0. /\ pc \in [Worker -> PcType] /\ job \in [Worker -> JobType]
        /\ plan \in [Worker -> PlanType] /\ row \in [Worker -> RowId \cup {0}]
        /\ nuid \in [Worker -> Nat] /\ rows \in [RowId -> RowType]
        /\ left \in [FaultKind -> Nat]
    BY Zenon DEF TypeOK
  <1>1. ASSUME NEW m \in Msg, Arrive(m) PROVE Idles
    BY <1>1, Zenon DEF Arrive, Idles, store, task, daemon
  <1>s. \A k \in FaultKind : Spend(k) => left'[k] < left[k]
    BY SpendType, Zenon
  <1>2. CASE BackfillSnapshot \/ Stop \/ UNCHANGED vars
    <2>1. Spend("backfill") => left'["backfill"] < left["backfill"]
      BY <1>s, Zenon DEF FaultKind
    <2> QED BY <1>2, <2>1, Zenon
            DEF BackfillSnapshot, Stop, vars, Idles, server, store, task, daemon
  <1>3. ASSUME NEW w \in Worker, NEW m \in Msg, Dispatch(w, m) \/ DispatchBackfill(w, m)
        PROVE  Starts(w)
    <2>1. Spend("dup") => left'["dup"] < left["dup"]
      BY <1>s, Zenon DEF FaultKind
    <2>2. CASE Dispatch(w, m)
      BY <2>1, <2>2, Zenon DEF Dispatch, Starts
    <2>3. CASE DispatchBackfill(w, m)
      BY <2>3, Zenon DEF DispatchBackfill, Starts
    <2> QED BY <1>3, <2>2, <2>3, Zenon
  <1>4. CASE Restart \/ Crash
    <2>1. left["crash"] \in Nat /\ left \in [FaultKind -> Nat] /\ "crash" \in FaultKind
      BY Zenon DEF TypeOK, FaultKind
    <2> QED BY <1>4, <2>1 DEF Restart, Crash, Spend, Boots
  <1>5. ASSUME NEW w \in Worker, ToTheRow(w) PROVE Approaches(w) \/ Records(w)
    <2> USE <1>0 DEF Others, Own, store
    <2>1. CASE AcquireSlot(w) \/ SlotWaitCancelled(w)
      BY <2>1, Zenon DEF AcquireSlot, SlotWaitCancelled, Return, Goto, Approaches, BeforeRow
    <2>2. CASE ParsePanics(w) \/ ParseFails(w)
      BY <2>2, Zenon DEF ParsePanics, ParseFails, Choose, Goto, Approaches, BeforeRow
    <2>3. CASE Blocklisted(w) \/ Bypassed(w) \/ Scanned(w)
      BY <2>3, Zenon
      DEF Blocklisted, Bypassed, Scanned, Parses, Choose, Goto, Approaches, BeforeRow
    <2>4. CASE CreateFails(w) \/ UpsertFails(w)
      <3>1. Spend("db") => left'["db"] < left["db"]
        BY <1>s, Zenon DEF FaultKind
      <3> QED BY <2>4, <3>1, Zenon
              DEF CreateFails, UpsertFails, Return, Goto, Approaches, BeforeRow
    <2>5. CASE CreateRow(w)
      BY <2>5, ZenonT(30) DEF CreateRow, Insert, Fresh, Return, Goto, Records
    <2>6. CASE UpsertRow(w)
      BY <2>6, Zenon DEF UpsertRow, Insert, Fresh, Goto, Records
    <2> QED BY <1>5, <2>1, <2>2, <2>3, <2>4, <2>5, <2>6, Zenon DEF ToTheRow
  <1>6. ASSUME NEW w \in Worker, TakeIMAPAction(w) PROVE Touches(w) \/ Retries(w)
    <2> USE <1>0 DEF Others, Own, store, Step, SameTask
    <2>1. CASE MoveSucceeds(w) \/ MoveWithoutUID(w)
      <3>1. Spend("uid") => left'["uid"] < left["uid"]
        BY <1>s, Zenon DEF FaultKind
      <3> QED BY <2>1, <3>1, Zenon DEF MoveSucceeds, MoveWithoutUID, Touches
    <2>2. CASE MoveFindsNothing(w) \/ CheckFindsItGone(w)
      BY <2>2, Zenon DEF MoveFindsNothing, CheckFindsItGone, Retries
    <2>3. CASE DeleteOrFlagSucceeds(w)
      BY <2>3, Zenon DEF DeleteOrFlagSucceeds, Quarantines, Touches, Retries
    <2>4. ASSUME AfterFailure(w) \/ NextRound(w)
          PROVE  /\ pc' = [pc EXCEPT ![w] = pc'[w]]
                 /\ pc'[w] \in {"imap", "check", "revert"}
                 /\ UNCHANGED <<job, plan, row>>
      BY <2>4, Zenon DEF AfterFailure, NextRound
    <2>5. CASE AttemptFails(w) \/ CheckFindsIt(w) \/ CheckFails(w)
      BY <2>4, <2>5, Zenon DEF AttemptFails, CheckFindsIt, CheckFails, Retries
    <2>6. CASE AttemptLosesReply(w)
      <3>1. Spend("reply") => left'["reply"] < left["reply"]
        BY <1>s, Zenon DEF FaultKind
      <3> QED BY <2>4, <2>6, <3>1, Zenon DEF AttemptLosesReply, Touches
    <2>7. CASE GiveUp(w)
      BY <2>7, Zenon DEF GiveUp, Retries
    <2> QED BY <1>6, <2>1, <2>2, <2>3, <2>5, <2>6, <2>7, Zenon DEF TakeIMAPAction
  <1>7. ASSUME NEW w \in Worker, Conclude(w) PROVE Settles(w) \/ Forgets(w)
    <2> USE <1>0 DEF Others, Own, store, SameTask, Proceed, Return, Goto
    <2>1. Spend("db") => left'["db"] < left["db"]
      BY DEF Spend, FaultKind
    <2>2. CASE RevertStatus(w)
      BY <2>2, Zenon DEF RevertStatus, Settles
    <2>3. CASE RevertFails(w)
      BY <2>1, <2>3, Zenon DEF RevertFails, Settles
    <2>4. CASE UpdateQuarantineUID(w)
      BY <2>4, Zenon DEF UpdateQuarantineUID, Settles
    <2>5. CASE UpdateQuarantineUIDFails(w)
      BY <2>1, <2>5, Zenon DEF UpdateQuarantineUIDFails, Settles
    <2>6. CASE AuditQuarantineDesync(w) \/ AuditAction(w)
      BY <2>1, <2>6, Zenon DEF AuditQuarantineDesync, AuditAction, Settles
    <2>7. CASE MarkSeen(w) \/ MarkLost(w)
      BY <2>7, Zenon DEF MarkSeen, MarkLost, Forgets
    <2> QED BY <1>7, <2>2, <2>3, <2>4, <2>5, <2>6, <2>7, Zenon DEF Conclude
  <1> QED BY <1>1, <1>2, <1>3, <1>4, <1>5, <1>6, <1>7, Zenon DEF Next, Process, WaitForMail, Kind

------------------------------------------------------------------------------
(* The server.                                                              *)

\* A message placed in a folder gets a UID of its own, never used before.
LEMMA PlaceKeepsLedger ==
    ASSUME TypeOK, Ledger, NEW m \in Msg, NEW f \in Folder, Place(m, f),
           f = "INBOX" => folder[m] = "unborn"
    PROVE  Ledger' /\ held \subseteq held'
  <1> DEFINE new == <<f, uidNext[f], m>>
  <1>1. held' = held \cup {new} /\ new \in Folder \X Nat \X Msg
    BY Zenon DEF Place, TypeOK
  <1>2. \A h \in held : h \in Folder \X Nat \X Msg
    BY Zenon DEF TypeOK
  <1>3. /\ uidNext'[f] = uidNext[f] + 1 /\ uidNext[f] \in Nat
        /\ \A g \in Folder : g # f => uidNext'[g] = uidNext[g]
        /\ \A g \in Folder : uidNext[g] \in Nat
    BY Zenon DEF Place, TypeOK
  <1>4. /\ folder'[m] = f /\ uid'[m] = uidNext[f] /\ f # "unborn"
        /\ \A n \in Msg : n # m => folder'[n] = folder[n] /\ uid'[n] = uid[n]
    BY Zenon DEF Place, TypeOK, Folder
  <1>5. \A h \in held : ~(h[1] = new[1] /\ h[2] = new[2])
    BY <1>2, <1>3 DEF Ledger
  <1>6. \A h \in held : ~(h[1] = "INBOX" /\ f = "INBOX" /\ h[3] = m)
    BY <1>2, Zenon DEF Ledger
  <1>7. \A h, k \in held' : h[1] = k[1] /\ h[2] = k[2] => h[3] = k[3]
    BY <1>1, <1>5 DEF Ledger
  <1>8. \A h, k \in held' : h[1] = "INBOX" /\ k[1] = "INBOX" /\ h[3] = k[3] => h[2] = k[2]
    BY <1>1, <1>6 DEF Ledger
  <1>9. \A h \in held' : h[2] < uidNext'[h[1]] /\ folder'[h[3]] # "unborn"
    <2> SUFFICES ASSUME NEW h \in held' PROVE h[2] < uidNext'[h[1]] /\ folder'[h[3]] # "unborn"
      BY Zenon
    <2>1. CASE h = new
      BY <2>1, <1>3, <1>4
    <2>2. CASE h \in held
      <3>1. h[1] \in Folder /\ h[2] \in Nat /\ h[3] \in Msg
        BY <2>2, <1>2, Zenon
      <3>2. h[2] < uidNext[h[1]] /\ folder[h[3]] # "unborn"
        BY <2>2, Zenon DEF Ledger
      <3> QED BY <3>1, <3>2, <1>3, <1>4
    <2> QED BY <1>1, <2>1, <2>2, Zenon
  <1>10. \A n \in Msg : folder'[n] \in Folder => <<folder'[n], uid'[n], n>> \in held'
    BY <1>1, <1>4, Zenon DEF Ledger
  <1> QED BY <1>1, <1>7, <1>8, <1>9, <1>10, Zenon DEF Ledger

\* An expunged message keeps nothing that another could be taken for.
LEMMA ExpungeKeepsLedger ==
    ASSUME TypeOK, Ledger, NEW m \in Msg, Expunge(m)
    PROVE  Ledger' /\ held \subseteq held'
  <1>1. /\ held' = held /\ uid' = uid /\ uidNext' = uidNext
        /\ folder'[m] = "gone"
        /\ \A n \in Msg : n # m => folder'[n] = folder[n]
    BY Zenon DEF Expunge, TypeOK
  <1>2. \A h \in held : h[3] \in Msg
    BY Zenon DEF TypeOK
  <1> QED BY <1>1, <1>2, Zenon DEF Ledger, Folder

\* What any step may do to the server: the ledger grows, and a message that has
\* left INBOX stays where it is.
LEMMA ServerStep ==
    ASSUME TypeOK, Ledger, [Next]_vars
    PROVE  /\ Ledger' /\ held \subseteq held'
           /\ \A m \in Msg : folder[m] \in {"Quarantine", "gone"} =>
                 folder'[m] = folder[m] /\ uid'[m] = uid[m]
           /\ \A m \in Msg : folder'[m] # folder[m] =>
                 \/ folder[m] = "unborn" /\ folder'[m] = "INBOX"
                 \/ \E w \in Worker : Touches(w) /\ job[w].msg = m
  <1>1. CASE UNCHANGED server
    BY <1>1, Zenon DEF server, Ledger
  <1>2. ASSUME NEW m \in Msg, folder[m] = "unborn", Place(m, "INBOX")
        PROVE  /\ Ledger' /\ held \subseteq held'
               /\ \A n \in Msg : n # m => folder'[n] = folder[n] /\ uid'[n] = uid[n]
               /\ folder'[m] = "INBOX"
    BY <1>2, PlaceKeepsLedger, Zenon DEF Folder, Place, TypeOK
  <1>3. ASSUME NEW w \in Worker, Touches(w)
        PROVE  /\ Ledger' /\ held \subseteq held'
               /\ \A n \in Msg : n # job[w].msg => folder'[n] = folder[n] /\ uid'[n] = uid[n]
               /\ folder[job[w].msg] = "INBOX"
    <2>1. job[w].msg \in Msg /\ folder[job[w].msg] = "INBOX" /\ "Quarantine" \in Folder
      BY <1>3, Zenon DEF Touches, AtSource, TypeOK, JobType, Folder
    <2>2. CASE Place(job[w].msg, "Quarantine")
      BY <2>1, <2>2, PlaceKeepsLedger, Zenon DEF Place, TypeOK
    <2>3. CASE Expunge(job[w].msg)
      BY <2>1, <2>3, ExpungeKeepsLedger, Zenon DEF Expunge, TypeOK
    <2> QED BY <1>3, <2>2, <2>3, Zenon DEF Touches
  <1>4. ASSUME NEW w \in Worker, Kind(w), ~Touches(w) PROVE UNCHANGED server
    BY <1>4, Zenon DEF Kind, Starts, Start, Approaches, Records, Retries, Settles, Forgets, Forget
  <1>5. CASE Idles
    BY <1>1, <1>2, <1>5, Zenon DEF Idles
  <1>6. CASE Boots
    BY <1>1, <1>6, Zenon DEF Boots, Boot
  <1>7. ASSUME NEW w \in Worker, Kind(w)
        PROVE  /\ Ledger' /\ held \subseteq held'
               /\ \A m \in Msg : folder[m] \in {"Quarantine", "gone"} =>
                     folder'[m] = folder[m] /\ uid'[m] = uid[m]
               /\ \A m \in Msg : folder'[m] # folder[m] =>
                     \/ folder[m] = "unborn" /\ folder'[m] = "INBOX"
                     \/ \E v \in Worker : Touches(v) /\ job[v].msg = m
    BY <1>7, <1>1, <1>3, <1>4, Zenon
  <1> QED BY KindsOfStep, <1>5, <1>6, <1>7, Zenon

------------------------------------------------------------------------------
(* The rows and the workers.                                                *)

\* A row written by a worker: its key and message are the worker's.
LEMMA NewRowFields ==
    ASSUME NEW w \in Worker
    PROVE  /\ NewRow(w).status = StatusFor(w) /\ NewRow(w).msg = job[w].msg
           /\ NewRow(w).kf = "INBOX" /\ NewRow(w).uid = job[w].addr
           /\ StatusFor(w) \in {"INBOX", "QUARANTINED", "DELETED"}
           /\ StatusFor(w) # "INBOX" => Acts(w) /\ plan[w].dec \in {"quarantine", "delete"}
  <1>1. /\ StatusFor(w) \in {"INBOX", "QUARANTINED", "DELETED"}
        /\ StatusFor(w) # "INBOX" => Acts(w) /\ plan[w].dec \in {"quarantine", "delete"}
    BY Zenon DEF StatusFor, Acts
  <1> QED BY <1>1, Zenon DEF NewRow

\* Rows are never dropped and never change their message. A row gets a new key
\* only from a worker at "rekey", and a new claim only with a worker on duty.
LEMMA RowsStep ==
    ASSUME TypeOK, RowHeld, [Next]_vars, NEW i \in RowId
    PROVE  /\ Exists(i) => Exists(i)' /\ rows'[i].msg = rows[i].msg
           /\ Exists(i)' =>
                 \/ Exists(i) /\ rows'[i].kf = rows[i].kf /\ rows'[i].uid = rows[i].uid
                 \/ \E w \in Worker :
                       /\ Records(w)
                       /\ rows'[i].kf = "INBOX" /\ rows'[i].uid = job[w].addr
                       /\ rows'[i].msg = job[w].msg
                 \/ \E w \in Worker :
                       /\ pc[w] = "rekey" /\ row[w] = i /\ nuid[w] > 0 /\ UNCHANGED server
                       /\ rows'[i].kf = "Quarantine" /\ rows'[i].uid = nuid[w]
           /\ Claims(i)' => Claims(i) \/ \E w \in Worker : Records(w) /\ OnDuty(w, i)'
  <1> DEFINE P == /\ Exists(i) => Exists(i)' /\ rows'[i].msg = rows[i].msg
                  /\ Exists(i)' =>
                        \/ Exists(i) /\ rows'[i].kf = rows[i].kf /\ rows'[i].uid = rows[i].uid
                        \/ \E w \in Worker :
                              /\ Records(w)
                              /\ rows'[i].kf = "INBOX" /\ rows'[i].uid = job[w].addr
                              /\ rows'[i].msg = job[w].msg
                        \/ \E w \in Worker :
                              /\ pc[w] = "rekey" /\ row[w] = i /\ nuid[w] > 0 /\ UNCHANGED server
                              /\ rows'[i].kf = "Quarantine" /\ rows'[i].uid = nuid[w]
                  /\ Claims(i)' => Claims(i) \/ \E w \in Worker : Records(w) /\ OnDuty(w, i)'
  <1>1. rows'[i] = rows[i] => P
    BY Zenon DEF Exists, Claims
  <1>2. rows \in [RowId -> RowType] /\ rows[i] \in RowType
    BY Zenon DEF TypeOK
  <1>3. ASSUME NEW w \in Worker, Records(w) PROVE P
    <2>1. PICK j \in RowId :
            /\ row'[w] = j
            /\ \/ ~Exists(j) /\ rows' = [rows EXCEPT ![j] = NewRow(w)]
               \/ /\ HasKey(j, "INBOX", job[w].addr)
                  /\ rows' = [rows EXCEPT ![j].status = StatusFor(w)]
      BY <1>3, Zenon DEF Records
    <2>2. CASE j # i
      BY <1>1, <1>2, <2>1, <2>2, Zenon
    <2>3. CASE j = i
      <3>1. rows'[i].status = StatusFor(w)
        BY <1>2, <2>1, <2>3, NewRowFields, Zenon DEF RowType
      <3>2. Claims(i)' => OnDuty(w, i)'
        <4>1. StatusFor(w) # "INBOX" => pc'[w] = "imap" /\ plan'[w].dec \in {"quarantine", "delete"}
          BY <1>3, NewRowFields, Zenon DEF Records
        <4> QED BY <2>1, <2>3, <3>1, <4>1, Zenon DEF Claims, OnDuty
      <3>3. CASE ~Exists(i) /\ rows' = [rows EXCEPT ![i] = NewRow(w)]
        <4>1. rows'[i] = NewRow(w)
          BY <1>2, <3>3, Zenon
        <4> QED BY <1>3, <3>2, <3>3, <4>1, NewRowFields, Zenon
      <3>4. CASE HasKey(i, "INBOX", job[w].addr) /\ rows' = [rows EXCEPT ![i].status = StatusFor(w)]
        <4>1. rows'[i].msg = rows[i].msg /\ rows'[i].kf = rows[i].kf /\ rows'[i].uid = rows[i].uid
          BY <1>2, <3>4, Zenon DEF RowType
        <4>2. Exists(i) /\ Exists(i)'
          BY <3>1, <3>4, NewRowFields, Zenon DEF Exists, HasKey
        <4> QED BY <1>3, <3>2, <4>1, <4>2, Zenon
      <3> QED BY <2>1, <2>3, <3>3, <3>4, Zenon
    <2> QED BY <2>2, <2>3, Zenon
  <1>4. ASSUME NEW w \in Worker, Settles(w) PROVE P
    <2>1. CASE UNCHANGED rows
      BY <1>1, <2>1, Zenon
    <2>2. row[w] \in RowId /\ Exists(row[w])
      BY <1>4, Zenon DEF Settles, RowHeld, WithRow
    <2>3. CASE row[w] # i
      BY <1>1, <1>2, <1>4, <2>3, Zenon DEF Settles
    <2>4. CASE row[w] = i /\ rows' = [rows EXCEPT ![row[w]].status = "INBOX"]
      <3>1. /\ rows'[i].status = "INBOX" /\ rows'[i].msg = rows[i].msg
            /\ rows'[i].kf = rows[i].kf /\ rows'[i].uid = rows[i].uid
        BY <1>2, <2>4, Zenon DEF RowType
      <3> QED BY <2>2, <2>4, <3>1, Zenon DEF Exists, Claims
    <2>5. CASE /\ row[w] = i /\ pc[w] = "rekey"
               /\ rows' = [rows EXCEPT ![row[w]] =
                         IF nuid[w] > 0
                         THEN [@ EXCEPT !.mbox = "Quarantine", !.kf = "Quarantine",
                                        !.uid = nuid[w]]
                         ELSE [@ EXCEPT !.mbox = "Quarantine"]]
      <3>1. /\ rows'[i].status = rows[i].status /\ rows'[i].msg = rows[i].msg
            /\ nuid[w] > 0 => rows'[i].kf = "Quarantine" /\ rows'[i].uid = nuid[w]
            /\ ~(nuid[w] > 0) => rows'[i].kf = rows[i].kf /\ rows'[i].uid = rows[i].uid
        BY <1>2, <2>5, Zenon DEF RowType
      <3>2. UNCHANGED server
        BY <1>4, Zenon DEF Settles
      <3> QED BY <2>2, <2>5, <3>1, <3>2, Zenon DEF Exists, Claims
    <2> QED BY <1>4, <2>1, <2>3, <2>4, <2>5, Zenon DEF Settles
  <1> HIDE DEF P
  <1>5. ASSUME NEW w \in Worker, Kind(w) PROVE P
    <2>1. CASE Starts(w) \/ Approaches(w) \/ Touches(w) \/ Retries(w) \/ Forgets(w)
      <3>1. UNCHANGED rows
        BY <2>1, ZenonT(30) DEF Starts, Start, Approaches, Touches, Retries, Forgets, Forget, store
      <3> QED BY <1>1, <3>1, Zenon
    <2> QED BY <1>3, <1>4, <1>5, <2>1, Zenon DEF Kind
  <1>6. ASSUME Idles \/ Boots PROVE P
    <2>1. UNCHANGED rows
      BY <1>6, Zenon DEF Idles, Boots, Boot, store
    <2> QED BY <1>1, <2>1, Zenon
  <1>7. P
    BY <1>5, <1>6, KindsOfStep, Zenon
  <1> QED BY <1>7, Zenon DEF P

\* A worker's own variables change only by a step of its own, or at a boot.
LEMMA WorkerStep ==
    ASSUME TypeOK, [Next]_vars, NEW v \in Worker
    PROVE  UNCHANGED Own(v) \/ Boots \/ Kind(v)
  <1>1. ASSUME NEW w \in Worker, w # v, Kind(w) PROVE UNCHANGED Own(v)
    <2>1. CASE Starts(w) \/ Forgets(w)
      BY <1>1, <2>1, Zenon DEF Starts, Start, Forgets, Forget, Own, TypeOK
    <2>2. CASE Approaches(w) \/ Records(w) \/ Touches(w) \/ Retries(w) \/ Settles(w)
      BY <1>1, <2>2, Zenon DEF Approaches, Records, Touches, Retries, Settles, Others
    <2> QED BY <1>1, <2>1, <2>2, Zenon DEF Kind
  <1>2. CASE Idles
    BY <1>2, Zenon DEF Idles, Own
  <1> QED BY KindsOfStep, <1>1, <1>2, Zenon

\* What a worker's step leaves of its task.
LEMMA TaskStep ==
    ASSUME TypeOK, NEW w \in Worker, Kind(w), ~Starts(w), ~Forgets(w)
    PROVE  /\ job'[w] = job[w] /\ pc[w] # "idle"
           /\ ~Records(w) => row'[w] = row[w]
           /\ ~Approaches(w) => plan'[w] = plan[w]
           /\ ~Touches(w) => nuid'[w] = nuid[w]
  BY Zenon DEF Kind, Approaches, Records, Touches, Retries, Settles, SameTask, BeforeRow

\* After a boot or Forget a worker has no job.
LEMMA Cleared ==
    ASSUME TypeOK, NEW w \in Worker, Boots \/ Forgets(w)
    PROVE  pc'[w] = "idle" /\ nuid'[w] = 0 /\ plan'[w].path # "panic"
  <1>1. CASE Boots
    BY <1>1, Zenon DEF Boots, Boot, NoPlan
  <1>2. CASE Forgets(w)
    BY <1>2, Zenon DEF Forgets, Forget, NoPlan, TypeOK
  <1> QED BY <1>1, <1>2, Zenon

------------------------------------------------------------------------------
(* The conjuncts of the inductive invariant, one by one.                   *)

\* The address process was called with was assigned to the message it was read
\* from, and stays so while the message is moved under it.
LEMMA JobTruthStep ==
    ASSUME TypeOK, Ledger, JobTruth, [Next]_vars
    PROVE  JobTruth'
  <1> SUFFICES ASSUME NEW v \in Worker, pc'[v] # "idle"
               PROVE  <<"INBOX", job'[v].addr, job'[v].msg>> \in held'
    BY Zenon DEF JobTruth
  <1>1. held \subseteq held'
    BY ServerStep, Zenon
  <1>2. CASE UNCHANGED Own(v)
    BY <1>1, <1>2, Zenon DEF Own, JobTruth
  <1>3. CASE Starts(v)
    <2>1. PICK m \in Msg, l \in BOOLEAN : Start(v, m, l)
      BY <1>3, Zenon DEF Starts
    <2>2. job'[v] = [msg |-> m, addr |-> uid[m], live |-> l] /\ folder[m] = "INBOX"
      BY <2>1, Zenon DEF Start, TypeOK
    <2>3. <<folder[m], uid[m], m>> \in held
      BY <2>2, Zenon DEF Ledger, Folder
    <2>4. job'[v].addr = uid[m] /\ job'[v].msg = m
      BY <2>2
    <2> QED BY <1>1, <2>2, <2>3, <2>4, Zenon
  <1>4. CASE Kind(v) /\ ~Starts(v) /\ ~Forgets(v)
    BY <1>1, <1>4, TaskStep, Zenon DEF JobTruth
  <1> QED BY WorkerStep, Cleared, <1>2, <1>3, <1>4, Zenon

\* A worker past its INSERT holds the row of its own message.
LEMMA RowHeldStep ==
    ASSUME TypeOK, Ledger, JobTruth, RowHeld, KeyTruthful, [Next]_vars
    PROVE  RowHeld'
  <1> SUFFICES ASSUME NEW v \in Worker, pc'[v] \in WithRow
               PROVE  /\ row'[v] \in RowId /\ rows'[row'[v]].status # "none"
                      /\ rows'[row'[v]].msg = job'[v].msg
    BY Zenon DEF RowHeld, Exists
  <1>1. ASSUME row'[v] = row[v], job'[v] = job[v], pc[v] \in WithRow
        PROVE  /\ row'[v] \in RowId /\ rows'[row'[v]].status # "none"
                      /\ rows'[row'[v]].msg = job'[v].msg
    <2>1. row[v] \in RowId /\ Exists(row[v]) /\ rows[row[v]].msg = job[v].msg
      BY <1>1, Zenon DEF RowHeld
    <2>2. rows'[row[v]].status # "none" /\ rows'[row[v]].msg = rows[row[v]].msg
      BY <2>1, RowsStep, Zenon DEF Exists
    <2> QED BY <1>1, <2>1, <2>2, Zenon DEF Exists
  <1>2. CASE UNCHANGED Own(v)
    BY <1>1, <1>2, Zenon DEF Own
  <1>3. CASE Records(v)
    <2>1. PICK i \in RowId :
            /\ row'[v] = i
            /\ \/ ~Exists(i) /\ rows' = [rows EXCEPT ![i] = NewRow(v)]
               \/ /\ HasKey(i, "INBOX", job[v].addr)
                  /\ rows' = [rows EXCEPT ![i].status = StatusFor(v)]
      BY <1>3, Zenon DEF Records
    <2>2. job'[v] = job[v] /\ pc[v] # "idle" /\ <<"INBOX", job[v].addr, job[v].msg>> \in held
      BY <1>3, Zenon DEF Records, JobTruth
    <2>3. rows'[i].status # "none"
      BY <2>1, NewRowFields DEF TypeOK, RowType
    <2>4. CASE rows' = [rows EXCEPT ![i] = NewRow(v)]
      BY <2>1, <2>2, <2>3, <2>4, NewRowFields, Zenon DEF TypeOK, Exists
    <2>5. CASE HasKey(i, "INBOX", job[v].addr) /\ rows' = [rows EXCEPT ![i].status = StatusFor(v)]
      <3>1. <<"INBOX", job[v].addr, rows[i].msg>> \in held
        BY <2>5, Zenon DEF HasKey, KeyTruthful
      <3>2. rows[i].msg = job[v].msg
        BY <2>2, <3>1, Zenon DEF Ledger
      <3> QED BY <2>1, <2>2, <2>3, <2>5, <3>2 DEF TypeOK, RowType, Exists
    <2> QED BY <2>1, <2>4, <2>5, Zenon
  <1>4. CASE Touches(v) \/ Retries(v) \/ Settles(v)
    BY <1>1, <1>4, Zenon DEF Touches, Retries, Settles, SameTask, WithRow
  <1>5. CASE Starts(v) \/ Approaches(v) \/ Forgets(v) \/ Boots
    BY <1>5, Cleared, Zenon DEF Starts, Start, Approaches, WithRow, TypeOK
  <1> QED BY WorkerStep, <1>2, <1>3, <1>4, <1>5, Zenon DEF Kind

\* The UID MoveToQuarantine returned is where the message is.
LEMMA NewUIDTruthStep ==
    ASSUME TypeOK, Ledger, JobTruth, NewUIDTruth, [Next]_vars
    PROVE  NewUIDTruth'
  <1> DEFINE Before == BeforeRow \cup {"idle", "imap", "check", "revert"}
  <1> SUFFICES ASSUME NEW v \in Worker
               PROVE  /\ pc'[v] \in Before => nuid'[v] = 0
                      /\ pc'[v] = "rekey" /\ nuid'[v] > 0 =>
                            /\ folder'[job'[v].msg] = "Quarantine"
                            /\ uid'[job'[v].msg] = nuid'[v]
    BY Zenon DEF NewUIDTruth
  <1>1. job[v].msg \in Msg
    BY Zenon DEF TypeOK, JobType
  <1>2. CASE UNCHANGED Own(v)
    BY <1>1, <1>2, ServerStep DEF Own, NewUIDTruth
  <1>3. CASE Boots \/ Forgets(v)
    BY <1>3, Cleared, Zenon
  <1>4. CASE Starts(v)
    BY <1>4, Zenon DEF Starts, Start, TypeOK, NewUIDTruth, BeforeRow
  <1>5. CASE Approaches(v) \/ Records(v)
    BY <1>5, Zenon DEF Approaches, Records, NewUIDTruth, BeforeRow
  <1>6. CASE Touches(v)
    <2>1. nuid[v] = 0 /\ job'[v] = job[v]
      BY <1>6, Zenon DEF Touches, SameTask, NewUIDTruth
    <2>2. CASE Place(job[v].msg, "Quarantine") /\ pc'[v] = "rekey" /\ nuid'[v] = uidNext["Quarantine"]
      BY <1>1, <2>1, <2>2, Zenon DEF Place, TypeOK, BeforeRow
    <2> QED BY <1>6, <2>1, <2>2 DEF Touches
  <1>7. CASE Retries(v)
    BY <1>7 DEF Retries, NewUIDTruth
  <1>8. CASE Settles(v)
    BY <1>8, Zenon DEF Settles, BeforeRow
  <1> QED BY WorkerStep, <1>2, <1>3, <1>4, <1>5, <1>6, <1>7, <1>8, Zenon DEF Kind

\* Only a worker past Parse is on the panic route.
LEMMA PanicAfterParseStep ==
    ASSUME TypeOK, PanicAfterParse, [Next]_vars
    PROVE  PanicAfterParse'
  <1> SUFFICES ASSUME NEW v \in Worker, pc'[v] \in {"idle", "slot", "parse"}
               PROVE  plan'[v].path # "panic"
    BY Zenon DEF PanicAfterParse
  <1>1. CASE UNCHANGED Own(v)
    BY <1>1, Zenon DEF Own, PanicAfterParse
  <1>2. CASE Starts(v)
    BY <1>2, Zenon DEF Starts, Start, PanicAfterParse
  <1>3. CASE Approaches(v)
    BY <1>3, Zenon DEF Approaches, PanicAfterParse
  <1>4. CASE Records(v) \/ Touches(v) \/ Retries(v) \/ Settles(v)
    BY <1>4, Zenon DEF Records, Touches, Retries, Settles
  <1> QED BY WorkerStep, Cleared, <1>1, <1>2, <1>3, <1>4, Zenon DEF Kind

\* Neither INSERT nor updateQuarantineUID writes the key of another message.
LEMMA KeyTruthfulStep ==
    ASSUME TypeOK, Ledger, JobTruth, RowHeld, NewUIDTruth, KeyTruthful, [Next]_vars
    PROVE  KeyTruthful'
  <1> SUFFICES ASSUME NEW i \in RowId, Exists(i)'
               PROVE  <<rows'[i].kf, rows'[i].uid, rows'[i].msg>> \in held'
    BY Zenon DEF KeyTruthful
  <1>1. held \subseteq held'
    BY ServerStep, Zenon
  <1>2. CASE Exists(i) /\ rows'[i].kf = rows[i].kf /\ rows'[i].uid = rows[i].uid
    BY <1>1, <1>2, RowsStep, Zenon DEF KeyTruthful
  <1>3. ASSUME NEW w \in Worker, Records(w), rows'[i].kf = "INBOX",
               rows'[i].uid = job[w].addr, rows'[i].msg = job[w].msg
        PROVE  <<rows'[i].kf, rows'[i].uid, rows'[i].msg>> \in held'
    BY <1>1, <1>3, Zenon DEF Records, JobTruth
  <1>4. ASSUME NEW w \in Worker, pc[w] = "rekey", row[w] = i, nuid[w] > 0,
               rows'[i].kf = "Quarantine", rows'[i].uid = nuid[w]
        PROVE  <<rows'[i].kf, rows'[i].uid, rows'[i].msg>> \in held'
    <2>1. rows'[i].msg = job[w].msg /\ job[w].msg \in Msg
      BY <1>4, RowsStep DEF RowHeld, WithRow, TypeOK, JobType
    <2>2. <<"Quarantine", nuid[w], job[w].msg>> \in held
      BY <1>4, <2>1, Zenon DEF NewUIDTruth, Ledger, Folder
    <2> QED BY <1>1, <1>4, <2>1, <2>2, Zenon
  <1> QED BY RowsStep, <1>2, <1>3, <1>4, Zenon

\* A key in Quarantine is written after the MOVE it reports, which is final.
LEMMA QuarantineKeyExactStep ==
    ASSUME TypeOK, Ledger, RowHeld, NewUIDTruth, QuarantineKeyExact, [Next]_vars
    PROVE  QuarantineKeyExact'
  <1> SUFFICES ASSUME NEW i \in RowId, Exists(i)', rows'[i].kf = "Quarantine"
               PROVE  folder'[rows'[i].msg] = "Quarantine" /\ uid'[rows'[i].msg] = rows'[i].uid
    BY Zenon DEF QuarantineKeyExact
  <1>1. CASE Exists(i) /\ rows'[i].kf = rows[i].kf /\ rows'[i].uid = rows[i].uid
    <2>1. rows'[i].msg = rows[i].msg /\ rows[i].msg \in Msg
      BY <1>1, RowsStep, Zenon DEF TypeOK, RowType
    <2> QED BY <1>1, <2>1, ServerStep DEF QuarantineKeyExact
  <1>2. ASSUME NEW w \in Worker, pc[w] = "rekey", row[w] = i, nuid[w] > 0, UNCHANGED server,
               rows'[i].uid = nuid[w]
        PROVE  folder'[rows'[i].msg] = "Quarantine" /\ uid'[rows'[i].msg] = rows'[i].uid
    <2>1. rows'[i].msg = job[w].msg
      BY <1>2, RowsStep DEF RowHeld, WithRow
    <2> QED BY <1>2, <2>1, Zenon DEF NewUIDTruth, server
  <1> QED BY RowsStep, <1>1, <1>2, Zenon

\* MOVE and EXPUNGE are only issued by a worker that holds a row.
LEMMA RecordedStep ==
    ASSUME TypeOK, Ledger, RowHeld, RecordedBeforeTouched, [Next]_vars
    PROVE  RecordedBeforeTouched'
  <1> SUFFICES ASSUME NEW m \in Msg, folder'[m] \in {"Quarantine", "gone"}
               PROVE  \E i \in RowId : Exists(i)' /\ rows'[i].msg = m
    BY Zenon DEF RecordedBeforeTouched
  <1>1. \E i \in RowId : Exists(i) /\ rows[i].msg = m
    <2>1. CASE folder'[m] = folder[m]
      BY <2>1, Zenon DEF RecordedBeforeTouched
    <2>2. ASSUME NEW w \in Worker, Touches(w), job[w].msg = m
          PROVE  \E i \in RowId : Exists(i) /\ rows[i].msg = m
      BY <2>2, Zenon DEF Touches, RowHeld, WithRow
    <2> QED BY <2>1, <2>2, ServerStep, Zenon
  <1>2. PICK i \in RowId : Exists(i) /\ rows[i].msg = m
    BY <1>1, Zenon
  <1>3. Exists(i)' /\ rows'[i].msg = m
    BY <1>2, RowsStep, Zenon
  <1> QED BY <1>3, Zenon

\* The fault budget only shrinks.
LEMMA LeftStep ==
    ASSUME TypeOK, LeftBound, [Next]_vars
    PROVE  LeftBound' /\ \A k \in FaultKind : left'[k] <= left[k]
  <1>1. ASSUME NEW k \in FaultKind, Spend(k)
        PROVE  \A j \in FaultKind : left'[j] <= left[j] /\ left'[j] \in Nat
    BY <1>1 DEF Spend, TypeOK
  <1>2. UNCHANGED left \/ \E k \in FaultKind : Spend(k)
    <2> USE DEF FaultKind
    <2>1. ASSUME NEW w \in Worker, ToTheRow(w)
          PROVE  UNCHANGED left \/ \E k \in FaultKind : Spend(k)
      BY <2>1, Zenon
      DEF ToTheRow, AcquireSlot, SlotWaitCancelled, ParsePanics, ParseFails, Blocklisted,
                  Bypassed, Scanned, Parses, CreateRow, CreateFails, UpsertRow, UpsertFails
    <2>2. ASSUME NEW w \in Worker, TakeIMAPAction(w)
          PROVE  UNCHANGED left \/ \E k \in FaultKind : Spend(k)
      BY <2>2, Zenon DEF TakeIMAPAction, MoveSucceeds, MoveWithoutUID, MoveFindsNothing,
                  DeleteOrFlagSucceeds, AttemptFails, AttemptLosesReply, CheckFindsItGone,
                  CheckFindsIt, CheckFails, GiveUp
    <2>3. ASSUME NEW w \in Worker, Conclude(w)
          PROVE  UNCHANGED left \/ \E k \in FaultKind : Spend(k)
      BY <2>3, Zenon DEF Conclude, RevertStatus, RevertFails, UpdateQuarantineUID,
                  UpdateQuarantineUIDFails, AuditQuarantineDesync, AuditAction, MarkSeen, MarkLost
    <2>4. ASSUME NEW w \in Worker, NEW m \in Msg, Dispatch(w, m) \/ DispatchBackfill(w, m)
          PROVE  UNCHANGED left \/ \E k \in FaultKind : Spend(k)
      BY <2>4, Zenon DEF Dispatch, DispatchBackfill
    <2>5. ASSUME NEW m \in Msg, Arrive(m) PROVE UNCHANGED left
      BY <2>5, Zenon DEF Arrive
    <2>6. CASE BackfillSnapshot \/ Stop \/ Restart \/ Crash \/ UNCHANGED vars
      BY <2>6, Zenon DEF BackfillSnapshot, Stop, Restart, Crash, vars
    <2> QED BY <2>1, <2>2, <2>3, <2>4, <2>5, <2>6, Zenon DEF Next, Process, WaitForMail
  <1>3. \A j \in FaultKind : left[j] \in Nat /\ Faults[j] \in Nat /\ left[j] <= Faults[j]
    BY PipelineAssumption, Zenon DEF TypeOK, LeftBound
  <1>4. \A j \in FaultKind : left'[j] <= left[j] /\ left'[j] \in Nat
    BY <1>1, <1>2, <1>3
  <1> QED BY <1>3, <1>4 DEF LeftBound

\* While no write fails and nothing crashes, a false claim has a worker that
\* will still act on it or revert it.
LEMMA DutyStep ==
    ASSUME IInv, [Next]_vars
    PROVE  Duty'
  <1> USE DEF IInv
  <1> SUFFICES ASSUME Unused({"crash", "db"})', NEW i \in RowId, Claims(i)',
                      folder'[rows'[i].msg] = "INBOX"
               PROVE  \E w \in Worker : OnDuty(w, i)'
    BY Zenon DEF Duty
  <1>1. /\ Unused({"crash", "db"})
        /\ ~(left'["crash"] < left["crash"]) /\ ~(left'["db"] < left["db"])
    <2>1. \A k \in {"crash", "db"} : /\ left'[k] <= left[k] /\ left[k] <= Faults[k]
                                     /\ left[k] \in Nat /\ Faults[k] \in Nat
                                     /\ left'[k] = Faults[k]
      <3>1. left \in [FaultKind -> Nat] /\ Faults \in [FaultKind -> Nat]
        BY PipelineAssumption, Zenon DEF TypeOK
      <3> QED BY <3>1, LeftStep, Zenon DEF LeftBound, FaultKind, Unused
    <2> QED BY <2>1 DEF Unused
  <1>2. CASE ~Claims(i)
    BY <1>2, RowsStep, Zenon
  <1>3. CASE Claims(i)
    <2> DEFINE m == rows[i].msg
    <2>1. Exists(i) /\ rows'[i].msg = m /\ m \in Msg
      BY <1>3, RowsStep, ZenonT(30) DEF Claims, TypeOK, RowType
    <2>2. ASSUME NEW w \in Worker, Touches(w), job[w].msg = m PROVE FALSE
      <3>1. folder'[m] \in {"Quarantine", "gone"}
        BY <2>1, <2>2, Zenon DEF Touches, Place, Expunge, TypeOK
      <3> QED BY <2>1, <3>1, Zenon
    <2>3. folder[m] = "INBOX" /\ <<"INBOX", uid[m], m>> \in held
      <3>1. folder[m] # "unborn"
        BY <2>1, Zenon DEF KeyTruthful, Ledger
      <3>2. folder[m] = "INBOX"
        BY <2>1, <2>2, <3>1, ServerStep, Zenon
      <3> QED BY <2>1, <3>2, Zenon DEF Ledger, Folder
    <2>4. PICK w \in Worker : OnDuty(w, i)
      BY <1>1, <1>3, <2>3, Zenon DEF Duty
    <2>5. job[w].msg = m /\ <<"INBOX", job[w].addr, m>> \in held
      BY <2>4, Zenon DEF OnDuty, RowHeld, JobTruth, WithRow
    <2>6. AtSource(w)
      BY <2>3, <2>5, Zenon DEF Ledger, AtSource
    <2>7. CASE UNCHANGED Own(w)
      BY <2>4, <2>7, Zenon DEF Own, OnDuty
    <2>8. CASE Boots
      BY <1>1, <2>4, <2>8, Zenon DEF Boots, OnDuty
    <2>9. CASE Starts(w) \/ Approaches(w) \/ Records(w) \/ Forgets(w)
      BY <2>4, <2>9, Zenon DEF Starts, Start, Approaches, Records, Forgets, OnDuty, BeforeRow
    <2>10. CASE Touches(w)
      BY <2>2, <2>5, <2>10, Zenon
    <2>11. CASE Retries(w)
      BY <2>4, <2>6, <2>11, Zenon DEF Retries, SameTask, OnDuty
    <2>12. CASE Settles(w)
      <3>1. pc[w] = "revert" /\ row[w] = i
        BY <2>4, <2>12, Zenon DEF Settles, OnDuty
      <3>2. rows' = [rows EXCEPT ![i].status = "INBOX"]
        BY <1>1, <2>12, <3>1, Zenon DEF Settles
      <3>3. rows'[i].status = "INBOX"
        BY <3>2 DEF TypeOK, RowType
      <3> QED BY <3>3, Zenon DEF Claims
    <2> QED BY WorkerStep, <2>7, <2>8, <2>9, <2>10, <2>11, <2>12, Zenon DEF Kind
  <1> QED BY <1>2, <1>3, Zenon

------------------------------------------------------------------------------
(* The slots.                                                               *)

InSlot(w) == pc[w] \in Slotted /\ plan[w].path # "panic"

\* What a step may do to the semaphore. Only AcquireSlot takes a slot; a worker
\* gives its slot back in the step in which it leaves the slotted region.
SlotKept(w)  == semaphore' = semaphore /\ (InSlot(w)' <=> InSlot(w))
SlotGiven(w) == semaphore' = semaphore \ {w} /\ ~InSlot(w)'
SlotTaken(w) == semaphore' = semaphore \cup {w} /\ InSlot(w)' /\ Cardinality(semaphore) < MaxSlots

\* What a step does to the semaphore, and to the worker that takes it.
LEMMA SlotStep ==
    ASSUME TypeOK, PanicAfterParse, [Next]_vars
    PROVE  \/ UNCHANGED <<pc, plan, semaphore>>
           \/ pc' = [w \in Worker |-> "idle"] /\ semaphore' = {}
           \/ \E w \in Worker :
                 /\ \A v \in Worker : v # w => UNCHANGED <<pc[v], plan[v]>>
                 /\ SlotKept(w) \/ SlotGiven(w) \/ SlotTaken(w)
  <1> DEFINE Fine(w) == /\ \A v \in Worker : v # w => UNCHANGED <<pc[v], plan[v]>>
                        /\ SlotKept(w) \/ SlotGiven(w) \/ SlotTaken(w)
  <1>0. pc \in [Worker -> PcType] /\ plan \in [Worker -> PlanType] /\ semaphore \subseteq Worker
    BY Zenon DEF TypeOK
  <1> USE <1>0 DEF InSlot, Slotted, WithRow
  <1>1. ASSUME NEW w \in Worker, ToTheRow(w) PROVE Fine(w)
    <2>1. CASE AcquireSlot(w)
      BY <2>1, Zenon DEF AcquireSlot, Goto, SlotTaken, PanicAfterParse
    <2>2. CASE SlotWaitCancelled(w) \/ CreateFails(w) \/ UpsertFails(w)
      BY <2>2, Zenon DEF SlotWaitCancelled, CreateFails, UpsertFails, Return, Goto, SlotGiven
    <2>3. CASE ParsePanics(w)
      BY <2>3, Typed, Zenon DEF ParsePanics, Choose, Goto, SlotGiven
    <2>4. CASE ParseFails(w)
      BY <2>4, Zenon DEF ParseFails, Choose, Goto, SlotKept, PanicAfterParse
    <2>5. CASE Blocklisted(w) \/ Bypassed(w) \/ Scanned(w)
      <3>1. PICK path \in RouteType, d \in DecisionType, next \in {"create", "upsert"} :
                   Parses(w, path, d, next)
        BY <2>5, PipelineAssumption, Zenon
        DEF Blocklisted, Bypassed, Scanned, RouteType, DecisionType
      <3>2. plan'[w].path = path /\ path # "panic"
        BY <3>1, Zenon DEF Parses, Choose, RouteType
      <3> QED BY <3>1, <3>2, Zenon DEF Parses, Choose, Goto, SlotKept, PanicAfterParse
    <2>6. CASE CreateRow(w)
      BY <2>6, Zenon DEF CreateRow, Return, Goto, SlotKept, SlotGiven
    <2>7. CASE UpsertRow(w)
      BY <2>7, Zenon DEF UpsertRow, Goto, SlotKept
    <2> QED BY <1>1, <2>1, <2>2, <2>3, <2>4, <2>5, <2>6, <2>7, Zenon DEF ToTheRow
  <1>2. ASSUME NEW w \in Worker, TakeIMAPAction(w) PROVE Fine(w)
    <2>1. ASSUME (\E x \in WithRow : Step(w, x)) /\ pc[w] \in WithRow PROVE Fine(w)
      BY <2>1, Zenon DEF Step, daemon, SlotKept
    <2>2. CASE MoveSucceeds(w) \/ MoveWithoutUID(w) \/ MoveFindsNothing(w)
               \/ DeleteOrFlagSucceeds(w) \/ CheckFindsItGone(w) \/ GiveUp(w)
      BY <2>1, <2>2, Zenon DEF MoveSucceeds, MoveWithoutUID, MoveFindsNothing,
                        DeleteOrFlagSucceeds, CheckFindsItGone, GiveUp
    <2>3. CASE AttemptFails(w) \/ AttemptLosesReply(w) \/ CheckFindsIt(w) \/ CheckFails(w)
      BY <2>1, <2>3, Zenon DEF AttemptFails, AttemptLosesReply, CheckFindsIt, CheckFails,
                        AfterFailure, NextRound
    <2> QED BY <1>2, <2>2, <2>3, Zenon DEF TakeIMAPAction
  <1>3. ASSUME NEW w \in Worker, Conclude(w) PROVE Fine(w)
    <2>1. CASE Return(w) /\ UNCHANGED plan
      BY <2>1, Zenon DEF Return, Goto, SlotGiven
    <2>2. CASE pc[w] \in WithRow /\ UNCHANGED <<plan, semaphore>>
               /\ \E x \in WithRow : Goto(w, x)
      BY <2>2, Zenon DEF Goto, SlotKept
    <2>3. CASE RevertStatus(w) \/ RevertFails(w) \/ UpdateQuarantineUID(w)
               \/ UpdateQuarantineUIDFails(w) \/ AuditQuarantineDesync(w) \/ AuditAction(w)
      BY <2>1, <2>2, <2>3, Zenon
      DEF RevertStatus, RevertFails, UpdateQuarantineUID, UpdateQuarantineUIDFails,
          AuditQuarantineDesync, AuditAction, Proceed
    <2>4. CASE MarkSeen(w) \/ MarkLost(w)
      BY <2>4, Zenon DEF MarkSeen, MarkLost, Forget, daemon, SlotKept
    <2> QED BY <1>3, <2>3, <2>4, ZenonT(30) DEF Conclude
  <1>4. ASSUME NEW w \in Worker, NEW m \in Msg, Dispatch(w, m) \/ DispatchBackfill(w, m)
        PROVE  Fine(w)
    BY <1>4, Zenon DEF Dispatch, DispatchBackfill, Start, SlotKept
  <1>5. ASSUME NEW m \in Msg, Arrive(m) PROVE UNCHANGED <<pc, plan, semaphore>>
    BY <1>5, Zenon DEF Arrive, task, daemon
  <1>6. CASE BackfillSnapshot \/ Stop \/ UNCHANGED vars
    BY <1>6, Zenon DEF BackfillSnapshot, Stop, vars, task, daemon
  <1>7. CASE Restart \/ Crash
    BY <1>7, Zenon DEF Restart, Crash, Boot
  <1> QED BY <1>1, <1>2, <1>3, <1>4, <1>5, <1>6, <1>7, Zenon DEF Next, Process, WaitForMail

\* Every branch of process keeps the semaphore equal to the workers in a slot.
LEMMA SlotsReturnedStep ==
    ASSUME TypeOK, IsFiniteSet(semaphore), PanicAfterParse, SlotsReturned, [Next]_vars
    PROVE  IsFiniteSet(semaphore') /\ SlotsReturned'
  <1> USE DEF SlotsReturned, InSlot
  <1>1. MaxSlots \in Nat /\ Cardinality(semaphore) \in Nat
    BY PipelineAssumption, FS_CardinalityType, Zenon
  <1>2. CASE UNCHANGED <<pc, plan, semaphore>>
    BY <1>2, Zenon
  <1>3. CASE pc' = [w \in Worker |-> "idle"] /\ semaphore' = {}
    BY <1>1, <1>3, FS_EmptySet DEF Slotted, WithRow
  <1>4. ASSUME NEW w \in Worker, \A v \in Worker : v # w => UNCHANGED <<pc[v], plan[v]>>,
               SlotKept(w) \/ SlotGiven(w) \/ SlotTaken(w)
        PROVE  IsFiniteSet(semaphore') /\ SlotsReturned'
    <2>1. semaphore' = {v \in Worker : InSlot(v)'}
      BY <1>4, Zenon DEF SlotKept, SlotGiven, SlotTaken
    <2>2. IsFiniteSet(semaphore') /\ Cardinality(semaphore') <= MaxSlots
      <3>1. CASE SlotKept(w)
        BY <3>1, Zenon DEF SlotKept
      <3>2. CASE SlotGiven(w)
        BY <1>1, <3>2, FS_Subset, FS_CardinalityType DEF SlotGiven
      <3>3. CASE SlotTaken(w)
        <4>1. /\ IsFiniteSet(semaphore \cup {w})
              /\ Cardinality(semaphore \cup {w}) \in {Cardinality(semaphore),
                                                     Cardinality(semaphore) + 1}
          BY FS_AddElement, Zenon
        <4> QED BY <1>1, <3>3, <4>1 DEF SlotTaken
      <3> QED BY <1>4, <3>1, <3>2, <3>3, Zenon
    <2> QED BY <2>1, <2>2, Zenon
  <1> QED BY SlotStep, <1>2, <1>3, <1>4, Zenon

------------------------------------------------------------------------------
(* The theorems.                                                            *)

\* The inductive invariant holds when the daemon first starts.
LEMMA Initially == Init => IInv
  <1> SUFFICES ASSUME Init PROVE IInv
    BY Zenon
  <1>1. TypeOK
    BY TypeInit, Zenon
  <1>2. IsFiniteSet(semaphore) /\ SlotsReturned
    BY FS_EmptySet, PipelineAssumption DEF Init, SlotsReturned, Slotted, WithRow
  <1>3. \A i \in RowId : ~Exists(i)
    BY Zenon DEF Init, Exists, NoRow
  <1>4. Ledger /\ RecordedBeforeTouched
    BY Zenon DEF Init, Ledger, Folder, RecordedBeforeTouched
  <1>5. JobTruth /\ RowHeld /\ NewUIDTruth /\ PanicAfterParse
    BY Zenon DEF Init, JobTruth, RowHeld, NewUIDTruth, PanicAfterParse, WithRow, NoPlan
  <1>6. LeftBound
    BY PipelineAssumption DEF Init, LeftBound
  <1>7. KeyTruthful /\ QuarantineKeyExact /\ Duty
    BY <1>3, Zenon DEF KeyTruthful, QuarantineKeyExact, Duty, Claims
  <1> QED BY <1>1, <1>2, <1>4, <1>5, <1>6, <1>7, Zenon DEF IInv

\* Every step preserves the inductive invariant.
LEMMA Inductive == IInv /\ [Next]_vars => IInv'
  <1> SUFFICES ASSUME IInv, [Next]_vars PROVE IInv'
    BY Zenon
  <1>1. TypeOK' /\ Ledger' /\ JobTruth' /\ RowHeld'
    BY TypeStep, ServerStep, JobTruthStep, RowHeldStep, Zenon DEF IInv
  <1>2. NewUIDTruth' /\ PanicAfterParse' /\ LeftBound'
    BY NewUIDTruthStep, PanicAfterParseStep, LeftStep, Zenon DEF IInv
  <1>3. KeyTruthful' /\ QuarantineKeyExact' /\ RecordedBeforeTouched'
    BY KeyTruthfulStep, QuarantineKeyExactStep, RecordedStep, Zenon DEF IInv
  <1>4. IsFiniteSet(semaphore') /\ SlotsReturned'
    BY SlotsReturnedStep, Zenon DEF IInv
  <1>5. Duty'
    BY DutyStep, Zenon
  <1> QED BY <1>1, <1>2, <1>3, <1>4, <1>5, Zenon DEF IInv

\* The inductive invariant holds throughout.
LEMMA Invariance == Spec => []IInv
  BY Initially, Inductive, PTL DEF Spec

\* Every variable of the pipeline keeps its type; an audit entry always names a
\* row id the worker really holds.
THEOREM TypeCorrect == Spec => []TypeOK
  <1>1. IInv => TypeOK
    BY Zenon DEF IInv
  <1> QED BY Invariance, <1>1, PTL

\* The address a row is stored under always belongs to the row's message.
THEOREM KeysTruthful == Spec => []KeyTruthful
  <1>1. IInv => KeyTruthful
    BY Zenon DEF IInv
  <1> QED BY Invariance, <1>1, PTL

\* A row keyed in Quarantine is exactly where the server has the message.
THEOREM QuarantineKeysExact == Spec => []QuarantineKeyExact
  <1>1. IInv => QuarantineKeyExact
    BY Zenon DEF IInv
  <1> QED BY Invariance, <1>1, PTL

\* The pipeline never moves or deletes a message it has not recorded.
THEOREM WriteAhead == Spec => []RecordedBeforeTouched
  <1>1. IInv => RecordedBeforeTouched
    BY Zenon DEF IInv
  <1> QED BY Invariance, <1>1, PTL

\* No return of process leaks a slot, and MaxConcurrentScans is respected.
THEOREM SlotsSafe == Spec => []SlotsReturned
  <1>1. IInv => SlotsReturned
    BY Zenon DEF IInv
  <1> QED BY Invariance, <1>1, PTL

\* A row that says its message was quarantined or deleted is never wrong about
\* a message left in INBOX once its workers are done, unless the daemon crashed
\* or a database write failed.
THEOREM ClaimsSafe == Spec => []NoFalseSafety
  <1>1. IInv => NoFalseSafety
    <2> SUFFICES ASSUME IInv, Unused({"crash", "db"}), NEW i \in RowId, Claims(i),
                        ~Working(rows[i].msg), folder[rows[i].msg] = "INBOX"
                 PROVE  FALSE
      BY Zenon DEF NoFalseSafety
    <2>1. PICK w \in Worker : OnDuty(w, i)
      BY Zenon DEF IInv, Duty
    <2>2. job[w].msg = rows[i].msg /\ pc[w] # "idle"
      BY <2>1, Zenon DEF IInv, OnDuty, RowHeld, WithRow
    <2> QED BY <2>2, Zenon DEF Working
  <1> QED BY Invariance, <1>1, PTL

------------------------------------------------------------------------------
(* One worker and one row for a message.                                    *)

Acting == {"imap", "check", "revert"}

Alone ==
    \A v, w \in Worker :
        pc[v] # "idle" /\ pc[w] # "idle" /\ job[v].msg = job[w].msg => v = w

Single ==
    \A i, j \in RowId : Exists(i) /\ Exists(j) /\ rows[i].msg = rows[j].msg => i = j

\* Without a lost reply, a second dispatch or a backfill, a message has one worker
\* and one row, and until the worker is through with the server the message is
\* where process was told it is.
Solo ==
    Unused({"reply", "dup", "backfill"}) =>
        /\ backlog = {} /\ Alone /\ Single
        /\ \A w \in Worker : pc[w] \in BeforeRow \cup Acting => AtSource(w)

\* What has not struck after a step had not struck before it, nor did it in it.
LEMMA UnusedBefore ==
    ASSUME TypeOK, LeftBound, [Next]_vars, NEW K \in SUBSET FaultKind, Unused(K)'
    PROVE  Unused(K) /\ \A k \in K : ~(left'[k] < left[k])
  <1> SUFFICES ASSUME NEW k \in K PROVE left[k] = Faults[k] /\ ~(left'[k] < left[k])
    BY Zenon DEF Unused
  <1>1. left[k] \in Nat /\ Faults[k] \in Nat /\ left[k] <= Faults[k]
    BY PipelineAssumption, Zenon DEF TypeOK, LeftBound
  <1>2. left'[k] <= left[k] /\ left'[k] = Faults[k]
    BY LeftStep, Zenon DEF Unused
  <1> QED BY <1>1, <1>2

\* Only BackfillScanner.scan fills the backlog.
LEMMA BacklogStep ==
    ASSUME TypeOK, [Next]_vars
    PROVE  backlog' \subseteq backlog \/ left'["backfill"] < left["backfill"]
  <1>1. ASSUME NEW w \in Worker, ToTheRow(w) PROVE UNCHANGED backlog
    BY <1>1, Zenon
    DEF ToTheRow, AcquireSlot, SlotWaitCancelled, ParsePanics, ParseFails, Blocklisted,
        Bypassed, Scanned, Parses, CreateRow, CreateFails, UpsertRow, UpsertFails, Return, Goto
  <1>2. ASSUME NEW w \in Worker, TakeIMAPAction(w) PROVE UNCHANGED backlog
    BY <1>2, Zenon
    DEF TakeIMAPAction, MoveSucceeds, MoveWithoutUID, MoveFindsNothing,
        DeleteOrFlagSucceeds, AttemptFails, AttemptLosesReply, CheckFindsItGone,
        CheckFindsIt, CheckFails, GiveUp, AfterFailure, NextRound, Step, daemon
  <1>3. ASSUME NEW w \in Worker, Conclude(w) PROVE UNCHANGED backlog
    BY <1>3, Zenon
    DEF Conclude, RevertStatus, RevertFails, UpdateQuarantineUID, UpdateQuarantineUIDFails,
        AuditQuarantineDesync, AuditAction, MarkSeen, MarkLost, Proceed, Return, Goto, Forget,
        daemon
  <1>4. ASSUME NEW w \in Worker, NEW m \in Msg, Dispatch(w, m) \/ DispatchBackfill(w, m)
        PROVE  backlog' \subseteq backlog
    BY <1>4, Zenon DEF Dispatch, DispatchBackfill
  <1>5. CASE BackfillSnapshot
    BY <1>5, SpendType, Zenon DEF BackfillSnapshot, FaultKind
  <1>6. CASE Stop \/ Restart \/ Crash \/ UNCHANGED vars
    BY <1>6, Zenon DEF Stop, Restart, Crash, Boot, vars, daemon
  <1>7. ASSUME NEW m \in Msg, Arrive(m) PROVE UNCHANGED backlog
    BY <1>7, Zenon DEF Arrive, daemon
  <1> QED BY <1>1, <1>2, <1>3, <1>4, <1>5, <1>6, <1>7, Zenon DEF Next, Process, WaitForMail

\* A message changes its place when it arrives, or when a worker of its own moves
\* or expunges it.
LEMMA MessageStep ==
    ASSUME TypeOK, [Next]_vars, NEW m \in Msg
    PROVE  \/ UNCHANGED <<folder[m], uid[m]>>
           \/ folder[m] = "unborn" /\ folder'[m] = "INBOX"
           \/ \E w \in Worker : Touches(w) /\ job[w].msg = m
  <1>1. ASSUME NEW n \in Msg, NEW f \in Folder, Place(n, f), n # m
        PROVE  UNCHANGED <<folder[m], uid[m]>>
    BY <1>1, Zenon DEF Place, TypeOK
  <1>2. ASSUME NEW n \in Msg, Expunge(n), n # m PROVE UNCHANGED <<folder[m], uid[m]>>
    BY <1>2, Zenon DEF Expunge, TypeOK
  <1>3. CASE UNCHANGED server
    BY <1>3, Zenon DEF server
  <1>4. CASE Idles
    <2>1. ASSUME folder[m] = "unborn", Place(m, "INBOX") PROVE folder'[m] = "INBOX"
      BY <2>1, Zenon DEF Place, TypeOK
    <2> QED BY <1>1, <1>3, <1>4, <2>1 DEF Idles, Folder
  <1>5. CASE Boots
    BY <1>3, <1>5, Zenon DEF Boots, Boot
  <1>6. ASSUME NEW w \in Worker, Touches(w), job[w].msg # m
        PROVE  UNCHANGED <<folder[m], uid[m]>>
    <2>1. job[w].msg \in Msg /\ "Quarantine" \in Folder
      BY Zenon DEF TypeOK, JobType, Folder
    <2> QED BY <1>1, <1>2, <1>6, <2>1, Zenon DEF Touches
  <1>7. ASSUME NEW w \in Worker, Kind(w), ~Touches(w) PROVE UNCHANGED server
    BY <1>7, Zenon DEF Kind, Starts, Start, Approaches, Records, Retries, Settles, Forgets, Forget
  <1> QED BY KindsOfStep, <1>3, <1>4, <1>5, <1>6, <1>7, Zenon

\* A worker has the job it had, or it has just been given it.
LEMMA JobStep ==
    ASSUME TypeOK, [Next]_vars, NEW w \in Worker, pc'[w] # "idle"
    PROVE  \/ pc[w] # "idle" /\ job'[w] = job[w]
           \/ Starts(w) /\ \A v \in Worker : v # w => UNCHANGED Own(v)
  <1>1. CASE UNCHANGED Own(w)
    BY <1>1, Zenon DEF Own
  <1>2. CASE Starts(w)
    BY <1>2, Zenon DEF Starts, Start, Own, TypeOK
  <1>3. CASE Kind(w) /\ ~Starts(w) /\ ~Forgets(w)
    BY <1>3, TaskStep, Zenon
  <1> QED BY <1>1, <1>2, <1>3, WorkerStep, Cleared, Zenon

\* A new row is an INSERT whose key was free.
LEMMA InsertStep ==
    ASSUME TypeOK, RowHeld, [Next]_vars, NEW i \in RowId, ~Exists(i), Exists(i)'
    PROVE  \E w \in Worker : /\ Records(w) /\ ~KeyTaken(w) /\ row'[w] = i
                             /\ rows' = [rows EXCEPT ![i] = NewRow(w)]
  <1>1. rows \in [RowId -> RowType] /\ rows'[i] # rows[i]
    BY Zenon DEF TypeOK, Exists
  <1>2. ASSUME NEW w \in Worker, Records(w)
        PROVE  /\ ~KeyTaken(w) /\ row'[w] = i /\ rows' = [rows EXCEPT ![i] = NewRow(w)]
    <2>1. PICK j \in RowId :
            /\ row'[w] = j
            /\ \/ ~Exists(j) /\ rows' = [rows EXCEPT ![j] = NewRow(w)] /\ ~KeyTaken(w)
               \/ /\ HasKey(j, "INBOX", job[w].addr)
                  /\ rows' = [rows EXCEPT ![j].status = StatusFor(w)]
      BY <1>2, Zenon DEF Records
    <2>2. j = i
      BY <1>1, <2>1, Zenon
    <2> QED BY <2>1, <2>2, Zenon DEF HasKey
  <1>3. ASSUME NEW w \in Worker, Settles(w) PROVE FALSE
    <2>1. row[w] \in RowId /\ row[w] # i
      BY <1>3, Zenon DEF Settles, RowHeld, WithRow
    <2> QED BY <1>1, <1>3, <2>1, Zenon DEF Settles
  <1>4. ASSUME Idles \/ Boots PROVE FALSE
    BY <1>1, <1>4, Zenon DEF Idles, Boots, Boot, store
  <1>5. ASSUME NEW w \in Worker,
               Starts(w) \/ Approaches(w) \/ Touches(w) \/ Retries(w) \/ Forgets(w)
        PROVE  FALSE
    <2>1. UNCHANGED rows
      BY <1>5, ZenonT(30) DEF Starts, Start, Approaches, Touches, Retries, Forgets, Forget, store
    <2> QED BY <1>1, <2>1, Zenon
  <1> QED BY KindsOfStep, <1>2, <1>3, <1>4, <1>5, Zenon DEF Kind

\* A row of a message that is still at its source has the key of the source.
LEMMA KeyAtSource ==
    ASSUME TypeOK, Ledger, JobTruth, KeyTruthful, QuarantineKeyExact,
           NEW w \in Worker, pc[w] # "idle", folder[job[w].msg] = "INBOX",
           NEW i \in RowId, Exists(i), rows[i].msg = job[w].msg
    PROVE  HasKey(i, "INBOX", job[w].addr)
  <1>1. rows[i].kf = "INBOX"
    BY Zenon DEF QuarantineKeyExact, TypeOK, RowType, Folder
  <1>2. <<"INBOX", rows[i].uid, job[w].msg>> \in held /\ <<"INBOX", job[w].addr, job[w].msg>> \in held
    BY <1>1, Zenon DEF KeyTruthful, JobTruth
  <1>3. rows[i].uid = job[w].addr
    BY <1>2, Zenon DEF Ledger
  <1> QED BY <1>1, <1>3, Zenon DEF HasKey

\* A worker that has yet to be through with the server was so before, or has just
\* been given its job.
LEMMA PlaceStep ==
    ASSUME TypeOK, [Next]_vars, NEW w \in Worker, pc'[w] \in BeforeRow \cup Acting
    PROVE  Starts(w) \/ (pc[w] \in BeforeRow \cup Acting /\ job'[w] = job[w])
  <1>1. CASE UNCHANGED Own(w)
    BY <1>1, Zenon DEF Own
  <1>2. CASE Approaches(w) \/ Records(w) \/ Touches(w) \/ Retries(w)
    BY <1>2, Zenon DEF Approaches, Records, Touches, Retries, SameTask, BeforeRow, Acting
  <1>3. CASE Settles(w)
    BY <1>3, Zenon DEF Settles, BeforeRow, Acting
  <1>4. CASE Boots \/ Forgets(w)
    BY <1>4, Cleared, Zenon DEF BeforeRow, Acting
  <1> QED BY <1>1, <1>2, <1>3, <1>4, WorkerStep, Zenon DEF Kind

\* A dispatcher gives a message to one worker, and a worker writes a row for a
\* message that has none.
LEMMA SoloStep ==
    ASSUME IInv, Solo, [Next]_vars
    PROVE  Solo'
  <1> DEFINE K == {"reply", "dup", "backfill"}
  <1> SUFFICES ASSUME Unused(K)'
               PROVE  /\ backlog' = {} /\ Alone' /\ Single'
                      /\ \A w \in Worker : pc'[w] \in BeforeRow \cup Acting => AtSource(w)'
    BY Zenon DEF Solo
  <1>0. /\ TypeOK /\ Ledger /\ JobTruth /\ RowHeld /\ LeftBound
        /\ KeyTruthful /\ QuarantineKeyExact
    BY Zenon DEF IInv
  <1>1. /\ Unused(K) /\ ~(left'["reply"] < left["reply"]) /\ ~(left'["dup"] < left["dup"])
        /\ ~(left'["backfill"] < left["backfill"])
    <2>1. K \in SUBSET FaultKind
      BY Zenon DEF FaultKind
    <2> QED BY <1>0, <2>1, UnusedBefore, Zenon
  <1>2. /\ backlog = {} /\ Alone /\ Single
        /\ \A w \in Worker : pc[w] \in BeforeRow \cup Acting => AtSource(w)
    BY <1>1, Zenon DEF Solo
  <1>3. ASSUME NEW w \in Worker, Starts(w)
        PROVE  \E m \in Msg : /\ folder[m] = "INBOX" /\ UNCHANGED server /\ ~Working(m)
                              /\ job'[w].msg = m /\ job'[w].addr = uid[m]
    <2>1. PICK m \in Msg, l \in BOOLEAN :
            /\ Start(w, m, l)
            /\ IF l THEN m \notin seen /\ UNCHANGED backlog /\ (Working(m) => left'["dup"] < left["dup"])
                    ELSE m \in backlog
      BY <1>3, Zenon DEF Starts
    <2>2. job'[w] = [msg |-> m, addr |-> uid[m], live |-> l]
      BY <1>0, <2>1, Zenon DEF Start, TypeOK
    <2>3. ~Working(m)
      BY <1>1, <1>2, <2>1, Zenon
    <2> QED BY <2>1, <2>2, <2>3 DEF Start
  <1>4. backlog' = {}
    BY <1>0, <1>1, <1>2, BacklogStep, Zenon
  <1>5. ASSUME NEW v \in Worker, NEW w \in Worker, pc'[v] # "idle", pc'[w] # "idle",
               job'[v].msg = job'[w].msg, v # w
        PROVE  FALSE
    <2>1. ASSUME NEW x \in Worker, NEW y \in Worker, x # y, pc'[y] # "idle",
                 job'[x].msg = job'[y].msg, Starts(x),
                 \A z \in Worker : z # x => UNCHANGED Own(z)
          PROVE  FALSE
      <3>1. pc[y] # "idle" /\ job[y].msg = job'[x].msg
        BY <2>1, Zenon DEF Own
      <3>2. ~Working(job'[x].msg)
        BY <1>3, <2>1, Zenon
      <3> QED BY <3>1, <3>2, Zenon DEF Working
    <2>2. pc[v] # "idle" /\ job'[v] = job[v]
      BY <1>0, <1>5, <2>1, JobStep, Zenon
    <2>3. pc[w] # "idle" /\ job'[w] = job[w]
      BY <1>0, <1>5, <2>1, JobStep, Zenon
    <2> QED BY <1>2, <1>5, <2>2, <2>3, Zenon DEF Alone
  <1>6. ASSUME NEW i \in RowId, NEW j \in RowId, Exists(i)', Exists(j)', i # j,
               rows'[i].msg = rows'[j].msg
        PROVE  FALSE
    <2>1. ASSUME NEW x \in RowId, NEW y \in RowId, x # y, ~Exists(x), Exists(x)', Exists(y)',
                 rows'[x].msg = rows'[y].msg
          PROVE  FALSE
      <3>1. PICK w \in Worker : /\ Records(w) /\ ~KeyTaken(w) /\ row'[w] = x
                                /\ rows' = [rows EXCEPT ![x] = NewRow(w)]
        BY <1>0, <2>1, InsertStep, Zenon
      <3>2. rows'[y] = rows[y] /\ rows'[x].msg = job[w].msg
        BY <1>0, <2>1, <3>1, NewRowFields, Zenon DEF TypeOK
      <3>3. pc[w] \in BeforeRow /\ pc[w] # "idle"
        BY <3>1, Zenon DEF Records, BeforeRow
      <3>4. folder[job[w].msg] = "INBOX"
        BY <1>2, <3>3, Zenon DEF AtSource
      <3>5. HasKey(y, "INBOX", job[w].addr)
        BY <1>0, <2>1, <3>2, <3>3, <3>4, KeyAtSource, Zenon DEF Exists
      <3> QED BY <3>1, <3>5, Zenon DEF KeyTaken
    <2>2. Exists(i) /\ Exists(j)
      BY <1>6, <2>1, Zenon
    <2>3. rows[i].msg = rows[j].msg
      BY <1>0, <1>6, <2>2, RowsStep, Zenon
    <2> QED BY <1>2, <1>6, <2>2, <2>3, Zenon DEF Single
  <1>7. ASSUME NEW w \in Worker, pc'[w] \in BeforeRow \cup Acting PROVE AtSource(w)'
    <2>1. CASE Starts(w)
      BY <1>3, <2>1, Zenon DEF AtSource, server
    <2>2. CASE pc[w] \in BeforeRow \cup Acting /\ job'[w] = job[w]
      <3>1. AtSource(w) /\ job[w].msg \in Msg /\ pc[w] # "idle"
        BY <1>0, <1>2, <2>2, Zenon DEF TypeOK, JobType, BeforeRow, Acting
      <3>2. ASSUME NEW v \in Worker, Touches(v), job[v].msg = job[w].msg PROVE FALSE
        <4>1. v = w
          BY <1>2, <3>1, <3>2, Zenon DEF Touches, Alone
        <4>2. pc'[w] \in {"rekey", "audit"}
          BY <1>1, <3>2, <4>1, Zenon DEF Touches
        <4> QED BY <1>7, <4>2, Zenon DEF BeforeRow, Acting
      <3>3. folder'[job[w].msg] = folder[job[w].msg] /\ uid'[job[w].msg] = uid[job[w].msg]
        BY <1>0, <3>1, <3>2, MessageStep, Zenon DEF AtSource
      <3> QED BY <2>2, <3>1, <3>3, Zenon DEF AtSource
    <2> QED BY <1>0, <1>7, <2>1, <2>2, PlaceStep, Zenon
  <1> QED BY <1>4, <1>5, <1>6, <1>7, Zenon DEF Alone, Single

------------------------------------------------------------------------------
(* The status of a row and the place of its message.                        *)

InStep(i) == folder[rows[i].msg] = PlaceOf(rows[i].status)

\* While nothing of the kind strikes, a row that differs from the server is the
\* row of a worker that is still acting, and has the status its action will make true.
Sync ==
    Unused({"crash", "db", "reply", "dup", "backfill"}) =>
        /\ \A w \in Worker : pc[w] \in Acting => Acts(w) /\ rows[row[w]].status = StatusFor(w)
        /\ \A i \in RowId : Exists(i) =>
              InStep(i) \/ \E w \in Worker : pc[w] \in Acting /\ row[w] = i

\* The status of a row is changed by a worker of its message: the upsert, and the
\* revert after a failed action.
LEMMA StatusStep ==
    ASSUME TypeOK, Ledger, JobTruth, RowHeld, KeyTruthful, [Next]_vars,
           NEW i \in RowId, Exists(i), rows'[i].status # rows[i].status
    PROVE  \E w \in Worker :
              /\ pc[w] # "idle" /\ job[w].msg = rows[i].msg
              /\ \/ Records(w) /\ row'[w] = i /\ rows'[i].status = StatusFor(w)
                 \/ Settles(w) /\ pc[w] = "revert" /\ row[w] = i /\ rows'[i].status = "INBOX"
  <1>1. rows \in [RowId -> RowType] /\ rows[i] \in RowType /\ rows'[i] # rows[i]
    BY Zenon DEF TypeOK
  <1>2. ASSUME NEW w \in Worker, Records(w)
        PROVE  /\ pc[w] # "idle" /\ job[w].msg = rows[i].msg
               /\ Records(w) /\ row'[w] = i /\ rows'[i].status = StatusFor(w)
    <2>1. PICK j \in RowId :
            /\ row'[w] = j
            /\ \/ ~Exists(j) /\ rows' = [rows EXCEPT ![j] = NewRow(w)] /\ ~KeyTaken(w)
               \/ /\ HasKey(j, "INBOX", job[w].addr)
                  /\ rows' = [rows EXCEPT ![j].status = StatusFor(w)]
      BY <1>2, Zenon DEF Records
    <2>2. j = i
      BY <1>1, <2>1, Zenon
    <2>3. HasKey(i, "INBOX", job[w].addr) /\ rows'[i].status = StatusFor(w)
      BY <1>1, <2>1, <2>2 DEF RowType
    <2>4. pc[w] # "idle" /\ <<"INBOX", job[w].addr, job[w].msg>> \in held
      BY <1>2, Zenon DEF Records, JobTruth
    <2>5. <<"INBOX", job[w].addr, rows[i].msg>> \in held
      BY <2>3, Zenon DEF HasKey, KeyTruthful
    <2>6. job[w].msg = rows[i].msg
      BY <2>4, <2>5, Zenon DEF Ledger
    <2> QED BY <1>2, <2>1, <2>2, <2>3, <2>4, <2>6, Zenon
  <1>3. ASSUME NEW w \in Worker, Settles(w)
        PROVE  /\ pc[w] # "idle" /\ job[w].msg = rows[i].msg
               /\ Settles(w) /\ pc[w] = "revert" /\ row[w] = i /\ rows'[i].status = "INBOX"
    <2>1. row[w] \in RowId /\ rows[row[w]].msg = job[w].msg /\ pc[w] # "idle"
      BY <1>3, Zenon DEF Settles, RowHeld, WithRow
    <2>2. row[w] = i
      BY <1>1, <1>3, <2>1, Zenon DEF Settles
    <2>3. ASSUME rows' = [rows EXCEPT ![row[w]] =
                         IF nuid[w] > 0
                         THEN [@ EXCEPT !.mbox = "Quarantine", !.kf = "Quarantine",
                                        !.uid = nuid[w]]
                         ELSE [@ EXCEPT !.mbox = "Quarantine"]]
          PROVE  rows'[i].status = rows[i].status
      BY <1>1, <2>2, <2>3, Zenon DEF RowType
    <2>4. pc[w] = "revert" /\ rows' = [rows EXCEPT ![row[w]].status = "INBOX"]
      BY <1>1, <1>3, <2>3, Zenon DEF Settles
    <2> QED BY <1>1, <1>3, <2>1, <2>2, <2>4, Zenon DEF RowType
  <1>4. ASSUME Idles \/ Boots PROVE FALSE
    BY <1>1, <1>4, Zenon DEF Idles, Boots, Boot, store
  <1>5. ASSUME NEW w \in Worker,
               Starts(w) \/ Approaches(w) \/ Touches(w) \/ Retries(w) \/ Forgets(w)
        PROVE  FALSE
    <2>1. UNCHANGED rows
      BY <1>5, ZenonT(30) DEF Starts, Start, Approaches, Touches, Retries, Forgets, Forget, store
    <2> QED BY <1>1, <2>1, Zenon
  <1> QED BY KindsOfStep, <1>2, <1>3, <1>4, <1>5, Zenon DEF Kind

\* A failed action is reverted and one that succeeded is what the status says, so
\* that the row and the server agree when the worker is done with both.
LEMMA SyncStep ==
    ASSUME IInv, Solo, Sync, [Next]_vars
    PROVE  Sync'
  <1> DEFINE K == {"crash", "db", "reply", "dup", "backfill"}
  <1> SUFFICES ASSUME Unused(K)'
               PROVE  /\ \A w \in Worker : pc'[w] \in Acting =>
                             Acts(w)' /\ rows'[row'[w]].status = StatusFor(w)'
                      /\ \A i \in RowId : Exists(i)' =>
                             InStep(i)' \/ \E w \in Worker : pc'[w] \in Acting /\ row'[w] = i
    BY Zenon DEF Sync
  <1>0. /\ TypeOK /\ Ledger /\ JobTruth /\ RowHeld /\ LeftBound
        /\ KeyTruthful /\ QuarantineKeyExact
    BY Zenon DEF IInv
  <1>1. /\ Unused(K) /\ ~(left'["crash"] < left["crash"]) /\ ~(left'["db"] < left["db"])
        /\ ~(left'["reply"] < left["reply"])
    <2>1. K \in SUBSET FaultKind
      BY Zenon DEF FaultKind
    <2> QED BY <1>0, <2>1, UnusedBefore, Zenon
  <1>2. /\ Alone /\ Single
        /\ \A w \in Worker : pc[w] \in BeforeRow \cup Acting => AtSource(w)
    BY <1>1, Zenon DEF Solo, Unused
  <1>3. /\ \A w \in Worker : pc[w] \in Acting => Acts(w) /\ rows[row[w]].status = StatusFor(w)
        /\ \A i \in RowId : Exists(i) =>
              InStep(i) \/ \E w \in Worker : pc[w] \in Acting /\ row[w] = i
    BY <1>1, Zenon DEF Sync
  <1>4. ASSUME NEW w \in Worker, pc[w] \in Acting
        PROVE  /\ row[w] \in RowId /\ Exists(row[w]) /\ rows[row[w]].msg = job[w].msg
               /\ folder[job[w].msg] = "INBOX" /\ job[w].msg \in Msg
               /\ Acts(w) /\ rows[row[w]].status = StatusFor(w)
    BY <1>0, <1>2, <1>3, <1>4, Zenon DEF RowHeld, WithRow, Acting, AtSource, TypeOK, JobType
  <1>5. ASSUME NEW w \in Worker, Records(w), NEW i \in RowId, row'[w] = i,
               rows'[i].status = StatusFor(w), rows'[i].msg = job[w].msg
        PROVE  InStep(i)' \/ (pc'[w] \in Acting /\ row'[w] = i)
    <2>1. CASE Acts(w)
      BY <1>5, <2>1, Zenon DEF Records, Acting
    <2>2. CASE ~Acts(w)
      <3>1. StatusFor(w) = "INBOX" /\ UNCHANGED server
        BY <1>5, <2>2, NewRowFields, Zenon DEF Records
      <3>2. folder[job[w].msg] = "INBOX"
        BY <1>2, <1>5, Zenon DEF Records, BeforeRow, AtSource
      <3> QED BY <1>5, <3>1, <3>2, Zenon DEF InStep, PlaceOf, server
    <2> QED BY <2>1, <2>2, Zenon
  <1>6. ASSUME NEW v \in Worker, pc'[v] \in Acting
        PROVE  Acts(v)' /\ rows'[row'[v]].status = StatusFor(v)'
    <2>1. ASSUME pc[v] \in Acting, job'[v] = job[v], plan'[v] = plan[v], row'[v] = row[v],
                 rows'[row[v]].status = rows[row[v]].status
          PROVE  Acts(v)' /\ rows'[row'[v]].status = StatusFor(v)'
      BY <1>4, <2>1, Zenon DEF Acts, StatusFor
    <2>2. CASE UNCHANGED Own(v)
      <3>1. pc[v] \in Acting /\ job'[v] = job[v] /\ plan'[v] = plan[v] /\ row'[v] = row[v]
        BY <1>6, <2>2, Zenon DEF Own
      <3>2. ASSUME rows'[row[v]].status # rows[row[v]].status PROVE FALSE
        <4>1. PICK w \in Worker :
                /\ pc[w] # "idle" /\ job[w].msg = rows[row[v]].msg
                /\ \/ Records(w) /\ row'[w] = row[v] /\ rows'[row[v]].status = StatusFor(w)
                   \/ /\ Settles(w) /\ pc[w] = "revert" /\ row[w] = row[v]
                      /\ rows'[row[v]].status = "INBOX"
          BY <1>0, <1>4, <3>1, <3>2, StatusStep, Zenon
        <4>2. w = v
          BY <1>2, <1>4, <3>1, <4>1, Zenon DEF Alone, Acting
        <4> QED BY <1>6, <3>1, <4>1, <4>2, Zenon DEF Records, Settles, Acting
      <3> QED BY <2>1, <3>1, <3>2, Zenon
    <2>3. CASE Records(v)
      <3>1. PICK j \in RowId :
              /\ row'[v] = j
              /\ \/ ~Exists(j) /\ rows' = [rows EXCEPT ![j] = NewRow(v)] /\ ~KeyTaken(v)
                 \/ /\ HasKey(j, "INBOX", job[v].addr)
                    /\ rows' = [rows EXCEPT ![j].status = StatusFor(v)]
        BY <2>3, Zenon DEF Records
      <3>2. rows'[j].status = StatusFor(v)
        BY <1>0, <3>1, NewRowFields DEF TypeOK, RowType
      <3>3. Acts(v) /\ job'[v] = job[v] /\ plan'[v] = plan[v]
        BY <1>6, <2>3, Zenon DEF Records, Acting
      <3> QED BY <3>1, <3>2, <3>3, Zenon DEF Acts, StatusFor
    <2>4. CASE Retries(v)
      BY <2>1, <2>4, Zenon DEF Retries, SameTask, Acting
    <2>5. CASE Touches(v)
      BY <1>1, <1>6, <2>5, Zenon DEF Touches, Acting
    <2>6. CASE Settles(v)
      BY <1>6, <2>6, Zenon DEF Settles, Acting
    <2>7. CASE Starts(v) \/ Approaches(v)
      BY <1>0, <1>6, <2>7, Zenon DEF Starts, Start, Approaches, Acting, TypeOK
    <2>8. CASE Boots \/ Forgets(v)
      BY <1>0, <1>6, <2>8, Cleared, Zenon DEF Acting
    <2> QED BY <1>0, <2>2, <2>3, <2>4, <2>5, <2>6, <2>7, <2>8, WorkerStep, Zenon DEF Kind
  <1>7. ASSUME NEW i \in RowId, Exists(i)', ~Exists(i)
        PROVE  InStep(i)' \/ \E w \in Worker : pc'[w] \in Acting /\ row'[w] = i
    <2>1. PICK w \in Worker : /\ Records(w) /\ ~KeyTaken(w) /\ row'[w] = i
                              /\ rows' = [rows EXCEPT ![i] = NewRow(w)]
      BY <1>0, <1>7, InsertStep, Zenon
    <2>2. rows'[i].status = StatusFor(w) /\ rows'[i].msg = job[w].msg
      BY <1>0, <2>1, NewRowFields, Zenon DEF TypeOK
    <2> QED BY <1>5, <2>1, <2>2, Zenon
  <1>8. ASSUME NEW i \in RowId, Exists(i), rows'[i].status # rows[i].status
        PROVE  InStep(i)' \/ \E w \in Worker : pc'[w] \in Acting /\ row'[w] = i
    <2>1. PICK w \in Worker :
              /\ pc[w] # "idle" /\ job[w].msg = rows[i].msg
              /\ \/ Records(w) /\ row'[w] = i /\ rows'[i].status = StatusFor(w)
                 \/ Settles(w) /\ pc[w] = "revert" /\ row[w] = i /\ rows'[i].status = "INBOX"
      BY <1>0, <1>8, StatusStep, Zenon
    <2>2. rows'[i].msg = job[w].msg
      BY <1>0, <1>8, <2>1, RowsStep, Zenon
    <2>3. CASE Records(w) /\ row'[w] = i /\ rows'[i].status = StatusFor(w)
      BY <1>5, <2>2, <2>3, Zenon
    <2>4. CASE Settles(w) /\ pc[w] = "revert" /\ rows'[i].status = "INBOX"
      <3>1. folder[job[w].msg] = "INBOX" /\ UNCHANGED server
        BY <1>4, <2>4, Zenon DEF Acting, Settles
      <3> QED BY <2>2, <2>4, <3>1, Zenon DEF InStep, PlaceOf, server
    <2> QED BY <2>1, <2>3, <2>4, Zenon
  <1>9. ASSUME NEW i \in RowId, Exists(i), rows'[i].status = rows[i].status,
               NEW w \in Worker, pc[w] \in Acting, row[w] = i
        PROVE  InStep(i)' \/ (pc'[w] \in Acting /\ row'[w] = i)
    <2>0. rows'[i].msg = job[w].msg
      BY <1>0, <1>4, <1>9, RowsStep
    <2>1. CASE UNCHANGED Own(w)
      BY <1>9, <2>1, Zenon DEF Own
    <2>2. CASE Boots
      BY <1>1, <1>9, <2>2, Zenon DEF Boots, Acting
    <2>3. CASE Starts(w) \/ Approaches(w) \/ Records(w) \/ Forgets(w)
      BY <1>9, <2>3, Zenon DEF Starts, Start, Approaches, Records, Forgets, Acting, BeforeRow
    <2>4. CASE Retries(w)
      <3>1. CASE pc'[w] \in Acting
        BY <1>9, <2>4, <3>1, Zenon DEF Retries, SameTask
      <3>2. CASE pc'[w] \notin Acting
        <4>1. AtSource(w)
          BY <1>2, <1>9, Zenon
        <4>2. plan[w].dec \notin {"quarantine", "delete"} /\ UNCHANGED server
          BY <2>4, <3>2, <4>1, Zenon DEF Retries, Acting
        <4>3. StatusFor(w) = "INBOX"
          BY <4>2, NewRowFields, Zenon
        <4>4. rows'[i].status = "INBOX" /\ folder[job[w].msg] = "INBOX"
          BY <1>4, <1>9, <4>3, Zenon
        <4> QED BY <2>0, <4>2, <4>4, Zenon DEF InStep, PlaceOf, server
      <3> QED BY <3>1, <3>2, Zenon
    <2>5. CASE Touches(w)
      <3>1. job[w].live /\ job[w].msg \in Msg /\ rows'[i].status = StatusFor(w)
        BY <1>4, <1>9, Zenon DEF Acts
      <3>2. CASE Quarantines(w) /\ Place(job[w].msg, "Quarantine")
        <4>1. folder'[job[w].msg] = "Quarantine"
          BY <1>0, <3>1, <3>2, Zenon DEF Place, TypeOK
        <4>2. StatusFor(w) = "QUARANTINED"
          BY <3>1, <3>2, Zenon DEF StatusFor, Quarantines
        <4> QED BY <2>0, <3>1, <4>1, <4>2, Zenon DEF InStep, PlaceOf
      <3>3. CASE plan[w].dec = "delete" /\ Expunge(job[w].msg)
        <4>1. folder'[job[w].msg] = "gone"
          BY <1>0, <3>1, <3>3, Zenon DEF Expunge, TypeOK
        <4>2. StatusFor(w) = "DELETED"
          BY <3>1, <3>3, Zenon DEF StatusFor
        <4> QED BY <2>0, <3>1, <4>1, <4>2, Zenon DEF InStep, PlaceOf
      <3> QED BY <1>1, <2>5, <3>2, <3>3, Zenon DEF Touches
    <2>6. CASE Settles(w)
      <3>1. pc[w] = "revert" /\ UNCHANGED server
        BY <1>9, <2>6, Zenon DEF Settles, Acting
      <3>2. rows' = [rows EXCEPT ![i].status = "INBOX"]
        BY <1>1, <1>9, <2>6, <3>1, Zenon DEF Settles
      <3>3. rows'[i].status = "INBOX"
        BY <1>0, <3>2, Zenon DEF TypeOK, RowType
      <3>4. folder[job[w].msg] = "INBOX"
        BY <1>4, <1>9, Zenon
      <3> QED BY <2>0, <3>1, <3>3, <3>4, Zenon DEF InStep, PlaceOf, server
    <2> QED BY <1>0, <2>1, <2>2, <2>3, <2>4, <2>5, <2>6, WorkerStep, Zenon DEF Kind
  <1>10. ASSUME NEW i \in RowId, Exists(i), rows'[i].status = rows[i].status, InStep(i),
                ~\E w \in Worker : pc[w] \in Acting /\ row[w] = i
         PROVE  InStep(i)'
    <2>1. rows'[i].msg = rows[i].msg /\ rows[i].msg \in Msg
      BY <1>0, <1>10, RowsStep, Zenon DEF TypeOK, RowType
    <2>2. folder[rows[i].msg] # "unborn"
      BY <1>0, <1>10, <2>1, Zenon DEF KeyTruthful, Ledger
    <2>3. ASSUME NEW w \in Worker, Touches(w), job[w].msg = rows[i].msg PROVE FALSE
      <3>1. pc[w] \in Acting
        BY <2>3, Zenon DEF Touches, Acting
      <3>2. row[w] = i
        BY <1>2, <1>4, <1>10, <2>3, <3>1 DEF Single
      <3> QED BY <1>10, <3>1, <3>2, Zenon
    <2>4. folder'[rows[i].msg] = folder[rows[i].msg]
      BY <1>0, <2>1, <2>2, <2>3, MessageStep, Zenon
    <2> QED BY <1>10, <2>1, <2>4, Zenon DEF InStep
  <1>11. ASSUME NEW i \in RowId, Exists(i)'
         PROVE  InStep(i)' \/ \E w \in Worker : pc'[w] \in Acting /\ row'[w] = i
    BY <1>3, <1>7, <1>8, <1>9, <1>10, <1>11, Zenon
  <1> QED BY <1>6, <1>11, Zenon

\* What the inductive invariant is for the status of the rows.
LEMMA SyncInvariance == Spec => [](IInv /\ Solo /\ Sync)
  <1>1. Init => Solo /\ Sync
    <2> SUFFICES ASSUME Init PROVE Solo /\ Sync
      BY Zenon
    <2>1. \A i \in RowId : ~Exists(i)
      BY Zenon DEF Init, Exists, NoRow
    <2>2. \A w \in Worker : pc[w] = "idle"
      BY Zenon DEF Init
    <2> QED BY <2>1, <2>2, Zenon DEF Init, Solo, Sync, Alone, Single, BeforeRow, Acting
  <1>2. IInv /\ Solo /\ Sync /\ [Next]_vars => Solo' /\ Sync'
    BY SoloStep, SyncStep, Zenon
  <1> QED BY <1>1, <1>2, Initially, Inductive, PTL DEF Spec

\* The status of a row is the place of its message as soon as its worker is done,
\* unless the daemon crashed, a write failed, a reply was lost, the message was
\* dispatched twice or a backfill ran.
THEOREM RowsInSync == Spec => []StatusInSync
  <1>1. IInv /\ Sync => StatusInSync
    <2> SUFFICES ASSUME IInv, Sync, Unused({"crash", "db", "reply", "dup", "backfill"}),
                        NEW i \in RowId, Exists(i), ~Working(rows[i].msg)
                 PROVE  folder[rows[i].msg] = PlaceOf(rows[i].status)
      BY Zenon DEF StatusInSync
    <2>1. ASSUME NEW w \in Worker, pc[w] \in Acting, row[w] = i PROVE FALSE
      BY <2>1, Zenon DEF IInv, RowHeld, WithRow, Acting, Working
    <2> QED BY <2>1, Zenon DEF Sync, InStep
  <1> QED BY <1>1, SyncInvariance, PTL

------------------------------------------------------------------------------
(* The audit of a lost UID.                                                 *)

\* Nobody is in the branch of the blocklist, which drops the error.
NoBlocklist == \A w \in Worker : plan[w].path # "blocklist"

Quiet ==
    Unused({"crash", "dup", "uid", "reply", "backfill"}) /\ Faults["db"] - left["db"] <= 1

\* A row of a message in quarantine has its key there, or the audit entry, or a
\* worker that is about to write the one, or the other after the one failed.
Loud ==
    Quiet =>
        \A i \in RowId : Exists(i) /\ folder[rows[i].msg] = "Quarantine" =>
            \/ rows[i].kf = "Quarantine"
            \/ <<i, "QUAR_DESYNC">> \in audit
            \/ \E w \in Worker : row[w] = i /\ pc[w] = "rekey" /\ nuid[w] > 0
            \/ \E w \in Worker : row[w] = i /\ pc[w] = "desync" /\ left["db"] < Faults["db"]

\* Audit entries are never taken back.
LEMMA AuditStep ==
    ASSUME [Next]_vars
    PROVE  audit \subseteq audit'
  <1>1. ASSUME NEW w \in Worker, ToTheRow(w) PROVE UNCHANGED audit
    BY <1>1, Zenon
    DEF ToTheRow, AcquireSlot, SlotWaitCancelled, ParsePanics, ParseFails, Blocklisted,
        Bypassed, Scanned, Parses, CreateRow, CreateFails, UpsertRow, UpsertFails, store
  <1>2. ASSUME NEW w \in Worker, TakeIMAPAction(w) PROVE UNCHANGED audit
    BY <1>2, Zenon
    DEF TakeIMAPAction, MoveSucceeds, MoveWithoutUID, MoveFindsNothing,
        DeleteOrFlagSucceeds, AttemptFails, AttemptLosesReply, CheckFindsItGone,
        CheckFindsIt, CheckFails, GiveUp, store
  <1>3. ASSUME NEW w \in Worker, Conclude(w) PROVE audit \subseteq audit'
    BY <1>3, Zenon
    DEF Conclude, RevertStatus, RevertFails, UpdateQuarantineUID, UpdateQuarantineUIDFails,
        AuditQuarantineDesync, AuditAction, MarkSeen, MarkLost, Forget, store
  <1>4. ASSUME NEW w \in Worker, NEW m \in Msg, Dispatch(w, m) \/ DispatchBackfill(w, m)
        PROVE  UNCHANGED audit
    BY <1>4, Zenon DEF Dispatch, DispatchBackfill, Start, store
  <1>5. CASE BackfillSnapshot \/ Stop \/ Restart \/ Crash \/ UNCHANGED vars
    BY <1>5, Zenon DEF BackfillSnapshot, Stop, Restart, Crash, Boot, vars, store
  <1>6. ASSUME NEW m \in Msg, Arrive(m) PROVE UNCHANGED audit
    BY <1>6, Zenon DEF Arrive, store
  <1> QED BY <1>1, <1>2, <1>3, <1>4, <1>5, <1>6, Zenon DEF Next, Process, WaitForMail

\* A worker is on the route the message met, and only the blocklist leads into its
\* branch.
LEMMA NoBlocklistStep ==
    ASSUME TypeOK, NoBlocklist, [Next]_vars, "blocklist" \notin Route
    PROVE  NoBlocklist'
  <1>0. plan \in [Worker -> PlanType]
    BY Zenon DEF TypeOK
  <1>1. ASSUME NEW w \in Worker, NEW path, NEW d, path # "blocklist", Choose(w, path, d)
        PROVE  NoBlocklist'
    BY <1>0, <1>1, Zenon DEF Choose, NoBlocklist
  <1>2. CASE UNCHANGED plan
    BY <1>2, Zenon DEF NoBlocklist
  <1>3. ASSUME NEW w \in Worker, ToTheRow(w) PROVE NoBlocklist'
    <2>1. CASE ParsePanics(w) \/ ParseFails(w)
      BY <1>1, <2>1, Zenon DEF ParsePanics, ParseFails
    <2>2. CASE Blocklisted(w) \/ Bypassed(w) \/ Scanned(w)
      BY <1>1, <2>2, Zenon DEF Blocklisted, Bypassed, Scanned, Parses
    <2>3. CASE AcquireSlot(w) \/ SlotWaitCancelled(w) \/ CreateRow(w) \/ CreateFails(w)
               \/ UpsertRow(w) \/ UpsertFails(w)
      BY <1>2, <2>3, Zenon
      DEF AcquireSlot, SlotWaitCancelled, CreateRow, CreateFails, UpsertRow, UpsertFails
    <2> QED BY <1>3, <2>1, <2>2, <2>3, Zenon DEF ToTheRow
  <1>4. ASSUME NEW w \in Worker, TakeIMAPAction(w) PROVE UNCHANGED plan
    BY <1>4, Zenon
    DEF TakeIMAPAction, MoveSucceeds, MoveWithoutUID, MoveFindsNothing,
        DeleteOrFlagSucceeds, AttemptFails, AttemptLosesReply, CheckFindsItGone,
        CheckFindsIt, CheckFails, GiveUp, AfterFailure, NextRound, Step
  <1>5. ASSUME NEW w \in Worker, Conclude(w) PROVE NoBlocklist'
    <2>1. CASE MarkSeen(w) \/ MarkLost(w)
      BY <1>0, <2>1 DEF MarkSeen, MarkLost, Forget, NoPlan, NoBlocklist
    <2>2. CASE RevertStatus(w) \/ RevertFails(w) \/ UpdateQuarantineUID(w)
               \/ UpdateQuarantineUIDFails(w) \/ AuditQuarantineDesync(w) \/ AuditAction(w)
      BY <1>2, <2>2, Zenon
      DEF RevertStatus, RevertFails, UpdateQuarantineUID, UpdateQuarantineUIDFails,
          AuditQuarantineDesync, AuditAction
    <2> QED BY <1>5, <2>1, <2>2, Zenon DEF Conclude
  <1>6. ASSUME NEW w \in Worker, NEW m \in Msg, Dispatch(w, m) \/ DispatchBackfill(w, m)
        PROVE  UNCHANGED plan
    BY <1>6, Zenon DEF Dispatch, DispatchBackfill, Start
  <1>7. CASE BackfillSnapshot \/ Stop \/ UNCHANGED vars
    BY <1>2, <1>7, Zenon DEF BackfillSnapshot, Stop, vars, task
  <1>8. CASE Restart \/ Crash
    BY <1>8 DEF Restart, Crash, Boot, NoPlan, NoBlocklist
  <1>9. ASSUME NEW m \in Msg, Arrive(m) PROVE UNCHANGED plan
    BY <1>9, Zenon DEF Arrive, task
  <1> QED BY <1>2, <1>3, <1>4, <1>5, <1>6, <1>7, <1>8, <1>9, Zenon DEF Next, Process, WaitForMail

\* The UID a message got in quarantine is nobody else's, so that updateQuarantineUID
\* cannot collide while a message has one row.
LEMMA NewKeyFree ==
    ASSUME TypeOK, Ledger, RowHeld, NewUIDTruth, KeyTruthful, Single,
           NEW w \in Worker, pc[w] = "rekey"
    PROVE  ~NewKeyTaken(w)
  <1> SUFFICES ASSUME nuid[w] > 0, NEW j \in RowId, j # row[w], HasKey(j, "Quarantine", nuid[w])
               PROVE  FALSE
    BY Zenon DEF NewKeyTaken
  <1>1. row[w] \in RowId /\ Exists(row[w]) /\ rows[row[w]].msg = job[w].msg
    BY Zenon DEF RowHeld, WithRow
  <1>2. job[w].msg \in Msg /\ folder[job[w].msg] = "Quarantine" /\ uid[job[w].msg] = nuid[w]
    BY Zenon DEF TypeOK, JobType, NewUIDTruth
  <1>3. <<"Quarantine", nuid[w], job[w].msg>> \in held
    BY <1>2, Zenon DEF Ledger, Folder
  <1>4. Exists(j) /\ <<"Quarantine", nuid[w], rows[j].msg>> \in held
    BY Zenon DEF HasKey, KeyTruthful
  <1>5. rows[j].msg = job[w].msg
    BY <1>3, <1>4, Zenon DEF Ledger
  <1> QED BY <1>1, <1>4, <1>5, Zenon DEF Single

\* Each step on the way from the MOVE to the key or the audit entry keeps one of
\* the four.
LEMMA LoudStep ==
    ASSUME IInv, Solo, Loud, NoBlocklist, [Next]_vars
    PROVE  Loud'
  <1> DEFINE K == {"crash", "dup", "uid", "reply", "backfill"}
             Heard(i) == \/ rows[i].kf = "Quarantine"
                         \/ <<i, "QUAR_DESYNC">> \in audit
                         \/ \E w \in Worker : row[w] = i /\ pc[w] = "rekey" /\ nuid[w] > 0
                         \/ \E w \in Worker : /\ row[w] = i /\ pc[w] = "desync"
                                              /\ left["db"] < Faults["db"]
  <1> SUFFICES ASSUME Quiet', NEW i \in RowId, Exists(i)',
                      folder'[rows'[i].msg] = "Quarantine"
               PROVE  Heard(i)'
    BY Zenon DEF Loud
  <1>0. /\ TypeOK /\ Ledger /\ JobTruth /\ RowHeld /\ LeftBound /\ NewUIDTruth
        /\ KeyTruthful /\ QuarantineKeyExact
    BY Zenon DEF IInv
  <1>1. /\ Unused(K) /\ ~(left'["crash"] < left["crash"]) /\ ~(left'["uid"] < left["uid"])
        /\ ~(left'["reply"] < left["reply"])
    <2>1. K \in SUBSET FaultKind /\ Unused(K)'
      BY Zenon DEF FaultKind, Quiet
    <2> QED BY <1>0, <2>1, UnusedBefore, Zenon
  <1>2. /\ left["db"] \in Nat /\ left'["db"] \in Nat /\ Faults["db"] \in Nat
        /\ left'["db"] <= left["db"] /\ left["db"] <= Faults["db"]
        /\ Faults["db"] - left'["db"] <= 1
    <2>1. "db" \in FaultKind
      BY Zenon DEF FaultKind
    <2>2. TypeOK'
      BY <1>0, TypeStep, Zenon
    <2> QED BY <1>0, <2>1, <2>2, LeftStep, PipelineAssumption, Zenon DEF TypeOK, LeftBound, Quiet
  <1>3. Quiet
    BY <1>1, <1>2 DEF Quiet
  <1>4. /\ Alone /\ Single
        /\ \A w \in Worker : pc[w] \in BeforeRow \cup Acting => AtSource(w)
    BY <1>1, Zenon DEF Solo, Unused
  <1>5. ASSUME NEW w \in Worker, Records(w), rows'[i].msg = job[w].msg PROVE FALSE
    <2>1. folder[job[w].msg] = "INBOX" /\ UNCHANGED server
      BY <1>4, <1>5, Zenon DEF Records, BeforeRow, AtSource
    <2> QED BY <1>5, <2>1, Zenon DEF server
  <1>6. Exists(i)
    <2>1. ASSUME ~Exists(i) PROVE FALSE
      <3>1. PICK w \in Worker : /\ Records(w) /\ ~KeyTaken(w) /\ row'[w] = i
                                /\ rows' = [rows EXCEPT ![i] = NewRow(w)]
        BY <1>0, <2>1, InsertStep, Zenon
      <3>2. rows'[i].msg = job[w].msg
        BY <1>0, <3>1, NewRowFields, Zenon DEF TypeOK
      <3> QED BY <1>5, <3>1, <3>2, Zenon
    <2> QED BY <2>1, Zenon
  <1>7. rows'[i].msg = rows[i].msg /\ rows[i].msg \in Msg
    BY <1>0, <1>6, RowsStep, Zenon DEF TypeOK, RowType
  <1>8. CASE folder[rows[i].msg] # "Quarantine"
    <2>1. PICK w \in Worker : Touches(w) /\ job[w].msg = rows[i].msg
      BY <1>0, <1>7, <1>8, MessageStep, Zenon
    <2>2. row[w] \in RowId /\ Exists(row[w]) /\ rows[row[w]].msg = rows[i].msg
      BY <1>0, <2>1, Zenon DEF Touches, RowHeld, WithRow
    <2>3. row[w] = i
      BY <1>4, <1>6, <2>2, Zenon DEF Single
    <2>4. ASSUME Expunge(job[w].msg) PROVE FALSE
      BY <1>0, <1>7, <2>1, <2>4, Zenon DEF Expunge, TypeOK
    <2>5. pc'[w] = "rekey" /\ nuid'[w] = uidNext["Quarantine"] /\ row'[w] = row[w]
      BY <1>1, <2>1, <2>4, Zenon DEF Touches, SameTask
    <2>6. uidNext["Quarantine"] > 0
      BY <1>0 DEF TypeOK, Folder
    <2> QED BY <2>3, <2>5, <2>6, Zenon
  <1>9. CASE folder[rows[i].msg] = "Quarantine" /\ rows[i].kf = "Quarantine"
    BY <1>0, <1>5, <1>6, <1>9, RowsStep, Zenon
  <1>10. CASE <<i, "QUAR_DESYNC">> \in audit
    BY <1>10, AuditStep, Zenon
  <1>11. ASSUME NEW w \in Worker, row[w] = i, pc[w] = "rekey", nuid[w] > 0 PROVE Heard(i)'
    <2>1. CASE UNCHANGED Own(w)
      BY <1>11, <2>1, Zenon DEF Own
    <2>2. CASE Boots
      BY <1>1, <1>11, <2>2, Zenon DEF Boots
    <2>3. CASE Starts(w) \/ Approaches(w) \/ Records(w) \/ Touches(w) \/ Retries(w) \/ Forgets(w)
      BY <1>11, <2>3, Zenon
      DEF Starts, Start, Approaches, Records, Touches, Retries, Forgets, BeforeRow
    <2>4. CASE Settles(w)
      <3>1. ~NewKeyTaken(w) /\ plan[w].path # "blocklist" /\ row'[w] = i
        BY <1>0, <1>4, <1>11, <2>4, NewKeyFree, Zenon DEF NoBlocklist, Settles, SameTask
      <3>2. CASE UNCHANGED rows
        <4>1. CASE pc'[w] = "desync"
          <5>1. left'["db"] < Faults["db"]
            BY <1>2, <2>4, <3>1, <4>1 DEF Settles
          <5> QED BY <3>1, <4>1, <5>1, Zenon
        <4>2. CASE pc'[w] # "desync"
          <5>1. rows' = [rows EXCEPT ![row[w]] =
                           IF nuid[w] > 0
                           THEN [@ EXCEPT !.mbox = "Quarantine", !.kf = "Quarantine",
                                          !.uid = nuid[w]]
                           ELSE [@ EXCEPT !.mbox = "Quarantine"]]
            BY <1>11, <2>4, <3>1, <4>2, Zenon DEF Settles
          <5>2. rows'[i].kf = "Quarantine"
            BY <1>0, <1>11, <5>1 DEF TypeOK, RowType
          <5> QED BY <5>2, Zenon
        <4> QED BY <4>1, <4>2, Zenon
      <3>3. CASE rows' # rows
        <4>1. rows' = [rows EXCEPT ![row[w]] =
                         IF nuid[w] > 0
                         THEN [@ EXCEPT !.mbox = "Quarantine", !.kf = "Quarantine",
                                        !.uid = nuid[w]]
                         ELSE [@ EXCEPT !.mbox = "Quarantine"]]
          BY <1>11, <2>4, <3>3, Zenon DEF Settles
        <4>2. rows'[i].kf = "Quarantine"
          BY <1>0, <1>11, <4>1 DEF TypeOK, RowType
        <4> QED BY <4>2, Zenon
      <3> QED BY <3>2, <3>3, Zenon
    <2> QED BY <1>0, <2>1, <2>2, <2>3, <2>4, WorkerStep, Zenon DEF Kind
  <1>12. ASSUME NEW w \in Worker, row[w] = i, pc[w] = "desync", left["db"] < Faults["db"]
         PROVE  Heard(i)'
    <2>1. CASE UNCHANGED Own(w)
      <3>1. left'["db"] < Faults["db"]
        BY <1>2, <1>12
      <3> QED BY <1>12, <2>1, <3>1, Zenon DEF Own
    <2>2. CASE Boots
      BY <1>1, <1>12, <2>2, Zenon DEF Boots
    <2>3. CASE Starts(w) \/ Approaches(w) \/ Records(w) \/ Touches(w) \/ Retries(w) \/ Forgets(w)
      BY <1>12, <2>3, Zenon
      DEF Starts, Start, Approaches, Records, Touches, Retries, Forgets, BeforeRow
    <2>4. CASE Settles(w)
      <3>1. ~(left'["db"] < left["db"])
        BY <1>2, <1>12
      <3> QED BY <1>12, <2>4, <3>1, Zenon DEF Settles
    <2> QED BY <1>0, <2>1, <2>2, <2>3, <2>4, WorkerStep, Zenon DEF Kind
  <1>13. folder[rows[i].msg] = "Quarantine" => Heard(i)
    BY <1>3, <1>6, Zenon DEF Loud
  <1> QED BY <1>8, <1>9, <1>10, <1>11, <1>12, <1>13, Zenon

\* A message moved to quarantine whose row does not carry the UID it got there has
\* a QUAR_DESYNC entry, if no more than one write failed and no message is
\* blocklisted: the branch of the blocklist drops the error.
THEOREM NeverSilentButBlocklist ==
    ASSUME "blocklist" \notin Route
    PROVE  Spec => []NeverSilent
  <1>1. Init => Loud /\ NoBlocklist
    BY DEF Init, Loud, NoBlocklist, Exists, NoRow, NoPlan
  <1>2. IInv /\ Solo /\ Loud /\ NoBlocklist /\ [Next]_vars => Loud' /\ NoBlocklist'
    BY LoudStep, NoBlocklistStep, Zenon DEF IInv
  <1>3. IInv /\ Loud => NeverSilent
    <2> SUFFICES ASSUME IInv, Loud, Quiet, NEW i \in RowId, Exists(i),
                        ~Working(rows[i].msg), folder[rows[i].msg] = "Quarantine"
                 PROVE  \/ rows[i].kf = "Quarantine" /\ rows[i].uid = uid[rows[i].msg]
                        \/ <<i, "QUAR_DESYNC">> \in audit
      BY Zenon DEF NeverSilent, Quiet
    <2>1. ASSUME NEW w \in Worker, row[w] = i, pc[w] \in {"rekey", "desync"} PROVE FALSE
      BY <2>1, Zenon DEF IInv, RowHeld, WithRow, Working
    <2> QED BY <2>1, Zenon DEF Loud, IInv, QuarantineKeyExact
  <1> QED BY <1>1, <1>2, <1>3, SyncInvariance, PTL DEF Spec

------------------------------------------------------------------------------
(* A false claim and the \Seen mark.                                        *)

\* idx_account_uid, for the keys in INBOX.
KeyUnique ==
    \A i, j \in RowId : \A u \in Nat : HasKey(i, "INBOX", u) /\ HasKey(j, "INBOX", u) => i = j

\* Every message is parsed and scanned: nobody is at a plain Create.
ScanRoute == class \in [Msg -> Class] /\ \A w \in Worker : pc[w] # "create"

Live(w) == pc[w] # "idle" /\ job[w].live

\* w has done all it is going to do about the claim of its row.
Finished(w) ==
    \/ pc[w] \in {"rekey", "desync", "audit", "returned"}
    \/ pc[w] \in Acting /\ plan[w].dec \notin {"quarantine", "delete"}

\* A false claim is of a message that is not marked, and that no worker is about
\* to mark. The marks are made by live workers, of which a message has one.
Retried ==
    Unused({"db", "stop", "dup"}) =>
        /\ ~stopping
        /\ \A v, w \in Worker : Live(v) /\ Live(w) /\ job[v].msg = job[w].msg => v = w
        /\ \A w \in Worker : Live(w) => job[w].msg \notin seen
        /\ \A i \in RowId : Claims(i) /\ folder[rows[i].msg] = "INBOX" =>
              /\ rows[i].msg \notin seen
              /\ \A w \in Worker : Live(w) /\ Finished(w) => job[w].msg # rows[i].msg

\* A row whose key is in INBOX has had that key from the first.
LEMMA KeyStep ==
    ASSUME TypeOK, RowHeld, [Next]_vars, NEW i \in RowId, Exists(i), rows'[i].kf = "INBOX"
    PROVE  rows[i].kf = "INBOX" /\ rows'[i].uid = rows[i].uid
  <1>1. rows \in [RowId -> RowType] /\ rows[i] \in RowType
    BY Zenon DEF TypeOK
  <1>2. ASSUME NEW w \in Worker, Records(w)
        PROVE  rows[i].kf = "INBOX" /\ rows'[i].uid = rows[i].uid
    <2>1. PICK j \in RowId :
            \/ ~Exists(j) /\ rows' = [rows EXCEPT ![j] = NewRow(w)]
            \/ rows' = [rows EXCEPT ![j].status = StatusFor(w)]
      BY <1>2, Zenon DEF Records
    <2>2. CASE i # j
      BY <1>1, <2>1, <2>2, Zenon
    <2>3. CASE i = j
      BY <1>1, <2>1, <2>3 DEF RowType
    <2> QED BY <2>2, <2>3, Zenon
  <1>3. ASSUME NEW w \in Worker, Settles(w)
        PROVE  rows[i].kf = "INBOX" /\ rows'[i].uid = rows[i].uid
    <2>1. CASE row[w] # i \/ UNCHANGED rows
      BY <1>1, <1>3, <2>1, Zenon DEF Settles
    <2>2. CASE row[w] = i /\ rows' = [rows EXCEPT ![row[w]].status = "INBOX"]
      BY <1>1, <2>2, Zenon DEF RowType
    <2>3. CASE /\ row[w] = i
               /\ rows' = [rows EXCEPT ![row[w]] =
                         IF nuid[w] > 0
                         THEN [@ EXCEPT !.mbox = "Quarantine", !.kf = "Quarantine",
                                        !.uid = nuid[w]]
                         ELSE [@ EXCEPT !.mbox = "Quarantine"]]
      BY <1>1, <2>3, Zenon DEF RowType
    <2> QED BY <1>3, <2>1, <2>2, <2>3, Zenon DEF Settles
  <1>4. ASSUME Idles \/ Boots PROVE UNCHANGED rows
    BY <1>4, Zenon DEF Idles, Boots, Boot, store
  <1>5. ASSUME NEW w \in Worker,
               Starts(w) \/ Approaches(w) \/ Touches(w) \/ Retries(w) \/ Forgets(w)
        PROVE  UNCHANGED rows
    BY <1>5, ZenonT(30) DEF Starts, Start, Approaches, Touches, Retries, Forgets, Forget, store
  <1> QED BY KindsOfStep, <1>2, <1>3, <1>4, <1>5, Zenon DEF Kind

\* No INSERT and no rekey makes two rows of one key.
LEMMA KeyUniqueStep ==
    ASSUME TypeOK, RowHeld, KeyUnique, [Next]_vars
    PROVE  KeyUnique'
  <1> SUFFICES ASSUME NEW i \in RowId, NEW j \in RowId, NEW u \in Nat, i # j,
                      HasKey(i, "INBOX", u)', HasKey(j, "INBOX", u)'
               PROVE  FALSE
    BY Zenon DEF KeyUnique
  <1>1. ASSUME NEW x \in RowId, NEW y \in RowId, x # y, ~Exists(x),
               HasKey(x, "INBOX", u)', HasKey(y, "INBOX", u)'
        PROVE  FALSE
    <2>1. PICK w \in Worker : /\ Records(w) /\ ~KeyTaken(w) /\ row'[w] = x
                              /\ rows' = [rows EXCEPT ![x] = NewRow(w)]
      BY <1>1, InsertStep, Zenon DEF HasKey
    <2>2. rows'[y] = rows[y] /\ rows'[x].uid = job[w].addr
      BY <1>1, <2>1, NewRowFields, Zenon DEF TypeOK
    <2>3. HasKey(y, "INBOX", job[w].addr)
      BY <1>1, <2>2, Zenon DEF HasKey, Exists
    <2> QED BY <2>1, <2>3, Zenon DEF KeyTaken
  <1>2. Exists(i) /\ Exists(j)
    BY <1>1, Zenon
  <1>3. HasKey(i, "INBOX", u) /\ HasKey(j, "INBOX", u)
    BY <1>2, KeyStep, Zenon DEF HasKey
  <1> QED BY <1>3, Zenon DEF KeyUnique

\* A mark is made by a dispatcher whose worker has returned, if the message is
\* still there.
LEMMA SeenStep ==
    ASSUME [Next]_vars
    PROVE  \/ UNCHANGED seen
           \/ \E w \in Worker : /\ Forgets(w) /\ job[w].live /\ AtSource(w)
                                /\ seen' = seen \cup {job[w].msg}
  <1>1. ASSUME NEW w \in Worker, ToTheRow(w) PROVE UNCHANGED seen
    BY <1>1, Zenon
    DEF ToTheRow, AcquireSlot, SlotWaitCancelled, ParsePanics, ParseFails, Blocklisted,
        Bypassed, Scanned, Parses, CreateRow, CreateFails, UpsertRow, UpsertFails, Return, Goto
  <1>2. ASSUME NEW w \in Worker, TakeIMAPAction(w) PROVE UNCHANGED seen
    BY <1>2, Zenon
    DEF TakeIMAPAction, MoveSucceeds, MoveWithoutUID, MoveFindsNothing,
        DeleteOrFlagSucceeds, AttemptFails, AttemptLosesReply, CheckFindsItGone,
        CheckFindsIt, CheckFails, GiveUp, AfterFailure, NextRound, Step
  <1>3. ASSUME NEW w \in Worker, Conclude(w), ~MarkSeen(w) PROVE UNCHANGED seen
    BY <1>3, Zenon
    DEF Conclude, RevertStatus, RevertFails, UpdateQuarantineUID, UpdateQuarantineUIDFails,
        AuditQuarantineDesync, AuditAction, MarkLost, Proceed, Return, Goto
  <1>4. ASSUME NEW w \in Worker, MarkSeen(w), seen' # seen
        PROVE  /\ Forgets(w) /\ job[w].live /\ AtSource(w)
               /\ seen' = seen \cup {job[w].msg}
    BY <1>4, Zenon DEF MarkSeen, Forgets
  <1>5. ASSUME NEW w \in Worker, NEW m \in Msg, Dispatch(w, m) \/ DispatchBackfill(w, m)
        PROVE  UNCHANGED seen
    BY <1>5, Zenon DEF Dispatch, DispatchBackfill, Start
  <1>6. CASE BackfillSnapshot \/ Stop \/ Restart \/ Crash \/ UNCHANGED vars
    BY <1>6, Zenon DEF BackfillSnapshot, Stop, Restart, Crash, Boot, vars
  <1>7. ASSUME NEW m \in Msg, Arrive(m) PROVE UNCHANGED seen
    BY <1>7, Zenon DEF Arrive
  <1> QED BY <1>1, <1>2, <1>3, <1>4, <1>5, <1>6, <1>7, Zenon DEF Next, Process, WaitForMail

\* The context of the daemon is cancelled by a stop.
LEMMA StopStep ==
    ASSUME TypeOK, [Next]_vars
    PROVE  stopping' => stopping \/ left'["stop"] < left["stop"]
  <1>1. ASSUME NEW w \in Worker, ToTheRow(w) PROVE UNCHANGED stopping
    BY <1>1, Zenon
    DEF ToTheRow, AcquireSlot, SlotWaitCancelled, ParsePanics, ParseFails, Blocklisted,
        Bypassed, Scanned, Parses, CreateRow, CreateFails, UpsertRow, UpsertFails, Return, Goto
  <1>2. ASSUME NEW w \in Worker, TakeIMAPAction(w) PROVE UNCHANGED stopping
    BY <1>2, Zenon
    DEF TakeIMAPAction, MoveSucceeds, MoveWithoutUID, MoveFindsNothing,
        DeleteOrFlagSucceeds, AttemptFails, AttemptLosesReply, CheckFindsItGone,
        CheckFindsIt, CheckFails, GiveUp, AfterFailure, NextRound, Step, daemon
  <1>3. ASSUME NEW w \in Worker, Conclude(w) PROVE UNCHANGED stopping
    BY <1>3, Zenon
    DEF Conclude, RevertStatus, RevertFails, UpdateQuarantineUID, UpdateQuarantineUIDFails,
        AuditQuarantineDesync, AuditAction, MarkSeen, MarkLost, Proceed, Return, Goto, Forget,
        daemon
  <1>4. ASSUME NEW w \in Worker, NEW m \in Msg, Dispatch(w, m) \/ DispatchBackfill(w, m)
        PROVE  UNCHANGED stopping
    BY <1>4, Zenon DEF Dispatch, DispatchBackfill, Start
  <1>5. CASE Stop
    BY <1>5, SpendType, Zenon DEF Stop, FaultKind
  <1>6. CASE BackfillSnapshot \/ Restart \/ Crash \/ UNCHANGED vars
    BY <1>6, Zenon DEF BackfillSnapshot, Restart, Crash, Boot, vars, daemon
  <1>7. ASSUME NEW m \in Msg, Arrive(m) PROVE UNCHANGED stopping
    BY <1>7, Zenon DEF Arrive, daemon
  <1> QED BY <1>1, <1>2, <1>3, <1>4, <1>5, <1>6, <1>7, Zenon DEF Next, Process, WaitForMail

\* Parse decides once for a message, and what is scanned is upserted.
LEMMA ScanRouteStep ==
    ASSUME TypeOK, ScanRoute, [Next]_vars, Class \subseteq {"parses"}, Route \subseteq {"scan"}
    PROVE  ScanRoute'
  <1>0. pc \in [Worker -> PcType] /\ job \in [Worker -> JobType]
    BY Zenon DEF TypeOK
  <1>1. ASSUME NEW w \in Worker, NEW x, x # "create", pc' = [pc EXCEPT ![w] = x], UNCHANGED class
        PROVE  ScanRoute'
    BY <1>0, <1>1, Zenon DEF ScanRoute
  <1>2. ASSUME NEW w \in Worker, NEW x, x # "create", Goto(w, x) PROVE ScanRoute'
    BY <1>1, <1>2, Zenon DEF Goto
  <1>3. ASSUME NEW w \in Worker, Return(w) PROVE ScanRoute'
    BY <1>2, <1>3, Zenon DEF Return
  <1>4. ASSUME NEW w \in Worker, ToTheRow(w) PROVE ScanRoute'
    <2>1. class[job[w].msg] = "parses" /\ pc[w] # "create"
      BY <1>0, Zenon DEF ScanRoute, JobType
    <2>2. CASE Blocklisted(w) \/ Bypassed(w)
      BY <2>2, Zenon DEF Blocklisted, Bypassed, Parses
    <2>3. CASE ParsePanics(w) \/ ParseFails(w) \/ CreateRow(w) \/ CreateFails(w)
      BY <2>1, <2>3, Zenon DEF ParsePanics, ParseFails, CreateRow, CreateFails
    <2>4. CASE AcquireSlot(w) \/ Scanned(w) \/ UpsertRow(w)
      BY <1>2, <2>4, Zenon DEF AcquireSlot, Scanned, Parses, UpsertRow
    <2>5. CASE SlotWaitCancelled(w) \/ UpsertFails(w)
      BY <1>3, <2>5, Zenon DEF SlotWaitCancelled, UpsertFails
    <2> QED BY <1>4, <2>2, <2>3, <2>4, <2>5, Zenon DEF ToTheRow
  <1>5. ASSUME NEW w \in Worker, TakeIMAPAction(w) PROVE ScanRoute'
    <2>1. ASSUME NEW x, x # "create", Step(w, x) PROVE ScanRoute'
      BY <1>1, <2>1, Zenon DEF Step
    <2>2. CASE MoveSucceeds(w) \/ MoveWithoutUID(w) \/ MoveFindsNothing(w)
               \/ DeleteOrFlagSucceeds(w) \/ CheckFindsItGone(w) \/ GiveUp(w)
      BY <2>1, <2>2, Zenon DEF MoveSucceeds, MoveWithoutUID, MoveFindsNothing,
                        DeleteOrFlagSucceeds, CheckFindsItGone, GiveUp
    <2>3. CASE AttemptFails(w) \/ AttemptLosesReply(w) \/ CheckFindsIt(w) \/ CheckFails(w)
      BY <2>1, <2>3, Zenon DEF AttemptFails, AttemptLosesReply, CheckFindsIt, CheckFails,
                        AfterFailure, NextRound
    <2> QED BY <1>5, <2>2, <2>3, Zenon DEF TakeIMAPAction
  <1>6. ASSUME NEW w \in Worker, Conclude(w) PROVE ScanRoute'
    <2>1. CASE MarkSeen(w) \/ MarkLost(w)
      BY <1>1, <2>1, Zenon DEF MarkSeen, MarkLost, Forget
    <2>2. CASE RevertStatus(w) \/ RevertFails(w) \/ UpdateQuarantineUID(w)
               \/ UpdateQuarantineUIDFails(w) \/ AuditQuarantineDesync(w) \/ AuditAction(w)
      BY <1>2, <1>3, <2>2, Zenon
      DEF RevertStatus, RevertFails, UpdateQuarantineUID, UpdateQuarantineUIDFails,
          AuditQuarantineDesync, AuditAction, Proceed
    <2> QED BY <1>6, <2>1, <2>2, Zenon DEF Conclude
  <1>7. ASSUME NEW w \in Worker, NEW m \in Msg, Dispatch(w, m) \/ DispatchBackfill(w, m)
        PROVE  ScanRoute'
    BY <1>1, <1>7, Zenon DEF Dispatch, DispatchBackfill, Start
  <1>8. CASE BackfillSnapshot \/ Stop \/ UNCHANGED vars
    BY <1>8, Zenon DEF BackfillSnapshot, Stop, vars, ScanRoute
  <1>9. CASE Restart \/ Crash
    BY <1>9, Zenon DEF Restart, Crash, Boot, ScanRoute
  <1>10. ASSUME NEW m \in Msg, Arrive(m) PROVE ScanRoute'
    BY <1>10, Zenon DEF Arrive, ScanRoute
  <1> QED BY <1>4, <1>5, <1>6, <1>7, <1>8, <1>9, <1>10, Zenon DEF Next, Process, WaitForMail

\* A worker that does not yet count as finished has still to act on the row or to
\* revert it, and it gets there only when the claim is gone or is true.
LEMMA FinishedStep ==
    ASSUME IInv, KeyUnique, ScanRoute, ~stopping, [Next]_vars,
           ~(left'["db"] < left["db"]),
           NEW i \in RowId, Claims(i), Claims(i)', folder[rows[i].msg] = "INBOX",
           folder'[rows[i].msg] = "INBOX",
           NEW w \in Worker, ~Finished(w), Finished(w)', job[w].msg = rows[i].msg, Kind(w)
    PROVE  FALSE
  <1>0. /\ TypeOK /\ Ledger /\ JobTruth /\ RowHeld /\ KeyTruthful /\ QuarantineKeyExact
        /\ Exists(i) /\ rows[i].msg \in Msg
    BY Zenon DEF IInv, Claims, Exists, TypeOK, RowType
  <1>1. ASSUME pc[w] # "idle"
        PROVE  HasKey(i, "INBOX", job[w].addr) /\ AtSource(w) /\ job[w].addr \in Nat
    <2>1. HasKey(i, "INBOX", job[w].addr)
      BY <1>0, <1>1, KeyAtSource, Zenon
    <2>2. <<"INBOX", job[w].addr, rows[i].msg>> \in held
      BY <1>0, <1>1, Zenon DEF JobTruth
    <2>3. <<"INBOX", uid[rows[i].msg], rows[i].msg>> \in held
      BY <1>0, Zenon DEF Ledger, Folder
    <2>4. uid[rows[i].msg] = job[w].addr
      BY <1>0, <2>2, <2>3, Zenon DEF Ledger
    <2> QED BY <1>0, <2>1, <2>4, Zenon DEF AtSource, TypeOK, JobType
  <1>2. CASE Starts(w)
    BY <1>0, <1>2, Zenon DEF Starts, Start, Finished, Acting, TypeOK
  <1>3. CASE Forgets(w)
    BY <1>0, <1>3, Cleared, Zenon DEF Finished, Acting
  <1>4. CASE Approaches(w)
    BY <1>4, Zenon DEF Approaches, ScanRoute, Finished, Acting
  <1>5. CASE Records(w)
    <2>1. PICK j \in RowId :
            /\ row'[w] = j
            /\ \/ ~Exists(j) /\ rows' = [rows EXCEPT ![j] = NewRow(w)] /\ ~KeyTaken(w)
               \/ /\ HasKey(j, "INBOX", job[w].addr)
                  /\ rows' = [rows EXCEPT ![j].status = StatusFor(w)]
      BY <1>5, Zenon DEF Records
    <2>2. HasKey(i, "INBOX", job[w].addr) /\ job[w].addr \in Nat
      BY <1>1, <1>5, Zenon DEF Records
    <2>3. i = j /\ rows' = [rows EXCEPT ![i].status = StatusFor(w)]
      BY <2>1, <2>2, Zenon DEF KeyTaken, KeyUnique
    <2>4. rows'[i].status = StatusFor(w)
      BY <1>0, <2>3, Zenon DEF TypeOK, RowType
    <2>5. Acts(w) /\ plan[w].dec \in {"quarantine", "delete"}
      BY <2>4, NewRowFields, Zenon DEF Claims
    <2>6. pc'[w] = "imap" /\ plan'[w] = plan[w]
      BY <1>5, <2>5, Zenon DEF Records
    <2> QED BY <2>5, <2>6, Zenon DEF Finished
  <1>6. CASE Touches(w)
    BY <1>0, <1>6, Zenon DEF Touches, Place, Expunge, TypeOK
  <1>7. CASE Retries(w)
    <2>1. AtSource(w) /\ plan'[w] = plan[w]
      BY <1>1, <1>7, Zenon DEF Retries, SameTask
    <2> QED BY <1>7, <2>1, Zenon DEF Retries, Finished, Acting
  <1>8. CASE Settles(w)
    <2>1. pc[w] = "revert"
      BY <1>8, Zenon DEF Settles, Finished
    <2>2. rows' = [rows EXCEPT ![row[w]].status = "INBOX"]
      BY <1>8, <2>1, Zenon DEF Settles
    <2>3. row[w] \in RowId /\ Exists(row[w]) /\ rows[row[w]].msg = job[w].msg
      BY <1>0, <2>1, Zenon DEF RowHeld, WithRow
    <2>4. HasKey(row[w], "INBOX", job[w].addr)
      BY <1>0, <2>1, <2>3, KeyAtSource, Zenon
    <2>5. row[w] = i
      BY <1>1, <2>1, <2>3, <2>4, Zenon DEF KeyUnique
    <2>6. rows'[i].status = "INBOX"
      BY <1>0, <2>2, <2>5, Zenon DEF TypeOK, RowType
    <2> QED BY <2>6, Zenon DEF Claims
  <1> QED BY <1>2, <1>3, <1>4, <1>5, <1>6, <1>7, <1>8, Zenon DEF Kind

\* Dispatch takes only what is not marked, and a mark comes after the worker is
\* done with the row.
LEMMA RetriedStep ==
    ASSUME IInv, KeyUnique, ScanRoute, Retried, [Next]_vars
    PROVE  Retried'
  <1> DEFINE K == {"db", "stop", "dup"}
  <1> SUFFICES ASSUME Unused(K)'
               PROVE  /\ ~stopping'
                      /\ \A v, w \in Worker :
                             Live(v)' /\ Live(w)' /\ job'[v].msg = job'[w].msg => v = w
                      /\ \A w \in Worker : Live(w)' => job'[w].msg \notin seen'
                      /\ \A i \in RowId : Claims(i)' /\ folder'[rows'[i].msg] = "INBOX" =>
                            /\ rows'[i].msg \notin seen'
                            /\ \A w \in Worker : Live(w)' /\ Finished(w)' => job'[w].msg # rows'[i].msg
    BY Zenon DEF Retried
  <1>0. TypeOK /\ Ledger /\ JobTruth /\ RowHeld /\ LeftBound /\ KeyTruthful
    BY Zenon DEF IInv
  <1>1. /\ Unused(K) /\ ~(left'["db"] < left["db"]) /\ ~(left'["stop"] < left["stop"])
        /\ ~(left'["dup"] < left["dup"])
    <2>1. K \in SUBSET FaultKind
      BY Zenon DEF FaultKind
    <2> QED BY <1>0, <2>1, UnusedBefore, Zenon
  <1>2. /\ ~stopping
        /\ \A v, w \in Worker : Live(v) /\ Live(w) /\ job[v].msg = job[w].msg => v = w
        /\ \A w \in Worker : Live(w) => job[w].msg \notin seen
        /\ \A i \in RowId : Claims(i) /\ folder[rows[i].msg] = "INBOX" =>
              /\ rows[i].msg \notin seen
              /\ \A w \in Worker : Live(w) /\ Finished(w) => job[w].msg # rows[i].msg
    BY <1>1, Zenon DEF Retried
  <1>3. ~stopping'
    BY <1>0, <1>1, <1>2, StopStep, Zenon
  <1>4. ASSUME NEW w \in Worker, Starts(w), Live(w)'
        PROVE  ~Working(job'[w].msg) /\ job'[w].msg \notin seen /\ pc'[w] = "slot"
    <2>1. PICK m \in Msg, l \in BOOLEAN :
            /\ Start(w, m, l)
            /\ IF l THEN m \notin seen /\ UNCHANGED backlog /\ (Working(m) => left'["dup"] < left["dup"])
                    ELSE m \in backlog
      BY <1>4, Zenon DEF Starts
    <2>2. job'[w] = [msg |-> m, addr |-> uid[m], live |-> l] /\ pc'[w] = "slot"
      BY <1>0, <2>1, Zenon DEF Start, TypeOK
    <2>3. job'[w].msg = m /\ l
      BY <1>4, <2>2 DEF Live
    <2> QED BY <1>1, <2>1, <2>2, <2>3, Zenon
  <1>5. ASSUME NEW w \in Worker, Live(w)'
        PROVE  \/ Live(w) /\ job'[w] = job[w]
               \/ Starts(w) /\ \A v \in Worker : v # w => UNCHANGED Own(v)
    BY <1>0, <1>5, JobStep, Zenon DEF Live
  <1>6. ASSUME NEW v \in Worker, NEW w \in Worker, Live(v)', Live(w)',
               job'[v].msg = job'[w].msg, v # w
        PROVE  FALSE
    <2>1. ASSUME NEW x \in Worker, NEW y \in Worker, x # y, Live(x)', Live(y)',
                 job'[x].msg = job'[y].msg, Starts(x),
                 \A z \in Worker : z # x => UNCHANGED Own(z)
          PROVE  FALSE
      <3>1. pc[y] # "idle" /\ job[y].msg = job'[x].msg
        BY <2>1, Zenon DEF Own, Live
      <3>2. ~Working(job'[x].msg)
        BY <1>4, <2>1, Zenon
      <3> QED BY <3>1, <3>2, Zenon DEF Working
    <2>2. Live(v) /\ job'[v] = job[v]
      BY <1>5, <1>6, <2>1, Zenon
    <2>3. Live(w) /\ job'[w] = job[w]
      BY <1>5, <1>6, <2>1, Zenon
    <2> QED BY <1>2, <1>6, <2>2, <2>3, Zenon
  <1>7. ASSUME NEW w \in Worker, Live(w)' PROVE job'[w].msg \notin seen'
    <2>1. job'[w].msg \notin seen
      BY <1>2, <1>4, <1>5, <1>7, Zenon
    <2>2. ASSUME NEW v \in Worker, Forgets(v), job[v].live PROVE job'[w].msg # job[v].msg
      <3>1. Live(v) /\ pc'[v] = "idle" /\ pc[v] = "returned"
        BY <1>0, <2>2, Cleared, Zenon DEF Forgets, Live
      <3>2. v # w
        BY <1>7, <3>1, Zenon DEF Live
      <3>3. Live(w) /\ job'[w] = job[w]
        BY <1>5, <1>7, <3>1, <3>2, Zenon DEF Own
      <3> QED BY <1>2, <3>1, <3>2, <3>3, Zenon
    <2> QED BY <2>1, <2>2, SeenStep
  <1>8. ASSUME NEW i \in RowId, Claims(i), Claims(i)', folder'[rows'[i].msg] = "INBOX"
        PROVE  /\ rows'[i].msg \notin seen'
               /\ \A w \in Worker : Live(w)' /\ Finished(w)' => job'[w].msg # rows'[i].msg
    <2>1. Exists(i) /\ rows'[i].msg = rows[i].msg /\ rows[i].msg \in Msg
      BY <1>0, <1>8, RowsStep, ZenonT(30) DEF Claims, TypeOK, RowType
    <2>2. folder[rows[i].msg] = "INBOX"
      <3>1. folder[rows[i].msg] # "unborn"
        BY <1>0, <2>1, Zenon DEF KeyTruthful, Ledger
      <3>2. ASSUME NEW w \in Worker, Touches(w), job[w].msg = rows[i].msg PROVE FALSE
        BY <1>0, <1>8, <2>1, <3>2, Zenon DEF Touches, Place, Expunge, TypeOK
      <3> QED BY <1>0, <1>8, <2>1, <3>1, <3>2, MessageStep, Zenon
    <2>3. /\ rows[i].msg \notin seen
          /\ \A w \in Worker : Live(w) /\ Finished(w) => job[w].msg # rows[i].msg
      BY <1>2, <1>8, <2>2, Zenon
    <2>4. rows[i].msg \notin seen'
      <3>1. ASSUME NEW v \in Worker, Forgets(v), job[v].live PROVE job[v].msg # rows[i].msg
        BY <2>3, <3>1, Zenon DEF Forgets, Live, Finished
      <3> QED BY <2>3, <3>1, SeenStep, Zenon
    <2>5. ASSUME NEW w \in Worker, Live(w)', Finished(w)', job'[w].msg = rows[i].msg
          PROVE  FALSE
      <3>1. ~(Starts(w) /\ pc'[w] = "slot")
        BY <2>5, Zenon DEF Finished, Acting
      <3>2. Live(w) /\ job'[w] = job[w]
        BY <1>4, <1>5, <2>5, <3>1, Zenon
      <3>3. ~Finished(w)
        BY <2>3, <2>5, <3>2, Zenon
      <3>4. ~UNCHANGED Own(w)
        BY <2>5, <3>3, Zenon DEF Own, Finished
      <3>5. Kind(w)
        BY <1>0, <2>5, <3>4, WorkerStep, Cleared, Zenon DEF Live
      <3> QED BY <1>1, <1>2, <1>8, <2>1, <2>2, <2>5, <3>2, <3>3, <3>5, FinishedStep, Zenon
    <2> QED BY <2>1, <2>4, <2>5, Zenon
  <1>9. ASSUME NEW i \in RowId, ~Claims(i), Claims(i)', folder'[rows'[i].msg] = "INBOX"
        PROVE  /\ rows'[i].msg \notin seen'
               /\ \A w \in Worker : Live(w)' /\ Finished(w)' => job'[w].msg # rows'[i].msg
    <2>1. PICK w \in Worker : Records(w) /\ OnDuty(w, i)'
      BY <1>0, <1>9, RowsStep, Zenon
    <2>2. pc'[w] \in Acting /\ row'[w] = i /\ plan'[w].dec \in {"quarantine", "delete"}
      BY <2>1, Zenon DEF OnDuty, Acting
    <2>3. Live(w)'
      <3>1. Acts(w) /\ job'[w] = job[w]
        BY <2>1, <2>2, Zenon DEF Records, Acting
      <3> QED BY <2>2, <3>1, Zenon DEF Acts, Live, Acting
    <2>4. rows'[i].msg = job'[w].msg
      <3>1. RowHeld'
        BY <1>0, RowHeldStep, Zenon
      <3> QED BY <2>2, <3>1, Zenon DEF RowHeld, WithRow, Acting
    <2>5. ~Finished(w)'
      BY <2>2, Zenon DEF Finished, Acting
    <2> QED BY <1>6, <1>7, <2>3, <2>4, <2>5, Zenon
  <1> QED BY <1>3, <1>6, <1>7, <1>8, <1>9, Zenon

\* A row that wrongly claims its message was dealt with is of a message still
\* unseen, where every message is parsed and scanned, unless a write failed, the
\* daemon was stopped or the message was dispatched twice. It holds through
\* crashes, lost replies and backfills. On the routes that end in a plain Create it
\* fails: the second attempt finds the row of the first, gives up and is marked.
THEOREM FalseClaimsRetried ==
    ASSUME Class \subseteq {"parses"}, Route \subseteq {"scan"}
    PROVE  Spec => []FalseClaimsAreRetried
  <1>1. Init => KeyUnique /\ ScanRoute /\ Retried
    <2> SUFFICES ASSUME Init PROVE KeyUnique /\ ScanRoute /\ Retried
      BY Zenon
    <2>1. \A i \in RowId : ~Exists(i)
      BY Zenon DEF Init, Exists, NoRow
    <2>2. \A w \in Worker : pc[w] = "idle"
      BY Zenon DEF Init
    <2> QED BY <2>1, <2>2, Zenon DEF Init, KeyUnique, HasKey, ScanRoute, Retried, Live, Claims
  <1>2. IInv /\ KeyUnique /\ ScanRoute /\ Retried /\ [Next]_vars
            => KeyUnique' /\ ScanRoute' /\ Retried'
    BY KeyUniqueStep, ScanRouteStep, RetriedStep, Zenon DEF IInv
  <1>3. Retried => FalseClaimsAreRetried
    BY Zenon DEF Retried, FalseClaimsAreRetried
  <1> QED BY <1>1, <1>2, <1>3, Invariance, PTL DEF Spec
==============================================================================
