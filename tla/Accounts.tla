------------------------------ MODULE Accounts ------------------------------
(***************************************************************************)
(* The mail accounts of a running daemon. Each lives in three places: its  *)
(* row in SQLite, the registry that the console's actions and rescans use  *)
(* (web/handlers/registry.go), and the listener that the manager started   *)
(* (imap/manager.go). The settings page creates, updates and deletes it    *)
(* one place after the other; start-up fills all three (main.go); shutdown *)
(* stops the listeners and waits for the scans they have dispatched.       *)
(*                                                                         *)
(* A configuration is a version number: 0 is none, 1 the one in the YAML   *)
(* file, and every request that writes one has its own.                    *)
(***************************************************************************)
EXTENDS Naturals, FiniteSets

CONSTANTS
    Account,
    Yaml,           \* the accounts of config.yaml
    Request,        \* requests of the settings page in progress at one time
    MaxVersion,     \* bound on the configurations written
    MaxScans,       \* bound on scans dispatched and not finished
    Faults          \* how often each kind of fault may strike

\* db: a statement fails   crash: the process dies   stop: an orderly shutdown
FaultKind == {"db", "crash", "stop"}

ASSUME AccountsAssumption ==
    /\ Account # {} /\ Yaml \subseteq Account
    /\ MaxVersion \in Nat \ {0} /\ MaxScans \in Nat
    /\ Faults \in [FaultKind -> Nat]

VARIABLES
    row,            \* row[a]: the configuration in the table Account
    reg,            \* AccountRegistry: the one of the actions and the processor
    cancels,        \* Manager.cancels: the one of the listener it can stop
    running,        \* <<a, v>>: a listener and a recovery run that are not cancelled
    version,        \* the last configuration given out
    pc, acc, ver,   \* each request: where it is, on which account, with which configuration
    phase,          \* main: "up", then the stages of shutdown, then "down"
    spawned, busy,  \* scans dispatched: not yet in pipelineWg, in pipelineWg
    left,
    crossed,        \* history: accounts two requests worked on at the same time
    lost,           \* history: since start, the accounts could not be read
    forced,         \* history: the exit did not wait any longer
    slipped         \* history: scans not in pipelineWg when its Wait was over

places == <<row, reg, cancels, running>>
reqs   == <<version, pc, acc, ver>>
scans  == <<spawned, busy>>
hist   == <<crossed, lost, forced, slipped>>
vars   == <<places, reqs, phase, scans, left, hist>>

Spend(x) == left[x] > 0 /\ left' = [left EXCEPT ![x] = @ - 1]
Unused(K) == \A x \in K : left[x] = Faults[x]

None == [a \in Account |-> 0]

\* migrateAccountsToDB saves the accounts of the YAML file over their rows.
Migrated(r) == [a \in Account |-> IF a \in Yaml THEN 1 ELSE r[a]]

Init ==
    /\ row = Migrated(None) /\ reg = row /\ cancels = row
    /\ running = {<<a, 1>> : a \in Yaml}
    /\ version = 1
    /\ pc = [h \in Request |-> "idle"]
    /\ acc = [h \in Request |-> CHOOSE a \in Account : TRUE]
    /\ ver = [h \in Request |-> 0]
    /\ phase = "up" /\ spawned = 0 /\ busy = 0
    /\ left = Faults
    /\ crossed = {} /\ lost = FALSE /\ forced = FALSE /\ slipped = 0

------------------------------------------------------------------------------
(* CreateAccount, UpdateAccount, DeleteAccount.                             *)

OnAccount(a) == {h \in Request : pc[h] # "idle" /\ acc[h] = a}

\* A request on account a gets as far as its first write.
Enter(h, a, where, v) ==
    /\ phase = "up" /\ pc[h] = "idle"
    /\ pc' = [pc EXCEPT ![h] = where]
    /\ acc' = [acc EXCEPT ![h] = a]
    /\ ver' = [ver EXCEPT ![h] = v]
    /\ crossed' = crossed \cup {b \in {a} : OnAccount(a) # {}}
    /\ UNCHANGED <<reg, cancels, running, phase, scans, lost, forced, slipped>>

\* tx.Create: a name that exists is refused.
CreateRow(h, a) ==
    /\ version < MaxVersion /\ version' = version + 1
    /\ row[a] = 0
    /\ row' = [row EXCEPT ![a] = version']
    /\ Enter(h, a, "add", version')
    /\ UNCHANGED left

\* First, and the fields of the request are laid over it.
ReadRow(h, a) ==
    /\ version < MaxVersion /\ version' = version + 1
    /\ row[a] # 0
    /\ Enter(h, a, "write", version')
    /\ UNCHANGED <<row, left>>

DeleteRow(h, a) ==
    /\ row' = [row EXCEPT ![a] = 0]
    /\ Enter(h, a, "stop", 0)
    /\ UNCHANGED <<version, left>>

\* The steps of a request after its first write, while the process lives.
Alive == phase # "down"

At(h, from, to) ==
    /\ Alive /\ pc[h] = from
    /\ pc' = [pc EXCEPT ![h] = to]
    /\ UNCHANGED <<version, acc, phase, scans, hist>>

\* tx.Save inserts the row if it is not there any more.
WriteRow(h) ==
    /\ At(h, "write", "replace")
    /\ row' = [row EXCEPT ![acc[h]] = ver[h]]
    /\ UNCHANGED <<reg, cancels, running, ver, left>>

WriteFails(h) ==
    /\ At(h, "write", "idle") /\ Spend("db")
    /\ ver' = [ver EXCEPT ![h] = 0]
    /\ UNCHANGED places

M_AddToRegistry_OnlyNew(h) ==
    /\ \/ At(h, "add", "start") /\ reg' = [reg EXCEPT ![acc[h]] = ver[h]]
       \/ At(h, "replace", "restart") /\ UNCHANGED reg
    /\ UNCHANGED <<row, cancels, running, ver, left>>

\* makeOnEmail, evaluated before Start or Restart is called.
AddToRegistry(h) ==
    /\ At(h, "add", "start") \/ At(h, "replace", "restart")
    /\ reg' = [reg EXCEPT ![acc[h]] = ver[h]]
    /\ UNCHANGED <<row, cancels, running, ver, left>>

M_Cancel_Forgets(a) ==
    /\ cancels' = [cancels EXCEPT ![a] = 0]
    /\ UNCHANGED running

\* Manager.Stop.
Cancel(a) ==
    /\ cancels' = [cancels EXCEPT ![a] = 0]
    /\ running' = running \ {<<a, cancels[a]>>}

StopForRestart(h) ==
    /\ At(h, "restart", "start")
    /\ Cancel(acc[h])
    /\ UNCHANGED <<row, reg, ver, left>>

\* Manager.Start fails if there is a listener. After SIGTERM the context of the
\* manager is cancelled, and so is the listener's.
Start(h) ==
    /\ At(h, "start", "idle")
    /\ ver' = [ver EXCEPT ![h] = 0]
    /\ IF cancels[acc[h]] = 0
       THEN /\ cancels' = [cancels EXCEPT ![acc[h]] = ver[h]]
            /\ running' = running \cup {<<acc[h], ver[h]>> : x \in {phase} \cap {"up"}}
       ELSE UNCHANGED <<cancels, running>>
    /\ UNCHANGED <<row, reg, left>>

StopForDelete(h) ==
    /\ At(h, "stop", "remove")
    /\ Cancel(acc[h])
    /\ UNCHANGED <<row, reg, ver, left>>

Remove(h) ==
    /\ At(h, "remove", "idle")
    /\ reg' = [reg EXCEPT ![acc[h]] = 0]
    /\ UNCHANGED <<row, cancels, running, ver, left>>

------------------------------------------------------------------------------
(* Scans, shutdown, start.                                                  *)

\* The listener starts a goroutine for the message; there, OnEmailFn adds the
\* scan to pipelineWg.
Dispatch ==
    /\ running # {} /\ spawned + busy < MaxScans
    /\ spawned' = spawned + 1
    /\ UNCHANGED <<places, reqs, phase, busy, left, hist>>

Begin ==
    /\ Alive /\ spawned > 0
    /\ spawned' = spawned - 1 /\ busy' = busy + 1
    /\ UNCHANGED <<places, reqs, phase, left, hist>>

Finish ==
    /\ Alive /\ busy > 0
    /\ busy' = busy - 1
    /\ UNCHANGED <<places, reqs, phase, spawned, left, hist>>

\* SIGTERM cancels the context of every listener.
Terminate ==
    /\ phase = "up" /\ Spend("stop")
    /\ phase' = "drain" /\ running' = {}
    /\ UNCHANGED <<row, reg, cancels, reqs, scans, hist>>

\* srv.Shutdown returns when the requests are done, or after ten seconds.
Drain ==
    /\ phase = "drain" /\ phase' = "wait"
    /\ UNCHANGED <<places, reqs, scans, left, hist>>

M_Wait_Skipped ==
    /\ phase = "wait" /\ phase' = "exit"
    /\ slipped' = spawned
    /\ UNCHANGED <<places, reqs, scans, left, crossed, lost, forced>>

\* pipelineWg.Wait.
Wait ==
    /\ phase = "wait" /\ busy = 0
    /\ phase' = "exit"
    /\ slipped' = spawned
    /\ UNCHANGED <<places, reqs, scans, left, crossed, lost, forced>>

M_TimeOut_Never ==
    /\ phase \in {"drain", "wait"} /\ busy = 0
    /\ phase' = "exit" /\ forced' = TRUE
    /\ UNCHANGED <<places, reqs, scans, left, crossed, lost, slipped>>

\* main waits for thirty seconds at most.
TimeOut ==
    /\ phase \in {"drain", "wait"}
    /\ phase' = "exit" /\ forced' = TRUE
    /\ UNCHANGED <<places, reqs, scans, left, crossed, lost, slipped>>

\* The process is gone with all its memory, and the database is closed.
Gone ==
    /\ phase' = "down"
    /\ reg' = None /\ cancels' = None /\ running' = {}
    /\ pc' = [h \in Request |-> "idle"] /\ ver' = [h \in Request |-> 0]
    /\ spawned' = 0 /\ busy' = 0
    /\ UNCHANGED <<row, version, acc, hist>>

Exit == phase = "exit" /\ Gone /\ UNCHANGED left

Crash == phase = "up" /\ Spend("crash") /\ Gone

\* Accounts are loaded before the first request; if they cannot be read there is
\* a warning and none of them.
Boot ==
    /\ phase = "down" /\ phase' = "up"
    /\ row' = Migrated(row)
    /\ crossed' = {} /\ forced' = FALSE /\ slipped' = 0
    /\ \/ reg' = row' /\ lost' = FALSE /\ UNCHANGED left
       \/ reg' = None /\ lost' = TRUE /\ Spend("db")
    /\ cancels' = reg'
    /\ running' = {<<a, reg'[a]>> : a \in {b \in Account : reg'[b] # 0}}
    /\ UNCHANGED <<reqs, scans>>

Serve(h) ==
    \/ \E a \in Account : CreateRow(h, a) \/ ReadRow(h, a) \/ DeleteRow(h, a)
    \/ WriteRow(h) \/ WriteFails(h) \/ AddToRegistry(h) \/ StopForRestart(h) \/ Start(h)
    \/ StopForDelete(h) \/ Remove(h)

Next ==
    \/ \E h \in Request : Serve(h)
    \/ Dispatch \/ Begin \/ Finish
    \/ Terminate \/ Drain \/ Wait \/ TimeOut \/ Exit \/ Crash \/ Boot

Spec == Init /\ [][Next]_vars

\* Of shutdown only main's own steps and its timer are sure to happen: a scan
\* may hang.
FairSpec == Spec /\ WF_vars(Drain) /\ WF_vars(TimeOut) /\ WF_vars(Exit)

------------------------------------------------------------------------------
(* Properties.                                                              *)

Version == 0..MaxVersion

\* Every variable stays in its type.
TypeOK ==
    /\ row \in [Account -> Version] /\ reg \in [Account -> Version]
    /\ cancels \in [Account -> Version]
    /\ running \subseteq Account \X (Version \ {0})
    /\ version \in Version
    /\ pc \in [Request -> {"idle", "add", "write", "replace", "restart", "start", "stop", "remove"}]
    /\ acc \in [Request -> Account] /\ ver \in [Request -> Version]
    /\ phase \in {"up", "drain", "wait", "exit", "down"}
    /\ spawned \in Nat /\ busy \in Nat /\ slipped \in Nat
    /\ left \in [FaultKind -> Nat]
    /\ crossed \subseteq Account /\ lost \in BOOLEAN /\ forced \in BOOLEAN

\* Whatever requests cross, an account has one listener at most, and it is the one
\* that the manager can stop: no listener is left running with its cancel
\* function overwritten.
EveryListenerCanBeStopped ==
    \A p \in running : cancels[p[1]] = p[2]

\* registry.go:7 "populated at startup and updated atomically whenever an account
\* is created, updated, or deleted": between requests on an account, its row, its
\* entry in the registry and its listener are of the same configuration, or there
\* is none of them. Requests that cross on one account break this until the next
\* start, and so does a start that could not read the accounts.
PlacesAgree ==
    phase = "up" /\ ~lost =>
        \A a \in Account \ crossed :
            OnAccount(a) = {} => row[a] = reg[a] /\ reg[a] = cancels[a]
                                 /\ (row[a] # 0 => <<a, row[a]>> \in running)

\* main.go:457 "wait for all in-flight p.Process() pipeline goroutines to finish
\* writing their scan records before sqlDB.Close() fires": when main exits and
\* has not timed out, no scan is running but those whose goroutine had yet to
\* add itself to pipelineWg when Wait returned.
ScansAreWaitedFor ==
    phase = "exit" /\ ~forced => busy <= slipped

\* A shutdown ends, even if a scan never does.
ShutdownEnds == phase = "drain" ~> phase = "down"
==============================================================================
