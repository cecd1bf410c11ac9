--------------------------- MODULE Accounts_proofs ---------------------------
(***************************************************************************)
(* For any number of accounts, requests, scans and faults: the row, the    *)
(* registry entry and the listener of an account agree between requests    *)
(* that do not cross, every listener can be stopped, and main waits for    *)
(* the scans it knows of.                                                  *)
(***************************************************************************)
EXTENDS Accounts, TLAPS

\* The three places of an account hold one configuration, or none.
Agree(a) ==
    /\ row[a] = reg[a] /\ reg[a] = cancels[a]
    /\ row[a] # 0 => <<a, row[a]>> \in running

\* How far the request h has brought account a.
Halfway(h, a) ==
    /\ pc[h] = "add"     => row[a] = ver[h] /\ cancels[a] = 0
    /\ pc[h] = "write"   => Agree(a)
    /\ pc[h] = "replace" => row[a] = ver[h]
    /\ pc[h] = "restart" => row[a] = ver[h] /\ reg[a] = ver[h]
    /\ pc[h] = "start"   => row[a] = ver[h] /\ reg[a] = ver[h] /\ cancels[a] = 0
    /\ pc[h] = "stop"    => row[a] = 0
    /\ pc[h] = "remove"  => row[a] = 0 /\ cancels[a] = 0

\* An account is between requests and in order, or one request is on its way with it.
Tended(a) ==
    /\ OnAccount(a) = {} => Agree(a)
    /\ \A h \in OnAccount(a) : Halfway(h, a) /\ \A k \in OnAccount(a) : k = h

\* A configuration to be started is not the empty one; nobody works in a process that
\* is gone; and no listener runs once SIGTERM has come.
Orderly ==
    /\ version # 0
    /\ \A h \in Request : pc[h] \in {"add", "write", "replace", "restart", "start"} => ver[h] # 0
    /\ phase = "down" => \A h \in Request : pc[h] = "idle"
    /\ phase # "up" => running = {}

AllTended == phase = "up" /\ ~lost => \A a \in Account \ crossed : Tended(a)

\* What main did not wait for had not been added to pipelineWg.
NotWaitedFor == phase = "exit" /\ ~forced => spawned + busy <= slipped

IInv == TypeOK /\ Orderly /\ EveryListenerCanBeStopped /\ NotWaitedFor /\ AllTended

PC == {"idle", "add", "write", "replace", "restart", "start", "stop", "remove"}

------------------------------------------------------------------------------
(* Types.                                                                   *)

\* One fault less is left.
LEMMA SpendTyped ==
    ASSUME left \in [FaultKind -> Nat], NEW x \in FaultKind, Spend(x)
    PROVE  left' \in [FaultKind -> Nat]
  BY DEF Spend

\* Main has loaded the accounts of the YAML file, one listener for each.
LEMMA InitEstablishes == Init => IInv
  <1> SUFFICES ASSUME Init PROVE IInv OBVIOUS
  <1> USE AccountsAssumption
  <1>1. /\ row = [a \in Account |-> IF a \in Yaml THEN 1 ELSE 0] /\ reg = row /\ cancels = row
        /\ running = {<<a, 1>> : a \in Yaml}
    BY DEF Init, Migrated, None
  <1>2. 0 \in Version /\ 1 \in Version
    BY DEF Version
  <1>3. row \in [Account -> Version] /\ running \subseteq Account \X (Version \ {0})
    BY <1>1, <1>2
  <1>4. acc \in [Request -> Account] /\ ver \in [Request -> Version] /\ pc \in [Request -> PC]
    BY <1>2 DEF Init, PC
  <1>5. lost \in BOOLEAN /\ forced \in BOOLEAN /\ crossed \subseteq Account
    BY DEF Init
  <1>6. TypeOK
    BY <1>1, <1>2, <1>3, <1>4, <1>5 DEF Init, TypeOK, PC
  <1>7. Orderly /\ NotWaitedFor
    BY DEF Init, Orderly, NotWaitedFor
  <1>8. EveryListenerCanBeStopped
    BY <1>1 DEF EveryListenerCanBeStopped
  <1>9. \A a \in Account : Agree(a) /\ OnAccount(a) = {}
    BY <1>1 DEF Agree, OnAccount, Init
  <1>10. AllTended
    BY <1>9 DEF AllTended, Tended
  <1> QED BY <1>6, <1>7, <1>8, <1>10 DEF IInv

\* The steps of a request that is on its way keep the types.
LEMMA RequestTyped ==
    ASSUME TypeOK, Orderly, NEW h \in Request,
           \/ WriteRow(h) \/ WriteFails(h) \/ AddToRegistry(h) \/ StopForRestart(h) \/ Start(h)
           \/ StopForDelete(h) \/ Remove(h)
    PROVE  TypeOK'
  <1> USE AccountsAssumption
  <1>0. /\ row \in [Account -> Version] /\ reg \in [Account -> Version]
        /\ cancels \in [Account -> Version] /\ running \subseteq Account \X (Version \ {0})
        /\ pc \in [Request -> PC] /\ acc \in [Request -> Account] /\ ver \in [Request -> Version]
        /\ acc[h] \in Account /\ ver[h] \in Version /\ 0 \in Version
    BY DEF TypeOK, PC, Version
  <1>1. ASSUME NEW p, NEW q \in PC, At(h, p, q)
        PROVE  pc' \in [Request -> PC] /\ UNCHANGED <<version, acc, phase, spawned, busy, hist>>
    BY <1>0, <1>1 DEF At, scans
  <1>2. pc' \in [Request -> PC] /\ UNCHANGED <<version, acc, phase, spawned, busy, hist>>
    BY <1>1
    DEF WriteRow, WriteFails, AddToRegistry, StopForRestart, Start, StopForDelete, Remove, PC
  <1>3. ASSUME NEW a \in Account, Cancel(a)
        PROVE  cancels' \in [Account -> Version] /\ running' \subseteq Account \X (Version \ {0})
    BY <1>0, <1>3 DEF Cancel
  <1>4. /\ row' \in [Account -> Version] /\ reg' \in [Account -> Version] /\ ver' \in [Request -> Version]
        /\ cancels' \in [Account -> Version] /\ running' \subseteq Account \X (Version \ {0})
        /\ left' \in [FaultKind -> Nat]
    <2>0. left \in [FaultKind -> Nat] /\ "db" \in FaultKind
      BY DEF TypeOK, FaultKind
    <2>1. CASE WriteRow(h)
      BY <1>0, <2>0, <2>1 DEF WriteRow
    <2>2. CASE WriteFails(h)
      BY <1>0, <2>0, <2>2, SpendTyped DEF WriteFails, places
    <2>3. CASE AddToRegistry(h)
      BY <1>0, <2>0, <2>3 DEF AddToRegistry
    <2>4. CASE StopForRestart(h) \/ StopForDelete(h)
      BY <1>0, <1>3, <2>0, <2>4 DEF StopForRestart, StopForDelete
    <2>5. CASE Start(h)
      <3>1. ver[h] # 0 /\ ver' = [ver EXCEPT ![h] = 0] /\ UNCHANGED <<row, reg, left>>
        BY <2>5 DEF Start, At, Orderly
      <3>2. cancels' \in [Account -> Version]
        BY <1>0, <2>5 DEF Start
      <3>3. running' \subseteq running \cup {<<acc[h], ver[h]>>}
        BY <2>5 DEF Start
      <3> QED BY <1>0, <2>0, <3>1, <3>2, <3>3
    <2>6. CASE Remove(h)
      BY <1>0, <2>0, <2>6 DEF Remove
    <2> QED BY <2>1, <2>2, <2>3, <2>4, <2>5, <2>6
  <1> QED BY <1>2, <1>4 DEF TypeOK, PC, hist

\* So do the first steps of a request.
LEMMA EntryTyped ==
    ASSUME TypeOK, NEW h \in Request, NEW a \in Account,
           CreateRow(h, a) \/ ReadRow(h, a) \/ DeleteRow(h, a)
    PROVE  TypeOK'
  <1> USE AccountsAssumption
  <1>1. version' \in Version /\ left' = left /\ row' \in [Account -> Version]
    BY DEF TypeOK, CreateRow, ReadRow, DeleteRow, Version
  <1>2. PICK p \in PC, v \in Version : Enter(h, a, p, v)
    <2>1. version' \in Version /\ 0 \in Version
      BY <1>1 DEF Version
    <2>2. "add" \in PC /\ "write" \in PC /\ "stop" \in PC
      BY DEF PC
    <2> QED BY <2>1, <2>2, Zenon DEF CreateRow, ReadRow, DeleteRow
  <1>3. pc' \in [Request -> PC] /\ acc' \in [Request -> Account] /\ ver' \in [Request -> Version]
        /\ crossed' \subseteq Account
    BY <1>2 DEF TypeOK, Enter, PC
  <1> QED BY <1>1, <1>2, <1>3 DEF TypeOK, Enter, PC, scans

\* And the steps of scans and of main.
LEMMA MainTyped ==
    ASSUME TypeOK,
           \/ Dispatch \/ Begin \/ Finish \/ Terminate \/ Drain \/ Wait \/ TimeOut \/ Exit \/ Crash
           \/ Boot \/ UNCHANGED vars
    PROVE  TypeOK'
  <1> USE AccountsAssumption
  <1>0. left \in [FaultKind -> Nat] /\ "db" \in FaultKind /\ "stop" \in FaultKind /\ "crash" \in FaultKind
    BY DEF TypeOK, FaultKind
  <1>1. CASE Dispatch \/ Begin \/ Finish
    BY <1>1 DEF TypeOK, Dispatch, Begin, Finish, places, reqs, hist
  <1>2. CASE Terminate
    BY <1>0, <1>2, SpendTyped DEF TypeOK, Terminate, reqs, scans, hist
  <1>3. CASE Drain
    BY <1>3 DEF TypeOK, Drain, places, reqs, scans, hist
  <1>4. CASE Wait \/ TimeOut
    BY <1>4 DEF TypeOK, Wait, TimeOut, places, reqs, scans
  <1>5. CASE Exit \/ Crash
    <2>1. Gone /\ left' \in [FaultKind -> Nat]
      BY <1>0, <1>5, SpendTyped DEF Exit, Crash
    <2>2. reg' \in [Account -> Version] /\ cancels' \in [Account -> Version]
          /\ ver' \in [Request -> Version] /\ pc' \in [Request -> PC] /\ running' = {}
      BY <2>1 DEF Gone, None, Version, PC
    <2> QED BY <2>1, <2>2 DEF TypeOK, Gone, PC, hist
  <1>6. CASE Boot
    <2>1. row' \in [Account -> Version]
      BY <1>6 DEF TypeOK, Boot, Migrated, Version
    <2>2. reg' \in [Account -> Version] /\ cancels' = reg'
      BY <1>6, <2>1 DEF Boot, None, Version
    <2>3. running' \subseteq Account \X (Version \ {0})
      BY <1>6, <2>2 DEF Boot
    <2>4. left' \in [FaultKind -> Nat] /\ lost' \in BOOLEAN /\ forced' \in BOOLEAN /\ crossed' = {}
          /\ slipped' = 0 /\ phase' = "up"
      BY <1>0, <1>6, SpendTyped DEF Boot
    <2> QED BY <1>6, <2>1, <2>2, <2>3, <2>4 DEF TypeOK, Boot, reqs, scans
  <1>7. CASE UNCHANGED vars
    BY <1>7 DEF TypeOK, vars, places, reqs, scans, hist
  <1> QED BY <1>1, <1>2, <1>3, <1>4, <1>5, <1>6, <1>7

\* Every step keeps every variable in its type.
LEMMA StepTyped == ASSUME TypeOK, Orderly, [Next]_vars PROVE TypeOK'
  BY RequestTyped, EntryTyped, MainTyped DEF Next, Serve

------------------------------------------------------------------------------
(* Order, listeners and scans.                                              *)

\* Every step leaves requests, listeners and scans in order.
LEMMA StepOrderly ==
    ASSUME TypeOK, Orderly, EveryListenerCanBeStopped, NotWaitedFor, [Next]_vars
    PROVE  Orderly' /\ EveryListenerCanBeStopped' /\ NotWaitedFor'
  <1> DEFINE Goal == Orderly' /\ EveryListenerCanBeStopped' /\ NotWaitedFor'
  <1> USE AccountsAssumption
  <1>0. /\ cancels \in [Account -> Version] /\ running \subseteq Account \X (Version \ {0})
        /\ pc \in [Request -> PC] /\ acc \in [Request -> Account] /\ ver \in [Request -> Version]
        /\ phase \in {"up", "drain", "wait", "exit", "down"}
        /\ spawned \in Nat /\ busy \in Nat /\ slipped \in Nat /\ version \in Version
    BY DEF TypeOK, PC
  <1>1. ASSUME NEW h \in Request, NEW p, NEW q, At(h, p, q)
        PROVE  /\ pc[h] = p /\ pc' = [pc EXCEPT ![h] = q] /\ phase # "down"
               /\ UNCHANGED <<version, phase, spawned, busy, slipped, forced>>
    BY <1>1 DEF At, Alive, scans, hist
  <1>2. ASSUME NEW a \in Account, Cancel(a)
        PROVE  running' \subseteq running /\ \A p \in running' : cancels'[p[1]] = p[2]
    BY <1>0, <1>2 DEF Cancel, EveryListenerCanBeStopped
  <1>3. ASSUME NEW h \in Request, NEW a \in Account,
               CreateRow(h, a) \/ ReadRow(h, a) \/ DeleteRow(h, a)
        PROVE  Goal
    <2>1. /\ phase = "up" /\ \E q \in {"add", "write", "stop"} : pc' = [pc EXCEPT ![h] = q]
          /\ \/ pc' = [pc EXCEPT ![h] = "stop"] /\ ver' = [ver EXCEPT ![h] = 0] /\ version' = version
             \/ ver' = [ver EXCEPT ![h] = version + 1] /\ version' = version + 1
          /\ UNCHANGED <<cancels, running, phase, spawned, busy, slipped, forced>>
      BY <1>3 DEF CreateRow, ReadRow, DeleteRow, Enter, scans
    <2>2. Orderly'
      BY <1>0, <2>1 DEF Orderly, Version
    <2> QED BY <2>1, <2>2 DEF EveryListenerCanBeStopped, NotWaitedFor
  <1>4. ASSUME NEW h \in Request, WriteRow(h) \/ AddToRegistry(h) PROVE Goal
    <2>1. /\ \/ pc[h] = "write" /\ pc' = [pc EXCEPT ![h] = "replace"]
             \/ pc[h] = "add" /\ pc' = [pc EXCEPT ![h] = "start"]
             \/ pc[h] = "replace" /\ pc' = [pc EXCEPT ![h] = "restart"]
          /\ UNCHANGED <<version, phase, spawned, busy, slipped, forced, cancels, running, ver>>
          /\ phase # "down"
      BY <1>1, <1>4 DEF WriteRow, AddToRegistry
    <2>2. Orderly'
      BY <1>0, <2>1 DEF Orderly
    <2> QED BY <2>1, <2>2 DEF EveryListenerCanBeStopped, NotWaitedFor
  <1>5. ASSUME NEW h \in Request, WriteFails(h) \/ Remove(h) PROVE Goal
    <2>1. /\ pc' = [pc EXCEPT ![h] = "idle"] /\ (ver' = [ver EXCEPT ![h] = 0] \/ ver' = ver)
          /\ UNCHANGED <<version, phase, spawned, busy, slipped, forced, cancels, running>>
          /\ phase # "down"
      BY <1>1, <1>5 DEF WriteFails, Remove, places
    <2>2. Orderly'
      BY <1>0, <2>1 DEF Orderly
    <2> QED BY <2>1, <2>2 DEF EveryListenerCanBeStopped, NotWaitedFor
  <1>6. ASSUME NEW h \in Request, StopForRestart(h) \/ StopForDelete(h) PROVE Goal
    <2>1. /\ \/ pc[h] = "restart" /\ pc' = [pc EXCEPT ![h] = "start"]
             \/ pc[h] = "stop" /\ pc' = [pc EXCEPT ![h] = "remove"]
          /\ UNCHANGED <<version, phase, spawned, busy, slipped, forced, ver>>
          /\ phase # "down"
      BY <1>1, <1>6 DEF StopForRestart, StopForDelete
    <2>2. running' \subseteq running /\ \A p \in running' : cancels'[p[1]] = p[2]
      <3>1. acc[h] \in Account /\ Cancel(acc[h])
        BY <1>0, <1>6 DEF StopForRestart, StopForDelete
      <3> QED BY <1>2, <3>1
    <2>3. Orderly'
      BY <1>0, <2>1, <2>2 DEF Orderly
    <2> QED BY <2>1, <2>2, <2>3 DEF EveryListenerCanBeStopped, NotWaitedFor
  <1>7. ASSUME NEW h \in Request, Start(h) PROVE Goal
    <2>1. /\ pc[h] = "start" /\ pc' = [pc EXCEPT ![h] = "idle"] /\ ver' = [ver EXCEPT ![h] = 0]
          /\ UNCHANGED <<version, phase, spawned, busy, slipped, forced>> /\ phase # "down"
      BY <1>1, <1>7 DEF Start
    <2>2. \/ UNCHANGED <<cancels, running>>
          \/ /\ cancels[acc[h]] = 0 /\ cancels' = [cancels EXCEPT ![acc[h]] = ver[h]]
             /\ running' \subseteq running \cup {<<acc[h], ver[h]>>}
             /\ phase # "up" => running' = running
      BY <1>7 DEF Start
    <2>3. Orderly'
      BY <1>0, <2>1, <2>2 DEF Orderly
    <2>4. EveryListenerCanBeStopped'
      BY <1>0, <2>2 DEF EveryListenerCanBeStopped
    <2> QED BY <2>1, <2>3, <2>4 DEF NotWaitedFor
  <1>8. CASE Dispatch \/ Begin \/ Finish
    <2>1. UNCHANGED <<cancels, running, version, pc, ver, phase, slipped, forced>>
      BY <1>8 DEF Dispatch, Begin, Finish, places, reqs, hist
    <2>2. NotWaitedFor'
      BY <1>0, <1>8, <2>1 DEF Dispatch, Begin, Finish, NotWaitedFor, Orderly
    <2> QED BY <2>1, <2>2 DEF Orderly, EveryListenerCanBeStopped
  <1>9. CASE Terminate \/ Drain
    BY <1>0, <1>9
    DEF Terminate, Drain, Orderly, EveryListenerCanBeStopped, NotWaitedFor, places, reqs
  <1>10. CASE Wait \/ TimeOut
    BY <1>0, <1>10
    DEF Wait, TimeOut, Orderly, EveryListenerCanBeStopped, NotWaitedFor, places, reqs,
                       scans
  <1>11. CASE Exit \/ Crash
    BY <1>0, <1>11 DEF Exit, Crash, Gone, Orderly, EveryListenerCanBeStopped, NotWaitedFor
  <1>12. CASE Boot
    <2>1. phase = "down" /\ phase' = "up" /\ cancels' = reg' /\ UNCHANGED <<version, pc, ver>>
          /\ running' = {<<a, reg'[a]>> : a \in {b \in Account : reg'[b] # 0}}
      BY <1>12 DEF Boot, reqs
    <2> QED BY <2>1 DEF Orderly, EveryListenerCanBeStopped, NotWaitedFor
  <1>13. CASE UNCHANGED vars
    BY <1>13 DEF vars, places, reqs, scans, hist, Orderly, EveryListenerCanBeStopped, NotWaitedFor
  <1> QED BY <1>3, <1>4, <1>5, <1>6, <1>7, <1>8, <1>9, <1>10, <1>11, <1>12, <1>13 DEF Next, Serve

------------------------------------------------------------------------------
(* The three places.                                                        *)

\* A step that does not touch an account leaves it tended.
LEMMA Untouched ==
    ASSUME NEW a \in Account, Tended(a), OnAccount(a)' = OnAccount(a),
           \A h \in OnAccount(a) : pc'[h] = pc[h] /\ ver'[h] = ver[h],
           row'[a] = row[a], reg'[a] = reg[a], cancels'[a] = cancels[a],
           \A v : <<a, v>> \in running => <<a, v>> \in running'
    PROVE  Tended(a)'
  <1>1. Agree(a) => Agree(a)'
    BY DEF Agree
  <1>2. \A h \in OnAccount(a) : Halfway(h, a) => Halfway(h, a)'
    BY <1>1 DEF Halfway
  <1> QED BY <1>1, <1>2 DEF Tended

\* A request that starts: the accounts it is not about, and the one it is.
LEMMA EntryTended ==
    ASSUME TypeOK, AllTended, NEW h \in Request, NEW b \in Account,
           CreateRow(h, b) \/ ReadRow(h, b) \/ DeleteRow(h, b)
    PROVE  AllTended'
  <1>0. /\ row \in [Account -> Version] /\ pc \in [Request -> PC] /\ acc \in [Request -> Account]
        /\ ver \in [Request -> Version]
    BY DEF TypeOK, PC
  <1>1. /\ phase = "up" /\ pc[h] = "idle" /\ acc' = [acc EXCEPT ![h] = b]
        /\ crossed' = crossed \cup {x \in {b} : OnAccount(b) # {}}
        /\ UNCHANGED <<reg, cancels, running, phase, lost>>
    BY DEF CreateRow, ReadRow, DeleteRow, Enter
  <1>2. \/ /\ row[b] = 0 /\ row' = [row EXCEPT ![b] = version'] /\ pc' = [pc EXCEPT ![h] = "add"]
           /\ ver' = [ver EXCEPT ![h] = version']
        \/ row' = row /\ pc' = [pc EXCEPT ![h] = "write"] /\ ver' = [ver EXCEPT ![h] = version']
        \/ /\ row' = [row EXCEPT ![b] = 0] /\ pc' = [pc EXCEPT ![h] = "stop"]
           /\ ver' = [ver EXCEPT ![h] = 0]
    BY DEF CreateRow, ReadRow, DeleteRow, Enter
  <1> SUFFICES ASSUME ~lost, NEW a \in Account \ crossed' PROVE Tended(a)'
    BY <1>1 DEF AllTended
  <1>3. Tended(a)
    BY <1>1 DEF AllTended
  <1>4. CASE a # b
    <2>1. OnAccount(a)' = OnAccount(a) /\ h \notin OnAccount(a)
      BY <1>0, <1>1, <1>2, <1>4 DEF OnAccount
    <2>2. \A k \in OnAccount(a) : pc'[k] = pc[k] /\ ver'[k] = ver[k]
      BY <1>0, <1>2, <2>1 DEF OnAccount
    <2>3. row'[a] = row[a]
      BY <1>0, <1>2, <1>4
    <2> QED BY <1>1, <1>3, <2>1, <2>2, <2>3, Untouched
  <1>5. CASE a = b
    <2>1. OnAccount(a) = {} /\ Agree(a)
      BY <1>1, <1>3, <1>5 DEF Tended
    <2>2. OnAccount(a)' = {h}
      BY <1>0, <1>1, <1>2, <1>5, <2>1 DEF OnAccount, PC
    <2>3. Halfway(h, a)'
      BY <1>0, <1>1, <1>2, <1>5, <2>1 DEF Halfway, Agree, PC
    <2> QED BY <2>2, <2>3 DEF Tended
  <1> QED BY <1>4, <1>5

\* A request that goes on: the same.
LEMMA RequestTended ==
    ASSUME TypeOK, Orderly, AllTended, NEW h \in Request,
           \/ WriteRow(h) \/ WriteFails(h) \/ AddToRegistry(h) \/ StopForRestart(h) \/ Start(h)
           \/ StopForDelete(h) \/ Remove(h)
    PROVE  AllTended'
  <1>0. /\ row \in [Account -> Version] /\ reg \in [Account -> Version]
        /\ cancels \in [Account -> Version]
        /\ pc \in [Request -> PC] /\ acc \in [Request -> Account] /\ ver \in [Request -> Version]
    BY DEF TypeOK, PC
  <1> PICK b \in Account : b = acc[h]
    BY <1>0
  <1>1. ASSUME NEW p \in PC \ {"idle"}, NEW q \in PC, At(h, p, q)
        PROVE  /\ pc[h] = p /\ pc' = [pc EXCEPT ![h] = q]
               /\ UNCHANGED <<acc, phase, crossed, lost>>
    BY <1>1 DEF At, hist
  <1>2. /\ pc[h] # "idle" /\ \E q \in PC : pc' = [pc EXCEPT ![h] = q]
        /\ UNCHANGED <<acc, phase, crossed, lost>>
    <2>0. ASSUME NEW p \in PC \ {"idle"}, NEW q \in PC, At(h, p, q)
          PROVE  /\ pc[h] # "idle" /\ \E r \in PC : pc' = [pc EXCEPT ![h] = r]
                 /\ UNCHANGED <<acc, phase, crossed, lost>>
      BY <1>1, <2>0
    <2>1. CASE WriteRow(h)
      <3>1. At(h, "write", "replace")
        BY <2>1 DEF WriteRow
      <3> QED BY <2>0, <3>1 DEF PC
    <2>2. CASE WriteFails(h)
      <3>1. At(h, "write", "idle")
        BY <2>2 DEF WriteFails
      <3> QED BY <2>0, <3>1 DEF PC
    <2>3. CASE AddToRegistry(h)
      <3>1. At(h, "add", "start") \/ At(h, "replace", "restart")
        BY <2>3 DEF AddToRegistry
      <3> QED BY <2>0, <3>1 DEF PC
    <2>4. CASE StopForRestart(h)
      <3>1. At(h, "restart", "start")
        BY <2>4 DEF StopForRestart
      <3> QED BY <2>0, <3>1 DEF PC
    <2>5. CASE Start(h)
      <3>1. At(h, "start", "idle")
        BY <2>5 DEF Start
      <3> QED BY <2>0, <3>1 DEF PC
    <2>6. CASE StopForDelete(h)
      <3>1. At(h, "stop", "remove")
        BY <2>6 DEF StopForDelete
      <3> QED BY <2>0, <3>1 DEF PC
    <2>7. CASE Remove(h)
      <3>1. At(h, "remove", "idle")
        BY <2>7 DEF Remove
      <3> QED BY <2>0, <3>1 DEF PC
    <2> QED BY <2>1, <2>2, <2>3, <2>4, <2>5, <2>6, <2>7
  <1> SUFFICES ASSUME phase = "up", ~lost, NEW a \in Account \ crossed PROVE Tended(a)'
    BY <1>2 DEF AllTended
  <1>3. Tended(a)
    BY DEF AllTended
  <1>4. CASE a # b
    <2>1. OnAccount(a)' = OnAccount(a) /\ h \notin OnAccount(a)
      BY <1>0, <1>2, <1>4 DEF OnAccount
    <2>2. \A k \in OnAccount(a) : pc'[k] = pc[k]
      BY <1>0, <1>2, <2>1 DEF OnAccount
    <2>3. \A k \in OnAccount(a) : ver'[k] = ver[k]
      BY <1>0, <2>1 DEF OnAccount, WriteRow, WriteFails, AddToRegistry, StopForRestart, Start,
                        StopForDelete, Remove
    <2>4. row'[a] = row[a] /\ reg'[a] = reg[a]
      BY <1>0, <1>4 DEF WriteRow, WriteFails, AddToRegistry, StopForRestart, Start, StopForDelete,
                        Remove, places
    <2>5. cancels'[a] = cancels[a] /\ \A v : <<a, v>> \in running => <<a, v>> \in running'
      BY <1>0, <1>4 DEF WriteRow, WriteFails, AddToRegistry, StopForRestart, Start, StopForDelete,
                        Remove, Cancel, places
    <2> QED BY <1>3, <2>1, <2>2, <2>3, <2>4, <2>5, Untouched
  <1>5. CASE a = b
    <2>0. h \in OnAccount(a) /\ OnAccount(a) = {h} /\ Halfway(h, a)
      BY <1>2, <1>3, <1>5 DEF OnAccount, Tended
    <2>1. pc'[h] = "idle" => OnAccount(a)' = {}
      BY <1>0, <1>2, <2>0 DEF OnAccount
    <2>2. pc'[h] # "idle" => OnAccount(a)' = {h}
      BY <1>0, <1>2, <2>0 DEF OnAccount
    <2>3. CASE WriteRow(h)
      <3>1. pc[h] = "write" /\ pc'[h] = "replace" /\ row'[a] = ver'[h]
        BY <1>0, <1>1, <1>5, <2>3 DEF WriteRow, PC
      <3> QED BY <2>2, <3>1 DEF Tended, Halfway
    <2>4. CASE WriteFails(h)
      <3>1. pc[h] = "write" /\ pc'[h] = "idle" /\ UNCHANGED <<row, reg, cancels, running>>
        BY <1>0, <1>1, <2>4 DEF WriteFails, places, PC
      <3>2. Agree(a)'
        BY <2>0, <3>1 DEF Halfway, Agree
      <3> QED BY <2>1, <3>1, <3>2 DEF Tended
    <2>5. CASE AddToRegistry(h)
      <3>1. reg'[a] = ver[h] /\ UNCHANGED <<row, cancels, ver>>
        BY <1>0, <1>5, <2>5 DEF AddToRegistry
      <3>2. CASE At(h, "add", "start")
        <4>1. pc[h] = "add" /\ pc'[h] = "start"
          BY <1>0, <1>1, <3>2 DEF PC
        <4> QED BY <2>0, <2>2, <3>1, <4>1 DEF Tended, Halfway
      <3>3. CASE At(h, "replace", "restart")
        <4>1. pc[h] = "replace" /\ pc'[h] = "restart"
          BY <1>0, <1>1, <3>3 DEF PC
        <4> QED BY <2>0, <2>2, <3>1, <4>1 DEF Tended, Halfway
      <3> QED BY <2>5, <3>2, <3>3 DEF AddToRegistry
    <2>6. CASE StopForRestart(h)
      <3>1. pc[h] = "restart" /\ pc'[h] = "start" /\ cancels'[a] = 0 /\ UNCHANGED <<row, reg, ver>>
        BY <1>0, <1>1, <1>5, <2>6 DEF StopForRestart, Cancel, PC
      <3> QED BY <2>0, <2>2, <3>1 DEF Tended, Halfway
    <2>7. CASE StopForDelete(h)
      <3>1. pc[h] = "stop" /\ pc'[h] = "remove" /\ cancels'[a] = 0 /\ UNCHANGED <<row, reg, ver>>
        BY <1>0, <1>1, <1>5, <2>7 DEF StopForDelete, Cancel, PC
      <3> QED BY <2>0, <2>2, <3>1 DEF Tended, Halfway
    <2>8. CASE Start(h)
      <3>1. pc[h] = "start" /\ pc'[h] = "idle" /\ UNCHANGED <<row, reg>>
        BY <1>0, <1>1, <2>8 DEF Start, PC
      <3>2. row[a] = ver[h] /\ reg[a] = ver[h] /\ cancels[a] = 0
        BY <2>0, <3>1 DEF Halfway
      <3>3. cancels'[a] = ver[h] /\ <<a, ver[h]>> \in running'
        <4>1. cancels[acc[h]] = 0
          BY <1>5, <3>2
        <4>2. /\ cancels' = [cancels EXCEPT ![acc[h]] = ver[h]]
              /\ running' = running \cup {<<acc[h], ver[h]>> : x \in {phase} \cap {"up"}}
          BY <2>8, <4>1 DEF Start
        <4>3. cancels'[a] = ver[h]
          BY <1>0, <1>5, <4>2
        <4>4. <<acc[h], ver[h]>> \in running'
          BY <4>2
        <4> QED BY <1>5, <4>3, <4>4
      <3>4. Agree(a)'
        BY <3>1, <3>2, <3>3 DEF Agree
      <3> QED BY <2>1, <3>1, <3>4 DEF Tended
    <2>9. CASE Remove(h)
      <3>1. pc[h] = "remove" /\ pc'[h] = "idle" /\ reg'[a] = 0 /\ UNCHANGED <<row, cancels>>
        BY <1>0, <1>1, <1>5, <2>9 DEF Remove, PC
      <3>2. Agree(a)'
        BY <2>0, <3>1 DEF Halfway, Agree
      <3> QED BY <2>1, <3>1, <3>2 DEF Tended
    <2> QED BY <2>3, <2>4, <2>5, <2>6, <2>7, <2>8, <2>9
  <1> QED BY <1>4, <1>5

\* Every step leaves the accounts tended.
LEMMA StepTended == ASSUME TypeOK, Orderly, AllTended, [Next]_vars PROVE AllTended'
  <1>1. CASE UNCHANGED <<row, reg, cancels, running, pc, acc, ver, phase, crossed, lost>>
    <2> SUFFICES ASSUME phase = "up", ~lost, NEW a \in Account \ crossed PROVE Tended(a)'
      BY <1>1 DEF AllTended
    <2>1. Tended(a)
      BY DEF AllTended
    <2>2. OnAccount(a)' = OnAccount(a)
      BY <1>1 DEF OnAccount
    <2> QED BY <1>1, <2>1, <2>2, Untouched
  <1>2. CASE Dispatch \/ Begin \/ Finish \/ UNCHANGED vars
    BY <1>1, <1>2 DEF Dispatch, Begin, Finish, vars, places, reqs, hist
  <1>3. CASE Terminate \/ Drain \/ Wait \/ TimeOut \/ Exit \/ Crash
    BY <1>3 DEF AllTended, Terminate, Drain, Wait, TimeOut, Exit, Crash, Gone
  <1>4. CASE Boot
    <2> SUFFICES ASSUME ~lost', NEW a \in Account PROVE Tended(a)'
      BY DEF AllTended
    <2>1. /\ reg' = row' /\ cancels' = reg'
          /\ running' = {<<x, reg'[x]>> : x \in {y \in Account : reg'[y] # 0}}
          /\ phase = "down" /\ UNCHANGED <<pc, acc, ver>>
      BY <1>4 DEF Boot, reqs
    <2>2. Agree(a)' /\ OnAccount(a)' = {}
      BY <2>1 DEF Agree, OnAccount, Orderly
    <2> QED BY <2>2 DEF Tended
  <1> QED BY <1>2, <1>3, <1>4, EntryTended, RequestTended DEF Next, Serve

------------------------------------------------------------------------------
(* Theorems.                                                                *)

\* Every state satisfies the inductive invariant.
LEMMA Invariance == Spec => []IInv
  <1>1. IInv /\ [Next]_vars => IInv'
    BY StepTyped, StepOrderly, StepTended DEF IInv
  <1> QED BY InitEstablishes, <1>1, PTL DEF Spec

\* Rows, registry, manager, requests and counters keep their types.
THEOREM TypeCorrect == Spec => []TypeOK
  BY Invariance, PTL DEF IInv

\* However requests cross, the manager holds the cancel function of every listener
\* that runs (Manager.Start, Stop and Restart).
THEOREM Stoppable == Spec => []EveryListenerCanBeStopped
  BY Invariance, PTL DEF IInv

\* An account on which no two requests have crossed is the same in the database, the
\* registry and the manager whenever no request is working on it.
THEOREM PlacesStayTogether == Spec => []PlacesAgree
  <1>1. IInv => PlacesAgree
    BY DEF IInv, AllTended, Tended, Agree, PlacesAgree
  <1> QED BY Invariance, <1>1, PTL

\* When main exits without its timeout, the scans that run are among those that had
\* not been added to pipelineWg when its Wait returned.
THEOREM WaitedFor == Spec => []ScansAreWaitedFor
  <1>1. IInv => ScansAreWaitedFor
    BY DEF IInv, NotWaitedFor, TypeOK, ScansAreWaitedFor
  <1> QED BY Invariance, <1>1, PTL
==============================================================================
