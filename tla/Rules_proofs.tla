----------------------------- MODULE Rules_proofs -----------------------------
(***************************************************************************)
(* For any number of scans, requests and parts, and any timeout and delay: *)
(* the rule set in force is alive, and a rule set is not destroyed under a *)
(* scan whose ScanMem calls fit in the delay. What makes the second one    *)
(* inductive is an account of time: as long as a scan holds a rule set     *)
(* that has been replaced, the ticks left to its destruction and the time  *)
(* its parts may have taken add up to the delay and more.                  *)
(***************************************************************************)
EXTENDS Rules, TLAPS

Replaced == dying \cup gone

Account ==
    /\ \A r \in gone : due[r] = 0
    /\ \A s \in Scan :
          part[s] > 0 /\ using[s] \in Replaced
             => due[using[s]] + part[s] * ScanTimeout >= DestroyDelay + timer[s]

IInv == TypeOK /\ CurrentIsAlive /\ Account

\* One more part takes one more timeout.
LEMMA OneMorePart == ASSUME NEW k \in Nat, NEW t \in Nat PROVE (k + 1) * t = k * t + t
  OBVIOUS

\* The parts of a scan take at least one timeout.
LEMMA AtLeastOne == ASSUME NEW k \in Nat, k > 0, NEW t \in Nat
                    PROVE  k * t \in Nat /\ k * t >= t
  <1>1. PICK j \in Nat : k = j + 1
    <2> WITNESS k - 1 \in Nat
    <2> QED OBVIOUS
  <1>2. j * t \in Nat
    OBVIOUS
  <1> QED BY <1>1, <1>2, OneMorePart

\* NewYARA starts with a rule set that nobody has replaced.
LEMMA InitEstablishes == Init => IInv
  <1> SUFFICES ASSUME Init PROVE IInv OBVIOUS
  <1> USE RulesAssumption
  <1>1. rules \in 0..1 /\ made = rules /\ made \in 0..MaxRules
    BY DEF Init, Nil
  <1>2. TypeOK
    <2>1. dir \in [ver : Nat, some : BOOLEAN]
      BY DEF Init
    <2>2. compiled \in [Loader -> [ver : Nat, some : BOOLEAN]]
      BY DEF Init, Unread
    <2>3. due \in [Ruleset -> 0..DestroyDelay] /\ timer \in [Scan -> 0..ScanTimeout]
      BY DEF Init
    <2>4. part \in [Scan -> 0..MaxParts] /\ using \in [Scan -> 0..made]
      BY <1>1 DEF Init, Nil
    <2>5. pc \in [Loader -> {"idle", "compile", "swap", "stamp"}]
      BY DEF Init
    <2>6. event \in BOOLEAN /\ debounce \in BOOLEAN /\ raced \in BOOLEAN
      BY DEF Init
    <2>7. lastMod \in Nat /\ ver \in Nat /\ reloads \in Nat /\ failures \in Nat
      BY DEF Init
    <2>8. rules \in 0..made /\ dying \subseteq 1..made /\ gone \subseteq 1..made
      BY <1>1 DEF Init
    <2> QED BY <1>1, <2>1, <2>2, <2>3, <2>4, <2>5, <2>6, <2>7, <2>8 DEF TypeOK
  <1>3. CurrentIsAlive /\ Account
    BY DEF Init, CurrentIsAlive, Account, Replaced
  <1> QED BY <1>2, <1>3 DEF IInv

\* Every step keeps every variable in its type.
LEMMA StepTyped == ASSUME IInv, [Next]_vars PROVE TypeOK'
  <1> USE RulesAssumption
  <1>0. TypeOK BY DEF IInv
  <1>1. ASSUME NEW some \in BOOLEAN, NEW told \in BOOLEAN, Change(some, told)
        PROVE  dir' \in [ver : Nat, some : BOOLEAN] /\ event' \in BOOLEAN /\ raced' \in BOOLEAN
    BY <1>0, <1>1 DEF TypeOK, Change
  <1>2. ASSUME NEW l \in Loader, NEW p \in {"idle", "compile", "swap", "stamp"}, Goto(l, p)
        PROVE  pc' \in [Loader -> {"idle", "compile", "swap", "stamp"}]
    BY <1>0, <1>2 DEF TypeOK, Goto
  <1>3. ASSUME NEW l \in Loader, After(l)
        PROVE  /\ pc' \in [Loader -> {"idle", "compile", "swap", "stamp"}]
               /\ compiled' \in [Loader -> [ver : Nat, some : BOOLEAN]]
    BY <1>0, <1>2, <1>3 DEF TypeOK, After, Unread
  <1>4. Watcher \in Loader /\ Admin \subseteq Loader
    BY DEF Loader
  <1>5. CASE Edit
    BY <1>0, <1>1, <1>5 DEF TypeOK, Edit, sets, scans, bounds
  <1>6. CASE HandleEvent \/ Poll
    BY <1>0, <1>6 DEF TypeOK, HandleEvent, Poll, sets, scans, bounds
  <1>7. CASE Fire \/ Stamp
    BY <1>0, <1>2, <1>4, <1>7 DEF TypeOK, Fire, Stamp, sets, scans, bounds
  <1>8. CASE Tick
    BY <1>0, <1>8 DEF TypeOK, Tick, files, bounds
  <1>9. ASSUME NEW a \in Admin, ReloadRules(a) \/ SetRulesDir(a) PROVE TypeOK'
    <2>1. Goto(a, "compile") /\ reloads' = reloads + 1
      BY <1>9 DEF ReloadRules, SetRulesDir, Request
    <2>2. pc' \in [Loader -> {"idle", "compile", "swap", "stamp"}]
      BY <1>2, <1>4, <2>1
    <2>3. CASE ReloadRules(a)
      BY <1>0, <2>1, <2>2, <2>3 DEF TypeOK, ReloadRules, files, sets, scans
    <2>4. CASE SetRulesDir(a)
      <3>1. dir' \in [ver : Nat, some : BOOLEAN] /\ event' \in BOOLEAN /\ raced' \in BOOLEAN
        BY <1>1, <2>4 DEF SetRulesDir
      <3> QED BY <1>0, <2>1, <2>2, <2>4, <3>1 DEF TypeOK, SetRulesDir, sets, scans
    <2> QED BY <1>9, <2>3, <2>4
  <1>10. ASSUME NEW l \in Loader, Compile(l) PROVE TypeOK'
    BY <1>0, <1>2, <1>10 DEF TypeOK, Compile, files, sets, scans, bounds
  <1>11. ASSUME NEW l \in Loader, LoadFails(l) PROVE TypeOK'
    BY <1>0, <1>3, <1>11 DEF TypeOK, LoadFails, files, sets, scans
  <1>12. ASSUME NEW l \in Loader, Swap(l) PROVE TypeOK'
    <2>1. made' = made + 1 /\ made' \in 0..MaxRules /\ rules' = made' /\ ver' \in Nat
      BY <1>0, <1>12 DEF TypeOK, Swap
    <2>2. dying' \subseteq 1..made' /\ gone' \subseteq 1..made'
      BY <1>0, <1>12, <2>1 DEF TypeOK, Swap, Retire, Nil
    <2>3. due' \in [Ruleset -> 0..DestroyDelay]
      BY <1>0, <1>12 DEF TypeOK, Swap, Retire
    <2>4. using' \in [Scan -> 0..made']
      BY <1>0, <1>12, <2>1 DEF TypeOK, Swap, scans
    <2>5. raced' \in BOOLEAN
      BY <1>0, <1>12 DEF TypeOK, Swap
    <2> QED BY <1>0, <1>3, <1>12, <2>1, <2>2, <2>3, <2>4, <2>5
            DEF TypeOK, Swap, files, scans, bounds
  <1>13. ASSUME NEW l \in Loader, SwapNone(l) PROVE TypeOK'
    <2>1. rules' \in 0..made' /\ ver' \in Nat /\ made' = made
      BY <1>0, <1>13 DEF TypeOK, SwapNone, Nil
    <2>2. raced' \in BOOLEAN
      BY <1>0, <1>13 DEF TypeOK, SwapNone
    <2> QED BY <1>0, <1>3, <1>13, <2>1, <2>2 DEF TypeOK, SwapNone, files, scans, bounds
  <1>14. ASSUME NEW r \in Ruleset, Destroy(r) PROVE TypeOK'
    BY <1>0, <1>14 DEF TypeOK, Destroy, files, scans, bounds
  <1>15. ASSUME NEW s \in Scan, Begin(s) \/ NextPart(s) \/ End(s) PROVE TypeOK'
    <2>1. UNCHANGED <<files, pc, compiled, sets, bounds, raced>>
      BY <1>15 DEF Begin, NextPart, End
    <2>2. /\ part' \in [Scan -> 0..MaxParts] /\ using' \in [Scan -> 0..made]
          /\ timer' \in [Scan -> 0..ScanTimeout]
      <3>1. CASE Begin(s) BY <1>0, <3>1 DEF TypeOK, Begin
      <3>2. CASE NextPart(s) BY <1>0, <3>2 DEF TypeOK, NextPart
      <3>3. CASE End(s) BY <1>0, <3>3 DEF TypeOK, End, Nil
      <3> QED BY <1>15, <3>1, <3>2, <3>3
    <2> QED BY <1>0, <2>1, <2>2 DEF TypeOK, files, sets, bounds
  <1>16. CASE UNCHANGED vars
    BY <1>0, <1>16 DEF TypeOK, vars, files, sets, scans, bounds
  <1> QED BY <1>5, <1>6, <1>7, <1>8, <1>9, <1>10, <1>11, <1>12, <1>13, <1>14, <1>15, <1>16
          DEF Next

\* Every step keeps the rule set in force alive, and the account of time balanced.
LEMMA StepAccounts == ASSUME IInv, [Next]_vars PROVE CurrentIsAlive' /\ Account'
  <1> USE RulesAssumption
  <1>0. /\ made \in 0..MaxRules /\ rules \in 0..made
        /\ dying \subseteq 1..made /\ gone \subseteq 1..made
        /\ due \in [Ruleset -> 0..DestroyDelay]
        /\ part \in [Scan -> 0..MaxParts] /\ using \in [Scan -> 0..made]
        /\ timer \in [Scan -> 0..ScanTimeout]
        /\ CurrentIsAlive /\ Account
    BY DEF IInv, TypeOK
  <1>1. CASE UNCHANGED <<rules, dying, gone, due, part, using, timer>>
    BY <1>0, <1>1 DEF CurrentIsAlive, Account, Replaced
  <1>2. CASE Edit \/ HandleEvent \/ Poll \/ Fire \/ Stamp
    BY <1>1, <1>2 DEF Edit, HandleEvent, Poll, Fire, Stamp, sets, scans
  <1>3. ASSUME NEW a \in Admin, ReloadRules(a) \/ SetRulesDir(a) PROVE CurrentIsAlive' /\ Account'
    BY <1>1, <1>3 DEF ReloadRules, SetRulesDir, sets, scans
  <1>4. ASSUME NEW l \in Loader, Compile(l) \/ LoadFails(l) PROVE CurrentIsAlive' /\ Account'
    BY <1>1, <1>4 DEF Compile, LoadFails, sets, scans
  <1>5. ASSUME NEW l \in Loader, SwapNone(l) PROVE CurrentIsAlive' /\ Account'
    BY <1>0, <1>5 DEF SwapNone, scans, CurrentIsAlive, Account, Replaced, Nil
  <1>6. ASSUME NEW l \in Loader, Swap(l) PROVE CurrentIsAlive' /\ Account'
    <2>1. /\ rules' = made + 1 /\ gone' = gone /\ dying' = dying \cup ({rules} \ {Nil})
          /\ due' = [r \in Ruleset |-> IF r = rules THEN DestroyDelay ELSE due[r]]
          /\ part' = part /\ using' = using /\ timer' = timer
      BY <1>6 DEF Swap, Retire, scans
    <2>2. CurrentIsAlive'
      BY <1>0, <2>1 DEF CurrentIsAlive
    <2>3. \A r \in gone' : due'[r] = 0
      BY <1>0, <2>1 DEF CurrentIsAlive, Account, Ruleset
    <2>4. ASSUME NEW s \in Scan, part[s] > 0, using[s] = rules, rules # Nil
          PROVE  due'[using[s]] + part[s] * ScanTimeout >= DestroyDelay + timer[s]
      <3>1. due'[using[s]] = DestroyDelay
        BY <1>0, <2>1, <2>4 DEF Ruleset, Nil
      <3>2. part[s] * ScanTimeout \in Nat /\ part[s] * ScanTimeout >= ScanTimeout
        BY <1>0, <2>4, AtLeastOne
      <3> QED BY <1>0, <3>1, <3>2
    <2>5. ASSUME NEW s \in Scan, part[s] > 0, using[s] \in Replaced, using[s] # rules
          PROVE  due'[using[s]] + part[s] * ScanTimeout >= DestroyDelay + timer[s]
      <3>1. due'[using[s]] = due[using[s]]
        BY <1>0, <2>1, <2>5 DEF Replaced, Ruleset
      <3> QED BY <1>0, <2>5, <3>1 DEF Account
    <2>6. Account'
      BY <1>0, <2>1, <2>3, <2>4, <2>5 DEF Account, Replaced
    <2> QED BY <2>2, <2>6
  <1>7. ASSUME NEW r \in Ruleset, Destroy(r) PROVE CurrentIsAlive' /\ Account'
    BY <1>0, <1>7 DEF Destroy, scans, CurrentIsAlive, Account, Replaced
  <1>8. ASSUME NEW s \in Scan, Begin(s) PROVE CurrentIsAlive' /\ Account'
    BY <1>0, <1>8 DEF Begin, sets, CurrentIsAlive, Account, Replaced
  <1>9. ASSUME NEW s \in Scan, NextPart(s) PROVE CurrentIsAlive' /\ Account'
    <2>1. (part[s] + 1) * ScanTimeout = part[s] * ScanTimeout + ScanTimeout
      BY <1>0, OneMorePart
    <2>2. part[s] * ScanTimeout \in Nat
      BY <1>0
    <2>3. /\ part' = [part EXCEPT ![s] = @ + 1] /\ timer' = [timer EXCEPT ![s] = ScanTimeout]
          /\ part[s] > 0 /\ UNCHANGED <<rules, dying, gone, due, using>>
      BY <1>0, <1>9 DEF NextPart, sets
    <2>4. ASSUME using[s] \in Replaced
          PROVE  due'[using'[s]] + part'[s] * ScanTimeout >= DestroyDelay + timer'[s]
      <3>1. due[using[s]] + part[s] * ScanTimeout >= DestroyDelay + timer[s]
        BY <1>0, <2>3, <2>4 DEF Account
      <3>2. due[using[s]] \in Nat /\ timer[s] \in Nat
        BY <1>0, <2>4 DEF Replaced, Ruleset
      <3>3. part'[s] = part[s] + 1 /\ timer'[s] = ScanTimeout /\ due'[using'[s]] = due[using[s]]
        BY <1>0, <2>3
      <3> QED BY <2>1, <2>2, <3>1, <3>2, <3>3
    <2>5. ASSUME NEW q \in Scan, q # s PROVE part'[q] = part[q] /\ timer'[q] = timer[q]
      BY <1>0, <2>3, <2>5
    <2> QED BY <1>0, <2>3, <2>4, <2>5 DEF CurrentIsAlive, Account, Replaced
  <1>10. ASSUME NEW s \in Scan, End(s) PROVE CurrentIsAlive' /\ Account'
    BY <1>0, <1>10 DEF End, sets, CurrentIsAlive, Account, Replaced
  <1>11. CASE Tick
    <2>1. /\ timer' = [s \in Scan |-> IF part[s] > 0 THEN timer[s] - 1 ELSE timer[s]]
          /\ due' = [r \in Ruleset |-> IF due[r] > 0 THEN due[r] - 1 ELSE due[r]]
          /\ UNCHANGED <<rules, dying, gone, part, using>>
      BY <1>11 DEF Tick
    <2>2. \A r \in gone' : due'[r] = 0
      BY <1>0, <2>1 DEF Account, Ruleset
    <2>3. ASSUME NEW s \in Scan, part[s] > 0, using[s] \in Replaced
          PROVE  due'[using[s]] + part[s] * ScanTimeout >= DestroyDelay + timer'[s]
      <3>1. using[s] \in Ruleset /\ due[using[s]] \in Nat /\ timer[s] \in Nat
        BY <1>0, <2>3 DEF Replaced, Ruleset
      <3>2. due[using[s]] + part[s] * ScanTimeout >= DestroyDelay + timer[s]
        BY <1>0, <2>3 DEF Account
      <3>3. timer'[s] = timer[s] - 1
        BY <2>1, <2>3
      <3>4. due'[using[s]] = IF due[using[s]] > 0 THEN due[using[s]] - 1 ELSE due[using[s]]
        BY <2>1, <3>1
      <3>5. part[s] * ScanTimeout \in Nat
        BY <1>0
      <3> QED BY <3>1, <3>2, <3>3, <3>4, <3>5
    <2> QED BY <1>0, <2>1, <2>2, <2>3 DEF CurrentIsAlive, Account, Replaced
  <1>12. CASE UNCHANGED vars
    BY <1>1, <1>12 DEF vars, sets, scans
  <1> QED BY <1>2, <1>3, <1>4, <1>5, <1>6, <1>7, <1>8, <1>9, <1>10, <1>11, <1>12 DEF Next

\* The inductive invariant holds in every state.
LEMMA Inductive == Spec => []IInv
  <1>1. IInv /\ [Next]_vars => IInv'
    BY StepTyped, StepAccounts DEF IInv
  <1> QED BY InitEstablishes, <1>1, PTL DEF Spec

\* The variables of the scanner and of its watcher keep their types: no counter of
\* rule sets, parts or ticks leaves its range.
THEOREM TypeCorrect == Spec => []TypeOK
  <1>1. IInv => TypeOK BY DEF IInv
  <1> QED BY Inductive, <1>1, PTL

\* What Scan captures under the read lock has not been destroyed and is not about to
\* be, for any number of loads that overlap (loadRules).
THEOREM CurrentAlive == Spec => []CurrentIsAlive
  <1>1. IInv => CurrentIsAlive BY DEF IInv
  <1> QED BY Inductive, <1>1, PTL

\* A scan whose ScanMem calls fit in the delay never loses its rule set under its
\* hands, for every timeout and every delay.
THEOREM InUseSafe == Spec => []InUseWithinDelay
  <1>1. ASSUME IInv PROVE InUseWithinDelay
    <2> SUFFICES ASSUME NEW s \in Scan, part[s] > 0, part[s] * ScanTimeout < DestroyDelay,
                        using[s] \in gone
                 PROVE  FALSE
      BY DEF InUseWithinDelay
    <2>1. due[using[s]] = 0 /\ due[using[s]] + part[s] * ScanTimeout >= DestroyDelay + timer[s]
      BY <1>1 DEF IInv, Account, Replaced
    <2>2. timer[s] \in Nat /\ part[s] * ScanTimeout \in Nat /\ DestroyDelay \in Nat
      BY <1>1, RulesAssumption DEF IInv, TypeOK
    <2> QED BY <2>1, <2>2
  <1> QED BY Inductive, <1>1, PTL
==============================================================================
