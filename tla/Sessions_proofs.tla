--------------------------- MODULE Sessions_proofs ---------------------------
(***************************************************************************)
(* For any number of tokens, requests, addresses and faults: the session   *)
(* store keeps its invariants and implements module Access.                *)
(***************************************************************************)
EXTENDS Sessions, FiniteSetTheorems, TLAPS

\* No fault has struck that can undo the end of a session.
Clean == Unused({"crash", "db", "drain"})

\* The table has been written and not been loaded again.
Stopped == daemon \in {"persisted", "down"}

\* Only tokens that were issued have ended, and no fault has been given back.
Ledger ==
    /\ ended \subseteq issued
    /\ \A x \in FaultKind : left[x] <= Faults[x]

\* A shutdown without fault finds every handler done and writes no ended token.
EndedApart ==
    Clean => /\ ended \cap mem = {}
             /\ Stopped => Drained /\ ended \cap disk = {}

\* What ties sessions, logins and the two copies of the password together while
\* no change overtakes anybody: a login that has read the hash has read the one in
\* force; the copies agree but for a change that has saved and not yet set; and
\* what is written for the next start was granted on the password of that start.
PasswordsAgree ==
    Clean /\ ~raced =>
        /\ \A c \in Client : pc[c] = "check" => target[c] = hash
        /\ (\A c \in Client : pc[c] # "revoke") => \A t \in mem : pw[t] = hash
        /\ (\A c \in Client : pc[c] # "set") => saved = hash
        /\ (\E c \in Client : pc[c] = "set") => \E c \in Client : pc[c] = "set" /\ saved = word[c]
        /\ Stopped => \A t \in disk : pw[t] = hash

\* The requests from an address that Allow has let through.
Passed(i) == {c \in Client : addr[c] = i /\ pc[c] \in {"form", "check"}}

\* A failure is counted, or its request is still among those that have passed.
FailuresOwed ==
    \A i \in known : bucket[i].count + Cardinality(Passed(i)) <= MaxAttempts - 1 + Cardinality(Client)

IInv == TypeOK /\ Ledger /\ EndedApart /\ PasswordsAgree /\ FailuresOwed

------------------------------------------------------------------------------
(* Types.                                                                   *)

\* One fault less is left.
LEMMA SpendTyped ==
    ASSUME TypeOK, NEW x \in FaultKind, Spend(x)
    PROVE  /\ left' \in [FaultKind -> Nat] /\ left'[x] = left[x] - 1
           /\ \A y \in FaultKind \ {x} : left'[y] = left[y]
  BY DEF TypeOK, Spend

\* What a bucket can be.
Bucket == [count : Nat, window : {"open", "past"}, locked : BOOLEAN]

\* A bucket has its type whether it is new, renewed, locked or charged.
LEMMA BucketTyped ==
    ASSUME NEW b \in Bucket
    PROVE  /\ Fresh \in Bucket /\ Renewed(b) \in Bucket
           /\ [b EXCEPT !.locked = TRUE] \in Bucket
           /\ [b EXCEPT !.count = b.count + 1] \in Bucket
  <1>1. Fresh \in Bucket
    BY DEF Fresh, Bucket
  <1>2. Renewed(b) \in Bucket
    BY <1>1 DEF Renewed
  <1>3. [b EXCEPT !.locked = TRUE] \in Bucket
    BY DEF Bucket
  <1>4. [b EXCEPT !.count = b.count + 1] \in Bucket
    BY DEF Bucket
  <1> QED BY <1>1, <1>2, <1>3, <1>4

\* A program that has just started for the first time is well typed.
LEMMA InitTyped == Init => TypeOK
  <1> SUFFICES ASSUME Init PROVE TypeOK OBVIOUS
  <1> USE SessionsAssumption
  <1>1. bucket \in [Ip -> [count : Nat, window : {"open", "past"}, locked : BOOLEAN]]
    BY DEF Init, Fresh
  <1>2. pw \in [Token -> 0..MaxPassword] /\ hash \in 0..MaxPassword /\ saved \in 0..MaxPassword
    BY DEF Init
  <1>3. /\ word \in [Client -> 0..MaxPassword] /\ target \in [Client -> 0..MaxPassword]
        /\ pc \in [Client -> {"idle", "form", "check", "save", "set", "revoke"}]
    BY DEF Init
  <1>4. raced \in BOOLEAN /\ left \in [FaultKind -> Nat] /\ addr \in [Client -> Ip]
    BY DEF Init
  <1> QED BY <1>1, <1>2, <1>3, <1>4 DEF Init, TypeOK

\* Every step keeps every variable in its type.
LEMMA StepTyped == ASSUME TypeOK, [Next]_vars PROVE TypeOK'
  <1> USE SessionsAssumption
  <1>0. \A x \in FaultKind : Spend(x) => left' \in [FaultKind -> Nat]
    BY SpendTyped
  <1>1. {"crash", "db", "drain", "restart"} = FaultKind
    BY DEF FaultKind
  <1>2. CASE Age
    <2>1. CASE \E i \in known :
                 /\ bucket' = [bucket EXCEPT ![i].window = "past",
                                             ![i].locked = @ /\ bucket[i].window = "open"]
                 /\ UNCHANGED <<idle, expired>>
      <3>1. bucket' \in [Ip -> Bucket]
        BY <2>1 DEF TypeOK, Bucket
      <3> QED BY <1>2, <2>1, <3>1 DEF TypeOK, Bucket, Age, pass, reqs, hist
    <2>2. CASE \E t \in (mem \cup disk) \ expired : expired' = expired \cup {t} /\ UNCHANGED <<idle, bucket>>
      BY <1>2, <2>2 DEF TypeOK, Age, pass, reqs, hist
    <2>3. CASE \E t \in mem \ idle : idle' = idle \cup {t} /\ UNCHANGED <<expired, bucket>>
      BY <1>2, <2>3 DEF TypeOK, Age, pass, reqs, hist
    <2> QED BY <1>2, <2>1, <2>2, <2>3 DEF Age
  <1>3. ASSUME NEW t \in Token, Request(t) \/ Logout(t) PROVE TypeOK'
    BY <1>3 DEF TypeOK, Request, Logout, Drop, pass, limit, reqs, hist
  <1>4. CASE Sweep
    BY <1>4 DEF TypeOK, Sweep, Drop, pass, limit, reqs, hist
  <1>5. ASSUME NEW c \in Client, Allow(c) PROVE TypeOK'
    <2> DEFINE i == addr[c]
               b == IF i \in known THEN Renewed(bucket[i]) ELSE Fresh
               go == b.count < MaxAttempts
    <2>0. i \in Ip /\ bucket[i] \in Bucket
      BY DEF TypeOK, Bucket
    <2>1. i \in Ip /\ b \in Bucket /\ [b EXCEPT !.locked = TRUE] \in Bucket
      BY <2>0, BucketTyped
    <2>2. /\ known' = known \cup {i}
          /\ bucket' = [bucket EXCEPT ![i] = IF go THEN b ELSE [b EXCEPT !.locked = TRUE]]
          /\ pc' = [pc EXCEPT ![c] = IF go THEN "form" ELSE "idle"]
          /\ UNCHANGED <<daemon, store, pass, addr, word, target, left, hist>>
      BY <1>5 DEF Allow
    <2> HIDE DEF i, b, go
    <2>3. bucket' \in [Ip -> Bucket] /\ known' \subseteq Ip
      BY <2>1, <2>2 DEF TypeOK, Bucket
    <2>4. pc' \in [Client -> {"idle", "form", "check", "save", "set", "revoke"}]
      BY <2>2 DEF TypeOK
    <2> QED BY <2>2, <2>3, <2>4 DEF TypeOK, Bucket, store, pass, hist
  <1>6. ASSUME NEW c \in Client, ReadHash(c) PROVE TypeOK'
    BY <1>6 DEF TypeOK, ReadHash, store, pass, limit, hist
  <1>7. ASSUME NEW c \in Client, Done(c)
        PROVE  /\ pc' \in [Client -> {"idle", "form", "check", "save", "set", "revoke"}]
               /\ addr' \in [Client -> Ip]
               /\ word' \in [Client -> 0..MaxPassword] /\ target' \in [Client -> 0..MaxPassword]
    BY <1>7 DEF TypeOK, Done
  <1>8. ASSUME NEW c \in Client, Record(c) PROVE TypeOK'
    <2>1. known' \subseteq Ip
      BY <1>8 DEF Record, TypeOK
    <2> DEFINE i == addr[c]
               b == IF i \in known THEN bucket[i] ELSE Fresh
    <2>2. i \in Ip /\ bucket[i] \in Bucket /\ bucket \in [Ip -> Bucket]
      BY DEF TypeOK, Bucket
    <2>3. [b EXCEPT !.count = b.count + 1] \in Bucket
      BY <2>2, BucketTyped
    <2>4. bucket' = [bucket EXCEPT ![i] = [b EXCEPT !.count = b.count + 1]]
      BY <1>8 DEF Record
    <2> HIDE DEF i, b
    <2>5. bucket' \in [Ip -> Bucket]
      BY <2>2, <2>3, <2>4
    <2> QED BY <1>7, <1>8, <2>1, <2>5 DEF TypeOK, Bucket, Record, store, pass, hist
  <1>9. ASSUME NEW c \in Client, NEW t \in Token, Create(c, t) PROVE TypeOK'
    <2>1. pw' \in [Token -> 0..MaxPassword]
      BY <1>9 DEF TypeOK, Create
    <2> QED BY <1>7, <1>9, <2>1 DEF TypeOK, Create, pass, limit, hist
  <1>10. CASE SweepLimiter
    <2>1. Fresh \in Bucket
      BY DEF Fresh, Bucket
    <2>2. bucket' \in [Ip -> Bucket] /\ known' \subseteq Ip
      BY <1>10, <2>1 DEF SweepLimiter, TypeOK, Bucket
    <2> QED BY <1>10, <2>2 DEF TypeOK, Bucket, SweepLimiter, store, pass, reqs, hist
  <1>11. ASSUME NEW c \in Client, NEW t \in Token, Verify(c, t) PROVE TypeOK'
    <2>1. word' \in [Client -> 0..MaxPassword]
      BY <1>11 DEF Verify, TypeOK
    <2> QED BY <1>11, <2>1 DEF TypeOK, Verify, store, pass, limit, hist
  <1>12. ASSUME NEW c \in Client, SavePassword(c) PROVE TypeOK'
    <2>1. left' \in [FaultKind -> Nat] /\ saved' \in 0..MaxPassword
      BY <1>0, <1>1, <1>12 DEF SavePassword, TypeOK
    <2> QED BY <1>12, <2>1 DEF TypeOK, SavePassword, store, limit, hist
  <1>13. ASSUME NEW c \in Client, SetPassword(c) PROVE TypeOK'
    <2>1. raced' \in BOOLEAN
      BY <1>13 DEF SetPassword, TypeOK
    <2> QED BY <1>13, <2>1 DEF TypeOK, SetPassword, store, limit
  <1>14. ASSUME NEW c \in Client, DeleteAll(c) PROVE TypeOK'
    BY <1>7, <1>14 DEF TypeOK, DeleteAll, Drop, pass, limit
  <1>15. CASE Shutdown
    BY <1>0, <1>1, <1>15 DEF TypeOK, Shutdown, store, pass, limit, reqs, hist
  <1>16. CASE PersistToDB
    <2>1. left' \in [FaultKind -> Nat] /\ disk' \subseteq issued
      BY <1>0, <1>1, <1>16 DEF PersistToDB, TypeOK
    <2> QED BY <1>16, <2>1 DEF TypeOK, PersistToDB, pass, limit, reqs, hist
  <1>17. ASSUME End, left' \in [FaultKind -> Nat] PROVE TypeOK'
    BY <1>17 DEF TypeOK, End, Drop, Fresh, pass, hist
  <1>18. CASE Exit \/ Crash
    <2>1. left' \in [FaultKind -> Nat]
      BY <1>0, <1>1, <1>18 DEF Exit, Crash, TypeOK
    <2> QED BY <1>17, <1>18, <2>1 DEF Exit, Crash
  <1>19. CASE Boot
    BY <1>19 DEF TypeOK, Boot, limit, reqs, hist
  <1>20. CASE UNCHANGED vars
    BY <1>20 DEF TypeOK, vars, store, pass, limit, reqs, hist
  <1> QED BY <1>2, <1>3, <1>4, <1>5, <1>6, <1>8, <1>9, <1>10, <1>11, <1>12, <1>13, <1>14,
             <1>15, <1>16, <1>18, <1>19, <1>20 DEF Next

------------------------------------------------------------------------------
(* Faults and ends.                                                         *)

\* A step takes no fault or one from what is left.
LEMMA StepSpends ==
    ASSUME [Next]_vars PROVE UNCHANGED left \/ \E x \in FaultKind : Spend(x)
  <1>1. "crash" \in FaultKind /\ "db" \in FaultKind /\ "drain" \in FaultKind /\ "restart" \in FaultKind
    BY DEF FaultKind
  <1>2. ASSUME NEW c \in Client,
               Allow(c) \/ ReadHash(c) \/ Record(c) \/ SavePassword(c) \/ SetPassword(c) \/ DeleteAll(c)
        PROVE  UNCHANGED left \/ \E x \in FaultKind : Spend(x)
    BY <1>1, <1>2, Zenon DEF Allow, ReadHash, Record, SavePassword, SetPassword, DeleteAll
  <1>3. ASSUME NEW c \in Client, NEW t \in Token, Create(c, t) \/ Verify(c, t)
        PROVE  UNCHANGED left
    BY <1>3 DEF Create, Verify
  <1>4. CASE Shutdown \/ PersistToDB \/ Exit \/ Crash \/ Boot
    BY <1>1, <1>4, Zenon DEF Shutdown, PersistToDB, Exit, Crash, Boot
  <1>5. ASSUME NEW t \in Token, Request(t) \/ Logout(t) PROVE UNCHANGED left
    BY <1>5 DEF Request, Logout
  <1>6. CASE Age \/ Sweep \/ SweepLimiter \/ UNCHANGED vars
    BY <1>6 DEF Age, Sweep, SweepLimiter, vars
  <1> QED BY <1>2, <1>3, <1>4, <1>5, <1>6 DEF Next

\* A fault that has struck stays struck.
LEMMA CleanBefore ==
    ASSUME TypeOK, Ledger, [Next]_vars
    PROVE  /\ \A x \in FaultKind : left'[x] <= Faults[x]
           /\ \A K \in SUBSET FaultKind : Unused(K)' => Unused(K) /\ \A x \in K : ~Spend(x)
  <1> USE SessionsAssumption
  <1>1. CASE UNCHANGED left
    BY <1>1 DEF Ledger, Unused, TypeOK, Spend
  <1>2. ASSUME NEW x \in FaultKind, Spend(x)
        PROVE  /\ \A y \in FaultKind : left'[y] <= Faults[y]
               /\ \A K \in SUBSET FaultKind : Unused(K)' => Unused(K) /\ \A y \in K : ~Spend(y)
    <2>1. left'[x] = left[x] - 1 /\ \A y \in FaultKind \ {x} : left'[y] = left[y]
      BY <1>2, SpendTyped
    <2>2. left'[x] < Faults[x] /\ \A y \in FaultKind : left'[y] <= Faults[y]
      BY <2>1 DEF Ledger, TypeOK
    <2>3. ASSUME NEW y \in FaultKind, Spend(y) PROVE y = x
      <3>1. left'[y] = left[y] - 1
        BY <2>3, SpendTyped
      <3> QED BY <2>1, <3>1 DEF TypeOK
    <2>4. ASSUME NEW K \in SUBSET FaultKind, Unused(K)' PROVE x \notin K
      BY <2>2, <2>4 DEF Unused, TypeOK
    <2> QED BY <2>1, <2>2, <2>3, <2>4 DEF Unused
  <1> QED BY <1>1, <1>2, StepSpends

\* With no crash, no failed write and no drain cut short, what is left of the faults
\* is an orderly restart.
LEMMA CleanStep ==
    ASSUME TypeOK, Ledger, [Next]_vars, Clean'
    PROVE  Clean /\ ~Spend("crash") /\ ~Spend("db") /\ ~Spend("drain")
  <1>1. {"crash", "db", "drain"} \in SUBSET FaultKind
    BY DEF FaultKind
  <1> QED BY <1>1, CleanBefore DEF Clean

\* Only issued tokens end.
LEMMA StepLedger == ASSUME TypeOK, Ledger, [Next]_vars PROVE Ledger'
  <1>1. \A x \in FaultKind : left'[x] <= Faults[x]
    BY CleanBefore
  <1>2. Faults' = Faults OBVIOUS
  <1>3. ended' \subseteq issued'
    <2>0. ended \subseteq issued /\ mem \subseteq issued
      BY DEF Ledger, TypeOK
    <2>1. ASSUME NEW t \in Token, Logout(t) PROVE ended' \subseteq issued'
      BY <2>0, <2>1 DEF Logout, Valid
    <2>2. ASSUME NEW c \in Client, DeleteAll(c) PROVE ended' \subseteq issued'
      BY <2>0, <2>2 DEF DeleteAll
    <2>3. ASSUME NEW c \in Client, NEW t \in Token, Create(c, t) PROVE ended' \subseteq issued'
      BY <2>0, <2>3 DEF Create, hist
    <2>4. CASE UNCHANGED <<ended, issued>>
      BY <2>0, <2>4
    <2>5. ASSUME NEW c \in Client, NEW t \in Token, Verify(c, t) PROVE UNCHANGED <<ended, issued>>
      BY <2>5 DEF Verify, store, hist
    <2>6. ASSUME NEW c \in Client,
                 Allow(c) \/ ReadHash(c) \/ Record(c) \/ SavePassword(c) \/ SetPassword(c)
          PROVE  UNCHANGED <<ended, issued>>
      BY <2>6 DEF Allow, ReadHash, Record, SavePassword, SetPassword, store, hist
    <2>7. ASSUME NEW t \in Token, Request(t) PROVE UNCHANGED <<ended, issued>>
      BY <2>7 DEF Request, hist
    <2>8. CASE Age \/ Sweep \/ SweepLimiter \/ UNCHANGED vars
      BY <2>4, <2>8 DEF Age, Sweep, SweepLimiter, vars, store, hist
    <2>9. CASE Shutdown \/ PersistToDB \/ Exit \/ Crash \/ Boot
      BY <2>4, <2>9 DEF Shutdown, PersistToDB, Exit, Crash, End, Boot, store, hist
    <2> QED BY <2>1, <2>2, <2>3, <2>4, <2>5, <2>6, <2>7, <2>8, <2>9 DEF Next
  <1> QED BY <1>1, <1>3 DEF Ledger

\* A step keeps the ended tokens out of the map and, once it is written, of the table.
LEMMA StepEnded == ASSUME TypeOK, Ledger, EndedApart, [Next]_vars PROVE EndedApart'
  <1> SUFFICES ASSUME Clean'
               PROVE  /\ (ended \cap mem = {})'
                      /\ Stopped' => Drained' /\ (ended \cap disk = {})'
    BY DEF EndedApart
  <1>0. /\ ~Spend("crash") /\ ~Spend("db") /\ ~Spend("drain")
        /\ ended \cap mem = {} /\ (Stopped => Drained /\ ended \cap disk = {})
        /\ mem \subseteq issued /\ disk \subseteq issued /\ ended \subseteq issued
    BY CleanStep DEF EndedApart, Ledger, TypeOK
  <1>1. CASE UNCHANGED <<ended, mem, disk, daemon, pc>>
    BY <1>0, <1>1 DEF Stopped, Drained
  <1>2. CASE Age
    BY <1>1, <1>2 DEF Age, reqs, hist
  <1>3. CASE Sweep \/ SweepLimiter \/ UNCHANGED vars
    BY <1>0, <1>1, <1>3 DEF Sweep, SweepLimiter, Drop, vars, store, reqs, hist, Stopped
  <1>4. ASSUME NEW t \in Token, Request(t)
        PROVE  (ended \cap mem = {})' /\ ~Stopped'
    BY <1>0, <1>4 DEF Request, Drop, hist, Stopped
  <1>5. ASSUME NEW t \in Token, Logout(t)
        PROVE  (ended \cap mem = {})' /\ ~Stopped'
    BY <1>0, <1>5 DEF Logout, Drop, Stopped
  <1>6. ASSUME NEW c \in Client, Allow(c) \/ ReadHash(c) \/ SavePassword(c) \/ SetPassword(c)
        PROVE  UNCHANGED <<ended, mem, disk, daemon>> /\ ~Stopped
    BY <1>0, <1>6 DEF Allow, ReadHash, SavePassword, SetPassword, store, hist, Stopped, Drained
  <1>7. ASSUME NEW c \in Client, NEW t \in Token, Verify(c, t)
        PROVE  UNCHANGED <<ended, mem, disk, daemon>> /\ ~Stopped
    BY <1>0, <1>7 DEF Verify, store, hist, Stopped
  <1>8. ASSUME NEW c \in Client, Record(c)
        PROVE  UNCHANGED <<ended, mem, disk, daemon>> /\ ~Stopped
    BY <1>0, <1>8 DEF Record, store, hist, Stopped, Drained
  <1>9. ASSUME NEW c \in Client, DeleteAll(c)
        PROVE  (ended \cap mem = {})' /\ ~Stopped'
    BY <1>0, <1>9 DEF DeleteAll, Drop, Stopped, Drained
  <1>10. ASSUME NEW c \in Client, NEW t \in Token, Create(c, t)
         PROVE  (ended \cap mem = {})' /\ ~Stopped'
    BY <1>0, <1>10 DEF Create, hist, Stopped, Drained
  <1>11. CASE Shutdown
    BY <1>0, <1>11 DEF Shutdown, Stopped, store, reqs, hist
  <1>12. CASE PersistToDB
    BY <1>0, <1>12 DEF PersistToDB, Drained, reqs, hist
  <1>13. CASE Exit
    BY <1>0, <1>13 DEF Exit, End, Drop, Stopped, Drained, hist
  <1>14. CASE Crash
    BY <1>0, <1>14 DEF Crash
  <1>15. CASE Boot
    BY <1>0, <1>15 DEF Boot, Stopped, hist
  <1> QED BY <1>0, <1>2, <1>3, <1>4, <1>5, <1>6, <1>7, <1>8, <1>9, <1>10, <1>11, <1>12, <1>13,
             <1>14, <1>15 DEF Next, Stopped

------------------------------------------------------------------------------
(* Passwords.                                                               *)

\* A step keeps sessions, logins and the two copies of the password together.
LEMMA StepPasswords ==
    ASSUME TypeOK, Ledger, EndedApart, PasswordsAgree, [Next]_vars
    PROVE  PasswordsAgree'
  <1> SUFFICES ASSUME Clean', ~raced' PROVE PasswordsAgree'
    BY DEF PasswordsAgree
  <1>0. /\ Clean /\ ~Spend("crash") /\ ~Spend("db") /\ ~Spend("drain")
        /\ mem \subseteq issued /\ disk \subseteq issued /\ issued \subseteq Token
        /\ pw \in [Token -> 0..MaxPassword]
        /\ pc \in [Client -> {"idle", "form", "check", "save", "set", "revoke"}]
        /\ word \in [Client -> 0..MaxPassword] /\ target \in [Client -> 0..MaxPassword]
        /\ Stopped => Drained
    BY CleanStep DEF TypeOK, EndedApart
  <1>1. ~raced
    <2>1. ASSUME NEW c \in Client, SetPassword(c) PROVE ~raced
      BY <2>1 DEF SetPassword
    <2>2. ASSUME NEW c \in Client,
                 Allow(c) \/ ReadHash(c) \/ Record(c) \/ SavePassword(c) \/ DeleteAll(c)
          PROVE  raced' = raced
      BY <2>2 DEF Allow, ReadHash, Record, SavePassword, DeleteAll, hist
    <2>3. ASSUME NEW c \in Client, NEW t \in Token, Create(c, t) \/ Verify(c, t)
          PROVE  raced' = raced
      BY <2>3 DEF Create, Verify, hist
    <2>4. ASSUME NEW t \in Token, Request(t) \/ Logout(t) PROVE raced' = raced
      BY <2>4 DEF Request, Logout, hist
    <2>5. CASE Age \/ Sweep \/ SweepLimiter \/ UNCHANGED vars
      BY <2>5 DEF Age, Sweep, SweepLimiter, vars, hist
    <2>6. CASE Shutdown \/ PersistToDB \/ Exit \/ Crash \/ Boot
      BY <2>6 DEF Shutdown, PersistToDB, Exit, Crash, End, Boot, hist
    <2> QED BY <2>1, <2>2, <2>3, <2>4, <2>5, <2>6 DEF Next
  <1>2. /\ \A c \in Client : pc[c] = "check" => target[c] = hash
        /\ (\A c \in Client : pc[c] # "revoke") => \A t \in mem : pw[t] = hash
        /\ (\A c \in Client : pc[c] # "set") => saved = hash
        /\ (\E c \in Client : pc[c] = "set") => \E c \in Client : pc[c] = "set" /\ saved = word[c]
        /\ Stopped => \A t \in disk : pw[t] = hash
    BY <1>0, <1>1 DEF PasswordsAgree
  <1>3. ASSUME mem' \subseteq mem, UNCHANGED <<pc, target, hash, saved, word, pw, disk>>,
               Stopped' => Stopped
        PROVE  PasswordsAgree'
    BY <1>2, <1>3 DEF PasswordsAgree
  <1>4. CASE Age \/ Sweep \/ SweepLimiter \/ UNCHANGED vars
    BY <1>3, <1>4 DEF Age, Sweep, SweepLimiter, Drop, vars, store, pass, reqs, Stopped
  <1>5. ASSUME NEW t \in Token, Request(t) \/ Logout(t) PROVE PasswordsAgree'
    BY <1>3, <1>5 DEF Request, Logout, Drop, pass, reqs, Stopped
  <1>6. CASE Shutdown
    BY <1>3, <1>6 DEF Shutdown, store, pass, reqs, Stopped
  <1>7. ASSUME NEW c \in Client, Allow(c) PROVE PasswordsAgree'
    <2>1. /\ pc[c] = "idle" /\ \E p \in {"form", "idle"} : pc' = [pc EXCEPT ![c] = p]
          /\ UNCHANGED <<mem, disk, pw, hash, saved, word, target, daemon>>
      BY <1>7, Zenon DEF Allow, store, pass
    <2> QED BY <1>0, <1>2, <2>1 DEF PasswordsAgree, Stopped
  <1>8. ASSUME NEW c \in Client, ReadHash(c) PROVE PasswordsAgree'
    BY <1>0, <1>2, <1>8 DEF PasswordsAgree, ReadHash, store, pass, Stopped
  <1>9. ASSUME NEW c \in Client, Record(c) PROVE PasswordsAgree'
    <2>1. /\ pc[c] = "check" /\ Done(c) /\ UNCHANGED <<mem, disk, pw, hash, saved, daemon>>
      BY <1>9 DEF Record, store, pass
    <2> QED BY <1>0, <1>2, <2>1 DEF PasswordsAgree, Done, Stopped
  <1>10. ASSUME NEW c \in Client, NEW t \in Token, Create(c, t) PROVE PasswordsAgree'
    <2>1. /\ pc[c] = "check" /\ Done(c) /\ t \notin issued /\ mem' = mem \cup {t}
          /\ pw' = [pw EXCEPT ![t] = target[c]] /\ UNCHANGED <<disk, hash, saved, daemon>>
      BY <1>10 DEF Create, pass
    <2>2. pw'[t] = hash /\ \A u \in issued : pw'[u] = pw[u]
      BY <1>0, <1>2, <2>1
    <2>3. ~Stopped'
      BY <1>0, <2>1 DEF Stopped, Drained
    <2> QED BY <1>0, <1>2, <2>1, <2>2, <2>3 DEF PasswordsAgree, Done
  <1>11. ASSUME NEW c \in Client, NEW t \in Token, Verify(c, t) PROVE PasswordsAgree'
    <2>1. /\ pc[c] = "idle" /\ pc' = [pc EXCEPT ![c] = "save"]
          /\ \E v \in 1..MaxPassword : word' = [word EXCEPT ![c] = v]
          /\ UNCHANGED <<mem, disk, pw, hash, saved, target, daemon>>
      BY <1>11 DEF Verify, store, pass
    <2> QED BY <1>0, <1>2, <2>1 DEF PasswordsAgree, Stopped
  <1>12. ASSUME NEW c \in Client, SavePassword(c) PROVE PasswordsAgree'
    <2>1. /\ pc[c] = "save" /\ pc' = [pc EXCEPT ![c] = "set"] /\ saved' = word[c]
          /\ UNCHANGED <<mem, disk, pw, hash, word, target, daemon>>
      BY <1>0, <1>12 DEF SavePassword, store
    <2>2. pc'[c] = "set" /\ saved' = word'[c]
      BY <1>0, <2>1
    <2> QED BY <1>0, <1>2, <2>1, <2>2 DEF PasswordsAgree, Stopped
  <1>13. ASSUME NEW c \in Client, SetPassword(c) PROVE PasswordsAgree'
    <2>1. /\ pc[c] = "set" /\ pc' = [pc EXCEPT ![c] = "revoke"] /\ hash' = word[c]
          /\ \A q \in Client \ {c} : pc[q] # "check" /\ ~Changing(q)
          /\ UNCHANGED <<mem, disk, pw, saved, word, target, daemon>>
      BY <1>13 DEF SetPassword, store
    <2>2. saved = word[c]
      BY <1>2, <2>1 DEF Changing
    <2>3. pc'[c] = "revoke" /\ \A q \in Client : pc'[q] \notin {"check", "set"}
      BY <1>0, <2>1 DEF Changing
    <2>4. ~Stopped'
      BY <1>0, <2>1 DEF Stopped, Drained
    <2> QED BY <2>1, <2>2, <2>3, <2>4 DEF PasswordsAgree
  <1>14. ASSUME NEW c \in Client, DeleteAll(c) PROVE PasswordsAgree'
    <2>1. /\ pc[c] = "revoke" /\ Done(c) /\ mem' = {}
          /\ UNCHANGED <<disk, pw, hash, saved, daemon>>
      BY <1>14 DEF DeleteAll, Drop, pass
    <2> QED BY <1>0, <1>2, <2>1 DEF PasswordsAgree, Done, Stopped
  <1>15. CASE PersistToDB
    <2>1. Drained /\ disk' = mem \ expired /\ UNCHANGED <<mem, pw, pc, hash, saved, word, target>>
      BY <1>0, <1>15 DEF PersistToDB, pass, reqs
    <2>2. \A t \in mem : pw[t] = hash
      BY <1>2, <2>1 DEF Drained
    <2> QED BY <1>2, <2>1, <2>2 DEF PasswordsAgree
  <1>16. CASE Exit
    <2>1. /\ Stopped /\ mem' = {} /\ pc' = [c \in Client |-> "idle"]
          /\ UNCHANGED <<disk, pw, hash, saved>>
      BY <1>16 DEF Exit, End, Drop, pass, Stopped
    <2>2. saved = hash
      BY <1>0, <1>2, <2>1 DEF Drained
    <2> QED BY <1>2, <2>1, <2>2 DEF PasswordsAgree
  <1>17. CASE Crash
    BY <1>0, <1>17 DEF Crash
  <1>18. CASE Boot
    <2>1. /\ Stopped /\ ~Stopped' /\ mem' = disk \ expired /\ hash' = saved
          /\ UNCHANGED <<pc, target, pw, saved, word>>
      BY <1>18 DEF Boot, Stopped, reqs
    <2>2. saved = hash /\ Drained
      BY <1>0, <1>2, <2>1 DEF Drained
    <2> QED BY <1>2, <2>1, <2>2 DEF PasswordsAgree, Drained
  <1> QED BY <1>4, <1>5, <1>6, <1>7, <1>8, <1>9, <1>10, <1>11, <1>12, <1>13, <1>14, <1>15, <1>16,
             <1>17, <1>18 DEF Next

------------------------------------------------------------------------------
(* The limiter.                                                             *)

\* No more requests have passed than there are.
LEMMA PassedCounted ==
    ASSUME NEW i
    PROVE  IsFiniteSet(Passed(i)) /\ Cardinality(Passed(i)) \in Nat
           /\ Cardinality(Client) \in Nat /\ Cardinality(Passed(i)) <= Cardinality(Client)
  <1>1. Passed(i) \in SUBSET Client /\ IsFiniteSet(Client)
    BY SessionsAssumption DEF Passed
  <1> QED BY <1>1, FS_Subset, FS_CardinalityType

\* The same, after a step.
LEMMA PassedCountedNext ==
    ASSUME NEW i
    PROVE  IsFiniteSet(Passed(i)') /\ Cardinality(Passed(i)') \in Nat
           /\ Cardinality(Passed(i)') <= Cardinality(Client)
  <1>1. Passed(i)' \in SUBSET Client /\ IsFiniteSet(Client)
    BY SessionsAssumption DEF Passed
  <1> QED BY <1>1, FS_Subset, FS_CardinalityType

\* A step counts a failure only when it takes its request out of those that have
\* passed, and lets one pass only when there are attempts left.
LEMMA StepFailures ==
    ASSUME TypeOK, FailuresOwed, [Next]_vars
    PROVE  FailuresOwed'
  <1> USE SessionsAssumption
  <1> DEFINE Owed(i) == bucket[i].count + Cardinality(Passed(i)) <= MaxAttempts - 1 + Cardinality(Client)
  <1> HIDE DEF Owed
  <1>0. /\ known \subseteq Ip /\ bucket \in [Ip -> Bucket]
        /\ pc \in [Client -> {"idle", "form", "check", "save", "set", "revoke"}]
        /\ addr \in [Client -> Ip] /\ \A i \in known : Owed(i)
    BY DEF TypeOK, FailuresOwed, Owed, Bucket
  <1> SUFFICES \A i \in known' : Owed(i)'
    BY DEF FailuresOwed, Owed
  <1>1. ASSUME known' \subseteq known, \A i \in known' : bucket'[i].count = bucket[i].count,
               addr' = addr, \A c \in Client : pc'[c] \in {"form", "check"} <=> pc[c] \in {"form", "check"}
        PROVE  \A i \in known' : Owed(i)'
    <2>1. \A i : Passed(i)' = Passed(i)
      BY <1>1 DEF Passed
    <2> QED BY <1>0, <1>1, <2>1 DEF Owed
  <1>2. CASE Age
    <2>1. \A i \in known : bucket'[i].count = bucket[i].count
      <3>1. CASE UNCHANGED bucket
        BY <3>1
      <3>2. ASSUME NEW k \in known,
                   bucket' = [bucket EXCEPT ![k].window = "past",
                                            ![k].locked = @ /\ bucket[k].window = "open"]
            PROVE  \A i \in known : bucket'[i].count = bucket[i].count
        BY <1>0, <3>2 DEF Bucket
      <3> QED BY <1>2, <3>1, <3>2 DEF Age
    <2> QED BY <1>1, <1>2, <2>1 DEF Age, reqs
  <1>3. CASE Sweep \/ UNCHANGED vars
    BY <1>1, <1>3 DEF Sweep, vars, limit, reqs
  <1>4. CASE SweepLimiter
    BY <1>0, <1>1, <1>4 DEF SweepLimiter, reqs
  <1>5. ASSUME NEW t \in Token, Request(t) \/ Logout(t) PROVE \A i \in known' : Owed(i)'
    BY <1>1, <1>5 DEF Request, Logout, limit, reqs
  <1>6. ASSUME NEW c \in Client, Allow(c) PROVE \A i \in known' : Owed(i)'
    <2> PICK j \in Ip : j = addr[c]
      BY <1>0
    <2> DEFINE b == IF j \in known THEN Renewed(bucket[j]) ELSE Fresh
               go == b.count < MaxAttempts
    <2>0. j \in Ip /\ bucket[j] \in Bucket /\ b \in Bucket /\ Fresh.count = 0
      BY <1>0, BucketTyped DEF Fresh
    <2>1. /\ pc[c] = "idle" /\ known' = known \cup {j} /\ addr' = addr
          /\ bucket' = [bucket EXCEPT ![j] = IF go THEN b ELSE [b EXCEPT !.locked = TRUE]]
          /\ pc' = [pc EXCEPT ![c] = IF go THEN "form" ELSE "idle"]
      BY <1>6 DEF Allow
    <2>2. ~go => j \in known /\ b.count = bucket[j].count
      BY <2>0 DEF Renewed
    <2>3. bucket'[j].count = b.count
      BY <1>0, <2>0, <2>1 DEF Bucket
    <2> HIDE DEF b
    <2>4. ASSUME NEW i \in known', i # j PROVE Owed(i)'
      <3>1. i \in known /\ i \in Ip /\ bucket'[i] = bucket[i]
        BY <1>0, <2>0, <2>1, <2>4
      <3>2. Passed(i)' = Passed(i)
        BY <1>0, <2>1, <2>4 DEF Passed
      <3> QED BY <1>0, <3>1, <3>2 DEF Owed
    <2>5. CASE go
      BY <2>0, <2>3, <2>4, <2>5, PassedCounted, PassedCountedNext DEF Owed, Bucket
    <2>6. CASE ~go
      <3>1. Passed(j)' = Passed(j)
        BY <1>0, <2>1, <2>6 DEF Passed
      <3>2. Owed(j)'
        BY <1>0, <2>2, <2>3, <2>6, <3>1 DEF Owed
      <3> QED BY <2>4, <3>2
    <2> QED BY <2>5, <2>6
  <1>7. ASSUME NEW c \in Client, ReadHash(c) PROVE \A i \in known' : Owed(i)'
    BY <1>0, <1>1, <1>7 DEF ReadHash, limit
  <1>8. ASSUME NEW c \in Client, Record(c) PROVE \A i \in known' : Owed(i)'
    <2> PICK j \in Ip : j = addr[c]
      BY <1>0
    <2> DEFINE b == IF j \in known THEN bucket[j] ELSE Fresh
    <2>0. j \in Ip /\ bucket[j] \in Bucket /\ b \in Bucket /\ Fresh.count = 0
      BY <1>0, BucketTyped DEF Fresh
    <2>1. /\ pc[c] = "check" /\ known' = known \cup {j} /\ addr' = addr
          /\ bucket' = [bucket EXCEPT ![j] = [b EXCEPT !.count = b.count + 1]]
          /\ pc' = [pc EXCEPT ![c] = "idle"]
      BY <1>8 DEF Record, Done
    <2>2. bucket'[j].count = b.count + 1
      BY <1>0, <2>0, <2>1 DEF Bucket
    <2>3. ASSUME NEW i \in known', i # j PROVE Owed(i)'
      <3>1. i \in known /\ i \in Ip /\ bucket'[i] = bucket[i]
        BY <1>0, <2>0, <2>1, <2>3
      <3>2. Passed(i)' = Passed(i)
        BY <1>0, <2>1, <2>3 DEF Passed
      <3> QED BY <1>0, <3>1, <3>2 DEF Owed
    <2>4. c \in Passed(j) /\ Passed(j)' = Passed(j) \ {c}
      BY <1>0, <2>1 DEF Passed
    <2>5. Cardinality(Passed(j)') = Cardinality(Passed(j)) - 1
      <3>1. IsFiniteSet(Passed(j))
        BY PassedCounted
      <3>2. Cardinality(Passed(j) \ {c}) = Cardinality(Passed(j)) - 1
        BY <2>4, <3>1, FS_RemoveElement
      <3> QED BY <2>4, <3>2
    <2>6. b.count \in Nat /\ (j \notin known => b.count = 0)
      BY <2>0 DEF Bucket
    <2>7. Owed(j)'
      <3>1. CASE j \in known
        BY <1>0, <2>2, <2>5, <2>6, <3>1, PassedCounted, SMTT(30) DEF Owed
      <3>2. CASE j \notin known
        BY <2>2, <2>5, <2>6, <3>2, PassedCounted DEF Owed
      <3> QED BY <3>1, <3>2
    <2> QED BY <2>3, <2>7
  <1>9. ASSUME NEW c \in Client, NEW t \in Token, Create(c, t) PROVE \A i \in known' : Owed(i)'
    <2>1. /\ pc' = [pc EXCEPT ![c] = "idle"] /\ addr' = addr /\ UNCHANGED <<known, bucket>>
      BY <1>9 DEF Create, Done, limit
    <2>2. ASSUME NEW i \in known PROVE Owed(i)'
      <3>1. Passed(i)' \in SUBSET Passed(i)
        BY <1>0, <2>1 DEF Passed
      <3>2. Cardinality(Passed(i)') <= Cardinality(Passed(i))
        BY <3>1, PassedCounted, FS_Subset
      <3>3. bucket[i].count \in Nat
        BY <1>0, <2>2 DEF Bucket
      <3> QED BY <1>0, <2>1, <2>2, <3>2, <3>3, PassedCounted, PassedCountedNext DEF Owed
    <2> QED BY <2>1, <2>2
  <1>10. ASSUME NEW c \in Client, NEW t \in Token, Verify(c, t) PROVE \A i \in known' : Owed(i)'
    BY <1>0, <1>1, <1>10 DEF Verify, limit
  <1>11. ASSUME NEW c \in Client, SavePassword(c) \/ SetPassword(c) PROVE \A i \in known' : Owed(i)'
    BY <1>0, <1>1, <1>11 DEF SavePassword, SetPassword, limit
  <1>12. ASSUME NEW c \in Client, DeleteAll(c) PROVE \A i \in known' : Owed(i)'
    BY <1>0, <1>1, <1>12 DEF DeleteAll, Done, limit
  <1>13. CASE Shutdown \/ PersistToDB \/ Boot
    BY <1>1, <1>13 DEF Shutdown, PersistToDB, Boot, limit, reqs
  <1>14. CASE Exit \/ Crash
    BY <1>14 DEF Exit, Crash, End
  <1> QED BY <1>2, <1>3, <1>4, <1>5, <1>6, <1>7, <1>8, <1>9, <1>10, <1>11, <1>12, <1>13, <1>14
          DEF Next

------------------------------------------------------------------------------
(* Theorems.                                                                *)

\* Every state of the store satisfies the inductive invariant.
LEMMA Invariance == Spec => []IInv
  <1>1. Init => IInv
    <2> SUFFICES ASSUME Init PROVE IInv OBVIOUS
    <2>1. TypeOK BY InitTyped
    <2>2. Ledger BY SessionsAssumption DEF Init, Ledger
    <2>3. EndedApart BY DEF Init, EndedApart, Stopped
    <2>4. PasswordsAgree BY DEF Init, PasswordsAgree, Stopped
    <2>5. FailuresOwed BY DEF Init, FailuresOwed
    <2> QED BY <2>1, <2>2, <2>3, <2>4, <2>5 DEF IInv
  <1>2. IInv /\ [Next]_vars => IInv'
    BY StepTyped, StepLedger, StepEnded, StepPasswords, StepFailures DEF IInv
  <1> QED BY <1>1, <1>2, PTL DEF Spec

\* The variables of the store, the limiter and the handlers keep their types.
THEOREM TypeCorrect == Spec => []TypeOK
  BY Invariance, PTL DEF IInv

\* A logout or a password change ends a session for good, across every number of
\* orderly restarts (PersistToDB, LoadFromDB).
THEOREM EndedForGood == Spec => []EndedStaysEnded
  <1>1. IInv => EndedStaysEnded
    BY DEF IInv, EndedApart, Clean, EndedStaysEnded
  <1> QED BY Invariance, <1>1, PTL

\* When ChangePassword is through, every session was granted on the password in
\* force, across restarts too, unless it overtook a login or another change.
THEOREM OnCurrentPassword == Spec => []SessionsOnCurrentPassword
  <1>1. IInv => SessionsOnCurrentPassword
    BY DEF IInv, PasswordsAgree, Clean, SessionsOnCurrentPassword
  <1> QED BY Invariance, <1>1, PTL

\* However many logins overlap between Allow and Record, an address gets no more
\* than the requests in progress beyond its attempts.
THEOREM LimitHolds == Spec => []FailuresBounded
  <1>1. ASSUME IInv PROVE FailuresBounded
    <2> SUFFICES ASSUME NEW i \in known
                 PROVE  bucket[i].count <= MaxAttempts - 1 + Cardinality(Client)
      BY DEF FailuresBounded
    <2>1. bucket[i].count + Cardinality(Passed(i)) <= MaxAttempts - 1 + Cardinality(Client)
      BY <1>1 DEF IInv, FailuresOwed
    <2>2. bucket[i].count \in Nat
      BY <1>1 DEF IInv, TypeOK
    <2> QED BY <2>1, <2>2, PassedCounted, SessionsAssumption
  <1> QED BY Invariance, <1>1, PTL

\* Every step of the store, of a handler or of main is a step of Access, or none.
LEMMA StepRefines == ASSUME TypeOK, [Next]_vars PROVE [A!Next]_(A!vars)
  <1>0. /\ mem \subseteq issued /\ disk \subseteq issued /\ issued \subseteq Token
        /\ expired \subseteq issued
    BY DEF TypeOK
  <1>1. ASSUME mem' \subseteq mem, UNCHANGED <<expired, disk, issued>> PROVE A!Revoke
    BY <1>1 DEF A!Revoke
  <1>2. CASE Age
    <2>1. A!Lapse
      BY <1>2 DEF Age, A!Lapse
    <2> QED BY <2>1 DEF A!Next
  <1>3. CASE Sweep \/ SweepLimiter \/ UNCHANGED vars
    <2>1. A!Revoke
      BY <1>1, <1>3 DEF Sweep, SweepLimiter, Drop, vars, store
    <2> QED BY <2>1 DEF A!Next
  <1>4. ASSUME NEW t \in Token, Request(t) \/ Logout(t) PROVE A!Revoke
    BY <1>1, <1>4 DEF Request, Logout, Drop
  <1>5. ASSUME NEW c \in Client, Allow(c) \/ ReadHash(c) \/ SavePassword(c) \/ SetPassword(c)
        PROVE  A!Revoke
    BY <1>1, <1>5 DEF Allow, ReadHash, SavePassword, SetPassword, store
  <1>6. ASSUME NEW c \in Client, Record(c) PROVE A!Revoke
    BY <1>1, <1>6 DEF Record, store
  <1>7. ASSUME NEW c \in Client, DeleteAll(c) PROVE A!Revoke
    BY <1>1, <1>7 DEF DeleteAll, Drop
  <1>8. ASSUME NEW c \in Client, NEW t \in Token, Create(c, t) PROVE A!Grant(t)
    <2>1. /\ t \in Token \ issued /\ issued' = issued \cup {t} /\ mem' = mem \cup {t}
          /\ UNCHANGED <<expired, disk>>
      BY <1>8 DEF Create
    <2>2. mem' \ expired' = (mem \ expired) \cup {t}
      BY <1>0, <2>1
    <2> QED BY <2>1, <2>2 DEF A!Grant
  <1>9. ASSUME NEW c \in Client, NEW t \in Token, Verify(c, t) PROVE A!Revoke
    BY <1>1, <1>9 DEF Verify, store
  <1>10. CASE Shutdown
    <2>1. A!Revoke
      BY <1>1, <1>10 DEF Shutdown, store
    <2> QED BY <2>1 DEF A!Next
  <1>11. CASE PersistToDB
    <2>1. /\ disk' = mem \ expired \/ disk' = disk
          /\ UNCHANGED <<mem, expired, issued>>
      BY <1>11 DEF PersistToDB
    <2>2. A!Keep \/ UNCHANGED A!vars
      BY <2>1 DEF A!Keep, A!vars
    <2> QED BY <2>2 DEF A!Next
  <1>12. CASE Exit \/ Crash
    <2>1. A!Revoke
      BY <1>1, <1>12 DEF Exit, Crash, End, Drop
    <2> QED BY <2>1 DEF A!Next
  <1>13. CASE Boot
    <2>1. A!Resume
      BY <1>13 DEF Boot, A!Resume
    <2> QED BY <2>1 DEF A!Next
  <1>14. ASSUME NEW c \in Client, NEW t \in Token, Create(c, t) PROVE A!Next
    BY <1>8, <1>14 DEF A!Next
  <1>15. A!Revoke => A!Next
    BY DEF A!Next
  <1> QED BY <1>2, <1>3, <1>4, <1>5, <1>6, <1>7, <1>9, <1>10, <1>11, <1>12, <1>13, <1>14, <1>15
          DEF Next

\* The session store implements module Access: a token comes to be accepted by a
\* login or by a start that follows a PersistToDB which found it accepted, and in
\* no other way, whatever interleaves, fails or crashes.
THEOREM StoreImplementsAccess == Spec => ImplementsAccess
  <1>1. Init => A!Init
    BY DEF Init, A!Init
  <1>2. IInv /\ [Next]_vars => [A!Next]_(A!vars)
    BY StepRefines DEF IInv
  <1> QED BY <1>1, <1>2, Invariance, PTL DEF Spec, ImplementsAccess, A!Spec

\* A token that was granted and is neither in force nor kept for the next start
\* (it was logged out, revoked or swept, and the table written since) never comes
\* back: a consequence of the promise of module Access alone.
THEOREM OutForGood == A!Spec => A!OutStaysOut
  <1>1. [A!Next]_(A!vars) =>
           [\A t \in issued \ ((mem \ expired) \cup (disk \ expired)) :
               t \notin (mem \ expired)' \cup (disk \ expired)']_(A!vars)
    BY DEF A!Next, A!vars, A!Grant, A!Revoke, A!Lapse, A!Keep, A!Resume
  <1> QED BY <1>1, PTL DEF A!Spec, A!OutStaysOut
==============================================================================
