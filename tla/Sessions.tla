------------------------------ MODULE Sessions ------------------------------
(***************************************************************************)
(* Who may use the console: the session store (auth/session.go), the login *)
(* limiter (auth/ratelimit.go), the middleware that admits requests, the   *)
(* handlers PostLogin, PostLogout and ChangePassword, and what of all this *)
(* survives a shutdown, a crash and a restart (main.go).                   *)
(*                                                                         *)
(* A password is a version number. A handler runs to its next call on      *)
(* shared state; between these, other handlers run. Time has no number: a  *)
(* session comes of age (24 h) or falls idle (4 h), the window (5 min) of   *)
(* an address passes, its lockout (15 min) ends, at any moment. Cookies    *)
(* and the CSRF token, which are checked without state, are left out.      *)
(***************************************************************************)
EXTENDS Naturals, FiniteSetsExt

CONSTANTS
    Token,          \* the values generateToken returns, each of them once
    Ip,             \* client addresses (ClientIP)
    Client,         \* requests in progress at one time
    MaxAttempts,    \* 5 in the code
    MaxPassword,    \* bound on password changes
    Faults,         \* how often each kind of fault may strike
    MaxFaults       \* and how many faults may strike altogether

\* crash: the process dies   db: a write fails   drain: srv.Shutdown gives up
\* after ten seconds while handlers still run    restart: an orderly shutdown
FaultKind == {"crash", "db", "drain", "restart"}

ASSUME SessionsAssumption ==
    /\ IsFiniteSet(Client)
    /\ MaxAttempts \in Nat \ {0} /\ MaxPassword \in Nat
    /\ Faults \in [FaultKind -> Nat] /\ MaxFaults \in Nat

VARIABLES
    daemon,         \* "up", "drain", "persisted" (both shutting down), "down"
    mem,            \* the tokens in Store.sessions
    idle,           \* those of mem with a LastSeenAt too long ago
    expired,        \* tokens past their ExpiresAt
    disk,           \* the tokens in the table Session
    issued,         \* tokens given out so far
    pw,             \* history: the password a token was granted on
    hash, saved,    \* cfg.AdminPasswordBcrypt and its row in AppSetting
    known, bucket,  \* LoginRateLimiter.buckets
    pc, addr,       \* each request: where it is, its address,
    word, target,   \* the new password of a change, the hash a login has read
    left,
    ended,          \* history: tokens logged out or revoked by a password change
    raced           \* history: a password change overtook a login or another change

store == <<mem, idle, expired, disk, issued, pw>>
limit == <<known, bucket>>
reqs  == <<pc, addr, word, target>>
pass  == <<hash, saved>>
hist  == <<ended, raced>>
vars  == <<daemon, store, pass, limit, reqs, left, hist>>

Spent == MapThenSumSet(LAMBDA x : Faults[x] - left[x], FaultKind)
Spend(x) == left[x] > 0 /\ Spent < MaxFaults /\ left' = [left EXCEPT ![x] = @ - 1]
Unused(K) == \A x \in K : left[x] = Faults[x]

\* A bucket that has just been made.
Fresh == [count |-> 0, window |-> "open", locked |-> FALSE]

Init ==
    /\ daemon = "up"
    /\ mem = {} /\ idle = {} /\ expired = {} /\ disk = {} /\ issued = {}
    /\ pw = [t \in Token |-> 0]
    /\ hash = 0 /\ saved = 0
    /\ known = {} /\ bucket = [i \in Ip |-> Fresh]
    /\ pc = [c \in Client |-> "idle"]
    /\ addr \in [Client -> Ip]
    /\ word = [c \in Client |-> 0] /\ target = [c \in Client |-> 0]
    /\ left = Faults /\ ended = {} /\ raced = FALSE

\* Time passes for a session, or for an address: a lockout outlasts the window.
Age ==
    /\ \/ \E t \in (mem \cup disk) \ expired : expired' = expired \cup {t} /\ UNCHANGED <<idle, bucket>>
       \/ \E t \in mem \ idle : idle' = idle \cup {t} /\ UNCHANGED <<expired, bucket>>
       \/ \E i \in known :
            /\ bucket' = [bucket EXCEPT ![i].window = "past",
                                        ![i].locked = @ /\ bucket[i].window = "open"]
            /\ UNCHANGED <<idle, expired>>
    /\ UNCHANGED <<daemon, mem, disk, issued, pw, pass, known, reqs, left, hist>>

------------------------------------------------------------------------------
(* The session store.                                                       *)

\* What Get and Sweep treat as gone.
Lapsed == mem \cap (expired \cup idle)

Valid == mem \ Lapsed

\* Tokens leave the map.
Drop(T) == mem' = mem \ T /\ idle' = idle \ T

\* Get and Touch, in Require: an admitted request renews the session, one that
\* is not deletes what is left of it.
Request(t) ==
    /\ daemon = "up" /\ t \in mem
    /\ IF t \in Valid THEN UNCHANGED <<mem, idle>> ELSE Drop({t})
    /\ UNCHANGED <<daemon, expired, disk, issued, pw, pass, limit, reqs, left, hist>>

\* PostLogout, behind Require.
Logout(t) ==
    /\ daemon = "up" /\ t \in Valid
    /\ Drop({t})
    /\ ended' = ended \cup {t}
    /\ UNCHANGED <<daemon, expired, disk, issued, pw, pass, limit, reqs, left, raced>>

Sweep ==
    /\ daemon \in {"up", "drain"} /\ Lapsed # {}
    /\ Drop(Lapsed)
    /\ UNCHANGED <<daemon, expired, disk, issued, pw, pass, limit, reqs, left, hist>>

------------------------------------------------------------------------------
(* PostLogin.                                                               *)

\* The window is renewed when it has passed.
Renewed(b) == IF b.window = "past" THEN Fresh ELSE b

M_Allow_OffByOne(c) ==
    LET i == addr[c]
        b == IF i \in known THEN Renewed(bucket[i]) ELSE Fresh
        go == b.count <= MaxAttempts
    IN  /\ daemon = "up" /\ pc[c] = "idle"
        /\ ~(i \in known /\ bucket[i].locked)
        /\ known' = known \cup {i}
        /\ bucket' = [bucket EXCEPT ![i] = IF go THEN b ELSE [b EXCEPT !.locked = TRUE]]
        /\ pc' = [pc EXCEPT ![c] = IF go THEN "form" ELSE "idle"]
        /\ UNCHANGED <<daemon, store, pass, addr, word, target, left, hist>>

\* Allow. A locked address is turned away and nothing changes; one that has used
\* its attempts is locked.
Allow(c) ==
    LET i == addr[c]
        b == IF i \in known THEN Renewed(bucket[i]) ELSE Fresh
        go == b.count < MaxAttempts
    IN  /\ daemon = "up" /\ pc[c] = "idle"
        /\ ~(i \in known /\ bucket[i].locked)
        /\ known' = known \cup {i}
        /\ bucket' = [bucket EXCEPT ![i] = IF go THEN b ELSE [b EXCEPT !.locked = TRUE]]
        /\ pc' = [pc EXCEPT ![c] = IF go THEN "form" ELSE "idle"]
        /\ UNCHANGED <<daemon, store, pass, addr, word, target, left, hist>>

Serving == daemon # "down"

\* The form is read, then the hash in force.
ReadHash(c) ==
    /\ Serving /\ pc[c] = "form"
    /\ target' = [target EXCEPT ![c] = hash]
    /\ pc' = [pc EXCEPT ![c] = "check"]
    /\ UNCHANGED <<daemon, store, pass, limit, addr, word, left, hist>>

Done(c) ==
    /\ pc' = [pc EXCEPT ![c] = "idle"]
    /\ word' = [word EXCEPT ![c] = 0] /\ target' = [target EXCEPT ![c] = 0]
    /\ UNCHANGED addr

\* bcrypt says that the password is not the one of the hash: Record.
Record(c) ==
    LET i == addr[c]
        b == IF i \in known THEN bucket[i] ELSE Fresh
    IN  /\ Serving /\ pc[c] = "check"
        /\ known' = known \cup {i}
        /\ bucket' = [bucket EXCEPT ![i] = [b EXCEPT !.count = b.count + 1]]
        /\ Done(c)
        /\ UNCHANGED <<daemon, store, pass, left, hist>>

M_Create_AnyToken(c, t) ==
    /\ Serving /\ pc[c] = "check"
    /\ t \in Token \ mem
    /\ issued' = issued \cup {t}
    /\ mem' = mem \cup {t}
    /\ pw' = [pw EXCEPT ![t] = target[c]]
    /\ Done(c)
    /\ UNCHANGED <<daemon, idle, expired, disk, pass, limit, left, hist>>

\* bcrypt says that it is: Create.
Create(c, t) ==
    /\ Serving /\ pc[c] = "check"
    /\ t \in Token \ issued
    /\ issued' = issued \cup {t}
    /\ mem' = mem \cup {t}
    /\ pw' = [pw EXCEPT ![t] = target[c]]
    /\ Done(c)
    /\ UNCHANGED <<daemon, idle, expired, disk, pass, limit, left, hist>>

\* LoginRateLimiter.Sweep, of buckets of which nothing is running any more.
SweepLimiter ==
    LET old == {i \in known : bucket[i].window = "past" /\ ~bucket[i].locked}
    IN  /\ daemon \in {"up", "drain"} /\ old # {}
        /\ known' = known \ old
        /\ bucket' = [i \in Ip |-> IF i \in old THEN Fresh ELSE bucket[i]]
        /\ UNCHANGED <<daemon, store, pass, reqs, left, hist>>

------------------------------------------------------------------------------
(* ChangePassword.                                                          *)

Changing(c) == pc[c] \in {"save", "set", "revoke"}

\* Behind Require; the current password is right and the new one is new.
Verify(c, t) ==
    /\ daemon = "up" /\ pc[c] = "idle" /\ t \in Valid
    /\ \E v \in 1..MaxPassword :
        /\ v > hash /\ v > saved /\ \A q \in Client : v > word[q]
        /\ word' = [word EXCEPT ![c] = v]
    /\ pc' = [pc EXCEPT ![c] = "save"]
    /\ UNCHANGED <<daemon, store, pass, limit, addr, target, left, hist>>

\* An error of the write is ignored.
SavePassword(c) ==
    /\ Serving /\ pc[c] = "save"
    /\ \/ saved' = word[c] /\ UNCHANGED left
       \/ Spend("db") /\ UNCHANGED saved
    /\ pc' = [pc EXCEPT ![c] = "set"]
    /\ UNCHANGED <<daemon, store, hash, limit, addr, word, target, hist>>

SetPassword(c) ==
    /\ Serving /\ pc[c] = "set"
    /\ hash' = word[c]
    /\ pc' = [pc EXCEPT ![c] = "revoke"]
    /\ raced' = (raced \/ \E q \in Client \ {c} : pc[q] = "check" \/ Changing(q))
    /\ UNCHANGED <<daemon, store, saved, limit, addr, word, target, left, ended>>

M_DeleteAll_OnlyOwn(c) ==
    /\ Serving /\ pc[c] = "revoke"
    /\ \E t \in mem : Drop({t})
    /\ ended' = ended \cup mem
    /\ Done(c)
    /\ UNCHANGED <<daemon, expired, disk, issued, pw, pass, limit, left, raced>>

DeleteAll(c) ==
    /\ Serving /\ pc[c] = "revoke"
    /\ Drop(mem)
    /\ ended' = ended \cup mem
    /\ Done(c)
    /\ UNCHANGED <<daemon, expired, disk, issued, pw, pass, limit, left, raced>>

------------------------------------------------------------------------------
(* Shutdown and start.                                                      *)

\* SIGTERM: srv.Shutdown takes no new requests and waits for those in progress.
Shutdown ==
    /\ daemon = "up" /\ Spend("restart")
    /\ daemon' = "drain"
    /\ UNCHANGED <<store, pass, limit, reqs, hist>>

Drained == \A c \in Client : pc[c] = "idle"

M_PersistToDB_Adds ==
    /\ daemon = "drain"
    /\ Drained /\ disk' = disk \cup (mem \ expired) /\ UNCHANGED left
    /\ daemon' = "persisted"
    /\ UNCHANGED <<mem, idle, expired, issued, pw, pass, limit, reqs, hist>>

\* PersistToDB, when the handlers are done or after ten seconds. The table is
\* replaced by the sessions that have not expired, in one transaction.
PersistToDB ==
    /\ daemon = "drain"
    /\ \/ Drained /\ disk' = mem \ expired /\ UNCHANGED left
       \/ Drained /\ Spend("db") /\ UNCHANGED disk
       \/ ~Drained /\ Spend("drain") /\ disk' = mem \ expired
    /\ daemon' = "persisted"
    /\ UNCHANGED <<mem, idle, expired, issued, pw, pass, limit, reqs, hist>>

\* The process ends, with all it had in memory.
End ==
    /\ daemon' = "down"
    /\ Drop(mem)
    /\ known' = {} /\ bucket' = [i \in Ip |-> Fresh]
    /\ pc' = [c \in Client |-> "idle"]
    /\ word' = [c \in Client |-> 0] /\ target' = [c \in Client |-> 0]
    /\ UNCHANGED <<expired, disk, issued, pw, pass, addr, hist>>

Exit == daemon = "persisted" /\ End /\ UNCHANGED left

Crash == daemon \in {"up", "drain"} /\ Spend("crash") /\ End

\* LoadFromDB and loadPersistedSettings.
Boot ==
    /\ daemon = "down"
    /\ daemon' = "up"
    /\ mem' = disk \ expired /\ idle' = {}
    /\ hash' = saved
    /\ UNCHANGED <<expired, disk, issued, pw, saved, limit, reqs, left, hist>>

Next ==
    \/ Age \/ Sweep \/ SweepLimiter
    \/ \E t \in Token : Request(t) \/ Logout(t)
    \/ \E c \in Client :
        \/ Allow(c) \/ ReadHash(c) \/ Record(c) \/ SavePassword(c) \/ SetPassword(c) \/ DeleteAll(c)
        \/ \E t \in Token : Create(c, t) \/ Verify(c, t)
    \/ Shutdown \/ PersistToDB \/ Exit \/ Crash \/ Boot

Spec == Init /\ [][Next]_vars

------------------------------------------------------------------------------
(* Properties.                                                              *)

\* Every variable stays in its type.
TypeOK ==
    /\ daemon \in {"up", "drain", "persisted", "down"}
    /\ mem \subseteq issued /\ disk \subseteq issued /\ issued \subseteq Token
    /\ idle \subseteq mem /\ expired \subseteq issued
    /\ pw \in [Token -> 0..MaxPassword]
    /\ hash \in 0..MaxPassword /\ saved \in 0..MaxPassword
    /\ known \subseteq Ip
    /\ bucket \in [Ip -> [count : Nat, window : {"open", "past"}, locked : BOOLEAN]]
    /\ pc \in [Client -> {"idle", "form", "check", "save", "set", "revoke"}]
    /\ addr \in [Client -> Ip]
    /\ word \in [Client -> 0..MaxPassword] /\ target \in [Client -> 0..MaxPassword]
    /\ left \in [FaultKind -> Nat] /\ ended \subseteq Token /\ raced \in BOOLEAN

\* The tokens Get would accept but for idleness, and those LoadFromDB would.
A == INSTANCE Access WITH live <- mem \ expired, kept <- disk \ expired, used <- issued

\* The session store implements Access: whatever handlers, sweeps, restarts and
\* crashes interleave, a token comes to be accepted only by a login or because
\* the last PersistToDB wrote it, and that only of tokens accepted then.
ImplementsAccess == A!Spec

\* A token that was logged out, or revoked by a password change, is not accepted
\* again, across restarts too. A crash brings back what the shutdown before it
\* wrote, as does a PersistToDB that fails or comes before a late handler.
EndedStaysEnded ==
    Unused({"crash", "db", "drain"}) => ended \cap mem = {}

\* settings.go:661 "Invalidate all active sessions so anyone holding an old
\* session must re-authenticate": once no password change is in progress, every
\* session was granted on the password in force. The exceptions are those of
\* EndedStaysEnded, and a change that overtakes a login that has read the old
\* hash, or another change.
SessionsOnCurrentPassword ==
    /\ Unused({"crash", "db", "drain"}) /\ ~raced
    /\ \A c \in Client : pc[c] # "revoke"
    => \A t \in mem : pw[t] = hash

\* ratelimit.go:9 "5 attempts per 5 minutes": the failures counted in one window
\* exceed the limit by no more than the requests that can have passed Allow
\* before the last of them was recorded.
FailuresBounded ==
    \A i \in known : bucket[i].count <= MaxAttempts - 1 + Cardinality(Client)
==============================================================================
