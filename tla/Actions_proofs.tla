---------------------------- MODULE Actions_proofs ----------------------------
(***************************************************************************)
(* For any number of messages, actors, requests and faults: an action at   *)
(* the address its row is keyed by hits no other message, what a user has  *)
(* decided stands against the retro scanner, every move is logged, and the *)
(* row and the mailbox part only after a call that found nothing.          *)
(*                                                                         *)
(* The first rests on the server, which never gives an address to a second *)
(* message, and on the daemon, which writes into a row's key only what was *)
(* an address of the row's own message. The last two look at one message   *)
(* at a time: who has acted on it, and what it still has to write.         *)
(***************************************************************************)
EXTENDS Actions, FiniteSetTheorems, TLAPS

\* The server's addresses.
Unique ==
    /\ \A h \in held : h[2] < uidNext[h[1]]
    /\ \A m, n \in Msg, f \in Folder, u \in Nat : <<f, u, m>> \in held /\ <<f, u, n>> \in held => m = n
    /\ \A m \in Msg : folder[m] # "gone" => <<folder[m], uid[m], m>> \in held

\* Which of its messages an actor can be at the same stage with.
OneAtATime ==
    \A a \in Actor :
        /\ op[a] = "none" => \A m \in Msg : stage[a][m] = "no"
        /\ op[a] \in {"quarantine", "rescan"} =>
              \A m, n \in Msg : stage[a][m] # "no" /\ stage[a][n] # "no" => m = n
        /\ op[a] = "retro" =>
              \A m, n \in Msg : stage[a][m] = "acted" /\ stage[a][n] = "acted" => m = n

\* The address at is one that message m has had.
Had(at, m) == <<at[1], at[2], m>> \in held

Active == {"read", "claimed", "acted", "failed"}

\* Keys, in rows and in the copies that actors work on, are of their own message;
\* and so is what an actor is about to write into one.
OwnKeys ==
    /\ \A m \in Msg : Had(rows[m].key, m)
    /\ \A a \in Actor, m \in Msg : stage[a][m] \in Active => Had(snap[a][m].key, m)
    /\ \A a \in Actor, m \in Msg, n \in Msg :
          op[a] = "rescan" /\ stage[a][m] \in {"claimed", "acted", "failed"} /\ n \in target[a].row
             => Had(snap[a][m].at, n)
    /\ \A a \in Actor, m \in Msg, u \in Nat :
          op[a] \in {"quarantine", "retro"} /\ stage[a][m] = "acted" /\ u \in nuid[a]
             => Had(<<"Quarantine", u>>, m)
    /\ \A a \in Actor, m \in Msg, n \in Msg, u \in Nat :
          op[a] = "rescan" /\ stage[a][m] = "acted" /\ u \in nuid[a]
             /\ target[a].dec = "quarantine" /\ n \in target[a].row
             => Had(<<"Quarantine", u>>, n)

Own == blind = {} => strayed = {} /\ OwnKeys

IInv == TypeOK /\ Unique /\ OneAtATime /\ Own

------------------------------------------------------------------------------
(* Types.                                                                   *)

\* One fault less is left.
LEMMA SpendTyped ==
    ASSUME left \in [FaultKind -> Nat], NEW k \in FaultKind, Spend(k)
    PROVE  left' \in [FaultKind -> Nat]
  BY DEF Spend

\* The work of an actor moves on for some messages and stays for the others.
LEMMA AdvanceTyped ==
    ASSUME stage \in [Actor -> [Msg -> StageType]], NEW a \in Actor, NEW M, NEW s \in StageType,
           Advance(a, M, s)
    PROVE  /\ stage' \in [Actor -> [Msg -> StageType]]
           /\ \A m \in Msg : stage'[a][m] = IF m \in M THEN s ELSE stage[a][m]
           /\ \A b \in Actor \ {a} : stage'[b] = stage[b]
  BY Zenon DEF Advance

\* The row of a message in quarantine.
LEMMA RequarantinedTyped ==
    ASSUME NEW r \in RowType, NEW new \in SUBSET Nat
    PROVE  /\ Requarantined(r, new) \in RowType
           /\ [Requarantined(r, new) EXCEPT !.status = "QUARANTINED"] \in RowType
           /\ Requarantined(r, new).key = [Requarantined(r, new) EXCEPT !.status = "QUARANTINED"].key
           /\ \/ Requarantined(r, new).key = r.key
              \/ \E u \in new : Requarantined(r, new).key = <<"Quarantine", u>>
  <1>1. "Quarantine" \in Folder /\ "QUARANTINED" \in AutoStatus
    BY Zenon DEF Folder, AutoStatus
  <1>s. /\ r.status \in AutoStatus \cup UserStatus /\ r.at \in Address /\ r.key \in Address
        /\ r = [status |-> r.status, at |-> r.at, key |-> r.key]
    BY Zenon DEF RowType
  <1>2. CASE new = {}
    <2>1. <<"Quarantine", r.at[2]>> \in Address
      BY <1>1, <1>s, Zenon DEF Address
    <2>2. Requarantined(r, new) = [status |-> r.status, at |-> <<"Quarantine", r.at[2]>>, key |-> r.key]
      BY <1>2, <1>s, Zenon DEF Requarantined
    <2>3. Requarantined(r, new) \in RowType
      BY <1>s, <2>1, <2>2 DEF RowType
    <2>4. [Requarantined(r, new) EXCEPT !.status = "QUARANTINED"]
             = [status |-> "QUARANTINED", at |-> <<"Quarantine", r.at[2]>>, key |-> r.key]
      BY <2>2
    <2>5. [Requarantined(r, new) EXCEPT !.status = "QUARANTINED"] \in RowType
      BY <1>1, <1>s, <2>1, <2>4, Zenon DEF RowType
    <2> QED BY <2>2, <2>3, <2>4, <2>5, Zenon
  <1>3. CASE new # {}
    <2>1. PICK u \in new : u = CHOOSE x \in new : TRUE
      BY <1>3, Zenon
    <2>2. <<"Quarantine", u>> \in Address
      BY <1>1, Zenon DEF Address
    <2>3. Requarantined(r, new)
             = [status |-> r.status, at |-> <<"Quarantine", u>>, key |-> <<"Quarantine", u>>]
      BY <1>3, <1>s, <2>1, Zenon DEF Requarantined
    <2>4. Requarantined(r, new) \in RowType
      BY <1>s, <2>2, <2>3 DEF RowType
    <2>5. [Requarantined(r, new) EXCEPT !.status = "QUARANTINED"]
             = [status |-> "QUARANTINED", at |-> <<"Quarantine", u>>, key |-> <<"Quarantine", u>>]
      BY <2>3
    <2>6. [Requarantined(r, new) EXCEPT !.status = "QUARANTINED"] \in RowType
      BY <1>1, <2>2, <2>5, Zenon DEF RowType
    <2> QED BY <2>3, <2>4, <2>5, <2>6, Zenon
  <1> QED BY <1>2, <1>3, Zenon

\* MOVE and EXPUNGE keep the server's variables in their types, give no address
\* twice, and move a message to an address that is recorded as its own.
LEMMA EffectSound ==
    ASSUME TypeOK, Unique, NEW V \in SUBSET Msg, NEW f \in Folder, MoveTo(V, f) \/ Expunge(V)
    PROVE  /\ folder' \in [Msg -> Folder \cup {"gone"}] /\ uid' \in [Msg -> Nat]
           /\ uidNext' \in [Folder -> Nat] /\ held' \subseteq Folder \X Nat \X Msg
           /\ Unique' /\ held \subseteq held'
           /\ MoveTo(V, f) => \A v \in V : <<f, uid'[v], v>> \in held'
  <1>0. /\ folder \in [Msg -> Folder \cup {"gone"}] /\ uid \in [Msg -> Nat]
        /\ uidNext \in [Folder -> Nat] /\ held \subseteq Folder \X Nat \X Msg
    BY Zenon DEF TypeOK
  <1>1. CASE Expunge(V)
    <2>1. /\ folder' = [v \in Msg |-> IF v \in V THEN "gone" ELSE folder[v]]
          /\ UNCHANGED <<uid, uidNext, held>>
      BY <1>1, Zenon DEF Expunge
    <2>2. Unique'
      BY <1>0, <2>1, Zenon DEF Unique
    <2>3. folder' \in [Msg -> Folder \cup {"gone"}]
      BY <1>0, <2>1, Zenon
    <2>4. ASSUME MoveTo(V, f), NEW v \in V PROVE <<f, uid'[v], v>> \in held'
      BY <1>0, <2>4, Zenon DEF MoveTo
    <2> QED BY <1>0, <2>1, <2>2, <2>3, <2>4, Zenon
  <1>2. CASE MoveTo(V, f)
    <2>0. Cardinality(V) \in Nat
      BY ActionsAssumption, FS_Subset, FS_CardinalityType, Zenon
    <2>1. PICK new \in [V -> uidNext[f] .. uidNext[f] + Cardinality(V) - 1] :
              /\ \A v, w \in V : new[v] = new[w] => v = w
              /\ folder' = [v \in Msg |-> IF v \in V THEN f ELSE folder[v]]
              /\ uid' = [v \in Msg |-> IF v \in V THEN new[v] ELSE uid[v]]
              /\ uidNext' = [uidNext EXCEPT ![f] = uidNext[f] + Cardinality(V)]
              /\ held' = held \cup {<<f, new[v], v>> : v \in V}
      BY <1>2, Zenon DEF MoveTo
    <2>2. \A v \in V : new[v] \in Nat /\ new[v] >= uidNext[f] /\ new[v] < uidNext[f] + Cardinality(V)
      BY <1>0, <2>0, <2>1
    <2>3. folder' \in [Msg -> Folder \cup {"gone"}] /\ uid' \in [Msg -> Nat] /\ uidNext' \in [Folder -> Nat]
      BY <1>0, <2>0, <2>1, <2>2
    <2>4. held' \subseteq Folder \X Nat \X Msg /\ held \subseteq held'
      BY <1>0, <2>1, <2>2
    <2>5. \A h \in held' : h[2] < uidNext'[h[1]]
      <3>1. ASSUME NEW h \in held PROVE h[2] < uidNext'[h[1]]
        <4>1. h[1] \in Folder /\ h[2] \in Nat /\ h[2] < uidNext[h[1]]
          BY <1>0, Zenon DEF Unique
        <4>2. uidNext'[h[1]] >= uidNext[h[1]] /\ uidNext'[h[1]] \in Nat
          BY <1>0, <2>0, <2>1, <4>1
        <4> QED BY <1>0, <4>1, <4>2
      <3>2. ASSUME NEW v \in V PROVE new[v] < uidNext'[f]
        BY <1>0, <2>0, <2>1, <2>2, Zenon
      <3> QED BY <2>1, <3>1, <3>2
    <2>6. ASSUME NEW m \in Msg, NEW n \in Msg, NEW g \in Folder, NEW u \in Nat,
                 <<g, u, m>> \in held', <<g, u, n>> \in held'
          PROVE  m = n
      <3>1. ASSUME NEW x \in Msg, <<g, u, x>> \in held PROVE u < uidNext[g]
        BY <3>1, Zenon DEF Unique
      <3>2. ASSUME NEW x \in Msg, <<g, u, x>> \in held' \ held
            PROVE  x \in V /\ g = f /\ u = new[x] /\ u >= uidNext[f]
        BY <2>1, <2>2, <3>2, Zenon
      <3>3. CASE <<g, u, m>> \in held /\ <<g, u, n>> \in held
        BY <3>3, Zenon DEF Unique
      <3>4. CASE <<g, u, m>> \notin held /\ <<g, u, n>> \notin held
        BY <2>1, <2>6, <3>2, <3>4, Zenon
      <3>5. CASE (<<g, u, m>> \in held) # (<<g, u, n>> \in held)
        BY <1>0, <2>6, <3>1, <3>2, <3>5
      <3> QED BY <3>3, <3>4, <3>5, Zenon
    <2>7. \A m \in Msg : folder'[m] # "gone" => <<folder'[m], uid'[m], m>> \in held'
      BY <1>0, <2>1 DEF Unique
    <2>8. \A v \in V : <<f, uid'[v], v>> \in held'
      BY <1>0, <2>1, Zenon
    <2> QED BY <2>3, <2>4, <2>5, <2>6, <2>7, <2>8, Zenon DEF Unique
  <1> QED BY <1>1, <1>2, Zenon

\* What a call addresses.
LEMMA GroupTyped ==
    ASSUME TypeOK, NEW a \in Actor, NEW m \in Msg
    PROVE  /\ Source(a, m) \in Folder /\ Group(a, m) \subseteq Msg
           /\ op[a] \notin Bulk => Group(a, m) = {m}
           /\ \A f, G : Addressed(a, G, f) \in SUBSET Msg
  <1>1. op \in [Actor -> OpType] /\ snap \in [Actor -> [Msg -> RowType]]
    BY Zenon DEF TypeOK
  <1>2. snap[a][m].at \in Folder \X Nat
    BY <1>1, Zenon DEF RowType, Address
  <1>3. Source(a, m) \in Folder
    BY <1>2, Zenon DEF Source, Folder
  <1>4. Group(a, m) \subseteq Msg /\ (op[a] \notin Bulk => Group(a, m) = {m})
    BY Zenon DEF Group, At
  <1>5. \A f, G : Addressed(a, G, f) \in SUBSET Msg
    BY Zenon DEF Addressed
  <1> QED BY <1>3, <1>4, <1>5, Zenon

\* A call that takes effect: the server as EffectSound says, and the history.
LEMMA CallSound ==
    ASSUME TypeOK, Unique, NEW a \in Actor, NEW G \in SUBSET Msg, NEW f \in Folder,
           Effect(a, Addressed(a, G, f)), Record(a, G, f)
    PROVE  /\ folder' \in [Msg -> Folder \cup {"gone"}] /\ uid' \in [Msg -> Nat]
           /\ uidNext' \in [Folder -> Nat] /\ held' \subseteq Folder \X Nat \X Msg
           /\ Unique' /\ held \subseteq held'
           /\ missed' \subseteq Msg /\ rescanned' = rescanned
           /\ strayed' \subseteq Msg \X Msg /\ blind' \subseteq Msg \X Msg /\ blind \subseteq blind'
           /\ op[a] \in Moves /\ (op[a] = "rescan" => target[a].dec # "delete")
                 => \A v \in Addressed(a, G, f) : <<"Quarantine", uid'[v], v>> \in held'
  <1> DEFINE V == Addressed(a, G, f)
  <1>0. V \in SUBSET Msg
    BY Zenon DEF Addressed
  <1>1. /\ missed \subseteq Msg /\ strayed \subseteq Msg \X Msg /\ blind \subseteq Msg \X Msg
    BY Zenon DEF TypeOK
  <1>2. missed' \subseteq Msg /\ rescanned' = rescanned
    BY <1>1, Zenon DEF Record
  <1>3. strayed' \subseteq Msg \X Msg /\ blind' \subseteq Msg \X Msg /\ blind \subseteq blind'
    BY <1>0, <1>1, Zenon DEF Record
  <1>4. "INBOX" \in Folder /\ "Quarantine" \in Folder
    BY Zenon DEF Folder
  <1>5. CASE op[a] \in Releases
    <2>1. MoveTo(V, "INBOX") /\ op[a] \notin Moves
      BY <1>5, Zenon DEF Effect, Releases, Moves
    <2> HIDE DEF V
    <2> QED BY <1>0, <1>2, <1>3, <1>4, <2>1, EffectSound, Zenon DEF V
  <1>6. CASE op[a] \notin Releases /\ (op[a] = "delete" \/ (op[a] = "rescan" /\ target[a].dec = "delete"))
    <2>1. Expunge(V)
      BY <1>6, Zenon DEF Effect
    <2>2. ~(op[a] \in Moves /\ (op[a] = "rescan" => target[a].dec # "delete"))
      BY <1>6, Zenon DEF Moves
    <2> HIDE DEF V
    <2> QED BY <1>0, <1>2, <1>3, <1>4, <2>1, <2>2, EffectSound, Zenon
  <1>7. CASE op[a] \notin Releases /\ ~(op[a] = "delete" \/ (op[a] = "rescan" /\ target[a].dec = "delete"))
    <2>1. MoveTo(V, "Quarantine")
      BY <1>7, Zenon DEF Effect
    <2> HIDE DEF V
    <2>2. /\ folder' \in [Msg -> Folder \cup {"gone"}] /\ uid' \in [Msg -> Nat]
          /\ uidNext' \in [Folder -> Nat] /\ held' \subseteq Folder \X Nat \X Msg
          /\ Unique' /\ held \subseteq held'
          /\ \A v \in V : <<"Quarantine", uid'[v], v>> \in held'
      BY <1>0, <1>4, <2>1, EffectSound, Zenon
    <2> QED BY <1>2, <1>3, <2>2, Zenon DEF V
  <1> QED BY <1>5, <1>6, <1>7, Zenon

\* In a run in which no call has gone to an address of another message, a call
\* hits the messages it is meant for.
LEMMA Aimed ==
    ASSUME TypeOK, Unique, Own, NEW a \in Actor, NEW G \in SUBSET Msg, NEW f \in Folder,
           \A n \in G : stage[a][n] \in Active, Record(a, G, f), blind' = {}
    PROVE  /\ strayed' = {}
           /\ \A n \in G, v \in Addressed(a, G, f) : snap[a][n].at[2] = uid[v] => n = v
  <1> DEFINE V == Addressed(a, G, f)
             hits == {h \in G \X V : h[1] # h[2] /\ snap[a][h[1]].at[2] = uid[h[2]]}
  <1>0. /\ snap \in [Actor -> [Msg -> RowType]] /\ uid \in [Msg -> Nat]
        /\ V \in SUBSET Msg
    BY Zenon DEF TypeOK, Addressed
  <1>1. /\ strayed' = strayed \cup {h \in hits : Sure(a, h[1], f)}
        /\ blind' = blind \cup {h \in hits : ~Sure(a, h[1], f)}
    BY Zenon DEF Record
  <1>2. blind = {} /\ strayed = {} /\ OwnKeys
    BY <1>1, Zenon DEF Own
  <1>3. ASSUME NEW n \in G, NEW v \in V, snap[a][n].at[2] = uid[v], n # v PROVE FALSE
    <2>1. <<n, v>> \in hits
      BY <1>3, Zenon
    <2>2. Sure(a, n, f)
      BY <1>1, <2>1
    <2>3. snap[a][n].key[1] = f /\ snap[a][n].key[2] = uid[v]
      BY <1>3, <2>2, Zenon DEF Sure
    <2>4. <<f, uid[v], n>> \in held
      BY <1>2, <2>3, Zenon DEF OwnKeys, Had
    <2>5. folder[v] = f /\ f # "gone"
      BY Zenon DEF Addressed, Folder
    <2>6. <<f, uid[v], v>> \in held
      BY <1>0, <2>5, Zenon DEF Unique
    <2>7. n \in Msg /\ v \in Msg /\ uid[v] \in Nat
      BY <1>0, Zenon
    <2> QED BY <1>3, <2>4, <2>6, <2>7, Zenon DEF Unique
  <1>4. hits = {}
    BY <1>3, Zenon
  <1> QED BY <1>1, <1>2, <1>3, <1>4, Zenon

\* What a step leaves alone keeps its type.
LEMMA ServerTyped ==
    ASSUME TypeOK, UNCHANGED <<server, missed, strayed, blind>>
    PROVE  /\ folder' \in [Msg -> Folder \cup {"gone"}] /\ uid' \in [Msg -> Nat]
           /\ uidNext' \in [Folder -> Nat] /\ held' \subseteq Folder \X Nat \X Msg
           /\ missed' \subseteq Msg /\ strayed' \subseteq Msg \X Msg /\ blind' \subseteq Msg \X Msg
  BY Zenon DEF TypeOK, server

\* The actions that write rows, and those that only read them.
Reading(a) ==
    \/ Finish(a)
    \/ \E M \in SUBSET Msg : (\E o \in Requests, m \in M : Ask(a, o, M, m)) \/ Sweep(a, M)
    \/ \E m \in Msg : ReadNext(a, m) \/ Refuse(a, m) \/ WriteFails(a, m)

Calling(a) == \E m \in Msg : CallSucceeds(a, m) \/ CallFails(a, m)

Writing(a) ==
    \E m \in Msg :
        \/ UpdateStatus(a, m) \/ WriteQuarantine(a, m) \/ WriteClawback(a, m)
        \/ (\E d \in Decision : RescanUpsert(a, m, d)) \/ RescanUpsertFails(a, m)
        \/ RescanRekey(a, m) \/ RescanRevert(a, m) \/ RescanWriteFails(a, m)

LEMMA Steps ==
    ASSUME [Next]_vars
    PROVE  (\E a \in Actor : Reading(a) \/ Calling(a) \/ Writing(a)) \/ UNCHANGED vars
  BY Zenon DEF Next, Step, Reading, Calling, Writing, Idle

LEMMA ReadingTyped ==
    ASSUME TypeOK, NEW a \in Actor, Reading(a)
    PROVE  TypeOK'
  <1>0. /\ rows \in [Msg -> RowType] /\ op \in [Actor -> OpType]
        /\ stage \in [Actor -> [Msg -> StageType]] /\ snap \in [Actor -> [Msg -> RowType]]
        /\ nuid \in [Actor -> SUBSET Nat] /\ target \in [Actor -> [row : SUBSET Msg, dec : Decision]]
        /\ left \in [FaultKind -> Nat]
    BY Zenon DEF TypeOK
  <1>t. /\ "none" \in OpType /\ "retro" \in OpType /\ Requests \subseteq OpType
        /\ "no" \in StageType /\ "read" \in StageType /\ "todo" \in StageType
        /\ "ask" \in FaultKind /\ "db" \in FaultKind
    BY Zenon DEF OpType, StageType, FaultKind
  <1>u. UNCHANGED <<server, store, history>>
    BY Zenon DEF Reading, Finish, Ask, Sweep, ReadNext, Refuse, WriteFails
  <1>f. ASSUME /\ op' \in [Actor -> OpType] /\ stage' \in [Actor -> [Msg -> StageType]]
               /\ snap' \in [Actor -> [Msg -> RowType]] /\ nuid' \in [Actor -> SUBSET Nat]
               /\ target' \in [Actor -> [row : SUBSET Msg, dec : Decision]] /\ left' \in [FaultKind -> Nat]
        PROVE  TypeOK'
    BY <1>u, <1>f, Zenon DEF TypeOK, server, store, history
  <1>1. CASE Finish(a)
    <2>1. NoRow \in RowType
      BY Zenon DEF NoRow, RowType, Address, Folder, AutoStatus
    <2>2. NoTarget \in [row : SUBSET Msg, dec : Decision]
      BY Zenon DEF NoTarget, Decision
    <2>3. snap' \in [Actor -> [Msg -> RowType]] /\ UNCHANGED <<stage, left>>
      BY <1>0, <1>1, <2>1, Zenon DEF Finish
    <2>4. target' \in [Actor -> [row : SUBSET Msg, dec : Decision]]
      BY <1>0, <1>1, <2>2, Zenon DEF Finish
    <2>5. nuid' \in [Actor -> SUBSET Nat] /\ op' \in [Actor -> OpType]
      BY <1>0, <1>1, <1>t, Zenon DEF Finish
    <2> QED BY <1>0, <1>f, <2>3, <2>4, <2>5, Zenon
  <1>2. ASSUME NEW M \in SUBSET Msg, NEW o \in Requests, NEW m \in M, Ask(a, o, M, m) PROVE TypeOK'
    <2>1. left' \in [FaultKind -> Nat]
      BY <1>0, <1>2, <1>t, SpendTyped, Zenon DEF Ask
    <2>2. snap' \in [Actor -> [Msg -> RowType]]
      BY <1>0, <1>2, Zenon DEF Ask
    <2>3. stage' \in [Actor -> [Msg -> StageType]]
      BY <1>0, <1>2, <1>t, Zenon DEF Ask
    <2>4. op' \in [Actor -> OpType] /\ UNCHANGED <<nuid, target>>
      BY <1>0, <1>2, <1>t, Zenon DEF Ask
    <2> QED BY <1>0, <1>f, <2>1, <2>2, <2>3, <2>4, Zenon
  <1>3. ASSUME NEW M \in SUBSET Msg, Sweep(a, M) PROVE TypeOK'
    <2>1. left' \in [FaultKind -> Nat]
      BY <1>0, <1>3, <1>t, SpendTyped, Zenon DEF Sweep
    <2>2. snap' \in [Actor -> [Msg -> RowType]]
      BY <1>0, <1>3, Zenon DEF Sweep
    <2>3. stage' \in [Actor -> [Msg -> StageType]]
      BY <1>0, <1>3, <1>t, AdvanceTyped, Zenon DEF Sweep
    <2>4. op' \in [Actor -> OpType] /\ UNCHANGED <<nuid, target>>
      BY <1>0, <1>3, <1>t, Zenon DEF Sweep
    <2> QED BY <1>0, <1>f, <2>1, <2>2, <2>3, <2>4, Zenon
  <1>4. ASSUME NEW m \in Msg, ReadNext(a, m) PROVE TypeOK'
    <2>1. snap' \in [Actor -> [Msg -> RowType]]
      BY <1>0, <1>4, Zenon DEF ReadNext
    <2>2. stage' \in [Actor -> [Msg -> StageType]] /\ UNCHANGED <<op, nuid, target, left>>
      BY <1>0, <1>4, <1>t, Zenon DEF ReadNext
    <2> QED BY <1>0, <1>f, <2>1, <2>2, Zenon
  <1>5. ASSUME NEW m \in Msg, Refuse(a, m) PROVE TypeOK'
    <2>1. stage' \in [Actor -> [Msg -> StageType]]
      BY <1>0, <1>5, <1>t, AdvanceTyped, Zenon DEF Refuse
    <2> QED BY <1>0, <1>5, <1>f, <2>1, Zenon DEF Refuse
  <1>6. ASSUME NEW m \in Msg, WriteFails(a, m) PROVE TypeOK'
    <2>1. stage' \in [Actor -> [Msg -> StageType]]
      BY <1>0, <1>6, <1>t, AdvanceTyped, Zenon DEF WriteFails
    <2>2. left' \in [FaultKind -> Nat]
      BY <1>0, <1>6, <1>t, SpendTyped, Zenon DEF WriteFails
    <2> QED BY <1>0, <1>6, <1>f, <2>1, <2>2, Zenon DEF WriteFails
  <1> QED BY <1>1, <1>2, <1>3, <1>4, <1>5, <1>6, Zenon DEF Reading

LEMMA CallingTyped ==
    ASSUME TypeOK, Unique, NEW a \in Actor, Calling(a)
    PROVE  TypeOK' /\ Unique' /\ held \subseteq held' /\ blind \subseteq blind'
  <1>0. /\ stage \in [Actor -> [Msg -> StageType]] /\ nuid \in [Actor -> SUBSET Nat]
        /\ left \in [FaultKind -> Nat]
    BY Zenon DEF TypeOK
  <1>t. /\ "no" \in StageType /\ "acted" \in StageType /\ "failed" \in StageType
        /\ "imap" \in FaultKind /\ "uid" \in FaultKind
    BY Zenon DEF StageType, FaultKind
  <1>u. UNCHANGED <<store, op, snap, target>>
    BY Zenon DEF Calling, CallSucceeds, CallFails
  <1>f. ASSUME /\ folder' \in [Msg -> Folder \cup {"gone"}] /\ uid' \in [Msg -> Nat]
               /\ uidNext' \in [Folder -> Nat] /\ held' \subseteq Folder \X Nat \X Msg
               /\ missed' \subseteq Msg /\ rescanned' = rescanned
               /\ strayed' \subseteq Msg \X Msg /\ blind' \subseteq Msg \X Msg
               /\ stage' \in [Actor -> [Msg -> StageType]] /\ nuid' \in [Actor -> SUBSET Nat]
               /\ left' \in [FaultKind -> Nat]
        PROVE  TypeOK'
    BY <1>u, <1>f, Zenon DEF TypeOK, store
  <1>1. ASSUME NEW m \in Msg, CallSucceeds(a, m)
        PROVE  TypeOK' /\ Unique' /\ held \subseteq held' /\ blind \subseteq blind'
    <2> DEFINE G == Group(a, m)
               f == Source(a, m)
               V == Addressed(a, G, f)
    <2>1. G \in SUBSET Msg /\ f \in Folder /\ V \in SUBSET Msg
      BY GroupTyped, Zenon
    <2>2. /\ Effect(a, V) /\ Record(a, G, f) /\ Advance(a, G, "acted")
          /\ \/ /\ nuid' = [nuid EXCEPT ![a] = IF op[a] \in Moves THEN {uid'[v] : v \in V} ELSE {}]
                /\ UNCHANGED left
             \/ /\ Spend("uid")
                /\ nuid' = [nuid EXCEPT ![a] = {}]
      BY <1>1, Zenon DEF CallSucceeds
    <2> HIDE DEF G, f
    <2>3. /\ folder' \in [Msg -> Folder \cup {"gone"}] /\ uid' \in [Msg -> Nat]
          /\ uidNext' \in [Folder -> Nat] /\ held' \subseteq Folder \X Nat \X Msg
          /\ Unique' /\ held \subseteq held' /\ missed' \subseteq Msg /\ rescanned' = rescanned
          /\ strayed' \subseteq Msg \X Msg /\ blind' \subseteq Msg \X Msg /\ blind \subseteq blind'
      BY <2>1, <2>2, CallSound, Zenon
    <2> HIDE DEF V
    <2>4. nuid' \in [Actor -> SUBSET Nat]
      BY <1>0, <2>1, <2>2, <2>3
    <2>5. left' \in [FaultKind -> Nat]
      BY <1>0, <1>t, <2>2, SpendTyped, Zenon
    <2>6. stage' \in [Actor -> [Msg -> StageType]]
      BY <1>0, <1>t, <2>2, AdvanceTyped, Zenon
    <2> QED BY <1>f, <2>3, <2>4, <2>5, <2>6, Zenon
  <1>2. ASSUME NEW m \in Msg, CallFails(a, m)
        PROVE  TypeOK' /\ Unique' /\ held \subseteq held' /\ blind \subseteq blind'
    <2> DEFINE G == Group(a, m)
               f == Source(a, m)
               V == Addressed(a, G, f)
    <2>1. G \in SUBSET Msg /\ f \in Folder /\ V \in SUBSET Msg
      BY GroupTyped, Zenon
    <2>2. /\ \/ Effect(a, V) /\ Record(a, G, f)
             \/ UNCHANGED <<server, history>>
          /\ Advance(a, G, IF op[a] = "rescan" THEN "failed" ELSE "no")
          /\ Spend("imap") /\ UNCHANGED nuid
      BY <1>2, Zenon DEF CallFails
    <2> HIDE DEF G, f
    <2>3. /\ folder' \in [Msg -> Folder \cup {"gone"}] /\ uid' \in [Msg -> Nat]
          /\ uidNext' \in [Folder -> Nat] /\ held' \subseteq Folder \X Nat \X Msg
          /\ Unique' /\ held \subseteq held' /\ missed' \subseteq Msg /\ rescanned' = rescanned
          /\ strayed' \subseteq Msg \X Msg /\ blind' \subseteq Msg \X Msg /\ blind \subseteq blind'
      <3>1. CASE Effect(a, V) /\ Record(a, G, f)
        BY <2>1, <3>1, CallSound, Zenon
      <3>2. CASE UNCHANGED <<server, history>>
        BY <3>2, Zenon DEF TypeOK, Unique, server, history
      <3> QED BY <2>2, <3>1, <3>2, Zenon
    <2>4. left' \in [FaultKind -> Nat]
      BY <1>0, <1>t, <2>2, SpendTyped, Zenon
    <2>5. stage' \in [Actor -> [Msg -> StageType]]
      <3>1. PICK s \in StageType : s = IF op[a] = "rescan" THEN "failed" ELSE "no"
        BY <1>t, Zenon
      <3> QED BY <1>0, <2>2, <3>1, AdvanceTyped, Zenon
    <2> QED BY <1>0, <1>f, <2>2, <2>3, <2>4, <2>5, Zenon
  <1> QED BY <1>1, <1>2, Zenon DEF Calling

\* The audit entries of a rescan.
LEMMA LogTyped ==
    ASSUME TypeOK
    PROVE  /\ \A m \in Msg, e \in Entry : Log(m, e) => audit' \subseteq Msg \X Entry
           /\ \A n \in SUBSET Msg, E \in SUBSET Entry : LogTarget(n, E) => audit' \subseteq Msg \X Entry
           /\ \A d \in Decision : VerdictToAction(d) \in Entry
  <1>1. audit \subseteq Msg \X Entry
    BY Zenon DEF TypeOK
  <1>2. \A d \in Decision : VerdictToAction(d) \in Entry
    BY Zenon DEF VerdictToAction, Decision, Entry, UserStatus
  <1>3. \A m \in Msg, e \in Entry : Log(m, e) => audit' \subseteq Msg \X Entry
    BY <1>1 DEF Log
  <1>4. \A n \in SUBSET Msg, E \in SUBSET Entry : LogTarget(n, E) => audit' \subseteq Msg \X Entry
    BY <1>1, Zenon DEF LogTarget
  <1> QED BY <1>2, <1>3, <1>4, Zenon

\* Every write keeps the types; it changes the key of a row only for an address
\* MoveToQuarantine has returned to this actor, and only a clawback of a row in
\* INBOX writes a row without a request for it.
LEMMA WritingTyped ==
    ASSUME TypeOK, NEW a \in Actor, Writing(a)
    PROVE  /\ TypeOK'
           /\ \A k \in Msg : rows'[k].key # rows[k].key =>
                 \E m \in Msg, u \in nuid[a] :
                     /\ stage[a][m] = "acted" /\ rows'[k].key = <<"Quarantine", u>>
                     /\ \/ op[a] \in {"quarantine", "retro"} /\ k = m
                        \/ op[a] = "rescan" /\ target[a].dec = "quarantine" /\ k \in target[a].row
           /\ \A k \in Msg : rows'[k] # rows[k] /\ rows[k].status # "INBOX" =>
                 op[a] \in Requests /\ stage'[a] # stage[a]
  <1>0. /\ rows \in [Msg -> RowType] /\ stage \in [Actor -> [Msg -> StageType]]
        /\ nuid \in [Actor -> SUBSET Nat] /\ target \in [Actor -> [row : SUBSET Msg, dec : Decision]]
        /\ left \in [FaultKind -> Nat] /\ audit \subseteq Msg \X Entry
        /\ twins \subseteq Msg /\ rescanned \subseteq Msg
    BY Zenon DEF TypeOK
  <1>t. /\ "no" \in StageType /\ "claimed" \in StageType /\ "db" \in FaultKind
        /\ AutoStatus \subseteq AutoStatus \cup UserStatus /\ UserStatus \subseteq AutoStatus \cup UserStatus
        /\ {"QUARANTINE", "RETRO_QUARANTINE", "RESCAN", "IMAP_FAIL", "QUAR_DESYNC"} \subseteq Entry
        /\ UserStatus \subseteq Entry
    BY Zenon DEF StageType, FaultKind, Entry
  <1>r. /\ \A r \in RowType : r.status \in AutoStatus \cup UserStatus /\ r.at \in Address /\ r.key \in Address
        /\ \A r \in RowType, st \in AutoStatus \cup UserStatus :
              [r EXCEPT !.status = st] \in RowType /\ [r EXCEPT !.status = st].key = r.key
    BY Zenon DEF RowType
  <1>u. UNCHANGED <<server, missed, strayed, blind, op, snap, nuid>>
    BY Zenon
    DEF Writing, UpdateStatus, WriteQuarantine, WriteClawback, RescanUpsert, RescanUpsertFails,
           RescanRekey, RescanRevert, RescanWriteFails, history
  <1>f. ASSUME /\ rows' \in [Msg -> RowType] /\ stage' \in [Actor -> [Msg -> StageType]]
               /\ target' \in [Actor -> [row : SUBSET Msg, dec : Decision]] /\ left' \in [FaultKind -> Nat]
               /\ audit' \subseteq Msg \X Entry /\ twins' \subseteq Msg /\ rescanned' \subseteq Msg
        PROVE  TypeOK'
    BY <1>u, <1>f, ServerTyped, Zenon DEF TypeOK
  <1> DEFINE Keyed == \A k \in Msg : rows'[k].key # rows[k].key =>
                        \E m \in Msg, u \in nuid[a] :
                            /\ stage[a][m] = "acted" /\ rows'[k].key = <<"Quarantine", u>>
                            /\ \/ op[a] \in {"quarantine", "retro"} /\ k = m
                               \/ op[a] = "rescan" /\ target[a].dec = "quarantine" /\ k \in target[a].row
             Asked == \A k \in Msg : rows'[k] # rows[k] /\ rows[k].status # "INBOX" =>
                        op[a] \in Requests /\ stage'[a] # stage[a]
  <1>1. ASSUME NEW m \in Msg, UpdateStatus(a, m) PROVE TypeOK' /\ Keyed /\ Asked
    <2>1. NewStatus(op[a]) \in UserStatus
      BY <1>1, Zenon DEF UpdateStatus, NewStatus, Bulk, UserStatus
    <2>2. PICK st \in UserStatus : st = NewStatus(op[a])
      BY <2>1, Zenon
    <2>3. rows' = [rows EXCEPT ![m] = [rows[m] EXCEPT !.status = st]]
      BY <1>0, <1>1, <2>2, Zenon DEF UpdateStatus
    <2>4. rows' \in [Msg -> RowType] /\ \A k \in Msg : rows'[k].key = rows[k].key
      BY <1>0, <1>r, <2>3, Zenon
    <2>5. audit' \subseteq Msg \X Entry
      BY <1>1, <1>t, <2>2, LogTyped, Zenon DEF UpdateStatus
    <2>6. stage' \in [Actor -> [Msg -> StageType]] /\ stage'[a][m] = "no"
      BY <1>0, <1>1, <1>t, AdvanceTyped DEF UpdateStatus
    <2>7. stage[a][m] # "no" /\ op[a] \in Requests
      BY <1>1, Zenon DEF UpdateStatus, Writes, Requests, Bulk
    <2>8. Asked
      BY <2>6, <2>7, Zenon
    <2>9. UNCHANGED <<twins, target, left, rescanned>>
      BY <1>1, Zenon DEF UpdateStatus, history
    <2>10. TypeOK'
      BY <1>0, <1>f, <2>4, <2>5, <2>6, <2>9, Zenon
    <2> QED BY <2>4, <2>8, <2>10, Zenon
  <1>2. ASSUME NEW m \in Msg, WriteQuarantine(a, m) PROVE TypeOK' /\ Keyed /\ Asked
    <2>1. PICK new \in SUBSET Nat : new = nuid[a]
      BY <1>0, Zenon
    <2>2. PICK r \in RowType : r = rows[m]
      BY <1>0, Zenon
    <2>3. rows' = [rows EXCEPT ![m] = [Requarantined(r, new) EXCEPT !.status = "QUARANTINED"]]
      BY <1>2, <2>1, <2>2, Zenon DEF WriteQuarantine
    <2>4. rows' \in [Msg -> RowType]
      BY <1>0, <2>3, RequarantinedTyped, Zenon
    <2>5. \A k \in Msg : rows'[k].key # rows[k].key =>
             k = m /\ \E u \in nuid[a] : rows'[k].key = <<"Quarantine", u>>
      <3>1. rows'[m] = [Requarantined(r, new) EXCEPT !.status = "QUARANTINED"]
        BY <1>0, <2>3, Zenon
      <3>2. rows'[m].key = rows[m].key \/ \E u \in new : rows'[m].key = <<"Quarantine", u>>
        BY <2>2, <3>1, RequarantinedTyped
      <3>3. \A k \in Msg \ {m} : rows'[k] = rows[k]
        BY <1>0, <2>3, Zenon
      <3> QED BY <2>1, <3>2, <3>3, Zenon
    <2>6. audit' \subseteq Msg \X Entry
      BY <1>2, <1>t, LogTyped, Zenon DEF WriteQuarantine
    <2>7. stage' \in [Actor -> [Msg -> StageType]] /\ stage'[a][m] = "no"
      BY <1>0, <1>2, <1>t, AdvanceTyped DEF WriteQuarantine
    <2>8. stage[a][m] = "acted" /\ op[a] = "quarantine" /\ op[a] \in Requests
      BY <1>2, Zenon DEF WriteQuarantine, Writes, Requests
    <2>9. UNCHANGED <<twins, target, left, rescanned>>
      BY <1>2, Zenon DEF WriteQuarantine, history
    <2>10. TypeOK'
      BY <1>0, <1>f, <2>4, <2>6, <2>7, <2>9, Zenon
    <2>11. Keyed
      BY <2>5, <2>8, Zenon
    <2>12. Asked
      BY <2>7, <2>8, Zenon
    <2> QED BY <2>10, <2>11, <2>12, Zenon
  <1>3. ASSUME NEW m \in Msg, WriteClawback(a, m) PROVE TypeOK' /\ Keyed /\ Asked
    <2>1. PICK new \in SUBSET Nat : new = nuid[a]
      BY <1>0, Zenon
    <2>2. PICK r \in RowType : r = rows[m]
      BY <1>0, Zenon
    <2>3. \/ /\ rows[m].status = "INBOX"
             /\ rows' = [rows EXCEPT ![m] = [Requarantined(r, new) EXCEPT !.status = "QUARANTINED"]]
          \/ rows' = rows
      BY <1>3, <2>1, <2>2, Zenon DEF WriteClawback
    <2>4. rows' \in [Msg -> RowType]
      <3>1. [Requarantined(r, new) EXCEPT !.status = "QUARANTINED"] \in RowType
        BY RequarantinedTyped, Zenon
      <3> QED BY <1>0, <2>3, <3>1, Zenon
    <2>5. \A k \in Msg : rows'[k].key # rows[k].key =>
             k = m /\ \E u \in nuid[a] : rows'[k].key = <<"Quarantine", u>>
      <3> DEFINE q == [Requarantined(r, new) EXCEPT !.status = "QUARANTINED"]
      <3>a. /\ Requarantined(r, new).key = q.key
            /\ \/ Requarantined(r, new).key = r.key
               \/ \E u \in new : Requarantined(r, new).key = <<"Quarantine", u>>
        BY RequarantinedTyped, Zenon
      <3> HIDE DEF q
      <3>0. q.key = rows[m].key \/ \E u \in new : q.key = <<"Quarantine", u>>
        BY <2>2, <3>a, Zenon
      <3>1. rows'[m] = q \/ rows'[m] = rows[m]
        BY <1>0, <2>3, Zenon DEF q
      <3>2. rows'[m].key = rows[m].key \/ \E u \in new : rows'[m].key = <<"Quarantine", u>>
        BY <3>0, <3>1, Zenon
      <3>3. \A k \in Msg \ {m} : rows'[k] = rows[k]
        BY <1>0, <2>3, Zenon
      <3> QED BY <2>1, <3>2, <3>3, Zenon
    <2>6. audit' \subseteq Msg \X Entry
      BY <1>3, <1>t, LogTyped, Zenon DEF WriteClawback
    <2>7. stage' \in [Actor -> [Msg -> StageType]]
      BY <1>0, <1>3, <1>t, AdvanceTyped, Zenon DEF WriteClawback
    <2>8. stage[a][m] = "acted" /\ op[a] = "retro"
      BY <1>3, Zenon DEF WriteClawback, Writes
    <2>9. UNCHANGED <<twins, target, left, rescanned>>
      BY <1>3, Zenon DEF WriteClawback, history
    <2>10. TypeOK'
      BY <1>0, <1>f, <2>4, <2>6, <2>7, <2>9, Zenon
    <2>11. Keyed
      BY <2>5, <2>8, Zenon
    <2>12. Asked
      BY <1>0, <2>3, Zenon
    <2> QED BY <2>10, <2>11, <2>12, Zenon
  <1>4. ASSUME NEW m \in Msg, NEW d \in Decision, RescanUpsert(a, m, d) PROVE TypeOK' /\ Keyed /\ Asked
    <2> DEFINE st == CASE d = "pass" -> "INBOX" [] d = "quarantine" -> "QUARANTINED" [] d = "delete" -> "DELETED"
    <2>1. st \in AutoStatus \cup UserStatus
      BY Zenon DEF Decision, AutoStatus, UserStatus
    <2>2. PICK n \in SUBSET Msg :
            /\ rows' = [k \in Msg |-> IF k \notin n THEN rows[k] ELSE [rows[k] EXCEPT !.status = st]]
            /\ \/ /\ audit' = audit \cup (n \X {VerdictToAction(e) : e \in {d} \cap {"pass"}}) \cup {<<m, "RESCAN">>}
                  /\ UNCHANGED left
               \/ /\ audit' = audit \cup (n \X {VerdictToAction(e) : e \in {d} \cap {"pass"}})
                  /\ Spend("db")
            /\ target' = [target EXCEPT ![a] = [row |-> n, dec |-> d]]
            /\ twins' = twins \cup {k \in {m} : n = {}}
            /\ rescanned' = rescanned \cup n
      BY <1>4, Zenon DEF RescanUpsert
    <2> HIDE DEF st
    <2>3. rows' \in [Msg -> RowType] /\ \A k \in Msg : rows'[k].key = rows[k].key
      BY <1>0, <1>r, <2>1, <2>2, Zenon
    <2>4. audit' \subseteq Msg \X Entry
      <3>1. {VerdictToAction(e) : e \in {d} \cap {"pass"}} \subseteq Entry
        <4>1. \A e \in Decision : VerdictToAction(e) \in Entry
          BY LogTyped, Zenon
        <4>2. {d} \cap {"pass"} \subseteq Decision
          BY Zenon
        <4> QED BY <4>1, <4>2, Zenon
      <3> QED BY <1>0, <1>t, <2>2, <3>1
    <2>5. left' \in [FaultKind -> Nat]
      BY <1>0, <1>t, <2>2, SpendTyped, Zenon
    <2>6. target' \in [Actor -> [row : SUBSET Msg, dec : Decision]]
      BY <1>0, <2>2, Zenon
    <2>7. stage' \in [Actor -> [Msg -> StageType]] /\ stage'[a][m] \in {"no", "claimed"}
      <3>1. PICK s \in StageType : s = IF d = "pass" THEN "no" ELSE "claimed"
        BY <1>t, Zenon
      <3> QED BY <1>0, <1>4, <3>1, AdvanceTyped DEF RescanUpsert
    <2>8. stage[a][m] = "read" /\ op[a] \in Requests
      BY <1>4, Zenon DEF RescanUpsert, Requests
    <2>9. Asked
      BY <2>7, <2>8, Zenon
    <2>10. TypeOK'
      BY <1>0, <1>f, <2>2, <2>3, <2>4, <2>5, <2>6, <2>7, Zenon
    <2> QED BY <2>3, <2>9, <2>10, Zenon
  <1>5. ASSUME NEW m \in Msg, RescanUpsertFails(a, m) PROVE TypeOK' /\ Keyed /\ Asked
    <2>1. stage' \in [Actor -> [Msg -> StageType]]
      BY <1>0, <1>5, <1>t, AdvanceTyped, Zenon DEF RescanUpsertFails
    <2>2. left' \in [FaultKind -> Nat]
      BY <1>0, <1>5, <1>t, SpendTyped, Zenon DEF RescanUpsertFails
    <2>3. audit' \subseteq Msg \X Entry
      BY <1>5, <1>t, LogTyped, Zenon DEF RescanUpsertFails
    <2>4. UNCHANGED <<rows, twins, target, rescanned>>
      BY <1>5, Zenon DEF RescanUpsertFails, history
    <2> QED BY <1>0, <1>f, <2>1, <2>2, <2>3, <2>4, Zenon
  <1>6. ASSUME NEW m \in Msg, RescanRekey(a, m) PROVE TypeOK' /\ Keyed /\ Asked
    <2>1. PICK new \in SUBSET Nat : new = nuid[a]
      BY <1>0, Zenon
    <2>2. target[a].row \subseteq Msg /\ target[a].dec \in Decision
      BY <1>0, Zenon
    <2>3. rows' = [k \in Msg |-> IF k \in target[a].row /\ target[a].dec = "quarantine"
                                 THEN Requarantined(rows[k], new) ELSE rows[k]]
      BY <1>6, <2>1, Zenon DEF RescanRekey
    <2>4. ASSUME NEW k \in Msg
          PROVE  /\ rows'[k] \in RowType
                 /\ rows'[k].key # rows[k].key =>
                       /\ k \in target[a].row /\ target[a].dec = "quarantine"
                       /\ \E u \in nuid[a] : rows'[k].key = <<"Quarantine", u>>
      <3>1. PICK r \in RowType : r = rows[k]
        BY <1>0, Zenon
      <3>2. rows'[k] = IF k \in target[a].row /\ target[a].dec = "quarantine"
                       THEN Requarantined(r, new) ELSE r
        BY <2>3, <3>1, Zenon
      <3>3. CASE k \in target[a].row /\ target[a].dec = "quarantine"
        <4>1. rows'[k] = Requarantined(r, new)
          BY <3>2, <3>3, Zenon
        <4>2. /\ Requarantined(r, new) \in RowType
              /\ \/ Requarantined(r, new).key = r.key
                 \/ \E u \in new : Requarantined(r, new).key = <<"Quarantine", u>>
          BY RequarantinedTyped, Zenon
        <4> QED BY <2>1, <3>1, <3>3, <4>1, <4>2, Zenon
      <3>4. CASE ~(k \in target[a].row /\ target[a].dec = "quarantine")
        BY <3>1, <3>2, <3>4, Zenon
      <3> QED BY <3>3, <3>4, Zenon
    <2>5. rows' \in [Msg -> RowType]
      BY <2>3, <2>4, Zenon
    <2>6. audit' \subseteq Msg \X Entry /\ left' \in [FaultKind -> Nat]
      <3>1. {VerdictToAction(target[a].dec)} \subseteq Entry
        BY <2>2, LogTyped, Zenon
      <3>2. CASE LogTarget(target[a].row, {VerdictToAction(target[a].dec)}) /\ UNCHANGED left
        BY <1>0, <2>2, <3>1, <3>2, Zenon DEF LogTarget
      <3>3. CASE Spend("db") /\ UNCHANGED audit
        BY <1>0, <1>t, <3>3, SpendTyped, Zenon
      <3> QED BY <1>6, <3>2, <3>3, Zenon DEF RescanRekey
    <2>7. stage' \in [Actor -> [Msg -> StageType]] /\ stage'[a][m] = "no"
      <3>1. Advance(a, {m}, "no")
        BY <1>6, Zenon DEF RescanRekey
      <3>2. "no" \in StageType
        BY Zenon DEF StageType
      <3>3. /\ stage' \in [Actor -> [Msg -> StageType]]
            /\ \A n \in Msg : stage'[a][n] = IF n \in {m} THEN "no" ELSE stage[a][n]
        BY <1>0, <3>1, <3>2, AdvanceTyped
      <3> QED BY <3>3, Zenon
    <2>8. stage[a][m] = "acted" /\ op[a] = "rescan" /\ op[a] \in Requests
      BY <1>6, Zenon DEF RescanRekey, Requests
    <2>9. UNCHANGED <<twins, target, rescanned>>
      BY <1>6, Zenon DEF RescanRekey, history
    <2>10. TypeOK'
      BY <1>0, <1>f, <2>5, <2>6, <2>7, <2>9, Zenon
    <2>11. Keyed
      BY <2>4, <2>8, Zenon
    <2>12. Asked
      BY <2>7, <2>8, Zenon
    <2> QED BY <2>10, <2>11, <2>12, Zenon
  <1>7. ASSUME NEW m \in Msg, RescanRevert(a, m) PROVE TypeOK' /\ Keyed /\ Asked
    <2>1. target[a].row \subseteq Msg /\ target[a].dec \in Decision
      BY <1>0, Zenon
    <2>2. "INBOX" \in AutoStatus \cup UserStatus
      BY Zenon DEF AutoStatus
    <2>3. rows' = [k \in Msg |-> IF k \in target[a].row THEN [rows[k] EXCEPT !.status = "INBOX"] ELSE rows[k]]
      BY <1>7, Zenon DEF RescanRevert
    <2>4. rows' \in [Msg -> RowType] /\ \A k \in Msg : rows'[k].key = rows[k].key
      BY <1>0, <1>r, <2>2, <2>3, Zenon
    <2>5. audit' \subseteq Msg \X Entry
      <3>1. {"IMAP_FAIL", VerdictToAction(target[a].dec)} \subseteq Entry
        BY <1>t, <2>1, LogTyped, Zenon
      <3> QED BY <1>0, <1>7, <2>1, <3>1, Zenon DEF RescanRevert, LogTarget
    <2>6. stage' \in [Actor -> [Msg -> StageType]] /\ stage'[a][m] = "no"
      BY <1>0, <1>7, <1>t, AdvanceTyped DEF RescanRevert
    <2>7. stage[a][m] = "failed" /\ op[a] \in Requests
      BY <1>7, Zenon DEF RescanRevert, Requests
    <2>8. UNCHANGED <<twins, target, left, rescanned>>
      BY <1>7, Zenon DEF RescanRevert, history
    <2>9. TypeOK'
      BY <1>0, <1>f, <2>4, <2>5, <2>6, <2>8, Zenon
    <2>10. Asked
      BY <2>6, <2>7, Zenon
    <2> QED BY <2>4, <2>9, <2>10, Zenon
  <1>8. ASSUME NEW m \in Msg, RescanWriteFails(a, m) PROVE TypeOK' /\ Keyed /\ Asked
    <2>1. target[a].row \subseteq Msg /\ VerdictToAction(target[a].dec) \in Entry
      BY <1>0, LogTyped, Zenon
    <2>2. audit' \subseteq Msg \X Entry
      BY <1>0, <1>8, <1>t, <2>1, Zenon DEF RescanWriteFails, LogTarget
    <2>3. stage' \in [Actor -> [Msg -> StageType]]
      BY <1>0, <1>8, <1>t, AdvanceTyped, Zenon DEF RescanWriteFails
    <2>4. left' \in [FaultKind -> Nat]
      BY <1>0, <1>8, <1>t, SpendTyped, Zenon DEF RescanWriteFails
    <2>5. UNCHANGED <<rows, twins, target, rescanned>>
      BY <1>8, Zenon DEF RescanWriteFails, history
    <2> QED BY <1>0, <1>f, <2>2, <2>3, <2>4, <2>5, Zenon
  <1> HIDE DEF Keyed, Asked
  <1>9. TypeOK' /\ Keyed /\ Asked
    BY <1>1, <1>2, <1>3, <1>4, <1>5, <1>6, <1>7, <1>8, Zenon DEF Writing
  <1> QED BY <1>9, Zenon DEF Keyed, Asked

------------------------------------------------------------------------------
(* One message at a time.                                                   *)

\* How the stages of a writing actor change.
LEMMA WritingStages ==
    ASSUME TypeOK, NEW a \in Actor, Writing(a)
    PROVE  \E m \in Msg :
              /\ \A b \in Actor, n \in Msg : <<b, n>> # <<a, m>> => stage'[b][n] = stage[b][n]
              /\ stage[a][m] # "no"
              /\ \/ stage'[a][m] = "no"
                 \/ /\ stage'[a][m] = "claimed" /\ op[a] = "rescan" /\ stage[a][m] = "read"
                    /\ \A k \in target'[a].row : k \in Msg /\ rows[k].key = snap[a][m].at
              /\ \/ UNCHANGED target
                 \/ /\ op[a] = "rescan" /\ stage[a][m] = "read"
                    /\ \A b \in Actor \ {a} : target'[b] = target[b]
  <1>0. stage \in [Actor -> [Msg -> StageType]] /\ target \in [Actor -> [row : SUBSET Msg, dec : Decision]]
    BY Zenon DEF TypeOK
  <1>t. "no" \in StageType /\ "claimed" \in StageType
    BY Zenon DEF StageType
  <1>1. ASSUME NEW m \in Msg,
               UpdateStatus(a, m) \/ WriteQuarantine(a, m) \/ WriteClawback(a, m) \/ RescanUpsertFails(a, m)
                  \/ RescanRekey(a, m) \/ RescanRevert(a, m) \/ RescanWriteFails(a, m)
        PROVE  /\ \A b \in Actor, n \in Msg : <<b, n>> # <<a, m>> => stage'[b][n] = stage[b][n]
               /\ stage[a][m] # "no" /\ stage'[a][m] = "no" /\ UNCHANGED target
    <2>1. Advance(a, {m}, "no") /\ UNCHANGED target
      BY <1>1, Zenon
      DEF UpdateStatus, WriteQuarantine, WriteClawback, RescanUpsertFails, RescanRekey,
                  RescanRevert, RescanWriteFails
    <2>2. stage[a][m] # "no"
      BY <1>1, Zenon
      DEF UpdateStatus, WriteQuarantine, WriteClawback, RescanUpsertFails, RescanRekey,
                  RescanRevert, RescanWriteFails, Writes
    <2>3. /\ \A n \in Msg : stage'[a][n] = IF n \in {m} THEN "no" ELSE stage[a][n]
          /\ \A b \in Actor \ {a} : stage'[b] = stage[b]
      BY <1>0, <1>t, <2>1, AdvanceTyped
    <2> QED BY <2>1, <2>2, <2>3, Zenon
  <1>2. ASSUME NEW m \in Msg, NEW d \in Decision, RescanUpsert(a, m, d)
        PROVE  /\ \A b \in Actor, n \in Msg : <<b, n>> # <<a, m>> => stage'[b][n] = stage[b][n]
               /\ op[a] = "rescan" /\ stage[a][m] = "read" /\ stage'[a][m] \in {"no", "claimed"}
               /\ \A k \in target'[a].row : k \in Msg /\ rows[k].key = snap[a][m].at
               /\ \A b \in Actor \ {a} : target'[b] = target[b]
    <2>1. PICK s \in StageType : s = (IF d = "pass" THEN "no" ELSE "claimed") /\ Advance(a, {m}, s)
      BY <1>2, <1>t, Zenon DEF RescanUpsert
    <2>2. /\ \A n \in Msg : stage'[a][n] = IF n \in {m} THEN s ELSE stage[a][n]
          /\ \A b \in Actor \ {a} : stage'[b] = stage[b]
      BY <1>0, <2>1, AdvanceTyped
    <2>3. PICK n \in SUBSET {k \in Msg : rows[k].key = snap[a][m].at} :
             target' = [target EXCEPT ![a] = [row |-> n, dec |-> d]]
      BY <1>2, Zenon DEF RescanUpsert
    <2>4. target'[a].row = n /\ \A b \in Actor \ {a} : target'[b] = target[b]
      BY <1>0, <2>3, Zenon
    <2>5. op[a] = "rescan" /\ stage[a][m] = "read"
      BY <1>2, Zenon DEF RescanUpsert
    <2> QED BY <2>1, <2>2, <2>4, <2>5, Zenon
  <1>3. PICK m \in Msg :
           \/ UpdateStatus(a, m) \/ WriteQuarantine(a, m) \/ WriteClawback(a, m) \/ RescanUpsertFails(a, m)
              \/ RescanRekey(a, m) \/ RescanRevert(a, m) \/ RescanWriteFails(a, m)
           \/ \E d \in Decision : RescanUpsert(a, m, d)
    BY Zenon DEF Writing
  <1>4. CASE \E d \in Decision : RescanUpsert(a, m, d)
    BY <1>2, <1>4, Zenon
  <1>5. CASE ~\E d \in Decision : RescanUpsert(a, m, d)
    BY <1>1, <1>3, <1>5, Zenon
  <1> QED BY <1>4, <1>5, Zenon

\* How the stages of a calling actor change.
LEMMA CallingStages ==
    ASSUME TypeOK, OneAtATime, NEW a \in Actor, NEW m \in Msg, CallSucceeds(a, m) \/ CallFails(a, m)
    PROVE  /\ m \in Group(a, m)
           /\ \A n \in Group(a, m) : stage[a][n] \in {"read", "claimed"}
           /\ \A b \in Actor, n \in Msg : (b # a \/ n \notin Group(a, m)) => stage'[b][n] = stage[b][n]
           /\ CallSucceeds(a, m) => \A n \in Group(a, m) : stage'[a][n] = "acted"
           /\ CallFails(a, m) => \A n \in Group(a, m) :
                 stage'[a][n] = IF op[a] = "rescan" THEN "failed" ELSE "no"
           /\ op[a] = "rescan" => stage[a][m] = "claimed"
           /\ op[a] \in Moves => Group(a, m) = {m} /\ \A n \in Msg : stage[a][n] # "acted"
           /\ op[a] # "none"
  <1>0. stage \in [Actor -> [Msg -> StageType]]
    BY Zenon DEF TypeOK
  <1>1. Calls(a, m)
    BY Zenon DEF CallSucceeds, CallFails
  <1>2. stage[a][m] = Ready(a) /\ Ready(a) \in {"read", "claimed"} /\ (op[a] = "rescan" => Ready(a) = "claimed")
    BY <1>1, Zenon DEF Calls, Ready
  <1>3. op[a] # "none"
    BY <1>2, Zenon DEF OneAtATime
  <1>4. Group(a, m) \subseteq Msg /\ m \in Group(a, m) /\ \A n \in Group(a, m) : stage[a][n] = Ready(a)
    BY <1>2, Zenon DEF Group, At
  <1>5. ASSUME op[a] \in Moves PROVE Group(a, m) = {m} /\ \A n \in Msg : stage[a][n] # "acted"
    <2>1. op[a] \notin Bulk /\ op[a] \in {"quarantine", "retro", "rescan"}
      BY <1>5, Zenon DEF Moves, Bulk
    <2>2. CASE op[a] = "retro"
      BY <1>1, <2>1, <2>2, Zenon DEF Calls, At, Group
    <2>3. CASE op[a] \in {"quarantine", "rescan"}
      BY <1>2, <2>1, <2>3, Zenon DEF Group, OneAtATime
    <2> QED BY <2>1, <2>2, <2>3, Zenon
  <1>6. PICK s \in StageType :
           /\ Advance(a, Group(a, m), s)
           /\ CallSucceeds(a, m) => s = "acted"
           /\ CallFails(a, m) => s = IF op[a] = "rescan" THEN "failed" ELSE "no"
    <2>1. CASE CallSucceeds(a, m) /\ CallFails(a, m)
      <3>1. Advance(a, Group(a, m), "acted") /\ Advance(a, Group(a, m), IF op[a] = "rescan" THEN "failed" ELSE "no")
        BY <2>1, Zenon DEF CallSucceeds, CallFails
      <3>2. stage'[a][m] = "acted"
        BY <1>0, <1>4, <3>1, Zenon DEF Advance
      <3>3. stage'[a][m] = IF op[a] = "rescan" THEN "failed" ELSE "no"
        BY <1>0, <1>4, <3>1, Zenon DEF Advance
      <3> QED BY <3>2, <3>3, Zenon
    <2>2. CASE CallSucceeds(a, m) /\ ~CallFails(a, m)
      BY <2>2, Zenon DEF CallSucceeds, StageType
    <2>3. CASE CallFails(a, m) /\ ~CallSucceeds(a, m)
      BY <2>3, Zenon DEF CallFails, StageType
    <2> QED BY <2>1, <2>2, <2>3, Zenon
  <1>7. /\ \A n \in Msg : stage'[a][n] = IF n \in Group(a, m) THEN s ELSE stage[a][n]
        /\ \A b \in Actor \ {a} : stage'[b] = stage[b]
    BY <1>0, <1>6, AdvanceTyped
  <1> QED BY <1>2, <1>3, <1>4, <1>5, <1>6, <1>7, Zenon

\* How the stages and copies of a reading actor change.
LEMMA ReadingStages ==
    ASSUME TypeOK, OneAtATime, NEW a \in Actor, Reading(a)
    PROVE  /\ OneAtATime'
           /\ \A b \in Actor, n \in Msg :
                 \/ b # a /\ stage'[b] = stage[b] /\ snap'[b] = snap[b] /\ op'[b] = op[b]
                    /\ nuid'[b] = nuid[b] /\ target'[b] = target[b]
                 \/ b = a /\ stage'[b][n] \in {"no", "todo"}
                 \/ b = a /\ stage'[b][n] = "read" /\ snap'[b][n] = rows[n]
                 \/ b = a /\ stage'[b][n] = stage[b][n] /\ snap'[b][n] = snap[b][n] /\ op'[b] = op[b]
                    /\ nuid'[b] = nuid[b] /\ target'[b] = target[b]
  <1>0. /\ rows \in [Msg -> RowType] /\ op \in [Actor -> OpType]
        /\ stage \in [Actor -> [Msg -> StageType]] /\ snap \in [Actor -> [Msg -> RowType]]
        /\ nuid \in [Actor -> SUBSET Nat] /\ target \in [Actor -> [row : SUBSET Msg, dec : Decision]]
    BY Zenon DEF TypeOK
  <1>t. "no" \in StageType /\ "read" \in StageType
    BY Zenon DEF StageType
  <1> DEFINE Kept(b, n) == stage'[b][n] = stage[b][n] /\ snap'[b][n] = snap[b][n] /\ op'[b] = op[b]
                             /\ nuid'[b] = nuid[b] /\ target'[b] = target[b]
             Others == \A b \in Actor \ {a} : stage'[b] = stage[b] /\ snap'[b] = snap[b] /\ op'[b] = op[b]
                             /\ nuid'[b] = nuid[b] /\ target'[b] = target[b]
             Mine == \A n \in Msg : \/ stage'[a][n] \in {"no", "todo"}
                                    \/ stage'[a][n] = "read" /\ snap'[a][n] = rows[n]
                                    \/ Kept(a, n)
             OneOf(b) == /\ op[b] = "none" => \A m \in Msg : stage[b][m] = "no"
                         /\ op[b] \in {"quarantine", "rescan"} =>
                               \A m, n \in Msg : stage[b][m] # "no" /\ stage[b][n] # "no" => m = n
                         /\ op[b] = "retro" =>
                               \A m, n \in Msg : stage[b][m] = "acted" /\ stage[b][n] = "acted" => m = n
  <1>i. OneOf(a)
    BY Zenon DEF OneAtATime
  <1>f. ASSUME Others, OneOf(a)' PROVE OneAtATime'
    BY <1>f DEF OneAtATime
  <1>1. CASE Finish(a)
    <2>1. Others
      BY <1>0, <1>1, Zenon DEF Finish
    <2>2. \A n \in Msg : stage'[a][n] = "no"
      BY <1>0, <1>1, Zenon DEF Finish
    <2>3. OneOf(a)'
      BY <2>2, Zenon
    <2> QED BY <1>f, <2>1, <2>2, <2>3, Zenon
  <1>2. ASSUME NEW M \in SUBSET Msg, NEW o \in Requests, NEW m \in M, Ask(a, o, M, m)
        PROVE  OneAtATime' /\ Others /\ Mine
    <2>1. Others
      BY <1>0, <1>2, Zenon DEF Ask
    <2>2. \A n \in Msg : stage'[a][n] = IF n = m THEN "read" ELSE IF n \in M THEN "todo" ELSE "no"
      BY <1>0, <1>2, Zenon DEF Ask
    <2>3. snap'[a][m] = rows[m] /\ op'[a] = o
      BY <1>0, <1>2, Zenon DEF Ask
    <2>4. Mine
      BY <2>2, <2>3, Zenon
    <2>5. o # "none" /\ o # "retro" /\ (o \in {"quarantine", "rescan"} => M = {m})
      BY <1>2, Zenon DEF Requests, Bulk, Ask
    <2>6. OneOf(a)'
      BY <2>2, <2>3, <2>5, Zenon
    <2> QED BY <1>f, <2>1, <2>4, <2>6, Zenon
  <1>3. ASSUME NEW M \in SUBSET Msg, Sweep(a, M)
        PROVE  OneAtATime' /\ Others /\ Mine
    <2>1. Others
      BY <1>0, <1>3, <1>t, AdvanceTyped DEF Sweep
    <2>2. \A n \in Msg : stage[a][n] = "no"
      BY <1>3, <1>i, Zenon DEF Sweep
    <2>3. \A n \in Msg : stage'[a][n] = IF n \in M THEN "read" ELSE "no"
      BY <1>0, <1>3, <1>t, <2>2, AdvanceTyped DEF Sweep
    <2>4. \A n \in M : snap'[a][n] = rows[n]
      BY <1>0, <1>3, Zenon DEF Sweep
    <2>5. OneOf(a)' /\ Mine
      <3>1. op'[a] = "retro"
        BY <1>0, <1>3, Zenon DEF Sweep
      <3> QED BY <2>3, <2>4, <3>1, Zenon
    <2> QED BY <1>f, <2>1, <2>5, Zenon
  <1>4. ASSUME NEW m \in Msg, ReadNext(a, m)
        PROVE  OneAtATime' /\ Others /\ Mine
    <2>1. Others
      BY <1>0, <1>4, Zenon DEF ReadNext
    <2>2. \A n \in Msg : stage'[a][n] = IF n = m THEN "read" ELSE stage[a][n]
      BY <1>0, <1>4, Zenon DEF ReadNext
    <2>3. \A n \in Msg : snap'[a][n] = IF n = m THEN rows[n] ELSE snap[a][n]
      BY <1>0, <1>4, Zenon DEF ReadNext
    <2>4. op' = op /\ nuid' = nuid /\ target' = target /\ stage[a][m] = "todo"
      BY <1>4, Zenon DEF ReadNext
    <2>5. Mine
      BY <2>2, <2>3, <2>4, Zenon
    <2>6. OneOf(a)'
      BY <1>i, <2>2, <2>4, Zenon
    <2> QED BY <1>f, <2>1, <2>5, <2>6, Zenon
  <1>5. ASSUME NEW m \in Msg, Refuse(a, m) \/ WriteFails(a, m)
        PROVE  OneAtATime' /\ Others /\ Mine
    <2>1. /\ \A n \in Msg : stage'[a][n] = IF n \in {m} THEN "no" ELSE stage[a][n]
          /\ \A b \in Actor \ {a} : stage'[b] = stage[b]
      BY <1>0, <1>5, <1>t, AdvanceTyped DEF Refuse, WriteFails
    <2>2. UNCHANGED <<op, snap, nuid, target>>
      BY <1>5, Zenon DEF Refuse, WriteFails
    <2>3. Others /\ Mine
      BY <2>1, <2>2, Zenon
    <2>4. OneOf(a)'
      BY <1>i, <2>1, <2>2
    <2> QED BY <1>f, <2>3, <2>4, Zenon
  <1>6. OneAtATime' /\ Others /\ Mine
    <2>1. CASE Finish(a)
      <3>1. Others
        BY <1>0, <2>1, Zenon DEF Finish
      <3>2. \A n \in Msg : stage'[a][n] = "no"
        BY <1>0, <2>1, Zenon DEF Finish
      <3> QED BY <1>1, <2>1, <3>1, <3>2, Zenon
    <2>2. CASE ~Finish(a)
      <3> HIDE DEF Others, Mine
      <3> QED BY <1>2, <1>3, <1>4, <1>5, <2>2, Zenon DEF Reading
    <2> QED BY <2>1, <2>2, Zenon
  <1> QED BY <1>6

\* Fewer messages in work, and no more calls behind an actor.
LEMMA FewerStages ==
    ASSUME OneAtATime, op' = op,
           \A b \in Actor, n \in Msg : /\ stage'[b][n] # "no" => stage[b][n] # "no"
                                       /\ stage'[b][n] = "acted" => stage[b][n] = "acted"
    PROVE  OneAtATime'
  <1>0. \A b \in Actor : op'[b] = op[b]
    BY Zenon
  <1>1. ASSUME NEW b \in Actor, op'[b] = "none", NEW m \in Msg PROVE stage'[b][m] = "no"
    BY <1>0, <1>1, Zenon DEF OneAtATime
  <1>2. ASSUME NEW b \in Actor, op'[b] \in {"quarantine", "rescan"}, NEW m \in Msg, NEW n \in Msg,
               stage'[b][m] # "no", stage'[b][n] # "no"
        PROVE  m = n
    <2>1. stage[b][m] # "no" /\ stage[b][n] # "no" /\ op[b] \in {"quarantine", "rescan"}
      BY <1>0, <1>2, Zenon
    <2> QED BY <2>1, Zenon DEF OneAtATime
  <1>3. ASSUME NEW b \in Actor, op'[b] = "retro", NEW m \in Msg, NEW n \in Msg,
               stage'[b][m] = "acted", stage'[b][n] = "acted"
        PROVE  m = n
    <2>1. stage[b][m] = "acted" /\ stage[b][n] = "acted" /\ op[b] = "retro"
      BY <1>0, <1>3, Zenon
    <2> QED BY <2>1, Zenon DEF OneAtATime
  <1>4. \A b \in Actor : op'[b] = "none" => \A m \in Msg : stage'[b][m] = "no"
    BY <1>1, Zenon
  <1>5. \A b \in Actor : op'[b] \in {"quarantine", "rescan"} =>
           \A m, n \in Msg : stage'[b][m] # "no" /\ stage'[b][n] # "no" => m = n
    BY <1>2, Zenon
  <1>6. \A b \in Actor : op'[b] = "retro" =>
           \A m, n \in Msg : stage'[b][m] = "acted" /\ stage'[b][n] = "acted" => m = n
    BY <1>3, Zenon
  <1> QED BY <1>4, <1>5, <1>6, Zenon DEF OneAtATime

LEMMA StagesKept ==
    ASSUME TypeOK, OneAtATime, NEW a \in Actor, Calling(a) \/ Writing(a)
    PROVE  OneAtATime'
  <1>0. op' = op
    BY Zenon
    DEF Calling, CallSucceeds, CallFails, Writing, UpdateStatus, WriteQuarantine, WriteClawback,
           RescanUpsert, RescanUpsertFails, RescanRekey, RescanRevert, RescanWriteFails
  <1>1. CASE Writing(a)
    <2>1. PICK m \in Msg :
             /\ \A b \in Actor, n \in Msg : <<b, n>> # <<a, m>> => stage'[b][n] = stage[b][n]
             /\ stage[a][m] # "no"
             /\ \/ stage'[a][m] = "no"
                \/ /\ stage'[a][m] = "claimed" /\ op[a] = "rescan" /\ stage[a][m] = "read"
                   /\ \A k \in target'[a].row : k \in Msg /\ rows[k].key = snap[a][m].at
             /\ \/ UNCHANGED target
                \/ /\ op[a] = "rescan" /\ stage[a][m] = "read"
                   /\ \A b \in Actor \ {a} : target'[b] = target[b]
      BY <1>1, WritingStages, Zenon
    <2>2. \A b \in Actor, n \in Msg : /\ stage'[b][n] # "no" => stage[b][n] # "no"
                                      /\ stage'[b][n] = "acted" => stage[b][n] = "acted"
      BY <2>1, Zenon
    <2> QED BY <1>0, <2>2, FewerStages, Zenon
  <1>2. CASE Calling(a)
    <2>1. PICK m \in Msg : CallSucceeds(a, m) \/ CallFails(a, m)
      BY <1>2, Zenon DEF Calling
    <2>2. /\ \A n \in Group(a, m) : stage[a][n] \in {"read", "claimed"}
          /\ \A b \in Actor, n \in Msg : (b # a \/ n \notin Group(a, m)) => stage'[b][n] = stage[b][n]
          /\ op[a] \in Moves => Group(a, m) = {m} /\ \A n \in Msg : stage[a][n] # "acted"
          /\ op[a] # "none"
      BY <2>1, CallingStages, Zenon
    <2>3. \A b \in Actor, n \in Msg : stage'[b][n] # "no" => stage[b][n] # "no"
      BY <2>2, Zenon
    <2>4. \A b \in Actor \ {a}, n \in Msg : stage'[b][n] = stage[b][n]
      BY <2>2, Zenon
    <2>5. op[a] = "retro" => \A n \in Msg : stage'[a][n] = "acted" => n = m
      BY <2>2, Zenon DEF Moves
    <2>6. \A b \in Actor : op'[b] = op[b]
      BY <1>0, Zenon
    <2>7. ASSUME NEW b \in Actor, op'[b] = "none", NEW n \in Msg PROVE stage'[b][n] = "no"
      BY <2>3, <2>6, <2>7, Zenon DEF OneAtATime
    <2>8. ASSUME NEW b \in Actor, op'[b] \in {"quarantine", "rescan"}, NEW k \in Msg, NEW n \in Msg,
                 stage'[b][k] # "no", stage'[b][n] # "no"
          PROVE  k = n
      <3>1. stage[b][k] # "no" /\ stage[b][n] # "no" /\ op[b] \in {"quarantine", "rescan"}
        BY <2>3, <2>6, <2>8, Zenon
      <3> QED BY <3>1, Zenon DEF OneAtATime
    <2>9. ASSUME NEW b \in Actor, op'[b] = "retro", NEW k \in Msg, NEW n \in Msg,
                 stage'[b][k] = "acted", stage'[b][n] = "acted"
          PROVE  k = n
      <3>1. CASE b = a
        BY <2>5, <2>6, <2>9, <3>1, Zenon
      <3>2. CASE b # a
        <4>1. stage[b][k] = "acted" /\ stage[b][n] = "acted" /\ op[b] = "retro"
          BY <2>4, <2>6, <2>9, <3>2, Zenon
        <4> QED BY <4>1, Zenon DEF OneAtATime
      <3> QED BY <3>1, <3>2, Zenon
    <2>10. \A b \in Actor : op'[b] = "none" => \A n \in Msg : stage'[b][n] = "no"
      BY <2>7, Zenon
    <2>11. \A b \in Actor : op'[b] \in {"quarantine", "rescan"} =>
               \A k, n \in Msg : stage'[b][k] # "no" /\ stage'[b][n] # "no" => k = n
      BY <2>8, Zenon
    <2>12. \A b \in Actor : op'[b] = "retro" =>
               \A k, n \in Msg : stage'[b][k] = "acted" /\ stage'[b][n] = "acted" => k = n
      BY <2>9, Zenon
    <2> QED BY <2>10, <2>11, <2>12, Zenon DEF OneAtATime
  <1> QED BY <1>1, <1>2, Zenon

------------------------------------------------------------------------------
(* Keys of the own message.                                                 *)

LEMMA ReadingOwn ==
    ASSUME TypeOK, OneAtATime, Own, NEW a \in Actor, Reading(a)
    PROVE  Own'
  <1>1. UNCHANGED <<rows, held, strayed, blind>>
    BY Zenon DEF Reading, Finish, Ask, Sweep, ReadNext, Refuse, WriteFails, server, store, history
  <1>2. SUFFICES ASSUME blind = {} PROVE OwnKeys'
    BY <1>1, Zenon DEF Own
  <1>3. OwnKeys
    BY <1>2, Zenon DEF Own
  <1> DEFINE Kept(b, n) == stage'[b][n] = stage[b][n] /\ snap'[b][n] = snap[b][n] /\ op'[b] = op[b]
                             /\ nuid'[b] = nuid[b] /\ target'[b] = target[b]
  <1>4. \A b \in Actor, n \in Msg : \/ stage'[b][n] \in {"no", "todo"}
                                    \/ stage'[b][n] = "read" /\ snap'[b][n] = rows[n]
                                    \/ Kept(b, n)
    <2> SUFFICES ASSUME NEW b \in Actor, NEW n \in Msg
                 PROVE  \/ stage'[b][n] \in {"no", "todo"}
                        \/ stage'[b][n] = "read" /\ snap'[b][n] = rows[n]
                        \/ Kept(b, n)
      BY Zenon
    <2>1. \/ b # a /\ stage'[b] = stage[b] /\ snap'[b] = snap[b] /\ op'[b] = op[b]
             /\ nuid'[b] = nuid[b] /\ target'[b] = target[b]
          \/ b = a /\ stage'[b][n] \in {"no", "todo"}
          \/ b = a /\ stage'[b][n] = "read" /\ snap'[b][n] = rows[n]
          \/ b = a /\ stage'[b][n] = stage[b][n] /\ snap'[b][n] = snap[b][n] /\ op'[b] = op[b]
             /\ nuid'[b] = nuid[b] /\ target'[b] = target[b]
      BY ReadingStages, Zenon
    <2> QED BY <2>1, Zenon
  <1>5. ASSUME NEW b \in Actor, NEW n \in Msg
        PROVE  /\ stage'[b][n] \in Active => Had(snap'[b][n].key, n)
               /\ stage'[b][n] \in {"claimed", "acted", "failed"} => Kept(b, n)
    BY <1>3, <1>4 DEF OwnKeys, Active
  <1>6. \A m \in Msg : Had(rows[m].key, m)'
    BY <1>1, <1>3, Zenon DEF OwnKeys, Had
  <1>7. \A b \in Actor, m \in Msg : stage'[b][m] \in Active => Had(snap[b][m].key, m)'
    BY <1>1, <1>5, Zenon DEF Had
  <1>8. ASSUME NEW b \in Actor, NEW m \in Msg, NEW n \in Msg,
               op'[b] = "rescan", stage'[b][m] \in {"claimed", "acted", "failed"}, n \in target'[b].row
        PROVE  Had(snap[b][m].at, n)'
    <2>1. Kept(b, m)
      BY <1>5, <1>8, Zenon
    <2>2. Had(snap[b][m].at, n)
      BY <1>3, <1>8, <2>1, Zenon DEF OwnKeys
    <2> QED BY <1>1, <2>1, <2>2, Zenon DEF Had
  <1>9. ASSUME NEW b \in Actor, NEW m \in Msg, NEW u \in Nat,
               op'[b] \in {"quarantine", "retro"}, stage'[b][m] = "acted", u \in nuid'[b]
        PROVE  Had(<<"Quarantine", u>>, m)'
    <2>1. Kept(b, m)
      BY <1>5, <1>9, Zenon
    <2>2. Had(<<"Quarantine", u>>, m)
      BY <1>3, <1>9, <2>1, Zenon DEF OwnKeys
    <2> QED BY <1>1, <2>2, Zenon DEF Had
  <1>10. ASSUME NEW b \in Actor, NEW m \in Msg, NEW n \in Msg, NEW u \in Nat,
                op'[b] = "rescan", stage'[b][m] = "acted", u \in nuid'[b],
                target'[b].dec = "quarantine", n \in target'[b].row
         PROVE  Had(<<"Quarantine", u>>, n)'
    <2>1. Kept(b, m)
      BY <1>5, <1>10, Zenon
    <2>2. Had(<<"Quarantine", u>>, n)
      BY <1>3, <1>10, <2>1, Zenon DEF OwnKeys
    <2> QED BY <1>1, <2>2, Zenon DEF Had
  <1> QED BY <1>6, <1>7, <1>8, <1>9, <1>10, Zenon DEF OwnKeys

LEMMA WritingOwn ==
    ASSUME TypeOK, OneAtATime, Own, NEW a \in Actor, Writing(a)
    PROVE  Own'
  <1>1. UNCHANGED <<held, strayed, blind, op, snap, nuid>>
    BY Zenon
    DEF Writing, UpdateStatus, WriteQuarantine, WriteClawback, RescanUpsert, RescanUpsertFails,
           RescanRekey, RescanRevert, RescanWriteFails, server, history
  <1>2. SUFFICES ASSUME blind = {} PROVE OwnKeys'
    BY <1>1, Zenon DEF Own
  <1>3. OwnKeys /\ nuid[a] \subseteq Nat
    BY <1>2, Zenon DEF Own, TypeOK
  <1>4. PICK m \in Msg :
           /\ \A b \in Actor, n \in Msg : <<b, n>> # <<a, m>> => stage'[b][n] = stage[b][n]
           /\ stage[a][m] # "no"
           /\ \/ stage'[a][m] = "no"
              \/ /\ stage'[a][m] = "claimed" /\ op[a] = "rescan" /\ stage[a][m] = "read"
                 /\ \A k \in target'[a].row : k \in Msg /\ rows[k].key = snap[a][m].at
           /\ \/ UNCHANGED target
              \/ /\ op[a] = "rescan" /\ stage[a][m] = "read"
                 /\ \A b \in Actor \ {a} : target'[b] = target[b]
    BY WritingStages, Zenon
  <1>5. ASSUME NEW k \in Msg PROVE Had(rows'[k].key, k)
    <2>1. CASE rows'[k].key = rows[k].key
      BY <1>3, <2>1, Zenon DEF OwnKeys
    <2>2. CASE rows'[k].key # rows[k].key
      <3>1. PICK n \in Msg, u \in nuid[a] :
               /\ stage[a][n] = "acted" /\ rows'[k].key = <<"Quarantine", u>>
               /\ \/ op[a] \in {"quarantine", "retro"} /\ k = n
                  \/ op[a] = "rescan" /\ target[a].dec = "quarantine" /\ k \in target[a].row
        BY <2>2, WritingTyped, Zenon
      <3>2. u \in Nat
        BY <1>3, Zenon
      <3>3. Had(<<"Quarantine", u>>, k)
        BY <1>3, <3>1, <3>2, Zenon DEF OwnKeys
      <3> QED BY <3>1, <3>3, Zenon
    <2> QED BY <2>1, <2>2, Zenon
  <1>6. ASSUME NEW b \in Actor, NEW n \in Msg, stage'[b][n] \in {"claimed", "acted", "failed"}
        PROVE  \/ stage[b][n] = stage'[b][n] /\ target'[b] = target[b]
               \/ b = a /\ n = m /\ stage'[b][n] = "claimed" /\ stage[b][n] = "read"
                  /\ \A k \in target'[b].row : k \in Msg /\ rows[k].key = snap[b][n].at
    <2>1. CASE b = a /\ n = m
      BY <1>4, <1>6, <2>1, Zenon
    <2>2. CASE b # a
      BY <1>4, <2>2, Zenon
    <2>3. CASE b = a /\ n # m
      <3>1. stage'[b][n] = stage[b][n] /\ stage[b][n] # "no"
        BY <1>4, <1>6, <2>3, Zenon
      <3>2. op[a] # "rescan"
        BY <1>4, <2>3, <3>1, Zenon DEF OneAtATime
      <3> QED BY <1>4, <3>1, <3>2, Zenon
    <2> QED BY <2>1, <2>2, <2>3, Zenon
  <1>7. \A k \in Msg : Had(rows[k].key, k)'
    BY <1>1, <1>5, Zenon DEF Had
  <1>8. \A b \in Actor, n \in Msg : stage'[b][n] \in Active => Had(snap[b][n].key, n)'
    <2>1. \A b \in Actor, n \in Msg : stage'[b][n] \in Active => stage[b][n] \in Active
      BY <1>4, Zenon DEF Active
    <2> QED BY <1>1, <1>3, <2>1, Zenon DEF OwnKeys, Had
  <1>9. ASSUME NEW b \in Actor, NEW n \in Msg, NEW k \in Msg,
               op'[b] = "rescan", stage'[b][n] \in {"claimed", "acted", "failed"}, k \in target'[b].row
        PROVE  Had(snap[b][n].at, k)'
    <2>1. CASE stage[b][n] = stage'[b][n] /\ target'[b] = target[b]
      <3>1. op[b] = "rescan" /\ k \in target[b].row
        BY <1>1, <1>9, <2>1, Zenon
      <3>2. Had(snap[b][n].at, k)
        BY <1>3, <1>9, <2>1, <3>1, Zenon DEF OwnKeys
      <3> QED BY <1>1, <3>2, Zenon DEF Had
    <2>2. CASE \A j \in target'[b].row : j \in Msg /\ rows[j].key = snap[b][n].at
      <3>1. rows[k].key = snap[b][n].at /\ Had(rows[k].key, k)
        BY <1>3, <1>9, <2>2, Zenon DEF OwnKeys
      <3> QED BY <1>1, <3>1, Zenon DEF Had
    <2> QED BY <1>6, <1>9, <2>1, <2>2, Zenon
  <1>10. ASSUME NEW b \in Actor, NEW n \in Msg, NEW u \in Nat,
                op'[b] \in {"quarantine", "retro"}, stage'[b][n] = "acted", u \in nuid'[b]
         PROVE  Had(<<"Quarantine", u>>, n)'
    <2>1. stage[b][n] = "acted"
      BY <1>6, <1>10, Zenon
    <2>2. op[b] \in {"quarantine", "retro"} /\ u \in nuid[b]
      BY <1>1, <1>10, Zenon
    <2>3. Had(<<"Quarantine", u>>, n)
      BY <1>3, <2>1, <2>2, Zenon DEF OwnKeys
    <2> QED BY <1>1, <2>3, Zenon DEF Had
  <1>11. ASSUME NEW b \in Actor, NEW n \in Msg, NEW k \in Msg, NEW u \in Nat,
                op'[b] = "rescan", stage'[b][n] = "acted", u \in nuid'[b],
                target'[b].dec = "quarantine", k \in target'[b].row
         PROVE  Had(<<"Quarantine", u>>, k)'
    <2>1. stage[b][n] = "acted" /\ target'[b] = target[b]
      BY <1>6, <1>11, Zenon
    <2>2. op[b] = "rescan" /\ u \in nuid[b]
      BY <1>1, <1>11, Zenon
    <2>3. target[b].dec = "quarantine" /\ k \in target[b].row
      BY <1>11, <2>1, Zenon
    <2>4. Had(<<"Quarantine", u>>, k)
      BY <1>3, <2>1, <2>2, <2>3, Zenon DEF OwnKeys
    <2> QED BY <1>1, <2>4, Zenon DEF Had
  <1> QED BY <1>7, <1>8, <1>9, <1>10, <1>11, Zenon DEF OwnKeys

LEMMA CallingOwn ==
    ASSUME TypeOK, Unique, OneAtATime, Own, NEW a \in Actor, Calling(a)
    PROVE  Own'
  <1>0. /\ snap \in [Actor -> [Msg -> RowType]] /\ uid \in [Msg -> Nat]
        /\ nuid \in [Actor -> SUBSET Nat]
    BY Zenon DEF TypeOK
  <1>1. UNCHANGED <<rows, op, snap, target>>
    BY Zenon DEF Calling, CallSucceeds, CallFails, store
  <1>2. SUFFICES ASSUME blind' = {} PROVE strayed' = {} /\ OwnKeys'
    BY Zenon DEF Own
  <1>3. held \subseteq held' /\ blind = {}
    BY <1>2, CallingTyped, Zenon
  <1>4. strayed = {} /\ OwnKeys
    BY <1>3, Zenon DEF Own
  <1>5. PICK m \in Msg : CallSucceeds(a, m) \/ CallFails(a, m)
    BY Zenon DEF Calling
  <1> DEFINE G == Group(a, m)
             f == Source(a, m)
             V == Addressed(a, G, f)
  <1>6. G \in SUBSET Msg /\ f \in Folder /\ V \in SUBSET Msg
    BY GroupTyped, Zenon
  <1>7. /\ m \in G /\ \A n \in G : stage[a][n] \in {"read", "claimed"}
        /\ \A b \in Actor, n \in Msg : (b # a \/ n \notin G) => stage'[b][n] = stage[b][n]
        /\ CallSucceeds(a, m) => \A n \in G : stage'[a][n] = "acted"
        /\ CallFails(a, m) => \A n \in G : stage'[a][n] = IF op[a] = "rescan" THEN "failed" ELSE "no"
        /\ op[a] = "rescan" => stage[a][m] = "claimed"
        /\ op[a] \in Moves => G = {m} /\ \A n \in Msg : stage[a][n] # "acted"
    BY <1>5, CallingStages, Zenon
  <1>8. (Effect(a, V) /\ Record(a, G, f)) \/ UNCHANGED <<server, history>>
    BY <1>5, Zenon DEF CallSucceeds, CallFails
  <1>9. CallSucceeds(a, m) =>
           /\ Effect(a, V) /\ Record(a, G, f)
           /\ \/ nuid' = [nuid EXCEPT ![a] = IF op[a] \in Moves THEN {uid'[v] : v \in V} ELSE {}]
              \/ nuid' = [nuid EXCEPT ![a] = {}]
    BY Zenon DEF CallSucceeds
  <1>10. CallFails(a, m) => nuid' = nuid
    BY Zenon DEF CallFails
  <1>11. Active = {"read", "claimed", "acted", "failed"} /\ Moves = {"quarantine", "retro", "rescan"}
    BY Zenon DEF Active, Moves
  <1> HIDE DEF G, f
  <1>12. ASSUME Record(a, G, f)
         PROVE  strayed' = {} /\ \A n \in G, v \in V : snap[a][n].at[2] = uid[v] => n = v
    BY <1>2, <1>6, <1>7, <1>11, <1>12, Aimed, Zenon
  <1>13. strayed' = {}
    BY <1>4, <1>8, <1>12, Zenon DEF history
  <1>14. ASSUME NEW at, NEW n, Had(at, n) PROVE Had(at, n)'
    BY <1>3, <1>14, Zenon DEF Had
  <1>15. \A n \in Msg : Had(rows[n].key, n)'
    BY <1>1, <1>3, <1>4, Zenon DEF OwnKeys, Had
  <1>16. \A b \in Actor, n \in Msg : stage'[b][n] \in Active => Had(snap[b][n].key, n)'
    <2>1. \A b \in Actor, n \in Msg : stage'[b][n] \in Active => stage[b][n] \in Active
      BY <1>7, <1>11, Zenon
    <2> QED BY <1>1, <1>3, <1>4, <2>1, Zenon DEF OwnKeys, Had
  <1>17. ASSUME NEW b \in Actor, NEW n \in Msg, NEW k \in Msg,
                op'[b] = "rescan", stage'[b][n] \in {"claimed", "acted", "failed"}, k \in target'[b].row
         PROVE  Had(snap[b][n].at, k)'
    <2>1. op[b] = "rescan" /\ k \in target[b].row
      BY <1>1, <1>17, Zenon
    <2>2. stage[b][n] \in {"claimed", "acted", "failed"}
      <3>1. CASE b = a /\ n \in G
        BY <1>7, <1>11, <2>1, <3>1, Zenon
      <3>2. CASE b # a \/ n \notin G
        BY <1>7, <1>17, <3>2, Zenon
      <3> QED BY <3>1, <3>2, Zenon
    <2>3. Had(snap[b][n].at, k)
      BY <1>4, <2>1, <2>2, Zenon DEF OwnKeys
    <2> QED BY <1>1, <1>3, <2>3, Zenon DEF Had
  <1>18. ASSUME NEW b \in Actor, NEW n \in Msg, stage'[b][n] = "acted", op[b] \in Moves
         PROVE  \/ b # a /\ stage[b][n] = "acted" /\ nuid'[b] = nuid[b]
                \/ b = a /\ n = m /\ G = {m} /\ CallSucceeds(a, m)
    <2>1. CASE b # a
      BY <1>0, <1>5, <1>7, <1>9, <1>10, <1>18, <2>1, Zenon
    <2>2. CASE b = a
      <3>1. G = {m} /\ \A j \in Msg : stage[a][j] # "acted"
        BY <1>7, <1>18, <2>2, Zenon
      <3>2. n = m
        BY <1>7, <1>18, <2>2, <3>1, Zenon
      <3>3. ~CallFails(a, m)
        BY <1>7, <1>18, <2>2, <3>2, Zenon
      <3> QED BY <1>5, <2>2, <3>1, <3>2, <3>3, Zenon
    <2> QED BY <2>1, <2>2, Zenon
  <1>19. ASSUME CallSucceeds(a, m), G = {m}, NEW u \in Nat, u \in nuid'[a]
         PROVE  op[a] \in Moves /\ m \in V /\ u = uid'[m] /\ snap[a][m].at = <<f, uid[m]>>
    <2>0. nuid'[a] = {} \/ nuid'[a] = IF op[a] \in Moves THEN {uid'[v] : v \in V} ELSE {}
      BY <1>0, <1>9, <1>19, Zenon
    <2>1. \E v \in V : u = uid'[v] /\ op[a] \in Moves
      <3> HIDE DEF V
      <3>1. op[a] \in Moves /\ u \in {uid'[v] : v \in V}
        BY <1>19, <2>0, Zenon
      <3> QED BY <3>1, Zenon
    <2>2. PICK v \in V : u = uid'[v] /\ op[a] \in Moves
      BY <2>1, Zenon
    <2>3. snap[a][m].at[2] = uid[v] /\ folder[v] = f
      BY <1>19, Zenon DEF Addressed
    <2>4. m = v
      BY <1>7, <1>9, <1>12, <1>19, <2>3, Zenon
    <2>5. f = snap[a][m].at[1]
      BY <2>2, Zenon DEF f, Source, Releases, Moves
    <2>6. snap[a][m].at \in Folder \X Nat
      BY <1>0, Zenon DEF RowType, Address
    <2>7. snap[a][m].at = <<snap[a][m].at[1], snap[a][m].at[2]>>
      BY <2>6
    <2>8. snap[a][m].at = <<f, uid[m]>>
      <3> HIDE DEF f
      <3> QED BY <2>3, <2>4, <2>5, <2>7, Zenon
    <2>9. op[a] \in Moves /\ m \in V /\ u = uid'[m]
      <3> HIDE DEF V
      <3> QED BY <2>2, <2>4, Zenon
    <2> QED BY <2>8, <2>9, Zenon
  <1>20. ASSUME CallSucceeds(a, m), op[a] \in Moves, op[a] = "rescan" => target[a].dec # "delete"
         PROVE  \A v \in V : <<"Quarantine", uid'[v], v>> \in held'
    BY <1>6, <1>9, <1>20, CallSound, Zenon
  <1>21. ASSUME NEW b \in Actor, NEW n \in Msg, NEW u \in Nat,
                op'[b] \in {"quarantine", "retro"}, stage'[b][n] = "acted", u \in nuid'[b]
         PROVE  Had(<<"Quarantine", u>>, n)'
    <2>0. op[b] \in {"quarantine", "retro"} /\ op[b] \in Moves
      BY <1>1, <1>11, <1>21, Zenon
    <2>1. CASE b # a /\ stage[b][n] = "acted" /\ nuid'[b] = nuid[b]
      <3>1. Had(<<"Quarantine", u>>, n)
        BY <1>4, <1>21, <2>0, <2>1, Zenon DEF OwnKeys
      <3> QED BY <1>3, <3>1, Zenon DEF Had
    <2>2. CASE b = a /\ n = m /\ G = {m} /\ CallSucceeds(a, m)
      <3>1. m \in V /\ u = uid'[m]
        BY <1>19, <1>21, <2>2, Zenon
      <3>2. <<"Quarantine", uid'[m], m>> \in held'
        BY <1>20, <2>0, <2>2, <3>1, Zenon
      <3> QED BY <2>2, <3>1, <3>2, Zenon DEF Had
    <2> QED BY <1>18, <1>21, <2>0, <2>1, <2>2, Zenon
  <1>22. ASSUME NEW b \in Actor, NEW n \in Msg, NEW k \in Msg, NEW u \in Nat,
                op'[b] = "rescan", stage'[b][n] = "acted", u \in nuid'[b],
                target'[b].dec = "quarantine", k \in target'[b].row
         PROVE  Had(<<"Quarantine", u>>, k)'
    <2>0. op[b] = "rescan" /\ op[b] \in Moves /\ target[b].dec = "quarantine" /\ k \in target[b].row
      BY <1>1, <1>11, <1>22, Zenon
    <2>1. CASE b # a /\ stage[b][n] = "acted" /\ nuid'[b] = nuid[b]
      <3>1. Had(<<"Quarantine", u>>, k)
        BY <1>4, <1>22, <2>0, <2>1, Zenon DEF OwnKeys
      <3> QED BY <1>3, <3>1, Zenon DEF Had
    <2>2. CASE b = a /\ n = m /\ G = {m} /\ CallSucceeds(a, m)
      <3>1. m \in V /\ u = uid'[m] /\ snap[a][m].at = <<f, uid[m]>>
        BY <1>19, <1>22, <2>2, Zenon
      <3>2. <<"Quarantine", uid'[m], m>> \in held'
        BY <1>20, <2>0, <2>2, <3>1, Zenon
      <3>3. <<f, uid[m], k>> \in held
        <4>1. Had(snap[a][m].at, k)
          BY <1>4, <1>7, <2>0, <2>2, Zenon DEF OwnKeys
        <4> QED BY <3>1, <4>1 DEF Had
      <3>4. <<f, uid[m], m>> \in held
        <4>1. folder[m] = f /\ f # "gone"
          BY <1>6, <3>1, Zenon DEF Addressed, Folder
        <4> QED BY <4>1, Zenon DEF Unique
      <3>5. k = m
        BY <1>0, <1>6, <3>3, <3>4, Zenon DEF Unique
      <3> QED BY <3>1, <3>2, <3>5, Zenon DEF Had
    <2> QED BY <1>18, <1>22, <2>0, <2>1, <2>2, Zenon
  <1> QED BY <1>13, <1>15, <1>16, <1>17, <1>21, <1>22, Zenon DEF OwnKeys

------------------------------------------------------------------------------
(* Theorems.                                                                *)

LEMMA InitHolds == Init => IInv
  <1> SUFFICES ASSUME Init PROVE IInv
    BY Zenon
  <1>0. Cardinality(Msg) \in Nat
    BY ActionsAssumption, FS_CardinalityType, Zenon
  <1>1. /\ folder \in [Msg -> Folder] /\ uid \in [Msg -> 1..Cardinality(Msg)]
        /\ uidNext = [f \in Folder |-> Cardinality(Msg) + 1]
        /\ \A m, n \in Msg : folder[m] = folder[n] /\ uid[m] = uid[n] => m = n
        /\ held = {<<folder[m], uid[m], m>> : m \in Msg}
    BY Zenon DEF Init
  <1>2. uid \in [Msg -> Nat] /\ uidNext \in [Folder -> Nat] /\ held \subseteq Folder \X Nat \X Msg
    BY <1>0, <1>1
  <1>3. rows \in [Msg -> RowType]
    <2>1. \A m \in Msg : <<folder[m], uid[m]>> \in Address
      BY <1>1, <1>2, Zenon DEF Address
    <2>2. {"INBOX", "QUARANTINED"} \subseteq AutoStatus \cup UserStatus
      BY Zenon DEF AutoStatus
    <2> QED BY <2>1, <2>2, Zenon DEF Init, RowType
  <1>4. \A m \in Msg : rows[m].key = <<folder[m], uid[m]>>
    BY Zenon DEF Init
  <1>5. op \in [Actor -> OpType] /\ stage \in [Actor -> [Msg -> StageType]] /\ nuid \in [Actor -> SUBSET Nat]
    BY Zenon DEF Init, OpType, StageType
  <1>6. snap \in [Actor -> [Msg -> RowType]]
    BY Zenon DEF Init, NoRow, RowType, Address, Folder, AutoStatus
  <1>7. target \in [Actor -> [row : SUBSET Msg, dec : Decision]]
    BY Zenon DEF Init, NoTarget, Decision
  <1>8. left \in [FaultKind -> Nat]
    BY ActionsAssumption, Zenon DEF Init
  <1>9. TypeOK
    BY <1>1, <1>2, <1>3, <1>5, <1>6, <1>7, <1>8, Zenon DEF TypeOK, Init
  <1>10. Unique
    <2>1. \A h \in held : h[2] < uidNext[h[1]]
      BY <1>0, <1>1
    <2>2. \A m, n \in Msg, f \in Folder, u \in Nat : <<f, u, m>> \in held /\ <<f, u, n>> \in held => m = n
      BY <1>1, Zenon
    <2>3. \A m \in Msg : <<folder[m], uid[m], m>> \in held
      BY <1>1, Zenon
    <2> QED BY <2>1, <2>2, <2>3, Zenon DEF Unique
  <1>11. \A a \in Actor, m \in Msg : stage[a][m] = "no"
    BY Zenon DEF Init
  <1>12. OneAtATime
    BY <1>11, Zenon DEF OneAtATime
  <1>13. OwnKeys /\ strayed = {}
    <2>1. \A m \in Msg : Had(rows[m].key, m)
      BY <1>1, <1>4 DEF Had
    <2> QED BY <1>11, <2>1, Zenon DEF OwnKeys, Active, Init
  <1> QED BY <1>9, <1>10, <1>12, <1>13, Zenon DEF IInv, Own

LEMMA StepHolds == IInv /\ [Next]_vars => IInv'
  <1> SUFFICES ASSUME IInv, [Next]_vars PROVE IInv'
    BY Zenon
  <1>0. TypeOK /\ Unique /\ OneAtATime /\ Own
    BY Zenon DEF IInv
  <1>1. ASSUME NEW a \in Actor, Reading(a) PROVE IInv'
    <2>1. UNCHANGED server
      BY <1>1, Zenon DEF Reading, Finish, Ask, Sweep, ReadNext, Refuse, WriteFails
    <2>2. Unique'
      BY <1>0, <2>1, Zenon DEF Unique, server
    <2> QED BY <1>0, <1>1, <2>2, ReadingTyped, ReadingStages, ReadingOwn, Zenon DEF IInv
  <1>2. ASSUME NEW a \in Actor, Calling(a) PROVE IInv'
    BY <1>0, <1>2, CallingTyped, StagesKept, CallingOwn, Zenon DEF IInv
  <1>3. ASSUME NEW a \in Actor, Writing(a) PROVE IInv'
    <2>1. UNCHANGED server
      BY <1>3, Zenon
      DEF Writing, UpdateStatus, WriteQuarantine, WriteClawback, RescanUpsert, RescanUpsertFails,
                  RescanRekey, RescanRevert, RescanWriteFails
    <2>2. Unique'
      BY <1>0, <2>1, Zenon DEF Unique, server
    <2>3. TypeOK'
      BY <1>0, <1>3, WritingTyped, Zenon
    <2> QED BY <1>0, <1>3, <2>2, <2>3, StagesKept, WritingOwn, Zenon DEF IInv
  <1>4. CASE UNCHANGED vars
    <2>1. UNCHANGED <<folder, uid, uidNext, held, rows, audit, twins, op, stage, snap, nuid, target, left,
                      missed, strayed, blind, rescanned>>
      BY <1>4, Zenon DEF vars, server, store, daemon, history
    <2>2. TypeOK'
      BY <1>0, <2>1, Zenon DEF TypeOK
    <2>3. Unique'
      BY <1>0, <2>1, Zenon DEF Unique
    <2>4. OneAtATime'
      <3>1. op' = op
        BY <2>1, Zenon
      <3>2. \A b \in Actor, n \in Msg : /\ stage'[b][n] # "no" => stage[b][n] # "no"
                                        /\ stage'[b][n] = "acted" => stage[b][n] = "acted"
        BY <2>1, Zenon
      <3> QED BY <1>0, <3>1, <3>2, FewerStages, Zenon
    <2>5. OwnKeys => OwnKeys'
      BY <2>1, Zenon DEF OwnKeys, Had
    <2>6. Own'
      BY <1>0, <2>1, <2>5, Zenon DEF Own
    <2> QED BY <2>2, <2>3, <2>4, <2>6, Zenon DEF IInv
  <1> QED BY <1>1, <1>2, <1>3, <1>4, Steps, Zenon

\* Every reachable state satisfies the inductive invariant.
THEOREM Invariant == Spec => []IInv
  BY InitHolds, StepHolds, PTL DEF Spec

\* The requests of web/handlers/actions.go, the retro scanner and the server keep
\* their types, for any number of messages, actors and faults.
THEOREM TypeCorrect == Spec => []TypeOK
  BY Invariant, PTL DEF IInv

\* A call of imap/actions.go at the address a row is keyed by never is the first
\* to hit a message the row does not describe, however requests, bulk requests,
\* rescans and sweeps overlap and whatever fails.
THEOREM OwnMessage == Spec => []HitsOwnMessage
  <1>1. IInv => HitsOwnMessage
    BY Zenon DEF IInv, Own, HitsOwnMessage
  <1> QED BY <1>1, Invariant, PTL

\* clawback's guard: only a user's request changes the row of a message a user
\* has decided about.
THEOREM UserStands == Spec => UserDecisionStands
  <1>1. ASSUME TypeOK, [Next]_vars, NEW m \in Msg, rows[m].status \in UserStatus, rows'[m] # rows[m]
        PROVE  \E a \in Actor : op[a] \in Requests /\ stage'[a] # stage[a]
    <2>1. rows[m].status # "INBOX"
      BY <1>1, Zenon DEF UserStatus
    <2>2. ASSUME NEW a \in Actor, Reading(a) \/ Calling(a) PROVE FALSE
      BY <1>1, <2>2, Zenon
      DEF Reading, Finish, Ask, Sweep, ReadNext, Refuse, WriteFails, Calling, CallSucceeds,
                        CallFails, store
    <2>3. ~UNCHANGED vars
      BY <1>1, Zenon DEF vars, store
    <2>4. PICK a \in Actor : Writing(a)
      BY <1>1, <2>2, <2>3, Steps, Zenon
    <2>5. \A k \in Msg : rows'[k] # rows[k] /\ rows[k].status # "INBOX" =>
                            op[a] \in Requests /\ stage'[a] # stage[a]
      BY <1>1, <2>4, WritingTyped, Zenon
    <2> QED BY <1>1, <2>1, <2>5, Zenon
  <1>2. TypeOK /\ [Next]_vars =>
           [\A m \in Msg : rows[m].status \in UserStatus /\ rows'[m] # rows[m] =>
               \E a \in Actor : op[a] \in Requests /\ stage'[a] # stage[a]]_vars
    BY <1>1, Zenon
  <1> QED BY <1>2, TypeCorrect, PTL DEF Spec, UserDecisionStands

------------------------------------------------------------------------------
(* What a step does, seen from one message, while nothing fails.            *)

\* Faults are spent and never given back.
LeftBound == \A k \in FaultKind : left[k] <= Faults[k]

LEMMA UnusedBefore ==
    ASSUME TypeOK, LeftBound, [Next]_vars
    PROVE  /\ LeftBound'
           /\ \A K \in SUBSET FaultKind : Unused(K)' => Unused(K) /\ \A k \in K : ~Spend(k)
  <1>0. left \in [FaultKind -> Nat] /\ Faults \in [FaultKind -> Nat]
    BY ActionsAssumption, Zenon DEF TypeOK
  <1>1. UNCHANGED left \/ \E k \in FaultKind : Spend(k)
    <2>0. {"imap", "uid", "db", "ask"} = FaultKind
      BY Zenon DEF FaultKind
    <2>1. ASSUME NEW a \in Actor, Reading(a) PROVE UNCHANGED left \/ Spend("ask") \/ Spend("db")
      BY <2>1, Zenon DEF Reading, Finish, Ask, Sweep, ReadNext, Refuse, WriteFails
    <2>2. ASSUME NEW a \in Actor, Calling(a) PROVE UNCHANGED left \/ Spend("imap") \/ Spend("uid")
      BY <2>2, Zenon DEF Calling, CallSucceeds, CallFails
    <2>3. ASSUME NEW a \in Actor, Writing(a) PROVE UNCHANGED left \/ Spend("db")
      BY <2>3, Zenon
      DEF Writing, UpdateStatus, WriteQuarantine, WriteClawback, RescanUpsert, RescanUpsertFails,
             RescanRekey, RescanRevert, RescanWriteFails
    <2>4. CASE UNCHANGED vars
      BY <2>4, Zenon DEF vars
    <2> QED BY <2>0, <2>1, <2>2, <2>3, <2>4, Steps, Zenon
  <1>2. ASSUME NEW k \in FaultKind
        PROVE  /\ left'[k] \in Nat /\ left'[k] <= left[k] /\ left[k] \in Nat /\ Faults[k] \in Nat
               /\ Spend(k) => left'[k] < left[k]
    BY <1>0, <1>1 DEF Spend
  <1>3. LeftBound'
    BY <1>2 DEF LeftBound
  <1>4. ASSUME NEW K \in SUBSET FaultKind, Unused(K)', NEW k \in K
        PROVE  left[k] = Faults[k] /\ ~Spend(k)
    <2>1. left'[k] = Faults[k] /\ left[k] <= Faults[k] /\ k \in FaultKind
      BY <1>4, Zenon DEF Unused, LeftBound
    <2> QED BY <1>2, <2>1
  <1> QED BY <1>3, <1>4, Zenon DEF Unused

LEMMA FaultsSpent == Spec => []LeftBound
  <1>1. Init => LeftBound
    BY ActionsAssumption DEF Init, LeftBound
  <1>2. IInv /\ LeftBound /\ [Next]_vars => LeftBound'
    BY UnusedBefore, Zenon DEF IInv
  <1> QED BY <1>1, <1>2, Invariant, PTL DEF Spec

\* What actor b knows of message n, and what it has been told.
Kept(b, n) ==
    /\ stage'[b][n] = stage[b][n] /\ snap'[b][n] = snap[b][n] /\ op'[b] = op[b]
    /\ nuid'[b] = nuid[b] /\ target'[b] = target[b]

\* A step that only reads concerns messages that have not been acted on.
LEMMA ReadingView ==
    ASSUME TypeOK, OneAtATime, NEW a \in Actor, Reading(a), ~Spend("db"), NEW b \in Actor, NEW n \in Msg
    PROVE  \/ Kept(b, n)
           \/ /\ stage[b][n] \in {"no", "todo", "read"}
              /\ \/ stage'[b][n] \in {"no", "todo"}
                 \/ stage'[b][n] = "read" /\ snap'[b][n] = rows[n]
  <1>0. stage \in [Actor -> [Msg -> StageType]]
    BY Zenon DEF TypeOK
  <1>1. \/ b # a /\ stage'[b] = stage[b] /\ snap'[b] = snap[b] /\ op'[b] = op[b]
           /\ nuid'[b] = nuid[b] /\ target'[b] = target[b]
        \/ b = a /\ stage'[b][n] \in {"no", "todo"}
        \/ b = a /\ stage'[b][n] = "read" /\ snap'[b][n] = rows[n]
        \/ b = a /\ stage'[b][n] = stage[b][n] /\ snap'[b][n] = snap[b][n] /\ op'[b] = op[b]
           /\ nuid'[b] = nuid[b] /\ target'[b] = target[b]
    BY ReadingStages, Zenon
  <1>2. stage[a][n] \in {"no", "todo", "read"} \/ stage'[a][n] = stage[a][n]
    <2>1. CASE op[a] = "none"
      BY <2>1, Zenon DEF OneAtATime
    <2>2. CASE Finish(a)
      BY <2>2, Zenon DEF Finish
    <2>3. ASSUME NEW m \in Msg, ReadNext(a, m) PROVE stage[a][n] \in {"no", "todo", "read"} \/ stage'[a][n] = stage[a][n]
      BY <1>0, <2>3, Zenon DEF ReadNext
    <2>4. ASSUME NEW m \in Msg, Refuse(a, m) PROVE stage[a][n] \in {"no", "todo", "read"} \/ stage'[a][n] = stage[a][n]
      BY <1>0, <2>4, Zenon DEF Refuse, Advance
    <2>5. ASSUME NEW m \in Msg, WriteFails(a, m) PROVE FALSE
      BY <2>5, Zenon DEF WriteFails
    <2>6. ASSUME NEW M \in SUBSET Msg, Sweep(a, M) \/ \E o \in Requests, m \in M : Ask(a, o, M, m) PROVE op[a] = "none"
      BY <2>6, Zenon DEF Ask, Sweep
    <2> QED BY <2>1, <2>2, <2>3, <2>4, <2>5, <2>6, Zenon DEF Reading
  <1>3. stage[b][n] \in StageType
    BY <1>0, Zenon
  <1> QED BY <1>1, <1>2, <1>3, Zenon DEF Kept

\* Where a call takes a message.
Dest(o) == IF o \in Releases THEN "INBOX" ELSE IF o = "delete" THEN "gone" ELSE "Quarantine"
Goal(a) == IF op[a] = "rescan" /\ target[a].dec = "delete" THEN "gone" ELSE Dest(op[a])

\* What MOVE and EXPUNGE do to each message: a message that is moved gets an
\* address no message has had.
LEMMA Landing ==
    ASSUME TypeOK, Unique, NEW a \in Actor, NEW V \in SUBSET Msg, Effect(a, V)
    PROVE  /\ \A v \in Msg \ V : folder'[v] = folder[v] /\ uid'[v] = uid[v]
           /\ \A v \in V : folder'[v] = Goal(a)
           /\ \A v \in V, x \in Msg : <<folder'[v], uid'[v], x>> \notin held
           /\ \A h \in held' : h \in held \/ (h[3] \in V /\ h[1] = Goal(a))
  <1>0. /\ folder \in [Msg -> Folder \cup {"gone"}] /\ uid \in [Msg -> Nat]
        /\ uidNext \in [Folder -> Nat] /\ held \subseteq Folder \X Nat \X Msg
        /\ "INBOX" \in Folder /\ "Quarantine" \in Folder /\ "gone" \notin Folder
    BY Zenon DEF TypeOK, Folder
  <1>1. \/ Goal(a) = "gone" /\ Expunge(V)
        \/ Goal(a) \in Folder /\ MoveTo(V, Goal(a))
    BY <1>0, Zenon DEF Effect, Goal, Dest, Releases
  <1>2. CASE Goal(a) = "gone" /\ Expunge(V)
    <2>1. /\ folder' = [v \in Msg |-> IF v \in V THEN "gone" ELSE folder[v]]
          /\ uid' = uid /\ held' = held
      BY <1>2, Zenon DEF Expunge
    <2>2. \A u, x : <<"gone", u, x>> \notin held
      BY <1>0, Zenon
    <2> QED BY <1>0, <1>2, <2>1, <2>2, Zenon
  <1>3. CASE Goal(a) \in Folder /\ MoveTo(V, Goal(a))
    <2> DEFINE f == Goal(a)
    <2>0. Cardinality(V) \in Nat /\ f \in Folder
      BY <1>3, ActionsAssumption, FS_Subset, FS_CardinalityType, Zenon
    <2> HIDE DEF f
    <2>1. PICK new \in [V -> uidNext[f] .. uidNext[f] + Cardinality(V) - 1] :
              /\ folder' = [v \in Msg |-> IF v \in V THEN f ELSE folder[v]]
              /\ uid' = [v \in Msg |-> IF v \in V THEN new[v] ELSE uid[v]]
              /\ held' = held \cup {<<f, new[v], v>> : v \in V}
      BY <1>3, Zenon DEF MoveTo, f
    <2>2. \A v \in V : new[v] \in Nat /\ new[v] >= uidNext[f]
      BY <1>0, <2>0, <2>1
    <2>3. \A v \in V, x \in Msg : <<f, new[v], x>> \notin held
      <3>1. SUFFICES ASSUME NEW v \in V, NEW x \in Msg, <<f, new[v], x>> \in held PROVE FALSE
        BY Zenon
      <3>2. new[v] < uidNext[f]
        BY <3>1, Zenon DEF Unique
      <3> QED BY <1>0, <2>0, <2>2, <3>2
    <2>4. \A v \in V : folder'[v] = f /\ uid'[v] = new[v]
      BY <2>1, Zenon
    <2>5. \A v \in Msg \ V : folder'[v] = folder[v] /\ uid'[v] = uid[v]
      BY <2>1, Zenon
    <2>6. \A h \in held' : h \in held \/ (h[3] \in V /\ h[1] = f)
      BY <2>1
    <2> QED BY <2>3, <2>4, <2>5, <2>6, Zenon DEF f
  <1> QED BY <1>1, <1>2, <1>3, Zenon

\* A call that succeeds, while every call so far has gone to its own message.
LEMMA CallingView ==
    ASSUME IInv, NEW a \in Actor, Calling(a), ~Spend("imap"), blind' = {}
    PROVE  \E m \in Msg, G \in SUBSET Msg, V \in SUBSET Msg :
              /\ m \in G /\ V \subseteq G /\ op[a] \in Requests \cup {"retro"} /\ op[a] # "learnSpam"
              /\ op[a] \in Moves => G = {m} /\ \A n \in Msg : stage[a][n] # "acted"
              /\ \A n \in G : stage[a][n] = Ready(a) /\ stage'[a][n] = "acted"
              /\ \A b \in Actor, n \in Msg : (b # a \/ n \notin G) => stage'[b][n] = stage[b][n]
              /\ Effect(a, V)
              /\ \A n \in G \ missed' : n \in V /\ <<folder[n], uid[n]>> = snap[a][n].at
              /\ missed \subseteq missed' /\ blind = {}
              /\ \A b \in Actor \ {a} : nuid'[b] = nuid[b]
              /\ nuid'[a] = (IF op[a] \in Moves THEN {uid'[v] : v \in V} ELSE {}) \/ Spend("uid")
              /\ UNCHANGED <<rows, audit, op, snap, target, rescanned>>
  <1>0. TypeOK /\ Unique /\ OneAtATime /\ Own
    BY Zenon DEF IInv
  <1>1. PICK m \in Msg : CallSucceeds(a, m)
    BY Zenon DEF Calling, CallFails
  <1> DEFINE G == Group(a, m)
             f == Source(a, m)
             V == Addressed(a, G, f)
  <1>2. G \in SUBSET Msg /\ f \in Folder /\ V \in SUBSET Msg
    BY <1>0, GroupTyped, Zenon
  <1>3. /\ m \in G
        /\ \A b \in Actor, n \in Msg : (b # a \/ n \notin G) => stage'[b][n] = stage[b][n]
        /\ \A n \in G : stage[a][n] \in {"read", "claimed"} /\ stage'[a][n] = "acted"
        /\ op[a] \in Moves => G = {m} /\ \A n \in Msg : stage[a][n] # "acted"
        /\ op[a] # "none"
    BY <1>0, <1>1, CallingStages, Zenon
  <1>4. /\ Calls(a, m) /\ Effect(a, V) /\ Record(a, G, f)
        /\ \/ nuid' = [nuid EXCEPT ![a] = IF op[a] \in Moves THEN {uid'[v] : v \in V} ELSE {}]
           \/ Spend("uid") /\ nuid' = [nuid EXCEPT ![a] = {}]
        /\ UNCHANGED <<store, op, snap, target>>
    BY <1>1, Zenon DEF CallSucceeds
  <1>5. stage[a][m] = Ready(a) /\ op[a] # "learnSpam" /\ op[a] \in OpType
    BY <1>0, <1>4, Zenon DEF Calls, TypeOK
  <1>6. \A n \in G : stage[a][n] = Ready(a)
    BY <1>5, Zenon DEF Group, At
  <1>7. op[a] \in Requests \cup {"retro"}
    BY <1>3, <1>5, Zenon DEF OpType
  <1>8. /\ missed' = missed \cup {n \in G : n \notin V \/ <<f, uid[n]>> # snap[a][n].at}
        /\ blind \subseteq blind' /\ rescanned' = rescanned
    BY <1>4, Zenon DEF Record
  <1>9. \A v \in V : folder[v] = f /\ \E n \in G : snap[a][n].at[2] = uid[v]
    BY Zenon DEF Addressed
  <1> HIDE DEF G, f
  <1>10. \A n \in G : stage[a][n] \in Active
    BY <1>3, Zenon DEF Active
  <1>11. \A n \in G, v \in V : snap[a][n].at[2] = uid[v] => n = v
    BY <1>0, <1>2, <1>4, <1>10, Aimed, Zenon
  <1> HIDE DEF V
  <1>12. V \subseteq G
    BY <1>9, <1>11, Zenon
  <1>13. \A n \in G \ missed' : n \in V /\ <<folder[n], uid[n]>> = snap[a][n].at
    BY <1>8, <1>9, Zenon
  <1>14. /\ \A b \in Actor \ {a} : nuid'[b] = nuid[b]
         /\ nuid'[a] = (IF op[a] \in Moves THEN {uid'[v] : v \in V} ELSE {}) \/ Spend("uid")
    <2>1. nuid \in [Actor -> SUBSET Nat]
      BY <1>0, Zenon DEF TypeOK
    <2> QED BY <1>4, <2>1, Zenon
  <1>15. missed \subseteq missed' /\ blind = {}
    BY <1>8, Zenon
  <1>16. UNCHANGED <<rows, audit, op, snap, target, rescanned>>
    BY <1>4, <1>8, Zenon DEF store
  <1>17. \A n \in G : stage[a][n] = Ready(a) /\ stage'[a][n] = "acted"
    BY <1>3, <1>6, Zenon
  <1> QED BY <1>2, <1>3, <1>4, <1>5, <1>7, <1>12, <1>13, <1>14, <1>15, <1>16, <1>17, Zenon

\* The writes that end the work on row n, or that claim it for a rescan.
Statuses(a, n) ==
    /\ op[a] \in Bulk \cup {"releaseLearn"} /\ Writes(a, n)
    /\ rows' = [rows EXCEPT ![n].status = NewStatus(op[a])]
    /\ <<n, NewStatus(op[a])>> \in audit'

Quarantines(a, n) ==
    /\ stage[a][n] = "acted"
    /\ \/ op[a] = "quarantine" /\ <<n, "QUARANTINE">> \in audit'
       \/ op[a] = "retro" /\ <<n, "RETRO_QUARANTINE">> \in audit'
    /\ rows' = IF op[a] = "quarantine" \/ rows[n].status = "INBOX"
               THEN [rows EXCEPT ![n] = [Requarantined(rows[n], nuid[a]) EXCEPT !.status = "QUARANTINED"]]
               ELSE rows

Claims(a, n) ==
    /\ op[a] = "rescan" /\ stage[a][n] = "read" /\ <<n, "RESCAN">> \in audit'
    /\ target'[a].row \subseteq {k \in Msg : rows[k].key = snap[a][n].at}
    /\ target'[a].row = {} => \A k \in Msg : rows[k].key # snap[a][n].at
    /\ \A k \in Msg \ target'[a].row : rows'[k] = rows[k]
    /\ rescanned' = rescanned \cup target'[a].row

Rescans(a, n) ==
    /\ op[a] = "rescan" /\ stage[a][n] \in {"acted", "failed"}
    /\ \A k \in Msg \ target[a].row : rows'[k] = rows[k]

LEMMA WritingView ==
    ASSUME TypeOK, NEW a \in Actor, Writing(a), ~Spend("db")
    PROVE  \E n \in Msg :
              /\ \A b \in Actor, k \in Msg : <<b, k>> # <<a, n>> => stage'[b][k] = stage[b][k]
              /\ UNCHANGED <<server, missed, blind, op, snap, nuid>> /\ audit \subseteq audit'
              /\ \A b \in Actor \ {a} : target'[b] = target[b]
              /\ \/ stage'[a][n] \in {"no", "claimed"} /\ Claims(a, n)
                 \/ /\ stage'[a][n] = "no" /\ UNCHANGED <<target, rescanned>>
                    /\ Statuses(a, n) \/ Quarantines(a, n) \/ Rescans(a, n)
  <1>0. stage \in [Actor -> [Msg -> StageType]] /\ target \in [Actor -> [row : SUBSET Msg, dec : Decision]]
    BY Zenon DEF TypeOK
  <1>t. "no" \in StageType /\ "claimed" \in StageType
    BY Zenon DEF StageType
  <1>u. UNCHANGED <<server, missed, blind, op, snap, nuid>> /\ audit \subseteq audit'
    <2>1. UNCHANGED <<server, missed, blind, op, snap, nuid>>
      BY Zenon
      DEF Writing, UpdateStatus, WriteQuarantine, WriteClawback, RescanUpsert, RescanUpsertFails,
           RescanRekey, RescanRevert, RescanWriteFails, history
    <2>2. audit \subseteq audit'
      BY DEF Writing, UpdateStatus, WriteQuarantine, WriteClawback, RescanUpsert, RescanUpsertFails,
           RescanRekey, RescanRevert, RescanWriteFails, Log, LogTarget
    <2> QED BY <2>1, <2>2, Zenon
  <1>s. ASSUME NEW n \in Msg, NEW s \in StageType, Advance(a, {n}, s)
        PROVE  stage'[a][n] = s /\ \A b \in Actor, k \in Msg : <<b, k>> # <<a, n>> => stage'[b][k] = stage[b][k]
    BY <1>0, <1>s, AdvanceTyped
  <1>1. ASSUME NEW n \in Msg, UpdateStatus(a, n)
        PROVE  Advance(a, {n}, "no") /\ UNCHANGED <<target, rescanned>> /\ Statuses(a, n)
    BY <1>1, Zenon DEF UpdateStatus, Statuses, Log, history
  <1>2. ASSUME NEW n \in Msg, WriteQuarantine(a, n)
        PROVE  Advance(a, {n}, "no") /\ UNCHANGED <<target, rescanned>> /\ Quarantines(a, n)
    <2>1. /\ stage[a][n] = "acted" /\ op[a] = "quarantine"
          /\ rows' = [rows EXCEPT ![n] = [Requarantined(rows[n], nuid[a]) EXCEPT !.status = "QUARANTINED"]]
          /\ Log(n, "QUARANTINE") /\ Advance(a, {n}, "no") /\ UNCHANGED <<target, history>>
      BY <1>2, Zenon DEF WriteQuarantine, Writes
    <2> QED BY <2>1, Zenon DEF Quarantines, Log, history
  <1>3. ASSUME NEW n \in Msg, WriteClawback(a, n)
        PROVE  Advance(a, {n}, "no") /\ UNCHANGED <<target, rescanned>> /\ Quarantines(a, n)
    <2>1. /\ stage[a][n] = "acted" /\ op[a] = "retro"
          /\ rows' = IF rows[n].status = "INBOX"
                     THEN [rows EXCEPT ![n] = [Requarantined(rows[n], nuid[a]) EXCEPT !.status = "QUARANTINED"]]
                     ELSE rows
          /\ Log(n, "RETRO_QUARANTINE") /\ Advance(a, {n}, "no") /\ UNCHANGED <<target, history>>
      BY <1>3, Zenon DEF WriteClawback, Writes
    <2> QED BY <2>1, Zenon DEF Quarantines, Log, history
  <1>4. ASSUME NEW n \in Msg, NEW d \in Decision, RescanUpsert(a, n, d)
        PROVE  /\ Advance(a, {n}, "no") \/ Advance(a, {n}, "claimed")
               /\ \A b \in Actor \ {a} : target'[b] = target[b]
               /\ Claims(a, n)
    <2>1. PICK r \in SUBSET {k \in Msg : rows[k].key = snap[a][n].at} :
             /\ r = {} <=> \A k \in Msg : rows[k].key # snap[a][n].at
             /\ rows' = [k \in Msg |-> IF k \notin r THEN rows[k] ELSE [rows[k] EXCEPT !.status =
                       CASE d = "pass" -> "INBOX" [] d = "quarantine" -> "QUARANTINED"
                         [] d = "delete" -> "DELETED"]]
             /\ \/ audit' = audit \cup (r \X {VerdictToAction(e) : e \in {d} \cap {"pass"}}) \cup {<<n, "RESCAN">>}
                \/ Spend("db")
             /\ target' = [target EXCEPT ![a] = [row |-> r, dec |-> d]]
             /\ rescanned' = rescanned \cup r
      BY <1>4, Zenon DEF RescanUpsert
    <2>2. /\ op[a] = "rescan" /\ stage[a][n] = "read"
          /\ Advance(a, {n}, "no") \/ Advance(a, {n}, "claimed")
      BY <1>4, Zenon DEF RescanUpsert
    <2>3. target'[a].row = r /\ \A b \in Actor \ {a} : target'[b] = target[b]
      BY <1>0, <2>1, Zenon
    <2>4. <<n, "RESCAN">> \in audit'
      BY <2>1, Zenon
    <2>5. \A k \in Msg \ r : rows'[k] = rows[k]
      BY <2>1, Zenon
    <2> QED BY <2>1, <2>2, <2>3, <2>4, <2>5, Zenon DEF Claims
  <1>5. ASSUME NEW n \in Msg, RescanRekey(a, n) \/ RescanRevert(a, n)
        PROVE  Advance(a, {n}, "no") /\ UNCHANGED <<target, rescanned>> /\ Rescans(a, n)
    BY <1>5, Zenon DEF RescanRekey, RescanRevert, Rescans, history
  <1>6. ASSUME NEW n \in Msg, RescanUpsertFails(a, n) \/ RescanWriteFails(a, n) PROVE FALSE
    BY <1>6, Zenon DEF RescanUpsertFails, RescanWriteFails
  <1>7. PICK n \in Msg :
           \/ UpdateStatus(a, n) \/ WriteQuarantine(a, n) \/ WriteClawback(a, n)
           \/ (\E d \in Decision : RescanUpsert(a, n, d)) \/ RescanUpsertFails(a, n)
           \/ RescanRekey(a, n) \/ RescanRevert(a, n) \/ RescanWriteFails(a, n)
    BY Zenon DEF Writing
  <1>8. CASE \E d \in Decision : RescanUpsert(a, n, d)
    <2>1. /\ Advance(a, {n}, "no") \/ Advance(a, {n}, "claimed")
          /\ \A b \in Actor \ {a} : target'[b] = target[b]
          /\ Claims(a, n)
      BY <1>4, <1>8, Zenon
    <2>2. /\ stage'[a][n] \in {"no", "claimed"}
          /\ \A b \in Actor, k \in Msg : <<b, k>> # <<a, n>> => stage'[b][k] = stage[b][k]
      BY <1>s, <1>t, <2>1, Zenon
    <2> QED BY <1>u, <2>1, <2>2, Zenon
  <1>9. CASE ~\E d \in Decision : RescanUpsert(a, n, d)
    <2>1. /\ Advance(a, {n}, "no") /\ UNCHANGED <<target, rescanned>>
          /\ Statuses(a, n) \/ Quarantines(a, n) \/ Rescans(a, n)
      BY <1>1, <1>2, <1>3, <1>5, <1>6, <1>7, <1>9, Zenon
    <2>2. /\ stage'[a][n] = "no"
          /\ \A b \in Actor, k \in Msg : <<b, k>> # <<a, n>> => stage'[b][k] = stage[b][k]
      BY <1>s, <1>t, <2>1, Zenon
    <2> QED BY <1>u, <2>1, <2>2, Zenon
  <1> QED BY <1>8, <1>9, Zenon

------------------------------------------------------------------------------
(* Every move is logged.                                                    *)

\* The requests and sweeps that log after the call.
Movers == Releases \cup {"delete", "quarantine", "retro"}

Entered(m, f) == \E e \in Explains(f) : <<m, e>> \in audit

\* Actor a has moved m to f and is about to say so.
Owes(a, m, f) == stage[a][m] = "acted" /\ op[a] \in Movers /\ f = Dest(op[a])

\* A rescan logs before it acts; whatever else has moved a message has either
\* logged it or is still at work on it.
Accounted ==
    Unused({"imap", "db"}) /\ blind = {} =>
        /\ \A a \in Actor, m \in Msg :
              op[a] = "rescan" /\ stage[a][m] \in {"claimed", "acted"} => <<m, "RESCAN">> \in audit
        /\ \A m \in Msg, f \in Folder \cup {"gone"} :
              MovedTo(m, f) => Entered(m, f) \/ \E a \in Actor : Owes(a, m, f)

LEMMA AccountedInit == Init => Accounted
  <1> SUFFICES ASSUME Init PROVE Accounted
    BY Zenon
  <1>1. /\ folder \in [Msg -> Folder] /\ uid \in [Msg -> 1..Cardinality(Msg)]
        /\ held = {<<folder[m], uid[m], m>> : m \in Msg}
    BY Zenon DEF Init
  <1>2. Cardinality(Msg) \in Nat
    BY ActionsAssumption, FS_CardinalityType, Zenon
  <1>3. \A h \in held : ~(h[2] > Cardinality(Msg))
    BY <1>1, <1>2
  <1>4. \A m \in Msg : folder[m] # "gone"
    BY <1>1, Zenon DEF Folder
  <1>5. \A m \in Msg, f \in Folder \cup {"gone"} : ~MovedTo(m, f)
    BY <1>3, <1>4, Zenon DEF MovedTo
  <1>6. \A a \in Actor, m \in Msg : stage[a][m] = "no"
    BY Zenon DEF Init
  <1> QED BY <1>5, <1>6, Zenon DEF Accounted

LEMMA AccountedStep ==
    ASSUME IInv, LeftBound, Accounted, [Next]_vars
    PROVE  Accounted'
  <1>0. TypeOK /\ Unique /\ OneAtATime
    BY Zenon DEF IInv
  <1>1. SUFFICES ASSUME Unused({"imap", "db"})', blind' = {}
                 PROVE  /\ \A b \in Actor, m \in Msg :
                              op'[b] = "rescan" /\ stage'[b][m] \in {"claimed", "acted"} => <<m, "RESCAN">> \in audit'
                        /\ \A m \in Msg, f \in Folder \cup {"gone"} :
                              MovedTo(m, f)' => Entered(m, f)' \/ \E b \in Actor : Owes(b, m, f)'
    BY Zenon DEF Accounted
  <1>2. Unused({"imap", "db"}) /\ ~Spend("imap") /\ ~Spend("db")
    <2>1. {"imap", "db"} \in SUBSET FaultKind
      BY Zenon DEF FaultKind
    <2> QED BY <1>0, <1>1, <2>1, UnusedBefore, Zenon
  <1>3. ASSUME blind = {}
        PROVE  /\ \A b \in Actor, m \in Msg :
                     op[b] = "rescan" /\ stage[b][m] \in {"claimed", "acted"} => <<m, "RESCAN">> \in audit
               /\ \A m \in Msg, f \in Folder \cup {"gone"} :
                     MovedTo(m, f) => Entered(m, f) \/ \E b \in Actor : Owes(b, m, f)
    BY <1>2, <1>3, Zenon DEF Accounted
  <1>4. ASSUME NEW m, NEW f, Entered(m, f), audit \subseteq audit' PROVE Entered(m, f)'
    BY <1>4, Zenon DEF Entered
  <1>5. ASSUME NEW m, NEW f, MovedTo(m, f)', UNCHANGED server PROVE MovedTo(m, f)
    BY <1>5, Zenon DEF MovedTo, server
  <1>6. CASE UNCHANGED vars
    <2>1. UNCHANGED <<server, folder, held, audit, op, stage, blind>>
      BY <1>6, Zenon DEF vars, server, store, daemon, history
    <2>2. ASSUME NEW m \in Msg, NEW f \in Folder \cup {"gone"}, MovedTo(m, f)'
          PROVE  Entered(m, f)' \/ \E b \in Actor : Owes(b, m, f)'
      BY <1>1, <1>3, <1>4, <1>5, <2>1, <2>2, Zenon DEF Owes
    <2>3. ASSUME NEW b \in Actor, NEW m \in Msg, op'[b] = "rescan", stage'[b][m] \in {"claimed", "acted"}
          PROVE  <<m, "RESCAN">> \in audit'
      BY <1>1, <1>3, <2>1, <2>3, Zenon
    <2> QED BY <2>2, <2>3, Zenon
  <1>7. ASSUME NEW a \in Actor, Reading(a)
        PROVE  /\ \A b \in Actor, m \in Msg :
                     op'[b] = "rescan" /\ stage'[b][m] \in {"claimed", "acted"} => <<m, "RESCAN">> \in audit'
               /\ \A m \in Msg, f \in Folder \cup {"gone"} :
                     MovedTo(m, f)' => Entered(m, f)' \/ \E b \in Actor : Owes(b, m, f)'
    <2>1. UNCHANGED <<server, audit, blind>>
      BY <1>7, Zenon DEF Reading, Finish, Ask, Sweep, ReadNext, Refuse, WriteFails, store, history
    <2>2. ASSUME NEW b \in Actor, NEW m \in Msg,
                 stage[b][m] \in {"claimed", "acted"} \/ stage'[b][m] \in {"claimed", "acted"}
          PROVE  op'[b] = op[b] /\ stage'[b][m] = stage[b][m]
      BY <1>0, <1>2, <1>7, <2>2, ReadingView, Zenon DEF Kept
    <2>3. ASSUME NEW b \in Actor, NEW m \in Msg, NEW f, Owes(b, m, f) PROVE Owes(b, m, f)'
      BY <2>2, <2>3, Zenon DEF Owes
    <2>4. ASSUME NEW m \in Msg, NEW f \in Folder \cup {"gone"}, MovedTo(m, f)'
          PROVE  Entered(m, f)' \/ \E b \in Actor : Owes(b, m, f)'
      <3>1. MovedTo(m, f)
        BY <1>5, <2>1, <2>4, Zenon
      <3>2. Entered(m, f) \/ \E b \in Actor : Owes(b, m, f)
        BY <1>1, <1>3, <2>1, <3>1, Zenon
      <3> QED BY <1>4, <2>1, <2>3, <3>2, Zenon
    <2>5. ASSUME NEW b \in Actor, NEW m \in Msg, op'[b] = "rescan", stage'[b][m] \in {"claimed", "acted"}
          PROVE  <<m, "RESCAN">> \in audit'
      BY <1>1, <1>3, <2>1, <2>2, <2>5, Zenon
    <2> QED BY <2>4, <2>5, Zenon
  <1>8. ASSUME NEW a \in Actor, Calling(a)
        PROVE  /\ \A b \in Actor, m \in Msg :
                     op'[b] = "rescan" /\ stage'[b][m] \in {"claimed", "acted"} => <<m, "RESCAN">> \in audit'
               /\ \A m \in Msg, f \in Folder \cup {"gone"} :
                     MovedTo(m, f)' => Entered(m, f)' \/ \E b \in Actor : Owes(b, m, f)'
    <2>1. PICK n \in Msg, G \in SUBSET Msg, V \in SUBSET Msg :
              /\ n \in G /\ V \subseteq G /\ op[a] \in Requests \cup {"retro"} /\ op[a] # "learnSpam"
              /\ op[a] \in Moves => G = {n} /\ \A k \in Msg : stage[a][k] # "acted"
              /\ \A k \in G : stage[a][k] = Ready(a) /\ stage'[a][k] = "acted"
              /\ \A b \in Actor, k \in Msg : (b # a \/ k \notin G) => stage'[b][k] = stage[b][k]
              /\ Effect(a, V)
              /\ \A k \in G \ missed' : k \in V /\ <<folder[k], uid[k]>> = snap[a][k].at
              /\ missed \subseteq missed' /\ blind = {}
              /\ \A b \in Actor \ {a} : nuid'[b] = nuid[b]
              /\ nuid'[a] = (IF op[a] \in Moves THEN {uid'[v] : v \in V} ELSE {}) \/ Spend("uid")
              /\ UNCHANGED <<rows, audit, op, snap, target, rescanned>>
      BY <1>1, <1>2, <1>8, CallingView, Zenon
    <2>2. /\ \A v \in Msg \ V : folder'[v] = folder[v] /\ uid'[v] = uid[v]
          /\ \A v \in V : folder'[v] = Goal(a)
          /\ \A h \in held' : h \in held \/ (h[3] \in V /\ h[1] = Goal(a))
      BY <1>0, <2>1, Landing, Zenon
    <2>3. ASSUME NEW m \in Msg, NEW f \in Folder \cup {"gone"}, MovedTo(m, f)'
          PROVE  MovedTo(m, f) \/ (m \in V /\ f = Goal(a))
      BY <2>2, <2>3 DEF MovedTo
    <2>4. ASSUME NEW b \in Actor, NEW m \in Msg, op'[b] = "rescan", stage'[b][m] \in {"claimed", "acted"}
          PROVE  <<m, "RESCAN">> \in audit
      <3>1. op[b] = "rescan"
        BY <2>1, <2>4, Zenon
      <3>2. CASE b # a \/ m \notin G
        BY <1>3, <2>1, <2>4, <3>1, <3>2, Zenon
      <3>3. CASE b = a /\ m \in G
        <4>1. stage[b][m] = "claimed"
          BY <2>1, <3>1, <3>3, Zenon DEF Ready
        <4> QED BY <1>3, <2>1, <3>1, <4>1, Zenon
      <3> QED BY <3>2, <3>3, Zenon
    <2>5. ASSUME NEW m \in Msg, NEW f \in Folder \cup {"gone"}, MovedTo(m, f)'
          PROVE  Entered(m, f)' \/ \E b \in Actor : Owes(b, m, f)'
      <3>1. CASE MovedTo(m, f)
        <4>1. Entered(m, f) \/ \E b \in Actor : Owes(b, m, f)
          BY <1>3, <2>1, <3>1, Zenon
        <4>2. ASSUME NEW b \in Actor, Owes(b, m, f) PROVE Owes(b, m, f)'
          <5>1. stage[b][m] = "acted" /\ op[b] \in Movers /\ f = Dest(op[b])
            BY <4>2, Zenon DEF Owes
          <5>2. stage'[b][m] = "acted"
            BY <2>1, <5>1
          <5> QED BY <2>1, <5>1, <5>2, Zenon DEF Owes
        <4> QED BY <1>4, <2>1, <4>1, <4>2, Zenon
      <3>2. CASE m \in V /\ f = Goal(a) /\ op[a] = "rescan"
        <4>1. <<m, "RESCAN">> \in audit'
          BY <2>1, <2>4, <3>2, Zenon
        <4>2. "RESCAN" \in Explains(f)
          BY <3>2, Zenon DEF Explains, Goal, Dest, Releases
        <4> QED BY <4>1, <4>2, Zenon DEF Entered
      <3>3. CASE m \in V /\ f = Goal(a) /\ op[a] # "rescan"
        <4>1. stage'[a][m] = "acted" /\ op'[a] = op[a]
          BY <2>1, <3>3, Zenon
        <4>2. op[a] \in Movers /\ f = Dest(op[a])
          BY <2>1, <3>3, Zenon DEF Goal, Movers, Requests, Bulk, Releases
        <4> QED BY <4>1, <4>2, Zenon DEF Owes
      <3> QED BY <2>3, <2>5, <3>1, <3>2, <3>3, Zenon
    <2> QED BY <2>1, <2>4, <2>5, Zenon
  <1>9. ASSUME NEW a \in Actor, Writing(a)
        PROVE  /\ \A b \in Actor, m \in Msg :
                     op'[b] = "rescan" /\ stage'[b][m] \in {"claimed", "acted"} => <<m, "RESCAN">> \in audit'
               /\ \A m \in Msg, f \in Folder \cup {"gone"} :
                     MovedTo(m, f)' => Entered(m, f)' \/ \E b \in Actor : Owes(b, m, f)'
    <2>1. PICK n \in Msg :
              /\ \A b \in Actor, k \in Msg : <<b, k>> # <<a, n>> => stage'[b][k] = stage[b][k]
              /\ UNCHANGED <<server, missed, blind, op, snap, nuid>> /\ audit \subseteq audit'
              /\ \A b \in Actor \ {a} : target'[b] = target[b]
              /\ \/ stage'[a][n] \in {"no", "claimed"} /\ Claims(a, n)
                 \/ /\ stage'[a][n] = "no" /\ UNCHANGED <<target, rescanned>>
                    /\ Statuses(a, n) \/ Quarantines(a, n) \/ Rescans(a, n)
      BY <1>0, <1>2, <1>9, WritingView, Zenon
    <2>2. ASSUME NEW b \in Actor, NEW m \in Msg, op'[b] = "rescan", stage'[b][m] \in {"claimed", "acted"}
          PROVE  <<m, "RESCAN">> \in audit'
      <3>1. CASE b = a /\ m = n
        BY <2>1, <2>2, <3>1, Zenon DEF Claims
      <3>2. CASE ~(b = a /\ m = n)
        <4>1. stage[b][m] = stage'[b][m] /\ op[b] = "rescan"
          BY <2>1, <2>2, <3>2, Zenon
        <4> QED BY <1>1, <1>3, <2>1, <2>2, <4>1, Zenon
      <3> QED BY <3>1, <3>2, Zenon
    <2>3. ASSUME NEW f, Owes(a, n, f) PROVE Entered(n, f)'
      <3>1. stage[a][n] = "acted" /\ op[a] \in Movers /\ f = Dest(op[a])
        BY <2>3, Zenon DEF Owes
      <3>2. Statuses(a, n) \/ Quarantines(a, n)
        BY <2>1, <3>1, Zenon DEF Claims, Rescans, Movers, Releases
      <3>3. CASE Statuses(a, n)
        <4>1. <<n, NewStatus(op[a])>> \in audit' /\ op[a] \in Bulk \cup {"releaseLearn"} /\ op[a] # "learnSpam"
          BY <3>1, <3>3, Zenon DEF Statuses, Movers, Releases
        <4>2. NewStatus(op[a]) \in Explains(f)
          BY <3>1, <4>1, Zenon DEF NewStatus, Explains, Dest, Releases, Bulk
        <4> QED BY <4>1, <4>2, Zenon DEF Entered
      <3>4. CASE Quarantines(a, n)
        BY <3>1, <3>4, Zenon DEF Quarantines, Entered, Explains, Dest, Releases
      <3> QED BY <3>2, <3>3, <3>4, Zenon
    <2>4. ASSUME NEW m \in Msg, NEW f \in Folder \cup {"gone"}, MovedTo(m, f)'
          PROVE  Entered(m, f)' \/ \E b \in Actor : Owes(b, m, f)'
      <3>1. Entered(m, f) \/ \E b \in Actor : Owes(b, m, f)
        BY <1>1, <1>3, <1>5, <2>1, <2>4, Zenon
      <3>2. ASSUME NEW b \in Actor, Owes(b, m, f) PROVE Entered(m, f)' \/ Owes(b, m, f)'
        <4>1. CASE b = a /\ m = n
          BY <2>3, <3>2, <4>1, Zenon
        <4>2. CASE ~(b = a /\ m = n)
          <5>1. stage'[b][m] = stage[b][m] /\ op'[b] = op[b]
            BY <2>1, <4>2, Zenon
          <5> QED BY <3>2, <5>1, Zenon DEF Owes
        <4> QED BY <4>1, <4>2, Zenon
      <3> QED BY <1>4, <2>1, <3>1, <3>2, Zenon
    <2> QED BY <2>2, <2>4, Zenon
  <1> QED BY <1>6, <1>7, <1>8, <1>9, Steps, Zenon

\* While no call and no write fails, and no call has gone to the address of
\* another message, every place a message was moved to is in the audit log
\* by the time nobody works on it: clawback (pipeline/retro.go), updateStatus and
\* Rescan (web/handlers/actions.go) leave no move unexplained.
THEOREM MovesLogged == Spec => []EveryMoveIsLogged
  <1>1. IInv /\ LeftBound /\ Accounted /\ [Next]_vars => Accounted'
    BY AccountedStep, Zenon
  <1>2. Accounted => EveryMoveIsLogged
    BY Zenon DEF Accounted, EveryMoveIsLogged, Entered, Owes, Working
  <1> QED BY <1>1, <1>2, AccountedInit, Invariant, FaultsSpent, PTL DEF Spec

------------------------------------------------------------------------------
(* Rows and mailboxes part only after a miss.                               *)

Place(m) == <<folder[m], uid[m]>>

\* Nobody has acted on m without writing its row: the row says where m is, and
\* if any copy of it has m's address, so has the row. A released message's
\* row keeps the address in the quarantine.
Settled(m) ==
    /\ \A a \in Actor : stage[a][m] # "acted"
    /\ folder[m] \in PlaceOf(rows[m].status)
    /\ \A a \in Actor : stage[a][m] \in Active /\ snap[a][m].at = Place(m) => rows[m].at = Place(m)
    /\ rows[m].status \in {"RELEASED", "LEARNED_HAM"} => rows[m].at # Place(m)

\* Actor b alone has moved m, to an address that neither the row nor a copy has
\* yet, and what it is about to write is true.
Carries(b, m) ==
    /\ stage[b][m] = "acted" /\ \A c \in Actor \ {b} : stage[c][m] # "acted"
    /\ op[b] \in Movers /\ folder[m] = Dest(op[b])
    /\ op[b] \in Moves => nuid[b] = {uid[m]}
    /\ op[b] = "retro" => rows[m].status \in {"INBOX", "QUARANTINED", "LEARNED_SPAM"}
    /\ rows[m].at # Place(m)
    /\ \A c \in Actor : stage[c][m] \in Active => snap[c][m].at # Place(m)

\* A rescan that has claimed another row than m's, or none, has a copy that is out
\* of date.
Tracked(m) ==
    /\ rows[m].at = rows[m].key
    /\ \A a \in Actor : stage[a][m] \in Active => snap[a][m].at = snap[a][m].key
    /\ \A a \in Actor : stage[a][m] = "claimed" => snap[a][m].at # Place(m)
    /\ Settled(m) \/ \E b \in Actor : Carries(b, m)

Synced ==
    Unused({"imap", "uid", "db"}) /\ blind = {} =>
        /\ \A a \in Actor : target[a].row \subseteq rescanned
        /\ \A m \in Msg \ (missed \cup rescanned) : Tracked(m)

\* Steps that leave the message and its row as they are.
LEMMA QuietTracked ==
    ASSUME NEW m \in Msg, Tracked(m), folder'[m] = folder[m], uid'[m] = uid[m], rows'[m] = rows[m],
           \A b \in Actor :
              \/ /\ stage'[b][m] = stage[b][m] /\ snap'[b][m] = snap[b][m] /\ op'[b] = op[b]
                 /\ stage[b][m] = "acted" /\ op[b] \in Moves => nuid'[b] = nuid[b]
              \/ /\ stage[b][m] # "acted"
                 /\ \/ stage'[b][m] \in {"no", "todo"}
                    \/ stage'[b][m] = "read" /\ snap'[b][m] = rows[m]
              \/ /\ stage[b][m] = "read" /\ stage'[b][m] = "claimed"
                 /\ snap'[b][m] = snap[b][m] /\ snap[b][m].at # Place(m)
    PROVE  Tracked(m)'
  <1>0. Place(m)' = Place(m)
    BY Zenon DEF Place
  <1>1. ASSUME NEW b \in Actor
        PROVE  /\ stage'[b][m] = "acted" <=> stage[b][m] = "acted"
               /\ stage[b][m] = "acted" => op'[b] = op[b] /\ (op[b] \in Moves => nuid'[b] = nuid[b])
               /\ stage'[b][m] \in Active =>
                     \/ snap'[b][m] = rows[m] /\ stage'[b][m] = "read"
                     \/ /\ snap'[b][m] = snap[b][m] /\ stage[b][m] \in Active
                        /\ stage'[b][m] = stage[b][m] \/ snap[b][m].at # Place(m)
    BY <1>1, Zenon DEF Active
  <1>2. /\ rows[m].at = rows[m].key
        /\ \A a \in Actor : stage[a][m] \in Active => snap[a][m].at = snap[a][m].key
        /\ \A a \in Actor : stage[a][m] = "claimed" => snap[a][m].at # Place(m)
        /\ Settled(m) \/ \E b \in Actor : Carries(b, m)
    BY Zenon DEF Tracked
  <1>3. \A a \in Actor : stage'[a][m] \in Active => snap'[a][m].at = snap'[a][m].key
    BY <1>1, <1>2, Zenon
  <1>4. \A a \in Actor : stage'[a][m] = "claimed" => snap'[a][m].at # Place(m)
    BY <1>1, <1>2, Zenon DEF Active
  <1>5. CASE Settled(m)
    <2>1. /\ \A a \in Actor : stage[a][m] # "acted"
          /\ folder[m] \in PlaceOf(rows[m].status)
          /\ \A a \in Actor : stage[a][m] \in Active /\ snap[a][m].at = Place(m) => rows[m].at = Place(m)
          /\ rows[m].status \in {"RELEASED", "LEARNED_HAM"} => rows[m].at # Place(m)
      BY <1>5, Zenon DEF Settled
    <2>2. \A a \in Actor : stage'[a][m] # "acted"
      BY <1>1, <2>1, Zenon
    <2>3. \A a \in Actor : stage'[a][m] \in Active /\ snap'[a][m].at = Place(m) => rows[m].at = Place(m)
      BY <1>1, <2>1, Zenon
    <2>4. Settled(m)'
      BY <1>0, <2>1, <2>2, <2>3, Zenon DEF Settled
    <2> QED BY <1>0, <1>2, <1>3, <1>4, <2>4, Zenon DEF Tracked
  <1>6. ASSUME NEW b \in Actor, Carries(b, m) PROVE Carries(b, m)'
    <2>1. /\ stage[b][m] = "acted" /\ \A c \in Actor \ {b} : stage[c][m] # "acted"
          /\ op[b] \in Movers /\ folder[m] = Dest(op[b])
          /\ op[b] \in Moves => nuid[b] = {uid[m]}
          /\ op[b] = "retro" => rows[m].status \in {"INBOX", "QUARANTINED", "LEARNED_SPAM"}
          /\ rows[m].at # Place(m)
          /\ \A c \in Actor : stage[c][m] \in Active => snap[c][m].at # Place(m)
      BY <1>6, Zenon DEF Carries
    <2>2. stage'[b][m] = "acted" /\ \A c \in Actor \ {b} : stage'[c][m] # "acted"
      BY <1>1, <2>1, Zenon
    <2>3. op'[b] = op[b] /\ (op[b] \in Moves => nuid'[b] = nuid[b])
      BY <1>1, <2>1, Zenon
    <2>4. \A c \in Actor : stage'[c][m] \in Active => snap'[c][m].at # Place(m)
      BY <1>1, <2>1, Zenon
    <2> QED BY <1>0, <2>1, <2>2, <2>3, <2>4, Zenon DEF Carries
  <1>7. CASE \E b \in Actor : Carries(b, m)
    BY <1>0, <1>2, <1>3, <1>4, <1>6, <1>7, Zenon DEF Tracked
  <1> QED BY <1>2, <1>5, <1>7, Zenon

LEMMA ReadingTracked ==
    ASSUME TypeOK, OneAtATime, NEW a \in Actor, Reading(a), ~Spend("db"), NEW m \in Msg, Tracked(m)
    PROVE  Tracked(m)'
  <1>1. UNCHANGED <<folder, uid, rows>>
    BY Zenon DEF Reading, Finish, Ask, Sweep, ReadNext, Refuse, WriteFails, server, store
  <1>2. ASSUME NEW b \in Actor
        PROVE  \/ /\ stage'[b][m] = stage[b][m] /\ snap'[b][m] = snap[b][m] /\ op'[b] = op[b]
                  /\ stage[b][m] = "acted" /\ op[b] \in Moves => nuid'[b] = nuid[b]
               \/ /\ stage[b][m] # "acted"
                  /\ \/ stage'[b][m] \in {"no", "todo"}
                     \/ stage'[b][m] = "read" /\ snap'[b][m] = rows[m]
    <2>1. \/ Kept(b, m)
          \/ /\ stage[b][m] \in {"no", "todo", "read"}
             /\ \/ stage'[b][m] \in {"no", "todo"}
                \/ stage'[b][m] = "read" /\ snap'[b][m] = rows[m]
      BY ReadingView, Zenon
    <2> QED BY <2>1, Zenon DEF Kept
  <1> QED BY <1>1, <1>2, QuietTracked, Zenon

\* An address a message has had is none that a call gives it.
LEMMA FreshPlace ==
    ASSUME NEW m \in Msg, NEW at \in Address, Had(at, m),
           \A x \in Msg : <<folder'[m], uid'[m], x>> \notin held
    PROVE  at # Place(m)'
  <1>1. <<at[1], at[2], m>> \in held
    BY Zenon DEF Had
  <1>2. at = <<folder'[m], uid'[m]>> => at[1] = folder'[m] /\ at[2] = uid'[m]
    OBVIOUS
  <1> QED BY <1>1, <1>2, Zenon DEF Place

\* A call made for m from a copy whose address is m's: nobody else has acted on m,
\* and the row has that address.
LEMMA CallingTracked ==
    ASSUME IInv, NEW a \in Actor, Calling(a), ~Spend("imap"), ~Spend("uid"), blind' = {},
           NEW m \in Msg, m \notin missed', Tracked(m)
    PROVE  Tracked(m)'
  <1>0. TypeOK /\ Unique /\ OneAtATime /\ Own
    BY Zenon DEF IInv
  <1>1. PICK n \in Msg, G \in SUBSET Msg, V \in SUBSET Msg :
            /\ n \in G /\ V \subseteq G /\ op[a] \in Requests \cup {"retro"} /\ op[a] # "learnSpam"
            /\ op[a] \in Moves => G = {n} /\ \A k \in Msg : stage[a][k] # "acted"
            /\ \A k \in G : stage[a][k] = Ready(a) /\ stage'[a][k] = "acted"
            /\ \A b \in Actor, k \in Msg : (b # a \/ k \notin G) => stage'[b][k] = stage[b][k]
            /\ Effect(a, V)
            /\ \A k \in G \ missed' : k \in V /\ <<folder[k], uid[k]>> = snap[a][k].at
            /\ missed \subseteq missed' /\ blind = {}
            /\ \A b \in Actor \ {a} : nuid'[b] = nuid[b]
            /\ nuid'[a] = (IF op[a] \in Moves THEN {uid'[v] : v \in V} ELSE {}) \/ Spend("uid")
            /\ UNCHANGED <<rows, audit, op, snap, target, rescanned>>
    BY CallingView, Zenon
  <1>2. /\ \A v \in Msg \ V : folder'[v] = folder[v] /\ uid'[v] = uid[v]
        /\ \A v \in V : folder'[v] = Goal(a)
        /\ \A v \in V, x \in Msg : <<folder'[v], uid'[v], x>> \notin held
    BY <1>0, <1>1, Landing, Zenon
  <1>3. CASE m \notin G
    <2>1. ASSUME NEW b \in Actor
          PROVE  /\ stage'[b][m] = stage[b][m] /\ snap'[b][m] = snap[b][m] /\ op'[b] = op[b]
                 /\ stage[b][m] = "acted" /\ op[b] \in Moves => nuid'[b] = nuid[b]
      BY <1>1, <1>3, Zenon
    <2>2. folder'[m] = folder[m] /\ uid'[m] = uid[m] /\ rows'[m] = rows[m]
      BY <1>1, <1>2, <1>3, Zenon
    <2> QED BY <2>1, <2>2, QuietTracked, Zenon
  <1>4. CASE m \in G
    <2>1. m \in V /\ Place(m) = snap[a][m].at /\ stage[a][m] = Ready(a) /\ stage'[a][m] = "acted"
      BY <1>1, <1>4, Zenon DEF Place
    <2>2. /\ rows[m].at = rows[m].key
          /\ \A c \in Actor : stage[c][m] \in Active => snap[c][m].at = snap[c][m].key
          /\ \A c \in Actor : stage[c][m] = "claimed" => snap[c][m].at # Place(m)
          /\ Settled(m) \/ \E b \in Actor : Carries(b, m)
      BY Zenon DEF Tracked
    <2>3. op[a] # "rescan" /\ stage[a][m] = "read"
      BY <2>1, <2>2, Zenon DEF Ready
    <2>4. op[a] \in Movers /\ folder'[m] = Dest(op[a])
      BY <1>1, <1>2, <2>1, <2>3, Zenon DEF Goal, Movers, Requests, Bulk, Releases
    <2>5. Settled(m)
      BY <2>1, <2>2, <2>3, Zenon DEF Carries, Active
    <2>6. /\ \A c \in Actor : stage[c][m] # "acted"
          /\ folder[m] \in PlaceOf(rows[m].status) /\ rows[m].at = Place(m)
          /\ rows[m].status \notin {"RELEASED", "LEARNED_HAM"}
      BY <2>1, <2>3, <2>5, Zenon DEF Settled, Active
    <2>7. rows[m] \in RowType /\ \A c \in Actor : snap[c][m] \in RowType
      BY <1>0 DEF TypeOK
    <2>8. rows[m].status \in {"INBOX", "QUARANTINED", "LEARNED_SPAM"}
      <3>1. rows[m].status \in AutoStatus \cup UserStatus /\ rows[m].at \in Folder \X Nat
        BY <2>7, Zenon DEF RowType, Address
      <3>2. folder[m] \in Folder
        BY <2>6, <3>1 DEF Place
      <3>3. rows[m].status # "DELETED"
        BY <2>6, <3>2, Zenon DEF PlaceOf, Folder
      <3> QED BY <2>6, <3>1, <3>3, Zenon DEF AutoStatus, UserStatus
    <2>9. OwnKeys
      BY <1>0, <1>1, Zenon DEF Own
    <2>10. rows[m].at # Place(m)'
      <3>1. Had(rows[m].at, m) /\ rows[m].at \in Address
        BY <2>2, <2>7, <2>9, Zenon DEF OwnKeys, RowType
      <3> QED BY <1>2, <2>1, <3>1, FreshPlace, Zenon
    <2>11. ASSUME NEW c \in Actor, stage'[c][m] \in Active PROVE snap[c][m].at # Place(m)' /\ snap[c][m].at = snap[c][m].key
      <3>1. stage[c][m] \in Active
        BY <1>1, <2>3, <2>11, Zenon DEF Active
      <3>2. snap[c][m].at = snap[c][m].key /\ Had(snap[c][m].at, m)
        BY <2>2, <2>9, <3>1, Zenon DEF OwnKeys
      <3>3. snap[c][m].at \in Address
        BY <2>7, Zenon DEF RowType
      <3> QED BY <1>2, <2>1, <3>2, <3>3, FreshPlace, Zenon
    <2>12. \A c \in Actor \ {a} : stage'[c][m] # "acted"
      BY <1>1, <2>6, Zenon
    <2>13. op[a] \in Moves => nuid'[a] = {uid'[m]}
      <3>1. ASSUME op[a] \in Moves PROVE nuid'[a] = {uid'[m]}
        <4>1. V = {m} /\ nuid'[a] = {uid'[v] : v \in V}
          BY <1>1, <1>4, <2>1, <3>1, Zenon
        <4> QED BY <4>1, Zenon
      <3> QED BY <3>1, Zenon
    <2>14. Carries(a, m)'
      BY <1>1, <2>1, <2>4, <2>8, <2>10, <2>11, <2>12, <2>13, Zenon DEF Carries
    <2>15. \A c \in Actor : stage'[c][m] = "claimed" => snap[c][m].at # Place(m)'
      BY <2>11, Zenon DEF Active
    <2> QED BY <1>1, <2>2, <2>11, <2>14, <2>15, Zenon DEF Tracked
  <1> QED BY <1>3, <1>4, Zenon

\* The row after a move whose new UID is known.
LEMMA RequarantinedAt ==
    ASSUME NEW r \in RowType, NEW u \in Nat
    PROVE  /\ [Requarantined(r, {u}) EXCEPT !.status = "QUARANTINED"].at = <<"Quarantine", u>>
           /\ [Requarantined(r, {u}) EXCEPT !.status = "QUARANTINED"].key = <<"Quarantine", u>>
           /\ [Requarantined(r, {u}) EXCEPT !.status = "QUARANTINED"].status = "QUARANTINED"
  <1>1. (CHOOSE x \in {u} : TRUE) = u
    BY Zenon
  <1>2. {u} # {}
    BY Zenon
  <1>3. r = [status |-> r.status, at |-> r.at, key |-> r.key]
    BY Zenon DEF RowType
  <1>4. Requarantined(r, {u}) = [r EXCEPT !.at = <<"Quarantine", u>>, !.key = <<"Quarantine", u>>]
    BY <1>1, <1>2, Zenon DEF Requarantined
  <1>5. Requarantined(r, {u}) = [status |-> r.status, at |-> <<"Quarantine", u>>, key |-> <<"Quarantine", u>>]
    BY <1>3, <1>4, Zenon
  <1> QED BY <1>5

\* A request or sweep that has moved m writes what it has done.
LEMMA EndsTracked ==
    ASSUME TypeOK, NEW a \in Actor, NEW m \in Msg, Tracked(m), Carries(a, m),
           Statuses(a, m) \/ Quarantines(a, m),
           \A b \in Actor : stage'[b][m] = IF b = a THEN "no" ELSE stage[b][m],
           UNCHANGED <<folder, uid, op, snap, nuid>>
    PROVE  Tracked(m)'
  <1>0. rows \in [Msg -> RowType] /\ uid \in [Msg -> Nat]
    BY Zenon DEF TypeOK
  <1>1. /\ stage[a][m] = "acted" /\ \A c \in Actor \ {a} : stage[c][m] # "acted"
        /\ op[a] \in Movers /\ folder[m] = Dest(op[a])
        /\ op[a] \in Moves => nuid[a] = {uid[m]}
        /\ op[a] = "retro" => rows[m].status \in {"INBOX", "QUARANTINED", "LEARNED_SPAM"}
        /\ rows[m].at # Place(m)
        /\ \A c \in Actor : stage[c][m] \in Active => snap[c][m].at # Place(m)
    BY Zenon DEF Carries
  <1>2. /\ rows[m].at = rows[m].key
        /\ \A c \in Actor : stage[c][m] \in Active => snap[c][m].at = snap[c][m].key
    BY Zenon DEF Tracked
  <1>3. Place(m)' = Place(m) /\ folder'[m] = folder[m]
    BY Zenon DEF Place
  <1>4. /\ \A c \in Actor : stage'[c][m] # "acted"
        /\ \A c \in Actor : stage'[c][m] \in Active => stage[c][m] \in Active
    BY <1>1, Zenon DEF Active
  <1>5. ASSUME /\ rows'[m].at = rows'[m].key /\ folder[m] \in PlaceOf(rows'[m].status)
               /\ rows'[m].status \in {"RELEASED", "LEARNED_HAM"} => rows'[m].at # Place(m)
        PROVE  Tracked(m)'
    <2>1. \A c \in Actor : stage'[c][m] \in Active => snap'[c][m].at # Place(m)
      BY <1>1, <1>4, Zenon
    <2>2. Settled(m)'
      BY <1>3, <1>4, <1>5, <2>1, Zenon DEF Settled
    <2>3. \A c \in Actor : stage'[c][m] \in Active => snap'[c][m].at = snap'[c][m].key
      BY <1>2, <1>4, Zenon
    <2>4. \A c \in Actor : stage'[c][m] = "claimed" => snap'[c][m].at # Place(m)'
      BY <1>3, <2>1, Zenon DEF Active
    <2> QED BY <1>5, <2>2, <2>3, <2>4, Zenon DEF Tracked
  <1>6. CASE Statuses(a, m)
    <2>1. op[a] \in {"release", "releaseLearn", "delete"}
      BY <1>1, <1>6, Zenon DEF Statuses, Movers, Releases, Bulk
    <2>2. rows'[m].status = NewStatus(op[a]) /\ rows'[m].at = rows[m].at /\ rows'[m].key = rows[m].key
      <3>1. rows' = [rows EXCEPT ![m] = [rows[m] EXCEPT !.status = NewStatus(op[a])]]
        BY <1>0, <1>6, Zenon DEF Statuses
      <3>2. rows'[m] = [rows[m] EXCEPT !.status = NewStatus(op[a])] /\ rows[m] \in RowType
        BY <1>0, <3>1, Zenon
      <3> QED BY <3>2, Zenon DEF RowType
    <2>3. folder[m] \in PlaceOf(NewStatus(op[a]))
      BY <1>1, <2>1, Zenon DEF Dest, Releases, NewStatus, PlaceOf
    <2> QED BY <1>1, <1>2, <1>5, <2>2, <2>3, Zenon
  <1>7. CASE Quarantines(a, m)
    <2>1. op[a] \in {"quarantine", "retro"} /\ op[a] \in Moves /\ folder[m] = "Quarantine" /\ nuid[a] = {uid[m]}
      BY <1>1, <1>7, Zenon DEF Quarantines, Moves, Dest, Releases
    <2>2. CASE op[a] = "quarantine" \/ rows[m].status = "INBOX"
      <3>1. rows' = [rows EXCEPT ![m] = [Requarantined(rows[m], {uid[m]}) EXCEPT !.status = "QUARANTINED"]]
        BY <1>7, <2>1, <2>2, Zenon DEF Quarantines
      <3>2. rows'[m] = [Requarantined(rows[m], {uid[m]}) EXCEPT !.status = "QUARANTINED"]
        BY <1>0, <3>1, Zenon
      <3>3. rows[m] \in RowType /\ uid[m] \in Nat
        BY <1>0, Zenon
      <3>4. /\ rows'[m].at = <<"Quarantine", uid[m]>> /\ rows'[m].key = <<"Quarantine", uid[m]>>
            /\ rows'[m].status = "QUARANTINED"
        BY <3>2, <3>3, RequarantinedAt
      <3>5. folder[m] \in PlaceOf("QUARANTINED")
        BY <2>1, Zenon DEF PlaceOf
      <3> QED BY <1>5, <3>4, <3>5, Zenon
    <2>3. CASE ~(op[a] = "quarantine" \/ rows[m].status = "INBOX")
      <3>1. rows' = rows /\ rows[m].status \in {"QUARANTINED", "LEARNED_SPAM"}
        BY <1>1, <1>7, <2>1, <2>3, Zenon DEF Quarantines
      <3>2. folder[m] \in PlaceOf(rows[m].status)
        BY <2>1, <3>1, Zenon DEF PlaceOf
      <3> QED BY <1>2, <1>5, <3>1, <3>2, Zenon
    <2> QED BY <2>2, <2>3, Zenon
  <1> QED BY <1>6, <1>7, Zenon

\* Learning spam moves nothing, and its status fits every place.
LEMMA LearnTracked ==
    ASSUME TypeOK, NEW a \in Actor, NEW m \in Msg, Tracked(m), Statuses(a, m), op[a] = "learnSpam",
           \A b \in Actor : stage'[b][m] = IF b = a THEN "no" ELSE stage[b][m],
           UNCHANGED <<folder, uid, op, snap, nuid>>
    PROVE  Tracked(m)'
  <1>0. rows \in [Msg -> RowType] /\ folder[m] \in Folder \cup {"gone"}
    BY Zenon DEF TypeOK
  <1>1. stage[a][m] = "read"
    BY Zenon DEF Statuses, Writes
  <1>2. rows'[m].status = "LEARNED_SPAM" /\ rows'[m].at = rows[m].at /\ rows'[m].key = rows[m].key
    <2>0. NewStatus(op[a]) = "LEARNED_SPAM"
      BY Zenon DEF NewStatus
    <2>1. rows' = [rows EXCEPT ![m] = [rows[m] EXCEPT !.status = "LEARNED_SPAM"]]
      BY <1>0, <2>0, Zenon DEF Statuses
    <2>2. rows'[m] = [rows[m] EXCEPT !.status = "LEARNED_SPAM"] /\ rows[m] \in RowType
      BY <1>0, <2>1, Zenon
    <2> QED BY <2>2, Zenon DEF RowType
  <1>3. Place(m)' = Place(m) /\ folder'[m] = folder[m] /\ uid'[m] = uid[m]
    BY Zenon DEF Place
  <1>4. /\ rows[m].at = rows[m].key
        /\ \A c \in Actor : stage[c][m] \in Active => snap[c][m].at = snap[c][m].key
        /\ \A c \in Actor : stage[c][m] = "claimed" => snap[c][m].at # Place(m)
        /\ Settled(m) \/ \E b \in Actor : Carries(b, m)
    BY Zenon DEF Tracked
  <1>5. ASSUME NEW c \in Actor
        PROVE  /\ stage'[c][m] = "acted" <=> stage[c][m] = "acted"
               /\ stage'[c][m] \in Active => stage[c][m] = stage'[c][m]
    BY <1>1, Zenon DEF Active
  <1>6. /\ \A c \in Actor : stage'[c][m] \in Active => snap'[c][m].at = snap'[c][m].key
        /\ \A c \in Actor : stage'[c][m] = "claimed" => snap'[c][m].at # Place(m)'
    BY <1>3, <1>4, <1>5, Zenon DEF Active
  <1>7. CASE Settled(m)
    <2>1. folder[m] \in PlaceOf("LEARNED_SPAM")
      BY <1>0, Zenon DEF PlaceOf, Folder
    <2>2. \A c \in Actor : stage'[c][m] # "acted"
      BY <1>5, <1>7, Zenon DEF Settled
    <2>3. \A c \in Actor : stage'[c][m] \in Active /\ snap'[c][m].at = Place(m) => rows[m].at = Place(m)
      BY <1>5, <1>7, Zenon DEF Settled
    <2>4. Settled(m)'
      BY <1>2, <1>3, <2>1, <2>2, <2>3, Zenon DEF Settled
    <2> QED BY <1>2, <1>4, <1>6, <2>4, Zenon DEF Tracked
  <1>8. ASSUME NEW b \in Actor, Carries(b, m) PROVE Carries(b, m)'
    <2>1. /\ stage'[b][m] = "acted" /\ \A c \in Actor \ {b} : stage'[c][m] # "acted"
      BY <1>5, <1>8, Zenon DEF Carries
    <2>2. \A c \in Actor : stage'[c][m] \in Active => snap'[c][m].at # Place(m)
      BY <1>5, <1>8, Zenon DEF Carries
    <2>3. /\ op[b] \in Movers /\ folder[m] = Dest(op[b]) /\ rows[m].at # Place(m)
          /\ op[b] \in Moves => nuid[b] = {uid[m]}
      BY <1>8, Zenon DEF Carries
    <2> QED BY <1>2, <1>3, <2>1, <2>2, <2>3, Zenon DEF Carries
  <1>9. CASE \E b \in Actor : Carries(b, m)
    BY <1>2, <1>4, <1>6, <1>8, <1>9, Zenon DEF Tracked
  <1> QED BY <1>4, <1>7, <1>9, Zenon

LEMMA WritingTracked ==
    ASSUME IInv, NEW a \in Actor, Writing(a), ~Spend("db"), blind = {},
           \A b \in Actor : target[b].row \subseteq rescanned
    PROVE  /\ \A b \in Actor : target'[b].row \subseteq rescanned'
           /\ rescanned \subseteq rescanned'
           /\ \A m \in Msg \ rescanned' : Tracked(m) => Tracked(m)'
  <1>0. TypeOK /\ Unique /\ OneAtATime /\ Own
    BY Zenon DEF IInv
  <1>1. PICK n \in Msg :
            /\ \A b \in Actor, k \in Msg : <<b, k>> # <<a, n>> => stage'[b][k] = stage[b][k]
            /\ UNCHANGED <<server, missed, blind, op, snap, nuid>> /\ audit \subseteq audit'
            /\ \A b \in Actor \ {a} : target'[b] = target[b]
            /\ \/ stage'[a][n] \in {"no", "claimed"} /\ Claims(a, n)
               \/ /\ stage'[a][n] = "no" /\ UNCHANGED <<target, rescanned>>
                  /\ Statuses(a, n) \/ Quarantines(a, n) \/ Rescans(a, n)
    BY <1>0, WritingView, Zenon
  <1>2. /\ \A b \in Actor : target'[b].row \subseteq rescanned'
        /\ rescanned \subseteq rescanned'
    BY <1>1, Zenon DEF Claims
  <1>3. UNCHANGED <<folder, uid, op, snap, nuid>>
    BY <1>1, Zenon DEF server
  <1>4. ASSUME NEW m \in Msg \ rescanned', Tracked(m) PROVE Tracked(m)'
    <2>0. rows \in [Msg -> RowType]
      BY <1>0, Zenon DEF TypeOK
    <2>1. CASE m # n
      <3>1. rows'[m] = rows[m]
        BY <1>1, <1>2, <2>0, <2>1, Zenon DEF Claims, Statuses, Quarantines, Rescans
      <3>2. \A b \in Actor : stage'[b][m] = stage[b][m] /\ snap'[b][m] = snap[b][m] /\ op'[b] = op[b] /\ nuid'[b] = nuid[b]
        BY <1>1, <1>3, <2>1, Zenon
      <3> QED BY <1>3, <1>4, <3>1, <3>2, QuietTracked, Zenon
    <2>2. CASE m = n /\ Claims(a, n) /\ stage'[a][n] \in {"no", "claimed"}
      <3>1. rows'[m] = rows[m] /\ m \notin target'[a].row
        BY <1>4, <2>2, Zenon DEF Claims
      <3>2. stage[a][m] = "read"
        BY <2>2, Zenon DEF Claims
      <3>3. rows[m].key # snap[a][m].at
        <4>1. SUFFICES ASSUME rows[m].key = snap[a][m].at PROVE FALSE
          BY Zenon
        <4>2. PICK k \in target'[a].row : k \in Msg /\ rows[k].key = snap[a][m].at
          BY <2>2, <4>1, Zenon DEF Claims
        <4>3. Had(rows[k].key, k) /\ Had(rows[m].key, m) /\ rows[k].key = rows[m].key
          BY <1>0, <4>1, <4>2, Zenon DEF Own, OwnKeys
        <4>4. rows[m].key \in Folder \X Nat
          BY <2>0, Zenon DEF RowType, Address
        <4>5. k = m
          BY <1>0, <4>2, <4>3, <4>4 DEF Had, Unique
        <4> QED BY <3>1, <4>2, <4>5, Zenon
      <3>4. snap[a][m].at # Place(m)
        <4>1. rows[m].at = rows[m].key /\ (Settled(m) \/ \E b \in Actor : Carries(b, m))
          BY <1>4, Zenon DEF Tracked
        <4>2. stage[a][m] \in Active
          BY <3>2, Zenon DEF Active
        <4>3. CASE Settled(m)
          BY <3>3, <4>1, <4>2, <4>3, Zenon DEF Settled
        <4>4. CASE \E b \in Actor : Carries(b, m)
          BY <4>2, <4>4, Zenon DEF Carries
        <4> QED BY <4>1, <4>3, <4>4, Zenon
      <3>5. ASSUME NEW b \in Actor
            PROVE  \/ /\ stage'[b][m] = stage[b][m] /\ snap'[b][m] = snap[b][m] /\ op'[b] = op[b]
                      /\ stage[b][m] = "acted" /\ op[b] \in Moves => nuid'[b] = nuid[b]
                   \/ /\ stage[b][m] # "acted"
                      /\ \/ stage'[b][m] \in {"no", "todo"}
                         \/ stage'[b][m] = "read" /\ snap'[b][m] = rows[m]
                   \/ /\ stage[b][m] = "read" /\ stage'[b][m] = "claimed"
                      /\ snap'[b][m] = snap[b][m] /\ snap[b][m].at # Place(m)
        <4>1. CASE b = a
          BY <1>3, <2>2, <3>2, <3>4, <4>1, Zenon
        <4>2. CASE b # a
          BY <1>1, <1>3, <4>2, Zenon
        <4> QED BY <4>1, <4>2, Zenon
      <3> QED BY <1>3, <1>4, <3>1, <3>5, QuietTracked, Zenon
    <2>3. CASE m = n /\ stage'[a][n] = "no" /\ UNCHANGED <<target, rescanned>>
                 /\ (Statuses(a, n) \/ Quarantines(a, n) \/ Rescans(a, n))
      <3>1. \A b \in Actor : stage'[b][m] = IF b = a THEN "no" ELSE stage[b][m]
        BY <1>1, <2>3, Zenon
      <3>2. stage[a][m] = "acted" => Carries(a, m)
        BY <1>4, Zenon DEF Tracked, Settled, Carries
      <3>3. CASE Rescans(a, m)
        <4>1. stage[a][m] # "acted"
          BY <3>2, <3>3, Zenon DEF Rescans, Carries, Movers, Releases
        <4>2. rows'[m] = rows[m]
          BY <1>4, <2>3, <3>3, Zenon DEF Rescans
        <4>3. ASSUME NEW b \in Actor
              PROVE  \/ /\ stage'[b][m] = stage[b][m] /\ snap'[b][m] = snap[b][m] /\ op'[b] = op[b]
                        /\ stage[b][m] = "acted" /\ op[b] \in Moves => nuid'[b] = nuid[b]
                     \/ /\ stage[b][m] # "acted"
                        /\ \/ stage'[b][m] \in {"no", "todo"}
                           \/ stage'[b][m] = "read" /\ snap'[b][m] = rows[m]
          BY <1>3, <3>1, <4>1, Zenon
        <4> QED BY <1>3, <1>4, <4>2, <4>3, QuietTracked, Zenon
      <3>4. CASE Statuses(a, m) /\ op[a] = "learnSpam"
        BY <1>0, <1>3, <1>4, <3>1, <3>4, LearnTracked, Zenon
      <3>5. CASE (Statuses(a, m) /\ op[a] # "learnSpam") \/ Quarantines(a, m)
        <4>1. Carries(a, m)
          BY <3>2, <3>5, Zenon DEF Statuses, Writes, Quarantines
        <4> QED BY <1>0, <1>3, <1>4, <3>1, <3>5, <4>1, EndsTracked, Zenon
      <3> QED BY <2>3, <3>3, <3>4, <3>5, Zenon
    <2> QED BY <1>1, <2>1, <2>2, <2>3, Zenon
  <1> QED BY <1>2, <1>4, Zenon

LEMMA SyncedStep ==
    ASSUME IInv, LeftBound, Synced, [Next]_vars
    PROVE  Synced'
  <1>0. TypeOK /\ OneAtATime
    BY Zenon DEF IInv
  <1>1. SUFFICES ASSUME Unused({"imap", "uid", "db"})', blind' = {}
                 PROVE  /\ \A b \in Actor : target'[b].row \subseteq rescanned'
                        /\ \A m \in Msg \ (missed' \cup rescanned') : Tracked(m)'
    BY Zenon DEF Synced
  <1>2. Unused({"imap", "uid", "db"}) /\ ~Spend("imap") /\ ~Spend("uid") /\ ~Spend("db")
    <2>1. {"imap", "uid", "db"} \in SUBSET FaultKind
      BY Zenon DEF FaultKind
    <2> QED BY <1>0, <1>1, <2>1, UnusedBefore, Zenon
  <1>3. ASSUME blind = {}
        PROVE  /\ \A b \in Actor : target[b].row \subseteq rescanned
               /\ \A m \in Msg \ (missed \cup rescanned) : Tracked(m)
    BY <1>2, <1>3, Zenon DEF Synced
  <1>4. ASSUME NEW a \in Actor, Reading(a)
        PROVE  /\ \A b \in Actor : target'[b].row \subseteq rescanned'
               /\ \A m \in Msg \ (missed' \cup rescanned') : Tracked(m)'
    <2>1. UNCHANGED <<missed, blind, rescanned>>
      BY <1>4, Zenon DEF Reading, Finish, Ask, Sweep, ReadNext, Refuse, WriteFails, history
    <2>2. UNCHANGED target \/ Finish(a)
      BY <1>4, Zenon DEF Reading, Ask, Sweep, ReadNext, Refuse, WriteFails
    <2>3. \A b \in Actor : target'[b] = target[b] \/ target'[b].row = {}
      <3>1. target \in [Actor -> [row : SUBSET Msg, dec : Decision]]
        BY <1>0, Zenon DEF TypeOK
      <3>2. NoTarget.row = {}
        BY Zenon DEF NoTarget
      <3> QED BY <2>2, <3>1, <3>2, Zenon DEF Finish
    <2>4. \A b \in Actor : target'[b].row \subseteq rescanned'
      BY <1>1, <1>3, <2>1, <2>3, Zenon
    <2>5. \A m \in Msg \ (missed' \cup rescanned') : Tracked(m)'
      BY <1>0, <1>1, <1>2, <1>3, <1>4, <2>1, ReadingTracked, Zenon
    <2> QED BY <2>4, <2>5, Zenon
  <1>5. ASSUME NEW a \in Actor, Calling(a)
        PROVE  /\ \A b \in Actor : target'[b].row \subseteq rescanned'
               /\ \A m \in Msg \ (missed' \cup rescanned') : Tracked(m)'
    <2>1. missed \subseteq missed' /\ blind = {} /\ UNCHANGED <<target, rescanned>>
      BY <1>1, <1>2, <1>5, CallingView, Zenon
    <2>2. ASSUME NEW m \in Msg \ (missed' \cup rescanned') PROVE Tracked(m)'
      <3>1. Tracked(m) /\ m \notin missed'
        BY <1>3, <2>1, Zenon
      <3> QED BY <1>1, <1>2, <1>5, <3>1, CallingTracked, Zenon
    <2> QED BY <1>3, <2>1, <2>2, Zenon
  <1>6. ASSUME NEW a \in Actor, Writing(a)
        PROVE  /\ \A b \in Actor : target'[b].row \subseteq rescanned'
               /\ \A m \in Msg \ (missed' \cup rescanned') : Tracked(m)'
    <2>1. UNCHANGED <<missed, blind>>
      BY <1>6, Zenon
      DEF Writing, UpdateStatus, WriteQuarantine, WriteClawback, RescanUpsert, RescanUpsertFails,
                  RescanRekey, RescanRevert, RescanWriteFails, history
    <2>2. blind = {} /\ \A b \in Actor : target[b].row \subseteq rescanned
      BY <1>1, <1>3, <2>1, Zenon
    <2>3. /\ \A b \in Actor : target'[b].row \subseteq rescanned'
          /\ rescanned \subseteq rescanned'
          /\ \A m \in Msg \ rescanned' : Tracked(m) => Tracked(m)'
      BY <1>2, <1>6, <2>2, WritingTracked, Zenon
    <2> QED BY <1>3, <2>1, <2>2, <2>3, Zenon
  <1>7. CASE UNCHANGED vars
    <2>1. UNCHANGED <<folder, uid, rows, op, stage, snap, nuid, target, missed, blind, rescanned>>
      BY <1>7, Zenon DEF vars, server, store, daemon, history
    <2>2. ASSUME NEW m \in Msg, Tracked(m) PROVE Tracked(m)'
      BY <2>1, <2>2, QuietTracked, Zenon
    <2> QED BY <1>1, <1>3, <2>1, <2>2, Zenon
  <1> QED BY <1>4, <1>5, <1>6, <1>7, Steps, Zenon

LEMMA SyncedInit == Init => Synced
  <1> SUFFICES ASSUME Init PROVE Synced
    BY Zenon
  <1>1. \A a \in Actor, m \in Msg : stage[a][m] = "no"
    BY Zenon DEF Init
  <1>2. ASSUME NEW m \in Msg
        PROVE  /\ folder[m] \in Folder /\ rows[m].at = <<folder[m], uid[m]>> /\ rows[m].key = <<folder[m], uid[m]>>
               /\ rows[m].status = IF folder[m] = "INBOX" THEN "INBOX" ELSE "QUARANTINED"
    BY Zenon DEF Init
  <1>3. ASSUME NEW m \in Msg PROVE Tracked(m)
    <2>1. folder[m] \in PlaceOf(rows[m].status) /\ rows[m].status \notin {"RELEASED", "LEARNED_HAM"}
      BY <1>2, Zenon DEF PlaceOf, Folder
    <2>2. Settled(m)
      BY <1>1, <2>1, Zenon DEF Settled, Active
    <2> QED BY <1>1, <1>2, <2>2, Zenon DEF Tracked, Active
  <1>4. \A a \in Actor : target[a].row = {}
    BY Zenon DEF Init, NoTarget
  <1> QED BY <1>3, <1>4, Zenon DEF Synced

\* While nothing fails, no call has gone to the address of another message and
\* every call for a message has found it, its row says where it is once nobody
\* works on it, unless a rescan has written the row: requests, bulk requests and
\* sweeps that overlap (web/handlers/actions.go, pipeline/retro.go) cannot part the
\* two, since the address of the first to act is one no copy has any more.
THEOREM SyncUntilMiss == Spec => []OutOfSyncOnlyAfterMiss
  <1>1. IInv /\ LeftBound /\ Synced /\ [Next]_vars => Synced'
    BY SyncedStep, Zenon
  <1>2. Synced => OutOfSyncOnlyAfterMiss
    <2>1. SUFFICES ASSUME Synced, Unused({"imap", "uid", "db"}), blind = {},
                          NEW m \in Msg, ~Working(m), m \notin missed, m \notin rescanned
                   PROVE  folder[m] \in PlaceOf(rows[m].status)
      BY Zenon DEF OutOfSyncOnlyAfterMiss
    <2>2. Tracked(m)
      BY <2>1, Zenon DEF Synced
    <2>3. \A b \in Actor : ~Carries(b, m)
      BY <2>1, Zenon DEF Working, Carries
    <2> QED BY <2>2, <2>3, Zenon DEF Tracked, Settled
  <1> QED BY <1>1, <1>2, SyncedInit, Invariant, FaultsSpent, PTL DEF Spec
==============================================================================
