---------------------------- MODULE Feeds_proofs ----------------------------
(***************************************************************************)
(* The threat feeds for any feeds, lists, callers of Refresh, batches and  *)
(* faults. Three arguments share one inductive invariant: where every key  *)
(* comes from (Sources), why no key is lost while nothing is spoilt        *)
(* (Retention), and who is still filling the table (Filling).              *)
(***************************************************************************)
EXTENDS Feeds, TLAPS

Key == Host \X ({u[2] : u \in Url} \cup {""})

\* The types of what is private to a call, which TypeOK leaves out.
Types ==
    /\ TypeOK
    /\ cache \in [Feed -> SUBSET SUBSET Url]
    /\ prev \in [Refresher -> [Feed -> SUBSET Key]]
    /\ new \in [Refresher -> [Feed -> SUBSET Key]]
    /\ body \in [Refresher -> SUBSET Url]

Fetching == {"get", "store", "swap"}

\* What k counts at each place: the feed, or the batch.
Places ==
    \A r \in Refresher :
        /\ pc[r] \in {"get", "store"} => k[r] \in DOMAIN FeedSeq
        /\ pc[r] \in {"full", "recent", "stuck"} => k[r] \in 1..Batches
        /\ pc[r] = "idle" => k[r] = 1
        /\ pc[r] = "swap" => k[r] = Len(FeedSeq) + 1
        /\ pc[r] \notin Fetching => new[r] = Nothing

\* Cache files, bodies, retained and new keys all come from the feed's own list,
\* and there is one cache file for a feed.
Sources ==
    \A f \in Feed :
        /\ \A L \in cache[f] : L \subseteq list[f]
        /\ \A L, M \in cache[f] : L = M
        /\ index[f] \subseteq Keys(f, list[f])
        /\ \A r \in Refresher :
              /\ prev[r][f] \subseteq Keys(f, list[f])
              /\ new[r][f] \subseteq Keys(f, list[f])
              /\ pc[r] = "store" /\ FeedSeq[k[r]] = f => body[r] \subseteq list[f]

\* The callers at work in Refresh when nothing is spoilt: there is only one, whose
\* snapshot is the index, and what it has settled has all of the index. So do
\* the body it is about to store and every cache file.
Retention ==
    spoilt = {} =>
        /\ \A r, q \in Refresher : pc[r] # "idle" /\ pc[q] # "idle" => r = q
        /\ \A f \in Feed : \A L \in cache[f] :
              /\ index[f] \subseteq Keys(f, L)
              /\ \A r \in Refresher : new[r][f] \subseteq Keys(f, L)
        /\ \A r \in Refresher :
              /\ pc[r] \in Fetching =>
                    /\ prev[r] = index
                    /\ \A i \in DOMAIN FeedSeq :
                          i < k[r] => index[FeedSeq[i]] \subseteq new[r][FeedSeq[i]]
              /\ pc[r] = "store" =>
                    index[FeedSeq[k[r]]] \subseteq Keys(FeedSeq[k[r]], body[r])

\* A full sync has inserted the batches before k. While no sync breaks off, a table
\* that is neither empty nor whole has a full sync at work that has got going.
Filling ==
    /\ \A r \in Refresher :
        /\ pc[r] = "full" => 1..(k[r] - 1) \subseteq table
        /\ pc[r] = "recent" => table # {}
        /\ pc[r] = "stuck" => ~Unused({"cut"})
    /\ Unused({"db", "cut", "stop"}) /\ table # {} =>
          table = 1..Batches \/ \E r \in Refresher : pc[r] = "full" /\ k[r] > 1

LeftBound == \A x \in FaultKind : left[x] <= Faults[x]

IInv == Types /\ Places /\ Sources /\ Retention /\ Filling /\ LeftBound

------------------------------------------------------------------------------
(* Keys.                                                                    *)

\* A longer list has more keys: normalizeURL works entry by entry.
LEMMA KeysMonotone ==
    ASSUME NEW f \in Feed, NEW L, NEW M, L \subseteq M
    PROVE  Keys(f, L) \subseteq Keys(f, M)
  BY Zenon DEF Keys

\* The keys of a list are keys: a URL is its host and its path.
LEMMA KeysType ==
    ASSUME NEW f \in Feed, NEW L \in SUBSET Url
    PROVE  Keys(f, L) \in SUBSET Key
  <1>1. \A u \in Url : u \in STRING \X STRING
    BY FeedsAssumption, Zenon DEF Url
  <1>2. \A u \in Url : u = <<u[1], u[2]>> /\ u[1] \in Host
    BY <1>1 DEF Host
  <1>3. ASSUME NEW u \in Url PROVE u \in Key /\ <<u[1], "">> \in Key
    <2>1. u = <<u[1], u[2]>> /\ u[1] \in Host /\ u[2] \in {v[2] : v \in Url}
      BY <1>2, Zenon
    <2> QED BY <2>1, Zenon DEF Key
  <1> QED BY <1>3, Zenon DEF Keys

\* The feed a call is at is one of Manager.feeds.
LEMMA FeedAt ==
    ASSUME Places, NEW r \in Refresher, pc[r] \in {"get", "store"}
    PROVE  FeedSeq[k[r]] \in Feed
  BY Zenon DEF Places, Feed

\* FeedSeq is a sequence of names: its positions are 1 to its length, which is
\* at least one.
LEMMA FeedPositions ==
    /\ Len(FeedSeq) \in Nat /\ Len(FeedSeq) >= 1 /\ DOMAIN FeedSeq = 1..Len(FeedSeq)
  <1>1. FeedSeq \in Seq(STRING) /\ FeedSeq # <<>>
    BY FeedsAssumption, Zenon
  <1> QED BY <1>1

------------------------------------------------------------------------------
(* The kinds of step.                                                       *)

\* Get, and GetGarbage for a parser that does not notice.
Receives(r) ==
    \E L \in SUBSET Url :
        /\ pc[r] = "get" /\ Receive(r, L)
        /\ \/ L = list[FeedSeq[k[r]]] /\ UNCHANGED spoilt
           \/ L = {} /\ spoilt' = spoilt \cup {"garbage"}

\* GetFails, and GetGarbage for one that does.
FallsBack(r) == pc[r] = "get" /\ FromCache(r)

\* Count and the steps of Sync: the URL feeds are left alone.
Syncs(r) ==
    /\ pc[r] \in {"count", "full", "recent", "stuck"}
    /\ \E x \in {"full", "recent", "stuck", "idle"}, b \in Nat \ {0} :
          Goto(r, x, b) /\ (x = "idle" => b = 1) /\ (x # "idle" => b \in 1..Batches)

Kind(r) == Begin(r) \/ Receives(r) \/ FallsBack(r) \/ Store(r) \/ Swap(r) \/ Syncs(r)

Publishes == \E f \in Feed : \E u \in Offer[f] : Publish(f, u)

\* Every step is of one of these kinds.
LEMMA KindsOfStep ==
    ASSUME Types, Places, [Next]_vars
    PROVE  Publishes \/ Restart \/ UNCHANGED vars \/ \E r \in Refresher : Kind(r)
  <1>1. ASSUME NEW r \in Refresher, Step(r) PROVE Kind(r)
    <2>1. CASE Get(r)
      <3>1. list[FeedSeq[k[r]]] \in SUBSET Url
        BY <2>1, FeedAt DEF Get, Types, TypeOK
      <3> QED BY <2>1, <3>1, Zenon DEF Get, Receives, Kind
    <2>2. CASE Count(r)
      <3>1. 1 \in 1..Batches /\ Batches \in 1..Batches /\ Batches \in Nat \ {0}
        BY FeedsAssumption
      <3> QED BY <2>2, <3>1 DEF Count, Syncs, Kind
    <2>3. CASE Insert(r)
      <3>1. k[r] \in 1..Batches /\ Batches \in Nat
        BY <2>3, FeedsAssumption, Zenon DEF Insert, Places
      <3>2. CASE k[r] < Batches
        <4>1. k[r] + 1 \in 1..Batches /\ k[r] + 1 \in Nat \ {0}
          BY <3>1, <3>2
        <4> QED BY <2>3, <3>2, <4>1, Zenon DEF Insert, Syncs, Kind
      <3>3. CASE ~(k[r] < Batches)
        BY <2>3, <3>3 DEF Insert, Syncs, Kind
      <3> QED BY <3>2, <3>3, Zenon
    <2>4. CASE CutEnds(r)
      BY <2>4 DEF CutEnds, Syncs, Kind
    <2> QED BY <1>1, <2>1, <2>2, <2>3, <2>4, Zenon DEF Step, Kind
  <1>2. ASSUME NEW r \in Refresher, Fault(r) PROVE Kind(r) \/ UNCHANGED vars
    <2>1. CASE GetFails(r)
      BY <2>1, Zenon DEF GetFails, FallsBack, Kind
    <2>2. CASE GetGarbage(r)
      <3>1. {} \in SUBSET Url
        BY Zenon
      <3> QED BY <2>2, <3>1, Zenon DEF GetGarbage, FallsBack, Receives, Kind
    <2>3. CASE FetchFails(r) \/ InsertFails(r)
      BY <2>3 DEF FetchFails, InsertFails, Syncs, Kind
    <2>4. CASE Cut(r)
      <3>1. k[r] \in 1..Batches /\ k[r] \in Nat \ {0}
        BY <2>4, FeedsAssumption DEF Cut, Places
      <3> QED BY <2>4, <3>1, Zenon DEF Cut, Syncs, Kind
    <2>5. CASE ReadOn(r)
      BY <2>5, Zenon DEF ReadOn
    <2> QED BY <1>2, <2>1, <2>2, <2>3, <2>4, <2>5, Zenon DEF Fault
  <1> QED BY <1>1, <1>2, Zenon DEF Next, Publishes

------------------------------------------------------------------------------
(* Types and places.                                                        *)

\* A fault that strikes keeps the budget typed, and never raises it.
LEMMA SpendBound ==
    ASSUME Types, LeftBound, NEW x \in FaultKind, Spend(x)
    PROVE  /\ left' \in [FaultKind -> Nat] /\ left'[x] < left[x]
           /\ \A y \in FaultKind : left'[y] <= left[y]
  <1>1. left \in [FaultKind -> Nat] /\ left[x] > 0 /\ left' = [left EXCEPT ![x] = @ - 1]
    BY Zenon DEF Spend, Types, TypeOK
  <1> QED BY <1>1

\* The budget only shrinks.
LEMMA LeftStep ==
    ASSUME Types, LeftBound, [Next]_vars
    PROVE  /\ left' \in [FaultKind -> Nat] /\ LeftBound'
           /\ \A x \in FaultKind : left'[x] <= left[x] /\ left'[x] \in Nat
  <1>1. left \in [FaultKind -> Nat] /\ Faults \in [FaultKind -> Nat]
    BY FeedsAssumption, Zenon DEF Types, TypeOK
  <1>2. UNCHANGED left \/ \E x \in FaultKind : Spend(x)
    <2> USE DEF FaultKind
    <2>1. ASSUME NEW r \in Refresher, Step(r) PROVE UNCHANGED left \/ \E x \in FaultKind : Spend(x)
      BY <2>1, Zenon DEF Step, Begin, Get, Store, Swap, Count, Insert, CutEnds
    <2>2. ASSUME NEW r \in Refresher, Fault(r) PROVE UNCHANGED left \/ \E x \in FaultKind : Spend(x)
      BY <2>2, Zenon DEF Fault, GetFails, GetGarbage, FetchFails, InsertFails, Cut, ReadOn, vars
    <2>3. CASE Restart \/ Publishes \/ UNCHANGED vars
      BY <2>3, Zenon DEF Restart, Publishes, Publish, vars
    <2> QED BY <2>1, <2>2, <2>3, Zenon DEF Next, Publishes
  <1>3. left' \in [FaultKind -> Nat] /\ \A x \in FaultKind : left'[x] <= left[x]
    BY <1>1, <1>2, SpendBound
  <1> QED BY <1>1, <1>3 DEF LeftBound

\* What Settle does to a call's own variables.
LEMMA SettleOwn ==
    ASSUME Types, Places, NEW r \in Refresher, pc[r] \in {"get", "store"},
           NEW keys \in SUBSET Key, Settle(r, keys)
    PROVE  /\ new' \in [Refresher -> [Feed -> SUBSET Key]]
           /\ new'[r][FeedSeq[k[r]]] = keys
           /\ \A f \in Feed : f # FeedSeq[k[r]] => new'[r][f] = new[r][f]
           /\ \A q \in Refresher : q # r =>
                 new'[q] = new[q] /\ pc'[q] = pc[q] /\ k'[q] = k[q] /\ body'[q] = body[q]
           /\ k'[r] = k[r] + 1 /\ body'[r] = {}
           /\ pc'[r] = IF k[r] = Len(FeedSeq) THEN "swap" ELSE "get"
           /\ k' \in [Refresher -> Nat] /\ body' \in [Refresher -> SUBSET Url]
  <1>1. FeedSeq[k[r]] \in Feed
    BY FeedAt, Zenon
  <1>2. new \in [Refresher -> [Feed -> SUBSET Key]] /\ k \in [Refresher -> Nat]
        /\ body \in [Refresher -> SUBSET Url] /\ DOMAIN pc = Refresher
    BY Zenon DEF Types, TypeOK
  <1>3. new' = [new EXCEPT ![r] = [new[r] EXCEPT ![FeedSeq[k[r]]] = keys]]
    BY Zenon DEF Settle
  <1>4. /\ new' \in [Refresher -> [Feed -> SUBSET Key]]
        /\ new'[r][FeedSeq[k[r]]] = keys
        /\ \A f \in Feed : f # FeedSeq[k[r]] => new'[r][f] = new[r][f]
        /\ \A q \in Refresher : q # r => new'[q] = new[q]
    BY <1>1, <1>2, <1>3, Zenon
  <1>5. /\ k' = [k EXCEPT ![r] = @ + 1] /\ body' = [body EXCEPT ![r] = {}]
        /\ pc' = [pc EXCEPT ![r] = IF k[r] = Len(FeedSeq) THEN "swap" ELSE "get"]
    BY Zenon DEF Settle
  <1>6. /\ k'[r] = k[r] + 1 /\ body'[r] = {} /\ k' \in [Refresher -> Nat]
        /\ body' \in [Refresher -> SUBSET Url]
        /\ pc'[r] = IF k[r] = Len(FeedSeq) THEN "swap" ELSE "get"
    BY <1>2, <1>5
  <1> QED BY <1>2, <1>4, <1>5, <1>6, Zenon

\* What FromCache settles on: the cache file, or else the retained keys.
Fallback(r) ==
    LET f == FeedSeq[k[r]]
    IN  IF cache[f] = {} THEN prev[r][f] ELSE UNION {Keys(f, L) : L \in cache[f]}

\* What a call settles on for the feed it is at.
SettledOn(r) == IF pc[r] = "get" THEN Fallback(r) ELSE Keys(FeedSeq[k[r]], body[r])

\* The fallback is made of keys.
LEMMA FallbackType ==
    ASSUME Types, Places, NEW r \in Refresher, pc[r] \in {"get", "store"}
    PROVE  Fallback(r) \in SUBSET Key /\ Keys(FeedSeq[k[r]], body[r]) \in SUBSET Key
  <1>1. FeedSeq[k[r]] \in Feed
    BY FeedAt, Zenon
  <1>2. \A L \in cache[FeedSeq[k[r]]] : L \in SUBSET Url
    BY <1>1, Zenon DEF Types
  <1>3. prev[r][FeedSeq[k[r]]] \in SUBSET Key /\ body[r] \in SUBSET Url
    BY <1>1, Zenon DEF Types
  <1>4. \A L \in cache[FeedSeq[k[r]]] : Keys(FeedSeq[k[r]], L) \in SUBSET Key
    BY <1>1, <1>2, KeysType, Zenon
  <1>5. Keys(FeedSeq[k[r]], body[r]) \in SUBSET Key
    BY <1>1, <1>3, KeysType, Zenon
  <1> QED BY <1>3, <1>4, <1>5, Zenon DEF Fallback

\* Every step keeps every variable typed, private ones included.
LEMMA TypesStep ==
    ASSUME Types, Places, LeftBound, [Next]_vars
    PROVE  Types'
  <1>1. left' \in [FaultKind -> Nat]
    BY LeftStep, Zenon
  <1>2. spoilt' \subseteq Spoilers /\ table' \subseteq 1..Batches /\ dumps' \subseteq {"full", "recent"}
    <2> USE DEF Spoilers, store, calls
    <2>0. /\ spoilt \subseteq Spoilers /\ table \subseteq 1..Batches
          /\ dumps \subseteq {"full", "recent"}
      BY Zenon DEF Types, TypeOK
    <2>1. ASSUME NEW r \in Refresher, Step(r)
          PROVE  /\ spoilt' \subseteq Spoilers /\ table' \subseteq 1..Batches
                 /\ dumps' \subseteq {"full", "recent"}
      <3>1. CASE Begin(r) \/ Get(r) \/ Store(r) \/ Swap(r)
        BY <2>0, <3>1, Zenon DEF Begin, Get, Receive, Store, Settle, Swap
      <3>2. CASE Count(r) \/ CutEnds(r)
        BY <2>0, <3>2, Zenon DEF Count, CutEnds, Goto
      <3>3. CASE Insert(r)
        <4>1. k[r] \in 1..Batches
          BY <3>3, Zenon DEF Insert, Places
        <4> QED BY <2>0, <3>3, <4>1, Zenon DEF Insert, Goto
      <3> QED BY <2>1, <3>1, <3>2, <3>3, Zenon DEF Step
    <2>2. ASSUME NEW r \in Refresher, Fault(r)
          PROVE  /\ spoilt' \subseteq Spoilers /\ table' \subseteq 1..Batches
                 /\ dumps' \subseteq {"full", "recent"}
      BY <2>0, <2>2, Zenon DEF Fault, GetFails, GetGarbage, FromCache, Receive, Settle, FetchFails,
                        InsertFails, Cut, ReadOn, Goto, vars
    <2>3. CASE Restart \/ Publishes \/ UNCHANGED vars
      BY <2>0, <2>3, Zenon DEF Restart, Publishes, Publish, vars
    <2> QED BY <2>1, <2>2, <2>3, Zenon DEF Next, Publishes
  <1> DEFINE Where == {"idle", "get", "store", "swap", "count", "full", "recent", "stuck"}
             Rest == /\ list' \in [Feed -> SUBSET Url]
                     /\ cache' \in [Feed -> SUBSET SUBSET Url]
                     /\ index' \in [Feed -> SUBSET Key]
                     /\ pc' \in [Refresher -> Where] /\ k' \in [Refresher -> Nat]
                     /\ prev' \in [Refresher -> [Feed -> SUBSET Key]]
                     /\ new' \in [Refresher -> [Feed -> SUBSET Key]]
                     /\ body' \in [Refresher -> SUBSET Url]
  <1>3. /\ list \in [Feed -> SUBSET Url] /\ cache \in [Feed -> SUBSET SUBSET Url]
        /\ index \in [Feed -> SUBSET Key] /\ pc \in [Refresher -> Where]
        /\ k \in [Refresher -> Nat] /\ prev \in [Refresher -> [Feed -> SUBSET Key]]
        /\ new \in [Refresher -> [Feed -> SUBSET Key]] /\ body \in [Refresher -> SUBSET Url]
    BY Zenon DEF Types, TypeOK, Key
  <1>4. Nothing \in [Feed -> SUBSET Key] /\ {} \in SUBSET Url
    BY Zenon DEF Nothing
  <1>5. ASSUME Publishes PROVE Rest
    <2>1. PICK f \in Feed : \E u \in Offer[f] : Publish(f, u)
      BY <1>5, Zenon DEF Publishes
    <2>2. \A u \in Offer[f] : u \in Url
      BY Zenon DEF Url
    <2> QED BY <1>3, <2>1, <2>2 DEF Publish, store, calls
  <1>6. ASSUME Restart PROVE Rest
    BY <1>3, <1>4, <1>6, Zenon DEF Restart, store
  <1>7. ASSUME UNCHANGED vars PROVE Rest
    BY <1>3, <1>7, Zenon DEF vars, store, calls
  <1>8. ASSUME NEW r \in Refresher, Kind(r) PROVE Rest
    <2>1. CASE Begin(r)
      BY <1>3, <2>1, Zenon DEF Begin, store
    <2>2. CASE Receives(r)
      BY <1>3, <2>2 DEF Receives, Receive, store
    <2>3. CASE FallsBack(r)
      <3>1. Settle(r, Fallback(r)) /\ UNCHANGED cache
        BY <2>3, Zenon DEF FallsBack, FromCache, Fallback
      <3>2. new' \in [Refresher -> [Feed -> SUBSET Key]] /\ k' \in [Refresher -> Nat]
            /\ body' \in [Refresher -> SUBSET Url]
        BY <2>3, <3>1, FallbackType, SettleOwn, Zenon DEF FallsBack
      <3> QED BY <1>3, <3>1, <3>2, Zenon DEF Settle
    <2>4. CASE Store(r)
      <3>1. Settle(r, Keys(FeedSeq[k[r]], body[r])) /\ pc[r] = "store"
        BY <2>4, Zenon DEF Store
      <3>2. new' \in [Refresher -> [Feed -> SUBSET Key]] /\ k' \in [Refresher -> Nat]
            /\ body' \in [Refresher -> SUBSET Url]
        BY <3>1, FallbackType, SettleOwn, Zenon
      <3>3. cache' \in [Feed -> SUBSET SUBSET Url]
        <4>1. FeedSeq[k[r]] \in Feed /\ body[r] \in SUBSET Url
          BY <1>3, <3>1, FeedAt, Zenon
        <4> QED BY <1>3, <2>4, <4>1 DEF Store
      <3> QED BY <1>3, <3>1, <3>2, <3>3, Zenon DEF Settle
    <2>5. CASE Swap(r)
      BY <1>3, <1>4, <2>5, Zenon DEF Swap, store
    <2>6. CASE Syncs(r)
      BY <1>3, <2>6 DEF Syncs, Goto
    <2> QED BY <1>8, <2>1, <2>2, <2>3, <2>4, <2>5, <2>6, Zenon DEF Kind
  <1>9. Rest
    BY <1>5, <1>6, <1>7, <1>8, KindsOfStep, Zenon
  <1>10. \A f \in Feed : cache'[f] \subseteq SUBSET Url
    BY <1>9, Zenon
  <1> QED BY <1>1, <1>2, <1>9, <1>10, Zenon DEF Types, TypeOK, Key

Own(r) == <<pc[r], k[r], prev[r], new[r], body[r]>>

\* A call of Refresh leaves the locals of the other calls alone.
LEMMA OthersKept ==
    ASSUME Types, Places, NEW r \in Refresher, Kind(r), NEW q \in Refresher, q # r
    PROVE  UNCHANGED Own(q)
  <1>1. /\ DOMAIN pc = Refresher /\ DOMAIN k = Refresher /\ DOMAIN prev = Refresher
        /\ DOMAIN new = Refresher /\ DOMAIN body = Refresher
    BY Zenon DEF Types, TypeOK
  <1>2. CASE Begin(r)
    BY <1>1, <1>2, Zenon DEF Begin, Own
  <1>3. CASE Receives(r)
    BY <1>1, <1>3, Zenon DEF Receives, Receive, Own
  <1>4. CASE FallsBack(r) \/ Store(r)
    BY <1>1, <1>4, Zenon DEF FallsBack, FromCache, Store, Settle, Own
  <1>5. CASE Swap(r)
    BY <1>1, <1>5, Zenon DEF Swap, Own
  <1>6. CASE Syncs(r)
    BY <1>1, <1>6, Zenon DEF Syncs, Goto, Own
  <1> QED BY <1>2, <1>3, <1>4, <1>5, <1>6, Zenon DEF Kind

\* What FromCache and Store do to the locals of their call.
LEMMA SettlesOwn ==
    ASSUME Types, Places, NEW r \in Refresher, FallsBack(r) \/ Store(r)
    PROVE  /\ pc[r] \in {"get", "store"}
           /\ FallsBack(r) <=> pc[r] = "get"
           /\ new'[r][FeedSeq[k[r]]] = SettledOn(r)
           /\ \A f \in Feed : f # FeedSeq[k[r]] => new'[r][f] = new[r][f]
           /\ k'[r] = k[r] + 1 /\ UNCHANGED <<index, prev>>
           /\ pc'[r] = IF k[r] = Len(FeedSeq) THEN "swap" ELSE "get"
  <1>1. pc[r] \in {"get", "store"} /\ Settle(r, SettledOn(r))
    BY Zenon DEF FallsBack, FromCache, Fallback, Store, SettledOn
  <1>2. SettledOn(r) \in SUBSET Key
    BY <1>1, FallbackType, Zenon DEF SettledOn
  <1>3. /\ new'[r][FeedSeq[k[r]]] = SettledOn(r)
        /\ \A f \in Feed : f # FeedSeq[k[r]] => new'[r][f] = new[r][f]
        /\ k'[r] = k[r] + 1
        /\ pc'[r] = IF k[r] = Len(FeedSeq) THEN "swap" ELSE "get"
    BY <1>1, <1>2, SettleOwn, Zenon
  <1>4. (FallsBack(r) <=> pc[r] = "get") /\ UNCHANGED <<index, prev>>
    BY <1>1, Zenon DEF FallsBack, Store, Settle
  <1> QED BY <1>1, <1>3, <1>4, Zenon

\* What each kind of step does to the locals of its own call.
LEMMA OwnStep ==
    ASSUME Types, Places, NEW r \in Refresher, Kind(r)
    PROVE  \/ /\ Begin(r) /\ pc[r] = "idle" /\ pc'[r] = "get" /\ prev'[r] = index
              /\ UNCHANGED <<k[r], new[r], body[r]>>
           \/ /\ Receives(r) /\ pc[r] = "get" /\ pc'[r] = "store"
              /\ body'[r] = list[FeedSeq[k[r]]] \/ (body'[r] = {} /\ "garbage" \in spoilt')
              /\ UNCHANGED <<k[r], prev[r], new[r]>>
           \/ /\ FallsBack(r) \/ Store(r)
              /\ pc[r] \in {"get", "store"}
              /\ new'[r][FeedSeq[k[r]]] = SettledOn(r)
              /\ \A f \in Feed : f # FeedSeq[k[r]] => new'[r][f] = new[r][f]
              /\ k'[r] = k[r] + 1 /\ prev'[r] = prev[r]
              /\ pc'[r] = IF k[r] = Len(FeedSeq) THEN "swap" ELSE "get"
           \/ /\ Swap(r) /\ pc[r] = "swap" /\ pc'[r] = "count" /\ k'[r] = 1
              /\ prev'[r] = Nothing /\ new'[r] = Nothing
           \/ /\ Syncs(r) /\ pc[r] \in {"count", "full", "recent", "stuck"}
              /\ pc'[r] \in {"full", "recent", "stuck", "idle"}
              /\ pc'[r] = "idle" => k'[r] = 1
              /\ pc'[r] # "idle" => k'[r] \in 1..Batches
              /\ UNCHANGED <<prev[r], new[r], body[r]>>
  <1>1. /\ DOMAIN pc = Refresher /\ DOMAIN k = Refresher /\ DOMAIN prev = Refresher
        /\ DOMAIN new = Refresher /\ DOMAIN body = Refresher
    BY Zenon DEF Types, TypeOK
  <1>2. CASE Begin(r)
    BY <1>1, <1>2, Zenon DEF Begin
  <1>3. CASE Receives(r)
    <2>1. PICK L \in SUBSET Url :
            /\ pc[r] = "get" /\ Receive(r, L)
            /\ \/ L = list[FeedSeq[k[r]]] /\ UNCHANGED spoilt
               \/ L = {} /\ spoilt' = spoilt \cup {"garbage"}
      BY <1>3, Zenon DEF Receives
    <2>2. pc'[r] = "store" /\ body'[r] = L /\ UNCHANGED <<k[r], prev[r], new[r]>>
      BY <1>1, <2>1, Zenon DEF Receive
    <2>3. body'[r] = list[FeedSeq[k[r]]] \/ (body'[r] = {} /\ "garbage" \in spoilt')
      BY <2>1, <2>2, Zenon
    <2> QED BY <1>3, <2>1, <2>2, <2>3, Zenon
  <1>4. CASE FallsBack(r) \/ Store(r)
    BY <1>4, SettlesOwn, Zenon
  <1>5. CASE Swap(r)
    BY <1>1, <1>5, Zenon DEF Swap
  <1>6. CASE Syncs(r)
    BY <1>1, <1>6, Zenon DEF Syncs, Goto
  <1> QED BY <1>2, <1>3, <1>4, <1>5, <1>6, Zenon DEF Kind

\* The counters stay where the code can index with them.
LEMMA PlacesStep ==
    ASSUME Types, Places, [Next]_vars
    PROVE  Places'
  <1>1. CASE Restart
    BY <1>1, Zenon DEF Restart, Places, Fetching
  <1>2. CASE Publishes \/ UNCHANGED vars
    BY <1>2, Zenon DEF Publishes, Publish, vars, calls, Places
  <1>3. ASSUME NEW r \in Refresher, Kind(r) PROVE Places'
    <2> SUFFICES ASSUME NEW q \in Refresher
                 PROVE  /\ pc'[q] \in {"get", "store"} => k'[q] \in DOMAIN FeedSeq
                        /\ pc'[q] \in {"full", "recent", "stuck"} => k'[q] \in 1..Batches
                        /\ pc'[q] = "idle" => k'[q] = 1
                        /\ pc'[q] = "swap" => k'[q] = Len(FeedSeq) + 1
                        /\ pc'[q] \notin Fetching => new'[q] = Nothing
      BY Zenon DEF Places, Nothing
    <2>1. CASE q # r
      BY <1>3, <2>1, OthersKept, Zenon DEF Own, Places
    <2>2. CASE q = r
      <3>1. /\ pc[r] \in {"get", "store"} => k[r] \in DOMAIN FeedSeq
            /\ pc[r] = "idle" => k[r] = 1
            /\ pc[r] \notin Fetching => new[r] = Nothing
        BY Zenon DEF Places
      <3> QED BY <1>3, <2>2, <3>1, OwnStep, FeedPositions DEF Fetching
    <2> QED BY <2>1, <2>2, Zenon
  <1> QED BY <1>1, <1>2, <1>3, KindsOfStep, Zenon

------------------------------------------------------------------------------
(* Where keys come from.                                                    *)

SourcesOf(f) ==
    /\ \A L \in cache[f] : L \subseteq list[f]
    /\ \A L, M \in cache[f] : L = M
    /\ index[f] \subseteq Keys(f, list[f])
    /\ \A r \in Refresher :
          /\ prev[r][f] \subseteq Keys(f, list[f])
          /\ new[r][f] \subseteq Keys(f, list[f])
          /\ pc[r] = "store" /\ FeedSeq[k[r]] = f => body[r] \subseteq list[f]

\* FromCache settles on keys of the feed's own list.
LEMMA FallbackListed ==
    ASSUME Types, Places, Sources, NEW r \in Refresher, pc[r] \in {"get", "store"}
    PROVE  Fallback(r) \subseteq Keys(FeedSeq[k[r]], list[FeedSeq[k[r]]])
  <1> DEFINE f == FeedSeq[k[r]]
  <1>1. f \in Feed
    BY FeedAt, Zenon
  <1>2. prev[r][f] \subseteq Keys(f, list[f]) /\ \A L \in cache[f] : L \subseteq list[f]
    BY <1>1, Zenon DEF Sources
  <1>3. \A L \in cache[f] : Keys(f, L) \subseteq Keys(f, list[f])
    BY <1>1, <1>2, KeysMonotone
  <1> QED BY <1>2, <1>3, Zenon DEF Fallback

\* The cache file of a feed is replaced by the body just received, and by nothing
\* else; the cache files of the other feeds stay.
LEMMA CacheStep ==
    ASSUME Types, Places, NEW r \in Refresher, Kind(r), NEW f \in Feed
    PROVE  cache'[f] = cache[f] \/ (Store(r) /\ f = FeedSeq[k[r]] /\ cache'[f] = {body[r]})
  <1>1. DOMAIN cache = Feed
    BY Zenon DEF Types
  <1>2. CASE Store(r)
    BY <1>1, <1>2, Zenon DEF Store
  <1>3. CASE Begin(r) \/ Receives(r) \/ FallsBack(r) \/ Swap(r) \/ Syncs(r)
    BY <1>3, Zenon DEF Begin, Receives, Receive, FallsBack, FromCache, Swap, Syncs, Goto, store
  <1> QED BY <1>2, <1>3, Zenon DEF Kind

\* Only a swap changes the index, and only the servers the lists.
LEMMA IndexStep ==
    ASSUME NEW r \in Refresher, Kind(r)
    PROVE  UNCHANGED list /\ (UNCHANGED index \/ (Swap(r) /\ index' = new[r]))
  BY Zenon
  DEF Kind, Begin, Receives, Receive, FallsBack, FromCache, Store, Settle, Swap, Syncs, Goto

\* Nothing but what a feed lists gets into its cache file, a body or an index.
LEMMA SourcesStep ==
    ASSUME Types, Places, Sources, [Next]_vars
    PROVE  Sources'
  <1> SUFFICES ASSUME NEW f \in Feed PROVE SourcesOf(f)'
    BY Zenon DEF Sources, SourcesOf
  <1>0. SourcesOf(f)
    BY Zenon DEF Sources, SourcesOf
  <1>1. CASE Publishes
    <2>1. list[f] \subseteq list'[f] /\ UNCHANGED <<cache, index, prev, new, body, pc, k>>
      BY <1>1 DEF Publishes, Publish, store, calls, Types, TypeOK
    <2>2. Keys(f, list[f]) \subseteq Keys(f, list'[f])
      BY <2>1, KeysMonotone, Zenon
    <2> QED BY <1>0, <2>1, <2>2, Zenon DEF SourcesOf
  <1>2. CASE Restart
    <2>1. /\ index'[f] = {} /\ UNCHANGED <<list, cache>>
          /\ \A r \in Refresher : prev'[r][f] = {} /\ new'[r][f] = {} /\ pc'[r] = "idle"
      BY <1>2, Zenon DEF Restart, Nothing, store
    <2> QED BY <1>0, <2>1, Zenon DEF SourcesOf
  <1>3. CASE UNCHANGED vars
    BY <1>0, <1>3, Zenon DEF vars, store, calls, SourcesOf
  <1>4. ASSUME NEW r \in Refresher, Kind(r) PROVE SourcesOf(f)'
    <2>1. UNCHANGED list
      BY <1>4, IndexStep, Zenon
    <2>2. pc[r] = "store" /\ f = FeedSeq[k[r]] => body[r] \subseteq list[f]
      BY <1>0, Zenon DEF SourcesOf
    <2>3. /\ \A L \in cache'[f] : L \subseteq list'[f]
          /\ \A L, M \in cache'[f] : L = M
      BY <1>0, <1>4, <2>1, <2>2, CacheStep DEF SourcesOf, Store
    <2>4. index'[f] \subseteq Keys(f, list'[f])
      BY <1>0, <1>4, <2>1, IndexStep, Zenon DEF SourcesOf
    <2>5. ASSUME NEW q \in Refresher
          PROVE  /\ prev'[q][f] \subseteq Keys(f, list'[f])
                 /\ new'[q][f] \subseteq Keys(f, list'[f])
                 /\ pc'[q] = "store" /\ FeedSeq[k'[q]] = f => body'[q] \subseteq list'[f]
      <3>1. CASE q # r
        BY <1>0, <1>4, <2>1, <3>1, OthersKept DEF Own, SourcesOf
      <3>2. CASE q = r
        <4>0. /\ prev[r][f] \subseteq Keys(f, list[f]) /\ new[r][f] \subseteq Keys(f, list[f])
              /\ index[f] \subseteq Keys(f, list[f]) /\ Nothing[f] = {}
          BY <1>0, Zenon DEF SourcesOf, Nothing
        <4>1. pc[r] \in {"get", "store"} => SettledOn(r)
                                               \subseteq Keys(FeedSeq[k[r]], list[FeedSeq[k[r]]])
          <5>1. ASSUME pc[r] = "store"
                PROVE  Keys(FeedSeq[k[r]], body[r]) \subseteq Keys(FeedSeq[k[r]], list[FeedSeq[k[r]]])
            <6>1. FeedSeq[k[r]] \in Feed
              BY <5>1, FeedAt, Zenon
            <6>2. body[r] \subseteq list[FeedSeq[k[r]]]
              BY <5>1, <6>1, Zenon DEF Sources
            <6> QED BY <6>1, <6>2, KeysMonotone, Zenon
          <5> QED BY <5>1, FallbackListed, Zenon DEF SettledOn
        <4>2. prev'[r][f] \subseteq Keys(f, list[f]) /\ new'[r][f] \subseteq Keys(f, list[f])
          BY <1>4, <4>0, <4>1, OwnStep
        <4>3. pc'[r] = "store" /\ FeedSeq[k'[r]] = f => body'[r] \subseteq list[f]
          BY <1>4, <4>0, OwnStep
        <4> QED BY <2>1, <3>2, <4>2, <4>3, Zenon
      <3> QED BY <3>1, <3>2, Zenon
    <2> QED BY <2>3, <2>4, <2>5, Zenon DEF SourcesOf
  <1> QED BY <1>1, <1>2, <1>3, <1>4, KindsOfStep, Zenon

------------------------------------------------------------------------------
(* Why no key is lost.                                                      *)

\* What the history records of a step that can lose keys.
LEMMA SpoiltStep ==
    ASSUME Types, Places, NEW r \in Refresher, Kind(r)
    PROVE  /\ spoilt \subseteq spoilt'
           /\ Begin(r) /\ spoilt' = {} => \A q \in Refresher : q # r => pc[q] = "idle"
           /\ Store(r) /\ spoilt' = {} =>
                 \/ cache'[FeedSeq[k[r]]] = {body[r]}
                 \/ cache[FeedSeq[k[r]]] = {} /\ cache' = cache
  <1>1. CASE Begin(r)
    <2>1. /\ spoilt' = spoilt \cup {x \in {"overlap"} : \E q \in Refresher \ {r} : pc[q] # "idle"}
          /\ pc[r] = "idle"
      BY <1>1, Zenon DEF Begin
    <2> QED BY <2>1, Zenon DEF Store
  <1>2. CASE Store(r)
    <2>1. FeedSeq[k[r]] \in Feed /\ DOMAIN cache = Feed /\ pc[r] = "store"
      BY <1>2, FeedAt, Zenon DEF Store, Types
    <2> QED BY <1>2, <2>1, Zenon DEF Store, Begin
  <1>3. CASE Receives(r)
    BY <1>3, Zenon DEF Receives, Receive, Begin, Store
  <1>4. CASE FallsBack(r) \/ Swap(r) \/ Syncs(r)
    BY <1>4, Zenon DEF FallsBack, FromCache, Swap, Syncs, Goto, Begin, Store
  <1> QED BY <1>1, <1>2, <1>3, <1>4, Zenon DEF Kind

\* While nothing is spoilt, what a call settles on for a feed has every key of the
\* feed that is in the index, and no key the feed's cache file has not.
LEMMA SettledKeys ==
    ASSUME Types, Places, Sources, Retention, NEW r \in Refresher, spoilt' = {},
           FallsBack(r) \/ Store(r)
    PROVE  /\ index[FeedSeq[k[r]]] \subseteq SettledOn(r)
           /\ \A L \in cache'[FeedSeq[k[r]]] : SettledOn(r) \subseteq Keys(FeedSeq[k[r]], L)
  <1> DEFINE f == FeedSeq[k[r]]
  <1>1. Kind(r) /\ pc[r] \in {"get", "store"}
    BY Zenon DEF Kind, FallsBack, Store
  <1>2. f \in Feed /\ spoilt = {}
    BY <1>1, FeedAt, SpoiltStep, Zenon
  <1>3. CASE FallsBack(r)
    <2>1. prev[r] = index /\ cache'[f] = cache[f] /\ SettledOn(r) = Fallback(r)
      BY <1>2, <1>3, Zenon DEF FallsBack, FromCache, Retention, Fetching, SettledOn
    <2>2. CASE cache[f] = {}
      BY <1>3, <2>1, <2>2, Zenon DEF Fallback
    <2>3. CASE cache[f] # {}
      <3>1. PICK M \in cache[f] : \A L \in cache[f] : L = M
        BY <1>2, <2>3, Zenon DEF Sources
      <3>2. Fallback(r) = Keys(f, M)
        <4>1. {Keys(f, L) : L \in cache[f]} = {Keys(f, M)}
          BY <3>1, Zenon
        <4> QED BY <2>3, <4>1, Zenon DEF Fallback
      <3>3. index[f] \subseteq Keys(f, M)
        BY <1>2, <3>1, Zenon DEF Retention
      <3> QED BY <1>3, <2>1, <3>1, <3>2, <3>3, Zenon
    <2> QED BY <2>2, <2>3, Zenon
  <1>4. CASE Store(r)
    <2>1. pc[r] = "store" /\ SettledOn(r) = Keys(f, body[r])
      BY <1>4, Zenon DEF Store, SettledOn
    <2>2. index[f] \subseteq Keys(f, body[r])
      BY <1>2, <2>1, Zenon DEF Retention
    <2>3. \A L \in cache'[f] : L = body[r]
      BY <1>1, <1>4, SpoiltStep
    <2> QED BY <2>1, <2>2, <2>3, Zenon
  <1> QED BY <1>3, <1>4, Zenon

\* A call that is alone and has all of the index stays so, step by step.
LEMMA RetentionStep ==
    ASSUME Types, Places, Sources, Retention, [Next]_vars
    PROVE  Retention'
  <1>1. CASE Publishes \/ UNCHANGED vars
    BY <1>1, Zenon DEF Publishes, Publish, vars, store, calls, Retention
  <1>2. CASE Restart
    <2>1. /\ \A f \in Feed : index'[f] = {}
          /\ \A r \in Refresher : pc'[r] = "idle" /\ \A f \in Feed : new'[r][f] = {}
      BY <1>2, Zenon DEF Restart, Nothing
    <2> QED BY <2>1, Zenon DEF Retention, Fetching
  <1>3. ASSUME NEW r \in Refresher, Kind(r) PROVE Retention'
    <2> SUFFICES ASSUME spoilt' = {} PROVE Retention'
      BY Zenon DEF Retention
    <2>1. spoilt = {}
      BY <1>3, SpoiltStep, Zenon
    <2>2. ASSUME NEW q \in Refresher, q # r
          PROVE  pc'[q] = "idle" /\ \A f \in Feed : new'[q][f] = {}
      <3>1. pc[q] = "idle"
        <4>1. CASE Begin(r)
          BY <1>3, <2>2, <4>1, SpoiltStep, Zenon
        <4>2. CASE ~Begin(r)
          <5>1. pc[r] # "idle"
            BY <1>3, <4>2, OwnStep, Zenon
          <5> QED BY <2>1, <2>2, <5>1, Zenon DEF Retention
        <4> QED BY <4>1, <4>2, Zenon
      <3>2. new[q] = Nothing
        BY <3>1, Zenon DEF Places, Fetching
      <3>3. pc'[q] = pc[q] /\ new'[q] = new[q]
        BY <1>3, <2>2, OthersKept, Zenon DEF Own
      <3> QED BY <3>1, <3>2, <3>3, Zenon DEF Nothing
    <2>3. ASSUME NEW f \in Feed, NEW L \in cache'[f]
          PROVE  index'[f] \subseteq Keys(f, L) /\ new'[r][f] \subseteq Keys(f, L)
      <3>1. CASE (FallsBack(r) \/ Store(r)) /\ f = FeedSeq[k[r]]
        <4>1. /\ index[f] \subseteq new'[r][f] /\ new'[r][f] \subseteq Keys(f, L)
          BY <3>1, SettledKeys, SettlesOwn
        <4>2. index'[f] = index[f]
          BY <3>1, SettlesOwn, Zenon
        <4> QED BY <4>1, <4>2, Zenon
      <3>2. CASE ~((FallsBack(r) \/ Store(r)) /\ f = FeedSeq[k[r]])
        <4>1. cache'[f] = cache[f]
          BY <1>3, <3>2, CacheStep, Zenon
        <4>2. index[f] \subseteq Keys(f, L) /\ new[r][f] \subseteq Keys(f, L)
          BY <2>1, <2>3, <4>1, Zenon DEF Retention
        <4>3. index'[f] \subseteq Keys(f, L)
          BY <1>3, <4>2, IndexStep, Zenon
        <4>4. new'[r][f] = new[r][f] \/ new'[r][f] = {}
          BY <1>3, <3>2, OwnStep, Zenon DEF Nothing
        <4> QED BY <4>2, <4>3, <4>4, Zenon
      <3> QED BY <3>1, <3>2, Zenon
    <2>4. ASSUME pc'[r] \in Fetching
          PROVE  /\ prev'[r] = index'
                 /\ \A i \in DOMAIN FeedSeq :
                       i < k'[r] => index'[FeedSeq[i]] \subseteq new'[r][FeedSeq[i]]
      <3>1. UNCHANGED index
        BY <1>3, <2>4, IndexStep, OwnStep, Zenon DEF Fetching, Swap
      <3>2. CASE Begin(r)
        <4>1. pc[r] = "idle" /\ k[r] = 1
          BY <3>2, Zenon DEF Begin, Places
        <4>2. prev'[r] = index /\ k'[r] = 1
          BY <1>3, <4>1, OwnStep, Zenon
        <4>3. \A i \in DOMAIN FeedSeq : ~(i < 1)
          BY FeedPositions
        <4> QED BY <3>1, <4>2, <4>3, Zenon
      <3>3. CASE Receives(r)
        <4>1. pc[r] = "get" /\ UNCHANGED <<k[r], prev[r], new[r]>>
          BY <1>3, <3>3, OwnStep, Zenon DEF Receives, Receive, Types, TypeOK
        <4> QED BY <2>1, <3>1, <4>1, Zenon DEF Retention, Fetching
      <3>4. CASE FallsBack(r) \/ Store(r)
        <4>1. /\ pc[r] \in {"get", "store"} /\ k[r] \in DOMAIN FeedSeq /\ prev[r] = index
              /\ \A i \in DOMAIN FeedSeq :
                    i < k[r] => index[FeedSeq[i]] \subseteq new[r][FeedSeq[i]]
          BY <2>1, <3>4, Zenon DEF FallsBack, Store, Places, Retention, Fetching
        <4>2. /\ index[FeedSeq[k[r]]] \subseteq new'[r][FeedSeq[k[r]]]
              /\ \A g \in Feed : g # FeedSeq[k[r]] => new'[r][g] = new[r][g]
              /\ k'[r] = k[r] + 1 /\ prev'[r] = prev[r]
          BY <3>4, SettledKeys, SettlesOwn, Zenon
        <4>3. ASSUME NEW i \in DOMAIN FeedSeq, i < k[r] + 1
              PROVE  index[FeedSeq[i]] \subseteq new'[r][FeedSeq[i]]
          <5>1. FeedSeq[i] \in Feed
            BY Zenon DEF Feed
          <5>2. i < k[r] \/ i = k[r]
            BY <4>1, <4>3, FeedPositions
          <5> QED BY <4>1, <4>2, <5>1, <5>2, Zenon
        <4> QED BY <3>1, <4>1, <4>2, <4>3, Zenon
      <3>5. CASE Swap(r) \/ Syncs(r)
        BY <1>3, <2>4, <3>5, OwnStep, Zenon DEF Fetching, Swap, Syncs
      <3> QED BY <1>3, <3>2, <3>3, <3>4, <3>5, Zenon DEF Kind
    <2>5. ASSUME pc'[r] = "store"
          PROVE  index'[FeedSeq[k'[r]]] \subseteq Keys(FeedSeq[k'[r]], body'[r])
      <3>1. /\ pc[r] = "get" /\ k'[r] = k[r]
            /\ body'[r] = list[FeedSeq[k[r]]]
        BY <1>3, <2>5, OwnStep, Zenon
      <3>2. FeedSeq[k[r]] \in Feed
        BY <3>1, FeedAt, Zenon
      <3>3. UNCHANGED index
        BY <1>3, <3>1, IndexStep, Zenon DEF Swap
      <3> QED BY <3>1, <3>2, <3>3, Zenon DEF Sources
    <2> HIDE DEF Places, Types, Sources
    <2>6. \A q, p \in Refresher : pc'[q] # "idle" /\ pc'[p] # "idle" => q = p
      BY <2>2, Zenon
    <2>7. \A f \in Feed : \A L \in cache'[f] :
              /\ index'[f] \subseteq Keys(f, L)
              /\ \A q \in Refresher : new'[q][f] \subseteq Keys(f, L)
      BY <2>2, <2>3, Zenon
    <2>8. \A q \in Refresher :
              /\ pc'[q] \in Fetching =>
                    /\ prev'[q] = index'
                    /\ \A i \in DOMAIN FeedSeq :
                          i < k'[q] => index'[FeedSeq[i]] \subseteq new'[q][FeedSeq[i]]
              /\ pc'[q] = "store" =>
                    index'[FeedSeq[k'[q]]] \subseteq Keys(FeedSeq[k'[q]], body'[q])
      BY <2>2, <2>4, <2>5, Zenon DEF Fetching
    <2> QED BY <2>6, <2>7, <2>8, Zenon DEF Retention
  <1> QED BY <1>1, <1>2, <1>3, KindsOfStep, Zenon

------------------------------------------------------------------------------
(* Who is filling the table.                                                *)

\* What has not struck after a step had not struck before it, nor did it in it.
LEMMA UnusedBefore ==
    ASSUME Types, LeftBound, [Next]_vars, NEW K \in SUBSET FaultKind, Unused(K)'
    PROVE  Unused(K) /\ \A x \in K : left'[x] = left[x] /\ ~Spend(x)
  <1> SUFFICES ASSUME NEW x \in K PROVE left[x] = Faults[x] /\ left'[x] = left[x] /\ ~Spend(x)
    BY Zenon DEF Unused
  <1>1. /\ left[x] \in Nat /\ left'[x] \in Nat /\ Faults[x] \in Nat
        /\ left'[x] <= left[x] /\ left[x] <= Faults[x] /\ left'[x] = Faults[x]
    BY LeftStep, FeedsAssumption, Zenon DEF Types, TypeOK, LeftBound, Unused
  <1>2. left[x] = Faults[x] /\ left'[x] = left[x]
    BY <1>1
  <1>3. ~Spend(x)
    BY <1>1, <1>2, SpendBound
  <1> QED BY <1>2, <1>3, Zenon

FillingBy(r) ==
    /\ pc[r] = "full" => 1..(k[r] - 1) \subseteq table
    /\ pc[r] = "recent" => table # {}
    /\ pc[r] = "stuck" => ~Unused({"cut"})

Filler(r) == pc[r] = "full" /\ k[r] > 1

\* The call that takes a step leaves its sync, if it is in one, in good order.
LEMMA FillerStep ==
    ASSUME Types, Places, LeftBound, Filling, [Next]_vars, NEW r \in Refresher,
           Step(r) \/ Fault(r), ~UNCHANGED vars
    PROVE  /\ FillingBy(r)' /\ table \subseteq table'
           /\ Unused({"db", "cut", "stop"})' =>
                 \/ UNCHANGED table /\ (Filler(r) => Filler(r)')
                 \/ table' # {} /\ (table = {} \/ Filler(r)) /\ (Filler(r)' \/ table' = 1..Batches)
                 \/ table # {} /\ ~Filler(r) /\ table' \subseteq 1..Batches
  <1>0. /\ pc \in [Refresher -> {"idle", "get", "store", "swap", "count", "full", "recent", "stuck"}]
        /\ k \in [Refresher -> Nat] /\ table \subseteq 1..Batches /\ Batches \in Nat \ {0}
    BY FeedsAssumption, Zenon DEF Types, TypeOK
  <1>1. FillingBy(r)
    BY Zenon DEF Filling, FillingBy
  <1>2. /\ Unused({"db", "cut", "stop"})' => ~Spend("db") /\ ~Spend("cut")
        /\ Unused({"cut"})' => ~Spend("cut")
    <2>1. {"db", "cut", "stop"} \in SUBSET FaultKind /\ {"cut"} \in SUBSET FaultKind
      BY Zenon DEF FaultKind
    <2> QED BY <2>1, UnusedBefore, Zenon
  <1>3. CASE Begin(r) \/ Receives(r) \/ FallsBack(r) \/ Store(r) \/ Swap(r)
    <2>1. pc[r] \in {"idle", "get", "store", "swap"} /\ UNCHANGED table
      BY <1>3, Zenon DEF Begin, Receives, Receive, FallsBack, FromCache, Store, Settle, Swap, store
    <2>2. pc'[r] \in {"get", "store", "swap", "count"}
      BY <1>0, <1>3, Zenon DEF Begin, Receives, Receive, FallsBack, FromCache, Store, Settle, Swap
    <2> QED BY <2>1, <2>2, Zenon DEF FillingBy, Filler
  <1>4. CASE Count(r)
    <2>1. /\ UNCHANGED table /\ ~Filler(r)
          /\ \/ table = {} /\ pc'[r] = "full" /\ k'[r] = 1
             \/ table # {} /\ pc'[r] = "recent"
      BY <1>0, <1>4, Zenon DEF Count, Goto, Filler
    <2> QED BY <2>1 DEF FillingBy
  <1>5. CASE Insert(r)
    <2>1. /\ pc[r] \in {"full", "recent"} /\ k[r] \in 1..Batches /\ table' = table \cup {k[r]}
          /\ \/ k[r] < Batches /\ pc'[r] = pc[r] /\ k'[r] = k[r] + 1
             \/ k[r] = Batches /\ pc'[r] = "idle"
      BY <1>0, <1>5 DEF Insert, Goto, Places
    <2>2. table \subseteq table' /\ table' # {} /\ table' \subseteq 1..Batches
      BY <1>0, <2>1, Zenon
    <2>3. CASE pc[r] = "recent"
      BY <1>1, <2>1, <2>2, <2>3, Zenon DEF FillingBy, Filler
    <2>4. CASE pc[r] = "full" /\ k[r] < Batches
      <3>1. 1..(k'[r] - 1) \subseteq table' /\ Filler(r)'
        BY <1>0, <1>1, <2>1, <2>4 DEF FillingBy, Filler
      <3>2. table = {} \/ Filler(r) \/ (table # {} /\ ~Filler(r))
        BY Zenon
      <3> QED BY <2>1, <2>2, <2>4, <3>1, <3>2, Zenon DEF FillingBy
    <2>5. CASE pc[r] = "full" /\ k[r] = Batches
      <3>1. 1..Batches \subseteq table'
        BY <1>0, <1>1, <2>1, <2>5 DEF FillingBy
      <3>2. table' = 1..Batches
        BY <2>2, <3>1, Zenon
      <3> QED BY <1>0, <2>1, <2>2, <2>5, <3>2 DEF FillingBy, Filler
    <2> QED BY <2>1, <2>3, <2>4, <2>5, Zenon
  <1>6. CASE FetchFails(r)
    <2>1. /\ UNCHANGED table /\ pc'[r] = "idle" /\ ~Filler(r)
      BY <1>0, <1>6 DEF FetchFails, Goto, Filler
    <2> QED BY <2>1, Zenon DEF FillingBy
  <1>7. CASE InsertFails(r)
    <2>1. /\ UNCHANGED table /\ pc'[r] = "idle" /\ ~Unused({"db", "cut", "stop"})'
      BY <1>0, <1>2, <1>7, Zenon DEF InsertFails, Goto
    <2> QED BY <2>1, Zenon DEF FillingBy
  <1>8. CASE Cut(r)
    <2>1. /\ UNCHANGED table /\ pc'[r] = "stuck" /\ ~Unused({"db", "cut", "stop"})'
          /\ ~Unused({"cut"})'
      BY <1>0, <1>2, <1>8, Zenon DEF Cut, Goto
    <2> QED BY <2>1, Zenon DEF FillingBy
  <1>9. CASE CutEnds(r)
    <2>1. UNCHANGED table /\ pc'[r] = "idle" /\ ~Filler(r)
      BY <1>0, <1>9, Zenon DEF CutEnds, Goto, Filler
    <2> QED BY <2>1, Zenon DEF FillingBy
  <1>10. CASE Get(r) \/ GetFails(r) \/ GetGarbage(r)
    <2>1. Receives(r) \/ FallsBack(r)
      <3>1. FeedSeq[k[r]] \in Feed
        BY <1>10, FeedAt, Zenon DEF Get, GetFails, GetGarbage
      <3>2. list[FeedSeq[k[r]]] \in SUBSET Url /\ {} \in SUBSET Url
        BY <3>1 DEF Types, TypeOK
      <3> QED BY <1>10, <3>2, Zenon DEF Get, GetFails, GetGarbage, Receives, FallsBack
    <2> QED BY <1>3, <2>1, Zenon
  <1>11. ~ReadOn(r)
    BY Zenon DEF ReadOn
  <1> QED BY <1>3, <1>4, <1>5, <1>6, <1>7, <1>8, <1>9, <1>10, <1>11, Zenon DEF Step, Fault

\* A step of one call leaves the others where they are.
LEMMA OthersWait ==
    ASSUME Types, Places, [Next]_vars, NEW r \in Refresher, Step(r) \/ Fault(r),
           NEW q \in Refresher, q # r
    PROVE  UNCHANGED <<pc[q], k[q]>>
  <1>0. DOMAIN pc = Refresher /\ DOMAIN k = Refresher
    BY Zenon DEF Types, TypeOK
  <1>1. CASE Begin(r) \/ Get(r) \/ Store(r) \/ Swap(r)
    BY <1>0, <1>1, Zenon DEF Begin, Get, Receive, Store, Settle, Swap
  <1>2. CASE Count(r) \/ Insert(r) \/ CutEnds(r)
    BY <1>0, <1>2, Zenon DEF Count, Insert, CutEnds, Goto
  <1>3. CASE GetFails(r) \/ GetGarbage(r)
    BY <1>0, <1>3, Zenon DEF GetFails, GetGarbage, FromCache, Receive, Settle
  <1>4. CASE FetchFails(r) \/ InsertFails(r) \/ Cut(r)
    BY <1>0, <1>4, Zenon DEF FetchFails, InsertFails, Cut, Goto
  <1>5. CASE ReadOn(r)
    BY <1>5, Zenon DEF ReadOn, vars, calls
  <1> QED BY <1>1, <1>2, <1>3, <1>4, <1>5, Zenon DEF Step, Fault

\* A sync that breaks off spends a fault; a table in part filled otherwise keeps
\* the call that fills it.
LEMMA FillingStep ==
    ASSUME Types, Places, LeftBound, Filling, [Next]_vars
    PROVE  Filling'
  <1> DEFINE K == {"db", "cut", "stop"}
  <1>1. K \in SUBSET FaultKind /\ {"cut"} \in SUBSET FaultKind
    BY Zenon DEF FaultKind
  <1>2. /\ Unused(K)' => Unused(K)
        /\ Unused({"cut"})' => Unused({"cut"})
    BY <1>1, UnusedBefore, Zenon
  <1>3. CASE UNCHANGED vars \/ Publishes
    <2>1. UNCHANGED <<pc, k, table, left>>
      BY <1>3, Zenon DEF vars, store, calls, Publishes, Publish
    <2> QED BY <2>1, Zenon DEF Filling, Unused
  <1>4. CASE Restart
    <2>1. ~Unused(K)'
      BY <1>1, <1>4, UnusedBefore, Zenon DEF Restart
    <2>2. \A r \in Refresher : pc'[r] = "idle"
      BY <1>4, Zenon DEF Restart
    <2> QED BY <2>1, <2>2, Zenon DEF Filling
  <1>5. ASSUME NEW r \in Refresher, Step(r) \/ Fault(r), ~UNCHANGED vars PROVE Filling'
    <2>1. /\ FillingBy(r)' /\ table \subseteq table'
          /\ Unused(K)' =>
                 \/ UNCHANGED table /\ (Filler(r) => Filler(r)')
                 \/ table' # {} /\ (table = {} \/ Filler(r)) /\ (Filler(r)' \/ table' = 1..Batches)
                 \/ table # {} /\ ~Filler(r) /\ table' \subseteq 1..Batches
      BY <1>5, FillerStep, Zenon
    <2>2. \A q \in Refresher : q # r => UNCHANGED <<pc[q], k[q]>>
      BY <1>5, OthersWait, Zenon
    <2>3. ASSUME NEW q \in Refresher PROVE FillingBy(q)'
      <3>1. CASE q = r
        BY <2>1, <3>1, Zenon
      <3>2. CASE q # r
        <4>1. FillingBy(q)
          BY Zenon DEF Filling, FillingBy
        <4>2. pc'[q] = pc[q] /\ k'[q] = k[q]
          BY <2>2, <3>2, Zenon
        <4> QED BY <1>2, <2>1, <4>1, <4>2, Zenon DEF FillingBy
      <3> QED BY <3>1, <3>2, Zenon
    <2>4. ASSUME Unused(K)', table' # {}
          PROVE  table' = 1..Batches \/ \E q \in Refresher : Filler(q)'
      <3>1. table # {} => table = 1..Batches \/ \E q \in Refresher : Filler(q)
        BY <1>2, <2>4, Zenon DEF Filling, Filler
      <3>2. ASSUME NEW q \in Refresher, Filler(q), q # r PROVE Filler(q)'
        BY <2>2, <3>2, Zenon DEF Filler
      <3>3. CASE UNCHANGED table /\ (Filler(r) => Filler(r)')
        BY <2>4, <3>1, <3>2, <3>3, Zenon
      <3>4. CASE Filler(r)' \/ table' = 1..Batches
        BY <3>4, Zenon
      <3>5. CASE table # {} /\ ~Filler(r) /\ table' \subseteq 1..Batches
        BY <2>1, <3>1, <3>2, <3>5, Zenon
      <3> QED BY <2>1, <2>4, <3>3, <3>4, <3>5, Zenon
    <2> QED BY <2>3, <2>4, Zenon DEF Filling, FillingBy, Filler
  <1> QED BY <1>3, <1>4, <1>5, Zenon DEF Next, Publishes

------------------------------------------------------------------------------
(* The inductive invariant, and what follows from it.                       *)

\* Before the first call of Refresh the index, the cache and the table are empty.
LEMMA Initially == Init => IInv
  <1> SUFFICES ASSUME Init PROVE IInv
    BY Zenon
  <1>1. Nothing \in [Feed -> SUBSET Url] /\ Nothing \in [Feed -> SUBSET Key]
    BY Zenon DEF Nothing
  <1>2. Types
    BY <1>1, FeedsAssumption, Zenon DEF Init, Types, TypeOK, Key
  <1>3. Places
    BY Zenon DEF Init, Places, Fetching
  <1>4. Sources
    BY Zenon DEF Init, Sources, Nothing
  <1>5. Retention
    BY Zenon DEF Init, Retention, Nothing, Fetching
  <1>6. Filling
    BY Zenon DEF Init, Filling
  <1>7. LeftBound
    BY FeedsAssumption DEF Init, LeftBound
  <1> QED BY <1>2, <1>3, <1>4, <1>5, <1>6, <1>7, Zenon DEF IInv

\* Every step of a call, of a feed's server or of a restart keeps it.
LEMMA Inductive == IInv /\ [Next]_vars => IInv'
  <1> SUFFICES ASSUME IInv, [Next]_vars PROVE IInv'
    BY Zenon
  <1>1. Types /\ Places /\ Sources /\ Retention /\ Filling /\ LeftBound
    BY Zenon DEF IInv
  <1>2. Types' /\ Places'
    BY <1>1, TypesStep, PlacesStep, Zenon
  <1>3. Sources' /\ Retention'
    BY <1>1, SourcesStep, RetentionStep, Zenon
  <1>4. Filling' /\ LeftBound'
    BY <1>1, FillingStep, LeftStep, Zenon
  <1> QED BY <1>2, <1>3, <1>4, Zenon DEF IInv

\* The invariant of the threat feeds.
THEOREM Invariance == Spec => []IInv
  BY Initially, Inductive, PTL DEF Spec

\* The index, the cache files, the table and the calls of Refresh keep their types.
THEOREM TypeCorrect == Spec => []TypeOK
  <1>1. IInv => TypeOK
    BY Zenon DEF IInv, Types
  <1> QED BY <1>1, Invariance, PTL

\* Between calls of Refresh the table of hashes is empty or has the whole first
\* dump, unless a batch failed, a dump broke off or the daemon stopped.
THEOREM DumpWhole == Spec => []DumpIsWhole
  <1>1. IInv => DumpIsWhole
    <2>1. ASSUME NEW r \in Refresher, pc[r] = "idle" PROVE pc[r] # "full"
      BY <2>1, Zenon
    <2> QED BY <2>1, Zenon DEF IInv, Filling, DumpIsWhole
  <1> QED BY <1>1, Invariance, PTL

\* A key in the index of a feed is an entry of its list or the host of one.
LEMMA KeyListed ==
    ASSUME Sources, NEW f \in Feed, NEW u, u \in index[f]
    PROVE  \/ u \in list[f]
           \/ f \in HostIndexed /\ \E v \in list[f] : u = <<v[1], "">>
  <1>1. u \in Keys(f, list[f])
    BY Zenon DEF Sources
  <1> QED BY <1>1, Zenon DEF Keys

\* LookupURLExact and LookupURL find nothing that no feed has listed, for the
\* scanner and for the retroactive scan.
THEOREM HitsListed == Spec => []HitsAreListed
  <1>1. ASSUME Sources, NEW u \in Seen
        PROVE  LET byHost == {f \in HostIndexed : \E v \in list[f] : v[1] = u[1]}
                   exact == {f \in Feed : u \in list[f] \/ <<u[1], "">> \in list[f]}
               IN  /\ LookupURLExact(u) => exact # {} \/ (byHost # {} /\ u[2] = "")
                   /\ LookupURL(u) => exact # {} \/ byHost # {}
    <2> DEFINE byHost == {f \in HostIndexed : \E v \in list[f] : v[1] = u[1]}
               exact == {f \in Feed : u \in list[f] \/ <<u[1], "">> \in list[f]}
    <2>1. ASSUME NEW f \in Feed, u \in index[f] PROVE exact # {} \/ (byHost # {} /\ u[2] = "")
      <3>1. CASE u \in list[f]
        BY <3>1, Zenon
      <3>2. CASE f \in HostIndexed /\ \E v \in list[f] : u = <<v[1], "">>
        <4>1. PICK v \in list[f] : u = <<v[1], "">>
          BY <3>2, Zenon
        <4>2. u[1] = v[1] /\ u[2] = ""
          BY <4>1, Zenon
        <4>3. f \in byHost
          BY <3>2, <4>2, Zenon
        <4> QED BY <4>2, <4>3, Zenon
      <3> QED BY <1>1, <2>1, <3>1, <3>2, KeyListed, Zenon
    <2>2. ASSUME NEW f \in Feed, <<u[1], "">> \in index[f] PROVE exact # {} \/ byHost # {}
      <3>1. CASE <<u[1], "">> \in list[f]
        BY <3>1, Zenon
      <3>2. CASE f \in HostIndexed /\ \E v \in list[f] : <<u[1], "">> = <<v[1], "">>
        BY <3>2, Zenon
      <3> QED BY <1>1, <2>2, <3>1, <3>2, KeyListed, Zenon
    <2> QED BY <2>1, <2>2, Zenon DEF LookupURLExact, LookupURL
  <1>2. Sources => HitsAreListed
    BY <1>1, Zenon DEF HitsAreListed, LiveHit, RetroHit
  <1> QED BY <1>2, Invariance, PTL DEF IInv

\* A refresh takes no key out of the index in force while nothing is spoilt: the
\* swap comes when every feed is settled, and each was settled on a superset.
THEOREM IndexOnlyGrows == Spec => NoAmnesia
  <1>1. ASSUME IInv, [Next]_vars, spoilt' = {}, ~Restart, NEW f \in Feed
        PROVE  index[f] \subseteq index'[f]
    <2>1. Types /\ Places /\ Retention
      BY <1>1, Zenon DEF IInv
    <2>2. CASE Publishes \/ UNCHANGED vars
      BY <2>2, Zenon DEF Publishes, Publish, vars
    <2>3. ASSUME NEW r \in Refresher, Kind(r) PROVE index[f] \subseteq index'[f]
      <3>1. spoilt = {}
        BY <1>1, <2>1, <2>3, SpoiltStep, Zenon
      <3>2. CASE Swap(r) /\ index' = new[r]
        <4>1. pc[r] = "swap" /\ k[r] = Len(FeedSeq) + 1
          BY <2>1, <3>2, Zenon DEF Swap, Places
        <4>2. PICK i \in DOMAIN FeedSeq : f = FeedSeq[i]
          BY Zenon DEF Feed
        <4>3. i < k[r]
          BY <4>1, <4>2, FeedPositions
        <4>4. index[FeedSeq[i]] \subseteq new[r][FeedSeq[i]]
          BY <2>1, <3>1, <4>1, <4>3, Zenon DEF Retention, Fetching
        <4> QED BY <3>2, <4>2, <4>4, Zenon
      <3> QED BY <2>3, <3>2, IndexStep, Zenon
    <2> QED BY <1>1, <2>1, <2>2, <2>3, KindsOfStep, Zenon
  <1>2. IInv /\ [Next]_vars => [spoilt' = {} /\ ~Restart =>
                                   \A f \in Feed : index[f] \subseteq index'[f]]_vars
    BY <1>1, Zenon
  <1> QED BY <1>2, Invariance, PTL DEF Spec, NoAmnesia
==============================================================================
