-------------------------------- MODULE Feeds --------------------------------
(***************************************************************************)
(* The threat feeds (feeds/): Refresh fetches every URL feed, falling back *)
(* on its cache file and then on what was in memory, swaps the new index   *)
(* in, and syncs the MalwareBazaar hashes into SQLite. The scheduler, the  *)
(* start-up goroutine and the settings page run it at the same time. The   *)
(* live scanner (scanners/urlcheck.go) and the retrospective one           *)
(* (pipeline/retro.go) look URLs up in the index.                          *)
(*                                                                         *)
(* A feed only ever adds entries here, so that an entry the index has lost *)
(* is lost by this code. Counts and feed metadata are left out.            *)
(***************************************************************************)
EXTENDS Naturals, Sequences, FiniteSetsExt

CONSTANTS
    FeedSeq,      \* Manager.feeds, in the order Refresh fetches them
    Offer,        \* Offer[f]: the URLs a feed may come to list, as <<host, path>>
    Timer,        \* the scheduler of Run
    Extra,        \* other callers of Refresh: the start-up goroutine, FeedsRefresh
    Batches,      \* a full MalwareBazaar dump is inserted in batches 1..Batches
    Faults,       \* how often each kind of fault may strike, see FaultKind
    MaxFaults     \* and how many faults may strike altogether

\* down: a server cannot be reached        garbage: 200 with a body that is no list
\* disk: a cache file cannot be written    cut: the body of a dump breaks off
\* db: a batch insert fails                stop: the daemon crashes or is restarted
\* call: an extra caller starts a Refresh
FaultKind == {"down", "garbage", "disk", "cut", "db", "stop", "call"}

Feed == {FeedSeq[i] : i \in DOMAIN FeedSeq}
Url  == UNION {Offer[f] : f \in Feed}
Host == {u[1] : u \in Url}

\* Of the hosts in the model, those on the two lists of hosting platforms, which
\* are not the same list.
sharedHostingDomains      == {"github.com", "google.com"}
retroSharedHostingDomains == {"github.com", "github.io"}

\* The parser of phishtank rejects what is no list; the others find nothing in it.
Checked == {"phishtank"}

\* Feeds of which the bare host is indexed too; <<h, "">> is the key of host h.
HostIndexed == Feed \ {"urlhaus", "threatfox"}

Refresher == {Timer} \cup Extra

ASSUME FeedsAssumption ==
    /\ FeedSeq \in Seq(STRING) /\ FeedSeq # <<>>
    /\ \A f \in Feed : Offer[f] \subseteq STRING \X STRING
    /\ Timer \notin Extra
    /\ Batches \in Nat \ {0}
    /\ Faults \in [FaultKind -> Nat] /\ MaxFaults \in Nat

VARIABLES
    list,         \* list[f]: what the feed's server lists now (external)
    cache,        \* cache[f]: {} or {the list in the feed's cache file}
    index,        \* index[f]: Manager.feedURLs[f], the keys in force
    table,        \* the batches in the table MalwareBazaarHash
    dumps,        \* cache files of MalwareBazaar: "full", "recent"
    pc, k,        \* where each call of Refresh is, and with which feed or batch
    prev, new,    \* prevFeedURLs and newFeedURLs
    body,         \* the list received
    left,
    spoilt        \* history: what has happened that lets entries be lost, see Spoilers

\* overlap: two calls of Refresh ran at the same time. garbage: a parser took a
\* body that is no list. outdated: a new cache file could not replace an old one.
Spoilers == {"overlap", "garbage", "outdated"}

store == <<cache, table, dumps>>
calls == <<pc, k, prev, new, body>>
vars  == <<list, store, index, calls, left, spoilt>>

Spent == MapThenSumSet(LAMBDA x : Faults[x] - left[x], FaultKind)
Spend(x) == left[x] > 0 /\ Spent < MaxFaults /\ left' = [left EXCEPT ![x] = @ - 1]
Unused(K) == \A x \in K : left[x] = Faults[x]

M_Keys_AllHosts(f, L) == L \cup {<<u[1], "">> : u \in L}

\* normalizeURL of every entry, and for phishing feeds the host.
Keys(f, L) == L \cup {<<u[1], "">> : u \in {v \in L : f \in HostIndexed}}

Nothing == [f \in Feed |-> {}]

Init ==
    /\ list = Nothing /\ index = Nothing
    /\ cache = [f \in Feed |-> {}]
    /\ table = {} /\ dumps = {}
    /\ pc = [r \in Refresher |-> "idle"]
    /\ k = [r \in Refresher |-> 1]
    /\ prev = [r \in Refresher |-> Nothing]
    /\ new = [r \in Refresher |-> Nothing]
    /\ body = [r \in Refresher |-> {}]
    /\ left = Faults /\ spoilt = {}

\* The feed's server adds an entry.
Publish(f, u) ==
    /\ u \in Offer[f] \ list[f]
    /\ list' = [list EXCEPT ![f] = @ \cup {u}]
    /\ UNCHANGED <<store, index, calls, left, spoilt>>

------------------------------------------------------------------------------
(* Refresh: the URL feeds.                                                  *)

\* Locals a call has done with go back to their first value.
\* The snapshot of feedURLs is the fallback for feeds that fail this round.
Begin(r) ==
    /\ pc[r] = "idle"
    /\ IF r = Timer THEN UNCHANGED left ELSE Spend("call")
    /\ pc' = [pc EXCEPT ![r] = "get"]
    /\ prev' = [prev EXCEPT ![r] = index]
    /\ spoilt' = spoilt \cup {x \in {"overlap"} : \E q \in Refresher \ {r} : pc[q] # "idle"}
    /\ UNCHANGED <<list, store, index, k, new, body>>

\* The keys of this feed are settled; on to the next, or to the swap.
Settle(r, keys) ==
    /\ new' = [new EXCEPT ![r][FeedSeq[k[r]]] = keys]
    /\ pc' = [pc EXCEPT ![r] = IF k[r] = Len(FeedSeq) THEN "swap" ELSE "get"]
    /\ k' = [k EXCEPT ![r] = @ + 1]
    /\ body' = [body EXCEPT ![r] = {}]
    /\ UNCHANGED <<list, index, prev, table, dumps>>

Receive(r, L) ==
    /\ body' = [body EXCEPT ![r] = L]
    /\ pc' = [pc EXCEPT ![r] = "store"]
    /\ UNCHANGED <<list, store, index, k, prev, new>>

M_FromCache_NoRetention(r) ==
    LET f == FeedSeq[k[r]] IN
    Settle(r, UNION {Keys(f, L) : L \in cache[f]}) /\ UNCHANGED <<cache, spoilt>>

\* loadCacheFile; without a file Fetch fails and the previous keys are retained.
FromCache(r) ==
    LET f == FeedSeq[k[r]] IN
    /\ Settle(r, IF cache[f] = {} THEN prev[r][f] ELSE UNION {Keys(f, L) : L \in cache[f]})
    /\ UNCHANGED <<cache, spoilt>>

M_Get_CacheFirst(r) ==
    /\ pc[r] = "get"
    /\ IF cache[FeedSeq[k[r]]] # {} THEN FromCache(r)
       ELSE Receive(r, list[FeedSeq[k[r]]]) /\ UNCHANGED spoilt
    /\ UNCHANGED left

\* 200 and the list as it is now.
Get(r) ==
    /\ pc[r] = "get"
    /\ Receive(r, list[FeedSeq[k[r]]])
    /\ UNCHANGED <<left, spoilt>>

GetFails(r) ==
    /\ pc[r] = "get" /\ Spend("down")
    /\ FromCache(r)

\* 200 and something else: an empty list, or for phishtank a parse error.
GetGarbage(r) ==
    /\ pc[r] = "get" /\ Spend("garbage")
    /\ IF FeedSeq[k[r]] \in Checked THEN FromCache(r)
       ELSE Receive(r, {}) /\ spoilt' = spoilt \cup {"garbage"}

\* The body goes to the cache file (by rename, errors are ignored) and is parsed.
Store(r) ==
    LET f == FeedSeq[k[r]] IN
    /\ pc[r] = "store"
    /\ \/ /\ cache' = [cache EXCEPT ![f] = {body[r]}]
          /\ UNCHANGED <<left, spoilt>>
       \/ /\ Spend("disk") /\ UNCHANGED cache
          /\ spoilt' = spoilt \cup {x \in {"outdated"} : cache[f] # {}}
    /\ Settle(r, Keys(f, body[r]))

Swap(r) ==
    /\ pc[r] = "swap"
    /\ index' = new[r]
    /\ pc' = [pc EXCEPT ![r] = "count"]
    /\ k' = [k EXCEPT ![r] = 1]
    /\ prev' = [prev EXCEPT ![r] = Nothing]
    /\ new' = [new EXCEPT ![r] = Nothing]
    /\ UNCHANGED <<list, store, body, left, spoilt>>

------------------------------------------------------------------------------
(* malwareBazaarFeed.Sync.                                                  *)

Goto(r, where, b) ==
    /\ pc' = [pc EXCEPT ![r] = where]
    /\ k' = [k EXCEPT ![r] = b]
    /\ UNCHANGED <<list, index, cache, prev, new, body, spoilt>>

\* Only an empty table asks for the full dump; "recent" has the last batch alone.
Count(r) ==
    /\ pc[r] = "count"
    /\ IF table = {} THEN Goto(r, "full", 1) ELSE Goto(r, "recent", Batches)
    /\ UNCHANGED <<table, dumps, left>>

\* mbFetch: without network and cache file the sync is over before it began.
FetchFails(r) ==
    /\ pc[r] \in {"full", "recent"} \ dumps /\ k[r] = (IF pc[r] = "full" THEN 1 ELSE Batches)
    /\ Spend("down")
    /\ Goto(r, "idle", 1)
    /\ UNCHANGED <<table, dumps>>

M_Insert_OneMore(r) ==
    /\ pc[r] \in {"full", "recent"}
    /\ table' = table \cup {k[r]}
    /\ IF k[r] <= Batches
       THEN Goto(r, pc[r], k[r] + 1) /\ UNCHANGED dumps
       ELSE Goto(r, "idle", 1) /\ dumps' = dumps \cup {pc[r]}
    /\ UNCHANGED left

M_Insert_NoFinalFlush(r) ==
    /\ pc[r] \in {"full", "recent"}
    /\ IF k[r] < Batches
       THEN Goto(r, pc[r], k[r] + 1) /\ table' = table \cup {k[r]} /\ UNCHANGED dumps
       ELSE Goto(r, "idle", 1) /\ dumps' = dumps \cup {pc[r]} /\ UNCHANGED table
    /\ UNCHANGED left

\* mbParseAndInsert: one transaction for each batch; after the last the cache
\* file gets its name.
Insert(r) ==
    /\ pc[r] \in {"full", "recent"}
    /\ table' = table \cup {k[r]}
    /\ IF k[r] < Batches
       THEN Goto(r, pc[r], k[r] + 1) /\ UNCHANGED dumps
       ELSE Goto(r, "idle", 1) /\ dumps' = dumps \cup {pc[r]}
    /\ UNCHANGED left

InsertFails(r) ==
    /\ pc[r] \in {"full", "recent"} /\ Spend("db")
    /\ Goto(r, "idle", 1)
    /\ UNCHANGED <<table, dumps>>

\* A body that breaks off returns the same read error again and again, and
\* mbParseAndInsert goes on reading until its context is done.
Cut(r) ==
    /\ pc[r] \in {"full", "recent"} /\ Spend("cut")
    /\ Goto(r, "stuck", k[r])
    /\ UNCHANGED <<table, dumps>>

\* Reading on changes nothing.
ReadOn(r) == pc[r] = "stuck" /\ UNCHANGED vars

\* FeedsRefresh gives its call five minutes, Run and the start-up call none.
CutEnds(r) ==
    /\ pc[r] = "stuck" /\ r # Timer
    /\ Goto(r, "idle", 1)
    /\ UNCHANGED <<table, dumps, left>>

Restart ==
    /\ Spend("stop")
    /\ index' = Nothing
    /\ pc' = [r \in Refresher |-> "idle"]
    /\ k' = [r \in Refresher |-> 1]
    /\ prev' = [r \in Refresher |-> Nothing]
    /\ new' = [r \in Refresher |-> Nothing]
    /\ body' = [r \in Refresher |-> {}]
    /\ UNCHANGED <<list, store, spoilt>>

Step(r) ==
    \/ Begin(r) \/ Get(r) \/ Store(r) \/ Swap(r) \/ Count(r) \/ Insert(r) \/ CutEnds(r)

Fault(r) == GetFails(r) \/ GetGarbage(r) \/ FetchFails(r) \/ InsertFails(r) \/ Cut(r) \/ ReadOn(r)

Next ==
    \/ \E f \in Feed : \E u \in Offer[f] : Publish(f, u)
    \/ \E r \in Refresher : Step(r) \/ Fault(r)
    \/ Restart

Spec == Init /\ [][Next]_vars

\* The ticker of Run ticks and its goroutine makes progress; so does a caller
\* that has begun.
Fairness ==
    /\ WF_vars(Step(Timer))
    /\ \A r \in Extra : WF_vars(pc[r] # "idle" /\ Step(r))

FairSpec == Spec /\ Fairness

------------------------------------------------------------------------------
(* Looking up.                                                              *)

LookupURLExact(u) == \E f \in Feed : u \in index[f]
LookupURL(u) == \E f \in Feed : u \in index[f] \/ <<u[1], "">> \in index[f]

\* URLCheck.Scan and RetroScanner.evaluate.
LiveHit(u) ==
    IF u[1] \in sharedHostingDomains THEN LookupURLExact(u) ELSE LookupURL(u)
RetroHit(u) ==
    IF u[1] \in retroSharedHostingDomains THEN LookupURLExact(u) ELSE LookupURL(u)

\* Every URL of a message on a host in the model; some of them have no path.
Seen == {<<h, p>> : h \in Host, p \in {u[2] : u \in Url} \cup {"unlisted", ""}}

------------------------------------------------------------------------------
(* Properties.                                                              *)

\* Every variable stays in its type.
TypeOK ==
    /\ list \in [Feed -> SUBSET Url]
    /\ \A f \in Feed : cache[f] \subseteq SUBSET Url
    /\ index \in [Feed -> SUBSET (Host \X ({u[2] : u \in Url} \cup {""}))]
    /\ table \subseteq 1..Batches /\ dumps \subseteq {"full", "recent"}
    /\ pc \in [Refresher -> {"idle", "get", "store", "swap", "count", "full", "recent", "stuck"}]
    /\ k \in [Refresher -> Nat]
    /\ left \in [FaultKind -> Nat] /\ spoilt \subseteq Spoilers

\* manager.go:72 "the index never silently loses entries due to a transient outage":
\* no step but a restart takes a key out of the index, whatever servers are down
\* in whatever order and whether or not there is a cache file, as long as calls of
\* Refresh do not overlap, no parser took garbage for an empty list and no cache
\* file is older than it should be. Each of these three loses entries.
NoAmnesia ==
    [][spoilt' = {} /\ ~Restart =>
            \A f \in Feed : index[f] \subseteq index'[f]]_vars

\* What the two scanners report of any URL is something a feed has listed: that
\* very URL, its bare host, or, for phishing feeds and hosts that are not on the
\* scanner's list of hosting platforms, another URL on that host. It goes
\* through the cache files, the retained keys and overlapping refreshes. A URL
\* without a path has the key of its host, so that for it LookupURLExact does fire
\* "just because a specific path on that host appeared in a feed" (manager.go:224).
HitsAreListed ==
    \A u \in Seen :
        LET byHost == {f \in HostIndexed : \E v \in list[f] : v[1] = u[1]}
            exact == {f \in Feed : u \in list[f] \/ <<u[1], "">> \in list[f]}
            Listed(platforms) ==
                exact # {} \/ (byHost # {} /\ (u[1] \notin platforms \/ u[2] = ""))
        IN  /\ LiveHit(u) => Listed(sharedHostingDomains)
            /\ RetroHit(u) => Listed(retroSharedHostingDomains)

\* Between calls, a table that is not empty has all of the first dump: only a full
\* sync fills an empty table, and a sync that finds it filling leaves it to
\* finish. A sync that fails half-way, or a crash in it, breaks this for good,
\* since the table is then not empty.
DumpIsWhole ==
    Unused({"db", "cut", "stop"}) /\ table # {} /\ (\A r \in Refresher : pc[r] = "idle")
        => table = 1..Batches

\* What a feed lists is in the index some time later, through outages, garbage,
\* lost cache files, crashes and overlapping calls, unless a dump broke off: the
\* scheduler's goroutine then reads on for ever.
EventuallyIndexed ==
    \A f \in Feed : \A u \in Offer[f] :
        u \in list[f] ~> (u \in index[f] \/ ~Unused({"cut"}))
==============================================================================
