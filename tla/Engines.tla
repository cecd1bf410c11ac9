------------------------------- MODULE Engines -------------------------------
(***************************************************************************)
(* The scanners that ask another service: VirusTotal, NRDCheck (RDAP),     *)
(* IPReputation (AbuseIPDB), ClamAV and Rspamd. A scan goes through the    *)
(* items of a message (hashes of dangerous attachments, domains, the       *)
(* sender's address, the raw message and its attachments), takes each      *)
(* answer from a cache in SQLite or from the service, and ends in the word *)
(* that Decide is given. Scans of different messages run at the same time  *)
(* and share the cache and the rate limiter.                               *)
(*                                                                         *)
(* A behaviour is about one engine. An answer is a class:                  *)
(*   unknown  404: VirusTotal has no such hash, RDAP no such domain        *)
(*   good     nothing against the item: no positives, an old domain, an    *)
(*            abuse score below 25, "stream: OK", no action                *)
(*   doubt    one positive of VirusTotal, a score below 75, add header     *)
(*   bad      three positives, a new domain, a score of 75 or more, FOUND, *)
(*            reject                                                       *)
(***************************************************************************)
EXTENDS Naturals, Sequences, FiniteSets

CONSTANTS
    Engine,       \* the engines to choose from
    Items,        \* the items of a message in the order Scan takes them
    Scan,         \* scans in progress at one time
    MaxLearnt,    \* bound on how often a service changes its mind
    Faults        \* how often each kind of fault may strike

\* down: no answer, or one the engine treats as an error
\* odd: an answer that is none but is taken for one (see Odd)
\* db: the cache cannot be written
FaultKind == {"down", "odd", "db"}

AllEngines == {"virustotal", "nrdcheck", "ipreputation", "clamav", "rspamd"}
Answers    == {"unknown", "good", "doubt", "bad"}
Words      == {"clean", "suspicious", "malicious", "skip", "error"}
Item       == {Items[k] : k \in DOMAIN Items}

ASSUME EnginesAssumption ==
    /\ Engine \subseteq AllEngines
    /\ Items \in Seq(Item) /\ Items # <<>>
    /\ \A j, k \in DOMAIN Items : Items[j] = Items[k] => j = k
    /\ MaxLearnt \in Nat
    /\ Faults \in [FaultKind -> Nat]

VARIABLES
    engine,       \* which engine this is about
    truth,        \* truth[i]: what the service answers now (external)
    cache,        \* cache[i]: {} or {[ans, fresh]}, the row and whether it is in its TTL
    tokens,       \* rate.Limiter of VirusTotal, a bucket of one
    pc, n,        \* each scan: where it is, and with which item
    got,          \* got[s][i]: the answer it has for an item, or "none", "failed"
    word,         \* its verdict, or "none"
    left,
    said,         \* said[i]: the service's last answer to a request
    overlapped    \* history: items two scans have asked for at the same time

svc   == <<truth, said, overlapped>>
scans == <<pc, n, got, word>>
engineVars == <<engine, svc, cache, tokens, scans, left>>

Spend(x) == left[x] > 0 /\ left' = [left EXCEPT ![x] = @ - 1]
Unused(K) == \A x \in K : left[x] = Faults[x]

Cached  == {"virustotal", "nrdcheck", "ipreputation"}
Single  == {"ipreputation", "rspamd"}       \* look at one item
Limited == {"virustotal"}

Possible(e) ==
    CASE e = "virustotal"   -> Answers
      [] e = "nrdcheck"     -> {"unknown", "good", "bad"}
      [] e = "clamav"       -> {"good", "bad"}
      [] OTHER              -> {"good", "doubt", "bad"}

\* The items a scan looks at.
Scope == IF engine \in Single THEN 1..1 ELSE DOMAIN Items

Blank == [i \in Item |-> "none"]

EngineInit ==
    /\ engine \in Engine 
    /\ truth \in [Item -> Possible(engine) \ {"bad"}]
    /\ cache = [i \in Item |-> {}]
    /\ tokens = 1
    /\ pc = [s \in Scan |-> "idle"] /\ n = [s \in Scan |-> 1]
    /\ got = [s \in Scan |-> Blank] /\ word = [s \in Scan |-> "none"]
    /\ left = Faults /\ said = Blank /\ overlapped = {}

------------------------------------------------------------------------------
(* The world.                                                               *)

\* A service comes to know better of an item.
Learn(i) ==
    /\ truth[i] # "bad"
    /\ Cardinality({j \in Item : truth[j] = "bad"}) < MaxLearnt
    /\ truth' = [truth EXCEPT ![i] = "bad"]
    /\ UNCHANGED <<engine, said, overlapped, cache, tokens, scans, left>>

\* A row outlives its TTL: cacheTTL, or the shorter one of an unknown item.
Expire(i) ==
    /\ \E c \in cache[i] : c.fresh
    /\ cache' = [cache EXCEPT ![i] = {[c EXCEPT !.fresh = FALSE] : c \in @}]
    /\ UNCHANGED <<engine, svc, tokens, scans, left>>

\* One token every 15 seconds.
Refill ==
    /\ engine \in Limited /\ tokens = 0
    /\ tokens' = 1
    /\ UNCHANGED <<engine, svc, cache, scans, left>>

------------------------------------------------------------------------------
(* Scan.                                                                    *)

Current(s) == Items[n[s]]

End(s, w) ==
    /\ pc' = [pc EXCEPT ![s] = "done"]
    /\ word' = [word EXCEPT ![s] = w]

\* enabled and the API key are read once, and SetEnabled may come at any time.
Begin(s) ==
    /\ pc[s] = "idle"
    /\ \/ pc' = [pc EXCEPT ![s] = "next"] /\ UNCHANGED word
       \/ End(s, "skip")
    /\ UNCHANGED <<engine, svc, cache, tokens, n, got, left>>

M_Take_NoLimit(s) ==
    /\ pc[s] = "next" /\ n[s] \in Scope
    /\ pc' = [pc EXCEPT ![s] = IF engine \in Cached THEN "look" ELSE "ask"]
    /\ tokens' = IF engine \in Limited THEN tokens - 1 ELSE tokens
    /\ UNCHANGED <<engine, svc, cache, n, got, word, left>>

\* VirusTotal takes a token for every item, cached or not, and without one
\* gives up on the whole message.
Take(s) ==
    /\ pc[s] = "next" /\ n[s] \in Scope
    /\ IF engine \in Limited /\ tokens = 0
       THEN End(s, "skip") /\ UNCHANGED tokens
       ELSE /\ pc' = [pc EXCEPT ![s] = IF engine \in Cached THEN "look" ELSE "ask"]
            /\ tokens' = IF engine \in Limited THEN tokens - 1 ELSE tokens
            /\ UNCHANGED word
    /\ UNCHANGED <<engine, svc, cache, n, got, left>>

\* The scan has this for its item, and goes to the next one. clamav stops at a hit.
Note(s, a) ==
    /\ got' = [got EXCEPT ![s][Current(s)] = a]
    /\ n' = [n EXCEPT ![s] = IF engine = "clamav" /\ a = "bad" THEN Len(Items) + 1 ELSE @ + 1]
    /\ pc' = [pc EXCEPT ![s] = "next"]
    /\ UNCHANGED word

Look(s) ==
    /\ pc[s] = "look"
    /\ LET rows == {c \in cache[Current(s)] : c.fresh} IN
       IF rows # {}
       THEN \E c \in rows : Note(s, c.ans)
       ELSE pc' = [pc EXCEPT ![s] = "ask"] /\ UNCHANGED <<n, got, word>>
    /\ UNCHANGED <<engine, svc, cache, tokens, left>>

Asking(i) == {s \in Scan : pc[s] = "write" /\ Current(s) = i}

\* The service answers a, which the engine takes for an answer.
Answered(s, a) ==
    LET i == Current(s) IN
    /\ pc[s] = "ask"
    /\ said' = [said EXCEPT ![i] = a]
    /\ overlapped' = overlapped \cup {j \in {i} : Asking(i) # {}}
    /\ IF engine \in Cached
       THEN /\ pc' = [pc EXCEPT ![s] = "write"]
            /\ got' = [got EXCEPT ![s][i] = a]
            /\ UNCHANGED <<n, word>>
       ELSE Note(s, a)
    /\ UNCHANGED <<engine, truth, cache, tokens>>

Ask(s) == Answered(s, truth[Current(s)]) /\ UNCHANGED left

\* nrdcheck takes any other status below 500, and JSON it cannot read, for a domain
\* without registration; rspamd does not look at the status, and JSON without an
\* action is no action.
OddAnswer == [nrdcheck |-> "unknown", rspamd |-> "good"]

Odd(s) ==
    /\ engine \in DOMAIN OddAnswer /\ Spend("odd")
    /\ Answered(s, OddAnswer[engine])

M_AskFails_Caches(s) ==
    /\ pc[s] = "ask" /\ Spend("down")
    /\ Note(s, "failed")
    /\ cache' = [cache EXCEPT ![Current(s)] = {[ans |-> "unknown", fresh |-> TRUE]}]
    /\ UNCHANGED <<engine, truth, said, overlapped, tokens>>

\* An error: ipreputation skips, rspamd fails, clamav fails on the raw message;
\* otherwise the item is passed over. Nothing is cached.
AskFails(s) ==
    /\ pc[s] = "ask" /\ Spend("down")
    /\ CASE engine = "ipreputation" -> End(s, "skip") /\ UNCHANGED <<n, got>>
         [] engine = "rspamd" \/ (engine = "clamav" /\ n[s] = 1)
                                     -> End(s, "error") /\ UNCHANGED <<n, got>>
         [] OTHER                    -> Note(s, "failed")
    /\ UNCHANGED <<engine, truth, said, overlapped, cache, tokens>>

\* The row is saved over the old one; an error is logged.
WriteCache(s) ==
    LET i == Current(s) IN
    /\ pc[s] = "write"
    /\ \/ cache' = [cache EXCEPT ![i] = {[ans |-> got[s][i], fresh |-> TRUE]}] /\ UNCHANGED left
       \/ Spend("db") /\ UNCHANGED cache
    /\ Note(s, got[s][i])
    /\ UNCHANGED <<engine, svc, tokens>>

With(s, a) == {i \in Item : got[s][i] = a}
Has(s, a) == With(s, a) # {}

\* totalPositives of VirusTotal, summed over the items.
Positives(s) == 3 * Cardinality(With(s, "bad")) + Cardinality(With(s, "doubt"))

M_Verdict_LastItem(s) ==
    LET a == got[s][Items[IF engine \in Single THEN 1 ELSE Len(Items)]]
    IN  CASE a = "bad" /\ engine = "nrdcheck" -> "suspicious"
          [] a = "bad" -> "malicious"
          [] a = "doubt" -> "suspicious"
          [] OTHER -> "clean"

\* The word for what the scan has got, at the end of Scan.
Verdict(s) ==
    CASE engine = "virustotal" -> (IF Positives(s) >= 3 THEN "malicious"
                                   ELSE IF Positives(s) > 0 THEN "suspicious" ELSE "clean")
      [] engine = "nrdcheck"   -> (IF Has(s, "bad") THEN "suspicious" ELSE "clean")
      [] OTHER                 -> (IF Has(s, "bad") THEN "malicious"
                                   ELSE IF Has(s, "doubt") THEN "suspicious" ELSE "clean")

Conclude(s) ==
    /\ pc[s] = "next" /\ n[s] \notin Scope
    /\ End(s, Verdict(s))
    /\ UNCHANGED <<engine, svc, cache, tokens, n, got, left>>

\* The next message.
Return(s) ==
    /\ pc[s] = "done"
    /\ pc' = [pc EXCEPT ![s] = "idle"]
    /\ n' = [n EXCEPT ![s] = 1]
    /\ got' = [got EXCEPT ![s] = Blank]
    /\ word' = [word EXCEPT ![s] = "none"]
    /\ UNCHANGED <<engine, svc, cache, tokens, left>>

EngineNext ==
    \/ \E i \in Item : Learn(i) \/ Expire(i)
    \/ Refill
    \/ \E s \in Scan :
        \/ Begin(s) \/ Take(s) \/ Look(s) \/ Ask(s) \/ Odd(s) \/ AskFails(s)
        \/ WriteCache(s) \/ Conclude(s) \/ Return(s)

EngineSpec == EngineInit /\ [][EngineNext]_engineVars

------------------------------------------------------------------------------
(* Properties.                                                              *)

\* Every variable stays in its type.
EngineTypeOK ==
    /\ engine \in Engine
    /\ truth \in [Item -> Answers] /\ said \in [Item -> Answers \cup {"none"}]
    /\ cache \in [Item -> SUBSET [ans : Answers, fresh : BOOLEAN]]
    /\ tokens \in {0, 1}
    /\ pc \in [Scan -> {"idle", "next", "look", "ask", "write", "done"}]
    /\ n \in [Scan -> 1..Len(Items) + 1]
    /\ got \in [Scan -> [Item -> Answers \cup {"none", "failed"}]]
    /\ word \in [Scan -> Words \cup {"none"}]
    /\ left \in [FaultKind -> Nat] /\ overlapped \subseteq Item

\* What a scan reports is what it has got. One bad answer is reported whatever became
\* of the other items, their lookups and other scans, but for VirusTotal out of tokens,
\* which drops what it had found and says "skip". "clean" stands on an answer that is
\* not bad for every item, if no request failed (items whose lookup failed are passed
\* over, so that "clean" may stand on nothing).
WordIsBacked ==
    \A s \in Scan : pc[s] = "done" =>
        /\ Has(s, "bad") => \/ word[s] \in {"suspicious", "malicious"}
                            \/ engine \in Limited /\ word[s] = "skip"
        /\ word[s] = "clean" /\ Unused({"down"}) =>
                \A m \in Scope : got[s][Items[m]] \in {"unknown", "good"}

\* nrdcheck.go:220 "Transient errors are not cached so the next email can retry": a
\* row holds what the service answered last, never an error, as long as two scans
\* did not ask for that item at once (the slower one may save the older answer)
\* and rows could be saved.
CacheIsLastAnswer ==
    \A i \in Item \ overlapped : \A c \in cache[i] :
        Unused({"db"}) /\ Asking(i) = {} => c.ans = said[i]
==============================================================================
