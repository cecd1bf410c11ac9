--------------------------- MODULE Verdict_proofs ---------------------------
(***************************************************************************)
(* The verdict engine for every set of results, every message and every    *)
(* pair of thresholds; the engines that ask another service, for any       *)
(* number of items and of scans at one time; and the two together: what    *)
(* Decide does about the word such an engine ends with.                    *)
(***************************************************************************)
EXTENDS Verdict, Engines, FiniteSetTheorems, TLAPS

\* What Decide was given and what it answered, once it has answered.
Given == [spam |-> read.spam.spam, reject |-> read.reject.reject]

AnswerGiven ==
    /\ results \in ResultSet
    /\ Ordered(read.spam) /\ Ordered(read.reject)
    /\ phase = "decided" => vd = Override(email, Decide(Given, email, results))

\* Only requests that passed UpdateThresholds' validation are ever half set.
PendingValid == \A a \in Admin : admin[a] # None => admin[a] \in Request /\ Valid(admin[a])

\* Each threshold in force comes from an ordered pair, if not from the same one.
InForce == Ordered(spamFrom) /\ Ordered(rejectFrom)

\* The rows hold nothing, or a pair that was accepted.
StoredWhole ==
    ~saveFailed => \/ stored = [spam |-> 0, reject |-> 0]
                   \/ 0 < stored.spam /\ stored.spam < stored.reject

IInv == TypeOK /\ PendingValid /\ InForce /\ StoredWhole /\ AnswerGiven

\* Decide returns one of seven outcomes, whatever it is given.
LEMMA DecideOutcome == \A t, e, r : Decide(t, e, r) \in Outcome
  BY Zenon DEF Decide, Outcome

\* The whitelist override keeps the outcome within the decisions and verdict
\* words the pipeline knows.
LEMMA OverrideType ==
    \A e, o : o \in Outcome =>
        Override(e, o) \in Decision \X {"CLEAN", "SPAM", "PHISH", "MALWARE", "SUSPICIOUS"}
  BY DEF Override, Outcome, Decision

\* The pair config.go validated at startup satisfies the inductive invariant.
LEMMA Initially == Init => IInv
  <1> SUFFICES ASSUME Init PROVE IInv
    BY Zenon
  <1>1. stored \in Pair /\ read \in [spam : Pair, reject : Pair]
    BY VerdictAssumption DEF Init, Pair
  <1>2. vd \in Decision \X {"CLEAN", "SPAM", "PHISH", "MALWARE", "SUSPICIOUS"}
    BY Zenon DEF Init, Decision
  <1>3. saveFailed \in BOOLEAN
    BY Zenon DEF Init
  <1>4. TypeOK
    BY <1>1, <1>2, <1>3, VerdictAssumption, Zenon DEF Init, TypeOK
  <1>5. PendingValid /\ InForce /\ StoredWhole /\ AnswerGiven
    BY VerdictAssumption, Zenon DEF Init, PendingValid, InForce, StoredWhole, AnswerGiven
  <1> QED BY <1>4, <1>5, Zenon DEF IInv

\* A score at four decimals is a score.
LEMMA FourDecimalsType == \A x \in Int : FourDecimals(x) \in Int
  BY DEF FourDecimals

\* No getter, setter, save or decision breaks the inductive invariant.
LEMMA Inductive == IInv /\ [Next]_vars => IInv'
  <1> SUFFICES ASSUME IInv, [Next]_vars PROVE IInv'
    BY Zenon
  <1> USE DEF IInv
  <1>1. CASE GetSpamScore
    BY <1>1, Zenon DEF GetSpamScore, TypeOK, PendingValid, InForce, StoredWhole, AnswerGiven
  <1>2. CASE GetRejectScoreAndDecide
    <2> DEFINE o == Decide([spam |-> read.spam.spam, reject |-> rejectFrom.reject],
                           email, results)
    <2>1. vd' = Override(email, o) /\ read' = [read EXCEPT !.reject = rejectFrom]
      BY <1>2, Zenon DEF GetRejectScoreAndDecide
    <2>2. vd' \in Decision \X {"CLEAN", "SPAM", "PHISH", "MALWARE", "SUSPICIOUS"}
      <3>1. o \in Outcome
        BY DecideOutcome, Zenon
      <3> QED BY <2>1, <3>1, OverrideType, Zenon
    <2>3. TypeOK'
      BY <1>2, <2>2, Zenon DEF GetRejectScoreAndDecide, TypeOK
    <2>4. Given' = [spam |-> read.spam.spam, reject |-> rejectFrom.reject]
      BY <2>1, Zenon DEF Given, TypeOK
    <2>5. AnswerGiven'
      <3>1. results' = results /\ email' = email
        BY <1>2, Zenon DEF GetRejectScoreAndDecide
      <3>2. Ordered(read'.spam) /\ Ordered(read'.reject)
        BY <2>1, Zenon DEF TypeOK, AnswerGiven, InForce
      <3>3. vd' = Override(email', Decide(Given', email', results'))
        BY <2>1, <2>4, <3>1, Zenon
      <3> QED BY <3>1, <3>2, <3>3, Zenon DEF AnswerGiven
    <2>6. PendingValid' /\ InForce' /\ StoredWhole'
      BY <1>2, Zenon DEF GetRejectScoreAndDecide, PendingValid, InForce, StoredWhole
    <2> QED BY <2>3, <2>5, <2>6, Zenon
  <1>3. ASSUME NEW a \in Admin, NEW c \in Request, SetSpamScore(a, c)
        PROVE  IInv'
    BY <1>3, VerdictAssumption, Zenon
    DEF SetSpamScore, scan, TypeOK, PendingValid, InForce, StoredWhole, AnswerGiven, Given, Valid
  <1>4. ASSUME NEW a \in Admin, SetRejectScore(a)
        PROVE  IInv'
    BY <1>4, VerdictAssumption, Zenon
    DEF SetRejectScore, scan, TypeOK, PendingValid, InForce, StoredWhole, AnswerGiven, Given, Valid
  <1>5. ASSUME NEW a \in Admin, Save(a) \/ SaveFails(a)
        PROVE  IInv'
    <2> DEFINE c == admin[a]
    <2>1. c \in Request /\ Valid(c) /\ c \in Pair
      BY <1>5, VerdictAssumption, Zenon DEF Save, SaveFails, PendingValid
    <2>2. /\ FourDecimals(c.spam) \in Int /\ FourDecimals(c.reject) \in Int
          /\ 0 < FourDecimals(c.spam) /\ FourDecimals(c.spam) < FourDecimals(c.reject)
      BY <2>1, FourDecimalsType, VerdictAssumption, Zenon DEF Pair
    <2>3. /\ UNCHANGED <<spamFrom, rejectFrom, scan>>
          /\ admin' = [admin EXCEPT ![a] = None] /\ step' = [step EXCEPT ![a] = "reject"]
      BY <1>5, Zenon DEF Save, SaveFails, Reply
    <2>4. PendingValid' /\ InForce' /\ AnswerGiven'
      BY <2>3, Zenon DEF PendingValid, InForce, AnswerGiven, Given, scan, TypeOK
    <2>5. stored' \in Pair
      <3>1. stored \in Pair
        BY Zenon DEF TypeOK
      <3>2. \/ stored' = stored
            \/ stored' = [spam |-> FourDecimals(c.spam), reject |-> FourDecimals(c.reject)]
            \/ stored' = [stored EXCEPT !.spam = FourDecimals(c.spam)]
            \/ stored' = [stored EXCEPT !.reject = FourDecimals(c.reject)]
        BY <1>5, Zenon DEF Save, SaveFails
      <3> QED BY <2>2, <3>1, <3>2 DEF Pair
    <2>6. TypeOK'
      <3>1. saveFailed' \in BOOLEAN
        BY <1>5, Zenon DEF Save, SaveFails, TypeOK
      <3> QED BY <2>3, <2>5, <3>1, Zenon DEF TypeOK, scan
    <2>7. StoredWhole'
      BY <1>5, <2>2 DEF Save, SaveFails, StoredWhole
    <2> QED BY <2>4, <2>6, <2>7, Zenon
  <1>6. CASE UNCHANGED vars
    BY <1>6, Zenon DEF vars, scan, TypeOK, PendingValid, InForce, StoredWhole, AnswerGiven, Given
  <1> QED BY <1>1, <1>2, <1>3, <1>4, <1>5, <1>6, Zenon DEF Next

\* The inductive invariant holds throughout.
LEMMA Invariance == Spec => []IInv
  BY Initially, Inductive, PTL DEF Spec

\* The pipeline is only handed the four decisions takeIMAPAction switches on.
THEOREM TypeCorrect == Spec => []TypeOK
  <1>1. IInv => TypeOK
    BY Zenon DEF IInv
  <1> QED BY Invariance, <1>1, PTL

\* The fail-closed block: no message passes Decide with a critical scanner down.
THEOREM CriticalErrorSafe == Spec => []CriticalErrorNeverPasses
  <1>1. IInv => CriticalErrorNeverPasses
    BY DEF IInv, AnswerGiven, CriticalErrorNeverPasses, CriticalError, Override, Decide
  <1> QED BY Invariance, <1>1, PTL

\* Every "malicious" that carries weight, an executable attachment and a score
\* at the spam threshold each keep Decide from passing the message.
THEOREM PassSafe == Spec => []PassIsEarned
  <1>1. IInv => PassIsEarned
    <2> SUFFICES ASSUME IInv, phase = "decided", ~email.whitelisted, vd[1] = "pass"
                 PROVE  /\ \A s \in Weighty : ~Says(results, s, "malicious")
                        /\ ~email.exec
                        /\ RspamdScore(results) < read.spam.spam
      BY Zenon DEF PassIsEarned
    <2>1. vd = Decide(Given, email, results)
      BY Zenon DEF IInv, AnswerGiven, Override
    <2>2. /\ ~Malware(results) /\ ~Phish(results) /\ ~Dangerous(email, results)
          /\ ~(RspamdScore(results) >= Given.spam)
      BY <2>1, Zenon DEF Decide
    <2>3. RspamdScore(results) \in Int /\ Given.spam \in Int /\ Given.spam = read.spam.spam
      BY Zenon DEF IInv, TypeOK, RspamdScore, Given, Pair, Result, Scanner
    <2>4. \A s \in Weighty : ~Says(results, s, "malicious")
      BY <2>2, VerdictAssumption, Zenon
      DEF IInv, AnswerGiven, Malware, Phish, Weighty, Scanner, VTPositives, Says
    <2> QED BY <2>2, <2>3, <2>4 DEF Dangerous
  <1> QED BY Invariance, <1>1, PTL

\* A threshold update torn by the two setters and the two getters yields a
\* decision between those of the two pairs it mixes.
THEOREM TornReadSafe == Spec => []TornReadStaysBetween
  <1>1. IInv => TornReadStaysBetween
    <2> SUFFICES ASSUME IInv, phase = "decided", ~email.whitelisted
                 PROVE  LET a == Rank(Decide(read.spam, email, results)[1])
                            b == Rank(Decide(read.reject, email, results)[1])
                            d == Rank(vd[1])
                        IN  (a <= d /\ d <= b) \/ (b <= d /\ d <= a)
      BY Zenon DEF TornReadStaysBetween
    <2>1. vd = Decide(Given, email, results)
      BY Zenon DEF IInv, AnswerGiven, Override
    <2>2. /\ Given.spam = read.spam.spam /\ Given.reject = read.reject.reject
          /\ read.spam.spam < read.spam.reject /\ read.reject.spam < read.reject.reject
          /\ read.spam.spam \in Int /\ read.spam.reject \in Int
          /\ read.reject.spam \in Int /\ read.reject.reject \in Int
          /\ RspamdScore(results) \in Int
      BY Zenon DEF IInv, TypeOK, AnswerGiven, Ordered, Given, Pair, RspamdScore, Result, Scanner
    <2> QED BY <2>1, <2>2 DEF Decide, Rank
  <1> QED BY Invariance, <1>1, PTL

\* What loadPersistedSettings would read after a crash at any moment is ordered,
\* however many UpdateThresholds requests overlap.
THEOREM RestartSafe == Spec => []RestartOrdered
  <1>1. IInv => RestartOrdered
    BY VerdictAssumption DEF IInv, TypeOK, Pair, StoredWhole, RestartOrdered, Loaded, Ordered
  <1> QED BY <1>1, Invariance, PTL

\* What changing one result leaves alone.
LEMMA InsteadOthers ==
    ASSUME NEW r \in [Scanner -> Result], NEW s \in Scanner, NEW v \in Word
    PROVE  /\ \A x \in Scanner : \A y : x # s => (Says(Instead(r, s, v), x, y) <=> Says(r, x, y))
           /\ \A y : Says(Instead(r, s, v), s, y) <=> v = y
           /\ s # "rspamd" => RspamdScore(Instead(r, s, v)) = RspamdScore(r)
           /\ s # "virustotal" => VTPositives(Instead(r, s, v)) = VTPositives(r)
           /\ s = "virustotal" /\ v = "malicious" => VTPositives(Instead(r, s, v)) = 3
           /\ RspamdScore(r) \in Int /\ VTPositives(r) \in Int
  BY DEF Instead, Says, RspamdScore, VTPositives, Scanner, Result

\* One more "malicious" never lowers the decision.
LEMMA MaliciousNeverLowers ==
    ASSUME NEW t \in Pair, NEW e \in EmailType, NEW r \in [Scanner -> Result],
           NEW s \in Weighty
    PROVE  Rank(Decide(t, e, Instead(r, s, "malicious"))[1]) >= Rank(Decide(t, e, r)[1])
  <1> DEFINE q == Instead(r, s, "malicious")
  <1> HIDE DEF q
  <1>1. /\ \A x \in Scanner : \A y : x # s => (Says(q, x, y) <=> Says(r, x, y))
        /\ Says(q, s, "malicious")
        /\ RspamdScore(q) = RspamdScore(r)
        /\ s # "virustotal" => VTPositives(q) = VTPositives(r)
        /\ s = "virustotal" => VTPositives(q) = 3
        /\ RspamdScore(r) \in Int /\ VTPositives(r) \in Int
    <2>1. s \in Scanner /\ "malicious" \in Word /\ s # "rspamd"
      BY Zenon DEF Weighty, Scanner, Word
    <2> QED BY <2>1, InsteadOthers DEF q
  <1>2. Rank(Decide(t, e, r)[1]) \in 0..3
    BY DEF Rank, Decide
  <1>3. CASE s \in {"clamav", "yara", "virustotal", "malwarebazaar", "ipreputation"}
    <2>1. Malware(q)
      BY <1>1, <1>3 DEF Malware
    <2>2. Rank(Decide(t, e, q)[1]) = 3
      BY <2>1, Zenon DEF Decide, Rank
    <2> QED BY <1>2, <2>2 DEF q
  <1>4. CASE s \in {"urlcheck", "urlunshorten", "onnx"}
    <2>1. Phish(q)
      BY <1>1, <1>4, Zenon DEF Phish
    <2>2. Malware(q) <=> Malware(r)
      BY <1>1, <1>4, Zenon DEF Malware, Scanner
    <2>3. t.reject \in Int
      BY Zenon DEF Pair
    <2> QED BY <1>1, <2>1, <2>2, <2>3 DEF Decide, Rank, q
  <1> QED BY <1>3, <1>4, Zenon DEF Weighty, Scanner

\* One more "suspicious", of an engine that did not say "malicious", never lowers
\* the decision while every critical scanner ran. (With one down it can: the
\* fail-closed quarantine of verdict.go:220 gives way to a flag.)
LEMMA SuspiciousNeverLowers ==
    ASSUME NEW t \in Pair, NEW e \in EmailType, NEW r \in [Scanner -> Result],
           NEW s \in Hinting, ~Says(r, s, "malicious"), ~CriticalError(r)
    PROVE  Rank(Decide(t, e, Instead(r, s, "suspicious"))[1]) >= Rank(Decide(t, e, r)[1])
  <1> DEFINE q == Instead(r, s, "suspicious")
  <1> HIDE DEF q
  <1>1. /\ \A x \in Scanner : \A y : x # s => (Says(q, x, y) <=> Says(r, x, y))
        /\ Says(q, s, "suspicious") /\ ~Says(q, s, "malicious")
        /\ RspamdScore(q) = RspamdScore(r) /\ VTPositives(q) = VTPositives(r)
        /\ RspamdScore(r) \in Int /\ VTPositives(r) \in Int
    <2>1. /\ s \in Scanner /\ "suspicious" \in Word
          /\ s # "rspamd" /\ s # "virustotal" /\ "suspicious" # "malicious"
      BY Zenon DEF Hinting, Scanner, Word
    <2> QED BY <2>1, InsteadOthers DEF q
  <1>2. Malware(q) <=> Malware(r)
    BY <1>1, Zenon DEF Malware, Scanner, Hinting
  <1>3. Phish(q) <=> Phish(r)
    BY <1>1, Zenon DEF Phish, Scanner, Hinting
  <1>4. Dangerous(e, r) => Dangerous(e, q)
    BY <1>1, Zenon DEF Dangerous, NRDHit, Scanner, Hinting
  <1>5. Reasons(e, r) \subseteq Reasons(e, q)
    <2> SUFFICES ASSUME NEW x \in Reasons(e, r) PROVE x \in Reasons(e, q)
      BY Zenon
    <2>1. Says(r, "ipreputation", "suspicious") => Says(q, "ipreputation", "suspicious")
      BY <1>1, Zenon DEF Scanner, Hinting
    <2>2. NRDHit(r) => NRDHit(q)
      BY <1>1, Zenon DEF NRDHit, Scanner, Hinting
    <2>3. Says(r, "hiddentextdetect", "suspicious") => Says(q, "hiddentextdetect", "suspicious")
      BY <1>1, Zenon DEF Scanner, Hinting
    <2> QED BY <1>1, <2>1, <2>2, <2>3, Zenon DEF Reasons
  <1>6. SeveralReasons(e, r) => SeveralReasons(e, q)
    BY <1>5, Zenon DEF SeveralReasons
  <1>7. t.reject \in Int /\ t.spam \in Int
    BY Zenon DEF Pair
  <1> QED BY <1>1, <1>2, <1>3, <1>4, <1>5, <1>6, <1>7 DEF Decide, Rank, q

\* Evidence is monotone: the order of Decide's early returns never lets a further
\* finding soften the decision.
THEOREM EvidenceMonotone == Spec => []MoreEvidenceNeverLowers
  <1>1. IInv => MoreEvidenceNeverLowers
    <2> SUFFICES ASSUME IInv, phase = "decided", ~email.whitelisted
                 PROVE  /\ \A s \in Weighty :
                              Rank(Decide(Given, email, Instead(results, s, "malicious"))[1])
                                  >= Rank(vd[1])
                        /\ \A s \in Hinting :
                              ~Says(results, s, "malicious") /\ ~CriticalError(results)
                                  => Rank(Decide(Given, email,
                                                 Instead(results, s, "suspicious"))[1])
                                         >= Rank(vd[1])
      BY Zenon DEF MoreEvidenceNeverLowers, Given
    <2>1. vd = Decide(Given, email, results)
      BY Zenon DEF IInv, AnswerGiven, Override
    <2>2. Given \in Pair /\ email \in EmailType /\ results \in [Scanner -> Result]
      BY Zenon DEF IInv, TypeOK, Given, Pair
    <2> QED BY <2>1, <2>2, MaliciousNeverLowers, SuspiciousNeverLowers, Zenon
  <1> QED BY Invariance, <1>1, PTL

------------------------------------------------------------------------------
(* The engines that ask another service, whose words are among the results   *)
(* Decide is given.                                                         *)

\* Answers are the engine's own, wherever they are kept, and only an engine with a
\* cache has rows.
OwnAnswers ==
    /\ truth \in [Item -> Possible(engine)]
    /\ \A i \in Item : \A c \in cache[i] : engine \in Cached /\ c.ans \in Possible(engine)
    /\ \A s \in Scan : \A i \in Item :
          got[s][i] \in Possible(engine) \cup {"none", "failed"}
    /\ \A x \in FaultKind : left[x] <= Faults[x]

\* A scan that is busy with an item is within its scope, and has an answer when it
\* is about to save one.
InScope(s) ==
    /\ pc[s] \in {"look", "ask", "write"} => n[s] \in Scope
    /\ pc[s] \in {"look", "write"} => engine \in Cached
    /\ pc[s] = "write" => got[s][Items[n[s]]] \in Possible(engine)
    /\ pc[s] = "idle" => n[s] = 1

\* A scan has nothing yet for the items ahead of it, and something for each one behind
\* it, if clamav did not stop at a hit.
Behind(s) ==
    /\ \A m \in DOMAIN Items :
          m > n[s] \/ (m = n[s] /\ pc[s] # "write") => got[s][Items[m]] = "none"
    /\ \A m \in Scope : m < n[s] /\ got[s][Items[m]] = "none" => Has(s, "bad")
    /\ \A i \in Item : got[s][i] = "failed" => ~Unused({"down"})

\* Where the word of a finished scan comes from.
Ended(s) ==
    pc[s] = "done" =>
        \/ word[s] = "skip" /\ (Has(s, "bad") => engine \in Limited)
        \/ word[s] = "error" /\ ~Has(s, "bad")
        \/ word[s] = Verdict(s) /\ n[s] \notin Scope

\* Of an item nobody asked for twice at once, the one scan that is about to save an
\* answer has the last one.
OneWriter ==
    \A i \in Item \ overlapped :
        /\ \A s, t \in Asking(i) : s = t
        /\ \A s \in Asking(i) : got[s][i] = said[i]

ScanInv == \A s \in Scan : InScope(s) /\ Behind(s) /\ Ended(s)

EInv == EngineTypeOK /\ OwnAnswers /\ ScanInv /\ OneWriter /\ CacheIsLastAnswer

\* Items is a sequence without repetitions.
LEMMA ItemFacts ==
    /\ Len(Items) \in Nat /\ Len(Items) >= 1 /\ DOMAIN Items = 1..Len(Items)
    /\ \A k \in DOMAIN Items : Items[k] \in Item
    /\ \A i \in Item : \E k \in DOMAIN Items : i = Items[k]
    /\ \A j, k \in DOMAIN Items : Items[j] = Items[k] => j = k
    /\ IsFiniteSet(Item)
  <1>1. Items \in Seq(Item) /\ Items # <<>>
    BY Zenon, EnginesAssumption
  <1>2. Len(Items) \in Nat /\ DOMAIN Items = 1..Len(Items) /\ Len(Items) >= 1
    BY <1>1
  <1>3. \A i \in Item : \E k \in 1..Len(Items) : Items[k] = i
    BY <1>2, Zenon DEF Item
  <1>4. IsFiniteSet(Item)
    BY <1>1, <1>3, Zenon DEF IsFiniteSet
  <1> QED BY <1>1, <1>2, <1>3, <1>4, Zenon, EnginesAssumption DEF Item

\* Every answer of an engine is an answer, and bad is one of each.
LEMMA PossibleFacts ==
    \A e : /\ Possible(e) \subseteq Answers /\ "bad" \in Possible(e)
           /\ "none" \notin Possible(e) /\ "failed" \notin Possible(e)
           /\ "doubt" \in Possible(e) => e # "nrdcheck"
           /\ e \in DOMAIN OddAnswer => OddAnswer[e] \in Possible(e)
  BY DEF Possible, Answers, OddAnswer

\* A new engine has asked for nothing.
LEMMA EInitially == EngineInit => EInv
  <1> SUFFICES ASSUME EngineInit PROVE EInv
    BY Zenon
  <1> USE DEF EngineInit
  <1>1. EngineTypeOK
    BY ItemFacts, PossibleFacts, EnginesAssumption DEF EngineTypeOK, Blank, Words, Answers
  <1>2. OwnAnswers
    BY PossibleFacts, EnginesAssumption DEF OwnAnswers, Blank
  <1>3. ScanInv
    BY ItemFacts DEF ScanInv, InScope, Behind, Ended, Blank, Scope
  <1>4. OneWriter /\ CacheIsLastAnswer
    BY Zenon DEF OneWriter, CacheIsLastAnswer, Asking
  <1> QED BY <1>1, <1>2, <1>3, <1>4, Zenon DEF EInv

\* Faults are never given back.
LEMMA FaultsStay ==
    ASSUME left \in [FaultKind -> Nat], \A x \in FaultKind : left[x] <= Faults[x],
           left' = left \/ \E x \in FaultKind : Spend(x)
    PROVE  /\ left' \in [FaultKind -> Nat] /\ \A x \in FaultKind : left'[x] <= Faults[x]
           /\ \A x \in FaultKind : Unused({x})' => Unused({x})
           /\ \A x \in FaultKind : Spend(x) => ~Unused({x})'
  BY EnginesAssumption DEF Spend, Unused

\* What is said of a scan stays true while the others move.
LEMMA OthersKeep ==
    ASSUME NEW s \in Scan, engine' = engine,
           Unused({"down"})' => Unused({"down"}),
           pc'[s] = pc[s], n'[s] = n[s], got'[s] = got[s], word'[s] = word[s],
           InScope(s), Behind(s), Ended(s)
    PROVE  InScope(s)' /\ Behind(s)' /\ Ended(s)'
  <1>1. Scope' = Scope
    BY Zenon DEF Scope
  <1>2. \A a : With(s, a)' = With(s, a)
    BY Zenon DEF With
  <1>3. /\ Has(s, "bad")' <=> Has(s, "bad")
        /\ Has(s, "doubt")' <=> Has(s, "doubt")
        /\ Positives(s)' = Positives(s)
    BY <1>2 DEF Has, Positives
  <1>4. Verdict(s)' = Verdict(s)
    BY <1>3, Zenon DEF Verdict
  <1> QED BY <1>1, <1>3, <1>4, Zenon DEF InScope, Behind, Ended

\* The moves of one scan.
Stays(s) ==
    /\ pc' \in [Scan -> {"idle", "next", "look", "ask", "write", "done"}]
    /\ n' \in [Scan -> 1..Len(Items) + 1]
    /\ got' \in [Scan -> [Item -> Answers \cup {"none", "failed"}]]
    /\ word' \in [Scan -> Words \cup {"none"}]
    /\ \A t \in Scan \ {s} : /\ pc'[t] = pc[t] /\ n'[t] = n[t]
                             /\ got'[t] = got[t] /\ word'[t] = word[t]

\* The item of a scan that is busy with one.
LEMMA CurrentItem ==
    ASSUME EngineTypeOK, NEW s \in Scan, InScope(s),
           pc[s] \in {"look", "ask", "write"}
    PROVE  /\ n[s] \in DOMAIN Items /\ n[s] \in Scope /\ n[s] \in Nat
           /\ Current(s) = Items[n[s]] /\ Current(s) \in Item
  BY ItemFacts DEF InScope, Scope, Current

\* A scan that has an answer a, or "failed", for its item goes to the next one.
LEMMA NoteKeeps ==
    ASSUME EngineTypeOK, NEW s \in Scan, NEW a,
           InScope(s), Behind(s), engine' = engine,
           pc[s] \in {"look", "ask", "write"}, Note(s, a),
           a \in Possible(engine) \cup {"failed"},
           pc[s] = "write" => a = got[s][Current(s)],
           a = "failed" => ~Unused({"down"})',
           Unused({"down"})' => Unused({"down"})
    PROVE  /\ Stays(s) /\ pc'[s] = "next"
           /\ got'[s] = [got[s] EXCEPT ![Current(s)] = a]
           /\ InScope(s)' /\ Behind(s)' /\ Ended(s)'
  <1> DEFINE i == Current(s)
  <1>1. n[s] \in DOMAIN Items /\ n[s] \in Scope /\ n[s] \in Nat /\ i = Items[n[s]] /\ i \in Item
    BY CurrentItem, Zenon
  <1>2. a \in Answers \cup {"failed"} /\ a # "none"
    BY PossibleFacts, Zenon
  <1>3. /\ got' = [got EXCEPT ![s] = [got[s] EXCEPT ![i] = a]]
        /\ n' = [n EXCEPT ![s] = IF engine = "clamav" /\ a = "bad" THEN Len(Items) + 1
                                                                   ELSE n[s] + 1]
        /\ pc' = [pc EXCEPT ![s] = "next"] /\ word' = word
    BY Zenon DEF Note
  <1> HIDE DEF i
  <1>4. Stays(s)
    BY <1>1, <1>2, <1>3, ItemFacts DEF Stays, EngineTypeOK
  <1>5. pc'[s] = "next" /\ got'[s] = [got[s] EXCEPT ![i] = a]
    BY <1>3, Zenon DEF EngineTypeOK
  <1>6. Scope' = Scope
    BY Zenon DEF Scope
  <1>7. InScope(s)' /\ Ended(s)'
    BY <1>5, Zenon DEF InScope, Ended
  <1>8. /\ n'[s] = IF engine = "clamav" /\ a = "bad" THEN Len(Items) + 1 ELSE n[s] + 1
        /\ \A j \in Item : got'[s][j] = IF j = i THEN a ELSE got[s][j]
    BY <1>1, <1>3, Zenon DEF EngineTypeOK
  <1>9. pc[s] # "write" => got[s][i] = "none"
    BY <1>1, Zenon DEF Behind
  <1>10. Has(s, "bad") \/ a = "bad" => Has(s, "bad")'
    BY <1>1, <1>8, <1>9 DEF Has, With, i
  <1>11. ASSUME NEW m \in DOMAIN Items, m >= n'[s] PROVE got'[s][Items[m]] = "none"
    <2>1. m \in Nat /\ m > n[s]
      BY <1>1, <1>8, <1>11, ItemFacts
    <2>2. got[s][Items[m]] = "none" /\ Items[m] # i /\ Items[m] \in Item
      BY <1>1, <2>1, ItemFacts DEF Behind
    <2> QED BY <1>8, <2>2, Zenon
  <1>12. ASSUME NEW m \in Scope, m < n'[s], got'[s][Items[m]] = "none"
         PROVE  Has(s, "bad")'
    <2>1. m \in DOMAIN Items /\ m \in Nat /\ Items[m] \in Item
      BY ItemFacts DEF Scope
    <2>2. CASE a = "bad"
      BY <1>10, <2>2, Zenon
    <2>3. CASE a # "bad"
      <3>1. Items[m] # i
        BY <1>2, <1>8, <1>12, <2>1, Zenon
      <3>2. m < n[s] /\ got[s][Items[m]] = "none"
        BY <1>1, <1>8, <1>12, <2>1, <2>3, <3>1
      <3> QED BY <1>10, <3>2, Zenon DEF Behind
    <2> QED BY <2>2, <2>3, Zenon
  <1>13. ASSUME NEW j \in Item, got'[s][j] = "failed" PROVE ~Unused({"down"})'
    BY <1>8, <1>13, Zenon DEF Behind
  <1>14. n'[s] \in Nat
    BY <1>4 DEF Stays
  <1>15. Behind(s)'
    <2>1. \A m \in DOMAIN Items : m > n'[s] \/ m = n'[s] => m >= n'[s]
      BY <1>14, ItemFacts
    <2> QED BY <1>6, <1>11, <1>12, <1>13, <2>1, Zenon DEF Behind
  <1> QED BY <1>4, <1>5, <1>7, <1>15, Zenon DEF i

\* A scan that stops with the word w.
LEMMA EndKeeps ==
    ASSUME EngineTypeOK, NEW s \in Scan, NEW w \in Words,
           InScope(s), Behind(s), engine' = engine, n' = n, got' = got,
           End(s, w), Unused({"down"})' => Unused({"down"}), pc[s] # "write",
           \/ w = "skip" /\ (Has(s, "bad") => engine \in Limited)
           \/ w = "error" /\ ~Has(s, "bad")
           \/ w = Verdict(s) /\ n[s] \notin Scope
    PROVE  Stays(s) /\ InScope(s)' /\ Behind(s)' /\ Ended(s)'
  <1>1. pc' = [pc EXCEPT ![s] = "done"] /\ word' = [word EXCEPT ![s] = w]
    BY Zenon DEF End
  <1>2. Stays(s) /\ pc'[s] = "done" /\ word'[s] = w
    BY <1>1, Zenon DEF Stays, EngineTypeOK
  <1>3. Scope' = Scope
    BY Zenon DEF Scope
  <1>4. /\ Has(s, "bad")' <=> Has(s, "bad")
        /\ Verdict(s)' = Verdict(s)
    BY Zenon DEF Has, With, Verdict, Positives
  <1>5. InScope(s)' /\ Behind(s)'
    BY <1>2, <1>3, <1>4, Zenon DEF InScope, Behind
  <1>6. Ended(s)'
    BY <1>2, <1>3, <1>4, Zenon DEF Ended
  <1> QED BY <1>2, <1>5, <1>6, Zenon

\* A scan with no answer yet has no bad one.
LEMMA NothingYet ==
    ASSUME EngineTypeOK, NEW s \in Scan, Behind(s), n[s] = 1, pc[s] # "write"
    PROVE  ~Has(s, "bad")
  <1> SUFFICES ASSUME NEW i \in Item, got[s][i] = "bad" PROVE FALSE
    BY Zenon DEF Has, With
  <1>1. PICK k \in DOMAIN Items : i = Items[k]
    BY ItemFacts, Zenon
  <1>2. k > n[s] \/ k = n[s]
    BY ItemFacts
  <1> QED BY <1>1, <1>2, Zenon DEF Behind

\* What an engine's scan keeps in each of its steps: its own books.
LEMMA ScanKeeps ==
    ASSUME EngineTypeOK, OwnAnswers, ScanInv, NEW s \in Scan,
           \/ Begin(s) \/ Take(s) \/ Look(s) \/ Ask(s) \/ Odd(s) \/ AskFails(s)
           \/ WriteCache(s) \/ Conclude(s) \/ Return(s)
    PROVE  /\ engine' = engine /\ truth' = truth
           /\ left' = left \/ \E x \in FaultKind : Spend(x)
           /\ Stays(s) /\ InScope(s)' /\ Behind(s)' /\ Ended(s)'
           /\ \A i \in Item : got'[s][i] \in Possible(engine) \cup {"none", "failed"}
  <1>0. InScope(s) /\ Behind(s) /\ Ended(s)
    BY Zenon DEF ScanInv
  <1>1. engine' = engine /\ truth' = truth
    BY Zenon DEF Begin, Take, Look, Ask, Odd, Answered, AskFails, WriteCache,
           Conclude, Return, svc
  <1>2. left' = left \/ \E x \in FaultKind : Spend(x)
    <2>1. Odd(s) => Spend("odd")
      BY Zenon DEF Odd
    <2>2. AskFails(s) => Spend("down")
      BY Zenon DEF AskFails
    <2>3. WriteCache(s) => left' = left \/ Spend("db")
      BY Zenon DEF WriteCache
    <2>4. Begin(s) \/ Take(s) \/ Look(s) \/ Ask(s) \/ Conclude(s) \/ Return(s)
            => left' = left
      BY Zenon DEF Begin, Take, Look, Ask, Conclude, Return
    <2> QED BY <2>1, <2>2, <2>3, <2>4, Zenon DEF FaultKind
  <1>3. /\ Unused({"down"})' => Unused({"down"})
        /\ Spend("down") => ~Unused({"down"})'
    BY <1>2, FaultsStay, Zenon DEF OwnAnswers, EngineTypeOK, FaultKind
  <1>4. Scope' = Scope
    BY <1>1, Zenon DEF Scope
  <1> DEFINE Own == \A i \in Item : got'[s][i] \in Possible(engine) \cup {"none", "failed"}
             Goal == Stays(s) /\ InScope(s)' /\ Behind(s)' /\ Ended(s)' /\ Own
  <1> SUFFICES Goal
    BY <1>1, <1>2, Zenon
  <1>5. got' = got => Own
    BY Zenon DEF OwnAnswers
  \* from "next" or "look" the scan goes on, with the same answers
  <1>6. ASSUME n' = n, got' = got, word' = word, pc[s] # "write",
               NEW p \in {"next", "look", "ask"}, pc' = [pc EXCEPT ![s] = p],
               p \in {"look", "ask"} => n[s] \in Scope,
               p = "look" => engine \in Cached
        PROVE  Goal
    <2>1. Stays(s) /\ pc'[s] = p
      BY <1>6, Zenon DEF Stays, EngineTypeOK
    <2>2. Has(s, "bad")' <=> Has(s, "bad")
      BY <1>6, Zenon DEF Has, With
    <2>3. InScope(s)' /\ Ended(s)'
      BY <1>1, <1>4, <1>6, <2>1, Zenon DEF InScope, Ended
    <2>4. Behind(s)'
      BY <1>0, <1>3, <1>4, <1>6, <2>1, <2>2, Zenon DEF Behind
    <2> QED BY <1>5, <1>6, <2>1, <2>3, <2>4, Zenon
  <1>7. ASSUME NEW w \in Words, n' = n, got' = got, End(s, w), pc[s] # "write",
               \/ w = "skip" /\ (Has(s, "bad") => engine \in Limited)
               \/ w = "error" /\ ~Has(s, "bad")
               \/ w = Verdict(s) /\ n[s] \notin Scope
        PROVE  Goal
    BY <1>0, <1>1, <1>3, <1>5, <1>7, EndKeeps, Zenon
  <1>8. ASSUME NEW a \in Possible(engine) \cup {"failed"}, Note(s, a),
               pc[s] \in {"look", "ask", "write"},
               pc[s] = "write" => a = got[s][Current(s)],
               a = "failed" => ~Unused({"down"})'
        PROVE  Goal
    <2>1. /\ Stays(s) /\ InScope(s)' /\ Behind(s)' /\ Ended(s)'
          /\ got'[s] = [got[s] EXCEPT ![Current(s)] = a]
      BY <1>0, <1>1, <1>3, <1>8, NoteKeeps, Zenon
    <2>2. got[s] \in [Item -> Answers \cup {"none", "failed"}]
      BY Zenon DEF EngineTypeOK
    <2>3. Own
      BY <1>8, <2>1, <2>2, Zenon DEF OwnAnswers
    <2> QED BY <2>1, <2>3, Zenon
  <1>9. CASE Begin(s)
    <2>1. /\ pc[s] = "idle" /\ n' = n /\ got' = got
          /\ (pc' = [pc EXCEPT ![s] = "next"] /\ word' = word) \/ End(s, "skip")
      BY <1>9, Zenon DEF Begin
    <2>2. ~Has(s, "bad")
      BY <1>0, <2>1, NothingYet, Zenon DEF InScope
    <2> QED BY <1>6, <1>7, <2>1, <2>2, Zenon DEF Words
  <1>10. CASE Take(s)
    <2>1. /\ pc[s] = "next" /\ n[s] \in Scope /\ n' = n /\ got' = got
          /\ \/ engine \in Limited /\ End(s, "skip")
             \/ /\ pc' = [pc EXCEPT ![s] = IF engine \in Cached THEN "look" ELSE "ask"]
                /\ word' = word
      BY <1>10, Zenon DEF Take
    <2> QED BY <1>6, <1>7, <2>1, Zenon DEF Words
  <1>11. CASE Look(s)
    <2>1. PICK i : i = Current(s)
      BY Zenon
    <2>2. pc[s] = "look" /\ i \in Item /\ n[s] \in Scope
      BY <1>0, <1>11, <2>1, CurrentItem, Zenon DEF Look
    <2>3. \/ \E c \in cache[i] : Note(s, c.ans)
          \/ pc' = [pc EXCEPT ![s] = "ask"] /\ n' = n /\ got' = got /\ word' = word
      BY <1>11, <2>1, Zenon DEF Look
    <2>4. \A c \in cache[i] : c.ans \in Possible(engine)
      BY <2>2, Zenon DEF OwnAnswers
    <2>5. "failed" \notin Possible(engine)
      BY PossibleFacts, Zenon
    <2> QED BY <1>6, <1>8, <2>2, <2>3, <2>4, <2>5, Zenon
  <1>12. ASSUME NEW a \in Possible(engine), Answered(s, a) PROVE Goal
    <2>1. PICK i : i = Current(s)
      BY Zenon
    <2>2. pc[s] = "ask" /\ i \in Item /\ n[s] \in Scope /\ n[s] \in DOMAIN Items
          /\ i = Items[n[s]] /\ n[s] \in Nat
      BY <1>0, <1>12, <2>1, CurrentItem, Zenon DEF Answered
    <2>3. a # "failed" /\ a # "none" /\ a \in Answers
      BY PossibleFacts, Zenon
    <2>4. CASE engine \notin Cached
      BY <1>8, <1>12, <2>2, <2>3, <2>4, Zenon DEF Answered
    <2>5. CASE engine \in Cached
      <3>1. /\ pc' = [pc EXCEPT ![s] = "write"] /\ n' = n /\ word' = word
            /\ got' = [got EXCEPT ![s] = [got[s] EXCEPT ![i] = a]]
        BY <1>12, <2>1, <2>5, Zenon DEF Answered
      <3>2. Stays(s) /\ pc'[s] = "write"
        BY <2>2, <2>3, <3>1, Zenon DEF Stays, EngineTypeOK
      <3>3. \A j \in Item : got'[s][j] = IF j = i THEN a ELSE got[s][j]
        BY <2>2, <3>1, Zenon DEF EngineTypeOK
      <3>4. got[s][i] = "none"
        BY <1>0, <2>2, Zenon DEF Behind
      <3>5. Has(s, "bad") => Has(s, "bad")'
        BY <3>3, <3>4, Zenon DEF Has, With
      <3>6. Own
        BY <3>3, Zenon DEF OwnAnswers
      <3>7. InScope(s)' /\ Ended(s)'
        BY <1>1, <1>4, <2>2, <2>5, <3>1, <3>2, <3>3, Zenon DEF InScope, Ended
      <3>8. ASSUME NEW m \in DOMAIN Items, m > n'[s] PROVE got'[s][Items[m]] = "none"
        <4>1. Items[m] # i /\ Items[m] \in Item
          BY <2>2, <3>1, <3>8, ItemFacts
        <4> QED BY <1>0, <3>1, <3>3, <3>8, <4>1, Zenon DEF Behind
      <3>9. ASSUME NEW m \in Scope, m < n'[s], got'[s][Items[m]] = "none"
            PROVE  Has(s, "bad")'
        <4>1. m \in DOMAIN Items /\ Items[m] \in Item
          BY ItemFacts DEF Scope
        <4>2. got[s][Items[m]] = "none" /\ m < n[s]
          BY <2>3, <3>1, <3>3, <3>9, <4>1, Zenon
        <4> QED BY <1>0, <3>5, <4>2, Zenon DEF Behind
      <3>10. \A j \in Item : got'[s][j] = "failed" => ~Unused({"down"})'
        BY <1>0, <1>3, <2>3, <3>3, Zenon DEF Behind
      <3>11. Behind(s)'
        BY <1>4, <3>2, <3>8, <3>9, <3>10, Zenon DEF Behind
      <3> QED BY <3>2, <3>6, <3>7, <3>11, Zenon
    <2> QED BY <2>4, <2>5, Zenon
  <1>13. CASE Ask(s)
    <2>1. Answered(s, truth[Current(s)]) /\ pc[s] = "ask"
      BY <1>13, Zenon DEF Ask, Answered
    <2>2. truth[Current(s)] \in Possible(engine)
      BY <1>0, <2>1, CurrentItem, Zenon DEF OwnAnswers
    <2> QED BY <1>12, <2>1, <2>2, Zenon
  <1>14. CASE Odd(s)
    BY <1>12, <1>14, PossibleFacts, Zenon DEF Odd
  <1>15. CASE AskFails(s)
    <2>1. pc[s] = "ask" /\ Spend("down")
      BY <1>15, Zenon DEF AskFails
    <2>2. \/ End(s, "skip") /\ n' = n /\ got' = got /\ engine = "ipreputation"
          \/ End(s, "error") /\ n' = n /\ got' = got /\ (engine = "rspamd" \/ n[s] = 1)
          \/ Note(s, "failed")
      BY <1>15, Zenon DEF AskFails
    <2>3. engine \in {"ipreputation", "rspamd"} => n[s] = 1
      <3>1. n[s] \in Scope
        BY <1>0, <2>1, CurrentItem, Zenon
      <3>2. engine \in {"ipreputation", "rspamd"} => Scope = 1..1
        BY Zenon DEF Scope, Single
      <3> QED BY <3>1, <3>2
    <2>4. n[s] = 1 => ~Has(s, "bad")
      BY <1>0, <2>1, NothingYet, Zenon
    <2> QED BY <1>3, <1>7, <1>8, <2>1, <2>2, <2>3, <2>4, Zenon DEF Words
  <1>16. CASE WriteCache(s)
    <2>1. pc[s] = "write" /\ Note(s, got[s][Current(s)])
      BY <1>16, Zenon DEF WriteCache
    <2>2. got[s][Current(s)] \in Possible(engine)
      BY <1>0, <2>1, CurrentItem, Zenon DEF InScope
    <2>3. got[s][Current(s)] # "failed"
      BY <2>2, PossibleFacts, Zenon
    <2> QED BY <1>8, <2>1, <2>2, <2>3, Zenon
  <1>17. CASE Conclude(s)
    <2>1. /\ pc[s] = "next" /\ n[s] \notin Scope /\ n' = n /\ got' = got
          /\ End(s, Verdict(s))
      BY <1>17, Zenon DEF Conclude
    <2>2. Verdict(s) \in Words
      BY Zenon DEF Verdict, Words
    <2> QED BY <1>7, <2>1, <2>2, Zenon
  <1>18. CASE Return(s)
    <2>1. /\ pc' = [pc EXCEPT ![s] = "idle"] /\ n' = [n EXCEPT ![s] = 1]
          /\ got' = [got EXCEPT ![s] = Blank] /\ word' = [word EXCEPT ![s] = "none"]
      BY <1>18, Zenon DEF Return
    <2>2. Stays(s) /\ pc'[s] = "idle" /\ n'[s] = 1 /\ \A i \in Item : got'[s][i] = "none"
      BY <2>1, ItemFacts DEF Stays, EngineTypeOK, Blank
    <2>3. InScope(s)' /\ Ended(s)' /\ Own
      BY <2>2, Zenon DEF InScope, Ended
    <2>4. Behind(s)'
      BY <2>2, ItemFacts DEF Behind, Scope
    <2> QED BY <2>2, <2>3, <2>4, Zenon
  <1> QED BY <1>9, <1>10, <1>11, <1>13, <1>14, <1>15, <1>16, <1>17, <1>18, Zenon

\* A step in which no scan starts or finishes saving leaves the savers as they are.
LEMMA SameSavers ==
    ASSUME NEW s \in Scan, Stays(s), pc[s] # "write", pc'[s] # "write"
    PROVE  /\ \A i : Asking(i)' = Asking(i)
           /\ \A i : \A t \in Asking(i) : got'[t] = got[t]
  <1>1. \A t \in Scan : pc[t] = "write" \/ pc'[t] = "write" =>
            /\ pc'[t] = pc[t] /\ n'[t] = n[t] /\ got'[t] = got[t]
    BY Zenon DEF Stays
  <1> QED BY <1>1, Zenon DEF Asking, Current

\* The rows and what the service said, in every step of a scan.
LEMMA CacheKeeps ==
    ASSUME EInv, NEW s \in Scan, Stays(s), engine' = engine,
           Unused({"db"})' => Unused({"db"}),
           Spend("db") => ~Unused({"db"})',
           \/ Begin(s) \/ Take(s) \/ Look(s) \/ Ask(s) \/ Odd(s) \/ AskFails(s)
           \/ WriteCache(s) \/ Conclude(s) \/ Return(s)
    PROVE  /\ cache' \in [Item -> SUBSET [ans : Answers, fresh : BOOLEAN]]
           /\ \A i \in Item : \A c \in cache'[i] :
                 engine \in Cached /\ c.ans \in Possible(engine)
           /\ said' \in [Item -> Answers \cup {"none"}] /\ tokens' \in {0, 1}
           /\ overlapped' \subseteq Item
           /\ OneWriter' /\ CacheIsLastAnswer'
  <1>0. InScope(s) /\ \A t \in Scan : InScope(t)
    BY Zenon DEF EInv, ScanInv
  <1> DEFINE Goal == /\ cache' \in [Item -> SUBSET [ans : Answers, fresh : BOOLEAN]]
                     /\ \A i \in Item : \A c \in cache'[i] :
                           engine \in Cached /\ c.ans \in Possible(engine)
                     /\ said' \in [Item -> Answers \cup {"none"}] /\ tokens' \in {0, 1}
                     /\ overlapped' \subseteq Item
                     /\ OneWriter' /\ CacheIsLastAnswer'
  <1> SUFFICES Goal
    BY Zenon
  <1>1. /\ cache \in [Item -> SUBSET [ans : Answers, fresh : BOOLEAN]]
        /\ \A i \in Item : \A c \in cache[i] :
              engine \in Cached /\ c.ans \in Possible(engine)
        /\ said \in [Item -> Answers \cup {"none"}] /\ tokens \in {0, 1}
        /\ overlapped \subseteq Item
        /\ OneWriter /\ CacheIsLastAnswer /\ EngineTypeOK
    BY Zenon DEF EInv, EngineTypeOK, OwnAnswers
  <1>2. ASSUME cache' = cache, said' = said, overlapped' = overlapped, tokens' \in {0, 1},
               pc[s] # "write", pc'[s] # "write"
        PROVE  Goal
    <2>1. /\ \A i : Asking(i)' = Asking(i)
          /\ \A i : \A t \in Asking(i) : got'[t] = got[t]
      BY <1>2, SameSavers, Zenon
    <2>2. OneWriter'
      BY <1>1, <1>2, <2>1 DEF OneWriter
    <2>3. CacheIsLastAnswer'
      BY <1>1, <1>2, <2>1, Zenon DEF CacheIsLastAnswer
    <2> QED BY <1>1, <1>2, <2>2, <2>3, Zenon
  <1>3. CASE Begin(s) \/ Conclude(s) \/ Return(s)
    <2>1. /\ cache' = cache /\ said' = said /\ overlapped' = overlapped /\ tokens' = tokens
          /\ pc[s] # "write" /\ pc'[s] # "write"
      BY <1>1, <1>3, Zenon DEF Begin, Conclude, Return, End, svc, EngineTypeOK
    <2> QED BY <1>1, <1>2, <2>1, Zenon
  <1>4. CASE Take(s)
    <2>1. /\ cache' = cache /\ said' = said /\ overlapped' = overlapped
          /\ pc[s] # "write" /\ pc'[s] # "write"
          /\ tokens' = tokens \/ (tokens' = tokens - 1 /\ tokens # 0)
      BY <1>1, <1>4, Zenon DEF Take, End, svc, EngineTypeOK
    <2> QED BY <1>1, <1>2, <2>1
  <1>5. CASE Look(s) \/ AskFails(s)
    <2>1. /\ cache' = cache /\ said' = said /\ overlapped' = overlapped /\ tokens' = tokens
          /\ pc[s] # "write" /\ pc'[s] # "write"
      BY <1>1, <1>5, Zenon DEF Look, AskFails, Note, End, svc, EngineTypeOK
    <2> QED BY <1>1, <1>2, <2>1, Zenon
  <1>6. ASSUME NEW a \in Possible(engine), Answered(s, a) PROVE Goal
    <2>1. PICK i : i = Current(s)
      BY Zenon
    <2>2. pc[s] = "ask" /\ i \in Item /\ i = Items[n[s]]
      BY <1>0, <1>1, <1>6, <2>1, CurrentItem, Zenon DEF Answered
    <2>3. /\ said' = [said EXCEPT ![i] = a] /\ cache' = cache /\ tokens' = tokens
          /\ overlapped' = overlapped \cup {j \in {i} : Asking(i) # {}}
      BY <1>6, <2>1, Zenon DEF Answered
    <2>4. a \in Answers
      BY PossibleFacts, Zenon
    <2>5. said' \in [Item -> Answers \cup {"none"}] /\ overlapped' \subseteq Item
      BY <1>1, <2>2, <2>3, <2>4, Zenon
    <2>6. CASE engine \notin Cached
      <3>1. \A t \in Scan : pc'[t] # "write"
        <4>1. pc'[s] = "next"
          BY <1>1, <1>6, <2>6, Zenon DEF Answered, Note, EngineTypeOK
        <4> QED BY <1>0, <2>6, <4>1, Zenon DEF InScope, Stays
      <3>2. \A j \in Item : Asking(j)' = {} /\ cache'[j] = {}
        BY <1>1, <2>3, <2>6, <3>1, Zenon DEF Asking
      <3> QED BY <1>1, <2>3, <2>5, <3>2, Zenon DEF OneWriter, CacheIsLastAnswer
    <2>7. CASE engine \in Cached
      <3>1. /\ pc' = [pc EXCEPT ![s] = "write"] /\ n' = n
            /\ got' = [got EXCEPT ![s] = [got[s] EXCEPT ![i] = a]]
        BY <1>6, <2>1, <2>7, Zenon DEF Answered
      <3>2. pc'[s] = "write" /\ n'[s] = n[s] /\ got'[s][i] = a
        BY <1>1, <2>2, <3>1, Zenon DEF EngineTypeOK
      <3>3. Asking(i)' = Asking(i) \cup {s}
        BY <2>2, <3>1, <3>2 DEF Asking, Current, Stays
      <3>4. \A j \in Item \ {i} : Asking(j)' = Asking(j)
        BY <2>2, <3>1, <3>2 DEF Asking, Current, Stays
      <3>5. \A j \in Item : \A t \in Asking(j) : got'[t] = got[t] /\ t # s
        BY <2>2, Zenon DEF Asking, Stays
      <3>6. said'[i] = a /\ \A j \in Item \ {i} : said'[j] = said[j]
        BY <1>1, <2>2, <2>3, Zenon
      <3>7. ASSUME NEW j \in Item \ overlapped', j # i
            PROVE  /\ \A t, u \in Asking(j)' : t = u
                   /\ \A t \in Asking(j)' : got'[t][j] = said'[j]
                   /\ \A c \in cache'[j] : Unused({"db"})' /\ Asking(j)' = {}
                          => c.ans = said'[j]
        <4>1. j \in Item \ overlapped
          BY <2>3, <3>7, Zenon
        <4>2. Asking(j)' = Asking(j) /\ said'[j] = said[j] /\ cache'[j] = cache[j]
          BY <2>3, <3>4, <3>6, <3>7, Zenon
        <4>3. \A t \in Asking(j) : got'[t][j] = got[t][j]
          BY <3>5, Zenon
        <4> QED BY <1>1, <4>1, <4>2, <4>3 DEF OneWriter, CacheIsLastAnswer
      <3>8. ASSUME i \notin overlapped'
            PROVE  /\ \A t, u \in Asking(i)' : t = u
                   /\ \A t \in Asking(i)' : got'[t][i] = said'[i]
                   /\ Asking(i)' # {}
        <4>1. Asking(i) = {}
          BY <2>3, <3>8, Zenon
        <4> QED BY <3>2, <3>3, <3>6, <4>1, Zenon
      <3>9. OneWriter'
        BY <3>7, <3>8, Zenon DEF OneWriter
      <3>10. CacheIsLastAnswer'
        BY <3>7, <3>8, Zenon DEF CacheIsLastAnswer
      <3> QED BY <1>1, <2>3, <2>5, <3>9, <3>10, Zenon
    <2> QED BY <2>6, <2>7, Zenon
  <1>7. CASE Ask(s)
    <2>1. Answered(s, truth[Current(s)]) /\ pc[s] = "ask"
      BY <1>7, Zenon DEF Ask, Answered
    <2>2. truth[Current(s)] \in Possible(engine)
      BY <1>0, <1>1, <2>1, CurrentItem, Zenon DEF OwnAnswers, EInv
    <2> QED BY <1>6, <2>1, <2>2, Zenon
  <1>8. CASE Odd(s)
    BY <1>6, <1>8, PossibleFacts, Zenon DEF Odd
  <1>9. CASE WriteCache(s)
    <2>1. PICK i : i = Current(s)
      BY Zenon
    <2>2. pc[s] = "write" /\ i \in Item /\ i = Items[n[s]]
      BY <1>0, <1>1, <1>9, <2>1, CurrentItem, Zenon DEF WriteCache
    <2>3. /\ \/ cache' = [cache EXCEPT ![i] = {[ans |-> got[s][i], fresh |-> TRUE]}]
             \/ cache' = cache /\ ~Unused({"db"})'
          /\ said' = said /\ overlapped' = overlapped /\ tokens' = tokens
          /\ pc' = [pc EXCEPT ![s] = "next"]
          /\ got' = [got EXCEPT ![s] = [got[s] EXCEPT ![i] = got[s][i]]]
      BY <1>9, <2>1, Zenon DEF WriteCache, Note, svc
    <2>4. got[s][i] \in Possible(engine) /\ engine \in Cached /\ got[s][i] \in Answers
      BY <1>0, <2>2, PossibleFacts, Zenon DEF InScope
    <2>5. /\ cache' \in [Item -> SUBSET [ans : Answers, fresh : BOOLEAN]]
          /\ \A j \in Item : \A c \in cache'[j] :
                engine \in Cached /\ c.ans \in Possible(engine)
      <3>1. CASE cache' = cache
        BY <1>1, <3>1, Zenon
      <3>2. CASE cache' = [cache EXCEPT ![i] = {[ans |-> got[s][i], fresh |-> TRUE]}]
        <4>1. {[ans |-> got[s][i], fresh |-> TRUE]}
                  \in SUBSET [ans : Answers, fresh : BOOLEAN]
          BY <2>4
        <4>2. \A j \in Item :
                  cache'[j] = IF j = i THEN {[ans |-> got[s][i], fresh |-> TRUE]} ELSE cache[j]
          BY <1>1, <2>2, <3>2, Zenon
        <4>3. cache' \in [Item -> SUBSET [ans : Answers, fresh : BOOLEAN]]
          BY <1>1, <2>2, <3>2, <4>1, Zenon
        <4> QED BY <1>1, <2>4, <4>2, <4>3
      <3> QED BY <2>3, <3>1, <3>2, Zenon
    <2>6. pc'[s] = "next" /\ got' = got
      BY <1>1, <2>2, <2>3 DEF EngineTypeOK
    <2>7. \A j : Asking(j)' = Asking(j) \ {s}
      BY <2>6 DEF Asking, Current, Stays
    <2>8. \A j : j # i => s \notin Asking(j)
      BY <2>2, Zenon DEF Asking, Current
    <2>9. s \in Asking(i)
      BY <2>1, <2>2, Zenon DEF Asking
    <2>10. OneWriter'
      BY <1>1, <2>3, <2>6, <2>7 DEF OneWriter
    <2>11. ASSUME NEW j \in Item \ overlapped', NEW c \in cache'[j],
                  Unused({"db"})', Asking(j)' = {}
           PROVE  c.ans = said'[j]
      <3>1. CASE j # i
        <4>1. Asking(j) = {} /\ cache'[j] = cache[j]
          BY <1>1, <2>3, <2>7, <2>8, <2>11, <3>1
        <4> QED BY <1>1, <2>3, <2>11, <4>1, Zenon DEF CacheIsLastAnswer
      <3>2. CASE j = i
        <4>1. cache'[i] = {[ans |-> got[s][i], fresh |-> TRUE]}
          BY <1>1, <2>2, <2>3, <2>11, Zenon
        <4>2. got[s][i] = said[i]
          BY <1>1, <2>3, <2>9, <2>11, <3>2, Zenon DEF OneWriter
        <4> QED BY <2>3, <2>11, <3>2, <4>1, <4>2
      <3> QED BY <3>1, <3>2, Zenon
    <2>12. CacheIsLastAnswer'
      BY <2>11, Zenon DEF CacheIsLastAnswer
    <2> QED BY <1>1, <2>3, <2>5, <2>10, <2>12, Zenon
  <1> QED BY <1>3, <1>4, <1>5, <1>7, <1>8, <1>9, Zenon

\* No step of a service, of time or of a scan breaks the inductive invariant.
LEMMA EInductive ==
    EInv /\ [EngineNext]_engineVars => EInv'
  <1> SUFFICES ASSUME EInv, [EngineNext]_engineVars PROVE EInv'
    BY Zenon
  <1>1. EngineTypeOK /\ OwnAnswers /\ ScanInv /\ OneWriter /\ CacheIsLastAnswer
    BY Zenon DEF EInv
  <1>2. ASSUME engine' = engine, said' = said, overlapped' = overlapped, left' = left,
               UNCHANGED scans, tokens' \in {0, 1},
               truth' \in [Item -> Possible(engine)],
               cache' \in [Item -> SUBSET [ans : Answers, fresh : BOOLEAN]],
               \A i \in Item : \A c \in cache'[i] : \E d \in cache[i] : c.ans = d.ans
        PROVE  EInv'
    <2>1. pc' = pc /\ n' = n /\ got' = got /\ word' = word
      BY <1>2, Zenon DEF scans
    <2>2. truth' \in [Item -> Answers]
      BY <1>2, PossibleFacts, Zenon
    <2>3. EngineTypeOK'
      BY <1>1, <1>2, <2>1, <2>2, Zenon DEF EngineTypeOK
    <2>4. OwnAnswers'
      BY <1>1, <1>2, <2>1 DEF OwnAnswers
    <2>5. Unused({"down"})' => Unused({"down"})
      BY <1>2, Zenon DEF Unused
    <2>6. ScanInv'
      BY <1>1, <1>2, <2>1, <2>5, OthersKeep, Zenon DEF ScanInv
    <2>7. \A i : Asking(i)' = Asking(i)
      BY <2>1, Zenon DEF Asking, Current
    <2>8. OneWriter'
      BY <1>1, <1>2, <2>1, <2>7, Zenon DEF OneWriter
    <2>9. Unused({"db"})' => Unused({"db"})
      BY <1>2, Zenon DEF Unused
    <2>10. CacheIsLastAnswer'
      BY <1>1, <1>2, <2>7, <2>9 DEF CacheIsLastAnswer
    <2> QED BY <2>3, <2>4, <2>6, <2>8, <2>10, Zenon DEF EInv
  <1>3. ASSUME NEW i \in Item, Learn(i) PROVE EInv'
    <2>1. truth' = [truth EXCEPT ![i] = "bad"] /\ truth \in [Item -> Possible(engine)]
      BY <1>1, <1>3, Zenon DEF Learn, OwnAnswers
    <2>2. truth' \in [Item -> Possible(engine)]
      BY <2>1, PossibleFacts, Zenon
    <2> QED BY <1>1, <1>2, <1>3, <2>2, Zenon DEF Learn, EngineTypeOK
  <1>4. ASSUME NEW i \in Item, Expire(i) PROVE EInv'
    <2> DEFINE old == {[c EXCEPT !.fresh = FALSE] : c \in cache[i]}
    <2>1. cache' = [cache EXCEPT ![i] = old]
      BY <1>4, Zenon DEF Expire
    <2>2. cache \in [Item -> SUBSET [ans : Answers, fresh : BOOLEAN]]
      BY <1>1, Zenon DEF EngineTypeOK
    <2>3. /\ old \in SUBSET [ans : Answers, fresh : BOOLEAN]
          /\ \A c \in old : \E d \in cache[i] : c.ans = d.ans
      <3>1. ASSUME NEW d \in cache[i]
            PROVE  /\ [d EXCEPT !.fresh = FALSE] \in [ans : Answers, fresh : BOOLEAN]
                   /\ [d EXCEPT !.fresh = FALSE].ans = d.ans
        <4>1. d \in [ans : Answers, fresh : BOOLEAN]
          BY <2>2, Zenon
        <4> QED BY <4>1, Zenon
      <3> QED BY <3>1
    <2> HIDE DEF old
    <2>4. /\ cache' \in [Item -> SUBSET [ans : Answers, fresh : BOOLEAN]]
          /\ \A j \in Item : \A c \in cache'[j] : \E d \in cache[j] : c.ans = d.ans
      BY <2>1, <2>2, <2>3, Zenon
    <2>5. /\ engine' = engine /\ said' = said /\ overlapped' = overlapped /\ left' = left
          /\ UNCHANGED scans /\ tokens' = tokens /\ truth' = truth
      BY <1>4, Zenon DEF Expire, svc
    <2> QED BY <1>1, <1>2, <2>4, <2>5, Zenon DEF EngineTypeOK, OwnAnswers
  <1>5. CASE Refill
    BY <1>1, <1>2, <1>5, Zenon DEF Refill, svc, EngineTypeOK, OwnAnswers
  <1>6. CASE UNCHANGED engineVars
    BY <1>1, <1>2, <1>6, Zenon DEF engineVars, svc, EngineTypeOK, OwnAnswers
  <1>7. ASSUME NEW s \in Scan,
               \/ Begin(s) \/ Take(s) \/ Look(s) \/ Ask(s) \/ Odd(s) \/ AskFails(s)
               \/ WriteCache(s) \/ Conclude(s) \/ Return(s)
        PROVE  EInv'
    <2>1. /\ engine' = engine /\ truth' = truth
          /\ left' = left \/ \E x \in FaultKind : Spend(x)
          /\ Stays(s) /\ InScope(s)' /\ Behind(s)' /\ Ended(s)'
          /\ \A i \in Item : got'[s][i] \in Possible(engine) \cup {"none", "failed"}
      BY <1>1, <1>7, ScanKeeps, Zenon
    <2>2. /\ left' \in [FaultKind -> Nat] /\ \A x \in FaultKind : left'[x] <= Faults[x]
          /\ Unused({"down"})' => Unused({"down"})
          /\ Unused({"db"})' => Unused({"db"})
          /\ Spend("db") => ~Unused({"db"})'
      BY <1>1, <2>1, FaultsStay, Zenon DEF EngineTypeOK, OwnAnswers, FaultKind
    <2>3. /\ cache' \in [Item -> SUBSET [ans : Answers, fresh : BOOLEAN]]
          /\ \A i \in Item : \A c \in cache'[i] :
                engine \in Cached /\ c.ans \in Possible(engine)
          /\ said' \in [Item -> Answers \cup {"none"}] /\ tokens' \in {0, 1}
          /\ overlapped' \subseteq Item
          /\ OneWriter' /\ CacheIsLastAnswer'
      BY <1>7, <2>1, <2>2, CacheKeeps, Zenon
    <2>4. EngineTypeOK'
      BY <1>1, <2>1, <2>2, <2>3, Zenon DEF EngineTypeOK, Stays
    <2>5. OwnAnswers'
      <3>1. \A t \in Scan : \A i \in Item :
                got'[t][i] \in Possible(engine) \cup {"none", "failed"}
        BY <1>1, <2>1, Zenon DEF OwnAnswers, Stays
      <3> QED BY <1>1, <2>1, <2>2, <2>3, <3>1, Zenon DEF OwnAnswers
    <2>6. ScanInv'
      <3>1. \A t \in Scan \ {s} : InScope(t)' /\ Behind(t)' /\ Ended(t)'
        BY <1>1, <2>1, <2>2, OthersKeep, Zenon DEF ScanInv, Stays
      <3> QED BY <2>1, <3>1, Zenon DEF ScanInv
    <2> QED BY <2>3, <2>4, <2>5, <2>6, Zenon DEF EInv
  <1> QED BY <1>3, <1>4, <1>5, <1>6, <1>7, Zenon DEF EngineNext

\* The inductive invariant of the engines holds throughout.
LEMMA EInvariance == EngineSpec => []EInv
  <1>1. EngineInit => EInv
    BY EInitially, Zenon
  <1>2. EInv /\ [EngineNext]_engineVars => EInv'
    BY EInductive, Zenon
  <1> QED BY <1>1, <1>2, PTL DEF EngineSpec

\* Every variable of an engine stays in its type: a scan asks for items of its message
\* only, and the bucket of VirusTotal's limiter is never overdrawn.
THEOREM EngineTypes == EngineSpec => []EngineTypeOK
  <1>1. EInv => EngineTypeOK
    BY Zenon DEF EInv
  <1>2. EngineSpec => []EInv
    BY EInvariance, Zenon
  <1> QED BY <1>1, <1>2, PTL

\* What a cache row holds is the service's last answer and never an error, for any
\* number of scans and items, while nobody asks for an item twice at once.
THEOREM RowsAreLastAnswers ==
    EngineSpec => []CacheIsLastAnswer
  <1>1. EInv => CacheIsLastAnswer
    BY Zenon DEF EInv
  <1>2. EngineSpec => []EInv
    BY EInvariance, Zenon
  <1> QED BY <1>1, <1>2, PTL

\* One bad item is reported in the word, and three of VirusTotal's engines in the score.
LEMMA BadIsReported ==
    ASSUME NEW s, Has(s, "bad")
    PROVE  /\ Verdict(s) = IF engine = "nrdcheck" THEN "suspicious" ELSE "malicious"
           /\ Positives(s) \in Nat /\ Positives(s) >= 3
  <1>1. /\ With(s, "bad") \in SUBSET Item /\ With(s, "doubt") \in SUBSET Item
        /\ With(s, "bad") # {}
    BY Zenon DEF With, Has
  <1>2. IsFiniteSet(With(s, "bad")) /\ IsFiniteSet(With(s, "doubt"))
    BY <1>1, ItemFacts, FS_Subset, Zenon
  <1>3. /\ Cardinality(With(s, "bad")) \in Nat /\ Cardinality(With(s, "doubt")) \in Nat
        /\ Cardinality(With(s, "bad")) # 0
    BY <1>1, <1>2, FS_CardinalityType, FS_EmptySet, Zenon
  <1>4. Positives(s) \in Nat /\ Positives(s) >= 3
    BY <1>3 DEF Positives
  <1> QED BY <1>4, Zenon DEF Verdict

\* "clean" means that there is no bad item and no doubtful one.
LEMMA CleanIsClean ==
    ASSUME EInv, NEW s \in Scan, Verdict(s) = "clean"
    PROVE  ~Has(s, "bad") /\ \A i \in Item : got[s][i] \notin {"bad", "doubt"}
  <1>1. ~Has(s, "bad")
    BY BadIsReported, Zenon
  <1>2. CASE engine = "virustotal"
    <2>1. ~(Positives(s) >= 3) /\ ~(Positives(s) > 0)
      BY <1>2, Zenon DEF Verdict
    <2>2. IsFiniteSet(With(s, "bad")) /\ IsFiniteSet(With(s, "doubt"))
      <3>1. With(s, "bad") \in SUBSET Item /\ With(s, "doubt") \in SUBSET Item
        BY Zenon DEF With
      <3> QED BY <3>1, ItemFacts, FS_Subset, Zenon
    <2>3. Cardinality(With(s, "bad")) \in Nat /\ Cardinality(With(s, "doubt")) \in Nat
      BY <2>2, FS_CardinalityType, Zenon
    <2>4. Cardinality(With(s, "doubt")) = 0
      BY <2>1, <2>3 DEF Positives
    <2>5. With(s, "doubt") = {}
      BY <2>2, <2>4, FS_EmptySet, Zenon
    <2> QED BY <1>1, <2>5, Zenon DEF Has, With
  <1>3. CASE engine = "nrdcheck"
    <2>1. \A i \in Item : got[s][i] # "doubt"
      <3>1. "doubt" \notin Possible(engine)
        BY <1>3, PossibleFacts, Zenon
      <3> QED BY <3>1, Zenon DEF EInv, OwnAnswers
    <2> QED BY <1>1, <2>1, Zenon DEF Has, With
  <1>4. CASE engine # "virustotal" /\ engine # "nrdcheck"
    <2>1. ~Has(s, "doubt")
      BY <1>1, <1>4, Zenon DEF Verdict
    <2> QED BY <1>1, <2>1, Zenon DEF Has, With
  <1> QED BY <1>2, <1>3, <1>4, Zenon

\* The word of a scan stands on what it has got, whatever the other scans do.
THEOREM WordsBacked == EngineSpec => []WordIsBacked
  <1>1. EInv => WordIsBacked
    <2> SUFFICES ASSUME EInv, NEW s \in Scan, pc[s] = "done"
                 PROVE  /\ Has(s, "bad") => \/ word[s] \in {"suspicious", "malicious"}
                                            \/ engine \in Limited /\ word[s] = "skip"
                        /\ word[s] = "clean" /\ Unused({"down"}) =>
                               \A m \in Scope : got[s][Items[m]] \in {"unknown", "good"}
      BY Zenon DEF WordIsBacked
    <2>1. InScope(s) /\ Behind(s) /\ Ended(s) /\ EngineTypeOK
      BY Zenon DEF EInv, ScanInv
    <2>2. Has(s, "bad") => \/ word[s] \in {"suspicious", "malicious"}
                           \/ engine \in Limited /\ word[s] = "skip"
      BY <2>1, BadIsReported, Zenon DEF Ended
    <2>3. ASSUME word[s] = "clean", Unused({"down"}), NEW m \in Scope
          PROVE  got[s][Items[m]] \in {"unknown", "good"}
      <3>1. Verdict(s) = "clean" /\ n[s] \notin Scope
        BY <2>1, <2>3, Zenon DEF Ended
      <3>2. m \in DOMAIN Items /\ m \in Nat /\ Items[m] \in Item
        BY ItemFacts DEF Scope
      <3>3. m < n[s]
        BY <2>1, <3>1, <3>2, ItemFacts DEF Scope, EngineTypeOK
      <3>4. ~Has(s, "bad") /\ got[s][Items[m]] \notin {"bad", "doubt"}
        BY <3>1, <3>2, CleanIsClean, Zenon
      <3>5. got[s][Items[m]] # "none" /\ got[s][Items[m]] # "failed"
        BY <2>1, <2>3, <3>2, <3>3, <3>4, Zenon DEF Behind
      <3> QED BY <2>1, <3>2, <3>4, <3>5 DEF EngineTypeOK, Answers
    <2> QED BY <2>2, <2>3, Zenon
  <1>2. EngineSpec => []EInv
    BY EInvariance, Zenon
  <1> QED BY <1>1, <1>2, PTL

\* Decide gets the word of scan s, and VirusTotal's sum of positives, as its engine's
\* result.
Delivers(s, r) ==
    /\ r[engine].verdict = word[s]
    /\ engine = "virustotal" => r[engine].score = Positives(s)

\* From a bad answer to the decision: when a scan has ended with a bad item and was not
\* cut short by VirusTotal's limiter, Decide does not pass the message, whatever the
\* other scanners, the message and the thresholds say; it deletes the message, but for
\* a domain that is only new. Rspamd is left out: Decide reads its score, not its word.
HitIsActedOn ==
    \A s \in Scan :
        pc[s] = "done" /\ Has(s, "bad") /\ word[s] # "skip" /\ engine # "rspamd" =>
            \A t \in Pair, e \in EmailType, r \in [Scanner -> Result] :
                Delivers(s, r) =>
                    /\ Decide(t, e, r)[1] # "pass"
                    /\ engine # "nrdcheck" => Decide(t, e, r) = <<"delete", "MALWARE">>

\* The engines and the verdict engine together: no order of answers, cache hits, failed
\* lookups and overlapping scans lets a message pass of which an item was found bad.
THEOREM BadItemStopsMessage == EngineSpec => []HitIsActedOn
  <1>1. EInv => HitIsActedOn
    <2> SUFFICES ASSUME EInv, NEW s \in Scan, pc[s] = "done", Has(s, "bad"),
                        word[s] # "skip", engine # "rspamd",
                        NEW t \in Pair, NEW e \in EmailType, NEW r \in [Scanner -> Result],
                        Delivers(s, r)
                 PROVE  /\ Decide(t, e, r)[1] # "pass"
                        /\ engine # "nrdcheck" => Decide(t, e, r) = <<"delete", "MALWARE">>
      BY Zenon DEF HitIsActedOn
    <2>1. Ended(s) /\ engine \in AllEngines
      BY Zenon, EnginesAssumption DEF EInv, ScanInv, EngineTypeOK
    <2>2. word[s] = Verdict(s)
      BY <2>1, Zenon DEF Ended
    <2>3. /\ word[s] = IF engine = "nrdcheck" THEN "suspicious" ELSE "malicious"
          /\ Positives(s) \in Nat /\ Positives(s) >= 3
      BY <2>2, BadIsReported, Zenon
    <2>4. CASE engine = "nrdcheck"
      <3>1. Says(r, "nrdcheck", "suspicious")
        BY <2>3, <2>4, Zenon DEF Says, Delivers
      <3>2. "nrd" \in Reasons(e, r)
        BY <3>1, Zenon DEF Reasons, NRDHit
      <3>3. Decide(t, e, r)[1] # "pass"
        BY <3>2, Zenon DEF Decide
      <3> QED BY <2>4, <3>3, Zenon
    <2>5. CASE engine # "nrdcheck"
      <3>1. Says(r, engine, "malicious")
        BY <2>3, <2>5, Zenon DEF Says, Delivers
      <3>2. engine = "virustotal" => VTPositives(r) >= 3
        BY <2>3, <3>1, Zenon DEF VTPositives, Delivers
      <3>3. engine \in {"virustotal", "clamav", "ipreputation"}
        BY <2>1, <2>5, Zenon DEF AllEngines
      <3>4. Malware(r)
        BY <3>1, <3>2, <3>3, Zenon DEF Malware
      <3>5. Decide(t, e, r) = <<"delete", "MALWARE">>
        BY <3>4, Zenon DEF Decide
      <3> QED BY <3>5
    <2> QED BY <2>4, <2>5, Zenon
  <1>2. EngineSpec => []EInv
    BY EInvariance, Zenon
  <1> QED BY <1>1, <1>2, PTL
==============================================================================
