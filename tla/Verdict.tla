------------------------------- MODULE Verdict -------------------------------
(***************************************************************************)
(* The verdict engine: Decide (pipeline/verdict.go) turns the results of   *)
(* the scanner fan-out into one decision, with thresholds that an          *)
(* administrator may be changing at the same moment (UpdateThresholds in   *)
(* web/handlers/settings.go), and which a restart reads back from SQLite   *)
(* (loadPersistedSettings in main.go).                                     *)
(*                                                                         *)
(* The text of a result (detail, matches, reason, confidence) is left out. *)
(* What Decide tells apart is kept: the verdict word of every scanner and  *)
(* the two scores it compares with a number.                               *)
(***************************************************************************)
EXTENDS Integers

CONSTANTS
    Admin,        \* concurrent POST /api/settings/thresholds requests
    Email,        \* what Decide reads of the message, see EmailType
    ResultSet,    \* the result functions the fan-out may deliver
    Request,      \* threshold pairs an administrator may submit
    Initial,      \* the pair of the environment or config.yaml
    None          \* no request in progress

Scanner == {"rspamd", "clamav", "yara", "urlcheck", "urlunshorten", "nrdcheck",
            "htmlsmuggling", "hiddentextdetect", "virustotal",
            "malwarebazaar", "ipreputation", "onnx"}

Word == {"clean", "suspicious", "malicious", "error", "skip"}

Result == [verdict : Word, score : Int]

\* The Booleans say whether the authentication result is "pass"; whitelisted:
\* email.WhitelistEntry is set (matched, but not a bypass).
EmailType == [exec : BOOLEAN, spf : BOOLEAN, dkim : BOOLEAN, dmarc : BOOLEAN,
              whitelisted : BOOLEAN]

\* Scores are in units of 0.00001.
Pair == [spam : Int, reject : Int]

\* What Config.validate asks of the initial pair, and UpdateThresholds of a request.
Ordered(c) == c.spam < c.reject
Valid(c) == c.spam > 0 /\ c.reject > 0 /\ Ordered(c)

\* "%.4f" and ParseFloat: a score read back is rounded to four decimals.
FourDecimals(x) == ((x + 5) \div 10) * 10

ASSUME VerdictAssumption ==
    /\ Email \subseteq EmailType
    /\ ResultSet \subseteq [Scanner -> Result]
    \* virustotal.go says "malicious" from three positives on
    /\ \A r \in ResultSet :
          r["virustotal"].verdict = "malicious" => r["virustotal"].score >= 3
    /\ Request \subseteq Pair
    \* an accepted request is still positive and ordered at four decimals
    /\ \A c \in Request : Valid(c) =>
          0 < FourDecimals(c.spam) /\ FourDecimals(c.spam) < FourDecimals(c.reject)
    /\ Initial \in Pair /\ Ordered(Initial)
    /\ None \notin Pair

------------------------------------------------------------------------------
(* The signals Decide collects from the results, and its rules.             *)

Says(r, s, v) == r[s].verdict = v

RspamdScore(r) == r["rspamd"].score

\* int(r.Score) of a "malicious" VirusTotal result, 0 otherwise.
VTPositives(r) ==
    IF Says(r, "virustotal", "malicious") THEN r["virustotal"].score ELSE 0

M_Malware_NoIP(r) ==
    \/ Says(r, "clamav", "malicious")
    \/ Says(r, "yara", "malicious")
    \/ VTPositives(r) >= 3
    \/ Says(r, "malwarebazaar", "malicious")

\* Priority 1: definite malware.
Malware(r) ==
    \/ Says(r, "clamav", "malicious")
    \/ Says(r, "yara", "malicious")
    \/ VTPositives(r) >= 3
    \/ Says(r, "malwarebazaar", "malicious")
    \/ Says(r, "ipreputation", "malicious")

M_Phish_FeedOnly(r) ==
    \/ Says(r, "urlcheck", "malicious") \/ Says(r, "urlcheck", "suspicious")
    \/ Says(r, "onnx", "malicious")

\* Priority 3: a URL in a threat feed, or the AI tier.
Phish(r) ==
    \/ Says(r, "urlcheck", "malicious") \/ Says(r, "urlcheck", "suspicious")
    \/ Says(r, "urlunshorten", "malicious")
    \/ Says(r, "onnx", "malicious")

AuthOK(e) == e.spf \/ e.dkim \/ e.dmarc

NRDHit(r) == Says(r, "nrdcheck", "suspicious")

\* Priorities 5, 5.5 and 5.7: one signal is enough.
Dangerous(e, r) ==
    \/ e.exec
    \/ Says(r, "htmlsmuggling", "suspicious")
    \/ Says(r, "onnx", "suspicious") /\ (~AuthOK(e) \/ NRDHit(r))

\* Priority 6: suspiciousReasons.
Reasons(e, r) ==
    {x \in {"auth", "ip", "vt", "nrd", "hidden"} :
        CASE x = "auth"   -> ~AuthOK(e)
          [] x = "ip"     -> Says(r, "ipreputation", "suspicious")
          [] x = "vt"     -> VTPositives(r) > 0 /\ VTPositives(r) < 3
          [] x = "nrd"    -> NRDHit(r)
          [] x = "hidden" -> Says(r, "hiddentextdetect", "suspicious")}

SeveralReasons(e, r) == \E x, y \in Reasons(e, r) : x # y

Critical == {"clamav", "yara", "rspamd"}

M_CriticalError_NoRspamd(r) == \E s \in {"clamav", "yara"} : Says(r, s, "error")

CriticalError(r) == \E s \in Critical : Says(r, s, "error")

\* First matching rule wins.
Decide(t, e, r) ==
    IF Malware(r) THEN <<"delete", "MALWARE">>
    ELSE IF RspamdScore(r) >= t.reject THEN <<"delete", "SPAM">>
    ELSE IF Phish(r) THEN <<"quarantine", "PHISH">>
    ELSE IF RspamdScore(r) >= t.spam THEN <<"quarantine", "SPAM">>
    ELSE IF Dangerous(e, r) \/ SeveralReasons(e, r) THEN <<"quarantine", "SUSPICIOUS">>
    ELSE IF Reasons(e, r) # {} THEN <<"flag", "SUSPICIOUS">>
    ELSE IF CriticalError(r) THEN <<"quarantine", "SUSPICIOUS">>
    ELSE <<"pass", "CLEAN">>

\* Whitelist scan-then-release: the decision is forced, the verdict is kept.
Override(e, vd) == IF e.whitelisted THEN <<"pass", vd[2]>> ELSE vd

Decision == {"pass", "flag", "quarantine", "delete"}

Outcome == {<<"delete", "MALWARE">>, <<"delete", "SPAM">>,
            <<"quarantine", "PHISH">>, <<"quarantine", "SPAM">>,
            <<"quarantine", "SUSPICIOUS">>, <<"flag", "SUSPICIOUS">>,
            <<"pass", "CLEAN">>}

------------------------------------------------------------------------------
(* The tail of the fan-out for one message, and the administrators'          *)
(* requests.                                                                *)

VARIABLES
    spamFrom,     \* the pair cfg.SpamScore was last set from
    rejectFrom,   \* the pair cfg.RejectScore was last set from
    admin,        \* admin[a]: the pair a is setting
    step,         \* step[a]: what a does next with it, "reject" or "save"
    stored,       \* the app_settings rows spam_score and reject_score, 0 if absent
    saveFailed,   \* a save of them has failed, in whole or in part
    phase,        \* "joined", "gotSpam" or "decided"
    email,        \* the message: neither blocklisted nor a whitelist bypass
    results,      \* what the scanners delivered
    read,         \* the pairs the two thresholds handed to Decide came from
    vd            \* the decision and verdict word the pipeline acts on

scan == <<phase, email, results, read, vd>>
vars == <<spamFrom, rejectFrom, admin, step, stored, saveFailed, scan>>

\* wg.Wait has returned: every scanner has delivered exactly one result, a
\* panic having been turned into "error".
Init ==
    /\ spamFrom = Initial /\ rejectFrom = Initial
    /\ admin = [a \in Admin |-> None] /\ step = [a \in Admin |-> "reject"]
    /\ stored = [spam |-> 0, reject |-> 0] /\ saveFailed = FALSE
    /\ phase = "joined"
    /\ email \in Email /\ results \in ResultSet
    /\ read = [spam |-> Initial, reject |-> Initial]
    /\ vd = <<"pass", "CLEAN">>

GetSpamScore ==
    /\ phase = "joined"
    /\ phase' = "gotSpam" /\ read' = [read EXCEPT !.spam = spamFrom]
    /\ UNCHANGED <<spamFrom, rejectFrom, admin, step, stored, saveFailed, email, results, vd>>

GetRejectScoreAndDecide ==
    /\ phase = "gotSpam"
    /\ phase' = "decided" /\ read' = [read EXCEPT !.reject = rejectFrom]
    /\ vd' = Override(email,
                      Decide([spam |-> read.spam.spam, reject |-> rejectFrom.reject],
                             email, results))
    /\ UNCHANGED <<spamFrom, rejectFrom, admin, step, stored, saveFailed, email, results>>

M_SetSpamScore_Unchecked(a, c) ==
    /\ admin[a] = None
    /\ spamFrom' = c /\ admin' = [admin EXCEPT ![a] = c]
    /\ UNCHANGED <<rejectFrom, step, stored, saveFailed, scan>>

\* UpdateThresholds up to and including the first setter.
SetSpamScore(a, c) ==
    /\ admin[a] = None
    /\ Valid(c)
    /\ spamFrom' = c /\ admin' = [admin EXCEPT ![a] = c]
    /\ UNCHANGED <<rejectFrom, step, stored, saveFailed, scan>>

\* The second setter.
SetRejectScore(a) ==
    /\ admin[a] # None /\ step[a] = "reject"
    /\ rejectFrom' = admin[a] /\ step' = [step EXCEPT ![a] = "save"]
    /\ UNCHANGED <<spamFrom, admin, stored, saveFailed, scan>>

Reply(a) == admin' = [admin EXCEPT ![a] = None] /\ step' = [step EXCEPT ![a] = "reject"]

M_Save_WhatIsInForce(a) ==
    /\ admin[a] # None /\ step[a] = "save"
    /\ stored' = [spam |-> FourDecimals(spamFrom.spam), reject |-> FourDecimals(rejectFrom.reject)]
    /\ Reply(a)
    /\ UNCHANGED <<spamFrom, rejectFrom, saveFailed, scan>>

\* Both rows are saved in one transaction, then the request is answered.
Save(a) ==
    /\ admin[a] # None /\ step[a] = "save"
    /\ stored' = [spam |-> FourDecimals(admin[a].spam), reject |-> FourDecimals(admin[a].reject)]
    /\ Reply(a)
    /\ UNCHANGED <<spamFrom, rejectFrom, saveFailed, scan>>

\* Neither Save's error is looked at: one row, or both, may be left as it was.
SaveFails(a) ==
    /\ admin[a] # None /\ step[a] = "save"
    /\ saveFailed' = TRUE
    /\ \/ UNCHANGED stored
       \/ stored' = [stored EXCEPT !.spam = FourDecimals(admin[a].spam)]
       \/ stored' = [stored EXCEPT !.reject = FourDecimals(admin[a].reject)]
    /\ Reply(a)
    /\ UNCHANGED <<spamFrom, rejectFrom, scan>>

\* loadPersistedSettings, at the next start: each row for itself, if it holds a
\* positive number. (A restart is an initial state with Loaded as Initial.)
Loaded == [spam   |-> IF stored.spam > 0 THEN stored.spam ELSE Initial.spam,
           reject |-> IF stored.reject > 0 THEN stored.reject ELSE Initial.reject]

Next ==
    \/ GetSpamScore
    \/ GetRejectScoreAndDecide
    \/ \E a \in Admin, c \in Request : SetSpamScore(a, c)
    \/ \E a \in Admin : SetRejectScore(a) \/ Save(a) \/ SaveFails(a)

Spec == Init /\ [][Next]_vars

------------------------------------------------------------------------------
(* Properties.                                                              *)

Rank(d) == CASE d = "pass" -> 0 [] d = "flag" -> 1
             [] d = "quarantine" -> 2 [] d = "delete" -> 3

\* Every variable stays in its type; in particular the pipeline is only ever
\* handed one of the four decisions takeIMAPAction switches on.
TypeOK ==
    /\ spamFrom \in Pair /\ rejectFrom \in Pair
    /\ admin \in [Admin -> Pair \cup {None}]
    /\ step \in [Admin -> {"reject", "save"}]
    /\ stored \in Pair /\ saveFailed \in BOOLEAN
    /\ phase \in {"joined", "gotSpam", "decided"}
    /\ email \in EmailType
    /\ results \in [Scanner -> Result]
    /\ read \in [spam : Pair, reject : Pair]
    /\ vd \in Decision \X {"CLEAN", "SPAM", "PHISH", "MALWARE", "SUSPICIOUS"}

\* Decide never passes a message of which a critical scanner (clamav, yara,
\* rspamd) could not be run, whatever the other eleven results and the
\* thresholds are (the fail-closed block at the end of Decide).
CriticalErrorNeverPasses ==
    phase = "decided" /\ ~email.whitelisted /\ (\E s \in Critical : Says(results, s, "error"))
        => vd[1] # "pass"

\* The engines whose "malicious", and those whose "suspicious", Decide weighs.
Weighty == Scanner \ {"rspamd", "nrdcheck", "htmlsmuggling", "hiddentextdetect"}
Hinting == {"nrdcheck", "htmlsmuggling", "hiddentextdetect", "ipreputation", "onnx"}

\* The results r with scanner s reporting v instead.
Instead(r, s, v) ==
    [r EXCEPT ![s] = [verdict |-> v,
                      score |-> IF s = "virustotal" THEN 3 ELSE r[s].score]]

\* Evidence is monotone, which the order of Decide's early returns has to
\* guarantee: had any one engine reported "malicious" in place of what it did
\* report, the decision would be at least as severe; and the same for an engine
\* that found nothing and had reported "suspicious", as long as every critical
\* scanner ran.
MoreEvidenceNeverLowers ==
    phase = "decided" /\ ~email.whitelisted =>
        LET t == [spam |-> read.spam.spam, reject |-> read.reject.reject]
            RankWith(s, v) == Rank(Decide(t, email, Instead(results, s, v))[1])
        IN  /\ \A s \in Weighty : RankWith(s, "malicious") >= Rank(vd[1])
            /\ \A s \in Hinting :
                  ~Says(results, s, "malicious") /\ ~CriticalError(results)
                      => RankWith(s, "suspicious") >= Rank(vd[1])

\* A message is passed only if no engine whose "malicious" carries weight said
\* so, it has no executable attachment, and its score is under the spam
\* threshold Decide was given.
PassIsEarned ==
    phase = "decided" /\ ~email.whitelisted /\ vd[1] = "pass" =>
        /\ \A s \in Weighty : ~Says(results, s, "malicious")
        /\ ~email.exec
        /\ RspamdScore(results) < read.spam.spam

\* The two thresholds are read one after the other, and set one after the
\* other, so Decide may see the spam half of one pair and the reject half of
\* another. The decision then still lies between the decisions of the two
\* pairs: never laxer than both, never harsher than both.
TornReadStaysBetween ==
    phase = "decided" /\ ~email.whitelisted =>
        LET a == Rank(Decide(read.spam, email, results)[1])
            b == Rank(Decide(read.reject, email, results)[1])
            d == Rank(vd[1])
        IN  (a <= d /\ d <= b) \/ (b <= d /\ d <= a)

\* settings.go:173 "spam_score must be > 0 and < reject_score": two overlapping
\* requests can leave the spam half of one and the reject half of the other in
\* force, in the wrong order; what a restart would load is ordered all the same,
\* at any moment, unless a save failed.
RestartOrdered == ~saveFailed => Ordered(Loaded)
==============================================================================
