------------------------------ MODULE MCVerdict ------------------------------
(* Verdict on the inputs in which at most two scanners have anything to say. *)
EXTENDS Verdict, TLC

\* What an engine can report besides "clean" (read off each Scan method; any of
\* them reports "error" after a recovered panic, kept here for one engine that
\* is not critical). "skip" is kept where it matters most.
MCReports ==
    {<<"rspamd", "error">>, <<"rspamd", "skip">>, <<"rspamd", "malicious">>,
     <<"clamav", "error">>, <<"clamav", "skip">>, <<"clamav", "malicious">>,
     <<"yara", "error">>, <<"yara", "malicious">>,
     <<"urlcheck", "malicious">>, <<"urlunshorten", "malicious">>,
     <<"nrdcheck", "suspicious">>, <<"nrdcheck", "error">>,
     <<"htmlsmuggling", "suspicious">>, <<"hiddentextdetect", "suspicious">>,
     <<"virustotal", "suspicious">>, <<"virustotal", "malicious">>,
     <<"malwarebazaar", "malicious">>,
     <<"ipreputation", "suspicious">>, <<"ipreputation", "malicious">>,
     <<"onnx", "suspicious">>, <<"onnx", "malicious">>}

MCScores == {0, 500000, 1500000}

\* rspamd has a score only when it answered; VirusTotal's is its positives.
MCResult(p, q, n) ==
    [s \in Scanner |->
        LET v == IF s = p[1] THEN p[2] ELSE IF s = q[1] THEN q[2] ELSE "clean"
        IN  [verdict |-> v,
             score |-> CASE s = "rspamd" /\ v \notin {"error", "skip"} -> n
                         [] s = "virustotal" /\ v = "suspicious" -> 2
                         [] s = "virustotal" /\ v = "malicious" -> 3
                         [] OTHER -> 0]]

\* What the second scanner may add: a hint or a failure.
MCAlso == {<<"none", "clean">>, <<"nrdcheck", "suspicious">>, <<"clamav", "error">>}

MCResultSet == {MCResult(p, q, n) : p \in MCReports, q \in MCAlso, n \in MCScores}

MCMail(x, spf, dkim, dmarc, wl) ==
    [exec |-> x, spf |-> spf, dkim |-> dkim, dmarc |-> dmarc, whitelisted |-> wl]

MCEmail == {MCMail(FALSE, FALSE, FALSE, FALSE, FALSE), MCMail(FALSE, FALSE, FALSE, TRUE, FALSE),
            MCMail(TRUE, TRUE, TRUE, TRUE, FALSE), MCMail(FALSE, TRUE, FALSE, TRUE, TRUE)}

\* The default pair; one whose spam half is above the default reject half, with
\* a fifth decimal; and one that UpdateThresholds refuses.
MCInitial == [spam |-> 500000, reject |-> 1500000]
MCRequest == {MCInitial, [spam |-> 1600004, reject |-> 2000006],
              [spam |-> 1600000, reject |-> 400000]}

MCSymmetry == Permutations(Admin)
==============================================================================
