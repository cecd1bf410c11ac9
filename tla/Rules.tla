-------------------------------- MODULE Rules --------------------------------
(***************************************************************************)
(* The YARA scanner's rule sets. WatchRules reloads the rules when a .yar  *)
(* file changes: an inotify event or a poll of the modification times arms *)
(* a debounce timer, and when it fires loadRules compiles the directory    *)
(* and swaps the new rule set in. The settings page calls loadRules too,   *)
(* at the same time. A Scan captures the rule set under the read lock and  *)
(* uses it without the lock, for the raw message and for each attachment;  *)
(* the rule set that was replaced is freed (C memory) after a delay.       *)
(*                                                                         *)
(* Time is a tick that runs down the timers of ScanMem and of the delayed  *)
(* Destroy together. The directory is a version number and whether any     *)
(* file of it compiles.                                                    *)
(***************************************************************************)
EXTENDS Naturals

CONSTANTS
    Watcher,        \* the goroutine of WatchRules
    Admin,          \* requests of the settings page
    Scan,           \* scans in progress at one time
    ScanTimeout,    \* ticks one ScanMem may take
    DestroyDelay,   \* ticks before a replaced rule set is destroyed
    MaxParts,       \* bound on the parts of a message
    MaxEdits,       \* bound on changes of the directory
    MaxReloads,     \* bound on the requests
    MaxFailures,    \* bound on compilations that fail
    MaxRules        \* bound on rule sets compiled

Loader == {Watcher} \cup Admin
Ruleset == 1..MaxRules
Nil == 0
Unread == [ver |-> 0, some |-> FALSE]

ASSUME RulesAssumption ==
    /\ Watcher \notin Admin
    /\ ScanTimeout \in Nat \ {0} /\ DestroyDelay \in Nat \ {0} /\ MaxParts \in Nat \ {0}
    /\ MaxEdits \in Nat /\ MaxReloads \in Nat /\ MaxFailures \in Nat /\ MaxRules \in Nat \ {0}

VARIABLES
    dir,            \* the rules directory: [ver, some]
    event,          \* watcher.Events holds an event of a .yar file
    debounce,       \* the debounce timer is armed
    lastMod,        \* lastModTimes
    pc, compiled,   \* each loader: where in loadRules it is, and what it has compiled
    rules,          \* y.rules
    ver,            \* the version y.rules was compiled from
    made,           \* rule sets compiled so far
    dying, due,     \* rule sets whose Destroy is pending, and the ticks until then
    gone,           \* rule sets destroyed
    part, using, timer,   \* each scan: its part (0: none), rule set, and ticks left
    reloads, failures,
    raced           \* history: the watcher cannot know that it is behind

files  == <<dir, event, debounce, lastMod>>
sets   == <<rules, ver, made, dying, due, gone>>
scans  == <<part, using, timer>>
bounds == <<reloads, failures>>
vars   == <<files, pc, compiled, sets, scans, bounds, raced>>

\* NewYARA loads what it finds, before WatchRules starts.
Init ==
    /\ dir \in [ver : {0}, some : BOOLEAN]
    /\ event = FALSE /\ debounce = FALSE /\ lastMod = 0
    /\ pc = [l \in Loader |-> "idle"] /\ compiled = [l \in Loader |-> Unread]
    /\ rules = (IF dir.some THEN 1 ELSE Nil) /\ made = rules /\ ver = 0
    /\ dying = {} /\ due = [r \in Ruleset |-> 0] /\ gone = {}
    /\ part = [s \in Scan |-> 0] /\ using = [s \in Scan |-> Nil] /\ timer = [s \in Scan |-> 0]
    /\ reloads = 0 /\ failures = 0 /\ raced = FALSE

Goto(l, p) == pc' = [pc EXCEPT ![l] = p]

------------------------------------------------------------------------------
(* The directory and the watcher.                                           *)

\* The directory gets another content; inotify tells, or does not. Nobody can tell
\* later when the watcher has read the files but not yet their times.
Change(some, told) ==
    /\ dir.ver < MaxEdits
    /\ dir' = [ver |-> dir.ver + 1, some |-> some]
    /\ event' = (event \/ told)
    /\ raced' = (~event' /\ pc[Watcher] \in {"swap", "stamp"})

Edit ==
    /\ \E some, told \in BOOLEAN : Change(some, told)
    /\ UNCHANGED <<debounce, lastMod, pc, compiled, sets, scans, bounds>>

HandleEvent ==
    /\ pc[Watcher] = "idle" /\ event
    /\ event' = FALSE /\ debounce' = TRUE
    /\ UNCHANGED <<dir, lastMod, pc, compiled, sets, scans, bounds, raced>>

M_Poll_Never == FALSE /\ UNCHANGED vars

Poll ==
    /\ pc[Watcher] = "idle" /\ lastMod # dir.ver
    /\ lastMod' = dir.ver /\ debounce' = TRUE
    /\ UNCHANGED <<dir, event, pc, compiled, sets, scans, bounds, raced>>

Fire ==
    /\ pc[Watcher] = "idle" /\ debounce
    /\ debounce' = FALSE /\ Goto(Watcher, "compile")
    /\ UNCHANGED <<dir, event, lastMod, compiled, sets, scans, bounds, raced>>

\* After loadRules, whatever became of it.
Stamp ==
    /\ pc[Watcher] = "stamp"
    /\ lastMod' = dir.ver /\ Goto(Watcher, "idle")
    /\ UNCHANGED <<dir, event, debounce, compiled, sets, scans, bounds, raced>>

------------------------------------------------------------------------------
(* loadRules, by the watcher or by a request.                               *)

Request(a) ==
    /\ pc[a] = "idle" /\ reloads < MaxReloads
    /\ reloads' = reloads + 1 /\ Goto(a, "compile")

ReloadRules(a) ==
    /\ Request(a)
    /\ UNCHANGED <<files, compiled, sets, scans, failures, raced>>

\* Another directory. WatchRules does not add a watch for it.
SetRulesDir(a) ==
    /\ Request(a)
    /\ \E some \in BOOLEAN : Change(some, FALSE)
    /\ UNCHANGED <<debounce, lastMod, compiled, sets, scans, failures>>

\* The walk: a file that does not open or compile is left out.
Compile(l) ==
    /\ pc[l] = "compile"
    /\ compiled' = [compiled EXCEPT ![l] = dir] /\ Goto(l, "swap")
    /\ UNCHANGED <<files, sets, scans, bounds, raced>>

After(l) ==
    /\ Goto(l, IF l = Watcher THEN "stamp" ELSE "idle")
    /\ compiled' = [compiled EXCEPT ![l] = Unread]

\* NewCompiler, the walk or GetRules returns an error: the old rules stay.
LoadFails(l) ==
    /\ pc[l] = "swap" /\ failures < MaxFailures
    /\ failures' = failures + 1 /\ After(l)
    /\ raced' = (raced \/ l = Watcher)
    /\ UNCHANGED <<files, sets, scans, reloads>>

M_Retire_AtOnce(old) ==
    /\ gone' = gone \cup ({old} \ {Nil})
    /\ UNCHANGED <<dying, due>>

\* The goroutine that sleeps and destroys it.
Retire(old) ==
    /\ dying' = dying \cup ({old} \ {Nil})
    /\ due' = [r \in Ruleset |-> IF r = old THEN DestroyDelay ELSE due[r]]
    /\ UNCHANGED gone

\* The new rule set takes the place of the old one, even of a newer one that a
\* loadRules which started later has swapped in meanwhile.
Swap(l) ==
    /\ pc[l] = "swap" /\ compiled[l].some /\ made < MaxRules
    /\ made' = made + 1 /\ rules' = made' /\ ver' = compiled[l].ver
    /\ Retire(rules)
    /\ After(l) /\ raced' = (raced \/ compiled[l].ver < ver)
    /\ UNCHANGED <<files, scans, bounds>>

\* No file: the old rule set is dropped, and never destroyed.
SwapNone(l) ==
    /\ pc[l] = "swap" /\ ~compiled[l].some
    /\ rules' = Nil /\ ver' = compiled[l].ver
    /\ After(l) /\ raced' = (raced \/ compiled[l].ver < ver)
    /\ UNCHANGED <<files, made, dying, due, gone, scans, bounds>>

Destroy(r) ==
    /\ r \in dying /\ due[r] = 0
    /\ dying' = dying \ {r} /\ gone' = gone \cup {r}
    /\ UNCHANGED <<files, pc, compiled, rules, ver, made, due, scans, bounds, raced>>

------------------------------------------------------------------------------
(* Scan.                                                                    *)

\* Without rules the message is clean.
Begin(s) ==
    /\ part[s] = 0 /\ rules # Nil
    /\ part' = [part EXCEPT ![s] = 1]
    /\ using' = [using EXCEPT ![s] = rules]
    /\ timer' = [timer EXCEPT ![s] = ScanTimeout]
    /\ UNCHANGED <<files, pc, compiled, sets, bounds, raced>>

\* ScanMem of the next attachment, with the same timeout again.
NextPart(s) ==
    /\ part[s] \in 1..MaxParts - 1
    /\ part' = [part EXCEPT ![s] = @ + 1]
    /\ timer' = [timer EXCEPT ![s] = ScanTimeout]
    /\ UNCHANGED <<files, pc, compiled, sets, using, bounds, raced>>

\* After the last part, or on an error.
End(s) ==
    /\ part[s] > 0
    /\ part' = [part EXCEPT ![s] = 0]
    /\ using' = [using EXCEPT ![s] = Nil]
    /\ timer' = [timer EXCEPT ![s] = 0]
    /\ UNCHANGED <<files, pc, compiled, sets, bounds, raced>>

\* ScanMem ends within its timeout; Destroy comes after its delay, at any time.
Tick ==
    /\ \A s \in Scan : part[s] > 0 => timer[s] > 0
    /\ timer' = [s \in Scan |-> IF part[s] > 0 THEN timer[s] - 1 ELSE timer[s]]
    /\ due' = [r \in Ruleset |-> IF due[r] > 0 THEN due[r] - 1 ELSE due[r]]
    /\ UNCHANGED <<files, pc, compiled, rules, ver, made, dying, gone, part, using, bounds, raced>>

Next ==
    \/ Edit \/ HandleEvent \/ Poll \/ Fire \/ Stamp \/ Tick
    \/ \E a \in Admin : ReloadRules(a) \/ SetRulesDir(a)
    \/ \E l \in Loader : Compile(l) \/ LoadFails(l) \/ Swap(l) \/ SwapNone(l)
    \/ \E r \in Ruleset : Destroy(r)
    \/ \E s \in Scan : Begin(s) \/ NextPart(s) \/ End(s)

Spec == Init /\ [][Next]_vars

\* The select loop comes round to what it has, the ticker of the poll keeps going,
\* and a loadRules that has started ends.
Fairness ==
    /\ WF_vars(HandleEvent) /\ WF_vars(Poll) /\ WF_vars(Fire) /\ WF_vars(Stamp)
    /\ \A l \in Loader : WF_vars(Compile(l)) /\ WF_vars(Swap(l) \/ SwapNone(l) \/ LoadFails(l))

FairSpec == Spec /\ Fairness

------------------------------------------------------------------------------
(* Properties.                                                              *)

\* Every variable stays in its type.
TypeOK ==
    /\ dir \in [ver : Nat, some : BOOLEAN] /\ lastMod \in Nat
    /\ event \in BOOLEAN /\ debounce \in BOOLEAN /\ raced \in BOOLEAN
    /\ pc \in [Loader -> {"idle", "compile", "swap", "stamp"}]
    /\ compiled \in [Loader -> [ver : Nat, some : BOOLEAN]]
    /\ made \in 0..MaxRules /\ rules \in 0..made /\ ver \in Nat
    /\ dying \subseteq 1..made /\ gone \subseteq 1..made
    /\ due \in [Ruleset -> 0..DestroyDelay]
    /\ part \in [Scan -> 0..MaxParts] /\ using \in [Scan -> 0..made]
    /\ timer \in [Scan -> 0..ScanTimeout]
    /\ reloads \in Nat /\ failures \in Nat

\* The rule set that Scan would capture has not been destroyed and nothing is going
\* to destroy it, however the loads of the watcher and of the settings page overlap.
CurrentIsAlive == rules \notin dying \cup gone

\* While the ScanMem calls of a scan fit in the delay, the rule set they use is there.
\* yara.go:303 gives the reason "a delay that exceeds the maximum YARA scan timeout",
\* which covers the first part of a message and, with the timeouts there are, the
\* second.
InUseWithinDelay ==
    \A s \in Scan : part[s] > 0 /\ part[s] * ScanTimeout < DestroyDelay => using[s] \notin gone

\* yara.go:304 "Any goroutine that captured old under the read lock will have finished
\* scanning before the delay expires."
FinishedBeforeDestroy ==
    \A s \in Scan : part[s] > 0 => using[s] \notin gone

\* yara.go:140 "The poll catches these missed events so hot-reload works regardless": in
\* the end the rules are those of the directory, without inotify too, unless the last
\* change came, untold, between the walk and the stamp of a load of the watcher, or a
\* load of the watcher failed, or an older compilation was swapped in last.
LatestLoaded == <>[](raced \/ ver = dir.ver)
==============================================================================
