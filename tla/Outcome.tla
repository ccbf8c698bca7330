------------------------------ MODULE Outcome ------------------------------
(***************************************************************************)
(* The outcome loop of one feature: its pull requests are merged on         *)
(* GitHub, a shepherd pass or the P9 approval notices and starts the        *)
(* post-ship watch, daily reads measure it, the finish judges it and parks  *)
(* the founder's Iterate gate, and the answer closes the watch or arms a    *)
(* new window.                                                              *)
(*                                                                         *)
(* A step ends at an await: what it read from the database before is used   *)
(* as it was.  Time is only whether the current window is over; a window is *)
(* a number, the first one starting when the watch was spawned.             *)
(***************************************************************************)
EXTENDS Integers, FiniteSets

CONSTANTS
    Watchers,    \* worker processes; each runs shepherd_forever and watch_forever
    PullRequests,\* the pull requests the feature's runs may open
    HasMetric,   \* is a success metric or a metric event recorded
    HasTarget,   \* can a number be read from the metric's target
    WatchLimit   \* how often each outside event may happen

WatchEvents == {"rearm", "lap", "crash", "lostNotice", "query", "abort"}

ASSUME OutcomeAssumption ==
    /\ HasMetric \in BOOLEAN /\ HasTarget \in BOOLEAN
    /\ WatchLimit \in [WatchEvents -> Nat]

VARIABLES
    feature,  \* status and lap of the feature's row, and the lap each PR was opened in
    merged,   \* the pull requests merged on GitHub
    seen,     \* the pull requests whose row says merged
    approval, \* is a P9 answer between its CAS and its check for merged rows
    notice,   \* per process, how far it is in the merged branch of the shepherd
    watch,    \* the watch row: status, current window, is the window over
    readings, \* the windows that have a successful reading
    ledger,   \* the outcomes row
    finish,   \* per process, how far its _finish_watch is
    packet,   \* what the Iterate gate shows: the window and the verdict
    memo,     \* the memory-propagation task
    wleft     \* how often each outside event may still happen

watchVars == <<feature, merged, seen, approval, notice, watch, readings,
               ledger, finish, packet, memo, wleft>>

Laps    == 1 .. WatchLimit["lap"] + 1
Windows == 1 .. WatchLimit["rearm"] + 1
Verdicts == {"judged", "unmeasured"}      \* moved, flat and regressed alike

NoLedger == [window |-> 0, baseline |-> 0, verdict |-> "unmeasured",
             learning |-> FALSE, decided |-> FALSE]
NoWatch  == [status |-> "none", window |-> 0, due |-> FALSE]
NoNotice == [pc |-> "idle", shipped |-> FALSE]
NoFinish == [pc |-> "idle", window |-> 0]

Spend(e) == wleft[e] > 0 /\ wleft' = [wleft EXCEPT ![e] = @ - 1]

WatchInit ==
    /\ feature = [status |-> "running", lap |-> 1,
                  opened |-> [p \in PullRequests |-> 0]]
    /\ merged = {} /\ seen = {} /\ approval = FALSE
    /\ notice = [w \in Watchers |-> NoNotice]
    /\ watch = NoWatch /\ readings = {} /\ ledger = NoLedger
    /\ finish = [w \in Watchers |-> NoFinish]
    /\ packet = [window |-> 0, verdict |-> "unmeasured"]
    /\ memo = "none"
    /\ wleft = WatchLimit

-----------------------------------------------------------------------------
(* The feature, as far as the watch depends on it.                          *)

OpenPr(p) ==
    /\ feature.status = "running" /\ feature.opened[p] = 0
    /\ feature' = [feature EXCEPT !.opened[p] = feature.lap]
    /\ UNCHANGED <<merged, seen, approval, notice, watch, readings, ledger,
                   finish, packet, memo, wleft>>

ReachLastGate ==
    /\ feature.status = "running"
    /\ feature' = [feature EXCEPT !.status = "gate"]
    /\ UNCHANGED <<merged, seen, approval, notice, watch, readings, ledger,
                   finish, packet, memo, wleft>>

Abort ==
    /\ feature.status = "gate" /\ Spend("abort")
    /\ feature' = [feature EXCEPT !.status = "skipped"]
    /\ UNCHANGED <<merged, seen, approval, notice, watch, readings, ledger,
                   finish, packet, memo>>

\* A new lap clears what a former lap measured, but not the rows of its pull
\* requests; a feature that shipped is refused.
NewLap ==
    /\ feature.status \in {"skipped", "no_fix"} /\ Spend("lap")
    /\ feature' = [feature EXCEPT !.status = "running", !.lap = @ + 1]
    /\ watch' = NoWatch /\ readings' = {} /\ ledger' = NoLedger
    /\ UNCHANGED <<merged, seen, approval, notice, finish, packet, memo>>

HumanMerges(p) ==
    /\ feature.opened[p] > 0 /\ p \notin merged
    /\ merged' = merged \union {p}
    /\ UNCHANGED <<feature, seen, approval, notice, watch, readings, ledger,
                   finish, packet, memo, wleft>>

-----------------------------------------------------------------------------
(* Noticing the merge and spawning the watch.                               *)

Running == [status |-> "watching", window |-> 1, due |-> FALSE]

\* _maybe_spawn_watch: only for a terminal feature with a metric; the insert
\* of a second watch is refused by the key, and swallowed.
Spawn(shipped) ==
    watch' = IF shipped /\ HasMetric /\ watch.status = "none" THEN Running ELSE watch

\* Approving the last gate; the mirror calls that follow are awaits.
ApproveLast ==
    /\ feature.status = "gate"
    /\ LET hasUrl == \E p \in PullRequests : feature.opened[p] = feature.lap
       IN /\ feature' = [feature EXCEPT !.status = IF hasUrl THEN "pr_opened" ELSE "no_fix"]
          /\ approval' = hasUrl
    /\ UNCHANGED <<merged, seen, notice, watch, readings, ledger, finish,
                   packet, memo, wleft>>

\* A tracked pull request was merged before the approval.
LooksForMerged(known) == known # {}
ApprovalChecks ==
    /\ approval
    /\ approval' = FALSE
    /\ Spawn(feature.status = "pr_opened" /\ LooksForMerged(seen))
    /\ UNCHANGED <<feature, merged, seen, notice, readings, ledger, finish,
                   packet, memo, wleft>>

\* get_pr said merged: the row is set first, then the ticket is told.
SaysMerged(p) == p \in merged
RecordMerge(w, p) ==
    /\ notice[w].pc = "idle" /\ SaysMerged(p) /\ p \notin seen
    /\ seen' = seen \union {p}
    /\ notice' = [notice EXCEPT ![w].pc = "recorded"]
    /\ UNCHANGED <<feature, merged, approval, watch, readings, ledger, finish,
                   packet, memo, wleft>>

\* The feature's row is read, then the ticket's stage field is awaited.
ReadFeature(w) ==
    /\ notice[w].pc = "recorded"
    /\ notice' = [notice EXCEPT ![w] = [pc |-> "read",
                                        shipped |-> feature.status = "pr_opened"]]
    /\ UNCHANGED <<feature, merged, seen, approval, watch, readings, ledger,
                   finish, packet, memo, wleft>>

SpawnFromMerge(w) ==
    /\ notice[w].pc = "read"
    /\ Spawn(notice[w].shipped)
    /\ notice' = [notice EXCEPT ![w] = NoNotice]
    /\ UNCHANGED <<feature, merged, seen, approval, readings, ledger, finish,
                   packet, memo, wleft>>

-----------------------------------------------------------------------------
(* Measuring and judging.                                                   *)

WindowCloses ==
    /\ watch.status = "watching" /\ ~watch.due
    /\ watch' = [watch EXCEPT !.due = TRUE]
    /\ UNCHANGED <<feature, merged, seen, approval, notice, readings, ledger,
                   finish, packet, memo, wleft>>

\* One read a day at most (the throttle); a failed read leaves a detail and no
\* row.
Throttled == watch.window \in readings
DailyRead(w) ==
    /\ finish[w].pc = "idle" /\ watch.status = "watching" /\ ~watch.due
    /\ ~Throttled
    /\ readings' = readings \union {watch.window}
    /\ UNCHANGED <<feature, merged, seen, approval, notice, watch, ledger,
                   finish, packet, memo, wleft>>

\* The pass takes the row as it is and asks for the final number.
WindowClosed == watch.status = "watching" /\ watch.due
StartFinish(w) ==
    /\ finish[w].pc = "idle" /\ WindowClosed
    /\ finish' = [finish EXCEPT ![w] = [pc |-> "final", window |-> watch.window]]
    /\ UNCHANGED <<feature, merged, seen, approval, notice, watch, readings,
                   ledger, packet, memo, wleft>>

\* compute_verdict: without a reading of this window, nothing is judged; with
\* neither a target nor a baseline neither.
Verdict(window, known, baseline) ==
    IF window \in known /\ (HasTarget \/ baseline # 0) THEN "judged" ELSE "unmeasured"

\* outcome_add: the measurement is rewritten, the human's columns are not.
UpsertAll(window, known, baseline) ==
    [window |-> window, baseline |-> baseline,
     verdict |-> Verdict(window, known, baseline),
     learning |-> FALSE, decided |-> FALSE]
Upsert(window, known, baseline) ==
    [UpsertAll(window, known, baseline)
        EXCEPT !.learning = ledger.learning, !.decided = ledger.decided]

\* The final number is back, or the query failed.  A stored baseline is kept,
\* and then there is nothing to await before the ledger row.
FinalRead(w) ==
    /\ finish[w].pc = "final"
    /\ \E ok \in BOOLEAN :
        /\ IF ok THEN UNCHANGED wleft ELSE Spend("query")
        /\ readings' = IF ok THEN readings \union {finish[w].window} ELSE readings
        /\ IF ledger.baseline # 0
           THEN /\ ledger' = Upsert(finish[w].window, readings', ledger.baseline)
                /\ finish' = [finish EXCEPT ![w].pc = "stored"]
           ELSE /\ finish' = [finish EXCEPT ![w].pc = "baseline"]
                /\ UNCHANGED ledger
    /\ UNCHANGED <<feature, merged, seen, approval, notice, watch, packet, memo>>

\* The baseline is of the time before the spawn, whatever window this is.
Anchor(window) == 1
BaselineRead(w) ==
    /\ finish[w].pc = "baseline"
    /\ \E ok \in BOOLEAN :
        /\ IF ok THEN UNCHANGED wleft ELSE Spend("query")
        /\ ledger' = Upsert(finish[w].window, readings,
                            IF ok THEN Anchor(finish[w].window) ELSE 0)
    /\ finish' = [finish EXCEPT ![w].pc = "stored"]
    /\ UNCHANGED <<feature, merged, seen, approval, notice, watch, readings,
                   packet, memo>>

\* The packet was built from the ledger row just written; the CAS compares
\* the status and nothing else.
StillWatching == watch.status = "watching"
ParkIterate(w) ==
    /\ finish[w].pc = "stored"
    /\ finish' = [finish EXCEPT ![w] = NoFinish]
    /\ IF StillWatching
       THEN /\ watch' = [watch EXCEPT !.status = "awaiting_input"]
            /\ packet' = [window |-> finish[w].window, verdict |-> ledger.verdict]
       ELSE UNCHANGED <<watch, packet>>
    /\ UNCHANGED <<feature, merged, seen, approval, notice, readings, ledger,
                   memo, wleft>>

-----------------------------------------------------------------------------
(* The Iterate gate's answers.                                              *)

Signed(entry) == [entry EXCEPT !.decided = TRUE]        \* outcome_set
WatchProceed(text) ==
    /\ watch.status = "awaiting_input"
    /\ watch' = [watch EXCEPT !.status = "done"]
    /\ ledger' = Signed([ledger EXCEPT !.learning = text])
    /\ memo' = "queued"
    /\ UNCHANGED <<feature, merged, seen, approval, notice, readings, finish,
                   packet, wleft>>

\* Also in the middle of a window; a watch never judged has no row to sign.
WatchSkip ==
    /\ watch.status \in {"awaiting_input", "watching"} /\ Spend("abort")
    /\ watch' = [watch EXCEPT !.status = "skipped"]
    /\ ledger' = IF ledger.window = 0 THEN ledger ELSE Signed(ledger)
    /\ UNCHANGED <<feature, merged, seen, approval, notice, readings, finish,
                   packet, memo>>

WatchRedo ==
    /\ watch.status = "awaiting_input" /\ Spend("rearm")
    /\ watch' = [status |-> "watching", window |-> watch.window + 1, due |-> FALSE]
    /\ UNCHANGED <<feature, merged, seen, approval, notice, readings, ledger,
                   finish, packet, memo>>

\* The background task commits the entry and pushes it, then opens the draft.
MemoryPushed ==
    /\ memo = "queued"
    /\ memo' \in {"pushed", "failed"}
    /\ UNCHANGED <<feature, merged, seen, approval, notice, watch, readings,
                   ledger, finish, packet, wleft>>

MemoryDrafted ==
    /\ memo = "pushed"
    /\ memo' \in {"drafted", "failed"}
    /\ UNCHANGED <<feature, merged, seen, approval, notice, watch, readings,
                   ledger, finish, packet, wleft>>

\* A process dies: its passes, the answer handler and the background task go
\* with it.  Dying between a merge's row and the spawn is an event of its own.
WatcherCrash(w) ==
    /\ Spend(IF notice[w].pc # "idle" \/ approval THEN "lostNotice" ELSE "crash")
    /\ notice' = [notice EXCEPT ![w] = NoNotice]
    /\ finish' = [finish EXCEPT ![w] = NoFinish]
    /\ approval' = FALSE
    /\ memo' = IF memo \in {"queued", "pushed"} THEN "lost" ELSE memo
    /\ UNCHANGED <<feature, merged, seen, watch, readings, ledger, packet>>

NoticeSteps(w) ==
    \/ \E p \in PullRequests : RecordMerge(w, p)
    \/ ReadFeature(w) \/ SpawnFromMerge(w)
FinishSteps(w) ==
    StartFinish(w) \/ FinalRead(w) \/ BaselineRead(w) \/ ParkIterate(w)

WatchNext ==
    \/ \E p \in PullRequests : OpenPr(p) \/ HumanMerges(p)
    \/ ReachLastGate \/ Abort \/ NewLap \/ ApproveLast \/ ApprovalChecks
    \/ \E w \in Watchers : NoticeSteps(w) \/ DailyRead(w) \/ FinishSteps(w) \/ WatcherCrash(w)
    \/ WindowCloses
    \/ \E text \in BOOLEAN : WatchProceed(text)
    \/ WatchSkip \/ WatchRedo
    \/ MemoryPushed \/ MemoryDrafted

WatchSpec == WatchInit /\ [][WatchNext]_watchVars

-----------------------------------------------------------------------------
(* Properties.                                                              *)

\* The type invariant; in particular a verdict in the ledger always belongs
\* to a window that was opened.
WatchTypeOK ==
    /\ feature \in [status : {"running", "gate", "skipped", "no_fix", "pr_opened"},
                    lap : Laps, opened : [PullRequests -> {0} \union Laps]]
    /\ merged \subseteq PullRequests /\ seen \subseteq merged
    /\ approval \in BOOLEAN
    /\ notice \in [Watchers -> [pc : {"idle", "recorded", "read"}, shipped : BOOLEAN]]
    /\ watch \in [status : {"none", "watching", "awaiting_input", "skipped", "done"},
                  window : {0} \union Windows, due : BOOLEAN]
    /\ readings \subseteq Windows
    /\ ledger \in [window : {0} \union Windows, baseline : {0} \union Windows,
                   verdict : Verdicts, learning : BOOLEAN, decided : BOOLEAN]
    /\ finish \in [Watchers -> [pc : {"idle", "final", "baseline", "stored"},
                                window : {0} \union Windows]]
    /\ packet \in [window : {0} \union Windows, verdict : Verdicts]
    /\ memo \in {"none", "queued", "pushed", "drafted", "failed", "lost"}
    /\ wleft \in [WatchEvents -> Nat]

\* Whoever comes second notices: once a shipped feature has a merged row, the
\* watch exists unless somebody is still about to start it.  The shepherd
\* writes the row and then reads the feature, the approval writes the feature
\* and then reads the rows (_shepherd_pr_locked, _answer_feature_inner).
MergedFeatureIsWatched ==
    HasMetric /\ feature.status = "pr_opened" /\ seen # {} =>
        \/ watch.status # "none"
        \/ approval
        \/ \E w \in Watchers :
              notice[w].pc = "recorded" \/ (notice[w].pc = "read" /\ notice[w].shipped)

\* No gate before the ship: a watch exists only for a terminal feature, one of
\* whose pull requests of this very lap is merged.
WatchFollowsMerge ==
    watch.status # "none" =>
        /\ feature.status = "pr_opened"
        /\ \E p \in merged : feature.opened[p] = feature.lap

\* The Iterate gate shows the verdict of the window the watch is in, and it
\* was judged from that window's own readings: a finish that was overtaken by
\* an answer never parks the re-armed watch (the CAS in _finish_watch).
VerdictOfItsWindow ==
    watch.status = "awaiting_input" =>
        /\ packet.window = watch.window
        /\ packet.verdict = "judged" => watch.window \in readings

\* A baseline, whenever it was finally obtained, is of the time before the
\* spawn, and is never lost again.
BaselineIsPreShip ==
    [][/\ ledger'.baseline \in {0, 1}
       /\ ledger'.baseline # ledger.baseline => ledger.baseline = 0 \/ watch'.status = "none"]_watchVars

\* What a human signed stays signed: a late finish may rewrite the measurement
\* but never the learning or the signature (outcome_add against outcome_set).
SignatureStands ==
    [][ledger.decided =>
         ledger'.decided /\ ledger'.learning = ledger.learning]_watchVars

\* The ledger can be believed: no shipped feature goes unwatched and none is
\* watched before it is merged, a gate shows the verdict of its own window
\* against a number from before the ship, and a signature is never undone,
\* however finishes, answers and merges overtake each other.
LedgerIsTrue ==
    /\ []MergedFeatureIsWatched /\ []WatchFollowsMerge /\ []VerdictOfItsWindow
    /\ BaselineIsPreShip /\ SignatureStands

\* Fair: the passes and the handlers run, and time passes.  A
\* human need not answer, and nothing needs to be merged.
WatchFairness ==
    /\ WF_watchVars(ApprovalChecks) /\ WF_watchVars(WindowCloses)
    /\ \A w \in Watchers :
        WF_watchVars(NoticeSteps(w)) /\ WF_watchVars(FinishSteps(w))
WatchFairSpec == WatchSpec /\ WatchFairness

\* No window is open: every window is to be judged, by itself or by a human.
WatchRests == watch.status # "watching"
=============================================================================
