---------------------------- MODULE LoopsProofs -----------------------------
(*****************************************************************************)
(* What holds of the loops beside the pipeline, for any number of processes, *)
(* rows, pull requests and gates: the watch of what was shipped, the review, *)
(* the scheduler, the digests, the proposals and the nudges.  Each has an    *)
(* inductive invariant of its own, and what follows from it.                 *)
(*****************************************************************************)
EXTENDS Loops, TLAPS, FiniteSetTheorems

-----------------------------------------------------------------------------
(* Outcome: the watch of what was shipped.                                  *)

Stages == {"running", "gate", "skipped", "no_fix", "pr_opened"}
WatchStates == {"none", "watching", "awaiting_input", "skipped", "done"}
Ledgers == [window : Nat, baseline : {0, 1}, verdict : Verdicts, learning : BOOLEAN,
            decided : BOOLEAN]

WatchTypes ==
    /\ feature \in [status : Stages, lap : Nat, opened : [PullRequests -> Nat]]
    /\ merged \subseteq PullRequests /\ seen \subseteq merged /\ approval \in BOOLEAN
    /\ notice \in [Watchers -> [pc : {"idle", "recorded", "read"}, shipped : BOOLEAN]]
    /\ watch \in [status : WatchStates, window : Nat, due : BOOLEAN]
    /\ readings \subseteq Nat /\ ledger \in Ledgers
    /\ finish \in [Watchers -> [pc : {"idle", "final", "baseline", "stored"}, window : Nat]]
    /\ packet \in [window : Nat, verdict : Verdicts]
    /\ wleft \in [WatchEvents -> Nat]

\* The counters stay within their bounds.
LapsAreBounded ==
    /\ feature.lap > 0 /\ feature.lap + wleft["lap"] <= WatchLimit["lap"] + 1
    /\ \A p \in PullRequests : feature.opened[p] <= feature.lap
    /\ wleft["lostNotice"] <= WatchLimit["lostNotice"]

\* A watch is of a feature that shipped, and whoever believes in the ship is right.
WatchIsOfAShip ==
    /\ watch.status # "none" => feature.status = "pr_opened" /\ seen # {}
    /\ approval => feature.status = "pr_opened"
    /\ \A w \in Watchers :
        /\ notice[w].shipped => feature.status = "pr_opened"
        /\ notice[w].pc # "idle" => seen # {}
        /\ finish[w].pc # "idle" => watch.status # "none"
    /\ \A p \in merged : feature.opened[p] > 0
    /\ ledger.decided => watch.status \in {"skipped", "done"}

WatchBase == WatchTypes /\ LapsAreBounded /\ WatchIsOfAShip

\* A finish that is under way is of the window the watch is in, unless the
\* watch is skipped meanwhile; what it has stored was judged from that window.
FinishIsOfItsWindow ==
    \A w \in Watchers :
        /\ finish[w].pc # "idle" => /\ watch.status \in {"watching", "skipped"}
                                    /\ finish[w].window = watch.window
        /\ finish[w].pc = "baseline" => ledger.baseline = 0
        /\ finish[w].pc = "stored" /\ ledger.verdict = "judged" => watch.window \in readings

WatchAlone == FinishIsOfItsWindow /\ VerdictOfItsWindow

OneWatcher == \A v, w \in Watchers : v = w

LEMMA WatchStarts == WatchInit => WatchBase /\ WatchAlone /\ MergedFeatureIsWatched
<1> SUFFICES ASSUME WatchInit PROVE WatchBase /\ WatchAlone /\ MergedFeatureIsWatched
  OBVIOUS
<1>1. /\ NoNotice.pc = "idle" /\ ~NoNotice.shipped /\ NoFinish.pc = "idle"
      /\ NoNotice \in [pc : {"idle", "recorded", "read"}, shipped : BOOLEAN]
      /\ NoFinish \in [pc : {"idle", "final", "baseline", "stored"}, window : Nat]
      /\ NoLedger \in Ledgers /\ ~NoLedger.decided
      /\ NoWatch \in [status : WatchStates, window : Nat, due : BOOLEAN] /\ NoWatch.status = "none"
  BY DEF NoNotice, NoFinish, NoLedger, Ledgers, Verdicts, NoWatch, WatchStates
<1>2. WatchTypes
  BY <1>1, OutcomeAssumption DEF WatchInit, WatchTypes, Stages, Verdicts, OutcomeAssumption
<1>3. LapsAreBounded
  BY OutcomeAssumption DEF WatchInit, LapsAreBounded, OutcomeAssumption, WatchEvents
<1>4. WatchIsOfAShip
  BY <1>1 DEF WatchInit, WatchIsOfAShip
<1>5. WatchAlone /\ MergedFeatureIsWatched
  BY <1>1 DEF WatchInit, WatchAlone, FinishIsOfItsWindow, VerdictOfItsWindow, MergedFeatureIsWatched
<1> QED
  BY <1>2, <1>3, <1>4, <1>5 DEF WatchBase

LEMMA EventSpent ==
    ASSUME WatchTypes, NEW e \in WatchEvents, Spend(e)
    PROVE  /\ wleft' \in [WatchEvents -> Nat] /\ wleft[e] > 0
           /\ wleft'[e] = wleft[e] - 1 /\ \A x \in WatchEvents : x # e => wleft'[x] = wleft[x]
  BY DEF Spend, WatchTypes

\* The feature's own steps.
LEMMA FeatureSteps ==
    ASSUME WatchBase,
           ReachLastGate \/ Abort \/ NewLap \/ ApproveLast
           \/ \E p \in PullRequests : OpenPr(p) \/ HumanMerges(p)
    PROVE  WatchBase'
<1> USE DEF WatchBase
<1>1. CASE \E p \in PullRequests : OpenPr(p)
  <2>1. PICK p \in PullRequests : OpenPr(p)
    BY <1>1
  <2>2. /\ feature' \in [status : Stages, lap : Nat, opened : [PullRequests -> Nat]]
        /\ feature'.status = feature.status /\ feature'.lap = feature.lap
        /\ feature'.opened = [feature.opened EXCEPT ![p] = feature.lap]
    BY <2>1 DEF OpenPr, WatchTypes
  <2>3. \A q \in PullRequests : feature'.opened[q] = IF q = p THEN feature.lap ELSE feature.opened[q]
    BY <2>2 DEF WatchTypes
  <2>4. LapsAreBounded'
    BY <2>1, <2>2, <2>3 DEF OpenPr, LapsAreBounded, WatchTypes
  <2>5. WatchIsOfAShip'
    BY <2>1, <2>2, <2>3 DEF OpenPr, LapsAreBounded, WatchTypes, WatchIsOfAShip
  <2> QED
    BY <2>1, <2>2, <2>4, <2>5 DEF OpenPr, WatchTypes
<1>2. CASE \E p \in PullRequests : HumanMerges(p)
  BY <1>2 DEF HumanMerges, WatchTypes, LapsAreBounded, WatchIsOfAShip
<1>3. CASE ReachLastGate
  BY <1>3 DEF ReachLastGate, WatchTypes, LapsAreBounded, WatchIsOfAShip, Stages
<1>4. CASE Abort
  BY <1>4, EventSpent DEF Abort, WatchTypes, LapsAreBounded, WatchIsOfAShip, Stages, WatchEvents
<1>5. CASE NewLap
  <2>1. wleft' \in [WatchEvents -> Nat] /\ wleft'["lap"] = wleft["lap"] - 1 /\ wleft["lap"] > 0
        /\ wleft'["lostNotice"] = wleft["lostNotice"]
    BY <1>5, EventSpent DEF NewLap, WatchEvents
  <2>2. /\ feature' \in [status : Stages, lap : Nat, opened : [PullRequests -> Nat]]
        /\ feature'.lap = feature.lap + 1 /\ feature'.opened = feature.opened
        /\ feature.status # "pr_opened"
    <3>1. feature.lap + 1 \in Nat
      BY DEF WatchTypes
    <3> QED
      BY <1>5, <3>1 DEF NewLap, WatchTypes, Stages
  <2>3. watch.status = "none" /\ watch' = NoWatch /\ ledger' = NoLedger /\ readings' = {}
    BY <1>5, <2>2 DEF NewLap, WatchIsOfAShip
  <2>4. NoWatch.status = "none" /\ NoLedger \in Ledgers /\ ~NoLedger.decided
        /\ NoWatch \in [status : WatchStates, window : Nat, due : BOOLEAN]
    BY DEF NoWatch, NoLedger, Ledgers, Verdicts, WatchStates
  <2>5. WatchTypes'
    BY <1>5, <2>1, <2>2, <2>3, <2>4 DEF NewLap, WatchTypes
  <2>6. LapsAreBounded'
    BY <2>1, <2>2, OutcomeAssumption DEF LapsAreBounded, WatchTypes, OutcomeAssumption, WatchEvents
  <2>7. WatchIsOfAShip'
    BY <1>5, <2>2, <2>3, <2>4 DEF NewLap, WatchIsOfAShip
  <2> QED
    BY <2>5, <2>6, <2>7
<1>6. CASE ApproveLast
  <2>1. PICK hasUrl \in BOOLEAN :
            /\ feature' = [feature EXCEPT !.status = IF hasUrl THEN "pr_opened" ELSE "no_fix"]
            /\ approval' = hasUrl
    BY <1>6 DEF ApproveLast
  <2>2. /\ feature' \in [status : Stages, lap : Nat, opened : [PullRequests -> Nat]]
        /\ feature'.status = (IF hasUrl THEN "pr_opened" ELSE "no_fix")
        /\ feature'.lap = feature.lap /\ feature'.opened = feature.opened
    BY <2>1 DEF WatchTypes, Stages
  <2>3. feature.status = "gate"
        /\ UNCHANGED <<merged, seen, notice, watch, readings, ledger, finish, packet, memo, wleft>>
    BY <1>6 DEF ApproveLast
  <2> QED
    BY <2>1, <2>2, <2>3 DEF WatchTypes, LapsAreBounded, WatchIsOfAShip
<1> QED
  BY <1>1, <1>2, <1>3, <1>4, <1>5, <1>6

\* A watch is started once at most, of a feature that shipped.
LEMMA Spawned ==
    ASSUME WatchBase, NEW shipped \in BOOLEAN, Spawn(shipped),
           shipped => feature.status = "pr_opened" /\ seen # {}
    PROVE  /\ watch' \in [status : WatchStates, window : Nat, due : BOOLEAN]
           /\ watch.status # "none" => watch' = watch
           /\ watch'.status # "none" => feature.status = "pr_opened" /\ seen # {}
           /\ watch'.status # "awaiting_input" \/ watch' = watch
           /\ watch'.status # "none" /\ watch.status = "none" => shipped /\ HasMetric
           /\ HasMetric /\ shipped => watch'.status # "none"
<1>1. Running \in [status : WatchStates, window : Nat, due : BOOLEAN] /\ Running.status = "watching"
  BY DEF Running, WatchStates
<1>2. watch' = watch \/ (watch' = Running /\ shipped /\ HasMetric /\ watch.status = "none")
  BY DEF Spawn
<1>3. HasMetric /\ shipped /\ watch.status = "none" => watch' = Running
  BY DEF Spawn
<1> QED
  BY <1>1, <1>2, <1>3 DEF WatchBase, WatchTypes, WatchIsOfAShip

\* Noticing the merge.
LEMMA Noticing ==
    ASSUME WatchBase, ApprovalChecks \/ \E w \in Watchers : NoticeSteps(w)
    PROVE  WatchBase'
<1> USE DEF WatchBase
<1>1. CASE ApprovalChecks
  <2>1. PICK shipped \in BOOLEAN : shipped = (feature.status = "pr_opened" /\ LooksForMerged(seen))
    OBVIOUS
  <2>2. Spawn(shipped) /\ (shipped => feature.status = "pr_opened" /\ seen # {})
    BY <1>1, <2>1 DEF ApprovalChecks, LooksForMerged
  <2>3. /\ watch' \in [status : WatchStates, window : Nat, due : BOOLEAN]
        /\ watch.status # "none" => watch' = watch
        /\ watch'.status # "none" => feature.status = "pr_opened" /\ seen # {}
    BY <2>2, Spawned
  <2> QED
    BY <1>1, <2>3 DEF ApprovalChecks, WatchTypes, LapsAreBounded, WatchIsOfAShip
<1>2. ASSUME NEW w \in Watchers, NoticeSteps(w) PROVE WatchBase'
  <2>1. ASSUME NEW p \in PullRequests, RecordMerge(w, p) PROVE WatchBase'
    <3>1. notice' \in [Watchers -> [pc : {"idle", "recorded", "read"}, shipped : BOOLEAN]]
          /\ \A v \in Watchers : notice'[v].shipped = notice[v].shipped
      BY <2>1 DEF RecordMerge, WatchTypes
    <3> QED
      BY <2>1, <3>1 DEF RecordMerge, WatchTypes, LapsAreBounded, WatchIsOfAShip, SaysMerged
  <2>2. CASE ReadFeature(w)
    BY <2>2 DEF ReadFeature, WatchTypes, LapsAreBounded, WatchIsOfAShip
  <2>3. CASE SpawnFromMerge(w)
    <3>1. NoNotice.pc = "idle" /\ ~NoNotice.shipped
          /\ NoNotice \in [pc : {"idle", "recorded", "read"}, shipped : BOOLEAN]
      BY DEF NoNotice
    <3>2. notice[w].shipped \in BOOLEAN /\ (notice[w].shipped => feature.status = "pr_opened" /\ seen # {})
      BY <2>3 DEF WatchTypes, WatchIsOfAShip, SpawnFromMerge
    <3>3. /\ watch' \in [status : WatchStates, window : Nat, due : BOOLEAN]
          /\ watch.status # "none" => watch' = watch
          /\ watch'.status # "none" => feature.status = "pr_opened" /\ seen # {}
      BY <2>3, <3>2, Spawned DEF SpawnFromMerge
    <3> QED
      BY <2>3, <3>1, <3>3 DEF SpawnFromMerge, WatchTypes, LapsAreBounded, WatchIsOfAShip
  <2> QED
    BY <1>2, <2>1, <2>2, <2>3 DEF NoticeSteps
<1> QED
  BY <1>1, <1>2

Answers == WatchSkip \/ WatchRedo \/ \E text \in BOOLEAN : WatchProceed(text)

\* What the finish writes into the ledger.
LEMMA Upserted ==
    ASSUME WatchBase, NEW window \in Nat, NEW known \in SUBSET Nat, NEW baseline \in {0, 1}
    PROVE  LET entry == Upsert(window, known, baseline)
           IN /\ entry \in Ledgers /\ entry.window = window /\ entry.baseline = baseline
              /\ entry.learning = ledger.learning /\ entry.decided = ledger.decided
              /\ entry.verdict = "judged" => window \in known
<1>1. UpsertAll(window, known, baseline) \in Ledgers
      /\ UpsertAll(window, known, baseline).window = window
      /\ UpsertAll(window, known, baseline).baseline = baseline
      /\ UpsertAll(window, known, baseline).verdict = Verdict(window, known, baseline)
  BY DEF UpsertAll, Ledgers, Verdicts, Verdict
<1>2. Verdict(window, known, baseline) = "judged" => window \in known
  BY DEF Verdict
<1> HIDE DEF UpsertAll
<1> QED
  BY <1>1, <1>2 DEF Upsert, WatchBase, WatchTypes, Ledgers

\* One step of a finish, and what its process has stored by then.
LEMMA FinishMoves ==
    ASSUME WatchBase, NEW w \in Watchers, FinishSteps(w)
    PROVE  /\ UNCHANGED <<feature, merged, seen, approval, notice>>
           /\ wleft' \in [WatchEvents -> Nat] /\ wleft'["lap"] = wleft["lap"]
           /\ wleft'["lostNotice"] = wleft["lostNotice"]
           /\ finish' \in [Watchers -> [pc : {"idle", "final", "baseline", "stored"}, window : Nat]]
           /\ \A v \in Watchers \ {w} : finish'[v] = finish[v]
           /\ readings \subseteq readings' /\ readings' \subseteq Nat
           /\ ledger' \in Ledgers /\ ledger'.decided = ledger.decided
           /\ ledger'.learning = ledger.learning
           /\ ledger'.baseline # ledger.baseline => finish[w].pc = "baseline" \/ ledger.baseline = 0
           /\ packet' \in [window : Nat, verdict : Verdicts]
           /\ watch' \in [status : WatchStates, window : Nat, due : BOOLEAN]
           /\ watch'.window = watch.window
           /\ \/ /\ finish[w].pc = "idle" /\ finish'[w].pc = "final"
                 /\ finish'[w].window = watch.window
                 /\ watch.status = "watching" /\ UNCHANGED <<watch, ledger, packet>>
              \/ /\ finish[w].pc = "final" /\ finish'[w].window = finish[w].window
                 /\ UNCHANGED <<watch, packet>>
                 /\ \/ /\ finish'[w].pc = "baseline" /\ ledger.baseline = 0 /\ UNCHANGED ledger
                    \/ /\ finish'[w].pc = "stored"
                       /\ ledger'.verdict = "judged" => finish[w].window \in readings'
              \/ /\ finish[w].pc = "baseline" /\ finish'[w].pc = "stored"
                 /\ finish'[w].window = finish[w].window /\ UNCHANGED <<watch, packet>>
                 /\ ledger'.verdict = "judged" => finish[w].window \in readings'
              \/ /\ finish[w].pc = "stored" /\ finish'[w].pc = "idle" /\ UNCHANGED <<ledger, readings>>
                 /\ IF watch.status = "watching"
                    THEN /\ watch'.status = "awaiting_input" /\ packet'.window = finish[w].window
                         /\ packet'.verdict = ledger.verdict
                    ELSE UNCHANGED <<watch, packet>>
<1> USE DEF WatchBase
<1>0. /\ finish \in [Watchers -> [pc : {"idle", "final", "baseline", "stored"}, window : Nat]]
      /\ finish[w] \in [pc : {"idle", "final", "baseline", "stored"}, window : Nat]
      /\ watch \in [status : WatchStates, window : Nat, due : BOOLEAN]
      /\ ledger \in Ledgers /\ readings \subseteq Nat /\ packet \in [window : Nat, verdict : Verdicts]
      /\ wleft \in [WatchEvents -> Nat] /\ finish[w].window \in Nat
      /\ ledger.baseline \in {0, 1} /\ ledger.verdict \in Verdicts
  BY DEF WatchTypes, Ledgers
<1>1. CASE StartFinish(w)
  <2>1. finish' = [finish EXCEPT ![w] = [pc |-> "final", window |-> watch.window]]
        /\ watch.status = "watching" /\ finish[w].pc = "idle"
        /\ UNCHANGED <<feature, merged, seen, approval, notice, watch, readings, ledger, packet, memo, wleft>>
    BY <1>1 DEF StartFinish, WindowClosed
  <2> QED
    BY <1>0, <2>1
<1>2. CASE FinalRead(w)
  <2>1. PICK ok \in BOOLEAN :
        /\ IF ok THEN UNCHANGED wleft ELSE Spend("query")
        /\ readings' = IF ok THEN readings \union {finish[w].window} ELSE readings
        /\ IF ledger.baseline # 0
           THEN /\ ledger' = Upsert(finish[w].window, readings', ledger.baseline)
                /\ finish' = [finish EXCEPT ![w].pc = "stored"]
           ELSE /\ finish' = [finish EXCEPT ![w].pc = "baseline"]
                /\ UNCHANGED ledger
    BY <1>2 DEF FinalRead
  <2>2. finish[w].pc = "final" /\ UNCHANGED <<feature, merged, seen, approval, notice, watch, packet, memo>>
    BY <1>2 DEF FinalRead
  <2>3. wleft' \in [WatchEvents -> Nat] /\ wleft'["lap"] = wleft["lap"]
        /\ wleft'["lostNotice"] = wleft["lostNotice"]
    BY <1>0, <2>1, EventSpent DEF WatchEvents
  <2>4. readings \subseteq readings' /\ readings' \subseteq Nat
    BY <1>0, <2>1
  <2>5. finish' \in [Watchers -> [pc : {"idle", "final", "baseline", "stored"}, window : Nat]]
        /\ (\A v \in Watchers \ {w} : finish'[v] = finish[v]) /\ finish'[w].window = finish[w].window
        /\ finish'[w].pc = IF ledger.baseline # 0 THEN "stored" ELSE "baseline"
    BY <1>0, <2>1
  <2>6. CASE ledger.baseline # 0
    <3>1. PICK known \in SUBSET Nat : known = readings'
      BY <2>4
    <3>2. ledger' = Upsert(finish[w].window, known, ledger.baseline)
      BY <2>1, <2>6, <3>1
    <3>3. ledger' \in Ledgers /\ ledger'.decided = ledger.decided
          /\ ledger'.learning = ledger.learning /\ ledger'.baseline = ledger.baseline
          /\ (ledger'.verdict = "judged" => finish[w].window \in readings')
      BY <1>0, <3>1, <3>2, Upserted
    <3> QED
      BY <1>0, <2>2, <2>3, <2>4, <2>5, <2>6, <3>3
  <2>7. CASE ledger.baseline = 0
    BY <1>0, <2>1, <2>2, <2>3, <2>4, <2>5, <2>7
  <2> QED
    BY <2>6, <2>7
<1>3. CASE BaselineRead(w)
  <2>1. PICK ok \in BOOLEAN :
        /\ IF ok THEN UNCHANGED wleft ELSE Spend("query")
        /\ ledger' = Upsert(finish[w].window, readings, IF ok THEN Anchor(finish[w].window) ELSE 0)
    BY <1>3 DEF BaselineRead
  <2>2. finish[w].pc = "baseline" /\ finish' = [finish EXCEPT ![w].pc = "stored"]
        /\ UNCHANGED <<feature, merged, seen, approval, notice, watch, readings, packet, memo>>
    BY <1>3 DEF BaselineRead
  <2>3. wleft' \in [WatchEvents -> Nat] /\ wleft'["lap"] = wleft["lap"]
        /\ wleft'["lostNotice"] = wleft["lostNotice"]
    BY <1>0, <2>1, EventSpent DEF WatchEvents
  <2>4. PICK b \in {0, 1} : b = IF ok THEN Anchor(finish[w].window) ELSE 0
    BY DEF Anchor
  <2>5. ledger' \in Ledgers /\ ledger'.decided = ledger.decided
        /\ ledger'.learning = ledger.learning
        /\ (ledger'.verdict = "judged" => finish[w].window \in readings)
    BY <1>0, <2>1, <2>4, Upserted
  <2> QED
    BY <1>0, <2>2, <2>3, <2>5
<1>4. CASE ParkIterate(w)
  <2>1. NoFinish \in [pc : {"idle", "final", "baseline", "stored"}, window : Nat] /\ NoFinish.pc = "idle"
    BY DEF NoFinish
  <2>2. finish[w].pc = "stored" /\ finish' = [finish EXCEPT ![w] = NoFinish]
        /\ UNCHANGED <<feature, merged, seen, approval, notice, readings, ledger, memo, wleft>>
    BY <1>4 DEF ParkIterate
  <2>3. CASE watch.status = "watching"
    <3>1. watch' = [watch EXCEPT !.status = "awaiting_input"]
          /\ packet' = [window |-> finish[w].window, verdict |-> ledger.verdict]
      BY <1>4, <2>3 DEF ParkIterate, StillWatching
    <3>2. watch' \in [status : WatchStates, window : Nat, due : BOOLEAN]
          /\ watch'.status = "awaiting_input" /\ watch'.window = watch.window
      BY <1>0, <3>1 DEF WatchStates
    <3> QED
      BY <1>0, <2>1, <2>2, <2>3, <3>1, <3>2
  <2>4. CASE watch.status # "watching"
    <3>1. UNCHANGED <<watch, packet>>
      BY <1>4, <2>4 DEF ParkIterate, StillWatching
    <3> QED
      BY <1>0, <2>1, <2>2, <2>4, <3>1
  <2> QED
    BY <2>3, <2>4
<1> QED
  BY <1>1, <1>2, <1>3, <1>4 DEF FinishSteps

\* The answers of the Iterate gate.
LEMMA GateAnswered ==
    ASSUME WatchBase, Answers
    PROVE  /\ UNCHANGED <<feature, merged, seen, approval, notice, readings, finish, packet>>
           /\ wleft' \in [WatchEvents -> Nat] /\ wleft'["lap"] = wleft["lap"]
           /\ wleft'["lostNotice"] = wleft["lostNotice"]
           /\ watch' \in [status : WatchStates, window : Nat, due : BOOLEAN]
           /\ ledger' \in Ledgers /\ ~ledger.decided
           /\ ledger'.decided => watch'.status \in {"skipped", "done"}
           /\ ledger'.baseline = ledger.baseline /\ ledger'.verdict = ledger.verdict
           /\ watch.status \in {"awaiting_input", "watching"}
           /\ watch'.status \in {"watching", "skipped", "done"}
           /\ watch.status = "watching" =>
                 watch'.status = "skipped" /\ watch'.window = watch.window
<1> USE DEF WatchBase
<1>0. watch \in [status : WatchStates, window : Nat, due : BOOLEAN] /\ ledger \in Ledgers
      /\ watch.window + 1 \in Nat
  BY DEF WatchTypes
<1>1. CASE WatchSkip
  <2>1. wleft' \in [WatchEvents -> Nat] /\ wleft'["lap"] = wleft["lap"]
        /\ wleft'["lostNotice"] = wleft["lostNotice"]
    BY <1>1, EventSpent DEF WatchSkip, WatchEvents
  <2>2. ledger' \in Ledgers /\ ledger'.baseline = ledger.baseline /\ ledger'.verdict = ledger.verdict
    BY <1>0, <1>1 DEF WatchSkip, Signed, Ledgers
  <2> QED
    BY <1>0, <1>1, <2>1, <2>2 DEF WatchSkip, WatchStates, WatchIsOfAShip
<1>2. CASE WatchRedo
  <2>1. wleft' \in [WatchEvents -> Nat] /\ wleft'["lap"] = wleft["lap"]
        /\ wleft'["lostNotice"] = wleft["lostNotice"]
    BY <1>2, EventSpent DEF WatchRedo, WatchEvents
  <2> QED
    BY <1>0, <1>2, <2>1 DEF WatchRedo, WatchStates, WatchIsOfAShip
<1>3. ASSUME NEW text \in BOOLEAN, WatchProceed(text)
      PROVE  /\ watch.status = "awaiting_input" /\ watch' = [watch EXCEPT !.status = "done"]
             /\ ledger' \in Ledgers /\ ledger'.decided /\ ledger'.baseline = ledger.baseline
             /\ ledger'.verdict = ledger.verdict
             /\ UNCHANGED <<feature, merged, seen, approval, notice, readings, finish, packet, wleft>>
  <2>1. ledger' = [[ledger EXCEPT !.learning = text] EXCEPT !.decided = TRUE]
    BY <1>3 DEF WatchProceed, Signed
  <2>2. ledger' \in Ledgers /\ ledger'.decided /\ ledger'.baseline = ledger.baseline
        /\ ledger'.verdict = ledger.verdict
    BY <1>0, <2>1 DEF Ledgers
  <2> QED
    BY <1>3, <2>2 DEF WatchProceed
<1>4. CASE \E text \in BOOLEAN : WatchProceed(text)
  BY <1>0, <1>3, <1>4 DEF WatchTypes, WatchStates, WatchIsOfAShip
<1> QED
  BY <1>1, <1>2, <1>4 DEF Answers

LEMMA MeasuringSteps ==
    ASSUME WatchBase,
           WindowCloses \/ Answers \/ MemoryPushed \/ MemoryDrafted
           \/ \E w \in Watchers : DailyRead(w) \/ FinishSteps(w) \/ WatcherCrash(w)
    PROVE  WatchBase'
<1> USE DEF WatchBase
<1>1. CASE WindowCloses
  BY <1>1 DEF WindowCloses, WatchTypes, LapsAreBounded, WatchIsOfAShip
<1>2. CASE Answers
  <2>1. WatchTypes' /\ LapsAreBounded'
    BY <1>2, GateAnswered DEF WatchTypes, LapsAreBounded
  <2>2. WatchIsOfAShip'
    BY <1>2, GateAnswered DEF WatchIsOfAShip
  <2> QED
    BY <2>1, <2>2
<1>3. CASE MemoryPushed \/ MemoryDrafted
  <2>1. UNCHANGED <<feature, merged, seen, approval, notice, watch, readings, ledger, finish,
                    packet, wleft>>
    BY <1>3 DEF MemoryPushed, MemoryDrafted
  <2> QED
    BY <2>1 DEF WatchTypes, LapsAreBounded, WatchIsOfAShip
<1>4. ASSUME NEW w \in Watchers, DailyRead(w) PROVE WatchBase'
  BY <1>4 DEF DailyRead, WatchTypes, LapsAreBounded, WatchIsOfAShip
<1>5. ASSUME NEW w \in Watchers, FinishSteps(w) PROVE WatchBase'
  <2>1. WatchTypes' /\ LapsAreBounded'
    BY <1>5, FinishMoves DEF WatchTypes, LapsAreBounded
  <2>2. watch.status # "none" => watch'.status # "none"
    BY <1>5, FinishMoves
  <2>3. watch'.status # "none" => watch.status # "none"
    BY <1>5, FinishMoves DEF WatchIsOfAShip
  <2>4. finish'[w].pc # "idle" => watch.status # "none"
    BY <1>5, FinishMoves DEF WatchIsOfAShip
  <2>41. ledger'.decided => watch'.status \in {"skipped", "done"}
    BY <1>5, FinishMoves DEF WatchIsOfAShip
  <2>5. WatchIsOfAShip'
    BY <1>5, <2>2, <2>3, <2>4, <2>41, FinishMoves DEF WatchIsOfAShip
  <2> QED
    BY <2>1, <2>5
<1>6. ASSUME NEW w \in Watchers, WatcherCrash(w) PROVE WatchBase'
  <2>1. NoNotice.pc = "idle" /\ ~NoNotice.shipped /\ NoFinish.pc = "idle"
        /\ NoNotice \in [pc : {"idle", "recorded", "read"}, shipped : BOOLEAN]
        /\ NoFinish \in [pc : {"idle", "final", "baseline", "stored"}, window : Nat]
    BY DEF NoNotice, NoFinish
  <2>2. wleft' \in [WatchEvents -> Nat] /\ wleft'["lap"] = wleft["lap"]
        /\ wleft'["lostNotice"] <= wleft["lostNotice"]
    <3>1. PICK e \in {"lostNotice", "crash"} : Spend(e)
      BY <1>6 DEF WatcherCrash
    <3> QED
      BY <3>1, EventSpent DEF WatchEvents, WatchTypes
  <2>3. notice' = [notice EXCEPT ![w] = NoNotice] /\ finish' = [finish EXCEPT ![w] = NoFinish]
        /\ approval' = FALSE /\ UNCHANGED <<feature, merged, seen, watch, readings, ledger, packet>>
    BY <1>6 DEF WatcherCrash
  <2>4. WatchTypes'
    BY <2>1, <2>2, <2>3 DEF WatchTypes
  <2>5. LapsAreBounded'
    BY <2>2, <2>3, OutcomeAssumption DEF LapsAreBounded, WatchTypes, WatchEvents, OutcomeAssumption
  <2>6. WatchIsOfAShip'
    BY <2>1, <2>3 DEF WatchIsOfAShip, WatchTypes
  <2> QED
    BY <2>4, <2>5, <2>6
<1> QED
  BY <1>1, <1>2, <1>3, <1>4, <1>5, <1>6

LEMMA WatchBaseStep == WatchBase /\ [WatchNext]_watchVars => WatchBase'
<1> SUFFICES ASSUME WatchBase, [WatchNext]_watchVars PROVE WatchBase'
  OBVIOUS
<1>1. CASE UNCHANGED watchVars
  BY <1>1 DEF watchVars, WatchBase, WatchTypes, LapsAreBounded, WatchIsOfAShip
<1>2. CASE WatchNext
  BY <1>2, FeatureSteps, Noticing, MeasuringSteps DEF WatchNext, Answers
<1> QED
  BY <1>1, <1>2

\* Whoever comes second notices, for any number of processes.
LEMMA MergeIsNoticed ==
    ASSUME WatchBase, MergedFeatureIsWatched, [WatchNext]_watchVars, wleft["lostNotice"] = 0
    PROVE  MergedFeatureIsWatched'
<1> USE DEF WatchBase
<1>0. notice \in [Watchers -> [pc : {"idle", "recorded", "read"}, shipped : BOOLEAN]]
      /\ feature \in [status : Stages, lap : Nat, opened : [PullRequests -> Nat]]
      /\ approval \in BOOLEAN
  BY DEF WatchTypes
<1>1. CASE UNCHANGED <<approval, notice, seen>> /\ feature'.status = feature.status
           /\ (watch.status # "none" => watch'.status # "none")
  BY <1>1 DEF MergedFeatureIsWatched
<1>2. CASE ReachLastGate \/ Abort \/ NewLap
  BY <1>0, <1>2 DEF ReachLastGate, Abort, NewLap, MergedFeatureIsWatched, Stages
<1>3. CASE ApproveLast
  BY <1>0, <1>3 DEF ApproveLast, MergedFeatureIsWatched, Stages
<1>4. CASE ApprovalChecks
  <2>1. seen # {} /\ feature.status = "pr_opened" /\ HasMetric /\ watch.status = "none" =>
            watch'.status # "none"
    BY <1>4 DEF ApprovalChecks, Spawn, LooksForMerged, Running
  <2>2. watch.status # "none" => watch' = watch
    BY <1>4 DEF ApprovalChecks, Spawn
  <2> QED
    BY <1>4, <2>1, <2>2 DEF ApprovalChecks, MergedFeatureIsWatched
<1>5. ASSUME NEW w \in Watchers, NoticeSteps(w) PROVE MergedFeatureIsWatched'
  <2>1. ASSUME NEW p \in PullRequests, RecordMerge(w, p) PROVE MergedFeatureIsWatched'
    <3>1. notice'[w].pc = "recorded"
      BY <1>0, <2>1 DEF RecordMerge
    <3> QED
      BY <3>1 DEF MergedFeatureIsWatched
  <2>2. CASE ReadFeature(w)
    <3>1. feature' = feature /\ seen' = seen /\ watch' = watch /\ approval' = approval
          /\ notice'[w] = [pc |-> "read", shipped |-> feature.status = "pr_opened"]
          /\ \A v \in Watchers \ {w} : notice'[v] = notice[v]
      BY <1>0, <2>2 DEF ReadFeature
    <3>2. notice'[w].pc = "read"
      BY <3>1
    <3>3. CASE feature.status = "pr_opened"
      <4>1. notice'[w] = [pc |-> "read", shipped |-> TRUE]
        BY <3>1, <3>3
      <4>2. notice'[w].shipped
        BY <4>1
      <4> QED
        BY <3>1, <3>2, <4>2 DEF MergedFeatureIsWatched
    <3>4. CASE feature.status # "pr_opened"
      BY <3>1, <3>4 DEF MergedFeatureIsWatched
    <3> QED
      BY <3>3, <3>4
  <2>3. CASE SpawnFromMerge(w)
    <3>1. /\ notice[w].shipped /\ HasMetric /\ watch.status = "none" => watch'.status # "none"
          /\ watch.status # "none" => watch' = watch
      BY <2>3 DEF SpawnFromMerge, Spawn, Running
    <3>2. \A v \in Watchers \ {w} : notice'[v] = notice[v]
      BY <1>0, <2>3 DEF SpawnFromMerge
    <3> QED
      BY <2>3, <3>1, <3>2 DEF SpawnFromMerge, MergedFeatureIsWatched
  <2> QED
    BY <1>5, <2>1, <2>2, <2>3 DEF NoticeSteps
<1>6. ASSUME NEW w \in Watchers, WatcherCrash(w) PROVE MergedFeatureIsWatched'
  <2>1. ~Spend("lostNotice")
    BY DEF Spend
  <2>2. notice[w].pc = "idle" /\ ~approval
    BY <1>6, <2>1 DEF WatcherCrash
  <2>3. approval' = FALSE /\ UNCHANGED <<feature, seen, watch>>
        /\ \A v \in Watchers \ {w} : notice'[v] = notice[v]
    BY <1>0, <1>6 DEF WatcherCrash
  <2> QED
    BY <2>2, <2>3 DEF MergedFeatureIsWatched
<1>7. ASSUME NEW w \in Watchers, FinishSteps(w) PROVE MergedFeatureIsWatched'
  <2>1. watch.status # "none" => watch'.status # "none"
    BY <1>7, FinishMoves
  <2> QED
    BY <1>1, <1>7, <2>1, FinishMoves
<1>8. CASE Answers
  BY <1>1, <1>8, GateAnswered
<1>9. CASE \E p \in PullRequests : OpenPr(p)
  BY <1>0, <1>1, <1>9 DEF OpenPr
<1>10. CASE WindowCloses
  BY <1>1, <1>10 DEF WindowCloses, WatchTypes
<1>11. CASE MemoryPushed \/ MemoryDrafted \/ (\E p \in PullRequests : HumanMerges(p))
            \/ (\E w \in Watchers : DailyRead(w))
  BY <1>1, <1>11 DEF MemoryPushed, MemoryDrafted, HumanMerges, DailyRead
<1>12. CASE UNCHANGED watchVars
  BY <1>1, <1>12 DEF watchVars
<1> QED
  BY <1>2, <1>3, <1>4, <1>5, <1>6, <1>7, <1>8, <1>9, <1>10, <1>11, <1>12 DEF WatchNext, Answers

\* Where one process watches, its finish is of the window the watch is in.
LEMMA WatchAloneStep ==
    ASSUME WatchBase, OneWatcher, WatchAlone, [WatchNext]_watchVars
    PROVE  WatchAlone'
<1> USE DEF WatchBase
<1>0. /\ finish \in [Watchers -> [pc : {"idle", "final", "baseline", "stored"}, window : Nat]]
      /\ watch \in [status : WatchStates, window : Nat, due : BOOLEAN]
  BY DEF WatchTypes
<1>1. ASSUME UNCHANGED <<finish, ledger, packet>>, readings \subseteq readings',
             watch'.status = watch.status, watch'.window = watch.window
      PROVE  WatchAlone'
  BY <1>1 DEF WatchAlone, FinishIsOfItsWindow, VerdictOfItsWindow
<1>2. CASE NewLap
  <2>1. feature.status # "pr_opened"
    BY <1>2 DEF NewLap
  <2>2. \A w \in Watchers : finish[w].pc = "idle"
    BY <2>1 DEF WatchIsOfAShip
  <2>3. watch'.status = "none" /\ finish' = finish
    BY <1>2 DEF NewLap, NoWatch
  <2> QED
    BY <2>2, <2>3 DEF WatchAlone, FinishIsOfItsWindow, VerdictOfItsWindow
<1>3. ASSUME NEW shipped \in BOOLEAN, Spawn(shipped), UNCHANGED <<finish, ledger, packet, readings>>
      PROVE  WatchAlone'
  <2>1. CASE watch' = watch
    BY <1>1, <1>3, <2>1
  <2>2. CASE watch' = Running /\ watch.status = "none"
    BY <1>3, <2>2 DEF WatchAlone, FinishIsOfItsWindow, VerdictOfItsWindow, Running, WatchIsOfAShip
  <2> QED
    BY <1>3, <2>1, <2>2 DEF Spawn
<1>4. CASE ApprovalChecks
  <2>1. PICK shipped \in BOOLEAN : shipped = (feature.status = "pr_opened" /\ LooksForMerged(seen))
    OBVIOUS
  <2> QED
    BY <1>3, <1>4, <2>1 DEF ApprovalChecks
<1>5. ASSUME NEW w \in Watchers, SpawnFromMerge(w) PROVE WatchAlone'
  <2>1. notice[w].shipped \in BOOLEAN
    BY DEF WatchTypes
  <2> QED
    BY <1>3, <1>5, <2>1 DEF SpawnFromMerge
<1>6. ASSUME NEW w \in Watchers, FinishSteps(w) PROVE WatchAlone'
  <2>1. \A v \in Watchers : v = w
    BY DEF OneWatcher
  <2>2. finish[w].pc = "idle" => \A v \in Watchers : finish'[v].pc \in {"idle", "final"}
    BY <1>6, <2>1, FinishMoves
  <2>3. FinishIsOfItsWindow'
    <3>1. finish'[w].pc # "idle" => watch'.status \in {"watching", "skipped"}
                                    /\ finish'[w].window = watch'.window
      BY <1>6, FinishMoves DEF WatchAlone, FinishIsOfItsWindow
    <3>2. finish'[w].pc = "baseline" => ledger'.baseline = 0
      BY <1>6, FinishMoves DEF WatchAlone, FinishIsOfItsWindow
    <3>3. finish'[w].pc = "stored" /\ ledger'.verdict = "judged" => watch'.window \in readings'
      BY <1>6, FinishMoves DEF WatchAlone, FinishIsOfItsWindow
    <3> QED
      BY <2>1, <3>1, <3>2, <3>3 DEF FinishIsOfItsWindow
  <2>4. VerdictOfItsWindow'
    <3>1. readings \subseteq readings'
      BY <1>6, FinishMoves
    <3>2. CASE finish[w].pc = "stored" /\ watch.status = "watching"
      BY <1>6, <3>1, <3>2, FinishMoves DEF WatchAlone, FinishIsOfItsWindow, VerdictOfItsWindow
    <3>3. CASE ~(finish[w].pc = "stored" /\ watch.status = "watching")
      <4>1. UNCHANGED <<watch, packet>>
        BY <1>6, <3>3, FinishMoves
      <4> QED
        BY <3>1, <4>1 DEF WatchAlone, VerdictOfItsWindow
    <3> QED
      BY <3>2, <3>3
  <2> QED
    BY <2>3, <2>4 DEF WatchAlone
<1>7. CASE Answers
  BY <1>0, <1>7, GateAnswered DEF WatchAlone, FinishIsOfItsWindow, VerdictOfItsWindow
<1>8. ASSUME NEW w \in Watchers, WatcherCrash(w) PROVE WatchAlone'
  <2>1. finish' = [finish EXCEPT ![w] = NoFinish] /\ UNCHANGED <<watch, readings, ledger, packet>>
        /\ NoFinish.pc = "idle"
    BY <1>8 DEF WatcherCrash, NoFinish
  <2> QED
    BY <1>0, <2>1 DEF WatchAlone, FinishIsOfItsWindow, VerdictOfItsWindow
<1>9. CASE WindowCloses
  <2>1. watch'.status = watch.status /\ watch'.window = watch.window
    BY <1>0, <1>9 DEF WindowCloses
  <2> QED
    BY <1>1, <1>9, <2>1 DEF WindowCloses
<1>10. CASE ReachLastGate \/ Abort \/ ApproveLast \/ MemoryPushed \/ MemoryDrafted
            \/ UNCHANGED watchVars
            \/ (\E p \in PullRequests : OpenPr(p) \/ HumanMerges(p))
            \/ (\E w \in Watchers : DailyRead(w) \/ ReadFeature(w)
                                    \/ \E p \in PullRequests : RecordMerge(w, p))
  BY <1>1, <1>10 DEF ReachLastGate, Abort, ApproveLast, MemoryPushed, MemoryDrafted, OpenPr,
     HumanMerges, DailyRead, ReadFeature, RecordMerge, watchVars
<1> QED
  BY <1>2, <1>4, <1>5, <1>6, <1>7, <1>8, <1>9, <1>10 DEF WatchNext, Answers, NoticeSteps

\* Only a lap, a finish and an answer write the ledger.
LEMMA LedgerWrites ==
    ASSUME WatchBase, [WatchNext]_watchVars
    PROVE  \/ UNCHANGED ledger
           \/ NewLap
           \/ Answers
           \/ \E w \in Watchers : FinishSteps(w)
<1>1. CASE UNCHANGED watchVars
  BY <1>1 DEF watchVars
<1>2. CASE WatchNext
  BY <1>2 DEF WatchNext, Answers, ReachLastGate, Abort, ApproveLast, ApprovalChecks, MemoryPushed,
     MemoryDrafted, OpenPr, HumanMerges, DailyRead, ReadFeature, RecordMerge, SpawnFromMerge,
     NoticeSteps, WindowCloses, WatcherCrash
<1> QED
  BY <1>1, <1>2

LEMMA SignatureKept ==
    ASSUME WatchBase, [WatchNext]_watchVars, ledger.decided
    PROVE  ledger'.decided /\ ledger'.learning = ledger.learning
<1>1. ~NewLap
  BY DEF NewLap, WatchBase, WatchIsOfAShip
<1>2. ~Answers
  BY GateAnswered
<1> QED
  BY <1>1, <1>2, LedgerWrites, FinishMoves

LEMMA BaselineKept ==
    ASSUME WatchBase, WatchAlone, [WatchNext]_watchVars
    PROVE  /\ ledger'.baseline \in {0, 1}
           /\ ledger'.baseline # ledger.baseline => ledger.baseline = 0 \/ watch'.status = "none"
<1>1. ledger'.baseline \in {0, 1}
  BY WatchBaseStep DEF WatchBase, WatchTypes, Ledgers
<1>2. NewLap => watch'.status = "none"
  BY DEF NewLap, NoWatch
<1>3. Answers => ledger'.baseline = ledger.baseline
  BY GateAnswered
<1>4. ASSUME NEW w \in Watchers, FinishSteps(w), ledger'.baseline # ledger.baseline
      PROVE  ledger.baseline = 0
  BY <1>4, FinishMoves DEF WatchAlone, FinishIsOfItsWindow
<1> QED
  BY <1>1, <1>2, <1>3, <1>4, LedgerWrites

\* THEOREM.  However many processes watch, a watch is of a feature that shipped
\* and merged, whoever has read that it shipped is right about it, and a finish
\* that is under way is of a window the watch was in (worker._maybe_spawn_watch,
\* worker._shepherd_pr_locked, worker._finish_watch).
THEOREM WatchInvariant == WatchSpec => []WatchBase
  BY WatchStarts, WatchBaseStep, PTL DEF WatchSpec

\* THEOREM.  Where one process watches, what the Iterate gate shows was judged
\* from the readings of the window it is about, the baseline is never lost once
\* it was read, and neither is a signature on the ledger.  With two processes the
\* first of these fails: the compare-and-set of _finish_watch asks for the status
\* alone, which a second window has again.
THEOREM VerdictsStand ==
    ASSUME OneWatcher
    PROVE  WatchSpec => []VerdictOfItsWindow /\ BaselineIsPreShip /\ SignatureStands
<1>1. WatchBase /\ WatchAlone /\ [WatchNext]_watchVars => (WatchBase /\ WatchAlone)'
  BY WatchBaseStep, WatchAloneStep
<1>2. WatchSpec => [](WatchBase /\ WatchAlone)
  BY <1>1, WatchStarts, PTL DEF WatchSpec
<1>3. WatchAlone => VerdictOfItsWindow
  BY DEF WatchAlone
<1>4. WatchBase /\ WatchAlone /\ [WatchNext]_watchVars =>
        [/\ ledger'.baseline \in {0, 1}
         /\ ledger'.baseline # ledger.baseline => ledger.baseline = 0 \/ watch'.status = "none"]_watchVars
  BY BaselineKept
<1>5. WatchBase /\ [WatchNext]_watchVars =>
        [ledger.decided => ledger'.decided /\ ledger'.learning = ledger.learning]_watchVars
  BY SignatureKept
<1> QED
  BY <1>2, <1>3, <1>4, <1>5, PTL DEF WatchSpec, BaselineIsPreShip, SignatureStands

\* THEOREM.  Whoever records the second of two merges, in whatever order the
\* processes record and then read the feature's row, a feature with a metric whose
\* merge was seen is watched, waits for its approval or is about to be: unless
\* the process dies between the two (worker._shepherd_pr_locked).
THEOREM MergesAreNoticed ==
    ASSUME WatchLimit["lostNotice"] = 0
    PROVE  WatchSpec => []MergedFeatureIsWatched
<1>1. WatchBase => wleft["lostNotice"] = 0
  BY DEF WatchBase, WatchTypes, LapsAreBounded, WatchEvents
<1>2. WatchBase /\ MergedFeatureIsWatched /\ [WatchNext]_watchVars =>
        (WatchBase /\ MergedFeatureIsWatched)'
  BY <1>1, WatchBaseStep, MergeIsNoticed
<1> QED
  BY <1>2, WatchStarts, PTL DEF WatchSpec

\* THEOREM.  As long as a feature is built once, what is watched was merged: by a
\* pull request of this lap, never because one was opened.
THEOREM WatchesFollowMerges ==
    ASSUME WatchLimit["lap"] = 0
    PROVE  WatchSpec => []WatchFollowsMerge
<1>1. WatchBase => \A p \in merged : feature.opened[p] = feature.lap
  <2> SUFFICES ASSUME WatchBase, NEW p \in merged PROVE feature.opened[p] = feature.lap
    OBVIOUS
  <2>1. /\ wleft["lap"] \in Nat /\ feature.lap \in Nat /\ feature.opened[p] \in Nat
        /\ feature.opened[p] > 0 /\ feature.opened[p] <= feature.lap
        /\ feature.lap + wleft["lap"] <= 0 + 1
    BY DEF WatchBase, WatchTypes, LapsAreBounded, WatchIsOfAShip, WatchEvents
  <2> QED
    BY <2>1
<1>2. WatchBase => WatchFollowsMerge
  BY <1>1 DEF WatchBase, WatchTypes, WatchIsOfAShip, WatchFollowsMerge
<1> QED
  BY <1>2, WatchInvariant, PTL

\* THEOREM.  The three together, which is what the run on the loops checks: in one
\* process, for a feature that is built once and whose notices are not lost, the
\* watch follows the merge and the ledger follows the watch.
THEOREM LedgerStaysTrue ==
    ASSUME OneWatcher, WatchLimit["lap"] = 0, WatchLimit["lostNotice"] = 0
    PROVE  WatchSpec => LedgerIsTrue
  BY VerdictsStand, MergesAreNoticed, WatchesFollowMerges, PTL DEF LedgerIsTrue

\* Every window was opened by the spawn or by an answer that re-armed the watch.
WindowsAreOpened ==
    /\ wleft["rearm"] <= WatchLimit["rearm"]
    /\ watch.status # "none" => watch.window \in Windows
    /\ watch.window + wleft["rearm"] <= WatchLimit["rearm"] + 1
    /\ readings \subseteq Windows
    /\ ledger.window \in {0} \union Windows /\ packet.window \in {0} \union Windows
    /\ \A w \in Watchers : IF finish[w].pc = "idle" THEN finish[w].window = 0 ELSE finish[w].window \in Windows
    /\ memo \in {"none", "queued", "pushed", "drafted", "failed", "lost"}

\* A measurement is of a window that was opened.
LEMMA WindowsStep ==
    ASSUME WatchBase, WindowsAreOpened, [WatchNext]_watchVars
    PROVE  WindowsAreOpened'
<1> USE OutcomeAssumption DEF OutcomeAssumption
<1>0. /\ WatchTypes /\ wleft \in [WatchEvents -> Nat] /\ WatchLimit["rearm"] \in Nat /\ wleft["rearm"] \in Nat
      /\ watch \in [status : WatchStates, window : Nat, due : BOOLEAN]
      /\ finish \in [Watchers -> [pc : {"idle", "final", "baseline", "stored"}, window : Nat]]
      /\ Windows = 1 .. WatchLimit["rearm"] + 1
      /\ ledger \in Ledgers
  BY DEF WatchBase, WatchTypes, WatchEvents, Windows
<1>1. Windows' = Windows /\ WatchLimit' = WatchLimit
  BY DEF Windows
<1>2. ASSUME NEW e \in WatchEvents, Spend(e)
      PROVE  /\ wleft'["rearm"] \in Nat /\ wleft'["rearm"] <= wleft["rearm"]
             /\ e = "rearm" => wleft'["rearm"] + 1 = wleft["rearm"]
  BY <1>0, <1>2 DEF Spend, WatchEvents
<1>3. CASE UNCHANGED <<watch, readings, ledger, packet, finish, memo>>
           /\ (wleft' = wleft \/ \E e \in WatchEvents : Spend(e))
  <2>1. wleft'["rearm"] \in Nat /\ wleft'["rearm"] <= wleft["rearm"]
    BY <1>0, <1>2, <1>3
  <2> QED
    BY <1>0, <1>1, <1>3, <2>1 DEF WindowsAreOpened
<1>4. ASSUME NEW p \in PullRequests, OpenPr(p) \/ HumanMerges(p) PROVE WindowsAreOpened'
  BY <1>3, <1>4 DEF OpenPr, HumanMerges
<1>5. CASE ReachLastGate \/ ApproveLast \/ UNCHANGED watchVars
  BY <1>3, <1>5 DEF ReachLastGate, ApproveLast, watchVars
<1>6. CASE Abort
  BY <1>3, <1>6 DEF Abort, WatchEvents
<1>7. CASE NewLap
  <2>1. wleft'["rearm"] \in Nat /\ wleft'["rearm"] <= wleft["rearm"]
    BY <1>2, <1>7 DEF NewLap, WatchEvents
  <2>2. watch'.status = "none" /\ watch'.window = 0 /\ ledger'.window = 0 /\ readings' = {}
    BY <1>7 DEF NewLap, NoWatch, NoLedger
  <2> QED
    BY <1>0, <1>1, <1>7, <2>1, <2>2 DEF NewLap, WindowsAreOpened
<1>8. ASSUME watch' = watch \/ watch' = Running, UNCHANGED <<readings, ledger, packet, finish, memo, wleft>>
      PROVE  WindowsAreOpened'
  <2>1. Running.window = 1
    BY DEF Running
  <2> QED
    BY <1>0, <1>1, <1>8, <2>1 DEF WindowsAreOpened
<1>9. CASE ApprovalChecks \/ \E w \in Watchers : NoticeSteps(w)
  BY <1>8, <1>9 DEF ApprovalChecks, NoticeSteps, RecordMerge, ReadFeature, SpawnFromMerge, Spawn
<1>10. ASSUME watch'.window = watch.window, watch'.status = "none" => watch.status = "none",
              watch'.status # "none" => watch.status # "none",
              wleft' = wleft \/ \E e \in WatchEvents : Spend(e),
              readings' \subseteq Windows,
              ledger'.window \in {0} \union Windows, packet'.window \in {0} \union Windows,
              \A w \in Watchers : IF finish'[w].pc = "idle" THEN finish'[w].window = 0 ELSE finish'[w].window \in Windows,
              memo' \in {"none", "queued", "pushed", "drafted", "failed", "lost"}
       PROVE  WindowsAreOpened'
  <2>1. wleft'["rearm"] \in Nat /\ wleft'["rearm"] <= wleft["rearm"]
    BY <1>0, <1>2, <1>10
  <2> QED
    BY <1>0, <1>1, <1>10, <2>1 DEF WindowsAreOpened
<1>11. CASE WindowCloses
  <2>1. watch'.window = watch.window /\ watch'.status = watch.status
    BY <1>0, <1>11 DEF WindowCloses
  <2> QED
    BY <1>10, <1>11, <2>1 DEF WindowCloses, WindowsAreOpened
<1>12. ASSUME NEW w \in Watchers, DailyRead(w) PROVE WindowsAreOpened'
  BY <1>10, <1>12 DEF DailyRead, WindowsAreOpened
<1>13. ASSUME NEW w \in Watchers, FinishSteps(w) PROVE WindowsAreOpened'
  <2>1. ASSUME NEW f \in [pc : {"idle", "final", "baseline", "stored"}, window : Nat],
               finish' = [finish EXCEPT ![w] = f],
               IF f.pc = "idle" THEN f.window = 0 ELSE f.window \in Windows
        PROVE  \A v \in Watchers : IF finish'[v].pc = "idle" THEN finish'[v].window = 0 ELSE finish'[v].window \in Windows
    BY <1>0, <2>1 DEF WindowsAreOpened
  <2>2. CASE StartFinish(w)
    <3>1. watch.window \in Windows
      BY <2>2 DEF StartFinish, WindowClosed, WindowsAreOpened
    <3>2. finish' = [finish EXCEPT ![w] = [pc |-> "final", window |-> watch.window]]
      BY <2>2 DEF StartFinish
    <3>3. \A v \in Watchers : IF finish'[v].pc = "idle" THEN finish'[v].window = 0 ELSE finish'[v].window \in Windows
      BY <1>0, <2>1, <3>1, <3>2
    <3> QED
      BY <1>10, <2>2, <3>3 DEF StartFinish, WindowsAreOpened
  <2>3. finish[w].pc # "idle" => finish[w].window \in Windows
    BY DEF WindowsAreOpened
  <2>4. \A known, baseline : Upsert(finish[w].window, known, baseline).window = finish[w].window
    BY DEF Upsert, UpsertAll
  <2>5. ASSUME NEW c \in {"baseline", "stored"}, finish' = [finish EXCEPT ![w].pc = c], finish[w].pc # "idle"
        PROVE  \A v \in Watchers : IF finish'[v].pc = "idle" THEN finish'[v].window = 0 ELSE finish'[v].window \in Windows
    <3>1. finish'[w].pc = c /\ finish'[w].window = finish[w].window
      BY <1>0, <2>5
    <3>2. \A v \in Watchers : v # w => finish'[v] = finish[v]
      BY <1>0, <2>5
    <3> QED
      BY <2>3, <2>5, <3>1, <3>2 DEF WindowsAreOpened
  <2>6. CASE FinalRead(w)
    <3>1. /\ finish[w].pc = "final" /\ UNCHANGED <<watch, packet, memo>>
          /\ wleft' = wleft \/ Spend("query")
          /\ readings' = readings \/ readings' = readings \union {finish[w].window}
          /\ ledger' = ledger \/ ledger' = Upsert(finish[w].window, readings', ledger.baseline)
          /\ \E c \in {"baseline", "stored"} : finish' = [finish EXCEPT ![w].pc = c]
      BY <2>6 DEF FinalRead
    <3>2. ledger'.window \in {0} \union Windows
      BY <2>3, <2>4, <3>1 DEF WindowsAreOpened
    <3> QED
      BY <1>10, <2>3, <2>5, <3>1, <3>2 DEF WindowsAreOpened, WatchEvents
  <2>7. CASE BaselineRead(w)
    <3>1. /\ finish[w].pc = "baseline" /\ UNCHANGED <<watch, packet, memo, readings>>
          /\ wleft' = wleft \/ Spend("query")
          /\ \E n \in {0, 1} : ledger' = Upsert(finish[w].window, readings, n)
          /\ finish' = [finish EXCEPT ![w].pc = "stored"]
      BY <2>7 DEF BaselineRead, Anchor
    <3>2. ledger'.window \in {0} \union Windows
      BY <2>3, <2>4, <3>1 DEF WindowsAreOpened
    <3> QED
      BY <1>10, <2>5, <3>1, <3>2 DEF WindowsAreOpened, WatchEvents
  <2>8. CASE ParkIterate(w)
    <3>1. /\ finish[w].pc = "stored" /\ UNCHANGED <<readings, ledger, memo, wleft>>
          /\ finish' = [finish EXCEPT ![w] = NoFinish]
          /\ packet' = packet \/ packet'.window = finish[w].window
          /\ watch'.window = watch.window /\ (watch'.status = "none" <=> watch.status = "none")
      BY <1>0, <2>8 DEF ParkIterate, StillWatching
    <3>2. \A v \in Watchers : IF finish'[v].pc = "idle" THEN finish'[v].window = 0 ELSE finish'[v].window \in Windows
      BY <2>1, <3>1 DEF NoFinish
    <3> QED
      BY <1>10, <2>3, <3>1, <3>2 DEF WindowsAreOpened
  <2> QED
    BY <1>13, <2>2, <2>6, <2>7, <2>8 DEF FinishSteps
<1>14. ASSUME NEW w \in Watchers, WatcherCrash(w) PROVE WindowsAreOpened'
  <2>1. \A v \in Watchers : IF finish'[v].pc = "idle" THEN finish'[v].window = 0 ELSE finish'[v].window \in Windows
    BY <1>0, <1>14 DEF WatcherCrash, NoFinish, WindowsAreOpened
  <2>2. \E e \in WatchEvents : Spend(e)
    BY <1>14 DEF WatcherCrash, WatchEvents
  <2>3. memo' \in {"none", "queued", "pushed", "drafted", "failed", "lost"}
    BY <1>14 DEF WatcherCrash, WindowsAreOpened
  <2>4. UNCHANGED <<watch, readings, ledger, packet>>
    BY <1>14 DEF WatcherCrash
  <2> QED
    BY <1>10, <2>1, <2>2, <2>3, <2>4 DEF WindowsAreOpened
<1>15. ASSUME NEW text \in BOOLEAN, WatchProceed(text) PROVE WindowsAreOpened'
  <2>1. watch'.window = watch.window /\ watch'.status = "done" /\ watch.status = "awaiting_input"
        /\ ledger'.window = ledger.window
    BY <1>0, <1>15 DEF WatchProceed, Signed, Ledgers
  <2> QED
    BY <1>10, <1>15, <2>1 DEF WatchProceed, WindowsAreOpened
<1>16. CASE WatchSkip
  <2>1. watch'.window = watch.window /\ watch'.status = "skipped" /\ watch.status # "none"
        /\ ledger'.window = ledger.window
    BY <1>0, <1>16 DEF WatchSkip, Signed, Ledgers
  <2> QED
    BY <1>10, <1>16, <2>1 DEF WatchSkip, WindowsAreOpened, WatchEvents
<1>17. CASE WatchRedo
  <2>1. /\ watch'.window = watch.window + 1 /\ watch.status = "awaiting_input" /\ wleft'["rearm"] \in Nat
        /\ wleft'["rearm"] + 1 = wleft["rearm"] /\ UNCHANGED <<readings, ledger, packet, finish, memo>>
    BY <1>2, <1>17 DEF WatchRedo, WatchEvents
  <2>2. watch.window \in Nat /\ watch.window >= 1 /\ watch.window + wleft["rearm"] <= WatchLimit["rearm"] + 1
    BY <1>0, <2>1 DEF WindowsAreOpened
  <2>3. watch'.window + wleft'["rearm"] <= WatchLimit["rearm"] + 1 /\ watch'.window \in Windows
    BY <1>0, <2>1, <2>2
  <2>4. wleft'["rearm"] <= WatchLimit["rearm"]
    BY <1>0, <2>1 DEF WindowsAreOpened
  <2> QED
    BY <1>0, <1>1, <2>1, <2>3, <2>4 DEF WindowsAreOpened
<1>18. CASE MemoryPushed \/ MemoryDrafted
  BY <1>10, <1>18 DEF MemoryPushed, MemoryDrafted, WindowsAreOpened
<1> QED
  BY <1>4, <1>5, <1>6, <1>7, <1>9, <1>11, <1>12, <1>13, <1>14, <1>15, <1>16, <1>17, <1>18 DEF WatchNext

\* THEOREM.  Rows, ledger and packet are of laps and windows that were opened: a
\* verdict is never of a window that no answer armed (worker._answer_watch_inner).
THEOREM WatchTypesHold == WatchSpec => []WatchTypeOK
<1>1. WatchInit => WindowsAreOpened
  BY OutcomeAssumption DEF OutcomeAssumption, WatchInit, WindowsAreOpened, NoWatch, NoLedger, NoFinish, WatchEvents, Windows
<1>2. WatchBase /\ WindowsAreOpened /\ [WatchNext]_watchVars => WindowsAreOpened'
  BY WindowsStep
<1>3. WatchBase /\ WindowsAreOpened => WatchTypeOK
  <2> SUFFICES ASSUME WatchBase, WindowsAreOpened PROVE WatchTypeOK
    OBVIOUS
  <2>1. /\ WatchTypes /\ LapsAreBounded /\ WatchLimit["lap"] \in Nat /\ wleft["lap"] \in Nat /\ WatchLimit["rearm"] \in Nat
    BY OutcomeAssumption DEF OutcomeAssumption, WatchBase, WatchTypes, WatchEvents
  <2>2. feature.lap \in Laps /\ \A p \in PullRequests : feature.opened[p] \in {0} \union Laps
    BY <2>1 DEF WatchTypes, LapsAreBounded, Laps
  <2>3. feature \in [status : {"running", "gate", "skipped", "no_fix", "pr_opened"},
                     lap : Laps, opened : [PullRequests -> {0} \union Laps]]
    BY <2>1, <2>2 DEF WatchTypes, Stages
  <2>4. watch.window \in {0} \union Windows
    BY <2>1 DEF WatchTypes, WindowsAreOpened, Windows, WatchEvents
  <2>5. 1 \in Windows /\ 0 \in {0} \union Windows
    BY <2>1 DEF Windows
  <2>6. ledger \in [window : {0} \union Windows, baseline : {0} \union Windows,
                   verdict : Verdicts, learning : BOOLEAN, decided : BOOLEAN]
    BY <2>1, <2>5 DEF WatchTypes, WindowsAreOpened, Ledgers
  <2>7. packet \in [window : {0} \union Windows, verdict : Verdicts]
    BY <2>1 DEF WatchTypes, WindowsAreOpened
  <2>8. finish \in [Watchers -> [pc : {"idle", "final", "baseline", "stored"}, window : {0} \union Windows]]
    BY <2>1, <2>5 DEF WatchTypes, WindowsAreOpened
  <2>9. watch \in [status : {"none", "watching", "awaiting_input", "skipped", "done"},
                   window : {0} \union Windows, due : BOOLEAN]
    BY <2>1, <2>4 DEF WatchTypes, WatchStates
  <2> QED
    BY <2>1, <2>3, <2>6, <2>7, <2>8, <2>9 DEF WatchTypes, WindowsAreOpened, WatchTypeOK
<1> QED
  BY <1>1, <1>2, <1>3, WatchInvariant, PTL DEF WatchSpec

-----------------------------------------------------------------------------
(* Shepherd: the review of an open pull request.                            *)

Lives == {"open", "merged", "closed"}
RowStates == Scanned \union {"none", "merged", "closed"}
PassPlaces == {"idle", "waiting", "info", "undrafted", "comments", "findings", "fixing",
               "reply", "asked"}
ReviewPasses == [pc : PassPlaces, state : RowStates, rounds : Nat, head : Heads, life : Lives,
                 draft : BOOLEAN, trigger : Nat, todo : SUBSET Findings]
Kicks == [pc : {"idle", "pushed", "added", "readied", "asked", "compare"}, ok : BOOLEAN,
          rounds : Nat]
Bots == [triggers : Nat, reviewing : Nat, head : Heads, handled : Nat, cheered : Nat,
         clean : SUBSET Heads]

ReviewHub ==
    /\ pr \in [life : Lives, draft : BOOLEAN, head : Heads]
    /\ bot \in Bots /\ bot.cheered <= bot.handled /\ bot.handled <= bot.triggers
    /\ bot.reviewing <= bot.handled
    /\ flagged \subseteq opened /\ opened \subseteq Findings /\ replied \subseteq opened
ReviewRows ==
    /\ prow \in [state : RowStates, rounds : Nat, approved : Heads]
    /\ kick \in Kicks /\ rleft \in [ReviewEvents -> Nat]

\* A pass works on findings the bot has opened, holds the lock as soon as it is
\* under way, and fixes nothing that has been answered.
PassIsSound(w) ==
    /\ pass[w].todo \subseteq opened
    /\ pass[w].pc \in {"idle", "waiting"} \/ prLock = w
    /\ pass[w].pc = "fixing" => pass[w].todo \intersect replied = {}
ReviewPassing == pass \in [Shepherds -> ReviewPasses] /\ \A w \in Shepherds : PassIsSound(w)

ReviewInv == ReviewHub /\ ReviewRows /\ ReviewPassing

LEMMA HeadsAreNat == Heads \subseteq Nat /\ 0 \in Heads
<1>1. Cardinality(Findings) \in Nat
  BY FS_CardinalityType, ReviewAssumption DEF ReviewAssumption
<1>2. ReviewLimit["push"] \in Nat
  BY ReviewAssumption DEF ReviewAssumption, ReviewEvents
<1> QED
  BY <1>1, <1>2 DEF Heads

LEMMA NoPassIsAPass == NoPass \in ReviewPasses /\ NoPass.pc = "idle" /\ NoPass.todo = {}
  BY HeadsAreNat DEF NoPass, ReviewPasses, PassPlaces, RowStates, Lives

LEMMA NoKickIsAKick == NoKick \in Kicks
  BY DEF NoKick, Kicks

\* A step of the pass w that leaves the others alone, and what it may change.
LEMMA OnePass ==
    ASSUME NEW w \in Shepherds, ReviewPassing, NEW rec \in ReviewPasses,
           pass' = [pass EXCEPT ![w] = rec], opened' = opened,
           rec.todo \subseteq opened,
           rec.pc \in {"idle", "waiting"} \/ prLock' = w,
           rec.pc = "fixing" => rec.todo \intersect replied' = {},
           replied' = replied \/ prLock = w,
           prLock' = prLock \/ prLock = w \/ prLock = NoOne
    PROVE  ReviewPassing'
<1>1. pass' \in [Shepherds -> ReviewPasses]
  BY DEF ReviewPassing
<1>2. ASSUME NEW v \in Shepherds PROVE PassIsSound(v)'
  <2>1. CASE v = w
    BY <2>1 DEF ReviewPassing, PassIsSound
  <2>2. CASE v # w
    <3>1. pass'[v] = pass[v]
      BY <2>2 DEF ReviewPassing
    <3>2. NoOne \notin Shepherds
      BY ReviewAssumption DEF ReviewAssumption
    <3>3. pass[v].pc = "fixing" => prLock = v
      BY DEF ReviewPassing, PassIsSound
    <3> QED
      BY <3>1, <3>2, <3>3, <2>2 DEF ReviewPassing, PassIsSound
  <2> QED
    BY <2>1, <2>2
<1> QED
  BY <1>1, <1>2 DEF ReviewPassing

LEMMA Bystanders ==
    ASSUME ReviewPassing, UNCHANGED <<pass, prLock, replied>>, opened \subseteq opened'
    PROVE  ReviewPassing'
  BY DEF ReviewPassing, PassIsSound

LEMMA ReviewStarts == ReviewInit => ReviewInv
<1> SUFFICES ASSUME ReviewInit PROVE ReviewInv
  OBVIOUS
<1>1. ReviewHub
  BY HeadsAreNat DEF ReviewInit, ReviewHub, Lives, Bots
<1>2. ReviewRows
  BY HeadsAreNat, NoKickIsAKick, ReviewAssumption DEF ReviewInit, ReviewRows, RowStates, ReviewAssumption
<1>3. ReviewPassing
  BY NoPassIsAPass DEF ReviewInit, ReviewPassing, PassIsSound
<1> QED
  BY <1>1, <1>2, <1>3 DEF ReviewInv

\* GitHub, the bot and the humans.
LEMMA HubSteps ==
    ASSUME ReviewInv, BotStep \/ HumanEnds
    PROVE  ReviewInv'
<1>1. UNCHANGED <<prow, kick, rleft, pass, prLock, replied>> /\ opened \subseteq opened'
  BY DEF BotStep, BotStarts, BotCheers, BotFlags, HumanEnds
<1>2. ReviewRows' /\ ReviewPassing'
  BY <1>1, Bystanders DEF ReviewInv, ReviewRows
<1>3. ReviewHub'
  <2>1. CASE BotStarts
    <3>1. bot' = [bot EXCEPT !.reviewing = bot.triggers, !.handled = bot.triggers, !.head = pr.head]
      BY <2>1 DEF BotStarts
    <3>2. bot' \in Bots /\ bot'.handled = bot.triggers /\ bot'.triggers = bot.triggers
          /\ bot'.reviewing = bot.triggers /\ bot'.cheered = bot.cheered
      BY <3>1 DEF ReviewInv, ReviewHub, Bots
    <3>3. bot'.cheered <= bot'.handled
      BY <3>2 DEF ReviewInv, ReviewHub, Bots
    <3> QED
      BY <2>1, <3>2, <3>3 DEF ReviewInv, ReviewHub, BotStarts, Bots
  <2>2. CASE BotCheers
    <3>1. bot' = [bot EXCEPT !.cheered = bot.reviewing, !.reviewing = 0,
                             !.clean = bot.clean \union {bot.head}]
      BY <2>2 DEF BotCheers
    <3>2. bot' \in Bots /\ bot'.handled = bot.handled /\ bot'.triggers = bot.triggers
          /\ bot'.reviewing = 0 /\ bot'.cheered = bot.reviewing
      BY <3>1 DEF ReviewInv, ReviewHub, Bots
    <3> QED
      BY <2>2, <3>2 DEF ReviewInv, ReviewHub, BotCheers, Bots
  <2>3. CASE BotFlags
    <3>1. bot' \in Bots /\ bot'.handled = bot.handled /\ bot'.triggers = bot.triggers
          /\ bot'.reviewing = 0 /\ bot'.cheered = bot.cheered
      BY <2>3 DEF ReviewInv, ReviewHub, Bots, BotFlags
    <3>2. flagged' \subseteq opened' /\ opened' \subseteq Findings /\ replied' \subseteq opened'
      BY <2>3 DEF ReviewInv, ReviewHub, BotFlags
    <3> QED
      BY <2>3, <3>1, <3>2 DEF ReviewInv, ReviewHub, BotFlags, Bots
  <2>4. CASE HumanEnds
    BY <2>4 DEF ReviewInv, ReviewHub, HumanEnds, Lives
  <2> QED
    BY <2>1, <2>2, <2>3, <2>4 DEF BotStep
<1> QED
  BY <1>2, <1>3 DEF ReviewInv

\* What the outside events do with their budget.
LEMMA Budget ==
    ASSUME rleft \in [ReviewEvents -> Nat], NEW e \in ReviewEvents, Uses(e)
    PROVE  rleft' \in [ReviewEvents -> Nat]
  BY DEF Uses

LEMMA Asking ==
    ASSUME ReviewHub, Trigger
    PROVE  /\ bot' \in Bots /\ bot'.cheered <= bot'.handled /\ bot'.handled <= bot'.triggers
           /\ bot'.reviewing <= bot'.handled
<1>1. bot' \in Bots /\ bot'.triggers = bot.triggers + 1 /\ bot'.handled = bot.handled
      /\ bot'.cheered = bot.cheered /\ bot'.reviewing = bot.reviewing
  BY DEF ReviewHub, Trigger, Bots
<1> QED
  BY <1>1 DEF ReviewHub, Bots

\* The run and its kickoff.
LEMMA KickSteps ==
    ASSUME ReviewInv, RunPushes \/ RunReports \/ KickStep \/ KickDies
    PROVE  ReviewInv'
<1>1. UNCHANGED <<pass, prLock, replied, opened, flagged>>
  BY DEF RunPushes, RunReports, KickStep, KickReady, KickAsks, KickAsked, Rekick, KickDies, hubVars
<1>2. ReviewPassing'
  BY <1>1, Bystanders DEF ReviewInv
<1>3. ReviewHub'
  <2>1. CASE UNCHANGED bot
    <3>1. pr' \in [life : Lives, draft : BOOLEAN, head : Heads]
      BY DEF RunPushes, RunReports, KickStep, KickReady, KickAsks, KickAsked, Rekick, KickDies,
             hubVars, ReviewInv, ReviewHub, MarkReady
    <3> QED
      BY <1>1, <2>1, <3>1 DEF ReviewInv, ReviewHub
  <2>2. CASE Trigger
    <3>1. UNCHANGED pr
      <4>1. bot'.triggers # bot.triggers
        BY <2>2 DEF ReviewInv, ReviewHub, Bots, Trigger
      <4> QED
        BY <4>1 DEF RunPushes, RunReports, KickStep, KickReady, KickAsks, KickAsked, Rekick, KickDies,
             hubVars
    <3> QED
      BY <1>1, <2>2, <3>1, Asking DEF ReviewInv, ReviewHub
  <2> QED
    BY <2>1, <2>2 DEF RunPushes, RunReports, KickStep, KickReady, KickAsks, KickAsked, Rekick,
                      KickDies, hubVars
<1>4. ReviewRows'
  <2>1. CASE RunPushes
    BY <2>1, Budget DEF RunPushes, ReviewInv, ReviewRows, Kicks, ReviewEvents
  <2>2. CASE RunReports
    <3>1. prow' \in [state : RowStates, rounds : Nat, approved : Heads]
      BY <2>2 DEF RunReports, Tracked, ReviewInv, ReviewRows, RowStates, Scanned, MergeScanStates
    <3>2. kick' \in Kicks
      BY <2>2, NoKickIsAKick DEF RunReports, ReviewInv, ReviewRows, Kicks
    <3> QED
      BY <2>2, <3>1, <3>2 DEF RunReports, ReviewInv, ReviewRows
  <2>3. CASE KickReady
    BY <2>3, Budget DEF KickReady, ReviewInv, ReviewRows, Kicks, ReviewEvents
  <2>4. CASE KickAsks
    <3>1. prow' \in [state : RowStates, rounds : Nat, approved : Heads]
      BY <2>4 DEF KickAsks, ReviewInv, ReviewRows, RowStates, Scanned, DrivenStates
    <3>2. kick' \in Kicks
      BY <2>4 DEF KickAsks, ReviewInv, ReviewRows, Kicks
    <3>3. rleft' \in [ReviewEvents -> Nat]
      BY <2>4, Budget DEF KickAsks, ReviewInv, ReviewRows, ReviewEvents
    <3> QED
      BY <3>1, <3>2, <3>3 DEF ReviewRows
  <2>5. CASE KickAsked
    <3>1. kick.rounds + 1 \in Nat
      BY DEF ReviewInv, ReviewRows, Kicks
    <3> QED
      BY <2>5, <3>1, NoKickIsAKick DEF KickAsked, ReviewInv, ReviewRows, RowStates, Scanned, DrivenStates
  <2>6. CASE Rekick
    <3>1. kick' \in Kicks
      BY <2>6, NoKickIsAKick DEF Rekick, ReviewInv, ReviewRows, Kicks
    <3> QED
      BY <2>6, <3>1, Budget DEF Rekick, ReviewInv, ReviewRows, ReviewEvents
  <2>7. CASE KickDies
    BY <2>7, NoKickIsAKick, Budget DEF KickDies, ReviewInv, ReviewRows, ReviewEvents, hubVars
  <2> QED
    BY <2>1, <2>2, <2>3, <2>4, <2>5, <2>6, <2>7 DEF KickStep
<1> QED
  BY <1>2, <1>3, <1>4 DEF ReviewInv

\* A pass that ends frees the lock it may hold.
LEMMA PassEnds ==
    ASSUME ReviewPassing, NEW w \in Shepherds, Leaves(w), opened' = opened, replied' = replied,
           prLock = w \/ prLock = NoOne
    PROVE  ReviewPassing'
  BY NoPassIsAPass, OnePass DEF Leaves

\* A pass under way moves on.
LEMMA PassMoves ==
    ASSUME ReviewPassing, NEW w \in Shepherds, NEW rec \in ReviewPasses,
           pass' = [pass EXCEPT ![w] = rec], opened' = opened, replied' = replied,
           prLock = w, prLock' = w, rec.todo \subseteq opened, rec.pc # "fixing"
    PROVE  ReviewPassing'
  BY OnePass

\* Past the wait for it, a pass holds the lock.
LEMMA Holder ==
    ASSUME ReviewPassing, NEW w \in Shepherds, pass[w].pc \notin {"idle", "waiting"}
    PROVE  prLock = w /\ pass[w] \in ReviewPasses /\ pass[w].todo \subseteq opened
  BY DEF ReviewPassing, PassIsSound

LEMMA PassesGoOn ==
    ASSUME ReviewInv, NEW w \in Shepherds, PassStep(w) \/ ShepherdCrash(w)
    PROVE  ReviewPassing'
<1> USE DEF ReviewInv
<1>0. pass \in [Shepherds -> ReviewPasses] /\ pass[w] \in ReviewPasses /\ pass[w].todo \subseteq opened
  BY DEF ReviewPassing, PassIsSound
<1>1. CASE StartPass(w)
  <2> DEFINE rec == [pass[w] EXCEPT !.pc = "waiting"]
  <2>1. pass' = [pass EXCEPT ![w] = rec] /\ rec \in ReviewPasses /\ rec.pc = "waiting"
        /\ rec.todo = pass[w].todo
    BY <1>0, <1>1 DEF StartPass, ReviewPasses, PassPlaces
  <2> QED
    BY <1>0, <1>1, <2>1, OnePass DEF StartPass, hubVars
<1>2. CASE EnterPass(w)
  <2>1. opened' = opened /\ replied' = replied /\ prLock = NoOne
    BY <1>2 DEF EnterPass, LockFree, hubVars
  <2>2. CASE Leaves(w)
    BY <2>1, <2>2, PassEnds
  <2>3. CASE prLock' = w /\ pass' = [pass EXCEPT ![w] =
            Fetched([NoPass EXCEPT !.pc = "info", !.state = prow.state, !.rounds = prow.rounds])]
    <3> DEFINE rec == Fetched([NoPass EXCEPT !.pc = "info", !.state = prow.state, !.rounds = prow.rounds])
    <3>1. rec \in ReviewPasses /\ rec.pc = "info" /\ rec.todo = {}
      BY NoPassIsAPass DEF Fetched, NoPass, ReviewPasses, PassPlaces, ReviewHub, ReviewRows
    <3> HIDE DEF rec
    <3>2. pass' = [pass EXCEPT ![w] = rec]
      BY <2>3 DEF rec
    <3> QED
      BY <2>1, <2>3, <3>1, <3>2, OnePass
  <2> QED
    BY <1>2, <2>2, <2>3 DEF EnterPass
<1>3. CASE SeesEnd(w) \/ OnlyLooks(w) \/ Approve(w) \/ Stall(w) \/ Wait(w) \/ CountRound(w)
  <2>1. pass[w].pc \notin {"idle", "waiting"} /\ Leaves(w) /\ UNCHANGED <<opened, replied>>
    BY <1>3 DEF SeesEnd, OnlyLooks, Approve, Stall, Wait, CountRound, hubVars
  <2> QED
    BY <2>1, Holder, PassEnds
<1>4. CASE Undraft(w)
  <2>1. pass[w].pc \notin {"idle", "waiting"} /\ UNCHANGED <<opened, replied>>
    BY <1>4 DEF Undraft, Driven, hubVars
  <2>2. CASE Leaves(w)
    BY <2>1, <2>2, Holder, PassEnds
  <2>3. CASE ~Leaves(w)
    <3> DEFINE rec == [pass[w] EXCEPT !.pc = "undrafted"]
    <3>1. pass' = [pass EXCEPT ![w] = rec] /\ prLock' = prLock
      BY <1>0, <1>4, <2>3 DEF Undraft, ReviewPasses
    <3>2. rec \in ReviewPasses /\ rec.pc # "fixing" /\ rec.todo \subseteq opened
      BY <1>0, <1>4, <2>3 DEF Undraft, ReviewPasses, PassPlaces, ReviewHub, Bots
    <3> HIDE DEF rec
    <3> QED
      BY <2>1, <3>1, <3>2, Holder, PassMoves
  <2> QED
    BY <2>2, <2>3
<1>5. CASE ListComments(w)
  <2>1. pass[w].pc \notin {"idle", "waiting"} /\ UNCHANGED <<opened, replied>>
    BY <1>5 DEF ListComments, Driven, hubVars
  <2>2. CASE Leaves(w)
    BY <2>1, <2>2, Holder, PassEnds
  <2>3. CASE ~Leaves(w)
    <3> DEFINE rec == [pass[w] EXCEPT !.pc = "comments", !.trigger = bot.triggers]
    <3>1. pass' = [pass EXCEPT ![w] = rec] /\ prLock' = prLock
      BY <1>0, <1>5, <2>3 DEF ListComments, ReviewPasses
    <3>2. rec \in ReviewPasses /\ rec.pc # "fixing" /\ rec.todo \subseteq opened
      BY <1>0, <1>5, <2>3 DEF ListComments, ReviewPasses, PassPlaces, ReviewHub, Bots
    <3> HIDE DEF rec
    <3> QED
      BY <2>1, <3>1, <3>2, Holder, PassMoves
  <2> QED
    BY <2>2, <2>3
<1>6. CASE ListFindings(w)
  <2>1. pass[w].pc \notin {"idle", "waiting"} /\ UNCHANGED <<opened, replied>>
    BY <1>6 DEF ListFindings, Driven, hubVars
  <2>2. CASE Leaves(w)
    BY <2>1, <2>2, Holder, PassEnds
  <2>3. CASE ~Leaves(w)
    <3> DEFINE rec == [pass[w] EXCEPT !.pc = "findings", !.todo = flagged]
    <3>1. pass' = [pass EXCEPT ![w] = rec] /\ prLock' = prLock
      BY <1>0, <1>6, <2>3 DEF ListFindings, ReviewPasses
    <3>2. rec \in ReviewPasses /\ rec.pc # "fixing" /\ rec.todo \subseteq opened
      BY <1>0, <1>6, <2>3 DEF ListFindings, ReviewPasses, PassPlaces, ReviewHub, Bots
    <3> HIDE DEF rec
    <3> QED
      BY <2>1, <3>1, <3>2, Holder, PassMoves
  <2> QED
    BY <2>2, <2>3
<1>7. CASE AskFirst(w)
  <2>1. pass[w].pc \notin {"idle", "waiting"} /\ UNCHANGED <<opened, replied>>
    BY <1>7 DEF AskFirst, Driven, hubVars
  <2>2. CASE Leaves(w)
    BY <2>1, <2>2, Holder, PassEnds
  <2>3. CASE ~Leaves(w)
    <3> DEFINE rec == [pass[w] EXCEPT !.pc = "asked"]
    <3>1. pass' = [pass EXCEPT ![w] = rec] /\ prLock' = prLock
      BY <1>0, <1>7, <2>3 DEF AskFirst, ReviewPasses
    <3>2. rec \in ReviewPasses /\ rec.pc # "fixing" /\ rec.todo \subseteq opened
      BY <1>0, <1>7, <2>3 DEF AskFirst, ReviewPasses, PassPlaces, ReviewHub, Bots
    <3> HIDE DEF rec
    <3> QED
      BY <2>1, <3>1, <3>2, Holder, PassMoves
  <2> QED
    BY <2>2, <2>3
<1>8. CASE AskAgain(w)
  <2>1. pass[w].pc \notin {"idle", "waiting"} /\ UNCHANGED <<opened, replied>>
    BY <1>8 DEF AskAgain, Driven, hubVars
  <2>2. CASE Leaves(w)
    BY <2>1, <2>2, Holder, PassEnds
  <2>3. CASE ~Leaves(w)
    <3> DEFINE rec == [pass[w] EXCEPT !.pc = "asked"]
    <3>1. pass' = [pass EXCEPT ![w] = rec] /\ prLock' = prLock
      BY <1>0, <1>8, <2>3 DEF AskAgain, ReviewPasses
    <3>2. rec \in ReviewPasses /\ rec.pc # "fixing" /\ rec.todo \subseteq opened
      BY <1>0, <1>8, <2>3 DEF AskAgain, ReviewPasses, PassPlaces, ReviewHub, Bots
    <3> HIDE DEF rec
    <3> QED
      BY <2>1, <3>1, <3>2, Holder, PassMoves
  <2> QED
    BY <2>2, <2>3
<1>9. CASE StartFix(w)
  <2>1. pass[w].pc = "findings" /\ UNCHANGED <<opened, replied, prLock>>
    BY <1>9 DEF StartFix, hubVars
  <2> DEFINE rec == [pass[w] EXCEPT !.pc = "fixing", !.todo = Unreplied(w)]
  <2>2. pass' = [pass EXCEPT ![w] = rec]
    BY <1>0, <1>9 DEF StartFix, ReviewPasses
  <2>3. rec \in ReviewPasses /\ rec.todo \subseteq opened /\ rec.todo \intersect replied = {}
    BY <1>0 DEF Unreplied, ReviewPasses, PassPlaces
  <2>4. rec.pc = "fixing"
    BY <1>0 DEF ReviewPasses
  <2> HIDE DEF rec
  <2> QED
    BY <2>1, <2>2, <2>3, <2>4, Holder, OnePass
<1>10. CASE FixReturns(w)
  <2>1. pass[w].pc = "fixing" /\ UNCHANGED <<opened, replied>>
    BY <1>10 DEF FixReturns
  <2>2. CASE Leaves(w)
    BY <2>1, <2>2, Holder, PassEnds
  <2>3. CASE ~Leaves(w)
    <3>1. PICK answered \in SUBSET pass[w].todo :
             pass' = [pass EXCEPT ![w].pc = "reply", ![w].todo = answered] /\ prLock' = prLock
      BY <1>10, <2>3 DEF FixReturns
    <3> DEFINE rec == [pass[w] EXCEPT !.pc = "reply", !.todo = answered]
    <3>2. pass' = [pass EXCEPT ![w] = rec]
      BY <1>0, <3>1 DEF ReviewPasses
    <3>3. rec \in ReviewPasses /\ rec.pc # "fixing" /\ rec.todo \subseteq opened
      BY <1>0 DEF ReviewPasses, PassPlaces
    <3> HIDE DEF rec
    <3> QED
      BY <2>1, <3>1, <3>2, <3>3, Holder, PassMoves
  <2> QED
    BY <2>2, <2>3
<1>11. CASE Reply(w)
  <2>1. pass[w].pc = "reply" /\ UNCHANGED <<opened, prLock>>
    BY <1>11 DEF Reply
  <2>2. PICK c \in pass[w].todo : pass' = [pass EXCEPT ![w].todo = @ \ {c}]
    BY <1>11 DEF Reply
  <2> DEFINE rec == [pass[w] EXCEPT !.todo = @ \ {c}]
  <2>3. pass' = [pass EXCEPT ![w] = rec]
    BY <1>0, <2>2
  <2>4. rec \in ReviewPasses /\ rec.pc = "reply" /\ rec.todo \subseteq opened
    BY <1>0, <2>1 DEF ReviewPasses
  <2> HIDE DEF rec
  <2> QED
    BY <2>1, <2>3, <2>4, Holder, OnePass
<1>12. CASE ShepherdCrash(w)
  <2>1. UNCHANGED <<opened, replied>> /\ pass' = [pass EXCEPT ![w] = NoPass]
        /\ (prLock' = prLock \/ prLock = w)
    BY <1>12 DEF ShepherdCrash, hubVars
  <2> QED
    BY <2>1, NoPassIsAPass, OnePass
<1> QED
  BY <1>1, <1>2, <1>3, <1>4, <1>5, <1>6, <1>7, <1>8, <1>9, <1>10, <1>11, <1>12 DEF PassStep

\* What a pass does to GitHub and to the rows.
LEMMA PassWrites ==
    ASSUME ReviewInv, NEW w \in Shepherds, PassStep(w) \/ ShepherdCrash(w)
    PROVE  ReviewHub' /\ ReviewRows'
<1> USE DEF ReviewInv
<1>0. pass \in [Shepherds -> ReviewPasses] /\ pass[w] \in ReviewPasses /\ pass[w].todo \subseteq opened
  BY DEF ReviewPassing, PassIsSound
<1>1. ReviewHub'
  <2>1. CASE UNCHANGED hubVars
    BY <2>1 DEF hubVars, ReviewHub
  <2>2. CASE Undraft(w)
    BY <2>2 DEF Undraft, MarkReady, ReviewHub
  <2>3. CASE AskFirst(w) \/ AskAgain(w)
    <3>1. UNCHANGED <<pr, flagged, opened, replied>> /\ (UNCHANGED bot \/ Trigger)
      BY <2>3 DEF AskFirst, AskAgain
    <3> QED
      BY <3>1, Asking DEF ReviewHub
  <2>4. CASE FixReturns(w)
    BY <2>4 DEF FixReturns, ReviewHub
  <2>5. CASE Reply(w)
    <3>1. replied' \subseteq opened
      BY <1>0, <2>5 DEF Reply, ReviewHub, Answered
    <3> QED
      BY <2>5, <3>1 DEF Reply, ReviewHub
  <2> QED
    BY <2>1, <2>2, <2>3, <2>4, <2>5 DEF PassStep, StartPass, EnterPass, SeesEnd, OnlyLooks,
       ListComments, Approve, ListFindings, Stall, Wait, StartFix, CountRound, ShepherdCrash
<1>2. UNCHANGED kick
  BY DEF PassStep, StartPass, EnterPass, SeesEnd, OnlyLooks, Undraft, ListComments, Approve,
         ListFindings, AskFirst, Stall, Wait, StartFix, FixReturns, Reply, AskAgain, CountRound,
         ShepherdCrash
<1>3. rleft' \in [ReviewEvents -> Nat]
  <2>1. UNCHANGED rleft \/ \E e \in ReviewEvents : Uses(e)
    BY DEF PassStep, StartPass, EnterPass, SeesEnd, OnlyLooks, Undraft, ListComments, Approve,
           ListFindings, AskFirst, Stall, Wait, StartFix, FixReturns, Reply, AskAgain, CountRound,
           ShepherdCrash, ReviewEvents
  <2> QED
    BY <2>1, Budget DEF ReviewRows
<1>4. prow' \in [state : RowStates, rounds : Nat, approved : Heads]
  <2>1. CASE UNCHANGED prow
    BY <2>1 DEF ReviewRows
  <2>2. CASE SeesEnd(w) \/ Stall(w) \/ CountRound(w) \/ Approve(w) \/ ListComments(w)
    <3>1. pass[w].rounds + 1 \in Nat /\ pass[w].head \in Heads /\ pass[w].life \in Lives
      BY <1>0 DEF ReviewPasses
    <3> QED
      BY <2>2, <3>1 DEF SeesEnd, Stall, CountRound, Approve, ListComments, ReviewRows, RowStates, Lives,
         Scanned, DrivenStates, MergeScanStates
  <2> QED
    BY <2>1, <2>2 DEF PassStep, StartPass, EnterPass, OnlyLooks, Undraft, ListFindings, AskFirst,
       Wait, StartFix, FixReturns, Reply, AskAgain, ShepherdCrash
<1> QED
  BY <1>1, <1>2, <1>3, <1>4 DEF ReviewRows

\* THEOREM.  Whatever the bot, the humans, the runs and any number of passes do,
\* one pass at a time is past the review's lock, it works on findings the bot has
\* opened, and what it fixes has no reply (worker._shepherd_pr).
THEOREM ReviewInvariant == ReviewSpec => []ReviewInv
<1>1. ReviewInv /\ [ReviewNext]_reviewVars => ReviewInv'
  <2> SUFFICES ASSUME ReviewInv, [ReviewNext]_reviewVars PROVE ReviewInv'
    OBVIOUS
  <2>1. CASE BotStep \/ HumanEnds
    BY <2>1, HubSteps
  <2>2. CASE RunPushes \/ RunReports \/ KickStep \/ KickDies
    BY <2>2, KickSteps
  <2>3. ASSUME NEW w \in Shepherds, PassStep(w) \/ ShepherdCrash(w) PROVE ReviewInv'
    BY <2>3, PassesGoOn, PassWrites DEF ReviewInv
  <2>4. CASE UNCHANGED reviewVars
    BY <2>4 DEF ReviewInv, ReviewHub, ReviewRows, ReviewPassing, PassIsSound, reviewVars
  <2> QED
    BY <2>1, <2>2, <2>3, <2>4 DEF ReviewNext
<1> QED
  BY <1>1, ReviewStarts, PTL DEF ReviewSpec

\* THEOREM.  The rows of a review have their types, the bot cheers no head it has
\* not handled, and a pass that goes beyond the lock holds it.
THEOREM ReviewTypes == ReviewSpec => []ReviewTypeOK
<1>1. ReviewInv => ReviewTypeOK
  BY DEF ReviewInv, ReviewHub, ReviewRows, ReviewPassing, PassIsSound, ReviewTypeOK, Lives, Bots,
         Kicks, RowStates
<1> QED
  BY <1>1, ReviewInvariant, PTL

\* THEOREM.  However many processes shepherd a pull request, no paid fix run works on
\* a finding that a sibling has answered: what is left to do is read again under
\* the lock of the pull request (worker._shepherd_pr, _shepherd_pr_locked).
THEOREM FixesStayFresh == ReviewSpec => []FixesAreFresh
<1>1. ReviewInv => FixesAreFresh
  BY DEF ReviewInv, ReviewPassing, PassIsSound, FixesAreFresh
<1> QED
  BY <1>1, ReviewInvariant, PTL

-----------------------------------------------------------------------------
(* Routines: scheduled events.                                              *)

RowRecs == [kind : Kinds, spec : Specs, enabled : BOOLEAN, null : BOOLEAN, due : BOOLEAN]
IsTick(t) ==
    /\ t = [on |-> t.on, todo |-> t.todo, fresh |-> t.fresh, seen |-> t.seen]
    /\ t.on \in BOOLEAN /\ t.todo \subseteq Rows /\ t.fresh \subseteq t.todo
    /\ t.on <=> t.todo # {}

SchedTypes ==
    /\ routine \in [Rows -> RowRecs] /\ sleft \in [RoutineEvents -> Nat]
    /\ armed \in [Schedulers -> SUBSET Rows] /\ owed \in [Schedulers -> SUBSET Rows]
    /\ inflight \in [Schedulers -> SUBSET Rows] /\ up \subseteq Schedulers
    /\ firing \in [Schedulers -> [Rows -> {"none", "claimed", "handling"}]]
    /\ DOMAIN tick = Schedulers /\ tick = [s \in Schedulers |-> tick[s]]

\* A row without a stamp is not due after it.
RowsAreSound ==
    DailyRowsAreAnchored /\ \A r \in Rows : routine[r].null => ~routine[r].due

\* A task for each row in _inflight, and nothing at all in a dead process.
FiringsAreSound ==
    \A s \in Schedulers :
        /\ inflight[s] = {r \in Rows : firing[s][r] # "none"}
        /\ s \notin up => armed[s] = {} /\ inflight[s] = {} /\ ~tick[s].on

\* What may have happened to a row since it was read without a stamp: it came
\* due, it was edited, but no workspace schedule turned bad.
Unstamped(old, new) ==
    /\ old.kind = new.kind /\ old.null = new.null /\ (old.due => new.due)
    /\ new.kind = "workspace" /\ Schedule(new) = "none" => Schedule(old) = "none"

\* What a tick remembers is true of the rows that nobody has stamped, and the
\* rows with a request are among them and are on.
TickIsSound(s) ==
    /\ IsTick(tick[s])
    /\ \A r \in tick[s].fresh : Unstamped(Seen(s, r), routine[r])
    /\ \A r \in owed[s] : Effective(r, routine[r])
    /\ \A r \in owed[s] \intersect tick[s].todo :
          r \in tick[s].fresh /\ Effective(r, Seen(s, r))

SchedInv == SchedTypes /\ RowsAreSound /\ FiringsAreSound /\ \A s \in Schedulers : TickIsSound(s)

LEMMA SchedStarts == SchedInit => SchedInv
<1> SUFFICES ASSUME SchedInit PROVE SchedInv
  OBVIOUS
<1>1. IsTick(NoTick) /\ NoTick.todo = {} /\ NoTick.fresh = {} /\ ~NoTick.on
  BY DEF IsTick, NoTick
<1>2. SchedTypes
  BY RoutineAssumption DEF SchedInit, SchedTypes, RowRecs, RoutineAssumption
<1>3. RowsAreSound
  BY DEF SchedInit, RowsAreSound, DailyRowsAreAnchored
<1>4. FiringsAreSound
  BY <1>1 DEF SchedInit, FiringsAreSound
<1>5. ASSUME NEW s \in Schedulers PROVE TickIsSound(s)
  BY <1>1 DEF SchedInit, TickIsSound
<1> QED
  BY <1>2, <1>3, <1>4, <1>5 DEF SchedInv

\* The tick of one scheduler after a step: it does not know more rows, what it
\* read it read before, and a row it still believes in has not been stamped.
LEMMA TickGoesOn ==
    ASSUME SchedInv, NEW s \in Schedulers, IsTick(tick[s])',
           tick'[s].todo \subseteq tick[s].todo, tick'[s].fresh \subseteq tick[s].fresh,
           \A r \in tick'[s].todo : tick'[s].seen[r] = tick[s].seen[r],
           \A r \in tick'[s].fresh : Unstamped(routine[r], routine'[r]),
           owed'[s] \subseteq owed[s],
           \A r \in owed'[s] : Effective(r, routine[r]) => Effective(r, routine'[r]),
           \A r \in owed'[s] \intersect tick'[s].todo : r \in tick[s].fresh => r \in tick'[s].fresh
    PROVE  TickIsSound(s)'
<1>1. \A r \in tick'[s].fresh : Unstamped(tick'[s].seen[r], routine'[r])
  <2> SUFFICES ASSUME NEW r \in tick'[s].fresh PROVE Unstamped(tick'[s].seen[r], routine'[r])
    OBVIOUS
  <2>1. r \in tick[s].fresh /\ tick'[s].seen[r] = tick[s].seen[r]
    BY DEF IsTick
  <2>2. Unstamped(tick[s].seen[r], routine[r]) /\ Unstamped(routine[r], routine'[r])
    BY <2>1 DEF SchedInv, TickIsSound, Seen
  <2> QED
    BY <2>1, <2>2 DEF Unstamped
<1>2. \A r \in owed'[s] : Effective(r, routine'[r])
  BY DEF SchedInv, TickIsSound
<1>3. \A r \in owed'[s] \intersect tick'[s].todo :
          r \in tick'[s].fresh /\ Effective(r, tick'[s].seen[r])
  BY DEF SchedInv, TickIsSound, Seen
<1> QED
  BY <1>1, <1>2, <1>3 DEF TickIsSound, Seen

LEMMA SameRow == ASSUME NEW row PROVE Unstamped(row, row)
  BY DEF Unstamped

\* A step that touches no row, no tick and no request.
LEMMA TicksStay ==
    ASSUME SchedInv, UNCHANGED <<routine, tick>>,
           \A s \in Schedulers : owed'[s] \subseteq owed[s]
    PROVE  \A s \in Schedulers : TickIsSound(s)'
<1> SUFFICES ASSUME NEW s \in Schedulers PROVE TickIsSound(s)'
  OBVIOUS
<1>1. IsTick(tick[s])' /\ IsTick(tick[s])
  BY DEF SchedInv, TickIsSound
<1> QED
  BY <1>1, TickGoesOn, SameRow DEF IsTick

LEMMA TickFields ==
    ASSUME NEW t, NEW rest, NEW known, NEW old, rest # {}, known \subseteq rest, rest \subseteq Rows,
           t = [on |-> TRUE, todo |-> rest, fresh |-> known, seen |-> [x \in rest |-> old[x]]]
    PROVE  /\ IsTick(t) /\ t.on /\ t.todo = rest /\ t.fresh = known
           /\ \A x \in rest : t.seen[x] = old[x]
<1>1. t.on /\ t.todo = rest /\ t.fresh = known
  OBVIOUS
<1>2. t.seen = [x \in rest |-> old[x]]
  OBVIOUS
<1> QED
  BY <1>1, <1>2 DEF IsTick

\* The ticks t believe in everything but R.
Without(t, R) ==
    /\ DOMAIN t = Schedulers
    /\ \A p \in Schedulers : t[p] = IF R = {} THEN tick[p] ELSE [tick[p] EXCEPT !.fresh = @ \ R]

\* The tick of q after s was done with a row, when the rows in R were stamped.
Shrinks(s, q, R) ==
    /\ IsTick(tick'[q]) /\ (DOMAIN tick)' = Schedulers
    /\ tick'[q].todo \subseteq tick[q].todo /\ tick'[q].fresh \subseteq tick[q].fresh
    /\ tick'[q].todo \intersect R \intersect tick'[q].fresh = {}
    /\ \A x \in tick'[q].todo : tick'[q].seen[x] = tick[q].seen[x]
    /\ \A x \in tick'[q].todo \intersect tick[q].fresh : x \notin R => x \in tick'[q].fresh
    /\ q # s => (tick'[q].on <=> tick[q].on)

\* The tick of s is done with r; others may lose the rows in R.
LEMMA AfterDone ==
    ASSUME SchedInv, NEW s \in Schedulers, NEW r \in Rows, InTick(s, r), NEW R \in {{}, {r}}, NEW t,
           Without(t, R),
           tick' = Done(s, r, t),
           NEW q \in Schedulers
    PROVE  Shrinks(s, q, R)
<1> USE DEF Shrinks
<1>1. IsTick(tick[q]) /\ IsTick(tick[s]) /\ DOMAIN tick = Schedulers
  BY DEF SchedInv, TickIsSound, SchedTypes
<1>2. t[q].todo = tick[q].todo /\ t[q].on = tick[q].on /\ t[q].seen = tick[q].seen
      /\ t[q].fresh = tick[q].fresh \ R /\ IsTick(t[q]) /\ DOMAIN t = Schedulers
  BY <1>1 DEF IsTick, Without
<1>3. t[s].todo = tick[s].todo /\ t[s].on = tick[s].on /\ t[s].seen = tick[s].seen
      /\ t[s].fresh = tick[s].fresh \ R
  BY <1>1 DEF IsTick, Without
<1> DEFINE rest == t[s].todo \ {r}
<1>5. DOMAIN tick' = Schedulers
  BY <1>2 DEF Done
<1>6. CASE q # s
  <2>1. tick'[q] = t[q]
    BY <1>2, <1>6 DEF Done
  <2> QED
    BY <1>1, <1>2, <1>5, <2>1
<1>7. CASE q = s /\ rest = {}
  <2>1. tick'[q] = NoTick
    BY <1>2, <1>7 DEF Done
  <2>2. IsTick(NoTick) /\ NoTick.todo = {} /\ NoTick.fresh = {}
    BY DEF NoTick, IsTick
  <2>3. IsTick(tick'[q]) /\ tick'[q].todo = {} /\ tick'[q].fresh = {}
    BY <2>1, <2>2
  <2> QED
    BY <1>5, <1>7, <2>3
<1>8. CASE q = s /\ rest # {}
  <2>1. tick'[q] = [on |-> TRUE, todo |-> rest, fresh |-> t[s].fresh \intersect rest,
                    seen |-> [x \in rest |-> t[s].seen[x]]]
    BY <1>2, <1>8 DEF Done
  <2>2. r \notin rest /\ rest \subseteq tick[s].todo /\ rest # {}
    BY <1>3, <1>8
  <2>3. \A x \in tick[s].todo \intersect tick[s].fresh : x \notin R /\ x \in rest => x \in t[s].fresh \intersect rest
    BY <1>3
  <2> HIDE DEF rest
  <2>31. PICK known : known = t[s].fresh \intersect rest
    OBVIOUS
  <2>4. PICK old : old = t[s].seen
    OBVIOUS
  <2>5. PICK k : k = tick'[q]
    OBVIOUS
  <2>6. k = [on |-> TRUE, todo |-> rest, fresh |-> known, seen |-> [x \in rest |-> old[x]]]
    BY <2>1, <2>31, <2>4, <2>5
  <2>7. known \subseteq rest /\ rest \subseteq Rows
    BY <1>1, <2>2, <2>31 DEF IsTick
  <2>8. IsTick(k) /\ k.todo = rest /\ k.fresh = known /\ \A x \in rest : k.seen[x] = old[x]
    BY <2>2, <2>6, <2>7, TickFields
  <2>81. \A x \in rest : tick'[q].seen[x] = tick[q].seen[x]
    BY <1>3, <1>8, <2>4, <2>5, <2>8
  <2>9. tick'[q].todo \intersect R \intersect tick'[q].fresh = {}
    BY <2>2, <2>5, <2>8
  <2>10. tick'[q].todo \subseteq tick[q].todo /\ tick'[q].fresh \subseteq tick[q].fresh
    BY <1>3, <1>8, <2>2, <2>31, <2>5, <2>8
  <2> QED
    BY <1>5, <1>8, <2>3, <2>31, <2>5, <2>8, <2>81, <2>9, <2>10
<1> QED
  BY <1>6, <1>7, <1>8

\* A write of the stamp keeps the rows sound, and settles what is owed on them.
LEMMA Stamped ==
    ASSUME SchedInv, NEW R \in SUBSET Rows, Stamp(R)
    PROVE  /\ routine' \in [Rows -> RowRecs] /\ RowsAreSound'
           /\ owed' \in [Schedulers -> SUBSET Rows]
           /\ \A r \in Rows \ R : routine'[r] = routine[r]
           /\ \A s \in Schedulers : owed'[s] = owed[s] \ R
<1>1. routine \in [Rows -> RowRecs] /\ owed \in [Schedulers -> SUBSET Rows]
  BY DEF SchedInv, SchedTypes
<1>2. \A r \in R : LET row == [routine[r] EXCEPT !.null = FALSE, !.due = FALSE]
                   IN routine'[r] = row /\ row \in RowRecs /\ ~row.null
  BY <1>1 DEF Stamp, RowRecs
<1>3. \A r \in Rows \ R : routine'[r] = routine[r]
  BY DEF Stamp
<1>4. routine' \in [Rows -> RowRecs]
  BY <1>1, <1>2, <1>3 DEF Stamp
<1>5. RowsAreSound'
  BY <1>2, <1>3 DEF SchedInv, RowsAreSound, DailyRowsAreAnchored
<1> QED
  BY <1>1, <1>3, <1>4, <1>5 DEF Stamp

LEMMA OwnBudget ==
    ASSUME SchedTypes, NEW e \in RoutineEvents, Once(e)
    PROVE  sleft' \in [RoutineEvents -> Nat]
  BY DEF Once, SchedTypes

\* What the operators and the time do to the rows.
LEMMA RowSteps ==
    ASSUME SchedInv, NEW r \in Rows, TimePasses(r) \/ Edit(r)
    PROVE  SchedInv'
<1> USE DEF SchedInv
<1>0. routine[r] \in RowRecs /\ routine \in [Rows -> RowRecs]
  BY DEF SchedTypes
<1>1. CASE TimePasses(r)
  <2>1. routine' = [routine EXCEPT ![r].due = TRUE] /\ ~routine[r].null
        /\ UNCHANGED <<tick, armed, inflight, firing, up, owed, sleft>>
    BY <1>1 DEF TimePasses
  <2>2. routine'[r] \in RowRecs /\ routine'[r].due = TRUE /\ routine'[r].null = routine[r].null
        /\ routine'[r].kind = routine[r].kind /\ routine'[r].spec = routine[r].spec
        /\ routine'[r].enabled = routine[r].enabled
    BY <1>0, <2>1 DEF RowRecs
  <2>3. \A q \in Rows \ {r} : routine'[q] = routine[q]
    BY <1>0, <2>1
  <2>4. routine' \in [Rows -> RowRecs] 
    BY <1>0, <2>1, <2>2
  <2>5. SchedTypes' /\ FiringsAreSound'
    BY <2>1, <2>4 DEF SchedTypes, FiringsAreSound
  <2>6. RowsAreSound'
    BY <2>1, <2>2, <2>3 DEF RowsAreSound, DailyRowsAreAnchored
  <2>7. \A q \in Rows : Unstamped(routine[q], routine'[q]) /\ (Effective(q, routine[q]) => Effective(q, routine'[q]))
    BY <2>2, <2>3 DEF Unstamped, Schedule, Effective
  <2>8. ASSUME NEW s \in Schedulers PROVE TickIsSound(s)'
    <3>1. IsTick(tick[s]) /\ IsTick(tick[s])' /\ owed[s] \subseteq Rows
      BY <2>1 DEF TickIsSound, SchedTypes
    <3> QED
      BY <2>1, <2>7, <3>1, TickGoesOn DEF IsTick
  <2> QED
    BY <2>5, <2>6, <2>8
<1>2. CASE Edit(r)
  <2>1. PICK spec \in {"default", "every", "daily"}, enabled \in BOOLEAN :
            /\ routine[r].kind = "reaper" => spec = routine[r].spec /\ enabled
            /\ routine[r].kind = "workspace" => spec # "default"
            /\ LET anchored == Anchors(r, spec)
                   row == [routine[r] EXCEPT !.spec = spec, !.enabled = enabled]
               IN /\ routine' = [routine EXCEPT ![r] =
                        IF anchored THEN [row EXCEPT !.null = FALSE, !.due = FALSE] ELSE row]
                  /\ tick' = IF anchored THEN [s \in Schedulers |-> [tick[s] EXCEPT !.fresh = @ \ {r}]]
                                         ELSE tick
                  /\ owed' = IF anchored \/ ~enabled THEN [s \in Schedulers |-> owed[s] \ {r}]
                                                     ELSE owed
    BY <1>2 DEF Edit
  <2> DEFINE anchored == Anchors(r, spec)
  <2>2. UNCHANGED <<armed, inflight, firing, up>> /\ sleft' \in [RoutineEvents -> Nat]
    BY <1>2, OwnBudget DEF Edit, RoutineEvents
  <2>3. /\ routine'[r] \in RowRecs /\ routine'[r].kind = routine[r].kind
        /\ routine'[r].spec = spec /\ routine'[r].enabled = enabled
        /\ anchored => ~routine'[r].null
        /\ ~anchored => routine'[r].null = routine[r].null /\ routine'[r].due = routine[r].due
    BY <1>0, <2>1 DEF RowRecs, Specs
  <2>4. (\A q \in Rows \ {r} : routine'[q] = routine[q]) /\ routine' \in [Rows -> RowRecs]
    BY <1>0, <2>1, <2>3
  <2>5. RowsAreSound'
    <3>1. ~anchored => (spec = "daily" => ~routine[r].null)
      BY DEF Anchors
    <3> QED
      BY <2>3, <2>4, <3>1 DEF RowsAreSound, DailyRowsAreAnchored
  <2>6. ASSUME NEW s \in Schedulers
        PROVE  /\ IsTick(tick[s])' /\ tick'[s].todo = tick[s].todo /\ tick'[s].seen = tick[s].seen
               /\ tick'[s].on = tick[s].on
               /\ tick'[s].fresh = IF anchored THEN tick[s].fresh \ {r} ELSE tick[s].fresh
               /\ owed'[s] = IF anchored \/ ~enabled THEN owed[s] \ {r} ELSE owed[s]
    <3>1. IsTick(tick[s])
      BY DEF TickIsSound
    <3>2. CASE ~anchored
      BY <2>1, <3>1, <3>2
    <3>3. CASE anchored
      <4>1. tick'[s] = [tick[s] EXCEPT !.fresh = @ \ {r}] /\ owed'[s] = owed[s] \ {r}
        BY <2>1, <3>3
      <4>2. tick'[s] = [on |-> tick[s].on, todo |-> tick[s].todo, fresh |-> tick[s].fresh \ {r},
                        seen |-> tick[s].seen]
        BY <3>1, <4>1 DEF IsTick
      <4> QED
        BY <3>1, <3>3, <4>1, <4>2 DEF IsTick
    <3> QED
      BY <3>2, <3>3
  <2>7. SchedTypes'
    <3>1. owed' \in [Schedulers -> SUBSET Rows]
      BY <2>1 DEF SchedTypes
    <3>2. DOMAIN tick' = Schedulers /\ tick' = [s \in Schedulers |-> tick'[s]]
      BY <2>1 DEF SchedTypes
    <3> QED
      BY <2>2, <2>4, <3>1, <3>2 DEF SchedTypes
  <2>8. FiringsAreSound'
    BY <2>2, <2>6 DEF FiringsAreSound
  <2>9. ASSUME NEW s \in Schedulers PROVE TickIsSound(s)'
    <3>0. IsTick(tick[s]) /\ owed[s] \subseteq Rows
      BY DEF TickIsSound, SchedTypes
    <3>1. \A q \in tick'[s].fresh : Unstamped(routine[q], routine'[q])
      <4>1. routine'[r].kind = "workspace" => Schedule(routine'[r]) # "none"
        BY <2>1, <2>3 DEF Schedule
      <4>2. ~anchored => Unstamped(routine[r], routine'[r])
        BY <2>3, <4>1 DEF Unstamped
      <4>3. \A q \in Rows \ {r} : Unstamped(routine[q], routine'[q])
        BY <2>4, SameRow
      <4>4. tick'[s].fresh \subseteq Rows /\ (anchored => r \notin tick'[s].fresh)
        BY <2>6, <3>0 DEF IsTick
      <4> QED
        BY <4>2, <4>3, <4>4
    <3>2. \A q \in owed'[s] : Effective(q, routine[q]) => Effective(q, routine'[q])
      BY <2>1, <2>3, <2>4, <2>6, <3>0 DEF Effective
    <3> HIDE DEF anchored
    <3> QED
      BY <2>6, <3>0, <3>1, <3>2, TickGoesOn
  <2> QED
    BY <2>5, <2>7, <2>8, <2>9
<1> QED
  BY <1>1, <1>2

\* A tick begins: it reads every row as it is.
LEMMA TickStarts ==
    ASSUME SchedInv, NEW s \in Schedulers, StartTick(s)
    PROVE  SchedInv'
<1> USE DEF SchedInv
<1>1. /\ s \in up /\ UNCHANGED <<routine, armed, inflight, firing, up, owed, sleft>>
      /\ tick' = [tick EXCEPT ![s] = [on |-> TRUE, todo |-> Rows, fresh |-> Rows, seen |-> routine]]
  BY DEF StartTick
<1>2. tick'[s] = [on |-> TRUE, todo |-> Rows, fresh |-> Rows, seen |-> routine]
      /\ \A q \in Schedulers \ {s} : tick'[q] = tick[q]
  BY <1>1 DEF SchedTypes
<1> DEFINE t == [on |-> TRUE, todo |-> Rows, fresh |-> Rows, seen |-> routine]
<1>20. t.todo = Rows /\ t.fresh = Rows /\ t.seen = routine /\ IsTick(t)
  BY RoutineAssumption DEF IsTick, RoutineAssumption
<1>3. SchedTypes' /\ RowsAreSound'
  BY <1>1 DEF SchedTypes, RowsAreSound, DailyRowsAreAnchored
<1>4. FiringsAreSound'
  BY <1>1, <1>2 DEF FiringsAreSound
<1>5. ASSUME NEW q \in Schedulers PROVE TickIsSound(q)'
  <2>1. CASE q # s
    BY <1>1, <1>2, <2>1 DEF TickIsSound, Seen
  <2>2. CASE q = s
    <3>1. tick'[q] = t
      BY <1>2, <2>2
    <3> HIDE DEF t
    <3> QED
      BY <1>1, <1>20, <2>2, <3>1, SameRow DEF TickIsSound, Seen
  <2> QED
    BY <2>1, <2>2
<1> QED
  BY <1>3, <1>4, <1>5

\* A row that a tick has done with.
LEMMA RowDone ==
    ASSUME SchedInv, NEW s \in Schedulers, NEW r \in Rows,
           SkipDisabled(s, r) \/ DisableBad(s, r) \/ SkipIdle(s, r) \/ Fire(s, r)
    PROVE  SchedInv'
<1> USE DEF SchedInv
<1>0. InTick(s, r) /\ r \in tick[s].todo /\ IsTick(tick[s]) /\ s \in up
  <2>1. InTick(s, r)
    BY DEF SkipDisabled, DisableBad, SkipIdle, Fire, Dispatchable
  <2> QED
    BY <2>1 DEF InTick, TickIsSound, IsTick, FiringsAreSound
<1>1. CASE SkipDisabled(s, r) \/ SkipIdle(s, r) \/ (Fire(s, r) /\ ~ClaimWins(s, r))
  <2>1. UNCHANGED <<routine, inflight, firing, up, owed, sleft>> /\ tick' = Done(s, r, tick)
        /\ armed' \in [Schedulers -> SUBSET Rows] /\ \A q \in Schedulers \ {s} : armed'[q] = armed[q]
    <3>1. UNCHANGED <<routine, inflight, firing, up, owed, sleft>> /\ tick' = Done(s, r, tick)
          /\ (armed' = [armed EXCEPT ![s] = @ \ {r}] \/ armed' = [armed EXCEPT ![s] = armed[s]])
      BY <1>1 DEF SkipDisabled, SkipIdle, Fire, KeepsRequest
    <3>2. PICK A \in SUBSET Rows : armed' = [armed EXCEPT ![s] = A]
      BY <3>1 DEF SchedTypes
    <3> QED
      BY <3>1, <3>2 DEF SchedTypes
  <2>2. ASSUME NEW q \in Schedulers
        PROVE  /\ IsTick(tick[q])' /\ (DOMAIN tick)' = Schedulers
               /\ tick'[q].todo \subseteq tick[q].todo /\ tick'[q].fresh \subseteq tick[q].fresh
               /\ \A x \in tick'[q].todo : tick'[q].seen[x] = tick[q].seen[x]
               /\ \A x \in tick'[q].todo \intersect tick[q].fresh : x \in tick'[q].fresh
               /\ (q # s => (tick'[q].on <=> tick[q].on))
    <3>2. Without(tick, {})
      BY DEF SchedTypes, Without
    <3>3. tick' = Done(s, r, tick)
      BY <2>1
    <3> HIDE DEF SchedInv
    <3>4. Shrinks(s, q, {})
      BY <1>0, <3>2, <3>3, AfterDone
    <3> QED
      BY <3>4 DEF Shrinks
  <2>3. SchedTypes' /\ RowsAreSound'
    <3>1. DOMAIN tick' = Schedulers /\ tick' = [q \in Schedulers |-> tick'[q]]
      BY <2>1 DEF Done, SchedTypes
    <3> QED
      BY <2>1, <3>1 DEF SchedTypes, RowsAreSound, DailyRowsAreAnchored
  <2>4. FiringsAreSound'
    BY <1>0, <2>1, <2>2 DEF FiringsAreSound
  <2>5. ASSUME NEW q \in Schedulers PROVE TickIsSound(q)'
    BY <2>1, <2>2, TickGoesOn, SameRow
  <2> QED
    BY <2>3, <2>4, <2>5
<1>2. CASE DisableBad(s, r)
  <2>1. /\ routine' = [routine EXCEPT ![r].enabled = FALSE] /\ tick' = Done(s, r, tick)
        /\ owed' = [q \in Schedulers |-> owed[q] \ {r}]
        /\ UNCHANGED <<armed, inflight, firing, up, sleft>>
    BY <1>2 DEF DisableBad
  <2>2. ASSUME NEW q \in Schedulers
        PROVE  /\ IsTick(tick[q])' /\ (DOMAIN tick)' = Schedulers
               /\ tick'[q].todo \subseteq tick[q].todo /\ tick'[q].fresh \subseteq tick[q].fresh
               /\ \A x \in tick'[q].todo : tick'[q].seen[x] = tick[q].seen[x]
               /\ \A x \in tick'[q].todo \intersect tick[q].fresh : x \in tick'[q].fresh
               /\ (q # s => (tick'[q].on <=> tick[q].on))
    <3>2. Without(tick, {})
      BY DEF SchedTypes, Without
    <3>3. tick' = Done(s, r, tick)
      BY <2>1
    <3> HIDE DEF SchedInv
    <3>4. Shrinks(s, q, {})
      BY <1>0, <3>2, <3>3, AfterDone
    <3> QED
      BY <3>4 DEF Shrinks
  <2>3. routine'[r] \in RowRecs /\ routine'[r].kind = routine[r].kind
        /\ routine'[r].spec = routine[r].spec /\ routine'[r].null = routine[r].null
        /\ routine'[r].due = routine[r].due
    <3>1. routine \in [Rows -> RowRecs] /\ routine[r] \in RowRecs
      BY DEF SchedTypes
    <3>2. routine'[r] = [routine[r] EXCEPT !.enabled = FALSE]
      BY <2>1, <3>1
    <3> QED
      BY <3>1, <3>2 DEF RowRecs
  <2>4. (\A q \in Rows \ {r} : routine'[q] = routine[q]) /\ routine' \in [Rows -> RowRecs]
    BY <2>1, <2>3 DEF SchedTypes
  <2>5. RowsAreSound'
    BY <2>3, <2>4 DEF RowsAreSound, DailyRowsAreAnchored
  <2>6. SchedTypes'
    <3>1. DOMAIN tick' = Schedulers /\ tick' = [q \in Schedulers |-> tick'[q]]
      BY <2>1 DEF Done, SchedTypes
    <3> QED
      BY <2>1, <2>4, <3>1 DEF SchedTypes
  <2>7. FiringsAreSound'
    BY <1>0, <2>1, <2>2 DEF FiringsAreSound
  <2>8. ASSUME NEW q \in Schedulers PROVE TickIsSound(q)'
    <3>1. \A x \in Rows : Unstamped(routine[x], routine'[x])
      BY <2>3, <2>4 DEF Unstamped, Schedule
    <3>2. owed'[q] = owed[q] \ {r} /\ owed[q] \subseteq Rows /\ tick[q].fresh \subseteq Rows
      BY <2>1 DEF SchedTypes, TickIsSound, IsTick
    <3>3. \A x \in owed'[q] : Effective(x, routine[x]) => Effective(x, routine'[x])
      BY <2>4, <3>2
    <3> QED
      BY <2>2, <3>1, <3>2, <3>3, TickGoesOn
  <2> QED
    BY <2>5, <2>6, <2>7, <2>8
<1>3. CASE Fire(s, r) /\ ClaimWins(s, r)
  <2>1. /\ Stamp({r}) /\ armed' = [armed EXCEPT ![s] = @ \ {r}]
        /\ tick' = Done(s, r, [q \in Schedulers |-> [tick[q] EXCEPT !.fresh = @ \ {r}]])
        /\ inflight' = [inflight EXCEPT ![s] = @ \union {r}]
        /\ firing' = [firing EXCEPT ![s][r] = "claimed"]
        /\ UNCHANGED <<up, sleft>>
    BY <1>3 DEF Fire
  <2>2. ASSUME NEW q \in Schedulers
        PROVE  /\ IsTick(tick[q])' /\ (DOMAIN tick)' = Schedulers
               /\ tick'[q].todo \subseteq tick[q].todo /\ tick'[q].fresh \subseteq tick[q].fresh
               /\ tick'[q].todo \intersect {r} \intersect tick'[q].fresh = {}
               /\ \A x \in tick'[q].todo : tick'[q].seen[x] = tick[q].seen[x]
               /\ \A x \in tick'[q].todo \intersect tick[q].fresh : x # r => x \in tick'[q].fresh
               /\ (q # s => (tick'[q].on <=> tick[q].on))
    <3> HIDE DEF SchedInv
    <3>1. PICK R \in {{}, {r}} : R = {r}
      OBVIOUS
    <3>2. PICK t : t = [p \in Schedulers |-> [tick[p] EXCEPT !.fresh = @ \ {r}]]
      OBVIOUS
    <3>3. tick' = Done(s, r, t)
      BY <2>1, <3>2
    <3>4. Without(t, R)
      BY <3>1, <3>2 DEF Without
    <3>5. Shrinks(s, q, R)
      BY <1>0, <3>3, <3>4, AfterDone
    <3> QED
      BY <3>1, <3>5 DEF Shrinks
  <2>3. /\ routine' \in [Rows -> RowRecs] /\ RowsAreSound'
        /\ owed' \in [Schedulers -> SUBSET Rows]
        /\ \A x \in Rows \ {r} : routine'[x] = routine[x]
        /\ \A q \in Schedulers : owed'[q] = owed[q] \ {r}
    BY <2>1, Stamped
  <2>4. SchedTypes'
    <3>1. DOMAIN tick' = Schedulers /\ tick' = [q \in Schedulers |-> tick'[q]]
      BY <2>1 DEF Done, SchedTypes
    <3>2. armed' \in [Schedulers -> SUBSET Rows] /\ inflight' \in [Schedulers -> SUBSET Rows]
      BY <2>1 DEF SchedTypes
    <3>3. firing' \in [Schedulers -> [Rows -> {"none", "claimed", "handling"}]]
      BY <2>1 DEF SchedTypes
    <3> QED
      BY <2>1, <2>3, <3>1, <3>2, <3>3 DEF SchedTypes
  <2>5. FiringsAreSound'
    <3>1. inflight'[s] = inflight[s] \union {r} /\ firing'[s] = [firing[s] EXCEPT ![r] = "claimed"]
          /\ firing[s] \in [Rows -> {"none", "claimed", "handling"}]
      BY <2>1 DEF SchedTypes
    <3>2. inflight'[s] = {x \in Rows : firing'[s][x] # "none"}
      BY <3>1 DEF FiringsAreSound
    <3>3. \A q \in Schedulers \ {s} : inflight'[q] = inflight[q] /\ firing'[q] = firing[q]
                                      /\ armed'[q] = armed[q]
      BY <2>1 DEF SchedTypes
    <3>4. \A q \in Schedulers \ {s} : tick'[q].on <=> tick[q].on
      BY <2>2
    <3> QED
      BY <1>0, <2>1, <3>2, <3>3, <3>4 DEF FiringsAreSound
  <2>6. ASSUME NEW q \in Schedulers PROVE TickIsSound(q)'
    <3>1. tick'[q].fresh \subseteq Rows \ {r} /\ owed[q] \subseteq Rows
      BY <2>2 DEF TickIsSound, IsTick, SchedTypes
    <3>2. \A x \in tick'[q].fresh : Unstamped(routine[x], routine'[x])
      BY <2>3, <3>1, SameRow
    <3>3. \A x \in owed'[q] : Effective(x, routine[x]) => Effective(x, routine'[x])
      BY <2>3, <3>1
    <3> QED
      BY <2>2, <2>3, <3>2, <3>3, TickGoesOn
  <2> QED
    BY <2>3, <2>4, <2>5, <2>6
<1> QED
  BY <1>1, <1>2, <1>3

\* Requests, failing ticks, and the two halves of a firing.
LEMMA OtherSchedSteps ==
    ASSUME SchedInv, NEW s \in Schedulers,
           TickFails(s) \/ \E r \in Rows : RequestRun(s, r) \/ FiringStep(s, r)
    PROVE  SchedInv'
<1> USE DEF SchedInv
<1>1. CASE TickFails(s)
  <2>1. tick' = [tick EXCEPT ![s] = NoTick] /\ UNCHANGED <<routine, armed, inflight, firing, up, owed>>
        /\ sleft' \in [RoutineEvents -> Nat]
    BY <1>1, OwnBudget DEF TickFails, RoutineEvents
  <2>2. IsTick(NoTick) /\ NoTick.todo = {} /\ NoTick.fresh = {} /\ ~NoTick.on
    BY RoutineAssumption DEF NoTick, IsTick
  <2>3. SchedTypes' /\ RowsAreSound'
    BY <2>1 DEF SchedTypes, RowsAreSound, DailyRowsAreAnchored
  <2>4. tick'[s] = NoTick /\ \A q \in Schedulers \ {s} : tick'[q] = tick[q]
    BY <2>1 DEF SchedTypes
  <2>5. FiringsAreSound'
    BY <2>1, <2>2, <2>4 DEF FiringsAreSound
  <2>6. ASSUME NEW q \in Schedulers PROVE TickIsSound(q)'
    BY <2>1, <2>2, <2>4 DEF TickIsSound, Seen
  <2> QED
    BY <2>3, <2>5, <2>6
<1>2. ASSUME NEW r \in Rows, RequestRun(s, r) PROVE SchedInv'
  <2>1. /\ s \in up /\ ~tick[s].on /\ Effective(r, routine[r])
        /\ armed' = [armed EXCEPT ![s] = @ \union {r}]
        /\ owed' = [owed EXCEPT ![s] = @ \union {r}]
        /\ UNCHANGED <<routine, tick, inflight, firing, up>> /\ sleft' \in [RoutineEvents -> Nat]
    BY <1>2, OwnBudget DEF RequestRun, RoutineEvents
  <2>2. armed' \in [Schedulers -> SUBSET Rows] /\ owed' \in [Schedulers -> SUBSET Rows]
    BY <2>1 DEF SchedTypes
  <2>3. SchedTypes' /\ RowsAreSound'
    BY <2>1, <2>2 DEF SchedTypes, RowsAreSound, DailyRowsAreAnchored
  <2>4. FiringsAreSound'
    BY <2>1 DEF FiringsAreSound, SchedTypes
  <2>5. ASSUME NEW q \in Schedulers PROVE TickIsSound(q)'
    <3>1. owed'[q] = IF q = s THEN owed[q] \union {r} ELSE owed[q]
      BY <2>1 DEF SchedTypes
    <3>2. tick[s].todo = {}
      BY <2>1 DEF TickIsSound, IsTick
    <3> QED
      BY <2>1, <3>1, <3>2 DEF TickIsSound, Seen
  <2> QED
    BY <2>3, <2>4, <2>5
<1>3. ASSUME NEW r \in Rows, FiringStep(s, r) PROVE SchedInv'
  <2>1. UNCHANGED <<routine, tick, armed, up, owed>> /\ s \in up
    BY <1>3 DEF FiringStep, OpenRun, CloseRun, OnLoop, FiringsAreSound
  <2>2. PICK pc \in {"none", "handling"} :
            /\ firing' = [firing EXCEPT ![s][r] = pc]
            /\ IF pc = "none" THEN inflight' = [inflight EXCEPT ![s] = @ \ {r}]
                              ELSE UNCHANGED inflight
    BY <1>3 DEF FiringStep, OpenRun, CloseRun, Releases
  <2>3. firing[s][r] # "none" /\ sleft' \in [RoutineEvents -> Nat]
    BY <1>3, OwnBudget DEF FiringStep, OpenRun, CloseRun, OnLoop, RoutineEvents, SchedTypes
  <2>4. SchedTypes' /\ RowsAreSound'
    <3>1. firing' \in [Schedulers -> [Rows -> {"none", "claimed", "handling"}]]
      BY <2>2 DEF SchedTypes
    <3>2. inflight' \in [Schedulers -> SUBSET Rows]
      BY <2>2 DEF SchedTypes
    <3> QED
      BY <2>1, <2>3, <3>1, <3>2 DEF SchedTypes, RowsAreSound, DailyRowsAreAnchored
  <2>5. FiringsAreSound'
    <3>1. firing'[s] = [firing[s] EXCEPT ![r] = pc]
          /\ firing[s] \in [Rows -> {"none", "claimed", "handling"}]
          /\ inflight'[s] = IF pc = "none" THEN inflight[s] \ {r} ELSE inflight[s]
      BY <2>2 DEF SchedTypes
    <3>2. inflight'[s] = {x \in Rows : firing'[s][x] # "none"}
      BY <2>3, <3>1 DEF FiringsAreSound
    <3>3. \A q \in Schedulers \ {s} : inflight'[q] = inflight[q] /\ firing'[q] = firing[q]
      BY <2>2 DEF SchedTypes
    <3> QED
      BY <2>1, <3>2, <3>3 DEF FiringsAreSound
  <2>6. \A q \in Schedulers : TickIsSound(q)'
    BY <2>1, TicksStay
  <2> QED
    BY <2>4, <2>5, <2>6
<1> QED
  BY <1>1, <1>2, <1>3

\* Processes die and come back.
LEMMA SchedProcesses ==
    ASSUME SchedInv, NEW s \in Schedulers, SchedCrash(s) \/ SchedBoot(s)
    PROVE  SchedInv'
<1> USE DEF SchedInv
<1>1. CASE SchedCrash(s)
  <2>1. /\ up' = up \ {s} /\ tick' = [tick EXCEPT ![s] = NoTick] /\ armed' = [armed EXCEPT ![s] = {}]
        /\ inflight' = [inflight EXCEPT ![s] = {}]
        /\ firing' = [firing EXCEPT ![s] = [r \in Rows |-> "none"]]
        /\ owed' = [owed EXCEPT ![s] = {}] /\ UNCHANGED routine
        /\ sleft' \in [RoutineEvents -> Nat]
    BY <1>1, OwnBudget DEF SchedCrash, RoutineEvents
  <2>2. IsTick(NoTick) /\ NoTick.todo = {} /\ NoTick.fresh = {} /\ ~NoTick.on
    BY RoutineAssumption DEF NoTick, IsTick
  <2>3. SchedTypes' /\ RowsAreSound'
    BY <2>1 DEF SchedTypes, RowsAreSound, DailyRowsAreAnchored
  <2>4. tick'[s] = NoTick /\ armed'[s] = {} /\ inflight'[s] = {} /\ owed'[s] = {}
        /\ firing'[s] = [r \in Rows |-> "none"]
    BY <2>1 DEF SchedTypes
  <2>5. \A q \in Schedulers \ {s} : /\ tick'[q] = tick[q] /\ armed'[q] = armed[q]
            /\ inflight'[q] = inflight[q] /\ owed'[q] = owed[q] /\ firing'[q] = firing[q]
    BY <2>1 DEF SchedTypes
  <2>6. FiringsAreSound'
    BY <2>1, <2>2, <2>4, <2>5 DEF FiringsAreSound
  <2>7. ASSUME NEW q \in Schedulers PROVE TickIsSound(q)'
    BY <2>1, <2>2, <2>4, <2>5 DEF TickIsSound, Seen
  <2> QED
    BY <2>3, <2>6, <2>7
<1>2. CASE SchedBoot(s)
  <2> DEFINE R == Bumped \union FreshRows
  <2>1. /\ s \notin up /\ up' = up \union {s} /\ Stamp(R)
        /\ tick' = [q \in Schedulers |-> [tick[q] EXCEPT !.fresh = @ \ R]]
        /\ UNCHANGED <<armed, inflight, firing, sleft>>
    BY <1>2 DEF SchedBoot
  <2>2. R \in SUBSET Rows
    BY DEF Bumped, FreshRows
  <2> HIDE DEF R
  <2>3. /\ routine' \in [Rows -> RowRecs] /\ RowsAreSound'
        /\ owed' \in [Schedulers -> SUBSET Rows]
        /\ \A r \in Rows \ R : routine'[r] = routine[r]
        /\ \A q \in Schedulers : owed'[q] = owed[q] \ R
    BY <2>1, <2>2, Stamped
  <2>4. ASSUME NEW q \in Schedulers
        PROVE  /\ IsTick(tick'[q]) /\ tick'[q].todo = tick[q].todo /\ tick'[q].seen = tick[q].seen
               /\ (tick'[q].on <=> tick[q].on) /\ tick'[q].fresh = tick[q].fresh \ R
    <3>1. IsTick(tick[q])
      BY DEF TickIsSound
    <3>2. tick'[q] = [on |-> tick[q].on, todo |-> tick[q].todo, fresh |-> tick[q].fresh \ R,
                      seen |-> tick[q].seen]
      BY <2>1, <3>1 DEF IsTick
    <3> QED
      BY <3>1, <3>2 DEF IsTick
  <2>5. SchedTypes'
    <3>1. DOMAIN tick' = Schedulers /\ tick' = [q \in Schedulers |-> tick'[q]]
      BY <2>1 DEF SchedTypes
    <3> QED
      BY <2>1, <2>3, <3>1 DEF SchedTypes
  <2>6. FiringsAreSound'
    BY <2>1, <2>4 DEF FiringsAreSound
  <2>7. ASSUME NEW q \in Schedulers PROVE TickIsSound(q)'
    <3>1. tick'[q].fresh \subseteq Rows \ R /\ owed[q] \subseteq Rows
      <4>1. tick[q].fresh \subseteq Rows
        BY DEF TickIsSound, IsTick
      <4> QED
        BY <2>4, <4>1 DEF SchedTypes
    <3>2. \A x \in tick'[q].fresh : Unstamped(routine[x], routine'[x])
      BY <2>3, <3>1, SameRow
    <3>3. \A x \in owed'[q] : Effective(x, routine[x]) => Effective(x, routine'[x])
      BY <2>3, <3>1
    <3> QED
      BY <2>3, <2>4, <3>2, <3>3, TickGoesOn
  <2> QED
    BY <2>3, <2>5, <2>6, <2>7
<1> QED
  BY <1>1, <1>2

LEMMA SchedStep == SchedInv /\ [SchedNext]_schedVars => SchedInv'
<1> SUFFICES ASSUME SchedInv, [SchedNext]_schedVars PROVE SchedInv'
  OBVIOUS
<1>1. ASSUME NEW r \in Rows, TimePasses(r) \/ Edit(r) PROVE SchedInv'
  BY <1>1, RowSteps
<1>2. ASSUME NEW s \in Schedulers, TickStep(s) PROVE SchedInv'
  BY <1>2, TickStarts, RowDone DEF TickStep
<1>3. ASSUME NEW s \in Schedulers,
             TickFails(s) \/ \E r \in Rows : RequestRun(s, r) \/ FiringStep(s, r)
      PROVE  SchedInv'
  BY <1>3, OtherSchedSteps
<1>4. ASSUME NEW s \in Schedulers, SchedCrash(s) \/ SchedBoot(s) PROVE SchedInv'
  BY <1>4, SchedProcesses
<1>5. CASE UNCHANGED schedVars
  BY <1>5 DEF schedVars, SchedInv, SchedTypes, RowsAreSound, DailyRowsAreAnchored, FiringsAreSound,
              TickIsSound, Seen
<1> QED
  BY <1>1, <1>2, <1>3, <1>4, <1>5 DEF SchedNext

\* A firing that nobody asked for takes a slot that has come.
LEMMA SlotTaken ==
    ASSUME SchedInv, [SchedNext]_schedVars, NEW s \in Schedulers, NEW r \in Rows,
           Starts(s, r), r \notin armed[s]
    PROVE  IsDue(routine[r])
<1> USE DEF SchedInv
<1>1. Fire(s, r) /\ ClaimWins(s, r)
  <2>1. inflight \in [Schedulers -> SUBSET Rows]
    BY DEF SchedTypes
  <2>2. ASSUME NEW q \in Schedulers, NEW x \in Rows,
               FiringStep(q, x) \/ SchedCrash(q) \/ (Fire(q, x) /\ ~(q = s /\ x = r /\ ClaimWins(s, r)))
        PROVE  FALSE
    BY <2>1, <2>2 DEF FiringStep, OpenRun, CloseRun, SchedCrash, Fire, Releases, Starts
  <2>3. inflight' # inflight
    BY DEF Starts
  <2> QED
    BY <2>2, <2>3 DEF SchedNext, TimePasses, Edit, TickStep, StartTick, SkipDisabled, DisableBad,
       SkipIdle, TickFails, SchedBoot, RequestRun, schedVars, SchedCrash
<1>2. IsDue(Seen(s, r)) /\ Schedule(Seen(s, r)) # "none" /\ r \in tick[s].fresh
  BY <1>1 DEF Fire, Wanted, Dispatchable, ClaimWins
<1>3. Unstamped(Seen(s, r), routine[r])
  BY <1>2 DEF TickIsSound
<1>4. routine[r] \in RowRecs
  BY DEF SchedTypes
<1>5. Schedule(routine[r]) # "none"
  BY <1>2, <1>3 DEF Unstamped, Schedule
<1>6. Seen(s, r).null = routine[r].null /\ (Seen(s, r).due => routine[r].due)
  BY <1>3 DEF Unstamped
<1>7. CASE routine[r].null
  <2>1. routine[r].spec # "daily"
    BY <1>7 DEF RowsAreSound, DailyRowsAreAnchored
  <2>2. Schedule(routine[r]) = "every"
    BY <1>4, <1>5, <2>1 DEF Schedule
  <2> QED
    BY <1>7, <2>2 DEF IsDue
<1>8. CASE ~routine[r].null
  <2>1. routine[r].due
    BY <1>2, <1>6, <1>8 DEF IsDue
  <2> QED
    BY <1>8, <2>1 DEF IsDue
<1> QED
  BY <1>7, <1>8

\* A request that is let go of was settled by then.
LEMMA RequestSettled ==
    ASSUME SchedInv, [SchedNext]_schedVars, NEW s \in Schedulers, s \in up',
           NEW r \in armed[s] \ armed'[s]
    PROVE  r \notin owed'[s]
<1> USE DEF SchedInv
<1>0. armed \in [Schedulers -> SUBSET Rows] /\ owed \in [Schedulers -> SUBSET Rows] /\ r \in Rows
      /\ s \in up
  <2>1. armed \in [Schedulers -> SUBSET Rows] /\ owed \in [Schedulers -> SUBSET Rows]
    BY DEF SchedTypes
  <2>2. r \in armed[s] /\ armed[s] # {}
    OBVIOUS
  <2> QED
    BY <2>1, <2>2 DEF FiringsAreSound
<1>1. SkipDisabled(s, r) \/ Fire(s, r)
  <2>1. armed' # armed
    OBVIOUS
  <2>2. ASSUME NEW q \in Schedulers, NEW x \in Rows,
               SchedCrash(q) \/ RequestRun(q, x) \/ SkipIdle(q, x)
               \/ ((SkipDisabled(q, x) \/ Fire(q, x)) /\ ~(q = s /\ x = r))
        PROVE  FALSE
    BY <1>0, <2>2 DEF SchedCrash, RequestRun, SkipIdle, KeepsRequest, SkipDisabled, Fire
  <2> QED
    BY <1>0, <2>1, <2>2 DEF SchedNext, TimePasses, Edit, TickStep, StartTick, DisableBad, TickFails,
       SchedBoot, FiringStep, OpenRun, CloseRun, schedVars
<1>2. InTick(s, r) /\ r \in tick[s].todo
  BY <1>1 DEF SkipDisabled, Fire, Dispatchable, InTick
<1>3. r \in owed[s] => /\ r \in tick[s].fresh /\ Effective(r, Seen(s, r)) /\ Effective(r, routine[r])
  BY <1>2 DEF TickIsSound
<1>4. CASE SkipDisabled(s, r)
  BY <1>3, <1>4 DEF SkipDisabled
<1>5. CASE Fire(s, r) /\ ~ClaimWins(s, r)
  BY <1>3, <1>5 DEF Fire, ClaimWins, Effective
<1>6. CASE Fire(s, r) /\ ClaimWins(s, r)
  <2>1. Stamp({r})
    BY <1>6 DEF Fire
  <2>2. owed' = [q \in Schedulers |-> owed[q] \ {r}]
    BY <2>1 DEF Stamp
  <2> QED
    BY <2>2
<1> QED
  BY <1>1, <1>4, <1>5, <1>6

\* THEOREM.  For any number of schedulers and rows, through edits and crashes: a
\* row that has no stamp is not waiting for an hour of the day, and what a tick
\* remembers of a row is still true of it unless somebody has stamped it since
\* (routines._dispatch_due, db.routine_claim, main.routine_put).
THEOREM SchedInvariant == SchedSpec => []SchedInv
  BY SchedStarts, SchedStep, PTL DEF SchedSpec

\* THEOREM.  The rows, the requests and the ticks have their types, and a process
\* that is down has no request, no firing and no tick.
THEOREM SchedTypesHold == SchedSpec => []SchedTypeOK
<1>1. SchedInv => SchedTypeOK
  <2> SUFFICES ASSUME SchedInv PROVE SchedTypeOK
    OBVIOUS
  <2> USE DEF SchedInv
  <2>1. routine \in [Rows -> [kind : Kinds, spec : Specs, enabled : BOOLEAN, null : BOOLEAN, due : BOOLEAN]]
        /\ sleft \in [RoutineEvents -> Nat]
    BY DEF SchedTypes, RowRecs
  <2>2. \A s \in Schedulers : armed[s] \subseteq Rows /\ owed[s] \subseteq Rows
    BY DEF SchedTypes
  <2>3. \A s \in Schedulers : tick[s].todo \union tick[s].fresh \subseteq Rows
                              /\ (tick[s].on <=> tick[s].todo # {})
    BY DEF TickIsSound, IsTick
  <2> QED
    BY <2>1, <2>2, <2>3 DEF SchedTypeOK, FiringsAreSound
<1> QED
  BY <1>1, SchedInvariant, PTL

\* THEOREM.  However many processes schedule the same rows, whatever is edited and
\* whoever dies: a firing that nobody asked for takes a slot that has come and that
\* nobody has taken, a request is let go of only when its row was stamped or
\* switched off, and no row loses the stamp it waits from.
THEOREM SlotsStayKept == SchedSpec => SlotsAreKept
<1>1. SchedInv => DailyRowsAreAnchored
  BY DEF SchedInv, RowsAreSound
<1>2. SchedInv /\ [SchedNext]_schedVars =>
        [\A s \in Schedulers, r \in Rows :
            Starts(s, r) /\ r \notin armed[s] => IsDue(routine[r])]_schedVars
  BY SlotTaken
<1>3. SchedInv /\ [SchedNext]_schedVars =>
        [\A s \in Schedulers : s \in up' => \A r \in armed[s] \ armed'[s] : r \notin owed'[s]]_schedVars
  BY RequestSettled
<1> QED
  BY <1>1, <1>2, <1>3, SchedInvariant, PTL
     DEF SchedSpec, SlotsAreKept, OneFiringPerSlot, RunNowIsServed

-----------------------------------------------------------------------------
(* Digest: the standup and the planning pack.                               *)

Standup == report = "standup_digest"
Half(t) == t \div 2
ReportStatuses == {"none", "open"} \union Terminal
FiringPlaces == {"idle", "opened", "added", "sending"}
Firings == [pc : FiringPlaces, period : Nat, started : Nat]

DigestTypes ==
    /\ now \in Nat /\ now <= LastMoment /\ report \in {"standup_digest", "planning_pack"}
    /\ stamp \in Nat /\ stamp <= now /\ anchor \in Int /\ anchor >= -1 /\ anchor <= now
    /\ event \in [Events -> Nat] /\ \A e \in Events : event[e] <= now \/ event[e] = NotYet
    /\ told \subseteq {e \in Events : event[e] # NotYet}
    /\ item \in [Periods -> ReportStatuses] /\ sent \in [Periods -> Nat]
    /\ author \in [Firers -> Firings] /\ dleft \in [DigestEvents -> Nat]

\* A firing is of this moment up to its Slack call; its period is stored before.
FiringIsSound(p) ==
    /\ author[p].pc # "idle" => author[p].started <= now
    /\ author[p].pc \in {"opened", "added"} =>
          author[p].started = now /\ author[p].period = Half(now)
    /\ author[p].pc \in {"added", "sending"} =>
          author[p].period \in Periods /\ item[author[p].period] # "none"

\* One firing at a time has stored a report it has not sent, and the report is
\* announced by nobody else.
AddedIsUnsent ==
    \A p \in Firers : author[p].pc = "added" =>
        sent[author[p].period] = 0 /\ \A q \in Firers : author[q].pc = "added" => p = q

Announced ==
    \A k \in Periods : /\ sent[k] <= 1 /\ (item[k] = "none" => sent[k] = 0)
                       /\ item[k] # "none" => k <= Half(now)

OpenReports == {k \in Periods : item[k] = "open"}
LostFirings == DigestLimit["crash"] - dleft["crash"] + DigestLimit["fault"] - dleft["fault"]
Adding == \E p \in Firers : author[p].pc = "added"
FewOpen ==
    /\ dleft["crash"] <= DigestLimit["crash"] /\ dleft["fault"] <= DigestLimit["fault"]
    /\ Cardinality(OpenReports) <= 2 + LostFirings
    /\ ~Adding => Cardinality(OpenReports) <= 1 + LostFirings

\* A standup that is stored told what came before it, and what came since the
\* anchor is told up to this period's standup if that is stored.
ToldUpTo(t) == \A e \in Events : Since <= event[e] /\ event[e] < t => e \in told
StandupsTell ==
    Standup =>
        /\ \A k \in Periods : k = Half(now) /\ item[k] # "none" => ToldUpTo(2 * k)
        /\ \A p \in Firers : author[p].pc \in {"added", "sending"} => ToldUpTo(author[p].started)

DigestInv ==
    /\ DigestTypes /\ (\A p \in Firers : FiringIsSound(p)) /\ AddedIsUnsent /\ Announced
    /\ FewOpen /\ StandupsTell

-----------------------------------------------------------------------------

LEMMA Halves ==
    ASSUME NEW t \in Nat
    PROVE  Half(t) \in Nat /\ 2 * Half(t) <= t /\ t < 2 * Half(t) + 2
  BY DEF Half

LEMMA TheGreater ==
    ASSUME NEW a \in Int, NEW b \in Int
    PROVE  /\ Max({a, b}) \in {a, b} /\ Max({a, b}) \in Int
           /\ Max({a, b}) >= a /\ Max({a, b}) >= b
<1>1. \E x \in {a, b} : \A y \in {a, b} : x >= y
  OBVIOUS
<1>2. Max({a, b}) \in {a, b} /\ \A y \in {a, b} : Max({a, b}) >= y
  BY <1>1 DEF Max
<1> QED
  BY <1>2

LEMMA PeriodsAreFinite ==
    /\ LastMoment \in Nat /\ IsFiniteSet(Periods)
    /\ \A k : k \in Periods <=> k \in Nat /\ k <= Half(LastMoment)
<1>1. LastMoment \in Nat /\ Half(LastMoment) \in Nat
  BY DigestAssumption, Halves DEF DigestAssumption
<1>2. Periods = 0 .. Half(LastMoment)
  BY DEF Periods, Half
<1> QED
  BY <1>1, <1>2, FS_Interval

LEMMA ThisPeriod ==
    ASSUME DigestTypes
    PROVE  Half(now) \in Periods
<1>1. now \in Nat /\ LastMoment \in Nat /\ now <= LastMoment
  BY PeriodsAreFinite DEF DigestTypes
<1>2. Half(now) \in Nat /\ 2 * Half(now) <= now
  BY <1>1, Halves
<1>3. Half(LastMoment) \in Nat /\ LastMoment < 2 * Half(LastMoment) + 2
  BY <1>1, Halves
<1> QED
  BY <1>1, <1>2, <1>3, PeriodsAreFinite

LEMMA OpenCounts ==
    /\ IsFiniteSet(OpenReports) /\ Cardinality(OpenReports) \in Nat
    /\ (OpenReports' \subseteq OpenReports =>
          Cardinality(OpenReports') <= Cardinality(OpenReports))
    /\ Cardinality(OpenReports') \in Nat
    /\ \A k : OpenReports' \subseteq OpenReports \union {k} =>
          Cardinality(OpenReports') <= Cardinality(OpenReports) + 1
    /\ \A k : OpenReports' \subseteq {k} => Cardinality(OpenReports') <= 1
<1>1. PICK S, T : S = OpenReports /\ T = OpenReports'
  OBVIOUS
<1>2. S \subseteq Periods /\ T \subseteq Periods
  BY <1>1 DEF OpenReports, Periods
<1>3. IsFiniteSet(S) /\ IsFiniteSet(T) /\ Cardinality(S) \in Nat /\ Cardinality(T) \in Nat
  BY <1>2, PeriodsAreFinite, FS_Subset, FS_CardinalityType
<1>4. T \subseteq S => Cardinality(T) <= Cardinality(S)
  BY <1>3, FS_Subset
<1>5. ASSUME NEW k, T \subseteq S \union {k} PROVE Cardinality(T) <= Cardinality(S) + 1
  <2>1. IsFiniteSet(S \union {k}) /\ Cardinality(S \union {k}) \in Nat
        /\ Cardinality(S \union {k}) <= Cardinality(S) + 1
    BY <1>3, FS_AddElement, FS_CardinalityType
  <2>2. Cardinality(T) <= Cardinality(S \union {k})
    BY <1>5, <2>1, FS_Subset
  <2> QED
    BY <1>3, <2>1, <2>2
<1>6. ASSUME NEW k, T \subseteq {k} PROVE Cardinality(T) <= 1
  <2>1. IsFiniteSet({k}) /\ Cardinality({k}) = 1
    BY FS_Singleton
  <2> QED
    BY <1>6, <2>1, FS_Subset
<1> QED
  BY <1>1, <1>3, <1>4, <1>5, <1>6

LEMMA SinceIs ==
    ASSUME DigestTypes
    PROVE  /\ Since \in Int /\ Since >= now - 2
           /\ Standup => Since >= anchor /\ Since \in {anchor, now - 2}
<1>1. anchor \in Int /\ now - 2 \in Int
  BY DEF DigestTypes
<1> QED
  BY <1>1, TheGreater DEF Since, Standup

\* As time goes on and the anchor moves, nothing new is to be told.
LEMMA SinceGrows ==
    ASSUME DigestTypes, DigestTypes', now <= now', anchor <= anchor', report' = report
    PROVE  Since <= Since'
<1>1. CASE Standup
  <2>1. /\ Since \in {anchor, now - 2} /\ Since' >= anchor' /\ Since' >= now' - 2
        /\ Since \in Int /\ Since' \in Int
    <3>1. Standup'
      BY <1>1 DEF Standup
    <3>2. anchor' \in Int /\ now' - 2 \in Int
      BY DEF DigestTypes
    <3>3. Since' = Max({anchor', now' - 2})
      BY <3>1 DEF Since, Standup
    <3>4. Since' \in Int /\ Since' >= anchor' /\ Since' >= now' - 2
      BY <3>2, <3>3, TheGreater
    <3> QED
      BY <1>1, <3>4, SinceIs
  <2>2. anchor \in Int /\ anchor' \in Int /\ now \in Int /\ now' \in Int
    BY DEF DigestTypes
  <2>3. PICK a, b, n, m, x, y : /\ a = anchor /\ b = anchor' /\ n = now /\ m = now' /\ x = Since /\ y = Since'
    OBVIOUS
  <2>4. /\ a \in Int /\ b \in Int /\ n \in Int /\ m \in Int /\ x \in Int /\ y \in Int
        /\ x = a \/ x = n - 2
        /\ y >= b /\ y >= m - 2 /\ a <= b /\ n <= m
    BY <2>1, <2>2, <2>3
  <2>5. x <= y
    BY <2>4
  <2> QED
    BY <2>3, <2>5
<1>2. CASE ~Standup
  <2>1. Since = now - 2 /\ Since' = now' - 2
    BY <1>2 DEF Since, Standup
  <2>2. PICK n, m : n = now /\ m = now'
    OBVIOUS
  <2>3. n \in Int /\ m \in Int /\ n <= m
    BY <2>2 DEF DigestTypes
  <2>4. n - 2 <= m - 2
    BY <2>3
  <2> QED
    BY <2>1, <2>2, <2>4
<1> QED
  BY <1>1, <1>2

LEMMA DigestStarts == DigestInit => DigestInv
<1> SUFFICES ASSUME DigestInit PROVE DigestInv
  OBVIOUS
<1>1. LastMoment \in Nat /\ NotYet \in Nat /\ DigestLimit \in [DigestEvents -> Nat]
  BY DigestAssumption DEF DigestAssumption, NotYet
<1>2. NoFiring \in Firings /\ NoFiring.pc = "idle"
  BY DEF NoFiring, Firings, FiringPlaces
<1>3. DigestTypes
  BY <1>1, <1>2 DEF DigestInit, DigestTypes, Never, ReportStatuses
<1>4. (\A p \in Firers : author[p].pc = "idle") /\ \A k \in Periods : item[k] = "none" /\ sent[k] = 0
  BY <1>2 DEF DigestInit
<1>5. OpenReports = {}
  BY <1>4 DEF OpenReports
<1>6. FewOpen
  <2>1. Cardinality(OpenReports) = 0
    BY <1>5, FS_EmptySet
  <2>2. dleft = DigestLimit /\ dleft["crash"] \in Nat /\ dleft["fault"] \in Nat
    BY <1>1 DEF DigestInit, DigestEvents
  <2> QED
    BY <2>1, <2>2 DEF FewOpen, LostFirings
<1> QED
  BY <1>3, <1>4, <1>6 DEF DigestInv, FiringIsSound, AddedIsUnsent, Announced, StandupsTell

-----------------------------------------------------------------------------
(* The steps.                                                               *)

\* What was told stays told.
LEMMA TellsOn ==
    ASSUME DigestTypes, DigestTypes', now <= now', anchor <= anchor', report' = report,
           told \subseteq told', NEW t \in Nat,
           \A e \in Events : event'[e] < t => event'[e] = event[e],
           ToldUpTo(t)
    PROVE  ToldUpTo(t)'
<1>1. PICK x, y : x = Since /\ y = Since'
  OBVIOUS
<1>2. x <= y /\ x \in Int /\ y \in Int
  <2>1. Since \in Int
    BY SinceIs
  <2>2. Since' \in Int
    <3>1. anchor' \in Int /\ now' \in Int /\ now' - 2 \in Int
      BY DEF DigestTypes
    <3>2. Max({anchor', now' - 2}) \in Int
      BY <3>1, TheGreater
    <3>3. Since' = Max({anchor', now' - 2}) \/ Since' = now' - 2
      BY DEF Since
    <3> QED
      BY <3>1, <3>2, <3>3
  <2> QED
    BY <1>1, <2>1, <2>2, SinceGrows
<1>3. ASSUME NEW e \in Events, y <= event'[e], event'[e] < t PROVE e \in told'
  <2>1. event'[e] = event[e] /\ event[e] \in Nat
    BY <1>3 DEF DigestTypes
  <2>2. x <= event[e] /\ event[e] < t
    BY <1>2, <1>3, <2>1
  <2> QED
    BY <1>1, <2>2 DEF ToldUpTo
<1> QED
  BY <1>1, <1>3 DEF ToldUpTo

LEMMA MomentPasses ==
    ASSUME DigestInv, Passes
    PROVE  DigestInv'
<1>0. /\ DigestTypes /\ (\A p \in Firers : FiringIsSound(p)) /\ AddedIsUnsent /\ Announced
      /\ FewOpen /\ StandupsTell
  BY DEF DigestInv
<1>1. /\ now < LastMoment /\ now' = now + 1
      /\ UNCHANGED <<report, stamp, anchor, event, told, item, sent, author, dleft>>
      /\ \A p \in Firers : author[p].pc \notin {"opened", "added"}
  BY DEF Passes, Between
<1>2. now \in Nat /\ now' \in Nat /\ LastMoment \in Nat /\ now <= now' /\ now' <= LastMoment
  BY <1>0, <1>1, PeriodsAreFinite DEF DigestTypes
<1>3. DigestTypes'
  <2>1. \A e \in Events : event[e] <= now' \/ event[e] = NotYet
    BY <1>0, <1>1, <1>2 DEF DigestTypes
  <2>2. NotYet' = NotYet /\ Periods' = Periods
    BY DEF NotYet, Periods
  <2>3. stamp <= now' /\ anchor <= now'
    BY <1>0, <1>1, <1>2 DEF DigestTypes
  <2> QED
    BY <1>0, <1>1, <1>2, <2>1, <2>2, <2>3 DEF DigestTypes
<1>4. PICK h, g : h = Half(now) /\ g = Half(now')
  OBVIOUS
<1>5. h \in Nat /\ g \in Nat /\ h <= g
  <2>1. h \in Nat /\ g \in Nat /\ 2 * h <= now /\ now' < 2 * g + 2
    BY <1>2, <1>4, Halves
  <2> QED
    BY <1>2, <2>1
<1>6. \A p \in Firers : FiringIsSound(p)'
  <2> SUFFICES ASSUME NEW p \in Firers PROVE FiringIsSound(p)'
    OBVIOUS
  <2>1. author[p].started \in Nat
    BY <1>0 DEF DigestTypes, Firings
  <2>2. author[p].pc # "idle" => author[p].started <= now'
    BY <1>0, <1>1, <1>2, <2>1 DEF FiringIsSound
  <2> QED
    BY <1>0, <1>1, <2>2 DEF FiringIsSound
<1>7. AddedIsUnsent' /\ FewOpen'
  BY <1>0, <1>1 DEF AddedIsUnsent, FewOpen, OpenReports, LostFirings, Adding
<1>8. Announced'
  <2>1. \A k \in Periods : item[k] # "none" => k <= g
    <3>1. \A k \in Periods : k \in Nat
      BY PeriodsAreFinite
    <3> QED
      BY <1>0, <1>4, <1>5, <3>1 DEF Announced
  <2> QED
    BY <1>0, <1>1, <1>4, <2>1 DEF Announced
<1>9. StandupsTell'
  <2> SUFFICES ASSUME Standup PROVE StandupsTell'
    BY <1>1 DEF StandupsTell, Standup
  <2>1. \A t \in Nat : ToldUpTo(t) => ToldUpTo(t)'
    <3>1. anchor <= anchor'
      BY <1>0, <1>1 DEF DigestTypes
    <3> QED
      BY <1>0, <1>1, <1>2, <1>3, <3>1, TellsOn
  <2>2. ASSUME NEW k \in Periods, k = g, item[k] # "none" PROVE ToldUpTo(2 * k)'
    <3>1. k <= h /\ k \in Nat
      BY <1>0, <1>4, <2>2, PeriodsAreFinite DEF Announced
    <3>2. k = h /\ 2 * k \in Nat
      BY <1>5, <2>2, <3>1
    <3> QED
      BY <1>0, <1>4, <2>1, <2>2, <3>2 DEF StandupsTell
  <2>3. ASSUME NEW p \in Firers, author[p].pc \in {"added", "sending"} PROVE ToldUpTo(author[p].started)'
    <3>1. PICK t : t = author[p].started
      OBVIOUS
    <3>2. t \in Nat
      BY <1>0, <3>1 DEF DigestTypes, Firings
    <3>3. ToldUpTo(t)'
      BY <1>0, <2>1, <2>3, <3>1, <3>2 DEF StandupsTell
    <3> QED
      BY <1>1, <3>1, <3>3 DEF ToldUpTo
  <2> QED
    BY <1>1, <1>4, <2>2, <2>3 DEF StandupsTell, ToldUpTo
<1> QED
  BY <1>3, <1>6, <1>7, <1>8, <1>9 DEF DigestInv

\* A step within the moment, by anybody: the parts about time and what was told.
LEMMA AtOneMoment ==
    ASSUME DigestInv, DigestTypes', now' = now, report' = report, anchor <= anchor', told \subseteq told',
           \A e \in Events : event'[e] = event[e] \/ event'[e] >= now
    PROVE  \A t \in Nat : t <= now /\ ToldUpTo(t) => ToldUpTo(t)'
<1>1. DigestTypes /\ now <= now' /\ now \in Nat
  BY DEF DigestInv, DigestTypes
<1>2. ASSUME NEW t \in Nat, t <= now, ToldUpTo(t) PROVE ToldUpTo(t)'
  <2>1. \A e \in Events : event'[e] \in Nat
    BY DEF DigestTypes
  <2>2. \A e \in Events : event'[e] < t => event'[e] = event[e]
    BY <1>1, <1>2, <2>1
  <2> QED
    BY <1>1, <1>2, <2>2, TellsOn
<1> QED
  BY <1>2

\* Nothing is told anew: what the reports and the firings were stays so.
LEMMA TellsAsBefore ==
    ASSUME DigestInv, DigestTypes', now' = now, report' = report, anchor <= anchor', told \subseteq told',
           \A e \in Events : event'[e] = event[e] \/ event'[e] >= now,
           \A k \in Periods : item'[k] # "none" => item[k] # "none",
           \A p \in Firers : author'[p].pc \in {"added", "sending"} =>
               author[p].pc \in {"added", "sending"} /\ author'[p].started = author[p].started
    PROVE  StandupsTell'
<1> SUFFICES ASSUME Standup PROVE StandupsTell'
  BY DEF StandupsTell, Standup
<1>1. /\ DigestTypes /\ StandupsTell /\ now \in Nat /\ \A p \in Firers : FiringIsSound(p)
  BY DEF DigestInv, DigestTypes
<1>2. ASSUME NEW k \in Periods, k = Half(now), item'[k] # "none" PROVE ToldUpTo(2 * k)'
  <2>1. 2 * k \in Nat /\ 2 * k <= now
    <3>1. k \in Nat /\ 2 * k <= now
      BY <1>1, <1>2, Halves
    <3> QED
      BY <3>1
  <2>2. ToldUpTo(2 * k)
    BY <1>1, <1>2 DEF StandupsTell
  <2> QED
    BY <2>1, <2>2, AtOneMoment
<1>3. ASSUME NEW p \in Firers, author'[p].pc \in {"added", "sending"} PROVE ToldUpTo(author[p].started)'
  <2>1. PICK t : t = author[p].started
    OBVIOUS
  <2>2. t \in Nat /\ t <= now /\ ToldUpTo(t) /\ author'[p].started = t
    BY <1>1, <1>3, <2>1 DEF StandupsTell, DigestTypes, Firings, FiringIsSound
  <2>3. ToldUpTo(t)'
    BY <2>2, AtOneMoment
  <2> QED
    BY <2>1, <2>2, <2>3 DEF ToldUpTo
<1> QED
  BY <1>2, <1>3 DEF StandupsTell, ToldUpTo

LEMMA EventHappens ==
    ASSUME DigestInv, NEW e \in Events, Happens(e)
    PROVE  DigestInv'
<1>0. /\ DigestTypes /\ (\A p \in Firers : FiringIsSound(p)) /\ AddedIsUnsent /\ Announced /\ FewOpen
  BY DEF DigestInv
<1>1. /\ event' = [event EXCEPT ![e] = now]
      /\ UNCHANGED <<now, report, stamp, anchor, told, item, sent, author, dleft>>
  BY DEF Happens
<1>2. NotYet = LastMoment + 1 /\ LastMoment \in Nat /\ now \in Nat /\ now <= LastMoment /\ now # NotYet
  BY <1>0, PeriodsAreFinite DEF NotYet, DigestTypes
<1>3. \A x \in Events : event'[x] = IF x = e THEN now ELSE event[x]
  BY <1>0, <1>1 DEF DigestTypes
<1>4. DigestTypes'
  <2>1. event' \in [Events -> Nat] /\ \A x \in Events : event'[x] <= now \/ event'[x] = NotYet
    BY <1>0, <1>1, <1>2, <1>3 DEF DigestTypes
  <2>2. told \subseteq {x \in Events : event'[x] # NotYet}
    BY <1>0, <1>2, <1>3 DEF DigestTypes
  <2> QED
    BY <1>0, <1>1, <2>1, <2>2 DEF DigestTypes, NotYet, Periods
<1>5. StandupsTell'
  <2>1. anchor <= anchor' /\ told \subseteq told' /\ now' = now /\ report' = report
    BY <1>0, <1>1 DEF DigestTypes
  <2>2. \A x \in Events : event'[x] = event[x] \/ event'[x] >= now
    BY <1>2, <1>3
  <2>3. /\ \A k \in Periods : item'[k] # "none" => item[k] # "none"
        /\ \A p \in Firers : author'[p].pc \in {"added", "sending"} =>
             author[p].pc \in {"added", "sending"} /\ author'[p].started = author[p].started
    BY <1>1
  <2> QED
    BY <1>4, <2>1, <2>2, <2>3, TellsAsBefore
<1>6. (\A p \in Firers : FiringIsSound(p))' /\ AddedIsUnsent' /\ Announced' /\ FewOpen'
  BY <1>0, <1>1 DEF FiringIsSound, AddedIsUnsent, Announced, FewOpen, OpenReports, LostFirings, Adding
<1> QED
  BY <1>4, <1>5, <1>6 DEF DigestInv

\* Reports are dismissed or expire.
LEMMA ReportsResolve ==
    ASSUME DigestInv, item' \in [Periods -> ReportStatuses],
           \A k \in Periods : item'[k] = item[k] \/ (item[k] = "open" /\ item'[k] \in Terminal),
           UNCHANGED <<now, report, stamp, anchor, event, told, sent, author, dleft>>
    PROVE  DigestInv'
<1>0. /\ DigestTypes /\ (\A p \in Firers : FiringIsSound(p)) /\ AddedIsUnsent /\ Announced /\ FewOpen
  BY DEF DigestInv
<1>1. /\ \A k \in Periods : item'[k] = "none" <=> item[k] = "none"
      /\ \A k \in Periods : item'[k] = "open" => item[k] = "open"
  BY DEF Terminal
<1>2. DigestTypes'
  BY <1>0 DEF DigestTypes, NotYet, Periods
<1>3. StandupsTell'
  <2>1. /\ anchor <= anchor' /\ told \subseteq told' /\ now' = now /\ report' = report
        /\ \A x \in Events : event'[x] = event[x] \/ event'[x] >= now
    BY <1>0 DEF DigestTypes
  <2>2. /\ \A k \in Periods : item'[k] # "none" => item[k] # "none"
        /\ \A p \in Firers : author'[p].pc \in {"added", "sending"} =>
             author[p].pc \in {"added", "sending"} /\ author'[p].started = author[p].started
    BY <1>1
  <2> QED
    BY <1>2, <2>1, <2>2, TellsAsBefore
<1>4. FewOpen'
  <2>1. OpenReports' \subseteq OpenReports
    BY <1>1 DEF OpenReports, Periods
  <2>2. Cardinality(OpenReports') <= Cardinality(OpenReports) /\ Cardinality(OpenReports) \in Nat
        /\ Cardinality(OpenReports') \in Nat
    BY <2>1, OpenCounts
  <2>3. LostFirings' = LostFirings /\ LostFirings \in Int /\ (Adding' <=> Adding)
    <3>1. /\ dleft["crash"] \in Nat /\ dleft["fault"] \in Nat
          /\ DigestLimit["crash"] \in Nat /\ DigestLimit["fault"] \in Nat
      BY <1>0, DigestAssumption DEF DigestTypes, DigestAssumption, DigestEvents
    <3> QED
      BY <3>1 DEF LostFirings, Adding
  <2> QED
    BY <1>0, <2>2, <2>3 DEF FewOpen
<1>5. (\A p \in Firers : FiringIsSound(p))' /\ AddedIsUnsent' /\ Announced'
  BY <1>0, <1>1 DEF FiringIsSound, AddedIsUnsent, Announced, Periods
<1> QED
  BY <1>2, <1>3, <1>4, <1>5 DEF DigestInv

LEMMA Resolving ==
    ASSUME DigestInv
    PROVE  /\ \A k \in Periods : DismissDigest(k) => DigestInv'
           /\ JanitorExpires => DigestInv'
<1>1. item \in [Periods -> ReportStatuses]
  BY DEF DigestInv, DigestTypes
<1>2. ASSUME NEW k \in Periods, DismissDigest(k) PROVE DigestInv'
  <2>1. item' = [item EXCEPT ![k] = "dismissed"] /\ item[k] = "open"
        /\ UNCHANGED <<now, report, stamp, anchor, event, told, sent, author, dleft>>
    BY <1>2 DEF DismissDigest, StillOpen
  <2>2. item' \in [Periods -> ReportStatuses]
        /\ \A j \in Periods : item'[j] = item[j] \/ (item[j] = "open" /\ item'[j] \in Terminal)
    BY <1>1, <2>1 DEF ReportStatuses, Terminal
  <2> QED
    BY <2>1, <2>2, ReportsResolve
<1>3. ASSUME JanitorExpires PROVE DigestInv'
  <2>1. PICK R : R = {j \in Periods : j < now \div 2 /\ StillOpen(j)}
    OBVIOUS
  <2>2. item' = Expired(R) /\ UNCHANGED <<now, report, stamp, anchor, event, told, sent, author, dleft>>
    BY <1>3, <2>1 DEF JanitorExpires
  <2>3. item' \in [Periods -> ReportStatuses]
        /\ \A j \in Periods : item'[j] = item[j] \/ (item[j] = "open" /\ item'[j] \in Terminal)
    BY <1>1, <2>1, <2>2 DEF Expired, StillOpen, ReportStatuses, Terminal
  <2> QED
    BY <2>2, <2>3, ReportsResolve
<1> QED
  BY <1>2, <1>3

\* A slot is claimed.
LEMMA Claiming ==
    ASSUME DigestInv, NEW p \in Firers, ClaimSlot(p)
    PROVE  DigestInv'
<1>0. /\ DigestTypes /\ (\A q \in Firers : FiringIsSound(q)) /\ AddedIsUnsent /\ Announced /\ FewOpen
  BY DEF DigestInv
<1>1. PICK r : r = [pc |-> "opened", period |-> Half(now), started |-> now]
  OBVIOUS
<1>2. /\ stamp' = now /\ author' = [author EXCEPT ![p] = r] /\ author[p].pc = "idle"
      /\ UNCHANGED <<now, report, anchor, event, told, item, sent>>
      /\ dleft' = dleft \/ Costs("ask")
  BY <1>1 DEF ClaimSlot, Half
<1>3. now \in Nat /\ Half(now) \in Nat
  BY <1>0, Halves DEF DigestTypes
<1>4. r \in Firings /\ r.pc = "opened" /\ r.period = Half(now) /\ r.started = now
  BY <1>1, <1>3 DEF Firings, FiringPlaces
<1>5. /\ author' \in [Firers -> Firings]
      /\ \A q \in Firers : author'[q] = IF q = p THEN r ELSE author[q]
  BY <1>0, <1>2, <1>4 DEF DigestTypes
<1>6. dleft' \in [DigestEvents -> Nat] /\ dleft'["crash"] = dleft["crash"] /\ dleft'["fault"] = dleft["fault"]
  BY <1>0, <1>2 DEF DigestTypes, Costs, DigestEvents
<1>7. DigestTypes'
  <2>1. stamp' \in Nat /\ stamp' <= now
    BY <1>2, <1>3
  <2> QED
    BY <1>0, <1>2, <1>5, <1>6, <2>1 DEF DigestTypes, NotYet, Periods
<1>8. StandupsTell'
  <2>1. /\ anchor <= anchor' /\ told \subseteq told' /\ now' = now /\ report' = report
        /\ \A x \in Events : event'[x] = event[x] \/ event'[x] >= now
    BY <1>0, <1>2 DEF DigestTypes
  <2>2. /\ \A k \in Periods : item'[k] # "none" => item[k] # "none"
        /\ \A q \in Firers : author'[q].pc \in {"added", "sending"} =>
             author[q].pc \in {"added", "sending"} /\ author'[q].started = author[q].started
    BY <1>2, <1>4, <1>5
  <2> QED
    BY <1>7, <2>1, <2>2, TellsAsBefore
<1>9. FewOpen'
  <2>1. Adding' <=> Adding
    BY <1>2, <1>4, <1>5 DEF Adding
  <2>2. LostFirings' = LostFirings /\ OpenReports' = OpenReports
    BY <1>2, <1>6 DEF LostFirings, OpenReports, Periods
  <2> QED
    BY <1>0, <1>6, <2>1, <2>2 DEF FewOpen
<1>10. \A q \in Firers : FiringIsSound(q)'
  <2> SUFFICES ASSUME NEW q \in Firers PROVE FiringIsSound(q)'
    OBVIOUS
  <2>1. CASE q = p
    BY <1>2, <1>3, <1>4, <1>5, <2>1 DEF FiringIsSound
  <2>2. CASE q # p
    BY <1>0, <1>2, <1>5, <2>2 DEF FiringIsSound, Periods
  <2> QED
    BY <2>1, <2>2
<1>11. AddedIsUnsent' /\ Announced'
  <2>1. AddedIsUnsent'
    BY <1>0, <1>2, <1>4, <1>5 DEF AddedIsUnsent
  <2> QED
    BY <1>0, <1>2, <2>1 DEF Announced, Periods
<1> QED
  BY <1>7, <1>8, <1>9, <1>10, <1>11 DEF DigestInv

\* A firing ends: usefully, in vain, or by a fault or a death that is counted.
LEMMA FiringEnds ==
    ASSUME DigestInv, NEW p \in Firers, author' = [author EXCEPT ![p] = NoFiring],
           anchor' \in {anchor, Max({anchor, author[p].started})}, author[p].pc # "idle",
           \/ dleft' = dleft /\ author[p].pc # "added"
           \/ Costs("crash") \/ Costs("fault"),
           UNCHANGED <<now, report, stamp, event, told, item, sent>>
    PROVE  DigestInv'
<1>0. /\ DigestTypes /\ (\A q \in Firers : FiringIsSound(q)) /\ AddedIsUnsent /\ Announced /\ FewOpen
  BY DEF DigestInv
<1>1. NoFiring \in Firings /\ NoFiring.pc = "idle"
  BY DEF NoFiring, Firings, FiringPlaces
<1>2. /\ author' \in [Firers -> Firings]
      /\ \A q \in Firers : author'[q] = IF q = p THEN NoFiring ELSE author[q]
  BY <1>0, <1>1 DEF DigestTypes
<1>3. anchor' \in Int /\ anchor' >= -1 /\ anchor <= anchor' /\ anchor' <= now
  <2>1. anchor \in Int /\ author[p].started \in Int /\ author[p].started <= now /\ now \in Int
        /\ anchor >= -1 /\ anchor <= now
    BY <1>0 DEF DigestTypes, Firings, FiringIsSound
  <2>2. PICK m : m = Max({anchor, author[p].started})
    OBVIOUS
  <2>3. m \in {anchor, author[p].started} /\ m >= anchor
    BY <2>1, <2>2, TheGreater
  <2>4. anchor' = anchor \/ anchor' = m
    BY <2>2
  <2> QED
    BY <2>1, <2>3, <2>4
<1>4. /\ dleft' \in [DigestEvents -> Nat]
      /\ dleft'["crash"] <= dleft["crash"] /\ dleft'["fault"] <= dleft["fault"]
      /\ \/ dleft' = dleft /\ author[p].pc # "added"
         \/ LostFirings' = LostFirings + 1
  <2>1. /\ dleft["crash"] \in Nat /\ dleft["fault"] \in Nat
        /\ DigestLimit["crash"] \in Nat /\ DigestLimit["fault"] \in Nat
    BY <1>0, DigestAssumption DEF DigestTypes, DigestAssumption, DigestEvents
  <2>2. CASE dleft' = dleft /\ author[p].pc # "added"
    BY <1>0, <2>1, <2>2 DEF DigestTypes
  <2>3. CASE Costs("crash")
    <3>1. /\ dleft' \in [DigestEvents -> Nat] /\ dleft'["crash"] = dleft["crash"] - 1
          /\ dleft'["fault"] = dleft["fault"] /\ dleft["crash"] > 0
      BY <1>0, <2>3 DEF DigestTypes, Costs, DigestEvents
    <3> QED
      BY <2>1, <3>1 DEF LostFirings
  <2>4. CASE Costs("fault")
    <3>1. /\ dleft' \in [DigestEvents -> Nat] /\ dleft'["fault"] = dleft["fault"] - 1
          /\ dleft'["crash"] = dleft["crash"] /\ dleft["fault"] > 0
      BY <1>0, <2>4 DEF DigestTypes, Costs, DigestEvents
    <3> QED
      BY <2>1, <3>1 DEF LostFirings
  <2> QED
    BY <2>2, <2>3, <2>4
<1>5. DigestTypes'
  BY <1>0, <1>2, <1>3, <1>4 DEF DigestTypes, NotYet, Periods
<1>6. StandupsTell'
  <2>1. /\ told \subseteq told' /\ now' = now /\ report' = report
        /\ \A x \in Events : event'[x] = event[x] \/ event'[x] >= now
    OBVIOUS
  <2>2. /\ \A k \in Periods : item'[k] # "none" => item[k] # "none"
        /\ \A q \in Firers : author'[q].pc \in {"added", "sending"} =>
             author[q].pc \in {"added", "sending"} /\ author'[q].started = author[q].started
    BY <1>1, <1>2
  <2> QED
    BY <1>3, <1>5, <2>1, <2>2, TellsAsBefore
<1>7. FewOpen'
  <2>1. /\ dleft["crash"] \in Nat /\ dleft["fault"] \in Nat
        /\ dleft'["crash"] \in Nat /\ dleft'["fault"] \in Nat
        /\ DigestLimit["crash"] \in Nat /\ DigestLimit["fault"] \in Nat
    BY <1>0, <1>4, DigestAssumption DEF DigestTypes, DigestAssumption, DigestEvents
  <2>2. PICK c : c = Cardinality(OpenReports)
    OBVIOUS
  <2>3. c \in Nat /\ OpenReports' = OpenReports
    BY <2>2, OpenCounts DEF OpenReports, Periods
  <2>4. c <= 2 + LostFirings /\ (~Adding => c <= 1 + LostFirings) /\ LostFirings \in Int
    BY <1>0, <2>1, <2>2 DEF FewOpen, LostFirings
  <2>5. c <= 2 + LostFirings' /\ (~Adding' => c <= 1 + LostFirings')
    <3>1. CASE dleft' = dleft /\ author[p].pc # "added"
      <4>1. Adding => Adding'
        BY <1>2, <3>1 DEF Adding
      <4>2. LostFirings' = LostFirings
        BY <3>1 DEF LostFirings
      <4> QED
        BY <2>4, <4>1, <4>2
    <3>2. CASE LostFirings' = LostFirings + 1
      BY <2>3, <2>4, <3>2
    <3> QED
      BY <1>4, <3>1, <3>2
  <2> QED
    BY <1>0, <1>4, <2>1, <2>2, <2>3, <2>5 DEF FewOpen
<1>8. \A q \in Firers : FiringIsSound(q)'
  BY <1>0, <1>1, <1>2 DEF FiringIsSound, Periods
<1>9. AddedIsUnsent' /\ Announced'
  BY <1>0, <1>1, <1>2 DEF AddedIsUnsent, Announced, Periods
<1> QED
  BY <1>5, <1>6, <1>7, <1>8, <1>9 DEF DigestInv

\* A report is built and stored.
Adds(p) ==
    /\ author[p].pc = "opened" /\ item[author[p].period] = "none"
    /\ item' = [item EXCEPT ![author[p].period] = "open"]
    /\ told' = told \union Content
    /\ author' = [author EXCEPT ![p].pc = "added"]
    /\ UNCHANGED <<now, report, stamp, anchor, event, sent, dleft>>

LEMMA ReportAdded ==
    ASSUME DigestInv, NEW p \in Firers, Adds(p)
    PROVE  DigestInv'
<1>0. /\ DigestTypes /\ (\A q \in Firers : FiringIsSound(q)) /\ AddedIsUnsent /\ Announced /\ FewOpen
      /\ StandupsTell
  BY DEF DigestInv
<1>1. PICK h : h = Half(now)
  OBVIOUS
<1>2. h \in Nat /\ h \in Periods /\ now \in Nat /\ 2 * h <= now /\ now < 2 * h + 2
  BY <1>0, <1>1, ThisPeriod, Halves DEF DigestTypes
<1>3. author[p].pc = "opened" /\ author[p].period = h /\ author[p].started = now /\ author[p] \in Firings
  BY <1>0, <1>1 DEF Adds, FiringIsSound, DigestTypes
<1>4. PICK r : r = [pc |-> "added", period |-> h, started |-> now]
  OBVIOUS
<1>5. r \in Firings /\ r.pc = "added" /\ r.period = h /\ r.started = now
  BY <1>2, <1>4 DEF Firings, FiringPlaces
<1>6. /\ author' \in [Firers -> Firings]
      /\ \A q \in Firers : author'[q] = IF q = p THEN r ELSE author[q]
  <2>1. [author[p] EXCEPT !.pc = "added"] = r
    BY <1>3, <1>4 DEF Firings
  <2>2. author' = [author EXCEPT ![p] = r]
    BY <2>1 DEF Adds
  <2> QED
    BY <1>0, <1>5, <2>2 DEF DigestTypes
<1>7. /\ item[h] = "none" /\ item' \in [Periods -> ReportStatuses] /\ item'[h] = "open"
      /\ \A k \in Periods : k # h => item'[k] = item[k]
      /\ UNCHANGED <<now, report, stamp, anchor, event, sent, dleft>>
      /\ told' = told \union Content
  BY <1>0, <1>2, <1>3 DEF Adds, DigestTypes, ReportStatuses
<1>8. \A q \in Firers : author[q].pc # "added"
  <2>1. \A q \in Firers : author[q].pc = "added" => author[q].period = h /\ item[h] # "none"
    BY <1>0, <1>1 DEF FiringIsSound
  <2> QED
    BY <1>7, <2>1
<1>9. DigestTypes'
  <2>1. told' \subseteq {e \in Events : event'[e] # NotYet}
    BY <1>0, <1>7 DEF DigestTypes, Content
  <2> QED
    BY <1>0, <1>6, <1>7, <2>1 DEF DigestTypes, NotYet, Periods
<1>10. \A q \in Firers : FiringIsSound(q)'
  <2> SUFFICES ASSUME NEW q \in Firers PROVE FiringIsSound(q)'
    OBVIOUS
  <2>1. CASE q = p
    <3>1. author'[q].pc = "added" /\ author'[q].period = h /\ author'[q].started = now
      BY <1>5, <1>6, <2>1
    <3> QED
      BY <1>1, <1>2, <1>7, <3>1 DEF FiringIsSound, Periods
  <2>2. CASE q # p
    <3>1. author'[q] = author[q]
      BY <1>6, <2>2
    <3>2. \A k \in Periods : item[k] # "none" => item'[k] # "none"
      BY <1>7
    <3>3. Periods' = Periods
      BY DEF Periods
    <3> QED
      BY <1>0, <1>7, <3>1, <3>2, <3>3 DEF FiringIsSound
  <2> QED
    BY <2>1, <2>2
<1>11. AddedIsUnsent'
  <2>1. \A q \in Firers : author'[q].pc = "added" => q = p
    BY <1>6, <1>8
  <2>2. author'[p].period = h /\ sent[h] = 0
    BY <1>0, <1>2, <1>5, <1>6, <1>7 DEF Announced
  <2> QED
    BY <1>7, <2>1, <2>2 DEF AddedIsUnsent
<1>12. Announced'
  <2>1. ASSUME NEW k \in Periods
        PROVE sent[k] <= 1 /\ (item'[k] = "none" => sent[k] = 0) /\ (item'[k] # "none" => k <= h)
    <3>1. CASE k = h
      BY <1>0, <1>2, <1>7, <3>1 DEF Announced
    <3>2. CASE k # h
      BY <1>0, <1>1, <1>7, <3>2 DEF Announced
    <3> QED
      BY <3>1, <3>2
  <2> QED
    BY <1>1, <1>7, <2>1 DEF Announced, Periods
<1>13. FewOpen'
  <2>1. OpenReports' \subseteq OpenReports \union {h}
    BY <1>7 DEF OpenReports, Periods
  <2>2. Cardinality(OpenReports') <= Cardinality(OpenReports) + 1
        /\ Cardinality(OpenReports) \in Nat /\ Cardinality(OpenReports') \in Nat
    BY <2>1, OpenCounts
  <2>3. ~Adding /\ Adding'
    BY <1>5, <1>6, <1>8 DEF Adding
  <2>4. LostFirings' = LostFirings /\ LostFirings \in Int
    <3>1. /\ dleft["crash"] \in Nat /\ dleft["fault"] \in Nat
          /\ DigestLimit["crash"] \in Nat /\ DigestLimit["fault"] \in Nat
      BY <1>0, DigestAssumption DEF DigestTypes, DigestAssumption, DigestEvents
    <3> QED
      BY <1>7, <3>1 DEF LostFirings
  <2> QED
    BY <1>0, <1>7, <2>2, <2>3, <2>4 DEF FewOpen
<1>14. StandupsTell'
  <2> SUFFICES ASSUME Standup PROVE StandupsTell'
    BY <1>7 DEF StandupsTell, Standup
  <2>0. Since' = Since
    BY <1>7 DEF Since
  <2>1. \A e \in Events : Since <= event[e] /\ event[e] < now => e \in told'
    <3>1. \A e \in Events : event[e] \in Nat /\ (event[e] < now => event[e] # NotYet)
      BY <1>0, PeriodsAreFinite DEF DigestTypes, NotYet
    <3>2. Since \in Int
      BY <1>0, SinceIs
    <3> QED
      BY <1>7, <3>1, <3>2 DEF Content
  <2>2. ToldUpTo(now)' /\ ToldUpTo(2 * h)'
    <3>1. \A e \in Events : event[e] \in Nat /\ (event[e] < 2 * h => event[e] < now)
      BY <1>0, <1>2 DEF DigestTypes
    <3> QED
      BY <1>7, <2>0, <2>1, <3>1 DEF ToldUpTo
  <2>3. ASSUME NEW q \in Firers, author'[q].pc \in {"added", "sending"} PROVE ToldUpTo(author[q].started)' 
    <3>1. CASE q = p
      <4>1. author'[q].started = now
        BY <1>5, <1>6, <3>1
      <4> QED
        BY <1>7, <2>2, <4>1 DEF ToldUpTo
    <3>2. CASE q # p
      <4>1. author'[q] = author[q] /\ ToldUpTo(author[q].started)
        BY <1>0, <1>6, <2>3, <3>2 DEF StandupsTell
      <4> QED
        BY <1>7, <2>0, <4>1 DEF ToldUpTo
    <3> QED
      BY <3>1, <3>2
  <2>4. ASSUME NEW k \in Periods, k = Half(now) PROVE ToldUpTo(2 * k)'
    BY <1>1, <2>2, <2>4
  <2> QED
    BY <1>7, <2>3, <2>4 DEF StandupsTell, Periods
<1> QED
  BY <1>9, <1>10, <1>11, <1>12, <1>13, <1>14 DEF DigestInv

\* A report lets its predecessors expire and is sent.
SendsReport(p) ==
    /\ author[p].pc = "added"
    /\ item' = Expired(Predecessors(author[p].period))
    /\ sent' = [sent EXCEPT ![author[p].period] = @ + 1]
    /\ author' = [author EXCEPT ![p].pc = "sending"]
    /\ UNCHANGED <<now, report, stamp, anchor, event, told, dleft>>

LEMMA ReportSent ==
    ASSUME DigestInv, NEW p \in Firers, SendsReport(p)
    PROVE  DigestInv'
<1>0. /\ DigestTypes /\ (\A q \in Firers : FiringIsSound(q)) /\ AddedIsUnsent /\ Announced /\ FewOpen
  BY DEF DigestInv
<1>1. PICK h : h = Half(now)
  OBVIOUS
<1>2. h \in Nat /\ h \in Periods /\ now \in Nat
  BY <1>0, <1>1, ThisPeriod, Halves DEF DigestTypes
<1>3. author[p].pc = "added" /\ author[p].period = h /\ author[p].started = now /\ author[p] \in Firings
      /\ item[h] # "none" /\ sent[h] = 0 /\ \A q \in Firers : author[q].pc = "added" => p = q
  BY <1>0, <1>1 DEF SendsReport, FiringIsSound, DigestTypes, AddedIsUnsent
<1>4. PICK r : r = [pc |-> "sending", period |-> h, started |-> now]
  OBVIOUS
<1>5. r \in Firings /\ r.pc = "sending" /\ r.period = h /\ r.started = now
  BY <1>2, <1>4 DEF Firings, FiringPlaces
<1>6. /\ author' \in [Firers -> Firings]
      /\ \A q \in Firers : author'[q] = IF q = p THEN r ELSE author[q]
  <2>1. [author[p] EXCEPT !.pc = "sending"] = r
    BY <1>3, <1>4 DEF Firings
  <2>2. author' = [author EXCEPT ![p] = r]
    BY <2>1 DEF SendsReport
  <2> QED
    BY <1>0, <1>5, <2>2 DEF DigestTypes
<1>7. /\ item' \in [Periods -> ReportStatuses]
      /\ \A k \in Periods : item'[k] = "none" <=> item[k] = "none"
      /\ \A k \in Periods : item'[k] = "open" => item[k] = "open" /\ ~(k < h)
      /\ UNCHANGED <<now, report, stamp, anchor, event, told, dleft>>
  <2>1. item' = Expired(Predecessors(h))
    BY <1>3 DEF SendsReport
  <2> QED
    BY <1>0, <2>1 DEF SendsReport, DigestTypes, ReportStatuses, Terminal, Expired, Predecessors
<1>8. sent' \in [Periods -> Nat] /\ sent'[h] = 1 /\ \A k \in Periods : k # h => sent'[k] = sent[k]
  <2>1. sent' = [sent EXCEPT ![h] = 1]
    BY <1>3 DEF SendsReport
  <2> QED
    BY <1>0, <1>2, <2>1 DEF DigestTypes
<1>9. DigestTypes'
  BY <1>0, <1>6, <1>7, <1>8 DEF DigestTypes, NotYet, Periods
<1>10. \A q \in Firers : FiringIsSound(q)'
  <2> SUFFICES ASSUME NEW q \in Firers PROVE FiringIsSound(q)'
    OBVIOUS
  <2>1. CASE q = p
    <3>1. author'[q].pc = "sending" /\ author'[q].period = h /\ author'[q].started = now
      BY <1>5, <1>6, <2>1
    <3>2. item'[h] # "none" /\ Periods' = Periods
      BY <1>2, <1>3, <1>7 DEF Periods
    <3> QED
      BY <1>1, <1>2, <1>7, <3>1, <3>2 DEF FiringIsSound
  <2>2. CASE q # p
    <3>1. author'[q] = author[q]
      BY <1>6, <2>2
    <3>2. Periods' = Periods
      BY DEF Periods
    <3> QED
      BY <1>0, <1>7, <3>1, <3>2 DEF FiringIsSound
  <2> QED
    BY <2>1, <2>2
<1>11. AddedIsUnsent' /\ ~Adding'
  BY <1>3, <1>5, <1>6 DEF AddedIsUnsent, Adding
<1>12. Announced'
  <2>1. ASSUME NEW k \in Periods
        PROVE sent'[k] <= 1 /\ (item'[k] = "none" => sent'[k] = 0) /\ (item'[k] # "none" => k <= h)
    <3>1. CASE k = h
      BY <1>2, <1>3, <1>7, <1>8, <3>1
    <3>2. CASE k # h
      BY <1>0, <1>1, <1>7, <1>8, <3>2 DEF Announced
    <3> QED
      BY <3>1, <3>2
  <2> QED
    BY <1>1, <1>7, <2>1 DEF Announced, Periods
<1>13. FewOpen'
  <2>1. OpenReports' \subseteq {h}
    <3>1. ASSUME NEW k \in Periods, item'[k] = "open" PROVE k = h
      <4>1. k <= h /\ ~(k < h) /\ k \in Nat
        BY <1>0, <1>1, <1>7, <3>1, PeriodsAreFinite DEF Announced
      <4> QED
        BY <1>2, <4>1
    <3> QED
      BY <3>1 DEF OpenReports, Periods
  <2>2. Cardinality(OpenReports') <= 1 /\ Cardinality(OpenReports') \in Nat
    BY <2>1, OpenCounts
  <2>3. LostFirings' = LostFirings /\ LostFirings \in Int /\ LostFirings >= 0
    <3>1. /\ dleft["crash"] \in Nat /\ dleft["fault"] \in Nat
          /\ DigestLimit["crash"] \in Nat /\ DigestLimit["fault"] \in Nat
      BY <1>0, DigestAssumption DEF DigestTypes, DigestAssumption, DigestEvents
    <3> QED
      BY <1>0, <1>7, <3>1 DEF LostFirings, FewOpen
  <2> QED
    BY <1>0, <1>7, <2>2, <2>3 DEF FewOpen
<1>14. StandupsTell'
  <2>1. /\ anchor <= anchor' /\ told \subseteq told' /\ now' = now /\ report' = report
        /\ \A x \in Events : event'[x] = event[x] \/ event'[x] >= now
    BY <1>0, <1>7 DEF DigestTypes
  <2>2. /\ \A k \in Periods : item'[k] # "none" => item[k] # "none"
        /\ \A q \in Firers : author'[q].pc \in {"added", "sending"} =>
             author[q].pc \in {"added", "sending"} /\ author'[q].started = author[q].started
    BY <1>3, <1>5, <1>6, <1>7
  <2> QED
    BY <1>9, <2>1, <2>2, TellsAsBefore
<1> QED
  BY <1>9, <1>10, <1>11, <1>12, <1>13, <1>14 DEF DigestInv

\* What a firing does, if it does not add or send, is to end.
Ends(p) ==
    /\ author' = [author EXCEPT ![p] = NoFiring] /\ author[p].pc # "idle"
    /\ anchor' \in {anchor, Max({anchor, author[p].started})}
    /\ \/ dleft' = dleft /\ author[p].pc # "added"
       \/ Costs("crash") \/ Costs("fault")
    /\ UNCHANGED <<now, report, stamp, event, told, item, sent>>

LEMMA FiringMoves ==
    ASSUME NEW p \in Firers, Build(p) \/ ExpireAndSend(p) \/ SendReturns(p) \/ FirerDies(p)
    PROVE  Adds(p) \/ SendsReport(p) \/ Ends(p)
<1>1. CASE Build(p)
  <2> USE <1>1 DEF Build
  <2>1. CASE (\E standing \in BOOLEAN : Quiet(standing)) /\ Closes(p, TRUE) /\ UNCHANGED <<item, told, dleft>>
    BY <2>1 DEF Closes, LastSuccess, Ends
  <2>2. CASE ~IsNew(author[p].period) /\ Closes(p, TRUE) /\ UNCHANGED <<item, told, dleft>>
    BY <2>2 DEF Closes, LastSuccess, Ends
  <2>3. CASE /\ IsNew(author[p].period) /\ item' = [item EXCEPT ![author[p].period] = "open"]
             /\ told' = told \union Content /\ author' = [author EXCEPT ![p].pc = "added"]
             /\ UNCHANGED <<anchor, dleft>>
    BY <2>3 DEF IsNew, Adds
  <2>4. CASE Costs("fault") /\ Closes(p, FALSE) /\ UNCHANGED <<item, told>>
    BY <2>4 DEF Closes, LastSuccess, Ends
  <2> QED
    BY <2>1, <2>2, <2>3, <2>4
<1>2. CASE ExpireAndSend(p)
  BY <1>2 DEF ExpireAndSend, Closes, LastSuccess, Ends, SendsReport
<1>3. CASE SendReturns(p)
  BY <1>3 DEF SendReturns, Closes, LastSuccess, Ends
<1>4. CASE FirerDies(p)
  BY <1>4 DEF FirerDies, Ends
<1> QED
  BY <1>1, <1>2, <1>3, <1>4

LEMMA DigestStep == DigestInv /\ [DigestNext]_digestVars => DigestInv'
<1> SUFFICES ASSUME DigestInv, [DigestNext]_digestVars PROVE DigestInv'
  OBVIOUS
<1>1. CASE Passes
  BY <1>1, MomentPasses
<1>2. CASE JanitorExpires
  BY <1>2, Resolving
<1>3. ASSUME NEW e \in Events, Happens(e) PROVE DigestInv'
  BY <1>3, EventHappens
<1>4. ASSUME NEW k \in Periods, DismissDigest(k) PROVE DigestInv'
  BY <1>4, Resolving
<1>5. ASSUME NEW p \in Firers, ClaimSlot(p) PROVE DigestInv'
  BY <1>5, Claiming
<1>6. ASSUME NEW p \in Firers, Build(p) \/ ExpireAndSend(p) \/ SendReturns(p) \/ FirerDies(p)
      PROVE  DigestInv'
  <2>1. CASE Adds(p)
    BY <2>1, ReportAdded
  <2>2. CASE SendsReport(p)
    BY <2>2, ReportSent
  <2>3. CASE Ends(p)
    BY <2>3, FiringEnds DEF Ends
  <2> QED
    BY <1>6, <2>1, <2>2, <2>3, FiringMoves
<1>7. CASE UNCHANGED digestVars
  BY <1>7 DEF digestVars, DigestInv, DigestTypes, FiringIsSound, AddedIsUnsent, Announced, FewOpen,
     OpenReports, LostFirings, Adding, StandupsTell, Standup, ToldUpTo, Since, NotYet, Periods
<1> QED
  BY <1>1, <1>2, <1>3, <1>4, <1>5, <1>6, <1>7 DEF DigestNext

-----------------------------------------------------------------------------
(* What the steps may not do.                                               *)

\* A report that was dismissed or has expired is not written again.
LEMMA ResolvedIsLeft ==
    ASSUME DigestInv, [DigestNext]_digestVars, NEW k \in Periods, item[k] \in Terminal
    PROVE  item'[k] = item[k]
<1>0. item \in [Periods -> ReportStatuses] /\ item[k] # "none" /\ item[k] # "open"
  BY DEF DigestInv, DigestTypes, Terminal
<1>1. ASSUME NEW R, \A j \in R : item[j] = "open", item' = Expired(R) PROVE item'[k] = item[k]
  BY <1>0, <1>1 DEF Expired
<1>2. CASE JanitorExpires
  <2>1. PICK R : R = {j \in Periods : j < now \div 2 /\ StillOpen(j)}
    OBVIOUS
  <2>2. item' = Expired(R) /\ \A j \in R : item[j] = "open"
    BY <1>2, <2>1 DEF JanitorExpires, StillOpen
  <2> QED
    BY <1>1, <2>2
<1>3. ASSUME NEW j \in Periods, DismissDigest(j) PROVE item'[k] = item[k]
  BY <1>0, <1>3 DEF DismissDigest, StillOpen
<1>4. ASSUME NEW p \in Firers, Build(p) \/ ExpireAndSend(p) \/ SendReturns(p) \/ FirerDies(p)
      PROVE  item'[k] = item[k]
  <2>1. CASE Adds(p)
    BY <1>0, <2>1 DEF Adds
  <2>2. CASE SendsReport(p)
    <3>1. \A j \in Predecessors(author[p].period) : item[j] = "open"
      BY DEF Predecessors
    <3> QED
      BY <1>1, <2>2, <3>1 DEF SendsReport
  <2>3. CASE Ends(p)
    BY <2>3 DEF Ends
  <2> QED
    BY <1>4, <2>1, <2>2, <2>3, FiringMoves
<1>5. CASE Passes \/ (\E e \in Events : Happens(e)) \/ (\E p \in Firers : ClaimSlot(p))
  BY <1>5 DEF Passes, Happens, ClaimSlot
<1>6. CASE UNCHANGED digestVars
  BY <1>6 DEF digestVars
<1> QED
  BY <1>2, <1>3, <1>4, <1>5, <1>6 DEF DigestNext

\* Behind the anchor that a useful run leaves, what was not told has its report.
LEMMA AnchorLeavesNothing ==
    ASSUME DigestInv, [DigestNext]_digestVars, Standup, anchor' # anchor,
           NEW e \in Events, Since <= event[e], event[e] < anchor', e \notin told'
    PROVE  item[event[e] \div 2] # "none"
<1>0. DigestTypes /\ (\A q \in Firers : FiringIsSound(q)) /\ StandupsTell
  BY DEF DigestInv
<1>1. PICK p \in Firers :
        /\ author[p].pc # "idle" /\ anchor' = Max({anchor, author[p].started})
        /\ \/ Build(p) /\ told' = told /\ ((\E standing \in BOOLEAN : Quiet(standing)) \/ ~IsNew(author[p].period))
           \/ SendReturns(p) /\ told' = told
  <2>1. PICK p \in Firers : Build(p) \/ ExpireAndSend(p) \/ SendReturns(p)
    BY DEF DigestNext, Passes, JanitorExpires, Happens, DismissDigest, ClaimSlot, FirerDies, digestVars
  <2>2. CASE Build(p)
    <3>1. /\ anchor' = Max({anchor, author[p].started}) /\ author[p].pc # "idle" /\ told' = told
          /\ (\E standing \in BOOLEAN : Quiet(standing)) \/ ~IsNew(author[p].period)
      BY <2>2 DEF Build, Closes, LastSuccess
    <3> QED
      BY <2>2, <3>1
  <2>3. CASE ExpireAndSend(p)
    BY <2>3 DEF ExpireAndSend, Closes, LastSuccess
  <2>4. CASE SendReturns(p)
    BY <2>4 DEF SendReturns, Closes, LastSuccess
  <2> QED
    BY <2>1, <2>2, <2>3, <2>4
<1>2. PICK m : m = event[e]
  OBVIOUS
<1>3. /\ author[p].started \in Nat /\ author[p].started <= now /\ now \in Nat /\ anchor \in Int
      /\ m \in Nat /\ Since \in Int /\ Since >= now - 2
  BY <1>0, <1>1, <1>2, SinceIs DEF DigestTypes, Firings, FiringIsSound
<1>4. anchor' = author[p].started /\ m < now /\ m # NotYet
  <2>1. Max({anchor, author[p].started}) \in {anchor, author[p].started}
    <3>1. anchor \in Int /\ author[p].started \in Int
      BY <1>3
    <3> QED
      BY <3>1, TheGreater
  <2>2. anchor' = author[p].started
    BY <1>1, <2>1
  <2>3. LastMoment \in Nat /\ now <= LastMoment /\ NotYet = LastMoment + 1
    BY <1>0, PeriodsAreFinite DEF DigestTypes, NotYet
  <2> QED
    BY <1>2, <1>3, <2>2, <2>3
<1>5. CASE SendReturns(p)
  <2>1. ToldUpTo(author[p].started)
    BY <1>0, <1>5 DEF SendReturns, StandupsTell
  <2> QED
    BY <1>1, <1>4, <2>1 DEF ToldUpTo
<1>6. CASE Build(p) /\ \E standing \in BOOLEAN : Quiet(standing)
  <2>1. Content = {}
    BY <1>6 DEF Quiet
  <2>2. e \in Content
    BY <1>2, <1>4 DEF Content
  <2> QED
    BY <2>1, <2>2
<1>7. CASE Build(p) /\ ~IsNew(author[p].period)
  <2>1. PICK h : h = Half(now)
    OBVIOUS
  <2>2. author[p].period = h /\ item[h] # "none"
    BY <1>0, <1>7, <2>1 DEF Build, FiringIsSound, IsNew
  <2>3. h \in Periods /\ h \in Nat /\ now < 2 * h + 2
    BY <1>0, <1>3, <2>1, ThisPeriod, Halves
  <2>4. ToldUpTo(2 * h)
    BY <1>0, <2>1, <2>2, <2>3 DEF StandupsTell
  <2>5. ~(m < 2 * h)
    BY <1>1, <1>2, <2>4, <1>7 DEF ToldUpTo, SendReturns
  <2>6. PICK g : g = Half(m)
    OBVIOUS
  <2>7. g \in Nat /\ 2 * g <= m /\ m < 2 * g + 2
    BY <1>3, <2>6, Halves
  <2>8. g = h
    BY <1>3, <1>4, <2>3, <2>5, <2>7
  <2> QED
    BY <1>2, <2>2, <2>6, <2>8 DEF Half
<1> QED
  BY <1>1, <1>5, <1>6, <1>7

\* Beside the newest report only those of firings that were lost are open.
LEMMA FewAreOpen == DigestInv => NoPileUp
<1> SUFFICES ASSUME DigestInv PROVE NoPileUp
  OBVIOUS
<1>1. PICK busy, c : busy = {p \in Firers : author[p].pc = "added"} /\ c = Cardinality(OpenReports)
  OBVIOUS
<1>2. c \in Nat /\ LostFirings \in Int /\ c <= 2 + LostFirings /\ (~Adding => c <= 1 + LostFirings)
  <2>1. /\ dleft["crash"] \in Nat /\ dleft["fault"] \in Nat
        /\ DigestLimit["crash"] \in Nat /\ DigestLimit["fault"] \in Nat
    BY DigestAssumption DEF DigestInv, DigestTypes, DigestAssumption, DigestEvents
  <2> QED
    BY <1>1, <2>1, OpenCounts DEF DigestInv, FewOpen, LostFirings
<1>3. CASE Adding
  <2>1. PICK p \in Firers : author[p].pc = "added"
    BY <1>3 DEF Adding
  <2>2. busy = {p}
    BY <1>1, <2>1 DEF DigestInv, AddedIsUnsent
  <2>3. Cardinality(busy) = 1
    BY <2>2, FS_Singleton
  <2>4. c <= 1 + LostFirings + Cardinality(busy)
    BY <1>2, <2>3
  <2> QED
    BY <1>1, <2>4 DEF NoPileUp, LostFirings, OpenReports
<1>4. CASE ~Adding
  <2>1. busy = {}
    BY <1>1, <1>4 DEF Adding
  <2>2. Cardinality(busy) = 0
    BY <2>1, FS_EmptySet
  <2>3. c <= 1 + LostFirings + Cardinality(busy)
    BY <1>2, <1>4, <2>2
  <2> QED
    BY <1>1, <2>3 DEF NoPileUp, LostFirings, OpenReports
<1> QED
  BY <1>3, <1>4

\* THEOREM.  However many processes fire the standup and the planning pack, and
\* wherever they fail or die, for any number of periods and events: a period is
\* announced once at most and only when its report is stored, beside the newest
\* report only those of lost firings are left open, a report that was dismissed or
\* has expired stays so, and a standup's anchor moves past nothing that was neither
\* told nor came after its day's digest (routines._handle_standup,
\* db.inbox_item_add, inbox_expire_predecessors, routine_last_success).
THEOREM DigestsStayExact == DigestSpec => DigestsAreExact
<1>1. DigestSpec => []DigestInv
  BY DigestStarts, DigestStep, PTL DEF DigestSpec
<1>2. DigestInv => AnnouncedOnce /\ NoPileUp
  <2> SUFFICES ASSUME DigestInv PROVE AnnouncedOnce
    BY FewAreOpen
  <2>1. \A k \in Periods : sent[k] \in Nat /\ sent[k] <= 1 /\ (item[k] = "none" => sent[k] = 0)
    BY DEF DigestInv, DigestTypes, Announced
  <2> QED
    BY <2>1 DEF AnnouncedOnce
<1>3. DigestInv /\ [DigestNext]_digestVars =>
        [\A k \in Periods : item[k] \in Terminal => item'[k] = item[k]]_digestVars
  BY ResolvedIsLeft
<1>4. DigestInv /\ [DigestNext]_digestVars =>
        [report = "standup_digest" /\ anchor' # anchor =>
           \A e \in Events :
              Since <= event[e] /\ event[e] < anchor' /\ e \notin told' =>
                  item[event[e] \div 2] # "none"]_digestVars
  BY AnchorLeavesNothing DEF Standup
<1> QED
  BY <1>1, <1>2, <1>3, <1>4, PTL
     DEF DigestSpec, DigestsAreExact, ResolvedStays, UntoldCameAfterItsDigest

\* THEOREM.  The rows of the digests have their types: the anchor does not run
\* ahead of the clock, and what a firing writes about is stored.
THEOREM DigestTypesHold == DigestSpec => []DigestTypeOK
<1>1. DigestSpec => []DigestInv
  BY DigestStarts, DigestStep, PTL DEF DigestSpec
<1>2. DigestInv => DigestTypeOK
  <2> SUFFICES ASSUME DigestInv PROVE DigestTypeOK
    OBVIOUS
  <2>1. LastMoment \in Nat
    BY PeriodsAreFinite
  <2>2. now \in Moments /\ stamp \in 0 .. now /\ anchor \in Never .. now
    BY <2>1 DEF DigestInv, DigestTypes, Moments, Never
  <2>3. \A e \in Events : event[e] \in 0 .. now \union {NotYet}
    BY DEF DigestInv, DigestTypes
  <2> QED
    BY <2>2, <2>3 DEF DigestInv, DigestTypes, DigestTypeOK, FiringIsSound, ReportStatuses
<1> QED
  BY <1>1, <1>2, PTL

-----------------------------------------------------------------------------
(* Proposals: what the scanning routines offer.                             *)

Adoptions == {"feature", "task"}
Notes == [status : {"none", "open", "dismissed", "adopted", "expired"}, age : 0 .. Window]

SignalTypes ==
    /\ family \in Families /\ note \in [Bands -> Notes]
    /\ adopter \in [Adoptions -> Bands \union {Untaken}]

\* An item that was never made has no age.
UnmadeHasNoAge == \A b \in Bands : note[b].status = "none" => note[b].age = Window

\* Of an adopted proposal one kind is taken in or on its way, no kind of any other.
Holds(k, b) == <<k, b>> \in taken \/ adopter[k] = b
OneKind ==
    \A b \in Bands :
        /\ ~(Holds("feature", b) /\ Holds("task", b))
        /\ \A k \in Adoptions : Holds(k, b) => note[b].status = "adopted"

\* Only proposals are adopted.
OnlyProposals ==
    family \notin ProposalFamilies =>
        \A b \in Bands : note[b].status # "adopted" /\ \A k \in Adoptions : ~Holds(k, b)

SignalInv ==
    SignalTypes /\ UnmadeHasNoAge /\ OneKind /\ OnlyProposals /\ QuietAfterItem /\ AdoptedIsTakenIn

LEMMA WindowIsPositive == Window \in Nat /\ Window > 0 /\ Untaken \notin Bands
  BY SignalAssumption DEF SignalAssumption, Untaken, Bands

LEMMA NoNoteIsANote == NoNote \in Notes /\ NoNote.status = "none" /\ NoNote.age = Window
  BY WindowIsPositive DEF NoNote, Notes

LEMMA SignalsStart == SignalInit => SignalInv
<1> SUFFICES ASSUME SignalInit PROVE SignalInv
  OBVIOUS
<1>1. \A b \in Bands : note[b] = NoNote
  BY DEF SignalInit
<1>2. SignalTypes
  BY NoNoteIsANote, WindowIsPositive DEF SignalInit, SignalTypes, Adoptions
<1>3. \A b \in Bands, k \in Adoptions : ~Holds(k, b)
  BY WindowIsPositive DEF SignalInit, Holds, Adoptions
<1> QED
  BY <1>1, <1>2, <1>3, NoNoteIsANote, WindowIsPositive
     DEF SignalInv, UnmadeHasNoAge, OneKind, OnlyProposals, QuietAfterItem, AdoptedIsTakenIn, Adoptions

\* A step that leaves the items and the adoptions alone.
LEMMA ItemsStay ==
    ASSUME SignalInv, UNCHANGED <<family, note, adopter, taken, refused, cut>>
    PROVE  SignalInv'
  BY DEF SignalInv, SignalTypes, UnmadeHasNoAge, OneKind, OnlyProposals, QuietAfterItem,
         AdoptedIsTakenIn, Holds, Guarded, ProposalFamilies

\* A step that changes the state of one item to something else than adopted.
LEMMA ItemEnds ==
    ASSUME SignalInv, NEW b \in Bands, NEW status \in {"expired", "dismissed"},
           note[b].status = "open", note' = [note EXCEPT ![b].status = status],
           UNCHANGED <<family, adopter, taken, refused, cut, memory>>
    PROVE  SignalInv'
<1> USE DEF SignalInv
<1>1. /\ note' \in [Bands -> Notes] /\ note'[b].status = status /\ note'[b].age = note[b].age
      /\ \A c \in Bands \ {b} : note'[c] = note[c]
  BY DEF SignalTypes, Notes
<1>2. \A k \in Adoptions : ~Holds(k, b)
  BY DEF OneKind
<1>3. SignalTypes' /\ UnmadeHasNoAge'
  BY <1>1 DEF SignalTypes, UnmadeHasNoAge
<1>4. OneKind' /\ OnlyProposals'
  BY <1>1, <1>2 DEF OneKind, OnlyProposals, Holds, Adoptions, ProposalFamilies
<1>5. QuietAfterItem'
  BY <1>1 DEF QuietAfterItem, Guarded
<1>6. AdoptedIsTakenIn'
  BY <1>1 DEF AdoptedIsTakenIn
<1> QED
  BY <1>3, <1>4, <1>5, <1>6

LEMMA Adopting ==
    ASSUME SignalInv, NEW k \in Adoptions, NEW b \in Bands, Adopt(k, b)
    PROVE  SignalInv'
<1> USE DEF SignalInv
<1>1. /\ family \in ProposalFamilies /\ adopter[k] = Untaken /\ note[b].status = "open"
      /\ note' = [note EXCEPT ![b].status = "adopted"] /\ adopter' = [adopter EXCEPT ![k] = b]
      /\ UNCHANGED <<family, rows, live, capped, upkeep, taken, refused, cut, memory>>
  BY DEF Adopt, Resolves
<1>2. /\ note' \in [Bands -> Notes] /\ note'[b].status = "adopted" /\ note'[b].age = note[b].age
      /\ \A c \in Bands \ {b} : note'[c] = note[c]
  BY <1>1 DEF SignalTypes, Notes
<1>3. adopter' \in [Adoptions -> Bands \union {Untaken}] /\ adopter'[k] = b
      /\ \A j \in Adoptions \ {k} : adopter'[j] = adopter[j]
  BY <1>1 DEF SignalTypes
<1>4. \A j \in Adoptions : ~Holds(j, b)
  BY <1>1 DEF OneKind
<1>5. SignalTypes' /\ UnmadeHasNoAge'
  BY <1>1, <1>2, <1>3 DEF SignalTypes, UnmadeHasNoAge
<1>6. /\ \A j \in Adoptions, c \in Bands : c # b => (Holds(j, c)' => Holds(j, c))
      /\ \A j \in Adoptions : Holds(j, b)' <=> j = k
  BY <1>1, <1>3, <1>4, WindowIsPositive DEF Holds
<1>7. OneKind' /\ OnlyProposals'
  <2>1. ASSUME NEW c \in Bands
        PROVE  /\ ~(Holds("feature", c)' /\ Holds("task", c)')
               /\ \A j \in Adoptions : Holds(j, c)' => note'[c].status = "adopted"
    BY <1>2, <1>6 DEF OneKind, Adoptions
  <2> QED
    BY <1>1, <2>1 DEF OneKind, OnlyProposals, ProposalFamilies
<1>8. QuietAfterItem'
  BY <1>1, <1>2 DEF QuietAfterItem, Guarded
<1>9. AdoptedIsTakenIn'
  <2>1. ASSUME NEW c \in Bands, note'[c].status = "adopted"
        PROVE  (\E j \in Adoptions : Holds(j, c)') \/ c \in refused' \union cut'
    <3>1. CASE c = b
      BY <1>6, <3>1
    <3>2. CASE c # b
      <4>1. note[c].status = "adopted"
        BY <1>2, <2>1, <3>2
      <4>2. (\E j \in Adoptions : Holds(j, c)) \/ c \in refused \union cut
        BY <4>1 DEF AdoptedIsTakenIn, Holds, Adoptions
      <4>3. \A j \in Adoptions : Holds(j, c) => Holds(j, c)'
        BY <1>1, <1>3, WindowIsPositive DEF Holds
      <4> QED
        BY <1>1, <4>2, <4>3
    <3> QED
      BY <3>1, <3>2
  <2> QED
    BY <2>1 DEF AdoptedIsTakenIn, Holds, Adoptions
<1> QED
  BY <1>5, <1>7, <1>8, <1>9

\* An adoption is taken in, refused or cut short.
LEMMA AdoptionEnds ==
    ASSUME SignalInv, NEW k \in Adoptions, TakeIn(k) \/ AdopterDies(k)
    PROVE  SignalInv'
<1> USE DEF SignalInv
<1>1. PICK band : band = adopter[k]
  OBVIOUS
<1>2. /\ band # Untaken /\ adopter' = [adopter EXCEPT ![k] = Untaken]
      /\ UNCHANGED <<family, note, memory>>
      /\ \/ taken' = taken \union {<<k, band>>} /\ UNCHANGED <<refused, cut>>
         \/ taken' = taken /\ refused \union cut \subseteq refused' \union cut'
            /\ band \in refused' \union cut'
  BY <1>1 DEF TakeIn, AdopterDies, RecordsError
<1>3. band \in Bands /\ adopter' \in [Adoptions -> Bands \union {Untaken}] /\ adopter'[k] = Untaken
      /\ \A j \in Adoptions \ {k} : adopter'[j] = adopter[j]
  BY <1>1, <1>2 DEF SignalTypes
<1>4. Holds(k, band)
  BY <1>1 DEF Holds
<1>5. \A j \in Adoptions, c \in Bands : Holds(j, c)' => Holds(j, c)
  BY <1>1, <1>2, <1>3, WindowIsPositive DEF Holds
<1>6. SignalTypes' /\ UnmadeHasNoAge' /\ QuietAfterItem'
  BY <1>2, <1>3 DEF SignalTypes, UnmadeHasNoAge, QuietAfterItem, Guarded
<1>7. OneKind' /\ OnlyProposals'
  <2>1. ASSUME NEW c \in Bands
        PROVE  /\ ~(Holds("feature", c)' /\ Holds("task", c)')
               /\ \A j \in Adoptions : Holds(j, c)' => note'[c].status = "adopted"
    BY <1>2, <1>5 DEF OneKind, Adoptions
  <2> QED
    BY <1>2, <1>5, <2>1 DEF OneKind, OnlyProposals, ProposalFamilies
<1>8. AdoptedIsTakenIn'
  <2>1. ASSUME NEW c \in Bands, note'[c].status = "adopted"
        PROVE  (\E j \in Adoptions : Holds(j, c)') \/ c \in refused' \union cut'
    <3>1. (\E j \in Adoptions : Holds(j, c)) \/ c \in refused \union cut
      BY <1>2, <2>1 DEF AdoptedIsTakenIn, Holds, Adoptions
    <3>2. \A j \in Adoptions : Holds(j, c) => Holds(j, c)' \/ (j = k /\ c = band)
      BY <1>1, <1>2, <1>3 DEF Holds
    <3>3. c = band => Holds(k, c)' \/ c \in refused' \union cut'
      BY <1>2 DEF Holds
    <3> QED
      BY <1>2, <3>1, <3>2, <3>3
  <2> QED
    BY <2>1 DEF AdoptedIsTakenIn, Holds, Adoptions
<1> QED
  BY <1>6, <1>7, <1>8

LEMMA Scanning ==
    ASSUME SignalInv, Scan
    PROVE  SignalInv'
<1> USE DEF SignalInv
<1>1. PICK band : band = Band
  OBVIOUS
<1>2. /\ note[band].status = "none" /\ note' = [note EXCEPT ![band] = [status |-> "open", age |-> 0]]
      /\ family \in Guarded => ~RecentSig
      /\ UNCHANGED <<family, rows, live, capped, upkeep, adopter, taken, refused, cut, memory>>
  BY <1>1 DEF Scan, Speaks
<1>3. CASE band \notin Bands
  <2>1. note' = note
    BY <1>2, <1>3 DEF SignalTypes
  <2> QED
    BY <1>2, <2>1, ItemsStay DEF SignalTypes
<1>4. CASE band \in Bands
  <2> DEFINE new == [status |-> "open", age |-> 0]
  <2>1. new \in Notes /\ new.status = "open" /\ new.age = 0
    BY WindowIsPositive DEF Notes
  <2> HIDE DEF new
  <2>2. note' = [note EXCEPT ![band] = new]
    BY <1>2 DEF new
  <2>3. /\ note' \in [Bands -> Notes] /\ note'[band] = new
        /\ \A c \in Bands \ {band} : note'[c] = note[c]
    BY <1>4, <2>1, <2>2 DEF SignalTypes
  <2>4. \A k \in Adoptions : ~Holds(k, band)
    BY <1>2, <1>4 DEF OneKind
  <2>5. SignalTypes' /\ UnmadeHasNoAge'
    BY <1>2, <2>1, <2>3 DEF SignalTypes, UnmadeHasNoAge
  <2>6. OneKind' /\ OnlyProposals'
    BY <1>2, <2>1, <2>3, <2>4 DEF OneKind, OnlyProposals, Holds, Adoptions, ProposalFamilies
  <2>7. QuietAfterItem'
    <3>1. family \in Guarded => \A c \in Bands : note[c].age = Window
      <4> SUFFICES ASSUME family \in Guarded, NEW c \in Bands PROVE note[c].age = Window
        OBVIOUS
      <4>1. note[c].status = "none" \/ ~(note[c].age < Window)
        BY <1>2 DEF RecentSig
      <4>2. note[c].age \in 0 .. Window
        BY DEF SignalTypes, Notes
      <4> QED
        BY <4>1, <4>2, WindowIsPositive DEF UnmadeHasNoAge
    <3>2. family \in Guarded => \A c \in Bands \ {band} : note'[c].age = Window
      BY <2>3, <3>1
    <3> QED
      BY <1>2, <3>2, WindowIsPositive DEF QuietAfterItem, Guarded
  <2>8. AdoptedIsTakenIn'
    BY <1>2, <2>1, <2>3 DEF AdoptedIsTakenIn
  <2> QED
    BY <2>5, <2>6, <2>7, <2>8
<1> QED
  BY <1>3, <1>4

LEMMA DaysPass ==
    ASSUME SignalInv, DayPasses
    PROVE  SignalInv'
<1> USE DEF SignalInv
<1>1. PICK ends \in BOOLEAN :
        /\ ends => family \in EpochFamilies
        /\ note' = [b \in Bands |-> IF ends THEN NoNote ELSE [note[b] EXCEPT !.age = Older(@)]]
  BY DEF DayPasses
<1>2. /\ \A k \in Adoptions : adopter[k] = Untaken
      /\ UNCHANGED <<family, adopter, taken, refused, cut>>
  <2>1. DOMAIN adopter = Adoptions
    BY DEF SignalTypes
  <2> QED
    BY <2>1 DEF DayPasses
<1>3. \A a \in 0 .. Window : Older(a) \in 0 .. Window /\ (a = Window => Older(a) = Window)
                             /\ (Older(a) < Window => a < Window)
  BY WindowIsPositive DEF Older
<1>4. CASE ends
  <2>1. \A b \in Bands : note'[b] = NoNote
    BY <1>1, <1>4
  <2>2. family \notin ProposalFamilies /\ family \notin Guarded
    BY <1>1, <1>4 DEF EpochFamilies, ProposalFamilies, Guarded
  <2>3. note' \in [Bands -> Notes]
    BY <1>1, <1>4, NoNoteIsANote
  <2> QED
    BY <1>2, <2>1, <2>2, <2>3, NoNoteIsANote DEF SignalTypes, UnmadeHasNoAge, OneKind,
       OnlyProposals, QuietAfterItem, AdoptedIsTakenIn, Holds, Adoptions
<1>5. CASE ~ends
  <2>1. \A b \in Bands : /\ note'[b] \in Notes /\ note'[b].status = note[b].status
                         /\ note'[b].age = Older(note[b].age) /\ note[b].age \in 0 .. Window
    BY <1>1, <1>3, <1>5 DEF SignalTypes, Notes
  <2>2. note' \in [Bands -> Notes]
    BY <1>1, <1>5, <2>1
  <2>3. SignalTypes' /\ UnmadeHasNoAge'
    BY <1>2, <1>3, <2>1, <2>2 DEF SignalTypes, UnmadeHasNoAge
  <2>4. OneKind' /\ OnlyProposals' /\ AdoptedIsTakenIn'
    BY <1>2, <2>1 DEF OneKind, OnlyProposals, AdoptedIsTakenIn, Holds, Adoptions, ProposalFamilies
  <2>5. QuietAfterItem'
    BY <1>2, <1>3, <2>1 DEF QuietAfterItem, Guarded
  <2> QED
    BY <2>3, <2>4, <2>5
<1> QED
  BY <1>4, <1>5

LEMMA SignalSteps ==
    ASSUME SignalInv, [SignalNext]_signalVars
    PROVE  SignalInv'
<1>1. CASE Grows \/ SuccessorChanges \/ ManualBootstrap \/ Upkeep \/ MemoryMoves
           \/ UNCHANGED signalVars
  <2>1. UNCHANGED <<family, note, adopter, taken, refused, cut>>
    BY <1>1 DEF Grows, SuccessorChanges, ManualBootstrap, Upkeep, MemoryMoves, signalVars
  <2> QED
    BY <2>1, ItemsStay
<1>2. CASE DayPasses
  BY <1>2, DaysPass
<1>3. CASE Scan
  BY <1>3, Scanning
<1>4. ASSUME NEW b \in Bands, ExpireAlert(b) PROVE SignalInv'
  <2>1. /\ note[b].status = "open" /\ note' = [note EXCEPT ![b].status = "expired"]
        /\ UNCHANGED <<family, adopter, taken, refused, cut, memory>>
    BY <1>4 DEF ExpireAlert, Expires
  <2> QED
    BY <2>1, ItemEnds
<1>5. ASSUME NEW b \in Bands, Dismiss(b) PROVE SignalInv'
  <2>1. /\ note[b].status = "open" /\ note' = [note EXCEPT ![b].status = "dismissed"]
        /\ UNCHANGED <<family, adopter, taken, refused, cut, memory>>
    BY <1>5 DEF Dismiss, Resolves
  <2> QED
    BY <2>1, ItemEnds
<1>6. ASSUME NEW k \in Adoptions, TakeIn(k) \/ AdopterDies(k) PROVE SignalInv'
  BY <1>6, AdoptionEnds
<1>7. ASSUME NEW k \in Adoptions, NEW b \in Bands, Adopt(k, b) PROVE SignalInv'
  BY <1>7, Adopting
<1> QED
  BY <1>1, <1>2, <1>3, <1>4, <1>5, <1>6, <1>7 DEF SignalNext, Adoptions

LEMMA OneKindIsOneJob == SignalInv => OneJobPerProposal
<1> SUFFICES ASSUME SignalInv, NEW b \in Bands
             PROVE  LET of == {k \in {"feature", "task"} : <<k, b>> \in taken \/ adopter[k] = b}
                    IN Cardinality(of) <= 1 /\ (of # {} => note[b].status = "adopted")
  BY DEF OneJobPerProposal
<1> DEFINE of == {k \in {"feature", "task"} : <<k, b>> \in taken \/ adopter[k] = b}
<1>1. \A k \in of : Holds(k, b) /\ k \in Adoptions
  BY DEF Holds, Adoptions
<1>2. of # {} => note[b].status = "adopted"
  BY <1>1 DEF SignalInv, OneKind
<1>3. of = {} \/ of = {"feature"} \/ of = {"task"}
  <2>1. ~("feature" \in of /\ "task" \in of)
    BY <1>1 DEF SignalInv, OneKind
  <2>2. of \subseteq {"feature", "task"}
    OBVIOUS
  <2> HIDE DEF of
  <2> QED
    BY <2>1, <2>2
<1>4. Cardinality(of) <= 1
  <2>1. Cardinality({}) = 0
    BY FS_EmptySet
  <2>2. Cardinality({"feature"}) = 1 /\ Cardinality({"task"}) = 1
    BY FS_Singleton
  <2> HIDE DEF of
  <2> QED
    BY <1>3, <2>1, <2>2
<1> QED
  BY <1>2, <1>4

\* THEOREM.  A proposal is made once in its window, however the count of what was
\* seen wavers between bands; it becomes one job of one kind at most, and what was
\* adopted has its job or its error, unless a process died between the two
\* writes: for every window, threshold and width of the bands.
THEOREM ProposalsStayKept == SignalSpec => []ProposalsAreKept
<1>1. SignalInit => SignalInv
  BY SignalsStart
<1>2. SignalInv /\ [SignalNext]_signalVars => SignalInv'
  BY SignalSteps
<1>3. SignalInv => ProposalsAreKept
  BY OneKindIsOneJob DEF SignalInv, ProposalsAreKept
<1> QED
  BY <1>1, <1>2, <1>3, PTL DEF SignalSpec

\* The rest of the type invariant: what the entries, the memory job and the
\* (historical) sets range over.
RestTypes ==
    /\ rows \in [Ages -> 0 .. MaxRows]
    /\ \A b \in Bands : note[b].status = "expired" => family \notin ProposalFamilies
    /\ memory \in [status : MemoryActive \union {"none", "done", "error"}, age : 0 .. Window]
    /\ refused \union cut \subseteq Bands

LEMMA RestStarts == SignalInit => RestTypes
  BY WindowIsPositive, SignalAssumption, NoNoteIsANote DEF SignalAssumption, SignalInit, RestTypes, Ages

LEMMA RestSteps ==
    ASSUME SignalInv, RestTypes, [SignalNext]_signalVars
    PROVE  RestTypes'
<1>1. rows' \in [Ages -> 0 .. MaxRows]
  <2>0. MaxRows \in Nat /\ 0 \in Ages
    BY SignalAssumption DEF SignalAssumption, Ages
  <2>1. CASE Grows
    <3>1. rows[0] + 1 \in 0 .. MaxRows
      BY <2>0, <2>1 DEF RestTypes, Grows
    <3>2. rows' = [rows EXCEPT ![0] = rows[0] + 1]
      BY <2>1 DEF Grows
    <3> QED
      BY <3>1, <3>2 DEF RestTypes
  <2>2. CASE DayPasses
    <3>1. PICK ends \in BOOLEAN, new \in 0 .. MaxRows :
            rows' = [a \in Ages |-> IF a = 0 THEN new ELSE IF ends THEN 0 ELSE rows[a - 1]]
      BY <2>2 DEF DayPasses
    <3>2. \A a \in Ages : a # 0 => rows[a - 1] \in 0 .. MaxRows
      BY WindowIsPositive DEF RestTypes, Ages
    <3> QED
      BY <2>0, <3>1, <3>2
  <2>3. CASE MemoryMoves
    BY <2>0, <2>3 DEF MemoryMoves, RestTypes
  <2>4. CASE rows' = rows
    BY <2>4 DEF RestTypes
  <2> QED
    BY <2>1, <2>2, <2>3, <2>4 DEF SignalNext, signalVars, SuccessorChanges, Scan, ManualBootstrap,
       Upkeep, ExpireAlert, Dismiss, TakeIn, AdopterDies, Adopt
<1>2. ASSUME NEW b \in Bands, note'[b].status = "expired" PROVE family' \notin ProposalFamilies
  <2>1. family' = family
    BY DEF SignalNext, signalVars, Grows, DayPasses, SuccessorChanges, Scan, ManualBootstrap,
       Upkeep, MemoryMoves, ExpireAlert, Dismiss, TakeIn, AdopterDies, Adopt
  <2>2. CASE \E c \in Bands : ExpireAlert(c)
    BY <2>1, <2>2 DEF ExpireAlert, Expires
  <2>3. CASE note[b].status = "expired"
    BY <2>1, <2>3 DEF RestTypes
  <2>4. CASE DayPasses
    BY <1>2, <2>3, <2>4, NoNoteIsANote DEF DayPasses
  <2>5. CASE Scan
    <3>1. PICK band : band = Band
      OBVIOUS
    <3>2. note' = [note EXCEPT ![band] = [status |-> "open", age |-> 0]]
      BY <2>5, <3>1 DEF Scan
    <3> QED
      BY <1>2, <2>3, <3>2 DEF SignalInv, SignalTypes
  <2>6. CASE \E c \in Bands, k \in Adoptions : Adopt(k, c)
    BY <1>2, <2>3, <2>6 DEF Adopt, SignalInv, SignalTypes, Notes
  <2>7. CASE \E c \in Bands : Dismiss(c)
    BY <1>2, <2>3, <2>7 DEF Dismiss, SignalInv, SignalTypes, Notes
  <2>8. CASE note' = note
    BY <1>2, <2>3, <2>8
  <2> QED
    BY <2>2, <2>4, <2>5, <2>6, <2>7, <2>8 DEF SignalNext, signalVars, Grows, SuccessorChanges,
       ManualBootstrap, Upkeep, MemoryMoves, TakeIn, AdopterDies, Adoptions
<1>3. memory' \in [status : MemoryActive \union {"none", "done", "error"}, age : 0 .. Window]
  <2> DEFINE Jobs == [status : MemoryActive \union {"none", "done", "error"}, age : 0 .. Window]
  <2>1. \A s \in MemoryActive \union {"none", "done", "error"} : [status |-> s, age |-> 0] \in Jobs
    BY WindowIsPositive
  <2>2. CASE DayPasses
    <3>1. memory' = [memory EXCEPT !.age = Older(memory.age)]
      BY <2>2 DEF DayPasses
    <3>2. Older(memory.age) \in 0 .. Window
      BY WindowIsPositive DEF RestTypes, Older
    <3> QED
      BY <3>1, <3>2 DEF RestTypes
  <2>3. CASE MemoryMoves \/ BootstrapMemory
    <3>1. \E s \in MemoryActive \union {"none", "done", "error"} : memory' = [status |-> s, age |-> 0]
      BY <2>3 DEF MemoryMoves, BootstrapMemory, MemoryActive
    <3> QED
      BY <2>1, <3>1
  <2>4. CASE memory' = memory
    BY <2>4 DEF RestTypes
  <2> QED
    BY <2>2, <2>3, <2>4 DEF SignalNext, signalVars, Grows, SuccessorChanges, Scan, ManualBootstrap,
       Upkeep, ExpireAlert, Dismiss, TakeIn, AdopterDies, Adopt
<1>4. refused' \union cut' \subseteq Bands
  <2>1. CASE \E k \in Adoptions : TakeIn(k) \/ AdopterDies(k)
    BY <2>1 DEF TakeIn, AdopterDies, RecordsError, RestTypes, SignalInv, SignalTypes
  <2>2. CASE refused' = refused /\ cut' = cut
    BY <2>2 DEF RestTypes
  <2> QED
    BY <2>1, <2>2 DEF SignalNext, signalVars, Grows, DayPasses, SuccessorChanges, Scan,
       ManualBootstrap, Upkeep, MemoryMoves, ExpireAlert, Dismiss, Adopt, Adoptions
<1> QED
  BY <1>1, <1>2, <1>3, <1>4 DEF RestTypes

\* THEOREM.  What the scanning routines keep has its type: only alerts expire,
\* proposals wait for a human.
THEOREM SignalTypesHold == SignalSpec => []SignalTypeOK
<1> DEFINE Both == SignalInv /\ RestTypes
<1>1. SignalInit => Both
  BY SignalsStart, RestStarts
<1>2. Both /\ [SignalNext]_signalVars => Both'
  BY SignalSteps, RestSteps
<1>3. Both => SignalTypeOK
  BY DEF SignalInv, SignalTypes, RestTypes, SignalTypeOK, Adoptions, Notes
<1> QED
  BY <1>1, <1>2, <1>3, PTL DEF SignalSpec

-----------------------------------------------------------------------------
(* Escalation: the nudges of a gate that waits.                             *)

Places == {"idle", "read", "nudging", "nudged", "telling", "told"}
SweepPasses == [pc : Places, run : SlaGates \union {0}, waited : 0 .. 3]

LadderTypes ==
    /\ slaGate \in SlaGates \union {0} /\ slaWaits \in BOOLEAN /\ (slaWaits => slaGate # 0)
    /\ age \in [SlaGates -> 0 .. 3] /\ steps \subseteq Steps \X SlaGates
    /\ sends \in [Steps \X SlaGates -> Nat]
    /\ sweep \in [Sweepers -> SweepPasses]

\* What is not stored was never sent, and nothing is sent twice.
SentIsStored ==
    \A x \in Steps \X SlaGates : sends[x] <= 1 /\ (x \notin steps => sends[x] = 0)

\* A sweep follows a gate that was posted, timed by an age it had; past the
\* first step the nudge is stored.
SweepIsReal(s) ==
    sweep[s].pc # "idle" =>
        /\ sweep[s].run \in SlaGates /\ sweep[s].waited <= age[sweep[s].run]
        /\ sweep[s].pc # "read" => <<1, sweep[s].run>> \in steps
        /\ sweep[s].pc = "telling" => Addressee(dri) # NoPerson

\* The step a sweep has stored and not sent yet is its own: nobody sent it,
\* and no other sweep is about to.
Sending(s, k, r) == sweep[s].run = r /\ sweep[s].pc = (IF k = 1 THEN "nudging" ELSE "telling")
OwnStep ==
    \A s \in Sweepers, k \in 1 .. 2, r \in SlaGates :
        Sending(s, k, r) =>
            /\ <<k, r>> \in steps /\ sends[<<k, r>>] = 0
            /\ \A t \in Sweepers : Sending(t, k, r) => t = s

\* The first step is below the others, and the last one takes the full age.
InOrder ==
    \A r \in SlaGates : /\ <<2, r>> \in steps \/ <<3, r>> \in steps => <<1, r>> \in steps
                        /\ <<3, r>> \in steps => age[r] = 3

LadderInv == LadderTypes /\ SentIsStored /\ (\A s \in Sweepers : SweepIsReal(s)) /\ OwnStep /\ InOrder

-----------------------------------------------------------------------------

LEMMA LadderInit == SlaInit => LadderInv
<1> SUFFICES ASSUME SlaInit PROVE LadderInv
  OBVIOUS
<1>0. NoSweep \in SweepPasses
  BY DEF NoSweep, SweepPasses, Places
<1>1. LadderTypes
  <2>1. age \in [SlaGates -> 0 .. 3] /\ steps \subseteq Steps \X SlaGates
    BY DEF SlaInit
  <2>2. sends \in [Steps \X SlaGates -> Nat]
    BY DEF SlaInit
  <2>3. sweep \in [Sweepers -> SweepPasses]
    BY <1>0 DEF SlaInit
  <2> QED
    BY <2>1, <2>2, <2>3 DEF SlaInit, LadderTypes
<1>2. SentIsStored /\ InOrder
  BY DEF SlaInit, SentIsStored, InOrder
<1>3. \A s \in Sweepers : sweep[s].pc = "idle"
  BY DEF SlaInit, NoSweep
<1> QED
  BY <1>1, <1>2, <1>3 DEF LadderInv, SweepIsReal, OwnStep, Sending

\* The gate, its answer and the time leave the ladder alone.
LEMMA GateSteps ==
    ASSUME LadderInv, Park \/ Answer \/ RungPasses
    PROVE  LadderInv'
<1>1. UNCHANGED <<dri, steps, sends, sweep>>
  BY DEF Park, Answer, RungPasses
<1>2. LadderTypes'
  <2>1. CASE Park
    BY <1>1, <2>1, SlaAssumption DEF SlaAssumption, LadderInv, LadderTypes, Park
  <2>2. CASE Answer
    BY <1>1, <2>2 DEF LadderInv, LadderTypes, Answer
  <2>3. CASE RungPasses
    BY <1>1, <2>3 DEF LadderInv, LadderTypes, RungPasses
  <2> QED
    BY <2>1, <2>2, <2>3
<1>3. \A r \in SlaGates : age[r] <= age'[r]
  BY DEF LadderInv, LadderTypes, Park, Answer, RungPasses
<1>4. SentIsStored' /\ OwnStep'
  BY <1>1 DEF LadderInv, SentIsStored, OwnStep, Sending
<1>5. \A s \in Sweepers : SweepIsReal(s)'
  BY <1>1, <1>2, <1>3 DEF LadderInv, LadderTypes, SweepIsReal, SweepPasses
<1>6. \A r \in SlaGates : age[r] = 3 => age'[r] = 3
  BY <1>2, <1>3 DEF LadderInv, LadderTypes
<1>7. InOrder'
  BY <1>1, <1>6 DEF LadderInv, InOrder
<1> QED
  BY <1>2, <1>4, <1>5, <1>7 DEF LadderInv

\* A sweep that goes on to place p of the same gate.
LEMMA GoesOn ==
    ASSUME LadderInv, NEW s \in Sweepers, NEW p \in Places, Goes(s, p)
    PROVE  /\ sweep' \in [Sweepers -> SweepPasses]
           /\ sweep'[s].pc = p /\ sweep'[s].run = sweep[s].run /\ sweep'[s].waited = sweep[s].waited
           /\ \A t \in Sweepers : t # s => sweep'[t] = sweep[t]
<1>1. ASSUME NEW q \in SweepPasses
      PROVE  /\ [q EXCEPT !.pc = p] \in SweepPasses
             /\ [q EXCEPT !.pc = p].pc = p
             /\ [q EXCEPT !.pc = p].run = q.run /\ [q EXCEPT !.pc = p].waited = q.waited
  BY DEF SweepPasses
<1>2. sweep \in [Sweepers -> SweepPasses] /\ sweep' = [sweep EXCEPT ![s] = [sweep[s] EXCEPT !.pc = p]]
  BY DEF LadderInv, LadderTypes, Goes
<1> QED
  BY <1>1, <1>2

\* A sweep that ends or dies, or that begins, sends and stores nothing.
LEMMA QuietSteps ==
    ASSUME LadderInv, NEW s \in Sweepers, UNCHANGED <<slaGate, slaWaits, age, dri, steps, sends>>,
           NEW q \in SweepPasses, sweep' = [sweep EXCEPT ![s] = q],
           \/ q.pc = "idle"
           \/ /\ q.pc = "read" /\ q.run \in SlaGates /\ q.waited <= age[q.run]
    PROVE  LadderInv'
<1>1. /\ sweep' \in [Sweepers -> SweepPasses] /\ sweep'[s] = q
      /\ \A t \in Sweepers : t # s => sweep'[t] = sweep[t]
  BY DEF LadderInv, LadderTypes
<1>2. LadderTypes' /\ SentIsStored' /\ InOrder'
  BY <1>1 DEF LadderInv, LadderTypes, SentIsStored, InOrder
<1>3. ASSUME NEW t \in Sweepers PROVE SweepIsReal(t)'
  BY <1>1 DEF LadderInv, SweepIsReal
<1>4. ASSUME NEW t \in Sweepers, NEW k \in 1 .. 2, NEW r \in SlaGates, Sending(t, k, r)'
      PROVE  t # s /\ Sending(t, k, r)
  BY <1>1, <1>4 DEF Sending
<1>5. OwnStep'
  BY <1>4 DEF LadderInv, OwnStep
<1> QED
  BY <1>2, <1>3, <1>5 DEF LadderInv

\* A step is stored and its sender goes to send it.
LEMMA Stores ==
    ASSUME LadderInv, NEW s \in Sweepers, NEW k \in 1 .. 2,
           UNCHANGED <<slaGate, slaWaits, age, dri, sends>>,
           StoresStep(k, sweep[s].run), steps' = StepStored(k, sweep[s].run),
           Goes(s, IF k = 1 THEN "nudging" ELSE "telling"),
           sweep[s].pc = (IF k = 1 THEN "read" ELSE "nudged"),
           k = 2 => Addressee(dri) # NoPerson
    PROVE  LadderInv'
<1> DEFINE g == sweep[s].run
<1>1. /\ sweep' \in [Sweepers -> SweepPasses]
      /\ sweep'[s].pc = (IF k = 1 THEN "nudging" ELSE "telling")
      /\ sweep'[s].run = g /\ sweep'[s].waited = sweep[s].waited
      /\ \A t \in Sweepers : t # s => sweep'[t] = sweep[t]
  BY GoesOn DEF Places
<1>2. g \in SlaGates /\ sweep[s].waited <= age[g] /\ (k = 2 => <<1, g>> \in steps)
  BY DEF LadderInv, SweepIsReal
<1>3. <<k, g>> \in Steps \X SlaGates /\ <<k, g>> \notin steps /\ steps' = steps \union {<<k, g>>}
  BY <1>2 DEF StoresStep, StepStored, Ref, Steps
<1>4. LadderTypes' /\ SentIsStored'
  BY <1>1, <1>3 DEF LadderInv, LadderTypes, SentIsStored
<1>5. InOrder'
  <2>1. /\ \A r \in SlaGates : <<3, r>> \in steps' => <<3, r>> \in steps
        /\ \A r \in SlaGates : <<2, r>> \in steps' => <<2, r>> \in steps \/ (k = 2 /\ r = g)
    BY <1>3
  <2>2. \A r \in SlaGates : <<1, r>> \in steps => <<1, r>> \in steps'
    BY <1>3
  <2> QED
    BY <1>2, <2>1, <2>2 DEF LadderInv, InOrder
<1>6. ASSUME NEW t \in Sweepers PROVE SweepIsReal(t)'
  <2>1. CASE t = s
    BY <1>1, <1>2, <1>3, <2>1 DEF SweepIsReal
  <2>2. CASE t # s
    BY <1>1, <1>3, <2>2 DEF LadderInv, SweepIsReal
  <2> QED
    BY <2>1, <2>2
<1>7. ASSUME NEW t \in Sweepers, NEW j \in 1 .. 2, NEW r \in SlaGates
      PROVE  Sending(t, j, r)' <=> (t = s /\ j = k /\ r = g) \/ (t # s /\ Sending(t, j, r))
  BY <1>1 DEF Sending
<1>8. sends[<<k, g>>] = 0 /\ \A t \in Sweepers : ~Sending(t, k, g)
  BY <1>2, <1>3 DEF LadderInv, SentIsStored, OwnStep
<1>9. OwnStep'
  BY <1>3, <1>7, <1>8 DEF LadderInv, OwnStep
<1> QED
  BY <1>4, <1>5, <1>6, <1>9 DEF LadderInv

\* The send of a stored step.
LEMMA SendsIt ==
    ASSUME LadderInv, NEW s \in Sweepers, NEW k \in 1 .. 2,
           UNCHANGED <<slaGate, slaWaits, age, dri, steps>>,
           Sends(k, sweep[s].run), Goes(s, IF k = 1 THEN "nudged" ELSE "told"),
           sweep[s].pc = (IF k = 1 THEN "nudging" ELSE "telling")
    PROVE  LadderInv'
<1> DEFINE g == sweep[s].run
<1>1. /\ sweep' \in [Sweepers -> SweepPasses]
      /\ sweep'[s].pc = (IF k = 1 THEN "nudged" ELSE "told")
      /\ sweep'[s].run = g /\ sweep'[s].waited = sweep[s].waited
      /\ \A t \in Sweepers : t # s => sweep'[t] = sweep[t]
  BY GoesOn DEF Places
<1>2. g \in SlaGates /\ sweep[s].waited <= age[g] /\ <<1, g>> \in steps
  BY DEF LadderInv, SweepIsReal
<1>3. /\ Sending(s, k, g) /\ <<k, g>> \in steps /\ sends[<<k, g>>] = 0
      /\ \A t \in Sweepers : Sending(t, k, g) => t = s
  BY <1>2 DEF LadderInv, OwnStep, Sending
<1>4. /\ sends' \in [Steps \X SlaGates -> Nat] /\ sends'[<<k, g>>] = 1
      /\ \A x \in Steps \X SlaGates : x # <<k, g>> => sends'[x] = sends[x]
  BY <1>2, <1>3 DEF LadderInv, LadderTypes, Sends, Steps
<1>5. LadderTypes' /\ SentIsStored' /\ InOrder'
  <2>1. LadderTypes'
    BY <1>1, <1>4 DEF LadderInv, LadderTypes
  <2>2. SentIsStored'
    BY <1>3, <1>4 DEF LadderInv, SentIsStored
  <2>3. InOrder'
    BY DEF LadderInv, InOrder
  <2> QED
    BY <2>1, <2>2, <2>3
<1>6. ASSUME NEW t \in Sweepers PROVE SweepIsReal(t)'
  <2>1. CASE t = s
    BY <1>1, <1>2, <2>1 DEF SweepIsReal
  <2>2. CASE t # s
    BY <1>1, <2>2 DEF LadderInv, SweepIsReal
  <2> QED
    BY <2>1, <2>2
<1>7. ASSUME NEW t \in Sweepers, NEW j \in 1 .. 2, NEW r \in SlaGates
      PROVE  Sending(t, j, r)' <=> t # s /\ Sending(t, j, r)
  BY <1>1 DEF Sending
<1>8. ASSUME NEW t \in Sweepers, NEW j \in 1 .. 2, NEW r \in SlaGates, Sending(t, j, r)'
      PROVE  <<j, r>> \in steps' /\ sends'[<<j, r>>] = 0
  <2>1. t # s /\ Sending(t, j, r)
    BY <1>7, <1>8
  <2>2. <<j, r>> # <<k, g>>
    BY <1>3, <2>1
  <2> QED
    BY <1>4, <2>1, <2>2 DEF LadderInv, OwnStep, Steps
<1>9. OwnStep'
  BY <1>7, <1>8 DEF LadderInv, OwnStep
<1> QED
  BY <1>5, <1>6, <1>9 DEF LadderInv

\* A sweep passes a step by without storing or sending.
LEMMA PassesBy ==
    ASSUME LadderInv, NEW s \in Sweepers, NEW p \in {"nudged", "told"},
           UNCHANGED <<slaGate, slaWaits, age, dri, steps, sends>>,
           Goes(s, p), sweep[s].pc # "idle", <<1, sweep[s].run>> \in steps
    PROVE  LadderInv'
<1>1. /\ sweep' \in [Sweepers -> SweepPasses] /\ sweep'[s].pc = p
      /\ sweep'[s].run = sweep[s].run /\ sweep'[s].waited = sweep[s].waited
      /\ \A t \in Sweepers : t # s => sweep'[t] = sweep[t]
  BY GoesOn DEF Places
<1>2. LadderTypes' /\ SentIsStored' /\ InOrder'
  BY <1>1 DEF LadderInv, LadderTypes, SentIsStored, InOrder
<1>3. ASSUME NEW t \in Sweepers PROVE SweepIsReal(t)'
  BY <1>1 DEF LadderInv, SweepIsReal
<1>4. ASSUME NEW t \in Sweepers, NEW k \in 1 .. 2, NEW r \in SlaGates, Sending(t, k, r)'
      PROVE  Sending(t, k, r)
  BY <1>1, <1>4 DEF Sending
<1>5. OwnStep'
  BY <1>4 DEF LadderInv, OwnStep
<1> QED
  BY <1>2, <1>3, <1>5 DEF LadderInv

\* The last step, which sends nothing, and the end of the sweep.
LEMMA Flags ==
    ASSUME LadderInv, NEW s \in Sweepers, Flag(s)
    PROVE  LadderInv'
<1> DEFINE g == sweep[s].run
<1>1. NoSweep \in SweepPasses /\ NoSweep.pc = "idle"
  BY DEF NoSweep, SweepPasses, Places
<1>2. CASE steps' = steps
  BY <1>1, <1>2, QuietSteps DEF Flag
<1>3. CASE FlagsAtTwice(s) /\ steps' = StepStored(3, g)
  <2>1. /\ sweep' \in [Sweepers -> SweepPasses] /\ sweep'[s].pc = "idle"
        /\ \A t \in Sweepers : t # s => sweep'[t] = sweep[t]
    BY <1>1 DEF LadderInv, LadderTypes, Flag
  <2>2. /\ g \in SlaGates /\ <<1, g>> \in steps
        /\ sweep[s].waited = 3 /\ sweep[s].waited <= age[g]
    <3>1. sweep[s].waited \in 0 .. 3
      BY DEF LadderInv, LadderTypes, SweepPasses
    <3> QED
      BY <1>3, <3>1 DEF LadderInv, SweepIsReal, Flag, FlagsAtTwice
  <2>3. age[g] = 3
    BY <2>2 DEF LadderInv, LadderTypes
  <2>4. steps' = steps \union {<<3, g>>} /\ <<3, g>> \in Steps \X SlaGates
    BY <1>3, <2>2 DEF StepStored, Ref, Steps
  <2>5. LadderTypes' /\ SentIsStored'
    BY <2>1, <2>4 DEF LadderInv, LadderTypes, SentIsStored, Flag
  <2>6. InOrder'
    BY <2>2, <2>3, <2>4 DEF LadderInv, InOrder, Flag
  <2>7. ASSUME NEW t \in Sweepers PROVE SweepIsReal(t)'
    BY <2>1, <2>4 DEF LadderInv, SweepIsReal, Flag
  <2>8. ASSUME NEW t \in Sweepers, NEW k \in 1 .. 2, NEW r \in SlaGates, Sending(t, k, r)'
        PROVE  Sending(t, k, r)
    BY <2>1, <2>8 DEF Sending
  <2>9. OwnStep'
    BY <2>4, <2>8 DEF LadderInv, OwnStep, Flag
  <2> QED
    BY <2>5, <2>6, <2>7, <2>9 DEF LadderInv
<1> QED
  BY <1>2, <1>3 DEF Flag

LEMMA LadderStep == LadderInv /\ [SlaNext]_slaVars => LadderInv'
<1> SUFFICES ASSUME LadderInv, [SlaNext]_slaVars PROVE LadderInv'
  OBVIOUS
<1>1. CASE UNCHANGED slaVars
  BY <1>1 DEF slaVars, LadderInv, LadderTypes, SentIsStored, SweepIsReal, OwnStep, Sending, InOrder
<1>2. CASE Park \/ Answer \/ RungPasses
  BY <1>2, GateSteps
<1>3. ASSUME NEW s \in Sweepers, ReadRow(s) PROVE LadderInv'
  <2> DEFINE q == [pc |-> "read", run |-> LatestPosted, waited |-> age[LatestPosted]]
  <2>1. slaGate \in SlaGates
    BY <1>3 DEF LadderInv, LadderTypes, ReadRow
  <2>2. q \in SweepPasses /\ q.pc = "read" /\ q.run \in SlaGates /\ q.waited <= age[q.run]
    BY <2>1 DEF LadderInv, LadderTypes, LatestPosted, SweepPasses, Places
  <2> QED
    BY <1>3, <2>2, QuietSteps DEF ReadRow
<1>4. ASSUME NEW s \in Sweepers, sweep' = [sweep EXCEPT ![s] = NoSweep],
             UNCHANGED <<slaGate, slaWaits, age, dri, steps, sends>>
      PROVE  LadderInv'
  <2>1. NoSweep \in SweepPasses /\ NoSweep.pc = "idle"
    BY DEF NoSweep, SweepPasses, Places
  <2> QED
    BY <1>4, <2>1, QuietSteps
<1>5. ASSUME NEW s \in Sweepers, Nudge(s) PROVE LadderInv'
  <2>1. CASE Overdue(s) /\ StoresStep(1, sweep[s].run)
    BY <1>5, <2>1, Stores DEF Nudge
  <2>2. CASE Overdue(s) /\ ~StoresStep(1, sweep[s].run)
    BY <1>5, <2>2, PassesBy DEF Nudge, StoresStep, Ref
  <2>3. CASE ~Overdue(s)
    BY <1>4, <1>5, <2>3 DEF Nudge
  <2> QED
    BY <2>1, <2>2, <2>3
<1>6. ASSUME NEW s \in Sweepers, Tell(s) PROVE LadderInv'
  <2>1. CASE TellsSecond(s) /\ StoresStep(2, sweep[s].run)
    BY <1>6, <2>1, Stores DEF Tell, TellsSecond
  <2>2. CASE ~(TellsSecond(s) /\ StoresStep(2, sweep[s].run))
    <3>1. <<1, sweep[s].run>> \in steps /\ sweep[s].pc # "idle"
      BY <1>6 DEF Tell, LadderInv, SweepIsReal
    <3> QED
      BY <1>6, <2>2, <3>1, PassesBy DEF Tell
  <2> QED
    BY <2>1, <2>2
<1>7. ASSUME NEW s \in Sweepers, SendNudge(s) \/ SendTell(s) PROVE LadderInv'
  BY <1>7, SendsIt DEF SendNudge, SendTell
<1>8. ASSUME NEW s \in Sweepers, SweeperDies(s) PROVE LadderInv'
  BY <1>4, <1>8 DEF SweeperDies
<1> QED
  BY <1>1, <1>2, <1>3, <1>5, <1>6, <1>7, <1>8, Flags DEF SlaNext, SweepStep

\* THEOREM.  However many processes sweep the gates at once, and wherever they
\* die, a step of the ladder is sent at most once and only when it is stored, the
\* reminder comes before the rest, and the owner of a gate is not told as
\* somebody else's second (worker._sla_once, _sla_escalate, roles.gate_owner).
THEOREM LadderStaysSound == SlaSpec => []LadderIsSound
<1>1. SlaInit => LadderInv
  BY LadderInit
<1>2. LadderInv /\ [SlaNext]_slaVars => LadderInv'
  BY LadderStep
<1>3. LadderInv => LadderIsSound
  <2> SUFFICES ASSUME LadderInv PROVE LadderOnceInOrder /\ OwnerIsNotSecond
    BY DEF LadderIsSound
  <2>1. LadderOnceInOrder
    <3>1. \A x \in Steps \X SlaGates : sends[x] <= 1 /\ (sends[x] = 1 => x \in steps)
      BY DEF LadderInv, SentIsStored
    <3>2. \A r \in SlaGates : /\ <<2, r>> \in steps \/ <<3, r>> \in steps => <<1, r>> \in steps
                              /\ <<3, r>> \in steps => age[r] = 3
      BY DEF LadderInv, InOrder
    <3> QED
      BY <3>1, <3>2 DEF LadderOnceInOrder
  <2>2. OwnerIsNotSecond
    BY DEF LadderInv, SweepIsReal, OwnerIsNotSecond, Addressee
  <2> QED
    BY <2>1, <2>2
<1> QED
  BY <1>1, <1>2, <1>3, PTL DEF SlaSpec

\* What the ladder's proof does not need: the columns stay, and a sweep follows a
\* gate that was posted.
SweepsArePosted ==
    /\ dri \in Assignments /\ eleft \in Nat
    /\ \A s \in Sweepers : sweep[s].pc # "idle" => sweep[s].run \in 1 .. slaGate

LEMMA SweepsStep ==
    ASSUME LadderTypes, SweepsArePosted, [SlaNext]_slaVars
    PROVE  SweepsArePosted'
<1> USE SlaAssumption DEF SlaAssumption, SweepsArePosted
<1>0. /\ slaGate \in Nat /\ sweep \in [Sweepers -> SweepPasses] /\ (slaWaits => slaGate \in 1 .. slaGate)
  BY DEF LadderTypes
<1>1. ASSUME NEW s \in Sweepers, SweepStep(s) \/ ReadRow(s) \/ SweeperDies(s) PROVE SweepsArePosted'
  <2>1. UNCHANGED <<slaGate, dri>> /\ eleft' \in Nat
    BY <1>1 DEF SweepStep, Nudge, SendNudge, Tell, SendTell, Flag, ReadRow, SweeperDies
  <2>2. \A t \in Sweepers : t # s => sweep'[t] = sweep[t]
    BY <1>0, <1>1 DEF SweepStep, Nudge, SendNudge, Tell, SendTell, Flag, ReadRow, SweeperDies, Goes
  <2>3. sweep'[s].pc # "idle" => sweep'[s].run \in 1 .. slaGate
    BY <1>0, <1>1 DEF SweepStep, Nudge, SendNudge, Tell, SendTell, Flag, ReadRow, SweeperDies, Goes, NoSweep,
       LatestPosted, SweepPasses
  <2> QED
    BY <2>1, <2>2, <2>3
<1>2. CASE Park \/ Answer \/ RungPasses \/ UNCHANGED slaVars
  BY <1>0, <1>2 DEF Park, Answer, RungPasses, slaVars
<1> QED
  BY <1>1, <1>2 DEF SlaNext

\* THEOREM.  A sweep follows a gate that was posted, and ages and columns stay within
\* their ranges, with any number of sweeping processes (Worker._sla_once).
THEOREM SlaTypesHold == SlaSpec => []SlaTypeOK
<1>1. SlaInit => SweepsArePosted
  BY SlaAssumption DEF SlaAssumption, SlaInit, SweepsArePosted, NoSweep
<1>2. LadderInv /\ SweepsArePosted /\ [SlaNext]_slaVars => (LadderInv /\ SweepsArePosted)'
  BY LadderStep, SweepsStep DEF LadderInv
<1>3. LadderInv /\ SweepsArePosted => SlaTypeOK
  BY DEF LadderInv, LadderTypes, SweepsArePosted, SlaTypeOK
<1> QED
  BY <1>1, <1>2, <1>3, LadderInit, PTL DEF SlaSpec

-----------------------------------------------------------------------------
(* The loops, composed.                                                    *)

\* A step of the composition is a step of the loop that is followed, and the others
\* stand still.
LEMMA LoopsStep ==
    [LoopsNext]_loopVars =>
        /\ [WatchNext]_watchVars /\ [ReviewNext]_reviewVars /\ [SchedNext]_schedVars
        /\ [DigestNext]_digestVars /\ [SignalNext]_signalVars /\ [SlaNext]_slaVars
        /\ focus' = focus
  BY DEF LoopsNext, loopVars

\* THEOREM.  Composed, each loop behaves as it does alone, whichever is followed: what
\* is proved of one holds in the composition.
THEOREM LoopsCompose ==
    LoopsSpec => /\ WatchSpec /\ ReviewSpec /\ SchedSpec
                 /\ DigestSpec /\ SignalSpec /\ SlaSpec
<1>1. LoopsInit => /\ WatchInit /\ ReviewInit /\ SchedInit
                   /\ DigestInit /\ SignalInit /\ SlaInit
  BY DEF LoopsInit
<1> QED
  BY <1>1, LoopsStep, PTL
  DEF LoopsSpec, WatchSpec, ReviewSpec, SchedSpec, DigestSpec, SignalSpec, SlaSpec

\* THEOREM.  The state of the loop that is followed has its types.
THEOREM LoopsTypesHold == LoopsSpec => []LoopsTypeOK
<1> DEFINE Focused == focus \in {"watch", "review", "routines", "digest", "signals", "ladder"}
<1>1. LoopsInit => Focused
  BY DEF LoopsInit
<1>2. Focused /\ [LoopsNext]_loopVars => Focused'
  BY LoopsStep
<1>3. LoopsSpec => []Focused
  <2> HIDE DEF Focused
  <2> QED
    BY <1>1, <1>2, PTL DEF LoopsSpec
<1>4. Focused /\ WatchTypeOK /\ ReviewTypeOK /\ SchedTypeOK /\ DigestTypeOK /\ SignalTypeOK /\ SlaTypeOK
        => LoopsTypeOK
  BY DEF LoopsTypeOK
<1> HIDE DEF Focused
<1> QED
  BY <1>3, <1>4, LoopsCompose, WatchTypesHold, ReviewTypes, SchedTypesHold, DigestTypesHold,
     SignalTypesHold, SlaTypesHold, PTL
=============================================================================
