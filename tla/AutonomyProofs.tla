--------------------------- MODULE AutonomyProofs ---------------------------
(***************************************************************************)
(* What holds of Autonomy for any rung, window, number of runs a level takes, *)
(* number of scorers and disturbances: trust is earned after the last brake,  *)
(* a person stands behind the top of it, and it is used with a licence only.  *)
(***************************************************************************)
EXTENDS Autonomy, FiniteSetTheorems, TLAPS

\* The runs since a moment that a pass may judge, and those a person answered.
JudgedSince(t) == {r \in RunIds : Judged(r) /\ runs[r].started > t}
AnsweredSince(t) == {r \in RunIds : runs[r].gate \in {"proceed", "redo"} /\ runs[r].started >= t}

\* A run that began has begun at a time, now or before.
RunsOK ==
    /\ clock \in Nat \ {0}
    /\ runs \in [RunIds -> [started : Nat, status : RunStatuses, gate : GateActions]]
    /\ \A r \in RunIds : runs[r].status # "none" => runs[r].started > 0
    /\ \A r \in RunIds : runs[r].status \in {"none", "open"} => runs[r].gate = "-"

CellOK ==
    /\ cell \in [stored : BOOLEAN, level : Nat, clawedAt : Nat]
    /\ cell.clawedAt <= clock /\ basis \in Nat
    /\ cell.level > 0 => Cardinality(JudgedSince(cell.clawedAt)) >= MinRuns
    /\ cell.level = 3 => AnsweredSince(basis - ScoreWindow) # {}

Passes == [pc : {"idle", "score"}, began : Nat, known : BOOLEAN, level : Nat]

\* What a pass has computed will be right when it is applied.
PassOK(p) ==
    p.pc = "score" =>
        /\ p.began <= clock
        /\ p.level > 0 /\ (cell.clawedAt = 0 \/ cell.clawedAt < p.began) =>
              Cardinality(JudgedSince(cell.clawedAt)) >= MinRuns
        /\ p.level = 3 => AnsweredSince(p.began - ScoreWindow) # {}

ScoringOK == scoring \in [Scorers -> Passes] /\ \A s \in Scorers : PassOK(scoring[s])

TrustInv == RunsOK /\ CellOK /\ ScoringOK

\* What the action property says of a step.
Licensed ==
    \A r \in RunIds : runs'[r].gate = "auto" /\ runs[r].gate # "auto" =>
        /\ pin # "always_gate"
        /\ \/ pin = "always_auto"
           \/ r \in LightRuns /\ LightStage
           \/ AutoLevel > 0 /\ Cardinality({q \in RunIds : Judged(q) /\ runs[q].started > cell.clawedAt}) >= MinRuns

-----------------------------------------------------------------------------
(* Sets of runs.                                                            *)

LEMMA RunSets ==
    ASSUME NEW S, S \subseteq RunIds
    PROVE  IsFiniteSet(S) /\ Cardinality(S) \in Nat
<1>1. IsFiniteSet(RunIds)
  BY AutonomyAssumption, FS_Interval DEF AutonomyAssumption, RunIds
<1>2. IsFiniteSet(S)
  BY <1>1, FS_Subset
<1> QED
  BY <1>2, FS_CardinalityType

LEMMA RunsMonotone ==
    ASSUME NEW S, NEW T, S \subseteq T, T \subseteq RunIds
    PROVE  Cardinality(S) >= MinRuns => Cardinality(T) >= MinRuns
<1>1. IsFiniteSet(T) /\ Cardinality(S) \in Nat /\ Cardinality(T) \in Nat
  BY RunSets
<1>2. Cardinality(S) <= Cardinality(T)
  BY <1>1, FS_Subset
<1>3. MinRuns \in Nat
  BY AutonomyAssumption DEF AutonomyAssumption
<1> QED
  BY <1>1, <1>2, <1>3

\* What the score of a pass rests on.
LEMMA ScoreRests ==
    ASSUME RunsOK, CellOK, NEW rest \in Factors
    PROVE  /\ TrustLevel(rest) \in 0 .. 3
           /\ TrustLevel(rest) > 0 => Cardinality(JudgedSince(cell.clawedAt)) >= MinRuns
           /\ TrustLevel(rest) = 3 => AnsweredSince(clock - ScoreWindow) # {}
<1>1. LevelFor(Score(rest)) \in 0 .. 3
  BY DEF LevelFor
<1>2. TrustLevel(rest) \in 0 .. 3
  BY <1>1 DEF TrustLevel
<1>3. Counted \subseteq JudgedSince(cell.clawedAt)
  <2>1. ASSUME NEW r \in Counted PROVE r \in JudgedSince(cell.clawedAt)
    <3>1. /\ r \in RunIds /\ runs[r].status \notin {"none", "open", "interrupted"}
          /\ cell.clawedAt = 0 \/ runs[r].started > cell.clawedAt
      BY DEF Counted, AfterClawback, Recent
    <3>2. runs[r].status \in {"done", "failed"} /\ runs[r].started > cell.clawedAt
      BY <3>1 DEF RunsOK, RunStatuses, CellOK
    <3> QED
      BY <3>1, <3>2 DEF JudgedSince, Judged
  <2> QED
    BY <2>1
<1>4. TrustLevel(rest) > 0 => ~(Cardinality(Counted) < MinRuns)
  BY DEF TrustLevel
<1>5. TrustLevel(rest) > 0 => Cardinality(JudgedSince(cell.clawedAt)) >= MinRuns
  <2>1. Counted \subseteq RunIds /\ JudgedSince(cell.clawedAt) \subseteq RunIds
    BY <1>3 DEF JudgedSince
  <2>2. Cardinality(Counted) \in Nat /\ MinRuns \in Nat
    BY <2>1, RunSets, AutonomyAssumption DEF AutonomyAssumption
  <2> QED
    BY <1>3, <1>4, <2>1, <2>2, RunsMonotone
<1>6. TrustLevel(rest) = 3 => AnsweredRuns # {}
  BY <1>1 DEF TrustLevel
<1>7. AnsweredRuns \subseteq AnsweredSince(clock - ScoreWindow)
  BY DEF AnsweredRuns, AnsweredSince, Counted, AfterClawback, Recent
<1> QED
  BY <1>2, <1>5, <1>6, <1>7

-----------------------------------------------------------------------------
(* Steps.                                                                   *)

\* The evidence for a level only grows.
Grows ==
    \A t \in Int : JudgedSince(t) \subseteq JudgedSince(t)' /\ AnsweredSince(t) \subseteq AnsweredSince(t)'

LEMMA EvidenceGrows ==
    ASSUME TrustInv, RunsOK', Grows, clock <= clock', UNCHANGED <<cell, basis, scoring>>
    PROVE  TrustInv'
<1>1. /\ cell.clawedAt \in Nat /\ basis - ScoreWindow \in Int /\ ScoreWindow \in Nat
      /\ \A t : JudgedSince(t)' \subseteq RunIds /\ JudgedSince(t) \subseteq RunIds
  BY AutonomyAssumption DEF AutonomyAssumption, TrustInv, CellOK, JudgedSince
<1>2. Cardinality(JudgedSince(cell.clawedAt)) >= MinRuns
        => Cardinality(JudgedSince(cell.clawedAt)') >= MinRuns
  <2>1. JudgedSince(cell.clawedAt) \subseteq JudgedSince(cell.clawedAt)'
    BY <1>1 DEF Grows, JudgedSince, Judged
  <2> QED
    BY <1>1, <2>1, RunsMonotone
<1>3. CellOK'
  BY <1>1, <1>2 DEF TrustInv, CellOK, RunsOK, Grows, AnsweredSince
<1>4. ASSUME NEW s \in Scorers PROVE PassOK(scoring[s])'
  <2>1. scoring[s].began - ScoreWindow \in Int /\ scoring[s].began \in Nat
    BY <1>1 DEF TrustInv, ScoringOK, Passes
  <2> QED
    BY <1>2, <2>1 DEF TrustInv, ScoringOK, RunsOK, PassOK, Grows, AnsweredSince
<1>5. ScoringOK'
  BY <1>4 DEF TrustInv, ScoringOK
<1> QED
  BY <1>3, <1>5 DEF TrustInv

\* A row of a run changes; what it was judged and answered stays.
LEMMA OneRunChanges ==
    ASSUME TrustInv, NEW r \in RunIds,
           NEW row \in [started : Nat, status : RunStatuses, gate : GateActions],
           runs' = [runs EXCEPT ![r] = row], clock' = clock, UNCHANGED <<cell, basis, scoring>>,
           row.status # "none" => row.started > 0,
           row.status \in {"none", "open"} => row.gate = "-",
           Judged(r) => row.status = runs[r].status /\ row.started = runs[r].started,
           runs[r].gate \in {"proceed", "redo"} => row.gate = runs[r].gate /\ row.started = runs[r].started
    PROVE  TrustInv'
<1>1. /\ runs' \in [RunIds -> [started : Nat, status : RunStatuses, gate : GateActions]]
      /\ runs'[r] = row /\ \A q \in RunIds : q # r => runs'[q] = runs[q]
  BY DEF TrustInv, RunsOK
<1>2. RunsOK'
  BY <1>1 DEF TrustInv, RunsOK
<1>3. ASSUME NEW t \in Int, NEW q \in JudgedSince(t) PROVE q \in JudgedSince(t)'
  BY <1>1 DEF JudgedSince, Judged
<1>4. ASSUME NEW t \in Int, NEW q \in AnsweredSince(t) PROVE q \in AnsweredSince(t)'
  BY <1>1 DEF AnsweredSince
<1>5. Grows
  BY <1>3, <1>4 DEF Grows
<1>6. clock <= clock'
  BY DEF TrustInv, RunsOK
<1> QED
  BY <1>2, <1>5, <1>6, EvidenceGrows

\* A step that leaves the runs alone.
LEMMA SameRuns ==
    ASSUME RunsOK, UNCHANGED runs
    PROVE  /\ Grows /\ \A t : JudgedSince(t)' = JudgedSince(t)
           /\ clock' \in Nat \ {0} => RunsOK'
  BY DEF Grows, JudgedSince, AnsweredSince, Judged, RunsOK

LEMMA RunSteps ==
    ASSUME TrustInv, NEW r \in RunIds,
           \/ RunOpens(r)
           \/ \E st \in RunStatuses, ok \in BOOLEAN : RunCloses(r, st, ok)
           \/ \E act \in GateActions : RunAnswered(r, act)
    PROVE  TrustInv'
<1>0. /\ runs[r] \in [started : Nat, status : RunStatuses, gate : GateActions] /\ clock \in Nat \ {0}
      /\ runs[r].status # "none" => runs[r].started > 0
      /\ runs[r].status \in {"none", "open"} => runs[r].gate = "-"
  BY DEF TrustInv, RunsOK
<1>1. CASE RunOpens(r)
  <2> DEFINE row == [NoRun EXCEPT !.started = clock, !.status = "open"]
  <2>1. /\ row \in [started : Nat, status : RunStatuses, gate : GateActions]
        /\ row.started = clock /\ row.status = "open" /\ row.gate = "-"
    BY <1>0 DEF NoRun, RunStatuses, GateActions
  <2>2. /\ runs' = [runs EXCEPT ![r] = row] /\ clock' = clock /\ UNCHANGED <<cell, basis, scoring>>
        /\ runs[r].status = "none"
    BY <1>1 DEF RunOpens
  <2>3. ~Judged(r) /\ runs[r].gate = "-" /\ row.started > 0
    BY <1>0, <2>1, <2>2 DEF Judged
  <2> HIDE DEF row
  <2> QED
    BY <2>1, <2>2, <2>3, OneRunChanges
<1>2. ASSUME NEW st \in RunStatuses, NEW ok \in BOOLEAN, RunCloses(r, st, ok) PROVE TrustInv'
  <2> DEFINE gate == IF st = "interrupted" THEN "-"
                     ELSE IF st = "done" /\ PassesAlone(r) /\ ok THEN "auto" ELSE "posted"
             row == [runs[r] EXCEPT !.status = st, !.gate = gate]
  <2>0. gate \in GateActions /\ st \in {"done", "failed", "interrupted"} /\ runs[r].status = "open"
    BY <1>2 DEF GateActions, RunCloses
  <2>1. /\ row \in [started : Nat, status : RunStatuses, gate : GateActions]
        /\ row.started = runs[r].started /\ row.status = st /\ row.gate = gate
    <3> HIDE DEF gate
    <3> QED BY <1>0, <2>0
  <2>2. runs' = [runs EXCEPT ![r] = row]
    BY <1>2 DEF RunCloses
  <2> HIDE DEF gate, row
  <2> QED
    BY <1>0, <1>2, <2>0, <2>1, <2>2, OneRunChanges DEF RunCloses, Judged
<1>3. ASSUME NEW act \in GateActions, RunAnswered(r, act) PROVE TrustInv'
  <2> DEFINE row == [runs[r] EXCEPT !.gate = act]
  <2>1. /\ row \in [started : Nat, status : RunStatuses, gate : GateActions]
        /\ row.started = runs[r].started /\ row.status = runs[r].status /\ row.gate = act
    BY <1>0
  <2> QED
    BY <1>0, <1>3, <2>1, OneRunChanges DEF RunAnswered, Judged
<1> QED
  BY <1>1, <1>2, <1>3

\* Time, redos, pins and the brake.
LEMMA OtherSteps ==
    ASSUME TrustInv,
           \/ TimeGoesBy \/ Clawback \/ RedoFromLater \/ UNCHANGED autonomyVars
           \/ \E to \in Pins : PinPut(to)
    PROVE  TrustInv'
<1>1. UNCHANGED <<runs, scoring, basis>> /\ clock' \in Nat \ {0} /\ clock <= clock'
  BY DEF TrustInv, RunsOK, TimeGoesBy, Clawback, RedoFromLater, PinPut, autonomyVars
<1>2. RunsOK' /\ Grows
  BY <1>1, SameRuns DEF TrustInv
<1>3. CASE UNCHANGED cell
  BY <1>1, <1>2, <1>3, EvidenceGrows
<1>4. CASE Clawback
  <2>1. /\ cell' = [stored |-> TRUE, level |-> 0, clawedAt |-> clock] /\ clock' = clock
        /\ clock \in Nat \ {0}
    BY <1>4 DEF Clawback, TrustInv, RunsOK
  <2>2. CellOK'
    BY <1>1, <2>1 DEF TrustInv, CellOK
  <2>3. ASSUME NEW s \in Scorers, scoring[s].pc = "score"
        PROVE  ~(cell'.clawedAt = 0 \/ cell'.clawedAt < scoring[s].began)
    <3>1. scoring[s].began <= clock /\ scoring[s].began \in Nat
      BY <2>3 DEF TrustInv, ScoringOK, PassOK, Passes
    <3> QED
      BY <2>1, <3>1
  <2>4. ASSUME NEW s \in Scorers PROVE PassOK(scoring[s])'
    BY <1>1, <2>1, <2>3 DEF TrustInv, ScoringOK, PassOK, AnsweredSince
  <2> QED
    BY <1>1, <1>2, <2>2, <2>4 DEF TrustInv, ScoringOK
<1> QED
  BY <1>3, <1>4 DEF TimeGoesBy, RedoFromLater, PinPut, autonomyVars

\* A pass computes, applies or dies.
LEMMA PassSteps ==
    ASSUME TrustInv, NEW s \in Scorers, ScorePass(s) \/ PassDies(s)
    PROVE  TrustInv'
<1>1. UNCHANGED <<clock, runs>> /\ clock \in Nat \ {0}
  BY DEF ScorePass, Computes, Upserts, PassDies, TrustInv, RunsOK
<1>2. RunsOK' /\ \A t : JudgedSince(t)' = JudgedSince(t) /\ AnsweredSince(t)' = AnsweredSince(t)
  BY <1>1, SameRuns DEF TrustInv, AnsweredSince
<1>3. ASSUME NEW p \in Passes, scoring' = [scoring EXCEPT ![s] = p], PassOK(p), UNCHANGED <<cell, basis>>
      PROVE  TrustInv'
  <2>1. CellOK'
    BY <1>1, <1>2, <1>3 DEF TrustInv, CellOK
  <2>2. ASSUME NEW t \in Scorers PROVE PassOK(scoring[t])'
    BY <1>1, <1>2, <1>3 DEF TrustInv, ScoringOK, PassOK
  <2> QED
    BY <1>2, <1>3, <2>1, <2>2 DEF TrustInv, ScoringOK
<1>4. NoPassYet \in Passes /\ PassOK(NoPassYet)
  BY DEF NoPassYet, Passes, PassOK
<1>5. ASSUME NEW rest \in Factors, Computes(s, rest) PROVE TrustInv'
  <2> DEFINE level == IF Visited THEN TrustLevel(rest) ELSE 0
             p == [pc |-> "score", began |-> clock, known |-> Visited, level |-> level]
  <2>1. /\ level \in 0 .. 3
        /\ level > 0 => Cardinality(JudgedSince(cell.clawedAt)) >= MinRuns
        /\ level = 3 => AnsweredSince(clock - ScoreWindow) # {}
    BY ScoreRests DEF TrustInv
  <2>2. Visited \in BOOLEAN
    BY DEF Visited, TrustInv, CellOK
  <2> HIDE DEF level
  <2>3. p \in Passes /\ PassOK(p)
    BY <1>1, <2>1, <2>2 DEF Passes, PassOK
  <2> QED
    BY <1>3, <1>5, <2>3 DEF Computes, level
<1>6. CASE Upserts(s)
  <2>1. CASE scoring[s].known /\ Applies(s)
    <3>1. /\ scoring[s] \in Passes /\ PassOK(scoring[s]) /\ scoring[s].pc = "score"
          /\ cell \in [stored : BOOLEAN, level : Nat, clawedAt : Nat]
      BY <1>6 DEF TrustInv, ScoringOK, CellOK, Upserts
    <3>2. /\ cell' \in [stored : BOOLEAN, level : Nat, clawedAt : Nat]
          /\ cell'.level = scoring[s].level /\ cell'.clawedAt = cell.clawedAt
          /\ basis' = scoring[s].began /\ basis' \in Nat
      BY <1>6, <2>1, <3>1 DEF Upserts, Passes
    <3>3. CellOK'
      BY <1>1, <1>2, <2>1, <3>1, <3>2 DEF TrustInv, CellOK, PassOK, Applies
    <3>4. scoring' = [scoring EXCEPT ![s] = NoPassYet]
      BY <1>6 DEF Upserts
    <3>5. ASSUME NEW t \in Scorers PROVE PassOK(scoring[t])'
      BY <1>1, <1>2, <1>4, <3>2, <3>4 DEF TrustInv, ScoringOK, PassOK
    <3> QED
      BY <1>2, <1>4, <3>3, <3>4, <3>5 DEF TrustInv, ScoringOK
  <2>2. CASE ~(scoring[s].known /\ Applies(s))
    BY <1>3, <1>4, <1>6, <2>2 DEF Upserts
  <2> QED
    BY <2>1, <2>2
<1>7. CASE PassDies(s)
  BY <1>3, <1>4, <1>7 DEF PassDies
<1> QED
  BY <1>5, <1>6, <1>7 DEF ScorePass

-----------------------------------------------------------------------------
(* The invariant, and what follows from it.                                 *)

LEMMA TrustInit == AutonomyInit => TrustInv
<1> SUFFICES ASSUME AutonomyInit PROVE TrustInv
  OBVIOUS
<1>1. RunsOK
  <2>1. NoRun \in [started : Nat, status : RunStatuses, gate : GateActions]
        /\ NoRun.status = "none" /\ NoRun.gate = "-"
    BY DEF NoRun, RunStatuses, GateActions
  <2> QED
    BY <2>1 DEF AutonomyInit, RunsOK
<1>2. CellOK
  BY DEF AutonomyInit, CellOK
<1>3. NoPassYet \in Passes /\ NoPassYet.pc = "idle"
  BY DEF NoPassYet, Passes
<1>4. ScoringOK
  BY <1>3 DEF AutonomyInit, ScoringOK, PassOK
<1> QED
  BY <1>1, <1>2, <1>4 DEF TrustInv

LEMMA TrustStep == TrustInv /\ [AutonomyNext]_autonomyVars => TrustInv'
  BY RunSteps, OtherSteps, PassSteps DEF AutonomyNext

\* A run advances alone only by what the resolver says.
LEMMA LicenceStep == TrustInv /\ [AutonomyNext]_autonomyVars => [Licensed]_autonomyVars
<1> SUFFICES ASSUME TrustInv, AutonomyNext, NEW r \in RunIds, runs'[r].gate = "auto", runs[r].gate # "auto"
             PROVE  /\ pin # "always_gate"
                    /\ \/ pin = "always_auto"
                       \/ r \in LightRuns /\ LightStage
                       \/ AutoLevel > 0 /\ Cardinality(JudgedSince(cell.clawedAt)) >= MinRuns
  BY DEF Licensed, JudgedSince
<1>1. runs \in [RunIds -> [started : Nat, status : RunStatuses, gate : GateActions]]
  BY DEF TrustInv, RunsOK
<1>2. ASSUME NEW q \in RunIds, RunOpens(q) PROVE FALSE
  <2>1. runs'[r] = runs[r] \/ runs'[r].gate = "-"
    BY <1>1, <1>2 DEF RunOpens, NoRun
  <2> QED
    BY <2>1
<1>3. ASSUME NEW q \in RunIds, NEW act \in GateActions, RunAnswered(q, act) PROVE FALSE
  BY <1>1, <1>3 DEF RunAnswered
<1>4. ASSUME NEW q \in RunIds, NEW st \in RunStatuses, NEW ok \in BOOLEAN, RunCloses(q, st, ok)
      PROVE  PassesAlone(r)
  BY <1>1, <1>4 DEF RunCloses
<1>5. PassesAlone(r)
  BY <1>2, <1>3, <1>4 DEF AutonomyNext, TimeGoesBy, Clawback, RedoFromLater, PinPut, ScorePass, Computes,
     Upserts, PassDies
<1>6. AutoLevel \in 0 .. 3 /\ cell.level \in Nat
  BY DEF AutoLevel, TrustInv, CellOK
<1> QED
  BY <1>5, <1>6 DEF PassesAlone, TrustInv, CellOK

\* THEOREM.  However scoring passes, clawbacks, answers and time fall together,
\* a level above 0 rests on enough judged runs that began after the last
\* clawback, a person answered behind the top one, and no run passes its gate
\* alone without a pin, light mode or a level so earned (autonomy.py,
\* db.autonomy_score_upsert).
THEOREM TrustStaysEarned == AutonomySpec => TrustIsEarned
<1>1. AutonomyInit => TrustInv
  BY TrustInit
<1>2. TrustInv /\ [AutonomyNext]_autonomyVars => TrustInv'
  BY TrustStep
<1>3. TrustInv => ReEarned /\ PersonBehindThree
  BY DEF TrustInv, CellOK, ReEarned, PersonBehindThree, JudgedSince, AnsweredSince
<1>4. TrustInv /\ [AutonomyNext]_autonomyVars => [Licensed]_autonomyVars
  BY LicenceStep
<1>5. [][Licensed]_autonomyVars => AdvanceIsLicensed
  BY PTL DEF Licensed, AdvanceIsLicensed
<1> QED
  BY <1>1, <1>2, <1>3, <1>4, <1>5, PTL DEF AutonomySpec, TrustIsEarned

-----------------------------------------------------------------------------
(* Types: the levels and what they were computed from.                      *)

\* What a pass holds was computed at a time there is, and is a level.
LevelsOK ==
    /\ clock <= Horizon /\ pin \in Pins
    /\ cell.level <= 3 /\ (cell.level > 0 => cell.stored /\ basis > cell.clawedAt)
    /\ \A s \in Scorers : scoring[s].pc = "score" => scoring[s].began > 0 /\ scoring[s].level <= 3

LEMMA LevelsStep == TrustInv /\ LevelsOK /\ [AutonomyNext]_autonomyVars => LevelsOK'
<1> SUFFICES ASSUME TrustInv, LevelsOK, [AutonomyNext]_autonomyVars PROVE LevelsOK'
  OBVIOUS
<1>0. /\ clock \in Nat \ {0} /\ Horizon \in Nat \ {0} /\ basis \in Nat
      /\ cell \in [stored : BOOLEAN, level : Nat, clawedAt : Nat]
      /\ scoring \in [Scorers -> Passes]
  BY AutonomyAssumption DEF AutonomyAssumption, TrustInv, RunsOK, CellOK, ScoringOK
<1>1. ASSUME UNCHANGED <<clock, pin, cell, scoring, basis>> PROVE LevelsOK'
  BY <1>1 DEF LevelsOK
<1>2. CASE TimeGoesBy
  BY <1>0, <1>2 DEF TimeGoesBy, LevelsOK
<1>3. CASE \E to \in Pins : PinPut(to)
  BY <1>3 DEF PinPut, LevelsOK
<1>4. CASE Clawback
  BY <1>4 DEF Clawback, LevelsOK
<1>5. ASSUME NEW s \in Scorers, NEW rest \in Factors, Computes(s, rest) PROVE LevelsOK'
  <2> DEFINE level == IF Visited THEN TrustLevel(rest) ELSE 0
  <2>1. level \in 0 .. 3
    BY ScoreRests DEF TrustInv
  <2>2. /\ scoring' = [scoring EXCEPT ![s] = [pc |-> "score", began |-> clock, known |-> Visited,
                                              level |-> level]]
        /\ UNCHANGED <<clock, pin, cell, basis>>
    BY <1>5 DEF Computes
  <2> HIDE DEF level
  <2>3. ASSUME NEW t \in Scorers, scoring'[t].pc = "score"
        PROVE  scoring'[t].began > 0 /\ scoring'[t].level <= 3
    <3>1. CASE t = s
      BY <1>0, <2>1, <2>2, <3>1
    <3>2. CASE t # s
      <4>1. scoring'[t] = scoring[t]
        BY <1>0, <2>2, <3>2
      <4> QED
        BY <2>3, <4>1 DEF LevelsOK
    <3> QED
      BY <3>1, <3>2
  <2> QED
    BY <2>2, <2>3 DEF LevelsOK
<1>6. ASSUME NEW s \in Scorers, scoring' = [scoring EXCEPT ![s] = NoPassYet], UNCHANGED <<clock, pin>>,
             \/ UNCHANGED <<cell, basis>>
             \/ /\ scoring[s].pc = "score" /\ Applies(s) /\ basis' = scoring[s].began
                /\ cell' = [cell EXCEPT !.stored = TRUE, !.level = scoring[s].level]
      PROVE  LevelsOK'
  <2>1. ASSUME NEW t \in Scorers, scoring'[t].pc = "score"
        PROVE  scoring'[t].began > 0 /\ scoring'[t].level <= 3
    <3>1. t # s
      BY <1>0, <1>6, <2>1 DEF NoPassYet
    <3>2. scoring'[t] = scoring[t]
      BY <1>0, <1>6, <3>1
    <3> QED
      BY <2>1, <3>2 DEF LevelsOK
  <2>2. cell'.level <= 3 /\ (cell'.level > 0 => cell'.stored /\ basis' > cell'.clawedAt)
    <3>1. CASE UNCHANGED <<cell, basis>>
      BY <3>1 DEF LevelsOK
    <3>2. CASE /\ scoring[s].pc = "score" /\ Applies(s) /\ basis' = scoring[s].began
               /\ cell' = [cell EXCEPT !.stored = TRUE, !.level = scoring[s].level]
      <4>1. /\ scoring[s].began \in Nat /\ scoring[s].began > 0 /\ scoring[s].level <= 3
            /\ cell.clawedAt = 0 \/ cell.clawedAt < scoring[s].began
        BY <1>0, <3>2 DEF LevelsOK, Applies, Passes
      <4>2. cell'.stored /\ cell'.level = scoring[s].level /\ cell'.clawedAt = cell.clawedAt
        BY <1>0, <3>2
      <4> QED
        BY <3>2, <4>1, <4>2
    <3> QED
      BY <1>6, <3>1, <3>2
  <2> QED
    BY <1>6, <2>1, <2>2 DEF LevelsOK
<1>7. ASSUME NEW s \in Scorers, Upserts(s) \/ PassDies(s) PROVE LevelsOK'
  BY <1>6, <1>7 DEF Upserts, PassDies
<1> QED
  BY <1>1, <1>2, <1>3, <1>4, <1>5, <1>7 DEF AutonomyNext, ScorePass, RedoFromLater, RunOpens, RunCloses,
     RunAnswered, autonomyVars

\* THEOREM.  A stored level is one of the ladder's, and was computed by a pass that
\* began after the clawback the cell remembers (autonomy.score_all,
\* db.autonomy_score_upsert).
THEOREM AutonomyTypesHold == AutonomySpec => []AutonomyTypeOK
<1>1. AutonomyInit => LevelsOK
  BY AutonomyAssumption DEF AutonomyAssumption, AutonomyInit, LevelsOK, Pins, NoPassYet
<1>2. TrustInv /\ LevelsOK => AutonomyTypeOK
  BY AutonomyAssumption DEF AutonomyAssumption, TrustInv, RunsOK, CellOK, LevelsOK, AutonomyTypeOK
<1> QED
  BY <1>1, <1>2, TrustInit, TrustStep, LevelsStep, PTL DEF AutonomySpec
=============================================================================
