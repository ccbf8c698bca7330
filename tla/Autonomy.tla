------------------------------ MODULE Autonomy ------------------------------
(***************************************************************************)
(* The trust ladder.  Runs of a stage, the answers at their gates and the     *)
(* redos that name the stage are what a scorer computes the autonomy level    *)
(* of the cell (workspace, repository, stage) from; a level can let the next  *)
(* clean run pass its gate without a person.  A clawback zeroes the cell,     *)
(* which earns its level anew from later runs only.                          *)
(*                                                                         *)
(* There is one cell, of a stage before the last (the last one has none and   *)
(* always gates).  A scorer runs in a thread of each process: it reads and  *)
(* computes, and writes one statement later.                                 *)
(***************************************************************************)
EXTENDS Integers, FiniteSets

CONSTANTS
    Scorers,        \* processes with a scoring loop
    AutonomyRung,   \* AUTONOMY_AUTO_LEVEL as it is configured
    LightStage,     \* the stage is one light mode passes
    MinRuns,        \* runs a level above 0 takes
    ScoreWindow,    \* how far back a pass looks
    LightRuns,      \* runs of jobs in light gate mode
    MaxRuns, MaxRedos, Horizon,     \* bounds of the instance
    Disturbances    \* clawbacks, pin changes and passes that die, together

ASSUME AutonomyAssumption ==
    /\ AutonomyRung \in Int /\ LightStage \in BOOLEAN /\ MinRuns \in Nat \ {0} /\ ScoreWindow \in Nat
    /\ {MaxRuns, MaxRedos, Disturbances} \subseteq Nat /\ Horizon \in Nat \ {0}
    /\ LightRuns \subseteq 1 .. MaxRuns

RunIds == 1 .. MaxRuns
RunStatuses == {"none", "open", "done", "failed", "interrupted"}
GateActions == {"-", "posted", "proceed", "redo", "auto"}
Pins == {"-", "always_gate", "always_auto"}

VARIABLES
    clock,      \* the time
    runs,       \* per run: start, result, what became of its gate
    redos,      \* the redos that name the stage
    cell,       \* the stored level and the time of the last clawback (0: none)
    pin,        \* the pin of the workspace on the stage
    scoring,    \* per scorer, its pass
    basis,      \* (history) when the pass that gave the level began
    disturbances   \* those left

autonomyVars == <<clock, runs, redos, cell, pin, scoring, basis, disturbances>>

NoRun == [started |-> 0, status |-> "none", gate |-> "-"]
NoPassYet == [pc |-> "idle", began |-> 0, known |-> FALSE, level |-> 0]

AutonomyInit ==
    /\ clock = 1 /\ runs = [r \in RunIds |-> NoRun] /\ redos = {}
    /\ cell = [stored |-> FALSE, level |-> 0, clawedAt |-> 0] /\ pin = "-"
    /\ scoring = [s \in Scorers |-> NoPassYet] /\ basis = 0
    /\ disturbances = Disturbances

TimeGoesBy == clock < Horizon /\ clock' = clock + 1 /\ UNCHANGED <<runs, redos, cell, pin, scoring, basis, disturbances>>

-----------------------------------------------------------------------------
(* The stage's runs.                                                        *)

RunOpens(r) ==
    /\ runs[r].status = "none" /\ \A q \in RunIds : q < r => runs[q].status # "none"
    /\ runs' = [runs EXCEPT ![r] = [NoRun EXCEPT !.started = clock, !.status = "open"]]
    /\ UNCHANGED <<clock, redos, cell, pin, scoring, basis, disturbances>>

\* The rung outside 1 .. 3 turns the computed rule off.
AutoLevel == IF AutonomyRung \in 1 .. 3 THEN AutonomyRung ELSE 0

\* The resolver: the pin, then the job's light mode, then the level.
LightFirst(r) ==
    \/ r \in LightRuns /\ LightStage
    \/ pin = "always_auto"
    \/ pin = "-" /\ AutoLevel > 0 /\ cell.stored /\ cell.level >= AutoLevel
PassesAlone(r) ==
    \/ pin = "always_auto"
    \/ /\ pin = "-"
       /\ \/ r \in LightRuns /\ LightStage
          \/ AutoLevel > 0 /\ cell.stored /\ cell.level >= AutoLevel

\* A clean run advances when the resolver says so and no guard (`ok`) objects;
\* otherwise it parks.  A failed run parks, an interrupted one leaves no gate.
RunCloses(r, status, ok) ==
    /\ runs[r].status = "open" /\ status \in {"done", "failed", "interrupted"}
    /\ runs' = [runs EXCEPT ![r].status = status,
                            ![r].gate = IF status = "interrupted" THEN "-"
                                        ELSE IF status = "done" /\ PassesAlone(r) /\ ok THEN "auto" ELSE "posted"]
    /\ UNCHANGED <<clock, redos, cell, pin, scoring, basis, disturbances>>

RedoRow == [n |-> Cardinality(redos) + 1, at |-> clock]
RunAnswered(r, act) ==
    /\ runs[r].gate = "posted" /\ act \in {"proceed", "redo"}
    /\ act = "redo" => Cardinality(redos) < MaxRedos
    /\ runs' = [runs EXCEPT ![r].gate = act]
    /\ redos' = IF act = "redo" THEN redos \union {RedoRow} ELSE redos
    /\ UNCHANGED <<clock, cell, pin, scoring, basis, disturbances>>

\* The gate of a later stage, which the job has reached, rejects this stage.
RedoFromLater ==
    /\ \E r \in RunIds : runs[r].gate \in {"proceed", "auto"}
    /\ Cardinality(redos) < MaxRedos /\ redos' = redos \union {RedoRow}
    /\ UNCHANGED <<clock, runs, cell, pin, scoring, basis, disturbances>>

Disturbs == disturbances > 0 /\ disturbances' = disturbances - 1
PinPut(to) == Disturbs /\ to # pin /\ pin' = to /\ UNCHANGED <<clock, runs, redos, cell, scoring, basis>>

Clawback ==
    /\ Disturbs
    /\ cell' = [stored |-> TRUE, level |-> 0, clawedAt |-> clock]
    /\ UNCHANGED <<clock, runs, redos, pin, scoring, basis>>

-----------------------------------------------------------------------------
(* A scoring pass.                                                          *)

Recent == {r \in RunIds : runs[r].status # "none" /\ runs[r].started >= clock - ScoreWindow}

\* Only what began after the clawback counts, and only what can be judged.
AfterClawback == {r \in Recent : cell.clawedAt = 0 \/ runs[r].started > cell.clawedAt}
Counted == {r \in AfterClawback : runs[r].status \notin {"open", "interrupted"}}
DoneRuns == {r \in Counted : runs[r].status = "done"}
AnsweredRuns == {r \in Counted : runs[r].gate \in {"proceed", "redo"}}
CellRedos == {g \in redos : g.at >= clock - ScoreWindow /\ (cell.clawedAt = 0 \/ g.at > cell.clawedAt)}
Clean(r) == runs[r].status = "done" /\ runs[r].gate # "redo"
Streak == Cardinality({r \in Counted : \A q \in Counted : q >= r => Clean(q)})

\* The score in hundredths, times `share`: 40 for clean runs, 30 for few
\* redos, `rest` of 30 for quick answers and few review rounds.  Without an
\* answered gate the redos cost nothing.
Score(rest) ==
    LET n == Cardinality(Counted)
        answered == Cardinality(AnsweredRuns)
        d == IF answered = 0 THEN 1 ELSE answered
        lost == IF answered = 0 THEN 0 ELSE IF Cardinality(CellRedos) > answered THEN answered ELSE Cardinality(CellRedos)
    IN [points |-> 40 * Cardinality(DoneRuns) * d + 30 * (d - lost) * n + rest * n * d, share |-> n * d]
LevelFor(sc) ==
    IF sc.points >= 90 * sc.share THEN 3 ELSE IF sc.points >= 75 * sc.share THEN 2
    ELSE IF sc.points >= 55 * sc.share THEN 1 ELSE 0

\* Too few runs are no level; the top one takes a streak and a person.
TrustLevel(rest) ==
    IF Cardinality(Counted) < MinRuns THEN 0
    ELSE IF LevelFor(Score(rest)) = 3 /\ (Streak < MinRuns \/ AnsweredRuns = {}) THEN 2
    ELSE LevelFor(Score(rest))

\* The pass reads and computes.  A cell is visited when it has runs or was
\* stored before.  The reads are one step here: a clawback between them is
\* later than the beginning of the pass, and the upsert looks at that.
Visited == Recent # {} \/ cell.stored
Factors == {0, 15, 30}      \* the latency and the rounds terms together
Computes(s, rest) ==
    /\ scoring[s].pc = "idle"
    /\ scoring' = [scoring EXCEPT ![s] = [pc |-> "score", began |-> clock, known |-> Visited,
                                          level |-> IF Visited THEN TrustLevel(rest) ELSE 0]]
    /\ UNCHANGED <<clock, runs, redos, cell, pin, basis, disturbances>>

\* The upsert leaves a cell alone that was clawed back since the pass began.
AppliesAlways(s) == TRUE
Applies(s) == cell.clawedAt = 0 \/ cell.clawedAt < scoring[s].began
Upserts(s) ==
    /\ scoring[s].pc = "score" /\ scoring' = [scoring EXCEPT ![s] = NoPassYet]
    /\ IF scoring[s].known /\ Applies(s)
       THEN /\ cell' = [cell EXCEPT !.stored = TRUE, !.level = scoring[s].level]
            /\ basis' = scoring[s].began
       ELSE UNCHANGED <<cell, basis>>
    /\ UNCHANGED <<clock, runs, redos, pin, disturbances>>

\* A pass dies with its process or by an exception; the next one is a day later.
PassDies(s) ==
    /\ Disturbs /\ scoring[s].pc # "idle" /\ scoring' = [scoring EXCEPT ![s] = NoPassYet]
    /\ UNCHANGED <<clock, runs, redos, cell, pin, basis>>

ScorePass(s) == (\E rest \in Factors : Computes(s, rest)) \/ Upserts(s)
AutonomyNext ==
    \/ TimeGoesBy \/ Clawback \/ RedoFromLater \/ \E to \in Pins : PinPut(to)
    \/ \E r \in RunIds : RunOpens(r)
    \/ \E r \in RunIds, st \in RunStatuses, ok \in BOOLEAN : RunCloses(r, st, ok)
    \/ \E r \in RunIds, act \in GateActions : RunAnswered(r, act)
    \/ \E s \in Scorers : ScorePass(s) \/ PassDies(s)
AutonomySpec == AutonomyInit /\ [][AutonomyNext]_autonomyVars
\* The loop scores for ever; a pass that died is followed by the next.
AutonomyFairness == \A s \in Scorers : WF_autonomyVars(ScorePass(s))
AutonomyFairSpec == AutonomySpec /\ AutonomyFairness

-----------------------------------------------------------------------------
(* Properties.                                                              *)

\* The type invariant: a level was computed by a pass that began after the
\* clawback the cell remembers.
AutonomyTypeOK ==
    /\ clock \in 1 .. Horizon /\ pin \in Pins
    /\ \A r \in RunIds : runs[r].status \in RunStatuses /\ runs[r].gate \in GateActions
    /\ cell.level \in 0 .. 3 /\ (cell.level > 0 => cell.stored /\ basis > cell.clawedAt)

Judged(r) == runs[r].status \in {"done", "failed"}
\* After a clawback trust is earned from nothing: a level above 0 rests on
\* enough judged runs that began after it, whatever a pass had read before.
ReEarned ==
    cell.level > 0 => Cardinality({r \in RunIds : Judged(r) /\ runs[r].started > cell.clawedAt}) >= MinRuns

\* Full trust never feeds itself: behind the top level stands a person who
\* answered at a run that the pass could still see.
PersonBehindThree ==
    cell.level = 3 =>
        \E r \in RunIds : runs[r].gate \in {"proceed", "redo"} /\ runs[r].started >= basis - ScoreWindow

\* A run passes its gate alone only with a licence: never under a pin to
\* gate, and without pin and light mode only on trust earned since the brake.
AdvanceIsLicensed ==
    [][\A r \in RunIds : runs'[r].gate = "auto" /\ runs[r].gate # "auto" =>
          /\ pin # "always_gate"
          /\ \/ pin = "always_auto"
             \/ r \in LightRuns /\ LightStage
             \/ AutoLevel > 0 /\ Cardinality({q \in RunIds : Judged(q) /\ runs[q].started > cell.clawedAt}) >= MinRuns
      ]_autonomyVars

\* Trust is earned, by runs after the last brake and with a person behind the
\* top level, and used with a licence only.
TrustIsEarned == []ReEarned /\ []PersonBehindThree /\ AdvanceIsLicensed

\* No trust outlives its evidence: a cell whose runs have all left the window is
\* to lose its level, unless the stage runs again.
TrustIsBacked == Recent = {} => cell.level = 0
=============================================================================
