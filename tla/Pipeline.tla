------------------------------ MODULE Pipeline ------------------------------
(***************************************************************************)
(* One feature job in the single-worker (SQLite) service: the row of the    *)
(* jobs table, the run loop of app/worker.py that dispatches it, the stage  *)
(* run of app/engine.py, the feature branch it works on, and the humans who *)
(* answer its gates, steer it and push to its branch.                       *)
(*                                                                          *)
(* The service is one asyncio event loop, so the code between two awaits is *)
(* one step; a crash may fall between any two database commits, and where   *)
(* two commits of one such stretch matter the step is split (LogDecision,   *)
(* ParkGate).  A branch head is the set of commits it reaches: histories    *)
(* only grow by commits and shrink by a rewind to an earlier head.          *)
(*                                                                          *)
(* Some guards and assignments stand in an operator of their own and are    *)
(* preceded by a wrong form of them, marked "faulty": no action uses it, it *)
(* is there to show that the properties would notice the mistake.           *)
(***************************************************************************)
EXTENDS Integers, FiniteSets

CONSTANTS
    LastStage,          \* the terminal stage, 9 in the code
    CodeStages,         \* stages whose run may edit code (P5 .. P9)
    GroupStage,         \* the stage skipped for a one-group plan (P6), -1 for none
    AutoStages,         \* stages resolve_gate may answer "auto" for
    MaxAsks,            \* max_asks_per_stage
    SessionPersistence, \* session_persistence: CLI sessions can be resumed
    Limits              \* bounds of the instance: each one a bound on every kind of outside event

Events == {"answer", "text", "lap", "crash", "fault", "fetch", "push", "edit"}

ASSUME PipelineAssumption ==
    /\ LastStage \in Nat
    /\ CodeStages \subseteq 0..LastStage
    /\ GroupStage \in -1..LastStage - 1
    /\ AutoStages \subseteq 0..LastStage - 1
    /\ MaxAsks \in Nat
    /\ SessionPersistence \in BOOLEAN
    /\ Limits \subseteq [Events -> Nat]

Stages    == 0..LastStage
NoStage   == -1
NoText    == 0      \* an empty text column
AskStages == CodeStages \ {LastStage}

\* "none" stands for an empty column.
Statuses  == {"received", "queued", "running", "awaiting_input", "error",
              "timeout", "skipped", "no_fix", "pr_opened"}
Pending   == {"received", "queued"}
Failed    == {"error", "timeout"}

Commit  == [by : {"agent", "edit", "push"}, id : Nat]
Heads    == SUBSET Commit
Resume  == [stage : Stages \cup {NoStage}, head : Heads, answer : Nat]
NoResume == [stage |-> NoStage, head |-> {}, answer |-> NoText]

\* How the CLI ended.  "flagged" is every output that must be seen by a human:
\* STAGE_FAIL, no marker at all, a missing success metric.
Results   == {"none", "timeout", "error", "transient", "done", "ask", "flagged"}
RunFaults == {"timeout", "error", "transient"}
-----------------------------------------------------------------------------
VARIABLES
    \* the row of the jobs table
    status, stage, pending_redo_stage, gate_kind, resume, ask_count,
    auto_retries, budget_override, steer_note,
    \* guidance_log (last decision per stage) and stage_state
    decision, base_sha, attempts,
    \* git: the branch on origin, the clone's origin/<branch>, the clone's
    \* HEAD, and the rejected attempts kept on origin
    origin, tracking, workspace, archive,
    \* the worker: where it is in the stage run, that run, the steer event,
    \* the wakeups of the queue, the answer handlers yet to enqueue, and the
    \* answer whose guidance is not yet written
    pc, run, runs, steered, wakeups, tails, unlogged,
    \* outside events so far
    used,
    \* history, read by the properties only
    entry, redo, published, notes, resumes, retries

row   == <<status, stage, pending_redo_stage, gate_kind, resume, ask_count,
           auto_retries, budget_override, steer_note>>
tables == <<decision, base_sha, attempts>>
git   == <<origin, tracking, workspace, archive>>
loop  == <<pc, run, runs, steered, wakeups>>
human == <<tails, unlogged>>
hist  == <<entry, redo, published, notes, resumes, retries>>
vars  == <<row, tables, git, loop, human, used, hist>>

PCs == {"idle", "prepare", "pull", "launch", "invoke", "steer", "after",
        "decide", "park", "final", "requeue"}
Busy == PCs \ {"idle", "final", "requeue"}
Run == [stage : Stages, id : Nat, resuming : BOOLEAN,
        kind : {"none", "ask", "steer"}, answer : Nat, result : Results,
        conflicted : BOOLEAN, requeue : BOOLEAN]
NoRun == [stage |-> 0, id |-> 0, resuming |-> FALSE, kind |-> "none",
          answer |-> NoText, result |-> "none", conflicted |-> FALSE,
          requeue |-> FALSE]
Unlogged == [stage : Stages, action : {"none", "proceed", "answer", "redo", "skip"},
             enqueue : BOOLEAN]
NothingUnlogged == [stage |-> 0, action |-> "none", enqueue |-> FALSE]
Redos  == [stage : Stages \cup {NoStage}, keep : Heads, drop : Heads]
NoRedo == [stage |-> NoStage, keep |-> {}, drop |-> {}]

\* Every variable ranges over what its column, its git ref or its process
\* state can hold.
RowOK ==
    /\ status \in Statuses
    /\ stage \in Stages
    /\ pending_redo_stage \in Stages \cup {NoStage}
    /\ gate_kind \in {"none", "ask", "steer"}
    /\ resume \in Resume
    /\ ask_count \in Nat
    /\ auto_retries \in {0, 1}
    /\ budget_override \in BOOLEAN
    /\ steer_note \in Nat

TablesOK ==
    /\ decision \in [Stages -> {"none", "proceed", "redo", "auto"}]
    /\ DOMAIN base_sha \subseteq Stages
    /\ \A s \in DOMAIN base_sha : base_sha[s] \in Heads
    /\ attempts \in [Stages -> Nat]

GitOK ==
    /\ origin \in Heads
    /\ tracking \in Heads
    /\ workspace \in Heads
    /\ archive \subseteq [stage : Stages, attempt : Nat, head : Heads]

LoopOK ==
    /\ pc \in PCs
    /\ run \in Run
    /\ runs \in Nat
    /\ steered \in BOOLEAN
    /\ wakeups \in Nat
    /\ tails \in Nat
    /\ unlogged \in Unlogged
    /\ used \in [Events -> Nat]

HistOK ==
    /\ entry \in [Stages -> Heads]
    /\ redo \in Redos
    /\ published \in Heads
    /\ notes \subseteq [text : Nat, cli : BOOLEAN]
    /\ resumes \in Nat
    /\ retries \in Nat

TypeOK == RowOK /\ TablesOK /\ GitOK /\ LoopOK /\ HistOK

\* A feature was just submitted: its row, and its wakeup in the queue.
Init ==
    /\ status = "received" /\ stage = 0 /\ pending_redo_stage = NoStage
    /\ gate_kind = "none" /\ resume = NoResume /\ ask_count = 0
    /\ auto_retries = 0 /\ budget_override = FALSE /\ steer_note = NoText
    /\ decision = [s \in Stages |-> "none"]
    /\ base_sha = [s \in {} |-> {}] /\ attempts = [s \in Stages |-> 0]
    /\ origin = {} /\ tracking = {} /\ workspace = {} /\ archive = {}
    /\ pc = "idle" /\ run = NoRun /\ runs = 0 /\ steered = FALSE
    /\ wakeups = 1 /\ tails = 0 /\ unlogged = NothingUnlogged
    /\ used = [e \in Events |-> 0]
    /\ entry = [s \in Stages |-> {}] /\ redo = NoRedo /\ published = {}
    /\ notes = {} /\ resumes = 0 /\ retries = 0

\* An outside event of kind e happens; all that have happened stay within one of
\* the bounds.
Spend(e) == /\ used' = [used EXCEPT ![e] = @ + 1]
            /\ \E limit \in Limits : \A f \in Events : used'[f] <= limit[f]

AgentWork(head) == {c \in head : c.by = "agent"}
-----------------------------------------------------------------------------
(* The run loop *)

\* A pending answer or steer exists for exactly this stage.
ResumeIntended == /\ gate_kind \in {"ask", "steer"}
                  /\ resume.stage = stage
                  /\ resume.answer # NoText

\* A wakeup whose row moved on is dropped.
DropWakeup ==
    /\ pc = "idle" /\ wakeups > 0 /\ status \notin Pending
    /\ wakeups' = wakeups - 1
    /\ UNCHANGED <<row, tables, git, pc, run, runs, steered, human, used, hist>>

\* The workspace is over budget: the stage is not run, and parks as an error.
BudgetBlock ==
    /\ pc = "idle" /\ wakeups > 0 /\ status \in Pending
    /\ ~budget_override
    /\ Spend("fault")
    /\ wakeups' = wakeups - 1
    /\ status' = "error"
    /\ UNCHANGED <<stage, pending_redo_stage, gate_kind, resume, ask_count,
                   auto_retries, budget_override, steer_note>>
    /\ UNCHANGED <<tables, git, pc, run, runs, steered, human, hist>>

\* A valid wakeup starts the stage run: the override is consumed, the steer
\* handle is registered and the row is running.
StartRun ==
    /\ pc = "idle" /\ wakeups > 0 /\ status \in Pending
    /\ wakeups' = wakeups - 1
    /\ budget_override' = FALSE
    /\ status' = "running"
    /\ runs' = runs + 1
    /\ run' = [NoRun EXCEPT !.stage = stage, !.id = runs + 1,
                            !.resuming = ResumeIntended, !.kind = gate_kind,
                            !.answer = resume.answer]
    /\ steered' = FALSE
    /\ pc' = "prepare"
    /\ UNCHANGED <<stage, pending_redo_stage, gate_kind, resume, ask_count,
                   auto_retries, steer_note>>
    /\ UNCHANGED <<tables, git, human, used, hist>>

\* The run is over and its steer handle is gone.
Leave == pc' = "idle" /\ run' = NoRun /\ steered' = FALSE

\* An await of the run raises before the agent is invoked (a git command
\* fails, the branch is lost): the worker records the error.
RunRaises ==
    /\ pc \in {"prepare", "pull", "launch"}
    /\ Spend("fault")
    /\ status' = "error"
    /\ Leave
    /\ UNCHANGED <<stage, pending_redo_stage, gate_kind, resume, ask_count,
                   auto_retries, budget_override, steer_note>>
    /\ UNCHANGED <<tables, git, runs, wakeups, human, hist>>
-----------------------------------------------------------------------------
(* The branch *)

\* push --force-with-lease: accepted only while origin is still where the
\* clone last saw it.
PushOk(head) ==
    /\ origin = tracking
    /\ origin' = head /\ tracking' = head
    /\ published' = published \cup head
    /\ UNCHANGED used

PushFails ==
    /\ IF origin = tracking THEN Spend("fault") ELSE UNCHANGED used
    /\ UNCHANGED <<origin, tracking, published>>

\* The plain push of a rejected attempt to its archive ref: a new ref or a
\* fast-forward is accepted, anything else is rejected by the remote.
Archived(s, n, head) ==
    LET at == {a \in archive : a.stage = s /\ a.attempt = n} IN
    IF \A a \in at : a.head \subseteq head
    THEN (archive \ at) \cup {[stage |-> s, attempt |-> n, head |-> head]}
    ELSE archive

AlwaysFirst(s) == 1     \* faulty: every archive ref is attempt 1's
LatestAttempt(s) == IF attempts[s] > 1 THEN attempts[s] ELSE 1

\* A resume continues on the head that was parked, within the ask budget.
AnyHead(head) == TRUE   \* faulty: the parked head is not compared
ParkedHead(head) == head = resume.head

OneAskMore == ask_count <= MaxAsks   \* faulty: off by one
AskBudgetLeft == ask_count < MaxAsks

\* The human's redo request rewinds, not the number of attempts.  (The first
\* form is faulty: it rewinds on whatever was attempted before.)
RewindsOnRetry(s) == s \in CodeStages \cap DOMAIN base_sha /\ attempts[s] > 1
Rewinds(s) == s \in CodeStages \cap DOMAIN base_sha /\ pending_redo_stage = s

\* The run has the branch checked out at tree: a resume is validated against
\* the head that was parked, a human redo of a code stage rewinds to the
\* stage's baseline, and the redo request is cleared.
Checkout(head, tree) ==
    \E transcript \in {SessionPersistence, FALSE} :
       LET s        == run.stage
           resumes_ == /\ run.resuming
                       /\ ParkedHead(head)
                       /\ run.kind = "steer" \/ AskBudgetLeft
                       /\ transcript
       IN /\ run' = [run EXCEPT !.resuming = resumes_]
          /\ tracking' = head
          /\ IF ~resumes_ /\ Rewinds(s)
             THEN /\ archive' = Archived(s, LatestAttempt(s), tree)
                  /\ workspace' = base_sha[s]
             ELSE workspace' = tree /\ UNCHANGED archive
          /\ pending_redo_stage' =
                IF pending_redo_stage = s THEN NoStage ELSE pending_redo_stage

\* prepare_feature_workspace resumes from origin/<branch>.
PrepareBranch ==
    /\ pc = "prepare"
    /\ Checkout(origin, origin)
    /\ pc' = "pull"
    /\ UNCHANGED <<status, stage, gate_kind, resume, ask_count, auto_retries,
                   budget_override, steer_note, origin>>
    /\ UNCHANGED <<tables, runs, steered, wakeups, human, used, hist>>

\* At stage 0 a failed fetch of the branch is taken for a new branch, built
\* from the base; the clone's idea of origin is what it was.
PrepareFromBase ==
    /\ pc = "prepare" /\ run.stage = 0 /\ origin # {}
    /\ Spend("fetch")
    /\ Checkout(tracking, {})
    /\ pc' = "pull"
    /\ UNCHANGED <<status, stage, gate_kind, resume, ask_count, auto_retries,
                   budget_override, steer_note, origin>>
    /\ UNCHANGED <<tables, runs, steered, wakeups, human, hist>>

EditCommit == [by |-> "edit", id |-> used["edit"] + 1]

\* ArtifactSync.pull: nothing to fold in, or a human edit that is committed
\* and pushed at once (a failed push leaves the commit in the clone).
PullNothing ==
    /\ pc = "pull" /\ pc' = "launch"
    /\ UNCHANGED <<row, tables, git, run, runs, steered, wakeups, human, used, hist>>

PullEdit ==
    /\ pc = "pull" /\ pc' = "launch"
    /\ Spend("edit")
    /\ workspace' = workspace \cup {EditCommit}
    /\ IF origin = tracking
       THEN /\ origin' = workspace' /\ tracking' = workspace'
            /\ published' = published \cup workspace'
       ELSE UNCHANGED <<origin, tracking, published>>
    /\ UNCHANGED <<row, tables, archive, run, runs, steered, wakeups, human>>
    /\ UNCHANGED <<entry, redo, notes, resumes, retries>>
-----------------------------------------------------------------------------
(* The stage *)

\* Enter the next stage: what the branch holds now is approved work.
EnterNext ==
    /\ stage' = stage + 1 /\ ask_count' = 0
    /\ entry' = [entry EXCEPT ![stage + 1] = AgentWork(origin)]
    /\ redo' = NoRedo /\ resumes' = 0

\* P6 is skipped when the plan has a single build group.
SkipGroup ==
    /\ pc = "launch" /\ run.stage = GroupStage /\ ~run.resuming
    /\ EnterNext
    /\ status' = "queued" /\ pc' = "requeue"
    /\ UNCHANGED <<pending_redo_stage, gate_kind, resume, auto_retries,
                   budget_override, steer_note>>
    /\ UNCHANGED <<tables, git, run, runs, steered, wakeups, human, used>>
    /\ UNCHANGED <<published, notes, retries>>

\* The baseline of a fresh run is the head it starts on, each time.  (The
\* first form is faulty: it keeps the first run's.)
FirstBaseline(s) == IF s \in DOMAIN base_sha THEN base_sha[s] ELSE workspace
Baseline(s) == workspace

\* A fresh run records its baseline and counts an attempt; either way the
\* pending resume is consumed before the agent is invoked, which carries its
\* text: as the resumed session's message or folded into a fresh prompt.
Launch ==
    /\ pc = "launch"
    /\ IF run.resuming
       THEN UNCHANGED <<base_sha, attempts, resumes>>
       ELSE /\ base_sha' = [s \in DOMAIN base_sha \cup {run.stage} |->
                               IF s = run.stage THEN Baseline(s) ELSE base_sha[s]]
            /\ attempts' = [attempts EXCEPT ![run.stage] = @ + 1]
            /\ resumes' = 0
    /\ resume' = NoResume /\ gate_kind' = "none"
    /\ notes' = {n \in notes : n.text # run.answer}
    /\ pc' = "invoke"
    /\ UNCHANGED <<status, stage, pending_redo_stage, ask_count, auto_retries,
                   budget_override, steer_note, decision>>
    /\ UNCHANGED <<git, run, runs, steered, wakeups, human, used>>
    /\ UNCHANGED <<entry, redo, published, retries>>

AgentCommit == [by |-> "agent", id |-> run.id]

\* The agent did some work; a resume of an answered question spends the ask
\* budget, whether the run then ends or is interrupted.
Worked ==
    /\ workspace' = workspace \cup {AgentCommit}
    /\ IF run.resuming /\ run.kind # "steer"
       THEN ask_count' = ask_count + 1 /\ resumes' = resumes + 1
       ELSE UNCHANGED <<ask_count, resumes>>

\* The resumed session is gone: the same run goes on with a fresh session.
SessionLost ==
    /\ pc = "invoke" /\ run.resuming /\ ~steered
    /\ run' = [run EXCEPT !.resuming = FALSE]
    /\ UNCHANGED <<row, tables, git, pc, runs, steered, wakeups, human, used, hist>>

\* The CLI returns.
AgentReturns ==
    /\ pc = "invoke" /\ ~steered
    /\ \E r \in Results \ {"none"} :
          /\ run' = [run EXCEPT !.result = r]
          /\ IF r \in RunFaults THEN Spend("fault") ELSE UNCHANGED used
    /\ Worked
    /\ pc' = "after"
    /\ UNCHANGED <<status, stage, pending_redo_stage, gate_kind, resume,
                   auto_retries, budget_override, steer_note>>
    /\ UNCHANGED <<tables, origin, tracking, archive, runs, steered, wakeups,
                   human, entry, redo, published, notes, retries>>

\* A steer stops the CLI with its session intact.
AgentInterrupted ==
    /\ pc = "invoke" /\ steered
    /\ Worked
    /\ pc' = "steer"
    /\ UNCHANGED <<status, stage, pending_redo_stage, gate_kind, resume,
                   auto_retries, budget_override, steer_note>>
    /\ UNCHANGED <<tables, origin, tracking, archive, run, runs, steered, wakeups,
                   human, used, entry, redo, published, notes, retries>>

\* _steer_reenqueue: with the work on origin, arm a resume of the session.
SteerResumes ==
    /\ pc = "steer"
    /\ PushOk(workspace)
    /\ resume' = [stage |-> run.stage, head |-> workspace, answer |-> steer_note]
    /\ gate_kind' = "steer" /\ steer_note' = NoText
    /\ status' = "queued" /\ pc' = "requeue"
    /\ UNCHANGED <<stage, pending_redo_stage, ask_count, auto_retries, budget_override>>
    /\ UNCHANGED <<tables, workspace, archive, run, runs, steered, wakeups, human>>
    /\ UNCHANGED <<entry, redo, notes, resumes, retries>>

\* _steer_reenqueue: the push failed, so the note becomes guidance.
SteerFallsBack ==
    /\ pc = "steer"
    /\ PushFails
    /\ notes' = {n \in notes : n.text # steer_note}
    /\ steer_note' = NoText
    /\ status' = "queued" /\ pc' = "requeue"
    /\ UNCHANGED <<stage, pending_redo_stage, gate_kind, resume, ask_count,
                   auto_retries, budget_override>>
    /\ UNCHANGED <<tables, workspace, archive, run, runs, steered, wakeups, human>>
    /\ UNCHANGED <<entry, redo, resumes, retries>>
-----------------------------------------------------------------------------
(* After the run *)

AlwaysRetry == TRUE     \* faulty: no retry budget
MayRetry == auto_retries < 1

\* One automatic retry of a transient upstream error.
RetryTransient ==
    /\ pc = "after" /\ run.result = "transient" /\ MayRetry
    /\ auto_retries' = 1 /\ retries' = retries + 1
    /\ status' = "queued"
    /\ run' = [run EXCEPT !.requeue = TRUE]
    /\ pc' = "final"
    /\ UNCHANGED <<stage, pending_redo_stage, gate_kind, resume, ask_count,
                   budget_override, steer_note>>
    /\ UNCHANGED <<tables, git, runs, steered, wakeups, human, used>>
    /\ UNCHANGED <<entry, redo, published, notes, resumes>>

\* Any other error, and every timeout, waits for a human redo.
RunFails ==
    /\ pc = "after" /\ run.result \in RunFaults
    /\ run.result = "transient" => ~MayRetry
    /\ status' = IF run.result = "timeout" THEN "timeout" ELSE "error"
    /\ pc' = "final"
    /\ UNCHANGED <<stage, pending_redo_stage, gate_kind, resume, ask_count,
                   auto_retries, budget_override, steer_note>>
    /\ UNCHANGED <<tables, git, run, runs, steered, wakeups, human, used, hist>>

Returned == run.result \in {"done", "ask", "flagged"}

\* The stage's output is pushed before any gate; then the mirrors are
\* written, where a human edit made during the run wins and is committed.
Publish ==
    /\ pc = "after" /\ Returned
    /\ origin = tracking
    /\ origin' = workspace /\ tracking' = workspace
    /\ published' = published \cup workspace
    /\ \/ UNCHANGED <<workspace, run, used>>
       \/ /\ Spend("edit")
          /\ workspace' = workspace \cup {EditCommit}
          /\ run' = [run EXCEPT !.conflicted = TRUE]
    /\ pc' = "decide"
    /\ UNCHANGED <<row, tables, archive, runs, steered, wakeups, human>>
    /\ UNCHANGED <<entry, redo, notes, resumes, retries>>

\* Work that did not reach origin never gets a gate.  (The first form is
\* faulty: it goes on to the gate.)
IgnoreFailedPush == pc' = "decide" /\ UNCHANGED status
FailClosed == status' = "error" /\ pc' = "final"

PublishFails ==
    /\ pc = "after" /\ Returned
    /\ PushFails
    /\ FailClosed
    /\ UNCHANGED <<stage, pending_redo_stage, gate_kind, resume, ask_count,
                   auto_retries, budget_override, steer_note>>
    /\ UNCHANGED <<tables, workspace, archive, run, runs, steered, wakeups, human>>
    /\ UNCHANGED <<entry, redo, notes, resumes, retries>>

\* The guards no autonomy mode may skip (_auto_guards_ok).
GuardsWithoutRedo == ~run.conflicted    \* faulty: a redo may pass by itself
GuardsOk == ~run.conflicted /\ decision[run.stage] # "redo"

\* A clean done that the gate mode lets through enters the next stage.
AutoAdvance ==
    /\ pc = "decide" /\ run.result = "done"
    /\ run.stage \in AutoStages /\ GuardsOk
    /\ decision' = [decision EXCEPT ![run.stage] = "auto"]
    /\ EnterNext
    /\ status' = "queued"
    /\ run' = [run EXCEPT !.requeue = TRUE]
    /\ pc' = "final"
    /\ UNCHANGED <<pending_redo_stage, gate_kind, resume, auto_retries,
                   budget_override, steer_note, base_sha, attempts>>
    /\ UNCHANGED <<git, runs, steered, wakeups, human, used>>
    /\ UNCHANGED <<published, notes, retries>>

\* Anything else parks.  The gate's fields are written first; a question of
\* a code stage arms the resume of its session, where the session is known.
ParkFields ==
    /\ pc = "decide"
    /\ auto_retries' = 0
    /\ \/ /\ run.result = "ask" /\ run.stage \in AskStages
          /\ gate_kind' = "ask"
          /\ resume' = [stage |-> run.stage, head |-> workspace, answer |-> NoText]
       \/ UNCHANGED <<gate_kind, resume>>
    /\ pc' = "park"
    /\ UNCHANGED <<status, stage, pending_redo_stage, ask_count,
                   budget_override, steer_note>>
    /\ UNCHANGED <<tables, git, run, runs, steered, wakeups, human, used, hist>>

\* Then the gate is open to every channel.
ParkGate ==
    /\ pc = "park"
    /\ status' = "awaiting_input" /\ pc' = "final"
    /\ redo' = NoRedo /\ retries' = 0
    /\ UNCHANGED <<stage, pending_redo_stage, gate_kind, resume, ask_count,
                   auto_retries, budget_override, steer_note>>
    /\ UNCHANGED <<tables, git, run, runs, steered, wakeups, human, used>>
    /\ UNCHANGED <<entry, published, notes, resumes>>

NotRequeued == wakeups  \* faulty: the request to run again is dropped
Requeued == IF run.requeue THEN wakeups + 1 ELSE wakeups

\* The run's last checkpoint; its failure is only logged.  A run that asked
\* for it is enqueued again.
Checkpoint ==
    /\ pc = "final"
    /\ PushOk(workspace) \/ PushFails
    /\ Leave
    /\ wakeups' = Requeued
    /\ UNCHANGED <<row, tables, workspace, archive, runs, human>>
    /\ UNCHANGED <<entry, redo, notes, resumes, retries>>

Requeue ==
    /\ pc = "requeue"
    /\ Leave
    /\ wakeups' = wakeups + 1
    /\ UNCHANGED <<row, tables, git, runs, human, used, hist>>
-----------------------------------------------------------------------------
(* The humans *)

\* An answer's compare-and-set won; its guidance row is the next commit, and
\* the handler enqueues the job only after it told the ticket.
Answered(s, a, enqueues) ==
    unlogged' = [stage |-> s, action |-> a, enqueue |-> enqueues]

\* What can be approved: an open gate that asks no question.  (The first form
\* is faulty: it approves a failed stage.)
ApproveAnyStop == status \in {"awaiting_input"} \cup Failed /\ gate_kind # "ask"
Approvable == status = "awaiting_input" /\ gate_kind # "ask"

BeyondLast == stage <= LastStage     \* faulty: off by one
HasNext == stage < LastStage

Proceed ==
    /\ Approvable /\ HasNext
    /\ Spend("answer")
    /\ EnterNext
    /\ status' = "queued"
    /\ Answered(stage, "proceed", TRUE)
    /\ UNCHANGED <<pending_redo_stage, gate_kind, resume, auto_retries,
                   budget_override, steer_note>>
    /\ UNCHANGED <<tables, git, loop, tails, published, notes, retries>>

\* P9 is approved: the pipeline is complete, with or without a PR.
ProceedLast ==
    /\ Approvable /\ stage = LastStage
    /\ Spend("answer")
    /\ status' \in {"pr_opened", "no_fix"}
    /\ Answered(stage, "proceed", FALSE)
    /\ UNCHANGED <<stage, pending_redo_stage, gate_kind, resume, ask_count,
                   auto_retries, budget_override, steer_note>>
    /\ UNCHANGED <<tables, git, loop, tails, hist>>

\* The answer to a STAGE_ASK keeps the stage and the attempt.
AnswerAsk ==
    /\ status = "awaiting_input" /\ gate_kind = "ask"
    /\ Spend("text")
    /\ status' = "queued"
    /\ resume' = [resume EXCEPT !.answer = used["text"] + 1]
    /\ Answered(stage, "answer", TRUE)
    /\ UNCHANGED <<stage, pending_redo_stage, gate_kind, ask_count,
                   auto_retries, budget_override, steer_note>>
    /\ UNCHANGED <<tables, git, loop, tails, hist>>

\* A gate or a failure can be sent back, a run cannot.  (The first form is
\* faulty: it also takes the row from a run.)
RedoableAnytime == status \in {"awaiting_input", "running"} \cup Failed
Redoable == status \in {"awaiting_input"} \cup Failed

\* A redo goes back to stage k, drops a pending resume and restores the
\* budgets; an admin may let it override the spend budget once.
AnswerRedo(k) ==
    /\ Redoable
    /\ Spend("answer")
    /\ status' = "queued" /\ stage' = k /\ pending_redo_stage' = k
    /\ gate_kind' = "none" /\ resume' = NoResume
    /\ ask_count' = 0 /\ auto_retries' = 0
    /\ budget_override' \in {budget_override, TRUE}
    /\ Answered(k, "redo", TRUE)
    /\ redo' = IF k \in CodeStages \cap DOMAIN base_sha
               THEN [stage |-> k, keep |-> entry[k],
                     drop |-> AgentWork(origin) \ (entry[k] \cup base_sha[k])]
               ELSE [NoRedo EXCEPT !.stage = k]
    /\ notes' = {} /\ resumes' = 0 /\ retries' = 0
    /\ UNCHANGED <<steer_note, entry, published>>
    /\ UNCHANGED <<tables, git, loop, tails>>

Skip ==
    /\ Redoable
    /\ Spend("answer")
    /\ status' = "skipped"
    /\ Answered(stage, "skip", FALSE)
    /\ notes' = {}
    /\ UNCHANGED <<stage, pending_redo_stage, gate_kind, resume, ask_count,
                   auto_retries, budget_override, steer_note>>
    /\ UNCHANGED <<tables, git, loop, tails>>
    /\ UNCHANGED <<entry, redo, published, resumes, retries>>

\* guidance_add, the commit after the compare-and-set.
LogDecision ==
    /\ unlogged.action # "none"
    /\ decision' = IF unlogged.action \in {"proceed", "redo"}
                   THEN [decision EXCEPT ![unlogged.stage] = unlogged.action]
                   ELSE decision
    /\ tails' = IF unlogged.enqueue THEN tails + 1 ELSE tails
    /\ unlogged' = NothingUnlogged
    /\ UNCHANGED <<row, base_sha, attempts, git, loop, used, hist>>

\* The handler's awaits are over: the job is enqueued.
EnqueueAnswer ==
    /\ tails > 0
    /\ tails' = tails - 1 /\ wakeups' = wakeups + 1
    /\ UNCHANGED <<row, tables, git, pc, run, runs, steered, unlogged, used, hist>>

\* A skipped or fix-less feature is submitted again: feature_intake resets
\* the pipeline state in one transaction.  The branch and the remaining
\* columns stay.
Reintake ==
    /\ status \in {"skipped", "no_fix"}
    /\ Spend("lap")
    /\ status' = "received" /\ stage' = 0 /\ pending_redo_stage' = NoStage
    /\ gate_kind' = "none" /\ resume' = NoResume /\ ask_count' = 0
    /\ decision' = [s \in Stages |-> "none"]
    /\ base_sha' = [s \in {} |-> {}] /\ attempts' = [s \in Stages |-> 0]
    /\ wakeups' = wakeups + 1
    /\ entry' = [entry EXCEPT ![0] = AgentWork(origin)]
    /\ redo' = NoRedo /\ resumes' = 0
    /\ UNCHANGED <<auto_retries, budget_override, steer_note>>
    /\ UNCHANGED <<git, pc, run, runs, steered, human, published, notes, retries>>

SteerAgain == SessionPersistence /\ pc # "idle"   \* faulty: a second note overwrites
SteerOpen == SessionPersistence /\ pc # "idle" /\ ~steered

\* request_steer while the run holds its handle: the note is stored and the
\* event set.  (Otherwise the note becomes guidance, which every later prompt
\* carries, and nothing modelled here changes.)
Steer ==
    /\ SteerOpen
    /\ Spend("text")
    /\ steer_note' = used["text"] + 1
    /\ steered' = TRUE
    /\ notes' = notes \cup {[text |-> used["text"] + 1, cli |-> pc = "invoke"]}
    /\ UNCHANGED <<status, stage, pending_redo_stage, gate_kind, resume,
                   ask_count, auto_retries, budget_override>>
    /\ UNCHANGED <<tables, git, pc, run, runs, wakeups, human>>
    /\ UNCHANGED <<entry, redo, published, resumes, retries>>

\* Somebody else pushes to the feature branch.
ThirdPartyPush ==
    /\ Spend("push")
    /\ origin' = origin \cup {[by |-> "push", id |-> used["push"] + 1]}
    /\ published' = published \cup origin'
    /\ UNCHANGED <<row, tables, tracking, workspace, archive, loop, human>>
    /\ UNCHANGED <<entry, redo, notes, resumes, retries>>

OnlyInterrupted == {"running"}    \* faulty: jobs still in the queue are forgotten
Recovered == Pending \cup {"running"}

\* The process dies and boots again: an interrupted run is queued again, and
\* whatever is pending gets a wakeup.
Crash ==
    /\ Spend("crash")
    /\ status' = IF status = "running" THEN "queued" ELSE status
    /\ Leave
    /\ wakeups' = IF status \in Recovered THEN 1 ELSE 0
    /\ tails' = 0 /\ unlogged' = NothingUnlogged
    /\ UNCHANGED <<stage, pending_redo_stage, gate_kind, resume, ask_count,
                   auto_retries, budget_override, steer_note>>
    /\ UNCHANGED <<tables, git, runs, hist>>
-----------------------------------------------------------------------------
(* The specification *)

Worker == \/ DropWakeup \/ BudgetBlock \/ StartRun \/ RunRaises
          \/ PrepareBranch \/ PrepareFromBase \/ PullNothing \/ PullEdit
          \/ SkipGroup \/ Launch
          \/ SessionLost \/ AgentReturns \/ AgentInterrupted
          \/ SteerResumes \/ SteerFallsBack
          \/ RetryTransient \/ RunFails \/ Publish \/ PublishFails
          \/ AutoAdvance \/ ParkFields \/ ParkGate \/ Checkpoint \/ Requeue

Humans == \/ Proceed \/ ProceedLast \/ AnswerAsk \/ Skip \/ Reintake \/ Steer
          \/ \E k \in 0..stage : AnswerRedo(k)

\* Between an answer's two commits nothing else runs, but the process may die.
Next == \/ LogDecision
        \/ Crash
        \/ /\ unlogged = NothingUnlogged
           /\ Worker \/ Humans \/ EnqueueAnswer \/ ThirdPartyPush

Spec == Init /\ [][Next]_vars

\* The run loop is always polling, every await it makes has a timeout, and an
\* answer handler runs to its end: no fairness is asked of humans or of faults.
Fairness == /\ WF_vars(unlogged = NothingUnlogged /\ Worker)
            /\ WF_vars(LogDecision)
            /\ WF_vars(unlogged = NothingUnlogged /\ EnqueueAnswer)

FairSpec == Spec /\ Fairness
-----------------------------------------------------------------------------
(* What the pipeline must guarantee *)

\* No job is stranded: a row that waits to run has a wakeup in the queue, or
\* a run or an answer handler that will still enqueue it; a row that says
\* running has a run behind it.  (worker._enqueue, run_forever)
NoStranded ==
    /\ status \in Pending => \/ wakeups > 0 \/ tails > 0 \/ unlogged.enqueue
                            \/ pc = "requeue" \/ (pc = "final" /\ run.requeue)
    /\ status = "running" => pc \in Busy

\* From its dispatch to its gate a run has the row for itself: whatever the
\* humans do, the row says running and stays at the stage that is being run.
\* (worker._answer_feature_inner, JobStore.cas_status)
RunOwnsRow == pc \in Busy => status = "running" /\ run.stage = stage

\* A gate never shows work that is not on origin.  (engine._after_run)
GateIsPublished ==
    status = "awaiting_input" => AgentWork(workspace) \subseteq origin

\* A session is resumed only on the branch it was parked on: nothing but the
\* engine's own edits came in between.  (engine._run_stage_inner)
ResumeSeesParkedBranch ==
    pc \in {"pull", "launch"} /\ run.resuming =>
        {c \in workspace : c.by # "edit"} = {c \in resume.head : c.by # "edit"}

\* Between two gates, and between two human redos, the engine retries a
\* stage at most once.  (engine._after_run, _park)
OneTransientRetry == retries <= 1

\* Every commit that was ever on origin still is, or an archive ref there
\* keeps it.  (engine._push_branch, the rewind of _run_stage_inner)
WorkReachable ==
    published \subseteq origin \cup UNION {a.head : a \in archive}

\* The agent that redoes a code stage starts without the rejected attempt.
\* (engine._run_stage_inner)
RedoRewinds ==
    pc = "invoke" /\ redo.stage = run.stage => workspace \cap redo.drop = {}

\* ... and with all the work that was approved when the stage was entered.
RedoKeepsApproved ==
    pc = "invoke" /\ redo.stage = run.stage => redo.keep \subseteq workspace

\* Once a human asked for a stage to be redone, the engine does not pass that
\* stage by itself before a human saw it again.  (engine._auto_guards_ok)
RedoneStageParks ==
    [][pc = "decide" /\ stage' = stage + 1 => redo.stage # stage]_vars

\* A note accepted with 'interrupting' while the CLI runs is never lost: it
\* waits in the row where the interrupted run or the resume will read it.
\* (engine._steer_reenqueue)
NoteKept(n) == \/ steer_note = n.text /\ steered /\ pc \in {"prepare", "pull",
                                                         "launch", "invoke", "steer"}
               \/ resume.answer = n.text /\ gate_kind = "steer"
InterruptingSteerKept == \A n \in notes : n.cli => NoteKept(n)

\* The same of every note the endpoint accepted with 'interrupting'.
AcceptedSteerKept == \A n \in notes : NoteKept(n)

\* Questions never hold a stage in place beyond the budget.
AsksBounded == resumes <= MaxAsks

\* What a status says, as the promise of GateProtocol sees it.
PhaseOf(st) == CASE st \in Pending \cup {"running"} -> "working"
                 [] st = "awaiting_input"           -> "gate"
                 [] st \in Failed                   -> "failed"
                 [] st \in {"skipped", "no_fix"}    -> "dropped"
                 [] st = "pr_opened"                -> "shipped"

\* Only a decision moves the pipeline off a gate, nothing approves a failed
\* stage, and the engine passes by itself only the stages it may.
Gate == INSTANCE GateProtocol WITH phase <- PhaseOf(status), at <- stage,
                                   AutoStages <- AutoStages \cup {GroupStage}
ImplementsGate == Gate!GateSpec

\* Whatever a human sent back to work ends at a gate, in an error or at the
\* end: no queued or running job waits forever.
WorkEnds == PhaseOf(status) = "working" ~> PhaseOf(status) # "working"
=============================================================================
