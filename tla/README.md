# A formal model of the gumo_brain service

gumo_brain (`src/`, "Ctrl Loop") turns tickets into pull requests. A *feature*
goes through ten stages (P0 to P9); each stage is one run of a coding CLI on the
feature's git branch, and between stages a human answers a gate. This directory
holds TLA+ modules that model the service, TLC configurations that check them,
and proofs that TLAPS checks. `PROJECT.json` maps every definition to the lines
it stands for and lists runs, mutants, findings, hazards and theorems.

- [1. The system](#1-the-system)
- [2. Modules](#2-modules)
- [3. Pipeline: one feature](#3-pipeline-one-feature)
- [4. Dispatch: several workers](#4-dispatch-several-workers)
- [5. The loops beside the pipeline](#5-the-loops-beside-the-pipeline)
- [6. The desk between the pipeline and its people](#6-the-desk-between-the-pipeline-and-its-people)
- [7. Runs](#7-runs)
- [8. Proofs](#8-proofs)
- [9. Not modelled](#9-not-modelled)
- [10. What could come next](#10-what-could-come-next)

## 1. The system

One Python process (FastAPI, one asyncio event loop) on SQLite, or several on
Postgres. The table names the parts of `src/app`, the state each keeps, who it
talks to, what is hard about it and what would make it correct. Parts that hold no
protocol state (logging, secrets, prompts, HTTP clients, the browser UI) are listed in
`PROJECT.json` only.

| part | state | operations and interactions | what is hard | what makes it correct |
|---|---|---|---|---|
| `worker.py` loop | in-memory queue (SQLite) or claims (Postgres); `jobs` rows | `_next_job`, `_process`, error handler, boot recovery; calls the engine under a repository lock | crash between row and queue, re-queue during a run, several workers | no row is stranded; one run per row; the loop survives |
| `worker.py` answers | `jobs`, `guidance_log` | `/proceed`, `/redo`, `/skip`, answers to questions, from dashboard and ticket comments | two channels, a run in progress, a crash between two commits | an answer applies once, to the gate it was given at |
| `engine.py` | `stage_state`, `stage_runs`, resume and redo columns; steer events in memory | `run_stage`: checkout, rewind, resume, CLI, publish, park or advance; `request_steer` | redo rewinds history; questions resume sessions; retries; steering; crash anywhere | approved work is kept, rejected work is dropped but archived, budgets hold |
| `fixer.py` | the clone, the CLI process | `prepare_feature_workspace`, the streaming CLI run | failed fetches, timeouts, lost sessions, interruption | a branch is never silently rebuilt |
| `artifacts.py` | `artifact_state` hashes, ClickUp subtasks, files on the branch | `pull` before a run, `push` after it | edits on both sides of a run | nobody's edit is lost |
| `repolocks.py` | asyncio or Postgres advisory locks | per-repository locks, two global CLI locks | nested locks, dropped connections | no deadlock; one writer per clone |
| `db.py` | every table | compare-and-sets, claims, FTS index | each method is a commit of its own | the compare-and-sets order concurrent callers |
| reaper, scans, digests (`routines.py`, `digests.py`, `signals.py`) | `routines`, `routine_runs`, in-flight set, `inbox_items`, `gate_events` | scheduler claims a due routine and fires a handler; handlers file items and send | two schedulers, run-now, edits, overlapping firings, late reads, a death between store and send | one firing per slot; each event told once; a proposal made and taken in once |
| watches (`outcome.py`, `worker.py`) | `jobs` of kind watch, metric reads, `outcomes` | spawn on ship, daily reads, verdict gate | merge before approval, deadline against a human's answer | one watch per shipped feature; a verdict is of its own window |
| PR shepherd (`worker.py`, `github.py`) | `prs` | poll state, fix rounds under the lock, notify | the PR moves between read and act | no fix for what was answered; every review ends |
| verb scan (`worker.py`, `clickup.py`) | `comment_marker`, `gate_events` | poll comments, route verbs | stale rows, refused verbs, crash between row and reply | each comment has one effect; the owner is heard |
| requests: Sentry issues, tasks, tickets (`worker.py`, `main.py`) | `jobs` of kind sentry/task | intake, two phases with an approval between, retry | the row of the last life | no code without a human's word; one ticket |
| gate chat (`engine.py`, `fastlane.py`, `chatstream.py`) | `gate_chat` rows, sessions, broker | answer from cached text or a tool run | gate decided meanwhile, one chat at a time, shutdown | a reply belongs to the gate it was asked at; the chat reopens |
| decisions and Slack ingest (`db.py`, `slack_ingest.py`) | `decisions`, FTS index, watermark | candidates, confirm, dismiss, supersede, paged pass | several confirmers, truncated pages | only confirmed decisions are in force; no candidate hidden |
| `autonomy.py` | cells, runs, pins | scoring pass, clawback, resolver | a pass that read before a clawback | trust is earned since the last brake |
| `roles.py`, `budgets.py`, `grading.py` | configuration rows | decisions over rows | empty columns, overrides | fail closed |
| `auth.py`, `identity.py`, `rbac.py` | users, sessions, tokens | login, lockout, single sign-on, roles | last admin, reset against live sessions | an instance keeps an admin; sessions end |

How they meet: HTTP handlers, the ClickUp poller and the routines call
`Worker` methods, which change rows by compare-and-set and enqueue; the loop
takes a row and calls `Engine.run_stage` under `repolocks`; the engine uses
`fixer` for the branch and the CLI and `artifacts` for the mirror, and parks the
row. Everything shares the `jobs` row and, per feature, the branch on origin.

Every hazard found in this code is listed in `PROJECT.json` at its line, with
the properties that cover it or the reason why none does yet.

## 2. Modules

| module | what it is |
|---|---|
| `GateProtocol` | abstract: what the pipeline promises its humans (work, gate, decision), nothing of how |
| `Pipeline` | one feature in the single-worker service: row, branch, worker loop, stage run, humans |
| `Dispatch` | the multi-worker service: claims, locks, crashes, recovery, the reaper |
| `Outcome` | merge notices, the post-ship watch, its windows, verdict, answers, memory draft |
| `Shepherd` | one pull request under review by the shepherds of several processes |
| `Routines` | the scheduler: slots, claims, run-now, edits, boots |
| `Autonomy` | the scorer, clawback, pins and the resolver that licenses an automatic advance |
| `Digest` | a report handler: period, window, item, send |
| `Proposals` | a scan: bands, dedupe, recency, adoption and dismissal, memory upkeep |
| `Escalation` | the ladder of an overdue gate, and who owns a gate |
| `VerbScan` | verbs in ticket and subtask comments |
| `Requests` | the two-phase flow of Sentry issues and tasks and of their tickets |
| `GateChat` | questions at a gate, sessions, the workspace lock |
| `Broker` | the buffer and the viewers of a live stream |
| `Registry` | decisions, their index, the Slack pass |
| `Accounts` | the first administrator, sign-in, sessions, users |
| `Loops`, `Desk` | the six loops, and the seven parts of the desk, composed |
| `MCPipeline`, `MCDispatch`, `MCLoops`, `MCDesk` | values and bounds for TLC |
| `PipelineProofs`, `PipelineRunProofs` | theorems about `Pipeline` |
| `DispatchProofs`, `AutonomyProofs`, `AccountsProofs` | theorems about `Dispatch`, `Autonomy`, `Accounts` |
| `LoopsProofs` | theorems about `Outcome`, `Shepherd`, `Routines`, `Digest`, `Proposals`, `Escalation` and `Loops` |
| `DeskProofs` | theorems about `VerbScan`, `Requests`, `Registry` and `Desk` |
| `ChatProofs` | theorems about `GateChat`, `Broker` |

`Pipeline` and `Dispatch` look at one service from two sides. `Pipeline` follows
one job into its branch and leaves the other jobs out; `Dispatch` follows
many jobs across workers, locks and time, and leaves out what a run does. They
meet at the row: what `Dispatch` calls a run that parks, fails or re-queues is
the whole of `Pipeline`'s worker actions between `StartRun` and `ParkGate`.
The other modules hang on that row too, at one point each: `Outcome` begins where
`Pipeline` says `pr_opened`, `VerbScan` and `Escalation` watch a row that waits at a
gate, `Autonomy` decides what is a choice in `Pipeline` (may this stage pass by
itself), `GateChat` shares the workspace with a stage run, and `Routines` is
the scheduler of the handlers in `Digest` and `Proposals` and of the reaper in `Dispatch`.

The modules keep, before a definition that a mutant replaces, a form of it marked
"faulty". No action uses those: the runs are repeated with each one in the place
of the right one, and the property must then fail.

## 3. Pipeline: one feature

*State.* The columns of the `jobs` row that the control reads (`status`,
`stage`, `pending_redo_stage`, `gate_kind`, `resume_*`, `ask_count`,
`auto_retries`, `budget_override`, `steer_note`), the last decision per stage
(`guidance_log`), `base_sha` and `attempts` (`stage_state`), the branch as seen by origin,
by the clone's tracking ref and by the clone, the archive refs, and the worker:
program counter, locals of the run, steer event, wakeups in the queue, answer
handlers that have still to enqueue. A branch head is the set of commits it reaches.

*Atomicity.* The service is one event loop, so a stretch of code without an
`await` is one action. Where a crash between two commits inside such a stretch makes
a difference, the action is split: an answer's compare-and-set and its
guidance row (`LogDecision`), the two writes of `_park` (`ParkFields`,
`ParkGate`).

*Actions.* `StartRun`, `BudgetBlock`, `PrepareBranch`, `PrepareFromBase`,
`PullNothing`/`PullEdit`, `SkipGroup`, `Launch`, `AgentReturns`, `SessionLost`,
`AgentInterrupted`, `SteerResumes`/`SteerFallsBack`, `RetryTransient`,
`RunFails`, `Publish`/`PublishFails`, `AutoAdvance`, `ParkFields`, `ParkGate`,
`Checkpoint`, `Requeue`, `RunRaises` follow `run_stage` from its first to its last
line. `Proceed`, `ProceedLast`, `AnswerAsk`, `AnswerRedo`, `Skip`, `Reintake`
and `Steer` are the humans, `ThirdPartyPush` another git client, `Crash` the
process dying and booting again.

*Abstractions.*
- Guards of an automatic advance (`mirror_ok`, draft PR, open questions) are a
  nondeterministic choice, restricted to the stages in `AutoStages`; the redo
  guard is exact because properties depend on it.
- Whether a plan has one build group is chosen at every visit of `GroupStage`.
- `BranchLostError` and other exceptions before the CLI are `RunRaises`; exceptions in
  git after the run are `PublishFails`.
- A `set_fields` followed by a `set_status("queued")` with no await between is one
  action, except where named above.
- ClickUp and Slack calls swallow their errors, and writes to the local SQLite
  file succeed; git and the CLI may fail.
- A live run is never reaped here: that question belongs to `Dispatch`.
- A queued note that becomes guidance text is left out: it changes no control.
- An agent works on the branch only by adding commits.

*Bounds.* `LastStage = 2` gives a document stage, an optional code stage and the last
one: every rule of the code that compares stages compares at most three of them.
`MaxAsks = 1` with two questions reaches the limit and one beyond. `Limits` is a set of
bounds, one of which is chosen in the first state: how often each kind of event from outside may
happen (answers, text from humans or questions, second laps, crashes, faults,
failed fetches, foreign pushes, edits). `MCPipeline` says how many for each run; the engine
itself is not bounded. `CHECK_DEADLOCK FALSE`: when the events are spent, a
shipped, dropped or gated feature really stops.

*Fairness.* Weak fairness of the worker's step, of `LogDecision` and of
`EnqueueAnswer`: the loop awaits only operations with timeouts (CLI, git and
HTTP), and a handler that was started is run to its end by the event loop. None for humans, crashes
or faults.

## 4. Dispatch: several workers

*State.* For every job its `status`, `claimed_by` and the age of its
`run_started_at`; for every worker its step, job and the CLI time left; for every
repository the holder of its advisory lock and the queue for it; the rows the
reaper has read and not yet written.

*Actions.* One worker's turn: `Claim`, `AcquireRepo`, `StartRun`,
`WantCanonical`, `AcquireCanonical`, `StartCli`, `CliReturns`, `Settle`, `Refuse` or
`Requeue`, `LeaveRepo`, `ReleaseClaim`; its failures `FetchFails`, `Raise`,
`HandleError`, `HandlerFails`, `Crash`; `Boot` with the scoped recovery; the
reaper's `ReapFirst` and `ReapNext`; the humans' `Proceed` and `Redo`; `Tick`.

*Time.* `Tick` is possible only when every worker is waiting for a lock, for its CLI or
for work: everything else takes no time, so an early reap in the model is one
that no slow disk or network is needed for. `Timeout = 2` and `Grace = 1` keep the order
of the defaults (2400 s and 600 s); ages beyond the horizon are alike.

*Abstractions.*
- Jobs are features and memory bootstraps. The claim's order (priority, then age) is left
  open.
- The two global locks around the CLI's configuration directory are always taken last and
  their holder waits for nothing but its bounded run, so they are part of the CLI's time.
- Boot recovery is one transaction; the reaper's read and first write have no await
  between them, each further write follows an await; one firing at a time.
- A worker that died need not come back, and one that returns under another
  `hostname:pid` is a worker that never does.
- A run may raise until its result is written; after that its awaits swallow
  their errors.

*Bounds.* Two workers and two jobs of two projects are the smallest instance with
a sibling, a lock that is not the job's own, and a job to steal; `dispatch_claims` has
each kind of event once, `dispatch_live` enough for both workers to be gone at
once and for a loop to end.

*Fairness.* Every await of a worker has a timeout and ends; the reaper is a routine that
cannot be disabled and runs in every live process; time passes. No worker need return, so
`JobsSettle` asks something only while some worker is there.

## 5. The loops beside the pipeline

Six modules, composed in `Loops` and checked by `MCLoops`. A step of each ends at an `await`; what a
process read before it, it uses as it was. Processes are several wherever the code may run in
several. A process may die at any await, and its locals are then gone.

**`Outcome`** (`Worker._watch_pass`, `_finish_watch`, `_answer_watch_inner`, `_maybe_spawn_watch`, `outcome.py`).
State: the feature's status and lap, the pull requests merged and noticed, the watch row with
its current window, the readings, the ledger row, the packet of the Iterate gate, and for
each process how far its notice and its finish are. The merge is noticed by
`NoticeSteps` (row first, then the feature) and by `ApprovalChecks` (feature first, then the rows):
whoever comes second must see the other. `FinishSteps` are the final reads, the
baseline, the ledger and the compare-and-set that parks the gate. `WatchProceed`,
`WatchSkip`, `WatchRedo` answer it. A number is not modelled: a window has a successful reading or
none, and a verdict can be judged or not.

**`Shepherd`** (`Worker._shepherd_pr`, `Engine.record_prs`). State: the pull request and
the bot on GitHub, the `prs` row, the findings with their replies, one pass per
process, the kick of the run. `PassStep` goes from the read through the lock, the second read, the fix run, the
replies and the next trigger; `BotStep`, `HumanEnds`, `RunPushes` are the world. A fix
is an outcome with a push or without. The module also shows that a review may be recorded as
approved for a head that was pushed after the clean pass: the code records the head it finds
then, and promises nothing else, so no property forbids it.

**`Routines`** (`RoutineScheduler._dispatch_due`, `_run_one`, `request_run`, `routine_claim`). A row
knows whether it has a stamp and whether its next occurrence has come; a tick knows which rows it
read have not been stamped since. `Fire` is the claim, `FiringStep` the task with its
two records, either of which may fail to be stored. `Edit` is the operator: a row off or on, another
schedule.

**`Digest`** (`_handle_standup`, `_handle_weekly_planning`, `digests.py`). Moments, the period of a
moment (two moments are one), the anchor (`routine_last_success`), items and sends.
`Build` decides whether there is something to tell, `ExpireAndSend` closes the predecessors.

**`Proposals`** (`signals.py`, `_handle_risk_scan`, `_handle_proposal_scan`, `_handle_memory_upkeep`, the
adopt and dismiss handlers). One family of alerts or proposals at a time, its counts by age,
the note of each band, adopters, and the job of the memory upkeep.

**`Escalation`** (`Worker._sla_once`, `_sla_escalate`, `roles.gate_owner`). A gate's age in rungs of its SLA, the
stored steps and the sends; `ReadRow` reads the rows once, `SweepStep` reaches the
job later, stores the step before it sends.

*Fairness.* Weak fairness of every loop's pass and of time: the loops are `while True` with
a sleep and catch every exception of a pass, and a process that dies is restarted by
its supervisor (`SchedBoot`). Strong fairness only for a firing of `Routines`, which a
tick interrupts over and over: the event loop runs every ready task before the scheduler's next
sleep ends. No human, no merge, no push and no fault is fair.

## 6. The desk between the pipeline and its people

Seven modules, composed in `Desk` and checked by `MCDesk`.

**`VerbScan`** (`Worker._poll_awaiting`, `_scan_verbs`). Comments are numbers,
which are dates as well; the marker is stored with the job, the subtask has the time of
the gate as its fence. A poll holds the row it was given through all its awaits. A verb is
`proceed` or one that cannot be applied (`bad`), or the comment is talk; an author is the owner, another
known person, a stranger without a linked account, or the engine itself.

**`Requests`** (`Worker.intake`, `_process_sentry`, `_process_task`, `_poll_intake`, `_answer_v1`, `main.trigger`). One
job of either kind through webhook, dashboard, form and ticket, phase 1, the question, phase 2,
one retry and a crash at every await. What the row of the last life keeps is exactly the
columns that the code does not reset.

**`GateChat`** (`Engine.chat`, `_chat_inner`, `main.gate_chat_post`). A question is a row and a task; the
task is in the fast lane, waits for the workspace lock, is inside, stores its answer, or
is dead. The wait lets the stage move on; the answer is stored under the gate that the code
names. `tree` is what a chat left in the workspace.

**`Broker`** (`chatstream.py`), line by line: the buffer is found by the job alone, so a turn
that overlaps its successor publishes into the successor's.

**`Registry`** (`decision_*` in `db.py`, the handlers, `Worker._slack_ingest_channel`). Status per
decision, the index, and a pass with its cursor, its bound of pages and its watermark. A
handler reads a row and swaps its status later.

**`Accounts`** (`auth.py`, `identity.py`, the user handlers). Handlers do not pause, so each is a
step, except `jit_provision`, which creates and links in two commits. An epoch per account counts
what ends its sessions.

**`Autonomy`** (`autonomy.compute`, `resolve_gate`, `JobStore.autonomy_score_upsert`,
`autonomy_clawback`). The formula is exact in hundredths; the two factors that come from latencies and review
rounds are any of three values. A pass reads its runs in one step and upserts in
another. Two passes have no guard against each other, so an older one may overwrite the level of a
newer one; what it writes was still earned since the last clawback, and the properties allow it.

*Fairness.* Weak fairness of pollers, of the consumer of requests, of stage runs,
of a turn's end (it is in a `finally`), of a viewer's generator and of the scorer; strong
fairness of a chat's step, because the lock's queue is first come first served and a
stage's run may take the lock in between. None for people or faults.

## 7. Runs

Passing runs:

| run | asks |
|---|---|
| `pipeline_gates` | is a waiting row always going to be woken, does a run keep its row, does the service implement `GateProtocol`, does whatever is sent to work stop working? |
| `pipeline_branch` | is what a gate shows on origin, is a session resumed only on the branch it was parked on, does a note that interrupted the CLI reach the resumed session, do questions and retries stay in their budgets? |
| `pipeline_redo` | does a redo drop exactly the rejected work and reach a human? |
| `dispatch_claims` | does a live run own its row, does a corpse stay findable, is the reaper right about the dead, does the loop live, can runs wait for each other? |
| `dispatch_live` | does every queued row settle, as long as some worker is there? |
| `loops` | for each of the six loops: its safety properties and that it goes on |
| `desk` | for each of the seven parts of the desk: its safety properties and that nobody is left waiting |

*One part at a time.* The modules that `Loops` composes, and those of `Desk`, share no variable. The run
chooses a `focus` in the first state and steps only that module, so the state spaces add
up; in `MCLoops` and `MCDesk` what stands still stays at one initial state (`MCLoopsInit`, `MCDeskInit`), and the fairness of a module holds where it is
followed. The property of a module is checked on every behaviour of it under its bounds.
A conjunction such as `LedgerIsTrue` names the parts it consists of, each with a comment
of its own in its module.

*Bounds.* Two of everything that competes (processes, people, gates, pull requests, questions,
subjects) is the smallest instance with a competitor; where one process already interleaves with
itself, with handlers and with humans there is one (`Watchers`, `Scorers`, `Pollers`, `SlackPollers`). A
counter with a limit in the code has a bound at which the limit is reached and passed:
`MaxRounds = 2`, `LockoutAttempts = 2`, `TurnsPerGate = 3` with three questions,
`MaxEvents = 2` with four pieces, `PageLimit = MaxPages = 1` with two messages, `MinRuns = 1` of two
runs, `Window = 2` days. The outside events are bounded per kind: `WatchLimit`, `ReviewLimit`,
`RoutineLimits` (any two kinds), `DigestLimit`, `ScanLimit`, `SlaLimit`, `MaxCrashes`, `ChatDeaths`,
`SlackFaults`, `ProvisionCrashes`, `Edits`, `SignIns`, `Disturbances`. `CHECK_DEADLOCK FALSE`
everywhere: with the events spent a system at rest stops.

Three turns at a gate are needed to see that a second question may come in while the first is
in flight: `_chat_pending` (`src/app/main.py:2073`) looks at the last row of the gate, the late
answer of a question that was given up becomes that row, and a third question is let in although
the second is still being answered and `docs/CONVERSATIONS.md:53` speaks of a 409. So
`ChatIsContained` says "one at a time until one has waited too long", and is proved in that form.

Runs that find a violation. Each checks one property that the code, its comments or
its documentation states, and has an entry under "findings":

| run | what happens |
|---|---|
| `lost_rewind` | a crash after a rewind forgets the rewind: the stage is redone on the rejected attempt |
| `lost_steer` | a note accepted as "interrupting" outside the CLI is read by nobody |
| `rebuilt_from_base` | a failed fetch at P0 rebuilds an existing branch and pushes over it |
| `reaped_waiting_run` | a run that waited for the canonical repository is reaped alive |
| `monorepo_deadlock` | two slugs of one repository make a run wait for a lock it holds |

The passing runs state hypotheses through their bounds, and the code departs from the
properties without them.

- `pipeline_redo` has no crash (`lost_rewind`; and a crash between the compare-and-set of
  a redo and its guidance row leaves a redone stage that passes its gate by itself), no
  failed call (a rejected push leaves the redo to be made on the rejected attempt), no failed fetch
  (`rebuilt_from_base`), no second lap (its attempts are archived under the names of the first
  lap's, the push is rejected and the attempt lost) and no optional stage (a redo of a stage that the
  last lap skipped resets to the old baseline, below work approved since; `RedoKeepsApproved` and
  `WorkReachable` fail then without any disturbance). The proofs separate what needs what:

  | property | theorem | needs |
  |---|---|---|
  | `RedoRewinds` | `RedosRewind` | no crash, no failed call, no foreign push |
  | `RedoKeepsApproved` | `RedosKeepApproved` | no failed call or fetch, no skipped stage |
  | `WorkReachable` | `WorkStaysReachable` | no crash, no failed call or fetch, one lap, no skipped stage |
  | `RedoneStageParks` | `RedoneStagesPark` | no crash |

- `pipeline_branch` has no crash (one while the gate is parked restores the retry budget without
  a gate) and no failed fetch (a rebuilt P0 resumes a session on another branch).
- `dispatch_claims` has one crash (with two, the reaper's list is stale by its second row, which
  may be recovered and running again), no failing error handler (whose exception ends the
  loop), no memory bootstrap beside a feature and one repository per project.
- `desk` and `loops` follow one process of each poller of tickets and channels and of the watch:
  the service runs them in one event loop (`docs/CONVERSATIONS.md:79`,
  `docs/ENTERPRISE-READINESS-GAPS.md:62`). Two watching processes would break
  `VerdictOfItsWindow`: the compare-and-set of `_finish_watch` looks at the status alone, so a
  process that judged the last window may park the gate of the next one.
- `loops` has no "lost" event in `Shepherd` (a pass that dies between its replies and the next
  trigger leaves a review that nobody asks for again), no "lostNotice" in `Outcome` (a process that
  dies between a merge's row and the spawn leaves a shipped feature without a watch) and no second
  lap (the rows of the first lap's pull requests stay, and one of them that was merged starts
  the watch of a feature whose new pull request is still open).
- `OwnerIsHeard` excepts a verb that cannot be applied where no marker moves
  past it: it is met again by every poll, and verbs written after it wait for it.
- `ChannelIsRead` excepts a window that does not fit into a pass: the watermark is held, by
  design, and the older part is not read before the bound is raised.

Other departures show in no property because the code promises nothing of them: an automatic
retry starts a new attempt with the `ask_count` of the old one; a human edit
committed during a run is below the reset of that stage's redo, while its hash says it was
synced; a crash between the two commits of `jit_provision` leaves an account that is in the way
of its person's sign-ins; a sign-in through the provider issues a session for a disabled
account, which becomes live if the account is enabled later; two tickets of one Sentry issue
take turns in adopting its row; an answer to a chat that waited over a redo is stored under the attempt it
was asked at; a viewer of a turn past the cap of its buffer is not given what came before.

## 8. Proofs

`PipelineProofs`, for every number of stages, every set of code and automatic stages and
every bound:

- `TypeCorrect`: `Spec => []TypeOK`.
- `RunHoldsItsRow` and `NobodyStranded`: `RunOwnsRow` and `NoStranded` together with the
  types form the inductive invariant. Neither part is inductive alone: a queued row with a run
  behind it would be claimed by a second wakeup, and ownership is what excludes it.
- `PipelineKeepsPromise`: every step of `Pipeline` is a step or a stutter of
  `GateProtocol` under `phase <- PhaseOf(status)`, `at <- stage`.

`PipelineRunProofs`, on top of that invariant:

- `AsksStayBounded`: the counter of resumed questions never exceeds the column (`AskInv`), and a
  run that will be counted was let in below the limit; the second half is what makes
  the first one inductive.
- `RetriesStayBounded`: at most one automatic retry between two gates, while no process
  has died. The hypothesis stands in the theorem (`used["crash"] = 0 => ...`); with a crash it is false.
- `GatesArePublished`: from the push of a result to the answer of its gate, the clone's work is on
  origin, whatever else fails (`PublishedInv`).
- `ResumesSeeTheirBranch`: while no fetch has failed silently.
- `InterruptingNotesStayKept`: while no process has died. A note is at any time in one of two
  places, the row of the run that it interrupted or the resume of its session (`NoteInv`); it
  leaves the second only by delivery, because a run carries the answer it was started with
  and no gate opens over a pending resume (`ResumeConsumed`).
- `RedosRewind`: while nothing is disturbed. `RedoInv` follows a redo from its request, when nothing
  of the rejected attempt is below the baseline (`ToRewind`), through its rewind, after which the
  clone and then origin are rid of it (`Rewound`). New commits are not rejected ones because
  a head holds only commits of runs that have started (`KnownInv`).
- `RedosKeepApproved`: with no stage skipped and no failed call or fetch, but through crashes, foreign
  pushes and laps. What was approved grows with the stages (`EntriesGrow`), every baseline that a
  redo may go back to holds what was approved when its stage was entered (`BasesHold`), and so do
  origin and the clone (`BranchHolds`). A baseline belongs to the current visit of its
  stage exactly when the row is past its launch (`BaseIsOfThisVisit`): that is what a skipped stage breaks.
- `WorkStaysReachable`: in one calm lap, whoever else pushes. What a push of the clone would drop is in
  an archive (`DroppedIsArchived`), and no archive is overwritten because it has the number of an
  attempt before the current one (`ArchivesAreOfOldAttempts`).
- `RedoneStagesPark`: while no process has died, a redo is the last decision of its stage or about to be
  logged (`RedoIsLogged`), so the guards of the automatic advance see it.

`DispatchProofs`, for any workers, jobs, projects and timeouts:

- `NoDeadlock`: with a repository per project and a canonical project that is its own
  canonical project (which `WorkspaceService` enforces), `Spec => []NoLockCycle`. The
  invariant says that a worker holds its job's repository, and the canonical one only
  while it reads; so a waiting holder waits for a canonical repository,
  and the holder of that one waits for nothing. `monorepo_deadlock` shows that the first
  hypothesis is needed.
- `LiveRunOwnsClaim`: `Spec /\ ReapsOnlyTheDead => []RunOwnsClaim`. Whatever
  the other workers, humans and crashes do, only the reaper can take a row
  from under a live run; `reaped_waiting_run` shows that it can.
- `CorpsesAreFound`: the same for `CorpseIsNamed`, which itself says "while the error
  handler's writes have succeeded" (`HandlersSucceed`, over the count of failed ones).
- `LoopsLiveOn`: no process lives on with its loop ended, under the same condition.
- `DispatchTypesHold`: `Spec => []TypeOK`, the queues of the locks included.
- `StartedRunsOutliveTheHorizon`: the part of `ReapsOnlyTheDead` that the code guarantees. From the start of
  a run to the return of its CLI the age of its row and the CLI's remaining time add up to at most
  the CLI's timeout (`FreshRun`), and the horizon is longer than that for a memory bootstrap too;
  so no run that has its lock, and waits for no second one, is in a list that the reaper reads.

`AutonomyProofs`: `TrustStaysEarned`, for any rung, window, number of runs and scorers. The invariant
ties the stored level to the moment its pass read the runs (`basis`), and a pass that is under
way to a set of runs that can only have grown since; a clawback between read and
upsert is what the guard of the upsert has to meet.

`AccountsProofs`: `AccountsStayKept`, for any names, subjects, cap and number of edits. Its
lemmas count administrators and accounts of a subject through every change of one row.

`LoopsProofs`, for any number of processes unless a hypothesis says otherwise:

- `LedgerStaysTrue`: with one watching process, one lap and no lost notice; its parts need less.
  `MergesAreNoticed` holds for any number of watchers and laps. A merged feature is watched, or
  somebody is on the way who will see both the merge and the ship (`MergedFeatureIsWatched`); a finish
  that is under way is of the window the watch is in, and what it stored was judged from a reading of
  that window (`FinishIsOfItsWindow`), which is where one watcher is needed.
- `FixesStayFresh`: a pass holds the lock as soon as it is under way, works on findings that the bot has
  opened, and while it fixes none of them has been answered (`PassIsSound`): replies are
  written under the same lock.
- `SlotsStayKept`: one firing per slot and the service of a request are action properties, the anchor of
  daily rows is an invariant. What a tick read of a row that nobody has stamped since still agrees with the
  row as far as the claim looks (`Unstamped`, `TickIsSound`), and a process has a task for exactly the
  rows it has in `_inflight` (`FiringsAreSound`).
- `DigestsStayExact`: at most one firing has stored a report that it has not sent, and nobody else has
  announced that one (`AddedIsUnsent`); open reports are counted against the firings that were lost
  (`FewOpen`); a standup that is stored told what came before it since the anchor (`StandupsTell`).
- `ProposalsStayKept`: of an adopted proposal one kind is a job or on its way to be one, of any other none
  (`OneKind`), and only proposals are adopted.
- `LadderStaysSound`: a step not stored was never sent (`SentIsStored`), and a sweep that is sending owns
  its step (`OwnStep`): two sweeps never send the same one.

`DeskProofs`:

- `RefusalsStaySingle`, with any number of pollers: a refusal is sent for what was stored just
  before (`RefusedIsStored`). `VerbsHaveOneEffect`, with one: verbs that were applied lie below what an open
  gate was posted and marked at (`GateIsNewer`), and below what the poll under way
  reads next (`Newer`).
- `RequestsStaySafe`: a row that is to implement, and the run that was given it, have been approved
  (`ApprovedRow`); a run works on the row's ticket unless the dashboard attached another (`RunsOnTicket`);
  once a run has made a ticket the row keeps one (`RunMadeOne`).
- `RegistryStaysTrue`: each message above the cursor of a pass and up to the newest it saw has its row,
  is in its batch or is still to be fetched, and a pass that is not truncated has fetched all of them
  (`PassIsTrue`); what lies below the watermark has its row (`RowsUpTo`).

`ChatProofs`:

- `ChatStaysContained`: the question that is being answered is the last row of its gate unless an earlier one
  has waited too long (`LiveIsLast`), rows and sessions keep the gate of their question (`RowsHaveGates`,
  `SessionsHaveGates`), and `TreeInv` follows what a chat leaves in the workspace.
- `StreamStaysSound`: what a viewer was given, its replay and its queue are one rising sequence (`InOrder`)
  that misses no piece it is owed (`IsWhole`), and it is told of the end after all of
  them (`ToldWhenOver`).

Types and composition. `LoopsCompose` and `DeskComposes` show that a step of the composition is a step or
a stutter of each module, so what is proved of a module alone holds in what the runs `loops` and `desk`
check. `LoopsTypesHold` and `DeskTypesHold` follow from them and from the type theorem of each module:
`WatchTypesHold`, `ReviewTypes`, `SchedTypesHold`, `DigestTypesHold`, `SignalTypesHold`, `SlaTypesHold`,
`ScanTypesHold`, `RequestTypesHold`, `ChatTypesHold`, `BrokerTypesHold`, `RegistryTypesHold`,
`AccountsTypesHold` (`RowFine`: what any step writes into a row counts failures below the cap) and
`AutonomyTypesHold` (`LevelsOK`: a pass that is under way holds a level and a time after zero, so an
upsert that the brake lets through leaves a level younger than the brake).

Assumptions are the named ASSUMEs of the modules, which TLC evaluates in every run (among
them: the sets of findings, gates, messages and questions are finite, and there is at least one routine), and
the hypotheses above.

Only model-checked:

- liveness (`WorkEnds`, `JobsSettle`, `LoopsGoOn`, `DeskGoesOn`), which rests on fairness and ENABLED;
- `ReapsOnlyTheDead`, which needs the bound on the waiting time that the code lacks: it holds
  in `dispatch_claims` because two workers cannot make each other wait that long there.

## 9. Not modelled

- **Text and arithmetic**: prompts, packets, formatting, the stream parser of the CLI, budgets'
  sums, the metric comparison of a verdict, the relevance of memory search. A model
  that decides on one of them chooses its outcome.
- **Static decisions**: `rbac.py` is a table; `people.py` and the inbox listing compute views.
- **Operating system and network**: `runner.py`, `runtime.py`, the HTTP clients, the database driver and
  migrations. A statement is atomic, a call succeeds or fails.
- **Secrets, audit, metrics, logging, static pages**: no protocol state.
- **`ArtifactSync.push`** and edits in ClickUp during a run: ClickUp has no compare-and-set, the
  code states no promise for the window between its read and its write, and the loss
  is listed under "hazards".
- **A dropped advisory-lock connection**: Postgres then frees the lock under a live run. The code does
  not notice it, and no module contains it.
- **SAML and SCIM** in `identity.py` are scaffolds without behaviour.
- **Two processes in `Accounts`**: the check for the last administrator is a read and
  a write in one process without a pause; two processes may both pass it. The module follows one.

## 10. What could come next

A composition of `VerbScan` with `Pipeline` (the owner's verb against a run in progress), an
abstract register that `ArtifactSync` would have to implement, and the refinement of `Requests` and
`Pipeline` by one job protocol.
