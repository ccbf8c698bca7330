------------------------- MODULE PipelineRunProofs -------------------------
(***************************************************************************)
(* What a run of Pipeline keeps to, for every number of stages, gate policy *)
(* and bound on the outside events: the ask and retry budgets, that a gate  *)
(* shows nothing that is not on origin, that a note reaches its session,    *)
(* and what a redo drops, keeps and archives.                               *)
(***************************************************************************)
EXTENDS PipelineProofs

\* The ask budget: what was resumed since the stage was entered is counted in
\* the row, and a run that will be counted was let in below the limit.
AskInv ==
    /\ resumes <= ask_count /\ resumes <= MaxAsks
    /\ pc \in {"pull", "launch", "invoke"} /\ run.resuming /\ run.kind # "steer" => ask_count < MaxAsks

\* The retry budget is in the row until the gate's fields are written.
RetryInv == used["crash"] = 0 => retries <= 1 /\ (pc # "park" => retries <= auto_retries)

\* From the push of a result to the answer of its gate the clone's work is on
\* origin.
PublishedInv ==
    status = "awaiting_input" \/ pc \in {"decide", "park"} => AgentWork(workspace) \subseteq origin

\* A resumed run continues on the head that was parked.
ResumeInv == used["fetch"] = 0 => ResumeSeesParkedBranch

\* Steps that touch none of it.
Idle == \/ DropWakeup \/ BudgetBlock \/ RunRaises \/ PullNothing \/ Requeue
        \/ LogDecision \/ EnqueueAnswer \/ Crash \/ UNCHANGED vars

-----------------------------------------------------------------------------
(* The ask budget.                                                          *)

LEMMA AskStep ==
    ASSUME TypeOK, RunOwnsRow, AskInv, [Next]_vars
    PROVE  AskInv'
<1> USE DEF AskInv
<1>0. /\ resumes \in Nat /\ ask_count \in Nat /\ MaxAsks \in Nat /\ run \in Run /\ pc \in PCs
      /\ pc \in Busy => status = "running"
  BY PipelineAssumption DEF PipelineAssumption, TypeOK, RowOK, LoopOK, HistOK, RunOwnsRow
<1>1. CASE UNCHANGED <<ask_count, resumes>> /\ (pc' \in {"pull", "launch", "invoke"} => UNCHANGED run /\ pc \in {"pull", "launch", "invoke"})
  BY <1>0, <1>1
<1>2. CASE Idle
  BY <1>1, <1>2 DEF Idle, DropWakeup, BudgetBlock, RunRaises, PullNothing, Requeue,
     LogDecision, EnqueueAnswer, Crash, Leave, vars, row, loop, hist, tables, git, human
<1>3. CASE StartRun \/ PullEdit \/ SteerResumes \/ SteerFallsBack \/ RetryTransient \/ RunFails
           \/ Publish \/ PublishFails \/ ParkFields \/ ParkGate \/ Checkpoint
  BY <1>1, <1>3 DEF StartRun, PullEdit, SteerResumes, SteerFallsBack, RetryTransient, RunFails,
     Publish, PublishFails, FailClosed, ParkFields, ParkGate, Checkpoint, Leave, row, hist
<1>4. CASE PrepareBranch \/ PrepareFromBase
  <2>1. /\ UNCHANGED <<ask_count, resumes>>
        /\ run'.resuming => (run.kind = "steer" \/ ask_count < MaxAsks)
        /\ run'.kind = run.kind
    BY <1>0, <1>4 DEF PrepareBranch, PrepareFromBase, Checkout, AskBudgetLeft, hist, Run
  <2> QED
    BY <1>0, <2>1
<1>5. CASE SkipGroup \/ AutoAdvance
  BY <1>0, <1>5 DEF SkipGroup, AutoAdvance, EnterNext
<1>6. CASE Launch
  BY <1>0, <1>6 DEF Launch
<1>7. CASE SessionLost
  <2>1. run'.resuming = FALSE
    BY <1>0, <1>7 DEF SessionLost, Run
  <2> QED
    BY <1>0, <1>7, <2>1 DEF SessionLost, row, hist
<1>8. CASE AgentReturns \/ AgentInterrupted
  BY <1>0, <1>8 DEF AgentReturns, AgentInterrupted, Worked
<1>9. CASE Proceed
  BY <1>0, <1>9 DEF Proceed, EnterNext, loop, Approvable, Busy, PCs
<1>10. CASE ProceedLast \/ AnswerAsk \/ Skip \/ Steer \/ ThirdPartyPush
  BY <1>1, <1>10 DEF ProceedLast, AnswerAsk, Skip, Steer, ThirdPartyPush, loop, hist, row
<1>11. ASSUME NEW k \in 0 .. stage, AnswerRedo(k) PROVE AskInv'
  <2>1. pc \notin Busy
    BY <1>0, <1>11 DEF AnswerRedo, Redoable, Failed
  <2> QED
    BY <1>0, <1>11, <2>1 DEF AnswerRedo, loop, Busy, PCs
<1>12. CASE Reintake
  <2>1. pc \notin Busy
    BY <1>0, <1>12 DEF Reintake
  <2> QED
    BY <1>0, <1>12, <2>1 DEF Reintake, Busy, PCs
<1> QED
  BY <1>2, <1>3, <1>4, <1>5, <1>6, <1>7, <1>8, <1>9, <1>10, <1>11, <1>12
  DEF Next, Worker, Humans, Idle

-----------------------------------------------------------------------------
(* The retry budget, as long as the process lives.                          *)

\* A kind of event that has not happened yet afterwards did not happen now.
LEMMA NotSpent ==
    ASSUME TypeOK, [Next]_vars, NEW e \in Events, used'[e] = 0
    PROVE  used[e] = 0 /\ ~Spend(e)
<1>0. used \in [Events -> Nat]
  BY DEF TypeOK, LoopOK
<1>1. ASSUME NEW f \in Events, Spend(f) PROVE used[e] = 0 /\ f # e
  BY <1>0, <1>1 DEF Spend
<1>2. used' = used \/ \E f \in Events : Spend(f)
  BY DEF Next, Worker, Humans, vars, Events, DropWakeup, BudgetBlock, StartRun, RunRaises,
     PrepareBranch, PrepareFromBase, PullNothing, PullEdit, SkipGroup, Launch, SessionLost, AgentReturns,
     AgentInterrupted, SteerResumes, SteerFallsBack, PushOk, PushFails, RetryTransient, RunFails, Publish,
     PublishFails, AutoAdvance, ParkFields, ParkGate, Checkpoint, Requeue, Proceed, ProceedLast,
     AnswerAsk, Skip, Reintake, Steer, AnswerRedo, LogDecision, EnqueueAnswer, ThirdPartyPush, Crash
<1> QED
  BY <1>1, <1>2

\* No retry but the counted one is made.
LEMMA RetryStep ==
    ASSUME TypeOK, RunOwnsRow, RetryInv, [Next]_vars
    PROVE  RetryInv'
<1> SUFFICES ASSUME used'["crash"] = 0 PROVE retries' <= 1 /\ (pc' # "park" => retries' <= auto_retries')
  BY DEF RetryInv
<1>0. /\ retries <= 1 /\ (pc # "park" => retries <= auto_retries) /\ ~Crash
      /\ retries \in Nat /\ auto_retries \in {0, 1} /\ pc \in PCs
      /\ pc \in Busy => status = "running"
  BY NotSpent DEF RetryInv, TypeOK, RowOK, HistOK, LoopOK, RunOwnsRow, Events, Crash
<1>1. CASE UNCHANGED <<retries, auto_retries>> /\ pc # "park"
  BY <1>0, <1>1
<1>2. CASE UNCHANGED <<retries, auto_retries, pc>>
  BY <1>0, <1>2
<1>3. CASE DropWakeup \/ BudgetBlock \/ StartRun \/ RunRaises \/ PullNothing \/ PullEdit \/ Requeue
           \/ PrepareBranch \/ PrepareFromBase \/ SkipGroup \/ Launch \/ SessionLost
  BY <1>1, <1>3 DEF DropWakeup, BudgetBlock, StartRun, RunRaises, PullNothing, PullEdit, Requeue,
     PrepareBranch, PrepareFromBase, SkipGroup, Launch, SessionLost, row, hist
<1>4. CASE AgentReturns \/ AgentInterrupted \/ SteerResumes \/ SteerFallsBack \/ RunFails
           \/ Publish \/ PublishFails \/ AutoAdvance \/ Checkpoint
  BY <1>1, <1>4 DEF AgentReturns, AgentInterrupted, SteerResumes, SteerFallsBack, RunFails, Publish,
     PublishFails, AutoAdvance, Checkpoint, row, hist
<1>5. CASE RetryTransient
  BY <1>0, <1>5 DEF RetryTransient, MayRetry
<1>6. CASE ParkFields \/ ParkGate
  BY <1>0, <1>6 DEF ParkFields, ParkGate, hist
<1>7. CASE Proceed \/ ProceedLast \/ AnswerAsk \/ Skip \/ Steer \/ ThirdPartyPush
           \/ LogDecision \/ EnqueueAnswer \/ UNCHANGED vars
  BY <1>2, <1>7 DEF Proceed, ProceedLast, AnswerAsk, Skip, Steer, ThirdPartyPush, LogDecision,
     EnqueueAnswer, vars, row, loop, hist
<1>8. ASSUME NEW k \in 0 .. stage, AnswerRedo(k)
      PROVE  retries' <= 1 /\ (pc' # "park" => retries' <= auto_retries')
  BY <1>0, <1>8 DEF AnswerRedo
<1>9. CASE Reintake
  BY <1>2, <1>9 DEF Reintake
<1> QED
  BY <1>0, <1>3, <1>4, <1>5, <1>6, <1>7, <1>8, <1>9 DEF Next, Worker, Humans

-----------------------------------------------------------------------------
(* The branch.                                                              *)

LEMMA PublishedStep ==
    ASSUME TypeOK, RunOwnsRow, PublishedInv, [Next]_vars
    PROVE  PublishedInv'
<1> USE DEF PublishedInv
<1>0. /\ pc \in PCs /\ (pc \in Busy => status = "running")
      /\ AgentWork(workspace) \subseteq workspace
  BY DEF TypeOK, LoopOK, RunOwnsRow, AgentWork
<1>1. CASE UNCHANGED <<workspace, origin>>
           /\ (status' = "awaiting_input" => status = "awaiting_input" \/ pc \in {"decide", "park"})
           /\ (pc' \in {"decide", "park"} => pc \in {"decide", "park"})
  BY <1>1
<1>2. CASE status' # "awaiting_input" /\ pc' \notin {"decide", "park"}
  BY <1>2
<1>3. CASE Idle
  BY <1>1, <1>3 DEF Idle, DropWakeup, BudgetBlock, RunRaises, PullNothing, Requeue,
     LogDecision, EnqueueAnswer, Crash, Leave, vars, row, git, loop
<1>4. CASE StartRun \/ SkipGroup \/ SteerResumes \/ SteerFallsBack \/ RetryTransient \/ RunFails
           \/ PublishFails \/ AutoAdvance
  BY <1>2, <1>4 DEF StartRun, SkipGroup, SteerResumes, SteerFallsBack, RetryTransient, RunFails,
     PublishFails, FailClosed, AutoAdvance
<1>5. CASE PrepareBranch \/ PrepareFromBase \/ PullEdit \/ Launch \/ SessionLost \/ AgentReturns
           \/ AgentInterrupted
  BY <1>0, <1>2, <1>5 DEF PrepareBranch, PrepareFromBase, PullEdit, Launch, SessionLost, AgentReturns,
     AgentInterrupted, row, Busy, PCs
<1>6. CASE Publish
  <2>1. AgentWork(workspace') = AgentWork(workspace)
    BY <1>6 DEF Publish, AgentWork, EditCommit
  <2> QED
    BY <1>0, <1>6, <2>1 DEF Publish
<1>7. CASE ParkFields \/ ParkGate
  BY <1>1, <1>7 DEF ParkFields, ParkGate, git
<1>8. CASE Checkpoint
  <2>1. UNCHANGED <<status, workspace>> /\ pc' = "idle" /\ (origin' = origin \/ origin' = workspace)
    BY <1>8 DEF Checkpoint, Leave, PushOk, PushFails, row
  <2> QED
    BY <1>0, <2>1
<1>9. CASE Proceed \/ ProceedLast \/ AnswerAsk \/ Skip
  BY <1>1, <1>9 DEF Proceed, ProceedLast, AnswerAsk, Skip, Failed, git, loop
<1>10. ASSUME NEW k \in 0 .. stage, AnswerRedo(k) PROVE PublishedInv'
  BY <1>1, <1>10 DEF AnswerRedo, git, loop
<1>11. CASE Reintake \/ Steer
  BY <1>1, <1>11 DEF Reintake, Steer, git
<1>12. CASE ThirdPartyPush
  BY <1>12 DEF ThirdPartyPush, row, loop
<1> QED
  BY <1>3, <1>4, <1>5, <1>6, <1>7, <1>8, <1>9, <1>10, <1>11, <1>12
  DEF Next, Worker, Humans, Idle

LEMMA ResumeStep ==
    ASSUME TypeOK, RunOwnsRow, ResumeInv, [Next]_vars
    PROVE  ResumeInv'
<1> SUFFICES ASSUME used'["fetch"] = 0, pc' \in {"pull", "launch"}, run'.resuming
             PROVE  {c \in workspace' : c.by # "edit"} = {c \in resume'.head : c.by # "edit"}
  BY DEF ResumeInv, ResumeSeesParkedBranch
<1>0. /\ ~PrepareFromBase /\ run \in Run /\ pc \in PCs /\ (pc \in Busy => status = "running")
      /\ pc \in {"pull", "launch"} /\ run.resuming =>
            {c \in workspace : c.by # "edit"} = {c \in resume.head : c.by # "edit"}
  BY NotSpent DEF ResumeInv, ResumeSeesParkedBranch, TypeOK, LoopOK, RunOwnsRow, Events, PrepareFromBase
<1>1. CASE UNCHANGED <<workspace, resume, run>> /\ pc \in {"pull", "launch"}
  BY <1>0, <1>1
<1>2. CASE PrepareBranch
  <2>1. run'.resuming => ParkedHead(origin) /\ workspace' = origin
    BY <1>0, <1>2 DEF PrepareBranch, Checkout, Run
  <2> QED
    BY <1>2, <2>1 DEF PrepareBranch, ParkedHead
<1>3. CASE PullNothing \/ LogDecision \/ EnqueueAnswer \/ ThirdPartyPush \/ Steer \/ UNCHANGED vars
  BY <1>1, <1>3 DEF PullNothing, LogDecision, EnqueueAnswer, ThirdPartyPush, Steer, vars, row, git, loop
<1>4. CASE PullEdit
  <2>1. /\ workspace' = workspace \cup {EditCommit} /\ UNCHANGED <<resume, run>> /\ pc = "pull"
        /\ EditCommit.by = "edit"
    BY <1>4 DEF PullEdit, EditCommit, row
  <2> QED
    BY <1>0, <2>1
<1>5. pc \notin Busy => \/ pc' \notin {"pull", "launch"}
  BY <1>0 DEF Next, Worker, Humans, DropWakeup, BudgetBlock, StartRun, RunRaises, PrepareBranch,
     PullNothing, PullEdit, SkipGroup, Launch, SessionLost, AgentReturns, AgentInterrupted, SteerResumes,
     SteerFallsBack, RetryTransient, RunFails, Publish, PublishFails, FailClosed, AutoAdvance, ParkFields,
     ParkGate, Checkpoint, Requeue, Leave, Proceed, ProceedLast, AnswerAsk, Skip, Reintake, Steer,
     AnswerRedo, LogDecision, EnqueueAnswer, ThirdPartyPush, Crash, loop, vars, Busy, PCs
<1>6. CASE Proceed \/ ProceedLast \/ AnswerAsk \/ Skip \/ Reintake \/ \E k \in 0 .. stage : AnswerRedo(k)
  BY <1>0, <1>5, <1>6 DEF Proceed, ProceedLast, AnswerAsk, Skip, Reintake, AnswerRedo, Approvable, Redoable, Failed
<1>7. CASE \/ DropWakeup \/ BudgetBlock \/ StartRun \/ RunRaises \/ SkipGroup \/ Launch \/ SessionLost
           \/ AgentReturns \/ AgentInterrupted \/ SteerResumes \/ SteerFallsBack \/ RetryTransient
           \/ RunFails \/ Publish \/ PublishFails \/ AutoAdvance \/ ParkFields \/ ParkGate \/ Checkpoint
           \/ Requeue \/ Crash
  BY <1>7 DEF DropWakeup, BudgetBlock, StartRun, RunRaises, SkipGroup, Launch, SessionLost, AgentReturns,
     AgentInterrupted, SteerResumes, SteerFallsBack, RetryTransient, RunFails, Publish, PublishFails,
     FailClosed, AutoAdvance, ParkFields, ParkGate, Checkpoint, Requeue, Crash, Leave
<1> QED
  BY <1>0, <1>2, <1>3, <1>4, <1>6, <1>7 DEF Next, Worker, Humans

-----------------------------------------------------------------------------
(* The theorems.                                                            *)

\* THEOREM.  Between two entries of a stage no more questions are resumed
\* than the ask budget allows, through failures, steers, retries and crashes
\* (engine._run_stage_inner, _after_run).
THEOREM AsksStayBounded == Spec => []AsksBounded
<1>1. Init => AskInv
  BY PipelineAssumption DEF PipelineAssumption, Init, AskInv
<1>2. AskInv => AsksBounded
  BY DEF AskInv, AsksBounded
<1>3. TypeOK /\ RunOwnsRow /\ AskInv /\ [Next]_vars => AskInv'
  BY AskStep
<1> QED
  BY <1>1, <1>2, <1>3, Invariant, PTL DEF Spec

\* THEOREM.  As long as the process does not die, the engine retries by itself
\* at most once between two gates or human redos (engine._after_run, _park).  A
\* death between the two writes of a gate restores the budget without one.
THEOREM RetriesStayBounded == Spec => [](used["crash"] = 0 => OneTransientRetry)
<1>1. Init => RetryInv
  BY DEF Init, RetryInv, Events
<1>2. RetryInv => (used["crash"] = 0 => OneTransientRetry)
  BY DEF RetryInv, OneTransientRetry
<1>3. TypeOK /\ RunOwnsRow /\ RetryInv /\ [Next]_vars => RetryInv'
  BY RetryStep
<1> QED
  BY <1>1, <1>2, <1>3, Invariant, PTL DEF Spec

\* THEOREM.  Whatever is pushed, edited, lost or crashes: a gate shows no work of
\* the agent that is not on origin (engine._after_run).
THEOREM GatesArePublished == Spec => []GateIsPublished
<1>1. Init => PublishedInv
  BY DEF Init, PublishedInv
<1>2. PublishedInv => GateIsPublished
  BY DEF PublishedInv, GateIsPublished
<1>3. TypeOK /\ RunOwnsRow /\ PublishedInv /\ [Next]_vars => PublishedInv'
  BY PublishedStep
<1> QED
  BY <1>1, <1>2, <1>3, Invariant, PTL DEF Spec

\* THEOREM.  As long as no fetch of a branch fails silently, a session is
\* resumed only on the branch it was parked on, the engine's own edits aside
\* (engine._run_stage_inner).  A stage 0 that is rebuilt from the base is not.
THEOREM ResumesSeeTheirBranch == Spec => [](used["fetch"] = 0 => ResumeSeesParkedBranch)
<1>1. Init => ResumeInv
  BY DEF Init, ResumeInv, ResumeSeesParkedBranch
<1>2. ResumeInv => (used["fetch"] = 0 => ResumeSeesParkedBranch)
  BY DEF ResumeInv
<1>3. TypeOK /\ RunOwnsRow /\ ResumeInv /\ [Next]_vars => ResumeInv'
  BY ResumeStep
<1> QED
  BY <1>1, <1>2, <1>3, Invariant, PTL DEF Spec

-----------------------------------------------------------------------------
(* A note that interrupted the CLI, as long as no process dies.              *)

\* Where the note of an interrupted CLI is: in the row of the run that has still to
\* read it, or in the resume of its session.
InTheRun(n) == steer_note = n.text /\ steered /\ pc \in {"invoke", "steer"}
InTheResume(n) == /\ resume.answer = n.text /\ gate_kind = "steer"
                  /\ status \notin {"skipped", "no_fix"}

\* A run carries the answer it was started with; a resume that is pending is
\* consumed before the CLI starts, and no gate is open with one.
ResumeConsumed ==
    /\ pc \in {"prepare", "pull", "launch"} => run.answer = resume.answer
    /\ pc \in {"invoke", "steer", "after", "decide"} => gate_kind = "none"
    /\ pc = "park" \/ status = "awaiting_input" => gate_kind # "steer"
NoteInv == used["crash"] = 0 => \A n \in notes : n.cli => InTheRun(n) \/ InTheResume(n)

\* A run keeps the answer it was started with.
LEMMA ResumeConsumedStep ==
    ASSUME TypeOK, RunOwnsRow, ResumeConsumed, [Next]_vars
    PROVE  ResumeConsumed'
<1> USE DEF ResumeConsumed
<1>0. /\ run \in Run /\ pc \in PCs /\ (pc \in Busy => status = "running")
  BY DEF TypeOK, LoopOK, RunOwnsRow
<1>1. CASE Idle
  BY <1>0, <1>1 DEF Idle, DropWakeup, BudgetBlock, RunRaises, PullNothing, Requeue,
     LogDecision, EnqueueAnswer, Crash, Leave, vars, row, loop
<1>2. CASE StartRun
  <2>1. run'.answer = resume.answer
    BY <1>2, DefaultsTyped DEF StartRun, Run
  <2> QED
    BY <1>2, <2>1 DEF StartRun
<1>3. CASE PrepareBranch \/ PrepareFromBase
  <2>1. run'.answer = run.answer
    BY <1>0, <1>3 DEF PrepareBranch, PrepareFromBase, Checkout, Run
  <2> QED
    BY <1>0, <1>3, <2>1 DEF PrepareBranch, PrepareFromBase, Busy
<1>4. CASE PullEdit \/ SkipGroup \/ Launch \/ SessionLost \/ AgentReturns \/ AgentInterrupted
           \/ SteerResumes \/ SteerFallsBack
  BY <1>0, <1>4 DEF PullEdit, SkipGroup, Launch, SessionLost, AgentReturns, AgentInterrupted,
     SteerResumes, SteerFallsBack, row, Busy
<1>5. CASE RetryTransient \/ RunFails \/ Publish \/ PublishFails \/ AutoAdvance \/ ParkFields \/ ParkGate
  BY <1>0, <1>5 DEF RetryTransient, RunFails, Publish, PublishFails, FailClosed, AutoAdvance, ParkFields,
     ParkGate, row, Busy
<1>6. CASE Checkpoint
  BY <1>0, <1>6 DEF Checkpoint, Leave, row
<1>7. CASE Proceed \/ ProceedLast \/ AnswerAsk \/ Skip
  BY <1>0, <1>7 DEF Proceed, ProceedLast, AnswerAsk, Skip, Approvable, Redoable, Failed, loop, Busy
<1>8. ASSUME NEW k \in 0 .. stage, AnswerRedo(k) PROVE ResumeConsumed'
  BY <1>0, <1>8 DEF AnswerRedo, Redoable, Failed, loop, Busy
<1>9. CASE Reintake
  BY <1>0, <1>9 DEF Reintake, Busy
<1>10. CASE Steer \/ ThirdPartyPush
  BY <1>0, <1>10 DEF Steer, ThirdPartyPush, row, loop
<1> QED
  BY <1>1, <1>2, <1>3, <1>4, <1>5, <1>6, <1>7, <1>8, <1>9, <1>10
  DEF Next, Worker, Humans, Idle

\* A note goes from the run that was interrupted to the resume of its session, and
\* leaves it when it is delivered.
LEMMA NoteStep ==
    ASSUME TypeOK, RunOwnsRow, ResumeConsumed, NoteInv, [Next]_vars
    PROVE  NoteInv'
<1> SUFFICES ASSUME used'["crash"] = 0, NEW n \in notes', n.cli
             PROVE  InTheRun(n)' \/ InTheResume(n)'
  BY DEF NoteInv
<1> USE DEF InTheRun, InTheResume
<1>0. /\ pc \in PCs /\ (pc \in Busy => status = "running") /\ ~Spend("crash")
      /\ n \in notes => InTheRun(n) \/ InTheResume(n)
  BY NotSpent DEF NoteInv, Events, TypeOK, LoopOK, RunOwnsRow
<1>1. CASE Steer
  <2>1. CASE n \in notes
    BY <1>0, <1>1, <2>1 DEF Steer, SteerOpen
  <2>2. CASE n \notin notes
    <3>1. n = [text |-> used["text"] + 1, cli |-> pc = "invoke"]
      BY <1>1, <2>2 DEF Steer
    <3>2. n.text = used["text"] + 1 /\ pc = "invoke"
      BY <3>1
    <3> QED
      BY <1>1, <3>2 DEF Steer
  <2> QED
    BY <2>1, <2>2
<1>2. n \in notes \/ Steer
  BY DEF Next, Worker, Humans, DropWakeup, BudgetBlock, StartRun, RunRaises, PrepareBranch,
     PrepareFromBase, PullNothing, PullEdit, SkipGroup, Launch, SessionLost, AgentReturns, AgentInterrupted,
     SteerResumes, SteerFallsBack, RetryTransient, RunFails, Publish, PublishFails, AutoAdvance, ParkFields,
     ParkGate, Checkpoint, Requeue, Proceed, ProceedLast, AnswerAsk, Skip, Reintake, AnswerRedo,
     LogDecision, EnqueueAnswer, ThirdPartyPush, Crash, hist, vars
<1> SUFFICES ASSUME n \in notes, InTheRun(n) \/ InTheResume(n), ~Steer
             PROVE  InTheRun(n)' \/ InTheResume(n)'
  BY <1>0, <1>1, <1>2
<1>3. CASE UNCHANGED <<resume, gate_kind>> /\ pc \notin {"invoke", "steer"} /\ status' \notin {"skipped", "no_fix"}
  BY <1>3
<1>4. CASE UNCHANGED <<resume, gate_kind, status, steer_note, steered, pc>>
  BY <1>4
<1>5. CASE DropWakeup \/ LogDecision \/ EnqueueAnswer \/ ThirdPartyPush \/ UNCHANGED vars
  BY <1>4, <1>5 DEF DropWakeup, LogDecision, EnqueueAnswer, ThirdPartyPush, vars, row, loop
<1>6. CASE BudgetBlock \/ StartRun \/ RunRaises \/ PrepareBranch \/ PrepareFromBase \/ PullNothing \/ PullEdit
           \/ SkipGroup
  BY <1>0, <1>3, <1>6 DEF BudgetBlock, StartRun, RunRaises, PrepareBranch, PrepareFromBase, PullNothing,
     PullEdit, SkipGroup, row, Busy
<1>7. CASE Requeue \/ Checkpoint
  BY <1>0, <1>6, <1>7 DEF Requeue, Checkpoint, Leave, row
<1>8. CASE Launch
  BY <1>8 DEF Launch, ResumeConsumed
<1>9. CASE SessionLost
  BY <1>4, <1>9 DEF SessionLost, row
<1>10. CASE AgentReturns
  BY <1>10 DEF AgentReturns, ResumeConsumed
<1>11. CASE AgentInterrupted
  BY <1>11 DEF AgentInterrupted
<1>12. CASE SteerResumes
  BY <1>12 DEF SteerResumes, ResumeConsumed
<1>13. CASE SteerFallsBack
  BY <1>13 DEF SteerFallsBack, ResumeConsumed
<1>14. CASE RetryTransient \/ RunFails \/ Publish \/ PublishFails \/ AutoAdvance \/ ParkFields \/ ParkGate
  BY <1>0, <1>14 DEF RetryTransient, RunFails, Publish, PublishFails, FailClosed, AutoAdvance, ParkFields, ParkGate,
     ResumeConsumed, row
<1>15. CASE Proceed \/ ProceedLast \/ AnswerAsk
  BY <1>0, <1>15 DEF Proceed, ProceedLast, AnswerAsk, Approvable, ResumeConsumed, Busy
<1>16. CASE Skip \/ \E k \in 0 .. stage : AnswerRedo(k)
  BY <1>16 DEF Skip, AnswerRedo
<1>17. CASE Reintake
  BY <1>0, <1>17 DEF Reintake, Busy
<1>18. ~Crash
  BY <1>0 DEF Crash
<1> QED
  BY <1>5, <1>6, <1>7, <1>8, <1>9, <1>10, <1>11, <1>12, <1>13, <1>14, <1>15, <1>16, <1>17, <1>18
  DEF Next, Worker, Humans

\* THEOREM.  As long as no process dies, a steer that interrupted the CLI is delivered
\* to the session that it interrupted, or stays in its resume (Engine._steer_reenqueue),
\* whatever else fails, is answered or is asked again meanwhile.
THEOREM InterruptingNotesStayKept ==
    Spec => [](used["crash"] = 0 => InterruptingSteerKept)
<1>1. Init => ResumeConsumed /\ NoteInv
  BY DEF Init, ResumeConsumed, NoteInv
<1>2. TypeOK /\ RunOwnsRow /\ (ResumeConsumed /\ NoteInv) /\ [Next]_vars => (ResumeConsumed /\ NoteInv)'
  BY ResumeConsumedStep, NoteStep
<1>3. NoteInv => (used["crash"] = 0 => InterruptingSteerKept)
  BY DEF NoteInv, InterruptingSteerKept, NoteKept, InTheRun, InTheResume
<1> QED
  BY <1>1, <1>2, <1>3, Invariant, PTL DEF Spec

-----------------------------------------------------------------------------
(* The rewind of a redo, as long as nothing is disturbed.                    *)

\* The commits of a head were made by a run that has started and by pushes that
\* have happened.
KnownHead(h) ==
    \A c \in h : /\ c.by = "agent" => c.id <= runs
                 /\ c.by = "push" => c.id <= used["push"]
KnownInv ==
    /\ KnownHead(origin) /\ KnownHead(tracking) /\ KnownHead(workspace)
    /\ \A s \in DOMAIN base_sha : KnownHead(base_sha[s])
    /\ pc # "idle" => run.id = runs

\* The counters only grow.
LEMMA CountersGrow ==
    ASSUME TypeOK, [Next]_vars
    PROVE  /\ runs \in Nat /\ runs' \in Nat /\ runs <= runs'
           /\ used["push"] \in Nat /\ used'["push"] \in Nat /\ used["push"] <= used'["push"]
<1>0. used \in [Events -> Nat] /\ runs \in Nat
  BY DEF TypeOK, LoopOK
<1>1. ASSUME NEW f \in Events, Spend(f)
      PROVE  used'["push"] \in Nat /\ used["push"] <= used'["push"]
  BY <1>0, <1>1 DEF Spend, Events
<1>2. used' = used \/ \E f \in Events : Spend(f)
  BY DEF Next, Worker, Humans, vars, Events, DropWakeup, BudgetBlock, StartRun, RunRaises,
     PrepareBranch, PrepareFromBase, PullNothing, PullEdit, SkipGroup, Launch, SessionLost, AgentReturns,
     AgentInterrupted, SteerResumes, SteerFallsBack, PushOk, PushFails, RetryTransient, RunFails, Publish,
     PublishFails, AutoAdvance, ParkFields, ParkGate, Checkpoint, Requeue, Proceed, ProceedLast,
     AnswerAsk, Skip, Reintake, Steer, AnswerRedo, LogDecision, EnqueueAnswer, ThirdPartyPush, Crash
<1>3. runs' = runs \/ runs' = runs + 1
  BY DEF Next, Worker, Humans, vars, DropWakeup, BudgetBlock, StartRun, RunRaises,
     PrepareBranch, PrepareFromBase, PullNothing, PullEdit, SkipGroup, Launch, SessionLost, AgentReturns,
     AgentInterrupted, SteerResumes, SteerFallsBack, RetryTransient, RunFails, Publish,
     PublishFails, AutoAdvance, ParkFields, ParkGate, Checkpoint, Requeue, Proceed, ProceedLast,
     AnswerAsk, Skip, Reintake, Steer, AnswerRedo, LogDecision, EnqueueAnswer, ThirdPartyPush, Crash, loop
<1> QED
  BY <1>0, <1>1, <1>2, <1>3 DEF Events

\* What a head holds was made by a run that has started, or pushed, after every step.
LEMMA KnownStep ==
    ASSUME TypeOK, RunOwnsRow, KnownInv, [Next]_vars
    PROVE  KnownInv'
<1>0. /\ origin \in Heads /\ tracking \in Heads /\ workspace \in Heads
      /\ \A s \in DOMAIN base_sha : base_sha[s] \in Heads
      /\ run \in Run /\ runs \in Nat /\ pc \in PCs
  BY DEF TypeOK, GitOK, TablesOK, LoopOK
<1>1. /\ KnownHead(origin) /\ KnownHead(tracking) /\ KnownHead(workspace)
      /\ \A s \in DOMAIN base_sha : KnownHead(base_sha[s])
      /\ pc # "idle" => run.id = runs
  BY DEF KnownInv
<1> DEFINE K(h) == \A c \in h : /\ c.by = "agent" => c.id <= runs'
                                /\ c.by = "push" => c.id <= used'["push"]
<1>2. K(origin) /\ K(tracking) /\ K(workspace) /\ \A s \in DOMAIN base_sha : K(base_sha[s])
  <2>1. ASSUME NEW h \in Heads, KnownHead(h) PROVE K(h)
    <3>1. \A c \in h : c.id \in Nat
      BY DEF Heads, Commit
    <3> QED
      BY <2>1, <3>1, CountersGrow DEF KnownHead
  <2> QED
    BY <1>0, <1>1, <2>1
<1>3. K({}) /\ (\A h, g : K(h) /\ K(g) => K(h \cup g)) /\ K({EditCommit})
  BY DEF EditCommit
<1>4. pc # "idle" /\ runs' = runs => K({AgentCommit})
  BY <1>0, <1>1 DEF AgentCommit
<1> SUFFICES K(origin') /\ K(tracking') /\ K(workspace') /\ (\A s \in DOMAIN base_sha' : K(base_sha'[s]))
             /\ (pc' # "idle" => run'.id = runs')
  BY DEF KnownInv, KnownHead
<1>5. CASE UNCHANGED git /\ UNCHANGED base_sha /\ (pc' # "idle" => run'.id = runs')
  BY <1>2, <1>5 DEF git
<1>6. CASE DropWakeup \/ BudgetBlock \/ RunRaises \/ PullNothing \/ Requeue
           \/ LogDecision \/ EnqueueAnswer \/ Crash \/ UNCHANGED vars
  BY <1>1, <1>5, <1>6 DEF DropWakeup, BudgetBlock, RunRaises, PullNothing, Requeue,
     LogDecision, EnqueueAnswer, Crash, Leave, vars, tables, loop
<1>7. CASE StartRun
  <2>1. run'.id = runs + 1
    BY <1>7, DefaultsTyped DEF StartRun, Run
  <2> QED
    BY <1>5, <1>7, <2>1 DEF StartRun, tables
<1>8. CASE PrepareBranch \/ PrepareFromBase
  <2>1. /\ run'.id = run.id /\ origin' = origin /\ tracking' \in {origin, tracking} /\ UNCHANGED <<base_sha, runs>>
        /\ \/ workspace' \in {origin, {}}
           \/ \E s \in DOMAIN base_sha : workspace' = base_sha[s]
        /\ pc # "idle"
    BY <1>0, <1>8 DEF PrepareBranch, PrepareFromBase, Checkout, Rewinds, Run, tables
  <2> QED
    BY <1>1, <1>2, <1>3, <2>1
<1>9. CASE PullEdit
  <2>1. /\ workspace' = workspace \cup {EditCommit}
        /\ \/ origin' = workspace' /\ tracking' = workspace'
           \/ UNCHANGED <<origin, tracking>>
        /\ UNCHANGED <<base_sha, runs, run>> /\ pc # "idle"
    BY <1>9 DEF PullEdit, tables
  <2> QED
    BY <1>1, <1>2, <1>3, <2>1
<1>10. CASE SkipGroup \/ RetryTransient \/ RunFails \/ AutoAdvance \/ ParkFields \/ ParkGate
  <2>1. /\ UNCHANGED git /\ UNCHANGED <<base_sha, runs>> /\ pc # "idle" /\ run'.id = run.id
    BY <1>0, <1>10 DEF SkipGroup, RetryTransient, RunFails, AutoAdvance, ParkFields, ParkGate, tables, Run
  <2> QED
    BY <1>1, <1>5, <2>1
<1>11. CASE Launch
  <2>1. /\ UNCHANGED <<git, runs, run>> /\ pc # "idle"
        /\ \A s \in DOMAIN base_sha' : \/ base_sha'[s] = workspace
                                       \/ s \in DOMAIN base_sha /\ base_sha'[s] = base_sha[s]
    BY <1>11 DEF Launch, Baseline
  <2> QED
    BY <1>1, <1>2, <2>1 DEF git
<1>12. CASE SessionLost
  <2>1. UNCHANGED <<git, runs, base_sha>> /\ pc # "idle" /\ run'.id = run.id
    BY <1>0, <1>12 DEF SessionLost, Run, tables
  <2> QED
    BY <1>1, <1>5, <2>1
<1>13. CASE AgentReturns \/ AgentInterrupted
  <2>1. /\ workspace' = workspace \cup {AgentCommit} /\ run'.id = run.id /\ pc # "idle"
        /\ UNCHANGED <<origin, tracking, runs, base_sha>>
    BY <1>0, <1>13 DEF AgentReturns, AgentInterrupted, Worked, tables, Run
  <2> QED
    BY <1>1, <1>2, <1>3, <1>4, <2>1
<1>14. CASE SteerResumes \/ SteerFallsBack \/ PublishFails \/ Checkpoint
  <2>1. /\ UNCHANGED <<workspace, base_sha, runs>> /\ pc # "idle" /\ (pc' # "idle" => run' = run)
        /\ \/ origin' = workspace /\ tracking' = workspace
           \/ UNCHANGED <<origin, tracking>>
    BY <1>14 DEF SteerResumes, SteerFallsBack, PublishFails, Checkpoint, Leave, PushOk, PushFails, tables
  <2> QED
    BY <1>1, <1>2, <2>1
<1>15. CASE Publish
  <2>1. /\ workspace' = workspace \/ workspace' = workspace \cup {EditCommit}
        /\ origin' = workspace /\ tracking' = workspace /\ UNCHANGED <<base_sha, runs>>
        /\ pc # "idle" /\ run'.id = run.id
    BY <1>0, <1>15 DEF Publish, tables, Run
  <2> QED
    BY <1>1, <1>2, <1>3, <2>1
<1>16. CASE Proceed \/ ProceedLast \/ AnswerAsk \/ Skip \/ Steer
  BY <1>1, <1>5, <1>16 DEF Proceed, ProceedLast, AnswerAsk, Skip, Steer, loop, tables
<1>17. ASSUME NEW k \in 0 .. stage, AnswerRedo(k) PROVE UNCHANGED <<git, base_sha, pc, run, runs>>
  BY <1>17 DEF AnswerRedo, loop, tables
<1>18. CASE Reintake
  <2>1. UNCHANGED <<git, pc, run, runs>> /\ DOMAIN base_sha' = {}
    BY <1>18 DEF Reintake
  <2> QED
    BY <1>1, <1>2, <2>1 DEF git
<1>19. CASE ThirdPartyPush
  <2>1. /\ origin' = origin \cup {[by |-> "push", id |-> used["push"] + 1]}
        /\ UNCHANGED <<tracking, workspace, base_sha, pc, run, runs>> /\ used'["push"] = used["push"] + 1
    <3>1. used \in [Events -> Nat] /\ "push" \in Events
      BY DEF TypeOK, LoopOK, Events
    <3> QED
      BY <1>19, <3>1 DEF ThirdPartyPush, Spend, loop, tables
  <2>2. K({[by |-> "push", id |-> used["push"] + 1]})
    BY <2>1, CountersGrow
  <2> QED
    BY <1>1, <1>2, <1>3, <2>1, <2>2
<1> QED
  BY <1>1, <1>5, <1>6, <1>7, <1>8, <1>9, <1>10, <1>11, <1>12, <1>13, <1>14, <1>15, <1>16, <1>17, <1>18, <1>19
  DEF Next, Worker, Humans

\* While no process dies, no call fails and nobody else pushes.
Undisturbed == \A e \in {"crash", "fault", "push"} : used[e] = 0

\* A redo of a code stage that is still to be rewound: its request stands in the
\* row, and nothing of the rejected attempt is below the baseline.
ToRewind ==
    /\ pending_redo_stage = redo.stage /\ redo.stage \in CodeStages \cap DOMAIN base_sha
    /\ redo.stage = stage /\ base_sha[redo.stage] \cap redo.drop = {}
    /\ gate_kind = "none"
    /\ pc \in {"idle", "final", "requeue", "prepare"}
    /\ pc = "prepare" => ~run.resuming
\* One that was rewound: the clone is rid of the attempt until its run has pushed,
\* and origin is from then on.
Rewound ==
    /\ pending_redo_stage # redo.stage /\ redo.stage = stage
    /\ pc \in {"pull", "launch", "invoke", "steer", "after", "decide", "park", "final"}
          => workspace \cap redo.drop = {}
    /\ pc \in {"idle", "prepare", "requeue"} => origin \cap redo.drop = {}
RedoInv ==
    Undisturbed =>
        /\ origin = tracking
        /\ \A c \in redo.drop : c.by = "agent" /\ c.id <= runs
        /\ pc \in Busy => \A c \in redo.drop : c.id # runs
        /\ redo.drop = {} \/ ToRewind \/ Rewound

\* The rewind and the push that follows it get rid of the attempt, step by step.
LEMMA RedoStep ==
    ASSUME TypeOK, RunOwnsRow, KnownInv, RedoInv, [Next]_vars
    PROVE  RedoInv'
<1> SUFFICES ASSUME Undisturbed' PROVE
        /\ origin' = tracking'
        /\ \A c \in redo'.drop : c.by = "agent" /\ c.id <= runs'
        /\ pc' \in Busy => \A c \in redo'.drop : c.id # runs'
        /\ redo'.drop = {} \/ ToRewind' \/ Rewound'
  BY DEF RedoInv
<1>1. ~Spend("crash") /\ ~Spend("fault") /\ ~Spend("push") /\ Undisturbed
  BY NotSpent DEF Undisturbed, Events
<1>2. /\ origin = tracking
      /\ \A c \in redo.drop : c.by = "agent" /\ c.id <= runs
      /\ pc \in Busy => \A c \in redo.drop : c.id # runs
      /\ redo.drop = {} \/ ToRewind \/ Rewound
  BY <1>1 DEF RedoInv
<1>3. /\ run \in Run /\ pc \in PCs /\ runs \in Nat /\ stage \in Stages /\ redo \in Redos
      /\ (pc \in Busy => status = "running" /\ run.stage = stage)
      /\ origin \in Heads /\ redo.drop \in Heads
  BY DEF TypeOK, LoopOK, RowOK, HistOK, GitOK, RunOwnsRow, Redos
<1>4. ~PushFails /\ ~Crash /\ ~BudgetBlock /\ ~RunRaises /\ ~ThirdPartyPush
  BY <1>1, <1>2 DEF PushFails, Crash, BudgetBlock, RunRaises, ThirdPartyPush
<1>5. \A c \in redo.drop : c \notin {AgentCommit} \/ pc \notin Busy
  BY <1>2, <1>3 DEF AgentCommit, KnownInv, Busy
<1>6. \A c \in redo.drop : c \notin {EditCommit}
  BY <1>2 DEF EditCommit
<1>7. CASE redo' = NoRedo /\ UNCHANGED <<origin, tracking>>
  BY <1>2, <1>7 DEF NoRedo
<1>8. CASE /\ UNCHANGED <<origin, tracking, workspace, redo, runs, pending_redo_stage, stage, base_sha, gate_kind>>
           /\ \/ pc' = pc
              \/ pc \in {"pull", "launch", "invoke", "after", "decide", "park"} /\ pc' \in {"launch", "invoke", "after", "decide", "park", "final"}
           /\ pc' = "prepare" => UNCHANGED run
  <2> QED
    BY <1>2, <1>3, <1>8 DEF ToRewind, Rewound, Busy, PCs
<1>9. CASE DropWakeup \/ PullNothing \/ SessionLost \/ ProceedLast \/ Skip \/ Steer
           \/ RetryTransient \/ RunFails \/ LogDecision \/ EnqueueAnswer \/ UNCHANGED vars
  BY <1>8, <1>9 DEF DropWakeup, PullNothing, SessionLost, ProceedLast, Skip, Steer, RetryTransient, RunFails,
     LogDecision, EnqueueAnswer, vars, row, tables, git, loop, hist
<1>10. CASE SkipGroup \/ AutoAdvance \/ ParkGate \/ Proceed \/ Reintake
  BY <1>7, <1>10 DEF SkipGroup, AutoAdvance, ParkGate, Proceed, Reintake, EnterNext, git
<1>11. CASE StartRun
  <2>1. /\ UNCHANGED <<origin, tracking, redo, pending_redo_stage, stage, base_sha, gate_kind>>
        /\ runs' = runs + 1 /\ pc = "idle" /\ pc' = "prepare"
    BY <1>11 DEF StartRun, git, tables, hist
  <2>2. gate_kind = "none" => ~run'.resuming
    BY <1>11, DefaultsTyped DEF StartRun, ResumeIntended, Run
  <2>3. \A c \in redo.drop : c.id \in Nat
    BY <1>3 DEF Heads, Commit
  <2> QED
    BY <1>2, <1>3, <2>1, <2>2, <2>3 DEF ToRewind, Rewound
<1>12. CASE PrepareBranch \/ PrepareFromBase
  <2>1. /\ pc = "prepare" /\ pc' = "pull" /\ UNCHANGED <<origin, redo, runs, stage, base_sha, gate_kind>>
        /\ tracking' = tracking
    BY <1>2, <1>12 DEF PrepareBranch, PrepareFromBase, Checkout, tables, hist
  <2>2. CASE redo.drop = {}
    BY <1>2, <2>1, <2>2
  <2>3. CASE ToRewind
    <3>1. workspace' = base_sha[redo.stage] /\ pending_redo_stage' = NoStage
      BY <1>3, <1>12, <2>1, <2>3 DEF PrepareBranch, PrepareFromBase, Checkout, ToRewind, Rewinds, Busy
    <3>2. redo.stage # NoStage
      BY <1>3, <2>3 DEF ToRewind, Stages, NoStage
    <3> QED
      BY <1>2, <2>1, <2>3, <3>1, <3>2 DEF ToRewind, Rewound, Busy, PCs
  <2>4. CASE Rewound
    <3>1. workspace' \in {origin, {}} /\ pending_redo_stage' \in {pending_redo_stage, NoStage}
      BY <1>3, <1>12, <2>1, <2>4 DEF PrepareBranch, PrepareFromBase, Checkout, Rewound, Rewinds, Busy
    <3>2. stage # NoStage
      BY <1>3 DEF Stages, NoStage
    <3> QED
      BY <1>2, <2>1, <2>4, <3>1, <3>2 DEF Rewound, Busy, PCs
  <2> QED
    BY <1>2, <2>2, <2>3, <2>4
<1>13. CASE PullEdit
  <2>1. /\ workspace' = workspace \cup {EditCommit} /\ origin' = workspace' /\ tracking' = workspace'
        /\ UNCHANGED <<redo, runs, pending_redo_stage, stage>> /\ pc = "pull" /\ pc' = "launch"
    BY <1>2, <1>13 DEF PullEdit, row
  <2> QED
    BY <1>2, <1>6, <2>1 DEF ToRewind, Rewound, Busy, PCs
<1>14. CASE Launch
  <2>1. /\ UNCHANGED <<origin, tracking, workspace, redo, runs, pending_redo_stage, stage>>
        /\ pc = "launch" /\ pc' = "invoke"
    BY <1>14 DEF Launch, git
  <2> QED
    BY <1>2, <2>1 DEF ToRewind, Rewound, Busy, PCs
<1>15. CASE AgentReturns \/ AgentInterrupted
  <2>1. /\ workspace' = workspace \cup {AgentCommit} /\ pc = "invoke" /\ pc' \in {"after", "steer"}
        /\ UNCHANGED <<origin, tracking, redo, runs, pending_redo_stage, stage>>
    BY <1>15 DEF AgentReturns, AgentInterrupted, Worked
  <2> QED
    BY <1>2, <1>5, <2>1 DEF ToRewind, Rewound, Busy, PCs
<1>16. CASE SteerResumes \/ SteerFallsBack
  <2>1. /\ origin' = workspace /\ tracking' = workspace /\ pc = "steer" /\ pc' = "requeue"
        /\ UNCHANGED <<redo, runs, pending_redo_stage, stage>>
    BY <1>4, <1>16 DEF SteerResumes, SteerFallsBack, PushOk
  <2> QED
    BY <1>2, <2>1 DEF ToRewind, Rewound, Busy, PCs
<1>17. CASE Publish \/ PublishFails
  <2>1. /\ origin' = workspace /\ tracking' = workspace /\ pc = "after" /\ pc' = "decide"
        /\ workspace' = workspace \/ workspace' = workspace \cup {EditCommit}
        /\ UNCHANGED <<redo, runs, pending_redo_stage, stage>>
    BY <1>4, <1>17 DEF Publish, PublishFails, row
  <2> QED
    BY <1>2, <1>6, <2>1 DEF ToRewind, Rewound, Busy, PCs
<1>18. CASE ParkFields
  <2>1. /\ UNCHANGED <<origin, tracking, workspace, redo, runs, pending_redo_stage, stage>>
        /\ pc = "decide" /\ pc' = "park"
    BY <1>18 DEF ParkFields, git, hist
  <2> QED
    BY <1>2, <2>1 DEF ToRewind, Rewound, Busy, PCs
<1>19. CASE Checkpoint
  <2>1. /\ origin' = workspace /\ tracking' = workspace /\ pc = "final" /\ pc' = "idle"
        /\ UNCHANGED <<redo, runs, pending_redo_stage, stage, base_sha, gate_kind>>
    BY <1>4, <1>19 DEF Checkpoint, PushOk, Leave, row, tables
  <2> QED
    BY <1>2, <2>1 DEF ToRewind, Rewound, Busy, PCs
<1>20. CASE Requeue
  <2>1. /\ UNCHANGED <<origin, tracking, redo, runs, pending_redo_stage, stage, base_sha, gate_kind>>
        /\ pc = "requeue" /\ pc' = "idle"
    BY <1>20 DEF Requeue, Leave, row, tables, git, hist
  <2> QED
    BY <1>2, <2>1 DEF ToRewind, Rewound, Busy, PCs
<1>21. CASE AnswerAsk
  <2>1. /\ UNCHANGED <<git, redo, runs, pending_redo_stage, stage, base_sha, gate_kind, pc, run>>
    BY <1>21 DEF AnswerAsk, tables, loop, hist
  <2> QED
    BY <1>8, <2>1 DEF git
<1>22. ASSUME NEW k \in 0 .. stage, AnswerRedo(k) PROVE
        /\ origin' = tracking'
        /\ \A c \in redo'.drop : c.by = "agent" /\ c.id <= runs'
        /\ pc' \in Busy => \A c \in redo'.drop : c.id # runs'
        /\ redo'.drop = {} \/ ToRewind'
  <2>1. /\ UNCHANGED <<origin, tracking, base_sha, runs, pc, run>> /\ pc \in {"idle", "final", "requeue"}
        /\ stage' = k /\ pending_redo_stage' = k /\ gate_kind' = "none"
    BY <1>3, <1>22 DEF AnswerRedo, Redoable, Failed, loop, git, tables, Busy, PCs
  <2>2. CASE k \in CodeStages \cap DOMAIN base_sha
    <3>1. redo' = [stage |-> k, keep |-> entry[k], drop |-> AgentWork(origin) \ (entry[k] \cup base_sha[k])]
      BY <1>22, <2>2 DEF AnswerRedo
    <3>2. redo'.stage = k /\ redo'.drop = AgentWork(origin) \ (entry[k] \cup base_sha[k])
      BY <3>1
    <3>3. \A c \in redo'.drop : c.by = "agent" /\ c.id <= runs
      BY <3>2 DEF AgentWork, KnownInv, KnownHead
    <3> QED
      BY <1>2, <2>1, <2>2, <3>2, <3>3 DEF ToRewind, Busy
  <2>3. CASE k \notin CodeStages \cap DOMAIN base_sha
    <3>1. redo' = [NoRedo EXCEPT !.stage = k]
      BY <1>22, <2>3 DEF AnswerRedo
    <3>2. redo'.drop = {}
      BY <3>1 DEF NoRedo
    <3> QED
      BY <1>2, <2>1, <3>2
  <2> QED
    BY <2>2, <2>3
<1> QED
  BY <1>4, <1>9, <1>10, <1>11, <1>12, <1>13, <1>14, <1>15, <1>16, <1>17, <1>18, <1>19, <1>20, <1>21, <1>22
  DEF Next, Worker, Humans

\* THEOREM.  As long as no process dies, no call fails and nobody else pushes, the branch
\* of a redone code stage is rid of the rejected attempt when its CLI starts and when
\* its gate is shown (Engine._run_stage_inner, which rewinds, and Engine._push_branch).
THEOREM RedosRewind == Spec => [](Undisturbed => RedoRewinds)
<1>1. Init => KnownInv /\ RedoInv
  BY DEF Init, KnownInv, KnownHead, RedoInv, NoRedo, Busy
<1>2. TypeOK /\ RunOwnsRow /\ (KnownInv /\ RedoInv) /\ [Next]_vars => (KnownInv /\ RedoInv)'
  BY KnownStep, RedoStep
<1>3. RedoInv => (Undisturbed => RedoRewinds)
  BY DEF RedoInv, RedoRewinds, ToRewind, Rewound
<1> QED
  BY <1>1, <1>2, <1>3, Invariant, PTL DEF Spec

-----------------------------------------------------------------------------
(* What was approved before a redo, through crashes, pushes and laps.        *)

\* The row is past the launch of its stage in this visit, or will only resume it,
\* or rewind to its baseline.
BaseIsOfThisVisit ==
    \/ status \in {"awaiting_input"} \cup Failed
    \/ pc \in {"invoke", "steer", "after", "decide", "park"}
    \/ gate_kind # "none"
    \/ pending_redo_stage = stage
    \/ pc \in {"prepare", "pull", "launch"} /\ run.resuming

\* What was approved when a stage was entered is the agent's and grows with the
\* stages; the baselines that a redo may go back to hold it.
EntriesGrow ==
    /\ \A s \in Stages : \A c \in entry[s] : c.by = "agent"
    /\ \A s, t \in Stages : s <= t /\ t <= stage => entry[s] \subseteq entry[t]
BasesHold ==
    /\ pending_redo_stage <= stage
    /\ \A t \in DOMAIN base_sha : t < stage => entry[t] \subseteq base_sha[t]
    /\ BaseIsOfThisVisit /\ stage \in DOMAIN base_sha => entry[stage] \subseteq base_sha[stage]
\* So does the branch, on origin and in the clone of a run.
BranchHolds ==
    /\ entry[stage] \subseteq origin
    /\ pc \in {"pull", "launch", "invoke", "steer", "after", "decide", "park"} => entry[stage] \subseteq workspace
    /\ pc \in {"decide", "park", "final"} /\ origin = tracking => AgentWork(origin) \subseteq workspace
KeepInv ==
    used["fault"] = 0 /\ used["fetch"] = 0 =>
        /\ EntriesGrow /\ BasesHold /\ BranchHolds
        /\ run.result \notin RunFaults
        /\ redo.stage # NoStage => redo.stage = stage /\ redo.keep \subseteq entry[stage]

\* Every plan has several build groups: P6 is not skipped.
NoStageIsSkipped == GroupStage \notin Stages

\* Without failed calls and fetches, and with no stage skipped, no step of the run
\* that fails, and none that skips, is taken.
LEMMA OnlyGoodSteps ==
    ASSUME TypeOK, NoStageIsSkipped, KeepInv, used["fault"] = 0, used["fetch"] = 0,
           ~Spend("fault"), ~Spend("fetch")
    PROVE  /\ ~BudgetBlock /\ ~RunRaises /\ ~PrepareFromBase /\ ~SkipGroup /\ ~RetryTransient /\ ~RunFails
           /\ PushFails => origin # tracking
  BY DEF BudgetBlock, RunRaises, PrepareFromBase, SkipGroup, RetryTransient, RunFails, PushFails, KeepInv,
     NoStageIsSkipped, TypeOK, LoopOK, Run, RunFaults

\* A stage is entered: what origin holds is approved.
LEMMA EnterKeeps ==
    ASSUME TypeOK, EnterNext, stage < LastStage, EntriesGrow, BasesHold, BranchHolds,
           BaseIsOfThisVisit, UNCHANGED <<base_sha, origin, tracking, workspace>>,
           ~BaseIsOfThisVisit', pending_redo_stage' = pending_redo_stage,
           pc' \notin {"pull", "launch", "invoke", "steer", "after", "decide", "park"},
           pc' = "final" => pc \in {"decide", "final"}
    PROVE  EntriesGrow' /\ BasesHold' /\ BranchHolds'
<1>1. /\ stage \in Stages /\ stage' = stage + 1 /\ stage' \in Stages /\ pending_redo_stage \in Stages \cup {NoStage}
      /\ entry \in [Stages -> Heads] /\ DOMAIN base_sha \subseteq Stages /\ LastStage \in Nat
  BY PipelineAssumption DEF PipelineAssumption, TypeOK, RowOK, TablesOK, HistOK, EnterNext, Stages
<1>2. /\ entry'[stage'] = AgentWork(origin)
      /\ \A s \in Stages : s # stage' => entry'[s] = entry[s]
  BY <1>1 DEF EnterNext
<1>3. \A s \in Stages : s <= stage => entry[s] \subseteq AgentWork(origin)
  BY <1>1 DEF EntriesGrow, BranchHolds, AgentWork, Stages
<1>4. EntriesGrow'
  <2>1. \A s \in Stages : \A c \in entry'[s] : c.by = "agent"
    BY <1>1, <1>2 DEF EntriesGrow, AgentWork
  <2>2. ASSUME NEW s \in Stages, NEW t \in Stages, s <= t, t <= stage'
        PROVE  entry'[s] \subseteq entry'[t]
    <3>1. CASE t = stage'
      <4>1. CASE s = stage'
        BY <3>1, <4>1
      <4>2. CASE s # stage'
        <5>1. s <= stage
          BY <1>1, <2>2, <3>1, <4>2 DEF Stages
        <5> QED
          BY <1>2, <1>3, <3>1, <4>2, <5>1
      <4> QED
        BY <4>1, <4>2
    <3>2. CASE t # stage'
      <4>1. t <= stage /\ s # stage'
        BY <1>1, <2>2, <3>2 DEF Stages
      <4> QED
        BY <1>2, <2>2, <3>2, <4>1 DEF EntriesGrow
    <3> QED
      BY <3>1, <3>2
  <2> QED
    BY <2>1, <2>2 DEF EntriesGrow
<1>5. BasesHold'
  <2>1. pending_redo_stage' <= stage'
    BY <1>1 DEF BasesHold, Stages, NoStage
  <2>2. ASSUME NEW t \in DOMAIN base_sha, t < stage' PROVE entry'[t] \subseteq base_sha[t]
    <3>1. t \in Stages /\ t # stage' /\ (t < stage \/ t = stage)
      BY <1>1, <2>2 DEF Stages
    <3> QED
      BY <1>2, <3>1 DEF BasesHold
  <2> QED
    BY <2>1, <2>2 DEF BasesHold
<1>6. BranchHolds'
  <2>1. entry'[stage'] \subseteq origin
    BY <1>2 DEF AgentWork
  <2>2. AgentWork(origin)' = AgentWork(origin)
    BY DEF AgentWork
  <2> QED
    BY <2>1, <2>2 DEF BranchHolds
<1> QED
  BY <1>4, <1>5, <1>6

\* A step that enters no stage and changes no baseline keeps the first two parts, if
\* the baseline of its stage was this visit's before.
LEMMA BasesFrame ==
    ASSUME EntriesGrow, BasesHold, UNCHANGED <<entry, stage, base_sha>>,
           pending_redo_stage' = pending_redo_stage \/ pending_redo_stage' = NoStage,
           stage \in Stages, BaseIsOfThisVisit' => BaseIsOfThisVisit
    PROVE  EntriesGrow' /\ BasesHold'
<1>1. NoStage <= stage
  BY DEF NoStage, Stages
<1> QED
  BY <1>1 DEF EntriesGrow, BasesHold

\* Approved work stays in the baselines and on the branch.
LEMMA KeepStep ==
    ASSUME TypeOK, RunOwnsRow, KnownInv, ResumeConsumed, KeepInv, NoStageIsSkipped, [Next]_vars
    PROVE  KeepInv'
<1> DEFINE Redone == redo.stage # NoStage => redo.stage = stage /\ redo.keep \subseteq entry[stage]
<1> SUFFICES ASSUME used'["fault"] = 0, used'["fetch"] = 0
             PROVE  /\ EntriesGrow' /\ BasesHold' /\ BranchHolds'
                    /\ run'.result \notin RunFaults
                    /\ Redone'
  BY DEF KeepInv
<1>1. used["fault"] = 0 /\ used["fetch"] = 0 /\ ~Spend("fault") /\ ~Spend("fetch")
  BY NotSpent DEF Events
<1>2. EntriesGrow /\ BasesHold /\ BranchHolds /\ run.result \notin RunFaults /\ Redone
  BY <1>1 DEF KeepInv
<1>3. /\ run \in Run /\ pc \in PCs /\ stage \in Stages /\ redo \in Redos /\ entry \in [Stages -> Heads]
      /\ (pc \in Busy => status = "running" /\ run.stage = stage)
      /\ origin \in Heads /\ DOMAIN base_sha \subseteq Stages /\ status \in Statuses
  BY DEF TypeOK, LoopOK, RowOK, HistOK, GitOK, TablesOK, RunOwnsRow
<1>4. /\ ~BudgetBlock /\ ~RunRaises /\ ~PrepareFromBase /\ ~SkipGroup /\ ~RetryTransient /\ ~RunFails
      /\ PushFails => origin # tracking
  BY <1>1, OnlyGoodSteps
<1>5. NoRun.result \notin RunFaults
  BY DEF NoRun, RunFaults
<1>6. redo' = NoRedo => Redone'
  BY DEF NoRedo
<1>7. UNCHANGED <<entry, redo, stage>> => Redone'
  BY <1>2
\* steps that touch neither the branch nor the row's stage
<1>8. ASSUME UNCHANGED <<entry, stage, redo, base_sha, origin, tracking, workspace, pending_redo_stage>>,
             run'.result = run.result \/ run' = NoRun,
             BaseIsOfThisVisit' => BaseIsOfThisVisit,
             pc' \in {"pull", "launch", "invoke", "steer", "after", "decide", "park"}
                => pc \in {"pull", "launch", "invoke", "steer", "after", "decide", "park"},
             pc' \in {"decide", "park", "final"} => pc \in {"decide", "park", "final"}
      PROVE  EntriesGrow' /\ BasesHold' /\ BranchHolds' /\ run'.result \notin RunFaults /\ Redone'
  <2>1. EntriesGrow' /\ BasesHold'
    BY <1>2, <1>3, <1>8, BasesFrame
  <2>2. BranchHolds'
    BY <1>2, <1>8 DEF BranchHolds, AgentWork
  <2> QED
    BY <1>2, <1>5, <1>7, <1>8, <2>1, <2>2
<1>9. CASE DropWakeup \/ PullNothing \/ ProceedLast \/ Skip \/ Steer \/ Requeue
           \/ LogDecision \/ EnqueueAnswer \/ Crash \/ AnswerAsk \/ UNCHANGED vars
  BY <1>3, <1>8, <1>9 DEF DropWakeup, PullNothing, ProceedLast, Skip, Steer, Requeue, LogDecision, EnqueueAnswer, Crash,
     AnswerAsk, Leave, vars, row, tables, git, loop, hist, BaseIsOfThisVisit, Redoable, Failed, Busy
<1>10. CASE SessionLost
  <2>1. run'.result = run.result /\ ~run'.resuming
    BY <1>3, <1>10 DEF SessionLost, Run
  <2> QED
    BY <1>8, <1>10, <2>1 DEF SessionLost, row, tables, git, hist, BaseIsOfThisVisit
<1>11. CASE StartRun
  <2>1. run'.result = NoRun.result /\ (run'.resuming => gate_kind # "none")
    BY <1>11, DefaultsTyped DEF StartRun, Run, ResumeIntended, NoRun
  <2>2. UNCHANGED <<entry, stage, redo, base_sha, origin, tracking, workspace, pending_redo_stage, gate_kind>>
        /\ pc = "idle" /\ pc' = "prepare" /\ status' = "running"
    BY <1>11 DEF StartRun, tables, git, hist
  <2>3. BaseIsOfThisVisit' => BaseIsOfThisVisit
    BY <2>1, <2>2 DEF BaseIsOfThisVisit, Failed
  <2>4. EntriesGrow' /\ BasesHold'
    BY <1>2, <1>3, <2>2, <2>3, BasesFrame
  <2>5. BranchHolds'
    BY <1>2, <2>2 DEF BranchHolds
  <2> QED
    BY <1>5, <1>7, <2>1, <2>2, <2>4, <2>5
<1>12. CASE PrepareBranch
  <2>1. /\ UNCHANGED <<entry, stage, redo, base_sha, origin, gate_kind, status>>
        /\ pc = "prepare" /\ pc' = "pull" /\ run'.result = run.result /\ (run'.resuming => run.resuming)
        /\ pending_redo_stage' = IF pending_redo_stage = stage THEN NoStage ELSE pending_redo_stage
        /\ \/ workspace' = origin
           \/ pending_redo_stage = stage /\ stage \in DOMAIN base_sha /\ workspace' = base_sha[stage]
    BY <1>3, <1>12 DEF PrepareBranch, Checkout, Rewinds, tables, hist, Run, Busy
  <2>2. BaseIsOfThisVisit' => BaseIsOfThisVisit
    BY <2>1 DEF BaseIsOfThisVisit
  <2>3. EntriesGrow' /\ BasesHold'
    BY <1>2, <1>3, <2>1, <2>2, BasesFrame
  <2>4. entry[stage] \subseteq workspace'
    BY <1>2, <2>1 DEF BranchHolds, BasesHold, BaseIsOfThisVisit
  <2>5. BranchHolds'
    BY <1>2, <2>1, <2>4 DEF BranchHolds
  <2> QED
    BY <1>2, <1>7, <2>1, <2>3, <2>5
<1>13. CASE PullEdit
  <2>1. /\ UNCHANGED <<entry, stage, redo, base_sha, gate_kind, status, pending_redo_stage, run>>
        /\ pc = "pull" /\ pc' = "launch" /\ workspace \subseteq workspace'
        /\ UNCHANGED <<origin, tracking>> \/ origin' = workspace'
    BY <1>13 DEF PullEdit, row, tables
  <2>2. BaseIsOfThisVisit' => BaseIsOfThisVisit
    BY <2>1 DEF BaseIsOfThisVisit
  <2>3. EntriesGrow' /\ BasesHold'
    BY <1>2, <1>3, <2>1, <2>2, BasesFrame
  <2>4. BranchHolds'
    BY <1>2, <2>1 DEF BranchHolds
  <2> QED
    BY <1>2, <1>7, <2>1, <2>3, <2>4
<1>14. CASE Launch
  <2>1. /\ UNCHANGED <<entry, stage, redo, origin, tracking, workspace, status, pending_redo_stage, run>>
        /\ pc = "launch" /\ pc' = "invoke" /\ gate_kind' = "none"
        /\ DOMAIN base_sha' \subseteq DOMAIN base_sha \cup {stage}
        /\ \A t \in DOMAIN base_sha : t # stage => base_sha'[t] = base_sha[t]
        /\ run.resuming => base_sha' = base_sha
        /\ ~run.resuming => base_sha'[stage] = workspace
    BY <1>3, <1>14 DEF Launch, Baseline, git, Busy
  <2>2. EntriesGrow'
    BY <1>2, <2>1 DEF EntriesGrow
  <2>3. stage \in DOMAIN base_sha' => entry[stage] \subseteq base_sha'[stage]
    BY <1>2, <2>1 DEF BasesHold, BaseIsOfThisVisit, BranchHolds
  <2>4. BasesHold'
    <3>1. ASSUME NEW t \in DOMAIN base_sha', t < stage PROVE entry[t] \subseteq base_sha'[t]
      <4>1. t # stage
        BY <1>3, <3>1 DEF Stages
      <4> QED
        BY <1>2, <2>1, <3>1, <4>1 DEF BasesHold
    <3> QED
      BY <1>2, <2>1, <2>3, <3>1 DEF BasesHold
  <2>5. BranchHolds'
    BY <1>2, <2>1 DEF BranchHolds
  <2> QED
    BY <1>2, <1>7, <2>1, <2>2, <2>4, <2>5
<1>15. CASE AgentReturns \/ AgentInterrupted
  <2>1. /\ UNCHANGED <<entry, stage, redo, base_sha, gate_kind, status, pending_redo_stage, origin, tracking>>
        /\ pc = "invoke" /\ pc' \in {"after", "steer"} /\ workspace \subseteq workspace'
        /\ run'.result \notin RunFaults
    BY <1>1, <1>2, <1>3, <1>15 DEF AgentReturns, AgentInterrupted, Worked, tables, Run
  <2>2. BaseIsOfThisVisit
    BY <2>1 DEF BaseIsOfThisVisit
  <2>3. EntriesGrow' /\ BasesHold'
    BY <1>2, <1>3, <2>1, <2>2, BasesFrame
  <2>4. BranchHolds'
    BY <1>2, <2>1 DEF BranchHolds
  <2> QED
    BY <1>7, <2>1, <2>3, <2>4
<1>16. CASE SteerResumes \/ SteerFallsBack
  <2>1. /\ UNCHANGED <<entry, stage, redo, base_sha, pending_redo_stage, run, workspace>>
        /\ pc = "steer" /\ pc' = "requeue"
        /\ origin' = workspace \/ UNCHANGED <<origin, tracking>>
    BY <1>16 DEF SteerResumes, SteerFallsBack, PushOk, PushFails, tables
  <2>2. BaseIsOfThisVisit
    BY <2>1 DEF BaseIsOfThisVisit
  <2>3. EntriesGrow' /\ BasesHold'
    BY <1>2, <1>3, <2>1, <2>2, BasesFrame
  <2>4. BranchHolds'
    BY <1>2, <2>1 DEF BranchHolds
  <2> QED
    BY <1>2, <1>7, <2>1, <2>3, <2>4
<1>17. CASE Publish
  <2>1. /\ UNCHANGED <<entry, stage, redo, base_sha, pending_redo_stage>> /\ run'.result = run.result
        /\ pc = "after" /\ pc' = "decide" /\ origin' = workspace /\ workspace \subseteq workspace'
    BY <1>3, <1>17 DEF Publish, row, tables, Run
  <2>2. BaseIsOfThisVisit
    BY <2>1 DEF BaseIsOfThisVisit
  <2>3. EntriesGrow' /\ BasesHold'
    BY <1>2, <1>3, <2>1, <2>2, BasesFrame
  <2>4. BranchHolds'
    BY <1>2, <2>1 DEF BranchHolds, AgentWork
  <2> QED
    BY <1>2, <1>7, <2>1, <2>3, <2>4
<1>18. CASE PublishFails
  <2>1. /\ UNCHANGED <<entry, stage, redo, base_sha, pending_redo_stage, run, origin, tracking, workspace>>
        /\ pc = "after" /\ pc' = "final" /\ origin # tracking
    BY <1>4, <1>18 DEF PublishFails, PushFails, FailClosed, tables
  <2>2. BaseIsOfThisVisit
    BY <2>1 DEF BaseIsOfThisVisit
  <2>3. EntriesGrow' /\ BasesHold'
    BY <1>2, <1>3, <2>1, <2>2, BasesFrame
  <2>4. BranchHolds'
    BY <1>2, <2>1 DEF BranchHolds
  <2> QED
    BY <1>2, <1>7, <2>1, <2>3, <2>4
<1>19. CASE AutoAdvance
  <2>1. /\ EnterNext /\ UNCHANGED <<base_sha, origin, tracking, workspace, pending_redo_stage, gate_kind>>
        /\ pc = "decide" /\ pc' = "final" /\ status' = "queued" /\ run'.result = run.result /\ run.stage \in AutoStages
        /\ redo' = NoRedo
    BY <1>3, <1>19 DEF AutoAdvance, EnterNext, git, Run
  <2>2. stage < LastStage
    <3>1. run.stage = stage
      BY <1>3, <2>1 DEF Busy, PCs
    <3>2. stage \in AutoStages
      BY <2>1, <3>1
    <3> QED
      BY <3>2, PipelineAssumption DEF PipelineAssumption
  <2>3. pending_redo_stage # stage' /\ gate_kind = "none"
    <3>1. pending_redo_stage \in Stages \cup {NoStage} /\ pending_redo_stage <= stage /\ stage' = stage + 1
      BY <1>2, <2>1 DEF TypeOK, RowOK, BasesHold, EnterNext
    <3> QED
      BY <1>3, <2>1, <3>1 DEF ResumeConsumed, Stages, NoStage
  <2>4. BaseIsOfThisVisit /\ ~BaseIsOfThisVisit'
    BY <2>1, <2>3 DEF BaseIsOfThisVisit, Failed
  <2>5. EntriesGrow' /\ BasesHold' /\ BranchHolds'
    BY <1>2, <2>1, <2>2, <2>4, EnterKeeps
  <2> QED
    BY <1>2, <1>6, <2>1, <2>5
<1>20. CASE ParkFields
  <2>1. /\ UNCHANGED <<entry, stage, redo, base_sha, pending_redo_stage, run, origin, tracking, workspace>>
        /\ pc = "decide" /\ pc' = "park"
    BY <1>20 DEF ParkFields, tables, git, hist
  <2>2. BaseIsOfThisVisit
    BY <2>1 DEF BaseIsOfThisVisit
  <2> QED
    BY <1>8, <2>1, <2>2
<1>21. CASE ParkGate
  <2>1. /\ UNCHANGED <<entry, stage, base_sha, pending_redo_stage, run, origin, tracking, workspace>>
        /\ pc = "park" /\ pc' = "final" /\ redo' = NoRedo
    BY <1>21 DEF ParkGate, tables, git
  <2>2. BaseIsOfThisVisit
    BY <2>1 DEF BaseIsOfThisVisit
  <2>3. EntriesGrow' /\ BasesHold'
    BY <1>2, <1>3, <2>1, <2>2, BasesFrame
  <2>4. BranchHolds'
    BY <1>2, <2>1 DEF BranchHolds, AgentWork
  <2> QED
    BY <1>2, <1>6, <2>1, <2>3, <2>4
<1>22. CASE Checkpoint
  <2>1. /\ UNCHANGED <<entry, stage, redo, base_sha, pending_redo_stage, workspace, status, gate_kind>>
        /\ pc = "final" /\ pc' = "idle" /\ run' = NoRun
        /\ (origin = tracking /\ origin' = workspace) \/ UNCHANGED <<origin, tracking>>
    BY <1>22 DEF Checkpoint, Leave, PushOk, PushFails, row, tables
  <2>2. BaseIsOfThisVisit' => BaseIsOfThisVisit
    BY <2>1 DEF BaseIsOfThisVisit
  <2>3. EntriesGrow' /\ BasesHold'
    BY <1>2, <1>3, <2>1, <2>2, BasesFrame
  <2>4. entry[stage] \subseteq AgentWork(origin)
    BY <1>2, <1>3 DEF BranchHolds, EntriesGrow, AgentWork
  <2>5. BranchHolds'
    BY <1>2, <2>1, <2>4 DEF BranchHolds
  <2> QED
    BY <1>5, <1>7, <2>1, <2>3, <2>5
<1>23. CASE Proceed
  <2>1. /\ EnterNext /\ UNCHANGED <<base_sha, origin, tracking, workspace, pending_redo_stage, gate_kind, pc, run>>
        /\ status = "awaiting_input" /\ status' = "queued" /\ stage < LastStage /\ redo' = NoRedo
        /\ pc \notin Busy
    BY <1>3, <1>23 DEF Proceed, Approvable, HasNext, EnterNext, git, tables, loop
  <2>2. gate_kind = "none"
    BY <1>23, <2>1 DEF Proceed, Approvable, ResumeConsumed, TypeOK, RowOK
  <2>3. pending_redo_stage # stage'
    <3>1. pending_redo_stage \in Stages \cup {NoStage} /\ pending_redo_stage <= stage /\ stage' = stage + 1
      BY <1>2, <2>1 DEF TypeOK, RowOK, BasesHold, EnterNext
    <3> QED
      BY <1>3, <3>1 DEF Stages, NoStage
  <2>4. BaseIsOfThisVisit /\ ~BaseIsOfThisVisit'
    BY <2>1, <2>2, <2>3 DEF BaseIsOfThisVisit, Failed, Busy, PCs
  <2>5. EntriesGrow' /\ BasesHold' /\ BranchHolds'
    BY <1>2, <2>1, <2>4, EnterKeeps DEF Busy, PCs
  <2> QED
    BY <1>2, <1>6, <2>1, <2>5
<1>24. ASSUME NEW k \in 0 .. stage, AnswerRedo(k)
       PROVE  EntriesGrow' /\ BasesHold' /\ BranchHolds' /\ run'.result \notin RunFaults /\ Redone'
  <2>1. /\ UNCHANGED <<entry, base_sha, origin, tracking, workspace, pc, run>> /\ pc \notin Busy
        /\ stage' = k /\ pending_redo_stage' = k /\ gate_kind' = "none" /\ BaseIsOfThisVisit
    BY <1>3, <1>24 DEF AnswerRedo, Redoable, Failed, loop, git, tables, BaseIsOfThisVisit
  <2>2. k \in Stages /\ k <= stage
    BY <1>3, PipelineAssumption DEF PipelineAssumption, Stages
  <2>3. EntriesGrow'
    <3>1. ASSUME NEW s \in Stages, NEW t \in Stages, s <= t, t <= k PROVE entry[s] \subseteq entry[t]
      <4>1. t <= stage
        BY <1>3, <2>2, <3>1 DEF Stages
      <4> QED
        BY <1>2, <3>1, <4>1 DEF EntriesGrow
    <3> QED
      BY <1>2, <2>1, <3>1 DEF EntriesGrow
  <2>4. BasesHold'
    <3>1. ASSUME NEW t \in DOMAIN base_sha, t <= k PROVE entry[t] \subseteq base_sha[t]
      <4>1. t \in Stages /\ (t < stage \/ t = stage)
        BY <1>3, <2>2, <3>1 DEF Stages
      <4> QED
        BY <1>2, <2>1, <4>1 DEF BasesHold
    <3>2. \A t \in DOMAIN base_sha : (t < k => t <= k) /\ k <= k
      BY <1>3, <2>2 DEF Stages
    <3> QED
      BY <2>1, <3>1, <3>2 DEF BasesHold, Stages
  <2>5. entry[k] \subseteq entry[stage]
    BY <1>2, <1>3, <2>2 DEF EntriesGrow, Stages
  <2>6. BranchHolds'
    BY <1>2, <2>1, <2>5 DEF BranchHolds, AgentWork, Busy, PCs
  <2>7. redo'.stage = k /\ redo'.keep \subseteq entry[k]
    <3>1. \/ redo' = [stage |-> k, keep |-> entry[k], drop |-> AgentWork(origin) \ (entry[k] \cup base_sha[k])]
          \/ redo' = [NoRedo EXCEPT !.stage = k]
      BY <1>24 DEF AnswerRedo
    <3> QED
      BY <3>1 DEF NoRedo
  <2> QED
    BY <1>2, <2>1, <2>3, <2>4, <2>6, <2>7
<1>25. CASE Reintake
  <2>1. /\ UNCHANGED <<origin, tracking, workspace, pc, run>> /\ stage' = 0 /\ DOMAIN base_sha' = {}
        /\ pending_redo_stage' = NoStage /\ redo' = NoRedo /\ pc \notin Busy
        /\ entry' = [entry EXCEPT ![0] = AgentWork(origin)]
    BY <1>3, <1>25 DEF Reintake, git
  <2>2. 0 \in Stages
    BY PipelineAssumption DEF PipelineAssumption, Stages
  <2>3. /\ entry'[0] = AgentWork(origin)
        /\ \A s \in Stages : s # 0 => entry'[s] = entry[s]
    BY <1>3, <2>1, <2>2
  <2>4. EntriesGrow'
    <3>1. \A s \in Stages : \A c \in entry'[s] : c.by = "agent"
      BY <1>2, <2>3 DEF EntriesGrow, AgentWork
    <3>2. \A s, t \in Stages : s <= t /\ t <= 0 => s = 0 /\ t = 0
      BY DEF Stages
    <3> QED
      BY <2>1, <3>1, <3>2 DEF EntriesGrow
  <2>5. BasesHold'
    BY <2>1 DEF BasesHold, NoStage
  <2>6. BranchHolds'
    BY <1>2, <2>1, <2>3 DEF BranchHolds, AgentWork, Busy, PCs
  <2> QED
    BY <1>2, <1>6, <2>1, <2>4, <2>5, <2>6
<1>26. CASE ThirdPartyPush
  <2>1. /\ UNCHANGED <<entry, stage, redo, base_sha, tracking, workspace, pending_redo_stage, pc, run, status, gate_kind>>
        /\ origin' = origin \cup {[by |-> "push", id |-> used["push"] + 1]}
    BY <1>26 DEF ThirdPartyPush, row, tables, loop
  <2>2. origin' # tracking'
    <3>1. [by |-> "push", id |-> used["push"] + 1] \notin tracking
      BY CountersGrow DEF KnownInv, KnownHead
    <3> QED
      BY <2>1, <3>1
  <2>3. BaseIsOfThisVisit' => BaseIsOfThisVisit
    BY <2>1 DEF BaseIsOfThisVisit
  <2>4. EntriesGrow' /\ BasesHold'
    BY <1>2, <1>3, <2>1, <2>3, BasesFrame
  <2>5. BranchHolds'
    BY <1>2, <2>1, <2>2 DEF BranchHolds
  <2> QED
    BY <1>2, <1>7, <2>1, <2>4, <2>5
<1> QED
  BY <1>4, <1>9, <1>10, <1>11, <1>12, <1>13, <1>14, <1>15, <1>16, <1>17, <1>18, <1>19, <1>20, <1>21, <1>22,
     <1>23, <1>24, <1>25, <1>26 DEF Next, Worker, Humans

\* THEOREM.  As long as no call and no fetch fails, and with no stage skipped, a redo
\* keeps what was approved before its stage, through crashes, foreign pushes and
\* further laps (Engine._run_stage_inner: the baseline of the stage is the head that
\* the stage before it left).
THEOREM RedosKeepApproved ==
    ASSUME NoStageIsSkipped
    PROVE  Spec => [](used["fault"] = 0 /\ used["fetch"] = 0 => RedoKeepsApproved)
<1>1. Init => KnownInv /\ ResumeConsumed /\ KeepInv
  <2>1. Init => KnownInv /\ ResumeConsumed
    BY DEF Init, KnownInv, KnownHead, ResumeConsumed
  <2>2. ASSUME Init PROVE KeepInv
    <3>1. \A s, t \in Stages : entry[s] = {} /\ entry[t] = {}
      BY <2>2 DEF Init
    <3>2. 0 \in Stages
      BY PipelineAssumption DEF PipelineAssumption, Stages
    <3> QED
      BY <2>2, <3>1, <3>2 DEF Init, KeepInv, EntriesGrow, BasesHold, BranchHolds, NoRun, NoRedo, RunFaults, NoStage
  <2> QED
    BY <2>1, <2>2
<1>2. TypeOK /\ RunOwnsRow /\ (KnownInv /\ ResumeConsumed /\ KeepInv) /\ [Next]_vars
         => (KnownInv /\ ResumeConsumed /\ KeepInv)'
  BY KnownStep, ResumeConsumedStep, KeepStep
<1>3. TypeOK /\ KeepInv => (used["fault"] = 0 /\ used["fetch"] = 0 => RedoKeepsApproved)
  <2> SUFFICES ASSUME TypeOK, KeepInv, used["fault"] = 0, used["fetch"] = 0, pc = "invoke", redo.stage = run.stage
               PROVE  redo.keep \subseteq workspace
    BY DEF RedoKeepsApproved
  <2>1. redo.stage # NoStage
    BY DEF TypeOK, LoopOK, Run, Stages, NoStage
  <2> QED
    BY <2>1 DEF KeepInv, BranchHolds
<1> QED
  BY <1>1, <1>2, <1>3, Invariant, PTL DEF Spec

-----------------------------------------------------------------------------
(* What was ever published, through foreign pushes, in one lap.              *)

\* No process dies, no call or fetch fails, and the feature is built once.
OneCalmLap == \A e \in {"crash", "fault", "fetch", "lap"} : used[e] = 0

Archives == UNION {a.head : a \in archive}
\* An attempt is archived under its own number: the one that was last counted has an
\* archive only between its rewind and the launch that counts the next.
ArchivesAreOfOldAttempts ==
    /\ \A s \in DOMAIN base_sha : attempts[s] >= 1
    /\ \A at \in archive :
          /\ at.attempt <= attempts[at.stage]
          /\ at.attempt = attempts[at.stage] => pc \in {"pull", "launch"} /\ run.stage = at.stage /\ ~run.resuming
\* What a push of the clone would drop from origin is archived.
DroppedIsArchived ==
    pc \in {"pull", "launch", "invoke", "steer", "after", "decide", "park", "final"} /\ origin = tracking
        => origin \subseteq workspace \cup Archives
ReachInv ==
    OneCalmLap => /\ published \subseteq origin \cup Archives
                  /\ ArchivesAreOfOldAttempts /\ DroppedIsArchived

\* A rewind archives what origin holds, and what was archived stays.
LEMMA RewindArchives ==
    ASSUME TypeOK, ArchivesAreOfOldAttempts, pc = "prepare", NEW s \in DOMAIN base_sha, NEW r,
           archive' = Archived(s, LatestAttempt(s), origin), UNCHANGED attempts,
           pc' = "pull", run' = r, r.stage = s, ~r.resuming, UNCHANGED base_sha
    PROVE  /\ Archives \cup origin \subseteq Archives'
           /\ ArchivesAreOfOldAttempts'
<1>1. /\ s \in Stages /\ attempts \in [Stages -> Nat] /\ attempts[s] >= 1
      /\ archive \subseteq [stage : Stages, attempt : Nat, head : Heads]
  BY DEF TypeOK, TablesOK, GitOK, ArchivesAreOfOldAttempts
<1>2. LatestAttempt(s) = attempts[s]
  BY <1>1 DEF LatestAttempt
<1>3. {a \in archive : a.stage = s /\ a.attempt = attempts[s]} = {}
  BY DEF ArchivesAreOfOldAttempts
<1>4. archive' = archive \cup {[stage |-> s, attempt |-> attempts[s], head |-> origin]}
  BY <1>2, <1>3 DEF Archived
<1> DEFINE new == [stage |-> s, attempt |-> attempts[s], head |-> origin]
<1>5. new.stage = s /\ new.attempt = attempts[s] /\ new.head = origin
  OBVIOUS
<1>6. Archives \cup origin \subseteq Archives'
  BY <1>4, <1>5 DEF Archives
<1>7. \A at \in archive : at.attempt <= attempts[at.stage] /\ at.attempt # attempts[at.stage]
  BY DEF ArchivesAreOfOldAttempts
<1>8. ASSUME NEW at \in archive'
      PROVE  /\ at.attempt <= attempts[at.stage]
             /\ at.attempt = attempts[at.stage] => at.stage = s
  <2>1. CASE at = new
    BY <1>1, <1>5, <2>1
  <2>2. CASE at \in archive
    BY <1>7, <2>2
  <2> QED
    BY <1>4, <1>8, <2>1, <2>2
<1>9. \A t \in DOMAIN base_sha : attempts[t] >= 1
  BY DEF ArchivesAreOfOldAttempts
<1>10. ArchivesAreOfOldAttempts'
  BY <1>8, <1>9 DEF ArchivesAreOfOldAttempts
<1> QED
  BY <1>6, <1>10

\* So does a push of what the clone has left.
LEMMA ReachStep ==
    ASSUME TypeOK, RunOwnsRow, KnownInv, ReachInv, NoStageIsSkipped, [Next]_vars
    PROVE  ReachInv'
<1> DEFINE Goal == /\ published' \subseteq origin' \cup Archives'
                   /\ ArchivesAreOfOldAttempts' /\ DroppedIsArchived'
<1> SUFFICES ASSUME OneCalmLap' PROVE Goal
  BY DEF ReachInv
<1>1. ~Spend("crash") /\ ~Spend("fault") /\ ~Spend("fetch") /\ ~Spend("lap") /\ OneCalmLap
  BY NotSpent DEF OneCalmLap, Events
<1>2. published \subseteq origin \cup Archives /\ ArchivesAreOfOldAttempts /\ DroppedIsArchived
  BY <1>1 DEF ReachInv
<1>3. /\ run \in Run /\ pc \in PCs /\ stage \in Stages /\ attempts \in [Stages -> Nat]
      /\ DOMAIN base_sha \subseteq Stages /\ (pc \in Busy => run.stage = stage)
      /\ archive \subseteq [stage : Stages, attempt : Nat, head : Heads]
  BY DEF TypeOK, LoopOK, RowOK, GitOK, TablesOK, RunOwnsRow
<1>4. /\ ~Crash /\ ~BudgetBlock /\ ~RunRaises /\ ~PrepareFromBase /\ ~Reintake /\ ~SkipGroup
      /\ PushFails => origin # tracking
  BY <1>1, <1>3 DEF Crash, BudgetBlock, RunRaises, PrepareFromBase, Reintake, PushFails, SkipGroup, NoStageIsSkipped, Run
\* steps of a run that push nothing, or outside one, and count no attempt
<1>5. ASSUME UNCHANGED <<published, origin, tracking, workspace, archive, base_sha, attempts>>,
             \/ UNCHANGED <<pc, run>>
             \/ pc \notin {"pull", "launch"} /\ pc' \notin {"pull", "launch"}
             \/ pc = "pull" /\ pc' = "launch" /\ UNCHANGED run,
             pc' \in {"pull", "launch", "invoke", "steer", "after", "decide", "park", "final"}
                => pc \in {"pull", "launch", "invoke", "steer", "after", "decide", "park", "final"}
      PROVE  Goal
  BY <1>2, <1>5 DEF ArchivesAreOfOldAttempts, DroppedIsArchived, Archives
<1>6. CASE DropWakeup \/ PullNothing \/ ProceedLast \/ Proceed \/ Skip \/ Steer
           \/ LogDecision \/ EnqueueAnswer \/ AnswerAsk \/ UNCHANGED vars
  BY <1>5, <1>6 DEF DropWakeup, PullNothing, ProceedLast, Proceed, Skip, Steer, LogDecision, EnqueueAnswer,
     AnswerAsk, vars, tables, git, loop, hist
<1>7. ASSUME NEW k \in 0 .. stage, AnswerRedo(k) PROVE Goal
  BY <1>5, <1>7 DEF AnswerRedo, tables, git, loop
<1>8. CASE StartRun \/ SessionLost \/ RetryTransient \/ RunFails \/ AutoAdvance \/ ParkFields \/ ParkGate \/ Requeue
  BY <1>5, <1>8 DEF StartRun, SessionLost, RetryTransient, RunFails, AutoAdvance, ParkFields, ParkGate, Requeue, Leave,
     tables, git, hist
<1>9. CASE PrepareBranch
  <2>1. /\ UNCHANGED <<published, origin, base_sha, attempts>> /\ pc = "prepare" /\ pc' = "pull"
    BY <1>9 DEF PrepareBranch, tables, hist
  <2>2. CASE UNCHANGED archive /\ workspace' = origin
    <3>1. \A at \in archive : at.attempt # attempts[at.stage]
      BY <1>2, <2>1 DEF ArchivesAreOfOldAttempts
    <3> QED
      BY <1>2, <2>1, <2>2, <3>1 DEF ArchivesAreOfOldAttempts, DroppedIsArchived, Archives
  <2>3. CASE ~(UNCHANGED archive /\ workspace' = origin)
    <3>1. /\ stage \in DOMAIN base_sha /\ archive' = Archived(stage, LatestAttempt(stage), origin)
          /\ run'.stage = stage /\ ~run'.resuming
      BY <1>3, <1>9, <2>3 DEF PrepareBranch, Checkout, Rewinds, Run, Busy, PCs
    <3>2. Archives \cup origin \subseteq Archives' /\ ArchivesAreOfOldAttempts'
      BY <1>2, <2>1, <3>1, RewindArchives
    <3> QED
      BY <1>2, <2>1, <3>2 DEF DroppedIsArchived
  <2> QED
    BY <2>2, <2>3
<1>10. CASE PullEdit
  <2>1. /\ UNCHANGED <<archive, base_sha, attempts, run>> /\ pc = "pull" /\ pc' = "launch"
        /\ workspace \subseteq workspace'
        /\ \/ origin = tracking /\ origin' = workspace' /\ published' = published \cup workspace'
           \/ origin # tracking /\ UNCHANGED <<origin, tracking, published>>
    BY <1>10 DEF PullEdit, tables
  <2>2. ArchivesAreOfOldAttempts'
    BY <1>2, <2>1 DEF ArchivesAreOfOldAttempts
  <2>3. CASE origin = tracking
    <3>1. origin \subseteq workspace \cup Archives
      BY <1>2, <2>1, <2>3 DEF DroppedIsArchived
    <3> QED
      BY <1>2, <2>1, <2>2, <2>3, <3>1 DEF DroppedIsArchived, Archives
  <2>4. CASE origin # tracking
    BY <1>2, <2>1, <2>2, <2>4 DEF DroppedIsArchived, Archives
  <2> QED
    BY <2>3, <2>4
<1>11. CASE Launch
  <2>1. /\ UNCHANGED <<published, origin, tracking, workspace, archive, run>> /\ pc = "launch" /\ pc' = "invoke"
        /\ run.resuming => UNCHANGED <<base_sha, attempts>>
        /\ ~run.resuming => /\ DOMAIN base_sha' = DOMAIN base_sha \cup {run.stage}
                            /\ attempts' = [attempts EXCEPT ![run.stage] = @ + 1]
    BY <1>11 DEF Launch, git, hist
  <2>2. run.stage \in Stages
    BY <1>3 DEF Run
  <2>3. DroppedIsArchived' /\ published' \subseteq origin' \cup Archives'
    BY <1>2, <2>1 DEF DroppedIsArchived, Archives
  <2>4. CASE run.resuming
    BY <1>2, <2>1, <2>3, <2>4 DEF ArchivesAreOfOldAttempts
  <2>5. CASE ~run.resuming
    <3>1. /\ attempts'[run.stage] = attempts[run.stage] + 1
          /\ \A s \in Stages : s # run.stage => attempts'[s] = attempts[s]
      BY <1>3, <2>1, <2>2, <2>5
    <3>2. attempts[run.stage] \in Nat
      BY <1>3, <2>2
    <3>3. \A s \in DOMAIN base_sha' : attempts'[s] >= 1
      BY <1>2, <1>3, <2>1, <2>5, <3>1, <3>2 DEF ArchivesAreOfOldAttempts
    <3>4. ASSUME NEW at \in archive PROVE at.attempt <= attempts'[at.stage] /\ at.attempt # attempts'[at.stage]
      <4>1. at.stage \in Stages /\ at.attempt \in Nat /\ at.attempt <= attempts[at.stage] /\ attempts[at.stage] \in Nat
        BY <1>2, <1>3 DEF ArchivesAreOfOldAttempts
      <4>2. at.stage # run.stage => at.attempt # attempts[at.stage]
        BY <1>2 DEF ArchivesAreOfOldAttempts
      <4> QED
        BY <3>1, <4>1, <4>2
    <3> QED
      BY <2>1, <2>3, <3>3, <3>4 DEF ArchivesAreOfOldAttempts
  <2> QED
    BY <2>4, <2>5
<1>12. CASE AgentReturns \/ AgentInterrupted
  <2>1. /\ UNCHANGED <<published, origin, tracking, archive, base_sha, attempts>> /\ pc = "invoke" /\ pc' \in {"after", "steer"}
        /\ workspace \subseteq workspace'
    BY <1>12 DEF AgentReturns, AgentInterrupted, Worked, tables
  <2> QED
    BY <1>2, <2>1 DEF ArchivesAreOfOldAttempts, DroppedIsArchived, Archives
<1>13. CASE SteerResumes \/ SteerFallsBack \/ PublishFails \/ Checkpoint \/ Publish
  <2>1. /\ UNCHANGED <<archive, base_sha, attempts>> /\ pc \in {"steer", "after", "final"}
        /\ pc' \in {"requeue", "final", "idle", "decide"} /\ workspace \subseteq workspace'
        /\ \/ /\ origin = tracking /\ origin' = workspace /\ tracking' = workspace
              /\ published' = published \cup workspace
           \/ origin # tracking /\ UNCHANGED <<origin, tracking, published>>
    BY <1>4, <1>13 DEF SteerResumes, SteerFallsBack, PublishFails, FailClosed, Checkpoint, Publish, PushOk, PushFails, Leave,
       tables
  <2>2. ArchivesAreOfOldAttempts'
    BY <1>2, <2>1 DEF ArchivesAreOfOldAttempts
  <2>3. CASE origin = tracking
    <3>1. origin \subseteq workspace \cup Archives
      BY <1>2, <2>1, <2>3 DEF DroppedIsArchived
    <3> QED
      BY <1>2, <2>1, <2>2, <2>3, <3>1 DEF DroppedIsArchived, Archives
  <2>4. CASE origin # tracking
    BY <1>2, <2>1, <2>2, <2>4 DEF DroppedIsArchived, Archives
  <2> QED
    BY <2>3, <2>4
<1>14. CASE ThirdPartyPush
  <2>1. /\ UNCHANGED <<base_sha, attempts, archive, tracking, workspace, pc, run>>
        /\ origin' = origin \cup {[by |-> "push", id |-> used["push"] + 1]}
        /\ published' = published \cup origin'
    BY <1>14 DEF ThirdPartyPush, tables, loop
  <2>2. origin' # tracking'
    <3>1. [by |-> "push", id |-> used["push"] + 1] \notin tracking
      BY CountersGrow DEF KnownInv, KnownHead
    <3> QED
      BY <2>1, <3>1
  <2> QED
    BY <1>2, <2>1, <2>2 DEF ArchivesAreOfOldAttempts, DroppedIsArchived, Archives
<1> QED
  BY <1>4, <1>6, <1>7, <1>8, <1>9, <1>10, <1>11, <1>12, <1>13, <1>14 DEF Next, Worker, Humans

\* THEOREM.  In one lap without a crash, a failed call or fetch, or a skipped stage,
\* whatever was published stays reachable from origin or from an archive
\* (Engine._push_branch, whose force is leased, and the archive refs of _run_stage_inner).
THEOREM WorkStaysReachable ==
    ASSUME NoStageIsSkipped
    PROVE  Spec => [](OneCalmLap => WorkReachable)
<1>1. Init => KnownInv /\ ReachInv
  <2>1. Init => KnownInv
    BY DEF Init, KnownInv, KnownHead
  <2>2. ASSUME Init PROVE ReachInv
    BY <2>2 DEF Init, ReachInv, ArchivesAreOfOldAttempts, DroppedIsArchived
  <2> QED
    BY <2>1, <2>2
<1>2. TypeOK /\ RunOwnsRow /\ (KnownInv /\ ReachInv) /\ [Next]_vars => (KnownInv /\ ReachInv)'
  BY KnownStep, ReachStep
<1>3. ReachInv => (OneCalmLap => WorkReachable)
  BY DEF ReachInv, WorkReachable, Archives
<1> QED
  BY <1>1, <1>2, <1>3, Invariant, PTL DEF Spec

-----------------------------------------------------------------------------
(* A redone stage meets a human, as long as no process dies.                 *)

\* A redo is logged as its stage's last decision, or is about to be, until a gate.
RedoIsLogged ==
    redo.stage # NoStage =>
        /\ redo.stage = stage /\ status # "awaiting_input"
        /\ \/ unlogged.action = "redo" /\ unlogged.stage = stage
           \/ unlogged.action # "proceed" /\ decision[stage] = "redo"
LoggedInv == used["crash"] = 0 => RedoIsLogged

\* The row of a redo and its decision go together.
LEMMA LoggedStep ==
    ASSUME TypeOK, RunOwnsRow, LoggedInv, [Next]_vars
    PROVE  LoggedInv'
<1> SUFFICES ASSUME used'["crash"] = 0 PROVE RedoIsLogged'
  BY DEF LoggedInv
<1>1. ~Spend("crash") /\ RedoIsLogged
  BY NotSpent DEF Events, LoggedInv
<1>2. /\ pc \in PCs /\ stage \in Stages /\ (pc \in Busy => status = "running")
      /\ decision \in [Stages -> {"none", "proceed", "redo", "auto"}]
      /\ unlogged \in Unlogged
  BY DEF TypeOK, LoopOK, RowOK, TablesOK, RunOwnsRow
<1>3. CASE redo' = NoRedo
  BY <1>3 DEF NoRedo, RedoIsLogged
<1>4. CASE UNCHANGED <<redo, stage, decision, unlogged>> /\ (status' = "awaiting_input" => status = "awaiting_input")
  BY <1>1, <1>4 DEF RedoIsLogged
<1>5. CASE DropWakeup \/ BudgetBlock \/ StartRun \/ RunRaises \/ PrepareBranch \/ PrepareFromBase \/ PullNothing
           \/ PullEdit \/ Launch \/ SessionLost \/ AgentReturns \/ AgentInterrupted \/ SteerResumes \/ SteerFallsBack
           \/ RetryTransient \/ RunFails \/ Publish \/ PublishFails \/ ParkFields \/ Checkpoint \/ Requeue
           \/ EnqueueAnswer \/ ThirdPartyPush \/ Steer \/ UNCHANGED vars
  BY <1>4, <1>5 DEF DropWakeup, BudgetBlock, StartRun, RunRaises, PrepareBranch, PrepareFromBase, PullNothing,
     PullEdit, Launch, SessionLost, AgentReturns, AgentInterrupted, SteerResumes, SteerFallsBack, RetryTransient, RunFails,
     Publish, PublishFails, FailClosed, ParkFields, Checkpoint, Requeue, EnqueueAnswer, ThirdPartyPush, Steer, vars, row,
     tables, human, hist
<1>6. CASE SkipGroup \/ AutoAdvance \/ ParkGate \/ Proceed \/ Reintake
  BY <1>3, <1>6 DEF SkipGroup, AutoAdvance, ParkGate, Proceed, Reintake, EnterNext
<1>7. CASE ProceedLast \/ AnswerAsk
  <2>1. redo.stage = NoStage /\ UNCHANGED redo
    BY <1>1, <1>7 DEF ProceedLast, AnswerAsk, Approvable, RedoIsLogged, hist
  <2> QED
    BY <2>1 DEF RedoIsLogged
<1>8. ASSUME Skip, unlogged = NothingUnlogged PROVE RedoIsLogged'
  <2>1. UNCHANGED <<redo, stage, decision>> /\ status' = "skipped" /\ unlogged' = [stage |-> stage, action |-> "skip", enqueue |-> FALSE]
    BY <1>8 DEF Skip, tables, Answered
  <2>2. unlogged'.action = "skip" /\ unlogged.action = "none"
    BY <1>8, <2>1 DEF NothingUnlogged
  <2> QED
    BY <1>1, <2>1, <2>2 DEF RedoIsLogged
<1>9. ASSUME NEW k \in 0 .. stage, AnswerRedo(k) PROVE RedoIsLogged'
  <2>1. /\ unlogged' = [stage |-> k, action |-> "redo", enqueue |-> TRUE] /\ stage' = k /\ status' = "queued"
        /\ \/ redo' = [stage |-> k, keep |-> entry[k], drop |-> AgentWork(origin) \ (entry[k] \cup base_sha[k])]
           \/ redo' = [NoRedo EXCEPT !.stage = k]
    BY <1>9 DEF AnswerRedo, Answered
  <2>2. redo'.stage = k
    BY <2>1 DEF NoRedo
  <2>3. unlogged'.action = "redo" /\ unlogged'.stage = k
    BY <2>1
  <2> QED
    BY <2>1, <2>2, <2>3 DEF RedoIsLogged
<1>10. CASE LogDecision
  <2>1. UNCHANGED <<redo, stage, status>> /\ unlogged' = NothingUnlogged
        /\ decision' = IF unlogged.action \in {"proceed", "redo"}
                       THEN [decision EXCEPT ![unlogged.stage] = unlogged.action] ELSE decision
    BY <1>10 DEF LogDecision, row, hist
  <2>2. unlogged'.action = "none"
    BY <2>1 DEF NothingUnlogged
  <2>3. CASE redo.stage = NoStage
    BY <2>1, <2>3 DEF RedoIsLogged
  <2>4. CASE redo.stage # NoStage /\ unlogged.action = "redo" /\ unlogged.stage = stage
    <3>1. decision'[stage] = "redo"
      BY <1>2, <2>1, <2>4
    <3> QED
      BY <1>1, <2>1, <2>2, <2>4, <3>1 DEF RedoIsLogged
  <2>5. CASE redo.stage # NoStage /\ ~(unlogged.action = "redo" /\ unlogged.stage = stage)
    <3>1. unlogged.action # "proceed" /\ decision[stage] = "redo"
      BY <1>1, <2>5 DEF RedoIsLogged
    <3>2. decision'[stage] = "redo"
      <4>1. CASE unlogged.action = "redo"
        <5>1. unlogged.stage \in Stages
          BY <1>2 DEF Unlogged
        <5> QED
          BY <1>2, <2>1, <3>1, <4>1, <5>1
      <4>2. CASE unlogged.action # "redo"
        BY <2>1, <3>1, <4>2
      <4> QED
        BY <4>1, <4>2
    <3> QED
      BY <1>1, <2>1, <2>2, <2>5, <3>2 DEF RedoIsLogged
  <2> QED
    BY <2>3, <2>4, <2>5
<1>11. ~Crash
  BY <1>1 DEF Crash
<1> QED
  BY <1>5, <1>6, <1>7, <1>8, <1>9, <1>10, <1>11 DEF Next, Worker, Humans

\* THEOREM.  In a process that never dies no automatic advance passes a stage that a human
\* has sent back (Engine._auto_guards_ok, which reads the last decision of the stage).
THEOREM RedoneStagesPark ==
    Spec /\ [](used["crash"] = 0) => RedoneStageParks
<1>1. Init => LoggedInv
  BY DEF Init, LoggedInv, RedoIsLogged, NoRedo
<1>2. TypeOK /\ RunOwnsRow /\ LoggedInv /\ [Next]_vars => LoggedInv'
  BY LoggedStep
<1>3. TypeOK /\ RunOwnsRow /\ LoggedInv /\ used["crash"] = 0 /\ [Next]_vars
         => [pc = "decide" /\ stage' = stage + 1 => redo.stage # stage]_vars
  <2> SUFFICES ASSUME TypeOK, RunOwnsRow, LoggedInv, used["crash"] = 0, Next, pc = "decide", stage' = stage + 1,
                      redo.stage = stage
               PROVE  FALSE
    OBVIOUS
  <2>1. /\ stage \in Stages /\ run.stage = stage /\ status = "running" /\ unlogged \in Unlogged
    BY DEF TypeOK, LoopOK, RowOK, RunOwnsRow, Busy, PCs
  <2>2. stage' # stage /\ stage # NoStage
    BY <2>1 DEF Stages, NoStage
  <2>3. AutoAdvance /\ unlogged = NothingUnlogged
    BY <2>1, <2>2 DEF Next, Worker, Humans, DropWakeup, BudgetBlock, StartRun, RunRaises,
       PrepareBranch, PrepareFromBase, PullNothing, PullEdit, SkipGroup, Launch, SessionLost, AgentReturns,
       AgentInterrupted, SteerResumes, SteerFallsBack, RetryTransient, RunFails, Publish,
       PublishFails, ParkFields, ParkGate, Checkpoint, Requeue, Proceed, ProceedLast, Approvable, Redoable, Failed,
       AnswerAsk, Skip, Reintake, Steer, AnswerRedo, LogDecision, EnqueueAnswer, ThirdPartyPush, Crash, row
  <2>4. decision[stage] # "redo"
    BY <2>1, <2>3 DEF AutoAdvance, GuardsOk
  <2> QED
    BY <2>2, <2>3, <2>4 DEF LoggedInv, RedoIsLogged, NothingUnlogged
<1> QED
  BY <1>1, <1>2, <1>3, Invariant, PTL DEF Spec, RedoneStageParks
=============================================================================
