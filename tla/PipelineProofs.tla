--------------------------- MODULE PipelineProofs ---------------------------
(***************************************************************************)
(* What holds of Pipeline for every number of stages, every gate policy and *)
(* every bound on the outside events: types, the run's hold on its row, and *)
(* that no job is ever stranded.                                            *)
(***************************************************************************)
EXTENDS Pipeline, TLAPS

\* Heads are sets of commits, and stay so under what the steps do to them.
LEMMA HeadsClosed ==
    /\ {} \in Heads
    /\ \A h, g \in Heads : h \cup g \in Heads /\ h \ g \in Heads
    /\ \A h \in Heads : AgentWork(h) \in Heads
  BY DEF Heads, AgentWork

\* What the columns and the run are reset to.
LEMMA DefaultsTyped ==
    /\ NoResume \in Resume
    /\ NoRun \in Run
    /\ NothingUnlogged \in Unlogged
    /\ NoRedo \in Redos
  BY PipelineAssumption, HeadsClosed
  DEF PipelineAssumption, NoResume, Resume, NoRun, Run, NothingUnlogged,
      Unlogged, NoRedo, Redos, Stages, NoStage, NoText, Results

\* Outside events are counted.
LEMMA UsedTyped ==
    ASSUME LoopOK
    PROVE  /\ \A e \in Events : used[e] + 1 \in Nat
           /\ \A e \in Events : Spend(e) => used' \in [Events -> Nat]
  BY DEF LoopOK, Spend

\* The commits of the agent, of the humans and of strangers.
LEMMA CommitsTyped ==
    ASSUME LoopOK
    PROVE  /\ {AgentCommit} \in Heads
           /\ {EditCommit} \in Heads
           /\ {[by |-> "push", id |-> used["push"] + 1]} \in Heads
<1>1. run.id \in Nat
  BY DEF LoopOK, Run
<1>2. used["edit"] + 1 \in Nat /\ used["push"] + 1 \in Nat
  BY UsedTyped DEF Events
<1> QED
  BY <1>1, <1>2 DEF Heads, Commit, AgentCommit, EditCommit

\* What is known of the run, and how it may change.
LEMMA RunTyped ==
    ASSUME LoopOK
    PROVE  /\ run.stage \in Stages
           /\ run.answer \in Nat
           /\ \A r \in BOOLEAN : [run EXCEPT !.resuming = r] \in Run
           /\ \A r \in Results : [run EXCEPT !.result = r] \in Run
           /\ [run EXCEPT !.requeue = TRUE] \in Run
           /\ [run EXCEPT !.conflicted = TRUE] \in Run
  BY DEF LoopOK, Run

\* Every step leaves a well-formed row.
LEMMA RowKeepsType ==
    ASSUME TypeOK, RunOwnsRow, Next
    PROVE  RowOK'
<1> USE PipelineAssumption DEF PipelineAssumption, TypeOK, RowOK, Stages, Statuses
<1>1. CASE DropWakeup \/ PullNothing \/ PullEdit \/ SessionLost \/ Publish
  BY <1>1 DEF DropWakeup, PullNothing, PullEdit, SessionLost, Publish, row
<1>2. CASE Checkpoint \/ Requeue \/ LogDecision \/ EnqueueAnswer \/ ThirdPartyPush
  BY <1>2 DEF Checkpoint, Requeue, LogDecision, EnqueueAnswer, ThirdPartyPush, row
<1>3. CASE BudgetBlock \/ StartRun \/ RunRaises \/ RetryTransient \/ RunFails \/ PublishFails
  BY <1>3 DEF BudgetBlock, StartRun, RunRaises, RetryTransient, RunFails,
     PublishFails, FailClosed
<1>4. CASE PrepareBranch \/ PrepareFromBase
  BY <1>4 DEF PrepareBranch, PrepareFromBase, Checkout, NoStage
<1>5. CASE SkipGroup
  BY <1>5 DEF SkipGroup, EnterNext, RunOwnsRow, Busy, PCs
<1>6. CASE Launch
  BY <1>6, DefaultsTyped DEF Launch
<1>7. CASE AgentReturns \/ AgentInterrupted
  BY <1>7 DEF AgentReturns, AgentInterrupted, Worked
<1>8. CASE SteerResumes \/ SteerFallsBack
  BY <1>8, RunTyped DEF SteerResumes, SteerFallsBack, Resume, GitOK, NoText
<1>9. CASE AutoAdvance
  BY <1>9 DEF AutoAdvance, EnterNext, RunOwnsRow, Busy, PCs
<1>10. CASE ParkFields \/ ParkGate
  <2>1. [stage |-> run.stage, head |-> workspace, answer |-> NoText] \in Resume
    BY RunTyped DEF Resume, GitOK, NoText
  <2> QED
    BY <1>10, <2>1 DEF ParkFields, ParkGate
<1>11. CASE Proceed
  <2>1. stage + 1 \in 0..LastStage
    BY <1>11 DEF Proceed, HasNext
  <2> QED
    BY <1>11, <2>1 DEF Proceed, EnterNext
<1>12. CASE ProceedLast \/ Skip
  BY <1>12 DEF ProceedLast, Skip
<1>13. CASE AnswerAsk
  <2>1. used["text"] + 1 \in Nat
    BY UsedTyped DEF Events
  <2>2. [resume EXCEPT !.answer = used["text"] + 1] \in Resume
    BY <2>1 DEF Resume
  <2> QED
    BY <1>13, <2>2 DEF AnswerAsk
<1>14. ASSUME NEW k \in 0..stage, AnswerRedo(k)
       PROVE  RowOK'
  <2>1. k \in 0..LastStage
    OBVIOUS
  <2>2. /\ status' = "queued" /\ stage' = k /\ pending_redo_stage' = k
        /\ gate_kind' = "none" /\ resume' = NoResume
        /\ ask_count' = 0 /\ auto_retries' = 0
        /\ budget_override' \in BOOLEAN
        /\ steer_note' = steer_note
    BY <1>14 DEF AnswerRedo
  <2> QED
    BY <2>1, <2>2, DefaultsTyped
<1>15. CASE Reintake \/ Crash
  BY <1>15, DefaultsTyped DEF Reintake, Crash, NoStage
<1>16. CASE Steer
  <2>1. used["text"] + 1 \in Nat
    BY UsedTyped DEF Events
  <2> QED
    BY <1>16, <2>1 DEF Steer
<1> QED
  BY <1>1, <1>2, <1>3, <1>4, <1>5, <1>6, <1>7, <1>8, <1>9, <1>10, <1>11,
     <1>12, <1>13, <1>14, <1>15, <1>16 DEF Next, Worker, Humans

\* ... well-formed tables,
LEMMA TablesKeepType ==
    ASSUME TypeOK, Next
    PROVE  TablesOK'
<1> USE DEF TypeOK, TablesOK
<1>1. CASE Launch
  <2>1. run.stage \in Stages /\ workspace \in Heads
    BY RunTyped DEF GitOK
  <2> QED
    BY <1>1, <2>1 DEF Launch, Baseline
<1>2. CASE AutoAdvance
  BY <1>2, RunTyped DEF AutoAdvance
<1>3. CASE LogDecision
  BY <1>3 DEF LogDecision, LoopOK, Unlogged
<1>4. CASE Reintake
  BY <1>4, HeadsClosed DEF Reintake
<1>5. CASE UNCHANGED tables
  BY <1>5 DEF tables
<1>6. CASE DropWakeup \/ BudgetBlock \/ StartRun \/ RunRaises \/ PrepareBranch
           \/ PrepareFromBase \/ PullNothing \/ PullEdit \/ SkipGroup
           \/ SessionLost \/ AgentReturns \/ AgentInterrupted
  BY <1>5, <1>6 DEF DropWakeup, BudgetBlock, StartRun, RunRaises, PrepareBranch,
     PrepareFromBase, PullNothing, PullEdit, SkipGroup, SessionLost,
     AgentReturns, AgentInterrupted
<1>7. CASE SteerResumes \/ SteerFallsBack \/ RetryTransient \/ RunFails
           \/ Publish \/ PublishFails \/ ParkFields \/ ParkGate \/ Checkpoint
           \/ Requeue
  BY <1>5, <1>7 DEF SteerResumes, SteerFallsBack, RetryTransient, RunFails,
     Publish, PublishFails, ParkFields, ParkGate, Checkpoint, Requeue
<1>8. CASE Proceed \/ ProceedLast \/ AnswerAsk \/ Skip \/ EnqueueAnswer \/ Steer
           \/ ThirdPartyPush \/ Crash \/ \E k \in 0..stage : AnswerRedo(k)
  BY <1>5, <1>8 DEF Proceed, ProceedLast, AnswerAsk, Skip, EnqueueAnswer, Steer,
     ThirdPartyPush, Crash, AnswerRedo
<1> QED
  BY <1>1, <1>2, <1>3, <1>4, <1>6, <1>7, <1>8 DEF Next, Worker, Humans

\* ... well-formed heads,
LEMMA GitKeepsType ==
    ASSUME TypeOK, Next
    PROVE  GitOK'
<1> USE DEF TypeOK, GitOK
<1>1. CASE PrepareBranch \/ PrepareFromBase
  <2>1. ASSUME NEW s \in Stages, NEW h \in Heads
        PROVE  Archived(s, LatestAttempt(s), h)
                 \subseteq [stage : Stages, attempt : Nat, head : Heads]
    BY DEF Archived, LatestAttempt, TablesOK
  <2>2. run.stage \in Stages /\ {} \in Heads
    BY RunTyped, HeadsClosed
  <2>3. Rewinds(run.stage) => base_sha[run.stage] \in Heads
    BY DEF Rewinds, TablesOK
  <2>4. PICK head \in Heads, tree \in {origin, {}} : Checkout(head, tree)
    BY <1>1, <2>2 DEF PrepareBranch, PrepareFromBase
  <2>5. tree \in Heads /\ origin' = origin
    BY <1>1, <2>2 DEF PrepareBranch, PrepareFromBase
  <2>6. /\ tracking' \in Heads
        /\ workspace' \in Heads
        /\ \/ archive' = archive
           \/ archive' = Archived(run.stage, LatestAttempt(run.stage), tree)
    BY <2>3, <2>4, <2>5 DEF Checkout
  <2> QED
    BY <2>1, <2>2, <2>5, <2>6
<1>2. CASE PullEdit \/ Publish
  BY <1>2, HeadsClosed, CommitsTyped DEF PullEdit, Publish
<1>3. CASE AgentReturns \/ AgentInterrupted
  BY <1>3, HeadsClosed, CommitsTyped DEF AgentReturns, AgentInterrupted, Worked
<1>4. CASE SteerResumes \/ SteerFallsBack \/ PublishFails \/ Checkpoint
  BY <1>4 DEF SteerResumes, SteerFallsBack, PublishFails, Checkpoint, PushOk, PushFails
<1>5. CASE ThirdPartyPush
  BY <1>5, HeadsClosed, CommitsTyped DEF ThirdPartyPush
<1>6. CASE UNCHANGED git
  BY <1>6 DEF git
<1>7. CASE DropWakeup \/ BudgetBlock \/ StartRun \/ RunRaises \/ PullNothing
           \/ SkipGroup \/ Launch \/ SessionLost \/ RetryTransient \/ RunFails
           \/ AutoAdvance \/ ParkFields \/ ParkGate \/ Requeue
  BY <1>6, <1>7 DEF DropWakeup, BudgetBlock, StartRun, RunRaises, PullNothing,
     SkipGroup, Launch, SessionLost, RetryTransient, RunFails, AutoAdvance,
     ParkFields, ParkGate, Requeue
<1>8. CASE Proceed \/ ProceedLast \/ AnswerAsk \/ Skip \/ LogDecision
           \/ EnqueueAnswer \/ Reintake \/ Steer \/ Crash
           \/ \E k \in 0..stage : AnswerRedo(k)
  BY <1>6, <1>8 DEF Proceed, ProceedLast, AnswerAsk, Skip, LogDecision,
     EnqueueAnswer, Reintake, Steer, Crash, AnswerRedo
<1> QED
  BY <1>1, <1>2, <1>3, <1>4, <1>5, <1>7, <1>8 DEF Next, Worker, Humans

\* ... a well-formed run and queue,
LEMMA LoopKeepsType ==
    ASSUME TypeOK, Next
    PROVE  LoopOK'
<1> USE DefaultsTyped DEF TypeOK, LoopOK, PCs, human
<1>0. wakeups + 1 \in Nat /\ runs + 1 \in Nat /\ (wakeups > 0 => wakeups - 1 \in Nat)
  OBVIOUS
<1>1. CASE DropWakeup \/ PullNothing \/ SkipGroup \/ Launch \/ ParkFields \/ ParkGate
  BY <1>1 DEF DropWakeup, PullNothing, SkipGroup, Launch, ParkFields, ParkGate
<1>2. CASE BudgetBlock
  BY <1>2, UsedTyped DEF BudgetBlock, Events
<1>3. CASE StartRun
  <2>1. ResumeIntended \in BOOLEAN
    BY DEF ResumeIntended
  <2>2. run' \in Run
    <3>1. /\ stage \in Stages /\ resume.answer \in Nat
          /\ gate_kind \in {"none", "ask", "steer"}
      BY DEF RowOK, Resume
    <3>2. ASSUME NEW s \in Stages, NEW n \in Nat, NEW b \in BOOLEAN,
                 NEW g \in {"none", "ask", "steer"}, NEW a \in Nat
          PROVE  [NoRun EXCEPT !.stage = s, !.id = n, !.resuming = b,
                               !.kind = g, !.answer = a] \in Run
      BY DEF NoRun, Run, Results
    <3> QED
      BY <1>0, <1>3, <2>1, <3>1, <3>2 DEF StartRun
  <2>3. /\ wakeups' \in Nat /\ runs' \in Nat
        /\ pc' = "prepare" /\ steered' = FALSE
        /\ UNCHANGED <<human, used>>
    BY <1>0, <1>3 DEF StartRun
  <2> QED
    BY <2>2, <2>3
<1>4. CASE RunRaises
  BY <1>4, UsedTyped DEF RunRaises, Leave, Events
<1>5. CASE PrepareBranch \/ PrepareFromBase
  <2>1. run' \in Run
    BY <1>5, RunTyped, PipelineAssumption
    DEF PrepareBranch, PrepareFromBase, Checkout, ParkedHead, AskBudgetLeft,
        PipelineAssumption
  <2> QED
    BY <1>5, <2>1, UsedTyped DEF PrepareBranch, PrepareFromBase, Events
<1>6. CASE PullEdit
  BY <1>6, UsedTyped DEF PullEdit, Events
<1>7. CASE SessionLost
  BY <1>7, RunTyped DEF SessionLost
<1>8. CASE AgentReturns
  BY <1>8, RunTyped, UsedTyped DEF AgentReturns, Events, Results
<1>9. CASE AgentInterrupted
  BY <1>9 DEF AgentInterrupted
<1>10. CASE SteerResumes \/ SteerFallsBack
  BY <1>10, UsedTyped DEF SteerResumes, SteerFallsBack, PushOk, PushFails, Events
<1>11. CASE RetryTransient \/ RunFails \/ AutoAdvance
  BY <1>11, RunTyped DEF RetryTransient, RunFails, AutoAdvance
<1>12. CASE Publish
  BY <1>12, RunTyped, UsedTyped DEF Publish, Events
<1>13. CASE PublishFails
  BY <1>13, UsedTyped DEF PublishFails, PushFails, FailClosed, Events
<1>14. CASE Checkpoint
  <2>1. wakeups' \in Nat
    BY <1>0, <1>14 DEF Checkpoint, Requeued
  <2>2. used' \in [Events -> Nat]
    BY <1>14, UsedTyped DEF Checkpoint, PushOk, PushFails, Events
  <2> QED
    BY <1>14, <2>1, <2>2 DEF Checkpoint, Leave
<1>15. CASE Requeue
  <2>1. wakeups' \in Nat
    BY <1>0, <1>15 DEF Requeue
  <2> QED
    BY <1>15, <2>1 DEF Requeue, Leave
<1>16. ASSUME NEW s \in Stages, NEW a \in {"proceed", "answer", "redo", "skip"},
              NEW e \in BOOLEAN
       PROVE  [stage |-> s, action |-> a, enqueue |-> e] \in Unlogged
  BY DEF Unlogged
<1>17. CASE Proceed \/ ProceedLast \/ AnswerAsk \/ Skip
  BY <1>16, <1>17, UsedTyped
  DEF Proceed, ProceedLast, AnswerAsk, Skip, Answered, RowOK, Events, loop
<1>18. ASSUME NEW k \in 0..stage, AnswerRedo(k)
       PROVE  LoopOK'
  <2>1. k \in Stages
    BY PipelineAssumption DEF PipelineAssumption, RowOK, Stages
  <2> QED
    BY <1>16, <1>18, <2>1, UsedTyped DEF AnswerRedo, Answered, Events, loop
<1>19. CASE LogDecision
  BY <1>19 DEF LogDecision, loop
<1>20. CASE EnqueueAnswer
  BY <1>20 DEF EnqueueAnswer
<1>21. CASE Reintake \/ Steer
  <2>1. wakeups' \in Nat
    BY <1>0, <1>21 DEF Reintake, Steer
  <2>2. used' \in [Events -> Nat]
    BY <1>21, UsedTyped DEF Reintake, Steer, Events
  <2> QED
    BY <1>21, <2>1, <2>2 DEF Reintake, Steer
<1>22. CASE ThirdPartyPush
  BY <1>22, UsedTyped DEF ThirdPartyPush, Events, loop, human
<1>23. CASE Crash
  BY <1>23, UsedTyped DEF Crash, Leave, Events
<1> QED
  BY <1>1, <1>2, <1>3, <1>4, <1>5, <1>6, <1>7, <1>8, <1>9, <1>10, <1>11, <1>12,
     <1>13, <1>14, <1>15, <1>17, <1>18, <1>19, <1>20, <1>21, <1>22, <1>23
  DEF Next, Worker, Humans

\* ... and a well-formed history.
LEMMA HistKeepsType ==
    ASSUME TypeOK, Next
    PROVE  HistOK'
<1> USE DEF TypeOK, HistOK
<1>1. CASE UNCHANGED hist
  BY <1>1 DEF hist
<1>2. CASE DropWakeup \/ BudgetBlock \/ StartRun \/ RunRaises \/ PrepareBranch
           \/ PrepareFromBase \/ PullNothing \/ SessionLost \/ RunFails \/ ParkFields
           \/ Requeue
  BY <1>1, <1>2 DEF DropWakeup, BudgetBlock, StartRun, RunRaises, PrepareBranch,
     PrepareFromBase, PullNothing, SessionLost, RunFails, ParkFields, Requeue
<1>3. CASE ProceedLast \/ AnswerAsk \/ LogDecision \/ EnqueueAnswer \/ Crash
  BY <1>1, <1>3 DEF ProceedLast, AnswerAsk, LogDecision, EnqueueAnswer, Crash
<1>4. CASE PullEdit \/ Publish
  <2>1. /\ workspace \in Heads /\ workspace \cup {EditCommit} \in Heads
        /\ published \in Heads
    BY HeadsClosed, CommitsTyped DEF GitOK
  <2>2. /\ \/ published' = published
           \/ published' = published \cup workspace
           \/ published' = published \cup (workspace \cup {EditCommit})
        /\ UNCHANGED <<entry, redo, notes, resumes, retries>>
    BY <1>4 DEF PullEdit, Publish
  <2>3. published' \in Heads
    BY <2>1, <2>2, HeadsClosed
  <2> QED
    BY <2>2, <2>3
<1>5. CASE PublishFails \/ Checkpoint
  BY <1>5, HeadsClosed DEF PublishFails, Checkpoint, PushOk, PushFails, GitOK
<1>6. AgentWork(origin) \in Heads
  BY HeadsClosed DEF GitOK
<1>7. CASE SkipGroup \/ AutoAdvance \/ Proceed
  <2>1. /\ entry' = [entry EXCEPT ![stage + 1] = AgentWork(origin)]
        /\ redo' = NoRedo /\ resumes' = 0
        /\ UNCHANGED <<published, notes, retries>>
    BY <1>7 DEF SkipGroup, AutoAdvance, Proceed, EnterNext
  <2> QED
    BY <1>6, <2>1, DefaultsTyped
<1>8. CASE Launch
  BY <1>8 DEF Launch
<1>9. CASE AgentReturns \/ AgentInterrupted
  BY <1>9 DEF AgentReturns, AgentInterrupted, Worked
<1>10. CASE SteerResumes
  BY <1>10, HeadsClosed DEF SteerResumes, PushOk, GitOK
<1>11. CASE SteerFallsBack
  BY <1>11 DEF SteerFallsBack, PushFails
<1>12. CASE RetryTransient
  BY <1>12 DEF RetryTransient
<1>13. CASE ParkGate
  BY <1>13, DefaultsTyped DEF ParkGate
<1>14. CASE Skip
  BY <1>14 DEF Skip
<1>15. ASSUME NEW k \in 0..stage, AnswerRedo(k)
       PROVE  HistOK'
  <2>1. k \in Stages
    BY PipelineAssumption DEF PipelineAssumption, RowOK, Stages
  <2>2. redo' \in Redos
    <3>1. CASE k \in CodeStages \cap DOMAIN base_sha
      <4>1. entry[k] \in Heads /\ base_sha[k] \in Heads
        BY <2>1, <3>1 DEF TablesOK
      <4> QED
        BY <1>15, <1>6, <2>1, <3>1, <4>1, HeadsClosed DEF AnswerRedo, Redos
    <3>2. CASE k \notin CodeStages \cap DOMAIN base_sha
      BY <1>15, <2>1, <3>2, HeadsClosed DEF AnswerRedo, Redos, NoRedo
    <3> QED
      BY <3>1, <3>2
  <2> QED
    BY <1>15, <2>2 DEF AnswerRedo
<1>16. CASE Reintake
  BY <1>6, <1>16, DefaultsTyped DEF Reintake
<1>17. CASE Steer
  <2>1. used["text"] + 1 \in Nat /\ (pc = "invoke") \in BOOLEAN
    BY UsedTyped DEF Events
  <2>2. [text |-> used["text"] + 1, cli |-> pc = "invoke"]
          \in [text : Nat, cli : BOOLEAN]
    BY <2>1
  <2> QED
    BY <1>17, <2>2 DEF Steer
<1>18. CASE ThirdPartyPush
  BY <1>18, HeadsClosed, CommitsTyped DEF ThirdPartyPush, GitOK
<1> QED
  BY <1>2, <1>3, <1>4, <1>5, <1>7, <1>8, <1>9, <1>10, <1>11, <1>12, <1>13,
     <1>14, <1>15, <1>16, <1>17, <1>18 DEF Next, Worker, Humans

\* No step takes the row away from a run: an answer finds neither an open gate
\* nor a failure there, and the run's own steps keep it or end the run.
LEMMA RowStaysWithRun ==
    ASSUME TypeOK, RunOwnsRow, Next
    PROVE  RunOwnsRow'
<1> USE DEF TypeOK, RunOwnsRow, Busy, PCs
<1>1. CASE DropWakeup \/ BudgetBlock \/ StartRun \/ RunRaises \/ PullNothing
           \/ PullEdit \/ Launch \/ SessionLost
  BY <1>1 DEF DropWakeup, BudgetBlock, StartRun, RunRaises, Leave, NoRun,
     PullNothing, PullEdit, Launch, SessionLost, row, LoopOK, Run
<1>2. CASE PrepareBranch \/ PrepareFromBase
  <2>1. run'.stage = run.stage
    BY <1>2 DEF PrepareBranch, PrepareFromBase, Checkout, LoopOK, Run
  <2> QED
    BY <1>2, <2>1 DEF PrepareBranch, PrepareFromBase, Checkout
<1>3. CASE SkipGroup \/ RetryTransient \/ RunFails \/ PublishFails
           \/ SteerResumes \/ SteerFallsBack \/ AutoAdvance \/ ParkGate
  BY <1>3 DEF SkipGroup, RetryTransient, RunFails, PublishFails, FailClosed,
     SteerResumes, SteerFallsBack, AutoAdvance, ParkGate
<1>4. CASE AgentReturns \/ AgentInterrupted \/ Publish \/ ParkFields
  BY <1>4 DEF AgentReturns, AgentInterrupted, Publish, ParkFields, row, LoopOK, Run
<1>5. CASE Checkpoint \/ Requeue \/ Crash
  BY <1>5 DEF Checkpoint, Requeue, Crash, Leave
<1>6. CASE Proceed \/ ProceedLast \/ AnswerAsk \/ Skip \/ Reintake
           \/ \E k \in 0..stage : AnswerRedo(k)
  <2>1. status # "running" /\ UNCHANGED pc
    BY <1>6 DEF Proceed, ProceedLast, AnswerAsk, Skip, Reintake, AnswerRedo,
       Approvable, Redoable, Failed, loop
  <2> QED
    BY <2>1
<1>7. CASE Steer \/ LogDecision \/ EnqueueAnswer \/ ThirdPartyPush
  BY <1>7 DEF Steer, LogDecision, EnqueueAnswer, ThirdPartyPush, row, loop
<1> QED
  BY <1>1, <1>2, <1>3, <1>4, <1>5, <1>6, <1>7 DEF Next, Worker, Humans

\* Every step that leaves the job waiting leaves somebody who will wake it.
LEMMA NobodyGetsStranded ==
    ASSUME TypeOK, RunOwnsRow, NoStranded, Next
    PROVE  NoStranded'
<1> USE DEF TypeOK, RunOwnsRow, NoStranded, Busy, PCs, Pending
<1>0. wakeups \in Nat /\ tails \in Nat
  BY DEF LoopOK
<1>1. CASE DropWakeup \/ BudgetBlock \/ StartRun \/ RunRaises
  BY <1>0, <1>1 DEF DropWakeup, BudgetBlock, StartRun, RunRaises, Leave, row
<1>2. CASE PrepareBranch \/ PrepareFromBase \/ PullNothing \/ PullEdit
           \/ Launch \/ SessionLost \/ AgentReturns \/ AgentInterrupted
           \/ Publish \/ ParkFields
  BY <1>2 DEF PrepareBranch, PrepareFromBase, Checkout, PullNothing, PullEdit,
     Launch, SessionLost, AgentReturns, AgentInterrupted, Publish, ParkFields, row
<1>3. CASE SkipGroup \/ SteerResumes \/ SteerFallsBack \/ RunFails \/ PublishFails
           \/ ParkGate
  BY <1>3 DEF SkipGroup, SteerResumes, SteerFallsBack, RunFails, PublishFails,
     FailClosed, ParkGate
<1>4. CASE RetryTransient \/ AutoAdvance
  BY <1>4 DEF RetryTransient, AutoAdvance, LoopOK, Run
<1>5. CASE Checkpoint
  <2>1. wakeups' = IF run.requeue THEN wakeups + 1 ELSE wakeups
    BY <1>5 DEF Checkpoint, Requeued
  <2>2. UNCHANGED <<status, tails, unlogged>> /\ pc = "final" /\ pc' = "idle"
    BY <1>5 DEF Checkpoint, Leave, row, human
  <2> QED
    BY <1>0, <2>1, <2>2
<1>6. CASE Requeue
  BY <1>0, <1>6 DEF Requeue, Leave, row
<1>7. CASE (unlogged = NothingUnlogged /\ Proceed) \/ AnswerAsk \/ ProceedLast \/ Skip
  BY <1>7 DEF Proceed, AnswerAsk, ProceedLast, Skip, Answered, Approvable, Redoable
<1>8. CASE \E k \in 0..stage : AnswerRedo(k)
  BY <1>8 DEF AnswerRedo, Answered
<1>9. CASE Reintake
  BY <1>0, <1>9 DEF Reintake
<1>10. CASE LogDecision
  BY <1>0, <1>10 DEF LogDecision, row, loop
<1>11. CASE EnqueueAnswer
  BY <1>0, <1>11 DEF EnqueueAnswer, row
<1>12. CASE Steer \/ ThirdPartyPush
  BY <1>12 DEF Steer, ThirdPartyPush, row, loop, human
<1>13. CASE Crash
  BY <1>13 DEF Crash, Leave, Recovered
<1> QED
  BY <1>1, <1>2, <1>3, <1>4, <1>5, <1>6, <1>7, <1>8, <1>9, <1>10, <1>11, <1>12,
     <1>13 DEF Next, Worker, Humans

\* The first state is well-formed, nobody runs and the job has its wakeup.
LEMMA InitHolds == Init => TypeOK /\ RunOwnsRow /\ NoStranded
<1> SUFFICES ASSUME Init PROVE TypeOK /\ RunOwnsRow /\ NoStranded
  OBVIOUS
<1> USE DefaultsTyped, HeadsClosed DEF Init
<1>1. RowOK
  <2>1. 0 \in Stages
    BY PipelineAssumption DEF PipelineAssumption, Stages
  <2> QED
    BY <2>1 DEF RowOK, Statuses, NoStage
<1>2. TablesOK /\ GitOK
  BY DEF TablesOK, GitOK
<1>3. LoopOK
  BY DEF LoopOK, PCs
<1>4. HistOK
  BY DEF HistOK
<1> QED
  BY <1>1, <1>2, <1>3, <1>4 DEF TypeOK, RunOwnsRow, NoStranded, Busy, Pending

\* A stutter changes nothing.
LEMMA StutterKeeps ==
    ASSUME TypeOK, RunOwnsRow, NoStranded, UNCHANGED vars
    PROVE  TypeOK' /\ RunOwnsRow' /\ NoStranded'
<1>1. UNCHANGED <<status, stage, pending_redo_stage, gate_kind, resume, ask_count,
                  auto_retries, budget_override, steer_note>>
  BY DEF vars, row
<1>2. UNCHANGED <<decision, base_sha, attempts, origin, tracking, workspace, archive>>
  BY DEF vars, tables, git
<1>3. UNCHANGED <<pc, run, runs, steered, wakeups, tails, unlogged, used>>
  BY DEF vars, loop, human
<1>4. UNCHANGED <<entry, redo, published, notes, resumes, retries>>
  BY DEF vars, hist
<1> QED
  BY <1>1, <1>2, <1>3, <1>4
  DEF TypeOK, RowOK, TablesOK, GitOK, LoopOK, HistOK, RunOwnsRow, NoStranded

\* The inductive invariant: none of the three is inductive without the first
\* two, since a step knows the row's stage only through the run that owns it.
LEMMA Invariant == Spec => [](TypeOK /\ RunOwnsRow /\ NoStranded)
<1>1. ASSUME TypeOK, RunOwnsRow, NoStranded, [Next]_vars
      PROVE  TypeOK' /\ RunOwnsRow' /\ NoStranded'
  <2>1. CASE Next
    BY <1>1, <2>1, RowKeepsType, TablesKeepType, GitKeepsType, LoopKeepsType,
       HistKeepsType, RowStaysWithRun, NobodyGetsStranded DEF TypeOK
  <2>2. CASE UNCHANGED vars
    BY <1>1, <2>2, StutterKeeps
  <2> QED
    BY <1>1, <2>1, <2>2
<1> QED
  BY <1>1, InitHolds, PTL DEF Spec

\* Every column, ref and process variable stays within its range, for every
\* number of stages and every bound on the outside events.
THEOREM TypeCorrect == Spec => []TypeOK
  BY Invariant, PTL

\* From dispatch to gate a run has its row for itself (worker.run_forever
\* against worker._answer_feature_inner).
THEOREM RunHoldsItsRow == Spec => []RunOwnsRow
  BY Invariant, PTL

\* No job ever waits without somebody who will wake it, and no row says
\* running with no run behind it (worker._enqueue, _recover_interrupted).
THEOREM NobodyStranded == Spec => []NoStranded
  BY Invariant, PTL

\* What each status says.
LEMMA PhaseMeans ==
    ASSUME NEW st \in Statuses
    PROVE  /\ st \in Pending \cup {"running"} => PhaseOf(st) = "working"
           /\ st = "awaiting_input" => PhaseOf(st) = "gate"
           /\ st \in Failed => PhaseOf(st) = "failed"
           /\ st \in {"skipped", "no_fix"} => PhaseOf(st) = "dropped"
           /\ st = "pr_opened" => PhaseOf(st) = "shipped"
  BY DEF PhaseOf, Statuses, Pending, Failed

\* A step of the service is a step of the protocol or none.
LEMMA StepKeepsPromise ==
    ASSUME TypeOK, RunOwnsRow, Next
    PROVE  [Gate!GateNext]_(Gate!gateVars)
<1>1. status \in Statuses /\ status' \in Statuses /\ stage \in Stages
  BY RowKeepsType DEF TypeOK, RowOK
<1> DEFINE before == PhaseOf(status)
           after  == PhaseOf(status')
<1>2. /\ pc \in Busy => before = "working" /\ run.stage = stage
      /\ status \in Pending \cup {"running"} => before = "working"
      /\ status = "awaiting_input" => before = "gate"
      /\ status \in Failed => before = "failed"
      /\ status \in {"skipped", "no_fix"} => before = "dropped"
  BY <1>1, PhaseMeans DEF RunOwnsRow
<1>3. /\ status' \in Pending \cup {"running"} => after = "working"
      /\ status' = "awaiting_input" => after = "gate"
      /\ status' \in Failed => after = "failed"
      /\ status' \in {"skipped", "no_fix"} => after = "dropped"
      /\ status' = "pr_opened" => after = "shipped"
  BY <1>1, PhaseMeans
<1> HIDE DEF before, after
<1>4. CASE UNCHANGED <<status, stage>>
  BY <1>4 DEF Gate!gateVars, before, after
<1>5. CASE before = "working" /\ after = "working" /\ UNCHANGED stage
  BY <1>5 DEF Gate!gateVars, before, after
<1>6. CASE before = "working" /\ after \in {"gate", "failed"} /\ UNCHANGED stage
  BY <1>6 DEF Gate!GateNext, Gate!Finish, before, after
<1>7. CASE before = "working" /\ after = "working" /\ stage' = stage + 1
           /\ stage \in AutoStages \cup {GroupStage}
  BY <1>7 DEF Gate!GateNext, Gate!Advance, before, after
<1>8. CASE DropWakeup \/ PullNothing \/ PullEdit \/ SessionLost \/ Publish
           \/ Checkpoint \/ Requeue \/ PrepareBranch \/ PrepareFromBase
           \/ Launch \/ AgentReturns \/ AgentInterrupted \/ ParkFields
  BY <1>4, <1>8 DEF DropWakeup, PullNothing, PullEdit, SessionLost, Publish,
     Checkpoint, Requeue, PrepareBranch, PrepareFromBase, Launch, AgentReturns,
     AgentInterrupted, ParkFields, row
<1>9. CASE LogDecision \/ EnqueueAnswer \/ ThirdPartyPush \/ Steer
  BY <1>4, <1>9 DEF LogDecision, EnqueueAnswer, ThirdPartyPush, Steer, row
<1>10. CASE StartRun \/ SteerResumes \/ SteerFallsBack \/ RetryTransient
  BY <1>2, <1>3, <1>5, <1>10 DEF StartRun, SteerResumes, SteerFallsBack,
     RetryTransient, Pending, Busy, PCs
<1>11. CASE BudgetBlock \/ RunRaises \/ RunFails \/ PublishFails \/ ParkGate
  BY <1>2, <1>3, <1>6, <1>11 DEF BudgetBlock, RunRaises, RunFails, PublishFails,
     FailClosed, ParkGate, Failed, Busy, PCs
<1>12. CASE SkipGroup \/ AutoAdvance
  BY <1>2, <1>3, <1>7, <1>12 DEF SkipGroup, AutoAdvance, EnterNext, Pending, Busy, PCs
<1>13. CASE Proceed
  <2>1. before = "gate" /\ after = "working" /\ stage < LastStage /\ stage' = stage + 1
    BY <1>2, <1>3, <1>13 DEF Proceed, Approvable, HasNext, EnterNext, Pending
  <2> QED
    BY <2>1 DEF Gate!GateNext, Gate!Approve, before, after
<1>14. CASE ProceedLast
  <2>1. /\ before = "gate" /\ after \in {"shipped", "dropped"}
        /\ stage = LastStage /\ UNCHANGED stage
    BY <1>2, <1>3, <1>14 DEF ProceedLast, Approvable
  <2> QED
    BY <2>1 DEF Gate!GateNext, Gate!Approve, before, after
<1>15. CASE AnswerAsk
  <2>1. before = "gate" /\ after = "working" /\ UNCHANGED stage
    BY <1>2, <1>3, <1>15 DEF AnswerAsk, Pending
  <2> QED
    BY <2>1 DEF Gate!GateNext, Gate!Answer, before, after
<1>16. CASE \E k \in 0..stage : AnswerRedo(k)
  <2>1. before \in {"gate", "failed"} /\ after = "working" /\ stage' \in 0..stage
    BY <1>2, <1>3, <1>16 DEF AnswerRedo, Redoable, Pending
  <2> QED
    BY <2>1 DEF Gate!GateNext, Gate!Redo, before, after
<1>17. CASE Skip
  <2>1. before \in {"gate", "failed"} /\ after = "dropped" /\ UNCHANGED stage
    BY <1>2, <1>3, <1>17 DEF Skip, Redoable
  <2> QED
    BY <2>1 DEF Gate!GateNext, Gate!Abort, before, after
<1>18. CASE Reintake
  <2>1. before = "dropped" /\ after = "working" /\ stage' = 0
    BY <1>2, <1>3, <1>18 DEF Reintake, Pending
  <2> QED
    BY <2>1 DEF Gate!GateNext, Gate!Reopen, before, after
<1>19. CASE Crash
  <2>1. \/ UNCHANGED <<status, stage>>
        \/ before = "working" /\ after = "working" /\ UNCHANGED stage
    BY <1>2, <1>3, <1>19 DEF Crash, Pending
  <2> QED
    BY <1>4, <1>5, <2>1
<1> QED
  BY <1>8, <1>9, <1>10, <1>11, <1>12, <1>13, <1>14, <1>15, <1>16, <1>17, <1>18,
     <1>19 DEF Next, Worker, Humans

\* The service keeps the protocol's promise: only a decision moves the pipeline
\* off a gate, a failed stage is never approved, and the engine passes by
\* itself only the stages it may.
THEOREM PipelineKeepsPromise == Spec => ImplementsGate
<1>1. Init => Gate!GateInit
  BY PhaseMeans DEF Init, Gate!GateInit, Statuses, Pending
<1>2. TypeOK /\ RunOwnsRow /\ [Next]_vars => [Gate!GateNext]_(Gate!gateVars)
  <2>1. UNCHANGED vars => UNCHANGED Gate!gateVars
    BY DEF vars, row, Gate!gateVars
  <2> QED
    BY <2>1, StepKeepsPromise
<1> QED
  BY <1>1, <1>2, Invariant, PTL DEF Spec, ImplementsGate, Gate!GateSpec
=============================================================================
