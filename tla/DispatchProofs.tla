--------------------------- MODULE DispatchProofs ---------------------------
(***************************************************************************)
(* Proofs about Dispatch, for any workers, jobs, projects and timeouts.     *)
(* The order of the locks' queues plays no part in them: whoever is granted  *)
(* a lock, it is free when it is granted.                                    *)
(***************************************************************************)
EXTENDS Dispatch, TLAPS

\* The part of TypeOK that the proofs need.
RowTypes ==
    /\ status \in [Jobs -> Statuses]
    /\ claimed_by \in [Jobs -> Workers \cup {NoOne}]
WorkerTypes ==
    /\ pc \in [Workers -> PCs]
    /\ job \in [Workers -> Jobs \cup {NoJob}]
LockTypes == lock \in [Repos -> Workers \cup {NoOne}]
Busy == PCs \ {"down", "dead", "idle"}
HasJob == \A w \in Workers : pc[w] \in Busy => job[w] \in Jobs

LoopInv == RowTypes /\ WorkerTypes /\ LockTypes /\ HasJob
-----------------------------------------------------------------------------
(* The loop *)

\* A loop that is past its claim has a job, and the columns keep their types.
LEMMA LoopInvInit == Init => LoopInv
  BY DispatchAssumption
  DEF DispatchAssumption, Init, LoopInv, RowTypes, WorkerTypes, LockTypes,
      HasJob, Busy, PCs, Statuses

\* The lock table stays one when w lets go of its locks.
LEMMA LetGoTypes ==
    ASSUME NEW w \in Workers, LockTypes, LetGo(w)
    PROVE  LockTypes'
  BY DEF LetGo, LockTypes

\* A lock that is granted goes to the worker that asked for it.
LEMMA GrantTypes ==
    ASSUME NEW w \in Workers, NEW r \in Repos, LockTypes, Grant(w, r)
    PROVE  LockTypes'
  BY DEF Grant, LockTypes

\* A worker's own step keeps the loop's invariant.
LEMMA LoopInvWorker ==
    ASSUME LoopInv, NEW w \in Workers,
           \/ Step(w) \/ Requeue(w) \/ Raise(w) \/ HandlerFails(w)
           \/ FetchFails(w) \/ Crash(w) \/ Boot(w)
    PROVE  LoopInv'
<1> USE DispatchAssumption DEF DispatchAssumption, At, Goto, rows, workers, locks, LoopInv
<1>1. ASSUME NEW j \in Jobs, Claim(w, j) PROVE LoopInv'
  BY <1>1 DEF Claim, Ask, RowTypes, WorkerTypes, LockTypes, HasJob, Busy, PCs, Statuses
<1>2. CASE AcquireRepo(w)
  <2>1. Repo(job[w]) \in Repos
    BY <1>2 DEF AcquireRepo, HasJob, Busy, PCs, Repo
  <2>2. LockTypes'
    BY <1>2, <2>1, GrantTypes DEF AcquireRepo
  <2> QED BY <1>2, <2>2 DEF AcquireRepo, RowTypes, WorkerTypes, HasJob, Busy, PCs
<1>3. CASE StartRun(w)
  BY <1>3 DEF StartRun, RowTypes, WorkerTypes, LockTypes, HasJob, Busy, PCs, Statuses
<1>4. CASE WantCanonical(w)
  BY <1>4 DEF WantCanonical, RowTypes, WorkerTypes, LockTypes, HasJob, Busy, PCs
<1>5. CASE AcquireCanonical(w)
  <2>1. Canon(job[w]) \in Repos
    BY <1>5 DEF AcquireCanonical, HasJob, Busy, PCs, Canon
  <2>2. LockTypes'
    BY <1>5, <2>1, GrantTypes DEF AcquireCanonical
  <2> QED BY <1>5, <2>2 DEF AcquireCanonical, RowTypes, WorkerTypes, HasJob, Busy, PCs
<1>6. CASE StartCli(w)
  BY <1>6 DEF StartCli, RowTypes, WorkerTypes, LockTypes, HasJob, Busy, PCs
<1>7. CASE CliReturns(w)
  BY <1>7 DEF CliReturns, RowTypes, WorkerTypes, LockTypes, HasJob, Busy, PCs
<1>8. ASSUME NEW st \in Statuses, Write(w, st), pc[w] \in Busy PROVE LoopInv'
  BY <1>8 DEF Write, RowTypes, WorkerTypes, LockTypes, HasJob, Busy, PCs
<1>9. CASE Settle(w)
  BY <1>8, <1>9 DEF Settle, Settled, Statuses, Busy, PCs
<1>10. CASE Refuse(w)
  BY <1>8, <1>10 DEF Refuse, Statuses, Busy, PCs
<1>11. CASE Requeue(w)
  BY <1>8, <1>11 DEF Requeue, Statuses, Busy, PCs
<1>12. CASE LeaveRepo(w)
  <2>1. LockTypes'
    BY <1>12, LetGoTypes DEF LeaveRepo
  <2> QED BY <1>12, <2>1 DEF LeaveRepo, RowTypes, WorkerTypes, HasJob, Busy, PCs
<1>13. CASE Raise(w)
  <2>1. LockTypes'
    BY <1>13, LetGoTypes DEF Raise
  <2> QED BY <1>13, <2>1 DEF Raise, Owning, RowTypes, WorkerTypes, HasJob, Busy, PCs
<1>14. CASE HandleError(w)
  BY <1>14 DEF HandleError, RowTypes, WorkerTypes, LockTypes, HasJob, Busy, PCs, Statuses
<1>15. Released(w) \in [Jobs -> Workers \cup {NoOne}]
  BY DEF Released, RowTypes
<1>16. CASE HandlerFails(w)
  BY <1>15, <1>16 DEF HandlerFails, RowTypes, WorkerTypes, LockTypes, HasJob, Busy, PCs
<1>17. CASE ReleaseClaim(w)
  BY <1>15, <1>17 DEF ReleaseClaim, RowTypes, WorkerTypes, LockTypes, HasJob, Busy, PCs
<1>18. CASE FetchFails(w)
  BY <1>18 DEF FetchFails, AfterFetchError, RowTypes, WorkerTypes, LockTypes, HasJob, Busy, PCs
<1>19. CASE Crash(w)
  <2>1. LockTypes'
    BY <1>19, LetGoTypes DEF Crash
  <2> QED BY <1>19, <2>1 DEF Crash, RowTypes, WorkerTypes, HasJob, Busy, PCs
<1>20. CASE Boot(w)
  BY <1>20 DEF Boot, RowTypes, WorkerTypes, LockTypes, HasJob, Busy, PCs, Statuses
<1> QED
  BY <1>1, <1>2, <1>3, <1>4, <1>5, <1>6, <1>7, <1>9, <1>10, <1>11, <1>12,
     <1>13, <1>14, <1>16, <1>17, <1>18, <1>19, <1>20 DEF Step

\* So do the humans, the reaper and the clock, which touch no worker's step.
LEMMA LoopInvOthers ==
    ASSUME LoopInv,
           \/ \E j \in Jobs : Proceed(j) \/ Redo(j)
           \/ Reap \/ Tick \/ UNCHANGED vars
    PROVE  LoopInv'
<1> USE DispatchAssumption DEF DispatchAssumption, rows, workers, locks, LoopInv,
        RowTypes, WorkerTypes, LockTypes, HasJob
<1>1. ASSUME NEW j \in Jobs, Proceed(j) PROVE LoopInv'
  BY <1>1 DEF Proceed, Statuses
<1>2. ASSUME NEW j \in Jobs, Redo(j) PROVE LoopInv'
  BY <1>2 DEF Redo, Statuses
<1>3. CASE Reap
  BY <1>3 DEF Reap, ReapFirst, ReapNext, Reaped, Statuses
<1>4. CASE Tick
  BY <1>4 DEF Tick
<1>5. CASE UNCHANGED vars
  BY <1>5 DEF vars
<1> QED BY <1>1, <1>2, <1>3, <1>4, <1>5

\* Every step keeps the loop's invariant.
LEMMA LoopInvNext == LoopInv /\ [Next]_vars => LoopInv'
  BY LoopInvWorker, LoopInvOthers DEF Next
-----------------------------------------------------------------------------
(* Types *)

UsedTypes == used \in [Events -> Nat]
CountTypes ==
    /\ age \in [Jobs -> 0..MaxAge]
    /\ left \in [Workers -> 0..2 * Timeout]
    /\ reaping \subseteq Jobs
    /\ UsedTypes
QueueTypes == queue \in [Repos -> Seq(Workers)]

\* Whoever leaves a queue, it stays a queue of workers.
LEMMA WithoutTypes ==
    ASSUME NEW q \in Seq(Workers), NEW w
    PROVE  Without(q, w) \in Seq(Workers)
<1>1. ASSUME NEW i \in 1..Len(q) PROVE SubSeq(q, 1, i - 1) \o SubSeq(q, i + 1, Len(q)) \in Seq(Workers)
  OBVIOUS
<1> QED
  BY <1>1 DEF Without

\* Spending an event keeps the counters' types.
LEMMA SpendTypes ==
    ASSUME UsedTypes, NEW e \in Events, Spend(e)
    PROVE  UsedTypes'
  BY DEF Spend, UsedTypes

\* The ages, the CLI's time and the counters stay within their ranges.
LEMMA CountTypesNext ==
    ASSUME LoopInv, CountTypes, [Next]_vars
    PROVE  CountTypes'
<1> USE DispatchAssumption DEF DispatchAssumption, CountTypes, UsedTypes, rows, workers, locks
<1>0. /\ \A w \in Workers : pc[w] \in Busy => job[w] \in Jobs
      /\ 0 \in 0..MaxAge /\ 0 \in 0..2 * Timeout
      /\ \A j \in Jobs : CliTime(j) \in 0..2 * Timeout
      /\ {"fetch", "requeue", "raise", "store", "crash", "answer"} \subseteq Events
  BY DEF LoopInv, HasJob, MaxAge, CliTime, Events
<1>1. CASE UNCHANGED <<age, left, reaping>> /\ (used' = used \/ \E e \in Events : Spend(e))
  BY <1>1, SpendTypes
<1>2. ASSUME NEW w \in Workers, Step(w) \/ Requeue(w) \/ Raise(w) \/ HandlerFails(w) \/ FetchFails(w) \/ Crash(w) \/ Boot(w)
      PROVE  CountTypes'
  <2>1. ASSUME NEW j \in Jobs, Claim(w, j) PROVE CountTypes'
    BY <1>0, <2>1 DEF Claim
  <2>2. CASE StartRun(w)
    BY <1>0, <2>2 DEF StartRun
  <2>3. CASE StartCli(w)
    <3>1. CliTime(job[w]) \in 0..2 * Timeout
      BY <1>0, <2>3 DEF StartCli, At, Busy, PCs
    <3> QED
      BY <2>3, <3>1 DEF StartCli
  <2>4. CASE CliReturns(w)
    BY <1>0, <2>4 DEF CliReturns
  <2>5. CASE Raise(w) \/ Crash(w)
    <3>1. used' \in [Events -> Nat]
      BY <1>0, <2>5, SpendTypes DEF Raise, Crash
    <3> QED
      BY <1>0, <2>5, <3>1 DEF Raise, Crash
  <2>6. CASE AcquireRepo(w) \/ WantCanonical(w) \/ AcquireCanonical(w) \/ Settle(w) \/ Refuse(w)
             \/ LeaveRepo(w) \/ HandleError(w) \/ ReleaseClaim(w) \/ Boot(w)
    BY <1>1, <2>6 DEF AcquireRepo, WantCanonical, AcquireCanonical, Settle, Refuse, LeaveRepo, HandleError,
       ReleaseClaim, Boot, Write
  <2>7. CASE Requeue(w) \/ HandlerFails(w) \/ FetchFails(w)
    BY <1>0, <1>1, <2>7 DEF Requeue, HandlerFails, FetchFails, Write
  <2> QED
    BY <1>2, <2>1, <2>2, <2>3, <2>4, <2>5, <2>6, <2>7 DEF Step
<1>3. ASSUME NEW j \in Jobs, Proceed(j) \/ Redo(j) PROVE CountTypes'
  BY <1>0, <1>1, <1>3 DEF Proceed, Redo
<1>4. CASE Reap
  BY <1>4 DEF Reap, ReapFirst, ReapNext, Stale
<1>5. CASE Tick
  <2>1. \A j \in Jobs : age'[j] \in 0..MaxAge
    BY <1>5 DEF Tick, MaxAge
  <2>2. \A w \in Workers : left'[w] \in 0..2 * Timeout
    BY <1>5 DEF Tick, Waiting, Blocked, At
  <2> QED
    BY <1>5, <2>1, <2>2 DEF Tick
<1>6. CASE UNCHANGED vars
  BY <1>6 DEF vars
<1> QED
  BY <1>2, <1>3, <1>4, <1>5, <1>6 DEF Next

\* The queues stay queues of workers.
LEMMA QueueTypesNext ==
    ASSUME LoopInv, QueueTypes, [Next]_vars
    PROVE  QueueTypes'
<1> USE DEF QueueTypes, rows, workers, locks
<1>1. ASSUME NEW w \in Workers, LetGo(w) PROVE QueueTypes'
  BY <1>1, WithoutTypes DEF LetGo
<1>2. ASSUME NEW w \in Workers, NEW r \in Repos, Ask(w, r) PROVE QueueTypes'
  <2>1. Append(queue[r], w) \in Seq(Workers)
    OBVIOUS
  <2> QED
    BY <1>2, <2>1 DEF Ask
<1>3. ASSUME NEW w \in Workers, NEW r \in Repos, Grant(w, r) PROVE QueueTypes'
  <2>1. Tail(queue[r]) \in Seq(Workers)
    BY <1>3 DEF Grant, Free
  <2> QED
    BY <1>3, <2>1 DEF Grant
<1>4. CASE UNCHANGED queue
  BY <1>4
<1>5. ASSUME NEW w \in Workers, Step(w) \/ Requeue(w) \/ Raise(w) \/ HandlerFails(w) \/ FetchFails(w) \/ Crash(w) \/ Boot(w)
      PROVE  QueueTypes'
  <2>1. /\ \A j \in Jobs : Repo(j) \in Repos /\ Canon(j) \in Repos
        /\ pc[w] \in Busy => job[w] \in Jobs
    BY DispatchAssumption DEF DispatchAssumption, Repo, Canon, LoopInv, HasJob
  <2>2. AcquireRepo(w) => QueueTypes'
    BY <1>3, <2>1 DEF AcquireRepo, At, Busy, PCs
  <2>3. WantCanonical(w) => QueueTypes'
    BY <1>2, <2>1 DEF WantCanonical, At, Busy, PCs
  <2>4. AcquireCanonical(w) => QueueTypes'
    BY <1>3, <2>1 DEF AcquireCanonical, At, Busy, PCs
  <2>5. ASSUME NEW j \in Jobs, Claim(w, j) PROVE QueueTypes'
    BY <1>2, <2>1, <2>5 DEF Claim
  <2>6. StartCli(w) => UNCHANGED queue
    BY DEF StartCli
  <2> QED
   BY <1>1, <1>4, <1>5, <2>2, <2>3, <2>4, <2>5, <2>6 DEF Step, StartRun, CliReturns, Settle, Refuse, Write, LeaveRepo, HandleError, ReleaseClaim, Requeue, Raise, HandlerFails, FetchFails,
     Crash, Boot
<1>6. CASE \/ \E j \in Jobs : Proceed(j) \/ Redo(j)
           \/ Reap \/ Tick \/ UNCHANGED vars
  BY <1>4, <1>6 DEF Proceed, Redo, Reap, ReapFirst, ReapNext, Tick, vars
<1> QED
  BY <1>5, <1>6 DEF Next

\* THEOREM.  Rows, workers, locks and counters stay within their types, and ages and
\* the CLI's remaining time within their bounds, for any workers, jobs and timeouts.
THEOREM DispatchTypesHold == Spec => []TypeOK
<1> DEFINE TypeInv == LoopInv /\ CountTypes /\ QueueTypes
<1>1. Init => TypeInv
  BY LoopInvInit, DispatchAssumption DEF DispatchAssumption, Init, CountTypes, UsedTypes, QueueTypes, MaxAge
<1>2. TypeInv /\ [Next]_vars => TypeInv'
  BY LoopInvNext, CountTypesNext, QueueTypesNext
<1>3. TypeInv => TypeOK
  BY DEF LoopInv, RowTypes, WorkerTypes, LockTypes, CountTypes, UsedTypes, QueueTypes, TypeOK
<1> QED
  BY <1>1, <1>2, <1>3, PTL DEF Spec
-----------------------------------------------------------------------------
(* The reaper's horizon *)

\* What the horizon was sized for: from its start to the return of its CLI a run that
\* reads its own clone only is not stale, bootstraps with two CLI runs included.
StartedRunsAreFresh ==
    \A w \in Workers : pc[w] \in {"prepare", "cli", "after"} /\ ~ReadsCanonical(job[w])
        => job[w] \notin Stale

\* The row is as old as its run, which its CLI's timeout bounds.
FreshRun(w) ==
    /\ pc[w] \in {"canonical", "reading"} => ReadsCanonical(job[w])
    /\ ~ReadsCanonical(job[w]) =>
        /\ pc[w] = "prepare" => age[job[w]] = 0
        /\ pc[w] = "cli" => age[job[w]] + left[w] <= CliTime(job[w])
        /\ pc[w] = "after" => age[job[w]] <= CliTime(job[w])
FreshInv == \A w \in Workers : FreshRun(w)

\* Between two ticks a row's age is only reset.
LEMMA FreshStep ==
    ASSUME LoopInv, CountTypes, FreshInv, [Next]_vars
    PROVE  FreshInv'
<1> SUFFICES ASSUME NEW v \in Workers PROVE FreshRun(v)'
  BY DEF FreshInv
<1> USE DispatchAssumption DEF DispatchAssumption, rows, workers, locks, At, Goto
<1>0. /\ FreshRun(v) /\ pc \in [Workers -> PCs] /\ age \in [Jobs -> 0..MaxAge] /\ left \in [Workers -> 0..2 * Timeout]
      /\ MaxAge \in Nat /\ (pc[v] \in Busy => job[v] \in Jobs)
      /\ (job[v] \in Jobs => CliTime(job[v]) \in Nat /\ age[job[v]] \in Nat)
      /\ left[v] \in Nat /\ job \in [Workers -> Jobs \cup {NoJob}]
  BY DEF FreshInv, LoopInv, WorkerTypes, CountTypes, HasJob, MaxAge, CliTime
<1>1. ReadsCanonical(job[v])' = ReadsCanonical(job'[v]) /\ CliTime(job[v])' = CliTime(job'[v])
  BY DEF ReadsCanonical, CliTime
\* the run goes on at its step, in a row that is no older
<1>2. ASSUME pc'[v] = pc[v], job'[v] = job[v], left'[v] = left[v],
             age' = age \/ \E j \in Jobs : age' = [age EXCEPT ![j] = 0]
      PROVE  FreshRun(v)'
  <2>1. job[v] \in Jobs => age'[job[v]] \in Nat /\ age'[job[v]] <= age[job[v]]
    BY <1>0, <1>2
  <2> QED
    BY <1>0, <1>1, <1>2, <2>1 DEF FreshRun, Busy, PCs
\* or is at none of the three steps
<1>3. pc'[v] \notin {"prepare", "canonical", "reading", "cli", "after"} => FreshRun(v)'
  BY DEF FreshRun
<1>4. ASSUME NEW w \in Workers, Step(w) \/ Requeue(w) \/ Raise(w) \/ HandlerFails(w) \/ FetchFails(w) \/ Crash(w) \/ Boot(w)
      PROVE  FreshRun(v)'
  <2>1. CASE v # w
    <3>1. pc'[v] = pc[v] /\ job'[v] = job[v] /\ left'[v] = left[v]
      BY <1>0, <1>4, <2>1 DEF Step, Claim, AcquireRepo, StartRun, WantCanonical, AcquireCanonical, StartCli,
         CliReturns, Settle, Refuse, Write, LeaveRepo, HandleError, ReleaseClaim, Requeue, Raise, HandlerFails,
         FetchFails, Crash, Boot
    <3>2. age' = age \/ \E j \in Jobs : age' = [age EXCEPT ![j] = 0]
      <4>1. StartRun(w) => job[w] \in Jobs
        BY DEF StartRun, LoopInv, HasJob, Busy, PCs
      <4> QED
        BY <1>4, <4>1 DEF Step, Claim, AcquireRepo, StartRun, WantCanonical, AcquireCanonical, StartCli,
           CliReturns, Settle, Refuse, Write, LeaveRepo, HandleError, ReleaseClaim, Requeue, Raise, HandlerFails,
           FetchFails, Crash, Boot
    <3> QED
      BY <1>2, <3>1, <3>2
  <2>2. CASE v = w
    <3>1. CASE StartRun(w)
      <4>1. pc'[v] = "prepare" /\ job'[v] = job[v] /\ age'[job[v]] = 0
        BY <1>0, <2>2, <3>1 DEF StartRun, Busy, PCs
      <4> QED
        BY <1>1, <4>1 DEF FreshRun
    <3>2. CASE StartCli(w)
      <4>1. /\ pc'[v] = "cli" /\ job'[v] = job[v] /\ age' = age /\ left'[v] = CliTime(job[v])
            /\ job[v] \in Jobs /\ (pc[v] = "prepare" \/ pc[v] = "reading")
        BY <1>0, <2>2, <3>2 DEF StartCli, Busy, PCs
      <4> QED
        BY <1>0, <1>1, <4>1 DEF FreshRun
    <3>3. CASE CliReturns(w)
      <4>1. pc'[v] = "after" /\ job'[v] = job[v] /\ age' = age /\ pc[v] = "cli" /\ job[v] \in Jobs
        BY <1>0, <2>2, <3>3 DEF CliReturns, Busy, PCs
      <4> QED
        BY <1>0, <1>1, <4>1 DEF FreshRun
    <3>4. CASE WantCanonical(w) \/ AcquireCanonical(w)
      <4>1. /\ pc'[v] \in {"canonical", "reading"} /\ job'[v] = job[v]
            /\ pc[v] = "canonical" \/ ReadsCanonical(job[v])
        BY <1>0, <2>2, <3>4 DEF WantCanonical, AcquireCanonical
      <4>2. ReadsCanonical(job[v])
        BY <1>0, <4>1 DEF FreshRun
      <4> QED
        BY <1>1, <4>1, <4>2 DEF FreshRun
    <3>5. CASE /\ ~StartRun(w) /\ ~StartCli(w) /\ ~CliReturns(w)
               /\ ~WantCanonical(w) /\ ~AcquireCanonical(w)
      <4>1. pc'[v] \notin {"prepare", "canonical", "reading", "cli", "after"}
        BY <1>0, <1>4, <2>2, <3>5 DEF Step, Claim, AcquireRepo,
           Settle, Refuse, Write, LeaveRepo, HandleError, ReleaseClaim, Requeue, Raise, HandlerFails, FetchFails,
           AfterFetchError, Crash, Boot
      <4> QED
        BY <1>3, <4>1
    <3> QED
      BY <3>1, <3>2, <3>3, <3>4, <3>5
  <2> QED
    BY <2>1, <2>2
<1>5. CASE \/ \E j \in Jobs : Proceed(j) \/ Redo(j)
           \/ Reap \/ UNCHANGED vars
  BY <1>2, <1>5 DEF Proceed, Redo, Reap, ReapFirst, ReapNext, vars
<1>6. CASE Tick
  <2>1. /\ pc' = pc /\ job' = job /\ Waiting(v)
        /\ left'[v] = IF pc[v] = "cli" THEN left[v] - 1 ELSE left[v]
    BY <1>6 DEF Tick
  <2>2. pc[v] # "prepare" /\ pc[v] # "after"
    BY <2>1 DEF Waiting, Blocked
  <2>3. job[v] \in Jobs => age'[job[v]] \in Nat /\ age'[job[v]] <= age[job[v]] + 1
    BY <1>0, <1>6 DEF Tick
  <2> QED
    BY <1>0, <1>1, <2>1, <2>2, <2>3 DEF FreshRun, Busy, PCs
<1> QED
  BY <1>4, <1>5, <1>6 DEF Next

\* THEOREM.  A run that has its repository, and reads its own clone only, is in no
\* list of stale runs that the reaper reads, whatever its CLI takes, with any number
\* of workers (Worker.reap_horizon, routines._handle_reaper): the reaper is early
\* only for a run that waits for a lock, or by a list that was read before.
THEOREM StartedRunsOutliveTheHorizon == Spec => []StartedRunsAreFresh
<1> DEFINE Inv == LoopInv /\ CountTypes /\ FreshInv
<1>1. Init => Inv
  BY LoopInvInit, DispatchAssumption DEF DispatchAssumption, Init, CountTypes, UsedTypes, FreshInv, FreshRun, MaxAge
<1>2. Inv /\ [Next]_vars => Inv'
  BY LoopInvNext, CountTypesNext, FreshStep
<1>3. Inv => StartedRunsAreFresh
  <2> SUFFICES ASSUME Inv, NEW w \in Workers, pc[w] \in {"prepare", "cli", "after"}, ~ReadsCanonical(job[w])
               PROVE  job[w] \notin Stale
    BY DEF StartedRunsAreFresh
  <2>1. job[w] \in Jobs /\ age[job[w]] \in Nat /\ left[w] \in Nat
    BY DispatchAssumption DEF DispatchAssumption, LoopInv, HasJob, Busy, PCs, CountTypes
  <2>2. age[job[w]] <= CliTime(job[w])
    BY <2>1, DispatchAssumption DEF DispatchAssumption, FreshInv, FreshRun, CliTime
  <2>3. CliTime(job[w]) <= ReapHorizon /\ ReapHorizon \in Nat /\ CliTime(job[w]) \in Nat
    BY DispatchAssumption DEF DispatchAssumption, CliTime, ReapHorizon
  <2> QED
    BY <2>1, <2>2, <2>3 DEF Stale
<1> QED
  BY <1>1, <1>2, <1>3, PTL DEF Spec
-----------------------------------------------------------------------------
(* Locks *)

\* While it holds the lock of its job's repository.
Inside == {"start", "prepare", "canonical", "reading", "cli", "after", "posting"}

\* What w holds is its job's repository and, while it reads the product scope,
\* the canonical one; only a job of another project reads that.
HoldsOwn(w) ==
    \A r \in Repos : lock[r] = w =>
        \/ pc[w] \in Inside /\ r = Repo(job[w])
        \/ pc[w] = "reading" /\ r = Canon(job[w])
ReadsOther(w) == pc[w] \in {"canonical", "reading"} => ReadsCanonical(job[w])

\* A step of w gives no lock and no other job to anybody else.
OthersKept(w) ==
    \A v \in Workers \ {w} :
        /\ pc'[v] = pc[v] /\ job'[v] = job[v]
        /\ \A r \in Repos : lock'[r] = v => lock[r] = v

LockInv == LoopInv /\ \A w \in Workers : HoldsOwn(w) /\ ReadsOther(w)

\* No two projects share a repository.
OwnRepositories ==
    \A p, q \in Projects : RepoOf[p] = RepoOf[q] => p = q

\* Holding depends on a worker's own step and job, and on the locks it gains.
LEMMA HoldsOwnKept ==
    ASSUME NEW w \in Workers, HoldsOwn(w), ReadsOther(w),
           pc'[w] = pc[w], job'[w] = job[w],
           \A r \in Repos : lock'[r] = w => lock[r] = w
    PROVE  HoldsOwn(w)' /\ ReadsOther(w)'
  BY DEF HoldsOwn, ReadsOther, Repo, Canon, ReadsCanonical

\* The initial locks are free.
LEMMA LockInvInit == Init => LockInv
  BY LoopInvInit, DispatchAssumption
  DEF DispatchAssumption, Init, LockInv, HoldsOwn, ReadsOther

\* A worker's own step takes and releases locks as its position says, and gives
\* no lock to anybody else.
LEMMA LockInvWorker ==
    ASSUME LockInv, OwnRepositories, NEW w \in Workers,
           \/ Step(w) \/ Requeue(w) \/ Raise(w) \/ HandlerFails(w)
           \/ FetchFails(w) \/ Crash(w) \/ Boot(w)
    PROVE  HoldsOwn(w)' /\ ReadsOther(w)' /\ OthersKept(w)
<1> DEFINE Goal == HoldsOwn(w)' /\ ReadsOther(w)' /\ OthersKept(w)
<1> USE DEF LockInv, LoopInv, WorkerTypes, LockTypes, At, Goto, rows, workers, locks
<1>0. NoOne \notin Workers
  BY DispatchAssumption DEF DispatchAssumption
<1>1. ASSUME NEW j \in Jobs, Claim(w, j) PROVE Goal
  BY <1>0, <1>1 DEF Claim, Ask, OthersKept, HoldsOwn, ReadsOther, Inside
<1>2. CASE AcquireRepo(w)
  BY <1>0, <1>2 DEF AcquireRepo, Grant, OthersKept, HoldsOwn, ReadsOther, Inside, Repo
<1>3. CASE StartRun(w)
  BY <1>0, <1>3 DEF StartRun, OthersKept, HoldsOwn, ReadsOther, Inside, Repo
<1>4. CASE WantCanonical(w)
  BY <1>0, <1>4 DEF WantCanonical, Ask, OthersKept, HoldsOwn, ReadsOther, Inside, Repo, ReadsCanonical
<1>5. CASE AcquireCanonical(w)
  BY <1>0, <1>5 DEF AcquireCanonical, Grant, OthersKept, HoldsOwn, ReadsOther, Inside, Repo,
                    Canon, ReadsCanonical
<1>6. CASE StartCli(w)
  BY <1>0, <1>6 DEF StartCli, OthersKept, HoldsOwn, ReadsOther, Inside, Repo, Canon
<1>7. CASE CliReturns(w)
  BY <1>0, <1>7 DEF CliReturns, OthersKept, HoldsOwn, ReadsOther, Inside, Repo
<1>8. ASSUME NEW st, Write(w, st), pc[w] \in {"start", "prepare", "after"}
      PROVE  Goal
  BY <1>0, <1>8 DEF Write, OthersKept, HoldsOwn, ReadsOther, Inside, Repo
<1>9. CASE Settle(w)
  BY <1>8, <1>9 DEF Settle
<1>10. CASE Refuse(w)
  BY <1>8, <1>10 DEF Refuse
<1>11. CASE Requeue(w)
  BY <1>8, <1>11 DEF Requeue
<1>12. CASE LeaveRepo(w)
  BY <1>0, <1>12 DEF LeaveRepo, LetGo, OthersKept, HoldsOwn, ReadsOther
<1>13. CASE Raise(w)
  BY <1>0, <1>13 DEF Raise, LetGo, OthersKept, HoldsOwn, ReadsOther
<1>14. CASE HandleError(w)
  BY <1>0, <1>14 DEF HandleError, OthersKept, HoldsOwn, ReadsOther, Inside
<1>16. CASE HandlerFails(w)
  BY <1>0, <1>16 DEF HandlerFails, OthersKept, HoldsOwn, ReadsOther, Inside
<1>17. CASE ReleaseClaim(w)
  BY <1>0, <1>17 DEF ReleaseClaim, OthersKept, HoldsOwn, ReadsOther, Inside
<1>18. CASE FetchFails(w)
  BY <1>0, <1>18 DEF FetchFails, AfterFetchError, OthersKept, HoldsOwn, ReadsOther, Inside
<1>19. CASE Crash(w)
  BY <1>0, <1>19 DEF Crash, LetGo, OthersKept, HoldsOwn, ReadsOther
<1>20. CASE Boot(w)
  BY <1>0, <1>20 DEF Boot, OthersKept, HoldsOwn, ReadsOther, Inside
<1> QED
  BY <1>1, <1>2, <1>3, <1>4, <1>5, <1>6, <1>7, <1>9, <1>10, <1>11, <1>12,
     <1>13, <1>14, <1>16, <1>17, <1>18, <1>19, <1>20 DEF Step

\* The humans, the reaper and the clock touch no lock and no worker's position.
LEMMA OthersLeaveWorkers ==
    ASSUME \/ \E j \in Jobs : Proceed(j) \/ Redo(j)
           \/ Reap \/ Tick \/ UNCHANGED vars
    PROVE  pc' = pc /\ job' = job /\ lock' = lock
  BY DEF Proceed, Redo, Reap, ReapFirst, ReapNext, Tick, vars, workers, locks

\* What is held is what the positions say, after every step.
LEMMA LockInvNext ==
    ASSUME LockInv, OwnRepositories, [Next]_vars
    PROVE  LockInv'
<1>1. LoopInv'
  BY LoopInvNext DEF LockInv
<1>2. ASSUME NEW v \in Workers, NEW w \in Workers,
             \/ Step(w) \/ Requeue(w) \/ Raise(w) \/ HandlerFails(w)
             \/ FetchFails(w) \/ Crash(w) \/ Boot(w)
      PROVE  HoldsOwn(v)' /\ ReadsOther(v)'
  <2>1. CASE v = w
    BY <1>2, <2>1, LockInvWorker
  <2>2. CASE v # w
    <3>1. /\ pc'[v] = pc[v] /\ job'[v] = job[v]
          /\ \A r \in Repos : lock'[r] = v => lock[r] = v
      BY <1>2, <2>2, LockInvWorker DEF OthersKept
    <3> QED BY <3>1, HoldsOwnKept DEF LockInv
  <2> QED BY <2>1, <2>2
<1>3. ASSUME NEW v \in Workers, pc' = pc /\ job' = job /\ lock' = lock
      PROVE  HoldsOwn(v)' /\ ReadsOther(v)'
  BY <1>3, HoldsOwnKept DEF LockInv
<1> QED BY <1>1, <1>2, <1>3, OthersLeaveWorkers DEF Next, LockInv

\* A worker that waits in a cycle holds a lock in it, so it has its repository
\* and waits for the canonical one; whoever holds that one as its own is of a
\* canonical project and waits for nothing.
LEMMA NoCycle ==
    ASSUME LockInv, OwnRepositories, CanonicalIsFixed
    PROVE  NoLockCycle
<1> SUFFICES ASSUME NEW S \in SUBSET Workers, S # {},
                    \A w \in S : \E r \in Wants(w) : lock[r] \in S
             PROVE  FALSE
  BY DEF NoLockCycle
<1> USE DispatchAssumption DEF DispatchAssumption, LockInv, LoopInv, HasJob, Busy, PCs,
        WorkerTypes
<1>1. ASSUME NEW w \in S
      PROVE  \E v \in S : /\ pc[v] = "canonical"
                          /\ \E r \in Wants(w) : lock[r] = v /\ r = Repo(job[v])
  <2>1. PICK r \in Wants(w) : lock[r] \in S
    OBVIOUS
  <2>2. r \in Repos
    BY <2>1 DEF Wants, At, Repo, Canon
  <2>3. Wants(lock[r]) # {}
    BY <2>1
  <2>4. pc[lock[r]] \in {"claimed", "canonical"}
    BY <2>3 DEF Wants, At
  <2> QED BY <2>1, <2>2, <2>4 DEF HoldsOwn, Inside
<1>2. PICK w \in S : pc[w] = "canonical"
  BY <1>1
<1>3. PICK v \in S : /\ pc[v] = "canonical"
                     /\ Canon(job[w]) = Repo(job[v])
  BY <1>1, <1>2 DEF Wants, At
<1>4. CanonicalOf[ProjectOf[job[w]]] = ProjectOf[job[v]]
  BY <1>2, <1>3 DEF OwnRepositories, Canon, Repo
<1>5. CanonicalOf[ProjectOf[job[v]]] = ProjectOf[job[v]]
  BY <1>2, <1>4 DEF CanonicalIsFixed
<1> QED BY <1>3, <1>5 DEF ReadsOther, ReadsCanonical

\* THEOREM.  Where every project has a repository of its own, and a canonical
\* project is its own canonical project, no set of runs ever waits for each
\* other's locks, however many workers, jobs and projects there are: the second
\* lock that product_scope takes is always that of a run that takes no second.
THEOREM NoDeadlock ==
    ASSUME OwnRepositories, CanonicalIsFixed
    PROVE  Spec => []NoLockCycle
<1>1. Init => LockInv
  BY LockInvInit
<1>2. LockInv /\ [Next]_vars => LockInv'
  BY LockInvNext
<1>3. LockInv => NoLockCycle
  BY NoCycle
<1> QED BY <1>1, <1>2, <1>3, PTL DEF Spec
-----------------------------------------------------------------------------
(* Claims *)

\* The reaper takes no row that a live worker runs: ReapsOnlyTheDead as an
\* action.
ReapsDead ==
    Reap => \A j \in Jobs : status[j] = "running" /\ status'[j] = "error" =>
        ~\E w \in Workers : pc[w] \in Owning /\ job[w] = j

OwnsRow(w) == pc[w] \in Owning => status[job[w]] = "running" /\ claimed_by[job[w]] = w
ClaimInv == LoopInv /\ \A w \in Workers : OwnsRow(w)

\* No job is owned before the first claim.
LEMMA ClaimInvInit == Init => ClaimInv
  BY LoopInvInit DEF Init, ClaimInv, OwnsRow, Owning

\* A row that another worker owns is neither queued nor carries this one's
\* name, so no step of this worker writes it.
LEMMA ClaimInvWorker ==
    ASSUME ClaimInv, NEW w \in Workers,
           \/ Step(w) \/ Requeue(w) \/ Raise(w) \/ HandlerFails(w)
           \/ FetchFails(w) \/ Crash(w) \/ Boot(w),
           NEW v \in Workers
    PROVE  OwnsRow(v)'
<1> USE DEF ClaimInv, LoopInv, RowTypes, WorkerTypes, HasJob, Busy, PCs, OwnsRow, Owning,
            At, Goto, rows, workers, locks
<1>0. NoOne \notin Workers
  BY DispatchAssumption DEF DispatchAssumption
<1>1. ASSUME NEW j \in Jobs, Claim(w, j) PROVE OwnsRow(v)'
  <2>1. CASE v = w
    BY <1>1, <2>1 DEF Claim
  <2>2. CASE v # w
    <3>1. pc[v] \in Owning => job[v] # j
      BY <1>1 DEF Claim, Claimable
    <3> QED BY <1>1, <2>2, <3>1 DEF Claim
  <2> QED BY <2>1, <2>2
<1>2. CASE AcquireRepo(w)
  BY <1>2 DEF AcquireRepo
<1>3. CASE StartRun(w)
  BY <1>3 DEF StartRun
<1>4. CASE WantCanonical(w) \/ AcquireCanonical(w) \/ StartCli(w) \/ CliReturns(w)
  BY <1>4 DEF WantCanonical, AcquireCanonical, StartCli, CliReturns
<1>5. ASSUME NEW st, Write(w, st), pc[w] \in Owning PROVE OwnsRow(v)'
  <2>1. CASE v = w
    BY <1>5, <2>1 DEF Write
  <2>2. CASE v # w
    <3>1. pc[v] \in Owning => job[v] # job[w]
      BY <1>5, <2>2
    <3> QED BY <1>5, <2>2, <3>1 DEF Write
  <2> QED BY <2>1, <2>2
<1>6. CASE Settle(w) \/ Refuse(w) \/ Requeue(w)
  BY <1>5, <1>6 DEF Settle, Refuse, Requeue
<1>7. CASE LeaveRepo(w) \/ Raise(w) \/ FetchFails(w) \/ Crash(w)
  BY <1>7 DEF LeaveRepo, Raise, FetchFails, AfterFetchError, Crash
<1>8. CASE HandleError(w)
  <2>1. v # w /\ pc[v] \in Owning => job[v] # job[w]
    BY <1>8 DEF HandleError
  <2> QED BY <1>8, <2>1 DEF HandleError
<1>9. ASSUME pc[v] \in Owning, v # w PROVE Released(w)[job[v]] = v
  BY <1>9 DEF Released
<1>10. CASE HandlerFails(w)
  BY <1>9, <1>10 DEF HandlerFails
<1>11. CASE ReleaseClaim(w)
  BY <1>9, <1>11 DEF ReleaseClaim
<1>12. CASE Boot(w)
  <2>1. pc[v] \in Owning => job[v] \in Jobs /\ job[v] \notin Corpses(w)
    BY <1>12 DEF Boot, Corpses
  <2> QED BY <1>12, <2>1 DEF Boot
<1> QED
  BY <1>1, <1>2, <1>3, <1>4, <1>6, <1>7, <1>8, <1>10, <1>11, <1>12 DEF Step

\* Humans answer rows that nobody owns, and the reaper is assumed to reap such.
LEMMA ClaimInvOthers ==
    ASSUME ClaimInv,
           \/ \E j \in Jobs : Proceed(j) \/ Redo(j)
           \/ Reap /\ ReapsDead
           \/ Tick \/ UNCHANGED vars,
           NEW v \in Workers
    PROVE  OwnsRow(v)'
<1> USE DEF ClaimInv, LoopInv, RowTypes, WorkerTypes, HasJob, Busy, PCs, OwnsRow, Owning,
            rows, workers, locks
<1>1. ASSUME NEW j \in Jobs, Proceed(j) \/ Redo(j) PROVE OwnsRow(v)'
  <2>1. pc[v] \in Owning => job[v] # j
    BY <1>1 DEF Proceed, Redo
  <2> QED BY <1>1, <2>1 DEF Proceed, Redo
<1>2. CASE Reap /\ ReapsDead
  <2>1. PICK j \in Jobs : Reaped(j) /\ UNCHANGED <<pc, job>>
    BY <1>2 DEF Reap, ReapFirst, ReapNext
  <2>2. pc[v] \in Owning => job[v] # j
    BY <1>2, <2>1 DEF ReapsDead, Reaped
  <2> QED BY <2>1, <2>2 DEF Reaped
<1>3. CASE Tick
  BY <1>3 DEF Tick
<1>4. CASE UNCHANGED vars
  BY <1>4 DEF vars
<1> QED BY <1>1, <1>2, <1>3, <1>4

\* Every step keeps the claims of the live runs.
LEMMA ClaimInvNext ==
    ASSUME ClaimInv, [Next]_vars, [ReapsDead]_vars
    PROVE  ClaimInv'
<1>1. LoopInv'
  BY LoopInvNext DEF ClaimInv
<1>2. ReapsDead \/ UNCHANGED vars
  OBVIOUS
<1>3. ASSUME NEW v \in Workers PROVE OwnsRow(v)'
  <2>1. ASSUME NEW w \in Workers,
               \/ Step(w) \/ Requeue(w) \/ Raise(w) \/ HandlerFails(w)
               \/ FetchFails(w) \/ Crash(w) \/ Boot(w)
        PROVE  OwnsRow(v)'
    BY <2>1, ClaimInvWorker
  <2>2. CASE UNCHANGED vars
    BY <2>2, ClaimInvOthers
  <2>3. CASE ReapsDead /\ Reap
    BY <2>3, ClaimInvOthers
  <2>4. CASE Tick \/ \E j \in Jobs : Proceed(j) \/ Redo(j)
    BY <2>4, ClaimInvOthers
  <2> QED BY <1>2, <2>1, <2>2, <2>3, <2>4 DEF Next
<1> QED BY <1>1, <1>3 DEF ClaimInv

\* THEOREM.  Unless the reaper takes a row under a live run, every live run
\* keeps its row running and in its own name, through every claim, late
\* release, answer, crash and recovery of the others: the reaper is the only
\* part of the service that can make a job run twice at once.
THEOREM LiveRunOwnsClaim ==
    Spec /\ ReapsOnlyTheDead => []RunOwnsClaim
<1>1. Init => ClaimInv
  BY ClaimInvInit
<1>2. ClaimInv /\ [Next]_vars /\ [ReapsDead]_vars => ClaimInv'
  BY ClaimInvNext
<1>3. ClaimInv => RunOwnsClaim
  BY DEF ClaimInv, OwnsRow, RunOwnsClaim
<1>4. ReapsOnlyTheDead => [][ReapsDead]_vars
  BY PTL DEF ReapsOnlyTheDead, ReapsDead
<1> QED BY <1>1, <1>2, <1>3, <1>4, PTL DEF Spec
-----------------------------------------------------------------------------
(* Corpses *)

\* The database has not failed under the error handler: a loop that ends there
\* leaves a running row that no boot finds.
HandlersSucceed == used["store"] = 0

Alive(w, j) == pc[w] \in Owning /\ job[w] = j
Named(j) == HandlersSucceed /\ status[j] = "running" =>
    \E w \in Workers : claimed_by[j] = w /\ (pc[w] = "down" \/ Alive(w, j))
CorpseInv == ClaimInv /\ UsedTypes /\ \A j \in Jobs : Named(j)

\* Nothing is running at first.
LEMMA CorpseInvInit == Init => CorpseInv
  BY ClaimInvInit DEF Init, CorpseInv, UsedTypes, Named

\* The counters keep their types.
LEMMA UsedTypesNext == UsedTypes /\ [Next]_vars => UsedTypes'
<1> SUFFICES ASSUME UsedTypes, [Next]_vars PROVE UsedTypes'
  OBVIOUS
<1>1. used' = used \/ \E e \in Events : Spend(e)
  BY DEF Next, vars, Step, Claim, AcquireRepo, StartRun, WantCanonical,
         AcquireCanonical, StartCli, CliReturns, Settle, Refuse, Requeue,
         LeaveRepo, Raise, HandleError, HandlerFails, ReleaseClaim, FetchFails,
         Crash, Boot, Reap, ReapFirst, ReapNext, Proceed, Redo, Tick, Events
<1> QED BY <1>1, SpendTypes DEF UsedTypes

\* What has failed once has failed.
LEMMA FailureStays ==
    ASSUME UsedTypes, [Next]_vars, HandlersSucceed'
    PROVE  HandlersSucceed
<1>1. used' = used \/ \E e \in Events : Spend(e)
  BY DEF Next, vars, Step, Claim, AcquireRepo, StartRun, WantCanonical,
         AcquireCanonical, StartCli, CliReturns, Settle, Refuse, Requeue,
         LeaveRepo, Raise, HandleError, HandlerFails, ReleaseClaim, FetchFails,
         Crash, Boot, Reap, ReapFirst, ReapNext, Proceed, Redo, Tick, Events
<1>2. ASSUME NEW e \in Events, Spend(e) PROVE used["store"] <= used'["store"]
  BY <1>2 DEF Spend, UsedTypes, Events
<1>3. used["store"] \in Nat
  BY DEF UsedTypes, Events
<1> QED BY <1>1, <1>2, <1>3 DEF HandlersSucceed, UsedTypes, Events

\* A worker's step leaves a running row named: what it releases was not
\* running, what it recovers is not running any more, and what it dies with
\* carries its name.
LEMMA CorpseInvWorker ==
    ASSUME CorpseInv, HandlersSucceed, HandlersSucceed', NEW w \in Workers,
           \/ Step(w) \/ Requeue(w) \/ Raise(w) \/ HandlerFails(w)
           \/ FetchFails(w) \/ Crash(w) \/ Boot(w),
           NEW i \in Jobs
    PROVE  Named(i)'
<1> USE DEF CorpseInv, ClaimInv, LoopInv, RowTypes, WorkerTypes, HasJob, Busy, PCs,
            OwnsRow, Owning, Named, Alive, At, Goto, rows, workers, locks
<1>1. ASSUME NEW j \in Jobs, Claim(w, j) PROVE Named(i)'
  BY <1>1 DEF Claim
<1>2. CASE AcquireRepo(w)
  BY <1>2 DEF AcquireRepo
<1>3. CASE StartRun(w)
  <2>1. status' = [status EXCEPT ![job[w]] = "running"]
    BY <1>3 DEF StartRun
  <2>2. claimed_by' = claimed_by /\ job' = job /\ pc' = [pc EXCEPT ![w] = "prepare"]
    BY <1>3 DEF StartRun
  <2>3. status[job[w]] = "running" /\ job[w] \in Jobs /\ pc[w] = "start"
    BY <1>3 DEF StartRun
  <2>4. status' = status
    BY <2>1, <2>3
  <2> QED BY <2>2, <2>3, <2>4
<1>4. CASE WantCanonical(w) \/ AcquireCanonical(w) \/ StartCli(w) \/ CliReturns(w)
  BY <1>4 DEF WantCanonical, AcquireCanonical, StartCli, CliReturns
<1>5. ASSUME NEW st, Write(w, st), st # "running", pc[w] \in Owning PROVE Named(i)'
  BY <1>5 DEF Write
<1>6. CASE Settle(w) \/ Refuse(w) \/ Requeue(w)
  BY <1>5, <1>6 DEF Settle, Settled, Refuse, Requeue
<1>7. CASE LeaveRepo(w) \/ Raise(w) \/ FetchFails(w) \/ Crash(w)
  BY <1>7 DEF LeaveRepo, Raise, FetchFails, AfterFetchError, Crash
<1>8. CASE HandleError(w)
  BY <1>8 DEF HandleError
<1>9. ~HandlerFails(w)
  BY DEF HandlerFails, Spend, HandlersSucceed, UsedTypes, Events
<1>10. CASE ReleaseClaim(w)
  <2>1. status[i] = "running" => claimed_by[i] # w
    BY <1>10 DEF ReleaseClaim
  <2>2. status' = status /\ claimed_by' = Released(w)
    BY <1>10 DEF ReleaseClaim
  <2>3. claimed_by[i] # w => claimed_by'[i] = claimed_by[i]
    BY <2>2 DEF Released
  <2> QED BY <1>10, <2>1, <2>2, <2>3 DEF ReleaseClaim
<1>11. CASE Boot(w)
  BY <1>11 DEF Boot, Corpses
<1> QED
  BY <1>1, <1>2, <1>3, <1>4, <1>6, <1>7, <1>8, <1>9, <1>10, <1>11 DEF Step

\* Nor do the others take a name off a running row.
LEMMA CorpseInvOthers ==
    ASSUME CorpseInv, HandlersSucceed,
           \/ \E j \in Jobs : Proceed(j) \/ Redo(j)
           \/ Reap \/ Tick \/ UNCHANGED vars,
           NEW i \in Jobs
    PROVE  Named(i)'
<1> USE DEF CorpseInv, ClaimInv, LoopInv, RowTypes, Named, Alive, rows, workers, locks
<1>1. ASSUME NEW j \in Jobs, Proceed(j) \/ Redo(j) PROVE Named(i)'
  BY <1>1 DEF Proceed, Redo
<1>2. CASE Reap
  BY <1>2 DEF Reap, ReapFirst, ReapNext, Reaped
<1>3. CASE Tick
  BY <1>3 DEF Tick
<1>4. CASE UNCHANGED vars
  BY <1>4 DEF vars
<1> QED BY <1>1, <1>2, <1>3, <1>4

\* THEOREM.  Under the same hypothesis about the reaper, and as long as the
\* database holds under the error handler, a running row always names a worker
\* that runs it or that will find it at its boot.
THEOREM CorpsesAreFound == Spec /\ ReapsOnlyTheDead => []CorpseIsNamed
<1>1. Init => CorpseInv
  BY CorpseInvInit
<1>2. ASSUME CorpseInv, [Next]_vars, [ReapsDead]_vars PROVE CorpseInv'
  <2>1. ASSUME NEW i \in Jobs PROVE Named(i)'
    <3>1. CASE ~HandlersSucceed'
      BY <3>1 DEF Named
    <3>2. CASE HandlersSucceed'
      <4>1. HandlersSucceed
        BY <1>2, <3>2, FailureStays DEF CorpseInv
      <4> QED BY <1>2, <3>2, <4>1, CorpseInvWorker, CorpseInvOthers DEF Next
    <3> QED BY <3>1, <3>2
  <2> QED BY <1>2, <2>1, ClaimInvNext, UsedTypesNext DEF CorpseInv
<1>3. CorpseInv => CorpseIsNamed
  BY DEF CorpseInv, Named, Alive, HandlersSucceed, CorpseIsNamed
<1>4. ReapsOnlyTheDead => [][ReapsDead]_vars
  BY PTL DEF ReapsOnlyTheDead, ReapsDead
<1> QED BY <1>1, <1>2, <1>3, <1>4, PTL DEF Spec
-----------------------------------------------------------------------------
(* The loop *)

\* Types come with the claims; the counters are counters.
LoopAliveInv == LoopInv /\ UsedTypes /\ LoopAlive

\* THEOREM.  Whatever raises, fails or crashes, in whatever worker: as long as
\* the database holds under the error handler, no process lives on with its
\* loop ended (worker.run_forever).
THEOREM LoopsLiveOn == Spec => []LoopAlive
<1>1. Init => LoopAliveInv
  BY LoopInvInit DEF Init, LoopAliveInv, UsedTypes, LoopAlive
<1>2. LoopAliveInv /\ [Next]_vars => LoopAliveInv'
  <2> SUFFICES ASSUME LoopAliveInv, [Next]_vars, HandlersSucceed' PROVE LoopAlive'
    BY LoopInvNext, UsedTypesNext DEF LoopAliveInv, LoopAlive, HandlersSucceed
  <2>1. HandlersSucceed
    BY FailureStays DEF LoopAliveInv
  <2>2. /\ pc \in [Workers -> PCs]
        /\ \A w \in Workers : pc[w] # "dead"
    BY <2>1 DEF LoopAliveInv, LoopInv, WorkerTypes, LoopAlive, HandlersSucceed
  <2>3. \A w \in Workers : ~HandlerFails(w)
    BY DEF HandlerFails, Spend, HandlersSucceed, LoopAliveInv, UsedTypes, Events
  <2>4. pc' = pc \/ \E w \in Workers, p \in PCs \ {"dead"} : pc' = [pc EXCEPT ![w] = p]
    BY <2>3 DEF Next, vars, workers, Step, Claim, AcquireRepo, StartRun, WantCanonical,
         AcquireCanonical, StartCli, CliReturns, Settle, Refuse, Requeue, Write,
         LeaveRepo, Raise, HandleError, ReleaseClaim, FetchFails, AfterFetchError,
         Crash, Boot, Reap, ReapFirst, ReapNext, Proceed, Redo, Tick, Goto, PCs
  <2> QED
    BY <2>2, <2>4 DEF LoopAlive
<1>3. LoopAliveInv => LoopAlive
  BY DEF LoopAliveInv
<1> QED BY <1>1, <1>2, <1>3, PTL DEF Spec
=============================================================================
