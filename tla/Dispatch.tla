------------------------------ MODULE Dispatch ------------------------------
(***************************************************************************)
(* The multi-worker (Postgres) service: worker processes that claim rows of *)
(* the jobs table (JobStore.claim_next_job), run them under the advisory    *)
(* lock of the job's repository and hand them back, crash, and recover; the *)
(* reaper that looks for runs whose worker died; and the humans who answer  *)
(* gates.  What a run does to its branch is Pipeline's business: here it    *)
(* only takes time, may need a second lock, and ends with a status.         *)
(*                                                                          *)
(* Time passes only while every worker is waiting: for a lock that is held, *)
(* or for its CLI.  Everything else a worker awaits is bounded by timeouts  *)
(* of its own that the reaper's grace is meant to cover.                    *)
(*                                                                          *)
(* As in Pipeline, a definition marked "faulty" is a mistake that the       *)
(* properties would notice; no action uses it.                              *)
(***************************************************************************)
EXTENDS Integers, FiniteSets, Sequences

CONSTANTS
    Workers,      \* worker ids
    Jobs,         \* features and memory bootstraps
    Memory,       \* the memory bootstraps: two CLI runs each
    Projects, Repos,
    ProjectOf,    \* [Jobs -> Projects]
    RepoOf,       \* repo_map: [Projects -> Repos]
    CanonicalOf,  \* the project of the workspace that hosts its product scope
    Timeout,      \* claude_timeout_seconds, in ticks
    Grace,        \* reaper_grace_seconds, in ticks
    NoOne,        \* the empty claimed_by, and the holder of a free lock
    NoJob,
    Limit         \* bound on every kind of outside event

Events == {"answer", "requeue", "raise", "crash", "fetch", "store"}

ASSUME DispatchAssumption ==
    /\ Memory \subseteq Jobs
    /\ ProjectOf \in [Jobs -> Projects]
    /\ RepoOf \in [Projects -> Repos]
    /\ CanonicalOf \in [Projects -> Projects]
    /\ Timeout \in Nat \ {0}
    /\ Grace \in Nat
    /\ NoOne \notin Workers
    /\ NoJob \notin Jobs
    /\ Limit \in [Events -> Nat]

\* What sets the workspaces up: the canonical project is one of the workspace's
\* own, so it is its own canonical project.
CanonicalIsFixed == \A p \in Projects : CanonicalOf[CanonicalOf[p]] = CanonicalOf[p]

\* "queued" is received or queued, "error" is error or timeout, "closed" any
\* status that nobody answers.
Statuses == {"queued", "running", "awaiting_input", "error", "closed"}
Settled  == {"awaiting_input", "error", "closed"}

\* A worker is down, its loop has died, or it is at one step of the loop:
\* claimed waits for the repository, canonical for the canonical repository.
PCs    == {"down", "dead", "idle", "claimed", "start", "prepare", "canonical",
           "reading", "cli", "after", "posting", "raised", "ending"}
\* From the claim to the write of its result a job belongs to the worker.
Owning == {"claimed", "start", "prepare", "canonical", "reading", "cli",
           "after", "raised"}

Repo(j)  == RepoOf[ProjectOf[j]]
Canon(j) == RepoOf[CanonicalOf[ProjectOf[j]]]
CliTime(j) == IF j \in Memory THEN 2 * Timeout ELSE Timeout
-----------------------------------------------------------------------------
VARIABLES
    \* the rows of jobs; age is the time since run_started_at
    status, claimed_by, age,
    \* the workers: their step, their job, and the time their CLI has left
    pc, job, left,
    lock,      \* who holds the advisory lock of each repository
    queue,     \* who waits for it, in the order they came
    reaping,   \* the stale rows the reaper has read and not yet reaped
    used       \* outside events so far

rows    == <<status, claimed_by, age>>
workers == <<pc, job, left>>
locks   == <<lock, queue>>
vars    == <<rows, workers, locks, reaping, used>>

OneRunHorizon == Timeout + Grace        \* faulty: forgets memory bootstraps
ReapHorizon == 2 * Timeout + Grace
MaxAge == 2 * Timeout + Grace + 1       \* older is no different

TypeOK ==
    /\ status \in [Jobs -> Statuses]
    /\ claimed_by \in [Jobs -> Workers \cup {NoOne}]
    /\ age \in [Jobs -> 0..MaxAge]
    /\ pc \in [Workers -> PCs]
    /\ job \in [Workers -> Jobs \cup {NoJob}]
    /\ left \in [Workers -> 0..2 * Timeout]
    /\ lock \in [Repos -> Workers \cup {NoOne}]
    /\ queue \in [Repos -> Seq(Workers)]
    /\ reaping \subseteq Jobs
    /\ used \in [Events -> Nat]

Init ==
    /\ status = [j \in Jobs |-> "queued"]
    /\ claimed_by = [j \in Jobs |-> NoOne]
    /\ age = [j \in Jobs |-> 0]
    /\ pc = [w \in Workers |-> "idle"]
    /\ job = [w \in Workers |-> NoJob]
    /\ left = [w \in Workers |-> 0]
    /\ lock = [r \in Repos |-> NoOne]
    /\ queue = [r \in Repos |-> <<>>]
    /\ reaping = {}
    /\ used = [e \in Events |-> 0]

Spend(e) == /\ used[e] < Limit[e]
            /\ used' = [used EXCEPT ![e] = @ + 1]

At(w, step) == pc[w] = step
Goto(w, step) == pc' = [pc EXCEPT ![w] = step]

\* Locks are granted in the order they were asked for.
Ask(w, r) == queue' = [queue EXCEPT ![r] = Append(@, w)]
Free(w, r) == lock[r] = NoOne /\ queue[r] # <<>> /\ Head(queue[r]) = w
Grant(w, r) == /\ Free(w, r)
               /\ lock' = [lock EXCEPT ![r] = w]
               /\ queue' = [queue EXCEPT ![r] = Tail(@)]

\* w, or its connections, let go of everything it holds or waits for; in a queue
\* it stands at most once.
Without(q, w) ==
    IF \E i \in 1..Len(q) : q[i] = w
    THEN LET i == CHOOSE n \in 1..Len(q) : q[n] = w
         IN  SubSeq(q, 1, i - 1) \o SubSeq(q, i + 1, Len(q))
    ELSE q
LetGo(w) ==
    /\ lock' = [r \in Repos |-> IF lock[r] = w THEN NoOne ELSE lock[r]]
    /\ queue' = [r \in Repos |-> Without(queue[r], w)]
-----------------------------------------------------------------------------
(* One turn of the loop *)

\* A received or queued row may be claimed, whoever its last claim names.
ClaimedByNobody(j) == status[j] = "queued" /\ claimed_by[j] = NoOne  \* faulty
Claimable(j) == status[j] = "queued"

\* A row is claimed and running in one statement.  Which one, by priority and
\* age, is left open.
Claim(w, j) ==
    /\ At(w, "idle")
    /\ Claimable(j)
    /\ status' = [status EXCEPT ![j] = "running"]
    /\ claimed_by' = [claimed_by EXCEPT ![j] = w]
    /\ age' = [age EXCEPT ![j] = 0]
    /\ job' = [job EXCEPT ![w] = j]
    /\ Ask(w, Repo(j))
    /\ Goto(w, "claimed")
    /\ UNCHANGED <<left, lock, reaping, used>>

\* A claim that the database refuses is logged and the loop goes on.
LoopEnds == "dead"                      \* faulty: the error ends the loop
AfterFetchError == "idle"
FetchFails(w) ==
    /\ At(w, "idle")
    /\ Spend("fetch")
    /\ Goto(w, AfterFetchError)
    /\ UNCHANGED <<rows, job, left, locks, reaping>>

AcquireRepo(w) ==
    /\ At(w, "claimed")
    /\ Grant(w, Repo(job[w]))
    /\ Goto(w, "start")
    /\ UNCHANGED <<rows, job, left, reaping, used>>

\* The run starts: whatever the row says by now, it is running from now.
StartRun(w) ==
    /\ At(w, "start")
    /\ status' = [status EXCEPT ![job[w]] = "running"]
    /\ age' = [age EXCEPT ![job[w]] = 0]
    /\ Goto(w, "prepare")
    /\ UNCHANGED <<claimed_by, job, left, locks, reaping, used>>

\* Product scope is read from the clone of the canonical project, under the
\* lock of its repository; a job of that project reads its own clone.
EveryoneReads(j) == j \notin Memory     \* faulty: no early return
ReadsCanonical(j) == j \notin Memory /\ CanonicalOf[ProjectOf[j]] # ProjectOf[j]

WantCanonical(w) ==
    /\ At(w, "prepare")
    /\ ReadsCanonical(job[w])
    /\ Ask(w, Canon(job[w]))
    /\ Goto(w, "canonical")
    /\ UNCHANGED <<rows, job, left, lock, reaping, used>>

AcquireCanonical(w) ==
    /\ At(w, "canonical")
    /\ Grant(w, Canon(job[w]))
    /\ Goto(w, "reading")
    /\ UNCHANGED <<rows, job, left, reaping, used>>

\* The CLI starts: after the canonical lock is released, or, for a job that
\* needs no product scope or resumes a session, at once.
StartCli(w) ==
    /\ \/ /\ At(w, "prepare")
          /\ UNCHANGED lock
       \/ /\ At(w, "reading")
          /\ lock' = [lock EXCEPT ![Canon(job[w])] = NoOne]
    /\ left' = [left EXCEPT ![w] = CliTime(job[w])]
    /\ Goto(w, "cli")
    /\ UNCHANGED <<rows, job, queue, reaping, used>>

\* It returns by itself, or is killed at its timeout.
CliReturns(w) ==
    /\ At(w, "cli")
    /\ left' = [left EXCEPT ![w] = 0]
    /\ Goto(w, "after")
    /\ UNCHANGED <<rows, job, locks, reaping, used>>

\* The result is written to the row, by its key alone; comments, the last
\* checkpoint and the telemetry of the run are still to come, under the lock.
Write(w, st) ==
    /\ status' = [status EXCEPT ![job[w]] = st]
    /\ Goto(w, "posting")
    /\ UNCHANGED <<claimed_by, age, job, left, locks, reaping>>

\* The run parks at a gate, which a memory bootstrap has not, fails, or ends
\* the job.
Settle(w) == /\ At(w, "after")
             /\ \E st \in Settled :
                    /\ st = "awaiting_input" => job[w] \notin Memory
                    /\ Write(w, st)
             /\ UNCHANGED used

\* The budget is spent, or the branch cannot be checked out.
Refuse(w) == /\ pc[w] \in {"start", "prepare"}
             /\ Write(w, "error")
             /\ UNCHANGED used

\* An auto-advance, a skipped stage, a retry or a steer queues the row again.
Requeue(w) == /\ At(w, "after")
              /\ job[w] \notin Memory
              /\ Write(w, "queued")
              /\ Spend("requeue")

\* The run is over: its locks are released.
LeaveRepo(w) ==
    /\ At(w, "posting")
    /\ LetGo(w)
    /\ Goto(w, "ending")
    /\ UNCHANGED <<rows, job, left, reaping, used>>

\* The run raises before it wrote its result, and its locks are released.
Raise(w) ==
    /\ pc[w] \in Owning \ {"start", "raised"}
    /\ Spend("raise")
    /\ LetGo(w)
    /\ left' = [left EXCEPT ![w] = 0]
    /\ Goto(w, "raised")
    /\ UNCHANGED <<rows, job, reaping>>

\* Only a claim that is still the worker's own is released.
ReleasedAnyway(w) == [claimed_by EXCEPT ![job[w]] = NoOne]     \* faulty
Released(w) == [claimed_by EXCEPT ![job[w]] = IF @ = w THEN NoOne ELSE @]

HandleError(w) ==
    /\ At(w, "raised")
    /\ status' = [status EXCEPT ![job[w]] = "error"]
    /\ Goto(w, "ending")
    /\ UNCHANGED <<claimed_by, age, job, left, locks, reaping, used>>

\* The handler's own write fails, and nothing catches that: the claim is
\* released if the database is back by then, and the loop ends, in a process
\* that lives on.
HandlerFails(w) ==
    /\ At(w, "raised")
    /\ Spend("store")
    /\ claimed_by' \in {claimed_by, Released(w)}
    /\ job' = [job EXCEPT ![w] = NoJob]
    /\ Goto(w, "dead")
    /\ UNCHANGED <<status, age, left, locks, reaping>>

ReleaseClaim(w) ==
    /\ At(w, "ending")
    /\ claimed_by' = Released(w)
    /\ job' = [job EXCEPT ![w] = NoJob]
    /\ Goto(w, "idle")
    /\ UNCHANGED <<status, age, left, locks, reaping, used>>
-----------------------------------------------------------------------------
(* Crashes, recovery, the reaper and the humans *)

Crash(w) ==
    /\ pc[w] # "down"
    /\ Spend("crash")
    /\ LetGo(w)
    /\ job' = [job EXCEPT ![w] = NoJob]
    /\ left' = [left EXCEPT ![w] = 0]
    /\ Goto(w, "down")
    /\ UNCHANGED <<rows, reaping>>

\* A worker that comes back under its id queues the runs it left behind.  One
\* that comes back under another id, as hostname:pid may, never does.
AllRunning(w) == {j \in Jobs : status[j] = "running"}          \* faulty
Corpses(w) == {j \in Jobs : status[j] = "running" /\ claimed_by[j] = w}

Boot(w) ==
    /\ At(w, "down")
    /\ status' = [j \in Jobs |-> IF j \in Corpses(w) THEN "queued" ELSE status[j]]
    /\ claimed_by' = [j \in Jobs |-> IF j \in Corpses(w) THEN NoOne ELSE claimed_by[j]]
    /\ Goto(w, "idle")
    /\ UNCHANGED <<age, job, left, locks, reaping, used>>

Stale == {j \in Jobs : status[j] = "running" /\ age[j] > ReapHorizon}

Reaped(j) ==
    /\ status' = [status EXCEPT ![j] = "error"]
    /\ claimed_by' = [claimed_by EXCEPT ![j] = NoOne]

\* A firing reads the stale rows and reaps the first; before each further one
\* it awaits a comment on the one before.
ReapFirst(j) ==
    /\ reaping = {}
    /\ j \in Stale
    /\ reaping' = Stale \ {j}
    /\ Reaped(j)
    /\ UNCHANGED <<age, workers, locks, used>>

ReapNext(j) ==
    /\ j \in reaping
    /\ reaping' = reaping \ {j}
    /\ Reaped(j)
    /\ UNCHANGED <<age, workers, locks, used>>

\* A human approves a gate, which leaves an unreleased claim in the row.
Proceed(j) ==
    /\ status[j] = "awaiting_input"
    /\ Spend("answer")
    /\ status' = [status EXCEPT ![j] = "queued"]
    /\ UNCHANGED <<claimed_by, age, workers, locks, reaping>>

\* A human asks for a redo, which clears it.
Redo(j) ==
    /\ status[j] \in {"awaiting_input", "error"}
    /\ j \notin Memory
    /\ Spend("answer")
    /\ status' = [status EXCEPT ![j] = "queued"]
    /\ claimed_by' = [claimed_by EXCEPT ![j] = NoOne]
    /\ UNCHANGED <<age, workers, locks, reaping>>

\* w waits: for work, for a lock that it cannot have, or for its CLI, which is
\* killed at its timeout.
Blocked(w) ==
    \/ pc[w] \in {"down", "dead", "idle"}
    \/ At(w, "claimed") /\ ~Free(w, Repo(job[w]))
    \/ At(w, "canonical") /\ ~Free(w, Canon(job[w]))
NeverKilled(w) == Blocked(w) \/ At(w, "cli")                   \* faulty
Waiting(w) == Blocked(w) \/ (At(w, "cli") /\ left[w] > 0)

\* Time passes.

Tick ==
    /\ \A w \in Workers : Waiting(w)
    /\ left' = [w \in Workers |-> IF At(w, "cli") THEN left[w] - 1 ELSE left[w]]
    /\ age' = [j \in Jobs |-> IF status[j] = "running" /\ age[j] < MaxAge
                                 THEN age[j] + 1 ELSE age[j]]
    /\ UNCHANGED <<status, claimed_by, pc, job, locks, reaping, used>>

\* What a live worker does without being asked.
Step(w) ==
    \/ \E j \in Jobs : Claim(w, j)
    \/ AcquireRepo(w)
    \/ StartRun(w)
    \/ WantCanonical(w)
    \/ AcquireCanonical(w)
    \/ StartCli(w)
    \/ CliReturns(w)
    \/ Settle(w)
    \/ Refuse(w)
    \/ LeaveRepo(w)
    \/ HandleError(w)
    \/ ReleaseClaim(w)

Reap == \E j \in Jobs : ReapFirst(j) \/ ReapNext(j)

Next ==
    \/ \E w \in Workers : \/ Step(w) \/ Requeue(w) \/ Raise(w) \/ HandlerFails(w)
                          \/ FetchFails(w) \/ Crash(w) \/ Boot(w)
    \/ \E j \in Jobs : Proceed(j) \/ Redo(j)
    \/ Reap
    \/ Tick

Spec == Init /\ [][Next]_vars

\* Every await of a worker has a timeout and ends; the reaper is a routine that
\* cannot be disabled, and runs in every live process; time passes.  A worker
\* need not crash, raise, or come back.
FairSpec == /\ Spec
            /\ \A w \in Workers : WF_vars(Step(w))
            /\ WF_vars(Reap)
            /\ WF_vars(Tick)
-----------------------------------------------------------------------------
(* Properties *)

\* From its claim to the write of its result, a worker's job says running and
\* carries that worker's name: nobody answers, reaps, recovers or claims a row
\* under a live run, and so no job is ever run twice at once.
RunOwnsClaim ==
    \A w \in Workers : pc[w] \in Owning =>
        status[job[w]] = "running" /\ claimed_by[job[w]] = w

\* A running row that nobody runs still names the worker that died with it, so
\* that worker's next boot finds it: a release or a reap that comes late never
\* wipes the claim of a sibling.  Only a database that failed under the error
\* handler leaves a running row that no boot finds.
CorpseIsNamed ==
    \A j \in Jobs : used["store"] = 0 /\ status[j] = "running" =>
        \E w \in Workers :
            /\ claimed_by[j] = w
            /\ pc[w] = "down" \/ (pc[w] \in Owning /\ job[w] = j)

\* The reaper only takes rows whose worker died: a run that a live worker is
\* waiting to start, or is in, is never flipped to error.
ReapsOnlyTheDead ==
    [][Reap => \A j \in Jobs : status[j] = "running" /\ status'[j] = "error" =>
           ~\E w \in Workers : pc[w] \in Owning /\ job[w] = j]_vars

\* No set of workers waits for locks that are all held within the set, a worker
\* that waits for a lock it holds itself included.
Wants(w) == IF At(w, "claimed") THEN {Repo(job[w])}
            ELSE IF At(w, "canonical") THEN {Canon(job[w])} ELSE {}
NoLockCycle ==
    ~\E S \in (SUBSET Workers) \ {{}} :
        \A w \in S : \E r \in Wants(w) : lock[r] \in S

\* The loop of a live process outlives every failure of a job or of the
\* database but one: it has no supervisor to start it again.  (When the error
\* handler's own write fails, nothing catches that.)
LoopAlive == used["store"] = 0 => \A w \in Workers : pc[w] # "dead"

\* As long as some worker is there, whatever was queued settles: it is claimed by
\* somebody, and run to a gate, a failure or the end, although other workers
\* die and never come back, loops end, claims are left behind in rows, and runs
\* wait for each other's locks.
SomeoneWorks == \E w \in Workers : pc[w] \notin {"down", "dead"}
JobsSettle ==
    []<>SomeoneWorks => \A j \in Jobs :
        status[j] \in {"queued", "running"} ~> status[j] \in Settled
=============================================================================
