------------------------------ MODULE Requests ------------------------------
(***************************************************************************)
(* The two-phase flow of a request that is not a feature: how it is taken    *)
(* in (webhook, sweep, dashboard, a ticket somebody wrote), run, parked for   *)
(* a human and run again.                                                    *)
(*                                                                         *)
(* One job of the Sentry kind or of the task kind is followed, in one         *)
(* process, where only an await lets another coroutine run.  A row that is    *)
(* received or queued has its wakeup (module Pipeline models the queue).      *)
(* Tickets are numbered in the order they are made; 0 is no ticket.           *)
(***************************************************************************)
EXTENDS Naturals, FiniteSets

CONSTANTS
    Kinds,          \* kinds of jobs that are looked at
    MaxTickets,     \* bound of the tickets
    MaxIntakes,     \* bound of the intakes that no ticket asks for
    MaxCrashes      \* bound of the crashes

ASSUME RequestAssumption ==
    /\ Kinds \subseteq {"sentry", "task"} /\ Kinds # {}
    /\ MaxTickets \in Nat /\ MaxIntakes \in Nat /\ MaxCrashes \in Nat

VARIABLES
    kind,        \* the job's kind
    job,         \* the job's row
    worker,      \* the consumer: what it awaits and the row it was given
    trigger,     \* the dashboard's request creates a ticket
    adopting,    \* the ticket the intake scan has picked up; 0 when none
    written,     \* tickets people wrote in the autofix list
    pinned,      \* tickets a skipped row keeps from being scanned
    made,        \* (history) who made a ticket
    adopted,     \* (history) per ticket, how often it was adopted, at most 2
    approved,    \* (history) a human has said proceed since the last intake
    asked,       \* (history) the ticket the last question was posted on
    intakes,     \* intakes left
    crashes      \* crashes left

reqVars == <<kind, job, worker, trigger, adopting, written, pinned, made, adopted,
             approved, asked, intakes, crashes>>

Active == {"received", "queued", "running"}
Runnable == {"received", "queued"}
NoRow == [status |-> "none", phase |-> 1, forced |-> FALSE, ticket |-> 0, retries |-> 0]
Off == [pc |-> "off", phase |-> 1, forced |-> FALSE, ticket |-> 0, retries |-> 0]
Tickets == 1 .. MaxTickets
NextTicket == Cardinality(DOMAIN made) + 1
MakesTicket(who) == NextTicket \in Tickets /\ made' = [t \in DOMAIN made \union {NextTicket} |->
                        IF t = NextTicket THEN who ELSE made[t]]

RequestInit ==
    /\ kind \in Kinds /\ job = NoRow /\ worker = Off /\ trigger = FALSE /\ adopting = 0
    /\ written = {} /\ pinned = {} /\ made = [t \in {} |-> "run"]
    /\ adopted = [t \in Tickets |-> 0] /\ approved = FALSE /\ asked = 0
    /\ intakes = MaxIntakes /\ crashes = MaxCrashes

-----------------------------------------------------------------------------
(* Intake.                                                                  *)

\* intake, intake_task: what is under way, parked or has its pull request is
\* left alone.  A webhook may also find that the issue is cooling down.
Takes == job.status \notin Active \union {"awaiting_input", "pr_opened"}

\* insert: a re-opened row begins at phase 1 again and keeps its ticket and its
\* retry; forced stays.
InsertedAtPhase(forced) == [job EXCEPT !.status = "received", !.forced = @ \/ forced]
Inserted(forced) == [job EXCEPT !.status = "received", !.phase = 1, !.forced = @ \/ forced]

Webhook ==
    /\ kind = "sentry" /\ intakes > 0 /\ Takes
    /\ intakes' = intakes - 1 /\ job' = Inserted(FALSE) /\ approved' = FALSE
    /\ UNCHANGED <<kind, worker, trigger, adopting, written, pinned, made, adopted, asked, crashes>>

\* POST /api/trigger: the row is queued, and then a ticket is created for it.
Trigger ==
    /\ kind = "sentry" /\ intakes > 0 /\ ~trigger /\ Takes
    /\ intakes' = intakes - 1 /\ job' = Inserted(TRUE) /\ approved' = FALSE
    /\ trigger' = (job.ticket = 0)
    /\ UNCHANGED <<kind, worker, adopting, written, pinned, made, adopted, asked, crashes>>

TriggerCreates ==
    /\ trigger /\ trigger' = FALSE
    /\ \/ MakesTicket("trigger") /\ job' = [job EXCEPT !.ticket = NextTicket]
       \/ UNCHANGED <<job, made>>
    /\ UNCHANGED <<kind, worker, adopting, written, pinned, adopted, approved, asked, intakes, crashes>>

\* POST /api/tasks: the ticket comes first, and names the job; ClickUp may be
\* out of order.
TicketFirst ==
    \/ MakesTicket("submit") /\ job' = [Inserted(TRUE) EXCEPT !.ticket = NextTicket]
    \/ UNCHANGED made /\ job' = Inserted(TRUE)
Submit ==
    /\ kind = "task" /\ intakes > 0 /\ job = NoRow /\ written = {} /\ intakes' = intakes - 1
    /\ TicketFirst
    /\ UNCHANGED <<kind, worker, trigger, adopting, written, pinned, adopted, approved, asked, crashes>>

\* A person writes '[sentry 123] ...' or '[fix] ...': a second one of the
\* latter is another job.
WriteTicket ==
    /\ kind = "task" => written = {} /\ job = NoRow
    /\ MakesTicket("person") /\ written' = written \union {NextTicket}
    /\ UNCHANGED <<kind, job, worker, trigger, adopting, pinned, adopted, approved, asked, intakes, crashes>>

\* _poll_intake: a ticket that belongs to no row
HasJob(t) == job.ticket = t \/ t \in pinned
ScanFinds ==
    /\ adopting = 0
    /\ \E t \in written : ~HasJob(t) /\ adopting' = t
    /\ UNCHANGED <<kind, job, worker, trigger, written, pinned, made, adopted, approved, asked, intakes, crashes>>

\* _intake_from_clickup: the ticket is attached before the next await; what is
\* refused gets a row of its own.
Attached(t) == [Inserted(TRUE) EXCEPT !.ticket = t]
Adopt ==
    /\ adopting # 0 /\ Takes
    /\ job' = Attached(adopting) /\ approved' = FALSE
    /\ adopted' = [adopted EXCEPT ![adopting] = IF @ = 2 THEN 2 ELSE @ + 1]
    /\ adopting' = 0
    /\ UNCHANGED <<kind, worker, trigger, written, pinned, made, asked, intakes, crashes>>
Reject ==
    /\ adopting # 0 /\ ~Takes
    /\ pinned' = (IF kind = "sentry" THEN pinned \union {adopting} ELSE pinned)
    /\ adopting' = 0
    /\ UNCHANGED <<kind, job, worker, trigger, written, made, adopted, approved, asked, intakes, crashes>>

-----------------------------------------------------------------------------
(* A run.                                                                   *)

Given(pc) == [pc |-> pc, phase |-> job.phase, forced |-> job.forced,
              ticket |-> job.ticket, retries |-> job.retries]
Settled(status) == job' = [job EXCEPT !.status = status] /\ worker' = Off

\* A task runs at once; of an issue the details are fetched first.
TakeTask ==
    /\ kind = "task" /\ worker = Off /\ job.status \in Runnable
    /\ \/ job' = [job EXCEPT !.status = "running"] /\ worker' = Given("working")
       \/ Settled("skipped")
    /\ UNCHANGED <<kind, trigger, adopting, written, pinned, made, adopted, approved, asked, intakes, crashes>>
TakeIssue ==
    /\ kind = "sentry" /\ worker = Off /\ job.status \in Runnable
    /\ worker' = Given("fetching")
    /\ UNCHANGED <<kind, job, trigger, adopting, written, pinned, made, adopted, approved, asked, intakes, crashes>>

\* Grading asks in phase 1 only; it, the daily cap and the budget spare a
\* forced job.
GradedLow == worker.phase = 1 /\ ~worker.forced
AtDailyCap == ~worker.forced
OverBudget == ~worker.forced
IssueTurnedAway ==
    /\ worker.pc = "fetching"
    /\ \/ Settled("skipped")                            \* no repository is mapped
       \/ (GradedLow \/ AtDailyCap) /\ Settled("skipped")
       \/ OverBudget /\ Settled("error")
    /\ UNCHANGED <<kind, trigger, adopting, written, pinned, made, adopted, approved, asked, intakes, crashes>>

\* The row is read again for its ticket.
IssueFetched ==
    /\ worker.pc = "fetching"
    /\ IF job.ticket = 0 THEN worker' = [worker EXCEPT !.pc = "creating"] /\ UNCHANGED job
       ELSE /\ worker' = [Given("working") EXCEPT !.phase = worker.phase]
            /\ job' = [job EXCEPT !.status = "running"]
    /\ UNCHANGED <<kind, trigger, adopting, written, pinned, made, adopted, approved, asked, intakes, crashes>>

Stored(t) == [job EXCEPT !.ticket = t]
RunCreates ==
    /\ worker.pc = "creating"
    /\ \/ /\ MakesTicket("run") /\ job' = [Stored(NextTicket) EXCEPT !.status = "running"]
          /\ worker' = [Given("working") EXCEPT !.phase = worker.phase, !.ticket = NextTicket]
       \/ /\ UNCHANGED made /\ job' = [job EXCEPT !.status = "running"]
          /\ worker' = [worker EXCEPT !.pc = "working", !.retries = job.retries]
    /\ UNCHANGED <<kind, trigger, adopting, written, pinned, adopted, approved, asked, intakes, crashes>>

AlwaysRetries == TRUE
MayRetryRun == worker.retries < 1
RunEnds ==
    /\ worker.pc = "working"
    /\ \E status \in {"pr_opened", "no_fix", "error", "timeout"} : Settled(status)
    /\ UNCHANGED <<kind, trigger, adopting, written, pinned, made, adopted, approved, asked, intakes, crashes>>
RunRetries ==
    /\ worker.pc = "working" /\ MayRetryRun
    /\ job' = [job EXCEPT !.status = "queued", !.retries = 1] /\ worker' = Off
    /\ UNCHANGED <<kind, trigger, adopting, written, pinned, made, adopted, approved, asked, intakes, crashes>>
NeedsInput ==
    /\ worker.pc = "working" /\ worker' = [worker EXCEPT !.pc = "parking"]
    /\ UNCHANGED <<kind, job, trigger, adopting, written, pinned, made, adopted, approved, asked, intakes, crashes>>
\* _park_awaiting: the row, and then the question on the run's ticket
ParkRequest ==
    /\ worker.pc = "parking" /\ worker' = Off
    /\ job' = [job EXCEPT !.status = "awaiting_input", !.retries = 0]
    /\ asked' = worker.ticket
    /\ UNCHANGED <<kind, trigger, adopting, written, pinned, made, adopted, approved, intakes, crashes>>

\* run_forever: whatever a run raises ends it.
RequestRaises ==
    /\ worker # Off /\ Settled("error")
    /\ UNCHANGED <<kind, trigger, adopting, written, pinned, made, adopted, approved, asked, intakes, crashes>>

\* _answer_v1: one compare-and-set
Approve ==
    /\ job.status = "awaiting_input" /\ approved' = TRUE
    /\ job' = [job EXCEPT !.status = "queued", !.phase = 2]
    /\ UNCHANGED <<kind, worker, trigger, adopting, written, pinned, made, adopted, asked, intakes, crashes>>
Drop ==
    /\ job.status = "awaiting_input"
    /\ job' = [job EXCEPT !.status = "skipped"]
    /\ UNCHANGED <<kind, worker, trigger, adopting, written, pinned, made, adopted, approved, asked, intakes, crashes>>

\* A ticket that was just being created may exist, and nobody knows of it.
CrashRequests ==
    /\ crashes > 0 /\ crashes' = crashes - 1
    /\ worker' = Off /\ trigger' = FALSE /\ adopting' = 0
    /\ job' = (IF job.status = "running" THEN [job EXCEPT !.status = "queued"] ELSE job)
    /\ \/ (worker.pc = "creating" \/ trigger) /\ MakesTicket("crash")
       \/ UNCHANGED made
    /\ UNCHANGED <<kind, written, pinned, adopted, approved, asked, intakes>>

RunStep ==
    \/ TakeTask \/ TakeIssue \/ IssueTurnedAway \/ IssueFetched \/ RunCreates
    \/ RunEnds \/ RunRetries \/ NeedsInput \/ ParkRequest \/ RequestRaises
RequestNext ==
    \/ Webhook \/ Trigger \/ TriggerCreates \/ Submit \/ WriteTicket
    \/ ScanFinds \/ Adopt \/ Reject \/ RunStep \/ Approve \/ Drop \/ CrashRequests
RequestSpec == RequestInit /\ [][RequestNext]_reqVars

-----------------------------------------------------------------------------
(* Properties.                                                              *)

\* The type invariant.
RequestTypeOK ==
    /\ job.status \in Active \union {"none", "awaiting_input", "pr_opened", "no_fix", "error", "timeout", "skipped"}
    /\ job.phase \in {1, 2} /\ job.retries \in {0, 1} /\ job.ticket \in {0} \union DOMAIN made
    /\ worker.pc \in {"off", "fetching", "creating", "working", "parking"}
    /\ worker.pc \in {"fetching", "creating"} => job.status \in Runnable
    /\ worker.pc \in {"working", "parking"} => job.status = "running"
    /\ written \subseteq DOMAIN made /\ pinned \subseteq written /\ adopting \in written \union {0}

\* A run that implements has a human's word for it, given since the request
\* came in the last time: no retry, restart or second intake carries an old
\* approval over.
CodeNeedsApproval == worker # Off /\ worker.phase = 2 => approved

\* The question stands on the ticket whose comments are scanned for the
\* answer, unless the dashboard's trigger attached its own ticket meanwhile.
QuestionIsScanned ==
    job.status = "awaiting_input" /\ asked # job.ticket =>
        job.ticket # 0 /\ made[job.ticket] = "trigger"

\* However often a request is taken in and run, its runs create one ticket.
RunsCreateOneTicket == Cardinality({t \in DOMAIN made : made[t] = "run"}) <= 1

\* Retries, restarts and second intakes give a request no approval, no question
\* and no ticket that it did not have.
RequestsAreSafe == CodeNeedsApproval /\ QuestionIsScanned /\ RunsCreateOneTicket

\* Fair: the consumer goes on.
RequestFairness == WF_reqVars(RunStep)
RequestFairSpec == RequestSpec /\ RequestFairness

\* Nothing is under way: what was queued is to be settled or parked, retries and
\* all.
RequestRests == job.status \notin Active
=============================================================================
