----------------------------- MODULE DeskProofs -----------------------------
(*****************************************************************************)
(* What holds of a request, of the decision registry and of the comment scan *)
(* for any number of tickets, messages, comments and processes, each from an *)
(* inductive invariant of its own; and of the desk that they are composed into *)
(* with the chat, its stream, the accounts and the trust ladder.             *)
(*****************************************************************************)
EXTENDS Desk, ChatProofs, AccountsProofs, AutonomyProofs

-----------------------------------------------------------------------------
(* Requests: a ticket, its tasks, and the retries.                          *)

RequestStatuses == Active \union {"none", "awaiting_input", "pr_opened", "no_fix", "error", "timeout", "skipped"}
RequestRows == [status : RequestStatuses, phase : {1, 2}, forced : BOOLEAN, ticket : Nat, retries : {0, 1}]
RequestPlaces == {"off", "fetching", "creating", "working", "parking"}
RequestRuns == [pc : RequestPlaces, phase : {1, 2}, forced : BOOLEAN, ticket : Nat, retries : {0, 1}]

RequestTypes == job \in RequestRows /\ worker \in RequestRuns /\ (worker.pc = "off" => worker = Off)

\* Tickets are numbered in the order they are made.
TicketsNumbered == \E k \in 0 .. MaxTickets : DOMAIN made = 1 .. k

\* A row that is to implement has been approved since it came in, and so has the
\* run that was given it.
ApprovedRow == job.status \in Active /\ job.phase = 2 => approved

\* A run works on the row's ticket, unless the dashboard's request attached its
\* own after the run read the row.
TriggerAttached == job.ticket # 0 /\ made[job.ticket] = "trigger"
RunsOnTicket == worker.pc # "off" /\ worker.ticket # job.ticket => TriggerAttached

\* Once a run has made a ticket, the row has one and keeps one, so that no
\* later run makes another.
RunTickets == {t \in DOMAIN made : made[t] = "run"}
RunMadeOne ==
    /\ RunTickets # {} => job.ticket # 0 /\ worker.pc # "creating"
    /\ \A t, u \in RunTickets : t = u

RequestInv ==
    /\ RequestTypes /\ TicketsNumbered /\ RequestTypeOK
    /\ ApprovedRow /\ CodeNeedsApproval /\ RunsOnTicket /\ QuestionIsScanned /\ RunMadeOne

LEMMA RequestInitOK == RequestInit => RequestInv
<1> SUFFICES ASSUME RequestInit PROVE RequestInv
  OBVIOUS
<1>1. RequestTypes
  BY DEF RequestInit, RequestTypes, RequestRows, RequestRuns, RequestStatuses, RequestPlaces, Active, NoRow, Off
<1>2. TicketsNumbered
  <2>1. DOMAIN made = 1 .. 0
    BY DEF RequestInit
  <2> QED
    BY <2>1, RequestAssumption DEF TicketsNumbered, RequestAssumption
<1>3. RequestTypeOK
  BY DEF RequestInit, RequestTypeOK, Active, Runnable, NoRow, Off
<1>4. RunMadeOne
  BY DEF RequestInit, RunMadeOne, RunTickets
<1> QED
  BY <1>1, <1>2, <1>3, <1>4 DEF RequestInit, RequestInv, ApprovedRow, CodeNeedsApproval,
     RunsOnTicket, QuestionIsScanned, NoRow, Off, Active

\* A new ticket is another one, and the older ones stay as they were.
LEMMA NewTicket ==
    ASSUME TicketsNumbered, NEW who, MakesTicket(who)
    PROVE  /\ NextTicket \in Nat /\ NextTicket # 0 /\ NextTicket \notin DOMAIN made
           /\ DOMAIN made' = DOMAIN made \union {NextTicket} /\ made'[NextTicket] = who
           /\ \A t \in DOMAIN made : made'[t] = made[t]
           /\ TicketsNumbered'
<1>1. PICK k \in 0 .. MaxTickets : DOMAIN made = 1 .. k
  BY DEF TicketsNumbered
<1>2. MaxTickets \in Nat /\ k \in Nat /\ k \in Int
  BY <1>1, RequestAssumption DEF RequestAssumption
<1>3. Cardinality(1 .. k) = k
  BY <1>2, FS_Interval
<1>4. NextTicket = k + 1
  BY <1>1, <1>3 DEF NextTicket
<1>5. k + 1 \in 0 .. MaxTickets
  BY <1>2, <1>4 DEF MakesTicket, Tickets
<1>6. (1 .. k) \union {k + 1} = 1 .. k + 1 /\ k + 1 \notin 1 .. k
  BY <1>2
<1>7. made' = [t \in DOMAIN made \union {NextTicket} |-> IF t = NextTicket THEN who ELSE made[t]]
  BY DEF MakesTicket
<1>8. DOMAIN made' = 1 .. k + 1
  BY <1>1, <1>4, <1>6, <1>7
<1>9. TicketsNumbered'
  BY <1>5, <1>8 DEF TicketsNumbered
<1> QED
  BY <1>1, <1>2, <1>4, <1>6, <1>7, <1>9

\* A worker with a run under way keeps the row from being taken in again.
LEMMA TakenIsOff ==
    ASSUME RequestInv, Takes
    PROVE  worker = Off /\ worker.pc = "off" /\ job.status \notin Active
BY DEF RequestInv, RequestTypes, RequestRuns, RequestPlaces, RequestTypeOK, Takes, Active, Runnable

\* The steps that make no ticket.
LEMMA SameTickets ==
    ASSUME RequestInv, UNCHANGED <<kind, made>>,
           job' \in RequestRows, worker' \in RequestRuns, worker'.pc = "off" => worker' = Off,
           RequestTypeOK', ApprovedRow', CodeNeedsApproval', RunsOnTicket', QuestionIsScanned',
           job'.ticket = 0 => job.ticket = 0,
           worker'.pc = "creating" => worker.pc = "creating" \/ job.ticket = 0
    PROVE  RequestInv'
<1>1. RequestTypes' /\ TicketsNumbered'
  BY DEF RequestInv, RequestTypes, TicketsNumbered
<1>2. RunTickets' = RunTickets
  BY DEF RunTickets
<1>3. RunMadeOne'
  BY <1>2 DEF RequestInv, RunMadeOne
<1> QED
  BY <1>1, <1>3 DEF RequestInv

LEMMA InsertedRow ==
    ASSUME job \in RequestRows, NEW f \in BOOLEAN
    PROVE  /\ Inserted(f) \in RequestRows /\ Inserted(f).status = "received" /\ Inserted(f).phase = 1
           /\ Inserted(f).ticket = job.ticket /\ Inserted(f).retries = job.retries
<1> DEFINE r == [job EXCEPT !.status = "received"]
<1>2. /\ r \in RequestRows /\ r.status = "received" /\ r.ticket = job.ticket /\ r.retries = job.retries
      /\ r.forced = job.forced
  BY DEF RequestRows, RequestStatuses, Active
<1> DEFINE q == [r EXCEPT !.phase = 1]
<1>4. /\ q \in RequestRows /\ q.status = "received" /\ q.phase = 1 /\ q.ticket = job.ticket
      /\ q.retries = job.retries /\ q.forced = job.forced
  BY <1>2 DEF RequestRows
<1>5. (job.forced \/ f) \in BOOLEAN
  OBVIOUS
<1>6. Inserted(f) = [q EXCEPT !.forced = (job.forced \/ f)]
  BY Zenon DEF Inserted
<1> HIDE DEF q
<1>7. ASSUME NEW b \in BOOLEAN
      PROVE  /\ [q EXCEPT !.forced = b] \in RequestRows /\ [q EXCEPT !.forced = b].status = q.status
             /\ [q EXCEPT !.forced = b].phase = q.phase /\ [q EXCEPT !.forced = b].ticket = q.ticket
             /\ [q EXCEPT !.forced = b].retries = q.retries
  BY <1>4 DEF RequestRows
<1> QED
  BY <1>4, <1>5, <1>6, <1>7

\* A request that is taken in begins at phase 1, and nothing runs.
LEMMA TakenIn ==
    ASSUME RequestInv, Takes, UNCHANGED <<kind, worker, made, written, pinned, asked>>,
           adopting' \in {0, adopting}, job' \in RequestRows, job'.status = "received", job'.phase = 1,
           job'.ticket \in {job.ticket, adopting}, job'.ticket = 0 => job.ticket = 0
    PROVE  RequestInv'
<1>1. worker = Off /\ worker.pc = "off" /\ job.status \notin Active
  BY TakenIsOff
<1>2. ApprovedRow' /\ CodeNeedsApproval' /\ RunsOnTicket' /\ QuestionIsScanned'
  BY <1>1 DEF ApprovedRow, CodeNeedsApproval, RunsOnTicket, QuestionIsScanned
<1>3. RequestTypeOK'
  <2>1. job'.ticket \in {0} \union DOMAIN made /\ adopting' \in written \union {0}
    BY DEF RequestInv, RequestTypeOK
  <2> QED
    BY <1>1, <2>1 DEF RequestInv, RequestTypeOK, RequestRows, Active
<1> QED
  BY <1>1, <1>2, <1>3, SameTickets DEF RequestInv, RequestTypes

LEMMA IntakeSteps ==
    ASSUME RequestInv, Webhook \/ Trigger \/ Adopt \/ Reject \/ ScanFinds
    PROVE  RequestInv'
<1> USE DEF RequestInv, RequestTypes, RequestTypeOK, ApprovedRow, CodeNeedsApproval, RunsOnTicket,
            QuestionIsScanned, Active, Runnable, TriggerAttached
<1>1. CASE Webhook
  <2> DEFINE r == Inserted(FALSE)
  <2>1. r \in RequestRows /\ r.status = "received" /\ r.phase = 1 /\ r.ticket = job.ticket /\ job' = r
    BY <1>1, InsertedRow DEF Webhook
  <2> HIDE DEF r
  <2> QED
    BY <1>1, <2>1, TakenIn DEF Webhook
<1>2. CASE Trigger
  <2> DEFINE r == Inserted(TRUE)
  <2>1. r \in RequestRows /\ r.status = "received" /\ r.phase = 1 /\ r.ticket = job.ticket /\ job' = r
    BY <1>2, InsertedRow DEF Trigger
  <2> HIDE DEF r
  <2> QED
    BY <1>2, <2>1, TakenIn DEF Trigger
<1>3. CASE Adopt
  <2> DEFINE r == Inserted(TRUE)
  <2>1. /\ r \in RequestRows /\ r.status = "received" /\ r.phase = 1
    BY InsertedRow
  <2>2. adopting \in Nat /\ adopting # 0 /\ adopting \in DOMAIN made
    BY <1>3 DEF Adopt, TicketsNumbered
  <2>3. job' = [r EXCEPT !.ticket = adopting]
    BY <1>3 DEF Adopt, Attached
  <2> HIDE DEF r
  <2>4. job' \in RequestRows /\ job'.status = "received" /\ job'.phase = 1 /\ job'.ticket = adopting
    BY <2>1, <2>2, <2>3 DEF RequestRows
  <2> QED
    BY <1>3, <2>2, <2>4, TakenIn DEF Adopt
<1>4. CASE Reject
  BY <1>4, SameTickets DEF Reject
<1>5. CASE ScanFinds
  BY <1>5, SameTickets DEF ScanFinds
<1> QED
  BY <1>1, <1>2, <1>3, <1>4, <1>5

\* A row whose status is set.
LEMMA StatusRow ==
    ASSUME job \in RequestRows, NEW s \in RequestStatuses
    PROVE  /\ [job EXCEPT !.status = s] \in RequestRows /\ [job EXCEPT !.status = s].status = s
           /\ [job EXCEPT !.status = s].phase = job.phase
           /\ [job EXCEPT !.status = s].ticket = job.ticket
           /\ [job EXCEPT !.status = s].forced = job.forced
           /\ [job EXCEPT !.status = s].retries = job.retries
BY DEF RequestRows

LEMMA SettledOK ==
    ASSUME RequestInv, UNCHANGED <<kind, trigger, adopting, written, pinned, made, approved, asked>>,
           NEW s \in {"pr_opened", "no_fix", "error", "timeout", "skipped"}, Settled(s)
    PROVE  RequestInv'
<1>1. s \in RequestStatuses /\ s \notin Active
  BY DEF RequestStatuses, Active
<1>2. /\ job' \in RequestRows /\ job'.status = s /\ job'.ticket = job.ticket /\ job'.phase = job.phase
      /\ job'.retries = job.retries
  BY <1>1, StatusRow DEF Settled, RequestInv, RequestTypes
<1>3. worker' = Off /\ Off \in RequestRuns /\ Off.pc = "off"
  BY DEF Settled, Off, RequestRuns, RequestPlaces
<1> QED
  BY <1>1, <1>2, <1>3, SameTickets DEF RequestInv, RequestTypes, RequestTypeOK, ApprovedRow,
     CodeNeedsApproval, RunsOnTicket, QuestionIsScanned, Active, Runnable, TriggerAttached, RequestRows

\* The run that is given a row.
LEMMA GivenRun ==
    ASSUME job \in RequestRows, NEW p \in RequestPlaces
    PROVE  /\ Given(p) \in RequestRuns /\ Given(p).pc = p /\ Given(p).phase = job.phase
           /\ Given(p).ticket = job.ticket /\ Given(p).forced = job.forced
           /\ Given(p).retries = job.retries
BY DEF Given, RequestRows, RequestRuns

\* A run that goes on with its row.
LEMMA RunGoesOn ==
    ASSUME RequestInv, worker.pc # "off",
           UNCHANGED <<kind, adopting, written, pinned, made, approved, asked>>,
           job' \in RequestRows, worker' \in RequestRuns, worker'.pc # "off",
           job'.ticket = job.ticket, job'.phase = job.phase,
           worker'.phase = worker.phase, worker'.ticket \in {worker.ticket, job.ticket},
           \/ worker'.pc \in {"creating"} /\ job'.status = job.status /\ job.ticket = 0
              /\ worker.pc = "fetching"
           \/ worker'.pc \in {"working", "parking"} /\ job'.status = "running"
    PROVE  RequestInv'
<1>1. job.status \in Active
  BY DEF RequestInv, RequestTypes, RequestRuns, RequestPlaces, RequestTypeOK, Active, Runnable
<1>2. ApprovedRow' /\ CodeNeedsApproval'
  <2>1. worker # Off
    BY DEF Off
  <2> QED
    BY <1>1, <2>1 DEF RequestInv, ApprovedRow, CodeNeedsApproval
<1>3. RunsOnTicket'
  BY DEF RequestInv, RunsOnTicket, TriggerAttached
<1>4. QuestionIsScanned'
  BY <1>1 DEF QuestionIsScanned, Active
<1>5. RequestTypeOK'
  BY DEF RequestInv, RequestTypeOK, RequestRows, Active, Runnable
<1> QED
  BY <1>2, <1>3, <1>4, <1>5, SameTickets DEF RequestInv

LEMMA RequestRunSteps ==
    ASSUME RequestInv, RunStep, UNCHANGED made
    PROVE  RequestInv'
<1> DEFINE Same == UNCHANGED <<kind, trigger, adopting, written, pinned, made, approved>>
<1>0. job \in RequestRows /\ worker \in RequestRuns
  BY DEF RequestInv, RequestTypes
<1> USE DEF RequestTypeOK, ApprovedRow, CodeNeedsApproval, RunsOnTicket, QuestionIsScanned,
            Active, Runnable, TriggerAttached
<1>1. CASE TakeTask
  <2>1. CASE Settled("skipped")
    BY <1>1, <2>1, SettledOK DEF TakeTask
  <2>2. CASE job' = [job EXCEPT !.status = "running"] /\ worker' = Given("working")
    <3>1. /\ job' \in RequestRows /\ job'.status = "running" /\ job'.ticket = job.ticket
          /\ job'.phase = job.phase /\ job'.retries = job.retries
      BY <1>0, <2>2, StatusRow DEF RequestStatuses
    <3>2. /\ worker' \in RequestRuns /\ worker'.pc = "working" /\ worker'.phase = job.phase
          /\ worker'.ticket = job.ticket
      BY <1>0, <2>2, GivenRun DEF RequestPlaces
    <3> QED
      BY <1>1, <3>1, <3>2, SameTickets DEF TakeTask, RequestInv, RequestRows
  <2> QED
    BY <1>1, <2>1, <2>2 DEF TakeTask
<1>2. CASE TakeIssue
  <2>1. /\ worker' \in RequestRuns /\ worker'.pc = "fetching" /\ worker'.phase = job.phase
        /\ worker'.ticket = job.ticket
    BY <1>0, <1>2, GivenRun DEF RequestPlaces, TakeIssue
  <2> QED
    BY <1>0, <1>2, <2>1, SameTickets DEF TakeIssue, RequestInv, RequestTypes
<1>3. CASE IssueTurnedAway
  BY <1>3, SettledOK DEF IssueTurnedAway
<1>4. CASE IssueFetched
  <2>1. CASE job.ticket = 0
    <3>1. worker' \in RequestRuns /\ worker'.pc = "creating" /\ worker'.phase = worker.phase
          /\ worker'.ticket = worker.ticket /\ job' = job
      BY <1>0, <1>4, <2>1 DEF IssueFetched, RequestRuns, RequestPlaces
    <3> QED
      BY <1>0, <1>4, <2>1, <3>1, RunGoesOn DEF IssueFetched
  <2>2. CASE job.ticket # 0
    <3>0. job' = [job EXCEPT !.status = "running"]
      BY <1>4, <2>2 DEF IssueFetched
    <3>1. /\ job' \in RequestRows /\ job'.status = "running" /\ job'.ticket = job.ticket
          /\ job'.phase = job.phase /\ job'.retries = job.retries
      BY <1>0, <3>0, StatusRow DEF RequestStatuses
    <3> DEFINE g == Given("working")
    <3>2. g \in RequestRuns /\ g.pc = "working" /\ g.ticket = job.ticket
      BY <1>0, GivenRun DEF RequestPlaces
    <3>3. worker' = [g EXCEPT !.phase = worker.phase]
      BY <1>4, <2>2 DEF IssueFetched
    <3> HIDE DEF g
    <3>4. /\ worker' \in RequestRuns /\ worker'.pc = "working" /\ worker'.phase = worker.phase
          /\ worker'.ticket = job.ticket
      BY <1>0, <3>2, <3>3 DEF RequestRuns
    <3> QED
      BY <1>4, <3>1, <3>4, RunGoesOn DEF IssueFetched
  <2> QED
    BY <2>1, <2>2
<1>5. CASE RunCreates
  <2>1. ~\E who \in {"run"} : MakesTicket(who)
    <3> SUFFICES ASSUME MakesTicket("run") PROVE FALSE
      OBVIOUS
    <3> QED
      BY NewTicket DEF RequestInv
  <2>0. job' = [job EXCEPT !.status = "running"]
    BY <1>5, <2>1 DEF RunCreates
  <2>2. /\ job' \in RequestRows /\ job'.status = "running" /\ job'.ticket = job.ticket
        /\ job'.phase = job.phase /\ job'.retries = job.retries
    BY <1>0, <2>0, StatusRow DEF RequestStatuses
  <2>3. /\ worker' \in RequestRuns /\ worker'.pc = "working" /\ worker'.phase = worker.phase
        /\ worker'.ticket = worker.ticket
    <3> DEFINE w == [worker EXCEPT !.pc = "working"]
    <3>1. w \in RequestRuns /\ w.pc = "working" /\ w.phase = worker.phase /\ w.ticket = worker.ticket
      BY <1>0 DEF RequestRuns, RequestPlaces
    <3>2. worker' = [w EXCEPT !.retries = job.retries]
      BY <1>5, <2>1 DEF RunCreates
    <3> HIDE DEF w
    <3> QED
      BY <1>0, <3>1, <3>2 DEF RequestRuns, RequestRows
  <2> QED
    BY <1>5, <2>2, <2>3, RunGoesOn DEF RunCreates
<1>6. CASE RunEnds
  BY <1>6, SettledOK DEF RunEnds
<1>7. CASE RunRetries
  <2> DEFINE r == [job EXCEPT !.status = "queued"]
  <2>1. /\ r \in RequestRows /\ r.status = "queued" /\ r.ticket = job.ticket /\ r.phase = job.phase
    BY <1>0, StatusRow DEF RequestStatuses
  <2>2. job' = [r EXCEPT !.retries = 1] /\ worker' = Off
    BY <1>7 DEF RunRetries
  <2> HIDE DEF r
  <2>3. /\ job' \in RequestRows /\ job'.status = "queued" /\ job'.ticket = job.ticket
        /\ job'.phase = job.phase
    BY <2>1, <2>2 DEF RequestRows
  <2>4. worker' \in RequestRuns /\ worker'.pc = "off"
    BY <2>2 DEF Off, RequestRuns, RequestPlaces
  <2> QED
    BY <1>7, <2>2, <2>3, <2>4, SameTickets DEF RunRetries, RequestInv, RequestTypes, RequestRows
<1>8. CASE NeedsInput
  <2>1. /\ worker' \in RequestRuns /\ worker'.pc = "parking" /\ worker'.phase = worker.phase
        /\ worker'.ticket = worker.ticket
    BY <1>0, <1>8 DEF NeedsInput, RequestRuns, RequestPlaces
  <2> QED
    BY <1>0, <1>8, <2>1, RunGoesOn DEF NeedsInput, RequestInv
<1>9. CASE ParkRequest
  <2> DEFINE r == [job EXCEPT !.status = "awaiting_input"]
  <2>1. /\ r \in RequestRows /\ r.status = "awaiting_input" /\ r.ticket = job.ticket /\ r.phase = job.phase
    BY <1>0, StatusRow DEF RequestStatuses
  <2>2. job' = [r EXCEPT !.retries = 0] /\ worker' = Off
    BY <1>9 DEF ParkRequest
  <2> HIDE DEF r
  <2>3. /\ job' \in RequestRows /\ job'.status = "awaiting_input" /\ job'.ticket = job.ticket
        /\ job'.phase = job.phase
    BY <2>1, <2>2 DEF RequestRows
  <2>4. worker' \in RequestRuns /\ worker'.pc = "off"
    BY <2>2 DEF Off, RequestRuns, RequestPlaces
  <2> QED
    BY <1>9, <2>2, <2>3, <2>4, SameTickets DEF ParkRequest, RequestInv, RequestTypes, RequestRows
<1>10. CASE RequestRaises
  BY <1>10, SettledOK DEF RequestRaises
<1> QED
  BY <1>1, <1>2, <1>3, <1>4, <1>5, <1>6, <1>7, <1>8, <1>9, <1>10 DEF RunStep

\* A step that makes a ticket and lets the row, or the run, have it.
LEMMA MadeTicket ==
    ASSUME RequestInv, NEW who, MakesTicket(who),
           job' \in RequestRows, worker' \in RequestRuns, worker'.pc = "off" => worker' = Off,
           RequestTypeOK', ApprovedRow', CodeNeedsApproval', RunsOnTicket', QuestionIsScanned',
           worker'.pc = "creating" => worker.pc = "creating" /\ worker' = worker,
           job'.ticket = 0 => job.ticket = 0,
           who = "run" => worker.pc = "creating" /\ job'.ticket # 0 /\ worker'.pc # "creating"
    PROVE  RequestInv'
<1>1. /\ NextTicket \notin DOMAIN made /\ DOMAIN made' = DOMAIN made \union {NextTicket}
      /\ made'[NextTicket] = who /\ (\A t \in DOMAIN made : made'[t] = made[t])
      /\ TicketsNumbered'
  BY NewTicket DEF RequestInv
<1>2. RequestTypes'
  BY DEF RequestTypes
<1>3. \A t : t \in RunTickets' <=> t \in RunTickets \/ (t = NextTicket /\ who = "run")
  BY <1>1 DEF RunTickets
<1>4. RunMadeOne'
  BY <1>3 DEF RequestInv, RunMadeOne
<1> QED
  BY <1>1, <1>2, <1>4 DEF RequestInv

LEMMA TicketSteps ==
    ASSUME RequestInv, TriggerCreates \/ Submit \/ WriteTicket
    PROVE  RequestInv'
<1>0. job \in RequestRows /\ worker \in RequestRuns /\ (worker.pc = "off" => worker = Off)
  BY DEF RequestInv, RequestTypes
<1>1. CASE TriggerCreates /\ UNCHANGED <<job, made>>
  BY <1>0, <1>1, SameTickets DEF TriggerCreates, RequestInv, RequestTypes, RequestTypeOK, ApprovedRow,
     CodeNeedsApproval, RunsOnTicket, QuestionIsScanned, TriggerAttached
<1>2. CASE TriggerCreates /\ MakesTicket("trigger")
  <2>1. job' = [job EXCEPT !.ticket = NextTicket]
    <3>1. ~UNCHANGED made
      BY <1>2, NewTicket DEF RequestInv
    <3> QED
      BY <1>2, <3>1 DEF TriggerCreates
  <2>2. /\ NextTicket \in Nat /\ NextTicket # 0 /\ NextTicket \in DOMAIN made'
        /\ made'[NextTicket] = "trigger" /\ (\A t \in DOMAIN made : t \in DOMAIN made')
    BY <1>2, NewTicket DEF RequestInv
  <2> DEFINE n == NextTicket
  <2> HIDE DEF n
  <2>3. ASSUME NEW k \in Nat
        PROVE  /\ [job EXCEPT !.ticket = k] \in RequestRows /\ [job EXCEPT !.ticket = k].ticket = k
               /\ [job EXCEPT !.ticket = k].status = job.status
               /\ [job EXCEPT !.ticket = k].phase = job.phase
               /\ [job EXCEPT !.ticket = k].retries = job.retries
    BY <1>0 DEF RequestRows
  <2>4. /\ job' \in RequestRows /\ job'.ticket = NextTicket /\ job'.status = job.status
        /\ job'.phase = job.phase /\ job'.retries = job.retries
    BY <2>1, <2>2, <2>3
  <2>5. UNCHANGED <<kind, worker, adopting, written, pinned, approved, asked>>
    BY <1>2 DEF TriggerCreates
  <2>6. ApprovedRow' /\ CodeNeedsApproval'
    BY <2>4, <2>5 DEF RequestInv, ApprovedRow, CodeNeedsApproval
  <2>7. RunsOnTicket' /\ QuestionIsScanned'
    BY <2>2, <2>4 DEF RunsOnTicket, QuestionIsScanned, TriggerAttached
  <2>8. RequestTypeOK'
    BY <2>2, <2>4, <2>5 DEF RequestInv, RequestTypeOK
  <2> QED
    BY <1>0, <1>2, <2>2, <2>4, <2>5, <2>6, <2>7, <2>8, MadeTicket
<1>3. CASE Submit
  <2>1. /\ job = NoRow /\ kind = "task"
        /\ UNCHANGED <<kind, worker, trigger, adopting, written, pinned, approved, asked>>
    BY <1>3 DEF Submit
  <2>2. worker = Off /\ worker.pc = "off" /\ Takes
    BY <2>1, TakenIsOff DEF Takes, NoRow, Active
  <2> DEFINE r == Inserted(TRUE)
  <2>3. r \in RequestRows /\ r.status = "received" /\ r.phase = 1 /\ r.ticket = job.ticket
    BY <1>0, InsertedRow
  <2>4. CASE UNCHANGED made /\ job' = r
    <3> HIDE DEF r
    <3> QED
      BY <2>1, <2>2, <2>3, <2>4, TakenIn
  <2>5. CASE MakesTicket("submit") /\ job' = [r EXCEPT !.ticket = NextTicket]
    <3>1. /\ NextTicket \in Nat /\ NextTicket # 0 /\ NextTicket \in DOMAIN made'
          /\ (\A t \in DOMAIN made : t \in DOMAIN made')
      BY <2>5, NewTicket DEF RequestInv
    <3> HIDE DEF r
    <3>2. ASSUME NEW k \in Nat
          PROVE  /\ [r EXCEPT !.ticket = k] \in RequestRows /\ [r EXCEPT !.ticket = k].ticket = k
                 /\ [r EXCEPT !.ticket = k].status = r.status
                 /\ [r EXCEPT !.ticket = k].phase = r.phase
      BY <2>3 DEF RequestRows
    <3>3. job' \in RequestRows /\ job'.ticket = NextTicket /\ job'.status = "received" /\ job'.phase = 1
      BY <2>3, <2>5, <3>1, <3>2
    <3>4. ApprovedRow' /\ CodeNeedsApproval' /\ RunsOnTicket' /\ QuestionIsScanned'
      BY <2>1, <2>2, <3>3 DEF ApprovedRow, CodeNeedsApproval, RunsOnTicket, QuestionIsScanned
    <3>5. RequestTypeOK'
      BY <2>1, <2>2, <3>1, <3>3 DEF RequestInv, RequestTypeOK, Active, RequestRows
    <3> QED
      BY <1>0, <2>1, <2>2, <2>5, <3>1, <3>3, <3>4, <3>5, MadeTicket
  <2> QED
    BY <1>3, <2>4, <2>5 DEF Submit, TicketFirst
<1>4. CASE WriteTicket
  <2>1. /\ NextTicket # 0 /\ DOMAIN made' = DOMAIN made \union {NextTicket}
        /\ \A t \in DOMAIN made : made'[t] = made[t]
    BY <1>4, NewTicket DEF WriteTicket, RequestInv
  <2>2. UNCHANGED <<kind, job, worker, adopting, pinned, approved, asked>>
    BY <1>4 DEF WriteTicket
  <2>3. RequestTypeOK'
    BY <1>4, <2>1, <2>2 DEF WriteTicket, RequestInv, RequestTypeOK
  <2>4. RunsOnTicket' /\ QuestionIsScanned' /\ ApprovedRow' /\ CodeNeedsApproval'
    BY <2>1, <2>2 DEF RequestInv, RequestTypeOK, RunsOnTicket, QuestionIsScanned, TriggerAttached,
       ApprovedRow, CodeNeedsApproval
  <2> QED
    BY <1>0, <1>4, <2>2, <2>3, <2>4, MadeTicket DEF WriteTicket
<1> QED
  BY <1>1, <1>2, <1>3, <1>4 DEF TriggerCreates

LEMMA RunMakesTicket ==
    ASSUME RequestInv, RunCreates, MakesTicket("run")
    PROVE  RequestInv'
<1>0. job \in RequestRows /\ worker \in RequestRuns
  BY DEF RequestInv, RequestTypes
<1>1. /\ NextTicket \in Nat /\ NextTicket # 0 /\ NextTicket \in DOMAIN made'
      /\ (\A t \in DOMAIN made : t \in DOMAIN made') /\ ~UNCHANGED made
  BY NewTicket DEF RequestInv
<1>2. /\ job' = [Stored(NextTicket) EXCEPT !.status = "running"]
      /\ worker' = [Given("working") EXCEPT !.phase = worker.phase, !.ticket = NextTicket]
      /\ worker.pc = "creating"
      /\ UNCHANGED <<kind, trigger, adopting, written, pinned, approved, asked>>
  BY <1>1 DEF RunCreates
<1>3. ASSUME NEW k \in Nat
      PROVE  /\ [Stored(k) EXCEPT !.status = "running"] \in RequestRows
             /\ [Stored(k) EXCEPT !.status = "running"].ticket = k
             /\ [Stored(k) EXCEPT !.status = "running"].status = "running"
             /\ [Stored(k) EXCEPT !.status = "running"].phase = job.phase
  BY <1>0 DEF RequestRows, Stored, RequestStatuses, Active
<1> DEFINE g == Given("working")
<1>4. g \in RequestRuns /\ g.pc = "working"
  BY <1>0, GivenRun DEF RequestPlaces
<1>5. ASSUME NEW k \in Nat
      PROVE  /\ [g EXCEPT !.phase = worker.phase, !.ticket = k] \in RequestRuns
             /\ [g EXCEPT !.phase = worker.phase, !.ticket = k].ticket = k
             /\ [g EXCEPT !.phase = worker.phase, !.ticket = k].pc = "working"
             /\ [g EXCEPT !.phase = worker.phase, !.ticket = k].phase = worker.phase
  <2> HIDE DEF g
  <2> QED
    BY <1>0, <1>4 DEF RequestRuns
<1>6. /\ job' \in RequestRows /\ job'.ticket = NextTicket /\ job'.status = "running"
      /\ job'.phase = job.phase
  BY <1>1, <1>2, <1>3
<1>7. /\ worker' \in RequestRuns /\ worker'.ticket = NextTicket /\ worker'.pc = "working"
      /\ worker'.phase = worker.phase
  BY <1>1, <1>2, <1>5
<1>8. job.status \in Active /\ worker # Off
  BY <1>2 DEF RequestInv, RequestTypeOK, Active, Runnable, Off
<1>9. ApprovedRow' /\ CodeNeedsApproval'
  BY <1>2, <1>6, <1>7, <1>8 DEF RequestInv, ApprovedRow, CodeNeedsApproval
<1>10. RunsOnTicket' /\ QuestionIsScanned'
  BY <1>6, <1>7 DEF RunsOnTicket, QuestionIsScanned
<1>11. RequestTypeOK'
  BY <1>1, <1>2, <1>6, <1>7 DEF RequestInv, RequestTypeOK, RequestRows, Active
<1> QED
  BY <1>1, <1>2, <1>6, <1>7, <1>9, <1>10, <1>11, MadeTicket

LEMMA HumanSteps ==
    ASSUME RequestInv, Approve \/ Drop
    PROVE  RequestInv'
<1>0. job \in RequestRows /\ job.status = "awaiting_input" /\ worker = Off /\ worker.pc = "off"
      /\ worker \in RequestRuns
  BY DEF RequestInv, RequestTypes, RequestRuns, RequestPlaces, RequestTypeOK, Runnable, Approve, Drop
<1>1. CASE Approve
  <2>1. /\ job' \in RequestRows /\ job'.status = "queued" /\ job'.phase = 2 /\ job'.ticket = job.ticket
    BY <1>0, <1>1 DEF Approve, RequestRows, RequestStatuses, Active
  <2> QED
    BY <1>0, <1>1, <2>1, SameTickets DEF Approve, RequestInv, RequestTypes, RequestTypeOK, ApprovedRow,
       CodeNeedsApproval, RunsOnTicket, QuestionIsScanned, Active, RequestRows
<1>2. CASE Drop
  <2>1. /\ job' \in RequestRows /\ job'.status = "skipped" /\ job'.ticket = job.ticket
    BY <1>0, <1>2 DEF Drop, RequestRows, RequestStatuses, Active
  <2> QED
    BY <1>0, <1>2, <2>1, SameTickets DEF Drop, RequestInv, RequestTypes, RequestTypeOK, ApprovedRow,
       CodeNeedsApproval, RunsOnTicket, QuestionIsScanned, Active, RequestRows
<1> QED
  BY <1>1, <1>2

LEMMA CrashStep ==
    ASSUME RequestInv, CrashRequests
    PROVE  RequestInv'
<1>0. job \in RequestRows
  BY DEF RequestInv, RequestTypes
<1>1. /\ worker' = Off /\ worker' \in RequestRuns /\ worker'.pc = "off" /\ adopting' = 0
      /\ UNCHANGED <<kind, written, pinned, approved, asked>>
  BY DEF CrashRequests, Off, RequestRuns, RequestPlaces
<1>2. /\ job' \in RequestRows /\ job'.ticket = job.ticket /\ job'.phase = job.phase
      /\ job'.status = (IF job.status = "running" THEN "queued" ELSE job.status)
  BY <1>0, StatusRow DEF CrashRequests, RequestStatuses, Active
<1>3. ApprovedRow' /\ CodeNeedsApproval' /\ RunsOnTicket'
  BY <1>1, <1>2 DEF RequestInv, ApprovedRow, CodeNeedsApproval, RunsOnTicket, Active
<1>4. CASE UNCHANGED made
  <2>1. QuestionIsScanned' /\ RequestTypeOK'
    BY <1>1, <1>2, <1>4 DEF RequestInv, RequestTypeOK, QuestionIsScanned, RequestRows, Active
  <2> QED
    BY <1>1, <1>2, <1>3, <1>4, <2>1, SameTickets
<1>5. CASE MakesTicket("crash")
  <2>1. /\ DOMAIN made' = DOMAIN made \union {NextTicket}
        /\ \A t \in DOMAIN made : made'[t] = made[t]
    BY <1>5, NewTicket DEF RequestInv
  <2>2. QuestionIsScanned' /\ RequestTypeOK'
    BY <1>1, <1>2, <2>1 DEF RequestInv, RequestTypeOK, QuestionIsScanned, RequestRows, Active
  <2> QED
    BY <1>1, <1>2, <1>3, <1>5, <2>2, MadeTicket
<1> QED
  BY <1>4, <1>5 DEF CrashRequests

LEMMA RequestStep == RequestInv /\ [RequestNext]_reqVars => RequestInv'
<1> SUFFICES ASSUME RequestInv, [RequestNext]_reqVars PROVE RequestInv'
  OBVIOUS
<1>1. CASE UNCHANGED reqVars
  BY <1>1 DEF reqVars, RequestInv, RequestTypes, TicketsNumbered, RequestTypeOK, ApprovedRow,
     CodeNeedsApproval, RunsOnTicket, TriggerAttached, QuestionIsScanned, RunMadeOne, RunTickets
<1>2. CASE RunStep
  <2>1. CASE UNCHANGED made
    BY <1>2, <2>1, RequestRunSteps
  <2>2. CASE ~UNCHANGED made
    <3>1. RunCreates /\ MakesTicket("run")
      BY <1>2, <2>2 DEF RunStep, RunCreates, TakeTask, TakeIssue, IssueTurnedAway, IssueFetched,
         RunEnds, RunRetries, NeedsInput, ParkRequest, RequestRaises
    <3> QED
      BY <3>1, RunMakesTicket
  <2> QED
    BY <2>1, <2>2
<1> QED
  BY <1>1, <1>2, IntakeSteps, TicketSteps, HumanSteps, CrashStep DEF RequestNext

\* THEOREM.  However often a request is taken in, run, retried, asked about and
\* taken in again, by whichever of its four intakes and through any number of
\* crashes: a run that implements has the approval of a human given since the
\* last intake, a question is posted on the ticket that is scanned for its answer,
\* and its runs create one ticket (worker._process, _park_awaiting, _answer_v1,
\* _intake_from_clickup, db.insert).
THEOREM RequestsStaySafe == RequestSpec => []RequestsAreSafe
<1>1. RequestInit => RequestInv
  BY RequestInitOK
<1>2. RequestInv /\ [RequestNext]_reqVars => RequestInv'
  BY RequestStep
<1>3. RequestInv => RequestsAreSafe
  <2> SUFFICES ASSUME RequestInv PROVE RunsCreateOneTicket
    BY DEF RequestInv, RequestsAreSafe
  <2>1. CASE RunTickets = {}
    BY <2>1, FS_EmptySet DEF RunTickets, RunsCreateOneTicket
  <2>2. CASE RunTickets # {}
    <3>1. PICK t : RunTickets = {t}
      BY <2>2 DEF RequestInv, RunMadeOne
    <3>2. Cardinality({t}) = 1
      BY FS_Singleton
    <3>3. Cardinality(RunTickets) = 1
      BY <3>1, <3>2
    <3> QED
      BY <3>3 DEF RunTickets, RunsCreateOneTicket
  <2> QED
    BY <2>1, <2>2
<1> QED
  BY <1>1, <1>2, <1>3, PTL DEF RequestSpec

\* THEOREM.  A row's ticket is one that was made, and a run holds the row that says it
\* runs, through every crash and intake (Worker.intake, Worker._process_task).
THEOREM RequestTypesHold == RequestSpec => []RequestTypeOK
<1>1. RequestInv => RequestTypeOK
  BY DEF RequestInv
<1> QED
  BY <1>1, RequestInitOK, RequestStep, PTL DEF RequestSpec

-----------------------------------------------------------------------------
(* Registry: the channel is read once, and decisions are handled in order.  *)

SlackPasses ==
    [pc : {"idle", "fetch", "store"}, cursor : Nat, upto : Nat, pages : Nat,
     batch : SUBSET [ts : Nat, shaped : BOOLEAN], truncated : BOOLEAN]
Requested == [ref : Refs, act : DOMAIN Transitions] \union {NoHandler}

RegistryTypes ==
    /\ sofar \in Nat /\ prefixed \subseteq shaped /\ shaped \subseteq 1 .. sofar
    /\ sofar <= Cardinality(Messages)
    /\ watermark \in [set : BOOLEAN, ts : Nat, first : Nat]
    /\ watermark.first <= watermark.ts /\ watermark.ts <= sofar
    /\ decision \in [Refs -> DecisionStatuses]
    /\ indexed = {r \in Refs : decision[r] = "active"}
    /\ fetch \in [SlackPollers -> SlackPasses] /\ handler \in [Handlers -> Requested]

\* A row of a message began as a candidate, and a person's word took it further.
MessageRows ==
    \A m \in Messages :
        /\ decision[m] # "none" => m \in shaped
        /\ decision[m] \in {"active", "superseded"} => m \in confirmed

\* The messages up to n that a pass must have stored have their rows.
RowsUpTo(n) == \A m \in prefixed : m > watermark.first /\ m <= n => decision[m] # "none"

\* A pass holds what it has fetched: each decision above its cursor and up to
\* the newest message it saw has its row, is still to be stored, or is to be
\* fetched; when a pass left nothing unfetched, that is none.
Behind(r) == Less(r.cursor, Overlap)
ToStore(r, m) == \E b \in r.batch : b.ts = m /\ b.shaped
PassIsTrue(r) ==
    r.pc # "idle" =>
        /\ watermark.set /\ watermark.first <= r.cursor /\ r.cursor <= sofar /\ r.upto <= sofar
        /\ \A b \in r.batch : b.ts \in 1 .. sofar /\ (b.shaped => b.ts \in shaped)
        /\ RowsUpTo(r.cursor)
        /\ \A m \in prefixed, b \in r.batch :
              r.upto < m /\ m <= b.ts /\ m > Behind(r) => ToStore(r, m) \/ decision[m] # "none"
        /\ r.pc = "store" /\ ~r.truncated => r.upto <= Behind(r)

RegistryInv ==
    /\ RegistryTypes /\ MessageRows /\ (watermark.set => RowsUpTo(watermark.ts))
    /\ \A p \in SlackPollers : PassIsTrue(fetch[p])
-----------------------------------------------------------------------------

LEMMA MessagesAreNumbers ==
    /\ Messages = 1 .. Cardinality(Messages) /\ Cardinality(Messages) \in Nat
    /\ PageLimit \in Nat /\ PageLimit >= 1 /\ Overlap \in Nat
    /\ \A m \in Messages : m \in Refs /\ m \notin Answers
<1>1. Cardinality(Messages) \in Nat
  BY RegistryAssumption, FS_CardinalityType DEF RegistryAssumption
<1> QED
  BY <1>1, RegistryAssumption DEF RegistryAssumption, Refs

LEMMA PrefixedAreNumbers ==
    ASSUME RegistryInv, NEW m \in prefixed
    PROVE  m \in shaped /\ m \in Nat
<1>1. m \in shaped /\ m \in 1 .. sofar /\ sofar \in Nat
  BY DEF RegistryInv, RegistryTypes
<1> QED
  BY <1>1

LEMMA LessIs ==
    ASSUME NEW x \in Nat, NEW y \in Nat
    PROVE  Less(x, y) \in Nat /\ Less(x, y) <= x /\ Less(x, y) + y >= x
BY DEF Less

LEMMA RegistryInitOK == RegistryInit => RegistryInv
<1> SUFFICES ASSUME RegistryInit PROVE RegistryInv
  OBVIOUS
<1>1. NoPass \in SlackPasses /\ NoPass.pc = "idle" /\ NoHandler \in Requested
  BY DEF NoPass, SlackPasses, Requested
<1>2. RegistryTypes
  <2>1. decision \in [Refs -> DecisionStatuses] /\ indexed = {r \in Refs : decision[r] = "active"}
    BY DEF RegistryInit, DecisionStatuses
  <2>2. watermark \in [set : BOOLEAN, ts : Nat, first : Nat] /\ watermark.first = 0 /\ watermark.ts = 0
    BY DEF RegistryInit, Unset
  <2> QED
    BY <1>1, <2>1, <2>2, MessagesAreNumbers DEF RegistryInit, RegistryTypes
<1>3. MessageRows /\ ~watermark.set
  BY MessagesAreNumbers DEF RegistryInit, MessageRows, Unset
<1> QED
  BY <1>1, <1>2, <1>3 DEF RegistryInit, RegistryInv, PassIsTrue

\* What the passes and the watermark rest on is kept by every step that takes no
\* row away, adds no decision below the newest message and leaves them alone.
LEMMA RowsStay ==
    ASSUME RegistryInv, RegistryTypes', UNCHANGED <<watermark, fetch>>,
           sofar <= sofar', shaped \subseteq shaped',
           \A m \in prefixed' : m \in prefixed \/ m > sofar,
           \A m \in Messages : decision[m] # "none" => decision'[m] # "none",
           MessageRows'
    PROVE  RegistryInv'
<1>1. sofar \in Nat /\ sofar' \in Nat /\ watermark.ts \in Nat /\ watermark.ts <= sofar
  BY DEF RegistryInv, RegistryTypes
<1>2. prefixed' \subseteq 1 .. sofar' /\ prefixed' \subseteq Messages
  <2>1. sofar' <= Cardinality(Messages) /\ prefixed' \subseteq 1 .. sofar'
    BY DEF RegistryTypes
  <2> QED
    BY <1>1, <2>1, MessagesAreNumbers
<1>3. ASSUME NEW n \in Nat, n <= sofar, RowsUpTo(n) PROVE RowsUpTo(n)'
  <2> SUFFICES ASSUME NEW m \in prefixed', m > watermark.first, m <= n PROVE decision'[m] # "none"
    BY DEF RowsUpTo
  <2>1. m \in Nat /\ ~(m > sofar)
    BY <1>1, <1>2, <1>3
  <2> QED
    BY <1>2, <1>3, <2>1 DEF RowsUpTo
<1>4. (watermark.set => RowsUpTo(watermark.ts))'
  BY <1>1, <1>3 DEF RegistryInv, RowsUpTo
<1>5. ASSUME NEW p \in SlackPollers PROVE PassIsTrue(fetch[p])'
  <2>0. PICK r : r = fetch[p]
    OBVIOUS
  <2>1. r \in SlackPasses /\ PassIsTrue(r) /\ fetch'[p] = r
    BY <2>0 DEF RegistryInv, RegistryTypes
  <2>2. r.cursor \in Nat /\ r.upto \in Nat
    BY <2>1 DEF SlackPasses
  <2>3. CASE r.pc = "idle"
    BY <2>1, <2>3 DEF PassIsTrue
  <2>4. CASE r.pc # "idle"
    <3>1. RowsUpTo(r.cursor)'
      <4>1. r.cursor <= sofar /\ RowsUpTo(r.cursor)
        BY <2>1, <2>4 DEF PassIsTrue
      <4> QED
        BY <1>3, <2>2, <4>1 DEF RowsUpTo
    <3>2. ASSUME NEW b \in r.batch
          PROVE  b.ts \in 1 .. sofar /\ b.ts \in 1 .. sofar' /\ (b.shaped => b.ts \in shaped')
      <4>1. b.ts \in 1 .. sofar /\ (b.shaped => b.ts \in shaped)
        BY <2>1, <2>4 DEF PassIsTrue
      <4> QED
        BY <1>1, <4>1
    <3>3. ASSUME NEW m \in prefixed', NEW b \in r.batch, r.upto < m, m <= b.ts, m > Behind(r)
          PROVE  ToStore(r, m) \/ decision'[m] # "none"
      <4>1. m \in Nat /\ m \in Messages /\ b.ts \in 1 .. sofar
        BY <1>2, <3>2
      <4>2. m \in prefixed
        BY <1>1, <3>3, <4>1
      <4>3. ToStore(r, m) \/ decision[m] # "none"
        BY <2>1, <2>4, <3>3, <4>2 DEF PassIsTrue
      <4> QED
        BY <4>1, <4>3
    <3>4. watermark.set /\ watermark.first <= r.cursor /\ r.cursor <= sofar' /\ r.upto <= sofar'
      BY <1>1, <2>1, <2>2, <2>4 DEF PassIsTrue
    <3> QED
      BY <2>1, <2>4, <3>1, <3>2, <3>3, <3>4 DEF PassIsTrue, ToStore, Behind
  <2> QED
    BY <2>3, <2>4
<1> QED
  BY <1>4, <1>5 DEF RegistryInv

LEMMA AddsDecision ==
    ASSUME RegistryTypes, NEW ref \in Refs, NEW status \in {"active", "candidate"},
           DecisionAdd(ref, status)
    PROVE  /\ decision' \in [Refs -> DecisionStatuses]
           /\ indexed' = {r \in Refs : decision'[r] = "active"}
           /\ \A r \in Refs : decision[r] # "none" => decision'[r] = decision[r]
           /\ \A r \in Refs : r # ref => decision'[r] = decision[r]
           /\ decision'[ref] \in {decision[ref], status} /\ decision'[ref] # "none"
<1>1. CASE decision[ref] = "none"
  <2>1. decision' = [decision EXCEPT ![ref] = status]
    BY <1>1 DEF DecisionAdd, Inserts
  <2>2. indexed' = IF status = "active" THEN indexed \union {ref} ELSE indexed
    BY <1>1 DEF DecisionAdd
  <2>3. /\ decision' \in [Refs -> DecisionStatuses] /\ decision'[ref] = status
        /\ \A r \in Refs : r # ref => decision'[r] = decision[r]
    BY <2>1 DEF RegistryTypes, DecisionStatuses
  <2>4. indexed' = {r \in Refs : decision'[r] = "active"}
    BY <1>1, <2>2, <2>3 DEF RegistryTypes
  <2> QED
    BY <1>1, <2>3, <2>4
<1>2. CASE decision[ref] # "none"
  BY <1>2 DEF DecisionAdd, Inserts, RegistryTypes
<1> QED
  BY <1>1, <1>2

LEMMA RegistersStep ==
    ASSUME RegistryInv, NEW r \in Refs, Registers(r)
    PROVE  RegistryInv' /\ \A x \in Refs : decision[x] = "dismissed" => decision'[x] = "dismissed"
<1>1. /\ r \in Answers /\ RegistryTypes /\ DecisionAdd(r, "active")
      /\ UNCHANGED <<sofar, shaped, prefixed, watermark, fetch, handler, confirmed>>
  BY DEF Registers, RegistryInv
<1>2. /\ decision' \in [Refs -> DecisionStatuses]
      /\ indexed' = {x \in Refs : decision'[x] = "active"}
      /\ \A x \in Refs : decision[x] # "none" => decision'[x] = decision[x]
      /\ \A x \in Refs : x # r => decision'[x] = decision[x]
  BY <1>1, AddsDecision
<1>3. RegistryTypes'
  BY <1>1, <1>2 DEF RegistryTypes
<1>4. MessageRows'
  BY <1>1, <1>2, MessagesAreNumbers DEF RegistryInv, MessageRows
<1>5. RegistryInv'
  BY <1>1, <1>2, <1>3, <1>4, MessagesAreNumbers, RowsStay DEF RegistryTypes
<1> QED
  BY <1>2, <1>5

LEMMA HandlerReadsStep ==
    ASSUME RegistryInv, NEW h \in Handlers, NEW r \in Refs, NEW a \in DOMAIN Transitions,
           HandlerReads(h, r, a)
    PROVE  RegistryInv'
<1>1. UNCHANGED <<sofar, shaped, prefixed, watermark, decision, indexed, fetch, confirmed>>
  BY DEF HandlerReads
<1>2. handler' \in [Handlers -> Requested]
  BY DEF HandlerReads, RegistryInv, RegistryTypes, Requested
<1>3. RegistryTypes' /\ MessageRows'
  BY <1>1, <1>2 DEF RegistryInv, RegistryTypes, MessageRows
<1> QED
  BY <1>1, <1>3, RowsStay DEF RegistryInv, RegistryTypes

LEMMA HandlerWritesStep ==
    ASSUME RegistryInv, NEW h \in Handlers, HandlerWrites(h)
    PROVE  RegistryInv' /\ \A x \in Refs : decision[x] = "dismissed" => decision'[x] = "dismissed"
<1> DEFINE ref == handler[h].ref
           act == handler[h].act
           to == Transitions[act].to
<1>1. ref \in Refs /\ act \in {"confirm", "dismiss", "supersede", "reactivate"}
  BY DEF HandlerWrites, RegistryInv, RegistryTypes, Requested, Transitions
<1>2. /\ UNCHANGED <<sofar, shaped, prefixed, watermark, fetch>>
      /\ handler' \in [Handlers -> Requested]
  BY DEF HandlerWrites, RegistryInv, RegistryTypes, Requested
<1>3. CASE ~Wins(ref, act)
  <2>1. UNCHANGED <<decision, indexed, confirmed>>
    BY <1>3 DEF HandlerWrites
  <2>2. RegistryTypes' /\ MessageRows'
    BY <1>2, <2>1 DEF RegistryInv, RegistryTypes, MessageRows
  <2>3. RegistryInv'
    BY <1>2, <2>1, <2>2, RowsStay DEF RegistryInv, RegistryTypes
  <2> QED
    BY <2>1, <2>3
<1>4. CASE Wins(ref, act)
  <2>1. /\ decision' = [decision EXCEPT ![ref] = to] /\ indexed' = Indexes(ref, to)
        /\ confirmed' = (IF act = "confirm" THEN confirmed \union {ref} ELSE confirmed)
    BY <1>4 DEF HandlerWrites
  <2>2. /\ act = "confirm" => decision[ref] = "candidate" /\ to = "active"
        /\ act = "dismiss" => decision[ref] = "candidate" /\ to = "dismissed"
        /\ act = "supersede" => decision[ref] = "active" /\ to = "superseded"
        /\ act = "reactivate" => decision[ref] = "superseded" /\ to = "active"
    BY <1>4 DEF Wins, Transitions
  <2> HIDE DEF to, ref, act
  <2>3. /\ to \in {"active", "dismissed", "superseded"}
        /\ decision[ref] \in {"candidate", "active", "superseded"}
    BY <1>1, <2>2
  <2>4. /\ decision' \in [Refs -> DecisionStatuses] /\ decision'[ref] = to
        /\ \A x \in Refs : x # ref => decision'[x] = decision[x]
    BY <1>1, <2>1, <2>3 DEF RegistryInv, RegistryTypes, DecisionStatuses
  <2>5. indexed' = {x \in Refs : decision'[x] = "active"}
    BY <1>1, <2>1, <2>4 DEF RegistryInv, RegistryTypes, Indexes
  <2>6. RegistryTypes'
    BY <1>2, <2>4, <2>5 DEF RegistryInv, RegistryTypes
  <2>7. MessageRows'
    <3> SUFFICES ASSUME NEW m \in Messages
                 PROVE  /\ decision'[m] # "none" => m \in shaped'
                        /\ decision'[m] \in {"active", "superseded"} => m \in confirmed'
      BY DEF MessageRows
    <3>1. /\ m \in Refs /\ (decision[m] # "none" => m \in shaped)
          /\ decision[m] \in {"active", "superseded"} => m \in confirmed
      BY MessagesAreNumbers DEF RegistryInv, MessageRows
    <3>2. CASE m = ref
      BY <1>1, <1>2, <2>1, <2>2, <2>4, <3>1, <3>2
    <3>3. CASE m # ref
      BY <1>2, <2>1, <2>4, <3>1, <3>3
    <3> QED
      BY <3>2, <3>3
  <2>8. RegistryInv'
    BY <1>2, <2>3, <2>4, <2>6, <2>7, MessagesAreNumbers, RowsStay DEF RegistryTypes
  <2> QED
    BY <1>1, <2>3, <2>4, <2>8
<1> QED
  BY <1>3, <1>4

LEMMA ChannelSteps ==
    ASSUME RegistryInv, Posts \/ Allowlists \/ \E m \in Messages : Reacts(m)
    PROVE  RegistryInv' /\ UNCHANGED decision
<1>0. sofar \in Nat
  BY DEF RegistryInv, RegistryTypes
<1>1. CASE Posts
  <2>1. /\ sofar' = sofar + 1 /\ sofar' <= Cardinality(Messages) /\ shaped \subseteq shaped'
        /\ shaped' \subseteq shaped \union {sofar + 1}
        /\ prefixed' \subseteq prefixed \union {sofar + 1} /\ prefixed' \subseteq shaped'
        /\ UNCHANGED <<watermark, decision, indexed, fetch, handler, confirmed>>
    <3>1. sofar + 1 <= Cardinality(Messages)
      BY <1>0, <1>1, MessagesAreNumbers DEF Posts
    <3>2. prefixed \subseteq shaped
      BY DEF RegistryInv, RegistryTypes
    <3> QED
      BY <1>1, <3>1, <3>2 DEF Posts
  <2>2. shaped' \subseteq 1 .. sofar'
    BY <1>0, <2>1 DEF RegistryInv, RegistryTypes
  <2>3. MessageRows'
    BY <2>1 DEF RegistryInv, MessageRows
  <2>4. watermark'.ts <= sofar'
    BY <1>0, <2>1 DEF RegistryInv, RegistryTypes
  <2>5. RegistryTypes'
    BY <1>0, <2>1, <2>2, <2>4 DEF RegistryInv, RegistryTypes
  <2> QED
    BY <1>0, <2>1, <2>3, <2>5, RowsStay
<1>2. ASSUME NEW m \in Messages, Reacts(m) PROVE RegistryInv' /\ UNCHANGED decision
  <2>1. /\ shaped' = shaped \union {m} /\ m \in 1 .. sofar
        /\ UNCHANGED <<sofar, prefixed, watermark, decision, indexed, fetch, handler, confirmed>>
    BY <1>2 DEF Reacts
  <2>2. RegistryTypes' /\ MessageRows'
    BY <2>1 DEF RegistryInv, RegistryTypes, MessageRows
  <2> QED
    BY <1>0, <2>1, <2>2, RowsStay
<1>3. CASE Allowlists
  <2>1. /\ ~watermark.set /\ watermark' = [set |-> TRUE, ts |-> sofar, first |-> sofar]
        /\ UNCHANGED <<sofar, shaped, prefixed, decision, indexed, fetch, handler, confirmed>>
    BY <1>3 DEF Allowlists
  <2>2. watermark'.set /\ watermark'.ts = sofar /\ watermark'.first = sofar
    BY <2>1
  <2>3. RegistryTypes' /\ MessageRows'
    <3>1. watermark' \in [set : BOOLEAN, ts : Nat, first : Nat]
      BY <1>0, <2>1
    <3>2. watermark'.first <= watermark'.ts /\ watermark'.ts <= sofar'
      BY <1>0, <2>1, <2>2
    <3> QED
      BY <2>1, <3>1, <3>2 DEF RegistryInv, RegistryTypes, MessageRows
  <2>4. RowsUpTo(watermark.ts)'
    <3> SUFFICES ASSUME NEW m \in prefixed', m > sofar, m <= sofar PROVE FALSE
      BY <2>2 DEF RowsUpTo
    <3>1. m \in Nat
      BY <1>0, <2>1 DEF RegistryInv, RegistryTypes
    <3> QED
      BY <1>0, <3>1
  <2>5. \A p \in SlackPollers : fetch[p].pc = "idle"
    BY <2>1 DEF RegistryInv, PassIsTrue
  <2> QED
    BY <2>1, <2>3, <2>4, <2>5 DEF RegistryInv, PassIsTrue
<1> QED
  BY <1>1, <1>2, <1>3

\* A pass goes on to state r, and the rows stay.
LEMMA PassGoes ==
    ASSUME RegistryInv, NEW p \in SlackPollers, NEW r \in SlackPasses, PassIsTrue(r),
           fetch' = [fetch EXCEPT ![p] = r],
           UNCHANGED <<sofar, shaped, prefixed, watermark, decision, indexed, handler, confirmed>>
    PROVE  RegistryInv'
<1>1. /\ fetch' \in [SlackPollers -> SlackPasses] /\ fetch'[p] = r
      /\ \A q \in SlackPollers : q # p => fetch'[q] = fetch[q]
  BY DEF RegistryInv, RegistryTypes
<1>2. RegistryTypes' /\ MessageRows' /\ (watermark.set => RowsUpTo(watermark.ts))'
  BY <1>1 DEF RegistryInv, RegistryTypes, MessageRows, RowsUpTo
<1>3. \A q \in SlackPollers : PassIsTrue(fetch'[q])
  BY <1>1 DEF RegistryInv
<1>4. \A q \in SlackPollers : PassIsTrue(fetch[q])'
  BY <1>3 DEF PassIsTrue, RowsUpTo
<1> QED
  BY <1>2, <1>4 DEF RegistryInv

LEMMA PassStartsStep ==
    ASSUME RegistryInv, NEW p \in SlackPollers, PassStarts(p)
    PROVE  RegistryInv'
<1> DEFINE r == [NoPass EXCEPT !.pc = "fetch", !.cursor = watermark.ts, !.upto = sofar]
<1>1. /\ sofar \in Nat /\ watermark.ts \in Nat /\ watermark.ts <= sofar /\ watermark.set
      /\ watermark.first <= watermark.ts /\ RowsUpTo(watermark.ts)
  BY DEF PassStarts, RegistryInv, RegistryTypes
<1>2. /\ r \in SlackPasses /\ r.pc = "fetch" /\ r.cursor = watermark.ts /\ r.upto = sofar
      /\ r.batch = {}
  BY <1>1 DEF NoPass, SlackPasses
<1>3. fetch' = [fetch EXCEPT ![p] = r]
  BY DEF PassStarts
<1> HIDE DEF r
<1>4. PassIsTrue(r)
  BY <1>1, <1>2 DEF PassIsTrue
<1> QED
  BY <1>2, <1>3, <1>4, PassGoes DEF PassStarts

LEMMA PassFailsStep ==
    ASSUME RegistryInv, NEW p \in SlackPollers, PassFails(p)
    PROVE  RegistryInv'
<1>1. NoPass \in SlackPasses /\ PassIsTrue(NoPass)
  BY DEF NoPass, SlackPasses, PassIsTrue
<1> QED
  BY <1>1, PassGoes DEF PassFails

\* A page brings all there is between its ends.
LEMMA FetchPageStep ==
    ASSUME RegistryInv, NEW p \in SlackPollers, FetchPage(p)
    PROVE  RegistryInv'
<1>0. PICK q : q = fetch[p]
  OBVIOUS
<1>1. /\ q \in SlackPasses /\ PassIsTrue(q) /\ q.pc = "fetch" /\ q.cursor \in Nat /\ q.upto \in Nat
      /\ q.pages \in Nat /\ q.batch \subseteq [ts : Nat, shaped : BOOLEAN]
  BY <1>0 DEF FetchPage, RegistryInv, RegistryTypes, SlackPasses
<1> DEFINE page == [ts : Page(p) \cap shaped, shaped : {TRUE}] \union [ts : Page(p) \ shaped, shaped : {FALSE}]
           low == Less(q.upto, PageLimit)
<1>2. low \in Nat /\ low <= q.upto /\ Behind(q) \in Nat /\ Behind(q) <= q.cursor
  BY <1>1, MessagesAreNumbers, LessIs DEF Behind
<1>3. Page(p) = {m \in 1 .. q.upto : m > Behind(q) /\ m > low} /\ (MorePages(p) <=> low > Behind(q))
  BY <1>0 DEF Page, MorePages, Oldest, Behind
<1>4. PICK last \in BOOLEAN : last <=> (q.pages + 1 = MaxPages \/ ~MorePages(p))
  OBVIOUS
<1>5. fetch' = [fetch EXCEPT ![p] = fetch'[p]] /\ fetch'[p] \in SlackPasses /\ fetch'[p].pc = (IF last THEN "store" ELSE "fetch")
      /\ fetch'[p].cursor = q.cursor /\ fetch'[p].upto = low /\ fetch'[p].batch = q.batch \union page
      /\ (fetch'[p].truncated <=> last /\ MorePages(p))
  BY <1>0, <1>1, <1>2, <1>4 DEF FetchPage, RegistryInv, RegistryTypes, SlackPasses
<1>6. PICK r : r = fetch'[p]
  OBVIOUS
<1>7. /\ r \in SlackPasses /\ r.pc = (IF last THEN "store" ELSE "fetch") /\ r.pc # "idle"
      /\ r.cursor = q.cursor /\ r.upto = low /\ r.batch = q.batch \union page
      /\ (r.truncated <=> last /\ MorePages(p)) /\ Behind(r) = Behind(q)
  BY <1>5, <1>6 DEF Behind
<1>8. \A m : m \in Page(p) => m \in Nat /\ m \in 1 .. sofar /\ m <= q.upto
  BY <1>1, <1>3 DEF PassIsTrue, RegistryInv, RegistryTypes
<1>9. ASSUME NEW b \in page PROVE b.ts \in Page(p) /\ (b.shaped => b.ts \in shaped)
  OBVIOUS
<1>10. ASSUME NEW m, m \in Page(p), m \in shaped PROVE \E b \in page : b.ts = m /\ b.shaped
  <2>1. [ts |-> m, shaped |-> TRUE] \in page
    BY <1>10
  <2> QED
    BY <2>1
<1> HIDE DEF page, low
<1>11. ASSUME NEW m \in prefixed, NEW b \in r.batch, r.upto < m, m <= b.ts, m > Behind(r)
       PROVE  ToStore(r, m) \/ decision[m] # "none"
  <2>1. m \in shaped /\ m \in Nat
    BY PrefixedAreNumbers
  <2>2. CASE m <= q.upto
    <3>1. m \in Page(p)
      BY <1>2, <1>3, <1>7, <1>11, <2>1, <2>2
    <3> QED
      BY <1>7, <1>10, <2>1, <3>1 DEF ToStore
  <2>3. CASE q.upto < m
    <3>1. b \in q.batch
      <4>1. b \in page => b.ts \in Nat /\ b.ts <= q.upto
        BY <1>8, <1>9
      <4> QED
        BY <1>1, <1>7, <1>11, <2>1, <2>3, <4>1
    <3>2. ToStore(q, m) \/ decision[m] # "none"
      BY <1>1, <1>7, <1>11, <2>3, <3>1 DEF PassIsTrue
    <3> QED
      BY <1>7, <3>2 DEF ToStore
  <2> QED
    BY <1>1, <2>1, <2>2, <2>3
<1>12. \A b \in r.batch : b.ts \in 1 .. sofar /\ (b.shaped => b.ts \in shaped)
  BY <1>1, <1>7, <1>8, <1>9 DEF PassIsTrue
<1>13. /\ watermark.set /\ watermark.first <= r.cursor /\ r.cursor <= sofar /\ r.upto <= sofar
       /\ RowsUpTo(r.cursor)
  BY <1>1, <1>2, <1>7 DEF PassIsTrue, RegistryInv, RegistryTypes
<1>14. r.pc = "store" /\ ~r.truncated => r.upto <= Behind(r)
  BY <1>2, <1>3, <1>7
<1>15. PassIsTrue(r)
  BY <1>11, <1>12, <1>13, <1>14 DEF PassIsTrue
<1> QED
  BY <1>5, <1>6, <1>7, <1>15, PassGoes DEF FetchPage

\* Each candidate is stored before it leaves the batch.
LEMMA StoreCandidateStep ==
    ASSUME RegistryInv, NEW p \in SlackPollers, StoreCandidate(p)
    PROVE  RegistryInv' /\ \A x \in Refs : decision[x] = "dismissed" => decision'[x] = "dismissed"
<1>0. PICK q : q = fetch[p]
  OBVIOUS
<1>1. /\ q \in SlackPasses /\ PassIsTrue(q) /\ q.pc = "store"
      /\ q.batch \subseteq [ts : Nat, shaped : BOOLEAN] /\ sofar \in Nat
  BY <1>0 DEF StoreCandidate, RegistryInv, RegistryTypes, SlackPasses
<1> DEFINE newest == CHOOSE b \in CandidateOf(p) : \A c \in CandidateOf(p) : c.ts <= b.ts
<1>2. newest \in CandidateOf(p)
  <2> DEFINE S == {b.ts : b \in CandidateOf(p)}
  <2>1. S \subseteq 0 .. sofar /\ S # {}
    <3>1. \A b \in CandidateOf(p) : b.ts \in 1 .. sofar
      BY <1>0, <1>1 DEF PassIsTrue, CandidateOf
    <3>2. CandidateOf(p) # {}
      BY DEF StoreCandidate
    <3> QED
      BY <1>1, <3>1, <3>2
  <2>2. \E n \in S : \A k \in S : k <= n
    <3> HIDE DEF S
    <3> QED
      BY <1>1, <2>1, Greatest
  <2>3. \E b \in CandidateOf(p) : \A c \in CandidateOf(p) : c.ts <= b.ts
    BY <2>2
  <2> QED
    BY <2>3
<1>3. PICK b : b = newest
  OBVIOUS
<1>4. b \in q.batch /\ b.shaped /\ b.ts \in 1 .. sofar /\ b.ts \in shaped
  BY <1>0, <1>1, <1>2, <1>3 DEF CandidateOf, PassIsTrue
<1>5. b.ts \in Messages /\ b.ts \in Refs
  BY <1>1, <1>4, MessagesAreNumbers DEF RegistryInv, RegistryTypes
<1>6. /\ DecisionAdd(b.ts, "candidate")
      /\ fetch' = [fetch EXCEPT ![p].batch = (@ \ {b}) \union {[b EXCEPT !.shaped = FALSE]}]
      /\ UNCHANGED <<sofar, shaped, prefixed, watermark, handler, confirmed>>
  BY <1>3 DEF StoreCandidate
<1> HIDE DEF newest
<1>7. /\ decision' \in [Refs -> DecisionStatuses]
      /\ indexed' = {x \in Refs : decision'[x] = "active"}
      /\ \A x \in Refs : decision[x] # "none" => decision'[x] = decision[x]
      /\ \A x \in Refs : x # b.ts => decision'[x] = decision[x]
      /\ decision'[b.ts] \in {decision[b.ts], "candidate"} /\ decision'[b.ts] # "none"
  BY <1>5, <1>6, AddsDecision DEF RegistryInv
<1>8. RegistryTypes'
  <2>1. PICK c : c = [b EXCEPT !.shaped = FALSE]
    OBVIOUS
  <2>2. c \in [ts : Nat, shaped : BOOLEAN]
    BY <1>1, <1>4, <2>1
  <2>3. (q.batch \ {b}) \union {c} \in SUBSET [ts : Nat, shaped : BOOLEAN]
    BY <1>1, <2>2
  <2>4. fetch' \in [SlackPollers -> SlackPasses]
    BY <1>0, <1>6, <2>1, <2>3 DEF RegistryInv, RegistryTypes, SlackPasses
  <2> QED
    BY <1>6, <1>7, <2>4 DEF RegistryInv, RegistryTypes
<1>9. MessageRows'
  BY <1>4, <1>5, <1>6, <1>7, MessagesAreNumbers DEF RegistryInv, MessageRows
\* first the rows, and then the pass that stored one
<1>10. \A m \in Messages : decision[m] # "none" => decision'[m] # "none"
  BY <1>7, MessagesAreNumbers
<1>11. prefixed \subseteq Messages
  BY MessagesAreNumbers DEF RegistryInv, RegistryTypes
<1>12. \A n : RowsUpTo(n) => \A m \in prefixed : m > watermark.first /\ m <= n => decision'[m] # "none"
  BY <1>10, <1>11 DEF RowsUpTo
<1>13. (watermark.set => RowsUpTo(watermark.ts))'
  BY <1>6, <1>12 DEF RegistryInv, RowsUpTo
<1>14. ASSUME NEW r, r \in SlackPasses, PassIsTrue(r) PROVE PassIsTrue(r)'
  <2>1. CASE r.pc = "idle"
    BY <2>1 DEF PassIsTrue
  <2>2. CASE r.pc # "idle"
    <3>1. /\ watermark.set /\ watermark.first <= r.cursor /\ r.cursor <= sofar /\ r.upto <= sofar
          /\ \A x \in r.batch : x.ts \in 1 .. sofar /\ (x.shaped => x.ts \in shaped)
          /\ RowsUpTo(r.cursor)
          /\ r.pc = "store" /\ ~r.truncated => r.upto <= Behind(r)
      BY <1>14, <2>2 DEF PassIsTrue
    <3>2. \A m \in prefixed, x \in r.batch :
              r.upto < m /\ m <= x.ts /\ m > Behind(r) => ToStore(r, m) \/ decision'[m] # "none"
      BY <1>10, <1>11, <1>14, <2>2 DEF PassIsTrue
    <3>3. RowsUpTo(r.cursor)'
      BY <1>6, <1>12, <3>1 DEF RowsUpTo
    <3> QED
      BY <1>6, <3>1, <3>2, <3>3 DEF PassIsTrue, ToStore, Behind
  <2> QED
    BY <2>1, <2>2
<1>15. PICK r : r = fetch'[p]
  OBVIOUS
<1>16. PICK c : c = [b EXCEPT !.shaped = FALSE]
  OBVIOUS
<1>17. /\ r.batch = (q.batch \ {b}) \union {c} /\ r.pc = q.pc /\ r.cursor = q.cursor /\ r.upto = q.upto
       /\ r.truncated = q.truncated /\ c.ts = b.ts /\ ~c.shaped
  BY <1>0, <1>1, <1>4, <1>6, <1>15, <1>16 DEF RegistryInv, RegistryTypes, SlackPasses
<1>18. PassIsTrue(r)'
  <2>1. /\ watermark.set /\ watermark.first <= r.cursor /\ r.cursor <= sofar /\ r.upto <= sofar
        /\ r.pc = "store" /\ ~r.truncated => r.upto <= Behind(r)
    BY <1>1, <1>17 DEF PassIsTrue, Behind
  <2>2. \A x \in r.batch : x.ts \in 1 .. sofar /\ (x.shaped => x.ts \in shaped)
    BY <1>1, <1>4, <1>17 DEF PassIsTrue
  <2>3. RowsUpTo(r.cursor)'
    BY <1>1, <1>6, <1>12, <1>17 DEF PassIsTrue, RowsUpTo
  <2>4. ASSUME NEW m \in prefixed, NEW x \in r.batch, r.upto < m, m <= x.ts, m > Behind(r)
        PROVE  ToStore(r, m) \/ decision'[m] # "none"
    <3>1. \E y \in q.batch : y.ts = x.ts
      BY <1>4, <1>17, <2>4
    <3>2. ToStore(q, m) \/ decision[m] # "none"
      BY <1>1, <1>17, <2>4, <3>1 DEF PassIsTrue, Behind
    <3>3. CASE decision[m] # "none"
      BY <1>10, <1>11, <3>3
    <3>4. CASE ToStore(q, m)
      <4>1. PICK y \in q.batch : y.ts = m /\ y.shaped
        BY <3>4 DEF ToStore
      <4>2. CASE y = b
        BY <1>7, <4>1, <4>2
      <4>3. CASE y # b
        BY <1>17, <4>1, <4>3 DEF ToStore
      <4> QED
        BY <4>2, <4>3
    <3> QED
      BY <3>2, <3>3, <3>4
  <2> QED
    BY <1>1, <1>6, <1>17, <2>1, <2>2, <2>3, <2>4 DEF PassIsTrue, Behind, ToStore
<1>19. ASSUME NEW s \in SlackPollers PROVE PassIsTrue(fetch[s])'
  <2>1. CASE s = p
    BY <1>15, <1>18, <2>1 DEF PassIsTrue, RowsUpTo
  <2>2. CASE s # p
    <3>1. PICK t : t = fetch[s]
      OBVIOUS
    <3>2. t \in SlackPasses /\ PassIsTrue(t) /\ fetch'[s] = t
      BY <1>6, <2>2, <3>1 DEF RegistryInv, RegistryTypes
    <3>3. PassIsTrue(t)'
      BY <1>14, <3>2
    <3> QED
      BY <3>2, <3>3 DEF PassIsTrue, RowsUpTo
  <2> QED
    BY <2>1, <2>2
<1> QED
  BY <1>7, <1>8, <1>9, <1>13, <1>19 DEF RegistryInv

\* The watermark moves past what has its row.
LEMMA PassEndsStep ==
    ASSUME RegistryInv, NEW p \in SlackPollers, PassEnds(p)
    PROVE  RegistryInv'
<1>0. PICK q : q = fetch[p]
  OBVIOUS
<1>1. /\ q \in SlackPasses /\ PassIsTrue(q) /\ q.pc = "store" /\ q.cursor \in Nat /\ q.upto \in Nat
      /\ q.batch \subseteq [ts : Nat, shaped : BOOLEAN] /\ sofar \in Nat
      /\ \A b \in q.batch : ~b.shaped
  BY <1>0 DEF PassEnds, CandidateOf, RegistryInv, RegistryTypes, SlackPasses
<1>2. /\ fetch' = [fetch EXCEPT ![p] = NoPass]
      /\ UNCHANGED <<sofar, shaped, prefixed, decision, indexed, handler, confirmed>>
  BY DEF PassEnds
<1>3. NoPass \in SlackPasses /\ PassIsTrue(NoPass)
  BY DEF NoPass, SlackPasses, PassIsTrue
<1>4. CASE UNCHANGED watermark
  BY <1>2, <1>3, <1>4, PassGoes
<1>5. CASE ~UNCHANGED watermark
  <2> DEFINE S == {b.ts : b \in q.batch} \union {q.cursor}
  <2>1. S \subseteq 0 .. sofar /\ S # {}
    <3>1. \A b \in q.batch : b.ts \in 1 .. sofar
      BY <1>1 DEF PassIsTrue
    <3>2. q.cursor \in 0 .. sofar
      BY <1>1 DEF PassIsTrue
    <3> QED
      BY <1>1, <3>1, <3>2
  <2>2. \E n \in S : \A k \in S : n >= k
    <3>1. \E n \in S : \A k \in S : k <= n
      <4> HIDE DEF S
      <4> QED
        BY <1>1, <2>1, Greatest
    <3>2. \A n, k \in S : k <= n => n >= k
      BY <1>1, <2>1
    <3> QED
      BY <3>1, <3>2
  <2>3. NewestOf(p) = (CHOOSE x \in S : \A y \in S : x >= y)
    BY <1>0 DEF NewestOf, Max
  <2>4. NewestOf(p) \in S
    BY <2>2, <2>3
  <2>5. PICK n : n = NewestOf(p)
    OBVIOUS
  <2>6. ~q.truncated /\ n > q.cursor /\ watermark' = [watermark EXCEPT !.ts = n]
    BY <1>0, <1>5, <2>5 DEF PassEnds, Advances
  <2>7. n \in Nat /\ n <= sofar
    BY <1>1, <2>1, <2>4, <2>5
  <2>8. PICK b \in q.batch : b.ts = n
    BY <1>1, <2>4, <2>5, <2>6
  <2>9. watermark.set /\ watermark.first \in Nat /\ watermark.first <= q.cursor
        /\ watermark \in [set : BOOLEAN, ts : Nat, first : Nat]
    BY <1>1 DEF PassIsTrue, RegistryInv, RegistryTypes
  <2>10. /\ watermark'.set /\ watermark'.ts = n /\ watermark'.first = watermark.first
         /\ watermark' \in [set : BOOLEAN, ts : Nat, first : Nat]
    BY <2>6, <2>7, <2>9
  <2>11. RegistryTypes'
    <3>1. fetch' \in [SlackPollers -> SlackPasses]
      BY <1>2, <1>3 DEF RegistryInv, RegistryTypes
    <3>2. watermark'.first <= watermark'.ts
      BY <1>1, <2>6, <2>7, <2>9, <2>10
    <3> QED
      BY <1>2, <2>7, <2>10, <3>1, <3>2 DEF RegistryInv, RegistryTypes
  <2>12. ASSUME NEW m \in prefixed, m > watermark.first, m <= n PROVE decision[m] # "none"
    <3>1. m \in Nat
      BY PrefixedAreNumbers
    <3>2. CASE m <= q.cursor
      BY <1>1, <2>12, <3>2 DEF PassIsTrue, RowsUpTo
    <3>3. CASE q.cursor < m
      <4>1. q.upto <= Behind(q) /\ Behind(q) \in Nat /\ Behind(q) <= q.cursor
        BY <1>1, <2>6, MessagesAreNumbers, LessIs DEF PassIsTrue, Behind
      <4>2. ToStore(q, m) \/ decision[m] # "none"
        BY <1>1, <2>8, <2>12, <3>1, <3>3, <4>1 DEF PassIsTrue
      <4> QED
        BY <1>1, <4>2 DEF ToStore
    <3> QED
      BY <1>1, <3>1, <3>2, <3>3
  <2>13. RowsUpTo(watermark.ts)'
    BY <1>2, <2>10, <2>12 DEF RowsUpTo
  <2>14. ASSUME NEW s \in SlackPollers PROVE PassIsTrue(fetch[s])'
    <3>1. CASE s = p
      <4>1. fetch'[s].pc = "idle"
        BY <1>2, <3>1 DEF NoPass, RegistryInv, RegistryTypes
      <4> QED
        BY <4>1 DEF PassIsTrue
    <3>2. CASE s # p
      <4>1. PassIsTrue(fetch[s]) /\ fetch'[s] = fetch[s]
        BY <1>2, <3>2 DEF RegistryInv, RegistryTypes
      <4> QED
        BY <1>2, <2>9, <2>10, <4>1 DEF PassIsTrue, RowsUpTo, ToStore, Behind
    <3> QED
      BY <3>1, <3>2
  <2> QED
    BY <1>2, <2>11, <2>13, <2>14 DEF RegistryInv, MessageRows
<1> QED
  BY <1>4, <1>5

LEMMA RegistryStep ==
    ASSUME RegistryInv, [RegistryNext]_registryVars
    PROVE  RegistryInv' /\ \A r \in Refs : decision[r] = "dismissed" => decision'[r] = "dismissed"
<1>1. CASE UNCHANGED registryVars
  <2>1. UNCHANGED <<sofar, shaped, prefixed, watermark, decision, indexed, fetch, handler, confirmed>>
    BY <1>1 DEF registryVars
  <2>2. RegistryTypes' /\ MessageRows'
    BY <2>1 DEF RegistryInv, RegistryTypes, MessageRows
  <2>3. sofar \in Nat
    BY DEF RegistryInv, RegistryTypes
  <2> QED
    BY <2>1, <2>2, <2>3, RowsStay
<1>2. CASE Posts \/ Allowlists \/ \E m \in Messages : Reacts(m)
  BY <1>2, ChannelSteps
<1>3. CASE \E r \in Refs : Registers(r) \/ \E h \in Handlers, a \in DOMAIN Transitions : HandlerReads(h, r, a)
  <2>1. ASSUME NEW r \in Refs, NEW h \in Handlers, NEW a \in DOMAIN Transitions, HandlerReads(h, r, a)
        PROVE  RegistryInv' /\ UNCHANGED decision
    BY <2>1, HandlerReadsStep DEF HandlerReads
  <2> QED
    BY <1>3, <2>1, RegistersStep
<1>4. CASE \E h \in Handlers : HandlerWrites(h)
  BY <1>4, HandlerWritesStep
<1>5. ASSUME NEW p \in SlackPollers, Pass(p) \/ PassFails(p)
      PROVE  RegistryInv' /\ \A r \in Refs : decision[r] = "dismissed" => decision'[r] = "dismissed"
  <2>1. CASE PassStarts(p)
    BY <2>1, PassStartsStep DEF PassStarts
  <2>2. CASE FetchPage(p)
    BY <2>2, FetchPageStep DEF FetchPage
  <2>3. CASE StoreCandidate(p)
    BY <2>3, StoreCandidateStep
  <2>4. CASE PassEnds(p)
    BY <2>4, PassEndsStep DEF PassEnds
  <2>5. CASE PassFails(p)
    BY <2>5, PassFailsStep DEF PassFails
  <2> QED
    BY <1>5, <2>1, <2>2, <2>3, <2>4, <2>5 DEF Pass
<1> QED
  BY <1>1, <1>2, <1>3, <1>4, <1>5 DEF RegistryNext

\* THEOREM.  However many processes poll the channel and people handle requests,
\* whatever the page, the overlap and the bound of a pass, and wherever a pass
\* fails: the index holds the decisions that are in force, from the channel only
\* those a person confirmed; a dismissed one stays dismissed; and the watermark
\* moves past no message that was shaped like a decision when it was written
\* and has no row (worker._slack_ingest_channel, db.decision_add, decision_set_status).
THEOREM RegistryStaysTrue == RegistrySpec => RegistryIsTrue
<1>1. RegistryInit => RegistryInv
  BY RegistryInitOK
<1>2. RegistryInv /\ [RegistryNext]_registryVars => RegistryInv'
  BY RegistryStep
<1>3. RegistryInv /\ [RegistryNext]_registryVars =>
          [\A r \in Refs : decision[r] = "dismissed" => decision'[r] = "dismissed"]_registryVars
  BY RegistryStep
<1>4. RegistryInv => IndexIsInForce /\ NothingSkipped
  <2> SUFFICES ASSUME RegistryInv PROVE IndexIsInForce /\ NothingSkipped
    OBVIOUS
  <2>1. IndexIsInForce
    BY DEF RegistryInv, RegistryTypes, MessageRows, IndexIsInForce
  <2>2. NothingSkipped
    BY DEF RegistryInv, RowsUpTo, NothingSkipped
  <2> QED
    BY <2>1, <2>2
<1> QED
  BY <1>1, <1>2, <1>3, <1>4, PTL DEF RegistrySpec, RegistryIsTrue, DismissedStays

\* THEOREM.  A message has a row only if it is shaped like a decision, and the
\* watermark is at most the newest message (JobStore.decision_add,
\* Worker._slack_ingest_channel).
THEOREM RegistryTypesHold == RegistrySpec => []RegistryTypeOK
<1>1. RegistryInv => RegistryTypeOK
  <2> SUFFICES ASSUME RegistryInv PROVE RegistryTypeOK
    OBVIOUS
  <2>1. shaped \subseteq 1 .. sofar /\ sofar \in Nat
    BY DEF RegistryInv, RegistryTypes
  <2>2. ASSUME NEW m \in Messages, decision[m] # "none" PROVE m \in shaped /\ m <= sofar
    <3>1. m \in shaped
      BY <2>2 DEF RegistryInv, MessageRows, RegistryTypes
    <3> QED
      BY <2>1, <3>1
  <2> QED
    BY <2>2 DEF RegistryInv, RegistryTypes, RegistryTypeOK
<1> QED
  BY <1>1, RegistryInitOK, RegistryStep, PTL DEF RegistrySpec

-----------------------------------------------------------------------------
(* VerbScan: a comment takes effect once.                                   *)

PollPlaces == {"idle", "ticket", "subtask", "onTicket", "onSubtask", "nudged", "handled"}
Polls == [pc : PollPlaces, gate : Gates \union {0}, marker : Nat, end : Nat, next : Nat, marked : BOOLEAN]
Says(c, stream) == c \in 1 .. Len(comments) /\ comments[c].stream = stream

ScanTypes ==
    /\ gate \in Gates \union {0} /\ (waits => gate # 0)
    /\ posted \in [Gates -> Nat] /\ (\A h \in Gates : posted[h] <= Len(comments))
    /\ comments \in Seq(Texts) /\ Len(comments) <= MaxComments
    /\ marker \in Nat /\ (marker # 0 => Says(marker, "ticket"))
    /\ refusals \subseteq 1 .. Len(comments)
    /\ replies \in [Numbers -> Nat] /\ deaths \in Nat
    /\ applied \subseteq (1 .. Len(comments)) \X Gates
    /\ poll \in [Pollers -> Polls]

\* A poll holds a row of a gate that was posted, and reads comments there are.
Reading == {"onTicket", "onSubtask"}
Real(r) ==
    r.pc # "idle" =>
        /\ r.gate \in Gates /\ r.gate <= gate /\ r.end <= Len(comments)
        /\ r.marker # 0 => Says(r.marker, "ticket")
        /\ r.pc \in Reading => r.next >= 1
        /\ r.pc \in {"nudged", "handled"} => r.next \in 1 .. Len(comments)
        /\ r.pc \in {"nudged", "handled"} /\ r.marked => Says(r.next, "ticket")
        /\ r.marked => r.pc \in {"onTicket", "subtask", "nudged", "handled"}

\* A refusal is sent for what was stored just before.
RefusedIsStored == \A c \in Numbers : replies[c] <= 1 /\ (c \notin refusals => replies[c] = 0)

ScanInv == ScanTypes /\ (\A p \in Pollers : Real(poll[p])) /\ RefusedIsStored

\* What was applied was applied to a gate there is, came from its owner, and
\* answered nothing else.
Heeded(y) == comments[y[1]].author = "owner" /\ y[2] <= gate
AppliedOnce == \A x, y \in applied : x[1] = y[1] => x = y

\* What was applied so far lies before number n, or before n on the ticket.
AllBelow(n) == \A y \in applied : y[1] < n
TicketBelow(n) == \A y \in applied : comments[y[1]].stream = "ticket" => y[1] < n

\* An open gate was posted, and marked where a marker could be set, after the
\* verbs that were applied.
GateIsNewer == waits => AllBelow(posted[gate] + 1) /\ (marker # 0 => TicketBelow(marker + 1))

\* The one poll holds a row that is newer than the verbs that were applied, and
\* reads on behind them; when it has handled one, it marks no older one.
Newer(r) ==
    /\ r.pc \notin {"idle", "handled"} => AllBelow(posted[r.gate] + 1)
    /\ r.pc = "ticket" /\ r.marker # 0 => TicketBelow(r.marker + 1)
    /\ r.pc \in {"onTicket", "nudged"} => TicketBelow(r.next)
    /\ r.pc = "onSubtask" => AllBelow(r.next)
    /\ r.pc = "handled" /\ r.marked => TicketBelow(r.next + 1)

VerbInv ==
    /\ ScanInv /\ (\A y \in applied : Heeded(y)) /\ AppliedOnce
    /\ GateIsNewer /\ \A p \in Pollers : Newer(poll[p])

-----------------------------------------------------------------------------

LEMMA GatesAreNumbers == Gates \subseteq Nat /\ \A h \in Gates : h >= 1
<1>1. Cardinality(Gates) \in Nat /\ Gates = 1 .. Cardinality(Gates)
  BY ScanAssumption, FS_CardinalityType DEF ScanAssumption
<1> QED
  BY <1>1

LEMMA ScanInitOK == ScanInit => ScanInv
<1> SUFFICES ASSUME ScanInit PROVE ScanInv
  OBVIOUS
<1>1. NoPoll \in Polls /\ NoPoll.pc = "idle"
  BY DEF NoPoll, Polls, PollPlaces
<1>2. comments = <<>> /\ comments \in Seq(Texts) /\ Len(comments) = 0
  BY DEF ScanInit
<1>3. MaxComments \in Nat /\ ScanLimit \in Nat
  BY ScanAssumption DEF ScanAssumption
<1>4. ScanTypes
  BY <1>1, <1>2, <1>3 DEF ScanInit, ScanTypes
<1>5. \A p \in Pollers : Real(poll[p])
  BY <1>1 DEF ScanInit, Real
<1>6. RefusedIsStored
  BY DEF ScanInit, RefusedIsStored
<1> QED
  BY <1>4, <1>5, <1>6 DEF ScanInv

\* A poll that goes on to state r.
LEMMA PollGoes ==
    ASSUME ScanInv, NEW p \in Pollers, NEW r \in Polls, Real(r),
           poll' = [poll EXCEPT ![p] = r], UNCHANGED <<gate, comments>>
    PROVE  /\ poll' \in [Pollers -> Polls] /\ poll'[p] = r
           /\ \A q \in Pollers : q # p => poll'[q] = poll[q]
           /\ \A q \in Pollers : Real(poll[q])'
<1>1. /\ poll' \in [Pollers -> Polls] /\ poll'[p] = r
      /\ \A q \in Pollers : q # p => poll'[q] = poll[q]
  BY DEF ScanInv, ScanTypes
<1>2. ASSUME NEW q \in Pollers PROVE Real(poll[q])'
  <2>1. CASE q = p
    BY <1>1, <2>1 DEF Real, Says
  <2>2. CASE q # p
    BY <1>1, <2>2 DEF ScanInv, Real, Says
  <2> QED
    BY <2>1, <2>2
<1> QED
  BY <1>1, <1>2

\* A poll that goes on and leaves the rest, or all but the marker, alone.
LEMMA OnlyPoll ==
    ASSUME ScanInv, NEW p \in Pollers, NEW r \in Polls, Real(r),
           poll' = [poll EXCEPT ![p] = r],
           UNCHANGED <<gate, waits, posted, comments, refusals, replies, applied>>,
           deaths' \in Nat, marker' = marker \/ Says(marker', "ticket")
    PROVE  ScanInv'
<1>1. poll' \in [Pollers -> Polls] /\ \A q \in Pollers : Real(poll[q])'
  BY PollGoes
<1>2. marker' \in Nat /\ (marker' # 0 => Says(marker, "ticket")')
  <2>1. Len(comments) \in Nat
    BY DEF ScanInv, ScanTypes
  <2> QED
    BY <2>1 DEF ScanInv, ScanTypes, Says
<1>3. ScanTypes'
  BY <1>1, <1>2 DEF ScanInv, ScanTypes
<1> QED
  BY <1>1, <1>3 DEF ScanInv, RefusedIsStored

LEMMA PollIs ==
    ASSUME ScanInv, NEW p \in Pollers
    PROVE  poll[p] \in Polls /\ Real(poll[p])
BY DEF ScanInv, ScanTypes

\* What is read is a comment of the stream that is read.
LEMMA ReadsOne ==
    ASSUME ScanInv, NEW p \in Pollers, poll[p].pc \in Reading, poll[p].next <= poll[p].end
    PROVE  /\ poll[p].next \in 1 .. Len(comments) /\ poll[p].next \in Numbers
           /\ At(p) \in Texts /\ poll[p].pc # "idle"
           /\ Reads(p) => Says(poll[p].next, StreamOf(p)) /\ (poll[p].marked => StreamOf(p) = "ticket")
<1>1. poll[p] \in Polls /\ Real(poll[p]) /\ poll[p].pc # "idle"
  BY PollIs DEF Reading
<1>2. Len(comments) \in Nat /\ Len(comments) <= MaxComments /\ MaxComments \in Nat /\ comments \in Seq(Texts)
  BY ScanAssumption DEF ScanAssumption, ScanInv, ScanTypes
<1>3. poll[p].next \in Nat /\ poll[p].end \in Nat /\ poll[p].next >= 1 /\ poll[p].end <= Len(comments)
  BY <1>1 DEF Polls, Real
<1>4. poll[p].next \in 1 .. Len(comments) /\ poll[p].next \in Numbers
  BY <1>2, <1>3 DEF Numbers
<1>5. At(p) \in Texts
  BY <1>2, <1>4 DEF At
<1> QED
  BY <1>1, <1>4, <1>5 DEF Reads, Says, At, StreamOf, Real, Reading

\* The ways in which the state of a poll changes.
SamePoll(r, q) == r.gate = q.gate /\ r.marker = q.marker /\ r.end = q.end
LEMMA PollFields ==
    ASSUME NEW q \in Polls, NEW c \in PollPlaces, NEW n \in Nat
    PROVE  /\ LET r == [q EXCEPT !.pc = c] IN
                r \in Polls /\ SamePoll(r, q) /\ r.pc = c /\ r.next = q.next /\ r.marked = q.marked
           /\ LET r == [q EXCEPT !.next = n] IN
                r \in Polls /\ SamePoll(r, q) /\ r.pc = q.pc /\ r.next = n /\ r.marked = q.marked
<1>1. LET r == [q EXCEPT !.pc = c] IN
        r \in Polls /\ SamePoll(r, q) /\ r.pc = c /\ r.next = q.next /\ r.marked = q.marked
  BY DEF Polls, SamePoll
<1>2. LET r == [q EXCEPT !.next = n] IN
        r \in Polls /\ SamePoll(r, q) /\ r.pc = q.pc /\ r.next = n /\ r.marked = q.marked
  BY DEF Polls, SamePoll
<1> QED
  BY <1>1, <1>2

LEMMA NoPollIs == NoPoll \in Polls /\ NoPoll.pc = "idle" /\ Real(NoPoll)
BY DEF NoPoll, Polls, PollPlaces, Real

\* Where a poll stands after a step of it.
Becomes(p, r) == r \in Polls /\ Real(r) /\ poll' = [poll EXCEPT ![p] = r]
ReadOn(p, r) ==
    /\ SamePoll(r, poll[p]) /\ r.pc = poll[p].pc
    /\ r.next = poll[p].next + 1 /\ r.marked = poll[p].marked
StaysAt(p, r, place) ==
    /\ SamePoll(r, poll[p]) /\ r.pc = place
    /\ r.next = poll[p].next /\ r.marked = poll[p].marked

LEMMA EndBecomes ==
    ASSUME NEW p \in Pollers, EndsPoll(p)
    PROVE  Becomes(p, NoPoll)
BY NoPollIs DEF EndsPoll, Becomes

LEMMA MoveBecomes ==
    ASSUME ScanInv, NEW p \in Pollers, poll[p].pc \in Reading, Moves(p)
    PROVE  \E r : Becomes(p, r) /\ ReadOn(p, r)
<1> DEFINE r == [poll[p] EXCEPT !.next = poll[p].next + 1]
<1>1. poll[p] \in Polls /\ Real(poll[p]) /\ poll[p].next \in Nat /\ poll[p].pc \in PollPlaces
  BY PollIs DEF Polls
<1>2. poll[p].next + 1 \in Nat
  BY <1>1
<1>3. /\ r \in Polls /\ SamePoll(r, poll[p]) /\ r.pc = poll[p].pc /\ r.next = poll[p].next + 1
      /\ r.marked = poll[p].marked
  BY <1>1, <1>2, PollFields
<1>4. poll' = [poll EXCEPT ![p] = r]
  BY DEF Moves
<1> HIDE DEF r
<1>5. Real(r)
  BY <1>1, <1>3 DEF Real, SamePoll, Reading
<1> QED
  BY <1>3, <1>4, <1>5 DEF Becomes, ReadOn

LEMMA HandledBecomes ==
    ASSUME ScanInv, NEW p \in Pollers, Reads(p), NEW c \in {"handled", "nudged"},
           poll' = [poll EXCEPT ![p].pc = c]
    PROVE  \E r : Becomes(p, r) /\ StaysAt(p, r, c)
<1> DEFINE r == [poll[p] EXCEPT !.pc = c]
<1>1. poll[p] \in Polls /\ Real(poll[p]) /\ poll[p].next \in Nat /\ c \in PollPlaces
  BY PollIs DEF Polls, PollPlaces
<1>2. /\ r \in Polls /\ SamePoll(r, poll[p]) /\ r.pc = c /\ r.next = poll[p].next
      /\ r.marked = poll[p].marked
  BY <1>1, PollFields
<1>3. poll' = [poll EXCEPT ![p] = r]
  OBVIOUS
<1>4. poll[p].next \in 1 .. Len(comments) /\ (poll[p].marked => Says(poll[p].next, "ticket"))
      /\ poll[p].pc # "idle"
  BY ReadsOne DEF Reads, Reading
<1> HIDE DEF r
<1>5. Real(r)
  BY <1>1, <1>2, <1>4 DEF Real, SamePoll, Reading
<1> QED
  BY <1>2, <1>3, <1>5 DEF Becomes, StaysAt

LEMMA StartBecomes ==
    ASSUME ScanInv, NEW p \in Pollers, StartPoll(p)
    PROVE  \E r : /\ Becomes(p, r) /\ r.pc = "ticket" /\ r.gate = gate /\ r.marker = marker
<1> DEFINE r == [NoPoll EXCEPT !.pc = "ticket", !.gate = gate, !.marker = marker]
<1>1. gate \in Gates /\ marker \in Nat /\ (marker # 0 => Says(marker, "ticket")) /\ Len(comments) \in Nat
  BY DEF ScanInv, ScanTypes, StartPoll
<1>2. r \in Polls /\ r.pc = "ticket" /\ r.gate = gate /\ r.marker = marker /\ r.end = 0 /\ ~r.marked
  BY <1>1 DEF NoPoll, Polls, PollPlaces
<1>3. poll' = [poll EXCEPT ![p] = r]
  BY DEF StartPoll
<1> HIDE DEF r
<1>5. Real(r)
  BY <1>1, <1>2, GatesAreNumbers DEF Real, Reading
<1> QED
  BY <1>2, <1>3, <1>5 DEF Becomes

LEMMA ArriveBecomes ==
    ASSUME ScanInv, NEW p \in Pollers, CommentsArrive(p)
    PROVE  \E r : /\ Becomes(p, r) /\ r.gate = poll[p].gate /\ r.marker = poll[p].marker
                  /\ r.next = Begins(p) /\ r.marked = Marked(p)
                  /\ r.pc = (IF poll[p].pc = "ticket" THEN "onTicket" ELSE "onSubtask")
<1> DEFINE r == [poll[p] EXCEPT !.pc = Scanned(p), !.next = Begins(p), !.end = Len(comments), !.marked = Marked(p)]
<1>1. /\ poll[p] \in Polls /\ Real(poll[p]) /\ poll[p].pc \in {"ticket", "subtask"}
      /\ Len(comments) \in Nat /\ poll[p].gate \in Gates /\ poll[p].gate <= gate /\ poll[p].marker \in Nat
  BY PollIs DEF CommentsArrive, Streams, Real, Polls, ScanInv, ScanTypes
<1>2. posted[poll[p].gate] \in Nat
  BY <1>1 DEF ScanInv, ScanTypes
<1>3. Begins(p) \in Nat /\ Begins(p) >= 1
  BY <1>1, <1>2 DEF Begins
<1>4. Scanned(p) = (IF poll[p].pc = "ticket" THEN "onTicket" ELSE "onSubtask") /\ Scanned(p) \in PollPlaces
  BY DEF Scanned, PollPlaces
<1>5. Marked(p) \in BOOLEAN /\ (Marked(p) => poll[p].pc = "ticket")
  BY DEF Marked
<1>6. poll' = [poll EXCEPT ![p] = r]
  BY DEF CommentsArrive
<1>8. /\ r \in Polls /\ r.gate = poll[p].gate /\ r.marker = poll[p].marker
      /\ r.pc = Scanned(p) /\ r.next = Begins(p) /\ r.end = Len(comments) /\ r.marked = Marked(p)
  BY <1>1, <1>3, <1>4, <1>5 DEF Polls
<1> HIDE DEF r
<1>9. Real(r)
  BY <1>1, <1>3, <1>4, <1>5, <1>8 DEF Real, Reading
<1> QED
  BY <1>4, <1>6, <1>8, <1>9 DEF Becomes

LEMMA NudgedBecomes ==
    ASSUME ScanInv, NEW p \in Pollers, NudgeSent(p)
    PROVE  \E r : /\ Becomes(p, r) /\ SamePoll(r, poll[p]) /\ r.pc = "onTicket"
                  /\ r.next = poll[p].next + 1 /\ r.marked = poll[p].marked
<1> DEFINE r == [poll[p] EXCEPT !.pc = "onTicket", !.next = poll[p].next + 1]
<1>1. poll[p] \in Polls /\ Real(poll[p]) /\ poll[p].next \in Nat /\ "onTicket" \in PollPlaces
  BY PollIs DEF Polls, PollPlaces
<1>2. poll[p].next + 1 \in Nat
  BY <1>1
<1>3. /\ r \in Polls /\ SamePoll(r, poll[p]) /\ r.pc = "onTicket" /\ r.next = poll[p].next + 1
      /\ r.marked = poll[p].marked
  BY <1>1, <1>2 DEF Polls, SamePoll
<1>4. poll' = [poll EXCEPT ![p] = r]
  BY DEF NudgeSent
<1> HIDE DEF r
<1>5. Real(r)
  BY <1>1, <1>3 DEF Real, SamePoll, Reading, NudgeSent
<1> QED
  BY <1>3, <1>4, <1>5 DEF Becomes

LEMMA NoMoreBecomes ==
    ASSUME ScanInv, NEW p \in Pollers, NoMoreComments(p)
    PROVE  \/ Becomes(p, NoPoll)
           \/ \E r : Becomes(p, r) /\ StaysAt(p, r, "subtask") /\ poll[p].pc = "onTicket"
<1>1. CASE poll[p].pc = "onTicket"
  <2> DEFINE r == [poll[p] EXCEPT !.pc = "subtask"]
  <2>1. poll[p] \in Polls /\ Real(poll[p]) /\ poll[p].next \in Nat /\ "subtask" \in PollPlaces
    BY PollIs DEF Polls, PollPlaces
  <2>2. /\ r \in Polls /\ SamePoll(r, poll[p]) /\ r.pc = "subtask" /\ r.next = poll[p].next
        /\ r.marked = poll[p].marked
    BY <2>1, PollFields
  <2>3. poll' = [poll EXCEPT ![p] = r]
    BY <1>1 DEF NoMoreComments
  <2> HIDE DEF r
  <2>4. Real(r)
    BY <1>1, <2>1, <2>2 DEF Real, SamePoll, Reading
  <2> QED
    BY <1>1, <2>2, <2>3, <2>4 DEF Becomes, StaysAt
<1>2. CASE poll[p].pc # "onTicket"
  BY <1>2, EndBecomes DEF NoMoreComments
<1> QED
  BY <1>1, <1>2

-----------------------------------------------------------------------------

\* A comment that is written leaves the others as they are.
LEMMA Written ==
    ASSUME ScanInv, Write
    PROVE  /\ comments' \in Seq(Texts) /\ Len(comments') = Len(comments) + 1 /\ Len(comments) \in Nat
           /\ Len(comments') <= MaxComments
           /\ \A c \in 1 .. Len(comments) : c \in 1 .. Len(comments') /\ comments'[c] = comments[c]
<1>1. comments \in Seq(Texts) /\ Len(comments) \in Nat /\ MaxComments \in Nat /\ Len(comments) < MaxComments
  BY ScanAssumption DEF ScanAssumption, ScanInv, ScanTypes, Write
<1>2. PICK text \in Texts : comments' = Append(comments, text)
  BY DEF Write
<1> QED
  BY <1>1, <1>2

LEMMA WriteStep ==
    ASSUME ScanInv, Write
    PROVE  ScanInv'
<1>1. UNCHANGED <<gate, waits, posted, marker, refusals, replies, applied, poll, deaths>>
  BY DEF Write
<1>2. /\ comments' \in Seq(Texts) /\ Len(comments') = Len(comments) + 1 /\ Len(comments) \in Nat
      /\ Len(comments') <= MaxComments
      /\ \A c \in 1 .. Len(comments) : c \in 1 .. Len(comments') /\ comments'[c] = comments[c]
  BY Written
<1>3. \A c : Says(c, "ticket") => Says(c, "ticket")'
  BY <1>2 DEF Says
<1>4. ScanTypes'
  <2>1. /\ posted' \in [Gates -> Nat] /\ (\A h \in Gates : posted'[h] <= Len(comments'))
    BY <1>1, <1>2 DEF ScanInv, ScanTypes
  <2>2. refusals' \subseteq 1 .. Len(comments') /\ applied' \subseteq (1 .. Len(comments')) \X Gates
    BY <1>1, <1>2 DEF ScanInv, ScanTypes
  <2> QED
    BY <1>1, <1>2, <1>3, <2>1, <2>2 DEF ScanInv, ScanTypes
<1>5. ASSUME NEW p \in Pollers PROVE Real(poll[p])'
  <2>1. poll[p] \in Polls /\ Real(poll[p])
    BY PollIs
  <2>2. poll[p].end \in Nat
    BY <2>1 DEF Polls
  <2> QED
    BY <1>1, <1>2, <1>3, <2>1, <2>2 DEF Real
<1> QED
  BY <1>1, <1>4, <1>5 DEF ScanInv, RefusedIsStored

\* The last comment on the ticket is the last one.
LEMMA LastIsLast ==
    ASSUME ScanInv
    PROVE  LET n == Len(comments)
               m == LastOnTicket(n)
           IN  /\ m \in Nat /\ (m # 0 => Says(m, "ticket"))
               /\ \A c \in 1 .. n : comments[c].stream = "ticket" => c <= m
<1> DEFINE n == Len(comments)
<1>1. n \in Nat
  BY DEF ScanInv, ScanTypes
<1>2. CASE OnTicket(n) = {}
  BY <1>1, <1>2 DEF LastOnTicket, OnTicket
<1>3. CASE OnTicket(n) # {}
  <2>1. OnTicket(n) \subseteq 0 .. n
    BY <1>1 DEF OnTicket
  <2>2. \E c \in OnTicket(n) : \A d \in OnTicket(n) : d <= c
    BY <1>1, <1>3, <2>1, Greatest
  <2>3. LastOnTicket(n) \in OnTicket(n) /\ \A d \in OnTicket(n) : d <= LastOnTicket(n)
    BY <1>3, <2>2 DEF LastOnTicket
  <2> QED
    BY <1>1, <2>3 DEF OnTicket, Says
<1> QED
  BY <1>2, <1>3

LEMMA ParkAtGateStep ==
    ASSUME ScanInv, ParkAtGate
    PROVE  /\ ScanInv' /\ gate' = gate + 1 /\ gate \in Nat /\ posted'[gate'] = Len(comments)
           /\ \A h \in Gates : h <= gate => posted'[h] = posted[h]
<1>1. /\ gate' = gate + 1 /\ gate' \in Gates /\ waits' = TRUE
      /\ posted' = [posted EXCEPT ![gate'] = Len(comments)]
      /\ UNCHANGED <<comments, refusals, replies, applied, poll, deaths>>
  BY DEF ParkAtGate
<1>2. gate \in Nat /\ Len(comments) \in Nat
  BY GatesAreNumbers DEF ScanInv, ScanTypes
<1>3. /\ posted' \in [Gates -> Nat] /\ posted'[gate'] = Len(comments)
      /\ \A h \in Gates : h # gate' => posted'[h] = posted[h]
  BY <1>1, <1>2 DEF ScanInv, ScanTypes
<1>4. marker' \in Nat /\ (marker' # 0 => Says(marker, "ticket")')
  BY <1>1, LastIsLast DEF ParkAtGate, Says
<1>5. ScanTypes'
  <2>1. gate' \in Gates \union {0} /\ (waits' => gate' # 0)
    BY <1>1, GatesAreNumbers
  <2>2. \A h \in Gates : posted'[h] <= Len(comments')
    BY <1>1, <1>2, <1>3 DEF ScanInv, ScanTypes
  <2> QED
    BY <1>1, <1>3, <1>4, <2>1, <2>2 DEF ScanInv, ScanTypes
<1>6. ASSUME NEW p \in Pollers PROVE Real(poll[p])'
  <2>1. poll[p] \in Polls /\ Real(poll[p])
    BY PollIs
  <2>2. \A c : Says(c, "ticket")' <=> Says(c, "ticket")
    BY <1>1 DEF Says
  <2>3. poll[p].gate \in Gates /\ poll[p].gate <= gate => poll[p].gate <= gate'
    <3>1. gate' = gate + 1 /\ gate \in Nat
      BY <1>1, <1>2
    <3>2. poll[p].gate \in Gates => poll[p].gate \in Nat
      BY GatesAreNumbers
    <3> QED
      BY <3>1, <3>2
  <2> QED
    BY <1>1, <2>1, <2>2, <2>3 DEF Real
<1>7. ScanInv'
  BY <1>1, <1>5, <1>6 DEF ScanInv, RefusedIsStored
<1> QED
  BY <1>1, <1>2, <1>3, <1>7, GatesAreNumbers

\* What a poll marks is a comment of the ticket.
LEMMA MarksTicket ==
    ASSUME ScanInv, NEW p \in Pollers, Marks(p, poll[p].next), UNCHANGED comments,
           Reads(p) \/ poll[p].pc \in {"nudged", "handled"}
    PROVE  marker' = marker \/ (marker' = poll[p].next /\ poll[p].marked /\ Says(marker, "ticket")')
<1>1. poll[p].marked => Says(poll[p].next, "ticket")
  BY PollIs, ReadsOne DEF Real, Reads, Reading
<1> QED
  BY <1>1 DEF Marks, Says

LEMMA ReadTalkBecomes ==
    ASSUME ScanInv, NEW p \in Pollers, ReadTalk(p)
    PROVE  /\ marker' = marker \/ (marker' = poll[p].next /\ poll[p].marked /\ Says(marker, "ticket")')
           /\ \E r : Becomes(p, r) /\ (ReadOn(p, r) \/ (StaysAt(p, r, "nudged") /\ poll[p].pc = "onTicket"))
<1>0. poll[p].pc \in Reading /\ Reads(p) /\ UNCHANGED comments
  BY DEF ReadTalk, Reads, Reading
<1>1. CASE Moves(p)
  <2>1. \E r : Becomes(p, r) /\ ReadOn(p, r)
    BY <1>0, <1>1, MoveBecomes
  <2>2. marker' = marker \/ Marks(p, poll[p].next)
    BY DEF ReadTalk
  <2> QED
    BY <1>0, <2>1, <2>2, MarksTicket
<1>2. CASE ~Moves(p)
  <2>1. poll' = [poll EXCEPT ![p].pc = "nudged"] /\ marker' = marker /\ poll[p].marked
    <3>1. poll[p].marked \in BOOLEAN
      BY PollIs DEF Polls
    <3> QED
      BY <1>2, <3>1 DEF ReadTalk
  <2>2. \E r : Becomes(p, r) /\ StaysAt(p, r, "nudged")
    BY <1>0, <2>1, HandledBecomes
  <2>3. poll[p].pc = "onTicket"
    BY <1>0, <2>1, PollIs DEF Real, Reading
  <2> QED
    BY <2>1, <2>2, <2>3
<1> QED
  BY <1>1, <1>2

LEMMA RefuseBecomes ==
    ASSUME ScanInv, NEW p \in Pollers, Refuse(p)
    PROVE  /\ marker' = marker \/ (marker' = poll[p].next /\ poll[p].marked /\ Says(marker, "ticket")')
           /\ \E r : Becomes(p, r) /\ (ReadOn(p, r) \/ r = NoPoll)
<1>0. /\ poll[p].pc \in Reading /\ Reads(p) /\ UNCHANGED comments /\ Marks(p, poll[p].next)
      /\ (Moves(p) \/ EndsPoll(p))
  BY DEF Refuse, Reads, Reading
<1> QED
  BY <1>0, MarksTicket, MoveBecomes, EndBecomes

LEMMA RefuseStep ==
    ASSUME ScanInv, NEW p \in Pollers, Refuse(p)
    PROVE  ScanInv'
<1> DEFINE c == poll[p].next
<1>1. PICK r : Becomes(p, r)
  BY RefuseBecomes
<1>2. poll' \in [Pollers -> Polls] /\ \A q \in Pollers : Real(poll[q])'
  BY <1>1, PollGoes DEF Becomes, Refuse
<1>3. c \in 1 .. Len(comments) /\ c \in Numbers
  BY ReadsOne DEF Refuse, Reads, Reading
<1>4. /\ refusals' = refusals \union {c}
      /\ \/ c \notin refusals /\ replies' = [replies EXCEPT ![c] = IF @ = 2 THEN 2 ELSE @ + 1]
         \/ UNCHANGED replies
  BY DEF Refuse, FirstRefusal
<1>5. /\ replies' \in [Numbers -> Nat] /\ RefusedIsStored'
  <2>1. CASE UNCHANGED replies
    BY <1>4, <2>1 DEF ScanInv, ScanTypes, RefusedIsStored
  <2>2. CASE c \notin refusals /\ replies' = [replies EXCEPT ![c] = IF @ = 2 THEN 2 ELSE @ + 1]
    <3>1. replies[c] = 0
      BY <1>3, <2>2 DEF ScanInv, RefusedIsStored
    <3>2. /\ replies' \in [Numbers -> Nat] /\ replies'[c] = 1
          /\ \A d \in Numbers : d # c => replies'[d] = replies[d]
      BY <1>3, <2>2, <3>1 DEF ScanInv, ScanTypes
    <3> QED
      BY <1>4, <3>2 DEF ScanInv, RefusedIsStored
  <2> QED
    BY <1>4, <2>1, <2>2
<1>6. marker' \in Nat /\ (marker' # 0 => Says(marker, "ticket")')
  <2>1. UNCHANGED comments /\ Len(comments) \in Nat
    BY DEF Refuse, ScanInv, ScanTypes
  <2> QED
    BY <2>1, RefuseBecomes DEF ScanInv, ScanTypes, Says
<1>7. ScanTypes'
  <2>1. refusals' \subseteq 1 .. Len(comments)
    BY <1>3, <1>4 DEF ScanInv, ScanTypes
  <2> QED
    BY <1>2, <1>5, <1>6, <2>1 DEF Refuse, ScanInv, ScanTypes
<1> QED
  BY <1>2, <1>5, <1>7 DEF ScanInv

LEMMA AppliesVerbStep ==
    ASSUME ScanInv, NEW p \in Pollers, AppliesVerb(p)
    PROVE  ScanInv'
<1>1. PICK r : Becomes(p, r)
  BY HandledBecomes DEF AppliesVerb
<1>2. poll' \in [Pollers -> Polls] /\ \A q \in Pollers : Real(poll[q])'
  BY <1>1, PollGoes DEF Becomes, AppliesVerb
<1>3. poll[p].next \in 1 .. Len(comments) /\ gate \in Gates
  BY ReadsOne DEF AppliesVerb, Reads, Reading, ScanInv, ScanTypes
<1>4. applied' \subseteq (1 .. Len(comments)) \X Gates
  BY <1>3 DEF AppliesVerb, ScanInv, ScanTypes
<1>5. ScanTypes'
  BY <1>2, <1>4 DEF AppliesVerb, ScanInv, ScanTypes, Says
<1> QED
  BY <1>2, <1>5 DEF AppliesVerb, ScanInv, RefusedIsStored

LEMMA ScanStep == ScanInv /\ [ScanNext]_scanVars => ScanInv'
<1> SUFFICES ASSUME ScanInv, [ScanNext]_scanVars PROVE ScanInv'
  OBVIOUS
<1>1. CASE UNCHANGED scanVars
  BY <1>1 DEF scanVars, ScanInv, ScanTypes, Real, RefusedIsStored, Says
<1>2. CASE AnswerOnDashboard
  BY <1>2 DEF AnswerOnDashboard, ScanInv, ScanTypes, Real, RefusedIsStored, Says
<1>3. deaths \in Nat
  BY DEF ScanInv, ScanTypes
<1>4. ASSUME NEW p \in Pollers, StartPoll(p) PROVE ScanInv'
  <2>1. PICK r : Becomes(p, r)
    BY <1>4, StartBecomes
  <2> QED
    BY <1>3, <1>4, <2>1, OnlyPoll DEF Becomes, StartPoll
<1>5. ASSUME NEW p \in Pollers, CommentsArrive(p) PROVE ScanInv'
  <2>1. PICK r : Becomes(p, r)
    BY <1>5, ArriveBecomes
  <2> QED
    BY <1>3, <1>5, <2>1, OnlyPoll DEF Becomes, CommentsArrive
<1>6. ASSUME NEW p \in Pollers, PassOver(p) PROVE ScanInv'
  <2>1. PICK r : Becomes(p, r)
    BY <1>6, MoveBecomes DEF PassOver, Reading
  <2> QED
    BY <1>3, <1>6, <2>1, OnlyPoll DEF Becomes, PassOver
<1>7. ASSUME NEW p \in Pollers, NoMoreComments(p) PROVE ScanInv'
  <2>1. PICK r : Becomes(p, r)
    BY <1>7, NoMoreBecomes
  <2> QED
    BY <1>3, <1>7, <2>1, OnlyPoll DEF Becomes, NoMoreComments
<1>8. ASSUME NEW p \in Pollers, ReadTalk(p) PROVE ScanInv'
  <2>1. PICK r : Becomes(p, r)
    BY <1>8, ReadTalkBecomes
  <2> QED
    BY <1>3, <1>8, <2>1, ReadTalkBecomes, OnlyPoll DEF Becomes, ReadTalk, Says
<1>9. ASSUME NEW p \in Pollers, NudgeSent(p) PROVE ScanInv'
  <2>1. PICK r : Becomes(p, r)
    BY <1>9, NudgedBecomes
  <2> QED
    BY <1>3, <1>9, <2>1, MarksTicket, OnlyPoll DEF Becomes, NudgeSent, Says
<1>10. ASSUME NEW p \in Pollers, CannotApply(p) PROVE ScanInv'
  <2>1. PICK r : Becomes(p, r)
    BY <1>10, HandledBecomes DEF CannotApply
  <2> QED
    BY <1>3, <1>10, <2>1, OnlyPoll DEF Becomes, CannotApply
<1>11. ASSUME NEW p \in Pollers, MarkHandled(p) PROVE ScanInv'
  <2>1. Becomes(p, NoPoll)
    BY <1>11, EndBecomes DEF MarkHandled
  <2> QED
    BY <1>3, <1>11, <2>1, MarksTicket, OnlyPoll DEF Becomes, MarkHandled, Says
<1>12. ASSUME NEW p \in Pollers, PollerDies(p) PROVE ScanInv'
  <2>1. Becomes(p, NoPoll)
    BY <1>12, EndBecomes DEF PollerDies
  <2>2. deaths' \in Nat
    BY <1>3, <1>12 DEF PollerDies
  <2> QED
    BY <1>12, <2>1, <2>2, OnlyPoll DEF Becomes, PollerDies
<1> QED
  BY <1>1, <1>2, <1>4, <1>5, <1>6, <1>7, <1>8, <1>9, <1>10, <1>11, <1>12,
     WriteStep, ParkAtGateStep, RefuseStep, AppliesVerbStep DEF ScanNext, PollStep

\* THEOREM.  However many processes poll the comments, and wherever they die, a
\* comment that is refused is answered once: the refusal is stored before it is
\* sent (worker._scan_verbs, db.gate_event_add).
THEOREM RefusalsStaySingle == ScanSpec => []RefusedOnce
<1>1. ScanInit => ScanInv
  BY ScanInitOK
<1>2. ScanInv /\ [ScanNext]_scanVars => ScanInv'
  BY ScanStep
<1>3. ScanInv => RefusedOnce
  BY DEF ScanInv, RefusedIsStored, RefusedOnce
<1> QED
  BY <1>1, <1>2, <1>3, PTL DEF ScanSpec

-----------------------------------------------------------------------------
(* One process polls.                                                       *)

LEMMA BelowMore ==
    ASSUME ScanInv, NEW n \in Nat, NEW m \in Nat, n <= m
    PROVE  /\ AllBelow(n) => AllBelow(m) /\ TicketBelow(n)
           /\ TicketBelow(n) => TicketBelow(m)
<1>1. \A y \in applied : y[1] \in Nat
  BY DEF ScanInv, ScanTypes
<1> QED
  BY <1>1 DEF AllBelow, TicketBelow

\* A step of the poll that applies nothing.
LEMMA PollKeepsVerbs ==
    ASSUME VerbInv, ScanInv', NEW p \in Pollers, \A q \in Pollers : q = p,
           NEW r, Becomes(p, r), Newer(r),
           UNCHANGED <<gate, posted, comments, applied>>, waits' => waits,
           marker' = marker \/ TicketBelow(marker' + 1)
    PROVE  VerbInv'
<1>1. poll'[p] = r
  BY DEF Becomes, VerbInv, ScanInv, ScanTypes
<1>2. \A n : (AllBelow(n) <=> \A y \in applied' : y[1] < n) /\
             (TicketBelow(n) <=> \A y \in applied' : comments'[y[1]].stream = "ticket" => y[1] < n)
  BY DEF AllBelow, TicketBelow
<1>3. \A q \in Pollers : Newer(poll[q])'
  BY <1>1, <1>2 DEF Newer, AllBelow, TicketBelow
<1>4. GateIsNewer'
  BY <1>2 DEF VerbInv, GateIsNewer, AllBelow, TicketBelow
<1> QED
  BY <1>3, <1>4 DEF VerbInv, Heeded, AppliedOnce

\* What a poll knows of the verbs that were applied, where it stands now.
LEMMA PollKnows ==
    ASSUME VerbInv, NEW p \in Pollers
    PROVE  /\ ScanInv /\ poll[p] \in Polls /\ Real(poll[p]) /\ Newer(poll[p])
           /\ poll[p].next \in Nat /\ poll[p].marker \in Nat
           /\ poll[p].gate \in Gates => posted[poll[p].gate] \in Nat
BY PollIs DEF VerbInv, ScanInv, ScanTypes, Polls

\* A poll that read one comment and goes on to the next, or ends.
LEMMA ReadOnKeeps ==
    ASSUME VerbInv, ScanInv', NEW p \in Pollers, \A q \in Pollers : q = p,
           poll[p].pc \in Reading,
           NEW r, Becomes(p, r),
           ReadOn(p, r) \/ r = NoPoll \/ (StaysAt(p, r, "nudged") /\ poll[p].pc = "onTicket"),
           UNCHANGED <<gate, waits, posted, comments, applied>>,
           marker' = marker \/ (marker' = poll[p].next /\ poll[p].marked)
    PROVE  VerbInv'
<1>1. /\ ScanInv /\ Real(poll[p]) /\ Newer(poll[p]) /\ poll[p].next \in Nat
      /\ poll[p].next + 1 \in Nat /\ poll[p].next <= poll[p].next + 1
  BY PollKnows
<1>2. Newer(r)
  <2>1. CASE ReadOn(p, r)
    BY <1>1, <2>1, BelowMore DEF Newer, ReadOn, SamePoll, Reading
  <2>2. CASE r = NoPoll
    BY <2>2 DEF Newer, NoPoll
  <2>3. CASE StaysAt(p, r, "nudged") /\ poll[p].pc = "onTicket"
    BY <1>1, <2>3 DEF Newer, StaysAt, SamePoll
  <2> QED
    BY <2>1, <2>2, <2>3
<1>3. marker' = marker \/ TicketBelow(marker' + 1)
  <2>1. CASE marker' = poll[p].next /\ poll[p].marked
    <3>1. TicketBelow(poll[p].next)
      BY <1>1, <2>1 DEF Real, Newer, Reading
    <3> QED
      BY <1>1, <2>1, <3>1, BelowMore
  <2> QED
    BY <2>1
<1> QED
  BY <1>2, <1>3, PollKeepsVerbs

\* The verb a poll applies lies behind all that were applied so far.
LEMMA AppliesKeeps ==
    ASSUME VerbInv, ScanInv', NEW p \in Pollers, \A q \in Pollers : q = p, AppliesVerb(p)
    PROVE  VerbInv'
<1> DEFINE c == poll[p].next
<1>1. /\ ScanInv /\ Real(poll[p]) /\ Newer(poll[p]) /\ c \in Nat /\ poll[p].pc \in Reading
      /\ Says(c, StreamOf(p)) /\ gate \in Gates /\ gate \in Nat
      /\ (poll[p].marked => StreamOf(p) = "ticket")
  BY PollKnows, ReadsOne, GatesAreNumbers DEF AppliesVerb, Reads, Reading, ScanInv, ScanTypes
<1>2. PICK r : Becomes(p, r) /\ StaysAt(p, r, "handled")
  BY <1>1, HandledBecomes DEF AppliesVerb
<1>3. poll'[p] = r
  BY <1>1, <1>2 DEF Becomes, ScanInv, ScanTypes
<1>4. /\ applied' = applied \union {<<c, gate>>} /\ waits' = FALSE
      /\ UNCHANGED <<gate, posted, marker, comments>>
  BY DEF AppliesVerb
<1>5. \A y \in applied : y[1] # c
  <2>1. CASE StreamOf(p) = "ticket"
    BY <1>1, <2>1 DEF Newer, StreamOf, Reading, TicketBelow, Says, ScanInv, ScanTypes
  <2>2. CASE StreamOf(p) # "ticket"
    BY <1>1, <2>2 DEF Newer, StreamOf, Reading, AllBelow, ScanInv, ScanTypes
  <2> QED
    BY <2>1, <2>2
<1>6. AppliedOnce'
  BY <1>4, <1>5 DEF VerbInv, AppliedOnce
<1>7. \A y \in applied' : Heeded(y)'
  <2>1. comments[c].author = "owner"
    BY DEF AppliesVerb, IsOwner, At
  <2> QED
    BY <1>1, <1>4, <2>1 DEF VerbInv, Heeded
<1>8. Newer(poll[p])'
  <2>1. r.pc = "handled" /\ r.next = c /\ r.marked = poll[p].marked
    BY <1>2 DEF StaysAt
  <2>2. poll[p].marked => TicketBelow(c)
    BY <1>1 DEF Newer, Real, Reading
  <2>3. \A y \in applied : y[1] \in Nat
    BY <1>1 DEF ScanInv, ScanTypes
  <2>4. poll[p].marked => \A y \in applied' : comments'[y[1]].stream = "ticket" => y[1] < c + 1
    BY <1>1, <1>4, <2>2, <2>3 DEF TicketBelow
  <2> QED
    BY <1>3, <2>1, <2>4 DEF Newer, TicketBelow
<1>9. \A q \in Pollers : Newer(poll[q])'
  BY <1>8
<1> QED
  BY <1>4, <1>6, <1>7, <1>9 DEF VerbInv, GateIsNewer

\* A gate is posted, and marked, after all that was written.
LEMMA ParkKeeps ==
    ASSUME VerbInv, ParkAtGate
    PROVE  VerbInv'
<1>1. ScanInv /\ UNCHANGED <<comments, applied, poll>> /\ marker' \in {LastOnTicket(Len(comments)), 0}
  BY DEF ParkAtGate, VerbInv
<1>2. /\ ScanInv' /\ gate' = gate + 1 /\ gate \in Nat /\ posted'[gate'] = Len(comments)
      /\ \A h \in Gates : h <= gate => posted'[h] = posted[h]
  BY <1>1, ParkAtGateStep
<1>3. \A y \in applied : y[1] \in 1 .. Len(comments) /\ y[2] \in Nat
  BY <1>1, GatesAreNumbers DEF ScanInv, ScanTypes
<1>4. Len(comments) \in Nat
  BY <1>1 DEF ScanInv, ScanTypes
<1>5. GateIsNewer'
  <2>1. AllBelow(posted[gate] + 1)'
    BY <1>1, <1>2, <1>3, <1>4 DEF AllBelow
  <2>2. marker' # 0 => TicketBelow(marker + 1)'
    <3> DEFINE m == LastOnTicket(Len(comments))
    <3>1. m \in Nat /\ \A c \in 1 .. Len(comments) : comments[c].stream = "ticket" => c <= m
      BY <1>1, LastIsLast
    <3> HIDE DEF m
    <3>2. marker' # 0 => marker' = m
      BY <1>1 DEF m
    <3> QED
      BY <1>1, <1>3, <3>1, <3>2 DEF TicketBelow
  <2> QED
    BY <2>1, <2>2 DEF GateIsNewer
<1>6. ASSUME NEW p \in Pollers PROVE Newer(poll[p])'
  <2>1. poll'[p] = poll[p] /\ Newer(poll[p]) /\ Real(poll[p])
    BY <1>1, PollKnows
  <2>2. poll[p].pc # "idle" => posted'[poll[p].gate] = posted[poll[p].gate]
    BY <1>2, <2>1 DEF Real
  <2> QED
    BY <1>1, <2>1, <2>2 DEF Newer, AllBelow, TicketBelow
<1>7. \A y \in applied' : Heeded(y)'
  BY <1>1, <1>2, <1>3 DEF VerbInv, Heeded
<1> QED
  BY <1>1, <1>2, <1>5, <1>6, <1>7 DEF VerbInv, AppliedOnce

LEMMA WriteKeeps ==
    ASSUME VerbInv, Write
    PROVE  VerbInv'
<1>1. ScanInv /\ ScanInv' /\ UNCHANGED <<gate, waits, posted, marker, applied, poll>>
  BY WriteStep DEF VerbInv, Write
<1>2. \A y \in applied : comments'[y[1]] = comments[y[1]]
  BY <1>1, Written DEF ScanInv, ScanTypes
<1>3. \A n : (AllBelow(n)' <=> AllBelow(n)) /\ (TicketBelow(n)' <=> TicketBelow(n))
  BY <1>1, <1>2 DEF AllBelow, TicketBelow
<1>4. AppliedOnce' /\ (\A y \in applied' : Heeded(y)')
  BY <1>1, <1>2 DEF VerbInv, AppliedOnce, Heeded
<1>5. GateIsNewer'
  BY <1>1, <1>2 DEF VerbInv, GateIsNewer, AllBelow, TicketBelow
<1>6. \A p \in Pollers : Newer(poll[p])'
  BY <1>1, <1>2 DEF VerbInv, Newer, AllBelow, TicketBelow
<1> QED
  BY <1>1, <1>4, <1>5, <1>6 DEF VerbInv

LEMMA VerbStep ==
    ASSUME VerbInv, [ScanNext]_scanVars, \A p, q \in Pollers : p = q
    PROVE  VerbInv'
<1>0. ScanInv /\ ScanInv'
  BY ScanStep DEF VerbInv
<1>1. CASE UNCHANGED scanVars
  BY <1>0, <1>1 DEF scanVars, VerbInv, Heeded, AppliedOnce, GateIsNewer, Newer, AllBelow, TicketBelow
<1>2. CASE AnswerOnDashboard
  BY <1>0, <1>2 DEF AnswerOnDashboard, VerbInv, Heeded, AppliedOnce, GateIsNewer, Newer, AllBelow, TicketBelow
<1>3. ASSUME NEW p \in Pollers, StartPoll(p) PROVE VerbInv'
  <2>1. PICK r : Becomes(p, r) /\ r.pc = "ticket" /\ r.gate = gate /\ r.marker = marker
    BY <1>0, <1>3, StartBecomes
  <2>2. Newer(r)
    BY <1>3, <2>1 DEF VerbInv, GateIsNewer, Newer, StartPoll
  <2> QED
    BY <1>0, <1>3, <2>1, <2>2, PollKeepsVerbs DEF StartPoll
<1>4. ASSUME NEW p \in Pollers, CommentsArrive(p) PROVE VerbInv'
  <2>1. PICK r : /\ Becomes(p, r) /\ r.gate = poll[p].gate /\ r.marker = poll[p].marker
                 /\ r.next = Begins(p) /\ r.marked = Marked(p)
                 /\ r.pc = (IF poll[p].pc = "ticket" THEN "onTicket" ELSE "onSubtask")
    BY <1>0, <1>4, ArriveBecomes
  <2>2. poll[p].pc \in {"ticket", "subtask"}
    BY <1>4 DEF CommentsArrive, Streams
  <2>3. /\ poll[p].gate \in Gates /\ Newer(poll[p]) /\ posted[poll[p].gate] + 1 \in Nat
    BY <2>2, PollKnows DEF Real
  <2>4. AllBelow(posted[poll[p].gate] + 1) /\ TicketBelow(posted[poll[p].gate] + 1)
    BY <1>0, <2>2, <2>3, BelowMore DEF Newer
  <2>5. Newer(r)
    BY <2>1, <2>2, <2>3, <2>4 DEF Newer, Begins, Marked
  <2> QED
    BY <1>0, <1>4, <2>1, <2>5, PollKeepsVerbs DEF CommentsArrive
<1>5. ASSUME NEW p \in Pollers, PassOver(p) PROVE VerbInv'
  <2>1. PICK r : Becomes(p, r) /\ ReadOn(p, r)
    BY <1>0, <1>5, MoveBecomes DEF PassOver, Reading
  <2> QED
    BY <1>0, <1>5, <2>1, ReadOnKeeps DEF PassOver, Reading
<1>6. ASSUME NEW p \in Pollers, NoMoreComments(p) PROVE VerbInv'
  <2>1. CASE Becomes(p, NoPoll)
    BY <1>0, <1>6, <2>1, ReadOnKeeps DEF NoMoreComments, Reading
  <2>2. ASSUME NEW r, Becomes(p, r), StaysAt(p, r, "subtask"), poll[p].pc = "onTicket"
        PROVE  VerbInv'
    <3>1. Newer(r)
      BY <2>2, PollKnows DEF Newer, StaysAt, SamePoll
    <3> QED
      BY <1>0, <1>6, <2>2, <3>1, PollKeepsVerbs DEF NoMoreComments
  <2> QED
    BY <1>0, <1>6, <2>1, <2>2, NoMoreBecomes
<1>7. ASSUME NEW p \in Pollers, ReadTalk(p) PROVE VerbInv'
  <2>1. PICK r : Becomes(p, r) /\ (ReadOn(p, r) \/ (StaysAt(p, r, "nudged") /\ poll[p].pc = "onTicket"))
    BY <1>0, <1>7, ReadTalkBecomes
  <2>2. marker' = marker \/ (marker' = poll[p].next /\ poll[p].marked)
    BY <1>0, <1>7, ReadTalkBecomes
  <2> QED
    BY <1>0, <1>7, <2>1, <2>2, ReadOnKeeps DEF ReadTalk, Reads, Reading
<1>8. ASSUME NEW p \in Pollers, NudgeSent(p) PROVE VerbInv'
  <2>1. PICK r : /\ Becomes(p, r) /\ SamePoll(r, poll[p]) /\ r.pc = "onTicket"
                 /\ r.next = poll[p].next + 1 /\ r.marked = poll[p].marked
    BY <1>0, <1>8, NudgedBecomes
  <2>2. poll[p].pc = "nudged" /\ Newer(poll[p]) /\ poll[p].next \in Nat
    BY <1>8, PollKnows DEF NudgeSent
  <2>3. TicketBelow(poll[p].next + 1)
    BY <1>0, <2>2, BelowMore DEF Newer
  <2>4. Newer(r)
    BY <2>1, <2>2, <2>3 DEF Newer, SamePoll
  <2>5. marker' = marker \/ TicketBelow(marker' + 1)
    BY <1>8, <2>3 DEF NudgeSent, Marks
  <2> QED
    BY <1>0, <1>8, <2>1, <2>4, <2>5, PollKeepsVerbs DEF NudgeSent
<1>9. ASSUME NEW p \in Pollers, Refuse(p) PROVE VerbInv'
  <2>1. PICK r : Becomes(p, r) /\ (ReadOn(p, r) \/ r = NoPoll)
    BY <1>0, <1>9, RefuseBecomes
  <2>2. marker' = marker \/ (marker' = poll[p].next /\ poll[p].marked)
    BY <1>0, <1>9, RefuseBecomes
  <2> QED
    BY <1>0, <1>9, <2>1, <2>2, ReadOnKeeps DEF Refuse, Reads, Reading
<1>10. ASSUME NEW p \in Pollers, CannotApply(p) PROVE VerbInv'
  <2>1. PICK r : Becomes(p, r) /\ StaysAt(p, r, "handled")
    BY <1>0, <1>10, HandledBecomes DEF CannotApply
  <2>2. poll[p].pc \in Reading /\ Newer(poll[p]) /\ Real(poll[p]) /\ poll[p].next \in Nat
    BY <1>10, PollKnows DEF CannotApply, Reads, Reading
  <2>3. poll[p].marked => TicketBelow(poll[p].next + 1)
    <3>1. poll[p].marked => TicketBelow(poll[p].next)
      BY <2>2 DEF Newer, Real, Reading
    <3> QED
      BY <1>0, <2>2, <3>1, BelowMore
  <2>4. Newer(r)
    BY <2>1, <2>3 DEF Newer, StaysAt
  <2> QED
    BY <1>0, <1>10, <2>1, <2>4, PollKeepsVerbs DEF CannotApply
<1>11. ASSUME NEW p \in Pollers, MarkHandled(p) PROVE VerbInv'
  <2>1. Becomes(p, NoPoll) /\ Newer(NoPoll)
    BY <1>11, EndBecomes DEF MarkHandled, Newer, NoPoll
  <2>2. marker' = marker \/ TicketBelow(marker' + 1)
    BY <1>11, PollKnows DEF MarkHandled, Marks, Newer
  <2> QED
    BY <1>0, <1>11, <2>1, <2>2, PollKeepsVerbs DEF MarkHandled
<1>12. ASSUME NEW p \in Pollers, PollerDies(p) PROVE VerbInv'
  <2>1. Becomes(p, NoPoll) /\ Newer(NoPoll)
    BY <1>12, EndBecomes DEF PollerDies, Newer, NoPoll
  <2> QED
    BY <1>0, <1>12, <2>1, PollKeepsVerbs DEF PollerDies
<1>13. ASSUME NEW p \in Pollers, AppliesVerb(p) PROVE VerbInv'
  BY <1>0, <1>13, AppliesKeeps
<1> QED
  BY <1>1, <1>2, <1>3, <1>4, <1>5, <1>6, <1>7, <1>8, <1>9, <1>10, <1>11, <1>12, <1>13,
     ParkKeeps, WriteKeeps DEF ScanNext, PollStep

\* THEOREM.  Where one process polls, a comment has one
\* effect: it answers one gate, by the gate's owner, or is refused once; the
\* gates that are answered and posted while the poll holds an old row, the
\* marker the poll moves back, and its death after a verb do not let it answer
\* another gate (worker._scan_verbs, _poll_awaiting, _park).
THEOREM VerbsHaveOneEffect ==
    ASSUME \A p, q \in Pollers : p = q
    PROVE  ScanSpec => []OneEffectPerComment
<1>1. ScanInit => VerbInv
  <2>1. ScanInit => applied = {} /\ waits = FALSE /\ \A p \in Pollers : poll[p].pc = "idle"
    BY DEF ScanInit, NoPoll
  <2> QED
    BY <2>1, ScanInitOK DEF VerbInv, AppliedOnce, GateIsNewer, Newer
<1>2. VerbInv /\ [ScanNext]_scanVars => VerbInv'
  BY VerbStep
<1>3. VerbInv => OneEffectPerComment
  BY DEF VerbInv, ScanInv, RefusedIsStored, Heeded, AppliedOnce, OneEffectPerComment, RefusedOnce,
     OneGatePerVerb
<1> QED
  BY <1>1, <1>2, <1>3, PTL DEF ScanSpec

\* THEOREM.  Markers, fences and refusals are of comments there are, and a poll is at a
\* gate that was posted (Worker._poll_awaiting).
THEOREM ScanTypesHold == ScanSpec => []ScanTypeOK
<1>1. ScanInv => ScanTypeOK
  <2> SUFFICES ASSUME ScanInv PROVE ScanTypeOK
    OBVIOUS
  <2>1. /\ Len(comments) \in Nat /\ Gates \subseteq Nat /\ (\A h \in Gates : h >= 1) /\ gate \in Nat
    BY GatesAreNumbers DEF ScanInv, ScanTypes
  <2>2. posted \in [Gates -> 0 .. Len(comments)]
    BY <2>1 DEF ScanInv, ScanTypes
  <2>3. marker \in 0 .. Len(comments) /\ (marker # 0 => comments[marker].stream = "ticket")
    BY <2>1 DEF ScanInv, ScanTypes, Says
  <2>4. ASSUME NEW p \in Pollers, poll[p].pc # "idle"
        PROVE  poll[p].gate \in 1 .. gate /\ poll[p].end <= Len(comments)
    <3>1. Real(poll[p])
      BY <2>4 DEF ScanInv
    <3>2. poll[p].gate \in Gates /\ poll[p].gate <= gate /\ poll[p].end <= Len(comments)
      BY <2>4, <3>1 DEF Real
    <3>3. poll[p].gate \in Nat /\ poll[p].gate >= 1
      BY <2>1, <3>2
    <3> QED
      BY <2>1, <3>2, <3>3
  <2> QED
    BY <2>2, <2>3, <2>4 DEF ScanInv, ScanTypes, ScanTypeOK
<1> QED
  BY <1>1, ScanInitOK, ScanStep, PTL DEF ScanSpec

-----------------------------------------------------------------------------
(* The desk, composed.                                                     *)

\* A step of the composition is a step of the component that is followed, and the
\* others stand still.
LEMMA DeskStep ==
    [DeskNext]_deskVars =>
        /\ [ScanNext]_scanVars /\ [RequestNext]_reqVars /\ [ChatNext]_chatVars
        /\ [BrokerNext]_brokerVars /\ [RegistryNext]_registryVars
        /\ [AccountsNext]_accountVars /\ [AutonomyNext]_autonomyVars
        /\ focus' = focus
  BY DEF DeskNext, deskVars

\* THEOREM.  Composed, each component of the desk behaves as it does alone, whichever is
\* followed: what is proved of one holds in the composition.
THEOREM DeskComposes ==
    DeskSpec => /\ ScanSpec /\ RequestSpec /\ ChatSpec /\ BrokerSpec
                /\ RegistrySpec /\ AccountsSpec /\ AutonomySpec
<1>1. DeskInit => /\ ScanInit /\ RequestInit /\ ChatInit /\ BrokerInit
                  /\ RegistryInit /\ AccountsInit /\ AutonomyInit
  BY DEF DeskInit
<1> QED
  BY <1>1, DeskStep, PTL
  DEF DeskSpec, ScanSpec, RequestSpec, ChatSpec, BrokerSpec, RegistrySpec, AccountsSpec, AutonomySpec

\* THEOREM.  The state of the component that is followed has its types.
THEOREM DeskTypesHold == DeskSpec => []DeskTypeOK
<1> DEFINE Focused ==
      focus \in {"verbs", "requests", "chat", "stream", "registry", "accounts", "autonomy"}
<1>1. DeskInit => Focused
  BY DEF DeskInit
<1>2. Focused /\ [DeskNext]_deskVars => Focused'
  BY DeskStep
<1>3. DeskSpec => []Focused
  <2> HIDE DEF Focused
  <2> QED
    BY <1>1, <1>2, PTL DEF DeskSpec
<1>4. Focused /\ ScanTypeOK /\ RequestTypeOK /\ ChatTypeOK /\ BrokerTypeOK /\ RegistryTypeOK
      /\ AccountsTypeOK /\ AutonomyTypeOK => DeskTypeOK
  <2> SUFFICES ASSUME Focused, ScanTypeOK, RequestTypeOK, ChatTypeOK, BrokerTypeOK,
                      RegistryTypeOK, AccountsTypeOK, AutonomyTypeOK
               PROVE  DeskTypeOK
    OBVIOUS
  <2>1. CASE focus = "verbs"
    BY <2>1 DEF DeskTypeOK
  <2>2. CASE focus = "requests"
    BY <2>2 DEF DeskTypeOK
  <2>3. CASE focus = "chat"
    BY <2>3 DEF DeskTypeOK
  <2>4. CASE focus = "stream"
    BY <2>4 DEF DeskTypeOK
  <2>5. CASE focus = "registry"
    BY <2>5 DEF DeskTypeOK
  <2>6. CASE focus = "accounts"
    BY <2>6 DEF DeskTypeOK
  <2>7. CASE focus = "autonomy"
    BY <2>7 DEF DeskTypeOK
  <2> QED
    BY <2>1, <2>2, <2>3, <2>4, <2>5, <2>6, <2>7
<1> HIDE DEF Focused
<1> QED
  BY <1>3, <1>4, DeskComposes, ScanTypesHold, RequestTypesHold, ChatTypesHold, BrokerTypesHold,
     RegistryTypesHold, AccountsTypesHold, AutonomyTypesHold, PTL
=============================================================================
