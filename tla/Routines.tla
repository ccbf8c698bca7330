------------------------------ MODULE Routines ------------------------------
(***************************************************************************)
(* The routine scheduler: every process runs one, all over the same rows of *)
(* the routines table.  A tick reads all rows at once and then dispatches   *)
(* them one by one; a firing is claimed with a compare-and-set on the stamp *)
(* of the last run, and its handler runs in a task of its own while later   *)
(* ticks go on.  Operators edit rows and ask for immediate runs.            *)
(*                                                                         *)
(* A stamp is not a number here.  A row knows whether it has one and whether*)
(* its next occurrence after the stamp has come; a tick knows which of the  *)
(* rows it read have not been stamped since.                                *)
(***************************************************************************)
EXTENDS Integers, FiniteSets

CONSTANTS
    Schedulers,    \* processes
    Rows,          \* rows of the routines table, numbered in the order a tick reads them
    FlagOn,        \* rows whose settings flags are on
    RoutineLimits  \* how often each outside event may happen: one of these

RoutineEvents == {"edit", "ask", "crash", "fault"}
Kinds == {"reaper", "builtin", "workspace"}       \* builtin: sweep and janitor
Specs == {"default", "every", "daily", "bad"}     \* "default" is the empty schedule

ASSUME RoutineAssumption ==
    /\ Rows \subseteq Nat /\ IsFiniteSet(Rows) /\ Rows # {} /\ FlagOn \subseteq Rows
    /\ RoutineLimits \subseteq [RoutineEvents -> Nat]

VARIABLES
    routine,   \* the rows
    tick,      \* per scheduler, its tick: what it read and what is left to do
    armed,     \* per scheduler, _run_now
    inflight,  \* per scheduler, _inflight
    firing,    \* per scheduler and row, how far the task _run_one is
    up,        \* the schedulers that run
    owed,      \* (history) accepted requests with no stamp and no disabling since
    sleft      \* how often each outside event may still happen

schedVars == <<routine, tick, armed, inflight, firing, up, owed, sleft>>

NoTick == [on |-> FALSE, todo |-> {}, fresh |-> {}, seen |-> <<>>]
Once(e) == sleft[e] > 0 /\ sleft' = [sleft EXCEPT ![e] = @ - 1]

\* What seeding and anchoring leave: rows that never ran, the daily ones with
\* a stamp.  A workspace schedule comes from the settings and may be bad; the
\* reaper's row may have been edited by hand.
SchedInit ==
    /\ routine \in [Rows -> [kind : Kinds, spec : Specs, enabled : BOOLEAN,
                             null : BOOLEAN, due : {FALSE}]]
    /\ \A r \in Rows :
        /\ routine[r].null <=> routine[r].spec # "daily"
        /\ CASE routine[r].kind = "workspace" -> routine[r].enabled /\ routine[r].spec # "default"
             [] routine[r].kind = "builtin"   -> routine[r].enabled /\ routine[r].spec = "default"
             [] routine[r].kind = "reaper"    -> routine[r].spec \in {"default", "bad"}
    /\ tick = [s \in Schedulers |-> NoTick]
    /\ armed = [s \in Schedulers |-> {}]
    /\ inflight = [s \in Schedulers |-> {}]
    /\ firing = [s \in Schedulers |-> [r \in Rows |-> "none"]]
    /\ up = Schedulers
    /\ owed = [s \in Schedulers |-> {}]
    /\ sleft \in RoutineLimits

-----------------------------------------------------------------------------
(* The row.                                                                 *)

\* resolve_schedule: a builtin row with a bad schedule falls back to its
\* default cadence, a workspace row has none.
Schedule(row) ==
    IF row.kind = "workspace"
    THEN IF row.spec \in {"every", "daily"} THEN row.spec ELSE "none"
    ELSE IF row.spec = "daily" THEN "daily" ELSE "every"

\* next_due: without a stamp an every: row is due at once, and a daily one
\* slides along with now and never is.
IsDue(row) ==
    IF Schedule(row) = "every" THEN row.null \/ row.due ELSE ~row.null /\ row.due

\* _effective_enabled
Effective(r, row) == row.kind = "reaper" \/ (row.enabled /\ r \in FlagOn)

\* A write of last_run_at: what other ticks read of these rows is stale now.
Stamp(R) ==
    /\ routine' = [r \in Rows |-> IF r \in R THEN [routine[r] EXCEPT !.null = FALSE, !.due = FALSE]
                                             ELSE routine[r]]
    /\ owed' = [s \in Schedulers |-> owed[s] \ R]

\* Time passes the next occurrence after the stamp.
TimePasses(r) ==
    /\ ~routine[r].null /\ ~routine[r].due
    /\ routine' = [routine EXCEPT ![r].due = TRUE]
    /\ UNCHANGED <<tick, armed, inflight, firing, up, owed, sleft>>

-----------------------------------------------------------------------------
(* Operators.                                                               *)

\* PUT /api/routines/{id}; the reaper can be neither disabled nor moved, and
\* a never-run row that becomes daily is stamped.
Anchors(r, spec) == spec = "daily" /\ routine[r].null
Edit(r) ==
    /\ Once("edit")
    /\ \E spec \in {"default", "every", "daily"}, enabled \in BOOLEAN :
        /\ routine[r].kind = "reaper" => spec = routine[r].spec /\ enabled
        /\ routine[r].kind = "workspace" => spec # "default"
        /\ LET anchored == Anchors(r, spec)
               row == [routine[r] EXCEPT !.spec = spec, !.enabled = enabled]
           IN /\ routine' = [routine EXCEPT ![r] =
                    IF anchored THEN [row EXCEPT !.null = FALSE, !.due = FALSE] ELSE row]
              /\ tick' = IF anchored THEN [s \in Schedulers |-> [tick[s] EXCEPT !.fresh = @ \ {r}]]
                                     ELSE tick
              /\ owed' = IF anchored \/ ~enabled THEN [s \in Schedulers |-> owed[s] \ {r}]
                                                 ELSE owed
    /\ UNCHANGED <<armed, inflight, firing, up>>

\* POST /api/routines/{id}/run, served by the process of scheduler s.
RequestRun(s, r) ==
    /\ s \in up /\ ~tick[s].on /\ Effective(r, routine[r]) /\ Once("ask")
    /\ armed' = [armed EXCEPT ![s] = @ \union {r}]
    /\ owed' = [owed EXCEPT ![s] = @ \union {r}]
    /\ UNCHANGED <<routine, tick, inflight, firing, up>>

-----------------------------------------------------------------------------
(* A tick.                                                                  *)

StartTick(s) ==
    /\ s \in up /\ ~tick[s].on
    /\ tick' = [tick EXCEPT ![s] = [on |-> TRUE, todo |-> Rows, fresh |-> Rows, seen |-> routine]]
    /\ UNCHANGED <<routine, armed, inflight, firing, up, owed, sleft>>

\* The tick is done with row r, and forgets what it read of it.
Done(s, r, t) ==
    LET rest == t[s].todo \ {r}
    IN [t EXCEPT ![s] = IF rest = {} THEN NoTick
                        ELSE [on |-> TRUE, todo |-> rest, fresh |-> @.fresh \intersect rest,
                              seen |-> [q \in rest |-> @.seen[q]]]]

Seen(s, r) == tick[s].seen[r]
InTick(s, r) == r \in tick[s].todo /\ \A q \in tick[s].todo : r <= q
Wanted(s, r) == r \in armed[s] \/ IsDue(Seen(s, r))

SkipDisabled(s, r) ==
    /\ InTick(s, r) /\ ~Effective(r, Seen(s, r))
    /\ armed' = [armed EXCEPT ![s] = @ \ {r}]
    /\ tick' = Done(s, r, tick)
    /\ UNCHANGED <<routine, inflight, firing, up, owed, sleft>>

\* A workspace row with a bad schedule is switched off, by its key alone.
DisableBad(s, r) ==
    /\ InTick(s, r) /\ Effective(r, Seen(s, r)) /\ Schedule(Seen(s, r)) = "none"
    /\ routine' = [routine EXCEPT ![r].enabled = FALSE]
    /\ owed' = [q \in Schedulers |-> owed[q] \ {r}]
    /\ tick' = Done(s, r, tick)
    /\ UNCHANGED <<armed, inflight, firing, up, sleft>>

Dispatchable(s, r) ==
    /\ InTick(s, r) /\ Effective(r, Seen(s, r)) /\ Schedule(Seen(s, r)) # "none"

\* A request stays armed while an earlier firing of the row goes on.
KeepsRequest(s, r) == armed[s]
SkipIdle(s, r) ==
    /\ Dispatchable(s, r) /\ (~Wanted(s, r) \/ r \in inflight[s])
    /\ armed' = [armed EXCEPT ![s] = KeepsRequest(s, r)]
    /\ tick' = Done(s, r, tick)
    /\ UNCHANGED <<routine, inflight, firing, up, owed, sleft>>

\* routine_claim: one UPDATE that compares the stamp that was read, and the
\* enabled flag for all but the reaper.
ClaimsAnyway(s, r) == routine[r].kind = "reaper" \/ routine[r].enabled
ClaimsEnabled(s, r) == r \in tick[s].fresh /\ routine[r].enabled
ClaimWins(s, r) ==
    /\ r \in tick[s].fresh
    /\ routine[r].kind = "reaper" \/ routine[r].enabled

Fire(s, r) ==
    /\ Dispatchable(s, r) /\ Wanted(s, r) /\ r \notin inflight[s]
    /\ armed' = [armed EXCEPT ![s] = @ \ {r}]
    /\ IF ClaimWins(s, r)
       THEN /\ Stamp({r})
            /\ tick' = Done(s, r, [q \in Schedulers |-> [tick[q] EXCEPT !.fresh = @ \ {r}]])
            /\ inflight' = [inflight EXCEPT ![s] = @ \union {r}]
            /\ firing' = [firing EXCEPT ![s][r] = "claimed"]
       ELSE /\ tick' = Done(s, r, tick)
            /\ UNCHANGED <<routine, owed, inflight, firing>>
    /\ UNCHANGED <<up, sleft>>

\* A store error: the rest of the rows waits for the next tick.
TickFails(s) ==
    /\ tick[s].on /\ Once("fault")
    /\ tick' = [tick EXCEPT ![s] = NoTick]
    /\ UNCHANGED <<routine, armed, inflight, firing, up, owed>>

-----------------------------------------------------------------------------
(* A firing (_run_one): up to the handler's first await, and from its end   *)
(* on.  Ticks interleave with the two, not with the inside of either.       *)

OnLoop(s, r, pc) == ~tick[s].on /\ firing[s][r] = pc

\* The finally clause: not touched by a store write that fails.
\* ReleasesIfStored is faulty.
ReleasesIfStored(s, r, ok) == IF ok THEN inflight[s] \ {r} ELSE inflight[s]
Releases(s, r, ok) == inflight[s] \ {r}

\* routine_run_open fails, and the handler is not even started, or it is.
OpenRun(s, r) ==
    /\ OnLoop(s, r, "claimed")
    /\ \/ /\ firing' = [firing EXCEPT ![s][r] = "handling"]
          /\ UNCHANGED <<inflight, sleft>>
       \/ /\ Once("fault")
          /\ firing' = [firing EXCEPT ![s][r] = "none"]
          /\ inflight' = [inflight EXCEPT ![s] = Releases(s, r, FALSE)]
    /\ UNCHANGED <<routine, tick, armed, up, owed>>

\* The handler returns or raises; then routine_run_close and last_status,
\* which may fail too.
CloseRun(s, r) ==
    /\ OnLoop(s, r, "handling")
    /\ firing' = [firing EXCEPT ![s][r] = "none"]
    /\ \E ok \in BOOLEAN :
        /\ IF ok THEN UNCHANGED sleft ELSE Once("fault")
        /\ inflight' = [inflight EXCEPT ![s] = Releases(s, r, ok)]
    /\ UNCHANGED <<routine, tick, armed, up, owed>>

-----------------------------------------------------------------------------
(* Processes.                                                               *)

SchedCrash(s) ==
    /\ s \in up /\ Once("crash")
    /\ up' = up \ {s}
    /\ tick' = [tick EXCEPT ![s] = NoTick]
    /\ armed' = [armed EXCEPT ![s] = {}]
    /\ inflight' = [inflight EXCEPT ![s] = {}]
    /\ firing' = [firing EXCEPT ![s] = [r \in Rows |-> "none"]]
    /\ owed' = [owed EXCEPT ![s] = {}]
    /\ UNCHANGED routine

\* ensure_seeds: the rows exist, sweep and janitor are stamped at every boot
\* (routine_boot_bump), and never-run daily rows are anchored.
Bumped == {r \in Rows : routine[r].kind = "builtin"}
FreshRows == {r \in Rows : routine[r].null /\ routine[r].spec = "daily"}
SchedBoot(s) ==
    /\ s \notin up
    /\ up' = up \union {s}
    /\ Stamp(Bumped \union FreshRows)
    /\ tick' = [q \in Schedulers |-> [tick[q] EXCEPT !.fresh = @ \ (Bumped \union FreshRows)]]
    /\ UNCHANGED <<armed, inflight, firing, sleft>>

TickStep(s) ==
    \/ StartTick(s)
    \/ \E r \in Rows : SkipDisabled(s, r) \/ DisableBad(s, r) \/ SkipIdle(s, r) \/ Fire(s, r)
FiringStep(s, r) == OpenRun(s, r) \/ CloseRun(s, r)

SchedNext ==
    \/ \E r \in Rows : TimePasses(r) \/ Edit(r)
    \/ \E s \in Schedulers :
        \/ TickStep(s) \/ TickFails(s) \/ SchedCrash(s) \/ SchedBoot(s)
        \/ \E r \in Rows : RequestRun(s, r) \/ FiringStep(s, r)

SchedSpec == SchedInit /\ [][SchedNext]_schedVars

-----------------------------------------------------------------------------
(* Properties.                                                              *)

\* The type invariant; a row in _inflight has a live task and no other row
\* has: no failing store write blocks a routine until the next restart
\* (the finally clauses of _run_one).
SchedTypeOK ==
    /\ routine \in [Rows -> [kind : Kinds, spec : Specs, enabled : BOOLEAN,
                             null : BOOLEAN, due : BOOLEAN]]
    /\ \A s \in Schedulers :
        /\ tick[s].todo \union tick[s].fresh \subseteq Rows /\ (tick[s].on <=> tick[s].todo # {})
        /\ armed[s] \subseteq Rows /\ owed[s] \subseteq Rows
        /\ inflight[s] = {r \in Rows : firing[s][r] # "none"}
        /\ s \notin up => armed[s] = {} /\ inflight[s] = {} /\ ~tick[s].on
    /\ sleft \in [RoutineEvents -> Nat]

\* A row that waits for an hour of the day has a stamp to wait from, whatever
\* was edited: without one it could never come due again.
DailyRowsAreAnchored == \A r \in Rows : routine[r].spec = "daily" => ~routine[r].null

Starts(s, r) == r \notin inflight[s] /\ r \in inflight'[s]

\* One firing per slot over all schedulers: a firing that was not asked for
\* takes a slot that has come and that nobody has taken (routine_claim).
OneFiringPerSlot ==
    [][\A s \in Schedulers, r \in Rows :
         Starts(s, r) /\ r \notin armed[s] => IsDue(routine[r])]_schedVars

\* An accepted run-now is not forgotten: the scheduler lets go of it only when
\* the row was stamped or disabled after the request was accepted.
RunNowIsServed ==
    [][\A s \in Schedulers : s \in up' => \A r \in armed[s] \ armed'[s] : r \notin owed'[s]]_schedVars

\* No slot is lost and none is used twice, over processes, edits and crashes.
SlotsAreKept == []DailyRowsAreAnchored /\ OneFiringPerSlot /\ RunNowIsServed

\* Fair: time, ticks and handlers go on, and a process that died
\* is started again.  Between two ticks the event loop runs every task that is
\* ready (the scheduler sleeps routine_tick_seconds), so a firing goes on
\* although ticks interrupt it over and over.
SchedFairness ==
    /\ \A r \in Rows : WF_schedVars(TimePasses(r))
    /\ \A s \in Schedulers :
        /\ WF_schedVars(SchedBoot(s)) /\ WF_schedVars(StartTick(s))
        /\ \A r \in Rows :
            /\ WF_schedVars(SkipDisabled(s, r) \/ DisableBad(s, r) \/ SkipIdle(s, r) \/ Fire(s, r))
            /\ SF_schedVars(FiringStep(s, r))
SchedFairSpec == SchedSpec /\ SchedFairness

\* A handler of the row runs, unless the row is off: a routine that stays
\* enabled with a schedule is to fire again and again, whatever write failed and
\* whichever process died; the reaper, a safety loop, whatever its row says.
Served(r) ==
    \/ ~Effective(r, routine[r]) \/ Schedule(routine[r]) = "none"
    \/ \E s \in Schedulers : firing[s][r] = "handling"
=============================================================================
