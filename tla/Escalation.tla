----------------------------- MODULE Escalation -----------------------------
(***************************************************************************)
(* The ladder of an overdue gate: after its SLA the owner is reminded, at    *)
(* one and a half its second is asked, at twice it is put on the standup.    *)
(* Every process sweeps all waiting jobs; a sweep reads the rows   *)
(* once and then awaits a send for each of them, so it may reach a row long  *)
(* after it read it.  A step is stored, keyed by the gated run, before       *)
(* anything is sent.                                                         *)
(*                                                                         *)
(* One job is followed; the age of a gate is counted in rungs: 1 is its SLA,  *)
(* 2 one and a half of it, 3 twice.                                         *)
(***************************************************************************)
EXTENDS Integers, FiniteSets

CONSTANTS
    Sweepers,    \* processes
    People,      \* who may be named as a DRI
    NoPerson,    \* an empty DRI column
    Assignments, \* the DRI columns that occur
    GateRole,    \* the role of the gated stage
    SlaGates,       \* run ids of the gates the job is parked at, 1 .. n
    SlaLimit     \* how many processes may die

ASSUME SlaAssumption ==
    /\ NoPerson \notin People /\ GateRole \in {"founder", "dev"}
    /\ Assignments \subseteq [founder : People \union {NoPerson}, dev : People \union {NoPerson}]
    /\ SlaGates \subseteq Nat \ {0} /\ IsFiniteSet(SlaGates) /\ SlaGates # {}
    /\ SlaLimit \in Nat

VARIABLES
    slaGate,       \* run id of the newest gate; 0 before the first one
    slaWaits,      \* the job is at awaiting_input
    age,        \* rungs since each gate was posted
    dri,        \* the DRI columns
    steps,      \* gate_events of the ladder: <<step, run>>
    sends,      \* (history) sends by <<step, run>>
    sweep,      \* per process, where its sweep is with this job
    eleft       \* how many processes may still die

slaVars == <<slaGate, slaWaits, age, dri, steps, sends, sweep, eleft>>

Steps == 1 .. 3
NoSweep == [pc |-> "idle", run |-> 0, waited |-> 0]

SlaInit ==
    /\ slaGate = 0 /\ slaWaits = FALSE /\ age = [r \in SlaGates |-> 0]
    /\ dri \in Assignments
    /\ steps = {} /\ sends = [x \in Steps \X SlaGates |-> 0]
    /\ sweep = [s \in Sweepers |-> NoSweep]
    /\ eleft = SlaLimit

-----------------------------------------------------------------------------
(* Who owns a gate (roles.py).                                              *)

\* gate_owner: the role's own column, else the other one.  (A legacy owner is
\* for display only.)
OwnerOf(d) ==
    LET own   == IF GateRole = "founder" THEN d.founder ELSE d.dev
        spare == IF GateRole = "founder" THEN d.dev ELSE d.founder
    IN IF own # NoPerson THEN own ELSE spare

\* With no DRI at all nobody is pressed.
Enforced(d) == d.founder # NoPerson \/ d.dev # NoPerson

\* other_dri at the second step unless he is the owner himself
OtherColumn(d) == IF GateRole = "founder" THEN d.dev ELSE d.founder
Addressee(d) == IF OtherColumn(d) = OwnerOf(d) THEN NoPerson ELSE OtherColumn(d)

-----------------------------------------------------------------------------
(* The job and its people.                                                  *)

Park ==
    /\ ~slaWaits /\ slaGate + 1 \in SlaGates
    /\ slaGate' = slaGate + 1 /\ slaWaits' = TRUE
    /\ UNCHANGED <<age, dri, steps, sends, sweep, eleft>>

Answer ==
    /\ slaWaits /\ slaWaits' = FALSE
    /\ UNCHANGED <<slaGate, age, dri, steps, sends, sweep, eleft>>

RungPasses ==
    /\ slaWaits /\ age[slaGate] < 3
    /\ age' = [age EXCEPT ![slaGate] = @ + 1]
    /\ UNCHANGED <<slaGate, slaWaits, dri, steps, sends, sweep, eleft>>

-----------------------------------------------------------------------------
(* A sweep.                                                                 *)

\* The run whose gate is timed: the latest one that posted a gate.
LatestPosted == slaGate

\* by_status reads the row; its turn comes when the jobs before it are done.
ReadRow(s) ==
    /\ sweep[s].pc = "idle" /\ slaWaits
    /\ sweep' = [sweep EXCEPT ![s] = [pc |-> "read", run |-> LatestPosted, waited |-> age[LatestPosted]]]
    /\ UNCHANGED <<slaGate, slaWaits, age, dri, steps, sends, eleft>>

\* The ref of a step is the gated run, so that a redone or restarted stage
\* has a ladder of its own.
Ref(r) == r

\* gate_event_add: did this call store the step
AlwaysStored(k, r) == TRUE
StoresStep(k, r) == <<k, Ref(r)>> \notin steps
StepStored(k, r) == steps \union {<<k, Ref(r)>>}

Sends(k, r) == sends' = [sends EXCEPT ![<<k, r>>] = @ + 1]
Goes(s, pc) == sweep' = [sweep EXCEPT ![s].pc = pc]

\* Step 1.  At its turn the run is looked up afresh and timed by the start of
\* the sweep, so a newer gate is not overdue yet; whether the job still waits is
\* not looked up.
Overdue(s) == Enforced(dri) /\ LatestPosted = sweep[s].run /\ sweep[s].waited >= 1
Nudge(s) ==
    /\ sweep[s].pc = "read"
    /\ LET r == sweep[s].run
       IN \/ ~Overdue(s) /\ sweep' = [sweep EXCEPT ![s] = NoSweep] /\ UNCHANGED <<steps, sends>>
          \/ Overdue(s) /\ StoresStep(1, r)
             /\ steps' = StepStored(1, r) /\ Goes(s, "nudging") /\ UNCHANGED sends
          \/ Overdue(s) /\ ~StoresStep(1, r) /\ Goes(s, "nudged") /\ UNCHANGED <<steps, sends>>
    /\ UNCHANGED <<slaGate, slaWaits, age, dri, eleft>>

SendNudge(s) ==
    /\ sweep[s].pc = "nudging" /\ Sends(1, sweep[s].run) /\ Goes(s, "nudged")
    /\ UNCHANGED <<slaGate, slaWaits, age, dri, steps, eleft>>

\* Step 2, when there is somebody else to tell.
TellsSecond(s) ==
    sweep[s].waited >= 2 /\ Addressee(dri) # NoPerson
Tell(s) ==
    /\ sweep[s].pc = "nudged"
    /\ LET r == sweep[s].run
       IN \/ TellsSecond(s) /\ StoresStep(2, r)
             /\ steps' = StepStored(2, r) /\ Goes(s, "telling")
          \/ ~(TellsSecond(s) /\ StoresStep(2, r)) /\ Goes(s, "told") /\ UNCHANGED steps
    /\ UNCHANGED <<slaGate, slaWaits, age, dri, sends, eleft>>

SendTell(s) ==
    /\ sweep[s].pc = "telling" /\ Sends(2, sweep[s].run) /\ Goes(s, "told")
    /\ UNCHANGED <<slaGate, slaWaits, age, dri, steps, eleft>>

\* Step 3 sends nothing.
FlagsAtTwice(s) == sweep[s].waited >= 3
Flag(s) ==
    /\ sweep[s].pc = "told"
    /\ steps' = IF FlagsAtTwice(s) THEN StepStored(3, sweep[s].run) ELSE steps
    /\ sweep' = [sweep EXCEPT ![s] = NoSweep]
    /\ UNCHANGED <<slaGate, slaWaits, age, dri, sends, eleft>>

SweeperDies(s) ==
    /\ sweep[s].pc # "idle" /\ eleft > 0
    /\ eleft' = eleft - 1
    /\ sweep' = [sweep EXCEPT ![s] = NoSweep]
    /\ UNCHANGED <<slaGate, slaWaits, age, dri, steps, sends>>

SweepStep(s) == Nudge(s) \/ SendNudge(s) \/ Tell(s) \/ SendTell(s) \/ Flag(s)
SlaNext ==
    \/ Park \/ Answer \/ RungPasses
    \/ \E s \in Sweepers : ReadRow(s) \/ SweepStep(s) \/ SweeperDies(s)

SlaSpec == SlaInit /\ [][SlaNext]_slaVars

-----------------------------------------------------------------------------
(* Properties.                                                              *)

\* The type invariant.
SlaTypeOK ==
    /\ slaGate \in SlaGates \union {0} /\ (slaWaits => slaGate # 0)
    /\ age \in [SlaGates -> 0 .. 3] /\ dri \in Assignments
    /\ steps \subseteq Steps \X SlaGates
    /\ \A s \in Sweepers : sweep[s].pc # "idle" => sweep[s].run \in 1 .. slaGate
    /\ eleft \in Nat

\* The ladder is climbed in order, once per gate, by however many sweeps at a
\* time: nothing is sent twice, and no later step without the nudge, even if
\* sweeps die on the way (a crash under-notifies, it never double-fires).
LadderOnceInOrder ==
    /\ \A x \in Steps \X SlaGates : sends[x] <= 1 /\ (sends[x] = 1 => x \in steps)
    /\ \A r \in SlaGates : (<<2, r>> \in steps \/ <<3, r>> \in steps) => <<1, r>> \in steps
    /\ \A r \in SlaGates : <<3, r>> \in steps => age[r] = 3

\* Nobody is told "you can't answer this gate" about a gate that is his own:
\* with one DRI column empty the other one's person owns every gate.
OwnerIsNotSecond ==
    \A s \in Sweepers : sweep[s].pc = "telling" =>
        LET owner == OwnerOf(dri)
        IN Addressee(dri) \notin {owner, NoPerson}

\* Everybody is told once, in order, and only what concerns him.
LadderIsSound == LadderOnceInOrder /\ OwnerIsNotSecond

\* Fair: time passes and every process sweeps to the end, and a
\* sweep that finds the job at its turn reads it again at the next interval.
SlaFairness ==
    /\ WF_slaVars(RungPasses)
    /\ \A s \in Sweepers : WF_slaVars(ReadRow(s)) /\ WF_slaVars(SweepStep(s))
SlaFairSpec == SlaSpec /\ SlaFairness

\* Nobody waits, or the gate is on the standup: a gate that stays unanswered
\* while somebody is on the hook for it is to end up there, whatever sweeps died.
GateIsFlagged == slaWaits /\ Enforced(dri) => <<3, slaGate>> \in steps
=============================================================================
