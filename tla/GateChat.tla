------------------------------ MODULE GateChat ------------------------------
(***************************************************************************)
(* Questions at a gate.  A question is stored and acknowledged at once; a    *)
(* background task answers it, from the record (fast lane) or by a read-only  *)
(* run in the repository's workspace, whose lock stage runs hold too, and    *)
(* stores the answer.  There is one job, of a feature or not.                *)
(*                                                                         *)
(* Time is the age of a question: one that waits for the lock, or whose task  *)
(* died, may grow older than the window after which nobody waits for its      *)
(* answer; one that runs at once is answered within it.                      *)
(***************************************************************************)
EXTENDS Naturals, Sequences, FiniteSets

CONSTANTS
    ItemKinds,      \* kinds of jobs that are looked at
    Questions,      \* 1 .. n, in the order they are asked
    TurnsPerGate,   \* chat_max_turns_per_gate
    LastGate,       \* bound of the stages and of the attempts of a stage
    ChatDeaths      \* how often the process may die or shut down

ASSUME ChatAssumption ==
    /\ ItemKinds \subseteq {"feature", "v1"} /\ ItemKinds # {}
    /\ IsFiniteSet(Questions) /\ Questions = 1 .. Cardinality(Questions)
    /\ TurnsPerGate \in Nat
    /\ LastGate \in Nat /\ ChatDeaths \in Nat

VARIABLES
    item,        \* the kind of the job
    at,          \* its stage and the attempts of it
    due,         \* the gate is answered and the stage's run is to come
    turns,       \* the rows of gate_chat
    task,        \* per question, the task that answers it
    aged,        \* questions older than the pending window
    staging,     \* the stage's run is in the workspace
    tree,        \* what the working tree holds besides commits
    leaked,      \* (history) a stage committed what a chat wrote
    deadlines    \* deaths left

chatVars == <<item, at, due, turns, task, aged, staging, tree, leaked, deadlines>>

NoTask == [pc |-> "none", stage |-> 0, attempt |-> 0, session |-> 0]
LivePcs == {"fast", "waiting", "inside"}
AliveQ(q) == task[q].pc \in LivePcs
Turn(role, q, stage, attempt, session) ==
    [role |-> role, q |-> q, stage |-> stage, attempt |-> attempt, session |-> session]
Attempt == IF at.attempts = 0 THEN 1 ELSE at.attempts

ChatInit ==
    /\ item \in ItemKinds /\ at = [stage |-> 0, attempts |-> 1] /\ due = FALSE
    /\ turns = <<>> /\ task = [q \in Questions |-> NoTask] /\ aged = {}
    /\ staging = FALSE /\ tree = "clean" /\ leaked = FALSE /\ deadlines = ChatDeaths

-----------------------------------------------------------------------------
(* Asking.                                                                  *)

RowsOfStage(stage) == {i \in DOMAIN turns : turns[i].stage = stage}
RowsOf(stage, attempt) == {i \in RowsOfStage(stage) : turns[i].attempt = attempt}

\* _chat_pending: the last turn of this attempt is a question and not too old
PendingIn(rows) ==
    \E last \in rows :
        /\ \A i \in rows : i <= last
        /\ turns[last].role = "human" /\ turns[last].q \notin aged
PendingAtStage(stage, attempt) == PendingIn(RowsOfStage(stage))
Pending(stage, attempt) == PendingIn(RowsOf(stage, attempt))
HumanTurns(stage, attempt) ==
    Cardinality({i \in DOMAIN turns : turns[i].role = "human" /\ turns[i].stage = stage /\ turns[i].attempt = attempt})

\* gate_chat_post
Ask(q) ==
    /\ task[q] = NoTask /\ \A r \in Questions : r < q => task[r] # NoTask
    /\ HumanTurns(at.stage, Attempt) < TurnsPerGate
    /\ ~Pending(at.stage, Attempt)
    /\ turns' = Append(turns, Turn("human", q, at.stage, Attempt, 0))
    /\ task' = [task EXCEPT ![q] = [pc |-> "fast", stage |-> at.stage, attempt |-> Attempt, session |-> 0]]
    /\ UNCHANGED <<item, at, due, aged, staging, tree, leaked, deadlines>>

\* The window is chat_timeout_seconds and a minute, and the wait for the lock counts.
GrowsOld(q) ==
    /\ task[q].pc \in {"waiting", "dead"} /\ aged' = aged \union {q}
    /\ UNCHANGED <<item, at, due, turns, task, staging, tree, leaked, deadlines>>

-----------------------------------------------------------------------------
(* Answering.                                                               *)

Answered(q, session) ==
    /\ turns' = Append(turns, Turn("engine", q, task[q].stage, task[q].attempt, session))
    /\ task' = [task EXCEPT ![q].pc = "done"]

\* The fast lane answers, or it escalates, fails or is off.
FastLane(q) ==
    /\ task[q].pc = "fast"
    /\ \/ Answered(q, 0)
       \/ task' = [task EXCEPT ![q].pc = "waiting"] /\ UNCHANGED turns
    /\ UNCHANGED <<item, at, due, aged, staging, tree, leaked, deadlines>>

\* A chat about a feature takes the lock of the repository; another item has a
\* clone of its own, whose lock only chats take.
NoChatInside == \A r \in Questions : task[r].pc # "inside"
WorkspaceFree == NoChatInside /\ ~staging

\* _chat_session_for: the gate's own session goes on, else a fork of the
\* stage's or a session of its own is new.
OfStage(q) == {i \in DOMAIN turns : turns[i].role = "engine" /\ turns[i].session # 0 /\ turns[i].stage = task[q].stage}
OfGate(q) == {i \in OfStage(q) : turns[i].attempt = task[q].attempt}
LastOf(rows) == turns[CHOOSE i \in rows : \A j \in rows : j <= i].session
Sessions(q) == IF OfGate(q) # {} THEN {LastOf(OfGate(q)), q} ELSE {q}

\* Under the lock: the question's moment passed when the stage moved on.
MovedOn(q) == at.stage # task[q].stage
EntersRepo(q) ==
    /\ item = "feature" /\ task[q].pc = "waiting" /\ WorkspaceFree
    /\ IF MovedOn(q) THEN Answered(q, 0)
       ELSE /\ \E s \in Sessions(q) : task' = [task EXCEPT ![q].pc = "inside", ![q].session = s]
            /\ UNCHANGED turns
    /\ UNCHANGED <<item, at, due, aged, staging, tree, leaked, deadlines>>

\* _chat_inner_v1: the item's last session, whatever it was asked at.
EntersClone(q) ==
    /\ item = "v1" /\ task[q].pc = "waiting" /\ NoChatInside
    /\ \E s \in (IF OfStage(q) # {} THEN {LastOf(OfStage(q)), q} ELSE {q}) :
          task' = [task EXCEPT ![q].pc = "inside", ![q].session = s]
    /\ UNCHANGED <<item, at, due, turns, aged, staging, tree, leaked, deadlines>>

\* A run that is only allowed to read may write all the same.
ChatWrites(q) ==
    /\ task[q].pc = "inside" /\ item = "feature" /\ tree' = "chat"
    /\ UNCHANGED <<item, at, due, turns, task, aged, staging, leaked, deadlines>>

\* The run's end: the tree is reset before the lock is given back, and a run
\* that failed leaves no session.
Leaves(q) ==
    /\ task[q].pc = "inside"
    /\ \E ok \in BOOLEAN : Answered(q, IF ok THEN task[q].session ELSE 0)
    /\ tree' = (IF item = "feature" THEN "clean" ELSE tree)
    /\ UNCHANGED <<item, at, due, aged, staging, leaked, deadlines>>

-----------------------------------------------------------------------------
(* The stage next door.                                                     *)

AnswerGate ==
    /\ item = "feature" /\ ~due /\ ~staging /\ due' = TRUE
    /\ \/ at.stage < LastGate /\ at' = [stage |-> at.stage + 1, attempts |-> 0]
       \/ at.attempts < LastGate /\ UNCHANGED at
    /\ UNCHANGED <<item, turns, task, aged, staging, tree, leaked, deadlines>>

\* prepare_feature_workspace cleans the tree under the lock.
StageEnters ==
    /\ item = "feature" /\ due /\ ~staging /\ NoChatInside
    /\ staging' = TRUE /\ tree' = "clean" /\ due' = FALSE
    /\ at' = [at EXCEPT !.attempts = @ + 1]
    /\ UNCHANGED <<item, turns, task, aged, leaked, deadlines>>

\* _checkpoint commits whatever the tree holds.
StageCommits ==
    /\ staging /\ staging' = FALSE
    /\ leaked' = (leaked \/ tree = "chat") /\ tree' = "clean"
    /\ UNCHANGED <<item, at, due, turns, task, aged, deadlines>>

-----------------------------------------------------------------------------
(* The end of the process.                                                  *)

\* Cancelled tasks leave a tombstone where the answer would stand.
TombstonesOf(alive) ==
    [i \in 1 .. Cardinality(alive) |->
        LET q == CHOOSE q \in alive : Cardinality({r \in alive : r <= q}) = i
        IN Turn("engine", q, task[q].stage, task[q].attempt, 0)]
Ended(pc) == task' = [q \in Questions |-> IF AliveQ(q) THEN [task[q] EXCEPT !.pc = pc] ELSE task[q]]
Stops ==
    /\ deadlines > 0 /\ deadlines' = deadlines - 1 /\ staging' = FALSE
    /\ due' = (due \/ staging)
    /\ UNCHANGED <<item, at, aged, tree, leaked>>
Tombstones == turns' = turns \o TombstonesOf({q \in Questions : AliveQ(q)})
ShutsDown == Stops /\ Tombstones /\ Ended("done")
Killed == Stops /\ UNCHANGED turns /\ Ended("dead")

ChatStep(q) == FastLane(q) \/ EntersRepo(q) \/ EntersClone(q) \/ Leaves(q)
ChatNext ==
    \/ \E q \in Questions : Ask(q) \/ GrowsOld(q) \/ ChatStep(q) \/ ChatWrites(q)
    \/ AnswerGate \/ StageEnters \/ StageCommits \/ ShutsDown \/ Killed
ChatSpec == ChatInit /\ [][ChatNext]_chatVars

-----------------------------------------------------------------------------
(* Properties.                                                              *)

\* The type invariant: one at a time is in a workspace.
ChatTypeOK ==
    /\ item = "feature" /\ staging => NoChatInside
    /\ \A q, r \in Questions : task[q].pc = "inside" /\ task[r].pc = "inside" => q = r
    /\ \A i \in DOMAIN turns : task[turns[i].q].pc # "none"

\* One question at a time is being answered at a gate, whatever other gates of
\* the stage were asked, until one of the gate's questions has waited too long.
\* That one ends it for the gate: only the last row is looked at, so that its
\* late answer hides the question after it from the next.
SameGate(q, r) == task[q].stage = task[r].stage /\ task[q].attempt = task[r].attempt
SingleFlight ==
    \A q, r \in Questions :
        q < r /\ AliveQ(q) /\ AliveQ(r) /\ SameGate(q, r) =>
            \E x \in aged : x <= q /\ SameGate(x, q)

\* A session that answers the questions of one gate never answers another's.
SessionOfOneGate ==
    \A i, j \in DOMAIN turns :
        turns[i].session # 0 /\ turns[i].session = turns[j].session =>
            turns[i].stage = turns[j].stage /\ turns[i].attempt = turns[j].attempt

\* What a chat leaves in the tree never ends up in a commit.
ChatNeverCommitted == ~leaked

\* A task that ended has left an answer, if only a tombstone.
EndedIsAnswered ==
    \A q \in Questions : task[q].pc = "done" =>
        \E i \in DOMAIN turns : turns[i].role = "engine" /\ turns[i].q = q

\* A gate's chat is its own: one question at a time, each one answered, in a
\* session of this gate, and without a trace in the branch.
ChatIsContained == SingleFlight /\ EndedIsAnswered /\ SessionOfOneGate /\ ChatNeverCommitted

\* Fair: tasks go on, the lock's queue is first come first
\* served, stage runs end, and time passes.
ChatFairness ==
    /\ WF_chatVars(StageCommits) /\ WF_chatVars(StageEnters)
    /\ \A q \in Questions :
        SF_chatVars(ChatStep(q)) /\ WF_chatVars(GrowsOld(q) /\ task[q].pc = "dead")
ChatFairSpec == ChatSpec /\ ChatFairness

\* The gate's chat is open for a question: none keeps it closed for ever, it is
\* to be answered or its window to end.
ChatIsOpen == ~Pending(at.stage, Attempt)
=============================================================================
