----------------------------- MODULE ChatProofs -----------------------------
(*****************************************************************************)
(* What holds of the questions at a gate and of the stream of a job, for any *)
(* number of questions, stages, turns and viewers: the two inductive         *)
(* invariants, and the properties that follow from them.                     *)
(*****************************************************************************)
EXTENDS GateChat, Broker, TLAPS, FiniteSetTheorems

-----------------------------------------------------------------------------
(* GateChat: a question at a gate, answered in a workspace that is not its own. *)

Pcs == {"none", "fast", "waiting", "inside", "done", "dead"}
Tasks == [pc : Pcs, stage : Nat, attempt : Nat, session : Questions \union {0}]
TurnRows == [role : {"human", "engine"}, q : Questions, stage : Nat, attempt : Nat,
             session : Questions \union {0}]
Asked(q) == task[q].pc # "none"

TalkTypes ==
    /\ item \in {"feature", "v1"} /\ at \in [stage : Nat, attempts : Nat]
    /\ turns \in Seq(TurnRows) /\ task \in [Questions -> Tasks]
    /\ aged \subseteq {q \in Questions : Asked(q)}

\* Questions are asked in their order, and what was not asked has no task.
AskedInOrder ==
    \A q \in Questions :
        /\ ~Asked(q) => task[q] = NoTask
        /\ \A r \in Questions : r < q /\ Asked(q) => Asked(r)

\* A row is of the gate its question was asked at.
RowsHaveGates ==
    \A i \in DOMAIN turns, q \in Questions :
        turns[i].q = q => Asked(q) /\ turns[i].stage = task[q].stage /\ turns[i].attempt = task[q].attempt

\* A session bears the number of the question that opened it, at the same gate.
SessionsHaveGates ==
    \A s \in Questions :
        /\ \A q \in Questions : task[q].session = s => Asked(s) /\ SameGate(s, q)
        /\ \A i \in DOMAIN turns : turns[i].session = s =>
              Asked(s) /\ turns[i].stage = task[s].stage /\ turns[i].attempt = task[s].attempt

\* An item without stages has one gate.
OneGateOfV1 ==
    item = "v1" => /\ at = [stage |-> 0, attempts |-> 1]
                   /\ \A q \in Questions : Asked(q) => task[q].stage = 0 /\ task[q].attempt = 1

\* The last row of its gate.
IsLast(i) ==
    \A j \in DOMAIN turns :
        turns[j].stage = turns[i].stage /\ turns[j].attempt = turns[i].attempt => j <= i
\* A question of the gate, no later than q, has waited too long.
Overdue(q) == \E x \in aged : x <= q /\ SameGate(x, q)

\* The question that is being answered is the last row of its gate, unless some
\* question before it has waited too long.
LiveIsLast ==
    \A q \in Questions : AliveQ(q) =>
        Overdue(q) \/ \E i \in DOMAIN turns : turns[i].role = "human" /\ turns[i].q = q /\ IsLast(i)

TalkInv ==
    /\ TalkTypes /\ AskedInOrder /\ RowsHaveGates /\ SessionsHaveGates /\ OneGateOfV1
    /\ LiveIsLast /\ SingleFlight /\ EndedIsAnswered

LEMMA QuestionsCount ==
    /\ Questions \subseteq Nat \ {0} /\ IsFiniteSet(Questions) /\ Cardinality(Questions) \in Nat
    /\ Questions = 1 .. Cardinality(Questions)
<1>1. IsFiniteSet(Questions) /\ Questions = 1 .. Cardinality(Questions)
  BY ChatAssumption DEF ChatAssumption
<1>2. Cardinality(Questions) \in Nat
  BY <1>1, FS_CardinalityType
<1>3. \A n \in Nat : 1 .. n \subseteq Nat \ {0}
  OBVIOUS
<1> QED
  BY <1>1, <1>2, <1>3

LEMMA TalkStarts == ChatInit => TalkInv
<1> SUFFICES ASSUME ChatInit PROVE TalkInv
  OBVIOUS
<1>1. \A q \in Questions : task[q] = NoTask
  BY DEF ChatInit
<1>2. NoTask \in Tasks /\ NoTask.pc = "none" /\ NoTask.session = 0
  BY DEF NoTask, Tasks, Pcs
<1>3. TalkTypes
  BY <1>2, ChatAssumption DEF ChatInit, TalkTypes, ChatAssumption
<1>4. \A q \in Questions : ~Asked(q) /\ ~AliveQ(q) /\ task[q].pc # "done"
  BY <1>1, <1>2 DEF Asked, AliveQ, LivePcs
<1>5. DOMAIN turns = {}
  BY DEF ChatInit
<1> QED
  BY QuestionsCount, <1>1, <1>2, <1>3, <1>4, <1>5 DEF ChatInit, TalkInv, AskedInOrder, RowsHaveGates, SessionsHaveGates,
     OneGateOfV1, LiveIsLast, SingleFlight, EndedIsAnswered

\* What every step but a question's own leaves as it is.
LEMMA GatesStay ==
    ASSUME TalkTypes, task' \in [Questions -> Tasks],
           \A r \in Questions : Asked(r) => /\ task'[r].stage = task[r].stage
                                            /\ task'[r].attempt = task[r].attempt,
           aged \subseteq aged', aged' \subseteq Questions,
           NEW q \in Questions, Asked(q), Overdue(q)
    PROVE  Overdue(q)'
  BY DEF TalkTypes, Overdue, SameGate

LEMMA RowAppended ==
    ASSUME turns \in Seq(TurnRows), NEW row \in TurnRows, turns' = Append(turns, row)
    PROVE  /\ turns' \in Seq(TurnRows) /\ DOMAIN turns' = DOMAIN turns \union {Len(turns) + 1}
           /\ turns'[Len(turns) + 1] = row /\ Len(turns) + 1 \notin DOMAIN turns
           /\ \A i \in DOMAIN turns : turns'[i] = turns[i] /\ i < Len(turns) + 1
  OBVIOUS

\* A question that is asked: its task and its row are new, and the chat of its
\* gate was open.
LEMMA AskingQ ==
    ASSUME TalkInv, NEW q \in Questions, Ask(q)
    PROVE  TalkInv'
<1> USE DEF TalkInv
<1>1. at.stage \in Nat /\ at.attempts \in Nat /\ Attempt \in Nat
  BY DEF TalkTypes, Attempt
<1>2. PICK new : new = [pc |-> "fast", stage |-> at.stage, attempt |-> Attempt, session |-> 0]
  OBVIOUS
<1>3. new \in Tasks /\ new.pc = "fast" /\ new.stage = at.stage /\ new.attempt = Attempt /\ new.session = 0
  BY <1>1, <1>2 DEF Tasks, Pcs
<1>4. PICK row : row = Turn("human", q, at.stage, Attempt, 0)
  OBVIOUS
<1>5. /\ row \in TurnRows /\ row.role = "human" /\ row.q = q /\ row.stage = at.stage
      /\ row.attempt = Attempt /\ row.session = 0
  BY <1>1, <1>4 DEF TurnRows, Turn
<1>6. /\ task[q] = NoTask /\ \A r \in Questions : r < q => task[r] # NoTask
      /\ ~Pending(at.stage, Attempt)
      /\ turns' = Append(turns, row) /\ task' = [task EXCEPT ![q] = new]
      /\ UNCHANGED <<item, at, aged>>
  BY <1>2, <1>4 DEF Ask
<1>7. ~Asked(q) /\ ~AliveQ(q) /\ q \notin aged /\ task[q].session = 0
  BY <1>6 DEF Asked, NoTask, TalkTypes, AliveQ, LivePcs
<1>8. /\ task' \in [Questions -> Tasks] /\ task'[q] = new
      /\ \A r \in Questions \ {q} : task'[r] = task[r]
  BY <1>3, <1>6 DEF TalkTypes
<1>9. PICK n : n = Len(turns) + 1
  OBVIOUS
<1>10. /\ turns' \in Seq(TurnRows) /\ DOMAIN turns' = DOMAIN turns \union {n} /\ turns'[n] = row
       /\ n \notin DOMAIN turns /\ \A i \in DOMAIN turns : turns'[i] = turns[i] /\ i < n /\ i \in Nat
       /\ n \in Nat
  BY <1>5, <1>6, <1>9, RowAppended DEF TalkTypes
<1>11. \A i \in DOMAIN turns : turns[i] \in TurnRows /\ turns[i].q \in Questions /\ turns[i].q # q
  <2>1. \A i \in DOMAIN turns : turns[i] \in TurnRows
    BY DEF TalkTypes
  <2> QED
    BY <1>7, <2>1 DEF RowsHaveGates, TurnRows
<1>12. Asked(q)' /\ AliveQ(q)' /\ \A r \in Questions \ {q} : (Asked(r)' <=> Asked(r)) /\ (AliveQ(r)' <=> AliveQ(r))
  BY <1>3, <1>8 DEF Asked, AliveQ, LivePcs
<1>13. TalkTypes'
  BY <1>6, <1>8, <1>10, <1>12, <1>7 DEF TalkTypes
<1>14. AskedInOrder'
  <2>1. \A r \in Questions : r < q => Asked(r)
    BY <1>6 DEF AskedInOrder
  <2>2. \A r \in Questions : Asked(r) => ~(q < r)
    BY <1>7 DEF AskedInOrder
  <2> QED
    BY <1>8, <1>12, <2>1, <2>2 DEF AskedInOrder
<1>15. RowsHaveGates'
  <2>1. ASSUME NEW i \in DOMAIN turns', NEW r \in Questions, turns'[i].q = r
        PROVE  Asked(r)' /\ turns'[i].stage = task'[r].stage /\ turns'[i].attempt = task'[r].attempt
    <3>1. CASE i = n
      BY <1>3, <1>5, <1>8, <1>10, <1>12, <2>1, <3>1
    <3>2. CASE i # n
      BY <1>8, <1>10, <1>11, <1>12, <2>1, <3>2 DEF RowsHaveGates
    <3> QED
      BY <3>1, <3>2
  <2> QED
    BY <2>1 DEF RowsHaveGates
<1>16. SessionsHaveGates'
  <2>1. ASSUME NEW s \in Questions, NEW r \in Questions, task'[r].session = s
        PROVE  Asked(s)' /\ SameGate(s, r)'
    <3>1. r # q /\ task'[r] = task[r]
      BY <1>3, <1>8, <2>1, QuestionsCount
    <3>2. Asked(s) /\ SameGate(s, r)
      BY <2>1, <3>1 DEF SessionsHaveGates
    <3>3. s # q
      BY <1>7, <3>2
    <3> QED
      BY <1>8, <1>12, <3>1, <3>2, <3>3 DEF SameGate
  <2>2. ASSUME NEW s \in Questions, NEW i \in DOMAIN turns', turns'[i].session = s
        PROVE  Asked(s)' /\ turns'[i].stage = task'[s].stage /\ turns'[i].attempt = task'[s].attempt
    <3>1. i # n /\ i \in DOMAIN turns /\ turns'[i] = turns[i]
      BY <1>5, <1>10, <2>2, QuestionsCount
    <3>2. Asked(s) /\ turns[i].stage = task[s].stage /\ turns[i].attempt = task[s].attempt
      BY <2>2, <3>1 DEF SessionsHaveGates
    <3>3. s # q
      BY <1>7, <3>2
    <3> QED
      BY <1>8, <1>12, <3>1, <3>2, <3>3
  <2> QED
    BY <2>1, <2>2 DEF SessionsHaveGates
<1>17. OneGateOfV1'
  BY <1>3, <1>6, <1>8, <1>12 DEF OneGateOfV1, Attempt
\* Who is being answered at the new question's gate has waited too long.
<1>18. \A r \in Questions \ {q} : Overdue(r) => Overdue(r)'
  <2>1. \A x \in aged : x \in Questions \ {q}
    BY <1>7 DEF TalkTypes
  <2> QED
    BY <1>6, <1>8, <2>1 DEF Overdue, SameGate
<1>19. ASSUME NEW r \in Questions \ {q}, AliveQ(r),
              task[r].stage = at.stage, task[r].attempt = Attempt
       PROVE  Overdue(r)
  <2>1. CASE Overdue(r)
    BY <2>1
  <2>2. ASSUME NEW i \in DOMAIN turns, turns[i].role = "human", turns[i].q = r, IsLast(i)
        PROVE  Overdue(r)
    <3>1. turns[i].stage = at.stage /\ turns[i].attempt = Attempt
      BY <1>19, <2>2 DEF RowsHaveGates
    <3>2. i \in RowsOf(at.stage, Attempt) /\ \A j \in RowsOf(at.stage, Attempt) : j <= i
      BY <2>2, <3>1 DEF RowsOf, RowsOfStage, IsLast
    <3>3. r \in aged
      BY <1>6, <2>2, <3>2 DEF Pending, PendingIn
    <3> QED
      BY <3>3, QuestionsCount DEF Overdue, SameGate
  <2> QED
    BY <1>19, <2>1, <2>2 DEF LiveIsLast
<1>20. LiveIsLast'
  <2>1. ASSUME NEW r \in Questions \ {q}, AliveQ(r)
        PROVE  Overdue(r)' \/ \E i \in DOMAIN turns' : turns'[i].role = "human" /\ turns'[i].q = r /\ IsLast(i)'
    <3>1. CASE Overdue(r)
      BY <1>18, <3>1
    <3>2. ASSUME NEW i \in DOMAIN turns, turns[i].role = "human", turns[i].q = r, IsLast(i)
          PROVE  Overdue(r)' \/ IsLast(i)'
      <4>1. CASE turns[i].stage = at.stage /\ turns[i].attempt = Attempt
        <5>1. task[r].stage = at.stage /\ task[r].attempt = Attempt
          BY <3>2, <4>1 DEF RowsHaveGates
        <5> QED
          BY <1>18, <1>19, <2>1, <5>1
      <4>2. CASE ~(turns[i].stage = at.stage /\ turns[i].attempt = Attempt)
        <5>1. IsLast(i)'
          BY <1>5, <1>10, <3>2, <4>2 DEF IsLast
        <5> QED
          BY <5>1
      <4> QED
        BY <4>1, <4>2
    <3>3. CASE ~Overdue(r)
      <4>1. PICK i \in DOMAIN turns : turns[i].role = "human" /\ turns[i].q = r /\ IsLast(i)
        BY <2>1, <3>3 DEF LiveIsLast
      <4> QED
        BY <1>10, <3>2, <4>1
    <3> QED
      BY <3>1, <3>3
  <2>2. turns'[n].role = "human" /\ turns'[n].q = q /\ IsLast(n)'
    BY <1>5, <1>10 DEF IsLast
  <2> QED
    BY <1>10, <1>12, <2>1, <2>2 DEF LiveIsLast
<1>21. SingleFlight'
  <2> SUFFICES ASSUME NEW r \in Questions, NEW u \in Questions, r < u, AliveQ(r)', AliveQ(u)', SameGate(r, u)'
               PROVE  Overdue(r)'
    BY DEF SingleFlight, Overdue
  <2>1. r # q
    BY <1>7, <1>12, QuestionsCount DEF AskedInOrder, AliveQ, LivePcs, Asked
  <2>2. CASE u = q
    <3>1. task[r].stage = at.stage /\ task[r].attempt = Attempt
      BY <1>3, <1>8, <2>1, <2>2 DEF SameGate
    <3> QED
      BY <1>12, <1>18, <1>19, <2>1, <3>1
  <2>3. CASE u # q
    <3>1. SameGate(r, u)
      BY <1>8, <2>1, <2>3 DEF SameGate
    <3>2. Overdue(r)
      BY <1>12, <2>1, <2>3, <3>1 DEF SingleFlight, Overdue
    <3> QED
      BY <1>18, <2>1, <3>2
  <2> QED
    BY <2>2, <2>3
<1>22. EndedIsAnswered'
  <2>1. \A r \in Questions : task'[r].pc = "done" => r # q /\ task[r].pc = "done"
    BY <1>3, <1>8
  <2> QED
    BY <1>10, <2>1 DEF EndedIsAnswered
<1> QED
  BY <1>13, <1>14, <1>15, <1>16, <1>17, <1>20, <1>21, <1>22

\* A task that goes on without a row: it waits, or it runs in a session of its gate.
LEMMA MovingOn ==
    ASSUME TalkInv, NEW q \in Questions, AliveQ(q), NEW new \in Tasks,
           task' = [task EXCEPT ![q] = new], new.pc \in LivePcs,
           new.stage = task[q].stage, new.attempt = task[q].attempt,
           \A s \in Questions : new.session = s => Asked(s) /\ SameGate(s, q),
           UNCHANGED <<item, at, turns, aged>>
    PROVE  TalkInv'
<1> USE DEF TalkInv
<1>1. /\ task' \in [Questions -> Tasks] /\ task'[q] = new
      /\ \A r \in Questions \ {q} : task'[r] = task[r]
  BY DEF TalkTypes
<1>2. \A r \in Questions : /\ Asked(r)' <=> Asked(r)
                           /\ AliveQ(r)' <=> AliveQ(r)
                           /\ task'[r].stage = task[r].stage /\ task'[r].attempt = task[r].attempt
                           /\ task'[r].pc = "done" <=> task[r].pc = "done"
  BY <1>1 DEF Asked, AliveQ, LivePcs
<1>3. TalkTypes'
  BY <1>1, <1>2 DEF TalkTypes
<1>4. Asked(q)
  BY DEF Asked, AliveQ, LivePcs
<1>5. AskedInOrder'
  BY <1>1, <1>2, <1>4 DEF AskedInOrder
<1>6. RowsHaveGates'
  BY <1>2 DEF RowsHaveGates
<1>7. SessionsHaveGates'
  <2>1. ASSUME NEW s \in Questions, NEW r \in Questions, task'[r].session = s
        PROVE  Asked(s) /\ SameGate(s, r)
    BY <1>1, <2>1 DEF SessionsHaveGates
  <2> QED
    BY <1>2, <2>1 DEF SessionsHaveGates, SameGate
<1>8. OneGateOfV1' /\ EndedIsAnswered'
  BY <1>2 DEF OneGateOfV1, EndedIsAnswered
<1>9. \A r \in Questions : Overdue(r) <=> Overdue(r)'
  <2>1. aged \subseteq Questions
    BY DEF TalkTypes
  <2> QED
    BY <1>2, <2>1 DEF Overdue, SameGate
<1>10. LiveIsLast'
  <2>1. \A i : IsLast(i)' <=> IsLast(i)
    BY DEF IsLast
  <2> QED
    BY <1>2, <1>9, <2>1 DEF LiveIsLast
<1>11. SingleFlight'
  BY <1>2, <1>9 DEF SingleFlight, Overdue, SameGate
<1> QED
  BY <1>3, <1>5, <1>6, <1>7, <1>8, <1>10, <1>11

\* An answer is the row of its question's gate, in no session or in the task's.
LEMMA Answering ==
    ASSUME TalkInv, NEW q \in Questions, AliveQ(q), NEW session \in {0, task[q].session},
           Answered(q, session), UNCHANGED <<item, at, aged>>
    PROVE  TalkInv'
<1> USE DEF TalkInv
<1>1. PICK row : row = Turn("engine", q, task[q].stage, task[q].attempt, session)
  OBVIOUS
<1>2. /\ row \in TurnRows /\ row.role = "engine" /\ row.q = q /\ row.stage = task[q].stage
      /\ row.attempt = task[q].attempt /\ row.session = session
  BY <1>1 DEF TurnRows, Turn, TalkTypes, Tasks
<1>3. turns' = Append(turns, row) /\ task' = [task EXCEPT ![q].pc = "done"]
  BY <1>1 DEF Answered
<1>4. /\ task' \in [Questions -> Tasks] /\ task'[q].pc = "done" /\ task'[q].session = task[q].session
      /\ \A r \in Questions : task'[r].stage = task[r].stage /\ task'[r].attempt = task[r].attempt
      /\ \A r \in Questions \ {q} : task'[r] = task[r]
  BY <1>3 DEF TalkTypes, Tasks, Pcs
<1>5. PICK n : n = Len(turns) + 1
  OBVIOUS
<1>6. /\ turns' \in Seq(TurnRows) /\ DOMAIN turns' = DOMAIN turns \union {n} /\ turns'[n] = row
      /\ n \notin DOMAIN turns /\ \A i \in DOMAIN turns : turns'[i] = turns[i] /\ i < n /\ i \in Nat
      /\ n \in Nat
  BY <1>2, <1>3, <1>5, RowAppended DEF TalkTypes
<1>7. Asked(q) /\ Asked(q)' /\ ~AliveQ(q)' /\ \A r \in Questions \ {q} : (Asked(r)' <=> Asked(r)) /\ (AliveQ(r)' <=> AliveQ(r))
  BY <1>4 DEF Asked, AliveQ, LivePcs
<1>8. TalkTypes'
  BY <1>4, <1>6, <1>7 DEF TalkTypes
<1>9. AskedInOrder'
  BY <1>4, <1>7 DEF AskedInOrder
<1>10. RowsHaveGates'
  <2>1. ASSUME NEW i \in DOMAIN turns', NEW r \in Questions, turns'[i].q = r
        PROVE  Asked(r)' /\ turns'[i].stage = task'[r].stage /\ turns'[i].attempt = task'[r].attempt
    <3>1. CASE i = n
      BY <1>2, <1>4, <1>6, <1>7, <2>1, <3>1
    <3>2. CASE i # n
      BY <1>4, <1>6, <1>7, <2>1, <3>2 DEF RowsHaveGates
    <3> QED
      BY <3>1, <3>2
  <2> QED
    BY <2>1 DEF RowsHaveGates
<1>11. SessionsHaveGates'
  <2>1. ASSUME NEW s \in Questions, NEW r \in Questions, task'[r].session = s
        PROVE  Asked(s)' /\ SameGate(s, r)'
    <3>1. task[r].session = s
      BY <1>4, <2>1
    <3> QED
      BY <1>4, <1>7, <3>1 DEF SessionsHaveGates, SameGate
  <2>2. ASSUME NEW s \in Questions, NEW i \in DOMAIN turns', turns'[i].session = s
        PROVE  Asked(s)' /\ turns'[i].stage = task'[s].stage /\ turns'[i].attempt = task'[s].attempt
    <3>1. CASE i = n
      <4>1. task[q].session = s
        BY <1>2, <1>6, <2>2, <3>1, QuestionsCount
      <4>2. Asked(s) /\ SameGate(s, q)
        BY <4>1 DEF SessionsHaveGates
      <4> QED
        BY <1>2, <1>4, <1>6, <1>7, <3>1, <4>2 DEF SameGate
    <3>2. CASE i # n
      BY <1>4, <1>6, <1>7, <2>2, <3>2 DEF SessionsHaveGates
    <3> QED
      BY <3>1, <3>2
  <2> QED
    BY <2>1, <2>2 DEF SessionsHaveGates
<1>12. OneGateOfV1'
  BY <1>4, <1>7 DEF OneGateOfV1
<1>13. \A r \in Questions : Overdue(r) <=> Overdue(r)'
  <2>1. aged \subseteq Questions
    BY DEF TalkTypes
  <2> QED
    BY <1>4, <2>1 DEF Overdue, SameGate
<1>14. SingleFlight'
  <2>1. \A r, u \in Questions : SameGate(r, u)' <=> SameGate(r, u)
    BY <1>4 DEF SameGate
  <2> QED
    BY <1>7, <1>13, <2>1 DEF SingleFlight, Overdue
<1>15. LiveIsLast'
  <2> SUFFICES ASSUME NEW r \in Questions, AliveQ(r)', ~Overdue(r)'
               PROVE  \E i \in DOMAIN turns' : turns'[i].role = "human" /\ turns'[i].q = r /\ IsLast(i)'
    BY DEF LiveIsLast
  <2>1. r # q /\ AliveQ(r) /\ ~Overdue(r)
    BY <1>7, <1>13
  <2>2. PICK i \in DOMAIN turns : turns[i].role = "human" /\ turns[i].q = r /\ IsLast(i)
    BY <2>1 DEF LiveIsLast
  <2>3. ~SameGate(q, r)
    <3>1. ASSUME SameGate(q, r), q < r PROVE FALSE
      <4>1. Overdue(q)
        BY <2>1, <3>1 DEF SingleFlight, Overdue
      <4>2. PICK x \in aged : x <= q /\ SameGate(x, q)
        BY <4>1 DEF Overdue
      <4>3. x \in Questions /\ x <= r
        BY <3>1, <4>2, QuestionsCount DEF TalkTypes
      <4> QED
        BY <2>1, <3>1, <4>2, <4>3 DEF Overdue, SameGate
    <3>2. ASSUME SameGate(q, r), r < q PROVE FALSE
      <4>1. SameGate(r, q)
        BY <3>2 DEF SameGate
      <4> QED
        BY <2>1, <3>2, <4>1 DEF SingleFlight, Overdue
    <3> QED
      BY <2>1, <3>1, <3>2, QuestionsCount
  <2>4. turns[i].stage = task[r].stage /\ turns[i].attempt = task[r].attempt
    BY <2>2 DEF RowsHaveGates
  <2>5. IsLast(i)'
    BY <1>2, <1>6, <2>2, <2>3, <2>4 DEF IsLast, SameGate
  <2> QED
    BY <1>6, <2>2, <2>5
<1>16. EndedIsAnswered'
  <2>1. turns'[n].role = "engine" /\ turns'[n].q = q
    BY <1>2, <1>6
  <2>2. \A r \in Questions \ {q} : task'[r].pc = "done" => task[r].pc = "done"
    BY <1>4
  <2> QED
    BY <1>6, <2>1, <2>2 DEF EndedIsAnswered
<1> QED
  BY <1>8, <1>9, <1>10, <1>11, <1>12, <1>14, <1>15, <1>16

\* A question that has waited too long.
LEMMA Aging ==
    ASSUME TalkInv, NEW q \in Questions, GrowsOld(q)
    PROVE  TalkInv'
<1> USE DEF TalkInv
<1>1. /\ aged' = aged \union {q} /\ UNCHANGED <<item, at, turns, task>> /\ Asked(q)
  BY DEF GrowsOld, Asked
<1>2. \A r : Overdue(r) => Overdue(r)'
  BY <1>1 DEF Overdue, SameGate
<1>3. \A i : IsLast(i)' <=> IsLast(i)
  BY <1>1 DEF IsLast
<1>4. LiveIsLast' /\ SingleFlight'
  BY <1>1, <1>2, <1>3 DEF LiveIsLast, SingleFlight, Overdue, AliveQ, SameGate
<1> QED
  BY <1>1, <1>4 DEF TalkTypes, AskedInOrder, RowsHaveGates, SessionsHaveGates, OneGateOfV1,
     EndedIsAnswered, Asked, SameGate

\* A step that is not about a question.
LEMMA TalkStays ==
    ASSUME TalkInv, UNCHANGED <<item, turns, task, aged>>, at' \in [stage : Nat, attempts : Nat],
           item = "v1" => at' = at
    PROVE  TalkInv'
  BY DEF TalkInv, TalkTypes, AskedInOrder, RowsHaveGates, SessionsHaveGates, OneGateOfV1, LiveIsLast,
     SingleFlight, EndedIsAnswered, Asked, AliveQ, SameGate, Overdue, IsLast

\* How many of alive come no later than q.
Place(alive, q) == Cardinality({r \in alive : r <= q})

LEMMA PlacesNumber ==
    ASSUME NEW alive \in SUBSET Questions
    PROVE  /\ Cardinality(alive) \in Nat
           /\ \A q \in alive : Place(alive, q) \in 1 .. Cardinality(alive)
           /\ \A q, r \in alive : Place(alive, q) = Place(alive, r) => q = r
           /\ \A i \in 1 .. Cardinality(alive) : \E q \in alive : Place(alive, q) = i
<1>1. IsFiniteSet(alive) /\ Cardinality(alive) \in Nat /\ alive \subseteq Nat
  BY QuestionsCount, FS_Subset, FS_CardinalityType
<1>2. ASSUME NEW q \in alive
      PROVE  /\ IsFiniteSet({r \in alive : r <= q}) /\ Place(alive, q) \in 1 .. Cardinality(alive)
  <2>1. {r \in alive : r <= q} \in SUBSET alive
    OBVIOUS
  <2>2. IsFiniteSet({r \in alive : r <= q}) /\ Place(alive, q) <= Cardinality(alive)
    BY <1>1, <2>1, FS_Subset DEF Place
  <2>3. q \in {r \in alive : r <= q}
    BY <1>1
  <2>4. Place(alive, q) \in Nat
    BY <2>2, FS_CardinalityType DEF Place
  <2>5. Place(alive, q) # 0
    BY <2>2, <2>3, FS_EmptySet DEF Place
  <2> QED
    BY <1>1, <2>2, <2>4, <2>5
<1>3. ASSUME NEW q \in alive, NEW r \in alive, q < r
      PROVE  Place(alive, q) # Place(alive, r)
  <2> DEFINE Q == {u \in alive : u <= q}
             R == {u \in alive : u <= r}
  <2>1. Q \in SUBSET R /\ r \in R /\ r \notin Q
    <3>1. \A u \in alive : u \in Nat
      BY <1>1
    <3>2. \A u \in alive : u <= q => u <= r
      BY <1>3, <3>1
    <3>3. ~(r <= q) /\ r <= r
      BY <1>3, <3>1
    <3> QED
      BY <3>2, <3>3
  <2>2. IsFiniteSet(R)
    BY <1>2
  <2>3. Place(alive, q) = Cardinality(Q) /\ Place(alive, r) = Cardinality(R)
    BY DEF Place
  <2> HIDE DEF Q, R
  <2>4. Cardinality(R) = Cardinality(Q) => R = Q
    BY <2>1, <2>2, FS_Subset
  <2> QED
    BY <2>1, <2>3, <2>4
<1>4. \A q, r \in alive : Place(alive, q) = Place(alive, r) => q = r
  <2>1. \A q, r \in alive : q < r \/ r < q \/ q = r
    BY <1>1
  <2> QED
    BY <1>3, <2>1
<1>5. \A i \in 1 .. Cardinality(alive) : \E q \in alive : Place(alive, q) = i
  <2> DEFINE f == [q \in alive |-> Place(alive, q)]
             T == 1 .. Cardinality(alive)
  <2>1. f \in Injection(alive, T)
    BY <1>2, <1>4 DEF Injection, IsInjective
  <2>2. IsFiniteSet(T) /\ Cardinality(T) = Cardinality(alive)
    <3>1. Cardinality(alive) \in Int /\ (1 > Cardinality(alive) => Cardinality(alive) = 0)
      BY <1>1
    <3> QED
      BY <1>1, <3>1, FS_Interval
  <2>3. f \in Surjection(alive, T)
    <3> HIDE DEF f, T
    <3> QED
      BY <2>1, <2>2, FS_Injection
  <2> QED
    BY <2>3 DEF Surjection
<1> QED
  BY <1>1, <1>2, <1>4, <1>5

\* One tombstone for each question that was alive, of its gate.
LEMMA TombstonesAreTurns ==
    ASSUME TalkTypes, NEW alive \in SUBSET Questions
    PROVE  /\ TombstonesOf(alive) \in Seq(TurnRows)
           /\ \A i \in DOMAIN TombstonesOf(alive) :
                /\ TombstonesOf(alive)[i].q \in alive
                /\ TombstonesOf(alive)[i].stage = task[TombstonesOf(alive)[i].q].stage
                /\ TombstonesOf(alive)[i].attempt = task[TombstonesOf(alive)[i].q].attempt
                /\ TombstonesOf(alive)[i].role = "engine" /\ TombstonesOf(alive)[i].session = 0
           /\ \A q \in alive : \E i \in DOMAIN TombstonesOf(alive) : TombstonesOf(alive)[i].q = q
<1> DEFINE At(i) == CHOOSE q \in alive : Cardinality({r \in alive : r <= q}) = i
           n == Cardinality(alive)
<1>1. n \in Nat /\ \A i \in 1 .. n : At(i) \in alive /\ Place(alive, At(i)) = i
  <2>1. n \in Nat /\ \A i \in 1 .. n : \E q \in alive : Place(alive, q) = i
    BY PlacesNumber
  <2>2. \A i : At(i) = CHOOSE q \in alive : Place(alive, q) = i
    BY DEF Place
  <2>3. \A i \in 1 .. n : (CHOOSE q \in alive : Place(alive, q) = i) \in alive
                        /\ Place(alive, CHOOSE q \in alive : Place(alive, q) = i) = i
    <3> HIDE DEF n
    <3> QED
      BY <2>1
  <2> HIDE DEF At, n
  <2> QED
    BY <2>1, <2>2, <2>3
<1>2. \A q \in alive : Place(alive, q) \in 1 .. n /\ At(Place(alive, q)) = q
  <2>1. \A q \in alive : Place(alive, q) \in 1 .. n
    BY PlacesNumber
  <2>2. \A q, r \in alive : Place(alive, q) = Place(alive, r) => q = r
    BY PlacesNumber
  <2> HIDE DEF At, n
  <2> QED
    BY <1>1, <2>1, <2>2
<1>3. TombstonesOf(alive) =
        [i \in 1 .. n |-> Turn("engine", At(i), task[At(i)].stage, task[At(i)].attempt, 0)]
  BY DEF TombstonesOf
<1>4. \A q \in alive : /\ Turn("engine", q, task[q].stage, task[q].attempt, 0) \in TurnRows
                       /\ Turn("engine", q, task[q].stage, task[q].attempt, 0).q = q
                       /\ Turn("engine", q, task[q].stage, task[q].attempt, 0).stage = task[q].stage
                       /\ Turn("engine", q, task[q].stage, task[q].attempt, 0).attempt = task[q].attempt
                       /\ Turn("engine", q, task[q].stage, task[q].attempt, 0).role = "engine"
                       /\ Turn("engine", q, task[q].stage, task[q].attempt, 0).session = 0
  BY DEF TalkTypes, Turn, Tasks, TurnRows
<1> HIDE DEF At, n
<1> QED
  BY <1>1, <1>2, <1>3, <1>4

\* The end of the process: whoever was alive has ended, and those who were
\* cancelled have left a tombstone.
LEMMA Ending ==
    ASSUME TalkInv, NEW pc \in {"done", "dead"}, Ended(pc), UNCHANGED <<item, at, aged>>,
           IF pc = "done" THEN Tombstones ELSE turns' = turns
    PROVE  TalkInv'
<1> USE DEF TalkInv
<1>1. /\ task' \in [Questions -> Tasks]
      /\ \A q \in Questions : /\ task'[q].stage = task[q].stage /\ task'[q].attempt = task[q].attempt
                              /\ task'[q].session = task[q].session
                              /\ IF AliveQ(q) THEN task'[q].pc = pc ELSE task'[q] = task[q]
  <2>1. task' = [q \in Questions |-> IF AliveQ(q) THEN [task[q] EXCEPT !.pc = pc] ELSE task[q]]
    BY DEF Ended
  <2>2. \A q \in Questions : task[q] \in Tasks
    BY DEF TalkTypes
  <2> QED
    BY <2>1, <2>2 DEF Tasks, Pcs
<1>2. \A q \in Questions : ~AliveQ(q)' /\ (Asked(q)' <=> Asked(q)) /\ (AliveQ(q) => Asked(q))
  BY <1>1 DEF AliveQ, LivePcs, Asked
<1> DEFINE alive == {q \in Questions : AliveQ(q)}
<1>3. PICK rows : /\ rows \in Seq(TurnRows) /\ turns' = turns \o rows
                  /\ \A i \in DOMAIN rows : \A q \in Questions : rows[i].q = q =>
                        /\ AliveQ(q) /\ rows[i].stage = task[q].stage /\ rows[i].attempt = task[q].attempt
                        /\ rows[i].role = "engine" /\ rows[i].session = 0
                  /\ \A i \in DOMAIN rows : rows[i].q \in Questions
                  /\ pc = "done" => \A q \in Questions : AliveQ(q) => \E i \in DOMAIN rows : rows[i].q = q
  <2>1. CASE pc = "dead"
    <3>1. turns' = turns \o <<>> /\ <<>> \in Seq(TurnRows) /\ DOMAIN <<>> = {}
      BY <2>1 DEF TalkTypes
    <3> QED
      BY <2>1, <3>1
  <2>2. CASE pc = "done"
    <3>1. turns' = turns \o TombstonesOf(alive)
      BY <2>2 DEF Tombstones
    <3>2. PICK stones : stones = TombstonesOf(alive)
      OBVIOUS
    <3>3. /\ stones \in Seq(TurnRows)
          /\ \A i \in DOMAIN stones :
                /\ stones[i].q \in alive
                /\ stones[i].stage = task[stones[i].q].stage
                /\ stones[i].attempt = task[stones[i].q].attempt
                /\ stones[i].role = "engine" /\ stones[i].session = 0
          /\ \A q \in alive : \E i \in DOMAIN stones : stones[i].q = q
      <4>1. alive \in SUBSET Questions
        OBVIOUS
      <4> HIDE DEF alive
      <4> QED
        BY <3>2, <4>1, TombstonesAreTurns
    <3>4. turns' = turns \o stones
      BY <3>1, <3>2
    <3>5. \A i \in DOMAIN stones : stones[i].q \in Questions /\ AliveQ(stones[i].q)
      BY <3>3
    <3>6. \A q \in Questions : AliveQ(q) => \E i \in DOMAIN stones : stones[i].q = q
      BY <3>3
    <3>7. \A i \in DOMAIN stones : \A q \in Questions : stones[i].q = q =>
             /\ AliveQ(q) /\ stones[i].stage = task[q].stage /\ stones[i].attempt = task[q].attempt
             /\ stones[i].role = "engine" /\ stones[i].session = 0
      BY <3>3, <3>5
    <3> QED
      BY <3>3, <3>4, <3>5, <3>6, <3>7
  <2> QED
    BY <2>1, <2>2
<1>4. /\ turns' \in Seq(TurnRows)
      /\ \A i \in DOMAIN turns : i \in DOMAIN turns' /\ turns'[i] = turns[i]
      /\ \A i \in DOMAIN rows : \E j \in DOMAIN turns' : turns'[j] = rows[i]
      /\ \A i \in DOMAIN turns' : (i \in DOMAIN turns /\ turns'[i] = turns[i]) \/ \E j \in DOMAIN rows : turns'[i] = rows[j]
  <2>1. turns \in Seq(TurnRows)
    BY DEF TalkTypes
  <2>2. \A j \in DOMAIN rows : j + Len(turns) \in DOMAIN turns' /\ turns'[j + Len(turns)] = rows[j]
    BY <1>3, <2>1
  <2>3. \A i \in DOMAIN turns' : i \notin DOMAIN turns => i - Len(turns) \in DOMAIN rows /\ turns'[i] = rows[i - Len(turns)]
    BY <1>3, <2>1
  <2>4. turns' \in Seq(TurnRows) /\ \A i \in DOMAIN turns : i \in DOMAIN turns' /\ turns'[i] = turns[i]
    BY <1>3, <2>1
  <2>5. \A i \in DOMAIN turns' : (i \in DOMAIN turns /\ turns'[i] = turns[i]) \/ \E j \in DOMAIN rows : turns'[i] = rows[j]
    BY <2>3, <2>4
  <2> QED
    BY <2>2, <2>4, <2>5
<1>5. TalkTypes'
  BY <1>1, <1>2, <1>4 DEF TalkTypes
<1>6. AskedInOrder'
  BY <1>1, <1>2 DEF AskedInOrder
<1>7. RowsHaveGates'
  <2>1. ASSUME NEW i \in DOMAIN turns', NEW q \in Questions, turns'[i].q = q
        PROVE  Asked(q) /\ turns'[i].stage = task[q].stage /\ turns'[i].attempt = task[q].attempt
    <3>1. CASE i \in DOMAIN turns /\ turns'[i] = turns[i]
      BY <2>1, <3>1 DEF RowsHaveGates
    <3>2. CASE \E j \in DOMAIN rows : turns'[i] = rows[j]
      BY <1>2, <1>3, <2>1, <3>2
    <3> QED
      BY <1>4, <3>1, <3>2
  <2> QED
    BY <1>1, <1>2, <2>1 DEF RowsHaveGates
<1>8. SessionsHaveGates'
  <2>1. ASSUME NEW s \in Questions, NEW i \in DOMAIN turns', turns'[i].session = s
        PROVE  Asked(s) /\ turns'[i].stage = task[s].stage /\ turns'[i].attempt = task[s].attempt
    <3>1. i \in DOMAIN turns /\ turns'[i] = turns[i]
      <4>1. SUFFICES ASSUME NEW j \in DOMAIN rows, turns'[i] = rows[j] PROVE FALSE
        BY <1>4
      <4>2. rows[j].q \in Questions
        BY <1>3
      <4> QED
        BY <1>3, <2>1, <4>1, <4>2, QuestionsCount
    <3> QED
      BY <2>1, <3>1 DEF SessionsHaveGates
  <2> QED
    BY <1>1, <1>2, <2>1 DEF SessionsHaveGates, SameGate
<1>9. OneGateOfV1' /\ LiveIsLast' /\ SingleFlight'
  BY <1>1, <1>2 DEF OneGateOfV1, LiveIsLast, SingleFlight
<1>10. EndedIsAnswered'
  <2> SUFFICES ASSUME NEW q \in Questions, task'[q].pc = "done"
               PROVE  \E i \in DOMAIN turns' : turns'[i].role = "engine" /\ turns'[i].q = q
    BY DEF EndedIsAnswered
  <2>1. CASE AliveQ(q)
    <3>1. PICK i \in DOMAIN rows : rows[i].q = q
      BY <1>1, <1>3, <2>1
    <3>2. PICK j \in DOMAIN turns' : turns'[j] = rows[i]
      BY <1>4
    <3> QED
      BY <1>3, <3>1, <3>2
  <2>2. CASE ~AliveQ(q)
    BY <1>1, <1>4, <2>2 DEF EndedIsAnswered
  <2> QED
    BY <2>1, <2>2
<1> QED
  BY <1>5, <1>6, <1>7, <1>8, <1>9, <1>10

\* A set of positions has a greatest one.
LEMMA Greatest ==
    ASSUME NEW n \in Nat, NEW S \in SUBSET (0 .. n), S # {}
    PROVE  \E m \in S : \A k \in S : k <= m
<1> DEFINE T == {n - k : k \in S}
           R == OpToRel(<, Nat)
<1>0. ASSUME NEW k \in S PROVE n - k \in Nat
  <2>1. k \in 0 .. n
    OBVIOUS
  <2> QED
    BY <2>1
<1>1. T \subseteq Nat /\ T # {}
  BY <1>0
<1>2. IsWellFoundedOn(R, Nat)
  BY NatLessThanWellFounded
<1>3. PICK x \in T : \A y \in T : ~(<<y, x>> \in R)
  <2> HIDE DEF T, R
  <2> QED
    BY <1>1, <1>2, WFMin
<1>4. \A y \in T : ~(y < x)
  BY <1>1, <1>3 DEF OpToRel
<1>5. PICK m \in S : x = n - m
  BY <1>3
<1>6. ASSUME NEW k \in S PROVE k <= m
  <2>1. ~(n - k < n - m)
    BY <1>4, <1>5
  <2>2. k \in Int /\ m \in Int
    OBVIOUS
  <2> QED
    BY <2>1, <2>2
<1> QED
  BY <1>6

LEMMA SessionOfTheStage ==
    ASSUME TalkTypes, NEW q \in Questions, NEW positions \in SUBSET OfStage(q), positions # {}
    PROVE  \E i \in positions : turns[i].session # 0 /\ LastOf(positions) = turns[i].session
<1>1. positions \subseteq 0 .. Len(turns) /\ Len(turns) \in Nat
  BY DEF TalkTypes, OfStage
<1>2. \E i \in positions : \A j \in positions : j <= i
  BY <1>1, Greatest
<1>3. LastOf(positions) = turns[CHOOSE i \in positions : \A j \in positions : j <= i].session
  BY DEF LastOf
<1> QED
  BY <1>2, <1>3 DEF OfStage

\* The session a run takes is the question's own or one of its gate.
LEMMA RunsInItsGate ==
    ASSUME TalkInv, NEW q \in Questions, AliveQ(q), NEW positions \in SUBSET OfStage(q),
           positions # {},
           item = "v1" \/ \A i \in positions : turns[i].attempt = task[q].attempt
    PROVE  LastOf(positions) \in Questions /\ Asked(LastOf(positions)) /\ SameGate(LastOf(positions), q)
<1>1. PICK i \in positions : turns[i].session # 0 /\ LastOf(positions) = turns[i].session
  BY SessionOfTheStage DEF TalkInv
<1>2. PICK s : s = turns[i].session
  OBVIOUS
<1>3. i \in DOMAIN turns /\ turns[i].stage = task[q].stage
  BY DEF OfStage
<1>4. s \in Questions
  <2>1. turns[i] \in TurnRows
    BY <1>3 DEF TalkInv, TalkTypes
  <2> QED
    BY <1>1, <1>2, <2>1 DEF TurnRows
<1>5. Asked(s) /\ turns[i].stage = task[s].stage /\ turns[i].attempt = task[s].attempt
  BY <1>2, <1>3, <1>4 DEF TalkInv, SessionsHaveGates
<1>6. Asked(q)
  BY DEF AliveQ, LivePcs, Asked
<1>7. task[s].attempt = task[q].attempt
  BY <1>1, <1>4, <1>5, <1>6 DEF TalkInv, OneGateOfV1
<1> QED
  BY <1>1, <1>2, <1>3, <1>4, <1>5, <1>7 DEF SameGate

LEMMA Entering ==
    ASSUME TalkInv, NEW q \in Questions, task[q].pc = "waiting", NEW s \in Questions,
           s = q \/ (Asked(s) /\ SameGate(s, q)),
           task' = [task EXCEPT ![q].pc = "inside", ![q].session = s],
           UNCHANGED <<item, at, turns, aged>>
    PROVE  TalkInv'
<1>1. task[q] \in Tasks /\ task \in [Questions -> Tasks]
  BY DEF TalkInv, TalkTypes
<1>2. PICK new : new = [task[q] EXCEPT !.pc = "inside", !.session = s]
  OBVIOUS
<1>3. new \in Tasks /\ new.pc = "inside" /\ new.session = s /\ new.stage = task[q].stage /\ new.attempt = task[q].attempt
  BY <1>1, <1>2 DEF Tasks, Pcs
<1>4. task' = [task EXCEPT ![q] = new]
  BY <1>1, <1>2 DEF Tasks
<1>5. AliveQ(q) /\ Asked(q) /\ SameGate(q, q)
  BY DEF AliveQ, LivePcs, Asked, SameGate
<1>6. new.pc \in LivePcs /\ \A u \in Questions : new.session = u => Asked(u) /\ SameGate(u, q)
  BY <1>3, <1>5 DEF LivePcs
<1> QED
  BY <1>3, <1>4, <1>5, <1>6, MovingOn

LEMMA TalkSteps ==
    ASSUME TalkInv, [ChatNext]_chatVars
    PROVE  TalkInv'
<1>1. ASSUME NEW q \in Questions, Ask(q) PROVE TalkInv'
  BY <1>1, AskingQ
<1>2. ASSUME NEW q \in Questions, GrowsOld(q) PROVE TalkInv'
  BY <1>2, Aging
<1>3. ASSUME NEW q \in Questions, FastLane(q) PROVE TalkInv'
  <2>1. task[q].pc = "fast" /\ AliveQ(q) /\ UNCHANGED <<item, at, aged>>
    BY <1>3 DEF FastLane, AliveQ, LivePcs
  <2>2. CASE Answered(q, 0)
    BY <2>1, <2>2, Answering
  <2>3. CASE task' = [task EXCEPT ![q].pc = "waiting"] /\ UNCHANGED turns
    <3>1. task[q] \in Tasks /\ task \in [Questions -> Tasks]
      BY DEF TalkInv, TalkTypes
    <3>2. PICK new : new = [task[q] EXCEPT !.pc = "waiting"]
      OBVIOUS
    <3>3. /\ new \in Tasks /\ new.pc = "waiting" /\ new.session = task[q].session
          /\ new.stage = task[q].stage /\ new.attempt = task[q].attempt
      BY <3>1, <3>2 DEF Tasks, Pcs
    <3>4. task' = [task EXCEPT ![q] = new]
      BY <2>3, <3>1, <3>2 DEF Tasks
    <3>5. new.pc \in LivePcs /\ \A s \in Questions : new.session = s => Asked(s) /\ SameGate(s, q)
      BY <3>3 DEF LivePcs, TalkInv, SessionsHaveGates
    <3> QED
      BY <2>1, <2>3, <3>3, <3>4, <3>5, MovingOn
  <2> QED
    BY <1>3, <2>2, <2>3 DEF FastLane
<1>4. ASSUME NEW q \in Questions, EntersRepo(q) PROVE TalkInv'
  <2>1. task[q].pc = "waiting" /\ AliveQ(q) /\ UNCHANGED <<item, at, aged>>
    BY <1>4 DEF EntersRepo, AliveQ, LivePcs
  <2>2. CASE MovedOn(q)
    BY <1>4, <2>1, <2>2, Answering DEF EntersRepo
  <2>3. CASE ~MovedOn(q)
    <3>1. PICK s \in Sessions(q) : task' = [task EXCEPT ![q].pc = "inside", ![q].session = s]
      BY <1>4, <2>3 DEF EntersRepo
    <3>2. turns' = turns
      BY <1>4, <2>3 DEF EntersRepo
    <3>3. s \in Questions /\ (s = q \/ (Asked(s) /\ SameGate(s, q)))
      <4>1. OfGate(q) \in SUBSET OfStage(q) /\ \A i \in OfGate(q) : turns[i].attempt = task[q].attempt
        BY DEF OfGate
      <4>2. OfGate(q) # {} => LastOf(OfGate(q)) \in Questions /\ Asked(LastOf(OfGate(q)))
                              /\ SameGate(LastOf(OfGate(q)), q)
        BY <2>1, <4>1, RunsInItsGate
      <4> QED
        BY <3>1, <4>2 DEF Sessions
    <3> QED
      BY <2>1, <3>1, <3>2, <3>3, Entering
  <2> QED
    BY <2>2, <2>3
<1>5. ASSUME NEW q \in Questions, EntersClone(q) PROVE TalkInv'
  <2>1. task[q].pc = "waiting" /\ AliveQ(q) /\ UNCHANGED <<item, at, aged, turns>> /\ item = "v1"
    BY <1>5 DEF EntersClone, AliveQ, LivePcs
  <2>2. PICK s \in (IF OfStage(q) # {} THEN {LastOf(OfStage(q)), q} ELSE {q}) :
               task' = [task EXCEPT ![q].pc = "inside", ![q].session = s]
    BY <1>5 DEF EntersClone
  <2>3. s \in Questions /\ (s = q \/ (Asked(s) /\ SameGate(s, q)))
    <3>1. OfStage(q) # {} => LastOf(OfStage(q)) \in Questions /\ Asked(LastOf(OfStage(q)))
                             /\ SameGate(LastOf(OfStage(q)), q)
      BY <2>1, RunsInItsGate
    <3> QED
      BY <2>2, <3>1
  <2> QED
    BY <2>1, <2>2, <2>3, Entering
<1>6. ASSUME NEW q \in Questions, Leaves(q) PROVE TalkInv'
  <2>1. AliveQ(q) /\ UNCHANGED <<item, at, aged>>
    BY <1>6 DEF Leaves, AliveQ, LivePcs
  <2>2. PICK ok \in BOOLEAN : Answered(q, IF ok THEN task[q].session ELSE 0)
    BY <1>6 DEF Leaves
  <2>3. (IF ok THEN task[q].session ELSE 0) \in {0, task[q].session}
    OBVIOUS
  <2> QED
    BY <2>1, <2>2, <2>3, Answering
<1>7. CASE (\E q \in Questions : ChatWrites(q)) \/ StageCommits \/ UNCHANGED chatVars
  <2>1. UNCHANGED <<item, turns, task, aged, at>>
    BY <1>7 DEF ChatWrites, StageCommits, chatVars
  <2> QED
    BY <2>1, TalkStays DEF TalkInv, TalkTypes
<1>8. CASE AnswerGate \/ StageEnters
  <2>1. UNCHANGED <<item, turns, task, aged>> /\ item = "feature"
    BY <1>8 DEF AnswerGate, StageEnters
  <2>2. at' \in [stage : Nat, attempts : Nat]
    <3>1. at \in [stage : Nat, attempts : Nat]
      BY DEF TalkInv, TalkTypes
    <3>2. at' = [stage |-> at.stage + 1, attempts |-> 0] \/ at' = at \/ at' = [at EXCEPT !.attempts = at.attempts + 1]
      BY <1>8 DEF AnswerGate, StageEnters
    <3>3. at.stage + 1 \in Nat /\ at.attempts + 1 \in Nat
      BY <3>1
    <3> QED
      BY <3>1, <3>2, <3>3
  <2> QED
    BY <2>1, <2>2, TalkStays
<1>9. CASE ShutsDown \/ Killed
  <2>1. UNCHANGED <<item, at, aged>>
    BY <1>9 DEF ShutsDown, Killed, Stops
  <2>2. (Tombstones /\ Ended("done")) \/ (turns' = turns /\ Ended("dead"))
    BY <1>9 DEF ShutsDown, Killed
  <2>3. CASE Tombstones /\ Ended("done")
    BY <2>1, <2>3, Ending
  <2>4. CASE turns' = turns /\ Ended("dead")
    BY <2>1, <2>4, Ending
  <2> QED
    BY <2>2, <2>3, <2>4
<1> QED
  BY <1>1, <1>2, <1>3, <1>4, <1>5, <1>6, <1>7, <1>8, <1>9 DEF ChatNext, ChatStep

\* The workspace: a stage has it clean and to itself, and so has one chat.
TreeInv ==
    /\ staging => item = "feature" /\ NoChatInside /\ tree = "clean"
    /\ \A q, r \in Questions : task[q].pc = "inside" /\ task[r].pc = "inside" => q = r
    /\ ~leaked

LEMMA TreeSteps ==
    ASSUME TalkInv, TreeInv, [ChatNext]_chatVars
    PROVE  TreeInv'
<1> USE DEF TreeInv, NoChatInside
<1>0. task \in [Questions -> Tasks]
  BY DEF TalkInv, TalkTypes
\* Nobody comes in.
<1>1. ASSUME \A r \in Questions : task'[r].pc = "inside" => task[r].pc = "inside",
             staging' => staging, tree' = tree \/ tree' = "clean", UNCHANGED <<item, leaked>>
      PROVE  TreeInv'
  BY <1>1
<1>2. ASSUME NEW q \in Questions, Ask(q) \/ GrowsOld(q) \/ FastLane(q) \/ Leaves(q) PROVE TreeInv'
  <2>1. \A r \in Questions : task'[r].pc = "inside" => task[r].pc = "inside"
    BY <1>0, <1>2 DEF Ask, GrowsOld, FastLane, Leaves, Answered, Tasks
  <2> QED
    BY <1>1, <1>2, <2>1 DEF Ask, GrowsOld, FastLane, Leaves
<1>3. ASSUME NEW q \in Questions, EntersRepo(q) \/ EntersClone(q) PROVE TreeInv'
  <2>1. NoChatInside /\ ~staging /\ UNCHANGED <<staging, leaked>>
    BY <1>3 DEF EntersRepo, EntersClone, WorkspaceFree
  <2>2. \A r \in Questions : r # q => task'[r] = task[r]
    BY <1>0, <1>3 DEF EntersRepo, EntersClone, Answered
  <2> QED
    BY <2>1, <2>2
<1>4. ASSUME NEW q \in Questions, ChatWrites(q) PROVE TreeInv'
  BY <1>4 DEF ChatWrites
<1>5. CASE AnswerGate
  BY <1>5 DEF AnswerGate
<1>6. CASE StageEnters
  BY <1>6 DEF StageEnters
<1>7. CASE StageCommits
  BY <1>7 DEF StageCommits
<1>8. CASE ShutsDown \/ Killed
  <2>1. \A r \in Questions : task'[r].pc # "inside"
    BY <1>0, <1>8 DEF ShutsDown, Killed, Ended, AliveQ, LivePcs, Tasks
  <2> QED
    BY <1>8, <2>1 DEF ShutsDown, Killed, Stops
<1>9. CASE UNCHANGED chatVars
  BY <1>9 DEF chatVars
<1> QED
  BY <1>2, <1>3, <1>4, <1>5, <1>6, <1>7, <1>8, <1>9 DEF ChatNext, ChatStep

LEMMA ChatSafe == ChatSpec => [](TalkInv /\ TreeInv)
<1>1. ChatInit => TalkInv /\ TreeInv
  <2> SUFFICES ASSUME ChatInit PROVE TreeInv
    BY TalkStarts
  <2>1. \A q \in Questions : task[q].pc = "none"
    BY DEF ChatInit, NoTask
  <2> QED
    BY <2>1 DEF ChatInit, TreeInv
<1>2. TalkInv /\ TreeInv /\ [ChatNext]_chatVars => (TalkInv /\ TreeInv)'
  BY TalkSteps, TreeSteps
<1> QED
  BY <1>1, <1>2, PTL DEF ChatSpec

\* THEOREM.  Whatever was asked at other gates, however questions, answers, stage
\* runs, shutdowns and deaths interleave: a second question of a gate is taken up
\* only after one of the gate has waited too long; every task that ended has left
\* an answer or a tombstone; a session stays with its gate; and nothing a chat
\* wrote into the working tree is committed by a stage.
THEOREM ChatStaysContained == ChatSpec => []ChatIsContained
<1>1. TalkInv /\ TreeInv => ChatIsContained
  <2> SUFFICES ASSUME TalkInv, TreeInv PROVE SessionOfOneGate
    BY DEF TalkInv, TreeInv, ChatIsContained, ChatNeverCommitted
  <2>1. ASSUME NEW i \in DOMAIN turns, NEW j \in DOMAIN turns,
               turns[i].session # 0, turns[i].session = turns[j].session
        PROVE  turns[i].stage = turns[j].stage /\ turns[i].attempt = turns[j].attempt
    <3>1. turns[i] \in TurnRows
      BY DEF TalkInv, TalkTypes
    <3>2. turns[i].session \in Questions
      BY <2>1, <3>1 DEF TurnRows
    <3> QED
      BY <2>1, <3>2 DEF TalkInv, SessionsHaveGates
  <2> QED
    BY <2>1 DEF SessionOfOneGate
<1> QED
  BY <1>1, ChatSafe, PTL

\* THEOREM.  One at a time is in a workspace, the stage's run or one chat, and a
\* row of the transcript is about a question that was asked.
THEOREM ChatTypesHold == ChatSpec => []ChatTypeOK
<1>1. TalkInv /\ TreeInv => ChatTypeOK
  <2> SUFFICES ASSUME TalkInv, TreeInv, NEW i \in DOMAIN turns PROVE task[turns[i].q].pc # "none"
    BY DEF TreeInv, ChatTypeOK
  <2>1. turns[i] \in TurnRows
    BY DEF TalkInv, TalkTypes
  <2> QED
    BY <2>1 DEF TalkInv, RowsHaveGates, TurnRows, Asked
<1> QED
  BY <1>1, ChatSafe, PTL

-----------------------------------------------------------------------------
(* Broker: the stream of a turn, and those who watch it.                    *)

EventRows == [kind : {"delta", "status", "done"}, parts : Seq(Nat)]
ViewerPcs == {"idle", "replay", "follow", "told", "over"}
ViewerRows == [pc : ViewerPcs, turn : Nat, replay : Seq(EventRows), queue : Seq(EventRows),
               got : Seq(Nat), since : Nat]

\* A piece is among the parts of an event, or of the events of a sequence.
Among(x, parts) == \E k \in DOMAIN parts : parts[k] = x
PartOf(x, event) == Among(x, event.parts)
Has(events, x) == \E i \in DOMAIN events : PartOf(x, events[i])

Sorted(parts) == \A i, j \in DOMAIN parts : i < j => parts[i] < parts[j]
Rising(events) ==
    /\ \A i \in DOMAIN events : Sorted(events[i].parts)
    /\ \A i, j \in DOMAIN events : i < j =>
          \A x, y : PartOf(x, events[i]) /\ PartOf(y, events[j]) => x < y

LEMMA EventAppended ==
    ASSUME NEW s \in Seq(EventRows), NEW e \in EventRows
    PROVE  /\ Append(s, e) \in Seq(EventRows)
           /\ DOMAIN Append(s, e) = DOMAIN s \union {Len(s) + 1}
           /\ \A i \in DOMAIN s : Append(s, e)[i] = s[i] /\ i < Len(s) + 1 /\ i \in Nat
           /\ Append(s, e)[Len(s) + 1] = e /\ Len(s) + 1 \in Nat
           /\ \A x : Has(Append(s, e), x) <=> Has(s, x) \/ PartOf(x, e)
<1> DEFINE t == Append(s, e)
           n == Len(s) + 1
<1>1. /\ t \in Seq(EventRows) /\ DOMAIN t = DOMAIN s \union {n}
      /\ \A i \in DOMAIN s : t[i] = s[i] /\ i < n /\ i \in Nat
      /\ t[n] = e /\ n \in Nat
  OBVIOUS
<1> HIDE DEF t, n
<1>2. \A x : Has(t, x) <=> Has(s, x) \/ PartOf(x, e)
  BY <1>1 DEF Has
<1> QED
  BY <1>1, <1>2 DEF t, n

LEMMA RisingAppended ==
    ASSUME NEW s \in Seq(EventRows), NEW e \in EventRows, Rising(s), Sorted(e.parts),
           \A x, y : Has(s, x) /\ PartOf(y, e) => x < y
    PROVE  Rising(Append(s, e))
<1>1. PICK t, n : t = Append(s, e) /\ n = Len(s) + 1
  OBVIOUS
<1>2. /\ DOMAIN t = DOMAIN s \union {n} /\ t[n] = e /\ n \in Nat
      /\ \A i \in DOMAIN s : t[i] = s[i] /\ i < n /\ i \in Nat
  BY <1>1, EventAppended
<1>3. \A i \in DOMAIN t : Sorted(t[i].parts)
  BY <1>2 DEF Rising
<1>4. ASSUME NEW i \in DOMAIN t, NEW j \in DOMAIN t, i < j, NEW x, NEW y,
             PartOf(x, t[i]), PartOf(y, t[j])
      PROVE  x < y
  <2>1. i \in DOMAIN s
    BY <1>2, <1>4
  <2>2. CASE j = n
    BY <1>2, <1>4, <2>1, <2>2 DEF Has
  <2>3. CASE j # n
    BY <1>2, <1>4, <2>1, <2>3 DEF Rising
  <2> QED
    BY <2>2, <2>3
<1> QED
  BY <1>1, <1>3, <1>4 DEF Rising

LEMMA HeadTaken ==
    ASSUME NEW s \in Seq(EventRows), s # <<>>
    PROVE  /\ Head(s) \in EventRows /\ Tail(s) \in Seq(EventRows)
           /\ 1 \in DOMAIN s /\ s[1] = Head(s)
           /\ \A x : Has(s, x) <=> PartOf(x, Head(s)) \/ Has(Tail(s), x)
           /\ Rising(s) => /\ Rising(Tail(s)) /\ Sorted(Head(s).parts)
                           /\ \A x, y : PartOf(x, Head(s)) /\ Has(Tail(s), y) => x < y
<1>1. PICK t : t = Tail(s)
  OBVIOUS
<1>2. /\ Head(s) \in EventRows /\ t \in Seq(EventRows) /\ 1 \in DOMAIN s /\ s[1] = Head(s)
      /\ \A i \in DOMAIN t : i \in Nat /\ i >= 1 /\ i + 1 \in DOMAIN s /\ t[i] = s[i + 1]
      /\ \A i \in DOMAIN s : i \in Nat /\ (i = 1 \/ (i - 1 \in DOMAIN t /\ t[i - 1] = s[i]))
  BY <1>1
<1>3. \A x : Has(s, x) <=> PartOf(x, Head(s)) \/ Has(t, x)
  <2>1. ASSUME NEW x, Has(t, x) PROVE Has(s, x)
    BY <1>2, <2>1 DEF Has
  <2>2. ASSUME NEW x, Has(s, x), ~PartOf(x, Head(s)) PROVE Has(t, x)
    BY <1>2, <2>2 DEF Has
  <2>3. ASSUME NEW x, PartOf(x, Head(s)) PROVE Has(s, x)
    BY <1>2, <2>3 DEF Has
  <2> QED
    BY <2>1, <2>2, <2>3
<1>4. ASSUME Rising(s)
      PROVE  /\ Rising(t) /\ Sorted(Head(s).parts)
             /\ \A x, y : PartOf(x, Head(s)) /\ Has(t, y) => x < y
  <2>1. \A i \in DOMAIN t : Sorted(t[i].parts)
    BY <1>2, <1>4 DEF Rising
  <2>2. ASSUME NEW i \in DOMAIN t, NEW j \in DOMAIN t, i < j, NEW x, NEW y, PartOf(x, t[i]), PartOf(y, t[j])
        PROVE  x < y
    <3>1. i + 1 \in DOMAIN s /\ j + 1 \in DOMAIN s /\ i + 1 < j + 1
      BY <1>2, <2>2
    <3> QED
      BY <1>2, <1>4, <2>2, <3>1 DEF Rising
  <2>3. ASSUME NEW x, NEW y, PartOf(x, Head(s)), Has(t, y) PROVE x < y
    <3>1. PICK i \in DOMAIN t : PartOf(y, t[i])
      BY <2>3 DEF Has
    <3>2. i + 1 \in DOMAIN s /\ 1 < i + 1 /\ PartOf(y, s[i + 1]) /\ PartOf(x, s[1])
      BY <1>2, <2>3, <3>1
    <3> QED
      BY <1>2, <1>4, <3>2 DEF Rising
  <2>4. Sorted(Head(s).parts)
    BY <1>2, <1>4 DEF Rising
  <2> QED
    BY <2>1, <2>2, <2>3, <2>4 DEF Rising
<1> QED
  BY <1>1, <1>2, <1>3, <1>4

LEMMA PartsJoined ==
    ASSUME NEW s \in Seq(Nat), NEW t \in Seq(Nat)
    PROVE  /\ s \o t \in Seq(Nat)
           /\ \A x : Among(x, s \o t) <=> Among(x, s) \/ Among(x, t)
           /\ Sorted(s) /\ Sorted(t) /\ (\A i \in DOMAIN s, j \in DOMAIN t : s[i] < t[j])
                => Sorted(s \o t)
<1>1. PICK u, n : u = s \o t /\ n = Len(s)
  OBVIOUS
<1>2. /\ u \in Seq(Nat) /\ n \in Nat
      /\ \A i \in DOMAIN s : i \in Nat /\ i <= n /\ i \in DOMAIN u /\ u[i] = s[i]
      /\ \A i \in DOMAIN t : i \in Nat /\ n + i \in DOMAIN u /\ u[n + i] = t[i]
      /\ \A i \in DOMAIN u : i \in Nat /\ (i \in DOMAIN s \/ (i > n /\ i - n \in DOMAIN t))
      /\ \A i \in DOMAIN u : i > n => u[i] = t[i - n]
  BY <1>1
<1>3. \A x : Among(x, u) <=> Among(x, s) \/ Among(x, t)
  <2>1. ASSUME NEW i \in DOMAIN u PROVE (\E k \in DOMAIN s : s[k] = u[i]) \/ (\E k \in DOMAIN t : t[k] = u[i])
    BY <1>2
  <2> QED
    BY <1>2, <2>1 DEF Among
<1>4. ASSUME Sorted(s), Sorted(t), \A i \in DOMAIN s, j \in DOMAIN t : s[i] < t[j],
             NEW i \in DOMAIN u, NEW j \in DOMAIN u, i < j
      PROVE  u[i] < u[j]
  <2>1. CASE i \in DOMAIN s /\ j \in DOMAIN s
    BY <1>2, <1>4, <2>1 DEF Sorted
  <2>2. CASE i \in DOMAIN s /\ j > n
    <3>1. j - n \in DOMAIN t /\ u[j] = t[j - n] /\ u[i] = s[i]
      BY <1>2, <1>4, <2>2
    <3> QED
      BY <1>4, <2>2, <3>1
  <2>3. CASE i > n /\ j > n
    <3>1. i - n \in DOMAIN t /\ j - n \in DOMAIN t /\ i - n < j - n
      BY <1>2, <1>4, <2>3
    <3> QED
      BY <1>2, <1>4, <2>3, <3>1 DEF Sorted
  <2>4. i <= n \/ i > n
    BY <1>2
  <2> QED
    BY <1>2, <1>4, <2>1, <2>2, <2>3
<1> QED
  BY <1>1, <1>2, <1>3, <1>4 DEF Sorted

Live(w) == w.pc \in {"replay", "follow"}
\* The last turn that is over.
LastOver == IF buffer.done THEN buffer.turn ELSE buffer.turn - 1
HasDone(events) == \E i \in DOMAIN events : events[i].kind = "done"
DoneIsEmpty(events) == \A i \in DOMAIN events : events[i].kind = "done" => events[i].parts = <<>>
DoneIsLast(w) ==
    /\ DoneIsEmpty(w.replay) /\ DoneIsEmpty(w.queue)
    /\ \A i, j \in DOMAIN w.replay : i < j => w.replay[i].kind # "done"
    /\ \A i, j \in DOMAIN w.queue : i < j /\ w.queue[i].kind = "done" => w.queue[j].kind = "done"
    /\ HasDone(w.replay) => \A i \in DOMAIN w.queue : w.queue[i].kind = "done"

\* A viewer w after n publications: what it was given rises, and goes on rising
\* over its replay, which was there when it subscribed, and its queue, which was not.
InOrder(w, n) ==
    /\ w \in ViewerRows /\ w.since <= n
    /\ Sorted(w.got) /\ Rising(w.replay) /\ Rising(w.queue)
    /\ \A i \in DOMAIN w.got :
          w.got[i] <= n /\ \A x : Has(w.replay, x) \/ Has(w.queue, x) => w.got[i] < x
    /\ \A x : Has(w.replay, x) => x <= w.since
    /\ \A x : Has(w.queue, x) => w.since < x /\ x <= n
    /\ w.pc # "replay" => w.replay = <<>>
    /\ ~Live(w) => w.queue = <<>>
    /\ w.pc = "idle" => w = NoViewer

\* It is told of the end of its turn only when that is over.
ToldWhenOver(w, turn, last) ==
    /\ DoneIsLast(w) /\ w.turn <= turn
    /\ HasDone(w.replay) \/ HasDone(w.queue) => w.turn <= last
    /\ w.pc = "told" => w.turn <= last

\* Every piece it is owed was given to it, or will be.
Owed(w, published, full, p) == published[p] = w.turn /\ (p > w.since \/ w.turn \notin full)
InHand(w, x) == (\E i \in DOMAIN w.got : w.got[i] = x) \/ Has(w.replay, x) \/ Has(w.queue, x)
IsWhole(w, published, full) ==
    w.pc \in {"replay", "follow", "told"} =>
        \A p \in DOMAIN published : Owed(w, published, full, p) => InHand(w, p)

\* The buffer: its events rise, up to the last piece, and while the turn has not
\* reached the cap they hold every piece of it.
BufferInv ==
    /\ buffer \in [turn : Nat, events : Seq(EventRows), done : BOOLEAN]
    /\ Len(buffer.events) <= MaxEvents /\ ~HasDone(buffer.events)
    /\ Rising(buffer.events) /\ \A x : Has(buffer.events, x) => x <= Len(pieces)
    /\ pieces \in Seq(Nat) /\ \A p \in DOMAIN pieces : pieces[p] > 0 /\ pieces[p] <= buffer.turn
    /\ buffer.turn \notin capped =>
          \A p \in DOMAIN pieces : pieces[p] = buffer.turn => Has(buffer.events, p)
    /\ capped \subseteq 0 .. buffer.turn
    /\ buffer.turn = 0 => buffer.done
    /\ started = buffer.turn

ViewersInv ==
    /\ viewer \in [Viewers -> ViewerRows]
    /\ \A v \in Viewers :
          /\ InOrder(viewer[v], Len(pieces))
          /\ ToldWhenOver(viewer[v], buffer.turn, LastOver)
          /\ IsWhole(viewer[v], pieces, capped)

\* Turns that do not overlap: the buffer's turn is the only one that talks, until
\* it is done.
TurnsInv ==
    /\ talking \subseteq 1 .. buffer.turn
    /\ ~overlapped => talking \subseteq {buffer.turn} /\ (buffer.done => talking = {})

StreamInv == BufferInv /\ ViewersInv /\ TurnsInv

LEMMA CapIsPositive == MaxEvents \in Nat /\ MaxEvents > 0 /\ StreamTurns \in Nat
  BY BrokerAssumption DEF BrokerAssumption

LEMMA NothingInNothing ==
    /\ <<>> \in Seq(EventRows) /\ Rising(<<>>) /\ Sorted(<<>>) /\ ~HasDone(<<>>) /\ DoneIsEmpty(<<>>)
    /\ \A x : ~Has(<<>>, x)
  BY DEF Rising, Sorted, HasDone, Has, DoneIsEmpty

LEMMA StreamStarts == BrokerInit => StreamInv
<1> SUFFICES ASSUME BrokerInit PROVE StreamInv
  OBVIOUS
<1>1. buffer = NoBuffer /\ talking = {} /\ started = 0 /\ pieces = <<>> /\ capped = {}
      /\ viewer = [v \in Viewers |-> NoViewer]
  BY DEF BrokerInit
<1>2. BufferInv
  BY <1>1, CapIsPositive, NothingInNothing DEF BufferInv, NoBuffer
<1>3. NoViewer \in ViewerRows
  BY NothingInNothing DEF NoViewer, ViewerRows, ViewerPcs
<1>4. InOrder(NoViewer, 0)
  BY <1>3, NothingInNothing DEF InOrder, NoViewer, Live
<1>5. ToldWhenOver(NoViewer, 0, 0) /\ IsWhole(NoViewer, <<>>, {})
  <2>1. PICK w : w = NoViewer
    OBVIOUS
  <2>2. w.replay = <<>> /\ w.queue = <<>> /\ w.turn = 0 /\ w.pc = "idle"
    BY <2>1 DEF NoViewer
  <2>3. DoneIsLast(w) /\ ~HasDone(w.replay) /\ ~HasDone(w.queue)
    BY <2>2 DEF DoneIsLast, DoneIsEmpty, HasDone
  <2>4. ToldWhenOver(w, 0, 0)
    BY <2>2, <2>3 DEF ToldWhenOver
  <2>5. IsWhole(w, <<>>, {})
    BY <2>2 DEF IsWhole

  <2> QED
    BY <2>1, <2>4, <2>5
<1>6. ViewersInv
  BY <1>1, <1>3, <1>4, <1>5 DEF ViewersInv, NoBuffer, LastOver
<1>7. TurnsInv
  BY <1>1 DEF TurnsInv
<1> QED
  BY <1>2, <1>6, <1>7 DEF StreamInv

\* A viewer who is passed the end of its turn.
LEMMA DonePassed ==
    ASSUME NEW w, NEW n \in Nat, InOrder(w, n), DoneIsLast(w), Live(w),
           NEW z, z = [w EXCEPT !.queue = Append(w.queue, Done)]
    PROVE  /\ InOrder(z, n) /\ DoneIsLast(z)
           /\ \A published, full : IsWhole(w, published, full) => IsWhole(z, published, full)
           /\ z.turn = w.turn /\ z.pc = w.pc
<1>1. Done \in EventRows /\ Done.kind = "done" /\ Done.parts = <<>>
  BY DEF Done, Event, EventRows
<1>2. w \in ViewerRows /\ Append(w.queue, Done) \in Seq(EventRows)
  BY <1>1, EventAppended DEF InOrder, ViewerRows
<1>3. /\ z \in ViewerRows /\ z.queue = Append(w.queue, Done)
      /\ z.pc = w.pc /\ z.turn = w.turn /\ z.replay = w.replay /\ z.got = w.got /\ z.since = w.since
  BY <1>1, <1>2 DEF ViewerRows
<1>4. PICK m : m = Len(w.queue) + 1
  OBVIOUS
<1>5. /\ DOMAIN z.queue = DOMAIN w.queue \union {m} /\ z.queue[m] = Done /\ m \in Nat
      /\ \A i \in DOMAIN w.queue : z.queue[i] = w.queue[i] /\ i < m /\ i \in Nat
      /\ \A x : Has(z.queue, x) <=> Has(w.queue, x)
  <2>1. w.queue \in Seq(EventRows)
    BY <1>2 DEF ViewerRows
  <2>2. \A x : ~PartOf(x, Done)
    BY <1>1 DEF PartOf, Among
  <2> QED
    BY <1>1, <1>3, <1>4, <2>1, <2>2, EventAppended
<1>6. Rising(z.queue)
  <2>1. w.queue \in Seq(EventRows)
    BY <1>2 DEF ViewerRows
  <2>2. Sorted(Done.parts) /\ \A y : ~PartOf(y, Done)
    BY <1>1 DEF Sorted, PartOf, Among
  <2> QED
    BY <1>1, <1>3, <2>1, <2>2, RisingAppended DEF InOrder
<1>7. InOrder(z, n)
  BY <1>3, <1>5, <1>6 DEF InOrder, Live, NoViewer
<1>8. DoneIsLast(z)
  BY <1>1, <1>3, <1>5 DEF DoneIsLast, DoneIsEmpty
<1>9. \A published, full : IsWhole(w, published, full) => IsWhole(z, published, full)
  BY <1>3, <1>5 DEF IsWhole, Owed, InHand
<1> QED
  BY <1>3, <1>7, <1>8, <1>9

\* A viewer who is passed the next piece.
IsPassed(z, w, event) == z = [w EXCEPT !.queue = Append(w.queue, event)]
LEMMA PiecePassed ==
    ASSUME NEW w, NEW n \in Nat, NEW turn \in Nat, NEW kind \in {"delta", "status"},
           InOrder(w, n), ToldWhenOver(w, turn, turn - 1), Live(w), w.turn = turn,
           NEW e, e = Event(kind, <<n + 1>>), NEW z, IsPassed(z, w, e)
    PROVE  /\ InOrder(z, n + 1) /\ ToldWhenOver(z, turn, turn - 1) /\ z.turn = w.turn
           /\ z.pc = w.pc /\ z.since = w.since
           /\ \A x : InHand(z, x) <=> InHand(w, x) \/ x = n + 1
<1>2. /\ e \in EventRows /\ e.kind # "done" /\ Sorted(e.parts) /\ \A x : PartOf(x, e) <=> x = n + 1
  BY DEF Event, EventRows, Sorted, PartOf, Among
<1>3. w \in ViewerRows /\ w.queue \in Seq(EventRows) /\ Append(w.queue, e) \in Seq(EventRows)
  BY <1>2, EventAppended DEF InOrder, ViewerRows
<1>4. /\ z \in ViewerRows /\ z.queue = Append(w.queue, e)
      /\ z.pc = w.pc /\ z.turn = w.turn /\ z.replay = w.replay /\ z.got = w.got /\ z.since = w.since
  BY <1>2, <1>3 DEF ViewerRows, IsPassed
<1>5. PICK m : m = Len(w.queue) + 1
  OBVIOUS
<1>6. /\ DOMAIN z.queue = DOMAIN w.queue \union {m} /\ z.queue[m] = e /\ m \in Nat
      /\ \A i \in DOMAIN w.queue : z.queue[i] = w.queue[i] /\ i < m /\ i \in Nat
      /\ \A x : Has(z.queue, x) <=> Has(w.queue, x) \/ x = n + 1
  BY <1>2, <1>3, <1>4, <1>5, EventAppended
<1>7. n < n + 1 /\ w.since <= n /\ w.since \in Nat
  BY <1>3 DEF InOrder, ViewerRows
<1>8. \A x : Has(w.queue, x) => x \in Nat
  <2>1. \A i \in DOMAIN w.queue : w.queue[i] \in EventRows
    BY <1>3
  <2>2. \A i \in DOMAIN w.queue : w.queue[i].parts \in Seq(Nat)
    BY <2>1 DEF EventRows
  <2> QED
    BY <2>2 DEF Has, PartOf, Among
<1>9. Rising(z.queue)
  <2>1. \A x, y : Has(w.queue, x) /\ PartOf(y, e) => x < y
    BY <1>2, <1>7, <1>8 DEF InOrder
  <2> QED
    BY <1>2, <1>3, <1>4, <2>1, RisingAppended DEF InOrder
<1>10. \A i \in DOMAIN w.got : w.got[i] \in Nat /\ w.got[i] <= n
  BY <1>3 DEF InOrder, ViewerRows
<1>11. InOrder(z, n + 1)
  <2>1. \A i \in DOMAIN z.got : z.got[i] <= n + 1 /\ \A x : Has(z.replay, x) \/ Has(z.queue, x) => z.got[i] < x
    <3>1. ASSUME NEW i \in DOMAIN w.got
          PROVE  w.got[i] <= n + 1 /\ w.got[i] < n + 1
                 /\ \A x : Has(w.replay, x) \/ Has(w.queue, x) => w.got[i] < x
      <4>1. w.got[i] \in Nat /\ w.got[i] <= n
        BY <1>10
      <4>2. \A x : Has(w.replay, x) \/ Has(w.queue, x) => w.got[i] < x
        BY DEF InOrder
      <4> QED
        BY <4>1, <4>2
    <3> QED
      BY <1>4, <1>6, <3>1
  <2>2. \A x : Has(z.queue, x) => z.since < x /\ x <= n + 1
    BY <1>4, <1>6, <1>7, <1>8 DEF InOrder
  <2>3. z.since <= n + 1
    BY <1>4, <1>7
  <2> QED
    BY <1>4, <1>9, <2>1, <2>2, <2>3 DEF InOrder, Live, NoViewer
<1>12. ~HasDone(w.replay) /\ ~HasDone(w.queue)
  <2>1. ~(w.turn <= turn - 1)
    BY <1>3 DEF ViewerRows
  <2> QED
    BY <2>1 DEF ToldWhenOver
<1>13. ToldWhenOver(z, turn, turn - 1)
  <2>1. ~HasDone(z.replay) /\ ~HasDone(z.queue)
    BY <1>2, <1>4, <1>6, <1>12 DEF HasDone
  <2>2. DoneIsLast(z)
    BY <2>1 DEF DoneIsLast, HasDone, DoneIsEmpty
  <2> QED
    BY <1>4, <2>1, <2>2 DEF ToldWhenOver, Live
<1>14. \A x : InHand(z, x) <=> InHand(w, x) \/ x = n + 1
  BY <1>4, <1>6 DEF InHand
<1> QED
  BY <1>4, <1>11, <1>13, <1>14

\* A broadcast changes the queues of those who read the current buffer.
LEMMA Broadcasting ==
    ASSUME viewer \in [Viewers -> ViewerRows], NEW event, Broadcast(event), NEW v \in Viewers
    PROVE  /\ Following(v) => viewer'[v] = [viewer[v] EXCEPT !.queue = Append(viewer[v].queue, event)]
           /\ ~Following(v) => viewer'[v] = viewer[v]
           /\ Following(v) <=> Live(viewer[v]) /\ viewer[v].turn = buffer.turn
  BY DEF Broadcast, Following, Live

\* The turn is over, and its readers are told.
LEMMA TurnOver ==
    ASSUME StreamInv, Broadcast(Done), buffer' \in [turn : Nat, events : Seq(EventRows), done : BOOLEAN],
           buffer'.turn > buffer.turn \/ (buffer'.turn = buffer.turn /\ buffer'.done = TRUE),
           UNCHANGED <<pieces, capped>>
    PROVE  ViewersInv'
<1>1. viewer \in [Viewers -> ViewerRows] /\ Len(pieces) \in Nat /\ buffer.turn \in Nat
  BY DEF StreamInv, ViewersInv, BufferInv
<1>2. DOMAIN viewer' = Viewers /\ viewer' = [v \in Viewers |-> viewer'[v]]
  BY DEF Broadcast
<1>3. ASSUME NEW v \in Viewers
      PROVE  /\ viewer'[v] \in ViewerRows /\ InOrder(viewer'[v], Len(pieces))
             /\ ToldWhenOver(viewer'[v], buffer'.turn, LastOver')
             /\ IsWhole(viewer'[v], pieces, capped)
  <2>1. PICK w, z : w = viewer[v] /\ z = viewer'[v]
    OBVIOUS
  <2>2. /\ w \in ViewerRows /\ InOrder(w, Len(pieces)) /\ IsWhole(w, pieces, capped)
        /\ ToldWhenOver(w, buffer.turn, LastOver)
    BY <2>1 DEF StreamInv, ViewersInv
  <2>3. DoneIsLast(w) /\ w.turn <= buffer.turn /\ w.turn \in Nat
    BY <2>2 DEF ToldWhenOver, ViewerRows
  <2>4. w.turn <= LastOver' /\ w.turn <= buffer'.turn
    BY <1>1, <2>3 DEF LastOver
  <2>5. CASE Following(v)
    <3>1. Live(w) /\ z = [w EXCEPT !.queue = Append(w.queue, Done)]
      BY <1>1, <2>1, <2>5, Broadcasting
    <3>2. /\ InOrder(z, Len(pieces)) /\ DoneIsLast(z) /\ IsWhole(z, pieces, capped)
          /\ z.turn = w.turn
      BY <1>1, <2>2, <2>3, <3>1, DonePassed
    <3>3. ToldWhenOver(z, buffer'.turn, LastOver')
      BY <2>4, <3>2 DEF ToldWhenOver
    <3> QED
      BY <2>1, <3>2, <3>3 DEF InOrder
  <2>6. CASE ~Following(v)
    <3>1. z = w
      BY <1>1, <2>1, <2>6, Broadcasting
    <3>2. ToldWhenOver(w, buffer'.turn, LastOver')
      BY <2>2, <2>4 DEF ToldWhenOver
    <3> QED
      BY <2>1, <2>2, <3>1, <3>2
  <2> QED
    BY <2>5, <2>6
<1>4. viewer' \in [Viewers -> ViewerRows]
  BY <1>2, <1>3
<1> QED
  BY <1>3, <1>4 DEF ViewersInv

LEMMA StartingTurn ==
    ASSUME StreamInv, StartTurn
    PROVE  StreamInv'
<1> USE DEF StreamInv
<1>1. /\ started' = started + 1 /\ talking' = talking \union {started + 1}
      /\ buffer' = [turn |-> started + 1, events |-> <<>>, done |-> FALSE]
      /\ overlapped' = (overlapped \/ talking # {})
      /\ Broadcast(Done) /\ UNCHANGED <<pieces, capped>>
  BY DEF StartTurn, LetGo
<1>2. /\ buffer.turn \in Nat /\ started = buffer.turn /\ buffer'.turn = buffer.turn + 1
      /\ buffer'.events = <<>> /\ buffer'.done = FALSE
      /\ buffer' \in [turn : Nat, events : Seq(EventRows), done : BOOLEAN]
  BY <1>1, NothingInNothing DEF BufferInv
<1>3. ViewersInv'
  BY <1>1, <1>2, TurnOver
<1>4. BufferInv'
  <2>1. \A p \in DOMAIN pieces : pieces[p] \in Nat /\ pieces[p] # buffer'.turn /\ pieces[p] <= buffer'.turn
    BY <1>2 DEF BufferInv
  <2>2. capped \subseteq 0 .. buffer'.turn
    BY <1>2 DEF BufferInv
  <2> QED
    BY <1>1, <1>2, <2>1, <2>2, NothingInNothing, CapIsPositive DEF BufferInv
<1>5. TurnsInv'
  <2>1. talking' \subseteq 1 .. buffer'.turn
    <3>1. talking \subseteq 1 .. started /\ started \in Nat
      BY <1>2 DEF TurnsInv
    <3>2. buffer'.turn = started + 1
      BY <1>2
    <3>3. \A t \in talking' : t \in 1 .. started + 1
      BY <1>1, <3>1
    <3> QED
      BY <3>2, <3>3
  <2>2. ~overlapped' => talking = {}
    BY <1>1
  <2> QED
    BY <1>1, <1>2, <2>1, <2>2 DEF TurnsInv
<1> QED
  BY <1>3, <1>4, <1>5

LEMMA Finishing ==
    ASSUME StreamInv, NEW t \in 1 .. StreamTurns, FinishTurn(t)
    PROVE  StreamInv'
<1> USE DEF StreamInv
<1>1. /\ t \in talking /\ talking' = talking \ {t} /\ UNCHANGED <<started, pieces, overlapped, capped>>
      /\ IF buffer.done THEN UNCHANGED <<buffer, viewer>>
         ELSE buffer' = [buffer EXCEPT !.done = TRUE] /\ Broadcast(Done)
  BY DEF FinishTurn
<1>2. buffer \in [turn : Nat, events : Seq(EventRows), done : BOOLEAN]
  BY DEF BufferInv
<1>3. /\ buffer' \in [turn : Nat, events : Seq(EventRows), done : BOOLEAN]
      /\ buffer'.turn = buffer.turn /\ buffer'.events = buffer.events /\ buffer'.done = TRUE
  BY <1>1, <1>2
<1>4. BufferInv'
  BY <1>1, <1>3 DEF BufferInv
<1>5. ViewersInv'
  <2>1. CASE buffer.done
    BY <1>1, <2>1 DEF ViewersInv, LastOver
  <2>2. CASE ~buffer.done
    BY <1>1, <1>3, <2>2, TurnOver
  <2> QED
    BY <2>1, <2>2
<1>6. TurnsInv'
  BY <1>1, <1>3 DEF TurnsInv
<1> QED
  BY <1>4, <1>5, <1>6

\* What is kept for those who come late, after the next piece.
LEMMA Buffering ==
    ASSUME BufferInv, NEW kind \in {"delta", "status"}, NEW event,
           event = Event(kind, <<Len(pieces) + 1>>)
    PROVE  /\ Buffered(event) \in Seq(EventRows) /\ Len(Buffered(event)) <= MaxEvents
           /\ ~HasDone(Buffered(event)) /\ Rising(Buffered(event))
           /\ \A x : Has(Buffered(event), x) => Has(buffer.events, x) \/ x = Len(pieces) + 1
           /\ \A x : Has(buffer.events, x) => Has(Buffered(event), x)
           /\ ~Full => Has(Buffered(event), Len(pieces) + 1)
<1>1. PICK n, s, m : n = Len(pieces) /\ s = buffer.events /\ m = Len(s)
  OBVIOUS
<1>2. /\ n \in Nat /\ s \in Seq(EventRows) /\ m \in Nat /\ m <= MaxEvents /\ ~HasDone(s) /\ Rising(s)
      /\ \A x : Has(s, x) => x <= n
      /\ MaxEvents \in Nat /\ MaxEvents > 0
  BY <1>1, CapIsPositive DEF BufferInv
<1>3. /\ event \in EventRows /\ event.kind # "done" /\ event.parts = <<n + 1>> /\ Sorted(event.parts)
      /\ \A x : PartOf(x, event) <=> x = n + 1
  BY <1>1, <1>2 DEF Event, EventRows, Sorted, PartOf, Among
<1>4. \A x : Has(s, x) => x \in Nat /\ x < n + 1
  <2>1. \A i \in DOMAIN s : s[i] \in EventRows
    BY <1>2
  <2>2. \A i \in DOMAIN s : s[i].parts \in Seq(Nat)
    BY <2>1 DEF EventRows
  <2>3. \A x : Has(s, x) => x \in Nat
    BY <2>2 DEF Has, PartOf, Among
  <2> QED
    BY <1>2, <2>3
<1>5. CASE ~Full
  <2>1. Buffered(event) = Append(s, event)
    BY <1>1, <1>5 DEF Buffered
  <2>2. m < MaxEvents
    BY <1>1, <1>2, <1>5 DEF Full
  <2>3. PICK t : t = Append(s, event)
    OBVIOUS
  <2>4. /\ t \in Seq(EventRows) /\ DOMAIN t = DOMAIN s \union {m + 1} /\ t[m + 1] = event
        /\ \A i \in DOMAIN s : t[i] = s[i]
        /\ \A x : Has(t, x) <=> Has(s, x) \/ x = n + 1
    BY <1>1, <1>2, <1>3, <2>3, EventAppended
  <2>5. Len(t) = m + 1
    BY <1>1, <1>2, <2>3
  <2>6. ~HasDone(t)
    BY <1>2, <1>3, <2>4 DEF HasDone
  <2>7. Rising(t)
    BY <1>2, <1>3, <1>4, <2>3, RisingAppended
  <2>8. t = Buffered(event) /\ Len(t) <= MaxEvents
    BY <1>2, <2>1, <2>2, <2>3, <2>5
  <2> QED
    BY <1>1, <2>4, <2>6, <2>7, <2>8
<1>6. CASE Full /\ Joins(event)
  <2>1. m = MaxEvents /\ m \in DOMAIN s
    BY <1>1, <1>2, <1>6 DEF Full
  <2>2. s[m] \in EventRows /\ s[m].kind = "delta"
    BY <1>1, <1>2, <1>6, <2>1 DEF Joins, Last
  <2>3. PICK p : p = s[m].parts \o event.parts
    OBVIOUS
  <2>4. Buffered(event) = [s EXCEPT ![m].parts = p]
    BY <1>1, <1>6, <2>1, <2>3 DEF Buffered
  <2>5. PICK t, e : t = Buffered(event) /\ e = [s[m] EXCEPT !.parts = p]
    OBVIOUS
  <2>6. s[m].parts \in Seq(Nat) /\ event.parts \in Seq(Nat)
    BY <1>3, <2>2 DEF EventRows
  <2>7. p \in Seq(Nat)
    BY <2>3, <2>6, PartsJoined
  <2>8. e \in EventRows /\ e.parts = p /\ e.kind = "delta"
    BY <2>2, <2>5, <2>7 DEF EventRows
  <2>9. t = [s EXCEPT ![m] = e]
    BY <1>2, <2>1, <2>2, <2>4, <2>5 DEF EventRows
  <2>10. t \in Seq(EventRows) /\ Len(t) = m /\ DOMAIN t = DOMAIN s /\ t[m] = e
         /\ \A i \in DOMAIN s : i # m => t[i] = s[i]
    <3> HIDE <2>2, <2>3, <2>4, <2>5, <2>6, <2>7
    <3>1. t \in Seq(EventRows) /\ Len(t) = Len(s)
      BY <1>2, <2>1, <2>8, <2>9
    <3> QED
      BY <1>1, <1>2, <2>1, <2>9, <3>1
  <2>11. \A x : PartOf(x, e) <=> PartOf(x, s[m]) \/ x = n + 1
    <3>1. \A x : Among(x, p) <=> Among(x, s[m].parts) \/ Among(x, event.parts)
      BY <2>3, <2>6, PartsJoined
    <3> QED
      BY <1>3, <2>8, <3>1 DEF PartOf
  <2>12. \A x : Has(t, x) <=> Has(s, x) \/ x = n + 1
    BY <2>1, <2>10, <2>11 DEF Has
  <2>13. Sorted(p)
    <3>1. Sorted(s[m].parts)
      BY <1>2, <2>1 DEF Rising
    <3>2. \A i \in DOMAIN s[m].parts, j \in DOMAIN event.parts : s[m].parts[i] < event.parts[j]
      BY <1>3, <1>4, <2>1 DEF Has, PartOf, Among
    <3> QED
      BY <1>3, <2>3, <2>6, <3>1, <3>2, PartsJoined
  <2>14. Rising(t)
    <3>1. \A i \in DOMAIN t : Sorted(t[i].parts)
      BY <1>2, <2>8, <2>10, <2>13 DEF Rising
    <3>2. ASSUME NEW i \in DOMAIN t, NEW j \in DOMAIN t, i < j, NEW x, NEW y, PartOf(x, t[i]), PartOf(y, t[j])
          PROVE  x < y
      <4>1. i # m
        BY <1>1, <1>2, <2>10, <3>2
      <4>2. PartOf(x, s[i]) /\ Has(s, x)
        BY <2>10, <3>2, <4>1 DEF Has
      <4>3. CASE j = m /\ y = n + 1
        BY <1>4, <4>2, <4>3
      <4>4. CASE PartOf(y, s[j])
        BY <1>2, <2>10, <3>2, <4>2, <4>4 DEF Rising
      <4> QED
        BY <2>10, <2>11, <3>2, <4>3, <4>4
    <3> QED
      BY <3>1, <3>2 DEF Rising
  <2>15. ~HasDone(t)
    BY <1>2, <2>8, <2>10 DEF HasDone
  <2> QED
    BY <1>1, <1>2, <1>6, <2>5, <2>10, <2>12, <2>14, <2>15
<1>7. CASE Full /\ ~Joins(event)
  <2>1. Buffered(event) = s
    BY <1>1, <1>7 DEF Buffered
  <2> QED
    BY <1>1, <1>2, <1>7, <2>1
<1> QED
  BY <1>5, <1>6, <1>7

LEMMA Publishing ==
    ASSUME StreamInv, Publish
    PROVE  StreamInv'
<1> USE DEF StreamInv
<1>1. PICK kind, event :
        /\ kind \in {"delta", "status"} /\ event = Event(kind, <<Len(pieces) + 1>>)
        /\ buffer' = [buffer EXCEPT !.events = Buffered(event)] /\ Broadcast(event)
  BY DEF Publish, ToQueues
<1>2. /\ ~buffer.done /\ pieces' = Append(pieces, buffer.turn)
      /\ capped' = (IF Full THEN capped \union {buffer.turn} ELSE capped)
      /\ UNCHANGED <<talking, started, overlapped>>
  BY DEF Publish
<1>3. PICK n, turn : n = Len(pieces) /\ turn = buffer.turn
  OBVIOUS
<1>4. /\ buffer \in [turn : Nat, events : Seq(EventRows), done : BOOLEAN] /\ turn \in Nat /\ turn > 0
      /\ pieces \in Seq(Nat) /\ n \in Nat
  BY <1>2, <1>3 DEF BufferInv
<1>5. PICK events : events = Buffered(event)
  OBVIOUS
<1>6. /\ events \in Seq(EventRows) /\ Len(events) <= MaxEvents /\ ~HasDone(events) /\ Rising(events)
      /\ \A x : Has(events, x) => Has(buffer.events, x) \/ x = n + 1
      /\ \A x : Has(buffer.events, x) => Has(events, x)
      /\ ~Full => Has(events, n + 1)
  BY <1>1, <1>3, <1>5, Buffering
<1>7. buffer' \in [turn : Nat, events : Seq(EventRows), done : BOOLEAN]
      /\ buffer'.turn = turn /\ buffer'.events = events /\ buffer'.done = FALSE
  BY <1>1, <1>2, <1>3, <1>4, <1>5, <1>6
<1>8. /\ pieces' \in Seq(Nat) /\ Len(pieces') = n + 1 /\ DOMAIN pieces' = DOMAIN pieces \union {n + 1}
      /\ pieces'[n + 1] = turn /\ \A p \in DOMAIN pieces : pieces'[p] = pieces[p] /\ p \in Nat /\ p <= n
  BY <1>2, <1>3, <1>4
<1>9. capped \subseteq capped' /\ capped' \subseteq capped \union {turn} /\ (Full => turn \in capped')
  BY <1>2, <1>3
<1>10. BufferInv'
  <2>1. \A x : Has(events, x) => x <= n + 1
    <3>1. \A x : Has(buffer.events, x) => x \in Nat /\ x <= n
      <4>1. \A i \in DOMAIN buffer.events : buffer.events[i] \in EventRows
        BY <1>4
      <4>2. \A i \in DOMAIN buffer.events : buffer.events[i].parts \in Seq(Nat)
        BY <4>1 DEF EventRows
      <4>3. \A x : Has(buffer.events, x) => x \in Nat
        BY <4>2 DEF Has, PartOf, Among
      <4> QED
        BY <1>3, <4>3 DEF BufferInv
    <3>2. \A x : x \in Nat /\ x <= n => x <= n + 1
      BY <1>4
    <3>3. n + 1 <= n + 1
      BY <1>4
    <3> QED
      BY <1>6, <3>1, <3>2, <3>3
  <2>2. \A p \in DOMAIN pieces' : pieces'[p] > 0 /\ pieces'[p] <= turn
    BY <1>3, <1>4, <1>8 DEF BufferInv
  <2>3. ASSUME turn \notin capped', NEW p \in DOMAIN pieces', pieces'[p] = turn
        PROVE  Has(events, p)
    <3>1. ~Full /\ turn \notin capped
      BY <1>9, <2>3
    <3>2. CASE p = n + 1
      BY <1>6, <3>1, <3>2
    <3>3. CASE p \in DOMAIN pieces
      BY <1>3, <1>6, <1>8, <2>3, <3>1, <3>3 DEF BufferInv
    <3> QED
      BY <1>8, <3>2, <3>3
  <2>4. capped' \subseteq 0 .. turn
    BY <1>3, <1>4, <1>9 DEF BufferInv
  <2> QED
    BY <1>2, <1>3, <1>4, <1>6, <1>7, <1>8, <2>1, <2>2, <2>3, <2>4 DEF BufferInv
<1>11. DOMAIN viewer' = Viewers /\ viewer' = [v \in Viewers |-> viewer'[v]]
  BY <1>1 DEF Broadcast
<1>12. ASSUME NEW v \in Viewers
       PROVE  /\ viewer'[v] \in ViewerRows /\ InOrder(viewer'[v], n + 1)
              /\ ToldWhenOver(viewer'[v], turn, turn - 1)
              /\ IsWhole(viewer'[v], pieces', capped')
  <2>1. PICK w, z : w = viewer[v] /\ z = viewer'[v]
    OBVIOUS
  <2>2. /\ w \in ViewerRows /\ InOrder(w, n) /\ IsWhole(w, pieces, capped)
        /\ ToldWhenOver(w, turn, turn - 1) /\ viewer \in [Viewers -> ViewerRows]
    <3>1. LastOver = turn - 1
      BY <1>2, <1>3 DEF LastOver
    <3> QED
      BY <1>3, <2>1, <3>1 DEF ViewersInv
  <2>3. CASE Following(v)
    <3>1. Live(w) /\ w.turn = turn /\ IsPassed(z, w, event) /\ event = Event(kind, <<n + 1>>)
      BY <1>1, <1>3, <2>1, <2>2, <2>3, Broadcasting DEF IsPassed
    <3>2. /\ InOrder(z, n + 1) /\ ToldWhenOver(z, turn, turn - 1) /\ z.turn = w.turn
          /\ z.pc = w.pc /\ z.since = w.since
          /\ \A x : InHand(z, x) <=> InHand(w, x) \/ x = n + 1
      <4>1. kind \in {"delta", "status"}
        BY <1>1
      <4> QED
        BY <1>4, <2>2, <3>1, <4>1, PiecePassed
    <3>3. IsWhole(z, pieces', capped')
      BY <1>8, <1>9, <2>2, <3>1, <3>2 DEF IsWhole, Owed, Live
    <3> QED
      BY <2>1, <3>2, <3>3 DEF InOrder
  <2>4. CASE ~Following(v)
    <3>1. z = w /\ ~(Live(w) /\ w.turn = turn)
      BY <1>1, <1>3, <2>1, <2>2, <2>4, Broadcasting
    <3>2. InOrder(w, n + 1)
      <4>1. w.since \in Nat /\ \A i \in DOMAIN w.got : w.got[i] \in Nat
        BY <2>2 DEF ViewerRows
      <4>2. \A x : Has(w.queue, x) => x \in Nat
        <5>1. \A i \in DOMAIN w.queue : w.queue[i] \in EventRows
          BY <2>2 DEF ViewerRows
        <5>2. \A i \in DOMAIN w.queue : w.queue[i].parts \in Seq(Nat)
          BY <5>1 DEF EventRows
        <5> QED
          BY <5>2 DEF Has, PartOf, Among
      <4>3. w.since <= n + 1 /\ (\A i \in DOMAIN w.got : w.got[i] <= n + 1) /\ \A x : Has(w.queue, x) => x <= n + 1
        BY <1>4, <2>2, <4>1, <4>2 DEF InOrder
      <4> QED
        BY <2>2, <4>3 DEF InOrder
    <3>3. IsWhole(w, pieces', capped')
      <4>1. w.pc = "told" => w.turn # turn
        <5>1. w.turn \in Nat
          BY <2>2 DEF ViewerRows
        <5> QED
          BY <1>4, <2>2, <5>1 DEF ToldWhenOver
      <4>2. w.pc \in {"replay", "follow", "told"} => w.turn # turn
        BY <3>1, <4>1 DEF Live
      <4> QED
        BY <1>8, <1>9, <2>2, <4>2 DEF IsWhole, Owed
    <3> QED
      BY <2>1, <2>2, <3>1, <3>2, <3>3
  <2> QED
    BY <2>3, <2>4
<1>13. viewer' \in [Viewers -> ViewerRows]
  BY <1>11, <1>12
<1>14. ViewersInv'
  <2>1. LastOver' = turn - 1
    BY <1>7 DEF LastOver
  <2> QED
    BY <1>7, <1>8, <1>12, <1>13, <2>1 DEF ViewersInv
<1>15. TurnsInv'
  BY <1>2, <1>3, <1>4, <1>7 DEF TurnsInv
<1> QED
  BY <1>10, <1>14, <1>15

\* One viewer moves.
LEMMA OneViewerMoves ==
    ASSUME StreamInv, NEW v \in Viewers, NEW z \in ViewerRows, viewer' = [viewer EXCEPT ![v] = z],
           UNCHANGED <<buffer, talking, started, pieces, overlapped, capped>>,
           InOrder(z, Len(pieces)), ToldWhenOver(z, buffer.turn, LastOver), IsWhole(z, pieces, capped)
    PROVE  StreamInv'
<1> USE DEF StreamInv
<1>1. BufferInv' /\ TurnsInv' /\ LastOver' = LastOver
  BY DEF BufferInv, TurnsInv, LastOver
<1>2. viewer' \in [Viewers -> ViewerRows] /\ viewer'[v] = z /\ \A u \in Viewers \ {v} : viewer'[u] = viewer[u]
  BY DEF ViewersInv
<1>3. ViewersInv'
  BY <1>1, <1>2 DEF ViewersInv
<1> QED
  BY <1>1, <1>3

\* A viewer that has ended is given nothing more.
LEMMA GivingUp ==
    ASSUME StreamInv, NEW v \in Viewers, GivesUp(v)
    PROVE  StreamInv'
<1>1. PICK w, z : w = viewer[v] /\ z = Ends(v)
  OBVIOUS
<1>2. /\ w \in ViewerRows /\ InOrder(w, Len(pieces)) /\ ToldWhenOver(w, buffer.turn, LastOver)
  BY <1>1 DEF StreamInv, ViewersInv
<1>3. /\ z \in ViewerRows /\ z.pc = "over" /\ z.queue = <<>> /\ z.replay = <<>>
      /\ z.got = w.got /\ z.turn = w.turn /\ z.since = w.since
  BY <1>1, <1>2, NothingInNothing DEF Ends, ViewerRows, ViewerPcs
<1>4. InOrder(z, Len(pieces))
  BY <1>2, <1>3, NothingInNothing DEF InOrder, Live, Has
<1>5. ToldWhenOver(z, buffer.turn, LastOver)
  BY <1>2, <1>3 DEF ToldWhenOver, DoneIsLast, DoneIsEmpty, HasDone
<1>6. IsWhole(z, pieces, capped)
  BY <1>3 DEF IsWhole
<1> QED
  BY <1>1, <1>3, <1>4, <1>5, <1>6, OneViewerMoves DEF GivesUp

LEMMA Subscribing ==
    ASSUME StreamInv, NEW v \in Viewers, Subscribe(v)
    PROVE  StreamInv'
<1>1. viewer[v].pc = "idle" /\ UNCHANGED <<buffer, talking, started, pieces, overlapped, capped>>
  BY DEF Subscribe
<1>2. viewer[v] = NoViewer
  BY <1>1 DEF StreamInv, ViewersInv, InOrder
<1>3. /\ buffer \in [turn : Nat, events : Seq(EventRows), done : BOOLEAN]
      /\ Len(pieces) \in Nat /\ pieces \in Seq(Nat)
      /\ ~HasDone(buffer.events) /\ Rising(buffer.events) /\ \A x : Has(buffer.events, x) => x <= Len(pieces)
  BY DEF StreamInv, BufferInv
<1>4. CASE buffer.turn = 0
  <2>1. PICK z : z = [NoViewer EXCEPT !.pc = "told"]
    OBVIOUS
  <2>2. /\ z \in ViewerRows /\ z.pc = "told" /\ z.turn = 0 /\ z.replay = <<>> /\ z.queue = <<>>
        /\ z.got = <<>> /\ z.since = 0
    <3>1. z = [pc |-> "told", turn |-> 0, replay |-> <<>>, queue |-> <<>>, got |-> <<>>, since |-> 0]
      BY <2>1 DEF NoViewer
    <3>2. <<>> \in Seq(EventRows) /\ <<>> \in Seq(Nat) /\ 0 \in Nat /\ "told" \in ViewerPcs
      BY DEF ViewerPcs
    <3> QED
      BY <3>1, <3>2 DEF ViewerRows
  <2>3. viewer' = [viewer EXCEPT ![v] = z]
    BY <1>2, <1>4, <2>1 DEF Subscribe
  <2>4. InOrder(z, Len(pieces))
    BY <1>3, <2>2, NothingInNothing DEF InOrder, Live, Has
  <2>5. buffer.done
    BY <1>4 DEF StreamInv, BufferInv
  <2>6. ToldWhenOver(z, buffer.turn, LastOver)
    BY <1>4, <2>2, <2>5 DEF ToldWhenOver, DoneIsLast, DoneIsEmpty, HasDone, LastOver
  <2>7. IsWhole(z, pieces, capped)
    <3>1. \A p \in DOMAIN pieces : pieces[p] # 0
      BY <1>3 DEF StreamInv, BufferInv
    <3> QED
      BY <2>2, <3>1 DEF IsWhole, Owed
  <2> QED
    BY <1>1, <2>2, <2>3, <2>4, <2>6, <2>7, OneViewerMoves
<1>5. CASE buffer.turn # 0
  <2>1. PICK replay : replay = IF buffer.done THEN Append(buffer.events, Done) ELSE buffer.events
    OBVIOUS
  <2>2. PICK z : z = [NoViewer EXCEPT !.pc = "replay", !.turn = buffer.turn, !.since = Len(pieces),
                                      !.replay = replay, !.queue = <<>>]
    OBVIOUS
  <2>3. viewer' = [viewer EXCEPT ![v] = z]
    BY <1>2, <1>5, <2>1, <2>2 DEF Subscribe, Taken, Snapshot
  <2>4. Done \in EventRows /\ Done.kind = "done" /\ Done.parts = <<>> /\ Sorted(Done.parts) /\ \A x : ~PartOf(x, Done)
    BY DEF Done, Event, EventRows, Sorted, PartOf, Among
  <2>5. /\ replay \in Seq(EventRows) /\ Rising(replay) /\ \A x : Has(replay, x) <=> Has(buffer.events, x)
        /\ \A i, j \in DOMAIN replay : i < j => replay[i].kind # "done"
        /\ HasDone(replay) => buffer.done /\ DoneIsEmpty(replay)
    <3>1. CASE ~buffer.done
      BY <1>3, <2>1, <3>1 DEF HasDone
    <3>2. CASE buffer.done
      <4>1. replay = Append(buffer.events, Done)
        BY <2>1, <3>2
      <4>2. PICK m : m = Len(buffer.events) + 1
        OBVIOUS
      <4>3. /\ replay \in Seq(EventRows) /\ DOMAIN replay = DOMAIN buffer.events \union {m} /\ replay[m] = Done
            /\ m \in Nat /\ \A i \in DOMAIN buffer.events : replay[i] = buffer.events[i] /\ i < m /\ i \in Nat
            /\ \A x : Has(replay, x) <=> Has(buffer.events, x)
        BY <1>3, <2>4, <4>1, <4>2, EventAppended
      <4>4. Rising(replay)
        BY <1>3, <2>4, <4>1, RisingAppended
      <4>5. \A i \in DOMAIN buffer.events : buffer.events[i].kind # "done"
        BY <1>3 DEF HasDone
      <4>6. \A i, j \in DOMAIN replay : i < j => replay[i].kind # "done"
        BY <4>3, <4>5
      <4>7. DoneIsEmpty(replay)
        BY <2>4, <4>3, <4>5 DEF DoneIsEmpty
      <4> QED
        BY <3>2, <4>3, <4>4, <4>6, <4>7
    <3> QED
      BY <3>1, <3>2
  <2>6. /\ z \in ViewerRows /\ z.pc = "replay" /\ z.turn = buffer.turn /\ z.since = Len(pieces)
        /\ z.replay = replay /\ z.queue = <<>> /\ z.got = <<>>
    <3>1. z = [pc |-> "replay", turn |-> buffer.turn, replay |-> replay, queue |-> <<>>, got |-> <<>>,
               since |-> Len(pieces)]
      BY <2>2 DEF NoViewer
    <3>2. <<>> \in Seq(EventRows) /\ <<>> \in Seq(Nat) /\ "replay" \in ViewerPcs /\ buffer.turn \in Nat
      BY <1>3 DEF ViewerPcs
    <3> QED
      BY <1>3, <2>5, <3>1, <3>2 DEF ViewerRows
  <2>7. InOrder(z, Len(pieces))
    BY <1>3, <2>5, <2>6, NothingInNothing DEF InOrder, Live, Has
  <2>8. ToldWhenOver(z, buffer.turn, LastOver)
    <3>1. DoneIsLast(z)
      BY <2>5, <2>6 DEF DoneIsLast, DoneIsEmpty, HasDone
    <3> QED
      BY <1>3, <2>5, <2>6, <3>1 DEF ToldWhenOver, LastOver, HasDone
  <2>9. IsWhole(z, pieces, capped)
    <3>1. ASSUME NEW p \in DOMAIN pieces, Owed(z, pieces, capped, p) PROVE Has(z.replay, p)
      <4>1. pieces[p] = buffer.turn /\ buffer.turn \notin capped
        BY <1>3, <2>6, <3>1 DEF Owed
      <4> QED
        BY <2>5, <2>6, <4>1 DEF StreamInv, BufferInv
    <3> QED
      BY <3>1 DEF IsWhole, InHand
  <2> QED
    BY <1>1, <2>3, <2>6, <2>7, <2>8, <2>9, OneViewerMoves
<1> QED
  BY <1>4, <1>5

\* Taken from the head of the replay or the queue, and given.
HeadIsGiven(w, from, replay, queue, got, z) ==
    /\ from = (IF w.replay # <<>> THEN w.replay ELSE w.queue) /\ from # <<>> /\ Head(from).kind # "done"
    /\ Live(w) /\ (w.replay = <<>> => w.pc = "follow")
    /\ replay = (IF w.replay # <<>> THEN Tail(w.replay) ELSE w.replay)
    /\ queue = (IF w.replay # <<>> THEN w.queue ELSE Tail(w.queue))
    /\ got = w.got \o Head(from).parts
    /\ z \in ViewerRows /\ z.pc = w.pc /\ z.turn = w.turn /\ z.since = w.since
    /\ z.got = got /\ z.replay = replay /\ z.queue = queue

LEMMA HeadGiven ==
    ASSUME NEW w, NEW n \in Nat, NEW turn \in Nat, NEW last, InOrder(w, n), ToldWhenOver(w, turn, last),
           NEW from, NEW replay, NEW queue, NEW got, NEW z, HeadIsGiven(w, from, replay, queue, got, z)
    PROVE  /\ InOrder(z, n) /\ ToldWhenOver(z, turn, last) /\ \A x : InHand(w, x) => InHand(z, x)
<1>0. /\ from = (IF w.replay # <<>> THEN w.replay ELSE w.queue) /\ from # <<>> /\ Head(from).kind # "done"
      /\ Live(w) /\ (w.replay = <<>> => w.pc = "follow")
      /\ replay = (IF w.replay # <<>> THEN Tail(w.replay) ELSE w.replay)
      /\ queue = (IF w.replay # <<>> THEN w.queue ELSE Tail(w.queue))
      /\ got = w.got \o Head(from).parts
      /\ z \in ViewerRows /\ z.pc = w.pc /\ z.turn = w.turn /\ z.since = w.since
      /\ z.got = got /\ z.replay = replay /\ z.queue = queue
  BY DEF HeadIsGiven
<1>1. w \in ViewerRows /\ w.replay \in Seq(EventRows) /\ w.queue \in Seq(EventRows) /\ w.got \in Seq(Nat)
      /\ w.since \in Nat /\ w.since <= n
  BY DEF InOrder, ViewerRows
<1>2. from \in Seq(EventRows) /\ Rising(from)
  BY <1>0, <1>1 DEF InOrder
<1>3. PICK head : head = Head(from)
  OBVIOUS
<1>4. /\ head \in EventRows /\ Tail(from) \in Seq(EventRows) /\ Rising(Tail(from)) /\ Sorted(head.parts)
      /\ 1 \in DOMAIN from /\ from[1] = head
      /\ \A x : Has(from, x) <=> PartOf(x, head) \/ Has(Tail(from), x)
      /\ \A x, y : PartOf(x, head) /\ Has(Tail(from), y) => x < y
  BY <1>0, <1>2, <1>3, HeadTaken
<1>5. head.parts \in Seq(Nat) /\ \A k \in DOMAIN head.parts : PartOf(head.parts[k], head)
  BY <1>4 DEF EventRows, PartOf, Among
\* What is left, and what was taken.
<1>6. /\ \A x : Has(w.replay, x) <=> Has(replay, x) \/ (w.replay # <<>> /\ PartOf(x, head))
      /\ \A x : Has(w.queue, x) <=> Has(queue, x) \/ (w.replay = <<>> /\ PartOf(x, head))
      /\ Rising(replay) /\ Rising(queue)
  <2>1. CASE w.replay # <<>>
    BY <1>0, <1>4, <2>1 DEF InOrder
  <2>2. CASE w.replay = <<>>
    BY <1>0, <1>4, <2>2 DEF InOrder
  <2> QED
    BY <2>1, <2>2
<1>7. \A x : PartOf(x, head) => x \in Nat /\ (Has(w.replay, x) \/ Has(w.queue, x))
  <2>1. \A x : Among(x, head.parts) => x \in Nat
    BY <1>5 DEF Among
  <2> QED
    BY <1>6, <2>1 DEF PartOf
<1>8. \A x, y : PartOf(x, head) /\ (Has(replay, y) \/ Has(queue, y)) => x < y
  <2>1. CASE w.replay # <<>>
    <3>1. \A x : Has(w.queue, x) => x \in Nat
      <4>1. \A i \in DOMAIN w.queue : w.queue[i] \in EventRows
        BY <1>1
      <4>2. \A i \in DOMAIN w.queue : w.queue[i].parts \in Seq(Nat)
        BY <4>1 DEF EventRows
      <4> QED
        BY <4>2 DEF Has, PartOf, Among
    <3>2. \A x, y : PartOf(x, head) /\ Has(w.queue, y) => x < y
      BY <1>1, <1>6, <1>7, <2>1, <3>1 DEF InOrder
    <3> QED
      BY <1>0, <1>4, <2>1, <3>2
  <2>2. CASE w.replay = <<>>
    <3>1. \A x : ~Has(replay, x)
      BY <1>0, <2>2, NothingInNothing
    <3> QED
      BY <1>0, <1>4, <2>2, <3>1
  <2> QED
    BY <2>1, <2>2
<1>9. /\ got \in Seq(Nat) /\ Sorted(got)
      /\ \A x : Among(x, got) <=> Among(x, w.got) \/ PartOf(x, head)
  <2>1. got = w.got \o head.parts
    BY <1>0, <1>3
  <2>2. \A i \in DOMAIN w.got, j \in DOMAIN head.parts : w.got[i] < head.parts[j]
    BY <1>5, <1>7 DEF InOrder
  <2>3. Sorted(w.got)
    BY DEF InOrder
  <2>4. got \in Seq(Nat) /\ \A x : Among(x, got) <=> Among(x, w.got) \/ Among(x, head.parts)
    <3>1. head.parts \in Seq(Nat) /\ w.got \in Seq(Nat)
      BY <1>1, <1>5
    <3>2. w.got \o head.parts \in Seq(Nat)
      BY <3>1, PartsJoined
    <3>3. \A x : Among(x, w.got \o head.parts) <=> Among(x, w.got) \/ Among(x, head.parts)
      BY <3>1, PartsJoined
    <3> QED
      BY <2>1, <3>2, <3>3
  <2>5. Sorted(got)
    BY <1>1, <1>4, <1>5, <2>1, <2>2, <2>3, PartsJoined
  <2> QED
    BY <2>4, <2>5 DEF PartOf
<1>10. InOrder(z, n)
  <2>1. ASSUME NEW i \in DOMAIN got PROVE got[i] <= n /\ \A x : Has(replay, x) \/ Has(queue, x) => got[i] < x
    <3>1. Among(got[i], got)
      BY DEF Among
    <3>2. CASE Among(got[i], w.got)
      <4>1. PICK k \in DOMAIN w.got : w.got[k] = got[i]
        BY <3>2 DEF Among
      <4> QED
        BY <1>6, <4>1 DEF InOrder
    <3>3. CASE PartOf(got[i], head)
      <4>1. got[i] \in Nat /\ (Has(w.replay, got[i]) \/ Has(w.queue, got[i]))
        BY <1>7, <3>3
      <4>2. got[i] <= n
        <5>1. CASE Has(w.replay, got[i])
          <6>1. got[i] <= w.since
            BY <5>1 DEF InOrder
          <6>2. \A x, y \in Nat : x <= y /\ y <= n => x <= n
            OBVIOUS
          <6> QED
            BY <1>1, <4>1, <6>1, <6>2
        <5>2. CASE Has(w.queue, got[i])
          BY <5>2 DEF InOrder
        <5> QED
          BY <4>1, <5>1, <5>2
      <4> QED
        BY <1>8, <3>3, <4>2
    <3> QED
      BY <1>9, <3>1, <3>2, <3>3
  <2>2. (\A x : Has(replay, x) => x <= w.since) /\ \A x : Has(queue, x) => w.since < x /\ x <= n
    BY <1>6 DEF InOrder
  <2>3. z.pc # "replay" => z.replay = <<>>
    BY <1>0 DEF InOrder
  <2> QED
    BY <1>0, <1>1, <1>6, <1>9, <2>1, <2>2, <2>3 DEF InOrder, Live
<1>11. ToldWhenOver(z, turn, last)
  <2>1. \A i \in DOMAIN replay : \E k \in DOMAIN w.replay : w.replay[k] = replay[i] /\ \A j \in DOMAIN replay : i < j =>
              \E l \in DOMAIN w.replay : k < l /\ w.replay[l] = replay[j]
    <3>1. CASE replay = w.replay
      BY <3>1
    <3>2. CASE w.replay # <<>> /\ replay = Tail(w.replay)
      <4>1. \A i \in DOMAIN replay : i \in Nat /\ i + 1 \in DOMAIN w.replay /\ w.replay[i + 1] = replay[i]
        BY <1>1, <3>2
      <4>2. \A i, j \in DOMAIN replay : i < j => i + 1 < j + 1
        BY <4>1
      <4> QED
        BY <4>1, <4>2
    <3> QED
      BY <1>0, <3>1, <3>2
  <2>2. \A i \in DOMAIN queue : \E k \in DOMAIN w.queue : w.queue[k] = queue[i] /\ \A j \in DOMAIN queue : i < j =>
              \E l \in DOMAIN w.queue : k < l /\ w.queue[l] = queue[j]
    <3>1. CASE queue = w.queue
      BY <3>1
    <3>2. CASE w.queue # <<>> /\ queue = Tail(w.queue)
      <4>1. \A i \in DOMAIN queue : i \in Nat /\ i + 1 \in DOMAIN w.queue /\ w.queue[i + 1] = queue[i]
        BY <1>1, <3>2
      <4>2. \A i, j \in DOMAIN queue : i < j => i + 1 < j + 1
        BY <4>1
      <4> QED
        BY <4>1, <4>2
    <3> QED
      BY <1>0, <3>1, <3>2
  <2>3. (HasDone(replay) => HasDone(w.replay)) /\ (HasDone(queue) => HasDone(w.queue))
    BY <2>1, <2>2 DEF HasDone
  <2>4. DoneIsLast(z)
    <3>1. DoneIsEmpty(replay) /\ DoneIsEmpty(queue)
      BY <2>1, <2>2 DEF ToldWhenOver, DoneIsLast, DoneIsEmpty
    <3>2. \A i, j \in DOMAIN replay : i < j => replay[i].kind # "done"
      BY <2>1 DEF ToldWhenOver, DoneIsLast
    <3>3. \A i, j \in DOMAIN queue : i < j /\ queue[i].kind = "done" => queue[j].kind = "done"
      BY <2>2 DEF ToldWhenOver, DoneIsLast
    <3>4. HasDone(replay) => \A i \in DOMAIN queue : queue[i].kind = "done"
      BY <2>2, <2>3 DEF ToldWhenOver, DoneIsLast
    <3> QED
      BY <1>0, <3>1, <3>2, <3>3, <3>4 DEF DoneIsLast
  <2> QED
    BY <1>0, <2>3, <2>4 DEF ToldWhenOver, Live
<1>12. \A x : InHand(w, x) => InHand(z, x)
  BY <1>0, <1>6, <1>9 DEF InHand, Among
<1> QED
  BY <1>10, <1>11, <1>12

\* At the head of what is left is the end of the turn: everything was given.
LEMMA NothingIsLeft ==
    ASSUME NEW w, NEW n \in Nat, InOrder(w, n), DoneIsLast(w),
           NEW from, from = (IF w.replay # <<>> THEN w.replay ELSE w.queue), from # <<>>,
           Head(from).kind = "done"
    PROVE  /\ \A x : ~Has(w.replay, x) /\ ~Has(w.queue, x)
           /\ HasDone(w.replay) \/ HasDone(w.queue)
<1>1. w.replay \in Seq(EventRows) /\ w.queue \in Seq(EventRows)
  BY DEF InOrder, ViewerRows
<1>2. 1 \in DOMAIN from /\ from[1] = Head(from) /\ from \in Seq(EventRows) /\ \A i \in DOMAIN from : i = 1 \/ 1 < i
  BY <1>1
<1>3. CASE w.replay # <<>>
  <2>1. HasDone(w.replay)
    BY <1>2, <1>3 DEF HasDone
  <2>2. \A i \in DOMAIN w.replay : i = 1 /\ w.replay[i].kind = "done"
    BY <1>2, <1>3 DEF DoneIsLast
  <2>3. \A i \in DOMAIN w.queue : w.queue[i].kind = "done"
    BY <2>1 DEF DoneIsLast
  <2> QED
    BY <2>1, <2>2, <2>3 DEF DoneIsLast, DoneIsEmpty, Has, PartOf, Among
<1>4. CASE w.replay = <<>>
  <2>1. HasDone(w.queue) /\ \A i \in DOMAIN w.queue : w.queue[i].kind = "done"
    BY <1>2, <1>4 DEF HasDone, DoneIsLast
  <2> QED
    BY <1>4, <2>1, NothingInNothing DEF DoneIsLast, DoneIsEmpty, Has, PartOf, Among
<1> QED
  BY <1>3, <1>4

\* Taken from the queue or the replay: the end of the turn, or an event.
LEMMA Getting ==
    ASSUME StreamInv, NEW v \in Viewers, Gets(v)
    PROVE  StreamInv'
<1>1. PICK w, from : w = viewer[v] /\ from = IF w.replay # <<>> THEN w.replay ELSE w.queue
  OBVIOUS
<1>2. /\ w \in ViewerRows /\ InOrder(w, Len(pieces)) /\ ToldWhenOver(w, buffer.turn, LastOver)
      /\ IsWhole(w, pieces, capped) /\ viewer \in [Viewers -> ViewerRows]
  BY <1>1 DEF StreamInv, ViewersInv
<1>3. Live(w) /\ UNCHANGED <<buffer, talking, started, pieces, overlapped, capped>>
  BY <1>1 DEF Gets, Live
<1>4. Len(pieces) \in Nat /\ buffer.turn \in Nat
  BY DEF StreamInv, BufferInv
<1>5. w = [pc |-> w.pc, turn |-> w.turn, replay |-> w.replay, queue |-> w.queue, got |-> w.got, since |-> w.since]
      /\ w.turn \in Nat /\ w.replay \in Seq(EventRows) /\ w.queue \in Seq(EventRows) /\ w.got \in Seq(Nat)
      /\ w.since \in Nat
  BY <1>2 DEF ViewerRows
<1>6. CASE w.replay = <<>> /\ w.pc = "replay"
  <2>1. PICK z : z = [w EXCEPT !.pc = "follow"]
    OBVIOUS
  <2>2. viewer' = [viewer EXCEPT ![v] = z]
    BY <1>1, <1>2, <1>6, <2>1 DEF Gets
  <2>3. /\ z \in ViewerRows /\ z.pc = "follow" /\ z.turn = w.turn /\ z.replay = w.replay /\ z.queue = w.queue
        /\ z.got = w.got /\ z.since = w.since
    BY <1>2, <2>1 DEF ViewerRows, ViewerPcs
  <2>4. InOrder(z, Len(pieces))
    BY <1>2, <1>6, <2>3 DEF InOrder, Live
  <2>5. ToldWhenOver(z, buffer.turn, LastOver)
    BY <1>2, <2>3 DEF ToldWhenOver, DoneIsLast
  <2>6. IsWhole(z, pieces, capped)
    BY <1>2, <1>6, <2>3 DEF IsWhole, Owed, InHand
  <2> QED
    BY <1>3, <2>2, <2>3, <2>4, <2>5, <2>6, OneViewerMoves
<1>7. CASE ~(w.replay = <<>> /\ w.pc = "replay") /\ Head(from).kind = "done"
  <2>1. PICK z : z = [Ends(v) EXCEPT !.pc = "told"]
    OBVIOUS
  <2>2. from # <<>> /\ viewer' = [viewer EXCEPT ![v] = z]
    BY <1>1, <1>7, <2>1 DEF Gets
  <2>3. /\ z \in ViewerRows /\ z.pc = "told" /\ z.turn = w.turn /\ z.replay = <<>> /\ z.queue = <<>>
        /\ z.got = w.got /\ z.since = w.since
    <3>1. z = [pc |-> "told", turn |-> w.turn, replay |-> <<>>, queue |-> <<>>, got |-> w.got, since |-> w.since]
      BY <1>1, <1>5, <2>1 DEF Ends
    <3>2. <<>> \in Seq(EventRows) /\ "told" \in ViewerPcs
      BY DEF ViewerPcs
    <3> QED
      BY <1>5, <3>1, <3>2 DEF ViewerRows
  <2>4. (\A x : ~Has(w.replay, x) /\ ~Has(w.queue, x)) /\ (HasDone(w.replay) \/ HasDone(w.queue))
    BY <1>1, <1>2, <1>4, <1>7, <2>2, NothingIsLeft DEF ToldWhenOver
  <2>5. InOrder(z, Len(pieces))
    BY <1>2, <2>3, NothingInNothing DEF InOrder, Live
  <2>6. ToldWhenOver(z, buffer.turn, LastOver)
    <3>1. DoneIsLast(z) /\ ~HasDone(z.replay) /\ ~HasDone(z.queue)
      BY <2>3 DEF DoneIsLast, DoneIsEmpty, HasDone
    <3>2. w.turn <= buffer.turn /\ w.turn <= LastOver
      BY <1>2, <2>4 DEF ToldWhenOver
    <3> QED
      BY <2>3, <3>1, <3>2 DEF ToldWhenOver
  <2>7. IsWhole(z, pieces, capped)
    BY <1>2, <1>3, <2>3, <2>4 DEF IsWhole, Owed, InHand, Live
  <2> QED
    BY <1>3, <2>2, <2>3, <2>5, <2>6, <2>7, OneViewerMoves
<1>8. CASE ~(w.replay = <<>> /\ w.pc = "replay") /\ Head(from).kind # "done"
  <2>1. PICK replay, queue, got, z :
            /\ replay = (IF w.replay # <<>> THEN Tail(w.replay) ELSE w.replay)
            /\ queue = (IF w.replay # <<>> THEN w.queue ELSE Tail(w.queue))
            /\ got = w.got \o Head(from).parts
            /\ z = [w EXCEPT !.got = got, !.replay = replay, !.queue = queue]
    OBVIOUS
  <2>2. from # <<>> /\ viewer' = [viewer EXCEPT ![v] = z]
    <3>1. viewer' = [viewer EXCEPT ![v] =
                       [w EXCEPT !.got = @ \o Head(from).parts,
                                 !.replay = IF @ # <<>> THEN Tail(@) ELSE @,
                                 !.queue = IF w.replay # <<>> THEN @ ELSE Tail(@)]] /\ from # <<>>
      BY <1>1, <1>8 DEF Gets
    <3>2. z = [w EXCEPT !.got = @ \o Head(from).parts,
                        !.replay = IF @ # <<>> THEN Tail(@) ELSE @,
                        !.queue = IF w.replay # <<>> THEN @ ELSE Tail(@)]
      BY <1>5, <2>1
    <3> QED
      BY <3>1, <3>2
  <2>3. from \in Seq(EventRows) /\ Head(from) \in EventRows /\ Tail(from) \in Seq(EventRows)
    BY <1>1, <1>5, <2>2, HeadTaken
  <2>4. replay \in Seq(EventRows) /\ queue \in Seq(EventRows) /\ got \in Seq(Nat)
    <3>1. Head(from).parts \in Seq(Nat)
      BY <2>3 DEF EventRows
    <3>2. w.got \o Head(from).parts \in Seq(Nat)
      BY <1>5, <3>1, PartsJoined
    <3> QED
      BY <1>1, <1>5, <2>1, <2>3, <3>2
  <2>5. /\ z.pc = w.pc /\ z.turn = w.turn /\ z.replay = replay /\ z.queue = queue
        /\ z.got = got /\ z.since = w.since /\ z \in ViewerRows
    <3>1. z = [pc |-> w.pc, turn |-> w.turn, replay |-> replay, queue |-> queue, got |-> got, since |-> w.since]
      BY <1>5, <2>1
    <3>2. w.pc \in ViewerPcs
      BY <1>2 DEF ViewerRows
    <3> QED
      BY <1>5, <2>4, <3>1, <3>2 DEF ViewerRows
  <2>6. w.replay = <<>> => w.pc = "follow"
    BY <1>3, <1>8 DEF Live
  <2>7. InOrder(z, Len(pieces)) /\ ToldWhenOver(z, buffer.turn, LastOver) /\ \A x : InHand(w, x) => InHand(z, x)
    <3>1. HeadIsGiven(w, from, replay, queue, got, z)
      BY <1>1, <1>3, <1>8, <2>1, <2>2, <2>5, <2>6 DEF HeadIsGiven
    <3> QED
      BY <1>2, <1>4, <3>1, HeadGiven
  <2>8. IsWhole(z, pieces, capped)
    BY <1>2, <2>5, <2>7 DEF IsWhole, Owed
  <2> QED
    BY <1>3, <2>2, <2>5, <2>7, <2>8, OneViewerMoves
<1> QED
  BY <1>6, <1>7, <1>8

\* Every step of the stream keeps the invariant.
LEMMA StreamStep == StreamInv /\ [BrokerNext]_brokerVars => StreamInv'
<1> SUFFICES ASSUME StreamInv, [BrokerNext]_brokerVars PROVE StreamInv'
  OBVIOUS
<1>1. CASE StartTurn
  BY <1>1, StartingTurn
<1>2. CASE Publish
  BY <1>2, Publishing
<1>3. ASSUME NEW t \in 1 .. StreamTurns, FinishTurn(t) PROVE StreamInv'
  BY <1>3, Finishing
<1>4. ASSUME NEW v \in Viewers, Subscribe(v) PROVE StreamInv'
  BY <1>4, Subscribing
<1>5. ASSUME NEW v \in Viewers, Gets(v) PROVE StreamInv'
  BY <1>5, Getting
<1>6. ASSUME NEW v \in Viewers, GivesUp(v) PROVE StreamInv'
  BY <1>6, GivingUp
<1>7. CASE UNCHANGED brokerVars
  BY <1>7 DEF brokerVars, StreamInv, BufferInv, ViewersInv, TurnsInv, LastOver
<1> QED
  BY <1>1, <1>2, <1>3, <1>4, <1>5, <1>6, <1>7 DEF BrokerNext

\* What the invariant says of a stream.
LEMMA SoundStreams == StreamInv => StreamIsSound
<1> SUFFICES ASSUME StreamInv PROVE StreamIsSound
  OBVIOUS
<1>1. InOrderOnce
  <2>1. ASSUME NEW v \in Viewers PROVE Sorted(viewer[v].got)
    BY DEF StreamInv, ViewersInv, InOrder
  <2> QED
    BY <2>1 DEF InOrderOnce, Sorted
<1>2. ASSUME NEW v \in Viewers, viewer[v].pc = "told", NEW p \in DOMAIN pieces,
             pieces[p] = viewer[v].turn, p > viewer[v].since \/ viewer[v].turn \notin capped
      PROVE  p \in ToSet(viewer[v].got)
  <2>1. PICK w : w = viewer[v]
    OBVIOUS
  <2>2. InOrder(w, Len(pieces)) /\ IsWhole(w, pieces, capped)
    BY <2>1 DEF StreamInv, ViewersInv
  <2>3. w.replay = <<>> /\ w.queue = <<>>
    BY <1>2, <2>1, <2>2 DEF InOrder, Live
  <2>4. InHand(w, p)
    BY <1>2, <2>1, <2>2 DEF IsWhole, Owed
  <2>5. \E i \in DOMAIN w.got : w.got[i] = p
    BY <2>3, <2>4, NothingInNothing DEF InHand
  <2> QED
    BY <2>1, <2>5 DEF ToSet
<1> QED
  BY <1>1, <1>2 DEF StreamIsSound, FollowedIsWhole

\* THEOREM.  A viewer of a job's stream is given no piece twice and none out of
\* order, and one that followed to the end of the turn was given all of it, whether
\* it came before the turn or in the midst of it, for any number of viewers and
\* turns, any cap and turns that overlap: publish, finish and subscribe of the
\* chat broker.
THEOREM StreamStaysSound == BrokerSpec => []StreamIsSound
<1>1. BrokerInit => StreamInv
  BY StreamStarts
<1>2. StreamInv /\ [BrokerNext]_brokerVars => StreamInv'
  BY StreamStep
<1>3. StreamInv => StreamIsSound
  BY SoundStreams
<1> QED
  BY <1>1, <1>2, <1>3, PTL DEF BrokerSpec

\* THEOREM.  The buffer of a stream keeps to its cap, and unless turns overlap a
\* viewer is told of the end of a turn that has ended.
THEOREM BrokerTypesHold == BrokerSpec => []BrokerTypeOK
<1>1. BrokerInit => StreamInv
  BY StreamStarts
<1>2. StreamInv /\ [BrokerNext]_brokerVars => StreamInv'
  BY StreamStep
<1>3. ASSUME StreamInv PROVE BrokerTypeOK
  <2>1. ASSUME NEW v \in Viewers, viewer[v].pc = "told", viewer[v].turn # 0, ~overlapped,
               viewer[v].turn \in talking
        PROVE  FALSE
    <3>1. viewer[v].turn = buffer.turn /\ ~buffer.done
      BY <1>3, <2>1 DEF StreamInv, TurnsInv
    <3>2. buffer.turn <= LastOver /\ buffer.turn \in Nat
      BY <1>3, <2>1, <3>1 DEF StreamInv, ViewersInv, ToldWhenOver, BufferInv
    <3> QED
      BY <3>1, <3>2 DEF LastOver
  <2> QED
    BY <1>3, <2>1 DEF BrokerTypeOK, StreamInv, BufferInv
<1> QED
  BY <1>1, <1>2, <1>3, PTL DEF BrokerSpec
=============================================================================
