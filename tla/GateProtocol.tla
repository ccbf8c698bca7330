---------------------------- MODULE GateProtocol ----------------------------
(***************************************************************************)
(* What the feature pipeline promises its humans, with nothing of how the  *)
(* engine keeps the promise: a stage is worked on, it reaches a gate or it  *)
(* fails, and only a decision moves the pipeline off a gate.  Module        *)
(* Pipeline is shown to implement this specification.                       *)
(***************************************************************************)
EXTENDS Integers

CONSTANTS LastStage,   \* the terminal stage (P9)
          AutoStages   \* stages the engine may leave without asking a human

VARIABLES phase,   \* what the pipeline is doing
          at       \* the stage it is doing it at

gateVars == <<phase, at>>

Phases == {"working", "gate", "failed", "shipped", "dropped"}

GateTypeOK ==
    /\ phase \in Phases
    /\ at \in 0..LastStage

GateInit == phase = "working" /\ at = 0

\* A run ends at the gate of its stage, or fails there.
Finish == /\ phase = "working"
          /\ phase' \in {"gate", "failed"}
          /\ UNCHANGED at

\* The engine passes a stage by itself: only where that is allowed.
Advance == /\ phase = "working"
           /\ at \in AutoStages
           /\ at' = at + 1
           /\ UNCHANGED phase

\* A human approves the stage.  A failed stage cannot be approved.
Approve == /\ phase = "gate"
           /\ \/ at < LastStage /\ at' = at + 1 /\ phase' = "working"
              \/ at = LastStage /\ UNCHANGED at /\ phase' \in {"shipped", "dropped"}

\* A human answers the question a stage asked: the same stage goes on.
Answer == /\ phase = "gate"
          /\ phase' = "working"
          /\ UNCHANGED at

\* A human sends the pipeline back, never forward.
Redo == /\ phase \in {"gate", "failed"}
        /\ phase' = "working"
        /\ at' \in 0..at

Abort == /\ phase \in {"gate", "failed"}
         /\ phase' = "dropped"
         /\ UNCHANGED at

\* Only a dropped pipeline is submitted again, and from the first stage.
Reopen == /\ phase = "dropped"
          /\ phase' = "working"
          /\ at' = 0

GateNext == \/ Finish \/ Advance \/ Approve \/ Answer
            \/ Redo \/ Abort \/ Reopen

GateSpec == GateInit /\ [][GateNext]_gateVars
=============================================================================
