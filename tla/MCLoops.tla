------------------------------- MODULE MCLoops -------------------------------
(*****************************************************************************)
(* The loops beside the pipeline, for TLC.                                   *)
(*****************************************************************************)
EXTENDS Loops

CONSTANTS a, b, ann, ben      \* processes and people

TwoProcesses == {a, b}
TwoPulls     == {"api", "web"}
OneRow       == 1 .. 1

\* an answer that re-arms, a skip, a crash and two failing queries
LimitWatch   == [e \in WatchEvents |->
                    CASE e = "query" -> 2 [] e \in {"rearm", "crash", "abort"} -> 1 [] OTHER -> 0]
\* a push under review and a fault
LimitReview  == [e \in ReviewEvents |-> IF e = "lost" THEN 0 ELSE 1]
\* any two kinds of events, once each
LimitsRoutine == {[e \in RoutineEvents |-> IF e \in two THEN 1 ELSE 0] : two \in kSubset(2, RoutineEvents)}
\* each event once
LimitDigest  == [e \in DigestEvents |-> 1]
OneAndTwo    == 1 .. 2
TwoPeople    == {ann, ben}
\* both roles are taken, or one column is empty
Columns      == {[founder |-> ann, dev |-> ben], [founder |-> ann, dev |-> NoPerson]}

\* What stands still stands at one of its initial states.
MCLoopsInit ==
    /\ LoopsInit
    /\ focus # "routines" => /\ \A r \in Rows : routine[r].kind = "builtin"
                             /\ sleft["edit"] = 1 /\ sleft["ask"] = 1
    /\ focus # "digest" => report = "standup_digest"
    /\ focus # "signals" => family = "redo" /\ upkeep
    /\ focus # "ladder" => dri.dev = ben
MCLoopsSpec == MCLoopsInit /\ [][LoopsNext]_loopVars /\ LoopsFairness
==============================================================================
