------------------------------- MODULE MCDesk --------------------------------
(*****************************************************************************)
(* The desk between the pipeline and its people, for TLC.                    *)
(*****************************************************************************)
EXTENDS Desk

CONSTANTS a, g      \* a process, an answer of a gate

OneProcess   == {a}
OneAndTwo    == 1 .. 2
SecondRun    == {2}
ThreeQuestions == 1 .. 3
BothKinds    == {"sentry", "task"}
BothItems    == {"feature", "v1"}
OneAnswer    == {g}
\* the provider claims one name for two people; it is free or taken
TwoSubjects  == {"sub", "peer"}
TakenNames   == {"root", "ann"}
NameClaimed  == [s \in TwoSubjects |-> "ann"]

\* What stands still stands at one of its initial states.
MCDeskInit ==
    /\ DeskInit
    /\ focus # "requests" => kind = "sentry"
    /\ focus # "chat" => item = "feature"
MCDeskSpec == MCDeskInit /\ [][DeskNext]_deskVars /\ DeskFairness
==============================================================================
