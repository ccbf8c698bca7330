----------------------------- MODULE MCPipeline -----------------------------
(***************************************************************************)
(* Values of Pipeline's constants for TLC: three stages shaped like the     *)
(* real ten (a document stage, the optional build stage, the last stage),   *)
(* and, for each run, how many outside events of each kind may happen.      *)
(***************************************************************************)
EXTENDS Pipeline

MCCodeStages == {1, 2}
MCAutoStages == {0, 1}
NoGroupStage == -1      \* every plan has several build groups

Bound(answer, text, lap, crash, fault, fetch, push, edit) ==
    [e \in Events |-> CASE e = "answer" -> answer [] e = "text"  -> text
                        [] e = "lap"    -> lap    [] e = "crash" -> crash
                        [] e = "fault"  -> fault  [] e = "fetch" -> fetch
                        [] e = "push"   -> push   [] e = "edit"  -> edit]

\* progress through answers, laps, crashes and failed fetches, or with a failed call
LimitsGates == {Bound(1, 1, 1, 1, 0, 1, 0, 0), Bound(1, 0, 0, 1, 1, 0, 0, 0)}
\* questions and notes against foreign pushes, human edits and a failed push;
\* or enough questions and failures to overspend budgets of one, and a redo
LimitsBranch == {Bound(0, 2, 0, 0, 1, 0, 1, 1), Bound(1, 2, 0, 0, 2, 0, 0, 0)}
\* three answers, so a redo of a redo, with no failure
LimitsRedo == {Bound(3, 1, 0, 0, 0, 0, 0, 1)}
\* answers and one crash
LimitsCrash == {Bound(2, 0, 0, 1, 0, 0, 0, 0)}
\* one note
LimitsNote == {Bound(1, 1, 0, 0, 0, 0, 0, 0)}
\* answers and one failed fetch
LimitsFetch == {Bound(2, 0, 0, 0, 0, 1, 0, 0)}
=============================================================================
