----------------------------- MODULE JobHistoryMC -----------------------------
(***************************************************************************)
(* JobHistory for TLC.                                                     *)
(***************************************************************************)
EXTENDS JobHistory, TLC

Symmetry == Permutations(Branch)

\* "The last Job which is all that is needed to determine the state where a
\* workflow has failed": where SFN says which state an execution failed
\* because of, LastJob of UpdateWorkflowLastJob is the visit of that state.
LastJobIsWhereItFailed ==
    (reader.who = "lastJob" /\ EndRead /\ jobs # <<>>
        /\ history[read].type = "execFailed" /\ history[read].of # 0)
            => jobs[Len(jobs)] = history[read].of
=============================================================================
