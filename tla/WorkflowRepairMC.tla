--------------------------- MODULE WorkflowRepairMC ---------------------------
(***************************************************************************)
(* WorkflowRepair for TLC.                                                 *)
(***************************************************************************)
EXTENDS WorkflowRepair

CONSTANTS w1, w2, r1, r2

\* What the first request handler may be called for, and the second.
Calls(first, second) == [r \in Req |-> IF r = r1 THEN first ELSE second]

(***************************************************************************)
(* A workflow that clients start, poll, cancel and resolve; one for which  *)
(* they make the same calls and need not poll; one that two of them cancel *)
(* and resolve at the same time; and one that is retried.                  *)
(***************************************************************************)
Polled  == [calls |-> Calls({"start", "get", "cancel", "resolve"}, {}), ids |-> {w1},
            polling |-> TRUE, faults |-> Faults]
Watched == [Polled EXCEPT !.polling = FALSE]
Shared  == [calls |-> Calls({"start", "cancel", "resolve"}, {"cancel", "resolve"}),
            ids |-> {w1}, polling |-> FALSE, faults |-> Faults]
Retried == [calls |-> Calls({"start", "resume"}, {}), ids |-> {w1, w2},
            polling |-> FALSE, faults |-> Faults \ {"redeliver"}]

MCScenarios == {Polled, Watched, Shared, Retried}
=============================================================================
