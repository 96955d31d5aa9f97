----------------------------- MODULE ServiceCallsMC -----------------------------
(***************************************************************************)
(* Small instances of ServiceCalls.                                        *)
(***************************************************************************)
EXTENDS ServiceCalls

CONSTANTS w1, w2, w3

\* Two workflows were created in the same millisecond.
MCCreatedAt == [w \in {w1, w2, w3} |-> IF w = w3 THEN 2 ELSE 1]

CONSTANTS c1, c2

(***************************************************************************)
(* Operations share state only with those of the same family: definitions, *)
(* state resources, the search.  There two callers and the requests that   *)
(* one of them has left behind get in each other's way.  Every operation   *)
(* is also called alone, with all the defects a request can have.          *)
(***************************************************************************)
Sound(ops) == ops \X {"none"}

Together(ops1, ops2) ==
    [asks |-> [c \in Caller |-> Sound(IF c = c1 THEN ops1 ELSE ops2)],
     circuit |-> "debug"]

Alone(op, mode) ==
    [asks |-> [c \in Caller |-> IF c = c1 THEN {op} \X Defect ELSE {}],
     circuit |-> mode]

SavesOfDefinitions == Together({"NewWorkflowDefinition", "UpdateWorkflowDefinition"},
                               {"UpdateWorkflowDefinition"})
StateResources == Together({"PostStateResource", "DeleteStateResource"},
                           {"PutStateResource", "GetStateResource",
                            "DeleteStateResource"})

MCWorkloads == {SavesOfDefinitions, StateResources}
                   \cup {Alone(op, mode) : op \in Op, mode \in {"debug", "closed"}}
=============================================================================
