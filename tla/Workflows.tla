------------------------------ MODULE Workflows ------------------------------
(***************************************************************************)
(* The workflow record and the pure functions on it: resources/workflows.go*)
(* and the statuses of gen-go/models.  A record keeps the fields that the  *)
(* handlers decide on; payloads (input, output, tags, reasons, dates, the  *)
(* workflow definition) are left out.                                      *)
(***************************************************************************)
EXTENDS Naturals, FiniteSets

CONSTANTS WorkflowIDs,   \* the UUIDs that resources.NewWorkflow can draw
          NoID           \* the empty string: no workflow

ASSUME NoIDAssumption == NoID \notin WorkflowIDs

WorkflowStatus == {"queued", "running", "failed", "succeeded", "cancelled"}

\* store.TerminalStates.
TerminalStates == {"succeeded", "failed", "cancelled"}

(***************************************************************************)
(* Workflow.Jobs, seen through what WorkflowIsDone and ResumeWorkflowByID  *)
(* ask of it: "nil" (no job list, also what an empty list is stored as),   *)
(* "active" (some job is not in a final state) or "done".                  *)
(***************************************************************************)
JobsView == {"nil", "active", "done"}

(***************************************************************************)
(* resolved is ResolvedByUser, retries and retryFor link a workflow to the *)
(* retries made of it and to its original, and old says that LastUpdated   *)
(* is more than durationToRetryDescribeExecutions (5 minutes) ago.         *)
(***************************************************************************)
Workflow == [status   : WorkflowStatus,
             resolved : BOOLEAN,
             jobs     : JobsView,
             retries  : SUBSET WorkflowIDs,
             retryFor : WorkflowIDs \cup {NoID},
             old      : BOOLEAN]

\* resources.NewWorkflow, with RetryFor as RetryWorkflow sets it.
NewWorkflow(original) ==
    [status |-> "queued", resolved |-> FALSE, jobs |-> "nil",
     retries |-> {}, retryFor |-> original, old |-> FALSE]

(***************************************************************************)
(* The states of an SFN execution: "none" before StartExecution, "started" *)
(* while the service may still answer ExecutionDoesNotExist for it,        *)
(* "running", and the four final states.                                   *)
(***************************************************************************)
Live  == {"started", "running"}
Ended == {"succeeded", "failed", "timedOut", "aborted"}
ExecutionState == {"none"} \cup Live \cup Ended

\* resources.SFNStatusToWorkflowStatus.
SFNStatusToWorkflowStatus(e) ==
    CASE e \in Live                   -> "running"
      [] e = "succeeded"              -> "succeeded"
      [] e \in {"failed", "timedOut"} -> "failed"
      [] e = "aborted"                -> "cancelled"
      [] OTHER                        -> "queued"

\* "We consider any successful or canceled workflow as resolved": the same
\* rule in UpdateWorkflowSummary and in the events consumer.
ResolvesItself(status) == status \in {"succeeded", "cancelled"}

\* resources.WorkflowStatusIsDone.
WorkflowStatusIsDone(wf) ==
    \/ wf.status = "cancelled" /\ wf.resolved
    \/ wf.status \in {"failed", "succeeded"}

\* Mutant: the jobs alone decide.
WorkflowIsDoneByJobs(wf) == wf.jobs # "active"

\* resources.WorkflowIsDone: every job is in a final state, and the status.
WorkflowIsDone(wf) == wf.jobs # "active" /\ WorkflowStatusIsDone(wf)
=============================================================================
