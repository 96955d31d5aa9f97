-------------------------- MODULE WorkflowManagerMC --------------------------
(***************************************************************************)
(* WorkflowManager for TLC: symmetry, a bound, and the property of         *)
(* ResumeWorkflowByID that speaks of all descendants of a workflow.        *)
(***************************************************************************)
EXTENDS WorkflowManager, TLC, Relation

Symmetry == Permutations(WorkflowIDs) \cup Permutations(Req)

\* Bound: a second workflow is a retry of the first; when it is saved no other
\* request is under way, and none but further resumes come after it.
RetryAlone ==
    (\A i \in WorkflowIDs : life'[i] # "fresh") =>
        /\ \E i \in WorkflowIDs : table'[i].retryFor # NoID
        /\ \A r, q \in Req : req'[r].pc # "idle" /\ req'[q].pc # "idle" => r = q
        /\ \A r \in Req : req[r].pc = "idle" => req'[r].pc \in {"idle", "resume.descendants"}

IsRetryOf == [p \in WorkflowIDs \X WorkflowIDs |->
                life[p[2]] # "fresh" /\ table[p[2]].retryFor = p[1]]

\* The retries of i, their retries, and so on.
Descendants(i) ==
    LET closure == TransitiveClosure(IsRetryOf, WorkflowIDs)
    IN {d \in WorkflowIDs : closure[i, d]}

\* "Cannot resume workflow because it has active descendants": when the
\* execution of a retry starts, no other descendant of the workflow that it
\* retries has a live execution.
RetryIsExclusive ==
    [][\A i \in WorkflowIDs :
          exec[i] = "none" /\ exec'[i] # "none" /\ table[i].retryFor # NoID
              => \A d \in Descendants(table[i].retryFor) : exec[d] \notin Live]_vars
=============================================================================
