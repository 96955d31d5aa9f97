--------------------------- MODULE WorkflowManager ---------------------------
(***************************************************************************)
(* The life of a workflow: the request handlers (handler.go), the SFN      *)
(* workflow manager (executor/workflow_manager_sfn.go) and the events      *)
(* consumer (cmd/sfn-execution-events-consumer) over one DynamoDB table    *)
(* and the Step Functions service.                                         *)
(*                                                                         *)
(* Every call to the store or to SFN is a step of its own: between two     *)
(* calls of a handler any other handler, the consumer or SFN may act.      *)
(* A handler works on the copy of the workflow that it read first, and     *)
(* UpdateWorkflow stores that whole copy.                                  *)
(***************************************************************************)
EXTENDS Workflows

CONSTANTS Req,      \* requests the service handles at the same time
          Ops,      \* the endpoints that clients call
          Faults    \* what the environment may do to us

ASSUME OpsAssumption ==
    /\ Ops \subseteq {"start", "get", "cancel", "resolve", "resume"}
    /\ Faults \subseteq {"abandon", "ambiguousStart", "resend",
                         "dropEvent", "redeliver"}

VARIABLES table,    \* the workflows table
          life,     \* whether the table has the item: never, now or no more
          exec,     \* the SFN execution named after the workflow
          stream,   \* Kinesis: the SFN history events that we act on
          req       \* what each request handler is doing

vars == <<table, life, exec, stream, req>>
-----------------------------------------------------------------------------
(***************************************************************************)
(* The handlers.  A request is at pc, between two calls.  id and wf are    *)
(* the workflow it is about and the handler's copy of it, new the workflow *)
(* it creates, todo the descendants that areDescendantWorkflowsDone has    *)
(* yet to look at.                                                         *)
(***************************************************************************)
PutPC   == {"get.historyPut", "get.put", "cancel.put", "resolve.put",
            "resume.historyPut", "retry.put"}
StartPC == {"create.start", "retry.put", "retry.start"}
PC == PutPC \cup StartPC \cup
      {"idle", "create.delete", "get.history", "get.summary", "cancel.stop",
       "resume.descendants", "resume.history", "resume.reread", "retry.save"}

Request == [pc : PC, id : WorkflowIDs \cup {NoID}, wf : Workflow,
            new : WorkflowIDs \cup {NoID}, todo : SUBSET WorkflowIDs]

IdleRequest == [pc |-> "idle", id |-> NoID, wf |-> NewWorkflow(NoID),
                new |-> NoID, todo |-> {}]

\* The history events that the consumer acts on: the one with ID 2, and the
\* one that ends an execution.
Event == WorkflowIDs \X {"second", "terminal"}

Init ==
    /\ table = [i \in WorkflowIDs |-> NewWorkflow(NoID)]
    /\ life = [i \in WorkflowIDs |-> "fresh"]
    /\ exec = [i \in WorkflowIDs |-> "none"]
    /\ stream = {}
    /\ req = [r \in Req |-> IdleRequest]

Goto(r, state) == req' = [req EXCEPT ![r] = state]

\* The handler returns, with or without an error.
Return(r) == Goto(r, IdleRequest)

Stored(i) == life[i] = "stored"

(***************************************************************************)
(* An execution that was only just started may be unknown to SFN's other   *)
(* calls: DescribeExecution, StopExecution and GetExecutionHistory may     *)
(* answer ExecutionDoesNotExist for it.                                    *)
(***************************************************************************)
MayBeVisible(i) == exec[i] # "none"
MayBeMissing(i) == exec[i] \in {"none", "started"}

\* A request is going to start the execution of i.
Starting(i) == \E r \in Req : req[r].pc \in StartPC /\ req[r].new = i
-----------------------------------------------------------------------------
(***************************************************************************)
(* The store.                                                              *)
(***************************************************************************)

\* SaveWorkflow: NewWorkflow draws a UUID that no item has or had.
SaveWorkflow(i, original) ==
    /\ life[i] = "fresh"
    /\ life' = [life EXCEPT ![i] = "stored"]
    /\ table' = [table EXCEPT ![i] = NewWorkflow(original)]

\* The item a put of w leaves: LastUpdated is now, and the jobs are left out
\* when the item is too large with them.
StoredForms(w) == {[w EXCEPT !.old = FALSE, !.jobs = j] : j \in {w.jobs, "nil"}}

Put(i, w) == \E item \in StoredForms(w) : table' = [table EXCEPT ![i] = item]

\* GetWorkflowByID of the store finds i and the handler goes on with its copy.
Read(r, i, pc) ==
    /\ Stored(i)
    /\ Goto(r, [IdleRequest EXCEPT !.pc = pc, !.id = i, !.wf = table[i]])

AfterPut(s) ==
    CASE s.pc = "get.historyPut"    -> [s EXCEPT !.pc = "get.summary"]
      [] s.pc = "resume.historyPut" -> [s EXCEPT !.pc = "resume.reread"]
      [] s.pc = "retry.put"         -> [s EXCEPT !.pc = "retry.start"]
      [] OTHER                      -> IdleRequest

(***************************************************************************)
(* UpdateWorkflow: the put of the handler's whole copy, on the condition   *)
(* only that the item exists (NotFound otherwise).                         *)
(***************************************************************************)
UpdateWorkflow(r) ==
    /\ req[r].pc \in PutPC
    /\ \/ /\ Stored(req[r].id)
          /\ Put(req[r].id, req[r].wf)
          /\ Goto(r, AfterPut(req[r]))
       \/ /\ ~Stored(req[r].id)
          /\ Return(r)
          /\ UNCHANGED table
    /\ UNCHANGED <<life, exec, stream>>

\* The DynamoDB client sends a put again when its answer was lost.
ResendPut(r) ==
    /\ "resend" \in Faults
    /\ req[r].pc \in PutPC
    /\ Stored(req[r].id)
    /\ Put(req[r].id, req[r].wf)
    /\ UNCHANGED <<life, exec, stream, req>>
-----------------------------------------------------------------------------
(***************************************************************************)
(* StartWorkflow and CreateWorkflow.                                       *)
(***************************************************************************)
StartWorkflow(r) ==
    /\ "start" \in Ops
    /\ req[r].pc = "idle"
    /\ \E i \in WorkflowIDs :
          /\ SaveWorkflow(i, NoID)
          /\ Goto(r, [IdleRequest EXCEPT !.pc = "create.start", !.new = i])
    /\ UNCHANGED <<exec, stream>>

AfterStartError(s) ==
    IF s.pc = "create.start" THEN [s EXCEPT !.pc = "create.delete"] ELSE IdleRequest

\* Mutant: the clean-up of CreateWorkflow runs whether or not there was an error.
StartExecutionThenDelete(r) ==
    /\ req[r].pc \in {"create.start", "retry.start"}
    /\ exec' = [exec EXCEPT ![req[r].new] = "started"]
    /\ Goto(r, AfterStartError(req[r]))
    /\ UNCHANGED <<table, life, stream>>

\* StartExecution, with the workflow's ID as the name of the execution.
StartExecution(r) ==
    /\ req[r].pc \in {"create.start", "retry.start"}
    /\ exec' = [exec EXCEPT ![req[r].new] = "started"]
    /\ Return(r)
    /\ UNCHANGED <<table, life, stream>>

(***************************************************************************)
(* StartExecution returns an error.  CreateWorkflow goes on to delete the  *)
(* workflow, RetryWorkflow leaves it.  An error need not mean that there   *)
(* is no execution: the answer may have been lost or come too late.        *)
(***************************************************************************)
StartExecutionFails(r) ==
    /\ req[r].pc \in {"create.start", "retry.start"}
    /\ \/ UNCHANGED exec
       \/ /\ "ambiguousStart" \in Faults
          /\ exec' = [exec EXCEPT ![req[r].new] = "started"]
    /\ Goto(r, AfterStartError(req[r]))
    /\ UNCHANGED <<table, life, stream>>

\* The goroutine that removes a workflow whose execution did not start.
DeleteWorkflowByID(r) ==
    /\ req[r].pc = "create.delete"
    /\ life' = [life EXCEPT ![req[r].new] = "deleted"]
    /\ Return(r)
    /\ UNCHANGED <<table, exec, stream>>
-----------------------------------------------------------------------------
(***************************************************************************)
(* GetWorkflowByID, with or without fetchHistory.                          *)
(***************************************************************************)
GetWorkflowByID(r) ==
    /\ "get" \in Ops
    /\ req[r].pc = "idle"
    /\ \E i \in WorkflowIDs, pc \in {"get.history", "get.summary"} : Read(r, i, pc)
    /\ UNCHANGED <<table, life, exec, stream>>

(***************************************************************************)
(* UpdateWorkflowHistory, also called by ResumeWorkflowByID: the jobs of   *)
(* the copy are rebuilt from the history, whatever they are, and the copy  *)
(* is put.  Without an execution there is nothing to do.                   *)
(***************************************************************************)
UpdateWorkflowHistory(r) ==
    /\ req[r].pc \in {"get.history", "resume.history"}
    /\ LET inGet == req[r].pc = "get.history" IN
       \/ /\ MayBeVisible(req[r].id)
          /\ \E j \in JobsView :
                Goto(r, [req[r] EXCEPT
                           !.wf.jobs = j,
                           !.pc = IF inGet THEN "get.historyPut"
                                           ELSE "resume.historyPut"])
       \/ /\ MayBeMissing(req[r].id)
          /\ Goto(r, [req[r] EXCEPT
                         !.pc = IF inGet THEN "get.summary" ELSE "resume.reread"])
    /\ UNCHANGED <<table, life, exec, stream>>

\* Mutant: a cancelled workflow is not marked as resolved.
SummarisedUnresolved(wf, e) ==
    LET status == SFNStatusToWorkflowStatus(e) IN
    [wf EXCEPT !.status = status,
               !.old = FALSE,
               !.resolved = wf.resolved \/ status = "succeeded"]

\* What UpdateWorkflowSummary makes of a workflow once SFN says that its
\* execution is in state e.
Summarised(wf, e) ==
    LET status == SFNStatusToWorkflowStatus(e) IN
    [wf EXCEPT !.status = status,
               !.old = FALSE,
               !.resolved = wf.resolved \/ ResolvesItself(status)]

\* Mutant: the time of the update is saved, the status is not.
ZombieUnsaved(wf) == [wf EXCEPT !.old = FALSE]

\* A workflow without an execution five minutes after it was last updated.
Zombie(wf) == [wf EXCEPT !.status = "failed", !.old = FALSE]

\* Mutant: a workflow without an execution is failed at any age.
UpdateWorkflowSummaryEager(r) ==
    /\ req[r].pc = "get.summary"
    /\ LET i == req[r].id
           wf == req[r].wf
           PutCopy(w) == Goto(r, [req[r] EXCEPT !.pc = "get.put", !.wf = w])
       IN \/ WorkflowIsDone(wf) /\ Return(r)
          \/ ~WorkflowIsDone(wf) /\ MayBeVisible(i) /\ PutCopy(Summarised(wf, exec[i]))
          \/ ~WorkflowIsDone(wf) /\ MayBeMissing(i) /\ PutCopy(Zombie(wf))
    /\ UNCHANGED <<table, life, exec, stream>>

UpdateWorkflowSummary(r) ==
    /\ req[r].pc = "get.summary"
    /\ LET i == req[r].id
           wf == req[r].wf
           PutCopy(w) == Goto(r, [req[r] EXCEPT !.pc = "get.put", !.wf = w])
       IN \/ WorkflowIsDone(wf) /\ Return(r)
          \/ /\ ~WorkflowIsDone(wf)
             /\ MayBeVisible(i)
             /\ PutCopy(Summarised(wf, exec[i]))
          \/ /\ ~WorkflowIsDone(wf)
             /\ MayBeMissing(i)
             /\ IF wf.old THEN PutCopy(Zombie(wf)) ELSE Return(r)
    /\ UNCHANGED <<table, life, exec, stream>>
-----------------------------------------------------------------------------
(***************************************************************************)
(* CancelWorkflow.                                                         *)
(***************************************************************************)
CancelWorkflow(r) ==
    /\ "cancel" \in Ops
    /\ req[r].pc = "idle"
    /\ \E i \in WorkflowIDs :
          /\ table[i].status \notin {"succeeded", "failed"}
          /\ Read(r, i, "cancel.stop")
    /\ UNCHANGED <<table, life, exec, stream>>

\* StopExecution ends a live execution and leaves an ended one as it is.
StopExecution(r) ==
    /\ req[r].pc = "cancel.stop"
    /\ LET i == req[r].id IN
       \/ /\ MayBeVisible(i)
          /\ exec[i] \in Live
          /\ exec' = [exec EXCEPT ![i] = "aborted"]
          /\ stream' = stream \cup {<<i, "terminal">>}
          /\ Goto(r, [req[r] EXCEPT !.pc = "cancel.put", !.wf.resolved = TRUE])
       \/ /\ exec[i] \in Ended
          /\ Goto(r, [req[r] EXCEPT !.pc = "cancel.put", !.wf.resolved = TRUE])
          /\ UNCHANGED <<exec, stream>>
       \/ /\ MayBeMissing(i)
          /\ Return(r)
          /\ UNCHANGED <<exec, stream>>
    /\ UNCHANGED <<table, life>>

(***************************************************************************)
(* ResolveWorkflowByID: a Conflict when the workflow is resolved already.  *)
(***************************************************************************)
ResolveWorkflowByID(r) ==
    /\ "resolve" \in Ops
    /\ req[r].pc = "idle"
    /\ \E i \in WorkflowIDs :
          /\ Stored(i)
          /\ ~table[i].resolved
          /\ Goto(r, [IdleRequest EXCEPT !.pc = "resolve.put", !.id = i,
                                         !.wf = [table[i] EXCEPT !.resolved = TRUE]])
    /\ UNCHANGED <<table, life, exec, stream>>
-----------------------------------------------------------------------------
(***************************************************************************)
(* ResumeWorkflowByID and RetryWorkflow.                                   *)
(***************************************************************************)
ResumeWorkflowByID(r) ==
    /\ "resume" \in Ops
    /\ req[r].pc = "idle"
    /\ \E i \in WorkflowIDs :
          /\ Stored(i)
          /\ WorkflowIsDone(table[i])
          /\ Goto(r, [IdleRequest EXCEPT !.pc = "resume.descendants", !.id = i,
                                         !.wf = table[i], !.todo = table[i].retries])
    /\ UNCHANGED <<table, life, exec, stream>>

(***************************************************************************)
(* areDescendantWorkflowsDone reads one descendant after the other.  todo  *)
(* is a set: any order of the search, the code's depth first one among     *)
(* them.  An active or a missing descendant ends the request.              *)
(***************************************************************************)
AreDescendantWorkflowsDone(r) ==
    /\ req[r].pc = "resume.descendants"
    /\ \E c \in req[r].todo :
          IF Stored(c) /\ WorkflowIsDone(table[c])
          THEN Goto(r, [req[r] EXCEPT !.todo = (@ \ {c}) \cup table[c].retries])
          ELSE Return(r)
    /\ UNCHANGED <<table, life, exec, stream>>

(***************************************************************************)
(* The job for StartAt is the last job or one of the jobs of the copy      *)
(* ("retry.save"); a copy without jobs first gets them from the history.   *)
(* When there is no such job, or it never started, the request ends.       *)
(* LastJob is not in the record: it is written with the status "failed",   *)
(* from the history of an execution that failed, and stays with it.        *)
(***************************************************************************)
MayHaveLastJob(i) == exec[i] \in {"failed", "timedOut"}

FindJob(r) ==
    /\ req[r].pc = "resume.descendants"
    /\ req[r].todo = {}
    /\ \/ /\ req[r].wf.jobs # "nil" \/ MayHaveLastJob(req[r].id)
          /\ Goto(r, [req[r] EXCEPT !.pc = "retry.save"])
       \/ /\ req[r].wf.jobs = "nil"
          /\ Goto(r, [req[r] EXCEPT !.pc = "resume.history"])
       \/ Return(r)
    /\ UNCHANGED <<table, life, exec, stream>>

RereadWorkflow(r) ==
    /\ req[r].pc = "resume.reread"
    /\ \/ /\ Read(r, req[r].id, "retry.save")
          /\ table[req[r].id].jobs # "nil"
       \/ Return(r)
    /\ UNCHANGED <<table, life, exec, stream>>

\* RetryWorkflow up to SaveWorkflow of the retry; the copy that is put next
\* lists the retry.
RetryWorkflow(r) ==
    /\ req[r].pc = "retry.save"
    /\ \/ /\ WorkflowIsDone(req[r].wf)
          /\ \E i \in WorkflowIDs :
                /\ SaveWorkflow(i, req[r].id)
                /\ Goto(r, [req[r] EXCEPT !.pc = "retry.put", !.new = i,
                                          !.wf.retries = @ \cup {i}])
       \/ /\ ~WorkflowIsDone(req[r].wf)
          /\ Return(r)
          /\ UNCHANGED <<table, life>>
    /\ UNCHANGED <<exec, stream>>
-----------------------------------------------------------------------------
(***************************************************************************)
(* The events consumer.                                                    *)
(***************************************************************************)

\* Mutant: no condition on the stored status.
UpdateWorkflowAttributesAlways(i, status) ==
    IF Stored(i)
    THEN table' = [table EXCEPT ![i].status = status,
                                ![i].resolved = @ \/ ResolvesItself(status)]
    ELSE UNCHANGED table

\* Mutant: a workflow has to be running before it can end.
UpdateWorkflowAttributesInOrder(i, status) ==
    IF Stored(i) /\ table[i].status = (IF status = "running" THEN "queued" ELSE "running")
    THEN table' = [table EXCEPT ![i].status = status,
                                ![i].resolved = @ \/ ResolvesItself(status)]
    ELSE UNCHANGED table

\* UpdateWorkflowAttributes with a status: refused (and the error swallowed)
\* when it would take the workflow from a terminal to another state, and
\* nothing but an error when there is no item.  LastUpdated is not among
\* the attributes that the consumer sets.
UpdateWorkflowAttributes(i, status) ==
    IF Stored(i) /\ (status \in TerminalStates \/ table[i].status \notin TerminalStates)
    THEN table' = [table EXCEPT ![i].status = status,
                                ![i].resolved = @ \/ ResolvesItself(status)]
    ELSE UNCHANGED table

StatusOfEvent(evt) ==
    IF evt[2] = "second" THEN "running" ELSE SFNStatusToWorkflowStatus(exec[evt[1]])

\* An event may be delivered more than once: Lambda retries a batch.
HandleHistoryEvent(evt) ==
    /\ evt \in stream
    /\ UpdateWorkflowAttributes(evt[1], StatusOfEvent(evt))
    /\ \/ stream' = stream \ {evt}
       \/ "redeliver" \in Faults /\ UNCHANGED stream
    /\ UNCHANGED <<life, exec, req>>

\* Handle logs an error and drops the event with it: the lambda always
\* returns nil.
DropEvent(evt) ==
    /\ "dropEvent" \in Faults
    /\ evt \in stream
    /\ stream' = stream \ {evt}
    /\ UNCHANGED <<table, life, exec, req>>
-----------------------------------------------------------------------------
(***************************************************************************)
(* Step Functions, and time.                                               *)
(***************************************************************************)
ExecutionRuns(i) ==
    /\ exec[i] = "started"
    /\ exec' = [exec EXCEPT ![i] = "running"]
    /\ stream' = stream \cup {<<i, "second">>}
    /\ UNCHANGED <<table, life, req>>

ExecutionEnds(i) ==
    /\ exec[i] \in Live
    /\ \E e \in {"succeeded", "failed", "timedOut"} :
          exec' = [exec EXCEPT ![i] = e]
    /\ stream' = stream \cup {<<i, "terminal">>}
    /\ UNCHANGED <<table, life, req>>

(***************************************************************************)
(* Five minutes pass without an update of i.  An execution is visible long *)
(* before, and a request that is to start or to delete i is over: requests *)
(* time out after seconds, the delete after one minute.                    *)
(***************************************************************************)
FiveMinutesPass(i) ==
    /\ Stored(i)
    /\ exec[i] # "started"
    /\ \A r \in Req : req[r].new # i
    /\ table' = [table EXCEPT ![i].old = TRUE]
    /\ req' = [r \in Req |-> IF req[r].id = i THEN [req[r] EXCEPT !.wf.old = TRUE]
                                              ELSE req[r]]
    /\ UNCHANGED <<life, exec, stream>>

\* The process dies, the request times out, or a call fails: the handler
\* does nothing more.
Abandon(r) ==
    /\ "abandon" \in Faults
    /\ req[r].pc # "idle"
    /\ Return(r)
    /\ UNCHANGED <<table, life, exec, stream>>
-----------------------------------------------------------------------------
\* What a request does once its handler runs.
Continue(r) ==
    \/ UpdateWorkflow(r)
    \/ StartExecution(r) \/ StartExecutionFails(r) \/ DeleteWorkflowByID(r)
    \/ UpdateWorkflowHistory(r) \/ UpdateWorkflowSummary(r)
    \/ StopExecution(r)
    \/ AreDescendantWorkflowsDone(r) \/ FindJob(r) \/ RereadWorkflow(r)
    \/ RetryWorkflow(r)

Next ==
    \/ \E r \in Req :
          \/ StartWorkflow(r) \/ GetWorkflowByID(r) \/ CancelWorkflow(r)
          \/ ResolveWorkflowByID(r) \/ ResumeWorkflowByID(r)
          \/ Continue(r)
          \/ ResendPut(r) \/ Abandon(r)
    \/ \E evt \in Event : HandleHistoryEvent(evt) \/ DropEvent(evt)
    \/ \E i \in WorkflowIDs :
          ExecutionRuns(i) \/ ExecutionEnds(i) \/ FiveMinutesPass(i)

Spec == Init /\ [][Next]_vars
-----------------------------------------------------------------------------
(***************************************************************************)
(* Properties.                                                             *)
(***************************************************************************)

\* Every variable has its type: in particular the table and the handlers'
\* copies are workflow records, and a request names workflows only.
TypeOK ==
    /\ table \in [WorkflowIDs -> Workflow]
    /\ life \in [WorkflowIDs -> {"fresh", "stored", "deleted"}]
    /\ exec \in [WorkflowIDs -> ExecutionState]
    /\ stream \subseteq Event
    /\ req \in [Req -> Request]

\* What has to be true of the execution of i for a status to be honest.
Supports(i, status) ==
    /\ status = "running"   => exec[i] # "none"
    /\ status = "succeeded" => exec[i] = "succeeded"
    /\ status = "cancelled" => exec[i] = "aborted"
    /\ status = "failed"    => \/ exec[i] \in {"failed", "timedOut"}
                               \/ exec[i] = "none" /\ ~Starting(i)

\* The status in the table is never ahead of SFN and never wrong about how an
\* execution ended, however UpdateWorkflowSummary, the consumer and the stale
\* puts of other handlers interleave.  A workflow that was failed as a zombie
\* has no execution and none will be started.
StatusTruthful == \A i \in WorkflowIDs : Supports(i, table[i].status)

\* A workflow stored as succeeded or cancelled is stored as resolved: no
\* stale put separates the two fields that UpdateWorkflowSummary and the
\* consumer set together, so WorkflowStatusIsDone holds of it.
ResolvedWhenFinished ==
    \A i \in WorkflowIDs : ResolvesItself(table[i].status) => table[i].resolved

\* A retry exists only of a workflow whose execution has ended: the checks of
\* ResumeWorkflowByID and RetryWorkflow on possibly outdated copies suffice,
\* and a zombie is never resumed.
RetryAfterEnd ==
    \A i \in WorkflowIDs :
        life[i] # "fresh" /\ table[i].retryFor # NoID
            => exec[table[i].retryFor] \in Ended

\* There are no untracked executions: CreateWorkflow and RetryWorkflow save
\* the workflow before they start its execution, and a workflow is deleted
\* only when its execution did not start.
NoUntrackedExecutions == \A i \in WorkflowIDs : exec[i] # "none" => Stored(i)

\* Only the put of an outdated copy takes a workflow out of a terminal
\* status; the condition of UpdateWorkflowAttributes keeps the consumer, with
\* its late and repeated events, from doing so.
OnlyStalePutsRegress ==
    [][\A i \in WorkflowIDs :
          table[i].status \in TerminalStates /\ table'[i].status \notin TerminalStates
              => \E r \in Req : /\ req[r].pc \in PutPC
                                /\ req[r].id = i
                                /\ req[r].wf.status = table'[i].status]_vars
-----------------------------------------------------------------------------
(***************************************************************************)
(* The inductive invariant.  What protects the table from the outdated     *)
(* copies that handlers put is that the copies are honest themselves: all  *)
(* that a record claims stays true of its execution.                       *)
(***************************************************************************)
Creating(i) == \E r \in Req : req[r].new = i

\* wf, in the table or in a handler, claims nothing false about i.
Honest(i, wf) ==
    /\ Supports(i, wf.status)
    /\ ResolvesItself(wf.status) => wf.resolved
    /\ wf.jobs # "nil" => exec[i] # "none"
    /\ wf.retryFor # NoID => exec[wf.retryFor] \in Ended
    /\ exec[i] = "started" \/ Creating(i) => ~wf.old

TableHonest == \A i \in WorkflowIDs : Honest(i, table[i])

CopiesHonest ==
    \A r \in Req : req[r].id # NoID
        => life[req[r].id] # "fresh" /\ Honest(req[r].id, req[r].wf)

\* Which fields of a request are in use, and that a workflow about to be
\* started is stored, has no execution and belongs to one request.
RequestSound(r) ==
    /\ req[r].id # NoID <=> req[r].pc \notin {"idle", "create.start", "create.delete"}
    /\ req[r].new # NoID <=> req[r].pc \in StartPC \cup {"create.delete"}
    /\ req[r].new # NoID => Stored(req[r].new)
    /\ req[r].pc \in StartPC => exec[req[r].new] = "none"
    /\ req[r].pc = "create.delete" /\ "ambiguousStart" \notin Faults
           => exec[req[r].new] = "none"
    /\ req[r].pc = "retry.save" => exec[req[r].id] # "none"

RequestsSound ==
    /\ \A r \in Req : RequestSound(r)
    /\ \A r, q \in Req : req[r].new = req[q].new /\ req[r].new # NoID => r = q

EventsSound ==
    \A i \in WorkflowIDs :
        /\ <<i, "second">> \in stream => exec[i] # "none"
        /\ <<i, "terminal">> \in stream => exec[i] \in Ended

ExecutionsSound ==
    \A i \in WorkflowIDs :
        exec[i] # "none" => /\ life[i] # "fresh"
                            /\ "ambiguousStart" \notin Faults => Stored(i)

\* All of the above: every record that the table or a handler holds is
\* honest about SFN, and so is every event on the stream.
Inv == /\ TypeOK /\ TableHonest /\ CopiesHonest
       /\ RequestsSound /\ EventsSound /\ ExecutionsSound
=============================================================================
