------------------------ MODULE WorkflowManagerProofs ------------------------
(***************************************************************************)
(* Proofs about WorkflowManager, for every set of workflows, requests,     *)
(* endpoints and faults.                                                   *)
(***************************************************************************)
EXTENDS WorkflowManager, TLAPS

USE NoIDAssumption

-----------------------------------------------------------------------------
(***************************************************************************)
(* The operators on records.                                               *)
(***************************************************************************)

\* NewWorkflow makes a workflow record.
LEMMA NewWorkflowType ==
    ASSUME NEW original \in WorkflowIDs \cup {NoID}
    PROVE  NewWorkflow(original) \in Workflow
BY DEF NewWorkflow, Workflow, WorkflowStatus, JobsView

\* The state of a request slot between two requests is a request.
LEMMA IdleRequestType == IdleRequest \in Request
BY NewWorkflowType DEF IdleRequest, Request, PC

\* SFNStatusToWorkflowStatus returns a status.
LEMMA StatusType == \A e : SFNStatusToWorkflowStatus(e) \in WorkflowStatus
BY DEF SFNStatusToWorkflowStatus, WorkflowStatus

\* The item that UpdateWorkflow writes is a workflow record that differs
\* from the copy at most in its jobs, which may be gone, and in its age.
LEMMA StoredFormsType ==
    ASSUME NEW w \in Workflow, NEW item \in StoredForms(w)
    PROVE  /\ item \in Workflow
           /\ item.status = w.status
           /\ item.resolved = w.resolved
           /\ item.retryFor = w.retryFor
           /\ item.jobs \in {w.jobs, "nil"}
           /\ item.old = FALSE
BY DEF StoredForms, Workflow, JobsView

\* UpdateWorkflowSummary makes workflow records out of workflow records.
LEMMA SummaryType ==
    ASSUME NEW w \in Workflow, NEW e
    PROVE  Summarised(w, e) \in Workflow /\ Zombie(w) \in Workflow
<1>1. SFNStatusToWorkflowStatus(e) \in WorkflowStatus
  BY StatusType
<1>2. DEFINE s == SFNStatusToWorkflowStatus(e)
<1>3. s \in WorkflowStatus BY <1>1
<1>4. ResolvesItself(s) \in BOOLEAN BY DEF ResolvesItself
<1>5. Summarised(w, e) \in Workflow
  <2>1. Summarised(w, e) = [w EXCEPT !.status = s, !.old = FALSE,
                                     !.resolved = w.resolved \/ ResolvesItself(s)]
    BY DEF Summarised
  <2> HIDE DEF s
  <2>2. QED BY <2>1, <1>3, <1>4 DEF Workflow
<1>6. Zombie(w) \in Workflow
  BY DEF Zombie, Workflow, WorkflowStatus
<1>7. QED BY <1>5, <1>6

\* A workflow record stays one as it grows old.
LEMMA AgedType ==
    ASSUME NEW w \in Workflow
    PROVE  [w EXCEPT !.old = TRUE] \in Workflow
BY DEF Workflow

\* A put moves a request on to another state of a request.
LEMMA AfterPutType ==
    ASSUME NEW s \in Request
    PROVE  AfterPut(s) \in Request
BY IdleRequestType DEF AfterPut, Request, PC, PutPC, StartPC
-----------------------------------------------------------------------------
(***************************************************************************)
(* Types.                                                                  *)
(***************************************************************************)

\* A request that is about a workflow names one, and its copy is a record.
LEMMA RequestFacts ==
    ASSUME Inv, NEW r \in Req
    PROVE  /\ req[r] \in Request
           /\ req[r].wf \in Workflow
           /\ req[r].pc \in PC
           /\ req[r].todo \in SUBSET WorkflowIDs
           /\ req[r].id \in WorkflowIDs \cup {NoID}
           /\ req[r].new \in WorkflowIDs \cup {NoID}
           /\ req[r].pc \notin {"idle", "create.start", "create.delete"}
                 => req[r].id \in WorkflowIDs
           /\ req[r].pc \in StartPC \cup {"create.delete"} => req[r].new \in WorkflowIDs
<1>1. req[r] \in Request
  BY DEF Inv, TypeOK
<1>2. /\ req[r].id # NoID <=> req[r].pc \notin {"idle", "create.start", "create.delete"}
      /\ req[r].new # NoID <=> req[r].pc \in StartPC \cup {"create.delete"}
  BY DEF Inv, RequestsSound, RequestSound
<1>3. QED
  BY <1>1, <1>2 DEF Request

\* Moving one request to another state of a request keeps the type of req.
LEMMA GotoType ==
    ASSUME TypeOK, NEW r \in Req, NEW s \in Request, Goto(r, s)
    PROVE  req' \in [Req -> Request]
BY DEF TypeOK, Goto

\* A put of a workflow record keeps the type of the table.
LEMMA PutType ==
    ASSUME TypeOK, NEW i, NEW w \in Workflow, Put(i, w)
    PROVE  table' \in [WorkflowIDs -> Workflow]
<1>1. PICK item \in StoredForms(w) : table' = [table EXCEPT ![i] = item]
  BY DEF Put
<1>2. item \in Workflow
  BY StoredFormsType
<1>3. QED BY <1>1, <1>2 DEF TypeOK

\* The steps of a request keep the types.
LEMMA RequestTypeStep ==
    ASSUME Inv, NEW r \in Req,
           \/ StartWorkflow(r) \/ GetWorkflowByID(r) \/ CancelWorkflow(r)
           \/ ResolveWorkflowByID(r) \/ ResumeWorkflowByID(r)
           \/ Continue(r) \/ ResendPut(r) \/ Abandon(r)
    PROVE  TypeOK'
<1> USE RequestFacts, IdleRequestType
<1>0. TypeOK BY DEF Inv
<1>1. CASE StartWorkflow(r)
  <2>1. PICK i \in WorkflowIDs :
           /\ SaveWorkflow(i, NoID)
           /\ Goto(r, [IdleRequest EXCEPT !.pc = "create.start", !.new = i])
    BY <1>1 DEF StartWorkflow
  <2>2. [IdleRequest EXCEPT !.pc = "create.start", !.new = i] \in Request
    BY DEF Request, PC, StartPC
  <2>3. req' \in [Req -> Request] BY <1>0, <2>1, <2>2, GotoType
  <2>4. NewWorkflow(NoID) \in Workflow BY NewWorkflowType
  <2>5. QED BY <1>0, <1>1, <2>1, <2>3, <2>4 DEF TypeOK, StartWorkflow, SaveWorkflow
<1>2. CASE GetWorkflowByID(r)
  <2>1. PICK i \in WorkflowIDs, pc \in {"get.history", "get.summary"} : Read(r, i, pc)
    BY <1>2 DEF GetWorkflowByID
  <2>2. [IdleRequest EXCEPT !.pc = pc, !.id = i, !.wf = table[i]] \in Request
    BY <1>0 DEF Request, PC, TypeOK
  <2>3. req' \in [Req -> Request] BY <1>0, <2>1, <2>2, GotoType DEF Read
  <2>4. QED BY <1>0, <1>2, <2>3 DEF TypeOK, GetWorkflowByID
<1>3. CASE CancelWorkflow(r)
  <2>1. PICK i \in WorkflowIDs : Read(r, i, "cancel.stop")
    BY <1>3 DEF CancelWorkflow
  <2>2. [IdleRequest EXCEPT !.pc = "cancel.stop", !.id = i, !.wf = table[i]] \in Request
    BY <1>0 DEF Request, PC, TypeOK
  <2>3. req' \in [Req -> Request] BY <1>0, <2>1, <2>2, GotoType DEF Read
  <2>4. QED BY <1>0, <1>3, <2>3 DEF TypeOK, CancelWorkflow
<1>4. CASE ResolveWorkflowByID(r)
  <2>1. PICK i \in WorkflowIDs :
           Goto(r, [IdleRequest EXCEPT !.pc = "resolve.put", !.id = i,
                                       !.wf = [table[i] EXCEPT !.resolved = TRUE]])
    BY <1>4 DEF ResolveWorkflowByID
  <2>2. [table[i] EXCEPT !.resolved = TRUE] \in Workflow
    BY <1>0 DEF TypeOK, Workflow
  <2>3. [IdleRequest EXCEPT !.pc = "resolve.put", !.id = i,
                            !.wf = [table[i] EXCEPT !.resolved = TRUE]] \in Request
    BY <2>2 DEF Request, PC, PutPC
  <2>4. req' \in [Req -> Request] BY <1>0, <2>1, <2>3, GotoType
  <2>5. QED BY <1>0, <1>4, <2>4 DEF TypeOK, ResolveWorkflowByID
<1>5. CASE ResumeWorkflowByID(r)
  <2>1. PICK i \in WorkflowIDs :
           Goto(r, [IdleRequest EXCEPT !.pc = "resume.descendants", !.id = i,
                                       !.wf = table[i], !.todo = table[i].retries])
    BY <1>5 DEF ResumeWorkflowByID
  <2>2. table[i] \in Workflow /\ table[i].retries \in SUBSET WorkflowIDs
    BY <1>0 DEF TypeOK, Workflow
  <2>3. [IdleRequest EXCEPT !.pc = "resume.descendants", !.id = i,
                            !.wf = table[i], !.todo = table[i].retries] \in Request
    BY <2>2 DEF Request, PC
  <2>4. req' \in [Req -> Request] BY <1>0, <2>1, <2>3, GotoType
  <2>5. QED BY <1>0, <1>5, <2>4 DEF TypeOK, ResumeWorkflowByID
<1>6. CASE UpdateWorkflow(r)
  <2>1. req' \in [Req -> Request]
    BY <1>0, <1>6, GotoType, AfterPutType DEF UpdateWorkflow, Return
  <2>2. table' \in [WorkflowIDs -> Workflow]
    BY <1>0, <1>6, PutType DEF UpdateWorkflow, TypeOK
  <2>3. QED BY <1>0, <1>6, <2>1, <2>2 DEF TypeOK, UpdateWorkflow
<1>7. CASE ResendPut(r)
  <2>1. table' \in [WorkflowIDs -> Workflow]
    BY <1>0, <1>7, PutType DEF ResendPut
  <2>2. QED BY <1>0, <1>7, <2>1 DEF TypeOK, ResendPut
<1>8. CASE StartExecution(r)
  <2>1. req' \in [Req -> Request]
    BY <1>0, <1>8, GotoType DEF StartExecution, Return
  <2>2. QED BY <1>0, <1>8, <2>1 DEF TypeOK, StartExecution, ExecutionState, Live
<1>9. CASE StartExecutionFails(r)
  <2>1. AfterStartError(req[r]) \in Request
    BY DEF AfterStartError, Request, PC
  <2>2. req' \in [Req -> Request]
    BY <1>0, <1>9, <2>1, GotoType DEF StartExecutionFails
  <2>3. exec' \in [WorkflowIDs -> ExecutionState]
    BY <1>0, <1>9 DEF TypeOK, StartExecutionFails, ExecutionState, Live
  <2>4. QED BY <1>0, <1>9, <2>2, <2>3 DEF TypeOK, StartExecutionFails
<1>10. CASE DeleteWorkflowByID(r)
  <2>1. req' \in [Req -> Request]
    BY <1>0, <1>10, GotoType DEF DeleteWorkflowByID, Return
  <2>2. QED BY <1>0, <1>10, <2>1 DEF TypeOK, DeleteWorkflowByID
<1>11. CASE UpdateWorkflowHistory(r)
  <2>1. \A j \in JobsView, pc \in PC :
           /\ [req[r] EXCEPT !.wf.jobs = j, !.pc = pc] \in Request
           /\ [req[r] EXCEPT !.pc = pc] \in Request
    BY DEF Request, Workflow
  <2>2. PICK s \in Request : Goto(r, s)
    <3>1. \E pc \in PC : \/ \E j \in JobsView :
                                Goto(r, [req[r] EXCEPT !.wf.jobs = j, !.pc = pc])
                         \/ Goto(r, [req[r] EXCEPT !.pc = pc])
      <4>1. CASE req[r].pc = "get.history"
        BY <1>11, <4>1 DEF UpdateWorkflowHistory, PC, PutPC
      <4>2. CASE req[r].pc # "get.history"
        BY <1>11, <4>2 DEF UpdateWorkflowHistory, PC, PutPC
      <4>3. QED BY <4>1, <4>2
    <3>2. PICK pc \in PC : \/ \E j \in JobsView :
                                  Goto(r, [req[r] EXCEPT !.wf.jobs = j, !.pc = pc])
                           \/ Goto(r, [req[r] EXCEPT !.pc = pc])
      BY <3>1
    <3>3. CASE \E j \in JobsView : Goto(r, [req[r] EXCEPT !.wf.jobs = j, !.pc = pc])
      <4>1. PICK j \in JobsView : Goto(r, [req[r] EXCEPT !.wf.jobs = j, !.pc = pc])
        BY <3>3
      <4>2. [req[r] EXCEPT !.wf.jobs = j, !.pc = pc] \in Request BY <2>1
      <4>3. QED BY <4>1, <4>2, Zenon
    <3>4. CASE Goto(r, [req[r] EXCEPT !.pc = pc])
      <4>1. [req[r] EXCEPT !.pc = pc] \in Request
        BY DEF Request
      <4>2. QED BY <3>4, <4>1, Zenon
    <3>5. QED BY <3>2, <3>3, <3>4
  <2>3. req' \in [Req -> Request] BY <1>0, <2>2, GotoType
  <2>4. QED BY <1>0, <1>11, <2>3 DEF TypeOK, UpdateWorkflowHistory
<1>12. CASE UpdateWorkflowSummary(r)
  <2>1. \A w \in Workflow : [req[r] EXCEPT !.pc = "get.put", !.wf = w] \in Request
    BY DEF Request, PC, PutPC
  <2>2. req' \in [Req -> Request]
    BY <1>0, <1>12, <2>1, GotoType, SummaryType DEF UpdateWorkflowSummary, Return
  <2>3. QED BY <1>0, <1>12, <2>2 DEF TypeOK, UpdateWorkflowSummary
<1>13. CASE StopExecution(r)
  <2>1. [req[r] EXCEPT !.pc = "cancel.put", !.wf.resolved = TRUE] \in Request
    BY DEF Request, Workflow, PC, PutPC
  <2>2. req' \in [Req -> Request]
    BY <1>0, <1>13, <2>1, GotoType DEF StopExecution, Return
  <2>3. req[r].id \in WorkflowIDs
    BY <1>13 DEF StopExecution
  <2>4. exec' \in [WorkflowIDs -> ExecutionState] /\ stream' \subseteq Event
    BY <1>0, <1>13, <2>3 DEF TypeOK, StopExecution, ExecutionState, Ended, Event
  <2>5. QED BY <1>0, <1>13, <2>2, <2>4 DEF TypeOK, StopExecution
<1>14. CASE AreDescendantWorkflowsDone(r)
  <2>1. \A c \in req[r].todo :
           [req[r] EXCEPT !.todo = (@ \ {c}) \cup table[c].retries] \in Request
    BY <1>0 DEF Request, TypeOK, Workflow
  <2>2. req' \in [Req -> Request]
    BY <1>0, <1>14, <2>1, GotoType DEF AreDescendantWorkflowsDone, Return
  <2>3. QED BY <1>0, <1>14, <2>2 DEF TypeOK, AreDescendantWorkflowsDone
<1>15. CASE FindJob(r)
  <2>1. /\ [req[r] EXCEPT !.pc = "retry.save"] \in Request
        /\ [req[r] EXCEPT !.pc = "resume.history"] \in Request
    BY DEF Request, PC
  <2>2. req' \in [Req -> Request]
    BY <1>0, <1>15, <2>1, GotoType DEF FindJob, Return
  <2>3. QED BY <1>0, <1>15, <2>2 DEF TypeOK, FindJob
<1>16. CASE RereadWorkflow(r)
  <2>1. req[r].id \in WorkflowIDs
    BY <1>16 DEF RereadWorkflow
  <2>2. [IdleRequest EXCEPT !.pc = "retry.save", !.id = req[r].id,
                            !.wf = table[req[r].id]] \in Request
    BY <1>0, <2>1 DEF Request, PC, TypeOK
  <2>3. req' \in [Req -> Request]
    BY <1>0, <1>16, <2>2, GotoType DEF RereadWorkflow, Read, Return
  <2>4. QED BY <1>0, <1>16, <2>3 DEF TypeOK, RereadWorkflow
<1>17. CASE RetryWorkflow(r)
  <2>1. \A i \in WorkflowIDs :
           [req[r] EXCEPT !.pc = "retry.put", !.new = i,
                          !.wf.retries = @ \cup {i}] \in Request
    <3> SUFFICES ASSUME NEW i \in WorkflowIDs
                 PROVE  [req[r] EXCEPT !.pc = "retry.put", !.new = i,
                                       !.wf.retries = @ \cup {i}] \in Request
      OBVIOUS
    <3> DEFINE w == [req[r].wf EXCEPT !.retries = @ \cup {i}]
    <3>1. w \in Workflow BY DEF Workflow
    <3> HIDE DEF w
    <3>2. [req[r] EXCEPT !.pc = "retry.put", !.new = i, !.wf = w] \in Request
      BY <3>1 DEF Request, PC, PutPC
    <3> QED BY <3>2 DEF w, Request
  <2>2. req' \in [Req -> Request]
    BY <1>0, <1>17, <2>1, GotoType DEF RetryWorkflow, Return
  <2>3. NewWorkflow(req[r].id) \in Workflow BY NewWorkflowType
  <2>4. /\ table' \in [WorkflowIDs -> Workflow]
        /\ life' \in [WorkflowIDs -> {"fresh", "stored", "deleted"}]
    <3>1. CASE UNCHANGED <<table, life>>
      BY <1>0, <3>1 DEF TypeOK
    <3>2. CASE \E i \in WorkflowIDs : SaveWorkflow(i, req[r].id)
      BY <1>0, <2>3, <3>2 DEF TypeOK, SaveWorkflow
    <3>3. QED BY <1>17, <3>1, <3>2 DEF RetryWorkflow
  <2>5. QED BY <1>0, <1>17, <2>2, <2>4 DEF TypeOK, RetryWorkflow
<1>18. CASE Abandon(r)
  <2>1. req' \in [Req -> Request]
    BY <1>0, <1>18, GotoType DEF Abandon, Return
  <2>2. QED BY <1>0, <1>18, <2>1 DEF TypeOK, Abandon
<1>19. QED
  BY <1>1, <1>2, <1>3, <1>4, <1>5, <1>6, <1>7, <1>8, <1>9, <1>10, <1>11, <1>12,
     <1>13, <1>14, <1>15, <1>16, <1>17, <1>18 DEF Continue

\* The steps of the consumer, of SFN and of time keep the types.
LEMMA EnvironmentTypeStep ==
    ASSUME Inv,
           \/ \E evt \in Event : HandleHistoryEvent(evt) \/ DropEvent(evt)
           \/ \E i \in WorkflowIDs :
                 ExecutionRuns(i) \/ ExecutionEnds(i) \/ FiveMinutesPass(i)
    PROVE  TypeOK'
<1>0. TypeOK BY DEF Inv
<1>1. ASSUME NEW evt \in Event, HandleHistoryEvent(evt) PROVE TypeOK'
  <2>1. evt[1] \in WorkflowIDs BY DEF Event
  <2>2. StatusOfEvent(evt) \in WorkflowStatus
    BY StatusType DEF StatusOfEvent, WorkflowStatus
  <2>3. table' \in [WorkflowIDs -> Workflow]
    <3> DEFINE st == StatusOfEvent(evt)
               i == evt[1]
    <3>1. ResolvesItself(st) \in BOOLEAN BY DEF ResolvesItself
    <3>2. CASE UNCHANGED table BY <1>0, <3>2 DEF TypeOK
    <3>3. CASE table' = [table EXCEPT ![i].status = st,
                                      ![i].resolved = @ \/ ResolvesItself(st)]
      <4>1. table[i] \in Workflow BY <1>0, <2>1 DEF TypeOK
      <4>2. DEFINE w == [table[i] EXCEPT !.status = st,
                                         !.resolved = @ \/ ResolvesItself(st)]
      <4>3. st \in WorkflowStatus BY <2>2
      <4> HIDE DEF st, i
      <4>4. w \in Workflow BY <4>1, <4>3, <3>1 DEF Workflow
      <4>5. table' = [table EXCEPT ![i] = w] BY <1>0, <3>3 DEF TypeOK
      <4> HIDE DEF w
      <4>6. QED BY <1>0, <4>4, <4>5 DEF TypeOK
    <3>4. QED BY <1>1, <3>2, <3>3 DEF HandleHistoryEvent, UpdateWorkflowAttributes
  <2>4. QED BY <1>0, <1>1, <2>3 DEF TypeOK, HandleHistoryEvent
<1>2. ASSUME NEW evt \in Event, DropEvent(evt) PROVE TypeOK'
  BY <1>0, <1>2 DEF TypeOK, DropEvent
<1>3. ASSUME NEW i \in WorkflowIDs, ExecutionRuns(i) PROVE TypeOK'
  BY <1>0, <1>3 DEF TypeOK, ExecutionRuns, ExecutionState, Live, Event
<1>4. ASSUME NEW i \in WorkflowIDs, ExecutionEnds(i) PROVE TypeOK'
  <2>1. PICK e \in {"succeeded", "failed", "timedOut"} : exec' = [exec EXCEPT ![i] = e]
    BY <1>4 DEF ExecutionEnds
  <2>2. e \in ExecutionState BY DEF ExecutionState, Ended
  <2>3. exec' \in [WorkflowIDs -> ExecutionState] BY <1>0, <2>1, <2>2 DEF TypeOK
  <2>4. QED BY <1>0, <1>4, <2>3 DEF TypeOK, ExecutionEnds, Event
<1>5. ASSUME NEW i \in WorkflowIDs, FiveMinutesPass(i) PROVE TypeOK'
  <2>1. table' \in [WorkflowIDs -> Workflow]
    <3>1. [table[i] EXCEPT !.old = TRUE] \in Workflow
      <4>1. table[i] \in Workflow BY <1>0 DEF TypeOK
      <4>2. QED BY <4>1, AgedType
    <3>2. table' = [table EXCEPT ![i] = [table[i] EXCEPT !.old = TRUE]]
      BY <1>0, <1>5 DEF TypeOK, FiveMinutesPass
    <3>3. QED BY <1>0, <3>1, <3>2 DEF TypeOK
  <2>2. \A r \in Req : [req[r] EXCEPT !.wf.old = TRUE] \in Request
    <3> SUFFICES ASSUME NEW r \in Req PROVE [req[r] EXCEPT !.wf.old = TRUE] \in Request
      OBVIOUS
    <3> DEFINE w == [req[r].wf EXCEPT !.old = TRUE]
    <3>1. req[r] \in Request /\ req[r].wf \in Workflow BY <1>0 DEF TypeOK, Request
    <3>2. w \in Workflow BY <3>1, AgedType
    <3> HIDE DEF w
    <3>3. [req[r] EXCEPT !.wf = w] \in Request BY <3>1, <3>2 DEF Request
    <3> QED BY <3>3 DEF w
  <2>3. req' \in [Req -> Request]
    BY <1>0, <1>5, <2>2 DEF TypeOK, FiveMinutesPass
  <2>4. QED BY <1>0, <1>5, <2>1, <2>3 DEF TypeOK, FiveMinutesPass
<1>6. QED BY <1>1, <1>2, <1>3, <1>4, <1>5

\* Every step keeps the types.
LEMMA TypeStep == Inv /\ [Next]_vars => TypeOK'
<1>1. ASSUME Inv, Next PROVE TypeOK'
  BY <1>1, RequestTypeStep, EnvironmentTypeStep DEF Next
<1>2. ASSUME Inv, UNCHANGED vars PROVE TypeOK'
  BY <1>2 DEF Inv, TypeOK, vars
<1>3. QED BY <1>1, <1>2
-----------------------------------------------------------------------------
(***************************************************************************)
(* Honest records stay honest.                                             *)
(***************************************************************************)

\* How an execution may move on in a step: not at all, from a live state to
\* a later one, or from none to started when a request is about to start it.
Advances(k) ==
    \/ exec'[k] = exec[k]
    \/ exec[k] \in Live /\ exec'[k] \in Ended \cup {"running"}
    \/ exec[k] = "none" /\ Starting(k) /\ exec'[k] = "started"

\* What a record claims is still true after a step in which executions only
\* advance and its own workflow does not newly get a request to start it.
LEMMA HonestStep ==
    ASSUME TypeOK, TypeOK', NEW i \in WorkflowIDs, NEW CONSTANT w \in Workflow,
           Honest(i, w),
           \A k \in WorkflowIDs : Advances(k),
           Starting(i)' => Starting(i),
           Creating(i)' => Creating(i)
    PROVE  Honest(i, w)'
<1>1. Starting(i) => Creating(i)
  BY DEF Starting, Creating
<1>2. Supports(i, w.status)'
  BY DEF Honest, Supports, Advances, Live, Ended
<1>3. w.jobs # "nil" => exec'[i] # "none"
  BY DEF Honest, Advances, Live, Ended
<1>4. w.retryFor # NoID => exec'[w.retryFor] \in Ended
  <2>1. w.retryFor # NoID => w.retryFor \in WorkflowIDs
    BY DEF Workflow
  <2>2. QED BY <2>1 DEF Honest, Advances, Live, Ended
<1>5. exec'[i] = "started" \/ Creating(i)' => ~w.old
  BY <1>1 DEF Honest, Advances, Live, Ended
<1>6. QED BY <1>2, <1>3, <1>4, <1>5 DEF Honest

\* If every record after the step was honest before it, and no workflow newly
\* gets a request to start it, every record is honest after it.
LEMMA RecordsStayHonest ==
    ASSUME Inv, TypeOK',
           \A k \in WorkflowIDs : Advances(k),
           \A k \in WorkflowIDs : Starting(k)' => Starting(k),
           \A k \in WorkflowIDs : Creating(k)' => Creating(k),
           \A k \in WorkflowIDs : life[k] # "fresh" => life'[k] # "fresh",
           \A k \in WorkflowIDs : \E w \in Workflow : table'[k] = w /\ Honest(k, w),
           \A q \in Req : req'[q].id # NoID =>
               /\ life[req'[q].id] # "fresh"
               /\ \E w \in Workflow : req'[q].wf = w /\ Honest(req'[q].id, w)
    PROVE  TableHonest' /\ CopiesHonest'
<1>0. TypeOK BY DEF Inv
<1>1. ASSUME NEW k \in WorkflowIDs PROVE Honest(k, table[k])'
  <2>1. PICK w \in Workflow : table'[k] = w /\ Honest(k, w) OBVIOUS
  <2>2. Honest(k, w)' BY <1>0, <2>1, HonestStep
  <2>3. QED BY <2>1, <2>2 DEF Honest
<1>2. ASSUME NEW q \in Req, req'[q].id # NoID
      PROVE  life'[req'[q].id] # "fresh" /\ Honest(req[q].id, req[q].wf)'
  <2>1. PICK k \in WorkflowIDs : req'[q].id = k
    BY <1>2 DEF TypeOK, Request
  <2>2. PICK w \in Workflow : req'[q].wf = w /\ Honest(k, w)
    BY <1>2, <2>1
  <2>3. Honest(k, w)' BY <1>0, <2>2, HonestStep
  <2>4. Honest(req[q].id, req[q].wf)' BY <2>1, <2>2, <2>3 DEF Honest
  <2>5. QED BY <1>2, <2>1, <2>4
<1>3. QED BY <1>1, <1>2 DEF TableHonest, CopiesHonest

\* What a request leaves alone.
LEMMA GotoFacts ==
    ASSUME TypeOK, NEW r \in Req, NEW s, Goto(r, s)
    PROVE  req'[r] = s /\ \A q \in Req \ {r} : req'[q] = req[q]
BY DEF TypeOK, Goto

(***************************************************************************)
(* The steps in which a handler only reads and decides.                    *)
(***************************************************************************)

\* A request moves to a state that is about to create nothing, with an honest
\* copy of a workflow or none, and nothing else changes.
LEMMA LocalStep ==
    ASSUME Inv, TypeOK', NEW r \in Req, NEW s \in Request, Goto(r, s),
           UNCHANGED <<table, life, exec, stream>>,
           s.new = NoID, s.pc \notin StartPC \cup {"create.delete"},
           s.id # NoID <=> s.pc # "idle",
           s.pc = "retry.save" => exec[s.id] # "none",
           s.id # NoID => life[s.id] # "fresh" /\ Honest(s.id, s.wf)
    PROVE  Inv'
<1>0. TypeOK BY DEF Inv
<1>1. req'[r] = s /\ \A q \in Req \ {r} : req'[q] = req[q]
  BY <1>0, GotoFacts
<1>2. \A k \in WorkflowIDs : (Starting(k)' => Starting(k)) /\ (Creating(k)' => Creating(k))
  BY <1>1 DEF Starting, Creating
<1>3. \A q \in Req : req'[q].id # NoID =>
         /\ life[req'[q].id] # "fresh"
         /\ \E w \in Workflow : req'[q].wf = w /\ Honest(req'[q].id, w)
  <2>1. ASSUME NEW q \in Req, q # r, req'[q].id # NoID
        PROVE  /\ life[req'[q].id] # "fresh"
               /\ \E w \in Workflow : req'[q].wf = w /\ Honest(req'[q].id, w)
    BY <1>1, <2>1, RequestFacts DEF Inv, CopiesHonest
  <2>2. s.wf \in Workflow BY DEF Request
  <2>3. QED BY <1>1, <2>1, <2>2
<1>4. \A k \in WorkflowIDs : \E w \in Workflow : table'[k] = w /\ Honest(k, w)
  BY <1>0 DEF Inv, TableHonest, TypeOK
<1>5. TableHonest' /\ CopiesHonest'
  BY <1>2, <1>3, <1>4, RecordsStayHonest DEF Advances
<1>6. RequestsSound'
  <2>1. RequestSound(r)'
    BY <1>1 DEF RequestSound, StartPC
  <2>2. \A q \in Req \ {r} : RequestSound(q)'
    BY <1>1 DEF Inv, RequestsSound, RequestSound, Stored
  <2>3. QED BY <1>1, <2>1, <2>2 DEF Inv, RequestsSound
<1>7. EventsSound' /\ ExecutionsSound'
  BY DEF Inv, EventsSound, ExecutionsSound, Stored
<1>8. QED BY <1>5, <1>6, <1>7 DEF Inv

\* A request that returns, or is abandoned, keeps the invariant.
LEMMA ReturnStep ==
    ASSUME Inv, TypeOK', NEW r \in Req, Return(r), UNCHANGED <<table, life, exec, stream>>
    PROVE  Inv'
<1>1. IdleRequest \in Request BY IdleRequestType
<1>2. IdleRequest.new = NoID /\ IdleRequest.pc = "idle" /\ IdleRequest.id = NoID
  BY DEF IdleRequest
<1>3. QED BY <1>1, <1>2, LocalStep DEF Return, StartPC

\* Reading a workflow from the table keeps the invariant.
LEMMA ReadStep ==
    ASSUME Inv, TypeOK', NEW r \in Req, NEW i \in WorkflowIDs,
           NEW w \in Workflow, Honest(i, w), NEW todo \in SUBSET WorkflowIDs,
           NEW pc \in {"get.history", "get.summary", "cancel.stop", "resolve.put",
                       "resume.descendants", "retry.save"},
           pc = "retry.save" => exec[i] # "none",
           Stored(i),
           Goto(r, [IdleRequest EXCEPT !.pc = pc, !.id = i, !.wf = w, !.todo = todo]),
           UNCHANGED <<table, life, exec, stream>>
    PROVE  Inv'
<1> DEFINE s == [IdleRequest EXCEPT !.pc = pc, !.id = i, !.wf = w, !.todo = todo]
<1>1. s \in Request BY IdleRequestType DEF Request, PC, PutPC
<1>2. s.new = NoID /\ s.pc = pc /\ s.id = i /\ s.wf = w
  BY DEF IdleRequest
<1> HIDE DEF s
<1>3. Goto(r, s) BY DEF s
<1>4. life[i] # "fresh" BY DEF Stored
<1>5. QED BY <1>1, <1>2, <1>3, <1>4, LocalStep DEF StartPC

\* The operation of an endpoint that begins with a read keeps the invariant.
LEMMA EndpointStep ==
    ASSUME Inv, TypeOK', NEW r \in Req,
           \/ GetWorkflowByID(r) \/ CancelWorkflow(r)
           \/ ResolveWorkflowByID(r) \/ ResumeWorkflowByID(r)
    PROVE  Inv'
<1>0. \A i \in WorkflowIDs : table[i] \in Workflow /\ Honest(i, table[i])
  BY DEF Inv, TypeOK, TableHonest
<1>1. ASSUME NEW pc, NEW i, NEW w
      PROVE  [IdleRequest EXCEPT !.pc = pc, !.id = i, !.wf = w]
                = [IdleRequest EXCEPT !.pc = pc, !.id = i, !.wf = w, !.todo = {}]
  <2>1. IdleRequest = [IdleRequest EXCEPT !.todo = {}]
    BY DEF IdleRequest
  <2>2. IdleRequest \in Request BY IdleRequestType
  <2>3. QED BY <2>1, <2>2 DEF Request
<1>2. CASE GetWorkflowByID(r)
  <2>1. PICK i \in WorkflowIDs, pc \in {"get.history", "get.summary"} : Read(r, i, pc)
    BY <1>2 DEF GetWorkflowByID
  <2>2. Goto(r, [IdleRequest EXCEPT !.pc = pc, !.id = i, !.wf = table[i], !.todo = {}])
    BY <1>1, <2>1 DEF Read
  <2>3. Stored(i) /\ UNCHANGED <<table, life, exec, stream>>
    BY <1>2, <2>1 DEF Read, GetWorkflowByID
  <2>4. QED BY <1>0, <2>2, <2>3, ReadStep
<1>3. CASE CancelWorkflow(r)
  <2>1. PICK i \in WorkflowIDs : Read(r, i, "cancel.stop")
    BY <1>3 DEF CancelWorkflow
  <2>2. Goto(r, [IdleRequest EXCEPT !.pc = "cancel.stop", !.id = i, !.wf = table[i],
                                    !.todo = {}])
    BY <1>1, <2>1 DEF Read
  <2>3. Stored(i) /\ UNCHANGED <<table, life, exec, stream>>
    BY <1>3, <2>1 DEF Read, CancelWorkflow
  <2>4. QED BY <1>0, <2>2, <2>3, ReadStep
<1>4. CASE ResolveWorkflowByID(r)
  <2>1. PICK i \in WorkflowIDs :
           /\ Stored(i)
           /\ Goto(r, [IdleRequest EXCEPT !.pc = "resolve.put", !.id = i,
                                          !.wf = [table[i] EXCEPT !.resolved = TRUE]])
    BY <1>4 DEF ResolveWorkflowByID
  <2>2. DEFINE w == [table[i] EXCEPT !.resolved = TRUE]
  <2>3. w \in Workflow
    <3>1. table[i] \in Workflow BY <1>0
    <3> QED BY <3>1 DEF Workflow
  <2>4. Honest(i, w)
    <3>1. /\ w.status = table[i].status /\ w.resolved = TRUE /\ w.jobs = table[i].jobs
          /\ w.retryFor = table[i].retryFor /\ w.old = table[i].old
      BY <1>0 DEF Workflow
    <3> HIDE DEF w
    <3>2. QED BY <1>0, <3>1 DEF Honest
  <2>5. Goto(r, [IdleRequest EXCEPT !.pc = "resolve.put", !.id = i, !.wf = w, !.todo = {}])
    BY <1>1, <2>1
  <2>6. UNCHANGED <<table, life, exec, stream>> BY <1>4 DEF ResolveWorkflowByID
  <2> HIDE DEF w
  <2>7. QED BY <2>1, <2>3, <2>4, <2>5, <2>6, ReadStep
<1>5. CASE ResumeWorkflowByID(r)
  <2>1. PICK i \in WorkflowIDs :
           /\ Stored(i)
           /\ Goto(r, [IdleRequest EXCEPT !.pc = "resume.descendants", !.id = i,
                                          !.wf = table[i], !.todo = table[i].retries])
    BY <1>5 DEF ResumeWorkflowByID
  <2>2. table[i].retries \in SUBSET WorkflowIDs BY <1>0 DEF Workflow
  <2>3. UNCHANGED <<table, life, exec, stream>> BY <1>5 DEF ResumeWorkflowByID
  <2>4. QED BY <1>0, <2>1, <2>2, <2>3, ReadStep
<1>6. QED BY <1>2, <1>3, <1>4, <1>5

\* The copy of a request that is about a workflow is honest.
LEMMA CopyFacts ==
    ASSUME Inv, NEW r \in Req,
           req[r].pc \notin {"idle", "create.start", "create.delete"}
    PROVE  /\ req[r].id \in WorkflowIDs
           /\ req[r].id # NoID
           /\ life[req[r].id] # "fresh"
           /\ Honest(req[r].id, req[r].wf)
           /\ req[r].new # NoID => req[r].pc \in StartPC
BY RequestFacts DEF Inv, RequestsSound, RequestSound, CopiesHonest

\* A request goes on to a state that differs in its pc, its copy and its todo
\* list, with a copy that is still honest.
LEMMA MoveStep ==
    ASSUME Inv, TypeOK', NEW r \in Req, NEW w \in Workflow,
           req[r].pc \notin {"idle", "create.start", "create.delete"} \cup StartPC,
           Honest(req[r].id, w),
           NEW pc \in PC \ ({"idle", "create.start", "create.delete"} \cup StartPC),
           pc = "retry.save" => exec[req[r].id] # "none",
           NEW s \in Request, s.pc = pc, s.wf = w, s.id = req[r].id, s.new = req[r].new,
           Goto(r, s),
           UNCHANGED <<table, life, exec, stream>>
    PROVE  Inv'
<1>1. req[r].new = NoID /\ req[r].id # NoID /\ life[req[r].id] # "fresh"
  BY CopyFacts
<1>2. QED BY <1>1, LocalStep

\* The jobs that UpdateWorkflowHistory takes from an execution are honest.
LEMMA HistoryStep ==
    ASSUME Inv, TypeOK', NEW r \in Req, UpdateWorkflowHistory(r)
    PROVE  Inv'
<1>0. /\ req[r].pc \in {"get.history", "resume.history"}
      /\ UNCHANGED <<table, life, exec, stream>>
  BY DEF UpdateWorkflowHistory
<1>1. /\ req[r].id \in WorkflowIDs /\ Honest(req[r].id, req[r].wf)
      /\ req[r] \in Request /\ req[r].wf \in Workflow
      /\ req[r].todo \in SUBSET WorkflowIDs
  BY <1>0, CopyFacts, RequestFacts
<1>2. \/ /\ MayBeVisible(req[r].id)
         /\ \E j \in JobsView, pc \in {"get.historyPut", "resume.historyPut"} :
               Goto(r, [req[r] EXCEPT !.wf.jobs = j, !.pc = pc])
      \/ \E pc \in {"get.summary", "resume.reread"} : Goto(r, [req[r] EXCEPT !.pc = pc])
  <2>1. CASE req[r].pc = "get.history"
    BY <2>1 DEF UpdateWorkflowHistory
  <2>2. CASE req[r].pc = "resume.history"
    BY <2>2 DEF UpdateWorkflowHistory
  <2>3. QED BY <1>0, <2>1, <2>2
<1>3. ASSUME MayBeVisible(req[r].id), NEW j \in JobsView,
             NEW pc \in {"get.historyPut", "resume.historyPut"},
             Goto(r, [req[r] EXCEPT !.wf.jobs = j, !.pc = pc])
      PROVE  Inv'
  <2> DEFINE s == [req[r] EXCEPT !.wf.jobs = j, !.pc = pc]
             w == [req[r].wf EXCEPT !.jobs = j]
  <2>1. s \in Request /\ s.pc = pc /\ s.wf = w /\ s.id = req[r].id /\ s.new = req[r].new
    BY <1>1 DEF Request, Workflow, PC, PutPC
  <2>2. w \in Workflow BY <1>1 DEF Workflow
  <2>3. Honest(req[r].id, w)
    <3>1. /\ w.status = req[r].wf.status /\ w.resolved = req[r].wf.resolved
          /\ w.retryFor = req[r].wf.retryFor /\ w.old = req[r].wf.old
      BY <1>1 DEF Workflow
    <3> HIDE DEF w
    <3>2. QED BY <1>1, <1>3, <3>1 DEF Honest, MayBeVisible
  <2> HIDE DEF w, s
  <2>4. Goto(r, s) BY <1>3 DEF s
  <2>5. pc \in PC \ ({"idle", "create.start", "create.delete"} \cup StartPC)
    BY DEF PC, PutPC, StartPC
  <2>6. QED BY <1>0, <1>1, <2>1, <2>2, <2>3, <2>4, <2>5, MoveStep DEF StartPC
<1>4. ASSUME NEW pc \in {"get.summary", "resume.reread"}, Goto(r, [req[r] EXCEPT !.pc = pc])
      PROVE  Inv'
  <2> DEFINE s == [req[r] EXCEPT !.pc = pc]
  <2>1. s \in Request /\ s.pc = pc /\ s.wf = req[r].wf /\ s.id = req[r].id
          /\ s.new = req[r].new
    BY <1>1 DEF Request, PC
  <2>2. Goto(r, s) BY <1>4
  <2> HIDE DEF s
  <2>3. pc \in PC \ ({"idle", "create.start", "create.delete"} \cup StartPC)
    BY DEF PC, StartPC
  <2>4. QED BY <1>0, <1>1, <2>1, <2>2, <2>3, MoveStep DEF StartPC
<1>5. QED BY <1>2, <1>3, <1>4

\* What UpdateWorkflowSummary writes into the copy is honest: the state SFN
\* reports, or failed when there is no execution and will be none.
LEMMA SummaryStep ==
    ASSUME Inv, TypeOK', NEW r \in Req, UpdateWorkflowSummary(r)
    PROVE  Inv'
<1> DEFINE i == req[r].id
           wf == req[r].wf
           Next_(w) == [req[r] EXCEPT !.pc = "get.put", !.wf = w]
<1>0. req[r].pc = "get.summary" /\ UNCHANGED <<table, life, exec, stream>>
  BY DEF UpdateWorkflowSummary
<1>1. /\ i \in WorkflowIDs /\ Honest(i, wf)
      /\ req[r] \in Request /\ wf \in Workflow /\ req[r].todo \in SUBSET WorkflowIDs
  BY <1>0, CopyFacts, RequestFacts
<1>2. \/ Return(r)
      \/ MayBeVisible(i) /\ Goto(r, Next_(Summarised(wf, exec[i])))
      \/ MayBeMissing(i) /\ wf.old /\ Goto(r, Next_(Zombie(wf)))
  BY DEF UpdateWorkflowSummary
<1>3. ASSUME NEW w \in Workflow, Honest(i, w), Goto(r, Next_(w)) PROVE Inv'
  <2> DEFINE s == Next_(w)
  <2>1. s \in Request /\ s.pc = "get.put" /\ s.wf = w /\ s.id = i /\ s.new = req[r].new
    BY <1>1 DEF Request, PC, PutPC
  <2>2. Goto(r, s) BY <1>3
  <2> HIDE DEF s
  <2>3. "get.put" \in PC \ ({"idle", "create.start", "create.delete"} \cup StartPC)
    BY DEF PC, PutPC, StartPC
  <2>4. QED BY <1>0, <1>1, <1>3, <2>1, <2>2, <2>3, MoveStep DEF StartPC
<1>4. CASE MayBeVisible(i) /\ Goto(r, Next_(Summarised(wf, exec[i])))
  <2> DEFINE st == SFNStatusToWorkflowStatus(exec[i])
             w == Summarised(wf, exec[i])
  <2>1. w \in Workflow BY <1>1, SummaryType
  <2>2. /\ w.status = st /\ w.old = FALSE /\ w.resolved = (wf.resolved \/ ResolvesItself(st))
        /\ w.jobs = wf.jobs /\ w.retryFor = wf.retryFor
    <3>1. w = [wf EXCEPT !.status = st, !.old = FALSE,
                         !.resolved = wf.resolved \/ ResolvesItself(st)]
      BY DEF Summarised
    <3> HIDE DEF w, st
    <3>2. QED BY <1>1, <3>1 DEF Workflow
  <2>3. exec[i] \in ExecutionState /\ exec[i] # "none"
    BY <1>1, <1>4 DEF Inv, TypeOK, MayBeVisible
  <2>4. Supports(i, st)
    BY <2>3 DEF SFNStatusToWorkflowStatus, Supports, ExecutionState, Live, Ended
  <2>5. Honest(i, w)
    <3> HIDE DEF st, w
    <3>1. QED BY <1>1, <2>2, <2>4 DEF Honest
  <2> HIDE DEF w
  <2>6. QED BY <1>3, <1>4, <2>1, <2>5 DEF w
<1>5. CASE MayBeMissing(i) /\ wf.old /\ Goto(r, Next_(Zombie(wf)))
  <2> DEFINE w == Zombie(wf)
  <2>1. w \in Workflow BY <1>1, SummaryType
  <2>2. /\ w.status = "failed" /\ w.old = FALSE /\ w.resolved = wf.resolved
        /\ w.jobs = wf.jobs /\ w.retryFor = wf.retryFor
    BY <1>1 DEF Zombie, Workflow
  <2>3. exec[i] = "none" /\ ~Creating(i)
    BY <1>1, <1>5 DEF Honest, MayBeMissing
  <2>4. Supports(i, "failed")
    BY <2>3 DEF Supports, Starting, Creating
  <2>5. Honest(i, w)
    <3> HIDE DEF w
    <3>1. QED BY <1>1, <2>2, <2>4 DEF Honest, ResolvesItself
  <2> HIDE DEF w
  <2>6. QED BY <1>3, <1>5, <2>1, <2>5 DEF w
<1>6. QED BY <1>0, <1>2, <1>4, <1>5, ReturnStep

\* The checks of ResumeWorkflowByID keep the invariant: a request that gets to
\* create a retry knows a job of the original, which thus had an execution.
LEMMA ResumeChecksStep ==
    ASSUME Inv, TypeOK', NEW r \in Req,
           AreDescendantWorkflowsDone(r) \/ FindJob(r) \/ RereadWorkflow(r)
    PROVE  Inv'
<1>0. /\ req[r].pc \in {"resume.descendants", "resume.reread"}
      /\ UNCHANGED <<table, life, exec, stream>>
  BY DEF AreDescendantWorkflowsDone, FindJob, RereadWorkflow
<1>1. /\ req[r].id \in WorkflowIDs /\ Honest(req[r].id, req[r].wf)
      /\ req[r] \in Request /\ req[r].wf \in Workflow
      /\ req[r].todo \in SUBSET WorkflowIDs
  BY <1>0, CopyFacts, RequestFacts
<1>2. CASE Return(r) BY <1>0, <1>2, ReturnStep
<1>3. ASSUME NEW c \in req[r].todo, req[r].pc = "resume.descendants",
             Goto(r, [req[r] EXCEPT !.todo = (@ \ {c}) \cup table[c].retries])
      PROVE  Inv'
  <2> DEFINE s == [req[r] EXCEPT !.todo = (@ \ {c}) \cup table[c].retries]
  <2>1. table[c].retries \in SUBSET WorkflowIDs
    BY <1>1 DEF Inv, TypeOK, Workflow
  <2>2. /\ s \in Request /\ s.pc = "resume.descendants" /\ s.wf = req[r].wf
        /\ s.id = req[r].id /\ s.new = req[r].new
    BY <1>1, <1>3, <2>1 DEF Request
  <2>3. Goto(r, s) BY <1>3
  <2> HIDE DEF s
  <2>4. "resume.descendants" \in PC \ ({"idle", "create.start", "create.delete"} \cup StartPC)
    BY DEF PC, StartPC
  <2>5. QED BY <1>0, <1>1, <2>2, <2>3, <2>4, MoveStep DEF StartPC
<1>4. ASSUME NEW pc \in {"retry.save", "resume.history"},
             pc = "retry.save" => exec[req[r].id] # "none",
             Goto(r, [req[r] EXCEPT !.pc = pc])
      PROVE  Inv'
  <2> DEFINE s == [req[r] EXCEPT !.pc = pc]
  <2>1. s \in Request /\ s.pc = pc /\ s.wf = req[r].wf /\ s.id = req[r].id
          /\ s.new = req[r].new
    BY <1>1 DEF Request, PC
  <2>2. Goto(r, s) BY <1>4
  <2> HIDE DEF s
  <2>3. pc \in PC \ ({"idle", "create.start", "create.delete"} \cup StartPC)
    BY DEF PC, StartPC
  <2>4. QED BY <1>0, <1>1, <1>4, <2>1, <2>2, <2>3, MoveStep DEF StartPC
<1>5. CASE AreDescendantWorkflowsDone(r)
  BY <1>2, <1>3, <1>5 DEF AreDescendantWorkflowsDone
<1>6. CASE FindJob(r)
  <2>1. req[r].wf.jobs # "nil" \/ MayHaveLastJob(req[r].id) => exec[req[r].id] # "none"
    BY <1>1 DEF Honest, MayHaveLastJob
  <2>2. QED BY <1>2, <1>4, <1>6, <2>1 DEF FindJob
<1>7. CASE RereadWorkflow(r)
  <2>1. CASE Read(r, req[r].id, "retry.save") /\ table[req[r].id].jobs # "nil"
    <3> DEFINE i == req[r].id
    <3>1. table[i] \in Workflow /\ Honest(i, table[i])
      BY <1>1 DEF Inv, TypeOK, TableHonest
    <3>2. exec[i] # "none" BY <2>1, <3>1 DEF Honest
    <3>3. [IdleRequest EXCEPT !.pc = "retry.save", !.id = i, !.wf = table[i]]
             = [IdleRequest EXCEPT !.pc = "retry.save", !.id = i, !.wf = table[i],
                                   !.todo = {}]
      <4>1. IdleRequest = [IdleRequest EXCEPT !.todo = {}] BY DEF IdleRequest
      <4>2. IdleRequest \in Request BY IdleRequestType
      <4>3. QED BY <4>1, <4>2 DEF Request
    <3>4. Goto(r, [IdleRequest EXCEPT !.pc = "retry.save", !.id = i, !.wf = table[i],
                                      !.todo = {}]) /\ Stored(i)
      BY <2>1, <3>3 DEF Read
    <3>5. QED BY <1>0, <1>1, <3>1, <3>2, <3>4, ReadStep
  <2>2. QED BY <1>2, <1>7, <2>1 DEF RereadWorkflow
<1>8. QED BY <1>5, <1>6, <1>7
-----------------------------------------------------------------------------
(***************************************************************************)
(* The steps that write.                                                   *)
(***************************************************************************)

\* The put of an honest copy leaves an honest table, whatever was in it.
LEMMA PutIsHonest ==
    ASSUME Inv, NEW r \in Req, req[r].pc \in PutPC, Put(req[r].id, req[r].wf)
    PROVE  \A k \in WorkflowIDs : \E w \in Workflow : table'[k] = w /\ Honest(k, w)
<1>1. /\ req[r].id \in WorkflowIDs /\ Honest(req[r].id, req[r].wf)
      /\ req[r].wf \in Workflow
  BY CopyFacts, RequestFacts DEF PutPC
<1>2. PICK item \in StoredForms(req[r].wf) : table' = [table EXCEPT ![req[r].id] = item]
  BY DEF Put
<1>3. item \in Workflow /\ Honest(req[r].id, item)
  BY <1>1, StoredFormsType DEF Honest
<1>4. \A k \in WorkflowIDs : table[k] \in Workflow /\ Honest(k, table[k])
  BY DEF Inv, TypeOK, TableHonest
<1>5. TypeOK BY DEF Inv
<1>6. QED BY <1>2, <1>3, <1>4, <1>5 DEF TypeOK

\* UpdateWorkflow and the repetition of its put keep the invariant.
LEMMA UpdateWorkflowStep ==
    ASSUME Inv, TypeOK', NEW r \in Req, UpdateWorkflow(r) \/ ResendPut(r)
    PROVE  Inv'
<1>0. TypeOK BY DEF Inv
<1>1. req[r].pc \in PutPC /\ UNCHANGED <<life, exec, stream>>
  BY DEF UpdateWorkflow, ResendPut
<1>2. CASE Return(r) /\ UNCHANGED table
  BY <1>1, <1>2, ReturnStep
<1>3. CASE /\ Put(req[r].id, req[r].wf)
           /\ \/ Goto(r, AfterPut(req[r]))
              \/ UNCHANGED req
  <2>1. req[r] \in Request BY RequestFacts
  <2>2. /\ \A q \in Req \ {r} : req'[q] = req[q]
        /\ \/ req'[r] = req[r]
           \/ req'[r] = AfterPut(req[r])
    BY <1>0, <1>3, GotoFacts
  <2>3. \/ AfterPut(req[r]) = IdleRequest /\ req[r].pc # "retry.put"
        \/ /\ AfterPut(req[r]).id = req[r].id
           /\ AfterPut(req[r]).wf = req[r].wf
           /\ AfterPut(req[r]).new = req[r].new
           /\ \/ req[r].pc = "retry.put" /\ AfterPut(req[r]).pc = "retry.start"
              \/ req[r].pc # "retry.put"
                   /\ AfterPut(req[r]).pc \in {"get.summary", "resume.reread"}
    BY <2>1 DEF AfterPut, Request
  <2>4. IdleRequest.id = NoID /\ IdleRequest.new = NoID /\ IdleRequest.pc = "idle"
    BY DEF IdleRequest
  <2>5. /\ \A k \in WorkflowIDs : Starting(k)' => Starting(k)
        /\ \A k \in WorkflowIDs : Creating(k)' => Creating(k)
    BY <1>1, <2>2, <2>3, <2>4 DEF Starting, Creating, StartPC, PutPC
  <2>6. \A q \in Req : req'[q].id # NoID =>
           /\ life[req'[q].id] # "fresh"
           /\ \E w \in Workflow : req'[q].wf = w /\ Honest(req'[q].id, w)
    <3>1. \A q \in Req : req[q].id # NoID =>
             life[req[q].id] # "fresh" /\ req[q].wf \in Workflow /\ Honest(req[q].id, req[q].wf)
      BY RequestFacts DEF Inv, CopiesHonest
    <3>2. QED BY <2>2, <2>3, <2>4, <3>1
  <2>7. TableHonest' /\ CopiesHonest'
    BY <1>1, <1>3, <2>5, <2>6, PutIsHonest, RecordsStayHonest DEF Advances
  <2>8. RequestsSound'
    <3>1. \A q \in Req \ {r} : RequestSound(q)'
      BY <1>1, <2>2 DEF Inv, RequestsSound, RequestSound, Stored
    <3>2. RequestSound(r) BY DEF Inv, RequestsSound
    <3>3. RequestSound(r)'
      <4>1. CASE req'[r] = req[r]
        BY <1>1, <3>2, <4>1 DEF RequestSound, Stored
      <4>2. CASE req'[r] = AfterPut(req[r])
        BY <1>1, <2>3, <2>4, <3>2, <4>2 DEF RequestSound, Stored, StartPC, PutPC
      <4>3. QED BY <2>2, <4>1, <4>2
    <3>4. \A q \in Req : req'[q].new \in {req[q].new, NoID}
      BY <2>2, <2>3, <2>4
    <3>5. QED BY <3>1, <3>3, <3>4 DEF Inv, RequestsSound
  <2>9. EventsSound' /\ ExecutionsSound'
    BY <1>1 DEF Inv, EventsSound, ExecutionsSound, Stored
  <2>10. QED BY <2>7, <2>8, <2>9 DEF Inv
<1>4. QED BY <1>2, <1>3 DEF UpdateWorkflow, ResendPut

\* The records are untouched, requests keep their copies or return, and
\* executions only advance.
LEMMA RecordsUntouched ==
    ASSUME Inv, TypeOK', UNCHANGED table,
           \A k \in WorkflowIDs : Advances(k),
           \A k \in WorkflowIDs : life[k] # "fresh" => life'[k] # "fresh",
           \A q \in Req :
              \/ req'[q] = IdleRequest
              \/ /\ req'[q].id = req[q].id
                 /\ req'[q].new = req[q].new
                 /\ req'[q].pc \in StartPC => req[q].pc \in StartPC
                 /\ req[q].id # NoID =>
                       \E w \in Workflow : req'[q].wf = w /\ Honest(req[q].id, w)
    PROVE  TableHonest' /\ CopiesHonest'
<1>1. IdleRequest.id = NoID /\ IdleRequest.new = NoID /\ IdleRequest.pc = "idle"
  BY DEF IdleRequest
<1>2. /\ \A k \in WorkflowIDs : Starting(k)' => Starting(k)
      /\ \A k \in WorkflowIDs : Creating(k)' => Creating(k)
  BY <1>1 DEF Starting, Creating
<1>3. \A q \in Req : req'[q].id # NoID =>
         /\ life[req'[q].id] # "fresh"
         /\ \E w \in Workflow : req'[q].wf = w /\ Honest(req'[q].id, w)
  BY <1>1 DEF Inv, CopiesHonest
<1>4. \A k \in WorkflowIDs : \E w \in Workflow : table'[k] = w /\ Honest(k, w)
  BY DEF Inv, TypeOK, TableHonest
<1>5. QED BY <1>2, <1>3, <1>4, RecordsStayHonest

\* StartExecution, with either outcome, keeps the invariant: the workflow has
\* no execution yet, and no record says that it failed.
LEMMA StartExecutionStep ==
    ASSUME Inv, TypeOK', NEW r \in Req, StartExecution(r) \/ StartExecutionFails(r)
    PROVE  Inv'
<1> DEFINE n == req[r].new
<1>0. TypeOK BY DEF Inv
<1>1. req[r].pc \in {"create.start", "retry.start"} /\ UNCHANGED <<table, life, stream>>
  BY DEF StartExecution, StartExecutionFails
<1>2. n \in WorkflowIDs /\ n # NoID /\ Stored(n) /\ exec[n] = "none" /\ Starting(n)
  BY <1>1, RequestFacts DEF Inv, RequestsSound, RequestSound, StartPC, Starting
<1>3. exec' = exec \/ exec' = [exec EXCEPT ![n] = "started"]
  BY DEF StartExecution, StartExecutionFails
<1>4. \A k \in WorkflowIDs : exec'[k] = exec[k] \/ (k = n /\ exec'[k] = "started")
  BY <1>0, <1>2, <1>3 DEF TypeOK
<1>5. /\ \A q \in Req \ {r} : req'[q] = req[q]
      /\ \/ req'[r] = IdleRequest
         \/ /\ req[r].pc = "create.start"
            /\ req'[r] = [req[r] EXCEPT !.pc = "create.delete"]
            /\ "ambiguousStart" \notin Faults => exec' = exec
  BY <1>0, GotoFacts DEF StartExecution, StartExecutionFails, Return, AfterStartError
<1>6. req[r] \in Request BY RequestFacts
<1>7. IdleRequest.id = NoID /\ IdleRequest.new = NoID /\ IdleRequest.pc = "idle"
  BY DEF IdleRequest
<1>8. \/ req'[r] = IdleRequest
      \/ /\ req'[r].id = req[r].id /\ req'[r].new = n /\ req'[r].wf = req[r].wf
         /\ req'[r].pc = "create.delete" /\ req[r].pc = "create.start"
         /\ "ambiguousStart" \notin Faults => exec' = exec
  BY <1>5, <1>6 DEF Request
<1>9. \A k \in WorkflowIDs : Advances(k)
  BY <1>2, <1>4 DEF Advances
<1>10. \A q \in Req : req[q].id # NoID => req[q].wf \in Workflow /\ Honest(req[q].id, req[q].wf)
  BY RequestFacts DEF Inv, CopiesHonest
<1>11. \A q \in Req :
          \/ req'[q] = IdleRequest
          \/ /\ req'[q].id = req[q].id
             /\ req'[q].new = req[q].new
             /\ req'[q].pc \in StartPC => req[q].pc \in StartPC
             /\ req[q].id # NoID =>
                   \E w \in Workflow : req'[q].wf = w /\ Honest(req[q].id, w)
  BY <1>5, <1>8, <1>10 DEF StartPC
<1>12. TableHonest' /\ CopiesHonest'
  BY <1>1, <1>9, <1>11, RecordsUntouched
<1>13. RequestsSound'
  <2>1. \A q \in Req \ {r} : req[q].new # NoID => req[q].new # n
    BY <1>2 DEF Inv, RequestsSound
  <2>2. ASSUME NEW q \in Req \ {r} PROVE RequestSound(q)'
    <3>1. RequestSound(q) BY DEF Inv, RequestsSound
    <3>2. req'[q] = req[q] BY <1>5
    <3>3. req[q].new # NoID => req[q].new \in WorkflowIDs /\ exec'[req[q].new] = exec[req[q].new]
      BY <1>4, <2>1, RequestFacts
    <3>4. req[q].pc = "retry.save" => exec'[req[q].id] # "none"
      BY <1>4, <3>1, RequestFacts DEF RequestSound
    <3>5. QED BY <1>1, <3>1, <3>2, <3>3, <3>4 DEF RequestSound, Stored
  <2>3. RequestSound(r)'
    BY <1>1, <1>2, <1>7, <1>8 DEF RequestSound, Stored, StartPC, Inv, RequestsSound
  <2>4. \A q \in Req : req'[q].new \in {req[q].new, NoID}
    BY <1>5, <1>7, <1>8
  <2>5. QED BY <2>2, <2>3, <2>4 DEF Inv, RequestsSound
<1>14. EventsSound'
  BY <1>1, <1>2, <1>4 DEF Inv, EventsSound, Ended
<1>15. ExecutionsSound'
  BY <1>1, <1>2, <1>4 DEF Inv, ExecutionsSound, Stored
<1>16. QED BY <1>12, <1>13, <1>14, <1>15 DEF Inv

\* Deleting a workflow keeps the invariant: unless an error of StartExecution
\* can hide a start, the workflow has no execution.
LEMMA DeleteStep ==
    ASSUME Inv, TypeOK', NEW r \in Req, DeleteWorkflowByID(r)
    PROVE  Inv'
<1> DEFINE n == req[r].new
<1>0. TypeOK BY DEF Inv
<1>1. /\ req[r].pc = "create.delete" /\ UNCHANGED <<table, exec, stream>>
      /\ life' = [life EXCEPT ![n] = "deleted"]
  BY DEF DeleteWorkflowByID
<1>2. n \in WorkflowIDs /\ n # NoID /\ ("ambiguousStart" \notin Faults => exec[n] = "none")
  BY <1>1, RequestFacts DEF Inv, RequestsSound, RequestSound
<1>3. req'[r] = IdleRequest /\ \A q \in Req \ {r} : req'[q] = req[q]
  BY <1>0, GotoFacts DEF DeleteWorkflowByID, Return
<1>4. IdleRequest.id = NoID /\ IdleRequest.new = NoID /\ IdleRequest.pc = "idle"
  BY DEF IdleRequest
<1>5. \A k \in WorkflowIDs : life'[k] = IF k = n THEN "deleted" ELSE life[k]
  BY <1>0, <1>1 DEF TypeOK
<1>6. \A q \in Req : req[q].id # NoID => req[q].wf \in Workflow /\ Honest(req[q].id, req[q].wf)
  BY RequestFacts DEF Inv, CopiesHonest
<1>7. TableHonest' /\ CopiesHonest'
  BY <1>1, <1>3, <1>5, <1>6, RecordsUntouched DEF Advances
<1>8. RequestsSound'
  <2>1. \A q \in Req \ {r} : req[q].new # NoID => req[q].new \in WorkflowIDs /\ req[q].new # n
    BY <1>2, RequestFacts DEF Inv, RequestsSound
  <2>2. \A q \in Req \ {r} : RequestSound(q)'
    BY <1>1, <1>3, <1>5, <2>1 DEF Inv, RequestsSound, RequestSound, Stored
  <2>3. RequestSound(r)'
    BY <1>3, <1>4 DEF RequestSound, StartPC
  <2>4. QED BY <1>3, <1>4, <2>2, <2>3 DEF Inv, RequestsSound
<1>9. EventsSound' /\ ExecutionsSound'
  BY <1>1, <1>2, <1>5 DEF Inv, EventsSound, ExecutionsSound, Stored
<1>10. QED BY <1>7, <1>8, <1>9 DEF Inv

\* An event that is true of an execution as it is after the step may be added
\* to the stream, and events may leave it.
LEMMA EventAddedStep ==
    ASSUME Inv, NEW i \in WorkflowIDs, NEW kind \in {"second", "terminal"},
           stream' \subseteq stream \cup {<<i, kind>>},
           \A k \in WorkflowIDs : Advances(k),
           exec'[i] # "none", kind = "terminal" => exec'[i] \in Ended
    PROVE  EventsSound'
<1>1. ASSUME NEW k \in WorkflowIDs, NEW kd \in {"second", "terminal"}, <<k, kd>> \in stream'
      PROVE  exec'[k] # "none" /\ (kd = "terminal" => exec'[k] \in Ended)
  <2>1. CASE <<k, kd>> \in stream
    <3>1. exec[k] # "none" /\ (kd = "terminal" => exec[k] \in Ended)
      BY <2>1 DEF Inv, EventsSound, Ended
    <3>2. QED BY <3>1 DEF Advances, Live, Ended
  <2>2. CASE k = i /\ kd = kind
    BY <2>2
  <2>3. QED BY <1>1, <2>1, <2>2
<1>2. QED BY <1>1 DEF EventsSound

\* StopExecution keeps the invariant: it ends a live execution.
LEMMA StopExecutionStep ==
    ASSUME Inv, TypeOK', NEW r \in Req, StopExecution(r)
    PROVE  Inv'
<1> DEFINE i == req[r].id
           s == [req[r] EXCEPT !.pc = "cancel.put", !.wf.resolved = TRUE]
           w == [req[r].wf EXCEPT !.resolved = TRUE]
<1>0. TypeOK BY DEF Inv
<1>1. req[r].pc = "cancel.stop" /\ UNCHANGED <<table, life>>
  BY DEF StopExecution
<1>2. /\ i \in WorkflowIDs /\ i # NoID /\ Honest(i, req[r].wf)
      /\ req[r] \in Request /\ req[r].wf \in Workflow /\ req[r].new = NoID
  BY <1>1, CopyFacts, RequestFacts DEF StartPC
<1>3. s \in Request /\ s.pc = "cancel.put" /\ s.id = i /\ s.wf = w /\ s.new = NoID
  BY <1>2 DEF Request, Workflow, PC, PutPC
<1>4. w \in Workflow BY <1>2 DEF Workflow
<1>5. Honest(i, w)
  <2>1. /\ w.status = req[r].wf.status /\ w.resolved = TRUE /\ w.jobs = req[r].wf.jobs
        /\ w.retryFor = req[r].wf.retryFor /\ w.old = req[r].wf.old
    BY <1>2 DEF Workflow
  <2> HIDE DEF w
  <2>2. QED BY <1>2, <2>1 DEF Honest
<1> HIDE DEF s, w
<1>6. CASE Return(r) /\ UNCHANGED <<exec, stream>>
  BY <1>1, <1>6, ReturnStep
<1>7. CASE Goto(r, s) /\ UNCHANGED <<exec, stream>>
  <2>1. "cancel.put" \in PC \ ({"idle", "create.start", "create.delete"} \cup StartPC)
    BY DEF PC, PutPC, StartPC
  <2>2. QED BY <1>1, <1>2, <1>3, <1>4, <1>5, <1>7, <2>1, MoveStep DEF StartPC
<1>8. CASE /\ exec[i] \in Live
           /\ exec' = [exec EXCEPT ![i] = "aborted"]
           /\ stream' = stream \cup {<<i, "terminal">>}
           /\ Goto(r, s)
  <2>1. req'[r] = s /\ \A q \in Req \ {r} : req'[q] = req[q]
    BY <1>0, <1>8, GotoFacts
  <2>2. \A k \in WorkflowIDs : exec'[k] = IF k = i THEN "aborted" ELSE exec[k]
    BY <1>0, <1>8 DEF TypeOK
  <2>3. \A k \in WorkflowIDs : Advances(k)
    BY <1>8, <2>2 DEF Advances, Ended
  <2>4. \A q \in Req : req[q].id # NoID => req[q].wf \in Workflow /\ Honest(req[q].id, req[q].wf)
    BY RequestFacts DEF Inv, CopiesHonest
  <2>5. TableHonest' /\ CopiesHonest'
    BY <1>1, <1>2, <1>3, <1>4, <1>5, <2>1, <2>3, <2>4, RecordsUntouched DEF StartPC
  <2>6. RequestsSound'
    <3>1. ASSUME NEW q \in Req \ {r} PROVE RequestSound(q)'
      <4>1. RequestSound(q) /\ req'[q] = req[q] BY <2>1 DEF Inv, RequestsSound
      <4>2. req[q].new # NoID /\ exec[req[q].new] = "none" => exec'[req[q].new] = "none"
        BY <1>8, <2>2, RequestFacts DEF Live
      <4>3. req[q].pc = "retry.save" => exec'[req[q].id] # "none"
        BY <2>2, <4>1, RequestFacts DEF RequestSound
      <4>4. QED BY <1>1, <4>1, <4>2, <4>3 DEF RequestSound, Stored, StartPC
    <3>2. RequestSound(r)'
      BY <1>2, <1>3, <2>1 DEF RequestSound, StartPC
    <3>3. QED BY <1>2, <1>3, <2>1, <3>1, <3>2 DEF Inv, RequestsSound
  <2>7. EventsSound'
    <3>1. exec'[i] = "aborted" BY <1>2, <2>2
    <3>2. QED BY <1>2, <1>8, <2>3, <3>1, EventAddedStep DEF Ended
  <2>8. ExecutionsSound'
    BY <1>1, <1>8, <2>2 DEF Inv, ExecutionsSound, Stored, Live
  <2>9. QED BY <2>5, <2>6, <2>7, <2>8 DEF Inv
<1>9. QED BY <1>6, <1>7, <1>8 DEF StopExecution, s

\* Saving a new workflow keeps the invariant.  Its UUID is new, so that no
\* request has a copy of it and no execution has its name.
LEMMA SaveStep ==
    ASSUME Inv, TypeOK', NEW r \in Req, NEW n \in WorkflowIDs,
           NEW original \in WorkflowIDs \cup {NoID},
           original # NoID => exec[original] \in Ended,
           SaveWorkflow(n, original), UNCHANGED <<exec, stream>>,
           NEW s \in Request, Goto(r, s), s.new = n, s.pc \in {"create.start", "retry.put"},
           s.id = req[r].id,
           s.id # NoID <=> s.pc = "retry.put",
           s.id # NoID => Honest(s.id, s.wf)
    PROVE  Inv'
<1>0. TypeOK BY DEF Inv
<1>1. req'[r] = s /\ \A q \in Req \ {r} : req'[q] = req[q]
  BY <1>0, GotoFacts
<1>2. life[n] = "fresh" /\ exec[n] = "none"
  BY DEF SaveWorkflow, Inv, ExecutionsSound
<1>3. /\ \A k \in WorkflowIDs : life'[k] = IF k = n THEN "stored" ELSE life[k]
      /\ \A k \in WorkflowIDs : table'[k] = IF k = n THEN NewWorkflow(original) ELSE table[k]
  BY <1>0 DEF SaveWorkflow, TypeOK
<1>4. \A q \in Req : req[q].new # n /\ req[q].id # n
  BY <1>2 DEF Inv, RequestsSound, RequestSound, CopiesHonest, Stored
<1>5. ASSUME NEW k \in WorkflowIDs, k # n, NEW w \in Workflow, Honest(k, w)
      PROVE  Honest(k, w)'
  <2>1. (Starting(k)' => Starting(k)) /\ (Creating(k)' => Creating(k))
    BY <1>1, <1>5 DEF Starting, Creating
  <2>2. QED BY <1>0, <1>5, <2>1, HonestStep DEF Advances
<1>6. TableHonest'
  <2>1. ASSUME NEW k \in WorkflowIDs, k # n PROVE Honest(k, table[k])'
    <3>1. PICK w \in Workflow : table[k] = w /\ Honest(k, w)
      BY <1>0 DEF TypeOK, Inv, TableHonest
    <3>2. Honest(k, w)' BY <1>5, <2>1, <3>1
    <3>3. table'[k] = w BY <1>3, <2>1, <3>1
    <3>4. QED BY <3>2, <3>3 DEF Honest
  <2>2. Honest(n, table[n])'
    <3>1. table'[n] = NewWorkflow(original) BY <1>3
    <3>2. QED BY <3>1 DEF NewWorkflow, Honest, Supports, ResolvesItself
  <2>3. QED BY <2>1, <2>2 DEF TableHonest
<1>7. CopiesHonest'
  <2>1. ASSUME NEW q \in Req, NEW k \in WorkflowIDs, NEW w \in Workflow,
               req'[q].id = k, req'[q].wf = w, Honest(k, w), life[k] # "fresh"
        PROVE  life'[req'[q].id] # "fresh" /\ Honest(req[q].id, req[q].wf)'
    <3>1. k # n BY <1>2, <2>1
    <3>2. Honest(k, w)' BY <1>5, <2>1, <3>1
    <3>3. Honest(req[q].id, req[q].wf)' BY <2>1, <3>2 DEF Honest
    <3>4. QED BY <1>3, <2>1, <3>1, <3>3
  <2>2. ASSUME NEW q \in Req, req'[q].id # NoID
        PROVE  /\ req'[q].id \in WorkflowIDs /\ req'[q].wf \in Workflow
               /\ Honest(req'[q].id, req'[q].wf) /\ life[req'[q].id] # "fresh"
    <3>1. \A p \in Req : req[p].id # NoID =>
             /\ req[p].id \in WorkflowIDs /\ req[p].wf \in Workflow
             /\ life[req[p].id] # "fresh" /\ Honest(req[p].id, req[p].wf)
      BY RequestFacts DEF Inv, CopiesHonest
    <3>2. s.wf \in Workflow BY DEF Request
    <3>3. QED BY <1>1, <2>2, <3>1, <3>2
  <2>3. QED BY <2>1, <2>2 DEF CopiesHonest
<1>8. RequestsSound'
  <2>1. ASSUME NEW q \in Req \ {r} PROVE RequestSound(q)'
    <3>1. RequestSound(q) /\ req'[q] = req[q] BY <1>1 DEF Inv, RequestsSound
    <3>2. req[q].new # NoID => req[q].new \in WorkflowIDs BY RequestFacts
    <3>3. QED BY <1>3, <3>1, <3>2 DEF RequestSound, Stored
  <2>2. RequestSound(r)'
    BY <1>1, <1>2, <1>3 DEF RequestSound, Stored, StartPC
  <2>3. QED BY <1>1, <1>4, <2>1, <2>2 DEF Inv, RequestsSound
<1>9. EventsSound' /\ ExecutionsSound'
  BY <1>2, <1>3 DEF Inv, EventsSound, ExecutionsSound, Stored
<1>10. QED BY <1>6, <1>7, <1>8, <1>9 DEF Inv

\* StartWorkflow keeps the invariant.
LEMMA StartWorkflowStep ==
    ASSUME Inv, TypeOK', NEW r \in Req, StartWorkflow(r)
    PROVE  Inv'
<1>1. PICK n \in WorkflowIDs :
         /\ SaveWorkflow(n, NoID)
         /\ Goto(r, [IdleRequest EXCEPT !.pc = "create.start", !.new = n])
  BY DEF StartWorkflow
<1>2. req[r].pc = "idle" /\ UNCHANGED <<exec, stream>> BY DEF StartWorkflow
<1>3. req[r].id = NoID BY <1>2 DEF Inv, RequestsSound, RequestSound
<1> DEFINE s == [IdleRequest EXCEPT !.pc = "create.start", !.new = n]
<1>4. s \in Request BY IdleRequestType DEF Request, PC, StartPC
<1>5. s.new = n /\ s.pc = "create.start" /\ s.id = NoID BY DEF IdleRequest
<1> HIDE DEF s
<1>6. Goto(r, s) BY <1>1 DEF s
<1>7. QED BY <1>1, <1>2, <1>3, <1>4, <1>5, <1>6, SaveStep

\* RetryWorkflow keeps the invariant: the original is done, its copy is
\* honest and it had an execution, which therefore has ended.
LEMMA RetryWorkflowStep ==
    ASSUME Inv, TypeOK', NEW r \in Req, RetryWorkflow(r)
    PROVE  Inv'
<1> DEFINE i == req[r].id
           wf == req[r].wf
<1>0. req[r].pc = "retry.save" /\ UNCHANGED <<exec, stream>> BY DEF RetryWorkflow
<1>1. /\ i \in WorkflowIDs /\ i # NoID /\ Honest(i, wf) /\ exec[i] # "none"
      /\ req[r] \in Request /\ wf \in Workflow
  BY <1>0, CopyFacts, RequestFacts DEF Inv, RequestsSound, RequestSound
<1>2. CASE Return(r) /\ UNCHANGED <<table, life>>
  BY <1>0, <1>2, ReturnStep
<1>3. ASSUME WorkflowIsDone(wf), NEW n \in WorkflowIDs, SaveWorkflow(n, i),
             Goto(r, [req[r] EXCEPT !.pc = "retry.put", !.new = n,
                                    !.wf.retries = @ \cup {n}])
      PROVE  Inv'
  <2> DEFINE s == [req[r] EXCEPT !.pc = "retry.put", !.new = n,
                                 !.wf.retries = @ \cup {n}]
             w == [wf EXCEPT !.retries = @ \cup {n}]
  <2>1. exec[i] \in Ended
    BY <1>1, <1>3 DEF Honest, Supports, WorkflowIsDone, WorkflowStatusIsDone, Ended
  <2>2. s \in Request /\ s.pc = "retry.put" /\ s.id = i /\ s.wf = w /\ s.new = n
    BY <1>1 DEF Request, Workflow, PC, PutPC
  <2>3. Honest(i, w)
    <3>1. /\ w.status = wf.status /\ w.resolved = wf.resolved /\ w.jobs = wf.jobs
          /\ w.retryFor = wf.retryFor /\ w.old = wf.old
      BY <1>1 DEF Workflow
    <3> HIDE DEF w
    <3>2. QED BY <1>1, <3>1 DEF Honest
  <2> HIDE DEF s, w
  <2>4. Goto(r, s) BY <1>3 DEF s
  <2>5. QED BY <1>0, <1>1, <1>3, <2>1, <2>2, <2>3, <2>4, SaveStep
<1>4. QED BY <1>2, <1>3 DEF RetryWorkflow
-----------------------------------------------------------------------------
(***************************************************************************)
(* The consumer, SFN and time.                                             *)
(***************************************************************************)

\* Requests, and the workflows they are about to start, when only executions
\* advance that no request is about to start.
LEMMA RequestsUntouched ==
    ASSUME Inv, UNCHANGED <<life, req>>,
           \A k \in WorkflowIDs : \/ exec'[k] = exec[k]
                                  \/ exec[k] # "none" /\ exec'[k] # "none"
    PROVE  RequestsSound'
<1>1. ASSUME NEW q \in Req PROVE RequestSound(q)'
  <2>1. RequestSound(q) BY DEF Inv, RequestsSound
  <2>2. /\ req[q].pc \in StartPC \cup {"create.delete"} => req[q].new \in WorkflowIDs
        /\ req[q].pc = "retry.save" => req[q].id \in WorkflowIDs
    BY RequestFacts
  <2>3. QED BY <2>1, <2>2 DEF RequestSound, Stored
<1>2. QED BY <1>1 DEF Inv, RequestsSound

\* The consumer keeps the invariant: an event says what is true of the
\* execution, whenever it comes.
LEMMA ConsumerStep ==
    ASSUME Inv, TypeOK', NEW evt \in Event, HandleHistoryEvent(evt) \/ DropEvent(evt)
    PROVE  Inv'
<1> DEFINE i == evt[1]
           st == StatusOfEvent(evt)
<1>0. TypeOK BY DEF Inv
<1>1. /\ UNCHANGED <<life, exec, req>> /\ stream' \subseteq stream /\ evt \in stream
  BY DEF HandleHistoryEvent, DropEvent
<1>2. i \in WorkflowIDs /\ exec[i] \in ExecutionState
  BY <1>0 DEF Event, TypeOK
<1>3. Supports(i, st) /\ exec[i] # "none"
  <2>1. CASE evt[2] = "second"
    <3>1. evt = <<i, "second">> BY <2>1 DEF Event
    <3>2. exec[i] # "none" BY <1>1, <1>2, <3>1 DEF Inv, EventsSound
    <3>3. st = "running" BY <2>1 DEF StatusOfEvent
    <3>4. QED BY <3>2, <3>3 DEF Supports
  <2>2. CASE evt[2] = "terminal"
    <3>1. evt = <<i, "terminal">> BY <2>2 DEF Event
    <3>2. exec[i] \in Ended BY <1>1, <1>2, <3>1 DEF Inv, EventsSound
    <3>3. st = SFNStatusToWorkflowStatus(exec[i]) BY <2>2 DEF StatusOfEvent
    <3> HIDE DEF i, st
    <3>4. QED BY <3>2, <3>3 DEF Supports, SFNStatusToWorkflowStatus, Ended, Live
  <2>3. QED BY <2>1, <2>2 DEF Event
<1>4. \A k \in WorkflowIDs : table[k] \in Workflow /\ Honest(k, table[k])
  BY <1>0 DEF Inv, TypeOK, TableHonest
<1>5. \A k \in WorkflowIDs : \E w \in Workflow : table'[k] = w /\ Honest(k, w)
  <2>1. CASE UNCHANGED table BY <1>4, <2>1
  <2>2. CASE table' = [table EXCEPT ![i].status = st,
                                    ![i].resolved = @ \/ ResolvesItself(st)]
    <3>1. table'[i] \in Workflow BY <1>2 DEF TypeOK
    <3>2. /\ table'[i].status = st
          /\ table'[i].resolved = (table[i].resolved \/ ResolvesItself(st))
          /\ table'[i].jobs = table[i].jobs
          /\ table'[i].retryFor = table[i].retryFor
          /\ table'[i].old = table[i].old
      <4> HIDE DEF i, st
      <4>1. QED BY <1>0, <1>2, <1>4, <2>2 DEF TypeOK, Workflow
    <3>3. PICK w \in Workflow : w = table'[i] BY <3>1
    <3>4. Honest(i, w)
      <4> HIDE DEF i, st
      <4>1. QED BY <1>2, <1>3, <1>4, <3>2, <3>3 DEF Honest
    <3>5. \A k \in WorkflowIDs \ {i} : table'[k] = table[k]
      <4> HIDE DEF i, st
      <4>1. QED BY <1>0, <2>2 DEF TypeOK
    <3>6. QED BY <1>4, <3>3, <3>4, <3>5
  <2>3. QED
    BY <2>1, <2>2 DEF HandleHistoryEvent, UpdateWorkflowAttributes, DropEvent
<1>6. \A q \in Req : req'[q].id # NoID =>
         /\ life[req'[q].id] # "fresh"
         /\ \E w \in Workflow : req'[q].wf = w /\ Honest(req'[q].id, w)
  BY <1>1, RequestFacts DEF Inv, CopiesHonest
<1>7. \A k \in WorkflowIDs : (Starting(k)' => Starting(k)) /\ (Creating(k)' => Creating(k))
  BY <1>1 DEF Starting, Creating
<1>8. TableHonest' /\ CopiesHonest'
  BY <1>1, <1>5, <1>6, <1>7, RecordsStayHonest DEF Advances
<1>9. RequestsSound' BY <1>1, RequestsUntouched
<1>10. EventsSound' /\ ExecutionsSound'
  BY <1>1 DEF Inv, EventsSound, ExecutionsSound, Stored
<1>11. QED BY <1>8, <1>9, <1>10 DEF Inv

\* SFN keeps the invariant as executions run and end.
LEMMA ExecutionStep ==
    ASSUME Inv, TypeOK', NEW i \in WorkflowIDs, ExecutionRuns(i) \/ ExecutionEnds(i)
    PROVE  Inv'
<1>0. TypeOK BY DEF Inv
<1>1. UNCHANGED <<table, life, req>> /\ exec[i] \in Live
  BY DEF ExecutionRuns, ExecutionEnds, Live
<1>2. PICK e \in {"running", "succeeded", "failed", "timedOut"},
           kind \in {"second", "terminal"} :
         /\ exec' = [exec EXCEPT ![i] = e]
         /\ stream' = stream \cup {<<i, kind>>}
         /\ kind = "terminal" => e # "running"
  BY DEF ExecutionRuns, ExecutionEnds
<1>3. \A k \in WorkflowIDs : exec'[k] = IF k = i THEN e ELSE exec[k]
  BY <1>0, <1>2 DEF TypeOK
<1>4. \A k \in WorkflowIDs : Advances(k)
  BY <1>1, <1>3 DEF Advances, Ended
<1>5. \A q \in Req : req[q].id # NoID => req[q].wf \in Workflow /\ Honest(req[q].id, req[q].wf)
  BY RequestFacts DEF Inv, CopiesHonest
<1>6. TableHonest' /\ CopiesHonest'
  BY <1>1, <1>4, <1>5, RecordsUntouched
<1>7. RequestsSound'
  BY <1>1, <1>3, RequestsUntouched DEF Live
<1>8. EventsSound'
  BY <1>2, <1>3, <1>4, EventAddedStep DEF Ended
<1>9. ExecutionsSound'
  BY <1>1, <1>3 DEF Inv, ExecutionsSound, Stored, Live
<1>10. QED BY <1>6, <1>7, <1>8, <1>9 DEF Inv

\* Time keeps the invariant: no record of a workflow that is being started
\* grows old.
LEMMA TimeStep ==
    ASSUME Inv, TypeOK', NEW i \in WorkflowIDs, FiveMinutesPass(i)
    PROVE  Inv'
<1>0. TypeOK BY DEF Inv
<1>1. UNCHANGED <<life, exec, stream>> /\ exec[i] # "started" /\ ~Creating(i)
  BY DEF FiveMinutesPass, Creating
<1>2. \A k \in WorkflowIDs : table[k] \in Workflow /\ Honest(k, table[k])
  BY <1>0 DEF Inv, TypeOK, TableHonest
<1>3. \A q \in Req : /\ req[q] \in Request /\ req[q].wf \in Workflow
                     /\ req[q].id # NoID => life[req[q].id] # "fresh"
                                              /\ Honest(req[q].id, req[q].wf)
  BY RequestFacts DEF Inv, CopiesHonest
<1>4. ASSUME NEW w \in Workflow, Honest(i, w)
      PROVE  [w EXCEPT !.old = TRUE] \in Workflow /\ Honest(i, [w EXCEPT !.old = TRUE])
  <2> DEFINE o == [w EXCEPT !.old = TRUE]
  <2>1. o \in Workflow BY AgedType
  <2>2. /\ o.status = w.status /\ o.resolved = w.resolved /\ o.jobs = w.jobs
        /\ o.retryFor = w.retryFor
    BY DEF Workflow
  <2> HIDE DEF o
  <2>3. Honest(i, o) BY <1>1, <1>4, <2>2 DEF Honest
  <2>4. QED BY <2>1, <2>3 DEF o
<1>5. \A k \in WorkflowIDs : \E w \in Workflow : table'[k] = w /\ Honest(k, w)
  <2>1. table' = [table EXCEPT ![i] = [table[i] EXCEPT !.old = TRUE]]
    BY <1>0 DEF TypeOK, FiveMinutesPass
  <2>2. QED BY <1>0, <1>2, <1>4, <2>1 DEF TypeOK
<1>6. \A q \in Req : req'[q] = IF req[q].id = i THEN [req[q] EXCEPT !.wf.old = TRUE] ELSE req[q]
  BY DEF FiveMinutesPass
<1>7. \A q \in Req : /\ req'[q].id = req[q].id /\ req'[q].new = req[q].new
                     /\ req'[q].pc = req[q].pc
                     /\ req'[q].wf = IF req[q].id = i THEN [req[q].wf EXCEPT !.old = TRUE]
                                                      ELSE req[q].wf
  <2> SUFFICES ASSUME NEW q \in Req
               PROVE  /\ req'[q].id = req[q].id /\ req'[q].new = req[q].new
                      /\ req'[q].pc = req[q].pc
                      /\ req'[q].wf = IF req[q].id = i THEN [req[q].wf EXCEPT !.old = TRUE]
                                                       ELSE req[q].wf
    OBVIOUS
  <2>1. req[q] \in Request BY <1>3
  <2>2. CASE req[q].id = i
    <3> DEFINE w == [req[q].wf EXCEPT !.old = TRUE]
    <3>1. req'[q] = [req[q] EXCEPT !.wf = w] BY <1>6, <2>2
    <3> HIDE DEF w
    <3>2. /\ req'[q].id = req[q].id /\ req'[q].new = req[q].new
          /\ req'[q].pc = req[q].pc /\ req'[q].wf = w
      BY <2>1, <3>1 DEF Request
    <3> QED BY <2>2, <3>2 DEF w
  <2>3. CASE req[q].id # i
    BY <1>6, <2>3
  <2> QED BY <2>2, <2>3
<1>8. \A q \in Req : req'[q].id # NoID =>
         /\ life[req'[q].id] # "fresh"
         /\ \E w \in Workflow : req'[q].wf = w /\ Honest(req'[q].id, w)
  BY <1>3, <1>4, <1>7
<1>9. \A k \in WorkflowIDs : (Starting(k)' => Starting(k)) /\ (Creating(k)' => Creating(k))
  BY <1>7 DEF Starting, Creating
<1>10. TableHonest' /\ CopiesHonest'
  BY <1>1, <1>5, <1>8, <1>9, RecordsStayHonest DEF Advances
<1>11. RequestsSound'
  <2>1. \A q \in Req : /\ req'[q].id = req[q].id /\ req'[q].new = req[q].new
                       /\ req'[q].pc = req[q].pc
    BY <1>7
  <2>2. \A q \in Req : RequestSound(q)'
    BY <1>1, <2>1 DEF Inv, RequestsSound, RequestSound, Stored
  <2>3. QED BY <2>1, <2>2 DEF Inv, RequestsSound
<1>12. EventsSound' /\ ExecutionsSound'
  BY <1>1 DEF Inv, EventsSound, ExecutionsSound, Stored
<1>13. QED BY <1>10, <1>11, <1>12 DEF Inv
-----------------------------------------------------------------------------
(***************************************************************************)
(* The theorems.                                                           *)
(***************************************************************************)

\* The invariant holds at first: nothing is stored, nothing runs.
LEMMA InitInv == Init => Inv
<1> SUFFICES ASSUME Init PROVE Inv OBVIOUS
<1> USE DEF Init
<1>1. NewWorkflow(NoID) \in Workflow /\ IdleRequest \in Request
  BY NewWorkflowType, IdleRequestType
<1>2. TypeOK
  BY <1>1 DEF TypeOK, ExecutionState
<1>3. /\ IdleRequest.id = NoID /\ IdleRequest.new = NoID /\ IdleRequest.pc = "idle"
  BY DEF IdleRequest
<1>4. TableHonest
  BY <1>3 DEF TableHonest, Honest, Supports, NewWorkflow, ResolvesItself, Creating
<1>5. CopiesHonest BY <1>3 DEF CopiesHonest
<1>6. RequestsSound BY <1>3 DEF RequestsSound, RequestSound, StartPC
<1>7. EventsSound /\ ExecutionsSound BY DEF EventsSound, ExecutionsSound
<1>8. QED BY <1>2, <1>4, <1>5, <1>6, <1>7 DEF Inv

\* Every step keeps the invariant.
LEMMA NextInv == Inv /\ [Next]_vars => Inv'
<1> SUFFICES ASSUME Inv, [Next]_vars PROVE Inv' OBVIOUS
<1>0. TypeOK' BY TypeStep
<1>1. ASSUME NEW r \in Req,
             \/ StartWorkflow(r) \/ GetWorkflowByID(r) \/ CancelWorkflow(r)
             \/ ResolveWorkflowByID(r) \/ ResumeWorkflowByID(r)
      PROVE  Inv'
  BY <1>0, <1>1, StartWorkflowStep, EndpointStep
<1>2. ASSUME NEW r \in Req, Continue(r) PROVE Inv'
  BY <1>0, <1>2, UpdateWorkflowStep, StartExecutionStep, DeleteStep, HistoryStep,
     SummaryStep, StopExecutionStep, ResumeChecksStep, RetryWorkflowStep DEF Continue
<1>3. ASSUME NEW r \in Req, ResendPut(r) \/ Abandon(r) PROVE Inv'
  BY <1>0, <1>3, UpdateWorkflowStep, ReturnStep DEF Abandon
<1>4. ASSUME NEW evt \in Event, HandleHistoryEvent(evt) \/ DropEvent(evt) PROVE Inv'
  BY <1>0, <1>4, ConsumerStep
<1>5. ASSUME NEW i \in WorkflowIDs,
             ExecutionRuns(i) \/ ExecutionEnds(i) \/ FiveMinutesPass(i)
      PROVE  Inv'
  BY <1>0, <1>5, ExecutionStep, TimeStep
<1>6. CASE UNCHANGED vars
  BY <1>6 DEF vars, Inv, TypeOK, TableHonest, CopiesHonest, Honest, Supports, Starting,
              Creating, RequestsSound, RequestSound, EventsSound, ExecutionsSound, Stored
<1>7. QED BY <1>1, <1>2, <1>3, <1>4, <1>5, <1>6 DEF Next

\* Every record in the table and in the handlers stays honest about SFN,
\* for any number of workflows, requests and faults.
THEOREM InvHolds == Spec => []Inv
BY InitInv, NextInv, PTL DEF Spec

\* The stored status is never ahead of SFN and never wrong about an end.
THEOREM StatusIsTruthful == Spec => []StatusTruthful
<1>1. Inv => StatusTruthful BY DEF Inv, TableHonest, Honest, StatusTruthful
<1>2. QED BY <1>1, InvHolds, PTL

\* A workflow stored as succeeded or cancelled is stored as resolved.
THEOREM FinishedIsResolved == Spec => []ResolvedWhenFinished
<1>1. Inv => ResolvedWhenFinished
  BY DEF Inv, TableHonest, Honest, ResolvedWhenFinished
<1>2. QED BY <1>1, InvHolds, PTL

\* A retry exists only of a workflow whose execution has ended.
THEOREM RetriesFollowTheEnd == Spec => []RetryAfterEnd
<1>1. Inv => RetryAfterEnd BY DEF Inv, TableHonest, Honest, RetryAfterEnd
<1>2. QED BY <1>1, InvHolds, PTL

\* As long as an error of StartExecution means that nothing was started,
\* every execution has its workflow in the table.
THEOREM ExecutionsAreTracked ==
    ASSUME "ambiguousStart" \notin Faults
    PROVE  Spec => []NoUntrackedExecutions
<1>1. Inv => NoUntrackedExecutions
  BY DEF Inv, ExecutionsSound, NoUntrackedExecutions
<1>2. QED BY <1>1, InvHolds, PTL
-----------------------------------------------------------------------------
(***************************************************************************)
(* Who takes a workflow out of a terminal status.  SaveWorkflow writes     *)
(* "queued" too; that it never writes over a finished workflow needs one   *)
(* more invariant.                                                         *)
(***************************************************************************)

\* Before SaveWorkflow there is no status to lose.
FreshIsQueued == \A i \in WorkflowIDs : life[i] = "fresh" => table[i].status = "queued"

\* What a step may do to the status of i.
StatusStep(i) ==
    \/ table'[i].status = table[i].status
    \/ table'[i].status \in TerminalStates
    \/ table[i].status \notin TerminalStates
    \/ life[i] = "fresh" /\ life'[i] = "stored" /\ table'[i].status = "queued"
    \/ \E r \in Req : /\ req[r].pc \in PutPC /\ req[r].id = i
                      /\ req[r].wf.status = table'[i].status

\* A put gives the item the status of the handler's copy.
LEMMA PutStatus ==
    ASSUME Inv, NEW r \in Req, req[r].pc \in PutPC, Put(req[r].id, req[r].wf)
    PROVE  /\ req[r].id \in WorkflowIDs
           /\ life[req[r].id] # "fresh"
           /\ table'[req[r].id].status = req[r].wf.status
           /\ \A k \in WorkflowIDs \ {req[r].id} : table'[k] = table[k]
<1>1. req[r].id \in WorkflowIDs /\ req[r].wf \in Workflow /\ life[req[r].id] # "fresh"
  BY CopyFacts, RequestFacts DEF PutPC
<1>2. PICK item \in StoredForms(req[r].wf) : table' = [table EXCEPT ![req[r].id] = item]
  BY DEF Put
<1>3. item.status = req[r].wf.status
  BY <1>1, StoredFormsType
<1>4. table \in [WorkflowIDs -> Workflow]
  BY DEF Inv, TypeOK
<1> QED
  BY <1>1, <1>2, <1>3, <1>4

\* SaveWorkflow writes a queued workflow where there was none.
LEMMA SaveStatus ==
    ASSUME Inv, NEW n \in WorkflowIDs, NEW original, SaveWorkflow(n, original)
    PROVE  /\ life[n] = "fresh" /\ life'[n] = "stored" /\ table'[n].status = "queued"
           /\ \A k \in WorkflowIDs \ {n} : table'[k] = table[k] /\ life'[k] = life[k]
BY DEF Inv, TypeOK, SaveWorkflow, NewWorkflow

\* The consumer leaves a terminal status alone, or replaces it by one.
LEMMA ConsumerStatus ==
    ASSUME Inv, NEW evt \in Event, HandleHistoryEvent(evt)
    PROVE  /\ UNCHANGED life
           /\ \A k \in WorkflowIDs :
                 \/ table'[k] = table[k]
                 \/ /\ life[k] # "fresh"
                    /\ \/ table'[k].status \in TerminalStates
                       \/ table[k].status \notin TerminalStates
<1> DEFINE i == evt[1]
           st == StatusOfEvent(evt)
<1>1. i \in WorkflowIDs
  BY DEF Event
<1>2. table \in [WorkflowIDs -> Workflow]
  BY DEF Inv, TypeOK
<1>3. UpdateWorkflowAttributes(i, st) /\ UNCHANGED life
  BY DEF HandleHistoryEvent
<1> HIDE DEF i, st
<1>4. CASE UNCHANGED table
  BY <1>3, <1>4
<1>5. CASE /\ Stored(i) /\ (st \in TerminalStates \/ table[i].status \notin TerminalStates)
           /\ table' = [table EXCEPT ![i].status = st,
                                     ![i].resolved = @ \/ ResolvesItself(st)]
  <2>1. table[i] \in Workflow
    BY <1>1, <1>2
  <2>2. table'[i] = [table[i] EXCEPT !.status = st,
                                     !.resolved = @ \/ ResolvesItself(st)]
    BY <1>1, <1>2, <1>5
  <2>3. table'[i].status = st
    BY <2>1, <2>2 DEF Workflow
  <2>4. \A k \in WorkflowIDs \ {i} : table'[k] = table[k]
    BY <1>2, <1>5
  <2> QED
    BY <1>3, <1>5, <2>3, <2>4 DEF Stored
<1> QED
  BY <1>3, <1>4, <1>5 DEF UpdateWorkflowAttributes

\* Every step obeys the rule.
LEMMA StatusSteps ==
    ASSUME Inv, [Next]_vars
    PROVE  /\ \A i \in WorkflowIDs : StatusStep(i)
           /\ \A i \in WorkflowIDs : life'[i] = "fresh"
                  => life[i] = "fresh" /\ table'[i].status = table[i].status
<1> DEFINE Goal == /\ \A i \in WorkflowIDs : StatusStep(i)
                   /\ \A i \in WorkflowIDs : life'[i] = "fresh"
                          => life[i] = "fresh" /\ table'[i].status = table[i].status
<1>0. TypeOK
  BY DEF Inv
<1>1. CASE UNCHANGED <<table, life>>
  BY <1>1 DEF StatusStep
<1>2. ASSUME NEW r \in Req, UpdateWorkflow(r) \/ ResendPut(r) PROVE Goal
  <2>1. CASE UNCHANGED table
    BY <1>2, <2>1 DEF StatusStep, UpdateWorkflow, ResendPut
  <2>2. CASE Put(req[r].id, req[r].wf)
    <3>1. req[r].pc \in PutPC /\ UNCHANGED life
      BY <1>2 DEF UpdateWorkflow, ResendPut
    <3> QED
      BY <2>2, <3>1, PutStatus DEF StatusStep
  <2> QED
    BY <1>2, <2>1, <2>2 DEF UpdateWorkflow, ResendPut
<1>3. ASSUME NEW n \in WorkflowIDs, NEW original, SaveWorkflow(n, original) PROVE Goal
  BY <1>3, SaveStatus DEF StatusStep
<1>4. ASSUME NEW r \in Req, StartWorkflow(r) \/ RetryWorkflow(r) PROVE Goal
  BY <1>1, <1>3, <1>4 DEF StartWorkflow, RetryWorkflow
<1>5. ASSUME NEW r \in Req, DeleteWorkflowByID(r) PROVE Goal
  BY <1>0, <1>5 DEF DeleteWorkflowByID, StatusStep, TypeOK
<1>6. ASSUME NEW evt \in Event, HandleHistoryEvent(evt) PROVE Goal
  BY <1>6, ConsumerStatus DEF StatusStep
<1>7. ASSUME NEW i \in WorkflowIDs, FiveMinutesPass(i) PROVE Goal
  <2>1. \A k \in WorkflowIDs : table'[k].status = table[k].status
    BY <1>0, <1>7 DEF FiveMinutesPass, TypeOK, Workflow
  <2> QED
    BY <1>7, <2>1 DEF FiveMinutesPass, StatusStep
<1>8. ASSUME NEW r \in Req,
             \/ GetWorkflowByID(r) \/ CancelWorkflow(r) \/ ResolveWorkflowByID(r)
             \/ ResumeWorkflowByID(r) \/ StartExecution(r) \/ StartExecutionFails(r)
             \/ UpdateWorkflowHistory(r) \/ UpdateWorkflowSummary(r) \/ StopExecution(r)
             \/ AreDescendantWorkflowsDone(r) \/ FindJob(r) \/ RereadWorkflow(r) \/ Abandon(r)
      PROVE  UNCHANGED <<table, life>>
  BY <1>8 DEF GetWorkflowByID, CancelWorkflow, ResolveWorkflowByID, ResumeWorkflowByID,
     StartExecution, StartExecutionFails, UpdateWorkflowHistory, UpdateWorkflowSummary,
     StopExecution, AreDescendantWorkflowsDone, FindJob, RereadWorkflow, Abandon
<1>9. ASSUME NEW i \in WorkflowIDs, ExecutionRuns(i) \/ ExecutionEnds(i)
      PROVE  UNCHANGED <<table, life>>
  BY <1>9 DEF ExecutionRuns, ExecutionEnds
<1>10. ASSUME NEW evt \in Event, DropEvent(evt) PROVE UNCHANGED <<table, life>>
  BY <1>10 DEF DropEvent
<1>11. ASSUME UNCHANGED vars PROVE UNCHANGED <<table, life>>
  BY <1>11 DEF vars
<1> HIDE DEF Goal
<1>12. Goal
  <2>1. CASE UNCHANGED <<table, life>>
    BY <1>1, <2>1 DEF Goal
  <2>2. CASE \E r \in Req :
                \/ StartWorkflow(r) \/ GetWorkflowByID(r) \/ CancelWorkflow(r)
                \/ ResolveWorkflowByID(r) \/ ResumeWorkflowByID(r)
                \/ Continue(r) \/ ResendPut(r) \/ Abandon(r)
    BY <1>2, <1>4, <1>5, <1>8, <2>1, <2>2 DEF Continue
  <2>3. CASE \E evt \in Event : HandleHistoryEvent(evt) \/ DropEvent(evt)
    BY <1>6, <1>10, <2>1, <2>3
  <2>4. CASE \E i \in WorkflowIDs :
                ExecutionRuns(i) \/ ExecutionEnds(i) \/ FiveMinutesPass(i)
    BY <1>7, <1>9, <2>1, <2>4
  <2> QED
    BY <1>11, <2>1, <2>2, <2>3, <2>4 DEF Next
<1> QED
  BY <1>12 DEF Goal

\* A workflow that is not saved yet has no status but the first.
LEMMA FreshStaysQueued == Spec => []FreshIsQueued
<1>1. Init => FreshIsQueued
  BY DEF Init, FreshIsQueued, NewWorkflow
<1>2. Inv /\ FreshIsQueued /\ [Next]_vars => FreshIsQueued'
  BY StatusSteps DEF FreshIsQueued
<1> QED
  BY <1>1, <1>2, InvHolds, PTL DEF Spec

\* Whatever is delivered late or twice, only the put of an outdated copy takes
\* a workflow out of a terminal status.
THEOREM RegressionsAreStalePuts == Spec => OnlyStalePutsRegress
<1> DEFINE Regresses(i) ==
              table[i].status \in TerminalStates /\ table'[i].status \notin TerminalStates
           ByPut(i) == \E r \in Req : /\ req[r].pc \in PutPC
                                      /\ req[r].id = i
                                      /\ req[r].wf.status = table'[i].status
           Step == \A i \in WorkflowIDs : Regresses(i) => ByPut(i)
<1>1. Inv /\ FreshIsQueued /\ [Next]_vars => [Step]_vars
  <2> SUFFICES ASSUME Inv, FreshIsQueued, [Next]_vars,
                      NEW i \in WorkflowIDs, Regresses(i)
               PROVE  ByPut(i)
    OBVIOUS
  <2>1. StatusStep(i)
    BY StatusSteps
  <2>2. life[i] # "fresh"
    BY DEF FreshIsQueued, TerminalStates
  <2> QED
    BY <2>1, <2>2 DEF StatusStep
<1> QED
  BY <1>1, InvHolds, FreshStaysQueued, PTL DEF Spec, OnlyStalePutsRegress
=============================================================================
