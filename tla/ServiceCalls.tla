------------------------------ MODULE ServiceCalls ------------------------------
(***************************************************************************)
(* Calls of the Go client to the service, end to end: the client with its  *)
(* retries, its timeout and its circuit breaker; a network that loses      *)
(* requests and answers; the router, the generated handlers and the        *)
(* TimeoutHandler of the service; and the Handler behind them, on the      *)
(* tables of definitions (DefinitionStore), the table of state resources   *)
(* and the search index (WorkflowSearch).  What the Handler does with a    *)
(* workflow is the subject of WorkflowManager; here such an operation has  *)
(* an outcome and may have had an effect.                                  *)
(*                                                                         *)
(* A call is one invocation of a client method.  It makes one request or   *)
(* more, and a request may go on when its call has long returned.          *)
(***************************************************************************)
EXTENDS Endpoints, WorkflowSearch

CONSTANTS Caller,      \* goroutines that use the client
          Req,         \* requests the service handles at the same time
          NoItem,      \* no definition, no state resource
          MaxVersion,  \* bound on the versions of a definition
          Faults,      \* what DynamoDB and the processes may do
          Backoffs,    \* how many retries the retry policy allows
          Workloads    \* what the callers ask for, and of what client

VARIABLES work,      \* what the callers ask for in this behaviour
          call,      \* what each caller is doing
          serve,     \* what each request handler is doing
          circuit,   \* the circuit breaker: "debug", "closed" or "open"
          resource,  \* the state resource: who wrote its URI
          index,     \* the workflows that match the query in the search index
          iter,      \* the iterator of each caller
          versions, latest, req, acked   \* see DefinitionStore

\* Every caller writes definitions of its own.
Store == INSTANCE DefinitionStore WITH Content <- Caller

ASSUME ServiceCallsAssumption ==
    /\ Caller # {}
    /\ Backoffs \in Nat
    /\ MaxVersion \in Nat
    /\ NoItem \notin Store!Item
    /\ Workloads \subseteq [asks : [Caller -> SUBSET (Op \X Defect)],
                           circuit : {"debug", "closed"}]

storeVars == <<versions, latest, req, acked>>
callVars  == <<work, call, circuit, iter>>
vars      == <<work, call, serve, circuit, resource, index, iter,
               versions, latest, req, acked>>

ErrorType == {"BadRequest", "NotFound", "Conflict", "InternalError"}

(***************************************************************************)
(* A call is idle, about to send a request, or waiting for the answer.     *)
(* Its answer is "ok", a declared error, or                                *)
(*   "refused"    the client sends no such request                         *)
(*   "transport"  the connection, the answer or the patience was lost      *)
(*   "circuit"    the circuit breaker's error                              *)
(*   "decode"     the body is not what the status code promises            *)
(*   "unavailable", "unknown"   an UnknownResponse, 503 or another one     *)
(* `version' is the version told with "ok"; `effects' counts the changes   *)
(* made by the requests of the call before it returned.                    *)
(***************************************************************************)
Answer == {"none", "ok", "refused", "transport", "circuit", "decode",
           "unavailable", "unknown"} \cup ErrorType

Call == [pc : {"idle", "send", "wait"}, op : Op, defect : Defect, tries : Nat,
         answer : Answer, version : Int, effects : Nat]

\* The pages of the router that belong to no operation.
NoRoute == {"404 page", "405 page"}

(***************************************************************************)
(* A request is at the router or with the Handler.  Its call is waiting    *)
(* for it ("live"), goes on without it ("late": the TimeoutHandler has     *)
(* answered in its place), or has returned ("lost").                       *)
(***************************************************************************)
Request == [pc : {"free", "routed", "store"}, caller : Caller, op : Op \cup NoRoute,
            defect : Defect, bond : {"live", "late", "lost"}]

Idle == [pc |-> "idle", op |-> "HealthCheck", defect |-> "none", tries |-> 0,
         answer |-> "none", version |-> -1, effects |-> 0]

Someone == CHOOSE c \in Caller : TRUE

Free == [pc |-> "free", caller |-> Someone, op |-> "HealthCheck", defect |-> "none",
         bond |-> "lost"]

Init ==
    /\ work \in Workloads
    /\ call = [c \in Caller |-> Idle]
    /\ serve = [r \in Req |-> Free]
    /\ circuit = work.circuit
    /\ resource = NoItem
    /\ index = {}
    /\ iter = [c \in Caller |-> Fail(NewGetWorkflowsIter(FALSE, {}))]
    /\ Store!Init
-----------------------------------------------------------------------------
(***************************************************************************)
(* The client.                                                             *)
(***************************************************************************)

\* The inputs that can have a defect.
HasBody == {"PostStateResource", "PutStateResource", "NewWorkflowDefinition",
            "UpdateWorkflowDefinition", "StartWorkflow", "CancelWorkflow",
            "ResumeWorkflowByID"}
Defines == {"NewWorkflowDefinition", "UpdateWorkflowDefinition"}

Possible(op) ==
    {d \in Defect :
        /\ d \in {"noPath", "slash"} => "noPath" \in Client[op].refuses
        /\ d = "noBody" => op \in HasBody
        /\ d \in {"incomplete", "rejected"} => op \in Defines \cup {"StartWorkflow"}
        /\ d = "invalid" => op \in Defines \cup {"GetWorkflows"}
        /\ d = "mismatch" => op \in {"PutStateResource", "UpdateWorkflowDefinition"}}

\* Mutant: the method is not looked at.
RetryAnyMethod(op, status) == status >= 500

\* RetryPolicy.Retry of the policies that retry: no POST, and 5xx only.
Retry(op, status) == Client[op].method \notin {"POST", "PATCH"} /\ status >= 500

TypeOfStatus(status) ==
    CASE status = 400 -> "BadRequest"
      [] status = 404 -> "NotFound"
      [] status = 409 -> "Conflict"
      [] status = 500 -> "InternalError"

\* Mutant: an unknown status code is returned as an error of no type.
DecodeRaw(op, resp) ==
    IF circuit # "debug" /\ resp.status >= 500 THEN "circuit"
    ELSE CASE resp.status = Client[op].success -> "ok"
           [] resp.status \in Client[op].errors -> TypeOfStatus(resp.status)
           [] OTHER -> "error"

\* What doRequest makes of a response.  A body is the result of an operation,
\* an error in JSON, or text.
Decode(op, resp) ==
    IF circuit # "debug" /\ resp.status >= 500 THEN "circuit"
    ELSE CASE resp.status = Client[op].success -> IF resp.body = op THEN "ok" ELSE "decode"
           [] resp.status \in Client[op].errors -> IF resp.body = "error"
                                                   THEN TypeOfStatus(resp.status)
                                                   ELSE "decode"
           [] resp.status = 503 -> "unavailable"
           [] OTHER -> "unknown"

\* Mutant: the retries are not counted.
ReceivedForever(c, resp, version) ==
    IF Retry(call[c].op, resp.status)
    THEN [call[c] EXCEPT !.pc = "send"]
    ELSE LET answer == Decode(call[c].op, resp) IN
         [call[c] EXCEPT !.pc = "idle", !.answer = answer,
                         !.version = IF answer = "ok" THEN version ELSE -1]

\* retryDoer.Do has a response: the call sends its request again, or returns.
Received(c, resp, version) ==
    IF Retry(call[c].op, resp.status) /\ call[c].tries < Backoffs
    THEN [call[c] EXCEPT !.pc = "send", !.tries = @ + 1]
    ELSE LET answer == Decode(call[c].op, resp) IN
         [call[c] EXCEPT !.pc = "idle", !.answer = answer,
                         !.version = IF answer = "ok" THEN version ELSE -1]

Return(c, answer) == call' = [call EXCEPT ![c].pc = "idle", ![c].answer = answer]

\* The requests of a call that returns may go on; they are nobody's.
Orphaned(c, slots) ==
    [r \in Req |-> IF slots[r].caller = c THEN [slots[r] EXCEPT !.bond = "lost"]
                                          ELSE slots[r]]

\* An error ends an iteration.
FailIter(c) ==
    iter' = IF call[c].op = "GetWorkflows" THEN [iter EXCEPT ![c] = Fail(@)]
                                           ELSE iter

(***************************************************************************)
(* A client method is called.  GetWorkflows goes on with the next page of  *)
(* the caller's iteration, or begins another.                              *)
(***************************************************************************)
Invoke(c) ==
    /\ call[c].pc = "idle"
    /\ \E ask \in work.asks[c] :
          LET op == ask[1]
              d  == ask[2]
              refused == d \in Client[op].refuses
              blocked == circuit = "open"
          IN  /\ d \in Possible(op)
              /\ call' = [call EXCEPT ![c] =
                     [Idle EXCEPT
                         !.pc = IF refused \/ blocked THEN "idle" ELSE "send",
                         !.op = op, !.defect = d,
                         !.answer = IF refused THEN "refused"
                                    ELSE IF blocked THEN "circuit" ELSE "none"]]
    /\ IF call'[c].op # "GetWorkflows" \/ iter[c].state = "open"
       THEN UNCHANGED iter
       ELSE \E oldestFirst \in BOOLEAN :
               iter' = [iter EXCEPT ![c] = NewGetWorkflowsIter(oldestFirst, index)]
    /\ UNCHANGED <<work, serve, circuit, resource, index, storeVars>>

\* The routes that a path with a slash too many may match.
Misrouted(op) ==
    CASE op = "GetWorkflowDefinitionVersionsByName" ->
             {"GetWorkflowDefinitionByNameAndVersion", "404 page"}
      [] op = "UpdateWorkflowDefinition" -> NoRoute
      [] op = "ResumeWorkflowByID" -> {"ResolveWorkflowByID", "404 page"}
      [] op \in {"CancelWorkflow", "GetWorkflowByID"} -> NoRoute
      [] OTHER -> {"404 page"}

\* newRouter: the operation whose method and path match.
Routes(op, defect) == IF defect = "slash" THEN Misrouted(op) ELSE {op}

\* A request is sent, for the first time or after a backoff, and arrives.
Send(c) ==
    /\ call[c].pc = "send"
    /\ \E r \in Req : \E route \in Routes(call[c].op, call[c].defect) :
          /\ serve[r].pc = "free"
          /\ serve' = [serve EXCEPT ![r] =
                 [pc |-> "routed", caller |-> c, op |-> route,
                  defect |-> call[c].defect, bond |-> "live"]]
    /\ call' = [call EXCEPT ![c].pc = "wait"]
    /\ UNCHANGED <<work, circuit, resource, index, iter, storeVars>>

(***************************************************************************)
(* The connection fails, or the client's timeout expires: it covers all    *)
(* the requests of the call.  Neither is retried.                          *)
(***************************************************************************)
TransportError(c) ==
    /\ call[c].pc \in {"send", "wait"}
    /\ Return(c, "transport")
    /\ serve' = Orphaned(c, serve)
    /\ FailIter(c)
    /\ UNCHANGED <<work, circuit, resource, index, storeVars>>

\* hystrix opens the circuit after too many errors, and tries again later.  In
\* debug mode, the default, it is told of the errors but cannot stop a call.
Trip ==
    /\ circuit # "debug"
    /\ circuit' = IF circuit = "open" THEN "closed" ELSE "open"
    /\ UNCHANGED <<work, call, serve, resource, index, iter, storeVars>>
-----------------------------------------------------------------------------
(***************************************************************************)
(* The service.                                                            *)
(***************************************************************************)
Response(status, body) == [status |-> status, body |-> body]

\* Mutant: every error is taken for the client's fault.
FailureIsBadRequest(op, err) ==
    Response(IF err = "NotFound" THEN 404 ELSE 400, "error")

\* The code of an error of the Handler; a type that the operation does not
\* declare is sent as an InternalError.
Failure(op, err) ==
    Response(IF err \notin Server[op].declares THEN 500
             ELSE CASE err = "BadRequest" -> 400
                    [] err = "NotFound"   -> 404
                    [] err = "Conflict"   -> 409
                    [] OTHER              -> 500, "error")

Success(op) == Response(Server[op].success, op)

(***************************************************************************)
(* Request r is answered and done, having made `effect' changes.  The      *)
(* answer reaches the call that waits for it, and nobody otherwise.        *)
(***************************************************************************)
Finish(r, resp, version, effect) ==
    LET c     == serve[r].caller
        after == IF serve[r].bond = "live" THEN Received(c, resp, version) ELSE call[c]
        freed == [serve EXCEPT ![r] = Free]
    IN  /\ call' = [call EXCEPT ![c] =
              IF serve[r].bond = "lost" THEN @ ELSE [after EXCEPT !.effects = @ + effect]]
        /\ serve' = IF serve[r].bond = "live" /\ after.pc = "idle"
                    THEN Orphaned(c, freed) ELSE freed

\* As above; an error ends an iteration.
Respond(r, resp, version, effect) ==
    LET c == serve[r].caller IN
    /\ Finish(r, resp, version, effect)
    /\ IF /\ serve[r].bond = "live"
          /\ call'[c].pc = "idle"
          /\ call'[c].answer # "ok"
       THEN FailIter(c)
       ELSE UNCHANGED iter

\* A request that is not done yet made a change.
CountEffect(r) ==
    call' = [call EXCEPT ![serve[r].caller].effects =
                 IF serve[r].bond = "lost" THEN @ ELSE @ + 1]

\* http.TimeoutHandler answers in place of a handler, which goes on.
TimeoutHandler(r) ==
    /\ serve[r].pc # "free"
    /\ serve[r].bond = "live"
    /\ LET c == serve[r].caller
           after == Received(c, Response(503, "text"), -1)
           late == [serve EXCEPT ![r].bond = "late"]
       IN  /\ call' = [call EXCEPT ![c] = after]
           /\ IF after.pc = "idle" THEN serve' = Orphaned(c, late) /\ FailIter(c)
                                   ELSE serve' = late /\ UNCHANGED iter
    /\ UNCHANGED <<work, circuit, resource, index, storeVars>>

\* The router has no operation for the method and the path.
Unrouted(r) ==
    /\ serve[r].pc = "routed"
    /\ serve[r].op \in NoRoute
    /\ Respond(r, Response(IF serve[r].op = "404 page" THEN 404 ELSE 405, "text"), -1, 0)
    /\ UNCHANGED <<work, circuit, resource, index, storeVars>>

\* newInput or Validate fails; so does the part of a name after the slash, if
\* it is not the number of a version.
Reject(r) ==
    /\ serve[r].pc = "routed"
    /\ \/ /\ serve[r].op \in Op
          /\ serve[r].defect \in Server[serve[r].op].rejects
       \/ /\ serve[r].op = "GetWorkflowDefinitionByNameAndVersion"
          /\ serve[r].defect = "slash"
    /\ Respond(r, Response(400, "error"), -1, 0)
    /\ UNCHANGED <<work, circuit, resource, index, storeVars>>

\* The Handler dereferences a pointer that is nil.
Dereferences(op) ==
    {d \in {"noBody", "incomplete"} :
        \/ d = "noBody" /\ op \in {"PostStateResource", "PutStateResource",
                                  "NewWorkflowDefinition", "StartWorkflow"}
        \/ d = "incomplete" /\ op \in Defines \cup {"StartWorkflow"}}

\* PanicMiddleware logs the panic and goes on with it: the server closes the
\* connection.  A panic after the TimeoutHandler has answered is dropped.
Panic(r) ==
    LET c == serve[r].caller
        freed == [serve EXCEPT ![r] = Free]
    IN  /\ serve[r].pc = "routed"
        /\ serve[r].defect \in Dereferences(serve[r].op)
        /\ IF serve[r].bond = "live"
           THEN Return(c, "transport") /\ serve' = Orphaned(c, freed) /\ FailIter(c)
           ELSE UNCHANGED <<call, iter>> /\ serve' = freed
        /\ UNCHANGED <<work, circuit, resource, index, storeVars>>

\* The Handler's own checks.  StartWorkflow looks for the definition first.
Refuse(r) ==
    /\ serve[r].pc = "routed"
    /\ \/ serve[r].defect \in {"mismatch", "rejected"}
       \/ serve[r].op = "UpdateWorkflowDefinition" /\ serve[r].defect = "noBody"
    /\ \E err \in CASE serve[r].op = "PutStateResource" -> {"BadRequest"}
                    [] serve[r].op = "StartWorkflow" -> {"NotFound", "error"}
                    [] OTHER -> {"error"} :
          Respond(r, Failure(serve[r].op, err), -1, 0)
    /\ UNCHANGED <<work, circuit, resource, index, storeVars>>

\* The request is with the Handler, and nothing is wrong with it.
Accepted(r, ops) ==
    /\ serve[r].pc = "routed"
    /\ serve[r].op \in ops
    /\ serve[r].defect \in {"none", "slash"}

\* Any call to DynamoDB, SFN or Elasticsearch may fail, whether the change it
\* was to make was made or not.
CallFails(r, effect) ==
    /\ "abandon" \in Faults
    /\ Respond(r, Failure(serve[r].op, "error"), -1, effect)

(***************************************************************************)
(* Operations on workflows: how they may end, and how many changes they    *)
(* have made by then.  An execution is the last thing that StartWorkflow   *)
(* and ResumeWorkflowByID start, and an input that is no JSON object is    *)
(* found out there: the workflow is saved by then, and the original put    *)
(* with its retry.  That put, and the put of CancelWorkflow after it has   *)
(* stopped the execution, may find the workflow gone.                      *)
(***************************************************************************)
Outcomes ==
    [HealthCheck         |-> {<<"ok", 0>>},
     StartWorkflow       |-> {<<"ok", 1>>, <<"NotFound", 0>>, <<"BadRequest", 1>>,
                              <<"error", 0>>, <<"error", 1>>},
     CancelWorkflow      |-> {<<"ok", 1>>, <<"NotFound", 0>>, <<"NotFound", 1>>,
                              <<"BadRequest", 0>>, <<"error", 0>>, <<"error", 1>>},
     GetWorkflowByID     |-> {<<"ok", 0>>, <<"NotFound", 0>>, <<"error", 0>>},
     ResumeWorkflowByID  |-> {<<"ok", 1>>, <<"NotFound", 0>>, <<"NotFound", 1>>,
                              <<"BadRequest", 1>>, <<"error", 0>>, <<"error", 1>>},
     ResolveWorkflowByID |-> {<<"ok", 1>>, <<"NotFound", 0>>, <<"Conflict", 0>>,
                              <<"error", 0>>, <<"error", 1>>}]

WorkflowOperation(r) ==
    /\ Accepted(r, DOMAIN Outcomes)
    /\ LET op == serve[r].op IN
       \E out \in Outcomes[op] :
          Respond(r, IF out[1] = "ok" THEN Success(op) ELSE Failure(op, out[1]), -1, out[2])
    /\ UNCHANGED <<work, circuit, resource, index, storeVars>>

(***************************************************************************)
(* State resources: one item, put without a condition and deleted on the   *)
(* condition that it exists.  When the answer to the deletion is lost the  *)
(* DynamoDB client sends it again, and finds nothing to delete.            *)
(***************************************************************************)
SaveStateResource(r) ==
    /\ Accepted(r, {"PostStateResource", "PutStateResource"})
    /\ \/ /\ resource' = serve[r].caller
          /\ \/ Respond(r, Success(serve[r].op), -1, 1)
             \/ CallFails(r, 1)
       \/ UNCHANGED resource /\ CallFails(r, 0)
    /\ UNCHANGED <<work, circuit, index, storeVars>>

GetStateResource(r) ==
    /\ Accepted(r, {"GetStateResource"})
    /\ \/ Respond(r, IF resource = NoItem THEN Failure(serve[r].op, "NotFound")
                                          ELSE Success(serve[r].op), -1, 0)
       \/ CallFails(r, 0)
    /\ UNCHANGED <<work, circuit, resource, index, storeVars>>

DeleteStateResource(r) ==
    /\ Accepted(r, {"DeleteStateResource"})
    /\ \/ /\ resource # NoItem
          /\ resource' = NoItem
          /\ \/ Respond(r, Success(serve[r].op), -1, 1)
             \/ "resend" \in Faults /\ Respond(r, Failure(serve[r].op, "NotFound"), -1, 1)
             \/ CallFails(r, 1)
       \/ /\ resource = NoItem
          /\ UNCHANGED resource
          /\ Respond(r, Failure(serve[r].op, "NotFound"), -1, 0)
       \/ UNCHANGED resource /\ CallFails(r, 0)
    /\ UNCHANGED <<work, circuit, index, storeVars>>
-----------------------------------------------------------------------------
(***************************************************************************)
(* Workflow definitions: the steps of DefinitionStore.                     *)
(***************************************************************************)
GetWorkflowDefinitions(r) ==
    /\ Accepted(r, {"GetWorkflowDefinitions"})
    /\ \/ Respond(r, Success(serve[r].op), -1, 0)
       \/ CallFails(r, 0)
    /\ UNCHANGED <<work, circuit, resource, index, storeVars>>

\* The latest definition or all versions of it, and one version of it.
GetWorkflowDefinitionVersions(r) ==
    /\ Accepted(r, {"GetWorkflowDefinitionVersionsByName",
                    "GetWorkflowDefinitionByNameAndVersion"})
    /\ \/ \E found \in IF serve[r].op = "GetWorkflowDefinitionVersionsByName"
                       THEN {latest # NoItem, DOMAIN versions # {}}
                       ELSE {(v \in DOMAIN versions) : v \in 0 .. MaxVersion} :
             Respond(r, IF found THEN Success(serve[r].op)
                                 ELSE Failure(serve[r].op, "NotFound"), -1, 0)
       \/ CallFails(r, 0)
    /\ UNCHANGED <<work, circuit, resource, index, storeVars>>

\* A definition is on its way to the store.
SaveDefinition(r) ==
    /\ \/ /\ Accepted(r, {"NewWorkflowDefinition"})
          /\ Store!NewWorkflowDefinition(r)
       \/ /\ Accepted(r, {"UpdateWorkflowDefinition"})
          /\ Store!UpdateWorkflowDefinition(r)
    /\ req'[r].item.def = serve[r].caller
    /\ serve' = [serve EXCEPT ![r].pc = "store"]
    /\ UNCHANGED <<callVars, resource, index>>

\* There is nothing to update, or the latest definition cannot be read.
UpdateFails(r) ==
    /\ Accepted(r, {"UpdateWorkflowDefinition"})
    /\ \/ latest = NoItem /\ Respond(r, Failure(serve[r].op, "NotFound"), -1, 0)
       \/ CallFails(r, 0)
    /\ UNCHANGED <<work, circuit, resource, index, storeVars>>

\* The Handler saves a definition, step by step.  A conflict is a type of the
\* store's own, which no operation declares.
SavingDefinition(r) ==
    /\ serve[r].pc = "store"
    /\ \/ /\ Store!SaveVersion(r)
          /\ IF req'[r].pc = "idle"
             THEN Respond(r, Failure(serve[r].op, "ConflictError"), -1,
                          IF versions' # versions THEN 1 ELSE 0)
             ELSE CountEffect(r) /\ UNCHANGED <<serve, iter>>
       \/ /\ Store!SaveLatest(r)
          /\ IF req'[r].pc = "idle"
             THEN Respond(r, Success(serve[r].op), req[r].item.version, 0)
             ELSE UNCHANGED <<call, serve, iter>>
       \/ Store!ResendLatest(r) /\ UNCHANGED <<call, serve, iter>>
       \/ /\ Store!GetWorkflowDefinition(r)
          /\ Respond(r, Success(serve[r].op), req[r].item.version, 0)
       \/ Store!Abandon(r) /\ CallFails(r, 0)
    /\ UNCHANGED <<work, circuit, resource, index>>
-----------------------------------------------------------------------------
(***************************************************************************)
(* The search.  The index follows the table of workflows from afar: a      *)
(* workflow begins to match the query, and ceases to, at any time.         *)
(***************************************************************************)
GetWorkflows(r) ==
    /\ Accepted(r, {"GetWorkflows"})
    /\ LET c == serve[r].caller IN
       \/ \E page \in Pages(index, iter[c].query) :
             /\ Finish(r, Success(serve[r].op), -1, 0)
             /\ iter' = IF serve[r].bond = "live"
                        THEN [iter EXCEPT ![c] = Refresh(@, page)] ELSE iter
       \/ CallFails(r, 0)
    /\ UNCHANGED <<work, circuit, resource, index, storeVars>>

Index(w) ==
    /\ \E c \in Caller : <<"GetWorkflows", "none">> \in work.asks[c]
    /\ index' = IF w \in index THEN index \ {w} ELSE index \cup {w}
    /\ iter' = [c \in Caller |-> [iter[c] EXCEPT !.all = @ \cap index']]
    /\ UNCHANGED <<work, call, serve, circuit, resource, storeVars>>
-----------------------------------------------------------------------------
Handle(r) ==
    \/ Unrouted(r) \/ Reject(r) \/ Panic(r) \/ Refuse(r)
    \/ WorkflowOperation(r)
    \/ SaveStateResource(r) \/ GetStateResource(r) \/ DeleteStateResource(r)
    \/ GetWorkflowDefinitions(r) \/ GetWorkflowDefinitionVersions(r)
    \/ SaveDefinition(r) \/ UpdateFails(r) \/ SavingDefinition(r)
    \/ GetWorkflows(r)

Next ==
    \/ \E c \in Caller : Invoke(c) \/ Send(c) \/ TransportError(c)
    \/ Trip
    \/ \E r \in Req : Handle(r) \/ TimeoutHandler(r)
    \/ \E w \in Workflow : Index(w)

(***************************************************************************)
(* The client does not stop between two requests of a call, and the timer  *)
(* of the TimeoutHandler runs.  Neither a handler nor a client has to be   *)
(* fast: nothing is asked of the timeout of the client (5 s by default).   *)
(***************************************************************************)
Fairness ==
    /\ \A c \in Caller : WF_vars(Send(c) \/ (call[c].pc = "send" /\ TransportError(c)))
    /\ \A r \in Req : WF_vars(TimeoutHandler(r))

Spec == Init /\ [][Next]_vars /\ Fairness
-----------------------------------------------------------------------------
(***************************************************************************)
(* Properties.                                                             *)
(***************************************************************************)

\* Every variable has its type.
TypeOK ==
    /\ work \in Workloads
    /\ call \in [Caller -> Call]
    /\ serve \in [Req -> Request]
    /\ circuit \in {"debug", "closed", "open"}
    /\ resource \in Caller \cup {NoItem}
    /\ index \subseteq Workflow
    /\ iter \in [Caller -> Iterator]
    /\ Store!TypeOK

\* A client that is told that its definition is version v finds its own words
\* under v, whichever of the requests of the call was the one that answered.
ToldIsStored ==
    \A c \in Caller :
        call[c].op \in Defines /\ call[c].answer = "ok"
            => /\ call[c].version \in DOMAIN versions
               /\ versions[call[c].version] = c

\* A POST starts one workflow, resolves one, saves one definition: whatever
\* the service answers or fails to answer, the client does not repeat it.
PostTakesEffectOnce ==
    \A c \in Caller : Client[call[c].op].method = "POST" => call[c].effects <= 1

\* The refusals that the Handler may find a reason for when it has made a
\* change, or when another request of the same call has.
RefusedLate(op, err) ==
    \/ op \in {"DeleteStateResource", "ResumeWorkflowByID"}
    \/ op = "StartWorkflow" /\ err = "BadRequest"
    \/ op = "CancelWorkflow" /\ err = "NotFound"

\* "BadRequest", "NotFound" and "Conflict" mean that nothing has happened:
\* always for definitions, for state resources that are put and for workflows
\* that are resolved, and for "NotFound" of StartWorkflow and "BadRequest" of
\* CancelWorkflow.  Not so for the refusals that come late, above, nor when
\* the cancellation of a workflow is retried.
RefusedHasNoEffect ==
    \A c \in Caller :
        call[c].answer \in ErrorType \ {"InternalError"} /\ call[c].effects > 0
            => \/ RefusedLate(call[c].op, call[c].answer)
               \/ call[c].op = "CancelWorkflow" /\ call[c].tries > 0

\* Whatever the Handler answers, the client understands: the body fits the
\* status code, and the code is one it knows.  Only two answers do not come
\* from the Handler, the 503 of the TimeoutHandler and the pages of the
\* router, and a path with a slash may reach the handler of another operation.
AnswersUnderstood ==
    \A c \in Caller :
        call[c].answer \in {"decode", "unknown"} => call[c].defect = "slash"

\* An iteration returns no workflow twice, whatever is indexed meanwhile and
\* however often a page has to be asked for again.
NothingListedTwice ==
    \A c \in Caller : IsInjective(iter[c].seen)

\* An iteration that ends without an error has returned every workflow that
\* matched from its beginning to its end, but for those of the very
\* millisecond of another one: a page may end between them.
OnlyTiesSkipped ==
    \A c \in Caller : iter[c].state = "exhausted" =>
        \A w \in iter[c].all : \E u \in Range(iter[c].seen) : CreatedAt[u] = CreatedAt[w]

\* Every call returns: the retries come to an end, and each request is
\* answered by the TimeoutHandler if by nobody else.
EveryCallReturns ==
    \A c \in Caller : call[c].pc # "idle" ~> call[c].pc = "idle"
-----------------------------------------------------------------------------
(***************************************************************************)
(* The inductive invariant.                                                *)
(***************************************************************************)

\* The operations that change something.
Changes == Defines \cup {"PostStateResource", "PutStateResource", "DeleteStateResource",
                         "StartWorkflow", "CancelWorkflow", "ResumeWorkflowByID",
                         "ResolveWorkflowByID"}

\* What k, the record of a call of c, may be, given all versions and the
\* latest one: as long as its first request is its only one, that one has made
\* its changes, and it makes one at most; and the answer is right.
CallRight(c, k, all, last) ==
    /\ k.pc # "idle" => k.answer = "none"
    /\ k.tries > 0 => Client[k.op].method # "POST"
    /\ k.tries = 0 => /\ k.effects <= 1
                      /\ k.pc = "send" => k.effects = 0
                      /\ k.pc = "wait" /\ k.op \notin Defines => k.effects = 0
    /\ k.effects > 0 => /\ k.op \in Changes
                        /\ k.defect \in {"none", "slash"}
                        /\ k.defect = "slash" => k.op = "ResumeWorkflowByID"
                        /\ k.op = "UpdateWorkflowDefinition" => last # NoItem
    /\ k.op \in Defines /\ k.answer = "ok" => k.version \in DOMAIN all /\ all[k.version] = c
    /\ k.answer \in ErrorType \ {"InternalError"} /\ k.effects > 0
           => \/ RefusedLate(k.op, k.answer)
              \/ k.op = "CancelWorkflow" /\ k.tries > 0
    /\ k.answer \in {"decode", "unknown"} => k.defect = "slash"

\* A request has changed nothing so far.
Unspent(s, q) == s.pc = "routed" \/ q.pc = "version"

\* A request s that its call k still knows is for the operation of the call,
\* or the one a slash has led to, and another one was sent if it is late.
BondRight(s, q, k) ==
    /\ s.bond # "lost" => s.pc # "free" /\ s.defect = k.defect /\ s.op \in Routes(k.op, k.defect)
    /\ s.bond = "live" => /\ k.pc = "wait"
                          /\ Unspent(s, q) /\ k.tries = 0 => k.effects = 0
    /\ s.bond = "late" => k.pc # "idle" /\ k.tries > 0

\* What request s of the Handler has to do with its request q to the store.
SaveRight(s, q, all, last) ==
    /\ q.pc # "idle" <=> s.pc = "store"
    /\ q.pc # "idle" => /\ s.op \in Defines /\ s.defect \in {"none", "slash"}
                        /\ s.op = "UpdateWorkflowDefinition" => last # NoItem
                        /\ q.item \in Store!Item /\ q.item.version <= MaxVersion
                        /\ q.item.def = s.caller
    /\ q.pc \in {"latest", "get"} => Store!Saved(q.item, all)

\* A call waits for one request at most.
OneLive(slots) ==
    \A r, q \in Req :
        slots[r].bond = "live" /\ slots[q].bond = "live" /\ slots[r].caller = slots[q].caller
            => r = q

\* An iteration has seen nothing behind its token, and of what was found all
\* the time it has yet to see what is behind the token, and nothing else but
\* ties.
SearchRight(it, found) ==
    LET seen == Range(it.seen)
        Tied(w) == \E u \in seen : CreatedAt[u] = CreatedAt[w]
    IN  /\ it.all \subseteq found
        /\ \A w \in seen : /\ it.query.after # NoToken
                           /\ ~Sooner(it.query.after, CreatedAt[w], it.query.oldestFirst)
        /\ \A w \in it.all : Tied(w) \/ w \in Eligible(found, it.query)
        /\ it.state = "exhausted" => \A w \in it.all : Tied(w)
        /\ IsInjective(it.seen)

\* The invariant as a whole.
Inv ==
    /\ TypeOK
    /\ \A c \in Caller : CallRight(c, call[c], versions, latest) /\ SearchRight(iter[c], index)
    /\ \A r \in Req : /\ BondRight(serve[r], req[r], call[serve[r].caller])
                      /\ SaveRight(serve[r], req[r], versions, latest)
    /\ OneLive(serve)
=============================================================================
