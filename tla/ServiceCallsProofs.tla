--------------------------- MODULE ServiceCallsProofs ---------------------------
(***************************************************************************)
(* Proofs about ServiceCalls, for any number of callers, of requests and   *)
(* of retries, and for every workload.                                     *)
(***************************************************************************)
EXTENDS ServiceCalls, FiniteSetTheorems, SequenceTheorems, TLAPS

-----------------------------------------------------------------------------
(***************************************************************************)
(* The tables of the client and of the server.                             *)
(***************************************************************************)

\* The operations, by name.
LEMMA OpNames ==
    Op = {"HealthCheck", "PostStateResource", "DeleteStateResource", "GetStateResource",
          "PutStateResource", "GetWorkflowDefinitions", "NewWorkflowDefinition",
          "GetWorkflowDefinitionVersionsByName", "UpdateWorkflowDefinition",
          "GetWorkflowDefinitionByNameAndVersion", "GetWorkflows", "StartWorkflow",
          "CancelWorkflow", "GetWorkflowByID", "ResumeWorkflowByID", "ResolveWorkflowByID"}
BY DEF Op, Client

\* The status codes that the client knows of an operation.
LEMMA ClientFacts ==
    ASSUME NEW op \in Op
    PROVE  /\ Client[op].success \in {200, 201}
           /\ Client[op].errors \subseteq {400, 404, 409, 500}
           /\ 400 \in Client[op].errors /\ 500 \in Client[op].errors
           /\ op \in Changes /\ Client[op].method # "POST"
                  => op \in {"PutStateResource", "UpdateWorkflowDefinition",
                             "DeleteStateResource", "CancelWorkflow"}
           /\ op = "ResumeWorkflowByID" => Client[op].method = "POST"
BY OpNames DEF Client, Route, Changes, Defines,
     ClientHealthCheck, ClientPostStateResource, ClientDeleteStateResource, ClientGetStateResource,
     ClientPutStateResource, ClientGetWorkflowDefinitions, ClientNewWorkflowDefinition,
     ClientGetWorkflowDefinitionVersionsByName, ClientUpdateWorkflowDefinition,
     ClientGetWorkflowDefinitionByNameAndVersion, ClientGetWorkflows, ClientStartWorkflow,
     ClientCancelWorkflow, ClientGetWorkflowByID, ClientResumeWorkflowByID, ClientResolveWorkflowByID

\* The server answers an operation with nothing that its client does not know.
LEMMA ServerFacts ==
    ASSUME NEW op \in Op
    PROVE  /\ Server[op].success = Client[op].success
           /\ Server[op].declares \subseteq ErrorType
           /\ "NotFound" \in Server[op].declares => 404 \in Client[op].errors
           /\ "Conflict" \in Server[op].declares => 409 \in Client[op].errors
<1> USE OpNames DEF Client, Route,
     ClientHealthCheck, ClientPostStateResource, ClientDeleteStateResource, ClientGetStateResource,
     ClientPutStateResource, ClientGetWorkflowDefinitions, ClientNewWorkflowDefinition,
     ClientGetWorkflowDefinitionVersionsByName, ClientUpdateWorkflowDefinition,
     ClientGetWorkflowDefinitionByNameAndVersion, ClientGetWorkflows, ClientStartWorkflow,
     ClientCancelWorkflow, ClientGetWorkflowByID, ClientResumeWorkflowByID, ClientResolveWorkflowByID
<1> USE DEF Server, Endpoint, Basic, Standard, ErrorType,
     HealthCheckHandler, PostStateResourceHandler, DeleteStateResourceHandler,
     GetStateResourceHandler, PutStateResourceHandler, GetWorkflowDefinitionsHandler,
     NewWorkflowDefinitionHandler, GetWorkflowDefinitionVersionsByNameHandler,
     UpdateWorkflowDefinitionHandler, GetWorkflowDefinitionByNameAndVersionHandler,
     GetWorkflowsHandler, StartWorkflowHandler, CancelWorkflowHandler, GetWorkflowByIDHandler,
     ResumeWorkflowByIDHandler, ResolveWorkflowByIDHandler
<1>1. Server[op].success = Client[op].success
  OBVIOUS
<1>2. Server[op].declares \subseteq ErrorType
  OBVIOUS
<1>3. "NotFound" \in Server[op].declares => 404 \in Client[op].errors
  OBVIOUS
<1>4. "Conflict" \in Server[op].declares => 409 \in Client[op].errors
  OBVIOUS
<1> QED
  BY <1>1, <1>2, <1>3, <1>4

-----------------------------------------------------------------------------
(***************************************************************************)
(* What the client makes of a response.                                    *)
(***************************************************************************)

\* The status codes of the refusals.
Refusal == {400, 404, 409}

\* A response that the client of an operation understands.
Fits(op, resp) ==
    \/ resp.status = Client[op].success /\ resp.body = op
    \/ resp.status \in Client[op].errors /\ resp.body = "error"

\* What doRequest returns.
LEMMA DecodeFacts ==
    ASSUME NEW op \in Op, NEW resp, resp.status \in Nat
    PROVE  LET answer == Decode(op, resp)
           IN /\ answer \in Answer
              /\ answer = "ok" => resp.status = Client[op].success /\ resp.body = op
              /\ answer \in ErrorType \ {"InternalError"}
                     => resp.status \in Refusal /\ answer = TypeOfStatus(resp.status)
              /\ Fits(op, resp) \/ resp.status = 503 => answer \notin {"decode", "unknown"}
<1> DEFINE answer == Decode(op, resp)
<1>0. /\ Client[op].success \in {200, 201}
      /\ Client[op].errors \subseteq {400, 404, 409, 500}
  BY ClientFacts
<1>1. CASE circuit # "debug" /\ resp.status >= 500
  <2>1. answer = "circuit"
    BY <1>1 DEF Decode
  <2> QED
    BY <2>1 DEF Answer, ErrorType
<1>2. CASE ~(circuit # "debug" /\ resp.status >= 500) /\ resp.status = Client[op].success
  <2>1. answer = IF resp.body = op THEN "ok" ELSE "decode"
    BY <1>0, <1>2 DEF Decode
  <2>2. resp.status # 503 /\ resp.status \notin Client[op].errors
    BY <1>0, <1>2
  <2> QED
    BY <1>2, <2>1, <2>2 DEF Answer, ErrorType, Fits
<1>3. CASE ~(circuit # "debug" /\ resp.status >= 500) /\ resp.status \in Client[op].errors
  <2>1. resp.status # Client[op].success /\ resp.status # 503
    BY <1>0, <1>3
  <2>2. answer = IF resp.body = "error" THEN TypeOfStatus(resp.status) ELSE "decode"
    BY <1>3, <2>1 DEF Decode
  <2>3. /\ TypeOfStatus(resp.status) \in ErrorType
        /\ TypeOfStatus(resp.status) # "InternalError" => resp.status \in Refusal
    BY <1>0, <1>3 DEF TypeOfStatus, ErrorType, Refusal
  <2> QED
    BY <2>1, <2>2, <2>3 DEF Answer, ErrorType, Fits
<1>4. CASE /\ ~(circuit # "debug" /\ resp.status >= 500)
           /\ resp.status # Client[op].success /\ resp.status \notin Client[op].errors
  <2>1. answer = IF resp.status = 503 THEN "unavailable" ELSE "unknown"
    BY <1>4 DEF Decode
  <2> QED
    BY <1>4, <2>1 DEF Answer, ErrorType, Fits
<1> QED
  BY <1>1, <1>2, <1>3, <1>4

\* retryDoer.Do: the call goes on with another request or returns.
LEMMA ReceivedFacts ==
    ASSUME NEW c \in Caller, call[c] \in Call, NEW resp, resp.status \in Nat, NEW version \in Int
    PROVE  LET new == Received(c, resp, version)
               k == call[c]
           IN /\ new \in Call /\ new.op = k.op /\ new.defect = k.defect /\ new.effects = k.effects
              /\ \/ /\ new.pc = "send" /\ new.tries = k.tries + 1 /\ new.answer = k.answer
                    /\ Client[k.op].method # "POST"
                 \/ /\ new.pc = "idle" /\ new.tries = k.tries
                    /\ new.answer = Decode(k.op, resp)
                    /\ new.answer = "ok" => new.version = version
<1> DEFINE k == call[c]
           new == Received(c, resp, version)
<1>1. k.op \in Op /\ k.tries \in Nat
  BY DEF Call
<1>2. CASE Retry(k.op, resp.status) /\ k.tries < Backoffs
  <2> DEFINE more == k.tries + 1
  <2>1. new = [k EXCEPT !.pc = "send", !.tries = more]
    BY <1>2 DEF Received
  <2>2. Client[k.op].method # "POST" /\ more \in Nat
    BY <1>1, <1>2 DEF Retry
  <2> HIDE DEF more
  <2>3. /\ new \in Call /\ new.op = k.op /\ new.defect = k.defect /\ new.effects = k.effects
        /\ new.pc = "send" /\ new.tries = more /\ new.answer = k.answer
    BY <1>1, <2>1, <2>2 DEF Call
  <2> QED
    BY <2>2, <2>3 DEF more
<1>3. CASE ~(Retry(k.op, resp.status) /\ k.tries < Backoffs)
  <2> DEFINE answer == Decode(k.op, resp)
             told == IF answer = "ok" THEN version ELSE -1
  <2>1. new = [k EXCEPT !.pc = "idle", !.answer = answer, !.version = told]
    BY <1>3 DEF Received
  <2>2. answer \in Answer
    BY <1>1, DecodeFacts
  <2>3. told \in Int /\ (answer = "ok" => told = version)
    OBVIOUS
  <2> HIDE DEF answer, told
  <2>4. /\ new \in Call /\ new.op = k.op /\ new.defect = k.defect /\ new.effects = k.effects
        /\ new.pc = "idle" /\ new.tries = k.tries
        /\ new.answer = answer /\ new.version = told
    BY <1>1, <2>1, <2>2, <2>3 DEF Call
  <2> QED
    BY <2>3, <2>4 DEF answer
<1> QED
  BY <1>2, <1>3

-----------------------------------------------------------------------------
(***************************************************************************)
(* One call, when it hears from one of its requests.                       *)
(***************************************************************************)

\* Versions are only added.
Keeps(all, more) ==
    DOMAIN all \subseteq DOMAIN more /\ \A v \in DOMAIN all : more[v] = all[v]

\* A call stays right when versions are added.
LEMMA CallStays ==
    ASSUME NEW c, NEW k, NEW all, NEW last, NEW more, NEW next,
           CallRight(c, k, all, last), Keeps(all, more), last # NoItem => next # NoItem
    PROVE  CallRight(c, k, more, next)
BY DEF CallRight, Keeps

\* A request to the store stays right when others add versions.
LEMMA SaveStays ==
    ASSUME NEW s, NEW q, NEW all, NEW last, NEW more, NEW next,
           SaveRight(s, q, all, last), Keeps(all, more), last # NoItem => next # NoItem
    PROVE  SaveRight(s, q, more, next)
BY DEF SaveRight, Keeps, Store!Saved

\* Where a request may arrive.
LEMMA RouteFacts ==
    ASSUME NEW op \in Op, NEW defect, NEW route \in Routes(op, defect)
    PROVE  /\ route \in Op \cup NoRoute
           /\ defect # "slash" => route = op
           /\ defect = "slash" /\ route \in Changes
                  => op = "ResumeWorkflowByID" /\ route = "ResolveWorkflowByID"
           /\ defect = "slash" /\ op \in Defines => route \in NoRoute
<1>1. CASE defect # "slash"
  BY <1>1 DEF Routes
<1>2. CASE defect = "slash"
  <2>1. route \in Misrouted(op)
    BY <1>2 DEF Routes
  <2>2. CASE op = "GetWorkflowDefinitionVersionsByName"
    BY <1>2, <2>1, <2>2, OpNames DEF Misrouted, NoRoute, Changes, Defines
  <2>3. CASE op = "ResumeWorkflowByID"
    BY <1>2, <2>1, <2>3, OpNames DEF Misrouted, NoRoute, Changes, Defines
  <2>4. CASE op \in {"UpdateWorkflowDefinition", "CancelWorkflow", "GetWorkflowByID"}
    <3>1. route \in NoRoute
      BY <2>1, <2>4 DEF Misrouted
    <3> QED
      BY <1>2, <3>1 DEF NoRoute, Changes, Defines
  <2>5. CASE op \notin {"GetWorkflowDefinitionVersionsByName", "UpdateWorkflowDefinition",
                        "ResumeWorkflowByID", "CancelWorkflow", "GetWorkflowByID"}
    <3>1. route = "404 page"
      BY <2>1, <2>5 DEF Misrouted
    <3> QED
      BY <1>2, <3>1 DEF NoRoute, Changes, Defines
  <2> QED
    BY <2>2, <2>3, <2>4, <2>5
<1> QED
  BY <1>1, <1>2

\* What all answers have in common: the client of the operation understands
\* them; a change is made by an operation that makes changes, once; and a
\* refusal comes before any change, unless it is one of the late ones.
Honest(s, q, resp, effect, last) ==
    /\ resp.status \in Nat /\ effect \in {0, 1}
    /\ s.op \in Op => Fits(s.op, resp) \/ (resp.status = 503 /\ resp.body = "text")
    /\ s.op \in NoRoute => resp.body = "text"
    /\ effect = 1 => /\ Unspent(s, q) /\ s.op \in Changes /\ s.defect \in {"none", "slash"}
                     /\ s.op = "UpdateWorkflowDefinition" => last # NoItem
    /\ resp.status \in Refusal =>
           /\ Unspent(s, q)
           /\ effect = 1 => RefusedLate(s.op, TypeOfStatus(resp.status))
           /\ s.op \in {"PutStateResource", "UpdateWorkflowDefinition"} /\ s.defect \in {"none", "slash"}
                  => s.op = "UpdateWorkflowDefinition" /\ last = NoItem

\* An operation that changes something was the one that the caller meant.
LEMMA ChangesRight ==
    ASSUME NEW c, NEW k \in Call, NEW all, NEW last, CallRight(c, k, all, last),
           NEW s, NEW q, BondRight(s, q, k), s.bond # "lost",
           NEW resp, NEW effect, Honest(s, q, resp, effect, last),
           k.effects + effect > 0
    PROVE  /\ k.op \in Changes
           /\ k.defect \in {"none", "slash"}
           /\ k.defect = "slash" => k.op = "ResumeWorkflowByID"
           /\ k.op = "UpdateWorkflowDefinition" => last # NoItem
<1>1. k.op \in Op /\ k.effects \in Nat
  BY DEF Call
<1>2. s.defect = k.defect /\ s.op \in Routes(k.op, k.defect)
  BY DEF BondRight
<1>3. CASE k.effects > 0
  BY <1>3 DEF CallRight
<1>4. CASE effect = 1
  <2>1. s.op \in Changes /\ s.defect \in {"none", "slash"}
    BY <1>4 DEF Honest
  <2>2. s.op = "UpdateWorkflowDefinition" => last # NoItem
    BY <1>4 DEF Honest
  <2>3. /\ k.defect # "slash" => s.op = k.op
        /\ k.defect = "slash" => k.op = "ResumeWorkflowByID"
    BY <1>1, <1>2, <2>1, RouteFacts
  <2>4. "ResumeWorkflowByID" \in Changes
    BY DEF Changes
  <2> QED
    BY <1>2, <2>1, <2>2, <2>3, <2>4
<1> QED
  BY <1>1, <1>3, <1>4 DEF Honest

\* A request that is late makes its change, and the call is none the wiser.
LEMMA LateRight ==
    ASSUME NEW c, NEW k \in Call, NEW all, NEW last, CallRight(c, k, all, last),
           NEW s, NEW q, BondRight(s, q, k), s.bond = "late",
           NEW resp, NEW effect, Honest(s, q, resp, effect, last),
           NEW new \in Call, new.pc = k.pc, new.op = k.op, new.defect = k.defect,
           new.tries = k.tries, new.answer = k.answer, new.effects = k.effects + effect
    PROVE  CallRight(c, new, all, last)
<1>1. k.pc # "idle" /\ k.tries > 0 /\ k.answer = "none" /\ k.tries \in Nat
  BY DEF BondRight, CallRight, Call
<1>2. new.effects > 0 => /\ k.op \in Changes
                         /\ k.defect \in {"none", "slash"}
                         /\ k.defect = "slash" => k.op = "ResumeWorkflowByID"
                         /\ k.op = "UpdateWorkflowDefinition" => last # NoItem
  BY ChangesRight
<1>3. Client[k.op].method # "POST"
  BY <1>1 DEF CallRight
<1>4. "none" \notin ErrorType \cup {"ok", "decode", "unknown"}
  BY DEF ErrorType
<1> QED
  BY <1>1, <1>2, <1>3, <1>4 DEF CallRight

\* The call that waits for the request sends another one or returns, and in
\* that case its answer is right.
LEMMA AnsweredRight ==
    ASSUME NEW c, NEW k \in Call, NEW all, NEW last, CallRight(c, k, all, last),
           NEW s, NEW q, BondRight(s, q, k), s.bond = "live", s.caller = c,
           NEW resp, NEW version \in Int, NEW effect, Honest(s, q, resp, effect, last),
           s.op \in Defines /\ resp.body = s.op => version \in DOMAIN all /\ all[version] = c,
           NEW new \in Call, new.op = k.op, new.defect = k.defect, new.effects = k.effects + effect,
           \/ /\ new.pc = "send" /\ new.tries = k.tries + 1 /\ new.answer = k.answer
              /\ Client[k.op].method # "POST"
           \/ /\ new.pc = "idle" /\ new.tries = k.tries
              /\ new.answer = Decode(k.op, resp)
              /\ new.answer = "ok" => new.version = version
    PROVE  CallRight(c, new, all, last)
<1>1. /\ k.op \in Op /\ k.effects \in Nat /\ k.tries \in Nat /\ k.pc = "wait"
      /\ k.answer = "none" /\ effect \in {0, 1} /\ resp.status \in Nat
  BY DEF Call, BondRight, CallRight, Honest
<1>2. new.effects > 0 => /\ k.op \in Changes
                         /\ k.defect \in {"none", "slash"}
                         /\ k.defect = "slash" => k.op = "ResumeWorkflowByID"
                         /\ k.op = "UpdateWorkflowDefinition" => last # NoItem
  BY ChangesRight
<1>3. s.defect = k.defect /\ s.op \in Routes(k.op, k.defect)
  BY DEF BondRight
<1>4. /\ k.defect # "slash" => s.op = k.op
      /\ k.defect = "slash" /\ s.op \in Changes => s.op = "ResolveWorkflowByID"
      /\ k.defect = "slash" /\ k.op \in Defines => s.op \in NoRoute
  BY <1>1, <1>3, RouteFacts
<1>5. CASE new.pc = "send"
  <2>1. new.tries > 0 /\ Client[k.op].method # "POST" /\ new.answer = "none"
    BY <1>1, <1>5
  <2>2. "none" \notin ErrorType \cup {"ok", "decode", "unknown"}
    BY DEF ErrorType
  <2> QED
    BY <1>1, <1>2, <2>1, <2>2 DEF CallRight
<1>6. CASE new.pc = "idle"
  <2>1. /\ new.tries = k.tries /\ new.answer = Decode(k.op, resp)
        /\ new.answer = "ok" => new.version = version
    BY <1>6
  <2>2. /\ new.answer = "ok" => resp.body = k.op
        /\ new.answer \in ErrorType \ {"InternalError"}
               => resp.status \in Refusal /\ new.answer = TypeOfStatus(resp.status)
        /\ Fits(k.op, resp) \/ resp.status = 503 => new.answer \notin {"decode", "unknown"}
    BY <1>1, <2>1, DecodeFacts
  <2>3. new.tries > 0 => Client[new.op].method # "POST"
    BY <2>1 DEF CallRight
  <2>4. new.tries = 0 => new.effects <= 1
    <3>1. k.tries = 0 => k.effects <= 1
      BY DEF CallRight
    <3>2. k.tries = 0 /\ effect = 1 => k.effects = 0
      BY DEF BondRight, Honest
    <3> QED
      BY <1>1, <2>1, <3>1, <3>2
  <2>5. new.op \in Defines /\ new.answer = "ok" => new.version \in DOMAIN all /\ all[new.version] = c
    <3> SUFFICES ASSUME new.op \in Defines, new.answer = "ok"
                 PROVE  version \in DOMAIN all /\ all[version] = c
      BY <2>1
    <3>1. "text" \notin Op
      BY OpNames
    <3>2. s.op \notin NoRoute
      BY <1>1, <2>2, <3>1 DEF Honest
    <3> QED
      BY <1>4, <2>2, <3>2
  <2>6. new.answer \in ErrorType \ {"InternalError"} /\ new.effects > 0
            => \/ RefusedLate(new.op, new.answer)
               \/ (new.op = "CancelWorkflow" /\ new.tries > 0)
    <3> SUFFICES ASSUME resp.status \in Refusal, new.effects > 0
                 PROVE  \/ RefusedLate(k.op, TypeOfStatus(resp.status))
                        \/ (k.op = "CancelWorkflow" /\ k.tries > 0)
      BY <2>1, <2>2
    <3>1. /\ Unspent(s, q)
          /\ effect = 1 => RefusedLate(s.op, TypeOfStatus(resp.status)) /\ s.op \in Changes
      BY DEF Honest
    <3>2. CASE k.tries = 0
      <4>1. k.effects = 0
        BY <3>1, <3>2 DEF BondRight
      <4>2. RefusedLate(s.op, TypeOfStatus(resp.status)) /\ s.op \in Changes
        BY <1>1, <3>1, <4>1
      <4>3. s.op # "ResolveWorkflowByID"
        BY <4>2 DEF RefusedLate
      <4> QED
        BY <1>4, <4>2, <4>3
    <3>3. CASE k.tries > 0
      <4>1. Client[k.op].method # "POST"
        BY <3>3 DEF CallRight
      <4>2. k.op \in {"PutStateResource", "UpdateWorkflowDefinition", "DeleteStateResource", "CancelWorkflow"}
        BY <1>1, <1>2, <4>1, ClientFacts
      <4>3. k.defect = "none"
        BY <1>2, <4>2
      <4>4. s.op = k.op /\ s.defect = "none"
        BY <1>3, <1>4, <4>3
      <4>5. k.op \notin {"PutStateResource", "UpdateWorkflowDefinition"}
        BY <1>2, <4>4 DEF Honest
      <4> QED
        BY <3>3, <4>2, <4>5 DEF RefusedLate
    <3> QED
      BY <1>1, <3>2, <3>3
  <2>7. new.answer \in {"decode", "unknown"} => new.defect = "slash"
    BY <1>1, <1>4, <2>2 DEF Honest
  <2> QED
    BY <1>1, <1>2, <1>6, <2>3, <2>4, <2>5, <2>6, <2>7 DEF CallRight
<1> QED
  BY <1>5, <1>6

-----------------------------------------------------------------------------
(***************************************************************************)
(* All calls and all requests, when one call and its requests change.      *)
(***************************************************************************)

\* The invariant of calls and requests.
CallsRight ==
    /\ call \in [Caller -> Call] /\ serve \in [Req -> Request]
    /\ \A c \in Caller : CallRight(c, call[c], versions, latest)
    /\ \A r \in Req : /\ BondRight(serve[r], req[r], call[serve[r].caller])
                      /\ SaveRight(serve[r], req[r], versions, latest)
    /\ OneLive(serve)

\* What every step of the store does.
StoreGrows == Keeps(versions, versions') /\ (latest # NoItem => latest' # NoItem)

\* One call becomes `new', the requests become `slots'; if the call returns
\* its requests are orphaned.
LEMMA StepKeeps ==
    ASSUME CallsRight, StoreGrows, NEW c \in Caller, NEW new \in Call,
           CallRight(c, new, versions', latest'), call' = [call EXCEPT ![c] = new],
           NEW slots \in [Req -> Request], OneLive(slots),
           \A r \in Req : SaveRight(slots[r], req'[r], versions', latest'),
           \A r \in Req : slots[r].caller # c => BondRight(slots[r], req'[r], call[slots[r].caller]),
           \/ serve' = Orphaned(c, slots)
           \/ /\ serve' = slots
              /\ \A r \in Req : slots[r].caller = c => BondRight(slots[r], req'[r], new)
    PROVE  CallsRight'
<1>1. /\ call' \in [Caller -> Call] /\ call'[c] = new
      /\ \A d \in Caller : d # c => call'[d] = call[d]
  BY DEF CallsRight
<1>2. \A d \in Caller : CallRight(d, call'[d], versions', latest')
  BY <1>1, CallStays DEF CallsRight, StoreGrows
<1>3. \A r \in Req : slots[r] \in Request /\ slots[r].caller \in Caller
  BY DEF Request
<1>4. CASE serve' = slots /\ \A r \in Req : slots[r].caller = c => BondRight(slots[r], req'[r], new)
  <2>1. \A r \in Req : BondRight(serve'[r], req'[r], call'[serve'[r].caller])
    BY <1>1, <1>3, <1>4
  <2> QED
    BY <1>1, <1>2, <1>4, <2>1 DEF CallsRight
<1>5. CASE serve' = Orphaned(c, slots)
  <2>1. ASSUME NEW r \in Req
        PROVE  /\ serve'[r] \in Request
               /\ serve'[r].pc = slots[r].pc /\ serve'[r].caller = slots[r].caller
               /\ serve'[r].op = slots[r].op /\ serve'[r].defect = slots[r].defect
               /\ slots[r].caller # c => serve'[r] = slots[r]
               /\ slots[r].caller = c => serve'[r].bond = "lost"
    <3>1. serve'[r] = IF slots[r].caller = c THEN [slots[r] EXCEPT !.bond = "lost"] ELSE slots[r]
      BY <1>5 DEF Orphaned
    <3> QED
      BY <1>3, <3>1 DEF Request
  <2>2. serve' \in [Req -> Request]
    <3>1. serve' = [r \in Req |-> serve'[r]]
      BY <1>5 DEF Orphaned
    <3> QED
      BY <2>1, <3>1
  <2>3. \A r \in Req : BondRight(serve'[r], req'[r], call'[serve'[r].caller])
    <3> SUFFICES ASSUME NEW r \in Req
                 PROVE  BondRight(serve'[r], req'[r], call'[serve'[r].caller])
      OBVIOUS
    <3>1. CASE slots[r].caller = c
      <4>1. serve'[r].bond = "lost"
        BY <2>1, <3>1
      <4> QED
        BY <4>1 DEF BondRight
    <3>2. CASE slots[r].caller # c
      BY <1>1, <1>3, <2>1, <3>2
    <3> QED
      BY <3>1, <3>2
  <2>4. \A r \in Req : SaveRight(serve'[r], req'[r], versions', latest')
    BY <2>1 DEF SaveRight
  <2>5. OneLive(serve')
    BY <2>1 DEF OneLive
  <2> QED
    BY <1>1, <1>2, <2>2, <2>3, <2>4, <2>5 DEF CallsRight
<1> QED
  BY <1>4, <1>5

\* Requests other than r, of a call that goes on: none is live, and those
\* that are late stay so.
LEMMA OtherBonds ==
    ASSUME NEW s, NEW q, NEW k, BondRight(s, q, k), s.bond # "live",
           NEW new, new.op = k.op, new.defect = k.defect, k.tries \in Nat, new.tries \in Nat,
           new.tries >= k.tries, s.bond = "late" => new.pc # "idle"
    PROVE  BondRight(s, q, new)
BY DEF BondRight

\* Request r is free again.
LEMMA FreedKeeps ==
    ASSUME CallsRight, StoreGrows, NEW r \in Req,
           req'[r].pc = "idle", \A q \in Req : q # r => req'[q] = req[q]
    PROVE  LET slots == [serve EXCEPT ![r] = Free]
           IN /\ slots \in [Req -> Request] /\ OneLive(slots)
              /\ \A q \in Req : SaveRight(slots[q], req'[q], versions', latest')
              /\ \A q \in Req : BondRight(slots[q], req'[q], call[slots[q].caller])
              /\ slots[r].bond = "lost" /\ \A q \in Req : q # r => slots[q] = serve[q]
<1> DEFINE slots == [serve EXCEPT ![r] = Free]
<1>1. /\ Free \in Request /\ Free.bond = "lost" /\ Free.pc = "free"
  BY ServiceCallsAssumption, OpNames DEF Free, Request, Defect, Someone
<1>2. slots \in [Req -> Request] /\ slots[r] = Free /\ \A q \in Req : q # r => slots[q] = serve[q]
  BY <1>1 DEF CallsRight
<1>3. OneLive(slots)
  BY <1>1, <1>2 DEF OneLive, CallsRight
<1>4. SaveRight(slots[r], req'[r], versions', latest')
  BY <1>1, <1>2 DEF SaveRight
<1>5. BondRight(slots[r], req'[r], call[slots[r].caller])
  BY <1>1, <1>2 DEF BondRight
<1>6. \A q \in Req : q # r => SaveRight(slots[q], req'[q], versions', latest')
  BY <1>2, SaveStays DEF CallsRight, StoreGrows
<1>7. \A q \in Req : q # r => BondRight(slots[q], req'[q], call[slots[q].caller])
  BY <1>2 DEF CallsRight
<1> QED
  BY <1>1, <1>2, <1>3, <1>4, <1>5, <1>6, <1>7

\* A request that ends, and what its call makes of its answer.
LEMMA FinishKeeps ==
    ASSUME CallsRight, StoreGrows, NEW r \in Req,
           req'[r].pc = "idle", \A q \in Req : q # r => req'[q] = req[q],
           NEW resp, NEW version \in Int, NEW effect,
           serve[r].bond # "lost" => Honest(serve[r], req[r], resp, effect, latest),
           serve[r].op \in Defines /\ resp.body = serve[r].op
               => version \in DOMAIN versions /\ versions[version] = serve[r].caller,
           Finish(r, resp, version, effect)
    PROVE  CallsRight'
<1> DEFINE s == serve[r]
           c == s.caller
           k == call[c]
           slots == [serve EXCEPT ![r] = Free]
           after == IF s.bond = "live" THEN Received(c, resp, version) ELSE k
           new == IF s.bond = "lost" THEN k ELSE [after EXCEPT !.effects = after.effects + effect]
<1>1. s \in Request /\ c \in Caller /\ k \in Call /\ s.bond \in {"live", "late", "lost"}
  BY DEF CallsRight, Request
<1>2. /\ slots \in [Req -> Request] /\ OneLive(slots)
      /\ \A q \in Req : SaveRight(slots[q], req'[q], versions', latest')
      /\ \A q \in Req : BondRight(slots[q], req'[q], call[slots[q].caller])
      /\ slots[r].bond = "lost" /\ \A q \in Req : q # r => slots[q] = serve[q]
  BY FreedKeeps
<1>3. CallRight(c, k, versions, latest) /\ BondRight(s, req[r], k)
  BY <1>1 DEF CallsRight
<1>4. call' = [call EXCEPT ![c] = new]
  BY DEF Finish
<1>5. serve' = IF s.bond = "live" /\ after.pc = "idle" THEN Orphaned(c, slots) ELSE slots
  BY DEF Finish
<1>6. k.effects \in Nat /\ k.tries \in Nat
  BY <1>1 DEF Call
<1>7. \A q \in Req : slots[q].caller # c => BondRight(slots[q], req'[q], call[slots[q].caller])
  BY <1>2
<1> HIDE DEF slots
<1>8. CASE s.bond = "lost"
  <2>1. new = k
    BY <1>8
  <2>2. CallRight(c, new, versions', latest')
    BY <1>3, <2>1, CallStays DEF StoreGrows
  <2>3. \A q \in Req : slots[q].caller = c => BondRight(slots[q], req'[q], new)
    BY <1>2, <2>1
  <2>4. serve' = slots
    BY <1>5, <1>8
  <2> HIDE DEF new
  <2> QED
    BY <1>1, <1>2, <1>4, <1>7, <2>1, <2>2, <2>3, <2>4, StepKeeps
<1>9. CASE s.bond = "late"
  <2> DEFINE sum == k.effects + effect
  <2>1. Honest(s, req[r], resp, effect, latest) /\ effect \in Nat /\ sum \in Nat
    BY <1>6, <1>9 DEF Honest
  <2>2. new = [k EXCEPT !.effects = sum]
    BY <1>9
  <2> HIDE DEF sum
  <2>3. /\ new \in Call /\ new.pc = k.pc /\ new.op = k.op /\ new.defect = k.defect
        /\ new.tries = k.tries /\ new.answer = k.answer /\ new.effects = sum
    BY <1>1, <2>1, <2>2 DEF Call
  <2> HIDE DEF new
  <2>4. CallRight(c, new, versions, latest)
    BY <1>1, <1>3, <1>9, <2>1, <2>3, LateRight DEF sum
  <2>5. CallRight(c, new, versions', latest')
    BY <2>4, CallStays DEF StoreGrows
  <2>6. \A q \in Req : slots[q].caller = c => BondRight(slots[q], req'[q], new)
    <3> SUFFICES ASSUME NEW q \in Req, slots[q].caller = c
                 PROVE  BondRight(slots[q], req'[q], new)
      OBVIOUS
    <3>1. BondRight(slots[q], req'[q], k)
      BY <1>2
    <3>2. k.pc # "idle" /\ k.tries > 0
      BY <1>3, <1>9 DEF BondRight
    <3> QED
      BY <1>6, <2>3, <3>1, <3>2 DEF BondRight
  <2>7. serve' = slots
    BY <1>5, <1>9
  <2> QED
    BY <1>1, <1>2, <1>4, <1>7, <2>3, <2>5, <2>6, <2>7, StepKeeps
<1>10. CASE s.bond = "live"
  <2> DEFINE sum == k.effects + effect
             rec == Received(c, resp, version)
  <2>1. Honest(s, req[r], resp, effect, latest) /\ effect \in Nat /\ sum \in Nat /\ resp.status \in Nat
    BY <1>6, <1>10 DEF Honest
  <2>2. /\ rec \in Call /\ rec.op = k.op /\ rec.defect = k.defect /\ rec.effects = k.effects
        /\ \/ /\ rec.pc = "send" /\ rec.tries = k.tries + 1 /\ rec.answer = k.answer
              /\ Client[k.op].method # "POST"
           \/ /\ rec.pc = "idle" /\ rec.tries = k.tries
              /\ rec.answer = Decode(k.op, resp)
              /\ rec.answer = "ok" => rec.version = version
    BY <1>1, <2>1, ReceivedFacts
  <2>3. after = rec
    BY <1>10
  <2>4. new = [rec EXCEPT !.effects = sum]
    BY <1>10, <2>2
  <2> HIDE DEF rec, sum, after
  <2>5. /\ new \in Call /\ new.op = k.op /\ new.defect = k.defect /\ new.effects = sum
        /\ new.pc = rec.pc /\ new.tries = rec.tries /\ new.answer = rec.answer
        /\ new.version = rec.version
    BY <2>1, <2>2, <2>4 DEF Call
  <2> HIDE DEF new
  <2>6. CallRight(c, new, versions, latest)
    <3>1. \/ /\ new.pc = "send" /\ new.tries = k.tries + 1 /\ new.answer = k.answer
             /\ Client[k.op].method # "POST"
          \/ /\ new.pc = "idle" /\ new.tries = k.tries
             /\ new.answer = Decode(k.op, resp)
             /\ new.answer = "ok" => new.version = version
      BY <2>2, <2>5
    <3>2. /\ new.effects = k.effects + effect /\ s.caller = c
          /\ s.op \in Defines /\ resp.body = s.op => version \in DOMAIN versions /\ versions[version] = c
      BY <2>5 DEF sum
    <3>3. /\ k \in Call /\ CallRight(c, k, versions, latest) /\ BondRight(s, req[r], k)
          /\ s.bond = "live" /\ Honest(s, req[r], resp, effect, latest)
          /\ new \in Call /\ new.op = k.op /\ new.defect = k.defect
      BY <1>1, <1>3, <1>10, <2>1, <2>5
    <3> HIDE DEF s, k, c
    <3> QED
      BY <3>1, <3>2, <3>3, AnsweredRight
  <2>7. CallRight(c, new, versions', latest')
    BY <2>6, CallStays DEF StoreGrows
  <2>8. CASE rec.pc = "idle"
    <3>1. serve' = Orphaned(c, slots)
      BY <1>5, <1>10, <2>3, <2>8
    <3> QED
      BY <1>1, <1>2, <1>4, <1>7, <2>5, <2>7, <3>1, StepKeeps
  <2>9. CASE rec.pc = "send"
    <3>1. serve' = slots
      BY <1>5, <1>10, <2>3, <2>9
    <3>2. \A q \in Req : slots[q].caller = c => BondRight(slots[q], req'[q], new)
      <4> SUFFICES ASSUME NEW q \in Req, slots[q].caller = c
                   PROVE  BondRight(slots[q], req'[q], new)
        OBVIOUS
      <4>1. BondRight(slots[q], req'[q], k)
        BY <1>2
      <4>2. slots[q].bond # "live"
        BY <1>2, <1>10 DEF CallsRight, OneLive
      <4>3. new.tries \in Nat /\ new.tries >= k.tries /\ new.pc # "idle"
        BY <1>6, <2>2, <2>5, <2>9
      <4> QED
        BY <1>6, <2>5, <4>1, <4>2, <4>3, OtherBonds
    <3> QED
      BY <1>1, <1>2, <1>4, <1>7, <2>5, <2>7, <3>1, <3>2, StepKeeps
  <2> QED
    BY <2>2, <2>8, <2>9
<1> QED
  BY <1>1, <1>8, <1>9, <1>10

-----------------------------------------------------------------------------
(***************************************************************************)
(* One iteration of the search.                                            *)
(***************************************************************************)

\* The invariant of an iteration.
IterRight(it, found) == it \in Iterator /\ SearchRight(it, found)

\* An iteration that begins.
LEMMA NewIterRight ==
    ASSUME NEW oldestFirst \in BOOLEAN, NEW found \in SUBSET Workflow
    PROVE  IterRight(NewGetWorkflowsIter(oldestFirst, found), found)
<1> DEFINE it == NewGetWorkflowsIter(oldestFirst, found)
<1>1. /\ it.state = "open" /\ it.query = [oldestFirst |-> oldestFirst, after |-> NoToken]
      /\ it.seen = <<>> /\ it.all = found
  BY DEF NewGetWorkflowsIter
<1>2. it \in Iterator
  <2>1. [oldestFirst |-> oldestFirst, after |-> NoToken] \in Query
    BY DEF Query, NoToken
  <2>2. <<>> \in Seq(Workflow)
    OBVIOUS
  <2> QED
    BY <2>1, <2>2 DEF NewGetWorkflowsIter, Iterator
<1>3. DOMAIN it.seen = {} /\ Range(it.seen) = {}
  BY <1>1 DEF Range
<1>4. \A w \in it.all : w \in Eligible(found, it.query)
  BY <1>1 DEF Eligible
<1> HIDE DEF it
<1>5. SearchRight(it, found)
  BY <1>1, <1>3, <1>4 DEF SearchRight, IsInjective
<1> QED
  BY <1>2, <1>5 DEF IterRight, it

\* An iteration that ends with an error.
LEMMA FailRight ==
    ASSUME NEW it, NEW found, IterRight(it, found)
    PROVE  IterRight(Fail(it), found)
<1>1. /\ Fail(it).state = "failed" /\ Fail(it).query = it.query
      /\ Fail(it).seen = it.seen /\ Fail(it).all = it.all /\ Fail(it) \in Iterator
  BY DEF IterRight, Fail, Iterator
<1> QED
  BY <1>1 DEF IterRight, SearchRight

\* An iteration while the index changes: only what is found all the time counts.
LEMMA IndexRight ==
    ASSUME NEW it, NEW found, IterRight(it, found), NEW other \in SUBSET Workflow
    PROVE  IterRight([it EXCEPT !.all = it.all \cap other], other)
<1> DEFINE new == [it EXCEPT !.all = it.all \cap other]
<1>1. /\ new.state = it.state /\ new.query = it.query /\ new.seen = it.seen
      /\ new.all = it.all \cap other /\ new \in Iterator
  BY DEF IterRight, Iterator
<1> HIDE DEF new
<1>2. \A w \in new.all : w \in Eligible(found, it.query) => w \in Eligible(other, it.query)
  BY <1>1 DEF Eligible
<1>3. SearchRight(new, other)
  BY <1>1, <1>2 DEF IterRight, SearchRight
<1> QED
  BY <1>1, <1>3 DEF IterRight, new

\* Time goes on in one direction.
LEMMA SoonerFacts ==
    ASSUME NEW t \in Nat, NEW u \in Nat, NEW v \in Nat, NEW oldestFirst \in BOOLEAN
    PROVE  /\ ~Sooner(t, t, oldestFirst)
           /\ Sooner(t, u, oldestFirst) => ~Sooner(u, t, oldestFirst)
           /\ Sooner(t, u, oldestFirst) \/ Sooner(u, t, oldestFirst) \/ t = u
           /\ ~Sooner(t, v, oldestFirst) /\ Sooner(t, u, oldestFirst) => ~Sooner(u, v, oldestFirst)
<1>1. CASE oldestFirst
  BY <1>1 DEF Sooner
<1>2. CASE ~oldestFirst
  BY <1>2 DEF Sooner
<1> QED
  BY <1>1, <1>2

\* A page of the index: what is eligible, without gaps and in order.
LEMMA PageFacts ==
    ASSUME NEW found \in SUBSET Workflow, NEW q \in Query, NEW page \in Pages(found, q)
    PROVE  LET eligible == Eligible(found, q)
           IN /\ page \in Seq(Workflow) /\ IsInjective(page)
              /\ \A i \in 1 .. Len(page) : page[i] \in eligible
              /\ page = <<>> => eligible = {}
              /\ page # <<>> => /\ Len(page) > 0
                                /\ \A i \in 1 .. Len(page) :
                                      ~Sooner(CreatedAt[page[Len(page)]], CreatedAt[page[i]], q.oldestFirst)
                                /\ \A w \in eligible : \/ \E i \in 1 .. Len(page) : page[i] = w
                                                       \/ ~Sooner(CreatedAt[w], CreatedAt[page[Len(page)]],
                                                                  q.oldestFirst)
<1> DEFINE eligible == Eligible(found, q)
           n == IF Cardinality(eligible) < Limit THEN Cardinality(eligible) ELSE Limit
           Behind(w, u) == ~Sooner(CreatedAt[w], CreatedAt[u], q.oldestFirst)
<1>1. eligible \subseteq Workflow
  BY DEF Eligible
<1>2. IsFiniteSet(eligible) /\ Cardinality(eligible) \in Nat
  BY <1>1, WorkflowSearchAssumption, FS_Subset, FS_CardinalityType
<1>3. n \in Nat /\ (n = 0 => Cardinality(eligible) = 0)
  BY <1>2, WorkflowSearchAssumption
<1>4. /\ page \in [1 .. n -> eligible] /\ IsInjective(page)
      /\ \A i, j \in 1 .. n : i < j => Behind(page[j], page[i])
      /\ \A w \in eligible \ Range(page) : \A i \in 1 .. n : Behind(w, page[i])
  BY DEF Pages, Injection
<1> HIDE DEF eligible, n
<1>5. page \in Seq(eligible) /\ page \in Seq(Workflow)
  BY <1>1, <1>3, <1>4, IsASeq
<1>6. Len(page) = n /\ DOMAIN page = 1 .. n
  BY <1>3, <1>4, <1>5
<1>7. \A i \in 1 .. n : page[i] \in eligible
  BY <1>4
<1>8. page = <<>> => eligible = {}
  <2>1. page = <<>> => n = 0
    BY <1>6
  <2> QED
    BY <1>2, <1>3, <2>1, FS_EmptySet
<1>9. ASSUME page # <<>>
      PROVE  /\ n > 0
             /\ \A i \in 1 .. n : Behind(page[n], page[i])
             /\ \A w \in eligible : (\E i \in 1 .. n : page[i] = w) \/ Behind(w, page[n])
  <2>1. n > 0
    BY <1>3, <1>5, <1>6, <1>9, EmptySeq
  <2>2. \A i \in 1 .. n : CreatedAt[page[i]] \in Nat
    BY <1>1, <1>7, WorkflowSearchAssumption
  <2>3. q.oldestFirst \in BOOLEAN
    BY DEF Query
  <2>4. n \in 1 .. n
    BY <1>3, <2>1
  <2>5. \A i \in 1 .. n : i = n \/ i < n
    BY <1>3
  <2>6. Behind(page[n], page[n])
    BY <2>2, <2>3, <2>4, SoonerFacts
  <2>7. \A i \in 1 .. n : Behind(page[n], page[i])
    BY <1>4, <2>4, <2>5, <2>6
  <2>8. \A w \in eligible : (\E i \in 1 .. n : page[i] = w) \/ Behind(w, page[n])
    BY <1>4, <1>6, <2>4 DEF Range
  <2> QED
    BY <2>1, <2>7, <2>8
<1> QED
  BY <1>4, <1>5, <1>6, <1>7, <1>8, <1>9 DEF eligible

\* An iteration that gets its next page.
LEMMA RefreshRight ==
    ASSUME NEW it, NEW found \in SUBSET Workflow, IterRight(it, found),
           NEW page \in Pages(found, it.query)
    PROVE  IterRight(Refresh(it, page), found)
<1> DEFINE q == it.query
           eligible == Eligible(found, q)
           old == Range(it.seen)
           n == Len(page)
           new == Refresh(it, page)
           Tied(w, seen) == \E u \in seen : CreatedAt[u] = CreatedAt[w]
<1>1. /\ it \in Iterator /\ q \in Query /\ it.seen \in Seq(Workflow)
      /\ q.after \in Nat /\ q.oldestFirst \in BOOLEAN
  BY DEF IterRight, Iterator, Query
<1>2. /\ it.all \subseteq found
      /\ \A w \in old : q.after # NoToken /\ ~Sooner(q.after, CreatedAt[w], q.oldestFirst)
      /\ \A w \in it.all : Tied(w, old) \/ w \in eligible
      /\ it.state = "exhausted" => \A w \in it.all : Tied(w, old)
      /\ IsInjective(it.seen)
  BY DEF IterRight, SearchRight
<1>3. /\ page \in Seq(Workflow) /\ IsInjective(page)
      /\ \A i \in 1 .. n : page[i] \in eligible
      /\ page = <<>> => eligible = {}
      /\ page # <<>> => /\ n > 0
                        /\ \A i \in 1 .. n : ~Sooner(CreatedAt[page[n]], CreatedAt[page[i]], q.oldestFirst)
                        /\ \A w \in eligible : \/ \E i \in 1 .. n : page[i] = w
                                               \/ ~Sooner(CreatedAt[w], CreatedAt[page[n]], q.oldestFirst)
  BY <1>1, PageFacts
<1>4. CASE page = <<>>
  <2>1. /\ new.state = "exhausted" /\ new.query = q /\ new.seen = it.seen /\ new.all = it.all
        /\ new \in Iterator
    BY <1>1, <1>4 DEF Refresh, Iterator
  <2>2. eligible = {}
    BY <1>3, <1>4
  <2> HIDE DEF new, eligible
  <2>3. SearchRight(new, found)
    BY <1>2, <2>1, <2>2 DEF SearchRight
  <2> QED
    BY <2>1, <2>3 DEF IterRight, new
<1>5. CASE page # <<>>
  <2> DEFINE t == CreatedAt[page[n]]
             p == Range(page)
  <2>1. n \in Nat /\ n \in 1 .. n /\ DOMAIN page = 1 .. n
    BY <1>3, <1>5
  <2>2. \A w \in Workflow : CreatedAt[w] \in Nat /\ CreatedAt[w] # NoToken
    BY WorkflowSearchAssumption
  <2>3. page[n] \in Workflow /\ page[n] \in eligible /\ t \in Nat /\ t # NoToken
    BY <1>3, <2>1, <2>2
  <2>4. [q EXCEPT !.after = t] \in Query
    BY <1>1, <2>3 DEF Query
  <2>5. it.seen \o page \in Seq(Workflow)
    BY <1>1, <1>3
  <2>6. /\ new.state = it.state /\ new.query = [q EXCEPT !.after = t]
        /\ new.seen = it.seen \o page /\ new.all = it.all
        /\ new \in Iterator
    BY <1>1, <1>5, <2>4, <2>5 DEF Refresh, NextPage, Iterator
  <2>7. new.query.after = t /\ new.query.oldestFirst = q.oldestFirst
    BY <1>1, <2>6 DEF Query
  <2>8. /\ Len(it.seen) \in Nat /\ DOMAIN it.seen = 1 .. Len(it.seen)
        /\ DOMAIN new.seen = 1 .. (Len(it.seen) + n)
        /\ \A i \in 1 .. Len(it.seen) : new.seen[i] = it.seen[i]
        /\ \A i \in 1 .. n : new.seen[Len(it.seen) + i] = page[i]
    BY <1>1, <1>3, <2>1, <2>6
  <2>9. old \subseteq Workflow /\ p \subseteq eligible /\ p \subseteq Workflow /\ page[n] \in p
    BY <1>1, <1>3, <2>1, <2>8 DEF Range
  <2>10. \A i \in DOMAIN new.seen : \/ i \in 1 .. Len(it.seen)
                                    \/ \E m \in 1 .. n : i = Len(it.seen) + m
    <3> SUFFICES ASSUME NEW i \in DOMAIN new.seen, i \notin 1 .. Len(it.seen)
                 PROVE  \E m \in 1 .. n : i = Len(it.seen) + m
      OBVIOUS
    <3>1. i - Len(it.seen) \in 1 .. n /\ i = Len(it.seen) + (i - Len(it.seen))
      BY <2>1, <2>8
    <3> QED
      BY <3>1
  <2>11. \A i \in 1 .. n : Len(it.seen) + i \in DOMAIN new.seen
    BY <2>1, <2>8
  <2>12. \A i \in 1 .. Len(it.seen) : i \in DOMAIN new.seen
    BY <2>1, <2>8
  <2>13. Range(new.seen) = old \cup p
    <3>1. \A w \in Range(new.seen) : w \in old \cup p
      <4> SUFFICES ASSUME NEW i \in DOMAIN new.seen
                   PROVE  new.seen[i] \in old \cup p
        BY DEF Range
      <4>1. \A j \in DOMAIN it.seen : it.seen[j] \in old
        BY DEF Range
      <4>2. \A j \in DOMAIN page : page[j] \in p
        BY DEF Range
      <4> HIDE DEF new, old, p
      <4> QED
        BY <2>1, <2>8, <2>10, <4>1, <4>2
    <3>2. \A w \in old : w \in Range(new.seen)
      <4> SUFFICES ASSUME NEW i \in DOMAIN it.seen
                   PROVE  it.seen[i] \in Range(new.seen)
        BY DEF Range
      <4> HIDE DEF new
      <4> QED
        BY <2>8, <2>12 DEF Range
    <3>3. \A w \in p : w \in Range(new.seen)
      <4> SUFFICES ASSUME NEW i \in DOMAIN page
                   PROVE  page[i] \in Range(new.seen)
        BY DEF Range
      <4> HIDE DEF new
      <4> QED
        BY <2>1, <2>8, <2>11 DEF Range
    <3> QED
      BY <3>1, <3>2, <3>3
  <2>14. \A w \in old \cup p : ~Sooner(t, CreatedAt[w], q.oldestFirst)
    <3> SUFFICES ASSUME NEW w \in old \cup p
                 PROVE  ~Sooner(t, CreatedAt[w], q.oldestFirst)
      OBVIOUS
    <3>1. CASE w \in p
      BY <1>3, <1>5, <2>1, <3>1 DEF Range
    <3>2. CASE w \in old
      <4>1. q.after # NoToken /\ ~Sooner(q.after, CreatedAt[w], q.oldestFirst)
        BY <1>2, <3>2
      <4>2. Sooner(q.after, t, q.oldestFirst)
        BY <2>3, <4>1 DEF Eligible
      <4>3. CreatedAt[w] \in Nat
        BY <2>2, <2>9, <3>2
      <4> QED
        BY <1>1, <2>3, <4>1, <4>2, <4>3, SoonerFacts
    <3> QED
      BY <3>1, <3>2
  <2>15. \A w \in it.all : Tied(w, old \cup p) \/ w \in Eligible(found, new.query)
    <3> SUFFICES ASSUME NEW w \in it.all, w \in eligible, ~Tied(w, old \cup p)
                 PROVE  w \in Eligible(found, new.query)
      BY <1>2
    <3>1. w \in found /\ CreatedAt[w] \in Nat
      BY <1>2, <2>2
    <3>2. CreatedAt[w] # t /\ w \notin p
      BY <2>9
    <3>3. ~Sooner(CreatedAt[w], t, q.oldestFirst)
      BY <1>3, <1>5, <2>1, <3>2 DEF Range
    <3>4. Sooner(t, CreatedAt[w], q.oldestFirst)
      BY <1>1, <2>3, <3>1, <3>2, <3>3, SoonerFacts
    <3> QED
      BY <2>7, <3>1, <3>4 DEF Eligible
  <2>16. it.state = "exhausted" => \A w \in it.all : Tied(w, old \cup p)
    BY <1>2
  <2>17. \A u \in old, w \in p : u # w
    <3> SUFFICES ASSUME NEW u \in old, u \in p
                 PROVE  FALSE
      OBVIOUS
    <3>1. q.after # NoToken /\ ~Sooner(q.after, CreatedAt[u], q.oldestFirst)
      BY <1>2
    <3>2. u \in eligible
      BY <2>9
    <3> QED
      BY <3>1, <3>2 DEF Eligible
  <2>18. IsInjective(new.seen)
    <3> SUFFICES ASSUME NEW a \in DOMAIN new.seen, NEW b \in DOMAIN new.seen, new.seen[a] = new.seen[b]
                 PROVE  a = b
      BY DEF IsInjective
    <3>1. CASE a \in 1 .. Len(it.seen) /\ b \in 1 .. Len(it.seen)
      BY <1>2, <2>8, <3>1 DEF IsInjective
    <3>2. ASSUME NEW i \in 1 .. n, a = Len(it.seen) + i, NEW j \in 1 .. n, b = Len(it.seen) + j
          PROVE  a = b
      BY <1>3, <2>1, <2>8, <3>2 DEF IsInjective
    <3>3. ASSUME a \in 1 .. Len(it.seen), NEW j \in 1 .. n, b = Len(it.seen) + j
          PROVE  FALSE
      BY <2>1, <2>8, <2>17, <3>3 DEF Range
    <3>4. ASSUME b \in 1 .. Len(it.seen), NEW j \in 1 .. n, a = Len(it.seen) + j
          PROVE  FALSE
      BY <2>1, <2>8, <2>17, <3>4 DEF Range
    <3> QED
      BY <2>10, <3>1, <3>2, <3>3, <3>4
  <2> HIDE DEF new, old, p, t
  <2>19. SearchRight(new, found)
    BY <1>2, <2>3, <2>6, <2>7, <2>13, <2>14, <2>15, <2>16, <2>18 DEF SearchRight
  <2> QED
    BY <2>6, <2>19 DEF IterRight, new
<1> QED
  BY <1>4, <1>5

-----------------------------------------------------------------------------
(***************************************************************************)
(* The answers of the service.                                             *)
(***************************************************************************)

\* The result of an operation is an answer its client understands.
LEMMA SuccessHonest ==
    ASSUME NEW s, s.op \in Op, NEW q, NEW last, NEW effect \in {0, 1},
           effect = 1 => /\ Unspent(s, q) /\ s.op \in Changes /\ s.defect \in {"none", "slash"}
                         /\ s.op = "UpdateWorkflowDefinition" => last # NoItem
    PROVE  Honest(s, q, Success(s.op), effect, last)
<1>1. Server[s.op].success = Client[s.op].success /\ Client[s.op].success \in {200, 201}
  BY ClientFacts, ServerFacts
<1>2. /\ Success(s.op).status = Client[s.op].success /\ Success(s.op).body = s.op
  BY <1>1 DEF Success, Response
<1>3. Success(s.op).status \in Nat /\ Success(s.op).status \notin Refusal
  BY <1>1, <1>2 DEF Refusal
<1>4. s.op \notin NoRoute
  BY OpNames DEF NoRoute
<1> QED
  BY <1>2, <1>3, <1>4 DEF Honest, Fits

\* The errors that are refusals.
Refusals == {"BadRequest", "NotFound", "Conflict"}

\* So is an error, whatever the Handler made of it.
LEMMA FailureFacts ==
    ASSUME NEW op \in Op, NEW err
    PROVE  /\ Failure(op, err).status \in Client[op].errors /\ Failure(op, err).body = "error"
           /\ Failure(op, err).status \in Nat
           /\ err \notin Refusals => Failure(op, err).status = 500
           /\ Failure(op, err).status \in Refusal => TypeOfStatus(Failure(op, err).status) = err
<1>1. /\ Client[op].errors \subseteq {400, 404, 409, 500}
      /\ 400 \in Client[op].errors /\ 500 \in Client[op].errors
      /\ Server[op].declares \subseteq ErrorType
      /\ "NotFound" \in Server[op].declares => 404 \in Client[op].errors
      /\ "Conflict" \in Server[op].declares => 409 \in Client[op].errors
  BY ClientFacts, ServerFacts
<1>2. Failure(op, err).body = "error"
  BY DEF Failure, Response
<1>3. CASE err \notin Server[op].declares
  <2>1. Failure(op, err).status = 500
    BY <1>3 DEF Failure, Response
  <2> QED
    BY <1>1, <1>2, <2>1 DEF Refusal
<1>4. CASE err \in Server[op].declares
  <2>1. err \in {"BadRequest", "NotFound", "Conflict", "InternalError"}
    BY <1>1, <1>4 DEF ErrorType
  <2>2. Failure(op, err).status = CASE err = "BadRequest" -> 400
                                    [] err = "NotFound"   -> 404
                                    [] err = "Conflict"   -> 409
                                    [] OTHER              -> 500
    BY <1>4 DEF Failure, Response
  <2>3. CASE err = "BadRequest"
    BY <1>1, <1>2, <2>2, <2>3 DEF Refusals, TypeOfStatus
  <2>4. CASE err = "NotFound"
    BY <1>1, <1>2, <1>4, <2>2, <2>4 DEF Refusals, TypeOfStatus
  <2>5. CASE err = "Conflict"
    BY <1>1, <1>2, <1>4, <2>2, <2>5 DEF Refusals, TypeOfStatus
  <2>6. CASE err = "InternalError"
    BY <1>1, <1>2, <2>2, <2>6 DEF Refusal
  <2> QED
    BY <2>1, <2>3, <2>4, <2>5, <2>6
<1> QED
  BY <1>3, <1>4

\* An error is honest if it is no refusal, or comes before any change, or is
\* one of the late refusals.
LEMMA FailureHonest ==
    ASSUME NEW s, s.op \in Op, NEW q, NEW last, NEW effect \in {0, 1}, NEW err,
           effect = 1 => /\ Unspent(s, q) /\ s.op \in Changes /\ s.defect \in {"none", "slash"}
                         /\ s.op = "UpdateWorkflowDefinition" => last # NoItem,
           err \in Refusals =>
               /\ Unspent(s, q)
               /\ effect = 1 => RefusedLate(s.op, err)
               /\ s.op \in {"PutStateResource", "UpdateWorkflowDefinition"} /\ s.defect \in {"none", "slash"}
                      => s.op = "UpdateWorkflowDefinition" /\ last = NoItem
    PROVE  Honest(s, q, Failure(s.op, err), effect, last)
<1> DEFINE resp == Failure(s.op, err)
<1>1. /\ resp.status \in Client[s.op].errors /\ resp.body = "error" /\ resp.status \in Nat
      /\ err \notin Refusals => resp.status = 500
      /\ resp.status \in Refusal => TypeOfStatus(resp.status) = err
  BY FailureFacts
<1>2. resp.status \in Refusal => err \in Refusals
  BY <1>1 DEF Refusal
<1>3. s.op \notin NoRoute
  BY OpNames DEF NoRoute
<1> HIDE DEF resp
<1>4. Honest(s, q, resp, effect, last)
  BY <1>1, <1>2, <1>3 DEF Honest, Fits
<1> QED
  BY <1>4 DEF resp

\* Any error that is no refusal.
LEMMA ErrorHonest ==
    ASSUME NEW s, s.op \in Op, NEW q, NEW last, NEW effect \in {0, 1}, NEW err, err \notin Refusals,
           effect = 1 => /\ Unspent(s, q) /\ s.op \in Changes /\ s.defect \in {"none", "slash"}
                         /\ s.op = "UpdateWorkflowDefinition" => last # NoItem
    PROVE  Honest(s, q, Failure(s.op, err), effect, last)
BY FailureHonest

-----------------------------------------------------------------------------
(***************************************************************************)
(* The three parts of the invariant.                                       *)
(***************************************************************************)

\* The iterations.
SearchesRight == iter \in [Caller -> Iterator] /\ \A c \in Caller : SearchRight(iter[c], index)

\* What has nothing but a type.
Typed ==
    /\ work \in Workloads
    /\ circuit \in {"debug", "closed", "open"}
    /\ resource \in Caller \cup {NoItem}
    /\ index \subseteq Workflow
    /\ Store!TypeOK

\* The invariant is the conjunction of the three.
LEMMA InvParts == Inv <=> Typed /\ CallsRight /\ SearchesRight
BY DEF Inv, Typed, CallsRight, SearchesRight, TypeOK

\* The same, after a step.
LEMMA InvPartsNext == Typed' /\ CallsRight' /\ SearchesRight' => Inv'
BY DEF Inv, Typed, CallsRight, SearchesRight, TypeOK

\* An iteration of its own.
LEMMA EachIter == SearchesRight <=> /\ iter = [c \in Caller |-> iter[c]]
                                    /\ \A c \in Caller : IterRight(iter[c], index)
BY DEF SearchesRight, IterRight

\* One iteration changes, or none.
LEMMA IterStep ==
    ASSUME SearchesRight, NEW c \in Caller, NEW new,
           iter' = [iter EXCEPT ![c] = new], index' = index, IterRight(new, index)
    PROVE  SearchesRight'
BY DEF SearchesRight, IterRight

\* Nothing changes for the iterations.
LEMMA IterStays ==
    ASSUME SearchesRight, UNCHANGED <<iter, index>>
    PROVE  SearchesRight'
BY DEF SearchesRight

\* An error ends the iteration of the caller, if there is one.
LEMMA FailIterKeeps ==
    ASSUME SearchesRight, NEW c \in Caller, FailIter(c), index' = index
    PROVE  SearchesRight'
<1>1. CASE call[c].op = "GetWorkflows"
  <2>1. iter' = [iter EXCEPT ![c] = Fail(iter[c])]
    BY <1>1 DEF FailIter
  <2>2. IterRight(Fail(iter[c]), index)
    BY EachIter, FailRight
  <2> QED
    BY <2>1, <2>2, IterStep
<1>2. CASE call[c].op # "GetWorkflows"
  <2>1. iter' = iter
    BY <1>2 DEF FailIter
  <2> QED
    BY <2>1, IterStays
<1> QED
  BY <1>1, <1>2

\* A request that ends with an answer.
LEMMA RespondKeeps ==
    ASSUME CallsRight, SearchesRight, index' = index, StoreGrows, NEW r \in Req,
           req'[r].pc = "idle", \A q \in Req : q # r => req'[q] = req[q],
           NEW resp, NEW version \in Int, NEW effect,
           serve[r].bond # "lost" => Honest(serve[r], req[r], resp, effect, latest),
           serve[r].op \in Defines /\ resp.body = serve[r].op
               => version \in DOMAIN versions /\ versions[version] = serve[r].caller,
           Respond(r, resp, version, effect)
    PROVE  CallsRight' /\ SearchesRight'
<1>1. Finish(r, resp, version, effect)
  BY DEF Respond
<1>2. CallsRight'
  BY <1>1, FinishKeeps
<1>3. serve[r].caller \in Caller
  BY DEF CallsRight, Request
<1>4. FailIter(serve[r].caller) \/ UNCHANGED iter
  BY DEF Respond
<1>5. SearchesRight'
  BY <1>3, <1>4, FailIterKeeps, IterStays
<1> QED
  BY <1>2, <1>5

\* The store, when nobody uses it.
LEMMA StoreStays == UNCHANGED storeVars => StoreGrows /\ req' = req
BY DEF storeVars, StoreGrows, Keeps

\* A request of the Handler that has no business with the store.
LEMMA RoutedRespond ==
    ASSUME CallsRight, SearchesRight, UNCHANGED <<index, storeVars>>, NEW r \in Req,
           serve[r].pc = "routed", NEW resp, NEW effect,
           serve[r].bond # "lost" => Honest(serve[r], req[r], resp, effect, latest),
           serve[r].op \in Defines => resp.body # serve[r].op,
           Respond(r, resp, -1, effect)
    PROVE  CallsRight' /\ SearchesRight'
<1>1. StoreGrows /\ req' = req /\ index' = index
  BY StoreStays
<1>2. req'[r].pc = "idle" /\ \A q \in Req : q # r => req'[q] = req[q]
  BY <1>1 DEF CallsRight, SaveRight
<1>3. -1 \in Int
  OBVIOUS
<1> QED
  BY <1>1, <1>2, <1>3, RespondKeeps

\* The request is typed, and so is the call it belongs to.
LEMMA RequestFacts ==
    ASSUME CallsRight, NEW r \in Req
    PROVE  /\ serve[r] \in Request /\ serve[r].caller \in Caller /\ call[serve[r].caller] \in Call
           /\ serve[r].op \in Op \cup NoRoute /\ serve[r].defect \in Defect
BY DEF CallsRight, Request

-----------------------------------------------------------------------------
(***************************************************************************)
(* The operations that do not come near the tables of definitions.         *)
(***************************************************************************)

\* A step that may write the state resource, and no other table.
LEMMA TypedStays ==
    ASSUME Typed, UNCHANGED <<work, circuit, index, storeVars>>, resource' \in Caller \cup {NoItem}
    PROVE  Typed'
<1>1. Store!TypeOK'
  BY DEF Typed, storeVars, Store!TypeOK
<1> QED
  BY <1>1 DEF Typed

\* A request that is answered at once keeps the invariant.
LEMMA AnswerKeeps ==
    ASSUME Inv, UNCHANGED <<work, circuit, index, storeVars>>, resource' \in Caller \cup {NoItem},
           NEW r \in Req, serve[r].pc = "routed", NEW resp, NEW effect,
           serve[r].bond # "lost" => Honest(serve[r], req[r], resp, effect, latest),
           serve[r].op \in Defines => resp.body # serve[r].op,
           Respond(r, resp, -1, effect)
    PROVE  Inv'
<1>1. Typed /\ CallsRight /\ SearchesRight
  BY InvParts
<1>2. Typed'
  BY <1>1, TypedStays
<1>3. CallsRight' /\ SearchesRight'
  BY <1>1, RoutedRespond
<1> QED
  BY <1>2, <1>3, InvPartsNext

\* With its result.
LEMMA SuccessKeeps ==
    ASSUME Inv, UNCHANGED <<work, circuit, index, storeVars>>, resource' \in Caller \cup {NoItem},
           NEW r \in Req, serve[r].pc = "routed", serve[r].op \in Op \ Defines,
           NEW effect \in {0, 1},
           effect = 1 => serve[r].op \in Changes /\ serve[r].defect \in {"none", "slash"},
           Respond(r, Success(serve[r].op), -1, effect)
    PROVE  Inv'
<1>1. Unspent(serve[r], req[r]) /\ serve[r].op # "UpdateWorkflowDefinition"
  BY DEF Unspent, Defines
<1>2. Honest(serve[r], req[r], Success(serve[r].op), effect, latest)
  BY <1>1, SuccessHonest
<1> QED
  BY <1>2, AnswerKeeps

\* With an error.
LEMMA FailureKeeps ==
    ASSUME Inv, UNCHANGED <<work, circuit, index, storeVars>>, resource' \in Caller \cup {NoItem},
           NEW r \in Req, serve[r].pc = "routed", serve[r].op \in Op,
           NEW effect \in {0, 1}, NEW err,
           effect = 1 => serve[r].op \in Changes \ Defines /\ serve[r].defect \in {"none", "slash"},
           err \in Refusals =>
               /\ effect = 1 => RefusedLate(serve[r].op, err)
               /\ (serve[r].op \in {"PutStateResource", "UpdateWorkflowDefinition"}
                      /\ serve[r].defect \in {"none", "slash"})
                      => serve[r].op = "UpdateWorkflowDefinition" /\ latest = NoItem,
           Respond(r, Failure(serve[r].op, err), -1, effect)
    PROVE  Inv'
<1>1. Unspent(serve[r], req[r]) /\ "UpdateWorkflowDefinition" \in Defines
  BY DEF Unspent, Defines
<1>2. Honest(serve[r], req[r], Failure(serve[r].op, err), effect, latest)
  BY <1>1, FailureHonest
<1>3. Failure(serve[r].op, err).body = "error" /\ "error" \notin Op
  BY OpNames, FailureFacts
<1> QED
  BY <1>2, <1>3, AnswerKeeps

\* A call of DynamoDB, SFN or Elasticsearch that fails.
LEMMA CallFailsKeeps ==
    ASSUME Inv, UNCHANGED <<work, circuit, index, storeVars>>, resource' \in Caller \cup {NoItem},
           NEW r \in Req, serve[r].pc = "routed", serve[r].op \in Op,
           NEW effect \in {0, 1}, effect = 1 => serve[r].op \in Changes \ Defines /\ serve[r].defect \in {"none", "slash"},
           CallFails(r, effect)
    PROVE  Inv'
<1>1. "error" \notin Refusals
  BY DEF Refusals
<1> QED
  BY <1>1, FailureKeeps DEF CallFails

\* The router's own pages.
LEMMA UnroutedKeeps ==
    ASSUME Inv, NEW r \in Req, Unrouted(r)
    PROVE  Inv'
<1> DEFINE resp == Response(IF serve[r].op = "404 page" THEN 404 ELSE 405, "text")
<1>1. /\ serve[r].pc = "routed" /\ serve[r].op \in NoRoute /\ Respond(r, resp, -1, 0)
      /\ UNCHANGED <<work, circuit, index, storeVars>> /\ UNCHANGED resource
  BY DEF Unrouted
<1>2. resp.status \in Nat /\ resp.body = "text"
  BY DEF Response
<1>3. resource' \in Caller \cup {NoItem}
  BY <1>1, InvParts DEF Typed
<1>4. /\ serve[r].op \notin Op /\ serve[r].op \notin Defines
      /\ serve[r].op \notin {"PutStateResource", "UpdateWorkflowDefinition"}
  BY <1>1, OpNames DEF NoRoute, Defines
<1> HIDE DEF resp
<1>5. Honest(serve[r], req[r], resp, 0, latest)
  BY <1>1, <1>2, <1>4 DEF Honest, Unspent
<1> QED
  BY <1>1, <1>3, <1>4, <1>5, AnswerKeeps

\* No operation rejects an input that has nothing wrong with it.
LEMMA RejectsDefects ==
    ASSUME NEW op \in Op
    PROVE  Server[op].rejects \subseteq {"invalid", "noBody"}
BY OpNames DEF Server, Endpoint,
     HealthCheckHandler, PostStateResourceHandler, DeleteStateResourceHandler,
     GetStateResourceHandler, PutStateResourceHandler, GetWorkflowDefinitionsHandler,
     NewWorkflowDefinitionHandler, GetWorkflowDefinitionVersionsByNameHandler,
     UpdateWorkflowDefinitionHandler, GetWorkflowDefinitionByNameAndVersionHandler,
     GetWorkflowsHandler, StartWorkflowHandler, CancelWorkflowHandler, GetWorkflowByIDHandler,
     ResumeWorkflowByIDHandler, ResolveWorkflowByIDHandler

\* Inputs that cannot be read or are not valid.
LEMMA RejectKeeps ==
    ASSUME Inv, NEW r \in Req, Reject(r)
    PROVE  Inv'
<1> DEFINE resp == Response(400, "error")
<1>1. /\ serve[r].pc = "routed" /\ Respond(r, resp, -1, 0)
      /\ UNCHANGED <<work, circuit, index, storeVars>> /\ UNCHANGED resource
  BY DEF Reject
<1>2. resp.status = 400 /\ resp.body = "error"
  BY DEF Response
<1>3. resource' \in Caller \cup {NoItem}
  BY <1>1, InvParts DEF Typed
<1>4. /\ serve[r].op \in Op
      /\ \/ serve[r].defect \notin {"none", "slash"}
         \/ serve[r].op = "GetWorkflowDefinitionByNameAndVersion"
  <2>1. CASE serve[r].op \in Op /\ serve[r].defect \in Server[serve[r].op].rejects
    BY <2>1, RejectsDefects
  <2>2. CASE serve[r].op = "GetWorkflowDefinitionByNameAndVersion"
    BY <2>2, OpNames
  <2> QED
    BY <2>1, <2>2 DEF Reject
<1>5. 400 \in Client[serve[r].op].errors
  BY <1>4, ClientFacts
<1>6. serve[r].op \notin NoRoute /\ (serve[r].op \in Defines => "error" # serve[r].op)
  BY <1>4, OpNames DEF NoRoute
<1> HIDE DEF resp
<1>7. Honest(serve[r], req[r], resp, 0, latest)
  BY <1>1, <1>2, <1>4, <1>5, <1>6 DEF Honest, Unspent, Fits
<1> QED
  BY <1>1, <1>2, <1>3, <1>6, <1>7, AnswerKeeps

\* The Handler's own checks.
LEMMA RefuseKeeps ==
    ASSUME Inv, NEW r \in Req, Refuse(r)
    PROVE  Inv'
<1>1. PICK err : Respond(r, Failure(serve[r].op, err), -1, 0)
  BY DEF Refuse
<1>2. /\ serve[r].pc = "routed" /\ serve[r].defect \notin {"none", "slash"}
      /\ UNCHANGED <<work, circuit, index, storeVars>> /\ UNCHANGED resource
  BY DEF Refuse
<1>3. resource' \in Caller \cup {NoItem}
  BY <1>2, InvParts DEF Typed
<1>4. CASE serve[r].op \in Op
  <2>1. 0 \in {0, 1} /\ 0 # 1
    OBVIOUS
  <2> QED
    BY <1>1, <1>2, <1>3, <1>4, <2>1, FailureKeeps
<1>5. CASE serve[r].op \notin Op
  <2>1. CallsRight
    BY InvParts
  <2>2. call[serve[r].caller].op \in Op
    BY <2>1, RequestFacts DEF Call
  <2>3. BondRight(serve[r], req[r], call[serve[r].caller])
    BY <2>1 DEF CallsRight
  <2>4. serve[r].bond # "lost" => serve[r].op = call[serve[r].caller].op
    BY <1>2, <2>2, <2>3, RouteFacts DEF BondRight
  <2>5. serve[r].bond = "lost" /\ serve[r].op \notin Defines
    BY <1>5, <2>2, <2>4, OpNames DEF Defines
  <2> QED
    BY <1>1, <1>2, <1>3, <2>5, AnswerKeeps
<1> QED
  BY <1>4, <1>5

\* 0 and 1 are the only effects.
LEMMA Effects == 0 \in {0, 1} /\ 1 \in {0, 1} /\ 0 # 1
OBVIOUS

\* Operations on workflows.
LEMMA WorkflowOperationKeeps ==
    ASSUME Inv, NEW r \in Req, WorkflowOperation(r)
    PROVE  Inv'
<1> DEFINE op == serve[r].op
<1>1. /\ serve[r].pc = "routed" /\ op \in DOMAIN Outcomes /\ serve[r].defect \in {"none", "slash"}
      /\ UNCHANGED <<work, circuit, index, storeVars>> /\ UNCHANGED resource
  BY DEF WorkflowOperation, Accepted
<1>2. resource' \in Caller \cup {NoItem}
  BY <1>1, InvParts DEF Typed
<1>3. op \in {"HealthCheck", "StartWorkflow", "CancelWorkflow", "GetWorkflowByID",
              "ResumeWorkflowByID", "ResolveWorkflowByID"}
  BY <1>1 DEF Outcomes
<1>4. op \in Op \ Defines /\ op \notin {"PutStateResource", "UpdateWorkflowDefinition"}
  BY <1>3, OpNames DEF Defines
<1>5. PICK out \in Outcomes[op] :
        Respond(r, IF out[1] = "ok" THEN Success(op) ELSE Failure(op, out[1]), -1, out[2])
  BY DEF WorkflowOperation
<1>6. /\ out[2] \in {0, 1}
      /\ out[2] = 1 => /\ op \in Changes
                       /\ out[1] \in Refusals => RefusedLate(op, out[1])
  BY <1>3, <1>5 DEF Outcomes, Changes, Refusals, RefusedLate
<1>7. CASE out[1] = "ok"
  BY <1>1, <1>2, <1>4, <1>5, <1>6, <1>7, SuccessKeeps
<1>8. CASE out[1] # "ok"
  BY <1>1, <1>2, <1>4, <1>5, <1>6, <1>8, FailureKeeps
<1> QED
  BY <1>7, <1>8

\* State resources.
LEMMA SaveStateResourceKeeps ==
    ASSUME Inv, NEW r \in Req, SaveStateResource(r)
    PROVE  Inv'
<1>1. /\ serve[r].pc = "routed" /\ serve[r].op \in {"PostStateResource", "PutStateResource"}
      /\ serve[r].defect \in {"none", "slash"} /\ UNCHANGED <<work, circuit, index, storeVars>>
  BY DEF SaveStateResource, Accepted
<1>2. serve[r].op \in Op \ Defines /\ serve[r].op \in Changes
  BY <1>1, OpNames DEF Defines, Changes
<1>3. serve[r].caller \in Caller /\ resource \in Caller \cup {NoItem}
  BY InvParts, RequestFacts DEF Typed
<1>4. CASE resource' = serve[r].caller /\ (Respond(r, Success(serve[r].op), -1, 1) \/ CallFails(r, 1))
  BY <1>1, <1>2, <1>3, <1>4, Effects, SuccessKeeps, CallFailsKeeps
<1>5. CASE UNCHANGED resource /\ CallFails(r, 0)
  BY <1>1, <1>2, <1>3, <1>5, Effects, CallFailsKeeps
<1> QED
  BY <1>4, <1>5 DEF SaveStateResource

LEMMA GetStateResourceKeeps ==
    ASSUME Inv, NEW r \in Req, GetStateResource(r)
    PROVE  Inv'
<1>1. /\ serve[r].pc = "routed" /\ serve[r].op = "GetStateResource"
      /\ UNCHANGED <<work, circuit, index, storeVars>> /\ UNCHANGED resource
  BY DEF GetStateResource, Accepted
<1>2. serve[r].op \in Op \ Defines /\ serve[r].op \notin {"PutStateResource", "UpdateWorkflowDefinition"}
  BY <1>1, OpNames DEF Defines
<1>3. resource' \in Caller \cup {NoItem}
  BY <1>1, InvParts DEF Typed
<1>4. \/ Respond(r, Success(serve[r].op), -1, 0)
      \/ Respond(r, Failure(serve[r].op, "NotFound"), -1, 0)
      \/ CallFails(r, 0)
  BY DEF GetStateResource
<1> QED
  BY <1>1, <1>2, <1>3, <1>4, Effects, SuccessKeeps, FailureKeeps, CallFailsKeeps

LEMMA DeleteStateResourceKeeps ==
    ASSUME Inv, NEW r \in Req, DeleteStateResource(r)
    PROVE  Inv'
<1>1. /\ serve[r].pc = "routed" /\ serve[r].op = "DeleteStateResource"
      /\ serve[r].defect \in {"none", "slash"} /\ UNCHANGED <<work, circuit, index, storeVars>>
  BY DEF DeleteStateResource, Accepted
<1>2. /\ serve[r].op \in Op \ Defines /\ serve[r].op \in Changes \ Defines
      /\ serve[r].op \notin {"PutStateResource", "UpdateWorkflowDefinition"}
  BY <1>1, OpNames DEF Defines, Changes
<1>3. resource' \in Caller \cup {NoItem}
  BY InvParts DEF Typed, DeleteStateResource
<1>4. PICK effect \in {0, 1} : \/ Respond(r, Success(serve[r].op), -1, effect)
                               \/ Respond(r, Failure(serve[r].op, "NotFound"), -1, effect)
                               \/ CallFails(r, effect)
  BY DEF DeleteStateResource
<1>5. CASE Respond(r, Success(serve[r].op), -1, effect)
  BY <1>1, <1>2, <1>3, <1>5, SuccessKeeps
<1>6. CASE Respond(r, Failure(serve[r].op, "NotFound"), -1, effect)
  BY <1>1, <1>2, <1>3, <1>6, FailureKeeps DEF RefusedLate
<1>7. CASE CallFails(r, effect)
  BY <1>1, <1>2, <1>3, <1>7, CallFailsKeeps
<1> QED
  BY <1>4, <1>5, <1>6, <1>7

\* Reading definitions.
LEMMA GetWorkflowDefinitionsKeeps ==
    ASSUME Inv, NEW r \in Req, GetWorkflowDefinitions(r)
    PROVE  Inv'
<1>1. /\ serve[r].pc = "routed" /\ serve[r].op = "GetWorkflowDefinitions"
      /\ UNCHANGED <<work, circuit, index, storeVars>> /\ UNCHANGED resource
  BY DEF GetWorkflowDefinitions, Accepted
<1>2. serve[r].op \in Op \ Defines
  BY <1>1, OpNames DEF Defines
<1>3. resource' \in Caller \cup {NoItem}
  BY <1>1, InvParts DEF Typed
<1>4. Respond(r, Success(serve[r].op), -1, 0) \/ CallFails(r, 0)
  BY DEF GetWorkflowDefinitions
<1> QED
  BY <1>1, <1>2, <1>3, <1>4, Effects, SuccessKeeps, CallFailsKeeps

LEMMA GetWorkflowDefinitionVersionsKeeps ==
    ASSUME Inv, NEW r \in Req, GetWorkflowDefinitionVersions(r)
    PROVE  Inv'
<1>1. /\ serve[r].pc = "routed"
      /\ serve[r].op \in {"GetWorkflowDefinitionVersionsByName", "GetWorkflowDefinitionByNameAndVersion"}
      /\ UNCHANGED <<work, circuit, index, storeVars>> /\ UNCHANGED resource
  BY DEF GetWorkflowDefinitionVersions, Accepted
<1>2. serve[r].op \in Op \ Defines /\ serve[r].op \notin {"PutStateResource", "UpdateWorkflowDefinition"}
  BY <1>1, OpNames DEF Defines
<1>3. resource' \in Caller \cup {NoItem}
  BY <1>1, InvParts DEF Typed
<1>4. \/ Respond(r, Success(serve[r].op), -1, 0)
      \/ Respond(r, Failure(serve[r].op, "NotFound"), -1, 0)
      \/ CallFails(r, 0)
  BY DEF GetWorkflowDefinitionVersions
<1> QED
  BY <1>1, <1>2, <1>3, <1>4, Effects, SuccessKeeps, FailureKeeps, CallFailsKeeps

\* An update that finds nothing to update.
LEMMA UpdateFailsKeeps ==
    ASSUME Inv, NEW r \in Req, UpdateFails(r)
    PROVE  Inv'
<1>1. /\ serve[r].pc = "routed" /\ serve[r].op = "UpdateWorkflowDefinition"
      /\ UNCHANGED <<work, circuit, index, storeVars>> /\ UNCHANGED resource
  BY DEF UpdateFails, Accepted
<1>2. serve[r].op \in Op
  BY <1>1, OpNames
<1>3. resource' \in Caller \cup {NoItem}
  BY <1>1, InvParts DEF Typed
<1>4. CASE latest = NoItem /\ Respond(r, Failure(serve[r].op, "NotFound"), -1, 0)
  BY <1>1, <1>2, <1>3, <1>4, Effects, FailureKeeps
<1>5. CASE CallFails(r, 0)
  BY <1>1, <1>2, <1>3, <1>5, Effects, CallFailsKeeps
<1> QED
  BY <1>4, <1>5 DEF UpdateFails

-----------------------------------------------------------------------------
(***************************************************************************)
(* The client, the TimeoutHandler and the search.                          *)
(***************************************************************************)

\* A page of the search.
LEMMA GetWorkflowsKeeps ==
    ASSUME Inv, NEW r \in Req, GetWorkflows(r)
    PROVE  Inv'
<1> DEFINE c == serve[r].caller
<1>1. /\ serve[r].pc = "routed" /\ serve[r].op = "GetWorkflows"
      /\ UNCHANGED <<work, circuit, index, storeVars>> /\ UNCHANGED resource /\ index' = index
  BY DEF GetWorkflows, Accepted
<1>2. serve[r].op \in Op \ Defines
  BY <1>1, OpNames DEF Defines
<1>3. Typed /\ CallsRight /\ SearchesRight
  BY InvParts
<1>4. resource' \in Caller \cup {NoItem} /\ c \in Caller /\ index \in SUBSET Workflow
  BY <1>1, <1>3, RequestFacts DEF Typed
<1>5. CASE CallFails(r, 0)
  BY <1>1, <1>2, <1>4, <1>5, Effects, CallFailsKeeps
<1>6. ASSUME NEW page \in Pages(index, iter[c].query),
             Finish(r, Success(serve[r].op), -1, 0),
             iter' = IF serve[r].bond = "live" THEN [iter EXCEPT ![c] = Refresh(iter[c], page)] ELSE iter
      PROVE  Inv'
  <2>1. StoreGrows /\ req' = req
    BY <1>1, StoreStays
  <2>2. req'[r].pc = "idle" /\ \A q \in Req : q # r => req'[q] = req[q]
    BY <1>1, <1>3, <2>1 DEF CallsRight, SaveRight
  <2>3. Honest(serve[r], req[r], Success(serve[r].op), 0, latest)
    BY <1>2, Effects, SuccessHonest
  <2>4. -1 \in Int
    OBVIOUS
  <2>5. CallsRight'
    BY <1>2, <1>3, <1>6, <2>1, <2>2, <2>3, <2>4, FinishKeeps
  <2>6. IterRight(iter[c], index)
    BY <1>3, <1>4, EachIter
  <2>7. IterRight(Refresh(iter[c], page), index)
    BY <1>4, <1>6, <2>6, RefreshRight
  <2>8. SearchesRight'
    BY <1>1, <1>3, <1>4, <1>6, <2>7, IterStep, IterStays
  <2>9. Typed'
    BY <1>1, <1>3, <1>4, TypedStays
  <2> QED
    BY <2>5, <2>8, <2>9, InvPartsNext
<1> QED
  BY <1>5, <1>6 DEF GetWorkflows

\* The index changes.
LEMMA IndexKeeps ==
    ASSUME Inv, NEW w \in Workflow, Index(w)
    PROVE  Inv'
<1>1. Typed /\ CallsRight /\ SearchesRight
  BY InvParts
<1>2. /\ index' \in SUBSET Workflow
      /\ UNCHANGED <<work, call, serve, circuit, resource, storeVars>>
      /\ iter' = [c \in Caller |-> [iter[c] EXCEPT !.all = iter[c].all \cap index']]
  BY <1>1 DEF Index, Typed
<1>3. \A c \in Caller : IterRight([iter[c] EXCEPT !.all = iter[c].all \cap index'], index')
  BY <1>1, <1>2, EachIter, IndexRight
<1>4. SearchesRight'
  BY <1>2, <1>3 DEF SearchesRight, IterRight
<1>5. CallsRight'
  BY <1>1, <1>2 DEF CallsRight, storeVars
<1>6. Typed'
  BY <1>1, <1>2 DEF Typed, storeVars, Store!TypeOK
<1> QED
  BY <1>4, <1>5, <1>6, InvPartsNext

\* The circuit breaker.
LEMMA TripKeeps ==
    ASSUME Inv, Trip
    PROVE  Inv'
<1>1. Typed /\ CallsRight /\ SearchesRight
  BY InvParts
<1>2. CallsRight' /\ SearchesRight'
  BY <1>1 DEF Trip, CallsRight, SearchesRight, storeVars
<1>3. Typed'
  BY <1>1 DEF Trip, Typed, storeVars, Store!TypeOK
<1> QED
  BY <1>2, <1>3, InvPartsNext

\* The bonds and the saves of requests that are left alone.
LEMMA SlotsStay ==
    ASSUME CallsRight, UNCHANGED storeVars
    PROVE  /\ serve \in [Req -> Request] /\ OneLive(serve)
           /\ \A q \in Req : SaveRight(serve[q], req'[q], versions', latest')
           /\ \A q \in Req : BondRight(serve[q], req'[q], call[serve[q].caller])
BY DEF CallsRight, storeVars

\* A call returns with an error of the transport.
LEMMA ReturnRight ==
    ASSUME NEW c, NEW k \in Call, NEW all, NEW last, CallRight(c, k, all, last)
    PROVE  LET new == [k EXCEPT !.pc = "idle", !.answer = "transport"]
           IN  new \in Call /\ CallRight(c, new, all, last)
<1> DEFINE new == [k EXCEPT !.pc = "idle", !.answer = "transport"]
<1>1. "transport" \in Answer /\ "transport" \notin ErrorType
  BY DEF Answer, ErrorType
<1>2. /\ new \in Call /\ new.pc = "idle" /\ new.op = k.op /\ new.defect = k.defect
      /\ new.tries = k.tries /\ new.effects = k.effects /\ new.answer = "transport"
  BY <1>1 DEF Call
<1> HIDE DEF new
<1>3. CallRight(c, new, all, last)
  BY <1>1, <1>2 DEF CallRight
<1> QED
  BY <1>2, <1>3 DEF new

\* As above, with all its requests.
LEMMA ReturnKeeps ==
    ASSUME CallsRight, UNCHANGED storeVars, NEW c \in Caller, Return(c, "transport"),
           NEW slots \in [Req -> Request], OneLive(slots),
           \A q \in Req : SaveRight(slots[q], req'[q], versions', latest'),
           \A q \in Req : BondRight(slots[q], req'[q], call[slots[q].caller]),
           serve' = Orphaned(c, slots)
    PROVE  CallsRight'
<1> DEFINE new == [call[c] EXCEPT !.pc = "idle", !.answer = "transport"]
<1>1. call[c] \in Call /\ CallRight(c, call[c], versions, latest)
  BY DEF CallsRight
<1>2. new \in Call /\ CallRight(c, new, versions, latest)
  BY <1>1, ReturnRight
<1>3. call' = [call EXCEPT ![c] = new]
  BY <1>1 DEF Return
<1>4. StoreGrows
  BY StoreStays
<1>5. CallRight(c, new, versions', latest')
  BY <1>2 DEF storeVars
<1> HIDE DEF new
<1> QED
  BY <1>2, <1>3, <1>4, <1>5, StepKeeps

\* The connection fails, or the client's timeout expires.
LEMMA TransportErrorKeeps ==
    ASSUME Inv, NEW c \in Caller, TransportError(c)
    PROVE  Inv'
<1>1. Typed /\ CallsRight /\ SearchesRight
  BY InvParts
<1>2. /\ Return(c, "transport") /\ serve' = Orphaned(c, serve) /\ FailIter(c)
      /\ UNCHANGED <<work, circuit, index, storeVars>> /\ UNCHANGED storeVars
      /\ UNCHANGED resource /\ index' = index
  BY DEF TransportError
<1>3. CallsRight'
  BY <1>1, <1>2, SlotsStay, ReturnKeeps
<1>4. SearchesRight'
  BY <1>1, <1>2, FailIterKeeps
<1>5. Typed'
  <2>1. resource' \in Caller \cup {NoItem}
    BY <1>1, <1>2 DEF Typed
  <2> QED
    BY <1>1, <1>2, <2>1, TypedStays
<1> QED
  BY <1>3, <1>4, <1>5, InvPartsNext

\* The Handler panics.
LEMMA PanicKeeps ==
    ASSUME Inv, NEW r \in Req, Panic(r)
    PROVE  Inv'
<1> DEFINE c == serve[r].caller
           slots == [serve EXCEPT ![r] = Free]
<1>1. Typed /\ CallsRight /\ SearchesRight
  BY InvParts
<1>2. /\ serve[r].pc = "routed" /\ UNCHANGED <<work, circuit, index, storeVars>> /\ UNCHANGED storeVars
      /\ UNCHANGED resource /\ index' = index
      /\ \/ Return(c, "transport") /\ serve' = Orphaned(c, slots) /\ FailIter(c)
         \/ UNCHANGED <<call, iter>> /\ serve' = slots
  BY DEF Panic
<1>3. StoreGrows /\ req' = req /\ c \in Caller
  BY <1>1, <1>2, StoreStays, RequestFacts
<1>4. req'[r].pc = "idle" /\ \A q \in Req : q # r => req'[q] = req[q]
  BY <1>1, <1>2, <1>3 DEF CallsRight, SaveRight
<1>5. /\ slots \in [Req -> Request] /\ OneLive(slots)
      /\ \A q \in Req : SaveRight(slots[q], req'[q], versions', latest')
      /\ \A q \in Req : BondRight(slots[q], req'[q], call[slots[q].caller])
  BY <1>1, <1>3, <1>4, FreedKeeps
<1> HIDE DEF slots
<1>6. CallsRight'
  <2>1. CASE Return(c, "transport") /\ serve' = Orphaned(c, slots)
    BY <1>1, <1>2, <1>3, <1>5, <2>1, ReturnKeeps
  <2>2. CASE UNCHANGED call /\ serve' = slots
    <3>1. \A d \in Caller : CallRight(d, call'[d], versions', latest')
      BY <1>1, <1>2, <2>2 DEF CallsRight, storeVars
    <3> QED
      BY <1>1, <1>5, <2>2, <3>1 DEF CallsRight
  <2> QED
    BY <1>2, <2>1, <2>2
<1>7. SearchesRight'
  BY <1>1, <1>2, <1>3, FailIterKeeps, IterStays
<1>8. Typed'
  <2>1. resource' \in Caller \cup {NoItem}
    BY <1>1, <1>2 DEF Typed
  <2> QED
    BY <1>1, <1>2, <2>1, TypedStays
<1> QED
  BY <1>6, <1>7, <1>8, InvPartsNext

\* The answer of the TimeoutHandler; the request goes on.
LEMMA TimeoutHandlerKeeps ==
    ASSUME Inv, NEW r \in Req, TimeoutHandler(r)
    PROVE  Inv'
<1> DEFINE s == serve[r]
           c == s.caller
           k == call[c]
           resp == Response(503, "text")
           new == Received(c, resp, -1)
           slots == [serve EXCEPT ![r].bond = "late"]
<1>1. Typed /\ CallsRight /\ SearchesRight
  BY InvParts
<1>2. /\ s.pc # "free" /\ s.bond = "live" /\ UNCHANGED <<work, circuit, index, storeVars>>
      /\ UNCHANGED storeVars /\ UNCHANGED resource /\ index' = index
      /\ call' = [call EXCEPT ![c] = new]
      /\ IF new.pc = "idle" THEN serve' = Orphaned(c, slots) /\ FailIter(c)
                            ELSE serve' = slots /\ UNCHANGED iter
  BY DEF TimeoutHandler
<1>3. s \in Request /\ c \in Caller /\ k \in Call /\ s.op \in Op \cup NoRoute
  BY <1>1, RequestFacts
<1>4. CallRight(c, k, versions, latest) /\ BondRight(s, req[r], k) /\ SaveRight(s, req[r], versions, latest)
  BY <1>1, <1>3 DEF CallsRight
<1>5. resp.status = 503 /\ resp.body = "text"
  BY DEF Response
<1>6. "text" \notin Op /\ "text" \notin Defines
  BY OpNames DEF Defines
<1> HIDE DEF resp
<1>7. Honest(s, req[r], resp, 0, latest)
  BY <1>5 DEF Honest, Refusal
<1>8. k.effects \in Nat /\ k.tries \in Nat /\ k.effects = k.effects + 0
  BY <1>3 DEF Call
<1>9. /\ new \in Call /\ new.op = k.op /\ new.defect = k.defect /\ new.effects = k.effects + 0
      /\ \/ /\ new.pc = "send" /\ new.tries = k.tries + 1 /\ new.answer = k.answer
            /\ Client[k.op].method # "POST"
         \/ /\ new.pc = "idle" /\ new.tries = k.tries
            /\ new.answer = Decode(k.op, resp)
            /\ new.answer = "ok" => new.version = -1
  <2>1. -1 \in Int /\ resp.status \in Nat
    BY <1>5
  <2> QED
    BY <1>3, <1>8, <2>1, ReceivedFacts
<1> HIDE DEF new
<1>10. CallRight(c, new, versions, latest)
  <2>1. -1 \in Int /\ s.caller = c
    OBVIOUS
  <2>2. s.op \in Defines /\ resp.body = s.op => -1 \in DOMAIN versions /\ versions[-1] = c
    BY <1>5, <1>6
  <2> HIDE DEF s, c, k
  <2> QED
    BY <1>2, <1>3, <1>4, <1>7, <1>9, <2>1, <2>2, AnsweredRight
<1>11. StoreGrows /\ CallRight(c, new, versions', latest')
  BY <1>2, <1>10, StoreStays DEF storeVars
<1>12. /\ slots \in [Req -> Request] /\ \A q \in Req : q # r => slots[q] = serve[q]
       /\ slots[r].pc = s.pc /\ slots[r].caller = c /\ slots[r].op = s.op
       /\ slots[r].defect = s.defect /\ slots[r].bond = "late"
  <2>1. slots[r] = [s EXCEPT !.bond = "late"] /\ [s EXCEPT !.bond = "late"] \in Request
    BY <1>1, <1>3 DEF CallsRight, Request
  <2> QED
    BY <1>1, <1>3, <2>1 DEF CallsRight, Request
<1> HIDE DEF slots
<1>13. OneLive(slots)
  BY <1>1, <1>12 DEF CallsRight, OneLive
<1>14. \A q \in Req : SaveRight(slots[q], req'[q], versions', latest')
  <2>1. SaveRight(slots[r], req'[r], versions', latest')
    BY <1>2, <1>4, <1>12 DEF SaveRight, storeVars
  <2> QED
    BY <1>1, <1>2, <1>12, <2>1, SlotsStay
<1>15. \A q \in Req : slots[q].caller # c => BondRight(slots[q], req'[q], call[slots[q].caller])
  BY <1>1, <1>2, <1>12, SlotsStay
<1>16. ASSUME new.pc = "send"
       PROVE  \A q \in Req : slots[q].caller = c => BondRight(slots[q], req'[q], new)
  <2>1. new.tries = k.tries + 1 /\ new.tries \in Nat /\ new.tries > 0 /\ new.tries >= k.tries
    BY <1>8, <1>9, <1>16
  <2>2. BondRight(slots[r], req'[r], new)
    BY <1>2, <1>4, <1>9, <1>12, <1>16, <2>1 DEF BondRight
  <2>3. ASSUME NEW q \in Req, q # r, slots[q].caller = c
        PROVE  BondRight(slots[q], req'[q], new)
    <3>1. slots[q] = serve[q] /\ serve[q].caller = c /\ serve[q].bond # "live"
      BY <1>1, <1>2, <1>12, <2>3 DEF CallsRight, OneLive
    <3>2. BondRight(serve[q], req'[q], k)
      BY <1>1, <1>2, <3>1, SlotsStay
    <3> QED
      BY <1>8, <1>9, <1>16, <2>1, <3>1, <3>2, OtherBonds
  <2> QED
    BY <2>2, <2>3
<1>17. CallsRight'
  <2>1. /\ CallsRight /\ StoreGrows /\ c \in Caller /\ new \in Call
        /\ CallRight(c, new, versions', latest') /\ call' = [call EXCEPT ![c] = new]
        /\ slots \in [Req -> Request] /\ OneLive(slots)
    BY <1>1, <1>2, <1>3, <1>9, <1>11, <1>12, <1>13
  <2>2. \/ serve' = Orphaned(c, slots)
        \/ /\ serve' = slots
           /\ \A q \in Req : slots[q].caller = c => BondRight(slots[q], req'[q], new)
    BY <1>2, <1>9, <1>16
  <2> HIDE DEF c
  <2> QED
    BY <1>14, <1>15, <2>1, <2>2, StepKeeps
<1>18. SearchesRight'
  BY <1>1, <1>2, <1>3, FailIterKeeps, IterStays
<1>19. Typed'
  <2>1. resource' \in Caller \cup {NoItem}
    BY <1>1, <1>2 DEF Typed
  <2> QED
    BY <1>1, <1>2, <2>1, TypedStays
<1> QED
  BY <1>17, <1>18, <1>19, InvPartsNext

\* A request is sent.
LEMMA SendKeeps ==
    ASSUME Inv, NEW c \in Caller, Send(c)
    PROVE  Inv'
<1> DEFINE k == call[c]
           new == [k EXCEPT !.pc = "wait"]
<1>1. Typed /\ CallsRight /\ SearchesRight
  BY InvParts
<1>2. /\ k.pc = "send" /\ UNCHANGED <<work, circuit, index, storeVars>>
      /\ UNCHANGED storeVars /\ UNCHANGED resource /\ UNCHANGED <<iter, index>>
  BY DEF Send
<1>3. PICK r \in Req, route \in Routes(k.op, k.defect) :
        /\ serve[r].pc = "free"
        /\ serve' = [serve EXCEPT ![r] = [pc |-> "routed", caller |-> c, op |-> route,
                                          defect |-> k.defect, bond |-> "live"]]
  BY DEF Send
<1> DEFINE sent == [pc |-> "routed", caller |-> c, op |-> route, defect |-> k.defect, bond |-> "live"]
           slots == [serve EXCEPT ![r] = sent]
<1>4. k \in Call /\ k.op \in Op /\ k.defect \in Defect /\ k.tries \in Nat
  BY <1>1 DEF CallsRight, Call
<1>5. CallRight(c, k, versions, latest)
  BY <1>1 DEF CallsRight
<1>6. route \in Op \cup NoRoute
  BY <1>4, RouteFacts
<1>7. /\ sent \in Request /\ sent.pc = "routed" /\ sent.caller = c /\ sent.op = route
      /\ sent.defect = k.defect /\ sent.bond = "live"
  BY <1>4, <1>6 DEF Request
<1> HIDE DEF sent
<1>8. serve' = slots /\ slots \in [Req -> Request] /\ slots[r] = sent /\ \A q \in Req : q # r => slots[q] = serve[q]
  BY <1>1, <1>3, <1>7 DEF CallsRight, sent
<1> HIDE DEF slots
<1>9. /\ new \in Call /\ new.pc = "wait" /\ new.op = k.op /\ new.defect = k.defect
      /\ new.tries = k.tries /\ new.effects = k.effects /\ new.answer = k.answer /\ new.version = k.version
  BY <1>4 DEF Call
<1>10. call' = [call EXCEPT ![c] = new]
  BY <1>1 DEF Send, CallsRight
<1> HIDE DEF new
<1>11. CallRight(c, new, versions, latest)
  BY <1>2, <1>5, <1>9 DEF CallRight
<1>12. StoreGrows /\ CallRight(c, new, versions', latest') /\ req' = req
  BY <1>2, <1>11, StoreStays DEF storeVars
<1>13. \A q \in Req : serve[q].caller = c => serve[q].bond # "live"
  BY <1>1, <1>2 DEF CallsRight, BondRight
<1>14. OneLive(slots)
  BY <1>1, <1>7, <1>8, <1>13 DEF CallsRight, OneLive
<1>15. \A q \in Req : SaveRight(slots[q], req'[q], versions', latest')
  <2>1. req[r].pc = "idle"
    BY <1>1, <1>3 DEF CallsRight, SaveRight
  <2>2. SaveRight(slots[r], req'[r], versions', latest')
    BY <1>7, <1>8, <1>12, <2>1 DEF SaveRight
  <2> QED
    BY <1>1, <1>2, <1>8, <2>2, SlotsStay
<1>16. \A q \in Req : slots[q].caller # c => BondRight(slots[q], req'[q], call[slots[q].caller])
  BY <1>1, <1>2, <1>7, <1>8, SlotsStay
<1>17. \A q \in Req : slots[q].caller = c => BondRight(slots[q], req'[q], new)
  <2>1. BondRight(slots[r], req'[r], new)
    BY <1>2, <1>3, <1>5, <1>7, <1>8, <1>9 DEF BondRight, CallRight
  <2>2. ASSUME NEW q \in Req, q # r, slots[q].caller = c
        PROVE  BondRight(slots[q], req'[q], new)
    <3>1. slots[q] = serve[q] /\ serve[q].caller = c /\ serve[q].bond # "live"
      BY <1>8, <1>13, <2>2
    <3>2. BondRight(serve[q], req'[q], k)
      BY <1>1, <1>2, <3>1, SlotsStay
    <3>3. new.tries \in Nat /\ new.tries >= k.tries /\ new.pc # "idle"
      BY <1>4, <1>9
    <3> QED
      BY <1>4, <1>9, <3>1, <3>2, <3>3, OtherBonds
  <2> QED
    BY <2>1, <2>2
<1>18. CallsRight'
  BY <1>1, <1>8, <1>9, <1>10, <1>12, <1>14, <1>15, <1>16, <1>17, StepKeeps
<1>19. SearchesRight'
  BY <1>1, <1>2, IterStays
<1>20. Typed'
  <2>1. resource' \in Caller \cup {NoItem}
    BY <1>1, <1>2 DEF Typed
  <2> QED
    BY <1>1, <1>2, <2>1, TypedStays
<1> QED
  BY <1>18, <1>19, <1>20, InvPartsNext

\* A client method is called.
LEMMA InvokeKeeps ==
    ASSUME Inv, NEW c \in Caller, Invoke(c)
    PROVE  Inv'
<1>1. Typed /\ CallsRight /\ SearchesRight
  BY InvParts
<1>2. /\ call[c].pc = "idle" /\ UNCHANGED <<work, circuit, index, storeVars>>
      /\ UNCHANGED storeVars /\ UNCHANGED resource /\ index' = index /\ serve' = serve
  BY DEF Invoke
<1>3. PICK ask \in work.asks[c] :
        LET op == ask[1]
            d  == ask[2]
            refused == d \in Client[op].refuses
            blocked == circuit = "open"
        IN  call' = [call EXCEPT ![c] =
                [Idle EXCEPT !.pc = IF refused \/ blocked THEN "idle" ELSE "send",
                             !.op = op, !.defect = d,
                             !.answer = IF refused THEN "refused"
                                        ELSE IF blocked THEN "circuit" ELSE "none"]]
  BY DEF Invoke
<1> DEFINE op == ask[1]
           d == ask[2]
           refused == d \in Client[op].refuses
           blocked == circuit = "open"
           pc == IF refused \/ blocked THEN "idle" ELSE "send"
           answer == IF refused THEN "refused" ELSE IF blocked THEN "circuit" ELSE "none"
           new == [Idle EXCEPT !.pc = pc, !.op = op, !.defect = d, !.answer = answer]
<1>4. op \in Op /\ d \in Defect
  <2>1. work \in [asks : [Caller -> SUBSET (Op \X Defect)], circuit : {"debug", "closed"}]
    BY <1>1, ServiceCallsAssumption DEF Typed
  <2>2. work.asks[c] \in SUBSET (Op \X Defect)
    BY <2>1
  <2>3. ask \in Op \X Defect
    BY <2>2
  <2> QED
    BY <2>3
<1>5. /\ pc \in {"idle", "send"} /\ answer \in {"refused", "circuit", "none"}
      /\ pc # "idle" => answer = "none"
  OBVIOUS
<1>6. call' = [call EXCEPT ![c] = new]
  BY <1>3
<1> HIDE DEF op, d, pc, answer
<1>7. answer \in Answer /\ answer \notin ErrorType \cup {"ok", "decode", "unknown"}
  BY <1>5 DEF Answer, ErrorType
<1>8. /\ new \in Call /\ new.pc = pc /\ new.answer = answer /\ new.tries = 0 /\ new.effects = 0
  <2>1. Idle \in Call /\ Idle.tries = 0 /\ Idle.effects = 0
    BY OpNames DEF Idle, Call, Defect, Answer
  <2> QED
    BY <1>4, <1>5, <1>7, <2>1 DEF Call
<1> HIDE DEF new
<1>9. CallRight(c, new, versions', latest')
  BY <1>5, <1>7, <1>8 DEF CallRight
<1>10. \A q \in Req : serve[q].caller = c => serve[q].bond = "lost"
  BY <1>1, <1>2 DEF CallsRight, BondRight, Request
<1>11. \A q \in Req : serve[q].caller = c => BondRight(serve[q], req'[q], new)
  BY <1>10 DEF BondRight
<1>12. StoreGrows
  BY <1>2, StoreStays
<1>13. CallsRight'
  BY <1>1, <1>2, <1>6, <1>8, <1>9, <1>11, <1>12, SlotsStay, StepKeeps
<1>14. SearchesRight'
  <2>1. index \in SUBSET Workflow
    BY <1>1 DEF Typed
  <2>2. CASE UNCHANGED iter
    BY <1>1, <1>2, <2>2, IterStays
  <2>3. ASSUME NEW oldestFirst \in BOOLEAN, iter' = [iter EXCEPT ![c] = NewGetWorkflowsIter(oldestFirst, index)]
        PROVE  SearchesRight'
    BY <1>1, <1>2, <2>1, <2>3, NewIterRight, IterStep
  <2> QED
    BY <2>2, <2>3 DEF Invoke
<1>15. Typed'
  <2>1. resource' \in Caller \cup {NoItem}
    BY <1>1, <1>2 DEF Typed
  <2> QED
    BY <1>1, <1>2, <2>1, TypedStays
<1> QED
  BY <1>13, <1>14, <1>15, InvPartsNext

-----------------------------------------------------------------------------
(***************************************************************************)
(* Definitions on their way to the store.                                  *)
(***************************************************************************)

\* A request to the store changes its state.
LEMMA GotoFacts ==
    ASSUME Store!TypeOK, NEW r \in Req, NEW state \in Store!Request, Store!Goto(r, state)
    PROVE  /\ req' \in [Req -> Store!Request] /\ req'[r] = state
           /\ \A q \in Req : q # r => req'[q] = req[q]
BY DEF Store!TypeOK, Store!Goto

\* A request to the store ends.
LEMMA ReturnFacts ==
    ASSUME Store!TypeOK, NEW r \in Req, Store!Return(r)
    PROVE  /\ req' \in [Req -> Store!Request] /\ req'[r].pc = "idle"
           /\ \A q \in Req : q # r => req'[q] = req[q]
<1>1. Store!IdleRequest \in Store!Request /\ Store!IdleRequest.pc = "idle"
  BY DEF Store!IdleRequest, Store!Request
<1> QED
  BY <1>1, GotoFacts DEF Store!Return

\* The Handler begins to save a definition of its caller.
LEMMA BeginSave ==
    ASSUME Typed, CallsRight, NEW r \in Req, SaveDefinition(r)
    PROVE  /\ Store!TypeOK' /\ UNCHANGED <<versions, latest>>
           /\ \A q \in Req : q # r => req'[q] = req[q]
           /\ req'[r].pc = "version"
           /\ req'[r].item \in Store!Item /\ req'[r].item.version <= MaxVersion
           /\ req'[r].item.def = serve[r].caller
           /\ serve[r].op = "UpdateWorkflowDefinition" => latest # NoItem
<1>1. Store!TypeOK /\ req'[r].item.def = serve[r].caller
  BY DEF Typed, SaveDefinition
<1>2. CASE serve[r].op = "NewWorkflowDefinition" /\ Store!NewWorkflowDefinition(r)
  <2>1. PICK d \in Caller : Store!Goto(r, [pc |-> "version", op |-> "new",
                                           item |-> [version |-> 0, def |-> d]])
    BY <1>2 DEF Store!NewWorkflowDefinition
  <2> DEFINE item == [version |-> 0, def |-> d]
             state == [pc |-> "version", op |-> "new", item |-> item]
  <2>2. item \in Store!Item /\ item.version = 0
    BY DEF Store!Item
  <2> HIDE DEF item
  <2>3. state \in Store!Request /\ state.pc = "version" /\ state.item = item
    BY <2>2 DEF Store!Request
  <2>4. UNCHANGED <<versions, latest, acked>> /\ Store!Goto(r, state)
    BY <1>2, <2>1 DEF Store!NewWorkflowDefinition, item
  <2> HIDE DEF state
  <2>5. /\ req' \in [Req -> Store!Request] /\ req'[r] = state
        /\ \A q \in Req : q # r => req'[q] = req[q]
    BY <1>1, <2>3, <2>4, GotoFacts
  <2>6. Store!TypeOK'
    BY <1>1, <2>4, <2>5 DEF Store!TypeOK
  <2>7. 0 <= MaxVersion
    BY ServiceCallsAssumption
  <2> QED
    BY <1>1, <1>2, <2>2, <2>3, <2>4, <2>5, <2>6, <2>7
<1>3. CASE serve[r].op = "UpdateWorkflowDefinition" /\ Store!UpdateWorkflowDefinition(r)
  <2>1. PICK d \in Caller : Store!Goto(r, [pc |-> "version", op |-> "update",
                                           item |-> [version |-> latest.version + 1, def |-> d]])
    BY <1>3 DEF Store!UpdateWorkflowDefinition
  <2> DEFINE v == latest.version + 1
             item == [version |-> v, def |-> d]
             state == [pc |-> "version", op |-> "update", item |-> item]
  <2>2. latest # NoItem /\ latest.version < MaxVersion /\ latest \in Store!Item
    BY <1>1, <1>3 DEF Store!UpdateWorkflowDefinition, Store!TypeOK
  <2>3. v \in Nat /\ v <= MaxVersion
    BY <2>2, ServiceCallsAssumption DEF Store!Item
  <2>4. UNCHANGED <<versions, latest, acked>> /\ Store!Goto(r, state)
    BY <1>3, <2>1 DEF Store!UpdateWorkflowDefinition
  <2> HIDE DEF v
  <2>5. item \in Store!Item /\ item.version = v
    BY <2>3 DEF Store!Item
  <2> HIDE DEF item
  <2>6. state \in Store!Request /\ state.pc = "version" /\ state.item = item
    BY <2>5 DEF Store!Request
  <2> HIDE DEF state
  <2>7. /\ req' \in [Req -> Store!Request] /\ req'[r] = state
        /\ \A q \in Req : q # r => req'[q] = req[q]
    BY <1>1, <2>4, <2>6, GotoFacts
  <2>8. Store!TypeOK'
    BY <1>1, <2>4, <2>7 DEF Store!TypeOK
  <2> QED
    BY <1>1, <2>2, <2>3, <2>4, <2>5, <2>6, <2>7, <2>8
<1> QED
  BY <1>2, <1>3 DEF SaveDefinition, Accepted

\* The step that takes a request from the Handler to the store.
LEMMA SaveDefinitionKeeps ==
    ASSUME Inv, NEW r \in Req, SaveDefinition(r)
    PROVE  Inv'
<1> DEFINE s == serve[r]
           c == s.caller
           k == call[c]
           slots == [serve EXCEPT ![r].pc = "store"]
<1>1. Typed /\ CallsRight /\ SearchesRight
  BY InvParts
<1>2. /\ Store!TypeOK' /\ UNCHANGED <<versions, latest>>
      /\ \A q \in Req : q # r => req'[q] = req[q]
      /\ req'[r].pc = "version"
      /\ req'[r].item \in Store!Item /\ req'[r].item.version <= MaxVersion
      /\ req'[r].item.def = c
      /\ s.op = "UpdateWorkflowDefinition" => latest # NoItem
  BY <1>1, BeginSave
<1>3. /\ s.pc = "routed" /\ s.op \in Defines /\ s.defect \in {"none", "slash"}
      /\ serve' = slots /\ call' = call /\ UNCHANGED <<work, circuit, resource, index>>
      /\ UNCHANGED <<iter, index>>
  BY DEF SaveDefinition, Accepted, Defines, callVars
<1>4. s \in Request /\ c \in Caller /\ k \in Call
  BY <1>1, RequestFacts
<1>5. CallRight(c, k, versions, latest) /\ BondRight(s, req[r], k)
  BY <1>1, <1>4 DEF CallsRight
<1>6. /\ slots \in [Req -> Request] /\ \A q \in Req : q # r => slots[q] = serve[q]
      /\ slots[r].pc = "store" /\ slots[r].caller = c /\ slots[r].op = s.op
      /\ slots[r].defect = s.defect /\ slots[r].bond = s.bond
  <2>1. slots[r] = [s EXCEPT !.pc = "store"] /\ [s EXCEPT !.pc = "store"] \in Request
    BY <1>1, <1>4 DEF CallsRight, Request
  <2> QED
    BY <1>1, <1>4, <2>1 DEF CallsRight, Request
<1> HIDE DEF slots
<1>7. OneLive(slots)
  BY <1>1, <1>6 DEF CallsRight, OneLive
<1>8. \A q \in Req : SaveRight(slots[q], req'[q], versions', latest')
  <2>1. SaveRight(slots[r], req'[r], versions', latest')
    BY <1>2, <1>3, <1>6 DEF SaveRight
  <2> QED
    BY <1>1, <1>2, <1>6, <2>1 DEF CallsRight
<1>9. \A q \in Req : BondRight(slots[q], req'[q], call[slots[q].caller])
  <2>1. BondRight(slots[r], req'[r], k)
    BY <1>2, <1>3, <1>5, <1>6 DEF BondRight, Unspent
  <2> QED
    BY <1>1, <1>2, <1>6, <2>1 DEF CallsRight
<1>10. CallsRight'
  <2>1. \A d \in Caller : CallRight(d, call'[d], versions', latest')
    BY <1>1, <1>2, <1>3 DEF CallsRight
  <2> QED
    BY <1>1, <1>3, <1>6, <1>7, <1>8, <1>9, <2>1 DEF CallsRight
<1>11. SearchesRight'
  BY <1>1, <1>3, IterStays
<1>12. Typed'
  BY <1>1, <1>2, <1>3 DEF Typed
<1> QED
  BY <1>10, <1>11, <1>12, InvPartsNext

\* The first put, of a version that is new.
LEMMA PutFacts ==
    ASSUME Store!TypeOK, NEW item \in Store!Item, item.version <= MaxVersion,
           item.version \notin DOMAIN versions, Store!PutVersion(item)
    PROVE  /\ Keeps(versions, versions') /\ Store!Saved(item, versions')
           /\ DOMAIN versions' \subseteq 0 .. MaxVersion
           /\ versions' \in [DOMAIN versions' -> Caller]
<1>1. item.version \in 0 .. MaxVersion /\ item.def \in Caller
  BY ServiceCallsAssumption DEF Store!Item
<1>2. /\ DOMAIN versions \subseteq 0 .. MaxVersion
      /\ \A v \in DOMAIN versions : versions[v] \in Caller
  BY DEF Store!TypeOK
<1>3. versions' = [v \in DOMAIN versions \cup {item.version} |->
                      IF v = item.version THEN item.def ELSE versions[v]]
  BY DEF Store!PutVersion
<1> QED
  BY <1>1, <1>2, <1>3 DEF Keeps, Store!Saved

\* What a request to the store is about.
LEMMA SavingFacts ==
    ASSUME CallsRight, NEW r \in Req, serve[r].pc = "store"
    PROVE  /\ serve[r].op \in Defines /\ serve[r].op \in Op /\ serve[r].op \in Changes
           /\ serve[r].defect \in {"none", "slash"}
           /\ serve[r].op = "UpdateWorkflowDefinition" => latest # NoItem
           /\ req[r].item \in Store!Item /\ req[r].item.version <= MaxVersion
           /\ req[r].item.version \in Int
           /\ req[r].item.def = serve[r].caller
           /\ req[r].pc \in {"latest", "get"} => Store!Saved(req[r].item, versions)
<1>1. SaveRight(serve[r], req[r], versions, latest)
  BY DEF CallsRight
<1>2. /\ serve[r].op \in Defines /\ serve[r].defect \in {"none", "slash"}
      /\ serve[r].op = "UpdateWorkflowDefinition" => latest # NoItem
      /\ req[r].item \in Store!Item /\ req[r].item.version <= MaxVersion
      /\ req[r].item.def = serve[r].caller
      /\ req[r].pc \in {"latest", "get"} => Store!Saved(req[r].item, versions)
  BY <1>1 DEF SaveRight
<1>3. serve[r].op \in Op /\ serve[r].op \in Changes
  BY <1>2, OpNames DEF Defines, Changes
<1>4. req[r].item.version \in Int
  BY <1>2 DEF Store!Item
<1> QED
  BY <1>2, <1>3, <1>4

\* A request to the store that goes on, having made its change.
LEMMA GoOnKeeps ==
    ASSUME CallsRight, StoreGrows, NEW r \in Req, serve[r].pc = "store",
           \A q \in Req : q # r => req'[q] = req[q],
           SaveRight(serve[r], req'[r], versions', latest'),
           req'[r].pc # "version", serve' = serve,
           call' = call \/ (CountEffect(r) /\ req[r].pc = "version")
    PROVE  CallsRight'
<1> DEFINE s == serve[r]
           c == s.caller
           k == call[c]
<1>1. s \in Request /\ c \in Caller /\ k \in Call /\ s.bond \in {"live", "late", "lost"}
  BY RequestFacts DEF Request
<1>2. CallRight(c, k, versions, latest) /\ BondRight(s, req[r], k)
  BY <1>1 DEF CallsRight
<1>3. \A q \in Req : SaveRight(serve[q], req'[q], versions', latest')
  BY SaveStays DEF CallsRight, StoreGrows
<1>4. BondRight(s, req'[r], k)
  BY <1>2 DEF BondRight, Unspent
<1>5. \A q \in Req : BondRight(serve[q], req'[q], call[serve[q].caller])
  BY <1>4 DEF CallsRight
<1>6. CASE call' = call
  <2>1. \A d \in Caller : CallRight(d, call'[d], versions', latest')
    BY <1>6, CallStays DEF CallsRight, StoreGrows
  <2> QED
    BY <1>3, <1>5, <1>6, <2>1 DEF CallsRight
<1>7. CASE CountEffect(r) /\ req[r].pc = "version" /\ s.bond = "lost"
  <2>1. call' = call
    <3>1. call' = [call EXCEPT ![c].effects = k.effects]
      BY <1>1, <1>7 DEF CountEffect
    <3> QED
      BY <1>1, <3>1 DEF CallsRight, Call
  <2> QED
    BY <1>6, <2>1
<1>8. CASE CountEffect(r) /\ req[r].pc = "version" /\ s.bond # "lost"
  <2> DEFINE sum == k.effects + 1
             new == [k EXCEPT !.effects = sum]
  <2>1. k.effects \in Nat /\ sum \in Nat /\ k.tries \in Nat /\ k.op \in Op
    BY <1>1 DEF Call
  <2>2. call' = [call EXCEPT ![c] = new]
    BY <1>1, <1>8 DEF CountEffect, CallsRight
  <2> HIDE DEF sum
  <2>3. /\ new \in Call /\ new.pc = k.pc /\ new.op = k.op /\ new.defect = k.defect
        /\ new.tries = k.tries /\ new.answer = k.answer /\ new.version = k.version /\ new.effects = sum
    BY <1>1, <2>1 DEF Call
  <2> HIDE DEF new
  <2>4. /\ s.op \in Defines /\ s.op \in Op /\ s.op \in Changes
        /\ s.defect \in {"none", "slash"}
        /\ s.op = "UpdateWorkflowDefinition" => latest # NoItem
    BY SavingFacts
  <2>5. /\ s.defect = k.defect /\ k.defect = "none" /\ k.op = s.op /\ k.pc # "idle"
    <3>1. s.defect = k.defect /\ s.op \in Routes(k.op, k.defect) /\ k.pc # "idle"
      BY <1>1, <1>2, <1>8 DEF BondRight
    <3>2. s.op # "ResolveWorkflowByID"
      BY <2>4 DEF Defines
    <3> QED
      BY <2>1, <2>4, <3>1, <3>2, RouteFacts
  <2>6. k.answer = "none" /\ "none" \notin ErrorType \cup {"ok", "decode", "unknown"}
    BY <1>2, <2>5 DEF CallRight, ErrorType
  <2>7. k.tries = 0 => k.effects = 0 /\ k.pc = "wait"
    BY <1>1, <1>2, <1>8, <2>1 DEF BondRight, Unspent
  <2>8. CallRight(c, new, versions, latest)
    BY <1>2, <2>1, <2>3, <2>4, <2>5, <2>6, <2>7 DEF CallRight, sum
  <2>9. CallRight(c, new, versions', latest')
    BY <2>8, CallStays DEF StoreGrows
  <2>10. \A q \in Req : serve[q].caller # c => BondRight(serve[q], req'[q], call[serve[q].caller])
    BY <1>5
  <2>11. \A q \in Req : serve[q].caller = c => BondRight(serve[q], req'[q], new)
    <3>1. BondRight(serve[r], req'[r], new)
      BY <1>4, <2>3 DEF BondRight, Unspent
    <3>2. ASSUME NEW q \in Req, q # r, serve[q].caller = c
          PROVE  BondRight(serve[q], req'[q], new)
      <4>1. BondRight(serve[q], req'[q], k)
        BY <1>5, <3>2
      <4>2. s.bond = "live" => serve[q].bond # "live"
        BY <3>2 DEF CallsRight, OneLive
      <4>3. s.bond = "late" => k.tries > 0
        BY <1>2 DEF BondRight
      <4> QED
        BY <1>1, <1>8, <2>1, <2>3, <4>1, <4>2, <4>3 DEF BondRight
    <3> QED
      BY <3>1, <3>2
  <2>12. serve \in [Req -> Request] /\ OneLive(serve)
    BY DEF CallsRight
  <2> QED
    BY <1>1, <1>3, <2>2, <2>3, <2>9, <2>10, <2>11, <2>12, StepKeeps
<1> QED
  BY <1>6, <1>7, <1>8

\* The first put of a definition.
LEMMA SaveVersionKeeps ==
    ASSUME Typed, CallsRight, SearchesRight, UNCHANGED index, NEW r \in Req, serve[r].pc = "store",
           Store!SaveVersion(r),
           IF req'[r].pc = "idle"
           THEN Respond(r, Failure(serve[r].op, "ConflictError"), -1, IF versions' # versions THEN 1 ELSE 0)
           ELSE CountEffect(r) /\ UNCHANGED <<serve, iter>>
    PROVE  Store!TypeOK' /\ CallsRight' /\ SearchesRight'
<1> DEFINE item == req[r].item
<1>1. /\ serve[r].op \in Defines /\ serve[r].op \in Op /\ serve[r].op \in Changes
      /\ serve[r].defect \in {"none", "slash"}
      /\ serve[r].op = "UpdateWorkflowDefinition" => latest # NoItem
      /\ item \in Store!Item /\ item.version <= MaxVersion
      /\ item.def = serve[r].caller
  BY SavingFacts
<1>2. Store!TypeOK /\ req[r] \in Store!Request /\ req[r].pc = "version" /\ UNCHANGED <<latest, acked>>
  BY DEF Typed, Store!SaveVersion, Store!TypeOK
<1>3. ASSUME Store!Return(r), DOMAIN versions' \subseteq 0 .. MaxVersion,
             versions' \in [DOMAIN versions' -> Caller], Keeps(versions, versions')
      PROVE  Store!TypeOK' /\ CallsRight' /\ SearchesRight'
  <2> DEFINE effect == IF versions' # versions THEN 1 ELSE 0
             resp == Failure(serve[r].op, "ConflictError")
  <2>1. /\ req' \in [Req -> Store!Request] /\ req'[r].pc = "idle"
        /\ \A q \in Req : q # r => req'[q] = req[q]
    BY <1>2, <1>3, ReturnFacts
  <2>2. Store!TypeOK'
    BY <1>2, <1>3, <2>1 DEF Store!TypeOK
  <2>3. Respond(r, resp, -1, effect)
    BY <2>1
  <2>4. effect \in {0, 1} /\ -1 \in Int /\ "ConflictError" \notin Refusals
    BY DEF Refusals
  <2>5. resp.body = "error" /\ "error" \notin Op
    BY <1>1, OpNames, FailureFacts
  <2> HIDE DEF effect
  <2>6. Honest(serve[r], req[r], resp, effect, latest)
    BY <1>1, <1>2, <2>4, ErrorHonest DEF Unspent
  <2>7. StoreGrows
    BY <1>2, <1>3 DEF StoreGrows
  <2>8. /\ serve[r].op \in Defines /\ resp.body = serve[r].op
              => -1 \in DOMAIN versions /\ versions[-1] = serve[r].caller
        /\ index' = index
    BY <1>1, <2>5
  <2> HIDE DEF resp
  <2>9. CallsRight' /\ SearchesRight'
    BY <2>1, <2>3, <2>4, <2>6, <2>7, <2>8, RespondKeeps
  <2> QED
    BY <2>2, <2>9
<1>4. CASE item.version \notin DOMAIN versions /\ Store!PutVersion(item)
  <2>1. /\ Keeps(versions, versions') /\ Store!Saved(item, versions')
        /\ DOMAIN versions' \subseteq 0 .. MaxVersion
        /\ versions' \in [DOMAIN versions' -> Caller]
    BY <1>1, <1>2, <1>4, PutFacts
  <2>2. CASE Store!Return(r)
    BY <1>3, <2>1, <2>2
  <2>3. CASE Store!Goto(r, [req[r] EXCEPT !.pc = "latest"])
    <3> DEFINE state == [req[r] EXCEPT !.pc = "latest"]
    <3>1. state \in Store!Request /\ state.pc = "latest" /\ state.item = item
      BY <1>2 DEF Store!Request
    <3> HIDE DEF state
    <3>2. /\ req' \in [Req -> Store!Request] /\ req'[r] = state
          /\ \A q \in Req : q # r => req'[q] = req[q]
      BY <1>2, <2>3, <3>1, GotoFacts DEF state
    <3>3. Store!TypeOK'
      BY <1>2, <2>1, <3>2 DEF Store!TypeOK
    <3>4. StoreGrows
      BY <1>2, <2>1 DEF StoreGrows
    <3>5. CountEffect(r) /\ serve' = serve /\ iter' = iter
      BY <3>1, <3>2
    <3>6. SaveRight(serve[r], req'[r], versions', latest')
      BY <1>1, <1>2, <2>1, <3>1, <3>2 DEF SaveRight
    <3>7. CallsRight'
      BY <1>2, <3>1, <3>2, <3>4, <3>5, <3>6, GoOnKeeps
    <3>8. SearchesRight'
      BY <3>5, IterStays
    <3> QED
      BY <3>3, <3>7, <3>8
  <2> QED
    BY <1>4, <2>2, <2>3 DEF Store!SaveVersion
<1>5. CASE item.version \in DOMAIN versions /\ Store!Return(r) /\ UNCHANGED versions
  <2>1. /\ DOMAIN versions' \subseteq 0 .. MaxVersion
        /\ versions' \in [DOMAIN versions' -> Caller] /\ Keeps(versions, versions')
    BY <1>2, <1>5 DEF Store!TypeOK, Keeps
  <2> QED
    BY <1>3, <1>5, <2>1
<1> QED
  BY <1>4, <1>5 DEF Store!SaveVersion

\* A definition that is saved is answered with its version.
LEMMA SavedRespond ==
    ASSUME CallsRight, SearchesRight, UNCHANGED index, StoreGrows,
           NEW r \in Req, serve[r].pc = "store", req[r].pc \in {"latest", "get"},
           req'[r].pc = "idle", \A q \in Req : q # r => req'[q] = req[q],
           Respond(r, Success(serve[r].op), req[r].item.version, 0)
    PROVE  CallsRight' /\ SearchesRight'
<1> DEFINE version == req[r].item.version
           resp == Success(serve[r].op)
<1>1. /\ serve[r].op \in Op /\ req[r].item.def = serve[r].caller /\ version \in Int
      /\ Store!Saved(req[r].item, versions)
  BY SavingFacts
<1>2. Honest(serve[r], req[r], resp, 0, latest)
  BY <1>1, Effects, SuccessHonest
<1>3. version \in DOMAIN versions /\ versions[version] = serve[r].caller
  BY <1>1 DEF Store!Saved
<1>4. index' = index
  OBVIOUS
<1> HIDE DEF version, resp
<1>5. Respond(r, resp, version, 0)
  BY DEF version, resp
<1> QED
  BY <1>1, <1>2, <1>3, <1>4, <1>5, RespondKeeps

\* The second put of a definition, and the read that follows an update.
LEMMA SaveLatestKeeps ==
    ASSUME Typed, CallsRight, SearchesRight, UNCHANGED index, NEW r \in Req, serve[r].pc = "store",
           Store!SaveLatest(r),
           IF req'[r].pc = "idle" THEN Respond(r, Success(serve[r].op), req[r].item.version, 0)
           ELSE UNCHANGED <<call, serve, iter>>
    PROVE  Store!TypeOK' /\ CallsRight' /\ SearchesRight'
<1> DEFINE item == req[r].item
<1>1. /\ serve[r].op \in Defines /\ serve[r].defect \in {"none", "slash"}
      /\ item \in Store!Item /\ item.version <= MaxVersion /\ item.def = serve[r].caller
      /\ req[r].pc \in {"latest", "get"} => Store!Saved(item, versions)
  BY SavingFacts
<1>2. /\ Store!TypeOK /\ req[r] \in Store!Request /\ req[r].pc = "latest"
      /\ latest' = item /\ UNCHANGED versions
  BY DEF Typed, Store!SaveLatest, Store!TypeOK
<1>3. latest' # NoItem
  BY <1>1, <1>2, ServiceCallsAssumption
<1>4. StoreGrows
  BY <1>2, <1>3 DEF StoreGrows, Keeps
<1>5. CASE Store!Return(r) /\ acked' = acked \cup {item}
  <2>1. /\ req' \in [Req -> Store!Request] /\ req'[r].pc = "idle"
        /\ \A q \in Req : q # r => req'[q] = req[q]
    BY <1>2, <1>5, ReturnFacts
  <2>2. Store!TypeOK'
    BY <1>1, <1>2, <1>5, <2>1 DEF Store!TypeOK
  <2>3. CallsRight' /\ SearchesRight'
    BY <1>2, <1>4, <2>1, SavedRespond
  <2> QED
    BY <2>2, <2>3
<1>6. CASE Store!Goto(r, [req[r] EXCEPT !.pc = "get"]) /\ UNCHANGED acked
  <2> DEFINE state == [req[r] EXCEPT !.pc = "get"]
  <2>1. state \in Store!Request /\ state.pc = "get" /\ state.item = item
    BY <1>2 DEF Store!Request
  <2> HIDE DEF state
  <2>2. /\ req' \in [Req -> Store!Request] /\ req'[r] = state
        /\ \A q \in Req : q # r => req'[q] = req[q]
    BY <1>2, <1>6, <2>1, GotoFacts DEF state
  <2>3. Store!TypeOK'
    BY <1>1, <1>2, <1>6, <2>2 DEF Store!TypeOK
  <2>4. UNCHANGED <<call, serve, iter>>
    BY <2>1, <2>2
  <2>5. SaveRight(serve[r], req'[r], versions', latest')
    BY <1>1, <1>2, <1>3, <2>1, <2>2 DEF SaveRight
  <2>6. CallsRight'
    BY <1>4, <2>1, <2>2, <2>4, <2>5, GoOnKeeps
  <2>7. SearchesRight'
    BY <2>4, IterStays
  <2> QED
    BY <2>3, <2>6, <2>7
<1> QED
  BY <1>5, <1>6 DEF Store!SaveLatest

\* The Handler saves a definition, step by step.
LEMMA SavingDefinitionKeeps ==
    ASSUME Inv, NEW r \in Req, SavingDefinition(r)
    PROVE  Inv'
<1> DEFINE item == req[r].item
<1>1. Typed /\ CallsRight /\ SearchesRight
  BY InvParts
<1>2. serve[r].pc = "store" /\ UNCHANGED <<work, circuit, resource, index>> /\ UNCHANGED index
  BY DEF SavingDefinition
<1>3. /\ serve[r].op \in Defines /\ serve[r].op \in Op
      /\ serve[r].defect \in {"none", "slash"}
      /\ item \in Store!Item /\ item.version <= MaxVersion /\ item.def = serve[r].caller
      /\ req[r].pc \in {"latest", "get"} => Store!Saved(item, versions)
  BY <1>1, <1>2, SavingFacts
<1>4. Store!TypeOK
  BY <1>1 DEF Typed
<1>5. Store!TypeOK' /\ CallsRight' /\ SearchesRight'
  <2>1. CASE /\ Store!SaveVersion(r)
             /\ IF req'[r].pc = "idle"
                THEN Respond(r, Failure(serve[r].op, "ConflictError"), -1,
                             IF versions' # versions THEN 1 ELSE 0)
                ELSE CountEffect(r) /\ UNCHANGED <<serve, iter>>
    BY <1>1, <1>2, <2>1, SaveVersionKeeps
  <2>2. CASE /\ Store!SaveLatest(r)
             /\ IF req'[r].pc = "idle" THEN Respond(r, Success(serve[r].op), req[r].item.version, 0)
                                       ELSE UNCHANGED <<call, serve, iter>>
    BY <1>1, <1>2, <2>2, SaveLatestKeeps
  <2>3. CASE Store!ResendLatest(r) /\ UNCHANGED <<call, serve, iter>>
    <3>1. latest' = item /\ UNCHANGED <<versions, req, acked>> /\ req[r].pc = "latest"
      BY <2>3 DEF Store!ResendLatest
    <3>2. latest' # NoItem
      BY <1>3, <3>1, ServiceCallsAssumption
    <3>3. StoreGrows
      BY <3>1, <3>2 DEF StoreGrows, Keeps
    <3>4. Store!TypeOK'
      BY <1>3, <1>4, <3>1 DEF Store!TypeOK
    <3>5. SaveRight(serve[r], req'[r], versions', latest')
      BY <1>2, <1>3, <3>1, <3>2 DEF SaveRight
    <3>6. CallsRight'
      BY <1>1, <1>2, <2>3, <3>1, <3>3, <3>5, GoOnKeeps
    <3>7. SearchesRight'
      BY <1>1, <1>2, <2>3, IterStays
    <3> QED
      BY <3>4, <3>6, <3>7
  <2>4. CASE Store!GetWorkflowDefinition(r) /\ Respond(r, Success(serve[r].op), req[r].item.version, 0)
    <3>1. /\ req[r].pc = "get" /\ Store!Return(r) /\ UNCHANGED <<versions, latest>>
          /\ acked' = acked \cup {[version |-> item.version, def |-> versions[item.version]]}
      BY <2>4 DEF Store!GetWorkflowDefinition
    <3>2. /\ req' \in [Req -> Store!Request] /\ req'[r].pc = "idle"
          /\ \A q \in Req : q # r => req'[q] = req[q]
      BY <1>4, <3>1, ReturnFacts
    <3>3. StoreGrows
      BY <3>1 DEF StoreGrows, Keeps
    <3>4. [version |-> item.version, def |-> versions[item.version]] \in Store!Item
      BY <1>3, <3>1 DEF Store!Saved, Store!Item
    <3>5. Store!TypeOK'
      BY <1>4, <3>1, <3>2, <3>4 DEF Store!TypeOK
    <3>6. CallsRight' /\ SearchesRight'
      BY <1>1, <1>2, <2>4, <3>1, <3>2, <3>3, SavedRespond
    <3> QED
      BY <3>5, <3>6
  <2>5. CASE Store!Abandon(r) /\ CallFails(r, 0)
    <3> DEFINE resp == Failure(serve[r].op, "error")
    <3>1. Store!Return(r) /\ UNCHANGED <<versions, latest, acked>>
      BY <2>5 DEF Store!Abandon
    <3>2. /\ req' \in [Req -> Store!Request] /\ req'[r].pc = "idle"
          /\ \A q \in Req : q # r => req'[q] = req[q]
      BY <1>4, <3>1, ReturnFacts
    <3>3. StoreGrows
      BY <3>1 DEF StoreGrows, Keeps
    <3>4. Store!TypeOK'
      BY <1>4, <3>1, <3>2 DEF Store!TypeOK
    <3>5. "error" \notin Refusals /\ "error" \notin Op /\ -1 \in Int
      BY OpNames DEF Refusals
    <3>6. Honest(serve[r], req[r], resp, 0, latest)
      BY <1>3, <3>5, Effects, ErrorHonest
    <3>7. resp.body # serve[r].op
      BY <1>3, <3>5, FailureFacts
    <3>8. Respond(r, resp, -1, 0)
      BY <2>5 DEF CallFails
    <3> HIDE DEF resp
    <3>9. CallsRight' /\ SearchesRight'
      BY <1>1, <1>2, <3>2, <3>3, <3>5, <3>6, <3>7, <3>8, RespondKeeps
    <3> QED
      BY <3>4, <3>9
  <2> QED
    BY <2>1, <2>2, <2>3, <2>4, <2>5 DEF SavingDefinition
<1>6. Typed'
  BY <1>1, <1>2, <1>5 DEF Typed
<1> QED
  BY <1>5, <1>6, InvPartsNext

-----------------------------------------------------------------------------
(***************************************************************************)
(* The theorems.                                                           *)
(***************************************************************************)

\* The invariant holds when nothing has been asked for.
LEMMA InitInv == Init => Inv
<1> SUFFICES ASSUME Init PROVE Inv
  OBVIOUS
<1>1. Typed
  <2>1. Store!TypeOK
    BY DEF Init, Store!Init, Store!TypeOK, Store!Request, Store!IdleRequest
  <2>2. work.circuit \in {"debug", "closed"}
    BY ServiceCallsAssumption DEF Init
  <2> QED
    BY <2>1, <2>2 DEF Init, Typed
<1>2. SearchesRight
  <2>1. IterRight(Fail(NewGetWorkflowsIter(FALSE, {})), {})
    BY NewIterRight, FailRight
  <2> QED
    BY <2>1 DEF Init, SearchesRight, IterRight
<1>3. CallsRight
  <2>1. /\ Idle \in Call /\ Idle.pc = "idle" /\ Idle.answer = "none" /\ Idle.tries = 0 /\ Idle.effects = 0
    BY OpNames DEF Idle, Call, Defect, Answer
  <2>2. Free \in Request /\ Free.pc = "free" /\ Free.bond = "lost"
    BY ServiceCallsAssumption, OpNames DEF Free, Request, Defect, Someone
  <2>3. "none" \notin ErrorType \cup {"ok", "decode", "unknown"}
    BY DEF ErrorType
  <2>4. \A c \in Caller : CallRight(c, Idle, versions, latest)
    BY <2>1, <2>3 DEF CallRight
  <2>5. \A r \in Req : req[r].pc = "idle"
    BY DEF Init, Store!Init, Store!IdleRequest
  <2>6. \A r \in Req : /\ BondRight(Free, req[r], call[Free.caller])
                       /\ SaveRight(Free, req[r], versions, latest)
    BY <2>2, <2>5 DEF BondRight, SaveRight
  <2>7. OneLive(serve)
    BY <2>2 DEF Init, OneLive
  <2> QED
    BY <2>1, <2>2, <2>4, <2>6, <2>7 DEF Init, CallsRight
<1> QED
  BY <1>1, <1>2, <1>3, InvParts

\* Every step of a client or of the service keeps the invariant.
LEMMA StepInv == Inv /\ [Next]_vars => Inv'
<1> SUFFICES ASSUME Inv, [Next]_vars PROVE Inv'
  OBVIOUS
<1>1. ASSUME NEW c \in Caller, Invoke(c) \/ Send(c) \/ TransportError(c)
      PROVE  Inv'
  BY <1>1, InvokeKeeps, SendKeeps, TransportErrorKeeps
<1>2. CASE Trip
  BY <1>2, TripKeeps
<1>3. ASSUME NEW r \in Req, Handle(r)
      PROVE  Inv'
  BY <1>3, UnroutedKeeps, RejectKeeps, PanicKeeps, RefuseKeeps, WorkflowOperationKeeps,
     SaveStateResourceKeeps, GetStateResourceKeeps, DeleteStateResourceKeeps,
     GetWorkflowDefinitionsKeeps, GetWorkflowDefinitionVersionsKeeps, SaveDefinitionKeeps,
     UpdateFailsKeeps, SavingDefinitionKeeps, GetWorkflowsKeeps DEF Handle
<1>4. ASSUME NEW r \in Req, TimeoutHandler(r)
      PROVE  Inv'
  BY <1>4, TimeoutHandlerKeeps
<1>5. ASSUME NEW w \in Workflow, Index(w)
      PROVE  Inv'
  BY <1>5, IndexKeeps
<1>6. CASE UNCHANGED vars
  BY <1>6 DEF vars, Inv, TypeOK, Store!TypeOK
<1> QED
  BY <1>1, <1>2, <1>3, <1>4, <1>5, <1>6 DEF Next

\* The invariant holds in every state: every answer is one that the requests
\* of the call can account for, however many of them are under way.
THEOREM InvHolds == Spec => []Inv
BY InitInv, StepInv, PTL DEF Spec

\* A client that is told a version of its definition finds its own words under
\* it, whatever was retried, resent or saved by others meanwhile.
THEOREM WhatIsToldIsStored == Spec => []ToldIsStored
<1>1. Inv => ToldIsStored
  BY DEF Inv, CallRight, ToldIsStored
<1> QED
  BY <1>1, InvHolds, PTL

\* No POST takes effect twice: the policy does not retry it.
THEOREM PostsTakeEffectOnce == Spec => []PostTakesEffectOnce
<1>1. Inv => PostTakesEffectOnce
  <2> SUFFICES ASSUME Inv, NEW c \in Caller, Client[call[c].op].method = "POST"
               PROVE  call[c].effects <= 1
    BY DEF PostTakesEffectOnce
  <2>1. call[c].tries \in Nat /\ CallRight(c, call[c], versions, latest)
    BY DEF Inv, TypeOK, Call
  <2> QED
    BY <2>1 DEF CallRight
<1> QED
  BY <1>1, InvHolds, PTL

\* A call that is refused has changed nothing, but for the refusals that the
\* Handler finds a reason for after a change (RefusedLate), such as that of an
\* input which SFN does not take, and for cancellations that were retried.
THEOREM RefusalsHaveNoEffect == Spec => []RefusedHasNoEffect
<1>1. Inv => RefusedHasNoEffect
  BY DEF Inv, CallRight, RefusedHasNoEffect
<1> QED
  BY <1>1, InvHolds, PTL

\* The client understands every answer, but for those to a path with a slash.
THEOREM AnswersAreUnderstood == Spec => []AnswersUnderstood
<1>1. Inv => AnswersUnderstood
  BY DEF Inv, CallRight, AnswersUnderstood
<1> QED
  BY <1>1, InvHolds, PTL

\* An iteration lists no workflow twice, whatever is indexed meanwhile.
THEOREM NoWorkflowIsListedTwice == Spec => []NothingListedTwice
<1>1. Inv => NothingListedTwice
  BY DEF Inv, SearchRight, NothingListedTwice
<1> QED
  BY <1>1, InvHolds, PTL

\* An iteration that ends has listed all workflows that were there all the
\* time, but for ties.
THEOREM NothingButTiesIsSkipped == Spec => []OnlyTiesSkipped
<1>1. Inv => OnlyTiesSkipped
  BY DEF Inv, SearchRight, OnlyTiesSkipped
<1> QED
  BY <1>1, InvHolds, PTL

\* Whatever callers and the service do, the tables of definitions see nothing
\* but the steps of DefinitionStore: what is proved of those holds here.
THEOREM ImplementsDefinitionStore == Spec => Store!Spec
<1>1. Init => Store!Init
  BY DEF Init
<1>2. [Next]_vars => [Store!Next]_(Store!vars)
  <2> SUFFICES ASSUME [Next]_vars PROVE Store!Next \/ UNCHANGED storeVars
    BY DEF Store!vars, storeVars
  <2>1. ASSUME NEW c \in Caller, Invoke(c) \/ Send(c) \/ TransportError(c)
        PROVE  UNCHANGED storeVars
    BY <2>1 DEF Invoke, Send, TransportError
  <2>2. CASE Trip
    BY <2>2 DEF Trip
  <2>3. ASSUME NEW r \in Req, TimeoutHandler(r)
        PROVE  UNCHANGED storeVars
    BY <2>3 DEF TimeoutHandler
  <2>4. ASSUME NEW w \in Workflow, Index(w)
        PROVE  UNCHANGED storeVars
    BY <2>4 DEF Index
  <2>5. ASSUME NEW r \in Req, Handle(r)
        PROVE  Store!Next \/ UNCHANGED storeVars
    <3>1. CASE SaveDefinition(r)
      <4>1. Store!NewWorkflowDefinition(r) \/ Store!UpdateWorkflowDefinition(r)
        BY <3>1 DEF SaveDefinition
      <4> QED
        BY <4>1 DEF Store!Next
    <3>2. CASE SavingDefinition(r)
      <4>1. \/ Store!SaveVersion(r) \/ Store!SaveLatest(r) \/ Store!ResendLatest(r)
            \/ Store!GetWorkflowDefinition(r) \/ Store!Abandon(r)
        BY <3>2 DEF SavingDefinition
      <4> QED
        BY <4>1 DEF Store!Next, Store!Continue
    <3>3. CASE Unrouted(r) \/ Reject(r) \/ Panic(r) \/ Refuse(r) \/ WorkflowOperation(r)
      BY <3>3 DEF Unrouted, Reject, Panic, Refuse, WorkflowOperation
    <3>4. CASE SaveStateResource(r) \/ GetStateResource(r) \/ DeleteStateResource(r)
      BY <3>4 DEF SaveStateResource, GetStateResource, DeleteStateResource
    <3>5. CASE \/ GetWorkflowDefinitions(r) \/ GetWorkflowDefinitionVersions(r)
               \/ UpdateFails(r) \/ GetWorkflows(r)
      BY <3>5 DEF GetWorkflowDefinitions, GetWorkflowDefinitionVersions, UpdateFails, GetWorkflows
    <3> QED
      BY <2>5, <3>1, <3>2, <3>3, <3>4, <3>5 DEF Handle
  <2>6. CASE UNCHANGED vars
    BY <2>6 DEF vars, storeVars
  <2> QED
    BY <2>1, <2>2, <2>3, <2>4, <2>5, <2>6 DEF Next
<1> QED
  BY <1>1, <1>2, PTL DEF Spec, Store!Spec
=============================================================================
