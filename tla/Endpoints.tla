------------------------------- MODULE Endpoints -------------------------------
(***************************************************************************)
(* The HTTP interface of the service: what the generated Go client knows   *)
(* of each operation, and what the generated server makes of it.  The two  *)
(* are generated from one swagger.yml but deployed apart, and the Handler  *)
(* behind the server is written by hand: nothing but the status codes and  *)
(* the shape of the bodies ties them together.                             *)
(*                                                                         *)
(* Of a request only its defect matters here:                              *)
(*   "noPath"      a path parameter is empty                               *)
(*   "slash"       a path parameter contains a slash; it is not escaped    *)
(*   "noBody"      the body is a nil pointer                               *)
(*   "incomplete"  a struct that the Handler dereferences is missing in it *)
(*   "invalid"     Validate finds a value that is not allowed              *)
(*   "mismatch"    the name in the path is not the one in the body         *)
(*   "rejected"    the Handler's own validation refuses the definition     *)
(***************************************************************************)
EXTENDS Integers

Defect == {"none", "noPath", "slash", "noBody", "incomplete", "invalid",
           "mismatch", "rejected"}

(***************************************************************************)
(* The client.  An operation has a method, refuses some requests before it *)
(* sends anything, and decodes the bodies of the status codes it knows:    *)
(* `success' into its result, `errors' into an error type.  Any other code *)
(* is an UnknownResponse.                                                  *)
(***************************************************************************)
Route(method, refuses, success, errors) ==
    [method |-> method, refuses |-> refuses, success |-> success,
     errors |-> errors]

ClientHealthCheck          == Route("GET",    {},         200, {400, 500})
ClientPostStateResource    == Route("POST",   {},         201, {400, 500})
ClientDeleteStateResource  == Route("DELETE", {"noPath"}, 200, {400, 404, 500})
ClientGetStateResource     == Route("GET",    {"noPath"}, 200, {400, 404, 500})
ClientPutStateResource     == Route("PUT",    {"noPath"}, 201, {400, 500})
ClientGetWorkflowDefinitions == Route("GET",  {},         200, {400, 500})
ClientNewWorkflowDefinition  == Route("POST", {},         201, {400, 500})
ClientGetWorkflowDefinitionVersionsByName ==
    Route("GET", {"noPath"}, 200, {400, 404, 500})
ClientUpdateWorkflowDefinition ==
    Route("PUT", {"noPath"}, 201, {400, 404, 500})
ClientGetWorkflowDefinitionByNameAndVersion ==
    Route("GET", {"noPath"}, 200, {400, 404, 500})
ClientGetWorkflows         == Route("GET",    {},         200, {400, 404, 500})
ClientStartWorkflow        == Route("POST",   {},         200, {400, 404, 500})
ClientCancelWorkflow       == Route("DELETE", {"noPath"}, 200, {400, 404, 500})
ClientGetWorkflowByID      == Route("GET",    {"noPath"}, 200, {400, 404, 500})
ClientResumeWorkflowByID   == Route("POST",   {"noPath"}, 200, {400, 404, 500})

\* Mutant: the client was generated before the 409 was declared.
ClientResolveWorkflowByIDOld == Route("POST", {"noPath"}, 201, {400, 404, 500})

ClientResolveWorkflowByID  == Route("POST",   {"noPath"}, 201, {400, 404, 409, 500})

Client ==
    [HealthCheck            |-> ClientHealthCheck,
     PostStateResource      |-> ClientPostStateResource,
     DeleteStateResource    |-> ClientDeleteStateResource,
     GetStateResource       |-> ClientGetStateResource,
     PutStateResource       |-> ClientPutStateResource,
     GetWorkflowDefinitions |-> ClientGetWorkflowDefinitions,
     NewWorkflowDefinition  |-> ClientNewWorkflowDefinition,
     GetWorkflowDefinitionVersionsByName |->
         ClientGetWorkflowDefinitionVersionsByName,
     UpdateWorkflowDefinition |-> ClientUpdateWorkflowDefinition,
     GetWorkflowDefinitionByNameAndVersion |->
         ClientGetWorkflowDefinitionByNameAndVersion,
     GetWorkflows           |-> ClientGetWorkflows,
     StartWorkflow          |-> ClientStartWorkflow,
     CancelWorkflow         |-> ClientCancelWorkflow,
     GetWorkflowByID        |-> ClientGetWorkflowByID,
     ResumeWorkflowByID     |-> ClientResumeWorkflowByID,
     ResolveWorkflowByID    |-> ClientResolveWorkflowByID]

Op == DOMAIN Client

(***************************************************************************)
(* The server.  A handler answers 400 to the requests that newInput or     *)
(* Validate rejects, `success' to a result of the Handler, and to an error *)
(* of the Handler the code of its type if the operation declares it.       *)
(***************************************************************************)
Endpoint(rejects, success, declares) ==
    [rejects |-> rejects, success |-> success, declares |-> declares]

Basic    == {"BadRequest", "InternalError"}
Standard == Basic \cup {"NotFound"}

HealthCheckHandler         == Endpoint({}, 200, Basic)
PostStateResourceHandler   == Endpoint({}, 201, Basic)
DeleteStateResourceHandler == Endpoint({}, 200, Standard)
GetStateResourceHandler    == Endpoint({}, 200, Standard)
PutStateResourceHandler    == Endpoint({}, 201, Basic)
GetWorkflowDefinitionsHandler == Endpoint({}, 200, Basic)
NewWorkflowDefinitionHandler  == Endpoint({"invalid"}, 201, Basic)
GetWorkflowDefinitionVersionsByNameHandler == Endpoint({}, 200, Standard)
UpdateWorkflowDefinitionHandler == Endpoint({"invalid"}, 201, Standard)
GetWorkflowDefinitionByNameAndVersionHandler == Endpoint({}, 200, Standard)
GetWorkflowsHandler        == Endpoint({"invalid"}, 200, Standard)
StartWorkflowHandler       == Endpoint({}, 200, Standard)
CancelWorkflowHandler      == Endpoint({"noBody"}, 200, Standard)
GetWorkflowByIDHandler     == Endpoint({}, 200, Standard)
ResumeWorkflowByIDHandler  == Endpoint({"noBody"}, 200, Standard)
ResolveWorkflowByIDHandler == Endpoint({}, 201, Standard \cup {"Conflict"})

Server ==
    [HealthCheck            |-> HealthCheckHandler,
     PostStateResource      |-> PostStateResourceHandler,
     DeleteStateResource    |-> DeleteStateResourceHandler,
     GetStateResource       |-> GetStateResourceHandler,
     PutStateResource       |-> PutStateResourceHandler,
     GetWorkflowDefinitions |-> GetWorkflowDefinitionsHandler,
     NewWorkflowDefinition  |-> NewWorkflowDefinitionHandler,
     GetWorkflowDefinitionVersionsByName |->
         GetWorkflowDefinitionVersionsByNameHandler,
     UpdateWorkflowDefinition |-> UpdateWorkflowDefinitionHandler,
     GetWorkflowDefinitionByNameAndVersion |->
         GetWorkflowDefinitionByNameAndVersionHandler,
     GetWorkflows           |-> GetWorkflowsHandler,
     StartWorkflow          |-> StartWorkflowHandler,
     CancelWorkflow         |-> CancelWorkflowHandler,
     GetWorkflowByID        |-> GetWorkflowByIDHandler,
     ResumeWorkflowByID     |-> ResumeWorkflowByIDHandler,
     ResolveWorkflowByID    |-> ResolveWorkflowByIDHandler]
=============================================================================
