# A TLA+ verification of workflow-manager

workflow-manager is a service that keeps workflow definitions, starts their
executions in AWS Step Functions (SFN), and tells its clients how they are
doing.  This directory holds TLA+ models of its components, TLC runs that check
them on small instances, and TLAPS proofs of the main safety properties for
instances of any size.  All source paths below are relative to `src/`.

1. [The system](#1-the-system)
2. [Modules, and how they correspond to the code](#2-modules-and-how-they-correspond-to-the-code)
3. [Runs](#3-runs)
4. [Conditions, and where the code falls short of its comments](#4-conditions-and-where-the-code-falls-short-of-its-comments)
5. [Bounds](#5-bounds)
6. [Fairness and deadlock](#6-fairness-and-deadlock)
7. [Proofs](#7-proofs)
8. [What is not modelled](#8-what-is-not-modelled)
9. [Plan](#9-plan)

To repeat a check: `tlc -config races.cfg WorkflowManagerMC`, with the module
that the table of runs names.  To repeat a proof: `tlapm WorkflowManagerProofs.tla`.

## 1. The system

| component | source | state | operations |
|---|---|---|---|
| request handlers | `handler.go` | none between requests | start, get, cancel, resume, resolve a workflow; new and updated definitions |
| SFN workflow manager | `executor/workflow_manager_sfn.go` | the map of state machines with updated logging | CreateWorkflow, RetryWorkflow, CancelWorkflow, UpdateWorkflowSummary, UpdateWorkflowHistory, describeOrCreateStateMachine |
| SFN cache | `executor/sfncache` | an LRU cache of DescribeStateMachine | DescribeStateMachineWithContext |
| events consumer | `cmd/sfn-execution-events-consumer` | none: a lambda on a Kinesis stream | Handle, handleHistoryEvent |
| job reconstruction | `wfupdater` | `jobs` and `eventIDToJob` of one reading | ProcessEvents, UpdateWorkflowLastJob |
| DynamoDB store | `store/dynamodb` | tables of workflows, of latest definitions, of all versions, of state resources | save, update, get, delete |
| resources | `resources` | none | status functions, RemoveInactiveStates, constructors |
| embedded worker | `embedded/poll.go` | per resource a loop and a counter; per task a handler of three goroutines | PollForWork, handleTask |
| generated client | `gen-go/client` | a retry policy, a timeout, a circuit breaker; per call the number of retries; per iterator the next page | sixteen operations, and the iterator over GetWorkflows |
| generated server | `gen-go/server`, `main.go` | per request a goroutine, and one that goes on after its timeout | routing, validation, status codes, the TimeoutHandler, the logging of panics |
| workflow search | `handler.go` | none: an Elasticsearch index that follows the table | GetWorkflows, page by page |
| state resources | `handler.go`, `store/dynamodb` | one table | post, put, get, delete |
| embedded manager | `embedded/embedded.go` | a list of definitions | NewWorkflowDefinition, StartWorkflow, CancelWorkflow, GetWorkflowByID, GetWorkflows |
| naming conventions | `executor/sfnconventions` | none | names of state machines, and their parts |
| in-memory store | `store/memory` | maps | as the DynamoDB store |

**How they interact.**  Several instances of the service run at the same time
and share nothing but the DynamoDB tables and SFN.  A request handler reads a
workflow, makes one or more calls to SFN and to the store, and each time puts
back the *whole copy* that it read first, changed here and there
(`UpdateWorkflow`).  SFN reports what an execution does by logging to
CloudWatch; a subscription filter sends that to Kinesis and so to the consumer,
which updates single attributes of the workflow
(`UpdateWorkflowAttributes`).  Nothing locks anything: the only conditions are
those of single DynamoDB calls.

Clients reach the service through a generated client that repeats what was
answered with 5xx, and a generated server whose TimeoutHandler answers 503 after
five seconds while the handler goes on.  An application may do without the
service: the embedded manager has the same interface, keeps definitions in
memory, and finds state machines and executions by their names alone.

**What is hard.**

* Two ways to update the same item (a put of a whole copy and an update of
  attributes) that know nothing of each other.
* Events that are late, repeated, out of order or lost, and clients' polls that
  race with them.
* A workflow is saved before its execution starts, and deleted when the start
  fails: every crash and every lost answer in between leaves something.
* Two tables that are to agree on the versions of a definition, without a
  transaction.
* A cache in front of a call whose answer the service itself changes.
* Histories of parallel branches, read page by page.
* A handler of several goroutines that share a context, under timeouts and a
  shutdown.
* A loop over a Go map that deletes from it, in an arbitrary order.
* Requests that go on when their call has been answered, or has given up, and
  meet the request that repeats them.
* A client and a server that agree on status codes and bodies by convention only.
* Pages that continue from a creation time that several workflows may share.
* Names that are joined, changed, cut and taken apart again.

`PROJECT.json` lists these hazards one by one under `hazards`, at the line where
each one bites, with the properties aimed at it.

**What makes the parts correct.**

* *Workflow life cycle*: the stored status is never ahead of SFN nor wrong about
  an end; ends reach the table; a retry follows the end of its original and does
  not run beside another one; no execution without its workflow.
* *Definitions*: versions are immutable, numbered without gaps, what a client
  was told is saved stays saved, the latest definition is the latest version.
* *State machine setup*: an execution is only started of a state machine whose
  events the consumer gets.
* *Jobs*: a job is what its own events say, whatever other branches do.
* *Pruning*: nothing that an execution can get to is removed, and the outcome
  does not depend on the iteration order.
* *Worker*: slots are given back exactly once, the limit holds but for handlers
  that have not begun to run, a success is reported as one, every task is answered.
* *Calls*: what a caller is told fits what the service did; what must not happen
  twice is not repeated; every call returns.
* *Search*: an iteration shows no workflow twice and leaves out none but ties.
* *Embedded manager*: a workflow runs the states that its caller meant, and its
  ID leads back to it.

## 2. Modules, and how they correspond to the code

`PROJECT.json` maps each definition to its lines.  In all models, one call to
the store, to SFN or to CloudWatch is one step, and a handler between two calls
is a record with a `pc`.  Definitions whose comment begins with *Mutant* (or
"The mutant") are not part of a model: each is a plausible bug, put in the place
of the definition that follows it to see that a property notices.

### Workflows, WorkflowManager — the life of a workflow

`Workflows` has the record and the pure functions on it
(`resources/workflows.go`): of a workflow it keeps the status, ResolvedByUser,
the links to retries and original, whether LastUpdated is five minutes ago, and
of the jobs only what is asked of them (none, some active, all done).

`WorkflowManager` has five variables: `table` and `life` (the DynamoDB table and
whether an item was never there, is, or is deleted), `exec` (SFN's executions,
which are named after their workflow), `stream` (the events in Kinesis that the
consumer acts on) and `req` (what each handler is doing, with the copy `wf` that
it works on).

| action | code |
|---|---|
| `StartWorkflow`, `StartExecution`, `StartExecutionFails`, `DeleteWorkflowByID` | CreateWorkflow: save, start, delete when the start fails |
| `GetWorkflowByID`, `UpdateWorkflowHistory`, `UpdateWorkflowSummary` | the handler, and the two updates from SFN |
| `CancelWorkflow`, `StopExecution` | CancelWorkflow |
| `ResolveWorkflowByID` | ResolveWorkflowByID |
| `ResumeWorkflowByID`, `AreDescendantWorkflowsDone`, `FindJob`, `RereadWorkflow`, `RetryWorkflow` | ResumeWorkflowByID and RetryWorkflow |
| `UpdateWorkflow` | the put of the whole copy, at the end of all of them; `ResendPut` is the client's retry of it |
| `HandleHistoryEvent`, `DropEvent` | the consumer |
| `ExecutionRuns`, `ExecutionEnds`, `FiveMinutesPass`, `Abandon` | SFN, time, and deaths of handlers |

`stream` is a set: any order of delivery.  A set of `Faults` says what the
environment may do besides: handlers that die (`abandon`), a start that is
reported as an error but happened (`ambiguousStart`), puts that are sent twice
(`resend`), events that are lost (`dropEvent`) or delivered again (`redeliver`).
SFN may deny for a while that an execution exists that it just started
(`started`); the code's five minutes (`durationToRetryDescribeExecutions`) are
taken to be longer than that, and longer than a request lasts.

`WorkflowRepair` is the same system under fairness, to say how ends come to the
table.  Its `scenario` says which clients call what, for which workflows, whether
they poll, and what may go wrong; `lost` is a history variable, the workflows
whose end the table has missed (`Consume` drops the event that reports it, as
Handle does on every error) or lost again (`Serve` puts a copy from before it).

### VersionLog, DefinitionStore, DefinitionHistory — the versions of a definition

`VersionLog` is the abstract specification: a log that only grows and a head.
`DefinitionStore` has the two tables, handlers that read the latest version, put
the next one on the condition that it is new, and then put the latest definition
on no condition.  `Log` is the refinement mapping: the log is the table of
versions, the head the version of the latest definition.  `DefinitionHistory` adds a
history variable, `resent`: a put of the latest definition was sent again.

### StateMachineSetup — describeOrCreateStateMachine

One state machine, its log group (three calls to set up), and for each process
a cache of DescribeStateMachine and the map of updated state machines.  A
request goes round and round until its process believes that the state machine
exists and logs.  Processes restart, entries are evicted, calls fail.

### JobHistory — jobs from the history

An SFN execution of one or several branches writes a history; at any time
UpdateWorkflowHistory begins to read it from the start, cut into pages anywhere,
or UpdateWorkflowLastJob reads a last part of it.  `ProcessEvent` is one turn of
the loop of ProcessEvents, `EventToJob` is eventToJob, `UpdateJob` the switch
over the event types.  Events carry a ghost field `of`, the event that entered
the state they are about; the reader does not look at it, the properties do.

### InactiveStates — RemoveInactiveStates

One visit of the range statement is one step, in any order; `EndPass` is the
end of one turn of the outer loop, `Validate` the check at the end.  The errors for
types of states that are not supported (`resources/workflow_definitions.go:91`
and `:131`) are left out: validation has refused such definitions.

### EmbeddedPoller — the worker

The loop of one resource, and for each task the handler with its two
goroutines, their common context, and the report of an error.  Two variables are
ghosts: `lost` has the tasks of which a call to SFN, or its answer, got lost, and
`late` the handlers that existed but had not counted themselves yet
(`embedded/poll.go:102`) when the loop last compared the counter (`:61`).

### Endpoints, WorkflowSearch, ServiceCalls — a call from end to end

`Endpoints` is a table with one row for each operation of the generated client
(`ClientStartWorkflow`, ...: its method, what it refuses to send, the status
codes it decodes) and one for each handler of the generated server
(`StartWorkflowHandler`, ...: what it rejects, its status code, the error types
it declares).  Of a request only its defect is kept: an empty or slashed path
parameter, a missing or incomplete body, and so on.

`WorkflowSearch` is the paging of GetWorkflows: the pages that the index may
answer with, the query for the next one, and the client's iterator.

`ServiceCalls` composes them with `DefinitionStore` (`Store`, an INSTANCE whose
contents are the callers).  `call` is what each caller's invocation is doing,
`serve` what each request at the service is doing.  A request and its call are
two things: their `bond` is live, late (the TimeoutHandler has answered, and the
call may have sent another request) or lost (the call has returned).

| action | code |
|---|---|
| `Invoke`, `Send`, `TransportError`, `Trip` | a client method, retryDoer and circuitBreakerDoer; a lost connection or the client's timeout; hystrix |
| `TimeoutHandler` | the 503 of `main.go:142` |
| `Unrouted`, `Reject`, `Panic`, `Refuse` | router, newInput and Validate, PanicMiddleware, the Handler's own validation |
| `SaveStateResource`, `GetStateResource`, `DeleteStateResource` | the Handler and the store |
| `SaveDefinition`, `UpdateFails`, `SavingDefinition`, `GetWorkflowDefinitions`, `GetWorkflowDefinitionVersions` | the Handler, with the steps of `DefinitionStore` |
| `GetWorkflows`, `Index` | a page of the search; the index changes |
| `WorkflowOperation` | the other operations, each as an outcome and whether it had an effect (`Outcomes`): what they do is in `WorkflowManager` |

`Received` is the heart: a response either sends the request again or, through
`Decode`, becomes the answer of the call.  `effects` of a call is a ghost field
that counts the changes its requests made before it returned, and `all` of an
iterator one for the workflows that matched all the time.

### Naming, EmbeddedManager — workflows without the service

`Naming` has StateMachineName and workflowID with their inverses, on sequences
of characters: here the characters are the point.  `Split` is strings.Split in
closed form: a run of dashes is cut in pairs from where it begins (`Cuts`), so that
it can be reasoned about without recursion.  `EmbeddedManager` has for each
process its list of definitions and the StartWorkflow that it is executing, and
SFN with its state machines and executions.  `StartWorkflow` is the part up to
DescribeStateMachine, then `CreateStateMachine` or `UpdateStateMachine` and
`TagResource`, then `StartExecution`; `StartFails` is an error of any of them.
`told` is a ghost variable: what StartWorkflow returned to its callers.
`ListExecutions` is SFN's: the `PageSize` executions of a state machine that were
started last, and GetWorkflows asks for one page.

## 3. Runs

Passing runs:

| run | module | checks | shows |
|---|---|---|---|
| `races` | WorkflowManagerMC | Inv, StatusTruthful, ResolvedWhenFinished, OnlyStalePutsRegress | Two requests of any kind over one workflow, one of which may go on to retry it, the consumer, SFN and all five faults.  Although handlers put copies that are outdated, the table never claims what is not true of SFN, and only such a put takes a workflow out of a terminal status. |
| `repaired` | WorkflowRepairMC | RetryAfterEnd, NoUntrackedExecutions, EndIsRecorded, PollingRepairs | Four scenarios: a workflow that clients start, poll, cancel and resolve; the same without polls; one that two clients cancel and resolve at the same time; one that is retried.  Events are dropped and repeated, requests die.  The end of each execution reaches the table without a poll, unless its event is dropped or a stale put undoes it; polls repair both, and fail what was never started.  A retry follows the end of its original; every execution is tracked. |
| `versions` | DefinitionStoreMC | HistoryInv, KeptUntilResent, VersionsImmutable, LogUntilResent | Three concurrent saves, with requests that die and puts that are sent twice.  No version is overwritten; until a put of the latest definition is sent again, what clients were told is kept and the two tables implement `VersionLog`, whoever dies where. |
| `setup` | StateMachineSetup | Inv, LoggedIsSubscribed, ReadyIsLogged, EveryRequestReady | Two requests in two processes, with restarts, evictions and failing calls.  The recursion ends although the cache keeps the answer from before the update: this is what `updatedLoggingConfig` is for. |
| `jobs` | JobHistoryMC | Inv, NoMixUp, AllVisitsListed, LastJobIsLast | Two branches and every way to cut the history: each job follows its own events, none is lost or listed twice. |
| `prune` | InactiveStatesMC | Inv, ReachableIsKept, OrderDoesNotMatter, Terminates | All machines of up to three states with at most one catcher or choice per state, in all orders. |
| `worker` | EmbeddedPoller | Inv, CounterExact, LimitRespected, AnswerTruthful, EveryTaskAnswered | Two tasks at limit one, with timeouts, lost answers, a shutdown and handlers that begin to run late.  More handlers than the limit are at work only by those that were late. |
| `calls` | ServiceCallsMC | Inv, ToldIsStored, PostTakesEffectOnce, RefusedHasNoEffect, AnswersUnderstood, NothingListedTwice, OnlyTiesSkipped, EveryCallReturns | Two callers, two requests at a time, one retry, failing calls and resent writes.  What a caller is told about a definition is true under retries and requests that outlive their calls; a refusal means that nothing happened, for the operations that section 4 names; answers are understood; calls return; paging skips ties only. |
| `embedded` | EmbeddedManagerMC | Inv, RunsAsAsked, FoundAsStarted | Two processes with definitions of their own, two starts.  Whatever processes define, create and update under the same names, workflows run as asked, are found again, and are listed while they are on the first page, under the conditions of section 4. |

Runs that end in a counterexample:

| run | property | what happens |
|---|---|---|
| `double_retry` | RetryIsExclusive | `handler.go:477` refuses with "Cannot resume workflow %s because it has active descendants".  Two resumes both pass the check before either has stored its retry, and both start an execution; the later put also drops the other retry from the list. |
| `unreachable` | UnreachableIsDiscarded | `resources/workflow_definitions.go:137` says "RemoveInactiveStates discards all states not reachable in the graph after the StartAt state".  A state with a transition to itself, or on a cycle, is kept although no execution gets there: "another state contains a transition into it" (`:59`) asks for any state. |
| `last_job` | LastJobIsWhereItFailed | `wfupdater/lastjob.go:16` says of the last job that it "is all that is needed to determine the state where a workflow has failed".  One branch enters a state, another one enters its own after it, the first one fails: LastJob is the state of the second, and marked as failed. |

## 4. Conditions, and where the code falls short of its comments

Some properties hold only under conditions, which the models state:

* NoUntrackedExecutions needs that an error of StartExecution means that there is
  no execution (no `ambiguousStart`).  CreateWorkflow deletes the workflow on
  every error (`executor/workflow_manager_sfn.go:369`), also on a timeout after
  which the execution runs.
* RetryIsExclusive needs that resumes of a workflow do not overlap.
* What clients were told about definitions is kept, and the tables are a log,
  until the unconditional put of the latest definition is sent again
  (`store/dynamodb/dynamodb_store.go:231`): then it may take the latest definition
  back.  KeptUntilResent and LogUntilResent say so, with all other faults allowed.
* RunsAsAsked and FoundAsStarted need names that survive: without characters that
  SFN forbids, without two dashes in a row, and without one at the end.
  Otherwise two definitions share a state machine
  (`executor/sfnconventions/sfnconventions.go:14`): "a-" of version 1 and "a" of
  version -1 are both "n--a---1--s".  They also need an ID of at most 80
  characters (`embedded/embedded.go:588` cuts off its end, and so the suffix that
  makes it unique) and FoundAsStarted a suffix without two dashes and a
  namespace whose name survives, too.
* RunsAsAsked of a mutable definition needs a generated suffix, since SFN answers
  to one that is in use with the execution that runs; and that no other process
  updates the state machine between this one's update and its start.
* FoundAsStarted lists a workflow only while it is on the first page of
  ListExecutions (`embedded/embedded.go:324`); GetWorkflows has no way to ask for
  the next one.  Of a mutable definition nothing is claimed about lists.

Other properties are stated as strongly as they hold, which is less than a
reader of the comments may expect:

* EndIsRecorded has two exceptions.  The consumer logs an error and drops the
  event (`cmd/sfn-execution-events-consumer/main.go:62`), and no other event reports
  that end; and a handler that read the workflow before its end puts that copy
  after it.
* LimitRespected has one: concurrentExecutions is incremented by the handler
  (`embedded/poll.go:102`), not by the loop that compares it (`:61`).  The rate
  limiter (`:55`) is a bucket of one token, which is full again after a
  GetActivityTask of more than a second, so the loop may be faster than the
  handler that it has just started.  The handlers beyond the limit are those that
  were `late` in that sense.
* A status that WorkflowIsDone calls final may still change
  (`resources/workflows.go:67`): a get reads "running", the execution ends and
  the consumer stores that, the get puts its copy.  OnlyStalePutsRegress says
  that nothing else does this, PollingRepairs that the next poll corrects it.
  CancelWorkflow does it to its own "cancelled" when the consumer is fast
  (`executor/workflow_manager_sfn.go:453`).
* LogUntilResent allows one version after the latest definition: a request that dies
  between its two puts leaves it there (`store/dynamodb/dynamodb_store.go:235` has a
  TODO), LatestWorkflowDefinition then answers with the version before it, and
  every later update meets a Conflict.
* AnswerTruthful excepts a shutdown: sendTaskSuccess then fails on its cancelled
  context and the task is reported as an InternalError (`embedded/poll.go:207`).
* OrderDoesNotMatter says what RemoveInactiveStates leaves: the largest set in
  which each state is the start or has a transition into it.  That is more than
  the reachable states: those on a cycle keep each other
  (`resources/workflow_definitions.go:67`).  hasValidTransitions does not look
  at catchers (`resources/workflow_definitions.go:116`).
* NoMixUp takes a job for what the *handled* events say.  A TaskFailed event is
  not among them (`wfupdater/processevents.go:115`), so a task of another
  service that ran and failed leaves its job running.
* LastJobIsLast says what LastJob is: the job entered last, marked as failed.  That
  it is where the workflow failed is what `last_job` refutes
  (`wfupdater/lastjob.go:33`).
* NoMixUp excepts the end of an execution only for the last job of the current
  page; when the end is on a page without a state entry, no job hears of it
  (`wfupdater/processevents.go:290`).
* RefusedHasNoEffect excepts refusals that come late (`RefusedLate`).
  ResumeWorkflowByID answers BadRequest for an input that is no JSON object after
  it has saved the retry and put the original
  (`executor/workflow_manager_sfn.go:417` and `:310`), and undoes neither, and
  NotFound when that put finds the original gone; StartWorkflow does the same after its save
  (`:363`), and deletes the workflow in the background; CancelWorkflow answers
  NotFound when the workflow is gone after its execution was stopped (`:453`); a
  DeleteStateResource that is repeated, by the client's retries or by those of
  DynamoDB's client, answers NotFound for its own deletion; and so may a retried
  CancelWorkflow answer NotFound or BadRequest after the first request has
  cancelled.  Of definitions, puts of state resources and ResolveWorkflowByID, every
  refusal is free of effects.
* ToldIsStored says that the version told is the caller's; a retried
  UpdateWorkflowDefinition may have made another one before it.
* OnlyTiesSkipped: search_after (`handler.go:399`) continues after the creation
  time of the last workflow, so others of the same millisecond are never shown
  when a page ends between them.
* AnswersUnderstood excepts path parameters with a slash: they are not escaped
  (`gen-go/models/inputs.go:66`), and ResumeWorkflowByID of "x/resolved" resolves
  workflow x.
* FoundAsStarted holds although parseWorkflowDefinitions never
  finds the duplicates it looks for (`embedded/embedded.go:174`): all methods take
  the first definition of a name, so that the others are merely unreachable.

A job that is left active for one of the last reasons keeps WorkflowIsDone false,
so UpdateWorkflowSummary goes on asking SFN about a workflow that ended, and
ResumeWorkflowByID refuses it.  `WorkflowManager` allows for this:
UpdateWorkflowHistory may leave jobs in any state.

## 5. Bounds

* *WorkflowManager*: identifiers are drawn from `WorkflowIDs` and never reused,
  so their number bounds the starts.  One workflow with two requests (`races`)
  shows all races over one item, which is the only thing that handlers of start,
  get, cancel and resolve share; a resume involves an original and its retry,
  which `races` follows when no other request is under way, with further resumes one
  at a time (`RetryAlone`, an action constraint), the check of descendants a chain of three (`double_retry`).  The
  number of requests in flight is bounded by `Req`, that of successive ones is
  not.  The proofs have no bound.
* *WorkflowRepair*: one workflow and one request at a time are enough for a put
  that undoes what the consumer has stored; `Shared` has two requests, whose puts
  undo each other's.  `Retried` has an original and its retry, without repeated
  events, and the second handler idle: liveness is costly.
* *DefinitionStore*: `MaxVersion` is a guard of the update.  With three requests
  and versions up to 3 one request can be several versions behind.
  In `calls` two requests and versions up to 1 let both callers and a request
  left behind compete for the same version.
* *StateMachineSetup*: two requests in two processes, which may both be in the
  same process; the proofs have no bound.
* *JobHistory*: `MaxEvents` bounds the history.  Eight events are enough for two
  branches to interleave, and for one to retry its task twice.  Pages may end
  anywhere, which covers every page size.
* *InactiveStates*: three names are enough for the start, a chain and a cycle.
* *EmbeddedPoller*: two tasks at limit one let one wait for a slot while the other
  one's handler is at work, and let the limit be exceeded by a handler that is
  late.  The proofs have no bound.
* *ServiceCalls*: `Workloads` says what the callers ask for.  Operations share
  state within a family only, so two callers meet over definitions and over
  state resources, and each operation is also called alone, with every defect
  and with the circuit breaker in either mode.  `Backoffs` is 1, as in
  SingleRetryPolicy; further retries repeat the same step.  Three workflows,
  two of them of the same millisecond, at a page size (`Limit`) of 2 have ties
  within a page and across its end.
* *EmbeddedManager*: two processes, two definitions each (`MaxDefs`), two
  workflows (`MaxStarts`).  Each of the `Libraries` has two or three definitions that get
  in each other's way, by name, version, length or suffix.  `MaxLength` 14 stands
  for the 80 of the code: with names of one and two characters an ID fits, loses
  its suffix, or loses its separator too.  A page (`PageSize`) of one execution
  lets the second start take the first one off it.

`Symmetry` over identifiers, requests, contents or branches is used in runs
without liveness properties only, and where no constant names one of the
elements.

## 6. Fairness and deadlock

* `RepairSpec` of WorkflowRepair: a handler between two calls goes on (Go runs
  it), and Kinesis and Lambda give an event to the consumer, which handles it or
  drops it: weak fairness of `Consume` is fulfilled by either.  No execution has to
  begin or end, and no client has to call.  In a scenario with `polling`, clients
  poll each workflow again and again (the service's clients do), time passes, and
  the two steps of a poll are strongly fair: with `abandon` a poll may die each
  time, and one that does so for ever repairs nothing.
* `FairSpec` of StateMachineSetup: a handler that runs goes on.
* `FairSpec` of EmbeddedPoller: goroutines go on, and a resource's function
  returns.  That it does is up to the function; SFN's timeout ends its task, not
  its goroutine.
* `FairSpec` of InactiveStates: the loop goes on.
* `Fairness` of ServiceCalls: a client between two requests sends the next one or
  fails to, and the timer of the TimeoutHandler runs.  Handlers may hang.  Nothing is
  assumed of the client's own timeout, which is five seconds unless SetTimeout
  changes it (`gen-go/client/client.go:85`): calls return without it.

`CHECK_DEADLOCK FALSE` where the system may stop: when all identifiers are drawn
and all executions have ended (WorkflowManager), after a shutdown
(EmbeddedPoller), when the history is full or read (JobHistory), when
RemoveInactiveStates is done, when all workflows of an embedded manager have
ended, and when a caller of ServiceCalls has nothing to ask for.  DefinitionStore and StateMachineSetup are checked for deadlock: a client may
always call.

## 7. Proofs

Each proof module extends its component.  The scheme is the same throughout:
`Inv` is an inductive invariant (checked by a run first), `InitInv` and `NextInv`
show that it is one, with one lemma or step per action, and the theorems follow.

**WorkflowManagerProofs** — for any numbers of workflows and requests, all
endpoints and all faults.  `StatusTruthful` is not inductive: a handler may put
what it read long ago.  What saves it is that *copies are honest too*: what a
record claims about its execution stays true, because executions only move on
(from none to started to running to an end), whoever holds the record.  `Honest`
says that of a record, `TableHonest` of the table, `CopiesHonest` of the
handlers.  The delicate claim is "failed" for a zombie, which is honest only if
no request will start that execution: `RequestsSound` says which request is going
to start what, and the last conjunct of `Honest` that nothing five minutes old is
still being started.  `EventsSound` makes the consumer's updates honest, and
`ExecutionsSound` tracks executions.

* `InvHolds`, `StatusIsTruthful`, `FinishedIsResolved`, `RetriesFollowTheEnd`
* `ExecutionsAreTracked`, if `ambiguousStart` is not among the faults
* `RegressionsAreStalePuts`, an action property: one lemma per action shows which
  status it may store where (`StatusSteps`).  SaveWorkflow stores "queued" without
  a put; that it takes no workflow out of a terminal status needs one more
  invariant, `FreshIsQueued`: before it there is no status to lose.

**DefinitionStoreProofs** — for any numbers of requests, contents and versions.
A request that is to save version v has seen v - 1, so versions have no gaps;
until a put of the latest definition is sent again at most one version is not yet
published and one request has it (`OneUnpublished`), which gives the refinement.
Each lemma about an action shows that it keeps `Inv`, and `OneUnpublished` where that
holds; only `ResendLatest` does not.

* `InvHolds`, `TablesAlwaysAgree`, `VersionsNeverChange`, under all faults
* `HistoryInvHolds`, `AckedIsAlwaysKept` and `StoreImplementsLog` (every step up to
  the first such put is a step of VersionLog under the mapping), under all
  faults, of the specification with its history.

**InactiveStatesProofs** — for every state machine.  A visit removes no state
that is a target of one that is left, and no state of any supported set; a clean
pass leaves a supported set.

* `InvHolds`, `ReachableIsAlwaysKept`, `OrderNeverMatters`

**StateMachineSetupProofs** — for any numbers of requests and processes, all
faults.  What a process believes (its cache, its map) is true, because logging,
once on, stays on; and a request that is past a call of
createLogGroupsForLoggingConfiguration has found its effect in place.

* `InvHolds`, `LoggedIsAlwaysSubscribed`, `ReadyIsAlwaysLogged`

**EmbeddedPollerProofs** — for any set of tasks, any limit and all faults.
`CounterExact` equates the counter with the cardinality of the handlers that
have a slot, so the proof counts: `Spawned` is finite, and each action adds one
handler, removes one or leaves the set alone.  `LimitRespected` needs `SlotKept`
(while the loop polls there is room for one more handler, `late` ones not counted), and `AnswerTruthful` what
`HandlerConsistent` says of the three goroutines of a task.

* `InvHolds`, `CounterIsExact`, `LimitIsRespected`, `AnswersAreTruthful`

**JobHistoryProofs** — for histories and pages of any length and any finite set of
branches.  First the history alone: `ParentsAgree` says that the previous event of an
event is about the same state visit, which is all that eventToJob has to go by, and
`BranchesApart` that SFN's branches do not share a visit.  Then `MapInv`: eventIDToJob is
the part of that relation that was read.  `JobRight`, which says that a job is what
the events of its own visit make of it, follows event by event.  `SuccessIsEarned`
is needed for the last event, which closes the last job whatever it is.

* `InvHolds`, `JobsAreNotMixedUp`, `VisitsAreListed`, `LastJobIsFound`

**ServiceCallsProofs** — for any numbers of callers, requests, retries and
workflows, any page size and all faults.  None of the properties is inductive: what a
caller is told depends on which request answers, and on what earlier ones did
before the client gave up on them.  `CallRight` says what a call may have caused and been
told, `BondRight` what a request that the call still knows has to do with it (it is
*live*, or *late* when another one was sent), `OneLive` that a call waits for one request
at most, `SaveRight` how a request of the Handler and its request to the store go
together.  A POST is sent once, hence takes effect once.  Which refusals may follow an
effect is a matter of `RefusedLate`, from the table of `Outcomes`, and of retries.  `SearchRight` is about an
iteration alone: what it has yet to see is behind its token, but for ties.

* `InvHolds`, `WhatIsToldIsStored`, `PostsTakeEffectOnce`, `RefusalsHaveNoEffect`,
  `AnswersAreUnderstood`, `NoWorkflowIsListedTwice`, `NothingButTiesIsSkipped`
* `ImplementsDefinitionStore`: every step is one of DefinitionStore or leaves its
  variables alone, so what DefinitionStoreProofs says of the tables holds
  under the client's retries and the Handler's timeouts, too.

**EmbeddedManagerProofs** — for any number of processes, any definitions, names and
suffixes of any length over any characters, and any `MaxLength`.  Half of it is about
strings.  `HasLayout` says where the parts of a name are; in the name of a clean definition
two dashes in a row are a separator, or overlap one before a part that begins
with a dash (`PairsInName`); so `Cuts` are the separators (`CutsAreMarks`), and
StateMachineNameParts and parseWorkflowID give back what went in (`NameSurvives`,
`IDSurvives`).  The same pairs show that an immutable clean definition never shares
its state machine with a mutable one (`CleanIsFrozen`): the digit of its version is
where the other would need a dash.  `GeneratedIDsDiffer` says that an ID that fits
and ends in a UUID is made of no other suffix.  The invariant then follows a start:
`StartRight` (what is about to run is what was asked for, or another process came in
between and the state machine is one that may change), `ExecutionRight`,
`ToldRight`.

* `InvHolds`, `WorkflowsRunAsAsked`, `WorkflowsAreFound`

The assumptions on constants are those that the modules state, and TLC evaluates
them: bounds are natural numbers, sets that are counted (`Branch`, `Workflow`) are finite,
there is a caller, `NoItem` is no item, a page and a history have room for one entry.
Two assumptions of EmbeddedManager are about chance and callers: UUIDs have one
length and each is generated once, and no suffix that a caller chooses begins with
a UUID that will be generated.

Only model-checked: liveness (EndIsRecorded, PollingRepairs, EveryRequestReady,
EveryTaskAnswered, EveryCallReturns, Terminates), which is beyond the prover.
RetryIsExclusive, UnreachableIsDiscarded and LastJobIsWhereItFailed do not hold.  That `Split` in closed form is what
cutting from the left yields would need induction over strings; the two were
compared on all strings of up to eleven characters.

## 8. What is not modelled

* Scripts, flags, AWS clients: no logic of this program.
* Generated models, beyond what their validation rejects; the generated database
  layer (`gen-go/server/db`), which no operation of the service uses yet.
* ARNs, tags and the rewriting of resource names: formatting.
* Filters of the search: they choose the workflows that match.
* The in-memory store, which only the repository's tests use.
* Headers, compression, tracing, and how parameters are encoded.
* Payloads, tags, reasons, dates, TTLs, metrics and logs.
* UpdateStateMachine takes hold at once; the two seconds that the service sleeps,
  and the five of the embedded manager, are a guess about SFN that no model can confirm.
* Panics outside of a request: they end the process, which `Abandon` and `Restart`
  cover where there is state to look at.  A panic of a resource's function is one
  of them: it is raised in a goroutine of the error group, where the recover of
  concurrentlyHandleTask (`embedded/poll.go:104`) does not see it.
* What becomes of the handlers when PollForWork returns without waiting for them
  (`embedded/poll.go:49`).
* A state machine that somebody else deletes or changes.

## 9. Plan

Done, in this order: the workflow life cycle, definitions with their abstract
log, the worker, pruning, state machine setup, jobs, calls of the client with
the search and state resources, the embedded manager with its names.

Next, models:

1. `WorkflowManager` with the jobs as they are in `JobHistory`, at least for the
   link between a job that stays active and a workflow that cannot be resumed.
2. An abstract specification of a workflow's status as a client sees it, with
   WorkflowManager as its implementation.

Done, proofs: every safety property that a passing run checks is a theorem.

Next, proofs:

1. The abstract specification of item 2 above as a refinement theorem of
   WorkflowManager.
2. RetryIsExclusive under the condition that resumes of a workflow do not overlap.
