--------------------------- MODULE StateMachineSetup ---------------------------
(***************************************************************************)
(* describeOrCreateStateMachine for one state machine, with the cache of   *)
(* DescribeStateMachine (executor/sfncache) in front of SFN.  Several      *)
(* processes serve requests, each with its own cache and its own map of    *)
(* the state machines whose logging it has updated.                        *)
(*                                                                         *)
(* What is at stake are the events: an execution of a state machine that   *)
(* does not log to the subscribed log group ends without the consumer ever *)
(* hearing of it.                                                          *)
(***************************************************************************)
EXTENDS Naturals, FiniteSets

CONSTANTS Req,      \* requests that are handled at the same time
          Process,  \* instances of the service
          Faults    \* what the environment may do to us

ASSUME SetupAssumption == Faults \subseteq {"abandon", "restart", "evict"}

VARIABLES sm,       \* SFN: the state machine
          group,    \* CloudWatch: what is in place of its log group
          cache,    \* describeStateMachineWithContextCache of each process
          updated,  \* updatedLoggingConfig of each process
          req       \* what each request is doing

vars == <<sm, group, cache, updated, req>>

\* "old" is a state machine from before logging, or that logs somewhere else.
StateMachine == {"none", "old", "logged"}
GroupParts == {"group", "retention", "filter"}

\* proc is the process that serves the request, call what it makes a log
\* group for, "ready" that the caller goes on to start an execution.
Request == [pc : {"idle", "describe", "ready", "group", "retention", "filter", "call", "sleep"},
            proc : Process, call : {"update", "create"}]

Init ==
    /\ sm \in {"none", "old"}
    /\ group = {}
    /\ cache = [p \in Process |-> "none"]
    /\ updated = [p \in Process |-> FALSE]
    /\ req \in [Req -> {s \in Request : s.pc = "idle" /\ s.call = "create"}]

Goto(r, pc) == req' = [req EXCEPT ![r].pc = pc]
-----------------------------------------------------------------------------
\* CreateWorkflow or RetryWorkflow comes in; a finished request makes room.
Begin(r) ==
    /\ req[r].pc \in {"idle", "ready"}
    /\ \E p \in Process :
          req' = [req EXCEPT ![r] = [pc |-> "describe", proc |-> p, call |-> "create"]]
    /\ UNCHANGED <<sm, group, cache, updated>>

\* DescribeStateMachineWithContext: what the cache has, or what SFN says;
\* only an answer is cached, not the error that there is none.
Described(p) == IF cache[p] # "none" THEN cache[p] ELSE sm

\* The mutant takes any state machine.
DescribeOrCreateOnly(r) ==
    /\ req[r].pc = "describe"
    /\ LET p == req[r].proc
           found == Described(p)
       IN /\ cache' = [cache EXCEPT ![p] = found]
          /\ \/ found # "none" /\ Goto(r, "ready")
             \/ /\ found = "none"
                /\ req' = [req EXCEPT ![r].pc = "group", ![r].call = "create"]
    /\ UNCHANGED <<sm, group, updated>>

(***************************************************************************)
(* The state machine is fine, or must be created, or it has no logging as  *)
(* far as this process knows: its cached answer may be older than its own  *)
(* update, which is what the map is for.                                   *)
(***************************************************************************)
DescribeStateMachine(r) ==
    /\ req[r].pc = "describe"
    /\ LET p == req[r].proc
           found == Described(p)
           outdated == found = "old" /\ ~updated[p]
       IN /\ cache' = [cache EXCEPT ![p] = found]
          /\ \/ found # "none" /\ ~outdated /\ Goto(r, "ready")
             \/ /\ found = "none" \/ outdated
                /\ req' = [req EXCEPT ![r] = [pc |-> "group", proc |-> p,
                                              call |-> IF outdated THEN "update" ELSE "create"]]
    /\ UNCHANGED <<sm, group, updated>>

\* The mutant takes a log group that exists for a complete one.
CreateLogGroupOnce(r) ==
    /\ req[r].pc = "group"
    /\ group' = group \cup {"group"}
    /\ Goto(r, IF "group" \in group THEN "call" ELSE "retention")
    /\ UNCHANGED <<sm, cache, updated>>

\* The three calls of createLogGroupsForLoggingConfiguration; it is no error
\* that the log group exists.
CreateLogGroup(r) ==
    /\ req[r].pc = "group"
    /\ group' = group \cup {"group"}
    /\ Goto(r, "retention")
    /\ UNCHANGED <<sm, cache, updated>>

PutRetentionPolicy(r) ==
    /\ req[r].pc = "retention"
    /\ group' = group \cup {"retention"}
    /\ Goto(r, "filter")
    /\ UNCHANGED <<sm, cache, updated>>

PutSubscriptionFilter(r) ==
    /\ req[r].pc = "filter"
    /\ group' = group \cup {"filter"}
    /\ Goto(r, "call")
    /\ UNCHANGED <<sm, cache, updated>>

\* Creating the state machine that is there already, word for word, succeeds.
CreateStateMachine(r) ==
    /\ req[r].pc = "call" /\ req[r].call = "create"
    /\ sm' = "logged"
    /\ Goto(r, "describe")
    /\ UNCHANGED <<group, cache, updated>>

UpdateStateMachine(r) ==
    /\ req[r].pc = "call" /\ req[r].call = "update"
    /\ sm' = "logged"
    /\ Goto(r, "sleep")
    /\ UNCHANGED <<group, cache, updated>>

\* The mutant never tells the map.
StoreNothing(r) ==
    /\ req[r].pc = "sleep"
    /\ Goto(r, "describe")
    /\ UNCHANGED <<sm, group, cache, updated>>

\* Two seconds later the map hears of it, and the request starts over.
StoreUpdated(r) ==
    /\ req[r].pc = "sleep"
    /\ updated' = [updated EXCEPT ![req[r].proc] = TRUE]
    /\ Goto(r, "describe")
    /\ UNCHANGED <<sm, group, cache>>
-----------------------------------------------------------------------------
\* A call fails or the request times out; the sleep does not look.
Abandon(r) ==
    /\ "abandon" \in Faults
    /\ req[r].pc \notin {"idle", "ready", "sleep"}
    /\ Goto(r, "idle")
    /\ UNCHANGED <<sm, group, cache, updated>>

\* A process is replaced: its requests, its cache and its map are gone.
Restart(p) ==
    /\ "restart" \in Faults
    /\ cache' = [cache EXCEPT ![p] = "none"]
    /\ updated' = [updated EXCEPT ![p] = FALSE]
    /\ req' = [r \in Req |-> IF req[r].proc # p THEN req[r]
                             ELSE [pc |-> "idle", proc |-> p, call |-> "create"]]
    /\ UNCHANGED <<sm, group>>

\* Other state machines push this one out of the LRU cache.
Evict(p) ==
    /\ "evict" \in Faults
    /\ cache' = [cache EXCEPT ![p] = "none"]
    /\ UNCHANGED <<sm, group, updated, req>>

Continue(r) ==
    \/ DescribeStateMachine(r)
    \/ CreateLogGroup(r) \/ PutRetentionPolicy(r) \/ PutSubscriptionFilter(r)
    \/ CreateStateMachine(r) \/ UpdateStateMachine(r) \/ StoreUpdated(r)

Next == \/ \E r \in Req : Begin(r) \/ Continue(r) \/ Abandon(r)
        \/ \E p \in Process : Restart(p) \/ Evict(p)

Spec == Init /\ [][Next]_vars

\* A handler that runs goes on.
FairSpec == Spec /\ \A r \in Req : WF_vars(Continue(r))
-----------------------------------------------------------------------------
(***************************************************************************)
(* Properties.                                                             *)
(***************************************************************************)

\* Every variable has its type.
TypeOK ==
    /\ sm \in StateMachine
    /\ group \subseteq GroupParts
    /\ cache \in [Process -> StateMachine]
    /\ updated \in [Process -> BOOLEAN]
    /\ req \in [Req -> Request]

\* When the caller goes on to start an execution, its events will reach the
\* consumer: the state machine logs to a log group with a subscription,
\* although the answer the caller acts on may be a stale one.
ReadyIsLogged ==
    \A r \in Req : req[r].pc = "ready" => sm = "logged" /\ "filter" \in group

\* A state machine logs only to a complete log group, whichever of several
\* requests fail half way ("must create the log group before creating or
\* updating a state machine referencing the log group").
LoggedIsSubscribed == sm = "logged" => group = GroupParts

\* The recursion ends: a request comes through although the cache never hears
\* of the update.
EveryRequestReady ==
    \A r \in Req : req[r].pc = "describe" ~> req[r].pc \in {"ready", "idle"}
-----------------------------------------------------------------------------
(***************************************************************************)
(* The inductive invariant.                                                *)
(***************************************************************************)

\* Which parts of the log group are there when a request is at pc.
Made(pc) ==
    CASE pc = "retention" -> {"group"}
      [] pc = "filter"    -> {"group", "retention"}
      [] pc = "call"      -> GroupParts
      [] OTHER            -> {}

\* A process knows no more than what is true: what it has cached as logged or
\* has updated itself is logged.
Inv ==
    /\ TypeOK
    /\ LoggedIsSubscribed /\ ReadyIsLogged
    /\ \A p \in Process : cache[p] = "logged" \/ updated[p] => sm = "logged"
    /\ \A r \in Req : Made(req[r].pc) \subseteq group
    /\ \A r \in Req : req[r].pc = "sleep" => sm = "logged"
=============================================================================
