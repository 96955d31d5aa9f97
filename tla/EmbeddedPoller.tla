---------------------------- MODULE EmbeddedPoller ----------------------------
(***************************************************************************)
(* The embedded worker (embedded/poll.go) for one resource: the loop that  *)
(* polls SFN for tasks up to a limit, and for every task a handler that    *)
(* runs the resource's function and a heartbeat side by side and reports   *)
(* the result.  Resources do not share anything but the outer context.     *)
(***************************************************************************)
EXTENDS Integers, FiniteSets

CONSTANTS Tasks,    \* the task tokens that SFN may hand out
          Limit,    \* concurrencyLimits of the resource
          Faults    \* what the environment may do to us

ASSUME PollerAssumption ==
    /\ Limit \in Nat
    /\ Faults \subseteq {"shutdown", "lostAnswer"}

VARIABLES loop,     \* where pollGetActivityTask is
          shutdown, \* the outer context is cancelled
          counter,  \* concurrentExecutions
          handler,  \* the goroutines of each task
          result,   \* what the function returned for each task
          task,     \* SFN: what became of each task
          lost,     \* the tasks of which a call to SFN or its answer got lost
          late      \* the handlers that the counter lacked when it was last compared

vars == <<loop, shutdown, counter, handler, result, task, lost, late>>

(***************************************************************************)
(* main is concurrentlyHandleTask with handleTask in it, fn and beat are   *)
(* the two goroutines of its error group.  cancelled says that their       *)
(* context is, and err that one of them returned an error.                 *)
(***************************************************************************)
Handler == [main : {"none", "spawned", "running", "reporting", "ended"},
            fn : {"calling", "sending", "returning", "ended"},
            beat : {"on", "ended"},
            cancelled : BOOLEAN,
            err : BOOLEAN]

NoHandler == [main |-> "none", fn |-> "calling", beat |-> "on",
              cancelled |-> FALSE, err |-> FALSE]

Init ==
    /\ loop = "check"
    /\ shutdown = FALSE
    /\ counter = 0
    /\ handler = [t \in Tasks |-> NoHandler]
    /\ result = [t \in Tasks |-> "none"]
    /\ task = [t \in Tasks |-> "scheduled"]
    /\ lost = {}
    /\ late = {}

\* Handlers that exist, and those that count.
Spawned == {t \in Tasks : handler[t].main \in {"spawned", "running", "reporting"}}
Counted == {t \in Tasks : handler[t].main \in {"running", "reporting"}}

ContextDone(t) == shutdown \/ handler[t].cancelled

\* A call about t, or SFN's answer to it, gets lost on its way.
Lose(t) == "lostAnswer" \in Faults /\ lost' = lost \cup {t}
-----------------------------------------------------------------------------
(***************************************************************************)
(* pollGetActivityTask.                                                    *)
(***************************************************************************)

\* Mutant: one too many.
CheckLimitInclusive ==
    /\ loop = "check"
    /\ \/ /\ shutdown
          /\ loop' = "stopped"
          /\ UNCHANGED late
       \/ /\ ~shutdown
          /\ counter <= Limit
          /\ loop' = "poll"
          /\ late' = Spawned \ Counted
    /\ UNCHANGED <<shutdown, counter, handler, result, task, lost>>

(***************************************************************************)
(* One turn of the loop up to GetActivityTask.  It is the handler that     *)
(* counts itself, not the loop, and the limiter, a bucket that is full     *)
(* again after a long GetActivityTask, does not hold the loop until it     *)
(* has: the counter may lack handlers that exist.                          *)
(***************************************************************************)
CheckLimit ==
    /\ loop = "check"
    /\ \/ /\ shutdown
          /\ loop' = "stopped"
          /\ UNCHANGED late
       \/ /\ ~shutdown
          /\ counter < Limit
          /\ loop' = "poll"
          /\ late' = Spawned \ Counted
    /\ UNCHANGED <<shutdown, counter, handler, result, task, lost>>

\* A task, which gets a handler; or none, or an error.
GetActivityTask ==
    /\ loop = "poll"
    /\ loop' = "check"
    /\ \/ \E t \in Tasks :
             /\ task[t] = "scheduled"
             /\ task' = [task EXCEPT ![t] = "given"]
             /\ \/ /\ handler' = [handler EXCEPT ![t].main = "spawned"]
                   /\ UNCHANGED lost
                \/ Lose(t) /\ UNCHANGED handler
       \/ UNCHANGED <<task, handler, lost>>
    /\ UNCHANGED <<shutdown, counter, result, late>>
-----------------------------------------------------------------------------
(***************************************************************************)
(* concurrentlyHandleTask and handleTask.                                  *)
(***************************************************************************)
StartHandler(t) ==
    /\ handler[t].main = "spawned"
    /\ handler' = [handler EXCEPT ![t].main = "running"]
    /\ counter' = counter + 1
    /\ UNCHANGED <<loop, shutdown, result, task, lost, late>>

(***************************************************************************)
(* The heartbeat goroutine: it ends with its context, or with an error as  *)
(* soon as SFN says that the task is over, which cancels the context.      *)
(***************************************************************************)
Heartbeat(t) ==
    /\ handler[t].main = "running" /\ handler[t].beat = "on"
    /\ \/ /\ ContextDone(t)
          /\ handler' = [handler EXCEPT ![t].beat = "ended"]
       \/ /\ ~ContextDone(t)
          /\ task[t] # "given"
          /\ handler' = [handler EXCEPT ![t].beat = "ended", ![t].cancelled = TRUE,
                                        ![t].err = TRUE]
    /\ UNCHANGED <<loop, shutdown, counter, result, task, lost, late>>

\* Mutant: the heartbeat is cancelled when the function returns, not when its
\* result is sent.
CallReturnsAndCancels(t) ==
    /\ handler[t].main = "running" /\ handler[t].fn = "calling"
    /\ \E outcome \in {"succeeded", "failed"} :
          result' = [result EXCEPT ![t] = outcome]
    /\ handler' = [handler EXCEPT ![t].fn = "sending", ![t].cancelled = TRUE]
    /\ UNCHANGED <<loop, shutdown, counter, task, lost, late>>

\* resource.Call.
CallReturns(t) ==
    /\ handler[t].main = "running" /\ handler[t].fn = "calling"
    /\ \E outcome \in {"succeeded", "failed"} :
          result' = [result EXCEPT ![t] = outcome]
    /\ handler' = [handler EXCEPT ![t].fn = "sending"]
    /\ UNCHANGED <<loop, shutdown, counter, task, lost, late>>

(***************************************************************************)
(* sendTaskSuccess or sendTaskFailure.  Only the former uses the context:  *)
(* once it is cancelled nothing is sent.  SFN takes one answer per task.   *)
(***************************************************************************)
SendResult(t) ==
    /\ handler[t].main = "running" /\ handler[t].fn = "sending"
    /\ LET sent == ~(result[t] = "succeeded" /\ ContextDone(t))
           Returns(err) == handler' = [handler EXCEPT ![t].fn = "returning",
                                                      ![t].err = @ \/ err]
       IN \/ /\ sent /\ task[t] = "given"
             /\ task' = [task EXCEPT ![t] = result[t]]
             /\ \/ Returns(FALSE) /\ UNCHANGED lost
                \/ Returns(TRUE) /\ Lose(t)
          \/ /\ Returns(TRUE)
             /\ UNCHANGED task
             /\ \/ (~sent \/ task[t] # "given") /\ UNCHANGED lost
                \/ Lose(t)
    /\ UNCHANGED <<loop, shutdown, counter, result, late>>

\* The function's goroutine ends: its deferred cancel, and the group's on an error.
CancelHeartbeat(t) ==
    /\ handler[t].main = "running" /\ handler[t].fn = "returning"
    /\ handler' = [handler EXCEPT ![t].fn = "ended", ![t].cancelled = TRUE]
    /\ UNCHANGED <<loop, shutdown, counter, result, task, lost, late>>

\* Mutant: the slot is given back before the error is reported, and again after.
WaitReleases(t) ==
    /\ handler[t].main = "running"
    /\ handler[t].fn = "ended" /\ handler[t].beat = "ended"
    /\ handler' = [handler EXCEPT ![t].main = IF handler[t].err THEN "reporting" ELSE "ended"]
    /\ counter' = counter - 1
    /\ UNCHANGED <<loop, shutdown, result, task, lost, late>>

\* g.Wait returns; without an error the handler is done.
Wait(t) ==
    /\ handler[t].main = "running"
    /\ handler[t].fn = "ended" /\ handler[t].beat = "ended"
    /\ IF handler[t].err
       THEN handler' = [handler EXCEPT ![t].main = "reporting"] /\ UNCHANGED counter
       ELSE handler' = [handler EXCEPT ![t].main = "ended"] /\ counter' = counter - 1
    /\ UNCHANGED <<loop, shutdown, result, task, lost, late>>

\* Mutant: the report uses the context of the request.
ReportWithContext(t) ==
    /\ handler[t].main = "reporting"
    /\ IF task[t] = "given" /\ ~shutdown THEN task' = [task EXCEPT ![t] = "failed"]
                                         ELSE UNCHANGED task
    /\ handler' = [handler EXCEPT ![t].main = "ended"]
    /\ counter' = counter - 1
    /\ UNCHANGED <<loop, shutdown, result, lost, late>>

\* Mutant: the slot is not given back after an error.
ReportAndLeak(t) ==
    /\ handler[t].main = "reporting"
    /\ task' = [task EXCEPT ![t] = IF @ = "given" THEN "failed" ELSE @]
    /\ handler' = [handler EXCEPT ![t].main = "ended"]
    /\ UNCHANGED <<loop, shutdown, counter, result, lost, late>>

\* sendTaskFailure of an InternalError, whatever the context; its own error
\* is only logged.
ReportInternalError(t) ==
    /\ handler[t].main = "reporting"
    /\ \/ task[t] = "given" /\ task' = [task EXCEPT ![t] = "failed"] /\ UNCHANGED lost
       \/ task[t] # "given" /\ UNCHANGED <<task, lost>>
       \/ Lose(t) /\ UNCHANGED task
    /\ handler' = [handler EXCEPT ![t].main = "ended"]
    /\ counter' = counter - 1
    /\ UNCHANGED <<loop, shutdown, result, late>>
-----------------------------------------------------------------------------
\* SFN gives up on a task: it took too long or its heartbeats did not arrive.
TaskTimesOut(t) ==
    /\ task[t] = "given"
    /\ task' = [task EXCEPT ![t] = "timedOut"]
    /\ UNCHANGED <<loop, shutdown, counter, handler, result, lost, late>>

\* The caller of PollForWork cancels its context.
Shutdown ==
    /\ "shutdown" \in Faults
    /\ ~shutdown
    /\ shutdown' = TRUE
    /\ UNCHANGED <<loop, counter, handler, result, task, lost, late>>

HandlerStep(t) ==
    \/ StartHandler(t) \/ Heartbeat(t) \/ CallReturns(t) \/ SendResult(t)
    \/ CancelHeartbeat(t) \/ Wait(t) \/ ReportInternalError(t)

Next ==
    \/ CheckLimit \/ GetActivityTask \/ Shutdown
    \/ \E t \in Tasks : HandlerStep(t) \/ TaskTimesOut(t)

Spec == Init /\ [][Next]_vars

\* Goroutines go on, and functions return.
FairSpec ==
    /\ Spec
    /\ WF_vars(CheckLimit) /\ WF_vars(GetActivityTask)
    /\ \A t \in Tasks : WF_vars(HandlerStep(t))
-----------------------------------------------------------------------------
(***************************************************************************)
(* Properties.                                                             *)
(***************************************************************************)

\* Every variable has its type; the counter is never negative.
TypeOK ==
    /\ loop \in {"check", "poll", "stopped"}
    /\ shutdown \in BOOLEAN
    /\ counter \in Nat
    /\ handler \in [Tasks -> Handler]
    /\ result \in [Tasks -> {"none", "succeeded", "failed"}]
    /\ task \in [Tasks -> {"scheduled", "given", "succeeded", "failed", "timedOut"}]
    /\ lost \subseteq Tasks
    /\ late \subseteq Tasks

\* concurrentExecutions is the number of handlers at work: every way through
\* a handler gives back its slot, once.
CounterExact == counter = Cardinality(Counted)

\* PerResourceConcurrencyLimits: there are no more handlers than the limit,
\* but for those that had not got to their first statement, which counts them,
\* when the loop last compared the counter.  The limit may be exceeded by
\* these, and by nothing else; as soon as they count, the loop takes no more.
LimitRespected == Cardinality(Spawned \ late) <= Limit

\* SFN is told of a success only if the function succeeded.  A success becomes
\* a failure only if the worker was shut down or an answer of this task got
\* lost, never because a heartbeat meets the end of the task or the task times out.
AnswerTruthful ==
    \A t \in Tasks :
        /\ task[t] = "succeeded" => result[t] = "succeeded"
        /\ task[t] = "failed" /\ result[t] = "succeeded" => shutdown \/ t \in lost

\* A task that has a handler is answered and its slot is free again, after a
\* shutdown too (sendTaskFailure does not use the cancelled context), unless
\* the answers get lost; the handler then ends all the same.
EveryTaskAnswered ==
    \A t \in Tasks :
        handler[t].main = "spawned"
            ~> handler[t].main = "ended" /\ (task[t] # "given" \/ t \in lost)
-----------------------------------------------------------------------------
(***************************************************************************)
(* The inductive invariant.                                                *)
(***************************************************************************)

\* How far a handler is says what its task and its result can be.  Without a
\* shutdown only a heartbeat that met the end of the task cancels the context
\* before the result is sent, so a result that did not reach SFN in spite of
\* an open task was lost or met a shutdown.
HandlerConsistent(t) ==
    /\ task[t] = "scheduled" => handler[t].main = "none"
    /\ handler[t].main \in {"none", "spawned"} => handler[t] = [NoHandler EXCEPT !.main = handler[t].main]
    /\ handler[t].main \in {"reporting", "ended"} => handler[t].fn = "ended"
    /\ handler[t].fn = "calling" <=> result[t] = "none"
    /\ handler[t].fn \in {"calling", "sending"} =>
           /\ task[t] \in {"scheduled", "given", "timedOut"}
           /\ handler[t].cancelled => task[t] # "given"
    /\ handler[t].fn \in {"returning", "ended"} /\ task[t] = "given" =>
           \/ t \in lost
           \/ result[t] = "succeeded" /\ shutdown

\* The loop goes on to poll only when there is a slot as far as the counter
\* can tell, and nobody but the loop takes one.
SlotKept == loop = "poll" => Cardinality(Spawned \ late) < Limit

\* The number of handlers, the limit and the answers, each with what it rests on.
Inv ==
    /\ TypeOK
    /\ IsFiniteSet(Spawned)
    /\ CounterExact
    /\ LimitRespected
    /\ SlotKept
    /\ \A t \in Tasks : HandlerConsistent(t)
    /\ AnswerTruthful
=============================================================================
