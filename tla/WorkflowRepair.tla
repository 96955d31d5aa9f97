---------------------------- MODULE WorkflowRepair ----------------------------
(***************************************************************************)
(* How the end of an execution comes to the workflows table, and comes     *)
(* back to it when it was lost: WorkflowManager under the fairness that    *)
(* the service, the consumer and its clients justify.                      *)
(*                                                                         *)
(* The variable lost is a history: the workflows whose end the table has   *)
(* missed, because the consumer dropped the event that reports it, or has  *)
(* lost again, because a handler put a copy that it had read before.       *)
(***************************************************************************)
EXTENDS WorkflowManager

\* Which clients call which endpoints, for which workflows, whether they keep
\* asking for them, and what may go wrong meanwhile.
CONSTANT Scenarios

Scenario == [calls : [Req -> SUBSET Ops], ids : SUBSET WorkflowIDs, polling : BOOLEAN,
             faults : SUBSET Faults]

ASSUME ScenariosAssumption == Scenarios \subseteq Scenario

VARIABLES scenario, lost

repairVars == <<table, life, exec, stream, req, scenario, lost>>

RepairInit == Init /\ scenario \in Scenarios /\ lost = {}

\* The table says how the execution of i has ended.
Recorded(i) == table[i].status = SFNStatusToWorkflowStatus(exec[i])

\* A client calls one of its endpoints.
Call(r) ==
    \/ "start"   \in scenario.calls[r] /\ StartWorkflow(r)
    \/ "get"     \in scenario.calls[r] /\ GetWorkflowByID(r)
    \/ "cancel"  \in scenario.calls[r] /\ CancelWorkflow(r)
    \/ "resolve" \in scenario.calls[r] /\ ResolveWorkflowByID(r)
    \/ "resume"  \in scenario.calls[r] /\ ResumeWorkflowByID(r)

\* The consumer does its work on an event, or drops it.
Consume(evt) ==
    \/ /\ HandleHistoryEvent(evt)
       /\ evt \in stream' => "redeliver" \in scenario.faults
       /\ UNCHANGED lost
    \/ /\ "dropEvent" \in scenario.faults
       /\ DropEvent(evt)
       /\ lost' = IF evt[2] = "terminal" THEN lost \cup {evt[1]} ELSE lost

\* A handler goes on, and may put what has become outdated meanwhile.
Serve(r) ==
    /\ Continue(r)
    /\ lost' = lost \cup {i \in WorkflowIDs : table[i].status \in TerminalStates
                                              /\ table'[i].status \notin TerminalStates}

RepairNext ==
    /\ \/ \E r \in Req :
             \/ Serve(r)
             \/ Call(r) /\ UNCHANGED lost
             \/ "abandon" \in scenario.faults /\ Abandon(r) /\ UNCHANGED lost
       \/ \E evt \in Event : Consume(evt)
       \/ \E i \in WorkflowIDs :
             (ExecutionRuns(i) \/ ExecutionEnds(i) \/ FiveMinutesPass(i)) /\ UNCHANGED lost
    /\ {i \in WorkflowIDs : life'[i] # "fresh"} \subseteq scenario.ids
    /\ UNCHANGED scenario

(***************************************************************************)
(* Fairness.  A handler that runs goes on, and an event that Kinesis has   *)
(* is given to the consumer, which handles it or fails and drops it: there *)
(* is no second chance.  No execution has to end.  Where clients poll they *)
(* ask for a workflow again and again and do not fail for ever in doing    *)
(* so; time passes for them, too.  Elsewhere no client is obliged to call. *)
(***************************************************************************)
Poll == scenario.polling /\ \E r \in Req, i \in WorkflowIDs :
            /\ "get" \in scenario.calls[r]
            /\ req[r].pc = "idle"
            /\ Read(r, i, "get.summary")
            /\ UNCHANGED <<table, life, exec, stream, scenario, lost>>

PollGoesOn(r) == scenario.polling /\ UpdateWorkflowSummary(r) /\ UNCHANGED <<scenario, lost>>

PollIsSaved(r) == scenario.polling /\ req[r].pc = "get.put" /\ Serve(r) /\ UNCHANGED scenario

RepairSpec ==
    /\ RepairInit /\ [][RepairNext]_repairVars
    /\ \A r \in Req : WF_repairVars(Serve(r) /\ UNCHANGED scenario)
    /\ \A evt \in Event : WF_repairVars(Consume(evt) /\ UNCHANGED scenario)
    /\ \A i \in WorkflowIDs :
          WF_repairVars(scenario.polling /\ FiveMinutesPass(i) /\ UNCHANGED <<scenario, lost>>)
    /\ SF_repairVars(Poll)
    /\ SF_repairVars(\E r \in Req : PollGoesOn(r))
    /\ SF_repairVars(\E r \in Req : PollIsSaved(r))
-----------------------------------------------------------------------------
(***************************************************************************)
(* Properties.                                                             *)
(***************************************************************************)

\* The end of every execution reaches the table and stays there without
\* anybody asking for the workflow, in whatever order the consumer gets its
\* events, how often it gets them, and whatever requests do in between.  Only
\* two things make the table miss it: the consumer drops the one event that
\* reports it, or a handler puts a copy of the workflow from before the end.
EndIsRecorded ==
    \A i \in WorkflowIDs : exec[i] \in Ended ~> Recorded(i) \/ i \in lost

\* What no event reports, because there is no execution or because the event
\* was dropped, and what a stale put has lost, UpdateWorkflowSummary finds
\* out for clients that keep asking: an execution that ended is recorded, and
\* a workflow that was left without one is failed as a zombie.
PollingRepairs ==
    \A i \in WorkflowIDs :
        /\ (scenario.polling /\ exec[i] \in Ended) ~> Recorded(i)
        /\ (scenario.polling /\ Stored(i) /\ exec[i] = "none" /\ ~Starting(i))
               ~> (table[i].status = "failed" \/ ~Stored(i))
=============================================================================
