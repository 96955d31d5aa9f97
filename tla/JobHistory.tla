------------------------------ MODULE JobHistory ------------------------------
(***************************************************************************)
(* How the jobs of a workflow are made from the event history of its SFN   *)
(* execution: ProcessEvents, page by page for UpdateWorkflowHistory, and   *)
(* on the end of the history alone for UpdateWorkflowLastJob.              *)
(*                                                                         *)
(* SFN writes the history: parallel branches interleave their events, and  *)
(* each event names the event before it in its own branch.  The position   *)
(* of an event in the history is its id.                                   *)
(***************************************************************************)
EXTENDS Naturals, Sequences, FiniteSets

CONSTANTS Branch,     \* branches that run at the same time
          Emits,      \* events SFN emits that ProcessEvents does not handle
          MaxEvents   \* bound on the history

ASSUME JobHistoryAssumption ==
    /\ Emits \subseteq {"taskFailed", "stateAborted"}
    /\ MaxEvents \in Nat \ {0}
    /\ IsFiniteSet(Branch)

VARIABLES history,   \* SFN: the events so far
          at,        \* SFN: where each branch is
          exec,      \* SFN: "running", "failing" or "ended"
          reader,    \* who reads the history, and from which event on
          read,      \* the last event that has been read
          pages,     \* the jobs of the pages before this one
          jobs,      \* jobs in ProcessEvents: those entered on this page
          jobOf,     \* eventIDToJob: the job each event belongs to
          job        \* the jobs themselves

sfnVars == <<history, at, exec>>
readerVars == <<reader, read, pages, jobs, jobOf, job>>
vars == <<history, at, exec, reader, read, pages, jobs, jobOf, job>>

\* A job is named after the event that entered its state; 0 is no job.
Id == 0..MaxEvents

StateEntered == {"entered", "choiceEntered"}
ExecutionEnd == {"execAborted", "execFailed", "execTimedOut"}

\* "failed" stands for the events that say that an activity, a lambda or the
\* submission of a task failed or timed out, "taskFailed" for a task of
\* another service that ran and failed, "pass" for the states without jobs.
\* "choiceEntered" and "choiceExited" are those of a Choice or Succeed state.
EventType ==
    StateEntered \cup ExecutionEnd \cup
    {"execStarted", "execSucceeded", "pass", "scheduled", "started", "failed", "taskFailed",
     "succeeded", "exited", "choiceExited", "stateAborted"}

\* of is the event that entered the state the event is about (of an execution
\* that failed: the state because of which); it is not in the real event.
Event == [type : EventType, prev : Id, of : Id]

JobStatus == {"created", "queued", "running", "succeeded", "failed", "aborted"}
Job == [status : JobStatus, attempts : Nat]

BranchPC == {"before", "after", "choice", "entered", "scheduled", "started", "failed", "succeeded",
             "failState", "aborted"}

Init ==
    /\ history = <<[type |-> "execStarted", prev |-> 0, of |-> 0]>>
    /\ at = [b \in Branch |-> [pc |-> "before", of |-> 0, last |-> 1]]
    /\ exec = "running"
    /\ reader = [who |-> "none", from |-> 0]
    /\ read = 0
    /\ pages = <<>> /\ jobs = <<>>
    /\ jobOf = <<>> /\ job = <<>>
-----------------------------------------------------------------------------
(***************************************************************************)
(* The execution, as SFN reports it.                                       *)
(***************************************************************************)
Log(type, prev, of) ==
    /\ Len(history) < MaxEvents
    /\ history' = Append(history, [type |-> type, prev |-> prev, of |-> of])

\* What a branch does from where, the event for it, and where it is then.
\* Before a state it must go on, after one it may also be at its end.  From
\* "failed" a retrier schedules the task again or a catcher leaves the state.
Moves ==
    {<<"entered", "scheduled", "scheduled">>,
     <<"scheduled", "started", "started">>, <<"scheduled", "failed", "failed">>,
     <<"started", "succeeded", "succeeded">>, <<"started", "failed", "failed">>,
     <<"started", "taskFailed", "failed">>, <<"failed", "scheduled", "scheduled">>,
     <<"failed", "exited", "before">>, <<"succeeded", "exited", "after">>,
     <<"choice", "choiceExited", "before">>, <<"choice", "choiceExited", "after">>} \cup
    UNION {{<<pc, "entered", "entered">>, <<pc, "choiceEntered", "choice">>,
            <<pc, "pass", "after">>, <<pc, "pass", "failState">>} : pc \in {"before", "after"}}

BranchMoves(b) ==
    /\ exec = "running"
    /\ \E m \in Moves :
          /\ at[b].pc = m[1]
          /\ m[2] = "taskFailed" => m[2] \in Emits
          /\ LET id == Len(history) + 1
                 of == IF m[2] \in StateEntered THEN id
                       ELSE IF m[2] = "pass" THEN 0 ELSE at[b].of
             IN /\ Log(m[2], at[b].last, of)
                /\ at' = [at EXCEPT ![b] = [pc |-> m[3], of |-> of, last |-> id]]
    /\ UNCHANGED exec

\* A branch fails for good: the execution is going to fail because of it.
BranchFails(b) ==
    /\ exec = "running"
    /\ at[b].pc \in {"failed", "failState"}
    /\ exec' = "failing"
    /\ UNCHANGED <<history, at>>

\* The other branches are stopped first.
AbortBranch(b) ==
    /\ "stateAborted" \in Emits
    /\ exec = "failing"
    /\ at[b].pc \in {"entered", "scheduled", "started"}
    /\ Log("stateAborted", at[b].last, at[b].of)
    /\ at' = [at EXCEPT ![b].pc = "aborted", ![b].last = Len(history) + 1]
    /\ UNCHANGED exec

ExecutionFails ==
    /\ exec = "failing"
    /\ \E b \in Branch : /\ at[b].pc \in {"failed", "failState"}
                         /\ Log("execFailed", at[b].last, at[b].of)
    /\ exec' = "ended"
    /\ UNCHANGED at

\* The previous event of the end is the last of the only branch, or of a
\* parallel state around the branches, which is not in the model.
ExecutionSucceeds ==
    /\ exec = "running"
    /\ \A b \in Branch : at[b].pc = "after"
    /\ \E b \in Branch :
          IF Branch = {b} THEN Log("execSucceeded", at[b].last, at[b].of)
                          ELSE Log("execSucceeded", 0, 0)
    /\ exec' = "ended"
    /\ UNCHANGED at

\* Stopped by CancelWorkflow, or out of time.
ExecutionStops ==
    /\ exec # "ended"
    /\ \E type \in {"execAborted", "execTimedOut"} : Log(type, 0, 0)
    /\ exec' = "ended"
    /\ UNCHANGED at
-----------------------------------------------------------------------------
(***************************************************************************)
(* The reader.                                                             *)
(***************************************************************************)

\* UpdateWorkflowHistory reads from the first event on, all pages.
UpdateWorkflowHistory ==
    /\ reader.who = "none"
    /\ reader' = [who |-> "history", from |-> 0]
    /\ UNCHANGED <<read, pages, jobs, jobOf, job>>

\* UpdateWorkflowLastJob reads the last page only, of a failed execution; the
\* page is fetched in reverse and turned around.
UpdateWorkflowLastJob ==
    /\ reader.who = "none"
    /\ exec = "ended" /\ history[Len(history)].type \in {"execFailed", "execTimedOut"}
    /\ \E n \in 0..(Len(history) - 1) :
          /\ reader' = [who |-> "lastJob", from |-> n]
          /\ read' = n
    /\ UNCHANGED <<pages, jobs, jobOf, job>>

\* The mutant gives an event to the state that was entered last.
EventToLastJob(e, id) ==
    CASE e.type \in {"execStarted", "pass"} -> 0
      [] e.type \in StateEntered            -> id
      [] OTHER                              -> IF jobs # <<>> THEN jobs[Len(jobs)] ELSE 0

\* The mutant gives the end of an execution to the first job.
EventToFirstJob(e, id) ==
    CASE e.type \in {"execStarted", "pass"} -> 0
      [] e.type \in StateEntered            -> id
      [] e.type \in ExecutionEnd            -> IF jobs # <<>> THEN jobs[1] ELSE 0
      [] OTHER                              -> IF e.prev \in DOMAIN jobOf THEN jobOf[e.prev] ELSE 0

\* eventToJob: 0 when it returns nil.
EventToJob(e, id) ==
    CASE e.type \in {"execStarted", "pass"} -> 0
      [] e.type \in StateEntered            -> id
      [] e.type \in ExecutionEnd            -> IF jobs # <<>> THEN jobs[Len(jobs)] ELSE 0
      [] OTHER                              -> IF e.prev \in DOMAIN jobOf THEN jobOf[e.prev] ELSE 0

\* What an event makes of a job that is there: a task that is scheduled after
\* it failed is a retry, and what the job was becomes one of its attempts.
UpdateJob(old, type) ==
    CASE type = "scheduled" ->
           [status |-> "queued",
            attempts |-> IF old.status = "failed" THEN old.attempts + 1 ELSE old.attempts]
      [] type = "started" -> [old EXCEPT !.status = "running"]
      [] type \in {"failed", "execFailed", "execTimedOut"} -> [old EXCEPT !.status = "failed"]
      [] type \in {"succeeded", "choiceExited", "execSucceeded"} -> [old EXCEPT !.status = "succeeded"]
      [] type = "execAborted" -> [old EXCEPT !.status = "aborted"]
      [] OTHER -> old

\* One turn of the loop of ProcessEvents.
ProcessEvent ==
    /\ reader.who # "none"
    /\ read < Len(history)
    /\ LET id == read + 1
           e == history[id]
           j == EventToJob(e, id)
       IN /\ read' = id
          /\ jobs' = IF e.type \in StateEntered THEN Append(jobs, id) ELSE jobs
          /\ jobOf' = IF j = 0 \/ e.type \in ExecutionEnd THEN jobOf
                      ELSE [i \in DOMAIN jobOf \cup {id} |-> IF i = id THEN j ELSE jobOf[i]]
          /\ job' = IF j = 0 THEN job
                    ELSE [i \in DOMAIN job \cup {j} |->
                             IF i # j THEN job[i]
                             ELSE IF e.type \in StateEntered THEN [status |-> "created", attempts |-> 0]
                             ELSE UpdateJob(job[j], e.type)]
    /\ UNCHANGED <<reader, pages>>

\* The mutant keeps the jobs of the last page only.
NextPageOnly ==
    /\ reader.who = "history" /\ read < Len(history)
    /\ pages' = jobs
    /\ jobs' = <<>>
    /\ UNCHANGED <<reader, read, jobOf, job>>

\* The page ends and there is more: UpdateWorkflowHistory keeps its jobs, and the map, and calls
\* ProcessEvents for the next.
NextPage ==
    /\ reader.who = "history" /\ read < Len(history)
    /\ pages' = pages \o jobs
    /\ jobs' = <<>>
    /\ UNCHANGED <<reader, read, jobOf, job>>

Sfn == \/ \E b \in Branch : BranchMoves(b) \/ BranchFails(b) \/ AbortBranch(b)
       \/ ExecutionFails \/ ExecutionSucceeds \/ ExecutionStops

Reader == UpdateWorkflowHistory \/ UpdateWorkflowLastJob \/ ProcessEvent \/ NextPage

Next == \/ Sfn /\ UNCHANGED readerVars
        \/ Reader /\ UNCHANGED sfnVars

Spec == Init /\ [][Next]_vars
-----------------------------------------------------------------------------
(***************************************************************************)
(* Properties.                                                             *)
(***************************************************************************)

\* Every variable has its type.
TypeOK ==
    /\ history \in Seq(Event) /\ Len(history) <= MaxEvents
    /\ at \in [Branch -> [pc : BranchPC, of : Id, last : Id]]
    /\ exec \in {"running", "failing", "ended"}
    /\ reader \in [who : {"none", "history", "lastJob"}, from : Id]
    /\ read \in 0..Len(history)
    /\ pages \in Seq(Id) /\ jobs \in Seq(Id)
    /\ DOMAIN jobOf \subseteq 1..read /\ \A i \in DOMAIN jobOf : jobOf[i] \in Id
    /\ DOMAIN job \subseteq 1..read /\ \A i \in DOMAIN job : job[i] \in Job

\* The events about state visit j that have been read, of these types.
Own(j, types) ==
    {i \in (reader.from + 1)..read : history[i].of = j /\ history[i].type \in types}

Latest(S) == CHOOSE i \in S : \A k \in S : k <= i

\* What an event says of its task.
StatusAfter(type) ==
    CASE type \in StateEntered                -> "created"
      [] type = "scheduled"                   -> "queued"
      [] type = "started"                     -> "running"
      [] type = "failed"                      -> "failed"
      [] type \in {"succeeded", "choiceExited"} -> "succeeded"

Handled == StateEntered \cup {"scheduled", "started", "failed", "succeeded", "choiceExited"}

\* The failures of state visit j that were retried.
Retried(j) ==
    {i \in Own(j, {"failed"}) :
        \E k \in Own(j, {"scheduled"}) : k > i /\ ~\E n \in Own(j, Handled) : i < n /\ n < k}

EndRead == read > 0 /\ history[read].type \in ExecutionEnd

\* A job is what its own events make of it, and no event of another branch
\* ever touches it, however the branches interleave and wherever pages end;
\* every retry is one more attempt.  Only the end of the execution, which is
\* written to the job entered last, is excepted.
NoMixUp ==
    \A j \in DOMAIN job :
        /\ job[j].attempts = Cardinality(Retried(j))
        /\ \/ job[j].status = StatusAfter(history[Latest(Own(j, Handled))].type)
           \/ EndRead /\ jobs # <<>> /\ j = jobs[Len(jobs)]

\* The jobs of all pages together are the state visits in the order in which
\* they began, none lost and none twice.
AllVisitsListed ==
    LET listed == pages \o jobs
        visits == {i \in (reader.from + 1)..read : history[i].type \in StateEntered}
    IN /\ {listed[i] : i \in DOMAIN listed} = visits
       /\ \A i, k \in DOMAIN listed : i < k => listed[i] < listed[k]

\* LastJob is the job whose state was entered last in the whole execution, and
\* UpdateWorkflowLastJob marks it as failed, however little of the history it
\* has read to find it.  With parallel branches that need not be where the
\* workflow has failed: it may be a job of another branch that was stopped.
LastJobIsLast ==
    reader.who = "lastJob" /\ EndRead /\ jobs # <<>> =>
        /\ job[jobs[Len(jobs)]].status = "failed"
        /\ \A i \in 1..Len(history) : history[i].type \in StateEntered => i <= jobs[Len(jobs)]

-----------------------------------------------------------------------------
(***************************************************************************)
(* The inductive invariant: first of the history that SFN writes, then of  *)
(* what the reader has made of its part of it.                             *)
(***************************************************************************)

\* The parent of an event is about the same state visit, unless the event
\* begins one, is about a state without a job or about the whole execution.
ParentsAgree ==
    \A i \in 1..Len(history) :
        LET e == history[i]
        IN /\ e.of <= i
           /\ e.type \in StateEntered => e.of = i
           /\ e.type \in {"execStarted", "pass"} => e.of = 0
           /\ e.type \notin StateEntered \cup ExecutionEnd \cup {"execStarted", "pass"} =>
                  /\ e.prev < i
                  /\ e.of = IF e.prev = 0 THEN 0 ELSE history[e.prev].of

\* Nothing happens after the end.
EndIsLast ==
    \A i \in 1..Len(history) :
        history[i].type \in ExecutionEnd => i = Len(history) /\ exec = "ended"

\* A branch goes on from its own last event, and no two are in the same visit.
BranchesApart ==
    /\ \A b \in Branch : /\ at[b].last \in 1..Len(history)
                         /\ history[at[b].last].of = at[b].of
    /\ \A b, c \in Branch : at[b].of = at[c].of /\ at[b].of # 0 => b = c

\* The last that ProcessEvents hears of visit j up to event i is its success.
Successful(events, j, i) ==
    \E k \in 1..i :
        /\ events[k].of = j /\ events[k].type \in {"succeeded", "choiceExited"}
        /\ \A n \in 1..i : n > k /\ events[n].of = j => events[n].type \notin Handled

\* An execution does not end well in a visit that did not.
SuccessIsEarned ==
    /\ \A b \in Branch :
          at[b].pc \in {"succeeded", "after"} /\ at[b].of # 0
              => Successful(history, at[b].of, Len(history))
    /\ \A i \in 1..Len(history) :
          history[i].type = "execSucceeded" /\ history[i].of # 0
              => Successful(history, history[i].of, i)

HistoryInv ==
    /\ Len(history) > 0
    /\ ParentsAgree /\ EndIsLast /\ BranchesApart /\ SuccessIsEarned

\* Who reads what: UpdateWorkflowLastJob has one page, of a failed execution.
ReaderInv ==
    /\ reader.from <= read
    /\ reader.who = "none" => read = 0 /\ pages = <<>> /\ jobs = <<>>
    /\ reader.who = "lastJob" =>
           /\ pages = <<>>
           /\ exec = "ended" /\ history[Len(history)].type \in {"execFailed", "execTimedOut"}

\* eventIDToJob has every event that was read under the state visit it is
\* about, if ProcessEvents has made a job of that, and knows no other job.
MapInv ==
    /\ DOMAIN job = {i \in (reader.from + 1)..read : history[i].type \in StateEntered}
    /\ \A i \in DOMAIN jobOf : jobOf[i] = history[i].of /\ jobOf[i] \in DOMAIN job
    /\ \A i \in (reader.from + 1)..read :
          history[i].of \in DOMAIN job /\ history[i].type \notin ExecutionEnd => i \in DOMAIN jobOf

\* NoMixUp for one job.
JobRight(j) ==
    /\ job[j].attempts = Cardinality(Retried(j))
    /\ \E k \in Own(j, Handled) :
          /\ \A n \in Own(j, Handled) : n <= k
          /\ \/ job[j].status = StatusAfter(history[k].type)
             \/ EndRead /\ jobs # <<>> /\ j = jobs[Len(jobs)]

\* The invariant as a whole.
Inv ==
    /\ TypeOK /\ HistoryInv /\ ReaderInv /\ MapInv
    /\ \A j \in DOMAIN job : JobRight(j)
    /\ AllVisitsListed /\ LastJobIsLast
=============================================================================
