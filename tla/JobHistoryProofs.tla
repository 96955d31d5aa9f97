--------------------------- MODULE JobHistoryProofs ---------------------------
(***************************************************************************)
(* Proofs about JobHistory, for any number of branches, histories of any   *)
(* length and any way to cut them into pages.                              *)
(*                                                                         *)
(* The argument has two halves.  SFN's steps append to the history, and    *)
(* every event but the first of a visit has its parent in the same visit   *)
(* (ParentsAgree).  The reader goes from event to event: since the parent  *)
(* of an event was read before it, the map leads to the job of the visit   *)
(* the event is about (MapInv), so each job is what the events of its own  *)
(* visit make of it (JobRight).                                            *)
(***************************************************************************)
EXTENDS JobHistory, FiniteSetTheorems, TLAPS

\* What an event appended to the history leaves alone, and what it is.
LEMMA LogAppends ==
    ASSUME TypeOK, NEW type \in EventType, NEW prev \in Id, NEW of \in Id,
           Log(type, prev, of)
    PROVE  /\ history' \in Seq(Event)
           /\ Len(history') = Len(history) + 1 /\ Len(history') <= MaxEvents
           /\ Len(history) \in Nat
           /\ \A i \in 1..Len(history) : history'[i] = history[i]
           /\ history'[Len(history) + 1] = [type |-> type, prev |-> prev, of |-> of]
<1>1. /\ history \in Seq(Event) /\ Len(history) \in Nat
      /\ MaxEvents \in Nat
  BY JobHistoryAssumption DEF TypeOK
<1>2. [type |-> type, prev |-> prev, of |-> of] \in Event
  BY DEF Event
<1> QED
  BY <1>1, <1>2 DEF Log

\* The history as it was, or one event more.
Grows ==
    /\ Len(history) <= Len(history') /\ Len(history') \in Nat
    /\ \A i \in 1..Len(history) : history'[i] = history[i]

\* The moves of a branch.
LEMMA MoveFacts ==
    ASSUME NEW m \in Moves
    PROVE  /\ m[1] \in BranchPC /\ m[3] \in BranchPC
           /\ m[2] \in EventType \ (ExecutionEnd \cup {"execStarted", "execSucceeded"})
           /\ m[3] = "succeeded" => m[2] = "succeeded"
           /\ m[3] = "after" => \/ m[2] \in {"pass", "choiceExited"}
                                \/ m[1] = "succeeded" /\ m[2] = "exited"
<1>1. \/ m \in {<<"entered", "scheduled", "scheduled">>,
                <<"scheduled", "started", "started">>, <<"scheduled", "failed", "failed">>,
                <<"started", "succeeded", "succeeded">>, <<"started", "failed", "failed">>,
                <<"started", "taskFailed", "failed">>, <<"failed", "scheduled", "scheduled">>,
                <<"failed", "exited", "before">>, <<"succeeded", "exited", "after">>,
                <<"choice", "choiceExited", "before">>, <<"choice", "choiceExited", "after">>}
      \/ \E pc \in {"before", "after"} :
            m \in {<<pc, "entered", "entered">>, <<pc, "choiceEntered", "choice">>,
                   <<pc, "pass", "after">>, <<pc, "pass", "failState">>}
  BY DEF Moves
<1> QED
  BY <1>1 DEF BranchPC, EventType, ExecutionEnd, StateEntered

\* One branch logs an event of its visit or of one that it enters.
BranchLogs(b, type, of) ==
    /\ Len(history') = Len(history) + 1
    /\ history'[Len(history) + 1].type = type
    /\ history'[Len(history) + 1].prev = at[b].last
    /\ history'[Len(history) + 1].of = of
    /\ of = IF type \in StateEntered THEN Len(history) + 1
            ELSE IF type = "pass" THEN 0 ELSE at[b].of
    /\ type \in EventType \ (ExecutionEnd \cup {"execStarted", "execSucceeded"})

\* ParentsAgree for one event, in a history that may be longer.
LEMMA ParentsStay ==
    ASSUME TypeOK, ParentsAgree, Grows, NEW i \in 1..Len(history)
    PROVE  LET e == history'[i]
           IN /\ e.of <= i
              /\ e.type \in StateEntered => e.of = i
              /\ e.type \in {"execStarted", "pass"} => e.of = 0
              /\ e.type \notin StateEntered \cup ExecutionEnd \cup {"execStarted", "pass"} =>
                     /\ e.prev < i
                     /\ e.of = IF e.prev = 0 THEN 0 ELSE history'[e.prev].of
<1>1. history[i] \in Event /\ history'[i] = history[i] /\ i \in Nat /\ Len(history) \in Nat
  BY DEF TypeOK, Grows
<1>2. history[i].prev \in Nat
  BY <1>1, JobHistoryAssumption DEF Event, Id
<1>3. history[i].prev < i /\ history[i].prev # 0 => history'[history[i].prev] = history[history[i].prev]
  BY <1>1, <1>2 DEF Grows
<1> QED
  BY <1>1, <1>3 DEF ParentsAgree

\* Where a branch is.
LEMMA BranchBounds ==
    ASSUME TypeOK, HistoryInv, NEW b \in Branch
    PROVE  /\ Len(history) \in Nat
           /\ at[b].last \in 1..Len(history) /\ history[at[b].last].of = at[b].of
           /\ at[b].of <= at[b].last /\ at[b].of \in Nat
<1>1. /\ Len(history) \in Nat
      /\ at[b].last \in 1..Len(history) /\ history[at[b].last].of = at[b].of
  BY DEF TypeOK, HistoryInv, BranchesApart
<1>2. history[at[b].last].of <= at[b].last
  BY <1>1 DEF HistoryInv, ParentsAgree
<1>3. at[b] \in [pc : BranchPC, of : Id, last : Id]
  BY DEF TypeOK
<1> QED
  BY <1>1, <1>2, <1>3, JobHistoryAssumption DEF Id

\* A branch that logs keeps ParentsAgree and EndIsLast.
LEMMA BranchKeepsParents ==
    ASSUME TypeOK, HistoryInv, Grows, exec # "ended", NEW b \in Branch, NEW type, NEW of,
           BranchLogs(b, type, of)
    PROVE  ParentsAgree' /\ EndIsLast'
<1>1. Len(history) \in Nat /\ at[b].last \in 1..Len(history) /\ history[at[b].last].of = at[b].of
  BY DEF TypeOK, HistoryInv, BranchesApart
<1>2. history'[at[b].last].of = at[b].of /\ at[b].last # 0 /\ at[b].last < Len(history) + 1
  BY <1>1 DEF Grows
<1>3. at[b].of <= at[b].last /\ at[b].of \in Nat
  BY <1>1, JobHistoryAssumption DEF HistoryInv, ParentsAgree, TypeOK, Id
<1>4. ParentsAgree'
  <2> SUFFICES ASSUME NEW i \in 1..Len(history')
               PROVE  LET e == history'[i]
                      IN /\ e.of <= i
                         /\ e.type \in StateEntered => e.of = i
                         /\ e.type \in {"execStarted", "pass"} => e.of = 0
                         /\ e.type \notin StateEntered \cup ExecutionEnd \cup {"execStarted", "pass"} =>
                                /\ e.prev < i
                                /\ e.of = IF e.prev = 0 THEN 0 ELSE history'[e.prev].of
    BY DEF ParentsAgree
  <2>1. CASE i \in 1..Len(history)
    BY <2>1, ParentsStay DEF HistoryInv
  <2>2. CASE i = Len(history) + 1
    BY <1>1, <1>2, <1>3, <2>2 DEF BranchLogs, StateEntered
  <2> QED
    BY <1>1, <2>1, <2>2 DEF BranchLogs
<1>5. EndIsLast'
  BY <1>1 DEF HistoryInv, EndIsLast, Grows, BranchLogs
<1> QED
  BY <1>4, <1>5

\* A branch that logs goes on from its event.
LEMMA BranchKeepsApart ==
    ASSUME TypeOK, HistoryInv, Grows, NEW b \in Branch, NEW type, NEW of,
           BranchLogs(b, type, of), NEW a, a.of = of, a.last = Len(history) + 1,
           at' = [at EXCEPT ![b] = a]
    PROVE  BranchesApart'
<1>1. /\ Len(history) \in Nat
      /\ \A c \in Branch : /\ at[c].last \in 1..Len(history)
                           /\ history[at[c].last].of = at[c].of
  BY DEF TypeOK, HistoryInv, BranchesApart
<1>2. \A c \in Branch : at[c].of <= at[c].last /\ at[c].of \in Nat
  BY BranchBounds
<1>3. at'[b] = a /\ \A c \in Branch \ {b} : at'[c] = at[c]
  BY DEF TypeOK
<1>4. \A c \in Branch : at'[c].last \in 1..Len(history') /\ history'[at'[c].last].of = at'[c].of
  BY <1>1, <1>3 DEF BranchLogs, Grows
<1>5. \A c \in Branch \ {b} : of = at[c].of => of = 0
  BY <1>1, <1>2 DEF BranchLogs, HistoryInv, BranchesApart
<1>6. \A c, d \in Branch : at'[c].of = at'[d].of /\ at'[c].of # 0 => c = d
  BY <1>3, <1>5 DEF HistoryInv, BranchesApart
<1> QED
  BY <1>4, <1>6 DEF BranchesApart

\* A visit that was successful stays so as long as no event is about it that
\* ProcessEvents would hear of.
LEMMA SuccessStays ==
    ASSUME TypeOK, Grows, NEW j, NEW i \in 1..Len(history), Successful(history, j, i),
           NEW k \in Nat, i <= k, k <= Len(history'),
           \A n \in 1..k : n > i /\ history'[n].of = j => history'[n].type \notin Handled
    PROVE  Successful(history', j, k)
<1>1. Len(history) \in Nat /\ Len(history') \in Nat
  BY DEF TypeOK, Grows
<1>2. PICK m \in 1..i :
        /\ history[m].of = j /\ history[m].type \in {"succeeded", "choiceExited"}
        /\ \A n \in 1..i : n > m /\ history[n].of = j => history[n].type \notin Handled
  BY DEF Successful
<1>3. \A n \in 1..i : history'[n] = history[n]
  BY <1>1 DEF Grows
<1>4. m \in 1..k /\ history'[m].of = j /\ history'[m].type \in {"succeeded", "choiceExited"}
  BY <1>1, <1>2, <1>3
<1>5. \A n \in 1..k : n > m /\ history'[n].of = j => history'[n].type \notin Handled
  BY <1>1, <1>2, <1>3
<1> QED
  BY <1>4, <1>5 DEF Successful

\* The successes on which ends of the history rest are not touched by new events.
LEMMA EarnedStays ==
    ASSUME TypeOK, HistoryInv, Grows, NEW i \in 1..Len(history),
           history'[i].type = "execSucceeded", history'[i].of # 0
    PROVE  Successful(history', history'[i].of, i)
<1>1. history'[i] = history[i] /\ Len(history) \in Nat /\ i \in Nat /\ i <= Len(history')
  BY DEF Grows, TypeOK
<1>2. Successful(history, history[i].of, i)
  BY <1>1 DEF HistoryInv, SuccessIsEarned
<1> QED
  BY <1>1, <1>2, SuccessStays

\* A success on which a branch rests is not touched by an event about something else.
LEMMA BranchSuccessStays ==
    ASSUME TypeOK, HistoryInv, Grows, Len(history') = Len(history) + 1, Len(history) > 0,
           NEW c \in Branch, at[c].pc \in {"succeeded", "after"}, at[c].of # 0,
           history'[Len(history')].of = at[c].of => history'[Len(history')].type \notin Handled
    PROVE  Successful(history', at[c].of, Len(history'))
<1>1. Successful(history, at[c].of, Len(history))
  BY DEF HistoryInv, SuccessIsEarned
<1>2. /\ Len(history) \in 1..Len(history) /\ Len(history') \in Nat /\ Len(history) <= Len(history')
      /\ \A n \in 1..Len(history') :
            n > Len(history) /\ history'[n].of = at[c].of => history'[n].type \notin Handled
  BY DEF TypeOK, Grows
<1> QED
  BY <1>1, <1>2, SuccessStays

\* A branch that logs keeps SuccessIsEarned.
LEMMA BranchKeepsEarned ==
    ASSUME TypeOK, HistoryInv, Grows, NEW b \in Branch, NEW type, NEW of,
           BranchLogs(b, type, of), NEW a, a.of = of,
           at' = [at EXCEPT ![b] = a],
           a.pc \in {"succeeded", "after"} => \/ type \in {"succeeded", "choiceExited", "pass"}
                                              \/ at[b].pc = "succeeded" /\ type = "exited"
    PROVE  SuccessIsEarned'
<1>1. /\ Len(history) \in Nat /\ Len(history') \in Nat /\ Len(history') = Len(history) + 1
      /\ \A c \in Branch : /\ at[c].last \in 1..Len(history)
                           /\ history[at[c].last].of = at[c].of
  BY DEF TypeOK, HistoryInv, BranchesApart, BranchLogs
<1>2. \A c \in Branch : at[c].of <= at[c].last /\ at[c].of \in Nat
  BY BranchBounds
<1>3. at'[b] = a /\ \A c \in Branch \ {b} : at'[c] = at[c]
  BY DEF TypeOK
<1>4. Len(history) > 0
  BY <1>1
<1>5. ASSUME NEW c \in Branch \ {b}, at[c].pc \in {"succeeded", "after"}, at[c].of # 0
      PROVE  Successful(history', at[c].of, Len(history'))
  <2>1. of # at[c].of
    BY <1>1, <1>2, <1>5 DEF BranchLogs, HistoryInv, BranchesApart
  <2> QED
    BY <1>1, <1>4, <1>5, <2>1, BranchSuccessStays DEF BranchLogs
<1>6. ASSUME a.pc \in {"succeeded", "after"}, of # 0
      PROVE  Successful(history', of, Len(history'))
  <2>1. CASE type \in {"succeeded", "choiceExited"}
    BY <1>1, <2>1 DEF BranchLogs, Successful
  <2>2. CASE at[b].pc = "succeeded" /\ type = "exited"
    <3>1. of = at[b].of /\ type \notin Handled
      BY <2>2 DEF BranchLogs, StateEntered, Handled
    <3> QED
      BY <1>1, <1>4, <1>6, <2>2, <3>1, BranchSuccessStays DEF BranchLogs
  <2>3. type # "pass"
    BY <1>6 DEF BranchLogs, StateEntered
  <2> QED
    BY <1>6, <2>1, <2>2, <2>3
<1>7. \A c \in Branch : at'[c].pc \in {"succeeded", "after"} /\ at'[c].of # 0
                            => Successful(history', at'[c].of, Len(history'))
  BY <1>3, <1>5, <1>6
<1>8. \A i \in 1..Len(history') : history'[i].type = "execSucceeded" /\ history'[i].of # 0
                                      => Successful(history', history'[i].of, i)
  BY <1>1, EarnedStays DEF BranchLogs
<1> QED
  BY <1>7, <1>8 DEF SuccessIsEarned

\* The execution ends with an event of its own; a success rests on a branch.
EndLogs(type, prev, of) ==
    /\ Len(history') = Len(history) + 1
    /\ history'[Len(history) + 1] = [type |-> type, prev |-> prev, of |-> of]
    /\ type \in ExecutionEnd \cup {"execSucceeded"}
    /\ \/ prev = 0 /\ of = 0
       \/ \E b \in Branch : /\ prev = at[b].last /\ of = at[b].of
                            /\ type = "execSucceeded" => at[b].pc = "after"

\* The end keeps the invariant of the history.
LEMMA EndKeepsHistory ==
    ASSUME TypeOK, HistoryInv, Grows, exec # "ended", exec' = "ended", at' = at,
           NEW type, NEW prev, NEW of, EndLogs(type, prev, of)
    PROVE  HistoryInv'
<1> DEFINE n == Len(history) + 1
<1>1. /\ Len(history) \in Nat /\ Len(history') \in Nat /\ Len(history') = n /\ n > 0
      /\ history'[n].type = type /\ history'[n].prev = prev /\ history'[n].of = of
  BY DEF TypeOK, Grows, EndLogs
<1>2. /\ of \in Nat /\ of < n /\ prev \in Nat /\ prev < n
      /\ of = IF prev = 0 THEN 0 ELSE history'[prev].of
  BY <1>1, BranchBounds DEF EndLogs, Grows
<1>3. ParentsAgree'
  <2> SUFFICES ASSUME NEW i \in 1..Len(history')
               PROVE  LET e == history'[i]
                      IN /\ e.of <= i
                         /\ e.type \in StateEntered => e.of = i
                         /\ e.type \in {"execStarted", "pass"} => e.of = 0
                         /\ e.type \notin StateEntered \cup ExecutionEnd \cup {"execStarted", "pass"} =>
                                /\ e.prev < i
                                /\ e.of = IF e.prev = 0 THEN 0 ELSE history'[e.prev].of
    BY DEF ParentsAgree
  <2>1. CASE i \in 1..Len(history)
    BY <2>1, ParentsStay DEF HistoryInv
  <2>2. CASE i = n
    <3>1. type \notin StateEntered \cup {"execStarted", "pass"}
      BY DEF EndLogs, StateEntered, ExecutionEnd
    <3> QED
      BY <1>1, <1>2, <2>2, <3>1
  <2> QED
    BY <1>1, <2>1, <2>2
<1>4. EndIsLast'
  BY <1>1 DEF HistoryInv, EndIsLast, Grows
<1>5. BranchesApart'
  BY <1>1, BranchBounds DEF HistoryInv, BranchesApart, Grows
<1>6. type \notin Handled
  BY DEF EndLogs, ExecutionEnd, Handled, StateEntered
<1>7. \A c \in Branch : at'[c].pc \in {"succeeded", "after"} /\ at'[c].of # 0
                            => Successful(history', at'[c].of, Len(history'))
  BY <1>1, <1>6, BranchSuccessStays DEF HistoryInv
<1>8. ASSUME type = "execSucceeded", of # 0
      PROVE  Successful(history', of, n)
  <2>1. PICK b \in Branch : of = at[b].of /\ at[b].pc = "after"
    BY <1>8 DEF EndLogs
  <2> QED
    BY <1>1, <1>7, <1>8, <2>1
<1>9. \A i \in 1..Len(history') : history'[i].type = "execSucceeded" /\ history'[i].of # 0
                                      => Successful(history', history'[i].of, i)
  BY <1>1, <1>8, EarnedStays
<1> QED
  BY <1>1, <1>3, <1>4, <1>5, <1>7, <1>9 DEF HistoryInv, SuccessIsEarned

\* The types of SFN's variables.
SfnTypes ==
    /\ history \in Seq(Event) /\ Len(history) <= MaxEvents
    /\ at \in [Branch -> [pc : BranchPC, of : Id, last : Id]]
    /\ exec \in {"running", "failing", "ended"}

\* SFN's steps keep the invariant of the history and only append to it, and
\* there is none after the end.
LEMMA SfnKeepsHistory ==
    ASSUME TypeOK, HistoryInv, Sfn
    PROVE  SfnTypes' /\ HistoryInv' /\ Grows /\ exec # "ended"
<1>1. /\ history \in Seq(Event) /\ Len(history) \in Nat /\ Len(history) <= MaxEvents
      /\ at \in [Branch -> [pc : BranchPC, of : Id, last : Id]]
      /\ MaxEvents \in Nat
  BY JobHistoryAssumption DEF TypeOK
<1>2. \A b \in Branch : at[b].pc \in BranchPC /\ at[b].of \in Id /\ at[b].last \in Id
  BY <1>1
<1>3. ASSUME NEW b \in Branch, BranchMoves(b)
      PROVE  SfnTypes' /\ HistoryInv' /\ Grows /\ exec # "ended"
  <2>1. PICK m \in Moves :
           LET id == Len(history) + 1
               of == IF m[2] \in StateEntered THEN id
                     ELSE IF m[2] = "pass" THEN 0 ELSE at[b].of
           IN /\ at[b].pc = m[1]
              /\ Log(m[2], at[b].last, of)
              /\ at' = [at EXCEPT ![b] = [pc |-> m[3], of |-> of, last |-> id]]
    BY <1>3 DEF BranchMoves
  <2> DEFINE id == Len(history) + 1
             of == IF m[2] \in StateEntered THEN id ELSE IF m[2] = "pass" THEN 0 ELSE at[b].of
             a == [pc |-> m[3], of |-> of, last |-> id]
  <2>2. Len(history) < MaxEvents /\ exec = "running" /\ exec' = exec
    BY <1>3, <2>1 DEF BranchMoves, Log
  <2>3. /\ m[1] \in BranchPC /\ m[3] \in BranchPC
        /\ m[2] \in EventType \ (ExecutionEnd \cup {"execStarted", "execSucceeded"})
        /\ m[3] = "succeeded" => m[2] = "succeeded"
        /\ m[3] = "after" => \/ m[2] \in {"pass", "choiceExited"}
                             \/ m[1] = "succeeded" /\ m[2] = "exited"
    BY MoveFacts
  <2>4. of \in Id /\ id \in Id
    BY <1>1, <1>2, <2>2 DEF Id
  <2>5. /\ history' \in Seq(Event)
        /\ Len(history') = Len(history) + 1 /\ Len(history') <= MaxEvents
        /\ \A i \in 1..Len(history) : history'[i] = history[i]
        /\ history'[Len(history) + 1] = [type |-> m[2], prev |-> at[b].last, of |-> of]
    BY <1>2, <2>1, <2>3, <2>4, LogAppends
  <2>6. Grows /\ BranchLogs(b, m[2], of)
    BY <1>1, <2>3, <2>5 DEF Grows, BranchLogs
  <2>7. /\ a.of = of /\ a.last = id /\ a.pc = m[3] /\ at' = [at EXCEPT ![b] = a]
        /\ a \in [pc : BranchPC, of : Id, last : Id]
    BY <2>1, <2>3, <2>4
  <2> HIDE DEF of, a
  <2>8. a.pc \in {"succeeded", "after"} => \/ m[2] \in {"succeeded", "choiceExited", "pass"}
                                           \/ at[b].pc = "succeeded" /\ m[2] = "exited"
    BY <2>1, <2>3, <2>7
  <2>9. ParentsAgree' /\ EndIsLast'
    BY <2>2, <2>6, BranchKeepsParents
  <2>10. BranchesApart'
    BY <2>6, <2>7, BranchKeepsApart
  <2>11. SuccessIsEarned'
    BY <2>6, <2>7, <2>8, BranchKeepsEarned
  <2> QED
    BY <1>1, <2>2, <2>5, <2>6, <2>7, <2>9, <2>10, <2>11 DEF SfnTypes, HistoryInv
<1>4. ASSUME NEW b \in Branch, BranchFails(b)
      PROVE  SfnTypes' /\ HistoryInv' /\ Grows /\ exec # "ended"
  BY <1>1, <1>4 DEF BranchFails, SfnTypes, HistoryInv, Grows, ParentsAgree, EndIsLast,
                    BranchesApart, SuccessIsEarned
<1>5. ASSUME NEW b \in Branch, AbortBranch(b)
      PROVE  SfnTypes' /\ HistoryInv' /\ Grows /\ exec # "ended"
  <2> DEFINE id == Len(history) + 1
             a == [at[b] EXCEPT !.pc = "aborted", !.last = id]
  <2>1. /\ Log("stateAborted", at[b].last, at[b].of) /\ exec = "failing" /\ exec' = exec
        /\ at' = [at EXCEPT ![b] = a] /\ Len(history) < MaxEvents
    BY <1>5 DEF AbortBranch, Log
  <2>2. "stateAborted" \in EventType \ (StateEntered \cup ExecutionEnd \cup
                                          {"pass", "execStarted", "execSucceeded"})
    BY DEF EventType, StateEntered, ExecutionEnd
  <2>3. /\ history' \in Seq(Event)
        /\ Len(history') = Len(history) + 1 /\ Len(history') <= MaxEvents
        /\ \A i \in 1..Len(history) : history'[i] = history[i]
        /\ history'[Len(history) + 1] = [type |-> "stateAborted", prev |-> at[b].last, of |-> at[b].of]
    BY <1>2, <2>1, <2>2, LogAppends
  <2>4. Grows /\ BranchLogs(b, "stateAborted", at[b].of)
    BY <1>1, <2>2, <2>3 DEF Grows, BranchLogs
  <2>5. id \in Id
    BY <1>1, <2>1 DEF Id
  <2>6. /\ a.of = at[b].of /\ a.last = id /\ a.pc = "aborted"
        /\ a \in [pc : BranchPC, of : Id, last : Id]
    BY <1>1, <2>5 DEF BranchPC
  <2> HIDE DEF a
  <2>7. ParentsAgree' /\ EndIsLast'
    BY <2>1, <2>4, BranchKeepsParents
  <2>8. BranchesApart'
    BY <2>1, <2>4, <2>6, BranchKeepsApart
  <2>9. SuccessIsEarned'
    BY <2>1, <2>4, <2>6, BranchKeepsEarned
  <2> QED
    BY <1>1, <2>1, <2>3, <2>4, <2>6, <2>7, <2>8, <2>9 DEF SfnTypes, HistoryInv
<1>6. ASSUME NEW type \in ExecutionEnd \cup {"execSucceeded"}, NEW prev \in Id, NEW of \in Id,
             Log(type, prev, of), exec # "ended", exec' = "ended", at' = at,
             \/ prev = 0 /\ of = 0
             \/ \E b \in Branch : /\ prev = at[b].last /\ of = at[b].of
                                  /\ type = "execSucceeded" => at[b].pc = "after"
      PROVE  SfnTypes' /\ HistoryInv' /\ Grows /\ exec # "ended"
  <2>1. type \in EventType
    BY DEF EventType
  <2>2. /\ history' \in Seq(Event)
        /\ Len(history') = Len(history) + 1 /\ Len(history') <= MaxEvents
        /\ \A i \in 1..Len(history) : history'[i] = history[i]
        /\ history'[Len(history) + 1] = [type |-> type, prev |-> prev, of |-> of]
    BY <1>6, <2>1, LogAppends
  <2>3. Grows /\ EndLogs(type, prev, of)
    BY <1>1, <1>6, <2>2 DEF Grows, EndLogs
  <2> QED
    BY <1>1, <1>6, <2>2, <2>3, EndKeepsHistory DEF SfnTypes
<1>7. 0 \in Id
  BY <1>1 DEF Id
<1>8. CASE ExecutionFails
  BY <1>2, <1>6, <1>8 DEF ExecutionFails, ExecutionEnd
<1>9. CASE ExecutionSucceeds
  <2>1. exec # "ended" /\ exec' = "ended" /\ at' = at /\ \A b \in Branch : at[b].pc = "after"
    BY <1>9 DEF ExecutionSucceeds
  <2>2. \/ Log("execSucceeded", 0, 0)
        \/ \E b \in Branch : Log("execSucceeded", at[b].last, at[b].of)
    BY <1>9 DEF ExecutionSucceeds
  <2> QED
    BY <1>2, <1>6, <1>7, <2>1, <2>2
<1>10. CASE ExecutionStops
  BY <1>6, <1>7, <1>10 DEF ExecutionStops, ExecutionEnd
<1> QED
  BY <1>3, <1>4, <1>5, <1>8, <1>9, <1>10 DEF Sfn

-----------------------------------------------------------------------------
(***************************************************************************)
(* The reader: what eventToJob finds.                                      *)
(***************************************************************************)

\* Basic facts about a reader that has events to read.
LEMMA ReadBounds ==
    ASSUME Inv, read < Len(history)
    PROVE  /\ read \in Nat /\ reader.from \in Nat /\ reader.from <= read
           /\ Len(history) \in Nat /\ read + 1 \in 1..Len(history) /\ read + 1 \in Id
           /\ history[read + 1] \in Event
           /\ history[read + 1].type \in EventType
           /\ history[read + 1].prev \in Nat /\ history[read + 1].of \in Nat
           /\ ~EndRead
<1>1. /\ read \in 0..Len(history) /\ history \in Seq(Event) /\ Len(history) <= MaxEvents
      /\ reader.from \in Id /\ MaxEvents \in Nat /\ reader.from <= read
  BY JobHistoryAssumption DEF Inv, TypeOK, ReaderInv
<1>2. Len(history) \in Nat
  BY <1>1
<1>3. read \in Nat /\ read + 1 \in 1..Len(history) /\ reader.from \in Nat /\ read + 1 \in Id
  BY <1>1, <1>2 DEF Id
<1>4. history[read + 1] \in Event
  BY <1>1, <1>3
<1>5. ~EndRead
  BY <1>1, <1>2, <1>3 DEF EndRead, Inv, HistoryInv, EndIsLast
<1> QED
  BY <1>1, <1>2, <1>3, <1>4, <1>5 DEF Event, Id

\* An event that is about a job has its parent in the map, under that job.
LEMMA ParentIsRead ==
    ASSUME Inv, read < Len(history),
           history[read + 1].type \notin StateEntered \cup ExecutionEnd \cup {"execStarted", "pass"}
    PROVE  LET e == history[read + 1]
           IN /\ e.of \in DOMAIN job => e.prev \in DOMAIN jobOf /\ jobOf[e.prev] = e.of
              /\ e.prev \in DOMAIN jobOf => jobOf[e.prev] = e.of /\ e.of \in DOMAIN job
<1> DEFINE id == read + 1
           e == history[id]
<1>1. /\ read \in Nat /\ reader.from \in Nat /\ reader.from <= read /\ Len(history) \in Nat
      /\ id \in 1..Len(history) /\ e.prev \in Nat /\ e.of \in Nat
  BY ReadBounds
<1>2. e.prev < id /\ e.of = IF e.prev = 0 THEN 0 ELSE history[e.prev].of
  BY <1>1 DEF Inv, HistoryInv, ParentsAgree
<1>3. DOMAIN jobOf \subseteq 1..read
  BY DEF Inv, TypeOK
<1>4. DOMAIN job = {i \in (reader.from + 1)..read : history[i].type \in StateEntered}
  BY DEF Inv, MapInv
<1>5. ASSUME e.prev \in DOMAIN jobOf
      PROVE  jobOf[e.prev] = e.of /\ e.of \in DOMAIN job
  BY <1>1, <1>2, <1>3, <1>5 DEF Inv, MapInv
<1>6. ASSUME e.of \in DOMAIN job
      PROVE  e.prev \in DOMAIN jobOf
  <2>1. e.of \in (reader.from + 1)..read
    BY <1>4, <1>6
  <2>2. e.prev \in 1..read /\ history[e.prev].of = e.of
    BY <1>1, <1>2, <2>1
  <2>3. history[e.prev].of <= e.prev
    BY <1>1, <2>2 DEF Inv, HistoryInv, ParentsAgree
  <2>4. e.prev \in (reader.from + 1)..read
    BY <1>1, <2>1, <2>2, <2>3
  <2>5. history[e.prev].type \notin ExecutionEnd
    BY <1>1, <2>2 DEF Inv, HistoryInv, EndIsLast
  <2> QED
    BY <1>6, <2>2, <2>4, <2>5 DEF Inv, MapInv
<1> QED
  BY <1>5, <1>6

\* The jobs of the current page are jobs.
LEMMA ListedAreJobs ==
    ASSUME Inv
    PROVE  /\ \A i \in 1..Len(jobs) : jobs[i] \in DOMAIN job
           /\ Len(jobs) \in Nat
           /\ jobs # <<>> => jobs[Len(jobs)] \in DOMAIN job /\ Len(jobs) > 0
<1>1. pages \in Seq(Id) /\ jobs \in Seq(Id)
  BY DEF Inv, TypeOK
<1>2. Len(jobs) \in Nat /\ Len(pages) \in Nat /\ (jobs # <<>> => Len(jobs) > 0)
  BY <1>1
<1>3. ASSUME NEW i \in 1..Len(jobs)
      PROVE  jobs[i] \in DOMAIN job
  <2>1. /\ Len(pages) + i \in DOMAIN (pages \o jobs)
        /\ (pages \o jobs)[Len(pages) + i] = jobs[i]
    BY <1>1, <1>2
  <2> QED
    BY <2>1 DEF Inv, AllVisitsListed, MapInv
<1> QED
  BY <1>2, <1>3

\* eventToJob finds the job that the event is about; for the end of the
\* execution it is the last job of the page.
LEMMA EventToJobFinds ==
    ASSUME Inv, read < Len(history)
    PROVE  LET id == read + 1
               e == history[id]
               j == EventToJob(e, id)
           IN /\ e.type \in StateEntered => j = id /\ e.of = id
              /\ e.type \in {"execStarted", "pass"} => j = 0 /\ e.of = 0
              /\ e.type \in ExecutionEnd =>
                     IF jobs = <<>> THEN j = 0 ELSE j = jobs[Len(jobs)] /\ j \in DOMAIN job
              /\ e.type \notin StateEntered \cup ExecutionEnd \cup {"execStarted", "pass"} =>
                     j = IF e.of \in DOMAIN job THEN e.of ELSE 0
<1> DEFINE id == read + 1
           e == history[id]
<1>1. id \in 1..Len(history)
  BY ReadBounds
<1>2. /\ e.type \in StateEntered => e.of = id
      /\ e.type \in {"execStarted", "pass"} => e.of = 0
  BY <1>1 DEF Inv, HistoryInv, ParentsAgree
<1>3. e.type \in StateEntered => EventToJob(e, id) = id
  BY DEF EventToJob, StateEntered, ExecutionEnd
<1>4. e.type \in {"execStarted", "pass"} => EventToJob(e, id) = 0
  BY DEF EventToJob, StateEntered, ExecutionEnd
<1>5. e.type \in ExecutionEnd => EventToJob(e, id) = IF jobs # <<>> THEN jobs[Len(jobs)] ELSE 0
  BY DEF EventToJob, StateEntered, ExecutionEnd
<1>6. e.type \notin StateEntered \cup ExecutionEnd \cup {"execStarted", "pass"}
          => EventToJob(e, id) = IF e.prev \in DOMAIN jobOf THEN jobOf[e.prev] ELSE 0
  BY DEF EventToJob
<1> QED
  BY <1>2, <1>3, <1>4, <1>5, <1>6, ParentIsRead, ListedAreJobs

-----------------------------------------------------------------------------
(***************************************************************************)
(* What SFN's steps mean for the reader: nothing.                          *)
(***************************************************************************)

\* What was read stays as it was read.
LEMMA OwnStays ==
    ASSUME Inv, Grows, UNCHANGED readerVars, NEW j, NEW types
    PROVE  /\ Own(j, types)' = Own(j, types)
           /\ \A i \in Own(j, types) : history'[i] = history[i]
<1>1. read \in 0..Len(history) /\ Len(history) \in Nat /\ reader.from \in Nat
  BY JobHistoryAssumption DEF Inv, TypeOK, Id
<1>2. \A i \in (reader.from + 1)..read : i \in 1..Len(history) /\ history'[i] = history[i]
  BY <1>1 DEF Grows
<1> QED
  BY <1>2 DEF Own, readerVars

\* So do the retries.
LEMMA RetriedStays ==
    ASSUME Inv, Grows, UNCHANGED readerVars, NEW j
    PROVE  Retried(j)' = Retried(j)
<1>1. /\ Own(j, {"failed"})' = Own(j, {"failed"})
      /\ Own(j, {"scheduled"})' = Own(j, {"scheduled"})
      /\ Own(j, Handled)' = Own(j, Handled)
  BY OwnStays
<1> QED
  BY <1>1 DEF Retried

\* A step of SFN keeps the invariant.
LEMMA SfnKeepsInv ==
    ASSUME Inv, Sfn, UNCHANGED readerVars
    PROVE  Inv'
<1>1. SfnTypes' /\ HistoryInv' /\ Grows /\ exec # "ended"
  BY SfnKeepsHistory DEF Inv
<1>2. /\ read \in 0..Len(history) /\ Len(history) \in Nat /\ reader.from \in Nat
      /\ Len(history') \in Nat /\ Len(history) <= Len(history')
  BY <1>1, JobHistoryAssumption DEF Inv, TypeOK, Id, Grows
<1>3. \A i \in 1..read : i \in 1..Len(history) /\ history'[i] = history[i]
  BY <1>1, <1>2 DEF Grows
<1>4. \A i \in 1..read : history[i].type \notin ExecutionEnd
  BY <1>1, <1>3 DEF Inv, HistoryInv, EndIsLast
<1>5. ~EndRead /\ ~EndRead'
  BY <1>2, <1>3, <1>4 DEF EndRead, readerVars
<1>6. TypeOK'
  BY <1>1, <1>2 DEF SfnTypes, TypeOK, Inv, readerVars
<1>7. ReaderInv'
  BY <1>1 DEF ReaderInv, Inv, readerVars
<1>8. \A i \in (reader.from + 1)..read : i \in 1..read
  BY <1>2
<1>9. MapInv'
  <2>1. DOMAIN jobOf \subseteq 1..read
    BY DEF Inv, TypeOK
  <2> QED
    BY <1>3, <1>8, <2>1 DEF MapInv, Inv, readerVars
<1>10. ASSUME NEW j \in DOMAIN job
       PROVE  JobRight(j)'
  <2>1. /\ job[j].attempts = Cardinality(Retried(j))
        /\ \E k \in Own(j, Handled) :
              /\ \A n \in Own(j, Handled) : n <= k
              /\ job[j].status = StatusAfter(history[k].type)
    BY <1>5, <1>10 DEF Inv, JobRight
  <2>2. /\ Own(j, Handled)' = Own(j, Handled)
        /\ \A i \in Own(j, Handled) : history'[i] = history[i]
    BY <1>1, OwnStays
  <2>3. Retried(j)' = Retried(j)
    BY <1>1, RetriedStays
  <2> QED
    BY <2>1, <2>2, <2>3 DEF JobRight, readerVars
<1>11. \A j \in DOMAIN job' : JobRight(j)'
  BY <1>10 DEF readerVars
<1>12. AllVisitsListed'
  BY <1>3, <1>8 DEF AllVisitsListed, Inv, readerVars
<1>13. LastJobIsLast'
  BY <1>5 DEF LastJobIsLast
<1> QED
  BY <1>1, <1>6, <1>7, <1>9, <1>11, <1>12, <1>13 DEF Inv

-----------------------------------------------------------------------------
(***************************************************************************)
(* What one more event means for a state visit.                            *)
(***************************************************************************)

\* One more event has been read.
ReadsOne == read < Len(history) /\ read' = read + 1 /\ history' = history /\ reader' = reader

\* It is one more event of the visit that it is about.
LEMMA OwnAfter ==
    ASSUME Inv, ReadsOne, NEW j, NEW types
    PROVE  LET e == history[read + 1]
           IN Own(j, types)' = IF e.of = j /\ e.type \in types THEN Own(j, types) \cup {read + 1}
                                                               ELSE Own(j, types)
<1>1. read \in Nat /\ reader.from \in Nat /\ reader.from <= read
  BY ReadBounds DEF ReadsOne
<1>2. (reader.from + 1)..(read + 1) = ((reader.from + 1)..read) \cup {read + 1}
  BY <1>1
<1>3. Own(j, types)' = {i \in (reader.from + 1)..(read + 1) : history[i].of = j /\ history[i].type \in types}
  BY DEF Own, ReadsOne
<1> QED
  BY <1>2, <1>3 DEF Own

\* Events that have been read are numbered up to read.
LEMMA OwnBounds ==
    ASSUME Inv, NEW j, NEW types, NEW i \in Own(j, types)
    PROVE  /\ i \in Nat /\ i <= read /\ i >= 1 /\ i \in (reader.from + 1)..read
           /\ i \in 1..Len(history)
           /\ history[i].of = j /\ history[i].type \in types /\ history[i].of <= i
<1>1. read \in 0..Len(history) /\ Len(history) \in Nat /\ reader.from \in Nat
  BY JobHistoryAssumption DEF Inv, TypeOK, Id
<1>2. i \in (reader.from + 1)..read /\ history[i].of = j /\ history[i].type \in types
  BY DEF Own
<1>3. i \in 1..Len(history)
  BY <1>1, <1>2
<1> QED
  BY <1>1, <1>2, <1>3 DEF Inv, HistoryInv, ParentsAgree

\* The retries are finitely many.
LEMMA RetriedFinite ==
    ASSUME Inv, NEW j
    PROVE  IsFiniteSet(Retried(j)) /\ Cardinality(Retried(j)) \in Nat
<1>1. read \in Int /\ reader.from + 1 \in Int
  BY JobHistoryAssumption DEF Inv, TypeOK, Id
<1>2. IsFiniteSet((reader.from + 1)..read)
  BY <1>1, FS_Interval
<1>3. Retried(j) \subseteq (reader.from + 1)..read
  BY DEF Retried, Own
<1> QED
  BY <1>2, <1>3, FS_Subset, FS_CardinalityType

\* An event that is not the scheduling of the visit's task retries nothing.
LEMMA NoRetry ==
    ASSUME Inv, ReadsOne, NEW j,
           history[read + 1].of # j \/ history[read + 1].type # "scheduled"
    PROVE  Retried(j)' = Retried(j)
<1> DEFINE id == read + 1
           e == history[id]
           F == Own(j, {"failed"})
           S == Own(j, {"scheduled"})
           H == Own(j, Handled)
<1>1. read \in Nat
  BY ReadBounds DEF ReadsOne
<1>2. Own(j, {"scheduled"})' = S
  BY OwnAfter
<1>3. Own(j, {"failed"})' = F \/ Own(j, {"failed"})' = F \cup {id}
  BY OwnAfter
<1>4. Own(j, Handled)' = H \/ Own(j, Handled)' = H \cup {id}
  BY OwnAfter
<1>5. \A k \in S : k \in Nat /\ k < id
  BY <1>1, OwnBounds
<1>6. Retried(j)' = {i \in Own(j, {"failed"})' :
                        \E k \in S : k > i /\ ~\E n \in Own(j, Handled)' : i < n /\ n < k}
  BY <1>2 DEF Retried
<1>7. Retried(j) = {i \in F : \E k \in S : k > i /\ ~\E n \in H : i < n /\ n < k}
  BY DEF Retried
<1> HIDE DEF F, S, H, id
<1>8. id \in Nat
  BY <1>1 DEF id
<1>9. \A k \in S : ~(k > id) /\ ~(id < k)
  BY <1>5, <1>8
<1> QED
  BY <1>3, <1>4, <1>6, <1>7, <1>9

\* The scheduling of the visit's task retries the failure that was the last
\* news of the visit, if it was one.
LEMMA OneRetry ==
    ASSUME Inv, ReadsOne, NEW j, NEW m \in Own(j, Handled),
           \A n \in Own(j, Handled) : n <= m,
           history[read + 1].of = j, history[read + 1].type = "scheduled"
    PROVE  Cardinality(Retried(j)') = IF history[m].type = "failed" THEN Cardinality(Retried(j)) + 1
                                      ELSE Cardinality(Retried(j))
<1> DEFINE id == read + 1
           F == Own(j, {"failed"})
           S == Own(j, {"scheduled"})
           H == Own(j, Handled)
<1>1. read \in Nat /\ id \in Nat
  BY ReadBounds DEF ReadsOne
<1>2. Own(j, {"scheduled"})' = S \cup {id}
  BY OwnAfter
<1>3. Own(j, {"failed"})' = F
  BY OwnAfter
<1>4. Own(j, Handled)' = H \cup {id}
  BY OwnAfter DEF Handled
<1>5. \A k \in S : k \in Nat /\ k < id /\ k \in H
  <2>1. \A k \in S : k \in Nat /\ k < id
    BY <1>1, OwnBounds
  <2> QED
    BY <2>1 DEF Own, Handled
<1>6. \A k \in F : k \in Nat /\ k < id /\ k \in H
  <2>1. \A k \in F : k \in Nat /\ k < id
    BY <1>1, OwnBounds
  <2> QED
    BY <2>1 DEF Own, Handled
<1>7. \A k \in H : k \in Nat /\ k < id
  BY <1>1, OwnBounds
<1>8. Retried(j)' = {i \in F : \E k \in S \cup {id} : k > i /\ ~\E n \in H \cup {id} : i < n /\ n < k}
  BY <1>2, <1>3, <1>4 DEF Retried
<1>9. Retried(j) = {i \in F : \E k \in S : k > i /\ ~\E n \in H : i < n /\ n < k}
  BY DEF Retried
<1>10. m \in F <=> history[m].type = "failed"
  BY DEF Own, Handled
<1> HIDE DEF F, S, H, id
<1>11. m \in H /\ \A n \in H : n <= m
  BY DEF H
<1>12. m \notin Retried(j)
  BY <1>5, <1>7, <1>9, <1>11
<1>13. ASSUME NEW i \in F
       PROVE  /\ i = m => \E k \in S \cup {id} : k > i /\ ~\E n \in H \cup {id} : i < n /\ n < k
              /\ i # m => ~(id > i /\ ~\E n \in H \cup {id} : i < n /\ n < id)
              /\ \A k \in S : (~\E n \in H \cup {id} : i < n /\ n < k) <=> (~\E n \in H : i < n /\ n < k)
  <2>1. i \in Nat /\ i < id /\ i \in H /\ i <= m /\ m \in Nat /\ m < id /\ id \in Nat
    BY <1>1, <1>6, <1>7, <1>11
  <2>2. i = m => id > i /\ ~\E n \in H \cup {id} : i < n /\ n < id
    BY <1>7, <1>11, <2>1
  <2>3. i # m => i < m /\ m \in H \cup {id}
    BY <1>11, <2>1
  <2>4. \A k \in S : ~(id < k)
    BY <1>5, <2>1
  <2> QED
    BY <2>1, <2>2, <2>3, <2>4
<1>14. Retried(j)' = IF m \in F THEN Retried(j) \cup {m} ELSE Retried(j)
  <2>1. ASSUME NEW i \in Retried(j)
        PROVE  i \in Retried(j)'
    BY <1>8, <1>9, <1>13, <2>1
  <2>2. ASSUME NEW i \in Retried(j)', i # m
        PROVE  i \in Retried(j)
    BY <1>8, <1>9, <1>13, <2>2
  <2>3. m \in F => m \in Retried(j)'
    BY <1>8, <1>13
  <2>4. m \in Retried(j)' => m \in F
    BY <1>8
  <2> QED
    BY <2>1, <2>2, <2>3, <2>4
<1>15. IsFiniteSet(Retried(j))
  BY RetriedFinite
<1>16. Cardinality(Retried(j) \cup {m}) = Cardinality(Retried(j)) + 1
  BY <1>12, <1>15, FS_AddElement
<1> QED
  BY <1>10, <1>14, <1>16

\* What an event does to a job.
LEMMA UpdateJobFacts ==
    ASSUME NEW old \in Job, NEW type \in EventType \ StateEntered
    PROVE  LET new == UpdateJob(old, type)
           IN /\ new \in Job
              /\ new.attempts = IF type = "scheduled" /\ old.status = "failed" THEN old.attempts + 1
                                ELSE old.attempts
              /\ type \in Handled => new.status = StatusAfter(type)
              /\ type \in {"execFailed", "execTimedOut"} => new.status = "failed"
              /\ type = "execSucceeded" => new.status = "succeeded"
              /\ type \notin Handled \cup ExecutionEnd \cup {"execSucceeded"} => new = old
<1> DEFINE new == UpdateJob(old, type)
<1>1. CASE type = "scheduled"
  <2>1. /\ new = [status |-> "queued",
                  attempts |-> IF old.status = "failed" THEN old.attempts + 1 ELSE old.attempts]
        /\ StatusAfter(type) = "queued"
    BY <1>1 DEF UpdateJob, StatusAfter, StateEntered
  <2> QED
    BY <1>1, <2>1 DEF Job, JobStatus, Handled
<1>2. CASE type = "started"
  <2>1. new = [old EXCEPT !.status = "running"] /\ StatusAfter(type) = "running"
    BY <1>2 DEF UpdateJob, StatusAfter, StateEntered
  <2> QED
    BY <1>2, <2>1 DEF Job, JobStatus, Handled
<1>3. CASE type \in {"failed", "execFailed", "execTimedOut"}
  <2>1. /\ new = [old EXCEPT !.status = "failed"]
        /\ type = "failed" => StatusAfter(type) = "failed"
        /\ type # "failed" => type \notin Handled
    BY <1>3 DEF UpdateJob, StatusAfter, StateEntered, Handled
  <2> QED
    BY <1>3, <2>1 DEF Job, JobStatus, Handled, ExecutionEnd
<1>4. CASE type \in {"succeeded", "choiceExited", "execSucceeded"}
  <2>1. /\ new = [old EXCEPT !.status = "succeeded"]
        /\ type # "execSucceeded" => StatusAfter(type) = "succeeded"
        /\ type = "execSucceeded" => type \notin Handled
    BY <1>4 DEF UpdateJob, StatusAfter, StateEntered, Handled
  <2> QED
    BY <1>4, <2>1 DEF Job, JobStatus, Handled
<1>5. CASE type = "execAborted"
  <2>1. new = [old EXCEPT !.status = "aborted"] /\ type \notin Handled
    BY <1>5 DEF UpdateJob, StateEntered, Handled
  <2> QED
    BY <1>5, <2>1 DEF Job, JobStatus, ExecutionEnd
<1>6. CASE type \notin {"scheduled", "started", "failed", "execFailed", "execTimedOut", "succeeded",
                        "choiceExited", "execSucceeded", "execAborted"}
  <2>1. new = old /\ type \notin Handled
    BY <1>6 DEF UpdateJob, Handled
  <2> QED
    BY <1>6, <2>1
<1> QED
  BY <1>1, <1>2, <1>3, <1>4, <1>5, <1>6

-----------------------------------------------------------------------------
(***************************************************************************)
(* One turn of the loop of ProcessEvents.                                  *)
(***************************************************************************)

\* The assignments of the turn, with the job j that eventToJob finds.
Turn(j) ==
    LET id == read + 1
        e == history[id]
    IN /\ ReadsOne /\ j = EventToJob(e, id)
       /\ jobs' = IF e.type \in StateEntered THEN Append(jobs, id) ELSE jobs
       /\ jobOf' = IF j = 0 \/ e.type \in ExecutionEnd THEN jobOf
                   ELSE [i \in DOMAIN jobOf \cup {id} |-> IF i = id THEN j ELSE jobOf[i]]
       /\ job' = IF j = 0 THEN job
                 ELSE [i \in DOMAIN job \cup {j} |->
                          IF i # j THEN job[i]
                          ELSE IF e.type \in StateEntered THEN [status |-> "created", attempts |-> 0]
                          ELSE UpdateJob(job[j], e.type)]
       /\ pages' = pages

\* A turn enters the job of a new visit, or updates a job that is there, or
\* has no job; the types of events tell which.
LEMMA TurnFinds ==
    ASSUME Inv, NEW j, Turn(j)
    PROVE  LET id == read + 1
               e == history[id]
           IN /\ e.type \in StateEntered => j = id /\ e.of = id /\ id \notin DOMAIN job
              /\ e.type \notin StateEntered => j \in DOMAIN job \/ j = 0
              /\ e.type \in ExecutionEnd /\ jobs # <<>> => j = jobs[Len(jobs)]
              /\ e.type \in ExecutionEnd /\ jobs = <<>> => j = 0
              /\ e.type \notin ExecutionEnd /\ e.of \in DOMAIN job => j = e.of
              /\ e.type \notin ExecutionEnd /\ j # 0 => j = e.of
              /\ e.type \notin StateEntered \cup ExecutionEnd => e.of # id
              /\ 0 \notin DOMAIN job /\ DOMAIN job \subseteq 1..read /\ id \in Nat /\ id # 0
<1> DEFINE id == read + 1
           e == history[id]
<1>1. /\ read < Len(history) /\ read \in Nat /\ Len(history) \in Nat /\ id \in 1..Len(history)
      /\ e.prev \in Nat /\ e.of \in Nat
  BY ReadBounds DEF Turn, ReadsOne
<1>2. /\ e.type \in StateEntered => j = id /\ e.of = id
      /\ e.type \in {"execStarted", "pass"} => j = 0 /\ e.of = 0
      /\ e.type \in ExecutionEnd =>
             IF jobs = <<>> THEN j = 0 ELSE j = jobs[Len(jobs)] /\ j \in DOMAIN job
      /\ e.type \notin StateEntered \cup ExecutionEnd \cup {"execStarted", "pass"} =>
             j = IF e.of \in DOMAIN job THEN e.of ELSE 0
  BY <1>1, EventToJobFinds DEF Turn
<1>3. DOMAIN job \subseteq 1..read
  BY DEF Inv, TypeOK
<1>4. id \notin DOMAIN job /\ 0 \notin DOMAIN job /\ id \in Nat /\ id # 0
  BY <1>1, <1>3
<1>5. e.type \notin StateEntered \cup ExecutionEnd \cup {"execStarted", "pass"} => e.of # id
  <2> SUFFICES ASSUME e.type \notin StateEntered \cup ExecutionEnd \cup {"execStarted", "pass"}
               PROVE  e.of # id
    OBVIOUS
  <2>1. e.prev < id /\ e.of = IF e.prev = 0 THEN 0 ELSE history[e.prev].of
    BY <1>1 DEF Inv, HistoryInv, ParentsAgree
  <2>2. e.prev # 0 => e.prev \in 1..Len(history)
    BY <1>1, <2>1
  <2>3. e.prev # 0 => history[e.prev].of <= e.prev
    BY <2>2 DEF Inv, HistoryInv, ParentsAgree
  <2> QED
    BY <1>1, <1>4, <2>1, <2>3
<1>6. StateEntered \cap ExecutionEnd = {}
  BY DEF StateEntered, ExecutionEnd
<1>7. "execStarted" \notin StateEntered \cup ExecutionEnd /\ "pass" \notin StateEntered \cup ExecutionEnd
  BY DEF StateEntered, ExecutionEnd
<1> QED
  BY <1>2, <1>3, <1>4, <1>5, <1>6, <1>7

\* The types of what a turn assigns, and which jobs there are after it.
LEMMA TurnTypes ==
    ASSUME Inv, NEW j, Turn(j), UNCHANGED sfnVars
    PROVE  /\ TypeOK'
           /\ DOMAIN job' = IF history[read + 1].type \in StateEntered THEN DOMAIN job \cup {read + 1}
                            ELSE DOMAIN job
           /\ \A i \in DOMAIN job : i # j => job'[i] = job[i]
           /\ j \in DOMAIN job => job[j] \in Job /\ job'[j] = UpdateJob(job[j], history[read + 1].type)
           /\ history[read + 1].type \in StateEntered =>
                  job'[j] = [status |-> "created", attempts |-> 0]
<1> DEFINE id == read + 1
           e == history[id]
<1>1. /\ read < Len(history) /\ read \in Nat /\ Len(history) \in Nat /\ id \in 1..Len(history)
      /\ id \in Id /\ e.type \in EventType
  BY ReadBounds DEF Turn, ReadsOne
<1>2. /\ e.type \in StateEntered => j = id /\ id \notin DOMAIN job
      /\ e.type \notin StateEntered => j \in DOMAIN job \/ j = 0
      /\ 0 \notin DOMAIN job /\ DOMAIN job \subseteq 1..read /\ id \in Nat /\ id # 0
  BY TurnFinds
<1>3. \A i \in DOMAIN job : job[i] \in Job
  BY DEF Inv, TypeOK
<1>4. DOMAIN job' = IF e.type \in StateEntered THEN DOMAIN job \cup {id} ELSE DOMAIN job
  BY <1>2 DEF Turn
<1>5. \A i \in DOMAIN job : i # j => job'[i] = job[i]
  BY DEF Turn
<1>6. j \in DOMAIN job => job'[j] = UpdateJob(job[j], e.type)
  BY <1>2 DEF Turn
<1>7. e.type \in StateEntered => job'[j] = [status |-> "created", attempts |-> 0]
  BY <1>2 DEF Turn
<1>8. \A i \in DOMAIN job' : job'[i] \in Job
  <2> SUFFICES ASSUME NEW i \in DOMAIN job'
               PROVE  job'[i] \in Job
    OBVIOUS
  <2>1. CASE i \in DOMAIN job /\ i = j
    BY <1>1, <1>2, <1>3, <1>6, <2>1, UpdateJobFacts
  <2>2. CASE i \in DOMAIN job /\ i # j
    BY <1>3, <1>5, <2>2
  <2>3. CASE e.type \in StateEntered /\ i = id
    BY <1>2, <1>7, <2>3 DEF Job, JobStatus
  <2> QED
    BY <1>4, <2>1, <2>2, <2>3
<1>9. DOMAIN job' \subseteq 1..id
  BY <1>1, <1>2, <1>4
<1>10. /\ DOMAIN jobOf \subseteq 1..read /\ \A i \in DOMAIN jobOf : jobOf[i] \in Id
       /\ jobs \in Seq(Id) /\ MaxEvents \in Nat /\ Len(history) <= MaxEvents
  BY JobHistoryAssumption DEF Inv, TypeOK
<1>11. j \in Id
  BY <1>1, <1>2, <1>10 DEF Id
<1>12. DOMAIN jobOf' \subseteq 1..id /\ \A i \in DOMAIN jobOf' : jobOf'[i] \in Id
  <2>1. CASE j = 0 \/ e.type \in ExecutionEnd
    BY <1>1, <1>10, <2>1 DEF Turn
  <2>2. CASE ~(j = 0 \/ e.type \in ExecutionEnd)
    <3>1. jobOf' = [i \in DOMAIN jobOf \cup {id} |-> IF i = id THEN j ELSE jobOf[i]]
      BY <2>2 DEF Turn
    <3>2. DOMAIN jobOf \cup {id} \subseteq 1..id
      BY <1>1, <1>10
    <3> QED
      BY <1>10, <1>11, <3>1, <3>2
  <2> QED
    BY <2>1, <2>2
<1>13. jobs' \in Seq(Id)
  BY <1>1, <1>10 DEF Turn
<1>14. read' = id /\ reader' = reader /\ pages' = pages /\ read' \in 0..Len(history')
  BY <1>1 DEF Turn, ReadsOne
<1>15. TypeOK'
  BY <1>8, <1>9, <1>12, <1>13, <1>14 DEF TypeOK, Inv, sfnVars
<1> QED
  BY <1>3, <1>4, <1>5, <1>6, <1>7, <1>15

\* The map stays right.
LEMMA TurnKeepsMap ==
    ASSUME Inv, NEW j, Turn(j), UNCHANGED sfnVars
    PROVE  MapInv'
<1> DEFINE id == read + 1
           e == history[id]
<1>1. /\ read < Len(history) /\ read \in Nat /\ Len(history) \in Nat /\ id \in 1..Len(history)
      /\ reader.from \in Nat /\ reader.from <= read
  BY ReadBounds DEF Turn, ReadsOne
<1>2. /\ e.type \in StateEntered => j = id /\ e.of = id /\ id \notin DOMAIN job
      /\ e.type \notin StateEntered => j \in DOMAIN job \/ j = 0
      /\ e.type \notin ExecutionEnd /\ e.of \in DOMAIN job => j = e.of
      /\ e.type \notin ExecutionEnd /\ j # 0 => j = e.of
      /\ e.type \notin StateEntered \cup ExecutionEnd => e.of # id
      /\ 0 \notin DOMAIN job /\ DOMAIN job \subseteq 1..read /\ id \in Nat /\ id # 0
  BY TurnFinds
<1>3. DOMAIN job' = IF e.type \in StateEntered THEN DOMAIN job \cup {id} ELSE DOMAIN job
  BY TurnTypes
<1>4. (reader.from + 1)..id = ((reader.from + 1)..read) \cup {id}
  BY <1>1
<1>5. history' = history /\ read' = id /\ reader' = reader
  BY DEF Turn, ReadsOne
<1>6. DOMAIN job' = {i \in (reader.from + 1)..id : history[i].type \in StateEntered}
  BY <1>3, <1>4 DEF Inv, MapInv
<1>7. DOMAIN jobOf \subseteq 1..read
  BY DEF Inv, TypeOK
<1>8. id \notin 1..read
  BY <1>1
<1>9. /\ \A i \in DOMAIN jobOf : i \in DOMAIN jobOf' /\ jobOf'[i] = jobOf[i]
      /\ \A i \in DOMAIN jobOf' : \/ i \in DOMAIN jobOf
                                  \/ i = id /\ jobOf'[i] = j /\ j # 0 /\ e.type \notin ExecutionEnd
      /\ j # 0 /\ e.type \notin ExecutionEnd => id \in DOMAIN jobOf'
  BY <1>7, <1>8 DEF Turn
<1>10. ASSUME NEW i \in DOMAIN jobOf'
       PROVE  jobOf'[i] = history[i].of /\ jobOf'[i] \in DOMAIN job'
  <2>1. CASE i \in DOMAIN jobOf
    BY <1>3, <1>9, <2>1 DEF Inv, MapInv
  <2>2. CASE i = id /\ jobOf'[i] = j /\ j # 0 /\ e.type \notin ExecutionEnd
    BY <1>2, <1>3, <2>2
  <2> QED
    BY <1>9, <1>10, <2>1, <2>2
<1>11. ASSUME NEW i \in (reader.from + 1)..id, history[i].of \in DOMAIN job',
              history[i].type \notin ExecutionEnd
       PROVE  i \in DOMAIN jobOf'
  <2>1. CASE i \in (reader.from + 1)..read
    <3>1. i \in 1..Len(history) /\ i < id
      BY <1>1, <2>1
    <3>2. history[i].of <= i
      BY <3>1 DEF Inv, HistoryInv, ParentsAgree
    <3>3. history[i] \in Event
      BY <3>1 DEF Inv, TypeOK
    <3>4. history[i].of # id
      BY <1>1, <3>1, <3>2, <3>3, JobHistoryAssumption DEF Event, Id
    <3>5. history[i].of \in DOMAIN job
      BY <1>3, <1>11, <3>4
    <3> QED
      BY <1>9, <1>11, <2>1, <3>5 DEF Inv, MapInv
  <2>2. CASE i = id
    BY <1>2, <1>3, <1>9, <1>11, <2>2
  <2> QED
    BY <1>4, <2>1, <2>2
<1> QED
  BY <1>5, <1>6, <1>10, <1>11 DEF MapInv

\* The job of a visit that was just entered has no history.
LEMMA NewJobRight ==
    ASSUME Inv, NEW j, Turn(j), UNCHANGED sfnVars, history[read + 1].type \in StateEntered
    PROVE  JobRight(j)'
<1> DEFINE id == read + 1
<1>1. read < Len(history) /\ read \in Nat /\ id \in Nat
  BY ReadBounds DEF Turn, ReadsOne
<1>2. j = id /\ history[id].of = id
  BY TurnFinds
<1>3. job'[j] = [status |-> "created", attempts |-> 0]
  BY TurnTypes
<1>4. \A types : Own(j, types) = {}
  <2> SUFFICES ASSUME NEW types, NEW i \in Own(j, types)
               PROVE  FALSE
    OBVIOUS
  <2> QED
    BY <1>1, <1>2, OwnBounds
<1>5. ReadsOne /\ history' = history
  BY DEF Turn, ReadsOne
<1>6. history[id].type \in Handled /\ history[id].type \notin {"failed", "scheduled"}
  BY DEF Handled, StateEntered
<1>7. Own(j, Handled)' = {id}
  <2>1. Own(j, Handled)' = Own(j, Handled) \cup {id}
    BY <1>2, <1>5, <1>6, OwnAfter
  <2> QED
    BY <1>4, <2>1
<1>8. Retried(j)' = {}
  <2>1. Retried(j)' = Retried(j)
    BY <1>5, <1>6, NoRetry
  <2> QED
    BY <1>4, <2>1 DEF Retried
<1>9. StatusAfter(history[id].type) = "created"
  BY DEF StatusAfter, StateEntered
<1>10. Cardinality(Retried(j)') = 0
  BY <1>8, FS_EmptySet
<1> QED
  BY <1>1, <1>3, <1>5, <1>7, <1>9, <1>10 DEF JobRight

\* The job that the event is about becomes what the event says.
LEMMA HandledJobRight ==
    ASSUME Inv, NEW j, Turn(j), UNCHANGED sfnVars, j \in DOMAIN job,
           history[read + 1].of = j, history[read + 1].type \in Handled
    PROVE  JobRight(j)'
<1> DEFINE id == read + 1
           e == history[id]
<1>1. read < Len(history) /\ read \in Nat /\ id \in Nat /\ e.type \in EventType
  BY ReadBounds DEF Turn, ReadsOne
<1>2. e.type \notin StateEntered
  BY TurnFinds
<1>3. job[j] \in Job /\ job'[j] = UpdateJob(job[j], e.type)
  BY TurnTypes
<1>4. /\ job'[j].attempts = IF e.type = "scheduled" /\ job[j].status = "failed" THEN job[j].attempts + 1
                            ELSE job[j].attempts
      /\ job'[j].status = StatusAfter(e.type)
  BY <1>1, <1>2, <1>3, UpdateJobFacts
<1>5. ReadsOne /\ history' = history /\ ~EndRead
  BY <1>1, ReadBounds DEF Turn, ReadsOne
<1>6. PICK m \in Own(j, Handled) : /\ \A n \in Own(j, Handled) : n <= m
                                   /\ job[j].status = StatusAfter(history[m].type)
  BY <1>5 DEF Inv, JobRight
<1>7. job[j].attempts = Cardinality(Retried(j))
  BY DEF Inv, JobRight
<1>8. history[m].type \in Handled
  BY DEF Own
<1>9. history[m].type = "failed" <=> job[j].status = "failed"
  BY <1>6, <1>8 DEF StatusAfter, Handled, StateEntered
<1>10. job'[j].attempts = Cardinality(Retried(j)')
  <2>1. CASE e.type = "scheduled"
    BY <1>4, <1>5, <1>6, <1>7, <1>9, <2>1, OneRetry
  <2>2. CASE e.type # "scheduled"
    BY <1>4, <1>5, <1>7, <2>2, NoRetry
  <2> QED
    BY <2>1, <2>2
<1>11. Own(j, Handled)' = Own(j, Handled) \cup {id}
  BY <1>5, OwnAfter
<1>12. \A n \in Own(j, Handled) : n <= id
  BY <1>1, OwnBounds
<1> QED
  BY <1>1, <1>4, <1>5, <1>10, <1>11, <1>12 DEF JobRight

\* A job to which the event brings no news keeps what it is; an execution
\* that ends well says of a visit what the visit's own success has said.
LEMMA OtherJobRight ==
    ASSUME Inv, NEW j, Turn(j), UNCHANGED sfnVars, NEW i \in DOMAIN job,
           ~(history[read + 1].of = i /\ history[read + 1].type \in Handled),
           ~(history[read + 1].type \in ExecutionEnd /\ i = j)
    PROVE  JobRight(i)'
<1> DEFINE id == read + 1
           e == history[id]
<1>1. /\ read < Len(history) /\ read \in Nat /\ id \in Nat /\ id \in 1..Len(history)
      /\ e.type \in EventType
  BY ReadBounds DEF Turn, ReadsOne
<1>2. ReadsOne /\ history' = history /\ ~EndRead
  BY <1>1, ReadBounds DEF Turn, ReadsOne
<1>3. PICK m \in Own(i, Handled) : /\ \A n \in Own(i, Handled) : n <= m
                                   /\ job[i].status = StatusAfter(history[m].type)
  BY <1>2 DEF Inv, JobRight
<1>4. Own(i, Handled)' = Own(i, Handled)
  BY <1>2, OwnAfter
<1>5. Retried(i)' = Retried(i)
  BY <1>2, NoRetry DEF Handled
<1>6. job[i].attempts = Cardinality(Retried(i))
  BY DEF Inv, JobRight
<1>7. job[i] \in Job
  BY DEF Inv, TypeOK
<1>8. CASE i # j
  <2>1. job'[i] = job[i]
    BY <1>8, TurnTypes
  <2> QED
    BY <1>2, <1>3, <1>4, <1>5, <1>6, <2>1 DEF JobRight
<1>9. CASE i = j /\ e.type # "execSucceeded"
  <2>1. e.type \notin StateEntered /\ e.of = i
    BY <1>9, TurnFinds
  <2>2. job'[i] = UpdateJob(job[i], e.type)
    BY <1>9, TurnTypes
  <2>3. job'[i] = job[i]
    BY <1>1, <1>7, <1>9, <2>1, <2>2, UpdateJobFacts
  <2> QED
    BY <1>2, <1>3, <1>4, <1>5, <1>6, <2>3 DEF JobRight
<1>10. CASE i = j /\ e.type = "execSucceeded"
  <2>1. e.type \notin StateEntered \cup ExecutionEnd \cup Handled
    BY <1>10 DEF StateEntered, ExecutionEnd, Handled
  <2>2. e.of = i /\ i # 0 /\ i \in Nat
    BY <1>10, <2>1, TurnFinds
  <2>3. job'[i] = UpdateJob(job[i], e.type)
    BY <1>10, TurnTypes
  <2>4. job'[i].status = "succeeded" /\ job'[i].attempts = job[i].attempts
    BY <1>1, <1>7, <1>10, <2>1, <2>3, UpdateJobFacts
  <2>5. Successful(history, i, id)
    BY <1>1, <1>10, <2>2 DEF Inv, HistoryInv, SuccessIsEarned
  <2>6. PICK k \in 1..id :
           /\ history[k].of = i /\ history[k].type \in {"succeeded", "choiceExited"}
           /\ \A n \in 1..id : n > k /\ history[n].of = i => history[n].type \notin Handled
    BY <2>5 DEF Successful
  <2>7. k # id
    BY <1>10, <2>6
  <2>8. k \in 1..Len(history) /\ k \in Nat /\ k <= read
    BY <1>1, <2>6, <2>7
  <2>9. history[k].of <= k
    BY <2>8 DEF Inv, HistoryInv, ParentsAgree
  <2>10. i \in (reader.from + 1)..read /\ reader.from \in Nat
    BY JobHistoryAssumption DEF Inv, MapInv, TypeOK, Id
  <2>11. k \in (reader.from + 1)..read
    BY <1>1, <2>6, <2>8, <2>9, <2>10
  <2>12. k \in Own(i, Handled)
    BY <2>6, <2>11 DEF Own, Handled
  <2>13. m \in Nat /\ m <= read /\ m >= 1 /\ history[m].of = i /\ history[m].type \in Handled
    BY OwnBounds
  <2>14. m = k
    <3>1. k <= m /\ m \in 1..id
      BY <1>1, <1>3, <2>12, <2>13
    <3>2. ~(m > k)
      BY <2>6, <2>13, <3>1
    <3> QED
      BY <2>8, <2>13, <3>1, <3>2
  <2>15. StatusAfter(history[m].type) = "succeeded"
    BY <2>6, <2>14 DEF StatusAfter, StateEntered
  <2> QED
    BY <1>2, <1>3, <1>4, <1>5, <1>6, <2>4, <2>15 DEF JobRight
<1> QED
  BY <1>8, <1>9, <1>10

\* The last job of the page takes the end of the execution.
LEMMA EndJobRight ==
    ASSUME Inv, NEW j, Turn(j), UNCHANGED sfnVars, j \in DOMAIN job,
           history[read + 1].type \in ExecutionEnd
    PROVE  JobRight(j)'
<1> DEFINE id == read + 1
           e == history[id]
<1>1. read < Len(history) /\ read \in Nat /\ id \in Nat /\ e.type \in EventType
  BY ReadBounds DEF Turn, ReadsOne
<1>2. /\ e.type \notin StateEntered \cup Handled \cup {"scheduled"}
  BY DEF ExecutionEnd, StateEntered, Handled
<1>3. job[j] \in Job /\ job'[j] = UpdateJob(job[j], e.type)
  BY TurnTypes
<1>4. job'[j].attempts = job[j].attempts
  BY <1>1, <1>2, <1>3, UpdateJobFacts
<1>5. ReadsOne /\ history' = history /\ read' = id
  BY DEF Turn, ReadsOne
<1>6. Retried(j)' = Retried(j) /\ Own(j, Handled)' = Own(j, Handled)
  BY <1>2, <1>5, NoRetry, OwnAfter
<1>7. jobs # <<>> /\ j = jobs[Len(jobs)]
  BY TurnFinds
<1>8. jobs' = jobs
  BY <1>2 DEF Turn
<1>9. EndRead'
  BY <1>1, <1>5 DEF EndRead
<1> QED
  BY <1>4, <1>6, <1>7, <1>8, <1>9 DEF JobRight, Inv

\* Every job is what its own events make of it, after the turn too.
LEMMA TurnKeepsJobs ==
    ASSUME Inv, NEW j, Turn(j), UNCHANGED sfnVars, NEW i \in DOMAIN job'
    PROVE  JobRight(i)'
<1> DEFINE id == read + 1
           e == history[id]
<1>1. /\ e.type \in StateEntered => j = id /\ id \notin DOMAIN job
      /\ e.type \notin ExecutionEnd /\ e.of \in DOMAIN job => j = e.of
  BY TurnFinds
<1>2. DOMAIN job' = IF e.type \in StateEntered THEN DOMAIN job \cup {id} ELSE DOMAIN job
  BY TurnTypes
<1>3. CASE i \notin DOMAIN job
  BY <1>1, <1>2, <1>3, NewJobRight
<1>4. CASE i \in DOMAIN job /\ e.of = i /\ e.type \in Handled
  <2>1. e.type \notin ExecutionEnd
    BY <1>4 DEF ExecutionEnd, Handled, StateEntered
  <2> QED
    BY <1>1, <1>4, <2>1, HandledJobRight
<1>5. CASE i \in DOMAIN job /\ i = j /\ e.type \in ExecutionEnd
  BY <1>5, EndJobRight
<1>6. CASE /\ i \in DOMAIN job /\ ~(e.of = i /\ e.type \in Handled)
           /\ ~(e.type \in ExecutionEnd /\ i = j)
  BY <1>6, OtherJobRight
<1> QED
  BY <1>3, <1>4, <1>5, <1>6

\* The list of visits gets the one that was entered.
LEMMA TurnKeepsList ==
    ASSUME Inv, NEW j, Turn(j), UNCHANGED sfnVars
    PROVE  AllVisitsListed'
<1> DEFINE id == read + 1
           e == history[id]
           listed == pages \o jobs
           visits == {i \in (reader.from + 1)..read : history[i].type \in StateEntered}
<1>1. /\ read < Len(history) /\ read \in Nat /\ id \in Id /\ id \in Nat
      /\ reader.from \in Nat /\ reader.from <= read
  BY ReadBounds DEF Turn, ReadsOne
<1>2. /\ pages \in Seq(Id) /\ jobs \in Seq(Id) /\ pages' = pages
      /\ read' = id /\ reader' = reader /\ history' = history
  BY DEF Inv, TypeOK, Turn, ReadsOne
<1>3. /\ {listed[i] : i \in DOMAIN listed} = visits
      /\ \A i, k \in DOMAIN listed : i < k => listed[i] < listed[k]
  BY DEF Inv, AllVisitsListed
<1>4. (reader.from + 1)..id = ((reader.from + 1)..read) \cup {id}
  BY <1>1
<1>5. {i \in (reader.from + 1)..id : history[i].type \in StateEntered}
        = IF e.type \in StateEntered THEN visits \cup {id} ELSE visits
  BY <1>4
<1>6. CASE e.type \notin StateEntered
  <2>1. jobs' = jobs
    BY <1>6 DEF Turn
  <2> QED
    BY <1>2, <1>3, <1>5, <1>6, <2>1 DEF AllVisitsListed
<1>7. CASE e.type \in StateEntered
  <2> DEFINE more == pages \o jobs'
             last == Len(listed) + 1
  <2>1. jobs' = Append(jobs, id)
    BY <1>7 DEF Turn
  <2>2. /\ Len(listed) \in Nat /\ DOMAIN listed = 1..Len(listed)
        /\ DOMAIN more = 1..last
    BY <1>1, <1>2, <2>1
  <2>3. \A i \in 1..Len(listed) : more[i] = listed[i]
    BY <1>1, <1>2, <2>1
  <2>4. more[last] = id
    BY <1>1, <1>2, <2>1
  <2>5. \A i \in 1..Len(listed) : listed[i] \in visits
    BY <1>3, <2>2
  <2>6. \A i \in visits : i \in Nat /\ i < id
    BY <1>1
  <2> HIDE DEF listed, more, visits
  <2>7. DOMAIN more = DOMAIN listed \cup {last}
    BY <2>2
  <2>8. {more[i] : i \in DOMAIN more} = visits \cup {id}
    BY <1>3, <2>2, <2>3, <2>4, <2>7
  <2>9. \A i, k \in DOMAIN more : i < k => more[i] < more[k]
    <3> SUFFICES ASSUME NEW i \in DOMAIN more, NEW k \in DOMAIN more, i < k
                 PROVE  more[i] < more[k]
      OBVIOUS
    <3>1. i \in 1..Len(listed)
      BY <2>2
    <3>2. CASE k \in 1..Len(listed)
      BY <1>3, <2>2, <2>3, <3>1, <3>2
    <3>3. CASE k = last
      BY <2>3, <2>4, <2>5, <2>6, <3>1, <3>3
    <3> QED
      BY <2>2, <3>2, <3>3
  <2>10. {i \in (reader.from + 1)..id : history[i].type \in StateEntered} = visits \cup {id}
    BY <1>5, <1>7
  <2>11. pages' \o jobs' = more
    BY <1>2 DEF more
  <2> QED
    BY <1>2, <2>8, <2>9, <2>10, <2>11 DEF AllVisitsListed
<1> QED
  BY <1>6, <1>7

\* The last job of the last page is the last of all.
LEMMA TurnKeepsLast ==
    ASSUME Inv, NEW j, Turn(j), UNCHANGED sfnVars
    PROVE  LastJobIsLast'
<1> DEFINE id == read + 1
           e == history[id]
<1>1. /\ read < Len(history) /\ read \in Nat /\ id \in Nat /\ id \in 1..Len(history)
      /\ Len(history) \in Nat /\ reader.from \in Nat /\ e.type \in EventType
  BY ReadBounds DEF Turn, ReadsOne
<1>2. read' = id /\ reader' = reader /\ history' = history
  BY DEF Turn, ReadsOne
<1> SUFFICES ASSUME reader.who = "lastJob", e.type \in ExecutionEnd, jobs' # <<>>
             PROVE  /\ job'[jobs'[Len(jobs')]].status = "failed"
                    /\ \A i \in 1..Len(history) :
                          history[i].type \in StateEntered => i <= jobs'[Len(jobs')]
  BY <1>2 DEF LastJobIsLast, EndRead
<1>3. e.type \notin StateEntered
  BY DEF StateEntered, ExecutionEnd
<1>4. jobs' = jobs /\ jobs # <<>>
  BY <1>3 DEF Turn
<1>5. j = jobs[Len(jobs)] /\ jobs[Len(jobs)] \in DOMAIN job /\ Len(jobs) \in Nat /\ Len(jobs) > 0
  BY <1>4, TurnFinds, ListedAreJobs
<1>6. id = Len(history)
  BY <1>1 DEF Inv, HistoryInv, EndIsLast
<1>7. e.type \in {"execFailed", "execTimedOut"} /\ pages = <<>>
  BY <1>6 DEF Inv, ReaderInv
<1>8. job[j] \in Job /\ job'[j] = UpdateJob(job[j], e.type)
  BY <1>5, TurnTypes
<1>9. job'[j].status = "failed"
  BY <1>1, <1>3, <1>7, <1>8, UpdateJobFacts
<1>10. ASSUME NEW i \in 1..Len(history), history[i].type \in StateEntered
       PROVE  i <= jobs[Len(jobs)]
  <2>1. i \in Nat /\ i <= read
    BY <1>1, <1>3, <1>6, <1>10
  <2>2. j \in (reader.from + 1)..read
    BY <1>5 DEF Inv, MapInv
  <2>3. CASE i <= reader.from
    BY <1>1, <1>5, <2>1, <2>2, <2>3
  <2>4. CASE ~(i <= reader.from)
    <3> DEFINE listed == pages \o jobs
    <3>1. i \in {k \in (reader.from + 1)..read : history[k].type \in StateEntered}
      BY <1>1, <1>10, <2>1, <2>4
    <3>2. PICK n \in DOMAIN listed : listed[n] = i
      BY <3>1 DEF Inv, AllVisitsListed
    <3>3. jobs \in Seq(Id)
      BY DEF Inv, TypeOK
    <3>4. listed = jobs
      BY <1>7, <3>3
    <3>5. /\ n \in 1..Len(jobs) /\ jobs[n] = i
          /\ \A k \in 1..Len(jobs) : n < k => jobs[n] < jobs[k]
      BY <3>2, <3>3, <3>4 DEF Inv, AllVisitsListed
    <3>6. n = Len(jobs) \/ (n < Len(jobs) /\ jobs[n] < jobs[Len(jobs)])
      BY <1>5, <3>5
    <3>7. jobs[Len(jobs)] \in Nat
      BY <1>1, <1>5, <2>2
    <3> QED
      BY <2>1, <3>5, <3>6, <3>7
  <2> QED
    BY <2>3, <2>4
<1> QED
  BY <1>4, <1>5, <1>9, <1>10

\* One turn of the loop keeps the invariant.
LEMMA ProcessEventKeepsInv ==
    ASSUME Inv, ProcessEvent, UNCHANGED sfnVars
    PROVE  Inv'
<1> DEFINE j == EventToJob(history[read + 1], read + 1)
<1>1. Turn(j)
  BY DEF ProcessEvent, Turn, ReadsOne, sfnVars
<1> HIDE DEF j
<1>2. TypeOK' /\ MapInv' /\ AllVisitsListed' /\ LastJobIsLast'
  BY <1>1, TurnTypes, TurnKeepsMap, TurnKeepsList, TurnKeepsLast
<1>3. \A i \in DOMAIN job' : JobRight(i)'
  BY <1>1, TurnKeepsJobs
<1>4. HistoryInv'
  BY DEF Inv, HistoryInv, ParentsAgree, EndIsLast, BranchesApart, SuccessIsEarned, sfnVars
<1>5. ReaderInv'
  <2>1. read \in Nat /\ reader.from \in Nat /\ reader.from <= read
    BY ReadBounds DEF ProcessEvent
  <2>2. reader' = reader /\ reader.who # "none" /\ read' = read + 1 /\ pages' = pages
    BY DEF ProcessEvent
  <2> QED
    BY <2>1, <2>2 DEF Inv, ReaderInv, sfnVars
<1> QED
  BY <1>2, <1>3, <1>4, <1>5 DEF Inv

\* A page that ends keeps the invariant.
LEMMA NextPageKeepsInv ==
    ASSUME Inv, NextPage, UNCHANGED sfnVars
    PROVE  Inv'
<1>1. /\ read' = read /\ reader' = reader /\ jobOf' = jobOf /\ job' = job
      /\ pages' = pages \o jobs /\ jobs' = <<>>
      /\ history' = history /\ at' = at /\ exec' = exec
      /\ reader.who = "history" /\ read < Len(history)
  BY DEF NextPage, sfnVars
<1>2. ~EndRead
  BY <1>1, ReadBounds
<1>3. pages \in Seq(Id) /\ jobs \in Seq(Id)
  BY DEF Inv, TypeOK
<1>4. TypeOK'
  BY <1>1, <1>3 DEF Inv, TypeOK
<1>5. HistoryInv' /\ ReaderInv' /\ MapInv'
  BY <1>1 DEF Inv, HistoryInv, ParentsAgree, EndIsLast, BranchesApart, SuccessIsEarned, ReaderInv, MapInv
<1>6. ~EndRead'
  BY <1>1, <1>2 DEF EndRead
<1>7. ASSUME NEW j \in DOMAIN job
      PROVE  JobRight(j)'
  <2>1. /\ job[j].attempts = Cardinality(Retried(j))
        /\ \E k \in Own(j, Handled) :
              /\ \A n \in Own(j, Handled) : n <= k
              /\ job[j].status = StatusAfter(history[k].type)
    BY <1>2, <1>7 DEF Inv, JobRight
  <2>2. Retried(j)' = Retried(j) /\ Own(j, Handled)' = Own(j, Handled)
    BY <1>1 DEF Retried, Own
  <2> QED
    BY <1>1, <2>1, <2>2 DEF JobRight
<1>8. pages' \o jobs' = pages \o jobs
  BY <1>1, <1>3
<1>9. AllVisitsListed'
  BY <1>1, <1>8 DEF Inv, AllVisitsListed
<1>10. LastJobIsLast'
  BY <1>6 DEF LastJobIsLast
<1> QED
  BY <1>1, <1>4, <1>5, <1>7, <1>9, <1>10 DEF Inv

\* A reader that begins has read nothing of its part of the history.
LEMMA BeginKeepsInv ==
    ASSUME Inv, UpdateWorkflowHistory \/ UpdateWorkflowLastJob, UNCHANGED sfnVars
    PROVE  Inv'
<1>1. /\ reader.who = "none" /\ pages' = pages /\ jobs' = jobs /\ jobOf' = jobOf /\ job' = job
      /\ history' = history /\ at' = at /\ exec' = exec
  BY DEF UpdateWorkflowHistory, UpdateWorkflowLastJob, sfnVars
<1>2. /\ read = 0 /\ pages = <<>> /\ jobs = <<>> /\ reader.from = 0 /\ Len(history) \in Nat
      /\ Len(history) > 0 /\ Len(history) <= MaxEvents /\ MaxEvents \in Nat
  BY <1>1, JobHistoryAssumption DEF Inv, ReaderInv, TypeOK, HistoryInv, Id
<1>3. DOMAIN job = {} /\ DOMAIN jobOf = {}
  <2>1. DOMAIN job \subseteq 1..read /\ DOMAIN jobOf \subseteq 1..read
    BY DEF Inv, TypeOK
  <2>2. 1..0 = {}
    OBVIOUS
  <2> QED
    BY <1>2, <2>1, <2>2
<1>4. PICK n \in 0..(Len(history) - 1) :
        /\ read' = n /\ reader'.from = n
        /\ \/ reader' = [who |-> "history", from |-> n]
           \/ /\ reader' = [who |-> "lastJob", from |-> n] /\ exec = "ended"
              /\ history[Len(history)].type \in {"execFailed", "execTimedOut"}
  <2>1. CASE UpdateWorkflowHistory
    BY <1>2, <2>1 DEF UpdateWorkflowHistory
  <2>2. CASE UpdateWorkflowLastJob
    BY <1>2, <2>2 DEF UpdateWorkflowLastJob
  <2> QED
    BY <2>1, <2>2
<1>5. n \in Id /\ n \in 0..Len(history) /\ (n + 1)..n = {}
  BY <1>2 DEF Id
<1>6. TypeOK'
  BY <1>1, <1>3, <1>4, <1>5 DEF Inv, TypeOK
<1>7. HistoryInv'
  BY <1>1 DEF Inv, HistoryInv, ParentsAgree, EndIsLast, BranchesApart, SuccessIsEarned
<1>8. ReaderInv'
  BY <1>1, <1>2, <1>4 DEF ReaderInv
<1>9. MapInv'
  BY <1>1, <1>3, <1>4, <1>5 DEF MapInv
<1>10. AllVisitsListed'
  <2>1. pages' \o jobs' = <<>>
    BY <1>1, <1>2
  <2>2. DOMAIN (pages' \o jobs') = {}
    BY <2>1
  <2> QED
    BY <1>4, <1>5, <2>2 DEF AllVisitsListed
<1>11. LastJobIsLast'
  BY <1>1, <1>2 DEF LastJobIsLast
<1> QED
  BY <1>1, <1>3, <1>6, <1>7, <1>8, <1>9, <1>10, <1>11 DEF Inv

\* The invariant holds at the start.
LEMMA InitInv == Init => Inv
<1> SUFFICES ASSUME Init
             PROVE  Inv
  OBVIOUS
<1> DEFINE first == [type |-> "execStarted", prev |-> 0, of |-> 0]
<1>1. MaxEvents \in Nat /\ MaxEvents > 0 /\ 0 \in Id /\ 1 \in Id
  BY JobHistoryAssumption DEF Id
<1>2. first \in Event
  BY <1>1 DEF Event, EventType
<1>3. /\ history \in Seq(Event) /\ Len(history) = 1
      /\ history[1].type = "execStarted" /\ history[1].prev = 0 /\ history[1].of = 0
  BY <1>2 DEF Init
<1>4. /\ "execStarted" \notin StateEntered /\ "execStarted" \notin ExecutionEnd
  BY DEF StateEntered, ExecutionEnd
<1>5. /\ reader = [who |-> "none", from |-> 0] /\ read = 0 /\ pages = <<>> /\ jobs = <<>>
      /\ jobOf = <<>> /\ job = <<>> /\ exec = "running"
  BY DEF Init
<1>6. DOMAIN job = {} /\ DOMAIN jobOf = {}
  BY <1>5
<1>7. \A b \in Branch : at[b].pc = "before" /\ at[b].of = 0 /\ at[b].last = 1
  BY DEF Init
<1>8. at \in [Branch -> [pc : BranchPC, of : Id, last : Id]]
  BY <1>1 DEF Init, BranchPC
<1>9. pages \in Seq(Id) /\ jobs \in Seq(Id)
  BY <1>5
<1>10. reader \in [who : {"none", "history", "lastJob"}, from : Id] /\ read \in 0..Len(history)
  BY <1>1, <1>3, <1>5
<1>11. TypeOK
  BY <1>1, <1>3, <1>5, <1>6, <1>8, <1>9, <1>10 DEF TypeOK
<1>12. HistoryInv
  <2>1. ParentsAgree
    BY <1>3, <1>4 DEF ParentsAgree
  <2>2. EndIsLast
    BY <1>3, <1>4 DEF EndIsLast
  <2>3. BranchesApart
    BY <1>3, <1>7 DEF BranchesApart
  <2>4. SuccessIsEarned
    BY <1>3, <1>7 DEF SuccessIsEarned
  <2> QED
    BY <1>3, <2>1, <2>2, <2>3, <2>4 DEF HistoryInv
<1>13. ReaderInv /\ MapInv
  BY <1>5, <1>6 DEF ReaderInv, MapInv
<1>14. AllVisitsListed
  <2>1. DOMAIN (pages \o jobs) = {}
    BY <1>5
  <2> QED
    BY <1>5, <2>1 DEF AllVisitsListed
<1>15. LastJobIsLast
  BY <1>5 DEF LastJobIsLast
<1> QED
  BY <1>6, <1>11, <1>12, <1>13, <1>14, <1>15 DEF Inv

-----------------------------------------------------------------------------
(***************************************************************************)
(* The theorems.                                                           *)
(***************************************************************************)

\* What SFN writes and what ProcessEvents has made of it fit together at
\* every moment, while SFN still writes and wherever a page ends.
THEOREM InvHolds == Spec => []Inv
<1>1. Init => Inv
  BY InitInv
<1>2. Inv /\ [Next]_vars => Inv'
  <2> SUFFICES ASSUME Inv, [Next]_vars
               PROVE  Inv'
    OBVIOUS
  <2>1. CASE Sfn /\ UNCHANGED readerVars
    BY <2>1, SfnKeepsInv
  <2>2. CASE (UpdateWorkflowHistory \/ UpdateWorkflowLastJob) /\ UNCHANGED sfnVars
    BY <2>2, BeginKeepsInv
  <2>3. CASE ProcessEvent /\ UNCHANGED sfnVars
    BY <2>3, ProcessEventKeepsInv
  <2>4. CASE NextPage /\ UNCHANGED sfnVars
    BY <2>4, NextPageKeepsInv
  <2>5. CASE UNCHANGED vars
    <3>1. /\ UNCHANGED <<history, at, exec>>
          /\ UNCHANGED <<reader, read, pages, jobs, jobOf, job>>
      BY <2>5 DEF vars
    <3>2. TypeOK' /\ HistoryInv'
      BY <3>1 DEF Inv, TypeOK, HistoryInv, ParentsAgree, EndIsLast, BranchesApart, SuccessIsEarned
    <3>3. ReaderInv' /\ MapInv' /\ AllVisitsListed'
      BY <3>1 DEF Inv, ReaderInv, MapInv, AllVisitsListed
    <3>4. LastJobIsLast' /\ (EndRead' <=> EndRead)
      BY <3>1 DEF Inv, EndRead, LastJobIsLast
    <3>5. ASSUME NEW j \in DOMAIN job
          PROVE  JobRight(j)'
      <4>1. Own(j, Handled)' = Own(j, Handled) /\ Retried(j)' = Retried(j)
        BY <3>1 DEF Own, Retried
      <4> QED
        BY <3>1, <3>4, <4>1 DEF Inv, JobRight
    <3> QED
      BY <3>1, <3>2, <3>3, <3>4, <3>5 DEF Inv
  <2> QED
    BY <2>1, <2>2, <2>3, <2>4, <2>5 DEF Next, Reader
<1> QED
  BY <1>1, <1>2, PTL DEF Spec

\* Every job has the status and the attempts that the events of its own state
\* visit give it: eventToJob never takes an event to the job of another
\* visit, except the end of the execution.
THEOREM JobsAreNotMixedUp == Spec => []NoMixUp
<1>1. Inv => NoMixUp
  <2> SUFFICES ASSUME Inv, NEW j \in DOMAIN job
               PROVE  /\ job[j].attempts = Cardinality(Retried(j))
                      /\ \/ job[j].status = StatusAfter(history[Latest(Own(j, Handled))].type)
                         \/ EndRead /\ jobs # <<>> /\ j = jobs[Len(jobs)]
    BY DEF NoMixUp
  <2> DEFINE H == Own(j, Handled)
  <2>1. JobRight(j)
    BY DEF Inv
  <2>2. PICK k \in H : /\ \A n \in H : n <= k
                       /\ \/ job[j].status = StatusAfter(history[k].type)
                          \/ EndRead /\ jobs # <<>> /\ j = jobs[Len(jobs)]
    BY <2>1 DEF JobRight
  <2>3. \A n \in H : n \in Nat
    BY OwnBounds
  <2> HIDE DEF H
  <2>4. Latest(H) \in H /\ \A n \in H : n <= Latest(H)
    BY <2>2 DEF Latest
  <2>5. Latest(H) = k
    BY <2>2, <2>3, <2>4
  <2> QED
    BY <2>1, <2>2, <2>5 DEF JobRight, H
<1> QED
  BY <1>1, InvHolds, PTL

\* The pages of UpdateWorkflowHistory lose no state visit, list none twice
\* and keep their order.
THEOREM VisitsAreListed == Spec => []AllVisitsListed
<1>1. Inv => AllVisitsListed
  BY DEF Inv
<1> QED
  BY <1>1, InvHolds, PTL

\* What UpdateWorkflowLastJob takes for the last job is the one entered last
\* in the whole execution, and failed, however short its page is.
THEOREM LastJobIsFound == Spec => []LastJobIsLast
<1>1. Inv => LastJobIsLast
  BY DEF Inv
<1> QED
  BY <1>1, InvHolds, PTL
=============================================================================
