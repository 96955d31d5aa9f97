------------------------- MODULE EmbeddedPollerProofs -------------------------
(***************************************************************************)
(* Proofs about EmbeddedPoller, for any set of tasks, any limit and        *)
(* whatever gets lost.                                                     *)
(*                                                                         *)
(* A step of a handler touches one task and, of the loop's state, only the *)
(* counter.  So each step is shown to keep what the invariant says of its  *)
(* own task (HandlerConsistent, TruthfulAbout); for the counter and the    *)
(* limit only the fields `main' before and after matter.                   *)
(***************************************************************************)
EXTENDS EmbeddedPoller, FiniteSetTheorems, TLAPS

\* What AnswerTruthful says of one task.
TruthfulAbout(t) ==
    /\ task[t] = "succeeded" => result[t] = "succeeded"
    /\ task[t] = "failed" /\ result[t] = "succeeded" => shutdown \/ t \in lost

\* A step leaves everything about task u alone.
Untouched(u) ==
    /\ handler'[u] = handler[u] /\ task'[u] = task[u] /\ result'[u] = result[u]
    /\ u \in lost' <=> u \in lost

\* The types of all variables but the counter, which needs its invariant.
TypesButCounter ==
    /\ loop \in {"check", "poll", "stopped"}
    /\ shutdown \in BOOLEAN
    /\ handler \in [Tasks -> Handler]
    /\ result \in [Tasks -> {"none", "succeeded", "failed"}]
    /\ task \in [Tasks -> {"scheduled", "given", "succeeded", "failed", "timedOut"}]
    /\ lost \subseteq Tasks
    /\ late \subseteq Tasks

\* A step about task t that keeps the invariant for t, and its types.
KeepsTask(t) ==
    /\ TypesButCounter'
    /\ HandlerConsistent(t)' /\ TruthfulAbout(t)'
    /\ \A u \in Tasks \ {t} : Untouched(u)
    /\ shutdown' = shutdown

\* One handler is replaced.
LEMMA HandlerReplaced ==
    ASSUME TypesButCounter, NEW t \in Tasks, NEW h \in Handler,
           handler' = [handler EXCEPT ![t] = h]
    PROVE  /\ handler' \in [Tasks -> Handler]
           /\ handler'[t] = h
           /\ \A u \in Tasks \ {t} : handler'[u] = handler[u]
  BY DEF TypesButCounter

\* A handler starts.
LEMMA StartHandlerKeeps ==
    ASSUME TypesButCounter, NEW t \in Tasks, HandlerConsistent(t), TruthfulAbout(t),
           StartHandler(t)
    PROVE  KeepsTask(t) /\ handler'[t].main = "running"
<1> DEFINE h == [handler[t] EXCEPT !.main = "running"]
<1>1. /\ h \in Handler
      /\ h.main = "running" /\ h.fn = handler[t].fn /\ h.beat = handler[t].beat /\ h.cancelled = handler[t].cancelled /\ h.err = handler[t].err
  BY DEF TypesButCounter, Handler
<1>2. handler' = [handler EXCEPT ![t] = h]
  BY DEF StartHandler
<1> HIDE DEF h
<1>3. /\ handler' \in [Tasks -> Handler] /\ handler'[t] = h
      /\ \A u \in Tasks \ {t} : handler'[u] = handler[u]
  BY <1>1, <1>2, HandlerReplaced
<1> QED
  BY <1>1, <1>3 DEF KeepsTask, TypesButCounter, HandlerConsistent, TruthfulAbout, Untouched,
                    StartHandler

\* The function of the resource returns.
LEMMA CallReturnsKeeps ==
    ASSUME TypesButCounter, NEW t \in Tasks, HandlerConsistent(t), TruthfulAbout(t),
           CallReturns(t)
    PROVE  KeepsTask(t) /\ handler'[t].main = handler[t].main
<1> DEFINE h == [handler[t] EXCEPT !.fn = "sending"]
<1>1. /\ h \in Handler
      /\ h.main = handler[t].main /\ h.fn = "sending" /\ h.beat = handler[t].beat /\ h.cancelled = handler[t].cancelled /\ h.err = handler[t].err
  BY DEF TypesButCounter, Handler
<1>2. handler' = [handler EXCEPT ![t] = h]
  BY DEF CallReturns
<1> HIDE DEF h
<1>3. /\ handler' \in [Tasks -> Handler] /\ handler'[t] = h
      /\ \A u \in Tasks \ {t} : handler'[u] = handler[u]
  BY <1>1, <1>2, HandlerReplaced
<1> QED
  BY <1>1, <1>3 DEF KeepsTask, TypesButCounter, HandlerConsistent, TruthfulAbout, Untouched,
                    CallReturns

\* The goroutine of the function ends.
LEMMA CancelHeartbeatKeeps ==
    ASSUME TypesButCounter, NEW t \in Tasks, HandlerConsistent(t), TruthfulAbout(t),
           CancelHeartbeat(t)
    PROVE  KeepsTask(t) /\ handler'[t].main = handler[t].main
<1> DEFINE h == [handler[t] EXCEPT !.fn = "ended", !.cancelled = TRUE]
<1>0. handler[t] \in Handler
  BY DEF TypesButCounter
<1>1. /\ h \in Handler
      /\ h.main = handler[t].main /\ h.fn = "ended" /\ h.beat = handler[t].beat /\ h.cancelled = TRUE /\ h.err = handler[t].err
  BY <1>0 DEF Handler
<1>2. handler' = [handler EXCEPT ![t] = h]
  BY DEF CancelHeartbeat
<1> HIDE DEF h
<1>3. /\ handler' \in [Tasks -> Handler] /\ handler'[t] = h
      /\ \A u \in Tasks \ {t} : handler'[u] = handler[u]
  BY <1>1, <1>2, HandlerReplaced
<1> QED
  BY <1>1, <1>3 DEF KeepsTask, TypesButCounter, HandlerConsistent, TruthfulAbout, Untouched,
                    CancelHeartbeat

\* The heartbeat ends: with its context, or because the task is over.
LEMMA HeartbeatKeeps ==
    ASSUME TypesButCounter, NEW t \in Tasks, HandlerConsistent(t), TruthfulAbout(t),
           Heartbeat(t)
    PROVE  KeepsTask(t) /\ handler'[t].main = handler[t].main
<1> DEFINE g == [handler[t] EXCEPT !.beat = "ended"]
           h == [handler[t] EXCEPT !.beat = "ended", !.cancelled = TRUE, !.err = TRUE]
<1>0. handler[t] \in Handler
  BY DEF TypesButCounter
<1>1. /\ g \in Handler
      /\ g.main = handler[t].main /\ g.fn = handler[t].fn /\ g.cancelled = handler[t].cancelled
  BY <1>0 DEF Handler
<1>2. /\ h \in Handler
      /\ h.main = handler[t].main /\ h.fn = handler[t].fn /\ h.cancelled = TRUE
  BY DEF TypesButCounter, Handler
<1>3. \/ handler' = [handler EXCEPT ![t] = g]
      \/ handler' = [handler EXCEPT ![t] = h] /\ task[t] # "given"
  BY DEF Heartbeat
<1> HIDE DEF g, h
<1>4. /\ handler' \in [Tasks -> Handler]
      /\ handler'[t] = g \/ (handler'[t] = h /\ task[t] # "given")
      /\ \A u \in Tasks \ {t} : handler'[u] = handler[u]
  BY <1>1, <1>2, <1>3, HandlerReplaced
<1> QED
  BY <1>1, <1>2, <1>4 DEF KeepsTask, TypesButCounter, HandlerConsistent, TruthfulAbout,
                          Untouched, Heartbeat

\* The result is sent to SFN, or not: then the task is over, the call was
\* lost, or a success met a shutdown.
LEMMA SendResultKeeps ==
    ASSUME TypesButCounter, NEW t \in Tasks, HandlerConsistent(t), TruthfulAbout(t),
           SendResult(t)
    PROVE  KeepsTask(t) /\ handler'[t].main = handler[t].main
<1> DEFINE H(e) == [handler[t] EXCEPT !.fn = "returning", !.err = @ \/ e]
<1>0. handler[t] \in Handler
  BY DEF TypesButCounter
<1>1. ASSUME NEW e \in BOOLEAN
      PROVE  /\ H(e) \in Handler
             /\ H(e).main = handler[t].main /\ H(e).fn = "returning"
             /\ H(e).cancelled = handler[t].cancelled
  BY <1>0 DEF Handler
<1>2. PICK e \in BOOLEAN : handler' = [handler EXCEPT ![t] = H(e)]
  BY DEF SendResult
<1> DEFINE h == H(e)
<1>3. /\ h \in Handler /\ h.main = handler[t].main /\ h.fn = "returning"
      /\ h.cancelled = handler[t].cancelled /\ handler' = [handler EXCEPT ![t] = h]
  BY <1>1, <1>2
<1> HIDE DEF h
<1>4. /\ handler' \in [Tasks -> Handler] /\ handler'[t] = h
      /\ \A u \in Tasks \ {t} : handler'[u] = handler[u]
  BY <1>3, HandlerReplaced
<1>5. /\ handler[t].main = "running" /\ handler[t].fn = "sending"
      /\ \/ task[t] = "given" /\ task' = [task EXCEPT ![t] = result[t]]
         \/ /\ task' = task
            /\ \/ result[t] = "succeeded" /\ ContextDone(t)
               \/ task[t] # "given"
               \/ t \in lost'
      /\ lost' = lost \/ lost' = lost \cup {t}
      /\ UNCHANGED <<loop, shutdown, counter, result, late>>
  BY DEF SendResult, Lose
<1>6. result[t] \in {"succeeded", "failed"}
  BY <1>5 DEF TypesButCounter, HandlerConsistent
<1>7. /\ task' \in [Tasks -> {"scheduled", "given", "succeeded", "failed", "timedOut"}]
      /\ \A u \in Tasks \ {t} : task'[u] = task[u]
      /\ lost' \subseteq Tasks /\ \A u \in Tasks \ {t} : u \in lost' <=> u \in lost
  BY <1>5, <1>6 DEF TypesButCounter
<1>8. \/ task'[t] = result[t] /\ task[t] = "given"
      \/ /\ task'[t] = task[t]
         /\ task[t] = "given" => t \in lost' \/ (result[t] = "succeeded" /\ shutdown)
  BY <1>5, <1>6 DEF TypesButCounter, HandlerConsistent, ContextDone
<1> QED
  BY <1>3, <1>4, <1>5, <1>6, <1>7, <1>8
     DEF KeepsTask, TypesButCounter, HandlerConsistent, TruthfulAbout, Untouched

\* Both goroutines have ended.
LEMMA WaitKeeps ==
    ASSUME TypesButCounter, NEW t \in Tasks, HandlerConsistent(t), TruthfulAbout(t),
           Wait(t)
    PROVE  /\ KeepsTask(t)
           /\ \/ handler'[t].main = "reporting" /\ counter' = counter
              \/ handler'[t].main = "ended" /\ counter' = counter - 1
<1> DEFINE H(m) == [handler[t] EXCEPT !.main = m]
<1>1. ASSUME NEW m \in {"reporting", "ended"}
      PROVE  /\ H(m) \in Handler
             /\ H(m).main = m /\ H(m).fn = handler[t].fn
             /\ H(m).cancelled = handler[t].cancelled
  BY DEF TypesButCounter, Handler
<1>2. PICK m \in {"reporting", "ended"} :
         /\ handler' = [handler EXCEPT ![t] = H(m)]
         /\ counter' = IF m = "ended" THEN counter - 1 ELSE counter
  BY DEF Wait
<1> DEFINE h == H(m)
<1>3. /\ h \in Handler /\ h.main = m /\ h.fn = handler[t].fn
      /\ h.cancelled = handler[t].cancelled /\ handler' = [handler EXCEPT ![t] = h]
  BY <1>1, <1>2
<1> HIDE DEF h
<1>4. /\ handler' \in [Tasks -> Handler] /\ handler'[t] = h
      /\ \A u \in Tasks \ {t} : handler'[u] = handler[u]
  BY <1>3, HandlerReplaced
<1>5. KeepsTask(t)
  BY <1>3, <1>4 DEF KeepsTask, TypesButCounter, HandlerConsistent, TruthfulAbout, Untouched, Wait
<1> QED
  BY <1>2, <1>3, <1>4, <1>5

\* An error is reported: of a task that is still open only if its result was
\* lost or met a shutdown.
LEMMA ReportInternalErrorKeeps ==
    ASSUME TypesButCounter, NEW t \in Tasks, HandlerConsistent(t), TruthfulAbout(t),
           ReportInternalError(t)
    PROVE  KeepsTask(t) /\ handler'[t].main = "ended"
<1> DEFINE h == [handler[t] EXCEPT !.main = "ended"]
<1>1. /\ h \in Handler
      /\ h.main = "ended" /\ h.fn = handler[t].fn /\ h.cancelled = handler[t].cancelled
  BY DEF TypesButCounter, Handler
<1>2. handler' = [handler EXCEPT ![t] = h]
  BY DEF ReportInternalError
<1> HIDE DEF h
<1>3. /\ handler' \in [Tasks -> Handler] /\ handler'[t] = h
      /\ \A u \in Tasks \ {t} : handler'[u] = handler[u]
  BY <1>1, <1>2, HandlerReplaced
<1>4. /\ handler[t].main = "reporting"
      /\ \/ task[t] = "given" /\ task' = [task EXCEPT ![t] = "failed"]
         \/ task' = task
      /\ lost' = lost \/ lost' = lost \cup {t}
      /\ UNCHANGED <<loop, shutdown, result, late>>
  BY DEF ReportInternalError, Lose
<1> QED
  BY <1>1, <1>3, <1>4 DEF KeepsTask, TypesButCounter, HandlerConsistent, TruthfulAbout, Untouched

\* SFN gives up on a task.
LEMMA TaskTimesOutKeeps ==
    ASSUME TypesButCounter, NEW t \in Tasks, HandlerConsistent(t), TruthfulAbout(t),
           TaskTimesOut(t)
    PROVE  KeepsTask(t) /\ handler' = handler
  BY DEF KeepsTask, TypesButCounter, HandlerConsistent, TruthfulAbout, Untouched, TaskTimesOut

\* SFN hands out a task: it gets a handler unless the answer is lost.
LEMMA TaskGivenKeeps ==
    ASSUME TypesButCounter, NEW t \in Tasks, HandlerConsistent(t), TruthfulAbout(t),
           task[t] = "scheduled", task' = [task EXCEPT ![t] = "given"],
           \/ handler' = [handler EXCEPT ![t].main = "spawned"] /\ UNCHANGED lost
           \/ Lose(t) /\ UNCHANGED handler,
           loop' = "check", UNCHANGED <<shutdown, counter, result, late>>
    PROVE  /\ KeepsTask(t)
           /\ handler[t].main = "none" /\ handler'[t].main \in {"none", "spawned"}
<1> DEFINE h == [handler[t] EXCEPT !.main = "spawned"]
<1>1. /\ handler[t] = [NoHandler EXCEPT !.main = "none"] /\ handler[t].main = "none"
      /\ handler[t].fn = "calling" /\ handler[t].cancelled = FALSE
  BY DEF HandlerConsistent, NoHandler
<1>2. /\ h \in Handler
      /\ h.main = "spawned" /\ h.fn = "calling" /\ h.cancelled = FALSE
      /\ h = [NoHandler EXCEPT !.main = h.main]
  BY <1>1 DEF TypesButCounter, Handler, NoHandler
<1>3. CASE handler' = [handler EXCEPT ![t].main = "spawned"] /\ UNCHANGED lost
  <2>1. handler' = [handler EXCEPT ![t] = h]
    BY <1>3
  <2> HIDE DEF h
  <2>2. /\ handler' \in [Tasks -> Handler] /\ handler'[t] = h
        /\ \A u \in Tasks \ {t} : handler'[u] = handler[u]
    BY <1>2, <2>1, HandlerReplaced
  <2> QED
    BY <1>1, <1>2, <1>3, <2>2 DEF KeepsTask, TypesButCounter, HandlerConsistent, TruthfulAbout,
                                  Untouched
<1>4. CASE Lose(t) /\ UNCHANGED handler
  BY <1>1, <1>4 DEF KeepsTask, TypesButCounter, HandlerConsistent, TruthfulAbout, Untouched, Lose
<1> QED
  BY <1>3, <1>4

-----------------------------------------------------------------------------
(***************************************************************************)
(* The counter and the limit.                                              *)
(***************************************************************************)

\* How the handlers that exist and those that count change with one of them.
LEMMA SetsAfter ==
    ASSUME NEW t \in Tasks, \A u \in Tasks \ {t} : handler'[u].main = handler[u].main,
           IsFiniteSet(Spawned)
    PROVE  /\ Spawned' = IF handler'[t].main \in {"spawned", "running", "reporting"}
                         THEN Spawned \cup {t} ELSE Spawned \ {t}
           /\ Counted' = IF handler'[t].main \in {"running", "reporting"}
                         THEN Counted \cup {t} ELSE Counted \ {t}
           /\ IsFiniteSet(Spawned') /\ IsFiniteSet(Counted)
           /\ Cardinality(Counted) \in Nat
<1>1. Spawned' = IF handler'[t].main \in {"spawned", "running", "reporting"}
                 THEN Spawned \cup {t} ELSE Spawned \ {t}
  BY DEF Spawned
<1>2. Counted' = IF handler'[t].main \in {"running", "reporting"}
                 THEN Counted \cup {t} ELSE Counted \ {t}
  BY DEF Counted
<1>3. IsFiniteSet(Spawned')
  BY <1>1, FS_AddElement, FS_RemoveElement
<1>4. Counted \in SUBSET Spawned
  BY DEF Counted, Spawned
<1>5. IsFiniteSet(Counted)
  BY <1>4, FS_Subset
<1> QED
  BY <1>1, <1>2, <1>3, <1>5, FS_CardinalityType

\* A handler that exists already goes on: it may begin to count, go on
\* counting, or end.
LEMMA HandlerKeepsCount ==
    ASSUME Inv, NEW t \in Tasks, \A u \in Tasks \ {t} : handler'[u].main = handler[u].main,
           loop' = loop, late' = late,
           \/ /\ handler[t].main = "spawned" /\ handler'[t].main = "running"
              /\ counter' = counter + 1
           \/ /\ handler[t].main = "running" /\ handler'[t].main \in {"running", "reporting"}
              /\ counter' = counter
           \/ /\ handler[t].main \in {"running", "reporting"} /\ handler'[t].main = "ended"
              /\ counter' = counter - 1
    PROVE  /\ counter' \in Nat /\ CounterExact' /\ IsFiniteSet(Spawned)'
           /\ LimitRespected' /\ SlotKept'
<1>1. IsFiniteSet(Spawned)
  BY DEF Inv
<1>2. /\ Spawned' = IF handler'[t].main \in {"spawned", "running", "reporting"}
                    THEN Spawned \cup {t} ELSE Spawned \ {t}
      /\ Counted' = IF handler'[t].main \in {"running", "reporting"}
                    THEN Counted \cup {t} ELSE Counted \ {t}
      /\ IsFiniteSet(Spawned') /\ IsFiniteSet(Counted)
      /\ Cardinality(Counted) \in Nat
  BY <1>1, SetsAfter
<1>3. /\ t \in Spawned
      /\ t \in Counted <=> handler[t].main \in {"running", "reporting"}
  BY DEF Spawned, Counted
<1>4. Spawned' \in SUBSET Spawned
  BY <1>2, <1>3
<1>5. /\ Cardinality(Spawned' \ late) <= Cardinality(Spawned \ late)
      /\ Cardinality(Spawned \ late) \in Nat /\ Cardinality(Spawned' \ late) \in Nat
  <2>1. IsFiniteSet(Spawned \ late) /\ Spawned' \ late \in SUBSET (Spawned \ late)
    BY <1>1, <1>4, FS_Difference
  <2> QED
    BY <2>1, FS_Subset, FS_CardinalityType
<1>6. Cardinality(Counted') = IF t \in Counted
                              THEN IF handler'[t].main = "ended" THEN Cardinality(Counted) - 1
                                                                 ELSE Cardinality(Counted)
                              ELSE Cardinality(Counted) + 1
  BY <1>2, <1>3, FS_AddElement, FS_RemoveElement
<1>7. t \in Counted => Cardinality(Counted) # 0
  BY <1>2, FS_EmptySet
<1>8. counter = Cardinality(Counted)
  BY DEF Inv, CounterExact
<1>9. counter' = Cardinality(Counted') /\ counter' \in Nat
  BY <1>2, <1>3, <1>6, <1>7, <1>8
<1> QED
  BY <1>2, <1>5, <1>9, PollerAssumption DEF Inv, CounterExact, LimitRespected, SlotKept

\* A handler is added by GetActivityTask, which has kept a slot for it.
LEMMA SpawnKeepsCount ==
    ASSUME Inv, NEW t \in Tasks, \A u \in Tasks \ {t} : handler'[u].main = handler[u].main,
           handler[t].main = "none", handler'[t].main \in {"none", "spawned"},
           loop = "poll", loop' = "check", UNCHANGED <<counter, late>>
    PROVE  /\ counter' \in Nat /\ CounterExact' /\ IsFiniteSet(Spawned)'
           /\ LimitRespected' /\ SlotKept'
<1>1. IsFiniteSet(Spawned)
  BY DEF Inv
<1>2. /\ Spawned' = IF handler'[t].main \in {"spawned", "running", "reporting"}
                    THEN Spawned \cup {t} ELSE Spawned \ {t}
      /\ Counted' = IF handler'[t].main \in {"running", "reporting"}
                    THEN Counted \cup {t} ELSE Counted \ {t}
      /\ IsFiniteSet(Spawned') /\ IsFiniteSet(Counted)
      /\ Cardinality(Counted) \in Nat
  BY <1>1, SetsAfter
<1>3. Counted' = Counted
  BY <1>2 DEF Counted
<1>4. /\ Cardinality(Spawned' \ late) <= Cardinality(Spawned \ late) + 1
      /\ Cardinality(Spawned \ late) \in Nat /\ Cardinality(Spawned' \ late) \in Nat
  <2> DEFINE S == Spawned \ late
  <2>1. IsFiniteSet(S)
    BY <1>1, FS_Difference
  <2>2. Spawned' \ late \in SUBSET (S \cup {t})
    BY <1>2
  <2> HIDE DEF S
  <2>3. /\ IsFiniteSet(S \cup {t}) /\ Cardinality(S) \in Nat
        /\ Cardinality(S \cup {t}) \in {Cardinality(S), Cardinality(S) + 1}
    BY <2>1, FS_AddElement, FS_CardinalityType
  <2>4. /\ Cardinality(Spawned' \ late) <= Cardinality(S \cup {t})
        /\ Cardinality(Spawned' \ late) \in Nat
    BY <2>2, <2>3, FS_Subset, FS_CardinalityType
  <2>5. Cardinality(Spawned' \ late) <= Cardinality(S) + 1
    BY <2>3, <2>4
  <2> QED
    BY <2>3, <2>4, <2>5 DEF S
<1>5. Cardinality(Spawned \ late) < Limit
  BY DEF Inv, SlotKept
<1>6. Cardinality(Spawned' \ late) <= Limit
  BY <1>4, <1>5, PollerAssumption
<1>7. counter' \in Nat /\ counter' = Cardinality(Counted')
  BY <1>3 DEF Inv, TypeOK, CounterExact
<1> QED
  BY <1>2, <1>6, <1>7 DEF CounterExact, LimitRespected, SlotKept

\* A step that leaves all handlers and the counter as they are, and does not
\* begin to poll.
LEMMA LoopKeepsCount ==
    ASSUME Inv, UNCHANGED <<handler, counter, late>>, loop' = "poll" => loop = "poll"
    PROVE  /\ counter' \in Nat /\ CounterExact' /\ IsFiniteSet(Spawned)'
           /\ LimitRespected' /\ SlotKept'
  BY DEF Inv, TypeOK, CounterExact, LimitRespected, SlotKept, Spawned, Counted

\* The loop goes on to poll: apart from the handlers that are late now, those
\* that exist are those that count.
LEMMA CheckKeepsCount ==
    ASSUME Inv, UNCHANGED <<handler, counter>>, counter < Limit, late' = Spawned \ Counted
    PROVE  /\ counter' \in Nat /\ CounterExact' /\ IsFiniteSet(Spawned)'
           /\ LimitRespected' /\ SlotKept'
<1>1. Spawned' = Spawned /\ Counted' = Counted /\ Counted \subseteq Spawned
  BY DEF Spawned, Counted
<1>2. Spawned' \ late' = Counted
  BY <1>1
<1>3. /\ counter' \in Nat /\ counter' = Cardinality(Counted') /\ IsFiniteSet(Spawned')
      /\ Cardinality(Spawned' \ late') = counter
  BY <1>1, <1>2 DEF Inv, TypeOK, CounterExact
<1> QED
  BY <1>3, PollerAssumption DEF CounterExact, LimitRespected, SlotKept, Inv, TypeOK

-----------------------------------------------------------------------------
(***************************************************************************)
(* The invariant and the theorems.                                         *)
(***************************************************************************)

\* A step about task t that keeps what the invariant says of t keeps it of
\* all tasks.
LEMMA OthersKept ==
    ASSUME Inv, NEW t \in Tasks, KeepsTask(t)
    PROVE  /\ \A u \in Tasks : HandlerConsistent(u)'
           /\ AnswerTruthful'
           /\ \A u \in Tasks \ {t} : handler'[u].main = handler[u].main
<1>1. ASSUME NEW u \in Tasks \ {t}
      PROVE  HandlerConsistent(u)' /\ TruthfulAbout(u)'
  <2>1. HandlerConsistent(u) /\ TruthfulAbout(u)
    BY DEF Inv, AnswerTruthful, TruthfulAbout
  <2> QED
    BY <2>1 DEF KeepsTask, Untouched, HandlerConsistent, TruthfulAbout
<1>2. HandlerConsistent(t)' /\ TruthfulAbout(t)'
  BY DEF KeepsTask
<1> QED
  BY <1>1, <1>2 DEF KeepsTask, Untouched, AnswerTruthful, TruthfulAbout

\* Every step keeps the invariant.
LEMMA InvIsKept ==
    ASSUME Inv, [Next]_vars
    PROVE  Inv'
<1> USE DEF Inv
<1>1. TypesButCounter
  BY DEF TypeOK, TypesButCounter
<1>2. ASSUME NEW t \in Tasks
      PROVE  HandlerConsistent(t) /\ TruthfulAbout(t)
  BY DEF AnswerTruthful, TruthfulAbout
<1>3. ASSUME NEW t \in Tasks, KeepsTask(t),
             /\ counter' \in Nat /\ CounterExact' /\ IsFiniteSet(Spawned)'
             /\ LimitRespected' /\ SlotKept'
      PROVE  Inv'
  BY <1>3, OthersKept DEF KeepsTask, TypesButCounter, TypeOK
<1>4. ASSUME UNCHANGED <<counter, handler, result, task, lost>>,
             loop' \in {"check", "poll", "stopped"}, late' \subseteq Tasks,
             \/ late' = late /\ (loop' = "poll" => loop = "poll")
             \/ late' = Spawned \ Counted /\ counter < Limit,
             shutdown' \in BOOLEAN, shutdown => shutdown'
      PROVE  Inv'
  <2>1. /\ counter' \in Nat /\ CounterExact' /\ IsFiniteSet(Spawned)'
        /\ LimitRespected' /\ SlotKept'
    BY <1>4, LoopKeepsCount, CheckKeepsCount
  <2>2. \A t \in Tasks : HandlerConsistent(t)'
    BY <1>4 DEF HandlerConsistent
  <2> QED
    BY <1>4, <2>1, <2>2 DEF TypeOK, AnswerTruthful
<1>5. CASE CheckLimit
  BY <1>4, <1>5 DEF CheckLimit, TypeOK, Spawned
<1>6. CASE GetActivityTask
  <2>1. CASE UNCHANGED <<task, handler, lost>>
    BY <1>4, <1>6, <2>1 DEF GetActivityTask, TypeOK
  <2>2. ASSUME NEW t \in Tasks, task[t] = "scheduled", task' = [task EXCEPT ![t] = "given"],
               \/ handler' = [handler EXCEPT ![t].main = "spawned"] /\ UNCHANGED lost
               \/ Lose(t) /\ UNCHANGED handler
        PROVE  Inv'
    <3>1. loop = "poll" /\ loop' = "check" /\ UNCHANGED <<shutdown, counter, result, late>>
      BY <1>6 DEF GetActivityTask
    <3>2. /\ KeepsTask(t)
          /\ handler[t].main = "none" /\ handler'[t].main \in {"none", "spawned"}
      BY <1>1, <1>2, <2>2, <3>1, TaskGivenKeeps
    <3> QED
      BY <1>3, <3>1, <3>2, OthersKept, SpawnKeepsCount
  <2> QED
    BY <1>6, <2>1, <2>2 DEF GetActivityTask
<1>7. CASE Shutdown
  BY <1>4, <1>7 DEF Shutdown, TypeOK
<1>8. ASSUME NEW t \in Tasks, HandlerStep(t)
      PROVE  Inv'
  <2>1. CASE StartHandler(t)
    <3>1. handler[t].main = "spawned" /\ counter' = counter + 1 /\ UNCHANGED <<loop, late>>
      BY <2>1 DEF StartHandler
    <3> QED
      BY <1>1, <1>2, <1>3, <2>1, <3>1, StartHandlerKeeps, OthersKept, HandlerKeepsCount
  <2>2. CASE Heartbeat(t) \/ CallReturns(t) \/ SendResult(t) \/ CancelHeartbeat(t)
    <3>1. handler[t].main = "running" /\ UNCHANGED <<counter, loop, late>>
      BY <2>2 DEF Heartbeat, CallReturns, SendResult, CancelHeartbeat
    <3>2. KeepsTask(t) /\ handler'[t].main = handler[t].main
      BY <1>1, <1>2, <2>2, HeartbeatKeeps, CallReturnsKeeps, SendResultKeeps, CancelHeartbeatKeeps
    <3> QED
      BY <1>3, <3>1, <3>2, OthersKept, HandlerKeepsCount
  <2>3. CASE Wait(t)
    <3>1. handler[t].main = "running" /\ UNCHANGED <<loop, late>>
      BY <2>3 DEF Wait
    <3> QED
      BY <1>1, <1>2, <1>3, <2>3, <3>1, WaitKeeps, OthersKept, HandlerKeepsCount
  <2>4. CASE ReportInternalError(t)
    <3>1. handler[t].main = "reporting" /\ UNCHANGED <<loop, late>> /\ counter' = counter - 1
      BY <2>4 DEF ReportInternalError
    <3> QED
      BY <1>1, <1>2, <1>3, <2>4, <3>1, ReportInternalErrorKeeps, OthersKept, HandlerKeepsCount
  <2> QED
    BY <1>8, <2>1, <2>2, <2>3, <2>4 DEF HandlerStep
<1>9. ASSUME NEW t \in Tasks, TaskTimesOut(t)
      PROVE  Inv'
  <2>1. UNCHANGED <<handler, counter, loop, late>>
    BY <1>9 DEF TaskTimesOut
  <2> QED
    BY <1>1, <1>2, <1>3, <1>9, <2>1, TaskTimesOutKeeps, LoopKeepsCount
<1>10. CASE UNCHANGED vars
  BY <1>4, <1>10 DEF vars, TypeOK
<1> QED
  BY <1>5, <1>6, <1>7, <1>8, <1>9, <1>10 DEF Next

\* The worker begins with no handler.
LEMMA InvAtFirst == Init => Inv
<1> SUFFICES ASSUME Init PROVE Inv
  OBVIOUS
<1>1. Spawned = {} /\ Counted = {}
  BY DEF Init, Spawned, Counted, NoHandler
<1>2. /\ IsFiniteSet(Spawned) /\ Cardinality(Counted) = 0
      /\ Spawned \ late = {} /\ Cardinality(Spawned \ late) = 0
  BY <1>1, FS_EmptySet
<1>3. TypeOK
  BY DEF Init, TypeOK, Handler, NoHandler
<1>4. \A t \in Tasks : HandlerConsistent(t)
  BY DEF Init, HandlerConsistent, NoHandler
<1>5. AnswerTruthful
  BY DEF Init, AnswerTruthful
<1> QED
  BY <1>2, <1>3, <1>4, <1>5, PollerAssumption
     DEF Init, Inv, CounterExact, LimitRespected, SlotKept

\* The inductive invariant of the polling loop and its handlers.
THEOREM InvHolds == Spec => []Inv
<1>1. Inv /\ [Next]_vars => Inv'
  BY InvIsKept
<1> QED
  BY <1>1, InvAtFirst, PTL DEF Spec

\* concurrentExecutions (embedded/poll.go) is the number of handlers at work,
\* in every state and for any number of tasks: no way through a handler gives
\* back its slot twice or keeps it.
THEOREM CounterIsExact == Spec => []CounterExact
<1>1. Inv => CounterExact
  BY DEF Inv
<1> QED
  BY <1>1, InvHolds, PTL

\* No more handlers than PerResourceConcurrencyLimits allows, but for those
\* that the counter lacked when the loop last compared it (embedded/poll.go:61
\* against :102).
THEOREM LimitIsRespected == Spec => []LimitRespected
<1>1. Inv => LimitRespected
  BY DEF Inv
<1> QED
  BY <1>1, InvHolds, PTL

\* SFN is told what the function returned, except for successes that met a
\* shutdown or got lost on the way.
THEOREM AnswersAreTruthful == Spec => []AnswerTruthful
<1>1. Inv => AnswerTruthful
  BY DEF Inv
<1> QED
  BY <1>1, InvHolds, PTL
=============================================================================
