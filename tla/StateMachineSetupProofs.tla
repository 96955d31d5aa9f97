------------------------ MODULE StateMachineSetupProofs ------------------------
(***************************************************************************)
(* Proofs about StateMachineSetup, for any number of requests and          *)
(* processes and whatever the environment does.                            *)
(*                                                                         *)
(* The invariant says what a process may believe.  Its cache and its map   *)
(* lag behind SFN, but what they call logged is logged, because no step    *)
(* makes a logged state machine anything else; and the log group only      *)
(* grows, so a request that is past a part of it can count on that part.   *)
(***************************************************************************)
EXTENDS StateMachineSetup, TLAPS

\* Goto moves one request and no other.
LEMMA GotoMoves ==
    ASSUME TypeOK, NEW r \in Req, NEW pc, Goto(r, pc)
    PROVE  /\ req'[r].pc = pc
           /\ \A q \in Req : q # r => req'[q] = req[q]
           /\ pc \in {"idle", "describe", "ready", "group", "retention", "filter", "call", "sleep"}
                 => req' \in [Req -> Request]
<1>1. req \in [Req -> Request] /\ req[r] \in Request
  BY DEF TypeOK
<1>2. /\ req' = [q \in Req |-> IF q = r THEN [req[r] EXCEPT !.pc = pc] ELSE req[q]]
      /\ req'[r] = [req[r] EXCEPT !.pc = pc]
  BY <1>1 DEF Goto
<1>3. req[r] = [pc |-> req[r].pc, proc |-> req[r].proc, call |-> req[r].call]
  BY <1>1 DEF Request
<1>4. req'[r] = [pc |-> pc, proc |-> req[r].proc, call |-> req[r].call]
  BY <1>2, <1>3
<1>5. req'[r].pc = pc
  BY <1>4
<1>6. ASSUME pc \in {"idle", "describe", "ready", "group", "retention", "filter", "call", "sleep"}
      PROVE  req'[r] \in Request
  BY <1>1, <1>4, <1>6 DEF Request
<1> QED
  BY <1>1, <1>2, <1>5, <1>6

\* What every step keeps: a state machine that logs goes on logging, and the
\* log group loses nothing.
LEMMA LoggingIsKept ==
    ASSUME TypeOK, [Next]_vars
    PROVE  /\ sm = "logged" => sm' = "logged"
           /\ group \subseteq group'
  BY DEF TypeOK, Next, vars, Goto, Begin, Continue, DescribeStateMachine, CreateLogGroup,
         PutRetentionPolicy, PutSubscriptionFilter, CreateStateMachine, UpdateStateMachine,
         StoreUpdated, Abandon, Restart, Evict

\* Every variable keeps its type.
LEMMA TypeOKIsKept ==
    ASSUME TypeOK, [Next]_vars
    PROVE  TypeOK'
<1> USE DEF TypeOK, StateMachine, GroupParts, Request
<1>1. ASSUME NEW r \in Req, Begin(r)
      PROVE  TypeOK'
  BY <1>1 DEF Begin
<1>2. ASSUME NEW r \in Req, DescribeStateMachine(r)
      PROVE  TypeOK'
  BY <1>2, GotoMoves DEF DescribeStateMachine, Described
<1>3. ASSUME NEW r \in Req, CreateLogGroup(r) \/ PutRetentionPolicy(r) \/ PutSubscriptionFilter(r)
      PROVE  TypeOK'
  BY <1>3, GotoMoves DEF CreateLogGroup, PutRetentionPolicy, PutSubscriptionFilter
<1>4. ASSUME NEW r \in Req, CreateStateMachine(r) \/ UpdateStateMachine(r) \/ StoreUpdated(r)
      PROVE  TypeOK'
  BY <1>4, GotoMoves DEF CreateStateMachine, UpdateStateMachine, StoreUpdated
<1>5. ASSUME NEW r \in Req, Abandon(r)
      PROVE  TypeOK'
  BY <1>5, GotoMoves DEF Abandon
<1>6. ASSUME NEW p \in Process, Restart(p) \/ Evict(p)
      PROVE  TypeOK'
  <2>1. \A r \in Req : req'[r] \in Request
    BY <1>6 DEF Restart, Evict
  <2>2. DOMAIN req' = Req /\ req' = [r \in Req |-> req'[r]]
    BY <1>6 DEF Restart, Evict
  <2> QED
    BY <1>6, <2>1, <2>2 DEF Restart, Evict
<1>7. CASE UNCHANGED vars
  BY <1>7 DEF vars
<1> QED
  BY <1>1, <1>2, <1>3, <1>4, <1>5, <1>6, <1>7 DEF Next, Continue

\* A step keeps the invariant: describeOrCreateStateMachine leaves a complete
\* log group behind whatever logs, and believes only what is true.
LEMMA InvIsKept ==
    ASSUME Inv, [Next]_vars
    PROVE  Inv'
<1> USE DEF Inv
<1>1. TypeOK'
  BY TypeOKIsKept
<1>2. /\ sm = "logged" => sm' = "logged"
      /\ group \subseteq group'
  BY LoggingIsKept
<1>3. group' \subseteq GroupParts
  BY <1>1 DEF TypeOK
<1> DEFINE P == /\ LoggedIsSubscribed /\ ReadyIsLogged
                /\ \A p \in Process : cache[p] = "logged" \/ updated[p] => sm = "logged"
                /\ \A r \in Req : Made(req[r].pc) \subseteq group
                /\ \A r \in Req : req[r].pc = "sleep" => sm = "logged"
<1>4. ASSUME NEW r \in Req, Begin(r)
      PROVE  P'
  BY <1>4 DEF Begin, TypeOK, Made, LoggedIsSubscribed, ReadyIsLogged
<1>5. ASSUME NEW r \in Req, DescribeStateMachine(r)
      PROVE  P'
  <2>1. req[r].proc \in Process
    BY DEF TypeOK, Request
  <2>2. Described(req[r].proc) = "logged" => sm = "logged"
    BY <2>1 DEF Described
  <2>3. ReadyIsLogged'
    BY <1>5, <2>1, <2>2, GotoMoves DEF DescribeStateMachine, TypeOK, StateMachine, Described,
                            ReadyIsLogged, LoggedIsSubscribed, GroupParts
  <2>4. \A p \in Process : cache'[p] = "logged" \/ updated'[p] => sm' = "logged"
    BY <1>5, <2>1, <2>2 DEF DescribeStateMachine, TypeOK
  <2>5. \A q \in Req : /\ Made(req'[q].pc) \subseteq group'
                       /\ req'[q].pc = "sleep" => sm' = "logged"
    BY <1>5, GotoMoves DEF DescribeStateMachine, TypeOK, Made
  <2> QED
    BY <1>5, <2>3, <2>4, <2>5 DEF DescribeStateMachine, LoggedIsSubscribed
<1>6. ASSUME NEW r \in Req, CreateLogGroup(r) \/ PutRetentionPolicy(r) \/ PutSubscriptionFilter(r)
      PROVE  P'
  <2>1. UNCHANGED <<sm, cache, updated>>
    BY <1>6 DEF CreateLogGroup, PutRetentionPolicy, PutSubscriptionFilter
  <2>2. LoggedIsSubscribed'
    BY <1>2, <1>3, <2>1 DEF LoggedIsSubscribed
  <2>3. \A q \in Req : req'[q].pc \in {"ready", "sleep"} => req[q].pc = req'[q].pc
    BY <1>6, GotoMoves DEF CreateLogGroup, PutRetentionPolicy, PutSubscriptionFilter, TypeOK
  <2>4. \A q \in Req : Made(req'[q].pc) \subseteq group'
    BY <1>6, GotoMoves DEF CreateLogGroup, PutRetentionPolicy, PutSubscriptionFilter, TypeOK, Made,
                GroupParts
  <2> QED
    BY <1>2, <2>1, <2>2, <2>3, <2>4 DEF ReadyIsLogged
<1>7. ASSUME NEW r \in Req, CreateStateMachine(r) \/ UpdateStateMachine(r)
      PROVE  P'
  <2>1. group = GroupParts
    BY <1>7 DEF CreateStateMachine, UpdateStateMachine, Made, TypeOK
  <2>2. \A q \in Req : req'[q].pc = "ready" => req[q].pc = "ready"
    BY <1>7, GotoMoves DEF CreateStateMachine, UpdateStateMachine, TypeOK
  <2>3. \A q \in Req : Made(req'[q].pc) \subseteq group'
    BY <1>7, GotoMoves DEF CreateStateMachine, UpdateStateMachine, TypeOK, Made
  <2> QED
    BY <1>7, <2>1, <2>2, <2>3
       DEF CreateStateMachine, UpdateStateMachine, LoggedIsSubscribed, ReadyIsLogged
<1>8. ASSUME NEW r \in Req, StoreUpdated(r)
      PROVE  P'
  <2>1. sm = "logged"
    BY <1>8 DEF StoreUpdated
  <2> QED
    BY <1>8, <2>1, GotoMoves DEF StoreUpdated, TypeOK, Made, LoggedIsSubscribed, ReadyIsLogged
<1>9. ASSUME NEW r \in Req, Abandon(r)
      PROVE  P'
  BY <1>9, GotoMoves DEF Abandon, TypeOK, Made, LoggedIsSubscribed, ReadyIsLogged
<1>10. ASSUME NEW p \in Process, Restart(p) \/ Evict(p)
       PROVE  P'
  <2>1. \A r \in Req : req'[r].pc = req[r].pc \/ req'[r].pc = "idle"
    BY <1>10 DEF Restart, Evict, TypeOK
  <2>2. sm' = sm /\ group' = group
    BY <1>10 DEF Restart, Evict
  <2>3. \A r \in Req : Made(req'[r].pc) \subseteq group'
    BY <2>1, <2>2 DEF Made
  <2>4. ReadyIsLogged' /\ LoggedIsSubscribed'
    BY <2>1, <2>2 DEF LoggedIsSubscribed, ReadyIsLogged
  <2>5. \A q \in Process : cache'[q] = "logged" \/ updated'[q] => sm' = "logged"
    BY <1>10 DEF Restart, Evict, TypeOK
  <2>6. \A r \in Req : req'[r].pc = "sleep" => sm' = "logged"
    BY <2>1, <2>2
  <2> QED
    BY <2>3, <2>4, <2>5, <2>6
<1>11. CASE UNCHANGED vars
  BY <1>1, <1>11 DEF vars, Made, LoggedIsSubscribed, ReadyIsLogged
<1> QED
  BY <1>1, <1>4, <1>5, <1>6, <1>7, <1>8, <1>9, <1>10, <1>11 DEF Next, Continue

\* The invariant always holds.
THEOREM InvHolds == Spec => []Inv
<1>1. Init => Inv
  BY DEF Init, Inv, TypeOK, StateMachine, Request, GroupParts, Made, LoggedIsSubscribed,
         ReadyIsLogged
<1> QED
  BY <1>1, InvIsKept, PTL DEF Spec

\* Whatever logs, logs to a log group that is complete and subscribed.
THEOREM LoggedIsAlwaysSubscribed == Spec => []LoggedIsSubscribed
<1>1. Inv => LoggedIsSubscribed
  BY DEF Inv
<1> QED
  BY <1>1, InvHolds, PTL

\* No execution is started of a state machine that the consumer cannot hear,
\* although callers act on cached answers.
THEOREM ReadyIsAlwaysLogged == Spec => []ReadyIsLogged
<1>1. Inv => ReadyIsLogged
  BY DEF Inv
<1> QED
  BY <1>1, InvHolds, PTL
=============================================================================
