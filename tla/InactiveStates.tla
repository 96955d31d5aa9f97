---------------------------- MODULE InactiveStates ----------------------------
(***************************************************************************)
(* resources.RemoveInactiveStates, which prunes the state machine of a new *)
(* definition or of a retry that starts in the middle.  The code ranges    *)
(* over a Go map and deletes from it on the way: the order is anything, so *)
(* one visit of a state is one step here.  The machines of Parallel        *)
(* branches and Map iterators are pruned afterwards in the same way, each  *)
(* on its own.                                                             *)
(***************************************************************************)
EXTENDS Naturals, FiniteSets

CONSTANTS Names,     \* names of states
          NoState,   \* the empty string
          StartAt,   \* SLStateMachine.StartAt
          Machines   \* the state machines that are looked at

(***************************************************************************)
(* A state is a step (Pass, Task, Wait, Parallel, Map), a choice or a stop *)
(* (Succeed, Fail).  next is Next, or Default of a choice; others are the  *)
(* targets of the catchers of a step and of the choices of a choice.       *)
(***************************************************************************)
State == [type : {"step", "choice", "stop"}, end : BOOLEAN,
          next : Names \cup {NoState}, others : SUBSET Names]

ASSUME MachinesAssumption ==
    /\ NoState \notin Names
    /\ \A m \in Machines : DOMAIN m \subseteq Names /\ m \in [DOMAIN m -> State]

VARIABLES machine,   \* what each state says, as it was given
          states,    \* the states that are left
          pass,      \* the states that the range statement has yet to visit
          clean,     \* everyStateReachable
          pc         \* "start", "prune", "validate", "done" or "error"

vars == <<machine, states, pass, clean, pc>>

Init ==
    /\ machine \in Machines
    /\ states = DOMAIN machine
    /\ pass = {}
    /\ clean = TRUE
    /\ pc = "start"

\* Where a state may go to.
Targets(s) ==
    IF s.type = "stop" THEN {} ELSE ({s.next} \cup s.others) \ {NoState}

\* Some state of S has a transition into n.
HasTransitionInto(n, S) == \E m \in S : n \in Targets(machine[m])

\* Mutant: catchers and choices are forgotten.
ReachableByNext(n) == n = StartAt \/ \E m \in states : n = machine[m].next

\* reachable: the start, or a state with a transition into it, be it its own.
Reachable(n) == n = StartAt \/ HasTransitionInto(n, states)

\* hasValidTransitions.  The targets of catchers are not looked at.
HasValidTransitions(s) ==
    /\ ~(s.end /\ s.next # NoState /\ s.type # "choice")
    /\ s.type = "step" => s.end \/ s.next # NoState
    /\ ~s.end /\ s.type = "step" => s.next \in states
    /\ ~s.end /\ s.type = "choice" => s.others \cup ({s.next} \ {NoState}) \subseteq states
-----------------------------------------------------------------------------
CheckStartAt ==
    /\ pc = "start"
    /\ IF StartAt \in states
       THEN pc' = "prune" /\ pass' = states
       ELSE pc' = "error" /\ UNCHANGED pass
    /\ UNCHANGED <<machine, states, clean>>

Visit(n) ==
    /\ pc = "prune"
    /\ n \in pass
    /\ pass' = pass \ {n}
    /\ IF Reachable(n)
       THEN UNCHANGED <<states, clean>>
       ELSE states' = states \ {n} /\ clean' = FALSE
    /\ UNCHANGED <<machine, pc>>

\* Mutant: one pass is enough.
EndPassOnce ==
    /\ pc = "prune"
    /\ pass = {}
    /\ pc' = "validate"
    /\ UNCHANGED <<machine, states, pass, clean>>

\* Mutant: everyStateReachable is set outside of the loop.
EndPassNoReset ==
    /\ pc = "prune"
    /\ pass = {}
    /\ IF clean THEN pc' = "validate" /\ UNCHANGED pass
                ELSE pass' = states /\ UNCHANGED pc
    /\ UNCHANGED <<machine, states, clean>>

EndPass ==
    /\ pc = "prune"
    /\ pass = {}
    /\ IF clean
       THEN pc' = "validate" /\ UNCHANGED <<pass, clean>>
       ELSE pass' = states /\ clean' = TRUE /\ UNCHANGED pc
    /\ UNCHANGED <<machine, states>>

Validate ==
    /\ pc = "validate"
    /\ pc' = IF \A n \in states : HasValidTransitions(machine[n]) THEN "done" ELSE "error"
    /\ UNCHANGED <<machine, states, pass, clean>>

Next == CheckStartAt \/ (\E n \in Names : Visit(n)) \/ EndPass \/ Validate

Spec == Init /\ [][Next]_vars
FairSpec == Spec /\ WF_vars(Next)
-----------------------------------------------------------------------------
(***************************************************************************)
(* Properties.                                                             *)
(***************************************************************************)

\* Every variable has its type, and only states that were there are left.
TypeOK ==
    /\ DOMAIN machine \subseteq Names
    /\ machine \in [DOMAIN machine -> State]
    /\ states \subseteq DOMAIN machine
    /\ pass \subseteq states
    /\ clean \in BOOLEAN
    /\ pc \in {"start", "prune", "validate", "done", "error"}

\* No transition of a state in S leaves S for another state of the machine.
Closed(S) == \A n \in S : Targets(machine[n]) \cap DOMAIN machine \subseteq S

\* The states that an execution can get to: what every closed set with the
\* start in it contains.
FromStart ==
    {n \in DOMAIN machine :
        \A S \in SUBSET DOMAIN machine : StartAt \in S /\ Closed(S) => n \in S}

\* RemoveInactiveStates never takes away a state that an execution can get to,
\* at no moment and in no order of the visits.
ReachableIsKept == StartAt \in DOMAIN machine => FromStart \subseteq states

\* Every state of S is the start or has a transition into it from S.
Supported(S) == \A n \in S : n = StartAt \/ HasTransitionInto(n, S)

\* The largest such set.  It contains what the start leads to, and cycles that
\* it does not lead to.
Kept == UNION {S \in SUBSET DOMAIN machine : Supported(S)}

\* The outcome does not depend on the order in which Go ranges over the map.
\* It is not what the comment on RemoveInactiveStates promises: a state that
\* goes to itself, or states that go to each other, are kept although nothing
\* leads to them from StartAt.
OrderDoesNotMatter == pc \in {"validate", "done"} => states = Kept

\* The loop ends.
Terminates == <>(pc \in {"done", "error"})
-----------------------------------------------------------------------------
(***************************************************************************)
(* The inductive invariant: a visit removes no target of a state that is   *)
(* left and no supported set, and while a pass is clean what it has        *)
(* visited is supported.                                                   *)
(***************************************************************************)
Inv ==
    /\ TypeOK
    /\ Closed(states)
    /\ \A S \in SUBSET DOMAIN machine : Supported(S) => S \subseteq states
    /\ StartAt \in DOMAIN machine => StartAt \in states
    /\ pc = "prune" /\ clean => \A n \in states \ pass : Reachable(n)
    /\ pc \in {"validate", "done"} => \A n \in states : Reachable(n)
=============================================================================
