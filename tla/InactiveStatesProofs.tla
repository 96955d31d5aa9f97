------------------------- MODULE InactiveStatesProofs -------------------------
(***************************************************************************)
(* Proofs about InactiveStates, for state machines of any size.            *)
(***************************************************************************)
EXTENDS InactiveStates, TLAPS

\* Removing a state that is not reachable leaves the rest closed, and takes
\* nothing away from a supported set.
LEMMA RemoveUnreachable ==
    ASSUME TypeOK, Closed(states), NEW n \in states, ~Reachable(n)
    PROVE  /\ Closed(states \ {n})
           /\ \A S \in SUBSET DOMAIN machine :
                 Supported(S) /\ S \subseteq states => S \subseteq states \ {n}
           /\ n # StartAt
<1>1. n # StartAt /\ ~HasTransitionInto(n, states)
  BY DEF Reachable
<1>2. Closed(states \ {n})
  BY <1>1 DEF Closed, HasTransitionInto
<1>3. ASSUME NEW S \in SUBSET DOMAIN machine, Supported(S), S \subseteq states
      PROVE  S \subseteq states \ {n}
  BY <1>1, <1>3 DEF Supported, HasTransitionInto
<1> QED
  BY <1>1, <1>2, <1>3

\* The invariant holds before the first pass.
LEMMA InitInv == Init => Inv
<1> SUFFICES ASSUME Init PROVE Inv
  OBVIOUS
<1>1. TypeOK
  BY MachinesAssumption DEF Init, TypeOK
<1>2. Closed(states)
  BY DEF Init, Closed
<1> QED
  BY <1>1, <1>2 DEF Init, Inv

LEMMA VisitInv ==
    ASSUME Inv, NEW n \in Names, Visit(n)
    PROVE  Inv'
<1> USE DEF Visit
<1>1. TypeOK /\ Closed(states) /\ n \in states /\ pc = "prune" /\ machine' = machine
  BY DEF Inv, TypeOK
<1>2. CASE Reachable(n)
  <2>1. states' = states /\ clean' = clean /\ pc' = pc /\ pass' = pass \ {n}
    BY <1>2
  <2>2. TypeOK'
    BY <1>1, <2>1 DEF TypeOK
  <2>3. \A m : Reachable(m)' <=> Reachable(m)
    BY <1>1, <2>1 DEF Reachable, HasTransitionInto
  <2>4. clean => \A m \in states' \ pass' : Reachable(m)
    BY <1>1, <1>2, <2>1 DEF Inv
  <2> QED
    BY <1>1, <2>1, <2>2, <2>3, <2>4 DEF Inv, Closed, Supported, HasTransitionInto
<1>3. CASE ~Reachable(n)
  <2>1. states' = states \ {n} /\ clean' = FALSE /\ pc' = pc /\ pass' = pass \ {n}
    BY <1>3
  <2>2. /\ Closed(states \ {n})
        /\ \A S \in SUBSET DOMAIN machine :
              Supported(S) /\ S \subseteq states => S \subseteq states \ {n}
        /\ n # StartAt
    BY <1>1, <1>3, RemoveUnreachable
  <2>3. TypeOK'
    BY <1>1, <2>1 DEF TypeOK
  <2>4. Closed(states)'
    BY <1>1, <2>1, <2>2 DEF Closed
  <2>5. \A S \in SUBSET DOMAIN machine' : Supported(S)' => S \subseteq states'
    BY <1>1, <2>1, <2>2 DEF Inv, Supported, HasTransitionInto
  <2> QED
    BY <1>1, <2>1, <2>2, <2>3, <2>4, <2>5 DEF Inv
<1> QED
  BY <1>2, <1>3

\* Every step keeps the invariant.
LEMMA NextInv == Inv /\ [Next]_vars => Inv'
<1> SUFFICES ASSUME Inv, [Next]_vars PROVE Inv'
  OBVIOUS
<1> USE DEF Closed, Supported, HasTransitionInto, Reachable
<1>1. CASE CheckStartAt
  <2>1. machine' = machine /\ states' = states /\ clean' = clean
    BY <1>1 DEF CheckStartAt
  <2>2. \/ pc' = "prune" /\ pass' = states
        \/ pc' = "error" /\ pass' = pass
    BY <1>1 DEF CheckStartAt
  <2>3. TypeOK'
    BY <2>1, <2>2 DEF Inv, TypeOK
  <2>4. pc' = "prune" => states' \ pass' = {}
    BY <2>1, <2>2
  <2> QED
    BY <2>1, <2>2, <2>3, <2>4 DEF Inv
<1>2. ASSUME NEW n \in Names, Visit(n) PROVE Inv'
  BY <1>2, VisitInv
<1>3. CASE EndPass
  <2>1. machine' = machine /\ states' = states /\ pc = "prune" /\ pass = {}
    BY <1>3 DEF EndPass
  <2>2. \/ clean /\ pc' = "validate" /\ pass' = pass /\ clean' = clean
        \/ pass' = states /\ clean' = TRUE /\ pc' = pc
    BY <1>3 DEF EndPass
  <2>3. TypeOK'
    BY <2>1, <2>2 DEF Inv, TypeOK
  <2>4. pc' = "prune" => states' \ pass' = {}
    BY <2>1, <2>2
  <2>5. pc' = "validate" => \A n \in states : Reachable(n)
    BY <2>1, <2>2 DEF Inv
  <2>6. pc' \in {"prune", "validate"}
    BY <2>1, <2>2
  <2> QED
    BY <2>1, <2>3, <2>4, <2>5, <2>6 DEF Inv
<1>4. CASE Validate
  BY <1>4 DEF Validate, Inv, TypeOK
<1>5. CASE UNCHANGED vars
  BY <1>5 DEF vars, Inv, TypeOK
<1> QED
  BY <1>1, <1>2, <1>3, <1>4, <1>5 DEF Next

\* What is left is closed under transitions and contains every supported set.
THEOREM InvHolds == Spec => []Inv
BY InitInv, NextInv, PTL DEF Spec

\* RemoveInactiveStates keeps every state that an execution can get to, in
\* every order of the visits and for machines of any size.
THEOREM ReachableIsAlwaysKept == Spec => []ReachableIsKept
<1>1. Inv => ReachableIsKept
  <2> SUFFICES ASSUME Inv, StartAt \in DOMAIN machine, NEW n \in FromStart
               PROVE  n \in states
    BY DEF ReachableIsKept
  <2>1. states \in SUBSET DOMAIN machine /\ StartAt \in states /\ Closed(states)
    BY DEF Inv, TypeOK
  <2> QED
    BY <2>1 DEF FromStart
<1> QED
  BY <1>1, InvHolds, PTL

\* The states that RemoveInactiveStates leaves are the same in every order of
\* the visits.
THEOREM OrderNeverMatters == Spec => []OrderDoesNotMatter
<1>1. Inv => OrderDoesNotMatter
  <2> SUFFICES ASSUME Inv, pc \in {"validate", "done"} PROVE states = Kept
    BY DEF OrderDoesNotMatter
  <2>1. states \in SUBSET DOMAIN machine
    BY DEF Inv, TypeOK
  <2>2. Supported(states)
    BY DEF Inv, Supported, Reachable
  <2>3. states \subseteq Kept
    BY <2>1, <2>2 DEF Kept
  <2>4. Kept \subseteq states
    BY DEF Kept, Inv
  <2> QED
    BY <2>3, <2>4
<1> QED
  BY <1>1, InvHolds, PTL
=============================================================================
