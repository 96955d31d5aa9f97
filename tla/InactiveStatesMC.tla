--------------------------- MODULE InactiveStatesMC ---------------------------
(***************************************************************************)
(* InactiveStates for TLC: all machines over Names in which a state has at *)
(* most one catcher or choice.  Those without a start, or with a step that *)
(* neither ends nor goes on, are not valid.                                *)
(***************************************************************************)
EXTENDS InactiveStates

AtMostOne == {{}} \cup {{n} : n \in Names}

Steps ==
    [type : {"step"}, end : {FALSE}, next : Names, others : AtMostOne] \cup
    [type : {"step"}, end : {TRUE}, next : {NoState}, others : AtMostOne]
BadSteps == [type : {"step"}, end : {FALSE}, next : {NoState}, others : {{}}]
Choices == [type : {"choice"}, end : {FALSE}, next : Names \cup {NoState},
            others : AtMostOne \ {{}}]
Stops == [type : {"stop"}, end : {FALSE}, next : {NoState}, others : {{}}]

AllMachines == UNION {[S -> Steps \cup BadSteps \cup Choices \cup Stops] : S \in SUBSET Names}

\* "RemoveInactiveStates discards all states not reachable in the graph after
\* the StartAt state": what is left when it returns an execution can get to.
UnreachableIsDiscarded == pc = "done" => states \subseteq FromStart
=============================================================================
