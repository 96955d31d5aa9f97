-------------------------------- MODULE Naming --------------------------------
(***************************************************************************)
(* The names of state machines and of embedded workflows, and how they are *)
(* taken apart again.  A string is a sequence of characters; of those that *)
(* SFN does not allow in a name ":" stands for all.                        *)
(***************************************************************************)
EXTENDS Integers, FiniteSetsExt, SequencesExt

CONSTANTS Char,       \* the characters
          MaxLength   \* the length that SFN allows for an execution's name

ASSUME NamingAssumption ==
    /\ {"-", ":", "0", "1"} \subseteq Char
    /\ MaxLength \in Nat \ {0}

String == Seq(Char)

Dashes == <<"-", "-">>

\* A version in decimal; small ones are all we need.
Decimal(version) ==
    CASE version = -1 -> <<"-", "1">>
      [] version = 0  -> <<"0">>
      [] version = 1  -> <<"1">>

\* StateMachineName: what SFN does not allow becomes a dash.
StateMachineName(name, version, namespace, startAt) ==
    LET joined == namespace \o Dashes \o name \o Dashes \o Decimal(version)
                      \o Dashes \o startAt
    IN  [i \in 1 .. Len(joined) |-> IF joined[i] = ":" THEN "-" ELSE joined[i]]

(***************************************************************************)
(* Where strings.Split(s, "--") cuts: from the left and without overlaps,  *)
(* so a run of dashes is taken in pairs from where it begins.              *)
(***************************************************************************)
Pair(s, j) == s[j] = "-" /\ s[j + 1] = "-"

Cuts(s) ==
    {j \in 1 .. Len(s) - 1 :
        /\ Pair(s, j)
        /\ \E b \in 1 .. j : /\ b = 1 \/ s[b - 1] # "-"
                             /\ \A k \in b .. j : s[k] = "-"
                             /\ (j - b) % 2 = 0}

Split(s) ==
    LET cuts == Cuts(s)
        n == Cardinality(cuts)
        cut(k) == CHOOSE j \in cuts : Cardinality({i \in cuts : i <= j}) = k
    IN  [k \in 1 .. n + 1 |-> SubSeq(s, IF k = 1 THEN 1 ELSE cut(k - 1) + 2,
                                        IF k = n + 1 THEN Len(s) ELSE cut(k) - 1)]

\* strconv.Atoi accepts the part.
IsInt(part) ==
    LET digits == IF part # <<>> /\ Head(part) \in {"-", "+"} THEN Tail(part) ELSE part
    IN  /\ digits # <<>>
        /\ ToSet(digits) \subseteq {"0", "1", "2", "3", "4", "5", "6", "7", "8", "9"}

\* StateMachineNameParts fails unless there are four parts with the version in
\* its place.  The embedded workflow manager uses the name of the definition.
HasNameParts(smName) ==
    LET parts == Split(smName) IN Len(parts) = 4 /\ IsInt(parts[3])
WDName(smName) == Split(smName)[2]

\* Mutant: nothing is cut off.
WorkflowIDUncut(smName, suffix) == smName \o Dashes \o suffix

\* workflowID: the end of what is too long is cut off.
WorkflowID(smName, suffix) ==
    LET id == smName \o Dashes \o suffix
    IN  SubSeq(id, 1, IF Len(id) > MaxLength THEN MaxLength ELSE Len(id))

\* parseWorkflowID: the name of the state machine is all but the last part.
HasIDParts(id) == Len(Split(id)) >= 2
SMName(id) ==
    SubSeq(id, 1, Len(id) - Len(Last(Split(id))) - 2)

(***************************************************************************)
(* Which names survive the round trip.  This is not in the code: it is the *)
(* condition that the properties need.                                     *)
(***************************************************************************)
Whole(part) == \A j \in 1 .. Len(part) - 1 : ~Pair(part, j)

Clean(part) ==
    /\ part # <<>>
    /\ ":" \notin ToSet(part)
    /\ Last(part) # "-"
    /\ Whole(part)

Fits(smName, suffix) == Len(smName) + 2 + Len(suffix) <= MaxLength
=============================================================================
