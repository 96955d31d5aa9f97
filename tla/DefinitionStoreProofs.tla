------------------------- MODULE DefinitionStoreProofs -------------------------
(***************************************************************************)
(* Proofs about DefinitionStore and its history, for every set of          *)
(* requests, every bound on the versions and every set of faults.          *)
(***************************************************************************)
EXTENDS DefinitionHistory, Sequences, TLAPS

USE DefinitionStoreAssumption

-----------------------------------------------------------------------------
(***************************************************************************)
(* The inductive invariant.                                                *)
(***************************************************************************)

\* The invariant holds of empty tables.
LEMMA InitInv == Init => Inv
<1> SUFFICES ASSUME Init PROVE Inv
  OBVIOUS
<1>1. TypeOK
  BY DEF Init, TypeOK, Request, IdleRequest
<1>2. Contiguous
  <2>1. DOMAIN versions = 0 .. 0 - 1
    BY DEF Init
  <2> QED
    BY <2>1 DEF Contiguous
<1>3. RequestsSaved
  BY DEF Init, RequestsSaved, IdleRequest
<1> QED
  BY <1>1, <1>2, <1>3 DEF Inv, Init

\* The step keeps the invariant, and keeps OneUnpublished where that holds.
InvKept == Inv' /\ (OneUnpublished => OneUnpublished')

\* A step that leaves both tables and the answers alone, and takes request r
\* to a state that the invariant allows, keeps the invariant.
LEMMA RequestStep ==
    ASSUME Inv, NEW r \in Req, NEW state \in Request, Goto(r, state),
           UNCHANGED <<versions, latest, acked>>,
           state.pc \in {"idle", "version"},
           state.pc = "version" =>
              /\ state.item \in Item
              /\ state.item.version <= MaxVersion
              /\ state.item.version # 0 => state.item.version - 1 \in DOMAIN versions
              /\ state.item.version <= Published
    PROVE  InvKept
<1> USE DEF Goto
<1>1. /\ req' \in [Req -> Request]
      /\ req'[r] = state
      /\ \A q \in Req : q # r => req'[q] = req[q]
  BY DEF Inv, TypeOK
<1>2. TypeOK'
  BY <1>1 DEF Inv, TypeOK
<1>3. Contiguous'
  BY DEF Inv, Contiguous
<1>4. versions' = versions
  OBVIOUS
<1>5. RequestsSaved'
  BY <1>1, <1>4 DEF Inv, RequestsSaved
<1>6. OneUnpublished => OneUnpublished'
  BY <1>1 DEF Inv, OneUnpublished, Published
<1> QED
  BY <1>2, <1>3, <1>4, <1>5, <1>6 DEF Inv, InvKept

\* Ending a request keeps the invariant.
LEMMA ReturnInv ==
    ASSUME Inv, NEW r \in Req, Return(r), UNCHANGED <<versions, latest, acked>>
    PROVE  InvKept
<1>1. IdleRequest \in Request /\ IdleRequest.pc = "idle"
  BY DEF IdleRequest, Request
<1> QED
  BY <1>1, RequestStep DEF Return

\* Published is a number, and the versions below it are saved.
LEMMA PublishedType ==
    ASSUME Inv
    PROVE  /\ Published \in Nat
           /\ \A v \in Nat : v < Published => v \in DOMAIN versions
<1>1. CASE latest = NoItem
  BY <1>1 DEF Published
<1>2. CASE latest # NoItem
  <2>1. latest \in Item /\ latest.version \in DOMAIN versions
    BY <1>2 DEF Inv, Saved
  <2>2. PICK n \in 0 .. MaxVersion + 1 : DOMAIN versions = 0 .. n - 1
    BY DEF Inv, Contiguous
  <2> QED
    BY <1>2, <2>1, <2>2 DEF Published, Item
<1> QED
  BY <1>1, <1>2

LEMMA NewWorkflowDefinitionInv ==
    ASSUME Inv, NEW r \in Req, NewWorkflowDefinition(r)
    PROVE  InvKept
<1>1. PICK c \in Content :
        Goto(r, [pc |-> "version", op |-> "new",
                 item |-> [version |-> 0, def |-> c]])
  BY DEF NewWorkflowDefinition
<1> DEFINE state == [pc |-> "version", op |-> "new",
                     item |-> [version |-> 0, def |-> c]]
<1>2. state \in Request /\ state.item \in Item /\ state.item.version = 0
      /\ state.pc = "version"
  BY DEF Request, Item
<1>3. UNCHANGED <<versions, latest, acked>> /\ Goto(r, state)
  BY <1>1 DEF NewWorkflowDefinition
<1>4. 0 <= Published
  BY PublishedType
<1> HIDE DEF state
<1> QED
  BY <1>2, <1>3, <1>4, RequestStep

LEMMA UpdateWorkflowDefinitionInv ==
    ASSUME Inv, NEW r \in Req, UpdateWorkflowDefinition(r)
    PROVE  InvKept
<1>1. PICK c \in Content :
        Goto(r, [pc |-> "version", op |-> "update",
                 item |-> [version |-> latest.version + 1, def |-> c]])
  BY DEF UpdateWorkflowDefinition
<1> DEFINE state == [pc |-> "version", op |-> "update",
                     item |-> [version |-> latest.version + 1, def |-> c]]
<1>2. /\ latest \in Item /\ latest.version \in DOMAIN versions
      /\ latest.version < MaxVersion /\ Published = latest.version + 1
  BY DEF Inv, Saved, UpdateWorkflowDefinition, Published
<1>3. /\ state \in Request /\ state.item \in Item
      /\ state.item.version = latest.version + 1 /\ state.pc = "version"
  BY <1>2 DEF Request, Item
<1>4. UNCHANGED <<versions, latest, acked>> /\ Goto(r, state)
  BY <1>1 DEF UpdateWorkflowDefinition
<1>5. /\ state.item.version <= MaxVersion
      /\ state.item.version - 1 \in DOMAIN versions
      /\ state.item.version <= Published
  BY <1>2, <1>3 DEF Item
<1> HIDE DEF state
<1> QED
  BY <1>3, <1>4, <1>5, RequestStep

\* A version that a request may save and that is not there yet is the one
\* after all the others.
LEMMA NewIsNext ==
    ASSUME Inv, NEW r \in Req, req[r].pc = "version",
           req[r].item.version \notin DOMAIN versions
    PROVE  /\ req[r].item \in Item
           /\ req[r].item.version \in 0 .. MaxVersion
           /\ DOMAIN versions = 0 .. req[r].item.version - 1
<1>1. PICK n \in 0 .. MaxVersion + 1 : DOMAIN versions = 0 .. n - 1
  BY DEF Inv, Contiguous
<1>2. /\ req[r].item \in Item
      /\ req[r].item.version <= MaxVersion
      /\ req[r].item.version # 0 => req[r].item.version - 1 \in DOMAIN versions
  BY DEF Inv, RequestsSaved
<1>3. req[r].item.version \in Nat
  BY <1>2 DEF Item
<1>4. req[r].item.version = n
  BY <1>1, <1>2, <1>3
<1> QED
  BY <1>1, <1>2, <1>3, <1>4

\* What PutVersion does to the table.
LEMMA PutVersionEffect ==
    ASSUME TypeOK, NEW item \in Item, PutVersion(item),
           item.version \in 0 .. MaxVersion,
           DOMAIN versions = 0 .. item.version - 1
    PROVE  /\ DOMAIN versions' = 0 .. item.version
           /\ versions'[item.version] = item.def
           /\ \A v \in DOMAIN versions : versions'[v] = versions[v]
           /\ versions' \in [DOMAIN versions' -> Content]
BY DEF PutVersion, TypeOK, Item

LEMMA SaveVersionInv ==
    ASSUME Inv, NEW r \in Req, SaveVersion(r)
    PROVE  InvKept
<1>1. CASE req[r].item.version \in DOMAIN versions
  BY <1>1, ReturnInv DEF SaveVersion
<1>2. CASE req[r].item.version \notin DOMAIN versions
  <2> DEFINE item == req[r].item
  <2>1. /\ req[r].pc = "version" /\ PutVersion(item)
        /\ UNCHANGED <<latest, acked>>
        /\ \/ Goto(r, [req[r] EXCEPT !.pc = "latest"])
           \/ "resend" \in Faults /\ Return(r)
    BY <1>2 DEF SaveVersion
  <2>2. /\ item \in Item /\ item.version \in 0 .. MaxVersion
        /\ DOMAIN versions = 0 .. item.version - 1
    BY <1>2, <2>1, NewIsNext
  <2>3. /\ DOMAIN versions' = 0 .. item.version
        /\ versions'[item.version] = item.def
        /\ \A v \in DOMAIN versions : versions'[v] = versions[v]
        /\ versions' \in [DOMAIN versions' -> Content]
    BY <2>1, <2>2, PutVersionEffect DEF Inv
  <2>4. /\ req' \in [Req -> Request]
        /\ \A q \in Req : q # r => req'[q] = req[q]
        /\ \/ req'[r] = [req[r] EXCEPT !.pc = "latest"]
           \/ "resend" \in Faults /\ req'[r] = IdleRequest
    BY <2>1 DEF Inv, TypeOK, Goto, Return, Request, IdleRequest
  <2>5. TypeOK'
    BY <2>1, <2>2, <2>3, <2>4 DEF Inv, TypeOK
  <2>6. Contiguous'
    <3>1. DOMAIN versions' = 0 .. (item.version + 1) - 1
          /\ item.version + 1 \in 0 .. MaxVersion + 1
      BY <2>2, <2>3
    <3> QED
      BY <3>1 DEF Contiguous
  <2>7. \A x : Saved(x, versions) => Saved(x, versions')
    BY <2>2, <2>3 DEF Saved
  <2>8. Saved(item, versions')
    BY <2>2, <2>3 DEF Saved
  <2>9. RequestsSaved'
    <3> SUFFICES ASSUME NEW q \in Req
                 PROVE  /\ req'[q].pc = "version"
                             => /\ req'[q].item \in Item
                                /\ req'[q].item.version <= MaxVersion
                                /\ req'[q].item.version # 0
                                      => req'[q].item.version - 1 \in DOMAIN versions'
                        /\ req'[q].pc \in {"latest", "get"} => Saved(req'[q].item, versions')
      BY DEF RequestsSaved
    <3>1. CASE q # r
      <4>1. DOMAIN versions \subseteq DOMAIN versions'
        BY <2>2, <2>3
      <4> QED
        BY <3>1, <4>1, <2>4, <2>7 DEF Inv, RequestsSaved
    <3>2. CASE q = r
      <4>1. (req'[r].item = item /\ req'[r].pc = "latest") \/ req'[r].pc = "idle"
        BY <2>4 DEF Inv, TypeOK, Request, IdleRequest
      <4> QED
        BY <3>2, <4>1, <2>8
    <3> QED
      BY <3>1, <3>2
  <2>10. OneUnpublished => OneUnpublished'
    <3> SUFFICES ASSUME OneUnpublished PROVE OneUnpublished'
      OBVIOUS
    <3>1. Published \in Nat /\ Published' = Published
      BY <2>1, PublishedType DEF Published
    <3>2. (req'[r].pc = "latest" /\ req'[r].item = item) \/ req'[r].pc = "idle"
      BY <2>4 DEF Inv, TypeOK, Request, IdleRequest
    <3>3. item.version = Published
      <4>1. item.version <= Published
        BY <2>1, <3>1 DEF OneUnpublished
      <4>2. \A v \in Nat : v < Published => v \in DOMAIN versions
        BY PublishedType
      <4> QED
        BY <1>2, <2>2, <3>1, <4>1, <4>2
    <3>4. \A q \in Req : q # r => req[q].pc # "latest"
      BY <1>2, <3>1, <3>3 DEF OneUnpublished, Inv, RequestsSaved, Saved
    <3>5. Published + 1 \notin DOMAIN versions'
      BY <2>3, <2>2, <3>1, <3>3
    <3> QED
      BY <2>1, <2>4, <3>1, <3>2, <3>3, <3>4, <3>5 DEF OneUnpublished
  <2> QED
    BY <2>1, <2>5, <2>6, <2>7, <2>9, <2>10 DEF Inv, InvKept
<1> QED
  BY <1>1, <1>2

\* Making the item of a request the latest definition moves Published just past it.
LEMMA LatestEffect ==
    ASSUME Inv, NEW r \in Req, req[r].pc = "latest", latest' = req[r].item
    PROVE  /\ Saved(req[r].item, versions)
           /\ req[r].item # NoItem
           /\ latest' \in Item /\ latest' # NoItem
           /\ Published' = req[r].item.version + 1
           /\ req[r].item.version \in Nat
           /\ OneUnpublished => Published' = Published + 1
<1>1. Saved(req[r].item, versions)
  BY DEF Inv, RequestsSaved
<1>2. req[r].item \in Item /\ req[r].item # NoItem
  BY <1>1 DEF Saved
<1>3. req[r].item.version \in Nat
  BY <1>2 DEF Item
<1>4. Published' = req[r].item.version + 1
  BY <1>2 DEF Published
<1>5. OneUnpublished => req[r].item.version = Published
  BY DEF OneUnpublished
<1> QED
  BY <1>1, <1>2, <1>3, <1>4, <1>5

LEMMA SaveLatestInv ==
    ASSUME Inv, NEW r \in Req, SaveLatest(r)
    PROVE  InvKept
<1> DEFINE item == req[r].item
<1>1. /\ req[r].pc = "latest" /\ latest' = item /\ versions' = versions
      /\ \/ req[r].op = "new" /\ Return(r) /\ acked' = acked \cup {item}
         \/ Goto(r, [req[r] EXCEPT !.pc = "get"]) /\ acked' = acked
  BY DEF SaveLatest
<1>2. /\ Saved(item, versions) /\ item # NoItem /\ item \in Item
      /\ Published' = item.version + 1 /\ item.version \in Nat
      /\ OneUnpublished => Published' = Published + 1
  BY <1>1, LatestEffect DEF Saved
<1>3. /\ req' \in [Req -> Request]
      /\ \A q \in Req : q # r => req'[q] = req[q]
      /\ \/ req'[r].pc = "get" /\ req'[r].item = item
         \/ req'[r].pc = "idle"
  BY <1>1 DEF Inv, TypeOK, Goto, Return, Request, IdleRequest
<1>4. acked' \subseteq acked \cup {item}
  BY <1>1
<1>5. TypeOK'
  BY <1>1, <1>2, <1>3, <1>4 DEF Inv, TypeOK
<1>6. Contiguous'
  BY <1>1 DEF Inv, Contiguous
<1>7. RequestsSaved'
  <2>1. \A q \in Req : q # r => req'[q] = req[q]
    BY <1>3
  <2> QED
    BY <1>1, <1>2, <1>3, <2>1 DEF Inv, RequestsSaved
<1>8. OneUnpublished => OneUnpublished'
  <2> SUFFICES ASSUME OneUnpublished PROVE OneUnpublished'
    OBVIOUS
  <2>1. Published \in Nat /\ Published' = Published + 1
    BY <1>2, PublishedType DEF Inv
  <2>2. Published' + 1 \notin DOMAIN versions
    <3>1. PICK n \in 0 .. MaxVersion + 1 : DOMAIN versions = 0 .. n - 1
      BY DEF Inv, Contiguous
    <3> QED
      BY <2>1, <3>1 DEF OneUnpublished
  <2>3. \A q \in Req : q # r => req[q].pc # "latest"
    BY <1>1, <2>1 DEF OneUnpublished
  <2>4. \A q \in Req :
           /\ req'[q].pc = "version" => req'[q].item.version <= Published'
           /\ req'[q].pc # "latest"
           /\ req'[q].pc = "get" => req'[q].item.version < Published'
    <3> SUFFICES ASSUME NEW q \in Req
                 PROVE  /\ req'[q].pc = "version" => req'[q].item.version <= Published'
                        /\ req'[q].pc # "latest"
                        /\ req'[q].pc = "get" => req'[q].item.version < Published'
      OBVIOUS
    <3>1. CASE q = r
      BY <1>2, <1>3, <3>1
    <3>2. CASE q # r
      <4>1. /\ req[q].pc = "version" => req[q].item \in Item /\ req[q].item.version <= Published
            /\ req[q].pc = "get" => req[q].item \in Item /\ req[q].item.version < Published
        BY <2>1 DEF OneUnpublished, Inv, RequestsSaved, Saved
      <4>2. req[q].item \in Item => req[q].item.version \in Nat
        BY DEF Item
      <4> QED
        BY <1>3, <2>1, <2>3, <3>2, <4>1, <4>2
    <3> QED
      BY <3>1, <3>2
  <2>5. \A x \in acked' : x.version < Published'
    <3> SUFFICES ASSUME NEW x \in acked' PROVE x.version < Published'
      OBVIOUS
    <3>1. CASE x = item
      BY <1>2, <3>1
    <3>2. CASE x \in acked
      <4>1. x \in Item /\ x.version < Published
        BY <2>1, <3>2 DEF OneUnpublished, Inv, Saved
      <4>2. x.version \in Nat
        BY <4>1 DEF Item
      <4> QED
        BY <2>1, <4>1, <4>2
    <3> QED
      BY <1>4, <3>1, <3>2
  <2> QED
    BY <1>1, <2>2, <2>4, <2>5 DEF OneUnpublished
<1>9. latest' # NoItem => Saved(latest', versions')
  BY <1>1, <1>2
<1>10. \A x \in acked' : Saved(x, versions')
  BY <1>1, <1>2, <1>4 DEF Inv
<1> QED
  BY <1>5, <1>6, <1>7, <1>8, <1>9, <1>10 DEF Inv, InvKept

LEMMA ResendLatestInv ==
    ASSUME Inv, NEW r \in Req, ResendLatest(r)
    PROVE  Inv'
<1>1. /\ "resend" \in Faults /\ req[r].pc = "latest" /\ latest' = req[r].item
      /\ UNCHANGED <<versions, req, acked>>
  BY DEF ResendLatest
<1>2. Saved(req[r].item, versions) /\ latest' \in Item
  BY <1>1, LatestEffect
<1>3. TypeOK'
  BY <1>1, <1>2 DEF Inv, TypeOK
<1> QED
  BY <1>1, <1>2, <1>3 DEF Inv, Contiguous, RequestsSaved

LEMMA GetWorkflowDefinitionInv ==
    ASSUME Inv, NEW r \in Req, GetWorkflowDefinition(r)
    PROVE  InvKept
<1> DEFINE item == req[r].item
<1>1. /\ req[r].pc = "get" /\ Return(r) /\ UNCHANGED <<versions, latest>>
      /\ acked' = acked \cup {[version |-> item.version, def |-> versions[item.version]]}
  BY DEF GetWorkflowDefinition
<1>2. Saved(item, versions)
  BY <1>1 DEF Inv, RequestsSaved
<1>3. [version |-> item.version, def |-> versions[item.version]] = item
  BY <1>2 DEF Saved, Item
<1>4. acked' = acked \cup {item}
  BY <1>1, <1>3
<1>5. /\ req' \in [Req -> Request]
      /\ \A q \in Req : q # r => req'[q] = req[q]
      /\ req'[r].pc = "idle"
  BY <1>1 DEF Inv, TypeOK, Goto, Return, Request, IdleRequest
<1>6. TypeOK'
  BY <1>1, <1>2, <1>4, <1>5 DEF Inv, TypeOK, Saved
<1>7. Contiguous'
  BY <1>1 DEF Inv, Contiguous
<1>8. RequestsSaved'
  BY <1>1, <1>5 DEF Inv, RequestsSaved
<1>9. OneUnpublished => OneUnpublished'
  <2>1. Published' = Published
    BY <1>1 DEF Published
  <2> QED
    BY <1>1, <1>4, <1>5, <2>1 DEF Inv, OneUnpublished
<1> QED
  BY <1>1, <1>2, <1>4, <1>6, <1>7, <1>8, <1>9 DEF Inv, InvKept

\* A step of a request, other than a second put that is sent again.
Step(r) == \/ NewWorkflowDefinition(r) \/ UpdateWorkflowDefinition(r)
           \/ Continue(r) \/ Abandon(r)

LEMMA StepInv ==
    ASSUME Inv, NEW r \in Req, Step(r)
    PROVE  InvKept
<1>1. CASE NewWorkflowDefinition(r)
  BY <1>1, NewWorkflowDefinitionInv
<1>2. CASE UpdateWorkflowDefinition(r)
  BY <1>2, UpdateWorkflowDefinitionInv
<1>3. CASE SaveVersion(r)
  BY <1>3, SaveVersionInv
<1>4. CASE SaveLatest(r)
  BY <1>4, SaveLatestInv
<1>5. CASE GetWorkflowDefinition(r)
  BY <1>5, GetWorkflowDefinitionInv
<1>6. CASE Abandon(r)
  BY <1>6, ReturnInv DEF Abandon
<1> QED
  BY <1>1, <1>2, <1>3, <1>4, <1>5, <1>6 DEF Step, Continue

\* A stutter keeps the invariant.
LEMMA StutterInv ==
    ASSUME Inv, UNCHANGED vars
    PROVE  InvKept
<1>1. /\ versions' = versions /\ latest' = latest /\ req' = req /\ acked' = acked
  BY DEF vars
<1>2. Published' = Published
  BY <1>1 DEF Published
<1>3. OneUnpublished => OneUnpublished'
  BY <1>1, <1>2 DEF OneUnpublished
<1> QED
  BY <1>1, <1>3 DEF InvKept, Inv, TypeOK, Contiguous, RequestsSaved

\* Every step keeps the invariant.
LEMMA NextInv == Inv /\ [Next]_vars => Inv'
<1> SUFFICES ASSUME Inv, [Next]_vars PROVE Inv'
  OBVIOUS
<1>1. ASSUME NEW r \in Req, Step(r) PROVE Inv'
  BY <1>1, StepInv DEF InvKept
<1>2. ASSUME NEW r \in Req, ResendLatest(r) PROVE Inv'
  BY <1>2, ResendLatestInv
<1>3. CASE UNCHANGED vars
  BY <1>3, StutterInv DEF InvKept
<1> QED
  BY <1>1, <1>2, <1>3 DEF Next, Step

\* Both tables, every request and every answer are consistent with one log of
\* versions, under every fault.
THEOREM InvHolds == Spec => []Inv
BY InitInv, NextInv, PTL DEF Spec
-----------------------------------------------------------------------------
(***************************************************************************)
(* What follows from it.                                                   *)
(***************************************************************************)

\* The latest definition is always one of the versions and the versions have
\* no gaps, under every fault of SaveWorkflowDefinition's two puts.
THEOREM TablesAlwaysAgree == Spec => []TablesAgree
<1>1. Inv => TablesAgree
  <2> SUFFICES ASSUME Inv PROVE TablesAgree
    OBVIOUS
  <2>1. PICK n \in 0 .. MaxVersion + 1 : DOMAIN versions = 0 .. n - 1
    BY DEF Inv, Contiguous
  <2>2. latest # NoItem => Saved(latest, versions)
    BY DEF Inv
  <2> QED
    BY <2>1, <2>2 DEF TablesAgree, Saved
<1> QED
  BY <1>1, InvHolds, PTL

\* No step overwrites a version, under every fault: the condition of the first
\* put is enough.
THEOREM VersionsNeverChange == Spec => VersionsImmutable
<1> DEFINE Kept == \A v \in DOMAIN versions :
                      v \in DOMAIN versions' /\ versions'[v] = versions[v]
<1>1. Inv /\ [Next]_vars => [Kept]_vars
  <2> SUFFICES ASSUME Inv, [Next]_vars PROVE Kept
    OBVIOUS
  <2>1. CASE versions' = versions
    BY <2>1
  <2>2. ASSUME NEW r \in Req, SaveVersion(r) PROVE Kept
    BY <2>2 DEF SaveVersion, PutVersion
  <2> QED
    BY <2>1, <2>2 DEF Next, Continue, vars, NewWorkflowDefinition,
       UpdateWorkflowDefinition, SaveLatest, GetWorkflowDefinition, ResendLatest, Abandon
<1> QED
  BY <1>1, InvHolds, PTL DEF Spec, VersionsImmutable
-----------------------------------------------------------------------------
(***************************************************************************)
(* Until a second put is sent again.                                       *)
(***************************************************************************)

\* A step with its history is a second put that is sent again, or keeps the
\* history.
LEMMA HistoryStep ==
    ASSUME HistoryNext
    PROVE  \/ \E r \in Req : Step(r) /\ resent' = resent
           \/ \E r \in Req : ResendLatest(r) /\ resent' = TRUE
BY DEF HistoryNext, Step

\* The invariant with its history is inductive.
LEMMA HistoryNextInv == HistoryInv /\ [HistoryNext]_<<vars, resent>> => HistoryInv'
<1> SUFFICES ASSUME HistoryInv, [HistoryNext]_<<vars, resent>> PROVE HistoryInv'
  OBVIOUS
<1>1. Inv /\ resent \in BOOLEAN /\ (~resent => OneUnpublished)
  BY DEF HistoryInv
<1>2. ASSUME NEW r \in Req, Step(r), resent' = resent PROVE HistoryInv'
  BY <1>1, <1>2, StepInv DEF InvKept, HistoryInv
<1>3. ASSUME NEW r \in Req, ResendLatest(r), resent' = TRUE PROVE HistoryInv'
  BY <1>1, <1>3, ResendLatestInv DEF HistoryInv
<1>4. CASE UNCHANGED <<vars, resent>>
  BY <1>1, <1>4, StutterInv DEF InvKept, HistoryInv
<1> QED
  BY <1>2, <1>3, <1>4, HistoryStep

\* Both tables, every request and every answer are consistent with one log of
\* versions, and until a second put is sent again at most the last version is
\* not the latest one, whatever else goes wrong.
THEOREM HistoryInvHolds == HistorySpec => []HistoryInv
<1>1. HistoryInit => HistoryInv
  <2> SUFFICES ASSUME HistoryInit PROVE HistoryInv
    OBVIOUS
  <2>1. Init /\ resent = FALSE
    BY DEF HistoryInit
  <2>2. OneUnpublished
    BY <2>1 DEF Init, OneUnpublished, IdleRequest, Published
  <2> QED
    BY <2>1, <2>2, InitInv DEF HistoryInv
<1> QED
  BY <1>1, HistoryNextInv, PTL DEF HistorySpec

\* What UpdateWorkflowDefinition and NewWorkflowDefinition told a client stays
\* true, whichever requests die half way, until a second put is sent again.
THEOREM AckedIsAlwaysKept == HistorySpec => []KeptUntilResent
<1>1. HistoryInv => KeptUntilResent
  <2> SUFFICES ASSUME Inv, OneUnpublished, NEW item \in acked
               PROVE  /\ item.version \in DOMAIN versions
                      /\ versions[item.version] = item.def
                      /\ latest # NoItem
                      /\ latest.version >= item.version
    BY DEF AckedIsKept, KeptUntilResent, HistoryInv
  <2>1. item \in Item /\ item.version \in DOMAIN versions
        /\ versions[item.version] = item.def
    BY DEF Inv, Saved
  <2>2. item.version \in Nat /\ item.version < Published
    BY <2>1 DEF OneUnpublished, Item
  <2>3. latest \in Item /\ Published = latest.version + 1
    BY <2>2 DEF Published, Inv, TypeOK
  <2>4. latest.version \in Nat
    BY <2>3 DEF Item
  <2> QED
    BY <2>1, <2>2, <2>3, <2>4
<1> QED
  BY <1>1, HistoryInvHolds, PTL
-----------------------------------------------------------------------------
(***************************************************************************)
(* The refinement.                                                         *)
(***************************************************************************)

\* An interval from 0 determines its length.
LEMMA SameInterval ==
    ASSUME NEW m \in Nat, NEW n \in Nat, 0 .. m - 1 = 0 .. n - 1
    PROVE  m = n
<1>1. m < n => m \in 0 .. n - 1 /\ m \notin 0 .. m - 1
  OBVIOUS
<1>2. n < m => n \in 0 .. m - 1 /\ n \notin 0 .. n - 1
  OBVIOUS
<1> QED
  BY <1>1, <1>2

\* When the versions are 0 .. n - 1, the next one is n.
LEMMA NextVersionIs ==
    ASSUME NEW n \in 0 .. MaxVersion + 1, DOMAIN versions = 0 .. n - 1
    PROVE  NextVersion = n
BY SameInterval DEF NextVersion

\* The log is a sequence of contents, as long as there are versions, and it
\* reaches Published or is one entry longer.
LEMMA LogType ==
    ASSUME Inv
    PROVE  /\ NextVersion \in 0 .. MaxVersion + 1
           /\ DOMAIN versions = 0 .. NextVersion - 1
           /\ History \in Seq(Content)
           /\ Len(History) = NextVersion
           /\ Published \in Nat /\ Published <= NextVersion
           /\ OneUnpublished => NextVersion <= Published + 1
<1>1. PICK n \in 0 .. MaxVersion + 1 : DOMAIN versions = 0 .. n - 1
  BY DEF Inv, Contiguous
<1>2. NextVersion = n
  BY <1>1, NextVersionIs
<1>3. \A k \in 1 .. n : versions[k - 1] \in Content
  BY <1>1 DEF Inv, TypeOK
<1>4. History \in [1 .. n -> Content]
  BY <1>2, <1>3 DEF History
<1>5. History \in Seq(Content) /\ Len(History) = n
  BY <1>4
<1>6. Published \in Nat /\ Published <= n
  <2>1. Published \in Nat /\ \A v \in Nat : v < Published => v \in 0 .. n - 1
    BY <1>1, PublishedType
  <2>2. n < Published => n \in 0 .. n - 1
    BY <2>1
  <2> QED
    BY <2>1, <2>2
<1>7. OneUnpublished => n <= Published + 1
  BY <1>1, <1>6 DEF OneUnpublished
<1> QED
  BY <1>1, <1>2, <1>5, <1>6, <1>7

\* SaveVersion adds the version after the latest one to the log, or nothing.
LEMMA SaveVersionAdds ==
    ASSUME Inv, OneUnpublished, NEW r \in Req, SaveVersion(r)
    PROVE  \/ \E c \in Content : /\ Published = Len(History)
                                 /\ History' = Append(History, c)
                                 /\ Published' = Published
           \/ History' = History /\ Published' = Published
<1>1. CASE req[r].item.version \in DOMAIN versions
  BY <1>1 DEF SaveVersion, History, NextVersion, Published
<1>2. CASE req[r].item.version \notin DOMAIN versions
  <2> DEFINE item == req[r].item
             n == item.version
  <2>1. req[r].pc = "version" /\ PutVersion(item) /\ latest' = latest
    BY <1>2 DEF SaveVersion
  <2>2. item \in Item /\ n \in 0 .. MaxVersion /\ DOMAIN versions = 0 .. n - 1
    BY <1>2, <2>1, NewIsNext
  <2>3. /\ DOMAIN versions' = 0 .. n
        /\ versions'[n] = item.def
        /\ \A v \in DOMAIN versions : versions'[v] = versions[v]
    BY <2>1, <2>2, PutVersionEffect DEF Inv
  <2>4. NextVersion = n
    BY <2>2, NextVersionIs
  <2>5. NextVersion' = n + 1
    <3>1. DOMAIN versions' = 0 .. (n + 1) - 1 /\ n + 1 \in 0 .. MaxVersion + 1
      BY <2>2, <2>3
    <3> QED
      BY <3>1, SameInterval DEF NextVersion
  <2>6. History \in Seq(Content) /\ Len(History) = n
    BY <2>4, LogType
  <2>7. History' = Append(History, item.def)
    <3>1. History' = [k \in 1 .. n + 1 |-> versions'[k - 1]]
      BY <2>5 DEF History
    <3>2. \A k \in 1 .. n : versions'[k - 1] = History[k]
      BY <2>2, <2>3, <2>4 DEF History
    <3>3. Append(History, item.def)
            = [k \in 1 .. n + 1 |-> IF k = n + 1 THEN item.def ELSE History[k]]
      BY <2>6, <2>2
    <3>4. \A k \in 1 .. n + 1 :
             versions'[k - 1] = IF k = n + 1 THEN item.def ELSE History[k]
      BY <2>2, <2>3, <3>2
    <3> QED
      BY <3>1, <3>3, <3>4
  <2>8. Published = n
    <3>1. n <= Published
      BY <2>1 DEF OneUnpublished
    <3>2. Published \in Nat /\ Published <= NextVersion
      BY LogType
    <3> QED
      BY <2>2, <2>4, <3>1, <3>2
  <2>9. Published' = Published
    BY <2>1 DEF Published
  <2>10. item.def \in Content
    BY <2>2 DEF Item
  <2> QED
    BY <2>6, <2>7, <2>8, <2>9, <2>10
<1> QED
  BY <1>1, <1>2

\* SaveLatest makes the newest version the latest one.
LEMMA SaveLatestPublishes ==
    ASSUME Inv, OneUnpublished, NEW r \in Req, SaveLatest(r)
    PROVE  Published < Len(History) /\ Published' = Len(History) /\ History' = History
<1>1. req[r].pc = "latest" /\ latest' = req[r].item /\ versions' = versions
  BY DEF SaveLatest
<1>2. Published' = Published + 1 /\ History' = History
  BY <1>1, LatestEffect DEF History, NextVersion
<1>3. /\ Published \in Nat /\ NextVersion \in Nat /\ NextVersion <= Published + 1
      /\ Len(History) = NextVersion /\ DOMAIN versions = 0 .. NextVersion - 1
  BY LogType
<1>4. Published \in DOMAIN versions
  BY <1>1, LatestEffect DEF Inv, OneUnpublished, Saved
<1> QED
  BY <1>2, <1>3, <1>4

\* Until a second put is sent again the two tables implement VersionLog,
\* however requests interleave and wherever they die.
THEOREM StoreImplementsLog == HistorySpec => LogUntilResent
<1>1. HistoryInit => Log!Init
  <2> SUFFICES ASSUME Init PROVE History = <<>> /\ Published = 0
    BY DEF Log!Init, History, HistoryInit
  <2>1. DOMAIN versions = 0 .. 0 - 1 /\ 0 \in 0 .. MaxVersion + 1
    BY DEF Init
  <2>2. NextVersion = 0
    BY <2>1, NextVersionIs
  <2> QED
    BY <2>2 DEF Init, Published, History
<1>2. HistoryInv /\ [HistoryNext]_<<vars, resent>>
         => [resent' \/ Log!Next]_<<History, Published>>
  <2> DEFINE LogStep == Log!Next \/ (History' = History /\ Published' = Published)
  <2> SUFFICES ASSUME HistoryInv, [HistoryNext]_<<vars, resent>>, ~resent'
               PROVE  LogStep
    OBVIOUS
  <2>1. CASE UNCHANGED <<versions, latest>>
    BY <2>1 DEF History, NextVersion, Published
  <2>2. CASE UNCHANGED <<vars, resent>>
    BY <2>1, <2>2 DEF vars
  <2>3. ASSUME NEW r \in Req, Step(r), resent' = resent PROVE LogStep
    <3>1. Inv /\ OneUnpublished
      BY <2>3 DEF HistoryInv
    <3>2. CASE SaveVersion(r)
      BY <3>1, <3>2, SaveVersionAdds DEF Log!Next, Log!AddVersion, History
    <3>3. CASE SaveLatest(r)
      BY <3>1, <3>3, SaveLatestPublishes DEF Log!Next, Log!Publish, History
    <3>4. CASE NewWorkflowDefinition(r) \/ UpdateWorkflowDefinition(r)
               \/ GetWorkflowDefinition(r) \/ Abandon(r)
      BY <2>1, <3>4 DEF NewWorkflowDefinition, UpdateWorkflowDefinition,
         GetWorkflowDefinition, Abandon
    <3> QED
      BY <2>3, <3>2, <3>3, <3>4 DEF Step, Continue
  <2> HIDE DEF LogStep
  <2> QED
    BY <2>2, <2>3, HistoryStep
<1> QED
  BY <1>1, <1>2, HistoryInvHolds, PTL DEF HistorySpec, LogUntilResent, History
=============================================================================
