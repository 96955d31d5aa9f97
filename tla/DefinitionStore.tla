---------------------------- MODULE DefinitionStore ----------------------------
(***************************************************************************)
(* The versions of one workflow definition in DynamoDB: SaveWorkflowDefi-  *)
(* nition, UpdateWorkflowDefinition and the reads of store/dynamodb, under *)
(* the handlers NewWorkflowDefinition and UpdateWorkflowDefinition.  Every *)
(* key of the two tables contains the name, so names do not interact and   *)
(* one of them is enough.                                                  *)
(*                                                                         *)
(* A save is two puts: one in the table of all versions, on the condition  *)
(* that the version is new, then one in the table of latest definitions,   *)
(* on no condition.  An update first reads the latter.                     *)
(***************************************************************************)
EXTENDS Integers

CONSTANTS Req,         \* requests the service handles at the same time
          Content,     \* what a definition says
          NoItem,      \* no definition
          MaxVersion,  \* bound on the versions
          Faults       \* what the environment may do to us

Item == [version : Nat, def : Content]

ASSUME DefinitionStoreAssumption ==
    /\ MaxVersion \in Nat
    /\ NoItem \notin Item
    /\ Faults \subseteq {"abandon", "resend"}

VARIABLES versions,  \* the table of all versions: version -> content
          latest,    \* the table of latest definitions
          req,       \* what each request handler is doing
          acked      \* the items that clients were told are saved

vars == <<versions, latest, req, acked>>

\* A request is about to put item in the first or in the second table, or to
\* read it back.
Request == [pc : {"idle", "version", "latest", "get"}, op : {"new", "update"},
            item : Item \cup {NoItem}]

IdleRequest == [pc |-> "idle", op |-> "new", item |-> NoItem]

Init ==
    /\ versions = [v \in {} |-> NoItem]
    /\ latest = NoItem
    /\ req = [r \in Req |-> IdleRequest]
    /\ acked = {}

Goto(r, state) == req' = [req EXCEPT ![r] = state]
Return(r) == Goto(r, IdleRequest)
-----------------------------------------------------------------------------
\* NewWorkflowDefinition: version 0, without a look at the store.
NewWorkflowDefinition(r) ==
    /\ req[r].pc = "idle"
    /\ \E c \in Content :
          Goto(r, [pc |-> "version", op |-> "new",
                   item |-> [version |-> 0, def |-> c]])
    /\ UNCHANGED <<versions, latest, acked>>

(***************************************************************************)
(* UpdateWorkflowDefinition reads the latest definition (NotFound without  *)
(* one) and goes on to save the version after it.                          *)
(***************************************************************************)
UpdateWorkflowDefinition(r) ==
    /\ req[r].pc = "idle"
    /\ latest # NoItem
    /\ latest.version < MaxVersion
    /\ \E c \in Content :
          Goto(r, [pc |-> "version", op |-> "update",
                   item |-> [version |-> latest.version + 1, def |-> c]])
    /\ UNCHANGED <<versions, latest, acked>>

PutVersion(item) ==
    versions' = [v \in DOMAIN versions \cup {item.version} |->
                    IF v = item.version THEN item.def ELSE versions[v]]

\* Mutant: the put has no condition.
SaveVersionUnconditional(r) ==
    /\ req[r].pc = "version"
    /\ PutVersion(req[r].item)
    /\ Goto(r, [req[r] EXCEPT !.pc = "latest"])
    /\ UNCHANGED <<latest, acked>>

\* Mutant: the error of the put is not looked at.
SaveVersionUnchecked(r) ==
    /\ req[r].pc = "version"
    /\ IF req[r].item.version \in DOMAIN versions THEN UNCHANGED versions
                                                  ELSE PutVersion(req[r].item)
    /\ Goto(r, [req[r] EXCEPT !.pc = "latest"])
    /\ UNCHANGED <<latest, acked>>

(***************************************************************************)
(* The first put of SaveWorkflowDefinition; a Conflict ends the request.   *)
(* When the answer to the put is lost the DynamoDB client sends it again,  *)
(* and the second put meets what the first one left: a Conflict too.       *)
(***************************************************************************)
SaveVersion(r) ==
    /\ req[r].pc = "version"
    /\ \/ /\ req[r].item.version \notin DOMAIN versions
          /\ PutVersion(req[r].item)
          /\ \/ Goto(r, [req[r] EXCEPT !.pc = "latest"])
             \/ "resend" \in Faults /\ Return(r)
       \/ /\ req[r].item.version \in DOMAIN versions
          /\ Return(r)
          /\ UNCHANGED versions
    /\ UNCHANGED <<latest, acked>>

\* The second put.  NewWorkflowDefinition answers with what it saved.
SaveLatest(r) ==
    /\ req[r].pc = "latest"
    /\ latest' = req[r].item
    /\ IF req[r].op = "new"
       THEN Return(r) /\ acked' = acked \cup {req[r].item}
       ELSE Goto(r, [req[r] EXCEPT !.pc = "get"]) /\ UNCHANGED acked
    /\ UNCHANGED versions

\* Sent again after a lost answer, the second put has no condition to stop it.
ResendLatest(r) ==
    /\ "resend" \in Faults
    /\ req[r].pc = "latest"
    /\ latest' = req[r].item
    /\ UNCHANGED <<versions, req, acked>>

\* UpdateWorkflowDefinition answers with what GetWorkflowDefinition finds.
GetWorkflowDefinition(r) ==
    /\ req[r].pc = "get"
    /\ LET v == req[r].item.version IN
       /\ v \in DOMAIN versions
       /\ acked' = acked \cup {[version |-> v, def |-> versions[v]]}
    /\ Return(r)
    /\ UNCHANGED <<versions, latest>>

\* The process dies, the request times out or a call fails.
Abandon(r) ==
    /\ "abandon" \in Faults
    /\ req[r].pc # "idle"
    /\ Return(r)
    /\ UNCHANGED <<versions, latest, acked>>

Continue(r) == SaveVersion(r) \/ SaveLatest(r) \/ GetWorkflowDefinition(r)

Next ==
    \E r \in Req : \/ NewWorkflowDefinition(r) \/ UpdateWorkflowDefinition(r)
                   \/ Continue(r)
                   \/ ResendLatest(r) \/ Abandon(r)

Spec == Init /\ [][Next]_vars
-----------------------------------------------------------------------------
(***************************************************************************)
(* Properties.                                                             *)
(***************************************************************************)

\* Every variable has its type.
TypeOK ==
    /\ DOMAIN versions \subseteq 0 .. MaxVersion
    /\ versions \in [DOMAIN versions -> Content]
    /\ latest \in Item \cup {NoItem}
    /\ req \in [Req -> Request]
    /\ acked \subseteq Item

\* The two tables agree: the latest definition is one of the versions, word
\* for word, and versions are numbered without gaps, whichever of several
\* concurrent saves of the same version wins.
TablesAgree ==
    /\ latest # NoItem => /\ latest.version \in DOMAIN versions
                          /\ versions[latest.version] = latest.def
    /\ \A v \in DOMAIN versions : \A w \in 0 .. v : w \in DOMAIN versions

\* A client that was told that its definition is version v finds exactly that
\* under v, and v or a later one as the latest definition: of two clients that
\* update at the same time at most one is told that it made version v.
AckedIsKept ==
    \A item \in acked :
        /\ item.version \in DOMAIN versions
        /\ versions[item.version] = item.def
        /\ latest # NoItem
        /\ latest.version >= item.version

\* A version is never overwritten, by whatever request and however late.
VersionsImmutable ==
    [][\A v \in DOMAIN versions :
          v \in DOMAIN versions' /\ versions'[v] = versions[v]]_vars
-----------------------------------------------------------------------------
(***************************************************************************)
(* The log of versions that the two tables implement (DefinitionHistory).  *)
(***************************************************************************)
NextVersion == CHOOSE n \in 0 .. MaxVersion + 1 : DOMAIN versions = 0 .. n - 1

\* How many versions there are up to the latest definition.
Published == IF latest = NoItem THEN 0 ELSE latest.version + 1

\* The versions as a sequence.
History == [k \in 1 .. NextVersion |-> versions[k - 1]]

Log == INSTANCE VersionLog WITH log <- History, head <- Published
-----------------------------------------------------------------------------
(***************************************************************************)
(* The inductive invariant.  A request that is to save version v has seen  *)
(* version v - 1, so a put that succeeds extends the log by one.           *)
(***************************************************************************)
Contiguous == \E n \in 0 .. MaxVersion + 1 : DOMAIN versions = 0 .. n - 1

\* The item is a version, as it stands in the first table.
Saved(item, all) ==
    /\ item \in Item
    /\ item.version \in DOMAIN all
    /\ all[item.version] = item.def

RequestsSaved ==
    \A r \in Req :
        /\ req[r].pc = "version"
               => /\ req[r].item \in Item
                  /\ req[r].item.version <= MaxVersion
                  /\ req[r].item.version # 0 => req[r].item.version - 1 \in DOMAIN versions
        /\ req[r].pc \in {"latest", "get"} => Saved(req[r].item, versions)

\* Both tables, every request and every answer are consistent with one log.
Inv == /\ TypeOK /\ Contiguous
       /\ latest # NoItem => Saved(latest, versions)
       /\ RequestsSaved
       /\ \A item \in acked : Saved(item, versions)
=============================================================================
