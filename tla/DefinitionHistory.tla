-------------------------- MODULE DefinitionHistory --------------------------
(***************************************************************************)
(* DefinitionStore with a history: resent says that the second put of a    *)
(* save was sent again.  Up to then the two tables are one log.            *)
(***************************************************************************)
EXTENDS DefinitionStore

VARIABLE resent

HistoryInit == Init /\ resent = FALSE

HistoryNext ==
    \E r \in Req :
        \/ /\ \/ NewWorkflowDefinition(r) \/ UpdateWorkflowDefinition(r)
              \/ Continue(r) \/ Abandon(r)
           /\ UNCHANGED resent
        \/ ResendLatest(r) /\ resent' = TRUE

HistorySpec == HistoryInit /\ [][HistoryNext]_<<vars, resent>>
-----------------------------------------------------------------------------
(***************************************************************************)
(* Properties.                                                             *)
(***************************************************************************)

\* What a client was told stays true (AckedIsKept), although requests die
\* between the two puts of SaveWorkflowDefinition and although the first put,
\* sent again, may be refused because of itself: only the second one, which
\* has no condition, may undo the work of others when it is sent again.
KeptUntilResent == ~resent => AckedIsKept

\* The puts of concurrent requests add up to one log: no version is added
\* before the previous one is the latest, even if a request dies half way, with
\* the same exception.
LogUntilResent == Log!Init /\ [][resent' \/ Log!Next]_<<History, Published>>
-----------------------------------------------------------------------------
(***************************************************************************)
(* The inductive invariant.                                                *)
(***************************************************************************)

\* There is at most one version that is not the latest yet, and one request
\* that has it.
OneUnpublished ==
    /\ Published + 1 \notin DOMAIN versions
    /\ \A r \in Req :
          /\ req[r].pc = "version" => req[r].item.version <= Published
          /\ req[r].pc = "latest"  => req[r].item.version = Published
          /\ req[r].pc = "get"     => req[r].item.version < Published
    /\ \A r, q \in Req : req[r].pc = "latest" /\ req[q].pc = "latest" => r = q
    /\ \A item \in acked : item.version < Published

\* Both tables, every request and every answer are consistent with one log
\* (Inv), whose last entry at most is not the latest definition, as long as
\* no second put is sent again.
HistoryInv == Inv /\ resent \in BOOLEAN /\ (~resent => OneUnpublished)
=============================================================================
