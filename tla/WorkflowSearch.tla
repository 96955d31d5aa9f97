----------------------------- MODULE WorkflowSearch -----------------------------
(***************************************************************************)
(* GetWorkflows, page by page: the query that the Handler sends to the     *)
(* search index, the token it returns for the next page, and the iterator  *)
(* of the Go client that asks for one page after the other.                *)
(*                                                                         *)
(* Workflows are sorted by their creation time and by nothing else.  The   *)
(* token is the creation time of the last one, in milliseconds, which is   *)
(* also the resolution of the index; the next page begins strictly after.  *)
(***************************************************************************)
EXTENDS Integers, FiniteSets, Functions, Sequences

CONSTANTS Workflow,   \* the workflows that may match the query
          CreatedAt,  \* the millisecond of creation of each
          Limit       \* the page size

NoToken == 0

ASSUME WorkflowSearchAssumption ==
    /\ CreatedAt \in [Workflow -> Nat \ {NoToken}]
    /\ Limit \in Nat \ {0}
    /\ IsFiniteSet(Workflow)

\* A query: the order, and the token that search_after continues from.
Query == [oldestFirst : BOOLEAN, after : Nat]

Sooner(t, u, oldestFirst) == IF oldestFirst THEN t < u ELSE t > u

\* Mutant: search_after includes the workflows of the token's millisecond.
EligibleFrom(index, q) ==
    {w \in index : \/ q.after = NoToken
                   \/ ~Sooner(CreatedAt[w], q.after, q.oldestFirst)}

\* The workflows of the index that come strictly after the token.
Eligible(index, q) ==
    {w \in index : \/ q.after = NoToken
                   \/ Sooner(q.after, CreatedAt[w], q.oldestFirst)}

(***************************************************************************)
(* The pages the index may answer with: the first Limit workflows in the   *)
(* order asked for.  Those of the same millisecond come in any order.      *)
(***************************************************************************)
Pages(index, q) ==
    LET found == Eligible(index, q)
        n == IF Cardinality(found) < Limit THEN Cardinality(found) ELSE Limit
        Behind(w, u) == ~Sooner(CreatedAt[w], CreatedAt[u], q.oldestFirst)
    IN  {p \in Injection(1 .. n, found) :
            /\ \A i, j \in 1 .. n : i < j => Behind(p[j], p[i])
            /\ \A w \in found \ Range(p) : \A i \in 1 .. n : Behind(w, p[i])}

\* Mutant: the path of the next page says nothing of the order.
NextPageUnordered(q, page) ==
    [oldestFirst |-> FALSE, after |-> CreatedAt[page[Len(page)]]]

\* The query that X-Next-Page-Path describes: the same one, from the token on.
NextPage(q, page) ==
    [q EXCEPT !.after = CreatedAt[page[Len(page)]]]
-----------------------------------------------------------------------------
(***************************************************************************)
(* The iterator.  `seen' is what Next has returned; `all' is bookkeeping   *)
(* of the model: the workflows that matched the query all the time.        *)
(***************************************************************************)
Iterator == [state : {"open", "exhausted", "failed"}, query : Query,
             seen : Seq(Workflow), all : SUBSET Workflow]

NewGetWorkflowsIter(oldestFirst, index) ==
    [state |-> "open", query |-> [oldestFirst |-> oldestFirst, after |-> NoToken],
     seen |-> <<>>, all |-> index]

\* refresh: an empty page has no token, and ends the iteration.
Refresh(iter, page) ==
    IF page = <<>> THEN [iter EXCEPT !.state = "exhausted"]
    ELSE [iter EXCEPT !.seen = @ \o page, !.query = NextPage(@, page)]

\* After an error Next returns FALSE for good.
Fail(iter) == [iter EXCEPT !.state = "failed"]
=============================================================================
