---------------------------- MODULE EmbeddedManager ----------------------------
(***************************************************************************)
(* The workflow manager embedded in an application: package embedded, the  *)
(* client.Client without a service behind it.  Each process has a list of  *)
(* definitions in memory; state machines and executions live in SFN, which *)
(* all processes of the application share and which knows nothing but      *)
(* their names.                                                            *)
(*                                                                         *)
(* A definition of version -1 may change: StartWorkflow updates the state  *)
(* machine each time.  Every other version is immutable, and StartWorkflow *)
(* compares.  Polling for work is the subject of EmbeddedPoller; the other *)
(* methods of client.Client return ErrNotSupported.                        *)
(***************************************************************************)
EXTENDS Naming, FiniteSets

CONSTANTS Process,      \* processes of the application
          Environment,  \* the namespace of the application
          Libraries,    \* what a behaviour may define, begin with, and which
                        \* suffixes its callers choose
          UUID,         \* the short UUIDs, each generated once
          MaxDefs,      \* bound on the definitions of a process
          MaxStarts,    \* bound on the workflows started
          PageSize      \* how many executions ListExecutions returns at once

Empty == <<>>   \* no suffix: generate one

Definition == [name : String, version : {-1, 0, 1}, startAt : String,
               states : {"x", "y", "bad"}]

(***************************************************************************)
(* A short UUID is the first eight characters of a random one: no two are  *)
(* taken to be the same, and no caller chooses a suffix that begins with   *)
(* one that is generated.                                                  *)
(***************************************************************************)
ASSUME EmbeddedManagerAssumption ==
    /\ Environment \in String
    /\ \A lib \in Libraries : /\ lib.offers \subseteq Definition
                              /\ lib.yaml \subseteq Seq(lib.offers)
                              /\ \A ds \in lib.yaml : Len(ds) <= MaxDefs
                              /\ lib.suffixes \subseteq String \ {Empty}
                              /\ \A s \in lib.suffixes, u \in UUID : ~IsPrefix(u, s)
    /\ UUID \subseteq String \ {Empty}
    /\ \A u, v \in UUID : Len(u) = Len(v)
    /\ MaxDefs \in Nat /\ MaxStarts \in Nat /\ PageSize \in Nat

VARIABLES library,     \* the definitions of this behaviour
          defs,        \* workflowDefinitions of each process
          start,       \* the StartWorkflow that each process is executing
          unused,      \* the UUIDs not generated yet
          machines,    \* SFN's state machines: name -> definition of the states
          executions,  \* SFN's executions
          told         \* the workflows that StartWorkflow returned

vars == <<library, defs, start, unused, machines, executions, told>>

NoStart == [pc |-> "idle"]

Machine(d) == StateMachineName(d.name, d.version, Environment, d.startAt)

\* validateWorkflowDefinition, for a definition with states and one without.
Valid(d) == d.name # <<>> /\ d.states # "bad"

(***************************************************************************)
(* New reads a list of valid definitions from YAML.  It looks for names    *)
(* that occur twice in a set that it never fills.                          *)
(***************************************************************************)
Init ==
    /\ library \in Libraries
    /\ defs \in [Process -> {ds \in library.yaml : \A i \in DOMAIN ds : Valid(ds[i])}]
    /\ start = [p \in Process |-> NoStart]
    /\ unused = UUID
    /\ machines = [m \in {} |-> "x"]
    /\ executions = {}
    /\ told = {}

\* GetWorkflowDefinitionByNameAndVersion finds the first of the name and
\* does not look at the version.
Named(p, name) == {i \in DOMAIN defs[p] : defs[p][i].name = name}
GetWorkflowDefinitionByNameAndVersion(p, name) == defs[p][Min(Named(p, name))]
-----------------------------------------------------------------------------
\* Mutant: a definition of any version is replaced.
NewWorkflowDefinitionReplaces(p) ==
    /\ start[p].pc = "idle"
    /\ \E d \in library.offers :
          /\ Valid(d)
          /\ IF Named(p, d.name) = {}
             THEN /\ Len(defs[p]) < MaxDefs
                  /\ defs' = [defs EXCEPT ![p] = Append(@, d)]
             ELSE defs' = [defs EXCEPT ![p][Min(Named(p, d.name))] = d]
    /\ UNCHANGED <<library, start, unused, machines, executions, told>>

\* A definition is added, or takes the place of one of version -1.
NewWorkflowDefinition(p) ==
    /\ start[p].pc = "idle"
    /\ \E d \in library.offers :
          /\ Valid(d)
          /\ IF Named(p, d.name) = {}
             THEN /\ Len(defs[p]) < MaxDefs
                  /\ defs' = [defs EXCEPT ![p] = Append(@, d)]
             ELSE LET i == Min(Named(p, d.name)) IN
                  /\ defs[p][i].version = -1
                  /\ defs' = [defs EXCEPT ![p][i] = d]
    /\ UNCHANGED <<library, start, unused, machines, executions, told>>

\* Mutant: an existing state machine is taken as it is.
StartWorkflowUnchecked(p) ==
    /\ start[p].pc = "idle"
    /\ \E i \in DOMAIN defs[p], suffix \in library.suffixes \cup {Empty} :
          LET d == GetWorkflowDefinitionByNameAndVersion(p, defs[p][i].name)
              exists == Machine(d) \in DOMAIN machines
          IN  start' = [start EXCEPT ![p] =
                     [pc |-> IF ~exists THEN "create"
                             ELSE IF d.version = -1 THEN "update" ELSE "execute",
                      def |-> d, suffix |-> suffix, overtaken |-> FALSE]]
    /\ UNCHANGED <<library, defs, unused, machines, executions, told>>

(***************************************************************************)
(* StartWorkflow, up to DescribeStateMachine: what is to be done depends   *)
(* on whether the state machine exists and may change.  One that may not   *)
(* change and is not the same ends the call.                               *)
(***************************************************************************)
StartWorkflow(p) ==
    /\ start[p].pc = "idle"
    /\ \E i \in DOMAIN defs[p], suffix \in library.suffixes \cup {Empty} :
          LET d == GetWorkflowDefinitionByNameAndVersion(p, defs[p][i].name)
              exists == Machine(d) \in DOMAIN machines
          IN  /\ exists /\ d.version # -1 => machines[Machine(d)] = d.states
              /\ start' = [start EXCEPT ![p] =
                     [pc |-> IF ~exists THEN "create"
                             ELSE IF d.version = -1 THEN "update" ELSE "execute",
                      def |-> d, suffix |-> suffix, overtaken |-> FALSE]]
    /\ UNCHANGED <<library, defs, unused, machines, executions, told>>

\* A process whose state machine is changed under its hands.
Overtake(p, m) ==
    [q \in Process |->
        IF q # p /\ start[q].pc \in {"tag", "execute"} /\ Machine(start[q].def) = m
        THEN [start[q] EXCEPT !.overtaken = TRUE] ELSE start[q]]

\* SFN creates a state machine; to create the same one again is no error, to
\* create another one of the same name ends the call.
CreateStateMachine(p) ==
    /\ start[p].pc = "create"
    /\ LET d == start[p].def
           m == Machine(d)
       IN  IF m \in DOMAIN machines
           THEN /\ UNCHANGED machines
                /\ start' = [start EXCEPT ![p] =
                       IF machines[m] = d.states THEN [@ EXCEPT !.pc = "execute"]
                                                 ELSE NoStart]
           ELSE /\ machines' = [n \in DOMAIN machines \cup {m} |->
                                   IF n = m THEN d.states ELSE machines[n]]
                /\ start' = [start EXCEPT ![p].pc = "execute"]
    /\ UNCHANGED <<library, defs, unused, executions, told>>

\* UpdateStateMachine, and five seconds of sleep until it has taken effect.
UpdateStateMachine(p) ==
    /\ start[p].pc = "update"
    /\ LET m == Machine(start[p].def) IN
       /\ machines' = [machines EXCEPT ![m] = start[p].def.states]
       /\ start' = [Overtake(p, m) EXCEPT ![p].pc = "tag"]
    /\ UNCHANGED <<library, defs, unused, executions, told>>

TagResource(p) ==
    /\ start[p].pc = "tag"
    /\ start' = [start EXCEPT ![p].pc = "execute"]
    /\ UNCHANGED <<library, defs, unused, machines, executions, told>>

(***************************************************************************)
(* StartExecution.  SFN does not run a name twice: with the input of the   *)
(* execution that is running it answers with that one, otherwise with an   *)
(* error.                                                                  *)
(***************************************************************************)
StartExecution(p) ==
    /\ start[p].pc = "execute"
    /\ Cardinality(told) < MaxStarts
    /\ \E suffix \in IF start[p].suffix = Empty THEN unused ELSE {start[p].suffix} :
          LET m  == Machine(start[p].def)
              id == WorkflowID(m, suffix)
              same == {e \in executions : e.machine = m /\ e.id = id}
          IN  /\ unused' = unused \ {suffix}
              /\ \A e \in same : e.status = "running"
              /\ executions' = IF same # {} THEN executions ELSE executions \cup
                     {[machine |-> m, id |-> id, states |-> machines[m],
                       status |-> "running", startDate |-> Cardinality(executions)]}
              /\ told' = told \cup
                     {[by |-> p, def |-> start[p].def, suffix |-> suffix, id |-> id,
                       overtaken |-> start[p].overtaken]}
    /\ start' = [start EXCEPT ![p] = NoStart]
    /\ UNCHANGED <<library, defs, machines>>

\* A call to SFN fails, the input is no JSON, or the execution's name is taken.
StartFails(p) ==
    /\ start[p].pc # "idle"
    /\ start' = [start EXCEPT ![p] = NoStart]
    /\ UNCHANGED <<library, defs, unused, machines, executions, told>>

\* CancelWorkflow stops the execution that the ID leads to, if there is one.
CancelWorkflow(p) ==
    /\ start[p].pc = "idle"
    /\ \E t \in told :
          /\ HasIDParts(t.id)
          /\ executions' = {IF e.machine = SMName(t.id) /\ e.id = t.id
                                /\ e.status = "running"
                             THEN [e EXCEPT !.status = "ended"] ELSE e : e \in executions}
    /\ UNCHANGED <<library, defs, start, unused, machines, told>>

\* An execution comes to its end.
ExecutionEnds ==
    /\ \E e \in executions :
          /\ e.status = "running"
          /\ executions' = (executions \ {e}) \cup {[e EXCEPT !.status = "ended"]}
    /\ UNCHANGED <<library, defs, start, unused, machines, told>>

Next ==
    \/ \E p \in Process :
          \/ NewWorkflowDefinition(p) \/ StartWorkflow(p)
          \/ CreateStateMachine(p) \/ UpdateStateMachine(p) \/ TagResource(p)
          \/ StartExecution(p) \/ StartFails(p) \/ CancelWorkflow(p)
    \/ ExecutionEnds

Spec == Init /\ [][Next]_vars
-----------------------------------------------------------------------------
(***************************************************************************)
(* The queries: what a process answers with.                               *)
(***************************************************************************)
NotFound == [found |-> FALSE]

\* GetWorkflowByID: the definition and the execution that an ID leads to.
GetWorkflowByID(p, id) ==
    LET m == SMName(id)
        here == {e \in executions : e.machine = m /\ e.id = id}
    IN  IF ~HasIDParts(id) THEN NotFound
        ELSE IF ~HasNameParts(m) THEN NotFound
        ELSE IF Named(p, WDName(m)) = {} \/ here = {} THEN NotFound
        ELSE [found |-> TRUE, execution |-> CHOOSE e \in here : TRUE,
              def |-> GetWorkflowDefinitionByNameAndVersion(p, WDName(m))]

\* ListExecutions: a page of the executions of state machine m, the latest.
Latest(e) ==
    Cardinality({f \in executions : f.machine = e.machine /\ f.startDate > e.startDate}) < PageSize
ListExecutions(m) == {e \in executions : e.machine = m /\ Latest(e)}

\* GetWorkflows: the first page of the executions of the definition's state
\* machine.  It does not ask for the next one, and has no parameter for it.
GetWorkflows(p, name) ==
    ListExecutions(Machine(GetWorkflowDefinitionByNameAndVersion(p, name)))
-----------------------------------------------------------------------------
(***************************************************************************)
(* Properties.                                                             *)
(***************************************************************************)

\* Every variable has its type; in particular no ID is longer than SFN allows,
\* and what is being started was defined and is valid.
TypeOK ==
    /\ library \in Libraries
    /\ defs \in [Process -> Seq(library.offers)]
    /\ \A p \in Process : /\ Len(defs[p]) <= MaxDefs
                          /\ \A i \in DOMAIN defs[p] : Valid(defs[p][i])
    /\ start \in [Process -> {NoStart} \cup
                     [pc : {"create", "update", "tag", "execute"}, def : library.offers,
                      suffix : library.suffixes \cup {Empty}, overtaken : BOOLEAN]]
    /\ unused \subseteq UUID
    /\ machines \in [DOMAIN machines -> {"x", "y"}]
    /\ executions \subseteq [machine : DOMAIN machines, id : String, states : {"x", "y"},
                             status : {"running", "ended"}, startDate : Nat]
    /\ IsFiniteSet(executions)
    /\ \A e \in executions : Len(e.id) <= MaxLength
    /\ told \subseteq [by : Process, def : library.offers, id : String,
                       suffix : library.suffixes \cup UUID, overtaken : BOOLEAN]

CleanDef(d) == Clean(d.name) /\ Clean(d.startAt)

\* A workflow runs the states that its caller was told it runs, whatever the
\* other processes define, create and update under the same name.  Of a
\* mutable definition this needs an ID of its own, and that no other process
\* has updated the state machine since this one did.
RunsAsAsked ==
    \A t \in told : \A e \in executions :
        (/\ CleanDef(t.def)
         /\ e.machine = Machine(t.def) /\ e.id = t.id
         /\ t.def.version = -1 => /\ ~t.overtaken
                                  /\ t.suffix \in UUID
                                  /\ Fits(Machine(t.def), t.suffix))
            => e.states = t.def.states

\* GetWorkflowByID leads from an ID back to what StartWorkflow began: to its
\* execution, and to the definition it was started from unless that may
\* change.  Both need a name that survives, a suffix without a separator, and
\* an ID that is not cut, and the first of them an environment whose name
\* survives, too.  What was started from an immutable definition is listed
\* under its name, whatever its name is, until a page of workflows has been
\* started after it in its state machine: then GetWorkflows never shows it.
FoundAsStarted ==
    \A t \in told :
        /\ (/\ Clean(Environment) /\ CleanDef(t.def) /\ Whole(t.suffix)
            /\ Fits(Machine(t.def), t.suffix)) =>
               LET w == GetWorkflowByID(t.by, t.id) IN
               /\ w.found
               /\ w.execution.machine = Machine(t.def)
               /\ w.def.name = t.def.name
               /\ t.def.version # -1 => w.def = t.def
        /\ t.def.version # -1 =>
               \E e \in executions :
                  /\ e.machine = Machine(t.def) /\ e.id = t.id
                  /\ Latest(e) <=> e \in GetWorkflows(t.by, t.def.name)
-----------------------------------------------------------------------------
(***************************************************************************)
(* The inductive invariant.                                                *)
(***************************************************************************)

\* No definition that may change has state machine m.
Frozen(m) == \A d \in library.offers : Valid(d) /\ d.version = -1 => Machine(d) # m

\* Process p finds d under its name, or another version of d if d may change.
Defines(p, d) ==
    /\ Valid(d)
    /\ Named(p, d.name) # {}
    /\ d.version # -1 => GetWorkflowDefinitionByNameAndVersion(p, d.name) = d

\* What is known when p is at a step of StartWorkflow: what it is about to run
\* is what it was asked to run, unless another process has come in between.
StartRight(p) ==
    LET s == start[p]
        m == Machine(s.def)
    IN  s.pc # "idle" =>
            /\ Defines(p, s.def)
            /\ s.pc # "create" => m \in DOMAIN machines
            /\ s.pc = "update" => s.def.version = -1
            /\ s.pc \in {"tag", "execute"} => \/ machines[m] = s.def.states
                                              \/ s.overtaken /\ ~Frozen(m)

\* An execution has the states of its state machine if that cannot change,
\* and its name ends in a suffix that is not to be generated any more.
ExecutionRight(e) ==
    /\ Frozen(e.machine) => e.states = machines[e.machine]
    /\ \E s \in (library.suffixes \cup UUID) \ unused : e.id = WorkflowID(e.machine, s)

\* What StartWorkflow returned has its execution, and if it has an ID of its
\* own then that execution runs what was asked for.
ToldRight(t) ==
    LET m == Machine(t.def) IN
    /\ Defines(t.by, t.def)
    /\ t.id = WorkflowID(m, t.suffix)
    /\ t.suffix \notin unused
    /\ \E e \in executions : e.machine = m /\ e.id = t.id
    /\ Frozen(m) => machines[m] = t.def.states
    /\ ~t.overtaken /\ t.suffix \in UUID /\ Fits(m, t.suffix) =>
           \A e \in executions : e.machine = m /\ e.id = t.id => e.states = t.def.states

\* The invariant as a whole.
Inv ==
    /\ TypeOK
    /\ \A p \in Process : StartRight(p)
    /\ \A e \in executions : ExecutionRight(e)
    /\ \A t \in told : ToldRight(t)
=============================================================================
