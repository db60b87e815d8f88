-------------------------------- MODULE Build --------------------------------
(***************************************************************************)
(* From the declared task classes to a pipeline that can run: the registry *)
(* collects the classes, the graph creates the tasks, resolves and checks  *)
(* their dependencies and stamps the order, the eligibility pass settles   *)
(* which tasks count, and a restore seeds the statuses of the last process *)
(* (Workflow.initialize_tasks, Graph.generate_pipeline,                    *)
(* check_pipeline_eligibility, seed_from_state).                           *)
(***************************************************************************)
EXTENDS TaskStatus, Naturals, FiniteSets

CONSTANTS
    Declarations, \* what a workflow directory may declare
    Entries,      \* the snapshots a restore may find: a status, young or old
    NoEntry,      \* no snapshot of that task
    Unstamped     \* the priority of a task no generation took

\* A declaration: its classes, and by class the name, the __name__, the groups,
\* the dependency entries ("self", a string or a class) and the parameter sets
\* (none: {}; it is refused: a flag); the premier and the terminal classes; the
\* repr of a parameter set; the rank of a task among those of one execution order
\* (groups, name, label, then the registry order).
\* A task is a class with one of its parameter sets.

VARIABLES
    decl,     \* the declaration
    phase,    \* how far the build is
    todo,     \* what the current phase did not handle yet
    tasks,    \* the created tasks
    eligible, \* task |-> the answer it keeps: "unknown", "yes" or "no"
    deps,     \* task |-> its dependent_tasks
    layer,    \* the next topological generation
    priority, \* task |-> its generation, or Unstamped
    index,    \* task |-> its place in the pipeline
    store     \* task |-> status

vars == <<decl, phase, todo, tasks, eligible, deps, layer, priority, index, store>>

Phases == {"collect", "create", "assign", "cycles", "stamp", "sort", "eligibility",
           "seed", "open", "refused"}
Candidates(d) == UNION {{c} \X d.params[c] : c \in d.classes}
Premier(t) == t[1] \in decl.premier
Terminal(t) == t[1] \in decl.terminal

DeclarationOK(d) ==
    /\ IsFiniteSet(d.classes) /\ d.premier \subseteq d.classes /\ d.terminal \subseteq d.classes
    /\ d.rank \in [Candidates(d) -> Nat] /\ IsFiniteSet(Candidates(d))
    /\ \A t, u \in Candidates(d) : d.rank[t] = d.rank[u] => t = u
ASSUME DeclarationsAssumption == \A d \in Declarations : DeclarationOK(d)
ASSUME EntriesAssumption == \A e \in Entries : e.status \in SNAPSHOT_STATUSES
ASSUME UnstampedAssumption == Unstamped \notin Nat

\* The phases with a graph, and those with a sorted pipeline.
Sorted == {"eligibility", "seed", "open"}
Linked == {"assign", "cycles", "stamp", "sort"} \cup Sorted

\* The type of the build: the graph is there from the assignment on, and the order
\* and the store from the sort on.
BuildTypeOK ==
    /\ decl \in Declarations /\ phase \in Phases
    /\ tasks \subseteq Candidates(decl) /\ todo \subseteq Candidates(decl)
    /\ layer \in Nat
    /\ phase \in Linked =>
        /\ todo \subseteq tasks
        /\ eligible \in [tasks -> {"unknown", "yes", "no"}]
        /\ deps \in [tasks -> SUBSET tasks]
        /\ priority \in [tasks -> Nat \cup {Unstamped}]
    /\ phase \in Sorted =>
        /\ index \in [tasks -> Nat]
        /\ store \in [tasks -> TaskStatus]

Nothing == [t \in {} |-> {}]
BuildInit ==
    /\ decl \in Declarations /\ phase = "collect" /\ todo = {} /\ tasks = {}
    /\ eligible = Nothing /\ deps = Nothing /\ layer = 0 /\ priority = Nothing
    /\ index = Nothing /\ store = Nothing

Refuse == phase' = "refused" /\ UNCHANGED <<decl, todo, tasks, eligible, deps, layer, priority,
                                            index, store>>

---------------------------------------------------------------------------
(* The registry and the tasks. *)

\* Two classes of one name are refused.
NameTaken == \E c, d \in decl.classes : c # d /\ decl.name[c] = decl.name[d]
CollectClasses ==
    /\ phase = "collect"
    /\ \/ NameTaken /\ Refuse
       \/ /\ ~NameTaken
          /\ phase' = "create"
          /\ todo' = Candidates(decl)
          /\ UNCHANGED <<decl, tasks, eligible, deps, layer, priority, index, store>>

\* One task after the other.
Takes(t) == t \in todo /\ \A u \in todo : decl.rank[t] <= decl.rank[u]

\* should_be_initialized (or one of its constraints) answers no, or skips.
SkipTask(t) ==
    /\ phase = "create" /\ Takes(t)
    /\ todo' = todo \ {t}
    /\ UNCHANGED <<decl, phase, tasks, eligible, deps, layer, priority, index, store>>

TaskRefused(t) == t[1] \in decl.refused \/ (Premier(t) /\ Terminal(t))
CreateTask(t) ==
    /\ phase = "create" /\ Takes(t)
    /\ \/ TaskRefused(t) /\ Refuse
       \/ /\ ~TaskRefused(t)
          /\ tasks' = tasks \cup {t} /\ todo' = todo \ {t}
          /\ UNCHANGED <<decl, phase, eligible, deps, layer, priority, index, store>>

AllCreated ==
    /\ phase = "create" /\ todo = {}
    /\ phase' = "assign" /\ todo' = tasks
    /\ eligible' = [t \in tasks |-> "unknown"]
    /\ deps' = [t \in tasks |-> {}]
    /\ priority' = [t \in tasks |-> Unstamped]
    /\ UNCHANGED <<decl, tasks, layer, index, store>>

---------------------------------------------------------------------------
(* The graph. *)

\* A string names a class by name, by __name__ or by group.
Lookup(s) ==
    {c \in decl.classes : decl.name[c] = s \/ decl.className[c] = s \/ s \in decl.groups[c]}
Resolved(c, entry) ==
    CASE entry.kind = "self" -> {c}
      [] entry.kind = "name" -> Lookup(entry.value)
      [] entry.kind = "class" -> {entry.value}
      [] OTHER -> {}
EntryRefused(c, entry) ==
    entry.kind \notin {"self", "class"} /\ Resolved(c, entry) = {}
\* A task that is not premier depends on every premier task.
DependencyClasses(t) ==
    UNION {Resolved(t[1], e) : e \in decl.entries[t[1]]}
        \cup (IF Premier(t) THEN {} ELSE decl.premier)

Answered(answer, t) == IF eligible[t] = "unknown" THEN answer[t] ELSE eligible[t]
ChecksForgetTerminal(t, ds) == Premier(t) /\ \E d \in ds : ~Premier(d)
ChecksRefuse(t, ds) ==
    \/ Premier(t) /\ \E d \in ds : ~Premier(d)
    \/ ~Terminal(t) /\ \E d \in ds : Terminal(d)
\* The dependencies of a task: its depends_on keeps some of the candidates, and an
\* ineligible one does not count. A hook that crashes ends the build.
AssignDependencies(t) ==
    /\ phase = "assign" /\ Takes(t)
    /\ \/ (\E e \in decl.entries[t[1]] : EntryRefused(t[1], e)) /\ Refuse
       \/ /\ \A e \in decl.entries[t[1]] : ~EntryRefused(t[1], e)
          /\ \E kept \in SUBSET {u \in tasks : u[1] \in DependencyClasses(t)} :
             \E answer \in [{u \in kept : eligible[u] = "unknown"} -> {"yes", "no", "crash"}] :
                LET ds == {u \in kept : Answered(answer, u) = "yes"}
                    crashed == \E u \in DOMAIN answer : answer[u] = "crash"
                IN \/ (crashed \/ ChecksRefuse(t, ds)) /\ Refuse
                   \/ /\ ~crashed /\ ~ChecksRefuse(t, ds)
                      /\ deps' = [deps EXCEPT ![t] = ds]
                      /\ eligible' = [u \in tasks |->
                                        IF u \in kept THEN Answered(answer, u) ELSE eligible[u]]
                      /\ todo' = todo \ {t}
                      /\ UNCHANGED <<decl, phase, tasks, layer, priority, index, store>>

AllAssigned ==
    /\ phase = "assign" /\ todo = {} /\ phase' = "cycles"
    /\ UNCHANGED <<decl, todo, tasks, eligible, deps, layer, priority, index, store>>

\* Some tasks each depend on one of them.
Cyclic == \E S \in SUBSET tasks : S # {} /\ \A t \in S : deps[t] \cap S # {}
CheckCycles ==
    /\ phase = "cycles"
    /\ \/ Cyclic /\ Refuse
       \/ /\ ~Cyclic /\ phase' = "stamp" /\ todo' = tasks
          /\ UNCHANGED <<decl, tasks, eligible, deps, layer, priority, index, store>>

\* The tasks whose dependencies earlier generations hold.
Generation == {t \in todo : deps[t] \cap todo = {}}
StampGeneration ==
    /\ phase = "stamp" /\ Generation # {}
    /\ priority' = [t \in tasks |-> IF t \in Generation THEN layer ELSE priority[t]]
    /\ todo' = todo \ Generation /\ layer' = layer + 1
    /\ UNCHANGED <<decl, phase, tasks, eligible, deps, index, store>>
AllStamped ==
    /\ phase = "stamp" /\ todo = {} /\ phase' = "sort"
    /\ UNCHANGED <<decl, todo, tasks, eligible, deps, layer, priority, index, store>>

\* The execution order: premier, then the others, then terminal, by generation.
Rung(t) == IF Premier(t) THEN 0 ELSE IF Terminal(t) THEN 2 ELSE 1
RunsBefore(t, u) ==
    \/ Rung(t) < Rung(u)
    \/ Rung(t) = Rung(u) /\ priority[t] < priority[u]
SortsBefore(t, u) ==
    \/ RunsBefore(t, u)
    \/ ~RunsBefore(u, t) /\ decl.rank[t] < decl.rank[u]

\* Two tasks of one class whose parameters read the same share an identity key.
KeyCollision ==
    \E t, u \in tasks : t # u /\ t[1] = u[1] /\ decl.repr[t[2]] = decl.repr[u[2]]
SortPipeline ==
    /\ phase = "sort"
    /\ \/ KeyCollision /\ Refuse
       \/ /\ ~KeyCollision
          /\ index' = [t \in tasks |-> Cardinality({u \in tasks : SortsBefore(u, t)})]
          /\ store' = [t \in tasks |-> "INITIALIZED"]
          /\ phase' = "eligibility" /\ todo' = tasks
          /\ UNCHANGED <<decl, tasks, eligible, deps, layer, priority>>

---------------------------------------------------------------------------
(* The eligibility pass and the seed. *)

\* The answer the graph got counts; a task it did not ask is asked here.
KeptAnswer(t) == IF eligible[t] = "unknown" THEN {"yes", "no"} ELSE {eligible[t]}
\* A pool settles the tasks, each one on its own.
SettleEligibility(t) ==
    /\ phase = "eligibility" /\ Takes(t)
    /\ \/ eligible[t] = "unknown" /\ Refuse
       \/ \E answer \in KeptAnswer(t) :
            /\ eligible' = [eligible EXCEPT ![t] = answer]
            /\ store' = [store EXCEPT ![t] =
                            IF answer = "yes" THEN "READY_TO_PROCESS" ELSE "SKIPPED"]
            /\ todo' = todo \ {t}
            /\ UNCHANGED <<decl, phase, tasks, deps, layer, priority, index>>

\* A restore seeds; a new session starts as it is.
AllSettled ==
    /\ phase = "eligibility" /\ todo = {}
    /\ \/ phase' = "open" /\ UNCHANGED todo
       \/ phase' = "seed" /\ todo' = tasks
    /\ UNCHANGED <<decl, tasks, eligible, deps, layer, priority, index, store>>

\* An untrusted success seeds as STALE.
Seeded(entry) ==
    IF entry.status \in PASSING_STATUSES /\ ~entry.trusted THEN "STALE" ELSE entry.status
SeedTask(t) ==
    /\ phase = "seed" /\ Takes(t)
    /\ \E entry \in Entries \cup {NoEntry} :
        store' = IF store[t] # "READY_TO_PROCESS" \/ entry = NoEntry THEN store
                 ELSE [store EXCEPT ![t] = Seeded(entry)]
    /\ todo' = todo \ {t}
    /\ UNCHANGED <<decl, phase, tasks, eligible, deps, layer, priority, index>>
AllSeeded ==
    /\ phase = "seed" /\ todo = {} /\ phase' = "open"
    /\ UNCHANGED <<decl, todo, tasks, eligible, deps, layer, priority, index, store>>

---------------------------------------------------------------------------

BuildNext ==
    \/ CollectClasses
    \/ \E t \in todo : SkipTask(t)
    \/ \E t \in todo : CreateTask(t)
    \/ AllCreated
    \/ \E t \in todo : AssignDependencies(t)
    \/ AllAssigned
    \/ CheckCycles
    \/ StampGeneration
    \/ AllStamped
    \/ SortPipeline
    \/ \E t \in todo : SettleEligibility(t)
    \/ AllSettled
    \/ \E t \in todo : SeedTask(t)
    \/ AllSeeded

\* The process dies, and the next one starts from the same classes.
Abandon ==
    /\ phase' = "collect" /\ todo' = {} /\ tasks' = {} /\ eligible' = Nothing
    /\ deps' = Nothing /\ layer' = 0 /\ priority' = Nothing /\ index' = Nothing
    /\ store' = Nothing /\ UNCHANGED decl

BuildSpec == BuildInit /\ [][BuildNext \/ Abandon]_vars

---------------------------------------------------------------------------

\* A task comes after everything it depends on, whatever premier and terminal say
\* of either: the groups of a batch run in this order (execution_order), and the
\* runner waits for nothing that a later group would start.
DepsComeFirst ==
    phase \in {"eligibility", "seed", "open"} =>
        \A t \in tasks : \A d \in deps[t] : RunsBefore(d, t) /\ index[d] < index[t]

=============================================================================
