------------------------------ MODULE Hosting ------------------------------
(***************************************************************************)
(* The sessions of one served process: AppActionHandler, create_session,   *)
(* SessionRegistry (src/winslow/session.py), the startup of the            *)
(* Orchestrator (restores, then auto_init) and the manifests on disk       *)
(* (FilesystemStateStore).  Requests run on threads of their own; the main *)
(* thread goes through the same create_session at startup.                 *)
(***************************************************************************)
EXTENDS Naturals

CONSTANTS
    Ids,         \* session ids
    Workflows,   \* the collected workflow classes
    WorkflowOf,  \* [Ids -> workflow names], perhaps of a class not collected
    Foreign,     \* the ids whose manifest another environment wrote
    AutoInit,    \* the workflows with auto_init, a subset of Workflows
    Main,        \* the thread of the startup
    Requests,    \* the threads of client requests
    MaxBoots, MaxCalls  \* bounds: starts of a process, requests in all

Actors == {Main} \cup Requests

ASSUME HostingAssumption ==
    /\ Main \notin Requests
    /\ Ids # {} /\ Foreign \subseteq Ids /\ AutoInit \subseteq Workflows
    /\ MaxBoots \in Nat /\ MaxCalls \in Nat

VARIABLES
    disk,      \* the manifest of an id: none, open, stamped (torn) or archived
    live,      \* the ids in the registry (SessionRegistry._sessions)
    reserved,  \* the ids whose tasks build
    running,   \* running[id]: the sessions of the id that are built and not ended
    stateless, \* the sessions that run without state (a failed init_state)
    pc, at, kind, outcome,  \* per actor: step, id, create/restore/end, mark
    phase,     \* down, restoring, auto or serving
    todo,      \* the startup: the manifests or the workflows still to go
    failed,    \* history: the ids whose rebuild failed in this process
    twins,     \* history: the ids a restore took while another call was about them
    boots, calls

record == <<disk, stateless>>
memory == <<live, reserved, running>>
actor == <<pc, at, kind, outcome>>
host == <<phase, todo, boots>>
history == <<failed, twins>>
hostVars == <<disk, live, reserved, running, stateless, pc, at, kind, outcome,
              phase, todo, failed, twins, boots, calls>>

Fails(id) == failed' = failed \cup {id} /\ UNCHANGED twins
Goto(a, step) == pc' = [pc EXCEPT ![a] = step]
Known(id) == id \in live \/ id \in reserved
OwnEnv(id) == id \notin Foreign
Stamped == [ended |-> "torn_ended", error |-> "torn_error"]
Archived(m) == IF m = "torn_ended" THEN "ended"
               ELSE IF m = "torn_error" THEN "error" ELSE m

\* list_open_manifests: the open ones; a stamped one is archived on the way.
OpenManifests == {id \in Ids : disk[id] = "open"}
Relocated == [id \in Ids |-> Archived(disk[id])]
\* LocalAppClient.manifests: read the disk, then leave out what the registry knows.
RestorableAnew == {id \in OpenManifests : OwnEnv(id)}
Restorable == {id \in OpenManifests : ~Known(id) /\ OwnEnv(id)}

HostInit ==
    /\ disk \in [Ids -> {"none", "open", "torn_ended"}]
    /\ live = {} /\ reserved = {} /\ stateless = {} /\ failed = {} /\ twins = {}
    /\ running = [id \in Ids |-> 0]
    /\ pc = [a \in Actors |-> "idle"]
    /\ at \in [Actors -> {CHOOSE id \in Ids : TRUE}]
    /\ kind = [a \in Actors |-> "none"]
    /\ outcome = [a \in Actors |-> "ended"]
    /\ phase = "down" /\ todo = {} /\ boots = 0 /\ calls = 0

---------------------------------------------------------------------------
(* The requests. *)

Request(a) ==
    /\ phase = "serving" /\ a \in Requests /\ pc[a] = "idle"
    /\ calls < MaxCalls /\ calls' = calls + 1

Begin(a, id, what, step) ==
    /\ at' = [at EXCEPT ![a] = id]
    /\ kind' = [kind EXCEPT ![a] = what]
    /\ outcome' = [outcome EXCEPT ![a] = "ended"]
    /\ Goto(a, step)

\* create_session: a fresh id of a collected workflow.
FreshId(id) == disk[id] = "none" /\ ~Known(id) /\ \A a \in Actors : pc[a] # "idle" => at[a] # id
Create(a, id) ==
    /\ Request(a)
    /\ FreshId(id) /\ OwnEnv(id) /\ WorkflowOf[id] \in Workflows
    /\ Begin(a, id, "create", "build")
    /\ UNCHANGED <<record, memory, host, history>>

\* restore_session_target: not live, an open manifest of the own environment, a
\* collected workflow, not reserved. The answers are read one after the other; the
\* build reserves later.
InFlight(id) == \E a \in Actors : pc[a] # "idle" /\ at[a] = id
Restore(a, id) ==
    /\ Request(a)
    /\ id \in Restorable /\ WorkflowOf[id] \in Workflows
    /\ twins' = IF InFlight(id) THEN twins \cup {id} ELSE twins
    /\ disk' = Relocated
    /\ Begin(a, id, "restore", "build")
    /\ UNCHANGED <<stateless, memory, host, failed>>

\* Session.end of a session the registry serves.
End(a, id) ==
    /\ Request(a)
    /\ id \in live /\ running[id] > 0
    /\ Begin(a, id, "end", IF id \in stateless THEN "idle" ELSE "stamp")
    /\ running' = [running EXCEPT ![id] = @ - 1]
    /\ UNCHANGED <<record, live, reserved, host, history>>

\* A client asks for the manifests: the disk first, the registry after it.
ListManifests ==
    /\ phase = "serving" /\ calls < MaxCalls /\ calls' = calls + 1
    /\ disk' = Relocated
    /\ UNCHANGED <<stateless, memory, actor, host, history>>

---------------------------------------------------------------------------
(* create_session. *)

\* initialize_workflow builds the workflow and its session, then the id is reserved.
Reserve(a) ==
    /\ pc[a] = "build"
    /\ reserved' = reserved \cup {at[a]}
    /\ Goto(a, "tasks")
    /\ UNCHANGED <<record, live, running, at, kind, outcome, host, history, calls>>

\* An error before the reservation refuses the request.
BuildFails(a) ==
    /\ pc[a] = "build"
    /\ Fails(at[a])
    /\ Goto(a, "idle")
    /\ UNCHANGED <<record, memory, at, kind, outcome, host, calls>>

\* initialize_tasks and the eligibility pass.
InitializeTasks(a) ==
    /\ pc[a] = "tasks"
    /\ Goto(a, "state")
    /\ UNCHANGED <<record, memory, at, kind, outcome, host, history, calls>>

\* Workflow.init_state saves the manifest last; its failure costs the state only.
InitState(a) ==
    /\ pc[a] = "state"
    /\ \/ /\ disk' = [disk EXCEPT ![at[a]] = "open"]
          /\ UNCHANGED stateless
       \/ /\ stateless' = stateless \cup {at[a]}
          /\ UNCHANGED disk
    /\ Goto(a, IF kind[a] = "restore" THEN "seed" ELSE "register")
    /\ UNCHANGED <<memory, at, kind, outcome, host, history, calls>>

Seed(a) ==
    /\ pc[a] = "seed"
    /\ Goto(a, "register")
    /\ UNCHANGED <<record, memory, at, kind, outcome, host, history, calls>>

\* An error while the id is reserved: the reservation goes, then the session is
\* marked errored, which archives the manifest it has saved.
InitFails(a) ==
    /\ pc[a] \in {"tasks", "seed"}
    /\ reserved' = reserved \ {at[a]} /\ live' = live \ {at[a]}
    /\ Fails(at[a])
    /\ outcome' = [outcome EXCEPT ![a] = "error"]
    /\ Goto(a, IF pc[a] = "seed" /\ at[a] \notin stateless THEN "stamp" ELSE "idle")
    /\ UNCHANGED <<record, running, at, kind, host, calls>>

Register(a) ==
    /\ pc[a] = "register"
    /\ reserved' = reserved \ {at[a]}
    /\ live' = live \cup {at[a]}
    /\ running' = [running EXCEPT ![at[a]] = @ + 1]
    /\ Goto(a, "idle")
    /\ UNCHANGED <<record, at, kind, outcome, host, history, calls>>

\* FilesystemStateStore._mark: stamp the manifest, then move its directory. A
\* reader that saw the stamp may have moved it already.
Stamp(a) ==
    /\ pc[a] = "stamp"
    /\ IF disk[at[a]] = "open"
       THEN disk' = [disk EXCEPT ![at[a]] = Stamped[outcome[a]]] /\ Goto(a, "move")
       ELSE UNCHANGED disk /\ Goto(a, "idle")
    /\ UNCHANGED <<stateless, memory, at, kind, outcome, host, history, calls>>
Move(a) ==
    /\ pc[a] = "move"
    /\ disk' = [disk EXCEPT ![at[a]] = Archived(@)]
    /\ Goto(a, "idle")
    /\ UNCHANGED <<stateless, memory, at, kind, outcome, host, history, calls>>

---------------------------------------------------------------------------
(* The process. *)

\* _handle_serve: an empty registry, then the manifests of the own environment.
Boot ==
    /\ phase = "down" /\ boots < MaxBoots
    /\ boots' = boots + 1
    /\ phase' = "restoring"
    /\ disk' = Relocated
    /\ todo' = Restorable
    /\ UNCHANGED <<stateless, memory, actor, history, calls>>

\* _restore_sessions: one manifest after the other; a failed rebuild is skipped.
RestoreNextStops(id) ==
    /\ phase = "restoring" /\ pc[Main] = "idle" /\ id \in todo
    /\ IF id \in Restorable /\ WorkflowOf[id] \in Workflows
       THEN Begin(Main, id, "restore", "build") /\ UNCHANGED history /\ todo' = todo \ {id}
       ELSE UNCHANGED actor /\ Fails(id) /\ todo' = {}
    /\ UNCHANGED <<record, memory, phase, boots, calls>>
RestoreNextRetries(id) ==
    /\ phase = "restoring" /\ pc[Main] = "idle" /\ id \in todo
    /\ IF id \in Restorable /\ WorkflowOf[id] \in Workflows
       THEN Begin(Main, id, "restore", "build") /\ UNCHANGED history /\ todo' = todo \ {id}
       ELSE UNCHANGED <<actor, todo>> /\ Fails(id)
    /\ UNCHANGED <<record, memory, phase, boots, calls>>
RestoreNext(id) ==
    /\ phase = "restoring" /\ pc[Main] = "idle" /\ id \in todo
    /\ todo' = todo \ {id}
    /\ IF id \in Restorable /\ WorkflowOf[id] \in Workflows
       THEN Begin(Main, id, "restore", "build") /\ UNCHANGED history
       ELSE UNCHANGED actor /\ Fails(id)
    /\ UNCHANGED <<record, memory, phase, boots, calls>>

\* _auto_init_sessions: the workflows that no live session satisfies.
StartAutoInit ==
    /\ phase = "restoring" /\ pc[Main] = "idle" /\ todo = {}
    /\ phase' = "auto"
    /\ todo' = AutoInit \ {WorkflowOf[id] : id \in live}
    /\ UNCHANGED <<record, memory, actor, boots, history, calls>>
AutoInitNext(w, id) ==
    /\ phase = "auto" /\ pc[Main] = "idle" /\ w \in todo
    /\ FreshId(id) /\ OwnEnv(id) /\ WorkflowOf[id] = w
    /\ todo' = todo \ {w}
    /\ Begin(Main, id, "create", "build")
    /\ UNCHANGED <<record, memory, phase, boots, history, calls>>
\* should_be_initialized says no.
AutoInitSkips(w) ==
    /\ phase = "auto" /\ pc[Main] = "idle" /\ w \in todo
    /\ todo' = todo \ {w}
    /\ UNCHANGED <<record, memory, actor, phase, boots, history, calls>>
Serve ==
    /\ phase = "auto" /\ pc[Main] = "idle" /\ todo = {}
    /\ phase' = "serving"
    /\ UNCHANGED <<record, memory, actor, todo, boots, history, calls>>

\* The process dies at any moment: the disk is what is left.
Crash ==
    /\ phase # "down" /\ boots < MaxBoots
    /\ phase' = "down" /\ todo' = {}
    /\ live' = {} /\ reserved' = {} /\ stateless' = {} /\ failed' = {} /\ twins' = {}
    /\ running' = [id \in Ids |-> 0]
    /\ pc' = [a \in Actors |-> "idle"]
    /\ kind' = [a \in Actors |-> "none"]
    /\ UNCHANGED <<disk, at, outcome, boots, calls>>

Steps(a) ==
    \/ Reserve(a) \/ BuildFails(a) \/ InitializeTasks(a) \/ InitState(a) \/ Seed(a)
    \/ InitFails(a) \/ Register(a) \/ Stamp(a) \/ Move(a)
Startup ==
    \/ Boot \/ StartAutoInit \/ Serve
    \/ \E id \in Ids : RestoreNext(id)
    \/ \E w \in AutoInit : AutoInitSkips(w) \/ \E id \in Ids : AutoInitNext(w, id)
HostNext ==
    \/ Startup \/ Crash \/ ListManifests
    \/ \E a \in Actors : Steps(a)
    \/ \E a \in Requests, id \in Ids : Create(a, id) \/ Restore(a, id) \/ End(a, id)
HostSpec == HostInit /\ [][HostNext]_hostVars
\* The startup and the threads of the requests go on; nobody has to crash.
HostFairSpec == HostSpec /\ WF_hostVars(Startup) /\ \A a \in Actors : WF_hostVars(Steps(a))

---------------------------------------------------------------------------
(* Properties. *)

\* The type of the state: disk, registry and startup of SessionRegistry, state.py.
HostTypeOK ==
    /\ disk \in [Ids -> {"none", "open", "torn_ended", "torn_error", "ended", "error"}]
    /\ live \subseteq Ids /\ reserved \subseteq Ids /\ stateless \subseteq Ids
    /\ failed \subseteq Ids /\ twins \subseteq Ids
    /\ running \in [Ids -> Nat]
    /\ pc \in [Actors -> {"idle", "build", "tasks", "state", "seed", "register",
                          "stamp", "move"}]
    /\ at \in [Actors -> Ids]
    /\ kind \in [Actors -> {"none", "create", "restore", "end"}]
    /\ outcome \in [Actors -> {"ended", "error"}]
    /\ phase \in {"down", "restoring", "auto", "serving"}
    /\ todo \subseteq Ids \cup AutoInit
    /\ boots \in 0 .. MaxBoots /\ calls \in 0 .. MaxCalls

\* One id is one session: what builds and what runs under an id never shares its
\* directory with another session of that id (SessionRegistry.reserve). Left out is
\* an id that a restore took while another call was about it: the code looks at the
\* registry before the build and reserves after it, and the two become twins.
Building(id) == {a \in Actors : at[a] = id /\ pc[a] \in {"tasks", "state", "seed", "register"}}
OneSessionPerId ==
    \A id \in Ids \ twins :
        /\ \A a, b \in Building(id) : a = b
        /\ running[id] <= 1
        /\ running[id] = 1 => Building(id) = {}

\* A serving process forgets no manifest of its environment: the session lives, it
\* builds or ends, or its rebuild failed here (Orchestrator._restore_sessions).
NothingForgotten ==
    phase = "serving" =>
        \A id \in Ids : disk[id] = "open" /\ OwnEnv(id) =>
            id \in live \cup failed \/ InFlight(id)

\* Every start reaches the point where it serves, or dies before it: no manifest
\* and no workflow keeps the startup from it (Orchestrator._handle_serve).
StartupServes == phase = "restoring" ~> phase \in {"serving", "down"}
=============================================================================
