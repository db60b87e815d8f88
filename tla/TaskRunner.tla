------------------------------ MODULE TaskRunner ------------------------------
(***************************************************************************)
(* The interactive runner: batches that check and run tasks on threads,    *)
(* over one task store, with a claim per task.                             *)
(*                                                                         *)
(* A call <<b, c, t>> is one activation of process_task or of              *)
(* _check_task_success on task t for batch b. c = t is the call the batch  *)
(* makes on its own task; c = Driver is the group pre-pass probing a       *)
(* dependency t; any other c is the call on task c probing its dependency  *)
(* t. <<b, Driver, Driver>> is the worker of the batch. Probes of one      *)
(* resolution and the tasks of one group run on a pool, so each call is a  *)
(* thread of its own.                                                      *)
(***************************************************************************)
EXTENDS TaskStatus, Integers

CONSTANTS
    Tasks, Batches,
    Driver,        \* the caller that is the worker of the batch
    NoClaim,       \* the claim of a free task
    Deps,          \* task |-> its dependent_tasks (declared dependencies)
    Order,         \* task |-> the rank of its execution_order
    Noop,          \* the tasks with no run action
    Jobs,          \* what a user may submit
    InitialStores, \* the task store when the first batch is submitted
    CanCheckOutcomes, CheckOutcomes, CanRunOutcomes, RunOutcomes,
                   \* what the hooks of a task may answer
    ReraiseErrors  \* the reraise_errors option of the orchestrator

Actions == { "check", "run", "check_single", "run_single" }
JobType == [ action : Actions, tasks : SUBSET Tasks, force_run : BOOLEAN,
             force_success : BOOLEAN, dry_run : BOOLEAN ]
NoJob == [ action |-> "check", tasks |-> {}, force_run |-> FALSE,
           force_success |-> FALSE, dry_run |-> FALSE ]

Callers == Tasks \cup { Driver }
Calls == Batches \X Callers \X Callers

ASSUME DepsAssumption == Deps \in [Tasks -> SUBSET Tasks]
\* The execution order is a topological one (graph.py).
ASSUME OrderAssumption ==
    /\ Order \in [Tasks -> Nat]
    /\ \A t \in Tasks : \A d \in Deps[t] : Order[d] < Order[t]
ASSUME DriverAssumption == Driver \notin Tasks
ASSUME NoClaimAssumption == NoClaim \notin Calls
\* A single submission is of one task (submit_run_single, submit_check_single).
ASSUME JobsAssumption ==
    /\ Jobs \subseteq JobType
    /\ \A j \in Jobs : j.action \in { "run_single", "check_single" } =>
           \A t, u \in j.tasks : t = u
\* Nothing is in progress before the first batch.
ASSUME StoresAssumption ==
    InitialStores \subseteq [Tasks -> CHECKABLE_STATUSES \cup { "SKIPPED" }]
ASSUME OutcomesAssumption ==
    /\ CanCheckOutcomes \subseteq { "yes", "block", "error" }
    /\ CheckOutcomes \subseteq { "pass", "fail", "block", "action", "error" }
    /\ CanRunOutcomes \subseteq { "yes", "block", "error" }
    /\ RunOutcomes \subseteq { "ok", "error" }
ASSUME OptionAssumption == ReraiseErrors \in BOOLEAN

VARIABLES
    store,        \* task |-> status: the main store
    runAttempted, \* the tasks that ran for real in this session
    claims,       \* task |-> the call that owns it, or NoClaim
    job,          \* batch |-> what was submitted (its tasks, its options)
    stop,         \* batch |-> the stop event of the batch
    errored,      \* batch |-> the tasks flagged as errored
    record,       \* batch |-> task |-> status: the execution records
    todo,         \* batch |-> the tasks no group has taken yet
    group,        \* batch |-> the tasks of the current group
    pc,           \* call |-> where the call is
    phase,        \* call |-> the phase of its completion check
    waitFor,      \* call |-> the active dependencies it waits for
    failed,       \* batch |-> the callers one of whose calls raised
    verdict,      \* history: task |-> the last check result under its claim
    defect        \* history: the tasks that errored after their last real run

vars == <<store, runAttempted, claims, job, stop, errored, record, todo, group,
          pc, phase, waitFor, failed, verdict, defect>>

DriverPCs == { "idle", "next", "resolve", "await", "spawn", "join", "sweep",
               "complete", "finished" }
\* Where a call owns its task: from the claim to the release.
OwnerPCs == { "process", "check", "gate", "verify", "decide", "deps", "resolve",
              "await", "depsReady", "runnability", "ready", "run", "ran",
              "release", "releaseBlock", "releaseRaise" }
CallPCs == { "idle", "claim", "wait", "guard" } \cup OwnerPCs
Phases == { "CHECK", "PRE_RUN_CHECK", "POST_RUN_CHECK" }

Worker(b) == <<b, Driver, Driver>>
Main(b, t) == <<b, t, t>>
Probe(r, t) == <<r[1], r[2], t>>  \* the probe of t that resolver r makes
IsTaskCall(f) == f[3] \in Tasks
Owns(f) == IsTaskCall(f) /\ pc[f] \in OwnerPCs

\* A noop task only checks; a single run processes whatever it is given.
IsProcess(f) ==
    /\ f[2] = f[3]
    /\ \/ job[f[1]].action = "run_single"
       \/ job[f[1]].action = "run" /\ f[3] \notin Noop

ForcesSuccess(b) == job[b].force_success /\ ~job[b].force_run

\* The stop gate at the entry of a task and of each of its checks.
StopGateUnlessForced(b) == stop[b] /\ ~job[b].force_run
StopGate(b) == stop[b]

-----------------------------------------------------------------------------
(* Status writes *)

Mirror(b, t, s) ==
    record' = [record EXCEPT ![b] = IF t \in job[b].tasks
                                    THEN [@ EXCEPT ![t] = s] ELSE @]

SetStatus(b, t, s) ==
    /\ store' = [store EXCEPT ![t] = s]
    /\ Mirror(b, t, s)
    /\ errored' = [errored EXCEPT ![b] = IF s = "RUNNING" THEN @ \ {t}
                                         ELSE IF s = "ERROR" THEN @ \cup {t}
                                         ELSE @]
    /\ defect' = IF s = "ERROR" THEN defect \cup {t}
                 ELSE IF s = "RUNNING" /\ ~job[b].dry_run THEN defect \ {t}
                 ELSE defect

NoStatus == UNCHANGED <<store, record, errored, defect>>

Goto(f, to) == pc' = [pc EXCEPT ![f] = to]

\* What every step of a call leaves alone.
BatchFrame == UNCHANGED <<job, stop, todo, group>>

-----------------------------------------------------------------------------
(* Claims *)

Entry(f) == IF IsProcess(f) THEN "process" ELSE "check"

\* Within _claim_task: the claim, and a fresh start for what its checks will say.
Take(f) ==
    /\ claims' = [claims EXCEPT ![f[3]] = f]
    /\ verdict' = [verdict EXCEPT ![f[3]] = "none"]
    /\ Goto(f, Entry(f))

\* Mutant: a claim that does not look for an owner.
AcquireClaimUnchecked(f) ==
    /\ pc[f] = "claim"
    /\ Take(f)
    /\ NoStatus /\ BatchFrame
    /\ UNCHANGED <<runAttempted, phase, waitFor, failed>>
AcquireClaim(f) ==
    /\ pc[f] = "claim"
    /\ \/ /\ claims[f[3]] = NoClaim
          /\ Take(f)
          /\ NoStatus
       \/ /\ claims[f[3]] # NoClaim
          /\ Mirror(f[1], f[3], "WAITING_FOR_RELEASE")
          /\ Goto(f, "wait")
          /\ UNCHANGED <<claims, verdict, store, errored, defect>>
    /\ BatchFrame
    /\ UNCHANGED <<runAttempted, phase, waitFor, failed>>

\* Mutant: a stopped wait that leaves the record as it was.
WaitForReleaseSilentStop(f) ==
    /\ pc[f] = "wait"
    /\ \/ /\ stop[f[1]]
          /\ Goto(f, "idle")
          /\ UNCHANGED <<claims, verdict>>
       \/ /\ ~stop[f[1]]
          /\ claims[f[3]] = NoClaim
          /\ Take(f)
    /\ NoStatus /\ BatchFrame
    /\ UNCHANGED <<runAttempted, phase, waitFor, failed>>

\* A release wakes the waiter; a stop has priority over the release.
WaitForRelease(f) ==
    /\ pc[f] = "wait"
    /\ \/ /\ stop[f[1]]
          /\ Mirror(f[1], f[3], "ABORTED")
          /\ Goto(f, "idle")
          /\ UNCHANGED <<claims, verdict, store, errored, defect>>
       \/ /\ ~stop[f[1]]
          /\ claims[f[3]] = NoClaim
          /\ Take(f)
          /\ NoStatus
    /\ BatchFrame
    /\ UNCHANGED <<runAttempted, phase, waitFor, failed>>

ReleaseTo == [ release |-> "idle", releaseBlock |-> "guard",
               releaseRaise |-> "idle" ]

\* Mutants: a release that an escaping block, or error, skips (no finally).
ReleaseClaimOn(f, exits) ==
    /\ pc[f] \in DOMAIN ReleaseTo
    /\ claims' = IF pc[f] \in exits THEN [claims EXCEPT ![f[3]] = NoClaim]
                 ELSE claims
    /\ Goto(f, ReleaseTo[pc[f]])
    /\ phase' = [phase EXCEPT ![f] = "CHECK"]
    /\ UNCHANGED failed
    /\ NoStatus /\ BatchFrame
    /\ UNCHANGED <<runAttempted, waitFor, verdict>>
ReleaseClaimUnlessBlocked(f) == ReleaseClaimOn(f, { "release", "releaseRaise" })
ReleaseClaimUnlessRaised(f) == ReleaseClaimOn(f, { "release", "releaseBlock" })

\* The claim is dropped first; a TaskBlock or an error then reaches the caller.
ReleaseClaim(f) ==
    /\ pc[f] \in DOMAIN ReleaseTo
    /\ claims' = [claims EXCEPT ![f[3]] = NoClaim]
    /\ Goto(f, ReleaseTo[pc[f]])
    /\ phase' = [phase EXCEPT ![f] = "CHECK"]
    /\ failed' = IF pc[f] = "releaseRaise"
                 THEN [failed EXCEPT ![f[1]] =
                          @ \cup { IF f[2] = f[3] THEN Driver ELSE f[2] }]
                 ELSE failed
    /\ NoStatus /\ BatchFrame
    /\ UNCHANGED <<runAttempted, waitFor, verdict>>

\* The TaskBlock handler of the batch body.
TaskBlocked(f) ==
    /\ pc[f] = "guard"
    /\ SetStatus(f[1], f[3], "BLOCKED")
    /\ Goto(f, "idle")
    /\ BatchFrame
    /\ UNCHANGED <<runAttempted, claims, phase, waitFor, failed, verdict>>
-----------------------------------------------------------------------------
(* process_task, up to the dependencies *)

OwnerFrame == BatchFrame /\ UNCHANGED <<claims, waitFor, failed>>

\* The entry of process_task: the stop gate, the ineligible and the forced
\* success early returns, then the completion check or straight to the run path.
ProcessTask(f) ==
    LET b == f[1]  t == f[3]
    IN  /\ pc[f] = "process"
        /\ \/ /\ StopGate(b)
              /\ SetStatus(b, t, "ABORTED")
              /\ Goto(f, "release")
              /\ UNCHANGED phase
           \/ /\ ~StopGate(b)
              /\ store[t] = "SKIPPED"
              /\ NoStatus
              /\ Goto(f, "release")
              /\ UNCHANGED phase
           \/ /\ ~StopGate(b) /\ store[t] # "SKIPPED" /\ ForcesSuccess(b)
              /\ IF store[t] \in CHECKABLE_STATUSES
                 THEN SetStatus(b, t, "FORCE_SUCCESS")
                 ELSE NoStatus
              /\ Goto(f, "release")
              /\ UNCHANGED phase
           \/ /\ ~StopGate(b) /\ store[t] # "SKIPPED" /\ job[b].force_run
              /\ NoStatus
              /\ Goto(f, "deps")
              /\ UNCHANGED phase
           \/ /\ ~StopGate(b) /\ ~ForcesSuccess(b) /\ ~job[b].force_run
              /\ store[t] \in PASSING_STATUSES
              /\ Mirror(b, t, store[t])
              /\ Goto(f, "release")
              /\ UNCHANGED <<store, errored, defect, phase>>
           \/ /\ ~StopGate(b) /\ ~ForcesSuccess(b) /\ ~job[b].force_run
              /\ store[t] \notin PASSING_STATUSES \cup {"SKIPPED"}
              /\ NoStatus
              /\ phase' = [phase EXCEPT ![f] = "PRE_RUN_CHECK"]
              /\ Goto(f, "check")
        /\ OwnerFrame
        /\ UNCHANGED <<runAttempted, verdict>>

\* Mutant: a blocklist instead of the allowlist.
PreRunDecisionBlocklist(f) ==
    /\ pc[f] = "decide"
    /\ Goto(f, IF store[f[3]] \in PASSING_STATUSES THEN "release" ELSE "deps")
    /\ NoStatus /\ OwnerFrame
    /\ UNCHANGED <<runAttempted, phase, verdict>>

\* Run only after a verified "not complete".
PreRunDecision(f) ==
    /\ pc[f] = "decide"
    /\ Goto(f, IF store[f[3]] = "FAILED" THEN "deps" ELSE "release")
    /\ NoStatus /\ OwnerFrame
    /\ UNCHANGED <<runAttempted, phase, verdict>>

-----------------------------------------------------------------------------
(* _check_task_success *)

CheckReturn(f) == IF phase[f] = "PRE_RUN_CHECK" THEN "decide" ELSE "release"

CheckTaskSuccess(f) ==
    LET b == f[1]  t == f[3]
    IN  /\ pc[f] = "check"
        /\ \/ /\ StopGate(b)
              /\ SetStatus(b, t, "ABORTED")
              /\ Goto(f, CheckReturn(f))
           \/ /\ ~StopGate(b)
              /\ store[t] = "SKIPPED"
              /\ NoStatus
              /\ Goto(f, CheckReturn(f))
           \/ /\ ~StopGate(b) /\ store[t] # "SKIPPED" /\ job[b].force_success
              /\ IF store[t] \in CHECKABLE_STATUSES
                 THEN SetStatus(b, t, "FORCE_SUCCESS")
                 ELSE NoStatus
              /\ Goto(f, CheckReturn(f))
           \/ /\ ~StopGate(b) /\ store[t] # "SKIPPED" /\ ~job[b].force_success
              /\ SetStatus(b, t, "CHECKING_COMPLETION")
              /\ Goto(f, "gate")
        /\ OwnerFrame
        /\ UNCHANGED <<runAttempted, phase, verdict>>

\* can_check answered. An error is marked and, unless it is raised again, the
\* completion check follows it.
CheckGate(f) ==
    /\ pc[f] = "gate"
    /\ \E answer \in CanCheckOutcomes :
          \/ /\ answer = "yes"
             /\ NoStatus
             /\ Goto(f, "verify")
          \/ /\ answer = "block"
             /\ SetStatus(f[1], f[3], "BLOCKED")
             /\ Goto(f, CheckReturn(f))
          \/ /\ answer = "error"
             /\ SetStatus(f[1], f[3], "ERROR")
             /\ Goto(f, IF ReraiseErrors THEN "releaseRaise" ELSE "verify")
    /\ OwnerFrame
    /\ UNCHANGED <<runAttempted, phase, verdict>>

\* Mutant: the outcome of a passing check forgets the flag of the batch.
PassedStatusUnflagged(b, t) ==
    IF t \in Noop \cup runAttempted THEN "COMPLETED" ELSE "COMPLETED_PREVIOUSLY"

\* A check that passes does not remove a defect of this batch.
PassedStatus(b, t) ==
    IF t \in errored[b] THEN "COMPLETED_WITH_ERROR"
    ELSE IF t \in Noop \cup runAttempted THEN "COMPLETED"
    ELSE "COMPLETED_PREVIOUSLY"

NotPassedStatus == [ fail |-> "FAILED", block |-> "BLOCKED",
                     action |-> "ACTION_REQUIRED", error |-> "ERROR" ]

CheckedStatus(b, t, answer) ==
    IF answer = "pass" THEN PassedStatus(b, t) ELSE NotPassedStatus[answer]

\* check answered: its status is written under the claim.
CheckVerdict(f) ==
    /\ pc[f] = "verify"
    /\ \E answer \in CheckOutcomes :
          /\ SetStatus(f[1], f[3], CheckedStatus(f[1], f[3], answer))
          /\ Goto(f, IF answer = "error" /\ ReraiseErrors
                     THEN "releaseRaise" ELSE CheckReturn(f))
          /\ verdict' = [verdict EXCEPT ![f[3]] = answer]
    /\ OwnerFrame
    /\ UNCHANGED <<runAttempted, phase>>
-----------------------------------------------------------------------------
(* Dependencies: the pre-pass of a group, and the check of one task *)

DepsOf(r) == IF r[3] = Driver THEN UNION { Deps[t] : t \in group[r[1]] }
             ELSE Deps[r[3]]

\* Mutant: the tasks of a group do not share the result of the pre-pass.
CheckedDepsForgotten(b) == {}

\* The pre-pass of a group already probed these; a single run has no pre-pass.
CheckedDeps(b) ==
    IF job[b].action = "run" /\ ~ForcesSuccess(b)
    THEN UNION { Deps[t] : t \in group[b] } ELSE {}
Excluded(r) == IF r[3] = Driver THEN {} ELSE CheckedDeps(r[1])

Resolved(r) == IF r[3] = Driver THEN "spawn" ELSE "depsReady"

\* Probe the settled ones now, wait for the active ones.
Resolve(r, deps) ==
    LET unsatisfied == { d \in deps : store[d] \in UNSATISFIED_STATUSES }
        active == { d \in unsatisfied : store[d] \in ACTIVE_STATUSES }
        good == (unsatisfied \ active) \ Excluded(r)
    IN  /\ waitFor' = [waitFor EXCEPT ![r] = active]
        /\ pc' = [f \in Calls |->
                    IF f = r THEN "await"
                    ELSE IF \E d \in good : f = Probe(r, d) THEN "claim"
                    ELSE pc[f]]

CheckDependencies(f) ==
    /\ pc[f] = "deps"
    /\ SetStatus(f[1], f[3], "CHECKING_DEPENDENCIES")
    /\ Goto(f, "resolve")
    /\ OwnerFrame
    /\ UNCHANGED <<runAttempted, phase, verdict>>

ResolverFrame ==
    NoStatus /\ BatchFrame
    /\ UNCHANGED <<runAttempted, claims, phase, failed, verdict>>

ResolveDependencies(r) ==
    /\ pc[r] = "resolve"
    /\ Resolve(r, DepsOf(r))
    /\ ResolverFrame

ProbesDone(r) == \A d \in Tasks : d = r[3] \/ pc[Probe(r, d)] = "idle"

\* The loop of the resolution: an error of a probe escapes; a stop ends the
\* wait; otherwise each dependency that settled unsatisfied is probed.
AwaitDependencies(r) ==
    /\ pc[r] = "await"
    /\ ProbesDone(r)
    /\ \/ /\ r[3] \in failed[r[1]]
          /\ Goto(r, IF r[3] = Driver THEN "complete" ELSE "releaseRaise")
          /\ waitFor' = [waitFor EXCEPT ![r] = {}]
       \/ /\ r[3] \notin failed[r[1]]
          /\ waitFor[r] = {} \/ stop[r[1]]
          /\ Goto(r, Resolved(r))
          /\ waitFor' = [waitFor EXCEPT ![r] = {}]
       \/ /\ r[3] \notin failed[r[1]] /\ ~stop[r[1]]
          /\ \E d \in waitFor[r] : store[d] \notin ACTIVE_STATUSES
          /\ Resolve(r, waitFor[r])
    /\ ResolverFrame

-----------------------------------------------------------------------------
(* process_task, from the dependencies to the final check *)

FailedDeps(f) ==
    LET failing == { d \in Deps[f[3]] : store[d] \in UNSATISFIED_STATUSES }
    IN  /\ pc[f] = "depsReady"
        /\ \/ /\ failing # {}
              /\ SetStatus(f[1], f[3], "BLOCKED")
              /\ Goto(f, "releaseBlock")
           \/ /\ failing = {}
              /\ SetStatus(f[1], f[3], "CHECKING_RUNNABILITY")
              /\ Goto(f, "runnability")
        /\ OwnerFrame
        /\ UNCHANGED <<runAttempted, phase, verdict>>

RunnableStatus == [ yes |-> "READY_TO_RUN", block |-> "BLOCKED",
                    error |-> "ERROR" ]

CheckTaskRunnability(f) ==
    /\ pc[f] = "runnability"
    /\ \E answer \in CanRunOutcomes :
          /\ SetStatus(f[1], f[3], RunnableStatus[answer])
          /\ Goto(f, IF answer = "error" /\ ReraiseErrors
                     THEN "releaseRaise" ELSE "ready")
    /\ OwnerFrame
    /\ UNCHANGED <<runAttempted, phase, verdict>>

\* RUNNING is written, and the attempt counts before the hook answers.
StartRun(f) ==
    LET b == f[1]  t == f[3]
    IN  /\ pc[f] = "ready"
        /\ \/ /\ store[t] = "ERROR"
              /\ NoStatus
              /\ Goto(f, "release")
              /\ UNCHANGED runAttempted
           \/ /\ store[t] \notin { "ERROR", "READY_TO_RUN" }
              /\ NoStatus
              /\ Goto(f, "releaseBlock")
              /\ UNCHANGED runAttempted
           \/ /\ store[t] = "READY_TO_RUN"
              /\ SetStatus(b, t, "RUNNING")
              /\ Goto(f, "run")
              /\ runAttempted' = IF job[b].dry_run THEN runAttempted
                                 ELSE runAttempted \cup {t}
        /\ OwnerFrame
        /\ UNCHANGED <<phase, verdict>>

RunTask(f) ==
    /\ pc[f] = "run"
    /\ \E answer \in RunOutcomes :
          /\ SetStatus(f[1], f[3],
                       IF answer = "error" THEN "ERROR" ELSE "RUN_FINISHED")
          /\ Goto(f, IF answer = "error" /\ ReraiseErrors
                     THEN "releaseRaise" ELSE "ran")
    /\ OwnerFrame
    /\ UNCHANGED <<runAttempted, phase, verdict>>

AfterRun(f) ==
    /\ pc[f] = "ran"
    /\ \/ /\ store[f[3]] = "ERROR"
          /\ Goto(f, "release")
          /\ UNCHANGED phase
       \/ /\ store[f[3]] # "ERROR"
          /\ phase' = [phase EXCEPT ![f] = "POST_RUN_CHECK"]
          /\ Goto(f, "check")
    /\ NoStatus /\ OwnerFrame
    /\ UNCHANGED <<runAttempted, verdict>>
-----------------------------------------------------------------------------
(* The batch: submission, groups, stop, completion *)

DriverFrame ==
    UNCHANGED <<runAttempted, claims, phase, failed, verdict, waitFor>>

\* Admission filters the ineligible tasks, snapshots the flagged ones and gives
\* every task its record.
Submit(b, j) ==
    LET eligible == { t \in j.tasks : store[t] # "SKIPPED" }
    IN  /\ pc[Worker(b)] = "idle"
        /\ eligible # {}
        /\ job' = [job EXCEPT ![b] = [j EXCEPT !.tasks = eligible]]
        /\ todo' = [todo EXCEPT ![b] = eligible]
        /\ errored' = [errored EXCEPT ![b] =
              { t \in Tasks : store[t] \in { "ERROR", "COMPLETED_WITH_ERROR" } }]
        /\ record' = [record EXCEPT ![b] =
              [t \in Tasks |-> IF t \in eligible THEN "READY_TO_PROCESS"
                               ELSE "INITIALIZED"]]
        /\ Goto(Worker(b), "next")
        /\ UNCHANGED <<store, stop, group, defect>>
        /\ DriverFrame

\* A stop only sets the event of the batch.
RequestStop(b) ==
    /\ pc[Worker(b)] \notin { "idle", "finished" }
    /\ ~stop[b]
    /\ stop' = [stop EXCEPT ![b] = TRUE]
    /\ UNCHANGED <<store, runAttempted, claims, job, errored, record, todo,
                   group, pc, phase, waitFor, failed, verdict, defect>>

FirstGroup(tasks) ==
    { t \in tasks : \A u \in tasks : Order[t] <= Order[u] }

\* A run takes the tasks rank by rank and stops between two ranks.
NextGroup(b) ==
    LET w == Worker(b)
        prepass == job[b].action = "run"
        taken == IF prepass THEN FirstGroup(todo[b]) ELSE todo[b]
    IN  /\ pc[w] = "next"
        /\ \/ /\ todo[b] = {} \/ (prepass /\ stop[b])
              /\ Goto(w, "sweep")
              /\ UNCHANGED <<todo, group>>
           \/ /\ todo[b] # {} /\ ~(prepass /\ stop[b])
              /\ group' = [group EXCEPT ![b] = taken]
              /\ todo' = [todo EXCEPT ![b] = @ \ taken]
              /\ Goto(w, IF prepass /\ ~ForcesSuccess(b) THEN "resolve"
                         ELSE "spawn")
        /\ NoStatus
        /\ UNCHANGED <<job, stop>>
        /\ DriverFrame

StartGroup(b) ==
    LET w == Worker(b)
    IN  /\ pc[w] = "spawn"
        /\ pc' = [f \in Calls |->
                    IF f = w THEN "join"
                    ELSE IF \E t \in group[b] : f = Main(b, t) THEN "claim"
                    ELSE pc[f]]
        /\ NoStatus /\ BatchFrame /\ DriverFrame

\* Mutant: the worker does not wait for the threads of its group.
JoinGroupDetached(b) ==
    /\ pc[Worker(b)] = "join"
    /\ Goto(Worker(b), "next")
    /\ NoStatus /\ BatchFrame /\ DriverFrame
JoinGroup(b) ==
    LET w == Worker(b)
    IN  /\ pc[w] = "join"
        /\ \A t \in group[b] : pc[Main(b, t)] = "idle"
        /\ Goto(w, IF Driver \in failed[b] THEN "complete" ELSE "next")
        /\ NoStatus /\ BatchFrame /\ DriverFrame

Unstarted(b) == { t \in job[b].tasks : record[b][t] = "READY_TO_PROCESS" }

\* A stopped bulk batch aborts the tasks whose record nobody touched.
AbortUnstarted(b) ==
    LET w == Worker(b)
        sweeps == stop[b] /\ job[b].action \in { "check", "run" }
    IN  /\ pc[w] = "sweep"
        /\ \/ /\ sweeps
              /\ \E t \in Unstarted(b) : SetStatus(b, t, "ABORTED")
              /\ UNCHANGED pc
           \/ /\ ~sweeps \/ Unstarted(b) = {}
              /\ Goto(w, "complete")
              /\ NoStatus
        /\ BatchFrame /\ DriverFrame

CompleteBatch(b) ==
    /\ pc[Worker(b)] = "complete"
    /\ Goto(Worker(b), "finished")
    /\ NoStatus /\ BatchFrame /\ DriverFrame

\* Every batch finished: the session is idle.
AllFinished ==
    /\ \A b \in Batches : pc[Worker(b)] = "finished"
    /\ UNCHANGED vars

-----------------------------------------------------------------------------
Init ==
    /\ store \in InitialStores
    /\ runAttempted = {}
    /\ claims = [t \in Tasks |-> NoClaim]
    /\ job = [b \in Batches |-> NoJob]
    /\ stop = [b \in Batches |-> FALSE]
    /\ errored = [b \in Batches |-> {}]
    /\ record = [b \in Batches |-> [t \in Tasks |-> "INITIALIZED"]]
    /\ todo = [b \in Batches |-> {}]
    /\ group = [b \in Batches |-> {}]
    /\ pc = [f \in Calls |-> "idle"]
    /\ phase = [f \in Calls |-> "CHECK"]
    /\ waitFor = [f \in Calls |-> {}]
    /\ failed = [b \in Batches |-> {}]
    /\ verdict = [t \in Tasks |-> "none"]
    /\ defect = { t \in Tasks : store[t] \in { "ERROR", "COMPLETED_WITH_ERROR" } }

\* One step of the call f on a task.
CallStep(f) ==
    \/ AcquireClaim(f) \/ WaitForRelease(f) \/ ReleaseClaim(f) \/ TaskBlocked(f)
    \/ ProcessTask(f) \/ PreRunDecision(f)
    \/ CheckTaskSuccess(f) \/ CheckGate(f) \/ CheckVerdict(f)
    \/ CheckDependencies(f) \/ ResolveDependencies(f) \/ AwaitDependencies(f)
    \/ FailedDeps(f) \/ CheckTaskRunnability(f)
    \/ StartRun(f) \/ RunTask(f) \/ AfterRun(f)

\* One step of the worker of batch b.
WorkerStep(b) ==
    \/ NextGroup(b) \/ StartGroup(b) \/ JoinGroup(b)
    \/ ResolveDependencies(Worker(b)) \/ AwaitDependencies(Worker(b))
    \/ AbortUnstarted(b) \/ CompleteBatch(b)

TaskCalls == Batches \X Callers \X Tasks

UserStep == \E b \in Batches : RequestStop(b) \/ \E j \in Jobs : Submit(b, j)

Next ==
    \/ UserStep
    \/ \E b \in Batches : WorkerStep(b)
    \/ \E f \in TaskCalls : CallStep(f)
    \/ AllFinished

Spec == Init /\ [][Next]_vars

\* Every thread runs and every hook returns. A user owes nothing.
FairSpec ==
    /\ Spec
    /\ \A b \in Batches : WF_vars(WorkerStep(b))
    /\ \A f \in TaskCalls : WF_vars(CallStep(f))
-----------------------------------------------------------------------------
(* Properties *)

\* Every variable has its type.
TypeOK ==
    /\ store \in [Tasks -> TaskStatus]
    /\ runAttempted \subseteq Tasks
    /\ claims \in [Tasks -> Calls \cup { NoClaim }]
    /\ job \in [Batches -> JobType]
    /\ stop \in [Batches -> BOOLEAN]
    /\ errored \in [Batches -> SUBSET Tasks]
    /\ record \in [Batches -> [Tasks -> TaskStatus]]
    /\ todo \in [Batches -> SUBSET Tasks]
    /\ group \in [Batches -> SUBSET Tasks]
    /\ pc \in [Calls -> CallPCs \cup DriverPCs]
    /\ phase \in [Calls -> Phases]
    /\ waitFor \in [Calls -> SUBSET Tasks]
    /\ failed \in [Batches -> SUBSET Callers]
    /\ verdict \in [Tasks -> { "none", "pass", "fail", "block", "action",
                               "error" }]
    /\ defect \subseteq Tasks

\* Two calls never check or run one task at the same time, whatever batch or
\* thread they are of (InteractiveRunner._claim_task).
OneOwnerPerTask ==
    \A f, g \in Calls : Owns(f) /\ Owns(g) /\ f[3] = g[3] => f = g

\* A claim is always the claim of a call that still works on the task: an early
\* return, a block or an error that escapes never leaks one.
NoLeakedClaim ==
    \A t \in Tasks : claims[t] # NoClaim =>
        claims[t][3] = t /\ Owns(claims[t])

\* The converse of NoLeakedClaim: a call that works on a task holds its claim.
OwnersHoldClaims == \A f \in Calls : Owns(f) => claims[f[3]] = f

\* Only a call of a batch on its own task goes past its completion check.
ProbesOnlyCheck ==
    \A f \in TaskCalls : f[2] # f[3] =>
        /\ phase[f] = "CHECK"
        /\ pc[f] \in { "idle", "claim", "wait", "check", "gate", "verify",
                       "release", "releaseRaise" }

\* A resolver that is not waiting for its probes has none alive.
ProbesAreAwaited ==
    \A b \in Batches, c \in Callers, x \in Tasks :
        x # c /\ pc[<<b, c, c>>] # "await" => pc[<<b, c, x>>] = "idle"

\* Only the current group of a worker that joins it is alive.
GroupIsJoined ==
    \A b \in Batches, x \in Tasks :
        pc[Worker(b)] # "join" \/ x \notin group[b] => pc[Main(b, x)] = "idle"

\* The inductive invariant behind OneOwnerPerTask and NoLeakedClaim.
ClaimInv ==
    /\ OwnersHoldClaims
    /\ NoLeakedClaim
    /\ ProbesOnlyCheck
    /\ ProbesAreAwaited
    /\ GroupIsJoined

\* A task runs only right after its own check answered "not complete" under the
\* same claim, unless the batch forces the run: never on a block, an error or an
\* answer some other call got (BaseRunner.process_task).
NoUnverifiedRun ==
    \A f \in TaskCalls : pc[f] = "run" =>
        job[f[1]].force_run \/ verdict[f[3]] = "fail"

\* While no other batch is alive, the dependencies of a running task stay
\* satisfied for as long as it runs: no sibling of its group probes them again.
AloneInBatch(b) == \A c \in Batches \ {b} : pc[Worker(c)] = "idle"
DepsHoldWhileRunning ==
    \A f \in TaskCalls : pc[f] = "run" /\ AloneInBatch(f[1]) =>
        \A d \in Deps[f[3]] : store[d] \notin UNSATISFIED_STATUSES

\* A finished batch left nothing running: no call of it is alive and it owns no
\* task (_execute_batch joins its pools before it completes).
FinishedBatchIsQuiet ==
    \A b \in Batches : pc[Worker(b)] = "finished" =>
        /\ \A f \in TaskCalls : f[1] = b => pc[f] = "idle"
        /\ \A t \in Tasks : claims[t] # NoClaim => claims[t][1] # b

\* The history of a batch that no error cut short shows a settled outcome for
\* each of its tasks: none is left in progress, unstarted or waiting.
SettledOutcomes ==
    PASSING_STATUSES \cup { "FAILED", "ERROR", "BLOCKED", "ABORTED",
                            "ACTION_REQUIRED" }
FinishedRecordsSettle ==
    \A b \in Batches : pc[Worker(b)] = "finished" /\ failed[b] = {} =>
        \A t \in job[b].tasks : record[b][t] \in SettledOutcomes

\* A defect stays visible: after an error, no check alone relabels the task a
\* clean success.
DefectStaysVisible ==
    \A t \in defect : store[t] \notin { "COMPLETED", "COMPLETED_PREVIOUSLY" }

\* A stop is seen at the next task boundary: a call that had not begun when the
\* stop came never runs its task, even under force_run.
StopPreventsRun ==
    \A b \in Batches, t \in Tasks :
        [](stop[b] /\ pc[Main(b, t)] \in { "idle", "claim", "wait", "process" }
             => [](pc[Main(b, t)] # "run"))

\* Every batch completes: claims and dependency waits never hold each other up.
BatchCompletes ==
    \A b \in Batches : pc[Worker(b)] = "next" ~> pc[Worker(b)] = "finished"
=============================================================================
