--------------------------- MODULE TaskRunnerProofs ---------------------------
(***************************************************************************)
(* Proofs about TaskRunner, for every set of tasks, dependencies, batches  *)
(* and submissions: its types, that two calls never own one task, and its  *)
(* outcomes (what a task runs upon, what stays true while it runs, what    *)
(* its record and its status show when its batch is over).                 *)
(***************************************************************************)
EXTENDS TaskRunner, TLAPS

\* A call is the triple of its components.
LEMMA CallTriple ==
    ASSUME NEW f \in Calls
    PROVE  /\ f[1] \in Batches /\ f[2] \in Callers /\ f[3] \in Callers
           /\ f = <<f[1], f[2], f[3]>>
BY DEF Calls

\* A task call is a call.
LEMMA TaskCallsAreCalls == TaskCalls \subseteq Calls
BY DEF TaskCalls, Calls, Callers

\* The worker of a batch is a call.
LEMMA WorkerIsCall == \A b \in Batches : Worker(b) \in Calls
BY DEF Worker, Calls, Callers

\* The job of a batch nobody submitted has the type of a job.
LEMMA NoJobType == NoJob \in JobType
BY DEF NoJob, JobType, Actions

\* set_status keeps the types of what it writes.
LEMMA StatusWrite ==
    ASSUME TypeOK, NEW b \in Batches, NEW t \in Tasks, NEW s \in TaskStatus,
           SetStatus(b, t, s)
    PROVE  /\ store' \in [Tasks -> TaskStatus]
           /\ record' \in [Batches -> [Tasks -> TaskStatus]]
           /\ errored' \in [Batches -> SUBSET Tasks]
           /\ defect' \subseteq Tasks
BY DEF TypeOK, SetStatus, Mirror

\* A mirrored status keeps the type of the records.
LEMMA MirrorWrite ==
    ASSUME TypeOK, NEW b \in Batches, NEW t \in Tasks, NEW s \in TaskStatus,
           Mirror(b, t, s)
    PROVE  record' \in [Batches -> [Tasks -> TaskStatus]]
BY DEF TypeOK, Mirror

\* Taking a claim keeps the types of what it writes.
LEMMA TakeType ==
    ASSUME TypeOK, NEW f \in TaskCalls, Take(f)
    PROVE  /\ claims' \in [Tasks -> Calls \cup { NoClaim }]
           /\ pc' \in [Calls -> CallPCs \cup DriverPCs]
           /\ verdict' \in [Tasks -> { "none", "pass", "fail", "block",
                                       "action", "error" }]
<1> f \in Calls /\ f[3] \in Tasks
  BY TaskCallsAreCalls DEF TaskCalls
<1> QED
  BY DEF TypeOK, Take, Entry, Goto, CallPCs, OwnerPCs

\* The initial states are typed.
LEMMA InitTypeOK == Init => TypeOK
<1> SUFFICES ASSUME Init PROVE TypeOK
  OBVIOUS
<1> USE DEF Init
<1>1. store \in [Tasks -> TaskStatus]
  BY StoresAssumption
     DEF CHECKABLE_STATUSES, RUNNABLE_STATUSES, PASSING_STATUSES, TaskStatus
<1>2. job \in [Batches -> JobType]
  BY NoJobType
<1>3. record \in [Batches -> [Tasks -> TaskStatus]]
  BY DEF TaskStatus
<1>4. pc \in [Calls -> CallPCs \cup DriverPCs] /\ phase \in [Calls -> Phases]
  BY DEF CallPCs, DriverPCs, Phases
<1>5. claims \in [Tasks -> Calls \cup { NoClaim }]
  OBVIOUS
<1> QED
  BY <1>1, <1>2, <1>3, <1>4, <1>5 DEF TypeOK

-----------------------------------------------------------------------------
(* Type correctness, one lemma for the calls and one for the workers *)

\* Every step of a call keeps the types.
LEMMA CallStepTypeOK ==
    ASSUME TypeOK, NEW f \in TaskCalls, CallStep(f)
    PROVE  TypeOK'
<1> f \in Calls /\ f[1] \in Batches /\ f[2] \in Callers /\ f[3] \in Tasks
  BY TaskCallsAreCalls DEF TaskCalls
<1> USE DEF TypeOK, BatchFrame, OwnerFrame, ResolverFrame, NoStatus, Goto,
            CallPCs, DriverPCs, OwnerPCs, Phases, TaskCalls
<1>1. CASE AcquireClaim(f)
  BY <1>1, MirrorWrite, TakeType DEF AcquireClaim, TaskStatus
<1>2. CASE WaitForRelease(f)
  <2>1. CASE stop[f[1]]
    <3>1. record' \in [Batches -> [Tasks -> TaskStatus]]
      <4>1. Mirror(f[1], f[3], "ABORTED") /\ "ABORTED" \in TaskStatus /\ f[1] \in Batches /\ f[3] \in Tasks
        BY <1>2, <2>1 DEF WaitForRelease, TaskStatus
      <4> QED
        BY <4>1 DEF Mirror
    <3>2. pc' \in [Calls -> CallPCs \cup DriverPCs]
      <4>1. pc' = [pc EXCEPT ![f] = "idle"]
        BY <1>2, <2>1, Zenon DEF WaitForRelease
      <4> QED
        BY <4>1
    <3> QED
      BY <1>2, <2>1, <3>1, <3>2 DEF WaitForRelease
  <2>2. CASE ~stop[f[1]]
    BY <1>2, <2>2, TakeType DEF WaitForRelease
  <2> QED
    BY <2>1, <2>2
<1>3. CASE ReleaseClaim(f)
  BY <1>3, DriverAssumption DEF ReleaseClaim, ReleaseTo, Callers
<1>4. CASE TaskBlocked(f)
  BY <1>4, StatusWrite DEF TaskBlocked, TaskStatus
<1>5. CASE ProcessTask(f)
  <2>1. pc' \in [Calls -> CallPCs \cup DriverPCs] /\ phase' \in [Calls -> Phases]
    BY <1>5 DEF ProcessTask
  <2>2. /\ store' \in [Tasks -> TaskStatus]
        /\ record' \in [Batches -> [Tasks -> TaskStatus]]
        /\ errored' \in [Batches -> SUBSET Tasks]
        /\ defect' \subseteq Tasks
    <3>1. store[f[3]] \in TaskStatus /\ {"ABORTED", "FORCE_SUCCESS"} \subseteq TaskStatus
      BY DEF TaskStatus
    <3> QED
      BY <1>5, <3>1, StatusWrite, MirrorWrite DEF ProcessTask
  <2> QED
    BY <1>5, <2>1, <2>2 DEF ProcessTask
<1>6. CASE PreRunDecision(f)
  BY <1>6 DEF PreRunDecision
<1>7. CASE CheckTaskSuccess(f)
  BY <1>7, StatusWrite DEF CheckTaskSuccess, CheckReturn, TaskStatus
<1>8. CASE CheckGate(f)
  BY <1>8, StatusWrite DEF CheckGate, CheckReturn, TaskStatus
<1>9. CASE CheckVerdict(f)
  <2> PICK answer \in CheckOutcomes :
           /\ SetStatus(f[1], f[3], CheckedStatus(f[1], f[3], answer))
           /\ Goto(f, IF answer = "error" /\ ReraiseErrors
                      THEN "releaseRaise" ELSE CheckReturn(f))
           /\ verdict' = [verdict EXCEPT ![f[3]] = answer]
    BY <1>9 DEF CheckVerdict
  <2>1. CheckedStatus(f[1], f[3], answer) \in TaskStatus
    BY OutcomesAssumption DEF CheckedStatus, PassedStatus, NotPassedStatus, TaskStatus
  <2>2. pc' \in [Calls -> CallPCs \cup DriverPCs]
    BY DEF CheckReturn
  <2>3. verdict' \in [Tasks -> { "none", "pass", "fail", "block", "action", "error" }]
    BY OutcomesAssumption
  <2> QED
    BY <1>9, <2>1, <2>2, <2>3, StatusWrite DEF CheckVerdict
<1>10. CASE CheckDependencies(f)
  BY <1>10, StatusWrite DEF CheckDependencies, TaskStatus
<1>11. CASE ResolveDependencies(f)
  BY <1>11, DepsAssumption DEF ResolveDependencies, Resolve, DepsOf
<1>12. CASE AwaitDependencies(f)
  <2>1. pc' \in [Calls -> CallPCs \cup DriverPCs]
    <3>1. CASE Resolve(f, waitFor[f])
      BY <3>1 DEF Resolve
    <3>2. CASE Goto(f, "releaseRaise") \/ Goto(f, "complete") \/ Goto(f, Resolved(f))
      BY <3>2 DEF Resolved
    <3> QED
      BY <1>12, <3>1, <3>2 DEF AwaitDependencies
  <2>2. waitFor' \in [Calls -> SUBSET Tasks]
    BY <1>12 DEF AwaitDependencies, Resolve
  <2> QED
    BY <1>12, <2>1, <2>2 DEF AwaitDependencies
<1>13. CASE FailedDeps(f)
  BY <1>13, StatusWrite DEF FailedDeps, TaskStatus
<1>14. CASE CheckTaskRunnability(f)
  BY <1>14, StatusWrite, OutcomesAssumption DEF CheckTaskRunnability, RunnableStatus, TaskStatus
<1>15. CASE StartRun(f)
  BY <1>15, StatusWrite DEF StartRun, TaskStatus
<1>16. CASE RunTask(f)
  BY <1>16, StatusWrite DEF RunTask, TaskStatus
<1>17. CASE AfterRun(f)
  BY <1>17 DEF AfterRun
<1> QED
  BY <1>1, <1>2, <1>3, <1>4, <1>5, <1>6, <1>7, <1>8, <1>9, <1>10, <1>11,
     <1>12, <1>13, <1>14, <1>15, <1>16, <1>17 DEF CallStep

\* Every step of a worker keeps the types.
LEMMA WorkerStepTypeOK ==
    ASSUME TypeOK, NEW b \in Batches, WorkerStep(b)
    PROVE  TypeOK'
<1> DEFINE w == Worker(b)
<1> w \in Calls /\ w[1] = b /\ w[3] = Driver
  BY WorkerIsCall DEF Worker
<1> USE DEF TypeOK, BatchFrame, DriverFrame, ResolverFrame, NoStatus, Goto,
            CallPCs, DriverPCs, OwnerPCs
<1>1. CASE NextGroup(b)
  <2>1. FirstGroup(todo[b]) \subseteq Tasks
    BY DEF FirstGroup
  <2>2. pc' \in [Calls -> CallPCs \cup DriverPCs]
    BY <1>1 DEF NextGroup
  <2>3. todo' \in [Batches -> SUBSET Tasks]
    BY <1>1 DEF NextGroup
  <2>4. group' \in [Batches -> SUBSET Tasks]
    <3> DEFINE taken == IF job[b].action = "run" THEN FirstGroup(todo[b])
                        ELSE todo[b]
    <3>1. taken \in SUBSET Tasks
      BY <2>1
    <3>2. group' = group \/ group' = [group EXCEPT ![b] = taken]
      BY <1>1 DEF NextGroup
    <3> HIDE DEF taken
    <3> QED
      BY <3>1, <3>2
  <2> QED
    BY <1>1, <2>2, <2>3, <2>4 DEF NextGroup
<1>2. CASE StartGroup(b)
  BY <1>2 DEF StartGroup
<1>3. CASE JoinGroup(b)
  BY <1>3 DEF JoinGroup
<1>4. CASE ResolveDependencies(w)
  <2>1. DepsOf(w) \subseteq Tasks
    BY DepsAssumption DEF DepsOf
  <2> QED
    BY <1>4, <2>1 DEF ResolveDependencies, Resolve
<1>5. CASE AwaitDependencies(w)
  <2>1. pc' \in [Calls -> CallPCs \cup DriverPCs]
    BY <1>5 DEF AwaitDependencies, Resolve, Resolved
  <2>2. waitFor' \in [Calls -> SUBSET Tasks]
    BY <1>5 DEF AwaitDependencies, Resolve
  <2> QED
    BY <1>5, <2>1, <2>2 DEF AwaitDependencies
<1>6. CASE AbortUnstarted(b)
  BY <1>6, StatusWrite DEF AbortUnstarted, TaskStatus, Unstarted, JobType
<1>7. CASE CompleteBatch(b)
  BY <1>7 DEF CompleteBatch
<1> QED
  BY <1>1, <1>2, <1>3, <1>4, <1>5, <1>6, <1>7 DEF WorkerStep

\* A submission and a stop keep the types.
LEMMA UserStepTypeOK ==
    ASSUME TypeOK, UserStep
    PROVE  TypeOK'
<1> USE DEF TypeOK, DriverFrame, Goto
<1>1. ASSUME NEW b \in Batches, RequestStop(b)
      PROVE  TypeOK'
  BY <1>1 DEF RequestStop
<1>2. ASSUME NEW b \in Batches, NEW j \in Jobs, Submit(b, j)
      PROVE  TypeOK'
  <2> DEFINE eligible == { t \in j.tasks : store[t] # "SKIPPED" }
  <2>1. j \in JobType /\ eligible \subseteq Tasks
    BY JobsAssumption DEF JobType
  <2>2. [j EXCEPT !.tasks = eligible] \in JobType
    BY <2>1 DEF JobType
  <2>3. record' \in [Batches -> [Tasks -> TaskStatus]]
    BY <1>2 DEF Submit, TaskStatus
  <2>4. pc' \in [Calls -> CallPCs \cup DriverPCs]
    BY <1>2, WorkerIsCall DEF Submit, DriverPCs
  <2> QED
    BY <1>2, <2>1, <2>2, <2>3, <2>4 DEF Submit
<1> QED
  BY <1>1, <1>2 DEF UserStep

\* Every variable keeps its type, whatever the tasks, their dependencies, the
\* submissions, the answers of the hooks and the interleaving of the threads.
THEOREM TypeCorrect == Spec => []TypeOK
<1>1. Init => TypeOK
  BY InitTypeOK
<1>2. TypeOK /\ [Next]_vars => TypeOK'
  <2> SUFFICES ASSUME TypeOK, [Next]_vars PROVE TypeOK'
    OBVIOUS
  <2>1. CASE UNCHANGED vars
    BY <2>1 DEF TypeOK, vars
  <2> QED
    BY <2>1, CallStepTypeOK, WorkerStepTypeOK, UserStepTypeOK
       DEF Next, AllFinished
<1> QED
  BY <1>1, <1>2, PTL DEF Spec

-----------------------------------------------------------------------------
(* The claim invariant *)

\* The calls of a batch, as ClaimInv names them.
LEMMA CallShapes ==
    ASSUME NEW b \in Batches, NEW c \in Callers, NEW x \in Tasks
    PROVE  /\ <<b, c, c>> \in Calls /\ <<b, c, x>> \in Calls
           /\ <<b, c, x>> \in TaskCalls
BY DEF Calls, TaskCalls, Callers

\* The call of a batch on its own task is a task call, and no probe.
LEMMA MainShapes ==
    ASSUME NEW b \in Batches, NEW x \in Tasks
    PROVE  Main(b, x) \in TaskCalls /\ Main(b, x) \in Calls
BY DEF Calls, TaskCalls, Callers, Main

\* The worker is not one of the calls on tasks.
LEMMA WorkerIsNoTaskCall ==
    ASSUME NEW b \in Batches, NEW f \in TaskCalls
    PROVE  Worker(b) # f
BY DriverAssumption DEF TaskCalls, Worker

\* No call owns a task at first.
LEMMA InitClaimInv == Init => ClaimInv
<1> SUFFICES ASSUME Init PROVE ClaimInv
  OBVIOUS
<1>1. \A f \in Calls : pc[f] = "idle" /\ phase[f] = "CHECK"
  BY DEF Init
<1>2. OwnersHoldClaims /\ ProbesOnlyCheck
  BY <1>1, TaskCallsAreCalls DEF OwnersHoldClaims, ProbesOnlyCheck, Owns, OwnerPCs
<1>3. NoLeakedClaim
  BY DEF Init, NoLeakedClaim
<1>4. ProbesAreAwaited /\ GroupIsJoined
  BY <1>1, CallShapes, MainShapes DEF ProbesAreAwaited, GroupIsJoined
<1> QED
  BY <1>2, <1>3, <1>4 DEF ClaimInv

\* A call that is alive moves: the shape of the batch around it stays, when a
\* probe stays in its check and a resolver leaves its wait only when its probes
\* are done.
LEMMA AliveStep ==
    ASSUME TypeOK, ClaimInv, NEW f \in TaskCalls, NEW to \in CallPCs,
           pc[f] # "idle",
           pc' = [pc EXCEPT ![f] = to],
           UNCHANGED group,
           phase' \in [Calls -> Phases],
           \A g \in Calls : g # f => phase'[g] = phase[g],
           f[2] # f[3] => /\ phase'[f] = "CHECK"
                          /\ to \in { "idle", "wait", "check", "gate", "verify",
                                      "release", "releaseRaise" },
           f[2] = f[3] => pc[f] # "await" \/ ProbesDone(f)
    PROVE  ProbesOnlyCheck' /\ ProbesAreAwaited' /\ GroupIsJoined'
<1> f \in Calls /\ f[1] \in Batches /\ f[2] \in Callers /\ f[3] \in Tasks
  BY TaskCallsAreCalls DEF TaskCalls
<1> \A g \in Calls : pc'[g] = IF g = f THEN to ELSE pc[g]
  BY DEF TypeOK
<1>1. ProbesOnlyCheck'
  BY TaskCallsAreCalls DEF ClaimInv, ProbesOnlyCheck
<1>2. ProbesAreAwaited'
  <2> SUFFICES ASSUME NEW b \in Batches, NEW c \in Callers, NEW x \in Tasks,
                      x # c, pc'[<<b, c, c>>] # "await"
               PROVE  pc'[<<b, c, x>>] = "idle"
    BY DEF ProbesAreAwaited
  <2> <<b, c, c>> \in Calls /\ <<b, c, x>> \in Calls
    BY CallShapes
  <2>1. CASE <<b, c, c>> = f
    <3>1. pc[<<b, c, x>>] = "idle"
      BY <2>1 DEF ClaimInv, ProbesAreAwaited, ProbesDone, Probe
    <3> QED
      BY <2>1, <3>1
  <2>2. CASE <<b, c, c>> # f
    <3>1. pc[<<b, c, x>>] = "idle"
      BY <2>2 DEF ClaimInv, ProbesAreAwaited
    <3> QED
      BY <3>1
  <2> QED
    BY <2>1, <2>2
<1>3. GroupIsJoined'
  <2> SUFFICES ASSUME NEW b \in Batches, NEW x \in Tasks,
                      pc'[Worker(b)] # "join" \/ x \notin group'[b]
               PROVE  pc'[Main(b, x)] = "idle"
    BY DEF GroupIsJoined, Worker, Main
  <2> Worker(b) \in Calls /\ Main(b, x) \in Calls /\ Worker(b) # f
    BY MainShapes, WorkerIsCall, WorkerIsNoTaskCall
  <2>1. pc[Main(b, x)] = "idle"
    BY DEF ClaimInv, GroupIsJoined
  <2> QED
    BY <2>1
<1> QED
  BY <1>1, <1>2, <1>3

\* The same for a call that owns its task before and after the step.
LEMMA OwnerStep ==
    ASSUME TypeOK, ClaimInv, NEW f \in TaskCalls, NEW to \in OwnerPCs,
           pc[f] \in OwnerPCs,
           pc' = [pc EXCEPT ![f] = to],
           UNCHANGED <<claims, group>>,
           phase' \in [Calls -> Phases],
           \A g \in Calls : g # f => phase'[g] = phase[g],
           f[2] # f[3] => /\ phase'[f] = "CHECK"
                          /\ to \in { "check", "gate", "verify", "release",
                                      "releaseRaise" },
           f[2] = f[3] => pc[f] # "await" \/ ProbesDone(f)
    PROVE  ClaimInv'
<1> f \in Calls /\ f[3] \in Tasks
  BY TaskCallsAreCalls DEF TaskCalls
<1> \A g \in Calls : pc'[g] = IF g = f THEN to ELSE pc[g]
  BY DEF TypeOK
<1>1. OwnersHoldClaims'
  BY DEF ClaimInv, OwnersHoldClaims, Owns, IsTaskCall
<1>2. NoLeakedClaim'
  BY DEF ClaimInv, NoLeakedClaim, Owns, IsTaskCall, TypeOK
<1>3. to \in CallPCs /\ pc[f] # "idle"
  BY DEF CallPCs, OwnerPCs
<1>4. ProbesOnlyCheck' /\ ProbesAreAwaited' /\ GroupIsJoined'
  BY <1>3, AliveStep
<1> QED
  BY <1>1, <1>2, <1>4 DEF ClaimInv

\* Taking a free claim keeps the claim invariant.
LEMMA TakeClaimInv ==
    ASSUME TypeOK, ClaimInv, NEW f \in TaskCalls, pc[f] \in { "claim", "wait" },
           claims[f[3]] = NoClaim, Take(f), UNCHANGED <<group, phase>>
    PROVE  ClaimInv'
<1> f \in Calls /\ f[3] \in Tasks
  BY TaskCallsAreCalls DEF TaskCalls
<1> \A g \in Calls : pc'[g] = IF g = f THEN Entry(f) ELSE pc[g]
  BY DEF TypeOK, Take, Goto
<1> claims' = [claims EXCEPT ![f[3]] = f]
  BY DEF Take
<1>1. OwnersHoldClaims'
  BY NoClaimAssumption
     DEF ClaimInv, OwnersHoldClaims, Owns, IsTaskCall, TypeOK, OwnerPCs
<1>2. NoLeakedClaim'
  BY DEF ClaimInv, NoLeakedClaim, Owns, IsTaskCall, TypeOK, Entry, OwnerPCs
<1>3. /\ pc' = [pc EXCEPT ![f] = Entry(f)] /\ Entry(f) \in CallPCs
      /\ f[2] # f[3] => phase'[f] = "CHECK" /\ Entry(f) = "check"
      /\ phase' \in [Calls -> Phases]
  BY DEF Take, Goto, Entry, IsProcess, CallPCs, OwnerPCs, ClaimInv,
         ProbesOnlyCheck, TypeOK
<1>4. ProbesOnlyCheck' /\ ProbesAreAwaited' /\ GroupIsJoined'
  BY <1>3, AliveStep
<1> QED
  BY <1>1, <1>2, <1>4 DEF ClaimInv

\* A resolution that starts probes keeps the claim invariant.
LEMMA SpawnProbes ==
    ASSUME TypeOK, ClaimInv, NEW b \in Batches, NEW c \in Callers,
           NEW deps \in SUBSET Tasks, NEW r, r = <<b, c, c>>,
           pc[r] \in { "resolve", "await" }, ProbesDone(r), Resolve(r, deps),
           UNCHANGED <<claims, group, phase>>
    PROVE  ClaimInv'
<1> r \in Calls
  BY DEF Calls
<1> DEFINE Spawned(g) == g # r /\ \E d \in deps : g = Probe(r, d)
<1>1. \A g \in Calls : \/ g = r /\ pc'[g] = "await"
                       \/ Spawned(g) /\ pc'[g] = "claim" /\ pc[g] = "idle"
                       \/ g # r /\ pc'[g] = pc[g]
  <2> SUFFICES ASSUME NEW g \in Calls, g # r, pc'[g] # pc[g]
               PROVE  Spawned(g) /\ pc'[g] = "claim" /\ pc[g] = "idle"
    BY DEF Resolve
  <2>1. PICK d \in deps : g = Probe(r, d)
    BY DEF Resolve
  <2>2. d # c
    BY <2>1 DEF Probe
  <2> QED
    BY <2>1, <2>2 DEF Resolve, ProbesDone
<1>2. OwnersHoldClaims'
  BY <1>1 DEF ClaimInv, OwnersHoldClaims, Owns, OwnerPCs
<1>3. NoLeakedClaim'
  <2> SUFFICES ASSUME NEW t \in Tasks, claims[t] # NoClaim
               PROVE  claims[t][3] = t /\ Owns(claims[t])'
    BY DEF NoLeakedClaim, Owns, IsTaskCall
  <2>1. claims[t] \in Calls /\ claims[t][3] = t /\ Owns(claims[t])
    BY DEF ClaimInv, NoLeakedClaim, TypeOK
  <2>2. pc'[claims[t]] \in OwnerPCs
    BY <1>1, <2>1 DEF Owns, OwnerPCs
  <2> QED
    BY <2>1, <2>2 DEF Owns, IsTaskCall
<1>4. ProbesOnlyCheck'
  <2> SUFFICES ASSUME NEW g \in TaskCalls, g[2] # g[3]
               PROVE  /\ phase'[g] = "CHECK"
                      /\ pc'[g] = "claim" \/ pc'[g] = pc[g]
    BY DEF ClaimInv, ProbesOnlyCheck
  <2> QED
    BY <1>1, TaskCallsAreCalls DEF ClaimInv, ProbesOnlyCheck
<1>5. ProbesAreAwaited'
  <2> SUFFICES ASSUME NEW bb \in Batches, NEW cc \in Callers, NEW x \in Tasks,
                      x # cc, pc'[<<bb, cc, cc>>] # "await"
               PROVE  pc'[<<bb, cc, x>>] = "idle"
    BY DEF ProbesAreAwaited
  <2> <<bb, cc, cc>> \in Calls /\ <<bb, cc, x>> \in Calls
    BY CallShapes
  <2>1. <<bb, cc, cc>> # r /\ <<bb, cc, x>> # r
    BY <1>1
  <2>2. ~Spawned(<<bb, cc, x>>)
    BY <2>1 DEF Probe
  <2>3. ~Spawned(<<bb, cc, cc>>)
    BY <2>1 DEF Probe
  <2> QED
    BY <1>1, <2>1, <2>2, <2>3 DEF ClaimInv, ProbesAreAwaited
<1>6. GroupIsJoined'
  <2> SUFFICES ASSUME NEW bb \in Batches, NEW x \in Tasks,
                      pc'[Worker(bb)] # "join" \/ x \notin group[bb]
               PROVE  pc'[Main(bb, x)] = "idle"
    BY DEF GroupIsJoined, Worker, Main
  <2> Worker(bb) \in Calls /\ Main(bb, x) \in Calls
    BY MainShapes, WorkerIsCall
  <2>1. ~Spawned(Worker(bb)) /\ ~Spawned(Main(bb, x))
    BY DriverAssumption DEF Probe, Worker, Main
  <2>2. pc[Main(bb, x)] = "idle"
    BY <1>1, <2>1 DEF ClaimInv, GroupIsJoined
  <2> QED
    BY <1>1, <2>1, <2>2
<1> QED
  BY <1>2, <1>3, <1>4, <1>5, <1>6 DEF ClaimInv

\* A release gives up ownership and claim in one step.
LEMMA ReleaseClaimInv ==
    ASSUME TypeOK, ClaimInv, NEW f \in TaskCalls, ReleaseClaim(f)
    PROVE  ClaimInv'
<1> f \in Calls /\ f[3] \in Tasks
  BY TaskCallsAreCalls DEF TaskCalls
<1> DEFINE to == ReleaseTo[pc[f]]
<1>1. /\ pc[f] \in { "release", "releaseBlock", "releaseRaise" }
      /\ to \in { "idle", "guard" }
      /\ pc[f] # "releaseBlock" => to = "idle"
      /\ pc' = [pc EXCEPT ![f] = to]
  BY DEF ReleaseClaim, ReleaseTo, Goto
<1> HIDE DEF to
<1> \A g \in Calls : pc'[g] = IF g = f THEN to ELSE pc[g]
  BY <1>1 DEF TypeOK
<1> claims' = [claims EXCEPT ![f[3]] = NoClaim]
  BY DEF ReleaseClaim
<1>2. OwnersHoldClaims'
  BY <1>1 DEF ClaimInv, OwnersHoldClaims, Owns, IsTaskCall, OwnerPCs, TypeOK
<1>3. NoLeakedClaim'
  BY <1>1 DEF ClaimInv, NoLeakedClaim, OwnersHoldClaims, Owns, IsTaskCall,
              OwnerPCs, TypeOK
<1>4. /\ phase' \in [Calls -> Phases]
      /\ phase'[f] = "CHECK"
      /\ \A g \in Calls : g # f => phase'[g] = phase[g]
      /\ UNCHANGED group
  BY DEF ReleaseClaim, TypeOK, Phases, BatchFrame
<1>5. f[2] # f[3] => to = "idle"
  BY <1>1 DEF ClaimInv, ProbesOnlyCheck
<1>6. to \in CallPCs /\ pc[f] \notin { "idle", "await" }
  BY <1>1 DEF CallPCs
<1>7. ProbesOnlyCheck' /\ ProbesAreAwaited' /\ GroupIsJoined'
  BY <1>1, <1>4, <1>5, <1>6, AliveStep
<1> QED
  BY <1>2, <1>3, <1>7 DEF ClaimInv

\* Every step of a call keeps the claim invariant.
LEMMA CallStepClaimInv ==
    ASSUME TypeOK, ClaimInv, NEW f \in TaskCalls, CallStep(f)
    PROVE  ClaimInv'
<1> f \in Calls /\ f[1] \in Batches /\ f[2] \in Callers /\ f[3] \in Tasks
  BY TaskCallsAreCalls DEF TaskCalls
<1> f = <<f[1], f[2], f[3]>>
  BY CallTriple
\* What most steps inside a claim have in common.
<1> DEFINE Inside(to) ==
             /\ pc' = [pc EXCEPT ![f] = to] /\ to \in OwnerPCs
             /\ UNCHANGED <<claims, group>>
<1>1. ASSUME NEW to, Inside(to), UNCHANGED phase, pc[f] \in OwnerPCs,
             pc[f] # "await",
             f[2] # f[3] => to \in { "check", "gate", "verify", "release",
                                    "releaseRaise" }
      PROVE  ClaimInv'
  <2>1. f[2] # f[3] => phase'[f] = "CHECK"
    BY <1>1 DEF ClaimInv, ProbesOnlyCheck
  <2>2. phase' \in [Calls -> Phases]
    BY <1>1 DEF TypeOK
  <2> QED
    BY <1>1, <2>1, <2>2, OwnerStep
<1>2. ASSUME NEW to, Inside(to), NEW p \in Phases,
             phase' = [phase EXCEPT ![f] = p], pc[f] \in OwnerPCs,
             pc[f] # "await", f[2] = f[3]
      PROVE  ClaimInv'
  <2>1. phase' \in [Calls -> Phases] /\ \A g \in Calls : g # f => phase'[g] = phase[g]
    BY <1>2 DEF TypeOK
  <2> QED
    BY <1>2, <2>1, OwnerStep
<1>3. f[2] # f[3] => /\ phase[f] = "CHECK"
                     /\ pc[f] \in { "idle", "claim", "wait", "check", "gate",
                                    "verify", "release", "releaseRaise" }
  BY DEF ClaimInv, ProbesOnlyCheck
<1>4. CheckReturn(f) \in OwnerPCs /\ (f[2] # f[3] => CheckReturn(f) = "release")
  BY <1>3 DEF CheckReturn, OwnerPCs
<1> USE DEF BatchFrame, OwnerFrame, ResolverFrame, Goto
<1>5. CASE AcquireClaim(f)
  <2>1. CASE claims[f[3]] = NoClaim
    BY <1>5, <2>1, TakeClaimInv DEF AcquireClaim
  <2>2. CASE claims[f[3]] # NoClaim
    <3>1. pc' = [pc EXCEPT ![f] = "wait"] /\ UNCHANGED <<claims, group, phase>>
      BY <1>5, <2>2 DEF AcquireClaim
    <3>2. \A g \in Calls : pc'[g] = IF g = f THEN "wait" ELSE pc[g]
      BY <3>1 DEF TypeOK
    <3>3. OwnersHoldClaims' /\ NoLeakedClaim'
      BY <1>5, <3>1, <3>2 DEF AcquireClaim, ClaimInv, OwnersHoldClaims,
           NoLeakedClaim, Owns, IsTaskCall, OwnerPCs, TypeOK
    <3>4. "wait" \in CallPCs /\ pc[f] = "claim" /\ phase' \in [Calls -> Phases]
      BY <1>5, <3>1 DEF CallPCs, AcquireClaim, TypeOK
    <3>5. ProbesOnlyCheck' /\ ProbesAreAwaited' /\ GroupIsJoined'
      BY <1>3, <3>1, <3>4, AliveStep
    <3> QED
      BY <3>3, <3>5 DEF ClaimInv
  <2> QED
    BY <2>1, <2>2
<1>6. CASE WaitForRelease(f) \/ TaskBlocked(f)
  <2>1. CASE pc[f] = "wait" /\ claims[f[3]] = NoClaim /\ Take(f)
                /\ UNCHANGED <<group, phase>>
    BY <2>1, TakeClaimInv
  <2>2. CASE pc' = [pc EXCEPT ![f] = "idle"] /\ UNCHANGED claims
    <3>1. \A g \in Calls : pc'[g] = IF g = f THEN "idle" ELSE pc[g]
      BY <2>2 DEF TypeOK
    <3>2. pc[f] \in { "wait", "guard" } /\ UNCHANGED <<group, phase>>
      BY <1>6 DEF WaitForRelease, TaskBlocked
    <3>3. OwnersHoldClaims' /\ NoLeakedClaim'
      BY <2>2, <3>1, <3>2 DEF ClaimInv, OwnersHoldClaims, NoLeakedClaim, Owns,
           IsTaskCall, OwnerPCs, TypeOK
    <3>4. "idle" \in CallPCs /\ phase' \in [Calls -> Phases]
      BY <3>2 DEF CallPCs, TypeOK
    <3>5. ProbesOnlyCheck' /\ ProbesAreAwaited' /\ GroupIsJoined'
      BY <1>3, <2>2, <3>2, <3>4, AliveStep
    <3> QED
      BY <3>3, <3>5 DEF ClaimInv
  <2> QED
    BY <1>6, <2>1, <2>2 DEF WaitForRelease, TaskBlocked
<1>7. CASE ReleaseClaim(f)
  BY <1>7, ReleaseClaimInv
<1>8. CASE ProcessTask(f)
  <2>1. f[2] = f[3] /\ pc[f] \in OwnerPCs /\ pc[f] # "await"
    BY <1>3, <1>8 DEF ProcessTask, OwnerPCs
  <2>2. \/ (Inside("release") \/ Inside("deps")) /\ UNCHANGED phase
        \/ Inside("check") /\ phase' = [phase EXCEPT ![f] = "PRE_RUN_CHECK"]
    BY <1>8 DEF ProcessTask, OwnerPCs
  <2>3. "PRE_RUN_CHECK" \in Phases
    BY DEF Phases
  <2> QED
    BY <1>1, <1>2, <2>1, <2>2, <2>3
<1>9. CASE PreRunDecision(f)
  <2>1. Inside("deps") \/ Inside("release")
    BY <1>9 DEF PreRunDecision, OwnerPCs
  <2>2. pc[f] = "decide" /\ pc[f] \in OwnerPCs /\ UNCHANGED phase
    BY <1>9 DEF PreRunDecision, OwnerPCs
  <2> QED
    BY <1>1, <1>3, <2>1, <2>2
<1>10. CASE CheckTaskSuccess(f)
  <2>1. Inside(CheckReturn(f)) \/ Inside("gate")
    BY <1>4, <1>10 DEF CheckTaskSuccess, OwnerPCs
  <2>2. pc[f] = "check" /\ pc[f] \in OwnerPCs /\ UNCHANGED phase
    BY <1>10 DEF CheckTaskSuccess, OwnerPCs
  <2> QED
    BY <1>1, <1>4, <2>1, <2>2
<1>11. CASE CheckGate(f) \/ CheckVerdict(f)
  <2>1. \/ Inside(CheckReturn(f)) \/ Inside("verify") \/ Inside("releaseRaise")
    BY <1>4, <1>11 DEF CheckGate, CheckVerdict, OwnerPCs
  <2>2. pc[f] \in { "gate", "verify" } /\ pc[f] \in OwnerPCs /\ UNCHANGED phase
    BY <1>11 DEF CheckGate, CheckVerdict, OwnerPCs
  <2> QED
    BY <1>1, <1>4, <2>1, <2>2
<1>12. CASE CheckDependencies(f) \/ FailedDeps(f) \/ CheckTaskRunnability(f)
              \/ StartRun(f) \/ RunTask(f)
  <2>1. \E to \in OwnerPCs : Inside(to)
    BY <1>12 DEF CheckDependencies, FailedDeps, CheckTaskRunnability, StartRun,
                RunTask, OwnerPCs
  <2>2. /\ pc[f] \in { "deps", "depsReady", "runnability", "ready", "run" }
        /\ pc[f] \in OwnerPCs /\ UNCHANGED phase
    BY <1>12 DEF CheckDependencies, FailedDeps, CheckTaskRunnability, StartRun,
                RunTask, OwnerPCs
  <2> QED
    BY <1>1, <1>3, <2>1, <2>2
<1>13. CASE AfterRun(f)
  <2>1. \/ Inside("release") /\ UNCHANGED phase
        \/ Inside("check") /\ phase' = [phase EXCEPT ![f] = "POST_RUN_CHECK"]
    BY <1>13 DEF AfterRun, OwnerPCs
  <2>2. pc[f] = "ran" /\ pc[f] \in OwnerPCs /\ "POST_RUN_CHECK" \in Phases
    BY <1>13 DEF AfterRun, OwnerPCs, Phases
  <2> QED
    BY <1>1, <1>2, <1>3, <2>1, <2>2
<1>14. CASE ResolveDependencies(f)
  <2>1. f[2] = f[3] /\ pc[f] = "resolve"
    BY <1>3, <1>14 DEF ResolveDependencies
  <2>2. ProbesDone(f)
    BY <2>1, CallShapes DEF ClaimInv, ProbesAreAwaited, ProbesDone, Probe
  <2>3. DepsOf(f) \in SUBSET Tasks
    BY DepsAssumption, DriverAssumption DEF DepsOf
  <2>4. Resolve(f, DepsOf(f)) /\ UNCHANGED <<claims, group, phase>>
    BY <1>14 DEF ResolveDependencies
  <2> QED
    BY <2>1, <2>2, <2>3, <2>4, SpawnProbes
<1>15. CASE AwaitDependencies(f)
  <2>1. f[2] = f[3] /\ pc[f] = "await" /\ ProbesDone(f)
    BY <1>3, <1>15 DEF AwaitDependencies
  <2>2. UNCHANGED <<claims, group, phase>>
    BY <1>15 DEF AwaitDependencies
  <2>3. CASE \E to \in OwnerPCs : Inside(to)
    BY <2>1, <2>2, <2>3, OwnerStep DEF TypeOK, OwnerPCs
  <2>4. CASE Resolve(f, waitFor[f])
    <3>1. waitFor[f] \in SUBSET Tasks
      BY DEF TypeOK
    <3> QED
      BY <2>1, <2>2, <2>4, <3>1, SpawnProbes
  <2>5. (\E to \in OwnerPCs : Inside(to)) \/ Resolve(f, waitFor[f])
    BY <1>15, DriverAssumption DEF AwaitDependencies, Resolved, OwnerPCs
  <2> QED
    BY <2>3, <2>4, <2>5
<1> QED
  BY <1>5, <1>6, <1>7, <1>8, <1>9, <1>10, <1>11, <1>12, <1>13, <1>14, <1>15
     DEF CallStep

\* Every step of a worker keeps the claim invariant.
LEMMA WorkerStepClaimInv ==
    ASSUME TypeOK, ClaimInv, NEW b \in Batches, WorkerStep(b)
    PROVE  ClaimInv'
<1> DEFINE w == Worker(b)
<1> w \in Calls /\ w = <<b, Driver, Driver>> /\ w \notin TaskCalls
  BY WorkerIsCall, WorkerIsNoTaskCall DEF Worker
<1> HIDE DEF w
<1> USE DEF BatchFrame, DriverFrame, ResolverFrame, Goto
\* The worker moves on its own: out of a join only when its group is idle.
<1>1. ASSUME NEW to, pc' = [pc EXCEPT ![w] = to], to # "join",
             UNCHANGED <<claims, phase>>,
             pc[w] = "join" => \A x \in group[b] : pc[Main(b, x)] = "idle",
             \A a \in Batches : a # b => group'[a] = group[a],
             group'[b] # group[b] => pc[w] # "join",
             to # "await" => ProbesDone(w)
      PROVE  ClaimInv'
  <2>1. \A g \in Calls : pc'[g] = IF g = w THEN to ELSE pc[g]
    BY <1>1 DEF TypeOK
  <2>2. ~IsTaskCall(w)
    BY DriverAssumption DEF IsTaskCall
  <2>3. OwnersHoldClaims'
    BY <1>1, <2>1, <2>2 DEF ClaimInv, OwnersHoldClaims, Owns, IsTaskCall
  <2>4. NoLeakedClaim'
    BY <1>1, <2>1, <2>2 DEF ClaimInv, NoLeakedClaim, Owns, IsTaskCall, TypeOK
  <2>5. ProbesOnlyCheck'
    BY <1>1, <2>1, TaskCallsAreCalls DEF ClaimInv, ProbesOnlyCheck
  <2>6. ProbesAreAwaited'
    <3> SUFFICES ASSUME NEW a \in Batches, NEW c \in Callers, NEW x \in Tasks,
                        x # c, pc'[<<a, c, c>>] # "await"
                 PROVE  pc'[<<a, c, x>>] = "idle"
      BY DEF ProbesAreAwaited
    <3> <<a, c, c>> \in Calls /\ <<a, c, x>> \in Calls /\ <<a, c, x>> # w
      BY CallShapes
    <3>1. CASE <<a, c, c>> = w
      BY <1>1, <2>1, <3>1 DEF ProbesDone, Probe
    <3>2. CASE <<a, c, c>> # w
      BY <2>1, <3>2 DEF ClaimInv, ProbesAreAwaited
    <3> QED
      BY <3>1, <3>2
  <2>7. GroupIsJoined'
    <3> SUFFICES ASSUME NEW a \in Batches, NEW x \in Tasks,
                        pc'[Worker(a)] # "join" \/ x \notin group'[a]
                 PROVE  pc'[Main(a, x)] = "idle"
      BY DEF GroupIsJoined, Worker, Main
    <3> Worker(a) \in Calls /\ Main(a, x) \in Calls /\ Main(a, x) # w
      BY MainShapes, WorkerIsCall
    <3>1. CASE a = b
      BY <1>1, <2>1, <3>1 DEF ClaimInv, GroupIsJoined, w
    <3>2. CASE a # b
      <4>1. Worker(a) # w
        BY <3>2 DEF Worker
      <4> QED
        BY <1>1, <2>1, <3>2, <4>1 DEF ClaimInv, GroupIsJoined
    <3> QED
      BY <3>1, <3>2
  <2> QED
    BY <2>3, <2>4, <2>5, <2>6, <2>7 DEF ClaimInv
<1>2. ASSUME pc[w] # "await"
      PROVE  ProbesDone(w)
  BY <1>2, DriverAssumption DEF ClaimInv, ProbesAreAwaited, ProbesDone, Probe, Callers, w
<1>3. CASE NextGroup(b)
  <2>1. pc[w] = "next" /\ UNCHANGED <<claims, phase>>
    BY <1>3 DEF NextGroup, w
  <2>2. PICK to \in { "sweep", "resolve", "spawn" } : pc' = [pc EXCEPT ![w] = to]
    BY <1>3 DEF NextGroup, w
  <2>3. \A a \in Batches : a # b => group'[a] = group[a]
    BY <1>3 DEF NextGroup, TypeOK
  <2> QED
    BY <1>1, <1>2, <2>1, <2>2, <2>3
<1>4. CASE StartGroup(b)
  <2>1. /\ pc[w] = "spawn" /\ UNCHANGED <<claims, phase, group>>
        /\ \A g \in Calls : \/ g = w /\ pc'[g] = "join"
                            \/ /\ g # w /\ pc'[g] = "claim"
                               /\ \E x \in group[b] : g = Main(b, x)
                            \/ g # w /\ pc'[g] = pc[g]
    BY <1>4 DEF StartGroup, w
  <2>2. \A x \in Tasks : pc[Main(b, x)] = "idle"
    BY <2>1 DEF ClaimInv, GroupIsJoined, w
  <2>3. \A g \in Calls : pc'[g] # pc[g] =>
           pc'[g] \notin OwnerPCs /\ pc[g] \notin OwnerPCs
    BY <2>1, <2>2 DEF OwnerPCs, TypeOK
  <2>4. OwnersHoldClaims'
    BY <2>1, <2>3 DEF ClaimInv, OwnersHoldClaims, Owns, IsTaskCall
  <2>5. NoLeakedClaim'
    BY <2>1, <2>3 DEF ClaimInv, NoLeakedClaim, Owns, IsTaskCall, TypeOK
  <2>6. ProbesOnlyCheck'
    BY <2>1, TaskCallsAreCalls DEF ClaimInv, ProbesOnlyCheck, Main
  <2>7. ProbesAreAwaited'
    <3> SUFFICES ASSUME NEW a \in Batches, NEW c \in Callers, NEW x \in Tasks,
                        x # c, pc'[<<a, c, c>>] # "await"
                 PROVE  pc'[<<a, c, x>>] = "idle"
      BY DEF ProbesAreAwaited
    <3> /\ <<a, c, c>> \in Calls /\ <<a, c, x>> \in Calls /\ <<a, c, x>> # w
        /\ \A y \in Tasks : <<a, c, x>> # Main(b, y)
      BY CallShapes DEF Main
    <3>1. pc[<<a, c, c>>] # "await"
      <4>1. CASE <<a, c, c>> = w
        BY <2>1, <4>1
      <4>2. CASE \E y \in group[b] : <<a, c, c>> = Main(b, y)
        BY <2>2, <4>2 DEF TypeOK
      <4> QED
        BY <2>1, <4>1, <4>2
    <3> QED
      BY <2>1, <3>1 DEF ClaimInv, ProbesAreAwaited, TypeOK
  <2>8. GroupIsJoined'
    <3> SUFFICES ASSUME NEW a \in Batches, NEW x \in Tasks,
                        pc'[Worker(a)] # "join" \/ x \notin group[a]
                 PROVE  pc'[Main(a, x)] = "idle"
      BY <2>1 DEF GroupIsJoined, Worker, Main
    <3> Worker(a) \in Calls /\ Main(a, x) \in Calls /\ Main(a, x) # w
      BY MainShapes, WorkerIsCall
    <3>1. CASE a = b
      <4>1. x \notin group[b]
        BY <2>1, <3>1 DEF w
      <4> QED
        BY <2>1, <2>2, <3>1, <4>1 DEF Main
    <3>2. CASE a # b
      <4>1. Worker(a) # w /\ \A y \in Tasks : Main(b, y) # Main(a, x)
                /\ Main(b, y) # Worker(a)
        BY <3>2 DEF Worker, Main
      <4> QED
        BY <2>1, <3>2, <4>1 DEF ClaimInv, GroupIsJoined, TypeOK
    <3> QED
      BY <3>1, <3>2
  <2> QED
    BY <2>4, <2>5, <2>6, <2>7, <2>8 DEF ClaimInv
<1>5. CASE JoinGroup(b)
  <2>1. /\ pc[w] = "join" /\ UNCHANGED <<claims, phase, group>>
        /\ \A x \in group[b] : pc[Main(b, x)] = "idle"
    BY <1>5 DEF JoinGroup, w
  <2>2. PICK to \in { "complete", "next" } : pc' = [pc EXCEPT ![w] = to]
    BY <1>5 DEF JoinGroup, w
  <2> QED
    BY <1>1, <1>2, <2>1, <2>2
<1>6. CASE ResolveDependencies(w)
  <2>1. pc[w] = "resolve" /\ UNCHANGED <<claims, group, phase>>
    BY <1>6 DEF ResolveDependencies
  <2>2. DepsOf(w) \in SUBSET Tasks
    BY DepsAssumption DEF DepsOf, TypeOK, w
  <2>3. Resolve(w, DepsOf(w))
    BY <1>6 DEF ResolveDependencies
  <2> QED
    BY <1>2, <2>1, <2>2, <2>3, SpawnProbes DEF Callers
<1>7. CASE AwaitDependencies(w)
  <2>1. pc[w] = "await" /\ ProbesDone(w) /\ UNCHANGED <<claims, group, phase>>
    BY <1>7 DEF AwaitDependencies
  <2>2. \/ \E to \in { "complete", "spawn" } : pc' = [pc EXCEPT ![w] = to]
        \/ Resolve(w, waitFor[w])
    BY <1>7 DEF AwaitDependencies, Resolved, w
  <2>3. CASE Resolve(w, waitFor[w])
    <3>1. waitFor[w] \in SUBSET Tasks
      BY DEF TypeOK
    <3> QED
      BY <2>1, <2>3, <3>1, SpawnProbes DEF Callers
  <2> QED
    BY <1>1, <2>1, <2>2, <2>3
<1>8. CASE AbortUnstarted(b) \/ CompleteBatch(b)
  <2>1. pc[w] \in { "sweep", "complete" } /\ UNCHANGED <<claims, group, phase>>
    BY <1>8 DEF AbortUnstarted, CompleteBatch, w
  <2>2. UNCHANGED pc \/ \E to \in { "complete", "finished" } :
                           pc' = [pc EXCEPT ![w] = to]
    BY <1>8 DEF AbortUnstarted, CompleteBatch, w
  <2>3. CASE UNCHANGED pc
    BY <2>1, <2>3 DEF ClaimInv, OwnersHoldClaims, NoLeakedClaim, Owns,
         ProbesOnlyCheck, ProbesAreAwaited, GroupIsJoined, IsTaskCall,
         Worker, Main
  <2> QED
    BY <1>1, <1>2, <2>1, <2>2, <2>3
<1> QED
  BY <1>3, <1>4, <1>5, <1>6, <1>7, <1>8 DEF WorkerStep, w

\* The invariant depends on nothing but the variables it names.
LEMMA UnchangedClaimInv ==
    ASSUME ClaimInv, UNCHANGED <<claims, pc, phase, group>>
    PROVE  ClaimInv'
BY DEF ClaimInv, OwnersHoldClaims, NoLeakedClaim, Owns, ProbesOnlyCheck,
       ProbesAreAwaited, GroupIsJoined, IsTaskCall, Worker, Main

\* A submission starts a worker and no call.
LEMMA SubmitClaimInv ==
    ASSUME TypeOK, ClaimInv, NEW b \in Batches, NEW j \in Jobs, Submit(b, j)
    PROVE  ClaimInv'
<1> DEFINE w == Worker(b)
<1>1. /\ w \in Calls /\ ~IsTaskCall(w)
      /\ pc[w] = "idle" /\ pc' = [pc EXCEPT ![w] = "next"]
      /\ UNCHANGED <<claims, phase, group>>
  BY WorkerIsCall, DriverAssumption DEF Submit, Goto, DriverFrame, IsTaskCall, Worker
<1>2. \A g \in Calls : pc'[g] = IF g = w THEN "next" ELSE pc[g]
  BY <1>1 DEF TypeOK
<1>3. OwnersHoldClaims' /\ NoLeakedClaim'
  BY <1>1, <1>2 DEF ClaimInv, OwnersHoldClaims, NoLeakedClaim, Owns,
       IsTaskCall, TypeOK
<1>4. \A f \in TaskCalls : f \in Calls /\ f # w
  BY WorkerIsNoTaskCall, TaskCallsAreCalls
<1>5. ProbesOnlyCheck'
  BY <1>1, <1>2, <1>4 DEF ClaimInv, ProbesOnlyCheck
<1>6. ProbesAreAwaited'
  <2> SUFFICES ASSUME NEW a \in Batches, NEW c \in Callers, NEW x \in Tasks,
                      x # c, pc'[<<a, c, c>>] # "await"
               PROVE  pc'[<<a, c, x>>] = "idle"
    BY DEF ProbesAreAwaited
  <2>1. pc[<<a, c, c>>] # "await"
    BY <1>1, <1>2, CallShapes
  <2> QED
    BY <1>2, <1>4, <2>1, CallShapes DEF ClaimInv, ProbesAreAwaited
<1>7. GroupIsJoined'
  <2> SUFFICES ASSUME NEW a \in Batches, NEW x \in Tasks,
                      pc'[Worker(a)] # "join" \/ x \notin group[a]
               PROVE  pc'[Main(a, x)] = "idle"
    BY <1>1 DEF GroupIsJoined, Worker, Main
  <2>1. pc[Worker(a)] # "join" \/ x \notin group[a]
    BY <1>1, <1>2, WorkerIsCall
  <2> QED
    BY <1>2, <1>4, <2>1, MainShapes DEF ClaimInv, GroupIsJoined
<1> QED
  BY <1>3, <1>5, <1>6, <1>7 DEF ClaimInv

\* The claim invariant holds for every set of batches, tasks and dependencies.
THEOREM ClaimsCorrect == Spec => []ClaimInv
<1>1. Init => ClaimInv
  BY InitClaimInv
<1>2. TypeOK /\ ClaimInv /\ [Next]_vars => ClaimInv'
  <2> SUFFICES ASSUME TypeOK, ClaimInv, [Next]_vars PROVE ClaimInv'
    OBVIOUS
  <2>1. CASE UserStep
    <3>1. ASSUME NEW b \in Batches, RequestStop(b)
          PROVE  ClaimInv'
      BY <3>1, UnchangedClaimInv DEF RequestStop
    <3> QED
      BY <2>1, <3>1, SubmitClaimInv DEF UserStep
  <2>2. CASE UNCHANGED vars
    BY <2>2, UnchangedClaimInv DEF vars
  <2> QED
    BY <2>1, <2>2, CallStepClaimInv, WorkerStepClaimInv DEF Next, AllFinished
<1> QED
  BY <1>1, <1>2, TypeCorrect, PTL DEF Spec

\* No two calls, of any batches and threads, ever work on one task at once.
THEOREM MutualExclusion == Spec => []OneOwnerPerTask
<1>1. ClaimInv => OneOwnerPerTask
  BY DEF ClaimInv, OwnersHoldClaims, OneOwnerPerTask
<1> QED
  BY <1>1, ClaimsCorrect, PTL

\* A claim never outlives the work it guards, on any exit path of a call.
THEOREM NoClaimLeaks == Spec => []NoLeakedClaim
<1>1. ClaimInv => NoLeakedClaim
  BY DEF ClaimInv
<1> QED
  BY <1>1, ClaimsCorrect, PTL

\* A worker that neither joins its group nor awaits its probes has no call alive.
LEMMA BatchIsQuiet ==
    ASSUME ClaimInv, NEW b \in Batches, pc[Worker(b)] \notin { "join", "await" }
    PROVE  \A f \in TaskCalls : f[1] = b => pc[f] = "idle"
<1>1. \A x \in Tasks : pc[Main(b, x)] = "idle"
  BY DEF ClaimInv, GroupIsJoined
<1>2. \A c \in Callers : pc[<<b, c, c>>] # "await"
  BY <1>1 DEF Callers, Main, Worker
<1>3. \A c \in Callers, x \in Tasks : x # c => pc[<<b, c, x>>] = "idle"
  BY <1>2 DEF ClaimInv, ProbesAreAwaited
<1>4. \A c \in Callers, x \in Tasks : pc[<<b, c, x>>] = "idle"
  BY <1>1, <1>3 DEF Main
<1>5. ASSUME NEW f \in TaskCalls, f[1] = b
      PROVE  pc[f] = "idle"
  <2>1. f \in Calls /\ f[3] \in Tasks
    BY TaskCallsAreCalls DEF TaskCalls
  <2>2. f = <<b, f[2], f[3]>> /\ f[2] \in Callers
    BY <2>1, <1>5, CallTriple
  <2> QED
    BY <1>4, <2>1, <2>2
<1> QED
  BY <1>5

\* A batch that finished left no call alive and no claim behind: a consequence
\* of the invariant for every number of tasks, batches and submissions.
THEOREM QuietFinish == Spec => []FinishedBatchIsQuiet
<1>1. TypeOK /\ ClaimInv => FinishedBatchIsQuiet
  <2> SUFFICES ASSUME TypeOK, ClaimInv,
                      NEW b \in Batches, pc[Worker(b)] = "finished"
               PROVE  /\ \A f \in TaskCalls : f[1] = b => pc[f] = "idle"
                      /\ \A t \in Tasks : claims[t] # NoClaim => claims[t][1] # b
    BY DEF FinishedBatchIsQuiet
  <2>1. \A f \in TaskCalls : f[1] = b => pc[f] = "idle"
    BY BatchIsQuiet
  <2>2. ASSUME NEW t \in Tasks, claims[t] # NoClaim
        PROVE  claims[t][1] # b
    <3>1. claims[t] \in Calls
      BY <2>2 DEF TypeOK
    <3>2. claims[t][3] = t /\ Owns(claims[t])
      BY <2>2 DEF ClaimInv, NoLeakedClaim
    <3>3. claims[t] \in TaskCalls
      BY <3>1, <3>2 DEF Calls, TaskCalls
    <3>4. pc[claims[t]] # "idle"
      BY <3>2 DEF Owns, OwnerPCs
    <3> QED
      BY <2>1, <3>3, <3>4
  <2> QED
    BY <2>1, <2>2
<1> QED
  BY <1>1, TypeCorrect, ClaimsCorrect, PTL

-----------------------------------------------------------------------------
(* What a step leaves alone *)

\* Who may write the store: the owner of the task, a blocked call that let go of
\* it, and the sweep of a stopped batch.
StoreStep(f) ==
    /\ \A t \in Tasks : t # f[3] => store'[t] = store[t] /\ verdict'[t] = verdict[t]
    /\ \/ UNCHANGED store
       \/ Owns(f)
       \/ pc[f] = "guard" /\ store'[f[3]] = "BLOCKED"
    /\ UNCHANGED verdict \/ Owns(f) \/ claims[f[3]] = NoClaim

\* A call on a task wakes up: a probe of resolver r.
Wakes(g, r) ==
    g \in TaskCalls /\ pc[g] = "idle" /\ pc'[g] = "claim" /\ g[1] = r[1] /\ g[2] = r[2]

\* A probe of f starts, or another call stays where it is.
OthersStay(f) ==
    \A g \in Calls : g # f =>
        /\ phase'[g] = phase[g] /\ waitFor'[g] = waitFor[g]
        /\ pc'[g] = pc[g] \/ (Wakes(g, f) /\ f[2] = f[3])

\* A call writes the record of its own batch and task.
RecordStep(f) ==
    \A b \in Batches, t \in Tasks :
        b # f[1] \/ t # f[3] => record'[b][t] = record[b][t]

\* The record a mirrored status writes, and those it does not.
LEMMA MirrorEffect ==
    ASSUME TypeOK, NEW b \in Batches, NEW t \in Tasks, NEW s, Mirror(b, t, s)
    PROVE  /\ \A a \in Batches, u \in Tasks : a # b \/ u # t => record'[a][u] = record[a][u]
           /\ t \in job[b].tasks => record'[b][t] = s
           /\ t \notin job[b].tasks => record'[b][t] = record[b][t]
BY DEF TypeOK, Mirror

\* What set_status writes, and what it leaves.
LEMMA StatusEffect ==
    ASSUME TypeOK, NEW b \in Batches, NEW t \in Tasks, NEW s, SetStatus(b, t, s)
    PROVE  /\ store'[t] = s /\ \A u \in Tasks : u # t => store'[u] = store[u]
           /\ \A a \in Batches, u \in Tasks : a # b \/ u # t => record'[a][u] = record[a][u]
           /\ t \in job[b].tasks => record'[b][t] = s
           /\ t \notin job[b].tasks => record'[b][t] = record[b][t]
<1>1. store' = [store EXCEPT ![t] = s] /\ Mirror(b, t, s)
  BY DEF SetStatus
<1> QED
  BY <1>1, MirrorEffect DEF TypeOK

\* Each step of a call, seen from the tasks and the calls it is not about.
LEMMA CallFrame ==
    ASSUME TypeOK, ClaimInv, NEW f \in TaskCalls, CallStep(f)
    PROVE  /\ UNCHANGED <<job, stop, todo, group>>
           /\ StoreStep(f) /\ OthersStay(f) /\ RecordStep(f)
           /\ \A b \in Batches : pc'[Worker(b)] = pc[Worker(b)]
           /\ pc[f] # "idle"
<1> f \in Calls /\ f[1] \in Batches /\ f[2] \in Callers /\ f[3] \in Tasks
  BY TaskCallsAreCalls DEF TaskCalls
<1> USE DEF BatchFrame, OwnerFrame, ResolverFrame, NoStatus, Goto
<1>1. UNCHANGED <<job, stop, todo, group>>
  BY DEF CallStep, AcquireClaim, WaitForRelease, ReleaseClaim, TaskBlocked, ProcessTask,
         PreRunDecision, CheckTaskSuccess, CheckGate, CheckVerdict, CheckDependencies,
         ResolveDependencies, AwaitDependencies, FailedDeps, CheckTaskRunnability, StartRun,
         RunTask, AfterRun
<1>2. StoreStep(f)
  <2> USE DEF StoreStep, Owns, IsTaskCall, OwnerPCs, TypeOK, SetStatus
  <2>1. CASE AcquireClaim(f) \/ WaitForRelease(f)
    BY <2>1 DEF AcquireClaim, WaitForRelease, Take
  <2>2. CASE ReleaseClaim(f) \/ TaskBlocked(f)
    BY <2>2 DEF ReleaseClaim, TaskBlocked
  <2>3. CASE ProcessTask(f)
    BY <2>3 DEF ProcessTask
  <2>4. CASE PreRunDecision(f) \/ AfterRun(f) \/ ResolveDependencies(f) \/ AwaitDependencies(f)
    BY <2>4 DEF PreRunDecision, AfterRun, ResolveDependencies, AwaitDependencies
  <2>5. CASE CheckTaskSuccess(f) \/ CheckGate(f) \/ CheckVerdict(f)
    BY <2>5 DEF CheckTaskSuccess, CheckGate, CheckVerdict
  <2>6. CASE CheckDependencies(f) \/ FailedDeps(f) \/ CheckTaskRunnability(f) \/ StartRun(f)
             \/ RunTask(f)
    BY <2>6 DEF CheckDependencies, FailedDeps, CheckTaskRunnability, StartRun, RunTask
  <2> QED
    BY <2>1, <2>2, <2>3, <2>4, <2>5, <2>6 DEF CallStep
<1>3. OthersStay(f)
  <2> USE DEF OthersStay, TypeOK
  <2>1. ASSUME NEW deps \in SUBSET Tasks, Resolve(f, deps), ProbesDone(f), UNCHANGED phase,
               f[2] = f[3]
        PROVE  OthersStay(f)
    <3> SUFFICES ASSUME NEW g \in Calls, g # f, pc'[g] # pc[g]
                 PROVE  Wakes(g, f)
      BY <2>1 DEF Resolve
    <3>1. PICK d \in deps : g = Probe(f, d) /\ pc'[g] = "claim"
      BY <2>1 DEF Resolve
    <3>2. d \in Tasks /\ d # f[3]
      BY <3>1, CallTriple DEF Probe
    <3>3. g \in TaskCalls /\ g[1] = f[1] /\ g[2] = f[2]
      BY <3>1, <3>2 DEF Probe, TaskCalls
    <3> QED
      BY <2>1, <3>1, <3>2, <3>3 DEF ProbesDone, Wakes
  <2>2. CASE ResolveDependencies(f)
    <3>1. f[2] = f[3]
      BY <2>2 DEF ResolveDependencies, ClaimInv, ProbesOnlyCheck
    <3>2. ProbesDone(f)
      BY <2>2, <3>1, CallShapes, CallTriple
      DEF ResolveDependencies, ClaimInv, ProbesAreAwaited, ProbesDone, Probe
    <3>3. DepsOf(f) \in SUBSET Tasks
      BY DepsAssumption DEF DepsOf
    <3> QED
      BY <2>1, <2>2, <3>1, <3>2, <3>3 DEF ResolveDependencies
  <2>3. CASE AwaitDependencies(f)
    <3>1. ProbesDone(f) /\ UNCHANGED phase /\ f[2] = f[3]
      BY <2>3 DEF AwaitDependencies, ClaimInv, ProbesOnlyCheck
    <3>2. \/ Resolve(f, waitFor[f])
          \/ \E to : pc' = [pc EXCEPT ![f] = to] /\ waitFor' = [waitFor EXCEPT ![f] = {}]
      BY <2>3 DEF AwaitDependencies
    <3>3. waitFor[f] \in SUBSET Tasks
      OBVIOUS
    <3> QED
      BY <2>1, <3>1, <3>2, <3>3
  <2>4. CASE ProcessTask(f) \/ AfterRun(f) \/ ReleaseClaim(f)
    BY <2>4 DEF ProcessTask, AfterRun, ReleaseClaim
  <2>5. ASSUME NEW to, pc' = [pc EXCEPT ![f] = to], UNCHANGED <<phase, waitFor>>
        PROVE  OthersStay(f)
    BY <2>5
  <2>6. CASE \/ AcquireClaim(f) \/ WaitForRelease(f) \/ TaskBlocked(f) \/ PreRunDecision(f)
             \/ CheckTaskSuccess(f) \/ CheckGate(f) \/ CheckVerdict(f) \/ CheckDependencies(f)
             \/ FailedDeps(f) \/ CheckTaskRunnability(f) \/ StartRun(f) \/ RunTask(f)
    BY <2>5, <2>6
    DEF AcquireClaim, WaitForRelease, Take, TaskBlocked, PreRunDecision, CheckTaskSuccess,
        CheckGate, CheckVerdict, CheckDependencies, FailedDeps, CheckTaskRunnability, StartRun,
        RunTask
  <2> QED
    BY <2>2, <2>3, <2>4, <2>6 DEF CallStep
<1>4. RecordStep(f)
  <2>1. ASSUME NEW s, SetStatus(f[1], f[3], s) \/ Mirror(f[1], f[3], s)
        PROVE  RecordStep(f)
    BY <2>1, StatusEffect, MirrorEffect DEF RecordStep
  <2>2. UNCHANGED record => RecordStep(f)
    BY DEF RecordStep
  <2>3. CASE AcquireClaim(f) \/ WaitForRelease(f) \/ TaskBlocked(f) \/ ReleaseClaim(f)
    BY <2>1, <2>2, <2>3 DEF AcquireClaim, WaitForRelease, TaskBlocked, ReleaseClaim
  <2>4. CASE ProcessTask(f) \/ CheckTaskSuccess(f) \/ CheckGate(f) \/ CheckVerdict(f)
    BY <2>1, <2>2, <2>4 DEF ProcessTask, CheckTaskSuccess, CheckGate, CheckVerdict
  <2>5. CASE PreRunDecision(f) \/ AfterRun(f) \/ ResolveDependencies(f) \/ AwaitDependencies(f)
    BY <2>2, <2>5 DEF PreRunDecision, AfterRun, ResolveDependencies, AwaitDependencies
  <2>6. CASE CheckDependencies(f) \/ FailedDeps(f) \/ CheckTaskRunnability(f) \/ StartRun(f)
             \/ RunTask(f)
    BY <2>1, <2>2, <2>6
    DEF CheckDependencies, FailedDeps, CheckTaskRunnability, StartRun, RunTask
  <2> QED
    BY <2>3, <2>4, <2>5, <2>6 DEF CallStep
<1>5. \A b \in Batches : pc'[Worker(b)] = pc[Worker(b)]
  BY <1>3, WorkerIsCall, WorkerIsNoTaskCall DEF OthersStay, Wakes
<1>6. pc[f] # "idle"
  BY DEF CallStep, AcquireClaim, WaitForRelease, ReleaseClaim, ReleaseTo, TaskBlocked,
         ProcessTask, PreRunDecision, CheckTaskSuccess, CheckGate, CheckVerdict,
         CheckDependencies, ResolveDependencies, AwaitDependencies, FailedDeps,
         CheckTaskRunnability, StartRun, RunTask, AfterRun
<1> QED
  BY <1>1, <1>2, <1>3, <1>4, <1>5, <1>6

\* The worker wakes a probe of its group or a task of it, or a call stays where it is.
CallsStay(b) ==
    \A g \in TaskCalls :
        \/ pc'[g] = pc[g]
        \/ /\ pc[g] = "idle" /\ pc'[g] = "claim"
           /\ g[1] = b /\ (g[2] = Driver \/ g = Main(b, g[3]))
SweepStep(b) == pc[Worker(b)] = "sweep" /\ \E t \in Unstarted(b) : SetStatus(b, t, "ABORTED")

\* Each step of a worker, seen from the tasks, the calls and the other batches.
LEMMA WorkerFrame ==
    ASSUME TypeOK, ClaimInv, NEW b \in Batches, WorkerStep(b)
    PROVE  /\ UNCHANGED <<job, stop, claims, phase, verdict, runAttempted, failed>>
           /\ CallsStay(b)
           /\ UNCHANGED <<store, record, errored, defect>> \/ SweepStep(b)
           /\ \A f \in Calls : f # Worker(b) => waitFor'[f] = waitFor[f]
           /\ pc[Worker(b)] # "idle"
           /\ \A a \in Batches : a # b =>
                pc'[Worker(a)] = pc[Worker(a)] /\ todo'[a] = todo[a] /\ group'[a] = group[a]
<1> DEFINE w == Worker(b)
<1> w \in Calls /\ w = <<b, Driver, Driver>> /\ w \notin TaskCalls
  BY WorkerIsCall, WorkerIsNoTaskCall DEF Worker
<1> USE DEF BatchFrame, DriverFrame, ResolverFrame, NoStatus, Goto
<1>1. UNCHANGED <<job, stop, claims, phase, verdict, runAttempted, failed>>
  BY DEF WorkerStep, NextGroup, StartGroup, JoinGroup, ResolveDependencies, AwaitDependencies,
         AbortUnstarted, CompleteBatch
<1>2. UNCHANGED <<store, record, errored, defect>> \/ SweepStep(b)
  BY DEF WorkerStep, NextGroup, StartGroup, JoinGroup, ResolveDependencies, AwaitDependencies,
         AbortUnstarted, CompleteBatch, SweepStep
<1>3. ASSUME NEW deps, Resolve(w, deps), ProbesDone(w)
      PROVE  /\ \A g \in TaskCalls :
                    \/ pc'[g] = pc[g]
                    \/ pc[g] = "idle" /\ pc'[g] = "claim" /\ g[1] = b /\ g[2] = Driver
             /\ \A g \in Calls : pc'[g] # pc[g] => g[1] = b
  <2>1. ASSUME NEW g \in Calls, pc'[g] # pc[g], g # w
        PROVE  pc[g] = "idle" /\ pc'[g] = "claim" /\ g[1] = b /\ g[2] = Driver
    <3>1. PICK d \in deps : g = Probe(w, d) /\ pc'[g] = "claim"
      BY <1>3, <2>1 DEF Resolve
    <3>2. d \in Tasks /\ d # w[3]
      BY <2>1, <3>1, CallTriple, DriverAssumption DEF Probe, Calls, Callers
    <3> QED
      BY <1>3, <3>1, <3>2 DEF ProbesDone, Probe
  <2> QED
    BY <2>1, TaskCallsAreCalls
<1>4. ASSUME NEW to, pc' = [pc EXCEPT ![w] = to]
      PROVE  /\ CallsStay(b)
             /\ \A g \in Calls : pc'[g] # pc[g] => g[1] = b
  <2>1. \A g \in Calls : g # w => pc'[g] = pc[g]
    BY <1>4 DEF TypeOK
  <2> QED
    BY <2>1, TaskCallsAreCalls DEF CallsStay
<1>5. CallsStay(b) /\ \A g \in Calls : pc'[g] # pc[g] => g[1] = b
  <2>1. CASE NextGroup(b) \/ JoinGroup(b) \/ CompleteBatch(b)
    BY <1>4, <2>1 DEF NextGroup, JoinGroup, CompleteBatch
  <2>2. CASE AbortUnstarted(b)
    BY <1>4, <2>2 DEF AbortUnstarted, CallsStay
  <2>3. CASE StartGroup(b)
    <3>1. pc[w] = "spawn"
      BY <2>3 DEF StartGroup
    <3>2. \A f \in TaskCalls : f[1] = b => pc[f] = "idle"
      BY <3>1, BatchIsQuiet
    <3>3. \A g \in Calls : \/ pc'[g] = pc[g]
                           \/ g = w /\ pc'[g] = "join"
                           \/ pc'[g] = "claim" /\ \E t \in group[b] : g = Main(b, t)
      BY <2>3 DEF StartGroup
    <3>4. \A t \in group[b] :
             Main(b, t) \in TaskCalls /\ Main(b, t)[1] = b /\ Main(b, t)[3] = t
      BY MainShapes DEF Main, TypeOK
    <3> QED
      BY <3>2, <3>3, <3>4, TaskCallsAreCalls DEF CallsStay
  <2>4. CASE ResolveDependencies(w)
    <3>1. ProbesDone(w)
      BY <2>4, DriverAssumption
      DEF ResolveDependencies, ClaimInv, ProbesAreAwaited, ProbesDone, Probe, Callers
    <3> QED
      BY <1>3, <2>4, <3>1 DEF ResolveDependencies, CallsStay
  <2>5. CASE AwaitDependencies(w)
    <3>1. ProbesDone(w)
      BY <2>5 DEF AwaitDependencies
    <3>2. Resolve(w, waitFor[w]) \/ \E to : pc' = [pc EXCEPT ![w] = to]
      BY <2>5 DEF AwaitDependencies
    <3> QED
      BY <1>3, <1>4, <3>1, <3>2 DEF CallsStay
  <2> QED
    BY <2>1, <2>2, <2>3, <2>4, <2>5 DEF WorkerStep
<1>6. \A a \in Batches : a # b =>
        pc'[Worker(a)] = pc[Worker(a)] /\ todo'[a] = todo[a] /\ group'[a] = group[a]
  <2>1. \A a \in Batches : a # b => pc'[Worker(a)] = pc[Worker(a)]
    BY <1>5, WorkerIsCall DEF Worker
  <2>2. \A a \in Batches : a # b => todo'[a] = todo[a] /\ group'[a] = group[a]
    BY DEF WorkerStep, NextGroup, StartGroup, JoinGroup, ResolveDependencies,
           AwaitDependencies, AbortUnstarted, CompleteBatch, TypeOK
  <2> QED
    BY <2>1, <2>2
<1>7. \A f \in Calls : f # w => waitFor'[f] = waitFor[f]
  BY DEF WorkerStep, NextGroup, StartGroup, JoinGroup, ResolveDependencies, AwaitDependencies,
         Resolve, AbortUnstarted, CompleteBatch, DriverFrame, TypeOK
<1>8. pc[w] # "idle"
  BY DEF WorkerStep, NextGroup, StartGroup, JoinGroup, ResolveDependencies, AwaitDependencies,
         AbortUnstarted, CompleteBatch
<1> QED
  BY <1>1, <1>2, <1>5, <1>6, <1>7, <1>8

-----------------------------------------------------------------------------
(* NoUnverifiedRun *)

\* Where a call is between the decision to run its task and the end of the run.
Deciding == { "deps", "resolve", "await", "depsReady", "runnability", "ready", "run" }

\* What NoUnverifiedRun needs of a call before it runs: it came past its check on a
\* forced run or on the verdict "not complete", which nobody can change under its
\* claim, and a status FAILED it decides upon is the one that verdict wrote.
VerdictOf(f) ==
    /\ pc[f] \in Deciding => job[f[1]].force_run \/ verdict[f[3]] = "fail"
    /\ pc[f] = "decide" /\ store[f[3]] = "FAILED" => verdict[f[3]] = "fail"
VerdictInv == \A f \in TaskCalls : VerdictOf(f)

\* The step of the call itself.
LEMMA OwnVerdict ==
    ASSUME TypeOK, ClaimInv, NEW f \in TaskCalls, VerdictOf(f), CallStep(f)
    PROVE  VerdictOf(f)'
<1> f \in Calls /\ f[1] \in Batches /\ f[3] \in Tasks
  BY TaskCallsAreCalls DEF TaskCalls
<1> USE DEF TypeOK, VerdictOf, Deciding, BatchFrame, OwnerFrame, ResolverFrame, NoStatus, Goto
<1>1. CASE \/ AcquireClaim(f) \/ WaitForRelease(f) \/ ReleaseClaim(f) \/ TaskBlocked(f)
           \/ AfterRun(f)
  BY <1>1
  DEF AcquireClaim, WaitForRelease, Take, Entry, ReleaseClaim, ReleaseTo, TaskBlocked, AfterRun
<1>2. CASE ProcessTask(f) \/ PreRunDecision(f)
  BY <1>2 DEF ProcessTask, PreRunDecision
<1>3. CASE CheckTaskSuccess(f)
  BY <1>3, StatusEffect
  DEF CheckTaskSuccess, CheckReturn, CHECKABLE_STATUSES, RUNNABLE_STATUSES
<1>4. CASE CheckGate(f)
  BY <1>4, StatusEffect DEF CheckGate, CheckReturn
<1>5. CASE CheckVerdict(f)
  <2> PICK answer \in CheckOutcomes :
           /\ SetStatus(f[1], f[3], CheckedStatus(f[1], f[3], answer))
           /\ Goto(f, IF answer = "error" /\ ReraiseErrors
                      THEN "releaseRaise" ELSE CheckReturn(f))
           /\ verdict' = [verdict EXCEPT ![f[3]] = answer]
    BY <1>5 DEF CheckVerdict
  <2>1. CheckedStatus(f[1], f[3], answer) = "FAILED" => answer = "fail"
    BY OutcomesAssumption DEF CheckedStatus, PassedStatus, NotPassedStatus
  <2>2. store'[f[3]] = CheckedStatus(f[1], f[3], answer)
    BY StatusEffect
  <2>3. pc'[f] \in { "releaseRaise", "decide", "release" } /\ verdict'[f[3]] = answer
    BY DEF CheckReturn
  <2> QED
    BY <2>1, <2>2, <2>3
<1>6. CASE ResolveDependencies(f) \/ AwaitDependencies(f)
  BY <1>6, DriverAssumption DEF ResolveDependencies, AwaitDependencies, Resolve, Resolved
<1>7. CASE \/ CheckDependencies(f) \/ FailedDeps(f) \/ CheckTaskRunnability(f) \/ StartRun(f)
           \/ RunTask(f)
  BY <1>7 DEF CheckDependencies, FailedDeps, CheckTaskRunnability, StartRun, RunTask
<1> QED
  BY <1>1, <1>2, <1>3, <1>4, <1>5, <1>6, <1>7 DEF CallStep

\* The steps of the others do not touch the verdict of an owned task, and write no
\* FAILED on it.
LEMMA OthersVerdict ==
    ASSUME TypeOK, ClaimInv, VerdictInv, NEW f \in TaskCalls, NEW g \in TaskCalls, g # f,
           CallStep(f)
    PROVE  VerdictOf(g)'
<1> f \in Calls /\ g \in Calls /\ g[3] \in Tasks /\ g[1] \in Batches
  BY TaskCallsAreCalls DEF TaskCalls
<1>1. UNCHANGED job /\ StoreStep(f) /\ OthersStay(f)
  BY CallFrame
<1>2. CASE pc'[g] # pc[g]
  BY <1>1, <1>2 DEF OthersStay, Wakes, VerdictOf, Deciding
<1>3. CASE pc'[g] = pc[g] /\ pc[g] \notin Deciding \cup {"decide"}
  BY <1>3 DEF VerdictOf
<1>4. CASE pc'[g] = pc[g] /\ pc[g] \in Deciding \cup {"decide"}
  <2>1. Owns(g)
    BY <1>4 DEF Owns, IsTaskCall, OwnerPCs, Deciding
  <2>2. f[3] = g[3] => ~Owns(f) /\ claims[f[3]] # NoClaim
    BY <2>1, NoClaimAssumption DEF ClaimInv, OwnersHoldClaims
  <2>3. verdict'[g[3]] = verdict[g[3]]
    BY <1>1, <2>2 DEF StoreStep
  <2>4. store'[g[3]] = store[g[3]] \/ store'[g[3]] = "BLOCKED"
    BY <1>1, <2>2 DEF StoreStep
  <2> QED
    BY <1>1, <1>4, <2>3, <2>4 DEF VerdictInv, VerdictOf
<1> QED
  BY <1>2, <1>3, <1>4

\* A submission and a stop, seen from the calls: the batch they name has none alive.
LEMMA UserFrame ==
    ASSUME TypeOK, ClaimInv, NEW b \in Batches,
           RequestStop(b) \/ \E j \in Jobs : Submit(b, j)
    PROVE  /\ UNCHANGED <<store, claims, phase, verdict, group, runAttempted, waitFor, failed,
                         defect>>
           /\ \A f \in TaskCalls : pc'[f] = pc[f]
           /\ \A f \in TaskCalls : job'[f[1]] = job[f[1]] \/ pc[f] = "idle"
           /\ \A a \in Batches : a # b => job'[a] = job[a] /\ stop'[a] = stop[a]
                  /\ record'[a] = record[a] /\ todo'[a] = todo[a] /\ errored'[a] = errored[a]
                  /\ pc'[Worker(a)] = pc[Worker(a)]
<1>1. UNCHANGED <<store, claims, phase, verdict, group, runAttempted, waitFor, failed, defect>>
  BY DEF Submit, RequestStop, DriverFrame
<1>2. \A f \in TaskCalls : pc'[f] = pc[f]
  BY TaskCallsAreCalls, WorkerIsNoTaskCall, WorkerIsCall
  DEF Submit, RequestStop, Goto, TypeOK
<1>3. \A a \in Batches : a # b => job'[a] = job[a] /\ stop'[a] = stop[a]
          /\ record'[a] = record[a] /\ todo'[a] = todo[a] /\ errored'[a] = errored[a]
  BY DEF Submit, RequestStop, TypeOK
<1>4. \A a \in Batches : a # b => pc'[Worker(a)] = pc[Worker(a)]
  BY WorkerIsCall DEF Submit, RequestStop, Goto, TypeOK, Worker
<1>5. job'[b] = job[b] \/ \A f \in TaskCalls : f[1] = b => pc[f] = "idle"
  BY BatchIsQuiet DEF Submit, RequestStop
<1>6. \A f \in TaskCalls : f[1] \in Batches
  BY DEF TaskCalls
<1> QED
  BY <1>1, <1>2, <1>3, <1>4, <1>5, <1>6

\* Every step keeps what a run needs of its check.
LEMMA VerdictStep ==
    ASSUME TypeOK, ClaimInv, VerdictInv, [Next]_vars
    PROVE  VerdictInv'
<1> SUFFICES ASSUME NEW g \in TaskCalls PROVE VerdictOf(g)'
  BY DEF VerdictInv
<1> VerdictOf(g) /\ g \in Calls /\ g[1] \in Batches /\ g[3] \in Tasks
  BY TaskCallsAreCalls DEF VerdictInv, TaskCalls
<1>1. ASSUME NEW f \in TaskCalls, CallStep(f)
      PROVE  VerdictOf(g)'
  BY <1>1, OwnVerdict, OthersVerdict
<1>2. ASSUME NEW b \in Batches, WorkerStep(b)
      PROVE  VerdictOf(g)'
  <2>1. UNCHANGED <<job, verdict>> /\ CallsStay(b) /\ (UNCHANGED store \/ SweepStep(b))
    BY <1>2, WorkerFrame
  <2>2. store'[g[3]] = store[g[3]] \/ store'[g[3]] = "ABORTED"
    BY <2>1, StatusEffect DEF SweepStep, Unstarted, JobType, TypeOK
  <2> QED
    BY <2>1, <2>2 DEF CallsStay, VerdictOf, Deciding
<1>3. ASSUME NEW b \in Batches, RequestStop(b) \/ \E j \in Jobs : Submit(b, j)
      PROVE  VerdictOf(g)'
  BY <1>3, UserFrame DEF VerdictOf, Deciding
<1>4. CASE UserStep
  BY <1>4, <1>3 DEF UserStep
<1>5. CASE UNCHANGED vars
  BY <1>5 DEF VerdictOf, vars
<1> QED
  BY <1>1, <1>2, <1>4, <1>5 DEF Next, AllFinished

\* No task ever runs that its own check, under the same claim, did not find "not
\* complete", unless the batch forces the run: for every set of tasks, batches,
\* submissions and answers of the hooks.
THEOREM VerifiedRuns == Spec => []NoUnverifiedRun
<1>1. Init => VerdictInv
  <2>1. Init => \A f \in TaskCalls : pc[f] = "idle"
    BY TaskCallsAreCalls DEF Init
  <2> QED
    BY <2>1 DEF VerdictInv, VerdictOf, Deciding
<1>2. TypeOK /\ ClaimInv /\ VerdictInv /\ [Next]_vars => VerdictInv'
  BY VerdictStep
<1>3. VerdictInv => NoUnverifiedRun
  BY DEF VerdictInv, VerdictOf, Deciding, NoUnverifiedRun
<1> QED
  BY <1>1, <1>2, <1>3, TypeCorrect, ClaimsCorrect, PTL DEF Spec

-----------------------------------------------------------------------------
(* DepsHoldWhileRunning *)

\* The path of a call: what its place and its phase say of the batch it is of.
PathOf(f) ==
    /\ pc[f] \in { "idle", "claim", "wait", "guard" } => phase[f] = "CHECK"
    /\ pc[f] \in Deciding \cup { "ran", "process", "decide" } \/ phase[f] # "CHECK"
         => IsProcess(f)
    /\ pc[f] \in Deciding \cup { "decide" } \/ phase[f] = "PRE_RUN_CHECK"
         => ~ForcesSuccess(f[1])
PathInv == \A f \in TaskCalls : PathOf(f)

\* The tasks a worker has taken and those it has yet to take are tasks of its job; a
\* single job is of one task, and a group of a run is of one rank.
GroupInv ==
    \A b \in Batches :
        /\ todo[b] \subseteq job[b].tasks /\ group[b] \subseteq job[b].tasks
        /\ job[b].action \in { "run_single", "check_single" } =>
             \A t, u \in job[b].tasks : t = u
        /\ job[b].action = "run" => \A t, u \in group[b] : Order[t] = Order[u]
        /\ pc[Worker(b)] = "idle" => todo[b] = {} /\ group[b] = {}

\* A resolver waits for dependencies of its task; after the pre-pass of a run no task
\* of the group probes its own, because they are all in the shared result.
ProbeInv ==
    \A b \in Batches :
        /\ \A u \in Tasks : waitFor[Main(b, u)] \subseteq Deps[u]
        /\ job[b].action = "run" /\ ~ForcesSuccess(b) =>
             \A u, d \in Tasks : u # d => pc[<<b, u, d>>] = "idle"

\* The dependencies of a task hold from the moment they were all found satisfied.
DepsHold(f) ==
    pc[f] \in { "runnability", "ready", "run" } /\ AloneInBatch(f[1]) =>
        \A d \in Deps[f[3]] : store[d] \notin UNSATISFIED_STATUSES
DepsInv == \A f \in TaskCalls : DepsHold(f)

\* A step of the call keeps its path.
LEMMA OwnPath ==
    ASSUME TypeOK, ClaimInv, NEW f \in TaskCalls, PathOf(f), CallStep(f)
    PROVE  PathOf(f)'
<1> f \in Calls /\ f[1] \in Batches /\ f[3] \in Tasks
  BY TaskCallsAreCalls DEF TaskCalls
<1> USE DEF TypeOK, PathOf, Deciding, BatchFrame, OwnerFrame, ResolverFrame, NoStatus, Goto,
            IsProcess, ForcesSuccess
<1>1. CASE \/ AcquireClaim(f) \/ WaitForRelease(f) \/ ReleaseClaim(f) \/ TaskBlocked(f)
  BY <1>1
  DEF AcquireClaim, WaitForRelease, Take, Entry, ReleaseClaim, ReleaseTo, TaskBlocked
<1>2. CASE ProcessTask(f)
  BY <1>2 DEF ProcessTask
<1>3. CASE PreRunDecision(f) \/ AfterRun(f)
  BY <1>3 DEF PreRunDecision, AfterRun
<1>4. CASE CheckTaskSuccess(f)
  BY <1>4 DEF CheckTaskSuccess, CheckReturn, Phases
<1>5. CASE CheckGate(f) \/ CheckVerdict(f)
  BY <1>5 DEF CheckGate, CheckVerdict, CheckReturn, Phases
<1>6. CASE ResolveDependencies(f) \/ AwaitDependencies(f)
  BY <1>6, DriverAssumption DEF ResolveDependencies, AwaitDependencies, Resolve, Resolved
<1>7. CASE \/ CheckDependencies(f) \/ FailedDeps(f) \/ CheckTaskRunnability(f) \/ StartRun(f)
           \/ RunTask(f)
  BY <1>7 DEF CheckDependencies, FailedDeps, CheckTaskRunnability, StartRun, RunTask
<1> QED
  BY <1>1, <1>2, <1>3, <1>4, <1>5, <1>6, <1>7 DEF CallStep

\* Every step keeps the path of every call.
LEMMA PathStep ==
    ASSUME TypeOK, ClaimInv, PathInv, [Next]_vars
    PROVE  PathInv'
<1> SUFFICES ASSUME NEW g \in TaskCalls PROVE PathOf(g)'
  BY DEF PathInv
<1> PathOf(g) /\ g \in Calls /\ g[1] \in Batches
  BY TaskCallsAreCalls DEF PathInv, TaskCalls
<1>1. ASSUME UNCHANGED job, phase'[g] = phase[g],
             pc'[g] = pc[g] \/ (pc[g] = "idle" /\ pc'[g] = "claim")
      PROVE  PathOf(g)'
  BY <1>1 DEF PathOf, Deciding, IsProcess, ForcesSuccess
<1>2. ASSUME NEW f \in TaskCalls, CallStep(f)
      PROVE  PathOf(g)'
  BY <1>1, <1>2, OwnPath, CallFrame DEF OthersStay, Wakes
<1>3. ASSUME NEW b \in Batches, WorkerStep(b)
      PROVE  PathOf(g)'
  BY <1>1, <1>3, WorkerFrame DEF CallsStay
<1>4. CASE UserStep
  <2>1. /\ phase'[g] = phase[g] /\ pc'[g] = pc[g]
        /\ job'[g[1]] = job[g[1]] \/ pc[g] = "idle"
    BY <1>4, UserFrame DEF UserStep
  <2> QED
    BY <2>1 DEF PathOf, Deciding, IsProcess, ForcesSuccess
<1>5. CASE UNCHANGED vars
  BY <1>1, <1>5 DEF vars
<1> QED
  BY <1>2, <1>3, <1>4, <1>5 DEF Next, AllFinished

\* Every step keeps the tasks of a worker within its job.
LEMMA GroupStep ==
    ASSUME TypeOK, ClaimInv, GroupInv, [Next]_vars
    PROVE  GroupInv'
<1> DEFINE Good(b) ==
        /\ todo[b] \subseteq job[b].tasks /\ group[b] \subseteq job[b].tasks
        /\ job[b].action \in { "run_single", "check_single" } =>
             \A t, u \in job[b].tasks : t = u
        /\ job[b].action = "run" => \A t, u \in group[b] : Order[t] = Order[u]
        /\ pc[Worker(b)] = "idle" => todo[b] = {} /\ group[b] = {}
<1>1. \A b \in Batches : Good(b)
  BY DEF GroupInv
<1> SUFFICES ASSUME NEW b \in Batches PROVE Good(b)'
  BY DEF GroupInv, Worker
<1> USE <1>1
<1>2. ASSUME UNCHANGED <<job, todo, group>>, pc'[Worker(b)] = pc[Worker(b)]
      PROVE  Good(b)'
  BY <1>2 DEF Worker
<1>3. ASSUME NEW f \in TaskCalls, CallStep(f)
      PROVE  Good(b)'
  BY <1>2, <1>3, CallFrame
<1>4. ASSUME NEW a \in Batches, WorkerStep(a)
      PROVE  Good(b)'
  <2>1. CASE a # b
    <3>1. /\ UNCHANGED job /\ pc'[Worker(b)] = pc[Worker(b)]
          /\ todo'[b] = todo[b] /\ group'[b] = group[b]
      BY <1>4, <2>1, WorkerFrame
    <3> QED
      BY <3>1 DEF Worker
  <2>2. CASE a = b /\ NextGroup(b)
    <3>1. UNCHANGED job
      BY <2>2 DEF NextGroup
    <3>2. pc'[Worker(b)] # "idle"
      BY <2>2, WorkerIsCall DEF NextGroup, Goto, TypeOK
    <3>3. \A t, u \in FirstGroup(todo[b]) : Order[t] = Order[u]
      <4> SUFFICES ASSUME NEW t \in FirstGroup(todo[b]), NEW u \in FirstGroup(todo[b])
                   PROVE  Order[t] = Order[u]
        OBVIOUS
      <4>1. t \in Tasks /\ u \in Tasks /\ Order[t] <= Order[u] /\ Order[u] <= Order[t]
        BY DEF FirstGroup, TypeOK
      <4>2. Order[t] \in Nat /\ Order[u] \in Nat
        BY <4>1, OrderAssumption
      <4> QED
        BY <4>1, <4>2
    <3>4. CASE UNCHANGED <<todo, group>>
      BY <3>1, <3>2, <3>4 DEF Worker
    <3>5. CASE ~UNCHANGED <<todo, group>>
      <4>1. /\ group'[b] = IF job[b].action = "run" THEN FirstGroup(todo[b]) ELSE todo[b]
            /\ todo'[b] \subseteq todo[b]
        BY <2>2, <3>5 DEF NextGroup, TypeOK
      <4> QED
        BY <3>1, <3>2, <3>3, <4>1 DEF FirstGroup, Worker
    <3> QED
      BY <3>4, <3>5
  <2>3. CASE a = b /\ ~NextGroup(b)
    <3>1. UNCHANGED <<job, todo, group>>
      BY <1>4, <2>3
      DEF WorkerStep, StartGroup, JoinGroup, ResolveDependencies, AwaitDependencies,
          AbortUnstarted, CompleteBatch, BatchFrame, ResolverFrame
    <3>2. pc'[Worker(b)] # "idle"
      BY <1>4, <2>3, WorkerIsCall
      DEF WorkerStep, StartGroup, JoinGroup, ResolveDependencies, AwaitDependencies,
          AbortUnstarted, CompleteBatch, Goto, Resolve, Resolved, TypeOK
    <3> QED
      BY <3>1, <3>2 DEF Worker
  <2> QED
    BY <2>1, <2>2, <2>3
<1>5. ASSUME NEW a \in Batches, RequestStop(a) \/ \E j \in Jobs : Submit(a, j)
      PROVE  Good(b)'
  <2>1. CASE a # b
    BY <1>5, <2>1, UserFrame DEF Worker
  <2>2. CASE a = b /\ RequestStop(b)
    BY <1>2, <2>2 DEF RequestStop
  <2>3. ASSUME NEW j \in Jobs, a = b, Submit(b, j)
        PROVE  Good(b)'
    <3>1. /\ group'[b] = {} /\ pc'[Worker(b)] = "next"
          /\ todo'[b] = { t \in j.tasks : store[t] # "SKIPPED" }
          /\ job'[b] = [j EXCEPT !.tasks = todo'[b]]
      BY <2>3, WorkerIsCall DEF Submit, Goto, TypeOK
    <3>2. j \in JobType
      BY JobsAssumption
    <3>3. job'[b].tasks = todo'[b] /\ job'[b].action = j.action
      BY <3>1, <3>2 DEF JobType
    <3> QED
      BY <3>1, <3>3, JobsAssumption DEF Worker
  <2> QED
    BY <1>5, <2>1, <2>2, <2>3
<1>6. CASE UNCHANGED vars
  BY <1>2, <1>6 DEF vars, Worker
<1> QED
  BY <1>3, <1>4, <1>5, <1>6 DEF Next, UserStep, AllFinished

\* What a resolver starts and waits for, of the dependencies it resolves.
LEMMA ResolveEffect ==
    ASSUME TypeOK, NEW r \in Calls, NEW deps, Resolve(r, deps)
    PROVE  /\ waitFor'[r] \subseteq deps
           /\ \A g \in Calls : g # r /\ pc'[g] # pc[g] =>
                \E d \in deps \ Excluded(r) : g = Probe(r, d)
BY DEF Resolve, TypeOK

\* Every step keeps the probes of a group in the pre-pass.
LEMMA ProbeStep ==
    ASSUME TypeOK, ClaimInv, ProbeInv, [Next]_vars
    PROVE  ProbeInv'
<1> DEFINE Good(b, u, d) ==
        /\ waitFor[Main(b, u)] \subseteq Deps[u]
        /\ job[b].action = "run" /\ ~ForcesSuccess(b) /\ u # d => pc[<<b, u, d>>] = "idle"
<1>1. \A b \in Batches, u, d \in Tasks : Good(b, u, d)
  BY DEF ProbeInv
<1> SUFFICES ASSUME NEW b \in Batches, NEW u \in Tasks, NEW d \in Tasks PROVE Good(b, u, d)'
  BY DEF ProbeInv, ForcesSuccess, Main
<1> DEFINE m == Main(b, u)
           p == <<b, u, d>>
<1> m \in TaskCalls /\ m \in Calls /\ p \in TaskCalls /\ p \in Calls
  BY MainShapes, CallShapes DEF Callers
<1> Good(b, u, d)
  BY <1>1
<1>2. ASSUME job'[b] = job[b], waitFor'[m] = waitFor[m], pc'[p] = pc[p]
      PROVE  Good(b, u, d)'
  BY <1>2 DEF ForcesSuccess, Main
<1>3. ASSUME NEW f \in TaskCalls, CallStep(f)
      PROVE  Good(b, u, d)'
  <2> f \in Calls
    BY TaskCallsAreCalls
  <2>1. UNCHANGED job /\ OthersStay(f)
    BY <1>3, CallFrame
  <2>2. ASSUME NEW deps \in SUBSET Deps[u], Resolve(m, deps), f = m, pc[m] # "idle"
        PROVE  Good(b, u, d)'
    <3>1. waitFor'[m] \subseteq Deps[u]
      BY <2>2, ResolveEffect
    <3>2. ASSUME job[b].action = "run", ~ForcesSuccess(b), u # d
          PROVE  pc'[p] = pc[p]
      <4>1. u \in group[b]
        BY <2>2 DEF ClaimInv, GroupIsJoined
      <4>2. deps \subseteq Excluded(m)
        BY <3>2, <4>1, DriverAssumption DEF Excluded, CheckedDeps, Main
      <4>3. p # m
        BY <3>2 DEF Main
      <4> QED
        BY <2>2, <4>2, <4>3, ResolveEffect
    <3> QED
      BY <2>1, <3>1, <3>2 DEF ForcesSuccess, Main
  <2>3. CASE f = m /\ ResolveDependencies(f)
    <3>1. Resolve(m, Deps[u]) /\ pc[m] # "idle"
      BY <2>3, DriverAssumption DEF ResolveDependencies, DepsOf, Main
    <3> QED
      BY <2>2, <2>3, <3>1
  <2>4. CASE f = m /\ AwaitDependencies(f)
    <3>1. \/ Resolve(m, waitFor[m])
          \/ \E to : pc' = [pc EXCEPT ![m] = to] /\ waitFor' = [waitFor EXCEPT ![m] = {}]
      BY <2>4 DEF AwaitDependencies, Goto
    <3>2. CASE Resolve(m, waitFor[m])
      BY <2>2, <2>4, <3>2 DEF AwaitDependencies
    <3>3. CASE \E to : pc' = [pc EXCEPT ![m] = to] /\ waitFor' = [waitFor EXCEPT ![m] = {}]
      <4>1. waitFor'[m] = {} /\ (u # d => pc'[p] = pc[p])
        BY <3>3 DEF TypeOK, Main
      <4> QED
        BY <2>1, <4>1 DEF ForcesSuccess, Main
    <3> QED
      BY <3>1, <3>2, <3>3
  <2>5. CASE f = m /\ ~ResolveDependencies(f) /\ ~AwaitDependencies(f)
    <3>1. waitFor' = waitFor /\ \E to : pc' = [pc EXCEPT ![m] = to]
      BY <1>3, <2>5
      DEF CallStep, AcquireClaim, WaitForRelease, Take, ReleaseClaim, TaskBlocked, ProcessTask,
          PreRunDecision, CheckTaskSuccess, CheckGate, CheckVerdict, CheckDependencies,
          FailedDeps, CheckTaskRunnability, StartRun, RunTask, AfterRun, OwnerFrame, Goto
    <3>2. waitFor'[m] = waitFor[m] /\ (u # d => pc'[p] = pc[p])
      BY <3>1 DEF TypeOK, Main
    <3> QED
      BY <2>1, <3>2 DEF ForcesSuccess, Main
  <2>6. CASE f # m
    <3>1. waitFor'[m] = waitFor[m]
      BY <2>1, <2>6 DEF OthersStay
    <3>2. u # d /\ f # p => pc'[p] = pc[p]
      <4> SUFFICES ASSUME f # p, pc'[p] # pc[p]
                   PROVE  FALSE
        OBVIOUS
      <4>1. f[1] = b /\ f[2] = u /\ f[2] = f[3]
        BY <2>1 DEF OthersStay, Wakes
      <4> QED
        BY <2>6, <4>1, CallTriple DEF Main
    <3>3. f = p => pc[p] # "idle"
      BY <1>3, CallFrame
    <3> QED
      BY <2>1, <3>1, <3>2, <3>3 DEF ForcesSuccess, Main
  <2> QED
    BY <2>3, <2>4, <2>5, <2>6
<1>4. ASSUME NEW a \in Batches, WorkerStep(a)
      PROVE  Good(b, u, d)'
  <2>1. UNCHANGED job /\ waitFor'[m] = waitFor[m] /\ CallsStay(a)
    BY <1>4, WorkerFrame, WorkerIsNoTaskCall
  <2>2. u # d => pc'[p] = pc[p]
    BY <2>1, DriverAssumption DEF CallsStay, Main
  <2> QED
    BY <2>1, <2>2 DEF ForcesSuccess, Main
<1>5. CASE UserStep
  <2>1. /\ waitFor'[m] = waitFor[m] /\ pc'[p] = pc[p]
        /\ job'[b] = job[b] \/ pc[p] = "idle"
    BY <1>5, UserFrame DEF UserStep
  <2> QED
    BY <1>2, <2>1 DEF Main
<1>6. CASE UNCHANGED vars
  BY <1>2, <1>6 DEF vars
<1> QED
  BY <1>3, <1>4, <1>5, <1>6 DEF Next, AllFinished

\* A sibling of a task that was found ready to run changes no dependency of it: the
\* probes of their group are over, and the tasks of a group are of one rank.
LEMMA SiblingsAreIndependent ==
    ASSUME TypeOK, ClaimInv, PathInv, GroupInv, ProbeInv, NEW f \in TaskCalls, pc[f] # "idle",
           NEW g \in TaskCalls, pc[g] \in { "runnability", "ready", "run" },
           f # g, f[1] = g[1]
    PROVE  f[3] \notin Deps[g[3]]
<1> DEFINE b == g[1]
           u == g[3]
           d == f[3]
           c == f[2]
<1> b \in Batches /\ u \in Tasks /\ d \in Tasks /\ c \in Callers /\ f \in Calls /\ g \in Calls
  BY TaskCallsAreCalls DEF TaskCalls
<1>1. g[2] = u /\ g = Main(b, u) /\ IsProcess(g) /\ ~ForcesSuccess(b)
  BY CallTriple DEF PathInv, PathOf, Deciding, IsProcess, Main
<1>2. u \in group[b] /\ pc[Worker(b)] = "join"
  BY <1>1 DEF ClaimInv, GroupIsJoined
<1>3. job[b].action \in { "run", "run_single" }
  BY <1>1 DEF IsProcess
<1>4. CASE c = d
  <2>1. f = Main(b, d)
    BY <1>4, CallTriple DEF Main
  <2>2. d \in group[b] /\ d # u
    BY <1>1, <2>1 DEF ClaimInv, GroupIsJoined
  <2>3. Order[d] = Order[u]
    BY <1>2, <1>3, <2>2 DEF GroupInv
  <2>4. Order[d] \in Nat
    BY OrderAssumption
  <2> QED
    BY <2>3, <2>4, OrderAssumption
<1>5. CASE c # d
  <2>1. f = <<b, c, d>> /\ pc[<<b, c, c>>] = "await"
    BY <1>5, CallTriple DEF ClaimInv, ProbesAreAwaited
  <2>2. c \in Tasks
    BY <1>2, <2>1 DEF Callers, Worker
  <2>3. c \in group[b] /\ c # u
    BY <1>1, <2>1, <2>2 DEF ClaimInv, GroupIsJoined, Main
  <2>4. job[b].action = "run"
    BY <1>2, <1>3, <2>3 DEF GroupInv
  <2> QED
    BY <1>1, <1>5, <2>1, <2>2, <2>4 DEF ProbeInv
<1> QED
  BY <1>4, <1>5

\* Every step keeps the dependencies of a task that was found ready to run.
LEMMA DepsStep ==
    ASSUME TypeOK, ClaimInv, PathInv, GroupInv, ProbeInv, DepsInv, [Next]_vars
    PROVE  DepsInv'
<1> SUFFICES ASSUME NEW g \in TaskCalls, pc'[g] \in { "runnability", "ready", "run" },
                    AloneInBatch(g[1])', NEW d \in Deps[g[3]]
             PROVE  store'[d] \notin UNSATISFIED_STATUSES
  BY DEF DepsInv, DepsHold
<1> g \in Calls /\ g[1] \in Batches /\ g[3] \in Tasks /\ d \in Tasks /\ d # g[3]
  <2>1. g \in Calls /\ g[1] \in Batches /\ g[3] \in Tasks /\ d \in Tasks
    BY TaskCallsAreCalls, DepsAssumption DEF TaskCalls
  <2>2. Order[d] \in Nat /\ Order[d] < Order[g[3]]
    BY <2>1, OrderAssumption
  <2> QED
    BY <2>1, <2>2
<1>1. ASSUME pc'[g] = pc[g], AloneInBatch(g[1]), store'[d] = store[d]
      PROVE  store'[d] \notin UNSATISFIED_STATUSES
  BY <1>1 DEF DepsInv, DepsHold
<1>2. ASSUME NEW f \in TaskCalls, CallStep(f)
      PROVE  store'[d] \notin UNSATISFIED_STATUSES
  <2>1. /\ StoreStep(f) /\ OthersStay(f) /\ pc[f] # "idle" /\ f \in Calls
        /\ \A b \in Batches : pc'[Worker(b)] = pc[Worker(b)]
    BY <1>2, CallFrame, TaskCallsAreCalls
  <2>2. AloneInBatch(g[1])
    BY <2>1 DEF AloneInBatch, Worker
  <2>3. CASE f = g
    <3>1. store'[d] = store[d]
      BY <2>1, <2>3 DEF StoreStep
    <3>2. \/ pc[g] \in { "runnability", "ready", "run" }
          \/ pc[g] = "depsReady" /\ store[d] \notin UNSATISFIED_STATUSES
      BY <1>2, <2>3, DriverAssumption
      DEF CallStep, AcquireClaim, WaitForRelease, Take, Entry, ReleaseClaim, ReleaseTo,
          TaskBlocked, ProcessTask, PreRunDecision, CheckTaskSuccess, CheckGate, CheckVerdict,
          CheckReturn, CheckDependencies, ResolveDependencies, AwaitDependencies, Resolve,
          Resolved, FailedDeps, CheckTaskRunnability, StartRun, RunTask, AfterRun, Goto, TypeOK
    <3> QED
      BY <2>2, <3>1, <3>2 DEF DepsInv, DepsHold
  <2>4. CASE f # g
    <3>1. pc'[g] = pc[g]
      BY <2>1, <2>4 DEF OthersStay, Wakes
    <3>2. f[1] = g[1]
      <4> SUFFICES ASSUME f[1] # g[1] PROVE FALSE
        OBVIOUS
      <4>1. f[1] \in Batches /\ pc[Worker(f[1])] = "idle"
        BY <2>2 DEF AloneInBatch, TaskCalls
      <4> QED
        BY <2>1, <4>1, BatchIsQuiet
    <3>3. f[3] # d
      BY <2>1, <2>4, <3>1, <3>2, SiblingsAreIndependent
    <3> QED
      BY <1>1, <2>1, <2>2, <3>1, <3>3 DEF StoreStep
  <2> QED
    BY <2>3, <2>4
<1>3. ASSUME NEW a \in Batches, WorkerStep(a)
      PROVE  store'[d] \notin UNSATISFIED_STATUSES
  <2>1. /\ CallsStay(a) /\ (UNCHANGED store \/ SweepStep(a)) /\ pc[Worker(a)] # "idle"
        /\ \A b \in Batches : b # a => pc'[Worker(b)] = pc[Worker(b)]
    BY <1>3, WorkerFrame
  <2>2. pc'[g] = pc[g]
    BY <2>1 DEF CallsStay
  <2>3. pc'[Worker(a)] # "idle"
    BY <1>3, WorkerIsCall
    DEF WorkerStep, NextGroup, StartGroup, JoinGroup, ResolveDependencies, AwaitDependencies,
        AbortUnstarted, CompleteBatch, Goto, Resolve, Resolved, TypeOK
  <2>4. a = g[1]
    BY <2>3 DEF AloneInBatch, Worker
  <2>5. ~SweepStep(a)
    BY <2>2, <2>4, BatchIsQuiet DEF SweepStep
  <2>6. AloneInBatch(g[1])
    BY <2>1, <2>4 DEF AloneInBatch, Worker
  <2> QED
    BY <1>1, <2>1, <2>2, <2>5, <2>6
<1>4. ASSUME NEW a \in Batches, RequestStop(a) \/ \E j \in Jobs : Submit(a, j)
      PROVE  store'[d] \notin UNSATISFIED_STATUSES
  <2>1. UNCHANGED store /\ pc'[g] = pc[g]
    BY <1>4, UserFrame
  <2>2. AloneInBatch(g[1])
    <3>1. \A b \in Batches : pc[Worker(b)] # "idle" => pc'[Worker(b)] # "idle"
      BY <1>4, WorkerIsCall DEF RequestStop, Submit, Goto, TypeOK
    <3> QED
      BY <3>1 DEF AloneInBatch, Worker
  <2> QED
    BY <1>1, <2>1, <2>2
<1>5. CASE UNCHANGED vars
  BY <1>1, <1>5 DEF vars, AloneInBatch, Worker
<1> QED
  BY <1>2, <1>3, <1>4, <1>5 DEF Next, UserStep, AllFinished

\* What the proofs about outcomes share.
THEOREM CallsOnPath == Spec => [](PathInv /\ GroupInv /\ ProbeInv)
<1>1. Init => PathInv /\ GroupInv /\ ProbeInv
  <2> SUFFICES ASSUME Init PROVE PathInv /\ GroupInv /\ ProbeInv
    OBVIOUS
  <2>1. \A f \in Calls : pc[f] = "idle" /\ phase[f] = "CHECK" /\ waitFor[f] = {}
    BY DEF Init
  <2>2. PathInv
    BY <2>1, TaskCallsAreCalls DEF PathInv, PathOf, Deciding
  <2>3. \A b \in Batches : todo[b] = {} /\ group[b] = {} /\ job[b] = NoJob
    BY DEF Init
  <2>4. GroupInv
    BY <2>3 DEF GroupInv, NoJob
  <2>5. ProbeInv
    BY <2>1, CallShapes, MainShapes DEF ProbeInv, Callers
  <2> QED
    BY <2>2, <2>4, <2>5
<1>2. /\ TypeOK /\ ClaimInv /\ PathInv /\ GroupInv /\ ProbeInv /\ [Next]_vars
      => PathInv' /\ GroupInv' /\ ProbeInv'
  BY PathStep, GroupStep, ProbeStep
<1> QED
  BY <1>1, <1>2, TypeCorrect, ClaimsCorrect, PTL DEF Spec

\* While no other batch is alive, no sibling of a running task takes back a dependency
\* of it, for every dependency graph and every order that sorts it.
THEOREM DependenciesHold == Spec => []DepsHoldWhileRunning
<1>1. Init => DepsInv
  <2>1. Init => \A f \in TaskCalls : pc[f] = "idle"
    BY TaskCallsAreCalls DEF Init
  <2> QED
    BY <2>1 DEF DepsInv, DepsHold
<1>2. /\ TypeOK /\ ClaimInv /\ PathInv /\ GroupInv /\ ProbeInv /\ DepsInv /\ [Next]_vars
      => DepsInv'
  BY DepsStep
<1>3. DepsInv => DepsHoldWhileRunning
  BY DEF DepsInv, DepsHold, DepsHoldWhileRunning
<1> QED
  BY <1>1, <1>2, <1>3, TypeCorrect, ClaimsCorrect, CallsOnPath, PTL DEF Spec

-----------------------------------------------------------------------------
(* FinishedRecordsSettle *)

\* What a call may write: no call makes a task ineligible or puts it back unstarted, and
\* none calls a task its batch flagged a clean success.
Written == TaskStatus \ { "SKIPPED", "READY_TO_PROCESS" }
Clean == { "COMPLETED", "COMPLETED_PREVIOUSLY" }
Writes(b, t) ==
    \/ NoStatus
    \/ \E s \in Written : SetStatus(b, t, s) /\ (s \in Clean => t \notin errored[b])
    \/ \E s \in Written : Mirror(b, t, s) /\ UNCHANGED <<store, errored, defect>>

\* A call sets a status, mirrors one, or writes nothing.
LEMMA CallWrites ==
    ASSUME TypeOK, NEW f \in TaskCalls, CallStep(f)
    PROVE  Writes(f[1], f[3])
<1> f \in Calls /\ f[1] \in Batches /\ f[3] \in Tasks
  BY TaskCallsAreCalls DEF TaskCalls
<1> USE DEF OwnerFrame, ResolverFrame
<1>1. { "WAITING_FOR_RELEASE", "ABORTED", "BLOCKED", "FORCE_SUCCESS", "CHECKING_COMPLETION",
        "ERROR", "CHECKING_DEPENDENCIES", "CHECKING_RUNNABILITY", "RUNNING", "READY_TO_RUN",
        "RUN_FINISHED", "FAILED", "ACTION_REQUIRED" } \cup PASSING_STATUSES \subseteq Written
  BY DEF Written, TaskStatus, PASSING_STATUSES
<1> USE DEF Clean
<1>2. CASE \/ AcquireClaim(f) \/ WaitForRelease(f) \/ ReleaseClaim(f) \/ TaskBlocked(f)
  BY <1>1, <1>2 DEF AcquireClaim, WaitForRelease, ReleaseClaim, TaskBlocked, Writes, NoStatus
<1>3. CASE ProcessTask(f)
  BY <1>1, <1>3 DEF ProcessTask, Writes
<1>4. CASE PreRunDecision(f) \/ CheckTaskSuccess(f) \/ CheckGate(f)
  BY <1>1, <1>4 DEF PreRunDecision, CheckTaskSuccess, CheckGate, Writes
<1>5. CASE CheckVerdict(f)
  <2>1. \A answer \in CheckOutcomes :
           /\ CheckedStatus(f[1], f[3], answer) \in Written
           /\ CheckedStatus(f[1], f[3], answer) \in Clean => f[3] \notin errored[f[1]]
    BY <1>1, OutcomesAssumption
    DEF CheckedStatus, PassedStatus, NotPassedStatus, PASSING_STATUSES
  <2> QED
    BY <1>5, <2>1 DEF CheckVerdict, Writes
<1>6. CASE CheckDependencies(f) \/ ResolveDependencies(f) \/ AwaitDependencies(f)
  BY <1>1, <1>6 DEF CheckDependencies, ResolveDependencies, AwaitDependencies, Writes
<1>7. CASE CheckTaskRunnability(f)
  <2>1. \A answer \in CanRunOutcomes : RunnableStatus[answer] \in Written \ Clean
    BY <1>1, OutcomesAssumption DEF RunnableStatus
  <2> QED
    BY <1>7, <2>1 DEF CheckTaskRunnability, Writes
<1>8. CASE FailedDeps(f) \/ StartRun(f) \/ RunTask(f) \/ AfterRun(f)
  BY <1>1, <1>8 DEF FailedDeps, StartRun, RunTask, AfterRun, Writes
<1> QED
  BY <1>2, <1>3, <1>4, <1>5, <1>6, <1>7, <1>8 DEF CallStep

\* What follows of the statuses and the records.
LEMMA WritesEffect ==
    ASSUME TypeOK, NEW b \in Batches, NEW t \in Tasks, Writes(b, t)
    PROVE  /\ \A u \in Tasks : store'[u] = "SKIPPED" => store[u] = "SKIPPED"
           /\ \A a \in Batches, u \in Tasks :
                record'[a][u] = "READY_TO_PROCESS" => record[a][u] = "READY_TO_PROCESS"
<1>1. CASE NoStatus
  BY <1>1 DEF NoStatus
<1>2. ASSUME NEW s \in Written, SetStatus(b, t, s)
      PROVE  /\ \A u \in Tasks : store'[u] = "SKIPPED" => store[u] = "SKIPPED"
             /\ \A a \in Batches, u \in Tasks :
                  record'[a][u] = "READY_TO_PROCESS" => record[a][u] = "READY_TO_PROCESS"
  BY <1>2, StatusEffect DEF Written
<1>3. ASSUME NEW s \in Written, Mirror(b, t, s), UNCHANGED store
      PROVE  /\ \A u \in Tasks : store'[u] = "SKIPPED" => store[u] = "SKIPPED"
             /\ \A a \in Batches, u \in Tasks :
                  record'[a][u] = "READY_TO_PROCESS" => record[a][u] = "READY_TO_PROCESS"
  BY <1>3, MirrorEffect DEF Written
<1> QED
  BY <1>1, <1>2, <1>3 DEF Writes

\* The tasks of a batch are not ineligible, and once it completes none is unstarted.
SkipInv == \A b \in Batches : \A t \in job[b].tasks : store[t] # "SKIPPED"

\* Without reraise_errors no call raises, and a status in progress is that of a call at
\* work: the owner of the task.
Midway == { "gate", "verify", "resolve", "await", "depsReady", "runnability", "ready", "run" }
Settled(t) == store[t] \in CHECKABLE_STATUSES \cup { "SKIPPED" }
StoreInv ==
    ~ReraiseErrors =>
        /\ \A b \in Batches : failed[b] = {}
        /\ \A f \in TaskCalls : pc[f] # "releaseRaise"
        /\ \A f \in TaskCalls : pc[f] = "ready" => Settled(f[3]) \/ store[f[3]] = "READY_TO_RUN"
        /\ \A t \in Tasks : Settled(t) \/ \E f \in TaskCalls : f[3] = t /\ pc[f] \in Midway

\* The statuses others write on a task are settled ones.
LEMMA OthersSettle ==
    ASSUME TypeOK, ClaimInv, NEW f \in TaskCalls, CallStep(f), NEW t \in Tasks,
           t # f[3] \/ (claims[t] # NoClaim /\ claims[t] # f)
    PROVE  store'[t] = store[t] \/ store'[t] = "BLOCKED"
<1> f \in Calls
  BY TaskCallsAreCalls
<1>1. StoreStep(f)
  BY CallFrame
<1>2. Owns(f) => claims[f[3]] = f
  BY DEF ClaimInv, OwnersHoldClaims
<1> QED
  BY <1>1, <1>2 DEF StoreStep

\* A step of a call settles what it leaves, or stays at work.
LEMMA OwnStore ==
    ASSUME TypeOK, ClaimInv, StoreInv, ~ReraiseErrors, NEW f \in TaskCalls, CallStep(f)
    PROVE  /\ UNCHANGED failed
           /\ pc'[f] # "releaseRaise"
           /\ pc'[f] = "ready" => Settled(f[3])' \/ store'[f[3]] = "READY_TO_RUN"
           /\ pc'[f] \in Midway \/ Settled(f[3])' \/ (pc[f] \notin Midway /\ UNCHANGED store)
<1> f \in Calls /\ f[1] \in Batches /\ f[3] \in Tasks /\ f[3] # Driver
  BY TaskCallsAreCalls, DriverAssumption DEF TaskCalls
<1> pc[f] # "releaseRaise" /\ failed[f[1]] = {}
  BY DEF StoreInv
<1> USE DEF TypeOK, BatchFrame, OwnerFrame, ResolverFrame, NoStatus, Goto
<1>1. CASE \/ AcquireClaim(f) \/ WaitForRelease(f) \/ ReleaseClaim(f)
  BY <1>1 DEF AcquireClaim, WaitForRelease, Take, Entry, ReleaseClaim, ReleaseTo, Midway
<1>2. CASE PreRunDecision(f) \/ AfterRun(f)
  BY <1>2 DEF PreRunDecision, AfterRun, Midway
<1>3. CASE ResolveDependencies(f) \/ AwaitDependencies(f)
  BY <1>3 DEF ResolveDependencies, AwaitDependencies, Resolve, Resolved, Midway
<1>4. ASSUME NEW s, SetStatus(f[1], f[3], s), s \in CHECKABLE_STATUSES
      PROVE  Settled(f[3])'
  BY <1>4, StatusEffect DEF Settled
<1>5. { "ABORTED", "BLOCKED", "ERROR", "FAILED", "ACTION_REQUIRED", "RUN_FINISHED" }
        \cup PASSING_STATUSES \subseteq CHECKABLE_STATUSES
  BY DEF CHECKABLE_STATUSES, RUNNABLE_STATUSES
<1>6. CASE TaskBlocked(f)
  BY <1>4, <1>5, <1>6 DEF TaskBlocked
<1>7. CASE ProcessTask(f)
  <2>1. "FORCE_SUCCESS" \in CHECKABLE_STATUSES
    BY <1>5 DEF PASSING_STATUSES
  <2> QED
    BY <1>4, <1>5, <1>7, <2>1 DEF ProcessTask, Midway
<1>8. CASE CheckTaskSuccess(f)
  <2>1. "FORCE_SUCCESS" \in CHECKABLE_STATUSES
    BY <1>5 DEF PASSING_STATUSES
  <2> QED
    BY <1>4, <1>5, <1>8, <2>1 DEF CheckTaskSuccess, CheckReturn, Midway
<1>9. CASE CheckGate(f)
  BY <1>4, <1>5, <1>9 DEF CheckGate, CheckReturn, Midway
<1>10. CASE CheckVerdict(f)
  <2>1. \A answer \in CheckOutcomes :
           CheckedStatus(f[1], f[3], answer) \in CHECKABLE_STATUSES
    BY <1>5, OutcomesAssumption
    DEF CheckedStatus, PassedStatus, NotPassedStatus, PASSING_STATUSES
  <2> QED
    BY <1>4, <1>10, <2>1 DEF CheckVerdict, CheckReturn
<1>11. CASE CheckDependencies(f) \/ FailedDeps(f)
  BY <1>4, <1>5, <1>11 DEF CheckDependencies, FailedDeps, Midway
<1>12. CASE CheckTaskRunnability(f)
  <2>1. \A answer \in CanRunOutcomes :
           RunnableStatus[answer] \in CHECKABLE_STATUSES \cup { "READY_TO_RUN" }
    BY <1>5, OutcomesAssumption DEF RunnableStatus
  <2>2. PICK answer \in CanRunOutcomes : SetStatus(f[1], f[3], RunnableStatus[answer])
    BY <1>12 DEF CheckTaskRunnability
  <2>3. Settled(f[3])' \/ store'[f[3]] = "READY_TO_RUN"
    BY <1>4, <2>1, <2>2, StatusEffect
  <2> QED
    BY <1>12, <2>3 DEF CheckTaskRunnability, Midway
<1>13. CASE StartRun(f)
  <2>1. Settled(f[3]) \/ store[f[3]] = "READY_TO_RUN"
    BY <1>13 DEF StartRun, StoreInv
  <2> QED
    BY <1>13, <2>1 DEF StartRun, Midway, Settled
<1>14. CASE RunTask(f)
  BY <1>4, <1>5, <1>14 DEF RunTask
<1> QED
  BY <1>1, <1>2, <1>3, <1>6, <1>7, <1>8, <1>9, <1>10, <1>11, <1>12, <1>13, <1>14 DEF CallStep

\* Every step keeps the statuses in progress those of calls at work.
LEMMA StoreInvStep ==
    ASSUME TypeOK, ClaimInv, StoreInv, [Next]_vars
    PROVE  StoreInv'
<1> SUFFICES ASSUME ~ReraiseErrors PROVE StoreInv'
  BY DEF StoreInv
<1> USE DEF Settled
<1>1. ASSUME UNCHANGED <<store, failed>>,
             \A f \in TaskCalls : pc'[f] = pc[f] \/ (pc[f] = "idle" /\ pc'[f] = "claim")
      PROVE  StoreInv'
  BY <1>1 DEF StoreInv, Midway
<1>2. ASSUME NEW f \in TaskCalls, CallStep(f)
      PROVE  StoreInv'
  <2> f \in Calls /\ f[3] \in Tasks
    BY TaskCallsAreCalls DEF TaskCalls
  <2>1. \A g \in TaskCalls : g # f =>
           pc'[g] = pc[g] \/ (pc[g] = "idle" /\ pc'[g] = "claim")
    BY <1>2, CallFrame, TaskCallsAreCalls DEF OthersStay, Wakes
  <2>2. \A g \in TaskCalls : pc'[g] # "releaseRaise"
    BY <1>2, <2>1, OwnStore DEF StoreInv
  <2>3. "BLOCKED" \in CHECKABLE_STATUSES
    BY DEF CHECKABLE_STATUSES, RUNNABLE_STATUSES
  <2>4. ASSUME NEW g \in TaskCalls, pc'[g] = "ready"
        PROVE  Settled(g[3])' \/ store'[g[3]] = "READY_TO_RUN"
    <3>1. CASE g = f
      BY <1>2, <2>4, <3>1, OwnStore
    <3>2. CASE g # f
      <4>1. pc[g] = "ready"
        BY <2>1, <2>4, <3>2
      <4>2. g \in Calls /\ g[3] \in Tasks /\ claims[g[3]] = g
        BY <4>1, TaskCallsAreCalls
        DEF ClaimInv, OwnersHoldClaims, Owns, OwnerPCs, IsTaskCall, TaskCalls
      <4>3. store'[g[3]] = store[g[3]] \/ store'[g[3]] = "BLOCKED"
        BY <1>2, <3>2, <4>2, NoClaimAssumption, OthersSettle
      <4> QED
        BY <2>3, <4>1, <4>3 DEF StoreInv
    <3> QED
      BY <3>1, <3>2
  <2>5. ASSUME NEW t \in Tasks
        PROVE  Settled(t)' \/ \E g \in TaskCalls : g[3] = t /\ pc'[g] \in Midway
    <3>1. Settled(t) \/ \E g \in TaskCalls : g[3] = t /\ pc[g] \in Midway
      BY DEF StoreInv
    <3>2. CASE f[3] = t
      <4>1. CASE pc'[f] \in Midway \/ Settled(t)'
        BY <3>2, <4>1
      <4>2. CASE pc[f] \notin Midway /\ UNCHANGED store
        <5>1. \A g \in TaskCalls : pc[g] \in Midway => pc'[g] \in Midway
          BY <2>1, <4>2 DEF Midway
        <5> QED
          BY <3>1, <4>2, <5>1
      <4> QED
        BY <1>2, <3>2, <4>1, <4>2, OwnStore
    <3>3. CASE f[3] # t
      <4>1. store'[t] = store[t]
        BY <1>2, <3>3, CallFrame DEF StoreStep
      <4>2. \A g \in TaskCalls : g[3] = t /\ pc[g] \in Midway => pc'[g] \in Midway
        BY <2>1, <3>3 DEF Midway
      <4> QED
        BY <3>1, <4>1, <4>2
    <3> QED
      BY <3>2, <3>3
  <2>6. UNCHANGED failed
    BY <1>2, OwnStore
  <2> QED
    BY <2>2, <2>4, <2>5, <2>6 DEF StoreInv
<1>3. ASSUME NEW b \in Batches, WorkerStep(b)
      PROVE  StoreInv'
  <2>1. /\ UNCHANGED failed
        /\ UNCHANGED store \/ SweepStep(b)
        /\ \A f \in TaskCalls : pc'[f] = pc[f] \/ (pc[f] = "idle" /\ pc'[f] = "claim")
    BY <1>3, WorkerFrame DEF CallsStay
  <2>2. CASE SweepStep(b)
    <3>1. \A t \in Tasks : store'[t] = store[t] \/ store'[t] = "ABORTED"
      BY <2>2, StatusEffect DEF SweepStep, Unstarted, JobType, TypeOK
    <3>2. "ABORTED" \in CHECKABLE_STATUSES
      BY DEF CHECKABLE_STATUSES, RUNNABLE_STATUSES
    <3>3. \A f \in TaskCalls : f[3] \in Tasks
      BY DEF TaskCalls
    <3>4. \A t \in Tasks : Settled(t) => Settled(t)'
      BY <3>1, <3>2
    <3>5. \A f \in TaskCalls : store[f[3]] = "READY_TO_RUN"
                => Settled(f[3])' \/ store'[f[3]] = "READY_TO_RUN"
      BY <3>1, <3>2, <3>3
    <3>6. UNCHANGED failed
      BY <1>3, WorkerFrame
    <3> QED
      BY <2>1, <3>3, <3>4, <3>5, <3>6 DEF StoreInv, Midway
  <2> QED
    BY <1>1, <1>3, <2>1, <2>2, WorkerFrame
<1>4. CASE UserStep
  BY <1>1, <1>4, UserFrame DEF UserStep
<1>5. CASE UNCHANGED vars
  BY <1>1, <1>5 DEF vars
<1> QED
  BY <1>2, <1>3, <1>4, <1>5 DEF Next, AllFinished

\* A submission that forces success would let a task alone that an error left in
\* progress: it is ruled out where errors are raised again.
RaisesOrForces == ~ReraiseErrors \/ \A j \in Jobs : ~j.force_success
ForceInv == ~ReraiseErrors \/ \A b \in Batches : ~job[b].force_success

\* Every step keeps the tasks of a batch eligible and the option off.
LEMMA SkipStep ==
    ASSUME TypeOK, ClaimInv, SkipInv, ForceInv, RaisesOrForces, [Next]_vars
    PROVE  SkipInv' /\ ForceInv'
<1>1. ASSUME UNCHANGED job, \A t \in Tasks : store'[t] = "SKIPPED" => store[t] = "SKIPPED"
      PROVE  SkipInv' /\ ForceInv'
  <2>1. \A b \in Batches : job[b].tasks \subseteq Tasks
    BY DEF TypeOK, JobType
  <2> QED
    BY <1>1, <2>1 DEF SkipInv, ForceInv
<1>2. ASSUME NEW f \in TaskCalls, CallStep(f)
      PROVE  SkipInv' /\ ForceInv'
  <2> f[1] \in Batches /\ f[3] \in Tasks
    BY DEF TaskCalls
  <2> QED
    BY <1>1, <1>2, CallFrame, CallWrites, WritesEffect
<1>3. ASSUME NEW b \in Batches, WorkerStep(b)
      PROVE  SkipInv' /\ ForceInv'
  <2>1. UNCHANGED job /\ (UNCHANGED store \/ SweepStep(b))
    BY <1>3, WorkerFrame
  <2>2. \A t \in Tasks : store'[t] = "SKIPPED" => store[t] = "SKIPPED"
    BY <2>1, StatusEffect DEF SweepStep, Unstarted, JobType, TypeOK
  <2> QED
    BY <1>1, <2>1, <2>2
<1>4. ASSUME NEW b \in Batches, NEW j \in Jobs, Submit(b, j)
      PROVE  SkipInv' /\ ForceInv'
  <2> DEFINE eligible == { t \in j.tasks : store[t] # "SKIPPED" }
  <2>1. UNCHANGED store /\ job' = [job EXCEPT ![b] = [j EXCEPT !.tasks = eligible]]
    BY <1>4 DEF Submit
  <2>2. j \in JobType
    BY JobsAssumption
  <2>3. /\ job'[b].tasks = eligible /\ job'[b].force_success = j.force_success
        /\ \A a \in Batches : a # b => job'[a] = job[a]
    BY <2>1, <2>2 DEF TypeOK, JobType
  <2> QED
    BY <2>1, <2>3 DEF SkipInv, ForceInv, RaisesOrForces
<1>5. CASE UserStep
  BY <1>1, <1>4, <1>5 DEF UserStep, RequestStop
<1>6. CASE UNCHANGED vars
  BY <1>1, <1>6 DEF vars
<1> QED
  BY <1>2, <1>3, <1>5, <1>6 DEF Next, AllFinished

\* Where a call still owes its record an outcome, or has yet to write its first status.
Owing == CallPCs \ { "idle", "decide", "ready", "ran", "release", "releaseRaise" }
Owed(b, t) == \E c \in Callers : pc[<<b, c, t>>] \in Owing
\* A task that no group has started.
Untaken(b, t) ==
    \/ t \in todo[b]
    \/ t \in group[b] /\ pc[Worker(b)] \in { "resolve", "await", "spawn" }
\* A task on its way to run or back from it, whose record is of the step before.
Running(b, t) == pc[Main(b, t)] \in { "ready", "ran" } /\ store[t] # "ERROR"

\* The record of a task of a batch that no error cut short is settled, unless a call
\* still has to settle it or nobody started the task.
RecordOf(b, t) ==
    failed[b] = {} /\ t \in job[b].tasks =>
        \/ Owed(b, t)
        \/ record[b][t] \in SettledOutcomes
        \/ record[b][t] = "READY_TO_PROCESS" /\ Untaken(b, t)
        \/ Running(b, t)
RecordInv == \A b \in Batches, t \in Tasks : RecordOf(b, t)

\* A batch is swept when it took every task or was stopped on a run, and no record is
\* left unstarted when it completes.
SweepOf(b) ==
    failed[b] = {} =>
        /\ pc[Worker(b)] = "sweep" => todo[b] = {} \/ (stop[b] /\ job[b].action = "run")
        /\ pc[Worker(b)] \in { "complete", "finished" } =>
             \A t \in job[b].tasks : record[b][t] # "READY_TO_PROCESS"
SweepInv == \A b \in Batches : SweepOf(b)

\* An owner that forces success finds a status it may replace.
LEMMA ForcedIsCheckable ==
    ASSUME TypeOK, ClaimInv, SkipInv, ForceInv, StoreInv, NEW f \in TaskCalls,
           pc[f] \in { "process", "check" }, f[3] \in job[f[1]].tasks, job[f[1]].force_success
    PROVE  store[f[3]] \in CHECKABLE_STATUSES
<1> f \in Calls /\ f[1] \in Batches /\ f[3] \in Tasks
  BY TaskCallsAreCalls DEF TaskCalls
<1>1. ~ReraiseErrors /\ store[f[3]] # "SKIPPED"
  BY DEF ForceInv, SkipInv
<1>2. ASSUME NEW g \in TaskCalls, g[3] = f[3], pc[g] \in Midway
      PROVE  FALSE
  <2>1. Owns(g) /\ Owns(f) /\ g \in Calls
    BY <1>2, TaskCallsAreCalls DEF Owns, IsTaskCall, OwnerPCs, Midway
  <2>2. f = g
    BY <1>2, <2>1 DEF ClaimInv, OwnersHoldClaims
  <2> QED
    BY <1>2, <2>2 DEF Midway
<1> QED
  BY <1>1, <1>2 DEF StoreInv, Settled

\* A step of a call leaves a settled record, work to do, or the record as it was.
LEMMA OwnRecord ==
    ASSUME TypeOK, ClaimInv, PathInv, SkipInv, ForceInv, StoreInv, NEW f \in TaskCalls,
           CallStep(f), f[3] \in job[f[1]].tasks, failed'[f[1]] = {}
    PROVE  \/ pc'[f] \in Owing
           \/ record'[f[1]][f[3]] \in SettledOutcomes
           \/ /\ f = Main(f[1], f[3]) /\ pc'[f] \in { "ready", "ran" }
              /\ store'[f[3]] # "ERROR"
           \/ /\ pc[f] \notin Owing /\ UNCHANGED record
              /\ pc[f] \in { "ready", "ran" } => store[f[3]] = "ERROR"
<1> DEFINE b == f[1]
           t == f[3]
<1> f \in Calls /\ b \in Batches /\ t \in Tasks /\ t # Driver
  BY TaskCallsAreCalls, DriverAssumption DEF TaskCalls
<1> USE DEF BatchFrame, OwnerFrame, ResolverFrame, NoStatus, Goto
<1>1. ASSUME NEW s \in SettledOutcomes, SetStatus(b, t, s) \/ Mirror(b, t, s)
      PROVE  record'[b][t] \in SettledOutcomes
  BY <1>1, StatusEffect, MirrorEffect
<1>2. { "ABORTED", "BLOCKED", "ERROR", "FAILED", "ACTION_REQUIRED", "FORCE_SUCCESS" }
        \cup PASSING_STATUSES \subseteq SettledOutcomes
  BY DEF SettledOutcomes, PASSING_STATUSES
<1>3. \A to : pc' = [pc EXCEPT ![f] = to] => pc'[f] = to
  BY DEF TypeOK
<1>4. { "claim", "wait", "guard", "process", "check", "gate", "verify", "deps", "resolve",
        "await", "depsReady", "runnability", "run", "releaseBlock" } \subseteq Owing
  BY DEF Owing, CallPCs, OwnerPCs
<1>5. { "idle", "decide", "ready", "ran", "release", "releaseRaise" } \cap Owing = {}
  BY DEF Owing
<1>6. CASE AcquireClaim(f)
  BY <1>3, <1>4, <1>6 DEF AcquireClaim, Take, Entry
<1>7. CASE WaitForRelease(f)
  BY <1>1, <1>2, <1>3, <1>4, <1>7 DEF WaitForRelease, Take, Entry
<1>8. CASE ReleaseClaim(f)
  <2>1. pc[f] # "releaseRaise"
    <3> SUFFICES ASSUME pc[f] = "releaseRaise" PROVE FALSE
      OBVIOUS
    <3>1. failed'[b] # {}
      BY <1>8 DEF ReleaseClaim, TypeOK
    <3> QED
      BY <3>1
  <2> QED
    BY <1>3, <1>4, <1>5, <1>8, <2>1 DEF ReleaseClaim, ReleaseTo
<1>9. CASE TaskBlocked(f)
  BY <1>1, <1>2, <1>9 DEF TaskBlocked
<1>10. CASE ProcessTask(f)
  <2>1. store[t] # "SKIPPED"
    BY DEF SkipInv
  <2>2. pc[f] = "process" /\ ForcesSuccess(b) => store[t] \in CHECKABLE_STATUSES
    BY ForcedIsCheckable DEF ForcesSuccess
  <2> QED
    BY <1>1, <1>2, <1>3, <1>4, <1>10, <2>1, <2>2 DEF ProcessTask
<1>11. CASE PreRunDecision(f)
  BY <1>5, <1>11 DEF PreRunDecision
<1>12. CASE CheckTaskSuccess(f)
  <2>1. store[t] # "SKIPPED"
    BY DEF SkipInv
  <2>2. pc[f] = "check" /\ job[b].force_success => store[t] \in CHECKABLE_STATUSES
    BY ForcedIsCheckable
  <2> QED
    BY <1>1, <1>2, <1>3, <1>4, <1>12, <2>1, <2>2 DEF CheckTaskSuccess
<1>13. CASE CheckGate(f)
  BY <1>1, <1>2, <1>3, <1>4, <1>13 DEF CheckGate
<1>14. CASE CheckVerdict(f)
  <2>1. \A answer \in CheckOutcomes : CheckedStatus(b, t, answer) \in SettledOutcomes
    BY <1>2, OutcomesAssumption
    DEF CheckedStatus, PassedStatus, NotPassedStatus, PASSING_STATUSES
  <2> QED
    BY <1>1, <1>14, <2>1 DEF CheckVerdict
<1>15. CASE CheckDependencies(f) \/ FailedDeps(f)
  BY <1>1, <1>2, <1>3, <1>4, <1>15 DEF CheckDependencies, FailedDeps
<1>16. CASE ResolveDependencies(f) \/ AwaitDependencies(f)
  <2>1. AwaitDependencies(f) => f[3] \notin failed[b]
    BY DEF AwaitDependencies
  <2>2. pc'[f] \in { "await", "depsReady" }
    BY <1>3, <1>16, <2>1
    DEF ResolveDependencies, AwaitDependencies, Resolve, Resolved
  <2> QED
    BY <1>4, <2>2
<1>17. CASE CheckTaskRunnability(f)
  <2>1. f = Main(b, t)
    BY <1>17, CallTriple DEF CheckTaskRunnability, PathInv, PathOf, Deciding, IsProcess, Main
  <2>2. PICK answer \in CanRunOutcomes :
           /\ SetStatus(b, t, RunnableStatus[answer])
           /\ Goto(f, IF answer = "error" /\ ReraiseErrors THEN "releaseRaise" ELSE "ready")
    BY <1>17 DEF CheckTaskRunnability
  <2>3. CASE answer = "error"
    BY <1>1, <1>2, <2>2, <2>3 DEF RunnableStatus
  <2>4. CASE answer # "error"
    <3>1. pc'[f] = "ready" /\ store'[t] # "ERROR"
      <4>1. answer \in { "yes", "block" }
        BY <2>4, OutcomesAssumption
      <4>2. RunnableStatus[answer] # "ERROR"
        BY <4>1 DEF RunnableStatus
      <4>3. store'[t] = RunnableStatus[answer]
        BY <2>2, StatusEffect
      <4>4. pc'[f] = "ready"
        BY <1>3, <2>2, <2>4
      <4> QED
        BY <4>2, <4>3, <4>4
    <3> QED
      BY <2>1, <3>1
  <2> QED
    BY <2>3, <2>4
<1>18. CASE StartRun(f)
  BY <1>3, <1>4, <1>5, <1>18 DEF StartRun
<1>19. CASE RunTask(f)
  <2>1. f = Main(b, t)
    BY <1>19, CallTriple DEF RunTask, PathInv, PathOf, Deciding, IsProcess, Main
  <2>2. PICK answer \in RunOutcomes :
           /\ SetStatus(b, t, IF answer = "error" THEN "ERROR" ELSE "RUN_FINISHED")
           /\ Goto(f, IF answer = "error" /\ ReraiseErrors THEN "releaseRaise" ELSE "ran")
    BY <1>19 DEF RunTask
  <2>3. CASE answer = "error"
    BY <1>1, <1>2, <2>2, <2>3
  <2>4. CASE answer # "error"
    <3>1. SetStatus(b, t, "RUN_FINISHED") /\ pc'[f] = "ran"
      BY <1>3, <2>2, <2>4
    <3>2. store'[t] = "RUN_FINISHED"
      BY <3>1, StatusEffect
    <3> QED
      BY <2>1, <3>1, <3>2
  <2> QED
    BY <2>3, <2>4
<1>20. CASE AfterRun(f)
  BY <1>3, <1>4, <1>5, <1>20 DEF AfterRun
<1> QED
  BY <1>6, <1>7, <1>8, <1>9, <1>10, <1>11, <1>12, <1>13, <1>14, <1>15, <1>16, <1>17, <1>18,
     <1>19, <1>20 DEF CallStep

\* An error that cut a batch short is not forgotten.
LEMMA ErrorsStay ==
    ASSUME TypeOK, NEW f \in TaskCalls, CallStep(f), NEW b \in Batches
    PROVE  failed'[b] = {} => failed[b] = {}
<1> f \in Calls /\ f[1] \in Batches
  BY TaskCallsAreCalls DEF TaskCalls
<1>1. CASE ReleaseClaim(f)
  BY <1>1 DEF ReleaseClaim, TypeOK
<1>2. CASE ~ ReleaseClaim(f)
  <2>1. UNCHANGED failed
    BY <1>2, Zenon
       DEF CallStep, AcquireClaim, WaitForRelease, TaskBlocked, ProcessTask, PreRunDecision,
           CheckTaskSuccess, CheckGate, CheckVerdict, CheckDependencies, ResolveDependencies,
           AwaitDependencies, FailedDeps, CheckTaskRunnability, StartRun, RunTask, AfterRun,
           OwnerFrame, ResolverFrame
  <2> QED
    BY <2>1
<1> QED
  BY <1>1, <1>2

\* A sweep aborts one task, and nothing else.
LEMMA SweepEffect ==
    ASSUME TypeOK, NEW b \in Batches, SweepStep(b)
    PROVE  /\ \A t \in Tasks : store'[t] = store[t] \/ store'[t] = "ABORTED"
           /\ \A a \in Batches, t \in Tasks :
                record'[a][t] = record[a][t] \/ record'[a][t] = "ABORTED"
<1> PICK t \in Unstarted(b) : SetStatus(b, t, "ABORTED")
  BY DEF SweepStep
<1> t \in Tasks
  BY DEF Unstarted, JobType, TypeOK
<1> QED
  BY StatusEffect

\* Every step keeps what a record shows.
LEMMA RecordInvStep ==
    ASSUME TypeOK, ClaimInv, PathInv, GroupInv, SkipInv, ForceInv, StoreInv, RecordInv,
           [Next]_vars
    PROVE  RecordInv'
<1> SUFFICES ASSUME NEW b \in Batches, NEW t \in Tasks PROVE RecordOf(b, t)'
  BY DEF RecordInv
<1> RecordOf(b, t)
  BY DEF RecordInv
<1> DEFINE m == Main(b, t)
<1> m \in TaskCalls /\ m \in Calls
  BY MainShapes
<1>1. \A c \in Callers : <<b, c, t>> \in TaskCalls /\ <<b, c, t>> \in Calls
  BY CallShapes
<1>2. ASSUME \A c \in Callers : \/ pc'[<<b, c, t>>] = pc[<<b, c, t>>]
                                \/ pc'[<<b, c, t>>] = "claim"
      PROVE  Owed(b, t) => Owed(b, t)'
  BY <1>2 DEF Owed, Owing, CallPCs
<1>3. ASSUME NEW f \in TaskCalls, CallStep(f)
      PROVE  RecordOf(b, t)'
  <2> f \in Calls /\ f[1] \in Batches /\ f[2] \in Callers /\ f[3] \in Tasks
    BY TaskCallsAreCalls DEF TaskCalls
  <2>1. /\ UNCHANGED <<job, stop, todo, group>> /\ StoreStep(f) /\ OthersStay(f)
        /\ RecordStep(f) /\ pc'[Worker(b)] = pc[Worker(b)]
    BY <1>3, CallFrame
  <2>2. Untaken(b, t)' = Untaken(b, t)
    BY <2>1 DEF Untaken, Worker
  <2>3. failed'[b] = {} => failed[b] = {}
    BY <1>3, ErrorsStay
  <2>4. \A g \in TaskCalls : g # f => pc'[g] = pc[g] \/ (pc[g] = "idle" /\ pc'[g] = "claim")
    BY <2>1, TaskCallsAreCalls DEF OthersStay, Wakes
  <2>5. f # m /\ Running(b, t) => Running(b, t)'
    <3> SUFFICES ASSUME f # m, Running(b, t) PROVE Running(b, t)'
      OBVIOUS
    <3>1. pc'[m] = pc[m] /\ pc[m] \in { "ready", "ran" }
      BY <2>4 DEF Running
    <3>2. m[3] = t /\ claims[t] = m
      BY <3>1 DEF Main, ClaimInv, OwnersHoldClaims, Owns, IsTaskCall, OwnerPCs
    <3>3. store'[t] = store[t] \/ store'[t] = "BLOCKED"
      BY <1>3, <3>2, NoClaimAssumption, OthersSettle
    <3> QED
      BY <3>1, <3>3 DEF Running, Main
  <2>6. CASE f[1] = b /\ f[3] = t
    <3> SUFFICES ASSUME failed'[b] = {}, t \in job[b].tasks
                 PROVE  \/ Owed(b, t)'
                        \/ record'[b][t] \in SettledOutcomes
                        \/ record'[b][t] = "READY_TO_PROCESS" /\ Untaken(b, t)'
                        \/ Running(b, t)'
      BY <2>1 DEF RecordOf
    <3>1. f = <<b, f[2], t>>
      BY <2>6, CallTriple
    <3>2. CASE pc'[f] \in Owing
      BY <3>1, <3>2 DEF Owed
    <3>3. CASE f = Main(b, t) /\ pc'[f] \in { "ready", "ran" } /\ store'[t] # "ERROR"
      BY <3>3 DEF Running, Main
    <3>4. CASE /\ pc[f] \notin Owing /\ UNCHANGED record
               /\ pc[f] \in { "ready", "ran" } => store[t] = "ERROR"
      <4>1. Owed(b, t) => Owed(b, t)'
        <5> SUFFICES ASSUME NEW c \in Callers, pc[<<b, c, t>>] \in Owing
                     PROVE  pc'[<<b, c, t>>] \in Owing
          BY DEF Owed
        <5>1. <<b, c, t>> # f
          BY <3>4
        <5> QED
          BY <1>1, <2>4, <5>1 DEF Owing
      <4>2. Running(b, t) => Running(b, t)'
        BY <2>5, <3>4 DEF Running
      <4> QED
        BY <2>2, <2>3, <3>4, <4>1, <4>2 DEF RecordOf
    <3> QED
      BY <1>3, <2>6, <3>2, <3>3, <3>4, OwnRecord
  <2>7. CASE ~(f[1] = b /\ f[3] = t)
    <3>1. \A c \in Callers : <<b, c, t>> # f
      BY <2>7
    <3>2. record'[b][t] = record[b][t] /\ f # m
      BY <2>1, <2>7 DEF RecordStep, Main
    <3>3. Owed(b, t) => Owed(b, t)'
      BY <1>1, <1>2, <2>4, <3>1
    <3> QED
      BY <2>1, <2>2, <2>3, <2>5, <3>2, <3>3 DEF RecordOf
  <2> QED
    BY <2>6, <2>7
<1>4. ASSUME NEW a \in Batches, WorkerStep(a)
      PROVE  RecordOf(b, t)'
  <2>1. /\ UNCHANGED <<job, failed>> /\ CallsStay(a)
        /\ UNCHANGED <<store, record>> \/ SweepStep(a)
        /\ a # b => /\ pc'[Worker(b)] = pc[Worker(b)]
                    /\ todo'[b] = todo[b] /\ group'[b] = group[b]
    BY <1>4, WorkerFrame
  <2>2. Owed(b, t) => Owed(b, t)'
    BY <1>1, <1>2, <2>1 DEF CallsStay
  <2>3. record'[b][t] = record[b][t] \/ record'[b][t] = "ABORTED"
    BY <2>1, SweepEffect
  <2>4. Running(b, t) => Running(b, t)'
    <3>1. store'[t] = store[t] \/ store'[t] = "ABORTED"
      BY <2>1, SweepEffect
    <3> QED
      BY <2>1, <3>1 DEF Running, CallsStay, Main
  <2>5. failed[b] = {} /\ t \in job[b].tasks /\ Untaken(b, t) => Untaken(b, t)' \/ Owed(b, t)'
    <3>1. CASE a # b
      BY <2>1, <3>1 DEF Untaken, Worker
    <3>2. CASE a = b /\ NextGroup(b)
      BY <3>2, WorkerIsCall DEF NextGroup, Goto, Untaken, TypeOK, Worker
    <3>3. CASE a = b /\ StartGroup(b)
      <4>1. t \in group[b] => pc'[m] = "claim"
        BY <3>3, WorkerIsNoTaskCall DEF StartGroup
      <4>2. UNCHANGED todo
        BY <3>3 DEF StartGroup, BatchFrame
      <4>3. m = <<b, t, t>> /\ t \in Callers /\ "claim" \in Owing
        BY DEF Main, Callers, Owing, CallPCs
      <4> QED
        BY <4>1, <4>2, <4>3 DEF Untaken, Owed
    <3>4. CASE a = b /\ (JoinGroup(b) \/ AbortUnstarted(b) \/ CompleteBatch(b))
      BY <3>4 DEF JoinGroup, AbortUnstarted, CompleteBatch, BatchFrame, Untaken
    <3>5. CASE a = b /\ ResolveDependencies(Worker(b))
      BY <3>5, WorkerIsCall
      DEF ResolveDependencies, Resolve, ResolverFrame, BatchFrame, Untaken, TypeOK, Worker
    <3>6. CASE a = b /\ AwaitDependencies(Worker(b)) /\ failed[b] = {}
      <4>1. pc'[Worker(b)] \in { "spawn", "await" } /\ UNCHANGED <<todo, group>>
        BY <3>6, WorkerIsCall
        DEF AwaitDependencies, Resolve, Resolved, ResolverFrame, BatchFrame, Goto, TypeOK, Worker
      <4> QED
        BY <3>6, <4>1 DEF Untaken, Worker, AwaitDependencies
    <3> QED
      BY <1>4, <3>1, <3>2, <3>3, <3>4, <3>5, <3>6 DEF WorkerStep
  <2>6. "ABORTED" \in SettledOutcomes
    BY DEF SettledOutcomes
  <2>7. CASE record'[b][t] = record[b][t]
    BY <2>1, <2>2, <2>4, <2>5, <2>7 DEF RecordOf
  <2>8. CASE record'[b][t] = "ABORTED"
    BY <2>1, <2>6, <2>8 DEF RecordOf
  <2> QED
    BY <2>3, <2>7, <2>8
<1>5. ASSUME NEW a \in Batches, RequestStop(a) \/ \E j \in Jobs : Submit(a, j)
      PROVE  RecordOf(b, t)'
  <2>1. /\ UNCHANGED <<store, group, failed>>
        /\ \A f \in TaskCalls : pc'[f] = pc[f]
        /\ a # b => /\ job'[b] = job[b] /\ record'[b] = record[b] /\ todo'[b] = todo[b]
                    /\ pc'[Worker(b)] = pc[Worker(b)]
    BY <1>5, UserFrame
  <2>2. (Owed(b, t) => Owed(b, t)') /\ (Running(b, t) => Running(b, t)')
    BY <1>1, <2>1 DEF Owed, Running, Main
  <2>3. CASE a # b
    BY <2>1, <2>2, <2>3 DEF RecordOf, Untaken, Worker
  <2>4. CASE RequestStop(a)
    BY <2>2, <2>4 DEF RequestStop, RecordOf, Untaken, Worker
  <2>5. ASSUME NEW j \in Jobs, a = b, Submit(b, j)
        PROVE  RecordOf(b, t)'
    <3> DEFINE eligible == { x \in j.tasks : store[x] # "SKIPPED" }
    <3>1. /\ todo'[b] = eligible /\ job'[b] = [j EXCEPT !.tasks = eligible]
          /\ record'[b] = [x \in Tasks |-> IF x \in eligible THEN "READY_TO_PROCESS"
                                           ELSE "INITIALIZED"]
      BY <2>5 DEF Submit, TypeOK
    <3>2. job'[b].tasks = eligible
      BY <3>1, JobsAssumption DEF JobType
    <3>3. t \in eligible => record'[b][t] = "READY_TO_PROCESS"
      BY <3>1
    <3> QED
      BY <3>1, <3>2, <3>3 DEF RecordOf, Untaken
  <2> QED
    BY <1>5, <2>3, <2>4, <2>5
<1>6. CASE UNCHANGED vars
  BY <1>6 DEF vars, RecordOf, Owed, Untaken, Running, Worker, Main
<1> QED
  BY <1>3, <1>4, <1>5, <1>6 DEF Next, UserStep, AllFinished

\* When a worker ends its sweep, no task of its batch is unstarted.
LEMMA SweptIsStarted ==
    ASSUME TypeOK, ClaimInv, RecordInv, NEW b \in Batches, SweepOf(b), failed[b] = {},
           AbortUnstarted(b), pc'[Worker(b)] = "complete", NEW t \in job[b].tasks
    PROVE  record[b][t] # "READY_TO_PROCESS"
<1> t \in Tasks
  BY DEF TypeOK, JobType
<1>1. pc[Worker(b)] = "sweep" /\ UNCHANGED <<store, record>>
  BY WorkerIsCall DEF AbortUnstarted, NoStatus
<1>2. CASE Unstarted(b) = {}
  BY <1>2 DEF Unstarted
<1>3. CASE todo[b] = {}
  <2>1. ~Owed(b, t) /\ ~Running(b, t)
    <3>1. \A f \in TaskCalls : f[1] = b => pc[f] = "idle"
      BY <1>1, BatchIsQuiet
    <3> QED
      BY <3>1, CallShapes, MainShapes DEF Owed, Owing, Running, Main
  <2>2. ~Untaken(b, t)
    BY <1>1, <1>3 DEF Untaken
  <2> QED
    BY <2>1, <2>2 DEF RecordInv, RecordOf, SettledOutcomes, PASSING_STATUSES
<1> QED
  BY <1>1, <1>2, <1>3 DEF AbortUnstarted, SweepOf

\* Every step keeps what a sweep leaves.
LEMMA SweepInvStep ==
    ASSUME TypeOK, ClaimInv, RecordInv, SweepInv, [Next]_vars
    PROVE  SweepInv'
<1> SUFFICES ASSUME NEW b \in Batches PROVE SweepOf(b)'
  BY DEF SweepInv
<1> SweepOf(b)
  BY DEF SweepInv
<1> DEFINE w == Worker(b)
<1>1. job[b].tasks \subseteq Tasks /\ w \in Calls
  BY WorkerIsCall DEF TypeOK, JobType
<1>2. ASSUME job'[b] = job[b], pc'[w] = pc[w], todo'[b] = todo[b], stop[b] => stop'[b],
             failed'[b] = {} => failed[b] = {},
             \A t \in Tasks :
                record'[b][t] = "READY_TO_PROCESS" => record[b][t] = "READY_TO_PROCESS"
      PROVE  SweepOf(b)'
  BY <1>1, <1>2 DEF SweepOf, Worker
<1>3. ASSUME NEW f \in TaskCalls, CallStep(f)
      PROVE  SweepOf(b)'
  <2> f[1] \in Batches /\ f[3] \in Tasks
    BY DEF TaskCalls
  <2>1. failed'[b] = {} => failed[b] = {}
    BY <1>3, ErrorsStay
  <2>2. UNCHANGED <<job, todo, stop>> /\ pc'[w] = pc[w]
    BY <1>3, CallFrame
  <2>3. \A t \in Tasks :
           record'[b][t] = "READY_TO_PROCESS" => record[b][t] = "READY_TO_PROCESS"
    BY <1>3, CallWrites, WritesEffect
  <2> QED
    BY <1>2, <2>1, <2>2, <2>3
<1>4. ASSUME NEW a \in Batches, WorkerStep(a)
      PROVE  SweepOf(b)'
  <2>1. /\ UNCHANGED <<job, stop, failed>> /\ (UNCHANGED <<store, record>> \/ SweepStep(a))
        /\ a # b => pc'[w] = pc[w] /\ todo'[b] = todo[b]
    BY <1>4, WorkerFrame
  <2>2. \A t \in Tasks :
           record'[b][t] = "READY_TO_PROCESS" => record[b][t] = "READY_TO_PROCESS"
    BY <2>1, SweepEffect
  <2>3. CASE a # b
    BY <1>2, <2>1, <2>2, <2>3
  <2>4. CASE a = b /\ NextGroup(b)
    <3>1. \/ /\ pc'[w] = "sweep" /\ todo'[b] = todo[b]
             /\ todo[b] = {} \/ (job[b].action = "run" /\ stop[b])
          \/ pc'[w] \in { "resolve", "spawn" }
      BY <1>1, <2>4 DEF NextGroup, Goto, TypeOK
    <3> QED
      BY <2>1, <3>1 DEF SweepOf, Worker
  <2>5. CASE a = b /\ (StartGroup(b) \/ ResolveDependencies(w))
    <3>1. pc'[w] \in { "join", "await" }
      BY <1>1, <2>5 DEF StartGroup, ResolveDependencies, Resolve
    <3> QED
      BY <3>1 DEF SweepOf, Worker
  <2>6. CASE a = b /\ (JoinGroup(b) \/ AwaitDependencies(w))
    <3>1. failed[b] = {} => pc'[w] \in { "next", "spawn", "await" }
      BY <1>1, <2>6
      DEF JoinGroup, AwaitDependencies, Goto, Resolve, Resolved, TypeOK, Worker
    <3> QED
      BY <2>1, <3>1 DEF SweepOf, Worker
  <2>7. CASE a = b /\ AbortUnstarted(b)
    <3>1. UNCHANGED <<todo>>
      BY <2>7 DEF AbortUnstarted, BatchFrame
    <3>2. CASE UNCHANGED pc
      BY <1>2, <2>1, <2>2, <3>1, <3>2
    <3>3. CASE ~UNCHANGED pc
      <4>1. pc'[w] = "complete" /\ UNCHANGED record
        BY <1>1, <2>7, <3>3 DEF AbortUnstarted, Goto, NoStatus, TypeOK
      <4>2. failed[b] = {} => \A t \in job[b].tasks : record[b][t] # "READY_TO_PROCESS"
        BY <2>7, <4>1, SweptIsStarted
      <4> QED
        BY <2>1, <4>1, <4>2 DEF SweepOf, Worker
    <3> QED
      BY <3>2, <3>3
  <2>8. CASE a = b /\ CompleteBatch(b)
    <3>1. pc[w] = "complete" /\ pc'[w] = "finished"
      BY <1>1, <2>8 DEF CompleteBatch, Goto, TypeOK
    <3> QED
      BY <1>1, <2>1, <2>2, <3>1 DEF SweepOf, Worker
  <2> QED
    BY <1>4, <2>3, <2>4, <2>5, <2>6, <2>7, <2>8 DEF WorkerStep
<1>5. ASSUME NEW a \in Batches, NEW j \in Jobs, Submit(a, j)
      PROVE  SweepOf(b)'
  <2>1. CASE a = b
    <3>1. pc'[w] = "next"
      BY <1>1, <1>5, <2>1 DEF Submit, Goto, TypeOK
    <3> QED
      BY <3>1 DEF SweepOf, Worker
  <2>2. CASE a # b
    BY <1>2, <1>5, <2>2, UserFrame
  <2> QED
    BY <2>1, <2>2
<1>6. ASSUME NEW a \in Batches, RequestStop(a)
      PROVE  SweepOf(b)'
  BY <1>2, <1>6 DEF RequestStop, TypeOK
<1>7. CASE UNCHANGED vars
  BY <1>2, <1>7 DEF vars
<1> QED
  BY <1>3, <1>4, <1>5, <1>6, <1>7 DEF Next, UserStep, AllFinished

\* The history of a batch that no error cut short settles, for every submission,
\* dependency graph, stop and answer of the hooks. Where errors are raised again it is
\* said of submissions that do not force success: a call that raised leaves its task in
\* progress, and a forced success passes over such a task.
THEOREM RecordsSettle ==
    ASSUME RaisesOrForces
    PROVE  Spec => []FinishedRecordsSettle
<1> DEFINE SettleInv == SkipInv /\ ForceInv /\ StoreInv /\ RecordInv /\ SweepInv
<1>1. Init => SettleInv
  <2> SUFFICES ASSUME Init PROVE SettleInv
    OBVIOUS
  <2>1. /\ \A f \in Calls : pc[f] = "idle"
        /\ \A b \in Batches : job[b] = NoJob /\ failed[b] = {}
        /\ store \in [Tasks -> CHECKABLE_STATUSES \cup { "SKIPPED" }]
    BY StoresAssumption DEF Init
  <2>2. NoJob.tasks = {} /\ NoJob.force_success = FALSE
    BY DEF NoJob
  <2>3. SkipInv /\ ForceInv
    BY <2>1, <2>2 DEF SkipInv, ForceInv
  <2>4. StoreInv
    BY <2>1, TaskCallsAreCalls DEF StoreInv, Settled
  <2>5. RecordInv
    BY <2>1, <2>2 DEF RecordInv, RecordOf
  <2>6. SweepInv
    BY <2>1, WorkerIsCall DEF SweepInv, SweepOf
  <2> QED
    BY <2>3, <2>4, <2>5, <2>6
<1>2. TypeOK /\ ClaimInv /\ PathInv /\ GroupInv /\ SettleInv /\ [Next]_vars => SettleInv'
  BY SkipStep, StoreInvStep, RecordInvStep, SweepInvStep
<1>3. TypeOK /\ ClaimInv /\ SettleInv => FinishedRecordsSettle
  <2> SUFFICES ASSUME TypeOK, ClaimInv, SettleInv, NEW b \in Batches,
                      NEW t \in job[b].tasks, pc[Worker(b)] = "finished", failed[b] = {}
               PROVE  record[b][t] \in SettledOutcomes
    BY DEF FinishedRecordsSettle
  <2> t \in Tasks
    BY DEF TypeOK, JobType
  <2>1. ~Owed(b, t) /\ ~Running(b, t)
    <3>1. \A f \in TaskCalls : f[1] = b => pc[f] = "idle"
      BY BatchIsQuiet
    <3> QED
      BY <3>1, CallShapes, MainShapes DEF Owed, Owing, Running, Main
  <2>2. record[b][t] # "READY_TO_PROCESS"
    BY DEF SweepInv, SweepOf
  <2> QED
    BY <2>1, <2>2 DEF RecordInv, RecordOf
<1> HIDE DEF SettleInv
<1> QED
  BY <1>1, <1>2, <1>3, TypeCorrect, ClaimsCorrect, CallsOnPath, PTL DEF Spec

-----------------------------------------------------------------------------
(* DefectStaysVisible *)

\* One batch is submitted and it is not a dry run: a batch flags the tasks that errored
\* before it by their status, which a later batch may have replaced by then, and a dry
\* run clears the flag of a task it did not run.
OneBatch == \A a, b \in Batches : a = b
NoDryRun == \A j \in Jobs : ~j.dry_run

\* Before the batch starts, the defects are those the statuses show; from then on they
\* are flagged in the batch.
DefectOf(b) ==
    /\ ~job[b].dry_run
    /\ pc[Worker(b)] = "idle" =>
         defect = { t \in Tasks : store[t] \in { "ERROR", "COMPLETED_WITH_ERROR" } }
    /\ pc[Worker(b)] # "idle" => defect \subseteq errored[b]
DefectInv == DefectStaysVisible /\ \A b \in Batches : DefectOf(b)

\* A status that is written keeps the defects visible and flagged.
LEMMA DefectWrite ==
    ASSUME TypeOK, NEW b \in Batches, NEW t \in Tasks, Writes(b, t), DefectStaysVisible,
           ~job[b].dry_run, defect \subseteq errored[b]
    PROVE  DefectStaysVisible' /\ defect' \subseteq errored'[b]
<1>1. CASE UNCHANGED <<store, errored, defect>>
  BY <1>1 DEF DefectStaysVisible
<1>2. ASSUME NEW s \in Written, SetStatus(b, t, s), s \in Clean => t \notin errored[b]
      PROVE  DefectStaysVisible' /\ defect' \subseteq errored'[b]
  <2>1. /\ store'[t] = s /\ \A u \in Tasks : u # t => store'[u] = store[u]
        /\ errored'[b] = IF s = "RUNNING" THEN errored[b] \ {t}
                         ELSE IF s = "ERROR" THEN errored[b] \cup {t} ELSE errored[b]
        /\ defect' = IF s = "ERROR" THEN defect \cup {t}
                     ELSE IF s = "RUNNING" THEN defect \ {t} ELSE defect
    BY <1>2, StatusEffect DEF SetStatus, TypeOK
  <2>2. defect' \subseteq errored'[b]
    BY <2>1
  <2>3. ASSUME NEW u \in defect'
        PROVE  store'[u] \notin Clean
    <3>1. u \in Tasks
      BY <2>1 DEF TypeOK
    <3>2. CASE u = t
      BY <1>2, <2>1, <3>2 DEF Clean
    <3>3. CASE u # t
      BY <2>1, <3>1, <3>3 DEF DefectStaysVisible, Clean
    <3> QED
      BY <3>2, <3>3
  <2> QED
    BY <2>2, <2>3 DEF DefectStaysVisible, Clean
<1> QED
  BY <1>1, <1>2 DEF Writes, NoStatus

\* Every step keeps the defects visible and flagged.
LEMMA DefectStep ==
    ASSUME TypeOK, ClaimInv, DefectInv, OneBatch, NoDryRun, [Next]_vars
    PROVE  DefectInv'
<1> DEFINE Flagged(b) ==
        DefectStaysVisible' /\ ~job'[b].dry_run /\ pc'[Worker(b)] # "idle"
        /\ defect' \subseteq errored'[b]
<1>1. ASSUME NEW b \in Batches, Flagged(b)
      PROVE  DefectInv'
  <2>1. \A a \in Batches : a = b
    BY DEF OneBatch
  <2>2. DefectOf(b)'
    BY <1>1 DEF DefectOf, Worker
  <2> QED
    BY <1>1, <2>1, <2>2 DEF DefectInv
<1>2. \A b \in Batches : DefectOf(b)
  BY DEF DefectInv
<1>3. DefectStaysVisible
  BY DEF DefectInv
<1>4. ASSUME NEW f \in TaskCalls, CallStep(f)
      PROVE  DefectInv'
  <2> DEFINE b == f[1]
  <2> b \in Batches /\ f[3] \in Tasks
    BY DEF TaskCalls
  <2>1. pc[f] # "idle" /\ UNCHANGED job /\ pc'[Worker(b)] = pc[Worker(b)]
    BY <1>4, CallFrame
  <2>2. pc[Worker(b)] # "idle"
    BY <2>1, BatchIsQuiet
  <2>3. ~job[b].dry_run /\ defect \subseteq errored[b]
    BY <1>2, <2>2 DEF DefectOf
  <2>4. DefectStaysVisible' /\ defect' \subseteq errored'[b]
    BY <1>3, <1>4, <2>3, CallWrites, DefectWrite
  <2> QED
    BY <1>1, <2>1, <2>2, <2>3, <2>4
<1>5. ASSUME NEW b \in Batches, WorkerStep(b)
      PROVE  DefectInv'
  <2>1. /\ pc[Worker(b)] # "idle" /\ UNCHANGED job
        /\ UNCHANGED <<store, record, errored, defect>> \/ SweepStep(b)
    BY <1>5, WorkerFrame
  <2>2. ~job[b].dry_run /\ defect \subseteq errored[b]
    BY <1>2, <2>1 DEF DefectOf
  <2>3. pc'[Worker(b)] # "idle"
    BY <1>5, WorkerIsCall
    DEF WorkerStep, NextGroup, StartGroup, JoinGroup, ResolveDependencies, AwaitDependencies,
        AbortUnstarted, CompleteBatch, Goto, Resolve, Resolved, TypeOK
  <2>4. CASE UNCHANGED <<store, errored, defect>>
    BY <1>1, <1>3, <2>1, <2>2, <2>3, <2>4 DEF DefectStaysVisible
  <2>5. CASE SweepStep(b)
    <3>1. PICK t \in Unstarted(b) : SetStatus(b, t, "ABORTED")
      BY <2>5 DEF SweepStep
    <3>2. t \in Tasks
      BY DEF Unstarted, JobType, TypeOK
    <3>3. "ABORTED" \in Written \ Clean
      BY DEF Written, TaskStatus, Clean
    <3>4. Writes(b, t)
      BY <3>1, <3>3 DEF Writes
    <3> QED
      BY <1>1, <1>3, <2>1, <2>2, <2>3, <3>2, <3>4, DefectWrite
  <2> QED
    BY <2>1, <2>4, <2>5
<1>6. ASSUME NEW b \in Batches, NEW j \in Jobs, Submit(b, j)
      PROVE  DefectInv'
  <2> DEFINE eligible == { t \in j.tasks : store[t] # "SKIPPED" }
  <2>1. /\ pc[Worker(b)] = "idle" /\ pc'[Worker(b)] # "idle" /\ UNCHANGED <<store, defect>>
        /\ errored'[b] = { t \in Tasks : store[t] \in { "ERROR", "COMPLETED_WITH_ERROR" } }
        /\ job'[b] = [j EXCEPT !.tasks = eligible]
    BY <1>6, WorkerIsCall DEF Submit, Goto, TypeOK
  <2>2. job'[b].dry_run = j.dry_run
    BY <2>1, JobsAssumption DEF JobType
  <2>3. defect' = errored'[b]
    BY <1>2, <2>1 DEF DefectOf
  <2> QED
    BY <1>1, <1>3, <2>1, <2>2, <2>3 DEF NoDryRun, DefectStaysVisible
<1>7. ASSUME UNCHANGED <<store, job, errored, defect, pc>>
      PROVE  DefectInv'
  BY <1>7 DEF DefectInv, DefectOf, DefectStaysVisible, Worker
<1> QED
  BY <1>4, <1>5, <1>6, <1>7 DEF Next, UserStep, AllFinished, RequestStop, vars

\* Within a batch that runs for real, a task that errored keeps its defect until it runs
\* again: no check alone, in any call or order, relabels it a clean success.
THEOREM DefectsStayVisible ==
    ASSUME OneBatch, NoDryRun
    PROVE  Spec => []DefectStaysVisible
<1>1. Init => DefectInv
  <2> SUFFICES ASSUME Init PROVE DefectInv
    OBVIOUS
  <2>1. \A b \in Batches : pc[Worker(b)] = "idle" /\ job[b] = NoJob
    BY WorkerIsCall DEF Init
  <2>2. NoJob.dry_run = FALSE
    BY DEF NoJob
  <2>3. defect = { t \in Tasks : store[t] \in { "ERROR", "COMPLETED_WITH_ERROR" } }
    BY DEF Init
  <2> QED
    BY <2>1, <2>2, <2>3 DEF DefectInv, DefectOf, DefectStaysVisible
<1>2. TypeOK /\ ClaimInv /\ DefectInv /\ [Next]_vars => DefectInv'
  BY DefectStep
<1>3. DefectInv => DefectStaysVisible
  BY DEF DefectInv
<1> QED
  BY <1>1, <1>2, <1>3, TypeCorrect, ClaimsCorrect, PTL DEF Spec

-----------------------------------------------------------------------------
(* StopPreventsRun *)

\* A call of a stopped batch on its own task that has not passed the gate at its entry:
\* all that is left to it is to take its claim, to see the stop and to let go.
StoppedEarly(b, t) ==
    /\ stop[b]
    /\ pc[Main(b, t)] \in { "idle", "claim", "wait", "process", "check", "release" }
    /\ pc[Main(b, t)] = "check" => phase[Main(b, t)] = "CHECK"

\* Every step keeps it so.
LEMMA StoppedStep ==
    ASSUME TypeOK, ClaimInv, PathInv, NEW b \in Batches, NEW t \in Tasks, StoppedEarly(b, t),
           [Next]_vars
    PROVE  StoppedEarly(b, t)'
<1> DEFINE m == Main(b, t)
<1> m \in TaskCalls /\ m \in Calls /\ m[1] = b
  BY MainShapes DEF Main
<1>1. ASSUME stop'[b] = stop[b], phase'[m] = phase[m],
             pc'[m] = pc[m] \/ (pc[m] = "idle" /\ pc'[m] = "claim")
      PROVE  StoppedEarly(b, t)'
  BY <1>1 DEF StoppedEarly, Main
<1>2. CASE CallStep(m)
  <2> USE DEF StoppedEarly, BatchFrame, OwnerFrame, Goto
  <2>1. UNCHANGED stop
    BY <1>2, CallFrame
  <2>2. pc[m] \in { "claim", "wait" } => phase[m] = "CHECK"
    BY DEF PathInv, PathOf
  <2>3. CASE AcquireClaim(m) \/ WaitForRelease(m) \/ ReleaseClaim(m)
    BY <2>1, <2>2, <2>3
    DEF AcquireClaim, WaitForRelease, Take, Entry, ReleaseClaim, ReleaseTo, TypeOK, Main
  <2>4. CASE ProcessTask(m) \/ CheckTaskSuccess(m)
    BY <2>1, <2>4 DEF ProcessTask, CheckTaskSuccess, CheckReturn, StopGate, TypeOK, Main
  <2> QED
    BY <1>2, <2>3, <2>4
    DEF CallStep, TaskBlocked, PreRunDecision, CheckGate, CheckVerdict, CheckDependencies,
        ResolveDependencies, AwaitDependencies, FailedDeps, CheckTaskRunnability, StartRun,
        RunTask, AfterRun
<1>3. ASSUME NEW f \in TaskCalls, f # m, CallStep(f)
      PROVE  StoppedEarly(b, t)'
  BY <1>1, <1>3, CallFrame DEF OthersStay, Wakes
<1>4. ASSUME NEW a \in Batches, WorkerStep(a)
      PROVE  StoppedEarly(b, t)'
  BY <1>1, <1>4, WorkerFrame DEF CallsStay
<1>5. CASE UserStep
  <2>1. phase'[m] = phase[m] /\ pc'[m] = pc[m]
    BY <1>5, UserFrame DEF UserStep
  <2>2. stop'[b] = stop[b]
    BY <1>5 DEF UserStep, Submit, RequestStop, StoppedEarly, TypeOK
  <2> QED
    BY <1>1, <2>1, <2>2
<1>6. CASE UNCHANGED vars
  BY <1>1, <1>6 DEF vars
<1> QED
  BY <1>2, <1>3, <1>4, <1>5, <1>6 DEF Next, AllFinished

\* A stop is seen at the next task boundary, even by a forced run: a call that had not
\* passed its entry when the stop came never runs its task.
THEOREM StopsPreventRuns == Spec => StopPreventsRun
<1> SUFFICES ASSUME NEW b \in Batches, NEW t \in Tasks
             PROVE  Spec => [](stop[b] /\ pc[Main(b, t)] \in { "idle", "claim", "wait", "process" }
                                => [](pc[Main(b, t)] # "run"))
  BY DEF StopPreventsRun
<1>1. stop[b] /\ pc[Main(b, t)] \in { "idle", "claim", "wait", "process" } => StoppedEarly(b, t)
  BY DEF StoppedEarly
<1>2. TypeOK /\ ClaimInv /\ PathInv /\ StoppedEarly(b, t) /\ [Next]_vars => StoppedEarly(b, t)'
  BY StoppedStep
<1>3. StoppedEarly(b, t) => pc[Main(b, t)] # "run"
  BY DEF StoppedEarly
<1> QED
  BY <1>1, <1>2, <1>3, TypeCorrect, ClaimsCorrect, CallsOnPath, PTL DEF Spec
=============================================================================
