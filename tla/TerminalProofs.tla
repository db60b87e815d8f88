---------------------------- MODULE TerminalProofs ----------------------------
(***************************************************************************)
(* Proofs about what one terminal process does on its own. Build: whatever *)
(* classes are declared, whatever the hooks answer and however often the   *)
(* process starts again, a pipeline runs a task after everything it        *)
(* depends on. Credentials: what the file of a person holds, which refresh *)
(* token it keeps, and whose tokens open a socket, for every set of        *)
(* processes, servers and pasted entries and whatever the issuer does.     *)
(***************************************************************************)
EXTENDS Build, Credentials, FiniteSetTheorems, WellFoundedInduction, TLAPS

-----------------------------------------------------------------------------
(* The pipeline of a workflow *)

\* The graph passed the premier and terminal checks.
DepsChecked == phase \in Linked => \A t \in tasks : ~ChecksRefuse(t, deps[t])

\* A stamped task has a generation, and its dependencies have earlier ones.
Stamped(t) ==
    /\ priority[t] \in Nat
    /\ \A d \in deps[t] : priority[d] \in Nat /\ priority[d] < priority[t]
LayersGrow ==
    phase = "stamp" =>
        \A t \in tasks \ todo : Stamped(t) /\ priority[t] < layer /\ deps[t] \cap todo = {}
AllLayered == phase \in {"sort"} \cup Sorted => \A t \in tasks : Stamped(t)

BuildInv == BuildTypeOK /\ DepsChecked /\ LayersGrow /\ AllLayered /\ DepsComeFirst

---------------------------------------------------------------------------
(* The order of the pipeline. *)

\* A dependency that passed the checks and has an earlier generation runs before.
LEMMA CheckedRunsBefore ==
    ASSUME NEW t, NEW d \in deps[t], ~ChecksRefuse(t, deps[t]), Stamped(t)
    PROVE  RunsBefore(d, t)
<1>1. priority[d] < priority[t]
  BY DEF Stamped
<1>2. CASE Premier(t)
  BY <1>1, <1>2 DEF ChecksRefuse, RunsBefore, Rung
<1>3. CASE ~Premier(t) /\ Terminal(t)
  BY <1>1, <1>3 DEF RunsBefore, Rung
<1>4. CASE ~Premier(t) /\ ~Terminal(t)
  BY <1>1, <1>4 DEF ChecksRefuse, RunsBefore, Rung
<1>. QED BY <1>2, <1>3, <1>4

\* What sorts before a task sorts before everything that runs after the task.
LEMMA SortIsTransitive ==
    ASSUME NEW u, NEW d, NEW t, RunsBefore(d, t), SortsBefore(u, d),
           priority[u] \in Nat, priority[d] \in Nat, priority[t] \in Nat
    PROVE  SortsBefore(u, t)
<1>1. Rung(u) \in 0 .. 2 /\ Rung(d) \in 0 .. 2 /\ Rung(t) \in 0 .. 2
  BY DEF Rung
<1>2. RunsBefore(u, t)
  BY <1>1 DEF SortsBefore, RunsBefore
<1>. QED BY <1>2 DEF SortsBefore

\* A task that runs before another has a smaller place in the pipeline.
LEMMA RunsBeforeIsSmaller ==
    ASSUME BuildTypeOK, phase = "sort", AllLayered,
           NEW d \in tasks, NEW t \in tasks, RunsBefore(d, t)
    PROVE  Cardinality({u \in tasks : SortsBefore(u, d)})
             < Cardinality({u \in tasks : SortsBefore(u, t)})
<1> DEFINE D == {u \in tasks : SortsBefore(u, d)}
           T == {u \in tasks : SortsBefore(u, t)}
<1>1. IsFiniteSet(tasks)
  BY FS_Subset, DeclarationsAssumption DEF BuildTypeOK, DeclarationOK
<1>2. IsFiniteSet(D) /\ IsFiniteSet(T)
  BY <1>1, FS_Subset
<1>3. \A u \in tasks : priority[u] \in Nat
  BY DEF AllLayered, Stamped
<1>4. D \subseteq T
  BY <1>3, SortIsTransitive
<1>5. d \in T
  BY DEF SortsBefore
<1>6. d \notin D
  <2>1. d \in Candidates(decl) /\ decl.rank \in [Candidates(decl) -> Nat]
    BY DeclarationsAssumption DEF BuildTypeOK, DeclarationOK
  <2>2. decl.rank[d] \in Nat /\ Rung(d) \in 0 .. 2 /\ priority[d] \in Nat
    BY <2>1, <1>3 DEF Rung
  <2>. QED BY <2>2 DEF SortsBefore, RunsBefore
<1>7. Cardinality(D) <= Cardinality(T) /\ (Cardinality(T) = Cardinality(D) => T = D)
  BY <1>2, <1>4, FS_Subset
<1>8. Cardinality(D) \in Nat /\ Cardinality(T) \in Nat
  BY <1>2, FS_CardinalityType
<1>. QED BY <1>5, <1>6, <1>7, <1>8

---------------------------------------------------------------------------
(* The steps of the build. *)

\* The build begins with nothing decided.
LEMMA InitHolds == BuildInit => BuildInv
BY DEF BuildInit, BuildInv, BuildTypeOK, Phases, DepsChecked, LayersGrow, AllLayered,
       DepsComeFirst, Linked, Sorted

\* Nothing is promised of a build that was refused.
LEMMA RefuseHolds == BuildInv /\ Refuse => BuildInv'
BY DEF Refuse, BuildInv, BuildTypeOK, Phases, DepsChecked, LayersGrow, AllLayered,
       DepsComeFirst, Linked, Sorted, Candidates

\* A new process starts from the initial state.
LEMMA AbandonHolds == BuildInv /\ Abandon => BuildInv'
BY DEF Abandon, BuildInv, BuildTypeOK, Phases, DepsChecked, LayersGrow, AllLayered,
       DepsComeFirst, Linked, Sorted, Candidates

\* Before the graph is there only the tasks change.
LEMMA CreateHolds ==
    ASSUME BuildInv,
           CollectClasses \/ (\E t \in todo : SkipTask(t) \/ CreateTask(t)) \/ AllCreated
    PROVE  BuildInv'
<1> USE DEF BuildInv, BuildTypeOK, Phases, DepsChecked, LayersGrow, AllLayered, DepsComeFirst,
            Linked, Sorted, Candidates
<1>1. CASE CollectClasses
  BY <1>1, RefuseHolds DEF CollectClasses
<1>2. ASSUME NEW t \in todo, SkipTask(t) PROVE BuildInv'
  BY <1>2 DEF SkipTask
<1>3. ASSUME NEW t \in todo, CreateTask(t) PROVE BuildInv'
  BY <1>3, RefuseHolds DEF CreateTask
<1>4. CASE AllCreated
  BY <1>4 DEF AllCreated, ChecksRefuse
<1>. QED BY <1>1, <1>2, <1>3, <1>4

\* A task gets its dependencies only if the checks let them pass.
LEMMA AssignHolds ==
    ASSUME BuildInv, NEW t \in todo, AssignDependencies(t)
    PROVE  BuildInv'
<1>1. CASE Refuse
  BY <1>1, RefuseHolds
<1>2. CASE ~Refuse
  <2>1. PICK kept \in SUBSET {u \in tasks : u[1] \in DependencyClasses(t)} :
        \E answer \in [{u \in kept : eligible[u] = "unknown"} -> {"yes", "no", "crash"}] :
           LET ds == {u \in kept : Answered(answer, u) = "yes"}
           IN  /\ ~ChecksRefuse(t, ds)
               /\ \A u \in DOMAIN answer : answer[u] # "crash"
               /\ deps' = [deps EXCEPT ![t] = ds]
               /\ eligible' = [u \in tasks |->
                                 IF u \in kept THEN Answered(answer, u) ELSE eligible[u]]
               /\ todo' = todo \ {t}
               /\ UNCHANGED <<decl, phase, tasks, layer, priority, index, store>>
    BY <1>2 DEF AssignDependencies
  <2>2. PICK answer \in [{u \in kept : eligible[u] = "unknown"} -> {"yes", "no", "crash"}] :
           LET ds == {u \in kept : Answered(answer, u) = "yes"}
           IN  /\ ~ChecksRefuse(t, ds)
               /\ \A u \in DOMAIN answer : answer[u] # "crash"
               /\ deps' = [deps EXCEPT ![t] = ds]
               /\ eligible' = [u \in tasks |->
                                 IF u \in kept THEN Answered(answer, u) ELSE eligible[u]]
               /\ todo' = todo \ {t}
               /\ UNCHANGED <<decl, phase, tasks, layer, priority, index, store>>
    BY <2>1
  <2> DEFINE ds == {u \in kept : Answered(answer, u) = "yes"}
  <2>3. phase = "assign" /\ t \in tasks /\ ds \in SUBSET tasks
    BY DEF AssignDependencies, BuildInv, BuildTypeOK, Linked, Sorted
  <2>4. eligible \in [tasks -> {"unknown", "yes", "no"}] /\ deps \in [tasks -> SUBSET tasks]
    BY <2>3 DEF BuildInv, BuildTypeOK, Linked, Sorted
  <2>5. \A u \in kept : Answered(answer, u) \in {"unknown", "yes", "no"}
    BY <2>2, <2>4 DEF Answered
  <2>6. eligible' \in [tasks -> {"unknown", "yes", "no"}]
    BY <2>2, <2>4, <2>5
  <2>7. deps' \in [tasks -> SUBSET tasks]
    BY <2>2, <2>3, <2>4
  <2>8. BuildTypeOK'
    BY <2>2, <2>3, <2>6, <2>7 DEF BuildInv, BuildTypeOK, Linked, Sorted, Candidates
  <2>9. DepsChecked'
    <3>1. ~ChecksRefuse(t, ds) /\ deps'[t] = ds
      BY <2>2, <2>3, <2>4
    <3>2. \A u \in tasks : u # t => deps'[u] = deps[u] /\ ~ChecksRefuse(u, deps[u])
      BY <2>2, <2>3, <2>4 DEF BuildInv, DepsChecked, Linked
    <3>3. \A u \in tasks : ~ChecksRefuse(u, deps'[u])
      BY <3>1, <3>2
    <3>. QED BY <2>2, <3>3 DEF DepsChecked, ChecksRefuse, Premier, Terminal
  <2>. QED BY <2>2, <2>3, <2>8, <2>9 DEF BuildInv, LayersGrow, AllLayered, DepsComeFirst, Sorted
<1>. QED BY <1>1, <1>2

\* A generation is stamped after those of its dependencies.
LEMMA StampHolds ==
    ASSUME BuildInv, AllAssigned \/ CheckCycles \/ StampGeneration \/ AllStamped
    PROVE  BuildInv'
<1>1. CASE AllAssigned
  BY <1>1 DEF AllAssigned, BuildInv, BuildTypeOK, Phases, DepsChecked, LayersGrow, AllLayered,
              DepsComeFirst, Linked, Sorted, Candidates, ChecksRefuse, Premier, Terminal
<1>2. CASE CheckCycles
  <2>1. CASE Refuse
    BY <2>1, RefuseHolds
  <2>2. CASE ~Refuse
    BY <1>2, <2>2 DEF CheckCycles, BuildInv, BuildTypeOK, Phases, DepsChecked, LayersGrow,
              AllLayered, DepsComeFirst, Linked, Sorted, Candidates, ChecksRefuse, Premier, Terminal
  <2>. QED BY <2>1, <2>2
<1>3. CASE StampGeneration
  <2>1. /\ phase = "stamp" /\ phase' = "stamp" /\ tasks' = tasks /\ deps' = deps
        /\ todo' = todo \ Generation /\ layer' = layer + 1 /\ decl' = decl
        /\ priority' = [t \in tasks |-> IF t \in Generation THEN layer ELSE priority[t]]
        /\ UNCHANGED <<eligible, index, store>>
    BY <1>3 DEF StampGeneration
  <2>2. /\ layer \in Nat /\ deps \in [tasks -> SUBSET tasks] /\ todo \subseteq tasks
        /\ priority \in [tasks -> Nat \cup {Unstamped}]
    BY <2>1 DEF BuildInv, BuildTypeOK, Linked
  <2>3. BuildTypeOK'
    BY <2>1, <2>2 DEF BuildInv, BuildTypeOK, Linked, Sorted, Candidates, Generation
  <2>4. DepsChecked'
    BY <2>1 DEF BuildInv, DepsChecked, Linked, ChecksRefuse, Premier, Terminal
  <2>5. \A t \in tasks \ todo : Stamped(t) /\ priority[t] < layer /\ deps[t] \cap todo = {}
    BY <2>1 DEF BuildInv, LayersGrow
  <2>6. ASSUME NEW t \in tasks \ todo
        PROVE  Stamped(t)' /\ priority'[t] < layer' /\ deps'[t] \cap todo' = {}
    <3>1. t \notin Generation /\ deps[t] \subseteq tasks \ todo
      BY <2>2, <2>5, <2>6 DEF Generation
    <3>2. priority'[t] = priority[t] /\ \A d \in deps[t] : priority'[d] = priority[d]
      BY <2>1, <3>1 DEF Generation
    <3>. QED BY <2>1, <2>2, <2>5, <2>6, <3>2 DEF Stamped
  <2>7. ASSUME NEW t \in Generation
        PROVE  Stamped(t)' /\ priority'[t] < layer' /\ deps'[t] \cap todo' = {}
    <3>1. t \in tasks /\ priority'[t] = layer /\ deps[t] \subseteq tasks \ todo
      BY <2>1, <2>2 DEF Generation
    <3>2. \A d \in deps[t] : priority'[d] = priority[d] /\ priority[d] \in Nat /\ priority[d] < layer
      BY <2>1, <2>5, <3>1 DEF Generation, Stamped
    <3>. QED BY <2>1, <2>2, <3>1, <3>2 DEF Stamped
  <2>8. LayersGrow'
    BY <2>1, <2>6, <2>7 DEF LayersGrow
  <2>. QED BY <2>1, <2>3, <2>4, <2>8 DEF BuildInv, AllLayered, DepsComeFirst, Sorted
<1>4. CASE AllStamped
  <2>1. \A t \in tasks : Stamped(t)
    BY <1>4 DEF AllStamped, BuildInv, LayersGrow
  <2>2. AllLayered'
    BY <1>4, <2>1 DEF AllStamped, AllLayered, Stamped
  <2>. QED BY <1>4, <2>2 DEF AllStamped, BuildInv, BuildTypeOK, Phases, DepsChecked, LayersGrow,
              DepsComeFirst, Linked, Sorted, Candidates, ChecksRefuse, Premier, Terminal
<1>. QED BY <1>1, <1>2, <1>3, <1>4

\* The sort gives every task a place behind its dependencies.
LEMMA SortHolds == BuildInv /\ SortPipeline => BuildInv'
<1> SUFFICES ASSUME BuildInv, SortPipeline PROVE BuildInv'
  OBVIOUS
<1>1. CASE Refuse
  BY <1>1, RefuseHolds
<1>2. CASE ~Refuse
  <2>1. /\ phase = "sort" /\ phase' = "eligibility" /\ todo' = tasks
        /\ index' = [t \in tasks |-> Cardinality({u \in tasks : SortsBefore(u, t)})]
        /\ store' = [t \in tasks |-> "INITIALIZED"]
        /\ UNCHANGED <<decl, tasks, eligible, deps, layer, priority>>
    BY <1>2 DEF SortPipeline
  <2>2. IsFiniteSet(tasks)
    BY FS_Subset, DeclarationsAssumption DEF BuildInv, BuildTypeOK, DeclarationOK
  <2>3. \A t \in tasks : Cardinality({u \in tasks : SortsBefore(u, t)}) \in Nat
    BY <2>2, FS_Subset, FS_CardinalityType
  <2>4. index' \in [tasks -> Nat] /\ store' \in [tasks -> TaskStatus]
    BY <2>1, <2>3 DEF TaskStatus
  <2>5. BuildTypeOK'
    BY <2>1, <2>4 DEF BuildInv, BuildTypeOK, Phases, Linked, Sorted, Candidates
  <2>6. DepsChecked' /\ LayersGrow' /\ AllLayered'
    BY <2>1 DEF BuildInv, DepsChecked, LayersGrow, AllLayered, Stamped, Linked, Sorted,
                ChecksRefuse, Premier, Terminal
  <2>7. ASSUME NEW t \in tasks, NEW d \in deps[t]
        PROVE  RunsBefore(d, t)' /\ index'[d] < index'[t]
    <3>1. d \in tasks
      BY <2>1 DEF BuildInv, BuildTypeOK, Linked
    <3>2. ~ChecksRefuse(t, deps[t]) /\ Stamped(t)
      BY <2>1 DEF BuildInv, DepsChecked, AllLayered, Linked
    <3>3. RunsBefore(d, t)
      BY <3>2, CheckedRunsBefore
    <3>4. Cardinality({u \in tasks : SortsBefore(u, d)})
            < Cardinality({u \in tasks : SortsBefore(u, t)})
      BY <2>1, <3>1, <3>3, RunsBeforeIsSmaller DEF BuildInv
    <3>. QED BY <2>1, <3>1, <3>3, <3>4 DEF RunsBefore, Rung, Premier, Terminal
  <2>8. DepsComeFirst'
    BY <2>1, <2>7 DEF DepsComeFirst
  <2>. QED BY <2>5, <2>6, <2>8 DEF BuildInv
<1>. QED BY <1>1, <1>2

\* The passes after the sort leave the graph and its order alone.
LEMMA SettleHolds ==
    ASSUME BuildInv,
           \/ \E t \in todo : SettleEligibility(t) \/ SeedTask(t)
           \/ AllSettled \/ AllSeeded
    PROVE  BuildInv'
<1>1. CASE Refuse
  BY <1>1, RefuseHolds
<1>2. CASE ~Refuse
  <2>1. /\ phase \in Sorted /\ phase' \in Sorted /\ todo' \subseteq tasks
        /\ UNCHANGED <<decl, tasks, deps, layer, priority, index>>
    BY <1>2 DEF SettleEligibility, SeedTask, AllSettled, AllSeeded, Sorted, BuildInv,
                BuildTypeOK, Linked
  <2>2. /\ eligible \in [tasks -> {"unknown", "yes", "no"}]
        /\ store \in [tasks -> TaskStatus]
    BY <2>1 DEF BuildInv, BuildTypeOK, Linked
  <2>3. eligible' \in [tasks -> {"unknown", "yes", "no"}]
    BY <1>2, <2>2 DEF SettleEligibility, SeedTask, AllSettled, AllSeeded, KeptAnswer
  <2>4. \A e \in Entries : Seeded(e) \in TaskStatus
    BY EntriesAssumption DEF Seeded, TaskStatus, SNAPSHOT_STATUSES, PASSING_STATUSES
  <2>5. store' \in [tasks -> TaskStatus]
    BY <1>2, <2>2, <2>4 DEF SettleEligibility, SeedTask, AllSettled, AllSeeded, TaskStatus
  <2>6. BuildTypeOK'
    BY <2>1, <2>3, <2>5 DEF BuildInv, BuildTypeOK, Phases, Linked, Sorted, Candidates
  <2>7. DepsChecked' /\ LayersGrow' /\ AllLayered' /\ DepsComeFirst'
    BY <2>1 DEF BuildInv, DepsChecked, LayersGrow, AllLayered, DepsComeFirst, Stamped, Linked,
                Sorted, ChecksRefuse, RunsBefore, Rung, Premier, Terminal
  <2>. QED BY <2>6, <2>7 DEF BuildInv
<1>. QED BY <1>1, <1>2

\* A stutter changes nothing.
LEMMA StutterHolds == BuildInv /\ UNCHANGED vars => BuildInv'
BY DEF vars, BuildInv, BuildTypeOK, DepsChecked, LayersGrow, AllLayered, DepsComeFirst,
       Stamped, Linked, Sorted, Candidates, ChecksRefuse, RunsBefore, Rung, Premier, Terminal

---------------------------------------------------------------------------

\* The inductive invariant of the build: the graph that passed the checks, its
\* generations, and the order of the pipeline.
THEOREM BuildInvariant == BuildSpec => []BuildInv
<1>1. BuildInv /\ [BuildNext \/ Abandon]_vars => BuildInv'
  BY CreateHolds, AssignHolds, StampHolds, SortHolds, SettleHolds, AbandonHolds, StutterHolds
     DEF BuildNext
<1>. QED BY InitHolds, <1>1, PTL DEF BuildSpec

\* Every variable of the build keeps its type, for all declarations and hooks.
THEOREM BuildTypes == BuildSpec => []BuildTypeOK
<1>1. BuildInv => BuildTypeOK
  BY DEF BuildInv
<1>. QED BY BuildInvariant, <1>1, PTL

\* A task comes after everything it depends on, for any number of classes, tasks,
\* premier and terminal marks and starts of the process.
THEOREM PipelineOrder == BuildSpec => []DepsComeFirst
<1>1. BuildInv => DepsComeFirst
  BY DEF BuildInv
<1>. QED BY BuildInvariant, <1>1, PTL

-----------------------------------------------------------------------------
(* Types *)

Keys == {CredentialKey(u) : u \in Urls}
Files == UNION {[K -> CredentialEntries] : K \in SUBSET Keys}
Snapshots == [stamp : Nat, entries : Files]
Hellos ==
    [ verdict : [user : Users, credential : {"oidc", "local", "open"}],
      token : StoredTokens \cup {None} ]
CredentialPCs ==
    { "idle", "browser", "exchange", "ask", "refresh", "send", "remember", "app", "merge",
      "write", "stat" }
ThreadStates ==
    [ pc : CredentialPCs, url : Urls \cup {None}, entry : CredentialEntries \cup {None},
      after : {"idle", "send", "app"}, entries : Files, was : CredentialEntries \cup {None},
      hello : Hellos \cup {None} ]

\* What each thread has at each of its steps.
Equipped(state) ==
    /\ state.pc # "idle" => state.url \in Urls
    /\ state.pc \notin {"write", "stat"} => state.entries = <<>>
    /\ state.pc \notin {"refresh", "merge", "write", "stat"} => state.entry = None
    /\ state.pc = "refresh" => state.entry # None /\ state.entry.refresh # None
    /\ state.pc = "remember" => state.hello \in Hellos
    /\ state.pc \in {"merge", "write"} /\ state.after = "send" =>
         state.entry # None /\ state.entry.refresh # None
    /\ state.pc \in {"merge", "write"} /\ state.after = "app" =>
         /\ state.entry # None /\ state.was # None
         /\ state.entry.refresh = state.was.refresh

CredTypeOK ==
    /\ time \in Nat
    /\ issuer \in Issuers
    /\ live \in Seq(Nat)
    /\ disk \in Snapshots
    /\ snapshot \in [Procs -> Snapshots]
    /\ thread \in [Threads -> ThreadStates]
    /\ \A t \in Threads : Equipped(thread[t])
    /\ clash \in BOOLEAN
    /\ lost \subseteq Nat

\* The files a process may hold: lookups, updates and the empty one.
LEMMA FileFacts ==
    /\ <<>> \in Files /\ DOMAIN <<>> = {}
    /\ \A F \in Files : DOMAIN F \subseteq Keys /\ \A k \in DOMAIN F : F[k] \in CredentialEntries
<1>1. <<>> \in [{} -> CredentialEntries] /\ DOMAIN <<>> = {}
  OBVIOUS
<1>2. <<>> \in Files
  BY <1>1 DEF Files
<1>3. ASSUME NEW F \in Files
      PROVE  DOMAIN F \subseteq Keys /\ \A k \in DOMAIN F : F[k] \in CredentialEntries
  BY DEF Files
<1> QED
  BY <1>1, <1>2, <1>3

\* A file with an entry set or deleted: that key has the new entry, the others stay.
LEMMA WithFacts ==
    ASSUME NEW F \in Files, NEW key \in Keys, NEW e \in CredentialEntries \cup {None}
    PROVE  /\ With(F, key, e) \in Files
           /\ key \in DOMAIN With(F, key, e) <=> e # None
           /\ key \in DOMAIN With(F, key, e) => With(F, key, e)[key] = e
           /\ \A k \in Keys \ {key} :
                /\ k \in DOMAIN With(F, key, e) <=> k \in DOMAIN F
                /\ k \in DOMAIN F => With(F, key, e)[k] = F[k]
<1>0. DOMAIN F \subseteq Keys /\ \A k \in DOMAIN F : F[k] \in CredentialEntries
  BY FileFacts
<1>1. CASE e = None
  <2>1. With(F, key, e) = [k \in DOMAIN F \ {key} |-> F[k]]
    BY <1>1 DEF With, Without
  <2>2. [k \in DOMAIN F \ {key} |-> F[k]] \in [DOMAIN F \ {key} -> CredentialEntries]
    BY <1>0
  <2>3. With(F, key, e) \in Files
    BY <1>0, <2>1, <2>2 DEF Files
  <2> QED
    BY <1>0, <1>1, <2>1, <2>3
<1>2. CASE e # None
  <2>1. With(F, key, e) = [k \in DOMAIN F \cup {key} |-> IF k = key THEN e ELSE F[k]]
    BY <1>2 DEF With
  <2>2. With(F, key, e) \in [DOMAIN F \cup {key} -> CredentialEntries]
    BY <1>0, <1>2, <2>1
  <2>3. With(F, key, e) \in Files
    BY <1>0, <2>2 DEF Files
  <2> QED
    BY <1>0, <1>2, <2>1, <2>3
<1> QED
  BY <1>1, <1>2

\* The entry of a key in a file, if there is one.
LEMMA EntryInType ==
    ASSUME NEW F \in Files, NEW key
    PROVE  /\ EntryIn(F, key) \in CredentialEntries \cup {None}
           /\ EntryIn(F, key) # None => key \in DOMAIN F /\ EntryIn(F, key) = F[key]
BY FileFacts DEF EntryIn

\* A process loads its snapshot or the file.
LEMMA LoadedType ==
    ASSUME CredTypeOK, NEW p \in Procs
    PROVE  Loaded(p) \in Snapshots /\ (Loaded(p) = snapshot[p] \/ Loaded(p) = disk)
BY DEF Loaded, CredTypeOK

\* The initial states of a process and of a thread.
LEMMA FreshType == Fresh \in Snapshots
BY FileFacts DEF Fresh, Snapshots

\* An idle thread has nothing.
LEMMA IdleType == Idle \in ThreadStates /\ Equipped(Idle)
BY FileFacts DEF Idle, ThreadStates, CredentialPCs, Equipped

\* Every address has a key.
LEMMA KeyOfUrl == \A u \in Urls : CredentialKey(u) \in Keys
BY DEF Keys

\* A process keeps a snapshot, or none when it ends.
LEMMA KeepType ==
    ASSUME CredTypeOK, NEW p \in Procs, NEW snap \in Snapshots, Keep(p, snap)
    PROVE  snapshot' \in [Procs -> Snapshots]
BY FreshType DEF Keep, CredTypeOK

\* A process keeps what it loaded.
LEMMA LoadType ==
    ASSUME CredTypeOK, NEW p \in Procs, Load(p)
    PROVE  snapshot' \in [Procs -> Snapshots]
BY LoadedType, KeepType DEF Load

\* One thread moves to a state it may be in.
LEMMA GotoType ==
    ASSUME CredTypeOK, NEW t \in Threads, NEW s \in ThreadStates, Equipped(s), Goto(t, s)
    PROVE  /\ thread' \in [Threads -> ThreadStates]
           /\ \A u \in Threads : Equipped(thread'[u])
           /\ thread'[t] = s /\ \A u \in Threads \ {t} : thread'[u] = thread[u]
BY DEF Goto, CredTypeOK

\* The entry a thread finds in the file.
LEMMA EntryType ==
    ASSUME CredTypeOK, NEW t \in Threads
    PROVE  Entry(t) \in CredentialEntries \cup {None}
<1>1. t[1] \in Procs
  BY DEF Threads
<1>2. Loaded(t[1]).entries \in Files
  BY <1>1, LoadedType DEF Snapshots
<1> QED
  BY <1>2, EntryInType DEF Entry

\* A token response of the issuer.
LEMMA TokensType ==
    ASSUME CredTypeOK, NEW l \in Nat, NEW r \in (Nat \X Nat) \cup {None}
    PROVE  /\ Tokens(l, r).access \in StoredTokens
           /\ Tokens(l, r).refresh = r
           /\ Tokens(l, r).expiresIn \in Nat \cup {None}
BY CredentialsAssumption DEF Tokens, StoredTokens, CredTypeOK

\* The entry of a token response: a response without a refresh token keeps the last one.
LEMMA EntryOfType ==
    ASSUME CredTypeOK, NEW l \in Nat, NEW r \in (Nat \X Nat) \cup {None},
           NEW client \in [issuer : {ClientIssuer}] \cup {None},
           NEW previous \in CredentialEntries \cup {None}
    PROVE  /\ EntryOf(Tokens(l, r), client, previous, time) \in CredentialEntries
           /\ EntryOf(Tokens(l, r), client, previous, time).refresh =
                IF r # None THEN r ELSE IF previous = None THEN None ELSE previous.refresh
<1>1. time \in Nat
  BY DEF CredTypeOK
<1>2. previous # None => previous.user \in Users \cup {None}
                         /\ previous.refresh \in (Nat \X Nat) \cup {None}
  BY DEF CredentialEntries
<1> QED
  BY <1>1, <1>2, TokensType DEF EntryOf, CredentialEntries

\* A token names a person of the file, and so does the verdict of a server.
LEMMA TokenFacts ==
    ASSUME NEW token \in StoredTokens
    PROVE  token.user \in Users
BY DEF StoredTokens, Users

\* Whoever is let in is a person of the file, with the kind of the credential.
LEMMA VerdictType ==
    ASSUME NEW h \in DOMAIN Server, NEW token \in StoredTokens \cup {None},
           Verdict(Server[h], token) # Refusal
    PROVE  Verdict(Server[h], token) \in [user : Users, credential : {"oidc", "local", "open"}]
<1> DEFINE Answers == [user : Users, credential : {"oidc", "local", "open"}]
<1>1. LoopbackMode \in Answers /\ [user |-> "anonymous", credential |-> "open"] \in Answers
  BY DEF LoopbackMode, Users
<1>2. token # None => token.user \in Users
  BY TokenFacts
<1>3. CredentialMode(Server[h].backends, token) \in Answers \cup {Refusal}
  BY <1>2 DEF CredentialMode, ByChain
<1>4. OpenMode(Server[h].backends, token) \in Answers \cup {Refusal}
  BY <1>1, <1>3 DEF OpenMode
<1> QED
  BY <1>1, <1>3, <1>4, CredentialsAssumption DEF Verdict

\* The commands of winslow auth and the start of winslow connect.
LEMMA CommandsType ==
    ASSUME CredTypeOK, NEW p \in Procs,
           AuthCommand(p) \/ \E url \in Urls : Connect(p, url)
    PROVE  CredTypeOK'
<1>1. Main(p) \in Threads
  BY DEF Main, Threads, Roles
<1>2. PICK s \in ThreadStates :
         /\ Goto(Main(p), s) /\ Equipped(s)
         /\ UNCHANGED <<time, issuer, live, disk, snapshot, truth, clash, lost>>
  <2>1. ASSUME NEW url \in Urls, Logout(p, url) \/ Connect(p, url)
        PROVE  \E s \in ThreadStates :
                 /\ Goto(Main(p), s) /\ Equipped(s)
                 /\ UNCHANGED <<time, issuer, live, disk, snapshot, truth, clash, lost>>
    <3>1. [Idle EXCEPT !.pc = "merge", !.url = url] \in ThreadStates
          /\ Equipped([Idle EXCEPT !.pc = "merge", !.url = url])
      BY FileFacts DEF Idle, ThreadStates, CredentialPCs, Equipped
    <3>2. [Idle EXCEPT !.pc = "ask", !.url = url] \in ThreadStates
          /\ Equipped([Idle EXCEPT !.pc = "ask", !.url = url])
      BY FileFacts DEF Idle, ThreadStates, CredentialPCs, Equipped
    <3> QED
      BY <2>1, <3>1, <3>2, Zenon DEF Logout, Connect
  <2>2. ASSUME NEW url \in Urls, NEW insecure \in BOOLEAN,
               LoginBrowser(p, url, insecure) \/ \E e \in Pasted : LoginPasted(p, url, insecure, e)
        PROVE  \E s \in ThreadStates :
                 /\ Goto(Main(p), s) /\ Equipped(s)
                 /\ UNCHANGED <<time, issuer, live, disk, snapshot, truth, clash, lost>>
    <3>1. [Idle EXCEPT !.pc = "browser", !.url = url] \in ThreadStates
          /\ Equipped([Idle EXCEPT !.pc = "browser", !.url = url])
      BY FileFacts DEF Idle, ThreadStates, CredentialPCs, Equipped
    <3>2. ASSUME NEW e \in Pasted
          PROVE  /\ [Idle EXCEPT !.pc = "merge", !.url = url, !.entry = e] \in ThreadStates
                 /\ Equipped([Idle EXCEPT !.pc = "merge", !.url = url, !.entry = e])
      <4>1. e \in CredentialEntries
        BY CredentialsAssumption
      <4> QED
        BY <4>1, FileFacts DEF Idle, ThreadStates, CredentialPCs, Equipped
    <3> QED
      BY <2>2, <3>1, <3>2, Zenon DEF LoginBrowser, LoginPasted
  <2> QED
    BY <2>1, <2>2, Zenon DEF AuthCommand
<1>3. thread' \in [Threads -> ThreadStates] /\ \A u \in Threads : Equipped(thread'[u])
  BY <1>1, <1>2, GotoType
<1> QED
  BY <1>2, <1>3 DEF CredTypeOK

\* The steps of a browser login.
LEMMA BrowserType ==
    ASSUME CredTypeOK, NEW p \in Procs, Callback(p) \/ Exchange(p)
    PROVE  CredTypeOK'
<1>1. Main(p) \in Threads /\ thread[Main(p)] \in ThreadStates /\ snapshot[p] \in Snapshots
      /\ Equipped(thread[Main(p)]) /\ live \in Seq(Nat) /\ Len(live) + 1 \in Nat
  BY DEF Main, Threads, Roles, CredTypeOK
<1>2. snapshot' \in [Procs -> Snapshots]
  BY <1>1, KeepType DEF Callback, Exchange
<1>3. CASE Callback(p)
  <2>1. [thread[Main(p)] EXCEPT !.pc = "exchange"] \in ThreadStates
        /\ Equipped([thread[Main(p)] EXCEPT !.pc = "exchange"])
    BY <1>1, <1>3 DEF ThreadStates, CredentialPCs, Equipped, Callback, Is
  <2>2. \E s \in ThreadStates : Equipped(s) /\ Goto(Main(p), s)
    BY <1>3, <2>1, IdleType DEF Callback
  <2>3. thread' \in [Threads -> ThreadStates] /\ \A u \in Threads : Equipped(thread'[u])
    BY <1>1, <2>2, GotoType
  <2> QED
    BY <1>2, <1>3, <2>3 DEF CredTypeOK, Callback
<1>4. CASE Exchange(p)
  <2> DEFINE l == Len(live) + 1
             tokens == Tokens(l, IF issuer.refreshes THEN <<l, 0>> ELSE None)
             entry == EntryOf(tokens, [issuer |-> ClientIssuer], None, time)
  <2>1. entry \in CredentialEntries
    BY <1>1, EntryOfType
  <2>2. /\ Put(Main(p), entry, None, "idle") \in ThreadStates
        /\ Equipped(Put(Main(p), entry, None, "idle"))
    <3> HIDE DEF entry
    <3> QED
      BY <1>1, <1>4, <2>1 DEF ThreadStates, CredentialPCs, Equipped, Put, Exchange, Is
  <2>3. \E s \in ThreadStates : Equipped(s) /\ Goto(Main(p), s)
    BY <1>4, <2>2, IdleType DEF Exchange
  <2>4. thread' \in [Threads -> ThreadStates] /\ \A u \in Threads : Equipped(thread'[u])
    BY <1>1, <2>3, GotoType
  <2>5. live' \in Seq(Nat)
    <3>1. live' = Append(live, 0) \/ live' = live
      BY <1>4, Zenon DEF Exchange
    <3>2. Append(live, 0) \in Seq(Nat)
      BY <1>1
    <3> QED
      BY <1>1, <3>1, <3>2
  <2> QED
    BY <1>2, <1>4, <2>4, <2>5 DEF CredTypeOK, Exchange
<1> QED
  BY <1>3, <1>4

\* The steps of a connection that store nothing.
LEMMA AskType ==
    ASSUME CredTypeOK, NEW t \in Threads, Ask(t)
    PROVE  CredTypeOK'
<1>1. t[1] \in Procs /\ thread[t] \in ThreadStates /\ Equipped(thread[t])
  BY DEF Threads, CredTypeOK
<1>2. Entry(t) \in CredentialEntries \cup {None}
  BY EntryType
<1>3. snapshot' \in [Procs -> Snapshots]
  BY <1>1, LoadType DEF Ask
<1> DEFINE s == IF Refreshable(Entry(t)) THEN [thread[t] EXCEPT !.pc = "refresh", !.entry = Entry(t)]
                ELSE [thread[t] EXCEPT !.pc = "send"]
<1>4. s \in ThreadStates /\ Equipped(s)
  <2>1. Refreshable(Entry(t)) => Entry(t) # None /\ Entry(t).refresh # None
    BY DEF Refreshable
  <2>2. thread[t].pc = "ask"
    BY DEF Ask, Is
  <2> QED
    BY <1>1, <1>2, <2>1, <2>2 DEF ThreadStates, CredentialPCs, Equipped
<1>5. thread' \in [Threads -> ThreadStates] /\ \A u \in Threads : Equipped(thread'[u])
  <2>1. Goto(t, s)
    BY DEF Ask
  <2> HIDE DEF s
  <2> QED
    BY <1>4, <2>1, GotoType
<1> QED
  BY <1>3, <1>5 DEF CredTypeOK, Ask

\* A failed attempt leaves a state a thread may be in.
LEMMA FailedType ==
    ASSUME CredTypeOK, NEW t \in Threads, Is(t, "refresh") \/ Is(t, "send")
    PROVE  Failed(t) \in ThreadStates /\ Equipped(Failed(t))
<1>1. thread[t] \in ThreadStates /\ Equipped(thread[t])
  BY DEF CredTypeOK
<1>2. [thread[t] EXCEPT !.pc = "ask", !.entry = None, !.hello = None] \in ThreadStates
      /\ Equipped([thread[t] EXCEPT !.pc = "ask", !.entry = None, !.hello = None])
  BY <1>1 DEF ThreadStates, CredentialPCs, Equipped, Is
<1> QED
  BY <1>2, IdleType DEF Failed

\* A hello: the receiver thread starts, the main thread goes on to remember the user.
LEMMA SendType ==
    ASSUME CredTypeOK, NEW t \in Threads, Send(t)
    PROVE  CredTypeOK'
<1>1. /\ t[1] \in Procs /\ thread[t] \in ThreadStates /\ Equipped(thread[t])
      /\ thread[t].pc = "send" /\ thread[t].url \in Urls
      /\ <<t[1], "wire">> \in Threads
  BY DEF Threads, Roles, CredTypeOK, Equipped, Send, Is
<1>2. snapshot' \in [Procs -> Snapshots]
  BY <1>1, LoadType DEF Send
<1> DEFINE server == Server[thread[t].url.host]
           token == IF Entry(t) = None THEN None ELSE Entry(t).token
           hello == Verdict(server, token)
           open == [thread[t] EXCEPT !.pc = "app", !.hello = [verdict |-> hello, token |-> token]]
<1>3. token \in StoredTokens \cup {None}
  BY EntryType DEF CredentialEntries
<1>4. CASE Starts(server) /\ hello # Refusal /\ thread' = [u \in Threads |->
                IF u = <<t[1], "wire">> THEN open
                ELSE IF u = t THEN [open EXCEPT !.pc = "remember"] ELSE thread[u]]
  <2>1. hello \in [user : Users, credential : {"oidc", "local", "open"}]
    <3>1. thread[t].url.host \in DOMAIN Server
      BY <1>1, CredentialsAssumption
    <3> HIDE DEF token
    <3> QED
      BY <1>3, <1>4, <3>1, VerdictType
  <2>2. [verdict |-> hello, token |-> token] \in Hellos
    <3> HIDE DEF hello, token
    <3> QED
      BY <1>3, <2>1 DEF Hellos
  <2>3. /\ open \in ThreadStates /\ Equipped(open)
        /\ [open EXCEPT !.pc = "remember"] \in ThreadStates
        /\ Equipped([open EXCEPT !.pc = "remember"])
    <3> DEFINE greeting == [verdict |-> hello, token |-> token]
    <3> HIDE DEF greeting
    <3> QED
      BY <1>1, <2>2 DEF ThreadStates, CredentialPCs, Equipped
  <2>4. thread' \in [Threads -> ThreadStates] /\ \A u \in Threads : Equipped(thread'[u])
    <3> HIDE DEF open
    <3> QED
      BY <1>1, <1>4, <2>3 DEF CredTypeOK
  <2> QED
    BY <1>2, <2>4 DEF CredTypeOK, Send
<1>5. CASE Goto(t, Failed(t))
  <2>1. thread' \in [Threads -> ThreadStates] /\ \A u \in Threads : Equipped(thread'[u])
    BY <1>1, <1>5, FailedType, GotoType DEF Is
  <2> QED
    BY <1>2, <2>1 DEF CredTypeOK, Send
<1> QED
  BY <1>4, <1>5 DEF Send

\* The entry a refresh makes: its token is the next one of the login, or the one it had.
LEMMA RefreshedEntry ==
    ASSUME CredTypeOK, NEW t \in Threads, Is(t, "refresh")
    PROVE  LET entry == thread[t].entry
               l == entry.refresh[1]
               next == IF issuer.rotates THEN live[l] + 1 ELSE live[l]
               tokens == Tokens(l, IF issuer.rotates THEN <<l, next>> ELSE None)
               made == EntryOf(tokens, entry.client, entry, time)
           IN  l \in DOMAIN live =>
                 /\ made \in CredentialEntries
                 /\ made.refresh = IF issuer.rotates THEN <<l, live[l] + 1>> ELSE entry.refresh
                 /\ Put(t, made, entry, "send") \in ThreadStates
                 /\ Equipped(Put(t, made, entry, "send"))
<1> DEFINE entry == thread[t].entry
           l == entry.refresh[1]
           next == IF issuer.rotates THEN live[l] + 1 ELSE live[l]
           tokens == Tokens(l, IF issuer.rotates THEN <<l, next>> ELSE None)
           made == EntryOf(tokens, entry.client, entry, time)
<1>1. /\ thread[t] \in ThreadStates /\ Equipped(thread[t]) /\ live \in Seq(Nat)
      /\ thread[t].pc = "refresh"
  BY DEF CredTypeOK, Is
<1>2. entry \in CredentialEntries /\ entry.refresh \in Nat \X Nat /\ entry # None /\ l \in Nat
  BY <1>1 DEF ThreadStates, Equipped, CredentialEntries
<1>3. entry.client \in [issuer : {ClientIssuer}] \cup {None}
  BY <1>2 DEF CredentialEntries
<1> SUFFICES ASSUME l \in DOMAIN live
             PROVE  /\ made \in CredentialEntries
                    /\ made.refresh = IF issuer.rotates THEN <<l, live[l] + 1>> ELSE entry.refresh
                    /\ Put(t, made, entry, "send") \in ThreadStates
                    /\ Equipped(Put(t, made, entry, "send"))
  OBVIOUS
<1>4. live[l] \in Nat
  BY <1>1
<1> DEFINE r == IF issuer.rotates THEN <<l, next>> ELSE None
<1>5. r \in (Nat \X Nat) \cup {None} /\ (issuer.rotates => r # None)
  BY <1>2, <1>4, CredentialsAssumption
<1>6. made \in CredentialEntries
      /\ made.refresh = IF r # None THEN r ELSE entry.refresh
  <2> HIDE DEF r, entry, l
  <2> USE <1>2, <1>3, <1>5
  <2>1. made = EntryOf(Tokens(l, r), entry.client, entry, time)
    BY DEF r
  <2> QED
    BY <2>1, EntryOfType
<1>7. made.refresh = IF issuer.rotates THEN <<l, live[l] + 1>> ELSE entry.refresh
  BY <1>5, <1>6
<1>8. made # None /\ made.refresh # None
  <2>1. made.refresh \in Nat \X Nat
    BY <1>2, <1>4, <1>7
  <2> QED
    BY <1>6, <2>1, CredentialsAssumption
<1>9. Put(t, made, entry, "send") \in ThreadStates /\ Equipped(Put(t, made, entry, "send"))
  <2> HIDE DEF made, entry
  <2> QED
    BY <1>1, <1>2, <1>6, <1>8 DEF Put, ThreadStates, CredentialPCs, Equipped
<1> QED
  BY <1>6, <1>7, <1>9

\* The refresh token a thread trades in is one of a login there was.
LoginsKnown ==
    \A t \in Threads : thread[t].entry # None /\ thread[t].entry.refresh # None =>
        thread[t].entry.refresh[1] \in DOMAIN live

\* A refresh changes the tokens of a login there was.
LEMMA RefreshType ==
    ASSUME CredTypeOK, LoginsKnown, NEW t \in Threads, Refresh(t)
    PROVE  CredTypeOK'
<1> DEFINE entry == thread[t].entry
           l == entry.refresh[1]
           next == IF issuer.rotates THEN live[l] + 1 ELSE live[l]
           tokens == Tokens(l, IF issuer.rotates THEN <<l, next>> ELSE None)
           made == EntryOf(tokens, entry.client, entry, time)
<1>1. /\ t[1] \in Procs /\ Is(t, "refresh") /\ live \in Seq(Nat) /\ l \in DOMAIN live
      /\ snapshot[t[1]] \in Snapshots
  BY DEF Threads, CredTypeOK, Refresh, LoginsKnown, Equipped, Is
<1>2. snapshot' \in [Procs -> Snapshots]
  BY <1>1, KeepType DEF Refresh
<1>3. /\ Goto(t, Put(t, made, entry, "send")) \/ Goto(t, Failed(t))
      /\ live' = [live EXCEPT ![l] = next] \/ live' = live
      /\ lost' = lost \cup {l} \/ lost' = lost
  BY DEF Refresh
<1>4. Put(t, made, entry, "send") \in ThreadStates /\ Equipped(Put(t, made, entry, "send"))
  BY <1>1, RefreshedEntry
<1>5. thread' \in [Threads -> ThreadStates] /\ \A u \in Threads : Equipped(thread'[u])
  <2> HIDE DEF made, entry
  <2> QED
    BY <1>1, <1>3, <1>4, FailedType, GotoType
<1>6. live' \in Seq(Nat)
  <2>1. next \in Nat
    BY <1>1
  <2>2. [live EXCEPT ![l] = next] \in Seq(Nat)
    BY <1>1, <2>1
  <2> QED
    BY <1>1, <1>3, <2>2
<1>7. lost' \subseteq Nat
  <2>1. l \in Nat
    BY <1>1
  <2> QED
    BY <1>3, <2>1 DEF CredTypeOK
<1> QED
  BY <1>2, <1>5, <1>6, <1>7 DEF CredTypeOK, Refresh

\* The remembered user is written into the entry, whose token stays.
LEMMA RememberType ==
    ASSUME CredTypeOK, NEW t \in Threads, RememberUser(t)
    PROVE  CredTypeOK'
<1>1. /\ t[1] \in Procs /\ thread[t] \in ThreadStates /\ Equipped(thread[t])
      /\ thread[t].pc = "remember" /\ thread[t].hello \in Hellos
  BY DEF Threads, CredTypeOK, RememberUser, Is, Equipped
<1>2. Entry(t) \in CredentialEntries \cup {None}
  BY EntryType
<1> DEFINE user == thread[t].hello.verdict.user
           named == [Entry(t) EXCEPT !.user = user]
<1>3. user \in Users
  BY <1>1 DEF Hellos
<1>4. PICK s \in ThreadStates : Equipped(s) /\ Goto(t, s)
  <2>1. /\ [thread[t] EXCEPT !.pc = "app", !.hello = None] \in ThreadStates
        /\ Equipped([thread[t] EXCEPT !.pc = "app", !.hello = None])
    BY <1>1 DEF ThreadStates, CredentialPCs, Equipped
  <2>2. ASSUME Entry(t) # None
        PROVE  /\ Put(t, named, Entry(t), "app") \in ThreadStates
               /\ Equipped(Put(t, named, Entry(t), "app"))
    <3>1. named \in CredentialEntries /\ named.refresh = Entry(t).refresh /\ named # None
      BY <1>2, <1>3, <2>2, CredentialsAssumption DEF CredentialEntries
    <3> HIDE DEF named
    <3> QED
      BY <1>1, <1>2, <2>2, <3>1 DEF Put, ThreadStates, CredentialPCs, Equipped
  <2>3. \/ Goto(t, [thread[t] EXCEPT !.pc = "app", !.hello = None])
        \/ Entry(t) # None /\ Goto(t, Put(t, named, Entry(t), "app"))
    BY DEF RememberUser
  <2> QED
    BY <2>1, <2>2, <2>3
<1>5. thread' \in [Threads -> ThreadStates] /\ \A u \in Threads : Equipped(thread'[u])
  BY <1>4, GotoType
<1>6. snapshot' \in [Procs -> Snapshots]
  BY <1>1, LoadType DEF RememberUser
<1>7. clash' \in BOOLEAN
  BY DEF RememberUser, CredTypeOK
<1> QED
  BY <1>5, <1>6, <1>7 DEF CredTypeOK, RememberUser

\* The three steps of a write.
LEMMA MergeType ==
    ASSUME CredTypeOK, NEW t \in Threads, Merge(t)
    PROVE  CredTypeOK'
<1>1. /\ t[1] \in Procs /\ thread[t] \in ThreadStates /\ Equipped(thread[t])
      /\ thread[t].pc = "merge" /\ thread[t].url \in Urls
  BY DEF Threads, CredTypeOK, Merge, Is, Equipped
<1> DEFINE entries == Loaded(t[1]).entries
           key == CredentialKey(thread[t].url)
           merged == With(entries, key, thread[t].entry)
<1>2. merged \in Files
  <2>1. entries \in Files /\ key \in Keys /\ thread[t].entry \in CredentialEntries \cup {None}
    BY <1>1, LoadedType, KeyOfUrl DEF Snapshots, ThreadStates
  <2> HIDE DEF entries, key
  <2> QED
    BY <2>1, WithFacts
<1>3. /\ [thread[t] EXCEPT !.pc = "write", !.entries = merged] \in ThreadStates
      /\ Equipped([thread[t] EXCEPT !.pc = "write", !.entries = merged])
  <2> HIDE DEF merged
  <2> QED
    BY <1>1, <1>2 DEF ThreadStates, CredentialPCs, Equipped
<1>4. Goto(t, Idle) \/ Goto(t, [thread[t] EXCEPT !.pc = "write", !.entries = merged])
  BY DEF Merge
<1>5. thread' \in [Threads -> ThreadStates] /\ \A u \in Threads : Equipped(thread'[u])
  <2> HIDE DEF merged
  <2> QED
    BY <1>3, <1>4, IdleType, GotoType
<1>6. snapshot' \in [Procs -> Snapshots]
  BY <1>1, LoadType DEF Merge
<1> QED
  BY <1>5, <1>6 DEF CredTypeOK, Merge

\* A thread replaces the file by what it merged.
LEMMA WriteType ==
    ASSUME CredTypeOK, NEW t \in Threads, Write(t)
    PROVE  CredTypeOK'
<1>1. thread[t] \in ThreadStates /\ Equipped(thread[t]) /\ thread[t].pc = "write"
  BY DEF CredTypeOK, Write, Is
<1>2. /\ [thread[t] EXCEPT !.pc = "stat"] \in ThreadStates
      /\ Equipped([thread[t] EXCEPT !.pc = "stat"])
  BY <1>1 DEF ThreadStates, CredentialPCs, Equipped
<1>3. thread' \in [Threads -> ThreadStates] /\ \A u \in Threads : Equipped(thread'[u])
  BY <1>2, GotoType DEF Write
<1>4. disk' \in Snapshots
  BY <1>1 DEF Write, CredTypeOK, Snapshots, ThreadStates
<1>5. clash' \in BOOLEAN
  BY DEF Write, CredTypeOK, Races
<1> QED
  BY <1>3, <1>4, <1>5 DEF CredTypeOK, Write

\* A thread keeps what it wrote under the stamp it sees.
LEMMA StatType ==
    ASSUME CredTypeOK, NEW t \in Threads, Stat(t)
    PROVE  CredTypeOK'
<1>1. /\ t[1] \in Procs /\ thread[t] \in ThreadStates /\ Equipped(thread[t])
      /\ thread[t].pc = "stat" /\ thread[t].url \in Urls
  BY DEF Threads, CredTypeOK, Stat, Is, Equipped
<1>2. ASSUME thread[t].after # "idle"
      PROVE  /\ [Idle EXCEPT !.pc = thread[t].after, !.url = thread[t].url] \in ThreadStates
             /\ Equipped([Idle EXCEPT !.pc = thread[t].after, !.url = thread[t].url])
  <2>1. thread[t].after \in {"send", "app"}
    BY <1>1, <1>2 DEF ThreadStates
  <2> QED
    BY <1>1, <2>1, FileFacts DEF Idle, ThreadStates, CredentialPCs, Equipped
<1>3. \E s \in ThreadStates : Equipped(s) /\ Goto(t, s)
  BY <1>2, IdleType DEF Stat
<1>4. thread' \in [Threads -> ThreadStates] /\ \A u \in Threads : Equipped(thread'[u])
  BY <1>3, GotoType
<1>5. snapshot' \in [Procs -> Snapshots]
  <2>1. [stamp |-> disk.stamp, entries |-> thread[t].entries] \in Snapshots
    BY <1>1 DEF CredTypeOK, Snapshots, ThreadStates
  <2> QED
    BY <1>1, <2>1, KeepType DEF Stat
<1> QED
  BY <1>4, <1>5 DEF CredTypeOK, Stat

\* A lost socket makes the receiver thread ask again.
LEMMA DropType ==
    ASSUME CredTypeOK, NEW p \in Procs, Drop(p)
    PROVE  CredTypeOK'
<1>1. /\ <<p, "wire">> \in Threads /\ thread[<<p, "wire">>] \in ThreadStates
      /\ Equipped(thread[<<p, "wire">>]) /\ thread[<<p, "wire">>].pc = "app"
  BY DEF Threads, Roles, CredTypeOK, Drop, Is
<1>2. /\ [thread[<<p, "wire">>] EXCEPT !.pc = "ask", !.hello = None] \in ThreadStates
      /\ Equipped([thread[<<p, "wire">>] EXCEPT !.pc = "ask", !.hello = None])
  BY <1>1 DEF ThreadStates, CredentialPCs, Equipped
<1>3. thread' \in [Threads -> ThreadStates] /\ \A u \in Threads : Equipped(thread'[u])
  BY <1>1, <1>2, GotoType DEF Drop
<1> QED
  BY <1>3 DEF CredTypeOK, Drop

\* The end of a process, at any point of its threads.
LEMMA EndType ==
    ASSUME CredTypeOK, NEW p \in Procs, End(p)
    PROVE  CredTypeOK'
<1>1. thread' \in [Threads -> ThreadStates] /\ \A u \in Threads : Equipped(thread'[u])
  BY IdleType DEF End, CredTypeOK
<1>2. snapshot' \in [Procs -> Snapshots]
  BY FreshType DEF End, CredTypeOK
<1>3. lost' \subseteq Nat
  <2>1. ASSUME NEW t \in Threads, thread[t].pc \in {"merge", "write"}, thread[t].after = "send",
               thread[t].entry.refresh # None
        PROVE  thread[t].entry.refresh[1] \in Nat
    <3>1. thread[t] \in ThreadStates /\ Equipped(thread[t])
      BY DEF CredTypeOK
    <3>2. thread[t].entry \in CredentialEntries
      BY <2>1, <3>1 DEF ThreadStates, Equipped
    <3> QED
      BY <2>1, <3>2 DEF CredentialEntries
  <2>2. {p} \X Roles \subseteq Threads
    BY DEF Threads
  <2> QED
    BY <2>1, <2>2 DEF End, CredTypeOK
<1> QED
  BY <1>1, <1>2, <1>3 DEF CredTypeOK, End

\* The initial states have the types.
LEMMA InitType == CredInit => CredTypeOK
<1> SUFFICES ASSUME CredInit PROVE CredTypeOK
  OBVIOUS
<1>1. snapshot \in [Procs -> Snapshots] /\ disk \in Snapshots
  BY FreshType DEF CredInit
<1>2. thread \in [Threads -> ThreadStates] /\ \A t \in Threads : Equipped(thread[t])
  BY IdleType DEF CredInit
<1>3. live \in Seq(Nat)
  BY DEF CredInit
<1> QED
  BY <1>1, <1>2, <1>3 DEF CredInit, CredTypeOK

-----------------------------------------------------------------------------
(* Which threads store what *)

RefreshOf(e) == IF e = None THEN None ELSE e.refresh
\* A thread with the newest token of a login, which it has not written yet.
Storing(state) ==
    state.pc \in {"merge", "write"} /\ state.after # "app" /\ RefreshOf(state.entry) # None

\* A thread that neither begins nor ends to store a token, and learns of none but
\* those of the file and its own.
Calm(u) ==
    \/ thread'[u] = thread[u]
    \/ /\ ~Storing(thread[u]) /\ ~Storing(thread'[u])
       /\ thread'[u].entries \in {<<>>, thread[u].entries}
       /\ \/ RefreshOf(thread'[u].entry) = None
          \/ /\ thread'[u].url = thread[u].url
             /\ RefreshOf(thread'[u].entry) \in {RefreshOf(thread[u].entry), RefreshOf(Entry(u))}
SnapshotsFollow ==
    \A p \in Procs :
        \/ snapshot'[p] \in {snapshot[p], Fresh, Loaded(p)}
        \/ \E u \in Threads : Is(u, "stat") /\ snapshot'[p].entries = thread[u].entries
CalmStep ==
    /\ UNCHANGED <<issuer, live, disk, lost>> /\ (clash => clash')
    /\ \A u \in Threads : Calm(u)
    /\ SnapshotsFollow

\* A kept snapshot is an old one, the file, or what its thread wrote.
LEMMA KeepFollows ==
    ASSUME CredTypeOK, NEW p \in Procs, NEW snap, Keep(p, snap),
           \/ snap \in {snapshot[p], Loaded(p)}
           \/ \E u \in Threads : Is(u, "stat") /\ snap.entries = thread[u].entries
    PROVE  SnapshotsFollow
BY DEF Keep, SnapshotsFollow, CredTypeOK

\* One thread moves calmly and the others stay.
LEMMA GotoCalm ==
    ASSUME CredTypeOK, NEW t \in Threads, NEW s, Goto(t, s),
           ~Storing(thread[t]), ~Storing(s), s.entries \in {<<>>, thread[t].entries},
           \/ RefreshOf(s.entry) = None
           \/ /\ s.url = thread[t].url
              /\ RefreshOf(s.entry) \in {RefreshOf(thread[t].entry), RefreshOf(Entry(t))}
    PROVE  \A u \in Threads : Calm(u)
BY DEF Goto, Calm, CredTypeOK

\* An idle thread stores nothing.
LEMMA IdleIsCalm == ~Storing(Idle) /\ Idle.entries = <<>> /\ RefreshOf(Idle.entry) = None
BY DEF Idle, Storing, RefreshOf

\* No command starts with a token: a pasted entry has none to refresh.
LEMMA CommandsCalm ==
    ASSUME CredTypeOK, NEW p \in Procs,
           AuthCommand(p) \/ \E url \in Urls : Connect(p, url)
    PROVE  CalmStep
<1>1. Main(p) \in Threads
  BY DEF Main, Threads, Roles
<1>2. PICK s \in ThreadStates :
         /\ Goto(Main(p), s) /\ ~Storing(s) /\ s.entries = <<>> /\ RefreshOf(s.entry) = None
         /\ UNCHANGED <<time, issuer, live, disk, snapshot, truth, clash, lost>>
         /\ thread[Main(p)].pc = "idle"
  <2>0. Free(p) => thread[Main(p)].pc = "idle"
    BY DEF Free, Is, Main, Roles
  <2>1. ASSUME NEW url \in Urls
        PROVE  LET s == [Idle EXCEPT !.pc = "merge", !.url = url] IN
               s \in ThreadStates /\ ~Storing(s) /\ s.entries = <<>> /\ RefreshOf(s.entry) = None
    BY FileFacts DEF Idle, ThreadStates, CredentialPCs, Storing, RefreshOf
  <2>2. ASSUME NEW url \in Urls
        PROVE  LET s == [Idle EXCEPT !.pc = "ask", !.url = url] IN
               s \in ThreadStates /\ ~Storing(s) /\ s.entries = <<>> /\ RefreshOf(s.entry) = None
    BY FileFacts DEF Idle, ThreadStates, CredentialPCs, Storing, RefreshOf
  <2>3. ASSUME NEW url \in Urls
        PROVE  LET s == [Idle EXCEPT !.pc = "browser", !.url = url] IN
               s \in ThreadStates /\ ~Storing(s) /\ s.entries = <<>> /\ RefreshOf(s.entry) = None
    BY FileFacts DEF Idle, ThreadStates, CredentialPCs, Storing, RefreshOf
  <2>4. ASSUME NEW url \in Urls, NEW e \in Pasted
        PROVE  LET s == [Idle EXCEPT !.pc = "merge", !.url = url, !.entry = e] IN
               s \in ThreadStates /\ ~Storing(s) /\ s.entries = <<>> /\ RefreshOf(s.entry) = None
    <3>1. e \in CredentialEntries /\ e.refresh = None
      BY CredentialsAssumption
    <3> QED
      BY <3>1, FileFacts DEF Idle, ThreadStates, CredentialPCs, Storing, RefreshOf
  <2>5. CASE \E url \in Urls : Logout(p, url) \/ Connect(p, url)
    BY <2>0, <2>1, <2>2, <2>5, Zenon DEF Logout, Connect
  <2>6. CASE \E url \in Urls, insecure \in BOOLEAN :
               LoginBrowser(p, url, insecure) \/ \E e \in Pasted : LoginPasted(p, url, insecure, e)
    BY <2>0, <2>3, <2>4, <2>6, Zenon DEF LoginBrowser, LoginPasted
  <2> QED
    BY <2>5, <2>6, Zenon DEF AuthCommand
<1>3. ~Storing(thread[Main(p)])
  BY <1>2 DEF Storing
<1>4. \A u \in Threads : Calm(u)
  BY <1>1, <1>2, <1>3, GotoCalm
<1> QED
  BY <1>2, <1>4 DEF CalmStep, SnapshotsFollow, CredTypeOK

\* The answer of the browser brings a code, no token.
LEMMA CallbackCalm ==
    ASSUME CredTypeOK, NEW p \in Procs, Callback(p)
    PROVE  CalmStep
<1>1. Main(p) \in Threads /\ thread[Main(p)].pc = "browser" /\ thread[Main(p)] \in ThreadStates
  BY DEF Main, Threads, Roles, Callback, Is, CredTypeOK
<1>2. SnapshotsFollow
  BY KeepFollows DEF Callback
<1> DEFINE s == [thread[Main(p)] EXCEPT !.pc = "exchange"]
<1>3. ~Storing(thread[Main(p)]) /\ ~Storing(s) /\ s.entries = thread[Main(p)].entries
      /\ s.url = thread[Main(p)].url /\ s.entry = thread[Main(p)].entry
  BY <1>1 DEF Storing, ThreadStates
<1>4. Goto(Main(p), s) \/ Goto(Main(p), Idle)
  BY DEF Callback
<1>5. \A u \in Threads : Calm(u)
  <2> HIDE DEF s
  <2> QED
    BY <1>1, <1>3, <1>4, IdleIsCalm, GotoCalm
<1> QED
  BY <1>2, <1>5 DEF CalmStep, Callback

\* A thread that asks takes its entry from the file.
LEMMA AskCalm ==
    ASSUME CredTypeOK, NEW t \in Threads, Ask(t)
    PROVE  CalmStep
<1>1. t[1] \in Procs /\ thread[t].pc = "ask" /\ thread[t] \in ThreadStates
  BY DEF Threads, Ask, Is, CredTypeOK
<1>2. SnapshotsFollow
  BY <1>1, KeepFollows DEF Ask, Load
<1> DEFINE s == [thread[t] EXCEPT !.pc = "refresh", !.entry = Entry(t)]
           r == [thread[t] EXCEPT !.pc = "send"]
<1>3. /\ ~Storing(thread[t]) /\ ~Storing(s) /\ ~Storing(r)
      /\ s.entries = thread[t].entries /\ r.entries = thread[t].entries
      /\ s.url = thread[t].url /\ r.url = thread[t].url
      /\ s.entry = Entry(t) /\ r.entry = thread[t].entry
  BY <1>1 DEF Storing, ThreadStates
<1>4. Goto(t, s) \/ Goto(t, r)
  BY DEF Ask
<1>5. \A u \in Threads : Calm(u)
  <2> HIDE DEF s, r
  <2> QED
    BY <1>3, <1>4, GotoCalm
<1> QED
  BY <1>2, <1>5 DEF CalmStep, Ask

\* A failed attempt leaves nothing to store.
LEMMA FailedIsCalm ==
    ASSUME CredTypeOK, NEW t \in Threads
    PROVE  /\ ~Storing(Failed(t)) /\ RefreshOf(Failed(t).entry) = None
           /\ Failed(t).entries \in {<<>>, thread[t].entries}
<1>1. thread[t] \in ThreadStates
  BY DEF CredTypeOK
<1> QED
  BY <1>1, IdleIsCalm DEF Failed, Storing, RefreshOf, ThreadStates

\* A hello stores nothing, if the receiver thread is not running yet.
LEMMA SendCalm ==
    ASSUME CredTypeOK, NEW t \in Threads, Send(t),
           t[2] = "main" => thread[<<t[1], "wire">>].pc = "idle"
    PROVE  CalmStep
<1>1. /\ t[1] \in Procs /\ thread[t].pc = "send" /\ thread[t] \in ThreadStates
      /\ <<t[1], "wire">> \in Threads
      /\ t = <<t[1], "wire">> \/ t[2] = "main"
  BY DEF Threads, Roles, Send, Is, CredTypeOK
<1>2. SnapshotsFollow
  BY <1>1, KeepFollows DEF Send, Load
<1> DEFINE server == Server[thread[t].url.host]
           token == IF Entry(t) = None THEN None ELSE Entry(t).token
           hello == Verdict(server, token)
           open == [thread[t] EXCEPT !.pc = "app", !.hello = [verdict |-> hello, token |-> token]]
<1>3. /\ open.entries = thread[t].entries /\ open.entry = thread[t].entry
      /\ open.url = thread[t].url /\ open.pc = "app"
      /\ [open EXCEPT !.pc = "remember"].entries = thread[t].entries
      /\ [open EXCEPT !.pc = "remember"].entry = thread[t].entry
      /\ [open EXCEPT !.pc = "remember"].url = thread[t].url
      /\ [open EXCEPT !.pc = "remember"].pc = "remember"
  BY <1>1 DEF ThreadStates
<1>4. CASE Goto(t, Failed(t))
  <2>1. \A u \in Threads : Calm(u)
    BY <1>1, <1>4, FailedIsCalm, GotoCalm DEF Storing
  <2> QED
    BY <1>2, <2>1 DEF CalmStep, Send
<1>5. CASE thread' = [u \in Threads |-> IF u = <<t[1], "wire">> THEN open
                        ELSE IF u = t THEN [open EXCEPT !.pc = "remember"] ELSE thread[u]]
  <2> HIDE DEF open
  <2>1. thread[t].entry = None /\ thread[t].entries = <<>>
    BY <1>1 DEF CredTypeOK, Equipped
  <2>2. ~Storing(thread[<<t[1], "wire">>])
    <3>1. thread[<<t[1], "wire">>].pc \in {"idle", "send"}
      BY <1>1
    <3> QED
      BY <3>1 DEF Storing
  <2>3. ASSUME NEW u \in Threads
        PROVE  Calm(u)
    <3>1. CASE u = <<t[1], "wire">>
      <4>1. thread'[u] = open
        BY <1>5, <3>1
      <4> QED
        BY <1>3, <2>1, <2>2, <3>1, <4>1 DEF Calm, Storing, RefreshOf
    <3>2. CASE u # <<t[1], "wire">> /\ u = t
      <4>1. thread'[u] = [open EXCEPT !.pc = "remember"]
        BY <1>5, <3>2
      <4> QED
        BY <1>1, <1>3, <2>1, <3>2, <4>1 DEF Calm, Storing, RefreshOf
    <3>3. CASE u # <<t[1], "wire">> /\ u # t
      BY <1>5, <3>3 DEF Calm
    <3> QED
      BY <3>1, <3>2, <3>3
  <2> QED
    BY <1>2, <2>3 DEF CalmStep, Send
<1> QED
  BY <1>4, <1>5 DEF Send

\* Remembering a user keeps the refresh token of the entry.
LEMMA RememberCalm ==
    ASSUME CredTypeOK, NEW t \in Threads, RememberUser(t)
    PROVE  CalmStep
<1>1. t[1] \in Procs /\ thread[t].pc = "remember" /\ thread[t] \in ThreadStates
  BY DEF Threads, RememberUser, Is, CredTypeOK
<1>2. SnapshotsFollow
  BY <1>1, KeepFollows DEF RememberUser, Load
<1>3. Entry(t) \in CredentialEntries \cup {None}
  BY EntryType
<1> DEFINE named == [Entry(t) EXCEPT !.user = thread[t].hello.verdict.user]
           s == [thread[t] EXCEPT !.pc = "app", !.hello = None]
           r == Put(t, named, Entry(t), "app")
<1>4. /\ ~Storing(thread[t]) /\ ~Storing(s) /\ ~Storing(r)
      /\ s.entries = thread[t].entries /\ r.entries = thread[t].entries
      /\ s.url = thread[t].url /\ r.url = thread[t].url
      /\ s.entry = thread[t].entry /\ r.entry = named
  BY <1>1 DEF Storing, ThreadStates, Put
<1>5. Entry(t) # None => RefreshOf(named) = RefreshOf(Entry(t))
  <2> SUFFICES ASSUME Entry(t) # None PROVE RefreshOf(named) = RefreshOf(Entry(t))
    OBVIOUS
  <2>1. named.refresh = Entry(t).refresh /\ named \in CredentialEntries
    <3>1. thread[t].hello \in Hellos
      BY <1>1 DEF CredTypeOK, Equipped
    <3> QED
      BY <1>3, <3>1 DEF CredentialEntries, Hellos
  <2> QED
    BY <2>1, CredentialsAssumption DEF RefreshOf
<1>6. Goto(t, s) \/ (Entry(t) # None /\ Goto(t, r))
  BY DEF RememberUser
<1>7. \A u \in Threads : Calm(u)
  <2> HIDE DEF s, r, named
  <2> QED
    BY <1>4, <1>5, <1>6, GotoCalm
<1> QED
  BY <1>2, <1>7 DEF CalmStep, RememberUser

\* After its write a thread stores nothing more.
LEMMA StatCalm ==
    ASSUME CredTypeOK, NEW t \in Threads, Stat(t)
    PROVE  CalmStep
<1>1. t[1] \in Procs /\ thread[t].pc = "stat" /\ thread[t] \in ThreadStates
  BY DEF Threads, Stat, Is, CredTypeOK
<1>2. SnapshotsFollow
  BY <1>1, KeepFollows DEF Stat
<1> DEFINE s == [Idle EXCEPT !.pc = thread[t].after, !.url = thread[t].url]
<1>3. ~Storing(thread[t]) /\ ~Storing(s) /\ s.entries = <<>> /\ RefreshOf(s.entry) = None
  BY <1>1 DEF Storing, ThreadStates, Idle, RefreshOf
<1>4. \A u \in Threads : Calm(u)
  <2>1. Goto(t, s) \/ Goto(t, Idle)
    BY DEF Stat
  <2> HIDE DEF s
  <2> QED
    BY <1>3, <2>1, IdleIsCalm, GotoCalm
<1> QED
  BY <1>2, <1>4 DEF CalmStep, Stat

\* A lost socket changes no token.
LEMMA DropCalm ==
    ASSUME CredTypeOK, NEW p \in Procs, Drop(p)
    PROVE  CalmStep
<1> DEFINE t == <<p, "wire">>
           s == [thread[t] EXCEPT !.pc = "ask", !.hello = None]
<1>1. t \in Threads /\ thread[t].pc = "app" /\ thread[t] \in ThreadStates
  BY DEF Threads, Roles, Drop, Is, CredTypeOK
<1>2. /\ ~Storing(thread[t]) /\ ~Storing(s) /\ s.entries = thread[t].entries
      /\ s.url = thread[t].url /\ s.entry = thread[t].entry
  BY <1>1 DEF Storing, ThreadStates
<1>3. Goto(t, s)
  BY DEF Drop
<1>4. \A u \in Threads : Calm(u)
  <2> HIDE DEF s, t
  <2> QED
    BY <1>1, <1>2, <1>3, GotoCalm
<1> QED
  BY <1>4 DEF CalmStep, SnapshotsFollow, Drop, CredTypeOK

\* Time changes no token.
LEMMA TickCalm ==
    ASSUME CredTypeOK, CredTick
    PROVE  CalmStep
BY DEF CredTick, CalmStep, Calm, SnapshotsFollow

\* An exchange the issuer refused, and a delete of what is not there.
LEMMA NothingObtainedCalm ==
    ASSUME CredTypeOK, NEW p \in Procs, Exchange(p), UNCHANGED live
    PROVE  CalmStep
<1>1. /\ Main(p) \in Threads /\ thread[Main(p)].pc = "exchange"
      /\ thread[Main(p)] \in ThreadStates /\ live \in Seq(Nat)
  BY DEF Main, Threads, Roles, Exchange, Is, CredTypeOK
<1>2. SnapshotsFollow
  BY KeepFollows DEF Exchange
<1>3. Goto(Main(p), Idle)
  <2>1. live' = Append(live, 0) \/ Goto(Main(p), Idle)
    BY Zenon DEF Exchange
  <2>2. Append(live, 0) # live
    <3>1. Len(Append(live, 0)) = Len(live) + 1 /\ Len(live) \in Nat
      BY <1>1
    <3> QED
      BY <3>1
  <2> QED
    BY <2>1, <2>2
<1>4. \A u \in Threads : Calm(u)
  BY <1>1, <1>3, IdleIsCalm, GotoCalm DEF Storing
<1> QED
  BY <1>2, <1>4 DEF CalmStep, Exchange

\* A delete of an entry that is not there ends the command.
LEMMA NothingDeletedCalm ==
    ASSUME CredTypeOK, NEW t \in Threads, Merge(t), Goto(t, Idle)
    PROVE  CalmStep
<1>1. t[1] \in Procs /\ thread[t].pc = "merge" /\ thread[t] \in ThreadStates
      /\ thread'[t] = Idle
  BY DEF Threads, Merge, Is, CredTypeOK, Goto
<1>2. SnapshotsFollow
  BY <1>1, KeepFollows DEF Merge, Load
<1>3. thread[t].entry = None
  <2> DEFINE s == [thread[t] EXCEPT !.pc = "write",
                     !.entries = With(Loaded(t[1]).entries, CredentialKey(thread[t].url), thread[t].entry)]
  <2>1. thread[t].entry = None \/ Goto(t, s)
    BY DEF Merge
  <2>2. s.pc = "write" /\ Idle.pc = "idle"
    BY <1>1 DEF ThreadStates, Idle
  <2> QED
    BY <1>1, <2>1, <2>2 DEF Goto, CredTypeOK
<1>4. \A u \in Threads : Calm(u)
  BY <1>3, IdleIsCalm, GotoCalm DEF Storing, RefreshOf
<1> QED
  BY <1>2, <1>4 DEF CalmStep, Merge

-----------------------------------------------------------------------------
(* The receiver thread *)

\* The receiver thread of a process runs once its main thread has opened the socket.
Opened(main) ==
    \/ main.pc \in {"remember", "app"}
    \/ main.pc \in {"merge", "write", "stat"} /\ main.after = "app"
WireInv ==
    \A p \in Procs : thread[<<p, "wire">>].pc # "idle" => Opened(thread[<<p, "main">>])

\* A step of one thread that starts no receiver thread and ends no opened main thread.
LEMMA WireKept ==
    ASSUME CredTypeOK, WireInv, NEW t \in Threads, NEW s, Goto(t, s),
           t[2] = "main" /\ Opened(thread[t]) => Opened(s),
           t[2] = "wire" => thread[t].pc # "idle"
    PROVE  WireInv'
<1> SUFFICES ASSUME NEW p \in Procs, thread'[<<p, "wire">>].pc # "idle"
             PROVE  Opened(thread'[<<p, "main">>])
  BY DEF WireInv, Opened
<1>1. <<p, "wire">> \in Threads /\ <<p, "main">> \in Threads
  BY DEF Threads, Roles
<1>2. thread' = [thread EXCEPT ![t] = s]
  BY DEF Goto
<1>3. CASE t = <<p, "wire">>
  <2>1. t # <<p, "main">> /\ t[2] = "wire"
    BY <1>3
  <2>2. Opened(thread[<<p, "main">>])
    BY <1>3, <2>1 DEF WireInv
  <2>3. thread'[<<p, "main">>] = thread[<<p, "main">>]
    BY <1>1, <1>2, <2>1 DEF CredTypeOK
  <2> QED
    BY <2>2, <2>3
<1>4. CASE t # <<p, "wire">>
  <2>1. thread'[<<p, "wire">>] = thread[<<p, "wire">>]
    BY <1>1, <1>2, <1>4 DEF CredTypeOK
  <2>2. Opened(thread[<<p, "main">>])
    BY <2>1 DEF WireInv
  <2>3. CASE t = <<p, "main">>
    <3>1. thread'[<<p, "main">>] = s /\ t[2] = "main"
      BY <1>1, <1>2, <2>3 DEF CredTypeOK
    <3> QED
      BY <2>2, <2>3, <3>1
  <2>4. CASE t # <<p, "main">>
    <3>1. thread'[<<p, "main">>] = thread[<<p, "main">>]
      BY <1>1, <1>2, <2>4 DEF CredTypeOK
    <3> QED
      BY <2>2, <3>1
  <2> QED
    BY <2>3, <2>4
<1> QED
  BY <1>3, <1>4

\* A receiver thread runs only beside a main thread that has opened the socket.
LEMMA WireHolds ==
    ASSUME CredTypeOK, WireInv, [CredNext]_credVars
    PROVE  WireInv'
<1>1. ASSUME NEW p \in Procs, AuthCommand(p) \/ \E url \in Urls : Connect(p, url)
      PROVE  WireInv'
  <2>1. Main(p) \in Threads /\ Main(p)[2] = "main"
    BY DEF Main, Threads, Roles
  <2>2. Free(p) /\ \E s : Goto(Main(p), s)
    BY <1>1, Zenon DEF AuthCommand, Connect, Logout, LoginBrowser, LoginPasted
  <2>3. ~Opened(thread[Main(p)])
    BY <2>2 DEF Free, Is, Main, Roles, Opened
  <2> QED
    BY <2>1, <2>2, <2>3, WireKept
<1>2. ASSUME NEW p \in Procs, Callback(p) \/ Exchange(p)
      PROVE  WireInv'
  <2>1. Main(p) \in Threads /\ Main(p)[2] = "main"
    BY DEF Main, Threads, Roles
  <2>2. thread[Main(p)].pc \in {"browser", "exchange"} /\ \E s : Goto(Main(p), s)
    BY <1>2 DEF Callback, Exchange, Is
  <2>3. ~Opened(thread[Main(p)])
    BY <2>2 DEF Opened
  <2> QED
    BY <2>1, <2>2, <2>3, WireKept
<1>3. ASSUME NEW t \in Threads, Ask(t) \/ Refresh(t)
      PROVE  WireInv'
  <2>1. thread[t].pc \in {"ask", "refresh"} /\ \E s : Goto(t, s)
    BY <1>3 DEF Ask, Refresh, Is
  <2>2. ~Opened(thread[t])
    BY <2>1 DEF Opened
  <2> QED
    BY <2>1, <2>2, WireKept
<1>4. ASSUME NEW t \in Threads, Send(t)
      PROVE  WireInv'
  <2>1. thread[t].pc = "send" /\ ~Opened(thread[t])
    BY <1>4 DEF Send, Is, Opened
  <2>2. CASE Goto(t, Failed(t))
    BY <2>1, <2>2, WireKept
  <2>3. CASE ~Goto(t, Failed(t))
    <3> DEFINE token == IF Entry(t) = None THEN None ELSE Entry(t).token
               hello == Verdict(Server[thread[t].url.host], token)
               open == [thread[t] EXCEPT !.pc = "app", !.hello = [verdict |-> hello, token |-> token]]
    <3>1. thread' = [u \in Threads |->
                IF u = <<t[1], "wire">> THEN open
                ELSE IF u = t THEN [open EXCEPT !.pc = "remember"] ELSE thread[u]]
      BY <1>4, <2>3 DEF Send
    <3>2. [open EXCEPT !.pc = "remember"].pc = "remember"
      BY DEF CredTypeOK, ThreadStates
    <3> HIDE DEF open
    <3> SUFFICES ASSUME NEW p \in Procs, thread'[<<p, "wire">>].pc # "idle"
                 PROVE  Opened(thread'[<<p, "main">>])
      BY DEF WireInv, Opened
    <3>3. <<p, "wire">> \in Threads /\ <<p, "main">> \in Threads
      BY DEF Threads, Roles
    <3>4. CASE t = <<p, "main">>
      <4>1. thread'[<<p, "main">>] = [open EXCEPT !.pc = "remember"]
        BY <3>1, <3>3, <3>4
      <4> QED
        BY <3>2, <4>1 DEF Opened
    <3>5. CASE t # <<p, "main">>
      <4>1. thread'[<<p, "main">>] = thread[<<p, "main">>]
        BY <3>1, <3>3, <3>5
      <4>2. thread[<<p, "wire">>].pc # "idle"
        <5>1. CASE t = <<p, "wire">>
          BY <2>1, <5>1
        <5>2. CASE t # <<p, "wire">>
          <6>1. t[1] # p
            BY <3>5, <5>2 DEF Threads, Roles
          <6>2. thread'[<<p, "wire">>] = thread[<<p, "wire">>]
            BY <3>1, <3>3, <5>2, <6>1
          <6> QED
            BY <6>2
        <5> QED
          BY <5>1, <5>2
      <4>3. Opened(thread[<<p, "main">>])
        BY <4>2 DEF WireInv
      <4> QED
        BY <4>1, <4>3
    <3> QED
      BY <3>4, <3>5
  <2> QED
    BY <2>2, <2>3
<1>5. ASSUME NEW t \in Threads, RememberUser(t)
      PROVE  WireInv'
  <2>1. PICK s : Goto(t, s) /\ Opened(s)
    <3>1. thread[t] \in ThreadStates
      BY DEF CredTypeOK
    <3>2. \A user : Opened(Put(t, [Entry(t) EXCEPT !.user = user], Entry(t), "app"))
      BY <3>1 DEF Put, Opened, ThreadStates
    <3>3. Opened([thread[t] EXCEPT !.pc = "app", !.hello = None])
      BY <3>1 DEF Opened, ThreadStates
    <3> QED
      BY <1>5, <3>2, <3>3, Zenon DEF RememberUser
  <2>2. thread[t].pc # "idle"
    BY <1>5 DEF RememberUser, Is
  <2> QED
    BY <2>1, <2>2, WireKept
<1>6. ASSUME NEW t \in Threads, Merge(t) \/ Write(t) \/ Stat(t)
      PROVE  WireInv'
  <2>1. thread[t] \in ThreadStates /\ Equipped(thread[t])
    BY DEF CredTypeOK
  <2>2. thread[t].pc \in {"merge", "write", "stat"}
    BY <1>6 DEF Merge, Write, Stat, Is
  <2>3. PICK s : Goto(t, s) /\ (thread[t].after = "app" => Opened(s))
    <3>1. CASE Merge(t)
      <4>1. thread[t].after = "app" => thread[t].entry # None
        BY <2>1, <3>1 DEF Merge, Is, Equipped
      <4>2. \A F : thread[t].after = "app" =>
                     Opened([thread[t] EXCEPT !.pc = "write", !.entries = F])
        BY <2>1 DEF Opened, ThreadStates
      <4> QED
        BY <3>1, <4>1, <4>2, Zenon DEF Merge
    <3>2. CASE Write(t)
      BY <2>1, <3>2 DEF Write, Opened, ThreadStates
    <3>3. CASE Stat(t)
      <4>1. \A url : Opened([Idle EXCEPT !.pc = "app", !.url = url])
        BY DEF Opened, Idle
      <4>2. thread[t].after = "app" =>
              Goto(t, [Idle EXCEPT !.pc = "app", !.url = thread[t].url])
        BY <3>3 DEF Stat
      <4>3. \E s : Goto(t, s)
        BY <3>3 DEF Stat
      <4> QED
        BY <4>1, <4>2, <4>3
    <3> QED
      BY <1>6, <3>1, <3>2, <3>3
  <2>4. Opened(thread[t]) => thread[t].after = "app"
    BY <2>2 DEF Opened
  <2> QED
    BY <2>2, <2>3, <2>4, WireKept
<1>7. ASSUME NEW p \in Procs, Drop(p)
      PROVE  WireInv'
  <2>1. <<p, "wire">> \in Threads /\ <<p, "wire">>[2] = "wire" /\ thread[<<p, "wire">>].pc # "idle"
    BY <1>7 DEF Threads, Roles, Drop, Is
  <2>2. \E s : Goto(<<p, "wire">>, s)
    BY <1>7 DEF Drop
  <2> QED
    BY <2>1, <2>2, WireKept
<1>8. ASSUME NEW p \in Procs, End(p)
      PROVE  WireInv'
  <2> SUFFICES ASSUME NEW q \in Procs, thread'[<<q, "wire">>].pc # "idle"
               PROVE  Opened(thread'[<<q, "main">>])
    BY DEF WireInv, Opened
  <2>1. <<q, "wire">> \in Threads /\ <<q, "main">> \in Threads
    BY DEF Threads, Roles
  <2>2. q # p
    BY <1>8, <2>1 DEF End, Idle
  <2>3. thread'[<<q, "wire">>] = thread[<<q, "wire">>] /\ thread'[<<q, "main">>] = thread[<<q, "main">>]
    BY <1>8, <2>1, <2>2 DEF End
  <2> QED
    BY <2>3 DEF WireInv
<1>9. CASE CredTick \/ UNCHANGED credVars
  BY <1>9 DEF CredTick, credVars, WireInv, Opened
<1> QED
  BY <1>1, <1>2, <1>3, <1>4, <1>5, <1>6, <1>7, <1>8, <1>9 DEF CredNext

-----------------------------------------------------------------------------
(* The file is what was written *)

\* The key of the entry a thread works on.
KeyAt(t) == CredentialKey(thread[t].url)

\* A stamp names one content of the file, and without a clash a thread that writes has
\* seen the last write and the file is what all writes amount to.
StampInv ==
    /\ disk.stamp = 0 => disk.entries = <<>>
    /\ \A p \in Procs :
         /\ snapshot[p].stamp <= disk.stamp
         /\ snapshot[p].stamp = 0 => snapshot[p].entries = <<>>
    /\ \A t \in Threads : Is(t, "stat") => disk.stamp > 0
FilesInv ==
    /\ StampInv
    /\ ~clash =>
         /\ disk.entries = truth
         /\ \A p \in Procs :
              snapshot[p].stamp = disk.stamp => snapshot[p].entries = disk.entries
         /\ \A t \in Threads :
              /\ Is(t, "stat") => thread[t].entries = disk.entries
              /\ Is(t, "write") =>
                   thread[t].entries = With(disk.entries, KeyAt(t), thread[t].entry)

\* Whoever loads has the file as it is.
LEMMA LoadedIsDisk ==
    ASSUME CredTypeOK, FilesInv, ~clash, NEW p \in Procs
    PROVE  Loaded(p).entries = disk.entries
<1>1. disk.stamp \in Nat /\ snapshot[p].stamp \in Nat
  BY DEF CredTypeOK, Snapshots
<1>2. CASE disk.stamp = 0
  <2>1. snapshot[p].stamp = disk.stamp
    BY <1>1, <1>2 DEF FilesInv, StampInv
  <2> QED
    BY <1>2, <2>1 DEF FilesInv, Loaded
<1>3. CASE disk.stamp # 0
  BY <1>3 DEF FilesInv, Loaded
<1> QED
  BY <1>2, <1>3

\* A snapshot a step took over from the file or the process.
LEMMA SnapshotsFresh ==
    ASSUME CredTypeOK, FilesInv, UNCHANGED disk,
           \A p \in Procs : snapshot'[p] \in {snapshot[p], Fresh, Loaded(p)}
    PROVE  \A p \in Procs :
             /\ snapshot'[p].stamp <= disk'.stamp
             /\ snapshot'[p].stamp = 0 => snapshot'[p].entries = <<>>
             /\ ~clash /\ snapshot'[p].stamp = disk'.stamp => snapshot'[p].entries = disk'.entries
<1> SUFFICES ASSUME NEW p \in Procs
             PROVE  /\ snapshot'[p].stamp <= disk.stamp
                    /\ snapshot'[p].stamp = 0 => snapshot'[p].entries = <<>>
                    /\ ~clash /\ snapshot'[p].stamp = disk.stamp =>
                         snapshot'[p].entries = disk.entries
  OBVIOUS
<1>1. disk.stamp \in Nat
  BY DEF CredTypeOK, Snapshots
<1>2. CASE snapshot'[p] = snapshot[p]
  BY <1>2 DEF FilesInv, StampInv
<1>3. CASE snapshot'[p] = Fresh
  BY <1>1, <1>3 DEF FilesInv, StampInv, Fresh
<1>4. CASE snapshot'[p] = Loaded(p)
  <2>1. Loaded(p) = snapshot[p] \/ Loaded(p) = disk
    BY LoadedType
  <2>2. CASE Loaded(p) = snapshot[p]
    BY <1>4, <2>2 DEF FilesInv, StampInv
  <2>3. CASE Loaded(p) = disk
    BY <1>1, <1>4, <2>3 DEF FilesInv, StampInv
  <2> QED
    BY <2>1, <2>2, <2>3
<1> QED
  BY <1>2, <1>3, <1>4

\* A step that neither reads to write nor writes.
LEMMA FilesKept ==
    ASSUME CredTypeOK, FilesInv, UNCHANGED <<disk, truth>>, clash => clash',
           \A p \in Procs : snapshot'[p] \in {snapshot[p], Fresh, Loaded(p)},
           \A u \in Threads : thread'[u] = thread[u] \/ thread'[u].pc \notin {"write", "stat"}
    PROVE  FilesInv'
<1>1. StampInv'
  <2>1. \A u \in Threads : Is(u, "stat")' => disk.stamp > 0
    BY DEF Is, FilesInv, StampInv
  <2> QED
    BY <2>1, SnapshotsFresh DEF FilesInv, StampInv
<1>2. ASSUME ~clash'
      PROVE  /\ disk'.entries = truth'
             /\ \A p \in Procs :
                  snapshot'[p].stamp = disk'.stamp => snapshot'[p].entries = disk'.entries
             /\ \A t \in Threads :
                  /\ thread'[t].pc = "stat" => thread'[t].entries = disk'.entries
                  /\ thread'[t].pc = "write" =>
                       thread'[t].entries =
                         With(disk'.entries, CredentialKey(thread'[t].url), thread'[t].entry)
  BY <1>2, SnapshotsFresh DEF FilesInv, Is, KeyAt
<1> QED
  BY <1>1, <1>2 DEF FilesInv, Is, KeyAt

\* A kept snapshot, for all processes at once.
LEMMA KeepsFresh ==
    ASSUME CredTypeOK, NEW p \in Procs, NEW snap \in {snapshot[p], Loaded(p)}, Keep(p, snap)
    PROVE  \A q \in Procs : snapshot'[q] \in {snapshot[q], Fresh, Loaded(q)}
BY DEF Keep, CredTypeOK

\* The steps that do not touch the file.
LEMMA ReadersKeepFiles ==
    ASSUME CredTypeOK, FilesInv,
           \/ \E t \in Threads : Ask(t) \/ Refresh(t) \/ Send(t) \/ RememberUser(t)
           \/ \E p \in Procs : AuthCommand(p) \/ Callback(p) \/ Exchange(p) \/ Drop(p) \/ End(p)
           \/ \E p \in Procs, url \in Urls : Connect(p, url)
           \/ CredTick
    PROVE  FilesInv'
<1>1. UNCHANGED <<disk, truth>> /\ (clash => clash')
  <2>1. UNCHANGED <<disk, truth>> /\ (UNCHANGED clash \/ \E t \in Threads : RememberUser(t))
    BY Zenon DEF Ask, Refresh, Send, RememberUser, AuthCommand, Logout, LoginBrowser,
                 LoginPasted, Callback, Exchange, Drop, End, Connect, CredTick
  <2>2. ASSUME NEW t \in Threads, RememberUser(t)
        PROVE  clash => clash'
    BY <2>2 DEF RememberUser
  <2> QED
    BY <2>1, <2>2
<1>2. \A p \in Procs : snapshot'[p] \in {snapshot[p], Fresh, Loaded(p)}
  <2>1. ASSUME NEW t \in Threads, Ask(t) \/ Refresh(t) \/ Send(t) \/ RememberUser(t)
        PROVE  \A p \in Procs : snapshot'[p] \in {snapshot[p], Fresh, Loaded(p)}
    <3>1. t[1] \in Procs
      BY Zenon DEF Threads
    <3>2. Keep(t[1], Loaded(t[1])) \/ Keep(t[1], snapshot[t[1]])
      BY <2>1 DEF Ask, Refresh, Send, RememberUser, Load
    <3> QED
      BY <3>1, <3>2, KeepsFresh
  <2>2. ASSUME NEW p \in Procs, Callback(p) \/ Exchange(p)
        PROVE  \A q \in Procs : snapshot'[q] \in {snapshot[q], Fresh, Loaded(q)}
    BY <2>2, KeepsFresh DEF Callback, Exchange
  <2>3. ASSUME NEW p \in Procs, End(p)
        PROVE  \A q \in Procs : snapshot'[q] \in {snapshot[q], Fresh, Loaded(q)}
    BY <2>3 DEF End, CredTypeOK
  <2>4. ASSUME NEW p \in Procs, AuthCommand(p) \/ Drop(p) \/ \E url \in Urls : Connect(p, url)
        PROVE  UNCHANGED snapshot
    BY <2>4, Zenon DEF AuthCommand, Logout, LoginBrowser, LoginPasted, Drop, Connect
  <2>5. ASSUME CredTick
        PROVE  UNCHANGED snapshot
    BY <2>5 DEF CredTick
  <2> QED
    BY <2>1, <2>2, <2>3, <2>4, <2>5
<1>3. \A u \in Threads : thread'[u] = thread[u] \/ thread'[u].pc \notin {"write", "stat"}
  <2>1. Idle \in ThreadStates /\ Idle.pc \notin {"write", "stat"}
    BY IdleType DEF Idle
  <2>2. \A p \in Procs : Main(p) \in Threads
    BY DEF Main, Threads, Roles
  <2>3. \A t \in Threads : thread[t] \in ThreadStates
    BY DEF CredTypeOK
  <2> DEFINE Moved == \A u \in Threads : thread'[u] = thread[u] \/ thread'[u].pc \notin {"write", "stat"}
  <2>4. \A t \in Threads : \A s : Goto(t, s) /\ s.pc \notin {"write", "stat"} => Moved
    BY DEF Goto, CredTypeOK
  <2> HIDE DEF Moved
  <2>5. ASSUME NEW p \in Procs, AuthCommand(p) \/ \E url \in Urls : Connect(p, url)
        PROVE  Moved
    <3>1. ASSUME NEW url \in Urls
          PROVE  /\ [Idle EXCEPT !.pc = "ask", !.url = url].pc \notin {"write", "stat"}
                 /\ [Idle EXCEPT !.pc = "merge", !.url = url].pc \notin {"write", "stat"}
                 /\ [Idle EXCEPT !.pc = "browser", !.url = url].pc \notin {"write", "stat"}
                 /\ \A e : [Idle EXCEPT !.pc = "merge", !.url = url, !.entry = e].pc
                             \notin {"write", "stat"}
      BY DEF Idle
    <3> QED
      BY <2>2, <2>4, <2>5, <3>1, Zenon
         DEF AuthCommand, Logout, LoginBrowser, LoginPasted, Connect
  <2>6. ASSUME NEW p \in Procs, Callback(p) \/ Exchange(p)
        PROVE  Moved
    <3>1. [thread[Main(p)] EXCEPT !.pc = "exchange"].pc \notin {"write", "stat"}
      BY <2>2, <2>3 DEF ThreadStates
    <3>2. \A e : Put(Main(p), e, None, "idle").pc \notin {"write", "stat"}
      BY <2>2, <2>3 DEF ThreadStates, Put
    <3>3. \E s : Goto(Main(p), s) /\ s.pc \notin {"write", "stat"}
      BY <2>1, <2>6, <3>1, <3>2 DEF Callback, Exchange
    <3> QED
      BY <2>2, <2>4, <3>3
  <2>7. ASSUME NEW t \in Threads, Ask(t) \/ RememberUser(t) \/ Refresh(t)
        PROVE  Moved
    <3>1. /\ [thread[t] EXCEPT !.pc = "refresh", !.entry = Entry(t)].pc \notin {"write", "stat"}
          /\ [thread[t] EXCEPT !.pc = "send"].pc \notin {"write", "stat"}
          /\ [thread[t] EXCEPT !.pc = "app", !.hello = None].pc \notin {"write", "stat"}
          /\ Failed(t).pc \notin {"write", "stat"}
      BY <2>1, <2>3 DEF ThreadStates, Failed
    <3>2. \A e, w, a : Put(t, e, w, a).pc \notin {"write", "stat"}
      BY <2>3 DEF ThreadStates, Put
    <3>3. \E s : Goto(t, s) /\ s.pc \notin {"write", "stat"}
      <4>1. CASE Ask(t)
        BY <3>1, <4>1 DEF Ask
      <4>2. CASE RememberUser(t)
        BY <3>1, <3>2, <4>2 DEF RememberUser
      <4>3. CASE Refresh(t)
        BY <3>1, <3>2, <4>3 DEF Refresh
      <4> QED
        BY <2>7, <4>1, <4>2, <4>3
    <3> QED
      BY <2>4, <3>3
  <2>8. ASSUME NEW t \in Threads, Send(t)
        PROVE  Moved
    <3>1. Failed(t).pc \notin {"write", "stat"}
      BY <2>1, <2>3 DEF ThreadStates, Failed
    <3> DEFINE token == IF Entry(t) = None THEN None ELSE Entry(t).token
               hello == Verdict(Server[thread[t].url.host], token)
               open == [thread[t] EXCEPT !.pc = "app", !.hello = [verdict |-> hello, token |-> token]]
    <3>2. open.pc = "app" /\ [open EXCEPT !.pc = "remember"].pc = "remember"
      BY <2>3 DEF ThreadStates
    <3>3. \/ Goto(t, Failed(t))
          \/ thread' = [u \in Threads |->
                IF u = <<t[1], "wire">> THEN open
                ELSE IF u = t THEN [open EXCEPT !.pc = "remember"] ELSE thread[u]]
      BY <2>8 DEF Send
    <3> HIDE DEF open
    <3> QED
      BY <2>4, <3>1, <3>2, <3>3 DEF Moved
  <2>9. ASSUME NEW p \in Procs, Drop(p)
         PROVE  Moved
    <3>1. <<p, "wire">> \in Threads
      BY DEF Threads, Roles
    <3>2. [thread[<<p, "wire">>] EXCEPT !.pc = "ask", !.hello = None].pc \notin {"write", "stat"}
      BY <2>3, <3>1 DEF ThreadStates
    <3> QED
      BY <2>4, <2>9, <3>1, <3>2 DEF Drop
  <2>10. ASSUME NEW p \in Procs, End(p)
         PROVE  Moved
    BY <2>1, <2>10 DEF End, Moved
  <2>11. CredTick => Moved
    BY DEF CredTick, Moved
  <2> QED
    BY <2>5, <2>6, <2>7, <2>8, <2>9, <2>10, <2>11 DEF Moved
<1> QED
  BY <1>1, <1>2, <1>3, FilesKept

\* A thread merges its entry into the file as it is, or there is a clash to come.
LEMMA MergeKeepsFiles ==
    ASSUME CredTypeOK, FilesInv, NEW t \in Threads, Merge(t)
    PROVE  FilesInv'
<1> DEFINE merged == With(Loaded(t[1]).entries, KeyAt(t), thread[t].entry)
           s == [thread[t] EXCEPT !.pc = "write", !.entries = merged]
<1>1. t[1] \in Procs /\ thread[t] \in ThreadStates
  BY DEF Threads, CredTypeOK
<1>2. \A p \in Procs : snapshot'[p] \in {snapshot[p], Fresh, Loaded(p)}
  BY <1>1, KeepsFresh DEF Merge, Load
<1>3. UNCHANGED <<disk, truth, clash>>
  BY DEF Merge
<1>4. CASE Goto(t, Idle)
  <2>1. \A u \in Threads : thread'[u] = thread[u] \/ thread'[u].pc \notin {"write", "stat"}
    BY <1>4 DEF Goto, CredTypeOK, Idle
  <2> QED
    BY <1>2, <1>3, <2>1, FilesKept
<1>5. CASE Goto(t, s)
  <2>1. /\ s.pc = "write" /\ s.entries = merged
        /\ s.entry = thread[t].entry /\ s.url = thread[t].url
    BY <1>1 DEF ThreadStates
  <2>2. ~clash => merged = With(disk.entries, KeyAt(t), thread[t].entry)
    BY <1>1, LoadedIsDisk
  <2> HIDE DEF s, merged
  <2>3. thread'[t] = s /\ \A u \in Threads \ {t} : thread'[u] = thread[u]
    BY <1>5 DEF Goto, CredTypeOK
  <2>4. StampInv'
    <3>1. \A u \in Threads : Is(u, "stat")' => disk.stamp > 0
      BY <2>1, <2>3 DEF Is, FilesInv, StampInv
    <3> QED
      BY <1>2, <1>3, <3>1, SnapshotsFresh DEF FilesInv, StampInv
  <2>5. ASSUME ~clash'
        PROVE  /\ disk'.entries = truth'
               /\ \A p \in Procs :
                    snapshot'[p].stamp = disk'.stamp => snapshot'[p].entries = disk'.entries
    BY <1>2, <1>3, <2>5, SnapshotsFresh DEF FilesInv
  <2>6. ASSUME ~clash', NEW u \in Threads
        PROVE  /\ thread'[u].pc = "stat" => thread'[u].entries = disk'.entries
               /\ thread'[u].pc = "write" =>
                    thread'[u].entries =
                      With(disk'.entries, CredentialKey(thread'[u].url), thread'[u].entry)
    BY <1>3, <2>1, <2>2, <2>3, <2>6 DEF FilesInv, Is, KeyAt
  <2> QED
    BY <2>4, <2>5, <2>6 DEF FilesInv, Is, KeyAt
<1> QED
  BY <1>4, <1>5 DEF Merge, KeyAt

\* A write has a stamp of its own, and nobody else was about to write.
LEMMA WriteKeepsFiles ==
    ASSUME CredTypeOK, FilesInv, NEW t \in Threads, Write(t)
    PROVE  FilesInv'
<1> DEFINE s == [thread[t] EXCEPT !.pc = "stat"]
<1>1. /\ thread[t] \in ThreadStates /\ disk.stamp \in Nat
      /\ \A p \in Procs : snapshot[p].stamp \in Nat
  BY DEF CredTypeOK, Snapshots
<1>2. s.pc = "stat" /\ s.entries = thread[t].entries
  BY <1>1 DEF ThreadStates
<1>3. Goto(t, s)
  BY DEF Write
<1> HIDE DEF s
<1>4. thread'[t] = s /\ \A u \in Threads \ {t} : thread'[u] = thread[u]
  BY <1>3 DEF Goto, CredTypeOK
<1>5. /\ disk'.stamp = disk.stamp + 1 /\ disk'.entries = thread[t].entries
      /\ snapshot' = snapshot
      /\ truth' = With(truth, KeyAt(t), thread[t].entry)
      /\ clash' = (clash \/ Races(t))
  BY DEF Write, KeyAt
<1>6. StampInv'
  BY <1>1, <1>5 DEF StampInv, FilesInv
<1>7. ASSUME ~clash'
      PROVE  /\ disk'.entries = truth'
             /\ \A p \in Procs :
                  snapshot'[p].stamp = disk'.stamp => snapshot'[p].entries = disk'.entries
  <2>1. Is(t, "write") /\ ~clash
    BY <1>5, <1>7 DEF Write
  <2>2. thread[t].entries = With(disk.entries, KeyAt(t), thread[t].entry) /\ disk.entries = truth
    BY <2>1 DEF FilesInv
  <2>3. \A p \in Procs : snapshot'[p].stamp # disk'.stamp
    BY <1>1, <1>5 DEF FilesInv, StampInv
  <2> QED
    BY <1>5, <2>2, <2>3
<1>8. ASSUME ~clash', NEW u \in Threads
      PROVE  /\ thread'[u].pc = "stat" => thread'[u].entries = disk'.entries
             /\ thread'[u].pc # "write"
  <2>1. u # t => thread[u].pc \notin {"write", "stat"}
    BY <1>5, <1>8 DEF Races
  <2> QED
    BY <1>2, <1>4, <1>5, <2>1
<1> QED
  BY <1>6, <1>7, <1>8 DEF FilesInv, Is

\* The stamp a thread sees after its write is that of its write.
LEMMA StatKeepsFiles ==
    ASSUME CredTypeOK, FilesInv, NEW t \in Threads, Stat(t)
    PROVE  FilesInv'
<1>1. t[1] \in Procs /\ thread[t] \in ThreadStates /\ disk.stamp \in Nat /\ Is(t, "stat")
  BY DEF Threads, CredTypeOK, Snapshots, Stat
<1>2. UNCHANGED <<disk, truth, clash>>
  BY DEF Stat
<1>3. \A u \in Threads : thread'[u] = thread[u] \/ thread'[u].pc \notin {"write", "stat"}
  <2>1. [Idle EXCEPT !.pc = thread[t].after, !.url = thread[t].url].pc = thread[t].after
    BY DEF Idle
  <2>2. \E s : Goto(t, s) /\ s.pc \in {"idle", "send", "app"}
    <3>1. Idle.pc = "idle" /\ thread[t].after \in {"idle", "send", "app"}
      BY <1>1 DEF Idle, ThreadStates
    <3> QED
      BY <2>1, <3>1 DEF Stat
  <2> QED
    BY <2>2 DEF Goto, CredTypeOK
<1>4. ASSUME NEW p \in Procs
      PROVE  /\ snapshot'[p].stamp <= disk.stamp
             /\ snapshot'[p].stamp = 0 => snapshot'[p].entries = <<>>
             /\ ~clash /\ snapshot'[p].stamp = disk.stamp => snapshot'[p].entries = disk.entries
  <2>1. \/ snapshot'[p] \in {snapshot[p], Fresh}
        \/ snapshot'[p] = [stamp |-> disk.stamp, entries |-> thread[t].entries]
    BY <1>1 DEF Stat, Keep, CredTypeOK
  <2>2. CASE snapshot'[p] \in {snapshot[p], Fresh}
    BY <1>1, <2>2 DEF FilesInv, StampInv, Fresh
  <2>3. CASE snapshot'[p] = [stamp |-> disk.stamp, entries |-> thread[t].entries]
    BY <1>1, <2>3 DEF FilesInv, StampInv
  <2> QED
    BY <2>1, <2>2, <2>3
<1>5. StampInv'
  <2>1. \A u \in Threads : Is(u, "stat")' => disk.stamp > 0
    BY <1>3 DEF Is, FilesInv, StampInv
  <2> QED
    BY <1>2, <1>4, <2>1 DEF FilesInv, StampInv
<1>6. ASSUME ~clash', NEW u \in Threads
      PROVE  /\ thread'[u].pc = "stat" => thread'[u].entries = disk'.entries
             /\ thread'[u].pc = "write" =>
                  thread'[u].entries =
                    With(disk'.entries, CredentialKey(thread'[u].url), thread'[u].entry)
  BY <1>2, <1>3, <1>6 DEF FilesInv, Is, KeyAt
<1> QED
  BY <1>2, <1>4, <1>5, <1>6 DEF FilesInv, Is, KeyAt

\* Nothing changes when nothing happens.
LEMMA FilesStutter ==
    ASSUME CredTypeOK, FilesInv, UNCHANGED credVars
    PROVE  FilesInv'
BY FilesKept DEF credVars

\* There is no file at first.
LEMMA FilesInit == CredInit => FilesInv
BY DEF CredInit, FilesInv, StampInv, Fresh, Idle, Is

-----------------------------------------------------------------------------
(* Where the refresh tokens of a login are *)

\* The refresh token r, kept under a key: its login has this key for a home, and the
\* issuer has not been past it when it takes the number now[r[1]].
Placed(now, home, key, r) ==
    r # None =>
        r[1] \in DOMAIN now /\ home[r[1]] = key /\ r[2] <= now[r[1]]
FilePlaced(now, home, F) == \A k \in DOMAIN F : Placed(now, home, k, F[k].refresh)
PlacedBy(home) ==
    /\ FilePlaced(live, home, disk.entries)
    /\ \A p \in Procs : FilePlaced(live, home, snapshot[p].entries)
    /\ \A t \in Threads :
         /\ FilePlaced(live, home, thread[t].entries)
         /\ Placed(live, home, KeyAt(t), RefreshOf(thread[t].entry))
PlacedInv == \E home \in [DOMAIN live -> Keys] : PlacedBy(home)

\* A token that is on its way to the file is the newest one of its login, and nobody
\* else has it if the issuer rotates.
Unseen(F, r) == \A k \in DOMAIN F : F[k].refresh # r
OnlyAt(t, r) ==
    /\ Unseen(disk.entries, r)
    /\ \A p \in Procs : Unseen(snapshot[p].entries, r)
    /\ \A u \in Threads \ {t} : Unseen(thread[u].entries, r) /\ RefreshOf(thread[u].entry) # r
NewestInv ==
    \A t \in Threads : Storing(thread[t]) =>
        LET r == RefreshOf(thread[t].entry) IN
        r[2] = live[r[1]] /\ (issuer.rotates => OnlyAt(t, r))

\* RefreshGoesOn without its names.
Stored(r) ==
    \E t \in Threads :
        /\ thread[t].pc \in {"merge", "write"} /\ thread[t].after = "send"
        /\ RefreshOf(thread[t].entry) = r
GoesOnInv ==
    ~clash => \A k \in DOMAIN disk.entries :
        LET r == disk.entries[k].refresh IN
        r # None /\ r[1] \notin lost => live[r[1]] = r[2] \/ Stored(<<r[1], live[r[1]]>>)

\* The refresh token of an entry is none or a login with a number.
LEMMA RefreshTypes ==
    /\ \A F \in Files : \A k \in DOMAIN F : F[k].refresh \in (Nat \X Nat) \cup {None}
    /\ \A e \in CredentialEntries \cup {None} : RefreshOf(e) \in (Nat \X Nat) \cup {None}
<1>1. \A e \in CredentialEntries : e.refresh \in (Nat \X Nat) \cup {None}
  BY DEF CredentialEntries
<1> QED
  BY <1>1, FileFacts DEF RefreshOf

\* A place stays one while the issuer goes on.
LEMMA PlacedGrows ==
    ASSUME NEW now \in Seq(Nat), NEW then \in Seq(Nat), NEW home, NEW home2,
           DOMAIN now \subseteq DOMAIN then,
           \A i \in DOMAIN now : now[i] <= then[i] /\ home2[i] = home[i],
           NEW r \in (Nat \X Nat) \cup {None}, NEW key, Placed(now, home, key, r)
    PROVE  Placed(then, home2, key, r)
<1> SUFFICES ASSUME r # None
             PROVE  r[1] \in DOMAIN then /\ home2[r[1]] = key /\ r[2] <= then[r[1]]
  BY DEF Placed
<1>1. r[1] \in DOMAIN now /\ home[r[1]] = key /\ r[2] <= now[r[1]] /\ r[2] \in Nat
  BY DEF Placed
<1>2. now[r[1]] \in Nat /\ then[r[1]] \in Nat
  BY <1>1
<1> QED
  BY <1>1, <1>2

\* The same for the tokens of a file.
LEMMA FilePlacedGrows ==
    ASSUME NEW now \in Seq(Nat), NEW then \in Seq(Nat), NEW home, NEW home2,
           DOMAIN now \subseteq DOMAIN then,
           \A i \in DOMAIN now : now[i] <= then[i] /\ home2[i] = home[i],
           NEW F \in Files, FilePlaced(now, home, F)
    PROVE  FilePlaced(then, home2, F)
BY PlacedGrows, RefreshTypes DEF FilePlaced

\* What a process may load is placed.
LEMMA LoadedPlaced ==
    ASSUME CredTypeOK, NEW home, PlacedBy(home), NEW p \in Procs
    PROVE  FilePlaced(live, home, Loaded(p).entries)
<1>1. Loaded(p) = snapshot[p] \/ Loaded(p) = disk
  BY LoadedType
<1> QED
  BY <1>1 DEF PlacedBy

\* The entry a thread finds is placed at its key.
LEMMA EntryPlaced ==
    ASSUME CredTypeOK, NEW home, PlacedBy(home), NEW t \in Threads
    PROVE  Placed(live, home, KeyAt(t), RefreshOf(Entry(t)))
<1>1. t[1] \in Procs
  BY DEF Threads
<1>2. Loaded(t[1]).entries \in Files /\ FilePlaced(live, home, Loaded(t[1]).entries)
  BY <1>1, LoadedType, LoadedPlaced DEF Snapshots
<1>3. CASE Entry(t) = None
  BY <1>3 DEF Placed, RefreshOf
<1>4. CASE Entry(t) # None
  <2>1. KeyAt(t) \in DOMAIN Loaded(t[1]).entries /\ Entry(t) = Loaded(t[1]).entries[KeyAt(t)]
    BY <1>2, <1>4, EntryInType DEF Entry, KeyAt
  <2> QED
    BY <1>2, <1>4, <2>1 DEF FilePlaced, RefreshOf
<1> QED
  BY <1>3, <1>4

\* A placed entry in a placed file makes a placed file.
LEMMA WithPlaced ==
    ASSUME NEW now, NEW home, NEW F \in Files, NEW key \in Keys,
           NEW e \in CredentialEntries \cup {None},
           FilePlaced(now, home, F), Placed(now, home, key, RefreshOf(e))
    PROVE  FilePlaced(now, home, With(F, key, e))
<1> SUFFICES ASSUME NEW k \in DOMAIN With(F, key, e)
             PROVE  Placed(now, home, k, With(F, key, e)[k].refresh)
  BY DEF FilePlaced
<1>1. With(F, key, e) \in Files
  BY WithFacts
<1>2. k \in Keys
  BY <1>1, FileFacts
<1>3. CASE k = key
  BY <1>3, WithFacts DEF RefreshOf
<1>4. CASE k # key
  <2>1. k \in DOMAIN F /\ With(F, key, e)[k] = F[k]
    BY <1>2, <1>4, WithFacts
  <2> QED
    BY <2>1 DEF FilePlaced
<1> QED
  BY <1>3, <1>4

\* An empty file and an absent token are placed.
LEMMA NothingPlaced ==
    ASSUME NEW now, NEW home
    PROVE  FilePlaced(now, home, <<>>) /\ \A key : Placed(now, home, key, None)
BY FileFacts DEF FilePlaced, Placed

\* A calm step.
LEMMA CalmPlaced ==
    ASSUME CredTypeOK, PlacedInv, CalmStep
    PROVE  PlacedInv'
<1>1. PICK home \in [DOMAIN live -> Keys] : PlacedBy(home)
  BY DEF PlacedInv
<1>2. live' = live /\ disk' = disk
  BY DEF CalmStep
<1>3. FilePlaced(live, home, disk'.entries)
  BY <1>1, <1>2 DEF PlacedBy
<1>4. ASSUME NEW p \in Procs
      PROVE  FilePlaced(live, home, snapshot'[p].entries)
  <2>1. CASE snapshot'[p] = snapshot[p]
    BY <1>1, <2>1 DEF PlacedBy
  <2>2. CASE snapshot'[p] = Fresh
    BY <2>2, NothingPlaced DEF Fresh
  <2>3. CASE snapshot'[p] = Loaded(p)
    BY <1>1, <2>3, LoadedPlaced
  <2>4. CASE \E u \in Threads : Is(u, "stat") /\ snapshot'[p].entries = thread[u].entries
    BY <1>1, <2>4 DEF PlacedBy
  <2> QED
    BY <2>1, <2>2, <2>3, <2>4 DEF CalmStep, SnapshotsFollow
<1>5. ASSUME NEW u \in Threads
      PROVE  /\ FilePlaced(live, home, thread'[u].entries)
             /\ Placed(live, home, CredentialKey(thread'[u].url), RefreshOf(thread'[u].entry))
  <2>1. /\ FilePlaced(live, home, thread[u].entries)
        /\ Placed(live, home, KeyAt(u), RefreshOf(thread[u].entry))
        /\ Placed(live, home, KeyAt(u), RefreshOf(Entry(u)))
    BY <1>1, EntryPlaced DEF PlacedBy
  <2>2. Calm(u)
    BY DEF CalmStep
  <2> QED
    BY <2>1, <2>2, NothingPlaced DEF Calm, KeyAt
<1>6. PlacedBy(home)'
  BY <1>2, <1>3, <1>4, <1>5 DEF PlacedBy, KeyAt
<1> QED
  BY <1>2, <1>6 DEF PlacedInv

\* What a thread may load has no token that is on its way.
LEMMA LoadedUnseen ==
    ASSUME CredTypeOK, NEW t \in Threads, NEW r, OnlyAt(t, r)
    PROVE  /\ \A p \in Procs : Unseen(Loaded(p).entries, r)
           /\ r # None => \A u \in Threads : RefreshOf(Entry(u)) # r
<1>1. \A p \in Procs : Unseen(Loaded(p).entries, r)
  BY LoadedType DEF OnlyAt
<1>2. ASSUME NEW u \in Threads, r # None
      PROVE  RefreshOf(Entry(u)) # r
  <2>1. u[1] \in Procs
    BY DEF Threads
  <2>2. Entry(u) # None => /\ CredentialKey(thread[u].url) \in DOMAIN Loaded(u[1]).entries
                           /\ Entry(u) = Loaded(u[1]).entries[CredentialKey(thread[u].url)]
    BY <2>1, LoadedType, EntryInType DEF Entry, Snapshots
  <2> QED
    BY <1>1, <1>2, <2>1, <2>2 DEF Unseen, RefreshOf
<1> QED
  BY <1>1, <1>2

\* A calm step takes no token on its way and shows it to nobody.
LEMMA CalmNewest ==
    ASSUME CredTypeOK, NewestInv, CalmStep
    PROVE  NewestInv'
<1>1. live' = live /\ disk' = disk /\ issuer' = issuer
  BY DEF CalmStep
<1>2. ASSUME NEW t \in Threads, Storing(thread'[t])
      PROVE  /\ RefreshOf(thread'[t].entry)[2] = live[RefreshOf(thread'[t].entry)[1]]
             /\ issuer.rotates => OnlyAt(t, RefreshOf(thread[t].entry))'
  <2>1. thread'[t] = thread[t]
    BY <1>2 DEF CalmStep, Calm
  <2> DEFINE r == RefreshOf(thread[t].entry)
  <2>2. r[2] = live[r[1]] /\ r # None /\ ~Is(t, "stat")
    BY <1>2, <2>1 DEF NewestInv, Storing, Is
  <2>3. ASSUME issuer.rotates
        PROVE  OnlyAt(t, RefreshOf(thread[t].entry))'
    <3>1. OnlyAt(t, r)
      BY <1>2, <2>1, <2>3 DEF NewestInv
    <3> HIDE DEF r
    <3>2. Unseen(<<>>, r)
      BY FileFacts DEF Unseen
    <3>3. ASSUME NEW p \in Procs
          PROVE  Unseen(snapshot'[p].entries, r)
      <4>1. CASE snapshot'[p] \in {snapshot[p], Fresh}
        BY <3>1, <3>2, <4>1 DEF OnlyAt, Fresh
      <4>2. CASE snapshot'[p] = Loaded(p)
        BY <3>1, <4>2, LoadedUnseen
      <4>3. CASE \E u \in Threads : Is(u, "stat") /\ snapshot'[p].entries = thread[u].entries
        BY <2>2, <3>1, <4>3 DEF OnlyAt
      <4> QED
        BY <4>1, <4>2, <4>3 DEF CalmStep, SnapshotsFollow
    <3>4. ASSUME NEW u \in Threads \ {t}
          PROVE  Unseen(thread'[u].entries, r) /\ RefreshOf(thread'[u].entry) # r
      <4>1. Unseen(thread[u].entries, r) /\ RefreshOf(thread[u].entry) # r
        BY <3>1 DEF OnlyAt
      <4>2. RefreshOf(Entry(u)) # r
        BY <2>2, <3>1, LoadedUnseen
      <4>3. Calm(u)
        BY DEF CalmStep
      <4> QED
        BY <2>2, <3>2, <4>1, <4>2, <4>3 DEF Calm
    <3>5. Unseen(disk'.entries, r)
      BY <1>1, <3>1 DEF OnlyAt
    <3>6. RefreshOf(thread'[t].entry) = r
      BY <2>1 DEF r
    <3> QED
      BY <3>3, <3>4, <3>5, <3>6 DEF OnlyAt
  <2> QED
    BY <2>1, <2>2, <2>3
<1> QED
  BY <1>1, <1>2 DEF NewestInv

\* A token that waits for its write is a token on its way.
LEMMA StoredFacts ==
    ASSUME CredTypeOK, NEW r, Stored(r)
    PROVE  \E t \in Threads :
             /\ Storing(thread[t]) /\ thread[t].pc \in {"merge", "write"}
             /\ thread[t].after = "send" /\ RefreshOf(thread[t].entry) = r
<1>1. PICK t \in Threads :
        /\ thread[t].pc \in {"merge", "write"} /\ thread[t].after = "send"
        /\ RefreshOf(thread[t].entry) = r
  BY DEF Stored
<1>2. thread[t].entry # None /\ thread[t].entry.refresh # None
  BY <1>1 DEF CredTypeOK, Equipped
<1> QED
  BY <1>1, <1>2 DEF Storing, RefreshOf

\* A step that leaves the file, and every token that waits for it, alone.
LEMMA GoesOnKept ==
    ASSUME CredTypeOK, GoesOnInv, UNCHANGED <<live, disk>>, clash => clash', lost \subseteq lost',
           \A u \in Threads : Storing(thread[u]) /\ thread[u].after = "send" =>
             \/ thread'[u].pc \in {"merge", "write"} /\ thread'[u].after = "send"
                /\ RefreshOf(thread'[u].entry) = RefreshOf(thread[u].entry)
             \/ RefreshOf(thread[u].entry)[1] \in lost'
    PROVE  GoesOnInv'
<1> SUFFICES ASSUME ~clash', NEW k \in DOMAIN disk.entries,
                    disk.entries[k].refresh # None, disk.entries[k].refresh[1] \notin lost'
             PROVE  LET r == disk.entries[k].refresh IN
                    live[r[1]] = r[2] \/ Stored(<<r[1], live[r[1]]>>)'
  BY DEF GoesOnInv
<1> DEFINE r == disk.entries[k].refresh
           q == <<r[1], live[r[1]]>>
<1>1. live[r[1]] = r[2] \/ Stored(q)
  BY DEF GoesOnInv
<1>2. CASE Stored(q)
  <2>1. q[1] = r[1]
    OBVIOUS
  <2> HIDE DEF q
  <2>2. PICK t \in Threads : /\ Storing(thread[t]) /\ thread[t].after = "send"
                             /\ RefreshOf(thread[t].entry) = q
    BY <1>2, StoredFacts
  <2>3. /\ thread'[t].pc \in {"merge", "write"} /\ thread'[t].after = "send"
        /\ RefreshOf(thread'[t].entry) = q
    BY <2>1, <2>2
  <2>4. Stored(q)'
    BY <2>3 DEF Stored, q
  <2> QED
    BY <2>4 DEF q
<1> QED
  BY <1>1, <1>2

\* A calm step leaves the file and the tokens on their way.
LEMMA CalmGoesOn ==
    ASSUME CredTypeOK, GoesOnInv, CalmStep
    PROVE  GoesOnInv'
<1>1. \A u \in Threads : Storing(thread[u]) => thread'[u] = thread[u] /\ thread[u].pc \in {"merge", "write"}
  BY DEF CalmStep, Calm, Storing
<1> QED
  BY <1>1, GoesOnKept DEF CalmStep

\* The end of a process.
LEMMA EndTokens ==
    ASSUME CredTypeOK, PlacedInv, NewestInv, GoesOnInv, NEW p \in Procs, End(p)
    PROVE  PlacedInv' /\ NewestInv' /\ GoesOnInv'
<1>1. UNCHANGED <<issuer, live, disk, clash>> /\ lost \subseteq lost'
  BY DEF End
<1>2. \A u \in Threads : thread'[u] = IF u[1] = p THEN Idle ELSE thread[u]
  BY DEF End
<1>3. \A q \in Procs : snapshot'[q] \in {snapshot[q], Fresh}
  BY DEF End, CredTypeOK
<1>4. PlacedInv'
  <2>1. PICK home \in [DOMAIN live -> Keys] : PlacedBy(home)
    BY DEF PlacedInv
  <2>2. \A q \in Procs : FilePlaced(live, home, snapshot'[q].entries)
    BY <1>3, <2>1, NothingPlaced DEF PlacedBy, Fresh
  <2>3. ASSUME NEW u \in Threads
        PROVE  /\ FilePlaced(live, home, thread'[u].entries)
               /\ Placed(live, home, CredentialKey(thread'[u].url), RefreshOf(thread'[u].entry))
    <3>1. CASE u[1] = p
      BY <1>2, <3>1, IdleIsCalm, NothingPlaced
    <3>2. CASE u[1] # p
      BY <1>2, <2>1, <3>2 DEF PlacedBy, KeyAt
    <3> QED
      BY <3>1, <3>2
  <2>4. PlacedBy(home)'
    BY <1>1, <2>1, <2>2, <2>3 DEF PlacedBy, KeyAt
  <2> QED
    BY <1>1, <2>4 DEF PlacedInv
<1>5. NewestInv'
  <2>1. ASSUME NEW t \in Threads, Storing(thread'[t])
        PROVE  thread'[t] = thread[t]
    BY <1>2, <2>1, IdleIsCalm
  <2>2. ASSUME NEW t \in Threads, NEW r, OnlyAt(t, r), r # None
        PROVE  OnlyAt(t, r)'
    <3>1. \A u \in Threads \ {t} : Unseen(thread'[u].entries, r) /\ RefreshOf(thread'[u].entry) # r
      BY <1>2, <2>2, IdleIsCalm, FileFacts DEF OnlyAt, Unseen
    <3>2. \A q \in Procs : Unseen(snapshot'[q].entries, r)
      BY <1>3, <2>2, FileFacts DEF OnlyAt, Unseen, Fresh
    <3> QED
      BY <1>1, <2>2, <3>1, <3>2 DEF OnlyAt
  <2> QED
    BY <1>1, <2>1, <2>2 DEF NewestInv, Storing
<1>6. GoesOnInv'
  <2>1. ASSUME NEW u \in Threads, Storing(thread[u]), thread[u].after = "send", u[1] = p
        PROVE  RefreshOf(thread[u].entry)[1] \in lost'
    <3>1. thread[u].entry # None /\ thread[u].entry.refresh # None
      BY <2>1 DEF Storing, RefreshOf
    <3>2. u \in {p} \X Roles
      BY <2>1 DEF Threads
    <3> QED
      BY <2>1, <3>1, <3>2 DEF End, Storing, RefreshOf
  <2> QED
    BY <1>1, <1>2, <2>1, GoesOnKept DEF Storing
<1> QED
  BY <1>4, <1>5, <1>6

\* A thread that merges its entry into the file it loaded.
LEMMA MergeTokens ==
    ASSUME CredTypeOK, PlacedInv, NewestInv, GoesOnInv, NEW t \in Threads, Merge(t), ~Goto(t, Idle)
    PROVE  PlacedInv' /\ NewestInv' /\ GoesOnInv'
<1> DEFINE loaded == Loaded(t[1]).entries
           merged == With(loaded, KeyAt(t), thread[t].entry)
           s == [thread[t] EXCEPT !.pc = "write", !.entries = merged]
<1>1. /\ t[1] \in Procs /\ thread[t] \in ThreadStates /\ Equipped(thread[t])
      /\ thread[t].pc = "merge" /\ thread[t].url \in Urls
      /\ thread[t].entry \in CredentialEntries \cup {None}
  BY DEF Threads, CredTypeOK, Merge, Is, Equipped, ThreadStates
<1>2. UNCHANGED <<issuer, live, disk, clash, lost>>
  BY DEF Merge
<1>3. Goto(t, s)
  BY DEF Merge, KeyAt
<1>4. /\ s.pc = "write" /\ s.entries = merged /\ s.after = thread[t].after
      /\ s.entry = thread[t].entry /\ s.url = thread[t].url
  BY <1>1 DEF ThreadStates
<1>5. loaded \in Files /\ KeyAt(t) \in Keys
  BY <1>1, LoadedType, KeyOfUrl DEF Snapshots, KeyAt
<1> HIDE DEF s
<1>6. thread'[t] = s /\ \A u \in Threads \ {t} : thread'[u] = thread[u]
  BY <1>3 DEF Goto, CredTypeOK
<1>7. \A p \in Procs : snapshot'[p] \in {snapshot[p], Fresh, Loaded(p)}
  BY <1>1, KeepsFresh DEF Merge, Load
<1>8. PlacedInv'
  <2>1. PICK home \in [DOMAIN live -> Keys] : PlacedBy(home)
    BY DEF PlacedInv
  <2>2. \A p \in Procs : FilePlaced(live, home, snapshot'[p].entries)
    BY <1>7, <2>1, NothingPlaced, LoadedPlaced DEF PlacedBy, Fresh
  <2>3. FilePlaced(live, home, merged)
    <3>1. FilePlaced(live, home, loaded) /\ Placed(live, home, KeyAt(t), RefreshOf(thread[t].entry))
      BY <1>1, <2>1, LoadedPlaced DEF PlacedBy
    <3> HIDE DEF loaded
    <3> QED
      BY <1>1, <1>5, <3>1, WithPlaced
  <2> HIDE DEF merged
  <2>4. ASSUME NEW u \in Threads
        PROVE  /\ FilePlaced(live, home, thread'[u].entries)
               /\ Placed(live, home, CredentialKey(thread'[u].url), RefreshOf(thread'[u].entry))
    BY <1>4, <1>6, <2>1, <2>3 DEF PlacedBy, KeyAt
  <2>5. PlacedBy(home)'
    BY <1>2, <2>1, <2>2, <2>4 DEF PlacedBy, KeyAt
  <2> QED
    BY <1>2, <2>5 DEF PlacedInv
<1>9. NewestInv'
  <2>1. ASSUME NEW u \in Threads, Storing(thread'[u])
        PROVE  Storing(thread[u]) /\ thread'[u].entry = thread[u].entry
    BY <1>1, <1>4, <1>6, <2>1 DEF Storing
  <2>2. ASSUME NEW u \in Threads, NEW r, OnlyAt(u, r), r # None
        PROVE  OnlyAt(u, r)'
    <3>1. \A p \in Procs : Unseen(snapshot'[p].entries, r)
      <4>1. Unseen(<<>>, r)
        BY FileFacts DEF Unseen
      <4>2. \A p \in Procs : Unseen(snapshot[p].entries, r) /\ Unseen(Loaded(p).entries, r)
        BY <2>2, LoadedUnseen DEF OnlyAt
      <4> QED
        BY <1>7, <4>1, <4>2 DEF Fresh
    <3>2. ASSUME u # t
          PROVE  Unseen(merged, r) /\ RefreshOf(thread[t].entry) # r
      <4>1. Unseen(loaded, r) /\ RefreshOf(thread[t].entry) # r
        BY <1>1, <2>2, <3>2, LoadedUnseen DEF OnlyAt
      <4>2. ASSUME NEW k \in DOMAIN merged
            PROVE  merged[k].refresh # r
        <5> HIDE DEF loaded
        <5>1. merged \in Files
          BY <1>1, <1>5, WithFacts
        <5>2. k \in Keys
          BY <5>1, FileFacts
        <5>3. CASE k = KeyAt(t)
          BY <1>1, <1>5, <4>1, <5>3, WithFacts DEF RefreshOf
        <5>4. CASE k # KeyAt(t)
          <6>1. k \in DOMAIN loaded /\ merged[k] = loaded[k]
            BY <1>1, <1>5, <5>2, <5>4, WithFacts
          <6> QED
            BY <4>1, <6>1 DEF Unseen
        <5> QED
          BY <5>3, <5>4
      <4> QED
        BY <4>1, <4>2 DEF Unseen
    <3> HIDE DEF merged
    <3>3. \A v \in Threads \ {u} : Unseen(thread'[v].entries, r) /\ RefreshOf(thread'[v].entry) # r
      BY <1>4, <1>6, <2>2, <3>2 DEF OnlyAt
    <3> QED
      BY <1>2, <2>2, <3>1, <3>3 DEF OnlyAt
  <2> QED
    BY <1>2, <2>1, <2>2 DEF NewestInv, Storing
<1>10. GoesOnInv'
  <2> HIDE DEF merged
  <2>1. \A u \in Threads : Storing(thread[u]) /\ thread[u].after = "send" =>
          /\ thread'[u].pc \in {"merge", "write"} /\ thread'[u].after = "send"
          /\ RefreshOf(thread'[u].entry) = RefreshOf(thread[u].entry)
    BY <1>4, <1>6 DEF Storing
  <2> QED
    BY <1>2, <2>1, GoesOnKept
<1> QED
  BY <1>8, <1>9, <1>10

\* A thread that replaces the file. Without a clash it has seen what it replaces.
LEMMA WriteTokens ==
    ASSUME CredTypeOK, FilesInv, PlacedInv, NewestInv, GoesOnInv, NEW t \in Threads, Write(t)
    PROVE  PlacedInv' /\ NewestInv' /\ GoesOnInv'
<1> DEFINE s == [thread[t] EXCEPT !.pc = "stat"]
<1>1. /\ thread[t] \in ThreadStates /\ Equipped(thread[t]) /\ thread[t].pc = "write"
      /\ thread[t].url \in Urls /\ thread[t].entries \in Files /\ disk.entries \in Files
      /\ thread[t].entry \in CredentialEntries \cup {None}
      /\ thread[t].was \in CredentialEntries \cup {None}
  BY DEF CredTypeOK, Write, Is, Equipped, ThreadStates, Snapshots
<1>2. /\ UNCHANGED <<issuer, live, lost, snapshot>> /\ disk'.entries = thread[t].entries
      /\ clash' = (clash \/ Races(t))
  BY DEF Write
<1>3. Goto(t, s)
  BY DEF Write
<1>4. s.pc = "stat" /\ s.entries = thread[t].entries /\ s.entry = thread[t].entry /\ s.url = thread[t].url
  BY <1>1 DEF ThreadStates
<1> HIDE DEF s
<1>5. thread'[t] = s /\ \A u \in Threads \ {t} : thread'[u] = thread[u]
  BY <1>3 DEF Goto, CredTypeOK
<1>6. PICK home \in [DOMAIN live -> Keys] : PlacedBy(home)
  BY DEF PlacedInv
<1>7. PlacedInv'
  <2>1. FilePlaced(live, home, disk'.entries)
    BY <1>2, <1>6 DEF PlacedBy
  <2>2. ASSUME NEW u \in Threads
        PROVE  /\ FilePlaced(live, home, thread'[u].entries)
               /\ Placed(live, home, CredentialKey(thread'[u].url), RefreshOf(thread'[u].entry))
    BY <1>4, <1>5, <1>6 DEF PlacedBy, KeyAt
  <2>3. PlacedBy(home)'
    BY <1>2, <1>6, <2>1, <2>2 DEF PlacedBy, KeyAt
  <2> QED
    BY <1>2, <2>3 DEF PlacedInv
<1>8. NewestInv'
  <2>1. ASSUME NEW u \in Threads, Storing(thread'[u])
        PROVE  u # t /\ thread'[u] = thread[u]
    BY <1>4, <1>5, <2>1 DEF Storing
  <2>2. ASSUME NEW u \in Threads \ {t}, NEW r, OnlyAt(u, r)
        PROVE  OnlyAt(u, r)'
    BY <1>2, <1>4, <1>5, <2>2 DEF OnlyAt
  <2> QED
    BY <1>2, <2>1, <2>2 DEF NewestInv, Storing
<1>9. GoesOnInv'
  <2> SUFFICES ASSUME ~clash', NEW k \in DOMAIN disk'.entries,
                      disk'.entries[k].refresh # None, disk'.entries[k].refresh[1] \notin lost
               PROVE  LET r == disk'.entries[k].refresh IN
                      \/ live[r[1]] = r[2]
                      \/ \E u \in Threads :
                           /\ thread'[u].pc \in {"merge", "write"} /\ thread'[u].after = "send"
                           /\ RefreshOf(thread'[u].entry) = <<r[1], live[r[1]]>>
    BY <1>2 DEF GoesOnInv, Stored
  <2> DEFINE r == disk'.entries[k].refresh
             q == <<r[1], live[r[1]]>>
             key == KeyAt(t)
             Waits(x) == \E u \in Threads :
                           /\ thread'[u].pc \in {"merge", "write"} /\ thread'[u].after = "send"
                           /\ RefreshOf(thread'[u].entry) = x
  <2>1. /\ ~clash /\ ~Races(t)
        /\ disk'.entries = With(disk.entries, key, thread[t].entry)
    <3>1. ~clash /\ ~Races(t)
      BY <1>2
    <3> QED
      BY <1>1, <1>2, <3>1 DEF FilesInv, Is
  <2>2. key \in Keys /\ k \in Keys
    BY <1>1, <1>2, KeyOfUrl, FileFacts DEF KeyAt
  <2>3. CASE k # key
    <3>1. k \in DOMAIN disk.entries /\ r = disk.entries[k].refresh
      BY <1>1, <2>1, <2>2, <2>3, WithFacts
    <3>2. live[r[1]] = r[2] \/ Stored(q)
      BY <2>1, <3>1 DEF GoesOnInv
    <3>3. CASE Stored(q)
      <4>1. q[1] = r[1] /\ r # None /\ Placed(live, home, k, r)
        BY <1>6, <3>1 DEF PlacedBy, FilePlaced
      <4> HIDE DEF q
      <4>2. PICK u \in Threads : /\ Storing(thread[u]) /\ thread[u].pc \in {"merge", "write"}
                                 /\ thread[u].after = "send" /\ RefreshOf(thread[u].entry) = q
        BY <3>3, StoredFacts
      <4>3. u # t
        <5>1. home[r[1]] = k
          BY <4>1 DEF Placed
        <5>2. home[q[1]] = KeyAt(u)
          BY <1>6, <4>2 DEF PlacedBy, Placed, Storing
        <5> QED
          BY <2>3, <4>1, <5>1, <5>2
      <4>4. Waits(q)
        BY <1>5, <4>2, <4>3
      <4> QED
        BY <4>4 DEF q
    <3> QED
      BY <3>2, <3>3
  <2>4. CASE k = key
    <3>1. thread[t].entry # None /\ r = RefreshOf(thread[t].entry)
      BY <1>1, <2>1, <2>2, <2>4, WithFacts DEF RefreshOf
    <3>2. CASE Storing(thread[t])
      BY <3>1, <3>2 DEF NewestInv
    <3>3. CASE ~Storing(thread[t])
      <4>1. thread[t].after = "app"
        BY <1>1, <3>1, <3>3 DEF Storing
      <4>2. thread[t].was # None /\ thread[t].entry.refresh = thread[t].was.refresh
        BY <1>1, <4>1 DEF Equipped
      <4>3. thread[t].was = EntryIn(disk.entries, key)
        BY <2>1, <4>2 DEF Races, KeyAt
      <4>4. key \in DOMAIN disk.entries /\ r = disk.entries[key].refresh
        BY <1>1, <3>1, <4>2, <4>3, EntryInType DEF RefreshOf
      <4>5. live[r[1]] = r[2] \/ Stored(q)
        BY <2>1, <4>4 DEF GoesOnInv
      <4>6. CASE Stored(q)
        <5> HIDE DEF q
        <5>1. PICK u \in Threads : /\ thread[u].pc \in {"merge", "write"}
                                   /\ thread[u].after = "send" /\ RefreshOf(thread[u].entry) = q
          BY <4>6, StoredFacts
        <5>2. u # t
          BY <4>1, <5>1
        <5>3. Waits(q)
          BY <1>5, <5>1, <5>2
        <5> QED
          BY <5>3 DEF q
      <4> QED
        BY <4>5, <4>6
    <3> QED
      BY <3>2, <3>3
  <2> QED
    BY <2>3, <2>4
<1> QED
  BY <1>7, <1>8, <1>9

\* A number the issuer has not reached is in no file and at no thread.
LEMMA NotReached ==
    ASSUME NEW now \in Seq(Nat), NEW home, NEW l \in DOMAIN now, NEW n \in Nat, n > now[l]
    PROVE  /\ \A key, r : Placed(now, home, key, r) /\ <<l, n>> # None => r # <<l, n>>
           /\ \A F : FilePlaced(now, home, F) /\ <<l, n>> # None => Unseen(F, <<l, n>>)
<1>1. now[l] \in Nat
  OBVIOUS
<1>2. ASSUME NEW key, NEW r, Placed(now, home, key, r), <<l, n>> # None
      PROVE  r # <<l, n>>
  BY <1>1, <1>2 DEF Placed
<1> QED
  BY <1>2 DEF FilePlaced, Unseen

\* The issuer answers a refresh: the thread has the newest token of its login, or the
\* answer never arrived and the login is lost.
LEMMA RefreshTokens ==
    ASSUME CredTypeOK, PlacedInv, NewestInv, GoesOnInv, NEW t \in Threads, Refresh(t)
    PROVE  PlacedInv' /\ NewestInv' /\ GoesOnInv'
<1> DEFINE entry == thread[t].entry
           l == entry.refresh[1]
           next == IF issuer.rotates THEN live[l] + 1 ELSE live[l]
           tokens == Tokens(l, IF issuer.rotates THEN <<l, next>> ELSE None)
           made == EntryOf(tokens, entry.client, entry, time)
<1>1. /\ t[1] \in Procs /\ thread[t] \in ThreadStates /\ thread[t].pc = "refresh"
      /\ Is(t, "refresh") /\ thread[t].entries = <<>> /\ live \in Seq(Nat) /\ disk.entries \in Files
      /\ \A p \in Procs : snapshot[p].entries \in Files
  BY DEF Threads, CredTypeOK, Refresh, Is, Equipped, Snapshots
<1>2. entry \in CredentialEntries /\ entry # None /\ entry.refresh \in Nat \X Nat /\ entry.refresh # None
  BY <1>1 DEF CredTypeOK, Equipped, ThreadStates, CredentialEntries
<1>3. PICK home \in [DOMAIN live -> Keys] : PlacedBy(home)
  BY DEF PlacedInv
<1>4. l \in DOMAIN live /\ home[l] = KeyAt(t) /\ l \in Nat /\ live[l] \in Nat /\ next \in Nat
  <2>1. Placed(live, home, KeyAt(t), entry.refresh)
    BY <1>2, <1>3 DEF PlacedBy, RefreshOf
  <2> QED
    BY <1>1, <1>2, <2>1 DEF Placed
<1>5. CASE Goto(t, Failed(t)) /\ UNCHANGED <<live, lost>>
  <2>1. SnapshotsFollow
    BY <1>1, KeepFollows DEF Refresh
  <2>2. \A u \in Threads : Calm(u)
    BY <1>1, <1>5, FailedIsCalm, GotoCalm DEF Storing
  <2>3. CalmStep
    BY <1>5, <2>1, <2>2 DEF CalmStep, Refresh
  <2> QED
    BY <2>3, CalmPlaced, CalmNewest, CalmGoesOn
<1>6. CASE ~(Goto(t, Failed(t)) /\ UNCHANGED <<live, lost>>)
  <2> DEFINE new == <<l, next>>
  <2>1. /\ Granted(t) /\ live' = [live EXCEPT ![l] = next]
        /\ \/ Goto(t, Put(t, made, entry, "send")) /\ lost' = lost
           \/ Goto(t, Failed(t)) /\ lost' = lost \cup {l}
    BY <1>6 DEF Refresh
  <2>2. entry.refresh = <<l, live[l]>>
    <3>1. entry.refresh = <<entry.refresh[1], entry.refresh[2]>>
      BY <1>2
    <3> QED
      BY <2>1, <3>1 DEF Granted
  <2>3. new \in Nat \X Nat /\ new # None
    BY <1>4, CredentialsAssumption
  <2>4. made # None /\ made.refresh = new
    <3>1. made \in CredentialEntries
          /\ made.refresh = IF issuer.rotates THEN <<l, live[l] + 1>> ELSE entry.refresh
      BY <1>1, <1>4, RefreshedEntry
    <3> HIDE DEF made, entry
    <3> QED
      BY <2>2, <3>1, CredentialsAssumption
  <2>5. PICK s : /\ Goto(t, s) /\ s.entries = <<>>
                 /\ \/ RefreshOf(s.entry) = None /\ lost' = lost \cup {l}
                    \/ /\ s.pc = "merge" /\ s.after = "send" /\ s.url = thread[t].url
                       /\ RefreshOf(s.entry) = new /\ lost' = lost
    <3>1. CASE Goto(t, Put(t, made, entry, "send")) /\ lost' = lost
      <4> DEFINE s == Put(t, made, entry, "send")
      <4>1. /\ s.entries = <<>> /\ s.pc = "merge" /\ s.after = "send"
            /\ s.url = thread[t].url /\ s.entry = made
        <5> HIDE DEF made, entry
        <5> QED
          BY <1>1 DEF Put, ThreadStates
      <4>2. RefreshOf(s.entry) = new
        <5> HIDE DEF made, new
        <5> QED
          BY <2>4, <4>1 DEF RefreshOf
      <4> HIDE DEF s
      <4> QED
        BY <3>1, <4>1, <4>2 DEF s
    <3>2. CASE Goto(t, Failed(t)) /\ lost' = lost \cup {l}
      BY <1>1, <3>2, FailedIsCalm
    <3> QED
      BY Zenon, <2>1, <3>1, <3>2
  <2>6. /\ UNCHANGED <<issuer, disk, clash>> /\ lost \subseteq lost'
        /\ \A p \in Procs : snapshot'[p] \in {snapshot[p], Fresh}
    BY <1>1, <2>5 DEF Refresh, Keep, CredTypeOK
  <2>7. thread'[t] = s /\ \A u \in Threads \ {t} : thread'[u] = thread[u]
    BY <2>5 DEF Goto, CredTypeOK
  <2> HIDE DEF made, entry, tokens, l, next
  <2>8. /\ live' \in Seq(Nat) /\ DOMAIN live' = DOMAIN live /\ live'[l] = next
        /\ \A i \in DOMAIN live : live[i] <= live'[i] /\ (i # l => live'[i] = live[i])
    <3>1. live' \in Seq(Nat) /\ DOMAIN live' = DOMAIN live /\ live'[l] = next
      BY <1>1, <1>4, <2>1
    <3>2. \A i \in DOMAIN live : i # l => live'[i] = live[i] /\ live[i] \in Nat
      BY <1>1, <2>1
    <3>3. live[l] <= next
      BY <1>4 DEF next
    <3> QED
      BY <3>1, <3>2, <3>3
  <2>9. PlacedInv'
    <3>1. FilePlaced(live', home, disk'.entries)
      BY <1>1, <1>3, <2>6, <2>8, FilePlacedGrows DEF PlacedBy
    <3>2. ASSUME NEW p \in Procs
          PROVE  FilePlaced(live', home, snapshot'[p].entries)
      <4>1. FilePlaced(live', home, snapshot[p].entries)
        BY <1>1, <1>3, <2>8, FilePlacedGrows DEF PlacedBy
      <4> QED
        BY <2>6, <4>1, NothingPlaced DEF Fresh
    <3>3. ASSUME NEW u \in Threads
          PROVE  /\ FilePlaced(live', home, thread'[u].entries)
                 /\ Placed(live', home, CredentialKey(thread'[u].url), RefreshOf(thread'[u].entry))
      <4>1. CASE u # t
        <5>1. thread[u].entries \in Files /\ RefreshOf(thread[u].entry) \in (Nat \X Nat) \cup {None}
          BY RefreshTypes DEF CredTypeOK, ThreadStates
        <5>2. FilePlaced(live', home, thread[u].entries)
          BY <1>1, <1>3, <2>8, <5>1, FilePlacedGrows DEF PlacedBy
        <5>3. Placed(live', home, KeyAt(u), RefreshOf(thread[u].entry))
          <6> DEFINE r == RefreshOf(thread[u].entry)
          <6>1. Placed(live, home, KeyAt(u), r)
            BY <1>3 DEF PlacedBy
          <6>2. r \in (Nat \X Nat) \cup {None}
            BY <5>1
          <6> HIDE DEF r
          <6>3. Placed(live', home, KeyAt(u), r)
            BY <1>1, <2>8, <6>1, <6>2, PlacedGrows
          <6> QED
            BY <6>3 DEF r
        <5> QED
          BY <2>7, <4>1, <5>2, <5>3 DEF KeyAt
      <4>2. CASE u = t
        <5>1. Placed(live', home, KeyAt(t), new)
          BY <1>4, <2>8 DEF Placed
        <5> HIDE DEF new
        <5> QED
          BY <2>5, <2>7, <4>2, <5>1, NothingPlaced DEF KeyAt
      <4> QED
        BY <4>1, <4>2
    <3>4. PlacedBy(home)'
      BY <3>1, <3>2, <3>3 DEF PlacedBy, KeyAt
    <3> QED
      BY <2>8, <3>4 DEF PlacedInv
  <2>10. NewestInv'
    <3>1. ASSUME NEW F \in Files, FilePlaced(live, home, F), issuer.rotates
          PROVE  Unseen(F, new)
      <4>1. next > live[l]
        BY <1>4, <3>1 DEF next
      <4> QED
        BY <1>1, <1>4, <2>3, <3>1, <4>1, NotReached
    <3>2. ASSUME NEW u \in Threads, Storing(thread'[u])
          PROVE  LET r == RefreshOf(thread'[u].entry) IN
                 /\ r[2] = live'[r[1]]
                 /\ issuer.rotates =>
                      /\ Unseen(disk'.entries, r)
                      /\ \A p \in Procs : Unseen(snapshot'[p].entries, r)
                      /\ \A v \in Threads \ {u} :
                           Unseen(thread'[v].entries, r) /\ RefreshOf(thread'[v].entry) # r
      <4>0. Unseen(<<>>, new)
        BY FileFacts DEF Unseen
      <4>1. CASE u = t
        <5>1. RefreshOf(thread'[u].entry) = new
          BY <2>5, <2>7, <3>2, <4>1 DEF Storing
        <5>2. ASSUME issuer.rotates
              PROVE  /\ Unseen(disk'.entries, new)
                     /\ \A p \in Procs : Unseen(snapshot'[p].entries, new)
                     /\ \A v \in Threads \ {u} :
                          Unseen(thread'[v].entries, new) /\ RefreshOf(thread'[v].entry) # new
          <6>1. Unseen(disk'.entries, new)
            BY <1>1, <1>3, <2>6, <3>1, <5>2 DEF PlacedBy
          <6>2. \A p \in Procs : Unseen(snapshot'[p].entries, new)
            <7>1. \A p \in Procs : Unseen(snapshot[p].entries, new)
              BY <1>1, <1>3, <3>1, <5>2 DEF PlacedBy
            <7> QED
              BY <2>6, <4>0, <7>1 DEF Fresh
          <6>3. ASSUME NEW v \in Threads \ {u}
                PROVE  Unseen(thread'[v].entries, new) /\ RefreshOf(thread'[v].entry) # new
            <7>1. thread[v].entries \in Files
              BY DEF CredTypeOK, ThreadStates
            <7>2. Unseen(thread[v].entries, new)
              BY <1>3, <3>1, <5>2, <7>1 DEF PlacedBy
            <7>3. RefreshOf(thread[v].entry) # new
              <8>1. Placed(live, home, KeyAt(v), RefreshOf(thread[v].entry))
                BY <1>3 DEF PlacedBy
              <8>2. next > live[l]
                BY <1>4, <5>2 DEF next
              <8> QED
                BY <1>1, <1>4, <2>3, <8>1, <8>2, NotReached
            <7> QED
              BY <2>7, <4>1, <7>2, <7>3
          <6> QED
            BY <6>1, <6>2, <6>3
        <5>3. new[2] = live'[new[1]]
          BY <2>8
        <5> HIDE DEF new
        <5> QED
          BY <5>1, <5>2, <5>3
      <4>2. CASE u # t
        <5> DEFINE r == RefreshOf(thread[u].entry)
        <5>1. thread'[u] = thread[u] /\ r # None /\ r \in Nat \X Nat /\ r[2] = live[r[1]]
              /\ (issuer.rotates => OnlyAt(u, r))
          <6>1. thread'[u] = thread[u] /\ Storing(thread[u])
            BY <2>7, <3>2, <4>2
          <6>2. r \in (Nat \X Nat) \cup {None} /\ r # None
            BY <6>1, RefreshTypes DEF CredTypeOK, ThreadStates, Storing
          <6> QED
            BY <6>1, <6>2 DEF NewestInv
        <5> HIDE DEF r
        <5>2. r = <<r[1], r[2]>>
          BY <5>1
        <5>3. ASSUME issuer.rotates
              PROVE  r[1] # l
          <6>1. RefreshOf(thread[t].entry) # r
            BY <4>2, <5>1, <5>3 DEF OnlyAt
          <6>2. RefreshOf(thread[t].entry) = <<l, live[l]>>
            BY <1>2, <2>2 DEF RefreshOf, entry
          <6> QED
            BY <5>1, <5>2, <6>1, <6>2
        <5>4. r[2] = live'[r[1]]
          <6>1. CASE issuer.rotates
            <7>1. r[1] \in DOMAIN live
              BY <1>3, <5>1 DEF PlacedBy, Placed, r
            <7> QED
              BY <2>8, <5>1, <5>3, <6>1, <7>1
          <6>2. CASE ~issuer.rotates
            BY <1>1, <1>4, <2>1, <5>1, <6>2 DEF next
          <6> QED
            BY <6>1, <6>2
        <5>5. ASSUME issuer.rotates
              PROVE  /\ Unseen(disk'.entries, r)
                     /\ \A p \in Procs : Unseen(snapshot'[p].entries, r)
                     /\ \A v \in Threads \ {u} :
                          Unseen(thread'[v].entries, r) /\ RefreshOf(thread'[v].entry) # r
          <6>1. OnlyAt(u, r) /\ Unseen(<<>>, r)
            BY <5>1, <5>5, FileFacts DEF Unseen
          <6>2. Unseen(s.entries, r) /\ RefreshOf(s.entry) # r
            BY <2>5, <5>1, <5>3, <5>5, <6>1
          <6> QED
            BY <2>6, <2>7, <6>1, <6>2 DEF OnlyAt, Fresh
        <5> QED
          BY <5>1, <5>4, <5>5 DEF r
      <4> QED
        BY <4>1, <4>2
    <3> QED
      BY <2>6, <3>2 DEF NewestInv, OnlyAt
  <2>11. GoesOnInv'
    <3> SUFFICES ASSUME ~clash, NEW k \in DOMAIN disk.entries,
                        disk.entries[k].refresh # None, disk.entries[k].refresh[1] \notin lost'
                 PROVE  LET r == disk.entries[k].refresh IN
                        \/ live'[r[1]] = r[2]
                        \/ \E u \in Threads :
                             /\ thread'[u].pc \in {"merge", "write"} /\ thread'[u].after = "send"
                             /\ RefreshOf(thread'[u].entry) = <<r[1], live'[r[1]]>>
      BY <2>6 DEF GoesOnInv, Stored
    <3> DEFINE r == disk.entries[k].refresh
    <3>1. CASE r[1] = l
      <4>1. s.pc = "merge" /\ s.after = "send" /\ RefreshOf(s.entry) = new
        BY <2>5, <3>1
      <4>2. new = <<r[1], live'[r[1]]>>
        BY <2>8, <3>1
      <4> HIDE DEF new, r
      <4>3. RefreshOf(thread'[t].entry) = <<r[1], live'[r[1]]>>
        BY <2>7, <4>1, <4>2
      <4> QED
        BY <2>7, <4>1, <4>3 DEF r
    <3>2. CASE r[1] # l
      <4>1. r[1] \in DOMAIN live
        BY <1>3 DEF PlacedBy, FilePlaced, Placed
      <4>2. live'[r[1]] = live[r[1]]
        BY <2>8, <3>2, <4>1
      <4>3. live[r[1]] = r[2] \/ Stored(<<r[1], live[r[1]]>>)
        BY <2>6 DEF GoesOnInv
      <4> HIDE DEF r
      <4>4. CASE Stored(<<r[1], live[r[1]]>>)
        <5>1. PICK u \in Threads : /\ thread[u].pc \in {"merge", "write"} /\ thread[u].after = "send"
                                   /\ RefreshOf(thread[u].entry) = <<r[1], live[r[1]]>>
          BY <4>4 DEF Stored
        <5>2. thread'[u] = thread[u]
          BY <1>1, <2>7, <5>1
        <5> QED
          BY <4>2, <5>1, <5>2 DEF r
      <4> QED
        BY <4>2, <4>3, <4>4 DEF r
    <3> QED
      BY <3>1, <3>2
  <2> QED
    BY <2>9, <2>10, <2>11
<1> QED
  BY <1>5, <1>6

\* A login that never was is in no file and at no thread.
LEMMA NoSuchLogin ==
    ASSUME NEW now, NEW home, NEW q, q # None, q[1] \notin DOMAIN now
    PROVE  /\ \A key, r : Placed(now, home, key, r) => r # q
           /\ \A F : FilePlaced(now, home, F) => Unseen(F, q)
<1>1. ASSUME NEW key, NEW r, Placed(now, home, key, r)
      PROVE  r # q
  BY <1>1 DEF Placed
<1> QED
  BY <1>1 DEF FilePlaced, Unseen

\* A login of its own: the key it is kept under becomes its home.
LEMMA ExchangeTokens ==
    ASSUME CredTypeOK, PlacedInv, NewestInv, GoesOnInv, NEW p \in Procs, Exchange(p), live' # live
    PROVE  PlacedInv' /\ NewestInv' /\ GoesOnInv'
<1> DEFINE t == Main(p)
           l == Len(live) + 1
           given == IF issuer.refreshes THEN <<l, 0>> ELSE None
           made == EntryOf(Tokens(l, given), [issuer |-> ClientIssuer], None, time)
           s == Put(t, made, None, "idle")
<1>1. /\ t \in Threads /\ thread[t] \in ThreadStates /\ thread[t].pc = "exchange"
      /\ thread[t].entries = <<>> /\ thread[t].url \in Urls /\ live \in Seq(Nat)
      /\ disk.entries \in Files
  BY DEF Main, Threads, Roles, CredTypeOK, Exchange, Is, Equipped, Snapshots
<1>2. PICK home \in [DOMAIN live -> Keys] : PlacedBy(home)
  BY DEF PlacedInv
<1>3. live' = Append(live, 0) /\ Goto(t, s)
  BY DEF Exchange
<1>4. /\ l \in Nat /\ l \notin DOMAIN live /\ given \in (Nat \X Nat) \cup {None}
  BY <1>1, CredentialsAssumption
<1>5. s.entries = <<>> /\ s.url = thread[t].url /\ RefreshOf(s.entry) = given
  <2>1. made \in CredentialEntries /\ made.refresh = given
    <3> HIDE DEF l
    <3>1. [issuer |-> ClientIssuer] \in [issuer : {ClientIssuer}]
      OBVIOUS
    <3> HIDE DEF given
    <3> QED
      BY <1>4, <3>1, EntryOfType
  <2> HIDE DEF made, given
  <2>2. made # None
    BY <2>1, CredentialsAssumption
  <2> QED
    BY <1>1, <2>1, <2>2 DEF Put, ThreadStates, RefreshOf
<1>6. /\ UNCHANGED <<issuer, disk, clash, lost>>
      /\ \A q \in Procs : snapshot'[q] \in {snapshot[q], Fresh}
  BY DEF Exchange, Keep, CredTypeOK
<1> HIDE DEF s, made
<1>7. thread'[t] = s /\ \A u \in Threads \ {t} : thread'[u] = thread[u]
  BY <1>1, <1>3 DEF Goto, CredTypeOK
<1>8. /\ live' \in Seq(Nat) /\ DOMAIN live' = DOMAIN live \cup {l} /\ live'[l] = 0
      /\ \A i \in DOMAIN live : live[i] <= live'[i] /\ live'[i] = live[i]
  BY <1>1, <1>3
<1> HIDE DEF t, l
<1> DEFINE home2 == [i \in DOMAIN live' |-> IF i = l THEN KeyAt(t) ELSE home[i]]
<1>9. /\ home2 \in [DOMAIN live' -> Keys] /\ home2[l] = KeyAt(t)
      /\ \A i \in DOMAIN live : home2[i] = home[i]
  <2>1. KeyAt(t) \in Keys
    BY <1>1, KeyOfUrl DEF KeyAt
  <2> QED
    BY <1>4, <1>8, <2>1
<1> HIDE DEF home2
<1>10. PlacedInv'
  <2>1. ASSUME NEW F \in Files, FilePlaced(live, home, F)
        PROVE  FilePlaced(live', home2, F)
    BY <1>1, <1>8, <1>9, <2>1, FilePlacedGrows
  <2>2. ASSUME NEW q \in Procs
        PROVE  FilePlaced(live', home2, snapshot'[q].entries)
    <3>1. FilePlaced(live', home2, snapshot[q].entries)
      BY <1>2, <2>1 DEF PlacedBy, CredTypeOK, Snapshots
    <3> QED
      BY <1>6, <3>1, NothingPlaced DEF Fresh
  <2>3. ASSUME NEW u \in Threads
        PROVE  /\ FilePlaced(live', home2, thread'[u].entries)
               /\ Placed(live', home2, CredentialKey(thread'[u].url), RefreshOf(thread'[u].entry))
    <3>1. CASE u # t
      <4> DEFINE r == RefreshOf(thread[u].entry)
      <4>1. thread[u].entries \in Files /\ r \in (Nat \X Nat) \cup {None}
        BY RefreshTypes DEF CredTypeOK, ThreadStates
      <4>2. FilePlaced(live, home, thread[u].entries) /\ Placed(live, home, KeyAt(u), r)
        BY <1>2 DEF PlacedBy
      <4> HIDE DEF r
      <4>3. Placed(live', home2, KeyAt(u), r)
        BY <1>1, <1>8, <1>9, <4>1, <4>2, PlacedGrows
      <4> QED
        BY <1>7, <2>1, <3>1, <4>1, <4>2, <4>3 DEF r, KeyAt
    <3>2. CASE u = t
      <4>1. Placed(live', home2, KeyAt(t), given)
        BY <1>8, <1>9 DEF Placed
      <4> HIDE DEF given
      <4> QED
        BY <1>5, <1>7, <3>2, <4>1, NothingPlaced DEF KeyAt
    <3> QED
      BY <3>1, <3>2
  <2>4. FilePlaced(live', home2, disk'.entries)
    BY <1>1, <1>2, <1>6, <2>1 DEF PlacedBy
  <2>5. \E h \in [DOMAIN live' -> Keys] :
          /\ FilePlaced(live', h, disk'.entries)
          /\ \A q \in Procs : FilePlaced(live', h, snapshot'[q].entries)
          /\ \A u \in Threads :
               /\ FilePlaced(live', h, thread'[u].entries)
               /\ Placed(live', h, CredentialKey(thread'[u].url), RefreshOf(thread'[u].entry))
    BY <1>9, <2>2, <2>3, <2>4
  <2> QED
    BY <2>5 DEF PlacedInv, PlacedBy, KeyAt
<1>11. NewestInv'
  <2> SUFFICES ASSUME NEW u \in Threads, Storing(thread'[u])
               PROVE  LET r == RefreshOf(thread'[u].entry) IN
                      /\ r[2] = live'[r[1]]
                      /\ issuer.rotates =>
                           /\ Unseen(disk'.entries, r)
                           /\ \A q \in Procs : Unseen(snapshot'[q].entries, r)
                           /\ \A v \in Threads \ {u} :
                                Unseen(thread'[v].entries, r) /\ RefreshOf(thread'[v].entry) # r
    BY <1>6 DEF NewestInv, OnlyAt
  <2>0. \A r : Unseen(<<>>, r)
    BY FileFacts DEF Unseen
  <2>1. CASE u = t
    <3>1. RefreshOf(thread'[u].entry) = given /\ given # None
      BY <1>5, <1>7, <2>1 DEF Storing
    <3>2. given = <<l, 0>> /\ given[1] \notin DOMAIN live /\ given[2] = live'[given[1]]
      BY <1>4, <1>8, <3>1
    <3> HIDE DEF given
    <3>3. /\ \A key, r : Placed(live, home, key, r) => r # given
          /\ \A F : FilePlaced(live, home, F) => Unseen(F, given)
      BY <3>1, <3>2, NoSuchLogin
    <3>4. Unseen(disk'.entries, given) /\ \A q \in Procs : Unseen(snapshot'[q].entries, given)
      BY <1>2, <1>6, <2>0, <3>3 DEF PlacedBy, Fresh
    <3>5. \A v \in Threads \ {t} : Unseen(thread'[v].entries, given)
                                   /\ RefreshOf(thread'[v].entry) # given
      BY <1>2, <1>7, <3>3 DEF PlacedBy
    <3> QED
      BY <2>1, <3>1, <3>2, <3>4, <3>5
  <2>2. CASE u # t
    <3> DEFINE r == RefreshOf(thread[u].entry)
    <3>1. thread'[u] = thread[u] /\ Storing(thread[u])
      BY <1>7, <2>2
    <3>2. r # None /\ r[2] = live[r[1]] /\ (issuer.rotates => OnlyAt(u, r))
      BY <3>1 DEF NewestInv, Storing
    <3>3. r[1] \in DOMAIN live
      BY <1>2, <3>2 DEF PlacedBy, Placed
    <3> HIDE DEF r
    <3>4. RefreshOf(s.entry) # r
      BY <1>4, <1>5, <3>2, <3>3
    <3>5. ASSUME issuer.rotates
          PROVE  /\ Unseen(disk'.entries, r)
                 /\ \A q \in Procs : Unseen(snapshot'[q].entries, r)
                 /\ \A v \in Threads \ {u} :
                      Unseen(thread'[v].entries, r) /\ RefreshOf(thread'[v].entry) # r
      BY <1>5, <1>6, <1>7, <2>0, <3>2, <3>4, <3>5 DEF OnlyAt, Fresh
    <3> QED
      BY <1>8, <3>1, <3>2, <3>3, <3>5 DEF r
  <2> QED
    BY <2>1, <2>2
<1>12. GoesOnInv'
  <2> SUFFICES ASSUME ~clash, NEW k \in DOMAIN disk.entries,
                      disk.entries[k].refresh # None, disk.entries[k].refresh[1] \notin lost
               PROVE  LET r == disk.entries[k].refresh IN
                      \/ live'[r[1]] = r[2]
                      \/ \E u \in Threads :
                           /\ thread'[u].pc \in {"merge", "write"} /\ thread'[u].after = "send"
                           /\ RefreshOf(thread'[u].entry) = <<r[1], live'[r[1]]>>
    BY <1>6 DEF GoesOnInv, Stored
  <2> DEFINE r == disk.entries[k].refresh
  <2>1. r[1] \in DOMAIN live
    BY <1>2 DEF PlacedBy, FilePlaced, Placed
  <2>2. live'[r[1]] = live[r[1]] /\ (live[r[1]] = r[2] \/ Stored(<<r[1], live[r[1]]>>))
    BY <1>8, <2>1 DEF GoesOnInv
  <2> HIDE DEF r
  <2>3. CASE Stored(<<r[1], live[r[1]]>>)
    <3>1. PICK u \in Threads : /\ thread[u].pc \in {"merge", "write"} /\ thread[u].after = "send"
                               /\ RefreshOf(thread[u].entry) = <<r[1], live[r[1]]>>
      BY <2>3 DEF Stored
    <3>2. thread'[u] = thread[u]
      BY <1>1, <1>7, <3>1
    <3> QED
      BY <2>2, <3>1, <3>2 DEF r
  <2> QED
    BY <2>2, <2>3 DEF r
<1> QED
  BY <1>10, <1>11, <1>12

\* The tokens of the first state, and of every later one.
LEMMA TokensInit == CredInit => WireInv /\ PlacedInv /\ NewestInv /\ GoesOnInv
<1> SUFFICES ASSUME CredInit PROVE WireInv /\ PlacedInv /\ NewestInv /\ GoesOnInv
  OBVIOUS
<1>1. /\ disk = Fresh /\ live = <<>> /\ \A p \in Procs : snapshot[p] = Fresh
      /\ \A t \in Threads : thread[t] = Idle
  BY DEF CredInit
<1>2. WireInv
  BY <1>1 DEF WireInv, Threads, Roles, Idle
<1>3. PlacedInv
  <2>1. \A home : PlacedBy(home)
    BY <1>1, IdleIsCalm, NothingPlaced DEF PlacedBy, Fresh
  <2>2. [i \in DOMAIN live |-> CHOOSE key \in Keys : TRUE] \in [DOMAIN live -> Keys]
    BY <1>1
  <2> QED
    BY <2>1, <2>2 DEF PlacedInv
<1>4. NewestInv
  BY <1>1, IdleIsCalm DEF NewestInv
<1>5. GoesOnInv
  BY <1>1, FileFacts DEF GoesOnInv, Fresh
<1> QED
  BY <1>2, <1>3, <1>4, <1>5

\* The tokens of a login are where they were put, the newest one of a rotating issuer is
\* nowhere else, and a stored login can go on.
TokensInv == PlacedInv /\ NewestInv /\ GoesOnInv

\* Every step keeps the tokens where they are known to be.
LEMMA TokensKept ==
    ASSUME CredTypeOK, WireInv, FilesInv, TokensInv, [CredNext]_credVars
    PROVE  TokensInv'
<1>1. CalmStep => TokensInv'
  BY CalmPlaced, CalmNewest, CalmGoesOn DEF TokensInv
<1>2. ASSUME NEW t \in Threads, Send(t)
      PROVE  CalmStep
  <2>1. CASE t[2] = "main" => thread[<<t[1], "wire">>].pc = "idle"
    BY <1>2, <2>1, SendCalm
  <2>2. CASE t[2] = "main" /\ thread[<<t[1], "wire">>].pc # "idle"
    <3>1. t[1] \in Procs /\ t = <<t[1], "main">>
      BY <2>2 DEF Threads, Roles
    <3>2. Opened(thread[t])
      BY <2>2, <3>1 DEF WireInv
    <3> QED
      BY <1>2, <3>2 DEF Send, Is, Opened
  <2> QED
    BY <2>1, <2>2
<1>3. ASSUME NEW t \in Threads, Ask(t) \/ Send(t) \/ RememberUser(t) \/ Stat(t)
      PROVE  TokensInv'
  BY <1>1, <1>2, <1>3, AskCalm, RememberCalm, StatCalm
<1>4. ASSUME NEW t \in Threads, Refresh(t)
      PROVE  TokensInv'
  BY <1>4, RefreshTokens DEF TokensInv
<1>5. ASSUME NEW t \in Threads, Merge(t)
      PROVE  TokensInv'
  BY <1>1, <1>5, MergeTokens, NothingDeletedCalm DEF TokensInv
<1>6. ASSUME NEW t \in Threads, Write(t)
      PROVE  TokensInv'
  BY <1>6, WriteTokens DEF TokensInv
<1>7. ASSUME NEW p \in Procs, AuthCommand(p) \/ Callback(p) \/ Drop(p) \/ \E url \in Urls : Connect(p, url)
      PROVE  TokensInv'
  BY <1>1, <1>7, CommandsCalm, CallbackCalm, DropCalm
<1>8. ASSUME NEW p \in Procs, Exchange(p)
      PROVE  TokensInv'
  BY <1>1, <1>8, NothingObtainedCalm, ExchangeTokens DEF TokensInv
<1>9. ASSUME NEW p \in Procs, End(p)
      PROVE  TokensInv'
  BY <1>9, EndTokens DEF TokensInv
<1>10. CASE CredTick
  BY <1>1, <1>10, TickCalm
<1>11. CASE UNCHANGED credVars
  <2>1. CalmStep
    BY <1>11 DEF credVars, CalmStep, Calm, SnapshotsFollow
  <2> QED
    BY <1>1, <2>1
<1> QED
  BY <1>3, <1>4, <1>5, <1>6, <1>7, <1>8, <1>9, <1>10, <1>11 DEF CredNext

-----------------------------------------------------------------------------
(* Whose tokens open a socket *)

\* A set of numbers has a least one.
LEMMA LeastExists ==
    ASSUME NEW S \in SUBSET Nat, S # {}
    PROVE  Min(S) \in S /\ \A m \in S : Min(S) <= m
<1> DEFINE R == {ss \in Nat \X Nat : ss[1] < ss[2]}
<1>1. IsWellFoundedOn(R, Nat)
  BY NatLessThanWellFounded DEF OpToRel
<1>2. \E x \in S : \A y \in S : ~(<<y, x>> \in R)
  <2> HIDE DEF R
  <2> QED
    BY <1>1, WFMin, Zenon
<1>3. PICK x \in S : \A y \in S : ~(<<y, x>> \in R)
  BY <1>2
<1>4. ASSUME NEW y \in S
      PROVE  x =< y
  <2>1. x \in Nat /\ y \in Nat
    OBVIOUS
  <2>2. ~(y < x)
    BY <1>3, <2>1
  <2> QED
    BY <2>1, <2>2
<1>5. \E n \in S : \A m \in S : n =< m
  BY <1>4
<1> QED
  BY <1>5 DEF Min

\* Whom the issuer vouches for: the first backend that takes the token checks that it
\* is for this server, or that the first claim naming a client names one of its own.
LEMMA OursByChain ==
    ASSUME NEW h \in DOMAIN Server, NEW token \in StoredTokens, Starts(Server[h]),
           ByChain(Server[h].backends, token) # Refusal
    PROVE  token.app = "ours"
<1> DEFINE chain == Server[h].backends
           fitting == {i \in DOMAIN chain : Accepts(chain[i], token)}
           b == chain[Min(fitting)]
           brief == [iss |-> token.iss, aud |-> token.aud, claims |-> token.claims, app |-> token.app]
<1>1. brief \in Vouched
  BY DEF Vouched, StoredTokens
<1>2. DOMAIN chain \in SUBSET Nat
  BY IssuerAssumption
<1>3. fitting # {} /\ Identified(b, token, time)
  BY DEF ByChain
<1>4. Min(fitting) \in fitting
  <2>1. fitting \in SUBSET Nat
    BY <1>2
  <2> HIDE DEF fitting
  <2> QED
    BY <1>3, <2>1, LeastExists
<1>5. /\ Min(fitting) \in DOMAIN chain /\ token.iss = b.issuer /\ ~BackendRefused(b)
  BY <1>4 DEF Accepts, Starts
<1>6. /\ None \notin b.clients
      /\ \/ b.publicUrl \in token.aud
         \/ \E j \in DOMAIN ClientClaims :
              NamedFirst(brief, j) /\ brief.claims[ClientClaims[j]] \in b.clients
         => token.app = "ours"
  <2> DEFINE n == Min(fitting)
  <2>0. n \in DOMAIN chain /\ token.iss = chain[n].issuer
    BY <1>5
  <2> HIDE DEF n
  <2>1. /\ None \notin chain[n].clients
        /\ /\ brief.iss = chain[n].issuer
           /\ \/ chain[n].publicUrl \in brief.aud
              \/ \E j \in DOMAIN ClientClaims :
                   NamedFirst(brief, j) /\ brief.claims[ClientClaims[j]] \in chain[n].clients
           => brief.app = "ours"
    <3> HIDE DEF brief
    <3> QED
      BY <1>1, <2>0, IssuerAssumption
  <2> QED
    BY <2>0, <2>1 DEF n
<1>7. CASE b.audience = b.publicUrl
  BY <1>3, <1>6, <1>7 DEF Identified
<1>8. CASE b.audience # b.publicUrl
  <2> DEFINE present == {i \in DOMAIN ClientClaims : ClientClaims[i] \in DOMAIN token.claims}
             m == Min(present)
  <2>1. ClientOf(token) \in b.clients
    BY <1>3, <1>5, <1>8 DEF Identified, ListedClient, BackendRefused
  <2>2. present # {} /\ token.claims[ClientClaims[m]] \in b.clients
    BY <1>6, <2>1 DEF ClientOf
  <2>3. DOMAIN ClientClaims \in SUBSET Nat /\ DOMAIN ClientClaims = 1 .. Len(ClientClaims)
        /\ Len(ClientClaims) \in Nat
    BY IssuerAssumption
  <2>4. m \in present /\ \A j \in present : m <= j
    <3>1. present \in SUBSET Nat
      BY <2>3
    <3> HIDE DEF present
    <3> QED
      BY <2>2, <3>1, LeastExists
  <2>5. m \in 1 .. Len(ClientClaims) /\ ClientClaims[m] \in DOMAIN token.claims
    BY <2>3, <2>4
  <2> HIDE DEF m
  <2>6. ASSUME NEW j \in 1 .. m - 1
        PROVE  ClientClaims[j] \notin DOMAIN token.claims
    <3>1. j \in DOMAIN ClientClaims /\ j < m
      BY <2>3, <2>5
    <3>2. j \notin present
      BY <2>3, <2>4, <2>5, <3>1
    <3> QED
      BY <3>1, <3>2
  <2>7. NamedFirst(brief, m) /\ brief.claims[ClientClaims[m]] \in b.clients
    BY <2>2, <2>5, <2>6 DEF NamedFirst, m
  <2> QED
    BY <1>6, <2>3, <2>5, <2>7
<1> QED
  BY <1>7, <1>8

\* A server that checks credentials takes only a token the chain identifies.
LEMMA OursByVerdict ==
    ASSUME NEW h \in DOMAIN Server, NEW token \in StoredTokens \cup {None}, Starts(Server[h]),
           Server[h].mode = "credential", Verdict(Server[h], token) # Refusal
    PROVE  token.app = "ours"
<1>1. Verdict(Server[h], token) = CredentialMode(Server[h].backends, token)
  BY DEF Verdict
<1>2. token # None /\ ByChain(Server[h].backends, token) # Refusal
  BY <1>1 DEF CredentialMode
<1> QED
  BY <1>2, OursByChain

\* Whatever a server that checks credentials has let in, in any step of a thread.
Ours(state) ==
    state.hello # None /\ Server[state.url.host].mode = "credential" =>
        state.hello.token.app = "ours"
OursInv == \A t \in Threads : Ours(thread[t])

\* A thread has no answer of a server, or still the one it had.
LEMMA OursKept ==
    ASSUME CredTypeOK, OursInv, NEW t \in Threads, NEW s, Goto(t, s),
           \/ s.hello = None
           \/ s.hello = thread[t].hello /\ s.url = thread[t].url
    PROVE  OursInv'
<1>1. Ours(s)
  BY DEF OursInv, Ours
<1>2. \A u \in Threads : thread'[u] = s \/ thread'[u] = thread[u]
  BY DEF Goto, CredTypeOK
<1> QED
  BY <1>1, <1>2 DEF OursInv, Ours

\* An open socket has the token the server took.
LEMMA SendOurs ==
    ASSUME CredTypeOK, OursInv, NEW t \in Threads, Send(t)
    PROVE  OursInv'
<1> DEFINE server == Server[thread[t].url.host]
           token == IF Entry(t) = None THEN None ELSE Entry(t).token
           hello == Verdict(server, token)
           greeting == [verdict |-> hello, token |-> token]
           open == [thread[t] EXCEPT !.pc = "app", !.hello = greeting]
<1>1. thread[t] \in ThreadStates /\ thread[t].url \in Urls /\ t[1] \in Procs
  BY DEF CredTypeOK, Threads, Send, Is, Equipped
<1>2. CASE Goto(t, Failed(t))
  <2>1. Failed(t).hello = None
    BY <1>1 DEF Failed, Idle, ThreadStates
  <2> QED
    BY <1>2, <2>1, OursKept
<1>3. CASE ~Goto(t, Failed(t))
  <2>1. /\ Starts(server) /\ hello # Refusal
        /\ thread' = [u \in Threads |->
              IF u = <<t[1], "wire">> THEN open
              ELSE IF u = t THEN [open EXCEPT !.pc = "remember"] ELSE thread[u]]
    BY <1>3 DEF Send
  <2>2. token \in StoredTokens \cup {None} /\ thread[t].url.host \in DOMAIN Server
    BY <1>1, EntryType, CredentialsAssumption DEF CredentialEntries
  <2>3. server.mode = "credential" => token.app = "ours"
    <3> HIDE DEF token
    <3> QED
      BY <2>1, <2>2, OursByVerdict
  <2>4. greeting.token = token
    OBVIOUS
  <2> HIDE DEF greeting, token
  <2>5. /\ open.hello = greeting /\ open.url = thread[t].url
        /\ [open EXCEPT !.pc = "remember"].hello = greeting
        /\ [open EXCEPT !.pc = "remember"].url = thread[t].url
    BY <1>1 DEF ThreadStates
  <2>6. Ours(open) /\ Ours([open EXCEPT !.pc = "remember"])
    BY <2>3, <2>4, <2>5 DEF Ours
  <2> HIDE DEF open
  <2>7. \A u \in Threads : thread'[u] \in {open, [open EXCEPT !.pc = "remember"], thread[u]}
    BY <2>1
  <2>8. \A u \in Threads : Ours(thread'[u])
    BY <2>6, <2>7 DEF OursInv
  <2> QED
    BY <2>8 DEF OursInv, Ours
<1> QED
  BY <1>2, <1>3

\* Every step keeps the answers of the servers, or opens a socket as above.
LEMMA OursHolds ==
    ASSUME CredTypeOK, OursInv, [CredNext]_credVars
    PROVE  OursInv'
<1>1. /\ \A t \in Threads : thread[t] \in ThreadStates
      /\ \A p \in Procs : Main(p) \in Threads /\ <<p, "wire">> \in Threads
      /\ Idle.hello = None
  BY DEF CredTypeOK, Main, Threads, Roles, Idle
<1>2. ASSUME NEW p \in Procs, AuthCommand(p) \/ \E url \in Urls : Connect(p, url)
      PROVE  OursInv'
  <2>1. ASSUME NEW url \in Urls
        PROVE  /\ [Idle EXCEPT !.pc = "ask", !.url = url].hello = None
               /\ [Idle EXCEPT !.pc = "merge", !.url = url].hello = None
               /\ [Idle EXCEPT !.pc = "browser", !.url = url].hello = None
               /\ \A e : [Idle EXCEPT !.pc = "merge", !.url = url, !.entry = e].hello = None
    BY DEF Idle
  <2>2. \E s : Goto(Main(p), s) /\ s.hello = None
    BY <1>2, <2>1, Zenon DEF AuthCommand, Logout, LoginBrowser, LoginPasted, Connect
  <2> QED
    BY <1>1, <2>2, OursKept
<1>3. ASSUME NEW p \in Procs, Callback(p) \/ Exchange(p)
      PROVE  OursInv'
  <2> DEFINE t == Main(p)
             Same(s) == s.hello = None \/ (s.hello = thread[t].hello /\ s.url = thread[t].url)
  <2>1. Same([thread[t] EXCEPT !.pc = "exchange"]) /\ \A e : Same(Put(t, e, None, "idle"))
        /\ Same(Idle)
    BY <1>1 DEF ThreadStates, Put
  <2> HIDE DEF Same
  <2>2. \E s : Goto(t, s) /\ Same(s)
    BY <1>3, <2>1 DEF Callback, Exchange
  <2> QED
    BY <1>1, <2>2, OursKept DEF Same
<1>4. ASSUME NEW t \in Threads,
             Ask(t) \/ Refresh(t) \/ RememberUser(t) \/ Merge(t) \/ Write(t) \/ Stat(t)
      PROVE  OursInv'
  <2> DEFINE Same(s) == s.hello = None \/ (s.hello = thread[t].hello /\ s.url = thread[t].url)
  <2>1. /\ Same([thread[t] EXCEPT !.pc = "refresh", !.entry = Entry(t)])
        /\ Same([thread[t] EXCEPT !.pc = "send"])
        /\ Same([thread[t] EXCEPT !.pc = "app", !.hello = None])
        /\ Same([thread[t] EXCEPT !.pc = "stat"])
        /\ Same([Idle EXCEPT !.pc = thread[t].after, !.url = thread[t].url])
        /\ Same(Idle) /\ Same(Failed(t))
        /\ \A F : Same([thread[t] EXCEPT !.pc = "write", !.entries = F])
        /\ \A e, w, a : Same(Put(t, e, w, a))
    BY <1>1 DEF ThreadStates, Put, Failed, Idle
  <2> HIDE DEF Same
  <2>2. \E s : Goto(t, s) /\ Same(s)
    <3>1. CASE Ask(t)
      BY <2>1, <3>1 DEF Ask
    <3>2. CASE Refresh(t)
      BY <2>1, <3>2 DEF Refresh
    <3>3. CASE RememberUser(t)
      BY <2>1, <3>3 DEF RememberUser
    <3>4. CASE Merge(t)
      BY <2>1, <3>4 DEF Merge
    <3>5. CASE Write(t) \/ Stat(t)
      BY <2>1, <3>5 DEF Write, Stat
    <3> QED
      BY <1>4, <3>1, <3>2, <3>3, <3>4, <3>5
  <2> QED
    BY <2>2, OursKept DEF Same
<1>5. ASSUME NEW t \in Threads, Send(t)
      PROVE  OursInv'
  BY <1>5, SendOurs
<1>6. ASSUME NEW p \in Procs, Drop(p)
      PROVE  OursInv'
  <2> DEFINE s == [thread[<<p, "wire">>] EXCEPT !.pc = "ask", !.hello = None]
  <2>1. Goto(<<p, "wire">>, s) /\ s.hello = None
    BY <1>1, <1>6 DEF Drop, ThreadStates
  <2> HIDE DEF s
  <2> QED
    BY <1>1, <2>1, OursKept
<1>7. ASSUME NEW p \in Procs, End(p)
      PROVE  OursInv'
  <2>1. \A u \in Threads : thread'[u] = Idle \/ thread'[u] = thread[u]
    BY <1>7 DEF End
  <2> QED
    BY <1>1, <2>1 DEF OursInv, Ours
<1>8. CASE CredTick \/ UNCHANGED credVars
  BY <1>8 DEF CredTick, credVars, OursInv, Ours
<1> QED
  BY <1>2, <1>3, <1>4, <1>5, <1>6, <1>7, <1>8 DEF CredNext

-----------------------------------------------------------------------------
(* Theorems *)

\* The inductive invariant.
CredInv == CredTypeOK /\ WireInv /\ FilesInv /\ TokensInv /\ OursInv

\* The initial states satisfy the inductive invariant.
LEMMA CredInitially == CredInit => CredInv
<1> SUFFICES ASSUME CredInit PROVE CredInv
  OBVIOUS
<1>1. OursInv
  BY DEF CredInit, OursInv, Ours, Idle
<1> QED
  BY <1>1, InitType, FilesInit, TokensInit DEF CredInv, TokensInv

\* A login whose token is placed is one there was.
LEMMA PlacedIsKnown ==
    ASSUME PlacedInv
    PROVE  LoginsKnown
BY DEF PlacedInv, PlacedBy, Placed, LoginsKnown, RefreshOf

\* Every step keeps the types; a refresh needs the places of the tokens.
LEMMA TypesHold ==
    ASSUME CredTypeOK, PlacedInv, [CredNext]_credVars
    PROVE  CredTypeOK'
<1>1. ASSUME NEW t \in Threads,
             Ask(t) \/ Refresh(t) \/ Send(t) \/ RememberUser(t) \/ Merge(t) \/ Write(t) \/ Stat(t)
      PROVE  CredTypeOK'
  BY <1>1, AskType, RefreshType, PlacedIsKnown, SendType, RememberType, MergeType, WriteType, StatType
<1>2. ASSUME NEW p \in Procs, AuthCommand(p)
      PROVE  CredTypeOK'
  BY <1>2, CommandsType
<1>3. ASSUME NEW p \in Procs, Callback(p) \/ Exchange(p) \/ Drop(p) \/ End(p)
      PROVE  CredTypeOK'
  BY <1>3, BrowserType, DropType, EndType
<1>4. ASSUME NEW p \in Procs, NEW url \in Urls, Connect(p, url)
      PROVE  CredTypeOK'
  BY <1>4, CommandsType
<1>5. CASE CredTick
  BY <1>5 DEF CredTick, CredTypeOK
<1>6. CASE UNCHANGED credVars
  BY <1>6 DEF credVars, CredTypeOK
<1> QED
  BY <1>1, <1>2, <1>3, <1>4, <1>5, <1>6, Zenon DEF CredNext

\* The three steps of a write and the readers, for the file.
LEMMA FilesHold ==
    ASSUME CredTypeOK, FilesInv, [CredNext]_credVars
    PROVE  FilesInv'
<1>1. ASSUME NEW t \in Threads, Merge(t) \/ Write(t) \/ Stat(t)
      PROVE  FilesInv'
  BY <1>1, MergeKeepsFiles, WriteKeepsFiles, StatKeepsFiles
<1>2. CASE \/ \E t \in Threads : Ask(t) \/ Refresh(t) \/ Send(t) \/ RememberUser(t)
           \/ \E p \in Procs : AuthCommand(p) \/ Callback(p) \/ Exchange(p) \/ Drop(p) \/ End(p)
           \/ \E p \in Procs, url \in Urls : Connect(p, url)
           \/ CredTick
  BY <1>2, ReadersKeepFiles
<1>3. CASE UNCHANGED credVars
  BY <1>3, FilesStutter
<1> QED
  BY <1>1, <1>2, <1>3 DEF CredNext

\* Every step keeps the inductive invariant.
LEMMA CredInductive ==
    ASSUME CredInv, [CredNext]_credVars
    PROVE  CredInv'
<1>1. CredTypeOK /\ WireInv /\ FilesInv /\ TokensInv /\ OursInv /\ PlacedInv
  BY DEF CredInv, TokensInv
<1>2. CredTypeOK' /\ FilesInv' /\ OursInv'
  BY <1>1, TypesHold, FilesHold, OursHolds
<1>3. WireInv' /\ TokensInv'
  BY <1>1, WireHolds, TokensKept
<1> QED
  BY <1>2, <1>3 DEF CredInv

\* What the file, the threads and the issuer can be: which fields a thread has at each
\* of its steps, whose refresh token is where, and what a clash-free file amounts to.
THEOREM CredInvariant == CredSpec => []CredInv
<1>1. CredInit => CredInv
  BY CredInitially
<1>2. CredInv /\ [CredNext]_credVars => CredInv'
  BY CredInductive
<1> QED
  BY <1>1, <1>2, PTL DEF CredSpec

\* Unless two threads are between their read and their write at once, the file holds
\* what every login, logout, refresh and remembered user amounts to
\* (FileSnapshot.load, CredentialFile._write).
THEOREM EntriesStay == CredSpec => []EntriesSurvive
<1>1. CredInv => EntriesSurvive
  BY DEF CredInv, FilesInv, EntriesSurvive
<1> QED
  BY <1>1, CredInvariant, PTL

\* A stored login can go on: the issuer would take the refresh token of the file, or a
\* thread is about to store the one it would take (refresh_expired, entry_of).
THEOREM RefreshesGoOn == CredSpec => []RefreshGoesOn
<1>1. CredInv => RefreshGoesOn
  <2> SUFFICES ASSUME CredInv, ~clash, NEW k \in DOMAIN disk.entries,
                      disk.entries[k].refresh # None, disk.entries[k].refresh[1] \notin lost
               PROVE  LET refresh == disk.entries[k].refresh IN
                      \/ live[refresh[1]] = refresh[2]
                      \/ \E t \in Threads :
                           /\ thread[t].pc \in {"merge", "write"} /\ thread[t].after = "send"
                           /\ thread[t].entry.refresh = <<refresh[1], live[refresh[1]]>>
    BY DEF RefreshGoesOn
  <2> DEFINE r == disk.entries[k].refresh
             q == <<r[1], live[r[1]]>>
  <2>1. CredTypeOK /\ (live[r[1]] = r[2] \/ Stored(q))
    BY DEF CredInv, TokensInv, GoesOnInv
  <2> HIDE DEF q
  <2>2. ASSUME Stored(q)
        PROVE  \E t \in Threads :
                 /\ thread[t].pc \in {"merge", "write"} /\ thread[t].after = "send"
                 /\ thread[t].entry.refresh = q
    BY <2>1, <2>2, StoredFacts DEF Storing, RefreshOf
  <2> QED
    BY <2>1, <2>2 DEF q
<1> QED
  BY <1>1, CredInvariant, PTL

\* Nobody enters a server that checks credentials with the token of another app, if the
\* issuer tells the apps apart as IssuerAssumption says (OidcBackend.__init__, identify).
THEOREM OnlyOursEnter == CredSpec => []OnlyOurLogins
<1>1. CredInv => OnlyOurLogins
  BY DEF CredInv, OursInv, Ours, OnlyOurLogins
<1> QED
  BY <1>1, CredInvariant, PTL
===============================================================================
