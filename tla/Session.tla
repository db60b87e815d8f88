------------------------------- MODULE Session -------------------------------
(***************************************************************************)
(* The life of one session: batches are admitted on submitter threads and  *)
(* run on worker threads, users end and force the end, the last of them    *)
(* finalizes, a crash drops the process and a restore rebuilds it.         *)
(* Persistence supplies the durable state and the writer thread.           *)
(***************************************************************************)
EXTENDS Persistence

CONSTANTS
    Enders,    \* the threads that end the session
    Forcing,   \* those of them that force the end
    NoThread,  \* the holder of a free lifecycle lock
    MaxBoots   \* bound: how often a process starts the session

ASSUME ForcingAssumption == Forcing \subseteq Enders
ASSUME ThreadsAssumption == Batches \cap Enders = {} /\ NoThread \notin Batches \cup Enders
ASSUME MaxBootsAssumption == MaxBoots \in Nat

VARIABLES
    boot,      \* "down", "seeding" or "live": the process of the session
    boots,     \* how often a process started it
    status,    \* the session status
    lock,      \* the thread that holds the lifecycle lock
    fin,       \* where the thread that holds it is
    released,  \* the tasks are released
    busClosed, \* the event bus is closed
    toSeed,    \* the open records the restore has yet to seed
    batch,     \* batch |-> its ExecutionStatus, or "NONE" before admission
    stopEvent, \* batch |-> its stop event
    completed, \* batch |-> completed_at is set
    submitter, \* batch |-> where the thread that submits it is
    worker,    \* batch |-> where its worker is
    ender,     \* ender |-> where it is
    sweep,     \* ender |-> the batches it has yet to stop
    ran        \* history: the batches whose worker started

sessionVars == <<boot, boots, status, lock, fin, released, busClosed, toSeed>>
batchVars == <<batch, stopEvent, completed>>
threadVars == <<submitter, worker, ender, sweep>>
historyVars == <<ran>>
vars == <<boot, boots, status, lock, fin, released, busClosed, toSeed,
          batch, stopEvent, completed, submitter, worker, ender, sweep,
          ran, known, queue, writing, writer, closed, snapshot, record,
          place, stray, lost, outcome>>

BatchStatus == { "NONE", "QUEUED", "RUNNING", "FINISHED", "STOPPED", "ERRORED",
                 "INTERRUPTED" }
FinalizerPCs == { "none", "decide", "release", "join", "close", "stop", "stamp",
                  "move", "publish" }

\* The batches without a completion stamp.
Active == { b \in Batches : batch[b] # "NONE" /\ ~completed[b] }

-----------------------------------------------------------------------------
(* A batch: admission, start, stop *)

\* Mutant: an admission that does not look at the status.
AdmitUngated(b) ==
    /\ submitter[b] = "idle" /\ boot = "live" /\ lock = NoThread
    /\ ~released
    /\ batch' = [batch EXCEPT ![b] = "QUEUED"]
    /\ stopEvent' = [stopEvent EXCEPT ![b] = FALSE]
    /\ completed' = [completed EXCEPT ![b] = FALSE]
    /\ submitter' = [submitter EXCEPT ![b] = "registered"]
    /\ UNCHANGED <<worker, ender, sweep>>
    /\ UNCHANGED sessionVars /\ UNCHANGED historyVars /\ UNCHANGED persistenceVars

\* Refusal and registration are one critical section of the lifecycle lock.
Admit(b) ==
    /\ submitter[b] = "idle" /\ boot = "live" /\ lock = NoThread
    /\ status = "ACTIVE"
    /\ batch' = [batch EXCEPT ![b] = "QUEUED"]
    /\ stopEvent' = [stopEvent EXCEPT ![b] = FALSE]
    /\ completed' = [completed EXCEPT ![b] = FALSE]
    /\ submitter' = [submitter EXCEPT ![b] = "registered"]
    /\ UNCHANGED <<worker, ender, sweep>>
    /\ UNCHANGED sessionVars /\ UNCHANGED historyVars /\ UNCHANGED persistenceVars

\* The start writes RUNNING whatever the status is.
Start(b) ==
    /\ submitter[b] = "registered"
    /\ batch' = [batch EXCEPT ![b] = "RUNNING"]
    /\ submitter' = [submitter EXCEPT ![b] = "started"]
    /\ UNCHANGED <<stopEvent, completed, worker, ender, sweep>>
    /\ UNCHANGED sessionVars /\ UNCHANGED historyVars /\ UNCHANGED persistenceVars

\* The created event is dispatched on the submitter; a closed bus or a closed
\* subscriber drops it.
PublishCreated(b) ==
    /\ submitter[b] = "started"
    /\ submitter' = [submitter EXCEPT ![b] = IF busClosed \/ closed THEN "spawn"
                                             ELSE "saving"]
    /\ UNCHANGED <<worker, ender, sweep>> /\ UNCHANGED batchVars
    /\ UNCHANGED sessionVars /\ UNCHANGED historyVars /\ UNCHANGED persistenceVars

\* The open record. A write that fails is isolated by the bus.
SaveCreated(b) ==
    /\ submitter[b] = "saving"
    /\ submitter' = [submitter EXCEPT ![b] = "spawn"]
    /\ SaveBatch(b, "open") \/ (DiskFaults /\ NoSave)
    /\ UNCHANGED <<worker, ender, sweep>> /\ UNCHANGED batchVars
    /\ UNCHANGED sessionVars /\ UNCHANGED historyVars
    /\ UNCHANGED memoryVars /\ UNCHANGED <<place, lost, outcome>>

\* Mutant: the worker starts before the created event.
SpawnEarly(b) ==
    /\ submitter[b] \in { "started", "saving", "spawn" }
    /\ worker[b] = "none"
    /\ submitter' = [submitter EXCEPT ![b] = IF @ = "spawn" THEN "done" ELSE @]
    /\ worker' = [worker EXCEPT ![b] = "body"]
    /\ ran' = ran \cup {b}
    /\ UNCHANGED <<ender, sweep>> /\ UNCHANGED batchVars
    /\ UNCHANGED sessionVars /\ UNCHANGED persistenceVars

Spawn(b) ==
    /\ submitter[b] = "spawn"
    /\ submitter' = [submitter EXCEPT ![b] = "done"]
    /\ worker' = [worker EXCEPT ![b] = "body"]
    /\ ran' = ran \cup {b}
    /\ UNCHANGED <<ender, sweep>> /\ UNCHANGED batchVars
    /\ UNCHANGED sessionVars /\ UNCHANGED persistenceVars

\* request_stop: only a batch that is queued or running is stopped.
Stoppable(b) == batch[b] \in { "QUEUED", "RUNNING" }
Stopped(b) ==
    IF Stoppable(b)
    THEN /\ stopEvent' = [stopEvent EXCEPT ![b] = TRUE]
         /\ batch' = [batch EXCEPT ![b] = "STOPPED"]
    ELSE UNCHANGED <<stopEvent, batch>>

RequestStop(b) ==
    /\ boot = "live" /\ Stoppable(b)
    /\ Stopped(b)
    /\ UNCHANGED completed /\ UNCHANGED threadVars
    /\ UNCHANGED sessionVars /\ UNCHANGED historyVars /\ UNCHANGED persistenceVars

-----------------------------------------------------------------------------
(* The worker of a batch *)

\* The body reaches a terminal outcome of a task and publishes it.
RunBody(b) ==
    /\ worker[b] = "body"
    /\ ~busClosed /\ ~closed
    /\ \E t \in Tasks : OnTaskStatus(b, t)
    /\ UNCHANGED <<writing, writer, closed>> /\ UNCHANGED diskVars
    /\ UNCHANGED threadVars /\ UNCHANGED batchVars
    /\ UNCHANGED sessionVars /\ UNCHANGED historyVars

\* The body returned or raised; a stop keeps its status.
Outcomes(b) == IF batch[b] = "STOPPED" THEN { "STOPPED" }
               ELSE { "FINISHED", "ERRORED" }
CompleteBatch(b) ==
    /\ worker[b] = "body"
    /\ \E s \in Outcomes(b) : batch' = [batch EXCEPT ![b] = s]
    /\ completed' = [completed EXCEPT ![b] = TRUE]
    /\ worker' = [worker EXCEPT ![b] = "publish"]
    /\ UNCHANGED <<stopEvent, submitter, ender, sweep>>
    /\ UNCHANGED sessionVars /\ UNCHANGED historyVars /\ UNCHANGED persistenceVars

\* The completed event: a closed bus drops it; the subscriber reads its flag
\* first and queues the close after.
PublishCompleted(b) ==
    /\ worker[b] = "publish"
    /\ worker' = [worker EXCEPT ![b] = IF busClosed \/ closed THEN "drain" ELSE "put"]
    /\ UNCHANGED <<submitter, ender, sweep, ran>> /\ UNCHANGED batchVars
    /\ UNCHANGED sessionVars /\ UNCHANGED persistenceVars

QueueClose(b) ==
    /\ worker[b] = "put"
    /\ worker' = [worker EXCEPT ![b] = "drain"]
    /\ PutClose(b)
    /\ UNCHANGED <<known, writing, writer, closed, outcome>> /\ UNCHANGED diskVars
    /\ UNCHANGED <<submitter, ender, sweep>> /\ UNCHANGED batchVars
    /\ UNCHANGED sessionVars /\ UNCHANGED historyVars

\* The drain rule: the last batch of an ending session finalizes it.
Drained == status = "ENDING" /\ Active = {}

\* Mutant: the worker of a stopped batch skips the drain rule.
FinalizeUnlessStopped(b) ==
    /\ worker[b] = "drain" /\ lock = NoThread
    /\ worker' = [worker EXCEPT ![b] = "exited"]
    /\ \/ /\ Drained /\ batch[b] # "STOPPED"
          /\ status' = "ENDED" /\ lock' = b /\ fin' = "release"
       \/ /\ ~Drained \/ batch[b] = "STOPPED"
          /\ UNCHANGED <<status, lock, fin>>
    /\ UNCHANGED <<boot, boots, released, busClosed, toSeed>>
    /\ UNCHANGED <<submitter, ender, sweep>> /\ UNCHANGED batchVars
    /\ UNCHANGED historyVars /\ UNCHANGED persistenceVars

FinalizeIfDrained(b) ==
    /\ worker[b] = "drain" /\ lock = NoThread
    /\ worker' = [worker EXCEPT ![b] = "exited"]
    /\ \/ /\ Drained
          /\ status' = "ENDED" /\ lock' = b /\ fin' = "release"
       \/ /\ ~Drained
          /\ UNCHANGED <<status, lock, fin>>
    /\ UNCHANGED <<boot, boots, released, busClosed, toSeed>>
    /\ UNCHANGED <<submitter, ender, sweep>> /\ UNCHANGED batchVars
    /\ UNCHANGED historyVars /\ UNCHANGED persistenceVars

-----------------------------------------------------------------------------
(* The end of the session *)

\* end() takes the lock; a second end returns at once.
End(e) ==
    /\ ender[e] = "idle" /\ boot = "live" /\ lock = NoThread
    /\ ender' = [ender EXCEPT ![e] = "ending"]
    /\ \/ /\ status = "ACTIVE"
          /\ status' = "ENDING" /\ lock' = e /\ fin' = "decide"
       \/ /\ status # "ACTIVE"
          /\ UNCHANGED <<status, lock, fin>>
    /\ UNCHANGED <<boot, boots, released, busClosed, toSeed>>
    /\ UNCHANGED <<submitter, worker, sweep>> /\ UNCHANGED batchVars
    /\ UNCHANGED historyVars /\ UNCHANGED persistenceVars

Decide ==
    /\ fin = "decide"
    /\ \/ /\ Active = {}
          /\ status' = "ENDED" /\ fin' = "release" /\ UNCHANGED lock
       \/ /\ Active # {}
          /\ lock' = NoThread /\ fin' = "none" /\ UNCHANGED status
    /\ UNCHANGED <<boot, boots, released, busClosed, toSeed>>
    /\ UNCHANGED threadVars /\ UNCHANGED batchVars
    /\ UNCHANGED historyVars /\ UNCHANGED persistenceVars

FinalizerFrame ==
    /\ UNCHANGED <<boot, boots, status, toSeed>> /\ UNCHANGED threadVars
    /\ UNCHANGED batchVars /\ UNCHANGED historyVars

\* The tasks and the store go first.
ReleaseTasks ==
    /\ fin = "release"
    /\ released' = TRUE /\ fin' = "join"
    /\ UNCHANGED <<lock, busClosed>> /\ UNCHANGED persistenceVars
    /\ FinalizerFrame

\* close(): join the queue, then set the flag, then queue the stop marker.
JoinQueue ==
    /\ fin = "join" /\ QueueJoined
    /\ fin' = "close"
    /\ UNCHANGED <<lock, released, busClosed>> /\ UNCHANGED persistenceVars
    /\ FinalizerFrame

CloseSubscriber ==
    /\ fin = "close"
    /\ closed' = TRUE /\ fin' = "stop"
    /\ UNCHANGED <<known, queue, writing, writer, outcome>> /\ UNCHANGED diskVars
    /\ UNCHANGED <<lock, released, busClosed>>
    /\ FinalizerFrame

StopWriter ==
    /\ fin = "stop"
    /\ queue' = Append(queue, Stop) /\ fin' = "stamp"
    /\ UNCHANGED <<known, writing, writer, closed, outcome>> /\ UNCHANGED diskVars
    /\ UNCHANGED <<lock, released, busClosed>>
    /\ FinalizerFrame

\* mark_ended: stamp first, move second; a failure of either ends the archive.
StampManifest ==
    /\ fin = "stamp"
    /\ \/ place' = "stamped" /\ fin' = "move"
       \/ DiskFaults /\ fin' = "publish" /\ UNCHANGED place
    /\ UNCHANGED <<snapshot, record, stray, lost, outcome>> /\ UNCHANGED memoryVars
    /\ UNCHANGED <<lock, released, busClosed>>
    /\ FinalizerFrame

MoveSession ==
    /\ fin = "move"
    /\ place' = "archived" \/ (DiskFaults /\ UNCHANGED place)
    /\ fin' = "publish"
    /\ UNCHANGED <<snapshot, record, stray, lost, outcome>> /\ UNCHANGED memoryVars
    /\ UNCHANGED <<lock, released, busClosed>>
    /\ FinalizerFrame

\* The ended event and the close of the bus; the lock is free again.
PublishEnded ==
    /\ fin = "publish"
    /\ busClosed' = TRUE
    /\ fin' = "none" /\ lock' = NoThread
    /\ UNCHANGED released /\ UNCHANGED persistenceVars
    /\ FinalizerFrame

Finalize ==
    \/ Decide \/ ReleaseTasks \/ JoinQueue \/ CloseSubscriber \/ StopWriter
    \/ StampManifest \/ MoveSession \/ PublishEnded

EnderFrame ==
    /\ UNCHANGED <<submitter, worker, completed>>
    /\ UNCHANGED sessionVars /\ UNCHANGED historyVars /\ UNCHANGED persistenceVars

\* end() returned. A forced end stops the batches that are active now.
EndReturns(e) ==
    /\ ender[e] = "ending" /\ lock # e
    /\ IF e \in Forcing
       THEN /\ ender' = [ender EXCEPT ![e] = "sweeping"]
            /\ sweep' = [sweep EXCEPT ![e] = Active]
       ELSE /\ ender' = [ender EXCEPT ![e] = "returned"]
            /\ UNCHANGED sweep
    /\ UNCHANGED <<batch, stopEvent>> /\ EnderFrame

ForceStop(e) ==
    /\ ender[e] = "sweeping"
    /\ \/ /\ \E b \in sweep[e] :
                /\ Stopped(b)
                /\ sweep' = [sweep EXCEPT ![e] = @ \ {b}]
          /\ UNCHANGED ender
       \/ /\ sweep[e] = {}
          /\ ender' = [ender EXCEPT ![e] = "returned"]
          /\ UNCHANGED <<sweep, batch, stopEvent>>
    /\ EnderFrame

-----------------------------------------------------------------------------
(* Crash and restore *)

BootFrame == UNCHANGED <<snapshot, stray, lost, outcome>> /\ UNCHANGED historyVars

\* A process builds the session and writes its manifest: a new one, or an open
\* one it found.
InitState ==
    /\ boot = "down" /\ boots < MaxBoots
    /\ place \in { "none", "open" }
    /\ boot' = "seeding" /\ boots' = boots + 1
    /\ place' = "open"
    /\ known' = InitialState /\ writer' = "running"
    /\ toSeed' = { b \in Batches : record[b] = "open" }
    /\ UNCHANGED <<status, lock, fin, released, busClosed, queue, writing, closed,
                   record>>
    /\ UNCHANGED batchVars /\ UNCHANGED threadVars /\ BootFrame

\* An open record becomes an INTERRUPTED batch, and is closed on the disk.
SeedBatch(b) ==
    /\ boot = "seeding" /\ b \in toSeed
    /\ toSeed' = toSeed \ {b}
    /\ batch' = [batch EXCEPT ![b] = "INTERRUPTED"]
    /\ completed' = [completed EXCEPT ![b] = TRUE]
    /\ SaveBatch(b, "interrupted") \/ (DiskFaults /\ NoSave)
    /\ UNCHANGED <<boot, boots, status, lock, fin, released, busClosed, stopEvent>>
    /\ UNCHANGED threadVars /\ UNCHANGED historyVars /\ UNCHANGED memoryVars
    /\ UNCHANGED <<place, lost, outcome>>

Register ==
    /\ boot = "seeding" /\ toSeed = {}
    /\ boot' = "live"
    /\ UNCHANGED <<boots, status, lock, fin, released, busClosed, toSeed>>
    /\ UNCHANGED batchVars /\ UNCHANGED threadVars
    /\ UNCHANGED historyVars /\ UNCHANGED persistenceVars

\* The process dies: its memory and its threads are gone, the disk stays. The
\* uuid of a submitted batch is never used again.
Crash ==
    /\ boot # "down"
    /\ boot' = "down" /\ status' = "ACTIVE" /\ lock' = NoThread /\ fin' = "none"
    /\ released' = FALSE /\ busClosed' = FALSE /\ toSeed' = {}
    /\ batch' = [b \in Batches |-> "NONE"]
    /\ stopEvent' = [b \in Batches |-> FALSE]
    /\ completed' = [b \in Batches |-> FALSE]
    /\ submitter' = [b \in Batches |-> IF submitter[b] = "idle" THEN "idle"
                                       ELSE "gone"]
    /\ worker' = [b \in Batches |-> "none"]
    /\ ender' = [e \in Enders |-> "idle"]
    /\ sweep' = [e \in Enders |-> {}]
    /\ known' = [t \in Tasks |-> 0] /\ queue' = <<>> /\ writing' = NoEntry
    /\ writer' = "none" /\ closed' = FALSE
    /\ UNCHANGED <<boots, place, record>>
    /\ BootFrame

\* Another process may list the manifests at any moment.
OtherProcess ==
    /\ ArchiveStray
    /\ UNCHANGED sessionVars /\ UNCHANGED batchVars
    /\ UNCHANGED threadVars /\ UNCHANGED historyVars

Write ==
    /\ WriterStep
    /\ UNCHANGED sessionVars /\ UNCHANGED batchVars
    /\ UNCHANGED threadVars /\ UNCHANGED historyVars

-----------------------------------------------------------------------------
Init ==
    /\ boot = "down" /\ boots = 0
    /\ status = "ACTIVE" /\ lock = NoThread /\ fin = "none"
    /\ released = FALSE /\ busClosed = FALSE /\ toSeed = {}
    /\ batch = [b \in Batches |-> "NONE"]
    /\ stopEvent = [b \in Batches |-> FALSE]
    /\ completed = [b \in Batches |-> FALSE]
    /\ submitter = [b \in Batches |-> "idle"]
    /\ worker = [b \in Batches |-> "none"]
    /\ ender = [e \in Enders |-> "idle"]
    /\ sweep = [e \in Enders |-> {}]
    /\ ran = {}
    /\ PersistenceInit

Submission(b) == Start(b) \/ PublishCreated(b) \/ SaveCreated(b) \/ Spawn(b)
Work(b) ==
    \/ CompleteBatch(b) \/ PublishCompleted(b) \/ QueueClose(b)
    \/ FinalizeIfDrained(b)
Ending(e) == EndReturns(e) \/ ForceStop(e)
Building == Register \/ \E b \in Batches : SeedBatch(b)

\* The last process is gone, or the session ended and every thread returned.
Finished ==
    /\ \/ boot = "down"
       \/ /\ status = "ENDED" /\ lock = NoThread
          /\ \A e \in Enders : ender[e] = "returned"
          /\ \A b \in Batches : worker[b] \in { "none", "exited" }
    /\ UNCHANGED vars

Next ==
    \/ \E b \in Batches :
          \/ Admit(b) \/ RequestStop(b) \/ RunBody(b)
          \/ Submission(b) \/ Work(b)
    \/ \E e \in Enders : End(e) \/ Ending(e)
    \/ Finalize \/ Write \/ OtherProcess
    \/ InitState \/ Building \/ Crash
    \/ Finished

Spec == Init /\ [][Next]_vars

\* Every thread of the process runs: a body returns, the writer writes and a
\* thread that waits for the lock gets it. Users, crashes and other processes
\* owe nothing.
FairSpec ==
    /\ Spec
    /\ \A b \in Batches : WF_vars(Submission(b)) /\ WF_vars(Work(b))
    /\ \A e \in Enders : WF_vars(Ending(e))
    /\ WF_vars(Finalize) /\ WF_vars(Write) /\ WF_vars(Building)

-----------------------------------------------------------------------------
(* Properties *)

\* Every variable has its type.
TypeOK ==
    /\ PersistenceTypeOK
    /\ boot \in { "down", "seeding", "live" }
    /\ boots \in Nat
    /\ status \in { "ACTIVE", "ENDING", "ENDED" }
    /\ lock \in Batches \cup Enders \cup { NoThread }
    /\ fin \in FinalizerPCs
    /\ released \in BOOLEAN
    /\ busClosed \in BOOLEAN
    /\ toSeed \subseteq Batches
    /\ batch \in [Batches -> BatchStatus]
    /\ stopEvent \in [Batches -> BOOLEAN]
    /\ completed \in [Batches -> BOOLEAN]
    /\ submitter \in [Batches -> { "idle", "registered", "started", "saving",
                                   "spawn", "done", "gone" }]
    /\ worker \in [Batches -> { "none", "body", "publish", "put", "drain",
                                "exited" }]
    /\ ender \in [Enders -> { "idle", "ending", "sweeping", "returned" }]
    /\ sweep \in [Enders -> SUBSET Batches]
    /\ ran \subseteq Batches

\* The session keeps its contract: the detailed threads, locks, crashes and
\* restores are steps, or stutters, of SessionContract.
Contract == INSTANCE SessionContract WITH
    mode <- IF boot = "live" THEN status ELSE "DOWN",
    running <- IF boot = "live" THEN Active ELSE {},
    sealed <- place \in { "stamped", "archived" }
KeepsContract == Contract!Spec

\* The tasks are never released under a batch that works or is about to
\* (Session.end waits, and refuses what comes later).
ReleasedIsQuiet ==
    released => \A b \in Batches :
        /\ worker[b] # "body"
        /\ submitter[b] \in { "idle", "done", "gone" }

\* A closed record implies durable outcomes: whatever the batch reached is on
\* the disk, or its write failed and was reported.
ClosedImpliesDurable ==
    \A b \in Batches : record[b] = "closed" =>
        \A t \in Tasks \ lost : snapshot[t] >= outcome[b][t]

\* A batch that began its work never vanishes: after a crash a restore finds its
\* record, closed, or open and then marked as interrupted.
DeadBatchIsKnown ==
    ~DiskFaults /\ boot = "live" =>
        \A b \in ran : submitter[b] = "gone" =>
            record[b] \in { "closed", "interrupted" }

\* A restore knows each task at least as well as every closed batch left it.
RestoreKnowsOutcomes ==
    boot = "live" => \A b \in Batches : record[b] = "closed" =>
        \A t \in Tasks \ lost : known[t] >= outcome[b][t]

\* Once a forced end returned, no batch is left that was not told to stop: a
\* batch admitted at the same time does not escape the sweep.
ForceEndStopsAll ==
    \A e \in Forcing : ender[e] = "returned" =>
        \A b \in Active : stopEvent[b]

\* A session that is asked to end does end, with its bus closed, unless the
\* process dies first: no drain waits for a batch that cannot complete.
EndCompletes ==
    status \in { "ENDING", "ENDED" } ~> (busClosed \/ boot = "down")

=============================================================================
