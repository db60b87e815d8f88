---------------------------- MODULE SessionProofs ----------------------------
(***************************************************************************)
(* Proofs about Session: it implements SessionContract, its tasks are      *)
(* released only when nothing works, no batch escapes a forced end, and    *)
(* what it leaves on the disk tells a later process how it ended; for      *)
(* every number of batches, users, tasks, failed writes and restarts.      *)
(***************************************************************************)
EXTENDS Session, TLAPS

\* A submitter between the admission of its batch and the start of its worker.
Preparing(b) == submitter[b] \in { "registered", "started", "saving", "spawn" }

\* A process that does not serve the session has none of its threads.
BootInv ==
    /\ boot # "live" =>
        /\ status = "ACTIVE" /\ lock = NoThread /\ fin = "none" /\ ~released
        /\ Active = {}
        /\ \A b \in Batches : ~Preparing(b) /\ worker[b] = "none"
        /\ \A e \in Enders : ender[e] = "idle"
    /\ boot = "seeding" => place = "open"

\* The finalizer works on a session that ended, and that has no active batch.
FinalizerInv ==
    /\ fin = "decide" => status = "ENDING"
    /\ fin \notin { "none", "decide" } => status = "ENDED"
    /\ fin = "move" => place \in { "stamped", "archived" }
    /\ released => status = "ENDED"
    /\ status = "ENDED" => Active = {}

\* A batch is active from its admission until its worker completes it, and an
\* active batch that cannot be stopped was told to stop before.
BatchInv ==
    \A b \in Batches :
        /\ Preparing(b) => b \in Active
        /\ worker[b] = "body" => b \in Active
        /\ worker[b] # "none" => submitter[b] = "done"
        /\ b \in Active => Stoppable(b) \/ stopEvent[b]

\* A user who asked for the end closed the admission; a sweep that is over for
\* a batch told it to stop.
SweepInv ==
    \A e \in Enders :
        /\ ender[e] # "idle" => status # "ACTIVE"
        /\ ender[e] = "sweeping" => \A b \in Active \ sweep[e] : stopEvent[b]
        /\ ender[e] = "returned" /\ e \in Forcing => \A b \in Active : stopEvent[b]

SessionInv == BootInv /\ FinalizerInv /\ BatchInv /\ SweepInv

-----------------------------------------------------------------------------
(* Type correctness *)

\* What the threads queue are entries.
LEMMA EntriesQueued ==
    /\ Stop \in Entries
    /\ \A b \in Batches : Close(b) \in Entries
    /\ \A t \in Tasks, v \in Versions : Outcome(t, v) \in Entries
<1>1. ASSUME NEW t \in Tasks, NEW v \in Versions PROVE Outcome(t, v) \in Entries
  <2>1. <<t, v>> \in Tasks \X Versions
    OBVIOUS
  <2>2. Outcome(t, v) = Outcome(<<t, v>>[1], <<t, v>>[2])
    OBVIOUS
  <2> QED
    BY <2>1, <2>2 DEF Entries
<1> QED
  BY <1>1 DEF Entries

\* A write of the store keeps the types of the disk.
LEMMA BatchWrite ==
    ASSUME PersistenceTypeOK, NEW b \in Batches, NEW s \in RecordStates, SaveBatch(b, s)
    PROVE  /\ record' \in [Batches -> RecordStates] /\ stray' \in BOOLEAN
           /\ snapshot' = snapshot
BY DEF PersistenceTypeOK, SaveBatch

\* A write of a snapshot keeps the types of the disk.
LEMMA SnapshotWrite ==
    ASSUME PersistenceTypeOK, NEW t \in Tasks, NEW v \in Versions, SaveSnapshot(t, v)
    PROVE  /\ snapshot' \in [Tasks -> Versions] /\ stray' \in BOOLEAN
           /\ record' = record
BY DEF PersistenceTypeOK, SaveSnapshot

\* A status write of request_stop keeps the types of the batches.
LEMMA StopWrite ==
    ASSUME TypeOK, NEW b \in Batches, Stopped(b)
    PROVE  /\ stopEvent' \in [Batches -> BOOLEAN]
           /\ batch' \in [Batches -> BatchStatus]
BY DEF TypeOK, Stopped, BatchStatus

\* An entry the writer holds is an outcome or a close.
LEMMA EntryCases ==
    ASSUME NEW e \in Entries \ { Stop }
    PROVE  \/ e.kind = "close" /\ e.batch \in Batches
           \/ e.kind = "outcome" /\ e.task \in Tasks /\ e.version \in Versions
<1>1. CASE \E b \in Batches : e = Close(b)
  BY <1>1 DEF Close
<1>2. CASE \E x \in Tasks \X Versions : e = Outcome(x[1], x[2])
  BY <1>2 DEF Outcome
<1> QED
  BY <1>1, <1>2 DEF Entries

\* A queue is empty or begins with an entry.
LEMMA QueueHead ==
    ASSUME NEW q \in Seq(Entries), q # <<>>
    PROVE  Head(q) \in Entries /\ Tail(q) \in Seq(Entries)
OBVIOUS

\* The initial states are typed.
LEMMA InitTypeOK == Init => TypeOK
<1> SUFFICES ASSUME Init PROVE TypeOK
  OBVIOUS
<1>1. 0 \in Versions
  BY MaxVersionAssumption DEF Versions
<1>2. PersistenceTypeOK
  <2>1. queue \in Seq(Entries)
    BY DEF Init, PersistenceInit
  <2> QED
    BY <1>1, <2>1 DEF Init, PersistenceInit, PersistenceTypeOK, RecordStates, Places
<1> QED
  BY <1>2 DEF Init, TypeOK, FinalizerPCs, BatchStatus

\* What the batches do keeps the types.
LEMMA BatchStepTypeOK ==
    ASSUME TypeOK, NEW b \in Batches,
           \/ Admit(b) \/ RequestStop(b) \/ RunBody(b) \/ Submission(b) \/ Work(b)
    PROVE  TypeOK'
<1> USE DEF TypeOK, sessionVars, batchVars, threadVars, historyVars,
            persistenceVars, memoryVars, diskVars
<1>1. ASSUME UNCHANGED persistenceVars PROVE PersistenceTypeOK'
  BY <1>1 DEF PersistenceTypeOK
<1>2. CASE Admit(b)
  BY <1>1, <1>2 DEF Admit, BatchStatus
<1>3. CASE RequestStop(b)
  BY <1>1, <1>3, StopWrite DEF RequestStop
<1>4. CASE RunBody(b)
  <2>1. PICK t \in Tasks : OnTaskStatus(b, t)
    BY <1>4 DEF RunBody
  <2>2. PICK v \in Versions : /\ known' = [known EXCEPT ![t] = v]
                            /\ queue' = Append(queue, Outcome(t, v))
                            /\ outcome' = [outcome EXCEPT ![b][t] = v]
    BY <2>1 DEF OnTaskStatus
  <2>3. queue' \in Seq(Entries)
    BY <2>2, EntriesQueued DEF PersistenceTypeOK
  <2>4. PersistenceTypeOK'
    BY <1>4, <2>2, <2>3 DEF RunBody, PersistenceTypeOK
  <2> QED
    BY <1>4, <2>4 DEF RunBody
<1>5. CASE Start(b)
  BY <1>1, <1>5 DEF Start, BatchStatus
<1>6. CASE PublishCreated(b)
  BY <1>1, <1>6 DEF PublishCreated
<1>7. CASE SaveCreated(b)
  <2>1. PersistenceTypeOK'
    BY <1>7, BatchWrite DEF SaveCreated, NoSave, PersistenceTypeOK, RecordStates
  <2> QED
    BY <1>7, <2>1 DEF SaveCreated
<1>8. CASE Spawn(b)
  BY <1>1, <1>8 DEF Spawn
<1>9. CASE CompleteBatch(b)
  BY <1>1, <1>9 DEF CompleteBatch, Outcomes, BatchStatus
<1>10. CASE PublishCompleted(b)
  BY <1>1, <1>10 DEF PublishCompleted
<1>11. CASE QueueClose(b)
  <2>1. queue' \in Seq(Entries)
    BY <1>11, EntriesQueued DEF QueueClose, PutClose, PersistenceTypeOK
  <2>2. PersistenceTypeOK'
    BY <1>11, <2>1 DEF QueueClose, PersistenceTypeOK
  <2> QED
    BY <1>11, <2>2 DEF QueueClose
<1>12. CASE FinalizeIfDrained(b)
  BY <1>1, <1>12 DEF FinalizeIfDrained, FinalizerPCs
<1> QED
  BY <1>2, <1>3, <1>4, <1>5, <1>6, <1>7, <1>8, <1>9, <1>10, <1>11, <1>12
  DEF Submission, Work

\* What the users do keeps the types.
LEMMA EnderStepTypeOK ==
    ASSUME TypeOK, NEW e \in Enders, End(e) \/ Ending(e)
    PROVE  TypeOK'
<1> USE DEF TypeOK, sessionVars, batchVars, historyVars
<1>1. PersistenceTypeOK'
  BY DEF PersistenceTypeOK, End, Ending, EndReturns, ForceStop, EnderFrame,
         persistenceVars
<1>2. CASE End(e)
  BY <1>1, <1>2 DEF End, FinalizerPCs
<1>3. CASE EndReturns(e)
  BY <1>1, <1>3 DEF EndReturns, EnderFrame, Active
<1>4. CASE ForceStop(e)
  BY <1>1, <1>4, StopWrite DEF ForceStop, EnderFrame
<1> QED
  BY <1>2, <1>3, <1>4 DEF Ending

\* What the finalizer does keeps the types.
LEMMA FinalizerStepTypeOK ==
    ASSUME TypeOK, Finalize
    PROVE  TypeOK'
<1> USE DEF TypeOK, FinalizerFrame, batchVars, threadVars, historyVars,
            persistenceVars, memoryVars, diskVars
<1>1. ASSUME UNCHANGED persistenceVars PROVE PersistenceTypeOK'
  BY <1>1 DEF PersistenceTypeOK
<1>2. CASE Decide
  BY <1>1, <1>2 DEF Decide, FinalizerPCs
<1>3. CASE ReleaseTasks
  BY <1>1, <1>3 DEF ReleaseTasks, FinalizerPCs
<1>4. CASE JoinQueue
  BY <1>1, <1>4 DEF JoinQueue, FinalizerPCs
<1>5. CASE CloseSubscriber
  <2>1. PersistenceTypeOK'
    BY <1>5 DEF CloseSubscriber, PersistenceTypeOK
  <2> QED
    BY <1>5, <2>1 DEF CloseSubscriber, FinalizerPCs
<1>6. CASE StopWriter
  <2>1. queue' \in Seq(Entries)
    BY <1>6, EntriesQueued DEF StopWriter, PersistenceTypeOK
  <2>2. PersistenceTypeOK'
    BY <1>6, <2>1 DEF StopWriter, PersistenceTypeOK
  <2> QED
    BY <1>6, <2>2 DEF StopWriter, FinalizerPCs
<1>7. CASE StampManifest
  <2>1. PersistenceTypeOK'
    BY <1>7 DEF StampManifest, PersistenceTypeOK, Places
  <2> QED
    BY <1>7, <2>1 DEF StampManifest, FinalizerPCs
<1>8. CASE MoveSession
  <2>1. PersistenceTypeOK'
    BY <1>8 DEF MoveSession, PersistenceTypeOK, Places
  <2> QED
    BY <1>8, <2>1 DEF MoveSession, FinalizerPCs
<1>9. CASE PublishEnded
  BY <1>1, <1>9 DEF PublishEnded, FinalizerPCs
<1> QED
  BY <1>2, <1>3, <1>4, <1>5, <1>6, <1>7, <1>8, <1>9 DEF Finalize

\* What the writer does keeps the types.
LEMMA WriterStepTypeOK ==
    ASSUME PersistenceTypeOK, WriterStep
    PROVE  PersistenceTypeOK'
<1> USE DEF PersistenceTypeOK, diskVars
<1>1. CASE TakeEntry
  <2>1. Head(queue) \in Entries /\ Tail(queue) \in Seq(Entries)
    BY <1>1, QueueHead DEF TakeEntry
  <2> QED
    BY <1>1, <2>1 DEF TakeEntry
<1>2. CASE LandEntry
  <2>1. \/ writing.kind = "close" /\ writing.batch \in Batches
        \/ writing.kind = "outcome" /\ writing.task \in Tasks /\ writing.version \in Versions
    BY <1>2, EntryCases DEF LandEntry
  <2>2. CASE NoSave
    BY <1>2, <2>1, <2>2 DEF LandEntry, NoSave
  <2>3. CASE writing.kind = "close" /\ SaveBatch(writing.batch, "closed")
    <3>1. "closed" \in RecordStates
      BY DEF RecordStates
    <3> QED
      BY <1>2, <2>1, <2>3, <3>1, BatchWrite DEF LandEntry
  <2>4. CASE writing.kind = "outcome" /\ SaveSnapshot(writing.task, writing.version)
    BY <1>2, <2>1, <2>4, SnapshotWrite DEF LandEntry
  <2> QED
    BY <1>2, <2>1, <2>2, <2>3, <2>4 DEF LandEntry
<1> QED
  BY <1>1, <1>2 DEF WriterStep

\* A start, a restore and a crash keep the types.
LEMMA BootStepTypeOK ==
    ASSUME TypeOK, InitState \/ Building \/ Crash
    PROVE  TypeOK'
<1> USE DEF TypeOK, batchVars, threadVars, historyVars, memoryVars, BootFrame
<1>1. CASE InitState
  <2>1. PersistenceTypeOK'
    BY <1>1 DEF InitState, InitialState, PersistenceTypeOK, Places
  <2> QED
    BY <1>1, <2>1 DEF InitState
<1>2. ASSUME NEW b \in Batches, SeedBatch(b) PROVE TypeOK'
  <2>1. PersistenceTypeOK'
    BY <1>2, BatchWrite DEF SeedBatch, NoSave, PersistenceTypeOK, RecordStates
  <2> QED
    BY <1>2, <2>1 DEF SeedBatch, BatchStatus
<1>3. CASE Register
  <2>1. PersistenceTypeOK'
    BY <1>3 DEF Register, PersistenceTypeOK, persistenceVars
  <2> QED
    BY <1>3, <2>1 DEF Register
<1>4. CASE Crash
  <2>1. queue' \in Seq(Entries) /\ 0 \in Versions
    BY <1>4, MaxVersionAssumption DEF Crash, Versions
  <2>2. PersistenceTypeOK'
    BY <1>4, <2>1 DEF Crash, PersistenceTypeOK
  <2> QED
    BY <1>4, <2>2 DEF Crash, BatchStatus, FinalizerPCs
<1> QED
  BY <1>1, <1>2, <1>3, <1>4 DEF Building

\* Every step keeps the types.
LEMMA NextTypeOK == TypeOK /\ [Next]_vars => TypeOK'
<1> SUFFICES ASSUME TypeOK, [Next]_vars PROVE TypeOK'
  OBVIOUS
<1>1. ASSUME UNCHANGED vars PROVE TypeOK'
  BY <1>1 DEF vars, TypeOK, PersistenceTypeOK
<1>2. CASE Write
  BY <1>2, WriterStepTypeOK
  DEF Write, TypeOK, sessionVars, batchVars, threadVars, historyVars
<1>3. CASE OtherProcess
  <2>1. PersistenceTypeOK'
    BY <1>3 DEF OtherProcess, ArchiveStray, TypeOK, PersistenceTypeOK, memoryVars, Places
  <2> QED
    BY <1>3, <2>1
    DEF OtherProcess, TypeOK, sessionVars, batchVars, threadVars, historyVars
<1> QED
  BY <1>1, <1>2, <1>3, BatchStepTypeOK, EnderStepTypeOK, FinalizerStepTypeOK,
     BootStepTypeOK
  DEF Next, Finished

\* Every variable of the session and its durable state keeps its type.
THEOREM SessionTypes == Spec => []TypeOK
BY InitTypeOK, NextTypeOK, PTL DEF Spec

-----------------------------------------------------------------------------
(* The inductive invariant *)

\* The initial states satisfy the invariant.
LEMMA InitSessionInv == Init => SessionInv
BY DEF Init, PersistenceInit, SessionInv, BootInv, FinalizerInv, BatchInv,
       SweepInv, Preparing, Active, Stoppable

\* The active batches depend on two variables, and a stop removes none.
LEMMA ActiveUnchanged ==
    ASSUME completed' = completed,
           \A b \in Batches : batch'[b] = "NONE" <=> batch[b] = "NONE"
    PROVE  Active' = Active
BY DEF Active

\* A stop does not complete a batch.
LEMMA StopKeepsActive ==
    ASSUME TypeOK, NEW b \in Batches, Stopped(b), UNCHANGED completed
    PROVE  Active' = Active
<1>1. \A x \in Batches : batch'[x] = "NONE" <=> batch[x] = "NONE"
  BY DEF TypeOK, Stopped, Stoppable
<1> QED
  BY <1>1, ActiveUnchanged

\* A stop leaves an active batch stoppable or told to stop, and tells this one.
LEMMA StopTells ==
    ASSUME TypeOK, BatchInv, NEW b \in Batches, Stopped(b), UNCHANGED completed
    PROVE  /\ b \in Active => stopEvent'[b]
           /\ \A x \in Batches : stopEvent[x] => stopEvent'[x]
           /\ \A x \in Active : Stoppable(x)' \/ stopEvent'[x]
<1> USE DEF TypeOK, BatchInv, Stoppable
<1> Active \subseteq Batches
  BY DEF Active
<1>1. CASE Stoppable(b)
  BY <1>1 DEF Stopped
<1>2. CASE ~Stoppable(b)
  BY <1>2 DEF Stopped
<1> QED
  BY <1>1, <1>2

\* What the submitters do keeps the invariant.
LEMMA SubmitterStepInv ==
    ASSUME TypeOK, SessionInv, NEW b \in Batches, Admit(b) \/ Submission(b)
    PROVE  SessionInv'
<1> USE DEF TypeOK, SessionInv, BootInv, FinalizerInv, BatchInv, SweepInv,
            Preparing, Stoppable, sessionVars, batchVars, historyVars,
            persistenceVars, memoryVars
<1>1. CASE Admit(b)
  <2>1. Active' = Active \cup {b}
    BY <1>1 DEF Admit, Active
  <2> QED
    BY <1>1, <2>1 DEF Admit
<1>2. CASE Start(b)
  <2>1. Active' = Active
    BY <1>2 DEF Start, Active
  <2> QED
    BY <1>2, <2>1 DEF Start
<1>3. CASE PublishCreated(b)
  <2>1. Active' = Active
    BY <1>3 DEF PublishCreated, Active
  <2> QED
    BY <1>3, <2>1 DEF PublishCreated
<1>4. CASE SaveCreated(b)
  <2>1. Active' = Active
    BY <1>4 DEF SaveCreated, Active
  <2> QED
    BY <1>4, <2>1 DEF SaveCreated
<1>5. CASE Spawn(b)
  <2>1. Active' = Active
    BY <1>5 DEF Spawn, Active
  <2> QED
    BY <1>5, <2>1 DEF Spawn
<1> QED
  BY <1>1, <1>2, <1>3, <1>4, <1>5 DEF Submission

\* A stop by a user keeps the invariant.
LEMMA RequestStopInv ==
    ASSUME TypeOK, SessionInv, NEW b \in Batches, RequestStop(b)
    PROVE  SessionInv'
<1>1. Active' = Active /\ Active \subseteq Batches
  BY StopKeepsActive DEF RequestStop, Active
<1>2. /\ \A x \in Batches : stopEvent[x] => stopEvent'[x]
      /\ \A x \in Active : Stoppable(x)' \/ stopEvent'[x]
  BY StopTells DEF RequestStop, SessionInv
<1> QED
  BY <1>1, <1>2
  DEF RequestStop, SessionInv, BootInv, FinalizerInv, BatchInv, SweepInv,
      Preparing, sessionVars, threadVars, persistenceVars, historyVars

\* What the workers do keeps the invariant.
LEMMA WorkerStepInv ==
    ASSUME TypeOK, SessionInv, NEW b \in Batches, RunBody(b) \/ Work(b)
    PROVE  SessionInv'
<1> USE DEF TypeOK, SessionInv, BootInv, FinalizerInv, BatchInv, SweepInv,
            Preparing, Stoppable, sessionVars, batchVars, threadVars, historyVars,
            persistenceVars, diskVars
<1>1. CASE RunBody(b)
  <2>1. Active' = Active
    BY <1>1 DEF RunBody, Active
  <2> QED
    BY <1>1, <2>1 DEF RunBody
<1>2. CASE CompleteBatch(b)
  <2>1. Active' = Active \ {b}
    BY <1>2 DEF CompleteBatch, Active
  <2> QED
    BY <1>2, <2>1 DEF CompleteBatch
<1>3. CASE PublishCompleted(b)
  <2>1. Active' = Active
    BY <1>3 DEF PublishCompleted, Active
  <2> QED
    BY <1>3, <2>1 DEF PublishCompleted
<1>4. CASE QueueClose(b)
  <2>1. Active' = Active
    BY <1>4 DEF QueueClose, Active
  <2> QED
    BY <1>4, <2>1 DEF QueueClose
<1>5. CASE FinalizeIfDrained(b)
  <2>1. Active' = Active
    BY <1>5 DEF FinalizeIfDrained, Active
  <2> QED
    BY <1>5, <2>1 DEF FinalizeIfDrained, Drained
<1> QED
  BY <1>1, <1>2, <1>3, <1>4, <1>5 DEF Work

\* What the users who end the session do keeps the invariant.
LEMMA EnderStepInv ==
    ASSUME TypeOK, SessionInv, NEW e \in Enders, End(e) \/ Ending(e)
    PROVE  SessionInv'
<1> USE DEF TypeOK, SessionInv, BootInv, FinalizerInv, BatchInv, SweepInv,
            Preparing, sessionVars, batchVars, historyVars, persistenceVars,
            EnderFrame
<1> Active \subseteq Batches
  BY DEF Active
<1>1. CASE End(e)
  <2>1. Active' = Active
    BY <1>1 DEF End, Active
  <2> QED
    BY <1>1, <2>1 DEF End, Stoppable
<1>2. CASE EndReturns(e)
  <2>1. Active' = Active
    BY <1>2 DEF EndReturns, Active
  <2> QED
    BY <1>2, <2>1 DEF EndReturns, Stoppable
<1>3. CASE ForceStop(e)
  <2>1. ASSUME NEW b \in sweep[e], Stopped(b), sweep' = [sweep EXCEPT ![e] = @ \ {b}],
               UNCHANGED ender
        PROVE  SessionInv'
    <3>1. b \in Batches /\ UNCHANGED completed
      BY <1>3 DEF ForceStop
    <3>2. Active' = Active
      BY <2>1, <3>1, StopKeepsActive
    <3>3. /\ b \in Active => stopEvent'[b]
          /\ \A x \in Batches : stopEvent[x] => stopEvent'[x]
          /\ \A x \in Active : Stoppable(x)' \/ stopEvent'[x]
      BY <2>1, <3>1, StopTells
    <3> QED
      BY <1>3, <2>1, <3>1, <3>2, <3>3 DEF ForceStop
  <2>2. ASSUME sweep[e] = {}, ender' = [ender EXCEPT ![e] = "returned"],
               UNCHANGED <<sweep, batch, stopEvent>>
        PROVE  SessionInv'
    <3>1. Active' = Active
      BY <1>3, <2>2 DEF ForceStop, Active
    <3> QED
      BY <1>3, <2>2, <3>1 DEF ForceStop, Stoppable
  <2> QED
    BY <1>3, <2>1, <2>2 DEF ForceStop
<1> QED
  BY <1>1, <1>2, <1>3 DEF Ending

\* What the finalizer does keeps the invariant.
LEMMA FinalizerStepInv ==
    ASSUME TypeOK, SessionInv, Finalize
    PROVE  SessionInv'
<1> USE DEF TypeOK, SessionInv, BootInv, FinalizerInv, BatchInv, SweepInv,
            Preparing, Stoppable, FinalizerFrame, batchVars, threadVars,
            historyVars, persistenceVars, memoryVars, diskVars
<1>1. Active' = Active
  BY DEF Finalize, Decide, ReleaseTasks, JoinQueue, CloseSubscriber, StopWriter,
         StampManifest, MoveSession, PublishEnded, Active
<1>2. CASE Decide
  BY <1>1, <1>2 DEF Decide
<1>3. CASE ReleaseTasks
  BY <1>1, <1>3 DEF ReleaseTasks
<1>4. CASE JoinQueue \/ CloseSubscriber \/ StopWriter
  BY <1>1, <1>4 DEF JoinQueue, CloseSubscriber, StopWriter
<1>5. CASE StampManifest
  BY <1>1, <1>5 DEF StampManifest
<1>6. CASE MoveSession
  BY <1>1, <1>6 DEF MoveSession
<1>7. CASE PublishEnded
  BY <1>1, <1>7 DEF PublishEnded
<1> QED
  BY <1>2, <1>3, <1>4, <1>5, <1>6, <1>7 DEF Finalize

\* A start, a restore and a crash keep the invariant.
LEMMA BootStepInv ==
    ASSUME TypeOK, SessionInv, InitState \/ Building \/ Crash
    PROVE  SessionInv'
<1> USE DEF TypeOK, SessionInv, BootInv, FinalizerInv, BatchInv, SweepInv,
            Preparing, Stoppable, batchVars, threadVars, historyVars, memoryVars,
            persistenceVars, BootFrame
<1>1. CASE InitState
  <2>1. Active' = Active
    BY <1>1 DEF InitState, Active
  <2> QED
    BY <1>1, <2>1 DEF InitState
<1>2. ASSUME NEW b \in Batches, SeedBatch(b) PROVE SessionInv'
  <2>1. Active = {} /\ Active' = {}
    BY <1>2 DEF SeedBatch, Active
  <2> QED
    BY <1>2, <2>1 DEF SeedBatch
<1>3. CASE Register
  <2>1. Active' = Active
    BY <1>3 DEF Register, Active
  <2> QED
    BY <1>3, <2>1 DEF Register
<1>4. CASE Crash
  <2>1. Active' = {}
    BY <1>4 DEF Crash, Active
  <2> QED
    BY <1>4, <2>1 DEF Crash
<1> QED
  BY <1>1, <1>2, <1>3, <1>4 DEF Building

\* Every step keeps the invariant.
LEMMA NextSessionInv == TypeOK /\ SessionInv /\ [Next]_vars => SessionInv'
<1> SUFFICES ASSUME TypeOK, SessionInv, [Next]_vars PROVE SessionInv'
  OBVIOUS
<1> USE DEF SessionInv, BootInv, FinalizerInv, BatchInv, SweepInv, Preparing,
            Stoppable, Active
<1>1. ASSUME UNCHANGED vars PROVE SessionInv'
  BY <1>1 DEF vars
<1>2. CASE Write
  BY <1>2
  DEF Write, WriterStep, TakeEntry, LandEntry, diskVars, sessionVars, batchVars,
      threadVars, historyVars
<1>3. CASE OtherProcess
  BY <1>3
  DEF OtherProcess, ArchiveStray, memoryVars, sessionVars, batchVars, threadVars,
      historyVars
<1> QED
  BY <1>1, <1>2, <1>3, SubmitterStepInv, WorkerStepInv, RequestStopInv,
     EnderStepInv, FinalizerStepInv, BootStepInv
  DEF Next, Finished

\* The life of the session and of its threads agree in every reachable state.
THEOREM SessionInvariant == Spec => [](TypeOK /\ SessionInv)
<1>1. Init => TypeOK /\ SessionInv
  BY InitTypeOK, InitSessionInv
<1>2. TypeOK /\ SessionInv /\ [Next]_vars => (TypeOK /\ SessionInv)'
  BY NextTypeOK, NextSessionInv
<1> QED
  BY <1>1, <1>2, PTL DEF Spec

\* The tasks are released only when no batch works or is about to.
THEOREM ReleaseIsSafe == Spec => []ReleasedIsQuiet
<1>1. TypeOK /\ SessionInv => ReleasedIsQuiet
  BY DEF TypeOK, SessionInv, FinalizerInv, BatchInv, Preparing, ReleasedIsQuiet
<1> QED
  BY <1>1, SessionInvariant, PTL

\* No batch escapes a forced end, whatever is admitted while it sweeps.
THEOREM ForceEndIsComplete == Spec => []ForceEndStopsAll
<1>1. TypeOK /\ SessionInv => ForceEndStopsAll
  BY ForcingAssumption DEF SessionInv, SweepInv, ForceEndStopsAll
<1> QED
  BY <1>1, SessionInvariant, PTL

-----------------------------------------------------------------------------
(* The refinement *)

\* A step that leaves the process, the status, the active batches and the place
\* of the manifest alone is a stutter of the contract.
LEMMA Stutter ==
    ASSUME UNCHANGED <<boot, status, place>>, Active' = Active
    PROVE  UNCHANGED Contract!vars
BY DEF Contract!vars

\* The initial states are initial states of the contract.
LEMMA InitRefines == Init => Contract!Init
BY DEF Init, PersistenceInit, Contract!Init

\* The steps of a batch are an admission, a completion, the end of a drained
\* session, or nothing to the contract.
LEMMA BatchStepRefines ==
    ASSUME TypeOK, SessionInv, NEW b \in Batches,
           \/ Admit(b) \/ RequestStop(b) \/ RunBody(b) \/ Submission(b) \/ Work(b)
    PROVE  [Contract!Next]_(Contract!vars)
<1> USE DEF sessionVars, batchVars, threadVars, historyVars, persistenceVars,
            memoryVars, diskVars
<1>1. CASE Admit(b)
  <2>1. Active' = Active \cup {b}
    BY <1>1 DEF Admit, Active, TypeOK
  <2>2. Contract!Admit(b)
    BY <1>1, <2>1 DEF Admit, Contract!Admit
  <2> QED
    BY <2>2 DEF Contract!Next
<1>2. CASE CompleteBatch(b)
  <2>1. Active' = Active \ {b}
    BY <1>2 DEF CompleteBatch, Outcomes, Active, TypeOK
  <2>2. boot = "live"
    BY <1>2 DEF CompleteBatch, SessionInv, BootInv
  <2>3. Contract!Complete(b)
    BY <1>2, <2>1, <2>2 DEF CompleteBatch, Contract!Complete
  <2> QED
    BY <2>3 DEF Contract!Next
<1>3. CASE FinalizeIfDrained(b)
  <2>1. Active' = Active
    BY <1>3 DEF FinalizeIfDrained, Active
  <2>2. boot = "live"
    BY <1>3 DEF FinalizeIfDrained, SessionInv, BootInv
  <2>3. CASE Drained
    <3>1. Contract!Finish
      BY <1>3, <2>1, <2>2, <2>3 DEF FinalizeIfDrained, Drained, Contract!Finish
    <3> QED
      BY <3>1 DEF Contract!Next
  <2>4. CASE ~Drained
    BY <1>3, <2>1, <2>4, Stutter DEF FinalizeIfDrained
  <2> QED
    BY <2>3, <2>4
<1>4. CASE RequestStop(b)
  <2>1. Active' = Active
    BY <1>4, StopKeepsActive DEF RequestStop
  <2> QED
    BY <1>4, <2>1, Stutter DEF RequestStop
<1>5. CASE Submission(b)
  <2>1. Active' = Active
    BY <1>5 DEF Submission, Start, PublishCreated, SaveCreated, Spawn, Active,
                Preparing, SessionInv, BatchInv, TypeOK
  <2> QED
    BY <1>5, <2>1, Stutter
    DEF Submission, Start, PublishCreated, SaveCreated, Spawn
<1>6. CASE RunBody(b) \/ PublishCompleted(b) \/ QueueClose(b)
  BY <1>6, Stutter DEF RunBody, PublishCompleted, QueueClose, Active
<1> QED
  BY <1>1, <1>2, <1>3, <1>4, <1>5, <1>6 DEF Work

\* The steps of a user are the end, or nothing to the contract.
LEMMA EnderStepRefines ==
    ASSUME TypeOK, SessionInv, NEW e \in Enders, End(e) \/ Ending(e)
    PROVE  [Contract!Next]_(Contract!vars)
<1> USE DEF sessionVars, batchVars, historyVars, persistenceVars, EnderFrame
<1>1. CASE End(e)
  <2>1. Active' = Active
    BY <1>1 DEF End, Active
  <2>2. CASE status = "ACTIVE"
    <3>1. Contract!End
      BY <1>1, <2>1, <2>2 DEF End, Contract!End
    <3> QED
      BY <3>1 DEF Contract!Next
  <2>3. CASE status # "ACTIVE"
    BY <1>1, <2>1, <2>3, Stutter DEF End
  <2> QED
    BY <2>2, <2>3
<1>2. CASE EndReturns(e)
  BY <1>2, Stutter DEF EndReturns, Active
<1>3. CASE ForceStop(e)
  <2>1. Active' = Active
    <3>1. CASE \E b \in sweep[e] : Stopped(b)
      <4>1. \A b \in sweep[e] : b \in Batches
        BY DEF TypeOK
      <4> QED
        BY <1>3, <3>1, <4>1, StopKeepsActive DEF ForceStop
    <3>2. CASE UNCHANGED batch
      BY <1>3, <3>2, ActiveUnchanged DEF ForceStop
    <3> QED
      BY <1>3, <3>1, <3>2 DEF ForceStop
  <2> QED
    BY <1>3, <2>1, Stutter DEF ForceStop
<1> QED
  BY <1>1, <1>2, <1>3 DEF Ending

\* The steps of the finalizer are the finish and the seal of the contract.
LEMMA FinalizerStepRefines ==
    ASSUME TypeOK, SessionInv, Finalize
    PROVE  [Contract!Next]_(Contract!vars)
<1> USE DEF FinalizerFrame, batchVars, threadVars, historyVars, persistenceVars,
            memoryVars, diskVars, SessionInv, BootInv, FinalizerInv
<1>1. Active' = Active
  BY DEF Finalize, Decide, ReleaseTasks, JoinQueue, CloseSubscriber, StopWriter,
         StampManifest, MoveSession, PublishEnded, Active
<1>2. CASE Decide
  <2>1. CASE Active = {}
    <3>1. Contract!Finish
      BY <1>1, <1>2, <2>1 DEF Decide, Contract!Finish
    <3> QED
      BY <3>1 DEF Contract!Next
  <2>2. CASE Active # {}
    BY <1>1, <1>2, <2>2, Stutter DEF Decide
  <2> QED
    BY <2>1, <2>2
<1>3. CASE StampManifest
  <2>1. CASE place' = "stamped"
    <3>1. Contract!Seal
      BY <1>1, <1>3, <2>1 DEF StampManifest, Contract!Seal
    <3> QED
      BY <3>1 DEF Contract!Next
  <2>2. CASE place' = place
    BY <1>1, <1>3, <2>2, Stutter DEF StampManifest
  <2> QED
    BY <1>3, <2>1, <2>2 DEF StampManifest
<1>4. CASE MoveSession
  BY <1>1, <1>4 DEF MoveSession, Contract!vars
<1>5. CASE \/ ReleaseTasks \/ JoinQueue \/ CloseSubscriber \/ StopWriter
           \/ PublishEnded
  BY <1>1, <1>5, Stutter
  DEF ReleaseTasks, JoinQueue, CloseSubscriber, StopWriter, PublishEnded
<1> QED
  BY <1>2, <1>3, <1>4, <1>5 DEF Finalize

\* A restore opens a session that is not sealed, and a crash closes it.
LEMMA BootStepRefines ==
    ASSUME TypeOK, SessionInv, InitState \/ Building \/ Crash
    PROVE  [Contract!Next]_(Contract!vars)
<1> USE DEF batchVars, threadVars, historyVars, memoryVars, persistenceVars,
            BootFrame, SessionInv, BootInv
<1>1. CASE InitState
  BY <1>1 DEF InitState, Contract!vars
<1>2. ASSUME NEW b \in Batches, SeedBatch(b) PROVE [Contract!Next]_(Contract!vars)
  BY <1>2 DEF SeedBatch, Contract!vars
<1>3. CASE Register
  <2>1. Active' = {}
    BY <1>3 DEF Register, Active
  <2>2. Contract!Open
    BY <1>3, <2>1 DEF Register, Contract!Open
  <2> QED
    BY <2>2 DEF Contract!Next
<1>4. CASE Crash
  <2>1. Contract!Crash
    BY <1>4 DEF Crash, Contract!Crash
  <2> QED
    BY <2>1 DEF Contract!Next
<1> QED
  BY <1>1, <1>2, <1>3, <1>4 DEF Building

\* Every step of the session is a step of the contract, or a stutter.
LEMMA NextRefines ==
    TypeOK /\ SessionInv /\ [Next]_vars => [Contract!Next]_(Contract!vars)
<1> SUFFICES ASSUME TypeOK, SessionInv, [Next]_vars
             PROVE  [Contract!Next]_(Contract!vars)
  OBVIOUS
<1>1. ASSUME UNCHANGED vars PROVE UNCHANGED Contract!vars
  BY <1>1, Stutter DEF vars, Active
<1>2. CASE Write
  BY <1>2, Stutter
  DEF Write, WriterStep, TakeEntry, LandEntry, diskVars, sessionVars, batchVars,
      Active
<1>3. CASE OtherProcess
  BY <1>3
  DEF OtherProcess, ArchiveStray, sessionVars, batchVars, Active, Contract!vars
<1> QED
  BY <1>1, <1>2, <1>3, BatchStepRefines, EnderStepRefines, FinalizerStepRefines,
     BootStepRefines
  DEF Next, Finished

\* The session keeps its contract: it admits only while it is active, ends only
\* when its batches completed, and never comes back once its end is durable.
THEOREM SessionRefines == Spec => KeepsContract
<1> QED
  BY InitRefines, NextRefines, SessionInvariant, PTL
  DEF Spec, KeepsContract, Contract!Spec

-----------------------------------------------------------------------------
(* What a session leaves on the disk: a closed record implies durable outcomes, *)
(* a dead batch is known, and a restore knows what every closed batch reached.  *)

\* The entries from the one the writer holds to the last of the queue.
Slots == {0} \cup 1 .. Len(queue)
Slot(n) == IF n = 0 THEN writing ELSE queue[n]
IsOutcome(n, t) == Slot(n).kind = "outcome" /\ Slot(n).task = t
IsClose(n, b) == Slot(n).kind = "close" /\ Slot(n).batch = b
\* The last outcome of a batch for a task waits at n.
Waits(n, b, t) == IsOutcome(n, t) /\ Slot(n).version = outcome[b][t]

\* The last outcome of a batch is behind the writer: later ones may wait.
Landed(b, t) ==
    /\ \A n \in Slots : IsOutcome(n, t) => Slot(n).version > outcome[b][t]
    /\ t \in lost \/ snapshot[t] >= outcome[b][t]

\* Outcomes wait in the order of their stamps, none later than what is known.
OrderInv ==
    \A n \in Slots, t \in Tasks : IsOutcome(n, t) =>
        /\ Slot(n).version <= known[t] /\ Slot(n).version > 0
        /\ \A k \in Slots : k > n /\ IsOutcome(k, t) => Slot(k).version > Slot(n).version

\* A batch that did not die with its process has landed or waits; one whose close
\* waits is done, and its outcomes wait ahead of the close.
WaitingOf(b) ==
    /\ submitter[b] # "gone" =>
          \A t \in Tasks : Landed(b, t) \/ \E n \in Slots : Waits(n, b, t)
    /\ submitter[b] \notin {"gone", "done"} => \A t \in Tasks : outcome[b][t] = 0
    /\ \A n \in Slots : IsClose(n, b) =>
          /\ worker[b] \in {"drain", "exited"}
          /\ \A t \in Tasks : Landed(b, t) \/ \E k \in Slots : k < n /\ Waits(k, b, t)
    /\ record[b] = "closed" =>
          /\ submitter[b] \in {"gone", "done"} /\ worker[b] \in {"none", "drain", "exited"}
          /\ \A t \in Tasks : Landed(b, t)
    /\ submitter[b] = "gone" => worker[b] = "none"
    /\ submitter[b] = "done" => worker[b] # "none"
WaitingInv == \A b \in Batches : WaitingOf(b)

\* A process knows what it wrote and what it found.
KnownInv ==
    boot # "down" => \A b \in Batches, t \in Tasks :
        /\ submitter[b] # "gone" => outcome[b][t] <= known[t]
        /\ record[b] = "closed" /\ t \notin lost => outcome[b][t] <= known[t]

\* Nothing waits outside a live process, nor an outcome once the end has joined.
QuietInv ==
    /\ boot # "live" => queue = <<>> /\ writing = NoEntry
    /\ boot # "down" /\ place \in {"stamped", "archived"} => status = "ENDED"
    /\ fin \in {"close", "stop", "stamp", "move", "publish"} \/ place \in {"stamped", "archived"} =>
          \A n \in Slots, t \in Tasks : ~IsOutcome(n, t)
    /\ closed \/ busClosed => status = "ENDED"

\* Every batch whose worker started has a record, and the seeding closes what died.
RecordInv ==
    ~DiskFaults =>
        /\ \A b \in Batches : b \in ran \/ submitter[b] = "spawn" => record[b] # "none"
        /\ boot = "live" => \A b \in Batches : submitter[b] = "gone" => record[b] # "open"
        /\ boot = "seeding" =>
              \A b \in Batches : submitter[b] = "gone" /\ record[b] = "open" => b \in toSeed

DurableInv == OrderInv /\ WaitingInv /\ KnownInv /\ QuietInv /\ RecordInv
InductiveInv == TypeOK /\ SessionInv /\ DurableInv

-----------------------------------------------------------------------------
(* The slots *)

\* A queued entry takes a new slot behind the others.
LEMMA AppendSlots ==
    ASSUME queue \in Seq(Entries), NEW e \in Entries, queue' = Append(queue, e), writing' = writing,
           NEW last, last = Len(queue) + 1
    PROVE  /\ Slots' = Slots \cup {last} /\ last \notin Slots /\ Slot(last)' = e /\ last \in Nat
           /\ \A n \in Slots : n < last /\ n \in Nat /\ Slot(n)' = Slot(n)
<1>1. /\ Len(queue') = last /\ Len(queue) \in Nat /\ queue'[last] = e
      /\ \A n \in 1 .. Len(queue) : queue'[n] = queue[n]
  OBVIOUS
<1>2. Slots' = Slots \cup {last} /\ last \notin Slots
  BY <1>1 DEF Slots
<1>3. ASSUME NEW n \in Slots PROVE n < last /\ n \in Nat /\ Slot(n)' = Slot(n)
  <2>1. CASE n = 0
    BY <1>1, <2>1 DEF Slot
  <2>2. CASE n \in 1 .. Len(queue)
    BY <1>1, <2>2 DEF Slot
  <2>. QED BY <2>1, <2>2 DEF Slots
<1>4. Slot(last)' = e
  BY <1>1 DEF Slot
<1>. QED BY <1>1, <1>2, <1>3, <1>4

\* The writer takes the head: what waits moves one slot nearer.
LEMMA TakeSlots ==
    ASSUME queue \in Seq(Entries), queue # <<>>, writing = NoEntry, queue' = Tail(queue),
           \/ Head(queue) = Stop /\ writing' = NoEntry
           \/ writing' = Head(queue)
    PROVE  /\ \A n \in Slots' : /\ n \in Nat /\ n + 1 \in Slots
                                /\ Slot(n)' = Slot(n + 1) \/ Slot(n)' = NoEntry
           /\ \A n \in Slots : /\ n \in Nat /\ (n = 0 => Slot(n) = NoEntry)
                               /\ n # 0 => /\ n - 1 \in Slots'
                                           /\ Slot(n) = Stop \/ Slot(n - 1)' = Slot(n)
<1>1. /\ Len(queue) \in Nat \ {0} /\ Len(queue') = Len(queue) - 1 /\ Head(queue) = queue[1]
      /\ \A n \in 1 .. Len(queue') : queue'[n] = queue[n + 1]
  OBVIOUS
<1>2. ASSUME NEW n \in Slots'
      PROVE  n \in Nat /\ n + 1 \in Slots /\ (Slot(n)' = Slot(n + 1) \/ Slot(n)' = NoEntry)
  <2>1. CASE n = 0
    BY <1>1, <2>1 DEF Slots, Slot
  <2>2. CASE n \in 1 .. Len(queue')
    BY <1>1, <2>2 DEF Slots, Slot
  <2>. QED BY <2>1, <2>2 DEF Slots
<1>3. ASSUME NEW n \in Slots, n # 0
      PROVE  n - 1 \in Slots' /\ (Slot(n) = Stop \/ Slot(n - 1)' = Slot(n))
  <2>1. CASE n = 1
    BY <1>1, <2>1 DEF Slots, Slot
  <2>2. CASE n # 1
    BY <1>1, <1>3, <2>2 DEF Slots, Slot
  <2>. QED BY <2>1, <2>2
<1>4. \A n \in Slots : n \in Nat /\ (n = 0 => Slot(n) = NoEntry)
  BY <1>1 DEF Slots, Slot
<1>. QED BY <1>2, <1>3, <1>4

\* The writer is done with its entry: only slot 0 changes.
LEMMA LandSlots ==
    ASSUME queue \in Seq(Entries), queue' = queue, writing' = NoEntry
    PROVE  /\ Slots' = Slots /\ Slot(0)' = NoEntry /\ Slot(0) = writing /\ 0 \in Slots
           /\ \A n \in Slots : n \in Nat /\ (n # 0 => Slot(n)' = Slot(n))
BY DEF Slots, Slot

\* What the slots hold is typed.
LEMMA SlotTypes ==
    ASSUME PersistenceTypeOK, NEW n \in Slots
    PROVE  /\ n \in Nat
           /\ \A t : IsOutcome(n, t) => t \in Tasks /\ Slot(n).version \in Versions
           /\ Slot(n) \in Entries \cup {NoEntry}
<1>1. n \in Nat /\ Slot(n) \in Entries \cup {NoEntry}
  <2>1. CASE n = 0
    BY <2>1 DEF Slot, PersistenceTypeOK
  <2>2. CASE n \in 1 .. Len(queue)
    BY <2>2 DEF Slot, PersistenceTypeOK
  <2>. QED BY <2>1, <2>2 DEF Slots
<1>2. ASSUME NEW t, IsOutcome(n, t) PROVE t \in Tasks /\ Slot(n).version \in Versions
  <2>1. Slot(n) \in Entries \ {Stop}
    BY <1>1, <1>2 DEF IsOutcome, NoEntry, Stop
  <2>. QED BY <1>2, <2>1, EntryCases DEF IsOutcome
<1>. QED BY <1>1, <1>2

\* What the entries are made of.
LEMMA KindsDiffer ==
    /\ NoEntry.kind = "none" /\ Stop.kind = "stop"
    /\ \A b : Close(b).kind = "close" /\ Close(b).batch = b
    /\ \A t, v : Outcome(t, v).kind = "outcome" /\ Outcome(t, v).task = t /\ Outcome(t, v).version = v
BY DEF NoEntry, Stop, Close, Outcome

\* An entry is never the absence of one.
LEMMA NoEntryKind == \A e \in Entries : e # NoEntry
BY KindsDiffer, EntryCases

-----------------------------------------------------------------------------
(* Order *)

\* Without a write to the queue the order stays.
LEMMA OrderKept ==
    ASSUME InductiveInv, UNCHANGED <<queue, writing, known>> PROVE OrderInv'
BY DEF InductiveInv, DurableInv, OrderInv, Slots, Slot, IsOutcome

\* A marker or a close does not disturb the order.
LEMMA OrderAppend ==
    ASSUME InductiveInv, NEW e \in Entries, e.kind # "outcome", queue' = Append(queue, e),
           UNCHANGED <<writing, known>>
    PROVE  OrderInv'
<1>1. queue \in Seq(Entries)
  BY DEF InductiveInv, TypeOK, PersistenceTypeOK
<1>2. ASSUME NEW n \in Slots', NEW t \in Tasks, IsOutcome(n, t)'
      PROVE  n \in Slots /\ IsOutcome(n, t) /\ Slot(n)' = Slot(n)
  <2>0. PICK last : last = Len(queue) + 1
    OBVIOUS
  <2>1. /\ Slots' = Slots \cup {last} /\ Slot(last)' = e /\ \A k \in Slots : Slot(k)' = Slot(k)
    BY <1>1, <2>0, AppendSlots
  <2>2. n # last
    BY <1>2, <2>1 DEF IsOutcome
  <2>. QED BY <1>2, <2>1, <2>2 DEF IsOutcome
<1>. QED BY <1>2 DEF InductiveInv, DurableInv, OrderInv

\* A new outcome is later than all that wait for its task.
LEMMA OrderRun ==
    ASSUME InductiveInv, NEW b \in Batches, NEW t \in Tasks, NEW v \in Versions, Later(t, v),
           known' = [known EXCEPT ![t] = v], queue' = Append(queue, Outcome(t, v)),
           UNCHANGED writing
    PROVE  OrderInv'
<1>1. queue \in Seq(Entries) /\ Outcome(t, v) \in Entries
  BY EntriesQueued DEF InductiveInv, TypeOK, PersistenceTypeOK
<1>2. /\ known'[t] = v /\ \A u \in Tasks : u # t => known'[u] = known[u]
      /\ \A u \in Tasks : known[u] \in Nat
      /\ v \in Nat /\ known[t] < v
  BY MaxVersionAssumption DEF InductiveInv, TypeOK, PersistenceTypeOK, Versions, Later
<1>0. PICK last : last = Len(queue) + 1
  OBVIOUS
<1>6. /\ Slots' = Slots \cup {last} /\ Slot(last)' = Outcome(t, v) /\ last \in Nat
      /\ \A k \in Slots : Slot(k)' = Slot(k) /\ k < last /\ k \in Nat
  BY <1>0, <1>1, AppendSlots
<1>3. ASSUME NEW n \in Slots', NEW u \in Tasks, IsOutcome(n, u)'
      PROVE  \/ n \in Slots /\ IsOutcome(n, u) /\ Slot(n)' = Slot(n)
             \/ n = last /\ u = t /\ Slot(n)' = Outcome(t, v)
  <2>2. CASE n \in Slots
    BY <1>3, <1>6, <2>2 DEF IsOutcome
  <2>3. CASE n = last
    <3>1. Slot(n)' = Outcome(t, v)
      BY <1>6, <2>3
    <3>2. Slot(n)'.task = u
      BY <1>3 DEF IsOutcome
    <3>. QED BY <2>3, <3>1, <3>2, KindsDiffer
  <2>. QED BY <1>6, <2>2, <2>3
<1>4. ASSUME NEW n \in Slots', NEW u \in Tasks, IsOutcome(n, u)'
      PROVE  Slot(n)'.version <= known'[u] /\ Slot(n)'.version > 0
  <2>1. CASE n \in Slots /\ IsOutcome(n, u) /\ Slot(n)' = Slot(n)
    <3>1. Slot(n).version <= known[u] /\ Slot(n).version > 0 /\ Slot(n).version \in Nat
      BY <2>1, SlotTypes, MaxVersionAssumption
         DEF InductiveInv, DurableInv, OrderInv, TypeOK, Versions
    <3>. QED BY <1>2, <2>1, <3>1
  <2>2. CASE u = t /\ Slot(n)' = Outcome(t, v)
    BY <1>2, <2>2, KindsDiffer
  <2>. QED BY <1>3, <1>4, <2>1, <2>2
<1>5. ASSUME NEW n \in Slots', NEW k \in Slots', NEW u \in Tasks, IsOutcome(n, u)',
             IsOutcome(k, u)', k > n
      PROVE  Slot(k)'.version > Slot(n)'.version
  <2>1. n \in Slots /\ IsOutcome(n, u) /\ Slot(n)' = Slot(n)
    <3>1. n # last
      BY <1>5, <1>6
    <3>. QED BY <1>3, <1>5, <3>1
  <2>2. CASE k \in Slots /\ IsOutcome(k, u) /\ Slot(k)' = Slot(k)
    BY <1>5, <2>1, <2>2 DEF InductiveInv, DurableInv, OrderInv
  <2>3. CASE u = t /\ Slot(k)' = Outcome(t, v)
    <3>1. Slot(n).version <= known[t] /\ Slot(n).version \in Nat
      BY <2>1, <2>3, SlotTypes, MaxVersionAssumption
         DEF InductiveInv, DurableInv, OrderInv, TypeOK, Versions
    <3>. QED BY <1>2, <2>1, <2>3, <3>1, KindsDiffer
  <2>. QED BY <1>3, <1>5, <2>2, <2>3
<1>. QED BY <1>4, <1>5 DEF OrderInv

\* The order is that of the queue.
LEMMA OrderTake == ASSUME InductiveInv, TakeEntry PROVE OrderInv'
<1>1. queue \in Seq(Entries) /\ queue # <<>> /\ writing = NoEntry /\ queue' = Tail(queue)
      /\ ((Head(queue) = Stop /\ writing' = NoEntry) \/ writing' = Head(queue)) /\ known' = known
  BY DEF TakeEntry, InductiveInv, TypeOK, PersistenceTypeOK
<1>2. \A n \in Slots', t \in Tasks : IsOutcome(n, t)' =>
         /\ n \in Nat /\ n + 1 \in Slots /\ IsOutcome(n + 1, t) /\ Slot(n)' = Slot(n + 1)
  BY <1>1, TakeSlots, KindsDiffer DEF IsOutcome
<1>. QED BY <1>1, <1>2 DEF InductiveInv, DurableInv, OrderInv

\* What landed waits no more.
LEMMA OrderLand == ASSUME InductiveInv, LandEntry PROVE OrderInv'
<1>1. queue \in Seq(Entries) /\ queue' = queue /\ writing' = NoEntry /\ known' = known
  BY DEF LandEntry, InductiveInv, TypeOK, PersistenceTypeOK
<1>2. \A n \in Slots', t \in Tasks : IsOutcome(n, t)' =>
         n \in Slots /\ IsOutcome(n, t) /\ Slot(n)' = Slot(n)
  BY <1>1, LandSlots, KindsDiffer DEF IsOutcome
<1>. QED BY <1>1, <1>2 DEF InductiveInv, DurableInv, OrderInv

-----------------------------------------------------------------------------
(* What waits and what has landed *)

\* Without a write, what waits and what landed stay.
LEMMA LandedKept ==
    ASSUME UNCHANGED <<queue, writing, outcome, lost, snapshot>>,
           NEW b \in Batches
    PROVE  /\ \A t \in Tasks : Landed(b, t)' <=> Landed(b, t)
           /\ Slots' = Slots
           /\ \A n, t : Waits(n, b, t)' <=> Waits(n, b, t)
           /\ \A n : IsClose(n, b)' <=> IsClose(n, b)
BY DEF Landed, Slots, Slot, IsOutcome, IsClose, Waits

\* A thread of a batch moves on, and neither writes nor queues.
MovesOn(b) ==
    \/ submitter'[b] = submitter[b] /\ worker'[b] = worker[b]
    \/ /\ submitter[b] \notin {"gone", "done"} /\ submitter'[b] \notin {"gone", "done"}
       /\ worker'[b] = worker[b]
    \/ /\ submitter[b] \notin {"gone", "done"} /\ submitter'[b] = "done" /\ worker'[b] = "body"
    \/ /\ submitter'[b] = submitter[b] /\ worker[b] \in {"body", "publish", "put"}
       /\ worker'[b] \in {"publish", "put", "drain"}
    \/ /\ submitter'[b] = submitter[b] /\ worker[b] = "drain" /\ worker'[b] = "exited"

\* A step that only moves threads keeps what waits.
LEMMA WaitingKept ==
    ASSUME InductiveInv, UNCHANGED <<queue, writing, outcome, lost, snapshot>>,
           NEW b \in Batches, record'[b] = record[b] \/ record'[b] # "closed", MovesOn(b)
    PROVE  WaitingOf(b)'
<1>1. WaitingOf(b) /\ (worker[b] # "none" => submitter[b] = "done")
  BY DEF InductiveInv, DurableInv, WaitingInv, SessionInv, BatchInv
<1>2. /\ \A t \in Tasks : Landed(b, t)' <=> Landed(b, t)
      /\ Slots' = Slots
      /\ \A n, t : Waits(n, b, t)' <=> Waits(n, b, t)
      /\ \A n : IsClose(n, b)' <=> IsClose(n, b)
  BY LandedKept
<1>3. /\ submitter'[b] # "gone" => submitter[b] # "gone"
      /\ submitter'[b] \notin {"gone", "done"} => submitter[b] \notin {"gone", "done"}
      /\ submitter[b] \in {"gone", "done"} => submitter'[b] = submitter[b]
  BY DEF MovesOn
<1>4. /\ worker[b] \in {"drain", "exited"} => worker'[b] \in {"drain", "exited"}
      /\ submitter'[b] = "gone" => worker'[b] = "none"
      /\ submitter'[b] = "done" => worker'[b] # "none"
      /\ record[b] = "closed" => worker'[b] \in {"none", "drain", "exited"}
  BY <1>1 DEF MovesOn, WaitingOf
<1>. QED BY <1>1, <1>2, <1>3, <1>4 DEF WaitingOf

\* A marker or a close goes behind what waits.
LEMMA WaitingAppend ==
    ASSUME InductiveInv, NEW e \in Entries, e.kind # "outcome", queue' = Append(queue, e),
           UNCHANGED <<writing, outcome, lost, snapshot, record, submitter>>,
           NEW b \in Batches,
           \/ worker'[b] = worker[b] /\ (e.kind = "close" => e.batch # b)
           \/ worker[b] = "put" /\ worker'[b] = "drain" /\ e.kind = "close"
    PROVE  WaitingOf(b)'
<1>0. PICK last : last = Len(queue) + 1
  OBVIOUS
<1>1. /\ Slots' = Slots \cup {last} /\ Slot(last)' = e /\ last \notin Slots /\ last \in Nat
      /\ \A k \in Slots : Slot(k)' = Slot(k) /\ k < last /\ k \in Nat
  BY <1>0, AppendSlots DEF InductiveInv, TypeOK, PersistenceTypeOK
<1>2. WaitingOf(b) /\ (worker[b] # "none" => submitter[b] = "done")
  BY DEF InductiveInv, DurableInv, WaitingInv, SessionInv, BatchInv
<1>3. \A n \in Slots' : \A t \in Tasks : IsOutcome(n, t)' <=> n \in Slots /\ IsOutcome(n, t)
  <2>1. ASSUME NEW n \in Slots', NEW t \in Tasks
        PROVE  IsOutcome(n, t)' <=> n \in Slots /\ IsOutcome(n, t)
    <3>1. CASE n = last
      BY <1>1, <3>1 DEF IsOutcome
    <3>2. CASE n \in Slots
      BY <1>1, <3>2 DEF IsOutcome
    <3>. QED BY <1>1, <3>1, <3>2
  <2>. QED BY <2>1
<1>4. \A n \in Slots' : \A t \in Tasks : Waits(n, b, t)' <=> n \in Slots /\ Waits(n, b, t)
  BY <1>1, <1>3 DEF Waits
<1>5. \A t \in Tasks : Landed(b, t)' <=> Landed(b, t)
  BY <1>1, <1>3 DEF Landed
<1>6. \A n \in Slots : IsClose(n, b)' <=> IsClose(n, b)
  BY <1>1 DEF IsClose
<1>7. ASSUME NEW n \in Slots', IsClose(n, b)'
      PROVE  /\ worker'[b] \in {"drain", "exited"}
             /\ \A t \in Tasks : Landed(b, t)' \/ \E k \in Slots' : k < n /\ Waits(k, b, t)'
  <2>1. CASE n \in Slots
    <3>1. IsClose(n, b)
      BY <1>6, <1>7, <2>1
    <3>. QED BY <1>1, <1>2, <1>4, <1>5, <2>1, <3>1 DEF WaitingOf
  <2>2. CASE n = last
    <3>1. e.kind = "close" /\ e.batch = b
      BY <1>1, <1>7, <2>2 DEF IsClose
    <3>2. worker[b] = "put" /\ worker'[b] = "drain"
      BY <3>1
    <3>3. \A t \in Tasks : Landed(b, t) \/ \E k \in Slots : Waits(k, b, t)
      BY <1>2, <3>2 DEF WaitingOf
    <3>. QED BY <1>1, <1>4, <1>5, <2>2, <3>2, <3>3
  <2>. QED BY <1>1, <2>1, <2>2
<1>8. worker[b] = "put" => record[b] # "closed"
  BY <1>2 DEF WaitingOf
<1>. QED BY <1>1, <1>2, <1>4, <1>5, <1>7, <1>8 DEF WaitingOf

\* An outcome goes behind what waits, and its stamp is later than all before.
LEMMA WaitingRun ==
    ASSUME InductiveInv, NEW b \in Batches, NEW t \in Tasks, NEW v \in Versions, Later(t, v),
           worker[b] = "body", queue' = Append(queue, Outcome(t, v)),
           outcome' = [outcome EXCEPT ![b][t] = v],
           UNCHANGED <<writing, lost, snapshot, record, submitter, worker>>,
           NEW c \in Batches
    PROVE  WaitingOf(c)'
<1>0. PICK last : last = Len(queue) + 1
  OBVIOUS
<1>1. /\ Slots' = Slots \cup {last} /\ Slot(last)' = Outcome(t, v) /\ last \notin Slots
      /\ \A k \in Slots : Slot(k)' = Slot(k) /\ k < last /\ k \in Nat
  BY <1>0, AppendSlots, EntriesQueued DEF InductiveInv, TypeOK, PersistenceTypeOK
<1>2. WaitingOf(c) /\ WaitingOf(b) /\ submitter[b] = "done"
  BY DEF InductiveInv, DurableInv, WaitingInv, SessionInv, BatchInv
<1>3. /\ outcome'[b][t] = v
      /\ \A u \in Tasks : c # b \/ u # t => outcome'[c][u] = outcome[c][u]
  BY DEF InductiveInv, TypeOK, PersistenceTypeOK
<1>4. outcome[c][t] < v
  BY DEF Later
<1>5. ASSUME NEW u \in Tasks, c # b \/ u # t, Landed(c, u) PROVE Landed(c, u)'
  <2>1. ASSUME NEW n \in Slots', IsOutcome(n, u)' PROVE Slot(n)'.version > outcome'[c][u]
    <3>1. CASE n \in Slots
      BY <1>1, <1>3, <1>5, <2>1, <3>1 DEF Landed, IsOutcome
    <3>2. CASE n = last
      BY <1>1, <1>3, <1>4, <1>5, <2>1, <3>2, KindsDiffer DEF IsOutcome
    <3>. QED BY <1>1, <2>1, <3>1, <3>2
  <2>. QED BY <1>3, <1>5, <2>1 DEF Landed
<1>6. \A u \in Tasks : c # b \/ u # t =>
         \A n \in Slots : Waits(n, c, u) => n \in Slots' /\ Waits(n, c, u)'
  BY <1>1, <1>3 DEF Waits, IsOutcome
<1>7. Waits(last, b, t)' /\ last \in Slots'
  BY <1>1, <1>3, KindsDiffer DEF Waits, IsOutcome
<1>8. ASSUME NEW n \in Slots', IsClose(n, c)' PROVE n \in Slots /\ IsClose(n, c)
  BY <1>1, <1>8, KindsDiffer DEF IsClose
<1>9. (\E n \in Slots : IsClose(n, c)) \/ record[c] = "closed" => c # b
  BY <1>2 DEF WaitingOf
<1>10. ASSUME submitter'[c] # "gone", NEW u \in Tasks
       PROVE  Landed(c, u)' \/ \E n \in Slots' : Waits(n, c, u)'
  <2>1. CASE c = b /\ u = t
    BY <1>7, <2>1
  <2>2. CASE c # b \/ u # t
    BY <1>2, <1>5, <1>6, <1>10, <2>2 DEF WaitingOf
  <2>. QED BY <2>1, <2>2
<1>11. submitter'[c] \notin {"gone", "done"} => \A u \in Tasks : outcome'[c][u] = 0
  BY <1>2, <1>3 DEF WaitingOf
<1>12. ASSUME NEW n \in Slots', IsClose(n, c)'
       PROVE  /\ worker'[c] \in {"drain", "exited"}
              /\ \A u \in Tasks : Landed(c, u)' \/ \E k \in Slots' : k < n /\ Waits(k, c, u)'
  <2>1. n \in Slots /\ IsClose(n, c) /\ c # b
    BY <1>8, <1>9, <1>12
  <2>. QED BY <1>2, <1>5, <1>6, <2>1 DEF WaitingOf
<1>13. record'[c] = "closed" =>
          /\ submitter'[c] \in {"gone", "done"} /\ worker'[c] \in {"none", "drain", "exited"}
          /\ \A u \in Tasks : Landed(c, u)'
  BY <1>2, <1>5, <1>9 DEF WaitingOf
<1>. QED BY <1>2, <1>10, <1>11, <1>12, <1>13 DEF WaitingOf

\* The writer takes the head: every slot moves down by one.
LEMMA WaitingTake == ASSUME InductiveInv, TakeEntry, UNCHANGED <<submitter, worker>>, NEW b \in Batches
                     PROVE  WaitingOf(b)'
<1>1. queue \in Seq(Entries) /\ queue # <<>> /\ writing = NoEntry /\ queue' = Tail(queue)
      /\ ((Head(queue) = Stop /\ writing' = NoEntry) \/ writing' = Head(queue))
      /\ UNCHANGED <<outcome, lost, snapshot, record>>
  BY DEF TakeEntry, InductiveInv, TypeOK, PersistenceTypeOK, diskVars
<1>2. WaitingOf(b)
  BY DEF InductiveInv, DurableInv, WaitingInv
<1>3. \A n \in Slots' : \A t \in Tasks : IsOutcome(n, t)' =>
         n + 1 \in Slots /\ IsOutcome(n + 1, t) /\ Slot(n)' = Slot(n + 1)
  BY <1>1, TakeSlots, KindsDiffer DEF IsOutcome
<1>4. \A t \in Tasks : Landed(b, t) => Landed(b, t)'
  BY <1>1, <1>3 DEF Landed
<1>5. \A n \in Slots : \A t \in Tasks : Waits(n, b, t) =>
         n \in Nat /\ n - 1 \in Slots' /\ Waits(n - 1, b, t)'
  <2>1. ASSUME NEW n \in Slots, NEW t \in Tasks, Waits(n, b, t)
        PROVE  n \in Nat /\ n - 1 \in Slots' /\ Waits(n - 1, b, t)'
    <3>1. Slot(n) # NoEntry /\ Slot(n) # Stop
      BY <2>1, KindsDiffer DEF Waits, IsOutcome
    <3>2. n \in Nat /\ n - 1 \in Slots' /\ Slot(n - 1)' = Slot(n)
      BY <1>1, <3>1, TakeSlots
    <3>. QED BY <1>1, <2>1, <3>2 DEF Waits, IsOutcome
  <2>. QED BY <2>1
<1>6. \A n \in Slots' : IsClose(n, b)' => n \in Nat /\ n + 1 \in Slots /\ IsClose(n + 1, b)
  BY <1>1, TakeSlots, KindsDiffer DEF IsClose
<1>7. ASSUME NEW n \in Slots', IsClose(n, b)', NEW t \in Tasks
      PROVE  Landed(b, t)' \/ \E k \in Slots' : k < n /\ Waits(k, b, t)'
  <2>1. n \in Nat /\ n + 1 \in Slots /\ IsClose(n + 1, b)
    BY <1>6, <1>7
  <2>2. CASE Landed(b, t)
    BY <1>4, <2>2
  <2>3. CASE \E k \in Slots : k < n + 1 /\ Waits(k, b, t)
    <3>1. PICK k \in Slots : k < n + 1 /\ Waits(k, b, t)
      BY <2>3
    <3>2. k \in Nat /\ k - 1 \in Slots' /\ Waits(k - 1, b, t)'
      BY <1>5, <3>1
    <3>3. k - 1 < n
      BY <2>1, <3>1, <3>2
    <3>. QED BY <3>2, <3>3
  <2>. QED BY <1>2, <2>1, <2>2, <2>3 DEF WaitingOf
<1>8. \A n \in Slots' : IsClose(n, b)' => worker'[b] \in {"drain", "exited"}
  BY <1>2, <1>6 DEF WaitingOf
<1>9. submitter'[b] # "gone" =>
         \A t \in Tasks : Landed(b, t)' \/ \E n \in Slots' : Waits(n, b, t)'
  BY <1>2, <1>4, <1>5 DEF WaitingOf
<1>10. record'[b] = "closed" =>
          /\ submitter'[b] \in {"gone", "done"} /\ worker'[b] \in {"none", "drain", "exited"}
          /\ \A t \in Tasks : Landed(b, t)'
  BY <1>1, <1>2, <1>4 DEF WaitingOf
<1>. QED BY <1>1, <1>2, <1>7, <1>8, <1>9, <1>10 DEF WaitingOf

\* The writer finishes an entry: what it held has landed, or is lost.
LEMMA LandFacts ==
    ASSUME InductiveInv, LandEntry, NEW b \in Batches
    PROVE  /\ Slots' = Slots
           /\ \A n \in Slots : n \in Nat /\ (n # 0 => Slot(n)' = Slot(n))
           /\ \A n \in Slots : IsClose(n, b)' => n # 0 /\ IsClose(n, b)
           /\ \A t \in Tasks : Landed(b, t) => Landed(b, t)'
           /\ \A n \in Slots : \A t \in Tasks : Waits(n, b, t) =>
                 (n # 0 /\ Waits(n, b, t)') \/ Landed(b, t)'
           /\ record'[b] = "closed" => record[b] = "closed" \/ IsClose(0, b)
<1>1. queue \in Seq(Entries) /\ queue' = queue /\ writing' = NoEntry /\ outcome' = outcome
      /\ writing \in Entries \ {Stop}
  BY DEF LandEntry, InductiveInv, TypeOK, PersistenceTypeOK
<1>2. /\ Slots' = Slots /\ Slot(0)' = NoEntry /\ Slot(0) = writing /\ 0 \in Slots
      /\ \A n \in Slots : n \in Nat /\ (n # 0 => Slot(n)' = Slot(n))
  BY <1>1, LandSlots
<1>3. \A n \in Slots : \A t \in Tasks : IsOutcome(n, t)' =>
         n # 0 /\ IsOutcome(n, t) /\ Slot(n)' = Slot(n)
  BY <1>2, KindsDiffer DEF IsOutcome
<1>4. \A n \in Slots : IsClose(n, b)' => n # 0 /\ IsClose(n, b)
  BY <1>2, KindsDiffer DEF IsClose
<1>5. \A n \in Slots : \A t \in Tasks : n # 0 /\ Waits(n, b, t) => Waits(n, b, t)'
  BY <1>1, <1>2 DEF Waits, IsOutcome
<1>6. CASE writing.kind = "close"
  <2>1. UNCHANGED <<snapshot, lost>> /\ writing.batch \in Batches
        /\ (record' = record \/ record' = [record EXCEPT ![writing.batch] = "closed"])
    BY <1>1, <1>6, EntryCases DEF LandEntry, SaveBatch, NoSave
  <2>2. record'[b] = "closed" => record[b] = "closed" \/ IsClose(0, b)
    BY <1>2, <1>6, <2>1 DEF InductiveInv, TypeOK, PersistenceTypeOK, IsClose
  <2>3. \A t \in Tasks : Landed(b, t) => Landed(b, t)'
    BY <1>1, <1>2, <1>3, <2>1 DEF Landed
  <2>4. \A t \in Tasks : ~Waits(0, b, t)
    BY <1>2, <1>6 DEF Waits, IsOutcome
  <2>. QED BY <1>2, <1>4, <1>5, <2>2, <2>3, <2>4
<1>7. CASE writing.kind = "outcome" /\ writing.task \in Tasks /\ writing.version \in Versions
  <2>0. DEFINE t == writing.task
               v == writing.version
  <2>1. IsOutcome(0, t)
    BY <1>2, <1>7 DEF IsOutcome
  <2>2. place # "archived"
    <3>1. boot = "live"
      BY <1>1, NoEntryKind DEF LandEntry, InductiveInv, DurableInv, QuietInv
    <3>. QED BY <1>2, <1>7, <2>1, <3>1 DEF InductiveInv, DurableInv, QuietInv
  <2>3. /\ record' = record
        /\ \/ snapshot' = [snapshot EXCEPT ![t] = v] /\ lost' = lost \ {t}
           \/ snapshot' = snapshot /\ lost' = lost \cup {t}
    BY <1>7, <2>2 DEF LandEntry, SaveSnapshot, NoSave
  <2>4. /\ \A u \in Tasks : u # t => snapshot'[u] = snapshot[u] /\ (u \in lost' <=> u \in lost)
        /\ t \in lost' \/ snapshot'[t] = v
    BY <1>7, <2>3 DEF InductiveInv, TypeOK, PersistenceTypeOK
  <2>5. v \in Nat /\ outcome[b][t] \in Nat
    BY <1>7, MaxVersionAssumption DEF InductiveInv, TypeOK, PersistenceTypeOK, Versions
  <2>6. ASSUME NEW u \in Tasks, Landed(b, u) PROVE Landed(b, u)'
    <3>1. \A n \in Slots : IsOutcome(n, u)' => Slot(n)'.version > outcome[b][u]
      BY <1>3, <2>6 DEF Landed
    <3>2. u \in lost' \/ snapshot'[u] >= outcome[b][u]
      <4>1. CASE u = t
        <5>1. v > outcome[b][t]
          BY <1>2, <2>1, <2>6, <4>1 DEF Landed
        <5>. QED BY <2>4, <2>5, <4>1, <5>1
      <4>2. CASE u # t
        BY <2>4, <2>6, <4>2 DEF Landed
      <4>. QED BY <4>1, <4>2
    <3>. QED BY <1>1, <1>2, <3>1, <3>2 DEF Landed
  <2>7. ASSUME NEW u \in Tasks, Waits(0, b, u) PROVE Landed(b, u)'
    <3>1. u = t /\ v = outcome[b][t]
      BY <1>2, <2>7 DEF Waits, IsOutcome
    <3>2. ASSUME NEW n \in Slots, IsOutcome(n, u)' PROVE Slot(n)'.version > v
      <4>1. n # 0 /\ IsOutcome(n, t) /\ Slot(n)' = Slot(n) /\ n > 0
        BY <1>2, <1>3, <3>1, <3>2
      <4>2. Slot(n).version > Slot(0).version
        BY <1>2, <1>7, <2>1, <4>1 DEF InductiveInv, DurableInv, OrderInv
      <4>. QED BY <1>2, <4>1, <4>2
    <3>. QED BY <1>1, <1>2, <2>4, <2>5, <3>1, <3>2 DEF Landed
  <2>. QED BY <1>2, <1>4, <1>5, <2>3, <2>6, <2>7
<1>. QED BY <1>1, <1>6, <1>7, EntryCases

\* What the writer held has landed, and a close it held came last.
LEMMA WaitingLand == ASSUME InductiveInv, LandEntry, UNCHANGED <<submitter, worker>>, NEW b \in Batches
                     PROVE  WaitingOf(b)'
<1>1. WaitingOf(b) /\ (worker[b] # "none" => submitter[b] = "done") /\ outcome' = outcome
  BY DEF InductiveInv, DurableInv, WaitingInv, SessionInv, BatchInv, LandEntry
<1>2. /\ Slots' = Slots
      /\ \A n \in Slots : n \in Nat
      /\ \A n \in Slots : IsClose(n, b)' => n # 0 /\ IsClose(n, b)
      /\ \A t \in Tasks : Landed(b, t) => Landed(b, t)'
      /\ \A n \in Slots : \A t \in Tasks : Waits(n, b, t) =>
            (n # 0 /\ Waits(n, b, t)') \/ Landed(b, t)'
      /\ record'[b] = "closed" => record[b] = "closed" \/ IsClose(0, b)
  BY LandFacts
<1>3. IsClose(0, b) => \A t \in Tasks : Landed(b, t)
  <2>1. \A n \in Slots : ~(n < 0)
    BY <1>2
  <2>2. 0 \in Slots
    BY DEF Slots
  <2>. QED BY <1>1, <2>1, <2>2 DEF WaitingOf
<1>4. record'[b] = "closed" =>
         /\ submitter'[b] \in {"gone", "done"} /\ worker'[b] \in {"none", "drain", "exited"}
         /\ \A t \in Tasks : Landed(b, t)'
  <2>1. CASE record[b] = "closed"
    BY <1>1, <1>2, <2>1 DEF WaitingOf
  <2>2. CASE IsClose(0, b)
    <3>1. 0 \in Slots
      BY DEF Slots
    <3>. QED BY <1>1, <1>2, <1>3, <2>2, <3>1 DEF WaitingOf
  <2>. QED BY <1>2, <2>1, <2>2
<1>5. ASSUME NEW n \in Slots', IsClose(n, b)', NEW t \in Tasks
      PROVE  Landed(b, t)' \/ \E k \in Slots' : k < n /\ Waits(k, b, t)'
  BY <1>1, <1>2, <1>5 DEF WaitingOf
<1>6. \A n \in Slots' : IsClose(n, b)' => worker'[b] \in {"drain", "exited"}
  BY <1>1, <1>2 DEF WaitingOf
<1>7. submitter'[b] # "gone" =>
         \A t \in Tasks : Landed(b, t)' \/ \E n \in Slots' : Waits(n, b, t)'
  BY <1>1, <1>2 DEF WaitingOf
<1>. QED BY <1>1, <1>4, <1>5, <1>6, <1>7 DEF WaitingOf

\* A process that died leaves what landed.
LEMMA WaitingCrash == ASSUME InductiveInv, Crash, NEW b \in Batches PROVE WaitingOf(b)'
<1>1. WaitingOf(b) /\ queue' = <<>> /\ writing' = NoEntry
      /\ UNCHANGED <<outcome, lost, snapshot, record>>
      /\ submitter'[b] = (IF submitter[b] = "idle" THEN "idle" ELSE "gone")
      /\ worker'[b] = "none"
  BY DEF Crash, BootFrame, InductiveInv, DurableInv, WaitingInv
<1>2. Slots' = {0} /\ Slot(0)' = NoEntry
  BY <1>1 DEF Slots, Slot
<1>3. \A t \in Tasks : Landed(b, t) \/ outcome[b][t] = 0 => Landed(b, t)'
  <2>1. \A t \in Tasks : snapshot[t] \in Nat
    BY MaxVersionAssumption DEF InductiveInv, TypeOK, PersistenceTypeOK, Versions
  <2>. QED BY <1>1, <1>2, <2>1, KindsDiffer DEF Landed, IsOutcome
<1>4. \A n : n \in Slots' => ~IsClose(n, b)'
  BY <1>2, KindsDiffer DEF IsClose
<1>. QED BY <1>1, <1>3, <1>4 DEF WaitingOf

-----------------------------------------------------------------------------
(* The steps of a batch *)

\* What a process knows, when a step only moves threads.
LEMMA KnownKept ==
    ASSUME InductiveInv, UNCHANGED <<known, outcome, lost>>, boot' = boot,
           \A b \in Batches : /\ submitter'[b] # "gone" => submitter[b] # "gone"
                              /\ record'[b] = "closed" => record[b] = "closed"
    PROVE  KnownInv'
BY DEF InductiveInv, DurableInv, KnownInv

\* A step that leaves the queue alone and ends nothing stays quiet.
LEMMA QuietKept ==
    ASSUME InductiveInv, UNCHANGED <<queue, writing, boot, place, closed, busClosed>>,
           status' = status \/ status' = "ENDED" \/ status = "ACTIVE",
           fin' \in {"close", "stop", "stamp", "move", "publish"} => fin' = fin
    PROVE  QuietInv'
<1>1. \A n, t : n \in Slots' /\ IsOutcome(n, t)' => n \in Slots /\ IsOutcome(n, t)
  BY DEF Slots, Slot, IsOutcome
<1>. QED BY <1>1 DEF InductiveInv, DurableInv, QuietInv

\* No outcome waits after a marker or a close was queued, if none did before.
LEMMA AppendQuiet ==
    ASSUME InductiveInv, NEW e \in Entries, e.kind # "outcome", queue' = Append(queue, e),
           writing' = writing
    PROVE  (\A n \in Slots, t \in Tasks : ~IsOutcome(n, t)) =>
               (\A n \in Slots, t \in Tasks : ~IsOutcome(n, t))'
<1>0. PICK last : last = Len(queue) + 1
  OBVIOUS
<1>1. /\ Slots' = Slots \cup {last} /\ Slot(last)' = e
      /\ \A k \in Slots : Slot(k)' = Slot(k)
  BY <1>0, AppendSlots DEF InductiveInv, TypeOK, PersistenceTypeOK
<1>. QED BY <1>1 DEF IsOutcome

\* The records, when a step neither starts a batch nor writes one.
LEMMA RecordKept ==
    ASSUME InductiveInv, UNCHANGED <<boot, toSeed, record>>,
           \A b \in Batches :
              b \in ran' \/ submitter'[b] = "spawn" => b \in ran \/ submitter[b] = "spawn",
           \A b \in Batches : submitter'[b] = "gone" => submitter[b] = "gone"
    PROVE  RecordInv'
BY DEF InductiveInv, DurableInv, RecordInv

\* The submitter of a batch works for a session that did not end.
LEMMA PreparingIsLive ==
    ASSUME InductiveInv, NEW b \in Batches, Preparing(b) \/ worker[b] = "body"
    PROVE  /\ boot = "live" /\ status # "ENDED" /\ ~closed /\ ~busClosed
           /\ place \notin {"stamped", "archived"} /\ record[b] # "closed"
           /\ Preparing(b) => submitter[b] \notin {"gone", "done"}
<1>1. /\ boot = "live" /\ status # "ENDED"
      /\ Preparing(b) => submitter[b] \notin {"gone", "done"}
  BY DEF InductiveInv, SessionInv, BootInv, BatchInv, FinalizerInv, Preparing, TypeOK
<1>2. ~closed /\ ~busClosed /\ place \notin {"stamped", "archived"}
  BY <1>1 DEF InductiveInv, DurableInv, QuietInv
<1>3. record[b] # "closed"
  BY <1>1 DEF InductiveInv, DurableInv, WaitingInv, WaitingOf
<1>. QED BY <1>1, <1>2, <1>3

\* Admission, start, the open record and the spawn.
LEMMA SubmitterStepDurable ==
    ASSUME InductiveInv, NEW b \in Batches, Admit(b) \/ RequestStop(b) \/ Submission(b)
    PROVE  DurableInv'
<1> USE DEF sessionVars, batchVars, threadVars, historyVars, persistenceVars, memoryVars,
            diskVars
<1>1. /\ UNCHANGED <<queue, writing, known, outcome, lost, closed, busClosed, place, boot,
                     status, fin, toSeed, snapshot>>
      /\ \A c \in Batches \ {b} : UNCHANGED <<submitter[c], worker[c], record[c]>>
      /\ MovesOn(b) /\ (record'[b] = record[b] \/ record'[b] = "open")
      /\ \A c \in Batches : c \in ran' => c \in ran \/ submitter[c] = "spawn"
  <2> USE DEF InductiveInv, TypeOK, PersistenceTypeOK, MovesOn
  <2>1. CASE Admit(b)
    BY <2>1 DEF Admit
  <2>2. CASE RequestStop(b)
    BY <2>2 DEF RequestStop
  <2>3. CASE Start(b) \/ PublishCreated(b)
    BY <2>3 DEF Start, PublishCreated
  <2>4. CASE SaveCreated(b)
    BY <2>4 DEF SaveCreated, SaveBatch, NoSave
  <2>5. CASE Spawn(b)
    BY <2>5 DEF Spawn
  <2>. QED BY <2>1, <2>2, <2>3, <2>4, <2>5 DEF Submission
<1>2. OrderInv'
  BY <1>1, OrderKept
<1>3. WaitingInv'
  <2>1. \A c \in Batches : MovesOn(c) /\ (record'[c] = record[c] \/ record'[c] # "closed")
    BY <1>1 DEF MovesOn
  <2>. QED BY <1>1, <2>1, WaitingKept DEF WaitingInv
<1>4. KnownInv'
  <2>1. \A c \in Batches : /\ submitter'[c] # "gone" => submitter[c] # "gone"
                           /\ record'[c] = "closed" => record[c] = "closed"
    BY <1>1 DEF MovesOn
  <2>. QED BY <1>1, <2>1, KnownKept
<1>5. QuietInv'
  BY <1>1, QuietKept
<1>6. RecordInv'
  <2>1. CASE SaveCreated(b)
    <3>1. Preparing(b)
      BY <2>1 DEF SaveCreated, Preparing
    <3>2. /\ submitter' = [submitter EXCEPT ![b] = "spawn"] /\ ran' = ran
          /\ ~DiskFaults => record' = [record EXCEPT ![b] = "open"]
      BY <2>1, <3>1, PreparingIsLive DEF SaveCreated, SaveBatch
    <3>. QED BY <1>1, <3>1, <3>2, PreparingIsLive
             DEF RecordInv, InductiveInv, DurableInv, TypeOK, PersistenceTypeOK
  <2>2. CASE ~SaveCreated(b)
    <3>1. record' = record
      BY <2>2 DEF Admit, RequestStop, Submission, Start, PublishCreated, Spawn
    <3>2. submitter'[b] = "spawn" => submitter[b] = "spawn"
      <4>1. Preparing(b) => ~(busClosed \/ closed)
        BY PreparingIsLive
      <4>. QED BY <2>2, <4>1
               DEF Admit, RequestStop, Submission, Start, PublishCreated, Spawn, Preparing,
                   InductiveInv, TypeOK
    <3>3. \A c \in Batches : submitter'[c] = "gone" => submitter[c] = "gone"
      BY <1>1 DEF MovesOn
    <3>4. \A c \in Batches :
             c \in ran' \/ submitter'[c] = "spawn" => c \in ran \/ submitter[c] = "spawn"
      BY <1>1, <3>2
    <3>. QED BY <1>1, <3>1, <3>3, <3>4, RecordKept
  <2>. QED BY <2>1, <2>2
<1>. QED BY <1>2, <1>3, <1>4, <1>5, <1>6 DEF DurableInv

\* A terminal outcome: later than what is known, and behind what waits.
LEMMA RunBodyDurable ==
    ASSUME InductiveInv, NEW b \in Batches, RunBody(b) PROVE DurableInv'
<1> USE DEF sessionVars, batchVars, threadVars, historyVars, persistenceVars, memoryVars,
            diskVars
<1>1. PICK t \in Tasks, v \in Versions :
         /\ Later(t, v) /\ known' = [known EXCEPT ![t] = v]
         /\ queue' = Append(queue, Outcome(t, v)) /\ outcome' = [outcome EXCEPT ![b][t] = v]
  BY DEF RunBody, OnTaskStatus
<1>2. /\ worker[b] = "body"
      /\ UNCHANGED <<writing, closed, busClosed, lost, snapshot, record, place, submitter, worker,
                     boot, status, fin, toSeed, ran>>
  BY DEF RunBody
<1>3. OrderInv'
  BY <1>1, <1>2, OrderRun
<1>4. WaitingInv'
  BY <1>1, <1>2, WaitingRun DEF WaitingInv
<1>5. /\ boot = "live" /\ status # "ENDED" /\ place \notin {"stamped", "archived"}
      /\ fin \in {"none", "decide"} /\ record[b] # "closed"
  BY <1>2, PreparingIsLive DEF InductiveInv, SessionInv, FinalizerInv
<1>6. KnownInv'
  <2>1. /\ known'[t] = v /\ outcome'[b][t] = v /\ v \in Nat
        /\ \A u \in Tasks : u # t => known'[u] = known[u]
        /\ \A c \in Batches, u \in Tasks : c # b \/ u # t => outcome'[c][u] = outcome[c][u]
        /\ \A c \in Batches : outcome[c][t] < v
    BY <1>1, MaxVersionAssumption DEF InductiveInv, TypeOK, PersistenceTypeOK, Versions, Later
  <2>2. \A c \in Batches, u \in Tasks : outcome[c][u] \in Nat
    BY MaxVersionAssumption DEF InductiveInv, TypeOK, PersistenceTypeOK, Versions
  <2>3. ASSUME NEW c \in Batches, NEW u \in Tasks
        PROVE  outcome[c][u] <= known[u] => outcome'[c][u] <= known'[u]
    BY <2>1, <2>2
  <2>4. ASSUME NEW c \in Batches, NEW u \in Tasks, c = b /\ u = t
        PROVE  outcome'[c][u] <= known'[u]
    BY <2>1, <2>4
  <2>5. ASSUME NEW c \in Batches, NEW u \in Tasks
        PROVE  /\ submitter'[c] # "gone" => outcome'[c][u] <= known'[u]
               /\ record'[c] = "closed" /\ u \notin lost' => outcome'[c][u] <= known'[u]
    BY <1>2, <1>5, <2>3 DEF InductiveInv, DurableInv, KnownInv
  <2>. QED BY <2>5 DEF KnownInv
<1>7. QuietInv'
  BY <1>2, <1>5 DEF QuietInv, InductiveInv, DurableInv
<1>8. RecordInv'
  BY <1>2 DEF RecordInv, InductiveInv, DurableInv
<1>. QED BY <1>3, <1>4, <1>6, <1>7, <1>8 DEF DurableInv

\* Completion, the close of the record and the drain rule.
LEMMA WorkStepDurable ==
    ASSUME InductiveInv, NEW b \in Batches, Work(b) PROVE DurableInv'
<1> USE DEF sessionVars, batchVars, threadVars, historyVars, persistenceVars, memoryVars,
            diskVars
<1>1. CASE CompleteBatch(b) \/ PublishCompleted(b) \/ FinalizeIfDrained(b)
  <2>1. /\ UNCHANGED <<queue, writing, known, outcome, lost, closed, busClosed, place, boot,
                       toSeed, snapshot, record, submitter, ran>>
        /\ \A c \in Batches \ {b} : worker'[c] = worker[c]
        /\ MovesOn(b)
        /\ status' = status \/ status' = "ENDED"
        /\ fin' = fin \/ fin' = "release"
    BY <1>1 DEF CompleteBatch, PublishCompleted, FinalizeIfDrained, MovesOn, InductiveInv, TypeOK
  <2>2. \A c \in Batches : MovesOn(c)
    BY <2>1 DEF MovesOn
  <2>3. WaitingInv'
    BY <2>1, <2>2, WaitingKept DEF WaitingInv
  <2>4. OrderInv' /\ KnownInv' /\ QuietInv'
    BY <2>1, OrderKept, KnownKept, QuietKept
  <2>5. RecordInv'
    BY <2>1 DEF RecordInv, InductiveInv, DurableInv
  <2>. QED BY <2>3, <2>4, <2>5 DEF DurableInv
<1>2. CASE QueueClose(b)
  <2>1. /\ UNCHANGED <<writing, known, outcome, lost, closed, busClosed, place, boot, status, fin,
                       toSeed, snapshot, record, submitter, ran>>
        /\ \A c \in Batches \ {b} : worker'[c] = worker[c]
        /\ worker[b] = "put" /\ worker'[b] = "drain"
        /\ queue' = Append(queue, Close(b)) /\ Close(b) \in Entries
        /\ Close(b).kind = "close" /\ Close(b).batch = b
    BY <1>2, EntriesQueued, KindsDiffer DEF QueueClose, PutClose, InductiveInv, TypeOK
  <2>2. OrderInv'
    BY <2>1, OrderAppend
  <2>3. WaitingInv'
    <3>1. ASSUME NEW c \in Batches PROVE WaitingOf(c)'
      <4>1. CASE c = b
        BY <2>1, <4>1, WaitingAppend
      <4>2. CASE c # b
        BY <2>1, <4>2, WaitingAppend
      <4>. QED BY <4>1, <4>2
    <3>. QED BY <3>1 DEF WaitingInv
  <2>4. KnownInv' /\ RecordInv'
    BY <2>1, KnownKept DEF RecordInv, InductiveInv, DurableInv
  <2>5. boot = "live"
    BY <2>1 DEF InductiveInv, SessionInv, BootInv
  <2>6. QuietInv'
    BY <2>1, <2>5, AppendQuiet DEF QuietInv, InductiveInv, DurableInv
  <2>. QED BY <2>2, <2>3, <2>4, <2>6 DEF DurableInv
<1>. QED BY <1>1, <1>2 DEF Work

-----------------------------------------------------------------------------
(* The steps of the users and of the finalizer *)

\* A step that only moves the end of the session.
LEMMA EndStep ==
    ASSUME InductiveInv,
           UNCHANGED <<queue, writing, known, outcome, lost, snapshot, record, submitter, worker,
                       boot, toSeed, ran>>
    PROVE  OrderInv' /\ WaitingInv' /\ KnownInv' /\ RecordInv'
<1>1. \A c \in Batches : MovesOn(c)
  BY DEF MovesOn
<1>2. WaitingInv'
  BY <1>1, WaitingKept DEF WaitingInv
<1>3. OrderInv' /\ KnownInv'
  BY OrderKept, KnownKept
<1>4. RecordInv'
  BY DEF RecordInv, InductiveInv, DurableInv
<1>. QED BY <1>2, <1>3, <1>4

\* The users that end and force the end.
LEMMA EnderStepDurable ==
    ASSUME InductiveInv, NEW e \in Enders, End(e) \/ Ending(e) PROVE DurableInv'
<1>1. /\ UNCHANGED <<queue, writing, known, outcome, lost, snapshot, record, submitter, worker,
                     boot, toSeed, ran, place, closed, busClosed>>
      /\ status' = status \/ status = "ACTIVE"
      /\ fin' = fin \/ fin' = "decide"
  BY DEF End, Ending, EndReturns, ForceStop, EnderFrame, sessionVars, batchVars, historyVars,
         persistenceVars
<1>. QED BY <1>1, EndStep, QuietKept DEF DurableInv

\* The finalizer: no outcome waits once it joined the queue.
LEMMA FinalizerStepDurable == ASSUME InductiveInv, Finalize PROVE DurableInv'
<1> USE DEF FinalizerFrame, batchVars, threadVars, historyVars, persistenceVars, memoryVars,
            diskVars
<1>1. fin \notin {"none", "decide"} => status = "ENDED" /\ boot = "live"
  BY DEF InductiveInv, SessionInv, FinalizerInv, BootInv
<1>2. CASE Decide \/ ReleaseTasks
  <2>1. /\ UNCHANGED <<queue, writing, known, outcome, lost, snapshot, record, submitter, worker,
                       boot, toSeed, ran, place, closed, busClosed>>
        /\ status' = status \/ status' = "ENDED"
        /\ fin' \in {"release", "none", "join"}
    BY <1>2 DEF Decide, ReleaseTasks
  <2>. QED BY <2>1, EndStep, QuietKept DEF DurableInv
<1>3. CASE JoinQueue
  <2>1. /\ UNCHANGED <<queue, writing, known, outcome, lost, snapshot, record, submitter, worker,
                       boot, toSeed, ran, place, closed, busClosed, status>>
        /\ queue = <<>> /\ writing = NoEntry /\ fin = "join"
    BY <1>3 DEF JoinQueue, QueueJoined
  <2>2. \A n \in Slots', t \in Tasks : ~IsOutcome(n, t)'
    BY <2>1, KindsDiffer DEF Slots, Slot, IsOutcome
  <2>3. QuietInv'
    BY <1>1, <2>1, <2>2 DEF QuietInv, InductiveInv, DurableInv
  <2>. QED BY <2>1, <2>3, EndStep DEF DurableInv
<1>4. CASE CloseSubscriber \/ StampManifest \/ MoveSession \/ PublishEnded
  <2>1. /\ UNCHANGED <<queue, writing, known, outcome, lost, snapshot, record, submitter, worker,
                       boot, toSeed, ran, status>>
        /\ fin \in {"close", "stamp", "move", "publish"}
    BY <1>4 DEF CloseSubscriber, StampManifest, MoveSession, PublishEnded
  <2>2. \A n \in Slots', t \in Tasks : ~IsOutcome(n, t)'
    BY <2>1 DEF QuietInv, InductiveInv, DurableInv, Slots, Slot, IsOutcome
  <2>3. QuietInv'
    BY <1>1, <2>1, <2>2 DEF QuietInv
  <2>. QED BY <2>1, <2>3, EndStep DEF DurableInv
<1>5. CASE StopWriter
  <2>1. /\ UNCHANGED <<writing, known, outcome, lost, snapshot, record, submitter, worker, boot,
                       toSeed, ran, status>>
        /\ queue' = Append(queue, Stop) /\ fin = "stop"
        /\ Stop \in Entries /\ Stop.kind = "stop"
    BY <1>5, EntriesQueued, KindsDiffer DEF StopWriter
  <2>2. OrderInv'
    BY <2>1, OrderAppend
  <2>3. WaitingInv'
    BY <2>1, WaitingAppend DEF WaitingInv
  <2>4. KnownInv' /\ RecordInv'
    BY <2>1, KnownKept DEF RecordInv, InductiveInv, DurableInv
  <2>5. \A n \in Slots', t \in Tasks : ~IsOutcome(n, t)'
    BY <2>1, AppendQuiet DEF QuietInv, InductiveInv, DurableInv
  <2>6. QuietInv'
    BY <1>1, <2>1, <2>5 DEF QuietInv
  <2>. QED BY <2>2, <2>3, <2>4, <2>6 DEF DurableInv
<1>. QED BY <1>2, <1>3, <1>4, <1>5 DEF Finalize

-----------------------------------------------------------------------------
(* The steps of the writer and of another process *)

\* The writer takes and lands entries.
LEMMA WriteStepDurable == ASSUME InductiveInv, Write PROVE DurableInv'
<1> USE DEF sessionVars, batchVars, threadVars, historyVars, diskVars
<1>1. UNCHANGED <<known, outcome, submitter, worker, boot, toSeed, ran, status, fin, place, closed,
                  busClosed>>
  BY DEF Write, WriterStep, TakeEntry, LandEntry
<1>2. CASE TakeEntry
  <2>1. UNCHANGED <<record, lost, snapshot>> /\ queue \in Seq(Entries) /\ queue # <<>>
        /\ writing = NoEntry /\ queue' = Tail(queue)
        /\ ((Head(queue) = Stop /\ writing' = NoEntry) \/ writing' = Head(queue))
    BY <1>2 DEF TakeEntry, InductiveInv, TypeOK, PersistenceTypeOK
  <2>2. OrderInv' /\ WaitingInv'
    BY <1>1, <1>2, OrderTake, WaitingTake DEF WaitingInv
  <2>3. KnownInv' /\ RecordInv'
    BY <1>1, <2>1, KnownKept DEF RecordInv, InductiveInv, DurableInv
  <2>4. (\A n \in Slots, t \in Tasks : ~IsOutcome(n, t)) =>
            (\A n \in Slots, t \in Tasks : ~IsOutcome(n, t))'
    BY <2>1, TakeSlots, KindsDiffer DEF IsOutcome
  <2>5. QuietInv'
    BY <1>1, <2>1, <2>4 DEF QuietInv, InductiveInv, DurableInv
  <2>. QED BY <2>2, <2>3, <2>5 DEF DurableInv
<1>3. CASE LandEntry
  <2>1. OrderInv' /\ WaitingInv'
    BY <1>1, <1>3, OrderLand, WaitingLand DEF WaitingInv
  <2>2. queue' = queue /\ writing' = NoEntry /\ writing \in Entries \ {Stop}
        /\ queue \in Seq(Entries)
    BY <1>3 DEF LandEntry, InductiveInv, TypeOK, PersistenceTypeOK
  <2>3. boot = "live"
    BY <2>2, NoEntryKind DEF InductiveInv, DurableInv, QuietInv
  <2>4. \A n \in Slots', t \in Tasks : IsOutcome(n, t)' => n \in Slots /\ IsOutcome(n, t)
    BY <2>2, LandSlots, KindsDiffer DEF IsOutcome
  <2>5. QuietInv'
    BY <1>1, <2>3, <2>4 DEF QuietInv, InductiveInv, DurableInv
  <2>6. KnownInv'
    <3>1. ASSUME NEW b \in Batches, NEW t \in Tasks, record'[b] = "closed", t \notin lost'
          PROVE  outcome[b][t] <= known[t]
      <4>1. CASE record[b] = "closed" /\ t \notin lost
        BY <2>3, <4>1 DEF InductiveInv, DurableInv, KnownInv
      <4>2. CASE IsClose(0, b)
        <5>1. worker[b] # "none" /\ submitter[b] # "gone"
          BY <4>2 DEF InductiveInv, DurableInv, WaitingInv, WaitingOf, Slots
        <5>. QED BY <2>3, <5>1 DEF InductiveInv, DurableInv, KnownInv
      <4>3. CASE record[b] = "closed" /\ t \in lost
        <5>1. IsOutcome(0, t)
          <6>1. writing.kind # "close" /\ t = writing.task
            BY <1>3, <3>1, <4>3 DEF LandEntry
          <6>. QED BY <2>2, <6>1, EntryCases DEF IsOutcome, Slot
        <5>2. /\ Slot(0).version > outcome[b][t] /\ Slot(0).version <= known[t]
              /\ Slot(0).version \in Versions
          <6>1. 0 \in Slots /\ Landed(b, t)
            BY <4>3 DEF Slots, InductiveInv, DurableInv, WaitingInv, WaitingOf
          <6>. QED BY <5>1, <6>1, SlotTypes
                   DEF Landed, InductiveInv, DurableInv, OrderInv, TypeOK
        <5>. QED BY <5>2, MaxVersionAssumption
                 DEF Versions, InductiveInv, TypeOK, PersistenceTypeOK
      <4>. QED BY <1>3, <3>1, <4>1, <4>2, <4>3, LandFacts
    <3>. QED BY <1>1, <2>3, <3>1 DEF KnownInv, InductiveInv, DurableInv
  <2>7. RecordInv'
    <3>1. \A b \in Batches : record'[b] = record[b] \/ record'[b] = "closed"
      <4>1. record' = record \/ record' = [record EXCEPT ![writing.batch] = "closed"]
        BY <1>3 DEF LandEntry, SaveBatch, SaveSnapshot, NoSave
      <4>. QED BY <4>1 DEF InductiveInv, TypeOK, PersistenceTypeOK
    <3>. QED BY <1>1, <2>3, <3>1 DEF RecordInv, InductiveInv, DurableInv
  <2>. QED BY <2>1, <2>5, <2>6, <2>7 DEF DurableInv
<1>. QED BY <1>2, <1>3 DEF Write, WriterStep

\* Another process finishes a torn end.
LEMMA OtherStepDurable == ASSUME InductiveInv, OtherProcess PROVE DurableInv'
<1>1. /\ UNCHANGED <<queue, writing, known, outcome, lost, snapshot, record, submitter, worker,
                     boot, toSeed, ran, status, fin, closed, busClosed>>
      /\ place = "stamped" /\ place' = "archived"
  BY DEF OtherProcess, ArchiveStray, sessionVars, batchVars, threadVars, historyVars, memoryVars
<1>2. \A n, t : n \in Slots' /\ IsOutcome(n, t)' => n \in Slots /\ IsOutcome(n, t)
  BY <1>1 DEF Slots, Slot, IsOutcome
<1>3. QuietInv'
  BY <1>1, <1>2 DEF QuietInv, InductiveInv, DurableInv
<1>. QED BY <1>1, <1>3, EndStep DEF DurableInv

-----------------------------------------------------------------------------
(* Crash and restore *)

\* A crash leaves the disk, and nothing that waits.
LEMMA CrashDurable == ASSUME InductiveInv, Crash PROVE DurableInv'
<1>1. /\ boot' = "down" /\ queue' = <<>> /\ writing' = NoEntry /\ ran' = ran /\ record' = record
      /\ fin' = "none" /\ closed' = FALSE /\ busClosed' = FALSE
      /\ \A b \in Batches : submitter'[b] = (IF submitter[b] = "idle" THEN "idle" ELSE "gone")
  BY DEF Crash, BootFrame, historyVars
<1>2. \A n \in Slots', t \in Tasks : ~IsOutcome(n, t)'
  BY <1>1, KindsDiffer DEF Slots, Slot, IsOutcome
<1>3. OrderInv' /\ KnownInv' /\ QuietInv'
  BY <1>1, <1>2 DEF OrderInv, KnownInv, QuietInv
<1>4. RecordInv'
  BY <1>1 DEF RecordInv, InductiveInv, DurableInv
<1>5. WaitingInv'
  BY WaitingCrash DEF WaitingInv
<1>. QED BY <1>3, <1>4, <1>5 DEF DurableInv

\* A process that starts knows what landed, and lists what it has to close.
LEMMA InitStateDurable == ASSUME InductiveInv, InitState PROVE DurableInv'
<1> USE DEF batchVars, threadVars, historyVars, BootFrame
<1>1. /\ boot = "down" /\ boot' = "seeding" /\ known' = snapshot /\ place' = "open"
      /\ toSeed' = {b \in Batches : record[b] = "open"}
      /\ UNCHANGED <<queue, writing, outcome, lost, snapshot, record, submitter, worker, ran,
                     status, fin, closed, busClosed>>
  BY DEF InitState, InitialState
<1>2. queue = <<>> /\ writing = NoEntry
  BY <1>1 DEF InductiveInv, DurableInv, QuietInv
<1>3. \A n \in Slots', t \in Tasks : ~IsOutcome(n, t)'
  BY <1>1, <1>2, KindsDiffer DEF Slots, Slot, IsOutcome
<1>4. WaitingInv'
  <2>1. \A c \in Batches : MovesOn(c)
    BY <1>1 DEF MovesOn
  <2>. QED BY <1>1, <2>1, WaitingKept DEF WaitingInv
<1>5. OrderInv'
  BY <1>3 DEF OrderInv
<1>6. QuietInv'
  BY <1>1, <1>2, <1>3 DEF QuietInv, InductiveInv, DurableInv
<1>7. KnownInv'
  <2>1. ASSUME NEW b \in Batches, NEW t \in Tasks
        PROVE  /\ submitter[b] # "gone" => outcome[b][t] <= snapshot[t]
               /\ record[b] = "closed" /\ t \notin lost => outcome[b][t] <= snapshot[t]
    <3>1. worker[b] = "none"
      BY <1>1 DEF InductiveInv, SessionInv, BootInv
    <3>2. submitter[b] # "gone" => outcome[b][t] = 0
      BY <3>1 DEF InductiveInv, DurableInv, WaitingInv, WaitingOf
    <3>3. record[b] = "closed" /\ t \notin lost => snapshot[t] >= outcome[b][t]
      BY DEF InductiveInv, DurableInv, WaitingInv, WaitingOf, Landed
    <3>4. snapshot[t] \in Nat /\ outcome[b][t] \in Nat
      BY MaxVersionAssumption DEF InductiveInv, TypeOK, PersistenceTypeOK, Versions
    <3>. QED BY <3>2, <3>3, <3>4
  <2>. QED BY <1>1, <2>1 DEF KnownInv
<1>8. RecordInv'
  BY <1>1 DEF RecordInv, InductiveInv, DurableInv
<1>. QED BY <1>4, <1>5, <1>6, <1>7, <1>8 DEF DurableInv

\* The restore seeds what died, and goes live.
LEMMA BuildingDurable == ASSUME InductiveInv, Building PROVE DurableInv'
<1> USE DEF batchVars, threadVars, historyVars, memoryVars, persistenceVars
<1>1. ASSUME NEW b \in Batches, SeedBatch(b) PROVE DurableInv'
  <2>1. /\ UNCHANGED <<queue, writing, known, outcome, lost, snapshot, submitter, worker, boot, ran,
                       status, fin, place, closed, busClosed>>
        /\ boot = "seeding" /\ toSeed' = toSeed \ {b} /\ place = "open"
        /\ record' = record \/ record' = [record EXCEPT ![b] = "interrupted"]
        /\ ~DiskFaults => record' = [record EXCEPT ![b] = "interrupted"]
    BY <1>1 DEF SeedBatch, SaveBatch, NoSave, InductiveInv, SessionInv, BootInv
  <2>2. \A c \in Batches : MovesOn(c) /\ (record'[c] = record[c] \/ record'[c] # "closed")
    BY <2>1 DEF MovesOn, InductiveInv, TypeOK, PersistenceTypeOK
  <2>3. WaitingInv'
    BY <2>1, <2>2, WaitingKept DEF WaitingInv
  <2>4. KnownInv'
    <3>1. \A c \in Batches : /\ submitter'[c] # "gone" => submitter[c] # "gone"
                             /\ record'[c] = "closed" => record[c] = "closed"
      BY <2>1, <2>2
    <3>. QED BY <2>1, <3>1, KnownKept
  <2>5. OrderInv' /\ QuietInv'
    BY <2>1, OrderKept, QuietKept
  <2>6. RecordInv'
    BY <2>1 DEF RecordInv, InductiveInv, DurableInv, TypeOK, PersistenceTypeOK
  <2>. QED BY <2>3, <2>4, <2>5, <2>6 DEF DurableInv
<1>2. CASE Register
  <2>1. /\ UNCHANGED <<queue, writing, known, outcome, lost, snapshot, record, submitter, worker,
                       ran, status, fin, place, closed, busClosed>>
        /\ boot = "seeding" /\ boot' = "live" /\ toSeed = {} /\ place = "open"
    BY <1>2 DEF Register, InductiveInv, SessionInv, BootInv
  <2>2. \A c \in Batches : MovesOn(c)
    BY <2>1 DEF MovesOn
  <2>3. OrderInv' /\ WaitingInv'
    BY <2>1, <2>2, OrderKept, WaitingKept DEF WaitingInv
  <2>4. KnownInv' /\ RecordInv'
    BY <2>1 DEF KnownInv, RecordInv, InductiveInv, DurableInv
  <2>5. fin = "none"
    BY <2>1 DEF InductiveInv, SessionInv, BootInv
  <2>6. QuietInv'
    BY <2>1, <2>5 DEF QuietInv, InductiveInv, DurableInv
  <2>. QED BY <2>3, <2>4, <2>6 DEF DurableInv
<1>. QED BY <1>1, <1>2 DEF Building

-----------------------------------------------------------------------------
(* The theorems *)

\* The invariant holds at the start.
LEMMA InitDurable == Init => DurableInv
<1> SUFFICES ASSUME Init PROVE DurableInv
  OBVIOUS
<1>1. Slots = {0} /\ Slot(0) = NoEntry
  BY DEF Init, PersistenceInit, Slots, Slot
<1>2. \A n \in Slots : \A t : ~IsOutcome(n, t) /\ ~IsClose(n, t)
  BY <1>1, KindsDiffer DEF IsOutcome, IsClose
<1>3. \A b \in Batches : WaitingOf(b)
  <2>1. \A b \in Batches, t \in Tasks : Landed(b, t)
    BY <1>2 DEF Init, PersistenceInit, Landed
  <2>. QED BY <1>2, <2>1 DEF Init, PersistenceInit, WaitingOf
<1>. QED BY <1>2, <1>3
         DEF Init, PersistenceInit, DurableInv, OrderInv, WaitingInv, KnownInv, QuietInv, RecordInv

\* Every step keeps the invariant.
LEMMA NextDurable == InductiveInv /\ [Next]_vars => DurableInv'
<1> SUFFICES ASSUME InductiveInv, [Next]_vars PROVE DurableInv'
  OBVIOUS
<1>1. CASE UNCHANGED vars
  <2>1. /\ UNCHANGED <<queue, writing, known, outcome, lost, snapshot, record, submitter, worker,
                       boot, toSeed, ran, place, closed, busClosed, status, fin>>
    BY <1>1 DEF vars
  <2>. QED BY <2>1, EndStep, QuietKept DEF DurableInv
<1>. QED BY <1>1, SubmitterStepDurable, RunBodyDurable, WorkStepDurable, EnderStepDurable,
            FinalizerStepDurable, WriteStepDurable, OtherStepDurable, InitStateDurable,
            BuildingDurable, CrashDurable
         DEF Next, Finished

\* The queue, the disk and the records keep their order, whatever fails or dies.
THEOREM DurableInvariant == Spec => []InductiveInv
<1>1. Init => InductiveInv
  BY InitTypeOK, InitSessionInv, InitDurable DEF InductiveInv
<1>2. InductiveInv /\ [Next]_vars => InductiveInv'
  BY NextTypeOK, NextSessionInv, NextDurable DEF InductiveInv
<1>. QED BY <1>1, <1>2, PTL DEF Spec

\* A closed record implies that what the batch reached is on the disk, or that
\* its write failed and was reported.
THEOREM ClosedIsDurable == Spec => []ClosedImpliesDurable
<1>1. InductiveInv => ClosedImpliesDurable
  BY DEF InductiveInv, DurableInv, WaitingInv, WaitingOf, Landed, ClosedImpliesDurable
<1>. QED BY <1>1, DurableInvariant, PTL

\* A batch that began its work is known after a crash: closed, or interrupted.
THEOREM DeadBatchesAreKnown == Spec => []DeadBatchIsKnown
<1>1. InductiveInv => DeadBatchIsKnown
  BY DEF InductiveInv, TypeOK, PersistenceTypeOK, RecordStates, DurableInv, RecordInv,
         DeadBatchIsKnown
<1>. QED BY <1>1, DurableInvariant, PTL

\* A restored session knows each task as well as every closed batch left it.
THEOREM RestoresKnow == Spec => []RestoreKnowsOutcomes
<1>1. InductiveInv => RestoreKnowsOutcomes
  <2>1. InductiveInv => \A b \in Batches, t \in Tasks : outcome[b][t] \in Nat /\ known[t] \in Nat
    BY MaxVersionAssumption DEF InductiveInv, TypeOK, PersistenceTypeOK, Versions
  <2>. QED BY <2>1 DEF InductiveInv, DurableInv, KnownInv, RestoreKnowsOutcomes
<1>. QED BY <1>1, DurableInvariant, PTL

================================================================================
