----------------------------- MODULE Persistence -----------------------------
(***************************************************************************)
(* The durable state of one session: the subscriber that queues outcomes   *)
(* and batch closes, its writer thread, and the directory they land in.    *)
(*                                                                         *)
(* An outcome of a task is a version number: a later terminal status has a *)
(* greater one. A session directory is in open/ until the end stamps its   *)
(* manifest and moves it. A write after the move makes a new directory in  *)
(* open/ (the write creates the parents of its path).                      *)
(***************************************************************************)
EXTENDS Naturals, Sequences

CONSTANTS
    Batches, Tasks,
    MaxVersion, \* bound: the outcomes of one task
    DiskFaults  \* may a write of the store fail?

ASSUME MaxVersionAssumption == MaxVersion \in Nat
ASSUME DiskFaultsAssumption == DiskFaults \in BOOLEAN

VARIABLES
    known,    \* task |-> the version this process knows (_written, initial_state)
    queue,    \* the writer queue
    writing,  \* the entry the writer took and did not finish
    writer,   \* "none", "running" or "stopped"
    closed,   \* the _closed flag of the subscriber
    snapshot, \* disk: task |-> the version of its stored snapshot
    record,   \* disk: batch |-> its stored record
    place,    \* disk: where the manifest is
    stray,    \* disk: a write landed in open/ after the move
    lost,     \* history: the tasks whose latest snapshot failed to land
    outcome   \* history: batch |-> task |-> the last version it produced

memoryVars == <<known, queue, writing, writer, closed>>
diskVars == <<snapshot, record, place, stray, lost>>
persistenceVars == <<known, queue, writing, writer, closed, snapshot, record,
                     place, stray, lost, outcome>>

Versions == 0..MaxVersion
Places == { "none", "open", "stamped", "archived" }
RecordStates == { "none", "open", "closed", "interrupted" }

NoEntry == [ kind |-> "none" ]
Stop == [ kind |-> "stop" ]
Outcome(t, v) == [ kind |-> "outcome", task |-> t, version |-> v ]
Close(b) == [ kind |-> "close", batch |-> b ]
Entries ==
    { Stop } \cup { Close(b) : b \in Batches }
    \cup { Outcome(x[1], x[2]) : x \in Tasks \X Versions }

-----------------------------------------------------------------------------
(* The store: what one write of it does *)

SaveSnapshot(t, v) ==
    IF place = "archived"
    THEN stray' = TRUE /\ UNCHANGED <<snapshot, record>>
    ELSE snapshot' = [snapshot EXCEPT ![t] = v] /\ UNCHANGED <<stray, record>>

SaveBatch(b, s) ==
    IF place = "archived"
    THEN stray' = TRUE /\ UNCHANGED <<snapshot, record>>
    ELSE record' = [record EXCEPT ![b] = s] /\ UNCHANGED <<stray, snapshot>>

NoSave == UNCHANGED <<snapshot, record, stray>>

-----------------------------------------------------------------------------
(* The subscriber *)

\* The stamp of an outcome is later than that of every outcome of the task before.
Later(t, v) ==
    /\ known[t] < v /\ \A b \in Batches : outcome[b][t] < v
    /\ known[t] = v - 1 \/ \E b \in Batches : outcome[b][t] = v - 1

\* A terminal outcome: stamped in memory, and queued.
OnTaskStatus(b, t) ==
    \E v \in Versions :
        /\ Later(t, v)
        /\ known' = [known EXCEPT ![t] = v]
        /\ queue' = Append(queue, Outcome(t, v))
        /\ outcome' = [outcome EXCEPT ![b][t] = v]

\* Mutant: the close goes ahead of what is queued.
PutCloseFirst(b) == queue' = <<Close(b)>> \o queue

\* Queue order puts the close behind every outcome of the batch.
PutClose(b) == queue' = Append(queue, Close(b))

\* Mutant: a restored subscriber begins with no state.
InitialStateEmpty == [t \in Tasks |-> 0]

\* What the store holds before this process wrote: one read for the session.
InitialState == snapshot

\* The join of the queue returns when every entry was taken and finished.
QueueJoined == queue = <<>> /\ writing = NoEntry

-----------------------------------------------------------------------------
(* The writer thread *)

TakeEntry ==
    /\ writer = "running" /\ writing = NoEntry /\ queue # <<>>
    /\ queue' = Tail(queue)
    /\ IF Head(queue) = Stop
       THEN writer' = "stopped" /\ UNCHANGED writing
       ELSE writing' = Head(queue) /\ UNCHANGED writer
    /\ UNCHANGED <<known, closed, outcome>>
    /\ UNCHANGED diskVars

\* A write that fails is counted and dropped; the writer goes on.
LandEntry ==
    /\ writing # NoEntry
    /\ writing' = NoEntry
    /\ \/ /\ IF writing.kind = "close" THEN SaveBatch(writing.batch, "closed")
             ELSE SaveSnapshot(writing.task, writing.version)
          /\ lost' = IF writing.kind = "close" THEN lost
                     ELSE lost \ { writing.task }
       \/ /\ DiskFaults
          /\ NoSave
          /\ lost' = IF writing.kind = "close" THEN lost
                     ELSE lost \cup { writing.task }
    /\ UNCHANGED <<known, queue, writer, closed, place, outcome>>

WriterStep == TakeEntry \/ LandEntry

-----------------------------------------------------------------------------
(* The store of another process that lists the open sessions *)

\* A stamped manifest in open/ is a torn mark: the listing finishes it.
ArchiveStray ==
    /\ place = "stamped"
    /\ place' = "archived"
    /\ UNCHANGED <<snapshot, record, stray, lost, outcome>>
    /\ UNCHANGED memoryVars

PersistenceInit ==
    /\ known = [t \in Tasks |-> 0]
    /\ queue = <<>>
    /\ writing = NoEntry
    /\ writer = "none"
    /\ closed = FALSE
    /\ snapshot = [t \in Tasks |-> 0]
    /\ record = [b \in Batches |-> "none"]
    /\ place = "none"
    /\ stray = FALSE
    /\ lost = {}
    /\ outcome = [b \in Batches |-> [t \in Tasks |-> 0]]

PersistenceTypeOK ==
    /\ known \in [Tasks -> Versions]
    /\ queue \in Seq(Entries)
    /\ writing \in (Entries \ { Stop }) \cup { NoEntry }
    /\ writer \in { "none", "running", "stopped" }
    /\ closed \in BOOLEAN
    /\ snapshot \in [Tasks -> Versions]
    /\ record \in [Batches -> RecordStates]
    /\ place \in Places
    /\ stray \in BOOLEAN
    /\ lost \subseteq Tasks
    /\ outcome \in [Batches -> [Tasks -> Versions]]
=============================================================================
