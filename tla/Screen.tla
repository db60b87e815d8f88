------------------------------- MODULE Screen -------------------------------
(***************************************************************************)
(* What a terminal client shows of a live session: the worker threads of   *)
(* the batches write the task store and the record stores, each write and  *)
(* its publish a step of their own (src/winslow/store.py, runner/store.py, *)
(* runner/headless.py), the bus calls the screen that subscribed, and the  *)
(* screen, the history pane and the log view apply what they hear and what *)
(* they read (src/winslow/ui/screens/workflow.py,                          *)
(* ui/builtin_plugins/workflow/history.py and task_detail.py).             *)
(* A remote client may lose its lane and be healed by a snapshot; how the  *)
(* lane does so is EventStream, how claims are waited for is TaskRunner.   *)
(***************************************************************************)
EXTENDS Naturals, SequencesExt

CONSTANTS
    Batches,
    TasksOf,    \* TasksOf[b]: the tasks of a batch
    Outcomes,   \* the statuses a task may end with
    Watched,    \* the task whose log view may open
    MaxTurns    \* bound: the gaps of the lane and the returns to the screen

Tasks == UNION {TasksOf[b] : b \in Batches}

ASSUME ScreenAssumption ==
    IsFiniteSet(Batches) /\ IsFiniteSet(Tasks) /\ \A b \in Batches : TasksOf[b] # {}

Active == {"QUEUED", "RUNNING"}
Nothing == <<>>
\* dict.update: the new entries over the old ones.
Updated(old, new) ==
    [x \in DOMAIN old \cup DOMAIN new |-> IF x \in DOMAIN new THEN new[x] ELSE old[x]]

VARIABLES
    phase,     \* phase[b]: how far the threads of the batch came
    batch,     \* batch[b]: its execution status
    stopping,  \* the batches whose stop event is set
    status,    \* the task store
    record,    \* record[b]: the record store, Nothing until it is registered
    work,      \* work[b]: the set_status call of the worker, Nothing between two
    buffer,    \* the log buffer of the watched task: a line per batch
    ended,     \* the session ended: the store is cleared, the bus closed
    link,      \* "local", or the lane of a remote client: "up", "down"
    stage,     \* the screen: "none", "installed", "composed", "reading", "overlay", "live"
    subscribed, mirror, snapshot,
    queue,     \* the message queue of the screen
    cards,     \* the cards of the pane, by batch
    refreshes, \* the history-refresh workers in flight
    view,      \* the log view: "closed", "attached", "open"
    lines,     \* its message queue
    shown,     \* the lines it wrote
    turns, begun, \* counters: gaps and returns, refreshes
    missed, overlapped, straddled \* history: see the properties

serverVars == <<phase, batch, stopping, status, record, work, ended>>
cardVars == <<cards, refreshes, begun, overlapped>>
screenVars == <<stage, subscribed, mirror, snapshot>>
logVars == <<buffer, view, lines, shown, straddled>>
vars == <<serverVars, cardVars, screenVars, logVars, queue, link, turns, missed>>

Init ==
    /\ phase = [b \in Batches |-> "none"] /\ batch = [b \in Batches |-> "QUEUED"]
    /\ stopping = {}
    /\ status = [t \in Tasks |-> "INITIALIZED"]
    /\ record = [b \in Batches |-> Nothing] /\ work = [b \in Batches |-> Nothing]
    /\ ended = FALSE /\ link \in {"local", "up"}
    /\ stage = "none" /\ subscribed = FALSE /\ mirror = Nothing /\ snapshot = Nothing
    /\ queue = <<>> /\ cards = Nothing /\ refreshes = {}
    /\ buffer = <<>> /\ view = "closed" /\ lines = <<>> /\ shown = <<>>
    /\ turns = 0 /\ begun = 0
    /\ missed = {} /\ overlapped = {} /\ straddled = {}

Info(b) == [status |-> batch[b], done |-> phase[b] \in {"completed", "closed"},
            tasks |-> DOMAIN record[b]]
Created(b) == [kind |-> "created", batch |-> b, info |-> Info(b)]
Completed(b) == [kind |-> "completed", batch |-> b, info |-> Info(b)]

-----------------------------------------------------------------------------
(* The threads of the server. *)
Publish(e) ==
    queue' = IF subscribed /\ ~ended /\ link # "down" THEN Append(queue, e) ELSE queue
PublishBatch(e) ==
    /\ Publish(e)
    \* The panes were composed and the screen does not listen yet.
    /\ missed' = IF stage = "composed" THEN missed \cup {e.batch} ELSE missed

SameScreen == UNCHANGED <<stopping, cardVars, screenVars, link, turns>>

OpenBatch(b) ==
    /\ phase[b] = "none" /\ ~ended
    /\ phase' = [phase EXCEPT ![b] = "opened"]
    /\ UNCHANGED <<batch, status, record, work, ended, logVars, queue, missed>>
    /\ SameScreen

\* batch.start, which overwrites the status of an early stop and not its event,
\* and the registration of the records.  The READY_TO_PROCESS
\* events find no row: a row comes from a record that is registered.
Admit(b) ==
    /\ phase[b] = "opened"
    /\ phase' = [phase EXCEPT ![b] = "admitted"]
    /\ batch' = [batch EXCEPT ![b] = "RUNNING"]
    /\ record' = [record EXCEPT ![b] = [t \in TasksOf[b] |-> "READY_TO_PROCESS"]]
    /\ UNCHANGED <<status, work, ended, logVars, queue, missed>> /\ SameScreen

AnnounceCreated(b) ==
    /\ phase[b] = "admitted"
    /\ phase' = [phase EXCEPT ![b] = "body"]
    /\ PublishBatch(Created(b))
    /\ UNCHANGED <<batch, status, record, work, ended, logVars>> /\ SameScreen

Claimed(t) == \E c \in Batches : work[c] # Nothing /\ work[c].task = t /\ work[c].claims

At(b, step) == work[b] # Nothing /\ work[b].at = step
Goto(b, step) == work' = [work EXCEPT ![b].at = step]

\* set_status, its first half: the task store.  A thread that holds the claim
\* is the only one to write the task, so the write and its publish are a step.
SetStatus(b, t, goal, claims) ==
    /\ status' = [status EXCEPT ![t] = goal]
    /\ IF status[t] = goal THEN queue' = queue
       ELSE Publish([kind |-> "task", task |-> t, status |-> goal])
    /\ work' = [work EXCEPT ![b] = [task |-> t, goal |-> goal, at |-> "record",
                                   claims |-> claims, hears |-> FALSE]]

Take(b, t) ==
    /\ phase[b] = "body" /\ work[b] = Nothing /\ record[b][t] = "READY_TO_PROCESS"
    /\ \/ b \in stopping /\ SetStatus(b, t, "ABORTED", FALSE)
       \/ b \notin stopping /\ ~Claimed(t) /\ SetStatus(b, t, "RUNNING", TRUE)
    /\ UNCHANGED <<phase, batch, record, ended, logVars, missed>> /\ SameScreen

\* The record store: one thread at a time writes a record, so the write and its
\* publish are one step; the queue of the screen delays the event.
WriteRecord(b) ==
    LET t == work[b].task  goal == work[b].goal IN
    /\ At(b, "record")
    /\ record' = [record EXCEPT ![b][t] = goal]
    /\ IF record[b][t] = goal THEN queue' = queue
       ELSE Publish([kind |-> "record", batch |-> b, task |-> t, status |-> goal])
    /\ IF goal = "RUNNING"
       THEN Goto(b, IF t = Watched THEN "log" ELSE "body")
       ELSE work' = [work EXCEPT ![b] = Nothing]
    /\ UNCHANGED <<phase, batch, status, ended, logVars, missed>> /\ SameScreen

TakeListenersOnceWritten(b) ==
    /\ At(b, "log")
    /\ work' = [work EXCEPT ![b].at = "append", ![b].hears = (view = "open")]
    /\ UNCHANGED <<phase, batch, status, record, ended, logVars, queue, missed>> /\ SameScreen

\* TaskLogDispatcher.emit: the listeners are read under the lock, the line is
\* buffered and handed to them after it.
TakeListeners(b) ==
    /\ At(b, "log")
    /\ work' = [work EXCEPT ![b].at = "append", ![b].hears = (view # "closed")]
    /\ UNCHANGED <<phase, batch, status, record, ended, logVars, queue, missed>>
    /\ SameScreen

EmitLine(b) ==
    /\ At(b, "append")
    /\ buffer' = Append(buffer, b)
    /\ lines' = IF work[b].hears THEN Append(lines, b) ELSE lines
    /\ Goto(b, "body")
    /\ UNCHANGED <<phase, batch, status, record, ended, view, shown, straddled, queue,
                   missed>>
    /\ SameScreen

Finish(b) ==
    /\ At(b, "body")
    /\ \E o \in Outcomes : SetStatus(b, work[b].task, o, TRUE)
    /\ UNCHANGED <<phase, batch, record, ended, logVars, missed>> /\ SameScreen

Complete(b) ==
    /\ phase[b] = "body" /\ work[b] = Nothing
    /\ \A t \in TasksOf[b] : record[b][t] # "READY_TO_PROCESS"
    /\ phase' = [phase EXCEPT ![b] = "completed"]
    /\ batch' = [batch EXCEPT ![b] = IF @ = "STOPPED" THEN @ ELSE "FINISHED"]
    /\ UNCHANGED <<status, record, work, ended, logVars, queue, missed>>
    /\ SameScreen

AnnounceCompleted(b) ==
    /\ phase[b] = "completed"
    /\ phase' = [phase EXCEPT ![b] = "closed"]
    /\ PublishBatch(Completed(b))
    /\ UNCHANGED <<batch, status, record, work, ended, logVars>> /\ SameScreen

EndSession ==
    /\ ~ended /\ \A b \in Batches : phase[b] \in {"none", "closed"}
    /\ ended' = TRUE
    /\ UNCHANGED <<phase, batch, status, record, work, logVars, queue, missed>>
    /\ SameScreen

-----------------------------------------------------------------------------
(* The screen. *)
StoreItems == IF ended THEN Nothing ELSE status
History == [b \in {c \in Batches : phase[c] # "none"} |-> [info |-> Info(b), rows |-> record[b]]]

Install ==
    /\ stage = "none" /\ ~ended /\ link # "down"
    /\ stage' = "installed" /\ mirror' = status
    /\ UNCHANGED <<serverVars, cardVars, logVars, subscribed, snapshot, queue, link,
                   turns, missed>>

CardOf(info, rows) == [active |-> info.status \in Active, rows |-> rows]

Compose ==
    /\ stage = "installed" /\ link # "down"
    /\ stage' = "composed"
    /\ cards' = [b \in DOMAIN History |-> CardOf(History[b].info, History[b].rows)]
    /\ UNCHANGED <<serverVars, logVars, subscribed, mirror, snapshot, queue, link,
                   turns, refreshes, begun, overlapped, missed>>

\* on_mount: the closed bus of an ended session refuses the subscription.
Connect ==
    /\ stage = "composed" /\ link # "down"
    /\ stage' = "reading" /\ subscribed' = ~ended
    /\ UNCHANGED <<serverVars, cardVars, logVars, mirror, snapshot, queue, link,
                   turns, missed>>

ReadSnapshot ==
    /\ stage = "reading"
    /\ snapshot' = IF link = "down" THEN Nothing ELSE StoreItems
    /\ stage' = "overlay"
    /\ UNCHANGED <<serverVars, cardVars, logVars, subscribed, mirror, queue, link,
                   turns, missed>>

\* The screen awaited the read: no message was handled since.
OverlayNothing ==
    /\ stage = "overlay"
    /\ stage' = "live" /\ snapshot' = Nothing
    /\ UNCHANGED <<serverVars, cardVars, logVars, subscribed, mirror, queue, link, turns, missed>>

Overlay ==
    /\ stage = "overlay"
    /\ mirror' = Updated(mirror, snapshot)
    /\ stage' = "live" /\ snapshot' = Nothing
    /\ UNCHANGED <<serverVars, cardVars, logVars, subscribed, queue, link, turns,
                   missed>>

Resume ==
    /\ stage = "live" /\ turns < MaxTurns
    /\ stage' = "reading" /\ turns' = turns + 1
    /\ UNCHANGED <<serverVars, cardVars, logVars, subscribed, mirror, snapshot, queue, link,
                   missed>>

-----------------------------------------------------------------------------
(* The history pane. *)
Refresh(b) ==
    /\ refreshes' = refreshes \cup {[n |-> begun, batch |-> b, read |-> FALSE, rows |-> Nothing]}
    /\ begun' = begun + 1
    /\ overlapped' = IF \E r \in refreshes : r.batch = b THEN overlapped \cup {b} ELSE overlapped
NoRefresh == UNCHANGED <<refreshes, begun, overlapped>>

OnBatchCreated(e) ==
    IF e.batch \in DOMAIN cards
    THEN /\ cards' = cards
         /\ IF e.info.done THEN NoRefresh ELSE Refresh(e.batch)
    ELSE /\ cards' = Updated(cards, [b \in {e.batch} |-> CardOf(e.info, [t \in e.info.tasks |-> "unknown"])])
         /\ NoRefresh

OnBatchCompletedNoRefresh(e) ==
    /\ cards' = IF e.batch \in DOMAIN cards THEN [cards EXCEPT ![e.batch].active = FALSE] ELSE cards
    /\ NoRefresh

OnBatchCompleted(e) ==
    /\ cards' = IF e.batch \in DOMAIN cards THEN [cards EXCEPT ![e.batch].active = FALSE] ELSE cards
    /\ Refresh(e.batch)

OnExecutionStatus(e) ==
    /\ cards' = IF e.batch \in DOMAIN cards /\ e.task \in DOMAIN cards[e.batch].rows
                THEN [cards EXCEPT ![e.batch].rows[e.task] = e.status] ELSE cards
    /\ NoRefresh

\* The message pump of the screen.  The pane has a queue of its own, which only
\* delays what the queue of the screen delays already.
HandleStoreEvent ==
    LET e == Head(queue) IN
    /\ stage = "live" /\ queue # <<>>
    /\ queue' = Tail(queue)
    /\ mirror' = IF e.kind = "task" THEN [mirror EXCEPT ![e.task] = e.status] ELSE mirror
    /\ CASE e.kind = "task" -> UNCHANGED cardVars
         [] e.kind = "created" -> OnBatchCreated(e)
         [] e.kind = "completed" -> OnBatchCompleted(e)
         [] e.kind = "record" -> OnExecutionStatus(e)
    /\ UNCHANGED <<serverVars, logVars, stage, subscribed, snapshot, link, turns,
                   missed>>

\* The worker reads the history on a thread of its own; an outage ends it.
RefreshRead(r) ==
    /\ ~r.read
    /\ refreshes' =
          IF link = "down" THEN refreshes \ {r}
          ELSE (refreshes \ {r}) \cup {[r EXCEPT !.read = TRUE, !.rows = record[r.batch]]}
    /\ UNCHANGED <<serverVars, logVars, screenVars, queue, link, turns, cards, begun,
                   overlapped, missed>>

RefreshApply(r) ==
    /\ r.read
    /\ refreshes' = refreshes \ {r}
    /\ cards' = IF r.batch \in DOMAIN cards
                THEN [cards EXCEPT ![r.batch].rows =
                        [t \in DOMAIN @ |-> IF t \in DOMAIN r.rows THEN r.rows[t] ELSE @[t]]]
                ELSE cards
    /\ UNCHANGED <<serverVars, logVars, screenVars, queue, link, turns, begun,
                   overlapped, missed>>

\* The stop button: the ack of a batch that is over is an acceptance too.
PressStop(b) ==
    /\ b \in DOMAIN cards /\ cards[b].active /\ Cardinality(TasksOf[b]) > 1
    /\ link # "down" /\ stage = "live"
    /\ IF batch[b] \in Active
       THEN batch' = [batch EXCEPT ![b] = "STOPPED"] /\ stopping' = stopping \cup {b}
       ELSE UNCHANGED <<batch, stopping>>
    /\ cards' = [cards EXCEPT ![b].active = FALSE]
    /\ UNCHANGED <<phase, status, record, work, ended, logVars, screenVars, queue, link,
                   turns, refreshes, begun, overlapped, missed>>

-----------------------------------------------------------------------------
(* The lane of a remote client. *)
LoseLane ==
    /\ link = "up" /\ turns < MaxTurns
    /\ link' = "down" /\ turns' = turns + 1
    /\ UNCHANGED <<serverVars, cardVars, screenVars, logVars, queue, missed>>

AsEventsNoCompletion ==
    SetToSeq({Created(b) : b \in DOMAIN History})
    \o SetToSeq({[kind |-> "task", task |-> t, status |-> StoreItems[t]] : t \in DOMAIN StoreItems})

AsEvents ==
    FlattenSeq([i \in 1 .. Cardinality(DOMAIN History) |->
        LET b == SetToSeq(DOMAIN History)[i]
        IN  <<Created(b)>> \o (IF History[b].info.done THEN <<Completed(b)>> ELSE <<>>)])
    \o SetToSeq({[kind |-> "task", task |-> t, status |-> StoreItems[t]] : t \in DOMAIN StoreItems})

HealLane ==
    /\ link = "down"
    /\ link' = "up"
    /\ queue' = IF subscribed THEN queue \o AsEvents ELSE queue
    /\ UNCHANGED <<serverVars, cardVars, screenVars, logVars, turns, missed>>

-----------------------------------------------------------------------------
(* The log view of a task of a local session. *)
\* The listener attaches before the backlog read.
OpenLog ==
    /\ link = "local" /\ stage = "live" /\ ~ended /\ view = "closed"
    /\ view' = "attached"
    /\ straddled' = {b \in Batches : At(b, "append")}
    /\ UNCHANGED <<serverVars, cardVars, screenVars, buffer, lines, shown, queue, link, turns,
                   missed>>

WriteBacklog ==
    /\ view = "attached"
    /\ view' = "open" /\ shown' = buffer
    /\ UNCHANGED <<serverVars, cardVars, screenVars, buffer, lines, straddled, queue, link,
                   turns, missed>>

WriteLine ==
    /\ view = "open" /\ lines # <<>>
    /\ shown' = Append(shown, Head(lines)) /\ lines' = Tail(lines)
    /\ UNCHANGED <<serverVars, cardVars, screenVars, buffer, view, straddled, queue, link,
                   turns, missed>>

CloseLog ==
    /\ view = "open"
    /\ view' = "closed" /\ lines' = <<>> /\ shown' = <<>> /\ straddled' = {}
    /\ work' = [b \in Batches |-> IF At(b, "append") THEN [work[b] EXCEPT !.hears = FALSE] ELSE work[b]]
    /\ UNCHANGED <<phase, batch, stopping, status, record, ended, cardVars, screenVars, buffer,
                   queue, link, turns, missed>>

-----------------------------------------------------------------------------
ServerNext ==
    \/ \E b \in Batches :
          \/ OpenBatch(b) \/ Admit(b) \/ AnnounceCreated(b)
          \/ WriteRecord(b)          \/ TakeListeners(b) \/ EmitLine(b) \/ Finish(b)
          \/ Complete(b) \/ AnnounceCompleted(b)
          \/ \E t \in TasksOf[b] : Take(b, t)
    \/ EndSession

ScreenNext ==
    \/ Install \/ Compose \/ Connect \/ ReadSnapshot \/ Overlay \/ Resume
    \/ HandleStoreEvent
    \/ \E r \in refreshes : RefreshRead(r) \/ RefreshApply(r)
    \/ \E b \in Batches : PressStop(b)
    \/ LoseLane \/ HealLane
    \/ OpenLog \/ WriteBacklog \/ WriteLine \/ CloseLog

Next == ServerNext \/ ScreenNext

Spec == Init /\ [][Next]_vars

-----------------------------------------------------------------------------
\* Every message was handled and no lane is down.
Quiet == stage = "live" /\ subscribed /\ link # "down" /\ queue = <<>>

\* The screen shows the store: once it handled what it heard, every task has
\* the status the store holds, whatever came before the subscription, during
\* the snapshot read or in a gap of the lane.  A session that ended shows its
\* history alone.
MirrorCatchesUp ==
    Quiet /\ ~ended =>
        mirror = status

\* A batch the client was told of has a card, its stop is on while it may be
\* stopped and off once the completion was handled.  The batches announced
\* between the compose and the subscription are left out: nothing turns them.
CardsFollow ==
    Quiet =>
        \A b \in Batches \ missed :
            /\ phase[b] \in {"body", "completed", "closed"} => b \in DOMAIN cards
            /\ b \in DOMAIN cards => (phase[b] = "closed" => ~cards[b].active)
            /\ b \in DOMAIN cards /\ batch[b] \in Active /\ b \notin stopping => cards[b].active

\* The rows of a completed batch show its outcomes once no refresh is in
\* flight.  Two refreshes of a batch at once are left out: the older answer
\* may be applied last.
RowsShowOutcomes ==
    Quiet /\ refreshes = {} =>
        \A b \in DOMAIN cards \ (missed \cup overlapped) :
            phase[b] = "closed" =>
                \A t \in DOMAIN cards[b].rows : cards[b].rows[t] = record[b][t]

\* An open log view shows every line of the buffer, a line of the
\* moment of its opening twice rather than never.  The line whose emit read the
\* listeners before the view attached and buffers after the backlog read is
\* left out: it is lost.
LinesArrive ==
    view = "open" /\ lines = <<>> =>
        \A i \in DOMAIN buffer : buffer[i] \in straddled \/ \E j \in DOMAIN shown : shown[j] = buffer[i]
=============================================================================
