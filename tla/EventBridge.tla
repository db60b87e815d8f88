----------------------------- MODULE EventBridge -----------------------------
(***************************************************************************)
(* The event path of one session toward one connection: worker threads     *)
(* write the store and publish on the bus, the bridge drains what it heard *)
(* into a bounded frame queue, and the sender of the connection empties    *)
(* the queue onto the socket. Everything under serve/ runs on one event    *)
(* loop; the threads that write and that end the session do not.           *)
(*                                                                         *)
(* The state of the session is the number of the last status write. Writes *)
(* of one task are serialized by its claim (TaskRunner), so one write is   *)
(* published before the next begins.                                       *)
(***************************************************************************)
EXTENDS Naturals, Sequences, FiniteSets

CONSTANTS
    MaxEvents, \* bound: status writes and log lines of the session
    QSize,     \* the capacity of a frame queue
    WireCap    \* the frames a socket takes before a send blocks

ASSUME BoundsAssumption == MaxEvents \in Nat
ASSUME CapacityAssumption == QSize \in Nat \ {0} /\ WireCap \in Nat \ {0}

VARIABLES
    version,  \* the number of the last status write
    pending,  \* that write is not published yet
    lines,    \* how many log lines the bridge heard
    ending,   \* how far the end of the session is
    attached, \* the bridge exists and hears the bus
    inbox,    \* what it heard and did not drain: log lines and control events
    seq,      \* the sequence number of its last frame
    conn,     \* the connection: "open", or "closed" by the server
    joined,   \* the connection has a queue for the session, known to the bridge
    queue,    \* that queue
    control,  \* the queue of replies
    sender,   \* which queue the sender is at, or "wait"
    round,    \* the round of the sender includes the session queue
    wake,     \* the wake event both queues set
    loop,     \* how far the loop is in handle_subscribe, and for which request
    up,       \* the subscribe frames of the client on the socket: their ids
    wire      \* the frames of the server on the socket

sessionVars == <<version, pending, lines, ending>>
bridgeVars == <<attached, inbox, seq>>
queueVars == <<joined, queue, control>>
senderVars == <<sender, round, wake>>
serverVars == <<version, pending, lines, ending, attached, inbox, seq, conn,
                joined, queue, control, sender, round, wake, loop, up, wire>>

Event == [kind : { "status" }, v : 1..MaxEvents] \cup [kind : { "ended" }]
LaneFrame ==
    [type : { "status" }, seq : Nat, v : 1..MaxEvents]
    \cup [type : { "lines" }, seq : Nat, lines : Seq(1..MaxEvents)]
    \cup [type : { "ended" }, seq : Nat]
Snapshots ==
    [type : { "snapshot" }, seq : Nat, tasks : SUBSET (0..MaxEvents), over : BOOLEAN]
Replies == [type : { "error" }, id : Nat]
Close == [type |-> "close"]
Idle == [at |-> "idle"]

\* A tick sends the lines before the control events (EncodeTick), so the order
\* between the two is not kept.
EmptyInbox == [lines |-> <<>>, control |-> <<>>]

Kinds(events) == { events[i].kind : i \in DOMAIN events }

-----------------------------------------------------------------------------
(* The session *)

\* The bus delivers to the bridge once it is attached; the close is its last
\* delivery.
Publish(event) ==
    inbox' = IF attached THEN [inbox EXCEPT !.control = Append(@, event)] ELSE inbox

\* A status write, and its publish on the same thread outside the lock.
WriteStatus ==
    /\ ending = "no" /\ ~pending /\ version + lines < MaxEvents
    /\ version' = version + 1
    /\ pending' = TRUE
    /\ UNCHANGED <<lines, ending, attached, inbox, seq, conn, loop, up, wire>>
    /\ UNCHANGED queueVars /\ UNCHANGED senderVars

PublishStatus ==
    /\ pending
    /\ pending' = FALSE
    /\ Publish([kind |-> "status", v |-> version])
    /\ UNCHANGED <<version, lines, ending, attached, seq, conn, loop, up, wire>>
    /\ UNCHANGED queueVars /\ UNCHANGED senderVars

\* A line the bridge does not hear changes nothing here.
LogLine ==
    /\ ending = "no" /\ attached /\ version + lines < MaxEvents
    /\ lines' = lines + 1
    /\ inbox' = [inbox EXCEPT !.lines = Append(@, lines + 1)]
    /\ UNCHANGED <<version, pending, ending, attached, seq, conn, loop, up, wire>>
    /\ UNCHANGED queueVars /\ UNCHANGED senderVars

\* The end of a drained session: it is marked, its store and caches are released
\* and the last event is published before the bus closes.
MarkEnded == ending = "no" /\ ~pending /\ ending' = "ended" /\ UNCHANGED inbox
ReleaseStore == ending = "ended" /\ ending' = "released" /\ UNCHANGED inbox
PublishEnd ==
    ending = "released" /\ ending' = "closed" /\ Publish([kind |-> "ended"])
EndSession ==
    /\ MarkEnded \/ ReleaseStore \/ PublishEnd
    /\ UNCHANGED <<version, pending, lines, attached, seq, conn, loop, up, wire>>
    /\ UNCHANGED queueVars /\ UNCHANGED senderVars

-----------------------------------------------------------------------------
(* The queues and the bridge *)

EmptyQueue == [deque |-> <<>>, dropped |-> 0]

Overflow(s) == IF Len(s) > QSize THEN Len(s) - QSize ELSE 0

\* A full queue drops its oldest frames and counts them.
Push(q, frames) ==
    LET all == q.deque \o frames
    IN  [deque |-> SubSeq(all, Overflow(all) + 1, Len(all)),
         dropped |-> q.dropped + Overflow(all)]

BehindAFullWindow(q) == q.dropped >= QSize

\* A status as its frame, the close of the session as the end of its stream.
Encoded(e) ==
    IF e.kind = "status" THEN [type |-> "status", v |-> e.v] ELSE [type |-> "ended"]

\* The lines of a batch in one frame, if there are any.
LineBatch(batch) ==
    IF batch = <<>> THEN <<>> ELSE <<[type |-> "lines", lines |-> batch]>>

\* One drain tick: the lines go first, in one frame, the control events keep
\* their order. (Equal neighbours collapse; numbered writes have none.)
EncodeTick(batch) ==
    LineBatch(batch.lines) \o [i \in DOMAIN batch.control |-> Encoded(batch.control[i])]

\* Every frame takes the next number.
Stamped(frames, from) ==
    [i \in DOMAIN frames |->
        CASE frames[i].type = "status" ->
                [type |-> "status", seq |-> from + i, v |-> frames[i].v]
          [] frames[i].type = "lines" ->
                [type |-> "lines", seq |-> from + i, lines |-> frames[i].lines]
          [] OTHER -> [type |-> "ended", seq |-> from + i]]

\* The tick of the bridge: everything it heard goes out, and the end of the
\* session retires it.
Drain ==
    /\ loop = Idle /\ attached /\ inbox # EmptyInbox
    /\ LET frames == Stamped(EncodeTick(inbox), seq)
       IN  /\ seq' = seq + Len(frames)
           /\ queue' = IF joined THEN Push(queue, frames) ELSE queue
           /\ wake' = (wake \/ joined)
    /\ attached' = ("ended" \notin Kinds(inbox.control))
    /\ inbox' = EmptyInbox
    /\ UNCHANGED <<conn, joined, control, sender, round, loop, up, wire>>
    /\ UNCHANGED sessionVars

\* The statuses a read of the store finds.
StoreTasks == IF ending \in { "no", "ended" } THEN { version } ELSE {}

-----------------------------------------------------------------------------
(* The connection *)

\* An ended session refuses; the reply goes to the control queue. Otherwise the
\* loop goes on to attach the bridge, while other threads run.
HandleSubscribe ==
    /\ conn = "open" /\ loop = Idle /\ up # <<>>
    /\ up' = Tail(up)
    /\ IF ending # "no"
       THEN /\ control' = Push(control, <<[type |-> "error", id |-> Head(up)]>>)
            /\ wake' = TRUE
            /\ UNCHANGED loop
       ELSE /\ loop' = [at |-> "attach"]
            /\ UNCHANGED <<control, wake>>
    /\ UNCHANGED <<conn, joined, queue, sender, round, wire>>
    /\ UNCHANGED sessionVars /\ UNCHANGED bridgeVars

\* A new bridge subscribes to every lane. Once the caches are released that
\* raises out of the handler, and the server closes the socket.
Attach ==
    /\ loop.at = "attach"
    /\ IF attached \/ ending \in { "no", "ended" }
       THEN /\ loop' = [at |-> "snapshot"]
            /\ attached' = TRUE
            /\ IF attached THEN UNCHANGED <<inbox, seq>>
               ELSE inbox' = EmptyInbox /\ seq' = 0
            /\ UNCHANGED <<conn, joined, wire>>
       ELSE /\ loop' = Idle
            /\ conn' = "closed" /\ joined' = FALSE
            /\ wire' = Append(wire, Close)
            /\ UNCHANGED bridgeVars
    /\ UNCHANGED <<queue, control, up>>
    /\ UNCHANGED sessionVars /\ UNCHANGED senderVars

\* The snapshot, stamped with the sequence the events continue from, into a new
\* queue or into the old one after a reset.
Snapshot ==
    /\ loop.at = "snapshot"
    /\ queue' = Push(EmptyQueue,
                     <<[type |-> "snapshot", seq |-> seq, tasks |-> StoreTasks,
                        over |-> ending # "no"]>>)
    /\ joined' = TRUE
    /\ wake' = TRUE
    /\ loop' = Idle
    /\ UNCHANGED <<conn, control, sender, round, up, wire>>
    /\ UNCHANGED sessionVars /\ UNCHANGED bridgeVars

-----------------------------------------------------------------------------
(* The sender: replies first, then the frames of the session *)

Room == Len(wire) < WireCap
AtControl == sender = "control" /\ control.deque # <<>>
AtSession ==
    /\ sender = "control" => control.deque = <<>> /\ ~BehindAFullWindow(control)
    /\ sender # "wait" /\ round

SendControl ==
    /\ conn = "open" /\ loop = Idle /\ Room
    /\ AtControl
    /\ wire' = Append(wire, Head(control.deque))
    /\ control' = [control EXCEPT !.deque = Tail(@)]
    /\ UNCHANGED <<conn, joined, queue, loop, up>>
    /\ UNCHANGED sessionVars /\ UNCHANGED bridgeVars /\ UNCHANGED senderVars

SendSession ==
    /\ conn = "open" /\ loop = Idle /\ Room
    /\ AtSession /\ queue.deque # <<>>
    /\ wire' = Append(wire, Head(queue.deque))
    /\ queue' = [queue EXCEPT !.deque = Tail(@)]
    /\ sender' = "session"
    /\ UNCHANGED <<conn, joined, control, round, wake, loop, up>>
    /\ UNCHANGED sessionVars /\ UNCHANGED bridgeVars

\* A queue that is empty and lost a full window closes the socket; the teardown
\* of the connection takes its queue out of the bridge.
CloseTooSlow ==
    /\ conn = "open" /\ loop = Idle /\ Room
    /\ \/ sender = "control" /\ control.deque = <<>> /\ BehindAFullWindow(control)
       \/ AtSession /\ queue.deque = <<>> /\ BehindAFullWindow(queue)
    /\ conn' = "closed" /\ joined' = FALSE
    /\ wire' = Append(wire, Close)
    /\ UNCHANGED <<queue, control, loop, up>>
    /\ UNCHANGED sessionVars /\ UNCHANGED bridgeVars /\ UNCHANGED senderVars

\* The end of a round.
RoundOver ==
    \/ AtSession /\ queue.deque = <<>> /\ ~BehindAFullWindow(queue)
    \/ /\ sender = "control" /\ ~round
       /\ control.deque = <<>> /\ ~BehindAFullWindow(control)

SenderWaits ==
    /\ conn = "open" /\ loop = Idle /\ Room
    /\ RoundOver
    /\ sender' = "wait"
    /\ UNCHANGED <<conn, round, wake, loop, up, wire>>
    /\ UNCHANGED sessionVars /\ UNCHANGED bridgeVars /\ UNCHANGED queueVars

\* A wake starts a round over the queues the connection has by then.
SenderWakes ==
    /\ conn = "open" /\ loop = Idle
    /\ sender = "wait" /\ wake
    /\ sender' = "control" /\ wake' = FALSE /\ round' = joined
    /\ UNCHANGED <<conn, loop, up, wire>>
    /\ UNCHANGED sessionVars /\ UNCHANGED bridgeVars /\ UNCHANGED queueVars

-----------------------------------------------------------------------------

\* A connection after its hello.
Accepted ==
    /\ conn' = "open" /\ joined' = FALSE
    /\ queue' = EmptyQueue /\ control' = EmptyQueue
    /\ sender' = "control" /\ round' = FALSE /\ wake' = FALSE

\* What a socket that died leaves of its connection: the teardown cancels the
\* sender and takes the queue out of the bridge.
TornDown ==
    /\ conn' = "closed" /\ joined' = FALSE
    /\ queue' = EmptyQueue /\ control' = EmptyQueue
    /\ sender' = "control" /\ round' = FALSE /\ wake' = FALSE

Handlers == HandleSubscribe \/ Attach \/ Snapshot
Sender == SendControl \/ SendSession \/ CloseTooSlow \/ SenderWaits \/ SenderWakes

ServerInit ==
    /\ version = 0 /\ pending = FALSE /\ lines = 0 /\ ending = "no"
    /\ attached = FALSE /\ inbox = EmptyInbox /\ seq = 0
    /\ conn = "open" /\ joined = FALSE /\ queue = EmptyQueue /\ control = EmptyQueue
    /\ sender = "control" /\ round = FALSE /\ wake = FALSE
    /\ loop = Idle /\ up = <<>> /\ wire = <<>>

ServerTypeOK ==
    /\ version \in 0..MaxEvents
    /\ pending \in BOOLEAN
    /\ lines \in 0..MaxEvents
    /\ ending \in { "no", "ended", "released", "closed" }
    /\ attached \in BOOLEAN
    /\ inbox \in [lines : Seq(1..MaxEvents), control : Seq(Event)]
    /\ seq \in Nat
    /\ conn \in { "open", "closed" }
    /\ joined \in BOOLEAN
    /\ queue \in [deque : Seq(LaneFrame \cup Snapshots), dropped : Nat]
    /\ control \in [deque : Seq(Replies), dropped : Nat]
    /\ Len(queue.deque) <= QSize /\ Len(control.deque) <= QSize
    /\ sender \in { "control", "session", "wait" }
    /\ round \in BOOLEAN
    /\ wake \in BOOLEAN
    /\ loop \in [at : { "idle", "attach", "snapshot" }]
    /\ up \in Seq(Nat)
    /\ wire \in Seq(LaneFrame \cup Snapshots \cup Replies \cup { Close })
=============================================================================
