----------------------------- MODULE EventStream -----------------------------
(***************************************************************************)
(* A remote client that follows one session: EventBridge is the server,    *)
(* this module the socket that may drop, the receiver thread with its      *)
(* reconnect, the lane of the session, and a subscriber that mirrors the   *)
(* status it hears and overlays one snapshot it reads after subscribing    *)
(* (the workflow screen of the terminal UI).                               *)
(***************************************************************************)
EXTENDS EventBridge, Integers

CONSTANTS
    MaxDrops, \* bound: how often the network drops the socket
    Overlays  \* the subscriber reads the snapshot and overlays it

ASSUME MaxDropsAssumption == MaxDrops \in Nat
ASSUME OverlaysAssumption == Overlays \in BOOLEAN

VARIABLES
    link,    \* "up", "down", or "bound": reopened, the lanes not resubscribed yet
    drops,   \* how often the socket dropped
    lane,    \* the state of the lane
    lastSeq, \* the number of the last dispatched frame, or NoSeq
    sent,    \* how many subscribes this link carried: their ids
    table,   \* the subscribes of this link that are not settled
    subId,   \* the last of them
    app,     \* where the thread of the subscriber is
    overlay, \* the snapshot it read and did not apply yet
    view,    \* the status it shows
    told,    \* it heard that the session ended
    base     \* history: what the view rests on

linkVars == <<link, drops>>
laneVars == <<lane, lastSeq, sent, table, subId>>
appVars == <<app, overlay>>
viewVars == <<view, told, base>>
clientVars == <<link, drops, lane, lastSeq, sent, table, subId, app, overlay,
                view, told, base>>
vars == <<version, pending, lines, ending, attached, inbox, seq, conn, joined,
          queue, control, sender, round, wake, loop, up, wire, link, drops,
          lane, lastSeq, sent, table, subId, app, overlay, view, told, base>>

NoSeq == -1
Waiting == { "SUBSCRIBING", "HEALING" }

-----------------------------------------------------------------------------
(* Subscribing *)

\* One subscribe frame under a fresh id. A send into an outage is dropped: the
\* reconnect resubscribes.
SubscribeSession ==
    IF link # "down" /\ conn = "open"
    THEN /\ sent' = sent + 1
         /\ table' = table \cup { sent + 1 }
         /\ subId' = sent + 1
         /\ up' = Append(up, sent + 1)
    ELSE UNCHANGED <<sent, table, subId, up>>

\* The first subscription of a lane: the state under its lock, then the frame.
EnsureSubscribed ==
    /\ app = "start"
    /\ IF lane = "IDLE"
       THEN lane' = "SUBSCRIBING" /\ app' = "subscribe"
       ELSE UNCHANGED lane /\ app' = "read"
    /\ UNCHANGED <<lastSeq, sent, table, subId, overlay>>
    /\ UNCHANGED serverVars /\ UNCHANGED linkVars /\ UNCHANGED viewVars

SendSubscribe ==
    /\ app = "subscribe"
    /\ SubscribeSession
    /\ app' = "read"
    /\ UNCHANGED <<lane, lastSeq, overlay, version, pending, lines, ending, conn,
                   loop, wire>>
    /\ UNCHANGED bridgeVars /\ UNCHANGED queueVars /\ UNCHANGED senderVars
    /\ UNCHANGED linkVars /\ UNCHANGED viewVars

\* The read of the snapshot: the server handles it after the subscribe that went
\* before it on the socket. Its reply may overtake queued frames, so only the
\* state it captured is kept.
ReadSnapshot ==
    /\ app = "read" /\ Overlays
    /\ link # "down" /\ conn = "open" /\ loop = Idle /\ up = <<>>
    /\ overlay' = StoreTasks
    /\ app' = "apply"
    /\ UNCHANGED serverVars /\ UNCHANGED linkVars /\ UNCHANGED laneVars
    /\ UNCHANGED viewVars

\* An outage, a timeout or a lost reply: nothing is overlaid.
ReadFails ==
    /\ app = "read"
    /\ app' = "done"
    /\ UNCHANGED overlay
    /\ UNCHANGED serverVars /\ UNCHANGED linkVars /\ UNCHANGED laneVars
    /\ UNCHANGED viewVars

\* The overlay runs on the UI thread, some time after the reply came. It takes
\* no look at what the events wrote since.
ApplyOverlay ==
    /\ app = "apply"
    /\ app' = "done" /\ overlay' = {}
    /\ view' \in IF overlay = {} THEN { view } ELSE overlay
    /\ base' = CASE view' < view -> "overtaken"
                 [] overlay # {} /\ base = "unseeded" -> "exact"
                 [] OTHER -> base
    /\ UNCHANGED told
    /\ UNCHANGED serverVars /\ UNCHANGED linkVars /\ UNCHANGED laneVars

-----------------------------------------------------------------------------
(* The lane: frames in, events out *)

\* A healing lane replays its snapshot, because its subscriber holds state from
\* before the gap; any other snapshot only sets the sequence.
OnSnapshot(f) ==
    /\ table' = table \ { subId }
    /\ lastSeq' = f.seq
    /\ lane' = "STREAMING"
    /\ IF lane = "HEALING"
       THEN /\ view' \in IF f.tasks = {} THEN { view } ELSE f.tasks
            /\ told' = (told \/ f.over)
            /\ base' = IF f.tasks = {} THEN "released" ELSE "exact"
       ELSE /\ base' = IF lane = "STREAMING" /\ view \notin f.tasks THEN "skipped"
                       ELSE base
            /\ UNCHANGED <<view, told>>
    /\ UNCHANGED <<sent, subId, up>>

Dispatch(f) ==
    /\ view' = IF f.type = "status" THEN f.v ELSE view
    /\ base' = IF f.type = "status" THEN "exact" ELSE base
    /\ told' = (told \/ f.type = "ended")

\* Mutant: a gap is only a number that goes backward.
GapBackward(f) == lastSeq # NoSeq /\ f.seq <= lastSeq

Gap(f) == lastSeq # NoSeq /\ f.seq # lastSeq + 1

\* A lane that waits for its snapshot drops the frame, a gap makes it
\* resubscribe, any other frame is dispatched.
OnFrame(f) ==
    \/ /\ lane \in Waiting
       /\ UNCHANGED <<lane, lastSeq, sent, table, subId, up>> /\ UNCHANGED viewVars
    \/ /\ lane \notin Waiting /\ Gap(f)
       /\ lane' = "HEALING"
       /\ SubscribeSession
       /\ UNCHANGED lastSeq /\ UNCHANGED viewVars
    \/ /\ lane \notin Waiting /\ ~Gap(f)
       /\ lastSeq' = f.seq
       /\ Dispatch(f)
       /\ UNCHANGED <<lane, sent, table, subId, up>>

\* Mutant: the refusal of a subscribe does not reach the lane.
OnErrorLogged(f) ==
    /\ table' = table \ { f.id }
    /\ UNCHANGED <<lane, lastSeq, sent, subId, up>> /\ UNCHANGED viewVars

\* The refusal of an outstanding subscribe tells the subscriber of the end.
OnError(f) ==
    /\ table' = table \ { f.id }
    /\ IF f.id \in table THEN lane' = "IDLE" /\ told' = TRUE
       ELSE UNCHANGED <<lane, told>>
    /\ UNCHANGED <<lastSeq, sent, subId, up, view, base>>

-----------------------------------------------------------------------------
(* The receiver thread *)

Route(f) ==
    CASE f.type = "snapshot" -> OnSnapshot(f)
      [] f.type = "error" -> OnError(f)
      [] OTHER -> OnFrame(f)

Receive ==
    /\ link = "up" /\ wire # <<>> /\ Head(wire) # Close
    /\ wire' = Tail(wire)
    /\ Route(Head(wire))
    /\ UNCHANGED <<version, pending, lines, ending, conn, loop>>
    /\ UNCHANGED bridgeVars /\ UNCHANGED queueVars /\ UNCHANGED senderVars
    /\ UNCHANGED linkVars /\ UNCHANGED appVars

\* Both ends of a socket that died: what was on it is lost.
Disconnected ==
    /\ link' = "down"
    /\ up' = <<>> /\ wire' = <<>>
    /\ TornDown
    /\ UNCHANGED <<version, pending, lines, ending, loop>>
    /\ UNCHANGED bridgeVars /\ UNCHANGED laneVars /\ UNCHANGED appVars /\ UNCHANGED viewVars

\* The server closed the socket (see CloseTooSlow and Attach).
ReceiveClose ==
    /\ link = "up" /\ wire # <<>> /\ Head(wire) = Close
    /\ Disconnected
    /\ UNCHANGED drops

\* The network drops the socket.
Drop ==
    /\ link # "down" /\ loop = Idle /\ drops < MaxDrops
    /\ drops' = drops + 1
    /\ Disconnected

\* A new socket with its hello is a new link with an empty table.
Reconnect ==
    /\ link = "down" /\ loop = Idle
    /\ link' = "bound"
    /\ Accepted
    /\ sent' = 0 /\ table' = {} /\ subId' = 0
    /\ UNCHANGED <<drops, lane, lastSeq, version, pending, lines, ending, loop,
                   up, wire>>
    /\ UNCHANGED bridgeVars /\ UNCHANGED appVars /\ UNCHANGED viewVars

\* Mutant: the lane waits for a snapshot without healing its subscriber.
ResubscribeAfresh ==
    /\ link = "bound"
    /\ link' = "up"
    /\ IF lane = "IDLE" THEN UNCHANGED <<lane, sent, table, subId, up>>
       ELSE lane' = "SUBSCRIBING" /\ SubscribeSession
    /\ UNCHANGED <<drops, lastSeq, version, pending, lines, ending, conn, loop, wire>>
    /\ UNCHANGED bridgeVars /\ UNCHANGED queueVars /\ UNCHANGED senderVars
    /\ UNCHANGED appVars /\ UNCHANGED viewVars

\* Every lane that was not idle resubscribes and heals from the new snapshot.
Resubscribe ==
    /\ link = "bound"
    /\ link' = "up"
    /\ IF lane = "IDLE" THEN UNCHANGED <<lane, sent, table, subId, up>>
       ELSE lane' = "HEALING" /\ SubscribeSession
    /\ UNCHANGED <<drops, lastSeq, version, pending, lines, ending, conn, loop, wire>>
    /\ UNCHANGED bridgeVars /\ UNCHANGED queueVars /\ UNCHANGED senderVars
    /\ UNCHANGED appVars /\ UNCHANGED viewVars

-----------------------------------------------------------------------------
(* The specification *)

\* The screen showed the state before it subscribed.
Init ==
    /\ ServerInit
    /\ link = "up" /\ drops = 0
    /\ lane = "IDLE" /\ lastSeq = NoSeq /\ sent = 0 /\ table = {} /\ subId = 0
    /\ app = "start" /\ overlay = {}
    /\ view = 0 /\ told = FALSE /\ base = "unseeded"

Server == Drain \/ Handlers \/ Sender
Receiver == Receive \/ ReceiveClose \/ Reconnect \/ Resubscribe
App == EnsureSubscribed \/ SendSubscribe \/ ReadSnapshot \/ ReadFails \/ ApplyOverlay

\* Nothing is on its way between the store and the subscriber.
Quiet ==
    /\ link = "up" /\ conn = "open" /\ loop = Idle /\ app = "done"
    /\ ~pending /\ inbox = EmptyInbox
    /\ queue.deque = <<>> /\ control.deque = <<>>
    /\ wire = <<>> /\ up = <<>>
    /\ sender = "wait" /\ ~wake

\* The session ended and the client is up.
Finished == Quiet /\ ending = "closed" /\ UNCHANGED vars

Next ==
    \/ (WriteStatus \/ PublishStatus \/ LogLine \/ EndSession) /\ UNCHANGED clientVars
    \/ Server /\ UNCHANGED clientVars
    \/ Receiver \/ App \/ Drop
    \/ Finished

Spec == Init /\ [][Next]_vars

\* The loop, the receiver and the subscriber run, a write that began is
\* published and an end that began completes. Users and the network owe nothing.
FairSpec ==
    /\ Spec
    /\ WF_vars(Server /\ UNCHANGED clientVars)
    /\ WF_vars(Receiver)
    /\ WF_vars(App)
    /\ WF_vars(PublishStatus /\ UNCHANGED clientVars)
    /\ WF_vars(ending # "no" /\ EndSession /\ UNCHANGED clientVars)

-----------------------------------------------------------------------------
(* Properties *)

\* Every variable has its type, and no queue is longer than its capacity.
TypeOK ==
    /\ ServerTypeOK
    /\ link \in { "up", "down", "bound" }
    /\ drops \in 0..MaxDrops
    /\ lane \in { "IDLE", "STREAMING" } \cup Waiting
    /\ lastSeq \in Nat \cup { NoSeq }
    /\ sent \in Nat
    /\ table \subseteq 1..sent
    /\ subId \in 0..sent
    /\ app \in { "start", "subscribe", "read", "apply", "done" }
    /\ overlay \subseteq 0..MaxEvents
    /\ view \in 0..MaxEvents
    /\ told \in BOOLEAN
    /\ base \in { "unseeded", "exact", "overtaken", "skipped", "released" }

\* A subscriber that heard anything, and nothing is on its way, shows what the
\* store holds, through every drop, gap, overflow and reconnect. The exceptions
\* are an overlay that was overtaken and a second snapshot that is not replayed.
ViewIsExact ==
    Quiet /\ ending = "no" /\ lane = "STREAMING" /\ base = "exact" =>
        view = version

\* A streaming subscriber misses no transition: what it hears next is at most
\* one write ahead, until it is told of the end. (It may hear again what the
\* snapshot had. Of two subscribes one may be refused and the other answered:
\* the lane streams on after the end, without a replay.)
NoSilentLoss ==
    [][lane = "STREAMING" /\ lane' = "STREAMING" /\ base = "exact" /\ ~told
       /\ app' = app => view' <= view + 1]_vars

\* The lane waits for a snapshot that nothing on its way brings, and its
\* subscribe is still open.
SnapshotLost == Quiet /\ lane \in Waiting /\ table # {}

\* A subscriber hears of the end of its session, if only as a refusal, unless
\* the snapshot its lane waits for was lost.
EndReaches == (ending = "closed" /\ app = "done") ~> (told \/ SnapshotLost)
=============================================================================
