-------------------------- MODULE EventStreamProofs --------------------------
(***************************************************************************)
(* Proofs about EventStream: however many events, drops of the socket,     *)
(* overflows and reconnects there are, the view of a remote subscriber is  *)
(* the store once nothing is on its way, and it misses no transition while *)
(* its lane streams. The argument follows who shows a status after a frame *)
(* number: it is up to date, or a status is on its way, or a number is     *)
(* missing and the lane will see the gap.                                  *)
(***************************************************************************)
EXTENDS EventStream, SequenceTheorems, TLAPS
\* What is on its way to the lane: what the socket holds and what the queue holds.
Frames == LaneFrame \cup Snapshots
InFlight == (Range(wire) \cup Range(queue.deque)) \cap Frames
IsStatus(f) == f.type = "status"
IsSnapshot(f) == f.type = "snapshot"
IsPlain(f) == f.type \in {"lines", "ended"}

\* The statuses a subscriber may show after a frame.
Values(f) == IF IsStatus(f) THEN {f.v} ELSE IF IsSnapshot(f) THEN f.tasks ELSE {}

\* The last status the bus carried.
Published == IF pending THEN version - 1 ELSE version
StatusAt(c) == c \in DOMAIN inbox.control /\ inbox.control[c].kind = "status"
StatusHeard == \E c \in Nat : StatusAt(c)

\* Between the numbers n and top is one that no frame without a status has: it is
\* a status on its way or a gap.
Break(n, top) ==
    \E m \in Nat : /\ n < m /\ m < top
                   /\ \A f \in InFlight : IsPlain(f) => f.seq # m

\* Who shows x after the frame numbered n is up to date or will hear of a status
\* or of a gap, ...
Caught(n, x) == Published <= x \/ StatusHeard \/ Break(n, seq + 1)

\* ... and the next status it hears is at most one write ahead, if no gap comes first.
Steady(n, x) ==
    /\ \A f \in InFlight : IsStatus(f) /\ n < f.seq => f.v <= x + 1 \/ Break(n, f.seq)
    /\ \A c \in Nat : StatusAt(c) =>
          \/ inbox.control[c].v <= x + 1
          \/ \E b \in Nat : b < c /\ StatusAt(b)
          \/ Break(n, seq + 1)

Following(n, x) == n \in Nat /\ n <= seq /\ x \in Nat /\ Caught(n, x) /\ Steady(n, x)

\* Whatever a frame on its way says is not newer than the store, and whoever shows
\* it after the frame follows.
FlightInv ==
    \A f \in InFlight :
        /\ f.seq <= seq
        /\ \A x \in Values(f) : x <= version /\ Following(f.seq, x)

\* What the view rests on: a status it shows, or the overlay to come.
Held == (IF base = "exact" THEN {view} ELSE {})
        \cup (IF base = "unseeded" /\ app = "apply" THEN overlay ELSE {})

\* A lane that streams follows, until its subscriber is told of the end.
LaneInv ==
    ~told /\ lane = "STREAMING" =>
        lastSeq \in Nat /\ lastSeq <= seq /\ \A x \in Held : Following(lastSeq, x)

\* A lane that waits for its first snapshot holds nothing newer than it.
SubscribingInv ==
    ~told /\ lane = "SUBSCRIBING" =>
        \A x \in Held : /\ up = <<>> /\ loop = Idle
                        /\ \A f \in InFlight : IsSnapshot(f) => Following(f.seq, x)

ViewInv ==
    /\ base = "unseeded" => view = 0
    /\ base \in {"unseeded", "exact"} => view <= version
    /\ \A x \in overlay : x <= version
    /\ ~told /\ app \in {"start", "subscribe", "read"} /\ lane \in {"IDLE", "SUBSCRIBING"} =>
          base = "unseeded"

\* The bridge: it heard every status up to the last one published.
InboxInv ==
    /\ pending => version >= 1
    /\ ~attached => inbox = EmptyInbox
    /\ ending # "closed" => \A c \in DOMAIN inbox.control : StatusAt(c)
    /\ \A c \in Nat : StatusAt(c) =>
          /\ inbox.control[c].v <= Published
          /\ (\E d \in Nat : c < d /\ StatusAt(d)) \/ inbox.control[c].v = Published
          /\ \A d \in Nat : c < d /\ StatusAt(d) =>
                \/ inbox.control[d].v <= inbox.control[c].v + 1
                \/ \E b \in Nat : c < b /\ b < d /\ StatusAt(b)

\* Before the screen subscribed there is nothing; a lane that is idle later was
\* told of the end.
StartInv ==
    /\ app = "start" => /\ lane = "IDLE" /\ ~told /\ ~joined
                        /\ up = <<>> /\ wire = <<>> /\ loop = Idle
                        /\ queue = EmptyQueue /\ control = EmptyQueue
    /\ lane = "IDLE" /\ ~told => app = "start"

\* No word of the end while the session lives, and no write once it does not.
EndInv ==
    /\ ending # "no" => ~pending
    /\ ending = "no" => /\ ~told /\ control = EmptyQueue
                        /\ \A f \in Range(wire) : f.type # "error"
                        /\ \A f \in InFlight : /\ f.type # "ended"
                                               /\ IsSnapshot(f) => ~f.over

\* Before the bridge exists no frame does.
NewInv ==
    ~attached /\ ending # "closed" =>
        /\ ~joined /\ lane # "STREAMING" /\ loop.at # "snapshot"
        /\ InFlight = {}

\* The frames of a socket, the last of them with the number n unless more is queued.
LastOn(w, more, n) ==
    \A i \in DOMAIN w : w[i] \in Frames =>
        \/ w[i].seq = n \/ more
        \/ \E j \in DOMAIN w : i < j /\ w[j] \in Frames

\* The connection: what it has is in order, the last frame has the last number.
ConnInv ==
    /\ link = "down" => conn = "closed" /\ wire = <<>> /\ up = <<>>
    /\ Close \in Range(wire) => conn = "closed"
    /\ conn = "closed" => loop = Idle
    /\ joined => conn = "open"
    /\ conn = "open" /\ ~joined => InFlight = {}
    /\ conn = "open" =>
          /\ queue.deque # <<>> => queue.deque[Len(queue.deque)].seq = seq
          /\ LastOn(wire, queue.deque # <<>>, seq)

\* A lane that streams saw the last frame, or one is on its way.
ReachInv ==
    conn = "open" /\ link = "up" /\ lane = "STREAMING" /\ ~told =>
        joined /\ (lastSeq = seq \/ InFlight # {})

StreamInv ==
    /\ TypeOK
    /\ InboxInv /\ FlightInv /\ LaneInv /\ SubscribingInv /\ ViewInv
    /\ StartInv /\ EndInv /\ NewInv /\ ConnInv /\ ReachInv

---------------------------------------------------------------------------
(* Frames. *)

\* What kind of frame a frame is, and the types of its parts.
LEMMA FrameFacts ==
    ASSUME NEW f \in Frames
    PROVE  /\ f.seq \in Nat
           /\ IsStatus(f) => f.v \in 1 .. MaxEvents /\ ~IsSnapshot(f) /\ Values(f) = {f.v}
           /\ IsSnapshot(f) => /\ f \in Snapshots /\ f.tasks \subseteq 0 .. MaxEvents
                               /\ Values(f) = f.tasks
           /\ ~IsSnapshot(f) => f \in LaneFrame
           /\ ~IsStatus(f) /\ ~IsSnapshot(f) => Values(f) = {}
           /\ f.type \in {"status", "lines", "ended", "snapshot"}
           /\ \A x \in Values(f) : x \in Nat
BY BoundsAssumption DEF Frames, LaneFrame, Snapshots, IsStatus, IsSnapshot, Values

\* The frames of a tick of the bridge: a frame of lines if there are any, then
\* the statuses it heard, in their order and numbered on.
Drained(D, off) ==
    /\ off \in 0 .. 1 /\ Len(D) = off + Len(inbox.control)
    /\ off = 0 => inbox.lines = <<>>
    /\ \A k \in 1 .. Len(D) :
          /\ D[k] \in LaneFrame /\ D[k].seq = seq + k
          /\ off < k => /\ IsStatus(D[k]) <=> StatusAt(k - off)
                        /\ IsStatus(D[k]) => D[k].v = inbox.control[k - off].v
          /\ k <= off => D[k].type = "lines"

LEMMA DrainFacts ==
    ASSUME seq \in Nat, inbox \in [lines : Seq(1 .. MaxEvents), control : Seq(Event)]
    PROVE  /\ Stamped(EncodeTick(inbox), seq) \in Seq(LaneFrame)
           /\ \E off \in 0 .. 1 : Drained(Stamped(EncodeTick(inbox), seq), off)
<1> DEFINE c == inbox.control
           b == LineBatch(inbox.lines)
           e == [i \in DOMAIN c |-> Encoded(c[i])]
           Raw == [type : {"status"}, v : 1 .. MaxEvents] \cup [type : {"ended"}]
                  \cup [type : {"lines"}, lines : Seq(1 .. MaxEvents)]
           D == Stamped(EncodeTick(inbox), seq)
<1>1. /\ c \in Seq(Event) /\ Len(c) \in Nat /\ DOMAIN c = 1 .. Len(c) /\ inbox.lines \in Seq(1 .. MaxEvents)
      /\ \A i \in 1 .. Len(c) : c[i] \in Event
  OBVIOUS
<1>2. PICK off \in 0 .. 1 : /\ b \in Seq(Raw) /\ Len(b) = off /\ (off = 0 => inbox.lines = <<>>)
                            /\ \A k \in 1 .. Len(b) : b[k] \in [type : {"lines"}, lines : Seq(1 .. MaxEvents)]
  <2>1. CASE inbox.lines = <<>>
    BY <2>1 DEF LineBatch
  <2>2. CASE inbox.lines # <<>>
    <3>1. [type |-> "lines", lines |-> inbox.lines] \in [type : {"lines"}, lines : Seq(1 .. MaxEvents)]
      BY <1>1
    <3>2. b = <<[type |-> "lines", lines |-> inbox.lines]>>
      BY <2>2 DEF LineBatch
    <3>. QED BY <3>1, <3>2
  <2>. QED BY <2>1, <2>2
<1>3. \A i \in 1 .. Len(c) :
        /\ Encoded(c[i]) \in Raw
        /\ c[i].kind = "status" => /\ Encoded(c[i]).type = "status" /\ Encoded(c[i]).v = c[i].v
                                   /\ c[i].v \in 1 .. MaxEvents
        /\ c[i].kind # "status" => Encoded(c[i]).type = "ended"
  BY <1>1 DEF Encoded, Event
<1>4. e \in Seq(Raw) /\ Len(e) = Len(c) /\ \A i \in 1 .. Len(c) : e[i] = Encoded(c[i])
  <2>. HIDE DEF Raw, c
  <2>. QED BY <1>1, <1>3
<1>5. PICK T \in Seq(Raw) :
        /\ T = EncodeTick(inbox) /\ Len(T) = off + Len(c) /\ DOMAIN T = 1 .. Len(T)
        /\ \A k \in 1 .. Len(T) : T[k] = IF k <= off THEN b[k] ELSE e[k - off]
  <2>1. EncodeTick(inbox) = b \o e
    BY DEF EncodeTick
  <2>. HIDE DEF Raw, c, b, e
  <2>2. /\ b \o e \in Seq(Raw) /\ Len(b \o e) = off + Len(c)
        /\ \A k \in 1 .. Len(b) + Len(e) : (b \o e)[k] = IF k <= Len(b) THEN b[k] ELSE e[k - Len(b)]
    BY <1>2, <1>4, ConcatProperties
  <2>3. /\ EncodeTick(inbox) \in Seq(Raw) /\ Len(EncodeTick(inbox)) = off + Len(c)
        /\ DOMAIN EncodeTick(inbox) = 1 .. Len(EncodeTick(inbox))
    BY <2>1, <2>2
  <2>4. \A k \in 1 .. Len(EncodeTick(inbox)) :
           EncodeTick(inbox)[k] = IF k <= off THEN b[k] ELSE e[k - off]
    BY <1>2, <1>4, <2>1, <2>2, <2>3
  <2>. QED BY <2>3, <2>4
<1>6. /\ DOMAIN D = 1 .. Len(T)
      /\ \A k \in 1 .. Len(T) :
           /\ T[k].type = "status" => D[k] = [type |-> "status", seq |-> seq + k, v |-> T[k].v]
           /\ T[k].type = "lines" => D[k] = [type |-> "lines", seq |-> seq + k, lines |-> T[k].lines]
           /\ T[k].type = "ended" => D[k] = [type |-> "ended", seq |-> seq + k]
  BY <1>5 DEF Stamped
<1>7. \A k \in 1 .. Len(T) : T[k] \in Raw
  BY <1>5
<1>. HIDE DEF D, c, b, e
<1>8. \A k \in 1 .. Len(T) : D[k] \in LaneFrame /\ D[k].seq = seq + k /\ D[k].type = T[k].type
  BY <1>6, <1>7 DEF LaneFrame
<1>9. D \in Seq(LaneFrame) /\ Len(D) = Len(T)
  <2>1. D = [k \in 1 .. Len(T) |-> D[k]]
    BY <1>6 DEF D, Stamped
  <2>2. Len(T) \in Nat
    BY <1>1, <1>5
  <2>. QED BY <1>8, <2>1, <2>2
<1>10. ASSUME NEW k \in 1 .. Len(T), off < k
       PROVE  /\ IsStatus(D[k]) <=> StatusAt(k - off)
              /\ IsStatus(D[k]) => D[k].v = inbox.control[k - off].v
  <2>1. k - off \in 1 .. Len(c) /\ T[k] = Encoded(c[k - off])
    BY <1>1, <1>4, <1>5, <1>10
  <2>2. StatusAt(k - off) <=> c[k - off].kind = "status"
    BY <1>1, <2>1 DEF StatusAt, c
  <2>3. IsStatus(D[k]) <=> c[k - off].kind = "status"
    BY <1>3, <1>8, <2>1 DEF IsStatus
  <2>4. IsStatus(D[k]) => D[k].v = T[k].v /\ T[k].v = c[k - off].v
    <3>. SUFFICES ASSUME IsStatus(D[k]) PROVE D[k].v = T[k].v /\ T[k].v = c[k - off].v
      OBVIOUS
    <3>1. T[k].type = "status" /\ T[k].v = c[k - off].v
      BY <1>3, <2>1, <2>3
    <3>2. D[k] = [type |-> "status", seq |-> seq + k, v |-> T[k].v]
      BY <1>6, <3>1
    <3>. QED BY <3>1, <3>2
  <2>. QED BY <2>2, <2>3, <2>4 DEF c
<1>11. ASSUME NEW k \in 1 .. Len(T), k <= off PROVE D[k].type = "lines"
  BY <1>2, <1>5, <1>8, <1>11
<1>12. Drained(D, off)
  BY <1>2, <1>5, <1>8, <1>9, <1>10, <1>11 DEF Drained, c
<1>. QED BY <1>9, <1>12 DEF D
---------------------------------------------------------------------------
(* The inbox of the bridge. *)

\* The facts of the types that the arguments about the flight use.
LEMMA TypeFacts ==
    ASSUME TypeOK
    PROVE  /\ version \in Nat /\ pending \in BOOLEAN /\ seq \in Nat
           /\ inbox.control \in Seq(Event) /\ inbox.lines \in Seq(1 .. MaxEvents)
           /\ inbox \in [lines : Seq(1 .. MaxEvents), control : Seq(Event)]
           /\ queue.deque \in Seq(Frames) /\ queue.dropped \in Nat
           /\ view \in Nat /\ \A x \in overlay : x \in Nat
BY BoundsAssumption DEF TypeOK, ServerTypeOK, Frames

\* Steps of others leave the inbox alone.
LEMMA InboxKept ==
    ASSUME InboxInv, UNCHANGED <<version, pending, ending, attached, inbox>>
    PROVE  InboxInv'
BY DEF InboxInv, StatusAt, Published

LEMMA InboxEmptied ==
    ASSUME InboxInv, UNCHANGED <<version, pending>>, inbox' = EmptyInbox
    PROVE  InboxInv'
<1>1. \A c \in Nat : ~StatusAt(c)'
  BY DEF StatusAt, EmptyInbox
<1>2. DOMAIN inbox'.control = {}
  BY DEF EmptyInbox
<1>. QED BY <1>1, <1>2 DEF InboxInv

\* A write is published: it is the next one after what the bridge heard.
LEMMA InboxPublished ==
    ASSUME TypeOK, InboxInv, PublishStatus PROVE InboxInv'
<1>1. /\ version \in Nat /\ pending /\ ~pending' /\ UNCHANGED <<version, ending, attached>>
      /\ Publish([kind |-> "status", v |-> version]) /\ version >= 1
  BY TypeFacts DEF PublishStatus, InboxInv
<1>2. CASE ~attached
  <2>1. inbox' = EmptyInbox
    BY <1>1, <1>2 DEF Publish, InboxInv
  <2>2. \A c \in Nat : ~StatusAt(c)'
    BY <2>1 DEF StatusAt, EmptyInbox
  <2>. QED BY <1>1, <2>1, <2>2 DEF InboxInv, EmptyInbox
<1>3. CASE attached
  <2> DEFINE e == [kind |-> "status", v |-> version]
             s == inbox.control
  <2>1. /\ s \in Seq(Event) /\ Len(s) \in Nat /\ DOMAIN s = 1 .. Len(s) /\ e \in Event
        /\ inbox'.control = Append(s, e)
    BY SMTT(30), <1>1, <1>3, TypeFacts, BoundsAssumption DEF Publish, Event, TypeOK, ServerTypeOK
  <2>2. PICK last \in Nat : last = Len(s) + 1
    BY <2>1
  <2>3. /\ DOMAIN Append(s, e) = 1 .. last /\ Append(s, e)[last] = e
        /\ \A c \in 1 .. Len(s) : Append(s, e)[c] = s[c]
    BY <2>1, <2>2
  <2>4. \A c \in Nat : StatusAt(c) => c < last /\ StatusAt(c)' /\ inbox'.control[c] = s[c]
    BY <2>1, <2>2, <2>3 DEF StatusAt
  <2>5. StatusAt(last)' /\ inbox'.control[last].v = version
    BY <2>1, <2>2, <2>3 DEF StatusAt
  <2>6. \A c \in Nat : StatusAt(c)' => c = last \/ StatusAt(c)
    BY <2>1, <2>2, <2>3 DEF StatusAt
  <2>7. Published' = version /\ Published = version - 1
    BY <1>1 DEF Published
  <2>8. ending' # "closed" => \A c \in DOMAIN inbox'.control : StatusAt(c)'
    <3>. SUFFICES ASSUME ending' # "closed", NEW c \in DOMAIN inbox'.control PROVE StatusAt(c)'
      OBVIOUS
    <3>1. c = last \/ c \in DOMAIN s
      BY <2>1, <2>2, <2>3
    <3>2. CASE c = last
      BY <2>5, <3>2
    <3>3. CASE c \in DOMAIN s
      BY <1>1, <2>1, <2>4, <3>3 DEF InboxInv
    <3>. QED BY <3>1, <3>2, <3>3
  <2>9. ASSUME NEW c \in Nat, StatusAt(c)'
        PROVE  /\ inbox'.control[c].v <= Published'
               /\ (\E d \in Nat : c < d /\ StatusAt(d)') \/ inbox'.control[c].v = Published'
               /\ \A d \in Nat : c < d /\ StatusAt(d)' =>
                     \/ inbox'.control[d].v <= inbox'.control[c].v + 1
                     \/ \E b \in Nat : c < b /\ b < d /\ StatusAt(b)'
    <3>1. CASE c = last
      <4>1. \A d \in Nat : StatusAt(d)' => ~(c < d)
        BY <2>4, <2>6, <3>1
      <4>. QED BY <1>1, <2>5, <2>7, <3>1, <4>1
    <3>2. CASE StatusAt(c)
      <4>1. /\ s[c].v \in Nat /\ inbox'.control[c].v = s[c].v /\ c < last
        BY <2>1, <2>4, <3>2 DEF StatusAt, Event
      <4>2. s[c].v <= version - 1
        BY <2>7, <3>2 DEF InboxInv
      <4>3. ASSUME NEW d \in Nat, c < d, StatusAt(d)'
            PROVE  \/ inbox'.control[d].v <= inbox'.control[c].v + 1
                   \/ \E b \in Nat : c < b /\ b < d /\ StatusAt(b)'
        <5>1. CASE StatusAt(d)
          <6>1. s[d].v <= s[c].v + 1 \/ \E b \in Nat : c < b /\ b < d /\ StatusAt(b)
            BY <3>2, <4>3, <5>1 DEF InboxInv
          <6>. QED BY <2>4, <3>2, <5>1, <6>1
        <5>2. CASE d = last
          <6>1. CASE s[c].v = Published
            <7>1. version <= s[c].v + 1
              BY <1>1, <2>7, <6>1
            <7>. QED BY <2>5, <4>1, <5>2, <7>1
          <6>2. ASSUME NEW b \in Nat, c < b, StatusAt(b)
                PROVE  \E b2 \in Nat : c < b2 /\ b2 < d /\ StatusAt(b2)'
            BY <2>4, <5>2, <6>2
          <6>. QED BY <3>2, <6>1, <6>2 DEF InboxInv
        <5>. QED BY <2>6, <4>3, <5>1, <5>2
      <4>4. inbox'.control[c].v <= Published'
        BY <1>1, <2>7, <4>1, <4>2
      <4>. QED BY <2>5, <4>1, <4>3, <4>4
    <3>. QED BY <2>6, <3>1, <3>2, <1>3, <2>9
  <2>. HIDE DEF e, s
  <2>. QED BY <1>1, <1>3, <2>8, <2>9 DEF InboxInv
<1>. QED BY <1>2, <1>3

\* The session and the bridge keep the inbox as it should be.
LEMMA InboxHolds ==
    ASSUME TypeOK, InboxInv, [Next]_vars
    PROVE  InboxInv'
<1>1. /\ version \in Nat /\ pending \in BOOLEAN /\ inbox.control \in Seq(Event)
      /\ Len(inbox.control) \in Nat /\ DOMAIN inbox.control = 1 .. Len(inbox.control)
  BY TypeFacts
<1>2. CASE WriteStatus
  <2>1. Published' = Published /\ (pending' => version' >= 1)
    BY <1>1, <1>2 DEF WriteStatus, Published
  <2>. QED BY <1>2, <2>1 DEF WriteStatus, StatusAt, InboxInv
<1>3. CASE LogLine
  <2>1. UNCHANGED <<version, pending, ending, attached>> /\ attached /\ inbox'.control = inbox.control
    BY <1>3, TypeFacts DEF LogLine
  <2>. QED BY <2>1 DEF StatusAt, Published, InboxInv
<1>4. CASE EndSession
  <2>1. CASE UNCHANGED inbox
    <3>1. UNCHANGED <<version, pending, inbox, attached>> /\ ending # "closed"
      BY <1>4, <2>1 DEF EndSession, MarkEnded, ReleaseStore, PublishEnd
    <3>. QED BY <3>1 DEF StatusAt, Published, InboxInv
  <2>2. CASE ~UNCHANGED inbox
    <3>1. /\ UNCHANGED <<version, pending, attached>> /\ ending' = "closed" /\ attached
          /\ inbox' = [inbox EXCEPT !.control = Append(@, [kind |-> "ended"])]
      BY <1>4, <2>2 DEF EndSession, MarkEnded, ReleaseStore, PublishEnd, Publish
    <3>2. /\ inbox'.control = Append(inbox.control, [kind |-> "ended"])
          /\ [kind |-> "ended"] \in Event
      BY <3>1, TypeFacts DEF Event
    <3>3. \A c \in Nat : (StatusAt(c)' <=> StatusAt(c))
                         /\ (StatusAt(c) => inbox'.control[c] = inbox.control[c])
      BY <1>1, <3>2 DEF StatusAt
    <3>. QED BY <3>1, <3>3 DEF Published, InboxInv
  <2>. QED BY <2>1, <2>2
<1>5. CASE PublishStatus
  BY <1>5, InboxPublished
<1>6. CASE Drain
  <2>1. UNCHANGED <<version, pending>> /\ inbox' = EmptyInbox
    BY <1>6 DEF Drain, sessionVars
  <2>. QED BY <2>1, InboxEmptied
<1>7. CASE Attach
  <2>1. /\ UNCHANGED <<version, pending, ending>>
        /\ (inbox' = EmptyInbox) \/ UNCHANGED <<inbox, attached>> \/ (attached /\ attached' /\ UNCHANGED inbox)
    BY <1>7 DEF Attach, sessionVars, bridgeVars
  <2>2. CASE inbox' = EmptyInbox
    BY <2>1, <2>2, InboxEmptied
  <2>3. CASE UNCHANGED <<inbox, attached>>
    BY <2>1, <2>3, InboxKept
  <2>4. CASE attached /\ attached' /\ UNCHANGED inbox
    BY <2>1, <2>4 DEF InboxInv, StatusAt, Published
  <2>. QED BY <2>1, <2>2, <2>3, <2>4
<1>8. CASE HandleSubscribe \/ Snapshot \/ Sender
  BY <1>8, InboxKept DEF HandleSubscribe, Snapshot, Sender, SendControl, SendSession, CloseTooSlow,
     SenderWaits, SenderWakes, sessionVars, bridgeVars
<1>9. CASE App
  BY <1>9, InboxKept DEF App, EnsureSubscribed, SendSubscribe, ReadSnapshot, ReadFails, ApplyOverlay,
     serverVars, bridgeVars
<1>10. CASE Receiver \/ Drop
  BY <1>10, InboxKept DEF Receiver, Drop, Receive, ReceiveClose, Disconnected, Reconnect, Resubscribe,
     bridgeVars
<1>11. CASE UNCHANGED vars
  BY <1>11, InboxKept DEF vars
<1>. QED BY <1>2, <1>3, <1>4, <1>5, <1>6, <1>7, <1>8, <1>9, <1>10, <1>11
     DEF Next, Server, Handlers, Finished

---------------------------------------------------------------------------
(* Types. *)

\* A push keeps the newest frames, at most as many as the queue takes.
Lost(q, frames) == Overflow(q.deque \o frames)

LEMMA PushFacts ==
    ASSUME NEW S, NEW q, q.deque \in Seq(S), q.dropped \in Nat, NEW frames \in Seq(S)
    PROVE  /\ Push(q, frames) \in [deque : Seq(S), dropped : Nat]
           /\ Len(Push(q, frames).deque) <= QSize
           /\ Lost(q, frames) \in Nat
           /\ Lost(q, frames) <= Len(q.deque) + Len(frames)
           /\ q.deque \o frames # <<>> => Lost(q, frames) < Len(q.deque) + Len(frames)
           /\ Len(q.deque) + Len(frames) <= QSize => Lost(q, frames) = 0
           /\ Len(Push(q, frames).deque) = Len(q.deque) + Len(frames) - Lost(q, frames)
           /\ \A j \in 1 .. Len(Push(q, frames).deque) :
                 Push(q, frames).deque[j] = (q.deque \o frames)[j + Lost(q, frames)]
<1> DEFINE all == q.deque \o frames
           k == Overflow(all)
           rest == SubSeq(all, k + 1, Len(all))
<1>1. /\ all \in Seq(S) /\ Len(all) \in Nat /\ Len(all) = Len(q.deque) + Len(frames)
      /\ \A j \in 1 .. Len(all) : all[j] \in S
  BY ConcatProperties
<1>2. /\ k \in Nat /\ k <= Len(all) /\ Len(all) - k <= QSize /\ (Len(all) > 0 => k < Len(all))
      /\ (Len(all) <= QSize => k = 0)
  BY <1>1, CapacityAssumption DEF Overflow
<1>3. all # <<>> => Len(all) > 0
  BY <1>1
<1> HIDE DEF all, k
<1>4. /\ rest \in Seq(S) /\ Len(rest) = Len(all) - k
      /\ \A j \in 1 .. Len(rest) : rest[j] = all[j + k]
  <2>1. k + 1 \in Int /\ Len(all) \in Int /\ \A j \in k + 1 .. Len(all) : all[j] \in S
    BY <1>1, <1>2
  <2>2. /\ rest \in Seq(S) /\ Len(rest) = IF k + 1 <= Len(all) THEN Len(all) - (k + 1) + 1 ELSE 0
        /\ \A j \in 1 .. Len(all) - (k + 1) + 1 : rest[j] = all[k + 1 + j - 1]
    BY <2>1, SubSeqProperties
  <2>3. Len(rest) = Len(all) - k /\ Len(all) - (k + 1) + 1 = Len(all) - k
    BY <1>1, <1>2, <2>2
  <2>4. \A j \in 1 .. Len(rest) : k + 1 + j - 1 = j + k
    BY <1>1, <1>2, <2>3
  <2>. QED BY <2>2, <2>3, <2>4
<1>5. Push(q, frames) = [deque |-> rest, dropped |-> q.dropped + k]
  BY DEF Push, all, k
<1> HIDE DEF rest
<1>6. /\ Push(q, frames) \in [deque : Seq(S), dropped : Nat]
      /\ Push(q, frames).deque = rest /\ Push(q, frames).dropped = q.dropped + k
  <2>1. q.dropped + k \in Nat
    BY <1>2
  <2>. QED BY <1>4, <1>5, <2>1
<1>7. Len(Push(q, frames).deque) <= QSize
  BY <1>2, <1>4, <1>6
<1>8. /\ k <= Len(q.deque) + Len(frames)
      /\ q.deque \o frames # <<>> => k < Len(q.deque) + Len(frames)
      /\ Len(q.deque) + Len(frames) <= QSize => k = 0
      /\ Len(Push(q, frames).deque) = Len(q.deque) + Len(frames) - k
      /\ \A j \in 1 .. Len(Push(q, frames).deque) :
            Push(q, frames).deque[j] = (q.deque \o frames)[j + k]
  <2>1. q.deque \o frames = all
    BY DEF all
  <2>. QED BY <1>1, <1>2, <1>3, <1>4, <1>6, <2>1
<1>9. Lost(q, frames) = k
  BY DEF Lost, k, all
<1>. QED BY <1>2, <1>6, <1>7, <1>8, <1>9

Inboxes == [lines : Seq(1 .. MaxEvents), control : Seq(Event)]
ServerFrames == LaneFrame \cup Snapshots \cup Replies \cup {Close}

\* The types of the variables, in the parts that steps change together.
SessionTypes ==
    /\ version \in 0 .. MaxEvents /\ pending \in BOOLEAN /\ lines \in 0 .. MaxEvents
    /\ ending \in {"no", "ended", "released", "closed"}
BridgeTypes ==
    /\ attached \in BOOLEAN /\ seq \in Nat
    /\ inbox \in Inboxes
QueueTypes ==
    /\ joined \in BOOLEAN
    /\ queue \in [deque : Seq(Frames), dropped : Nat] /\ Len(queue.deque) <= QSize
    /\ control \in [deque : Seq(Replies), dropped : Nat] /\ Len(control.deque) <= QSize
ConnTypes ==
    /\ conn \in {"open", "closed"}
    /\ sender \in {"control", "session", "wait"} /\ round \in BOOLEAN /\ wake \in BOOLEAN
    /\ loop \in [at : {"idle", "attach", "snapshot"}]
    /\ up \in Seq(Nat) /\ wire \in Seq(ServerFrames)
LaneTypes ==
    /\ link \in {"up", "down", "bound"} /\ drops \in 0 .. MaxDrops
    /\ lane \in {"IDLE", "STREAMING"} \cup Waiting /\ lastSeq \in Nat \cup {NoSeq}
    /\ sent \in Nat /\ table \subseteq 1 .. sent /\ subId \in 0 .. sent
ViewTypes ==
    /\ app \in {"start", "subscribe", "read", "apply", "done"}
    /\ overlay \subseteq 0 .. MaxEvents /\ view \in 0 .. MaxEvents /\ told \in BOOLEAN
    /\ base \in {"unseeded", "exact", "overtaken", "skipped", "released"}

LEMMA TypeParts ==
    TypeOK <=> SessionTypes /\ BridgeTypes /\ QueueTypes /\ ConnTypes /\ LaneTypes /\ ViewTypes
BY DEF TypeOK, ServerTypeOK, SessionTypes, BridgeTypes, QueueTypes, ConnTypes, LaneTypes, ViewTypes,
   Frames, ServerFrames, Inboxes

LEMMA TypePartsNext ==
    ASSUME SessionTypes', BridgeTypes', QueueTypes', ConnTypes', LaneTypes', ViewTypes' PROVE TypeOK'
BY DEF TypeOK, ServerTypeOK, SessionTypes, BridgeTypes, QueueTypes, ConnTypes, LaneTypes, ViewTypes,
   Frames, ServerFrames, Inboxes

LEMMA InboxTypes ==
    /\ EmptyInbox \in Inboxes
    /\ \A i \in Inboxes, e \in Event : [i EXCEPT !.control = Append(@, e)] \in Inboxes
    /\ \A i \in Inboxes, n \in 1 .. MaxEvents : [i EXCEPT !.lines = Append(@, n)] \in Inboxes
<1>1. EmptyInbox \in Inboxes
  BY DEF Inboxes, EmptyInbox
<1>2. ASSUME NEW i \in Inboxes, NEW e \in Event PROVE [i EXCEPT !.control = Append(@, e)] \in Inboxes
  <2>1. Append(i.control, e) \in Seq(Event)
    BY DEF Inboxes
  <2>. QED BY <2>1 DEF Inboxes
<1>3. ASSUME NEW i \in Inboxes, NEW n \in 1 .. MaxEvents PROVE [i EXCEPT !.lines = Append(@, n)] \in Inboxes
  <2>1. Append(i.lines, n) \in Seq(1 .. MaxEvents)
    BY DEF Inboxes
  <2>. QED BY <2>1 DEF Inboxes
<1>. QED BY <1>1, <1>2, <1>3

LEMMA SessionStepTypes ==
    ASSUME TypeOK, InboxInv, WriteStatus \/ PublishStatus \/ LogLine \/ EndSession, UNCHANGED clientVars
    PROVE  TypeOK'
<1>. USE TypeParts, TypePartsNext
<1>1. UNCHANGED <<attached, seq, joined, queue, control, conn, sender, round, wake, loop, up, wire>>
  BY DEF WriteStatus, PublishStatus, LogLine, EndSession, queueVars, senderVars
<1>2. QueueTypes' /\ ConnTypes' /\ LaneTypes' /\ ViewTypes'
  BY <1>1 DEF QueueTypes, ConnTypes, LaneTypes, ViewTypes, clientVars
<1>3. CASE WriteStatus
  BY <1>1, <1>2, <1>3, BoundsAssumption DEF WriteStatus, SessionTypes, BridgeTypes
<1>4. CASE PublishStatus
  <2>1. [kind |-> "status", v |-> version] \in Event
    BY <1>4, BoundsAssumption DEF PublishStatus, InboxInv, Event, SessionTypes
  <2>2. inbox' \in Inboxes
    BY <1>4, <2>1, InboxTypes DEF PublishStatus, Publish, BridgeTypes
  <2>. QED BY <1>1, <1>2, <1>4, <2>2 DEF PublishStatus, SessionTypes, BridgeTypes
<1>5. CASE LogLine
  <2>1. lines + 1 \in 1 .. MaxEvents
    BY <1>5, BoundsAssumption DEF LogLine, SessionTypes
  <2>2. inbox' \in Inboxes
    BY <1>5, <2>1, InboxTypes DEF LogLine, BridgeTypes
  <2>. QED BY <1>1, <1>2, <1>5, <2>1, <2>2 DEF LogLine, SessionTypes, BridgeTypes
<1>6. CASE EndSession
  <2>1. [kind |-> "ended"] \in Event
    BY DEF Event
  <2>2. inbox' \in Inboxes
    BY <1>6, <2>1, InboxTypes DEF EndSession, MarkEnded, ReleaseStore, PublishEnd, Publish, BridgeTypes
  <2>3. SessionTypes'
    BY <1>6 DEF EndSession, MarkEnded, ReleaseStore, PublishEnd, SessionTypes
  <2>. QED BY <1>1, <1>2, <2>2, <2>3 DEF BridgeTypes
<1>. QED BY <1>3, <1>4, <1>5, <1>6

LEMMA SeqSubset ==
    ASSUME NEW S, NEW T, S \subseteq T, NEW s \in Seq(S) PROVE s \in Seq(T)
OBVIOUS

LEMMA ServerStepTypes ==
    ASSUME TypeOK, Server, UNCHANGED clientVars PROVE TypeOK'
<1>. USE TypeParts, TypePartsNext
<1>1. LaneTypes' /\ ViewTypes'
  BY DEF LaneTypes, ViewTypes, clientVars
<1>2. CASE Drain
  <2> DEFINE frames == Stamped(EncodeTick(inbox), seq)
  <2>1. frames \in Seq(LaneFrame)
    BY DrainFacts DEF BridgeTypes, Inboxes
  <2>2. frames \in Seq(Frames) /\ Len(frames) \in Nat
    BY <2>1, SeqSubset DEF Frames
  <2> HIDE DEF frames
  <2>3. /\ seq' = seq + Len(frames) /\ queue' = (IF joined THEN Push(queue, frames) ELSE queue)
        /\ wake' = (wake \/ joined) /\ attached' \in BOOLEAN /\ inbox' = EmptyInbox
        /\ UNCHANGED <<version, pending, lines, ending, conn, joined, control, sender, round, loop, up, wire>>
    BY <1>2 DEF Drain, sessionVars, frames
  <2>4. QueueTypes'
    BY <2>2, <2>3, PushFacts DEF QueueTypes
  <2>5. BridgeTypes'
    BY <2>2, <2>3, InboxTypes DEF BridgeTypes
  <2>. QED BY <1>1, <2>3, <2>4, <2>5 DEF SessionTypes, ConnTypes
<1>3. CASE HandleSubscribe
  <2>1. /\ UNCHANGED <<version, pending, lines, ending, attached, inbox, seq, conn, joined, queue, sender, round, wire>>
        /\ up # <<>> /\ up' = Tail(up)
    BY <1>3 DEF HandleSubscribe, sessionVars, bridgeVars
  <2>2. up' \in Seq(Nat) /\ Head(up) \in Nat
    BY <2>1 DEF ConnTypes
  <2>3. /\ control' = control \/ control' = Push(control, <<[type |-> "error", id |-> Head(up)]>>)
        /\ wake' = wake \/ wake' = TRUE
        /\ loop' = loop \/ loop' = [at |-> "attach"]
    BY <1>3 DEF HandleSubscribe
  <2>4. <<[type |-> "error", id |-> Head(up)]>> \in Seq(Replies)
    BY <2>2 DEF Replies
  <2> DEFINE reply == <<[type |-> "error", id |-> Head(up)]>>
  <2>7. Push(control, reply) \in [deque : Seq(Replies), dropped : Nat] /\ Len(Push(control, reply).deque) <= QSize
    BY <2>4, PushFacts DEF QueueTypes
  <2>5. QueueTypes'
    BY <2>1, <2>3, <2>7 DEF QueueTypes
  <2>8. ConnTypes
    OBVIOUS
  <2>9. loop' \in [at : {"idle", "attach", "snapshot"}]
    BY <2>3, <2>8 DEF ConnTypes
  <2>10. wake' \in BOOLEAN
    BY <2>3, <2>8 DEF ConnTypes
  <2>6. ConnTypes'
    BY <2>1, <2>2, <2>8, <2>9, <2>10 DEF ConnTypes
  <2>. QED BY <1>1, <2>1, <2>5, <2>6 DEF SessionTypes, BridgeTypes
<1>4. CASE Attach
  <2>1. /\ UNCHANGED <<version, pending, lines, ending, queue, control, up, sender, round, wake>>
        /\ attached' = attached \/ attached' = TRUE
        /\ (inbox' = inbox /\ seq' = seq) \/ (inbox' = EmptyInbox /\ seq' = 0)
        /\ loop' = Idle \/ loop' = [at |-> "snapshot"]
        /\ conn' = conn \/ conn' = "closed"
        /\ joined' = joined \/ joined' = FALSE
        /\ wire' = wire \/ wire' = Append(wire, Close)
    BY <1>4 DEF Attach, sessionVars, bridgeVars, senderVars
  <2>2. Append(wire, Close) \in Seq(ServerFrames)
    BY DEF ConnTypes, ServerFrames
  <2>5. loop' \in [at : {"idle", "attach", "snapshot"}]
    BY <2>1 DEF Idle
  <2>3. ConnTypes'
    BY <2>1, <2>2, <2>5 DEF ConnTypes
  <2>6. BridgeTypes
    OBVIOUS
  <2>7. inbox' \in Inboxes /\ seq' \in Nat
    BY <2>1, <2>6, InboxTypes DEF BridgeTypes
  <2>8. attached' \in BOOLEAN
    BY <2>1, <2>6 DEF BridgeTypes
  <2>4. BridgeTypes'
    BY <2>7, <2>8 DEF BridgeTypes
  <2>. QED BY <1>1, <2>1, <2>3, <2>4 DEF SessionTypes, QueueTypes
<1>5. CASE Snapshot
  <2> DEFINE f == [type |-> "snapshot", seq |-> seq, tasks |-> StoreTasks, over |-> ending # "no"]
  <2>1. <<f>> \in Seq(Frames)
    BY BoundsAssumption DEF Frames, Snapshots, StoreTasks, SessionTypes, BridgeTypes
  <2>2. EmptyQueue \in [deque : Seq(Frames), dropped : Nat]
    BY DEF EmptyQueue
  <2>3. /\ queue' = Push(EmptyQueue, <<f>>) /\ joined' = TRUE /\ wake' = TRUE /\ loop' = Idle
        /\ UNCHANGED <<version, pending, lines, ending, attached, inbox, seq, conn, control, sender, round, up, wire>>
    BY <1>5 DEF Snapshot, sessionVars, bridgeVars
  <2> HIDE DEF f
  <2>4. QueueTypes'
    BY <2>1, <2>2, <2>3, PushFacts DEF QueueTypes
  <2>. QED BY <1>1, <2>3, <2>4 DEF SessionTypes, BridgeTypes, ConnTypes, Idle
<1>6. CASE Sender
  <2>1. UNCHANGED <<version, pending, lines, ending, attached, inbox, seq, loop, up>>
    BY <1>6 DEF Sender, SendControl, SendSession, CloseTooSlow, SenderWaits, SenderWakes, sessionVars, bridgeVars
  <2>2. CASE SendControl
    <3>1. /\ wire' = Append(wire, Head(control.deque)) /\ control.deque # <<>>
          /\ control' = [control EXCEPT !.deque = Tail(control.deque)]
          /\ UNCHANGED <<conn, joined, queue, sender, round, wake>>
      BY <2>2 DEF SendControl, AtControl, senderVars
    <3>2. /\ Head(control.deque) \in ServerFrames /\ Tail(control.deque) \in Seq(Replies)
          /\ Len(Tail(control.deque)) <= QSize
      BY <3>1, CapacityAssumption DEF QueueTypes, ServerFrames
    <3>3. QueueTypes'
      BY <3>1, <3>2 DEF QueueTypes
    <3>4. ConnTypes'
      BY <2>1, <3>1, <3>2 DEF ConnTypes
    <3>. QED BY <1>1, <2>1, <3>3, <3>4 DEF SessionTypes, BridgeTypes
  <2>3. CASE SendSession
    <3>1. /\ wire' = Append(wire, Head(queue.deque)) /\ queue.deque # <<>> /\ sender' = "session"
          /\ queue' = [queue EXCEPT !.deque = Tail(queue.deque)]
          /\ UNCHANGED <<conn, joined, control, round, wake>>
      BY <2>3 DEF SendSession
    <3>2. /\ Head(queue.deque) \in ServerFrames /\ Tail(queue.deque) \in Seq(Frames)
          /\ Len(Tail(queue.deque)) <= QSize
      BY <3>1, CapacityAssumption DEF QueueTypes, ServerFrames, Frames
    <3>3. QueueTypes'
      BY <3>1, <3>2 DEF QueueTypes
    <3>4. ConnTypes'
      BY <2>1, <3>1, <3>2 DEF ConnTypes
    <3>. QED BY <1>1, <2>1, <3>3, <3>4 DEF SessionTypes, BridgeTypes
  <2>4. CASE CloseTooSlow
    <3>1. Append(wire, Close) \in Seq(ServerFrames)
      BY DEF ConnTypes, ServerFrames
    <3>. QED BY <1>1, <2>1, <2>4, <3>1
             DEF CloseTooSlow, senderVars, SessionTypes, BridgeTypes, QueueTypes, ConnTypes
  <2>5. CASE SenderWaits \/ SenderWakes
    BY <1>1, <2>1, <2>5
       DEF SenderWaits, SenderWakes, queueVars, SessionTypes, BridgeTypes, QueueTypes, ConnTypes
  <2>. QED BY <1>6, <2>2, <2>3, <2>4, <2>5 DEF Sender
<1>. QED BY <1>2, <1>3, <1>4, <1>5, <1>6 DEF Server, Handlers

\* A frame the receiver routes.
LEMMA RoutedFacts ==
    ASSUME NEW f \in ServerFrames, f # Close
    PROVE  /\ f.type = "snapshot" => f \in Snapshots
           /\ f.type = "error" => f \in Replies
           /\ f.type \notin {"snapshot", "error"} => f \in LaneFrame
BY DEF ServerFrames, LaneFrame, Snapshots, Replies, Close

LEMMA SubscribeTypes ==
    ASSUME TypeOK, SubscribeSession
    PROVE  sent' \in Nat /\ table' \subseteq 1 .. sent' /\ subId' \in 0 .. sent' /\ up' \in Seq(Nat)
<1>1. sent \in Nat /\ table \subseteq 1 .. sent /\ subId \in 0 .. sent /\ up \in Seq(Nat)
  BY DEF TypeOK, ServerTypeOK
<1>2. CASE link # "down" /\ conn = "open"
  <2>1. sent' = sent + 1 /\ table' = table \cup {sent + 1} /\ subId' = sent + 1 /\ up' = Append(up, sent + 1)
    BY <1>2 DEF SubscribeSession
  <2>2. sent + 1 \in Nat /\ table \cup {sent + 1} \subseteq 1 .. sent + 1 /\ sent + 1 \in 0 .. sent + 1
    BY <1>1
  <2>3. Append(up, sent + 1) \in Seq(Nat)
    BY <1>1, <2>2
  <2>. QED BY <2>1, <2>2, <2>3
<1>3. CASE ~(link # "down" /\ conn = "open")
  BY <1>1, <1>3 DEF SubscribeSession
<1>. QED BY <1>2, <1>3

LEMMA AppStepTypes ==
    ASSUME TypeOK, App PROVE TypeOK'
<1>1. /\ SessionTypes /\ BridgeTypes /\ QueueTypes /\ ConnTypes /\ LaneTypes /\ ViewTypes
  BY TypeParts
<1>2. CASE EnsureSubscribed \/ ReadSnapshot \/ ReadFails \/ ApplyOverlay
  <2>1. UNCHANGED serverVars /\ UNCHANGED linkVars /\ UNCHANGED <<lastSeq, sent, table, subId, told>>
    BY <1>2 DEF EnsureSubscribed, ReadSnapshot, ReadFails, ApplyOverlay, laneVars, viewVars
  <2>2. SessionTypes' /\ BridgeTypes' /\ QueueTypes' /\ ConnTypes'
    BY <1>1, <2>1 DEF SessionTypes, BridgeTypes, QueueTypes, ConnTypes, serverVars
  <2>3. lane' \in {"IDLE", "STREAMING"} \cup Waiting
    BY <1>1, <1>2 DEF LaneTypes, EnsureSubscribed, ReadSnapshot, ReadFails, ApplyOverlay, laneVars, Waiting
  <2>4. LaneTypes'
    BY <1>1, <2>1, <2>3 DEF LaneTypes, linkVars
  <2>5. ViewTypes'
    <3>1. CASE EnsureSubscribed
      BY <1>1, <3>1 DEF ViewTypes, EnsureSubscribed, viewVars
    <3>2. CASE ReadSnapshot
      <4>1. StoreTasks \subseteq 0 .. MaxEvents
        BY <1>1 DEF StoreTasks, SessionTypes
      <4>. QED BY <1>1, <3>2, <4>1 DEF ViewTypes, ReadSnapshot, viewVars
    <3>3. CASE ReadFails
      BY <1>1, <3>3 DEF ViewTypes, ReadFails, viewVars
    <3>4. CASE ApplyOverlay
      <4>1. view' \in 0 .. MaxEvents
        BY <1>1, <3>4 DEF ViewTypes, ApplyOverlay
      <4>2. base' \in {"unseeded", "exact", "overtaken", "skipped", "released"}
        BY <1>1, <3>4 DEF ViewTypes, ApplyOverlay
      <4>. QED BY <1>1, <2>1, <3>4, <4>1, <4>2 DEF ViewTypes, ApplyOverlay
    <3>. QED BY <1>2, <3>1, <3>2, <3>3, <3>4
  <2>. QED BY <2>2, <2>4, <2>5, TypePartsNext
<1>3. CASE SendSubscribe
  <2>1. SubscribeSession /\ app' = "read"
        /\ UNCHANGED <<lane, lastSeq, overlay, version, pending, lines, ending, conn, loop, wire>>
        /\ UNCHANGED bridgeVars /\ UNCHANGED queueVars /\ UNCHANGED senderVars
        /\ UNCHANGED linkVars /\ UNCHANGED viewVars
    BY <1>3 DEF SendSubscribe
  <2>2. sent' \in Nat /\ table' \subseteq 1 .. sent' /\ subId' \in 0 .. sent' /\ up' \in Seq(Nat)
    BY <2>1, SubscribeTypes
  <2>3. SessionTypes' /\ BridgeTypes' /\ QueueTypes' /\ ConnTypes'
    BY <1>1, <2>1, <2>2 DEF SessionTypes, BridgeTypes, QueueTypes, ConnTypes, bridgeVars, queueVars, senderVars
  <2>4. LaneTypes' /\ ViewTypes'
    BY <1>1, <2>1, <2>2 DEF LaneTypes, ViewTypes, linkVars, viewVars
  <2>. QED BY <2>3, <2>4, TypePartsNext
<1>. QED BY <1>2, <1>3 DEF App

LEMMA ReceiveTypes ==
    ASSUME TypeOK, Receive PROVE TypeOK'
<1>1. /\ SessionTypes /\ BridgeTypes /\ QueueTypes /\ ConnTypes /\ LaneTypes /\ ViewTypes
  BY TypeParts
<1>2. PICK f \in ServerFrames : f = Head(wire) /\ f # Close /\ Route(f)
  BY <1>1 DEF Receive, ConnTypes
<1>3. /\ wire' = Tail(wire) /\ wire # <<>>
      /\ UNCHANGED <<version, pending, lines, ending, conn, loop>>
      /\ UNCHANGED bridgeVars /\ UNCHANGED queueVars /\ UNCHANGED senderVars
      /\ UNCHANGED linkVars /\ UNCHANGED appVars
  BY DEF Receive
<1>4. wire' \in Seq(ServerFrames)
  BY <1>1, <1>3 DEF ConnTypes
<1>5. /\ up' \in Seq(Nat) /\ sent' \in Nat /\ table' \subseteq 1 .. sent' /\ subId' \in 0 .. sent'
      /\ lane' \in {"IDLE", "STREAMING"} \cup Waiting /\ lastSeq' \in Nat \cup {NoSeq}
      /\ view' \in 0 .. MaxEvents /\ told' \in BOOLEAN
      /\ base' \in {"unseeded", "exact", "overtaken", "skipped", "released"}
  <2>0. /\ up \in Seq(Nat) /\ sent \in Nat /\ table \subseteq 1 .. sent /\ subId \in 0 .. sent
        /\ lane \in {"IDLE", "STREAMING"} \cup Waiting /\ lastSeq \in Nat \cup {NoSeq}
        /\ view \in 0 .. MaxEvents /\ told \in BOOLEAN
        /\ base \in {"unseeded", "exact", "overtaken", "skipped", "released"}
    BY <1>1 DEF ConnTypes, LaneTypes, ViewTypes
  <2>1. CASE f.type = "snapshot"
    <3>1. OnSnapshot(f)
      BY <1>2, <2>1 DEF Route
    <3>2. f.seq \in Nat /\ f.tasks \subseteq 0 .. MaxEvents /\ f.over \in BOOLEAN
      BY <1>2, <2>1, RoutedFacts DEF Snapshots
    <3>3. UNCHANGED <<sent, subId, up>> /\ table' \subseteq table /\ lastSeq' = f.seq /\ lane' = "STREAMING"
      BY <3>1 DEF OnSnapshot
    <3>4. view' \in 0 .. MaxEvents /\ told' \in BOOLEAN
      BY <2>0, <3>1, <3>2 DEF OnSnapshot
    <3>5. base' \in {"unseeded", "exact", "overtaken", "skipped", "released"}
      BY <2>0, <3>1 DEF OnSnapshot
    <3>. QED BY <2>0, <3>2, <3>3, <3>4, <3>5
  <2>2. CASE f.type = "error"
    <3>1. OnError(f)
      BY <1>2, <2>2 DEF Route
    <3>. QED BY <2>0, <3>1 DEF OnError
  <2>3. CASE f.type \notin {"snapshot", "error"}
    <3>1. OnFrame(f) /\ f \in LaneFrame
      BY <1>2, <2>3, RoutedFacts DEF Route
    <3>2. f.seq \in Nat /\ (f.type = "status" => f.v \in 0 .. MaxEvents)
      BY <3>1 DEF LaneFrame
    <3>3. CASE lane \in Waiting
      <4>1. UNCHANGED <<lane, lastSeq, sent, table, subId, up>> /\ UNCHANGED viewVars
        BY <3>1, <3>3 DEF OnFrame
      <4>. QED BY <2>0, <4>1 DEF viewVars
    <3>4. CASE lane \notin Waiting /\ Gap(f)
      <4>1. lane' = "HEALING" /\ SubscribeSession /\ UNCHANGED lastSeq /\ UNCHANGED viewVars
        BY <3>1, <3>4 DEF OnFrame
      <4>. QED BY <2>0, <4>1, SubscribeTypes DEF viewVars, Waiting
    <3>5. CASE lane \notin Waiting /\ ~Gap(f)
      <4>1. lastSeq' = f.seq /\ Dispatch(f) /\ UNCHANGED <<lane, sent, table, subId, up>>
        BY <3>1, <3>5 DEF OnFrame
      <4>2. view' \in 0 .. MaxEvents /\ told' \in BOOLEAN
        BY <2>0, <3>2, <4>1 DEF Dispatch
      <4>3. base' \in {"unseeded", "exact", "overtaken", "skipped", "released"}
        BY <2>0, <4>1 DEF Dispatch
      <4>. QED BY <2>0, <3>2, <4>1, <4>2, <4>3
    <3>. QED BY <3>3, <3>4, <3>5
  <2>. QED BY <2>1, <2>2, <2>3
<1>6. SessionTypes' /\ BridgeTypes' /\ QueueTypes'
  BY <1>1, <1>3 DEF SessionTypes, BridgeTypes, QueueTypes, bridgeVars, queueVars
<1>7. ConnTypes'
  BY <1>1, <1>3, <1>4, <1>5 DEF ConnTypes, senderVars
<1>8. LaneTypes' /\ ViewTypes'
  BY <1>1, <1>3, <1>5 DEF LaneTypes, ViewTypes, linkVars, appVars
<1>. QED BY <1>6, <1>7, <1>8, TypePartsNext

LEMMA LinkStepTypes ==
    ASSUME TypeOK, ReceiveClose \/ Drop \/ Reconnect \/ Resubscribe PROVE TypeOK'
<1>1. /\ SessionTypes /\ BridgeTypes /\ QueueTypes /\ ConnTypes /\ LaneTypes /\ ViewTypes
  BY TypeParts
<1>2. EmptyQueue \in [deque : Seq(Frames), dropped : Nat] /\ EmptyQueue \in [deque : Seq(Replies), dropped : Nat]
      /\ Len(EmptyQueue.deque) <= QSize
  BY CapacityAssumption DEF EmptyQueue
<1>3. CASE ReceiveClose \/ Drop
  <2>1. Disconnected /\ drops' \in 0 .. MaxDrops
    BY <1>1, <1>3, MaxDropsAssumption DEF ReceiveClose, Drop, LaneTypes
  <2>2. /\ link' = "down" /\ up' = <<>> /\ wire' = <<>> /\ TornDown
        /\ UNCHANGED <<version, pending, lines, ending, loop>>
        /\ UNCHANGED bridgeVars /\ UNCHANGED laneVars /\ UNCHANGED appVars /\ UNCHANGED viewVars
    BY <2>1 DEF Disconnected
  <2>3. SessionTypes' /\ BridgeTypes' /\ QueueTypes'
    BY <1>1, <1>2, <2>2 DEF SessionTypes, BridgeTypes, QueueTypes, bridgeVars, TornDown
  <2>6. <<>> \in Seq(Nat) /\ <<>> \in Seq(ServerFrames)
    OBVIOUS
  <2>7. conn' = "closed" /\ sender' = "control" /\ round' = FALSE /\ wake' = FALSE
    BY <2>2 DEF TornDown
  <2>4. ConnTypes'
    BY <1>1, <2>2, <2>6, <2>7 DEF ConnTypes
  <2>5. LaneTypes' /\ ViewTypes'
    BY <1>1, <2>1, <2>2 DEF LaneTypes, ViewTypes, laneVars, appVars, viewVars
  <2>. QED BY <2>3, <2>4, <2>5, TypePartsNext
<1>4. CASE Reconnect
  <2>1. /\ link' = "bound" /\ Accepted /\ sent' = 0 /\ table' = {} /\ subId' = 0
        /\ UNCHANGED <<drops, lane, lastSeq, version, pending, lines, ending, loop, up, wire>>
        /\ UNCHANGED bridgeVars /\ UNCHANGED appVars /\ UNCHANGED viewVars
    BY <1>4 DEF Reconnect
  <2>2. SessionTypes' /\ BridgeTypes' /\ QueueTypes'
    BY <1>1, <1>2, <2>1 DEF SessionTypes, BridgeTypes, QueueTypes, bridgeVars, Accepted
  <2>3. ConnTypes'
    BY <1>1, <2>1 DEF ConnTypes, Accepted
  <2>4. LaneTypes' /\ ViewTypes'
    BY <1>1, <2>1 DEF LaneTypes, ViewTypes, appVars, viewVars
  <2>. QED BY <2>2, <2>3, <2>4, TypePartsNext
<1>5. CASE Resubscribe
  <2>1. /\ link' = "up"
        /\ UNCHANGED <<drops, lastSeq, version, pending, lines, ending, conn, loop, wire>>
        /\ UNCHANGED bridgeVars /\ UNCHANGED queueVars /\ UNCHANGED senderVars
        /\ UNCHANGED appVars /\ UNCHANGED viewVars
    BY <1>5 DEF Resubscribe
  <2>2. /\ sent' \in Nat /\ table' \subseteq 1 .. sent' /\ subId' \in 0 .. sent' /\ up' \in Seq(Nat)
        /\ lane' \in {"IDLE", "STREAMING"} \cup Waiting
    <3>1. CASE lane = "IDLE"
      BY <1>1, <1>5, <3>1 DEF Resubscribe, LaneTypes, ConnTypes
    <3>2. CASE lane # "IDLE"
      <4>1. lane' = "HEALING" /\ SubscribeSession
        BY <1>5, <3>2 DEF Resubscribe
      <4>. QED BY <4>1, SubscribeTypes DEF Waiting
    <3>. QED BY <3>1, <3>2
  <2>3. SessionTypes' /\ BridgeTypes' /\ QueueTypes'
    BY <1>1, <2>1 DEF SessionTypes, BridgeTypes, QueueTypes, bridgeVars, queueVars
  <2>4. ConnTypes'
    BY <1>1, <2>1, <2>2 DEF ConnTypes, senderVars
  <2>5. LaneTypes' /\ ViewTypes'
    BY <1>1, <2>1, <2>2 DEF LaneTypes, ViewTypes, appVars, viewVars
  <2>. QED BY <2>3, <2>4, <2>5, TypePartsNext
<1>. QED BY <1>3, <1>4, <1>5

\* Every step keeps the types.
LEMMA TypeHolds ==
    ASSUME TypeOK, InboxInv, [Next]_vars PROVE TypeOK'
<1>1. CASE UNCHANGED vars
  BY <1>1 DEF vars, TypeOK, ServerTypeOK
<1>. QED BY <1>1, SessionStepTypes, ServerStepTypes, AppStepTypes, ReceiveTypes, LinkStepTypes
     DEF Next, Receiver, Finished

---------------------------------------------------------------------------
(* What steps leave alone. *)

LEMMA SessionFacts ==
    ASSUME WriteStatus \/ PublishStatus \/ LogLine \/ EndSession, UNCHANGED clientVars
    PROVE  /\ UNCHANGED <<attached, seq, conn, joined, queue, control, loop, up, wire>>
           /\ UNCHANGED <<link, lane, lastSeq, table, app, overlay, view, told, base>>
BY DEF WriteStatus, PublishStatus, LogLine, EndSession, queueVars, clientVars

LEMMA ServerFacts ==
    ASSUME Server, UNCHANGED clientVars
    PROVE  /\ UNCHANGED <<version, pending, ending>>
           /\ UNCHANGED <<link, lane, lastSeq, table, app, overlay, view, told, base>>
BY DEF Server, Handlers, Sender, Drain, HandleSubscribe, Attach, Snapshot, SendControl, SendSession,
   CloseTooSlow, SenderWaits, SenderWakes, sessionVars, clientVars

LEMMA AppFacts ==
    ASSUME App
    PROVE  /\ UNCHANGED <<version, pending, ending, attached, inbox, seq, conn, joined, queue, control, loop, wire>>
           /\ UNCHANGED <<link, lastSeq, told>> /\ app' # "start"
BY DEF App, EnsureSubscribed, SendSubscribe, ReadSnapshot, ReadFails, ApplyOverlay, serverVars, bridgeVars,
   queueVars, linkVars, laneVars, viewVars

LEMMA LinkFacts ==
    ASSUME Receiver \/ Drop
    PROVE  UNCHANGED <<version, pending, ending, attached, inbox, seq, loop, app, overlay>>
BY DEF Receiver, Receive, ReceiveClose, Drop, Disconnected, Reconnect, Resubscribe, bridgeVars, appVars

---------------------------------------------------------------------------
(* The frames in flight. *)

LEMMA RangeFacts ==
    ASSUME NEW S, NEW s \in Seq(S)
    PROVE  /\ Range(s) \subseteq S
           /\ \A e \in S : Range(Append(s, e)) = Range(s) \cup {e}
           /\ s # <<>> => Head(s) \in Range(s) /\ Range(s) = {Head(s)} \cup Range(Tail(s))
<1>1. /\ Len(s) \in Nat /\ DOMAIN s = 1 .. Len(s) /\ \A i \in 1 .. Len(s) : s[i] \in S
  BY LenProperties, ElementOfSeq
<1>2. Range(s) = {s[i] : i \in 1 .. Len(s)}
  BY <1>1 DEF Range
<1>3. ASSUME NEW e \in S PROVE Range(Append(s, e)) = Range(s) \cup {e}
  <2>1. /\ DOMAIN Append(s, e) = 1 .. Len(s) + 1 /\ Append(s, e)[Len(s) + 1] = e
        /\ \A i \in 1 .. Len(s) : Append(s, e)[i] = s[i]
    BY <1>1, AppendProperties
  <2>2. \A i \in 1 .. Len(s) + 1 : i \in 1 .. Len(s) \/ i = Len(s) + 1
    BY <1>1
  <2>3. 1 .. Len(s) \subseteq 1 .. Len(s) + 1 /\ Len(s) + 1 \in 1 .. Len(s) + 1
    BY <1>1
  <2>4. Range(Append(s, e)) = {Append(s, e)[i] : i \in 1 .. Len(s) + 1}
    BY <2>1 DEF Range
  <2>. QED BY <1>2, <2>1, <2>2, <2>3, <2>4
<1>4. ASSUME s # <<>> PROVE Head(s) \in Range(s) /\ Range(s) = {Head(s)} \cup Range(Tail(s))
  <2>1. /\ Head(s) = s[1] /\ 1 \in 1 .. Len(s) /\ Len(Tail(s)) = Len(s) - 1 /\ Tail(s) \in Seq(S)
        /\ \A i \in 1 .. Len(s) - 1 : Tail(s)[i] = s[i + 1]
    BY <1>1, <1>4, HeadTailProperties, EmptySeq
  <2>2. DOMAIN Tail(s) = 1 .. Len(s) - 1
    BY <2>1, LenProperties
  <2>3. Range(Tail(s)) = {Tail(s)[i] : i \in 1 .. Len(s) - 1}
    BY <2>2 DEF Range
  <2>4. \A i \in 1 .. Len(s) - 1 : i + 1 \in 1 .. Len(s)
    BY <1>1
  <2>5. Range(Tail(s)) \subseteq Range(s)
    BY <1>2, <2>1, <2>3, <2>4
  <2>6. ASSUME NEW i \in 1 .. Len(s), i # 1 PROVE s[i] \in Range(Tail(s))
    <3>1. i - 1 \in 1 .. Len(s) - 1 /\ s[i] = s[(i - 1) + 1]
      BY <1>1, <2>6
    <3>2. PICK j \in 1 .. Len(s) - 1 : s[i] = s[j + 1]
      BY <3>1
    <3>. QED BY <2>1, <2>3, <3>2
  <2>7. Range(s) \subseteq {Head(s)} \cup Range(Tail(s))
    BY <1>2, <2>1, <2>6
  <2>. QED BY <1>2, <2>1, <2>5, <2>7
<1>. QED BY <1>1, <1>2, <1>3, <1>4

\* What a push leaves was there or is pushed, and the newest frame stays.
LEMMA PushRange ==
    ASSUME NEW S, NEW q, q.deque \in Seq(S), q.dropped \in Nat, NEW frames \in Seq(S)
    PROVE  /\ Range(Push(q, frames).deque) \subseteq Range(q.deque) \cup Range(frames)
           /\ frames # <<>> =>
                /\ Push(q, frames).deque # <<>>
                /\ Push(q, frames).deque[Len(Push(q, frames).deque)] = frames[Len(frames)]
<1>0. /\ Lost(q, frames) \in Nat /\ Push(q, frames).deque \in Seq(S)
      /\ Lost(q, frames) <= Len(q.deque) + Len(frames)
      /\ Len(Push(q, frames).deque) = Len(q.deque) + Len(frames) - Lost(q, frames)
      /\ q.deque \o frames # <<>> => Lost(q, frames) < Len(q.deque) + Len(frames)
      /\ \A j \in 1 .. Len(Push(q, frames).deque) :
            Push(q, frames).deque[j] = (q.deque \o frames)[j + Lost(q, frames)]
  <2>1. Push(q, frames) \in [deque : Seq(S), dropped : Nat]
    BY PushFacts
  <2>. QED BY ZenonT(30), <2>1, PushFacts
<1>1. PICK d \in Seq(S), r \in Seq(S), k \in Nat :
        /\ d = q.deque /\ r = Push(q, frames).deque
        /\ k <= Len(d) + Len(frames) /\ Len(r) = Len(d) + Len(frames) - k
        /\ d \o frames # <<>> => k < Len(d) + Len(frames)
        /\ \A j \in 1 .. Len(r) : r[j] = (d \o frames)[j + k]
  BY <1>0
<1>2. /\ Len(d) \in Nat /\ Len(frames) \in Nat /\ Len(r) \in Nat
      /\ d \o frames \in Seq(S) /\ Len(d \o frames) = Len(d) + Len(frames)
      /\ \A j \in 1 .. Len(d) + Len(frames) :
            (d \o frames)[j] = IF j <= Len(d) THEN d[j] ELSE frames[j - Len(d)]
  BY ConcatProperties, LenProperties
<1>3. Range(d) = {d[i] : i \in 1 .. Len(d)} /\ Range(frames) = {frames[i] : i \in 1 .. Len(frames)}
      /\ Range(r) = {r[i] : i \in 1 .. Len(r)}
  BY RangeEquality
<1>4. ASSUME NEW j \in 1 .. Len(r) PROVE r[j] \in Range(d) \cup Range(frames)
  <2>0. j \in Nat /\ 1 <= j /\ j <= Len(r) /\ Len(r) = Len(d) + Len(frames) - k
    BY <1>1, <1>2
  <2>1. j + k \in 1 .. Len(d) + Len(frames) /\ r[j] = (d \o frames)[j + k]
    <3>1. j + k \in 1 .. Len(d) + Len(frames)
      BY <1>2, <2>0
    <3>. QED BY <1>1, <3>1
  <2>2. CASE j + k <= Len(d)
    <3>1. j + k \in 1 .. Len(d) /\ r[j] = d[j + k]
      BY <1>2, <2>1, <2>2
    <3>. QED BY <1>3, <3>1
  <2>3. CASE ~(j + k <= Len(d))
    <3>1. (j + k) - Len(d) \in 1 .. Len(frames) /\ r[j] = frames[(j + k) - Len(d)]
      BY <1>2, <2>1, <2>3
    <3>. QED BY <1>3, <3>1
  <2>. QED BY <2>2, <2>3
<1>5. ASSUME frames # <<>> PROVE r # <<>> /\ r[Len(r)] = frames[Len(frames)]
  <2>1. Len(frames) > 0
    BY <1>2, <1>5, EmptySeq
  <2>2. d \o frames # <<>>
    BY <1>2, <2>1, EmptySeq
  <2>3. Len(r) > 0 /\ Len(r) \in 1 .. Len(r) /\ Len(r) + k = Len(d) + Len(frames)
        /\ Len(d) + Len(frames) \in 1 .. Len(d) + Len(frames)
        /\ ~(Len(d) + Len(frames) <= Len(d)) /\ Len(d) + Len(frames) - Len(d) = Len(frames)
    BY <1>1, <1>2, <2>1, <2>2
  <2>4. r[Len(r)] = (d \o frames)[Len(d) + Len(frames)]
    BY <1>1, <2>3
  <2>5. r # <<>>
    BY <2>3, EmptySeq
  <2>. QED BY <1>2, <2>3, <2>4, <2>5
<1>6. r = Push(q, frames).deque /\ d = q.deque
  BY <1>1
<1>7. Range(r) \subseteq Range(d) \cup Range(frames)
  BY <1>3, <1>4
<1>. QED BY <1>5, <1>6, <1>7

\* Only the bridge and a snapshot put frames on their way.
LEMMA FlightShrinks ==
    ASSUME TypeOK, [Next]_vars, ~Drain, ~Snapshot
    PROVE  InFlight' \subseteq InFlight
<1>1. /\ wire \in Seq(ServerFrames) /\ queue.deque \in Seq(Frames) /\ control.deque \in Seq(Replies)
      /\ queue \in [deque : Seq(Frames), dropped : Nat]
  BY DEF TypeOK, ServerTypeOK, ServerFrames, Frames
<1>2. SUFFICES \/ Range(wire') \cap Frames \subseteq Range(wire) /\ Range(queue'.deque) \subseteq Range(queue.deque)
               \/ Range(wire') \cup Range(queue'.deque) \subseteq Range(wire) \cup Range(queue.deque)
  BY DEF InFlight
<1>3. Range(EmptyQueue.deque) = {} /\ Range(<<>>) = {}
  BY DEF EmptyQueue, Range
<1>4. Close \notin Frames /\ \A e \in Replies : e \notin Frames
  BY DEF Close, Frames, LaneFrame, Snapshots, Replies
<1>5. CASE UNCHANGED <<wire, queue>>
  BY <1>5
<1>6. CASE SendSession
  <2>1. queue.deque # <<>> /\ wire' = Append(wire, Head(queue.deque)) /\ queue'.deque = Tail(queue.deque)
    BY <1>1, <1>6 DEF SendSession
  <2>2. PICK q \in Seq(Frames) : q = queue.deque
    BY <1>1
  <2>3. Head(q) \in Range(q) /\ Range(Tail(q)) \subseteq Range(q) /\ Range(q) \subseteq Frames
    BY <2>1, <2>2, RangeFacts
  <2>4. Head(q) \in ServerFrames
    BY <2>3 DEF ServerFrames, Frames
  <2>5. Range(Append(wire, Head(q))) = Range(wire) \cup {Head(q)}
    BY <1>1, <2>4, RangeFacts
  <2>. QED BY <2>1, <2>2, <2>3, <2>5
<1>7. ASSUME NEW e \in ServerFrames, e \notin Frames, wire' = Append(wire, e), UNCHANGED queue
      PROVE  Range(wire') \cap Frames \subseteq Range(wire) /\ Range(queue'.deque) \subseteq Range(queue.deque)
  BY <1>1, <1>7, RangeFacts
<1>8. CASE SendControl
  <2>1. wire' = Append(wire, Head(control.deque)) /\ control.deque # <<>> /\ UNCHANGED queue
    BY <1>8 DEF SendControl, AtControl
  <2>2. PICK q \in Seq(Replies) : q = control.deque
    BY <1>1
  <2>3. Head(q) \in Replies
    BY <2>1, <2>2, RangeFacts
  <2>. QED BY <1>4, <1>7, <2>1, <2>2, <2>3 DEF ServerFrames
<1>9. CASE CloseTooSlow \/ Attach
  <2>1. UNCHANGED queue /\ (wire' = Append(wire, Close) \/ UNCHANGED wire)
    BY <1>9 DEF CloseTooSlow, Attach
  <2>. QED BY <1>4, <1>5, <1>7, <2>1 DEF ServerFrames
<1>10. CASE Receive
  <2>1. wire # <<>> /\ wire' = Tail(wire) /\ UNCHANGED queue
    BY <1>10 DEF Receive, queueVars
  <2>. QED BY <1>1, <2>1, RangeFacts
<1>11. CASE ReceiveClose \/ Drop
  <2>1. wire' = <<>> /\ queue' = EmptyQueue
    BY <1>11 DEF ReceiveClose, Drop, Disconnected, TornDown
  <2>. QED BY <1>3, <2>1
<1>12. CASE Reconnect
  <2>1. wire' = wire /\ queue' = EmptyQueue
    BY <1>12 DEF Reconnect, Accepted
  <2>. QED BY <1>3, <2>1
<1>13. CASE UNCHANGED vars \/ Finished \/ HandleSubscribe \/ SenderWaits \/ SenderWakes \/ Resubscribe
  BY <1>5, <1>13 DEF vars, Finished, HandleSubscribe, SenderWaits, SenderWakes, Resubscribe, queueVars
<1>. QED BY <1>5, <1>6, <1>8, <1>9, <1>10, <1>11, <1>12, <1>13, SessionFacts, AppFacts
     DEF Next, Server, Handlers, Sender, Receiver

\* A drain sends what the bridge heard, if the connection has a queue.
LEMMA FlightDrains ==
    ASSUME TypeOK, Drain
    PROVE  \E D \in Seq(LaneFrame), off \in 0 .. 1 :
              /\ Drained(D, off) /\ seq' = seq + Len(D) /\ D # <<>>
              /\ queue' = IF joined THEN Push(queue, D) ELSE queue
              /\ InFlight' \subseteq InFlight \cup (IF joined THEN Range(D) ELSE {})
<1>1. /\ seq \in Nat /\ inbox \in [lines : Seq(1 .. MaxEvents), control : Seq(Event)]
      /\ queue \in [deque : Seq(Frames), dropped : Nat]
  BY DEF TypeOK, ServerTypeOK, Frames
<1>2. PICK D \in Seq(LaneFrame) : D = Stamped(EncodeTick(inbox), seq) /\ \E off \in 0 .. 1 : Drained(D, off)
  BY <1>1, DrainFacts
<1>3. seq' = seq + Len(D) /\ (queue' = IF joined THEN Push(queue, D) ELSE queue) /\ wire' = wire
  BY <1>2 DEF Drain
<1>4. Range(Push(queue, D).deque) \subseteq Range(queue.deque) \cup Range(D)
  <2>1. D \in Seq(Frames)
    BY SeqSubset DEF Frames
  <2>. QED BY <1>1, <2>1, PushRange
<1>5. InFlight' \subseteq InFlight \cup (IF joined THEN Range(D) ELSE {})
  BY <1>3, <1>4 DEF InFlight
<1>6. D # <<>>
  <2>1. PICK off \in 0 .. 1 : Drained(D, off)
    BY <1>2
  <2>2. inbox.lines # <<>> \/ inbox.control # <<>>
    BY <1>1 DEF Drain, EmptyInbox
  <2>3. inbox.control # <<>> => Len(inbox.control) > 0
    BY <1>1, EmptySeq, LenProperties
  <2>4. Len(inbox.control) \in Nat
    BY <1>1, LenProperties
  <2>5. Len(D) > 0
    BY <2>1, <2>2, <2>3, <2>4 DEF Drained
  <2>. QED BY <2>5, EmptySeq
<1>. QED BY <1>2, <1>3, <1>5, <1>6

\* A snapshot is the only frame of the queue it goes into.
LEMMA FlightSnapshot ==
    ASSUME TypeOK, Snapshot
    PROVE  \E s \in Snapshots :
              /\ s.seq = seq /\ s.tasks = StoreTasks /\ s.over = (ending # "no")
              /\ queue'.deque = <<s>> /\ InFlight' \subseteq InFlight \cup {s}
<1>1. PICK s : s = [type |-> "snapshot", seq |-> seq, tasks |-> StoreTasks, over |-> ending # "no"]
  OBVIOUS
<1>2. s \in Snapshots
  <2>1. StoreTasks \subseteq 0 .. MaxEvents /\ seq \in Nat /\ (ending # "no") \in BOOLEAN
    BY DEF TypeOK, ServerTypeOK, StoreTasks
  <2>. QED BY <1>1, <2>1 DEF Snapshots
<1>3. Push(EmptyQueue, <<s>>).deque = <<s>>
  <2>0. PICK q : q = EmptyQueue
    OBVIOUS
  <2>1. PICK w \in Seq(Frames) :
          /\ w = <<s>> /\ w # <<>> /\ Len(w) = 1 /\ w[1] = s
          /\ q.deque \in Seq(Frames) /\ q.dropped \in Nat /\ Len(q.deque) = 0
    <3>1. <<s>> \in Seq(Frames) /\ <<s>> # <<>> /\ Len(<<s>>) = 1 /\ <<s>>[1] = s
      BY <1>2 DEF Frames
    <3>2. EmptyQueue.deque \in Seq(Frames) /\ EmptyQueue.dropped \in Nat /\ Len(EmptyQueue.deque) = 0
      BY DEF EmptyQueue
    <3>. QED BY <2>0, <3>1, <3>2
  <2>2. Len(q.deque) + Len(w) <= QSize
    BY <2>1, CapacityAssumption
  <2>8. q.deque \in Seq(Frames) /\ q.dropped \in Nat /\ w # <<>>
    BY <2>1
  <2>3. Lost(q, w) = 0 /\ Push(q, w) \in [deque : Seq(Frames), dropped : Nat]
        /\ Len(Push(q, w).deque) = Len(q.deque) + Len(w) - Lost(q, w)
    BY <2>2, <2>8, PushFacts
  <2>4. Push(q, w).deque[Len(Push(q, w).deque)] = w[Len(w)]
    BY <2>8, PushRange
  <2>5. PICK r \in Seq(Frames) : r = Push(q, w).deque
    BY <2>3
  <2>6. Len(r) = 1 /\ r[1] = s
    BY <2>1, <2>3, <2>4, <2>5
  <2>7. r = w
    BY <2>1, <2>6, SeqEqual
  <2>. QED BY <2>0, <2>1, <2>5, <2>7
<1>4. queue'.deque = <<s>> /\ wire' = wire
  BY <1>1, <1>3 DEF Snapshot
<1>5. Range(<<s>>) = {s}
  BY DEF Range
<1>. QED BY <1>1, <1>2, <1>4, <1>5 DEF InFlight

---------------------------------------------------------------------------
(* Who follows. *)

\* Frames that leave make no number known.
LEMMA BreakKept ==
    ASSUME NEW n, NEW top, Break(n, top), \A f \in InFlight' : IsPlain(f) => f \in InFlight
    PROVE  Break(n, top)'
BY DEF Break

SameStatuses ==
    \A c \in Nat : /\ StatusAt(c)' <=> StatusAt(c)
                   /\ StatusAt(c) => inbox'.control[c].v = inbox.control[c].v

\* Nothing is written and no frame goes on its way that is not a snapshot.
LEMMA FollowingKept ==
    ASSUME NEW n, NEW x, Following(n, x), Published' = Published, seq' = seq, SameStatuses,
           \A f \in InFlight' : IsSnapshot(f) \/ f \in InFlight
    PROVE  Following(n, x)'
<1>1. \A f \in InFlight' : IsPlain(f) \/ IsStatus(f) => f \in InFlight
  BY DEF IsSnapshot, IsPlain, IsStatus
<1>2. \A top : Break(n, top) => Break(n, top)'
  BY <1>1, BreakKept
<1>3. Caught(n, x)'
  BY <1>2 DEF Following, Caught, StatusHeard, SameStatuses
<1>4. Steady(n, x)'
  <2>1. ASSUME NEW f \in InFlight', IsStatus(f), n < f.seq PROVE f.v <= x + 1 \/ Break(n, f.seq)'
    BY <1>1, <1>2, <2>1 DEF Following, Steady
  <2>2. ASSUME NEW c \in Nat, StatusAt(c)'
        PROVE  \/ inbox'.control[c].v <= x + 1
               \/ \E b \in Nat : b < c /\ StatusAt(b)'
               \/ Break(n, seq + 1)'
    <3>1. /\ StatusAt(c) /\ inbox'.control[c].v = inbox.control[c].v
          /\ \A b \in Nat : StatusAt(b) => StatusAt(b)'
      BY <2>2 DEF SameStatuses
    <3>2. \/ inbox.control[c].v <= x + 1
          \/ \E b \in Nat : b < c /\ StatusAt(b)
          \/ Break(n, seq + 1)
      BY <3>1 DEF Following, Steady
    <3>. QED BY <1>2, <3>1, <3>2
  <2>. QED BY <2>1, <2>2 DEF Steady
<1>. QED BY <1>3, <1>4 DEF Following

\* The bridge hears a write.
LEMMA FollowingPublished ==
    ASSUME TypeOK, InboxInv, PublishStatus, attached, InFlight' \subseteq InFlight,
           NEW n, NEW x, Following(n, x)
    PROVE  Following(n, x)'
<1>1. /\ pending /\ version \in Nat /\ version' = version /\ pending' = FALSE /\ seq' = seq
      /\ version >= 1 /\ x \in Nat
  BY TypeFacts DEF PublishStatus, InboxInv, Following
<1>2. PICK C \in Seq(Event) : C = inbox.control /\ Len(C) \in Nat /\ DOMAIN C = 1 .. Len(C)
  BY TypeFacts, LenProperties
<1>3. inbox'.control = Append(C, [kind |-> "status", v |-> version])
  BY <1>2, TypeFacts DEF PublishStatus, Publish
<1>4. /\ DOMAIN inbox'.control = 1 .. Len(C) + 1
      /\ inbox'.control[Len(C) + 1] = [kind |-> "status", v |-> version]
      /\ \A c \in 1 .. Len(C) : inbox'.control[c] = C[c]
  <2>1. [kind |-> "status", v |-> version] \in Event
    BY <1>1, BoundsAssumption DEF Event, TypeOK, ServerTypeOK
  <2>2. PICK e \in Event : e = [kind |-> "status", v |-> version]
    BY <2>1
  <2>3. /\ DOMAIN Append(C, e) = 1 .. Len(C) + 1 /\ Append(C, e)[Len(C) + 1] = e
        /\ \A c \in 1 .. Len(C) : Append(C, e)[c] = C[c]
    BY <1>2, AppendProperties
  <2>. QED BY <1>3, <2>2, <2>3
<1>5. \A c \in Nat : StatusAt(c) => StatusAt(c)' /\ inbox'.control[c] = inbox.control[c]
  BY <1>2, <1>4 DEF StatusAt
<1>6. StatusAt(Len(C) + 1)'
  BY <1>2, <1>4 DEF StatusAt
<1>7. \A top : Break(n, top) => Break(n, top)'
  BY BreakKept
<1>8. Caught(n, x)'
  BY <1>2, <1>6 DEF Caught, StatusHeard
<1>9. Steady(n, x)'
  <2>1. ASSUME NEW f \in InFlight', IsStatus(f), n < f.seq PROVE f.v <= x + 1 \/ Break(n, f.seq)'
    BY <1>7, <2>1 DEF Following, Steady
  <2>2. ASSUME NEW c \in Nat, StatusAt(c)'
        PROVE  \/ inbox'.control[c].v <= x + 1
               \/ \E b \in Nat : b < c /\ StatusAt(b)'
               \/ Break(n, seq + 1)'
    <3>1. CASE c = Len(C) + 1
      <4>1. inbox'.control[c].v = version
        BY <1>4, <3>1
      <4>2. CASE Published <= x
        BY <1>1, <4>1, <4>2 DEF Published
      <4>3. CASE StatusHeard
        <5>1. PICK b \in Nat : StatusAt(b)
          BY <4>3 DEF StatusHeard
        <5>2. b < c
          BY <1>2, <3>1, <5>1 DEF StatusAt
        <5>. QED BY <1>5, <5>1, <5>2
      <4>. QED BY <1>1, <1>7, <4>2, <4>3 DEF Following, Caught
    <3>2. CASE c # Len(C) + 1
      <4>1. StatusAt(c) /\ inbox'.control[c] = inbox.control[c]
        BY <1>2, <1>4, <2>2, <3>2 DEF StatusAt
      <4>2. \/ inbox.control[c].v <= x + 1
            \/ \E b \in Nat : b < c /\ StatusAt(b)
            \/ Break(n, seq + 1)
        BY <4>1 DEF Following, Steady
      <4>. QED BY <1>1, <1>5, <1>7, <4>1, <4>2
    <3>. QED BY <3>1, <3>2
  <2>. QED BY <1>1, <2>1, <2>2 DEF Steady
<1>. QED BY <1>1, <1>8, <1>9 DEF Following

\* A drain takes the new numbers: each is on a frame that says what the bridge
\* heard, or on none.
LEMMA BreakDrained ==
    ASSUME seq \in Nat, NEW D \in Seq(LaneFrame), NEW off, Drained(D, off),
           InFlight' \subseteq InFlight \cup Range(D), \A f \in InFlight : f.seq <= seq
    PROVE  /\ \A n : \A top \in Nat : top <= seq + 1 /\ Break(n, top) => Break(n, top)'
           /\ \A k \in 1 .. Len(D) : IsStatus(D[k]) =>
                 \A n, top \in Int : n < seq + k /\ seq + k < top => Break(n, top)'
<1>1. /\ Len(D) \in Nat /\ \A k \in 1 .. Len(D) : D[k].seq = seq + k
      /\ \A f \in Range(D) : \E k \in 1 .. Len(D) : f = D[k]
  BY LenProperties, RangeEquality DEF Drained
<1>2. ASSUME NEW n, NEW top \in Nat, top <= seq + 1, Break(n, top) PROVE Break(n, top)'
  <2>1. PICK m \in Nat : /\ n < m /\ m < top
                         /\ \A f \in InFlight : IsPlain(f) => f.seq # m
    BY <1>2 DEF Break
  <2>2. ASSUME NEW f \in InFlight', IsPlain(f) PROVE f.seq # m
    <3>1. CASE f \in InFlight
      BY <2>1, <2>2, <3>1
    <3>2. CASE f \in Range(D)
      <4>1. PICK k \in 1 .. Len(D) : f.seq = seq + k
        BY <1>1, <3>2
      <4>. QED BY <1>1, <1>2, <2>1, <4>1
    <3>. QED BY <3>1, <3>2
  <2>. QED BY <2>1, <2>2 DEF Break
<1>3. ASSUME NEW k \in 1 .. Len(D), IsStatus(D[k]), NEW n \in Int, NEW top \in Int,
             n < seq + k, seq + k < top
      PROVE  Break(n, top)'
  <2>1. PICK m \in Nat : m = seq + k
    BY <1>1
  <2>2. ASSUME NEW f \in InFlight', IsPlain(f) PROVE f.seq # m
    <3>1. CASE f \in InFlight
      <4>1. f.seq <= seq /\ f.seq \in Nat
        BY <3>1, FrameFacts DEF InFlight
      <4>. QED BY <1>1, <2>1, <4>1
    <3>2. CASE f \in Range(D)
      <4>1. PICK l \in 1 .. Len(D) : f = D[l]
        BY <1>1, <3>2
      <4>2. l # k
        BY <1>3, <2>2, <4>1 DEF IsStatus, IsPlain
      <4>. QED BY <1>1, <2>1, <4>1, <4>2
    <3>. QED BY <3>1, <3>2
  <2>. QED BY <1>3, <2>1, <2>2 DEF Break
<1>. QED BY <1>2, <1>3

\* What is drained is heard in the frames, or their numbers are missing.
LEMMA FollowingDrained ==
    ASSUME seq \in Nat, NEW D \in Seq(LaneFrame), NEW off \in 0 .. 1, Drained(D, off),
           InFlight' \subseteq InFlight \cup Range(D), \A f \in InFlight : f.seq <= seq,
           inbox.control \in Seq(Event), seq' = seq + Len(D), inbox' = EmptyInbox,
           Published' = Published, NEW n, NEW x, Following(n, x)
    PROVE  Following(n, x)'
<1>1. n \in Nat /\ n <= seq /\ x \in Nat /\ Len(D) \in Nat /\ seq' \in Nat
  BY LenProperties DEF Following
<1>2. \A c \in Nat : ~StatusAt(c)'
  BY DEF StatusAt, EmptyInbox
<1>3. \A top \in Nat : top <= seq + 1 /\ Break(n, top) => Break(n, top)'
  BY BreakDrained
<1>4. \A k \in 1 .. Len(D), top \in Int : IsStatus(D[k]) /\ seq + k < top => Break(n, top)'
  BY <1>1, BreakDrained
<1>5. ASSUME NEW c \in Nat, StatusAt(c)
      PROVE  \E k \in 1 .. Len(D) : k = off + c /\ IsStatus(D[k])
  <2>1. c \in 1 .. Len(inbox.control) /\ Len(inbox.control) \in Nat
    BY <1>5, LenProperties DEF StatusAt
  <2>2. off + c \in 1 .. Len(D) /\ off < off + c /\ (off + c) - off = c
    BY <1>1, <2>1 DEF Drained
  <2>. QED BY <1>5, <2>2 DEF Drained
<1>6. ASSUME NEW t \in Nat, t <= seq', Break(n, t + 1)' PROVE Break(n, seq + 1)'
  <2>1. t + 1 <= seq' + 1
    BY <1>1, <1>6
  <2>. QED BY <1>1, <1>6, <2>1 DEF Break
<1>7. Caught(n, x)'
  <2>1. CASE StatusHeard
    <3>1. PICK c \in Nat : StatusAt(c)
      BY <2>1 DEF StatusHeard
    <3>2. PICK k \in 1 .. Len(D) : IsStatus(D[k])
      BY <1>5, <3>1
    <3>3. seq + k < seq' + 1 /\ seq' + 1 \in Int
      BY <1>1
    <3>4. PICK top \in Int : top = seq' + 1
      BY <3>3
    <3>5. Break(n, top)'
      BY <1>4, <3>2, <3>3, <3>4
    <3>. QED BY <3>4, <3>5 DEF Caught, Break
  <2>2. CASE Break(n, seq + 1)
    <3>1. Break(n, seq + 1) => \E t \in Nat : t = seq /\ Break(n, t + 1)'
      <4>1. PICK top \in Nat : top = seq + 1
        OBVIOUS
      <4>2. Break(n, top)'
        BY <1>3, <2>2, <4>1
      <4>. QED BY <4>1, <4>2 DEF Break
    <3>2. PICK t \in Nat : t = seq /\ Break(n, t + 1)'
      BY <2>2, <3>1
    <3>3. t <= seq'
      BY <1>1, <3>2
    <3>. QED BY <1>6, <3>2, <3>3 DEF Caught
  <2>3. CASE Published <= x
    BY <2>3 DEF Caught
  <2>. QED BY <2>1, <2>2, <2>3 DEF Following, Caught
<1>8. Steady(n, x)'
  <2>1. ASSUME NEW f \in InFlight', IsStatus(f), n < f.seq PROVE f.v <= x + 1 \/ Break(n, f.seq)'
    <3>1. CASE f \in InFlight
      <4>1. f.v <= x + 1 \/ Break(n, f.seq)
        BY <2>1, <3>1 DEF Following, Steady
      <4>2. f.seq \in Nat /\ f.seq <= seq + 1
        <5>1. f.seq \in Nat /\ f.seq <= seq
          BY <3>1, FrameFacts DEF InFlight
        <5>. QED BY <5>1
      <4>. QED BY <1>3, <4>1, <4>2
    <3>2. CASE f \in Range(D)
      <4>1. PICK k \in 1 .. Len(D) : f = D[k]
        BY <3>2, RangeEquality
      <4>2. f.seq = seq + k /\ f.seq \in Int
        <5>1. \A l \in 1 .. Len(D) : D[l].seq = seq + l
          BY DEF Drained
        <5>2. f.seq = seq + k
          BY <4>1, <5>1
        <5>. QED BY <1>1, <5>2
      <4>3. /\ off < k /\ StatusAt(k - off) /\ f.v = inbox.control[k - off].v /\ k - off \in Nat
        <5>1. off < k
          <6>1. ~(D[k].type = "lines")
            BY <2>1, <4>1 DEF IsStatus
          <6>. QED BY <1>1, <6>1 DEF Drained
        <5>. QED BY <1>1, <2>1, <4>1, <5>1 DEF Drained
      <4>4. PICK c \in Nat : c = k - off /\ StatusAt(c)
        BY <4>3
      <4>5. \/ inbox.control[c].v <= x + 1
            \/ \E b \in Nat : b < c /\ StatusAt(b)
            \/ Break(n, seq + 1)
        BY <4>4 DEF Following, Steady
      <4>6. ASSUME NEW b \in Nat, b < c, StatusAt(b) PROVE Break(n, f.seq)'
        <5>1. PICK l \in 1 .. Len(D) : l = off + b /\ IsStatus(D[l])
          BY <1>5, <4>6
        <5>2. seq + l < f.seq
          BY <1>1, <4>2, <4>4, <4>6, <5>1
        <5>. QED BY <1>4, <4>2, <5>1, <5>2
      <4>7. ASSUME Break(n, seq + 1) PROVE Break(n, f.seq)'
        <5>1. PICK top \in Nat : top = seq + 1
          OBVIOUS
        <5>2. Break(n, top)' /\ top <= f.seq
          BY <1>1, <1>3, <4>2, <4>7, <5>1
        <5>. QED BY <4>2, <5>2 DEF Break
      <4>. QED BY <4>3, <4>4, <4>5, <4>6, <4>7
    <3>. QED BY <3>1, <3>2
  <2>. QED BY <1>2, <2>1 DEF Steady
<1>9. n <= seq'
  BY <1>1
<1>. QED BY <1>1, <1>7, <1>8, <1>9 DEF Following

\* Who shows a status of the tick follows.
LEMMA TickFollows ==
    ASSUME TypeOK, InboxInv, NEW D \in Seq(LaneFrame), NEW off \in 0 .. 1, Drained(D, off),
           InFlight' \subseteq InFlight \cup Range(D), \A f \in InFlight : f.seq <= seq,
           seq' = seq + Len(D), inbox' = EmptyInbox, Published' = Published,
           NEW k \in 1 .. Len(D), IsStatus(D[k])
    PROVE  D[k].v <= Published /\ Following(D[k].seq, D[k].v)'
<1>1. /\ seq \in Nat /\ inbox.control \in Seq(Event) /\ Len(inbox.control) \in Nat
      /\ Len(D) \in Nat /\ seq' \in Nat
  BY TypeFacts, LenProperties
<1>2. \A c \in Nat : ~StatusAt(c)'
  BY DEF StatusAt, EmptyInbox
<1>3. \A l \in 1 .. Len(D) : D[l].seq = seq + l /\ D[l] \in LaneFrame
  BY DEF Drained
<1>4. ASSUME NEW l \in 1 .. Len(D), IsStatus(D[l])
      PROVE  off < l /\ l - off \in Nat /\ StatusAt(l - off) /\ D[l].v = inbox.control[l - off].v
  <2>1. off < l
    <3>1. ~(D[l].type = "lines")
      BY <1>4 DEF IsStatus
    <3>. QED BY <1>1, <3>1 DEF Drained
  <2>. QED BY <1>1, <1>4, <2>1 DEF Drained
<1>5. ASSUME NEW c \in Nat, StatusAt(c)
      PROVE  \E l \in 1 .. Len(D) : l = off + c /\ IsStatus(D[l])
  <2>1. c \in 1 .. Len(inbox.control)
    BY <1>1, <1>5, LenProperties DEF StatusAt
  <2>2. off + c \in 1 .. Len(D) /\ off < off + c /\ (off + c) - off = c
    BY <1>1, <2>1 DEF Drained
  <2>. QED BY <1>5, <2>2 DEF Drained
<1>6. \A l \in 1 .. Len(D), n, top \in Int :
         IsStatus(D[l]) /\ n < seq + l /\ seq + l < top => Break(n, top)'
  BY <1>1, BreakDrained
<1>7. PICK c \in Nat, n \in Nat, x \in Nat :
        /\ c = k - off /\ n = D[k].seq /\ n = seq + k /\ x = D[k].v /\ x = inbox.control[c].v /\ StatusAt(c)
  <2>1. D[k] \in Frames /\ D[k].v \in Nat /\ seq + k \in Nat
    <3>1. D[k] \in Frames
      BY <1>3 DEF Frames
    <3>2. D[k].v \in 1 .. MaxEvents
      BY <3>1, FrameFacts
    <3>. QED BY <1>1, <3>1, <3>2, BoundsAssumption
  <2>. QED BY <1>3, <1>4, <2>1
<1>8. /\ x <= Published
      /\ (\E d \in Nat : c < d /\ StatusAt(d)) \/ x = Published
      /\ \A d \in Nat : c < d /\ StatusAt(d) =>
            \/ inbox.control[d].v <= x + 1
            \/ \E b \in Nat : c < b /\ b < d /\ StatusAt(b)
  BY <1>7 DEF InboxInv
<1>9. Caught(n, x)'
  <2>1. ASSUME NEW d \in Nat, c < d, StatusAt(d) PROVE Break(n, seq + 1)'
    <3>1. PICK l \in 1 .. Len(D) : l = off + d /\ IsStatus(D[l])
      BY <1>5, <2>1
    <3>2. PICK top \in Int : top = seq' + 1
      BY <1>1
    <3>3. n < seq + l /\ seq + l < top /\ n \in Int
      BY <1>1, <1>7, <2>1, <3>1, <3>2
    <3>4. Break(n, top)'
      BY <1>6, <3>1, <3>3
    <3>. QED BY <3>2, <3>4 DEF Break
  <2>2. x = Published => Published' <= x
    BY <1>7
  <2>. QED BY <1>8, <2>1, <2>2 DEF Caught
<1>10. Steady(n, x)'
  <2>1. ASSUME NEW f \in InFlight', IsStatus(f), n < f.seq PROVE f.v <= x + 1 \/ Break(n, f.seq)'
    <3>1. f \notin InFlight
      <4>1. f \in InFlight => f.seq \in Nat /\ f.seq <= seq
        BY FrameFacts DEF InFlight
      <4>. QED BY <1>1, <1>7, <2>1, <4>1
    <3>2. PICK l \in 1 .. Len(D) : f = D[l]
      BY <3>1, RangeEquality
    <3>3. f.seq = seq + l
      BY <1>3, <3>2
    <3>4. PICK d \in Nat : d = l - off /\ StatusAt(d) /\ f.v = inbox.control[d].v
      BY <1>4, <2>1, <3>2
    <3>5. c < d
      BY <1>1, <1>7, <2>1, <3>3, <3>4
    <3>6. ASSUME NEW b \in Nat, c < b, b < d, StatusAt(b) PROVE Break(n, f.seq)'
      <4>1. PICK j \in 1 .. Len(D) : j = off + b /\ IsStatus(D[j])
        BY <1>5, <3>6
      <4>2. PICK top \in Int : top = f.seq
        BY <1>1, <3>3
      <4>3. n < seq + j /\ seq + j < top /\ n \in Int
        BY <1>1, <1>7, <3>3, <3>4, <3>6, <4>1, <4>2
      <4>. QED BY <1>6, <4>1, <4>2, <4>3
    <3>. QED BY <1>8, <3>4, <3>5, <3>6
  <2>. QED BY <1>2, <2>1 DEF Steady
<1>11. n <= seq' /\ D[k].v <= Published
  BY <1>1, <1>7, <1>8
<1>12. Following(n, x)'
  BY <1>7, <1>9, <1>10, <1>11 DEF Following
<1>. QED BY <1>7, <1>11, <1>12

\* Who shows what the store holds follows.
LEMMA StoreFollows ==
    ASSUME TypeOK, InboxInv, FlightInv, NEW n \in Nat, n <= seq
    PROVE  Following(n, version)
<1>1. version \in Nat /\ pending \in BOOLEAN /\ seq \in Nat /\ Published <= version /\ Published \in Int
  BY TypeFacts DEF Published, InboxInv
<1>2. ASSUME NEW f \in InFlight, IsStatus(f) PROVE f.v <= version + 1
  <2>1. f.v \in Nat /\ f.v \in Values(f)
    BY <1>2, FrameFacts DEF InFlight
  <2>2. f.v <= version
    BY <2>1 DEF FlightInv
  <2>. QED BY <1>1, <2>1, <2>2
<1>3. ASSUME NEW c \in Nat, StatusAt(c) PROVE inbox.control[c].v <= version + 1
  <2>1. inbox.control[c].v <= Published
    BY <1>3 DEF InboxInv
  <2>2. inbox.control[c].v \in Nat
    <3>1. inbox.control[c] \in Event
      BY <1>3, TypeFacts, LenProperties, ElementOfSeq DEF StatusAt
    <3>. QED BY <1>3, <3>1, BoundsAssumption DEF Event, StatusAt
  <2>. QED BY <1>1, <2>1, <2>2
<1>. QED BY <1>1, <1>2, <1>3 DEF Following, Caught, Steady

\* So does who shows something newer.
LEMMA FollowingNewer ==
    ASSUME TypeOK, NEW n, NEW x, NEW y \in Nat, Following(n, x), x <= y
    PROVE  Following(n, y)
<1>1. x \in Nat /\ version \in Nat /\ Published \in Int
  BY TypeFacts DEF Following, Published
<1>2. Caught(n, y)
  BY <1>1 DEF Following, Caught
<1>3. \A f \in InFlight : IsStatus(f) /\ f.v <= x + 1 => f.v <= y + 1
  <2>1. \A f \in InFlight : IsStatus(f) => f.v \in Nat
    BY FrameFacts DEF InFlight
  <2>. QED BY <1>1, <2>1
<1>4. \A c \in Nat : StatusAt(c) /\ inbox.control[c].v <= x + 1 => inbox.control[c].v <= y + 1
  <2>1. \A c \in Nat : StatusAt(c) => inbox.control[c] \in Event
    BY TypeFacts, LenProperties, ElementOfSeq DEF StatusAt
  <2>2. \A c \in Nat : StatusAt(c) => inbox.control[c].v \in Nat
    BY <2>1, BoundsAssumption DEF Event, StatusAt
  <2>. QED BY <1>1, <2>2
<1>. QED BY <1>2, <1>3, <1>4 DEF Following, Steady

\* Who takes a frame without a status that is the next goes on to follow.
LEMMA FollowingPasses ==
    ASSUME TypeOK, NEW n, NEW x, Following(n, x),
           NEW f \in InFlight, IsPlain(f), f.seq = n + 1, f.seq <= seq
    PROVE  Following(f.seq, x)
<1>1. n \in Nat /\ n <= seq /\ x \in Nat /\ seq \in Nat
  BY TypeFacts DEF Following
<1>2. \A top : Break(n, top) => Break(f.seq, top)
  BY <1>1 DEF Break
<1>3. \A g \in InFlight : IsStatus(g) /\ f.seq < g.seq => n < g.seq
  <2>1. \A g \in InFlight : g.seq \in Nat
    BY FrameFacts DEF InFlight
  <2>. QED BY <1>1, <2>1
<1>4. Caught(f.seq, x)
  BY <1>2 DEF Following, Caught
<1>5. Steady(f.seq, x)
  BY <1>2, <1>3 DEF Following, Steady
<1>. QED BY <1>1, <1>4, <1>5 DEF Following

---------------------------------------------------------------------------
(* Steps keep whoever follows. *)

FollowingStays == \A n, x : Following(n, x) => Following(n, x)'

\* A bridge that exists, or a session that is over.
Bridged == attached \/ ending = "closed"

LEMMA NothingWritten ==
    ASSUME [Next]_vars, ~PublishStatus, ~WriteStatus
    PROVE  UNCHANGED <<version, pending>>
BY ServerFacts, AppFacts, LinkFacts
   DEF Next, vars, Finished, LogLine, EndSession, Server

LEMMA PublishedKept ==
    ASSUME TypeOK, [Next]_vars, ~PublishStatus
    PROVE  Published' = Published
<1>1. version \in Nat
  BY TypeFacts
<1>2. CASE WriteStatus
  BY <1>1, <1>2 DEF WriteStatus, Published
<1>. QED BY <1>2, NothingWritten DEF Published

\* What the bridge heard and its numbers change with what it hears alone.
LEMMA InboxSteps ==
    ASSUME TypeOK, Bridged, [Next]_vars, ~PublishStatus, ~Drain
    PROVE  SameStatuses /\ seq' = seq
<1>1. CASE UNCHANGED <<inbox, seq>>
  BY <1>1 DEF SameStatuses, StatusAt
<1>2. CASE LogLine
  BY <1>2, TypeFacts DEF LogLine, SameStatuses, StatusAt
<1>3. CASE EndSession
  <2>1. seq' = seq /\ (UNCHANGED inbox \/ Publish([kind |-> "ended"]))
    BY <1>3 DEF EndSession, MarkEnded, ReleaseStore, PublishEnd
  <2>2. CASE ~UNCHANGED inbox
    <3>1. PICK e \in Event : e = [kind |-> "ended"] /\ e.kind # "status"
      <4>1. [kind |-> "ended"] \in Event /\ [kind |-> "ended"].kind # "status"
        BY DEF Event
      <4>. QED BY <4>1
    <3>2. PICK C \in Seq(Event) : C = inbox.control /\ Len(C) \in Nat /\ DOMAIN C = 1 .. Len(C)
      BY TypeFacts, LenProperties
    <3>3. inbox'.control = Append(C, e)
      BY <2>1, <2>2, <3>1, <3>2, TypeFacts DEF Publish
    <3>4. /\ DOMAIN Append(C, e) = 1 .. Len(C) + 1 /\ Append(C, e)[Len(C) + 1] = e
          /\ \A c \in 1 .. Len(C) : Append(C, e)[c] = C[c]
      BY <3>2, AppendProperties
    <3>. QED BY <2>1, <3>1, <3>2, <3>3, <3>4 DEF SameStatuses, StatusAt
  <2>. QED BY <1>1, <2>1, <2>2
<1>4. CASE Attach
  <2>1. ~attached => ending \notin {"no", "ended"}
    BY DEF Bridged
  <2>. QED BY <1>1, <1>4, <2>1 DEF Attach, bridgeVars
<1>5. CASE WriteStatus \/ HandleSubscribe \/ Snapshot \/ Sender \/ UNCHANGED vars \/ Finished
  BY <1>1, <1>5 DEF WriteStatus, HandleSubscribe, Snapshot, Sender, SendControl, SendSession, CloseTooSlow,
     SenderWaits, SenderWakes, bridgeVars, vars, Finished
<1>. QED BY <1>1, <1>2, <1>3, <1>4, <1>5, AppFacts, LinkFacts DEF Next, Server, Handlers

LEMMA FollowingHolds ==
    ASSUME TypeOK, InboxInv, FlightInv, EndInv, Bridged, [Next]_vars
    PROVE  FollowingStays /\ seq <= seq' /\ seq' \in Nat /\ version <= version' /\ version' \in Nat
<1>1. seq \in Nat /\ version \in Nat /\ \A f \in InFlight : f.seq <= seq
  BY TypeFacts DEF FlightInv
<1>2. version <= version' /\ version' \in Nat
  <2>1. CASE WriteStatus
    BY <1>1, <2>1 DEF WriteStatus
  <2>2. CASE ~WriteStatus
    <3>1. version' = version
      BY <2>2, NothingWritten DEF PublishStatus
    <3>. QED BY <1>1, <3>1
  <2>. QED BY <2>1, <2>2
<1>3. CASE PublishStatus
  <2>1. attached /\ seq' = seq
    BY <1>3 DEF PublishStatus, EndInv, Bridged
  <2>2. InFlight' \subseteq InFlight
    BY <1>3 DEF PublishStatus, queueVars, InFlight
  <2>3. FollowingStays
    BY <1>3, <2>1, <2>2, FollowingPublished DEF FollowingStays
  <2>. QED BY <1>1, <1>2, <2>1, <2>3
<1>4. CASE Drain
  <2>1. PICK D \in Seq(LaneFrame), off \in 0 .. 1 :
           /\ Drained(D, off) /\ seq' = seq + Len(D)
           /\ InFlight' \subseteq InFlight \cup Range(D)
    BY <1>4, FlightDrains
  <2>2. inbox' = EmptyInbox /\ Published' = Published /\ inbox.control \in Seq(Event)
    BY <1>4, TypeFacts DEF Drain, sessionVars, Published
  <2>3. FollowingStays
    <3>. SUFFICES ASSUME NEW n, NEW x, Following(n, x) PROVE Following(n, x)'
      BY DEF FollowingStays
    <3>. QED BY <1>1, <2>1, <2>2, FollowingDrained
  <2>4. Len(D) \in Nat
    BY LenProperties
  <2>. QED BY <1>1, <1>2, <2>1, <2>3, <2>4
<1>5. CASE ~PublishStatus /\ ~Drain
  <2>1. SameStatuses /\ seq' = seq /\ Published' = Published
    BY <1>5, InboxSteps, PublishedKept
  <2>2. \A f \in InFlight' : IsSnapshot(f) \/ f \in InFlight
    <3>1. CASE Snapshot
      <4>1. PICK s \in Snapshots : InFlight' \subseteq InFlight \cup {s}
        BY <3>1, FlightSnapshot
      <4>. QED BY <4>1 DEF Snapshots, IsSnapshot
    <3>. QED BY <1>5, <3>1, FlightShrinks
  <2>3. FollowingStays
    <3>. SUFFICES ASSUME NEW n, NEW x, Following(n, x) PROVE Following(n, x)'
      BY DEF FollowingStays
    <3>. QED BY <2>1, <2>2, FollowingKept
  <2>. QED BY <1>1, <1>2, <2>1, <2>3
<1>. QED BY <1>3, <1>4, <1>5

\* Before the bridge exists no step sends a frame or makes the lane stream.
LEMMA NothingNew ==
    ASSUME TypeOK, NewInv, ~Bridged, [Next]_vars
    PROVE  InFlight' = {} /\ lane' # "STREAMING"
<1>1. ~joined /\ lane # "STREAMING" /\ loop.at # "snapshot" /\ InFlight = {} /\ ~attached
  BY DEF NewInv, Bridged
<1>2. InFlight' = {}
  <2>1. ~Drain /\ ~Snapshot
    BY <1>1 DEF Drain, Snapshot
  <2>. QED BY <1>1, <2>1, FlightShrinks
<1>3. ASSUME Receive PROVE lane' # "STREAMING"
  <2>1. wire \in Seq(ServerFrames) /\ wire # <<>> /\ Head(wire) # Close /\ Route(Head(wire))
    BY <1>3 DEF Receive, TypeOK, ServerTypeOK, ServerFrames, Frames
  <2>2. PICK f \in ServerFrames : f = Head(wire) /\ f # Close /\ Route(f) /\ f \in Range(wire)
    BY <2>1, RangeFacts
  <2>3. f \notin Frames
    BY <1>1, <2>2 DEF InFlight
  <2>4. f.type = "error"
    BY <2>2, <2>3, RoutedFacts DEF Frames
  <2>5. OnError(f)
    BY <2>2, <2>4 DEF Route
  <2>. QED BY <1>1, <2>5 DEF OnError
<1>4. ASSUME ~Receive PROVE lane' # "STREAMING"
  <2>1. CASE App
    BY <1>1, <2>1 DEF App, EnsureSubscribed, SendSubscribe, ReadSnapshot, ReadFails, ApplyOverlay, laneVars
  <2>2. CASE ReceiveClose \/ Drop \/ Reconnect \/ Resubscribe
    BY <1>1, <2>2 DEF ReceiveClose, Drop, Disconnected, Reconnect, Resubscribe, laneVars
  <2>3. CASE lane' = lane
    BY <1>1, <2>3
  <2>. QED BY <1>4, <2>1, <2>2, <2>3, SessionFacts, ServerFacts DEF Next, vars, Finished, Receiver
<1>. QED BY <1>2, <1>3, <1>4

---------------------------------------------------------------------------
(* The frames on their way. *)

LEMMA FlightHolds ==
    ASSUME TypeOK, InboxInv, FlightInv, EndInv, NewInv, [Next]_vars PROVE FlightInv'
<1>1. CASE ~Bridged
  BY <1>1, NothingNew DEF FlightInv
<1>2. CASE Bridged
  <2>1. /\ FollowingStays /\ seq \in Nat /\ seq' \in Nat /\ seq <= seq'
        /\ version \in Nat /\ version' \in Nat /\ version <= version'
    BY <1>2, FollowingHolds, TypeFacts
  <2>2. ASSUME NEW f \in InFlight
        PROVE  f.seq <= seq' /\ \A x \in Values(f) : x <= version' /\ Following(f.seq, x)'
    <3>1. f.seq \in Nat /\ f.seq <= seq /\ \A x \in Values(f) : x \in Nat
      BY FrameFacts DEF FlightInv, InFlight
    <3>2. ASSUME NEW x \in Values(f) PROVE x <= version' /\ Following(f.seq, x)'
      <4>1. x \in Nat /\ x <= version /\ Following(f.seq, x)
        BY <3>1 DEF FlightInv
      <4>2. Following(f.seq, x)'
        BY <2>1, <4>1 DEF FollowingStays
      <4>. QED BY <2>1, <4>1, <4>2
    <3>. QED BY <2>1, <3>1, <3>2
  <2>3. CASE Drain
    <3>1. PICK D \in Seq(LaneFrame), off \in 0 .. 1 :
             /\ Drained(D, off) /\ seq' = seq + Len(D)
             /\ InFlight' \subseteq InFlight \cup Range(D)
      BY <2>3, FlightDrains
    <3>2. /\ inbox' = EmptyInbox /\ Published' = Published /\ version' = version
          /\ Published <= version /\ Published \in Int /\ Len(D) \in Nat
      BY <2>1, <2>3, TypeFacts, LenProperties DEF Drain, sessionVars, Published
    <3>3. ASSUME NEW f \in Range(D)
          PROVE  f.seq <= seq' /\ \A x \in Values(f) : x <= version' /\ Following(f.seq, x)'
      <4>1. PICK k \in 1 .. Len(D) : f = D[k]
        BY RangeEquality
      <4>2. f \in LaneFrame /\ f.seq = seq + k /\ f \in Frames /\ ~IsSnapshot(f)
        <5>1. f \in LaneFrame /\ f.seq = seq + k
          BY <3>1, <4>1 DEF Drained
        <5>. QED BY <5>1 DEF Frames, LaneFrame, IsSnapshot
      <4>3. f.seq <= seq'
        BY <2>1, <3>1, <3>2, <4>2
      <4>4. CASE IsStatus(f)
        <5>1. \A g \in InFlight : g.seq <= seq
          BY DEF FlightInv
        <5>2. D[k].v <= Published /\ Following(D[k].seq, D[k].v)'
          BY <3>1, <3>2, <4>1, <4>4, <5>1, TickFollows
        <5>3. Values(f) = {f.v} /\ f.v \in Nat
          <6>1. f.v \in 1 .. MaxEvents
            BY <4>2, <4>4, FrameFacts
          <6>. QED BY <4>4, <6>1, BoundsAssumption DEF Values
        <5>. QED BY <2>1, <3>2, <4>1, <4>3, <5>2, <5>3
      <4>5. CASE ~IsStatus(f)
        BY <4>2, <4>3, <4>5 DEF Values
      <4>. QED BY <4>4, <4>5
    <3>. QED BY <2>2, <3>1, <3>3 DEF FlightInv
  <2>4. CASE Snapshot
    <3>1. PICK s \in Snapshots : /\ s.seq = seq /\ s.tasks = StoreTasks
                                 /\ InFlight' \subseteq InFlight \cup {s}
      BY <2>4, FlightSnapshot
    <3>2. Values(s) \subseteq {version}
      BY <3>1 DEF Values, IsStatus, IsSnapshot, Snapshots, StoreTasks
    <3>3. Following(s.seq, version)
      BY <2>1, <3>1, StoreFollows
    <3>4. Following(s.seq, version)'
      <4>1. PICK x : x = version
        OBVIOUS
      <4>2. Following(s.seq, x)'
        BY <2>1, <3>3, <4>1 DEF FollowingStays
      <4>3. version' = version
        BY <2>4 DEF Snapshot, sessionVars
      <4>. QED BY <4>1, <4>2, <4>3
    <3>5. version' = version
      BY <2>4 DEF Snapshot, sessionVars
    <3>6. s.seq <= seq' /\ \A x \in Values(s) : x <= version' /\ Following(s.seq, x)'
      BY <2>1, <3>1, <3>2, <3>4, <3>5
    <3>. QED BY <2>2, <3>1, <3>6 DEF FlightInv
  <2>5. CASE ~Drain /\ ~Snapshot
    <3>1. InFlight' \subseteq InFlight
      BY <2>5, FlightShrinks
    <3>. QED BY <2>2, <3>1 DEF FlightInv
  <2>. QED BY <2>3, <2>4, <2>5
<1>. QED BY <1>1, <1>2

\* What the receiver does with the frame at the head of the socket.
LEMMA ReceiveFacts ==
    ASSUME TypeOK, Receive
    PROVE  \E f \in ServerFrames :
              /\ f = Head(wire) /\ f \in Range(wire) /\ wire' = Tail(wire)
              /\ f.type = "error" \/ f \in InFlight
              /\ \/ f.type = "snapshot" /\ f \in Snapshots /\ OnSnapshot(f)
                 \/ f.type = "error" /\ OnError(f)
                 \/ f \in LaneFrame /\ (IsStatus(f) \/ IsPlain(f)) /\ OnFrame(f)
<1>1. wire \in Seq(ServerFrames) /\ wire # <<>> /\ Head(wire) # Close /\ wire' = Tail(wire) /\ Route(Head(wire))
  BY DEF Receive, TypeOK, ServerTypeOK, ServerFrames, Frames
<1>2. PICK f \in ServerFrames : f = Head(wire) /\ f # Close /\ Route(f) /\ f \in Range(wire)
  BY <1>1, RangeFacts
<1>3. f.type = "error" \/ f \in InFlight
  BY <1>2, RoutedFacts DEF Frames, InFlight
<1>4. CASE f.type = "snapshot"
  <2>1. OnSnapshot(f) /\ f \in Snapshots
    BY <1>2, <1>4, RoutedFacts DEF Route
  <2>. QED BY <1>1, <1>2, <1>3, <1>4, <2>1
<1>5. CASE f.type = "error"
  <2>1. OnError(f)
    BY <1>2, <1>5 DEF Route
  <2>. QED BY <1>1, <1>2, <1>3, <1>5, <2>1
<1>6. CASE f.type \notin {"snapshot", "error"}
  <2>1. OnFrame(f) /\ f \in LaneFrame
    BY <1>2, <1>6, RoutedFacts DEF Route
  <2>2. IsStatus(f) \/ IsPlain(f)
    BY <2>1 DEF LaneFrame, IsStatus, IsPlain
  <2>. QED BY <1>1, <1>2, <1>3, <2>1, <2>2
<1>. QED BY <1>4, <1>5, <1>6

---------------------------------------------------------------------------
(* The subscriber. *)

LEMMA VersionGrows ==
    ASSUME TypeOK, [Next]_vars PROVE version' \in Nat /\ version <= version'
<1>1. version \in Nat
  BY TypeFacts
<1>2. CASE WriteStatus
  BY <1>1, <1>2 DEF WriteStatus
<1>3. CASE PublishStatus
  BY <1>1, <1>3 DEF PublishStatus
<1>. QED BY <1>1, <1>2, <1>3, NothingWritten

\* A step that leaves the subscriber alone, or only moves its lane on.
LEMMA ViewKept ==
    ASSUME TypeOK, ViewInv, version' \in Nat, version <= version', UNCHANGED <<view, base, overlay, app>>,
           told => told', lane' = lane \/ lane' \notin {"IDLE", "SUBSCRIBING"} \/ told'
    PROVE  ViewInv'
<1>1. version \in Nat /\ view \in Nat /\ \A x \in overlay : x \in Nat
  BY TypeFacts
<1>. QED BY <1>1 DEF ViewInv

\* A lane that has a frame to take was subscribed, unless the end is known.
LEMMA ReceivingLane ==
    ASSUME StartInv, Receive PROVE app # "start" /\ (lane = "IDLE" => told)
BY DEF StartInv, Receive

LEMMA ReceiveView ==
    ASSUME TypeOK, FlightInv, StartInv, ViewInv, Receive PROVE ViewInv'
<1>1. version \in Nat /\ view \in Nat /\ \A x \in overlay : x \in Nat
  BY TypeFacts
<1>2. UNCHANGED <<version, overlay, app>>
  BY LinkFacts DEF Receiver
<1>3. PICK f \in ServerFrames :
         /\ f.type = "error" \/ f \in InFlight
         /\ \/ f.type = "snapshot" /\ f \in Snapshots /\ OnSnapshot(f)
            \/ f.type = "error" /\ OnError(f)
            \/ f \in LaneFrame /\ (IsStatus(f) \/ IsPlain(f)) /\ OnFrame(f)
  BY ReceiveFacts
<1>4. ASSUME f.type # "error" PROVE f \in Frames /\ \A x \in Values(f) : x \in Nat /\ x <= version
  BY <1>3, <1>4, FrameFacts DEF InFlight, FlightInv
<1>5. CASE f.type = "snapshot" /\ f \in Snapshots /\ OnSnapshot(f)
  <2>1. lane' = "STREAMING" /\ Values(f) = f.tasks
    BY <1>5 DEF OnSnapshot, Values, IsStatus, IsSnapshot
  <2>2. CASE lane = "HEALING"
    <3>1. (base' = "exact" /\ view' \in f.tasks) \/ base' = "released"
      BY <1>5, <2>2 DEF OnSnapshot
    <3>. QED BY <1>1, <1>2, <1>4, <1>5, <2>1, <3>1 DEF ViewInv
  <2>3. CASE lane # "HEALING"
    <3>1. view' = view /\ (base' = base \/ base' = "skipped")
      BY <1>5, <2>3 DEF OnSnapshot
    <3>. QED BY <1>1, <1>2, <2>1, <3>1 DEF ViewInv
  <2>. QED BY <2>2, <2>3
<1>6. CASE f.type = "error" /\ OnError(f)
  BY <1>1, <1>2, <1>6, ViewKept DEF OnError
<1>7. CASE f \in LaneFrame /\ (IsStatus(f) \/ IsPlain(f)) /\ OnFrame(f)
  <2>1. CASE UNCHANGED viewVars /\ (lane' = lane \/ lane' = "HEALING")
    BY <1>1, <1>2, <2>1, ViewKept DEF viewVars
  <2>2. CASE lane \notin Waiting /\ Dispatch(f) /\ lane' = lane
    <3>1. told => told'
      BY <2>2 DEF Dispatch
    <3>2. lane' \notin {"IDLE", "SUBSCRIBING"} \/ told'
      BY <2>2, <3>1, ReceivingLane DEF Waiting
    <3>3. CASE IsStatus(f)
      <4>1. view' = f.v /\ base' = "exact" /\ f.v \in Values(f) /\ f.type # "error"
        BY <2>2, <3>3 DEF Dispatch, IsStatus, Values
      <4>. QED BY <1>1, <1>2, <1>4, <3>2, <4>1 DEF ViewInv
    <3>4. CASE ~IsStatus(f)
      <4>1. view' = view /\ base' = base
        BY <2>2, <3>4 DEF Dispatch, IsStatus
      <4>. QED BY <1>1, <1>2, <3>1, <3>2, <4>1, ViewKept
    <3>. QED BY <3>3, <3>4
  <2>. QED BY <1>7, <2>1, <2>2 DEF OnFrame
<1>. QED BY <1>3, <1>5, <1>6, <1>7

LEMMA ViewHolds ==
    ASSUME TypeOK, FlightInv, StartInv, ViewInv, [Next]_vars PROVE ViewInv'
<1>1. version \in Nat /\ view \in Nat /\ \A x \in overlay : x \in Nat
  BY TypeFacts
<1>2. version' \in Nat /\ version <= version'
  BY VersionGrows
<1>3. CASE UNCHANGED <<lane, app, overlay, view, told, base>>
  BY <1>2, <1>3, ViewKept
<1>4. CASE ReceiveClose \/ Drop \/ Reconnect \/ Resubscribe
  <2>1. UNCHANGED <<view, base, overlay, app, told>> /\ (lane' = lane \/ lane' = "HEALING")
    BY <1>4 DEF ReceiveClose, Drop, Disconnected, Reconnect, Resubscribe, laneVars, viewVars, appVars
  <2>. QED BY <1>2, <2>1, ViewKept
<1>5. CASE App
  <2>1. version' = version /\ told' = told
    BY <1>5, AppFacts
  <2>2. CASE EnsureSubscribed
    <3>1. UNCHANGED <<view, base, overlay>> /\ app = "start" /\ lane = "IDLE"
      BY <2>2 DEF EnsureSubscribed, viewVars, StartInv
    <3>. QED BY <1>1, <2>1, <3>1 DEF ViewInv
  <2>3. CASE SendSubscribe \/ ReadFails
    <3>1. UNCHANGED <<view, base, overlay, lane>> /\ app \in {"subscribe", "read"} /\ app' \in {"read", "done"}
      BY <2>3 DEF SendSubscribe, ReadFails, viewVars, laneVars
    <3>. QED BY <1>1, <2>1, <3>1 DEF ViewInv
  <2>4. CASE ReadSnapshot
    <3>1. UNCHANGED <<view, base>> /\ app' = "apply" /\ overlay' \subseteq {version}
      BY <2>4 DEF ReadSnapshot, viewVars, StoreTasks
    <3>. QED BY <1>1, <2>1, <3>1 DEF ViewInv
  <2>5. CASE ApplyOverlay
    <3>1. app' = "done" /\ overlay' = {}
      BY <2>5 DEF ApplyOverlay
    <3>2. CASE overlay = {}
      <4>1. view' = view /\ base' = base
        BY <1>1, <2>5, <3>2 DEF ApplyOverlay
      <4>. QED BY <1>1, <2>1, <3>1, <4>1 DEF ViewInv
    <3>3. CASE overlay # {}
      <4>1. view' \in overlay /\ base' \in {"overtaken", "exact", base} /\ (base = "unseeded" => base' # "unseeded")
        BY <1>1, <2>5, <3>3 DEF ApplyOverlay
      <4>. QED BY <1>1, <2>1, <3>1, <4>1 DEF ViewInv
    <3>. QED BY <3>2, <3>3
  <2>. QED BY <1>5, <2>2, <2>3, <2>4, <2>5 DEF App
<1>. QED BY <1>3, <1>4, <1>5, ReceiveView, SessionFacts, ServerFacts DEF Next, Receiver, Finished, vars

\* What is held is a status the store had.
LEMMA HeldFacts ==
    ASSUME TypeOK, ViewInv
    PROVE  \A x \in Held : x \in Nat /\ x <= version
BY TypeFacts DEF Held, ViewInv

LEMMA HeldKept ==
    ASSUME UNCHANGED <<view, base, overlay, app>>
    PROVE  Held' = Held
BY DEF Held

\* The overlay moves no view back that rests on a status.
LEMMA OverlayHeld ==
    ASSUME TypeOK, ViewInv, ApplyOverlay
    PROVE  \A y \in Held' : y \in Nat /\ y <= version /\ \E x \in Held : x <= y
<1>1. version \in Nat /\ view \in Nat /\ \A x \in overlay : x \in Nat /\ x <= version
  BY TypeFacts DEF ViewInv
<1>2. app = "apply" /\ app' = "done"
  BY DEF ApplyOverlay
<1>3. SUFFICES ASSUME base' = "exact"
               PROVE  view' \in Nat /\ view' <= version /\ \E x \in Held : x <= view'
  BY <1>2 DEF Held
<1>4. CASE base = "exact"
  <2>1. view \in Held /\ view <= version
    BY <1>4 DEF Held, ViewInv
  <2>2. view' = view \/ view' \in overlay
    BY DEF ApplyOverlay
  <2>3. ~(view' < view)
    BY <1>3, <1>4 DEF ApplyOverlay
  <2>4. view' \in Nat /\ view' <= version
    BY <1>1, <2>1, <2>2
  <2>5. view <= view'
    BY <1>1, <2>3, <2>4
  <2>. QED BY <2>1, <2>4, <2>5
<1>5. CASE base # "exact"
  <2>1. overlay # {} /\ base = "unseeded"
    BY <1>3, <1>5 DEF ApplyOverlay
  <2>2. view' \in overlay
    BY <2>1 DEF ApplyOverlay
  <2>3. view' \in Held
    BY <1>2, <2>1, <2>2 DEF Held
  <2>. QED BY <1>1, <2>2, <2>3
<1>. QED BY <1>4, <1>5

\* Before its overlay is read, a lane that waits for its first snapshot holds
\* nothing, unless the end is known.
LEMMA NothingHeld ==
    ASSUME ViewInv, ~told, lane \in {"IDLE", "SUBSCRIBING"}, app \in {"start", "subscribe", "read"}
    PROVE  Held = {} /\ base = "unseeded"
BY DEF ViewInv, Held

\* Who follows goes on to, unless nothing is on its way.
LEMMA FollowsOn ==
    ASSUME TypeOK, InboxInv, FlightInv, EndInv, NewInv, [Next]_vars
    PROVE  (InFlight' = {} /\ lane' # "STREAMING") \/ FollowingStays
BY NothingNew, FollowingHolds

LEMMA LaneReceives ==
    ASSUME TypeOK, FlightInv, LaneInv, SubscribingInv, ViewInv, StartInv, Receive,
           ~told', lane' = "STREAMING"
    PROVE  lastSeq' \in Nat /\ lastSeq' <= seq /\ \A y \in Held' : Following(lastSeq', y)
<1>1. PICK f \in ServerFrames :
         /\ f.type = "error" \/ f \in InFlight
         /\ \/ f.type = "snapshot" /\ f \in Snapshots /\ OnSnapshot(f)
            \/ f.type = "error" /\ OnError(f)
            \/ f \in LaneFrame /\ (IsStatus(f) \/ IsPlain(f)) /\ OnFrame(f)
  BY ReceiveFacts
<1>2. UNCHANGED <<overlay, app>>
  BY LinkFacts DEF Receiver
<1>3. ASSUME f.type # "error"
      PROVE  /\ f \in InFlight /\ f \in Frames /\ f.seq \in Nat /\ f.seq <= seq
             /\ \A x \in Values(f) : Following(f.seq, x)
  BY <1>1, <1>3, FrameFacts DEF InFlight, FlightInv
<1>4. \A x \in Held : x \in Nat
  BY HeldFacts
<1>5. CASE f.type = "snapshot" /\ f \in Snapshots /\ OnSnapshot(f)
  <2>1. ~told /\ lastSeq' = f.seq /\ Values(f) = f.tasks
    BY <1>5 DEF OnSnapshot, Values, IsStatus, IsSnapshot
  <2>2. CASE lane = "HEALING"
    <3>1. (base' = "exact" /\ view' \in f.tasks) \/ base' = "released"
      BY <1>5, <2>2 DEF OnSnapshot
    <3>2. \A y \in Held' : y \in Values(f)
      BY <2>1, <3>1 DEF Held
    <3>. QED BY <1>3, <1>5, <2>1, <3>2
  <2>3. CASE lane = "STREAMING"
    <3>1. view' = view /\ base' = IF view \notin f.tasks THEN "skipped" ELSE base
      BY <1>5, <2>3 DEF OnSnapshot
    <3>2. CASE view \notin f.tasks
      <4>1. Held' = {}
        BY <3>1, <3>2 DEF Held
      <4>. QED BY <1>3, <1>5, <2>1, <4>1
    <3>3. CASE view \in f.tasks
      <4>1. Held' = Held /\ Following(f.seq, view)
        BY <1>2, <1>3, <1>5, <2>1, <3>1, <3>3 DEF Held
      <4>2. ASSUME NEW y \in Held PROVE Following(f.seq, y)
        <5>1. y \in Nat /\ view \in Nat
          BY <1>4, TypeFacts
        <5>2. view <= y
          BY <5>1 DEF Held, ViewInv
        <5>. QED BY <4>1, <5>1, <5>2, FollowingNewer
      <4>. QED BY <1>3, <1>5, <2>1, <4>1, <4>2
    <3>. QED BY <3>2, <3>3
  <2>4. CASE lane = "SUBSCRIBING"
    <3>1. view' = view /\ base' = base
      BY <1>5, <2>4 DEF OnSnapshot
    <3>2. Held' = Held
      BY <1>2, <3>1, HeldKept
    <3>3. \A y \in Held : Following(f.seq, y)
      BY <1>3, <1>5, <2>1, <2>4 DEF SubscribingInv, IsSnapshot
    <3>. QED BY <1>3, <1>5, <2>1, <3>2, <3>3
  <2>5. lane # "IDLE"
    BY <2>1, ReceivingLane
  <2>. QED BY <2>2, <2>3, <2>4, <2>5 DEF TypeOK, Waiting
<1>6. CASE f.type = "error" /\ OnError(f)
  <2>1. UNCHANGED <<view, base, lane, told, lastSeq>>
    BY <1>6 DEF OnError
  <2>2. Held' = Held
    BY <1>2, <2>1, HeldKept
  <2>. QED BY <2>1, <2>2 DEF LaneInv
<1>7. CASE f \in LaneFrame /\ (IsStatus(f) \/ IsPlain(f)) /\ OnFrame(f)
  <2>1. /\ lane = "STREAMING" /\ lastSeq' = f.seq /\ ~Gap(f) /\ Dispatch(f)
    BY <1>7 DEF OnFrame, Waiting
  <2>2. ~told /\ f.type # "error"
    BY <1>7, <2>1 DEF Dispatch, IsStatus, IsPlain
  <2>3. lastSeq \in Nat /\ \A x \in Held : Following(lastSeq, x)
    BY <2>1, <2>2 DEF LaneInv
  <2>4. f.seq = lastSeq + 1
    <3>1. lastSeq # NoSeq
      BY <2>3 DEF NoSeq
    <3>. QED BY <2>1, <3>1 DEF Gap
  <2>5. CASE IsStatus(f)
    <3>1. view' = f.v /\ base' = "exact" /\ f.v \in Values(f)
      BY <2>1, <2>5 DEF Dispatch, IsStatus, Values
    <3>2. \A y \in Held' : y \in Values(f)
      BY <3>1 DEF Held
    <3>. QED BY <1>3, <2>1, <2>2, <3>2
  <2>6. CASE IsPlain(f)
    <3>1. view' = view /\ base' = base
      BY <2>1, <2>6 DEF Dispatch, IsPlain
    <3>2. Held' = Held
      BY <1>2, <3>1, HeldKept
    <3>3. \A y \in Held : Following(f.seq, y)
      BY <1>3, <2>2, <2>3, <2>4, <2>6, FollowingPasses
    <3>. QED BY <1>3, <2>1, <2>2, <3>2, <3>3
  <2>. QED BY <1>7, <2>5, <2>6
<1>. QED BY <1>1, <1>5, <1>6, <1>7

LEMMA LaneHolds ==
    ASSUME TypeOK, InboxInv, FlightInv, LaneInv, SubscribingInv, ViewInv, StartInv, EndInv, NewInv, [Next]_vars
    PROVE  LaneInv'
<1>. SUFFICES ASSUME ~told', lane' = "STREAMING" PROVE LaneInv'
  BY DEF LaneInv
<1>1. FollowingStays /\ seq \in Nat /\ seq' \in Nat /\ seq <= seq'
  BY NothingNew, FollowingHolds, TypeFacts
<1>2. ASSUME lastSeq' \in Nat, lastSeq' <= seq, \A y \in Held' : Following(lastSeq', y) PROVE LaneInv'
  <2>1. PICK n, H : n = lastSeq' /\ H = Held'
    OBVIOUS
  <2>2. \A y \in H : Following(n, y)'
    BY <1>1, <1>2, <2>1 DEF FollowingStays
  <2>3. n \in Nat /\ n <= seq'
    BY <1>1, <1>2, <2>1
  <2>. QED BY <2>1, <2>2, <2>3 DEF LaneInv, Following, Caught, Steady, Break
<1>3. CASE Receive
  BY <1>2, <1>3, LaneReceives
<1>4. CASE ~Receive
  <2>1. lastSeq' = lastSeq /\ lane = "STREAMING" /\ ~told
    <3>1. CASE App
      BY <3>1, AppFacts DEF App, EnsureSubscribed, SendSubscribe, ReadSnapshot, ReadFails, ApplyOverlay, laneVars
    <3>2. CASE ReceiveClose \/ Drop \/ Reconnect \/ Resubscribe
      BY <3>2 DEF ReceiveClose, Drop, Disconnected, Reconnect, Resubscribe, laneVars, viewVars
    <3>. QED BY <1>4, <3>1, <3>2, SessionFacts, ServerFacts DEF Next, Receiver, Finished, vars
  <2>2. lastSeq \in Nat /\ lastSeq <= seq /\ \A x \in Held : Following(lastSeq, x)
    BY <2>1 DEF LaneInv
  <2>3. CASE UNCHANGED <<view, base, overlay, app>>
    BY <1>2, <2>1, <2>2, <2>3, HeldKept
  <2>4. CASE EnsureSubscribed \/ SendSubscribe \/ ReadFails
    <3>1. UNCHANGED <<view, base, overlay>> /\ app' # "apply" /\ app # "apply"
      BY <2>4 DEF EnsureSubscribed, SendSubscribe, ReadFails, viewVars
    <3>2. Held' = Held
      BY <3>1 DEF Held
    <3>. QED BY <1>2, <2>1, <2>2, <3>2
  <2>5. CASE ReadSnapshot
    <3>1. UNCHANGED <<view, base>> /\ app = "read" /\ overlay' \subseteq {version}
      BY <2>5 DEF ReadSnapshot, viewVars, StoreTasks
    <3>2. \A y \in Held' : y \in Held \/ y = version
      BY <3>1 DEF Held
    <3>3. Following(lastSeq, version)
      BY <2>2, StoreFollows
    <3>. QED BY <1>2, <2>1, <2>2, <3>2, <3>3
  <2>6. CASE ApplyOverlay
    <3>1. \A y \in Held' : Following(lastSeq, y)
      BY <2>2, <2>6, OverlayHeld, FollowingNewer
    <3>. QED BY <1>2, <2>1, <2>2, <3>1
  <2>7. CASE ReceiveClose \/ Drop \/ Reconnect \/ Resubscribe
    BY <2>3, <2>7 DEF ReceiveClose, Drop, Disconnected, Reconnect, Resubscribe, viewVars, appVars
  <2>. QED BY <1>4, <2>3, <2>4, <2>5, <2>6, <2>7, SessionFacts, ServerFacts DEF Next, Receiver, App, Finished, vars
<1>. QED BY <1>3, <1>4

\* Nothing that was held under the lane that waits comes with a subscribe of it.
LEMMA SubscribingHolds ==
    ASSUME TypeOK, InboxInv, FlightInv, SubscribingInv, ViewInv, StartInv, EndInv, NewInv, [Next]_vars, ViewInv'
    PROVE  SubscribingInv'
<1>. SUFFICES ASSUME ~told', lane' = "SUBSCRIBING",
                     NEW y \in Held'
              PROVE  /\ up' = <<>> /\ loop' = Idle
                     /\ \A f \in InFlight' : IsSnapshot(f) => Following(f.seq, y)'
  BY DEF SubscribingInv
<1>1. version \in Nat /\ seq \in Nat /\ y \in Nat
  <2>1. TypeOK'
    BY TypeHolds
  <2>2. view' \in Nat /\ \A x \in overlay' : x \in Nat
    BY <2>1, BoundsAssumption DEF TypeOK
  <2>. QED BY <2>2, TypeFacts DEF Held
<1>2. app' \in {"apply", "done"}
  <2>1. app' \notin {"start", "subscribe", "read"}
    BY DEF ViewInv, Held
  <2>2. TypeOK'
    BY TypeHolds
  <2>. QED BY <2>1, <2>2 DEF TypeOK
<1>3. ~EnsureSubscribed /\ ~SendSubscribe
  BY <1>2 DEF EnsureSubscribed, SendSubscribe
<1>4. /\ lane = "SUBSCRIBING" /\ ~told
      /\ Receive => UNCHANGED <<up, view, base>>
      /\ ~Resubscribe
  <2>1. CASE Receive
    <3>1. PICK f \in ServerFrames :
             \/ f.type = "snapshot" /\ OnSnapshot(f)
             \/ f.type = "error" /\ OnError(f)
             \/ f \in LaneFrame /\ OnFrame(f)
      BY <2>1, ReceiveFacts
    <3>2. ~OnSnapshot(f)
      BY DEF OnSnapshot
    <3>3. OnError(f) => lane = "SUBSCRIBING" /\ ~told /\ UNCHANGED <<up, view, base>>
      BY DEF OnError
    <3>4. OnFrame(f) => lane = "SUBSCRIBING" /\ ~told /\ UNCHANGED <<up, view, base>>
      BY DEF OnFrame, Waiting, viewVars
    <3>5. ~Resubscribe
      BY <2>1 DEF Resubscribe, Receive
    <3>. QED BY <3>1, <3>2, <3>3, <3>4, <3>5
  <2>2. CASE App /\ ~Receive
    <3>1. lane' = lane /\ told' = told
      BY <1>3, <2>2, AppFacts DEF App, ReadSnapshot, ReadFails, ApplyOverlay, laneVars
    <3>2. ~Resubscribe
      BY <2>2, AppFacts DEF Resubscribe
    <3>. QED BY <2>2, <3>1, <3>2
  <2>3. CASE (ReceiveClose \/ Drop \/ Reconnect \/ Resubscribe) /\ ~Receive
    BY <2>3 DEF ReceiveClose, Drop, Disconnected, Reconnect, Resubscribe, laneVars, viewVars
  <2>4. CASE lane' = lane /\ told' = told /\ ~Receive /\ ~Resubscribe
    BY <2>4
  <2>. QED BY <2>1, <2>2, <2>3, <2>4, SessionFacts, ServerFacts DEF Next, Receiver, Finished, vars
<1>5. \/ ReadSnapshot /\ y = version
      \/ ~ReadSnapshot /\ \E x \in Held : x <= y
  <2>1. CASE ReadSnapshot
    <3>1. UNCHANGED <<view, base>> /\ app = "read" /\ overlay' \subseteq {version}
      BY <2>1 DEF ReadSnapshot, viewVars, StoreTasks
    <3>2. base = "unseeded"
      BY <1>4, <3>1, NothingHeld
    <3>. QED BY <2>1, <3>1, <3>2 DEF Held
  <2>2. CASE ReadFails
    <3>1. UNCHANGED <<view, base>> /\ app = "read" /\ app' = "done"
      BY <2>2 DEF ReadFails, viewVars
    <3>2. base = "unseeded"
      BY <1>4, <3>1, NothingHeld
    <3>. QED BY <3>1, <3>2 DEF Held
  <2>3. CASE ApplyOverlay
    BY <2>3, OverlayHeld DEF ApplyOverlay, ReadSnapshot
  <2>4. CASE UNCHANGED <<view, base, overlay, app>>
    <3>1. Held' = Held /\ ~ReadSnapshot
      BY <2>4, HeldKept DEF ReadSnapshot
    <3>. QED BY <1>1, <3>1
  <2>5. CASE Receive \/ ReceiveClose \/ Drop \/ Reconnect
    <3>1. UNCHANGED <<view, base, overlay, app>>
      BY <1>4, <2>5, LinkFacts DEF ReceiveClose, Drop, Disconnected, Reconnect, Receiver, viewVars
    <3>. QED BY <2>4, <3>1
  <2>. QED BY <1>3, <1>4, <2>1, <2>2, <2>3, <2>4, <2>5, SessionFacts, ServerFacts
       DEF Next, Receiver, App, Finished, vars
<1>6. up = <<>> /\ loop = Idle
  BY <1>4, <1>5 DEF ReadSnapshot, SubscribingInv
<1>7. ~Snapshot /\ ~Attach /\ ~HandleSubscribe
  BY <1>6 DEF Snapshot, Attach, HandleSubscribe, Idle
<1>8. up' = <<>> /\ loop' = Idle
  <2>1. CASE App
    BY <1>3, <1>6, <2>1, AppFacts DEF App, ReadSnapshot, ReadFails, ApplyOverlay, serverVars
  <2>2. CASE Receiver \/ Drop
    BY <1>4, <1>6, <2>2, LinkFacts DEF Receiver, ReceiveClose, Drop, Disconnected, Reconnect
  <2>3. CASE Server
    BY <1>6, <1>7, <2>3 DEF Server, Handlers, Sender, Drain, SendControl, SendSession, CloseTooSlow,
       SenderWaits, SenderWakes
  <2>. QED BY <1>6, <2>1, <2>2, <2>3, SessionFacts DEF Next, Finished, vars
<1>9. ASSUME NEW f \in InFlight', IsSnapshot(f) PROVE Following(f.seq, y)'
  <2>1. f \in InFlight
    <3>1. CASE Drain
      <4>1. PICK D \in Seq(LaneFrame) : InFlight' \subseteq InFlight \cup Range(D)
        BY <3>1, FlightDrains
      <4>2. \A g \in Range(D) : g \in LaneFrame
        BY <4>1, RangeFacts
      <4>. QED BY <1>9, <4>1, <4>2 DEF LaneFrame, IsSnapshot
    <3>. QED BY <1>7, <1>9, <3>1, FlightShrinks
  <2>2. f.seq \in Nat /\ f.seq <= seq
    BY <2>1, FrameFacts DEF InFlight, FlightInv
  <2>3. Following(f.seq, y)
    <3>1. CASE y = version
      BY <2>2, <3>1, StoreFollows
    <3>2. CASE \E x \in Held : x <= y
      BY <1>1, <1>4, <1>9, <2>1, <3>2, FollowingNewer DEF SubscribingInv
    <3>. QED BY <1>5, <3>1, <3>2
  <2>4. FollowingStays
    BY <1>9, FollowsOn
  <2>. QED BY <2>3, <2>4 DEF FollowingStays
<1>. QED BY <1>8, <1>9

---------------------------------------------------------------------------
(* Before the screen subscribed, before the bridge exists, and the end. *)

LEMMA StartKept ==
    ASSUME TypeOK, StartInv, [Next]_vars, app' = "start"
    PROVE  /\ lane' = "IDLE" /\ ~told' /\ ~joined'
           /\ up' = <<>> /\ wire' = <<>> /\ loop' = Idle
           /\ queue' = EmptyQueue /\ control' = EmptyQueue
<1>1. ~App
  BY AppFacts
<1>2. app = "start"
  BY <1>1, SessionFacts, ServerFacts, LinkFacts DEF Next, Finished, vars
<1>3. /\ lane = "IDLE" /\ ~told /\ ~joined /\ up = <<>> /\ wire = <<>> /\ loop = Idle
      /\ queue = EmptyQueue /\ control = EmptyQueue /\ loop.at = "idle"
      /\ queue.deque = <<>> /\ control.deque = <<>>
      /\ ~BehindAFullWindow(queue) /\ ~BehindAFullWindow(control)
  BY <1>2, CapacityAssumption DEF StartInv, Idle, EmptyQueue, BehindAFullWindow
<1>4. CASE Receiver \/ Drop
  <2>1. ~Receive /\ ~ReceiveClose
    BY <1>3 DEF Receive, ReceiveClose
  <2>2. CASE Drop
    BY <1>3, <2>2 DEF Drop, Disconnected, TornDown, laneVars, viewVars
  <2>3. CASE Reconnect
    BY <1>3, <2>3 DEF Reconnect, Accepted, viewVars
  <2>4. CASE Resubscribe
    BY <1>3, <2>4 DEF Resubscribe, queueVars, viewVars
  <2>. QED BY <1>4, <2>1, <2>2, <2>3, <2>4 DEF Receiver
<1>5. CASE Server /\ UNCHANGED clientVars
  <2>1. ~HandleSubscribe /\ ~Attach /\ ~Snapshot /\ ~SendControl /\ ~SendSession /\ ~CloseTooSlow
    BY <1>3 DEF HandleSubscribe, Attach, Snapshot, SendControl, AtControl, SendSession, CloseTooSlow
  <2>2. UNCHANGED <<joined, queue, control, loop, up, wire>>
    BY <1>3, <1>5, <2>1 DEF Server, Handlers, Sender, Drain, SenderWaits, SenderWakes, queueVars
  <2>. QED BY <1>3, <1>5, <2>2, ServerFacts
<1>. QED BY <1>1, <1>3, <1>4, <1>5, SessionFacts DEF Next, Finished, vars

LEMMA StartHolds ==
    ASSUME TypeOK, StartInv, [Next]_vars PROVE StartInv'
<1>1. ASSUME lane' = "IDLE", ~told' PROVE app' = "start"
  <2>1. CASE Receive
    <3>1. lane = "IDLE" => told
      BY <2>1, ReceivingLane
    <3>2. PICK f \in ServerFrames : OnSnapshot(f) \/ OnError(f) \/ OnFrame(f)
      BY <2>1, ReceiveFacts
    <3>3. ~OnSnapshot(f)
      BY <1>1 DEF OnSnapshot
    <3>4. ~OnError(f)
      BY <1>1, <3>1 DEF OnError
    <3>5. ASSUME OnFrame(f) PROVE FALSE
      <4>1. lane' = lane \/ lane' = "HEALING"
        BY <3>5 DEF OnFrame
      <4>2. told
        BY <1>1, <3>1, <4>1
      <4>3. UNCHANGED viewVars \/ Dispatch(f)
        BY <3>5 DEF OnFrame
      <4>. QED BY <1>1, <4>2, <4>3 DEF Dispatch, viewVars
    <3>. QED BY <3>2, <3>3, <3>4, <3>5
  <2>2. CASE App
    <3>1. ~told /\ ~EnsureSubscribed
      BY <1>1, <2>2, AppFacts DEF EnsureSubscribed
    <3>2. lane = "IDLE" /\ app # "start"
      BY <1>1, <2>2, <3>1 DEF App, SendSubscribe, ReadSnapshot, ReadFails, ApplyOverlay, laneVars
    <3>. QED BY <3>1, <3>2 DEF StartInv
  <2>3. CASE ReceiveClose \/ Drop \/ Reconnect \/ Resubscribe
    <3>1. lane = "IDLE" /\ ~told /\ app' = app
      BY <1>1, <2>3 DEF ReceiveClose, Drop, Disconnected, Reconnect, Resubscribe, laneVars, viewVars, appVars
    <3>. QED BY <3>1 DEF StartInv
  <2>4. CASE UNCHANGED <<lane, told, app>>
    BY <1>1, <2>4 DEF StartInv
  <2>. QED BY <2>1, <2>2, <2>3, <2>4, SessionFacts, ServerFacts DEF Next, Receiver, Finished, vars
<1>. QED BY <1>1, StartKept DEF StartInv

LEMMA EndingGrows ==
    ASSUME [Next]_vars
    PROVE  /\ ending' = "no" => ending = "no"
           /\ ending = "closed" => ending' = "closed"
           /\ ~EndSession => ending' = ending
<1>1. CASE EndSession
  BY <1>1 DEF EndSession, MarkEnded, ReleaseStore, PublishEnd
<1>2. CASE WriteStatus \/ PublishStatus \/ LogLine
  BY <1>2 DEF WriteStatus, PublishStatus, LogLine
<1>. QED BY <1>1, <1>2, ServerFacts, AppFacts, LinkFacts DEF Next, Finished, vars

\* What comes onto the socket was in a queue or is the close.
LEMMA WireRange ==
    ASSUME TypeOK, [Next]_vars
    PROVE  Range(wire') \subseteq Range(wire) \cup Range(queue.deque) \cup Range(control.deque) \cup {Close}
<1>1. wire \in Seq(ServerFrames) /\ queue.deque \in Seq(Frames) /\ control.deque \in Seq(Replies)
  BY DEF TypeOK, ServerTypeOK, ServerFrames, Frames
<1>2. CASE wire' = wire
  BY <1>2
<1>3. CASE SendControl \/ SendSession \/ CloseTooSlow \/ Attach
  <2>1. \/ wire' = wire
        \/ wire' = Append(wire, Close)
        \/ queue.deque # <<>> /\ wire' = Append(wire, Head(queue.deque))
        \/ control.deque # <<>> /\ wire' = Append(wire, Head(control.deque))
    BY <1>3 DEF SendControl, AtControl, SendSession, CloseTooSlow, Attach
  <2>2. queue.deque # <<>> => Head(queue.deque) \in Range(queue.deque) /\ Head(queue.deque) \in ServerFrames
    <3>1. queue.deque # <<>> => Head(queue.deque) \in Range(queue.deque) /\ Range(queue.deque) \subseteq Frames
      BY <1>1, RangeFacts
    <3>. QED BY <3>1 DEF ServerFrames, Frames
  <2>3. control.deque # <<>> => Head(control.deque) \in Range(control.deque) /\ Head(control.deque) \in ServerFrames
    <3>1. control.deque # <<>> => Head(control.deque) \in Range(control.deque) /\ Range(control.deque) \subseteq Replies
      BY <1>1, RangeFacts
    <3>. QED BY <3>1 DEF ServerFrames
  <2>4. \A e \in ServerFrames : Range(Append(wire, e)) = Range(wire) \cup {e}
    BY <1>1, RangeFacts
  <2>5. Close \in ServerFrames
    BY DEF ServerFrames
  <2>6. CASE wire' = Append(wire, Close)
    BY <2>4, <2>5, <2>6
  <2>7. CASE queue.deque # <<>> /\ wire' = Append(wire, Head(queue.deque))
    BY <2>2, <2>4, <2>7
  <2>8. CASE control.deque # <<>> /\ wire' = Append(wire, Head(control.deque))
    BY <2>3, <2>4, <2>8
  <2>. QED BY <1>2, <2>1, <2>6, <2>7, <2>8
<1>4. CASE Receive
  <2>1. wire # <<>> /\ wire' = Tail(wire)
    BY <1>4 DEF Receive
  <2>. QED BY <1>1, <2>1, RangeFacts
<1>5. CASE ReceiveClose \/ Drop
  <2>1. wire' = <<>>
    BY <1>5 DEF ReceiveClose, Drop, Disconnected
  <2>. QED BY <2>1 DEF Range
<1>6. CASE Drain \/ HandleSubscribe \/ Snapshot \/ SenderWaits \/ SenderWakes \/ Reconnect \/ Resubscribe
  BY <1>2, <1>6 DEF Drain, HandleSubscribe, Snapshot, SenderWaits, SenderWakes, Reconnect, Resubscribe
<1>. QED BY <1>2, <1>3, <1>4, <1>5, <1>6, SessionFacts, AppFacts
     DEF Next, Server, Handlers, Sender, Receiver, Finished, vars

LEMMA EndHolds ==
    ASSUME TypeOK, InboxInv, EndInv, [Next]_vars PROVE EndInv'
<1>1. ASSUME ending' # "no" PROVE ~pending'
  <2>1. CASE WriteStatus
    BY <1>1, <2>1 DEF WriteStatus
  <2>2. CASE PublishStatus
    BY <2>2 DEF PublishStatus
  <2>3. CASE EndSession
    BY <2>3 DEF EndSession, MarkEnded, ReleaseStore, PublishEnd, EndInv
  <2>4. CASE ending' = ending /\ pending' = pending
    BY <1>1, <2>4 DEF EndInv
  <2>. QED BY <2>1, <2>2, <2>3, <2>4, NothingWritten, EndingGrows
<1>2. SUFFICES ASSUME ending' = "no"
               PROVE  /\ ~told' /\ control' = EmptyQueue
                      /\ \A f \in Range(wire') : f.type # "error"
                      /\ \A f \in InFlight' : f.type # "ended" /\ (IsSnapshot(f) => ~f.over)
  BY <1>1 DEF EndInv
<1>3. /\ ending = "no" /\ ~told /\ control = EmptyQueue
      /\ \A f \in Range(wire) : f.type # "error"
      /\ \A f \in InFlight : f.type # "ended" /\ (IsSnapshot(f) => ~f.over)
  BY <1>2, EndingGrows DEF EndInv
<1>4. control.deque = <<>> /\ Range(control.deque) = {} /\ Range(queue.deque) \subseteq Frames
  <2>1. queue.deque \in Seq(Frames)
    BY TypeFacts
  <2>. QED BY <1>3, <2>1, RangeFacts DEF EmptyQueue, Range
<1>5. \A f \in Range(wire') : f.type # "error"
  BY <1>3, <1>4, WireRange, FrameFacts DEF Close
<1>6. ~told'
  <2>1. CASE Receive
    <3>1. PICK f \in ServerFrames :
             /\ f \in Range(wire) /\ (f.type = "error" \/ f \in InFlight)
             /\ \/ f.type = "snapshot" /\ OnSnapshot(f)
                \/ f.type = "error" /\ OnError(f)
                \/ f \in LaneFrame /\ OnFrame(f)
      BY <2>1, ReceiveFacts
    <3>2. f.type # "error" /\ f.type # "ended" /\ (f.type = "snapshot" => ~f.over)
      BY <1>3, <3>1 DEF IsSnapshot
    <3>3. OnSnapshot(f) \/ OnFrame(f)
      BY <3>1, <3>2
    <3>4. OnFrame(f) => ~told'
      BY <1>3, <3>2 DEF OnFrame, Dispatch, viewVars
    <3>5. f.type = "snapshot" /\ OnSnapshot(f) => ~told'
      BY <1>3, <3>2 DEF OnSnapshot
    <3>. QED BY <3>1, <3>2, <3>4, <3>5
  <2>2. CASE ReceiveClose \/ Drop \/ Reconnect \/ Resubscribe
    BY <1>3, <2>2 DEF ReceiveClose, Drop, Disconnected, Reconnect, Resubscribe, viewVars
  <2>. QED BY <1>3, <2>1, <2>2, SessionFacts, ServerFacts, AppFacts DEF Next, Receiver, Finished, vars
<1>7. control' = EmptyQueue
  <2>1. CASE Server
    <3>1. ~SendControl
      BY <1>4 DEF SendControl, AtControl
    <3>. QED BY <1>3, <2>1, <3>1 DEF Server, Handlers, Sender, Drain, HandleSubscribe, Attach, Snapshot, SendSession,
           CloseTooSlow, SenderWaits, SenderWakes, queueVars
  <2>2. CASE Receiver \/ Drop
    BY <1>3, <2>2 DEF Receiver, Receive, ReceiveClose, Drop, Disconnected, TornDown, Reconnect, Accepted,
       Resubscribe, queueVars
  <2>. QED BY <1>3, <2>1, <2>2, SessionFacts, AppFacts DEF Next, Finished, vars
<1>8. ASSUME NEW f \in InFlight' PROVE f.type # "ended" /\ (IsSnapshot(f) => ~f.over)
  <2>1. CASE Drain
    <3>1. PICK D \in Seq(LaneFrame), off \in 0 .. 1 : Drained(D, off) /\ InFlight' \subseteq InFlight \cup Range(D)
      BY <2>1, FlightDrains
    <3>2. ASSUME f \in Range(D) PROVE f.type # "ended" /\ ~IsSnapshot(f)
      <4>1. PICK k \in 1 .. Len(D) : f = D[k] /\ f \in LaneFrame
        BY <3>1, <3>2, RangeEquality DEF Drained
      <4>2. CASE k <= off
        BY <3>1, <4>1, <4>2 DEF Drained, IsSnapshot
      <4>3. CASE off < k
        <5>1. Len(inbox.control) \in Nat /\ DOMAIN inbox.control = 1 .. Len(inbox.control)
          BY TypeFacts, LenProperties
        <5>2. k - off \in DOMAIN inbox.control
          BY <3>1, <4>1, <4>3, <5>1 DEF Drained
        <5>3. StatusAt(k - off)
          BY <1>3, <5>2 DEF InboxInv
        <5>4. IsStatus(f)
          BY <3>1, <4>1, <4>3, <5>3 DEF Drained
        <5>. QED BY <5>4 DEF IsStatus, IsSnapshot
      <4>. QED BY <3>1, <4>1, <4>2, <4>3
    <3>. QED BY <1>3, <3>1, <3>2
  <2>2. CASE Snapshot
    <3>1. PICK s \in Snapshots : s.over = (ending # "no") /\ InFlight' \subseteq InFlight \cup {s}
      BY <2>2, FlightSnapshot
    <3>. QED BY <1>3, <3>1 DEF Snapshots
  <2>. QED BY <1>3, <2>1, <2>2, FlightShrinks
<1>. QED BY <1>5, <1>6, <1>7, <1>8

LEMMA NewHolds ==
    ASSUME TypeOK, InboxInv, NewInv, [Next]_vars PROVE NewInv'
<1>. SUFFICES ASSUME ~attached', ending' # "closed"
              PROVE  ~joined' /\ lane' # "STREAMING" /\ loop'.at # "snapshot" /\ InFlight' = {}
  BY DEF NewInv
<1>1. ending # "closed"
  BY EndingGrows
<1>2. ~attached
  <2>1. CASE Drain
    <3>1. attached' = ("ended" \notin Kinds(inbox.control))
      BY <2>1 DEF Drain
    <3>2. \A i \in DOMAIN inbox.control : inbox.control[i].kind = "status"
      BY <1>1 DEF InboxInv, StatusAt
    <3>. QED BY <3>1, <3>2 DEF Kinds
  <2>2. CASE WriteStatus \/ PublishStatus \/ LogLine \/ EndSession
    BY <2>2 DEF WriteStatus, PublishStatus, LogLine, EndSession
  <2>3. CASE Handlers \/ Sender
    BY <2>3 DEF Handlers, Sender, HandleSubscribe, Attach, Snapshot, SendControl, SendSession, CloseTooSlow,
       SenderWaits, SenderWakes, bridgeVars
  <2>. QED BY <2>1, <2>2, <2>3, AppFacts, LinkFacts DEF Next, Server, Finished, vars
<1>3. ~joined /\ loop.at # "snapshot"
  BY <1>1, <1>2 DEF NewInv
<1>4. InFlight' = {} /\ lane' # "STREAMING"
  BY <1>1, <1>2, NothingNew DEF Bridged
<1>5. ~joined' /\ loop'.at # "snapshot"
  <2>1. CASE Server
    <3>1. ~Snapshot
      BY <1>3 DEF Snapshot
    <3>. QED BY <1>3, <2>1, <3>1 DEF Server, Handlers, Sender, Drain, HandleSubscribe, Attach, SendControl,
           SendSession, CloseTooSlow, SenderWaits, SenderWakes, queueVars, Idle
  <2>2. CASE Receiver \/ Drop
    <3>1. loop' = loop
      BY <2>2, LinkFacts
    <3>2. ~joined'
      BY <1>3, <2>2 DEF Receiver, Receive, ReceiveClose, Drop, Disconnected, TornDown, Reconnect, Accepted,
         Resubscribe, queueVars
    <3>. QED BY <1>3, <3>1, <3>2
  <2>. QED BY <1>3, <2>1, <2>2, SessionFacts, AppFacts DEF Next, Finished, vars
<1>. QED BY <1>4, <1>5

---------------------------------------------------------------------------
(* The connection. *)

LEMMA ConnStateHolds ==
    ASSUME TypeOK, ConnInv, [Next]_vars
    PROVE  /\ link' = "down" => conn' = "closed" /\ wire' = <<>> /\ up' = <<>>
           /\ Close \in Range(wire') => conn' = "closed"
           /\ conn' = "closed" => loop' = Idle
           /\ joined' => conn' = "open"
<1>1. /\ link = "down" => conn = "closed" /\ wire = <<>> /\ up = <<>>
      /\ Close \in Range(wire) => conn = "closed"
      /\ conn = "closed" => loop = Idle
      /\ joined => conn = "open"
      /\ conn \in {"open", "closed"}
      /\ wire \in Seq(ServerFrames)
  BY DEF ConnInv, TypeOK, ServerTypeOK, ServerFrames, Frames
<1>2. CASE UNCHANGED <<link, conn, wire, up, loop, joined>>
  BY <1>1, <1>2
<1>3. CASE App
  <2>1. CASE SendSubscribe
    <3>1. link = "down" => up' = up
      BY <2>1 DEF SendSubscribe, SubscribeSession
    <3>. QED BY <1>1, <1>3, <3>1, AppFacts
  <2>2. CASE ~SendSubscribe
    <3>1. up' = up
      BY <1>3, <2>2 DEF App, EnsureSubscribed, ReadSnapshot, ReadFails, ApplyOverlay, serverVars
    <3>. QED BY <1>2, <1>3, <3>1, AppFacts
  <2>. QED BY <2>1, <2>2
<1>4. CASE Server /\ UNCHANGED clientVars
  <2>1. link' = link
    BY <1>4, ServerFacts
  <2>2. CASE Drain \/ SenderWaits \/ SenderWakes
    <3>1. UNCHANGED <<conn, wire, up, loop, joined>>
      BY <2>2 DEF Drain, SenderWaits, SenderWakes, queueVars
    <3>. QED BY <1>2, <2>1, <3>1
  <2>3. CASE HandleSubscribe
    BY <1>1, <2>1, <2>3 DEF HandleSubscribe
  <2>4. CASE Attach \/ Snapshot
    <3>1. loop # Idle
      BY <2>4 DEF Attach, Snapshot, Idle
    <3>2. conn = "open" /\ link # "down"
      BY <1>1, <3>1
    <3>3. \/ conn' = "open" /\ wire' = wire
          \/ conn' = "closed" /\ joined' = FALSE /\ loop' = Idle
      BY <2>4, <3>2 DEF Attach, Snapshot
    <3>. QED BY <1>1, <2>1, <3>2, <3>3
  <2>5. CASE CloseTooSlow
    BY <1>1, <2>1, <2>5 DEF CloseTooSlow
  <2>6. CASE SendSession \/ SendControl
    <3>1. /\ conn = "open" /\ conn' = "open"
      BY <2>6 DEF SendSession, SendControl
    <3>2. PICK e \in ServerFrames : e # Close /\ wire' = Append(wire, e)
      <4>1. \/ queue.deque # <<>> /\ wire' = Append(wire, Head(queue.deque))
            \/ control.deque # <<>> /\ wire' = Append(wire, Head(control.deque))
        BY <2>6 DEF SendSession, SendControl, AtControl
      <4>2. PICK q \in Seq(Frames), r \in Seq(Replies) : q = queue.deque /\ r = control.deque
        BY DEF TypeOK, ServerTypeOK, Frames
      <4>3. q # <<>> => Head(q) \in Frames
        BY RangeFacts
      <4>4. r # <<>> => Head(r) \in Replies
        BY RangeFacts
      <4>5. /\ \A f \in Frames : f \in ServerFrames /\ f # Close
            /\ \A f \in Replies : f \in ServerFrames /\ f # Close
        BY DEF ServerFrames, Frames, LaneFrame, Snapshots, Replies, Close
      <4>. QED BY <4>1, <4>2, <4>3, <4>4, <4>5
    <3>3. Close \notin Range(wire')
      BY <1>1, <3>1, <3>2, RangeFacts
    <3>. QED BY <1>1, <2>1, <3>1, <3>3
  <2>. QED BY <1>4, <2>2, <2>3, <2>4, <2>5, <2>6 DEF Server, Handlers, Sender
<1>5. CASE Receive
  <2>1. /\ wire # <<>> /\ wire' = Tail(wire) /\ UNCHANGED <<link, conn, loop, joined>> /\ link = "up"
    BY <1>5 DEF Receive, linkVars, queueVars
  <2>2. Range(wire') \subseteq Range(wire)
    BY <1>1, <2>1, RangeFacts
  <2>. QED BY <1>1, <2>1, <2>2
<1>6. CASE ReceiveClose \/ Drop
  <2>1. /\ link' = "down" /\ conn' = "closed" /\ wire' = <<>> /\ up' = <<>> /\ joined' = FALSE /\ loop' = loop
    BY <1>6 DEF ReceiveClose, Drop, Disconnected, TornDown
  <2>2. loop = Idle
    <3>1. CASE ReceiveClose
      <4>1. wire # <<>> /\ Head(wire) = Close
        BY <3>1 DEF ReceiveClose
      <4>2. Close \in Range(wire)
        BY <1>1, <4>1, RangeFacts
      <4>. QED BY <1>1, <4>2
    <3>. QED BY <1>6, <3>1 DEF Drop
  <2>. QED BY <2>1, <2>2
<1>7. CASE Reconnect
  <2>1. link' = "bound" /\ conn' = "open" /\ joined' = FALSE /\ wire' = wire /\ wire = <<>>
    BY <1>1, <1>7 DEF Reconnect, Accepted
  <2>. QED BY <2>1 DEF Range
<1>8. CASE Resubscribe
  <2>1. link' = "up" /\ UNCHANGED <<conn, loop, wire, joined>>
    BY <1>8 DEF Resubscribe, queueVars
  <2>. QED BY <1>1, <2>1
<1>. QED BY <1>2, <1>3, <1>4, <1>5, <1>6, <1>7, <1>8, SessionFacts DEF Next, Receiver, Finished, vars

\* Nothing on its way: the queue is empty and the socket has no frame of the lane.
LEMMA EmptyFlight ==
    ASSUME TypeOK, InFlight = {}
    PROVE  queue.deque = <<>> /\ \A i \in DOMAIN wire : wire[i] \notin Frames
<1>1. PICK q \in Seq(Frames), w \in Seq(ServerFrames) : q = queue.deque /\ w = wire
  BY DEF TypeOK, ServerTypeOK, Frames, ServerFrames
<1>2. Range(q) \subseteq Frames /\ (q # <<>> => Head(q) \in Range(q))
  BY RangeFacts
<1>3. q = <<>>
  BY <1>1, <1>2 DEF InFlight
<1>4. \A i \in DOMAIN w : w[i] \in Range(w)
  BY DEF Range
<1>. QED BY <1>1, <1>3, <1>4 DEF InFlight

LEMMA LastTaken ==
    ASSUME NEW w \in Seq(ServerFrames), w # <<>>, NEW more, NEW n, LastOn(w, more, n)
    PROVE  LastOn(Tail(w), more, n)
<1>1. /\ Len(w) \in Nat /\ DOMAIN w = 1 .. Len(w) /\ DOMAIN Tail(w) = 1 .. Len(w) - 1
      /\ \A i \in 1 .. Len(w) - 1 : Tail(w)[i] = w[i + 1]
  <2>1. /\ Tail(w) \in Seq(ServerFrames) /\ Len(Tail(w)) = Len(w) - 1
        /\ \A i \in 1 .. Len(w) - 1 : Tail(w)[i] = w[i + 1]
    BY HeadTailProperties
  <2>. QED BY <2>1, LenProperties
<1>2. PICK t : t = Tail(w)
  OBVIOUS
<1>3. ASSUME NEW i \in 1 .. Len(w) - 1, t[i] \in Frames, t[i].seq # n, ~more
      PROVE  \E j \in 1 .. Len(w) - 1 : i < j /\ t[j] \in Frames
  <2>1. i + 1 \in 1 .. Len(w) /\ t[i] = w[i + 1]
    BY <1>1, <1>2
  <2>2. PICK j \in 1 .. Len(w) : i + 1 < j /\ w[j] \in Frames
    BY <1>1, <1>3, <2>1 DEF LastOn
  <2>3. j - 1 \in 1 .. Len(w) - 1 /\ i < j - 1 /\ (j - 1) + 1 = j
    BY <1>1, <2>2
  <2>4. t[j - 1] = w[j]
    BY <1>1, <1>2, <2>3
  <2>. QED BY <2>2, <2>3, <2>4
<1>. QED BY <1>1, <1>2, <1>3 DEF LastOn

LEMMA LastSent ==
    ASSUME NEW w \in Seq(ServerFrames), NEW e \in ServerFrames, NEW more, NEW n,
           e \in Frames => e.seq = n \/ more,
           e \in Frames \/ LastOn(w, more, n)
    PROVE  LastOn(Append(w, e), more, n)
<1>1. /\ Len(w) \in Nat /\ DOMAIN w = 1 .. Len(w) /\ DOMAIN Append(w, e) = 1 .. Len(w) + 1
      /\ Append(w, e)[Len(w) + 1] = e
      /\ \A i \in 1 .. Len(w) : Append(w, e)[i] = w[i]
  BY AppendProperties, LenProperties
<1>2. PICK t : t = Append(w, e)
  OBVIOUS
<1>3. ASSUME NEW i \in 1 .. Len(w) + 1, t[i] \in Frames, t[i].seq # n, ~more
      PROVE  \E j \in 1 .. Len(w) + 1 : i < j /\ t[j] \in Frames
  <2>1. i # Len(w) + 1
    BY <1>1, <1>2, <1>3
  <2>2. i \in 1 .. Len(w) /\ Len(w) + 1 \in 1 .. Len(w) + 1 /\ i < Len(w) + 1
    BY <1>1, <2>1
  <2>3. CASE e \in Frames
    BY <1>1, <1>2, <2>2, <2>3
  <2>4. CASE LastOn(w, more, n)
    <3>1. PICK j \in 1 .. Len(w) : i < j /\ w[j] \in Frames
      BY <1>1, <1>2, <1>3, <2>2, <2>4 DEF LastOn
    <3>2. j \in 1 .. Len(w) + 1 /\ t[j] = w[j]
      BY <1>1, <1>2, <3>1
    <3>. QED BY <3>1, <3>2
  <2>. QED BY <2>3, <2>4
<1>. QED BY <1>1, <1>2, <1>3 DEF LastOn

LEMMA ConnFramesHold ==
    ASSUME TypeOK, NewInv, ConnInv, [Next]_vars, conn' = "open"
    PROVE  /\ ~joined' => InFlight' = {}
           /\ queue'.deque # <<>> => queue'.deque[Len(queue'.deque)].seq = seq'
           /\ LastOn(wire', queue'.deque # <<>>, seq')
<1>1. /\ wire \in Seq(ServerFrames) /\ queue.deque \in Seq(Frames) /\ control.deque \in Seq(Replies)
      /\ queue \in [deque : Seq(Frames), dropped : Nat] /\ seq \in Nat
  BY DEF TypeOK, ServerTypeOK, ServerFrames, Frames
<1>2. CASE Reconnect
  <2>1. wire' = <<>> /\ queue' = EmptyQueue
    BY <1>2 DEF Reconnect, Accepted, ConnInv
  <2>2. queue'.deque = <<>>
    BY <2>1 DEF EmptyQueue
  <2>3. InFlight' = {}
    BY <2>1, <2>2 DEF InFlight, Range
  <2>4. LastOn(wire', queue'.deque # <<>>, seq')
    BY <2>1 DEF LastOn
  <2>. QED BY <2>2, <2>3, <2>4
<1>3. CASE ~Reconnect
  <2>1. conn = "open"
    BY <1>3, ServerFacts, SessionFacts, AppFacts
       DEF Next, Server, Handlers, Sender, Drain, HandleSubscribe, Attach, Snapshot, SendControl, SendSession,
           CloseTooSlow, SenderWaits, SenderWakes, Receiver, Receive, ReceiveClose, Drop, Disconnected, TornDown,
           Resubscribe, Finished, vars
  <2>2. /\ ~joined => InFlight = {}
        /\ queue.deque # <<>> => queue.deque[Len(queue.deque)].seq = seq
        /\ LastOn(wire, queue.deque # <<>>, seq)
    BY <2>1 DEF ConnInv
  <2>3. CASE UNCHANGED <<wire, queue, seq, joined>>
    BY <2>2, <2>3 DEF InFlight
  <2>4. CASE Drain
    <3>1. PICK D \in Seq(LaneFrame), off \in 0 .. 1 :
             /\ Drained(D, off) /\ seq' = seq + Len(D) /\ D # <<>>
             /\ queue' = IF joined THEN Push(queue, D) ELSE queue
             /\ InFlight' \subseteq InFlight \cup (IF joined THEN Range(D) ELSE {})
      BY <2>4, FlightDrains
    <3>2. wire' = wire /\ joined' = joined
      BY <2>4 DEF Drain
    <3>3. CASE joined
      <4>1. D \in Seq(Frames)
        BY SeqSubset DEF Frames
      <4>2. /\ queue'.deque # <<>>
            /\ queue'.deque[Len(queue'.deque)] = D[Len(D)]
        <5>1. queue.deque \in Seq(Frames) /\ queue.dropped \in Nat
          BY <1>1
        <5>2. queue' = Push(queue, D) /\ D # <<>>
          BY <3>1, <3>3
        <5>3. /\ Push(queue, D).deque # <<>>
              /\ Push(queue, D).deque[Len(Push(queue, D).deque)] = D[Len(D)]
          <6>1. D # <<>> =>
                  /\ Push(queue, D).deque # <<>>
                  /\ Push(queue, D).deque[Len(Push(queue, D).deque)] = D[Len(D)]
            BY <4>1, <5>1, PushRange
          <6>. QED BY <5>2, <6>1
        <5>. QED BY <5>2, <5>3
      <4>3. Len(D) \in 1 .. Len(D)
        BY <3>1, LenProperties, EmptySeq
      <4>4. D[Len(D)].seq = seq'
        BY <3>1, <4>3 DEF Drained
      <4>5. LastOn(wire', queue'.deque # <<>>, seq')
        BY <4>2 DEF LastOn
      <4>. QED BY <3>2, <3>3, <4>2, <4>4, <4>5
    <3>4. CASE ~joined
      <4>1. queue.deque = <<>> /\ \A i \in DOMAIN wire : wire[i] \notin Frames
        BY <2>2, <3>4, EmptyFlight
      <4>2. queue' = queue /\ InFlight' = {}
        BY <2>2, <3>1, <3>4
      <4>3. LastOn(wire', queue'.deque # <<>>, seq')
        BY <3>2, <4>1 DEF LastOn
      <4>. QED BY <3>2, <3>4, <4>1, <4>2, <4>3
    <3>. QED BY <3>3, <3>4
  <2>5. CASE Snapshot
    <3>1. PICK s \in Snapshots : s.seq = seq /\ queue'.deque = <<s>>
      BY <2>5, FlightSnapshot
    <3>2. joined' /\ seq' = seq
      BY <2>5 DEF Snapshot, bridgeVars
    <3>3. queue'.deque # <<>> /\ queue'.deque[Len(queue'.deque)] = s
      BY <3>1
    <3>4. LastOn(wire', queue'.deque # <<>>, seq')
      BY <3>3 DEF LastOn
    <3>. QED BY <3>1, <3>2, <3>3, <3>4
  <2>6. CASE Attach
    <3>1. UNCHANGED <<wire, queue, joined>> /\ (attached \/ ending \in {"no", "ended"})
      BY <2>1, <2>6 DEF Attach
    <3>2. CASE attached
      <4>1. seq' = seq
        BY <2>6, <3>2 DEF Attach
      <4>. QED BY <2>3, <3>1, <4>1
    <3>3. CASE ~attached
      <4>1. InFlight = {}
        BY <3>1, <3>3 DEF NewInv
      <4>2. queue.deque = <<>> /\ \A i \in DOMAIN wire : wire[i] \notin Frames
        BY <4>1, EmptyFlight
      <4>3. LastOn(wire', queue'.deque # <<>>, seq')
        BY <3>1, <4>2 DEF LastOn
      <4>4. InFlight' = {}
        BY <3>1, <4>1 DEF InFlight
      <4>. QED BY <3>1, <4>2, <4>3, <4>4
    <3>. QED BY <3>2, <3>3
  <2>7. CASE SendSession
    <3>1. /\ queue.deque # <<>> /\ wire' = Append(wire, Head(queue.deque)) /\ queue'.deque = Tail(queue.deque)
          /\ UNCHANGED <<joined, seq>>
      BY <1>1, <2>7 DEF SendSession, bridgeVars
    <3>2. PICK q \in Seq(Frames), n \in Nat : q = queue.deque /\ n = seq
      BY <1>1
    <3>3. /\ Head(q) = q[1] /\ Head(q) \in ServerFrames /\ Len(Tail(q)) = Len(q) - 1 /\ Len(q) \in Nat \ {0}
          /\ Tail(q) \in Seq(Frames) /\ \A i \in 1 .. Len(q) - 1 : Tail(q)[i] = q[i + 1]
      <4>1. Head(q) \in Frames
        BY <3>1, <3>2, RangeFacts
      <4>2. Head(q) \in ServerFrames
        BY <4>1 DEF Frames, ServerFrames
      <4>. QED BY <3>1, <3>2, <4>2, HeadTailProperties, EmptySeq, LenProperties
    <3>4. Tail(q) # <<>> => Tail(q)[Len(Tail(q))] = q[Len(q)]
      <4>1. Tail(q) # <<>> => Len(Tail(q)) # 0
        BY <3>3, EmptySeq
      <4>2. Len(q) - 1 # 0 => Len(q) - 1 \in 1 .. Len(q) - 1
        BY <3>3
      <4>3. Len(q) = (Len(q) - 1) + 1
        BY <3>3
      <4>. QED BY <3>3, <4>1, <4>2, <4>3
    <3>5. Head(q).seq = n \/ Tail(q) # <<>>
      <4>1. Tail(q) = <<>> => Len(q) = 1
        BY <3>3
      <4>. QED BY <2>2, <3>1, <3>2, <3>3, <4>1
    <3>6. LastOn(Append(wire, Head(q)), Tail(q) # <<>>, n)
      <4>1. Head(q) \in Frames
        BY <3>1, <3>2, RangeFacts
      <4>. QED BY <1>1, <3>3, <3>5, <4>1, LastSent
    <3>7. joined
      <4>1. Head(q) \in InFlight
        BY <3>1, <3>2, RangeFacts DEF InFlight
      <4>. QED BY <2>2, <4>1
    <3>. QED BY <2>2, <3>1, <3>2, <3>4, <3>6, <3>7
  <2>8. CASE SendControl
    <3>1. /\ control.deque # <<>> /\ wire' = Append(wire, Head(control.deque)) /\ UNCHANGED <<queue, joined, seq>>
      BY <2>8 DEF SendControl, AtControl, bridgeVars
    <3>2. PICK e \in ServerFrames : e = Head(control.deque) /\ e \notin Frames
      <4>1. PICK r \in Seq(Replies) : r = control.deque
        BY <1>1
      <4>2. Head(r) \in Replies
        BY <3>1, <4>1, RangeFacts
      <4>. QED BY <4>1, <4>2 DEF ServerFrames, Frames, LaneFrame, Snapshots, Replies
    <3>3. LastOn(Append(wire, e), queue.deque # <<>>, seq)
      BY <1>1, <2>2, <3>2, LastSent
    <3>4. InFlight' = InFlight
      <4>1. Range(Append(wire, e)) = Range(wire) \cup {e}
        BY <1>1, RangeFacts
      <4>. QED BY <3>1, <3>2, <4>1 DEF InFlight
    <3>. QED BY <2>2, <3>1, <3>2, <3>3, <3>4
  <2>9. CASE Receive
    <3>1. wire # <<>> /\ wire' = Tail(wire) /\ UNCHANGED <<queue, joined, seq>>
      BY <2>9 DEF Receive, queueVars, bridgeVars
    <3>2. LastOn(Tail(wire), queue.deque # <<>>, seq)
      BY <1>1, <2>2, <3>1, LastTaken
    <3>3. Range(Tail(wire)) \subseteq Range(wire)
      BY <1>1, <3>1, RangeFacts
    <3>. QED BY <2>2, <3>1, <3>2, <3>3 DEF InFlight
  <2>10. ~CloseTooSlow /\ ~ReceiveClose /\ ~Drop
    BY DEF CloseTooSlow, ReceiveClose, Drop, Disconnected, TornDown
  <2>11. CASE HandleSubscribe \/ SenderWaits \/ SenderWakes \/ Resubscribe
    BY <2>3, <2>11 DEF HandleSubscribe, SenderWaits, SenderWakes, Resubscribe, bridgeVars, queueVars
  <2>. QED BY <1>3, <2>3, <2>4, <2>5, <2>6, <2>7, <2>8, <2>9, <2>10, <2>11, SessionFacts, AppFacts
       DEF Next, Server, Handlers, Sender, Receiver, Finished, vars
<1>. QED BY <1>2, <1>3

LEMMA ConnHolds ==
    ASSUME TypeOK, NewInv, ConnInv, [Next]_vars PROVE ConnInv'
BY ConnStateHolds, ConnFramesHold DEF ConnInv

\* A frame that is queued is on its way.
LEMMA QueueFlies ==
    ASSUME TypeOK', queue'.deque # <<>> PROVE InFlight' # {}
<1>1. PICK q \in Seq(Frames) : q = queue'.deque
  BY DEF TypeOK, ServerTypeOK, Frames
<1>2. Head(q) \in Range(q) /\ Range(q) \subseteq Frames
  BY <1>1, RangeFacts
<1>. QED BY <1>1, <1>2 DEF InFlight

\* The frame after the one that is taken, or none.
LEMMA ReachReceives ==
    ASSUME TypeOK, TypeOK', StartInv, ConnInv, ReachInv, Receive, conn' = "open", lane' = "STREAMING", ~told'
    PROVE  joined' /\ (lastSeq' = seq' \/ InFlight' # {})
<1>1. /\ wire \in Seq(ServerFrames) /\ wire # <<>> /\ wire' = Tail(wire) /\ conn = "open" /\ link = "up"
      /\ UNCHANGED <<queue, joined, seq>>
  BY DEF Receive, TypeOK, ServerTypeOK, ServerFrames, Frames, queueVars, bridgeVars
<1>2. PICK f \in ServerFrames :
         /\ f = Head(wire) /\ (f.type = "error" \/ f \in InFlight)
         /\ \/ f.type = "snapshot" /\ f \in Snapshots /\ OnSnapshot(f)
            \/ f.type = "error" /\ OnError(f)
            \/ f \in LaneFrame /\ OnFrame(f)
  BY ReceiveFacts
<1>3. CASE f.type = "error" /\ OnError(f)
  <2>1. UNCHANGED <<lane, told, lastSeq>>
    BY <1>3 DEF OnError
  <2>2. joined /\ (lastSeq = seq \/ InFlight # {})
    BY <1>1, <2>1 DEF ReachInv
  <2>3. f \notin Frames
    BY <1>3, FrameFacts
  <2>4. Range(wire) = {f} \cup Range(Tail(wire))
    BY <1>1, <1>2, RangeFacts
  <2>5. InFlight' = InFlight
    BY <1>1, <2>3, <2>4 DEF InFlight
  <2>. QED BY <1>1, <2>1, <2>2, <2>5
<1>4. CASE f.type # "error"
  <2>1. f \in InFlight /\ lastSeq' = f.seq
    <3>1. OnFrame(f) => lastSeq' = f.seq
      BY DEF OnFrame, Waiting
    <3>2. OnSnapshot(f) => lastSeq' = f.seq
      BY DEF OnSnapshot
    <3>. QED BY <1>2, <1>4, <3>1, <3>2
  <2>2. joined /\ f \in Frames
    BY <1>1, <2>1 DEF ConnInv, InFlight
  <2>3. /\ 1 \in DOMAIN wire /\ wire[1] = f /\ DOMAIN wire = 1 .. Len(wire) /\ Len(wire) \in Nat
        /\ Tail(wire) \in Seq(ServerFrames)
        /\ Len(Tail(wire)) = Len(wire) - 1
        /\ \A i \in 1 .. Len(wire) - 1 : Tail(wire)[i] = wire[i + 1]
    <3>1. Len(wire) \in Nat /\ DOMAIN wire = 1 .. Len(wire) /\ Len(wire) # 0
      BY <1>1, LenProperties, EmptySeq
    <3>. QED BY <1>1, <1>2, <3>1, HeadTailProperties
  <2>4. LastOn(wire, queue.deque # <<>>, seq)
    BY <1>1 DEF ConnInv
  <2>5. CASE f.seq = seq
    BY <1>1, <2>1, <2>2, <2>5
  <2>6. CASE queue.deque # <<>>
    BY <1>1, <2>2, <2>6, QueueFlies
  <2>7. CASE \E j \in DOMAIN wire : 1 < j /\ wire[j] \in Frames
    <3>1. PICK j \in 1 .. Len(wire) : 1 < j /\ wire[j] \in Frames
      BY <2>3, <2>7
    <3>2. j - 1 \in 1 .. Len(wire) - 1 /\ (j - 1) + 1 = j
      BY <2>3, <3>1
    <3>3. Tail(wire)[j - 1] = wire[j] /\ j - 1 \in 1 .. Len(Tail(wire))
      BY <2>3, <3>2
    <3>4. wire[j] \in Range(Tail(wire))
      BY <2>3, <3>3, RangeEquality
    <3>. QED BY <1>1, <2>2, <3>1, <3>4 DEF InFlight
  <2>. QED BY <2>2, <2>3, <2>4, <2>5, <2>6, <2>7 DEF LastOn
<1>. QED BY <1>2, <1>3, <1>4 DEF LaneFrame, Snapshots

LEMMA ReachHolds ==
    ASSUME TypeOK, TypeOK', StartInv, NewInv, ConnInv, ReachInv, [Next]_vars PROVE ReachInv'
<1>. SUFFICES ASSUME conn' = "open", link' = "up", lane' = "STREAMING", ~told'
              PROVE  joined' /\ (lastSeq' = seq' \/ InFlight' # {})
  BY DEF ReachInv
<1>1. CASE Receive
  BY <1>1, ReachReceives
<1>2. ~ReceiveClose /\ ~Drop /\ ~Reconnect /\ ~Resubscribe
  BY DEF ReceiveClose, Drop, Disconnected, Reconnect, Resubscribe
<1>3. CASE ~Receive
  <2>1. UNCHANGED <<link, lane, lastSeq, told>>
    <3>1. CASE App
      BY <3>1, AppFacts DEF App, EnsureSubscribed, SendSubscribe, ReadSnapshot, ReadFails, ApplyOverlay, laneVars
    <3>. QED BY <1>2, <1>3, <3>1, SessionFacts, ServerFacts DEF Next, Receiver, Finished, vars
  <2>2. conn = "open"
    BY <1>2, <1>3, ServerFacts, SessionFacts, AppFacts
       DEF Next, Server, Handlers, Sender, Drain, HandleSubscribe, Attach, Snapshot, SendControl, SendSession,
           CloseTooSlow, SenderWaits, SenderWakes, Receiver, Finished, vars
  <2>3. joined /\ (lastSeq = seq \/ InFlight # {})
    BY <2>1, <2>2 DEF ReachInv
  <2>4. CASE UNCHANGED <<wire, queue, seq, joined>>
    BY <2>1, <2>3, <2>4 DEF InFlight
  <2>5. CASE Drain
    <3>1. PICK D \in Seq(LaneFrame) : D # <<>> /\ queue' = Push(queue, D)
      BY <2>3, <2>5, FlightDrains
    <3>2. queue'.deque # <<>>
      <4>1. /\ D \in Seq(Frames) /\ queue.deque \in Seq(Frames) /\ queue.dropped \in Nat
        BY TypeFacts, SeqSubset DEF Frames
      <4>. QED BY <3>1, <4>1, PushRange
    <3>3. joined' = joined
      BY <2>5 DEF Drain
    <3>. QED BY <2>3, <3>2, <3>3, QueueFlies
  <2>6. CASE Snapshot
    <3>1. PICK s \in Snapshots : queue'.deque = <<s>>
      BY <2>6, FlightSnapshot
    <3>2. queue'.deque # <<>> /\ joined'
      BY <2>6, <3>1 DEF Snapshot
    <3>. QED BY <3>2, QueueFlies
  <2>7. CASE Attach
    <3>1. UNCHANGED <<wire, queue, joined>> /\ (attached \/ ending \in {"no", "ended"})
      BY <2>2, <2>7 DEF Attach
    <3>2. attached
      BY <2>1, <3>1 DEF NewInv
    <3>3. seq' = seq
      BY <2>7, <3>2 DEF Attach
    <3>. QED BY <2>4, <3>1, <3>3
  <2>8. CASE SendSession \/ SendControl
    <3>1. /\ wire \in Seq(ServerFrames) /\ queue.deque \in Seq(Frames) /\ control.deque \in Seq(Replies)
          /\ queue \in [deque : Seq(Frames), dropped : Nat]
      BY DEF TypeOK, ServerTypeOK, ServerFrames, Frames
    <3>2. PICK q \in Seq(Frames), r \in Seq(Replies) : q = queue.deque /\ r = control.deque
      BY <3>1
    <3>3. /\ \A f \in Frames : f \in ServerFrames
          /\ \A f \in Replies : f \in ServerFrames
      BY DEF ServerFrames, Frames
    <3>4. joined' = joined /\ seq' = seq
      BY <2>8 DEF SendSession, SendControl, bridgeVars
    <3>5. InFlight \subseteq InFlight'
      <4>1. CASE SendSession
        <5>1. q # <<>> /\ wire' = Append(wire, Head(q)) /\ queue'.deque = Tail(q)
          BY <3>1, <3>2, <4>1 DEF SendSession
        <5>2. Range(q) = {Head(q)} \cup Range(Tail(q)) /\ Head(q) \in ServerFrames
          BY <3>3, <5>1, RangeFacts
        <5>3. Range(Append(wire, Head(q))) = Range(wire) \cup {Head(q)}
          BY <3>1, <5>2, RangeFacts
        <5>. QED BY <3>2, <5>1, <5>2, <5>3 DEF InFlight
      <4>2. CASE SendControl
        <5>1. r # <<>> /\ wire' = Append(wire, Head(r)) /\ queue' = queue
          BY <3>2, <4>2 DEF SendControl, AtControl
        <5>2. Head(r) \in ServerFrames
          BY <3>3, <5>1, RangeFacts
        <5>3. Range(Append(wire, Head(r))) = Range(wire) \cup {Head(r)}
          BY <3>1, <5>2, RangeFacts
        <5>. QED BY <5>1, <5>3 DEF InFlight
      <4>. QED BY <2>8, <4>1, <4>2
    <3>. QED BY <2>1, <2>3, <3>4, <3>5
  <2>9. ~CloseTooSlow
    BY DEF CloseTooSlow
  <2>10. CASE HandleSubscribe \/ SenderWaits \/ SenderWakes
    BY <2>4, <2>10 DEF HandleSubscribe, SenderWaits, SenderWakes, bridgeVars, queueVars
  <2>. QED BY <1>2, <1>3, <2>4, <2>5, <2>6, <2>7, <2>8, <2>9, <2>10, SessionFacts, AppFacts
       DEF Next, Server, Handlers, Sender, Receiver, Finished, vars
<1>. QED BY <1>1, <1>3

---------------------------------------------------------------------------
(* The theorems. *)

LEMMA StreamInit ==
    ASSUME Init
    PROVE  StreamInv
<1>1. /\ version = 0 /\ pending = FALSE /\ lines = 0 /\ ending = "no"
      /\ attached = FALSE /\ inbox = EmptyInbox /\ seq = 0
      /\ conn = "open" /\ joined = FALSE /\ queue = EmptyQueue /\ control = EmptyQueue
      /\ sender = "control" /\ round = FALSE /\ wake = FALSE
      /\ loop = Idle /\ up = <<>> /\ wire = <<>>
  BY DEF Init, ServerInit
<1>2. /\ link = "up" /\ drops = 0
      /\ lane = "IDLE" /\ lastSeq = NoSeq /\ sent = 0 /\ table = {} /\ subId = 0
      /\ app = "start" /\ overlay = {}
      /\ view = 0 /\ told = FALSE /\ base = "unseeded"
  BY DEF Init
<1>3. TypeOK
  <2>0. 0 \in 0 .. MaxEvents
    BY BoundsAssumption
  <2>1. SessionTypes
    <3>1. pending \in BOOLEAN
      BY <1>1
    <3>. QED BY <1>1, <2>0, <3>1 DEF SessionTypes
  <2>2. BridgeTypes
    BY <1>1, InboxTypes DEF BridgeTypes
  <2>3. QueueTypes
    <3>1. /\ <<>> \in Seq(Frames) /\ <<>> \in Seq(Replies) /\ Len(<<>>) = 0 /\ 0 <= QSize
      BY CapacityAssumption
    <3>. QED BY <1>1, <3>1 DEF QueueTypes, EmptyQueue
  <2>4. ConnTypes
    <3>1. <<>> \in Seq(Nat) /\ <<>> \in Seq(ServerFrames)
      OBVIOUS
    <3>2. round \in BOOLEAN /\ wake \in BOOLEAN
      BY <1>1
    <3>3. loop \in [at : {"idle", "attach", "snapshot"}]
      BY <1>1 DEF Idle
    <3>. QED BY <1>1, <3>1, <3>2, <3>3 DEF ConnTypes
  <2>5. LaneTypes
    BY <1>2, MaxDropsAssumption DEF LaneTypes
  <2>6. ViewTypes
    <3>1. told \in BOOLEAN
      BY <1>2
    <3>. QED BY <1>2, <2>0, <3>1 DEF ViewTypes
  <2>. QED BY <2>1, <2>2, <2>3, <2>4, <2>5, <2>6, TypeParts
<1>4. InboxInv
  BY <1>1 DEF InboxInv, StatusAt, EmptyInbox
<1>5. InFlight = {}
  BY <1>1 DEF InFlight, Range, EmptyQueue
<1>6. FlightInv /\ NewInv
  BY <1>1, <1>2, <1>5 DEF FlightInv, NewInv, Idle
<1>7. LaneInv /\ SubscribingInv /\ ReachInv
  BY <1>2 DEF LaneInv, SubscribingInv, ReachInv
<1>8. ViewInv /\ StartInv
  BY <1>1, <1>2 DEF ViewInv, StartInv
<1>9. EndInv
  <2>1. \A f \in Range(wire) : f.type # "error"
    BY <1>1 DEF Range
  <2>. QED BY <1>1, <1>2, <1>5, <2>1 DEF EndInv
<1>10. ConnInv
  <2>1. LastOn(wire, queue.deque # <<>>, seq) /\ Close \notin Range(wire) /\ queue.deque = <<>>
    BY <1>1 DEF LastOn, Range, EmptyQueue
  <2>. QED BY <1>1, <1>2, <1>5, <2>1 DEF ConnInv
<1>. QED BY <1>3, <1>4, <1>6, <1>7, <1>8, <1>9, <1>10 DEF StreamInv

LEMMA StreamInductive ==
    ASSUME StreamInv, [Next]_vars
    PROVE  StreamInv'
<1>1. /\ TypeOK /\ InboxInv /\ FlightInv /\ LaneInv /\ SubscribingInv /\ ViewInv
      /\ StartInv /\ EndInv /\ NewInv /\ ConnInv /\ ReachInv
  BY DEF StreamInv
<1>2. TypeOK'
  BY <1>1, TypeHolds
<1>3. InboxInv'
  BY <1>1, InboxHolds
<1>4. FlightInv'
  BY <1>1, FlightHolds
<1>5. ViewInv'
  BY <1>1, ViewHolds
<1>6. LaneInv'
  BY <1>1, LaneHolds
<1>7. SubscribingInv'
  BY <1>1, <1>5, SubscribingHolds
<1>8. StartInv'
  BY <1>1, StartHolds
<1>9. EndInv'
  BY <1>1, EndHolds
<1>10. NewInv'
  BY <1>1, NewHolds
<1>11. ConnInv'
  BY <1>1, ConnHolds
<1>12. ReachInv'
  BY <1>1, <1>2, ReachHolds
<1>. QED BY <1>2, <1>3, <1>4, <1>5, <1>6, <1>7, <1>8, <1>9, <1>10, <1>11, <1>12 DEF StreamInv

\* Every variable keeps its type, and no queue grows beyond its capacity.
THEOREM StreamTypeOK == Spec => []TypeOK
<1>1. Init => TypeOK /\ InboxInv
  BY StreamInit DEF StreamInv
<1>2. TypeOK /\ InboxInv /\ [Next]_vars => (TypeOK /\ InboxInv)'
  BY TypeHolds, InboxHolds
<1>. QED BY <1>1, <1>2, PTL DEF Spec

\* Whoever shows a status of a frame on its way, and a lane that streams until its
\* subscriber is told of the end, is up to date or will hear of a status, at most
\* one write ahead, or of a gap.
THEOREM StreamInvariant == Spec => []StreamInv
<1>1. StreamInv /\ [Next]_vars => StreamInv'
  BY StreamInductive
<1>. QED BY <1>1, StreamInit, PTL DEF Spec

\* A subscriber that heard anything shows what the store holds once nothing is on
\* its way, through every drop, gap, overflow and reconnect.
THEOREM ViewExact == Spec => []ViewIsExact
<1>1. StreamInv => ViewIsExact
  <2>. SUFFICES ASSUME StreamInv, Quiet, ending = "no", lane = "STREAMING", base = "exact"
                PROVE  view = version
    BY DEF ViewIsExact
  <2>1. /\ wire = <<>> /\ queue.deque = <<>> /\ inbox = EmptyInbox /\ ~pending
        /\ link = "up" /\ conn = "open"
    BY DEF Quiet
  <2>2. /\ version \in Nat /\ view \in Nat /\ seq \in Nat /\ view <= version /\ ~told
        /\ lastSeq = seq \/ InFlight # {}
    BY <2>1, TypeFacts DEF StreamInv, ViewInv, EndInv, ReachInv
  <2>3. InFlight = {}
    BY <2>1 DEF InFlight, Range
  <2>4. view \in Held
    BY DEF Held
  <2>5. Caught(seq, view)
    BY <2>2, <2>3, <2>4 DEF StreamInv, LaneInv, Following
  <2>6. ~StatusHeard
    BY <2>1 DEF StatusHeard, StatusAt, EmptyInbox
  <2>7. ~Break(seq, seq + 1)
    BY <2>2 DEF Break
  <2>8. Published <= view
    BY <2>5, <2>6, <2>7 DEF Caught
  <2>. QED BY <2>1, <2>2, <2>8 DEF Published
<1>. QED BY <1>1, StreamInvariant, PTL

\* The next status that a streaming lane dispatches is at most one write ahead of
\* the status its subscriber shows.
LEMMA NextIsNear ==
    ASSUME StreamInv, [Next]_vars, lane = "STREAMING", lane' = "STREAMING", base = "exact", ~told, app' = app
    PROVE  view' <= view + 1
<1>1. TypeOK /\ view \in Nat /\ lastSeq \in Nat /\ Steady(lastSeq, view)
  <2>1. view \in Held
    BY DEF Held
  <2>2. TypeOK /\ lastSeq \in Nat /\ Following(lastSeq, view)
    BY <2>1 DEF StreamInv, LaneInv
  <2>. QED BY <2>2, TypeFacts DEF Following
<1>2. CASE view' = view
  BY <1>1, <1>2
<1>3. CASE Receive
  <2>1. PICK f \in ServerFrames :
           /\ f.type = "error" \/ f \in InFlight
           /\ OnSnapshot(f) \/ OnError(f) \/ OnFrame(f)
    BY <1>1, <1>3, ReceiveFacts
  <2>2. CASE OnSnapshot(f) \/ OnError(f)
    <3>1. view' = view
      BY <2>2 DEF OnSnapshot, OnError
    <3>. QED BY <1>2, <3>1
  <2>3. CASE OnFrame(f) /\ view' # view
    <3>1. ~Gap(f) /\ IsStatus(f) /\ view' = f.v
      BY <2>3 DEF OnFrame, Dispatch, IsStatus, viewVars
    <3>2. f \in InFlight /\ f \in Frames
      BY <2>1, <3>1 DEF IsStatus, InFlight
    <3>3. f.seq = lastSeq + 1
      BY <1>1, <3>1 DEF Gap, NoSeq
    <3>4. f.v <= view + 1 \/ Break(lastSeq, f.seq)
      BY <1>1, <3>1, <3>2, <3>3 DEF Steady
    <3>5. ~Break(lastSeq, f.seq)
      BY <1>1, <3>3 DEF Break
    <3>. QED BY <3>1, <3>4, <3>5
  <2>. QED BY <1>2, <2>1, <2>2, <2>3
<1>4. CASE ~Receive
  <2>1. ~ApplyOverlay
    BY DEF ApplyOverlay
  <2>2. view' = view
    BY <1>4, <2>1, SessionFacts, ServerFacts
       DEF Next, Receiver, ReceiveClose, Drop, Disconnected, Reconnect, Resubscribe, App, EnsureSubscribed,
           SendSubscribe, ReadSnapshot, ReadFails, viewVars, Finished, vars
  <2>. QED BY <1>2, <2>2
<1>. QED BY <1>3, <1>4

\* A streaming subscriber misses no transition: what it hears next is at most one
\* write ahead, until it is told of the end.
THEOREM NoLossIsSilent == Spec => NoSilentLoss
<1>1. StreamInv /\ [Next]_vars =>
        [lane = "STREAMING" /\ lane' = "STREAMING" /\ base = "exact" /\ ~told
         /\ app' = app => view' <= view + 1]_vars
  BY NextIsNear
<1>. QED BY <1>1, StreamInvariant, PTL DEF Spec, NoSilentLoss
=============================================================================
