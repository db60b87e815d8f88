----------------------------- MODULE ScreenProofs -----------------------------
(***************************************************************************)
(* Proofs about Screen: what a client shows of a session follows the       *)
(* session, for any number of batches, tasks, gaps of the lane and returns *)
(* to the screen.  The argument is about what is still on its way: every   *)
(* difference between the screen and the session is made up for by a       *)
(* message of the queue, by the snapshot in hand or by a refresh in        *)
(* flight.                                                                 *)
(***************************************************************************)
EXTENDS Screen, SequenceTheorems, FiniteSetTheorems, WellFoundedInduction, TLAPS

Phases == {"none", "opened", "admitted", "body", "completed", "closed"}
Over == {"completed", "closed"}   \* the body of the batch is over
BatchStatuses == {"QUEUED", "RUNNING", "STOPPED", "FINISHED"}
Statuses == {"INITIALIZED", "RUNNING", "ABORTED"} \cup Outcomes
RowStatuses == {"READY_TO_PROCESS"} \cup Statuses
Infos == [status : BatchStatuses, done : BOOLEAN, tasks : SUBSET Tasks]
BatchEvents == [kind : {"created", "completed"}, batch : Batches, info : Infos]
TaskEvents == [kind : {"task"}, task : Tasks, status : Statuses]
RecordEvents == [kind : {"record"}, batch : Batches, task : Tasks, status : RowStatuses]
Events == BatchEvents \cup TaskEvents \cup RecordEvents
Works == [task : Tasks, goal : Statuses, at : {"record", "log", "append", "body"},
          claims : BOOLEAN, hears : BOOLEAN]

\* The types, one conjunct per part of the state.
ServerTypes ==
    /\ phase \in [Batches -> Phases] /\ batch \in [Batches -> BatchStatuses]
    /\ stopping \subseteq Batches /\ status \in [Tasks -> Statuses]
    /\ ended \in BOOLEAN /\ link \in {"local", "up", "down"}
    /\ DOMAIN record = Batches /\ DOMAIN work = Batches
    /\ \A b \in Batches :
          /\ record[b] = Nothing \/ record[b] \in [TasksOf[b] -> RowStatuses]
          /\ work[b] = Nothing \/ (work[b] \in Works /\ work[b].task \in TasksOf[b])
ScreenTypes ==
    /\ stage \in {"none", "installed", "composed", "reading", "overlay", "live"}
    /\ subscribed \in BOOLEAN /\ turns \in Nat
    /\ mirror = Nothing \/ mirror \in [Tasks -> Statuses]
    /\ snapshot = Nothing \/ snapshot \in [Tasks -> Statuses]
QueueTypes ==
    /\ queue \in Seq(Events)
    /\ \A i \in DOMAIN queue : queue[i].kind = "created" => queue[i].info.tasks \subseteq TasksOf[queue[i].batch]
CardTypes ==
    /\ DOMAIN cards \subseteq Batches /\ begun \in Nat
    /\ \A b \in DOMAIN cards :
          DOMAIN cards[b] = {"active", "rows"} /\ DOMAIN cards[b].rows \subseteq TasksOf[b]
    /\ \A r \in refreshes :
          DOMAIN r = {"n", "batch", "read", "rows"} /\ r.batch \in Batches /\ r.read \in BOOLEAN
    /\ missed \subseteq Batches /\ overlapped \subseteq Batches
LogTypes ==
    /\ buffer \in Seq(Batches) /\ lines \in Seq(Batches) /\ shown \in Seq(Batches)
    /\ view \in {"closed", "attached", "open"} /\ straddled \subseteq Batches
Types == ServerTypes /\ ScreenTypes /\ QueueTypes /\ CardTypes /\ LogTypes

\* How a batch goes: what its phase says of its records, its worker and its status.
FlowInv ==
    /\ \A b \in Batches :
          /\ record[b] = Nothing <=> phase[b] \in {"none", "opened"}
          /\ phase[b] # "body" => work[b] = Nothing
          /\ phase[b] \in Over => batch[b] \notin Active
          /\ batch[b] = "STOPPED" => b \in stopping
          /\ batch[b] = "FINISHED" => phase[b] \in Over
          /\ ended => phase[b] \in {"none", "closed"}

\* What the screen has before it listens.
StageInv ==
    /\ stage # "none" => mirror \in [Tasks -> Statuses]
    /\ stage \in {"none", "installed"} => DOMAIN cards = {}
    /\ stage \in {"none", "installed", "composed"} => ~subscribed
    /\ ~subscribed => queue = <<>> /\ refreshes = {}

IsCreated(e, b) == e.kind = "created" /\ e.batch = b
IsCompleted(e, b) == e.kind = "completed" /\ e.batch = b
Stale(e, b) == (e.kind = "record" /\ e.batch = b) \/ (IsCreated(e, b) /\ ~e.info.done)
Right(e, t) == e.kind = "task" /\ e.task = t /\ e.status = status[t]
Linked == subscribed /\ link # "down"
\* The client misses nothing: it listens, or will before anything else happens.
Listening == stage = "composed" \/ Linked

HasCreated(q, b) == \E i \in DOMAIN q : IsCreated(q[i], b)
HasCompleted(q, b) == \E i \in DOMAIN q : IsCompleted(q[i], b)
HasStale(q, b) == \E i \in DOMAIN q : Stale(q[i], b)

\* What a message of a queue says holds for good, and what is older than the
\* completion of a batch came before it.
QueueRight(q, phases, stops, linked) ==
    \A i \in DOMAIN q, b \in Batches :
       /\ IsCompleted(q[i], b) => phases[b] \in Over
       /\ IsCreated(q[i], b) /\ q[i].info.status \notin Active => b \in stops \/ phases[b] \in Over
       /\ \A j \in DOMAIN q : i < j /\ IsCompleted(q[i], b) => ~Stale(q[j], b)
       /\ linked /\ phases[b] = "closed" /\ IsCreated(q[i], b) =>
             \E j \in DOMAIN q : i < j /\ IsCompleted(q[j], b)
QueueInv == QueueRight(queue, phase, stopping, Linked)

\* The card of a batch and its stop.
CardInv ==
    /\ \A b \in Batches \ missed :
          Listening /\ phase[b] \in {"body", "completed", "closed"} =>
             b \in DOMAIN cards \/ HasCreated(queue, b)
    /\ \A b \in DOMAIN cards \ missed :
          Listening /\ phase[b] = "closed" /\ cards[b].active => HasCompleted(queue, b)
    /\ \A b \in DOMAIN cards : batch[b] \in Active /\ b \notin stopping => cards[b].active

\* A closed batch: its completion is on its way, or a refresh, or the rows are right
\* and nothing older can spoil them.
Fresh(b) == \A r \in refreshes : r.batch = b /\ r.read => r.rows = record[b]
RowsRight(b) == \A t \in DOMAIN cards[b].rows : cards[b].rows[t] = record[b][t]
Settled(b) ==
    \/ HasCompleted(queue, b)
    \/ /\ ~HasStale(queue, b) /\ Fresh(b)
       /\ (\E r \in refreshes : r.batch = b) \/ RowsRight(b)
RowsInv ==
    \A b \in DOMAIN cards \ (missed \cup overlapped) : Listening /\ phase[b] = "closed" => Settled(b)

\* A task whose status the screen does not have: a message that has it follows.
Says(e, t, s) == e.kind = "task" /\ e.task = t /\ e.status = s
Told(q, t, s) == \E i \in DOMAIN q : Says(q[i], t, s)
QueueTells(q, store) ==
    \A i \in DOMAIN q, t \in Tasks :
       q[i].kind = "task" /\ q[i].task = t /\ q[i].status # store[t] =>
          \E j \in DOMAIN q : i < j /\ Says(q[j], t, store[t])
Shows(statuses, t) == t \in DOMAIN statuses /\ statuses[t] = status[t]
MirrorInv ==
    Linked /\ ~ended =>
        /\ QueueTells(queue, status)
        /\ stage = "overlay" => \A t \in Tasks : Shows(snapshot, t) \/ Told(queue, t, status[t])
        /\ stage = "live" => \A t \in Tasks : Shows(mirror, t) \/ Told(queue, t, status[t])

\* A line of the buffer was shown, is on its way, or straddled the opening.
LineInv ==
    /\ view # "closed" => \A b \in Batches : At(b, "append") /\ ~work[b].hears => b \in straddled
    /\ view = "open" =>
          \A i \in DOMAIN buffer :
             buffer[i] \in straddled \cup Range(shown) \cup Range(lines)

ScreenInv == Types /\ FlowInv /\ StageInv /\ QueueInv /\ CardInv /\ RowsInv /\ MirrorInv /\ LineInv

---------------------------------------------------------------------------
(* Sequences. *)

\* A set of numbers has a least one.
LEMMA LeastExists ==
    ASSUME NEW S \in SUBSET Nat, S # {}
    PROVE \E n \in S : \A m \in S : n <= m
<1> DEFINE R == {ss \in Nat \X Nat : ss[1] < ss[2]}
<1>1. IsWellFoundedOn(R, Nat)
  BY NatLessThanWellFounded DEF OpToRel
<1>2. \E x \in S : \A y \in S : ~ (<<y, x>> \in R)
  <2> HIDE DEF R
  <2> QED BY <1>1, WFMin, Zenon
<1>3. PICK x \in S : \A y \in S : ~ (<<y, x>> \in R)
  BY <1>2
<1>4. ASSUME NEW y \in S PROVE x <= y
  <2>1. x \in Nat /\ y \in Nat
    OBVIOUS
  <2>2. <<y, x>> \in R <=> y < x
    BY <2>1
  <2>3. ~ (y < x)
    BY <1>3, <2>2, Zenon
  <2> QED BY <2>1, <2>3
<1> QED BY <1>4

\* The elements of a finite set, in some order (SetToSeq).
LEMMA SetToSeqFacts ==
    ASSUME NEW S, IsFiniteSet(S)
    PROVE  /\ SetToSeq(S) \in Seq(S) /\ Len(SetToSeq(S)) = Cardinality(S)
           /\ Cardinality(S) \in Nat
           /\ \A x \in S : \E i \in 1 .. Cardinality(S) : SetToSeq(S)[i] = x
<1>1. Cardinality(S) \in Nat /\ ExistsBijection(1 .. Cardinality(S), S)
  BY FS_CardinalityType
<1>2. PICK n \in Nat : n = Cardinality(S)
  BY <1>1
<1>3. \E f \in [1 .. n -> S] : IsInjective(f)
  BY <1>1, <1>2 DEF ExistsBijection, Bijection, Injection
<1>4. PICK f : f = SetToSeq(S)
  OBVIOUS
<1>5. f \in [1 .. n -> S] /\ IsInjective(f)
  BY <1>2, <1>3, <1>4 DEF SetToSeq
<1>6. f \in Surjection(1 .. n, S)
  <2>1. f \in Injection(1 .. n, S)
    BY <1>5 DEF Injection
  <2>2. IsFiniteSet(1 .. n) /\ Cardinality(1 .. n) = n
    BY FS_Interval
  <2>. QED BY <1>2, <2>1, <2>2, FS_Injection
<1>7. f \in Seq(S) /\ Len(f) = n
  BY <1>5
<1>. QED BY <1>1, <1>2, <1>4, <1>6, <1>7 DEF Surjection

\* The partial concatenations FlattenSeq goes through.
LEMMA FlattenSteps ==
    ASSUME NEW E, NEW s \in Seq(Seq(E)), s # <<>>
    PROVE  \E f : /\ FlattenSeq(s) = f[Len(s)] /\ f[1] = s[1]
                  /\ \A i \in 2 .. Len(s) : f[i] = f[i - 1] \o s[i]
<1>1. PICK n \in Nat \ {0} : n = Len(s)
  BY EmptySeq
<1> DEFINE Step(g, i) == g[i] = IF i = 1 THEN s[i] ELSE g[i - 1] \o s[i]
           Part(m) == \E g \in [1 .. m -> Seq(E)] : \A i \in 1 .. m : Step(g, i)
           Bad == {m \in 1 .. n : ~Part(m)}
<1>2. \A i \in 1 .. n : s[i] \in Seq(E)
  BY <1>1, ElementOfSeq
<1>3. Bad = {}
  <2>1. SUFFICES ASSUME Bad # {} PROVE FALSE
    OBVIOUS
  <2>2. PICK m \in Bad : \A k \in Bad : m <= k
    <3>1. Bad \in SUBSET Nat
      BY <1>1
    <3>. HIDE DEF Bad
    <3>. QED BY <2>1, <3>1, LeastExists
  <2>3. m \in 1 .. n /\ ~Part(m)
    <3>. HIDE DEF Part
    <3>. QED BY <2>2
  <2>4. CASE m = 1
    <3>1. PICK g : g = [i \in 1 .. 1 |-> s[1]]
      OBVIOUS
    <3>2. g \in [1 .. 1 -> Seq(E)]
      BY <1>1, <1>2, <3>1
    <3>3. \A i \in 1 .. 1 : Step(g, i)
      BY <3>1
    <3>4. Part(1)
      BY <3>2, <3>3
    <3>. QED BY <2>3, <2>4, <3>4
  <2>5. CASE m # 1
    <3>1. m - 1 \in 1 .. n /\ Part(m - 1)
      <4>. HIDE DEF Part
      <4>1. m - 1 \in 1 .. n /\ ~(m <= m - 1)
        BY <1>1, <2>3, <2>5
      <4>2. m - 1 \notin Bad
        <5>. HIDE DEF Bad
        <5>. QED BY <2>2, <4>1
      <4>. QED BY <4>1, <4>2
    <3>2. PICK g \in [1 .. m - 1 -> Seq(E)] : \A i \in 1 .. m - 1 : Step(g, i)
      BY <3>1
    <3>3. PICK h : h = [i \in 1 .. m |-> IF i = m THEN g[m - 1] \o s[m] ELSE g[i]]
      OBVIOUS
    <3>4. g[m - 1] \o s[m] \in Seq(E)
      BY <1>2, <2>3, <3>1, <3>2, ConcatProperties
    <3>5. h \in [1 .. m -> Seq(E)]
      BY <2>3, <3>1, <3>2, <3>3, <3>4
    <3>. HIDE DEF Part, Bad
    <3>6. ASSUME NEW i \in 1 .. m PROVE Step(h, i)
      <4>1. CASE i = m
        <5>1. m \in 1 .. m /\ m - 1 \in 1 .. m /\ m - 1 # m
          BY <1>1, <2>3, <3>1
        <5>2. h[m] = g[m - 1] \o s[m]
          BY <3>3, <5>1
        <5>3. h[m - 1] = g[m - 1]
          BY <3>3, <5>1
        <5>. QED BY <2>5, <4>1, <5>2, <5>3
      <4>2. CASE i # m
        <5>1. i \in 1 .. m - 1 /\ (i # 1 => i - 1 \in 1 .. m /\ i - 1 # m)
          BY <1>1, <2>3, <3>6, <4>2
        <5>2. h[i] = g[i] /\ (i # 1 => h[i - 1] = g[i - 1])
          BY <3>3, <3>6, <4>2, <5>1
        <5>3. Step(g, i)
          BY <3>2, <5>1
        <5>. QED BY <5>2, <5>3
      <4>. QED BY <4>1, <4>2
    <3>7. Part(m)
      BY <3>5, <3>6 DEF Part
    <3>. QED BY <2>3, <3>7
  <2>. QED BY <2>4, <2>5
<1>4. Part(n)
  <2>. HIDE DEF Part
  <2>1. n \in 1 .. n /\ n \notin Bad
    <3>. HIDE DEF Bad
    <3>. QED BY <1>3
  <2>. QED BY <2>1
<1>5. PICK g \in [1 .. n -> Seq(E)] : \A i \in 1 .. n : Step(g, i)
  BY <1>4
<1> DEFINE F == CHOOSE f : f = [i \in 1 .. Len(s) |-> IF i = 1 THEN s[i] ELSE f[i - 1] \o s[i]]
<1>6. g = [i \in 1 .. Len(s) |-> IF i = 1 THEN s[i] ELSE g[i - 1] \o s[i]]
  BY <1>1, <1>5, Zenon
<1>7. F = [i \in 1 .. Len(s) |-> IF i = 1 THEN s[i] ELSE F[i - 1] \o s[i]]
  BY <1>6, Zenon
<1>8. FlattenSeq(s) = F[Len(s)]
  BY <1>1 DEF FlattenSeq
<1>. HIDE DEF F
<1>9. F[1] = s[1] /\ \A i \in 2 .. Len(s) : F[i] = F[i - 1] \o s[i]
  <2>1. PICK f : f = F
    OBVIOUS
  <2>0. PICK rest : rest = [i \in 1 .. n |-> f[i - 1] \o s[i]]
    OBVIOUS
  <2>2. f = [i \in 1 .. n |-> IF i = 1 THEN s[i] ELSE rest[i]]
    BY <1>1, <1>7, <2>0, <2>1
  <2>3. f[1] = s[1] /\ \A i \in 2 .. n : f[i] = rest[i]
    BY <2>2
  <2>4. ASSUME NEW i \in 2 .. n PROVE rest[i] = f[i - 1] \o s[i]
    <3>1. i \in 1 .. n
      OBVIOUS
    <3>. QED BY <2>0, <3>1, Zenon
  <2>. QED BY <1>1, <2>1, <2>3, <2>4
<1>. QED BY <1>8, <1>9

\* What every part has and a concatenation keeps, the whole has (FlattenSeq).
LEMMA FlattenIn ==
    ASSUME NEW E, NEW G \in SUBSET Seq(E), \A u, v \in G : u \o v \in G,
           NEW s \in Seq(G), s # <<>>
    PROVE  FlattenSeq(s) \in G
<1>1. s \in Seq(Seq(E))
  BY SeqMonotonic
<1>2. PICK f : /\ FlattenSeq(s) = f[Len(s)] /\ f[1] = s[1]
               /\ \A i \in 2 .. Len(s) : f[i] = f[i - 1] \o s[i]
  BY <1>1, FlattenSteps
<1>3. PICK n \in Nat \ {0} : n = Len(s)
  BY EmptySeq
<1>4. \A i \in 1 .. n : s[i] \in G
  BY <1>3, ElementOfSeq
<1> DEFINE Bad == {i \in 1 .. n : f[i] \notin G}
<1>5. Bad = {}
  <2>1. SUFFICES ASSUME Bad # {} PROVE FALSE
    OBVIOUS
  <2>2. PICK m \in Bad : \A k \in Bad : m <= k
    <3>1. Bad \in SUBSET Nat
      BY <1>3
    <3>. HIDE DEF Bad
    <3>. QED BY <2>1, <3>1, LeastExists
  <2>3. m # 1
    BY <1>2, <1>3, <1>4, <2>2
  <2>4. m - 1 \in 1 .. n /\ m \in 2 .. n /\ m - 1 \notin Bad
    BY <1>3, <2>2, <2>3
  <2>5. f[m] = f[m - 1] \o s[m] /\ f[m - 1] \in G /\ s[m] \in G
    BY <1>2, <1>3, <1>4, <2>4
  <2>. QED BY <2>2, <2>5
<1>. QED BY <1>2, <1>3, <1>5

\* The whole has every element of every part.
LEMMA FlattenHas ==
    ASSUME NEW E, NEW s \in Seq(Seq(E)), NEW i \in DOMAIN s, NEW k \in DOMAIN s[i]
    PROVE  FlattenSeq(s) \in Seq(E) /\ \E j \in DOMAIN FlattenSeq(s) : FlattenSeq(s)[j] = s[i][k]
<1>0. s # <<>>
  BY EmptySeq
<1>1. PICK f : /\ FlattenSeq(s) = f[Len(s)] /\ f[1] = s[1]
               /\ \A j \in 2 .. Len(s) : f[j] = f[j - 1] \o s[j]
  BY <1>0, FlattenSteps
<1>2. PICK n \in Nat \ {0} : n = Len(s)
  BY <1>0, EmptySeq
<1>3. \A j \in 1 .. n : s[j] \in Seq(E)
  BY <1>2, ElementOfSeq
<1> DEFINE Bad == {j \in 1 .. n : f[j] \notin Seq(E) \/ (i <= j /\ ~ \E p \in DOMAIN f[j] : f[j][p] = s[i][k])}
<1>4. i \in 1 .. n /\ s[i] \in Seq(E) /\ k \in 1 .. Len(s[i]) /\ DOMAIN s[i] = 1 .. Len(s[i])
  BY <1>2, <1>3, LenProperties
<1>5. Bad = {}
  <2>1. SUFFICES ASSUME Bad # {} PROVE FALSE
    OBVIOUS
  <2>2. PICK m \in Bad : \A j \in Bad : m <= j
    <3>1. Bad \in SUBSET Nat
      BY <1>2
    <3>. HIDE DEF Bad
    <3>. QED BY <2>1, <3>1, LeastExists
  <2>3. CASE m = 1
    <3>1. f[m] = s[1] /\ s[1] \in Seq(E) /\ (i <= m => i = 1)
      BY <1>1, <1>2, <1>3, <1>4, <2>3
    <3>2. i <= m => k \in DOMAIN f[m] /\ f[m][k] = s[i][k]
      BY <3>1
    <3>. QED BY <2>2, <3>1, <3>2
  <2>4. CASE m # 1
    <3>1. m - 1 \in 1 .. n /\ m \in 2 .. n /\ m - 1 \notin Bad
      BY <1>2, <2>2, <2>4
    <3>2. f[m - 1] \in Seq(E) /\ s[m] \in Seq(E) /\ f[m] = f[m - 1] \o s[m]
      BY <1>1, <1>2, <1>3, <3>1
    <3>3. PICK u \in Seq(E), v \in Seq(E) : u = f[m - 1] /\ v = s[m]
      BY <3>2
    <3>4. /\ u \o v \in Seq(E) /\ DOMAIN (u \o v) = 1 .. Len(u) + Len(v)
          /\ Len(u) \in Nat /\ Len(v) \in Nat /\ DOMAIN u = 1 .. Len(u) /\ DOMAIN v = 1 .. Len(v)
          /\ \A p \in 1 .. Len(u) + Len(v) : (u \o v)[p] = IF p <= Len(u) THEN u[p] ELSE v[p - Len(u)]
      BY ConcatProperties, LenProperties
    <3>5. i <= m /\ ~ \E p \in DOMAIN (u \o v) : (u \o v)[p] = s[i][k]
      BY <2>2, <3>2, <3>3, <3>4
    <3>6. CASE i = m
      <4>0. k \in 1 .. Len(v) /\ v[k] = s[i][k]
        BY <1>4, <3>3, <3>6
      <4>1. k + Len(u) \in 1 .. Len(u) + Len(v) /\ ~(k + Len(u) <= Len(u)) /\ (k + Len(u)) - Len(u) = k
        BY <3>4, <4>0
      <4>2. (u \o v)[k + Len(u)] = s[i][k]
        BY <3>4, <4>0, <4>1
      <4>. QED BY <3>4, <3>5, <4>1, <4>2
    <3>7. CASE i # m
      <4>1. PICK p \in DOMAIN u : u[p] = s[i][k]
        BY <1>4, <3>1, <3>3, <3>5, <3>7
      <4>2. p \in DOMAIN (u \o v) /\ (u \o v)[p] = s[i][k]
        BY <3>4, <4>1
      <4>. QED BY <3>5, <4>2
    <3>. QED BY <3>6, <3>7
  <2>. QED BY <2>3, <2>4
<1>6. n \in 1 .. n /\ i <= n
  BY <1>2, <1>4
<1>7. n \notin Bad
  <2>. HIDE DEF Bad
  <2>. QED BY <1>5
<1>8. f[n] \in Seq(E) /\ \E p \in DOMAIN f[n] : f[n][p] = s[i][k]
  BY <1>6, <1>7
<1>. QED BY <1>1, <1>2, <1>8

LEMMA Pair ==
    ASSUME NEW S, NEW x \in S, NEW y \in S
    PROVE  <<x>> \o <<y>> = <<x, y>>
<1>1. PICK u, v, w : u = <<x>> /\ v = <<y>> /\ w = <<x, y>>
  OBVIOUS
<1>2. /\ u \in Seq(S) /\ v \in Seq(S) /\ w \in Seq(S) /\ Len(u) = 1 /\ Len(v) = 1 /\ Len(w) = 2
      /\ u[1] = x /\ v[1] = y /\ w[1] = x /\ w[2] = y
  BY <1>1
<1>3. u \o v \in Seq(S) /\ Len(u \o v) = 2
      /\ \A i \in 1 .. 2 : (u \o v)[i] = IF i <= 1 THEN u[i] ELSE v[i - 1]
  BY <1>2, ConcatProperties
<1>4. \A i \in 1 .. 2 : (u \o v)[i] = w[i]
  BY <1>2, <1>3
<1>. QED BY <1>1, <1>2, <1>3, <1>4, SeqEqual

\* Where the elements of a concatenation come from.
Joins(w, u, v, k) ==
    /\ DOMAIN u \subseteq 1 .. k /\ DOMAIN v \subseteq Nat
    /\ \A i \in DOMAIN u : i \in DOMAIN w /\ i <= k /\ w[i] = u[i]
    /\ \A i \in DOMAIN v : k + i \in DOMAIN w /\ k < k + i /\ w[k + i] = v[i]
    /\ \A i \in DOMAIN w : i \in DOMAIN u \/ \E j \in DOMAIN v : i = k + j

LEMMA Joined ==
    ASSUME NEW S, NEW u \in Seq(S), NEW v \in Seq(S)
    PROVE  u \o v \in Seq(S) /\ \E k \in Nat : Joins(u \o v, u, v, k)
<1>1. u \o v \in Seq(S) /\ Len(u \o v) = Len(u) + Len(v)
      /\ \A i \in 1 .. Len(u) + Len(v) : (u \o v)[i] = IF i <= Len(u) THEN u[i] ELSE v[i - Len(u)]
  BY ConcatProperties
<1>2. Len(u) \in Nat /\ DOMAIN u = 1 .. Len(u) /\ Len(v) \in Nat /\ DOMAIN v = 1 .. Len(v)
      /\ DOMAIN (u \o v) = 1 .. Len(u \o v)
  <2>1. \A q \in Seq(S) : Len(q) \in Nat /\ DOMAIN q = 1 .. Len(q)
    BY LenProperties
  <2>2. u \o v \in Seq(S)
    BY <1>1, Zenon
  <2>. QED BY <2>1, <2>2, Zenon
<1>3. PICK w \in Seq(S), k \in Nat, l \in Nat : w = u \o v /\ k = Len(u) /\ l = Len(v)
  BY <1>1, <1>2, Zenon
<1>4. ASSUME NEW i \in DOMAIN u PROVE i \in DOMAIN w /\ i <= k /\ w[i] = u[i]
  BY <1>1, <1>2, <1>3
<1>5. ASSUME NEW i \in DOMAIN v PROVE k + i \in DOMAIN w /\ k < k + i /\ w[k + i] = v[i]
  <2>1. i \in 1 .. l /\ k + i \in 1 .. k + l /\ ~(k + i <= k) /\ (k + i) - k = i
    BY <1>2, <1>3
  <2>. QED BY <1>1, <1>2, <1>3, <2>1
<1>6. ASSUME NEW i \in DOMAIN w PROVE i \in DOMAIN u \/ \E j \in DOMAIN v : i = k + j
  <2>1. CASE i > k
    <3>1. i - k \in 1 .. l /\ i = k + (i - k)
      BY <1>1, <1>2, <1>3, <2>1
    <3>. QED BY <1>2, <1>3, <3>1
  <2>. QED BY <1>1, <1>2, <1>3, <2>1
<1>7. DOMAIN u \subseteq 1 .. k /\ DOMAIN v \subseteq Nat
  BY <1>2, <1>3
<1>8. Joins(w, u, v, k)
  BY <1>4, <1>5, <1>6, <1>7 DEF Joins
<1>. QED BY <1>1, <1>3, <1>8

---------------------------------------------------------------------------
(* What a snapshot says, as messages (SessionSnapshot.as_events). *)

LEMMA BasicFacts ==
    /\ DOMAIN Nothing = {}
    /\ \A b \in Batches : TasksOf[b] \subseteq Tasks
    /\ \A x \in Works : x # Nothing
BY DEF Nothing, Tasks, Works

LEMMA InfoType ==
    ASSUME Types, NEW b \in Batches
    PROVE  /\ DOMAIN record[b] \subseteq TasksOf[b]
           /\ Info(b) \in Infos
           /\ Info(b).tasks = DOMAIN record[b] /\ Info(b).status = batch[b]
           /\ Info(b).done = (phase[b] \in Over)
<1>1. DOMAIN record[b] \subseteq TasksOf[b]
  BY BasicFacts DEF Types, ServerTypes
<1>2. DOMAIN record[b] \in SUBSET Tasks
  BY <1>1, BasicFacts
<1>3. batch[b] \in BatchStatuses
  BY DEF Types, ServerTypes
<1>. QED BY <1>1, <1>2, <1>3 DEF Info, Infos, Over

LEMMA BatchEventFacts ==
    ASSUME Types, NEW b \in Batches
    PROVE  /\ Created(b) \in Events /\ Completed(b) \in Events
           /\ Created(b).kind = "created" /\ Created(b).batch = b /\ Created(b).info = Info(b)
           /\ Completed(b).kind = "completed" /\ Completed(b).batch = b /\ Completed(b).info = Info(b)
BY InfoType DEF Created, Completed, Events, BatchEvents

LEMMA EventFields ==
    ASSUME NEW e \in Events
    PROVE  /\ e.kind \in {"created", "completed", "task", "record"}
           /\ e.kind \in {"created", "completed", "record"} => e.batch \in Batches
           /\ e.kind \in {"created", "completed"} => e.info \in Infos /\ e.info.done \in BOOLEAN
           /\ e.kind \in {"task", "record"} => e.task \in Tasks
           /\ e.kind = "task" => e.status \in Statuses
           /\ e.kind = "record" => e.status \in RowStatuses
BY DEF Events, BatchEvents, TaskEvents, RecordEvents, Infos

\* The events of a snapshot: the batches, each completion after its creation, then
\* the statuses of the tasks.
Snapshotted(E) ==
    /\ \A b \in Batches : phase[b] # "none" => \E i \in DOMAIN E : IsCreated(E[i], b)
    /\ \A b \in Batches, i \in DOMAIN E :
          /\ IsCreated(E[i], b) \/ IsCompleted(E[i], b) => E[i].info = Info(b) /\ phase[b] # "none"
          /\ IsCompleted(E[i], b) => phase[b] \in Over
          /\ IsCreated(E[i], b) /\ phase[b] \in Over =>
                \E j \in DOMAIN E : i < j /\ IsCompleted(E[j], b)
    /\ \A i \in DOMAIN E : E[i].kind # "record"
    /\ \A i \in DOMAIN E, t \in Tasks : E[i].kind = "task" /\ E[i].task = t => Right(E[i], t)
    /\ ~ended => \A t \in Tasks : \E i \in DOMAIN E : Right(E[i], t)

\* The part of the batches.
BatchPart(u) ==
    \A b \in Batches, i \in DOMAIN u :
       /\ IsCreated(u[i], b) \/ IsCompleted(u[i], b) => u[i].info = Info(b) /\ phase[b] # "none"
       /\ IsCompleted(u[i], b) => phase[b] \in Over
       /\ IsCreated(u[i], b) /\ phase[b] \in Over =>
             \E j \in DOMAIN u : i < j /\ IsCompleted(u[j], b)
       /\ u[i].kind \in {"created", "completed"}

LEMMA BatchPartsJoin ==
    ASSUME NEW u \in Seq(Events), NEW v \in Seq(Events), BatchPart(u), BatchPart(v)
    PROVE  u \o v \in Seq(Events) /\ BatchPart(u \o v)
<1>1. PICK w \in Seq(Events), k \in Nat : w = u \o v /\ Joins(w, u, v, k)
  BY Joined
<1>2. ASSUME NEW b \in Batches, NEW i \in DOMAIN w
      PROVE  /\ IsCreated(w[i], b) \/ IsCompleted(w[i], b) => w[i].info = Info(b) /\ phase[b] # "none"
             /\ IsCompleted(w[i], b) => phase[b] \in Over
             /\ IsCreated(w[i], b) /\ phase[b] \in Over =>
                   \E j \in DOMAIN w : i < j /\ IsCompleted(w[j], b)
             /\ w[i].kind \in {"created", "completed"}
  <2>1. CASE i \in DOMAIN u
    BY <1>1, <2>1 DEF BatchPart, Joins
  <2>2. CASE i \notin DOMAIN u
    <3>1. PICK m \in DOMAIN v : i = k + m
      BY <1>1, <1>2, <2>2 DEF Joins
    <3>2. \A j \in DOMAIN v : k + j \in DOMAIN w /\ w[k + j] = v[j] /\ (m < j => i < k + j)
      <4>1. \A j \in DOMAIN v : k + j \in DOMAIN w /\ w[k + j] = v[j]
        BY <1>1 DEF Joins
      <4>2. k \in Nat /\ m \in Nat /\ \A j \in DOMAIN v : j \in Nat
        BY <1>1 DEF Joins
      <4>3. \A j \in Nat : m < j => k + m < k + j
        BY <4>2
      <4>. QED BY <3>1, <4>1, <4>2, <4>3
    <3>. QED BY <3>1, <3>2 DEF BatchPart
  <2>. QED BY <2>1, <2>2
<1>. QED BY <1>1, <1>2 DEF BatchPart

LEMMA SnapshotEvents ==
    ASSUME Types
    PROVE  AsEvents \in Seq(Events) /\ Snapshotted(AsEvents)
<1> DEFINE D == DOMAIN History
           n == Cardinality(D)
           order == SetToSeq(D)
           part(b) == <<Created(b)>> \o (IF History[b].info.done THEN <<Completed(b)>> ELSE <<>>)
           parts == [i \in 1 .. n |-> part(order[i])]
           T == {[kind |-> "task", task |-> t, status |-> StoreItems[t]] : t \in DOMAIN StoreItems}
<1>1. D = {b \in Batches : phase[b] # "none"} /\ \A b \in D : History[b].info = Info(b)
  BY DEF History
<1>2. /\ order \in Seq(D) /\ Len(order) = n /\ n \in Nat
      /\ \A b \in D : \E i \in 1 .. n : order[i] = b
  <2>1. IsFiniteSet(D)
    BY <1>1, ScreenAssumption, FS_Subset
  <2>. HIDE DEF D
  <2>. QED BY <2>1, SetToSeqFacts
<1>3. \A i \in 1 .. n : order[i] \in D
  <2>. HIDE DEF D
  <2>. QED BY <1>2, ElementOfSeq
<1> DEFINE G == {u \in Seq(Events) : BatchPart(u)}
<1>4. \A b \in D : part(b) \in G /\ 1 \in DOMAIN part(b) /\ part(b)[1] = Created(b)
  <2>1. SUFFICES ASSUME NEW b \in D
                 PROVE  part(b) \in G /\ 1 \in DOMAIN part(b) /\ part(b)[1] = Created(b)
    BY Zenon
  <2>2. b \in Batches /\ (History[b].info.done <=> phase[b] \in Over)
    BY <1>1, InfoType
  <2>3. PICK x \in Events, y \in Events : x = Created(b) /\ y = Completed(b)
    BY <2>2, BatchEventFacts
  <2>4. /\ \A c : IsCreated(x, c) <=> c = b
        /\ \A c : IsCompleted(y, c) <=> c = b
        /\ \A c : ~IsCreated(y, c) /\ ~IsCompleted(x, c)
        /\ x.info = Info(b) /\ y.info = Info(b) /\ x.kind = "created" /\ y.kind = "completed"
    BY <2>2, <2>3, BatchEventFacts DEF IsCreated, IsCompleted
  <2>5. CASE phase[b] \in Over
    <3>1. part(b) = <<x, y>>
      <4>1. part(b) = <<Created(b)>> \o <<Completed(b)>>
        BY <2>2, <2>5, Zenon
      <4>2. <<x>> \o <<y>> = <<x, y>>
        BY Pair
      <4>. QED BY <2>3, <4>1, <4>2, Zenon
    <3>2. <<x, y>> \in Seq(Events) /\ DOMAIN <<x, y>> = {1, 2} /\ <<x, y>>[1] = x /\ <<x, y>>[2] = y
      OBVIOUS
    <3>3. BatchPart(<<x, y>>)
      <4>1. phase[b] # "none" /\ 1 < 2
        BY <1>1, <2>1
      <4>. QED BY <2>4, <2>5, <3>2, <4>1 DEF BatchPart
    <3>. QED BY <2>3, <3>1, <3>2, <3>3
  <2>6. CASE phase[b] \notin Over
    <3>1. part(b) = <<x>>
      <4>1. part(b) = <<Created(b)>> \o <<>>
        BY <2>2, <2>6, Zenon
      <4>2. <<x>> \o <<>> = <<x>>
        OBVIOUS
      <4>. QED BY <2>3, <4>1, <4>2, Zenon
    <3>2. <<x>> \in Seq(Events) /\ DOMAIN <<x>> = {1} /\ <<x>>[1] = x
      OBVIOUS
    <3>3. BatchPart(<<x>>)
      <4>1. phase[b] # "none"
        BY <1>1, <2>1
      <4>. QED BY <2>4, <2>6, <3>2, <4>1 DEF BatchPart
    <3>. QED BY <2>3, <3>1, <3>2, <3>3
  <2>. QED BY <2>5, <2>6
<1>. HIDE DEF D, order, part
<1>5. parts \in Seq(G) /\ Len(parts) = n /\ DOMAIN parts = 1 .. n /\ G \in SUBSET Seq(Events)
  <2>1. \A i \in 1 .. n : part(order[i]) \in G
    BY <1>3, <1>4
  <2>. HIDE DEF G
  <2>2. parts \in [1 .. n -> G]
    BY <2>1
  <2>3. parts \in Seq(G) /\ Len(parts) = n /\ DOMAIN parts = 1 .. n
    <3>. HIDE DEF parts, n
    <3>. QED BY <1>2, <2>2
  <2>. QED BY <2>3 DEF G
<1>6. ASSUME NEW u \in G, NEW v \in G PROVE u \o v \in G
  BY BatchPartsJoin
<1> DEFINE A == FlattenSeq(parts)
           B == SetToSeq(T)
<1>7. A \in G /\ \A b \in D : \E i \in DOMAIN A : IsCreated(A[i], b)
  <2>1. CASE n = 0
    <3>1. parts = <<>> /\ D = {} /\ A = parts
      <4>1. parts = <<>>
        BY <1>5, <2>1, EmptySeq
      <4>2. D = {}
        BY <1>2, <2>1
      <4>3. A = parts
        BY <1>5, <2>1 DEF FlattenSeq
      <4>. QED BY <4>1, <4>2, <4>3
    <3>2. <<>> \in G
      <4>1. <<>> \in Seq(Events) /\ DOMAIN <<>> = {}
        BY EmptySeq
      <4>. QED BY <4>1 DEF BatchPart
    <3>. QED BY <3>1, <3>2
  <2>2. CASE n # 0
    <3>1. parts # <<>>
      BY <1>5, <2>2, EmptySeq
    <3>2. A \in G
      <4>. HIDE DEF G, parts
      <4>. QED BY <1>5, <1>6, <3>1, FlattenIn
    <3>3. ASSUME NEW b \in D PROVE \E i \in DOMAIN A : IsCreated(A[i], b)
      <4>1. PICK i \in 1 .. n : order[i] = b
        BY <1>2
      <4>2. parts[i] = part(b)
        BY <4>1
      <4>3. parts \in Seq(Seq(Events)) /\ i \in DOMAIN parts
        <5>. HIDE DEF G, parts
        <5>. QED BY <1>5, SeqMonotonic
      <4>4. 1 \in DOMAIN parts[i] /\ parts[i][1] = Created(b)
        BY <1>4, <4>2
      <4>5. \E j \in DOMAIN A : A[j] = Created(b)
        <5>. HIDE DEF parts
        <5>. QED BY <4>3, <4>4, FlattenHas
      <4>6. IsCreated(Created(b), b)
        BY <1>1, <3>3, BatchEventFacts DEF IsCreated
      <4>. QED BY <4>5, <4>6
    <3>. QED BY <3>2, <3>3
  <2>. QED BY <2>1, <2>2
<1>8. /\ B \in Seq(T) /\ \A e \in T : \E i \in DOMAIN B : B[i] = e
      /\ T \subseteq TaskEvents
      /\ \A e \in T : Right(e, e.task)
      /\ ~ended => \A t \in Tasks : \E e \in T : Right(e, t)
  <2>1. DOMAIN StoreItems \subseteq Tasks /\ (~ended => StoreItems = status /\ DOMAIN StoreItems = Tasks)
        /\ (ended => DOMAIN StoreItems = {})
    BY BasicFacts DEF StoreItems, Types, ServerTypes
  <2>2. T \subseteq TaskEvents /\ \A e \in T : e.kind = "task" /\ ~ended /\ e.status = status[e.task]
    BY <2>1 DEF TaskEvents, Types, ServerTypes
  <2>3. ASSUME ~ended, NEW t \in Tasks PROVE \E e \in T : Right(e, t)
    <3>1. PICK e : e = [kind |-> "task", task |-> t, status |-> StoreItems[t]]
      OBVIOUS
    <3>2. e \in T /\ Right(e, t)
      BY <2>1, <2>3, <3>1 DEF Right
    <3>. QED BY <3>2
  <2>4. IsFiniteSet(T)
    <3>1. PICK f : f = [t \in DOMAIN StoreItems |-> [kind |-> "task", task |-> t, status |-> StoreItems[t]]]
      OBVIOUS
    <3>2. f \in Surjection(DOMAIN StoreItems, T)
      BY <3>1 DEF Surjection
    <3>3. IsFiniteSet(DOMAIN StoreItems)
      BY <2>1, ScreenAssumption, FS_Subset
    <3>. HIDE DEF T
    <3>. QED BY <3>2, <3>3, FS_Surjection
  <2>5. B \in Seq(T) /\ \A e \in T : \E i \in DOMAIN B : B[i] = e
    <3>. HIDE DEF T
    <3>. QED BY <2>4, SetToSeqFacts, LenProperties
  <2>. HIDE DEF T, B
  <2>. QED BY <2>2, <2>3, <2>5 DEF Right
<1>9. AsEvents = A \o B
  BY DEF AsEvents, part, order, D
<1>. HIDE DEF A, B, T, parts
<1>10. A \in Seq(Events) /\ BatchPart(A)
  BY <1>7
<1>. HIDE DEF G
<1>11. B \in Seq(Events)
  BY <1>8, SeqMonotonic DEF Events
<1>12. PICK E \in Seq(Events), k \in Nat : E = A \o B /\ Joins(E, A, B, k)
  BY <1>10, <1>11, Joined
<1>. USE DEF Joins
<1>13. \A i \in DOMAIN B : E[k + i] \in T /\ E[k + i].kind = "task" /\ Right(E[k + i], E[k + i].task)
  <2>1. \A i \in DOMAIN B : B[i] \in T
    BY <1>8, ElementOfSeq, LenProperties
  <2>2. ASSUME NEW e \in T PROVE e.kind = "task" /\ Right(e, e.task)
    BY <1>8, <2>2 DEF TaskEvents
  <2>3. \A i \in DOMAIN B : E[k + i] = B[i]
    BY <1>12
  <2>. QED BY <2>1, <2>2, <2>3
<1>14. \A b \in Batches : phase[b] # "none" => \E i \in DOMAIN E : IsCreated(E[i], b)
  <2>1. ASSUME NEW b \in Batches, phase[b] # "none" PROVE \E i \in DOMAIN E : IsCreated(E[i], b)
    <3>1. PICK i \in DOMAIN A : IsCreated(A[i], b)
      BY <1>1, <1>7, <2>1
    <3>2. i \in DOMAIN E /\ E[i] = A[i]
      BY <1>12, <3>1
    <3>. QED BY <3>1, <3>2
  <2>. QED BY <2>1
<1>15. ASSUME NEW b \in Batches, NEW i \in DOMAIN E
       PROVE  /\ IsCreated(E[i], b) \/ IsCompleted(E[i], b) => E[i].info = Info(b) /\ phase[b] # "none"
              /\ IsCompleted(E[i], b) => phase[b] \in Over
              /\ IsCreated(E[i], b) /\ phase[b] \in Over =>
                    \E j \in DOMAIN E : i < j /\ IsCompleted(E[j], b)
  <2>1. CASE i \in DOMAIN A
    <3>1. E[i] = A[i] /\ \A j \in DOMAIN A : j \in DOMAIN E /\ E[j] = A[j]
      BY <1>12, <2>1
    <3>. QED BY <1>10, <2>1, <3>1 DEF BatchPart
  <2>2. CASE i \notin DOMAIN A
    <3>1. E[i].kind = "task"
      <4>1. PICK j \in DOMAIN B : i = k + j
        BY <1>12, <1>15, <2>2
      <4>. QED BY <1>13, <4>1
    <3>. QED BY <3>1 DEF IsCreated, IsCompleted
  <2>. QED BY <2>1, <2>2
<1>16. ASSUME NEW i \in DOMAIN E, NEW t \in Tasks
       PROVE  E[i].kind # "record" /\ (E[i].kind = "task" /\ E[i].task = t => Right(E[i], t))
  <2>1. CASE i \in DOMAIN A
    <3>1. i \in DOMAIN A /\ E[i] = A[i]
      BY <1>12, <2>1
    <3>2. PICK b \in Batches : TRUE
      BY DEF Tasks
    <3>. QED BY <1>10, <3>1, <3>2 DEF BatchPart
  <2>2. CASE i \notin DOMAIN A
    <3>1. PICK j \in DOMAIN B : i = k + j
      BY <1>12, <1>16, <2>2
    <3>. QED BY <1>13, <3>1
  <2>. QED BY <2>1, <2>2
<1>17. ~ended => \A t \in Tasks : \E i \in DOMAIN E : Right(E[i], t)
  <2>1. ASSUME ~ended, NEW t \in Tasks PROVE \E i \in DOMAIN E : Right(E[i], t)
    <3>1. PICK e \in T : Right(e, t)
      BY <1>8, <2>1
    <3>2. PICK i \in DOMAIN B : B[i] = e
      BY <1>8
    <3>3. k + i \in DOMAIN E /\ E[k + i] = e
      BY <1>12, <3>2
    <3>. QED BY <3>1, <3>3
  <2>. QED BY <2>1
<1>18. \A i \in DOMAIN E : E[i].kind # "record"
  <2>1. ASSUME NEW i \in DOMAIN E PROVE E[i].kind # "record"
    <3>1. CASE i \in DOMAIN A
      <4>1. i \in DOMAIN A /\ E[i] = A[i]
        BY <1>12, <3>1
      <4>2. A[i] \in Events
        BY <1>10, <4>1, ElementOfSeq, LenProperties
      <4>3. A[i].kind = "record" => \E b \in Batches : A[i].batch = b
        BY <4>2, EventFields
      <4>. QED BY <1>10, <4>1, <4>3 DEF BatchPart
    <3>2. CASE i \notin DOMAIN A
      <4>1. PICK j \in DOMAIN B : i = k + j
        BY <1>12, <2>1, <3>2
      <4>. QED BY <1>13, <4>1
    <3>. QED BY <3>1, <3>2
  <2>. QED BY <2>1
<1>19. Snapshotted(E)
  <2>. HIDE DEF Joins
  <2>. QED BY <1>14, <1>15, <1>16, <1>17, <1>18, Zenon DEF Snapshotted
<1>. QED BY <1>9, <1>12, <1>19

---------------------------------------------------------------------------
(* How the queue changes. *)

\* One message more.
Longer(q2, q, e) ==
    \E n \in Nat : /\ DOMAIN q = 1 .. n /\ DOMAIN q2 = 1 .. n + 1 /\ q2[n + 1] = e
                   /\ \A i \in 1 .. n : q2[i] = q[i]
\* The first message is gone.
Shorter(q2, q, e) ==
    \E n \in Nat : /\ n > 0 /\ DOMAIN q = 1 .. n /\ DOMAIN q2 = 1 .. n - 1 /\ q[1] = e
                   /\ \A i \in 1 .. n - 1 : q2[i] = q[i + 1]

LEMMA PublishFacts ==
    ASSUME Types, NEW e \in Events, Publish(e)
    PROVE  /\ queue' \in Seq(Events)
           /\ \/ queue' = queue /\ ~(Linked /\ ~ended)
              \/ Longer(queue', queue, e) /\ Linked /\ ~ended
<1>1. queue \in Seq(Events)
  BY DEF Types, QueueTypes
<1>2. /\ Append(queue, e) \in Seq(Events) /\ Len(Append(queue, e)) = Len(queue) + 1
      /\ \A i \in 1 .. Len(queue) : Append(queue, e)[i] = queue[i]
      /\ Append(queue, e)[Len(queue) + 1] = e
      /\ Len(queue) \in Nat /\ DOMAIN queue = 1 .. Len(queue)
      /\ DOMAIN Append(queue, e) = 1 .. Len(queue) + 1
  <2>1. /\ Append(queue, e) \in Seq(Events) /\ Len(Append(queue, e)) = Len(queue) + 1
        /\ \A i \in 1 .. Len(queue) : Append(queue, e)[i] = queue[i]
        /\ Append(queue, e)[Len(queue) + 1] = e
    BY <1>1, AppendProperties
  <2>2. \A q \in Seq(Events) : Len(q) \in Nat /\ DOMAIN q = 1 .. Len(q)
    BY LenProperties
  <2>3. DOMAIN Append(queue, e) = 1 .. Len(Append(queue, e))
    BY <2>1, <2>2, Zenon
  <2>. QED BY <1>1, <2>1, <2>2, <2>3
<1>3. Longer(Append(queue, e), queue, e)
  BY <1>2 DEF Longer
<1>. QED BY <1>1, <1>2, <1>3 DEF Publish, Linked

LEMMA PopFacts ==
    ASSUME Types, queue # <<>>, queue' = Tail(queue)
    PROVE  /\ queue' \in Seq(Events) /\ Head(queue) \in Events
           /\ Shorter(queue', queue, Head(queue))
           /\ 1 \in DOMAIN queue /\ queue[1] = Head(queue)
<1>1. queue \in Seq(Events)
  BY DEF Types, QueueTypes
<1>2. /\ Tail(queue) \in Seq(Events) /\ Len(Tail(queue)) = Len(queue) - 1 /\ Head(queue) \in Events
      /\ \A i \in 1 .. Len(queue) - 1 : Tail(queue)[i] = queue[i + 1]
      /\ Len(queue) \in Nat /\ Len(queue) > 0 /\ DOMAIN queue = 1 .. Len(queue)
      /\ DOMAIN Tail(queue) = 1 .. Len(queue) - 1 /\ Head(queue) = queue[1]
  <2>1. /\ Tail(queue) \in Seq(Events) /\ Len(Tail(queue)) = Len(queue) - 1 /\ Head(queue) \in Events
        /\ \A i \in 1 .. Len(Tail(queue)) : Tail(queue)[i] = queue[i + 1]
    BY <1>1, HeadTailProperties
  <2>2. \A q \in Seq(Events) : Len(q) \in Nat /\ DOMAIN q = 1 .. Len(q)
    BY LenProperties
  <2>3. DOMAIN Tail(queue) = 1 .. Len(Tail(queue)) /\ Len(queue) \in Nat /\ DOMAIN queue = 1 .. Len(queue)
    BY <1>1, <2>1, <2>2, Zenon
  <2>4. Len(queue) > 0 /\ Head(queue) = queue[1]
    <3>1. Len(queue) \in Nat \ {0}
      BY <1>1, EmptySeq, Zenon
    <3>. QED BY <2>3, <3>1
  <2>. QED BY <2>1, <2>3, <2>4
<1>3. Shorter(Tail(queue), queue, queue[1])
  BY <1>2, Zenon DEF Shorter
<1>4. 1 \in DOMAIN queue
  BY <1>2
<1>. QED BY <1>2, <1>3, <1>4, Zenon

LEMMA HealFacts ==
    ASSUME Types, HealLane
    PROVE  /\ queue' \in Seq(Events)
           /\ \/ queue' = queue /\ ~subscribed
              \/ \E E \in Seq(Events), k \in Nat : Snapshotted(E) /\ Joins(queue', queue, E, k) /\ subscribed
<1>1. queue \in Seq(Events)
  BY DEF Types, QueueTypes
<1>2. PICK E \in Seq(Events) : E = AsEvents /\ Snapshotted(E)
  BY SnapshotEvents
<1>3. PICK k \in Nat : queue \o E \in Seq(Events) /\ Joins(queue \o E, queue, E, k)
  BY <1>1, Joined
<1>. QED BY <1>1, <1>2, <1>3 DEF HealLane

---------------------------------------------------------------------------
(* The types. *)

\* What the thread of a batch writes.
LEMMA SetStatusFacts ==
    ASSUME Types, NEW b \in Batches, NEW t \in TasksOf[b], NEW goal \in Statuses, NEW claims \in BOOLEAN,
           SetStatus(b, t, goal, claims)
    PROVE  /\ status' \in [Tasks -> Statuses] /\ status' = [status EXCEPT ![t] = goal]
           /\ DOMAIN work' = Batches /\ \A c \in Batches : c # b => work'[c] = work[c]
           /\ work'[b] \in Works /\ work'[b].task \in TasksOf[b] /\ work'[b].at = "record"
           /\ work'[b] # Nothing
<1>1. t \in Tasks
  BY BasicFacts
<1>2. PICK w : w = [task |-> t, goal |-> goal, at |-> "record", claims |-> claims, hears |-> FALSE]
  OBVIOUS
<1>3. w \in Works /\ w.task = t /\ w.at = "record"
  BY <1>1, <1>2 DEF Works
<1>4. work' = [work EXCEPT ![b] = w]
  BY <1>2 DEF SetStatus
<1>. QED BY <1>1, <1>3, <1>4, BasicFacts DEF SetStatus, Types, ServerTypes

LEMMA GotoFacts ==
    ASSUME Types, NEW b \in Batches, work[b] # Nothing, NEW step \in {"record", "log", "append", "body"},
           NEW hears \in BOOLEAN,
           work' = [work EXCEPT ![b].at = step] \/ work' = [work EXCEPT ![b].at = step, ![b].hears = hears]
    PROVE  /\ DOMAIN work' = Batches /\ \A c \in Batches : c # b => work'[c] = work[c]
           /\ work'[b] \in Works /\ work'[b].task = work[b].task /\ work'[b].at = step
           /\ work'[b] # Nothing
           /\ work' = [work EXCEPT ![b].at = step, ![b].hears = hears] => work'[b].hears = hears
<1>1. PICK w \in Works : w = work[b]
  BY DEF Types, ServerTypes
<1>2. DOMAIN work = Batches
  BY DEF Types, ServerTypes
<1>3. CASE work' = [work EXCEPT ![b].at = step, ![b].hears = hears]
  <2>1. PICK v : v = [w EXCEPT !.at = step, !.hears = hears]
    OBVIOUS
  <2>2. v \in Works /\ v.task = w.task /\ v.at = step /\ v.hears = hears
    BY <2>1 DEF Works
  <2>3. work' = [work EXCEPT ![b] = v]
    BY <1>1, <1>2, <1>3, <2>1
  <2>. QED BY <1>1, <1>2, <2>2, <2>3, BasicFacts
<1>4. CASE work' = [work EXCEPT ![b].at = step] /\ work' # [work EXCEPT ![b].at = step, ![b].hears = hears]
  <2>1. PICK v : v = [w EXCEPT !.at = step]
    OBVIOUS
  <2>2. v \in Works /\ v.task = w.task /\ v.at = step
    BY <2>1 DEF Works
  <2>3. work' = [work EXCEPT ![b] = v]
    BY <1>1, <1>2, <1>4, <2>1
  <2>. QED BY <1>1, <1>2, <1>4, <2>2, <2>3, BasicFacts
<1>. QED BY <1>3, <1>4

LEMMA CloseLogFacts ==
    ASSUME Types, CloseLog
    PROVE  /\ DOMAIN work' = Batches
           /\ \A b \in Batches : /\ work'[b] = Nothing <=> work[b] = Nothing
                                 /\ work[b] # Nothing => work'[b] \in Works /\ work'[b].task = work[b].task
<1>1. ASSUME NEW b \in Batches
      PROVE  /\ work'[b] = Nothing <=> work[b] = Nothing
             /\ work[b] # Nothing => work'[b] \in Works /\ work'[b].task = work[b].task
  <2>1. CASE At(b, "append")
    <3>1. PICK w \in Works : w = work[b]
      BY <2>1 DEF Types, ServerTypes, At
    <3>2. PICK v : v = [w EXCEPT !.hears = FALSE]
      OBVIOUS
    <3>3. v \in Works /\ v.task = w.task
      BY <3>2 DEF Works
    <3>4. work'[b] = v
      BY <2>1, <3>1, <3>2 DEF CloseLog
    <3>. QED BY <3>1, <3>3, <3>4, BasicFacts
  <2>2. CASE ~At(b, "append")
    <3>1. work'[b] = work[b]
      BY <2>2 DEF CloseLog
    <3>. QED BY <3>1 DEF Types, ServerTypes
  <2>. QED BY <2>1, <2>2
<1>2. DOMAIN work' = Batches
  BY DEF CloseLog
<1>. QED BY <1>1, <1>2

\* Which steps touch the server, beside the ones that stop a batch.
LEMMA ServerTouched ==
    ASSUME [Next]_vars
    PROVE  \/ \E b \in Batches : \/ OpenBatch(b) \/ AnnounceCreated(b) \/ Complete(b) \/ AnnounceCompleted(b)
                                 \/ Admit(b) \/ Finish(b) \/ WriteRecord(b) \/ TakeListeners(b) \/ EmitLine(b)
                                 \/ PressStop(b) \/ \E t \in TasksOf[b] : Take(b, t)
           \/ EndSession \/ LoseLane \/ HealLane \/ CloseLog
           \/ UNCHANGED <<serverVars, stopping, link>>
<1>. USE DEF SameScreen, serverVars, screenVars, cardVars, logVars
<1>1. Install \/ Compose \/ Connect \/ ReadSnapshot =>
         UNCHANGED <<serverVars, stopping, link>>
  BY DEF Install, Compose, Connect, ReadSnapshot
<1>2. Overlay \/ Resume \/ HandleStoreEvent =>
         UNCHANGED <<serverVars, stopping, link>>
  BY DEF Overlay, Resume, HandleStoreEvent
<1>3. OpenLog \/ WriteBacklog \/ WriteLine =>
         UNCHANGED <<serverVars, stopping, link>>
  BY DEF OpenLog, WriteBacklog, WriteLine
<1>4. ASSUME NEW r \in refreshes, RefreshRead(r) \/ RefreshApply(r)
      PROVE  UNCHANGED <<serverVars, stopping, link>>
  BY <1>4 DEF RefreshRead, RefreshApply
<1>5. UNCHANGED vars => UNCHANGED <<serverVars, stopping, link>>
  BY DEF vars
<1>. QED BY <1>1, <1>2, <1>3, <1>4, <1>5 DEF Next, ServerNext, ScreenNext

LEMMA ServerTypesStep ==
    ASSUME Types, FlowInv, [Next]_vars
    PROVE  ServerTypes'
<1>. USE BasicFacts DEF Types, ServerTypes, SameScreen, serverVars, screenVars, cardVars, logVars
<1>1. ASSUME NEW b \in Batches, OpenBatch(b) \/ AnnounceCreated(b) \/ Complete(b) \/ AnnounceCompleted(b)
      PROVE  ServerTypes'
  BY <1>1 DEF OpenBatch, AnnounceCreated, Complete, AnnounceCompleted, Phases, BatchStatuses
<1>2. ASSUME NEW b \in Batches, Admit(b) PROVE ServerTypes'
  <2>1. [t \in TasksOf[b] |-> "READY_TO_PROCESS"] \in [TasksOf[b] -> RowStatuses]
    BY DEF RowStatuses
  <2>2. phase' \in [Batches -> Phases] /\ batch' \in [Batches -> BatchStatuses]
    BY <1>2 DEF Admit, Phases, BatchStatuses
  <2>3. DOMAIN record' = Batches
        /\ \A c \in Batches : record'[c] = Nothing \/ record'[c] \in [TasksOf[c] -> RowStatuses]
    BY <1>2, <2>1 DEF Admit
  <2>. QED BY <1>2, <2>2, <2>3 DEF Admit
<1>3. ASSUME NEW b \in Batches, NEW t \in TasksOf[b], Take(b, t) PROVE ServerTypes'
  <2>1. PICK goal \in Statuses, claims \in BOOLEAN : SetStatus(b, t, goal, claims)
    BY <1>3 DEF Take, Statuses
  <2>2. /\ status' \in [Tasks -> Statuses]
        /\ DOMAIN work' = Batches /\ \A c \in Batches : c # b => work'[c] = work[c]
        /\ work'[b] \in Works /\ work'[b].task \in TasksOf[b]
    BY <2>1, SetStatusFacts
  <2>. QED BY <1>3, <2>2 DEF Take
<1>4. ASSUME NEW b \in Batches, Finish(b) PROVE ServerTypes'
  <2>1. PICK goal \in Outcomes : SetStatus(b, work[b].task, goal, TRUE)
    BY <1>4 DEF Finish
  <2>2. work[b].task \in TasksOf[b] /\ goal \in Statuses
    BY <1>4 DEF Finish, At, Statuses
  <2>3. /\ status' \in [Tasks -> Statuses]
        /\ DOMAIN work' = Batches /\ \A c \in Batches : c # b => work'[c] = work[c]
        /\ work'[b] \in Works /\ work'[b].task \in TasksOf[b]
    BY <2>1, <2>2, SetStatusFacts
  <2>. QED BY <1>4, <2>3 DEF Finish
<1>5. ASSUME NEW b \in Batches, WriteRecord(b) PROVE ServerTypes'
  <2>1. work[b] \in Works /\ work[b].task \in TasksOf[b] /\ work[b].goal \in Statuses
    BY <1>5 DEF WriteRecord, At, Works
  <2>2. record[b] \in [TasksOf[b] -> RowStatuses]
    BY <1>5 DEF WriteRecord, At, FlowInv
  <2>3. DOMAIN record' = Batches
        /\ \A c \in Batches : record'[c] = Nothing \/ record'[c] \in [TasksOf[c] -> RowStatuses]
    BY <1>5, <2>1, <2>2 DEF WriteRecord, RowStatuses
  <2>4. DOMAIN work' = Batches
        /\ \A c \in Batches : work'[c] = Nothing \/ (work'[c] \in Works /\ work'[c].task \in TasksOf[c])
    <3>1. CASE work' = [work EXCEPT ![b] = Nothing]
      BY <3>1
    <3>2. CASE work' # [work EXCEPT ![b] = Nothing]
      <4>1. PICK step \in {"log", "body"} : work' = [work EXCEPT ![b].at = step]
        BY <1>5, <3>2 DEF WriteRecord, Goto
      <4>2. work[b] # Nothing
        BY <1>5 DEF WriteRecord, At
      <4>3. /\ DOMAIN work' = Batches /\ \A c \in Batches : c # b => work'[c] = work[c]
            /\ work'[b] \in Works /\ work'[b].task = work[b].task
        BY <4>1, <4>2, GotoFacts
      <4>. QED BY <2>1, <4>3
    <3>. QED BY <3>1, <3>2
  <2>. QED BY <1>5, <2>3, <2>4 DEF WriteRecord
<1>6. ASSUME NEW b \in Batches, TakeListeners(b) \/ EmitLine(b) PROVE ServerTypes'
  <2>1. work[b] # Nothing
    BY <1>6 DEF TakeListeners, EmitLine, At
  <2>2. PICK step \in {"append", "body"}, hears \in BOOLEAN :
           work' = [work EXCEPT ![b].at = step] \/ work' = [work EXCEPT ![b].at = step, ![b].hears = hears]
    BY <1>6 DEF TakeListeners, EmitLine, Goto
  <2>3. /\ DOMAIN work' = Batches /\ \A c \in Batches : c # b => work'[c] = work[c]
        /\ work'[b] \in Works /\ work'[b].task = work[b].task
    BY <2>1, <2>2, GotoFacts
  <2>. QED BY <1>6, <2>1, <2>3 DEF TakeListeners, EmitLine
<1>7. CASE EndSession
  BY <1>7 DEF EndSession
<1>8. ASSUME NEW b \in Batches, PressStop(b) PROVE ServerTypes'
  BY <1>8 DEF PressStop, BatchStatuses
<1>9. CASE LoseLane \/ HealLane
  BY <1>9 DEF LoseLane, HealLane
<1>10. CASE CloseLog
  <2>1. UNCHANGED <<phase, batch, stopping, status, record, ended, link>>
    BY <1>10 DEF CloseLog
  <2>. QED BY <1>10, <2>1, CloseLogFacts
<1>11. CASE UNCHANGED <<serverVars, stopping, link>>
  BY <1>11
<1>12. \/ \E b \in Batches : \/ OpenBatch(b) \/ AnnounceCreated(b) \/ Complete(b) \/ AnnounceCompleted(b)
                             \/ Admit(b) \/ Finish(b) \/ WriteRecord(b) \/ TakeListeners(b) \/ EmitLine(b)
                             \/ PressStop(b) \/ \E t \in TasksOf[b] : Take(b, t)
       \/ EndSession \/ LoseLane \/ HealLane \/ CloseLog
       \/ UNCHANGED <<serverVars, stopping, link>>
  BY ServerTouched
<1>. QED BY <1>1, <1>2, <1>3, <1>4, <1>5, <1>6, <1>7, <1>8, <1>9, <1>10, <1>11, <1>12

\* Which steps touch the screen.
LEMMA ScreenTouched ==
    ASSUME [Next]_vars
    PROVE  \/ Install \/ Compose \/ Connect \/ ReadSnapshot \/ Overlay \/ Resume \/ HandleStoreEvent \/ LoseLane
           \/ UNCHANGED <<screenVars, turns>>
<1>. USE DEF SameScreen, serverVars, screenVars, cardVars, logVars
<1>1. ASSUME NEW b \in Batches, OpenBatch(b) \/ Admit(b) \/ AnnounceCreated(b)
      PROVE  UNCHANGED <<screenVars, turns>>
  BY <1>1 DEF OpenBatch, Admit, AnnounceCreated
<1>2. ASSUME NEW b \in Batches, WriteRecord(b) \/ TakeListeners(b) \/ EmitLine(b)
      PROVE  UNCHANGED <<screenVars, turns>>
  BY <1>2 DEF WriteRecord, TakeListeners, EmitLine
<1>3. ASSUME NEW b \in Batches, Finish(b) \/ Complete(b) \/ AnnounceCompleted(b)
      PROVE  UNCHANGED <<screenVars, turns>>
  BY <1>3 DEF Finish, Complete, AnnounceCompleted
<1>4. ASSUME NEW b \in Batches, NEW t \in TasksOf[b], Take(b, t)
      PROVE  UNCHANGED <<screenVars, turns>>
  BY <1>4 DEF Take
<1>5. HealLane \/ EndSession =>
         UNCHANGED <<screenVars, turns>>
  BY DEF HealLane, EndSession
<1>6. OpenLog \/ WriteBacklog \/ WriteLine \/ CloseLog =>
         UNCHANGED <<screenVars, turns>>
  BY DEF OpenLog, WriteBacklog, WriteLine, CloseLog
<1>7. ASSUME NEW r \in refreshes, RefreshRead(r) \/ RefreshApply(r)
      PROVE  UNCHANGED <<screenVars, turns>>
  BY <1>7 DEF RefreshRead, RefreshApply
<1>8. ASSUME NEW b \in Batches, PressStop(b)
      PROVE  UNCHANGED <<screenVars, turns>>
  BY <1>8 DEF PressStop
<1>9. UNCHANGED vars => UNCHANGED <<screenVars, turns>>
  BY DEF vars
<1>. QED BY <1>1, <1>2, <1>3, <1>4, <1>5, <1>6, <1>7, <1>8, <1>9 DEF Next, ServerNext, ScreenNext

LEMMA ScreenTypesStep ==
    ASSUME Types, StageInv, [Next]_vars
    PROVE  ScreenTypes'
<1>. USE BasicFacts DEF Types, ScreenTypes, SameScreen, serverVars, screenVars, cardVars, logVars
<1>1. CASE Install
  BY <1>1 DEF Install, ServerTypes
<1>2. CASE Compose \/ Connect \/ Resume
  <2>1. CASE Compose
    BY <2>1 DEF Compose
  <2>2. CASE Connect
    <3>1. UNCHANGED <<turns, mirror, snapshot>> /\ stage' = "reading"
      BY <2>2 DEF Connect
    <3>2. subscribed' \in BOOLEAN
      <4>1. subscribed' = ~ended
        BY <2>2 DEF Connect
      <4>. QED BY <4>1, Zenon
    <3>. QED BY <3>1, <3>2
  <2>3. CASE Resume
    BY <2>3 DEF Resume
  <2>. QED BY <1>2, <2>1, <2>2, <2>3
<1>3. CASE ReadSnapshot
  BY <1>3 DEF ReadSnapshot, StoreItems, ServerTypes
<1>4. CASE Overlay
  <2>1. mirror \in [Tasks -> Statuses]
    BY <1>4 DEF Overlay, StageInv
  <2>2. Updated(mirror, snapshot) \in [Tasks -> Statuses]
    BY <2>1 DEF Updated
  <2>. QED BY <1>4, <2>2 DEF Overlay
<1>5. CASE HandleStoreEvent
  <2>1. mirror \in [Tasks -> Statuses]
    BY <1>5 DEF HandleStoreEvent, StageInv
  <2>2. Head(queue) \in Events
    BY <1>5, PopFacts DEF HandleStoreEvent
  <2>3. mirror' \in [Tasks -> Statuses]
    BY <1>5, <2>1, <2>2, EventFields DEF HandleStoreEvent
  <2>. QED BY <1>5, <2>3 DEF HandleStoreEvent
<1>6. CASE LoseLane
  BY <1>6 DEF LoseLane
<1>7. CASE UNCHANGED <<screenVars, turns>>
  BY <1>7
<1>8. \/ Install \/ Compose \/ Connect \/ ReadSnapshot \/ Overlay \/ Resume \/ HandleStoreEvent \/ LoseLane
      \/ UNCHANGED <<screenVars, turns>>
  BY ScreenTouched
<1>. QED BY <1>1, <1>2, <1>3, <1>4, <1>5, <1>6, <1>7, <1>8

\* The tasks a creation names are those of its batch.
Named(e) == e.kind = "created" => e.info.tasks \subseteq TasksOf[e.batch]

\* Which steps touch the queue.
LEMMA QueueTouched ==
    ASSUME [Next]_vars
    PROVE  \/ \E b \in Batches : \/ AnnounceCreated(b) \/ AnnounceCompleted(b) \/ Finish(b) \/ WriteRecord(b)
                                 \/ \E t \in TasksOf[b] : Take(b, t)
           \/ HandleStoreEvent \/ HealLane \/ UNCHANGED queue
<1>. USE DEF SameScreen, serverVars, screenVars, cardVars, logVars
<1>1. ASSUME NEW b \in Batches, OpenBatch(b) \/ Admit(b) \/ TakeListeners(b)
      PROVE  UNCHANGED queue
  BY <1>1 DEF OpenBatch, Admit, TakeListeners
<1>2. ASSUME NEW b \in Batches, EmitLine(b) \/ Complete(b)
      PROVE  UNCHANGED queue
  BY <1>2 DEF EmitLine, Complete
<1>3. Install \/ Compose \/ Connect \/ ReadSnapshot =>
         UNCHANGED queue
  BY DEF Install, Compose, Connect, ReadSnapshot
<1>4. Overlay \/ Resume \/ LoseLane \/ EndSession =>
         UNCHANGED queue
  BY DEF Overlay, Resume, LoseLane, EndSession
<1>5. OpenLog \/ WriteBacklog \/ WriteLine \/ CloseLog =>
         UNCHANGED queue
  BY DEF OpenLog, WriteBacklog, WriteLine, CloseLog
<1>6. ASSUME NEW r \in refreshes, RefreshRead(r) \/ RefreshApply(r)
      PROVE  UNCHANGED queue
  BY <1>6 DEF RefreshRead, RefreshApply
<1>7. ASSUME NEW b \in Batches, PressStop(b)
      PROVE  UNCHANGED queue
  BY <1>7 DEF PressStop
<1>8. UNCHANGED vars => UNCHANGED queue
  BY DEF vars
<1>. QED BY <1>1, <1>2, <1>3, <1>4, <1>5, <1>6, <1>7, <1>8 DEF Next, ServerNext, ScreenNext

LEMMA QueueTypesStep ==
    ASSUME Types, FlowInv, [Next]_vars
    PROVE  QueueTypes'
<1>1. ASSUME NEW e \in Events, Named(e), Publish(e) PROVE QueueTypes'
  <2>1. queue' \in Seq(Events) /\ (queue' = queue \/ Longer(queue', queue, e))
    BY <1>1, PublishFacts
  <2>2. CASE queue' = queue
    BY <2>2 DEF Types, QueueTypes
  <2>3. CASE Longer(queue', queue, e)
    <3>1. PICK n \in Nat : /\ DOMAIN queue = 1 .. n /\ DOMAIN queue' = 1 .. n + 1 /\ queue'[n + 1] = e
                           /\ \A i \in 1 .. n : queue'[i] = queue[i]
      BY <2>3 DEF Longer
    <3>2. ASSUME NEW i \in DOMAIN queue' PROVE Named(queue'[i])
      <4>1. i = n + 1 \/ i \in 1 .. n
        BY <3>1
      <4>. QED BY <1>1, <3>1, <4>1 DEF Types, QueueTypes, Named
    <3>. QED BY <2>1, <3>2 DEF QueueTypes, Named
  <2>. QED BY <2>1, <2>2, <2>3
<1>2. ASSUME NEW b \in Batches, AnnounceCreated(b) \/ AnnounceCompleted(b) PROVE QueueTypes'
  <2>1. /\ Created(b) \in Events /\ Completed(b) \in Events
        /\ Named(Created(b)) /\ Named(Completed(b))
    BY BatchEventFacts, InfoType DEF Named
  <2>2. Publish(Created(b)) \/ Publish(Completed(b))
    BY <1>2 DEF AnnounceCreated, AnnounceCompleted, PublishBatch
  <2>. QED BY <1>1, <2>1, <2>2
<1>3. ASSUME NEW b \in Batches, NEW t \in TasksOf[b], NEW goal \in Statuses, NEW claims \in BOOLEAN,
             SetStatus(b, t, goal, claims)
      PROVE  QueueTypes'
  <2>1. PICK e : e = [kind |-> "task", task |-> t, status |-> goal]
    OBVIOUS
  <2>2. e \in Events /\ Named(e)
    BY <2>1, BasicFacts DEF Events, TaskEvents, Named
  <2>3. queue' = queue \/ Publish(e)
    BY <1>3, <2>1 DEF SetStatus
  <2>4. CASE queue' = queue
    BY <2>4 DEF Types, QueueTypes
  <2>. QED BY <1>1, <2>2, <2>3, <2>4
<1>4. ASSUME NEW b \in Batches, NEW t \in TasksOf[b], Take(b, t) PROVE QueueTypes'
  BY <1>3, <1>4 DEF Take, Statuses
<1>5. ASSUME NEW b \in Batches, Finish(b) PROVE QueueTypes'
  BY <1>3, <1>5 DEF Finish, At, Statuses, Types, ServerTypes
<1>6. ASSUME NEW b \in Batches, WriteRecord(b) PROVE QueueTypes'
  <2>1. work[b].task \in TasksOf[b] /\ work[b].task \in Tasks /\ work[b].goal \in RowStatuses
    BY <1>6, BasicFacts DEF WriteRecord, At, Works, RowStatuses, Types, ServerTypes
  <2>2. PICK e : e = [kind |-> "record", batch |-> b, task |-> work[b].task, status |-> work[b].goal]
    OBVIOUS
  <2>3. e \in Events /\ Named(e)
    BY <2>1, <2>2 DEF Events, RecordEvents, Named
  <2>4. queue' = queue \/ Publish(e)
    BY <1>6, <2>2 DEF WriteRecord
  <2>5. CASE queue' = queue
    BY <2>5 DEF Types, QueueTypes
  <2>. QED BY <1>1, <2>3, <2>4, <2>5
<1>7. CASE HandleStoreEvent
  <2>1. queue' \in Seq(Events) /\ Shorter(queue', queue, Head(queue))
    BY <1>7, PopFacts DEF HandleStoreEvent
  <2>2. PICK n \in Nat : /\ DOMAIN queue = 1 .. n /\ DOMAIN queue' = 1 .. n - 1
                         /\ \A i \in 1 .. n - 1 : queue'[i] = queue[i + 1]
    BY <2>1 DEF Shorter
  <2>3. ASSUME NEW i \in DOMAIN queue' PROVE Named(queue'[i])
    <3>1. i + 1 \in DOMAIN queue /\ queue'[i] = queue[i + 1]
      BY <2>2
    <3>. QED BY <3>1 DEF Types, QueueTypes, Named
  <2>. QED BY <2>1, <2>3 DEF QueueTypes, Named
<1>8. CASE HealLane
  <2>1. queue' \in Seq(Events)
    BY <1>8, HealFacts
  <2>2. CASE queue' = queue
    BY <2>2 DEF Types, QueueTypes
  <2>3. CASE queue' # queue
    <3>1. PICK E \in Seq(Events), k \in Nat : Snapshotted(E) /\ Joins(queue', queue, E, k)
      BY <1>8, <2>3, HealFacts
    <3>2. ASSUME NEW i \in DOMAIN E PROVE Named(E[i])
      <4>1. E[i] \in Events
        BY ElementOfSeq, LenProperties
      <4>2. CASE E[i].kind = "created"
        <5>1. E[i].batch \in Batches /\ IsCreated(E[i], E[i].batch)
          BY <4>1, <4>2, EventFields DEF IsCreated
        <5>2. E[i].info = Info(E[i].batch)
          BY <3>1, <5>1 DEF Snapshotted
        <5>. QED BY <5>1, <5>2, InfoType DEF Named
      <4>. QED BY <4>2 DEF Named
    <3>3. ASSUME NEW i \in DOMAIN queue' PROVE Named(queue'[i])
      <4>1. CASE i \in DOMAIN queue
        BY <3>1, <4>1 DEF Joins, Types, QueueTypes, Named
      <4>2. CASE i \notin DOMAIN queue
        <5>1. PICK j \in DOMAIN E : i = k + j
          BY <3>1, <3>3, <4>2 DEF Joins
        <5>. QED BY <3>1, <3>2, <5>1 DEF Joins
      <4>. QED BY <4>1, <4>2
    <3>. QED BY <2>1, <3>3 DEF QueueTypes, Named
  <2>. QED BY <2>2, <2>3
<1>9. CASE UNCHANGED queue
  BY <1>9 DEF Types, QueueTypes
<1>10. \/ \E b \in Batches : \/ AnnounceCreated(b) \/ AnnounceCompleted(b) \/ Finish(b) \/ WriteRecord(b)
                             \/ \E t \in TasksOf[b] : Take(b, t)
       \/ HandleStoreEvent \/ HealLane \/ UNCHANGED queue
  BY QueueTouched
<1>. QED BY <1>2, <1>4, <1>5, <1>6, <1>7, <1>8, <1>9, <1>10

\* The cards a message makes of the cards (BatchCard).
IsCard(c, b) == DOMAIN c = {"active", "rows"} /\ DOMAIN c.rows \subseteq TasksOf[b]

LEMMA CardOfFacts ==
    ASSUME NEW info, NEW rows
    PROVE  /\ DOMAIN CardOf(info, rows) = {"active", "rows"}
           /\ CardOf(info, rows).rows = rows
           /\ CardOf(info, rows).active = (info.status \in Active)
BY DEF CardOf

\* What a message does to the cards and the refreshes.
LEMMA MessageFacts ==
    ASSUME Types, HandleStoreEvent
    PROVE  \E e \in Events : /\ e = Head(queue) /\ Shorter(queue', queue, e) /\ Named(e)
                             /\ e.kind = "task" => UNCHANGED cardVars
                             /\ e.kind = "created" => OnBatchCreated(e)
                             /\ e.kind = "completed" => OnBatchCompleted(e)
                             /\ e.kind = "record" => OnExecutionStatus(e)
                             /\ stage = "live" /\ queue # <<>> /\ queue[1] = e /\ 1 \in DOMAIN queue
                             /\ UNCHANGED <<serverVars, logVars, stage, subscribed, snapshot, link, turns,
                                            missed, stopping>>
<1>1. PICK e \in Events : e = Head(queue) /\ Shorter(queue', queue, e) /\ queue[1] = e /\ 1 \in DOMAIN queue
  BY PopFacts DEF HandleStoreEvent
<1>2. Named(e)
  BY <1>1 DEF Types, QueueTypes, Named
<1>3. e.kind \in {"created", "completed", "task", "record"}
  BY EventFields
<1>. QED BY <1>1, <1>2, <1>3 DEF HandleStoreEvent, serverVars

LEMMA RefreshFacts ==
    ASSUME Types, NEW b \in Batches, Refresh(b)
    PROVE  /\ begun' \in Nat /\ overlapped' \subseteq Batches /\ overlapped \subseteq overlapped'
           /\ (\E r \in refreshes : r.batch = b) => b \in overlapped'
           /\ \E r : /\ refreshes' = refreshes \cup {r} /\ DOMAIN r = {"n", "batch", "read", "rows"}
                     /\ r.batch = b /\ ~r.read /\ r.read = FALSE
<1>1. PICK r : r = [n |-> begun, batch |-> b, read |-> FALSE, rows |-> Nothing]
  OBVIOUS
<1>2. DOMAIN r = {"n", "batch", "read", "rows"} /\ r.batch = b /\ ~r.read /\ r.read = FALSE
  BY <1>1
<1>3. refreshes' = refreshes \cup {r}
  BY <1>1 DEF Refresh
<1>4. /\ begun' \in Nat /\ overlapped' \subseteq Batches /\ overlapped \subseteq overlapped'
      /\ (\E x \in refreshes : x.batch = b) => b \in overlapped'
  BY DEF Refresh, Types, CardTypes
<1>. QED BY <1>2, <1>3, <1>4

LEMMA CreatedFacts ==
    ASSUME Types, NEW e \in Events, e.kind = "created", Named(e), OnBatchCreated(e)
    PROVE  /\ e.batch \in Batches
           /\ e.batch \in DOMAIN cards => cards' = cards /\ (NoRefresh \/ (~e.info.done /\ Refresh(e.batch)))
           /\ e.batch \notin DOMAIN cards =>
                /\ NoRefresh /\ DOMAIN cards' = DOMAIN cards \cup {e.batch}
                /\ \A b \in DOMAIN cards : cards'[b] = cards[b]
                /\ IsCard(cards'[e.batch], e.batch)
                /\ cards'[e.batch].active = (e.info.status \in Active)
<1>1. e.batch \in Batches /\ e.info.tasks \subseteq TasksOf[e.batch]
  BY EventFields DEF Named
<1>2. CASE e.batch \in DOMAIN cards
  BY <1>1, <1>2 DEF OnBatchCreated
<1>3. CASE e.batch \notin DOMAIN cards
  <2>1. PICK new : new = CardOf(e.info, [t \in e.info.tasks |-> "unknown"])
    OBVIOUS
  <2>2. IsCard(new, e.batch) /\ new.active = (e.info.status \in Active)
    <3>1. /\ DOMAIN new = {"active", "rows"} /\ new.rows = [t \in e.info.tasks |-> "unknown"]
          /\ new.active = (e.info.status \in Active)
      BY <2>1, CardOfFacts
    <3>2. DOMAIN new.rows = e.info.tasks
      BY <3>1
    <3>. QED BY <1>1, <3>1, <3>2 DEF IsCard
  <2>3. NoRefresh /\ cards' = Updated(cards, [b \in {e.batch} |-> new])
    BY <1>3, <2>1 DEF OnBatchCreated
  <2>4. DOMAIN cards' = DOMAIN cards \cup {e.batch} /\ cards'[e.batch] = new
        /\ \A b \in DOMAIN cards : cards'[b] = cards[b]
    BY <1>3, <2>3 DEF Updated
  <2>. QED BY <1>1, <1>3, <2>2, <2>3, <2>4
<1>. QED BY <1>2, <1>3

\* A change to one card: its stop, or its rows.
LEMMA OffFacts ==
    ASSUME Types, NEW b, b \in DOMAIN cards => cards' = [cards EXCEPT ![b].active = FALSE],
           b \notin DOMAIN cards => cards' = cards
    PROVE  /\ DOMAIN cards' = DOMAIN cards
           /\ \A c \in DOMAIN cards : c # b => cards'[c] = cards[c]
           /\ b \in DOMAIN cards => /\ IsCard(cards'[b], b) /\ cards'[b].active = FALSE
                                    /\ cards'[b].rows = cards[b].rows
<1>1. CASE b \in DOMAIN cards
  <2>1. PICK card : card = cards[b]
    OBVIOUS
  <2>2. IsCard(card, b)
    BY <1>1, <2>1 DEF Types, CardTypes, IsCard
  <2>3. PICK new : new = [card EXCEPT !.active = FALSE]
    OBVIOUS
  <2>4. IsCard(new, b) /\ new.active = FALSE /\ new.rows = card.rows
    BY <2>2, <2>3 DEF IsCard
  <2>5. cards' = [cards EXCEPT ![b] = new]
    BY <1>1, <2>1, <2>3
  <2>. QED BY <1>1, <2>1, <2>4, <2>5
<1>2. CASE b \notin DOMAIN cards
  BY <1>2
<1>. QED BY <1>1, <1>2

LEMMA RowsFacts ==
    ASSUME Types, NEW b \in DOMAIN cards, NEW rows, DOMAIN rows = DOMAIN cards[b].rows,
           cards' = [cards EXCEPT ![b].rows = rows]
    PROVE  /\ DOMAIN cards' = DOMAIN cards
           /\ \A c \in DOMAIN cards : c # b => cards'[c] = cards[c]
           /\ IsCard(cards'[b], b) /\ cards'[b].active = cards[b].active /\ cards'[b].rows = rows
<1>1. PICK card : card = cards[b]
  OBVIOUS
<1>2. IsCard(card, b)
  BY <1>1 DEF Types, CardTypes, IsCard
<1>3. PICK new : new = [card EXCEPT !.rows = rows]
  OBVIOUS
<1>4. IsCard(new, b) /\ new.active = card.active /\ new.rows = rows
  BY <1>1, <1>2, <1>3 DEF IsCard
<1>5. cards' = [cards EXCEPT ![b] = new]
  BY <1>1, <1>3
<1>. QED BY <1>1, <1>4, <1>5

LEMMA StatusFacts ==
    ASSUME Types, NEW e, OnExecutionStatus(e)
    PROVE  /\ DOMAIN cards' = DOMAIN cards /\ NoRefresh
           /\ \A c \in DOMAIN cards : c # e.batch => cards'[c] = cards[c]
           /\ e.batch \in DOMAIN cards => /\ IsCard(cards'[e.batch], e.batch)
                                          /\ cards'[e.batch].active = cards[e.batch].active
<1>1. CASE e.batch \in DOMAIN cards /\ e.task \in DOMAIN cards[e.batch].rows
  <2>1. PICK b \in DOMAIN cards : b = e.batch
    BY <1>1
  <2>2. PICK rows : rows = [cards[b].rows EXCEPT ![e.task] = e.status]
    OBVIOUS
  <2>3. DOMAIN rows = DOMAIN cards[b].rows
    BY <2>2
  <2>4. cards' = [cards EXCEPT ![b].rows = rows]
    BY <1>1, <2>1, <2>2 DEF OnExecutionStatus
  <2>5. NoRefresh
    BY DEF OnExecutionStatus
  <2>. QED BY <2>1, <2>3, <2>4, <2>5, RowsFacts
<1>2. CASE ~(e.batch \in DOMAIN cards /\ e.task \in DOMAIN cards[e.batch].rows)
  <2>1. cards' = cards /\ NoRefresh
    BY <1>2 DEF OnExecutionStatus
  <2>2. e.batch \in DOMAIN cards => IsCard(cards[e.batch], e.batch)
    BY DEF Types, CardTypes, IsCard
  <2>. QED BY <2>1, <2>2
<1>. QED BY <1>1, <1>2

LEMMA ApplyFacts ==
    ASSUME Types, NEW r, RefreshApply(r)
    PROVE  /\ DOMAIN cards' = DOMAIN cards
           /\ \A c \in DOMAIN cards : c # r.batch => cards'[c] = cards[c]
           /\ r.batch \in DOMAIN cards =>
                /\ IsCard(cards'[r.batch], r.batch)
                /\ cards'[r.batch].active = cards[r.batch].active
                /\ DOMAIN cards'[r.batch].rows = DOMAIN cards[r.batch].rows
                /\ \A t \in DOMAIN cards[r.batch].rows : t \in DOMAIN r.rows => cards'[r.batch].rows[t] = r.rows[t]
<1>1. CASE r.batch \in DOMAIN cards
  <2>1. PICK b \in DOMAIN cards : b = r.batch
    BY <1>1
  <2>2. PICK rows : rows = [t \in DOMAIN cards[b].rows |->
                              IF t \in DOMAIN r.rows THEN r.rows[t] ELSE cards[b].rows[t]]
    OBVIOUS
  <2>3. DOMAIN rows = DOMAIN cards[b].rows
        /\ \A t \in DOMAIN cards[b].rows : t \in DOMAIN r.rows => rows[t] = r.rows[t]
    BY <2>2
  <2>4. cards' = [cards EXCEPT ![b].rows = rows]
    BY <1>1, <2>1, <2>2 DEF RefreshApply
  <2>5. /\ DOMAIN cards' = DOMAIN cards
        /\ \A c \in DOMAIN cards : c # b => cards'[c] = cards[c]
        /\ IsCard(cards'[b], b) /\ cards'[b].active = cards[b].active /\ cards'[b].rows = rows
    BY <2>3, <2>4, RowsFacts
  <2>. QED BY <2>1, <2>3, <2>5
<1>2. CASE r.batch \notin DOMAIN cards
  BY <1>2 DEF RefreshApply
<1>. QED BY <1>1, <1>2

\* Which steps touch the cards.
LEMMA CardsTouched ==
    ASSUME [Next]_vars
    PROVE  \/ \E b \in Batches : AnnounceCreated(b) \/ AnnounceCompleted(b) \/ PressStop(b)
           \/ Compose \/ HandleStoreEvent \/ \E r \in refreshes : RefreshRead(r) \/ RefreshApply(r)
           \/ UNCHANGED <<cardVars, missed>>
<1>. USE DEF SameScreen, serverVars, screenVars, cardVars, logVars
<1>1. ASSUME NEW b \in Batches, OpenBatch(b) \/ Admit(b) \/ WriteRecord(b)
      PROVE  UNCHANGED <<cardVars, missed>>
  BY <1>1 DEF OpenBatch, Admit, WriteRecord
<1>2. ASSUME NEW b \in Batches, TakeListeners(b) \/ EmitLine(b) \/ Finish(b)
      PROVE  UNCHANGED <<cardVars, missed>>
  BY <1>2 DEF TakeListeners, EmitLine, Finish
<1>3. ASSUME NEW b \in Batches, Complete(b)
      PROVE  UNCHANGED <<cardVars, missed>>
  BY <1>3 DEF Complete
<1>4. ASSUME NEW b \in Batches, NEW t \in TasksOf[b], Take(b, t)
      PROVE  UNCHANGED <<cardVars, missed>>
  BY <1>4 DEF Take
<1>5. Install \/ Connect \/ ReadSnapshot \/ Overlay =>
         UNCHANGED <<cardVars, missed>>
  BY DEF Install, Connect, ReadSnapshot, Overlay
<1>6. Resume \/ LoseLane \/ HealLane \/ EndSession =>
         UNCHANGED <<cardVars, missed>>
  BY DEF Resume, LoseLane, HealLane, EndSession
<1>7. OpenLog \/ WriteBacklog \/ WriteLine \/ CloseLog =>
         UNCHANGED <<cardVars, missed>>
  BY DEF OpenLog, WriteBacklog, WriteLine, CloseLog
<1>8. UNCHANGED vars => UNCHANGED <<cardVars, missed>>
  BY DEF vars
<1>. QED BY <1>1, <1>2, <1>3, <1>4, <1>5, <1>6, <1>7, <1>8 DEF Next, ServerNext, ScreenNext

LEMMA CardTypesStep ==
    ASSUME Types, StageInv, [Next]_vars
    PROVE  CardTypes'
<1>. USE DEF SameScreen, serverVars, screenVars, cardVars, logVars
<1>0. /\ DOMAIN cards \subseteq Batches /\ begun \in Nat /\ missed \subseteq Batches /\ overlapped \subseteq Batches
      /\ \A b \in DOMAIN cards : IsCard(cards[b], b)
      /\ \A r \in refreshes : DOMAIN r = {"n", "batch", "read", "rows"} /\ r.batch \in Batches /\ r.read \in BOOLEAN
  BY DEF Types, CardTypes, IsCard
<1>1. SUFFICES /\ DOMAIN cards' \subseteq Batches /\ begun' \in Nat
               /\ \A b \in DOMAIN cards' : IsCard(cards'[b], b)
               /\ \A r \in refreshes' :
                     DOMAIN r = {"n", "batch", "read", "rows"} /\ r.batch \in Batches /\ r.read \in BOOLEAN
               /\ missed' \subseteq Batches /\ overlapped' \subseteq Batches
  BY DEF CardTypes, IsCard
<1>2. ASSUME NEW b \in Batches, AnnounceCreated(b) \/ AnnounceCompleted(b)
      PROVE  UNCHANGED cardVars /\ missed' \subseteq Batches
  BY <1>0, <1>2, BatchEventFacts DEF AnnounceCreated, AnnounceCompleted, PublishBatch
<1>3. CASE Compose
  <2>1. /\ DOMAIN History \subseteq Batches
        /\ \A b \in DOMAIN History : History[b].rows = record[b]
    BY DEF History
  <2>2. cards' = [b \in DOMAIN History |-> CardOf(History[b].info, History[b].rows)]
    BY <1>3 DEF Compose
  <2>3. ASSUME NEW b \in DOMAIN cards' PROVE IsCard(cards'[b], b)
    <3>1. b \in Batches /\ cards'[b] = CardOf(History[b].info, record[b])
      BY <2>1, <2>2
    <3>2. DOMAIN record[b] \subseteq TasksOf[b]
      BY <3>1, InfoType
    <3>. QED BY <3>1, <3>2, CardOfFacts DEF IsCard
  <2>4. UNCHANGED <<refreshes, begun, overlapped, missed>>
    BY <1>3 DEF Compose
  <2>. QED BY <1>0, <2>1, <2>2, <2>3, <2>4
<1>4. CASE HandleStoreEvent
  <2>1. PICK e \in Events : /\ Named(e)
                            /\ e.kind = "task" => UNCHANGED cardVars
                            /\ e.kind = "created" => OnBatchCreated(e)
                            /\ e.kind = "completed" => OnBatchCompleted(e)
                            /\ e.kind = "record" => OnExecutionStatus(e)
    BY <1>4, MessageFacts
  <2>2. missed' = missed
    BY <1>4 DEF HandleStoreEvent
  <2>3. ASSUME NEW b \in Batches, Refresh(b)
        PROVE  /\ begun' \in Nat /\ overlapped' \subseteq Batches
               /\ \A r \in refreshes' :
                     DOMAIN r = {"n", "batch", "read", "rows"} /\ r.batch \in Batches /\ r.read \in BOOLEAN
    <3>1. PICK r : /\ refreshes' = refreshes \cup {r} /\ DOMAIN r = {"n", "batch", "read", "rows"}
                   /\ r.batch = b /\ r.read = FALSE
      BY <2>3, RefreshFacts
    <3>. QED BY <1>0, <2>3, <3>1, RefreshFacts
  <2>4. CASE e.kind = "task"
    BY <1>0, <2>1, <2>2, <2>4
  <2>5. CASE e.kind = "created"
    <3>1. e.batch \in Batches
      BY <2>5, EventFields
    <3>2. CASE e.batch \in DOMAIN cards
      <4>1. cards' = cards /\ (NoRefresh \/ Refresh(e.batch))
        BY <2>1, <2>5, <3>2, CreatedFacts
      <4>. QED BY <1>0, <2>2, <2>3, <3>1, <4>1 DEF NoRefresh
    <3>3. CASE e.batch \notin DOMAIN cards
      <4>1. /\ NoRefresh /\ DOMAIN cards' = DOMAIN cards \cup {e.batch}
            /\ \A b \in DOMAIN cards : cards'[b] = cards[b]
            /\ IsCard(cards'[e.batch], e.batch)
        BY <2>1, <2>5, <3>3, CreatedFacts
      <4>. QED BY <1>0, <2>2, <3>1, <4>1 DEF NoRefresh
    <3>. QED BY <3>2, <3>3
  <2>6. CASE e.kind = "completed"
    <3>1. e.batch \in Batches
      BY <2>6, EventFields
    <3>2. /\ e.batch \in DOMAIN cards => cards' = [cards EXCEPT ![e.batch].active = FALSE]
          /\ e.batch \notin DOMAIN cards => cards' = cards
          /\ Refresh(e.batch)
      BY <2>1, <2>6 DEF OnBatchCompleted
    <3>3. /\ DOMAIN cards' = DOMAIN cards
          /\ \A c \in DOMAIN cards : c # e.batch => cards'[c] = cards[c]
          /\ e.batch \in DOMAIN cards => IsCard(cards'[e.batch], e.batch)
      BY <3>2, OffFacts
    <3>. QED BY <1>0, <2>2, <2>3, <3>1, <3>2, <3>3
  <2>7. CASE e.kind = "record"
    <3>1. /\ DOMAIN cards' = DOMAIN cards /\ NoRefresh
          /\ \A c \in DOMAIN cards : c # e.batch => cards'[c] = cards[c]
          /\ e.batch \in DOMAIN cards => IsCard(cards'[e.batch], e.batch)
      BY <2>1, <2>7, StatusFacts
    <3>. QED BY <1>0, <2>2, <3>1 DEF NoRefresh
  <2>. QED BY <2>4, <2>5, <2>6, <2>7, EventFields
<1>5. ASSUME NEW r \in refreshes, RefreshRead(r) PROVE CardTypes'
  <2>1. PICK x : x = [r EXCEPT !.read = TRUE, !.rows = record[r.batch]]
    OBVIOUS
  <2>2. DOMAIN x = {"n", "batch", "read", "rows"} /\ x.batch = r.batch /\ x.read = TRUE
    BY <1>0, <1>5, <2>1
  <2>3. refreshes' \subseteq refreshes \cup {x} /\ UNCHANGED <<cards, begun, overlapped, missed>>
    BY <1>5, <2>1 DEF RefreshRead
  <2>. QED BY <1>0, <2>2, <2>3 DEF CardTypes, IsCard
<1>6. ASSUME NEW r \in refreshes, RefreshApply(r) PROVE CardTypes'
  <2>1. /\ DOMAIN cards' = DOMAIN cards
        /\ \A c \in DOMAIN cards : c # r.batch => cards'[c] = cards[c]
        /\ r.batch \in DOMAIN cards => IsCard(cards'[r.batch], r.batch)
    BY <1>6, ApplyFacts
  <2>2. refreshes' \subseteq refreshes /\ UNCHANGED <<begun, overlapped, missed>>
    BY <1>6 DEF RefreshApply
  <2>. QED BY <1>0, <2>1, <2>2 DEF CardTypes, IsCard
<1>7. ASSUME NEW b \in Batches, PressStop(b) PROVE CardTypes'
  <2>1. cards' = [cards EXCEPT ![b].active = FALSE] /\ b \in DOMAIN cards
        /\ UNCHANGED <<refreshes, begun, overlapped, missed>>
    BY <1>7 DEF PressStop
  <2>2. /\ DOMAIN cards' = DOMAIN cards
        /\ \A c \in DOMAIN cards : c # b => cards'[c] = cards[c]
        /\ b \in DOMAIN cards => IsCard(cards'[b], b)
    BY <2>1, OffFacts
  <2>. QED BY <1>0, <2>1, <2>2 DEF CardTypes, IsCard
<1>8. CASE UNCHANGED <<cardVars, missed>>
  BY <1>0, <1>8
<1>9. \/ \E b \in Batches : AnnounceCreated(b) \/ AnnounceCompleted(b) \/ PressStop(b)
      \/ Compose \/ HandleStoreEvent \/ \E r \in refreshes : RefreshRead(r) \/ RefreshApply(r)
      \/ UNCHANGED <<cardVars, missed>>
  BY CardsTouched
<1>. QED BY <1>0, <1>2, <1>3, <1>4, <1>5, <1>6, <1>7, <1>8, <1>9 DEF CardTypes, IsCard

\* Which steps touch the log and its view.
LEMMA LogTouched ==
    ASSUME [Next]_vars
    PROVE  \/ \E b \in Batches : EmitLine(b)
           \/ OpenLog \/ WriteBacklog \/ WriteLine \/ CloseLog \/ UNCHANGED logVars
<1>. USE DEF SameScreen, serverVars, screenVars, cardVars, logVars
<1>1. ASSUME NEW b \in Batches, OpenBatch(b) \/ Admit(b) \/ AnnounceCreated(b)
      PROVE  UNCHANGED logVars
  BY <1>1 DEF OpenBatch, Admit, AnnounceCreated
<1>2. ASSUME NEW b \in Batches, WriteRecord(b) \/ TakeListeners(b) \/ Finish(b)
      PROVE  UNCHANGED logVars
  BY <1>2 DEF WriteRecord, TakeListeners, Finish
<1>3. ASSUME NEW b \in Batches, Complete(b) \/ AnnounceCompleted(b)
      PROVE  UNCHANGED logVars
  BY <1>3 DEF Complete, AnnounceCompleted
<1>4. ASSUME NEW b \in Batches, NEW t \in TasksOf[b], Take(b, t)
      PROVE  UNCHANGED logVars
  BY <1>4 DEF Take
<1>5. Install \/ Compose \/ Connect \/ ReadSnapshot =>
         UNCHANGED logVars
  BY DEF Install, Compose, Connect, ReadSnapshot
<1>6. Overlay \/ Resume \/ HandleStoreEvent \/ LoseLane =>
         UNCHANGED logVars
  BY DEF Overlay, Resume, HandleStoreEvent, LoseLane
<1>7. HealLane \/ EndSession =>
         UNCHANGED logVars
  BY DEF HealLane, EndSession
<1>8. ASSUME NEW r \in refreshes, RefreshRead(r) \/ RefreshApply(r)
      PROVE  UNCHANGED logVars
  BY <1>8 DEF RefreshRead, RefreshApply
<1>9. ASSUME NEW b \in Batches, PressStop(b)
      PROVE  UNCHANGED logVars
  BY <1>9 DEF PressStop
<1>10. UNCHANGED vars => UNCHANGED logVars
  BY DEF vars
<1>. QED BY <1>1, <1>2, <1>3, <1>4, <1>5, <1>6, <1>7, <1>8, <1>9, <1>10 DEF Next, ServerNext, ScreenNext

LEMMA LogTypesStep ==
    ASSUME Types, [Next]_vars
    PROVE  LogTypes'
<1>. USE DEF SameScreen, serverVars, screenVars, cardVars, logVars, Types, LogTypes
<1>1. ASSUME NEW b \in Batches, EmitLine(b) PROVE LogTypes'
  BY <1>1, AppendProperties DEF EmitLine
<1>2. CASE OpenLog \/ WriteBacklog
  BY <1>2 DEF OpenLog, WriteBacklog
<1>3. CASE WriteLine
  <2>1. Head(lines) \in Batches /\ Tail(lines) \in Seq(Batches)
    BY <1>3, HeadTailProperties DEF WriteLine
  <2>. QED BY <1>3, <2>1, AppendProperties DEF WriteLine
<1>4. CASE CloseLog
  BY <1>4, EmptySeq DEF CloseLog
<1>5. CASE UNCHANGED logVars
  BY <1>5
<1>6. \/ \E b \in Batches : EmitLine(b)
      \/ OpenLog \/ WriteBacklog \/ WriteLine \/ CloseLog \/ UNCHANGED logVars
  BY LogTouched
<1>. QED BY <1>1, <1>2, <1>3, <1>4, <1>5, <1>6

LEMMA TypesStep ==
    ASSUME Types, FlowInv, StageInv, [Next]_vars
    PROVE  Types'
BY ServerTypesStep, ScreenTypesStep, QueueTypesStep, CardTypesStep, LogTypesStep DEF Types

---------------------------------------------------------------------------
(* How a batch goes, and what the screen has before it listens. *)

\* A worker that is at a step has its task, and its batch its body.
LEMMA AtFacts ==
    ASSUME Types, FlowInv, NEW b \in Batches, NEW step, At(b, step)
    PROVE  /\ work[b] \in Works /\ work[b].task \in TasksOf[b] /\ work[b].task \in Tasks
           /\ work[b].goal \in Statuses /\ work[b].goal \in RowStatuses
           /\ work[b] # Nothing /\ phase[b] = "body" /\ ~ended
           /\ record[b] # Nothing /\ record[b] \in [TasksOf[b] -> RowStatuses]
<1>1. work[b] # Nothing /\ work[b] \in Works /\ work[b].task \in TasksOf[b]
  BY DEF At, Types, ServerTypes
<1>2. phase[b] = "body" /\ record[b] # Nothing
  BY <1>1 DEF FlowInv, Types, ServerTypes
<1>3. ~ended /\ record[b] \in [TasksOf[b] -> RowStatuses]
  BY <1>2 DEF FlowInv, Types, ServerTypes
<1>. QED BY <1>1, <1>2, <1>3, BasicFacts DEF Works, RowStatuses

\* Which steps touch how a batch goes.
LEMMA FlowTouched ==
    ASSUME [Next]_vars
    PROVE  \/ \E b \in Batches : \/ OpenBatch(b) \/ AnnounceCreated(b) \/ Complete(b) \/ AnnounceCompleted(b)
                                 \/ Admit(b) \/ Finish(b) \/ WriteRecord(b) \/ TakeListeners(b) \/ EmitLine(b)
                                 \/ PressStop(b) \/ \E t \in TasksOf[b] : Take(b, t)
           \/ EndSession \/ CloseLog
           \/ UNCHANGED <<serverVars, stopping>>
<1>. USE DEF SameScreen, serverVars, screenVars, cardVars, logVars
<1>1. Install \/ Compose \/ Connect \/ ReadSnapshot =>
         UNCHANGED <<serverVars, stopping>>
  BY DEF Install, Compose, Connect, ReadSnapshot
<1>2. Overlay \/ Resume \/ HandleStoreEvent \/ LoseLane =>
         UNCHANGED <<serverVars, stopping>>
  BY DEF Overlay, Resume, HandleStoreEvent, LoseLane
<1>3. HealLane =>
         UNCHANGED <<serverVars, stopping>>
  BY DEF HealLane
<1>4. OpenLog \/ WriteBacklog \/ WriteLine =>
         UNCHANGED <<serverVars, stopping>>
  BY DEF OpenLog, WriteBacklog, WriteLine
<1>5. ASSUME NEW r \in refreshes, RefreshRead(r) \/ RefreshApply(r)
      PROVE  UNCHANGED <<serverVars, stopping>>
  BY <1>5 DEF RefreshRead, RefreshApply
<1>6. UNCHANGED vars => UNCHANGED <<serverVars, stopping>>
  BY DEF vars
<1>. QED BY <1>1, <1>2, <1>3, <1>4, <1>5, <1>6 DEF Next, ServerNext, ScreenNext

LEMMA FlowStep ==
    ASSUME Types, FlowInv, StageInv, [Next]_vars
    PROVE  FlowInv'
<1>. USE DEF SameScreen, serverVars
<1>1. ASSUME NEW b \in Batches,
             OpenBatch(b) \/ AnnounceCreated(b) \/ Complete(b) \/ AnnounceCompleted(b)
      PROVE  FlowInv'
  BY <1>1 DEF FlowInv, OpenBatch, AnnounceCreated, Complete, AnnounceCompleted, Over, Active, Types,
              ServerTypes, BatchStatuses
<1>2. ASSUME NEW b \in Batches, Admit(b) PROVE FlowInv'
  <2>1. [t \in TasksOf[b] |-> "READY_TO_PROCESS"] # Nothing
    <3>1. PICK f : f = [t \in TasksOf[b] |-> "READY_TO_PROCESS"]
      OBVIOUS
    <3>2. DOMAIN f # DOMAIN Nothing
      BY <3>1, ScreenAssumption, BasicFacts
    <3>. QED BY <3>1, <3>2
  <2>2. record'[b] # Nothing /\ \A c \in Batches : c # b => record'[c] = record[c]
    BY <1>2, <2>1 DEF Admit, Types, ServerTypes
  <2>3. /\ phase' = [phase EXCEPT ![b] = "admitted"] /\ batch' = [batch EXCEPT ![b] = "RUNNING"]
        /\ UNCHANGED <<stopping, work, ended>> /\ phase[b] = "opened"
    BY <1>2 DEF Admit
  <2>. QED BY <2>2, <2>3 DEF FlowInv, Over, Types, ServerTypes
<1>3. ASSUME NEW b \in Batches, phase[b] = "body", UNCHANGED <<phase, batch, stopping, ended>>,
             \A c \in Batches : c # b => work'[c] = work[c] /\ record'[c] = record[c],
             record'[b] # Nothing
      PROVE  FlowInv'
  BY <1>3 DEF FlowInv
<1>4. ASSUME NEW b \in Batches, NEW t \in TasksOf[b], Take(b, t) PROVE FlowInv'
  <2>1. PICK goal \in Statuses, claims \in BOOLEAN : SetStatus(b, t, goal, claims)
    BY <1>4 DEF Take, Statuses
  <2>2. \A c \in Batches : c # b => work'[c] = work[c]
    BY <2>1, SetStatusFacts
  <2>3. phase[b] = "body" /\ record[b] # Nothing /\ UNCHANGED <<phase, batch, stopping, ended, record>>
    BY <1>4 DEF Take, FlowInv
  <2>. QED BY <1>3, <2>2, <2>3
<1>5. ASSUME NEW b \in Batches, Finish(b) \/ TakeListeners(b) \/ EmitLine(b) PROVE FlowInv'
  <2>1. phase[b] = "body" /\ record[b] # Nothing /\ UNCHANGED <<phase, batch, stopping, ended, record>>
    BY <1>5, AtFacts DEF Finish, TakeListeners, EmitLine
  <2>2. \A c \in Batches : c # b => work'[c] = work[c]
    BY <1>5 DEF Finish, TakeListeners, EmitLine, SetStatus, Goto, Types, ServerTypes
  <2>. QED BY <1>3, <2>1, <2>2
<1>6. ASSUME NEW b \in Batches, WriteRecord(b) PROVE FlowInv'
  <2>1. phase[b] = "body" /\ record[b] \in [TasksOf[b] -> RowStatuses]
    BY <1>6, AtFacts DEF WriteRecord
  <2>2. PICK f : f = [record[b] EXCEPT ![work[b].task] = work[b].goal]
    OBVIOUS
  <2>3. DOMAIN f = TasksOf[b] /\ f # Nothing
    BY <2>1, <2>2, ScreenAssumption, BasicFacts
  <2>4. record' = [record EXCEPT ![b] = f]
    BY <1>6, <2>2 DEF WriteRecord, Types, ServerTypes
  <2>5. \A c \in Batches : c # b => work'[c] = work[c]
    BY <1>6 DEF WriteRecord, Goto, Types, ServerTypes
  <2>6. UNCHANGED <<phase, batch, stopping, ended>>
    BY <1>6 DEF WriteRecord
  <2>. QED BY <1>3, <2>1, <2>3, <2>4, <2>5, <2>6 DEF Types, ServerTypes
<1>7. CASE EndSession
  BY <1>7 DEF EndSession, FlowInv
<1>8. ASSUME NEW b \in Batches, PressStop(b) PROVE FlowInv'
  BY <1>8 DEF PressStop, FlowInv, Over, Active, Types, ServerTypes
<1>9. CASE CloseLog
  <2>1. UNCHANGED <<phase, batch, stopping, record, ended>>
    BY <1>9 DEF CloseLog
  <2>. QED BY <1>9, <2>1, CloseLogFacts DEF FlowInv
<1>10. CASE UNCHANGED <<serverVars, stopping>>
  BY <1>10 DEF FlowInv
<1>11. \/ \E b \in Batches : \/ OpenBatch(b) \/ AnnounceCreated(b) \/ Complete(b) \/ AnnounceCompleted(b)
                             \/ Admit(b) \/ Finish(b) \/ WriteRecord(b) \/ TakeListeners(b) \/ EmitLine(b)
                             \/ PressStop(b) \/ \E t \in TasksOf[b] : Take(b, t)
       \/ EndSession \/ CloseLog
       \/ UNCHANGED <<serverVars, stopping>>
  BY FlowTouched
<1>. QED BY <1>1, <1>2, <1>4, <1>5, <1>6, <1>7, <1>8, <1>9, <1>10, <1>11

\* Which steps touch what a screen shows or has in its queue.
LEMMA StageTouched ==
    ASSUME [Next]_vars
    PROVE  \/ \E b \in Batches : \/ AnnounceCreated(b) \/ AnnounceCompleted(b) \/ Finish(b) \/ WriteRecord(b)
                                 \/ PressStop(b) \/ \E t \in TasksOf[b] : Take(b, t)
           \/ Install \/ Compose \/ Connect \/ ReadSnapshot \/ Resume \/ Overlay \/ HandleStoreEvent \/ HealLane
           \/ \E r \in refreshes : RefreshRead(r) \/ RefreshApply(r)
           \/ UNCHANGED <<cardVars, screenVars, queue>>
<1>. USE DEF SameScreen, serverVars, screenVars, cardVars, logVars
<1>1. ASSUME NEW b \in Batches, OpenBatch(b) \/ Admit(b) \/ TakeListeners(b)
      PROVE  UNCHANGED <<cardVars, screenVars, queue>>
  BY <1>1 DEF OpenBatch, Admit, TakeListeners
<1>2. ASSUME NEW b \in Batches, EmitLine(b) \/ Complete(b)
      PROVE  UNCHANGED <<cardVars, screenVars, queue>>
  BY <1>2 DEF EmitLine, Complete
<1>3. LoseLane \/ EndSession =>
         UNCHANGED <<cardVars, screenVars, queue>>
  BY DEF LoseLane, EndSession
<1>4. OpenLog \/ WriteBacklog \/ WriteLine \/ CloseLog =>
         UNCHANGED <<cardVars, screenVars, queue>>
  BY DEF OpenLog, WriteBacklog, WriteLine, CloseLog
<1>5. UNCHANGED vars => UNCHANGED <<cardVars, screenVars, queue>>
  BY DEF vars
<1>. QED BY <1>1, <1>2, <1>3, <1>4, <1>5 DEF Next, ServerNext, ScreenNext

LEMMA StageStep ==
    ASSUME Types, FlowInv, StageInv, [Next]_vars
    PROVE  StageInv'
<1>. USE DEF SameScreen, serverVars, cardVars, screenVars
<1>1. CASE Install
  BY <1>1 DEF Install, StageInv, Types, ServerTypes
<1>2. CASE Compose \/ Connect
  <2>1. CASE Compose
    BY <2>1 DEF Compose, StageInv
  <2>2. CASE Connect
    BY <2>2 DEF Connect, StageInv
  <2>. QED BY <1>2, <2>1, <2>2
<1>3. CASE ReadSnapshot \/ Resume
  BY <1>3 DEF ReadSnapshot, Resume, StageInv
<1>4. CASE Overlay
  <2>1. Updated(mirror, snapshot) \in [Tasks -> Statuses]
    BY <1>4, BasicFacts DEF Overlay, StageInv, Updated, Types, ScreenTypes
  <2>. QED BY <1>4, <2>1 DEF Overlay, StageInv
<1>5. CASE HandleStoreEvent
  <2>1. PICK e \in Events : e = Head(queue) /\ stage = "live" /\ queue # <<>> /\ UNCHANGED <<stage, subscribed>>
    BY <1>5, MessageFacts
  <2>2. mirror' = IF e.kind = "task" THEN [mirror EXCEPT ![e.task] = e.status] ELSE mirror
    BY <1>5, <2>1 DEF HandleStoreEvent
  <2>3. subscribed /\ mirror' \in [Tasks -> Statuses]
    BY <2>1, <2>2, EventFields DEF StageInv
  <2>. QED BY <2>1, <2>3 DEF StageInv
<1>6. ASSUME UNCHANGED <<stage, subscribed, mirror>>,
             DOMAIN cards' = DOMAIN cards,
             ~subscribed => queue' = queue /\ (refreshes = {} => refreshes' = {})
      PROVE  StageInv'
  BY <1>6 DEF StageInv
<1>7. ASSUME NEW e, Publish(e), UNCHANGED <<stage, subscribed, mirror, cards, refreshes>>
      PROVE  StageInv'
  BY <1>6, <1>7 DEF Publish
<1>8. ASSUME NEW b \in Batches, AnnounceCreated(b) \/ AnnounceCompleted(b) PROVE StageInv'
  BY <1>7, <1>8 DEF AnnounceCreated, AnnounceCompleted, PublishBatch
<1>9. ASSUME NEW b \in Batches, Finish(b) \/ WriteRecord(b) \/ \E t \in TasksOf[b] : Take(b, t)
      PROVE  StageInv'
  <2>1. UNCHANGED <<stage, subscribed, mirror, cards, refreshes>>
    BY <1>9 DEF Finish, WriteRecord, Take
  <2>2. UNCHANGED queue \/ \E e : Publish(e)
    BY <1>9 DEF Finish, WriteRecord, Take, SetStatus
  <2>. QED BY <1>6, <1>7, <2>1, <2>2
<1>10. ASSUME NEW r \in refreshes, RefreshRead(r) \/ RefreshApply(r) PROVE StageInv'
  <2>1. UNCHANGED <<stage, subscribed, mirror, queue>> /\ subscribed
    BY <1>10 DEF RefreshRead, RefreshApply, StageInv
  <2>2. DOMAIN cards' = DOMAIN cards
    BY <1>10, ApplyFacts DEF RefreshRead
  <2>. QED BY <1>6, <2>1, <2>2
<1>11. ASSUME NEW b \in Batches, PressStop(b) PROVE StageInv'
  <2>1. UNCHANGED <<stage, subscribed, mirror, queue, refreshes>> /\ DOMAIN cards' = DOMAIN cards
    BY <1>11 DEF PressStop
  <2>. QED BY <1>6, <2>1
<1>12. CASE HealLane
  BY <1>6, <1>12 DEF HealLane
<1>13. CASE UNCHANGED <<cardVars, screenVars, queue>>
  BY <1>6, <1>13
<1>14. \/ \E b \in Batches : \/ AnnounceCreated(b) \/ AnnounceCompleted(b) \/ Finish(b) \/ WriteRecord(b)
                             \/ PressStop(b) \/ \E t \in TasksOf[b] : Take(b, t)
       \/ Install \/ Compose \/ Connect \/ ReadSnapshot \/ Resume \/ Overlay \/ HandleStoreEvent \/ HealLane
       \/ \E r \in refreshes : RefreshRead(r) \/ RefreshApply(r)
       \/ UNCHANGED <<cardVars, screenVars, queue>>
  BY StageTouched
<1>. QED BY <1>1, <1>2, <1>3, <1>4, <1>5, <1>8, <1>9, <1>10, <1>11, <1>12, <1>13, <1>14

---------------------------------------------------------------------------
(* The lines of the log view. *)

\* A sequence longer by an element, or shorter by one.
LEMMA RangeAppend ==
    ASSUME NEW S, NEW s \in Seq(S), NEW e \in S
    PROVE  Range(Append(s, e)) = Range(s) \cup {e}
<1>1. /\ Append(s, e) \in Seq(S) /\ Len(Append(s, e)) = Len(s) + 1
      /\ \A i \in 1 .. Len(s) : Append(s, e)[i] = s[i]
      /\ Append(s, e)[Len(s) + 1] = e
      /\ Len(s) \in Nat /\ DOMAIN s = 1 .. Len(s) /\ DOMAIN Append(s, e) = 1 .. Len(s) + 1
  BY AppendProperties, LenProperties
<1>2. PICK n, u : n \in Nat /\ n = Len(s) /\ u = Append(s, e)
  BY <1>1
<1>3. \A i \in 1 .. n + 1 : i \in 1 .. n \/ i = n + 1
  BY <1>2
<1>4. n + 1 \in 1 .. n + 1 /\ 1 .. n \subseteq 1 .. n + 1
  BY <1>2
<1>. QED BY <1>1, <1>2, <1>3, <1>4 DEF Range

LEMMA RangeHeadTail ==
    ASSUME NEW S, NEW s \in Seq(S), s # <<>>
    PROVE  Head(s) \in S /\ Tail(s) \in Seq(S) /\ Range(s) \subseteq Range(Tail(s)) \cup {Head(s)}
<1>1. /\ Tail(s) \in Seq(S) /\ Len(Tail(s)) = Len(s) - 1 /\ Head(s) \in S
      /\ \A i \in 1 .. Len(s) - 1 : Tail(s)[i] = s[i + 1]
      /\ Len(s) \in Nat /\ Len(s) > 0 /\ DOMAIN s = 1 .. Len(s)
      /\ DOMAIN Tail(s) = 1 .. Len(s) - 1 /\ Head(s) = s[1]
  BY HeadTailProperties, LenProperties, EmptySeq
<1>2. PICK n, u : n \in Nat /\ n = Len(s) /\ u = Tail(s)
  BY <1>1
<1>3. ASSUME NEW i \in 1 .. n, i # 1 PROVE s[i] \in Range(u)
  <2>1. i - 1 \in 1 .. n - 1 /\ (i - 1) + 1 = i
    BY <1>2, <1>3
  <2>2. u[i - 1] = s[i]
    BY <1>1, <1>2, <2>1
  <2>. QED BY <1>1, <1>2, <2>1, <2>2 DEF Range
<1>. QED BY <1>1, <1>2, <1>3 DEF Range

\* Which steps touch the lines of the log.
LEMMA LinesTouched ==
    ASSUME [Next]_vars
    PROVE  \/ \E b \in Batches : \/ Finish(b) \/ WriteRecord(b) \/ TakeListeners(b) \/ EmitLine(b)
                                 \/ \E t \in TasksOf[b] : Take(b, t)
           \/ OpenLog \/ WriteBacklog \/ WriteLine \/ CloseLog
           \/ UNCHANGED <<logVars, work>>
<1>. USE DEF SameScreen, serverVars, screenVars, cardVars, logVars
<1>1. ASSUME NEW b \in Batches, OpenBatch(b) \/ Admit(b) \/ AnnounceCreated(b)
      PROVE  UNCHANGED <<logVars, work>>
  BY <1>1 DEF OpenBatch, Admit, AnnounceCreated
<1>2. ASSUME NEW b \in Batches, Complete(b) \/ AnnounceCompleted(b)
      PROVE  UNCHANGED <<logVars, work>>
  BY <1>2 DEF Complete, AnnounceCompleted
<1>3. Install \/ Compose \/ Connect \/ ReadSnapshot =>
         UNCHANGED <<logVars, work>>
  BY DEF Install, Compose, Connect, ReadSnapshot
<1>4. Overlay \/ Resume \/ HandleStoreEvent \/ LoseLane =>
         UNCHANGED <<logVars, work>>
  BY DEF Overlay, Resume, HandleStoreEvent, LoseLane
<1>5. HealLane \/ EndSession =>
         UNCHANGED <<logVars, work>>
  BY DEF HealLane, EndSession
<1>6. ASSUME NEW r \in refreshes, RefreshRead(r) \/ RefreshApply(r)
      PROVE  UNCHANGED <<logVars, work>>
  BY <1>6 DEF RefreshRead, RefreshApply
<1>7. ASSUME NEW b \in Batches, PressStop(b)
      PROVE  UNCHANGED <<logVars, work>>
  BY <1>7 DEF PressStop
<1>8. UNCHANGED vars => UNCHANGED <<logVars, work>>
  BY DEF vars
<1>. QED BY <1>1, <1>2, <1>3, <1>4, <1>5, <1>6, <1>7, <1>8 DEF Next, ServerNext, ScreenNext

LEMMA LineStep ==
    ASSUME Types, FlowInv, LineInv, [Next]_vars
    PROVE  LineInv'
<1>. USE DEF SameScreen, serverVars, cardVars, screenVars, logVars
<1>0. buffer \in Seq(Batches) /\ lines \in Seq(Batches) /\ shown \in Seq(Batches)
  BY DEF Types, LogTypes
<1>1. ASSUME UNCHANGED logVars,
             \A b \in Batches : At(b, "append")' /\ ~work'[b].hears => view = "closed" \/ (At(b, "append") /\ ~work[b].hears)
      PROVE  LineInv'
  BY <1>1 DEF LineInv
<1>2. ASSUME NEW b \in Batches, UNCHANGED logVars, \A c \in Batches : c # b => work'[c] = work[c],
             At(b, "append")' => view = "closed" \/ work'[b].hears
      PROVE  LineInv'
  BY <1>1, <1>2 DEF At
<1>3. ASSUME NEW b \in Batches, NEW t \in TasksOf[b], NEW goal \in Statuses, NEW claims \in BOOLEAN,
             SetStatus(b, t, goal, claims), UNCHANGED logVars
      PROVE  LineInv'
  <2>1. (\A c \in Batches : c # b => work'[c] = work[c]) /\ work'[b].at = "record"
    BY <1>3, SetStatusFacts
  <2>. QED BY <1>2, <1>3, <2>1 DEF At
<1>4. ASSUME NEW b \in Batches, Finish(b) \/ \E t \in TasksOf[b] : Take(b, t) PROVE LineInv'
  <2>1. CASE Finish(b)
    <3>1. work[b].task \in TasksOf[b] /\ UNCHANGED logVars
      BY <2>1, AtFacts DEF Finish
    <3>. QED BY <1>3, <2>1, <3>1 DEF Finish, Statuses
  <2>2. ASSUME NEW t \in TasksOf[b], Take(b, t) PROVE LineInv'
    BY <1>3, <2>2 DEF Take, Statuses
  <2>. QED BY <1>4, <2>1, <2>2
<1>5. ASSUME NEW b \in Batches, WriteRecord(b) PROVE LineInv'
  <2>1. work[b] # Nothing /\ DOMAIN work = Batches /\ UNCHANGED logVars
    BY <1>5, AtFacts DEF WriteRecord, Types, ServerTypes
  <2>2. CASE work' = [work EXCEPT ![b] = Nothing]
    <3>1. (\A c \in Batches : c # b => work'[c] = work[c]) /\ work'[b] = Nothing
      BY <2>1, <2>2
    <3>. QED BY <1>2, <2>1, <3>1 DEF At
  <2>3. ASSUME NEW step \in {"log", "body"}, Goto(b, step) PROVE LineInv'
    <3>1. (\A c \in Batches : c # b => work'[c] = work[c]) /\ work'[b].at = step
      BY <2>1, <2>3, GotoFacts DEF Goto
    <3>. QED BY <1>2, <2>1, <3>1 DEF At
  <2>. QED BY <1>5, <2>2, <2>3 DEF WriteRecord
<1>6. ASSUME NEW b \in Batches, TakeListeners(b) PROVE LineInv'
  <2>1. work[b] # Nothing /\ UNCHANGED logVars
    BY <1>6, AtFacts DEF TakeListeners
  <2>2. PICK hears \in BOOLEAN : hears <=> view # "closed"
    OBVIOUS
  <2>3. work' = [work EXCEPT ![b].at = "append", ![b].hears = hears]
    <3>1. hears = (view # "closed")
      BY <2>2, Zenon
    <3>. QED BY <1>6, <3>1 DEF TakeListeners
  <2>4. (\A c \in Batches : c # b => work'[c] = work[c]) /\ work'[b].hears = hears
    BY <2>1, <2>3, GotoFacts
  <2>. QED BY <1>2, <2>1, <2>2, <2>4
<1>7. ASSUME NEW b \in Batches, EmitLine(b) PROVE LineInv'
  <2>1. work[b] # Nothing /\ UNCHANGED <<view, shown, straddled>> /\ At(b, "append")
    BY <1>7, AtFacts DEF EmitLine
  <2>2. (\A c \in Batches : c # b => work'[c] = work[c]) /\ work'[b].at = "body"
    BY <1>7, <2>1, GotoFacts DEF EmitLine, Goto
  <2>3. Range(buffer') = Range(buffer) \cup {b} /\ buffer' \in Seq(Batches)
    BY <1>0, <1>7, RangeAppend, AppendProperties DEF EmitLine
  <2>4. Range(lines) \subseteq Range(lines') /\ (work[b].hears => b \in Range(lines'))
    <3>1. CASE work[b].hears
      BY <1>0, <1>7, <3>1, RangeAppend DEF EmitLine
    <3>2. CASE ~work[b].hears
      BY <1>7, <3>2 DEF EmitLine
    <3>. QED BY <3>1, <3>2
  <2>5. ASSUME view = "open", NEW i \in DOMAIN buffer'
        PROVE  buffer'[i] \in straddled \cup Range(shown) \cup Range(lines')
    <3>1. buffer'[i] \in Range(buffer) \cup {b}
      <4>1. buffer'[i] \in Range(buffer')
        BY <2>5 DEF Range
      <4>. QED BY <2>3, <4>1
    <3>2. CASE buffer'[i] \in Range(buffer)
      <4>1. PICK j \in DOMAIN buffer : buffer[j] = buffer'[i]
        BY <3>2 DEF Range
      <4>. QED BY <2>4, <2>5, <4>1 DEF LineInv
    <3>3. CASE buffer'[i] = b
      BY <2>1, <2>4, <2>5, <3>3 DEF LineInv
    <3>. QED BY <3>1, <3>2, <3>3
  <2>. QED BY <2>1, <2>2, <2>5 DEF LineInv, At
<1>8. CASE OpenLog
  <2>1. UNCHANGED work /\ view' = "attached" /\ straddled' = {b \in Batches : At(b, "append")}
    BY <1>8 DEF OpenLog
  <2>. QED BY <2>1 DEF LineInv, At
<1>9. CASE WriteBacklog
  <2>1. UNCHANGED <<work, straddled, buffer, lines>> /\ view = "attached" /\ shown' = buffer
    BY <1>9 DEF WriteBacklog
  <2>. QED BY <2>1 DEF LineInv, At, Range
<1>10. CASE WriteLine
  <2>1. UNCHANGED <<work, straddled, buffer, view>> /\ lines # <<>>
        /\ shown' = Append(shown, Head(lines)) /\ lines' = Tail(lines) /\ view = "open"
    BY <1>10 DEF WriteLine
  <2>2. Head(lines) \in Batches /\ Range(lines) \subseteq Range(Tail(lines)) \cup {Head(lines)}
    BY <1>0, <2>1, RangeHeadTail
  <2>3. Range(shown') = Range(shown) \cup {Head(lines)}
    BY <1>0, <2>1, <2>2, RangeAppend
  <2>. QED BY <2>1, <2>2, <2>3 DEF LineInv, At
<1>11. CASE CloseLog
  BY <1>11 DEF CloseLog, LineInv
<1>12. CASE UNCHANGED <<logVars, work>>
  BY <1>1, <1>12 DEF At
<1>13. \/ \E b \in Batches : \/ Finish(b) \/ WriteRecord(b) \/ TakeListeners(b) \/ EmitLine(b)
                             \/ \E t \in TasksOf[b] : Take(b, t)
       \/ OpenLog \/ WriteBacklog \/ WriteLine \/ CloseLog
       \/ UNCHANGED <<logVars, work>>
  BY LinesTouched
<1>. QED BY <1>4, <1>5, <1>6, <1>7, <1>8, <1>9, <1>10, <1>11, <1>12, <1>13

---------------------------------------------------------------------------
(* What the queue says of the batches. *)

LEMMA LongerHas ==
    ASSUME NEW q, NEW q2, NEW e, Longer(q2, q, e), NEW b
    PROVE  /\ HasCreated(q2, b) <=> HasCreated(q, b) \/ IsCreated(e, b)
           /\ HasCompleted(q2, b) <=> HasCompleted(q, b) \/ IsCompleted(e, b)
           /\ HasStale(q2, b) <=> HasStale(q, b) \/ Stale(e, b)
<1>1. PICK n \in Nat : /\ DOMAIN q = 1 .. n /\ DOMAIN q2 = 1 .. n + 1 /\ q2[n + 1] = e
                       /\ \A i \in 1 .. n : q2[i] = q[i]
  BY DEF Longer
<1>2. /\ \A i \in DOMAIN q : i \in DOMAIN q2 /\ q2[i] = q[i]
      /\ n + 1 \in DOMAIN q2
      /\ \A i \in DOMAIN q2 : i \in DOMAIN q \/ i = n + 1
  BY <1>1
<1>. QED BY <1>1, <1>2 DEF HasCreated, HasCompleted, HasStale

LEMMA ShorterHas ==
    ASSUME NEW q, NEW q2, NEW e, Shorter(q2, q, e), NEW b
    PROVE  /\ HasCreated(q, b) <=> HasCreated(q2, b) \/ IsCreated(e, b)
           /\ HasCompleted(q, b) <=> HasCompleted(q2, b) \/ IsCompleted(e, b)
           /\ HasStale(q, b) <=> HasStale(q2, b) \/ Stale(e, b)
<1>1. PICK n \in Nat : /\ n > 0 /\ DOMAIN q = 1 .. n /\ DOMAIN q2 = 1 .. n - 1 /\ q[1] = e
                       /\ \A i \in 1 .. n - 1 : q2[i] = q[i + 1]
  BY DEF Shorter
<1>2. \A i \in DOMAIN q2 : i + 1 \in DOMAIN q /\ q2[i] = q[i + 1]
  BY <1>1
<1>3. \A i \in DOMAIN q : i = 1 \/ (i - 1 \in DOMAIN q2 /\ q2[i - 1] = q[i])
  <2>1. ASSUME NEW i \in 1 .. n, i # 1 PROVE i - 1 \in 1 .. n - 1 /\ (i - 1) + 1 = i
    BY <2>1
  <2>. QED BY <1>1, <2>1
<1>4. 1 \in DOMAIN q
  BY <1>1
<1>. QED BY <1>1, <1>2, <1>3, <1>4 DEF HasCreated, HasCompleted, HasStale

LEMMA JoinsHas ==
    ASSUME NEW w, NEW u, NEW v, NEW k \in Nat, Joins(w, u, v, k), NEW b
    PROVE  /\ HasCreated(w, b) <=> HasCreated(u, b) \/ HasCreated(v, b)
           /\ HasCompleted(w, b) <=> HasCompleted(u, b) \/ HasCompleted(v, b)
           /\ HasStale(w, b) <=> HasStale(u, b) \/ HasStale(v, b)
<1>1. /\ \A i \in DOMAIN u : i \in DOMAIN w /\ w[i] = u[i]
      /\ \A i \in DOMAIN v : k + i \in DOMAIN w /\ w[k + i] = v[i]
      /\ \A i \in DOMAIN w : i \in DOMAIN u \/ \E j \in DOMAIN v : i = k + j
  BY DEF Joins
<1>. QED BY <1>1 DEF HasCreated, HasCompleted, HasStale

\* A queue stays right while the batches go on.
LEMMA QueueKeeps ==
    ASSUME NEW q, NEW phases, NEW phases2, NEW stops, NEW stops2, NEW linked \in BOOLEAN,
           NEW linked2 \in BOOLEAN, QueueRight(q, phases, stops, linked),
           stops \subseteq stops2, \A b \in Batches : phases[b] \in Over => phases2[b] \in Over,
           linked2 => linked /\ \A b \in Batches : phases2[b] = "closed" => phases[b] = "closed"
    PROVE  QueueRight(q, phases2, stops2, linked2)
BY DEF QueueRight

LEMMA QueueGrows ==
    ASSUME NEW q, NEW q2, NEW e, NEW phases, NEW phases2, NEW stops, NEW linked \in BOOLEAN,
           QueueRight(q, phases, stops, linked), Longer(q2, q, e),
           \A b \in Batches :
              /\ phases[b] \in Over => phases2[b] \in Over
              /\ IsCompleted(e, b) => phases2[b] \in Over
              /\ IsCreated(e, b) /\ e.info.status \notin Active => b \in stops \/ phases2[b] \in Over
              /\ Stale(e, b) => phases[b] \notin Over
              /\ phases2[b] = "closed" => (phases[b] = "closed" /\ ~IsCreated(e, b)) \/ IsCompleted(e, b),
           ~ \E b, c : IsCreated(e, b) /\ IsCompleted(e, c)
    PROVE  QueueRight(q2, phases2, stops, linked)
<1>1. PICK n \in Nat : /\ DOMAIN q = 1 .. n /\ DOMAIN q2 = 1 .. n + 1 /\ q2[n + 1] = e
                       /\ \A i \in 1 .. n : q2[i] = q[i]
  BY DEF Longer
<1>2. SUFFICES ASSUME NEW i \in DOMAIN q2, NEW b \in Batches
               PROVE  /\ IsCompleted(q2[i], b) => phases2[b] \in Over
                      /\ IsCreated(q2[i], b) /\ q2[i].info.status \notin Active => b \in stops \/ phases2[b] \in Over
                      /\ \A j \in DOMAIN q2 : i < j /\ IsCompleted(q2[i], b) => ~Stale(q2[j], b)
                      /\ linked /\ phases2[b] = "closed" /\ IsCreated(q2[i], b) =>
                            \E j \in DOMAIN q2 : i < j /\ IsCompleted(q2[j], b)
  BY DEF QueueRight
<1>3. CASE i = n + 1
  <2>1. \A j \in DOMAIN q2 : ~(i < j)
    BY <1>1, <1>3
  <2>2. q2[i] = e
    BY <1>1, <1>3
  <2>. QED BY <2>1, <2>2
<1>4. CASE i # n + 1
  <2>1. i \in DOMAIN q /\ q2[i] = q[i] /\ i < n + 1 /\ n + 1 \in DOMAIN q2
    BY <1>1, <1>4
  <2>2. \A j \in DOMAIN q2 : (j \in DOMAIN q /\ q2[j] = q[j]) \/ q2[j] = e
    BY <1>1
  <2>3. \A j \in DOMAIN q : j \in DOMAIN q2 /\ q2[j] = q[j]
    BY <1>1
  <2>4. IsCompleted(q2[i], b) => phases[b] \in Over
    BY <2>1 DEF QueueRight
  <2>5. \A j \in DOMAIN q2 : i < j /\ IsCompleted(q2[i], b) => ~Stale(q2[j], b)
    BY <2>1, <2>2, <2>4 DEF QueueRight
  <2>6. IsCreated(q2[i], b) /\ q2[i].info.status \notin Active => b \in stops \/ phases2[b] \in Over
    BY <2>1 DEF QueueRight
  <2>7. linked /\ phases2[b] = "closed" /\ IsCreated(q2[i], b) =>
          \E j \in DOMAIN q2 : i < j /\ IsCompleted(q2[j], b)
    BY <1>1, <2>1, <2>3 DEF QueueRight
  <2>. QED BY <2>4, <2>5, <2>6, <2>7
<1>. QED BY <1>3, <1>4

LEMMA QueuePops ==
    ASSUME NEW q, NEW q2, NEW e, NEW phases, NEW stops, NEW linked \in BOOLEAN,
           QueueRight(q, phases, stops, linked), Shorter(q2, q, e)
    PROVE  /\ QueueRight(q2, phases, stops, linked)
           /\ \A b \in Batches :
                 /\ IsCompleted(e, b) => phases[b] \in Over /\ ~HasStale(q2, b)
                 /\ IsCreated(e, b) => e.info.status \in Active \/ b \in stops \/ phases[b] \in Over
                 /\ linked /\ phases[b] = "closed" /\ IsCreated(e, b) => HasCompleted(q2, b)
<1>1. PICK n \in Nat : /\ n > 0 /\ DOMAIN q = 1 .. n /\ DOMAIN q2 = 1 .. n - 1 /\ q[1] = e
                       /\ \A i \in 1 .. n - 1 : q2[i] = q[i + 1]
  BY DEF Shorter
<1>2. \A i \in DOMAIN q2 : i \in Nat /\ i + 1 \in DOMAIN q /\ q2[i] = q[i + 1] /\ 1 < i + 1
  BY <1>1
<1>3. \A j \in DOMAIN q : j \in Nat /\ (j > 1 => j - 1 \in DOMAIN q2 /\ q2[j - 1] = q[j])
  <2>1. ASSUME NEW j \in 1 .. n, j > 1 PROVE j - 1 \in 1 .. n - 1 /\ (j - 1) + 1 = j
    BY <2>1
  <2>. QED BY <1>1, <2>1
<1>4. 1 \in DOMAIN q /\ q[1] = e
  BY <1>1
<1>5. ASSUME NEW i \in DOMAIN q2, NEW b \in Batches
      PROVE  /\ IsCompleted(q2[i], b) => phases[b] \in Over
             /\ IsCreated(q2[i], b) /\ q2[i].info.status \notin Active => b \in stops \/ phases[b] \in Over
             /\ \A j \in DOMAIN q2 : i < j /\ IsCompleted(q2[i], b) => ~Stale(q2[j], b)
             /\ linked /\ phases[b] = "closed" /\ IsCreated(q2[i], b) =>
                   \E j \in DOMAIN q2 : i < j /\ IsCompleted(q2[j], b)
  <2>1. i \in Nat /\ i + 1 \in DOMAIN q /\ q2[i] = q[i + 1]
    BY <1>2
  <2>2. ASSUME NEW j \in DOMAIN q2, i < j, IsCompleted(q2[i], b) PROVE ~Stale(q2[j], b)
    <3>1. j + 1 \in DOMAIN q /\ q2[j] = q[j + 1] /\ i + 1 < j + 1
      BY <1>2, <2>1, <2>2
    <3>. QED BY <2>1, <2>2, <3>1 DEF QueueRight
  <2>3. ASSUME linked, phases[b] = "closed", IsCreated(q2[i], b)
        PROVE  \E j \in DOMAIN q2 : i < j /\ IsCompleted(q2[j], b)
    <3>1. PICK j \in DOMAIN q : i + 1 < j /\ IsCompleted(q[j], b)
      BY <2>1, <2>3 DEF QueueRight
    <3>2. j \in Nat /\ j > 1
      BY <1>3, <2>1, <3>1
    <3>3. j - 1 \in DOMAIN q2 /\ q2[j - 1] = q[j] /\ i < j - 1
      BY <1>3, <2>1, <3>1, <3>2
    <3>. QED BY <3>1, <3>3
  <2>. QED BY <2>1, <2>2, <2>3 DEF QueueRight
<1>6. ASSUME NEW b \in Batches
      PROVE  /\ IsCompleted(e, b) => phases[b] \in Over /\ ~HasStale(q2, b)
             /\ IsCreated(e, b) => e.info.status \in Active \/ b \in stops \/ phases[b] \in Over
             /\ linked /\ phases[b] = "closed" /\ IsCreated(e, b) => HasCompleted(q2, b)
  <2>1. IsCompleted(e, b) => ~HasStale(q2, b)
    BY <1>2, <1>4 DEF QueueRight, HasStale
  <2>2. ASSUME linked, phases[b] = "closed", IsCreated(e, b) PROVE HasCompleted(q2, b)
    <3>1. PICK j \in DOMAIN q : 1 < j /\ IsCompleted(q[j], b)
      BY <1>4, <2>2 DEF QueueRight
    <3>2. j - 1 \in DOMAIN q2 /\ q2[j - 1] = q[j]
      BY <1>3, <3>1
    <3>. QED BY <3>1, <3>2 DEF HasCompleted
  <2>. QED BY <1>4, <2>1, <2>2 DEF QueueRight
<1>. QED BY <1>5, <1>6 DEF QueueRight

\* After a gap: what came before it, and the snapshot.
LEMMA QueueHeals ==
    ASSUME Types, FlowInv, NEW q, NEW w, NEW E \in Seq(Events), NEW k \in Nat, Snapshotted(E), Joins(w, q, E, k),
           QueueRight(q, phase, stopping, FALSE)
    PROVE  QueueRight(w, phase, stopping, TRUE)
<1>1. SUFFICES ASSUME NEW i \in DOMAIN w, NEW b \in Batches
               PROVE  /\ IsCompleted(w[i], b) => phase[b] \in Over
                      /\ IsCreated(w[i], b) /\ w[i].info.status \notin Active => b \in stopping \/ phase[b] \in Over
                      /\ \A j \in DOMAIN w : i < j /\ IsCompleted(w[i], b) => ~Stale(w[j], b)
                      /\ phase[b] = "closed" /\ IsCreated(w[i], b) =>
                            \E j \in DOMAIN w : i < j /\ IsCompleted(w[j], b)
  BY DEF QueueRight
<1>2. /\ \A j \in DOMAIN q : j \in Nat /\ j \in DOMAIN w /\ w[j] = q[j] /\ j <= k
      /\ \A j \in DOMAIN E : j \in Nat /\ k + j \in DOMAIN w /\ w[k + j] = E[j] /\ k < k + j
      /\ \A j \in DOMAIN w : j \in DOMAIN q \/ \E m \in DOMAIN E : j = k + m
  BY DEF Joins
<1>3. ASSUME phase[b] \in Over, NEW j \in DOMAIN E PROVE ~Stale(E[j], b)
  <2>1. IsCreated(E[j], b) => E[j].info.done
    BY <1>3, InfoType DEF Snapshotted
  <2>2. E[j].kind # "record"
    BY <1>3 DEF Snapshotted
  <2>. QED BY <2>1, <2>2 DEF Stale
<1>4. IsCompleted(w[i], b) => phase[b] \in Over
  BY <1>2 DEF QueueRight, Snapshotted
<1>5. ASSUME IsCreated(w[i], b), w[i].info.status \notin Active PROVE b \in stopping \/ phase[b] \in Over
  <2>1. CASE i \in DOMAIN q
    BY <1>2, <1>5, <2>1 DEF QueueRight
  <2>2. CASE i \notin DOMAIN q
    <3>1. PICK m \in DOMAIN E : w[i] = E[m]
      BY <1>2, <2>2
    <3>2. batch[b] \notin Active
      BY <1>5, <3>1, InfoType DEF Snapshotted
    <3>. QED BY <3>2 DEF FlowInv, Types, ServerTypes, BatchStatuses, Active
  <2>. QED BY <2>1, <2>2
<1>6. ASSUME NEW j \in DOMAIN w, i < j, IsCompleted(w[i], b) PROVE ~Stale(w[j], b)
  <2>1. CASE j \in DOMAIN q
    <3>1. i \in DOMAIN q
      BY <1>2, <1>6, <2>1
    <3>. QED BY <1>2, <1>6, <2>1, <3>1 DEF QueueRight
  <2>2. CASE j \notin DOMAIN q
    BY <1>2, <1>3, <1>4, <1>6, <2>2
  <2>. QED BY <2>1, <2>2
<1>7. ASSUME phase[b] = "closed", IsCreated(w[i], b)
      PROVE  \E j \in DOMAIN w : i < j /\ IsCompleted(w[j], b)
  <2>0. phase[b] \in Over /\ phase[b] # "none"
    BY <1>7 DEF Over
  <2>1. CASE i \in DOMAIN q
    <3>1. PICK m \in DOMAIN E : IsCreated(E[m], b)
      BY <2>0 DEF Snapshotted
    <3>2. PICK j \in DOMAIN E : IsCompleted(E[j], b)
      BY <2>0, <3>1 DEF Snapshotted
    <3>. QED BY <1>2, <2>1, <3>2
  <2>2. CASE i \notin DOMAIN q
    <3>1. PICK m \in DOMAIN E : i = k + m /\ w[i] = E[m]
      BY <1>2, <2>2
    <3>2. PICK j \in DOMAIN E : m < j /\ IsCompleted(E[j], b)
      BY <1>7, <2>0, <3>1 DEF Snapshotted
    <3>3. k + m < k + j
      BY <1>2, <3>1, <3>2
    <3>. QED BY <1>2, <3>1, <3>2, <3>3
  <2>. QED BY <2>1, <2>2
<1>. QED BY <1>4, <1>5, <1>6, <1>7

\* A message more, or none when nobody listens.
LEMMA QueuePublish ==
    ASSUME Types, QueueInv, NEW e \in Events, Publish(e), UNCHANGED <<stopping, subscribed, link>>,
           \A b \in Batches :
              /\ phase[b] \in Over => phase'[b] \in Over
              /\ IsCompleted(e, b) => phase'[b] \in Over
              /\ IsCreated(e, b) /\ e.info.status \notin Active => b \in stopping \/ phase'[b] \in Over
              /\ Stale(e, b) => phase[b] \notin Over
              /\ phase'[b] = "closed" => \/ phase[b] = "closed" /\ ~IsCreated(e, b)
                                         \/ IsCompleted(e, b) /\ ~ended
    PROVE  QueueInv'
<1>1. PICK q2, phases2, linked : linked \in BOOLEAN /\ q2 = queue' /\ phases2 = phase' /\ linked = Linked
  BY DEF Linked, Types, ScreenTypes
<1>2. QueueInv' <=> QueueRight(q2, phases2, stopping, linked)
  BY <1>1 DEF QueueInv, Linked
<1>3. QueueRight(queue, phase, stopping, linked)
  BY <1>1 DEF QueueInv
<1>4. CASE queue' = queue /\ ~(Linked /\ ~ended)
  <2>1. linked => \A b \in Batches : phases2[b] = "closed" => phase[b] = "closed"
    BY <1>1, <1>4
  <2>2. QueueRight(queue, phases2, stopping, linked)
    BY <1>1, <1>3, <2>1, QueueKeeps
  <2>. QED BY <1>1, <1>2, <1>4, <2>2
<1>5. CASE Longer(queue', queue, e)
  <2>1. ~ \E b, c : IsCreated(e, b) /\ IsCompleted(e, c)
    BY DEF IsCreated, IsCompleted
  <2>2. QueueRight(q2, phases2, stopping, linked)
    BY <1>1, <1>3, <1>5, <2>1, QueueGrows
  <2>. QED BY <1>2, <2>2
<1>. QED BY <1>4, <1>5, PublishFacts

\* The event a status write or a record write publishes.
LEMMA WriteEvents ==
    ASSUME Types, FlowInv, NEW b \in Batches, Finish(b) \/ WriteRecord(b) \/ \E t \in TasksOf[b] : Take(b, t)
    PROVE  \/ UNCHANGED queue
           \/ \E e \in Events : /\ Publish(e)
                                /\ e.kind = "task" \/ (e.kind = "record" /\ e.batch = b /\ phase[b] = "body")
<1>1. ASSUME NEW t \in TasksOf[b], NEW goal \in Statuses, NEW claims \in BOOLEAN, SetStatus(b, t, goal, claims)
      PROVE  UNCHANGED queue \/ \E e \in Events : Publish(e) /\ e.kind = "task"
  <2>1. PICK e : e = [kind |-> "task", task |-> t, status |-> goal]
    OBVIOUS
  <2>2. e \in Events /\ e.kind = "task"
    BY <2>1, BasicFacts DEF Events, TaskEvents
  <2>. QED BY <1>1, <2>1, <2>2 DEF SetStatus
<1>2. CASE Finish(b)
  BY <1>1, <1>2, AtFacts DEF Finish, Statuses
<1>3. ASSUME NEW t \in TasksOf[b], Take(b, t)
      PROVE  UNCHANGED queue \/ \E e \in Events : Publish(e) /\ e.kind = "task"
  BY <1>1, <1>3 DEF Take, Statuses
<1>4. CASE WriteRecord(b)
  <2>1. work[b].task \in Tasks /\ work[b].goal \in RowStatuses /\ phase[b] = "body"
    BY <1>4, AtFacts DEF WriteRecord
  <2>2. PICK e : e = [kind |-> "record", batch |-> b, task |-> work[b].task, status |-> work[b].goal]
    OBVIOUS
  <2>3. e \in Events /\ e.kind = "record" /\ e.batch = b
    BY <2>1, <2>2 DEF Events, RecordEvents
  <2>. QED BY <1>4, <2>1, <2>2, <2>3 DEF WriteRecord
<1>. QED BY <1>2, <1>3, <1>4

\* Which steps touch the messages and what they are about.
LEMMA MessagesTouched ==
    ASSUME [Next]_vars
    PROVE  \/ \E b \in Batches : \/ OpenBatch(b) \/ Admit(b) \/ Complete(b) \/ AnnounceCreated(b) \/ AnnounceCompleted(b)
                                 \/ Finish(b) \/ WriteRecord(b) \/ PressStop(b) \/ \E t \in TasksOf[b] : Take(b, t)
           \/ Connect \/ HandleStoreEvent \/ LoseLane \/ HealLane
           \/ UNCHANGED <<phase, stopping, subscribed, link, queue>>
<1>. USE DEF SameScreen, serverVars, screenVars, cardVars, logVars
<1>1. ASSUME NEW b \in Batches, TakeListeners(b) \/ EmitLine(b)
      PROVE  UNCHANGED <<phase, stopping, subscribed, link, queue>>
  BY <1>1 DEF TakeListeners, EmitLine
<1>2. Install \/ Compose \/ ReadSnapshot \/ Overlay =>
         UNCHANGED <<phase, stopping, subscribed, link, queue>>
  BY DEF Install, Compose, ReadSnapshot, Overlay
<1>3. Resume \/ EndSession =>
         UNCHANGED <<phase, stopping, subscribed, link, queue>>
  BY DEF Resume, EndSession
<1>4. OpenLog \/ WriteBacklog \/ WriteLine \/ CloseLog =>
         UNCHANGED <<phase, stopping, subscribed, link, queue>>
  BY DEF OpenLog, WriteBacklog, WriteLine, CloseLog
<1>5. ASSUME NEW r \in refreshes, RefreshRead(r) \/ RefreshApply(r)
      PROVE  UNCHANGED <<phase, stopping, subscribed, link, queue>>
  BY <1>5 DEF RefreshRead, RefreshApply
<1>6. UNCHANGED vars => UNCHANGED <<phase, stopping, subscribed, link, queue>>
  BY DEF vars
<1>. QED BY <1>1, <1>2, <1>3, <1>4, <1>5, <1>6 DEF Next, ServerNext, ScreenNext

LEMMA QueueStep ==
    ASSUME Types, FlowInv, StageInv, QueueInv, [Next]_vars
    PROVE  QueueInv'
<1>. USE DEF SameScreen, serverVars, cardVars, screenVars
<1>0. Linked \in BOOLEAN /\ Linked' \in BOOLEAN
  BY DEF Linked
<1>1. ASSUME UNCHANGED queue, stopping \subseteq stopping',
             \A b \in Batches : phase[b] \in Over => phase'[b] \in Over,
             Linked' => Linked /\ \A b \in Batches : phase'[b] = "closed" => phase[b] = "closed"
      PROVE  QueueInv'
  <2>1. PICK phases2, stops2, linked, linked2 : phases2 = phase' /\ stops2 = stopping' /\ linked = Linked /\ linked2 = Linked'
    OBVIOUS
  <2>2. QueueRight(queue, phases2, stops2, linked2)
    <3>1. linked \in BOOLEAN /\ linked2 \in BOOLEAN
      BY <1>0, <2>1
    <3>2. QueueRight(queue, phase, stopping, linked)
      BY <2>1 DEF QueueInv
    <3>. QED BY <1>1, <2>1, <3>1, <3>2, QueueKeeps
  <2>. QED BY <1>1, <2>1, <2>2 DEF QueueInv
<1>2. ASSUME NEW b \in Batches, OpenBatch(b) \/ Admit(b) \/ Complete(b) PROVE QueueInv'
  <2>1. UNCHANGED <<queue, stopping, subscribed, link>>
    BY <1>2 DEF OpenBatch, Admit, Complete
  <2>2. \A c \in Batches : /\ phase[c] \in Over => phase'[c] \in Over
                           /\ phase'[c] = "closed" => phase[c] = "closed"
    BY <1>2 DEF OpenBatch, Admit, Complete, Over, Types, ServerTypes
  <2>. QED BY <1>1, <2>1, <2>2 DEF Linked
<1>3. ASSUME NEW b \in Batches, AnnounceCreated(b) PROVE QueueInv'
  <2>1. /\ phase[b] = "admitted" /\ Publish(Created(b)) /\ UNCHANGED <<stopping, subscribed, link>>
        /\ phase' = [phase EXCEPT ![b] = "body"]
    BY <1>3 DEF AnnounceCreated, PublishBatch
  <2>2. PICK e \in Events : e = Created(b)
    BY BatchEventFacts
  <2>3. /\ \A c : ~IsCompleted(e, c) /\ (IsCreated(e, c) => c = b) /\ (Stale(e, c) => c = b)
        /\ e.info.status = batch[b]
    BY <2>2, BatchEventFacts, InfoType DEF IsCompleted, IsCreated, Stale
  <2>4. batch[b] \notin Active => b \in stopping
    BY <2>1 DEF FlowInv, Types, ServerTypes, BatchStatuses, Active, Over
  <2>5. \A c \in Batches : phase'[c] = IF c = b THEN "body" ELSE phase[c]
    BY <2>1 DEF Types, ServerTypes
  <2>. QED BY <2>1, <2>2, <2>3, <2>4, <2>5, QueuePublish DEF Over
<1>4. ASSUME NEW b \in Batches, AnnounceCompleted(b) PROVE QueueInv'
  <2>1. /\ phase[b] = "completed" /\ Publish(Completed(b)) /\ UNCHANGED <<stopping, subscribed, link>>
        /\ phase' = [phase EXCEPT ![b] = "closed"]
    BY <1>4 DEF AnnounceCompleted, PublishBatch
  <2>2. PICK e \in Events : e = Completed(b)
    BY BatchEventFacts
  <2>3. \A c : ~IsCreated(e, c) /\ (IsCompleted(e, c) <=> c = b) /\ ~Stale(e, c)
    BY <2>2, BatchEventFacts DEF IsCompleted, IsCreated, Stale
  <2>4. ~ended
    BY <2>1 DEF FlowInv
  <2>5. \A c \in Batches : phase'[c] = IF c = b THEN "closed" ELSE phase[c]
    BY <2>1 DEF Types, ServerTypes
  <2>. QED BY <2>1, <2>2, <2>3, <2>4, <2>5, QueuePublish DEF Over
<1>5. ASSUME NEW b \in Batches, Finish(b) \/ WriteRecord(b) \/ \E t \in TasksOf[b] : Take(b, t)
      PROVE  QueueInv'
  <2>1. UNCHANGED <<phase, stopping, subscribed, link>>
    BY <1>5 DEF Finish, WriteRecord, Take
  <2>2. CASE UNCHANGED queue
    BY <1>1, <2>1, <2>2 DEF Linked
  <2>3. ASSUME NEW e \in Events, Publish(e), e.kind = "task" \/ (e.kind = "record" /\ e.batch = b /\ phase[b] = "body")
        PROVE  QueueInv'
    <3>1. \A c : ~IsCreated(e, c) /\ ~IsCompleted(e, c) /\ (Stale(e, c) => c = b /\ phase[b] = "body")
      BY <2>3 DEF IsCreated, IsCompleted, Stale
    <3>. QED BY <2>1, <2>3, <3>1, QueuePublish DEF Over
  <2>. QED BY <1>5, <2>2, <2>3, WriteEvents
<1>6. CASE Connect
  <2>1. UNCHANGED <<queue, phase, stopping>> /\ queue = <<>>
    BY <1>6 DEF Connect, StageInv
  <2>2. DOMAIN queue = {}
    BY <2>1, EmptySeq
  <2>. QED BY <2>1, <2>2 DEF QueueInv, QueueRight
<1>7. CASE HandleStoreEvent
  <2>1. UNCHANGED <<phase, stopping, subscribed, link>> /\ \E e : Shorter(queue', queue, e)
    BY <1>7, MessageFacts
  <2>2. PICK q2, linked, e : q2 = queue' /\ linked = Linked /\ linked \in BOOLEAN /\ Shorter(q2, queue, e)
    BY <1>0, <2>1
  <2>3. QueueRight(q2, phase, stopping, linked)
    BY <2>2, QueuePops DEF QueueInv
  <2>. QED BY <2>1, <2>2, <2>3 DEF QueueInv, Linked
<1>8. ASSUME NEW b \in Batches, PressStop(b) PROVE QueueInv'
  BY <1>1, <1>8 DEF PressStop, Linked
<1>9. CASE LoseLane
  BY <1>1, <1>9 DEF LoseLane, Linked
<1>10. CASE HealLane
  <2>1. UNCHANGED <<phase, stopping, subscribed>> /\ ~Linked /\ (Linked' <=> subscribed)
    BY <1>10 DEF HealLane, Linked
  <2>2. CASE queue' = queue /\ ~subscribed
    BY <1>1, <2>1, <2>2
  <2>3. ASSUME NEW E \in Seq(Events), NEW k \in Nat, Snapshotted(E), Joins(queue', queue, E, k), subscribed
        PROVE  QueueInv'
    <3>1. PICK w : w = queue'
      OBVIOUS
    <3>2. QueueRight(queue, phase, stopping, FALSE)
      <4>1. Linked = FALSE
        BY <2>1
      <4>. QED BY <4>1 DEF QueueInv
    <3>3. QueueRight(w, phase, stopping, TRUE)
      BY <2>3, <3>1, <3>2, QueueHeals
    <3>4. Linked' = TRUE
      BY <1>0, <2>1, <2>3
    <3>. QED BY <2>1, <3>1, <3>3, <3>4 DEF QueueInv
  <2>. QED BY <1>10, <2>2, <2>3, HealFacts
<1>11. CASE UNCHANGED <<phase, stopping, subscribed, link, queue>>
  BY <1>1, <1>11 DEF Linked
<1>12. \/ \E b \in Batches : \/ OpenBatch(b) \/ Admit(b) \/ Complete(b) \/ AnnounceCreated(b) \/ AnnounceCompleted(b)
                             \/ Finish(b) \/ WriteRecord(b) \/ PressStop(b) \/ \E t \in TasksOf[b] : Take(b, t)
       \/ Connect \/ HandleStoreEvent \/ LoseLane \/ HealLane
       \/ UNCHANGED <<phase, stopping, subscribed, link, queue>>
  BY MessagesTouched
<1>. QED BY <1>2, <1>3, <1>4, <1>5, <1>6, <1>7, <1>8, <1>9, <1>10, <1>11, <1>12

---------------------------------------------------------------------------
(* The cards. *)

\* A publish keeps what the queue has, and adds to it when the client listens.
LEMMA PublishHas ==
    ASSUME Types, NEW e \in Events, Publish(e), NEW b
    PROVE  /\ HasCreated(queue, b) => HasCreated(queue', b)
           /\ HasCompleted(queue, b) => HasCompleted(queue', b)
           /\ HasStale(queue', b) => HasStale(queue, b) \/ Stale(e, b)
           /\ Linked /\ ~ended => /\ IsCreated(e, b) => HasCreated(queue', b)
                                  /\ IsCompleted(e, b) => HasCompleted(queue', b)
<1>1. PICK q2 : q2 = queue'
  OBVIOUS
<1>2. (q2 = queue /\ ~(Linked /\ ~ended)) \/ Longer(q2, queue, e)
  BY <1>1, PublishFacts
<1>. QED BY <1>1, <1>2, LongerHas

LEMMA CardsKeep ==
    ASSUME CardInv, DOMAIN cards' = DOMAIN cards, DOMAIN cards \subseteq Batches,
           \A b \in DOMAIN cards : cards'[b].active = cards[b].active,
           missed \subseteq missed', Listening' => Listening,
           \A b \in Batches :
              /\ HasCreated(queue, b) => HasCreated(queue', b)
              /\ HasCompleted(queue, b) => HasCompleted(queue', b)
              /\ phase'[b] \in {"body", "completed", "closed"} =>
                    \/ phase[b] \in {"body", "completed", "closed"}
                    \/ b \in missed' \/ ~Listening' \/ HasCreated(queue', b)
              /\ phase'[b] = "closed" =>
                    phase[b] = "closed" \/ b \in missed' \/ ~Listening' \/ HasCompleted(queue', b)
              /\ batch'[b] \in Active /\ b \notin stopping' => batch[b] \in Active /\ b \notin stopping
    PROVE  CardInv'
<1>1. PICK q2, cards2, missed2, phase2, listens2 :
         q2 = queue' /\ cards2 = cards' /\ missed2 = missed' /\ phase2 = phase' /\ listens2 = Listening'
  OBVIOUS
<1>2. SUFFICES /\ \A b \in Batches \ missed2 :
                     listens2 /\ phase2[b] \in {"body", "completed", "closed"} =>
                        b \in DOMAIN cards2 \/ HasCreated(q2, b)
               /\ \A b \in DOMAIN cards2 \ missed2 :
                     listens2 /\ phase2[b] = "closed" /\ cards2[b].active => HasCompleted(q2, b)
               /\ \A b \in DOMAIN cards2 : batch'[b] \in Active /\ b \notin stopping' => cards2[b].active
  BY <1>1 DEF CardInv
<1>3. ASSUME NEW b \in Batches \ missed2, listens2, phase2[b] \in {"body", "completed", "closed"}
      PROVE  b \in DOMAIN cards2 \/ HasCreated(q2, b)
  BY <1>1, <1>3 DEF CardInv
<1>4. ASSUME NEW b \in DOMAIN cards2 \ missed2, listens2, phase2[b] = "closed", cards2[b].active
      PROVE  HasCompleted(q2, b)
  BY <1>1, <1>4 DEF CardInv
<1>5. ASSUME NEW b \in DOMAIN cards2, batch'[b] \in Active, b \notin stopping' PROVE cards2[b].active
  BY <1>1, <1>5 DEF CardInv
<1>. QED BY <1>3, <1>4, <1>5

\* A message of a batch: nothing of another batch is touched.
LEMMA CardMessage ==
    ASSUME Types, FlowInv, StageInv, QueueInv, CardInv, HandleStoreEvent, NEW b \in Batches
    PROVE  /\ b \notin missed /\ Listening /\ phase[b] \in {"body", "completed", "closed"} =>
                b \in DOMAIN cards' \/ HasCreated(queue', b)
           /\ b \in DOMAIN cards' \ missed /\ Listening /\ phase[b] = "closed" /\ cards'[b].active =>
                HasCompleted(queue', b)
           /\ b \in DOMAIN cards' /\ batch[b] \in Active /\ b \notin stopping => cards'[b].active
<1>1. PICK e \in Events : /\ Shorter(queue', queue, e) /\ Named(e)
                          /\ e.kind = "task" => UNCHANGED cardVars
                          /\ e.kind = "created" => OnBatchCreated(e)
                          /\ e.kind = "completed" => OnBatchCompleted(e)
                          /\ e.kind = "record" => OnExecutionStatus(e)
                          /\ stage = "live"
  BY MessageFacts
<1>2. PICK q2, cards2, linked : linked \in BOOLEAN /\ q2 = queue' /\ cards2 = cards' /\ linked = Linked /\ Shorter(q2, queue, e)
  BY <1>1 DEF Linked
<1>3. Listening => linked
  BY <1>1, <1>2 DEF Listening
<1>4. /\ HasCreated(queue, b) <=> HasCreated(q2, b) \/ IsCreated(e, b)
      /\ HasCompleted(queue, b) <=> HasCompleted(q2, b) \/ IsCompleted(e, b)
  BY <1>2, ShorterHas
<1>5. /\ IsCompleted(e, b) => phase[b] \in Over
      /\ IsCreated(e, b) => e.info.status \in Active \/ b \in stopping \/ phase[b] \in Over
      /\ linked /\ phase[b] = "closed" /\ IsCreated(e, b) => HasCompleted(q2, b)
  BY <1>2, QueuePops DEF QueueInv
<1>6. phase[b] \in Over => batch[b] \notin Active
  BY DEF FlowInv
<1>7. CASE e.kind \in {"task", "record"}
  <2>1. ~IsCreated(e, b) /\ ~IsCompleted(e, b)
    BY <1>7 DEF IsCreated, IsCompleted
  <2>2. DOMAIN cards2 = DOMAIN cards /\ (b \in DOMAIN cards => cards2[b].active = cards[b].active)
    <3>1. CASE e.kind = "task"
      BY <1>1, <1>2, <3>1 DEF cardVars
    <3>2. CASE e.kind = "record"
      BY <1>1, <1>2, <3>2, StatusFacts
    <3>. QED BY <1>7, <3>1, <3>2
  <2>. QED BY <1>2, <1>4, <2>1, <2>2 DEF CardInv
<1>8. CASE e.kind = "created"
  <2>1. ~IsCompleted(e, b) /\ (IsCreated(e, b) <=> b = e.batch)
    BY <1>8 DEF IsCreated, IsCompleted
  <2>2. /\ e.batch \in DOMAIN cards => cards2 = cards
        /\ e.batch \notin DOMAIN cards => /\ DOMAIN cards2 = DOMAIN cards \cup {e.batch}
                                          /\ \A c \in DOMAIN cards : cards2[c] = cards[c]
                                          /\ cards2[e.batch].active = (e.info.status \in Active)
    BY <1>1, <1>2, <1>8, CreatedFacts
  <2>3. CASE b # e.batch
    BY <1>2, <1>4, <2>1, <2>2, <2>3 DEF CardInv
  <2>4. CASE b = e.batch
    <3>1. b \in DOMAIN cards2
      BY <2>2, <2>4
    <3>2. Listening /\ phase[b] = "closed" => HasCompleted(q2, b)
      BY <1>3, <1>5, <2>1, <2>4
    <3>3. batch[b] \in Active /\ b \notin stopping => cards2[b].active
      <4>1. CASE b \in DOMAIN cards
        BY <2>2, <2>4, <4>1 DEF CardInv
      <4>2. CASE b \notin DOMAIN cards
        BY <1>5, <1>6, <2>1, <2>2, <2>4, <4>2
      <4>. QED BY <4>1, <4>2
    <3>. QED BY <1>2, <3>1, <3>2, <3>3
  <2>. QED BY <2>3, <2>4
<1>9. CASE e.kind = "completed"
  <2>1. ~IsCreated(e, b) /\ (IsCompleted(e, b) <=> b = e.batch)
    BY <1>9 DEF IsCreated, IsCompleted
  <2>2. /\ DOMAIN cards2 = DOMAIN cards
        /\ \A c \in DOMAIN cards : c # e.batch => cards2[c] = cards[c]
        /\ e.batch \in DOMAIN cards => cards2[e.batch].active = FALSE
    BY <1>1, <1>2, <1>9, OffFacts DEF OnBatchCompleted
  <2>. QED BY <1>2, <1>4, <1>5, <1>6, <2>1, <2>2 DEF CardInv
<1>. QED BY <1>7, <1>8, <1>9, EventFields

\* What the snapshot adds after a gap.
LEMMA HealHas ==
    ASSUME Types, HealLane, subscribed, NEW b \in Batches
    PROVE  /\ phase[b] # "none" => HasCreated(queue', b)
           /\ phase[b] \in Over => HasCompleted(queue', b)
           /\ HasCompleted(queue, b) => HasCompleted(queue', b)
<1>1. PICK E \in Seq(Events), k \in Nat : Snapshotted(E) /\ Joins(queue', queue, E, k)
  BY HealFacts
<1>2. PICK q2 : q2 = queue' /\ Joins(q2, queue, E, k)
  BY <1>1
<1>3. phase[b] # "none" => HasCreated(E, b)
  BY <1>1 DEF Snapshotted, HasCreated
<1>4. phase[b] \in Over => phase[b] # "none"
  BY DEF Over
<1>5. phase[b] \in Over => HasCompleted(E, b)
  BY <1>1, <1>3, <1>4 DEF Snapshotted, HasCreated, HasCompleted
<1>. QED BY <1>2, <1>3, <1>5, JoinsHas

\* Which steps touch a card, the messages or the batch.
LEMMA CardPartsTouched ==
    ASSUME [Next]_vars
    PROVE  \/ \E b \in Batches : \/ OpenBatch(b) \/ Admit(b) \/ Complete(b) \/ AnnounceCreated(b) \/ AnnounceCompleted(b)
                                 \/ Finish(b) \/ WriteRecord(b) \/ PressStop(b) \/ \E t \in TasksOf[b] : Take(b, t)
           \/ Compose \/ Connect \/ HandleStoreEvent \/ LoseLane \/ HealLane
           \/ \E r \in refreshes : RefreshRead(r) \/ RefreshApply(r)
           \/ UNCHANGED <<queue, cards, missed, subscribed, link, stopping, phase, batch>> /\ (Listening' => Listening)
<1>. USE DEF SameScreen, serverVars, screenVars, cardVars, logVars, Listening, Linked
<1>1. ASSUME NEW b \in Batches, TakeListeners(b) \/ EmitLine(b)
      PROVE  (UNCHANGED <<queue, cards, missed, subscribed, link, stopping, phase, batch>> /\ (Listening' => Listening))
  BY <1>1 DEF TakeListeners, EmitLine
<1>2. Install \/ ReadSnapshot \/ Overlay \/ Resume =>
         (UNCHANGED <<queue, cards, missed, subscribed, link, stopping, phase, batch>> /\ (Listening' => Listening))
  BY DEF Install, ReadSnapshot, Overlay, Resume
<1>3. EndSession =>
         (UNCHANGED <<queue, cards, missed, subscribed, link, stopping, phase, batch>> /\ (Listening' => Listening))
  BY DEF EndSession
<1>4. OpenLog \/ WriteBacklog \/ WriteLine \/ CloseLog =>
         (UNCHANGED <<queue, cards, missed, subscribed, link, stopping, phase, batch>> /\ (Listening' => Listening))
  BY DEF OpenLog, WriteBacklog, WriteLine, CloseLog
<1>5. UNCHANGED vars => (UNCHANGED <<queue, cards, missed, subscribed, link, stopping, phase, batch>> /\ (Listening' => Listening))
  BY DEF vars
<1>. QED BY <1>1, <1>2, <1>3, <1>4, <1>5 DEF Next, ServerNext, ScreenNext

LEMMA CardStep ==
    ASSUME Types, FlowInv, StageInv, QueueInv, CardInv, [Next]_vars
    PROVE  CardInv'
<1>. USE DEF SameScreen, serverVars, cardVars, screenVars
<1>0. DOMAIN cards \subseteq Batches /\ missed \subseteq Batches
  BY DEF Types, CardTypes
<1>1. ASSUME NEW b \in Batches, OpenBatch(b) \/ Admit(b) \/ Complete(b) PROVE CardInv'
  <2>1. UNCHANGED <<queue, cards, missed, stage, stopping, subscribed, link>>
    BY <1>1 DEF OpenBatch, Admit, Complete
  <2>2. \A c \in Batches :
           /\ phase'[c] \in {"body", "completed", "closed"} => phase[c] \in {"body", "completed", "closed"}
           /\ phase'[c] = "closed" => phase[c] = "closed"
           /\ batch'[c] \in Active /\ c \notin stopping => batch[c] \in Active
    BY <1>1 DEF OpenBatch, Admit, Complete, FlowInv, Types, ServerTypes, BatchStatuses, Active, Over
  <2>. QED BY <1>0, <2>1, <2>2, CardsKeep DEF Listening, Linked
<1>2. ASSUME NEW b \in Batches, AnnounceCreated(b) \/ AnnounceCompleted(b) PROVE CardInv'
  <2>1. PICK e \in Events : /\ Publish(e) /\ e.batch = b
                            /\ missed' = IF stage = "composed" THEN missed \cup {b} ELSE missed
                            /\ \/ AnnounceCreated(b) /\ IsCreated(e, b)
                               \/ AnnounceCompleted(b) /\ IsCompleted(e, b)
    <3>1. CASE AnnounceCreated(b)
      BY <3>1, BatchEventFacts DEF AnnounceCreated, PublishBatch, IsCreated
    <3>2. CASE AnnounceCompleted(b)
      BY <3>2, BatchEventFacts DEF AnnounceCompleted, PublishBatch, IsCompleted
    <3>. QED BY <1>2, <3>1, <3>2
  <2>2. UNCHANGED <<cards, stage, stopping, subscribed, link, batch>> /\ ~ended
    BY <1>2 DEF AnnounceCreated, AnnounceCompleted, FlowInv
  <2>3. \A c \in Batches : c # b => phase'[c] = phase[c]
    BY <1>2 DEF AnnounceCreated, AnnounceCompleted, Types, ServerTypes
  <2>4. (AnnounceCreated(b) => phase'[b] = "body") /\ (AnnounceCompleted(b) => phase[b] = "completed")
    BY DEF AnnounceCreated, AnnounceCompleted, Types, ServerTypes
  <2>5. b \in missed' \/ ~Listening' \/ (Linked /\ ~ended)
    BY <2>1, <2>2 DEF Listening, Linked
  <2>6. /\ missed \subseteq missed' /\ (Listening' <=> Listening)
    BY <2>1, <2>2 DEF Listening, Linked
  <2>. QED BY <1>0, <2>1, <2>2, <2>3, <2>4, <2>5, <2>6, PublishHas, CardsKeep
<1>3. ASSUME NEW b \in Batches, Finish(b) \/ WriteRecord(b) \/ \E t \in TasksOf[b] : Take(b, t)
      PROVE  CardInv'
  <2>1. UNCHANGED <<cards, missed, stage, stopping, subscribed, link, phase, batch>>
    BY <1>3 DEF Finish, WriteRecord, Take
  <2>2. UNCHANGED queue \/ \E e \in Events : Publish(e)
    BY <1>3, WriteEvents
  <2>3. \A c : /\ HasCreated(queue, c) => HasCreated(queue', c)
               /\ HasCompleted(queue, c) => HasCompleted(queue', c)
    BY <2>2, PublishHas
  <2>. QED BY <1>0, <2>1, <2>3, CardsKeep DEF Listening, Linked
<1>4. CASE Compose
  <2>1. /\ DOMAIN cards' = {c \in Batches : phase[c] # "none"}
        /\ \A b \in DOMAIN cards' : cards'[b].active = (batch[b] \in Active)
    <3>1. DOMAIN History = {c \in Batches : phase[c] # "none"} /\ \A b \in DOMAIN History : History[b].info = Info(b)
      BY DEF History
    <3>2. cards' = [b \in DOMAIN History |-> CardOf(History[b].info, History[b].rows)]
      BY <1>4 DEF Compose
    <3>3. \A b \in DOMAIN History : cards'[b] = CardOf(Info(b), History[b].rows)
      BY <3>1, <3>2
    <3>. QED BY <3>1, <3>2, <3>3, CardOfFacts, InfoType
  <2>2. UNCHANGED <<phase, batch, stopping, missed, queue>>
    BY <1>4 DEF Compose
  <2>. QED BY <2>1, <2>2 DEF CardInv, FlowInv, Over
<1>5. CASE Connect
  <2>1. UNCHANGED <<queue, cards, missed, stopping, phase, batch>> /\ stage = "composed"
    BY <1>5 DEF Connect
  <2>. QED BY <1>0, <2>1, CardsKeep DEF Listening
<1>6. CASE HandleStoreEvent
  <2>1. UNCHANGED <<phase, batch, stopping, missed, stage, subscribed, link>>
    BY <1>6, MessageFacts
  <2>2. DOMAIN cards' \subseteq Batches
    BY CardTypesStep DEF CardTypes
  <2>3. PICK q2, cards2 : q2 = queue' /\ cards2 = cards'
    OBVIOUS
  <2>4. Listening' <=> Listening
    BY <2>1 DEF Listening, Linked
  <2>. QED BY <1>6, <2>1, <2>2, <2>4, CardMessage DEF CardInv
<1>7. ASSUME NEW r \in refreshes, RefreshRead(r) \/ RefreshApply(r) PROVE CardInv'
  <2>1. UNCHANGED <<queue, missed, stage, stopping, subscribed, link, phase, batch>>
    BY <1>7 DEF RefreshRead, RefreshApply
  <2>2. DOMAIN cards' = DOMAIN cards /\ \A b \in DOMAIN cards : cards'[b].active = cards[b].active
    <3>1. CASE RefreshRead(r)
      BY <3>1 DEF RefreshRead
    <3>2. CASE RefreshApply(r)
      BY <3>2, ApplyFacts
    <3>. QED BY <1>7, <3>1, <3>2
  <2>. QED BY <1>0, <2>1, <2>2, CardsKeep DEF Listening, Linked
<1>8. ASSUME NEW b \in Batches, PressStop(b) PROVE CardInv'
  <2>1. /\ UNCHANGED <<queue, missed, stage, subscribed, link, phase>>
        /\ cards' = [cards EXCEPT ![b].active = FALSE] /\ b \in DOMAIN cards
    BY <1>8 DEF PressStop
  <2>2. DOMAIN cards' = DOMAIN cards /\ cards'[b].active = FALSE
        /\ \A c \in DOMAIN cards : c # b => cards'[c] = cards[c]
    BY <2>1, OffFacts
  <2>3. \A c \in Batches : batch'[c] \in Active /\ c \notin stopping' => batch[c] \in Active /\ c \notin stopping /\ c # b
    BY <1>8 DEF PressStop, Types, ServerTypes, Active
  <2>4. PICK cards2 : cards2 = cards'
    OBVIOUS
  <2>. QED BY <1>0, <2>1, <2>2, <2>3, <2>4 DEF CardInv, Listening, Linked
<1>9. CASE LoseLane
  <2>1. UNCHANGED <<queue, cards, missed, stage, stopping, subscribed, phase, batch>> /\ link' = "down"
    BY <1>9 DEF LoseLane
  <2>. QED BY <1>0, <2>1, CardsKeep DEF Listening, Linked
<1>10. CASE HealLane
  <2>1. UNCHANGED <<cards, missed, stage, stopping, subscribed, phase, batch>>
    BY <1>10 DEF HealLane
  <2>2. CASE subscribed
    <3>1. PICK q2 : q2 = queue'
      OBVIOUS
    <3>2. \A b \in Batches : /\ phase[b] # "none" => HasCreated(q2, b)
                             /\ phase[b] \in Over => HasCompleted(q2, b)
      BY <1>10, <2>2, <3>1, HealHas
    <3>. QED BY <1>0, <2>1, <3>1, <3>2 DEF CardInv, Over
  <2>3. CASE ~subscribed
    <3>1. queue' = queue
      BY <1>10, <2>3 DEF HealLane
    <3>. QED BY <1>0, <2>1, <2>3, <3>1, CardsKeep DEF Listening, Linked
  <2>. QED BY <2>2, <2>3
<1>11. CASE UNCHANGED <<queue, cards, missed, subscribed, link, stopping, phase, batch>> /\ (Listening' => Listening)
  BY <1>0, <1>11, CardsKeep
<1>12. \/ \E b \in Batches : \/ OpenBatch(b) \/ Admit(b) \/ Complete(b) \/ AnnounceCreated(b) \/ AnnounceCompleted(b)
                             \/ Finish(b) \/ WriteRecord(b) \/ PressStop(b) \/ \E t \in TasksOf[b] : Take(b, t)
       \/ Compose \/ Connect \/ HandleStoreEvent \/ LoseLane \/ HealLane
       \/ \E r \in refreshes : RefreshRead(r) \/ RefreshApply(r)
       \/ UNCHANGED <<queue, cards, missed, subscribed, link, stopping, phase, batch>> /\ (Listening' => Listening)
  BY CardPartsTouched
<1>. QED BY <1>1, <1>2, <1>3, <1>4, <1>5, <1>6, <1>7, <1>8, <1>9, <1>10, <1>11, <1>12

---------------------------------------------------------------------------
(* The rows. *)

LEMMA RowsKeep ==
    ASSUME RowsInv, DOMAIN cards' = DOMAIN cards, DOMAIN cards \subseteq Batches,
           UNCHANGED refreshes, \A b \in DOMAIN cards : cards'[b].rows = cards[b].rows,
           missed \subseteq missed', overlapped \subseteq overlapped', Listening' => Listening,
           \A b \in Batches :
              /\ HasCompleted(queue, b) => HasCompleted(queue', b)
              /\ phase'[b] = "closed" =>
                    \/ b \in missed' \/ ~Listening' \/ HasCompleted(queue', b)
                    \/ /\ phase[b] = "closed" /\ record'[b] = record[b]
                       /\ HasStale(queue', b) => HasStale(queue, b)
    PROVE  RowsInv'
<1>1. PICK q2, cards2, missed2, phase2, record2, listens2 :
         /\ q2 = queue' /\ cards2 = cards' /\ missed2 = missed' /\ phase2 = phase' /\ record2 = record'
         /\ listens2 = Listening'
  OBVIOUS
<1>2. SUFFICES ASSUME NEW b \in DOMAIN cards2, b \notin missed2, b \notin overlapped', listens2, phase2[b] = "closed"
               PROVE  \/ HasCompleted(q2, b)
                      \/ /\ ~HasStale(q2, b)
                         /\ \A r \in refreshes : r.batch = b /\ r.read => r.rows = record2[b]
                         /\ \/ \E r \in refreshes : r.batch = b
                            \/ \A t \in DOMAIN cards2[b].rows : cards2[b].rows[t] = record2[b][t]
  BY <1>1 DEF RowsInv, Settled, Fresh, RowsRight
<1>3. CASE ~HasCompleted(q2, b)
  <2>1. /\ phase[b] = "closed" /\ record2[b] = record[b]
        /\ HasStale(q2, b) => HasStale(queue, b)
        /\ Listening /\ b \in DOMAIN cards \ (missed \cup overlapped) /\ ~HasCompleted(queue, b)
    BY <1>1, <1>2, <1>3
  <2>2. ~HasStale(queue, b) /\ Fresh(b) /\ ((\E r \in refreshes : r.batch = b) \/ RowsRight(b))
    BY <2>1 DEF RowsInv, Settled
  <2>3. cards2[b].rows = cards[b].rows
    BY <1>1, <2>1
  <2>. QED BY <2>1, <2>2, <2>3 DEF Fresh, RowsRight
<1>. QED BY <1>3

LEMMA RowMessage ==
    ASSUME Types, FlowInv, StageInv, QueueInv, RowsInv, HandleStoreEvent,
           NEW b \in DOMAIN cards', b \notin missed, b \notin overlapped', Listening, phase[b] = "closed"
    PROVE  \/ HasCompleted(queue', b)
           \/ /\ ~HasStale(queue', b)
              /\ \A r \in refreshes' : r.batch = b /\ r.read => r.rows = record[b]
              /\ \/ \E r \in refreshes' : r.batch = b
                 \/ \A t \in DOMAIN cards'[b].rows : cards'[b].rows[t] = record[b][t]
<1>1. PICK e \in Events : /\ Shorter(queue', queue, e) /\ Named(e)
                          /\ e.kind = "task" => UNCHANGED cardVars
                          /\ e.kind = "created" => OnBatchCreated(e)
                          /\ e.kind = "completed" => OnBatchCompleted(e)
                          /\ e.kind = "record" => OnExecutionStatus(e)
                          /\ stage = "live"
  BY MessageFacts
<1>2. PICK q2, cards2, ref2, over2, linked :
         /\ linked \in BOOLEAN /\ q2 = queue' /\ cards2 = cards' /\ ref2 = refreshes' /\ over2 = overlapped'
         /\ linked = Linked /\ Shorter(q2, queue, e)
  BY <1>1 DEF Linked
<1>3. linked /\ b \in Batches
  <2>1. b \in Batches
    BY CardTypesStep DEF CardTypes, Next, ScreenNext
  <2>. QED BY <1>1, <1>2, <2>1 DEF Listening
<1>4. /\ HasCompleted(queue, b) <=> HasCompleted(q2, b) \/ IsCompleted(e, b)
      /\ HasStale(queue, b) <=> HasStale(q2, b) \/ Stale(e, b)
  BY <1>2, ShorterHas
<1>5. /\ IsCompleted(e, b) => ~HasStale(q2, b)
      /\ IsCreated(e, b) => HasCompleted(q2, b)
  BY <1>2, <1>3, QueuePops DEF QueueInv
<1>6. overlapped \subseteq over2
  BY <1>1, <1>2, EventFields, CreatedFacts, StatusFacts, RefreshFacts DEF OnBatchCompleted, NoRefresh, cardVars
<1>7. SUFFICES ASSUME ~HasCompleted(q2, b)
               PROVE  /\ ~HasStale(q2, b)
                      /\ \A r \in ref2 : r.batch = b /\ r.read => r.rows = record[b]
                      /\ \/ \E r \in ref2 : r.batch = b
                         \/ \A t \in DOMAIN cards2[b].rows : cards2[b].rows[t] = record[b][t]
  BY <1>2
<1>8. ~IsCreated(e, b)
  BY <1>5, <1>7
<1>9. CASE IsCompleted(e, b)
  <2>1. e.kind = "completed" /\ e.batch = b /\ Refresh(b)
    BY <1>1, <1>9 DEF IsCompleted, OnBatchCompleted
  <2>2. (\E r \in refreshes : r.batch = b) => b \in over2
    BY <1>2, <1>3, <2>1, RefreshFacts
  <2>3. PICK r : ref2 = refreshes \cup {r} /\ r.batch = b /\ ~r.read
    BY <1>2, <1>3, <2>1, RefreshFacts
  <2>4. \A x \in ref2 : x.batch = b => x = r
    BY <1>2, <2>2, <2>3
  <2>. QED BY <1>5, <1>9, <2>3, <2>4
<1>10. CASE ~IsCompleted(e, b)
  <2>1. ~HasCompleted(queue, b)
    BY <1>4, <1>7, <1>10
  <2>2. \/ Stale(e, b)
        \/ /\ b \in DOMAIN cards /\ cards2[b].rows = cards[b].rows
           /\ \A r \in refreshes : r.batch = b => r \in ref2
           /\ \A r \in ref2 : r.batch = b => r \in refreshes
    <3>1. CASE e.kind = "task"
      BY <1>1, <1>2, <3>1 DEF cardVars
    <3>2. CASE e.kind = "created"
      <4>1. e.batch # b
        BY <1>8, <3>2 DEF IsCreated
      <4>2. /\ e.batch \in Batches
            /\ e.batch \in DOMAIN cards => cards2 = cards /\ (NoRefresh \/ Refresh(e.batch))
            /\ e.batch \notin DOMAIN cards => /\ NoRefresh /\ DOMAIN cards2 = DOMAIN cards \cup {e.batch}
                                              /\ \A c \in DOMAIN cards : cards2[c] = cards[c]
        BY <1>1, <1>2, <3>2, CreatedFacts
      <4>3. b \in DOMAIN cards /\ cards2[b] = cards[b]
        BY <1>2, <4>1, <4>2
      <4>4. CASE NoRefresh
        BY <1>2, <4>3, <4>4 DEF NoRefresh
      <4>5. CASE Refresh(e.batch)
        <5>1. PICK r : ref2 = refreshes \cup {r} /\ r.batch = e.batch
          BY <1>2, <4>2, <4>5, RefreshFacts
        <5>. QED BY <4>1, <4>3, <5>1
      <4>. QED BY <4>2, <4>4, <4>5
    <3>3. CASE e.kind = "completed"
      <4>1. e.batch # b /\ e.batch \in Batches
        BY <1>10, <3>3, EventFields DEF IsCompleted
      <4>2. /\ DOMAIN cards2 = DOMAIN cards
            /\ \A c \in DOMAIN cards : c # e.batch => cards2[c] = cards[c]
            /\ Refresh(e.batch)
        BY <1>1, <1>2, <3>3, OffFacts DEF OnBatchCompleted
      <4>3. PICK r : ref2 = refreshes \cup {r} /\ r.batch = e.batch
        BY <1>2, <4>1, <4>2, RefreshFacts
      <4>. QED BY <1>2, <4>1, <4>2, <4>3
    <3>4. CASE e.kind = "record"
      <4>1. /\ DOMAIN cards2 = DOMAIN cards /\ ref2 = refreshes
            /\ \A c \in DOMAIN cards : c # e.batch => cards2[c] = cards[c]
        BY <1>1, <1>2, <3>4, StatusFacts DEF NoRefresh
      <4>. QED BY <1>2, <3>4, <4>1 DEF Stale
    <3>. QED BY <3>1, <3>2, <3>3, <3>4, EventFields
  <2>3. b \in DOMAIN cards /\ ~HasStale(queue, b)
    <3>1. b \in DOMAIN cards
      BY <1>1, <1>2, <1>8, <2>2, CreatedFacts, StatusFacts, EventFields DEF Stale, IsCreated
    <3>2. Settled(b)
      BY <1>2, <1>6, <3>1 DEF RowsInv
    <3>. QED BY <2>1, <3>1, <3>2 DEF Settled
  <2>4. Fresh(b) /\ ((\E r \in refreshes : r.batch = b) \/ RowsRight(b))
    <3>1. Settled(b)
      BY <1>2, <1>6, <2>3 DEF RowsInv
    <3>. QED BY <2>1, <3>1 DEF Settled
  <2>5. cards2[b].rows = cards[b].rows
    BY <1>4, <2>2, <2>3
  <2>. QED BY <1>4, <2>2, <2>3, <2>4, <2>5 DEF Fresh, RowsRight
<1>. QED BY <1>9, <1>10

\* Which steps touch the rows, the reads and the messages.
LEMMA RowPartsTouched ==
    ASSUME [Next]_vars
    PROVE  \/ \E b \in Batches : \/ OpenBatch(b) \/ Admit(b) \/ Complete(b) \/ AnnounceCreated(b) \/ AnnounceCompleted(b)
                                 \/ Finish(b) \/ WriteRecord(b) \/ PressStop(b) \/ \E t \in TasksOf[b] : Take(b, t)
           \/ Compose \/ Connect \/ HandleStoreEvent \/ LoseLane \/ HealLane
           \/ \E r \in refreshes : RefreshRead(r) \/ RefreshApply(r)
           \/ UNCHANGED <<queue, cards, missed, subscribed, link, refreshes, overlapped, phase, record>> /\ (Listening' => Listening)
<1>. USE DEF SameScreen, serverVars, screenVars, cardVars, logVars, Listening, Linked
<1>1. ASSUME NEW b \in Batches, TakeListeners(b) \/ EmitLine(b)
      PROVE  (UNCHANGED <<queue, cards, missed, subscribed, link, refreshes, overlapped, phase, record>> /\ (Listening' => Listening))
  BY <1>1 DEF TakeListeners, EmitLine
<1>2. Install \/ ReadSnapshot \/ Overlay \/ Resume =>
         (UNCHANGED <<queue, cards, missed, subscribed, link, refreshes, overlapped, phase, record>> /\ (Listening' => Listening))
  BY DEF Install, ReadSnapshot, Overlay, Resume
<1>3. EndSession =>
         (UNCHANGED <<queue, cards, missed, subscribed, link, refreshes, overlapped, phase, record>> /\ (Listening' => Listening))
  BY DEF EndSession
<1>4. OpenLog \/ WriteBacklog \/ WriteLine \/ CloseLog =>
         (UNCHANGED <<queue, cards, missed, subscribed, link, refreshes, overlapped, phase, record>> /\ (Listening' => Listening))
  BY DEF OpenLog, WriteBacklog, WriteLine, CloseLog
<1>5. UNCHANGED vars => (UNCHANGED <<queue, cards, missed, subscribed, link, refreshes, overlapped, phase, record>> /\ (Listening' => Listening))
  BY DEF vars
<1>. QED BY <1>1, <1>2, <1>3, <1>4, <1>5 DEF Next, ServerNext, ScreenNext

LEMMA RowsStep ==
    ASSUME Types, FlowInv, StageInv, QueueInv, RowsInv, [Next]_vars
    PROVE  RowsInv'
<1>. USE DEF SameScreen, serverVars, cardVars, screenVars
<1>0. DOMAIN cards \subseteq Batches /\ missed \subseteq Batches
  BY DEF Types, CardTypes
<1>1. ASSUME NEW b \in Batches, OpenBatch(b) \/ Admit(b) \/ Complete(b) PROVE RowsInv'
  <2>1. UNCHANGED <<queue, cards, missed, stage, refreshes, overlapped, subscribed, link>>
    BY <1>1 DEF OpenBatch, Admit, Complete
  <2>2. \A c \in Batches : phase'[c] = "closed" => phase[c] = "closed" /\ record'[c] = record[c]
    BY <1>1 DEF OpenBatch, Admit, Complete, Types, ServerTypes
  <2>. QED BY <1>0, <2>1, <2>2, RowsKeep DEF Listening, Linked
<1>2. ASSUME NEW b \in Batches, AnnounceCreated(b) \/ AnnounceCompleted(b) PROVE RowsInv'
  <2>1. PICK e \in Events : /\ Publish(e)
                            /\ missed' = IF stage = "composed" THEN missed \cup {b} ELSE missed
                            /\ \A c : Stale(e, c) => c = b /\ AnnounceCreated(b)
                            /\ AnnounceCompleted(b) => IsCompleted(e, b)
    <3>1. CASE AnnounceCreated(b)
      <4>1. ~AnnounceCompleted(b)
        BY <3>1 DEF AnnounceCreated, AnnounceCompleted
      <4>. QED BY <3>1, <4>1, BatchEventFacts DEF AnnounceCreated, PublishBatch, Stale, IsCreated
    <3>2. CASE AnnounceCompleted(b)
      BY <3>2, BatchEventFacts DEF AnnounceCompleted, PublishBatch, Stale, IsCreated, IsCompleted
    <3>. QED BY <1>2, <3>1, <3>2
  <2>2. UNCHANGED <<cards, refreshes, overlapped, stage, subscribed, link, record>> /\ ~ended
    BY <1>2 DEF AnnounceCreated, AnnounceCompleted, FlowInv
  <2>3. \A c \in Batches : /\ c # b => phase'[c] = phase[c]
                           /\ AnnounceCreated(b) => phase'[b] # "closed"
    BY <1>2 DEF AnnounceCreated, AnnounceCompleted, Types, ServerTypes
  <2>4. b \in missed' \/ ~Listening' \/ (Linked /\ ~ended)
    BY <2>1, <2>2 DEF Listening, Linked
  <2>5. /\ missed \subseteq missed' /\ (Listening' <=> Listening)
    BY <2>1, <2>2 DEF Listening, Linked
  <2>6. ASSUME NEW c \in Batches
        PROVE  /\ HasCompleted(queue, c) => HasCompleted(queue', c)
               /\ HasStale(queue', c) => HasStale(queue, c) \/ Stale(e, c)
               /\ Linked /\ ~ended /\ IsCompleted(e, c) => HasCompleted(queue', c)
    BY <2>1, PublishHas
  <2>7. ASSUME NEW c \in Batches, phase'[c] = "closed"
        PROVE  \/ c \in missed' \/ ~Listening' \/ HasCompleted(queue', c)
               \/ /\ phase[c] = "closed" /\ record'[c] = record[c]
                  /\ HasStale(queue', c) => HasStale(queue, c)
    <3>1. CASE c = b
      <4>1. AnnounceCompleted(b)
        BY <1>2, <2>3, <2>7, <3>1
      <4>. QED BY <2>1, <2>4, <2>6, <3>1, <4>1
    <3>2. CASE c # b
      BY <2>1, <2>2, <2>3, <2>6, <2>7, <3>2
    <3>. QED BY <3>1, <3>2
  <2>. QED BY <1>0, <2>2, <2>5, <2>6, <2>7, RowsKeep
<1>3. ASSUME NEW b \in Batches, Finish(b) \/ WriteRecord(b) \/ \E t \in TasksOf[b] : Take(b, t)
      PROVE  RowsInv'
  <2>1. UNCHANGED <<cards, missed, stage, refreshes, overlapped, subscribed, link, phase>>
    BY <1>3 DEF Finish, WriteRecord, Take
  <2>2. \A c \in Batches : phase[c] = "closed" => record'[c] = record[c]
    <3>1. CASE WriteRecord(b)
      <4>1. phase[b] = "body"
        BY <3>1, AtFacts DEF WriteRecord
      <4>2. \A c \in Batches : c # b => record'[c] = record[c]
        BY <3>1 DEF WriteRecord, Types, ServerTypes
      <4>. QED BY <4>1, <4>2
    <3>2. CASE ~WriteRecord(b)
      BY <1>3, <3>2 DEF Finish, Take
    <3>. QED BY <3>1, <3>2
  <2>3. ASSUME NEW c \in Batches
        PROVE  /\ HasCompleted(queue, c) => HasCompleted(queue', c)
               /\ phase[c] = "closed" /\ HasStale(queue', c) => HasStale(queue, c)
    <3>1. CASE UNCHANGED queue
      BY <3>1
    <3>2. ASSUME NEW e \in Events, Publish(e), e.kind = "task" \/ (e.kind = "record" /\ e.batch = b /\ phase[b] = "body")
          PROVE  /\ HasCompleted(queue, c) => HasCompleted(queue', c)
                 /\ phase[c] = "closed" /\ HasStale(queue', c) => HasStale(queue, c)
      <4>1. Stale(e, c) => phase[c] = "body"
        BY <3>2 DEF Stale, IsCreated
      <4>. QED BY <3>2, <4>1, PublishHas
    <3>. QED BY <1>3, <3>1, <3>2, WriteEvents
  <2>. QED BY <1>0, <2>1, <2>2, <2>3, RowsKeep DEF Listening, Linked
<1>4. CASE Compose
  <2>1. \A b \in DOMAIN cards' : b \in Batches /\ cards'[b].rows = record[b]
    <3>1. DOMAIN History \subseteq Batches /\ \A b \in DOMAIN History : History[b].rows = record[b]
      BY DEF History
    <3>2. cards' = [b \in DOMAIN History |-> CardOf(History[b].info, History[b].rows)]
      BY <1>4 DEF Compose
    <3>3. \A b \in DOMAIN History : cards'[b] = CardOf(History[b].info, record[b])
      BY <3>1, <3>2
    <3>. QED BY <3>1, <3>2, <3>3, CardOfFacts
  <2>2. UNCHANGED <<phase, record, queue, refreshes>>
    BY <1>4 DEF Compose
  <2>3. ~subscribed /\ refreshes = {} /\ queue = <<>>
    BY <1>4 DEF Compose, StageInv
  <2>4. \A b : ~HasStale(queue, b)
    BY <2>3, EmptySeq DEF HasStale
  <2>5. PICK cards2 : cards2 = cards'
    OBVIOUS
  <2>6. \A b \in DOMAIN cards2 : Settled(b)'
    BY <2>1, <2>2, <2>3, <2>4, <2>5 DEF Settled, Fresh, RowsRight
  <2>. QED BY <2>5, <2>6 DEF RowsInv
<1>5. CASE Connect
  <2>1. UNCHANGED <<queue, cards, missed, refreshes, overlapped, phase, record>> /\ stage = "composed"
    BY <1>5 DEF Connect
  <2>. QED BY <1>0, <2>1, RowsKeep DEF Listening
<1>6. CASE HandleStoreEvent
  <2>1. UNCHANGED <<phase, record, missed, stage, subscribed, link>>
    BY <1>6, MessageFacts
  <2>2. Listening' <=> Listening
    BY <2>1 DEF Listening, Linked
  <2>3. ASSUME NEW b \in DOMAIN cards', b \notin missed, b \notin overlapped', Listening, phase[b] = "closed"
        PROVE  Settled(b)'
    <3>1. PICK q2, cards2, ref2 : q2 = queue' /\ cards2 = cards' /\ ref2 = refreshes'
      OBVIOUS
    <3>2. \/ HasCompleted(q2, b)
          \/ /\ ~HasStale(q2, b)
             /\ \A r \in ref2 : r.batch = b /\ r.read => r.rows = record[b]
             /\ \/ \E r \in ref2 : r.batch = b
                \/ \A t \in DOMAIN cards2[b].rows : cards2[b].rows[t] = record[b][t]
      BY <1>6, <2>3, <3>1, RowMessage
    <3>. QED BY <2>1, <3>1, <3>2 DEF Settled, Fresh, RowsRight
  <2>. QED BY <2>1, <2>2, <2>3 DEF RowsInv
<1>7. ASSUME NEW r \in refreshes, RefreshRead(r) PROVE RowsInv'
  <2>1. UNCHANGED <<queue, cards, missed, stage, subscribed, link, phase, overlapped, record>>
    BY <1>7 DEF RefreshRead
  <2>2. subscribed /\ stage # "composed"
    BY DEF StageInv
  <2>3. CASE link = "down"
    BY <2>1, <2>2, <2>3 DEF RowsInv, Listening, Linked
  <2>4. CASE link # "down"
    <3>1. PICK x : x = [r EXCEPT !.read = TRUE, !.rows = record[r.batch]]
      OBVIOUS
    <3>2. x.batch = r.batch /\ x.rows = record[r.batch]
      BY <3>1 DEF Types, CardTypes
    <3>3. PICK ref2 : ref2 = refreshes' /\ ref2 = (refreshes \ {r}) \cup {x}
      BY <1>7, <2>4, <3>1 DEF RefreshRead
    <3>4. ASSUME NEW b \in DOMAIN cards, Settled(b) PROVE Settled(b)'
      <4>1. Fresh(b) => \A y \in ref2 : y.batch = b /\ y.read => y.rows = record[b]
        BY <3>2, <3>3 DEF Fresh
      <4>2. (\E y \in refreshes : y.batch = b) => \E y \in ref2 : y.batch = b
        BY <3>2, <3>3
      <4>. QED BY <2>1, <3>3, <3>4, <4>1, <4>2 DEF Settled, Fresh, RowsRight
    <3>. QED BY <2>1, <3>4 DEF RowsInv, Listening, Linked
  <2>. QED BY <2>3, <2>4
<1>8. ASSUME NEW r \in refreshes, RefreshApply(r) PROVE RowsInv'
  <2>1. UNCHANGED <<queue, missed, stage, subscribed, link, phase, overlapped, record>> /\ r.read
        /\ refreshes' = refreshes \ {r}
    BY <1>8 DEF RefreshApply
  <2>2. PICK cards2, ref2 : cards2 = cards' /\ ref2 = refreshes' /\ ref2 = refreshes \ {r}
    BY <2>1
  <2>3. /\ DOMAIN cards2 = DOMAIN cards
        /\ \A c \in DOMAIN cards : c # r.batch => cards2[c] = cards[c]
        /\ r.batch \in DOMAIN cards =>
             /\ DOMAIN cards2[r.batch].rows = DOMAIN cards[r.batch].rows
             /\ \A t \in DOMAIN cards[r.batch].rows : t \in DOMAIN r.rows => cards2[r.batch].rows[t] = r.rows[t]
    BY <1>8, <2>2, ApplyFacts
  <2>4. ASSUME NEW b \in DOMAIN cards, Settled(b), phase[b] = "closed" PROVE Settled(b)'
    <3>1. CASE HasCompleted(queue, b)
      BY <2>1, <3>1 DEF Settled
    <3>2. CASE ~HasCompleted(queue, b)
      <4>1. ~HasStale(queue, b) /\ Fresh(b) /\ ((\E x \in refreshes : x.batch = b) \/ RowsRight(b))
        BY <2>4, <3>2 DEF Settled
      <4>2. \A x \in ref2 : x.batch = b /\ x.read => x.rows = record[b]
        BY <2>2, <4>1 DEF Fresh
      <4>3. (\E x \in ref2 : x.batch = b) \/ \A t \in DOMAIN cards2[b].rows : cards2[b].rows[t] = record[b][t]
        <5>1. CASE r.batch = b
          <6>1. r.rows = record[b]
            BY <2>1, <4>1, <5>1 DEF Fresh
          <6>2. DOMAIN record[b] = TasksOf[b] /\ DOMAIN cards[b].rows \subseteq TasksOf[b]
            BY <1>0, <2>4 DEF FlowInv, Types, ServerTypes, CardTypes
          <6>. QED BY <2>3, <5>1, <6>1, <6>2
        <5>2. CASE r.batch # b
          BY <2>2, <2>3, <4>1, <5>2 DEF RowsRight
        <5>. QED BY <5>1, <5>2
      <4>. QED BY <2>1, <2>2, <4>1, <4>2, <4>3 DEF Settled, Fresh, RowsRight
    <3>. QED BY <3>1, <3>2
  <2>. QED BY <2>1, <2>2, <2>3, <2>4 DEF RowsInv, Listening, Linked
<1>9. ASSUME NEW b \in Batches, PressStop(b) PROVE RowsInv'
  <2>1. /\ UNCHANGED <<queue, missed, stage, subscribed, link, phase, record, refreshes, overlapped>>
        /\ cards' = [cards EXCEPT ![b].active = FALSE] /\ b \in DOMAIN cards
    BY <1>9 DEF PressStop
  <2>2. DOMAIN cards' = DOMAIN cards /\ \A c \in DOMAIN cards : cards'[c].rows = cards[c].rows
    BY <2>1, OffFacts
  <2>. QED BY <1>0, <2>1, <2>2, RowsKeep DEF Listening, Linked
<1>10. CASE LoseLane
  <2>1. UNCHANGED <<queue, cards, missed, stage, refreshes, overlapped, subscribed, phase, record>> /\ link' = "down"
    BY <1>10 DEF LoseLane
  <2>. QED BY <1>0, <2>1, RowsKeep DEF Listening, Linked
<1>11. CASE HealLane
  <2>1. UNCHANGED <<cards, missed, stage, refreshes, overlapped, subscribed, phase, record>>
    BY <1>11 DEF HealLane
  <2>2. CASE subscribed
    <3>1. PICK q2 : q2 = queue'
      OBVIOUS
    <3>2. \A b \in Batches : phase[b] \in Over => HasCompleted(q2, b)
      BY <1>11, <2>2, <3>1, HealHas
    <3>3. \A b \in DOMAIN cards : phase[b] = "closed" => Settled(b)'
      BY <1>0, <3>1, <3>2 DEF Settled, Over
    <3>. QED BY <2>1, <3>3 DEF RowsInv
  <2>3. CASE ~subscribed
    <3>1. queue' = queue
      BY <1>11, <2>3 DEF HealLane
    <3>. QED BY <1>0, <2>1, <2>3, <3>1, RowsKeep DEF Listening, Linked
  <2>. QED BY <2>2, <2>3
<1>12. CASE UNCHANGED <<queue, cards, missed, subscribed, link, refreshes, overlapped, phase, record>> /\ (Listening' => Listening)
  BY <1>0, <1>12, RowsKeep
<1>13. \/ \E b \in Batches : \/ OpenBatch(b) \/ Admit(b) \/ Complete(b) \/ AnnounceCreated(b) \/ AnnounceCompleted(b)
                             \/ Finish(b) \/ WriteRecord(b) \/ PressStop(b) \/ \E t \in TasksOf[b] : Take(b, t)
       \/ Compose \/ Connect \/ HandleStoreEvent \/ LoseLane \/ HealLane
       \/ \E r \in refreshes : RefreshRead(r) \/ RefreshApply(r)
       \/ UNCHANGED <<queue, cards, missed, subscribed, link, refreshes, overlapped, phase, record>> /\ (Listening' => Listening)
  BY RowPartsTouched
<1>. QED BY <1>1, <1>2, <1>3, <1>4, <1>5, <1>6, <1>7, <1>8, <1>9, <1>10, <1>11, <1>12, <1>13

---------------------------------------------------------------------------
(* The mirror. *)

\* A message more: of no task, or the new status of one.
LEMMA TellsGrow ==
    ASSUME NEW q, NEW q2, NEW e, NEW store, NEW store2, QueueTells(q, store), Longer(q2, q, e),
           \/ e.kind # "task" /\ store2 = store
           \/ e.kind = "task" /\ e.status = store2[e.task] /\ \A t \in Tasks : t # e.task => store2[t] = store[t]
    PROVE  /\ QueueTells(q2, store2)
           /\ \A t \in Tasks : Told(q, t, store[t]) => Told(q2, t, store2[t])
           /\ \A t \in Tasks : store2[t] # store[t] => Told(q2, t, store2[t])
<1>1. PICK n \in Nat : /\ DOMAIN q = 1 .. n /\ DOMAIN q2 = 1 .. n + 1 /\ q2[n + 1] = e
                       /\ \A i \in 1 .. n : q2[i] = q[i]
  BY DEF Longer
<1>2. /\ \A i \in DOMAIN q : i \in DOMAIN q2 /\ q2[i] = q[i] /\ i < n + 1
      /\ n + 1 \in DOMAIN q2
      /\ \A i \in DOMAIN q2 : i \in DOMAIN q \/ i = n + 1
  BY <1>1
<1>3. e.kind = "task" => Says(e, e.task, store2[e.task])
  BY DEF Says
<1>4. ASSUME NEW i \in DOMAIN q2, NEW t \in Tasks, q2[i].kind = "task", q2[i].task = t, q2[i].status # store2[t]
      PROVE  \E j \in DOMAIN q2 : i < j /\ Says(q2[j], t, store2[t])
  <2>1. i # n + 1
    BY <1>1, <1>4
  <2>2. i \in DOMAIN q /\ q2[i] = q[i] /\ i < n + 1
    BY <1>2, <1>4, <2>1
  <2>3. CASE e.kind = "task" /\ e.task = t
    BY <1>1, <1>2, <1>3, <2>2, <2>3
  <2>4. CASE ~(e.kind = "task" /\ e.task = t)
    <3>1. store2[t] = store[t]
      BY <2>4
    <3>2. PICK j \in DOMAIN q : i < j /\ Says(q[j], t, store[t])
      BY <1>4, <2>2, <3>1 DEF QueueTells
    <3>. QED BY <1>2, <3>1, <3>2
  <2>. QED BY <2>3, <2>4
<1>5. ASSUME NEW t \in Tasks
      PROVE  /\ Told(q, t, store[t]) => Told(q2, t, store2[t])
             /\ store2[t] # store[t] => Told(q2, t, store2[t])
  <2>1. CASE e.kind = "task" /\ e.task = t
    BY <1>1, <1>2, <1>3, <2>1 DEF Told
  <2>2. CASE ~(e.kind = "task" /\ e.task = t)
    <3>1. store2[t] = store[t]
      BY <2>2
    <3>. QED BY <1>2, <3>1 DEF Told
  <2>. QED BY <2>1, <2>2
<1>. QED BY <1>4, <1>5 DEF QueueTells

LEMMA TellsPop ==
    ASSUME NEW q, NEW q2, NEW e, NEW store, QueueTells(q, store), Shorter(q2, q, e)
    PROVE  /\ QueueTells(q2, store)
           /\ \A t \in Tasks : Told(q, t, store[t]) => Told(q2, t, store[t]) \/ Says(e, t, store[t])
           /\ \A t \in Tasks : e.kind = "task" /\ e.task = t => Told(q2, t, store[t]) \/ e.status = store[t]
<1>1. PICK n \in Nat : /\ n > 0 /\ DOMAIN q = 1 .. n /\ DOMAIN q2 = 1 .. n - 1 /\ q[1] = e
                       /\ \A i \in 1 .. n - 1 : q2[i] = q[i + 1]
  BY DEF Shorter
<1>2. \A i \in DOMAIN q2 : i \in Nat /\ i + 1 \in DOMAIN q /\ q2[i] = q[i + 1] /\ 1 < i + 1
  BY <1>1
<1>3. \A j \in DOMAIN q : j \in Nat /\ (j > 1 => j - 1 \in DOMAIN q2 /\ q2[j - 1] = q[j]) /\ (j > 1 \/ j = 1)
  <2>1. ASSUME NEW j \in 1 .. n, j > 1 PROVE j - 1 \in 1 .. n - 1 /\ (j - 1) + 1 = j
    BY <2>1
  <2>. QED BY <1>1, <2>1
<1>4. 1 \in DOMAIN q /\ q[1] = e
  BY <1>1
<1>5. ASSUME NEW i \in DOMAIN q2, NEW t \in Tasks, q2[i].kind = "task", q2[i].task = t, q2[i].status # store[t]
      PROVE  \E j \in DOMAIN q2 : i < j /\ Says(q2[j], t, store[t])
  <2>1. i \in Nat /\ i + 1 \in DOMAIN q /\ q2[i] = q[i + 1]
    BY <1>2
  <2>2. PICK j \in DOMAIN q : i + 1 < j /\ Says(q[j], t, store[t])
    BY <1>5, <2>1 DEF QueueTells
  <2>3. j \in Nat /\ j > 1
    BY <1>3, <2>1, <2>2
  <2>4. j - 1 \in DOMAIN q2 /\ q2[j - 1] = q[j] /\ i < j - 1
    BY <1>3, <2>1, <2>2, <2>3
  <2>. QED BY <2>2, <2>4
<1>6. ASSUME NEW t \in Tasks, Told(q, t, store[t]) PROVE Told(q2, t, store[t]) \/ Says(e, t, store[t])
  BY <1>3, <1>4, <1>6 DEF Told
<1>7. ASSUME NEW t \in Tasks, e.kind = "task", e.task = t, e.status # store[t] PROVE Told(q2, t, store[t])
  <2>1. PICK j \in DOMAIN q : 1 < j /\ Says(q[j], t, store[t])
    BY <1>4, <1>7 DEF QueueTells
  <2>. QED BY <1>3, <2>1 DEF Told
<1>. QED BY <1>5, <1>6, <1>7 DEF QueueTells

LEMMA TellsHeal ==
    ASSUME Types, ~ended, NEW q, NEW w, NEW E \in Seq(Events), NEW k \in Nat, Snapshotted(E), Joins(w, q, E, k)
    PROVE  QueueTells(w, status) /\ \A t \in Tasks : Told(w, t, status[t])
<1>1. /\ \A j \in DOMAIN q : j \in DOMAIN w /\ w[j] = q[j] /\ j <= k /\ j \in Nat
      /\ \A j \in DOMAIN E : j \in Nat /\ k + j \in DOMAIN w /\ w[k + j] = E[j] /\ k < k + j
      /\ \A j \in DOMAIN w : j \in DOMAIN q \/ \E m \in DOMAIN E : j = k + m
  BY DEF Joins
<1>2. ASSUME NEW t \in Tasks PROVE \E j \in DOMAIN w : k < j /\ j \in Nat /\ Says(w[j], t, status[t])
  <2>1. PICK m \in DOMAIN E : Right(E[m], t)
    BY DEF Snapshotted
  <2>2. m \in Nat /\ k + m \in DOMAIN w /\ w[k + m] = E[m] /\ k < k + m
    BY <1>1
  <2>. QED BY <2>1, <2>2 DEF Right, Says
<1>3. ASSUME NEW i \in DOMAIN w, NEW t \in Tasks, w[i].kind = "task", w[i].task = t, w[i].status # status[t]
      PROVE  \E j \in DOMAIN w : i < j /\ Says(w[j], t, status[t])
  <2>1. CASE i \in DOMAIN q
    BY <1>1, <1>2, <2>1
  <2>2. CASE i \notin DOMAIN q
    <3>1. PICK m \in DOMAIN E : w[i] = E[m]
      BY <1>1, <2>2
    <3>2. Right(E[m], t)
      BY <1>3, <3>1 DEF Snapshotted
    <3>. QED BY <1>3, <3>1, <3>2 DEF Right
  <2>. QED BY <2>1, <2>2
<1>. QED BY <1>2, <1>3 DEF QueueTells, Told

LEMMA MirrorPublish ==
    ASSUME Types, MirrorInv, NEW e \in Events, Publish(e),
           UNCHANGED <<stage, subscribed, link, ended, mirror, snapshot>>,
           \/ e.kind # "task" /\ status' = status
           \/ e.kind = "task" /\ e.status = status'[e.task] /\ \A t \in Tasks : t # e.task => status'[t] = status[t]
    PROVE  MirrorInv'
<1>1. PICK q2, store2 : q2 = queue' /\ store2 = status'
  OBVIOUS
<1>2. SUFFICES ASSUME Linked, ~ended
               PROVE  /\ QueueTells(q2, store2)
                      /\ stage = "overlay" => \A t \in Tasks : (t \in DOMAIN snapshot /\ snapshot[t] = store2[t]) \/ Told(q2, t, store2[t])
                      /\ stage = "live" => \A t \in Tasks : (t \in DOMAIN mirror /\ mirror[t] = store2[t]) \/ Told(q2, t, store2[t])
  BY <1>1 DEF MirrorInv, Shows, Linked
<1>3. Longer(q2, queue, e)
  BY <1>1, <1>2, PublishFacts
<1>4. QueueTells(queue, status)
  BY <1>2 DEF MirrorInv
<1>5. /\ QueueTells(q2, store2)
      /\ \A t \in Tasks : Told(queue, t, status[t]) => Told(q2, t, store2[t])
      /\ \A t \in Tasks : store2[t] # status[t] => Told(q2, t, store2[t])
  BY <1>1, <1>3, <1>4, TellsGrow
<1>. QED BY <1>2, <1>5 DEF MirrorInv, Shows

\* Which steps touch what the mirror follows.
LEMMA MirrorTouched ==
    ASSUME [Next]_vars
    PROVE  \/ \E b \in Batches : \/ AnnounceCreated(b) \/ AnnounceCompleted(b)
                                 \/ Finish(b) \/ WriteRecord(b) \/ \E t \in TasksOf[b] : Take(b, t)
           \/ Install \/ Compose \/ Connect \/ ReadSnapshot \/ Overlay \/ Resume \/ HandleStoreEvent \/ LoseLane \/ HealLane
           \/ UNCHANGED <<queue, status, mirror, snapshot, stage, subscribed, link>> /\ (~ended' => ~ended)
<1>. USE DEF SameScreen, serverVars, screenVars, cardVars, logVars
<1>1. ASSUME NEW b \in Batches, OpenBatch(b) \/ Admit(b) \/ TakeListeners(b)
      PROVE  (UNCHANGED <<queue, status, mirror, snapshot, stage, subscribed, link>> /\ (~ended' => ~ended))
  BY <1>1 DEF OpenBatch, Admit, TakeListeners
<1>2. ASSUME NEW b \in Batches, EmitLine(b) \/ Complete(b)
      PROVE  (UNCHANGED <<queue, status, mirror, snapshot, stage, subscribed, link>> /\ (~ended' => ~ended))
  BY <1>2 DEF EmitLine, Complete
<1>3. EndSession =>
         (UNCHANGED <<queue, status, mirror, snapshot, stage, subscribed, link>> /\ (~ended' => ~ended))
  BY DEF EndSession
<1>4. OpenLog \/ WriteBacklog \/ WriteLine \/ CloseLog =>
         (UNCHANGED <<queue, status, mirror, snapshot, stage, subscribed, link>> /\ (~ended' => ~ended))
  BY DEF OpenLog, WriteBacklog, WriteLine, CloseLog
<1>5. ASSUME NEW r \in refreshes, RefreshRead(r) \/ RefreshApply(r)
      PROVE  (UNCHANGED <<queue, status, mirror, snapshot, stage, subscribed, link>> /\ (~ended' => ~ended))
  BY <1>5 DEF RefreshRead, RefreshApply
<1>6. ASSUME NEW b \in Batches, PressStop(b)
      PROVE  (UNCHANGED <<queue, status, mirror, snapshot, stage, subscribed, link>> /\ (~ended' => ~ended))
  BY <1>6 DEF PressStop
<1>7. UNCHANGED vars => (UNCHANGED <<queue, status, mirror, snapshot, stage, subscribed, link>> /\ (~ended' => ~ended))
  BY DEF vars
<1>. QED BY <1>1, <1>2, <1>3, <1>4, <1>5, <1>6, <1>7 DEF Next, ServerNext, ScreenNext

LEMMA MirrorStep ==
    ASSUME Types, FlowInv, StageInv, MirrorInv, [Next]_vars
    PROVE  MirrorInv'
<1>. USE DEF SameScreen, serverVars, cardVars, screenVars
<1>1. ASSUME UNCHANGED <<queue, status, mirror, snapshot, stage>>, Linked' /\ ~ended' => Linked /\ ~ended
      PROVE  MirrorInv'
  BY <1>1 DEF MirrorInv, Shows
<1>2. ASSUME NEW b \in Batches, AnnounceCreated(b) \/ AnnounceCompleted(b) PROVE MirrorInv'
  <2>1. PICK e \in Events : Publish(e) /\ e.kind # "task"
    BY <1>2, BatchEventFacts DEF AnnounceCreated, AnnounceCompleted, PublishBatch
  <2>2. UNCHANGED <<stage, subscribed, link, ended, mirror, snapshot, status>>
    BY <1>2 DEF AnnounceCreated, AnnounceCompleted
  <2>. QED BY <2>1, <2>2, MirrorPublish
<1>3. ASSUME NEW b \in Batches, NEW t \in TasksOf[b], NEW goal \in Statuses, NEW claims \in BOOLEAN,
             SetStatus(b, t, goal, claims), UNCHANGED <<stage, subscribed, link, ended, mirror, snapshot>>
      PROVE  MirrorInv'
  <2>1. t \in Tasks /\ status \in [Tasks -> Statuses] /\ status' = [status EXCEPT ![t] = goal]
    BY <1>3, BasicFacts DEF SetStatus, Types, ServerTypes
  <2>2. CASE status[t] = goal
    <3>1. status' = status
      BY <2>1, <2>2
    <3>2. queue' = queue
      BY <1>3, <2>2 DEF SetStatus
    <3>. QED BY <1>1, <1>3, <3>1, <3>2 DEF Linked
  <2>3. CASE status[t] # goal
    <3>1. PICK e : e = [kind |-> "task", task |-> t, status |-> goal]
      OBVIOUS
    <3>2. e \in Events /\ e.kind = "task" /\ e.task = t /\ e.status = goal
      BY <2>1, <3>1 DEF Events, TaskEvents
    <3>3. Publish(e)
      BY <1>3, <2>3, <3>1 DEF SetStatus
    <3>4. e.status = status'[e.task] /\ \A x \in Tasks : x # e.task => status'[x] = status[x]
      BY <2>1, <3>2
    <3>. QED BY <1>3, <3>2, <3>3, <3>4, MirrorPublish
  <2>. QED BY <2>2, <2>3
<1>4. ASSUME NEW b \in Batches, Finish(b) \/ \E t \in TasksOf[b] : Take(b, t) PROVE MirrorInv'
  <2>1. UNCHANGED <<stage, subscribed, link, ended, mirror, snapshot>>
    BY <1>4 DEF Finish, Take
  <2>2. CASE Finish(b)
    BY <1>3, <2>1, <2>2, AtFacts DEF Finish, Statuses
  <2>3. ASSUME NEW t \in TasksOf[b], Take(b, t) PROVE MirrorInv'
    BY <1>3, <2>1, <2>3 DEF Take, Statuses
  <2>. QED BY <1>4, <2>2, <2>3
<1>5. ASSUME NEW b \in Batches, WriteRecord(b) PROVE MirrorInv'
  <2>1. UNCHANGED <<stage, subscribed, link, ended, mirror, snapshot, status>>
    BY <1>5 DEF WriteRecord
  <2>2. UNCHANGED queue \/ \E e \in Events : Publish(e) /\ e.kind # "task"
    <3>1. work[b].task \in Tasks /\ work[b].goal \in RowStatuses
      BY <1>5, AtFacts DEF WriteRecord
    <3>2. PICK e : e = [kind |-> "record", batch |-> b, task |-> work[b].task, status |-> work[b].goal]
      OBVIOUS
    <3>3. e \in Events /\ e.kind # "task"
      BY <3>1, <3>2 DEF Events, RecordEvents
    <3>. QED BY <1>5, <3>2, <3>3 DEF WriteRecord
  <2>. QED BY <1>1, <2>1, <2>2, MirrorPublish DEF Linked
<1>6. CASE Install \/ Compose
  BY <1>6 DEF Install, Compose, StageInv, MirrorInv, Linked
<1>7. CASE Connect
  <2>1. UNCHANGED <<queue, status>> /\ stage' = "reading" /\ queue = <<>>
    BY <1>7 DEF Connect, StageInv
  <2>. QED BY <2>1, EmptySeq DEF MirrorInv, QueueTells
<1>8. CASE ReadSnapshot
  <2>1. UNCHANGED <<queue, status, ended, subscribed, link>> /\ stage' = "overlay"
    BY <1>8 DEF ReadSnapshot
  <2>2. Linked /\ ~ended => snapshot' = status
    BY <1>8 DEF ReadSnapshot, Linked, StoreItems
  <2>3. DOMAIN status = Tasks
    BY DEF Types, ServerTypes
  <2>. QED BY <2>1, <2>2, <2>3 DEF MirrorInv, Shows, Linked
<1>9. CASE Overlay
  <2>1. UNCHANGED <<queue, status, ended, subscribed, link>> /\ stage' = "live" /\ stage = "overlay"
        /\ mirror' = Updated(mirror, snapshot)
    BY <1>9 DEF Overlay
  <2>2. \A t \in DOMAIN snapshot : t \in DOMAIN mirror' /\ mirror'[t] = snapshot[t]
    BY <2>1 DEF Updated
  <2>. QED BY <2>1, <2>2 DEF MirrorInv, Shows, Linked
<1>10. CASE Resume
  BY <1>10 DEF Resume, MirrorInv, Linked
<1>11. CASE HandleStoreEvent
  <2>1. PICK e \in Events : /\ e = Head(queue) /\ Shorter(queue', queue, e) /\ stage = "live"
                            /\ UNCHANGED <<status, ended, stage, subscribed, link>>
    BY <1>11, MessageFacts
  <2>2. mirror' = IF e.kind = "task" THEN [mirror EXCEPT ![e.task] = e.status] ELSE mirror
    BY <1>11, <2>1 DEF HandleStoreEvent
  <2>3. mirror \in [Tasks -> Statuses]
    BY <2>1 DEF StageInv
  <2>4. PICK q2, mirror2 : q2 = queue' /\ mirror2 = mirror' /\ Shorter(q2, queue, e)
    BY <2>1
  <2>5. SUFFICES ASSUME Linked, ~ended
                 PROVE  /\ QueueTells(q2, status)
                        /\ \A t \in Tasks : (t \in DOMAIN mirror2 /\ mirror2[t] = status[t]) \/ Told(q2, t, status[t])
    BY <2>1, <2>4 DEF MirrorInv, Shows, Linked
  <2>6. /\ QueueTells(queue, status)
        /\ \A t \in Tasks : Shows(mirror, t) \/ Told(queue, t, status[t])
    BY <2>1, <2>5 DEF MirrorInv
  <2>7. /\ QueueTells(q2, status)
        /\ \A t \in Tasks : Told(queue, t, status[t]) => Told(q2, t, status[t]) \/ Says(e, t, status[t])
        /\ \A t \in Tasks : e.kind = "task" /\ e.task = t => Told(q2, t, status[t]) \/ e.status = status[t]
    BY <2>4, <2>6, TellsPop
  <2>8. ASSUME NEW t \in Tasks, ~Told(q2, t, status[t]) PROVE t \in DOMAIN mirror2 /\ mirror2[t] = status[t]
    <3>1. CASE e.kind = "task" /\ e.task = t
      BY <2>2, <2>3, <2>4, <2>7, <2>8, <3>1
    <3>2. CASE ~(e.kind = "task" /\ e.task = t)
      <4>1. Shows(mirror, t)
        BY <2>6, <2>7, <2>8, <3>2 DEF Says
      <4>2. DOMAIN mirror2 = DOMAIN mirror /\ mirror2[t] = mirror[t]
        BY <2>2, <2>3, <2>4, <3>2
      <4>. QED BY <4>1, <4>2 DEF Shows
    <3>. QED BY <3>1, <3>2
  <2>. QED BY <2>7, <2>8
<1>12. CASE LoseLane
  BY <1>12 DEF LoseLane, MirrorInv, Linked
<1>13. CASE HealLane
  <2>1. UNCHANGED <<mirror, snapshot, stage, subscribed, ended, status>>
    BY <1>13 DEF HealLane
  <2>2. CASE ~subscribed
    BY <2>1, <2>2 DEF MirrorInv, Linked
  <2>3. CASE subscribed /\ ended
    BY <2>1, <2>3 DEF MirrorInv
  <2>4. CASE subscribed /\ ~ended
    <3>1. PICK E \in Seq(Events), k \in Nat : Snapshotted(E) /\ Joins(queue', queue, E, k)
      BY <1>13, <2>4, HealFacts
    <3>2. PICK q2 : q2 = queue' /\ Joins(q2, queue, E, k)
      BY <3>1
    <3>3. QueueTells(q2, status) /\ \A t \in Tasks : Told(q2, t, status[t])
      BY <2>4, <3>1, <3>2, TellsHeal
    <3>. QED BY <2>1, <3>2, <3>3 DEF MirrorInv
  <2>. QED BY <2>2, <2>3, <2>4
<1>14. CASE UNCHANGED <<queue, status, mirror, snapshot, stage, subscribed, link>> /\ (~ended' => ~ended)
  BY <1>1, <1>14 DEF Linked
<1>15. \/ \E b \in Batches : \/ AnnounceCreated(b) \/ AnnounceCompleted(b)
                             \/ Finish(b) \/ WriteRecord(b) \/ \E t \in TasksOf[b] : Take(b, t)
       \/ Install \/ Compose \/ Connect \/ ReadSnapshot \/ Overlay \/ Resume \/ HandleStoreEvent \/ LoseLane \/ HealLane
       \/ UNCHANGED <<queue, status, mirror, snapshot, stage, subscribed, link>> /\ (~ended' => ~ended)
  BY MirrorTouched
<1>. QED BY <1>2, <1>4, <1>5, <1>6, <1>7, <1>8, <1>9, <1>10, <1>11, <1>12, <1>13, <1>14, <1>15

---------------------------------------------------------------------------
(* The invariant. *)

LEMMA InitScreen ==
    ASSUME Init
    PROVE  ScreenInv
<1>. USE EmptySeq, BasicFacts DEF Init
<1>1. ServerTypes /\ ScreenTypes /\ QueueTypes
  <2>1. phase \in [Batches -> Phases] /\ batch \in [Batches -> BatchStatuses] /\ status \in [Tasks -> Statuses]
    BY DEF Phases, BatchStatuses, Statuses
  <2>2. /\ DOMAIN record = Batches /\ DOMAIN work = Batches
        /\ \A b \in Batches : record[b] = Nothing /\ work[b] = Nothing
    OBVIOUS
  <2>3. ServerTypes
    BY <2>1, <2>2 DEF ServerTypes
  <2>4. ScreenTypes
    BY DEF ScreenTypes
  <2>5. queue \in Seq(Events) /\ DOMAIN queue = {}
    OBVIOUS
  <2>6. QueueTypes
    BY <2>5 DEF QueueTypes
  <2>. QED BY <2>3, <2>4, <2>6
<1>2. CardTypes /\ LogTypes
  BY DEF CardTypes, LogTypes
<1>3. FlowInv /\ StageInv
  BY DEF FlowInv, StageInv, Over, Active
<1>4. QueueInv /\ CardInv /\ RowsInv
  BY DEF QueueInv, QueueRight, CardInv, RowsInv
<1>5. MirrorInv /\ LineInv
  BY DEF MirrorInv, Linked, LineInv
<1>. QED BY <1>1, <1>2, <1>3, <1>4, <1>5 DEF ScreenInv, Types

LEMMA ScreenStep ==
    ASSUME ScreenInv, [Next]_vars
    PROVE  ScreenInv'
BY TypesStep, FlowStep, StageStep, QueueStep, CardStep, RowsStep, MirrorStep, LineStep DEF ScreenInv

\* The types of the state, and what is still on its way to the screen: for every
\* number of batches, tasks, gaps of the lane and returns to the screen.
THEOREM ScreenInvariant == Spec => []ScreenInv
<1>1. Init => ScreenInv
  BY InitScreen
<1>2. ScreenInv /\ [Next]_vars => ScreenInv'
  BY ScreenStep
<1>. QED BY <1>1, <1>2, PTL DEF Spec

\* The statuses a client shows are those of the store once it handled what it
\* heard (workflow.py, store.py): a write between the install and the
\* subscription, during the snapshot read or in a gap of the lane is in the
\* overlay, in the queue or in the snapshot of the next healing.
THEOREM MirrorFollows == Spec => []MirrorCatchesUp
<1>1. ScreenInv => MirrorCatchesUp
  <2>1. SUFFICES ASSUME ScreenInv, Quiet, ~ended PROVE mirror = status
    BY DEF MirrorCatchesUp
  <2>2. \A t \in Tasks : Shows(mirror, t) \/ Told(queue, t, status[t])
    BY <2>1 DEF ScreenInv, MirrorInv, Linked, Quiet
  <2>3. \A t \in Tasks : mirror[t] = status[t]
    BY <2>1, <2>2, EmptySeq DEF Quiet, Told, Shows
  <2>4. mirror \in [Tasks -> Statuses] /\ status \in [Tasks -> Statuses]
    BY <2>1 DEF ScreenInv, StageInv, Quiet, Types, ServerTypes
  <2>. QED BY <2>3, <2>4
<1>. QED BY <1>1, ScreenInvariant, PTL

\* Every batch the client was told of has its card, with a stop that is on while
\* the batch may be stopped and off after its completion (history.py).
THEOREM CardsAreRight == Spec => []CardsFollow
<1>1. ScreenInv => CardsFollow
  <2>1. SUFFICES ASSUME ScreenInv, Quiet, NEW b \in Batches \ missed
                 PROVE  /\ phase[b] \in {"body", "completed", "closed"} => b \in DOMAIN cards
                        /\ b \in DOMAIN cards => (phase[b] = "closed" => ~cards[b].active)
                        /\ b \in DOMAIN cards /\ batch[b] \in Active /\ b \notin stopping => cards[b].active
    BY DEF CardsFollow
  <2>2. ~HasCreated(queue, b) /\ ~HasCompleted(queue, b) /\ Listening
    BY <2>1, EmptySeq DEF Quiet, HasCreated, HasCompleted, Listening, Linked
  <2>. QED BY <2>1, <2>2 DEF ScreenInv, CardInv
<1>. QED BY <1>1, ScreenInvariant, PTL

\* The rows of a batch that is over show its outcomes once no refresh is in flight
\* (history.py): no message older than the completion is handled after it, and a
\* history read after it has every outcome.
THEOREM RowsAreRight == Spec => []RowsShowOutcomes
<1>1. ScreenInv => RowsShowOutcomes
  <2>1. SUFFICES ASSUME ScreenInv, Quiet, refreshes = {}, NEW b \in DOMAIN cards \ (missed \cup overlapped),
                        phase[b] = "closed", NEW t \in DOMAIN cards[b].rows
                 PROVE  cards[b].rows[t] = record[b][t]
    BY DEF RowsShowOutcomes
  <2>2. ~HasCompleted(queue, b) /\ Listening
    BY <2>1, EmptySeq DEF Quiet, HasCompleted, Listening, Linked
  <2>. QED BY <2>1, <2>2 DEF ScreenInv, RowsInv, Settled, RowsRight
<1>. QED BY <1>1, ScreenInvariant, PTL

\* An open log view misses no line of its task but the one that straddled its
\* opening (task_detail.py): the others are in the backlog or came after it.
THEOREM LinesAreShown == Spec => []LinesArrive
<1>1. ScreenInv => LinesArrive
  <2>1. SUFFICES ASSUME ScreenInv, view = "open", lines = <<>>, NEW i \in DOMAIN buffer
                 PROVE  buffer[i] \in straddled \/ \E j \in DOMAIN shown : shown[j] = buffer[i]
    BY DEF LinesArrive
  <2>2. Range(lines) = {}
    BY <2>1, EmptySeq DEF Range
  <2>. QED BY <2>1, <2>2 DEF ScreenInv, LineInv, Range
<1>. QED BY <1>1, ScreenInvariant, PTL
=============================================================================
