----------------------------- MODULE CacheProofs -----------------------------
(***************************************************************************)
(* Proofs about the caches: history is never older than what was served,   *)
(* an invalidation reaches every value computed before it, and the caches  *)
(* pane shows no value of a dropped entry as valid.                        *)
(***************************************************************************)
EXTENDS CachePane, SequenceTheorems, WellFoundedInduction, TLAPS

---------------------------------------------------------------------------
(* What the theorems assume of the declarations and of the faults. *)

Reads(e) == {LoaderReads[e][i] : i \in 1 .. Len(LoaderReads[e])}

\* The entries whose loader reads, in the end, itself: they never have a value.
Circular(S) == \A e \in S : Reads(e) \cap S # {}
Cyclic == UNION {S \in SUBSET Entries : Circular(S)}

\* The order of a cascade has what a loader reads before the entry, declared or not.
ReadsInOrder ==
    \A k \in 1 .. Len(Topological) : Topological[k] \notin Cyclic =>
        \A x \in Reads(Topological[k]) : \E j \in 1 .. k - 1 : Topological[j] = x

\* A quarantine is a mark in memory, which a restart loses and a failed load replaces:
\* a failed drop does not meet another fault in one behaviour.
Losing == {"load", "write", "restart"}
QuarantineKept ==
    \A m \in Modes : "delete" \in m => MaxFaults <= 1 \/ m \cap Losing = {}

---------------------------------------------------------------------------
(* The inductive invariant. *)

\* The frames of a thread are the field locks it holds.
Holds(st, e) == \E k \in 1 .. Len(st) : st[k].entry = e
LockInv == \A t \in Threads, e \in Entries : lock[e] = t <=> Holds(stack[t], e)

\* Each loader waits for the entry it reads next, the innermost for the goal. No entry
\* is computed twice, and the loader of an entry of a read cycle always waits for another.
Awaits(f, e) == f.left # <<>> /\ Head(f.left) = e
Chained(st) ==
    /\ \A k \in 1 .. Len(st) : \A i \in 1 .. Len(st[k].left) : st[k].left[i] \in Reads(st[k].entry)
    /\ \A k \in 1 .. Len(st) - 1 : Awaits(st[k], st[k + 1].entry)
    /\ \A j, k \in 1 .. Len(st) : st[j].entry = st[k].entry => j = k
    /\ \A k \in 1 .. Len(st) : st[k].entry \in Cyclic =>
          \E i \in 1 .. Len(st[k].left) : st[k].left[i] \in Cyclic
ChainAt(t) ==
    /\ Chained(stack[t])
    /\ pc[t] = "enter" /\ stack[t] # <<>> => Awaits(Top(t), call[t].goal)
    /\ pc[t] \in {"idle", "record", "drop", "populate"} => stack[t] = <<>>
    /\ pc[t] = "load" => stack[t] # <<>>
ChainInv == \A t \in Threads : ChainAt(t)

\* A read is about its one entry, from the outermost loader to the record it got.
CallAt(t) ==
    /\ pc[t] \in {"enter", "load"} => call[t].kind \in {"read", "init"}
    /\ pc[t] = "populate" => call[t].kind = "init"
    /\ pc[t] = "record" => call[t].kind = "read" /\ call[t].got \in Record
    /\ pc[t] = "drop" => call[t].kind \in {"drop", "init"}
    /\ pc[t] # "idle" /\ call[t].kind = "read" =>
          /\ Len(call[t].todo) = 1
          /\ stack[t] # <<>> => stack[t][1].entry = call[t].todo[1]
          /\ pc[t] = "enter" /\ stack[t] = <<>> => call[t].goal = call[t].todo[1]
CallInv == \A t \in Threads : CallAt(t)

\* A tier is never written after the tiers below it, nor later than now, and what a
\* task was served stays older than every record left.
AgeInv ==
    /\ \A e \in Entries : \A i \in 1 .. Tiers : tier[i][e] # Missing =>
          /\ tier[i][e].at <= now
          /\ \A j \in i .. Tiers : tier[j][e] # Missing => tier[i][e].at <= tier[j][e].at
    /\ \A t \in Threads : pc[t] = "record" =>
          /\ call[t].got.at <= now
          /\ \A i \in 1 .. Tiers : tier[i][call[t].todo[1]] # Missing =>
                call[t].got.at <= tier[i][call[t].todo[1]].at

\* An entry of a read cycle never gets a value.
CycleInv == \A e \in Cyclic : \A i \in 1 .. Tiers : tier[i][e] = Missing

\* Where a quarantine stands nothing is about to mark another error on an entry that
\* can have a value.
Sound(t) == \A k \in 1 .. Len(stack[t]) : stack[t][k].entry \in Cyclic
MarkInv ==
    /\ \A e \in Entries : errors[e] = "delete" => "delete" \in mode /\ faults >= 1
    /\ \A t \in Threads : pc[t] = "raise" =>
          Sound(t) \/ (faults >= 1 /\ mode \cap Losing # {})
    /\ \A e \in Entries, t \in Threads : errors[e] = "delete" /\ pc[t] = "raise" => Sound(t)

\* The floor of an entry is below every record that can be served, every loader that
\* runs and the floor of everything it reads. The cascade renews what an entry reads
\* before the entry.
Pending(t, x, i) == \E j \in 1 .. i - 1 : call[t].todo[j] = x
DropAt(t) ==
    pc[t] = "drop" =>
        /\ call[t].due <= now
        /\ \A i \in 1 .. Len(call[t].todo) :
              call[t].todo[i] \in Renewed(call[t].drops) \ Cyclic =>
                  \A x \in Reads(call[t].todo[i]) : call[t].due <= floor[x] \/ Pending(t, x, i)
FloorInv ==
    /\ \A e \in Entries : floor[e] <= now
    /\ \A e \in Entries \ Cyclic : \A x \in Reads(e) : floor[e] <= floor[x]
    /\ \A e \in Entries : \A i \in 1 .. Tiers : tier[i][e] # Missing =>
          floor[e] <= tier[i][e].gen \/ errors[e] = "delete"
    /\ \A t \in Threads : \A k \in 1 .. Len(stack[t]) :
          stack[t][k].entry \notin Cyclic => floor[stack[t][k].entry] <= stack[t][k].gen
    /\ \A t \in Threads : DropAt(t)
DueInv ==
    \A t \in Threads : pc[t] # "idle" /\ call[t].kind = "read" =>
        /\ call[t].due <= floor[call[t].todo[1]]
        /\ pc[t] = "record" => call[t].due <= call[t].got.gen

\* What the worker of the pane saw: once an entry is classified without the mark of a
\* failed drop, no record of it is from before the worker began.
Fresh(e) == \A i \in 1 .. Tiers : tier[i][e] # Missing =>
    worker.seen[e].since <= tier[i][e].gen
Told(e) == worker.seen[e].error = "delete" \/ Fresh(e)
SeenAt(e) ==
    LET s == worker.seen[e] IN
    /\ s.since <= floor[e]
    /\ s.state = "peeked" => worker.step = "classify" /\ e = Head(worker.todo)
    /\ s.state \in {"warm", "stale"} => Told(e)
    /\ s.error = "delete" => worker.kind = "view"
    /\ s.value # Missing /\ s.state # "peeked" => s.since <= s.value.gen \/ s.error = "delete"
CardAt(i) ==
    \/ Told(worker.card[i])
    \/ worker.step # "value" /\ Occurs(worker.card[i], worker.todo)
SeenInv ==
    /\ worker.step = "classify" => worker.todo # <<>>
    /\ \A e \in Entries : SeenAt(e)
    /\ worker.kind = "view" => \A i \in 1 .. Len(worker.card) : CardAt(i)
    /\ worker.step = "value" /\ worker.kind = "view" =>
          \A i \in 1 .. Len(worker.todo) : Occurs(worker.todo[i], worker.card)

---------------------------------------------------------------------------
(* Lemmas about sequences and the storage. *)

Slots == Record \cup {Missing}
Tables == [1 .. Tiers -> [Entries -> Slots]]

\* A set of numbers has a least one.
LEMMA LeastExists ==
    ASSUME NEW S \in SUBSET Nat, S # {}
    PROVE \E n \in S : \A m \in S : n <= m
<1> DEFINE R == {ss \in Nat \X Nat : ss[1] < ss[2]}
<1>1. IsWellFoundedOn(R, Nat)
  BY NatLessThanWellFounded DEF OpToRel
<1>2. \E x \in S : \A y \in S : ~ (<<y, x>> \in R)
  <2> HIDE DEF R
  <2> QED BY <1>1, WFMin, Zenon
<1>3. PICK x \in S : \A y \in S : ~ (<<y, x>> \in R)
  BY <1>2
<1>4. ASSUME NEW y \in S PROVE x <= y
  <2>1. x \in Nat /\ y \in Nat
    OBVIOUS
  <2>2. <<y, x>> \in R <=> y < x
    BY <2>1
  <2>3. ~ (y < x)
    BY <1>3, <2>2, Zenon
  <2> QED BY <2>1, <2>3
<1> QED BY <1>4

\* Where the first hit of a read is (ComposedStorage.read).
LEMMA TopTierFacts ==
    ASSUME TypeOK, NEW e \in Entries, HasRecord(e)
    PROVE /\ TopTier(e) \in 1 .. Tiers /\ tier[TopTier(e)][e] # Missing
          /\ \A j \in 1 .. TopTier(e) - 1 : tier[j][e] = Missing
<1> DEFINE S == {i \in 1 .. Tiers : tier[i][e] # Missing}
<1>0. Tiers \in Nat
  BY ConstantsAssumption
<1>1. S \in SUBSET Nat /\ S # {}
  <2>1. \A i \in S : i \in Nat
    BY <1>0
  <2>2. \E i \in S : TRUE
    BY DEF HasRecord
  <2> QED BY <2>1, <2>2
<1>2. PICK n \in S : \A m \in S : n <= m
  <2> HIDE DEF S
  <2> QED BY <1>1, LeastExists
<1>3. \A j \in 1 .. n - 1 : tier[j][e] = Missing
  BY <1>0, <1>2
<1>4. \E i \in 1 .. Tiers : tier[i][e] # Missing /\ \A j \in 1 .. i - 1 : tier[j][e] = Missing
  BY <1>2, <1>3
<1> QED BY <1>4 DEF TopTier

\* A peek sees the record of the first tier that has one.
LEMMA PeekFacts ==
    ASSUME TypeOK, NEW e \in Entries
    PROVE /\ Peek(e) \in Slots
          /\ Peek(e) # Missing => \E i \in 1 .. Tiers :
                tier[i][e] = Peek(e) /\ \A j \in 1 .. i - 1 : tier[j][e] = Missing
          /\ (\A i \in 1 .. Tiers : tier[i][e] = Missing) => Peek(e) = Missing
<1>1. CASE HasRecord(e)
  <2>1. TopTier(e) \in 1 .. Tiers /\ tier[TopTier(e)][e] # Missing
        /\ \A j \in 1 .. TopTier(e) - 1 : tier[j][e] = Missing
    BY <1>1, TopTierFacts
  <2>2. Peek(e) = tier[TopTier(e)][e]
    BY <1>1 DEF Peek
  <2>3. tier[TopTier(e)][e] \in Slots
    BY <2>1 DEF TypeOK, Slots
  <2> QED BY <2>1, <2>2, <2>3
<1>2. CASE ~ HasRecord(e)
  BY <1>2 DEF Peek, Slots, HasRecord
<1> QED BY <1>1, <1>2

\* A promotion copies the first hit upwards and changes no other entry.
LEMMA PromotedFacts ==
    ASSUME TypeOK, NEW e \in Entries
    PROVE /\ Promoted(e) \in Tables
          /\ \A i \in 1 .. Tiers, d \in Entries : d # e => Promoted(e)[i][d] = tier[i][d]
          /\ \A i \in 1 .. Tiers :
                \/ Promoted(e)[i][e] = tier[i][e]
                \/ /\ Peek(e) # Missing /\ Promoted(e)[i][e] = Peek(e)
                   /\ \E k \in i .. Tiers : tier[k][e] = Peek(e)
          /\ \A i \in 1 .. Tiers : Promoted(e)[i][e] = Missing => tier[i][e] = Missing
          /\ Peek(e) # Missing => \A i \in 1 .. Tiers :
                tier[i][e] = Missing /\ Promoted(e)[i][e] # Missing => Promoted(e)[i][e] = Peek(e)
<1> USE ConstantsAssumption
<1>1. Peek(e) \in Slots
  BY PeekFacts
<1>2. tier \in Tables
  BY DEF TypeOK, Tables, Slots
<1>3. CASE HasRecord(e)
  <2> DEFINE n == TopTier(e)
  <2>1. n \in 1 .. Tiers /\ tier[n][e] # Missing /\ \A j \in 1 .. n - 1 : tier[j][e] = Missing
    BY <1>3, TopTierFacts
  <2>2. Peek(e) = tier[n][e]
    BY <1>3 DEF Peek
  <2>3. Promoted(e) = [i \in 1 .. Tiers |-> IF i < n THEN [tier[i] EXCEPT ![e] = Peek(e)] ELSE tier[i]]
    BY <1>3 DEF Promoted
  <2> HIDE DEF n
  <2>4. \A i \in 1 .. Tiers : tier[i] \in [Entries -> Slots]
    BY <1>2 DEF Tables
  <2>5. \A i \in 1 .. Tiers : [tier[i] EXCEPT ![e] = Peek(e)] \in [Entries -> Slots]
    BY <2>4, <1>1
  <2>6. Promoted(e) \in Tables
    BY <2>3, <2>4, <2>5 DEF Tables
  <2>7. \A i \in 1 .. Tiers, d \in Entries : d # e => Promoted(e)[i][d] = tier[i][d]
    BY <2>3, <2>4
  <2>8. \A i \in 1 .. Tiers : Promoted(e)[i][e] = IF i < n THEN Peek(e) ELSE tier[i][e]
    BY <2>3, <2>4
  <2> QED BY <2>1, <2>2, <2>6, <2>7, <2>8
<1>4. CASE ~ HasRecord(e)
  <2>1. \A i \in 1 .. Tiers : Promoted(e)[i] = tier[i]
    BY <1>4 DEF Promoted
  <2>2. Promoted(e) \in Tables
    BY <1>2, <1>4 DEF Promoted, Tables
  <2>3. Peek(e) = Missing
    BY <1>4 DEF Peek
  <2> QED BY <2>1, <2>2, <2>3
<1> QED BY <1>3, <1>4

\* A write of the tiers from i down.
LEMMA WrittenFacts ==
    ASSUME TypeOK, NEW e \in Entries, NEW r \in Record, NEW i \in Nat
    PROVE /\ Written(e, r, i) \in Tables
          /\ \A j \in 1 .. Tiers, d \in Entries : d # e => Written(e, r, i)[j][d] = tier[j][d]
          /\ \A j \in 1 .. Tiers : Written(e, r, i)[j][e] = IF j >= i THEN r ELSE tier[j][e]
<1>1. tier \in Tables
  BY DEF TypeOK, Tables, Slots
<1>2. \A j \in 1 .. Tiers : [tier[j] EXCEPT ![e] = r] \in [Entries -> Slots]
  BY <1>1 DEF Tables, Slots
<1>3. Written(e, r, i) \in Tables
  BY <1>1, <1>2, ConstantsAssumption DEF Written, Tables
<1> QED BY <1>1, <1>2, <1>3, ConstantsAssumption DEF Written, Tables

\* A drop leaves at most the record each failing tier had, or the one promoted to it.
LEMMA DeletedFacts ==
    ASSUME TypeOK, NEW e \in Entries, NEW kept \in SUBSET (1 .. Tiers)
    PROVE /\ Deleted(e, kept) \in Tables
          /\ \A j \in 1 .. Tiers, d \in Entries : d # e => Deleted(e, kept)[j][d] = tier[j][d]
          /\ \A j \in 1 .. Tiers : Deleted(e, kept)[j][e] =
                IF j \in kept THEN Promoted(e)[j][e] ELSE Missing
<1>1. tier \in Tables
  BY DEF TypeOK, Tables, Slots
<1>2. Promoted(e) \in Tables
      /\ \A j \in 1 .. Tiers, d \in Entries : d # e => Promoted(e)[j][d] = tier[j][d]
  BY PromotedFacts
<1>3. \A j \in 1 .. Tiers : [tier[j] EXCEPT ![e] = Missing] \in [Entries -> Slots]
  BY <1>1 DEF Tables, Slots
<1>4. \A j \in 1 .. Tiers : Promoted(e)[j] \in [Entries -> Slots]
  BY <1>2 DEF Tables
<1>5. Deleted(e, kept) = [j \in 1 .. Tiers |->
          IF j \in kept THEN Promoted(e)[j] ELSE [tier[j] EXCEPT ![e] = Missing]]
  BY DEF Deleted
<1>6. Deleted(e, kept) \in Tables
  BY <1>3, <1>4, <1>5 DEF Tables
<1> QED BY <1>1, <1>2, <1>4, <1>5, <1>6 DEF Tables

\* A stack with one more frame, with one less, and with another frame on top.
LEMMA PushFacts ==
    ASSUME NEW s \in Seq(Frame), NEW f \in Frame
    PROVE /\ Append(s, f) \in Seq(Frame) /\ Len(Append(s, f)) = Len(s) + 1
          /\ \A k \in 1 .. Len(s) : Append(s, f)[k] = s[k]
          /\ Append(s, f)[Len(s) + 1] = f /\ Append(s, f) # <<>>
  OBVIOUS

\* A stack without its last frame.
LEMMA PopFacts ==
    ASSUME NEW s \in Seq(Frame), s # <<>>
    PROVE LET b == SubSeq(s, 1, Len(s) - 1) IN
          /\ b \in Seq(Frame) /\ Len(b) = Len(s) - 1 /\ Len(s) \in Nat \ {0}
          /\ \A k \in 1 .. Len(b) : b[k] = s[k]
          /\ (b = <<>> <=> Len(s) = 1)
<1> DEFINE n == Len(s) - 1
<1>1. Len(s) \in Nat \ {0} /\ n \in Nat /\ Len(s) = n + 1
  OBVIOUS
<1>2. \A i \in 1 .. n : s[i] \in Frame
  BY <1>1, ElementOfSeq
<1> HIDE DEF n
<1> DEFINE b == SubSeq(s, 1, n)
<1>3. /\ b \in Seq(Frame) /\ Len(b) = IF 1 <= n THEN n - 1 + 1 ELSE 0
      /\ \A i \in 1 .. n - 1 + 1 : b[i] = s[1 + i - 1]
  BY <1>1, <1>2, SubSeqProperties
<1> HIDE DEF b
<1>4. Len(b) = n
  <2>1. n = 0 \/ 1 <= n
    BY <1>1
  <2> QED BY <1>1, <1>3, <2>1
<1>5. \A k \in 1 .. Len(b) : b[k] = s[k]
  <2>1. ASSUME NEW k \in 1 .. Len(b) PROVE b[k] = s[k]
    <3>1. k \in Int /\ 1 + k - 1 = k /\ k \in 1 .. n - 1 + 1
      BY <1>1, <1>4
    <3> QED BY <1>3, <3>1
  <2> QED BY <2>1
<1>6. b = <<>> <=> n = 0
  BY <1>3, <1>4, EmptySeq
<1>7. /\ b \in Seq(Frame) /\ Len(b) = n /\ Len(s) \in Nat \ {0}
      /\ \A k \in 1 .. Len(b) : b[k] = s[k]
      /\ (b = <<>> <=> Len(s) = 1)
  BY <1>1, <1>3, <1>4, <1>5, <1>6
<1> QED BY <1>7 DEF b, n

\* What is left of a sequence after its i-th element.
LEMMA RestFacts ==
    ASSUME NEW s \in Seq(Entries), NEW i \in 1 .. Len(s)
    PROVE LET b == SubSeq(s, i + 1, Len(s)) IN
          /\ b \in Seq(Entries) /\ Len(b) = Len(s) - i
          /\ \A k \in 1 .. Len(s) - i : b[k] = s[i + k]
<1> DEFINE n == Len(s)
           m == i + 1
<1>1. n \in Nat /\ i \in Nat /\ m \in Int /\ n \in Int /\ i <= n /\ m - 1 = i
  OBVIOUS
<1>2. \A k \in m .. n : s[k] \in Entries
  BY <1>1, ElementOfSeq
<1> HIDE DEF n, m
<1> DEFINE b == SubSeq(s, m, n)
<1>3. /\ b \in Seq(Entries) /\ Len(b) = IF m <= n THEN n - m + 1 ELSE 0
      /\ \A k \in 1 .. n - m + 1 : b[k] = s[m + k - 1]
  BY <1>1, <1>2, SubSeqProperties
<1> HIDE DEF b
<1>4. Len(b) = n - i
  BY <1>1, <1>3
<1>5. ASSUME NEW k \in 1 .. n - i PROVE b[k] = s[i + k]
  <2>1. k \in 1 .. n - m + 1 /\ m + k - 1 = i + k
    BY <1>1
  <2> QED BY <1>3, <2>1
<1> QED BY <1>3, <1>4, <1>5 DEF b, n, m

\* A stack whose last frame is replaced.
LEMMA TopFacts ==
    ASSUME NEW s \in Seq(Frame), s # <<>>, NEW f \in Frame
    PROVE LET b == [s EXCEPT ![Len(s)] = f] IN
          /\ b \in Seq(Frame) /\ Len(b) = Len(s) /\ Len(s) \in Nat \ {0} /\ b # <<>>
          /\ \A k \in 1 .. Len(s) : b[k] = IF k = Len(s) THEN f ELSE s[k]
  OBVIOUS

---------------------------------------------------------------------------
(* The steps, as the caches see them. *)

\* A step of the pane leaves the caches alone, but for the fault it may meet.
Quiet ==
    /\ UNCHANGED <<tier, errors, lock, stack, pc, call, populateLock, populated,
                   floor, now, ops, mode>>
    /\ UNCHANGED faults \/ Fault("peek")
CacheStep ==
    \/ Quiet \/ Tick \/ Restart
    \/ \E t \in Threads : ThreadStep(t) \/ Call(t)

\* Every step of the specification is one of them.
LEMMA StepsOfCaches == WatchedNext \/ UNCHANGED allVars => CacheStep
<1>1. UNCHANGED vars => Quiet
  BY DEF vars, Quiet
<1>2. UNCHANGED allVars => Quiet
  BY DEF allVars, Quiet
<1>3. ASSUME Pane PROVE Quiet
  <2>1. Unobservable => Quiet
    BY DEF Unobservable, Quiet, locks, global, env
  <2>2. Schedule \/ Leave \/ Refresh \/ CloseView \/ (\E e \in Entries : View(e)) => UNCHANGED vars
    BY DEF Schedule, Leave, Refresh, CloseView, View
  <2>3. NextCard \/ PeekEntry \/ Classify \/ Inspected \/ LookAt => UNCHANGED vars
    BY DEF NextCard, PeekEntry, Classify, Inspected, LookAt, Alone
  <2>4. Mount \/ Apply \/ ShowValue \/ EndSession => UNCHANGED vars
    BY DEF Mount, Apply, ShowValue, EndSession, Alone
  <2> QED BY <1>1, <1>3, <2>1, <2>2, <2>3, <2>4 DEF Pane
<1>4. ASSUME NEW t \in Threads, Submit(t) PROVE Call(t)
  <2>1. PICK scope \in {CacheOf[e] : e \in Watching} \cup {"all"}, matches \in SUBSET Entries :
            \E e \in Visible(scope, matches) : Read(t, e) \/ Invalidate(t, {e})
    BY <1>4 DEF Submit
  <2>2. PICK e \in Visible(scope, matches) : Read(t, e) \/ Invalidate(t, {e})
    BY <2>1
  <2>3. e \in Entries
    BY <2>2 DEF Visible
  <2>4. {e} \in SUBSET Entries /\ {e} # {}
    BY <2>3
  <2> QED BY <2>2, <2>3, <2>4 DEF Call
<1> QED BY <1>2, <1>3, <1>4 DEF WatchedNext, CacheStep

\* The types of what the pane keeps.
Seens == [state : {"none", "peeked", "computing", "unobservable", "warm", "errored", "cold", "stale"},
          error : {"none", "load", "delete"}, value : Slots, since : 0 .. MaxNow]
Workers ==
    [kind : {"none", "due", "refresh", "mounting", "view"}, goal : Entries,
     step : {"peek", "classify", "value"}, card : Seq(Entries), todo : Seq(Entries),
     cards : Seq(Seq(Entries)), seen : [Entries -> Seens]]
PaneTypes ==
    /\ rows \in [Entries -> Seens] /\ modal \in Seens /\ worker \in Workers
    /\ dying \in BOOLEAN /\ ended \in BOOLEAN

\* The call of a thread that serves nobody is well typed.
LEMMA NoCallType == NoCall \in Calls
<1>1. Topological[1] \in Entries
  <2>1. Topological \in Seq(Entries) /\ Topological # <<>>
    BY ConstantsAssumption
  <2>2. 1 \in 1 .. Len(Topological)
    BY <2>1, EmptySeq
  <2> QED BY <2>1, <2>2, ElementOfSeq
<1>2. 0 \in 0 .. MaxNow /\ <<>> \in Seq(Entries) /\ {} \in SUBSET Entries
  BY ConstantsAssumption
<1> QED BY <1>1, <1>2 DEF NoCall, Calls

\* A frame that took a value is a frame, and waits for less.
LEMMA TakenFrame ==
    ASSUME NEW f \in Frame, f.left # <<>>, NEW r \in Record
    PROVE LET g == [f EXCEPT !.left = Tail(f.left), !.gen = Older(f.gen, r.gen)] IN
          /\ g \in Frame /\ g.entry = f.entry /\ g.left = Tail(f.left)
          /\ g.gen = Older(f.gen, r.gen)
<1> DEFINE g == [f EXCEPT !.left = Tail(f.left), !.gen = Older(f.gen, r.gen)]
<1>1. f.left \in Seq(Entries) /\ f.entry \in Entries /\ f.gen \in 0 .. MaxNow /\ r.gen \in 0 .. MaxNow
  BY DEF Frame, Record
<1>2. Tail(f.left) \in Seq(Entries)
  BY <1>1, HeadTailProperties
<1>3. Older(f.gen, r.gen) \in 0 .. MaxNow
  BY <1>1 DEF Older
<1>4. g \in [entry : {f.entry}, left : {Tail(f.left)}, gen : {Older(f.gen, r.gen)}]
  BY DEF Frame
<1> QED BY <1>1, <1>2, <1>3, <1>4 DEF Frame

\* A value that is delivered keeps the types: the loader around the read takes it, or
\* the call has it.
LEMMA DeliverTypes ==
    ASSUME TypeOK, NEW t \in Threads, NEW st \in Seq(Frame), NEW r \in Record,
           st # <<>> => st[Len(st)].left # <<>>, Deliver(t, st, r)
    PROVE /\ stack' \in [Threads -> Seq(Frame)] /\ call' \in [Threads -> Calls]
          /\ pc' \in [Threads -> {"idle", "enter", "load", "raise", "record", "drop", "populate"}]
<1>1. CASE st = <<>>
  <2>1. stack' = [stack EXCEPT ![t] = st] /\ call' = [call EXCEPT ![t].got = r]
        /\ Goto(t, IF call[t].kind = "init" THEN "populate" ELSE "record")
    BY <1>1 DEF Deliver
  <2>2. [call[t] EXCEPT !.got = r] \in Calls
    <3>1. call[t] \in Calls /\ r \in Record \cup {Missing}
      BY DEF TypeOK
    <3> QED BY <3>1 DEF Calls
  <2> QED BY <2>1, <2>2 DEF TypeOK, Goto
<1>2. CASE st # <<>>
  <2> DEFINE top == st[Len(st)]
             new == [top EXCEPT !.left = Tail(top.left), !.gen = Older(top.gen, r.gen)]
  <2>1. stack' = [stack EXCEPT ![t] = [st EXCEPT ![Len(st)] = new]]
        /\ UNCHANGED call /\ Goto(t, "load")
    BY <1>2 DEF Deliver
  <2>2. Len(st) \in 1 .. Len(st) /\ top \in Frame
    BY <1>2, EmptySeq, ElementOfSeq
  <2>3. new \in Frame
    BY <1>2, <2>2, TakenFrame
  <2>4. [st EXCEPT ![Len(st)] = new] \in Seq(Frame)
    <3> HIDE DEF new, top
    <3> QED BY <1>2, <2>3, TopFacts
  <2> QED BY <2>1, <2>4 DEF TypeOK, Goto
<1> QED BY <1>1, <1>2

\* The frame on top of a stack.
LEMMA TopIsFrame ==
    ASSUME TypeOK, NEW t \in Threads, stack[t] # <<>>
    PROVE /\ stack[t] \in Seq(Frame) /\ Len(stack[t]) \in 1 .. Len(stack[t])
          /\ Len(stack[t]) \in Nat \ {0} /\ Top(t) \in Frame
          /\ Top(t).entry \in Entries /\ Top(t).gen \in 0 .. MaxNow /\ Top(t).left \in Seq(Entries)
<1>1. stack[t] \in Seq(Frame)
  BY DEF TypeOK
<1>2. Len(stack[t]) \in 1 .. Len(stack[t]) /\ Len(stack[t]) \in Nat \ {0}
  BY <1>1, EmptySeq
<1>3. Top(t) \in Frame
  BY <1>1, <1>2, ElementOfSeq DEF Top
<1> QED BY <1>1, <1>2, <1>3 DEF Frame

\* What is below the top: a stack whose own top waits for the entry above it.
LEMMA BelowFacts ==
    ASSUME TypeOK, ChainInv, NEW t \in Threads, stack[t] # <<>>
    PROVE /\ Below(t) \in Seq(Frame) /\ Len(Below(t)) = Len(stack[t]) - 1
          /\ Len(stack[t]) \in Nat \ {0} /\ Len(Below(t)) \in Nat
          /\ \A k \in 1 .. Len(Below(t)) : Below(t)[k] = stack[t][k]
          /\ (Below(t) = <<>> <=> Len(stack[t]) = 1)
          /\ Below(t) # <<>> => Awaits(Below(t)[Len(Below(t))], Top(t).entry)
<1>1. stack[t] \in Seq(Frame)
  BY DEF TypeOK
<1>2. /\ Below(t) \in Seq(Frame) /\ Len(Below(t)) = Len(stack[t]) - 1
      /\ Len(stack[t]) \in Nat \ {0} /\ Len(Below(t)) \in Nat
      /\ \A k \in 1 .. Len(Below(t)) : Below(t)[k] = stack[t][k]
      /\ (Below(t) = <<>> <=> Len(stack[t]) = 1)
  BY <1>1, PopFacts DEF Below
<1>3. ASSUME Below(t) # <<>> PROVE Awaits(Below(t)[Len(Below(t))], Top(t).entry)
  <2> DEFINE n == Len(stack[t]) - 1
  <2>1. n \in 1 .. Len(stack[t]) - 1 /\ n \in 1 .. Len(Below(t)) /\ n + 1 = Len(stack[t])
    BY <1>2, <1>3
  <2>2. Awaits(stack[t][n], stack[t][n + 1].entry)
    BY <2>1 DEF ChainInv, ChainAt, Chained
  <2> QED BY <1>2, <2>1, <2>2 DEF Top
<1> QED BY <1>2, <1>3

\* The steps of a thread keep the types of the caches.
LEMMA ThreadTypes ==
    ASSUME TypeOK, ChainInv, NEW t \in Threads, ThreadStep(t)
    PROVE TypeOK'
<1> USE DEF Goto
<1>1. call[t] \in Calls /\ call[t].goal \in Entries /\ call[t].todo \in Seq(Entries)
      /\ floor \in [Entries -> 0 .. MaxNow] /\ stack[t] \in Seq(Frame)
  BY DEF TypeOK, Calls
<1>2. CASE PopulateNext(t)
  <2> DEFINE left == call[t].todo
             new == [call[t] EXCEPT !.goal = Head(left), !.todo = Tail(left), !.due = floor[Head(left)]]
  <2>1. left # <<>>
    BY <1>2 DEF PopulateNext
  <2>2. Head(left) \in Entries /\ Tail(left) \in Seq(Entries)
    BY <1>1, <2>1, HeadTailProperties
  <2>3. floor[Head(left)] \in 0 .. MaxNow
    BY <1>1, <2>2
  <2>4. new \in Calls
    BY <1>1, <2>2, <2>3 DEF Calls
  <2>5. call' = [call EXCEPT ![t] = new]
    BY <1>2 DEF PopulateNext
  <2>6. call' \in [Threads -> Calls]
    BY <2>4, <2>5 DEF TypeOK
  <2> QED BY <1>2, <2>6 DEF PopulateNext, TypeOK, locks, global, env
<1>3. CASE PopulateDone(t)
  BY <1>3, NoCallType DEF PopulateDone, Return, TypeOK, locks, env
<1>4. CASE Serve(t)
  <2> DEFINE e == call[t].goal
  <2>1. EntryState(e) = "warm" /\ pc[t] = "enter" /\ tier' = Promoted(e)
        /\ errors' = [errors EXCEPT ![e] = "none"] /\ Deliver(t, stack[t], Peek(e))
        /\ UNCHANGED <<lock, floor, ops, faults, global, env>>
    BY <1>4 DEF Serve
  <2>2. Peek(e) # Missing
    BY <2>1 DEF EntryState
  <2>3. Peek(e) \in Record
    BY <1>1, <2>2, PeekFacts DEF Slots
  <2>4. stack[t] # <<>> => stack[t][Len(stack[t])].left # <<>>
    BY <2>1 DEF ChainInv, ChainAt, Awaits, Top
  <2>5. /\ stack' \in [Threads -> Seq(Frame)] /\ call' \in [Threads -> Calls]
        /\ pc' \in [Threads -> {"idle", "enter", "load", "raise", "record", "drop", "populate"}]
    BY <1>1, <2>1, <2>3, <2>4, DeliverTypes
  <2>6. tier' \in Tables
    BY <1>1, <2>1, PromotedFacts
  <2> QED BY <2>1, <2>5, <2>6 DEF TypeOK, Tables, Slots, global, env
<1>5. CASE StartLoader(t)
  <2> DEFINE e == call[t].goal
             f == [entry |-> e, left |-> LoaderReads[e], gen |-> now]
  <2>1. LoaderReads[e] \in Seq(Entries) /\ now \in 0 .. MaxNow
    BY <1>1, ConstantsAssumption DEF TypeOK
  <2>2. f \in Frame
    BY <1>1, <2>1 DEF Frame
  <2>3. Append(stack[t], f) \in Seq(Frame)
    BY <1>1, <2>2, PushFacts
  <2>4. tier' \in Tables
    BY <1>1, <1>5, PromotedFacts DEF StartLoader
  <2>5. stack' \in [Threads -> Seq(Frame)]
    BY <1>5, <2>3 DEF StartLoader, TypeOK
  <2> QED BY <1>5, <2>4, <2>5 DEF StartLoader, TypeOK, Tables, Slots, global, env
<1>6. CASE Reenter(t)
  BY <1>6 DEF Reenter, TypeOK, locks, global, env
<1>7. CASE LoaderRead(t)
  <2>1. stack[t] # <<>> /\ Top(t).left # <<>>
    BY <1>7 DEF LoaderRead, ChainInv, ChainAt
  <2>2. Head(Top(t).left) \in Entries
    BY <2>1, TopIsFrame, HeadTailProperties
  <2>3. [call[t] EXCEPT !.goal = Head(Top(t).left)] \in Calls
    BY <1>1, <2>2 DEF Calls
  <2>4. call' \in [Threads -> Calls]
    BY <1>7, <2>3 DEF LoaderRead, TypeOK
  <2> QED BY <1>7, <2>4 DEF LoaderRead, TypeOK, locks, global, env
<1>8. CASE LoaderFails(t)
  BY <1>8, ConstantsAssumption DEF LoaderFails, Fault, TypeOK, locks, global, env
<1>9. CASE Store(t)
  <2> DEFINE e == Top(t).entry
             r == [gen |-> Top(t).gen, at |-> now]
  <2>1. stack[t] # <<>>
    BY <1>9 DEF Store, ChainInv, ChainAt
  <2>2. e \in Entries /\ r \in Record
    BY <2>1, TopIsFrame DEF Record, TypeOK
  <2>3. Below(t) \in Seq(Frame) /\ (Below(t) # <<>> => Below(t)[Len(Below(t))].left # <<>>)
    BY <2>1, BelowFacts DEF Awaits
  <2>4. lock' \in [Entries -> Threads \cup {Free}] /\ UNCHANGED <<floor, ops, global, env>>
    BY <1>9 DEF Store, TypeOK
  <2>5. CASE /\ tier' = Written(e, r, 1) /\ errors' = [errors EXCEPT ![e] = "none"]
             /\ Deliver(t, Below(t), r) /\ UNCHANGED faults
    <3>1. tier' \in Tables
      BY <2>2, <2>5, WrittenFacts
    <3>2. /\ stack' \in [Threads -> Seq(Frame)] /\ call' \in [Threads -> Calls]
          /\ pc' \in [Threads -> {"idle", "enter", "load", "raise", "record", "drop", "populate"}]
      <4> HIDE DEF r
      <4> QED BY <2>2, <2>3, <2>5, DeliverTypes
    <3> QED BY <2>4, <2>5, <3>1, <3>2 DEF TypeOK, Tables, Slots, global, env
  <2>6. CASE /\ Fault("write") /\ (\E i \in 2 .. Tiers + 1 : tier' = Written(e, r, i))
             /\ stack' = [stack EXCEPT ![t] = Below(t)] /\ Goto(t, "raise")
             /\ UNCHANGED <<errors, call>>
    <3>1. tier' \in Tables
      <4>1. PICK i \in 2 .. Tiers + 1 : tier' = Written(e, r, i)
        BY <2>6
      <4>2. i \in Nat
        BY ConstantsAssumption
      <4> HIDE DEF r, e
      <4> QED BY <2>2, <4>1, <4>2, WrittenFacts
    <3>2. faults' \in 0 .. MaxFaults
      BY <2>6, ConstantsAssumption DEF Fault, TypeOK
    <3>3. stack' \in [Threads -> Seq(Frame)]
      BY <2>3, <2>6 DEF TypeOK
    <3> QED BY <2>4, <2>6, <3>1, <3>2, <3>3 DEF TypeOK, Tables, Slots, global, env
  <2> QED BY <1>9, <2>5, <2>6 DEF Store
<1>10. CASE Unwind(t)
  <2>1. stack[t] # <<>>
    BY <1>10 DEF Unwind
  <2>2. Below(t) \in Seq(Frame) /\ Top(t).entry \in Entries
    BY <2>1, BelowFacts, TopIsFrame
  <2>3. stack' \in [Threads -> Seq(Frame)]
    BY <1>10, <2>2 DEF Unwind, TypeOK
  <2>4. errors' \in [Entries -> {"none", "load", "delete"}] /\ lock' \in [Entries -> Threads \cup {Free}]
    BY <1>10, <2>2 DEF Unwind, TypeOK
  <2> QED BY <1>10, <2>3, <2>4 DEF Unwind, TypeOK, global, env
<1>11. CASE Raise(t)
  BY <1>11, NoCallType DEF Raise, Return, TypeOK, locks, global, env
<1>12. CASE RecordRead(t)
  BY <1>12, NoCallType DEF RecordRead, Return, TypeOK, locks, global, env
<1>13. CASE DropOne(t)
  <2>1. PICK i \in 1 .. Len(call[t].todo) :
          LET e == call[t].todo[i]
              renewed == e \in Renewed(call[t].drops) /\ floor[e] < call[t].due
          IN
          /\ pc[t] = "drop" /\ NextDrop(call[t], i) /\ lock[e] = Free
          /\ \/ /\ tier' = Deleted(e, {})
                /\ UNCHANGED <<errors, faults>>
             \/ /\ Fault("delete")
                /\ \E kept \in (SUBSET (1 .. Tiers)) \ {{}} : tier' = Deleted(e, kept)
                /\ errors' = [errors EXCEPT ![e] = "delete"]
          /\ call' = [call EXCEPT ![t].todo = SubSeq(@, i + 1, Len(@))]
          /\ floor' = IF renewed THEN [floor EXCEPT ![e] = call[t].due] ELSE floor
          /\ UNCHANGED <<pc, ops, locks, global, env>>
    BY <1>13 DEF DropOne
  <2> DEFINE e == call[t].todo[i]
  <2>2. e \in Entries
    BY <1>1, ElementOfSeq
  <2>3. tier' \in Tables
    BY <2>1, <2>2, DeletedFacts
  <2>4. errors' \in [Entries -> {"none", "load", "delete"}] /\ faults' \in 0 .. MaxFaults
    <3>1. CASE UNCHANGED <<errors, faults>>
      BY <3>1 DEF TypeOK
    <3>2. CASE Fault("delete") /\ errors' = [errors EXCEPT ![e] = "delete"]
      <4>1. faults' = faults + 1 /\ faults < MaxFaults /\ faults \in 0 .. MaxFaults /\ MaxFaults \in Nat
        BY <3>2, ConstantsAssumption DEF Fault, TypeOK
      <4>2. errors' \in [Entries -> {"none", "load", "delete"}]
        BY <3>2 DEF TypeOK
      <4> QED BY <4>1, <4>2
    <3> QED BY <2>1, <3>1, <3>2
  <2>5. SubSeq(call[t].todo, i + 1, Len(call[t].todo)) \in Seq(Entries)
    <3>1. \A k \in i + 1 .. Len(call[t].todo) : call[t].todo[k] \in Entries
      BY <1>1, ElementOfSeq
    <3>2. i + 1 \in Int /\ Len(call[t].todo) \in Int
      BY <1>1
    <3> QED BY <3>1, <3>2, SubSeqProperties
  <2>6. call' \in [Threads -> Calls]
    <3>1. [call[t] EXCEPT !.todo = SubSeq(call[t].todo, i + 1, Len(call[t].todo))] \in Calls
      BY <1>1, <2>5 DEF Calls
    <3> QED BY <2>1, <3>1 DEF TypeOK
  <2>7. floor' \in [Entries -> 0 .. MaxNow]
    <3>1. call[t].due \in 0 .. MaxNow
      BY <1>1 DEF Calls
    <3> QED BY <1>1, <2>1, <3>1
  <2> QED BY <2>1, <2>3, <2>4, <2>6, <2>7 DEF TypeOK, Tables, Slots, locks, global, env
<1>14. CASE DropDone(t)
  <2>1. [call[t] EXCEPT !.todo = Eager] \in Calls
    BY <1>1, ConstantsAssumption DEF Calls
  <2>2. call' \in [Threads -> Calls]
    BY <1>14, <2>1, NoCallType DEF DropDone, Return, TypeOK
  <2>3. pc' \in [Threads -> {"idle", "enter", "load", "raise", "record", "drop", "populate"}]
    BY <1>14 DEF DropDone, Return, TypeOK
  <2> QED BY <1>14, <2>2, <2>3 DEF DropDone, TypeOK, locks, global, env
<1> QED BY <1>2, <1>3, <1>4, <1>5, <1>6, <1>7, <1>8, <1>9, <1>10, <1>11, <1>12, <1>13, <1>14
        DEF ThreadStep

\* So do the calls.
LEMMA CallTypes ==
    ASSUME TypeOK, NEW t \in Threads, Call(t)
    PROVE TypeOK'
<1>1. NoCall \in Calls /\ floor \in [Entries -> 0 .. MaxNow] /\ now \in 0 .. MaxNow
      /\ CascadeOrder \in Seq(Entries) /\ Eager \in Seq(Entries) /\ MaxOps \in Nat
  BY NoCallType, ConstantsAssumption DEF TypeOK, CascadeOrder
<1>2. ASSUME NEW c \in Calls, NEW where \in {"enter", "drop", "populate"}, Begin(t, where, c)
      PROVE /\ call' \in [Threads -> Calls] /\ ops' \in 0 .. MaxOps
            /\ pc' \in [Threads -> {"idle", "enter", "load", "raise", "record", "drop", "populate"}]
  BY <1>1, <1>2 DEF Begin, Goto, TypeOK
<1>3. ASSUME NEW e \in Entries, Read(t, e) PROVE TypeOK'
  <2> DEFINE c == [NoCall EXCEPT !.kind = "read", !.goal = e, !.todo = <<e>>, !.due = floor[e]]
  <2>1. <<e>> \in Seq(Entries) /\ floor[e] \in 0 .. MaxNow
    BY <1>1
  <2>2. c \in Calls
    BY <1>1, <2>1 DEF Calls
  <2>3. Begin(t, "enter", c)
    BY <1>3 DEF Read
  <2> HIDE DEF c
  <2>4. /\ call' \in [Threads -> Calls] /\ ops' \in 0 .. MaxOps
        /\ pc' \in [Threads -> {"idle", "enter", "load", "raise", "record", "drop", "populate"}]
    BY <1>2, <2>2, <2>3
  <2> QED BY <1>3, <2>4 DEF Read, TypeOK, locks, global, env
<1>4. ASSUME NEW names \in SUBSET Entries, Invalidate(t, names) PROVE TypeOK'
  <2> DEFINE c == [NoCall EXCEPT !.kind = "drop", !.todo = CascadeOrder, !.due = now, !.drops = Closure(names)]
  <2>1. Closure(names) \in SUBSET Entries
    BY DEF Closure
  <2>2. c \in Calls
    BY <1>1, <2>1 DEF Calls
  <2>3. Begin(t, "drop", c)
    BY <1>4 DEF Invalidate
  <2> HIDE DEF c
  <2>4. /\ call' \in [Threads -> Calls] /\ ops' \in 0 .. MaxOps
        /\ pc' \in [Threads -> {"idle", "enter", "load", "raise", "record", "drop", "populate"}]
    BY <1>2, <2>2, <2>3
  <2> QED BY <1>4, <2>4 DEF Invalidate, TypeOK, locks, global, env
<1>5. ASSUME Initialize(t) PROVE TypeOK'
  <2> DEFINE c == [NoCall EXCEPT !.kind = "init", !.todo = CascadeOrder, !.due = now, !.drops = Entries]
             d == [NoCall EXCEPT !.kind = "init", !.todo = Eager]
  <2>1. c \in Calls /\ d \in Calls
    BY <1>1 DEF Calls
  <2>2. Begin(t, "drop", c) \/ Begin(t, "populate", d)
    BY <1>5 DEF Initialize
  <2> HIDE DEF c, d
  <2>3. /\ call' \in [Threads -> Calls] /\ ops' \in 0 .. MaxOps
        /\ pc' \in [Threads -> {"idle", "enter", "load", "raise", "record", "drop", "populate"}]
    BY <1>2, <2>1, <2>2
  <2>4. populateLock' \in Threads \cup {Free}
    BY <1>5 DEF Initialize
  <2> QED BY <1>5, <2>3, <2>4 DEF Initialize, TypeOK, locks, global, env
<1> QED BY <1>3, <1>4, <1>5 DEF Call

\* Every step keeps the types of the caches.
LEMMA CacheTypes ==
    ASSUME TypeOK, ChainInv, CacheStep
    PROVE TypeOK'
<1>1. CASE Quiet
  <2>1. faults' \in 0 .. MaxFaults
    BY <1>1, ConstantsAssumption DEF Quiet, Fault, TypeOK
  <2> QED BY <1>1, <2>1 DEF Quiet, TypeOK
<1>2. CASE Tick
  <2>1. now' \in 1 .. MaxNow
    BY <1>2, ConstantsAssumption DEF Tick, TypeOK
  <2> QED BY <1>2, <2>1 DEF Tick, TypeOK, locks, global, env
<1>3. CASE Restart
  <2>1. tier' \in Tables
    BY <1>3, ConstantsAssumption DEF Restart, TypeOK, Tables, Slots
  <2>2. faults' \in 0 .. MaxFaults
    BY <1>3, ConstantsAssumption DEF Restart, Fault, TypeOK
  <2>3. call' \in [Threads -> Calls]
    BY <1>3, NoCallType DEF Restart
  <2>4. stack' \in [Threads -> Seq(Frame)]
    BY <1>3, EmptySeq DEF Restart
  <2> QED BY <1>3, <2>1, <2>2, <2>3, <2>4 DEF Restart, TypeOK, Tables, Slots, env
<1> QED BY <1>1, <1>2, <1>3, ThreadTypes, CallTypes DEF CacheStep

---------------------------------------------------------------------------
(* The chains of loaders. *)

\* A step of a thread leaves the other threads where they are.
LEMMA OthersStay ==
    ASSUME TypeOK, NEW t \in Threads, ThreadStep(t) \/ Call(t), NEW u \in Threads, u # t
    PROVE stack'[u] = stack[u] /\ pc'[u] = pc[u] /\ call'[u] = call[u]
<1> USE DEF Goto, Return, TypeOK
<1>1. ASSUME NEW st, NEW r, Deliver(t, st, r)
      PROVE stack'[u] = stack[u] /\ pc'[u] = pc[u] /\ call'[u] = call[u]
  BY <1>1 DEF Deliver
<1>2. PopulateNext(t) \/ PopulateDone(t) => stack'[u] = stack[u] /\ pc'[u] = pc[u] /\ call'[u] = call[u]
  BY DEF PopulateNext, PopulateDone, locks
<1>3. Serve(t) => stack'[u] = stack[u] /\ pc'[u] = pc[u] /\ call'[u] = call[u]
  BY <1>1 DEF Serve
<1>4. StartLoader(t) \/ Reenter(t) \/ LoaderRead(t) \/ LoaderFails(t) =>
          stack'[u] = stack[u] /\ pc'[u] = pc[u] /\ call'[u] = call[u]
  BY DEF StartLoader, Reenter, LoaderRead, LoaderFails, locks
<1>5. Store(t) => stack'[u] = stack[u] /\ pc'[u] = pc[u] /\ call'[u] = call[u]
  BY <1>1 DEF Store
<1>6. Unwind(t) \/ Raise(t) \/ RecordRead(t) => stack'[u] = stack[u] /\ pc'[u] = pc[u] /\ call'[u] = call[u]
  BY DEF Unwind, Raise, RecordRead, locks
<1>7. DropOne(t) \/ DropDone(t) => stack'[u] = stack[u] /\ pc'[u] = pc[u] /\ call'[u] = call[u]
  BY DEF DropOne, DropDone, locks
<1>8. ASSUME NEW where, NEW c, Begin(t, where, c) PROVE pc'[u] = pc[u] /\ call'[u] = call[u]
  BY <1>8 DEF Begin
<1>9. Call(t) => stack'[u] = stack[u] /\ pc'[u] = pc[u] /\ call'[u] = call[u]
  BY <1>8 DEF Call, Read, Invalidate, Initialize, locks
<1> QED BY <1>2, <1>3, <1>4, <1>5, <1>6, <1>7, <1>9 DEF ThreadStep

\* What is below the top of a chain is a chain.
LEMMA PopChained ==
    ASSUME NEW s \in Seq(Frame), s # <<>>, Chained(s)
    PROVE Chained(SubSeq(s, 1, Len(s) - 1))
<1> DEFINE b == SubSeq(s, 1, Len(s) - 1)
<1>1. Len(b) = Len(s) - 1 /\ Len(s) \in Nat \ {0} /\ \A k \in 1 .. Len(b) : b[k] = s[k]
  BY PopFacts
<1>2. \A k \in 1 .. Len(b) : k \in 1 .. Len(s)
  BY <1>1
<1> HIDE DEF b
<1>3. \A k \in 1 .. Len(b) - 1 : Awaits(b[k], b[k + 1].entry)
  <2>1. ASSUME NEW k \in 1 .. Len(b) - 1 PROVE Awaits(b[k], b[k + 1].entry)
    <3>1. k \in 1 .. Len(b) /\ k + 1 \in 1 .. Len(b) /\ k \in 1 .. Len(s) - 1
      BY <1>1
    <3> QED BY <1>1, <3>1 DEF Chained
  <2> QED BY <2>1
<1>4. Chained(b)
  BY <1>1, <1>2, <1>3 DEF Chained
<1> QED BY <1>4 DEF b

\* A loader on top of the one that waits for its entry makes a longer chain.
LEMMA PushChained ==
    ASSUME NEW s \in Seq(Frame), Chained(s), NEW e \in Entries, NEW n \in 0 .. MaxNow,
           s # <<>> => Awaits(s[Len(s)], e), \A k \in 1 .. Len(s) : s[k].entry # e
    PROVE Chained(Append(s, [entry |-> e, left |-> LoaderReads[e], gen |-> n]))
<1> DEFINE f == [entry |-> e, left |-> LoaderReads[e], gen |-> n]
           b == Append(s, f)
<1>1. f \in Frame
  BY ConstantsAssumption DEF Frame
<1>2. Len(b) = Len(s) + 1 /\ Len(s) \in Nat /\ b[Len(s) + 1] = f /\ \A k \in 1 .. Len(s) : b[k] = s[k]
  <2> HIDE DEF f
  <2> QED BY <1>1, PushFacts
<1>3. f.entry = e /\ f.left = LoaderReads[e]
  OBVIOUS
<1>4. \A i \in 1 .. Len(f.left) : f.left[i] \in Reads(e)
  BY DEF Reads
<1>5. e \in Cyclic => \E i \in 1 .. Len(f.left) : f.left[i] \in Cyclic
  <2>1. ASSUME e \in Cyclic PROVE \E i \in 1 .. Len(LoaderReads[e]) : LoaderReads[e][i] \in Cyclic
    <3>1. PICK S \in SUBSET Entries : Circular(S) /\ e \in S
      BY <2>1 DEF Cyclic
    <3>2. PICK x \in Reads(e) : x \in S
      BY <3>1 DEF Circular
    <3>3. x \in Cyclic
      BY <3>1, <3>2 DEF Cyclic
    <3> QED BY <3>2, <3>3 DEF Reads
  <2> QED BY <2>1
<1> HIDE DEF b, f
<1>6. \A k \in 1 .. Len(b) : k \in 1 .. Len(s) \/ k = Len(s) + 1
  BY <1>2
<1>7. \A k \in 1 .. Len(b) - 1 : Awaits(b[k], b[k + 1].entry)
  <2>1. ASSUME NEW k \in 1 .. Len(b) - 1 PROVE Awaits(b[k], b[k + 1].entry)
    <3>1. CASE k = Len(s)
      <4>1. s # <<>> /\ k \in 1 .. Len(s)
        BY <1>2, <3>1
      <4> QED BY <1>2, <1>3, <3>1, <4>1
    <3>2. CASE k # Len(s)
      <4>1. k \in 1 .. Len(s) - 1 /\ k \in 1 .. Len(s) /\ k + 1 \in 1 .. Len(s)
        BY <1>2, <3>2
      <4> QED BY <1>2, <4>1 DEF Chained
    <3> QED BY <3>1, <3>2
  <2> QED BY <2>1
<1>8. \A j, k \in 1 .. Len(b) : b[j].entry = b[k].entry => j = k
  BY <1>2, <1>3, <1>6 DEF Chained
<1>9. \A k \in 1 .. Len(b) : \A i \in 1 .. Len(b[k].left) : b[k].left[i] \in Reads(b[k].entry)
  BY <1>2, <1>3, <1>4, <1>6 DEF Chained
<1>10. \A k \in 1 .. Len(b) : b[k].entry \in Cyclic =>
          \E i \in 1 .. Len(b[k].left) : b[k].left[i] \in Cyclic
  BY <1>2, <1>3, <1>5, <1>6 DEF Chained
<1>11. Chained(b)
  BY <1>7, <1>8, <1>9, <1>10 DEF Chained
<1> QED BY <1>11 DEF b, f

\* The innermost loader of a chain took the value it waited for.
LEMMA TakeChained ==
    ASSUME NEW s \in Seq(Frame), s # <<>>, Chained(s), NEW g \in Frame, NEW e \in Entries \ Cyclic,
           Awaits(s[Len(s)], e), g.entry = s[Len(s)].entry, g.left = Tail(s[Len(s)].left)
    PROVE Chained([s EXCEPT ![Len(s)] = g])
<1> DEFINE n == Len(s)
           top == s[n]
           b == [s EXCEPT ![n] = g]
<1>1. Len(b) = n /\ n \in Nat \ {0} /\ \A k \in 1 .. n : b[k] = IF k = n THEN g ELSE s[k]
  BY TopFacts
<1>2. top.left \in Seq(Entries) /\ top.left # <<>> /\ Head(top.left) = e
  <2>1. top \in Frame
    BY <1>1, ElementOfSeq
  <2> QED BY <2>1 DEF Frame, Awaits
<1>3. \A i \in 1 .. Len(g.left) : i + 1 \in 1 .. Len(top.left) /\ g.left[i] = top.left[i + 1]
  <2>1. Len(g.left) = Len(top.left) - 1 /\ Len(top.left) \in Nat
        /\ \A i \in 1 .. Len(g.left) : g.left[i] = top.left[i + 1]
    BY <1>2, HeadTailProperties
  <2> QED BY <2>1
<1>4. \A i \in 1 .. Len(top.left) : top.left[i] = e \/ (i - 1 \in 1 .. Len(g.left) /\ g.left[i - 1] = top.left[i])
  <2>1. Len(g.left) = Len(top.left) - 1 /\ Len(top.left) \in Nat
        /\ \A i \in 1 .. Len(g.left) : g.left[i] = top.left[i + 1]
    BY <1>2, HeadTailProperties
  <2>2. top.left[1] = e
    BY <1>2
  <2>3. ASSUME NEW i \in 1 .. Len(top.left), i # 1
        PROVE i - 1 \in 1 .. Len(g.left) /\ g.left[i - 1] = top.left[i]
    <3>1. i - 1 \in 1 .. Len(g.left) /\ (i - 1) + 1 = i
      BY <2>1, <2>3
    <3> QED BY <2>1, <3>1
  <2> QED BY <2>2, <2>3
<1>5. n \in 1 .. n /\ top = s[n]
  BY <1>1
<1>6. \A i \in 1 .. Len(g.left) : g.left[i] \in Reads(g.entry)
  BY <1>3, <1>5 DEF Chained
<1>7. g.entry \in Cyclic => \E i \in 1 .. Len(g.left) : g.left[i] \in Cyclic
  BY <1>4, <1>5 DEF Chained
<1> HIDE DEF b, top
<1>8. \A k \in 1 .. Len(b) : b[k].entry = s[k].entry
  BY <1>1, <1>5
<1>9. \A k \in 1 .. Len(b) - 1 : Awaits(b[k], b[k + 1].entry)
  <2>1. ASSUME NEW k \in 1 .. Len(b) - 1 PROVE Awaits(b[k], b[k + 1].entry)
    <3>1. k \in 1 .. n - 1 /\ k \in 1 .. n /\ k + 1 \in 1 .. Len(b) /\ k # n
      BY <1>1
    <3>2. b[k] = s[k] /\ b[k + 1].entry = s[k + 1].entry
      BY <1>1, <1>8, <3>1
    <3> QED BY <3>1, <3>2 DEF Chained
  <2> QED BY <2>1
<1>10. \A j, k \in 1 .. Len(b) : b[j].entry = b[k].entry => j = k
  BY <1>1, <1>8 DEF Chained
<1>11. \A k \in 1 .. Len(b) : \A i \in 1 .. Len(b[k].left) : b[k].left[i] \in Reads(b[k].entry)
  BY <1>1, <1>6 DEF Chained
<1>12. \A k \in 1 .. Len(b) : b[k].entry \in Cyclic =>
          \E i \in 1 .. Len(b[k].left) : b[k].left[i] \in Cyclic
  BY <1>1, <1>7 DEF Chained
<1>13. Chained(b)
  BY <1>9, <1>10, <1>11, <1>12 DEF Chained
<1> QED BY <1>13 DEF b

\* An entry that has a record is in no read cycle.
LEMMA ServedIsAcyclic ==
    ASSUME TypeOK, CycleInv, NEW e \in Entries, Peek(e) # Missing
    PROVE e \in Entries \ Cyclic
<1>1. ASSUME e \in Cyclic PROVE FALSE
  <2>1. \A i \in 1 .. Tiers : tier[i][e] = Missing
    BY <1>1 DEF CycleInv
  <2> QED BY <2>1, PeekFacts
<1> QED BY <1>1

\* An entry whose loader has returned is in no read cycle.
LEMMA StoredIsAcyclic ==
    ASSUME TypeOK, ChainInv, NEW t \in Threads, stack[t] # <<>>, Top(t).left = <<>>
    PROVE Top(t).entry \in Entries \ Cyclic
<1> DEFINE n == Len(stack[t])
<1>1. n \in 1 .. n /\ Top(t).entry \in Entries /\ Top(t) = stack[t][n]
  BY TopIsFrame DEF Top
<1>2. Top(t).entry \in Cyclic => \E i \in 1 .. Len(Top(t).left) : TRUE
  BY <1>1 DEF ChainInv, ChainAt, Chained
<1>3. Len(Top(t).left) = 0
  BY EmptySeq
<1> QED BY <1>1, <1>2, <1>3

\* The chain of a thread after it was delivered a value of an acyclic entry.
LEMMA DeliverChain ==
    ASSUME TypeOK, NEW t \in Threads, NEW st \in Seq(Frame), NEW r \in Record, NEW e \in Entries \ Cyclic,
           Chained(st), st # <<>> => Awaits(st[Len(st)], e), Deliver(t, st, r)
    PROVE ChainAt(t)'
<1>1. CASE st = <<>>
  <2>1. stack'[t] = st /\ pc'[t] \in {"populate", "record"}
    BY <1>1 DEF Deliver, Goto, TypeOK
  <2> QED BY <1>1, <2>1 DEF ChainAt
<1>2. CASE st # <<>>
  <2> DEFINE top == st[Len(st)]
             g == [top EXCEPT !.left = Tail(top.left), !.gen = Older(top.gen, r.gen)]
  <2>1. stack'[t] = [st EXCEPT ![Len(st)] = g] /\ pc'[t] = "load"
    BY <1>2 DEF Deliver, Goto, TypeOK
  <2>2. Len(st) \in 1 .. Len(st) /\ top \in Frame
    BY <1>2, EmptySeq, ElementOfSeq
  <2>3. g \in Frame /\ g.entry = top.entry /\ g.left = Tail(top.left)
    BY <1>2, <2>2, TakenFrame DEF Awaits
  <2> HIDE DEF g
  <2>4. Chained([st EXCEPT ![Len(st)] = g])
    BY <1>2, <2>3, TakeChained
  <2>5. [st EXCEPT ![Len(st)] = g] # <<>>
    BY <1>2, <2>3, TopFacts
  <2> QED BY <2>1, <2>4, <2>5 DEF ChainAt
<1> QED BY <1>1, <1>2

\* Every step keeps the chains.
LEMMA ChainStep ==
    ASSUME TypeOK, LockInv, ChainInv, CycleInv, CacheStep
    PROVE ChainInv'
<1> USE DEF Goto, Return
<1>1. CASE Quiet \/ Tick
  <2>1. UNCHANGED <<stack, pc, call>>
    BY <1>1 DEF Quiet, Tick, locks
  <2> QED BY <2>1 DEF ChainInv, ChainAt, Top
<1>2. CASE Restart
  <2>1. \A t \in Threads : stack'[t] = <<>> /\ pc'[t] = "idle"
    BY <1>2 DEF Restart
  <2>2. Chained(<<>>)
    BY EmptySeq DEF Chained
  <2> QED BY <2>1, <2>2 DEF ChainInv, ChainAt
<1>3. ASSUME NEW t \in Threads, ThreadStep(t) \/ Call(t) PROVE ChainInv'
  <2>0. ASSUME NEW u \in Threads, u # t PROVE ChainAt(u)'
    BY <1>3, <2>0, OthersStay DEF ChainInv, ChainAt, Top
  <2> SUFFICES ChainAt(t)'
    BY <2>0 DEF ChainInv
  <2>1. ChainAt(t) /\ stack[t] \in Seq(Frame) /\ call[t].goal \in Entries
    BY DEF ChainInv, TypeOK, Calls
  <2>2. ASSUME UNCHANGED stack, pc'[t] \in {"raise"} \/ stack[t] = <<>>, pc'[t] # "load" PROVE ChainAt(t)'
    BY <2>1, <2>2 DEF ChainAt
  <2>3. CASE PopulateNext(t)
    BY <2>1, <2>2, <2>3 DEF PopulateNext, ChainAt, locks, TypeOK
  <2>4. CASE PopulateDone(t)
    BY <2>1, <2>2, <2>4 DEF PopulateDone, ChainAt, locks, TypeOK
  <2>5. CASE Serve(t)
    <3> DEFINE e == call[t].goal
    <3>1. EntryState(e) = "warm" /\ pc[t] = "enter" /\ Deliver(t, stack[t], Peek(e))
      BY <2>5 DEF Serve
    <3>2. Peek(e) # Missing
      BY <3>1 DEF EntryState
    <3>3. Peek(e) \in Record /\ e \in Entries \ Cyclic
      BY <2>1, <3>2, PeekFacts, ServedIsAcyclic DEF Slots
    <3>4. Chained(stack[t]) /\ (stack[t] # <<>> => Awaits(stack[t][Len(stack[t])], e))
      BY <2>1, <3>1 DEF ChainAt, Top
    <3> HIDE DEF e
    <3> QED BY <2>1, <3>1, <3>3, <3>4, DeliverChain
  <2>6. CASE StartLoader(t)
    <3> DEFINE e == call[t].goal
    <3>1. pc[t] = "enter" /\ lock[e] = Free /\ pc' = [pc EXCEPT ![t] = "load"]
          /\ stack' = [stack EXCEPT ![t] = Append(stack[t], [entry |-> e, left |-> LoaderReads[e], gen |-> now])]
      BY <2>6 DEF StartLoader
    <3>2. \A k \in 1 .. Len(stack[t]) : stack[t][k].entry # e
      BY <2>1, <3>1, ConstantsAssumption DEF LockInv, Holds
    <3>3. stack[t] # <<>> => Awaits(stack[t][Len(stack[t])], e)
      BY <2>1, <3>1 DEF ChainAt, Top
    <3>4. now \in 0 .. MaxNow
      BY DEF TypeOK
    <3>5. Chained(Append(stack[t], [entry |-> e, left |-> LoaderReads[e], gen |-> now]))
      BY <2>1, <3>2, <3>3, <3>4, PushChained DEF ChainAt
    <3>6. Append(stack[t], [entry |-> e, left |-> LoaderReads[e], gen |-> now]) # <<>>
      <4>1. [entry |-> e, left |-> LoaderReads[e], gen |-> now] \in Frame
        BY <2>1, <3>4, ConstantsAssumption DEF Frame
      <4> QED BY <2>1, <4>1, PushFacts
    <3> QED BY <3>1, <3>5, <3>6 DEF ChainAt, TypeOK
  <2>7. CASE Reenter(t)
    BY <2>1, <2>2, <2>7 DEF Reenter, locks, TypeOK
  <2>8. CASE LoaderRead(t)
    <3>1. stack' = stack /\ pc'[t] = "enter" /\ call'[t].goal = Head(Top(t).left) /\ Top(t).left # <<>>
      BY <2>8 DEF LoaderRead, locks, TypeOK, Calls
    <3> QED BY <2>1, <3>1 DEF ChainAt, Top, Awaits
  <2>9. CASE LoaderFails(t)
    BY <2>1, <2>2, <2>9 DEF LoaderFails, locks, TypeOK
  <2>10. CASE Store(t)
    <3> DEFINE e == Top(t).entry
               r == [gen |-> Top(t).gen, at |-> now]
    <3>1. stack[t] # <<>> /\ Top(t).left = <<>>
      BY <2>1, <2>10 DEF Store, ChainAt
    <3>2. e \in Entries \ Cyclic /\ r \in Record
      BY <3>1, StoredIsAcyclic, TopIsFrame DEF Record, TypeOK
    <3>3. Below(t) \in Seq(Frame) /\ (Below(t) # <<>> => Awaits(Below(t)[Len(Below(t))], e))
      BY <3>1, BelowFacts
    <3>4. Chained(Below(t))
      BY <2>1, <3>1, PopChained DEF Below, ChainAt
    <3>5. CASE Deliver(t, Below(t), r)
      <4> HIDE DEF e, r
      <4> QED BY <3>2, <3>3, <3>4, <3>5, DeliverChain
    <3>6. CASE stack' = [stack EXCEPT ![t] = Below(t)] /\ pc' = [pc EXCEPT ![t] = "raise"]
      BY <3>4, <3>6 DEF ChainAt, TypeOK
    <3> QED BY <2>10, <3>5, <3>6 DEF Store
  <2>11. CASE Unwind(t)
    <3>1. stack[t] # <<>> /\ stack'[t] = Below(t) /\ pc'[t] = "raise"
      BY <2>11 DEF Unwind, TypeOK
    <3>2. Chained(Below(t))
      BY <2>1, <3>1, PopChained DEF Below, ChainAt
    <3> QED BY <3>1, <3>2 DEF ChainAt
  <2>12. CASE Raise(t)
    BY <2>1, <2>2, <2>12 DEF Raise, ChainAt, locks, TypeOK
  <2>13. CASE RecordRead(t)
    BY <2>1, <2>2, <2>13 DEF RecordRead, ChainAt, locks, TypeOK
  <2>14. CASE DropOne(t)
    BY <2>1, <2>2, <2>14 DEF DropOne, ChainAt, locks, TypeOK
  <2>15. CASE DropDone(t)
    BY <2>1, <2>2, <2>15 DEF DropDone, ChainAt, locks, TypeOK
  <2>16. CASE Call(t)
    <3>1. ASSUME NEW where, NEW c, Begin(t, where, c) PROVE pc[t] = "idle" /\ pc'[t] = where
      BY <3>1 DEF Begin, TypeOK
    <3>2. pc[t] = "idle" /\ pc'[t] \in {"enter", "drop", "populate"} /\ UNCHANGED stack
      BY <2>16, <3>1 DEF Call, Read, Invalidate, Initialize, locks
    <3> QED BY <2>1, <2>2, <3>2 DEF ChainAt
  <2> QED BY <1>3, <2>3, <2>4, <2>5, <2>6, <2>7, <2>8, <2>9, <2>10, <2>11, <2>12, <2>13,
             <2>14, <2>15, <2>16 DEF ThreadStep
<1> QED BY <1>1, <1>2, <1>3 DEF CacheStep

---------------------------------------------------------------------------
(* The field locks. *)

\* A value that is delivered changes no holder of a lock.
LEMMA DeliverHolds ==
    ASSUME TypeOK, NEW t \in Threads, NEW st \in Seq(Frame), NEW r \in Record,
           st # <<>> => st[Len(st)].left # <<>>, Deliver(t, st, r), NEW e \in Entries
    PROVE Holds(stack'[t], e) <=> Holds(st, e)
<1>1. CASE st = <<>>
  BY <1>1 DEF Deliver, TypeOK
<1>2. CASE st # <<>>
  <2> DEFINE top == st[Len(st)]
             g == [top EXCEPT !.left = Tail(top.left), !.gen = Older(top.gen, r.gen)]
             b == [st EXCEPT ![Len(st)] = g]
  <2>1. stack'[t] = b
    BY <1>2 DEF Deliver, TypeOK
  <2>2. Len(st) \in 1 .. Len(st) /\ top \in Frame
    BY <1>2, EmptySeq, ElementOfSeq
  <2>3. g \in Frame /\ g.entry = top.entry
    BY <1>2, <2>2, TakenFrame
  <2> HIDE DEF g
  <2>4. Len(b) = Len(st) /\ \A k \in 1 .. Len(st) : b[k] = IF k = Len(st) THEN g ELSE st[k]
    BY <1>2, <2>3, TopFacts
  <2>5. \A k \in 1 .. Len(st) : b[k].entry = st[k].entry
    BY <2>3, <2>4
  <2> HIDE DEF b
  <2> QED BY <2>1, <2>4, <2>5 DEF Holds
<1> QED BY <1>1, <1>2

\* A thread that leaves its innermost loader holds the others.
LEMMA BelowHolds ==
    ASSUME TypeOK, ChainInv, NEW t \in Threads, stack[t] # <<>>, NEW e \in Entries
    PROVE /\ Holds(Below(t), e) <=> Holds(stack[t], e) /\ e # Top(t).entry
          /\ Holds(stack[t], Top(t).entry)
<1> DEFINE n == Len(stack[t])
<1>1. n \in Nat \ {0} /\ Top(t) = stack[t][n] /\ Len(Below(t)) = n - 1
      /\ \A k \in 1 .. Len(Below(t)) : Below(t)[k] = stack[t][k]
  BY BelowFacts DEF Top
<1>2. \A j, k \in 1 .. n : stack[t][j].entry = stack[t][k].entry => j = k
  BY DEF ChainInv, ChainAt, Chained
<1> HIDE DEF n
<1>3. n \in 1 .. n /\ \A k \in 1 .. n : k \in 1 .. Len(Below(t)) \/ k = n
  BY <1>1
<1>4. \A k \in 1 .. Len(Below(t)) : k \in 1 .. n /\ k # n
  BY <1>1
<1>5. n = Len(stack[t])
  BY DEF n
<1> QED BY ZenonT(30), <1>1, <1>2, <1>3, <1>4, <1>5 DEF Holds

\* What a step of a thread does to the locks: nothing, take one, or release one.
LEMMA StackStep ==
    ASSUME TypeOK, ChainInv, NEW t \in Threads, ThreadStep(t) \/ Call(t)
    PROVE \/ UNCHANGED lock /\ \A e \in Entries : Holds(stack'[t], e) <=> Holds(stack[t], e)
          \/ \E g \in Entries :
                /\ lock[g] = Free /\ lock' = [lock EXCEPT ![g] = t]
                /\ \A e \in Entries : Holds(stack'[t], e) <=> Holds(stack[t], e) \/ e = g
          \/ \E g \in Entries :
                /\ Holds(stack[t], g) /\ lock' = [lock EXCEPT ![g] = Free]
                /\ \A e \in Entries : Holds(stack'[t], e) <=> Holds(stack[t], e) /\ e # g
<1> DEFINE goal == call[t].goal
<1>0. ChainAt(t) /\ stack[t] \in Seq(Frame) /\ goal \in Entries
  BY DEF ChainInv, TypeOK, Calls
<1>1. CASE UNCHANGED locks
  BY <1>1 DEF locks
<1>2. CASE Serve(t)
  <2>1. EntryState(goal) = "warm" /\ pc[t] = "enter" /\ UNCHANGED lock /\ Deliver(t, stack[t], Peek(goal))
    BY <1>2 DEF Serve
  <2>2. Peek(goal) \in Record
    BY <1>0, <2>1, PeekFacts DEF EntryState, Slots
  <2>3. stack[t] # <<>> => stack[t][Len(stack[t])].left # <<>>
    BY <1>0, <2>1 DEF ChainAt, Awaits, Top
  <2> HIDE DEF goal
  <2>4. \A e \in Entries : Holds(stack'[t], e) <=> Holds(stack[t], e)
    BY <1>0, <2>1, <2>2, <2>3, DeliverHolds
  <2> QED BY <2>1, <2>4
<1>3. CASE StartLoader(t)
  <2> DEFINE f == [entry |-> goal, left |-> LoaderReads[goal], gen |-> now]
  <2>1. lock[goal] = Free /\ lock' = [lock EXCEPT ![goal] = t] /\ stack'[t] = Append(stack[t], f)
    BY <1>3 DEF StartLoader, TypeOK
  <2>2. f \in Frame /\ f.entry = goal
    BY <1>0, ConstantsAssumption DEF Frame, TypeOK
  <2> HIDE DEF f, goal
  <2>3. Len(stack'[t]) = Len(stack[t]) + 1 /\ Len(stack[t]) \in Nat
        /\ stack'[t][Len(stack[t]) + 1] = f /\ \A k \in 1 .. Len(stack[t]) : stack'[t][k] = stack[t][k]
    BY <1>0, <2>1, <2>2, PushFacts
  <2>4. Len(stack'[t]) \in 1 .. Len(stack'[t])
        /\ (\A k \in 1 .. Len(stack'[t]) : k \in 1 .. Len(stack[t]) \/ k = Len(stack[t]) + 1)
        /\ \A k \in 1 .. Len(stack[t]) : k \in 1 .. Len(stack'[t])
    BY <2>3
  <2>5. \A e \in Entries : Holds(stack'[t], e) <=> Holds(stack[t], e) \/ e = goal
    BY <2>2, <2>3, <2>4 DEF Holds
  <2> QED BY <1>0, <2>1, <2>5
<1>4. CASE Store(t) \/ Unwind(t)
  <2> DEFINE g == Top(t).entry
             r == [gen |-> Top(t).gen, at |-> now]
  <2>1. stack[t] # <<>> /\ lock' = [lock EXCEPT ![g] = Free]
        /\ (Deliver(t, Below(t), r) \/ stack' = [stack EXCEPT ![t] = Below(t)])
    BY <1>0, <1>4 DEF Store, Unwind, ChainAt
  <2>2. g \in Entries /\ r \in Record
    BY <2>1, TopIsFrame DEF Record, TypeOK
  <2>3. Below(t) \in Seq(Frame) /\ (Below(t) # <<>> => Below(t)[Len(Below(t))].left # <<>>)
    BY <2>1, BelowFacts DEF Awaits
  <2> HIDE DEF g, r
  <2>4. \A e \in Entries : Holds(stack'[t], e) <=> Holds(Below(t), e)
    BY <2>1, <2>2, <2>3, DeliverHolds DEF TypeOK
  <2>5. /\ \A e \in Entries : Holds(Below(t), e) <=> Holds(stack[t], e) /\ e # g
        /\ Holds(stack[t], g)
    BY <2>1, <2>2, BelowHolds DEF g
  <2> QED BY <2>1, <2>2, <2>4, <2>5
<1>5. PopulateNext(t) \/ PopulateDone(t) \/ Reenter(t) \/ LoaderRead(t) \/ LoaderFails(t)
      \/ Raise(t) \/ RecordRead(t) \/ DropOne(t) \/ DropDone(t) => UNCHANGED locks
  BY DEF PopulateNext, PopulateDone, Reenter, LoaderRead, LoaderFails, Raise, RecordRead, DropOne, DropDone
<1>6. Call(t) => UNCHANGED locks
  BY DEF Call, Read, Invalidate, Initialize
<1> QED BY <1>1, <1>2, <1>3, <1>4, <1>5, <1>6 DEF ThreadStep

\* Every step keeps the locks and the stacks together.
LEMMA LockStep ==
    ASSUME TypeOK, LockInv, ChainInv, CacheStep
    PROVE LockInv'
<1>1. CASE Quiet \/ Tick
  <2>1. UNCHANGED <<stack, lock>>
    BY <1>1 DEF Quiet, Tick, locks
  <2> QED BY <2>1 DEF LockInv
<1>2. CASE Restart
  <2>1. \A t \in Threads, e \in Entries : lock'[e] = Free /\ stack'[t] = <<>>
    BY <1>2 DEF Restart
  <2>2. \A e \in Entries : ~ Holds(<<>>, e)
    BY EmptySeq DEF Holds
  <2> QED BY <2>1, <2>2, ConstantsAssumption DEF LockInv
<1>3. ASSUME NEW t \in Threads, ThreadStep(t) \/ Call(t) PROVE LockInv'
  <2>1. \A u \in Threads : u # t => stack'[u] = stack[u]
    BY <1>3, OthersStay
  <2>2. lock \in [Entries -> Threads \cup {Free}] /\ Free \notin Threads
    BY ConstantsAssumption DEF TypeOK
  <2>3. CASE UNCHANGED lock /\ \A e \in Entries : Holds(stack'[t], e) <=> Holds(stack[t], e)
    BY <2>1, <2>3 DEF LockInv
  <2>4. ASSUME NEW g \in Entries, lock[g] = Free, lock' = [lock EXCEPT ![g] = t],
               \A e \in Entries : Holds(stack'[t], e) <=> Holds(stack[t], e) \/ e = g
        PROVE LockInv'
    BY <2>1, <2>2, <2>4 DEF LockInv
  <2>5. ASSUME NEW g \in Entries, Holds(stack[t], g), lock' = [lock EXCEPT ![g] = Free],
               \A e \in Entries : Holds(stack'[t], e) <=> Holds(stack[t], e) /\ e # g
        PROVE LockInv'
    BY <2>1, <2>2, <2>5 DEF LockInv
  <2> QED BY <1>3, <2>3, <2>4, <2>5, StackStep
<1> QED BY <1>1, <1>2, <1>3 DEF CacheStep

---------------------------------------------------------------------------
(* The records. *)

\* What a step does to the records of an entry: it drops, keeps or promotes them, or a
\* loader that has returned writes one.
Kept(e) == \A i \in 1 .. Tiers :
    \/ tier'[i][e] = Missing
    \/ tier'[i][e] = tier[i][e]
    \/ /\ Peek(e) # Missing /\ tier'[i][e] = Peek(e)
       /\ \E k \in i .. Tiers : tier[k][e] = Peek(e)
Stored(t, e) ==
    /\ pc[t] = "load" /\ stack[t] # <<>> /\ Top(t).left = <<>> /\ e = Top(t).entry
    /\ \E n \in Nat : \A i \in 1 .. Tiers :
          tier'[i][e] = IF i >= n THEN [gen |-> Top(t).gen, at |-> now] ELSE tier[i][e]

\* A step keeps the records of an entry, deletes some, copies them upwards, or stores the value of a loader.
LEMMA TierStep ==
    ASSUME TypeOK, ChainInv, CacheStep, NEW e \in Entries
    PROVE Kept(e) \/ \E t \in Threads : Stored(t, e)
<1>1. UNCHANGED tier => Kept(e)
  BY DEF Kept
<1>2. Quiet \/ Tick => UNCHANGED tier
  BY DEF Quiet, Tick
<1>3. Restart => Kept(e)
  BY DEF Restart, Kept
<1>4. ASSUME NEW t \in Threads, ThreadStep(t) \/ Call(t) PROVE Kept(e) \/ Stored(t, e)
  <2> DEFINE goal == call[t].goal
  <2>1. goal \in Entries
    BY DEF TypeOK, Calls
  <2>2. Serve(t) \/ StartLoader(t) => tier' = Promoted(goal)
    BY DEF Serve, StartLoader
  <2>3. ASSUME NEW d \in Entries, tier' = Promoted(d) PROVE Kept(e)
    BY <2>3, PromotedFacts DEF Kept
  <2>4. CASE Store(t)
    <3> DEFINE d == Top(t).entry
               r == [gen |-> Top(t).gen, at |-> now]
    <3>1. stack[t] # <<>> /\ Top(t).left = <<>> /\ pc[t] = "load"
      BY <2>4 DEF Store, ChainInv, ChainAt
    <3>2. d \in Entries /\ r \in Record
      BY <3>1, TopIsFrame DEF Record, TypeOK
    <3>3. PICK n \in Nat : tier' = Written(d, r, n)
      BY <2>4, ConstantsAssumption DEF Store
    <3> HIDE DEF r, d
    <3>4. e # d => Kept(e)
      BY <3>2, <3>3, WrittenFacts DEF Kept
    <3>5. e = d => \A i \in 1 .. Tiers : tier'[i][e] = IF i >= n THEN r ELSE tier[i][e]
      BY <3>2, <3>3, WrittenFacts
    <3> QED BY <3>1, <3>4, <3>5 DEF Stored, d, r
  <2>5. CASE DropOne(t)
    <3>1. PICK i \in 1 .. Len(call[t].todo), kept \in SUBSET (1 .. Tiers) :
              tier' = Deleted(call[t].todo[i], kept)
      BY <2>5 DEF DropOne
    <3> DEFINE d == call[t].todo[i]
    <3>2. d \in Entries
      <4>1. call[t].todo \in Seq(Entries)
        BY DEF TypeOK, Calls
      <4> QED BY <4>1, ElementOfSeq
    <3> HIDE DEF d
    <3>3. /\ \A j \in 1 .. Tiers : e # d => tier'[j][e] = tier[j][e]
          /\ \A j \in 1 .. Tiers : tier'[j][d] = IF j \in kept THEN Promoted(d)[j][d] ELSE Missing
      BY <3>1, <3>2, DeletedFacts DEF d
    <3>4. \A j \in 1 .. Tiers :
              \/ Promoted(d)[j][d] = tier[j][d]
              \/ /\ Peek(d) # Missing /\ Promoted(d)[j][d] = Peek(d)
                 /\ \E k \in j .. Tiers : tier[k][d] = Peek(d)
      BY <3>2, PromotedFacts
    <3>5. CASE e # d
      BY <3>3, <3>5 DEF Kept
    <3>6. CASE e = d
      BY <3>3, <3>4, <3>6 DEF Kept
    <3> QED BY <3>5, <3>6
  <2>6. PopulateNext(t) \/ PopulateDone(t) \/ Reenter(t) \/ LoaderRead(t) \/ LoaderFails(t)
        \/ Unwind(t) \/ Raise(t) \/ RecordRead(t) \/ DropDone(t) => UNCHANGED tier
    BY DEF PopulateNext, PopulateDone, Reenter, LoaderRead, LoaderFails, Unwind, Raise, RecordRead, DropDone
  <2>7. Call(t) => UNCHANGED tier
    BY DEF Call, Read, Invalidate, Initialize
  <2> HIDE DEF goal
  <2> QED BY <1>1, <1>4, <2>1, <2>2, <2>3, <2>4, <2>5, <2>6, <2>7 DEF ThreadStep
<1> QED BY <1>1, <1>2, <1>3, <1>4 DEF CacheStep

\* Every step keeps the entries of read cycles without a record.
LEMMA CycleStep ==
    ASSUME TypeOK, ChainInv, CycleInv, CacheStep
    PROVE CycleInv'
<1> SUFFICES ASSUME NEW e \in Cyclic, NEW i \in 1 .. Tiers
             PROVE tier'[i][e] = Missing
  BY DEF CycleInv
<1>1. e \in Entries
  BY DEF Cyclic
<1>2. \A k \in 1 .. Tiers : tier[k][e] = Missing
  BY DEF CycleInv
<1>3. Peek(e) = Missing
  BY <1>1, <1>2, PeekFacts
<1>4. \A t \in Threads : ~ Stored(t, e)
  BY StoredIsAcyclic DEF Stored
<1>5. Kept(e)
  BY <1>1, <1>4, TierStep
<1> QED BY <1>2, <1>3, <1>5 DEF Kept

\* The call of a thread after it was delivered a value.
LEMMA DeliverCall ==
    ASSUME TypeOK, NEW t \in Threads, NEW st \in Seq(Frame), NEW r \in Record,
           st # <<>> => st[Len(st)].left # <<>>, Deliver(t, st, r)
    PROVE /\ st = <<>> => call'[t] = [call[t] EXCEPT !.got = r] /\ stack'[t] = <<>>
                          /\ pc'[t] = IF call[t].kind = "init" THEN "populate" ELSE "record"
          /\ st # <<>> => call'[t] = call[t] /\ pc'[t] = "load" /\ Len(stack'[t]) = Len(st)
                          /\ \A k \in 1 .. Len(st) : stack'[t][k].entry = st[k].entry
<1>1. CASE st = <<>>
  BY <1>1 DEF Deliver, Goto, TypeOK
<1>2. CASE st # <<>>
  <2> DEFINE top == st[Len(st)]
             g == [top EXCEPT !.left = Tail(top.left), !.gen = Older(top.gen, r.gen)]
             b == [st EXCEPT ![Len(st)] = g]
  <2>1. stack'[t] = b /\ call'[t] = call[t] /\ pc'[t] = "load"
    BY <1>2 DEF Deliver, Goto, TypeOK
  <2>2. Len(st) \in 1 .. Len(st) /\ top \in Frame
    BY <1>2, EmptySeq, ElementOfSeq
  <2>3. g \in Frame /\ g.entry = top.entry
    BY <1>2, <2>2, TakenFrame
  <2> HIDE DEF g
  <2>4. Len(b) = Len(st) /\ \A k \in 1 .. Len(st) : b[k] = IF k = Len(st) THEN g ELSE st[k]
    BY <1>2, <2>3, TopFacts
  <2>5. \A k \in 1 .. Len(st) : b[k].entry = st[k].entry
    BY <2>3, <2>4
  <2> HIDE DEF b
  <2> QED BY <1>2, <2>1, <2>4, <2>5
<1> QED BY <1>1, <1>2

---------------------------------------------------------------------------
(* The calls. *)

\* What a delivery makes of the call: its record, or the next value of the loader.
LEMMA DeliverCallAt ==
    ASSUME TypeOK, NEW t \in Threads, NEW st \in Seq(Frame), NEW r \in Record,
           st # <<>> => st[Len(st)].left # <<>>, Deliver(t, st, r),
           call[t].kind \in {"read", "init"},
           call[t].kind = "read" => Len(call[t].todo) = 1 /\ (st # <<>> => st[1].entry = call[t].todo[1])
    PROVE CallAt(t)'
<1>0. call[t] \in Calls
  BY DEF TypeOK
<1>1. CASE st = <<>>
  <2>1. call'[t] = [call[t] EXCEPT !.got = r] /\ stack'[t] = <<>>
        /\ pc'[t] = IF call[t].kind = "init" THEN "populate" ELSE "record"
    BY <1>1, DeliverCall
  <2>2. call'[t].kind = call[t].kind /\ call'[t].got = r /\ call'[t].todo = call[t].todo
    BY <1>0, <2>1 DEF Calls
  <2> QED BY <2>1, <2>2 DEF CallAt
<1>2. CASE st # <<>>
  <2>1. call'[t] = call[t] /\ pc'[t] = "load" /\ Len(stack'[t]) = Len(st)
        /\ \A k \in 1 .. Len(st) : stack'[t][k].entry = st[k].entry
    BY <1>2, DeliverCall
  <2>2. 1 \in 1 .. Len(st)
    BY <1>2, EmptySeq
  <2> QED BY <1>2, <2>1, <2>2 DEF CallAt
<1> QED BY <1>1, <1>2

\* Every step keeps the calls.
LEMMA CallStep ==
    ASSUME TypeOK, ChainInv, CallInv, CacheStep
    PROVE CallInv'
<1> USE DEF Goto, Return
<1>1. CASE Quiet \/ Tick
  <2>1. UNCHANGED <<stack, pc, call>>
    BY <1>1 DEF Quiet, Tick, locks
  <2> QED BY <2>1 DEF CallInv, CallAt
<1>2. CASE Restart
  <2>1. \A t \in Threads : pc'[t] = "idle"
    BY <1>2 DEF Restart
  <2> QED BY <2>1 DEF CallInv, CallAt
<1>3. ASSUME NEW t \in Threads, ThreadStep(t) \/ Call(t) PROVE CallInv'
  <2>0. ASSUME NEW u \in Threads, u # t PROVE CallAt(u)'
    BY <1>3, <2>0, OthersStay DEF CallInv, CallAt
  <2> SUFFICES CallAt(t)'
    BY <2>0 DEF CallInv
  <2>1. CallAt(t) /\ ChainAt(t) /\ stack[t] \in Seq(Frame) /\ call[t] \in Calls /\ call[t].goal \in Entries
    BY DEF CallInv, ChainInv, TypeOK, Calls
  <2>2. pc \in [Threads -> {"idle", "enter", "load", "raise", "record", "drop", "populate"}]
        /\ call \in [Threads -> Calls] /\ stack \in [Threads -> Seq(Frame)]
    BY DEF TypeOK
  <2>3. CASE PopulateNext(t)
    <3>1. pc[t] = "populate" /\ pc'[t] = "enter" /\ call'[t].kind = call[t].kind
      BY <2>1, <2>2, <2>3 DEF PopulateNext, Calls
    <3> QED BY <2>1, <3>1 DEF CallAt
  <2>4. CASE PopulateDone(t) \/ Raise(t) \/ RecordRead(t)
    <3>1. pc'[t] = "idle"
      BY <2>2, <2>4 DEF PopulateDone, Raise, RecordRead
    <3> QED BY <3>1 DEF CallAt
  <2>5. CASE Serve(t)
    <3> DEFINE e == call[t].goal
    <3>1. EntryState(e) = "warm" /\ pc[t] = "enter" /\ Deliver(t, stack[t], Peek(e))
      BY <2>5 DEF Serve
    <3>2. Peek(e) \in Record
      BY <2>1, <3>1, PeekFacts DEF EntryState, Slots
    <3>3. stack[t] # <<>> => stack[t][Len(stack[t])].left # <<>>
      BY <2>1, <3>1 DEF ChainAt, Awaits, Top
    <3>4. call[t].kind \in {"read", "init"} /\ (call[t].kind = "read" => Len(call[t].todo) = 1
              /\ (stack[t] # <<>> => stack[t][1].entry = call[t].todo[1]))
      BY <2>1, <3>1 DEF CallAt
    <3> HIDE DEF e
    <3> QED BY <2>1, <3>1, <3>2, <3>3, <3>4, DeliverCallAt
  <2>6. CASE StartLoader(t)
    <3> DEFINE f == [entry |-> call[t].goal, left |-> LoaderReads[call[t].goal], gen |-> now]
    <3>1. pc[t] = "enter" /\ pc'[t] = "load" /\ call' = call /\ stack'[t] = Append(stack[t], f)
      BY <2>2, <2>6 DEF StartLoader
    <3>2. f \in Frame /\ f.entry = call[t].goal
      BY <2>1, ConstantsAssumption DEF Frame, TypeOK
    <3> HIDE DEF f
    <3>3. stack[t] = <<>> => stack'[t][1] = f
      BY <2>1, <3>1, <3>2
    <3>4. stack[t] # <<>> => stack'[t][1] = stack[t][1]
      BY <2>1, <3>1, <3>2, PushFacts, EmptySeq
    <3> QED BY <2>1, <3>1, <3>2, <3>3, <3>4 DEF CallAt
  <2>7. CASE Reenter(t) \/ LoaderFails(t)
    <3>1. pc[t] \in {"enter", "load"} /\ pc'[t] = "raise" /\ call' = call /\ stack' = stack
      BY <2>2, <2>7 DEF Reenter, LoaderFails, locks
    <3> QED BY <2>1, <3>1 DEF CallAt
  <2>8. CASE LoaderRead(t)
    <3>1. pc[t] = "load" /\ pc'[t] = "enter" /\ stack' = stack /\ stack[t] # <<>>
          /\ call'[t].kind = call[t].kind /\ call'[t].todo = call[t].todo
      BY <2>1, <2>2, <2>8 DEF LoaderRead, locks, Calls, ChainAt
    <3> QED BY <2>1, <3>1 DEF CallAt
  <2>9. CASE Store(t) \/ Unwind(t)
    <3> DEFINE r == [gen |-> Top(t).gen, at |-> now]
    <3>1. stack[t] # <<>> /\ pc[t] \in {"load", "raise"}
          /\ \/ pc[t] = "load" /\ Deliver(t, Below(t), r)
             \/ stack'[t] = Below(t) /\ call' = call /\ pc'[t] = "raise"
      BY <2>1, <2>2, <2>9 DEF Store, Unwind, ChainAt
    <3>2. r \in Record
      BY <3>1, TopIsFrame DEF Record, TypeOK
    <3>3. /\ Below(t) \in Seq(Frame) /\ (Below(t) # <<>> => Below(t)[Len(Below(t))].left # <<>>)
          /\ (Below(t) # <<>> => Below(t)[1] = stack[t][1])
      BY <3>1, BelowFacts, EmptySeq DEF Awaits
    <3> HIDE DEF r
    <3>4. call[t].kind = "read" => Len(call[t].todo) = 1
              /\ (Below(t) # <<>> => Below(t)[1].entry = call[t].todo[1])
      BY <2>1, <3>1, <3>3 DEF CallAt
    <3>5. CASE pc[t] = "load" /\ Deliver(t, Below(t), r)
      <4>1. call[t].kind \in {"read", "init"}
        BY <2>1, <3>5 DEF CallAt
      <4> QED BY <3>2, <3>3, <3>4, <3>5, <4>1, DeliverCallAt
    <3>6. CASE stack'[t] = Below(t) /\ call' = call /\ pc'[t] = "raise"
      BY <3>4, <3>6 DEF CallAt
    <3> QED BY <3>1, <3>5, <3>6
  <2>10. CASE DropOne(t)
    <3>1. pc[t] = "drop" /\ pc'[t] = "drop" /\ call'[t].kind = call[t].kind
      BY <2>1, <2>2, <2>10 DEF DropOne, Calls
    <3> QED BY <2>1, <3>1 DEF CallAt
  <2>11. CASE DropDone(t)
    <3>1. pc'[t] = "idle" \/ (pc'[t] = "populate" /\ call'[t].kind = "init")
      BY <2>1, <2>2, <2>11 DEF DropDone, Calls
    <3> QED BY <3>1 DEF CallAt
  <2>12. CASE Call(t)
    <3>0. NoCall.kind = "none" /\ NoCall.todo = <<>> /\ NoCall \in Calls
      BY NoCallType DEF NoCall
    <3>1. ASSUME NEW e \in Entries, Read(t, e) PROVE CallAt(t)'
      <4>1. pc'[t] = "enter" /\ pc[t] = "idle" /\ stack' = stack
            /\ call'[t] = [NoCall EXCEPT !.kind = "read", !.goal = e, !.todo = <<e>>, !.due = floor[e]]
        BY <2>2, <3>1 DEF Read, Begin, locks
      <4>2. call'[t].kind = "read" /\ call'[t].goal = e /\ call'[t].todo = <<e>>
        BY <4>1 DEF NoCall
      <4>3. stack'[t] = <<>>
        BY <2>1, <4>1 DEF ChainAt
      <4> QED BY <4>1, <4>2, <4>3 DEF CallAt
    <3>2. ASSUME NEW names, Invalidate(t, names) PROVE CallAt(t)'
      <4>1. pc'[t] = "drop" /\ call'[t].kind = "drop"
        BY <2>2, <3>2 DEF Invalidate, Begin, NoCall
      <4> QED BY <4>1 DEF CallAt
    <3>3. ASSUME Initialize(t) PROVE CallAt(t)'
      <4>1. pc'[t] \in {"drop", "populate"} /\ call'[t].kind = "init"
        BY <2>2, <3>3 DEF Initialize, Begin, NoCall
      <4> QED BY <4>1 DEF CallAt
    <3> QED BY <2>12, <3>1, <3>2, <3>3 DEF Call
  <2> QED BY <1>3, <2>3, <2>4, <2>5, <2>6, <2>7, <2>8, <2>9, <2>10, <2>11, <2>12 DEF ThreadStep
<1> QED BY <1>1, <1>2, <1>3 DEF CacheStep

---------------------------------------------------------------------------
(* What a read serves. *)

\* A record that is served to a read of x: the one of the storage, or the one of the
\* loader that has returned.
Served(t, x, r) ==
    \/ Peek(x) = r /\ r \in Record /\ EntryState(x) = "warm" /\ tier' = Promoted(x)
    \/ /\ stack[t] # <<>> /\ Top(t).left = <<>> /\ x = Top(t).entry
       /\ r = [gen |-> Top(t).gen, at |-> now] /\ r \in Record /\ tier' = Written(x, r, 1)

\* A read has its record from before the step, or was served it by this step.
LEMMA GotStep ==
    ASSUME TypeOK, ChainInv, CallInv, CacheStep, NEW t \in Threads, pc'[t] = "record"
    PROVE \/ pc[t] = "record" /\ call'[t] = call[t]
          \/ /\ pc[t] # "idle" /\ call[t].kind = "read" /\ call'[t].kind = "read"
             /\ call'[t].todo = call[t].todo /\ call'[t].due = call[t].due
             /\ call[t].todo[1] \in Entries /\ UNCHANGED <<now, floor>>
             /\ Served(t, call[t].todo[1], call'[t].got)
<1> USE DEF Goto, Return
<1>0. CallAt(t) /\ ChainAt(t) /\ stack[t] \in Seq(Frame) /\ call[t] \in Calls
      /\ call[t].todo \in Seq(Entries) /\ call[t].goal \in Entries
  BY DEF CallInv, ChainInv, TypeOK, Calls
<1>1. pc \in [Threads -> {"idle", "enter", "load", "raise", "record", "drop", "populate"}]
      /\ call \in [Threads -> Calls] /\ stack \in [Threads -> Seq(Frame)]
  BY DEF TypeOK
<1>2. Quiet \/ Tick => pc'[t] = pc[t] /\ call'[t] = call[t]
  BY DEF Quiet, Tick
<1>3. ~ Restart
  BY DEF Restart
<1>4. CASE \E u \in Threads : u # t /\ (ThreadStep(u) \/ Call(u))
  BY <1>4, OthersStay
<1>5. Len(call[t].todo) = 1 => call[t].todo[1] \in Entries
  BY <1>0, ElementOfSeq
<1>6. ASSUME NEW st \in Seq(Frame), NEW r \in Record, Deliver(t, st, r),
             st # <<>> => st[Len(st)].left # <<>>, call[t].kind \in {"read", "init"}
      PROVE /\ st = <<>> /\ call[t].kind = "read" /\ call'[t].kind = "read" /\ call'[t].got = r
            /\ call'[t].todo = call[t].todo /\ call'[t].due = call[t].due
  <2>1. st = <<>> /\ call[t].kind # "init"
    BY <1>6, DeliverCall
  <2>2. call'[t] = [call[t] EXCEPT !.got = r]
    BY <1>6, <2>1, DeliverCall
  <2> QED BY <1>0, <1>6, <2>1, <2>2 DEF Calls
<1>7. CASE Serve(t)
  <2> DEFINE x == call[t].goal
             r == Peek(x)
  <2>1. EntryState(x) = "warm" /\ pc[t] = "enter" /\ Deliver(t, stack[t], r) /\ tier' = Promoted(x)
        /\ now' = now /\ floor' = floor
    BY <1>7 DEF Serve, env
  <2>2. r \in Record
    BY <1>0, <2>1, PeekFacts DEF EntryState, Slots
  <2>3. stack[t] # <<>> => stack[t][Len(stack[t])].left # <<>>
    BY <1>0, <2>1 DEF ChainAt, Awaits, Top
  <2>4. call[t].kind \in {"read", "init"}
    BY <1>0, <2>1 DEF CallAt
  <2> HIDE DEF r
  <2>5. /\ stack[t] = <<>> /\ call[t].kind = "read" /\ call'[t].kind = "read" /\ call'[t].got = r
        /\ call'[t].todo = call[t].todo /\ call'[t].due = call[t].due
    BY <1>0, <1>6, <2>1, <2>2, <2>3, <2>4
  <2>6. Len(call[t].todo) = 1 /\ x = call[t].todo[1]
    BY <1>0, <2>1, <2>5 DEF CallAt
  <2>7. Served(t, x, r)
    BY <2>1, <2>2 DEF Served, r
  <2> HIDE DEF x
  <2> QED BY <1>5, <2>1, <2>5, <2>6, <2>7
<1>8. CASE Store(t)
  <2> DEFINE x == Top(t).entry
             r == [gen |-> Top(t).gen, at |-> now]
  <2>1. pc[t] = "load" /\ Top(t).left = <<>> /\ stack[t] # <<>> /\ now' = now /\ floor' = floor
        /\ tier' = Written(x, r, 1) /\ Deliver(t, Below(t), r)
    BY <1>0, <1>1, <1>8 DEF Store, env, ChainAt
  <2>2. r \in Record
    BY <2>1, TopIsFrame DEF Record, TypeOK
  <2>3. Below(t) \in Seq(Frame) /\ (Below(t) # <<>> => Below(t)[Len(Below(t))].left # <<>>)
        /\ (Below(t) = <<>> <=> Len(stack[t]) = 1)
    BY <2>1, BelowFacts DEF Awaits
  <2>4. call[t].kind \in {"read", "init"}
    BY <1>0, <2>1 DEF CallAt
  <2> HIDE DEF r
  <2>5. /\ Below(t) = <<>> /\ call[t].kind = "read" /\ call'[t].kind = "read" /\ call'[t].got = r
        /\ call'[t].todo = call[t].todo /\ call'[t].due = call[t].due
    BY <1>6, <2>1, <2>2, <2>3, <2>4
  <2>6. Len(call[t].todo) = 1 /\ x = call[t].todo[1]
    BY <1>0, <2>1, <2>3, <2>5 DEF CallAt, Top
  <2>7. Served(t, x, r)
    BY <2>1, <2>2 DEF Served, r
  <2> HIDE DEF x
  <2> QED BY <1>5, <2>1, <2>5, <2>6, <2>7
<1>9. PopulateNext(t) \/ PopulateDone(t) \/ StartLoader(t) \/ Reenter(t) \/ LoaderRead(t) \/ LoaderFails(t)
      \/ Raise(t) \/ RecordRead(t) \/ DropDone(t) => pc'[t] # "record"
  BY <1>1 DEF PopulateNext, PopulateDone, StartLoader, Reenter, LoaderRead, LoaderFails, Raise, RecordRead, DropDone
<1>10. Unwind(t) \/ DropOne(t) => pc[t] # "record" /\ pc' = pc
  BY DEF Unwind, DropOne
<1>11. Call(t) => pc'[t] # "record"
  BY <1>1 DEF Call, Read, Invalidate, Initialize, Begin
<1> QED BY <1>2, <1>3, <1>4, <1>7, <1>8, <1>9, <1>10, <1>11 DEF CacheStep, ThreadStep

\* A peek sees the oldest record of an entry.
LEMMA PeekIsOldest ==
    ASSUME TypeOK, AgeInv, NEW e \in Entries, Peek(e) # Missing
    PROVE /\ Peek(e) \in Record /\ Peek(e).at <= now
          /\ \A i \in 1 .. Tiers : tier[i][e] # Missing => Peek(e).at <= tier[i][e].at
<1>1. Tiers \in Nat
  BY ConstantsAssumption
<1>2. PICK n \in 1 .. Tiers : tier[n][e] = Peek(e) /\ \A j \in 1 .. n - 1 : tier[j][e] = Missing
  BY PeekFacts
<1>3. \A i \in 1 .. Tiers : i \in 1 .. n - 1 \/ i \in n .. Tiers
  BY <1>1
<1>4. Peek(e) \in Record
  BY PeekFacts DEF Slots
<1> QED BY <1>2, <1>3, <1>4 DEF AgeInv

\* Time goes forward.
LEMMA NowGrows ==
    ASSUME TypeOK, CacheStep
    PROVE now' \in Nat /\ now \in Nat /\ now <= now'
<1>1. now \in Nat
  BY ConstantsAssumption DEF TypeOK
<1>2. now' = now \/ now' = now + 1
  <2>1. Quiet \/ Tick \/ Restart => now' = now \/ now' = now + 1
    BY DEF Quiet, Tick, Restart, env
  <2>2. ASSUME NEW t \in Threads PROVE ThreadStep(t) => now' = now
    BY DEF ThreadStep, PopulateNext, PopulateDone, Serve, StartLoader, Reenter, LoaderRead, LoaderFails,
           Store, Unwind, Raise, RecordRead, DropOne, DropDone, env
  <2>3. ASSUME NEW t \in Threads PROVE Call(t) => now' = now
    BY DEF Call, Read, Invalidate, Initialize, env
  <2> QED BY <2>1, <2>2, <2>3 DEF CacheStep
<1> QED BY <1>1, <1>2

\* Every step keeps the ages: of the records of an entry,
LEMMA RecordAges ==
    ASSUME TypeOK, ChainInv, AgeInv, CacheStep, NEW e \in Entries, NEW i \in 1 .. Tiers, tier'[i][e] # Missing
    PROVE /\ tier'[i][e] \in Record /\ tier'[i][e].at <= now'
          /\ \A j \in i .. Tiers : tier'[j][e] # Missing => tier'[i][e].at <= tier'[j][e].at
<1>0. Tiers \in Nat /\ now \in Nat /\ now' \in Nat /\ now <= now' /\ now \in 1 .. MaxNow
  BY NowGrows, ConstantsAssumption DEF TypeOK
<1>1. \A k \in 1 .. Tiers : tier[k][e] # Missing => tier[k][e] \in Record /\ tier[k][e].at \in Nat
      /\ tier[k][e].at <= now
  BY DEF TypeOK, Record, AgeInv
<1>2. \A k \in 1 .. Tiers : \A j \in k .. Tiers : tier[k][e] # Missing /\ tier[j][e] # Missing =>
          tier[k][e].at <= tier[j][e].at
  BY DEF AgeInv
<1>3. \A j \in i .. Tiers : j \in 1 .. Tiers
  BY <1>0
<1>4. CASE Kept(e)
  <2>1. tier'[i][e] = tier[i][e] \/ (Peek(e) # Missing /\ tier'[i][e] = Peek(e))
    BY <1>4 DEF Kept
  <2>2. tier'[i][e] \in Record /\ tier'[i][e].at <= now
    BY <1>1, <2>1, PeekIsOldest
  <2>3. tier'[i][e].at \in Nat
    BY <2>2 DEF Record
  <2>4. ASSUME NEW j \in i .. Tiers, tier'[j][e] # Missing PROVE tier'[i][e].at <= tier'[j][e].at
    <3>1. PICK k \in j .. Tiers : tier'[j][e] = tier[k][e]
      BY <1>0, <1>3, <1>4, <2>4 DEF Kept
    <3>2. k \in i .. Tiers /\ k \in 1 .. Tiers /\ tier[k][e] # Missing
      BY <1>0, <2>4, <3>1
    <3>3. CASE tier'[i][e] = tier[i][e]
      BY <1>2, <3>1, <3>2, <3>3
    <3>4. CASE Peek(e) # Missing /\ tier'[i][e] = Peek(e)
      BY <3>1, <3>2, <3>4, PeekIsOldest
    <3> QED BY <2>1, <3>3, <3>4
  <2> QED BY <1>0, <2>2, <2>3, <2>4
<1>5. ASSUME NEW t \in Threads, Stored(t, e) PROVE
          /\ tier'[i][e] \in Record /\ tier'[i][e].at <= now'
          /\ \A j \in i .. Tiers : tier'[j][e] # Missing => tier'[i][e].at <= tier'[j][e].at
  <2> DEFINE r == [gen |-> Top(t).gen, at |-> now]
  <2>1. PICK n \in Nat : \A k \in 1 .. Tiers : tier'[k][e] = IF k >= n THEN r ELSE tier[k][e]
    BY <1>5 DEF Stored
  <2>2. r \in Record /\ r.at = now
    BY <1>0, <1>5, TopIsFrame DEF Stored, Record
  <2> HIDE DEF r
  <2>3. CASE i >= n
    <3>1. \A j \in i .. Tiers : j >= n
      BY <1>0, <2>3
    <3> QED BY <1>0, <1>3, <2>1, <2>2, <2>3, <3>1
  <2>4. CASE ~ (i >= n)
    <3>1. tier'[i][e] = tier[i][e]
      BY <2>1, <2>4
    <3>2. \A j \in i .. Tiers : tier'[j][e] = r \/ tier'[j][e] = tier[j][e]
      BY <1>3, <2>1
    <3>3. tier[i][e].at <= now /\ now <= now' /\ tier[i][e].at \in Nat /\ tier[i][e] \in Record
      BY <1>0, <1>1, <3>1
    <3>4. tier[i][e].at <= now'
      BY <1>0, <3>3
    <3> QED BY <1>2, <2>2, <3>1, <3>2, <3>3, <3>4
  <2> QED BY <2>3, <2>4
<1> QED BY <1>4, <1>5, TierStep

\* and of what a task was served.
LEMMA AgeStep ==
    ASSUME TypeOK, ChainInv, CallInv, AgeInv, CacheStep
    PROVE AgeInv'
<1>0. Tiers \in Nat /\ now \in Nat /\ now' \in Nat /\ now <= now' /\ now \in 1 .. MaxNow
  BY NowGrows, ConstantsAssumption DEF TypeOK
<1>1. \A e \in Entries : \A i \in 1 .. Tiers : tier'[i][e] # Missing =>
          /\ tier'[i][e].at <= now'
          /\ \A j \in i .. Tiers : tier'[j][e] # Missing => tier'[i][e].at <= tier'[j][e].at
  BY RecordAges
<1>2. ASSUME NEW t \in Threads, pc'[t] = "record"
      PROVE /\ call'[t].got.at <= now'
            /\ \A i \in 1 .. Tiers : tier'[i][call'[t].todo[1]] # Missing =>
                  call'[t].got.at <= tier'[i][call'[t].todo[1]].at
  <2>1. CASE pc[t] = "record" /\ call'[t] = call[t]
    <3> DEFINE x == call[t].todo[1]
               got == call[t].got
    <3>1. CallAt(t) /\ call[t].todo \in Seq(Entries)
      BY DEF CallInv, TypeOK, Calls
    <3>2. got \in Record /\ Len(call[t].todo) = 1
      BY <2>1, <3>1 DEF CallAt
    <3>3. x \in Entries
      BY <3>1, <3>2, ElementOfSeq
    <3>4. got.at \in Nat
      BY <3>2 DEF Record
    <3>5. got.at <= now /\ \A i \in 1 .. Tiers : tier[i][x] # Missing => got.at <= tier[i][x].at
      BY <2>1 DEF AgeInv
    <3> HIDE DEF x, got
    <3>6. ASSUME NEW i \in 1 .. Tiers, tier'[i][x] # Missing PROVE got.at <= tier'[i][x].at
      <4>1. CASE Kept(x)
        <5>1. \A k \in i .. Tiers : k \in 1 .. Tiers
          BY <1>0
        <5>2. tier'[i][x] = tier[i][x] \/ \E k \in i .. Tiers : tier'[i][x] = tier[k][x]
          BY <3>6, <4>1 DEF Kept
        <5> QED BY <3>5, <3>6, <5>1, <5>2
      <4>2. ASSUME NEW u \in Threads, Stored(u, x) PROVE got.at <= tier'[i][x].at
        <5>1. tier'[i][x] = tier[i][x] \/ tier'[i][x] = [gen |-> Top(u).gen, at |-> now]
          BY <4>2 DEF Stored
        <5> QED BY <3>5, <3>6, <5>1
      <4> QED BY <3>3, <4>1, <4>2, TierStep
    <3>7. got.at <= now'
      BY <1>0, <3>4, <3>5
    <3> QED BY <2>1, <3>6, <3>7 DEF x, got
  <2>2. CASE /\ call'[t].todo = call[t].todo /\ call[t].todo[1] \in Entries /\ now' = now
             /\ Served(t, call[t].todo[1], call'[t].got)
    <3> DEFINE x == call[t].todo[1]
               r == call'[t].got
    <3>1. x \in Entries /\ Served(t, x, r) /\ now' = now
      BY <2>2
    <3> HIDE DEF x, r
    <3>2. CASE Peek(x) = r /\ r \in Record /\ tier' = Promoted(x)
      <4>1. r # Missing
        BY <3>2, ConstantsAssumption
      <4>2. r.at <= now /\ \A i \in 1 .. Tiers : tier[i][x] # Missing => r.at <= tier[i][x].at
        BY <3>1, <3>2, <4>1, PeekIsOldest
      <4>3. \A i \in 1 .. Tiers : tier'[i][x] = tier[i][x] \/ tier'[i][x] = r
        BY <3>1, <3>2, PromotedFacts
      <4>4. r.at \in Nat
        BY <3>2 DEF Record
      <4>5. \A i \in 1 .. Tiers : tier'[i][x] # Missing => r.at <= tier'[i][x].at
        BY <4>2, <4>3, <4>4
      <4> QED BY <2>2, <3>1, <4>2, <4>5 DEF x, r
    <3>3. CASE r = [gen |-> Top(t).gen, at |-> now] /\ r \in Record /\ tier' = Written(x, r, 1)
      <4>1. \A i \in 1 .. Tiers : tier'[i][x] = r
        BY <1>0, <3>1, <3>3, WrittenFacts
      <4>2. r.at = now
        BY <3>3
      <4> QED BY <1>0, <2>2, <3>1, <4>1, <4>2 DEF x, r
    <3> QED BY <3>1, <3>2, <3>3 DEF Served
  <2> QED BY <1>2, <2>1, <2>2, GotStep
<1> QED BY <1>1, <1>2 DEF AgeInv

---------------------------------------------------------------------------
(* The first theorems. *)

BaseInv == TypeOK /\ LockInv /\ ChainInv /\ CycleInv /\ CallInv /\ AgeInv

\* It holds at the start.
LEMMA BaseInit == WatchedInit => BaseInv
<1> SUFFICES ASSUME WatchedInit PROVE BaseInv
  OBVIOUS
<1>0. Init
  BY DEF WatchedInit
<1>1. TypeOK
  <2>1. tier \in [1 .. Tiers -> [Entries -> Record \cup {Missing}]] /\ floor \in [Entries -> 0 .. MaxNow]
    BY <1>0, ConstantsAssumption DEF Init
  <2>2. stack \in [Threads -> Seq(Frame)]
    BY <1>0, EmptySeq DEF Init
  <2>3. call \in [Threads -> Calls]
    BY <1>0, NoCallType DEF Init
  <2>4. now \in 1 .. MaxNow /\ ops \in 0 .. MaxOps /\ faults \in 0 .. MaxFaults
    BY <1>0, ConstantsAssumption DEF Init
  <2> QED BY <1>0, <2>1, <2>2, <2>3, <2>4 DEF Init, TypeOK
<1>2. \A t \in Threads : stack[t] = <<>> /\ pc[t] = "idle"
  BY <1>0 DEF Init
<1>3. Chained(<<>>) /\ \A e \in Entries : ~ Holds(<<>>, e)
  BY EmptySeq DEF Chained, Holds
<1>4. LockInv
  BY <1>0, <1>2, <1>3, ConstantsAssumption DEF Init, LockInv
<1>5. ChainInv /\ CallInv
  BY <1>2, <1>3 DEF ChainInv, ChainAt, CallInv, CallAt
<1>6. \A e \in Entries, i \in 1 .. Tiers : tier[i][e] = Missing
  BY <1>0 DEF Init
<1>7. CycleInv
  BY <1>6 DEF CycleInv, Cyclic
<1>8. AgeInv
  BY <1>2, <1>6 DEF AgeInv
<1> QED BY <1>1, <1>4, <1>5, <1>7, <1>8 DEF BaseInv

\* Every step keeps it.
LEMMA BaseStep ==
    ASSUME BaseInv, WatchedNext \/ UNCHANGED allVars
    PROVE BaseInv'
<1>1. CacheStep
  BY StepsOfCaches
<1> QED BY <1>1, CacheTypes, LockStep, ChainStep, CycleStep, CallStep, AgeStep DEF BaseInv

\* It holds always.
LEMMA BaseHolds == WatchedSpec => []BaseInv
  BY BaseInit, BaseStep, PTL DEF WatchedSpec

\* The state of the caches keeps its types, whatever the pane does.
THEOREM TypeCorrect == WatchedSpec => []TypeOK
<1>1. BaseInv => TypeOK
  BY DEF BaseInv
<1> QED BY <1>1, BaseHolds, PTL

\* RecordingCache records after the read a value at least as recent as the one the task
\* was served, whatever other threads load and drop in between.
THEOREM HistoryIsRecent == WatchedSpec => []HistoryIsNotOlder
<1>1. ASSUME BaseInv PROVE HistoryIsNotOlder
  <2>1. SUFFICES ASSUME NEW t \in Threads, pc[t] = "record"
                 PROVE LET r == Recorded(call[t].todo[1]) IN r = Missing \/ r.at >= call[t].got.at
    BY DEF HistoryIsNotOlder
  <2> DEFINE e == call[t].todo[1]
             got == call[t].got
  <2>2. TypeOK /\ AgeInv /\ CallAt(t)
    BY <1>1 DEF BaseInv, CallInv
  <2>3. got \in Record /\ Len(call[t].todo) = 1 /\ call[t].todo \in Seq(Entries)
    BY <2>1, <2>2 DEF CallAt, TypeOK, Calls
  <2>4. e \in Entries
    BY <2>3, ElementOfSeq
  <2>5. \A i \in 1 .. Tiers : tier[i][e] # Missing => got.at <= tier[i][e].at
    BY <2>1, <2>2 DEF AgeInv
  <2> HIDE DEF e, got
  <2>6. Peek(e) # Missing => \E i \in 1 .. Tiers : tier[i][e] = Peek(e)
    BY <2>2, <2>4, PeekFacts
  <2>7. Peek(e) # Missing => Peek(e) \in Record
    BY <2>2, <2>4, PeekFacts DEF Slots
  <2>8. Peek(e) # Missing => Peek(e).at >= got.at
    BY <2>3, <2>5, <2>6, <2>7 DEF Record
  <2> QED BY <2>8 DEF Recorded, e, got
<1> QED BY <1>1, BaseHolds, PTL

---------------------------------------------------------------------------
(* Loaders that wait for each other. *)

\* No loaders read each other in a circle; one may read its own entry, and is refused.
NoReadCircle ==
    \A S \in (SUBSET Entries) \ {{}} : \E e \in S : Reads(e) \cap S \subseteq {e}
\* A thread whose read meets its own lock can take the step that refuses it: the guard
\* of Reenter, in the words of ENABLED.
RefusalsProceed ==
    \A t \in Threads : pc[t] = "enter" /\ lock[call[t].goal] = t => Proceeds(t)

\* What a thread waits for is an entry.
LEMMA WantedIsEntry ==
    ASSUME TypeOK, NEW t \in Threads
    PROVE Wants(t) \subseteq Entries
<1>1. call[t] \in Calls
  BY DEF TypeOK
<1>2. call[t].goal \in Entries /\ call[t].todo \in Seq(Entries)
  BY <1>1 DEF Calls
<1>3. \A i \in DOMAIN call[t].todo : call[t].todo[i] \in Entries
  BY <1>2, ElementOfSeq
<1> QED BY <1>2, <1>3 DEF Wants

\* The loader of a chain reads the entry it waits for.
LEMMA AwaitedIsRead ==
    ASSUME NEW st \in Seq(Frame), Chained(st), NEW k \in 1 .. Len(st), NEW e, Awaits(st[k], e)
    PROVE e \in Reads(st[k].entry)
<1>1. st[k].left \in Seq(Entries) /\ st[k].left # <<>>
  <2>1. st[k] \in Frame
    BY ElementOfSeq
  <2> QED BY <2>1 DEF Frame, Awaits
<1>2. 1 \in 1 .. Len(st[k].left) /\ st[k].left[1] = e
  BY <1>1, EmptySeq DEF Awaits
<1> QED BY <1>2 DEF Chained

\* An entry that a waiting thread computes reads another entry that is held: by the
\* thread itself, or by the one it waits for.
LEMMA HeldReadsHeld ==
    ASSUME TypeOK, LockInv, ChainInv, NEW t \in Threads, NEW e \in Entries, lock[e] = t,
           NEW w \in Wants(t), lock[w] # t
    PROVE \E x \in Reads(e) : x # e /\ (lock[x] = t \/ x = w)
<1> DEFINE st == stack[t]
<1>1. ChainAt(t) /\ Chained(st) /\ st \in Seq(Frame)
  BY DEF ChainInv, ChainAt, TypeOK
<1>2. PICK k \in 1 .. Len(st) : st[k].entry = e
  BY DEF LockInv, Holds
<1>3. st # <<>> /\ Len(st) \in Nat \ {0}
  BY <1>1, <1>2, EmptySeq
<1>4. pc[t] = "enter" /\ w = call[t].goal
  BY <1>1, <1>3 DEF ChainAt, Wants
<1>5. CASE k = Len(st)
  <2>1. Awaits(st[k], w)
    BY <1>1, <1>3, <1>4, <1>5 DEF ChainAt, Top
  <2>2. w \in Reads(e)
    BY <1>1, <1>2, <2>1, AwaitedIsRead
  <2> QED BY <2>2
<1>6. CASE k # Len(st)
  <2> DEFINE x == st[k + 1].entry
  <2>1. k \in 1 .. Len(st) - 1 /\ k + 1 \in 1 .. Len(st)
    BY <1>3, <1>6
  <2>2. x \in Reads(e)
    BY <1>1, <1>2, <2>1, AwaitedIsRead DEF Chained
  <2>3. x # e
    BY <1>1, <1>2, <2>1 DEF Chained
  <2>4. x \in Entries
    <3>1. st[k + 1] \in Frame
      BY <1>1, <2>1, ElementOfSeq
    <3> QED BY <3>1 DEF Frame
  <2>5. lock[x] = t
    BY <2>1, <2>4 DEF LockInv, Holds
  <2> QED BY <2>2, <2>3, <2>5
<1> QED BY <1>5, <1>6

\* The field locks are taken while others are held, in the order the loaders happen to
\* read: whatever threads do, no set of them waits in a circle, as long as the reads
\* have none. A thread that waits for itself is the one that BaseCache refuses.
THEOREM LoadersDoNotWaitInCircles ==
    NoReadCircle => (WatchedSpec => [](RefusalsProceed => NoWaitCycle))
<1> SUFFICES ASSUME NoReadCircle
             PROVE WatchedSpec => [](RefusalsProceed => NoWaitCycle)
  OBVIOUS
<1>1. ASSUME BaseInv, RefusalsProceed PROVE NoWaitCycle
  <2>1. SUFFICES ASSUME NEW set \in (SUBSET Threads) \ {{}},
                        \A t \in set : (\E e \in Wants(t) : lock[e] \in set) /\ ~ Proceeds(t)
                 PROVE FALSE
    BY DEF NoWaitCycle
  <2> DEFINE held == {e \in Entries : lock[e] \in set}
  <2>2. TypeOK /\ LockInv /\ ChainInv
    BY <1>1 DEF BaseInv
  <2>3. ASSUME NEW t \in set PROVE \E w \in Wants(t) : w \in held /\ lock[w] # t
    <3>1. PICK w \in Wants(t) : lock[w] \in set
      BY <2>1, <2>3
    <3>2. (pc[t] = "enter" /\ w = call[t].goal) \/ pc[t] = "drop"
      BY <3>1 DEF Wants
    <3>3. w \in Entries
      BY <2>2, <3>1, WantedIsEntry
    <3>4. lock[w] # t
      <4>1. CASE pc[t] = "enter"
        BY <1>1, <2>1, <3>2, <4>1 DEF RefusalsProceed
      <4>2. CASE pc[t] = "drop"
        <5>1. stack[t] = <<>>
          BY <2>2, <4>2 DEF ChainInv, ChainAt
        <5>2. ~ Holds(stack[t], w)
          BY <5>1 DEF Holds
        <5> QED BY <2>2, <3>3, <5>2 DEF LockInv
      <4> QED BY <3>2, <4>1, <4>2
    <3> QED BY <3>1, <3>3, <3>4
  <2>4. held # {}
    <3>1. PICK t \in set : TRUE
      OBVIOUS
    <3> QED BY <2>3, <3>1
  <2>5. ASSUME NEW e \in held PROVE ~ (Reads(e) \cap held \subseteq {e})
    <3>1. PICK t \in set : lock[e] = t
      OBVIOUS
    <3>2. PICK w \in Wants(t) : w \in held /\ lock[w] # t
      BY <2>3
    <3>3. t \in Threads /\ e \in Entries
      OBVIOUS
    <3>4. PICK x \in Reads(e) : x # e /\ (lock[x] = t \/ x = w)
      BY <2>2, <3>1, <3>2, <3>3, HeldReadsHeld
    <3>5. x \in Entries
      BY <3>3, <3>4, ConstantsAssumption, ElementOfSeq DEF Reads
    <3>6. x \in held
      BY <3>2, <3>4, <3>5
    <3> QED BY <3>4, <3>6
  <2> HIDE DEF held
  <2>6. held \in (SUBSET Entries) \ {{}}
    BY <2>4 DEF held
  <2> QED BY <2>5, <2>6 DEF NoReadCircle
<1> QED BY <1>1, BaseHolds, PTL

---------------------------------------------------------------------------
(* The error marks. *)

\* What a step does to the error mark of an entry: a restart and a valid record clear
\* it, a load that failed replaces it, a drop that failed sets it.
Cleared(t, e) ==
    \/ EntryState(e) = "warm"
    \/ /\ stack[t] # <<>> /\ Top(t).left = <<>> /\ e = Top(t).entry
       /\ tier' = Written(e, [gen |-> Top(t).gen, at |-> now], 1)

\* How the error mark of an entry changes.
LEMMA ErrorStep ==
    ASSUME TypeOK, ChainInv, CacheStep, NEW e \in Entries, errors'[e] # errors[e]
    PROVE \/ errors'[e] = "none" /\ (Restart \/ \E t \in Threads : Cleared(t, e))
          \/ errors'[e] = "load" /\ \E t \in Threads : pc[t] = "raise" /\ stack[t] # <<>> /\ e = Top(t).entry
          \/ errors'[e] = "delete" /\ Fault("delete") /\ UNCHANGED <<pc, stack>>
<1>0. errors \in [Entries -> {"none", "load", "delete"}]
  BY DEF TypeOK
<1>1. ~ (Quiet \/ Tick)
  BY DEF Quiet, Tick
<1>2. Restart => errors'[e] = "none"
  BY DEF Restart
<1>3. ASSUME NEW t \in Threads, ThreadStep(t) \/ Call(t)
      PROVE \/ errors'[e] = "none" /\ Cleared(t, e)
            \/ errors'[e] = "load" /\ pc[t] = "raise" /\ stack[t] # <<>> /\ e = Top(t).entry
            \/ errors'[e] = "delete" /\ Fault("delete") /\ UNCHANGED <<pc, stack>>
  <2>1. Serve(t) => errors'[e] = "none" /\ Cleared(t, e)
    BY <1>0 DEF Serve, Cleared
  <2>2. ASSUME Store(t) PROVE errors'[e] = "none" /\ Cleared(t, e)
    <3>1. errors' = [errors EXCEPT ![Top(t).entry] = "none"] /\ Top(t).left = <<>> /\ pc[t] = "load"
          /\ tier' = Written(Top(t).entry, [gen |-> Top(t).gen, at |-> now], 1)
      BY <2>2 DEF Store
    <3>2. stack[t] # <<>>
      BY <3>1 DEF ChainInv, ChainAt
    <3> QED BY <1>0, <3>1, <3>2 DEF Cleared
  <2>3. Unwind(t) => errors'[e] = "load" /\ pc[t] = "raise" /\ stack[t] # <<>> /\ e = Top(t).entry
    BY <1>0 DEF Unwind
  <2>4. ASSUME DropOne(t) PROVE errors'[e] = "delete" /\ Fault("delete") /\ UNCHANGED <<pc, stack>>
    <3>1. PICK i \in 1 .. Len(call[t].todo) :
              UNCHANGED errors \/ (Fault("delete") /\ errors' = [errors EXCEPT ![call[t].todo[i]] = "delete"])
      BY <2>4 DEF DropOne
    <3>2. UNCHANGED <<pc, stack>>
      BY <2>4 DEF DropOne, locks
    <3> QED BY <1>0, <3>1, <3>2
  <2>5. PopulateNext(t) \/ PopulateDone(t) \/ StartLoader(t) \/ Reenter(t) \/ LoaderRead(t) \/ LoaderFails(t)
        \/ Raise(t) \/ RecordRead(t) \/ DropDone(t) => UNCHANGED errors
    BY DEF PopulateNext, PopulateDone, StartLoader, Reenter, LoaderRead, LoaderFails, Raise, RecordRead, DropDone
  <2>6. Call(t) => UNCHANGED errors
    BY DEF Call, Read, Invalidate, Initialize
  <2> QED BY <1>3, <2>1, <2>2, <2>3, <2>4, <2>5, <2>6 DEF ThreadStep
<1> QED BY <1>1, <1>2, <1>3 DEF CacheStep

\* The number of faults grows, and a fault counts.
LEMMA FaultsGrow ==
    ASSUME TypeOK, CacheStep
    PROVE faults \in Nat /\ faults' \in Nat /\ faults <= faults' /\ mode' = mode /\ mode \in Modes
<1>0. faults \in Nat /\ mode \in Modes
  BY ConstantsAssumption DEF TypeOK
<1>1. mode' = mode /\ (faults' = faults \/ faults' = faults + 1)
  <2>1. Quiet \/ Tick \/ Restart => mode' = mode /\ (faults' = faults \/ faults' = faults + 1)
    BY DEF Quiet, Tick, Restart, Fault, env
  <2>2. ASSUME NEW t \in Threads
        PROVE ThreadStep(t) => mode' = mode /\ (faults' = faults \/ faults' = faults + 1)
    BY DEF ThreadStep, PopulateNext, PopulateDone, Serve, StartLoader, Reenter, LoaderRead, LoaderFails,
           Store, Unwind, Raise, RecordRead, DropOne, DropDone, Fault, env
  <2>3. ASSUME NEW t \in Threads PROVE Call(t) => mode' = mode /\ faults' = faults
    BY DEF Call, Read, Invalidate, Initialize, env
  <2> QED BY <2>1, <2>2, <2>3 DEF CacheStep
<1> QED BY <1>0, <1>1

\* How a thread comes to raise: its loader reads what it computes, or a fault; then it
\* leaves its loaders one by one.
LEMMA RaiseStep ==
    ASSUME TypeOK, CacheStep, NEW t \in Threads, pc'[t] = "raise"
    PROVE \/ pc[t] = "raise" /\ stack'[t] = stack[t]
          \/ pc[t] = "raise" /\ stack[t] # <<>> /\ stack'[t] = Below(t)
          \/ pc[t] = "enter" /\ lock[call[t].goal] = t /\ stack'[t] = stack[t]
          \/ Fault("load") \/ Fault("write")
<1> USE DEF Goto, Return
<1>1. pc \in [Threads -> {"idle", "enter", "load", "raise", "record", "drop", "populate"}]
      /\ stack \in [Threads -> Seq(Frame)]
  BY DEF TypeOK
<1>2. Quiet \/ Tick => pc'[t] = pc[t] /\ stack'[t] = stack[t]
  BY DEF Quiet, Tick, locks
<1>3. ~ Restart
  BY DEF Restart
<1>4. CASE \E u \in Threads : u # t /\ (ThreadStep(u) \/ Call(u))
  BY <1>4, OthersStay
<1>5. Serve(t) \/ PopulateNext(t) \/ PopulateDone(t) \/ StartLoader(t) \/ LoaderRead(t)
      \/ Raise(t) \/ RecordRead(t) \/ DropDone(t) => pc'[t] # "raise"
  BY <1>1 DEF Serve, Deliver, PopulateNext, PopulateDone, StartLoader, LoaderRead, Raise, RecordRead, DropDone
<1>6. Call(t) => pc'[t] # "raise"
  BY <1>1 DEF Call, Read, Invalidate, Initialize, Begin
<1>7. Reenter(t) => pc[t] = "enter" /\ lock[call[t].goal] = t /\ stack'[t] = stack[t]
  BY DEF Reenter, locks
<1>8. LoaderFails(t) => Fault("load")
  BY DEF LoaderFails
<1>9. Store(t) => Fault("write")
  BY <1>1 DEF Store, Deliver
<1>10. Unwind(t) => pc[t] = "raise" /\ stack[t] # <<>> /\ stack'[t] = Below(t)
  BY <1>1 DEF Unwind
<1>11. DropOne(t) => pc[t] # "raise" /\ pc' = pc
  BY DEF DropOne
<1> QED BY <1>2, <1>3, <1>4, <1>5, <1>6, <1>7, <1>8, <1>9, <1>10, <1>11 DEF CacheStep, ThreadStep

\* A thread that reads what it computes computes entries of read cycles only.
LEMMA ReenterIsSound ==
    ASSUME TypeOK, LockInv, ChainInv, NEW t \in Threads, pc[t] = "enter", lock[call[t].goal] = t
    PROVE Sound(t)
<1> DEFINE st == stack[t]
           S == {st[k].entry : k \in 1 .. Len(st)}
           goal == call[t].goal
<1>1. ChainAt(t) /\ Chained(st) /\ st \in Seq(Frame) /\ goal \in Entries
  BY DEF ChainInv, ChainAt, TypeOK, Calls
<1>2. goal \in S
  BY <1>1 DEF LockInv, Holds
<1>3. st # <<>> /\ Len(st) \in Nat \ {0}
  BY <1>1, <1>2, EmptySeq
<1>4. Awaits(st[Len(st)], goal)
  BY <1>1, <1>3 DEF ChainAt, Top
<1>5. ASSUME NEW k \in 1 .. Len(st), NEW e, Awaits(st[k], e) PROVE e \in Reads(st[k].entry)
  <2>1. st[k] \in Frame
    BY <1>1, ElementOfSeq
  <2>2. st[k].left \in Seq(Entries) /\ st[k].left # <<>>
    BY <1>5, <2>1 DEF Frame, Awaits
  <2>3. 1 \in 1 .. Len(st[k].left) /\ st[k].left[1] = e
    BY <1>5, <2>2, EmptySeq DEF Awaits
  <2> QED BY <1>1, <2>3 DEF Chained
<1>6. ASSUME NEW k \in 1 .. Len(st) PROVE Reads(st[k].entry) \cap S # {}
  <2>1. CASE k = Len(st)
    BY <1>2, <1>4, <1>5, <2>1
  <2>2. CASE k # Len(st)
    <3>1. k \in 1 .. Len(st) - 1 /\ k + 1 \in 1 .. Len(st)
      BY <1>3, <2>2
    <3>2. Awaits(st[k], st[k + 1].entry)
      BY <1>1, <3>1 DEF Chained
    <3>3. st[k + 1].entry \in S
      BY <3>1
    <3> QED BY <1>5, <3>2, <3>3
  <2> QED BY <2>1, <2>2
<1>7. Circular(S)
  BY <1>6 DEF Circular
<1>8. S \in SUBSET Entries
  <2>1. \A k \in 1 .. Len(st) : st[k] \in Frame
    BY <1>1, ElementOfSeq
  <2> QED BY <2>1 DEF Frame
<1>9. S \subseteq Cyclic
  BY <1>7, <1>8 DEF Cyclic
<1> QED BY <1>9 DEF Sound

\* Every step keeps the marks.
LEMMA MarkStep ==
    ASSUME BaseInv, MarkInv, CacheStep, QuarantineKept
    PROVE MarkInv'
<1>0. TypeOK /\ LockInv /\ ChainInv
  BY DEF BaseInv
<1>1. faults \in Nat /\ faults' \in Nat /\ faults <= faults' /\ mode' = mode /\ mode \in Modes
  BY <1>0, FaultsGrow
<1>2. ASSUME NEW f, Fault(f) PROVE f \in mode /\ faults' >= 1 /\ faults < MaxFaults /\ MaxFaults \in Nat
  BY <1>1, <1>2, ConstantsAssumption DEF Fault
<1>3. ASSUME NEW e \in Entries, errors'[e] = "delete"
      PROVE /\ "delete" \in mode /\ faults' >= 1
            /\ errors[e] = "delete" \/ (Fault("delete") /\ UNCHANGED <<pc, stack>>)
  <2>1. CASE errors'[e] = errors[e]
    BY <1>1, <1>3, <2>1 DEF MarkInv
  <2>2. CASE errors'[e] # errors[e]
    <3>1. Fault("delete") /\ UNCHANGED <<pc, stack>>
      BY <1>0, <1>3, <2>2, ErrorStep
    <3> QED BY <1>2, <3>1
  <2> QED BY <2>1, <2>2
<1>4. ASSUME NEW t \in Threads, pc'[t] = "raise"
      PROVE \/ Sound(t)'
            \/ pc[t] = "raise" /\ ~ Sound(t) /\ faults >= 1 /\ mode \cap Losing # {}
            \/ \E f \in Losing : Fault(f)
  <2>1. CASE pc[t] = "raise" /\ stack'[t] = stack[t]
    BY <2>1 DEF MarkInv, Sound
  <2>2. CASE pc[t] = "raise" /\ stack[t] # <<>> /\ stack'[t] = Below(t)
    <3>1. Sound(t) => Sound(t)'
      <4>1. /\ \A k \in 1 .. Len(Below(t)) : Below(t)[k] = stack[t][k]
            /\ Len(Below(t)) = Len(stack[t]) - 1 /\ Len(stack[t]) \in Nat \ {0}
        BY <1>0, <2>2, BelowFacts
      <4>2. \A k \in 1 .. Len(Below(t)) : k \in 1 .. Len(stack[t])
        BY <4>1
      <4> QED BY <2>2, <4>1, <4>2 DEF Sound
    <3> QED BY <2>2, <3>1 DEF MarkInv
  <2>3. CASE pc[t] = "enter" /\ lock[call[t].goal] = t /\ stack'[t] = stack[t]
    BY <1>0, <2>3, ReenterIsSound DEF Sound
  <2> QED BY <1>0, <1>4, <2>1, <2>2, <2>3, RaiseStep DEF Losing
<1>5. ASSUME NEW t \in Threads, pc'[t] = "raise", ~ Sound(t)'
      PROVE faults' >= 1 /\ mode \cap Losing # {}
  <2>1. CASE pc[t] = "raise" /\ ~ Sound(t) /\ faults >= 1 /\ mode \cap Losing # {}
    BY <1>1, <2>1
  <2>2. ASSUME NEW f \in Losing, Fault(f) PROVE faults' >= 1 /\ mode \cap Losing # {}
    BY <1>2, <2>2
  <2> QED BY <1>4, <1>5, <2>1, <2>2
<1>6. ASSUME NEW e \in Entries, NEW t \in Threads, errors'[e] = "delete", pc'[t] = "raise", ~ Sound(t)'
      PROVE FALSE
  <2>1. "delete" \in mode /\ mode \cap Losing # {}
    BY <1>3, <1>5, <1>6
  <2>2. MaxFaults <= 1
    BY <1>1, <2>1 DEF QuarantineKept
  <2>3. ASSUME NEW f, Fault(f) PROVE faults = 0
    BY <1>1, <1>2, <2>2, <2>3
  <2>4. CASE errors[e] = "delete"
    <3>1. faults >= 1
      BY <2>4 DEF MarkInv
    <3>2. pc[t] = "raise" /\ ~ Sound(t)
      BY <1>1, <1>4, <1>6, <2>3, <3>1
    <3> QED BY <2>4, <3>2 DEF MarkInv
  <2>5. CASE Fault("delete") /\ UNCHANGED <<pc, stack>>
    <3>1. faults = 0
      BY <2>3, <2>5
    <3>2. pc[t] = "raise" /\ ~ Sound(t)
      BY <1>6, <2>5 DEF Sound
    <3> QED BY <3>1, <3>2 DEF MarkInv
  <2> QED BY <1>3, <1>6, <2>4, <2>5
<1> QED BY <1>1, <1>3, <1>5, <1>6 DEF MarkInv

---------------------------------------------------------------------------
(* The floors. *)

\* A cascade step of a thread drops the i-th entry of what is left of its order.
Drops(t, i) ==
    LET e == call[t].todo[i] IN
    /\ i \in 1 .. Len(call[t].todo) /\ e \in Entries
    /\ pc[t] = "drop" /\ lock[e] = Free /\ NextDrop(call[t], i)
    /\ \/ \A k \in 1 .. Tiers : tier'[k][e] = Missing
       \/ errors'[e] = "delete"
    /\ call'[t].todo = SubSeq(call[t].todo, i + 1, Len(call[t].todo))
    /\ call'[t].due = call[t].due /\ call'[t].drops = call[t].drops
    /\ floor' = IF e \in Renewed(call[t].drops) /\ floor[e] < call[t].due
                THEN [floor EXCEPT ![e] = call[t].due] ELSE floor
    /\ UNCHANGED <<pc, stack, now>>

\* A step of a cascade is one of these drops.
LEMMA DropOneDrops ==
    ASSUME TypeOK, NEW t \in Threads, DropOne(t)
    PROVE \E i \in Nat : Drops(t, i)
<1>1. PICK i \in 1 .. Len(call[t].todo) :
          LET e == call[t].todo[i]
              renewed == e \in Renewed(call[t].drops) /\ floor[e] < call[t].due
          IN
          /\ pc[t] = "drop" /\ NextDrop(call[t], i) /\ lock[e] = Free
          /\ \/ /\ tier' = Deleted(e, {})
                /\ UNCHANGED <<errors, faults>>
             \/ /\ Fault("delete")
                /\ \E kept \in (SUBSET (1 .. Tiers)) \ {{}} : tier' = Deleted(e, kept)
                /\ errors' = [errors EXCEPT ![e] = "delete"]
          /\ call' = [call EXCEPT ![t].todo = SubSeq(@, i + 1, Len(@))]
          /\ floor' = IF renewed THEN [floor EXCEPT ![e] = call[t].due] ELSE floor
          /\ UNCHANGED <<pc, ops, locks, global, env>>
  BY DEF DropOne
<1> DEFINE e == call[t].todo[i]
<1>2. call[t] \in Calls /\ call[t].todo \in Seq(Entries) /\ e \in Entries
  <2>1. call[t] \in Calls /\ call[t].todo \in Seq(Entries)
    BY DEF TypeOK, Calls
  <2> QED BY <2>1, ElementOfSeq
<1>3. i \in Nat /\ i \in 1 .. Len(call[t].todo)
  BY <1>2
<1>4. (\A k \in 1 .. Tiers : tier'[k][e] = Missing) \/ errors'[e] = "delete"
  <2>1. tier' = Deleted(e, {}) => \A k \in 1 .. Tiers : tier'[k][e] = Missing
    BY <1>2, DeletedFacts
  <2> QED BY <1>1, <1>2, <2>1 DEF TypeOK
<1>5. /\ call'[t].todo = SubSeq(call[t].todo, i + 1, Len(call[t].todo))
      /\ call'[t].due = call[t].due /\ call'[t].drops = call[t].drops
  <2>1. call'[t] = [call[t] EXCEPT !.todo = SubSeq(call[t].todo, i + 1, Len(call[t].todo))]
    BY <1>1 DEF TypeOK
  <2> QED BY <1>2, <2>1 DEF Calls
<1>6. UNCHANGED <<pc, stack, now>>
  BY <1>1 DEF locks, env
<1>7. Drops(t, i)
  BY <1>1, <1>2, <1>3, <1>4, <1>5, <1>6 DEF Drops
<1> QED BY <1>3, <1>7

\* Only a cascade moves a floor.
LEMMA FloorMoves ==
    ASSUME TypeOK, CacheStep, NEW e \in Entries, floor'[e] # floor[e]
    PROVE \E t \in Threads : \E i \in Nat :
              /\ Drops(t, i) /\ call[t].todo[i] = e /\ e \in Renewed(call[t].drops)
              /\ floor'[e] = call[t].due /\ floor[e] < call[t].due
<1>1. ~ (Quiet \/ Tick \/ Restart)
  BY DEF Quiet, Tick, Restart
<1>2. ASSUME NEW t \in Threads, ThreadStep(t) \/ Call(t) PROVE DropOne(t)
  <2>1. Call(t) => UNCHANGED floor
    BY DEF Call, Read, Invalidate, Initialize
  <2> QED BY <1>2, <2>1 DEF ThreadStep, PopulateNext, PopulateDone, Serve, StartLoader, Reenter, LoaderRead,
        LoaderFails, Store, Unwind, Raise, RecordRead, DropDone
<1>3. PICK t \in Threads : DropOne(t)
  BY <1>1, <1>2 DEF CacheStep
<1>4. PICK i \in Nat : Drops(t, i)
  BY <1>3, DropOneDrops
<1>5. floor' = [floor EXCEPT ![call[t].todo[i]] = call[t].due] /\ call[t].todo[i] \in Renewed(call[t].drops)
      /\ floor[call[t].todo[i]] < call[t].due
  BY <1>4 DEF Drops
<1>6. call[t].todo[i] = e /\ floor'[e] = call[t].due
  BY <1>5 DEF TypeOK
<1> QED BY <1>4, <1>5, <1>6

\* A floor never sinks.
LEMMA FloorGrows ==
    ASSUME TypeOK, CacheStep, NEW e \in Entries
    PROVE floor[e] \in Nat /\ floor'[e] \in Nat /\ floor[e] <= floor'[e]
<1>1. floor[e] \in Nat
  BY ConstantsAssumption DEF TypeOK
<1>2. ASSUME NEW t \in Threads PROVE call[t].due \in Nat
  BY ConstantsAssumption DEF TypeOK, Calls
<1> QED BY <1>1, <1>2, FloorMoves

\* What a renewed entry reads is renewed.
LEMMA RenewedFacts ==
    ASSUME NEW set \in SUBSET Entries, NEW e \in Renewed(set)
    PROVE e \in set /\ Reads(e) \subseteq Renewed(set)
  BY DEF Renewed, Reads

\* What the cascade has still to do, after a step.
LEMMA DropCallStep ==
    ASSUME TypeOK, CacheStep, NEW t \in Threads, pc'[t] = "drop"
    PROVE \/ pc[t] = "drop" /\ call'[t] = call[t]
          \/ \E i \in Nat : Drops(t, i)
          \/ call'[t].todo = Topological /\ call'[t].due = now /\ now' = now
<1> USE DEF Goto, Return
<1>1. pc \in [Threads -> {"idle", "enter", "load", "raise", "record", "drop", "populate"}]
      /\ call \in [Threads -> Calls]
  BY DEF TypeOK
<1>2. Quiet \/ Tick => pc'[t] = pc[t] /\ call'[t] = call[t]
  BY DEF Quiet, Tick
<1>3. ~ Restart
  BY DEF Restart
<1>4. CASE \E u \in Threads : u # t /\ (ThreadStep(u) \/ Call(u))
  BY <1>4, OthersStay
<1>5. Serve(t) \/ PopulateNext(t) \/ PopulateDone(t) \/ StartLoader(t) \/ LoaderRead(t) \/ Reenter(t)
      \/ LoaderFails(t) \/ Store(t) \/ Raise(t) \/ RecordRead(t) \/ DropDone(t) => pc'[t] # "drop"
  BY <1>1 DEF Serve, Deliver, PopulateNext, PopulateDone, StartLoader, LoaderRead, Reenter, LoaderFails,
        Store, Raise, RecordRead, DropDone
<1>6. Unwind(t) => pc'[t] = "raise"
  BY <1>1 DEF Unwind
<1>7. DropOne(t) => \E i \in Nat : Drops(t, i)
  BY DropOneDrops
<1>8. CASE Call(t)
  <2>1. ASSUME NEW e, Read(t, e) PROVE pc'[t] # "drop"
    BY <1>1, <2>1 DEF Read, Begin
  <2>2. ASSUME NEW names, Invalidate(t, names)
        PROVE call'[t].todo = Topological /\ call'[t].due = now /\ now' = now
    BY <1>1, <2>2 DEF Invalidate, Begin, NoCall, env, CascadeOrder
  <2>3. ASSUME Initialize(t)
        PROVE pc'[t] # "drop" \/ (call'[t].todo = Topological /\ call'[t].due = now /\ now' = now)
    BY ZenonT(30), <1>1, <2>3 DEF Initialize, Begin, NoCall, env, CascadeOrder
  <2> QED BY <1>8, <2>1, <2>2, <2>3 DEF Call
<1> QED BY <1>2, <1>3, <1>4, <1>5, <1>6, <1>7, <1>8 DEF CacheStep, ThreadStep

\* Every step keeps what a cascade has renewed, and what it will.
LEMMA DropStep ==
    ASSUME TypeOK, FloorInv, CacheStep, ReadsInOrder, NEW t \in Threads
    PROVE DropAt(t)'
<1>0. /\ call[t] \in Calls /\ call[t].todo \in Seq(Entries) /\ call[t].due \in Nat
      /\ call[t].drops \in SUBSET Entries /\ now \in Nat /\ now' \in Nat /\ now <= now'
  <2>1. call[t] \in Calls
    BY DEF TypeOK
  <2>2. call[t].todo \in Seq(Entries) /\ call[t].due \in 0 .. MaxNow /\ call[t].drops \in SUBSET Entries
    BY <2>1 DEF Calls
  <2>3. call[t].due \in Nat
    BY <2>2, ConstantsAssumption
  <2> QED BY <2>1, <2>2, <2>3, NowGrows
<1>1. \A e \in Entries : floor[e] \in Nat /\ floor'[e] \in Nat /\ floor[e] <= floor'[e]
  BY FloorGrows
<1>2. \A e \in Entries : Reads(e) \subseteq Entries
  <2>1. ASSUME NEW e \in Entries, NEW x \in Reads(e) PROVE x \in Entries
    <3>1. LoaderReads[e] \in Seq(Entries)
      BY ConstantsAssumption
    <3> QED BY <2>1, <3>1, ElementOfSeq DEF Reads
  <2> QED BY <2>1
<1> SUFFICES ASSUME pc'[t] = "drop"
             PROVE /\ call'[t].due <= now'
                   /\ \A i \in 1 .. Len(call'[t].todo) :
                         call'[t].todo[i] \in Renewed(call'[t].drops) \ Cyclic =>
                             \A x \in Reads(call'[t].todo[i]) :
                                 \/ call'[t].due <= floor'[x]
                                 \/ \E j \in 1 .. i - 1 : call'[t].todo[j] = x
  BY DEF DropAt, Pending
<1>3. CASE pc[t] = "drop" /\ call'[t] = call[t]
  <2>1. DropAt(t)
    BY DEF FloorInv
  <2>2. call[t].due <= now'
    BY <1>0, <1>3, <2>1 DEF DropAt
  <2>3. ASSUME NEW i \in 1 .. Len(call[t].todo), call[t].todo[i] \in Renewed(call[t].drops) \ Cyclic,
               NEW x \in Reads(call[t].todo[i])
        PROVE call[t].due <= floor'[x] \/ \E j \in 1 .. i - 1 : call[t].todo[j] = x
    <3>1. call[t].due <= floor[x] \/ \E j \in 1 .. i - 1 : call[t].todo[j] = x
      BY <1>3, <2>1, <2>3 DEF DropAt, Pending
    <3>2. x \in Entries
      BY <1>0, <1>2, ElementOfSeq
    <3> QED BY <1>0, <1>1, <3>1, <3>2
  <2> QED BY <1>3, <2>2, <2>3
<1>4. ASSUME NEW i \in Nat, Drops(t, i)
      PROVE /\ call'[t].due <= now'
            /\ \A k \in 1 .. Len(call'[t].todo) :
                  call'[t].todo[k] \in Renewed(call'[t].drops) \ Cyclic =>
                      \A x \in Reads(call'[t].todo[k]) :
                          \/ call'[t].due <= floor'[x]
                          \/ \E j \in 1 .. k - 1 : call'[t].todo[j] = x
  <2> DEFINE todo == call[t].todo
             rest == SubSeq(todo, i + 1, Len(todo))
             due == call[t].due
             drops == call[t].drops
             n == Len(todo)
  <2>1. DropAt(t)
    BY DEF FloorInv
  <2>2. i \in 1 .. n /\ n \in Nat /\ pc[t] = "drop" /\ call'[t].todo = rest
        /\ call'[t].due = due /\ call'[t].drops = drops
    BY <1>0, <1>4 DEF Drops
  <2>3. rest \in Seq(Entries) /\ Len(rest) = n - i /\ \A k \in 1 .. n - i : rest[k] = todo[i + k]
    <3> HIDE DEF n, rest
    <3>1. todo \in Seq(Entries) /\ i \in 1 .. Len(todo)
      BY <1>0, <2>2 DEF n
    <3> HIDE DEF todo
    <3> QED BY <3>1, RestFacts DEF n, rest
  <2>4. due <= now'
    BY <1>0, <2>1, <2>2 DEF DropAt
  <2>5. ASSUME NEW k \in 1 .. n - i, rest[k] \in Renewed(drops) \ Cyclic, NEW x \in Reads(rest[k])
        PROVE due <= floor'[x] \/ \E j \in 1 .. k - 1 : rest[j] = x
    <3>1. i + k \in 1 .. n /\ rest[k] = todo[i + k]
      BY <2>2, <2>3
    <3>2. due <= floor[x] \/ \E j \in 1 .. (i + k) - 1 : todo[j] = x
      BY <2>1, <2>2, <2>5, <3>1 DEF DropAt, Pending
    <3>3. rest[k] \in Entries /\ x \in Entries
      BY <1>0, <1>2, <3>1, ElementOfSeq
    <3>4. x \in Renewed(drops) /\ x \in drops
      BY <1>0, <2>5, RenewedFacts
    <3>5. CASE due <= floor[x]
      BY <1>0, <1>1, <3>3, <3>5
    <3>6. ASSUME NEW j \in 1 .. (i + k) - 1, todo[j] = x
          PROVE due <= floor'[x] \/ \E m \in 1 .. k - 1 : rest[m] = x
      <4>1. CASE j < i
        <5>1. j \in 1 .. i - 1
          BY <2>2, <4>1
        <5> QED BY <1>4, <3>4, <3>6, <5>1 DEF Drops, NextDrop
      <4>2. CASE j = i
        <5>1. floor' = IF floor[x] < due THEN [floor EXCEPT ![x] = due] ELSE floor
          BY <1>4, <3>4, <3>6, <4>2 DEF Drops
        <5>2. floor'[x] = IF floor[x] < due THEN due ELSE floor[x]
          BY <3>3, <5>1 DEF TypeOK
        <5> QED BY <1>0, <1>1, <3>3, <5>2
      <4>3. CASE j > i
        <5>1. j - i \in 1 .. k - 1 /\ j - i \in 1 .. n - i /\ i + (j - i) = j
          BY <2>2, <4>3
        <5>2. rest[j - i] = x
          BY <2>3, <3>6, <5>1
        <5> QED BY <5>1, <5>2
      <4>4. i \in Int /\ j \in Int
        BY <2>2
      <4>5. j < i \/ j = i \/ j > i
        BY <4>4
      <4> QED BY <4>1, <4>2, <4>3, <4>5
    <3> QED BY <3>2, <3>5, <3>6
  <2> HIDE DEF rest, due, drops, n
  <2> QED BY <2>2, <2>3, <2>4, <2>5
<1>5. CASE call'[t].todo = Topological /\ call'[t].due = now /\ now' = now
  <2>1. \A i \in 1 .. Len(Topological) : Topological[i] \notin Cyclic =>
            \A x \in Reads(Topological[i]) : \E j \in 1 .. i - 1 : Topological[j] = x
    BY DEF ReadsInOrder
  <2>2. \A i \in 1 .. Len(call'[t].todo) : call'[t].todo[i] \notin Cyclic =>
            \A x \in Reads(call'[t].todo[i]) : \E j \in 1 .. i - 1 : call'[t].todo[j] = x
    BY <1>5, <2>1
  <2>3. call'[t].due <= now'
    BY <1>0, <1>5
  <2> QED BY <2>2, <2>3
<1> QED BY <1>3, <1>4, <1>5, DropCallStep

\* A loader took a value of what it reads: its own value gets no newer.
LEMMA DeliverFrames ==
    ASSUME TypeOK, NEW t \in Threads, NEW st \in Seq(Frame), NEW r \in Record,
           st # <<>> => st[Len(st)].left # <<>>, Deliver(t, st, r), NEW k \in 1 .. Len(stack'[t])
    PROVE /\ k \in 1 .. Len(st)
          /\ \/ stack'[t][k] = st[k]
             \/ /\ k = Len(st) /\ stack'[t][k].entry = st[k].entry
                /\ stack'[t][k].gen = Older(st[k].gen, r.gen)
<1>1. CASE st = <<>>
  <2>1. stack'[t] = <<>>
    BY <1>1 DEF Deliver, TypeOK
  <2> QED BY <2>1, EmptySeq
<1>2. CASE st # <<>>
  <2> DEFINE top == st[Len(st)]
             g == [top EXCEPT !.left = Tail(top.left), !.gen = Older(top.gen, r.gen)]
             b == [st EXCEPT ![Len(st)] = g]
  <2>1. stack'[t] = b
    BY <1>2 DEF Deliver, TypeOK
  <2>2. Len(st) \in 1 .. Len(st) /\ top \in Frame
    BY <1>2, EmptySeq, ElementOfSeq
  <2>3. g \in Frame /\ g.entry = top.entry /\ g.gen = Older(top.gen, r.gen)
    BY <1>2, <2>2, TakenFrame
  <2> HIDE DEF g
  <2>4. Len(b) = Len(st) /\ \A m \in 1 .. Len(st) : b[m] = IF m = Len(st) THEN g ELSE st[m]
    BY <1>2, <2>3, TopFacts
  <2> HIDE DEF b
  <2> QED BY <2>1, <2>3, <2>4
<1> QED BY <1>1, <1>2

\* What a loader waits for is what it reads.
LEMMA AwaitsReads ==
    ASSUME NEW st \in Seq(Frame), Chained(st), NEW k \in 1 .. Len(st), NEW e, Awaits(st[k], e)
    PROVE e \in Reads(st[k].entry)
<1>1. st[k] \in Frame
  BY ElementOfSeq
<1>2. st[k].left \in Seq(Entries) /\ st[k].left # <<>>
  BY <1>1 DEF Frame, Awaits
<1>3. 1 \in 1 .. Len(st[k].left) /\ st[k].left[1] = e
  BY <1>2, EmptySeq DEF Awaits
<1> QED BY <1>3 DEF Chained

\* Where the loader of a frame comes from: it ran before, it has just started, or it
\* took a value that was served to it.
LEMMA FrameStep ==
    ASSUME TypeOK, ChainInv, CacheStep, NEW t \in Threads, NEW k \in 1 .. Len(stack'[t])
    PROVE \/ k \in 1 .. Len(stack[t]) /\ stack'[t][k] = stack[t][k]
          \/ /\ stack'[t][k].entry \in Entries /\ stack'[t][k].gen = now /\ floor' = floor
          \/ /\ k \in 1 .. Len(stack[t]) /\ stack'[t][k].entry = stack[t][k].entry /\ floor' = floor
             /\ \E x \in Reads(stack[t][k].entry), r \in Record :
                    Served(t, x, r) /\ stack'[t][k].gen = Older(stack[t][k].gen, r.gen)
<1> DEFINE goal == call[t].goal
<1>0. ChainAt(t) /\ Chained(stack[t]) /\ stack[t] \in Seq(Frame) /\ goal \in Entries /\ stack \in [Threads -> Seq(Frame)]
  BY DEF ChainInv, ChainAt, TypeOK, Calls
<1>1. CASE stack'[t] = stack[t]
  BY <1>1
<1>2. Quiet \/ Tick => stack'[t] = stack[t]
  BY DEF Quiet, Tick, locks
<1>3. Restart => stack'[t] = <<>>
  BY DEF Restart
<1>4. stack'[t] # <<>>
  BY EmptySeq
<1>5. ASSUME NEW u \in Threads, u # t, ThreadStep(u) \/ Call(u) PROVE stack'[t] = stack[t]
  BY <1>5, OthersStay
<1>6. CASE Serve(t)
  <2> DEFINE r == Peek(goal)
  <2>1. EntryState(goal) = "warm" /\ pc[t] = "enter" /\ Deliver(t, stack[t], r) /\ tier' = Promoted(goal)
        /\ floor' = floor
    BY <1>6 DEF Serve
  <2>2. r \in Record
    BY <1>0, <2>1, PeekFacts DEF EntryState, Slots
  <2>3. stack[t] # <<>> => Awaits(stack[t][Len(stack[t])], goal)
    BY <1>0, <2>1 DEF ChainAt, Top
  <2>4. stack[t] # <<>> => stack[t][Len(stack[t])].left # <<>>
    BY <2>3 DEF Awaits
  <2>5. Served(t, goal, r)
    BY <2>1, <2>2 DEF Served
  <2> HIDE DEF r, goal
  <2>6. /\ k \in 1 .. Len(stack[t])
        /\ \/ stack'[t][k] = stack[t][k]
           \/ /\ k = Len(stack[t]) /\ stack'[t][k].entry = stack[t][k].entry
              /\ stack'[t][k].gen = Older(stack[t][k].gen, r.gen)
    BY <1>0, <2>1, <2>2, <2>4, DeliverFrames
  <2>7. CASE k = Len(stack[t])
    <3>1. stack[t] # <<>>
      BY <2>6, EmptySeq
    <3>2. goal \in Reads(stack[t][k].entry)
      BY <1>0, <2>3, <2>6, <2>7, <3>1, AwaitsReads
    <3> QED BY <2>1, <2>2, <2>5, <2>6, <3>2
  <2> QED BY <2>6, <2>7
<1>7. CASE StartLoader(t)
  <2> DEFINE f == [entry |-> goal, left |-> LoaderReads[goal], gen |-> now]
  <2>1. stack'[t] = Append(stack[t], f) /\ floor' = floor
    BY <1>0, <1>7 DEF StartLoader
  <2>2. f \in Frame /\ f.entry = goal /\ f.gen = now
    BY <1>0, ConstantsAssumption DEF Frame, TypeOK
  <2> HIDE DEF f
  <2>3. Len(stack'[t]) = Len(stack[t]) + 1 /\ Len(stack[t]) \in Nat
        /\ stack'[t][Len(stack[t]) + 1] = f /\ \A m \in 1 .. Len(stack[t]) : stack'[t][m] = stack[t][m]
    BY <1>0, <2>1, <2>2, PushFacts
  <2>4. k \in 1 .. Len(stack[t]) \/ k = Len(stack[t]) + 1
    BY <2>3
  <2> QED BY <1>0, <2>1, <2>2, <2>3, <2>4
<1>8. CASE Store(t) \/ Unwind(t)
  <2> DEFINE x == Top(t).entry
             r == [gen |-> Top(t).gen, at |-> now]
             n == Len(stack[t]) - 1
  <2>1. stack[t] # <<>> /\ floor' = floor
        /\ \/ Deliver(t, Below(t), r) /\ Top(t).left = <<>> /\ tier' = Written(x, r, 1)
           \/ stack'[t] = Below(t)
    BY <1>0, <1>8 DEF Store, Unwind, ChainAt
  <2>2. r \in Record
    BY <2>1, TopIsFrame DEF Record, TypeOK
  <2>3. /\ Below(t) \in Seq(Frame) /\ (Below(t) # <<>> => Awaits(Below(t)[Len(Below(t))], x))
        /\ \A m \in 1 .. Len(Below(t)) : Below(t)[m] = stack[t][m]
        /\ Len(Below(t)) = Len(stack[t]) - 1 /\ Len(stack[t]) \in Nat \ {0}
    BY <2>1, BelowFacts
  <2>4. Below(t) # <<>> => Below(t)[Len(Below(t))].left # <<>>
    BY <2>3 DEF Awaits
  <2>5. \A m \in 1 .. Len(Below(t)) : m \in 1 .. Len(stack[t])
    BY <2>3
  <2>6. CASE stack'[t] = Below(t)
    BY <2>3, <2>5, <2>6
  <2>7. CASE Deliver(t, Below(t), r) /\ Top(t).left = <<>> /\ tier' = Written(x, r, 1)
    <3>1. Served(t, x, r)
      BY <2>1, <2>2, <2>7 DEF Served
    <3> HIDE DEF r, x
    <3>2. /\ k \in 1 .. Len(Below(t))
          /\ \/ stack'[t][k] = Below(t)[k]
             \/ /\ k = Len(Below(t)) /\ stack'[t][k].entry = Below(t)[k].entry
                /\ stack'[t][k].gen = Older(Below(t)[k].gen, r.gen)
      BY <2>2, <2>3, <2>4, <2>7, DeliverFrames
    <3>3. CASE k = Len(Below(t))
      <4>1. Below(t) # <<>>
        BY <3>2, EmptySeq
      <4>2. Chained(Below(t))
        BY <1>0, <2>1, PopChained DEF Below
      <4>3. x \in Reads(Below(t)[k].entry)
        BY <2>3, <3>2, <3>3, <4>1, <4>2, AwaitsReads
      <4> QED BY <2>1, <2>2, <2>3, <2>5, <3>1, <3>2, <4>3
    <3> QED BY <2>3, <2>5, <3>2, <3>3
  <2> QED BY <2>1, <2>6, <2>7
<1>9. PopulateNext(t) \/ PopulateDone(t) \/ Reenter(t) \/ LoaderRead(t) \/ LoaderFails(t)
      \/ Raise(t) \/ RecordRead(t) \/ DropOne(t) \/ DropDone(t) => stack'[t] = stack[t]
  BY DEF PopulateNext, PopulateDone, Reenter, LoaderRead, LoaderFails, Raise, RecordRead, DropOne, DropDone, locks
<1>10. Call(t) => stack'[t] = stack[t]
  BY DEF Call, Read, Invalidate, Initialize, locks
<1> QED BY <1>1, <1>2, <1>3, <1>4, <1>5, <1>6, <1>7, <1>8, <1>9, <1>10 DEF CacheStep, ThreadStep

\* A read serves nothing from before the floor of its entry.
LEMMA ServedIsNew ==
    ASSUME BaseInv, FloorInv, NEW t \in Threads, NEW x \in Entries, NEW r, Served(t, x, r)
    PROVE r \in Record /\ floor[x] <= r.gen
<1>0. TypeOK /\ ChainInv
  BY DEF BaseInv
<1>1. CASE Peek(x) = r /\ r \in Record /\ EntryState(x) = "warm"
  <2>1. errors[x] # "delete"
    BY <1>1 DEF EntryState
  <2>2. r # Missing
    BY <1>1, ConstantsAssumption
  <2>3. PICK i \in 1 .. Tiers : tier[i][x] = r
    BY <1>0, <1>1, <2>2, PeekFacts
  <2> QED BY <1>1, <2>1, <2>2, <2>3 DEF FloorInv
<1>2. CASE /\ stack[t] # <<>> /\ Top(t).left = <<>> /\ x = Top(t).entry
           /\ r = [gen |-> Top(t).gen, at |-> now] /\ r \in Record
  <2>1. x \notin Cyclic
    BY <1>0, <1>2, StoredIsAcyclic
  <2>2. Len(stack[t]) \in 1 .. Len(stack[t])
    BY <1>0, <1>2, TopIsFrame
  <2> QED BY <1>2, <2>1, <2>2 DEF FloorInv, Top
<1> QED BY <1>1, <1>2 DEF Served

\* Every step keeps every record and every loader above the floors.
LEMMA FloorStep ==
    ASSUME BaseInv, MarkInv, FloorInv, CacheStep, ReadsInOrder, QuarantineKept
    PROVE FloorInv'
<1>0. TypeOK /\ LockInv /\ ChainInv /\ CycleInv /\ LockInv'
  BY LockStep DEF BaseInv
<1>1. \A e \in Entries : floor[e] \in Nat /\ floor'[e] \in Nat /\ floor[e] <= floor'[e]
  BY <1>0, FloorGrows
<1>2. now \in Nat /\ now' \in Nat /\ now <= now'
  BY <1>0, NowGrows
<1>3. ASSUME NEW e \in Entries, NEW x \in Reads(e) PROVE x \in Entries
  <2>1. LoaderReads[e] \in Seq(Entries)
    BY ConstantsAssumption
  <2> QED BY <1>3, <2>1, ElementOfSeq DEF Reads
<1>4. ASSUME NEW e \in Entries PROVE floor'[e] <= now'
  <2>1. CASE floor'[e] = floor[e]
    BY <1>1, <1>2, <2>1 DEF FloorInv
  <2>2. CASE floor'[e] # floor[e]
    <3>1. PICK t \in Threads, i \in Nat : Drops(t, i) /\ floor'[e] = call[t].due
      BY <1>0, <2>2, FloorMoves
    <3>2. call[t].due <= now
      BY <3>1 DEF Drops, FloorInv, DropAt
    <3> QED BY <1>1, <1>2, <3>1, <3>2
  <2> QED BY <2>1, <2>2
<1>5. ASSUME NEW e \in Entries \ Cyclic, NEW x \in Reads(e) PROVE floor'[e] <= floor'[x]
  <2>0. x \in Entries
    BY <1>3
  <2>1. CASE floor'[e] = floor[e]
    BY <1>1, <2>0, <2>1 DEF FloorInv
  <2>2. CASE floor'[e] # floor[e]
    <3>1. PICK t \in Threads, i \in Nat : /\ Drops(t, i) /\ call[t].todo[i] = e
              /\ e \in Renewed(call[t].drops) /\ floor'[e] = call[t].due
      BY <1>0, <2>2, FloorMoves
    <3>2. call[t].due <= floor[x] \/ \E j \in 1 .. i - 1 : call[t].todo[j] = x
      BY <3>1 DEF Drops, FloorInv, DropAt, Pending
    <3>3. x \in call[t].drops
      <4>1. call[t] \in Calls /\ call[t].drops \in SUBSET Entries
        BY <1>0 DEF TypeOK, Calls
      <4>2. x \in Renewed(call[t].drops)
        BY <3>1, <4>1, RenewedFacts
      <4> QED BY <4>1, <4>2, RenewedFacts
    <3>4. call[t].due <= floor[x]
      BY <3>1, <3>2, <3>3 DEF Drops, NextDrop
    <3> QED BY <1>1, <2>0, <3>1, <3>4
  <2> QED BY <2>1, <2>2
<1>6. ASSUME NEW t \in Threads, NEW k \in 1 .. Len(stack'[t]), stack'[t][k].entry \notin Cyclic
      PROVE floor'[stack'[t][k].entry] <= stack'[t][k].gen
  <2> DEFINE e == stack'[t][k].entry
             gen == stack'[t][k].gen
  <2>1. CASE k \in 1 .. Len(stack[t]) /\ stack'[t][k] = stack[t][k]
    <3>1. floor[e] <= gen
      BY <1>6, <2>1 DEF FloorInv
    <3>2. e \in Entries
      <4>1. stack[t] \in Seq(Frame)
        BY <1>0 DEF TypeOK
      <4>2. stack[t][k] \in Frame
        BY <2>1, <4>1, ElementOfSeq
      <4> QED BY <2>1, <4>2 DEF Frame
    <3>3. lock[e] = t
      BY <1>0, <2>1, <3>2 DEF LockInv, Holds
    <3>4. floor'[e] = floor[e]
      <4>1. ASSUME floor'[e] # floor[e] PROVE lock[e] = Free
        <5>1. PICK u \in Threads, i \in Nat : Drops(u, i) /\ call[u].todo[i] = e
          <6> HIDE DEF e
          <6> QED BY <1>0, <3>2, <4>1, FloorMoves
        <5> QED BY <5>1 DEF Drops
      <4> QED BY <3>3, <4>1, ConstantsAssumption
    <3> QED BY <3>1, <3>4
  <2>2. CASE e \in Entries /\ gen = now /\ floor' = floor
    BY <2>2 DEF FloorInv
  <2>3. CASE /\ k \in 1 .. Len(stack[t]) /\ e = stack[t][k].entry /\ floor' = floor
             /\ \E x \in Reads(stack[t][k].entry), r \in Record :
                    Served(t, x, r) /\ gen = Older(stack[t][k].gen, r.gen)
    <3>1. PICK x \in Reads(e), r \in Record : Served(t, x, r) /\ gen = Older(stack[t][k].gen, r.gen)
      BY <2>3
    <3>2. stack[t][k] \in Frame /\ e \in Entries
      <4>1. stack[t] \in Seq(Frame)
        BY <1>0 DEF TypeOK
      <4>2. stack[t][k] \in Frame
        BY <2>3, <4>1, ElementOfSeq
      <4> QED BY <2>3, <4>2 DEF Frame
    <3>3. x \in Entries
      BY <1>3, <3>1, <3>2
    <3>4. floor[x] <= r.gen
      BY <3>1, <3>3, ServedIsNew
    <3>5. floor[e] <= floor[x]
      BY <1>6, <3>1, <3>2 DEF FloorInv
    <3>6. floor[e] <= stack[t][k].gen
      BY <1>6, <2>3 DEF FloorInv
    <3>7. r.gen \in Nat /\ stack[t][k].gen \in Nat /\ floor[e] \in Nat /\ floor[x] \in Nat
      <4>1. r.gen \in 0 .. MaxNow /\ stack[t][k].gen \in 0 .. MaxNow
        BY <3>2 DEF Record, Frame
      <4> QED BY SMTT(30), <1>1, <3>2, <3>3, <4>1, ConstantsAssumption
    <3>8. floor[e] <= gen
      BY <3>1, <3>4, <3>5, <3>6, <3>7 DEF Older
    <3> QED BY <2>3, <3>8
  <2> QED BY <1>0, <2>1, <2>2, <2>3, FrameStep
<1>7. ASSUME NEW e \in Entries, NEW i \in 1 .. Tiers, tier'[i][e] # Missing
      PROVE floor'[e] <= tier'[i][e].gen \/ errors'[e] = "delete"
  <2>0. e \notin Cyclic
    BY <1>0, <1>7, CycleStep DEF CycleInv
  <2>1. CASE floor'[e] # floor[e]
    <3>1. PICK t \in Threads, j \in Nat : Drops(t, j) /\ call[t].todo[j] = e
      BY <1>0, <2>1, FloorMoves
    <3> QED BY <1>7, <3>1 DEF Drops
  <2>2. ASSUME floor'[e] = floor[e], NEW k \in 1 .. Tiers, tier'[i][e] = tier[k][e]
        PROVE floor'[e] <= tier'[i][e].gen \/ errors'[e] = "delete"
    <3>1. floor[e] <= tier[k][e].gen \/ errors[e] = "delete"
      BY <1>7, <2>2 DEF FloorInv
    <3>2. CASE errors[e] = "delete" /\ errors'[e] # "delete"
      <4>1. \/ Restart
            \/ \E t \in Threads : Cleared(t, e)
            \/ \E t \in Threads : pc[t] = "raise" /\ stack[t] # <<>> /\ e = Top(t).entry
        BY <1>0, <3>2, ErrorStep
      <4>2. ~ Restart
        <5>1. ASSUME Restart PROVE FALSE
          <6>1. "restart" \in mode /\ faults < MaxFaults /\ mode \in Modes /\ faults \in Nat /\ MaxFaults \in Nat
            BY <1>0, <5>1, ConstantsAssumption DEF Restart, Fault, TypeOK
          <6>2. "delete" \in mode /\ faults >= 1
            BY <3>2 DEF MarkInv
          <6>3. "restart" \in Losing
            BY DEF Losing
          <6>4. ~ (MaxFaults <= 1)
            BY <6>1, <6>2
          <6> QED BY <6>1, <6>2, <6>3, <6>4 DEF QuarantineKept
        <5> QED BY <5>1
      <4>3. ASSUME NEW t \in Threads, Cleared(t, e) PROVE floor'[e] <= tier'[i][e].gen
        <5> DEFINE r == [gen |-> Top(t).gen, at |-> now]
        <5>1. EntryState(e) # "warm"
          BY <3>2 DEF EntryState
        <5>2. stack[t] # <<>> /\ Top(t).left = <<>> /\ e = Top(t).entry /\ tier' = Written(e, r, 1)
          BY <4>3, <5>1 DEF Cleared
        <5>3. r \in Record /\ Len(stack[t]) \in 1 .. Len(stack[t])
          BY <1>0, <5>2, TopIsFrame DEF Record, TypeOK
        <5>4. floor[e] <= r.gen
          BY <2>0, <5>2, <5>3 DEF FloorInv, Top
        <5> HIDE DEF r
        <5>5. i >= 1
          BY ConstantsAssumption
        <5>6. tier'[i][e] = r
          BY <1>0, <5>2, <5>3, <5>5, WrittenFacts
        <5> QED BY <2>2, <5>4, <5>6
      <4>4. ASSUME NEW t \in Threads, pc[t] = "raise", stack[t] # <<>>, e = Top(t).entry PROVE FALSE
        <5>1. Sound(t)
          BY <3>2, <4>4 DEF MarkInv
        <5>2. Len(stack[t]) \in 1 .. Len(stack[t])
          BY <1>0, <4>4, TopIsFrame
        <5> QED BY <2>0, <4>4, <5>1, <5>2 DEF Sound, Top
      <4> QED BY <4>1, <4>2, <4>3, <4>4
    <3> QED BY <2>2, <3>1, <3>2
  <2>3. ASSUME floor'[e] = floor[e], NEW t \in Threads, Stored(t, e)
        PROVE floor'[e] <= tier'[i][e].gen \/ errors'[e] = "delete"
    <3>1. CASE tier'[i][e] = tier[i][e]
      BY <2>2, <2>3, <3>1
    <3>2. CASE tier'[i][e] = [gen |-> Top(t).gen, at |-> now]
      <4>1. Len(stack[t]) \in 1 .. Len(stack[t])
        BY <1>0, <2>3, TopIsFrame DEF Stored
      <4>2. floor[e] <= Top(t).gen
        BY <2>0, <2>3, <4>1 DEF Stored, FloorInv, Top
      <4> QED BY <2>3, <3>2, <4>2
    <3> QED BY <2>3, <3>1, <3>2 DEF Stored
  <2>4. ASSUME floor'[e] = floor[e], Kept(e)
        PROVE floor'[e] <= tier'[i][e].gen \/ errors'[e] = "delete"
    <3>1. tier'[i][e] = tier[i][e] \/ \E k \in i .. Tiers : tier'[i][e] = tier[k][e]
      BY <1>7, <2>4 DEF Kept
    <3>2. \A k \in i .. Tiers : k \in 1 .. Tiers
      BY ConstantsAssumption
    <3> QED BY <2>2, <2>4, <3>1, <3>2
  <2> QED BY <1>0, <2>1, <2>3, <2>4, TierStep
<1>8. \A t \in Threads : DropAt(t)'
  BY <1>0, DropStep
<1> QED BY <1>4, <1>5, <1>6, <1>7, <1>8 DEF FloorInv

\* What a call and its record are measured against stays below the floor of its entry.
LEMMA DueStep ==
    ASSUME BaseInv, FloorInv, DueInv, CacheStep
    PROVE DueInv'
<1>0. TypeOK /\ ChainInv /\ CallInv /\ CallInv'
  BY CallStep DEF BaseInv
<1>1. \A e \in Entries : floor[e] \in Nat /\ floor'[e] \in Nat /\ floor[e] <= floor'[e]
  BY <1>0, FloorGrows
<1>2. SUFFICES ASSUME NEW t \in Threads, pc'[t] # "idle", call'[t].kind = "read"
               PROVE /\ call'[t].due <= floor'[call'[t].todo[1]]
                     /\ pc'[t] = "record" => call'[t].due <= call'[t].got.gen
  BY DEF DueInv
<1>3. TypeOK'
  BY <1>0, CacheTypes
<1>4. call'[t].todo[1] \in Entries /\ call'[t].due \in Nat /\ call[t] \in Calls /\ call[t].due \in Nat
  <2>1. CallAt(t)' /\ call'[t] \in Calls /\ call[t] \in Calls
    BY <1>0, <1>3 DEF CallInv, TypeOK
  <2>2. Len(call'[t].todo) = 1 /\ call'[t].todo \in Seq(Entries)
    BY <1>2, <2>1 DEF CallAt, Calls
  <2>3. call'[t].due \in 0 .. MaxNow /\ call[t].due \in 0 .. MaxNow
    BY <2>1 DEF Calls
  <2> QED BY <2>1, <2>2, <2>3, ElementOfSeq, ConstantsAssumption
<1>5. \/ /\ pc[t] # "idle" /\ call[t].kind = "read" /\ call'[t].todo = call[t].todo /\ call'[t].due = call[t].due
      \/ /\ pc'[t] = "enter" /\ call'[t].due = floor[call'[t].todo[1]]
  <2> USE DEF Goto, Return
  <2>1. pc \in [Threads -> {"idle", "enter", "load", "raise", "record", "drop", "populate"}]
        /\ call \in [Threads -> Calls] /\ stack[t] \in Seq(Frame) /\ ChainAt(t) /\ CallAt(t)
    BY <1>0 DEF TypeOK, ChainInv, CallInv
  <2>2. Quiet \/ Tick => pc'[t] = pc[t] /\ call'[t] = call[t]
    BY DEF Quiet, Tick
  <2>3. ~ Restart
    BY <1>2 DEF Restart
  <2>4. ASSUME NEW u \in Threads, u # t, ThreadStep(u) \/ Call(u) PROVE pc'[t] = pc[t] /\ call'[t] = call[t]
    BY <1>0, <2>4, OthersStay
  <2>5. ~ (PopulateDone(t) \/ Raise(t) \/ RecordRead(t))
    BY <1>2, <2>1 DEF PopulateDone, Raise, RecordRead
  <2>6. ~ PopulateNext(t)
    <3>1. PopulateNext(t) => call'[t].kind = "init"
      BY <2>1 DEF PopulateNext, CallAt, Calls
    <3> QED BY <1>2, <3>1
  <2>7. ~ (DropOne(t) \/ DropDone(t))
    <3>1. DropOne(t) => call'[t].kind \in {"drop", "init"}
      BY <2>1 DEF DropOne, CallAt, Calls
    <3>2. DropDone(t) => pc'[t] = "idle" \/ call'[t].kind = "init"
      BY <2>1 DEF DropDone, Calls
    <3> QED BY <1>2, <3>1, <3>2
  <2>8. ASSUME Reenter(t) \/ StartLoader(t) \/ LoaderFails(t) \/ Unwind(t)
        PROVE pc[t] # "idle" /\ call'[t] = call[t]
    BY <2>8 DEF Reenter, StartLoader, LoaderFails, Unwind
  <2>9. ASSUME LoaderRead(t)
        PROVE pc[t] # "idle" /\ call'[t].kind = call[t].kind /\ call'[t].todo = call[t].todo /\ call'[t].due = call[t].due
    BY <2>1, <2>9 DEF LoaderRead, Calls
  <2>10. ASSUME Serve(t) \/ Store(t)
         PROVE pc[t] # "idle" /\ call'[t].kind = call[t].kind /\ call'[t].todo = call[t].todo /\ call'[t].due = call[t].due
    <3>1. pc[t] # "idle" /\ (call' = call \/ \E r : call' = [call EXCEPT ![t].got = r])
      BY <2>10 DEF Serve, Store, Deliver
    <3>2. ASSUME NEW r, call' = [call EXCEPT ![t].got = r]
          PROVE call'[t].kind = call[t].kind /\ call'[t].todo = call[t].todo /\ call'[t].due = call[t].due
      BY <2>1, <3>2 DEF Calls
    <3> QED BY <3>1, <3>2
  <2>11. ASSUME NEW e \in Entries, Read(t, e) PROVE pc'[t] = "enter" /\ call'[t].due = floor[call'[t].todo[1]]
    <3>1. call'[t] = [NoCall EXCEPT !.kind = "read", !.goal = e, !.todo = <<e>>, !.due = floor[e]] /\ pc'[t] = "enter"
      BY <2>1, <2>11 DEF Read, Begin
    <3> QED BY <3>1 DEF NoCall
  <2>12. ASSUME NEW names, Invalidate(t, names) PROVE FALSE
    BY <1>2, <2>1, <2>12 DEF Invalidate, Begin, NoCall
  <2>13. ~ Initialize(t)
    BY <1>2, <2>1 DEF Initialize, Begin, NoCall
  <2> QED BY <1>2, <2>2, <2>3, <2>4, <2>5, <2>6, <2>7, <2>8, <2>9, <2>10, <2>11, <2>12, <2>13
          DEF CacheStep, ThreadStep, Call
<1>6. call'[t].due <= floor'[call'[t].todo[1]]
  <2>1. CASE pc[t] # "idle" /\ call[t].kind = "read" /\ call'[t].todo = call[t].todo /\ call'[t].due = call[t].due
    <3>1. call[t].due <= floor[call[t].todo[1]]
      BY <2>1 DEF DueInv
    <3> QED BY <1>1, <1>4, <2>1, <3>1
  <2>2. CASE call'[t].due = floor[call'[t].todo[1]]
    BY <1>1, <1>4, <2>2
  <2> QED BY <1>5, <2>1, <2>2
<1>7. ASSUME pc'[t] = "record" PROVE call'[t].due <= call'[t].got.gen
  <2>1. CASE pc[t] = "record" /\ call'[t] = call[t]
    BY <1>2, <2>1 DEF DueInv
  <2>2. CASE /\ pc[t] # "idle" /\ call[t].kind = "read"
             /\ call'[t].todo = call[t].todo /\ call'[t].due = call[t].due
             /\ call[t].todo[1] \in Entries
             /\ Served(t, call[t].todo[1], call'[t].got)
    <3> DEFINE x == call[t].todo[1]
               r == call'[t].got
    <3>1. r \in Record /\ floor[x] <= r.gen
      BY <2>2, ServedIsNew
    <3>2. call[t].due <= floor[x]
      BY <2>2 DEF DueInv
    <3>3. r.gen \in Nat /\ floor[x] \in Nat
      BY <1>1, <2>2, <3>1, ConstantsAssumption DEF Record
    <3> HIDE DEF x, r
    <3>4. call[t].due <= r.gen
      BY <1>4, <3>1, <3>2, <3>3
    <3> QED BY <2>2, <3>4 DEF r
  <2> QED BY <1>0, <1>7, <2>1, <2>2, GotStep
<1> QED BY <1>6, <1>7

---------------------------------------------------------------------------
(* Invalidations. *)

DropInv == BaseInv /\ MarkInv /\ FloorInv /\ DueInv

\* It holds at the start.
LEMMA DropInit == WatchedInit => DropInv
<1> SUFFICES ASSUME WatchedInit PROVE DropInv
  OBVIOUS
<1>0. Init /\ BaseInv
  BY BaseInit DEF WatchedInit
<1>1. \A t \in Threads : stack[t] = <<>> /\ pc[t] = "idle"
  BY <1>0 DEF Init
<1>2. \A e \in Entries : floor[e] = 0 /\ errors[e] = "none"
  BY <1>0 DEF Init
<1>3. \A e \in Entries, i \in 1 .. Tiers : tier[i][e] = Missing
  BY <1>0 DEF Init
<1>4. MarkInv
  BY <1>1, <1>2 DEF MarkInv
<1>5. \A e \in Entries : Reads(e) \subseteq Entries
  <2>1. ASSUME NEW e \in Entries, NEW x \in Reads(e) PROVE x \in Entries
    <3>1. LoaderReads[e] \in Seq(Entries)
      BY ConstantsAssumption
    <3> QED BY <2>1, <3>1, ElementOfSeq DEF Reads
  <2> QED BY <2>1
<1>6. now = 1
  BY <1>0 DEF Init
<1>7. FloorInv
  <2>1. \A t \in Threads : DropAt(t)
    BY <1>1 DEF DropAt
  <2>2. \A e \in Entries \ Cyclic : \A x \in Reads(e) : floor[e] <= floor[x]
    BY <1>2, <1>5
  <2> QED BY <1>1, <1>2, <1>3, <1>6, <2>1, <2>2, EmptySeq DEF FloorInv
<1>8. DueInv
  BY <1>1 DEF DueInv
<1> QED BY <1>0, <1>4, <1>7, <1>8 DEF DropInv

\* Every step keeps it.
LEMMA DropKeeps ==
    ASSUME ReadsInOrder, QuarantineKept, DropInv, WatchedNext \/ UNCHANGED allVars
    PROVE DropInv'
<1>1. CacheStep
  BY StepsOfCaches
<1> QED BY <1>1, BaseStep, MarkStep, FloorStep, DueStep DEF DropInv

\* It holds always.
LEMMA DropHolds ==
    ASSUME ReadsInOrder, QuarantineKept
    PROVE WatchedSpec => []DropInv
  BY DropInit, DropKeeps, PTL DEF WatchedSpec

\* A read that starts after an invalidation dropped everything its value comes from
\* returns no value from before it: the loaders of other threads that write meanwhile,
\* the cascade that drops one lock at a time and the tier that refuses to delete do not
\* bring an old value back. The reads are in the order of the cascade, and a failed
\* drop meets no second fault.
THEOREM InvalidationsReach ==
    ASSUME ReadsInOrder, QuarantineKept
    PROVE WatchedSpec => []InvalidationReaches
<1>1. ASSUME DropInv PROVE InvalidationReaches
  <2>1. SUFFICES ASSUME NEW t \in Threads, pc[t] = "record"
                 PROVE call[t].got.gen >= call[t].due
    BY DEF InvalidationReaches
  <2>2. CallAt(t) /\ DueInv /\ call[t] \in Calls
    BY <1>1 DEF DropInv, BaseInv, CallInv, TypeOK
  <2>3. call[t].kind = "read" /\ call[t].got \in Record
    BY <2>1, <2>2 DEF CallAt
  <2>4. call[t].due <= call[t].got.gen
    BY <2>1, <2>2, <2>3 DEF DueInv
  <2>5. call[t].due \in 0 .. MaxNow /\ call[t].got.gen \in 0 .. MaxNow
    BY <2>2, <2>3 DEF Calls, Record
  <2> QED BY <2>4, <2>5, ConstantsAssumption
<1> QED BY <1>1, DropHolds, PTL

---------------------------------------------------------------------------
(* What the pane keeps. *)

\* One entry that the worker saw, and where it goes on.
Going(e, s, step, todo) == [Saw(e, s) EXCEPT !.step = step, !.todo = todo]

\* It keeps the rest of what the worker knows.
LEMMA SawFacts ==
    ASSUME worker \in Workers, NEW e \in Entries, NEW s \in Seens,
           NEW step \in {"peek", "classify", "value"}, NEW todo \in Seq(Entries),
           worker' = Going(e, s, step, todo)
    PROVE /\ worker' \in Workers /\ worker'.seen[e] = s
          /\ \A d \in Entries : d # e => worker'.seen[d] = worker.seen[d]
          /\ worker'.step = step /\ worker'.todo = todo /\ worker'.kind = worker.kind /\ worker'.goal = worker.goal
          /\ worker'.card = worker.card /\ worker'.cards = worker.cards
<1> DEFINE v == Saw(e, s)
           seen == [worker.seen EXCEPT ![e] = s]
<1>1. worker.seen \in [Entries -> Seens]
  BY DEF Workers
<1>2. seen \in [Entries -> Seens] /\ seen[e] = s /\ \A d \in Entries : d # e => seen[d] = worker.seen[d]
  BY <1>1
<1>3. v = [worker EXCEPT !.seen = seen]
  BY DEF Saw
<1> HIDE DEF seen
<1>4. worker' \in [kind : {worker.kind}, goal : {worker.goal}, step : {step}, card : {worker.card},
             todo : {todo}, cards : {worker.cards}, seen : {seen}]
  BY <1>3 DEF Workers, Going
<1>5. worker'.seen = seen /\ worker'.step = step /\ worker'.todo = todo /\ worker'.kind = worker.kind /\ worker'.goal = worker.goal
      /\ worker'.card = worker.card /\ worker'.cards = worker.cards
  BY <1>4
<1>6. worker' \in Workers
  BY <1>2, <1>4 DEF Workers
<1> QED BY <1>2, <1>5, <1>6

\* A worker at rest, and one that begins.
LEMMA RestingType == Resting \in Workers /\ \A e \in Entries : Resting.seen[e] = NoRow
<1>1. Topological[1] \in Entries
  BY NoCallType DEF NoCall, Calls
<1>2. 0 \in 0 .. MaxNow
  BY ConstantsAssumption
<1>3. NoRow \in Seens
  BY <1>2 DEF NoRow, Seens, Slots
<1>4. <<>> \in Seq(Entries) /\ <<>> \in Seq(Seq(Entries))
  OBVIOUS
<1> QED BY <1>1, <1>3, <1>4 DEF Resting, Workers

\* A worker that begins has seen nothing but the floors.
LEMMA BegunType ==
    ASSUME TypeOK, NEW kind \in {"refresh", "view"}, NEW e \in Entries, NEW cards \in Seq(Seq(Entries))
    PROVE LET w == Begun(kind, e, cards) IN
          /\ w \in Workers /\ w.kind = kind /\ w.step = "value" /\ w.card = <<>> /\ w.todo = <<>>
          /\ \A d \in Entries : w.seen[d] = [NoRow EXCEPT !.since = floor[d]]
<1> DEFINE seen == [d \in Entries |-> [NoRow EXCEPT !.since = floor[d]]]
           w == Begun(kind, e, cards)
<1>1. \A d \in Entries : [NoRow EXCEPT !.since = floor[d]] \in Seens
  BY DEF NoRow, Seens, Slots, TypeOK
<1>2. seen \in [Entries -> Seens]
  BY <1>1
<1> HIDE DEF seen
<1>3. w \in [kind : {kind}, goal : {e}, step : {"value"}, card : {<<>>}, todo : {<<>>},
             cards : {cards}, seen : {seen}]
  BY DEF Begun, Resting, seen
<1> HIDE DEF w
<1>4. w \in Workers
  <2>1. <<>> \in Seq(Entries) /\ {kind} \subseteq {"none", "due", "refresh", "mounting", "view"}
    OBVIOUS
  <2> QED BY <1>2, <1>3, <2>1 DEF Workers
<1> QED BY <1>3, <1>4 DEF w, seen

\* What a peek finds of an entry whose lock is free.
LEMMA RecordedFacts ==
    ASSUME TypeOK, NEW e \in Entries
    PROVE /\ Recorded(e) \in Slots /\ (lock[e] # Free => Recorded(e) = Missing)
          /\ Recorded(e) # Missing => \E i \in 1 .. Tiers : tier[i][e] = Recorded(e)
  BY PeekFacts DEF Recorded, Slots

\* The entry that a worker looks at.
LEMMA WalkFacts ==
    ASSUME PaneTypes, NEW step, Walks(step)
    PROVE /\ Head(worker.todo) \in Entries /\ Tail(worker.todo) \in Seq(Entries)
          /\ worker.todo \in Seq(Entries) /\ worker.seen[Head(worker.todo)] \in Seens
          /\ \A i \in 1 .. Len(worker.todo) : worker.todo[i] = Head(worker.todo) \/ Occurs(worker.todo[i], Tail(worker.todo))
          /\ \A i \in 1 .. Len(Tail(worker.todo)) : Occurs(Tail(worker.todo)[i], worker.todo)
          /\ Occurs(Head(worker.todo), worker.todo)
<1> DEFINE todo == worker.todo
<1>1. todo \in Seq(Entries) /\ todo # <<>> /\ worker.seen \in [Entries -> Seens]
  BY DEF PaneTypes, Workers, Walks
<1> HIDE DEF todo
<1>2. Head(todo) \in Entries /\ Tail(todo) \in Seq(Entries) /\ Len(Tail(todo)) = Len(todo) - 1
      /\ Len(todo) \in Nat /\ \A i \in 1 .. Len(Tail(todo)) : Tail(todo)[i] = todo[i + 1]
  BY <1>1, HeadTailProperties
<1>3. 1 \in 1 .. Len(todo) /\ todo[1] = Head(todo)
  BY <1>1, EmptySeq
<1>4. ASSUME NEW i \in 1 .. Len(todo) PROVE todo[i] = Head(todo) \/ Occurs(todo[i], Tail(todo))
  <2>1. CASE i # 1
    <3>1. i - 1 \in 1 .. Len(Tail(todo)) /\ (i - 1) + 1 = i
      BY <1>2, <2>1
    <3>2. Tail(todo)[i - 1] = todo[i]
      BY <1>2, <3>1
    <3> QED BY <3>1, <3>2 DEF Occurs
  <2> QED BY <1>3, <2>1
<1>5. ASSUME NEW i \in 1 .. Len(Tail(todo)) PROVE Occurs(Tail(todo)[i], todo)
  <2>1. i + 1 \in 1 .. Len(todo)
    BY <1>2
  <2> QED BY <1>2, <2>1 DEF Occurs
<1>6. Occurs(Head(todo), todo)
  BY Zenon, <1>3 DEF Occurs
<1> QED BY <1>1, <1>2, <1>4, <1>5, <1>6 DEF todo

\* What the worker does to the one entry it is at.
PeekedAs(e) == [worker.seen[e] EXCEPT !.state = IF lock[e] # Free THEN "computing" ELSE "peeked",
                                      !.value = Recorded(e)]
ClassifiedAs(e) ==
    LET s == worker.seen[e] IN
    [s EXCEPT !.state = IF s.state = "computing" THEN s.state ELSE StateOf(e, s.value, errors[e]),
              !.value = Missing, !.error = IF worker.kind = "view" THEN errors[e] ELSE "none"]
LookedAs(e) ==
    LET s == worker.seen[e]
        view == worker.kind = "view"
        r == IF view \/ s.state \in Previewable THEN Recorded(e) ELSE Missing
        absent == IF lock[e] # Free THEN "computing" ELSE "cold"
    IN [s EXCEPT !.value = r, !.since = IF r = Missing THEN 0 ELSE @,
                 !.state = IF view /\ r = Missing THEN absent ELSE @]

\* Each of the three steps sees the entry at the head of the list.
LEMMA WorkerSteps ==
    ASSUME PaneTypes
    PROVE /\ PeekEntry => /\ Walks("peek")
                          /\ worker' = Going(Head(worker.todo), PeekedAs(Head(worker.todo)), "classify", worker.todo)
          /\ Classify => /\ Walks("classify")
                         /\ worker' = Going(Head(worker.todo), ClassifiedAs(Head(worker.todo)), "peek", Tail(worker.todo))
          /\ LookAt => /\ Walks("value")
                       /\ worker' = Going(Head(worker.todo), LookedAs(Head(worker.todo)), "value", Tail(worker.todo))
<1>1. ASSUME PeekEntry
      PROVE worker' = Going(Head(worker.todo), PeekedAs(Head(worker.todo)), "classify", worker.todo)
  BY <1>1 DEF PeekEntry, PeekedAs, Saw, Going, PaneTypes, Workers
<1>2. ASSUME Classify
      PROVE worker' = Going(Head(worker.todo), ClassifiedAs(Head(worker.todo)), "peek", Tail(worker.todo))
  BY <1>2 DEF Classify, ClassifiedAs, Saw, Going, PaneTypes, Workers
<1>3. ASSUME LookAt
      PROVE worker' = Going(Head(worker.todo), LookedAs(Head(worker.todo)), "value", Tail(worker.todo))
  BY <1>3 DEF LookAt, LookedAs, Saw, Going, Walks, PaneTypes, Workers
<1> QED BY <1>1, <1>2, <1>3 DEF PeekEntry, Classify, LookAt

\* What each of them makes of the entry.
LEMMA SeenAs ==
    ASSUME TypeOK, PaneTypes, NEW e \in Entries
    PROVE /\ PeekedAs(e) \in Seens
          /\ PeekedAs(e).since = worker.seen[e].since /\ PeekedAs(e).error = worker.seen[e].error
          /\ PeekedAs(e).value = Recorded(e)
          /\ PeekedAs(e).state = IF lock[e] # Free THEN "computing" ELSE "peeked"
          /\ ClassifiedAs(e) \in Seens
          /\ ClassifiedAs(e).since = worker.seen[e].since /\ ClassifiedAs(e).value = Missing
          /\ ClassifiedAs(e).error = IF worker.kind = "view" THEN errors[e] ELSE "none"
          /\ ClassifiedAs(e).state # "peeked"
          /\ ClassifiedAs(e).state \in {"warm", "stale"} => errors[e] # "delete"
          /\ LookedAs(e) \in Seens /\ LookedAs(e).error = worker.seen[e].error
          /\ LookedAs(e).value # Missing =>
                /\ LookedAs(e).value = Recorded(e)
                /\ LookedAs(e).state = worker.seen[e].state /\ LookedAs(e).since = worker.seen[e].since
                /\ worker.kind = "view" \/ worker.seen[e].state \in {"warm", "stale"}
          /\ LookedAs(e).since \in {0, worker.seen[e].since}
          /\ LookedAs(e).state \in {"computing", "cold", worker.seen[e].state}
<1> DEFINE s == worker.seen[e]
<1>1. s \in Seens
  BY DEF PaneTypes, Workers
<1>2. Recorded(e) \in Slots /\ Missing \in Slots /\ errors[e] \in {"none", "load", "delete"}
  BY RecordedFacts DEF Slots, TypeOK
<1>3. 0 \in 0 .. MaxNow
  BY ConstantsAssumption
<1> HIDE DEF s
<1>4. [s EXCEPT !.state = IF lock[e] # Free THEN "computing" ELSE "peeked", !.value = Recorded(e)]
          \in [state : {IF lock[e] # Free THEN "computing" ELSE "peeked"}, error : {s.error},
               value : {Recorded(e)}, since : {s.since}]
  BY <1>1 DEF Seens
<1>5. PeekedAs(e) \in [state : {IF lock[e] # Free THEN "computing" ELSE "peeked"}, error : {s.error},
               value : {Recorded(e)}, since : {s.since}]
  BY <1>4 DEF PeekedAs, s
<1>6. s.error \in {"none", "load", "delete"} /\ s.since \in 0 .. MaxNow
      /\ s.state \in {"none", "peeked", "computing", "unobservable", "warm", "errored", "cold", "stale"}
  BY <1>1 DEF Seens
<1>7. /\ PeekedAs(e) \in Seens /\ PeekedAs(e).since = s.since /\ PeekedAs(e).error = s.error
      /\ PeekedAs(e).value = Recorded(e)
      /\ PeekedAs(e).state = IF lock[e] # Free THEN "computing" ELSE "peeked"
  BY <1>2, <1>5, <1>6 DEF Seens
<1> DEFINE st == IF s.state = "computing" THEN s.state ELSE StateOf(e, s.value, errors[e])
           er == IF worker.kind = "view" THEN errors[e] ELSE "none"
<1>8. /\ st \in {"computing", "warm", "errored", "cold", "stale"}
      /\ st \in {"warm", "stale"} => errors[e] # "delete"
  BY DEF StateOf
<1>9. er \in {"none", "load", "delete"}
  BY <1>2
<1> HIDE DEF st, er
<1>10. [s EXCEPT !.state = st, !.value = Missing, !.error = er]
           \in [state : {st}, error : {er}, value : {Missing}, since : {s.since}]
  BY <1>1 DEF Seens
<1>11. ClassifiedAs(e) \in [state : {st}, error : {er}, value : {Missing}, since : {s.since}]
  BY <1>10 DEF ClassifiedAs, s, st, er
<1>12. /\ ClassifiedAs(e) \in Seens /\ ClassifiedAs(e).since = s.since /\ ClassifiedAs(e).value = Missing
       /\ ClassifiedAs(e).error = er /\ ClassifiedAs(e).state = st
  BY <1>2, <1>6, <1>8, <1>9, <1>11 DEF Seens
<1> DEFINE view == worker.kind = "view"
           r == IF view \/ s.state \in Previewable THEN Recorded(e) ELSE Missing
           absent == IF lock[e] # Free THEN "computing" ELSE "cold"
           at == IF view /\ r = Missing THEN absent ELSE s.state
           since == IF r = Missing THEN 0 ELSE s.since
<1>13. /\ r \in Slots /\ (r # Missing => r = Recorded(e) /\ (view \/ s.state \in {"warm", "stale"}))
  BY <1>2 DEF Previewable
<1>14. /\ at \in {"computing", "cold", s.state} /\ (r # Missing => at = s.state)
       /\ since \in {0, s.since} /\ (r # Missing => since = s.since)
  OBVIOUS
<1> HIDE DEF r, at, since
<1>15. [s EXCEPT !.value = r, !.since = since, !.state = at]
           \in [state : {at}, error : {s.error}, value : {r}, since : {since}]
  BY <1>1 DEF Seens
<1>16. LookedAs(e) = [s EXCEPT !.value = r, !.since = since, !.state = at]
  BY DEF LookedAs, s, r, since, at
<1>17. /\ LookedAs(e).state = at /\ LookedAs(e).error = s.error /\ LookedAs(e).value = r
       /\ LookedAs(e).since = since /\ LookedAs(e) \in [state : {at}, error : {s.error}, value : {r}, since : {since}]
  BY <1>15, <1>16
<1>18. LookedAs(e) \in Seens
  BY <1>3, <1>6, <1>13, <1>14, <1>17 DEF Seens
<1>19. /\ LookedAs(e).error = s.error
       /\ LookedAs(e).value # Missing => LookedAs(e).value = Recorded(e) /\ LookedAs(e).state = s.state
             /\ LookedAs(e).since = s.since /\ (view \/ s.state \in {"warm", "stale"})
       /\ LookedAs(e).since \in {0, s.since} /\ LookedAs(e).state \in {"computing", "cold", s.state}
  BY <1>13, <1>14, <1>17
<1> QED BY <1>7, <1>8, <1>12, <1>18, <1>19 DEF s, st, er, view

\* The other steps of the worker.
LEMMA WorkerMoves ==
    ASSUME PaneTypes
    PROVE /\ NextCard =>
                /\ worker' \in Workers /\ worker.step = "value" /\ worker'.step = "peek"
                /\ worker'.todo = worker'.card /\ worker'.seen = worker.seen /\ worker'.kind = worker.kind
          /\ Inspected =>
                /\ worker' \in Workers /\ worker.step = "peek" /\ worker.todo = <<>> /\ worker'.step = "value"
                /\ worker'.todo = worker.card /\ worker'.card = worker.card
                /\ worker'.seen = worker.seen /\ worker'.kind = worker.kind
          /\ Mount =>
                /\ worker' \in Workers /\ worker.kind = "refresh" /\ worker'.kind = "mounting"
                /\ worker'.step = worker.step /\ worker'.todo = worker.todo /\ worker'.seen = worker.seen
          /\ Unobservable =>
                /\ worker' \in Workers /\ worker.kind = "refresh" /\ worker'.kind = "refresh"
                /\ worker.step \in {"peek", "value"} /\ worker'.step = "value"
                /\ \A e \in Entries : \/ worker'.seen[e] = worker.seen[e]
                                      \/ worker'.seen[e] = [NoRow EXCEPT !.state = "unobservable"]
<1>0. worker \in Workers /\ worker.cards \in Seq(Seq(Entries)) /\ worker.card \in Seq(Entries)
      /\ worker.seen \in [Entries -> Seens]
  BY DEF PaneTypes, Workers
<1>1. ASSUME NextCard
      PROVE /\ worker' \in Workers /\ worker.step = "value" /\ worker'.step = "peek"
            /\ worker'.todo = worker'.card /\ worker'.seen = worker.seen /\ worker'.kind = worker.kind
  <2> DEFINE card == Head(worker.cards)
             cards == Tail(worker.cards)
  <2>1. card \in Seq(Entries) /\ cards \in Seq(Seq(Entries))
    BY <1>0, <1>1, HeadTailProperties DEF NextCard
  <2>2. worker' = [worker EXCEPT !.step = "peek", !.card = card, !.todo = card, !.cards = cards]
        /\ worker.step = "value"
    BY <1>0, <1>1 DEF NextCard
  <2> HIDE DEF card, cards
  <2>3. worker' \in [kind : {worker.kind}, goal : {worker.goal}, step : {"peek"}, card : {card},
                     todo : {card}, cards : {cards}, seen : {worker.seen}]
    BY <1>0, <2>2 DEF Workers
  <2> QED BY <1>0, <2>1, <2>2, <2>3 DEF Workers
<1>2. ASSUME Inspected
      PROVE /\ worker' \in Workers /\ worker.step = "peek" /\ worker.todo = <<>> /\ worker'.step = "value"
            /\ worker'.todo = worker.card /\ worker'.card = worker.card
            /\ worker'.seen = worker.seen /\ worker'.kind = worker.kind
  <2>1. worker' \in [kind : {worker.kind}, goal : {worker.goal}, step : {"value"}, card : {worker.card},
                     todo : {worker.card}, cards : {worker.cards}, seen : {worker.seen}]
    BY <1>0, <1>2 DEF Inspected, Workers
  <2> QED BY <1>0, <1>2, <2>1 DEF Inspected, Workers
<1>3. ASSUME Mount
      PROVE /\ worker' \in Workers /\ worker.kind = "refresh" /\ worker'.kind = "mounting"
            /\ worker'.step = worker.step /\ worker'.todo = worker.todo /\ worker'.seen = worker.seen
  BY <1>0, <1>3 DEF Mount, Observed, Workers
<1>4. ASSUME Unobservable
      PROVE /\ worker' \in Workers /\ worker.kind = "refresh" /\ worker'.kind = "refresh"
            /\ worker.step \in {"peek", "value"} /\ worker'.step = "value"
            /\ \A e \in Entries : \/ worker'.seen[e] = worker.seen[e]
                                  \/ worker'.seen[e] = [NoRow EXCEPT !.state = "unobservable"]
  <2> DEFINE seen == [e \in Entries |->
                 IF Occurs(e, worker.card) THEN [NoRow EXCEPT !.state = "unobservable"] ELSE worker.seen[e]]
  <2>1. worker' = [worker EXCEPT !.step = "value", !.todo = <<>>, !.seen = seen]
        /\ worker.kind = "refresh" /\ worker.step \in {"peek", "value"}
    BY <1>0, <1>4 DEF Unobservable, Walks
  <2>2. [NoRow EXCEPT !.state = "unobservable"] \in Seens
    <3>1. 0 \in 0 .. MaxNow
      BY ConstantsAssumption
    <3> QED BY <3>1 DEF NoRow, Seens, Slots
  <2>3. seen \in [Entries -> Seens]
    BY <1>0, <2>2
  <2>4. \A e \in Entries : seen[e] = worker.seen[e] \/ seen[e] = [NoRow EXCEPT !.state = "unobservable"]
    OBVIOUS
  <2> HIDE DEF seen
  <2>5. worker' \in [kind : {worker.kind}, goal : {worker.goal}, step : {"value"}, card : {worker.card},
                     todo : {<<>>}, cards : {worker.cards}, seen : {seen}]
    BY <1>0, <2>1 DEF Workers
  <2>6. <<>> \in Seq(Entries)
    OBVIOUS
  <2> QED BY <1>0, <2>1, <2>3, <2>4, <2>5, <2>6 DEF Workers
<1> QED BY <1>1, <1>2, <1>3, <1>4

\* Every step keeps the types of the pane.
LEMMA PaneTypesStep ==
    ASSUME TypeOK, PaneTypes, WatchedNext \/ UNCHANGED allVars
    PROVE PaneTypes'
<1>0. rows \in [Entries -> Seens] /\ modal \in Seens /\ worker \in Workers /\ dying \in BOOLEAN /\ ended \in BOOLEAN
      /\ worker.seen \in [Entries -> Seens] /\ worker.goal \in Entries
  BY DEF PaneTypes, Workers
<1>1. NoRow \in Seens /\ Resting \in Workers /\ [Resting EXCEPT !.kind = "due"] \in Workers
      /\ Topological[1] \in Entries
  <2>1. 0 \in 0 .. MaxNow
    BY ConstantsAssumption
  <2> QED BY <2>1, RestingType, NoCallType DEF NoRow, Seens, Slots, Workers, NoCall, Calls
<1>2. CASE UNCHANGED paneVars
  BY <1>0, <1>2 DEF paneVars, PaneTypes
<1>3. UNCHANGED allVars \/ (\E t \in Threads : Submit(t)) => UNCHANGED paneVars
  BY DEF allVars, paneVars, Submit
<1>4. ASSUME Schedule \/ Leave \/ CloseView \/ EndSession PROVE PaneTypes'
  BY <1>0, <1>1, <1>4 DEF Schedule, Leave, CloseView, EndSession, PaneTypes
<1>5. ASSUME Refresh PROVE PaneTypes'
  <2>1. Begun("refresh", Topological[1], Cards) \in Workers
    BY <1>1, CardsAssumption, BegunType
  <2>2. worker' \in Workers
    BY <1>1, <1>5, <2>1 DEF Refresh
  <2> QED BY <1>0, <1>5, <2>2 DEF Refresh, PaneTypes
<1>6. ASSUME NEW e \in Entries, View(e) PROVE PaneTypes'
  <2>1. << <<e>> >> \in Seq(Seq(Entries))
    OBVIOUS
  <2>2. worker' \in Workers
    BY <1>6, <2>1, BegunType DEF View
  <2> QED BY <1>0, <1>6, <2>2 DEF View, PaneTypes
<1>7. ASSUME PeekEntry \/ Classify \/ LookAt PROVE PaneTypes'
  <2> DEFINE e == Head(worker.todo)
  <2>1. e \in Entries /\ worker.todo \in Seq(Entries) /\ Tail(worker.todo) \in Seq(Entries)
    BY <1>7, WalkFacts DEF PeekEntry, Classify, LookAt
  <2>2. PeekedAs(e) \in Seens /\ ClassifiedAs(e) \in Seens /\ LookedAs(e) \in Seens
    BY <2>1, SeenAs
  <2> HIDE DEF e
  <2>3. \/ worker' = Going(e, PeekedAs(e), "classify", worker.todo)
        \/ worker' = Going(e, ClassifiedAs(e), "peek", Tail(worker.todo))
        \/ worker' = Going(e, LookedAs(e), "value", Tail(worker.todo))
    BY <1>7, WorkerSteps DEF e
  <2>4. worker' \in Workers
    <3>1. ASSUME NEW s \in Seens, NEW step \in {"peek", "classify", "value"}, NEW todo \in Seq(Entries),
                 worker' = Going(e, s, step, todo)
          PROVE worker' \in Workers
      BY <1>0, <2>1, <3>1, SawFacts
    <3> QED BY <2>1, <2>2, <2>3, <3>1
  <2> QED BY <1>0, <1>7, <2>4 DEF PeekEntry, Classify, LookAt, Alone, PaneTypes
<1>8. ASSUME NextCard \/ Inspected \/ Mount \/ Unobservable PROVE PaneTypes'
  <2>1. worker' \in Workers
    BY <1>8, WorkerMoves
  <2> QED BY <1>0, <1>8, <2>1 DEF NextCard, Inspected, Mount, Unobservable, Alone, PaneTypes
<1>9. ASSUME Apply PROVE PaneTypes'
  <2>1. \A e \in Entries : Row(e) \in Seens
    <3>1. ASSUME NEW e \in Entries PROVE [rows[e] EXCEPT !.state = "unobservable"] \in Seens
      BY <1>0 DEF Seens
    <3> QED BY <1>0, <1>1, <3>1 DEF Row
  <2>2. rows' \in [Entries -> Seens]
    BY <1>9, <2>1 DEF Apply
  <2> QED BY <1>0, <1>1, <1>9, <2>2 DEF Apply, PaneTypes
<1>10. ASSUME ShowValue PROVE PaneTypes'
  <2>1. modal' \in Seens
    BY <1>0, <1>10 DEF ShowValue
  <2> QED BY <1>0, <1>1, <1>10, <2>1 DEF ShowValue, PaneTypes
<1> QED BY <1>2, <1>3, <1>4, <1>5, <1>6, <1>7, <1>8, <1>9, <1>10 DEF WatchedNext, Pane

\* What the worker saw of an entry, next to the records of now.
LEMMA ToldMeans ==
    ASSUME NEW e \in Entries
    PROVE /\ Told(e) <=> \/ worker.seen[e].error = "delete"
                         \/ \A i \in 1 .. Tiers : tier[i][e] # Missing => worker.seen[e].since <= tier[i][e].gen
          /\ Told(e)' <=> \/ worker'.seen[e].error = "delete"
                          \/ \A i \in 1 .. Tiers : tier'[i][e] # Missing => worker'.seen[e].since <= tier'[i][e].gen
  BY DEF Told, Fresh

\* The caches move while the worker does not: no old record comes back.
LEMMA SeenStays ==
    ASSUME BaseInv, FloorInv, PaneTypes, SeenInv, CacheStep, UNCHANGED worker
    PROVE SeenInv'
<1>0. TypeOK /\ ChainInv /\ worker \in Workers /\ worker.seen \in [Entries -> Seens]
  BY DEF BaseInv, PaneTypes, Workers
<1>1. \A e \in Entries : floor[e] \in Nat /\ floor'[e] \in Nat /\ floor[e] <= floor'[e]
  BY <1>0, FloorGrows
<1>2. \A e \in Entries : worker.seen[e].since \in Nat /\ worker.seen[e].since <= floor[e]
  BY <1>0, ConstantsAssumption DEF Seens, SeenInv, SeenAt
<1>3. ASSUME NEW e \in Entries, Told(e) PROVE Told(e)'
  <2>1. CASE worker.seen[e].error = "delete"
    BY <2>1, ToldMeans
  <2>2. ASSUME \A i \in 1 .. Tiers : tier[i][e] # Missing => worker.seen[e].since <= tier[i][e].gen,
               NEW i \in 1 .. Tiers, tier'[i][e] # Missing
        PROVE worker.seen[e].since <= tier'[i][e].gen
    <3>1. CASE Kept(e)
      <4>1. \A k \in i .. Tiers : k \in 1 .. Tiers
        BY ConstantsAssumption
      <4>2. tier'[i][e] = tier[i][e] \/ \E k \in i .. Tiers : tier'[i][e] = tier[k][e]
        BY <2>2, <3>1 DEF Kept
      <4> QED BY <2>2, <4>1, <4>2
    <3>2. ASSUME NEW t \in Threads, Stored(t, e) PROVE worker.seen[e].since <= tier'[i][e].gen
      <4> DEFINE gen == Top(t).gen
      <4>1. stack[t] # <<>> /\ Top(t).left = <<>> /\ e = Top(t).entry
            /\ (tier'[i][e] = tier[i][e] \/ tier'[i][e] = [gen |-> gen, at |-> now])
        BY <3>2 DEF Stored
      <4>2. e \notin Cyclic /\ Len(stack[t]) \in 1 .. Len(stack[t]) /\ gen \in 0 .. MaxNow
        BY <1>0, <4>1, StoredIsAcyclic, TopIsFrame
      <4>3. floor[e] <= gen
        BY <4>1, <4>2 DEF FloorInv, Top
      <4> HIDE DEF gen
      <4>4. gen \in Nat
        BY <4>2, ConstantsAssumption
      <4>5. worker.seen[e].since <= gen
        BY <1>1, <1>2, <4>3, <4>4
      <4> QED BY <2>2, <4>1, <4>5
    <3> QED BY <1>0, <3>1, <3>2, TierStep
  <2> QED BY <1>3, <2>1, <2>2, ToldMeans
<1>4. ASSUME NEW e \in Entries PROVE SeenAt(e)'
  <2>1. SeenAt(e)
    BY DEF SeenInv
  <2>2. worker.seen[e].since <= floor'[e]
    BY <1>1, <1>2
  <2> QED BY <1>3, <2>1, <2>2 DEF SeenAt
<1>5. ASSUME NEW i \in 1 .. Len(worker.card), worker.kind = "view" PROVE CardAt(i)'
  <2>1. worker.card[i] \in Entries
    <3>1. worker.card \in Seq(Entries)
      BY <1>0 DEF Workers
    <3> QED BY <3>1, ElementOfSeq
  <2>2. Told(worker.card[i]) => Told(worker.card[i])'
    BY <1>3, <2>1
  <2>3. CardAt(i)
    BY <1>5 DEF SeenInv
  <2> QED BY <2>2, <2>3 DEF CardAt
<1> QED BY <1>4, <1>5 DEF SeenInv

\* The instant of a record.
LEMMA GenType ==
    ASSUME TypeOK, NEW e \in Entries, NEW i \in 1 .. Tiers, tier[i][e] # Missing
    PROVE tier[i][e].gen \in 0 .. MaxNow
<1>1. tier[i][e] \in Record
  BY DEF TypeOK
<1> QED BY <1>1 DEF Record

\* The worker was at an entry e, saw p of it and goes on with todo.
Sees(e, p, from, to, todo) ==
    /\ worker.todo # <<>> /\ e = Head(worker.todo) /\ worker.step = from
    /\ worker'.seen[e] = p /\ \A d \in Entries : d # e => worker'.seen[d] = worker.seen[d]
    /\ worker'.step = to /\ worker'.todo = todo
    /\ worker'.kind = worker.kind /\ worker'.card = worker.card

\* What the worker saw of the other entries stays true.
LEMMA OthersSeen ==
    ASSUME PaneTypes, SeenInv, Quiet, NEW e \in Entries, NEW p, NEW from, NEW to, NEW todo,
           Sees(e, p, from, to, todo), NEW d \in Entries, d # e
    PROVE SeenAt(d)' /\ (Told(d) <=> Told(d)')
<1>1. worker'.seen[d] = worker.seen[d] /\ UNCHANGED <<tier, floor>> /\ worker'.kind = worker.kind
  BY DEF Sees, Quiet
<1>2. SeenAt(d)
  BY DEF SeenInv
<1>3. worker.seen[d].state # "peeked"
  BY <1>2 DEF SeenAt, Sees
<1>4. Told(d) <=> Told(d)'
  BY <1>1, ToldMeans
<1> QED BY <1>1, <1>2, <1>3, <1>4 DEF SeenAt

\* The worker peeked at an entry.
LEMMA SeenPeek ==
    ASSUME BaseInv, PaneTypes, SeenInv, Quiet, NEW e \in Entries, NEW p,
           p = PeekedAs(e), Sees(e, p, "peek", "classify", worker.todo)
    PROVE SeenInv'
<1>0. TypeOK /\ worker.card \in Seq(Entries) /\ UNCHANGED <<tier, floor, errors, lock>>
  BY DEF BaseInv, PaneTypes, Workers, Quiet
<1>1. SeenAt(e)
  BY DEF SeenInv
<1>2. /\ p.since = worker.seen[e].since /\ p.error = worker.seen[e].error /\ p.value = Recorded(e)
      /\ p.state = IF lock[e] # Free THEN "computing" ELSE "peeked"
  BY <1>0, SeenAs
<1>3. lock[e] # Free => Recorded(e) = Missing
  BY <1>0, RecordedFacts
<1>4. /\ worker'.seen[e] = p /\ worker'.step = "classify" /\ worker'.todo = worker.todo
      /\ worker'.kind = worker.kind /\ worker'.card = worker.card /\ e = Head(worker'.todo)
      /\ worker.todo # <<>> /\ worker.step = "peek"
  BY DEF Sees
<1>5. Told(e) <=> Told(e)'
  BY <1>0, <1>2, <1>4, ToldMeans
<1>6. SeenAt(e)'
  BY <1>0, <1>1, <1>2, <1>3, <1>4 DEF SeenAt
<1>7. \A d \in Entries : SeenAt(d)' /\ (Told(d) => Told(d)')
  BY <1>5, <1>6, OthersSeen
<1>8. ASSUME NEW i \in 1 .. Len(worker.card), worker.kind = "view" PROVE CardAt(i)'
  <2>1. CardAt(i) /\ worker.card[i] \in Entries
    BY <1>0, <1>8, ElementOfSeq DEF SeenInv
  <2>2. Told(worker.card[i]) => Told(worker.card[i])'
    BY <1>4, <1>7, <2>1
  <2> QED BY <1>4, <2>1, <2>2 DEF CardAt
<1> QED BY <1>4, <1>7, <1>8 DEF SeenInv

\* The worker classified an entry: without the mark of a failed drop its records are
\* from after the floor.
LEMMA SeenClassify ==
    ASSUME BaseInv, FloorInv, PaneTypes, SeenInv, Quiet, NEW e \in Entries, NEW p,
           p = ClassifiedAs(e), Sees(e, p, "classify", "peek", Tail(worker.todo)),
           \A i \in 1 .. Len(worker.todo) : worker.todo[i] = e \/ Occurs(worker.todo[i], Tail(worker.todo))
    PROVE SeenInv'
<1>0. TypeOK /\ worker.card \in Seq(Entries) /\ UNCHANGED <<tier, floor, errors, lock>>
      /\ worker.seen[e] \in Seens
  BY DEF BaseInv, PaneTypes, Workers, Quiet
<1>1. SeenAt(e)
  BY DEF SeenInv
<1>2. /\ p.since = worker.seen[e].since /\ p.value = Missing /\ p.state # "peeked"
      /\ p.error = IF worker.kind = "view" THEN errors[e] ELSE "none"
      /\ p.state \in {"warm", "stale"} => errors[e] # "delete"
  BY <1>0, SeenAs
<1>3. /\ worker'.seen[e] = p /\ worker'.step = "peek" /\ worker'.todo = Tail(worker.todo)
      /\ worker'.kind = worker.kind /\ worker'.card = worker.card /\ worker.step = "classify"
  BY DEF Sees
<1>4. ASSUME worker.kind = "view" \/ p.state \in {"warm", "stale"} PROVE Told(e)'
  <2>1. CASE errors[e] = "delete"
    BY <1>2, <1>3, <1>4, <2>1, ToldMeans
  <2>2. CASE errors[e] # "delete"
    <3>1. ASSUME NEW i \in 1 .. Tiers, tier[i][e] # Missing PROVE p.since <= tier[i][e].gen
      <4>1. floor[e] <= tier[i][e].gen
        BY <2>2, <3>1 DEF FloorInv
      <4>2. p.since <= floor[e]
        BY <1>1, <1>2 DEF SeenAt
      <4>3. p.since \in 0 .. MaxNow
        BY <1>0, <1>2 DEF Seens
      <4>4. floor[e] \in 0 .. MaxNow
        BY <1>0 DEF TypeOK
      <4>5. tier[i][e].gen \in 0 .. MaxNow
        BY <1>0, <3>1, GenType
      <4> QED BY SMTT(30), <4>1, <4>2, <4>3, <4>4, <4>5, ConstantsAssumption
    <3> QED BY <1>0, <1>3, <3>1, ToldMeans
  <2> QED BY <2>1, <2>2
<1>5. SeenAt(e)'
  BY <1>0, <1>1, <1>2, <1>3, <1>4 DEF SeenAt
<1>6. \A d \in Entries : SeenAt(d)' /\ (d # e /\ Told(d) => Told(d)')
  BY <1>5, OthersSeen
<1>7. ASSUME NEW i \in 1 .. Len(worker.card), worker.kind = "view" PROVE CardAt(i)'
  <2>1. CardAt(i) /\ worker.card[i] \in Entries
    BY <1>0, <1>7, ElementOfSeq DEF SeenInv
  <2>2. CASE worker.card[i] = e
    BY <1>3, <1>4, <1>7, <2>2 DEF CardAt
  <2>3. CASE worker.card[i] # e
    <3>1. Told(worker.card[i]) => Told(worker.card[i])'
      BY <1>3, <1>6, <2>1, <2>3
    <3>2. Occurs(worker.card[i], worker.todo) => Occurs(worker.card[i], Tail(worker.todo))
      BY <2>3 DEF Occurs
    <3> QED BY <1>3, <2>1, <3>1, <3>2 DEF CardAt
  <2> QED BY <2>2, <2>3
<1> QED BY <1>3, <1>6, <1>7 DEF SeenInv

\* The worker looked at the value of an entry.
LEMMA SeenLook ==
    ASSUME BaseInv, PaneTypes, SeenInv, Quiet, NEW e \in Entries, NEW p,
           p = LookedAs(e), Sees(e, p, "value", "value", Tail(worker.todo)),
           Occurs(e, worker.todo),
           \A i \in 1 .. Len(Tail(worker.todo)) : Occurs(Tail(worker.todo)[i], worker.todo)
    PROVE SeenInv'
<1> DEFINE s == worker.seen[e]
<1>0. TypeOK /\ worker.card \in Seq(Entries) /\ UNCHANGED <<tier, floor, errors, lock>> /\ s \in Seens
  BY DEF BaseInv, PaneTypes, Workers, Quiet
<1>1. SeenAt(e)
  BY DEF SeenInv
<1>2. /\ p.error = s.error
      /\ p.value # Missing => p.value = Recorded(e) /\ p.state = s.state /\ p.since = s.since
            /\ (worker.kind = "view" \/ s.state \in {"warm", "stale"})
      /\ p.since \in {0, s.since} /\ p.state \in {"computing", "cold", s.state}
  <2> DEFINE looked == LookedAs(e)
  <2>1. ASSUME looked.value # Missing
        PROVE looked.value = Recorded(e) /\ looked.state = s.state /\ looked.since = s.since
              /\ (worker.kind = "view" \/ s.state \in {"warm", "stale"})
    BY <1>0, <2>1, SeenAs, Zenon
  <2>2. looked.error = s.error /\ looked.since \in {0, s.since}
    BY <1>0, SeenAs, Zenon
  <2>3. looked.state \in {"computing", "cold", s.state}
    BY <1>0, SeenAs, Zenon
  <2> HIDE DEF looked, s
  <2> QED BY <2>1, <2>2, <2>3 DEF looked
<1>3. Recorded(e) # Missing => \E i \in 1 .. Tiers : tier[i][e] = Recorded(e)
  BY <1>0, RecordedFacts
<1>4. /\ worker'.seen[e] = p /\ worker'.step = "value" /\ worker'.todo = Tail(worker.todo)
      /\ worker'.kind = worker.kind /\ worker'.card = worker.card /\ worker.step = "value"
  BY DEF Sees
<1>5. \A i \in 1 .. Tiers : tier[i][e] # Missing => tier[i][e].gen \in 0 .. MaxNow
  BY <1>0, GenType
<1>6. s.since \in 0 .. MaxNow /\ floor[e] \in 0 .. MaxNow /\ MaxNow \in Nat
  BY <1>0, ConstantsAssumption DEF TypeOK, Seens
<1>7. Told(e) => Told(e)'
  <2>1. ASSUME NEW i \in 1 .. Tiers, tier[i][e] # Missing, s.since <= tier[i][e].gen
        PROVE p.since <= tier[i][e].gen
    <3>1. tier[i][e].gen \in 0 .. MaxNow
      BY <1>5, <2>1
    <3> HIDE DEF s
    <3> QED BY <1>2, <1>6, <2>1, <3>1
  <2> QED BY <1>0, <1>2, <1>4, <2>1, ToldMeans
<1>8. s.state # "peeked"
  BY <1>1, <1>4 DEF SeenAt
<1>9. ASSUME worker.kind = "view" \/ s.state \in {"warm", "stale"} PROVE Told(e)
  <2>1. CASE s.state \in {"warm", "stale"}
    BY <1>1, <2>1 DEF SeenAt
  <2>2. CASE worker.kind = "view"
    <3>1. PICK k \in 1 .. Len(worker.todo) : worker.todo[k] = e
      BY DEF Occurs
    <3>2. Occurs(e, worker.card)
      BY <1>4, <2>2, <3>1 DEF SeenInv
    <3>3. PICK i \in 1 .. Len(worker.card) : worker.card[i] = e
      BY <3>2 DEF Occurs
    <3>4. CardAt(i)
      BY <2>2 DEF SeenInv
    <3> QED BY <1>4, <3>3, <3>4 DEF CardAt
  <2> QED BY <1>9, <2>1, <2>2
<1>10. p.value # Missing => p.since <= p.value.gen \/ p.error = "delete"
  <2>1. ASSUME p.value # Missing PROVE p.since <= p.value.gen \/ p.error = "delete"
    <3>1. Told(e) /\ p.value = Recorded(e) /\ p.since = s.since
      BY <1>2, <1>9, <2>1
    <3>2. PICK i \in 1 .. Tiers : tier[i][e] = p.value
      BY <1>3, <2>1, <3>1
    <3> QED BY <1>2, <2>1, <3>1, <3>2, ToldMeans
  <2> QED BY <2>1
<1>11. p.since <= floor[e]
  <2>1. s.since <= floor[e]
    BY <1>1 DEF SeenAt
  <2> HIDE DEF s
  <2> QED BY <1>2, <1>6, <2>1
<1>12. SeenAt(e)'
  <2>1. p.state # "peeked" /\ (p.state \in {"warm", "stale"} => Told(e)')
    BY <1>1, <1>2, <1>7, <1>8 DEF SeenAt
  <2>2. p.error = "delete" => worker.kind = "view"
    BY <1>1, <1>2 DEF SeenAt
  <2> QED BY <1>0, <1>4, <1>10, <1>11, <2>1, <2>2 DEF SeenAt
<1>13. \A d \in Entries : SeenAt(d)' /\ (Told(d) => Told(d)')
  BY <1>7, <1>12, OthersSeen
<1>14. ASSUME NEW i \in 1 .. Len(worker.card), worker.kind = "view" PROVE CardAt(i)'
  <2>1. CardAt(i) /\ worker.card[i] \in Entries
    BY <1>0, <1>14, ElementOfSeq DEF SeenInv
  <2>2. Told(worker.card[i])'
    BY <1>4, <1>13, <2>1 DEF CardAt
  <2> QED BY <1>4, <2>2 DEF CardAt
<1>15. ASSUME worker.kind = "view", NEW i \in 1 .. Len(Tail(worker.todo))
       PROVE Occurs(Tail(worker.todo)[i], worker.card)
  <2>1. PICK k \in 1 .. Len(worker.todo) : worker.todo[k] = Tail(worker.todo)[i]
    BY DEF Occurs
  <2>2. Occurs(worker.todo[k], worker.card)
    BY <1>4, <1>15 DEF SeenInv
  <2> QED BY <2>1, <2>2
<1> QED BY <1>4, <1>13, <1>14, <1>15 DEF SeenInv

\* The worker saw one entry.
LEMMA SeenWalks ==
    ASSUME BaseInv, FloorInv, PaneTypes, SeenInv, PeekEntry \/ Classify \/ LookAt, Quiet
    PROVE SeenInv'
<1>0. TypeOK /\ worker \in Workers
  BY Zenon DEF BaseInv, PaneTypes
<1>1. PICK e \in Entries : e = Head(worker.todo)
  BY WalkFacts DEF PeekEntry, Classify, LookAt
<1>2. /\ Tail(worker.todo) \in Seq(Entries) /\ worker.todo \in Seq(Entries) /\ worker.todo # <<>>
      /\ \A i \in 1 .. Len(worker.todo) : worker.todo[i] = e \/ Occurs(worker.todo[i], Tail(worker.todo))
      /\ \A i \in 1 .. Len(Tail(worker.todo)) : Occurs(Tail(worker.todo)[i], worker.todo)
      /\ Occurs(e, worker.todo)
  BY <1>1, WalkFacts DEF PeekEntry, Classify, LookAt, Walks
<1>3. PeekedAs(e) \in Seens /\ ClassifiedAs(e) \in Seens /\ LookedAs(e) \in Seens
  BY <1>0, SeenAs
<1>4. ASSUME NEW p \in Seens, NEW from, NEW to \in {"peek", "classify", "value"}, NEW todo \in Seq(Entries),
             worker.step = from, worker' = Going(e, p, to, todo)
      PROVE Sees(e, p, from, to, todo)
  <2>1. worker'.seen[e] = p /\ worker'.step = to /\ worker'.todo = todo
    BY <1>0, <1>4, SawFacts
  <2>2. worker'.kind = worker.kind /\ worker'.card = worker.card
    BY <1>0, <1>4, SawFacts
  <2>3. \A d \in Entries : d # e => worker'.seen[d] = worker.seen[d]
    BY <1>0, <1>4, SawFacts
  <2> QED BY <1>1, <1>2, <1>4, <2>1, <2>2, <2>3 DEF Sees
<1>5. CASE PeekEntry
  <2>1. worker.step = "peek" /\ worker' = Going(e, PeekedAs(e), "classify", worker.todo)
    BY <1>1, <1>5, WorkerSteps DEF Walks
  <2>2. Sees(e, PeekedAs(e), "peek", "classify", worker.todo)
    BY <1>2, <1>3, <1>4, <2>1
  <2> QED BY <2>2, SeenPeek
<1>6. CASE Classify
  <2>1. worker.step = "classify" /\ worker' = Going(e, ClassifiedAs(e), "peek", Tail(worker.todo))
    BY <1>1, <1>6, WorkerSteps DEF Walks
  <2>2. Sees(e, ClassifiedAs(e), "classify", "peek", Tail(worker.todo))
    BY <1>2, <1>3, <1>4, <2>1
  <2> QED BY <1>2, <2>2, SeenClassify
<1>7. CASE LookAt
  <2>1. worker.step = "value" /\ worker' = Going(e, LookedAs(e), "value", Tail(worker.todo))
    BY <1>1, <1>7, WorkerSteps DEF Walks
  <2>2. Sees(e, LookedAs(e), "value", "value", Tail(worker.todo))
    BY <1>2, <1>3, <1>4, <2>1
  <2> QED BY <1>2, <2>2, SeenLook
<1> QED BY <1>5, <1>6, <1>7

\* What the worker saw stays true when it does not look at an entry.
LEMMA SeenKept ==
    ASSUME SeenInv, Quiet, worker.step # "classify", worker'.kind = worker.kind \/ worker.kind # "view",
           NEW d \in Entries, worker'.seen[d] = worker.seen[d]
    PROVE SeenAt(d)' /\ (Told(d) => Told(d)')
<1>1. UNCHANGED <<tier, floor>>
  BY DEF Quiet
<1>2. SeenAt(d)
  BY DEF SeenInv
<1>3. worker.seen[d].state # "peeked" /\ (worker.seen[d].error = "delete" => worker'.kind = "view")
  BY <1>2 DEF SeenAt
<1>4. Told(d) <=> Told(d)'
  BY <1>1, ToldMeans
<1> QED BY <1>1, <1>2, <1>3, <1>4 DEF SeenAt

\* The worker goes on to a card, to the values of a card or to the rows.
LEMMA SeenMoves ==
    ASSUME TypeOK, PaneTypes, SeenInv, NextCard \/ Inspected \/ Mount \/ Unobservable, Quiet
    PROVE SeenInv'
<1>0. worker.card \in Seq(Entries) /\ worker'.card \in Seq(Entries)
  BY WorkerMoves DEF PaneTypes, Workers
<1>1. CASE NextCard
  <2>1. /\ worker.step = "value" /\ worker'.step = "peek"
        /\ worker'.todo = worker'.card /\ worker'.seen = worker.seen /\ worker'.kind = worker.kind
    BY <1>1, WorkerMoves
  <2>2. \A d \in Entries : SeenAt(d)'
    BY <2>1, SeenKept
  <2>3. ASSUME NEW i \in 1 .. Len(worker'.card) PROVE CardAt(i)'
    BY <2>1 DEF CardAt, Occurs
  <2> QED BY <2>1, <2>2, <2>3 DEF SeenInv
<1>2. CASE Inspected
  <2>1. /\ worker.step = "peek" /\ worker.todo = <<>> /\ worker'.step = "value"
        /\ worker'.todo = worker.card /\ worker'.card = worker.card
        /\ worker'.seen = worker.seen /\ worker'.kind = worker.kind
    BY <1>2, WorkerMoves
  <2>2. \A d \in Entries : SeenAt(d)' /\ (Told(d) => Told(d)')
    BY <2>1, SeenKept
  <2>3. ASSUME NEW i \in 1 .. Len(worker.card), worker.kind = "view" PROVE CardAt(i)'
    <3>1. CardAt(i) /\ worker.card[i] \in Entries
      BY <1>0, <2>3, ElementOfSeq DEF SeenInv
    <3>2. ~ Occurs(worker.card[i], worker.todo)
      BY <2>1 DEF Occurs
    <3>3. Told(worker.card[i])
      BY <3>1, <3>2 DEF CardAt
    <3>4. Told(worker.card[i])'
      BY <2>1, <2>2, <3>1, <3>3
    <3> QED BY <3>4 DEF CardAt
  <2>4. \A i \in 1 .. Len(worker.card) : Occurs(worker.card[i], worker.card)
    BY DEF Occurs
  <2> QED BY <2>1, <2>2, <2>3, <2>4 DEF SeenInv
<1>3. CASE Mount
  <2>1. /\ worker.kind = "refresh" /\ worker'.kind = "mounting" /\ worker'.step = "value"
        /\ worker.step = "value" /\ worker'.seen = worker.seen
    BY <1>3, WorkerMoves DEF Mount, Observed
  <2>2. \A d \in Entries : SeenAt(d)'
    BY <2>1, SeenKept
  <2> QED BY <2>1, <2>2 DEF SeenInv
<1>4. CASE Unobservable
  <2> DEFINE gone == [NoRow EXCEPT !.state = "unobservable"]
  <2>1. /\ worker.kind = "refresh" /\ worker'.kind = "refresh" /\ worker.step # "classify"
        /\ worker'.step = "value"
        /\ \A d \in Entries : worker'.seen[d] = worker.seen[d] \/ worker'.seen[d] = gone
    BY <1>4, WorkerMoves
  <2>2. gone.state = "unobservable" /\ gone.error = "none" /\ gone.value = Missing /\ gone.since = 0
    BY DEF NoRow
  <2> HIDE DEF gone
  <2>3. ASSUME NEW d \in Entries, worker'.seen[d] = gone PROVE SeenAt(d)'
    <3>1. floor'[d] = floor[d] /\ floor[d] \in 0 .. MaxNow
      BY DEF Quiet, TypeOK
    <3>2. 0 <= floor'[d]
      BY <3>1, ConstantsAssumption
    <3> QED BY <2>2, <2>3, <3>2 DEF SeenAt
  <2>4. \A d \in Entries : SeenAt(d)'
    BY <2>1, <2>3, SeenKept
  <2> QED BY <2>1, <2>4 DEF SeenInv
<1> QED BY <1>1, <1>2, <1>3, <1>4

\* A worker that has seen nothing yet.
Blank(w) ==
    /\ w.step = "value" /\ w.todo = <<>> /\ w.card = <<>>
    /\ \A d \in Entries :
          /\ w.seen[d].state = "none" /\ w.seen[d].error = "none" /\ w.seen[d].value = Missing
          /\ w.seen[d].since \in {0, floor[d]}

\* It begins with the floors of now.
LEMMA SeenBegins ==
    ASSUME TypeOK, Quiet, Blank(worker')
    PROVE SeenInv'
<1>1. ASSUME NEW d \in Entries PROVE SeenAt(d)'
  <2>1. floor'[d] = floor[d] /\ floor[d] \in 0 .. MaxNow
    BY DEF Quiet, TypeOK
  <2>2. worker'.seen[d].since \in {0, floor[d]}
    BY DEF Blank
  <2>3. worker'.seen[d].since <= floor'[d]
    BY <2>1, <2>2, ConstantsAssumption
  <2> QED BY <2>3 DEF SeenAt, Blank
<1>2. \A i \in 1 .. Len(worker'.card) : FALSE
  BY DEF Blank
<1>3. \A i \in 1 .. Len(worker'.todo) : FALSE
  BY DEF Blank
<1> QED BY <1>1, <1>2, <1>3 DEF SeenInv, Blank

\* A worker that rests and one that begins.
LEMMA BlankWorkers ==
    ASSUME TypeOK
    PROVE /\ Blank(Resting) /\ Blank([Resting EXCEPT !.kind = "due"])
          /\ \A kind \in {"refresh", "view"}, e \in Entries, cards \in Seq(Seq(Entries)) :
                Blank(Begun(kind, e, cards))
<1>1. Resting.step = "value" /\ Resting.todo = <<>> /\ Resting.card = <<>>
  BY DEF Resting
<1>2. NoRow.state = "none" /\ NoRow.error = "none" /\ NoRow.value = Missing /\ NoRow.since = 0
  BY DEF NoRow
<1>3. Blank(Resting)
  BY <1>1, <1>2, RestingType DEF Blank
<1>4. Blank([Resting EXCEPT !.kind = "due"])
  <2> DEFINE w == [Resting EXCEPT !.kind = "due"]
  <2>1. w.step = Resting.step /\ w.todo = Resting.todo /\ w.card = Resting.card /\ w.seen = Resting.seen
    BY RestingType DEF Workers
  <2> HIDE DEF w
  <2>2. Blank(w)
    BY <1>3, <2>1 DEF Blank
  <2> QED BY <2>2 DEF w
<1>5. ASSUME NEW kind \in {"refresh", "view"}, NEW e \in Entries, NEW cards \in Seq(Seq(Entries))
      PROVE Blank(Begun(kind, e, cards))
  <2> DEFINE w == Begun(kind, e, cards)
  <2>1. w.step = "value" /\ w.card = <<>> /\ w.todo = <<>>
        /\ \A d \in Entries : w.seen[d] = [NoRow EXCEPT !.since = floor[d]]
    BY BegunType
  <2>2. \A d \in Entries : LET s == [NoRow EXCEPT !.since = floor[d]] IN
            s.state = "none" /\ s.error = "none" /\ s.value = Missing /\ s.since = floor[d]
    BY DEF NoRow
  <2> HIDE DEF w
  <2>3. Blank(w)
    BY ZenonT(30), <2>1, <2>2 DEF Blank
  <2> QED BY <2>3 DEF w
<1> QED BY <1>3, <1>4, <1>5

\* Every step keeps what the worker saw true.
LEMMA SeenStep ==
    ASSUME BaseInv, FloorInv, PaneTypes, SeenInv, WatchedNext \/ UNCHANGED allVars
    PROVE SeenInv'
<1>0. TypeOK /\ CacheStep /\ Topological[1] \in Entries
  BY StepsOfCaches, NoCallType DEF BaseInv, NoCall, Calls
<1>1. CASE UNCHANGED worker
  BY <1>0, <1>1, SeenStays
<1>2. UNCHANGED allVars \/ UNCHANGED paneVars \/ (\E t \in Threads : Submit(t)) \/ Leave \/ CloseView \/ EndSession
          => UNCHANGED worker
  BY DEF allVars, paneVars, Submit, Leave, CloseView, EndSession
<1>3. ASSUME Schedule \/ Refresh \/ Apply \/ ShowValue PROVE SeenInv'
  <2>1. Quiet
    BY <1>3 DEF Schedule, Refresh, Apply, ShowValue, vars, Quiet
  <2>2. Blank(worker')
    BY <1>0, <1>3, BlankWorkers, CardsAssumption DEF Schedule, Refresh, Apply, ShowValue
  <2> QED BY <1>0, <2>1, <2>2, SeenBegins
<1>4. ASSUME NEW e \in Entries, View(e) PROVE SeenInv'
  <2>1. Quiet
    BY <1>4 DEF View, vars, Quiet
  <2>2. << <<e>> >> \in Seq(Seq(Entries))
    OBVIOUS
  <2>3. Blank(worker')
    BY <1>0, <1>4, <2>2, BlankWorkers DEF View
  <2> QED BY <1>0, <2>1, <2>3, SeenBegins
<1>5. ASSUME PeekEntry \/ Classify \/ LookAt PROVE SeenInv'
  <2>1. Quiet
    BY <1>5 DEF PeekEntry, Classify, LookAt, Alone, vars, Quiet
  <2> QED BY <1>5, <2>1, SeenWalks
<1>6. ASSUME NextCard \/ Inspected \/ Mount \/ Unobservable PROVE SeenInv'
  <2>1. Quiet
    BY <1>6 DEF NextCard, Inspected, Mount, Unobservable, Alone, vars, Quiet, locks, global, env
  <2> QED BY <1>0, <1>6, <2>1, SeenMoves
<1> QED BY <1>1, <1>2, <1>3, <1>4, <1>5, <1>6 DEF WatchedNext, Pane

\* What a row shows is from after the floor its worker began with, and what the view
\* shows too, or it stands next to the error of the drop.
Honours(s) == s.value # Missing /\ s.state # "unobservable" => s.since <= s.value.gen
ShownInv ==
    /\ \A e \in Entries : Honours(rows[e])
    /\ Honours(modal) \/ modal.error = "delete"
PaneInv == DropInv /\ PaneTypes /\ SeenInv /\ ShownInv

\* Every step keeps what is shown.
LEMMA ShownStep ==
    ASSUME PaneInv, WatchedNext \/ UNCHANGED allVars
    PROVE ShownInv'
<1>0. /\ ShownInv /\ SeenInv /\ rows \in [Entries -> Seens] /\ worker \in Workers
      /\ worker.goal \in Entries
  BY DEF PaneInv, PaneTypes, Workers
<1>1. NoRow.value = Missing /\ Honours(NoRow)
  BY DEF NoRow, Honours
<1>2. CASE UNCHANGED <<rows, modal>>
  BY <1>0, <1>2 DEF ShownInv
<1>3. ASSUME worker.step = "value", NEW e \in Entries
      PROVE Honours(worker.seen[e]) \/ (worker.kind = "view" /\ worker.seen[e].error = "delete")
  <2>1. SeenAt(e)
    BY <1>0 DEF SeenInv
  <2>2. worker.seen[e].state # "peeked"
    BY <1>3, <2>1 DEF SeenAt
  <2> QED BY <2>1, <2>2 DEF SeenAt, Honours
<1>4. ASSUME Apply PROVE ShownInv'
  <2>1. worker.step = "value" /\ worker.kind # "view"
    BY <1>4 DEF Apply, Observed
  <2>2. ASSUME NEW e \in Entries PROVE Honours(Row(e))
    <3>1. ASSUME TRUE PROVE Honours([rows[e] EXCEPT !.state = "unobservable"])
      <4>1. [rows[e] EXCEPT !.state = "unobservable"].state = "unobservable"
        BY <1>0 DEF Seens
      <4> QED BY <4>1 DEF Honours
    <3> QED BY <1>1, <1>3, <2>1, <3>1 DEF Row
  <2>3. \A e \in Entries : rows'[e] = Row(e)
    BY <1>4 DEF Apply
  <2>4. UNCHANGED modal
    BY <1>4 DEF Apply
  <2>5. \A e \in Entries : Honours(rows'[e])
    BY <2>2, <2>3
  <2> QED BY <1>0, <2>4, <2>5 DEF ShownInv
<1>5. ASSUME ShowValue PROVE ShownInv'
  <2>1. worker.step = "value" /\ modal' = worker.seen[worker.goal] /\ UNCHANGED rows
    BY <1>5 DEF ShowValue, Observed
  <2>2. Honours(modal') \/ modal'.error = "delete"
    BY <1>0, <1>3, <2>1
  <2> QED BY <1>0, <2>1, <2>2 DEF ShownInv
<1>6. ASSUME CloseView PROVE ShownInv'
  BY <1>0, <1>1, <1>6 DEF CloseView, ShownInv
<1>7. UNCHANGED allVars \/ UNCHANGED paneVars \/ (\E t \in Threads : Submit(t)) => UNCHANGED <<rows, modal>>
  BY DEF allVars, paneVars, Submit
<1>8. Schedule \/ Leave \/ Refresh \/ EndSession \/ (\E e \in Entries : View(e)) => UNCHANGED <<rows, modal>>
  BY DEF Schedule, Leave, Refresh, EndSession, View
<1>9. NextCard \/ PeekEntry \/ Classify \/ Inspected \/ LookAt \/ Unobservable \/ Mount => UNCHANGED <<rows, modal>>
  BY DEF NextCard, PeekEntry, Classify, Inspected, LookAt, Unobservable, Mount, Alone
<1> QED BY <1>2, <1>4, <1>5, <1>6, <1>7, <1>8, <1>9 DEF WatchedNext, Pane

\* The pane starts with nothing seen and nothing shown.
LEMMA PaneStarts == WatchedInit => PaneInv
<1> SUFFICES ASSUME WatchedInit PROVE PaneInv
  OBVIOUS
<1>1. DropInv
  BY DropInit
<1>2. TypeOK
  BY <1>1 DEF DropInv, BaseInv
<1>3. NoRow \in Seens /\ worker = Resting /\ worker \in Workers
  <2>1. 0 \in 0 .. MaxNow
    BY ConstantsAssumption
  <2> QED BY <2>1, RestingType DEF NoRow, Seens, Slots, WatchedInit, PaneInit
<1>4. PaneTypes
  BY <1>3 DEF PaneTypes, WatchedInit, PaneInit
<1>5. Blank(worker)
  BY <1>2, <1>3, BlankWorkers
<1>6. SeenInv
  <2>1. ASSUME NEW d \in Entries PROVE SeenAt(d)
    <3>1. worker.seen[d].since \in {0, floor[d]} /\ floor[d] \in 0 .. MaxNow
      BY <1>2, <1>5 DEF Blank, TypeOK
    <3>2. worker.seen[d].since <= floor[d]
      BY <3>1, ConstantsAssumption
    <3> QED BY <1>5, <3>2 DEF SeenAt, Blank
  <2>2. \A i \in 1 .. Len(worker.card) : FALSE
    BY <1>5 DEF Blank
  <2>3. \A i \in 1 .. Len(worker.todo) : FALSE
    BY <1>5 DEF Blank
  <2> QED BY <1>5, <2>1, <2>2, <2>3 DEF SeenInv, Blank
<1>7. ShownInv
  <2>1. Honours(NoRow)
    BY DEF NoRow, Honours
  <2> QED BY <2>1 DEF ShownInv, WatchedInit, PaneInit
<1> QED BY <1>1, <1>4, <1>6, <1>7 DEF PaneInv

\* What a row or the view shows was computed after every invalidation that was over
\* when its worker began, or it stands next to the error of the drop that failed: the
\* worker peeks, classifies and looks at three instants, with loaders and cascades in
\* between. The conditions are those of the invalidation itself.
THEOREM ShownValuesHonourDrops ==
    ASSUME ReadsInOrder, QuarantineKept
    PROVE WatchedSpec => []ShownHonoursDrops
<1>1. ASSUME PaneInv, WatchedNext \/ UNCHANGED allVars PROVE PaneInv'
  <2>1. DropInv /\ BaseInv /\ FloorInv /\ TypeOK /\ PaneTypes /\ SeenInv
    BY <1>1 DEF PaneInv, DropInv, BaseInv
  <2>2. DropInv'
    BY <1>1, <2>1, DropKeeps
  <2>3. PaneTypes'
    BY <1>1, <2>1, PaneTypesStep
  <2>4. SeenInv'
    BY <1>1, <2>1, SeenStep
  <2> QED BY <1>1, <2>2, <2>3, <2>4, ShownStep DEF PaneInv
<1>2. ASSUME PaneInv PROVE ShownHonoursDrops
  <2>1. ASSUME NEW s \in Seens, s.value # Missing, s.state # "unobservable", Honours(s)
        PROVE s.value.gen >= s.since
    <3>1. s.value \in Record /\ s.since \in 0 .. MaxNow
      BY <2>1 DEF Seens, Slots
    <3>2. s.value.gen \in 0 .. MaxNow /\ s.since <= s.value.gen
      BY <2>1, <3>1 DEF Record, Honours
    <3> QED BY <3>1, <3>2, ConstantsAssumption
  <2>2. rows \in [Entries -> Seens] /\ modal \in Seens /\ ShownInv
    BY <1>2 DEF PaneInv, PaneTypes
  <2> QED BY <2>1, <2>2 DEF ShownHonoursDrops, ShownInv
<1> QED BY <1>1, <1>2, PaneStarts, PTL DEF WatchedSpec

=============================================================================
