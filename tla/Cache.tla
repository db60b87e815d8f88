------------------------------- MODULE Cache -------------------------------
(***************************************************************************)
(* The caches of a process (src/winslow/cache): lazy entries behind one    *)
(* lock each, loaders that read other entries, a storage of several tiers, *)
(* the invalidation cascade, the quarantine of a failed drop, the history  *)
(* recorder, and the initialization that populates the eager entries once. *)
(*                                                                         *)
(* A value is abstracted to the oldest instant of the outside world it was *)
(* computed from (gen): the minimum over its own source and everything its *)
(* loader read.  An invalidation happens because the world changed before  *)
(* it, so a later read must not return a value from before it.             *)
(***************************************************************************)
EXTENDS Naturals, Sequences

CONSTANTS
    Threads, Entries,
    CacheOf,      \* [Entries -> a name]: the cache an entry belongs to
    Upstream,     \* [Entries -> SUBSET Entries]: depends_on
    LoaderReads,  \* [Entries -> Seq(Entries)]: what the loader reads, in order
    Topological,  \* every entry once, upstream first
    Eager,        \* the entries with eager=True, upstream first
    Expiring,     \* the entries with a ttl
    Ttl,          \* their ttl, in ticks
    Tiers,        \* the writable tiers of the storage, 1 is read first
    Modes,        \* sets of the faults and operations one behaviour may show
    Missing, Free,
    MaxNow, MaxOps, MaxFaults  \* bounds: ticks, calls, faults

\* StorageRecord: a value and its write time.
Record == [gen : 0 .. MaxNow, at : 0 .. MaxNow]

Occurs(e, seq) == \E i \in 1 .. Len(seq) : seq[i] = e
\* validate_cache_class: a dependency is an entry of the same cache, and an eager
\* entry depends on eager entries only.
ValidEntry(e) ==
    \A dep \in Upstream[e] :
        CacheOf[dep] = CacheOf[e] /\ (Occurs(e, Eager) => Occurs(dep, Eager))
\* The dependencies are acyclic: the order of the declarations can be sorted.
Sorted(seq) ==
    \A i \in 1 .. Len(seq) : \A dep \in Upstream[seq[i]] :
        \E j \in 1 .. i - 1 : seq[j] = dep

ASSUME ConstantsAssumption ==
    /\ LoaderReads \in [Entries -> Seq(Entries)]
    /\ Upstream \in [Entries -> SUBSET Entries]
    /\ Topological \in Seq(Entries) /\ Eager \in Seq(Entries)
    /\ Sorted(Topological) /\ Sorted(Eager)
    /\ \A e \in Entries : ValidEntry(e) /\ Occurs(e, Topological)
    /\ Topological # <<>>
    /\ Expiring \subseteq Entries /\ Ttl \in Nat \ {0} /\ Tiers \in Nat \ {0}
    /\ MaxNow \in Nat \ {0} /\ MaxOps \in Nat /\ MaxFaults \in Nat
    /\ Free \notin Threads
    /\ Missing \notin Record

VARIABLES
    tier,      \* tier[i][e]: the record of e in tier i, or Missing
    errors,    \* the origin of the error mark of an entry
    lock,      \* the thread that holds the field lock
    stack,     \* the loaders a thread is in, innermost last (_read_chain)
    pc,        \* where a thread is
    call,      \* the call it serves, see NoCall
    populateLock, populated,
    floor,     \* history: when the last invalidation that renews an entry began
    now, ops, faults, mode

locks == <<lock, stack>>
global == <<populateLock, populated>>
env == <<now, mode>>
vars == <<tier, errors, lock, stack, pc, call, populateLock, populated, floor,
          now, ops, faults, mode>>

\* The older of two instants.
Older(a, b) == IF a < b THEN a ELSE b
Frame == [entry : Entries, left : Seq(Entries), gen : 0 .. MaxNow]

---------------------------------------------------------------------------
(* Storage: ComposedStorage over the writable tiers. *)

HasRecord(e) == \E i \in 1 .. Tiers : tier[i][e] # Missing
TopTier(e) == CHOOSE i \in 1 .. Tiers :
    tier[i][e] # Missing /\ \A j \in 1 .. i - 1 : tier[j][e] = Missing
\* ComposedStorage.peek: the first hit, no promotion.
Peek(e) == IF HasRecord(e) THEN tier[TopTier(e)][e] ELSE Missing
\* ComposedStorage.read: the first hit goes verbatim into the tiers above it.
Promoted(e) == [i \in 1 .. Tiers |->
    IF HasRecord(e) /\ i < TopTier(e)
    THEN [tier[i] EXCEPT ![e] = Peek(e)] ELSE tier[i]]
\* Mutant: a tier that holds a record keeps it.
WrittenIfAbsent(e, r, i) == [j \in 1 .. Tiers |->
    IF j >= i /\ tier[j][e] = Missing THEN [tier[j] EXCEPT ![e] = r] ELSE tier[j]]
\* ComposedStorage.write: bottom up, every tier or only those from i down.
Written(e, r, i) == [j \in 1 .. Tiers |->
    IF j >= i THEN [tier[j] EXCEPT ![e] = r] ELSE tier[j]]
\* ComposedStorage.delete: every tier is tried, the failing ones keep it.
Deleted(e, kept) == [i \in 1 .. Tiers |->
    IF i \in kept THEN Promoted(e)[i] ELSE [tier[i] EXCEPT ![e] = Missing]]

Expired(e, r) == e \in Expiring /\ now - r.at >= Ttl

\* BaseCache._entry_state: the one classifier of the serve and the display.
EntryState(e) ==
    LET r == Peek(e) IN
    IF r # Missing /\ errors[e] # "delete" /\ ~Expired(e, r) THEN "warm"
    ELSE IF errors[e] # "none" THEN "errored"
    ELSE IF r = Missing THEN "cold" ELSE "stale"

\* The entries of the cache of e that the thread is computing (_own_chain).
OwnChain(st, e) ==
    {i \in 1 .. Len(st) : CacheOf[st[i].entry] = CacheOf[e]}

\* An invalidation reaches the names and everything that depends on them: the
\* least set with the names that is closed under depends_on.
Closure(names) ==
    {e \in Entries : \A S \in SUBSET Entries :
        names \subseteq S /\ (\A d \in Entries : Upstream[d] \cap S # {} => d \in S)
            => e \in S}
\* The entries computed from nothing outside the set.
Renewed(set) ==
    UNION {S \in SUBSET set : \A e \in S :
               \A i \in 1 .. Len(LoaderReads[e]) : LoaderReads[e][i] \in S}
\* Mutant: the dependents first.
DownstreamFirst == [i \in 1 .. Len(Topological) |-> Topological[Len(Topological) + 1 - i]]
\* nx.topological_sort: the order of a cascade, upstream first.
CascadeOrder == Topological

\* What a thread keeps of the call it serves: its kind, the entries it has still to
\* walk, populate or record, the entry it reads now, the record it was served, the
\* instant it is measured against, and the entries a cascade drops.
NoCall == [kind |-> "none", todo |-> <<>>, goal |-> Topological[1], got |-> Missing,
           due |-> 0, drops |-> {}]

Init ==
    /\ tier = [i \in 1 .. Tiers |-> [e \in Entries |-> Missing]]
    /\ errors = [e \in Entries |-> "none"]
    /\ lock = [e \in Entries |-> Free]
    /\ stack = [t \in Threads |-> <<>>]
    /\ pc = [t \in Threads |-> "idle"]
    /\ call = [t \in Threads |-> NoCall]
    /\ populateLock = Free /\ populated = FALSE
    /\ floor = [e \in Entries |-> 0]
    /\ now = 1 /\ ops = 0 /\ faults = 0
    /\ mode \in Modes

\* A fault of a kind this behaviour may show.
Fault(f) == f \in mode /\ faults < MaxFaults /\ faults' = faults + 1
Goto(t, where) == pc' = [pc EXCEPT ![t] = where]
Begin(t, where, c) ==
    /\ pc[t] = "idle" /\ ops < MaxOps
    /\ ops' = ops + 1
    /\ call' = [call EXCEPT ![t] = c]
    /\ Goto(t, where)
Return(t) == call' = [call EXCEPT ![t] = NoCall] /\ Goto(t, "idle")

---------------------------------------------------------------------------
(* The calls. *)

\* A task, a hook or a view reads one entry.
Read(t, e) ==
    /\ Begin(t, "enter", [NoCall EXCEPT !.kind = "read", !.goal = e, !.todo = <<e>>,
                                        !.due = floor[e]])
    /\ UNCHANGED <<tier, errors, faults, floor, locks, global, env>>

\* invalidate(*names): the names and their dependents, upstream first.
Invalidate(t, names) ==
    /\ Begin(t, "drop", [NoCall EXCEPT !.kind = "drop", !.todo = CascadeOrder,
                             !.due = now, !.drops = Closure(names)])
    /\ UNCHANGED <<tier, errors, faults, floor, locks, global, env>>

\* initialize_global_cache: one thread at a time holds _populate_lock. A call that
\* finds the flag set, without clear, returns at once.
Initialize(t) ==
    /\ populateLock = Free /\ populateLock' = t
    /\ \/ /\ "clear" \in mode
          /\ Begin(t, "drop", [NoCall EXCEPT !.kind = "init", !.todo = CascadeOrder,
                                   !.due = now, !.drops = Entries])
       \/ /\ ~populated
          /\ Begin(t, "populate", [NoCall EXCEPT !.kind = "init", !.todo = Eager])
    /\ UNCHANGED <<tier, errors, faults, floor, populated, locks, env>>

\* _populate_entry: the next eager entry, through the ordinary read.
PopulateNext(t) ==
    LET left == call[t].todo IN
    /\ pc[t] = "populate" /\ left # <<>>
    /\ call' = [call EXCEPT ![t].goal = Head(left), ![t].todo = Tail(left),
                            ![t].due = floor[Head(left)]]
    /\ Goto(t, "enter")
    /\ UNCHANGED <<tier, errors, faults, floor, ops, locks, global, env>>

PopulateDone(t) ==
    /\ pc[t] = "populate" /\ call[t].todo = <<>>
    /\ populated' = TRUE /\ populateLock' = Free
    /\ Return(t)
    /\ UNCHANGED <<tier, errors, faults, floor, ops, locks, env>>

---------------------------------------------------------------------------
(* BaseCache._entry_value. *)

Top(t) == stack[t][Len(stack[t])]
Below(t) == SubSeq(stack[t], 1, Len(stack[t]) - 1)

\* A read of r ended: the loader around it takes it, or the call has its value.
Deliver(t, st, r) ==
    IF st = <<>>
    THEN /\ stack' = [stack EXCEPT ![t] = st]
         /\ call' = [call EXCEPT ![t].got = r]
         /\ Goto(t, IF call[t].kind = "init" THEN "populate" ELSE "record")
    ELSE LET top == st[Len(st)] IN
         /\ stack' = [stack EXCEPT ![t] =
                [st EXCEPT ![Len(st)] = [top EXCEPT !.left = Tail(top.left),
                                                    !.gen = Older(top.gen, r.gen)]]]
         /\ UNCHANGED call
         /\ Goto(t, "load")

\* A servable record: read, promoted and returned under the field lock.
Serve(t) ==
    LET e == call[t].goal IN
    /\ pc[t] = "enter" /\ lock[e] = Free
    /\ EntryState(e) = "warm"
    /\ tier' = Promoted(e)
    /\ errors' = [errors EXCEPT ![e] = "none"]
    /\ Deliver(t, stack[t], Peek(e))
    /\ UNCHANGED <<lock, floor, ops, faults, global, env>>

\* No servable record: the thread keeps the lock and runs the loader.
StartLoader(t) ==
    LET e == call[t].goal IN
    /\ pc[t] = "enter" /\ lock[e] = Free
    /\ EntryState(e) # "warm"
    /\ tier' = Promoted(e)
    /\ lock' = [lock EXCEPT ![e] = t]
    /\ stack' = [stack EXCEPT ![t] =
           Append(@, [entry |-> e, left |-> LoaderReads[e], gen |-> now])]
    /\ Goto(t, "load")
    /\ UNCHANGED <<errors, call, floor, ops, faults, global, env>>

\* Mutant: no look at the chain of the thread.
NeverReenter(t) == FALSE
\* CacheReentrancyError: the loader reads an entry its own thread computes.
Reenter(t) ==
    /\ pc[t] = "enter" /\ lock[call[t].goal] = t
    /\ Goto(t, "raise")
    /\ UNCHANGED <<tier, errors, call, floor, ops, faults, locks, global, env>>

\* The loader reads the next entry it needs.
LoaderRead(t) ==
    /\ pc[t] = "load" /\ Top(t).left # <<>>
    /\ call' = [call EXCEPT ![t].goal = Head(Top(t).left)]
    /\ Goto(t, "enter")
    /\ UNCHANGED <<tier, errors, floor, ops, faults, locks, global, env>>

LoaderFails(t) ==
    /\ pc[t] = "load" /\ Fault("load")
    /\ Goto(t, "raise")
    /\ UNCHANGED <<tier, errors, call, floor, ops, locks, global, env>>

\* The loader returned: the storage keeps the record and the read serves it.
\* A tier that fails leaves the fresh record in the tiers below it only, and the
\* error leaves _entry_value past the error mark of this entry.
Store(t) ==
    LET e == Top(t).entry
        r == [gen |-> Top(t).gen, at |-> now]
    IN
    /\ pc[t] = "load" /\ Top(t).left = <<>>
    /\ lock' = [lock EXCEPT ![e] = Free]
    /\ \/ /\ tier' = Written(e, r, 1)
          /\ errors' = [errors EXCEPT ![e] = "none"]
          /\ Deliver(t, Below(t), r)
          /\ UNCHANGED faults
       \/ /\ Fault("write")
          /\ \E i \in 2 .. Tiers + 1 : tier' = Written(e, r, i)
          /\ stack' = [stack EXCEPT ![t] = Below(t)]
          /\ Goto(t, "raise")
          /\ UNCHANGED <<errors, call>>
    /\ UNCHANGED <<floor, ops, global, env>>

\* An error leaves a loader: only the outermost one of its cache is marked.
Unwind(t) ==
    LET e == Top(t).entry IN
    /\ pc[t] = "raise" /\ stack[t] # <<>>
    /\ lock' = [lock EXCEPT ![e] = Free]
    /\ errors' = IF OwnChain(Below(t), e) = {}
                 THEN [errors EXCEPT ![e] = "load"] ELSE errors
    /\ stack' = [stack EXCEPT ![t] = Below(t)]
    /\ UNCHANGED <<tier, pc, call, floor, ops, faults, global, env>>

\* The error reaches the caller. An initialization ends with it, its flag as it was.
Raise(t) ==
    /\ pc[t] = "raise" /\ stack[t] = <<>>
    /\ IF call[t].kind = "init"
       THEN populateLock' = Free /\ UNCHANGED populated
       ELSE UNCHANGED global
    /\ Return(t)
    /\ UNCHANGED <<tier, errors, floor, ops, faults, locks, env>>

\* RecordingCache: after the read, a peek that finds a record goes to history.
\* A peek does not wait for a loader.
Recorded(e) == IF lock[e] = Free THEN Peek(e) ELSE Missing
RecordRead(t) ==
    /\ pc[t] = "record"
    /\ Return(t)
    /\ UNCHANGED <<tier, errors, floor, ops, faults, locks, global, env>>

---------------------------------------------------------------------------
(* The cascade. *)

\* The next entry of the order that the cascade reaches.
NextDrop(c, i) ==
    /\ i \in 1 .. Len(c.todo) /\ c.todo[i] \in c.drops
    /\ \A j \in 1 .. i - 1 : c.todo[j] \notin c.drops

\* _drop_entry: one lock at a time; a failed delete quarantines the entry.
DropOne(t) == \E i \in 1 .. Len(call[t].todo) :
    LET e == call[t].todo[i]
        renewed == e \in Renewed(call[t].drops) /\ floor[e] < call[t].due
    IN
    /\ pc[t] = "drop" /\ NextDrop(call[t], i) /\ lock[e] = Free
    /\ \/ /\ tier' = Deleted(e, {})
          /\ UNCHANGED <<errors, faults>>
       \/ /\ Fault("delete")
          /\ \E kept \in (SUBSET (1 .. Tiers)) \ {{}} : tier' = Deleted(e, kept)
          /\ errors' = [errors EXCEPT ![e] = "delete"]
    /\ call' = [call EXCEPT ![t].todo = SubSeq(@, i + 1, Len(@))]
    /\ floor' = IF renewed THEN [floor EXCEPT ![e] = call[t].due] ELSE floor
    /\ UNCHANGED <<pc, ops, locks, global, env>>

\* The cascade is over: an initialization goes on with the population.
DropDone(t) ==
    /\ pc[t] = "drop" /\ \A i \in 1 .. Len(call[t].todo) : call[t].todo[i] \notin call[t].drops
    /\ IF call[t].kind = "init"
       THEN call' = [call EXCEPT ![t].todo = Eager] /\ Goto(t, "populate")
       ELSE Return(t)
    /\ UNCHANGED <<tier, errors, floor, ops, faults, locks, global, env>>

---------------------------------------------------------------------------
(* The environment. *)

\* Time passes and the outside world changes.
Tick ==
    /\ now < MaxNow /\ now' = now + 1
    /\ UNCHANGED <<tier, errors, pc, call, floor, ops, faults, locks, global, mode>>

\* The process dies and a new one starts: the files (the last tier) survive.
Restart ==
    /\ Fault("restart")
    /\ tier' = [i \in 1 .. Tiers |->
           IF i = Tiers THEN tier[i] ELSE [e \in Entries |-> Missing]]
    /\ errors' = [e \in Entries |-> "none"]
    /\ lock' = [e \in Entries |-> Free]
    /\ stack' = [t \in Threads |-> <<>>]
    /\ pc' = [t \in Threads |-> "idle"]
    /\ call' = [t \in Threads |-> NoCall]
    /\ populateLock' = Free /\ populated' = FALSE
    /\ UNCHANGED <<floor, ops, env>>

ThreadStep(t) ==
    \/ PopulateNext(t) \/ PopulateDone(t)
    \/ Serve(t) \/ StartLoader(t) \/ Reenter(t) \/ LoaderRead(t) \/ LoaderFails(t)
    \/ Store(t) \/ Unwind(t) \/ Raise(t) \/ RecordRead(t)
    \/ DropOne(t) \/ DropDone(t)
Call(t) ==
    \/ \E e \in Entries : Read(t, e)
    \/ \E names \in (SUBSET Entries) \ {{}} : Invalidate(t, names)
    \/ Initialize(t)
Next == Tick \/ Restart \/ \E t \in Threads : ThreadStep(t) \/ Call(t)
Spec == Init /\ [][Next]_vars

---------------------------------------------------------------------------
(* Properties. *)

Calls ==
    [kind : {"none", "read", "drop", "init"}, todo : Seq(Entries), goal : Entries,
     got : Record \cup {Missing}, due : 0 .. MaxNow, drops : SUBSET Entries]

TypeOK ==
    /\ tier \in [1 .. Tiers -> [Entries -> Record \cup {Missing}]]
    /\ errors \in [Entries -> {"none", "load", "delete"}]
    /\ lock \in [Entries -> Threads \cup {Free}]
    /\ stack \in [Threads -> Seq(Frame)]
    /\ pc \in [Threads -> {"idle", "enter", "load", "raise", "record", "drop", "populate"}]
    /\ call \in [Threads -> Calls]
    /\ populateLock \in Threads \cup {Free}
    /\ populated \in BOOLEAN
    /\ floor \in [Entries -> 0 .. MaxNow]
    /\ now \in 1 .. MaxNow /\ ops \in 0 .. MaxOps /\ faults \in 0 .. MaxFaults
    /\ mode \in Modes

\* An invalidation that dropped everything a value comes from is final: no read
\* that starts after the drop serves a value from before it, whatever loaders
\* ran at the time (the upstream-first order of BaseCache._drop_entries) and
\* whatever a tier refused to delete (the quarantine of _drop_entry).
InvalidationReaches ==
    \A t \in Threads : pc[t] = "record" => call[t].got.gen >= call[t].due

\* History never shows a value older than the one the task was served
\* (RecordingCache.__getattr__ peeks after the read).
HistoryIsNotOlder ==
    \A t \in Threads :
        LET r == Recorded(call[t].todo[1]) IN
        pc[t] = "record" => r = Missing \/ r.at >= call[t].got.at

\* The entry whose lock a thread needs for its next step.
Wants(t) ==
    IF pc[t] = "enter" THEN {call[t].goal}
    ELSE IF pc[t] = "drop" THEN {call[t].todo[i] : i \in {j \in DOMAIN call[t].todo : NextDrop(call[t], j)}}
    ELSE {}

\* The thread can take its next step.
Proceeds(t) == ENABLED ThreadStep(t)

\* Loaders that wait for each other's field locks never wait in a circle, and a
\* thread that reads what it computes is refused before it waits for itself.
NoWaitCycle ==
    \A set \in (SUBSET Threads) \ {{}} :
        \E t \in set : (\A e \in Wants(t) : lock[e] \notin set) \/ Proceeds(t)
=============================================================================
