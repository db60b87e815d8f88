----------------------------- MODULE CachePane -----------------------------
(***************************************************************************)
(* The caches pane and the value view of the terminal UI (CachesPane in    *)
(* src/winslow/ui/builtin_plugins/workflow/caches.py, CacheEntryValue in   *)
(* src/winslow/ui/modals/cache_value.py) over the caches of a process.  A  *)
(* worker thread observes the entries one by one, with no lock held        *)
(* between a record and its error mark, while other threads load and drop  *)
(* them; the loop shows what the worker saw, unless it was replaced.       *)
(***************************************************************************)
EXTENDS Cache

CONSTANTS
    Cards,        \* the caches of the session in their order, each the sequence of its entries
    MaxWatchedOps \* bound: calls of a behaviour that is watched

ASSUME CardsAssumption == Cards \in Seq(Seq(Entries))

Watched == "watch" \in mode
\* Bound: while a worker may watch, the calls it watches do not overlap.
OneCall == ops < MaxWatchedOps /\ \A t \in Threads : pc[t] = "idle"

VARIABLES
    rows,    \* rows[e]: what the row of an entry shows, NoRow before its card is mounted
    modal,   \* what the value view shows, NoRow while it is closed
    worker,  \* the thread that observes, see Resting
    dying,   \* a replaced refresh has not left its finally (_collecting)
    ended    \* the session ended: its caches are released

paneVars == <<rows, modal, worker, dying, ended>>
allVars == <<tier, errors, lock, stack, pc, call, populateLock, populated, floor,
             now, ops, faults, mode, rows, modal, worker, dying, ended>>

\* CacheEntryInfo and the preview beside it; the error shows in the view. since: with a
\* value, the floor when the worker began (history).
NoRow == [state |-> "none", error |-> "none", value |-> Missing, since |-> 0]

\* A worker walks one card after the other: it peeks and classifies every entry, then
\* looks at the values. card: the entries of the card, todo: those left of this loop,
\* cards: the cards left.
Watching == {e \in Entries : \E i \in 1 .. Len(Cards) : Occurs(e, Cards[i])}
Resting == [kind |-> "none", goal |-> Topological[1], step |-> "value", card |-> <<>>,
            todo |-> <<>>, cards |-> <<>>, seen |-> [e \in Entries |-> NoRow]]

PaneInit ==
    /\ rows = [e \in Entries |-> NoRow] /\ modal = NoRow
    /\ worker = Resting /\ dying = FALSE /\ ended = FALSE

---------------------------------------------------------------------------
(* The refresh. *)

Begun(kind, e, cards) ==
    [Resting EXCEPT !.kind = kind, !.goal = e, !.cards = cards,
                    !.seen = [d \in Entries |-> [NoRow EXCEPT !.since = floor[d]]]]

\* A cache event, the tick or the mount: an exclusive worker replaces the one before,
\* whose coroutine is cancelled and whose thread answers nobody.
Schedule ==
    /\ Watched /\ ~ended /\ worker.kind # "view"
    /\ dying' = (dying \/ worker.kind \in {"refresh", "mounting"})
    /\ worker' = [Resting EXCEPT !.kind = "due"]
    /\ UNCHANGED <<vars, rows, modal, ended>>
\* A replaced refresh leaves its finally, before or after the new one starts.
Leave ==
    /\ dying /\ dying' = FALSE
    /\ UNCHANGED <<vars, rows, modal, worker, ended>>
\* _refresh: one thread observes at a time, another refresh returns at once. The caches
\* of an ended session raise (Workflow.caches): the rows stay.
Refresh ==
    /\ worker.kind = "due"
    /\ worker' = IF dying \/ ended THEN Resting ELSE Begun("refresh", Topological[1], Cards)
    /\ UNCHANGED <<vars, rows, modal, dying, ended>>

\* The view button of a row: CacheEntryValue reads on a thread of its own. In an ended
\* session it shows the refusal.
View(e) ==
    /\ Watched /\ ~ended /\ worker.kind = "none" /\ rows[e] # NoRow /\ modal = NoRow
    /\ worker' = Begun("view", e, << <<e>> >>)
    /\ UNCHANGED <<vars, rows, modal, dying, ended>>
CloseView ==
    /\ modal # NoRow /\ modal' = NoRow
    /\ UNCHANGED <<vars, rows, worker, dying, ended>>

---------------------------------------------------------------------------
(* The worker thread. *)

Walks(step) == worker.step = step /\ worker.todo # <<>>
Saw(e, s) == [worker EXCEPT !.seen[e] = s]
Alone == UNCHANGED <<vars, rows, modal, dying, ended>>

NextCard ==
    /\ worker.step = "value" /\ worker.todo = <<>> /\ worker.cards # <<>>
    /\ worker' = [worker EXCEPT !.step = "peek", !.card = Head(worker.cards),
                                !.todo = Head(worker.cards), !.cards = Tail(@)]
    /\ Alone

\* BaseCache.peek: a running loader is waited for a moment only.
PeekEntry ==
    /\ Walks("peek")
    /\ LET e == Head(worker.todo)
           s == [worker.seen[e] EXCEPT !.state = IF lock[e] # Free THEN "computing" ELSE "peeked",
                                       !.value = Recorded(e)]
       IN worker' = [Saw(e, s) EXCEPT !.step = "classify"]
    /\ Alone

\* _entry_state over the record of the peek and the error mark of now.
StateOf(e, record, error) ==
    IF record # Missing /\ error # "delete" /\ ~Expired(e, record) THEN "warm"
    ELSE IF error # "none" THEN "errored"
    ELSE IF record = Missing THEN "cold" ELSE "stale"
Classify ==
    /\ Walks("classify")
    /\ LET e == Head(worker.todo)
           s == worker.seen[e]
           state == IF s.state = "computing" THEN s.state ELSE StateOf(e, s.value, errors[e])
           error == IF worker.kind = "view" THEN errors[e] ELSE "none"
       IN worker' = [Saw(e, [s EXCEPT !.state = state, !.value = Missing, !.error = error])
                        EXCEPT !.step = "peek", !.todo = Tail(@)]
    /\ Alone
\* Every entry of the card is classified.
Inspected ==
    /\ worker.step = "peek" /\ worker.todo = <<>>
    /\ worker' = [worker EXCEPT !.step = "value", !.todo = worker.card]
    /\ Alone

\* Mutant: every record found is previewed.
PreviewableAll == {"warm", "stale", "errored"}
\* The states with a trustworthy value: an errored entry can carry a leftover one.
Previewable == {"warm", "stale"}
\* The second peek: the preview of a row, or the value of the view in any state. A
\* view that finds no record is of a cold or a computing entry.
LookAt ==
    /\ Walks("value")
    /\ LET e == Head(worker.todo)
           s == worker.seen[e]
           view == worker.kind = "view"
           r == IF view \/ s.state \in Previewable THEN Recorded(e) ELSE Missing
           absent == IF lock[e] # Free THEN "computing" ELSE "cold"
           shown == [s EXCEPT !.value = r, !.since = IF r = Missing THEN 0 ELSE @,
                              !.state = IF view /\ r = Missing THEN absent ELSE @]
       IN worker' = [Saw(e, shown) EXCEPT !.todo = Tail(@)]
    /\ Alone

\* A storage that raises makes its card unobservable, whole, and the next is read.
Unobservable ==
    /\ worker.kind = "refresh" /\ (Walks("peek") \/ Walks("value"))
    /\ Fault("peek")
    /\ worker' = [worker EXCEPT
           !.step = "value", !.todo = <<>>,
           !.seen = [e \in Entries |->
               IF Occurs(e, worker.card) THEN [NoRow EXCEPT !.state = "unobservable"] ELSE @[e]]]
    /\ UNCHANGED <<tier, errors, pc, call, floor, ops, locks, global, env>>
    /\ UNCHANGED <<rows, modal, dying, ended>>

---------------------------------------------------------------------------
(* The loop. *)

\* _apply: the rows of the cards; an unobservable card says so and keeps its previews.
Row(e) ==
    IF e \notin Watching THEN NoRow
    ELSE IF worker.seen[e].state = "unobservable"
         THEN [rows[e] EXCEPT !.state = "unobservable"]
         ELSE worker.seen[e]
Observed(kind) ==
    /\ worker.kind = kind /\ worker.step = "value"
    /\ worker.todo = <<>> /\ worker.cards = <<>>
\* _mount_card: the await lets another refresh come in between.
Mount ==
    /\ Observed("refresh") /\ \E e \in Watching : rows[e] = NoRow
    /\ worker' = [worker EXCEPT !.kind = "mounting"]
    /\ Alone
Apply ==
    /\ \/ Observed("mounting")
       \/ Observed("refresh") /\ \A e \in Watching : rows[e] # NoRow
    /\ rows' = [e \in Entries |-> Row(e)]
    /\ worker' = Resting
    /\ UNCHANGED <<vars, modal, dying, ended>>
ShowValue ==
    /\ Observed("view")
    /\ modal' = worker.seen[worker.goal]
    /\ worker' = Resting
    /\ UNCHANGED <<vars, rows, dying, ended>>

\* SessionEnded stops the tick, and the lane of the cache events is detached.
EndSession ==
    /\ Watched /\ ~ended /\ ended' = TRUE
    /\ UNCHANGED <<vars, rows, modal, worker, dying>>

\* The buttons, which an open view covers: one entry, or every row the scope and the
\* search let through.
Visible(scope, matches) ==
    {e \in Entries : rows[e] # NoRow /\ e \in matches /\ (scope = "all" \/ CacheOf[e] = scope)}
Submit(t) ==
    /\ Watched /\ ~ended /\ OneCall /\ worker.kind # "view" /\ modal = NoRow
    /\ \E scope \in {CacheOf[e] : e \in Watching} \cup {"all"}, matches \in SUBSET Entries :
        \E e \in Visible(scope, matches) : Read(t, e) \/ Invalidate(t, {e})
    /\ UNCHANGED paneVars

---------------------------------------------------------------------------

Pane ==
    \/ Schedule \/ Leave \/ Refresh \/ CloseView \/ \E e \in Entries : View(e)
    \/ NextCard \/ PeekEntry \/ Classify \/ Inspected \/ LookAt \/ Unobservable
    \/ Mount \/ Apply \/ ShowValue \/ EndSession
WatchedInit == Init /\ PaneInit
WatchedNext ==
    \/ /\ \/ Tick \/ Restart
          \/ \E t \in Threads : ThreadStep(t)
          \/ ~Watched /\ \E t \in Threads : Call(t)
       /\ UNCHANGED paneVars
    \/ Pane \/ \E t \in Threads : Submit(t)
WatchedSpec == WatchedInit /\ [][WatchedNext]_allVars

---------------------------------------------------------------------------
(* Properties. *)

\* The value of a dropped entry is never shown as if it were valid: what a row or the
\* view shows was computed after every invalidation that was over when the worker
\* began, or it stands next to the error of the drop that failed, though the record
\* and the mark are read at different instants (CacheInfo.from_cache, _entry_info).
ShownHonoursDrops ==
    \A s \in {rows[e] : e \in Entries} \cup {modal} :
        s.value # Missing /\ s.state # "unobservable" =>
            s.value.gen >= s.since \/ (s = modal /\ s.error = "delete")
=============================================================================
