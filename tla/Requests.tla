------------------------------ MODULE Requests ------------------------------
(***************************************************************************)
(* The calls of a remote client: the exchange of a request for a reply     *)
(* over a socket that may drop, with its timeout and the reconnect (Wire   *)
(* in src/winslow/client/websocket.py), the jobs the server spawns for     *)
(* them under the permissions of the socket (Connection in                 *)
(* src/winslow/serve/app.py), and what the handler of a session does with  *)
(* them (src/winslow/actions.py).                                          *)
(***************************************************************************)
EXTENDS Port, Sequences, FiniteSets

CONSTANTS
    Callers,   \* threads of the client
    CallsOf,   \* CallsOf[t]: the calls a thread makes
    Scope,     \* the scope name of the session
    Grants,    \* the scope sets a hello may be granted
    MaxCalls, MaxLinks  \* bounds: the calls, the sockets opened

ASSUME RequestsAssumption == MaxCalls \in Nat /\ MaxLinks \in Nat \ {0}

Links == 1 .. MaxLinks
Ids == 1 .. MaxCalls
NoId == 0

VARIABLES
    receiver,  \* the receiver thread: "reading", "down"
    link,      \* the link the wire holds
    alive,     \* the sockets the network carries
    outage,    \* the links that failed
    pending,   \* the ids whose exchange waits, on the link of the exchange
    future,    \* future[i]: the reply that settled exchange i
    call,      \* call[t]: the call of a thread: its step, id, operation and link
    told,      \* told[i]: what the caller of i was told (history)
    ids,       \* how many ids were drawn
    served,    \* the connections the server runs
    granted,   \* granted[l]: the scopes of the context of a connection
    up, down,  \* up[l], down[l]: the frames on their way
    jobs,      \* the jobs the server spawned
    phase,     \* the session: "open", "ending" (batches drain), "ended"
    busy, unsettled, \* a batch runs, a task is neither passing nor skipped
    effects    \* the calls that took effect (history)

clientVars == <<receiver, link, outage, pending, future, call, told, ids>>
sessionVars == <<phase, busy, unsettled, effects>>
serverVars == <<served, granted, jobs>>
wireVars == <<alive, up, down>>
vars == <<receiver, link, alive, outage, pending, future, call, told, ids,
          served, granted, up, down, jobs, phase, busy, unsettled, effects>>

Idle == [pc |-> "idle", id |-> NoId, op |-> "none", link |-> 1]

Init ==
    /\ receiver = "reading" /\ link = 1 /\ alive = {1} /\ outage = {} /\ served = {1}
    /\ pending = {} /\ future = [i \in Ids |-> "none"] /\ told = [i \in Ids |-> "nothing"]
    /\ call = [t \in Callers |-> Idle] /\ ids = 0
    /\ \E scopes \in Grants : granted = [l \in Links |-> IF l = 1 THEN scopes ELSE {}]
    /\ up = [l \in Links |-> <<>>] /\ down = [l \in Links |-> <<>>]
    /\ jobs = {}
    /\ phase = "open" /\ busy = FALSE /\ unsettled = TRUE /\ effects = {}

At(t, pc) == call[t].pc = pc
Sent(l, frame) == up' = [up EXCEPT ![l] = Append(@, frame)]

---------------------------------------------------------------------------
(* The exchange of one call. *)

\* The id, the link and the future are there before the frame is.
Bind(t, op) ==
    /\ ids < MaxCalls /\ ids' = ids + 1
    /\ pending' = pending \cup {ids + 1}
    /\ call' = [call EXCEPT ![t] = [pc |-> "bound", id |-> ids + 1, op |-> op, link |-> link]]

Call(t) ==
    /\ At(t, "idle") /\ \E op \in CallsOf[t] : Bind(t, op)
    /\ UNCHANGED <<receiver, link, outage, future, told>>
    /\ UNCHANGED serverVars /\ UNCHANGED sessionVars /\ UNCHANGED wireVars

\* The end of a call: its pending entry goes, the caller is told.
Tell(t, result) ==
    /\ pending' = pending \ {call[t].id}
    /\ told' = [told EXCEPT ![call[t].id] = result]
    /\ future' = [future EXCEPT ![call[t].id] = "none"]
    /\ call' = [call EXCEPT ![t] = Idle]

\* A send into a dead socket raises, or the frame is lost.
Send(t) ==
    LET l == call[t].link IN
    /\ At(t, "bound")
    /\ \/ /\ IF l \in alive THEN Sent(l, [op |-> call[t].op, id |-> call[t].id])
                           ELSE UNCHANGED up
          /\ call' = [call EXCEPT ![t].pc = "waiting"]
          /\ UNCHANGED <<pending, told, future>>
       \/ l \notin alive /\ Tell(t, "down") /\ UNCHANGED up
    /\ UNCHANGED <<receiver, link, outage, ids, alive, down>>
    /\ UNCHANGED serverVars /\ UNCHANGED sessionVars

\* The reply, else the outage of the link that carried the request; a thread may
\* also find that neither came within REQUEST_TIMEOUT.
Answer(t) ==
    LET i == call[t].id IN
    /\ At(t, "waiting")
    /\ \/ future[i] # "none" /\ Tell(t, future[i])
       \/ future[i] = "none" /\ call[t].link \in outage /\ Tell(t, "down")
    /\ UNCHANGED <<receiver, link, outage, ids>>
    /\ UNCHANGED serverVars /\ UNCHANGED sessionVars /\ UNCHANGED wireVars
GiveUp(t) ==
    /\ At(t, "waiting") /\ future[call[t].id] = "none" /\ call[t].link \notin outage
    /\ Tell(t, "timeout")
    /\ UNCHANGED <<receiver, link, outage, ids>>
    /\ UNCHANGED serverVars /\ UNCHANGED sessionVars /\ UNCHANGED wireVars

---------------------------------------------------------------------------
(* The receiver thread. *)

ReceiveInOrder ==
    /\ receiver = "reading" /\ down[link] # <<>>
    /\ down' = [down EXCEPT ![link] = Tail(@)]
    /\ \/ pending = {} /\ UNCHANGED future
       \/ \E i \in pending : /\ \A k \in pending : i <= k
                             /\ future' = [future EXCEPT ![i] = Head(down[link]).reply]
    /\ UNCHANGED <<receiver, link, outage, pending, call, told, ids, alive, up>>
    /\ UNCHANGED serverVars /\ UNCHANGED sessionVars
\* A reply goes to the exchange that waits for its id, any other is dropped.
Receive ==
    /\ receiver = "reading" /\ down[link] # <<>>
    /\ down' = [down EXCEPT ![link] = Tail(@)]
    /\ LET frame == Head(down[link]) IN
       future' = IF frame.id \in pending
                 THEN [future EXCEPT ![frame.id] = frame.reply] ELSE future
    /\ UNCHANGED <<receiver, link, outage, pending, call, told, ids, alive, up>>
    /\ UNCHANGED serverVars /\ UNCHANGED sessionVars

\* The socket died: what is still on it is lost.
NoticeQuietly ==
    /\ receiver = "reading" /\ link \notin alive
    /\ receiver' = "down" /\ down' = [down EXCEPT ![link] = <<>>]
    /\ UNCHANGED <<link, outage, pending, future, call, told, ids, alive, up>>
    /\ UNCHANGED serverVars /\ UNCHANGED sessionVars
Notice ==
    /\ receiver = "reading" /\ link \notin alive
    /\ receiver' = "down" /\ outage' = outage \cup {link}
    /\ down' = [down EXCEPT ![link] = <<>>]
    /\ UNCHANGED <<link, pending, future, call, told, ids, alive, up>>
    /\ UNCHANGED serverVars /\ UNCHANGED sessionVars

\* A new link, with empty tables and a hello of its own.
Reconnect ==
    /\ receiver = "down" /\ link < MaxLinks
    /\ receiver' = "reading" /\ link' = link + 1
    /\ alive' = alive \cup {link + 1} /\ served' = served \cup {link + 1}
    /\ \E scopes \in Grants : granted' = [granted EXCEPT ![link + 1] = scopes]
    /\ UNCHANGED <<outage, pending, future, call, told, ids,
                   up, down, jobs>>
    /\ UNCHANGED sessionVars

---------------------------------------------------------------------------
(* The server: the loop of a connection and the worker threads of its jobs. *)

HoldsLatest(l, permissions) == Check(granted[link], Scope, permissions)
Holds(l, permissions) == Check(granted[l], Scope, permissions)
Effect(l, i, op) == effects' = effects \cup {[link |-> l, id |-> i, op |-> op]}
Pushed(l, i, reply) ==
    down' = IF l \in alive THEN [down EXCEPT ![l] = Append(@, [id |-> i, reply |-> reply])]
            ELSE down

\* One inbound frame; a call becomes a job.
Dispatch(l) ==
    /\ l \in served /\ up[l] # <<>>
    /\ up' = [up EXCEPT ![l] = Tail(@)]
    /\ LET frame == Head(up[l]) IN
       jobs' = jobs \cup {[link |-> l, id |-> frame.id, op |-> frame.op,
                           pc |-> "queued", reply |-> "none"]}
    /\ UNCHANGED <<alive, down, served, granted>>
    /\ UNCHANGED sessionVars
    /\ UNCHANGED clientVars

Step(j, pc, reply) == jobs' = (jobs \ {j}) \cup {[j EXCEPT !.pc = pc, !.reply = reply]}

Refuse(j) == Step(j, "ran", "refused") /\ UNCHANGED sessionVars
Accept(j) == Step(j, "ran", "accepted") /\ Effect(j.link, j.id, j.op)

ServeRead(j) ==
    IF Holds(j.link, Requires(j.op))
    THEN Accept(j) /\ UNCHANGED <<phase, busy, unsettled>> ELSE Refuse(j)
\* A batch opens while the session admits one and a requested task is eligible.
RunTasks(j) ==
    \/ /\ phase = "open" /\ Holds(j.link, Requires("run_tasks"))
       /\ Accept(j) /\ busy' = TRUE /\ unsettled' = TRUE /\ UNCHANGED phase
    \/ Refuse(j)
\* A settled session ends on check_task too: the count is read here, the end
\* comes after.
EndSession(j) ==
    IF /\ phase # "ended" /\ Holds(j.link, Requires("end_session"))
       /\ unsettled => Holds(j.link, {"end_workflow"})
    THEN Step(j, "ending", "none") /\ UNCHANGED sessionVars
    ELSE Refuse(j)
\* A worker thread of the pool takes the job and runs the handler.
Handle(j) ==
    /\ j.pc = "queued"
    /\ \/ j.op \in SessionReads /\ ServeRead(j)
       \/ j.op = "run_tasks" /\ RunTasks(j)
       \/ j.op = "end_session" /\ EndSession(j)
    /\ UNCHANGED <<served, granted>>
    /\ UNCHANGED clientVars /\ UNCHANGED wireVars
End(j) ==
    /\ j.pc = "ending" /\ Accept(j)
    /\ phase' = IF busy THEN "ending" ELSE "ended"
    /\ UNCHANGED <<busy, unsettled, served, granted>>
    /\ UNCHANGED clientVars /\ UNCHANGED wireVars
\* submit_guarded: a raise is a refused ack that says so.
Raises(j) ==
    /\ j.pc = "queued" /\ Step(j, "ran", "failed")
    /\ UNCHANGED <<served, granted>>
    /\ UNCHANGED sessionVars /\ UNCHANGED clientVars /\ UNCHANGED wireVars

\* The reply of a job; the task of a torn down connection was cancelled.
Reply(j) ==
    /\ j.pc = "ran" /\ jobs' = jobs \ {j}
    /\ IF j.link \in served THEN Pushed(j.link, j.id, j.reply) ELSE UNCHANGED down
    /\ UNCHANGED <<served, granted, alive, up>>
    /\ UNCHANGED sessionVars /\ UNCHANGED clientVars

\* Connection.run ends: what is still to be read is dropped, its jobs are
\* cancelled. A tick later the cancel takes those no worker took; a worker runs on.
Disconnect(l) ==
    /\ l \in served \ alive /\ served' = served \ {l}
    /\ up' = [up EXCEPT ![l] = <<>>]
    /\ UNCHANGED <<alive, down, granted, jobs>>
    /\ UNCHANGED sessionVars /\ UNCHANGED clientVars
Cancel(j) ==
    /\ j.pc = "queued" /\ j.link \notin served /\ jobs' = jobs \ {j}
    /\ UNCHANGED <<served, granted>>
    /\ UNCHANGED sessionVars /\ UNCHANGED clientVars /\ UNCHANGED wireVars

\* The network fails, the credential of the socket expires, or the client is too
\* slow for its queue.
Drop(l) ==
    /\ l \in alive /\ alive' = alive \ {l}
    /\ UNCHANGED <<up, down>>
    /\ UNCHANGED serverVars /\ UNCHANGED sessionVars /\ UNCHANGED clientVars

\* The batch of the session finishes: its tasks are settled, or one failed.
BatchFinishes ==
    /\ busy /\ busy' = FALSE /\ unsettled' \in BOOLEAN
    /\ phase' = IF phase = "ending" THEN "ended" ELSE phase
    /\ UNCHANGED effects
    /\ UNCHANGED serverVars /\ UNCHANGED clientVars /\ UNCHANGED wireVars

---------------------------------------------------------------------------

Caller(t) == Send(t) \/ Answer(t)
Receiver == Receive \/ Notice \/ Reconnect
Worker(j) == Handle(j) \/ End(j) \/ Reply(j)
Next ==
    \/ \E t \in Callers : Call(t) \/ Caller(t) \/ GiveUp(t)
    \/ Receiver
    \/ \E l \in Links : Dispatch(l) \/ Disconnect(l) \/ Drop(l)
    \/ \E j \in jobs : Worker(j) \/ Raises(j) \/ Cancel(j)
    \/ BatchFinishes
Spec == Init /\ [][Next]_vars

\* Threads run, the loop serves its frames, a worker takes each job in the end.
\* Nothing is assumed of the network, of the timeout or of a batch.
Fairness ==
    /\ \A t \in Callers : WF_vars(Caller(t))
    /\ WF_vars(Receiver)
    /\ \A l \in Links : WF_vars(Dispatch(l))
    /\ \A i \in Ids : WF_vars(\E j \in {k \in jobs : k.id = i} : Worker(j))
FairSpec == Spec /\ Fairness

---------------------------------------------------------------------------
(* Properties. *)

Took(i) == \E e \in effects : e.id = i

\* What a caller is told is what happened: an accepted call took effect, a refused
\* one never does, whatever dropped or came late (Wire.exchange, Wire.action,
\* Connection.run_action).
AnswerIsTruth ==
    \A i \in Ids : /\ told[i] = "accepted" => Took(i)
                   /\ told[i] = "refused" => ~Took(i)

\* A call takes effect at most once, and under the permissions of the socket that
\* carried it: not those of the hello that replaced it, nor those of no socket
\* (Connection.run, ActionHandler.submit).
EffectsArePermitted ==
    \A e \in effects :
        /\ Check(granted[e.link], Scope, Requires(e.op))
        /\ \A f \in effects : f.id = e.id => f = e

\* A call returns without its timeout: the reply comes, or the outage of the link
\* that carried it (Wire.exchange, Link.fail).
CallsReturn == \A t \in Callers : At(t, "waiting") ~> ~At(t, "waiting")
=============================================================================
