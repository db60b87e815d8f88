---------------------------- MODULE RequestsProofs ----------------------------
(***************************************************************************)
(* Proofs about Requests: what a caller is told is what happened, and what *)
(* takes effect was permitted to the socket that carried it, for any       *)
(* number of callers, calls and sockets.                                   *)
(***************************************************************************)
EXTENDS Requests, TLAPS

Ops == UNION {CallsOf[t] : t \in Callers}
Answers == {"none", "accepted", "refused", "failed"}

CallTypes ==
    [pc : {"idle", "bound", "waiting"}, id : Ids \cup {NoId}, op : Ops \cup {"none"}, link : Links]

JobTypes ==
    [link : Links, id : Ids, op : Ops, pc : {"queued", "ending", "ran"}, reply : Answers]

\* The type of the parts of the state the proofs rest on.
Types ==
    /\ link \in Links /\ pending \subseteq Ids /\ ids \in 0 .. MaxCalls
    /\ call \in [Callers -> CallTypes]
    /\ \A t \in Callers : call[t].pc # "idle" => call[t].id \in Ids /\ call[t].op \in Ops
    /\ future \in [Ids -> Answers]
    /\ told \in [Ids -> Answers \cup {"nothing", "down", "timeout"}]
    /\ granted \in [Links -> UNION {Grants, {{}}}]
    /\ up \in [Links -> Seq([op : Ops, id : Ids])]
    /\ down \in [Links -> Seq([id : Ids, reply : Answers])]
    /\ jobs \subseteq JobTypes
    /\ effects \subseteq [link : Links, id : Ids, op : Ops]

\* Where a call is that may still take effect: bound to its link, on its way, or a job.
Bound(i) == {t \in Callers : call[t].pc = "bound" /\ call[t].id = i}
OnWay(i) == {p \in Links \X Nat : p[2] \in 1 .. Len(up[p[1]]) /\ up[p[1]][p[2]].id = i}
Working(i) == {j \in jobs : j.pc \in {"queued", "ending"} /\ j.id = i}
Single(S) == \A x, y \in S : x = y
\* A call is in one place at a time.
Alone(i) ==
    /\ Single(Bound(i)) /\ Single(OnWay(i)) /\ Single(Working(i))
    /\ Bound(i) # {} => OnWay(i) = {} /\ Working(i) = {}
    /\ OnWay(i) # {} => Working(i) = {}
Pending(i) == Bound(i) # {} \/ OnWay(i) # {} \/ Working(i) # {}

\* An answer, wherever it is on its way to the caller.
Said(i, r) ==
    \/ \E j \in jobs : j.pc = "ran" /\ j.id = i /\ j.reply = r
    \/ \E l \in Links : \E n \in 1 .. Len(down[l]) : down[l][n].id = i /\ down[l][n].reply = r
    \/ future[i] = r
    \/ told[i] = r

\* What is said of a call is true, and stays so: a call that was refused is nowhere
\* on its way any more, one that is on its way has not taken effect.
TrueOf(i) ==
    /\ Alone(i)
    /\ Pending(i) => ~Took(i)
    /\ Said(i, "accepted") => Took(i)
    /\ Said(i, "refused") => ~Took(i) /\ ~Pending(i)
    /\ i > ids => ~Took(i) /\ ~Pending(i) /\ ~Said(i, "accepted") /\ ~Said(i, "refused")

\* Nothing is on a link before it is opened, and what was granted stays.
LinkInv ==
    /\ \A t \in Callers : call[t].link <= link
    /\ \A l \in Links : up[l] # <<>> => l <= link
    /\ \A j \in jobs : j.link <= link
    /\ \A e \in effects : e.link <= link /\ Check(granted[e.link], Scope, Requires(e.op))
    /\ \A j \in jobs : j.pc = "ending" =>
          j.op = "end_session" /\ Holds(j.link, Requires("end_session"))
OnceInv == \A e, f \in effects : e.id = f.id => e = f

RequestsInv == Types /\ (\A i \in Ids : TrueOf(i)) /\ LinkInv /\ OnceInv

---------------------------------------------------------------------------

\* An element of a sequence has its type.
LEMMA ElementType == ASSUME NEW S, NEW s \in Seq(S), NEW n \in 1 .. Len(s) PROVE s[n] \in S
OBVIOUS

\* A step that moves no call on, lets none take effect and says nothing new.
LEMMA StillTrue ==
    ASSUME RequestsInv, NEW i \in Ids,
           Bound(i)' \subseteq Bound(i), OnWay(i)' \subseteq OnWay(i),
           Working(i)' \subseteq Working(i), Took(i)' <=> Took(i),
           Said(i, "accepted")' => Said(i, "accepted"),
           Said(i, "refused")' => Said(i, "refused"), ids' >= ids, ids \in Nat, ids' \in Nat
    PROVE  TrueOf(i)'
BY DEF RequestsInv, TrueOf, Alone, Pending, Single, Ids

\* Nothing is sent at the start.
LEMMA InitTrue == Init => RequestsInv
<1>. SUFFICES ASSUME Init PROVE RequestsInv
  OBVIOUS
<1>1. Types
  BY RequestsAssumption DEF Init, Types, CallTypes, Idle, Links, Ids, NoId, Answers
<1>2. \A i \in Ids : Bound(i) = {} /\ OnWay(i) = {} /\ Working(i) = {} /\ ~Took(i)
  BY DEF Init, Bound, OnWay, Working, Took, Idle
<1>3. \A i \in Ids : ~Said(i, "accepted") /\ ~Said(i, "refused")
  BY DEF Init, Said
<1>4. \A i \in Ids : TrueOf(i)
  BY <1>2, <1>3 DEF TrueOf, Alone, Single, Pending
<1>5. LinkInv /\ OnceInv
  BY RequestsAssumption DEF Init, LinkInv, OnceInv, Idle, Links
<1>. QED BY <1>1, <1>4, <1>5 DEF RequestsInv

\* A call draws an id nobody has used.
LEMMA CallTrue == ASSUME RequestsInv, NEW t \in Callers, Call(t) PROVE RequestsInv'
<1>. USE DEF Call, Bind, serverVars, sessionVars, wireVars
<1>1. PICK op \in CallsOf[t] : Bind(t, op)
  OBVIOUS
<1>2. ids + 1 \in Ids /\ ids \in Nat /\ op \in Ops /\ ids' = ids + 1
  BY <1>1, RequestsAssumption DEF RequestsInv, Types, Ids, Ops
<1>3. Types'
  <2>1. call' \in [Callers -> CallTypes]
    BY <1>1, <1>2 DEF RequestsInv, Types, CallTypes
  <2>2. ids' \in 0 .. MaxCalls /\ pending' \subseteq Ids
    <3>1. ids' \in 0 .. MaxCalls
      BY <1>2, RequestsAssumption DEF Ids
    <3>2. pending' \subseteq Ids
      BY <1>1, <1>2 DEF RequestsInv, Types
    <3>. QED BY <3>1, <3>2
  <2>3. \A u \in Callers : call'[u].pc # "idle" => call'[u].id \in Ids /\ call'[u].op \in Ops
    BY <1>1, <1>2 DEF RequestsInv, Types
  <2>. QED BY <2>1, <2>2, <2>3 DEF RequestsInv, Types
<1>4. ASSUME NEW i \in Ids PROVE TrueOf(i)'
  <2>1. /\ OnWay(i)' = OnWay(i) /\ Working(i)' = Working(i) /\ (Took(i)' <=> Took(i))
        /\ \A r \in Answers : Said(i, r)' <=> Said(i, r)
    BY DEF OnWay, Working, Took, Said
  <2>2. CASE i = ids + 1
    <3>1. Bound(i)' \subseteq {t}
      <4>1. Bound(i) = {}
        BY <1>2, <2>2 DEF RequestsInv, TrueOf, Pending
      <4>. QED BY <1>1, <4>1 DEF Bound, RequestsInv, Types
    <3>2. ~Pending(i) /\ ~Took(i) /\ ~Said(i, "accepted") /\ ~Said(i, "refused")
      BY <1>2, <2>2 DEF RequestsInv, TrueOf, Ids
    <3>. QED BY <1>2, <2>1, <2>2, <3>1, <3>2 DEF TrueOf, Alone, Single, Pending, Answers, Ids
  <2>3. CASE i # ids + 1
    <3>1. Bound(i)' \subseteq Bound(i)
      BY <1>1, <2>3 DEF Bound, RequestsInv, Types
    <3>. QED BY <1>2, <2>1, <3>1, StillTrue DEF Answers
  <2>. QED BY <2>2, <2>3
<1>5. LinkInv' /\ OnceInv'
  BY <1>1 DEF RequestsInv, LinkInv, OnceInv, Types, Holds, Links
<1>. QED BY <1>3, <1>4, <1>5 DEF RequestsInv

\* The caller hears what its exchange got, or that it got nothing.
LEMMA TellTrue ==
    ASSUME RequestsInv, NEW t \in Callers, call[t].pc # "idle", NEW result,
           Tell(t, result), result \in {"down", "timeout", future[call[t].id]},
           UNCHANGED <<link, ids, up, down, granted, jobs, effects>>
    PROVE  RequestsInv'
<1>. USE DEF Tell
<1>1. call[t].id \in Ids /\ result \in Answers \cup {"down", "timeout"}
  BY DEF RequestsInv, Types
<1>2. Types'
  <2>1. call' \in [Callers -> CallTypes]
    BY RequestsAssumption DEF RequestsInv, Types, CallTypes, Idle, Links
  <2>2. \A u \in Callers : call'[u].pc # "idle" => call'[u].id \in Ids /\ call'[u].op \in Ops
    BY DEF RequestsInv, Types, Idle
  <2>3. future' \in [Ids -> Answers] /\ told' \in [Ids -> Answers \cup {"nothing", "down", "timeout"}]
    BY <1>1 DEF RequestsInv, Types, Answers
  <2>. QED BY <2>1, <2>2, <2>3 DEF RequestsInv, Types
<1>3. ASSUME NEW i \in Ids PROVE TrueOf(i)'
  <2>1. Bound(i)' \subseteq Bound(i)
    BY DEF Bound, Idle, RequestsInv, Types
  <2>2. OnWay(i)' = OnWay(i) /\ Working(i)' = Working(i) /\ (Took(i)' <=> Took(i))
    BY DEF OnWay, Working, Took
  <2>3. \A r \in {"accepted", "refused"} : Said(i, r)' => Said(i, r)
    BY <1>1 DEF Said, RequestsInv, Types
  <2>4. ids \in Nat /\ ids' = ids
    BY RequestsAssumption DEF RequestsInv, Types
  <2>. QED BY <2>1, <2>2, <2>3, <2>4, StillTrue
<1>4. LinkInv' /\ OnceInv'
  BY RequestsAssumption DEF RequestsInv, LinkInv, OnceInv, Types, Holds, Idle, Links
<1>. QED BY <1>2, <1>3, <1>4 DEF RequestsInv

\* A call that begins to wait keeps the types of the calls.
LEMMA WaitingTypes ==
    ASSUME Types, NEW t \in Callers, call[t].pc = "bound", call' = [call EXCEPT ![t].pc = "waiting"]
    PROVE  /\ call' \in [Callers -> CallTypes]
           /\ \A u \in Callers : call'[u].pc # "idle" => call'[u].id \in Ids /\ call'[u].op \in Ops
           /\ \A u \in Callers : call'[u].link = call[u].link
<1>. DEFINE next == [call[t] EXCEPT !.pc = "waiting"]
<1>1. call[t] \in CallTypes
  BY DEF Types
<1>2. next = [pc |-> "waiting", id |-> call[t].id, op |-> call[t].op, link |-> call[t].link]
  BY <1>1 DEF CallTypes
<1>3. next \in CallTypes
  BY <1>1, <1>2 DEF CallTypes
<1>4. call' = [call EXCEPT ![t] = next]
  OBVIOUS
<1>. HIDE DEF next
<1>5. call' \in [Callers -> CallTypes]
  BY <1>3, <1>4 DEF Types
<1>6. call'[t] = next /\ \A u \in Callers : u # t => call'[u] = call[u]
  BY <1>4 DEF Types
<1>. QED BY ZenonT(30), <1>2, <1>5, <1>6 DEF Types

\* The frame goes onto the link of its call.
LEMMA SentTrue ==
    ASSUME RequestsInv, NEW t \in Callers, At(t, "bound"), NEW l, l = call[t].link,
           NEW k, k = call[t].id, NEW frame, frame = [op |-> call[t].op, id |-> k],
           Sent(l, frame),
           call' = [call EXCEPT ![t].pc = "waiting"],
           UNCHANGED <<link, ids, pending, future, told, down, granted, jobs, effects>>
    PROVE  RequestsInv'
<1>. USE DEF At, Sent
<1>1. /\ l \in Links /\ k \in Ids /\ call[t].op \in Ops /\ ids \in Nat
      /\ up[l] \in Seq([op : Ops, id : Ids]) /\ frame \in [op : Ops, id : Ids]
      /\ frame.id = k
  <2>1. l \in Links /\ k \in Ids /\ call[t].op \in Ops
    BY DEF RequestsInv, Types, CallTypes
  <2>2. ids \in Nat
    BY RequestsAssumption DEF RequestsInv, Types
  <2>. QED BY <2>1, <2>2 DEF RequestsInv, Types
<1>2. Types'
  <2>1. call' \in [Callers -> CallTypes]
    BY WaitingTypes DEF RequestsInv
  <2>2. \A u \in Callers : call'[u].pc # "idle" => call'[u].id \in Ids /\ call'[u].op \in Ops
    BY DEF RequestsInv, Types
  <2>3. up' \in [Links -> Seq([op : Ops, id : Ids])]
    <3>1. Append(up[l], frame) \in Seq([op : Ops, id : Ids])
      BY <1>1
    <3>. QED BY <1>1, <3>1 DEF RequestsInv, Types
  <2>. QED BY <2>1, <2>2, <2>3 DEF RequestsInv, Types
<1>3. /\ up'[l] = Append(up[l], frame) /\ \A m \in Links : m # l => up'[m] = up[m]
      /\ Len(up'[l]) = Len(up[l]) + 1 /\ up'[l][Len(up[l]) + 1] = frame
      /\ \A n \in 1 .. Len(up[l]) : up'[l][n] = up[l][n]
  BY <1>1 DEF RequestsInv, Types
<1>4. ASSUME NEW i \in Ids PROVE TrueOf(i)'
  <2>1. /\ Working(i)' = Working(i) /\ (Took(i)' <=> Took(i))
        /\ \A r \in Answers : Said(i, r)' <=> Said(i, r)
    BY DEF Working, Took, Said
  <2>2. Bound(i)' \subseteq Bound(i) \ {t}
    BY DEF Bound, RequestsInv, Types
  <2>3. CASE i = k
    <3>1. t \in Bound(i)
      BY <2>3 DEF Bound
    <3>2. Bound(i) = {t} /\ OnWay(i) = {} /\ Working(i) = {}
      BY <3>1 DEF RequestsInv, TrueOf, Alone, Single
    <3>3. OnWay(i)' \subseteq {<<l, Len(up[l]) + 1>>}
      BY SMTT(30), <1>1, <1>3, <3>2 DEF OnWay, RequestsInv, Types
    <3>4. Pending(i) /\ ~Took(i) /\ ~Said(i, "accepted") /\ ~Said(i, "refused") /\ ~(i > ids)
      BY <3>1 DEF Pending, RequestsInv, TrueOf
    <3>. QED BY <2>1, <2>2, <3>2, <3>3, <3>4 DEF TrueOf, Alone, Single, Pending, Answers
  <2>4. CASE i # k
    <3>1. OnWay(i)' \subseteq OnWay(i)
      <4>1. ASSUME NEW p \in OnWay(i)' PROVE p \in OnWay(i)
        <5>1. p \in Links \X Nat /\ p[2] \in 1 .. Len(up'[p[1]]) /\ up'[p[1]][p[2]].id = i
          BY <4>1 DEF OnWay
        <5>2. CASE p[1] # l
          BY <1>3, <5>1, <5>2 DEF OnWay
        <5>3. CASE p[1] = l
          <6>1. Len(up[l]) \in Nat /\ p[2] # Len(up[l]) + 1
            BY <1>1, <1>3, <2>4, <5>1, <5>3
          <6>2. p[2] \in 1 .. Len(up[l])
            BY <1>3, <5>1, <5>3, <6>1
          <6>. QED BY <1>3, <5>1, <5>3, <6>2 DEF OnWay
        <5>. QED BY <5>2, <5>3
      <4>. QED BY <4>1
    <3>. QED BY <1>1, <2>1, <2>2, <3>1, StillTrue DEF Answers
  <2>. QED BY <2>3, <2>4
<1>5. LinkInv' /\ OnceInv'
  <2>1. \A u \in Callers : call'[u].link = call[u].link
    BY DEF RequestsInv, Types
  <2>2. \A m \in Links : up'[m] # <<>> => m <= link
    BY <1>3 DEF RequestsInv, LinkInv
  <2>. QED BY <2>1, <2>2 DEF RequestsInv, LinkInv, OnceInv, Holds
<1>. QED BY <1>2, <1>4, <1>5 DEF RequestsInv

\* What a caller does.
LEMMA CallerTrue ==
    ASSUME RequestsInv, NEW t \in Callers, Send(t) \/ Answer(t) \/ GiveUp(t)
    PROVE  RequestsInv'
<1>. USE DEF At, serverVars, sessionVars, wireVars
<1>1. CASE Answer(t) \/ GiveUp(t)
  BY <1>1, TellTrue DEF Answer, GiveUp
<1>2. CASE Send(t)
  <2>1. CASE call[t].link \notin alive /\ Tell(t, "down") /\ UNCHANGED up
    BY <1>2, <2>1, TellTrue DEF Send
  <2>2. CASE call' = [call EXCEPT ![t].pc = "waiting"] /\ call[t].link \in alive
    <3>1. Sent(call[t].link, [op |-> call[t].op, id |-> call[t].id])
      BY <1>2, <2>2 DEF Send, Tell
    <3>. QED BY <1>2, <2>2, <3>1, SentTrue DEF Send, Tell
  <2>3. CASE call' = [call EXCEPT ![t].pc = "waiting"] /\ call[t].link \notin alive
             /\ UNCHANGED <<up, pending, told, future>>
    <3>1. UNCHANGED <<link, ids, down, granted, jobs, effects>>
      BY <1>2 DEF Send
    <3>2. Types'
      <4>1. call' \in [Callers -> CallTypes]
        BY <1>2, <2>3, WaitingTypes DEF RequestsInv, Send
      <4>2. \A u \in Callers : call'[u].pc # "idle" => call'[u].id \in Ids /\ call'[u].op \in Ops
        BY <1>2, <2>3 DEF RequestsInv, Types, Send
      <4>. QED BY <2>3, <3>1, <4>1, <4>2 DEF RequestsInv, Types
    <3>3. ASSUME NEW i \in Ids PROVE TrueOf(i)'
      <4>1. Bound(i)' \subseteq Bound(i)
        BY <2>3 DEF Bound, RequestsInv, Types
      <4>2. /\ OnWay(i)' = OnWay(i) /\ Working(i)' = Working(i) /\ (Took(i)' <=> Took(i))
            /\ \A r \in Answers : Said(i, r)' <=> Said(i, r)
        BY <2>3, <3>1 DEF OnWay, Working, Took, Said
      <4>3. ids \in Nat /\ ids' = ids
        BY <3>1, RequestsAssumption DEF RequestsInv, Types
      <4>. QED BY <4>1, <4>2, <4>3, StillTrue DEF Answers
    <3>4. \A u \in Callers : call'[u].link = call[u].link
      BY <2>3 DEF RequestsInv, Types
    <3>5. LinkInv' /\ OnceInv'
      BY <2>3, <3>1, <3>4 DEF RequestsInv, LinkInv, OnceInv, Holds
    <3>. QED BY <3>2, <3>3, <3>5 DEF RequestsInv
  <2>. QED BY <1>2, <2>1, <2>2, <2>3 DEF Send
<1>. QED BY <1>1, <1>2

\* The receiver thread and the network: nothing but what was said comes in.
LEMMA ReceiveTrue == ASSUME RequestsInv, Receive PROVE RequestsInv'
<1>. USE DEF Receive, serverVars, sessionVars
<1>1. /\ link \in Links /\ down[link] \in Seq([id : Ids, reply : Answers]) /\ down[link] # <<>>
      /\ Head(down[link]).id \in Ids /\ Head(down[link]).reply \in Answers
      /\ Head(down[link]) = down[link][1] /\ 1 \in 1 .. Len(down[link])
  <2>1. /\ link \in Links /\ down[link] \in Seq([id : Ids, reply : Answers]) /\ down[link] # <<>>
    BY DEF RequestsInv, Types
  <2>2. 1 \in 1 .. Len(down[link]) /\ Head(down[link]) = down[link][1]
    BY <2>1
  <2>3. down[link][1] \in [id : Ids, reply : Answers]
    BY <2>1, <2>2, ElementType
  <2>. QED BY <2>1, <2>2, <2>3
<1>2. /\ Tail(down[link]) \in Seq([id : Ids, reply : Answers])
      /\ \A n \in 1 .. Len(Tail(down[link])) :
            n + 1 \in 1 .. Len(down[link]) /\ Tail(down[link])[n] = down[link][n + 1]
  BY <1>1
<1>3. down' = [down EXCEPT ![link] = Tail(down[link])]
  OBVIOUS
<1>4. Types'
  <2>1. down' \in [Links -> Seq([id : Ids, reply : Answers])]
    BY <1>1, <1>2, <1>3 DEF RequestsInv, Types
  <2>2. future' \in [Ids -> Answers]
    BY <1>1 DEF RequestsInv, Types
  <2>. QED BY <2>1, <2>2 DEF RequestsInv, Types
<1>5. ASSUME NEW i \in Ids PROVE TrueOf(i)'
  <2>1. /\ Bound(i)' = Bound(i) /\ OnWay(i)' = OnWay(i) /\ Working(i)' = Working(i)
        /\ (Took(i)' <=> Took(i))
    BY DEF Bound, OnWay, Working, Took
  <2>2. ASSUME NEW r \in {"accepted", "refused"}, Said(i, r)' PROVE Said(i, r)
    <3>1. ASSUME NEW l \in Links, NEW n \in 1 .. Len(down'[l]),
                 down'[l][n].id = i, down'[l][n].reply = r
          PROVE  Said(i, r)
      <4>1. CASE l = link
        BY <1>1, <1>2, <1>3, <3>1, <4>1 DEF Said, RequestsInv, Types
      <4>2. CASE l # link
        BY <1>3, <3>1, <4>2 DEF Said, RequestsInv, Types
      <4>. QED BY <4>1, <4>2
    <3>2. CASE future'[i] = r
      BY <1>1, <3>2 DEF Said, RequestsInv, Types
    <3>. QED BY <2>2, <3>1, <3>2 DEF Said
  <2>3. ids \in Nat /\ ids' = ids
    BY RequestsAssumption DEF RequestsInv, Types
  <2>. QED BY <2>1, <2>2, <2>3, StillTrue
<1>6. LinkInv' /\ OnceInv'
  BY DEF RequestsInv, LinkInv, OnceInv, Holds
<1>. QED BY <1>4, <1>5, <1>6 DEF RequestsInv

\* The receiver notices a dead link.
LEMMA NoticeTrue == ASSUME RequestsInv, Notice PROVE RequestsInv'
<1>. USE DEF Notice, serverVars, sessionVars
<1>1. /\ down' \in [Links -> Seq([id : Ids, reply : Answers])]
      /\ \A l \in Links : \A n \in 1 .. Len(down'[l]) :
            n \in 1 .. Len(down[l]) /\ down'[l][n] = down[l][n]
  <2>1. <<>> \in Seq([id : Ids, reply : Answers]) /\ 1 .. Len(<<>>) = {}
    OBVIOUS
  <2>2. /\ down'[link] = <<>>
        /\ \A l \in Links : l # link => down'[l] = down[l]
    BY DEF RequestsInv, Types
  <2>. QED BY <2>1, <2>2 DEF RequestsInv, Types
<1>2. Types'
  BY <1>1 DEF RequestsInv, Types
<1>3. ASSUME NEW i \in Ids PROVE TrueOf(i)'
  <2>1. /\ Bound(i)' = Bound(i) /\ OnWay(i)' = OnWay(i) /\ Working(i)' = Working(i)
        /\ (Took(i)' <=> Took(i))
    BY DEF Bound, OnWay, Working, Took
  <2>2. \A r \in Answers : Said(i, r)' => Said(i, r)
    BY <1>1 DEF Said
  <2>3. ids \in Nat /\ ids' = ids
    BY RequestsAssumption DEF RequestsInv, Types
  <2>. QED BY <2>1, <2>2, <2>3, StillTrue DEF Answers
<1>4. LinkInv' /\ OnceInv'
  BY DEF RequestsInv, LinkInv, OnceInv, Holds
<1>. QED BY <1>2, <1>3, <1>4 DEF RequestsInv

\* A step that changes neither calls, frames, jobs, answers nor effects.
LEMMA QuietTrue ==
    ASSUME RequestsInv,
           UNCHANGED <<pending, ids, call, future, told, up, down, jobs, effects>>,
           link' \in Links, link' >= link,
           granted' \in [Links -> UNION {Grants, {{}}}],
           \A l \in Links : l <= link => granted'[l] = granted[l]
    PROVE  RequestsInv'
<1>1. Types'
  BY DEF RequestsInv, Types
<1>2. ASSUME NEW i \in Ids PROVE TrueOf(i)'
  <2>1. /\ Bound(i)' = Bound(i) /\ OnWay(i)' = OnWay(i) /\ Working(i)' = Working(i)
        /\ (Took(i)' <=> Took(i)) /\ \A r \in Answers : Said(i, r)' <=> Said(i, r)
    BY DEF Bound, OnWay, Working, Took, Said
  <2>2. ids \in Nat /\ ids' = ids
    BY RequestsAssumption DEF RequestsInv, Types
  <2>. QED BY <2>1, <2>2, StillTrue DEF Answers
<1>3. LinkInv'
  <2>1. \A l \in Links : l <= link => l <= link'
    BY RequestsAssumption DEF RequestsInv, Types, Links
  <2>2. ASSUME NEW t \in Callers PROVE call'[t].link <= link'
    <3>1. call[t].link \in Links
      BY DEF RequestsInv, Types, CallTypes
    <3>. QED BY <2>1, <3>1 DEF RequestsInv, LinkInv
  <2>3. ASSUME NEW l \in Links, up'[l] # <<>> PROVE l <= link'
    BY <2>1, <2>3 DEF RequestsInv, LinkInv
  <2>4. ASSUME NEW j \in jobs' PROVE j.link \in Links /\ j.link <= link
    BY DEF RequestsInv, LinkInv, Types, JobTypes
  <2>5. ASSUME NEW j \in jobs', j.pc = "ending"
        PROVE  j.op = "end_session" /\ Check(granted'[j.link], Scope, Requires("end_session"))
    BY <2>4, <2>5 DEF RequestsInv, LinkInv, Holds
  <2>6. ASSUME NEW e \in effects' PROVE e.link \in Links /\ e.link <= link
    BY DEF RequestsInv, LinkInv, Types
  <2>7. ASSUME NEW e \in effects' PROVE Check(granted'[e.link], Scope, Requires(e.op))
    BY <2>6 DEF RequestsInv, LinkInv
  <2>8. (\A j \in jobs' : j.link <= link') /\ (\A e \in effects' : e.link <= link')
    BY <2>1, <2>4, <2>6
  <2>. QED BY <2>2, <2>3, <2>5, <2>7, <2>8 DEF LinkInv, Holds
<1>4. OnceInv'
  BY DEF RequestsInv, OnceInv
<1>. QED BY <1>1, <1>2, <1>3, <1>4 DEF RequestsInv

\* A reconnect begins a new link with nothing on it.
LEMMA ReconnectTrue == ASSUME RequestsInv, Reconnect PROVE RequestsInv'
<1>1. link' = link + 1 /\ link \in Nat /\ link' \in Links /\ \A l \in Links : l \in Nat
  BY RequestsAssumption DEF Reconnect, RequestsInv, Types, Links
<1>2. /\ granted' \in [Links -> UNION {Grants, {{}}}]
      /\ \A l \in Links : l # link + 1 => granted'[l] = granted[l]
  BY <1>1 DEF Reconnect, RequestsInv, Types
<1>3. \A l \in Links : l <= link => granted'[l] = granted[l]
  BY <1>1, <1>2
<1>4. UNCHANGED <<pending, ids, call, future, told, up, down, jobs, effects>> /\ link' >= link
  BY <1>1 DEF Reconnect, sessionVars
<1>. QED BY <1>1, <1>2, <1>3, <1>4, QuietTrue

\* A link drops, or a batch finishes on its own.
LEMMA NetworkTrue ==
    ASSUME RequestsInv, BatchFinishes \/ \E l \in Links : Drop(l) PROVE RequestsInv'
<1>1. link' = link /\ granted' = granted /\ link \in Int
  BY RequestsAssumption DEF BatchFinishes, Drop, clientVars, serverVars, RequestsInv, Types, Links
<1>2. UNCHANGED <<pending, ids, call, future, told, up, down, jobs, effects>>
  BY DEF BatchFinishes, Drop, clientVars, serverVars, wireVars, sessionVars
<1>3. link' \in Links /\ link' >= link /\ granted' \in [Links -> UNION {Grants, {{}}}]
  BY <1>1 DEF RequestsInv, Types
<1>. QED BY <1>1, <1>2, <1>3, QuietTrue

---------------------------------------------------------------------------
(* The server. *)

\* The server drops a connection.
LEMMA DisconnectTrue ==
    ASSUME RequestsInv, NEW l \in Links, Disconnect(l) PROVE RequestsInv'
<1>. USE DEF Disconnect, sessionVars, clientVars
<1>1. up' \in [Links -> Seq([op : Ops, id : Ids])]
  <2>1. <<>> \in Seq([op : Ops, id : Ids])
    OBVIOUS
  <2>. QED BY <2>1 DEF RequestsInv, Types
<1>2. up'[l] = <<>> /\ Len(<<>>) = 0 /\ \A m \in Links : m # l => up'[m] = up[m]
  BY DEF RequestsInv, Types
<1>3. Types'
  BY <1>1 DEF RequestsInv, Types
<1>4. ASSUME NEW i \in Ids PROVE TrueOf(i)'
  <2>1. /\ Bound(i)' = Bound(i) /\ Working(i)' = Working(i) /\ (Took(i)' <=> Took(i))
        /\ \A r \in Answers : Said(i, r)' <=> Said(i, r)
    BY DEF Bound, Working, Took, Said
  <2>2. OnWay(i)' \subseteq OnWay(i)
    BY <1>2 DEF OnWay
  <2>3. ids \in Nat /\ ids' = ids
    BY RequestsAssumption DEF RequestsInv, Types
  <2>. QED BY <2>1, <2>2, <2>3, StillTrue DEF Answers
<1>5. LinkInv' /\ OnceInv'
  BY <1>2 DEF RequestsInv, LinkInv, OnceInv, Holds
<1>. QED BY <1>3, <1>4, <1>5 DEF RequestsInv

\* The frame a connection reads becomes a job.
LEMMA DispatchTrue ==
    ASSUME RequestsInv, NEW l \in Links, Dispatch(l) PROVE RequestsInv'
<1>. USE DEF sessionVars, clientVars
<1>0. PICK frame, job :
         /\ frame = Head(up[l])
         /\ job = [link |-> l, id |-> frame.id, op |-> frame.op, pc |-> "queued", reply |-> "none"]
         /\ jobs' = jobs \cup {job} /\ up' = [up EXCEPT ![l] = Tail(up[l])]
  BY DEF Dispatch
<1>1. /\ UNCHANGED <<link, pending, ids, call, future, told, down, effects, granted>>
      /\ up[l] # <<>>
  BY DEF Dispatch
<1>2. /\ up[l] \in Seq([op : Ops, id : Ids]) /\ 1 \in 1 .. Len(up[l]) /\ frame = up[l][1]
      /\ frame \in [op : Ops, id : Ids]
  <2>1. up[l] \in Seq([op : Ops, id : Ids])
    BY DEF RequestsInv, Types
  <2>2. 1 \in 1 .. Len(up[l]) /\ frame = up[l][1]
    BY <1>0, <1>1, <2>1
  <2>. QED BY <2>1, <2>2, ElementType
<1>3. /\ Tail(up[l]) \in Seq([op : Ops, id : Ids])
      /\ \A n \in 1 .. Len(Tail(up[l])) :
            n + 1 \in 1 .. Len(up[l]) /\ n + 1 # 1 /\ Tail(up[l])[n] = up[l][n + 1]
  BY <1>1, <1>2
<1>4. job \in JobTypes /\ job.id = frame.id /\ job.pc = "queued" /\ job.link = l
  BY <1>0, <1>2 DEF Answers, JobTypes
<1>5. Types'
  BY <1>0, <1>1, <1>3, <1>4 DEF RequestsInv, Types
<1>6. ASSUME NEW i \in Ids PROVE TrueOf(i)'
  <2>1. /\ Bound(i)' = Bound(i) /\ (Took(i)' <=> Took(i))
        /\ \A r \in Answers : Said(i, r)' <=> Said(i, r)
    BY <1>0, <1>1, <1>4 DEF Bound, Took, Said
  <2>2. ids \in Nat /\ ids' = ids
    BY <1>1, RequestsAssumption DEF RequestsInv, Types
  <2>3. ASSUME NEW p \in OnWay(i)'
        PROVE  \/ p[1] # l /\ p \in OnWay(i)
               \/ p[1] = l /\ <<l, p[2] + 1>> \in OnWay(i) /\ p[2] + 1 # 1
    <3>1. p \in Links \X Nat /\ p[2] \in 1 .. Len(up'[p[1]]) /\ up'[p[1]][p[2]].id = i
      BY DEF OnWay
    <3>2. CASE p[1] # l
      BY <1>0, <3>1, <3>2 DEF OnWay, RequestsInv, Types
    <3>3. CASE p[1] = l
      <4>1. up'[l] = Tail(up[l])
        BY <1>0 DEF RequestsInv, Types
      <4>. QED BY <1>3, <3>1, <3>3, <4>1 DEF OnWay
    <3>. QED BY <3>2, <3>3
  <2>4. CASE i = frame.id
    <3>1. <<l, 1>> \in OnWay(i)
      BY <1>2, <2>4 DEF OnWay
    <3>2. Bound(i) = {} /\ Working(i) = {} /\ \A p \in OnWay(i) : p = <<l, 1>>
      BY <3>1 DEF RequestsInv, TrueOf, Alone, Single
    <3>3. OnWay(i)' = {}
      BY <2>3, <3>2
    <3>4. Working(i)' \subseteq {job}
      BY <1>0, <3>2 DEF Working
    <3>5. ~Took(i) /\ ~Said(i, "accepted") /\ ~Said(i, "refused") /\ ~(i > ids)
      BY <3>1 DEF Pending, RequestsInv, TrueOf
    <3>. QED BY <2>1, <2>2, <3>2, <3>3, <3>4, <3>5 DEF TrueOf, Alone, Single, Pending, Answers
  <2>5. CASE i # frame.id
    <3>1. Working(i)' \subseteq Working(i)
      BY <1>0, <1>4, <2>5 DEF Working
    <3>2. \A p, q \in OnWay(i)' : p = q
      <4>1. ASSUME NEW p \in OnWay(i)', NEW q \in OnWay(i)' PROVE p = q
        <5>1. \A x, y \in OnWay(i) : x = y
          BY DEF RequestsInv, TrueOf, Alone, Single
        <5>2. p \in Links \X Nat /\ q \in Links \X Nat
          BY DEF OnWay
        <5>3. CASE p[1] = l /\ q[1] = l
          <6>1. p[2] + 1 = q[2] + 1
            BY <2>3, <5>1, <5>3
          <6>. QED BY <5>2, <5>3, <6>1
        <5>4. CASE p[1] # l /\ q[1] # l
          BY <2>3, <5>1, <5>4
        <5>5. CASE p[1] = l /\ q[1] # l
          BY <2>3, <5>1, <5>5
        <5>6. CASE p[1] # l /\ q[1] = l
          BY <2>3, <5>1, <5>6
        <5>. QED BY <5>3, <5>4, <5>5, <5>6
      <4>. QED BY <4>1
    <3>3. OnWay(i)' # {} => OnWay(i) # {}
      BY <2>3
    <3>. QED BY <2>1, <2>2, <3>1, <3>2, <3>3
             DEF RequestsInv, TrueOf, Alone, Single, Pending, Answers
  <2>. QED BY <2>4, <2>5
<1>7. LinkInv'
  <2>1. l <= link
    BY <1>1 DEF RequestsInv, LinkInv
  <2>2. ASSUME NEW m \in Links, up'[m] # <<>> PROVE m <= link
    BY <1>0, <1>1, <2>1, <2>2 DEF RequestsInv, LinkInv, Types
  <2>3. ASSUME NEW j \in jobs'
        PROVE  /\ j.link <= link
               /\ j.pc = "ending" => j.op = "end_session" /\ Holds(j.link, Requires("end_session"))
    BY <1>0, <1>4, <2>1 DEF RequestsInv, LinkInv
  <2>. QED BY <1>1, <2>2, <2>3 DEF RequestsInv, LinkInv, Holds
<1>8. OnceInv'
  BY <1>1 DEF RequestsInv, OnceInv
<1>. QED BY <1>5, <1>6, <1>7, <1>8 DEF RequestsInv

\* A job moves on; the one place of its call is still the job, or none.
LEMMA StepTypes ==
    ASSUME Types, NEW j \in jobs, NEW pc \in {"queued", "ending", "ran"}, NEW reply \in Answers,
           Step(j, pc, reply)
    PROVE  \E k \in JobTypes :
              /\ jobs' = (jobs \ {j}) \cup {k} /\ k.link = j.link /\ k.id = j.id
              /\ k.op = j.op /\ k.pc = pc /\ k.reply = reply
<1>. DEFINE k == [j EXCEPT !.pc = pc, !.reply = reply]
<1>1. j \in JobTypes
  BY DEF Types
<1>2. k = [link |-> j.link, id |-> j.id, op |-> j.op, pc |-> pc, reply |-> reply]
  <2>1. j = [link |-> j.link, id |-> j.id, op |-> j.op, pc |-> j.pc, reply |-> j.reply]
    BY <1>1 DEF JobTypes
  <2>2. DOMAIN k = {"link", "id", "op", "pc", "reply"}
    BY <2>1
  <2>3. k.link = j.link /\ k.id = j.id /\ k.op = j.op
    BY <2>1
  <2>4. k.pc = pc
    BY <2>1
  <2>5. k.reply = reply
    BY <2>1
  <2>6. k = [f \in DOMAIN k |-> k[f]]
    BY <2>1
  <2>. HIDE DEF k
  <2>. QED BY <2>2, <2>3, <2>4, <2>5, <2>6
<1>3. k \in JobTypes
  BY <1>1, <1>2 DEF JobTypes
<1>4. jobs' = (jobs \ {j}) \cup {k}
  BY DEF Step
<1>. HIDE DEF k
<1>. QED BY <1>2, <1>3, <1>4

\* What the server does with one request.
LEMMA StepTrue ==
    ASSUME RequestsInv, NEW j \in jobs, j.pc \in {"queued", "ending"},
           NEW pc \in {"ending", "ran"}, NEW reply \in Answers, Step(j, pc, reply),
           pc = "ending" => /\ reply = "none" /\ j.op = "end_session"
                            /\ Holds(j.link, Requires("end_session")),
           \/ reply # "accepted" /\ UNCHANGED effects
           \/ /\ reply = "accepted" /\ Effect(j.link, j.id, j.op)
              /\ Holds(j.link, Requires(j.op)),
           UNCHANGED <<link, pending, ids, call, future, told, up, down, granted>>
    PROVE  RequestsInv'
<1>1. PICK k \in JobTypes :
         /\ jobs' = (jobs \ {j}) \cup {k} /\ k.link = j.link /\ k.id = j.id
         /\ k.op = j.op /\ k.pc = pc /\ k.reply = reply
  BY StepTypes DEF RequestsInv
<1>2. j \in JobTypes /\ j.link \in Links /\ j.id \in Ids /\ j.op \in Ops /\ j.link <= link
  BY DEF RequestsInv, Types, LinkInv, JobTypes
<1>3. Types'
  <2>1. jobs' \subseteq JobTypes
    BY <1>1 DEF RequestsInv, Types
  <2>2. effects' \subseteq [link : Links, id : Ids, op : Ops]
    BY <1>2 DEF RequestsInv, Types, Effect
  <2>. QED BY <2>1, <2>2 DEF RequestsInv, Types
<1>4. ~Took(j.id) /\ Bound(j.id) = {} /\ OnWay(j.id) = {} /\ Working(j.id) = {j}
      /\ ~Said(j.id, "accepted") /\ ~Said(j.id, "refused") /\ ~(j.id > ids)
  <2>1. j \in Working(j.id)
    BY DEF Working
  <2>. QED BY <1>2, <2>1 DEF RequestsInv, TrueOf, Alone, Single, Pending
<1>5. ASSUME NEW i \in Ids PROVE TrueOf(i)'
  <2>1. Bound(i)' = Bound(i) /\ OnWay(i)' = OnWay(i)
    BY DEF Bound, OnWay
  <2>2. ids \in Nat /\ ids' = ids
    BY RequestsAssumption DEF RequestsInv, Types
  <2>3. CASE i # j.id
    <3>1. Working(i)' = Working(i)
      BY <1>1, <2>3 DEF Working
    <3>2. Took(i)' <=> Took(i)
      BY <2>3 DEF Took, Effect
    <3>3. \A r \in Answers : Said(i, r)' => Said(i, r)
      BY <1>1, <2>3 DEF Said
    <3>. QED BY <2>1, <2>2, <3>1, <3>2, <3>3, StillTrue DEF Answers
  <2>4. CASE i = j.id
    <3>1. Working(i)' \subseteq {k} /\ (pc = "ran" => Working(i)' = {})
      BY <1>1, <1>4, <2>4 DEF Working
    <3>2. Took(i)' <=> reply = "accepted"
      <4>1. CASE reply # "accepted" /\ UNCHANGED effects
        BY <1>4, <2>4, <4>1 DEF Took
      <4>2. CASE reply = "accepted" /\ Effect(j.link, j.id, j.op)
        <5>1. PICK e : e = [link |-> j.link, id |-> j.id, op |-> j.op] /\ e \in effects'
          BY <4>2 DEF Effect
        <5>2. e.id = i
          BY <2>4, <5>1
        <5>. QED BY <4>2, <5>1, <5>2 DEF Took
      <4>. QED BY <4>1, <4>2
    <3>3. \A r \in {"accepted", "refused"} : Said(i, r)' => pc = "ran" /\ reply = r
      BY <1>1, <1>4, <2>4 DEF Said
    <3>. QED BY <1>4, <2>1, <2>2, <2>4, <3>1, <3>2, <3>3 DEF TrueOf, Alone, Single, Pending
  <2>. QED BY <2>3, <2>4
<1>6. LinkInv'
  <2>1. ASSUME NEW g \in jobs'
        PROVE  /\ g.link <= link
               /\ g.pc = "ending" => g.op = "end_session" /\ Holds(g.link, Requires("end_session"))
    BY <1>1, <1>2 DEF RequestsInv, LinkInv
  <2>2. ASSUME NEW e \in effects'
        PROVE  e.link <= link /\ Check(granted[e.link], Scope, Requires(e.op))
    BY <1>2 DEF RequestsInv, LinkInv, Effect, Holds
  <2>. QED BY <2>1, <2>2 DEF RequestsInv, LinkInv, Holds
<1>7. OnceInv'
  BY <1>4 DEF RequestsInv, OnceInv, Effect, Took
<1>. QED BY <1>3, <1>5, <1>6, <1>7 DEF RequestsInv

\* What a worker thread does.
LEMMA WorkerTrue ==
    ASSUME RequestsInv, NEW j \in jobs, Handle(j) \/ End(j) \/ Raises(j)
    PROVE  RequestsInv'
<1>. USE DEF clientVars, wireVars
<1>1. UNCHANGED <<link, pending, ids, call, future, told, up, down, granted>>
  BY DEF Handle, End, Raises, sessionVars
<1>2. {"none", "accepted", "refused", "failed"} = Answers
  BY DEF Answers
<1>3. CASE Raises(j)
  BY <1>1, <1>2, <1>3, StepTrue DEF Raises, sessionVars
<1>4. CASE End(j)
  <2>1. j.op = "end_session" /\ Holds(j.link, Requires("end_session"))
    BY <1>4 DEF End, RequestsInv, LinkInv
  <2>. QED BY <1>1, <1>2, <1>4, <2>1, StepTrue DEF End, Accept
<1>5. CASE Handle(j)
  <2>0. j.pc = "queued"
    BY <1>5 DEF Handle
  <2>1. CASE Refuse(j)
    BY <1>1, <1>2, <2>0, <2>1, StepTrue DEF Refuse, sessionVars
  <2>2. CASE Accept(j) /\ Holds(j.link, Requires(j.op))
    BY <1>1, <1>2, <2>0, <2>2, StepTrue DEF Accept
  <2>3. CASE /\ Step(j, "ending", "none") /\ UNCHANGED sessionVars
             /\ j.op = "end_session" /\ Holds(j.link, Requires("end_session"))
    BY <1>1, <1>2, <2>0, <2>3, StepTrue DEF sessionVars
  <2>. QED BY <1>5, <2>1, <2>2, <2>3 DEF Handle, ServeRead, RunTasks, EndSession
<1>. QED BY <1>3, <1>4, <1>5

\* The answer leaves the job for the link, or for nowhere.
LEMMA ReplyTrue == ASSUME RequestsInv, NEW j \in jobs, Reply(j) \/ Cancel(j) PROVE RequestsInv'
<1>. USE DEF sessionVars, clientVars, wireVars
<1>1. /\ UNCHANGED <<link, pending, ids, call, future, told, up, granted, effects>>
      /\ jobs' = jobs \ {j}
  BY DEF Reply, Cancel
<1>2. j.link \in Links /\ j.id \in Ids /\ j.reply \in Answers
  BY DEF RequestsInv, Types, JobTypes
<1>3. \/ down' = down
      \/ /\ j.pc = "ran"
         /\ down' = [down EXCEPT ![j.link] = Append(@, [id |-> j.id, reply |-> j.reply])]
  BY DEF Reply, Cancel, Pushed
<1>4. PICK frame \in [id : Ids, reply : Answers] :
         /\ frame.id = j.id /\ frame.reply = j.reply /\ frame = [id |-> j.id, reply |-> j.reply]
  BY <1>2
<1>5. /\ Append(down[j.link], frame) \in Seq([id : Ids, reply : Answers])
      /\ \A n \in 1 .. Len(Append(down[j.link], frame)) :
            \/ n \in 1 .. Len(down[j.link]) /\ Append(down[j.link], frame)[n] = down[j.link][n]
            \/ Append(down[j.link], frame)[n] = frame
  <2>1. down[j.link] \in Seq([id : Ids, reply : Answers])
    BY <1>2 DEF RequestsInv, Types
  <2>. QED BY <2>1
<1>6. Types'
  <2>1. down' \in [Links -> Seq([id : Ids, reply : Answers])]
    BY <1>2, <1>3, <1>4, <1>5 DEF RequestsInv, Types
  <2>. QED BY <1>1, <2>1 DEF RequestsInv, Types
<1>7. ASSUME NEW i \in Ids PROVE TrueOf(i)'
  <2>1. /\ Bound(i)' = Bound(i) /\ OnWay(i)' = OnWay(i) /\ Working(i)' \subseteq Working(i)
        /\ (Took(i)' <=> Took(i))
    BY <1>1 DEF Bound, OnWay, Working, Took
  <2>2. ASSUME NEW r \in Answers, Said(i, r)' PROVE Said(i, r)
    <3>1. ASSUME NEW l \in Links, NEW n \in 1 .. Len(down'[l]),
                 down'[l][n].id = i, down'[l][n].reply = r
          PROVE  Said(i, r)
      <4>1. CASE down'[l] = down[l]
        BY <3>1, <4>1 DEF Said
      <4>2. CASE l = j.link /\ j.pc = "ran" /\ down'[l] = Append(down[l], frame)
        <5>1. CASE n \in 1 .. Len(down[l]) /\ down'[l][n] = down[l][n]
          BY <3>1, <5>1 DEF Said
        <5>2. CASE down'[l][n] = frame
          BY <1>4, <3>1, <4>2, <5>2 DEF Said
        <5>. QED BY <1>5, <4>2, <5>1, <5>2
      <4>3. \/ down'[l] = down[l]
            \/ l = j.link /\ j.pc = "ran" /\ down'[l] = Append(down[l], frame)
        BY <1>3, <1>4 DEF RequestsInv, Types
      <4>. QED BY <4>1, <4>2, <4>3
    <3>. QED BY <1>1, <2>2, <3>1 DEF Said
  <2>3. ids \in Nat /\ ids' = ids
    BY <1>1, RequestsAssumption DEF RequestsInv, Types
  <2>. QED BY <2>1, <2>2, <2>3, StillTrue DEF Answers
<1>8. LinkInv' /\ OnceInv'
  BY <1>1 DEF RequestsInv, LinkInv, OnceInv, Holds
<1>. QED BY <1>6, <1>7, <1>8 DEF RequestsInv

\* Every step keeps the invariant.
LEMMA NextTrue == RequestsInv /\ [Next]_vars => RequestsInv'
<1>. SUFFICES ASSUME RequestsInv, [Next]_vars PROVE RequestsInv'
  OBVIOUS
<1>1. ASSUME NEW t \in Callers, Call(t) \/ Caller(t) \/ GiveUp(t) PROVE RequestsInv'
  BY <1>1, CallTrue, CallerTrue DEF Caller
<1>2. CASE Receiver
  BY <1>2, ReceiveTrue, NoticeTrue, ReconnectTrue DEF Receiver
<1>3. ASSUME NEW l \in Links, Dispatch(l) \/ Disconnect(l) \/ Drop(l) PROVE RequestsInv'
  BY <1>3, DispatchTrue, DisconnectTrue, NetworkTrue
<1>4. ASSUME NEW j \in jobs, Worker(j) \/ Raises(j) \/ Cancel(j) PROVE RequestsInv'
  BY <1>4, WorkerTrue, ReplyTrue DEF Worker
<1>5. CASE BatchFinishes
  BY <1>5, NetworkTrue
<1>6. CASE UNCHANGED vars
  <2>1. /\ UNCHANGED <<link, pending, ids, call, future, told, up, down, jobs, effects, granted>>
    BY <1>6 DEF vars
  <2>2. link \in Int
    BY RequestsAssumption DEF RequestsInv, Types, Links
  <2>3. link' \in Links /\ link' >= link /\ granted' \in [Links -> UNION {Grants, {{}}}]
    BY <2>1, <2>2 DEF RequestsInv, Types
  <2>. QED BY <2>1, <2>3, QuietTrue
<1>. QED BY <1>1, <1>2, <1>3, <1>4, <1>5, <1>6 DEF Next

\* The pieces above hold of every state.
THEOREM RequestsInvariant == Spec => []RequestsInv
BY InitTrue, NextTrue, PTL DEF Spec

\* What a caller is told is what happened (Wire.exchange, Connection.run_action).
THEOREM AnswersAreTrue == Spec => []AnswerIsTruth
<1>1. RequestsInv => AnswerIsTruth
  BY DEF RequestsInv, TrueOf, Said, AnswerIsTruth
<1>. QED BY <1>1, RequestsInvariant, PTL

\* A call takes effect at most once, under the permissions of its own socket
\* (Connection.run, ActionHandler.submit).
THEOREM EffectsPermitted == Spec => []EffectsArePermitted
<1>1. RequestsInv => EffectsArePermitted
  BY DEF RequestsInv, LinkInv, OnceInv, EffectsArePermitted
<1>. QED BY <1>1, RequestsInvariant, PTL

===============================================================================
