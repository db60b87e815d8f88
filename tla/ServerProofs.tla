----------------------------- MODULE ServerProofs -----------------------------
(***************************************************************************)
(* Proofs about the server.  About Hosting: one id is one session unless   *)
(* restores overlap, and a serving process forgets no manifest, for any    *)
(* number of sessions, requests, failures and starts.  About Access: whom  *)
(* the server lets in, and with what, is decided by the files as they were *)
(* since the caller came, and a socket does not outlive its credential,    *)
(* whatever the policies, the tokens, the tickets and the number of        *)
(* threads that verify them.                                               *)
(***************************************************************************)
EXTENDS Hosting, Access, TLAPS

---------------------------------------------------------------------------
(* The sessions of one process (Hosting). *)

\* The actors that work on an id, from the first step of a call to the last.
Busy(id) == {a \in Actors : pc[a] # "idle" /\ at[a] = id}

\* Requests come to a process that serves; the startup is over by then, and a
\* process that is down has nothing in its memory.
PhaseInv ==
    /\ phase # "serving" => \A a \in Requests : pc[a] = "idle"
    /\ phase = "down" => pc[Main] = "idle" /\ live = {} /\ reserved = {}

\* One call at a time is about an id, none while its session runs.
AloneInv ==
    \A id \in Ids \ twins :
        /\ \A a, b \in Busy(id) : a = b
        /\ running[id] <= 1
        /\ running[id] # 0 => id \in live /\ Busy(id) = {}

\* A manifest of the environment is restored, about to be, or was given up.
KnownInv ==
    \A id \in Ids : disk[id] = "open" /\ OwnEnv(id) =>
        \/ phase = "down"
        \/ id \in live \cup failed \/ InFlight(id)
        \/ phase = "restoring" /\ id \in todo

\* What ends is served here, or its rebuild failed here.
EndingInv == \A a \in Actors : pc[a] \in {"stamp", "move"} => at[a] \in live \cup failed

HostingInv == HostTypeOK /\ PhaseInv /\ AloneInv /\ KnownInv /\ EndingInv

---------------------------------------------------------------------------
(* The pieces of the steps. *)

\* The listing moves a torn manifest and leaves the open ones.
LEMMA RelocatedKeepsOpen ==
    ASSUME HostTypeOK
    PROVE  /\ Relocated \in [Ids -> {"none", "open", "torn_ended", "torn_error", "ended", "error"}]
           /\ \A id \in Ids : Relocated[id] = "open" <=> disk[id] = "open"
BY DEF HostTypeOK, Relocated, Archived

\* A call about an id nobody works on, whose session does not run.
LEMMA BeginKeepsAlone ==
    ASSUME HostingInv, NEW a \in Actors, pc[a] = "idle", NEW id \in Ids, NEW what, NEW step,
           Begin(a, id, what, step), UNCHANGED live,
           \/ UNCHANGED running /\ id \notin live /\ (Busy(id) = {} \/ id \in twins')
           \/ /\ running[id] > 0 /\ running' = [running EXCEPT ![id] = @ - 1]
              /\ id \in live
           \/ step = "idle" /\ UNCHANGED running,
           twins \subseteq twins'
    PROVE  AloneInv'
<1>1. \A b \in Actors : b # a => pc'[b] = pc[b] /\ at'[b] = at[b]
  BY DEF Begin, Goto, HostingInv, HostTypeOK
<1>2. pc'[a] = step /\ at'[a] = id
  BY DEF Begin, Goto, HostingInv, HostTypeOK
<1>3. ASSUME NEW k \in Ids \ twins', k # id PROVE Busy(k)' = Busy(k) /\ running'[k] = running[k]
  BY <1>1, <1>2, <1>3 DEF Busy, HostingInv, HostTypeOK
<1>4. Busy(id)' \subseteq Busy(id) \cup {a}
  BY <1>1, <1>2 DEF Busy
<1>5. ASSUME id \notin twins'
      PROVE  /\ \A b, c \in Busy(id)' : b = c
             /\ running'[id] <= 1 /\ (running'[id] # 0 => id \in live' /\ Busy(id)' = {})
  <2>0. running \in [Ids -> Nat] /\ id \notin twins
    BY <1>5 DEF HostingInv, HostTypeOK
  <2>1. CASE UNCHANGED running /\ id \notin live /\ (Busy(id) = {} \/ id \in twins')
    BY <1>4, <1>5, <2>0, <2>1 DEF HostingInv, AloneInv
  <2>2. CASE running[id] > 0 /\ running' = [running EXCEPT ![id] = @ - 1]
    BY <1>4, <1>5, <2>0, <2>2 DEF HostingInv, AloneInv
  <2>3. CASE step = "idle" /\ UNCHANGED running
    <3>1. Busy(id)' \subseteq Busy(id)
      BY <1>4, <1>2, <2>3 DEF Busy
    <3>. QED BY <1>5, <2>0, <2>3, <3>1 DEF HostingInv, AloneInv
  <2>. QED BY <2>1, <2>2, <2>3
<1>. QED BY <1>3, <1>5 DEF HostingInv, AloneInv

\* A step of a call keeps who works on what; only the last step registers.
LEMMA StepKeepsAlone ==
    ASSUME HostingInv, NEW a \in Actors, pc[a] # "idle", NEW step, Goto(a, step),
           UNCHANGED <<at, running, twins>>, live' \in SUBSET Ids,
           \A id \in live \ live' : id = at[a]
    PROVE  AloneInv'
<1>1. \A b \in Actors : b # a => pc'[b] = pc[b]
  BY DEF Goto, HostingInv, HostTypeOK
<1>2. \A k \in Ids : Busy(k)' \subseteq Busy(k)
  BY <1>1 DEF Busy
<1>3. at[a] \in Ids /\ a \in Busy(at[a])
  BY DEF Busy, HostingInv, HostTypeOK
<1>4. ASSUME NEW k \in Ids \ twins, running[k] # 0 PROVE k \in live'
  BY <1>3, <1>4 DEF HostingInv, AloneInv
<1>. QED BY <1>2, <1>4 DEF HostingInv, AloneInv

\* The host begins empty.
LEMMA InitHosting == HostInit => HostingInv
<1>. SUFFICES ASSUME HostInit PROVE HostingInv
  OBVIOUS
<1>1. (CHOOSE id \in Ids : TRUE) \in Ids
  BY HostingAssumption
<1>2. HostTypeOK
  <2>1. at \in [Actors -> Ids]
    BY <1>1 DEF HostInit
  <2>. QED BY <2>1, HostingAssumption DEF HostInit, HostTypeOK
<1>3. Main \in Actors /\ Requests \subseteq Actors
  BY DEF Actors
<1>. QED BY <1>2, <1>3 DEF HostInit, HostingInv, PhaseInv, AloneInv, KnownInv, EndingInv, Busy

\* An operation in flight is served, or is the boot itself.
LEMMA StepIsServed ==
    ASSUME HostingInv, NEW a \in Actors, pc[a] # "idle"
    PROVE  phase # "down" /\ (phase = "serving" \/ a = Main) /\ at[a] \in Ids
BY DEF HostingInv, PhaseInv, HostTypeOK, Actors

\* Each operation keeps the invariant.
LEMMA ReserveStep == ASSUME HostingInv, NEW a \in Actors, Reserve(a) PROVE HostingInv'
<1>. USE DEF Reserve, Goto, record, memory, host, history
<1>1. HostTypeOK' /\ at[a] \in Ids
  BY DEF HostingInv, HostTypeOK
<1>2. PhaseInv'
  BY StepIsServed, HostingAssumption DEF HostingInv, PhaseInv, HostTypeOK
<1>3. AloneInv'
  BY StepKeepsAlone DEF HostingInv, HostTypeOK
<1>4. KnownInv'
  <2>1. \A id \in Ids : InFlight(id) => InFlight(id)'
    BY DEF InFlight, HostingInv, HostTypeOK
  <2>. QED BY <2>1 DEF HostingInv, KnownInv, OwnEnv
<1>5. EndingInv'
  BY DEF HostingInv, EndingInv, HostTypeOK
<1>. QED BY <1>1, <1>2, <1>3, <1>4, <1>5 DEF HostingInv

\* InitializeTasks keeps the invariant.
LEMMA InitializeTasksStep == ASSUME HostingInv, NEW a \in Actors, InitializeTasks(a) PROVE HostingInv'
<1>. USE DEF InitializeTasks, Goto, record, memory, host, history
<1>1. HostTypeOK' /\ at[a] \in Ids
  BY DEF HostingInv, HostTypeOK
<1>2. PhaseInv'
  BY StepIsServed, HostingAssumption DEF HostingInv, PhaseInv, HostTypeOK
<1>3. AloneInv'
  BY StepKeepsAlone DEF HostingInv, HostTypeOK
<1>4. KnownInv'
  <2>1. \A id \in Ids : InFlight(id) => InFlight(id)'
    BY DEF InFlight, HostingInv, HostTypeOK
  <2>. QED BY <2>1 DEF HostingInv, KnownInv, OwnEnv
<1>5. EndingInv'
  BY DEF HostingInv, EndingInv, HostTypeOK
<1>. QED BY <1>1, <1>2, <1>3, <1>4, <1>5 DEF HostingInv

\* Seed keeps the invariant.
LEMMA SeedStep == ASSUME HostingInv, NEW a \in Actors, Seed(a) PROVE HostingInv'
<1>. USE DEF Seed, Goto, record, memory, host, history
<1>1. HostTypeOK' /\ at[a] \in Ids
  BY DEF HostingInv, HostTypeOK
<1>2. PhaseInv'
  BY StepIsServed, HostingAssumption DEF HostingInv, PhaseInv, HostTypeOK
<1>3. AloneInv'
  BY StepKeepsAlone DEF HostingInv, HostTypeOK
<1>4. KnownInv'
  <2>1. \A id \in Ids : InFlight(id) => InFlight(id)'
    BY DEF InFlight, HostingInv, HostTypeOK
  <2>. QED BY <2>1 DEF HostingInv, KnownInv, OwnEnv
<1>5. EndingInv'
  BY DEF HostingInv, EndingInv, HostTypeOK
<1>. QED BY <1>1, <1>2, <1>3, <1>4, <1>5 DEF HostingInv

\* InitState keeps the invariant.
LEMMA InitStateStep == ASSUME HostingInv, NEW a \in Actors, InitState(a) PROVE HostingInv'
<1>. USE DEF InitState, Goto, record, memory, host, history
<1>1. HostTypeOK' /\ at[a] \in Ids
  BY DEF HostingInv, HostTypeOK
<1>2. PhaseInv'
  BY StepIsServed, HostingAssumption DEF HostingInv, PhaseInv, HostTypeOK
<1>3. AloneInv'
  BY StepKeepsAlone DEF HostingInv, HostTypeOK
<1>4. KnownInv'
  <2>1. \A id \in Ids : InFlight(id) => InFlight(id)'
    BY DEF InFlight, HostingInv, HostTypeOK
  <2>2. InFlight(at[a])'
    BY DEF InFlight, HostingInv, HostTypeOK
  <2>. QED BY <2>1, <2>2 DEF HostingInv, KnownInv, OwnEnv, HostTypeOK
<1>5. EndingInv'
  BY DEF HostingInv, EndingInv, HostTypeOK
<1>. QED BY <1>1, <1>2, <1>3, <1>4, <1>5 DEF HostingInv

\* BuildFails keeps the invariant.
LEMMA BuildFailsStep == ASSUME HostingInv, NEW a \in Actors, BuildFails(a) PROVE HostingInv'
<1>. USE DEF BuildFails, Goto, record, memory, host, history, Fails
<1>1. HostTypeOK' /\ at[a] \in Ids
  BY DEF HostingInv, HostTypeOK
<1>2. PhaseInv'
  BY StepIsServed, HostingAssumption DEF HostingInv, PhaseInv, HostTypeOK
<1>3. AloneInv'
  BY StepKeepsAlone DEF HostingInv, HostTypeOK
<1>4. KnownInv'
  BY StepIsServed DEF HostingInv, KnownInv, OwnEnv, InFlight, HostTypeOK
<1>5. EndingInv'
  BY DEF HostingInv, EndingInv, HostTypeOK
<1>. QED BY <1>1, <1>2, <1>3, <1>4, <1>5 DEF HostingInv

\* InitFails keeps the invariant.
LEMMA InitFailsStep == ASSUME HostingInv, NEW a \in Actors, InitFails(a) PROVE HostingInv'
<1>. USE DEF InitFails, Goto, record, memory, host, history, Fails
<1>1. HostTypeOK' /\ at[a] \in Ids
  BY DEF HostingInv, HostTypeOK
<1>2. PhaseInv'
  <2>1. phase' = phase /\ phase # "down" /\ (phase = "serving" \/ a = Main)
    BY StepIsServed DEF host
  <2>2. \A b \in Actors : b # a => pc'[b] = pc[b]
    BY DEF HostingInv, HostTypeOK
  <2>. QED BY <2>1, <2>2, HostingAssumption DEF HostingInv, PhaseInv, Actors
<1>3. AloneInv'
  BY StepKeepsAlone DEF HostingInv, HostTypeOK
<1>4. KnownInv'
  BY StepIsServed DEF HostingInv, KnownInv, OwnEnv, InFlight, HostTypeOK
<1>5. EndingInv'
  BY DEF HostingInv, EndingInv, HostTypeOK
<1>. QED BY <1>1, <1>2, <1>3, <1>4, <1>5 DEF HostingInv

\* Stamp keeps the invariant.
LEMMA StampStep == ASSUME HostingInv, NEW a \in Actors, Stamp(a) PROVE HostingInv'
<1>. USE DEF Stamp, Goto, record, memory, host, history, Stamped
<1>1. HostTypeOK' /\ at[a] \in Ids
  BY DEF HostingInv, HostTypeOK
<1>2. PhaseInv'
  <2>1. phase' = phase /\ phase # "down" /\ (phase = "serving" \/ a = Main)
    BY StepIsServed DEF host
  <2>2. \A b \in Actors : b # a => pc'[b] = pc[b]
    BY DEF HostingInv, HostTypeOK
  <2>. QED BY <2>1, <2>2, HostingAssumption DEF HostingInv, PhaseInv, Actors
<1>3. AloneInv'
  BY StepKeepsAlone DEF HostingInv, HostTypeOK
<1>4. KnownInv'
  BY StepIsServed DEF HostingInv, KnownInv, OwnEnv, InFlight, HostTypeOK
<1>5. EndingInv'
  BY DEF HostingInv, EndingInv, HostTypeOK
<1>. QED BY <1>1, <1>2, <1>3, <1>4, <1>5 DEF HostingInv

\* Move keeps the invariant.
LEMMA MoveStep == ASSUME HostingInv, NEW a \in Actors, Move(a) PROVE HostingInv'
<1>. USE DEF Move, Goto, record, memory, host, history, Archived
<1>1. HostTypeOK' /\ at[a] \in Ids
  BY DEF HostingInv, HostTypeOK
<1>2. PhaseInv'
  BY StepIsServed, HostingAssumption DEF HostingInv, PhaseInv, HostTypeOK
<1>3. AloneInv'
  BY StepKeepsAlone DEF HostingInv, HostTypeOK
<1>4. KnownInv'
  <2>1. at[a] \in live \cup failed
    BY DEF HostingInv, EndingInv
  <2>. QED BY <2>1 DEF HostingInv, KnownInv, OwnEnv, InFlight, HostTypeOK
<1>5. EndingInv'
  BY DEF HostingInv, EndingInv, HostTypeOK
<1>. QED BY <1>1, <1>2, <1>3, <1>4, <1>5 DEF HostingInv

\* Register keeps the invariant.
LEMMA RegisterStep == ASSUME HostingInv, NEW a \in Actors, Register(a) PROVE HostingInv'
<1>. USE DEF Register, Goto, record, memory, host, history
<1>1. HostTypeOK' /\ at[a] \in Ids
  BY DEF HostingInv, HostTypeOK
<1>2. PhaseInv'
  BY StepIsServed, HostingAssumption DEF HostingInv, PhaseInv, HostTypeOK
<1>3. AloneInv'
  <2>1. a \in Busy(at[a]) /\ \A b \in Actors : b # a => pc'[b] = pc[b]
    BY DEF Busy, HostingInv, HostTypeOK
  <2>2. \A k \in Ids : Busy(k)' \subseteq Busy(k) \ {a}
    BY <2>1 DEF Busy, HostingInv, HostTypeOK
  <2>3. ASSUME NEW k \in Ids \ twins, k = at[a]
        PROVE  running[k] = 0 /\ Busy(k)' = {}
    BY <2>1, <2>2, <2>3 DEF HostingInv, AloneInv, HostTypeOK
  <2>. QED BY <2>2, <2>3 DEF HostingInv, AloneInv, HostTypeOK
<1>4. KnownInv'
  BY StepIsServed DEF HostingInv, KnownInv, OwnEnv, InFlight, HostTypeOK
<1>5. EndingInv'
  BY DEF HostingInv, EndingInv, HostTypeOK
<1>. QED BY <1>1, <1>2, <1>3, <1>4, <1>5 DEF HostingInv

\* Create keeps the invariant.
LEMMA CreateStep == ASSUME HostingInv, NEW a \in Requests, NEW id \in Ids, Create(a, id) PROVE HostingInv'
<1>. USE DEF Create, Request, Begin, Goto, record, memory, host, history
<1>0. a \in Actors /\ pc[a] = "idle" /\ a # Main /\ phase = "serving"
  BY HostingAssumption DEF Request, Actors
<1>1. HostTypeOK'
  <2>1. calls' \in 0 .. MaxCalls
    BY HostingAssumption DEF HostingInv, HostTypeOK
  <2>2. /\ at' \in [Actors -> Ids] /\ kind' \in [Actors -> {"none", "create", "restore", "end"}]
        /\ outcome' \in [Actors -> {"ended", "error"}]
        /\ pc' \in [Actors -> {"idle", "build", "tasks", "state", "seed", "register", "stamp", "move"}]
    BY <1>0 DEF HostingInv, HostTypeOK
  <2>. QED BY <2>1, <2>2 DEF HostingInv, HostTypeOK
<1>2. PhaseInv'
  BY <1>0 DEF HostingInv, PhaseInv, HostTypeOK
<1>3. AloneInv'
  BY <1>0, BeginKeepsAlone DEF FreshId, Known, Busy
<1>4. KnownInv'
  BY <1>0, RelocatedKeepsOpen DEF HostingInv, KnownInv, InFlight, OwnEnv, HostTypeOK
<1>5. EndingInv'
  BY DEF HostingInv, EndingInv, HostTypeOK
<1>. QED BY <1>1, <1>2, <1>3, <1>4, <1>5 DEF HostingInv

\* Restore keeps the invariant.
LEMMA RestoreStep == ASSUME HostingInv, NEW a \in Requests, NEW id \in Ids, Restore(a, id) PROVE HostingInv'
<1>. USE DEF Restore, Request, Begin, Goto, memory, host
<1>0. a \in Actors /\ pc[a] = "idle" /\ a # Main /\ phase = "serving"
  BY HostingAssumption DEF Request, Actors
<1>1. HostTypeOK'
  <2>1. calls' \in 0 .. MaxCalls
    BY HostingAssumption DEF HostingInv, HostTypeOK
  <2>2. /\ at' \in [Actors -> Ids] /\ kind' \in [Actors -> {"none", "create", "restore", "end"}]
        /\ outcome' \in [Actors -> {"ended", "error"}]
        /\ pc' \in [Actors -> {"idle", "build", "tasks", "state", "seed", "register", "stamp", "move"}]
    BY <1>0 DEF HostingInv, HostTypeOK
  <2>. QED BY RelocatedKeepsOpen, <2>1, <2>2 DEF HostingInv, HostTypeOK
<1>2. PhaseInv'
  BY <1>0 DEF HostingInv, PhaseInv, HostTypeOK
<1>3. AloneInv'
  <2>1. Busy(id) = {} \/ id \in twins'
    BY DEF Busy, InFlight
  <2>2. id \notin live
    BY DEF Restorable, Known
  <2>3. twins \subseteq twins'
    OBVIOUS
  <2>. QED BY <1>0, <2>1, <2>2, <2>3, BeginKeepsAlone
<1>4. KnownInv'
  BY <1>0, RelocatedKeepsOpen DEF HostingInv, KnownInv, InFlight, OwnEnv, HostTypeOK
<1>5. EndingInv'
  BY DEF HostingInv, EndingInv, HostTypeOK
<1>. QED BY <1>1, <1>2, <1>3, <1>4, <1>5 DEF HostingInv

\* End keeps the invariant.
LEMMA EndStep == ASSUME HostingInv, NEW a \in Requests, NEW id \in Ids, End(a, id) PROVE HostingInv'
<1>. USE DEF End, Request, Begin, Goto, record, host, history
<1>0. a \in Actors /\ pc[a] = "idle" /\ a # Main /\ phase = "serving"
  BY HostingAssumption DEF Request, Actors
<1>1. HostTypeOK'
  <2>1. running' \in [Ids -> Nat]
    BY DEF HostingInv, HostTypeOK
  <2>2. calls' \in 0 .. MaxCalls
    BY HostingAssumption DEF HostingInv, HostTypeOK
  <2>3. /\ at' \in [Actors -> Ids] /\ kind' \in [Actors -> {"none", "create", "restore", "end"}]
        /\ outcome' \in [Actors -> {"ended", "error"}]
    BY <1>0 DEF HostingInv, HostTypeOK
  <2>4. pc' \in [Actors -> {"idle", "build", "tasks", "state", "seed", "register", "stamp", "move"}]
    BY <1>0 DEF HostingInv, HostTypeOK
  <2>. QED BY <2>1, <2>2, <2>3, <2>4 DEF HostingInv, HostTypeOK
<1>2. PhaseInv'
  BY <1>0 DEF HostingInv, PhaseInv, HostTypeOK
<1>3. AloneInv'
  BY <1>0, BeginKeepsAlone
<1>4. KnownInv'
  BY <1>0, RelocatedKeepsOpen DEF HostingInv, KnownInv, InFlight, OwnEnv, HostTypeOK
<1>5. EndingInv'
  BY DEF HostingInv, EndingInv, HostTypeOK
<1>. QED BY <1>1, <1>2, <1>3, <1>4, <1>5 DEF HostingInv

\* ListManifests keeps the invariant.
LEMMA ListManifestsStep == ASSUME HostingInv, ListManifests PROVE HostingInv'
<1>. USE DEF ListManifests, memory, actor, host, history
<1>1. HostTypeOK'
  BY RelocatedKeepsOpen, HostingAssumption DEF HostingInv, HostTypeOK
<1>2. PhaseInv'
  BY DEF HostingInv, PhaseInv
<1>3. AloneInv'
  BY DEF HostingInv, AloneInv, Busy, HostTypeOK
<1>4. KnownInv'
  BY RelocatedKeepsOpen DEF HostingInv, KnownInv, InFlight, OwnEnv, HostTypeOK
<1>5. EndingInv'
  BY DEF HostingInv, EndingInv
<1>. QED BY <1>1, <1>2, <1>3, <1>4, <1>5 DEF HostingInv

\* Boot keeps the invariant.
LEMMA BootStep == ASSUME HostingInv, Boot PROVE HostingInv'
<1>. USE DEF Boot, memory, actor, history
<1>1. HostTypeOK'
  BY RelocatedKeepsOpen, HostingAssumption DEF HostingInv, HostTypeOK, Restorable, OpenManifests
<1>2. PhaseInv'
  BY DEF HostingInv, PhaseInv
<1>3. AloneInv'
  BY DEF HostingInv, AloneInv, Busy, HostTypeOK
<1>4. KnownInv'
  BY RelocatedKeepsOpen DEF HostingInv, KnownInv, PhaseInv, Restorable, OpenManifests, Known, OwnEnv, HostTypeOK
<1>5. EndingInv'
  BY DEF HostingInv, EndingInv
<1>. QED BY <1>1, <1>2, <1>3, <1>4, <1>5 DEF HostingInv

\* RestoreNext keeps the invariant.
LEMMA RestoreNextStep == ASSUME HostingInv, NEW id \in Ids, RestoreNext(id) PROVE HostingInv'
<1>. USE DEF RestoreNext, record, memory
<1>0. Main \in Actors /\ pc[Main] = "idle" /\ \A a \in Actors : pc[a] = "idle"
  BY DEF HostingInv, PhaseInv, Actors
<1>1. CASE Begin(Main, id, "restore", "build") /\ UNCHANGED history /\ id \in Restorable
  <2>. USE DEF Begin, Goto, history
  <2>1. HostTypeOK'
    BY <1>0, <1>1, HostingAssumption DEF HostingInv, HostTypeOK
  <2>2. PhaseInv'
    BY <1>0, <1>1, HostingAssumption DEF HostingInv, PhaseInv, HostTypeOK, Actors
  <2>3. AloneInv'
    <3>1. Busy(id) = {} /\ id \notin live
      BY <1>0, <1>1 DEF Busy, Restorable, Known
    <3>. QED BY <1>0, <1>1, <3>1, BeginKeepsAlone
  <2>4. KnownInv'
    <3>1. InFlight(id)'
      BY <1>0, <1>1 DEF InFlight, HostingInv, HostTypeOK
    <3>2. \A k \in Ids : ~InFlight(k)
      BY <1>0 DEF InFlight
    <3>. QED BY <1>1, <3>1, <3>2 DEF HostingInv, KnownInv, OwnEnv
  <2>5. EndingInv'
    BY <1>0, <1>1 DEF HostingInv, EndingInv, HostTypeOK
  <2>. QED BY <2>1, <2>2, <2>3, <2>4, <2>5 DEF HostingInv
<1>2. CASE UNCHANGED actor /\ Fails(id)
  <2>. USE DEF actor, Fails
  <2>1. HostTypeOK'
    BY <1>2 DEF HostingInv, HostTypeOK
  <2>2. PhaseInv'
    BY <1>2 DEF HostingInv, PhaseInv
  <2>3. AloneInv'
    BY <1>2 DEF HostingInv, AloneInv, Busy
  <2>4. KnownInv'
    BY <1>2 DEF HostingInv, KnownInv, InFlight, OwnEnv
  <2>5. EndingInv'
    BY <1>2 DEF HostingInv, EndingInv
  <2>. QED BY <2>1, <2>2, <2>3, <2>4, <2>5 DEF HostingInv
<1>. QED BY <1>1, <1>2

\* StartAutoInit keeps the invariant.
LEMMA StartAutoInitStep == ASSUME HostingInv, StartAutoInit PROVE HostingInv'
<1>. USE DEF StartAutoInit, record, memory, actor, history
<1>1. HostTypeOK'
  BY HostingAssumption DEF HostingInv, HostTypeOK
<1>2. PhaseInv'
  BY DEF HostingInv, PhaseInv
<1>3. AloneInv'
  BY DEF HostingInv, AloneInv, Busy, HostTypeOK
<1>4. KnownInv'
  BY DEF HostingInv, KnownInv, InFlight, OwnEnv
<1>5. EndingInv'
  BY DEF HostingInv, EndingInv
<1>. QED BY <1>1, <1>2, <1>3, <1>4, <1>5 DEF HostingInv

\* AutoInitSkips keeps the invariant.
LEMMA AutoInitSkipsStep == ASSUME HostingInv, NEW w \in AutoInit, AutoInitSkips(w) PROVE HostingInv'
<1>. USE DEF AutoInitSkips, record, memory, actor, history
<1>1. HostTypeOK'
  BY HostingAssumption DEF HostingInv, HostTypeOK
<1>2. PhaseInv'
  BY DEF HostingInv, PhaseInv
<1>3. AloneInv'
  BY DEF HostingInv, AloneInv, Busy, HostTypeOK
<1>4. KnownInv'
  BY DEF HostingInv, KnownInv, InFlight, OwnEnv
<1>5. EndingInv'
  BY DEF HostingInv, EndingInv
<1>. QED BY <1>1, <1>2, <1>3, <1>4, <1>5 DEF HostingInv

\* Serve keeps the invariant.
LEMMA ServeStep == ASSUME HostingInv, Serve PROVE HostingInv'
<1>. USE DEF Serve, record, memory, actor, history
<1>1. HostTypeOK'
  BY HostingAssumption DEF HostingInv, HostTypeOK
<1>2. PhaseInv'
  BY DEF HostingInv, PhaseInv
<1>3. AloneInv'
  BY DEF HostingInv, AloneInv, Busy, HostTypeOK
<1>4. KnownInv'
  BY DEF HostingInv, KnownInv, InFlight, OwnEnv
<1>5. EndingInv'
  BY DEF HostingInv, EndingInv
<1>. QED BY <1>1, <1>2, <1>3, <1>4, <1>5 DEF HostingInv

\* AutoInitNext keeps the invariant.
LEMMA AutoInitNextStep == ASSUME HostingInv, NEW w \in AutoInit, NEW id \in Ids, AutoInitNext(w, id) PROVE HostingInv'
<1>. USE DEF AutoInitNext, Begin, Goto, record, memory, history
<1>0. Main \in Actors /\ pc[Main] = "idle"
  BY DEF Actors
<1>1. HostTypeOK'
  BY HostingAssumption DEF HostingInv, HostTypeOK
<1>2. PhaseInv'
  BY <1>0, HostingAssumption DEF HostingInv, PhaseInv, HostTypeOK, Actors
<1>3. AloneInv'
  BY <1>0, BeginKeepsAlone DEF FreshId, Known, Busy
<1>4. KnownInv'
  BY <1>0 DEF HostingInv, KnownInv, InFlight, OwnEnv, HostTypeOK
<1>5. EndingInv'
  BY DEF HostingInv, EndingInv, HostTypeOK
<1>. QED BY <1>1, <1>2, <1>3, <1>4, <1>5 DEF HostingInv

\* Crash keeps the invariant.
LEMMA CrashStep == ASSUME HostingInv, Crash PROVE HostingInv'
<1>. USE DEF Crash
<1>1. HostTypeOK'
  BY HostingAssumption DEF HostingInv, HostTypeOK
<1>2. PhaseInv'
  BY DEF PhaseInv, Actors
<1>3. AloneInv'
  BY DEF AloneInv, Busy
<1>4. KnownInv'
  BY DEF KnownInv
<1>5. EndingInv'
  BY DEF EndingInv
<1>. QED BY <1>1, <1>2, <1>3, <1>4, <1>5 DEF HostingInv

\* Every step keeps the invariant.
LEMMA HostingStep == HostingInv /\ [HostNext]_hostVars => HostingInv'
<1>. SUFFICES ASSUME HostingInv, [HostNext]_hostVars PROVE HostingInv'
  OBVIOUS
<1>1. CASE Startup
  BY <1>1, BootStep, StartAutoInitStep, ServeStep, RestoreNextStep, AutoInitSkipsStep,
     AutoInitNextStep DEF Startup
<1>2. CASE Crash
  BY <1>2, CrashStep
<1>3. CASE ListManifests
  BY <1>3, ListManifestsStep
<1>4. CASE \E a \in Actors : Steps(a)
  BY <1>4, ReserveStep, BuildFailsStep, InitializeTasksStep, InitStateStep, SeedStep,
     InitFailsStep, RegisterStep, StampStep, MoveStep DEF Steps
<1>5. CASE \E a \in Requests, id \in Ids : Create(a, id) \/ Restore(a, id) \/ End(a, id)
  BY <1>5, CreateStep, RestoreStep, EndStep
<1>6. CASE UNCHANGED hostVars
  BY <1>6 DEF hostVars, HostingInv, HostTypeOK, PhaseInv, AloneInv, Busy, KnownInv, InFlight,
     OwnEnv, EndingInv
<1>. QED BY <1>1, <1>2, <1>3, <1>4, <1>5, <1>6 DEF HostNext

\* The state keeps its type, and the invariant holds: disk, registry and startup.
THEOREM HostingInvariant == HostSpec => []HostingInv
BY InitHosting, HostingStep, PTL DEF HostSpec

\* Every variable of the host has its type.
THEOREM HostingTypes == HostSpec => []HostTypeOK
<1>1. HostingInv => HostTypeOK
  BY DEF HostingInv
<1>. QED BY <1>1, HostingInvariant, PTL

\* One id is one session, unless a restore overlaps another call about the id
\* (SessionRegistry.reserve, restore_session_target).
THEOREM OneSession == HostSpec => []OneSessionPerId
<1>1. HostingInv => OneSessionPerId
  <2>. SUFFICES ASSUME HostingInv, NEW id \in Ids \ twins
       PROVE  /\ \A a, b \in Building(id) : a = b
              /\ running[id] <= 1 /\ (running[id] = 1 => Building(id) = {})
    BY DEF OneSessionPerId
  <2>1. Building(id) \subseteq Busy(id)
    BY DEF Building, Busy
  <2>. QED BY <2>1 DEF HostingInv, AloneInv, HostTypeOK
<1>. QED BY <1>1, HostingInvariant, PTL

\* A serving process forgets no manifest of its environment, whatever failed or died
\* before (Orchestrator._restore_sessions).
THEOREM NothingIsForgotten == HostSpec => []NothingForgotten
<1>1. HostingInv => NothingForgotten
  BY DEF HostingInv, KnownInv, NothingForgotten
<1>. QED BY <1>1, HostingInvariant, PTL

---------------------------------------------------------------------------
(* The door (Access). *)

Threads == {"stat", "read", "store"}   \* a thread verifies the credential
Admitted == {"cap", "tool", "answer"}  \* it has a context
ConnSteps == {"away", "open"} \cup Threads \cup Admitted
Contents == (SUBSET Tokens) \cup Policies \cup {Broken, Missing}
Times == Int \cup {None}

\* The fields of a connection, the scopes and the user left open.
IsContext(x) == x \in [user : {x.user}, scopes : {x.scopes}, expires : Times]
IsConn(s) ==
    /\ s \in [pc : ConnSteps, door : {"socket", "mcp"}, did : SUBSET (PortCalls \X Names),
              credential : Credentials, reading : Files,
              read : [content : Contents, stamp : Nat], context : {s.context},
              opened : 0 .. MaxNow, window : SUBSET (Files \X Contents)]
    /\ IsContext(s.context)

\* The type of the state.
Types ==
    /\ now \in 0 .. MaxNow /\ mode \in Modes /\ edits \in 0 .. MaxEdits
    /\ file \in [Files -> [content : Contents, stamp : Nat]]
    /\ file["tokens"].content \in SUBSET Tokens
    /\ file["policy"].content \in Policies \cup {Broken, Missing}
    /\ snap \in [Files -> [value : (SUBSET Tokens) \cup Policies \cup {NoPolicy}, stamp : Nat]]
    /\ snap["tokens"].value \in SUBSET Tokens
    /\ snap["policy"].value \in Policies \cup {NoPolicy}
    /\ DOMAIN conn = Conns /\ conn = [c \in Conns |-> conn[c]]
    /\ \A c \in Conns : IsConn(conn[c])

\* A stamp names one content: what was parsed under the stamp the file still has is
\* what the file holds.
SnapInv ==
    \A f \in Files :
        /\ snap[f].stamp <= file[f].stamp /\ 1 <= file[f].stamp
        /\ snap[f].stamp = file[f].stamp => snap[f].value = file[f].content

Held(s, f, content) == <<f, content>> \in s.window
\* What a thread has read was in the file since its caller came, under this stamp or
\* a later one.
ReadInv(s) ==
    LET f == s.reading IN
    /\ s.pc \in Threads \cup Admitted => \A g \in Files : Held(s, g, file[g].content)
    /\ s.pc \in {"read", "store"} => s.read.stamp <= file[f].stamp
    /\ s.pc = "store" =>
        /\ Held(s, f, s.read.content) /\ s.read.content \notin {Broken, Missing}
        /\ f = "tokens" => s.read.content \in SUBSET Tokens
        /\ f = "policy" => s.read.content \in Policies
        /\ s.read.stamp = file[f].stamp => s.read.content = file[f].content

TokenFresh(s) == \E records \in SUBSET Tokens : Held(s, "tokens", records) /\ s.credential.of \in records
Scopes(s, p) == PolicyScopes(Value("policy", p), s.credential.of.user, Asserted(s.credential))
PolicyFresh(s) ==
    \/ Held(s, "policy", Broken) \/ Held(s, "policy", Missing)
    \/ \E p \in Policies : /\ Held(s, "policy", p) /\ s.context.scopes = Scopes(s, p)
                        /\ \A d \in s.did : Permitted(Scopes(s, p), d[2], d[1])
Policed(s) == mode = "credential" /\ s.credential.kind \in {"token", "oidc"}

\* The token was in the file before the policy is looked at, and both decided.
GrantInv(s) ==
    /\ s.pc \in Threads =>
        /\ s.credential.kind \in {"token", "oidc"} /\ s.did = {} /\ mode # "loopback"
        /\ s.reading = "tokens" => s.credential.kind = "token"
    /\ s.pc = "cap" => s.did = {}
    /\ (Policed(s) /\ s.credential.kind = "token"
        /\ (s.pc \in Admitted \/ (s.pc \in Threads /\ s.reading = "policy"))) => TokenFresh(s)
    /\ Policed(s) /\ s.pc \in Admitted => PolicyFresh(s)

\* The life of a context: that of its credential, and of the socket it opened.
WithinCredential(s) ==
    mode = "credential" /\ s.pc \in {"cap", "open"} =>
        /\ s.credential.kind \in {"token", "ticket", "oidc"}
        /\ Expiry(s.credential) # None =>
            s.context.expires # None /\ s.context.expires <= Expiry(s.credential)
        /\ s.credential.kind = "ticket" =>
            s.credential.of.exp <= s.credential.of.iat + MaxTtl
WithinSocket(s) ==
    s.pc = "open" =>
        /\ s.context.expires # None /\ s.context.expires <= s.opened + MaxConnection
        /\ s.opened <= now /\ (now # s.opened => now <= s.context.expires)
LifeInv(s) == WithinCredential(s) /\ WithinSocket(s)

ConnInv(s) == ReadInv(s) /\ GrantInv(s) /\ LifeInv(s)
AccessInv == Types /\ SnapInv /\ \A c \in Conns : ConnInv(conn[c])

---------------------------------------------------------------------------
(* Lemmas about the states of a connection. *)

\* What the kind of a credential says of the rest of it.
LEMMA Kinds ==
    ASSUME NEW cred \in Credentials
    PROVE  /\ cred.kind \in {"none", "other", "token", "ticket", "oidc"}
           /\ cred.kind = "token" => cred.of \in Tokens
           /\ cred.kind = "ticket" => cred.of \in Tickets
           /\ cred.kind = "oidc" => cred.of \in Logins
BY DEF Credentials

\* When a credential that is accepted ends (access/tokens.py, tickets.py, oidc.py).
LEMMA ExpiryType ==
    ASSUME NEW cred \in Credentials, cred.kind \in {"token", "ticket", "oidc"}
    PROVE  Expiry(cred) \in Times
BY Kinds, FilesAssumption DEF Expiry, Times

\* A thread that has read nothing yet.
LEMMA NothingType == Nothing \in [content : Contents, stamp : Nat]
<1>1. Missing \in Contents
  BY DEF Contents
<1>. QED BY <1>1 DEF Nothing

\* The connection nobody is on has its type and promises nothing.
LEMMA AwayFine == AccessInv => IsConn(Away) /\ ConnInv(Away)
<1>1. [kind |-> "none"] \in Credentials
  BY DEF Credentials
<1>2. AccessInv => IsConn(Away)
  <2>1. IsContext(NoContext)
    BY DEF IsContext, NoContext, Times
  <2>2. 0 \in 0 .. MaxNow
    BY AccessAssumption
  <2>. QED BY <1>1, <2>1, <2>2, NothingType DEF IsConn, Away, ConnSteps, Files
<1>3. AccessInv => ConnInv(Away)
  BY DEF ConnInv, ReadInv, GrantInv, LifeInv, WithinCredential, WithinSocket, Away,
         Threads, Admitted, Policed
<1>. QED BY <1>2, <1>3

\* The step of one thread, on a snapshot and files that stay.
LEMMA OneThread ==
    ASSUME AccessInv, NEW c \in Conns, NEW s, IsConn(s), ConnInv(s),
           Becomes(c, s), UNCHANGED <<now, mode, file, snap, edits>>
    PROVE  AccessInv'
<1>1. conn' = [d \in Conns |-> IF d = c THEN s ELSE conn[d]]
  BY DEF Becomes, AccessInv, Types
<1>2. \A d \in Conns : conn'[d] = conn[d] \/ conn'[d] = s
  BY <1>1
<1>3. Types'
  <2>1. DOMAIN conn' = Conns /\ conn' = [d \in Conns |-> conn'[d]]
    BY <1>1
  <2>2. \A d \in Conns : IsConn(conn[d])'
    BY <1>2 DEF AccessInv, Types, IsConn
  <2>. QED BY <2>1, <2>2 DEF AccessInv, Types
<1>4. SnapInv'
  BY DEF AccessInv, SnapInv
<1>5. \A d \in Conns : ConnInv(conn[d])'
  <2>1. \A t : ConnInv(t) => (ReadInv(t) /\ GrantInv(t) /\ LifeInv(t))
    BY DEF ConnInv
  <2>2. ASSUME NEW d \in Conns PROVE ConnInv(conn[d])'
    <3>1. ConnInv(conn'[d])
      BY <1>2 DEF AccessInv
    <3>. QED
      BY ZenonT(30), <3>1
      DEF ConnInv, ReadInv, Held, GrantInv, TokenFresh, PolicyFresh, Scopes, Policed, LifeInv,
          WithinCredential, WithinSocket
  <2>. QED BY <2>2
<1>. QED BY <1>3, <1>4, <1>5 DEF AccessInv

\* The record a thread leaves when it has a context.
LEMMA GrantedFields ==
    ASSUME NEW s, NEW ctx, IsConn(s)
    PROVE  Granted(s, ctx) \in
             [pc : {"cap"}, door : {s.door}, did : {s.did}, credential : {s.credential},
              reading : {s.reading}, read : {Nothing}, context : {ctx},
              opened : {s.opened}, window : {s.window}]
BY DEF Granted, IsConn

\* Whoever is let in with a context that says what the files said is fine.
LEMMA GrantedFine ==
    ASSUME AccessInv, NEW s, NEW ctx, IsConn(s), IsContext(ctx),
           \A g \in Files : Held(s, g, file[g].content), s.did = {},
           mode = "credential" =>
             /\ s.credential.kind \in {"token", "ticket", "oidc"}
             /\ s.credential.kind = "token" => TokenFresh(s)
             /\ s.credential.kind \in {"token", "oidc"} =>
                  \/ Held(s, "policy", Broken) \/ Held(s, "policy", Missing)
                  \/ \E p \in Policies : Held(s, "policy", p) /\ ctx.scopes = Scopes(s, p)
             /\ Expiry(s.credential) # None =>
                  ctx.expires # None /\ ctx.expires <= Expiry(s.credential)
             /\ s.credential.kind = "ticket" =>
                  s.credential.of.exp <= s.credential.of.iat + MaxTtl
    PROVE  IsConn(Granted(s, ctx)) /\ ConnInv(Granted(s, ctx))
<1>. DEFINE r == Granted(s, ctx)
<1>1. /\ r.pc = "cap" /\ r.did = {} /\ r.credential = s.credential
      /\ r.context = ctx /\ r.window = s.window /\ r.reading = s.reading
  BY GrantedFields
<1>2. IsConn(r)
  BY GrantedFields, NothingType DEF IsConn, ConnSteps, Admitted
<1>3. ReadInv(r)
  BY <1>1 DEF ReadInv, Held
<1>4. GrantInv(r)
  BY <1>1 DEF GrantInv, Policed, Threads, Admitted, TokenFresh, PolicyFresh, Held, Scopes
<1>5. LifeInv(r)
  BY <1>1 DEF LifeInv, WithinCredential, WithinSocket
<1>. QED BY <1>2, <1>3, <1>4, <1>5 DEF ConnInv

\* A refused credential closes the door, or lets the caller in as nobody.
LEMMA RefusedFine ==
    ASSUME AccessInv, NEW s, IsConn(s), \A g \in Files : Held(s, g, file[g].content), s.did = {}
    PROVE  IsConn(Refused(s)) /\ ConnInv(Refused(s))
<1>1. CASE mode = "open"
  <2>1. IsContext(Anonymous)
    BY DEF IsContext, Anonymous, Times
  <2>. QED BY <1>1, <2>1, GrantedFine DEF Refused
<1>2. CASE mode # "open"
  BY <1>2, AwayFine DEF Refused
<1>. QED BY <1>1, <1>2

\* What a thread that loaded its file goes on with: the content it goes by was in
\* the file since its caller came, or the policy file was unreadable at that time.
LEMMA LoadedFine ==
    ASSUME AccessInv, NEW s, IsConn(s), ConnInv(s), s.pc \in Threads, NEW value,
           s.reading = "tokens" => value \in SUBSET Tokens /\ Held(s, "tokens", value),
           s.reading = "policy" =>
               \/ Held(s, "policy", Broken) \/ Held(s, "policy", Missing)
               \/ value \in Policies /\ Held(s, "policy", value)
    PROVE  IsConn(Loaded(s, value)) /\ ConnInv(Loaded(s, value))
<1>. DEFINE cred == s.credential
<1>0. /\ \A g \in Files : Held(s, g, file[g].content)
      /\ s.did = {} /\ cred.kind \in {"token", "oidc"} /\ cred \in Credentials
      /\ s.reading = "tokens" => cred.kind = "token"
      /\ s.reading \in Files
  BY DEF ConnInv, ReadInv, GrantInv, IsConn
<1>1. CASE s.reading = "tokens" /\ cred.of \in value /\ (cred.of.expires # None => cred.of.expires > now)
  <2>. DEFINE r == [s EXCEPT !.pc = "stat", !.reading = "policy", !.read = Nothing]
  <2>1. r \in [pc : {"stat"}, door : {s.door}, did : {s.did}, credential : {cred},
               reading : {"policy"}, read : {Nothing}, context : {s.context},
               opened : {s.opened}, window : {s.window}]
    BY DEF IsConn
  <2>2. IsConn(r)
    BY <2>1, NothingType DEF IsConn, ConnSteps, Threads, Files
  <2>3. ReadInv(r)
    BY <1>0, <2>1 DEF ReadInv, Held
  <2>4. GrantInv(r)
    <3>1. TokenFresh(s)
      BY <1>1 DEF TokenFresh
    <3>. QED
      BY <1>0, <2>1, <3>1, <1>1 DEF GrantInv, ConnInv, Threads, Admitted, Policed, TokenFresh, Held
  <2>5. LifeInv(r)
    BY <2>1 DEF LifeInv, WithinCredential, WithinSocket
  <2>6. Loaded(s, value) = r
    BY <1>1 DEF Loaded, Identify
  <2>. QED BY <2>2, <2>3, <2>4, <2>5, <2>6 DEF ConnInv
<1>2. CASE s.reading = "tokens" /\ ~(cred.of \in value /\ (cred.of.expires # None => cred.of.expires > now))
  <2>1. Loaded(s, value) = Refused(s)
    BY <1>2 DEF Loaded, Identify
  <2>. QED BY <1>0, <2>1, RefusedFine
<1>3. CASE s.reading = "policy"
  <2>. DEFINE scopes == PolicyScopes(value, cred.of.user, Asserted(cred))
              ctx == [user |-> cred.of.user, scopes |-> Resolved(scopes), expires |-> Expiry(cred)]
  <2>1. Loaded(s, value) = Granted(s, ctx)
    BY <1>3 DEF Loaded, ScopesFor
  <2>2. IsContext(ctx) /\ Expiry(cred) \in Times
    BY <1>0, ExpiryType DEF IsContext
  <2>3. mode = "credential" /\ cred.kind = "token" => TokenFresh(s)
    BY <1>0, <1>3 DEF ConnInv, GrantInv, Policed
  <2>4. mode = "credential" /\ value \in Policies => ctx.scopes = Scopes(s, value)
    BY FilesAssumption DEF Resolved, Scopes, Value
  <2>5. Expiry(cred) # None => ctx.expires <= Expiry(cred)
    BY <2>2 DEF Times
  <2>6. ctx.expires = Expiry(cred)
    OBVIOUS
  <2>. QED BY <1>0, <1>3, <2>1, <2>2, <2>3, <2>4, <2>5, <2>6, GrantedFine
<1>. QED BY <1>0, <1>1, <1>2, <1>3 DEF Files

---------------------------------------------------------------------------
(* The steps. *)

\* At the start nobody is connected and nothing is parsed.
LEMMA InitAccess == Init => AccessInv
<1>. SUFFICES ASSUME Init PROVE AccessInv
  OBVIOUS
<1>1. PICK content \in Policies \cup {Broken, Missing}, records \in SUBSET Tokens :
        file = [f \in Files |-> [content |-> IF f = "tokens" THEN records ELSE content,
                                stamp |-> 1]]
  BY DEF Init
<1>2. file \in [Files -> [content : Contents, stamp : Nat]]
  BY <1>1 DEF Contents, Files
<1>3. snap = [f \in Files |-> [value |-> IF f = "tokens" THEN {} ELSE NoPolicy, stamp |-> 0]]
  BY DEF Init, Value, Files
<1>4. Types
  <2>1. snap \in [Files -> [value : (SUBSET Tokens) \cup Policies \cup {NoPolicy}, stamp : Nat]]
    BY <1>3
  <2>2. IsConn(Away)
    <3>1. [kind |-> "none"] \in Credentials
      BY DEF Credentials
    <3>2. IsContext(NoContext)
      BY DEF IsContext, NoContext, Times
    <3>3. 0 \in 0 .. MaxNow
      BY AccessAssumption
    <3>. QED BY <3>1, <3>2, <3>3, NothingType DEF IsConn, Away, ConnSteps, Files
  <2>3. now \in 0 .. MaxNow /\ mode \in Modes /\ edits \in 0 .. MaxEdits
    BY AccessAssumption DEF Init
  <2>4. conn = [c \in Conns |-> Away]
    BY DEF Init
  <2>. QED BY <1>1, <1>2, <1>3, <2>1, <2>2, <2>3, <2>4 DEF Types, Files
<1>5. SnapInv
  BY <1>1, <1>3 DEF SnapInv, Files
<1>6. \A c \in Conns : ConnInv(conn[c])
  BY DEF Init, ConnInv, ReadInv, GrantInv, LifeInv, WithinCredential, WithinSocket, Away,
         Threads, Admitted, Policed
<1>. QED BY <1>4, <1>5, <1>6 DEF AccessInv

\* A caller comes: the shape of its credential selects who decides.
LEMMA ArriveStep ==
    ASSUME AccessInv, NEW c \in Conns, NEW door \in {"socket", "mcp"}, NEW cred \in Credentials,
           Arrive(c, door, cred)
    PROVE  AccessInv'
<1>. DEFINE seen == {<<f, file[f].content>> : f \in Files}
            s == [Away EXCEPT !.door = door, !.credential = cred, !.window = seen]
<1>1. s \in [pc : {"away"}, door : {door}, did : {{}}, credential : {cred}, reading : {"tokens"},
             read : {Nothing}, context : {NoContext}, opened : {0}, window : {seen}]
  BY DEF Away
<1>2. seen \subseteq Files \X Contents
  BY DEF AccessInv, Types
<1>3. IsConn(s)
  <2>1. IsContext(NoContext)
    BY DEF IsContext, NoContext, Times
  <2>2. 0 \in 0 .. MaxNow
    BY AccessAssumption
  <2>. QED BY <1>1, <1>2, <2>1, <2>2, NothingType DEF IsConn, ConnSteps, Files
<1>4. \A g \in Files : Held(s, g, file[g].content)
  BY <1>1 DEF Held
<1>5. s.did = {} /\ s.credential = cred
  BY <1>1
<1>6. IsConn(Selected(s, cred)) /\ ConnInv(Selected(s, cred))
  <2>. HIDE DEF s
  <2>1. CASE mode = "loopback"
    <3>1. Selected(s, cred) = Granted(s, Local)
      BY <2>1 DEF Selected
    <3>2. IsContext(Local)
      BY DEF IsContext, Local, Times
    <3>. QED BY <1>3, <1>4, <1>5, <2>1, <3>1, <3>2, GrantedFine
  <2>2. CASE mode # "loopback" /\ cred.kind = "token"
    <3>. DEFINE r == [s EXCEPT !.pc = "stat"]
    <3>1. Selected(s, cred) = r
      BY <2>2 DEF Selected
    <3>2. r \in [pc : {"stat"}, door : {door}, did : {{}}, credential : {cred},
                 reading : {"tokens"}, read : {Nothing}, context : {NoContext}, opened : {0},
                 window : {seen}]
      BY <1>1
    <3>3. IsConn(r)
      BY <1>1, <1>3, <3>2 DEF IsConn, ConnSteps, Threads
    <3>4. ConnInv(r)
      BY <1>1, <1>4, <2>2, <3>2
      DEF ConnInv, ReadInv, Held, GrantInv, Policed, LifeInv, WithinCredential, WithinSocket,
          Threads, Admitted
    <3>. QED BY <3>1, <3>3, <3>4
  <2>3. CASE mode # "loopback" /\ cred.kind = "oidc" /\ VerifyLogin(cred.of)
    <3>. DEFINE r == [s EXCEPT !.pc = "stat", !.reading = "policy"]
    <3>1. Selected(s, cred) = r
      BY <2>3 DEF Selected
    <3>2. r \in [pc : {"stat"}, door : {door}, did : {{}}, credential : {cred},
                 reading : {"policy"}, read : {Nothing}, context : {NoContext}, opened : {0},
                 window : {seen}]
      BY <1>1
    <3>3. IsConn(r)
      BY <1>1, <1>3, <3>2 DEF IsConn, ConnSteps, Threads, Files
    <3>4. ConnInv(r)
      BY <1>1, <1>4, <2>3, <3>2
      DEF ConnInv, ReadInv, Held, GrantInv, Policed, LifeInv, WithinCredential, WithinSocket,
          Threads, Admitted
    <3>. QED BY <3>1, <3>3, <3>4
  <2>4. CASE mode # "loopback" /\ cred.kind = "ticket" /\ VerifyTicket(cred.of, now, Leeway, MaxTtl)
    <3>. DEFINE ctx == [user |-> cred.of.user, scopes |-> Resolved(Expand(cred.of.scopes)),
                        expires |-> cred.of.exp]
    <3>1. Selected(s, cred) = Granted(s, ctx)
      BY <2>4 DEF Selected
    <3>2. cred.of.exp \in Int /\ cred.of.iat \in Int /\ Expiry(cred) = cred.of.exp
      BY <2>4, Kinds, FilesAssumption DEF Expiry
    <3>3. IsContext(ctx)
      BY <3>2 DEF IsContext, Times
    <3>4. cred.of.exp <= cred.of.iat + MaxTtl
      BY <2>4, <3>2, AccessAssumption DEF VerifyTicket, ValidClaims
    <3>5. ctx.expires # None
      BY <3>2, FilesAssumption
    <3>. QED BY <1>3, <1>4, <1>5, <2>4, <3>1, <3>2, <3>3, <3>4, <3>5, GrantedFine
  <2>5. CASE ~(\/ mode = "loopback"
               \/ mode # "loopback" /\ cred.kind = "token"
               \/ mode # "loopback" /\ cred.kind = "oidc" /\ VerifyLogin(cred.of)
               \/ mode # "loopback" /\ cred.kind = "ticket"
                    /\ VerifyTicket(cred.of, now, Leeway, MaxTtl))
    <3>1. Selected(s, cred) = Refused(s)
      BY <2>5 DEF Selected
    <3>. QED BY <1>3, <1>4, <1>5, <3>1, RefusedFine
  <2>. QED BY <2>1, <2>2, <2>3, <2>4, <2>5
<1>. QED BY <1>6, OneThread DEF Arrive

\* A thread looks at the file: what it goes by under an unchanged stamp is what the
\* file holds.
LEMMA StatStep == ASSUME AccessInv, NEW c \in Conns, Stat(c) PROVE AccessInv'
<1>. DEFINE s == conn[c]
            f == s.reading
<1>0. IsConn(s) /\ ConnInv(s) /\ s.pc = "stat" /\ f \in Files
  BY DEF AccessInv, Types, IsConn, Stat, At
<1>1. Held(s, f, file[f].content)
  BY <1>0 DEF ConnInv, ReadInv, Threads
<1>2. CASE file[f].content = Missing
  <2>1. f = "policy"
    BY <1>0, <1>2, FilesAssumption DEF AccessInv, Types, Files
  <2>2. IsConn(Loaded(s, Value(f, Missing))) /\ ConnInv(Loaded(s, Value(f, Missing)))
    BY <1>0, <1>1, <1>2, <2>1, LoadedFine DEF Threads
  <2>3. Becomes(c, Loaded(s, Value(f, Missing)))
    BY <1>2 DEF Stat
  <2>. QED BY <2>2, <2>3, OneThread DEF Stat
<1>3. CASE file[f].content # Missing /\ file[f].stamp = snap[f].stamp
  <2>1. snap[f].value = file[f].content
    BY <1>0, <1>3 DEF AccessInv, SnapInv
  <2>2. f = "tokens" => snap[f].value \in SUBSET Tokens
    BY DEF AccessInv, Types
  <2>3. f = "policy" => snap[f].value \in Policies \/ Held(s, "policy", Broken)
    BY <1>1, <1>3, <2>1 DEF AccessInv, Types
  <2>4. IsConn(Loaded(s, snap[f].value)) /\ ConnInv(Loaded(s, snap[f].value))
    BY <1>0, <1>1, <2>1, <2>2, <2>3, LoadedFine DEF Threads
  <2>5. Becomes(c, Loaded(s, snap[f].value))
    BY <1>3 DEF Stat
  <2>. QED BY <2>4, <2>5, OneThread DEF Stat
<1>4. CASE file[f].content # Missing /\ file[f].stamp # snap[f].stamp
  <2>. DEFINE r == [s EXCEPT !.pc = "read", !.read.stamp = file[f].stamp]
  <2>1. r \in [pc : {"read"}, door : {s.door}, did : {s.did}, credential : {s.credential},
               reading : {f}, read : [content : Contents, stamp : {file[f].stamp}],
               context : {s.context}, opened : {s.opened}, window : {s.window}]
    BY <1>0 DEF IsConn
  <2>2. file[f].stamp \in Nat
    BY <1>0 DEF AccessInv, Types
  <2>3. IsConn(r)
    BY <1>0, <2>1, <2>2 DEF IsConn, ConnSteps, Threads
  <2>4. ConnInv(r)
    <3>1. ReadInv(r)
      <4>1. r.read.stamp = file[f].stamp
        BY <2>1
      <4>2. r.read.stamp <= file[f].stamp
        BY <2>2, <4>1
      <4>. QED BY <1>0, <2>1, <4>2 DEF ConnInv, ReadInv, Held, Threads, Admitted
    <3>2. GrantInv(r) /\ LifeInv(r)
      BY <1>0, <2>1
      DEF ConnInv, GrantInv, Held, TokenFresh, Policed, LifeInv, WithinCredential, WithinSocket,
          Threads, Admitted
    <3>. QED BY <3>1, <3>2 DEF ConnInv
  <2>5. Becomes(c, r)
    BY <1>4 DEF Stat
  <2>. QED BY <2>3, <2>4, <2>5, OneThread DEF Stat
<1>. QED BY <1>2, <1>3, <1>4

\* A thread reads the file: one that does not parse leaves the previous value.
LEMMA ReadStep == ASSUME AccessInv, NEW c \in Conns, Read(c) PROVE AccessInv'
<1>. DEFINE s == conn[c]
            f == s.reading
<1>0. IsConn(s) /\ ConnInv(s) /\ s.pc = "read" /\ f \in Files
  BY DEF AccessInv, Types, IsConn, Read, At
<1>1. Held(s, f, file[f].content)
  BY <1>0 DEF ConnInv, ReadInv, Threads
<1>2. CASE file[f].content \in {Broken, Missing}
  <2>1. f = "policy"
    BY <1>0, <1>2, FilesAssumption DEF AccessInv, Types, Files
  <2>2. IsConn(Loaded(s, snap[f].value)) /\ ConnInv(Loaded(s, snap[f].value))
    BY <1>0, <1>1, <1>2, <2>1, LoadedFine DEF Threads
  <2>3. Becomes(c, Loaded(s, snap[f].value))
    BY <1>2 DEF Read
  <2>. QED BY <2>2, <2>3, OneThread DEF Read
<1>3. CASE file[f].content \notin {Broken, Missing}
  <2>. DEFINE r == [s EXCEPT !.pc = "store", !.read.content = file[f].content]
  <2>1. r \in [pc : {"store"}, door : {s.door}, did : {s.did}, credential : {s.credential},
               reading : {f}, read : [content : {file[f].content}, stamp : {s.read.stamp}],
               context : {s.context}, opened : {s.opened}, window : {s.window}]
    BY <1>0 DEF IsConn
  <2>2. file[f].content \in Contents /\ s.read.stamp \in Nat
    BY <1>0 DEF AccessInv, Types, IsConn
  <2>3. IsConn(r)
    BY <1>0, <2>1, <2>2 DEF IsConn, ConnSteps, Threads
  <2>4. ReadInv(r)
    BY <1>0, <1>1, <1>3, <2>1 DEF ConnInv, ReadInv, Held, Threads, AccessInv, Types
  <2>5. GrantInv(r) /\ LifeInv(r)
    BY <1>0, <2>1
    DEF ConnInv, GrantInv, Held, TokenFresh, Policed, LifeInv, WithinCredential, WithinSocket,
        Threads, Admitted
  <2>6. Becomes(c, r)
    BY <1>3 DEF Read
  <2>. QED BY <2>3, <2>4, <2>5, <2>6, OneThread DEF Read, ConnInv
<1>. QED BY <1>2, <1>3

\* A thread stores what it parsed, under the stamp it saw before it read: an older
\* stamp than the file's may come with a newer content, never the file's own stamp
\* with an older one.
LEMMA StoreStep == ASSUME AccessInv, NEW c \in Conns, Store(c) PROVE AccessInv'
<1>. DEFINE s == conn[c]
            f == s.reading
            r == Loaded(s, s.read.content)
<1>0. IsConn(s) /\ ConnInv(s) /\ s.pc = "store" /\ f \in Files
  BY DEF AccessInv, Types, IsConn, Store, At
<1>1. /\ Held(s, f, s.read.content) /\ s.read.stamp <= file[f].stamp
      /\ f = "tokens" => s.read.content \in SUBSET Tokens
      /\ f = "policy" => s.read.content \in Policies
      /\ s.read.stamp = file[f].stamp => s.read.content = file[f].content
  BY <1>0 DEF ConnInv, ReadInv
<1>2. IsConn(r) /\ ConnInv(r)
  BY <1>0, <1>1, LoadedFine DEF Threads
<1>3. snap' = [snap EXCEPT ![f] = [value |-> s.read.content, stamp |-> s.read.stamp]]
  BY DEF Store
<1>4. conn' = [d \in Conns |-> IF d = c THEN r ELSE conn[d]]
  BY DEF Store, Becomes, AccessInv, Types
<1>5. \A d \in Conns : conn'[d] = conn[d] \/ conn'[d] = r
  BY <1>4
<1>6. Types'
  <2>1. DOMAIN conn' = Conns /\ conn' = [d \in Conns |-> conn'[d]]
    BY <1>4
  <2>2. \A d \in Conns : IsConn(conn[d])'
    BY <1>2, <1>5 DEF AccessInv, Types, IsConn
  <2>3. s.read.stamp \in Nat
    BY <1>0 DEF IsConn
  <2>4. /\ snap' \in [Files -> [value : (SUBSET Tokens) \cup Policies \cup {NoPolicy}, stamp : Nat]]
        /\ snap'["tokens"].value \in SUBSET Tokens
        /\ snap'["policy"].value \in Policies \cup {NoPolicy}
    BY <1>0, <1>1, <1>3, <2>3 DEF AccessInv, Types, Files
  <2>. QED BY <2>1, <2>2, <2>4 DEF AccessInv, Types, Store
<1>7. SnapInv'
  <2>1. \A g \in Files : snap'[g] = snap[g] \/ g = f
    BY <1>3 DEF AccessInv, Types
  <2>2. snap'[f].value = s.read.content /\ snap'[f].stamp = s.read.stamp
    BY <1>0, <1>3 DEF AccessInv, Types
  <2>. QED BY <1>1, <2>1, <2>2 DEF AccessInv, SnapInv, Store
<1>8. \A d \in Conns : ConnInv(conn[d])'
  <2>1. ASSUME NEW d \in Conns PROVE ConnInv(conn[d])'
    <3>1. ConnInv(conn'[d])
      BY <1>2, <1>5 DEF AccessInv
    <3>. QED
      BY <3>1
      DEF Store, ConnInv, ReadInv, Held, GrantInv, TokenFresh, PolicyFresh, Scopes, Policed,
          LifeInv, WithinCredential, WithinSocket
  <2>. QED BY <2>1
<1>. QED BY <1>6, <1>7, <1>8 DEF AccessInv

\* A backend that fails refuses the credential.
LEMMA BackendFailsStep == ASSUME AccessInv, NEW c \in Conns, BackendFails(c) PROVE AccessInv'
<1>1. /\ IsConn(conn[c]) /\ conn[c].did = {}
      /\ \A g \in Files : Held(conn[c], g, file[g].content)
  BY DEF AccessInv, Types, BackendFails, At, ConnInv, ReadInv, GrantInv, Threads
<1>. QED BY <1>1, RefusedFine, OneThread DEF BackendFails

\* A socket is opened within its bound and the life of its credential.
LEMMA OpenStep == ASSUME AccessInv, NEW c \in Conns, Open(c) PROVE AccessInv'
<1>. DEFINE s == conn[c]
            ends == Until(s.context.expires, now + MaxConnection)
            r == [s EXCEPT !.pc = "open", !.opened = now, !.window = {},
                           !.context.expires = ends]
<1>0. IsConn(s) /\ ConnInv(s) /\ s.pc = "cap" /\ now \in 0 .. MaxNow
  BY DEF AccessInv, Types, Open, At
<1>1. /\ ends \in Int /\ ends <= now + MaxConnection
      /\ s.context.expires # None => ends <= s.context.expires
  BY <1>0, AccessAssumption, FilesAssumption DEF Until, IsConn, IsContext, Times
<1>. HIDE DEF ends
<1>2. r \in [pc : {"open"}, door : {s.door}, did : {s.did}, credential : {s.credential},
             reading : {s.reading}, read : {s.read},
             context : [user : {s.context.user}, scopes : {s.context.scopes}, expires : {ends}],
             opened : {now}, window : {{}}]
  BY <1>0 DEF IsConn, IsContext
<1>3. IsConn(r)
  <2>1. IsContext(r.context)
    BY <1>1, <1>2 DEF IsContext, Times
  <2>. QED BY <1>0, <1>2, <2>1 DEF IsConn, ConnSteps
<1>4. ReadInv(r) /\ GrantInv(r)
  BY <1>2 DEF ReadInv, GrantInv, Threads, Admitted
<1>5. LifeInv(r)
  <2>1. r.credential = s.credential /\ r.context.expires = ends /\ r.opened = now /\ r.pc = "open"
    BY <1>2
  <2>2. mode = "credential" => Expiry(s.credential) \in Times
    BY <1>0, ExpiryType DEF ConnInv, LifeInv, WithinCredential, IsConn
  <2>3. s.context.expires \in Times
    BY <1>0 DEF IsConn, IsContext
  <2>4. WithinCredential(r)
    BY <1>0, <1>1, <2>1, <2>2, <2>3, FilesAssumption
    DEF ConnInv, LifeInv, WithinCredential, Times
  <2>5. WithinSocket(r)
    BY <1>0, <1>1, <2>1, FilesAssumption DEF WithinSocket
  <2>. QED BY <2>4, <2>5 DEF LifeInv
<1>6. ConnInv(r) /\ Becomes(c, r)
  BY <1>4, <1>5 DEF ConnInv, Open, ends
<1>. QED BY <1>3, <1>6, OneThread DEF Open

\* A request whose bearer is past its expiry is refused, the others wait for a worker.
LEMMA EnterStep == ASSUME AccessInv, NEW c \in Conns, Enter(c) PROVE AccessInv'
<1>. DEFINE s == conn[c]
            r == [s EXCEPT !.pc = "tool"]
<1>0. IsConn(s) /\ ConnInv(s) /\ s.pc = "cap"
  BY DEF AccessInv, Types, Enter, At
<1>1. r \in [pc : {"tool"}, door : {s.door}, did : {s.did}, credential : {s.credential},
             reading : {s.reading}, read : {s.read}, context : {s.context},
             opened : {s.opened}, window : {s.window}]
  BY <1>0 DEF IsConn
<1>2. IsConn(r)
  BY <1>0, <1>1 DEF IsConn, ConnSteps, Admitted
<1>3. ConnInv(r)
  BY <1>0, <1>1
  DEF ConnInv, ReadInv, Held, GrantInv, TokenFresh, PolicyFresh, Scopes, Policed, LifeInv,
      WithinCredential, WithinSocket, Threads, Admitted
<1>. QED BY <1>2, <1>3, AwayFine, OneThread DEF Enter

\* A tool carries out what the scopes of its request cover, and nothing else.
LEMMA RunToolStep ==
    ASSUME AccessInv, NEW c \in Conns, NEW tool \in AgentTools, NEW name \in Names,
           RunTool(c, tool, name)
    PROVE  AccessInv'
<1>. DEFINE s == conn[c]
            op == CallOf(tool)
            asked == IF op \in RowReads THEN Names ELSE {name}
            did == {<<op, n>> : n \in Rows(s.context.scopes, asked, op)}
            r == [s EXCEPT !.pc = "answer", !.did = did]
<1>0. IsConn(s) /\ ConnInv(s) /\ s.pc = "tool"
  BY DEF AccessInv, Types, RunTool, At
<1>1. op \in PortCalls
  BY AccessAssumption DEF CallOf, Tools, PortCalls, RowReads, Starts
<1>2. did \subseteq PortCalls \X Names
  BY <1>1 DEF Rows
<1>3. \A d \in did : Permitted(s.context.scopes, d[2], d[1])
  BY DEF Rows
<1>. HIDE DEF did
<1>4. r \in [pc : {"answer"}, door : {s.door}, did : {did}, credential : {s.credential},
             reading : {s.reading}, read : {s.read}, context : {s.context},
             opened : {s.opened}, window : {s.window}]
  BY <1>0 DEF IsConn
<1>5. IsConn(r)
  BY <1>0, <1>2, <1>4 DEF IsConn, ConnSteps, Admitted
<1>6. ReadInv(r) /\ LifeInv(r)
  BY <1>0, <1>4
  DEF ConnInv, ReadInv, Held, LifeInv, WithinCredential, WithinSocket, Threads, Admitted
<1>7. GrantInv(r)
  <2>1. Policed(s) => PolicyFresh(r)
    <3>1. /\ r.context = s.context /\ r.did = did /\ r.credential = s.credential
          /\ r.window = s.window
      BY <1>4
    <3>2. Policed(s) => PolicyFresh(s)
      BY <1>0 DEF ConnInv, GrantInv, Admitted
    <3>. QED BY <1>3, <3>1, <3>2 DEF PolicyFresh, Held, Scopes
  <2>. QED BY <1>0, <1>4, <2>1 DEF ConnInv, GrantInv, TokenFresh, Held, Policed, Threads, Admitted
<1>8. Becomes(c, r)
  BY DEF RunTool, did
<1>. QED BY <1>5, <1>6, <1>7, <1>8, OneThread DEF RunTool, ConnInv

\* The clock goes on only when no socket is due, so none is past its expiry.
LEMMA TickStep == ASSUME AccessInv, Tick PROVE AccessInv'
<1>1. now \in 0 .. MaxNow /\ now' = now + 1 /\ now' \in 0 .. MaxNow
  BY AccessAssumption DEF AccessInv, Types, Tick
<1>2. Types'
  BY <1>1 DEF AccessInv, Types, Tick, IsConn, IsContext
<1>3. SnapInv'
  BY DEF AccessInv, SnapInv, Tick
<1>4. ASSUME NEW c \in Conns PROVE ConnInv(conn[c])'
  <2>. DEFINE s == conn[c]
  <2>1. IsConn(s) /\ ConnInv(s) /\ conn' = conn /\ file' = file /\ mode' = mode
    BY DEF AccessInv, Types, Tick
  <2>2. s.opened \in 0 .. MaxNow /\ s.context.expires \in Times
    BY <2>1 DEF IsConn, IsContext
  <2>3. s.pc = "open" => Remaining(s.context.expires, now) # 0
    BY DEF Tick, Due, At
  <2>4. s.pc = "open" => now + 1 <= s.context.expires
    BY <1>1, <2>1, <2>2, <2>3
    DEF Remaining, ConnInv, LifeInv, WithinSocket, Times
  <2>5. WithinSocket(s)'
    BY <1>1, <2>1, <2>2, <2>4 DEF ConnInv, LifeInv, WithinSocket
  <2>. QED
    BY ZenonT(30), <2>1, <2>5
    DEF ConnInv, ReadInv, Held, GrantInv, TokenFresh, PolicyFresh, Scopes, Policed, LifeInv,
        WithinCredential
<1>. QED BY <1>2, <1>3, <1>4 DEF AccessInv

\* An edit of a file gives it a new stamp, and everyone who is being verified has
\* seen the new content in his time.
LEMMA PublishStep ==
    ASSUME AccessInv, NEW f \in Files, NEW content, Publish(f, content),
           f = "tokens" => content \in SUBSET Tokens,
           f = "policy" => content \in Policies \cup {Broken, Missing}
    PROVE  AccessInv'
<1>1. content \in Contents
  BY DEF Contents, Files
<1>2. file' = [file EXCEPT ![f] = [content |-> content, stamp |-> file[f].stamp + 1]]
  BY DEF Publish, AccessInv, Types
<1>3. /\ file'[f].content = content /\ file'[f].stamp = file[f].stamp + 1
      /\ \A g \in Files : g # f => file'[g] = file[g]
  BY <1>2 DEF AccessInv, Types
<1>4. \A g \in Files : file[g].stamp \in Nat /\ snap[g].stamp \in Nat
  BY DEF AccessInv, Types
<1>5. edits' \in 0 .. MaxEdits
  BY AccessAssumption DEF AccessInv, Types, Publish
<1>6. conn' = [c \in Conns |->
                 IF At(c, {"away", "open"}) THEN conn[c]
                 ELSE [conn[c] EXCEPT !.window = conn[c].window \cup {<<f, content>>}]]
  BY DEF Publish
<1>7. ASSUME NEW c \in Conns PROVE IsConn(conn'[c]) /\ ConnInv(conn[c])'
  <2>. DEFINE s == conn[c]
              seen == s.window \cup {<<f, content>>}
              r == [s EXCEPT !.window = seen]
  <2>1. IsConn(s) /\ ConnInv(s)
    BY DEF AccessInv, Types
  <2>2. CASE s.pc \in {"away", "open"}
    <3>1. conn'[c] = s
      BY <1>6, <2>2 DEF At
    <3>. QED
      BY <2>1, <2>2, <3>1
      DEF Publish, ConnInv, ReadInv, GrantInv, Policed, LifeInv, WithinCredential,
          WithinSocket, Threads, Admitted
  <2>3. CASE s.pc \notin {"away", "open"}
    <3>. DEFINE t == conn'[c]
    <3>1. t \in [pc : {s.pc}, door : {s.door}, did : {s.did}, credential : {s.credential},
                 reading : {s.reading}, read : {s.read}, context : {s.context},
                 opened : {s.opened}, window : {s.window \cup {<<f, content>>}}]
      <4>1. t = [s EXCEPT !.window = s.window \cup {<<f, content>>}]
        BY <1>6, <2>3 DEF At
      <4>. QED BY <2>1, <4>1 DEF IsConn
    <3>2. /\ t.pc = s.pc /\ t.did = s.did /\ t.credential = s.credential
          /\ t.reading = s.reading /\ t.read = s.read /\ t.context = s.context
          /\ t.opened = s.opened /\ t.window = s.window \cup {<<f, content>>}
      BY <3>1
    <3>3. IsConn(t)
      BY <1>1, <2>1, <3>1 DEF IsConn
    <3>. HIDE DEF t
    <3>4. (\A g, x : Held(s, g, x) => Held(t, g, x)) /\ Held(t, f, content)
      BY <3>2 DEF Held
    <3>5. ReadInv(conn[c])'
      <4>1. s.reading \in Files /\ s.read.stamp \in Nat
        BY <2>1 DEF IsConn
      <4>2. s.pc \in {"read", "store"} =>
              /\ s.read.stamp <= file'[s.reading].stamp
              /\ s.reading = f => s.read.stamp # file'[s.reading].stamp
        BY <1>3, <1>4, <2>1, <4>1 DEF ConnInv, ReadInv
      <4>3. s.pc \in Threads \cup Admitted => \A g \in Files : Held(t, g, file'[g].content)
        BY <1>3, <2>1, <3>4 DEF ConnInv, ReadInv
      <4>4. s.pc = "store" =>
              /\ Held(t, s.reading, s.read.content) /\ s.read.content \notin {Broken, Missing}
              /\ s.reading = "tokens" => s.read.content \in SUBSET Tokens
              /\ s.reading = "policy" => s.read.content \in Policies
              /\ s.read.stamp = file'[s.reading].stamp =>
                   s.read.content = file'[s.reading].content
        BY <1>3, <2>1, <3>4, <4>1, <4>2 DEF ConnInv, ReadInv
      <4>. QED BY <3>2, <4>2, <4>3, <4>4 DEF ReadInv, Held, t
    <3>6. GrantInv(conn[c])'
      <4>1. TokenFresh(s) => TokenFresh(t)
        BY <3>2, <3>4 DEF TokenFresh
      <4>2. PolicyFresh(s) => PolicyFresh(t)
        BY <3>2, <3>4 DEF PolicyFresh, Scopes
      <4>3. GrantInv(t)
        BY <2>1, <3>2, <4>1, <4>2 DEF ConnInv, GrantInv, Policed
      <4>. QED
        BY <4>3
        DEF Publish, GrantInv, TokenFresh, PolicyFresh, Scopes, Held, Policed, t
    <3>7. LifeInv(conn[c])'
      BY <2>1, <2>3, <3>2 DEF Publish, ConnInv, LifeInv, WithinCredential, WithinSocket, t
    <3>. QED BY <3>3, <3>5, <3>6, <3>7 DEF ConnInv, t
  <2>. QED BY <2>2, <2>3
<1>8. Types'
  <2>1. DOMAIN conn' = Conns /\ conn' = [c \in Conns |-> conn'[c]]
    BY <1>6
  <2>2. \A c \in Conns : IsConn(conn[c])'
    BY <1>7 DEF IsConn, IsContext
  <2>3. file' \in [Files -> [content : Contents, stamp : Nat]]
    BY <1>1, <1>2, <1>4 DEF AccessInv, Types
  <2>4. /\ file'["tokens"].content \in SUBSET Tokens
        /\ file'["policy"].content \in Policies \cup {Broken, Missing}
    BY <1>3 DEF AccessInv, Types, Files
  <2>. QED BY <1>5, <2>1, <2>2, <2>3, <2>4 DEF AccessInv, Types, Publish
<1>9. SnapInv'
  BY <1>3, <1>4 DEF AccessInv, SnapInv, Publish
<1>. QED BY <1>7, <1>8, <1>9 DEF AccessInv

\* Every step keeps the invariant.
LEMMA NextAccess == AccessInv /\ [Next]_vars => AccessInv'
<1>. SUFFICES ASSUME AccessInv, [Next]_vars PROVE AccessInv'
  OBVIOUS
<1>1. ASSUME NEW c \in Conns,
             Stat(c) \/ Read(c) \/ Store(c) \/ BackendFails(c) \/ Open(c) \/ Enter(c)
      PROVE  AccessInv'
  BY <1>1, StatStep, ReadStep, StoreStep, BackendFailsStep, OpenStep, EnterStep
<1>2. ASSUME NEW c \in Conns, AnswerTool(c) \/ Disconnect(c) \/ Expire(c) PROVE AccessInv'
  BY <1>2, AwayFine, OneThread DEF AnswerTool, Disconnect, Expire, Close
<1>3. ASSUME NEW c \in Conns, NEW cred \in Credentials, Hello(c, cred) \/ ToolRequest(c, cred)
      PROVE  AccessInv'
  <2>1. [kind |-> "none"] \in Credentials
    BY DEF Credentials
  <2>. QED BY <1>3, <2>1, ArriveStep DEF Hello, ToolRequest
<1>4. ASSUME NEW c \in Conns, NEW tool \in AgentTools, NEW name \in Names, RunTool(c, tool, name)
      PROVE  AccessInv'
  BY <1>4, RunToolStep
<1>5. CASE Tick
  BY <1>5, TickStep
<1>6. CASE EditPolicy
  BY <1>6, PublishStep DEF EditPolicy, Files
<1>7. ASSUME NEW t \in Tokens, Revoke(t) \/ CreateToken(t) PROVE AccessInv'
  BY <1>7, PublishStep DEF Revoke, CreateToken, AccessInv, Types, Files
<1>8. CASE UNCHANGED vars
  <2>1. Types' /\ SnapInv'
    BY <1>8 DEF vars, AccessInv, Types, SnapInv, IsConn, IsContext
  <2>2. \A c \in Conns : ConnInv(conn[c])'
    BY ZenonT(30), <1>8
    DEF vars, AccessInv, ConnInv, ReadInv, Held, GrantInv, TokenFresh, PolicyFresh, Scopes,
        Policed, LifeInv, WithinCredential, WithinSocket
  <2>. QED BY <2>1, <2>2 DEF AccessInv
<1>. QED BY <1>1, <1>2, <1>3, <1>4, <1>5, <1>6, <1>7, <1>8 DEF Next

\* The invariant holds throughout.
LEMMA AccessCorrect == Spec => []AccessInv
BY InitAccess, NextAccess, PTL DEF Spec

---------------------------------------------------------------------------
(* The theorems. *)

\* The state of the clock, the files, the snapshots and the connections has its
\* type, whatever the files hold (TypeOK).
THEOREM TypeCorrect == Spec => []TypeOK
<1>1. AccessInv => TypeOK
  BY DEF AccessInv, Types, TypeOK, IsConn, ConnSteps, Threads, Admitted, At, Files
<1>. QED BY <1>1, AccessCorrect, PTL

\* GrantIsFresh for every set of tokens, policies and logins: whatever a thread goes
\* by, the snapshot under an unchanged stamp or what it parsed, the files held it
\* since its caller came, because a stamp is never stored with a content older than
\* itself (FileSnapshot.load).
THEOREM FreshGrants == Spec => []GrantIsFresh
<1>1. AccessInv => GrantIsFresh
  <2>. SUFFICES ASSUME AccessInv, NEW c \in Conns, At(c, {"cap", "answer"}), ByPolicy(c)
                PROVE  LET cred == conn[c].credential
                           scopes(p) == PolicyScopes(Value("policy", p), cred.of.user, Asserted(cred))
                       IN
                       /\ cred.kind = "token" => \E records \in During(c, "tokens") : cred.of \in records
                       /\ \/ {Broken, Missing} \cap During(c, "policy") # {}
                          \/ \E p \in During(c, "policy") :
                               /\ conn[c].context.scopes = scopes(p)
                               /\ \A d \in conn[c].did : Permitted(scopes(p), d[2], d[1])
    BY DEF GrantIsFresh
  <2>. DEFINE s == conn[c]
  <2>1. ASSUME NEW f, NEW x, Held(s, f, x) PROVE x \in During(c, f)
    BY <2>1 DEF Held, During
  <2>2. Policed(s) /\ s.pc \in Admitted /\ GrantInv(s)
    BY DEF AccessInv, ConnInv, At, ByPolicy, Policed, Admitted
  <2>3. s.credential.kind = "token" =>
          \E records \in During(c, "tokens") : s.credential.of \in records
    BY <2>1, <2>2 DEF GrantInv, TokenFresh
  <2>4. \/ {Broken, Missing} \cap During(c, "policy") # {}
        \/ \E p \in During(c, "policy") :
             /\ s.context.scopes = Scopes(s, p)
             /\ \A d \in s.did : Permitted(Scopes(s, p), d[2], d[1])
    BY <2>1, <2>2 DEF GrantInv, PolicyFresh
  <2>. QED BY <2>3, <2>4 DEF Scopes
<1>. QED BY <1>1, AccessCorrect, PTL

\* StaleGrantEnds for every bound of a socket and every life of a credential: what
\* the timer waits for is within both (Authenticator.verify_hello, until_expiry).
THEOREM GrantsEnd == Spec => []StaleGrantEnds
<1>1. AccessInv => StaleGrantEnds
  <2>. SUFFICES ASSUME AccessInv, NEW c \in Conns, At(c, {"open"}), now # conn[c].opened
                PROVE  LET cred == conn[c].credential IN
                       /\ now <= conn[c].opened + MaxConnection
                       /\ ByPolicy(c) /\ Expiry(cred) # None => now <= Expiry(cred)
                       /\ mode = "credential" /\ cred.kind = "ticket" =>
                           now <= cred.of.exp /\ now <= cred.of.iat + MaxTtl
    BY DEF StaleGrantEnds
  <2>. DEFINE s == conn[c]
              cred == s.credential
              ends == s.context.expires
  <2>1. /\ ends # None /\ ends <= s.opened + MaxConnection /\ now <= ends
        /\ s.pc = "open" /\ WithinCredential(s) /\ IsConn(s) /\ now \in 0 .. MaxNow
    BY DEF AccessInv, Types, ConnInv, LifeInv, WithinSocket, At
  <2>2. ends \in Int /\ s.opened \in Int /\ now \in Int /\ MaxConnection \in Int
    BY <2>1, AccessAssumption DEF IsConn, IsContext, Times
  <2>3. now <= s.opened + MaxConnection
    BY <2>1, <2>2
  <2>4. cred.kind \in {"token", "ticket", "oidc"} => Expiry(cred) \in Times
    BY <2>1, ExpiryType DEF IsConn
  <2>5. mode = "credential" =>
          /\ cred.kind \in {"token", "ticket", "oidc"}
          /\ Expiry(cred) # None => ends <= Expiry(cred)
          /\ cred.kind = "ticket" => cred.of.exp <= cred.of.iat + MaxTtl
    BY <2>1 DEF WithinCredential
  <2>6. ByPolicy(c) /\ Expiry(cred) # None => now <= Expiry(cred)
    BY <2>1, <2>2, <2>4, <2>5 DEF ByPolicy, Times
  <2>7. mode = "credential" /\ cred.kind = "ticket" =>
          now <= cred.of.exp /\ now <= cred.of.iat + MaxTtl
    <3>. SUFFICES ASSUME mode = "credential", cred.kind = "ticket"
                  PROVE  now <= cred.of.exp /\ now <= cred.of.iat + MaxTtl
      OBVIOUS
    <3>1. cred.of.exp \in Int /\ cred.of.iat \in Int /\ Expiry(cred) = cred.of.exp
      BY <2>1, Kinds, FilesAssumption DEF IsConn, Expiry
    <3>. QED BY <2>1, <2>2, <2>5, <3>1, FilesAssumption, AccessAssumption
  <2>. QED BY <2>3, <2>6, <2>7
<1>. QED BY <1>1, AccessCorrect, PTL
==============================================================================
