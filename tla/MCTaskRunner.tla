---------------------------- MODULE MCTaskRunner ----------------------------
(***************************************************************************)
(* Instances of TaskRunner for TLC.                                        *)
(***************************************************************************)
EXTENDS TaskRunner, TLC

CONSTANTS dep, top, sib

Job(action, tasks) ==
    [ action |-> action, tasks |-> tasks, force_run |-> FALSE,
      force_success |-> FALSE, dry_run |-> FALSE ]
Forced(action, tasks) == [Job(action, tasks) EXCEPT !.force_run = TRUE]

BatchSymmetry == Permutations(Batches)

\* dep <- top : the smallest chain.
ChainDeps == (dep :> {}) @@ (top :> {dep})
ChainOrder == (dep :> 0) @@ (top :> 1)

\* dep <- top, dep <- sib : two siblings of one group share a dependency.
ForkDeps == (dep :> {}) @@ (top :> {dep}) @@ (sib :> {dep})
ForkOrder == (dep :> 0) @@ (top :> 1) @@ (sib :> 1)

Fresh == { [x \in Tasks |-> "READY_TO_PROCESS"] }

\* Two batches that clash on the chain.
ClashJobs == { Job("run", {dep, top}), Job("check", {dep, top}) }

\* Every kind of submission and option, over a store that may hold a skip or an
\* outcome a restore seeded.
GroupJobs ==
    { Job("run", Tasks), Job("check", Tasks), Job("run", {top, sib}),
      Forced("run", Tasks), Job("run_single", {top}), Job("check_single", {top}),
      [Job("run", Tasks) EXCEPT !.force_success = TRUE],
      [Forced("run", Tasks) EXCEPT !.force_success = TRUE] }
GroupStores ==
    Fresh \cup
    { [x \in Tasks |-> IF x = sib THEN "SKIPPED" ELSE "READY_TO_PROCESS"],
      [x \in Tasks |-> IF x = dep THEN "COMPLETED_PREVIOUSLY" ELSE "STALE"] }

LivenessJobs == { Job("run_single", {top}), Forced("run_single", {dep}) }
=============================================================================
