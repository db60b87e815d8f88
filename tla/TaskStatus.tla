------------------------------ MODULE TaskStatus ------------------------------
(***************************************************************************)
(* The statuses of a task and the sets the runner decides with.            *)
(***************************************************************************)

TaskStatus ==
    { "INITIALIZED", "CHECKING_ELIGIBILITY", "SKIPPED", "READY_TO_PROCESS",
      "READY_TO_RUN", "CHECKING_RUNNABILITY", "RUNNING", "RUN_FINISHED",
      "FAILED", "ERROR", "BLOCKED", "CHECKING_DEPENDENCIES",
      "CHECKING_COMPLETION", "ACTION_REQUIRED", "COMPLETED",
      "COMPLETED_WITH_ERROR", "FORCE_SUCCESS", "COMPLETED_PREVIOUSLY",
      "STALE", "ABORTED", "WAITING_FOR_RELEASE" }

\* In progress: a downstream task waits for it.
ACTIVE_STATUSES ==
    { "CHECKING_ELIGIBILITY", "CHECKING_RUNNABILITY", "RUNNING",
      "CHECKING_DEPENDENCIES", "CHECKING_COMPLETION" }

RUNNABLE_STATUSES ==
    { "INITIALIZED", "READY_TO_PROCESS", "FAILED", "ERROR", "BLOCKED",
      "ABORTED", "RUN_FINISHED", "STALE" }

\* Done and successful: satisfies every dependent task.
PASSING_STATUSES ==
    { "COMPLETED", "COMPLETED_WITH_ERROR", "COMPLETED_PREVIOUSLY",
      "FORCE_SUCCESS" }

CHECKABLE_STATUSES ==
    RUNNABLE_STATUSES \cup PASSING_STATUSES \cup { "ACTION_REQUIRED" }

\* A skipped dependency counts as satisfied.
UNSATISFIED_STATUSES == TaskStatus \ (PASSING_STATUSES \cup { "SKIPPED" })

\* The outcomes a task snapshot persists.
SNAPSHOT_STATUSES == PASSING_STATUSES \cup { "FAILED", "ERROR" }
=============================================================================
