----------------------------- MODULE MCRequests -----------------------------
EXTENDS Requests, TLC
CONSTANTS etl, t1, t2
OneEach == t1 :> {"run_tasks", "snapshot"} @@ t2 :> {"end_session"}
Granting(permissions) == Expand({<<etl, p>> : p \in permissions})
TwoGrants == {Granting({"check_task"}), Granting({"run_task", "end_workflow"})}
=============================================================================
