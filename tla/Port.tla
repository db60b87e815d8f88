-------------------------------- MODULE Port --------------------------------
(***************************************************************************)
(* The reads and the actions of the session port and what each one asks    *)
(* of its caller (src/winslow/client/base.py, src/winslow/access/authz.py),*)
(* and the tools an agent reaches them through                             *)
(* (src/winslow/serve/mcp.py).                                             *)
(***************************************************************************)
EXTENDS Permissions

SessionReads ==
    {"snapshot", "roster", "task_detail", "record_detail", "history", "log_tail", "caches",
     "cache_value", "apply_filter", "batch_options", "session_params"}
\* The reads that answer the rows a caller may see.
RowReads == {"sessions", "descriptors", "manifests"}
Starts == {"create_session", "restore_session"}
SessionActions ==
    {"run_tasks", "check_tasks", "stop_batch", "end_session", "load_cache_entries",
     "clear_cache_entries"}
PortCalls == SessionReads \cup RowReads \cup {"host_stats"} \cup Starts \cup SessionActions

\* What a call requires, one of them: of the name it acts on, or of each row.
Requires(op) ==
    CASE op \in SessionReads \cup {"sessions"} -> {"view_task"}
      [] op \in Starts \cup {"descriptors", "manifests"} -> {"start_workflow"}
      [] op \in {"run_tasks", "load_cache_entries", "clear_cache_entries"} -> {"run_task"}
      [] op = "check_tasks" -> {"check_task"}
      [] op = "stop_batch" -> {"check_task", "run_task"}
      [] op = "end_session" -> {"end_workflow", "check_task"}
Permitted(scopes, name, op) == op = "host_stats" \/ Check(scopes, name, Requires(op))
\* filter_rows.
Rows(scopes, names, op) == {name \in names : Permitted(scopes, name, op)}

\* The tools of McpEndpoint, by the call behind each.
Tools == (PortCalls \ {"sessions", "create_session"}) \cup {"list_sessions", "start_session"}
CallOf(tool) ==
    CASE tool = "list_sessions" -> "sessions"
      [] tool = "start_session" -> "create_session"
      [] OTHER -> tool
=============================================================================
