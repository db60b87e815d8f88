------------------------------- MODULE Terminal -------------------------------
(***************************************************************************)
(* What a person starts in a terminal (Orchestrator.start in               *)
(* src/winslow/orchestrator.py): a workflow, alone or with its screen, or  *)
(* the commands that work on the credential file and nothing else.         *)
(***************************************************************************)
EXTENDS Launch, Credentials

VARIABLE command

terminalVars == <<allVars, credVars, command>>

TerminalInit == LaunchInit /\ CredInit /\ command \in {"workflow", "credentials"}

\* auth and connect collect no workflow; run reads no credential.
Start ==
    \/ command = "workflow" /\ LaunchNext /\ UNCHANGED <<credVars, command>>
    \/ command = "credentials" /\ CredNext /\ UNCHANGED <<allVars, command>>
TerminalSpec == TerminalInit /\ [][Start]_terminalVars
=============================================================================
