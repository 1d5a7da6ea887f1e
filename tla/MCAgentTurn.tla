---------------------------- MODULE MCAgentTurn -----------------------------
(* Small instances of AgentTurn: a read and a write on each executor.       *)
EXTENDS AgentTurn

=============================================================================
