--------------------------- MODULE MCAgentExecutor ---------------------------
(* TLC instances of AgentExecutor: see executor.cfg and executor_advance.cfg. *)
EXTENDS AgentExecutor
=============================================================================
