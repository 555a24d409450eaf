---------------------------- MODULE MCAgentDriver ----------------------------
(* Model-checking instance of AgentDriver. *)
EXTENDS AgentDriver

=============================================================================
