---------------------------- MODULE MCAgentClient ----------------------------
(* AgentClient has no constants: its state space is finite as it is.      *)
EXTENDS AgentClient
=============================================================================
