---------------------------- MODULE MCAgentPanel ----------------------------
(* Instances of AgentPanel for TLC. *)
EXTENDS AgentPanel
=============================================================================
