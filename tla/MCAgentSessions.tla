-------------------------- MODULE MCAgentSessions --------------------------
(* Constants of the runs of AgentSessions.                                 *)
EXTENDS AgentSessions, TLC

CONSTANTS s1, s2, b1, b2, t1, t2
============================================================================
