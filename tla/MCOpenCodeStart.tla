-------------------------- MODULE MCOpenCodeStart --------------------------
(* Constants of the runs of OpenCodeStart.                                 *)
EXTENDS OpenCodeStart, TLC

CONSTANTS c1, c2, c3
============================================================================
