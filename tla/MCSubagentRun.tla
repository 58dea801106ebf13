--------------------------- MODULE MCSubagentRun ---------------------------
(* SubagentRun for TLC: the run has no parameters, its whole state space   *)
(* is explored.                                                            *)
EXTENDS SubagentRun
=============================================================================
