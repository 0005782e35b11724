----------------------------- MODULE MCPeriodic -----------------------------
(* PeriodicTasks on a small instance: the unique lock outlives one period, as in  *)
(* config.yaml, and the deadline two.                                             *)
EXTENDS PeriodicTasks

CONSTANTS p1, p2
=============================================================================
