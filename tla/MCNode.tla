------------------------------- MODULE MCNode -------------------------------
(* Instances of NodeLifecycle for TLC: tasks as model values.             *)
EXTENDS NodeLifecycle

CONSTANTS t1, t2
=============================================================================
