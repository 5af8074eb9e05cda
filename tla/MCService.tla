----------------------------- MODULE MCService -----------------------------
(* The instance of Service that TLC checks: tasks as model values.        *)
EXTENDS Service

CONSTANTS c1, c2, c3
=============================================================================
