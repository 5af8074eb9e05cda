---------------------------- MODULE MCMessagePort ----------------------------
(* Instances of MessagePort for TLC.                                      *)
EXTENDS MessagePort

CONSTANTS a, b

MCMaxQueries == [c \in Clients |-> IF c = a THEN 2 ELSE 1]
=============================================================================
