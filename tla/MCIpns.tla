------------------------------- MODULE MCIpns -------------------------------
(* Instances of Ipns for TLC: two keys, "self" and "other", and two paths. *)
EXTENDS Ipns

CONSTANTS c1, c2, a, b, self, other

MCOwnKeys == <<self, other>>

(* Elsewhere the two names have been made to stand for each other. *)
MCInitialRoutings ==
  {[k \in Keys |-> IF k = self THEN [value |-> other, seq |-> 1] ELSE [value |-> self, seq |-> 0]]}

Publication(key, value) == [op |-> "publish", key |-> key, value |-> value]
Resolution(key, recursive) ==
  [op |-> "resolve", key |-> key, recursive |-> recursive, nocache |-> FALSE]

(* Two values of the name of the node, and both kinds of resolve. *)
MCRequests ==
  {Publication(self, a), Publication(self, b), Resolution(other, TRUE), Resolution(self, FALSE)}
=============================================================================
