----------------------------- MODULE AtomicMfs -----------------------------
(***************************************************************************)
(* What components/files/index.js promises of the mutable file system:    *)
(* operations "execute in series".  A call has a list of steps to do; each *)
(* step is one indivisible change of the tree as it is at that moment.    *)
(* MFS.tla, where a step is many reads and writes, is shown to implement  *)
(* this as long as no call times out.                                     *)
(***************************************************************************)
EXTENDS Sequences

CONSTANTS
  Calls,
  InitialRoot,
  Effect(_, _)  \* what a step does to a tree, see MfsTree.tla

VARIABLES
  tree,   \* the file system
  todo    \* the steps each call has still to do

Init ==
  /\ tree = InitialRoot
  /\ todo = [c \in Calls |-> <<>>]

(* A call without steps gets some. *)
Submit(c) ==
  /\ todo[c] = <<>>
  /\ todo' = [todo EXCEPT ![c] = todo'[c]]
  /\ UNCHANGED tree

(* The first step of a call is applied to the tree as it is now. *)
Apply(c) ==
  LET effect == Effect(tree, Head(todo[c]))
  IN  /\ todo[c] # <<>>
      /\ \/ /\ effect.kind = "commit"
            /\ tree' = effect.root
            /\ todo' = [todo EXCEPT ![c] = Tail(@)]
         \/ /\ effect.kind = "skip"
            /\ todo' = [todo EXCEPT ![c] = Tail(@)]
            /\ UNCHANGED tree
         \/ /\ effect.kind = "expand"
            /\ todo' = [todo EXCEPT ![c] = effect.steps \o Tail(@)]
            /\ UNCHANGED tree

(* A call fails: the steps it has left are not done. *)
Abandon(c) ==
  /\ todo' = [todo EXCEPT ![c] = <<>>]
  /\ UNCHANGED tree

(* The process dies: all calls are abandoned, the tree stays. *)
AbandonAll ==
  /\ todo' = [c \in Calls |-> <<>>]
  /\ UNCHANGED tree

Next ==
  \/ \E c \in Calls : Submit(c) \/ Apply(c) \/ Abandon(c)
  \/ AbandonAll

Spec == Init /\ [][Next]_<<tree, todo>>
=============================================================================
