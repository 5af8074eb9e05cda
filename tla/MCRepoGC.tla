------------------------------ MODULE MCRepoGC ------------------------------
(***************************************************************************)
(* Instances of RepoGC for TLC.  The MFS root r0 holds the block x; the    *)
(* next root r1 holds x and y; the file f a user adds has the block y, too. *)
(***************************************************************************)
EXTENDS RepoGC, TLC

CONSTANTS r0, r1, f, x, y, c1, c2, c3

MCCids == {r0, r1, f, x, y}
MCDag ==
  [cid \in MCCids |-> CASE cid = r0 -> {r0, x}
                        [] cid = r1 -> {r1, x, y}
                        [] cid = f -> {f, y}
                        [] OTHER -> {cid}]

Symmetry == Permutations(Calls)

Gc == [op |-> "gc"]
Mfs(root) == [op |-> "mfs", cid |-> root]
Put(cid, bs, pin, lock) == [op |-> "put", cid |-> cid, blocks |-> bs, pin |-> pin, lock |-> lock]
PinAdd(cid, recursive, lock) ==
  [op |-> "pinAdd", cid |-> cid, recursive |-> recursive, lock |-> lock]
PinRm(cid, recursive) == [op |-> "pinRm", cid |-> cid, recursive |-> recursive]
BlockRm(cid) == [op |-> "blockRm", cid |-> cid]

(* add; block.put without a pin, so unlocked; pin.add as it is called by    *)
(* default, without the lock, recursive and direct; an unpin of the root.  *)
MCRequests == {
  Gc, Mfs(r1),
  Put(f, {f, y}, TRUE, TRUE), Put(y, {y}, FALSE, FALSE),
  PinAdd(f, TRUE, FALSE), PinAdd(f, FALSE, FALSE),
  PinRm(f, TRUE), PinRm(f, FALSE), PinRm(r0, TRUE), BlockRm(f) }

(* A gc and a change of the MFS. *)
MCMfsRequests == {Gc, Mfs(r1)}
=============================================================================
