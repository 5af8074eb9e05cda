------------------------------- MODULE MCMfs -------------------------------
(***************************************************************************)
(* Instances of MFS for TLC.  The tree at the start is a directory /a with *)
(* a file /a/a of two bytes; /b and /a/b are free.                        *)
(***************************************************************************)
EXTENDS MFS, TLC

CONSTANTS c1, c2, c3

MCNames == {"a", "b", "cid"}

MCInitialRoot == AddLink(EmptyDir, "a", AddLink(EmptyDir, "a", File(<<1, 2>>, 0)))

(* A file that was added to the node, outside of the MFS. *)
ImportedFile == File(<<3>>, 0)
MCImported == {ImportedFile}

(* A directory with a file, added in the same way. *)
ImportedDir == AddLink(EmptyDir, "b", ImportedFile)
MCImportedDir == {ImportedDir}

Symmetry == Permutations(Calls)

Plain == [parents |-> FALSE, recursive |-> FALSE, flush |-> TRUE]
WithParents == [Plain EXCEPT !.parents = TRUE]
Recursively == [Plain EXCEPT !.recursive = TRUE]
Unflushed == [Plain EXCEPT !.flush = FALSE]

Ask(op, path, opts) == [op |-> op, loc |-> MfsPath(path), opts |-> opts, timeout |-> FALSE]
AskFrom(op, from, path, opts) ==
  [op |-> op, from |-> from, loc |-> MfsPath(path), opts |-> opts, timeout |-> FALSE]
AskMeta(op, path, opts) ==
  [op |-> op, loc |-> MfsPath(path), meta |-> 1, opts |-> opts, timeout |-> FALSE]
AskWrite(path, offset, create, opts) ==
  [op |-> "write", loc |-> MfsPath(path), offset |-> offset, bytes |-> <<7>>, length |-> 1,
   truncate |-> FALSE, create |-> create, opts |-> opts, timeout |-> FALSE]

(* Writes that overwrite, create, and create with parents, against every   *)
(* other operation on the same paths.                                     *)
MCRequests == {
  AskWrite(<<"a", "a">>, 1, FALSE, Plain),
  AskWrite(<<"a", "b">>, 0, TRUE, Plain),
  AskWrite(<<"b", "a">>, 2, TRUE, WithParents),
  Ask("mkdir", <<"b">>, Plain),
  Ask("mkdir", <<"b", "a">>, WithParents),
  Ask("rm", <<"a">>, Recursively),
  AskFrom("mv", MfsPath(<<"a">>), <<"b">>, Plain),
  AskFrom("mv", MfsPath(<<"a", "a">>), <<"a">>, Plain),
  AskFrom("cp", MfsPath(<<"a", "a">>), <<"b">>, Plain),
  AskFrom("cp", MfsPath(<<"a", "a">>), <<"b", "a">>, WithParents),
  AskFrom("cp", IpfsPath(ImportedFile, <<>>), <<"a">>, Plain),
  AskMeta("touch", <<"a", "b">>, Plain),
  AskMeta("chmod", <<"a", "a">>, Plain),
  AskMeta("chmod", <<"a">>, Recursively),
  Ask("stat", <<"b">>, Plain),
  Ask("flush", <<"b">>, Plain) }

(* A file taken out of an imported directory. *)
MCIpfsMvRequests == {AskFrom("mv", IpfsPath(ImportedDir, <<"b">>), <<"b">>, Plain)}

(* Calls that may time out: one of each kind that behaves in its own way,  *)
(* and two that do not flush: rm leaves out the directories above, mkdir   *)
(* does not find the one it has built.                                    *)
Timed(r) == [r EXCEPT !.timeout = TRUE]

MCTimedRequests == {
  Timed(AskWrite(<<"a", "a">>, 1, FALSE, Plain)),
  Timed(AskWrite(<<"b", "a">>, 2, TRUE, WithParents)),
  Timed(Ask("mkdir", <<"b", "a">>, WithParents)),
  Timed(Ask("rm", <<"a">>, Recursively)),
  Timed(Ask("rm", <<"a", "a">>, Unflushed)),
  Timed(Ask("mkdir", <<"b">>, Unflushed)),
  Timed(AskFrom("mv", MfsPath(<<"a">>), <<"b">>, Plain)),
  Timed(AskMeta("chmod", <<"a">>, Recursively)),
  Timed(Ask("stat", <<"b">>, Plain)) }

(* The theorems of MfsProofs are about these instances.                    *)
ASSUME MCMfsAssumption ==
  /\ WholeTrees /\ Shallow
  /\ Requests # MCTimedRequests => AllFlush
  /\ Requests # MCIpfsMvRequests => InTheMfs
  /\ Requests = MCRequests => NoTimeouts
=============================================================================
