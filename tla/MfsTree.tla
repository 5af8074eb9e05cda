------------------------------ MODULE MfsTree ------------------------------
(***************************************************************************)
(* The tree of the mutable file system and what one step of an operation  *)
(* of components/files/ makes of it.                                      *)
(*                                                                        *)
(* A CID is the hash of a node and of everything below it, so a node is   *)
(* its own CID here: two nodes are equal exactly if their CIDs are.  A    *)
(* directory that is sharded (HAMT) has the same entries as a flat one;   *)
(* the sharding is not modelled.  What touch and chmod set is one number, *)
(* `meta`; that addLink moves the time of a directory which has one to the *)
(* present is left out.                                                   *)
(***************************************************************************)
EXTENDS Naturals, Sequences, FiniteSets, SequencesExt, FiniteSetsExt

CONSTANTS
  Names,      \* the names of directory entries
  CidName,    \* the name among them that is the text of a CID
  MaxDepth    \* bound: how deep a tree is looked at

ASSUME MfsTreeAssumption ==
  /\ CidName \in Names
  /\ MaxDepth \in Nat

Paths == UNION {[1 .. n -> Names] : n \in 0 .. MaxDepth}

NoEntries == [n \in {} |-> 0]

NewNode(type, data, meta) ==
  [type |-> type, data |-> data, meta |-> meta, links |-> NoEntries]

NoNode == NewNode("none", <<>>, 0)
EmptyDir == NewNode("directory", <<>>, 0)
File(data, meta) == NewNode("file", data, meta)

Exists(node) == node # NoNode
IsDirectory(node) == node.type = "directory"

-----------------------------------------------------------------------------
(* Walking and rebuilding                                                 *)

(* The exporter looks a name up in the links of a node of any type. *)
Child(node, name) == IF name \in DOMAIN node.links THEN node.links[name] ELSE NoNode

(* utils/to-trail.js: the nodes from the base down to the end of the path. *)
ToTrail(base, path) ==
  LET trail[n \in 0 .. Len(path)] ==
        IF n = 0 THEN base ELSE Child(trail[n - 1], path[n])
  IN  trail

At(node, path) == ToTrail(node, path)[Len(path)]

Prefix(path, n) == SubSeq(path, 1, n)

(* Faulty variant: a directory that is rebuilt loses its other entries. *)
FaultyAddLink(parent, name, node) ==
  [parent EXCEPT !.links = [n \in {name} |-> node]]

(* utils/add-link.js: an entry of that name is replaced.  The type of the *)
(* parent is not looked at.                                               *)
AddLink(parent, name, node) ==
  [parent EXCEPT !.links =
     [n \in DOMAIN parent.links \cup {name} |-> IF n = name THEN node ELSE parent.links[n]]]

(* utils/remove-link.js *)
RemoveLink(parent, name) ==
  [parent EXCEPT !.links = [n \in DOMAIN parent.links \ {name} |-> parent.links[n]]]

(* utils/update-tree.js: the nodes of the trail from its end, `last`,      *)
(* backwards, each with a link to the new version of the one below it.    *)
UpdateTree(trail, path, last) ==
  LET rebuilt[n \in 0 .. Len(path)] ==
        IF n = Len(path) THEN last ELSE AddLink(trail[n], path[n + 1], rebuilt[n + 1])
  IN  rebuilt

(* Every node of a tree, by its depth, up to MaxDepth. *)
Children(node) == {node.links[name] : name \in DOMAIN node.links}

NodesDownTo(node) ==
  LET down[depth \in 0 .. MaxDepth] ==
        IF depth = 0 THEN {node}
        ELSE down[depth - 1] \cup UNION {Children(n) : n \in down[depth - 1]}
  IN  down

NodesOf(node) == NodesDownTo(node)[MaxDepth]

(* utils/to-mfs-path.js: a location is a path in the MFS, or below a CID   *)
(* (/ipfs/<cid>/...), which then is the base of its trail.                *)
MfsPath(path) == [cid |-> NoNode, path |-> path]
IpfsPath(cid, path) == [cid |-> cid, path |-> path]

Base(root, loc) == IF Exists(loc.cid) THEN loc.cid ELSE root
Resolve(root, loc) == At(Base(root, loc), loc.path)
Directory(loc) == [loc EXCEPT !.path = Front(loc.path)]

(* The name of what is at a location: for /ipfs/<cid>, the CID. *)
NameOf(loc) == IF loc.path = <<>> THEN CidName ELSE Last(loc.path)

-----------------------------------------------------------------------------
(* Effects.  What a step of an operation does when it has read the root:  *)
(*   "fail"    it throws                                                  *)
(*   "skip"    it is over, there was nothing to do                        *)
(*   "expand"  other steps take its place                                 *)
(*   "commit"  `root` is the new root                                     *)
(* `put` are the blocks it stores on the way, `reads` those it reads back. *)

NoEffect(kind) == [kind |-> kind, root |-> NoNode, put |-> {}, reads |-> {}, steps |-> <<>>]

Fails == NoEffect("fail")
Skips == NoEffect("skip")
Expands(steps, put) == [NoEffect("expand") EXCEPT !.steps = steps, !.put = put]

(* Faulty variant: the rebuilt directories of the trail are not stored. *)
FaultyCommits(base, dir, updated, put, flush) ==
  LET trail == ToTrail(base, dir)
      rebuilt == UpdateTree(trail, dir, updated)
  IN  [NoEffect("commit") EXCEPT
         !.root = rebuilt[0],
         !.put = put,
         !.reads = {trail[n] : n \in 0 .. Len(dir) - 1} \cup {updated}]

(* Replace the directory at `dir` by `updated` and the trail above it.    *)
(* updateTree reads the block of every node of the trail, the updated one *)
(* first, and addLink stores what it builds only when flush is set.       *)
Commits(base, dir, updated, put, flush) ==
  LET trail == ToTrail(base, dir)
      rebuilt == UpdateTree(trail, dir, updated)
      above == {rebuilt[n] : n \in 0 .. Len(dir) - 1}
  IN  [NoEffect("commit") EXCEPT
         !.root = rebuilt[0],
         !.put = put \cup (IF flush THEN above ELSE {}),
         !.reads = {trail[n] : n \in 0 .. Len(dir) - 1} \cup {updated}]

-----------------------------------------------------------------------------
(* Steps.  A call is a sequence of them; each one reads the root afresh.  *)

LinkStep(loc, node, checkType, opts) ==
  [op |-> "link", loc |-> loc, node |-> node, checkType |-> checkType, opts |-> opts]
MkdirStep(loc, opts) == [op |-> "mkdir", loc |-> loc, opts |-> opts]
EnsureDirStep(loc, opts) == [op |-> "ensureDir", loc |-> loc, opts |-> opts]
StatStep(loc) == [op |-> "stat", loc |-> loc]
RmStep(loc, opts) == [op |-> "rm", loc |-> loc, opts |-> opts]
CpStep(from, to, opts) == [op |-> "cp", from |-> from, loc |-> to, opts |-> opts]
TouchStep(loc, meta, opts) == [op |-> "touch", loc |-> loc, meta |-> meta, opts |-> opts]
ChmodStep(loc, meta, opts) == [op |-> "chmod", loc |-> loc, meta |-> meta, opts |-> opts]

(* mkdir.js: the missing directories of the path are added below the last *)
(* component that exists, whatever its type.                              *)
MkdirEffect(root, s) ==
  LET path == s.loc.path
      missing == {n \in 1 .. Len(path) : ~Exists(At(root, Prefix(path, n)))}
      first == Min(missing)
      above == Prefix(path, first - 1)
      below == SubSeq(path, first + 1, Len(path))
      chain == UpdateTree([n \in 0 .. Len(below) |-> EmptyDir], below, EmptyDir)
      parent == At(root, above)
      updated == AddLink(parent, path[first], chain[0])
      firstVersion == AddLink(parent, path[first], EmptyDir)
      stored == {chain[n] : n \in 0 .. Len(below)} \cup {firstVersion, updated}
      effect == Commits(root, above, updated, IF s.opts.flush THEN stored ELSE {}, s.opts.flush)
  IN  CASE missing = {} -> IF s.opts.parents THEN Skips ELSE Fails
        [] missing # {} /\ first < Len(path) /\ ~s.opts.parents -> Fails
        [] OTHER -> [effect EXCEPT !.reads = (@ \ {updated}) \cup {firstVersion, EmptyDir}]

(* rm.js removePath: the directory that holds the entry is stored whatever *)
(* flush says (utils/remove-link.js), those above it are not.             *)
RmEffect(root, s) ==
  LET base == Base(root, s.loc)
      child == Resolve(root, s.loc)
      dir == Front(s.loc.path)
      updated == RemoveLink(At(base, dir), Last(s.loc.path))
  IN  CASE s.loc.path = <<>> -> Fails
        [] s.loc.path # <<>> /\ ~Exists(child) -> Fails
        [] s.loc.path # <<>> /\ IsDirectory(child) /\ ~s.opts.recursive -> Fails
        [] OTHER -> Commits(base, dir, updated, {updated}, s.opts.flush)

(* The directory of `loc` gets an entry for `node`: the end of cp, touch,  *)
(* chmod and write.  Only write looks at the type of the directory.       *)
LinkEffect(root, s) ==
  LET base == Base(root, s.loc)
      dir == Front(s.loc.path)
      parent == At(base, dir)
      updated == AddLink(parent, Last(s.loc.path), s.node)
  IN  CASE s.loc.path = <<>> -> Fails
        [] s.loc.path # <<>> /\ ~Exists(parent) -> Fails
        [] s.loc.path # <<>> /\ s.checkType /\ ~IsDirectory(parent) -> Fails
        [] OTHER -> Commits(base, dir, updated, IF s.opts.flush THEN {updated} ELSE {}, s.opts.flush)

(* cp.js, one source.  Into a directory that exists the source goes under *)
(* its own name, over an entry of that name; the CID of the source is the *)
(* one read before mkdir made the missing directories.                    *)
CpEffect(root, s) ==
  LET source == Resolve(root, s.from)
      target == Resolve(root, s.loc)
      into == [s.loc EXCEPT !.path = Append(@, NameOf(s.from))]
      link(loc) == LinkStep(loc, source, FALSE, s.opts)
      folderMissing == s.loc.path # <<>> /\ ~Exists(Resolve(root, Directory(s.loc)))
  IN  CASE ~Exists(source) \/ (Exists(target) /\ ~IsDirectory(target)) -> Fails
        [] Exists(source) /\ IsDirectory(target) ->
             IF s.from = MfsPath(<<>>) THEN Fails ELSE LinkEffect(root, link(into))
        [] Exists(source) /\ ~Exists(target) /\ folderMissing ->
             IF s.opts.parents
               THEN Expands(<<MkdirStep(Directory(s.loc), s.opts), link(s.loc)>>, {})
               ELSE Fails
        [] OTHER -> LinkEffect(root, link(s.loc))

(* touch.js: what is not there becomes an empty file. *)
TouchEffect(root, s) ==
  LET node == Resolve(root, s.loc)
      touched == IF Exists(node) THEN [node EXCEPT !.meta = s.meta] ELSE File(<<>>, s.meta)
      effect == LinkEffect(root, LinkStep(s.loc, touched, FALSE, s.opts))
  IN  IF s.opts.flush THEN [effect EXCEPT !.put = @ \cup {touched}] ELSE effect

(* The tree below a node with the mode of every node of it changed, as far *)
(* down as `height`.                                                      *)
Changed(node, meta) ==
  LET changed[height \in 0 .. MaxDepth] ==
        [n \in NodesOf(node) |->
           [n EXCEPT !.meta = meta,
                     !.links = IF height = 0 THEN @
                               ELSE [name \in DOMAIN @ |-> changed[height - 1][@[name]]]]]
  IN  changed

WithMeta(node, meta) == Changed(node, meta)[MaxDepth][node]

(* chmod.js: recursively, the changed tree is stored, the old one removed *)
(* and the new one copied in its place from its CID.                      *)
ChmodEffect(root, s) ==
  LET node == Resolve(root, s.loc)
      changed == IF s.opts.recursive THEN WithMeta(node, s.meta) ELSE [node EXCEPT !.meta = s.meta]
      effect == LinkEffect(root, LinkStep(s.loc, changed, FALSE, s.opts))
  IN  CASE ~Exists(node) -> Fails
        [] Exists(node) /\ s.opts.recursive ->
             Expands(<<RmStep(s.loc, s.opts), CpStep(IpfsPath(changed, <<>>), s.loc, s.opts)>>,
                     NodesOf(changed))
        [] OTHER -> IF s.opts.flush THEN [effect EXCEPT !.put = @ \cup {changed}] ELSE effect

(* write.js updateOrImport: stat of the containing directory and, if it is *)
(* not there, mkdir, before the link is set.                              *)
EnsureDirEffect(root, s) ==
  IF Exists(Resolve(root, s.loc)) THEN Skips ELSE Expands(<<MkdirStep(s.loc, s.opts)>>, {})

(* stat.js, and flush.js, which is a stat under the write lock: the nodes  *)
(* of the trail are read, nothing is stored.                              *)
StatEffect(root, s) ==
  LET trail == ToTrail(Base(root, s.loc), s.loc.path)
  IN  IF Exists(Resolve(root, s.loc))
        THEN [Skips EXCEPT !.reads = {trail[n] : n \in 0 .. Len(s.loc.path)}]
        ELSE Fails

Effect(root, s) ==
  CASE s.op = "mkdir" -> MkdirEffect(root, s)
    [] s.op = "rm" -> RmEffect(root, s)
    [] s.op = "link" -> LinkEffect(root, s)
    [] s.op = "cp" -> CpEffect(root, s)
    [] s.op = "touch" -> TouchEffect(root, s)
    [] s.op = "chmod" -> ChmodEffect(root, s)
    [] s.op = "ensureDir" -> EnsureDirEffect(root, s)
    [] s.op = "stat" -> StatEffect(root, s)

-----------------------------------------------------------------------------
(* write.js write(): the bytes of the new file, from those of the file    *)
(* that was at the path when the call read it.                            *)

Zeros(n) == [i \in 1 .. n |-> 0]
Take(bytes, n) == SubSeq(bytes, 1, IF n < Len(bytes) THEN n ELSE Len(bytes))

Overlay(old, w) ==
  LET kept == Take(old, w.offset)
      head == kept \o Zeros(w.offset - Len(kept)) \o Take(w.bytes, w.length)
  IN  head \o (IF w.truncate THEN <<>> ELSE SubSeq(old, Len(head) + 1, Len(old)))

(* mfsWrite: what it checks with the paths it read under the read lock. *)
WriteAllowed(root, w) ==
  /\ w.loc.path # <<>>
  /\ w.opts.parents \/ Exists(Resolve(root, Directory(w.loc)))
  /\ w.create \/ Exists(Resolve(root, w.loc))
  /\ Resolve(root, w.loc).type \in {"file", "none"}

Written(root, w) ==
  LET old == Resolve(root, w.loc)
  IN  File(Overlay(old.data, w), old.meta)
=============================================================================
