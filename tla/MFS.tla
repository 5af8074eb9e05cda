-------------------------------- MODULE MFS --------------------------------
(***************************************************************************)
(* components/files/: the mutable file system.  The datastore holds the   *)
(* CID of its root; an operation reads it, builds new nodes up to a new   *)
(* root, stores their blocks and replaces the CID.                        *)
(*                                                                        *)
(* What keeps operations apart is one read/write lock (mortice).  All but *)
(* write hold it for the whole operation.  write takes it twice: to look  *)
(* at the path, then to link the file it has imported meanwhile.  A call  *)
(* may carry a timeout, which answers the caller (and so lets the wrapper *)
(* release the lock) while the operation itself goes on.                  *)
(*                                                                        *)
(* A call goes through: begin, [read section, import,] wait for the lock, *)
(* then for each of its steps read the root, build, check the signal, put *)
(* the new root.                                                          *)
(***************************************************************************)
EXTENDS MfsTree, Mortice

CONSTANTS
  Calls,        \* the calls that are made, each one at most once
  Requests,     \* what they may ask for
  InitialRoot,  \* the tree at the start
  Imported,     \* nodes outside of it that the blockstore has at the start
  MayCrash      \* whether the process may die and be started again

ASSUME MfsAssumption ==
  \A r \in Requests :
    r.op \in {"stat", "flush", "write", "mkdir", "rm", "cp", "mv", "touch", "chmod"}

VARIABLES
  root,     \* what the datastore holds under MFS_ROOT_KEY
  blocks,   \* the blockstore
  queue,    \* the batches of the lock's queue; the first one holds the lock
  at,       \* where each call is
  request,  \* what it asks for
  steps,    \* the steps it has still to do
  base,     \* the root that it has read last
  outcome,  \* what its caller knows
  stray,    \* history: whether a root was put by a call that had lost the lock
  leftOut   \* history: the nodes of the roots that unflushed calls have put without storing them

callVars == <<at, request, steps, base, outcome>>
vars == <<root, blocks, queue, callVars, stray, leftOut>>

Phases == {"idle", "read", "import", "wait", "load", "check", "put"}
Outcomes == {"none", "pending", "ok", "failed", "timeout", "crashed"}

NoRequest == [op |-> "none"]

(* The phases between the acquisition of the write lock and its release. *)
Inside(c) == at[c] \in {"load", "check", "put"}

(* The signal of a call under way is aborted once its timer has gone off. *)
Aborted(c) == outcome[c] = "timeout"

Init ==
  /\ root = InitialRoot
  /\ blocks = NodesOf(InitialRoot) \cup UNION {NodesOf(n) : n \in Imported}
  /\ queue = <<>>
  /\ at = [c \in Calls |-> "idle"]
  /\ request = [c \in Calls |-> NoRequest]
  /\ steps = [c \in Calls |-> <<>>]
  /\ base = [c \in Calls |-> NoNode]
  /\ outcome = [c \in Calls |-> "none"]
  /\ stray = FALSE
  /\ leftOut = {}

-----------------------------------------------------------------------------
(* Faulty variant: no finally clause, a call that fails keeps the lock. *)
FaultyEnds(c, result) ==
  /\ at' = [at EXCEPT ![c] = "idle"]
  /\ steps' = [steps EXCEPT ![c] = <<>>]
  /\ base' = [base EXCEPT ![c] = NoNode]
  /\ outcome' = [outcome EXCEPT ![c] = IF Aborted(c) THEN "timeout" ELSE result]
  /\ queue' = IF result = "failed" THEN queue ELSE Released(queue, c)
  /\ UNCHANGED request

(* A call ends: the finally clause of the lock wrapper releases the lock.  *)
(* The caller of a call that has timed out has its answer already.        *)
Ends(c, result) ==
  /\ at' = [at EXCEPT ![c] = "idle"]
  /\ steps' = [steps EXCEPT ![c] = <<>>]
  /\ base' = [base EXCEPT ![c] = NoNode]
  /\ outcome' = [outcome EXCEPT ![c] = IF Aborted(c) THEN "timeout" ELSE result]
  /\ queue' = Released(queue, c)
  /\ UNCHANGED request

(* Faulty variant: the call goes on after its last step. *)
FaultyStepDone(c) ==
  /\ steps' = [steps EXCEPT ![c] = Tail(@)]
  /\ at' = [at EXCEPT ![c] = "load"]
  /\ UNCHANGED <<queue, request, base, outcome>>

(* The first step is over; with the last one the call ends. *)
StepDone(c) ==
  IF Len(steps[c]) = 1
    THEN Ends(c, "ok")
    ELSE /\ steps' = [steps EXCEPT ![c] = Tail(@)]
         /\ at' = [at EXCEPT ![c] = "load"]
         /\ UNCHANGED <<queue, request, base, outcome>>

(* Faulty variant: mv removes the source before it copies it from its CID. *)
FaultyStepsOf(r) ==
  CASE r.op = "mkdir" -> <<MkdirStep(r.loc, r.opts)>>
    [] r.op = "rm"    -> <<RmStep(r.loc, r.opts)>>
    [] r.op = "cp"    -> <<CpStep(r.from, r.loc, r.opts)>>
    [] r.op = "mv"    -> <<RmStep(r.from, [r.opts EXCEPT !.recursive = TRUE]),
                           CpStep(IpfsPath(Resolve(root, r.from), <<>>), r.loc, r.opts)>>
    [] r.op = "touch" -> <<TouchStep(r.loc, r.meta, r.opts)>>
    [] r.op = "chmod" -> <<ChmodStep(r.loc, r.meta, r.opts)>>
    [] r.op = "flush" -> <<StatStep(r.loc)>>

(* The steps of the operations that are locked as a whole (and mv.js). *)
StepsOf(r) ==
  CASE r.op = "mkdir" -> <<MkdirStep(r.loc, r.opts)>>
    [] r.op = "rm"    -> <<RmStep(r.loc, r.opts)>>
    [] r.op = "cp"    -> <<CpStep(r.from, r.loc, r.opts)>>
    [] r.op = "mv"    -> <<CpStep(r.from, r.loc, r.opts),
                           RmStep(r.from, [r.opts EXCEPT !.recursive = TRUE])>>
    [] r.op = "touch" -> <<TouchStep(r.loc, r.meta, r.opts)>>
    [] r.op = "chmod" -> <<ChmodStep(r.loc, r.meta, r.opts)>>
    [] r.op = "flush" -> <<StatStep(r.loc)>>

(* index.js: stat is read-locked, write begins with a read section, the    *)
(* other operations queue for the write lock.                             *)
Begin(c, r) ==
  /\ outcome[c] = "none"
  /\ outcome' = [outcome EXCEPT ![c] = "pending"]
  /\ request' = [request EXCEPT ![c] = r]
  /\ \/ /\ r.op \in {"stat", "write"}
        /\ queue' = QueueRead(queue, c)
        /\ at' = [at EXCEPT ![c] = "read"]
        /\ UNCHANGED steps
     \/ /\ r.op \notin {"stat", "write"}
        /\ queue' = QueueWrite(queue, c)
        /\ at' = [at EXCEPT ![c] = "wait"]
        /\ steps' = [steps EXCEPT ![c] = StepsOf(r)]
  /\ UNCHANGED <<root, blocks, base, stray, leftOut>>

(* stat, under the read lock. *)
Stat(c) ==
  /\ at[c] = "read" /\ request[c].op = "stat" /\ ReadHeld(queue, c)
  /\ \E effect \in {StatEffect(root, request[c])} :
       Ends(c, IF effect.kind = "skip" /\ effect.reads \subseteq blocks THEN "ok" ELSE "failed")
  /\ UNCHANGED <<root, blocks, stray, leftOut>>

(* mfsWrite: the paths are read and checked under the read lock, which is  *)
(* released before the file is imported.                                  *)
ReadDestination(c) ==
  /\ at[c] = "read" /\ request[c].op = "write" /\ ReadHeld(queue, c)
  /\ \/ /\ Aborted(c) \/ ~WriteAllowed(root, request[c])
        /\ Ends(c, "failed")
     \/ /\ ~Aborted(c) /\ WriteAllowed(root, request[c])
        /\ queue' = Released(queue, c)
        /\ at' = [at EXCEPT ![c] = "import"]
        /\ base' = [base EXCEPT ![c] = root]
        /\ UNCHANGED <<request, steps, outcome>>
  /\ UNCHANGED <<root, blocks, stray, leftOut>>

(* write(): the importer stores the new file, built over the one that was  *)
(* there when the path was read; then the call queues for the write lock. *)
Import(c) ==
  LET r == request[c]
      file == Written(base[c], r)
  IN  /\ at[c] = "import"
      /\ blocks' = blocks \cup {file}
      /\ queue' = QueueWrite(queue, c)
      /\ at' = [at EXCEPT ![c] = "wait"]
      /\ steps' = [steps EXCEPT ![c] =
           <<EnsureDirStep(Directory(r.loc), r.opts), LinkStep(r.loc, file, TRUE, r.opts)>>]
      /\ UNCHANGED <<root, request, base, outcome, stray, leftOut>>

(* Faulty variant: the call does not wait for its turn. *)
FaultyEnter(c) ==
  /\ at[c] = "wait"
  /\ at' = [at EXCEPT ![c] = "load"]
  /\ UNCHANGED <<root, blocks, queue, request, steps, base, outcome, stray, leftOut>>

(* The write lock is granted. *)
Enter(c) ==
  /\ at[c] = "wait"
  /\ WriteHeld(queue, c)
  /\ at' = [at EXCEPT ![c] = "load"]
  /\ UNCHANGED <<root, blocks, queue, request, steps, base, outcome, stray, leftOut>>

(* A step reads the root, and throws if the call was aborted; it builds and *)
(* stores new nodes, and throws if it needs a block that is not there (when *)
(* the node is online it waits for the block instead).                    *)
LoadAborted(c) ==
  /\ at[c] = "load" /\ Aborted(c)
  /\ Ends(c, "failed")
  /\ UNCHANGED <<root, blocks, stray, leftOut>>

LoadFrom(c, seen) ==
  /\ at[c] = "load" /\ ~Aborted(c)
  /\ \E effect \in {Effect(seen, Head(steps[c]))} :
       /\ blocks' = blocks \cup effect.put
       /\ \/ /\ effect.kind = "fail" \/ ~(effect.reads \subseteq blocks')
             /\ Ends(c, "failed")
          \/ /\ effect.kind = "skip" /\ effect.reads \subseteq blocks'
             /\ StepDone(c)
          \/ /\ effect.kind = "expand"
             /\ steps' = [steps EXCEPT ![c] = effect.steps \o Tail(@)]
             /\ UNCHANGED <<queue, at, request, base, outcome>>
          \/ /\ effect.kind = "commit" /\ effect.reads \subseteq blocks'
             /\ at' = [at EXCEPT ![c] = "check"]
             /\ base' = [base EXCEPT ![c] = seen]
             /\ UNCHANGED <<queue, request, steps, outcome>>
  /\ UNCHANGED <<root, stray, leftOut>>

(* Faulty variant: a call does all its steps from the root it read first. *)
FaultyLoad(c) == LoadFrom(c, IF base[c] = NoNode THEN root ELSE base[c])

(* with-mfs-root.js: each step reads the root anew. *)
Load(c) == LoadFrom(c, root)

(* updateMfsRoot: it throws if the call was aborted, otherwise the put of  *)
(* the new root is under way.                                             *)
Check(c) ==
  /\ at[c] = "check"
  /\ \/ /\ Aborted(c)
        /\ Ends(c, "failed")
     \/ /\ ~Aborted(c)
        /\ at' = [at EXCEPT ![c] = "put"]
        /\ UNCHANGED <<queue, request, steps, base, outcome>>
  /\ UNCHANGED <<root, blocks, stray, leftOut>>

(* The datastore has the new root, the one that was built from `base`.      *)
(* What an unflushed call has built of it may not be in the blockstore.   *)
Put(c) ==
  /\ at[c] = "put"
  /\ root' = Effect(base[c], Head(steps[c])).root
  /\ stray' = (stray \/ ~Held(queue, c))
  /\ leftOut' = leftOut \cup (IF Head(steps[c]).opts.flush THEN {} ELSE NodesOf(root') \ blocks)
  /\ StepDone(c)
  /\ UNCHANGED blocks

-----------------------------------------------------------------------------
(* withTimeoutOption: the caller gets a TimeoutError and the signal is set. *)
(* The wrapper of index.js takes the lock outside of it: the wrapper has   *)
(* its answer now and releases.  write keeps the lock until it is through. *)
Timeout(c) ==
  /\ outcome[c] = "pending" /\ request[c].timeout
  /\ outcome' = [outcome EXCEPT ![c] = "timeout"]
  /\ \/ /\ request[c].op = "write"
        /\ UNCHANGED queue
     \/ /\ request[c].op # "write" /\ Inside(c)
        /\ queue' = Released(queue, c)
  /\ UNCHANGED <<root, blocks, at, request, steps, base, stray, leftOut>>

(* The mkdir and stat inside write have a timer of their own: when it goes *)
(* off the write is over and releases the lock, the mkdir goes on alone.  *)
NestedTimeout(c) ==
  /\ Aborted(c) /\ request[c].op = "write"
  /\ Inside(c) /\ Held(queue, c)
  /\ Head(steps[c]).op \in {"mkdir", "ensureDir"}
  /\ queue' = Released(queue, c)
  /\ steps' = [steps EXCEPT ![c] = <<Head(@)>>]
  /\ UNCHANGED <<root, blocks, at, request, base, outcome, stray, leftOut>>

(* The process dies: what is in memory is lost.  A put that was under way  *)
(* has happened before (Put) or does not happen.                          *)
Crash ==
  /\ MayCrash
  /\ \E c \in Calls : at[c] # "idle"
  /\ outcome' = [c \in Calls |-> IF outcome[c] = "pending" THEN "crashed" ELSE outcome[c]]
  /\ at' = [c \in Calls |-> "idle"]
  /\ steps' = [c \in Calls |-> <<>>]
  /\ base' = [c \in Calls |-> NoNode]
  /\ queue' = <<>>
  /\ UNCHANGED <<root, blocks, request, stray, leftOut>>

-----------------------------------------------------------------------------

Advance(c) ==
  \/ Stat(c) \/ ReadDestination(c) \/ Import(c) \/ Enter(c)
  \/ LoadAborted(c) \/ Load(c) \/ Check(c) \/ Put(c)

Next ==
  \/ \E c \in Calls :
       \/ \E r \in Requests : Begin(c, r)
       \/ Advance(c) \/ Timeout(c) \/ NestedTimeout(c)
  \/ Crash

Spec == Init /\ [][Next]_vars

(* Every promise an operation awaits settles: the datastore and the        *)
(* blockstore answer, the content to write ends, the lock is granted to    *)
(* the head of its queue.  Making a call, timing out and dying are free.   *)
Fairness == \A c \in Calls : WF_vars(Advance(c))

FairSpec == Spec /\ Fairness

-----------------------------------------------------------------------------
(* Properties                                                             *)

TypeOK ==
  /\ queue \in Seq(Batches(Calls))
  /\ at \in [Calls -> Phases]
  /\ outcome \in [Calls -> Outcomes]
  /\ stray \in BOOLEAN
  /\ DOMAIN request = Calls /\ DOMAIN steps = Calls /\ DOMAIN base = Calls
  /\ \A c \in Calls : Inside(c) => steps[c] # <<>>

(* The tree never dangles: whatever is reachable from the root that the    *)
(* datastore holds is in the blockstore, at every moment a crash or an    *)
(* unlocked reader (ls, read) may see.  Blocks come before the pointer.   *)
(* All that may be missing is what calls with `flush: false` have built   *)
(* and not stored: updateMfsRoot puts their root all the same.            *)
RootIntact == NodesOf(root) \subseteq blocks \cup leftOut

(* index.js: operations "will execute in series".  Two calls are never both *)
(* between the acquisition and the release of the write lock, except when  *)
(* one of them has timed out and so lost the lock before it was through.  *)
InSeries ==
  \A c, d \in Calls : (c # d /\ Inside(c) /\ Inside(d)) => Aborted(c) \/ Aborted(d)

(* No lost update: a root is only replaced by one that was built from it.  *)
(* Exempt is what follows the put of a call that had lost the lock.       *)
NoStaleRoot ==
  \A c \in Calls : (at[c] \in {"check", "put"} /\ ~Aborted(c) /\ ~stray) => base[c] = root

(* Every change of the tree is confined to the path of the call it belongs *)
(* to: what is neither above nor below that path is the same afterwards,   *)
(* and what is above it only changes in its entries.  Nothing is said of   *)
(* the roots that follow one that was put without the lock (stray).       *)
Beside(p, q) == ~IsPrefix(p, q) /\ ~IsPrefix(q, p)

Confined(old, new, path) ==
  \A q \in Paths :
    /\ Beside(q, path) => At(new, q) = At(old, q)
    /\ IsStrictPrefix(q, path) /\ Exists(At(old, q)) =>
         [At(new, q) EXCEPT !.links = NoEntries] = [At(old, q) EXCEPT !.links = NoEntries]

(* mv works under two paths; a copy into a directory adds a name to it. *)
TargetsOf(r) ==
  {r.loc.path} \cup (IF r.op = "mv" THEN {r.from.path} ELSE {})

ChangesAreConfined ==
  [][root' # root =>
       \E c \in Calls :
         /\ at[c] = "put" /\ at'[c] # "put"
         /\ stray' \/ \E path \in TargetsOf(request[c]) : Confined(root, root', path)]_vars

(* A crash in the middle of a mv, or of any call, loses nothing: when mv    *)
(* removes its source, what was there is in the tree under another path.  *)
(* In a directory the copy goes under the name of the source; where that   *)
(* is the source itself, above or below it, mv is exempt: see the README. *)
(* As above nothing is said after a root that was put without the lock.   *)
CopiesBeside(r) == Beside(r.from.path, Append(r.loc.path, NameOf(r.from)))

MvKeepsItsSource ==
  [][\A c \in Calls :
       (/\ at[c] = "put" /\ at'[c] # "put" /\ root' # root /\ ~stray'
        /\ request[c].op = "mv" /\ Head(steps[c]).op = "rm"
        /\ CopiesBeside(request[c]))
         => Resolve(root, request[c].from) \in NodesOf(root')]_vars

(* What the documentation of mv says: its sources "will be removed [...]   *)
(* unless they are an IPFS path".  A mv from below a CID then takes nothing *)
(* away from the tree.                                                    *)
MvFromIpfsRemovesNothing ==
  [][\A c \in Calls :
       (at[c] = "put" /\ root' # root /\ request[c].op = "mv" /\ Exists(request[c].from.cid))
         => \A p \in Paths : Exists(At(root, p)) => Exists(At(root', p))]_vars

(* Every call ends: the lock is always released and handed on. *)
EveryCallEnds == \A c \in Calls : at[c] # "idle" ~> at[c] = "idle"

(* The abstract file system, of which each step changes the tree at once.  *)
Atomic == INSTANCE AtomicMfs WITH tree <- root, todo <- steps

ImplementsAtomicMfs == Atomic!Spec

-----------------------------------------------------------------------------
(* What the theorems of MfsProofs ask of the requests; which of them asks  *)
(* for what is said there.  MCMfs has TLC check that its instances do so. *)

Closed(B) == \A n \in B : "links" \in DOMAIN n /\ Children(n) \subseteq B

KnownLoc(loc, B) ==
  /\ loc = [cid |-> loc.cid, path |-> loc.path]
  /\ loc.cid \in B \cup {NoNode}
  /\ loc.path \in Seq(Names)

(* The trees that there are at the start are in the blockstore as a whole. *)
WholeTrees == \A n \in {InitialRoot} \cup Imported : Closed(NodesOf(n))

(* Every call flushes, as it does unless it is told not to, and names no   *)
(* CID but those of trees that are in the blockstore.                     *)
AllFlush ==
  \A r \in Requests :
    /\ r.opts \in [parents : BOOLEAN, recursive : BOOLEAN, flush : {TRUE}]
    /\ KnownLoc(r.loc, Imported)
    /\ r.op \in {"cp", "mv"} => KnownLoc(r.from, Imported)

(* What a call changes is in the MFS; the source of a copy may be below a   *)
(* CID (that of a mv may not: MvFromIpfsRemovesNothing).                   *)
InTheMfs ==
  \A r \in Requests : r.loc.cid = NoNode /\ (r.op = "mv" => r.from.cid = NoNode)

(* No target of a mv is deeper than a tree is looked at.                   *)
Shallow == \A r \in Requests : r.op = "mv" => Len(r.loc.path) < MaxDepth

NoTimeouts == \A r \in Requests : ~r.timeout
=============================================================================
