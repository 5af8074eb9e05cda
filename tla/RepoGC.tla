------------------------------- MODULE RepoGC -------------------------------
(***************************************************************************)
(* Garbage collection against everything that stores, pins and removes    *)
(* blocks: components/repo/gc.js, add-all, dag/put, object/put, block/put *)
(* and block/rm, pin/add-all and pin/rm-all, and the changes of the MFS   *)
(* root (MFS.tla, here one at a time).                                    *)
(*                                                                        *)
(* repo.gcLock keeps them apart: whoever stores and pins holds it for     *)
(* reading, whoever deletes for writing.  The MFS does not take it: gc    *)
(* pins the MFS root for as long as it runs instead.                      *)
(***************************************************************************)
EXTENDS Mortice, FiniteSets

CONSTANTS
  Cids,         \* the blocks there can be
  Dag,          \* Dag[cid]: the CIDs of the whole graph below cid, itself included
  Calls,        \* the calls that are made, each one at most once
  Requests,     \* what they may ask for
  InitialRoot,  \* the MFS root at the start
  InitialPins   \* the CIDs a user has pinned recursively at the start

ASSUME RepoGCAssumption ==
  /\ Dag \in [Cids -> SUBSET Cids]
  /\ \A cid \in Cids : cid \in Dag[cid]
  /\ InitialRoot \in Cids
  /\ InitialPins \subseteq Cids
  /\ \A r \in Requests :
       /\ r.op \in {"put", "pinAdd", "pinRm", "blockRm", "gc", "mfs"}
       /\ r.op # "gc" => r.cid \in Cids
       /\ r.op = "put" =>
            /\ r.blocks \subseteq Cids
            /\ r.pin \in BOOLEAN /\ r.lock \in BOOLEAN /\ (r.pin => r.lock)
       /\ r.op = "pinAdd" => r.lock \in BOOLEAN
       /\ r.op \in {"pinAdd", "pinRm"} => r.recursive \in BOOLEAN

VARIABLES
  blocks,   \* the blockstore
  pins,     \* the pin store
  mfsRoot,  \* the MFS root in the datastore
  queue,    \* the batches of gcLock
  at,       \* where each call is
  request,  \* what it asks for
  todo,     \* the blocks it has still to store, or to look at when it sweeps
  marked,   \* gc: the blocks that were found to be pinned
  loaded,   \* gc: the MFS root it has pinned
  overlap,  \* history: whether a gc ever ran together with what it does not exclude
  safe      \* history: the CIDs that were pinned under the lock

store == <<blocks, pins, mfsRoot>>
history == <<overlap, safe>>
vars == <<store, queue, at, request, todo, marked, loaded, history>>

PinTypes == {"none", "direct", "recursive"}

Phases == {"idle", "wait", "store", "check", "walk", "record", "unpin", "delete",
           "mark", "sweep", "ended"}

NoRequest == [op |-> "none"]

(* What a pin of a type keeps. *)
Need(type, cid) ==
  CASE type = "recursive" -> Dag[cid]
    [] type = "direct" -> {cid}
    [] OTHER -> {}

Kept == UNION {Need(pins[cid], cid) : cid \in Cids}

(* put stands for add-all, dag/import, dag/put, object/put and block/put. *)
(* Which calls take gcLock, and how. *)
TakesReadLock(r) == r.op = "pinRm" \/ (r.op \in {"put", "pinAdd"} /\ r.lock)
Reads(c) == TakesReadLock(request[c])
Writes(c) == request[c].op \in {"blockRm", "gc"}

(* Faulty variant: gc pins the root of the MFS, not what is below it. *)
FaultyPinType(c) == IF request[c].op = "put" THEN "recursive" ELSE "direct"

(* The type of pin a call sets, and the CID it is for. *)
PinType(c) == IF request[c].op = "pinAdd" /\ ~request[c].recursive THEN "direct" ELSE "recursive"
Target(c) == IF request[c].op = "gc" THEN loaded[c] ELSE request[c].cid

Active(c) == at[c] \notin {"idle", "ended"}

(* A gc runs together with another one, with a change of the MFS, or with  *)
(* a call of a user that pins or unpins the very root it has loaded.      *)
Disturbed ==
  \E g, d \in Calls :
    /\ g # d /\ Active(g) /\ Active(d) /\ request[g].op = "gc"
    /\ \/ request[d].op \in {"gc", "mfs"}
       \/ request[d].op \in {"pinAdd", "pinRm"} /\ Target(d) = loaded[g]

Init ==
  /\ blocks = Dag[InitialRoot] \cup UNION {Dag[cid] : cid \in InitialPins}
  /\ pins = [cid \in Cids |-> IF cid \in InitialPins THEN "recursive" ELSE "none"]
  /\ mfsRoot = InitialRoot
  /\ queue = <<>>
  /\ at = [c \in Calls |-> "idle"]
  /\ request = [c \in Calls |-> NoRequest]
  /\ todo = [c \in Calls |-> {}]
  /\ marked = [c \in Calls |-> {}]
  /\ loaded = [c \in Calls |-> InitialRoot]
  /\ overlap = FALSE
  /\ safe = InitialPins

-----------------------------------------------------------------------------
(* A call begins: it waits for the lock if it takes it first.  The MFS's    *)
(* own lock lets one change of the tree in at a time (InSeries of MFS); it *)
(* stores the blocks that the old tree does not have.  gc first reads the  *)
(* MFS root, without any lock.                                            *)
FirstPhase(r) ==
  CASE r.op \in {"put", "pinAdd"} /\ ~r.lock -> IF r.op = "put" THEN "store" ELSE "check"
    [] r.op = "mfs" -> "store"
    [] r.op = "gc" -> "walk"
    [] OTHER -> "wait"

Begin(c, r) ==
  /\ at[c] = "idle"
  /\ r.op = "mfs" => \A d \in Calls : Active(d) => request[d].op # "mfs"
  /\ request' = [request EXCEPT ![c] = r]
  /\ at' = [at EXCEPT ![c] = FirstPhase(r)]
  /\ todo' = [todo EXCEPT ![c] =
       CASE r.op = "put" -> r.blocks
         [] r.op = "mfs" -> Dag[r.cid] \ Dag[mfsRoot]
         [] OTHER -> {}]
  /\ loaded' = [loaded EXCEPT ![c] = mfsRoot]
  /\ queue' = CASE TakesReadLock(r) -> QueueRead(queue, c)
                [] r.op = "blockRm" -> QueueWrite(queue, c)
                [] OTHER -> queue
  /\ overlap' = (overlap \/ Disturbed')
  /\ UNCHANGED <<store, marked, safe>>

(* The lock is granted. *)
Enter(c) ==
  /\ at[c] = "wait"
  /\ IF Writes(c) THEN WriteHeld(queue, c) ELSE ReadHeld(queue, c)
  /\ at' = [at EXCEPT ![c] = CASE request[c].op = "put" -> "store"
                               [] request[c].op = "gc" -> "mark"
                               [] OTHER -> "check"]
  /\ UNCHANGED <<store, queue, request, todo, marked, loaded, history>>

(* A call is over; what it holds of the lock is released. *)
Ends(c) ==
  /\ at' = [at EXCEPT ![c] = "ended"]
  /\ todo' = [todo EXCEPT ![c] = {}]
  /\ queue' = Released(queue, c)
  /\ UNCHANGED <<request, marked, loaded>>

Goes(c, phase) ==
  /\ at' = [at EXCEPT ![c] = phase]
  /\ UNCHANGED <<queue, request, todo, marked, loaded>>

-----------------------------------------------------------------------------
(* Storing and pinning                                                    *)

(* One block is stored, or skipped because it is there (block-storage.js). *)
Store(c) ==
  /\ at[c] = "store"
  /\ \E b \in todo[c] :
       /\ blocks' = blocks \cup {b}
       /\ todo' = [todo EXCEPT ![c] = @ \ {b}]
  /\ UNCHANGED <<pins, mfsRoot, queue, at, request, marked, loaded, history>>

(* Faulty variant: the lock is released before the pin is set. *)
FaultyPutStored(c) ==
  /\ at[c] = "store" /\ todo[c] = {} /\ request[c].op = "put"
  /\ at' = [at EXCEPT ![c] = IF request[c].pin THEN "walk" ELSE "ended"]
  /\ queue' = Released(queue, c)
  /\ UNCHANGED <<store, request, todo, marked, loaded, history>>

(* All blocks are there: the call pins them if it is to, or is over. *)
PutStored(c) ==
  /\ at[c] = "store" /\ todo[c] = {} /\ request[c].op = "put"
  /\ IF request[c].pin THEN Goes(c, "walk") ELSE Ends(c)
  /\ UNCHANGED <<store, history>>

(* updateMfsRoot: the MFS call puts its new root in the datastore. *)
MfsStored(c) ==
  /\ at[c] = "store" /\ todo[c] = {} /\ request[c].op = "mfs"
  /\ mfsRoot' = request[c].cid
  /\ Ends(c)
  /\ UNCHANGED <<blocks, pins, history>>

(* pin/add-all: a recursive pin is not replaced by a direct one. *)
PinAddCheck(c) ==
  /\ at[c] = "check" /\ request[c].op = "pinAdd"
  /\ IF pins[Target(c)] = "recursive" /\ ~request[c].recursive THEN Ends(c) ELSE Goes(c, "walk")
  /\ UNCHANGED <<store, history>>

(* repo.pins.pinRecursively, pinDirectly (external): what is to be pinned   *)
(* is read, and fetched from the network where it is missing; then the pin *)
(* is put in the pin store.                                               *)
Walk(c) ==
  /\ at[c] = "walk"
  /\ blocks' = blocks \cup Need(PinType(c), Target(c))
  /\ Goes(c, "record")
  /\ UNCHANGED <<pins, mfsRoot, history>>

(* gc goes on to the write lock, a call of a user is over.                 *)
Record(c) ==
  LET cid == Target(c)
  IN  /\ at[c] = "record"
      /\ pins' = [pins EXCEPT ![cid] = PinType(c)]
      /\ safe' = CASE Reads(c) -> safe \cup {cid}
                   [] ~Reads(c) /\ pins[cid] = "recursive" -> safe
                   [] OTHER -> safe \ {cid}
      /\ \/ /\ request[c].op = "gc"
            /\ at' = [at EXCEPT ![c] = "wait"]
            /\ queue' = QueueWrite(queue, c)
            /\ UNCHANGED <<request, todo, marked, loaded>>
         \/ /\ request[c].op # "gc"
            /\ Ends(c)
      /\ UNCHANGED <<blocks, mfsRoot, overlap>>

-----------------------------------------------------------------------------
(* Unpinning and deleting                                                 *)

(* pin/rm-all: what is not pinned itself is refused, and so is a recursive *)
(* pin if only a direct one is to be removed.                             *)
PinRmCheck(c) ==
  /\ at[c] = "check" /\ request[c].op = "pinRm"
  /\ IF pins[Target(c)] = "none" \/ (pins[Target(c)] = "recursive" /\ ~request[c].recursive)
       THEN Ends(c) ELSE Goes(c, "unpin")
  /\ UNCHANGED <<store, history>>

(* repo.pins.unpin: at the end of pin/rm-all and in the finally of gc. *)
Unpin(c) ==
  /\ at[c] = "unpin"
  /\ pins' = [pins EXCEPT ![Target(c)] = "none"]
  /\ Ends(c)
  /\ UNCHANGED <<blocks, mfsRoot, overlap, safe>>

(* block/rm: blocks that are missing or pinned are reported, not deleted   *)
(* (the blockstore refuses to delete what is pinned).                     *)
BlockRmCheck(c) ==
  /\ at[c] = "check" /\ request[c].op = "blockRm"
  /\ IF Target(c) \in blocks \ Kept THEN Goes(c, "delete") ELSE Ends(c)
  /\ UNCHANGED <<store, history>>

BlockRmDelete(c) ==
  /\ at[c] = "delete"
  /\ blocks' = blocks \ {Target(c)}
  /\ Ends(c)
  /\ UNCHANGED <<pins, mfsRoot, history>>

(* repo.gc (external), under the write lock: find out what is pinned, then *)
(* delete block by block what is not.                                     *)
Mark(c) ==
  /\ at[c] = "mark"
  /\ marked' = [marked EXCEPT ![c] = Kept]
  /\ todo' = [todo EXCEPT ![c] = blocks \ Kept]
  /\ at' = [at EXCEPT ![c] = "sweep"]
  /\ UNCHANGED <<store, queue, request, loaded, history>>

(* A block that an unlocked put has stored meanwhile may be found, too. *)
Sweep(c) ==
  /\ at[c] = "sweep"
  /\ \E b \in blocks \ marked[c] :
       /\ blocks' = blocks \ {b}
       /\ todo' = [todo EXCEPT ![c] = @ \ {b}]
  /\ UNCHANGED <<pins, mfsRoot, queue, at, request, marked, loaded, history>>

(* repo.gc releases the lock when it is through, then gc unpins the root.  *)
ReleaseAndUnpin(c) ==
  /\ queue' = Released(queue, c)
  /\ at' = [at EXCEPT ![c] = "unpin"]
  /\ todo' = [todo EXCEPT ![c] = {}]
  /\ UNCHANGED <<store, request, marked, loaded, history>>

Swept(c) ==
  /\ at[c] = "sweep" /\ todo[c] = {}
  /\ ReleaseAndUnpin(c)

(* Faulty variant: no finally clause, whoever fails keeps the lock. *)
FaultyFails(c) ==
  /\ at[c] \in {"store", "check", "walk", "record", "unpin", "delete", "mark", "sweep"}
  /\ at' = [at EXCEPT ![c] = "ended"]
  /\ UNCHANGED <<store, queue, request, todo, marked, loaded, history>>

(* A promise that the call awaits rejects, or its consumer does not want   *)
(* more of it: the finally clauses run, the one of gc unpins the root.    *)
Fails(c) ==
  /\ at[c] \in {"store", "check", "walk", "record", "unpin", "delete", "mark", "sweep"}
  /\ IF request[c].op = "gc" /\ at[c] # "unpin"
       THEN ReleaseAndUnpin(c)
       ELSE Ends(c) /\ UNCHANGED <<store, history>>

-----------------------------------------------------------------------------

Advance(c) ==
  \/ Enter(c) \/ Store(c) \/ PutStored(c) \/ MfsStored(c)
  \/ PinAddCheck(c) \/ Walk(c) \/ Record(c)
  \/ PinRmCheck(c) \/ Unpin(c) \/ BlockRmCheck(c) \/ BlockRmDelete(c)
  \/ Mark(c) \/ Sweep(c) \/ Swept(c)

Next ==
  \E c \in Calls : (\E r \in Requests : Begin(c, r)) \/ Advance(c) \/ Fails(c)

Spec == Init /\ [][Next]_vars

(* Promises settle and the consumers of the generators go on. *)
Fairness == \A c \in Calls : WF_vars(Advance(c))

FairSpec == Spec /\ Fairness

-----------------------------------------------------------------------------
(* Properties                                                             *)

TypeOK ==
  /\ blocks \subseteq Cids
  /\ pins \in [Cids -> PinTypes]
  /\ mfsRoot \in Cids
  /\ queue \in Seq(Batches(Calls))
  /\ at \in [Calls -> Phases]
  /\ request \in [Calls -> Requests \cup {NoRequest}]
  /\ todo \in [Calls -> SUBSET Cids]
  /\ marked \in [Calls -> SUBSET Cids]
  /\ loaded \in [Calls -> Cids]
  /\ overlap \in BOOLEAN
  /\ safe \subseteq Cids

(* What was pinned under gcLock is complete: no gc, however its marking    *)
(* and deleting interleave with the steps of the calls that store and pin, *)
(* and no block/rm deletes a block of it.  Pins set by pin/add without     *)
(* `lock` are not promised this.                                          *)
LockedPinsAreComplete == \A cid \in safe : Need(pins[cid], cid) \subseteq blocks

(* The MFS survives garbage collection without holding gcLock, as long as  *)
(* nothing has disturbed a gc: the temporary pin covers the whole of it,   *)
(* also when the gc fails half way or its consumer leaves.                *)
UndisturbedMfsIsKept == ~overlap => Dag[mfsRoot] \subseteq blocks

(* The same without the exemption, as the tests of repo.gc have it: a file *)
(* is in the blockstore "because the file is in MFS".                     *)
MfsIsKept == Dag[mfsRoot] \subseteq blocks

(* Every call ends: gcLock is released and handed on, also after a failure. *)
(* (A call is made once, so none is active for ever if all are over again  *)
(* and again.)                                                            *)
EveryCallEnds == []<>(\A c \in Calls : ~Active(c))
=============================================================================
