---------------------------- MODULE RepoGCProofs ----------------------------
(***************************************************************************)
(* gcLock does what it is for: whatever calls interleave, the pins that    *)
(* were set under it are complete.                                        *)
(*                                                                        *)
(* The property is not inductive.  It needs that every call between the    *)
(* acquisition and the release really holds the lock (LockInv), what a     *)
(* call that pins has made sure of before it sets the pin (WalkInv), and   *)
(* what a call that deletes knows of the pins while nobody else can set    *)
(* one under the lock (SweepInv, DeleteInv).                              *)
(***************************************************************************)
EXTENDS RepoGC, MorticeProofs

(* Which calls can be in which phase. *)
OpsOf(phase) ==
  CASE phase = "wait" -> {"put", "pinAdd", "pinRm", "blockRm", "gc"}
    [] phase = "store" -> {"put", "mfs"}
    [] phase = "check" -> {"pinAdd", "pinRm", "blockRm"}
    [] phase \in {"walk", "record"} -> {"put", "pinAdd", "gc"}
    [] phase = "unpin" -> {"pinRm", "gc"}
    [] phase = "delete" -> {"blockRm"}
    [] phase \in {"mark", "sweep"} -> {"gc"}
    [] OTHER -> {"none", "put", "pinAdd", "pinRm", "blockRm", "gc", "mfs"}

PhaseInv ==
  \A c \in Calls :
    /\ request[c].op \in OpsOf(at[c])
    /\ at[c] # "idle" => request[c] \in Requests

(* The phases between the acquisition of gcLock and its release. *)
UnderRead(c) == Reads(c) /\ at[c] \in {"store", "check", "walk", "record", "unpin"}
UnderWrite(c) == Writes(c) /\ at[c] \in {"check", "delete", "mark", "sweep"}

LockInv ==
  \A c \in Calls :
    /\ UnderRead(c) => ReadHeld(queue, c)
    /\ UnderWrite(c) => WriteHeld(queue, c)

WalkInv ==
  \A c \in Calls :
    (at[c] = "record" /\ Reads(c)) => Need(PinType(c), Target(c)) \subseteq blocks

SweepInv ==
  \A c \in Calls : at[c] = "sweep" =>
    \A cid \in safe : Need(pins[cid], cid) \subseteq marked[c]

DeleteInv ==
  \A c \in Calls : at[c] = "delete" =>
    \A cid \in safe : Target(c) \notin Need(pins[cid], cid)

-----------------------------------------------------------------------------
LEMMA NeedType ==
  ASSUME NEW cid \in Cids, NEW type
  PROVE  Need(type, cid) \subseteq Cids
BY RepoGCAssumption DEF Need

LEMMA TargetType ==
  ASSUME TypeOK, PhaseInv, NEW c \in Calls, at[c] \notin {"idle", "ended"}
  PROVE  Target(c) \in Cids
BY RepoGCAssumption DEF TypeOK, PhaseInv, Target

(* What the operations on the lock keep, for the queue of gcLock. *)
LEMMA LockOps ==
  ASSUME queue \in Seq(Batches(Calls)), NEW c \in Calls
  PROVE  /\ QueueRead(queue, c) \in Seq(Batches(Calls))
         /\ QueueWrite(queue, c) \in Seq(Batches(Calls))
         /\ Released(queue, c) \in Seq(Batches(Calls))
         /\ \A d : ReadHeld(queue, d) => ReadHeld(QueueRead(queue, c), d)
                                         /\ ReadHeld(QueueWrite(queue, c), d)
         /\ \A d : WriteHeld(queue, d) => WriteHeld(QueueRead(queue, c), d)
                                          /\ WriteHeld(QueueWrite(queue, c), d)
         /\ \A d : d # c /\ ReadHeld(queue, d) => ReadHeld(Released(queue, c), d)
         /\ \A d : d # c /\ WriteHeld(queue, d) => WriteHeld(Released(queue, c), d)
BY QueueReadKeeps, QueueWriteKeeps, ReleasedKeeps

-----------------------------------------------------------------------------
(* Every variable keeps its type, and a call is only in a phase of its own. *)
LEMMA TypeInit == Init => TypeOK /\ PhaseInv
<1> SUFFICES ASSUME Init PROVE TypeOK /\ PhaseInv
  OBVIOUS
<1>1. blocks \subseteq Cids
  BY RepoGCAssumption DEF Init
<1>2. pins \in [Cids -> PinTypes]
  BY DEF Init, PinTypes
<1>3. TypeOK
  <2>1. queue \in Seq(Batches(Calls))
    BY DEF Init
  <2>2. at \in [Calls -> Phases]
    BY DEF Init, Phases
  <2>3. request \in [Calls -> Requests \cup {NoRequest}]
    BY DEF Init
  <2>4. todo \in [Calls -> SUBSET Cids] /\ marked \in [Calls -> SUBSET Cids]
    BY DEF Init
  <2>5. mfsRoot \in Cids /\ loaded \in [Calls -> Cids]
    BY RepoGCAssumption DEF Init
  <2>6. overlap \in BOOLEAN /\ safe \subseteq Cids
    BY RepoGCAssumption DEF Init
  <2> QED
    BY <1>1, <1>2, <2>1, <2>2, <2>3, <2>4, <2>5, <2>6 DEF TypeOK
<1>4. PhaseInv
  BY DEF Init, PhaseInv, OpsOf, NoRequest
<1> QED
  BY <1>3, <1>4

(* The two ways in which most actions end. *)
CallType ==
  /\ queue \in Seq(Batches(Calls))
  /\ at \in [Calls -> Phases]
  /\ request \in [Calls -> Requests \cup {NoRequest}]
  /\ todo \in [Calls -> SUBSET Cids]
  /\ marked \in [Calls -> SUBSET Cids]
  /\ loaded \in [Calls -> Cids]

LEMMA EndsType ==
  ASSUME CallType, PhaseInv, NEW c \in Calls, at[c] # "idle", Ends(c)
  PROVE  CallType' /\ PhaseInv'
<1>1. queue' \in Seq(Batches(Calls))
  BY LockOps DEF CallType, Ends
<1> QED
  BY <1>1, RepoGCAssumption DEF Ends, CallType, PhaseInv, Phases, OpsOf

LEMMA GoesType ==
  ASSUME CallType, PhaseInv, NEW c \in Calls, at[c] # "idle", NEW phase \in Phases,
         request[c].op \in OpsOf(phase), Goes(c, phase)
  PROVE  CallType' /\ PhaseInv'
BY DEF Goes, CallType, PhaseInv

LEMMA ReleaseType ==
  ASSUME CallType, PhaseInv, NEW c \in Calls, at[c] # "idle", request[c].op = "gc",
         ReleaseAndUnpin(c)
  PROVE  CallType' /\ PhaseInv'
<1>1. queue' \in Seq(Batches(Calls))
  BY LockOps DEF CallType, ReleaseAndUnpin
<1> QED
  BY <1>1 DEF ReleaseAndUnpin, CallType, PhaseInv, Phases, OpsOf

LEMMA TypeStep == TypeOK /\ PhaseInv /\ [Next]_vars => TypeOK' /\ PhaseInv'
<1> SUFFICES ASSUME TypeOK, PhaseInv, [Next]_vars PROVE TypeOK' /\ PhaseInv'
  OBVIOUS
<1>1. CASE UNCHANGED vars
  BY <1>1 DEF vars, store, history, TypeOK, PhaseInv
<1>2. CASE Next
  <2> USE TargetType, LockOps DEF store, history
  <2>2. ASSUME NEW c \in Calls, NEW r \in Requests, Begin(c, r) PROVE TypeOK' /\ PhaseInv'
    <3> USE <2>2, RepoGCAssumption DEF Begin
    <3>1. FirstPhase(r) \in {"store", "check", "walk", "wait"} /\ r.op \in OpsOf(FirstPhase(r))
      BY DEF FirstPhase, OpsOf
    <3>2. queue' \in Seq(Batches(Calls))
      BY DEF TypeOK
    <3>3. todo' \in [Calls -> SUBSET Cids]
      BY DEF TypeOK
    <3>4. TypeOK'
      BY <3>1, <3>2, <3>3 DEF TypeOK, Phases
    <3> QED
      BY <3>1, <3>4 DEF TypeOK, PhaseInv
  <2>3. ASSUME NEW c \in Calls, Enter(c) PROVE TypeOK' /\ PhaseInv'
    <3>1. \E phase \in {"store", "mark", "check"} :
            request[c].op \in OpsOf(phase) /\ at' = [at EXCEPT ![c] = phase]
      <4>1. request[c].op \in {"put", "pinAdd", "pinRm", "blockRm", "gc"}
        BY <2>3 DEF Enter, PhaseInv, OpsOf
      <4>2. CASE request[c].op = "put"
        BY <2>3, <4>2 DEF Enter, OpsOf
      <4>3. CASE request[c].op = "gc"
        BY <2>3, <4>3 DEF Enter, OpsOf
      <4>4. CASE request[c].op \in {"pinAdd", "pinRm", "blockRm"}
        BY <2>3, <4>4 DEF Enter, OpsOf
      <4> QED
        BY <4>1, <4>2, <4>3, <4>4
    <3> QED
      BY <2>3, <3>1 DEF Enter, TypeOK, PhaseInv, Phases
  <2>4. ASSUME NEW c \in Calls, Store(c) PROVE TypeOK' /\ PhaseInv'
    BY <2>4 DEF Store, TypeOK, PhaseInv
  <2>5. ASSUME NEW c \in Calls, PutStored(c) PROVE TypeOK' /\ PhaseInv'
    <3>1. Ends(c) \/ Goes(c, "walk")
      BY <2>5 DEF PutStored
    <3>2. request[c].op \in OpsOf("walk") /\ at[c] = "store"
      BY <2>5 DEF PutStored, OpsOf
    <3>3. CallType' /\ PhaseInv'
      BY <3>1, <3>2, EndsType, GoesType DEF TypeOK, CallType, Phases
    <3> QED
      BY <2>5, <3>3 DEF PutStored, TypeOK, CallType
  <2>6. ASSUME NEW c \in Calls, MfsStored(c) PROVE TypeOK' /\ PhaseInv'
    BY <2>6 DEF MfsStored, Ends, Target, TypeOK, PhaseInv, Phases, OpsOf
  <2>7. ASSUME NEW c \in Calls, PinAddCheck(c) PROVE TypeOK' /\ PhaseInv'
    <3>1. Ends(c) \/ Goes(c, "walk")
      BY <2>7 DEF PinAddCheck
    <3>2. request[c].op \in OpsOf("walk") /\ at[c] = "check"
      BY <2>7 DEF PinAddCheck, OpsOf
    <3>3. CallType' /\ PhaseInv'
      BY <3>1, <3>2, EndsType, GoesType DEF TypeOK, CallType, Phases
    <3> QED
      BY <2>7, <3>3 DEF PinAddCheck, TypeOK, CallType
  <2>8. ASSUME NEW c \in Calls, Walk(c) PROVE TypeOK' /\ PhaseInv'
    BY <2>8, NeedType DEF Walk, Goes, TypeOK, PhaseInv, Phases, OpsOf
  <2>9. ASSUME NEW c \in Calls, Record(c) PROVE TypeOK' /\ PhaseInv'
    <3>1. pins' \in [Cids -> PinTypes] /\ safe' \subseteq Cids
      BY <2>9 DEF Record, PinType, PinTypes, TypeOK
    <3>2. CASE request[c].op = "gc"
      <4>1. /\ at' = [at EXCEPT ![c] = "wait"]
            /\ queue' = QueueWrite(queue, c)
            /\ UNCHANGED <<request, todo, marked, loaded, overlap, blocks, mfsRoot>>
        BY <2>9, <3>2 DEF Record
      <4>2. queue' \in Seq(Batches(Calls))
        BY <4>1 DEF TypeOK
      <4>3. TypeOK'
        BY <3>1, <4>1, <4>2 DEF TypeOK, Phases
      <4>4. "gc" \in OpsOf("wait") /\ at[c] = "record"
        BY <2>9 DEF OpsOf, Record
      <4> QED
        BY <3>2, <4>1, <4>3, <4>4 DEF TypeOK, PhaseInv
    <3>3. CASE request[c].op # "gc"
      <4>1. Ends(c) /\ UNCHANGED <<blocks, mfsRoot, overlap>> /\ at[c] # "idle"
        BY <2>9, <3>3 DEF Record, TypeOK
      <4>2. CallType' /\ PhaseInv'
        BY <4>1, EndsType DEF TypeOK, CallType
      <4> QED
        BY <3>1, <4>1, <4>2 DEF TypeOK, CallType
    <3> QED
      BY <3>2, <3>3
  <2>10. ASSUME NEW c \in Calls, PinRmCheck(c) PROVE TypeOK' /\ PhaseInv'
    <3>1. Ends(c) \/ Goes(c, "unpin")
      BY <2>10 DEF PinRmCheck
    <3>2. request[c].op \in OpsOf("unpin") /\ at[c] = "check"
      BY <2>10 DEF PinRmCheck, OpsOf
    <3>3. CallType' /\ PhaseInv'
      BY <3>1, <3>2, EndsType, GoesType DEF TypeOK, CallType, Phases
    <3> QED
      BY <2>10, <3>3 DEF PinRmCheck, TypeOK, CallType
  <2>11. ASSUME NEW c \in Calls, Unpin(c) PROVE TypeOK' /\ PhaseInv'
    BY <2>11 DEF Unpin, PinTypes, Ends, TypeOK, PhaseInv, Phases, OpsOf
  <2>12. ASSUME NEW c \in Calls, BlockRmCheck(c) PROVE TypeOK' /\ PhaseInv'
    <3>1. Ends(c) \/ Goes(c, "delete")
      BY <2>12 DEF BlockRmCheck
    <3>2. request[c].op \in OpsOf("delete") /\ at[c] = "check"
      BY <2>12 DEF BlockRmCheck, OpsOf
    <3>3. CallType' /\ PhaseInv'
      BY <3>1, <3>2, EndsType, GoesType DEF TypeOK, CallType, Phases
    <3> QED
      BY <2>12, <3>3 DEF BlockRmCheck, TypeOK, CallType
  <2>13. ASSUME NEW c \in Calls, BlockRmDelete(c) PROVE TypeOK' /\ PhaseInv'
    BY <2>13 DEF BlockRmDelete, Ends, TypeOK, PhaseInv, Phases, OpsOf
  <2>14. ASSUME NEW c \in Calls, Mark(c) PROVE TypeOK' /\ PhaseInv'
    BY <2>14, NeedType DEF Mark, Kept, TypeOK, PhaseInv, Phases, OpsOf
  <2>15. ASSUME NEW c \in Calls, Sweep(c) PROVE TypeOK' /\ PhaseInv'
    BY <2>15 DEF Sweep, TypeOK, PhaseInv
  <2>16. ASSUME NEW c \in Calls, Swept(c) PROVE TypeOK' /\ PhaseInv'
    BY <2>16 DEF Swept, ReleaseAndUnpin, TypeOK, PhaseInv, Phases, OpsOf
  <2>17. ASSUME NEW c \in Calls, Fails(c) PROVE TypeOK' /\ PhaseInv'
    <3>1. at[c] # "idle"
      BY <2>17 DEF Fails
    <3>2. CASE request[c].op = "gc" /\ at[c] # "unpin"
      <4>1. ReleaseAndUnpin(c)
        BY <2>17, <3>2 DEF Fails
      <4>2. CallType' /\ PhaseInv'
        BY <3>1, <3>2, <4>1, ReleaseType DEF TypeOK, CallType
      <4> QED
        BY <4>1, <4>2 DEF ReleaseAndUnpin, TypeOK, CallType
    <3>3. CASE ~(request[c].op = "gc" /\ at[c] # "unpin")
      <4>1. Ends(c) /\ UNCHANGED <<store, history>>
        BY <2>17, <3>3 DEF Fails
      <4>2. CallType' /\ PhaseInv'
        BY <3>1, <4>1, EndsType DEF TypeOK, CallType
      <4> QED
        BY <4>1, <4>2 DEF TypeOK, CallType
    <3> QED
      BY <3>2, <3>3
  <2> QED
    BY <1>2, <2>2, <2>3, <2>4, <2>5, <2>6, <2>7, <2>8, <2>9, <2>10, <2>11, <2>12, <2>13,
       <2>14, <2>15, <2>16, <2>17
    DEF Next, Advance
<1> QED
  BY <1>1, <1>2

THEOREM TypeCorrect == Spec => [](TypeOK /\ PhaseInv)
BY TypeInit, TypeStep, PTL DEF Spec

-----------------------------------------------------------------------------
(* Whoever is between acquisition and release holds the lock.              *)
LEMMA LockStep ==
  ASSUME TypeOK, PhaseInv, LockInv, [Next]_vars
  PROVE  LockInv'
<1>1. CASE UNCHANGED vars
  BY <1>1 DEF vars, store, history, LockInv, UnderRead, UnderWrite, Reads, Writes
<1>2. CASE Next
  <2> SUFFICES ASSUME NEW d \in Calls
               PROVE  /\ UnderRead(d)' => ReadHeld(queue', d)
                      /\ UnderWrite(d)' => WriteHeld(queue', d)
    BY DEF LockInv
  <2> USE LockOps DEF UnderRead, UnderWrite, Reads, Writes, TypeOK, LockInv
  <2>1. ASSUME NEW c \in Calls, Ends(c)
        PROVE  /\ UnderRead(d)' => ReadHeld(queue', d)
               /\ UnderWrite(d)' => WriteHeld(queue', d)
    BY <2>1 DEF Ends
  <2>2. ASSUME NEW c \in Calls, NEW phase, Goes(c, phase),
               \/ at[c] = "store" /\ request[c].op = "put" /\ phase = "walk"
               \/ at[c] = "check" /\ request[c].op = "pinAdd" /\ phase = "walk"
               \/ at[c] = "walk" /\ phase = "record"
               \/ at[c] = "check" /\ request[c].op = "pinRm" /\ phase = "unpin"
               \/ at[c] = "check" /\ request[c].op = "blockRm" /\ phase = "delete"
        PROVE  /\ UnderRead(d)' => ReadHeld(queue', d)
               /\ UnderWrite(d)' => WriteHeld(queue', d)
    BY <2>2 DEF Goes
  <2>3. ASSUME NEW c \in Calls, ReleaseAndUnpin(c), request[c].op = "gc"
        PROVE  /\ UnderRead(d)' => ReadHeld(queue', d)
               /\ UnderWrite(d)' => WriteHeld(queue', d)
    BY <2>3 DEF ReleaseAndUnpin, TakesReadLock
  <2>4. ASSUME NEW c \in Calls, NEW r \in Requests, Begin(c, r)
        PROVE  /\ UnderRead(d)' => ReadHeld(queue', d)
               /\ UnderWrite(d)' => WriteHeld(queue', d)
    <3>1. /\ \A e : ReadHeld(queue, e) => ReadHeld(queue', e)
          /\ \A e : WriteHeld(queue, e) => WriteHeld(queue', e)
      BY <2>4 DEF Begin
    <3>2. CASE d # c
      BY <2>4, <3>1, <3>2 DEF Begin
    <3>3. CASE d = c
      <4>1. request'[c] = r /\ at'[c] = FirstPhase(r)
        BY <2>4 DEF Begin
      <4>2. TakesReadLock(r) => FirstPhase(r) = "wait"
        BY RepoGCAssumption DEF TakesReadLock, FirstPhase
      <4>3. r.op \in {"blockRm", "gc"} => FirstPhase(r) \in {"wait", "walk"}
        BY DEF FirstPhase
      <4> QED
        BY <3>3, <4>1, <4>2, <4>3
    <3> QED
      BY <3>2, <3>3
  <2>5. ASSUME NEW c \in Calls, Enter(c)
        PROVE  /\ UnderRead(d)' => ReadHeld(queue', d)
               /\ UnderWrite(d)' => WriteHeld(queue', d)
    BY <2>5 DEF Enter, TakesReadLock
  <2>6. ASSUME NEW c \in Calls, Store(c) \/ Sweep(c)
        PROVE  /\ UnderRead(d)' => ReadHeld(queue', d)
               /\ UnderWrite(d)' => WriteHeld(queue', d)
    BY <2>6 DEF Store, Sweep
  <2>7. ASSUME NEW c \in Calls, Mark(c)
        PROVE  /\ UnderRead(d)' => ReadHeld(queue', d)
               /\ UnderWrite(d)' => WriteHeld(queue', d)
    BY <2>7 DEF Mark
  <2>8. ASSUME NEW c \in Calls, Record(c), request[c].op = "gc"
        PROVE  /\ UnderRead(d)' => ReadHeld(queue', d)
               /\ UnderWrite(d)' => WriteHeld(queue', d)
    <3>1. queue' = QueueWrite(queue, c) /\ at' = [at EXCEPT ![c] = "wait"] /\ request' = request
      BY <2>8 DEF Record
    <3> QED
      BY <3>1
  <2> QED
    <3>1. PICK c \in Calls : (\E r \in Requests : Begin(c, r)) \/ Advance(c) \/ Fails(c)
      BY <1>2 DEF Next
    <3>2. CASE Advance(c)
      <4>1. CASE PutStored(c)
        BY <4>1, <2>1, <2>2 DEF PutStored
      <4>2. CASE MfsStored(c)
        BY <4>2, <2>1 DEF MfsStored
      <4>3. CASE PinAddCheck(c)
        BY <4>3, <2>1, <2>2 DEF PinAddCheck
      <4>4. CASE Walk(c)
        BY <4>4, <2>2 DEF Walk
      <4>5. CASE Record(c)
        BY <4>5, <2>1, <2>8 DEF Record
      <4>6. CASE PinRmCheck(c)
        BY <4>6, <2>1, <2>2 DEF PinRmCheck
      <4>7. CASE Unpin(c) \/ BlockRmDelete(c)
        BY <4>7, <2>1 DEF Unpin, BlockRmDelete
      <4>8. CASE BlockRmCheck(c)
        BY <4>8, <2>1, <2>2 DEF BlockRmCheck
      <4>9. CASE Swept(c)
        BY <4>9, <2>3 DEF Swept, PhaseInv, OpsOf
      <4> QED
        BY <3>2, <2>5, <2>6, <2>7, <4>1, <4>2, <4>3, <4>4, <4>5, <4>6, <4>7, <4>8, <4>9
        DEF Advance
    <3>3. CASE Fails(c)
      BY <3>3, <2>1, <2>3 DEF Fails
    <3> QED
      BY <3>1, <3>2, <3>3, <2>4
<1> QED
  BY <1>1, <1>2

-----------------------------------------------------------------------------
(* The pins that were set under gcLock.                                    *)
SafeInv == WalkInv /\ SweepInv /\ DeleteInv /\ LockedPinsAreComplete

(* A pin keeps at most what a recursive pin of the same CID keeps.         *)
LEMMA NeedOfPin ==
  ASSUME NEW cid \in Cids, NEW type
  PROVE  Need(type, cid) \subseteq Need("recursive", cid)
BY RepoGCAssumption DEF Need

LEMMA SafeInit == Init => LockInv /\ SafeInv
<1> SUFFICES ASSUME Init PROVE LockInv /\ SafeInv
  OBVIOUS
<1>1. \A c \in Calls : at[c] = "idle"
  BY DEF Init
<1>2. LockInv /\ WalkInv /\ SweepInv /\ DeleteInv
  BY <1>1 DEF LockInv, UnderRead, UnderWrite, WalkInv, SweepInv, DeleteInv
<1>3. LockedPinsAreComplete
  <2> SUFFICES ASSUME NEW cid \in safe PROVE Need(pins[cid], cid) \subseteq blocks
    BY DEF LockedPinsAreComplete
  <2>1. cid \in InitialPins /\ cid \in Cids
    BY RepoGCAssumption DEF Init
  <2>2. pins[cid] = "recursive"
    BY <2>1 DEF Init
  <2>3. Dag[cid] \subseteq blocks
    BY <2>1 DEF Init
  <2> QED
    BY <2>2, <2>3 DEF Need
<1> QED
  BY <1>2, <1>3 DEF SafeInv

(* While a call is under the write lock, no call is under the read lock.   *)
LEMMA Excluded ==
  ASSUME LockInv, NEW c \in Calls, UnderWrite(c)
  PROVE  \A d \in Calls : ~UnderRead(d)
BY WriterIsAlone DEF LockInv

(* A call that changes no pin, deletes no block, and is not going to       *)
(* record a pin or to delete, disturbs nothing.                            *)
Quiet(c) ==
  /\ blocks \subseteq blocks'
  /\ UNCHANGED <<pins, safe>>
  /\ \A d \in Calls \ {c} :
       /\ at'[d] = at[d] /\ request'[d] = request[d]
       /\ loaded'[d] = loaded[d] /\ marked'[d] = marked[d]
  /\ at'[c] \notin {"record", "sweep", "delete"}

LEMMA QuietStep ==
  ASSUME SafeInv, NEW c \in Calls, Quiet(c)
  PROVE  SafeInv'
<1> USE DEF Quiet
<1>1. WalkInv'
  <2> SUFFICES ASSUME NEW d \in Calls, at'[d] = "record", Reads(d)'
               PROVE  (Need(PinType(d), Target(d)) \subseteq blocks)'
    BY DEF WalkInv
  <2>1. d # c
    OBVIOUS
  <2>2. at[d] = "record" /\ Reads(d)
    BY <2>1 DEF Reads
  <2>3. Need(PinType(d), Target(d)) \subseteq blocks
    BY <2>2 DEF SafeInv, WalkInv
  <2> QED
    BY <2>1, <2>3 DEF Need, PinType, Target
<1>2. SweepInv'
  BY DEF SafeInv, SweepInv, Need
<1>3. DeleteInv'
  BY DEF SafeInv, DeleteInv, Need, Target
<1>4. LockedPinsAreComplete'
  BY DEF SafeInv, LockedPinsAreComplete, Need
<1> QED
  BY <1>1, <1>2, <1>3, <1>4 DEF SafeInv

LEMMA EndsIsQuiet ==
  ASSUME TypeOK, NEW c \in Calls, Ends(c), blocks \subseteq blocks', UNCHANGED <<pins, safe>>
  PROVE  Quiet(c)
BY DEF TypeOK, Ends, Quiet

LEMMA GoesIsQuiet ==
  ASSUME TypeOK, NEW c \in Calls, NEW phase, Goes(c, phase),
         phase \notin {"record", "sweep", "delete"},
         blocks \subseteq blocks', UNCHANGED <<pins, safe>>
  PROVE  Quiet(c)
BY DEF TypeOK, Goes, Quiet

LEMMA ReleaseIsQuiet ==
  ASSUME TypeOK, NEW c \in Calls, ReleaseAndUnpin(c)
  PROVE  Quiet(c)
BY DEF TypeOK, ReleaseAndUnpin, Quiet, store, history

(* The deletions: only of what no locked pin needs, and with nobody about  *)
(* to record a pin under the lock.                                         *)
LEMMA DeletionStep ==
  ASSUME TypeOK, LockInv, SafeInv, NEW c \in Calls, UnderWrite(c), NEW b,
         \A cid \in safe : b \notin Need(pins[cid], cid),
         blocks' = blocks \ {b}, UNCHANGED <<pins, safe, request, loaded, marked>>,
         \A d \in Calls : at'[d] # at[d] => at'[d] = "ended"
  PROVE  SafeInv'
<1>1. WalkInv'
  <2> SUFFICES ASSUME NEW d \in Calls, at'[d] = "record", Reads(d)'
               PROVE  FALSE
    BY DEF WalkInv
  <2>1. UnderRead(d)
    BY DEF UnderRead, Reads
  <2> QED
    BY <2>1, Excluded
<1>2. SweepInv'
  BY DEF SafeInv, SweepInv, Need
<1>3. DeleteInv'
  BY DEF SafeInv, DeleteInv, Need, Target
<1>4. LockedPinsAreComplete'
  BY DEF SafeInv, LockedPinsAreComplete, Need
<1> QED
  BY <1>1, <1>2, <1>3, <1>4 DEF SafeInv

LEMMA WalkStep ==
  ASSUME TypeOK, SafeInv, NEW c \in Calls, Walk(c)
  PROVE  SafeInv'
<1> USE DEF Walk, Goes
<1>1. /\ blocks \subseteq blocks'
      /\ UNCHANGED <<pins, safe, request, loaded, marked>>
      /\ at' = [at EXCEPT ![c] = "record"]
  BY DEF history
<1>2. WalkInv'
  <2> SUFFICES ASSUME NEW d \in Calls, at'[d] = "record", Reads(d)'
               PROVE  (Need(PinType(d), Target(d)) \subseteq blocks)'
    BY DEF WalkInv
  <2>1. CASE d = c
    BY <1>1, <2>1 DEF Need, PinType, Target
  <2>2. CASE d # c
    <3>1. at[d] = "record" /\ Reads(d)
      BY <1>1, <2>2 DEF Reads, TypeOK
    <3>2. Need(PinType(d), Target(d)) \subseteq blocks
      BY <3>1 DEF SafeInv, WalkInv
    <3> QED
      BY <1>1, <3>2 DEF Need, PinType, Target
  <2> QED
    BY <2>1, <2>2
<1>3. SweepInv'
  BY <1>1 DEF SafeInv, SweepInv, Need, TypeOK
<1>4. DeleteInv'
  BY <1>1 DEF SafeInv, DeleteInv, Need, Target, TypeOK
<1>5. LockedPinsAreComplete'
  BY <1>1 DEF SafeInv, LockedPinsAreComplete, Need
<1> QED
  BY <1>2, <1>3, <1>4, <1>5 DEF SafeInv

(* What one call does to a pin: if no locked pin needs more than before,   *)
(* or what it needs more is there and nobody deletes.                      *)
LEMMA PinStep ==
  ASSUME TypeOK, SafeInv, NEW c \in Calls,
         UNCHANGED <<blocks, request, loaded, marked>>,
         \A d \in Calls \ {c} : at'[d] = at[d],
         at'[c] \notin {"record", "sweep", "delete"},
         \/ \A cid \in safe' : cid \in safe
                               /\ Need(pins'[cid], cid) \subseteq Need(pins[cid], cid)
         \/ /\ \A cid \in safe' : Need(pins'[cid], cid) \subseteq blocks
            /\ \A d \in Calls : at[d] \notin {"sweep", "delete"}
  PROVE  SafeInv'
<1>1. WalkInv'
  <2> SUFFICES ASSUME NEW d \in Calls, at'[d] = "record", Reads(d)'
               PROVE  (Need(PinType(d), Target(d)) \subseteq blocks)'
    BY DEF WalkInv
  <2>1. at[d] = "record" /\ Reads(d)
    BY DEF Reads
  <2>2. Need(PinType(d), Target(d)) \subseteq blocks
    BY <2>1 DEF SafeInv, WalkInv
  <2> QED
    BY <2>2 DEF Need, PinType, Target
<1> DEFINE More(cid) == Need(pins'[cid], cid)
<1>2. /\ SweepInv' <=> \A d \in Calls : at'[d] = "sweep" =>
                         \A cid \in safe' : More(cid) \subseteq marked[d]
      /\ DeleteInv' <=> \A d \in Calls : at'[d] = "delete" =>
                         \A cid \in safe' : Target(d) \notin More(cid)
      /\ LockedPinsAreComplete' <=> \A cid \in safe' : More(cid) \subseteq blocks
  BY DEF SweepInv, DeleteInv, LockedPinsAreComplete, Target, Need
<1>3. \A d \in Calls : at'[d] \in {"sweep", "delete"} => at'[d] = at[d]
  OBVIOUS
<1> HIDE DEF More
<1>4. CASE \A cid \in safe' : cid \in safe /\ More(cid) \subseteq Need(pins[cid], cid)
  BY <1>1, <1>2, <1>3, <1>4 DEF SafeInv, SweepInv, DeleteInv, LockedPinsAreComplete
<1>5. CASE /\ \A cid \in safe' : More(cid) \subseteq blocks
           /\ \A d \in Calls : at[d] \notin {"sweep", "delete"}
  BY <1>1, <1>2, <1>3, <1>5 DEF SafeInv
<1> QED
  BY <1>4, <1>5 DEF More

LEMMA UnpinStep ==
  ASSUME TypeOK, SafeInv, NEW c \in Calls, Unpin(c)
  PROVE  SafeInv'
<1>1. /\ UNCHANGED <<blocks, request, loaded, marked, safe>>
      /\ at' = [at EXCEPT ![c] = "ended"]
      /\ pins' = [pins EXCEPT ![Target(c)] = "none"]
  BY DEF Unpin, Ends
<1>2. ASSUME NEW cid \in safe
      PROVE  Need(pins'[cid], cid) \subseteq Need(pins[cid], cid)
  BY <1>1 DEF TypeOK, Need
<1> QED
  BY <1>1, <1>2, PinStep DEF TypeOK

LEMMA RecordStep ==
  ASSUME TypeOK, PhaseInv, LockInv, SafeInv, NEW c \in Calls, Record(c)
  PROVE  SafeInv'
<1> DEFINE cid == Target(c)
<1>1. /\ at[c] = "record" /\ cid \in Cids
      /\ UNCHANGED <<blocks, request, loaded, marked>>
      /\ \A d \in Calls \ {c} : at'[d] = at[d]
      /\ at'[c] \in {"wait", "ended"}
      /\ pins' = [pins EXCEPT ![cid] = PinType(c)]
  BY TargetType DEF Record, Ends, TypeOK
<1>2. CASE Reads(c)
  <2>1. safe' = safe \cup {cid}
    BY <1>2 DEF Record
  <2>2. Need(PinType(c), cid) \subseteq blocks
    BY <1>1, <1>2 DEF SafeInv, WalkInv
  <2>3. \A x \in safe' : Need(pins'[x], x) \subseteq blocks
    BY <1>1, <2>1, <2>2 DEF SafeInv, LockedPinsAreComplete, TypeOK
  <2>4. UnderRead(c)
    BY <1>1, <1>2 DEF UnderRead
  <2>5. ASSUME NEW d \in Calls PROVE at[d] \notin {"sweep", "delete"}
    <3>1. at[d] \in {"sweep", "delete"} => UnderWrite(d)
      BY DEF UnderWrite, Writes, PhaseInv, OpsOf
    <3> QED
      BY <3>1, <2>4, Excluded
  <2> QED
    BY <1>1, <2>3, <2>5, PinStep
<1>3. CASE ~Reads(c)
  <2>1. ASSUME NEW x \in safe'
        PROVE  x \in safe /\ Need(pins'[x], x) \subseteq Need(pins[x], x)
    <3>1. CASE pins[cid] = "recursive"
      <4>1. safe' = safe
        BY <1>3, <3>1 DEF Record
      <4> QED
        BY <1>1, <3>1, <4>1, NeedOfPin DEF TypeOK
    <3>2. CASE pins[cid] # "recursive"
      <4>1. safe' = safe \ {cid}
        BY <1>3, <3>2 DEF Record
      <4> QED
        BY <1>1, <4>1 DEF TypeOK
    <3> QED
      BY <3>1, <3>2
  <2> QED
    BY <1>1, <2>1, PinStep
<1> QED
  BY <1>2, <1>3

LEMMA MarkStep ==
  ASSUME TypeOK, PhaseInv, SafeInv, NEW c \in Calls, Mark(c)
  PROVE  SafeInv'
<1>1. /\ UNCHANGED <<blocks, pins, safe, request, loaded>>
      /\ at' = [at EXCEPT ![c] = "sweep"]
      /\ marked' = [marked EXCEPT ![c] = Kept]
  BY DEF Mark, store, history
<1>2. WalkInv'
  <2> SUFFICES ASSUME NEW d \in Calls, at'[d] = "record", Reads(d)'
               PROVE  (Need(PinType(d), Target(d)) \subseteq blocks)'
    BY DEF WalkInv
  <2>1. at[d] = "record" /\ Reads(d)
    BY <1>1 DEF Reads, TypeOK
  <2>2. Need(PinType(d), Target(d)) \subseteq blocks
    BY <2>1 DEF SafeInv, WalkInv
  <2> QED
    BY <1>1, <2>2 DEF Need, PinType, Target
<1>3. SweepInv'
  <2>1. \A cid \in safe : Need(pins[cid], cid) \subseteq Kept
    BY DEF Kept, TypeOK
  <2>2. \A d \in Calls : at'[d] = "sweep" =>
          \A cid \in safe : Need(pins[cid], cid) \subseteq marked'[d]
    BY <1>1, <2>1 DEF SafeInv, SweepInv, TypeOK
  <2> QED
    BY <1>1, <2>2 DEF SweepInv, Need
<1>4. DeleteInv'
  BY <1>1 DEF SafeInv, DeleteInv, Need, Target, TypeOK
<1>5. LockedPinsAreComplete'
  BY <1>1 DEF SafeInv, LockedPinsAreComplete, Need
<1> QED
  BY <1>2, <1>3, <1>4, <1>5 DEF SafeInv

LEMMA BlockRmCheckStep ==
  ASSUME TypeOK, SafeInv, NEW c \in Calls, BlockRmCheck(c)
  PROVE  SafeInv'
<1>1. CASE Ends(c)
  BY <1>1, EndsIsQuiet, QuietStep DEF BlockRmCheck, store, history
<1>2. CASE Target(c) \in blocks \ Kept /\ Goes(c, "delete")
  <2>1. /\ UNCHANGED <<blocks, pins, safe, request, loaded, marked>>
        /\ at' = [at EXCEPT ![c] = "delete"]
    BY <1>2 DEF BlockRmCheck, Goes, store, history
  <2>2. WalkInv'
    <3> SUFFICES ASSUME NEW d \in Calls, at'[d] = "record", Reads(d)'
                 PROVE  (Need(PinType(d), Target(d)) \subseteq blocks)'
      BY DEF WalkInv
    <3>1. at[d] = "record" /\ Reads(d)
      BY <2>1 DEF Reads, TypeOK
    <3>2. Need(PinType(d), Target(d)) \subseteq blocks
      BY <3>1 DEF SafeInv, WalkInv
    <3> QED
      BY <2>1, <3>2 DEF Need, PinType, Target
  <2>3. SweepInv'
    BY <2>1 DEF SafeInv, SweepInv, Need, TypeOK
  <2>4. DeleteInv'
    <3>1. \A cid \in safe : Target(c) \notin Need(pins[cid], cid)
      BY <1>2 DEF Kept, TypeOK
    <3>2. \A d \in Calls : at'[d] = "delete" =>
            \A cid \in safe : Target(d) \notin Need(pins[cid], cid)
      BY <2>1, <3>1 DEF SafeInv, DeleteInv, TypeOK
    <3> QED
      BY <2>1, <3>2 DEF DeleteInv, Need, Target
  <2>5. LockedPinsAreComplete'
    BY <2>1 DEF SafeInv, LockedPinsAreComplete, Need
  <2> QED
    BY <2>2, <2>3, <2>4, <2>5 DEF SafeInv
<1> QED
  BY <1>1, <1>2 DEF BlockRmCheck

LEMMA SafeStep ==
  ASSUME TypeOK, PhaseInv, LockInv, SafeInv, [Next]_vars
  PROVE  SafeInv'
<1>1. CASE UNCHANGED vars
  BY <1>1 DEF vars, store, history, SafeInv, WalkInv, SweepInv, DeleteInv,
     LockedPinsAreComplete, Need, Reads, PinType, Target
<1>2. CASE Next
  <2>1. PICK c \in Calls : (\E r \in Requests : Begin(c, r)) \/ Advance(c) \/ Fails(c)
    BY <1>2 DEF Next
  <2> USE EndsIsQuiet, GoesIsQuiet, ReleaseIsQuiet, QuietStep DEF store, history
  <2>2. ASSUME NEW r \in Requests, Begin(c, r) PROVE SafeInv'
    <3>1. FirstPhase(r) \notin {"record", "sweep", "delete"}
      BY DEF FirstPhase
    <3>2. Quiet(c)
      BY <2>2, <3>1 DEF Begin, Quiet, TypeOK
    <3> QED
      BY <3>2
  <2>3. CASE Enter(c)
    <3>1. at'[c] \in {"store", "mark", "check"} /\ \A d \in Calls \ {c} : at'[d] = at[d]
      BY <2>3 DEF Enter, TypeOK
    <3>2. Quiet(c)
      BY <2>3, <3>1 DEF Enter, Quiet
    <3> QED
      BY <3>2
  <2>4. CASE Store(c)
    <3>1. Quiet(c)
      BY <2>4 DEF Store, Quiet
    <3> QED
      BY <3>1
  <2>5. CASE PutStored(c) \/ MfsStored(c) \/ PinAddCheck(c) \/ PinRmCheck(c)
    BY <2>5 DEF PutStored, MfsStored, PinAddCheck, PinRmCheck
  <2>6. CASE BlockRmDelete(c)
    <3>1. UnderWrite(c)
      BY <2>6 DEF BlockRmDelete, UnderWrite, Writes, PhaseInv, OpsOf
    <3>2. \A cid \in safe : Target(c) \notin Need(pins[cid], cid)
      BY <2>6 DEF BlockRmDelete, SafeInv, DeleteInv
    <3>3. \A d \in Calls : at'[d] # at[d] => at'[d] = "ended"
      BY <2>6 DEF BlockRmDelete, Ends, TypeOK
    <3>4. /\ blocks' = blocks \ {Target(c)}
          /\ UNCHANGED <<pins, safe, request, loaded, marked>>
      BY <2>6 DEF BlockRmDelete, Ends
    <3> QED
      BY <3>1, <3>2, <3>3, <3>4, DeletionStep
  <2>7. CASE Sweep(c)
    <3>1. UnderWrite(c)
      BY <2>7 DEF Sweep, UnderWrite, Writes, PhaseInv, OpsOf
    <3>2. PICK b \in blocks \ marked[c] : blocks' = blocks \ {b}
      BY <2>7 DEF Sweep
    <3>3. \A cid \in safe : b \notin Need(pins[cid], cid)
      BY <2>7, <3>2 DEF Sweep, SafeInv, SweepInv
    <3>4. UNCHANGED <<at, pins, safe, request, loaded, marked>>
      BY <2>7 DEF Sweep
    <3> QED
      BY <3>1, <3>2, <3>3, <3>4, DeletionStep
  <2>8. CASE Swept(c)
    BY <2>8 DEF Swept
  <2>9. CASE Fails(c)
    BY <2>9 DEF Fails
  <2> QED
    BY <2>1, <2>2, <2>3, <2>4, <2>5, <2>6, <2>7, <2>8, <2>9, WalkStep, RecordStep,
       UnpinStep, MarkStep, BlockRmCheckStep
    DEF Advance
<1> QED
  BY <1>1, <1>2

(* A pin that was set under gcLock keeps everything below it: whatever is  *)
(* collected, removed, stored or pinned at the same time, and wherever a   *)
(* call fails (LockedPinsAreComplete).                                     *)
THEOREM LockedPinsComplete == Spec => []LockedPinsAreComplete
<1> DEFINE IInv == TypeOK /\ PhaseInv /\ LockInv /\ SafeInv
<1>1. Init => IInv
  BY TypeInit, SafeInit
<1>2. IInv /\ [Next]_vars => IInv'
  BY TypeStep, LockStep, SafeStep
<1>3. IInv => LockedPinsAreComplete
  BY DEF SafeInv
<1> HIDE DEF IInv
<1> QED
  BY <1>1, <1>2, <1>3, PTL DEF Spec

-----------------------------------------------------------------------------
(* The MFS survives, if nobody removes a block of it by hand.  A call that  *)
(* replaces the root has what it has not yet stored in todo; a gc that is   *)
(* alone knows the root that the datastore holds, and keeps what is below   *)
(* it from the time it has pinned it to the end of its sweep.               *)
MfsRoots == {InitialRoot} \cup {r.cid : r \in {q \in Requests : q.op = "mfs"}}

MfsBlocksAreLeft ==
  \A r \in Requests : r.op = "blockRm" => \A root \in MfsRoots : r.cid \notin Dag[root]

Collects(c) == Active(c) /\ request[c].op = "gc"

GcInv(c) ==
  Collects(c) =>
    /\ loaded[c] = mfsRoot
    /\ at[c] \in {"wait", "mark"} => pins[mfsRoot] = "recursive"
    /\ at[c] = "sweep" => Dag[mfsRoot] \subseteq marked[c]

NewRootInv(c) ==
  (at[c] = "store" /\ request[c].op = "mfs") => Dag[request[c].cid] \subseteq blocks \cup todo[c]

CalmInv ==
  /\ Dag[mfsRoot] \subseteq blocks
  /\ \A c \in Calls : GcInv(c) /\ NewRootInv(c)

MfsInv ==
  /\ mfsRoot \in MfsRoots
  /\ Disturbed => overlap
  /\ ~overlap => CalmInv

LEMMA MfsInit == Init => MfsInv
<1> SUFFICES ASSUME Init PROVE MfsInv
  OBVIOUS
<1>1. \A c \in Calls : ~Active(c)
  BY DEF Init, Active
<1> QED
  BY <1>1 DEF Init, MfsInv, MfsRoots, Disturbed, CalmInv, GcInv, NewRootInv, Collects

(* Only a call that begins can disturb a gc. *)
LEMMA DisturbedBefore ==
  ASSUME UNCHANGED <<request, loaded>>, \A d \in Calls : Active(d)' => Active(d), Disturbed'
  PROVE  Disturbed
<1>1. PICK g \in Calls, d \in Calls :
        /\ g # d /\ Active(g)' /\ Active(d)' /\ request'[g].op = "gc"
        /\ \/ request'[d].op \in {"gc", "mfs"}
           \/ request'[d].op \in {"pinAdd", "pinRm"} /\ Target(d)' = loaded'[g]
  BY DEF Disturbed
<1>2. Target(d)' = Target(d)
  BY DEF Target
<1> QED
  BY <1>1, <1>2 DEF Disturbed

(* A call that changes neither the root nor a block of the MFS, and that    *)
(* unpins the root only while no other call collects, keeps the MFS.       *)
Considerate(c) ==
  /\ UNCHANGED mfsRoot
  /\ \A d \in Calls \ {c} :
       /\ at'[d] = at[d] /\ request'[d] = request[d] /\ todo'[d] = todo[d]
       /\ loaded'[d] = loaded[d] /\ marked'[d] = marked[d]
  /\ \A root \in MfsRoots : Dag[root] \cap blocks \subseteq blocks'
  /\ \/ pins'[mfsRoot] \in {pins[mfsRoot], "recursive"}
     \/ \A d \in Calls \ {c} : ~Collects(d)

LEMMA ConsiderateStep ==
  ASSUME TypeOK, PhaseInv, MfsInv, ~overlap, NEW c \in Calls, Considerate(c),
         GcInv(c)', NewRootInv(c)'
  PROVE  CalmInv'
<1>1. Dag[mfsRoot] \subseteq blocks'
  BY DEF MfsInv, CalmInv, Considerate
<1>2. ASSUME NEW d \in Calls \ {c} PROVE GcInv(d)' /\ NewRootInv(d)'
  <2>1. GcInv(d) /\ NewRootInv(d)
    BY DEF MfsInv, CalmInv
  <2>2. GcInv(d)'
    BY <2>1 DEF Considerate, GcInv, Collects, Active
  <2>3. NewRootInv(d)'
    <3> SUFFICES ASSUME at[d] = "store", request[d].op = "mfs"
                 PROVE  Dag[request[d].cid] \subseteq blocks' \cup todo[d]
      BY DEF Considerate, NewRootInv
    <3>1. request[d].cid \in MfsRoots
      BY DEF PhaseInv, MfsRoots
    <3> QED
      BY <2>1, <3>1 DEF NewRootInv, Considerate
  <2> QED
    BY <2>2, <2>3
<1> QED
  BY <1>1, <1>2 DEF Considerate, CalmInv

LEMMA MfsStep ==
  ASSUME MfsBlocksAreLeft
  PROVE  TypeOK /\ PhaseInv /\ MfsInv /\ [Next]_vars => MfsInv'
<1> SUFFICES ASSUME TypeOK, PhaseInv, MfsInv, [Next]_vars PROVE MfsInv'
  OBVIOUS
<1>1. CASE UNCHANGED vars
  BY <1>1 DEF vars, store, history, MfsInv, Disturbed, Active, Target, CalmInv, GcInv, NewRootInv, Collects
<1>2. ASSUME NEW c \in Calls, Advance(c) \/ Fails(c),
             ~overlap => CalmInv', mfsRoot' \in MfsRoots
      PROVE  MfsInv'
  <2>1. UNCHANGED <<request, loaded, overlap>>
    BY <1>2 DEF Advance, Fails, Enter, Store, PutStored, MfsStored, PinAddCheck, Walk, Record,
       PinRmCheck, Unpin, BlockRmCheck, BlockRmDelete, Mark, Sweep, Swept,
       Ends, Goes, ReleaseAndUnpin, history
  <2>2. \A d \in Calls : Active(d)' => Active(d)
    <3>1. Active(c) /\ \A d \in Calls \ {c} : at'[d] = at[d]
      BY <1>2 DEF Active, TypeOK, Advance, Fails, Enter, Store, PutStored, MfsStored,
         PinAddCheck, Walk, Record, PinRmCheck, Unpin, BlockRmCheck, BlockRmDelete,
         Mark, Sweep, Swept, Ends, Goes, ReleaseAndUnpin
    <3> QED
      BY <3>1 DEF Active
  <2>3. Disturbed' => overlap'
    BY <2>1, <2>2, DisturbedBefore DEF MfsInv
  <2> QED
    BY <1>2, <2>1, <2>3 DEF MfsInv
<1>3. ASSUME NEW c \in Calls, NEW r \in Requests, Begin(c, r) PROVE MfsInv'
  <2>1. UNCHANGED store /\ request' = [request EXCEPT ![c] = r]
        /\ at' = [at EXCEPT ![c] = FirstPhase(r)] /\ loaded' = [loaded EXCEPT ![c] = mfsRoot]
        /\ overlap' = (overlap \/ Disturbed') /\ UNCHANGED marked
    BY <1>3 DEF Begin
  <2>2. Considerate(c)
    BY <1>3 DEF Begin, store, Considerate, TypeOK
  <2>3. GcInv(c)'
    BY <2>1 DEF TypeOK, GcInv, Collects, FirstPhase, store
  <2>4. ~overlap => NewRootInv(c)'
    <3> SUFFICES ASSUME ~overlap, r.op = "mfs"
                 PROVE  Dag[r.cid] \subseteq blocks' \cup todo'[c]
      BY <2>1 DEF TypeOK, NewRootInv
    <3>1. todo'[c] = Dag[r.cid] \ Dag[mfsRoot]
      BY <1>3 DEF Begin, TypeOK
    <3> QED
      BY <2>1, <3>1 DEF MfsInv, CalmInv, store
  <2> QED
    BY <2>1, <2>2, <2>3, <2>4, ConsiderateStep DEF MfsInv, store
<1>4. ASSUME NEW c \in Calls, at[c] \in {"store", "check", "walk", "record", "unpin", "delete", "mark", "sweep"},
             Ends(c), Considerate(c)
      PROVE  ~overlap => CalmInv'
  <2>1. at'[c] = "ended"
    BY <1>4 DEF Ends, TypeOK
  <2>2. GcInv(c)' /\ NewRootInv(c)'
    BY <2>1 DEF GcInv, NewRootInv, Collects, Active
  <2> QED
    BY <1>4, <2>2, ConsiderateStep
<1>5. ASSUME NEW c \in Calls, NEW phase \in {"walk", "record", "unpin", "delete"},
             Active(c), Goes(c, phase), Considerate(c)
      PROVE  ~overlap => CalmInv'
  <2>1. at'[c] = phase /\ UNCHANGED <<request, loaded, mfsRoot>>
    BY <1>5 DEF Goes, TypeOK, Considerate
  <2>2. ~overlap => GcInv(c)' /\ NewRootInv(c)'
    BY <1>5, <2>1 DEF MfsInv, CalmInv, GcInv, NewRootInv, Collects, Active
  <2> QED
    BY <1>5, <2>2, ConsiderateStep
<1>6. ASSUME NEW c \in Calls, ReleaseAndUnpin(c), Active(c) PROVE ~overlap => CalmInv'
  <2>1. at'[c] = "unpin" /\ UNCHANGED <<request, loaded, store>>
    BY <1>6 DEF ReleaseAndUnpin, TypeOK
  <2>2. Considerate(c)
    BY <1>6 DEF ReleaseAndUnpin, Considerate, TypeOK, store
  <2>3. ~overlap => GcInv(c)' /\ NewRootInv(c)'
    BY <1>6, <2>1 DEF MfsInv, CalmInv, GcInv, NewRootInv, Collects, Active, store
  <2> QED
    BY <2>2, <2>3, ConsiderateStep
<1>7. ASSUME NEW c \in Calls, Ends(c), UNCHANGED store PROVE Considerate(c)
  BY <1>7 DEF Ends, Considerate, TypeOK, store
<1>8. ASSUME NEW c \in Calls, NEW phase, Goes(c, phase), UNCHANGED <<pins, mfsRoot>>, blocks \subseteq blocks'
      PROVE  Considerate(c)
  BY <1>8 DEF Goes, Considerate, TypeOK
<1>9. ASSUME NEW c \in Calls, Fails(c) PROVE MfsInv'
  <2>1. mfsRoot' = mfsRoot /\ Active(c)
    BY <1>9 DEF Fails, ReleaseAndUnpin, store, Active
  <2>2. ~overlap => CalmInv'
    BY <1>4, <1>6, <1>7, <1>9, <2>1 DEF Fails
  <2> QED
    BY <1>2, <1>9, <2>1, <2>2 DEF MfsInv
<1>10. ASSUME NEW c \in Calls, Enter(c) PROVE MfsInv'
  <2>1. /\ at[c] = "wait" /\ UNCHANGED <<store, queue, request, todo, marked, loaded, history>>
        /\ at' = [at EXCEPT ![c] = CASE request[c].op = "put" -> "store"
                               [] request[c].op = "gc" -> "mark"
                               [] OTHER -> "check"]
    BY <1>10 DEF Enter
  <2>2. Considerate(c)
    BY <2>1 DEF Considerate, TypeOK, store
  <2>3. ~overlap => GcInv(c)' /\ NewRootInv(c)'
    BY <2>1 DEF MfsInv, CalmInv, GcInv, NewRootInv, Collects, Active, store, TypeOK
  <2>4. ~overlap => CalmInv'
    BY <2>2, <2>3, ConsiderateStep
  <2> QED
    BY <1>2, <1>10, <2>1, <2>4 DEF MfsInv, store, Advance
<1>11. ASSUME NEW c \in Calls, Store(c) PROVE MfsInv'
  <2>1. PICK b \in todo[c] : blocks' = blocks \cup {b} /\ todo' = [todo EXCEPT ![c] = @ \ {b}]
    BY <1>11 DEF Store
  <2>2. UNCHANGED <<pins, mfsRoot, queue, at, request, marked, loaded, history>>
    BY <1>11 DEF Store
  <2>3. Considerate(c)
    BY <2>1, <2>2 DEF Considerate, TypeOK
  <2>4. ~overlap => GcInv(c)' /\ NewRootInv(c)'
    <3>1. todo'[c] = todo[c] \ {b}
      BY <2>1 DEF TypeOK
    <3> QED
      BY <2>1, <2>2, <3>1 DEF MfsInv, CalmInv, GcInv, NewRootInv, Collects, Active
  <2>5. ~overlap => CalmInv'
    BY <2>3, <2>4, ConsiderateStep
  <2> QED
    BY <1>2, <1>11, <2>2, <2>5 DEF MfsInv, Advance
<1>12. ASSUME NEW c \in Calls, PutStored(c) \/ PinAddCheck(c) \/ PinRmCheck(c) \/ BlockRmCheck(c)
       PROVE  MfsInv'
  <2>1. /\ at[c] \in {"store", "check"} /\ UNCHANGED store
        /\ Ends(c) \/ \E phase \in {"walk", "record", "unpin", "delete"} : Goes(c, phase)
    BY <1>12 DEF PutStored, PinAddCheck, PinRmCheck, BlockRmCheck
  <2>2. Active(c)
    BY <2>1 DEF Active
  <2>3. ~overlap => CalmInv'
    BY <1>4, <1>5, <1>7, <1>8, <2>1, <2>2 DEF store
  <2> QED
    BY <1>2, <1>12, <2>1, <2>3 DEF MfsInv, store, Advance
<1>13. ASSUME NEW c \in Calls, MfsStored(c) PROVE MfsInv'
  <2>1. /\ at[c] = "store" /\ todo[c] = {} /\ request[c].op = "mfs" /\ mfsRoot' = request[c].cid
        /\ at' = [at EXCEPT ![c] = "ended"] /\ todo' = [todo EXCEPT ![c] = {}]
        /\ UNCHANGED <<blocks, pins, history, request, marked, loaded>>
    BY <1>13 DEF MfsStored, Ends
  <2>2. mfsRoot' \in MfsRoots
    BY <2>1 DEF PhaseInv, MfsRoots
  <2>3. ~overlap => CalmInv'
    <3> SUFFICES ASSUME ~overlap PROVE CalmInv'
      OBVIOUS
    <3>1. Dag[mfsRoot'] \subseteq blocks'
      BY <2>1 DEF MfsInv, CalmInv, NewRootInv
    <3>2. \A d \in Calls : ~Collects(d)
      BY <2>1 DEF MfsInv, Disturbed, Collects, Active
    <3>3. \A d \in Calls : ~Collects(d)'
      BY <2>1, <3>2 DEF Collects, Active, TypeOK
    <3>4. \A d \in Calls : NewRootInv(d)'
      BY <2>1 DEF MfsInv, CalmInv, NewRootInv, TypeOK
    <3> QED
      BY <3>1, <3>3, <3>4 DEF CalmInv, GcInv
  <2> QED
    BY <1>2, <1>13, <2>2, <2>3 DEF Advance
<1>14. ASSUME NEW c \in Calls, Walk(c) PROVE MfsInv'
  <2>1. Active(c) /\ Goes(c, "record") /\ UNCHANGED <<pins, mfsRoot>> /\ blocks \subseteq blocks'
    BY <1>14 DEF Walk, Active
  <2>2. ~overlap => CalmInv'
    BY <1>5, <1>8, <2>1
  <2> QED
    BY <1>2, <1>14, <2>1, <2>2 DEF MfsInv, Advance
<1>15. ASSUME NEW c \in Calls, Record(c) PROVE MfsInv'
  <2>1. /\ at[c] = "record" /\ UNCHANGED <<blocks, mfsRoot, overlap, request, marked, loaded>>
        /\ pins' = [pins EXCEPT ![Target(c)] = PinType(c)] /\ Active(c)
    BY <1>15 DEF Record, Ends, Active
  <2>2. ~overlap => Considerate(c)
    <3> SUFFICES ASSUME ~overlap PROVE Considerate(c)
      OBVIOUS
    <3>1. \A d \in Calls \ {c} : at'[d] = at[d] /\ todo'[d] = todo[d]
      BY <1>15 DEF Record, Ends, TypeOK
    <3>2. pins'[mfsRoot] \in {pins[mfsRoot], "recursive"} \/ \A d \in Calls \ {c} : ~Collects(d)
      <4>1. CASE PinType(c) = "recursive"
        BY <2>1, <4>1 DEF TypeOK
      <4>2. CASE Target(c) # mfsRoot
        BY <2>1, <4>2 DEF TypeOK
      <4>3. CASE PinType(c) # "recursive" /\ Target(c) = mfsRoot
        <5>1. request[c].op = "pinAdd"
          BY <4>3 DEF PinType
        <5>2. \A d \in Calls \ {c} : Collects(d) => loaded[d] = mfsRoot
          BY DEF MfsInv, CalmInv, GcInv
        <5> QED
          BY <2>1, <4>3, <5>1, <5>2 DEF MfsInv, Disturbed, Collects
      <4> QED
        BY <4>1, <4>2, <4>3
    <3> QED
      BY <2>1, <3>1, <3>2 DEF Considerate
  <2>3. CASE request[c].op = "gc"
    <3>1. at'[c] = "wait"
      BY <1>15, <2>3 DEF Record, TypeOK
    <3>2. ~overlap => GcInv(c)' /\ NewRootInv(c)'
      <4> SUFFICES ASSUME ~overlap PROVE GcInv(c)' /\ NewRootInv(c)'
        OBVIOUS
      <4>1. loaded[c] = mfsRoot
        BY <2>1, <2>3 DEF MfsInv, CalmInv, GcInv, Collects
      <4>2. pins'[mfsRoot] = "recursive"
        BY <2>1, <2>3, <4>1 DEF TypeOK, PinType, Target
      <4> QED
        BY <2>1, <3>1, <4>1, <4>2 DEF GcInv, NewRootInv
    <3> QED
      BY <1>2, <1>15, <2>1, <2>2, <3>2, ConsiderateStep DEF MfsInv, Advance
  <2>4. CASE request[c].op # "gc"
    <3>1. Ends(c)
      BY <1>15, <2>4 DEF Record
    <3> QED
      BY <1>2, <1>4, <1>15, <2>1, <2>2, <3>1 DEF MfsInv, Advance
  <2> QED
    BY <2>3, <2>4
<1>16. ASSUME NEW c \in Calls, Unpin(c) PROVE MfsInv'
  <2>1. /\ at[c] = "unpin" /\ Ends(c) /\ UNCHANGED <<blocks, mfsRoot>> /\ Active(c)
        /\ pins' = [pins EXCEPT ![Target(c)] = "none"]
    BY <1>16 DEF Unpin, Active
  <2>2. ~overlap => Considerate(c)
    <3> SUFFICES ASSUME ~overlap PROVE Considerate(c)
      OBVIOUS
    <3>1. pins'[mfsRoot] = pins[mfsRoot] \/ \A d \in Calls \ {c} : ~Collects(d)
      <4>1. CASE Target(c) # mfsRoot
        BY <2>1, <4>1 DEF TypeOK
      <4>2. CASE Target(c) = mfsRoot
        <5>1. request[c].op \in {"pinRm", "gc"}
          BY <2>1 DEF PhaseInv, OpsOf
        <5>2. \A d \in Calls \ {c} : Collects(d) => loaded[d] = mfsRoot
          BY DEF MfsInv, CalmInv, GcInv
        <5> QED
          BY <2>1, <4>2, <5>1, <5>2 DEF MfsInv, Disturbed, Collects
      <4> QED
        BY <4>1, <4>2
    <3> QED
      BY <2>1, <3>1 DEF Considerate, Ends, TypeOK
  <2>3. ~overlap => CalmInv'
    BY <1>4, <2>1, <2>2
  <2> QED
    BY <1>2, <1>16, <2>1, <2>3 DEF MfsInv, Advance
<1>17. ASSUME NEW c \in Calls, BlockRmDelete(c) PROVE MfsInv'
  <2>1. /\ at[c] = "delete" /\ Ends(c) /\ UNCHANGED <<pins, mfsRoot>> /\ Active(c)
        /\ blocks' = blocks \ {Target(c)}
    BY <1>17 DEF BlockRmDelete, Active
  <2>2. request[c] \in Requests /\ request[c].op = "blockRm"
    BY <2>1 DEF PhaseInv, OpsOf
  <2>3. \A root \in MfsRoots : Target(c) \notin Dag[root]
    BY <2>2 DEF MfsBlocksAreLeft, Target
  <2>4. Considerate(c)
    BY <2>1, <2>3 DEF Considerate, Ends, TypeOK
  <2>5. ~overlap => CalmInv'
    BY <1>4, <2>1, <2>4
  <2> QED
    BY <1>2, <1>17, <2>1, <2>5 DEF MfsInv, Advance
<1>18. ASSUME NEW c \in Calls, Mark(c) PROVE MfsInv'
  <2>1. /\ at[c] = "mark" /\ UNCHANGED <<store, queue, request, loaded, history>>
        /\ marked' = [marked EXCEPT ![c] = Kept] /\ at' = [at EXCEPT ![c] = "sweep"]
        /\ \A d \in Calls \ {c} : todo'[d] = todo[d]
    BY <1>18 DEF Mark, TypeOK
  <2>2. Considerate(c)
    BY <2>1 DEF Considerate, TypeOK, store
  <2>3. ~overlap => GcInv(c)' /\ NewRootInv(c)'
    <3> SUFFICES ASSUME ~overlap PROVE GcInv(c)' /\ NewRootInv(c)'
      OBVIOUS
    <3>1. Collects(c)
      BY <2>1 DEF PhaseInv, OpsOf, Collects, Active
    <3>2. loaded[c] = mfsRoot /\ pins[mfsRoot] = "recursive"
      BY <2>1, <3>1 DEF MfsInv, CalmInv, GcInv
    <3>3. Dag[mfsRoot] \subseteq Kept
      BY <3>2 DEF Kept, Need, TypeOK
    <3>4. at'[c] = "sweep" /\ marked'[c] = Kept /\ UNCHANGED <<loaded, mfsRoot>>
      BY <2>1 DEF TypeOK, store
    <3> QED
      BY <3>2, <3>3, <3>4 DEF GcInv, NewRootInv
  <2>4. ~overlap => CalmInv'
    BY <2>2, <2>3, ConsiderateStep
  <2> QED
    BY <1>2, <1>18, <2>1, <2>4 DEF MfsInv, Advance, store
<1>19. ASSUME NEW c \in Calls, Sweep(c) PROVE MfsInv'
  <2>1. PICK b \in blocks \ marked[c] : blocks' = blocks \ {b} /\ todo' = [todo EXCEPT ![c] = @ \ {b}]
    BY <1>19 DEF Sweep
  <2>2. at[c] = "sweep" /\ UNCHANGED <<pins, mfsRoot, queue, at, request, marked, loaded, history>>
    BY <1>19 DEF Sweep
  <2>3. ~overlap => CalmInv'
    <3> SUFFICES ASSUME ~overlap PROVE CalmInv'
      OBVIOUS
    <3>1. Collects(c)
      BY <2>2 DEF PhaseInv, OpsOf, Collects, Active
    <3>2. Dag[mfsRoot] \subseteq blocks'
      BY <2>1, <2>2, <3>1 DEF MfsInv, CalmInv, GcInv
    <3>3. \A d \in Calls : ~(at[d] = "store" /\ request[d].op = "mfs")
      BY <3>1, <2>2 DEF MfsInv, Disturbed, Collects, Active
    <3>4. \A d \in Calls : GcInv(d)' /\ NewRootInv(d)'
      BY <2>2, <3>3 DEF MfsInv, CalmInv, GcInv, Collects, Active, NewRootInv
    <3> QED
      BY <2>2, <3>2, <3>4 DEF CalmInv
  <2> QED
    BY <1>2, <1>19, <2>2, <2>3 DEF MfsInv, Advance
<1>20. ASSUME NEW c \in Calls, Swept(c) PROVE MfsInv'
  <2>1. ReleaseAndUnpin(c) /\ Active(c) /\ UNCHANGED mfsRoot
    BY <1>20 DEF Swept, Active, ReleaseAndUnpin, store
  <2> QED
    BY <1>2, <1>6, <1>20, <2>1 DEF MfsInv, Advance
<1> QED
  BY <1>1, <1>3, <1>9, <1>10, <1>11, <1>12, <1>13, <1>14, <1>15, <1>16, <1>17, <1>18, <1>19, <1>20
  DEF Next, Advance

(* A gc that nothing has disturbed leaves the whole MFS in the blockstore,  *)
(* although neither it nor the MFS takes the other's lock (gc.js:40-48).   *)
THEOREM MfsIsSpared ==
  ASSUME MfsBlocksAreLeft
  PROVE  Spec => []UndisturbedMfsIsKept
<1> DEFINE IInv == TypeOK /\ PhaseInv /\ MfsInv
<1>1. Init => IInv
  BY TypeInit, MfsInit
<1>2. IInv /\ [Next]_vars => IInv'
  BY TypeStep, MfsStep
<1>3. IInv => UndisturbedMfsIsKept
  BY DEF MfsInv, CalmInv, UndisturbedMfsIsKept
<1> HIDE DEF IInv
<1> QED
  BY <1>1, <1>2, <1>3, PTL DEF Spec
=============================================================================
