------------------------------ MODULE Mortice ------------------------------
(***************************************************************************)
(* The read/write lock of the npm package mortice, which is not part of   *)
(* the repository, as the two users of it rely on it:                     *)
(* utils/create-lock.js of the MFS and repo.gcLock.                       *)
(*                                                                        *)
(* A lock is a queue of batches.  The first batch holds the lock; readers *)
(* that arrive one after the other share a batch, a writer has its own.   *)
(***************************************************************************)
EXTENDS Sequences, SequencesExt

(* A batch that nobody is in would hold the lock for ever. *)
Batches(Calls) == [mode : {"read", "write"}, calls : (SUBSET Calls) \ {{}}]

ReadBatch(cs) == [mode |-> "read", calls |-> cs]
WriteBatch(c) == [mode |-> "write", calls |-> {c}]

(* lock.readLock() and lock.writeLock() are called. *)
QueueRead(queue, c) ==
  IF queue # <<>> /\ Last(queue).mode = "read"
    THEN Append(Front(queue), ReadBatch(Last(queue).calls \cup {c}))
    ELSE Append(queue, ReadBatch({c}))

QueueWrite(queue, c) == Append(queue, WriteBatch(c))

(* The promise of readLock(), of writeLock(), has resolved. *)
ReadHeld(queue, c) == queue # <<>> /\ Head(queue).mode = "read" /\ c \in Head(queue).calls
WriteHeld(queue, c) == queue # <<>> /\ Head(queue) = WriteBatch(c)
Held(queue, c) == queue # <<>> /\ c \in Head(queue).calls

(* Faulty variant: the last one to leave does not hand the lock on. *)
FaultyReleased(queue, c) ==
  IF Held(queue, c)
    THEN <<[Head(queue) EXCEPT !.calls = @ \ {c}]>> \o Tail(queue)
    ELSE queue

(* release() is called; a second call of it does nothing. *)
Released(queue, c) ==
  IF ~Held(queue, c) THEN queue
  ELSE IF Head(queue).calls = {c} THEN Tail(queue)
  ELSE <<[Head(queue) EXCEPT !.calls = @ \ {c}]>> \o Tail(queue)
=============================================================================
