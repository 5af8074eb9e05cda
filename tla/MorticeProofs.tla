--------------------------- MODULE MorticeProofs ---------------------------
(***************************************************************************)
(* What the operations of the lock do to those who hold it: nobody loses   *)
(* it because another call queues or releases, and a writer is alone.     *)
(***************************************************************************)
EXTENDS Mortice, Integers, SequenceTheorems, TLAPS

LEMMA WriterIsAlone ==
  ASSUME NEW q, NEW c, NEW d, WriteHeld(q, c)
  PROVE  ~ReadHeld(q, d) /\ (WriteHeld(q, d) => c = d)
BY DEF ReadHeld, WriteHeld, WriteBatch

LEMMA QueueWriteKeeps ==
  ASSUME NEW Calls, NEW q \in Seq(Batches(Calls)), NEW c \in Calls
  PROVE  /\ QueueWrite(q, c) \in Seq(Batches(Calls))
         /\ \A d : ReadHeld(q, d) => ReadHeld(QueueWrite(q, c), d)
         /\ \A d : WriteHeld(q, d) => WriteHeld(QueueWrite(q, c), d)
<1>1. WriteBatch(c) \in Batches(Calls)
  BY DEF WriteBatch, Batches
<1>2. QueueWrite(q, c) \in Seq(Batches(Calls)) /\ Len(QueueWrite(q, c)) = Len(q) + 1
  BY <1>1 DEF QueueWrite
<1>3. q # <<>> => Head(QueueWrite(q, c)) = Head(q) /\ QueueWrite(q, c) # <<>>
  BY <1>1 DEF QueueWrite
<1> QED
  BY <1>2, <1>3 DEF ReadHeld, WriteHeld

LEMMA FrontIsFirst ==
  ASSUME NEW S, NEW q \in Seq(S), q # <<>>
  PROVE  /\ Front(q) \in Seq(S) /\ Len(Front(q)) = Len(q) - 1
         /\ \A i \in 1 .. Len(q) - 1 : Front(q)[i] = q[i]
<1> DEFINE n == Len(q) - 1
<1>1. Len(q) \in Nat \ {0} /\ n \in Nat /\ n \in Int /\ \A i \in 1 .. n : q[i] \in S
  OBVIOUS
<1>2. Front(q) = SubSeq(q, 1, n)
  BY <1>1 DEF Front
<1> HIDE DEF n
<1>3. /\ SubSeq(q, 1, n) \in Seq(S)
      /\ Len(SubSeq(q, 1, n)) = IF 1 <= n THEN n - 1 + 1 ELSE 0
      /\ \A i \in 1 .. n - 1 + 1 : SubSeq(q, 1, n)[i] = q[1 + i - 1]
  BY <1>1, SubSeqProperties
<1>4. (IF 1 <= n THEN n - 1 + 1 ELSE 0) = n
  BY <1>1
<1>5. Len(SubSeq(q, 1, n)) = n
  BY <1>3, <1>4
<1>6. ASSUME NEW i \in 1 .. n PROVE SubSeq(q, 1, n)[i] = q[i]
  <2>1. i \in 1 .. n - 1 + 1 /\ 1 + i - 1 = i
    BY <1>1
  <2> QED
    BY <1>3, <2>1
<1> QED
  BY <1>2, <1>3, <1>5, <1>6 DEF n

LEMMA QueueReadKeeps ==
  ASSUME NEW Calls, NEW q \in Seq(Batches(Calls)), NEW c \in Calls
  PROVE  /\ QueueRead(q, c) \in Seq(Batches(Calls))
         /\ \A d : ReadHeld(q, d) => ReadHeld(QueueRead(q, c), d)
         /\ \A d : WriteHeld(q, d) => WriteHeld(QueueRead(q, c), d)
<1>1. CASE q # <<>> /\ Last(q).mode = "read"
  <2> DEFINE joined == ReadBatch(Last(q).calls \cup {c})
  <2>1. Len(q) \in Nat \ {0} /\ Last(q) = q[Len(q)] /\ Last(q) \in Batches(Calls)
    BY <1>1 DEF Last
  <2>2. joined \in Batches(Calls)
    BY <2>1 DEF ReadBatch, Batches
  <2>3. Front(q) \in Seq(Batches(Calls)) /\ Len(Front(q)) = Len(q) - 1
        /\ \A i \in 1 .. Len(q) - 1 : Front(q)[i] = q[i]
    BY <1>1, FrontIsFirst
  <2>4. QueueRead(q, c) = Append(Front(q), joined)
    BY <1>1 DEF QueueRead
  <2>5. QueueRead(q, c) \in Seq(Batches(Calls)) /\ QueueRead(q, c) # <<>>
    BY <2>2, <2>3, <2>4
  <2>6. CASE Len(q) = 1
    <3>1. Head(q) = Last(q) /\ Head(QueueRead(q, c)) = joined
      BY <2>1, <2>2, <2>3, <2>4, <2>6
    <3> QED
      BY <1>1, <2>5, <3>1 DEF ReadHeld, WriteHeld, ReadBatch, WriteBatch
  <2>7. CASE Len(q) # 1
    <3>1. Head(QueueRead(q, c)) = Head(q)
      BY <2>1, <2>2, <2>3, <2>4, <2>7
    <3> QED
      BY <1>1, <2>5, <3>1 DEF ReadHeld, WriteHeld
  <2> QED
    BY <2>6, <2>7
<1>2. CASE ~(q # <<>> /\ Last(q).mode = "read")
  <2>1. ReadBatch({c}) \in Batches(Calls)
    BY DEF ReadBatch, Batches
  <2>2. QueueRead(q, c) = Append(q, ReadBatch({c}))
    BY <1>2 DEF QueueRead
  <2>3. QueueRead(q, c) \in Seq(Batches(Calls)) /\ QueueRead(q, c) # <<>>
    BY <2>1, <2>2
  <2>4. q # <<>> => Head(QueueRead(q, c)) = Head(q)
    BY <2>1, <2>2
  <2> QED
    BY <2>3, <2>4 DEF ReadHeld, WriteHeld
<1> QED
  BY <1>1, <1>2

LEMMA ReleasedKeeps ==
  ASSUME NEW Calls, NEW q \in Seq(Batches(Calls)), NEW c \in Calls
  PROVE  /\ Released(q, c) \in Seq(Batches(Calls))
         /\ \A d : d # c /\ ReadHeld(q, d) => ReadHeld(Released(q, c), d)
         /\ \A d : d # c /\ WriteHeld(q, d) => WriteHeld(Released(q, c), d)
<1>1. CASE ~Held(q, c)
  BY <1>1 DEF Released
<1>2. CASE Held(q, c) /\ Head(q).calls = {c}
  <2>1. Released(q, c) = Tail(q) /\ q # <<>>
    BY <1>2 DEF Released, Held
  <2> QED
    BY <1>2, <2>1 DEF ReadHeld, WriteHeld, WriteBatch
<1>3. CASE Held(q, c) /\ Head(q).calls # {c}
  <2> DEFINE rest == [Head(q) EXCEPT !.calls = @ \ {c}]
  <2>1. q # <<>> /\ Head(q) \in Batches(Calls) /\ Tail(q) \in Seq(Batches(Calls))
    BY <1>3 DEF Held
  <2>2. rest \in Batches(Calls)
    BY <1>3, <2>1 DEF Held, Batches
  <2>3. Released(q, c) = <<rest>> \o Tail(q)
    BY <1>3 DEF Released
  <2>4. Released(q, c) \in Seq(Batches(Calls)) /\ Released(q, c) # <<>>
        /\ Head(Released(q, c)) = rest
    BY <2>1, <2>2, <2>3
  <2>5. rest.mode = Head(q).mode /\ rest.calls = Head(q).calls \ {c}
    BY <2>1 DEF Batches
  <2>6. ASSUME NEW d, d # c, ReadHeld(q, d) PROVE ReadHeld(Released(q, c), d)
    BY <2>4, <2>5, <2>6 DEF ReadHeld
  <2>7. ASSUME NEW d, d # c, WriteHeld(q, d) PROVE FALSE
    BY <1>3, <2>7 DEF WriteHeld, WriteBatch, Held
  <2> HIDE DEF rest
  <2> QED
    BY <2>4, <2>6, <2>7
<1> QED
  BY <1>1, <1>2, <1>3

-----------------------------------------------------------------------------
(* Where in the queue a call is.                                          *)
Absent(q, c) == \A i \in 1 .. Len(q) : c \notin q[i].calls
OnlyWrites(q, c) == \A i \in 1 .. Len(q) : c \in q[i].calls => q[i] = WriteBatch(c)
AtFront(q, c) == \A i \in 1 .. Len(q) : c \in q[i].calls => i = 1
Once(q, c) == \A i, j \in 1 .. Len(q) : c \in q[i].calls /\ c \in q[j].calls => i = j

LEMMA AbsentIsAnything ==
  ASSUME NEW q, NEW c, Absent(q, c)
  PROVE  OnlyWrites(q, c) /\ AtFront(q, c) /\ Once(q, c)
BY DEF Absent, OnlyWrites, AtFront, Once

LEMMA HoldersAreAtFront ==
  ASSUME NEW S, NEW q \in Seq(S), NEW c, Once(q, c), Held(q, c)
  PROVE  AtFront(q, c)
<1>1. 1 \in 1 .. Len(q) /\ Head(q) = q[1]
  BY DEF Held
<1> QED
  BY <1>1 DEF Held, Once, AtFront

LEMMA HoldersHold ==
  ASSUME NEW q, NEW c, ReadHeld(q, c) \/ WriteHeld(q, c)
  PROVE  Held(q, c)
BY DEF ReadHeld, WriteHeld, Held, WriteBatch

LEMMA WritersHoldToWrite ==
  ASSUME NEW S, NEW q \in Seq(S), NEW c, OnlyWrites(q, c), Held(q, c)
  PROVE  WriteHeld(q, c)
<1>1. 1 \in 1 .. Len(q) /\ Head(q) = q[1]
  BY DEF Held
<1> QED
  BY <1>1 DEF Held, OnlyWrites, WriteHeld

(* The others in `next` were in `q`, `by` places further back, in the same *)
(* batch if they write.                                                   *)
Moved(q, next, c, by) ==
  \A d : d # c =>
    \A i \in 1 .. Len(next) : d \in next[i].calls =>
      /\ i + by \in 1 .. Len(q) /\ d \in q[i + by].calls
      /\ q[i + by] = WriteBatch(d) => next[i] = WriteBatch(d)

LEMMA MovedKeeps ==
  ASSUME NEW S, NEW q \in Seq(S), NEW next \in Seq(S), NEW c, NEW by \in {0, 1},
         Moved(q, next, c, by), NEW d, d # c
  PROVE  /\ Absent(q, d) => Absent(next, d)
         /\ OnlyWrites(q, d) => OnlyWrites(next, d)
         /\ AtFront(q, d) => AtFront(next, d)
         /\ Once(q, d) => Once(next, d)
         /\ AtFront(q, d) /\ Held(next, d) => Held(q, d)
<1>1. \A i \in 1 .. Len(next) : d \in next[i].calls =>
        /\ i + by \in 1 .. Len(q) /\ d \in q[i + by].calls
        /\ q[i + by] = WriteBatch(d) => next[i] = WriteBatch(d)
  BY DEF Moved
<1>2. \A i, j \in Nat : i + by = j + by => i = j
  OBVIOUS
<1>3. \A i \in Nat \ {0} : i + by = 1 => i = 1
  OBVIOUS
<1>4. (Absent(q, d) => Absent(next, d)) /\ (OnlyWrites(q, d) => OnlyWrites(next, d))
  BY <1>1 DEF Absent, OnlyWrites
<1>5. AtFront(q, d) => AtFront(next, d)
  BY <1>1, <1>3 DEF AtFront
<1>6. Once(q, d) => Once(next, d)
  BY <1>1, <1>2 DEF Once
<1>7. AtFront(q, d) /\ Held(next, d) => Held(q, d)
  <2> SUFFICES ASSUME AtFront(q, d), Held(next, d) PROVE Held(q, d)
    OBVIOUS
  <2>1. 1 \in 1 .. Len(next) /\ d \in next[1].calls
    BY DEF Held
  <2>2. 1 + by \in 1 .. Len(q) /\ d \in q[1 + by].calls
    BY <1>1, <2>1
  <2>3. 1 + by = 1
    BY <2>2 DEF AtFront
  <2>4. q # <<>> /\ Head(q) = q[1]
    BY <2>2
  <2> QED
    BY <2>2, <2>3, <2>4 DEF Held
<1> QED
  BY <1>4, <1>5, <1>6, <1>7

LEMMA AppendMoves ==
  ASSUME NEW S, NEW q \in Seq(S), NEW c, NEW b \in S, b.calls = {c}
  PROVE  /\ Moved(q, Append(q, b), c, 0)
         /\ Absent(q, c) => Once(Append(q, b), c)
         /\ Absent(q, c) /\ b = WriteBatch(c) => OnlyWrites(Append(q, b), c)
<1> DEFINE next == Append(q, b)
<1>1. /\ Len(q) \in Nat /\ Len(next) = Len(q) + 1 /\ next[Len(q) + 1] = b
      /\ \A i \in 1 .. Len(q) : next[i] = q[i]
  BY AppendProperties
<1> HIDE DEF next
<1>2. \A i \in 1 .. Len(next) : i = Len(q) + 1 \/ i \in 1 .. Len(q)
  BY <1>1
<1>3. \A i \in 1 .. Len(q) : i + 0 = i
  BY <1>1
<1>4. Moved(q, next, c, 0)
  BY <1>1, <1>2, <1>3 DEF Moved
<1>5. Absent(q, c) => \A i \in 1 .. Len(next) : c \in next[i].calls => i = Len(q) + 1
  BY <1>1, <1>2 DEF Absent
<1>6. Absent(q, c) => Once(next, c)
  BY <1>5 DEF Once
<1>7. Absent(q, c) /\ b = WriteBatch(c) => OnlyWrites(next, c)
  BY <1>1, <1>5 DEF OnlyWrites
<1> QED
  BY <1>4, <1>6, <1>7 DEF next

LEMMA QueueReadMoves ==
  ASSUME NEW Calls, NEW q \in Seq(Batches(Calls)), NEW c \in Calls
  PROVE  Moved(q, QueueRead(q, c), c, 0) /\ (Absent(q, c) => Once(QueueRead(q, c), c))
<1>1. CASE q # <<>> /\ Last(q).mode = "read"
  <2> DEFINE joined == ReadBatch(Last(q).calls \cup {c})
             first == Front(q)
             next == Append(first, joined)
  <2>1. Len(q) \in Nat \ {0} /\ Last(q) = q[Len(q)] /\ Last(q) \in Batches(Calls)
    BY <1>1 DEF Last
  <2>2. joined \in Batches(Calls) /\ joined.calls = q[Len(q)].calls \cup {c}
    BY <2>1 DEF ReadBatch, Batches
  <2>3. first \in Seq(Batches(Calls)) /\ Len(first) = Len(q) - 1
        /\ \A i \in 1 .. Len(q) - 1 : first[i] = q[i]
    BY <1>1, FrontIsFirst
  <2> HIDE DEF joined, first
  <2>4. /\ Len(next) = Len(first) + 1 /\ next[Len(first) + 1] = joined
        /\ \A i \in 1 .. Len(first) : next[i] = first[i]
    BY <2>2, <2>3, AppendProperties
  <2>5. QueueRead(q, c) = next
    BY <1>1 DEF QueueRead, joined, first
  <2> HIDE DEF next
  <2>6. Len(next) = Len(q) /\ next[Len(q)] = joined /\ \A i \in 1 .. Len(q) - 1 : next[i] = q[i]
    BY <2>1, <2>3, <2>4
  <2>7. \A i \in 1 .. Len(q) : i + 0 = i /\ (i = Len(q) \/ i \in 1 .. Len(q) - 1)
    BY <2>1
  <2>8. \A d : q[Len(q)] # WriteBatch(d)
    BY <1>1, <2>1 DEF WriteBatch
  <2>9. Moved(q, next, c, 0)
    <3> SUFFICES ASSUME NEW d, d # c, NEW i \in 1 .. Len(next), d \in next[i].calls
                 PROVE  /\ i + 0 \in 1 .. Len(q) /\ d \in q[i + 0].calls
                        /\ q[i + 0] = WriteBatch(d) => next[i] = WriteBatch(d)
      BY DEF Moved
    <3>1. i \in 1 .. Len(q) /\ i + 0 = i
      BY <2>6, <2>7
    <3>2. CASE i = Len(q)
      BY <2>2, <2>6, <2>8, <3>1, <3>2
    <3>3. CASE i \in 1 .. Len(q) - 1
      BY <2>6, <3>1, <3>3
    <3> QED
      BY <2>7, <3>1, <3>2, <3>3
  <2>10. Absent(q, c) => \A i \in 1 .. Len(next) : c \in next[i].calls => i = Len(q)
    BY <2>6, <2>7 DEF Absent
  <2>11. Absent(q, c) => Once(next, c)
    BY <2>10 DEF Once
  <2> QED
    BY <2>5, <2>9, <2>11
<1>2. CASE ~(q # <<>> /\ Last(q).mode = "read")
  <2>1. ReadBatch({c}) \in Batches(Calls) /\ ReadBatch({c}).calls = {c}
    BY DEF ReadBatch, Batches
  <2>2. QueueRead(q, c) = Append(q, ReadBatch({c}))
    BY <1>2 DEF QueueRead
  <2> QED
    BY <2>1, <2>2, AppendMoves
<1> QED
  BY <1>1, <1>2

LEMMA QueueWriteMoves ==
  ASSUME NEW Calls, NEW q \in Seq(Batches(Calls)), NEW c \in Calls
  PROVE  /\ Moved(q, QueueWrite(q, c), c, 0)
         /\ Absent(q, c) => Once(QueueWrite(q, c), c) /\ OnlyWrites(QueueWrite(q, c), c)
<1>1. WriteBatch(c) \in Batches(Calls) /\ WriteBatch(c).calls = {c}
  BY DEF WriteBatch, Batches
<1> QED
  BY <1>1, AppendMoves DEF QueueWrite

LEMMA ReleasedMoves ==
  ASSUME NEW Calls, NEW q \in Seq(Batches(Calls)), NEW c \in Calls
  PROVE  /\ \E by \in {0, 1} : Moved(q, Released(q, c), c, by)
         /\ AtFront(q, c) => Absent(Released(q, c), c)
<1>1. CASE ~Held(q, c)
  <2>1. Released(q, c) = q
    BY <1>1 DEF Released
  <2>2. \A i \in 1 .. Len(q) : i + 0 = i
    OBVIOUS
  <2>3. Moved(q, q, c, 0)
    BY <2>2 DEF Moved
  <2>4. q = <<>> \/ (q # <<>> /\ Head(q) = q[1])
    OBVIOUS
  <2>5. AtFront(q, c) => Absent(q, c)
    BY <1>1, <2>4 DEF Held, AtFront, Absent
  <2> QED
    BY <2>1, <2>3, <2>5
<1>2. CASE Held(q, c) /\ Head(q).calls = {c}
  <2> DEFINE next == Tail(q)
  <2>1. Released(q, c) = next /\ q # <<>>
    BY <1>2 DEF Released, Held
  <2>2. Len(q) \in Nat \ {0} /\ Len(next) = Len(q) - 1
        /\ \A i \in 1 .. Len(next) : next[i] = q[i + 1]
    BY <2>1, HeadTailProperties
  <2> HIDE DEF next
  <2>3. \A i \in 1 .. Len(next) : i + 1 \in 1 .. Len(q) /\ i + 1 # 1
    BY <2>2
  <2>4. Moved(q, next, c, 1)
    BY <2>2, <2>3 DEF Moved
  <2>5. AtFront(q, c) => Absent(next, c)
    BY <2>2, <2>3 DEF AtFront, Absent
  <2> QED
    BY <2>1, <2>4, <2>5
<1>3. CASE Held(q, c) /\ Head(q).calls # {c}
  <2> DEFINE rest == [Head(q) EXCEPT !.calls = @ \ {c}]
             next == <<rest>> \o Tail(q)
  <2>1. q # <<>> /\ Head(q) \in Batches(Calls) /\ Tail(q) \in Seq(Batches(Calls)) /\ Head(q) = q[1]
    BY <1>3 DEF Held
  <2>2. rest \in Batches(Calls) /\ rest.calls = q[1].calls \ {c}
    BY <1>3, <2>1 DEF Held, Batches
  <2>3. Released(q, c) = next
    BY <1>3 DEF Released
  <2> HIDE DEF rest
  <2>4. Len(q) \in Nat \ {0} /\ Len(next) = Len(q) /\ next[1] = rest
        /\ \A i \in 2 .. Len(q) : next[i] = q[i]
    BY <2>1, <2>2
  <2> HIDE DEF next
  <2>5. \A i \in 1 .. Len(q) : i + 0 = i /\ (i = 1 \/ i \in 2 .. Len(q))
    BY <2>4
  <2>6. \A d : q[1] # WriteBatch(d) \/ d = c
    BY <1>3, <2>1 DEF WriteBatch, Held
  <2>7. Moved(q, next, c, 0)
    BY <2>2, <2>4, <2>5, <2>6 DEF Moved
  <2>8. AtFront(q, c) => Absent(next, c)
    BY <2>2, <2>4, <2>5 DEF AtFront, Absent
  <2> QED
    BY <2>3, <2>7, <2>8
<1> QED
  BY <1>1, <1>2, <1>3
=============================================================================
