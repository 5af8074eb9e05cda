------------------------- MODULE MessagePortProofs -------------------------
(***************************************************************************)
(* The transport and the server of MessagePort for any number of           *)
(* transports and queries: types, one promise per query, the order of the  *)
(* messages, and that an answer comes from the service of its query.      *)
(***************************************************************************)
EXTENDS MessagePort, FiniteSetTheorems, TLAPS

Query(c) == [type : {"query", "abort"}, id : Of(c)]
Reply(c) == [id : Of(c), result : {"value", "error"}]

LEMMA IdFacts ==
  /\ \A c \in Clients : \A k \in 1 .. MaxQueries[c] : <<c, k>> \in Of(c)
  /\ \A c \in Clients : \A id \in Of(c) :
       id \in Ids /\ id[1] = c /\ id[2] \in 1 .. MaxQueries[c] /\ id = <<c, id[2]>>
  /\ \A id \in Ids : id[1] \in Clients /\ id \in Of(id[1])
  /\ \A c \in Clients : MaxQueries[c] \in Nat
  BY MessagePortAssumption DEF Ids, Of

-----------------------------------------------------------------------------
(* Sequences of messages.                                                 *)

(* A message does not come before one that was posted earlier. *)
Before(m, n) ==
  /\ m.type = "query" /\ n.type = "query" => m.id[2] < n.id[2]
  /\ m.type = "abort" /\ n.type = "query" => m.id # n.id

Ordered(s) == \A j, k \in 1 .. Len(s) : j < k => Before(s[j], s[k])

LEMMA ConcatElements ==
  ASSUME NEW S, NEW s \in Seq(S), NEW t \in Seq(S)
  PROVE  /\ s \o t \in Seq(S)
         /\ \A k \in 1 .. Len(s \o t) :
              \/ k \in 1 .. Len(s) /\ (s \o t)[k] = s[k]
              \/ /\ k > Len(s) /\ k - Len(s) \in 1 .. Len(t)
                 /\ (s \o t)[k] = t[k - Len(s)]
  OBVIOUS

LEMMA TailElements ==
  ASSUME NEW S, NEW s \in Seq(S), s # <<>>
  PROVE  /\ Tail(s) \in Seq(S) /\ Head(s) = s[1] /\ 1 \in 1 .. Len(s) /\ s[1] \in S
         /\ \A k \in 1 .. Len(Tail(s)) : k + 1 \in 1 .. Len(s) /\ Tail(s)[k] = s[k + 1]
  OBVIOUS

LEMMA OrderedConcat ==
  ASSUME NEW S, NEW s \in Seq(S), NEW t \in Seq(S), Ordered(s), Ordered(t),
         \A j \in 1 .. Len(s), k \in 1 .. Len(t) : Before(s[j], t[k])
  PROVE  Ordered(s \o t)
<1> SUFFICES ASSUME NEW j \in 1 .. Len(s \o t), NEW k \in 1 .. Len(s \o t), j < k
             PROVE  Before((s \o t)[j], (s \o t)[k])
  BY DEF Ordered
<1>1. CASE j \in 1 .. Len(s) /\ k \in 1 .. Len(s)
  BY <1>1, ConcatElements DEF Ordered
<1>2. CASE j \in 1 .. Len(s) /\ k > Len(s)
  BY <1>2, ConcatElements
<1>3. CASE j > Len(s) /\ k > Len(s)
  <2>1. /\ (s \o t)[j] = t[j - Len(s)] /\ j - Len(s) \in 1 .. Len(t)
        /\ (s \o t)[k] = t[k - Len(s)] /\ k - Len(s) \in 1 .. Len(t)
    BY <1>3, ConcatElements
  <2>2. j - Len(s) < k - Len(s)
    BY <1>3
  <2> QED
    BY <2>1, <2>2 DEF Ordered
<1> QED
  BY <1>1, <1>2, <1>3

LEMMA OrderedTail ==
  ASSUME NEW S, NEW s \in Seq(S), s # <<>>, Ordered(s)
  PROVE  /\ Ordered(Tail(s))
         /\ \A k \in 1 .. Len(Tail(s)) : Before(Head(s), Tail(s)[k])
<1>1. \A k \in 1 .. Len(Tail(s)) : k + 1 \in 1 .. Len(s) /\ Tail(s)[k] = s[k + 1]
  BY TailElements
<1>2. Head(s) = s[1] /\ 1 \in 1 .. Len(s)
  BY TailElements
<1>3. Ordered(Tail(s))
  <2> SUFFICES ASSUME NEW j \in 1 .. Len(Tail(s)), NEW k \in 1 .. Len(Tail(s)), j < k
               PROVE  Before(Tail(s)[j], Tail(s)[k])
    BY DEF Ordered
  <2>1. j + 1 < k + 1
    OBVIOUS
  <2> QED
    BY <1>1, <2>1 DEF Ordered
<1>4. ASSUME NEW k \in 1 .. Len(Tail(s))
      PROVE  Before(Head(s), Tail(s)[k])
  <2>1. 1 < k + 1
    OBVIOUS
  <2> QED
    BY <1>1, <1>2, <2>1 DEF Ordered
<1> QED
  BY <1>3, <1>4

(* The entries of a dictionary as messages. *)
LEMMA EntriesAsMessages ==
  ASSUME NEW c \in Clients, NEW ids \in SUBSET Of(c), NEW s \in Entries(ids),
         NEW type \in {"query", "abort"}
  PROVE  /\ Messages(type, s) \in Seq(Query(c))
         /\ Ordered(Messages(type, s))
         /\ \A k \in 1 .. Len(Messages(type, s)) :
              Messages(type, s)[k].type = type /\ Messages(type, s)[k].id \in ids
<1>1. Cardinality(ids) \in Nat
  <2> DEFINE number == [id \in ids |-> id[2]]
  <2>1. number \in Injection(ids, 1 .. MaxQueries[c])
    BY IdFacts DEF Injection, IsInjective
  <2>2. IsFiniteSet(1 .. MaxQueries[c])
    BY IdFacts, FS_Interval
  <2> HIDE DEF number
  <2> QED
    BY <2>1, <2>2, FS_Injection, FS_CardinalityType
<1>2. /\ Len(s) = Cardinality(ids)
      /\ \A k \in 1 .. Len(s) : s[k] \in ids
      /\ \A j, k \in 1 .. Len(s) : j < k => s[j][2] < s[k][2]
  BY <1>1 DEF Entries
<1>3. /\ Messages(type, s) \in Seq(Query(c)) /\ Len(Messages(type, s)) = Len(s)
      /\ \A k \in 1 .. Len(s) : Messages(type, s)[k] = [type |-> type, id |-> s[k]]
  <2>1. \A k \in 1 .. Len(s) : [type |-> type, id |-> s[k]] \in Query(c)
    BY <1>2 DEF Query
  <2>2. Len(s) \in Nat
    BY <1>1, <1>2
  <2>3. Messages(type, s) \in [1 .. Len(s) -> Query(c)]
    BY <2>1 DEF Messages
  <2> QED
    BY <2>2, <2>3 DEF Messages
<1> QED
  BY <1>2, <1>3 DEF Ordered, Before

-----------------------------------------------------------------------------
(* The invariant.  In what is on its way to the server there are only      *)
(* queries that the server has not seen, and they have been numbered;     *)
(* what is on its way back has been answered.                             *)

Numbered(c) ==
  /\ \A id \in queries[c] : id \in Of(c) /\ id[2] <= nextID[c]
  /\ \A k \in 1 .. Len(toServer[c]) : toServer[c][k].id[2] <= nextID[c]
  /\ \A id \in Of(c) : id[2] > nextID[c] => service[id] = "none"

Unserved(c) ==
  /\ \A k \in 1 .. Len(toServer[c]) :
       toServer[c][k].type = "query" => service[toServer[c][k].id] = "none"
  /\ port[c] = "none" =>
       toServer[c] = <<>> /\ \A id \in Of(c) : service[id] = "none"

Served(c) ==
  /\ \A k \in 1 .. Len(toClient[c]) : service[toClient[c][k].id] = "answered"
  /\ \A id \in Of(c) : result[id] \in {"value", "error"} => service[id] = "answered"

Promises(c) ==
  \A id \in Of(c) :
    /\ id \in queries[c] <=> result[id] = "pending"
    /\ timer[id] => result[id] = "pending"

Transport(c) ==
  Numbered(c) /\ Unserved(c) /\ Served(c) /\ Promises(c) /\ Ordered(toServer[c])

IInv == TypeOK /\ \A c \in Clients : Transport(c)

LEMMA InvariantIsEnough ==
  IInv => TypeOK /\ PendingQueries /\ InOrder /\ AnsweredByItsService
<1> SUFFICES ASSUME IInv PROVE TypeOK /\ PendingQueries /\ InOrder /\ AnsweredByItsService
  OBVIOUS
<1>1. PendingQueries
  BY DEF IInv, Transport, Promises, PendingQueries
<1>2. InOrder
  BY DEF IInv, Transport, Ordered, Before, InOrder
<1>3. AnsweredByItsService
  BY IdFacts DEF IInv, Transport, Served, AnsweredByItsService
<1> QED
  BY <1>1, <1>2, <1>3 DEF IInv

LEMMA Initially == Init => IInv
<1> SUFFICES ASSUME Init PROVE IInv
  OBVIOUS
<1>1. TypeOK
  BY IdFacts DEF Init, TypeOK, Outcomes
<1>2. ASSUME NEW c \in Clients PROVE Transport(c)
  BY <1>2, IdFacts DEF Init, Transport, Numbered, Unserved, Served, Promises, Ordered
<1> QED
  BY <1>1, <1>2 DEF IInv

LEMMA MessageTypes ==
  ASSUME TypeOK, NEW c \in Clients
  PROVE  /\ toServer[c] \in Seq(Query(c)) /\ toClient[c] \in Seq(Reply(c))
         /\ \A k \in 1 .. Len(toServer[c]) : toServer[c][k] \in Query(c)
         /\ \A k \in 1 .. Len(toClient[c]) : toClient[c][k] \in Reply(c)
<1>1. toServer[c] \in Seq(Query(c)) /\ toClient[c] \in Seq(Reply(c))
  BY DEF TypeOK, Query, Reply
<1>2. \A S : \A s \in Seq(S) : \A k \in 1 .. Len(s) : s[k] \in S
  OBVIOUS
<1> QED
  BY <1>1, <1>2

(* A step of one transport leaves the others alone. *)
LEMMA Others ==
  ASSUME IInv, NEW c \in Clients, NEW d \in Clients, d # c,
         port'[d] = port[d], nextID'[d] = nextID[d], queries'[d] = queries[d],
         toServer'[d] = toServer[d], toClient'[d] = toClient[d],
         \A id \in Of(d) : result'[id] = result[id] /\ timer'[id] = timer[id]
                           /\ service'[id] = service[id]
  PROVE  Transport(d)'
<1>1. /\ \A k \in 1 .. Len(toServer[d]) : toServer[d][k].id \in Of(d)
      /\ \A k \in 1 .. Len(toClient[d]) : toClient[d][k].id \in Of(d)
  BY MessageTypes DEF IInv, Query, Reply
<1>2. Transport(d)
  BY DEF IInv
<1>3. Numbered(d)'
  BY <1>2 DEF Transport, Numbered
<1>4. Unserved(d)'
  BY <1>1, <1>2 DEF Transport, Unserved
<1>5. Served(d)'
  BY <1>1, <1>2 DEF Transport, Served
<1>6. Promises(d)'
  BY <1>2 DEF Transport, Promises
<1>7. Ordered(toServer[d])'
  BY <1>2 DEF Transport, Ordered, Before
<1> QED
  BY <1>3, <1>4, <1>5, <1>6, <1>7 DEF Transport

(* What a transport posts goes behind what is on its way. *)
LEMMA PostedKeeps ==
  ASSUME IInv, NEW c \in Clients, NEW messages \in Seq(Query(c)), Posted(c, messages),
         Ordered(messages), NEW bound \in Nat, nextID[c] <= bound,
         \A j \in 1 .. Len(toServer[c]), k \in 1 .. Len(messages) :
           Before(toServer[c][j], messages[k]),
         \A k \in 1 .. Len(messages) :
           /\ messages[k].id[2] <= bound
           /\ messages[k].type = "query" => service[messages[k].id] = "none"
  PROVE  /\ DOMAIN toServer' = Clients /\ toServer'[c] \in Seq(Query(c))
         /\ \A d \in Clients \ {c} : toServer'[d] = toServer[d]
         /\ Ordered(toServer'[c])
         /\ \A k \in 1 .. Len(toServer'[c]) :
              /\ toServer'[c][k].id[2] <= bound
              /\ toServer'[c][k].type = "query" => service[toServer'[c][k].id] = "none"
         /\ port[c] = "none" => toServer'[c] = <<>>
<1>1. /\ toServer[c] \in Seq(Query(c)) /\ DOMAIN toServer = Clients
      /\ \A k \in 1 .. Len(toServer[c]) : toServer[c][k] \in Query(c)
  BY MessageTypes DEF IInv, TypeOK
<1>2. /\ Ordered(toServer[c]) /\ nextID[c] \in Nat
      /\ \A k \in 1 .. Len(toServer[c]) :
           /\ toServer[c][k].id[2] <= bound
           /\ toServer[c][k].type = "query" => service[toServer[c][k].id] = "none"
      /\ port[c] = "none" => toServer[c] = <<>>
  <2>1. \A k \in 1 .. Len(toServer[c]) : toServer[c][k].id[2] \in Nat
    BY <1>1, IdFacts DEF Query
  <2> QED
    BY <2>1 DEF IInv, TypeOK, Transport, Numbered, Unserved
<1>3. CASE port[c] = "open"
  <2>1. toServer' = [toServer EXCEPT ![c] = toServer[c] \o messages]
    BY <1>1, <1>3 DEF Posted
  <2>2. Ordered(toServer[c] \o messages)
    BY <1>1, <1>2, OrderedConcat
  <2>3. /\ toServer[c] \o messages \in Seq(Query(c))
        /\ \A k \in 1 .. Len(toServer[c] \o messages) :
             \/ k \in 1 .. Len(toServer[c]) /\ (toServer[c] \o messages)[k] = toServer[c][k]
             \/ /\ k - Len(toServer[c]) \in 1 .. Len(messages)
                /\ (toServer[c] \o messages)[k] = messages[k - Len(toServer[c])]
    BY <1>1, ConcatElements
  <2>4. \A k \in 1 .. Len(toServer[c] \o messages) :
          /\ (toServer[c] \o messages)[k].id[2] <= bound
          /\ (toServer[c] \o messages)[k].type = "query" =>
               service[(toServer[c] \o messages)[k].id] = "none"
    BY <1>2, <2>3
  <2> QED
    BY <1>1, <1>3, <2>1, <2>2, <2>3, <2>4
<1>4. CASE port[c] # "open"
  <2>1. DOMAIN toServer' = Clients /\ \A d \in Clients : toServer'[d] = toServer[d]
    BY <1>1, <1>4 DEF Posted
  <2> QED
    BY <1>1, <1>2, <2>1
<1> QED
  BY <1>3, <1>4

(* An abort may be posted behind anything. *)
LEMMA AbortsArePosted ==
  ASSUME IInv, NEW c \in Clients, NEW messages \in Seq(Query(c)), Posted(c, messages),
         \A k \in 1 .. Len(messages) :
           messages[k].type = "abort" /\ messages[k].id \in queries[c]
  PROVE  /\ DOMAIN toServer' = Clients /\ toServer'[c] \in Seq(Query(c))
         /\ \A d \in Clients \ {c} : toServer'[d] = toServer[d]
         /\ Ordered(toServer'[c])
         /\ \A k \in 1 .. Len(toServer'[c]) :
              /\ toServer'[c][k].id[2] <= nextID[c]
              /\ toServer'[c][k].type = "query" => service[toServer'[c][k].id] = "none"
         /\ port[c] = "none" => toServer'[c] = <<>>
<1>1. Ordered(messages)
  BY DEF Ordered, Before
<1>2. \A j \in 1 .. Len(toServer[c]), k \in 1 .. Len(messages) :
        Before(toServer[c][j], messages[k])
  BY DEF Before
<1>3. \A k \in 1 .. Len(messages) : messages[k].id[2] <= nextID[c]
  BY DEF IInv, Transport, Numbered
<1>4. nextID[c] \in Nat
  BY DEF IInv, TypeOK
<1> QED
  BY <1>1, <1>2, <1>3, <1>4, PostedKeeps

(* Settled queries: none of the others is touched. *)
LEMMA SettledKeeps ==
  ASSUME IInv, NEW c \in Clients, NEW ids \in SUBSET queries[c],
         NEW outcome \in Outcomes \ {"none", "pending"}, Settled(c, ids, outcome)
  PROVE  /\ queries' \in [Clients -> SUBSET Ids] /\ result' \in [Ids -> Outcomes]
         /\ timer' \in [Ids -> BOOLEAN]
         /\ queries'[c] = queries[c] \ ids
         /\ \A id \in Of(c) : result'[id] = IF id \in ids THEN outcome ELSE result[id]
         /\ \A d \in Clients \ {c} :
              /\ queries'[d] = queries[d]
              /\ \A id \in Of(d) : result'[id] = result[id] /\ timer'[id] = timer[id]
         /\ Promises(c)'
<1>1. queries[c] \subseteq Of(c) /\ Promises(c)
  BY DEF IInv, Transport, Numbered
<1>2. \A d \in Clients \ {c} : \A id \in Of(d) : id \in Ids /\ id \notin ids
  BY <1>1, IdFacts
<1>3. /\ queries' \in [Clients -> SUBSET Ids] /\ result' \in [Ids -> Outcomes]
      /\ timer' \in [Ids -> BOOLEAN]
  BY DEF IInv, TypeOK, Settled
<1>4. /\ queries'[c] = queries[c] \ ids
      /\ \A id \in Ids : /\ result'[id] = IF id \in ids THEN outcome ELSE result[id]
                         /\ timer'[id] = (timer[id] /\ id \notin ids)
      /\ \A d \in Clients \ {c} : queries'[d] = queries[d]
  BY DEF IInv, TypeOK, Settled
<1>5. \A id \in Of(c) : id \in Ids
  BY DEF Of
<1>6. \A d \in Clients \ {c} : \A id \in Of(d) : timer'[id] = timer[id]
  BY <1>2, <1>4 DEF IInv, TypeOK
<1>7. Promises(c)'
  BY <1>1, <1>4, <1>5 DEF Promises
<1> QED
  BY <1>2, <1>3, <1>4, <1>5, <1>6, <1>7

-----------------------------------------------------------------------------
(* The steps of the transport.                                            *)

LEMMA ExecuteKeeps ==
  ASSUME IInv, NEW c \in Clients, NEW timed \in BOOLEAN, Execute(c, timed)
  PROVE  IInv'
<1> DEFINE id == <<c, nextID[c] + 1>>
           messages == <<[type |-> "query", id |-> id]>>
<1>1. /\ nextID[c] \in Nat /\ nextID[c] < MaxQueries[c] /\ id \in Of(c)
      /\ id[2] = nextID[c] + 1 /\ Transport(c)
  BY IdFacts DEF IInv, TypeOK, Execute
<1>2. /\ nextID' = [nextID EXCEPT ![c] = @ + 1]
      /\ queries' = [queries EXCEPT ![c] = @ \cup {id}]
      /\ result' = [result EXCEPT ![id] = "pending"] /\ timer' = [timer EXCEPT ![id] = timed]
      /\ Posted(c, messages)
      /\ UNCHANGED <<port, toClient, tracked, service, aborted, discarded>>
  BY DEF Execute, server
<1>3. /\ messages \in Seq(Query(c)) /\ Len(messages) = 1
      /\ messages[1].type = "query" /\ messages[1].id = id
  BY <1>1 DEF Query
<1>4. /\ DOMAIN toServer' = Clients /\ toServer'[c] \in Seq(Query(c))
      /\ \A d \in Clients \ {c} : toServer'[d] = toServer[d]
      /\ Ordered(toServer'[c])
      /\ \A k \in 1 .. Len(toServer'[c]) :
           /\ toServer'[c][k].id[2] <= nextID[c] + 1
           /\ toServer'[c][k].type = "query" => service[toServer'[c][k].id] = "none"
      /\ port[c] = "none" => toServer'[c] = <<>>
  <2>1. \A k \in 1 .. Len(messages) : k = 1
    BY <1>3
  <2>2. Ordered(messages)
    BY <2>1 DEF Ordered
  <2>3. \A j \in 1 .. Len(toServer[c]), k \in 1 .. Len(messages) :
          Before(toServer[c][j], messages[k])
    <3>1. \A j \in 1 .. Len(toServer[c]) :
            toServer[c][j].id[2] \in Nat /\ toServer[c][j].id[2] < id[2]
      <4>1. \A j \in 1 .. Len(toServer[c]) : toServer[c][j].id \in Of(c)
        BY MessageTypes DEF IInv, Query
      <4>2. \A j \in 1 .. Len(toServer[c]) : toServer[c][j].id[2] \in Nat
        BY <4>1, IdFacts
      <4> QED
        BY <1>1, <4>2 DEF Transport, Numbered
    <3> QED
      BY <1>3, <2>1, <3>1 DEF Before
  <2>4. \A k \in 1 .. Len(messages) :
          messages[k].id[2] <= nextID[c] + 1 /\ service[messages[k].id] = "none"
    BY <1>1, <1>3, <2>1 DEF Transport, Numbered
  <2>5. Posted(c, messages)
    BY <1>2
  <2> HIDE DEF messages, id
  <2>6. nextID[c] + 1 \in Nat /\ nextID[c] <= nextID[c] + 1
    BY <1>1
  <2> QED
    BY <1>3, <2>2, <2>3, <2>4, <2>5, <2>6, PostedKeeps
<1> HIDE DEF messages, id
<1>5. /\ \A i \in Ids : i # id => result'[i] = result[i] /\ timer'[i] = timer[i]
      /\ result'[id] = "pending" /\ timer'[id] = timed
      /\ queries'[c] = queries[c] \cup {id} /\ nextID'[c] = nextID[c] + 1
      /\ \A d \in Clients \ {c} : queries'[d] = queries[d] /\ nextID'[d] = nextID[d]
  BY <1>1, <1>2, IdFacts DEF IInv, TypeOK
<1>6. TypeOK'
  <2>1. \A d \in Clients : toServer'[d] \in Seq(Query(d))
    BY <1>4, MessageTypes DEF IInv
  <2>2. nextID' \in [Clients -> Nat] /\ \A d \in Clients : nextID'[d] <= MaxQueries[d]
    BY <1>1, <1>2, IdFacts DEF IInv, TypeOK
  <2>3. /\ queries' \in [Clients -> SUBSET Ids] /\ result' \in [Ids -> Outcomes]
        /\ timer' \in [Ids -> BOOLEAN]
    BY <1>1, <1>2, IdFacts DEF IInv, TypeOK, Outcomes
  <2> QED
    BY <1>2, <1>4, <2>1, <2>2, <2>3 DEF IInv, TypeOK, Query
<1>7. Transport(c)'
  <2>1. Numbered(c)'
    BY <1>1, <1>2, <1>4, <1>5, IdFacts DEF Transport, Numbered
  <2>2. Unserved(c)'
    BY <1>1, <1>2, <1>4 DEF Transport, Unserved
  <2>3. Served(c)'
    BY <1>1, <1>2, <1>5, IdFacts DEF Transport, Served
  <2>4. Promises(c)'
    BY <1>1, <1>5, IdFacts DEF Transport, Promises
  <2> QED
    BY <1>4, <2>1, <2>2, <2>3, <2>4 DEF Transport
<1>8. ASSUME NEW d \in Clients, d # c PROVE Transport(d)'
  <2>1. \A i \in Of(d) : i \in Ids /\ i # id
    BY <1>1, <1>8, IdFacts
  <2> QED
    BY <1>2, <1>4, <1>5, <1>8, <2>1, Others
<1> QED
  BY <1>6, <1>7, <1>8 DEF IInv

LEMMA ConnectKeeps ==
  ASSUME IInv, NEW c \in Clients, Connect(c)
  PROVE  IInv'
<1>1. PICK waiting \in Entries(queries[c]) :
        toServer' = [toServer EXCEPT ![c] = Messages("query", waiting)]
  BY DEF Connect
<1>2. /\ port[c] = "none" /\ port' = [port EXCEPT ![c] = "open"]
      /\ UNCHANGED <<nextID, queries, result, timer, toClient, tracked, service, aborted, discarded>>
  BY DEF Connect, server
<1>3. Transport(c) /\ queries[c] \subseteq Of(c)
  BY DEF IInv, Transport, Numbered
<1>4. /\ toServer'[c] = Messages("query", waiting) /\ DOMAIN toServer' = Clients
      /\ \A d \in Clients \ {c} : toServer'[d] = toServer[d]
      /\ port'[c] = "open" /\ \A d \in Clients \ {c} : port'[d] = port[d]
  BY <1>1, <1>2 DEF IInv, TypeOK
<1>5. /\ toServer'[c] \in Seq(Query(c)) /\ Ordered(toServer'[c])
      /\ \A k \in 1 .. Len(toServer'[c]) : toServer'[c][k].id \in queries[c]
  BY <1>3, <1>4, EntriesAsMessages
<1>6. TypeOK'
  <2>1. \A d \in Clients : toServer'[d] \in Seq(Query(d))
    BY <1>4, <1>5, MessageTypes DEF IInv
  <2>2. port' \in [Clients -> {"none", "open", "closed"}]
    BY <1>2 DEF IInv, TypeOK
  <2> QED
    BY <1>2, <1>4, <2>1, <2>2 DEF IInv, TypeOK, Query
<1>7. Transport(c)'
  <2>1. Numbered(c)'
    BY <1>2, <1>3, <1>5 DEF Transport, Numbered
  <2>2. Unserved(c)'
    BY <1>2, <1>3, <1>4, <1>5 DEF Transport, Unserved
  <2>3. Served(c)' /\ Promises(c)'
    BY <1>2, <1>3 DEF Transport, Served, Promises
  <2> QED
    BY <1>5, <2>1, <2>2, <2>3 DEF Transport
<1>8. \A d \in Clients \ {c} : Transport(d)'
  BY <1>2, <1>4, Others
<1> QED
  BY <1>6, <1>7, <1>8 DEF IInv

(* The end of queries, of one that is given up or of all. *)
LEMMA EndOfQueries ==
  ASSUME IInv, NEW c \in Clients, NEW ids \in SUBSET queries[c],
         NEW outcome \in {"timeout", "aborted", "disconnected"}, Settled(c, ids, outcome),
         NEW messages \in Seq(Query(c)), Posted(c, messages),
         \A k \in 1 .. Len(messages) :
           messages[k].type = "abort" /\ messages[k].id \in queries[c],
         UNCHANGED <<nextID, server>>,
         port' \in [Clients -> {"none", "open", "closed"}],
         \A d \in Clients : port'[d] = "none" <=> port[d] = "none",
         \A d \in Clients \ {c} : port'[d] = port[d],
         toClient' = toClient \/ toClient' = [toClient EXCEPT ![c] = <<>>]
  PROVE  IInv'
<1>1. /\ DOMAIN toServer' = Clients /\ toServer'[c] \in Seq(Query(c))
      /\ \A d \in Clients \ {c} : toServer'[d] = toServer[d]
      /\ Ordered(toServer'[c])
      /\ \A k \in 1 .. Len(toServer'[c]) :
           /\ toServer'[c][k].id[2] <= nextID[c]
           /\ toServer'[c][k].type = "query" => service[toServer'[c][k].id] = "none"
      /\ port[c] = "none" => toServer'[c] = <<>>
  BY AbortsArePosted
<1>2. /\ queries' \in [Clients -> SUBSET Ids] /\ result' \in [Ids -> Outcomes]
      /\ timer' \in [Ids -> BOOLEAN]
      /\ queries'[c] = queries[c] \ ids
      /\ \A id \in Of(c) : result'[id] = IF id \in ids THEN outcome ELSE result[id]
      /\ \A d \in Clients \ {c} :
           /\ queries'[d] = queries[d]
           /\ \A id \in Of(d) : result'[id] = result[id] /\ timer'[id] = timer[id]
      /\ Promises(c)'
  BY SettledKeeps DEF Outcomes
<1>3. /\ DOMAIN toClient' = Clients /\ toClient'[c] \in {toClient[c], <<>>}
      /\ \A d \in Clients \ {c} : toClient'[d] = toClient[d]
  BY DEF IInv, TypeOK
<1>4. UNCHANGED <<nextID, tracked, service, aborted, discarded>>
  BY DEF server
<1>5. TypeOK'
  <2>1. \A d \in Clients : toServer'[d] \in Seq(Query(d))
    BY <1>1, MessageTypes DEF IInv
  <2>2. \A d \in Clients : toClient'[d] \in Seq(Reply(d))
    <3>1. <<>> \in Seq(Reply(c))
      OBVIOUS
    <3> QED
      BY <1>3, <3>1, MessageTypes DEF IInv
  <2> QED
    BY <1>1, <1>2, <1>3, <1>4, <2>1, <2>2 DEF IInv, TypeOK, Query, Reply
<1>6. Transport(c)'
  <2>1. Transport(c)
    BY DEF IInv
  <2>2. Numbered(c)'
    BY <1>1, <1>2, <1>4, <2>1 DEF Transport, Numbered
  <2>3. Unserved(c)'
    BY <1>1, <1>4, <2>1 DEF Transport, Unserved
  <2>4. Served(c)'
    BY <1>2, <1>3, <1>4, <2>1 DEF Transport, Served
  <2> QED
    BY <1>1, <1>2, <2>2, <2>3, <2>4 DEF Transport
<1>7. \A d \in Clients \ {c} : Transport(d)'
  BY <1>1, <1>2, <1>3, <1>4, Others
<1> QED
  BY <1>5, <1>6, <1>7 DEF IInv

LEMMA GiveUpKeeps ==
  ASSUME IInv, NEW c \in Clients, NEW id \in Of(c), GiveUp(c, id)
  PROVE  IInv'
<1> DEFINE messages == <<[type |-> "abort", id |-> id]>>
<1>1. PICK outcome \in {"timeout", "aborted"} : Settled(c, {id}, outcome)
  BY DEF GiveUp
<1>2. /\ {id} \in SUBSET queries[c] /\ Posted(c, messages)
      /\ UNCHANGED <<port, nextID, toClient, server>>
  BY DEF GiveUp
<1>3. /\ messages \in Seq(Query(c))
      /\ \A k \in 1 .. Len(messages) :
           messages[k].type = "abort" /\ messages[k].id \in queries[c]
  BY <1>2 DEF Query
<1>4. port \in [Clients -> {"none", "open", "closed"}]
  BY DEF IInv, TypeOK
<1> HIDE DEF messages
<1> QED
  BY <1>1, <1>2, <1>3, <1>4, EndOfQueries

LEMMA DisconnectKeeps ==
  ASSUME IInv, NEW c \in Clients, Disconnect(c)
  PROVE  IInv'
<1>1. PICK waiting \in Entries(queries[c]) : Posted(c, Messages("abort", waiting))
  BY DEF Disconnect
<1>2. /\ port' = [port EXCEPT ![c] = IF @ = "none" THEN @ ELSE "closed"]
      /\ Settled(c, queries[c], "disconnected")
      /\ toClient' = [toClient EXCEPT ![c] = <<>>] /\ UNCHANGED <<nextID, server>>
  BY DEF Disconnect
<1>3. queries[c] \subseteq Of(c)
  BY DEF IInv, Transport, Numbered
<1>4. /\ Messages("abort", waiting) \in Seq(Query(c))
      /\ \A k \in 1 .. Len(Messages("abort", waiting)) :
           /\ Messages("abort", waiting)[k].type = "abort"
           /\ Messages("abort", waiting)[k].id \in queries[c]
  BY <1>3, EntriesAsMessages
<1>5. /\ port' \in [Clients -> {"none", "open", "closed"}]
      /\ \A d \in Clients : port'[d] = "none" <=> port[d] = "none"
      /\ \A d \in Clients \ {c} : port'[d] = port[d]
  BY <1>2 DEF IInv, TypeOK
<1> QED
  BY <1>1, <1>2, <1>4, <1>5, EndOfQueries

LEMMA ReceiveKeeps ==
  ASSUME IInv, NEW c \in Clients, Receive(c)
  PROVE  IInv'
<1> DEFINE message == Head(toClient[c])
<1>1. /\ toClient[c] # <<>> /\ toClient' = [toClient EXCEPT ![c] = Tail(@)]
      /\ IF message.id \in queries[c]
         THEN Settled(c, {message.id}, message.result)
         ELSE UNCHANGED <<queries, result, timer>>
      /\ UNCHANGED <<port, nextID, toServer, tracked, service, aborted, discarded>>
  BY DEF Receive, server
<1>2. /\ toClient[c] \in Seq(Reply(c)) /\ message = toClient[c][1] /\ message \in Reply(c)
      /\ 1 \in 1 .. Len(toClient[c]) /\ Tail(toClient[c]) \in Seq(Reply(c))
      /\ \A k \in 1 .. Len(Tail(toClient[c])) :
           k + 1 \in 1 .. Len(toClient[c]) /\ Tail(toClient[c])[k] = toClient[c][k + 1]
  BY <1>1, TailElements, MessageTypes DEF IInv
<1>3. Transport(c) /\ service[message.id] = "answered"
  BY <1>2 DEF IInv, Transport, Served
<1> HIDE DEF message
<1>4. /\ queries' \in [Clients -> SUBSET Ids] /\ result' \in [Ids -> Outcomes]
      /\ timer' \in [Ids -> BOOLEAN]
      /\ queries'[c] \subseteq queries[c]
      /\ \A id \in Of(c) : result'[id] = result[id] \/ id = message.id
      /\ \A d \in Clients \ {c} :
           /\ queries'[d] = queries[d]
           /\ \A id \in Of(d) : result'[id] = result[id] /\ timer'[id] = timer[id]
      /\ Promises(c)'
  <2>1. CASE message.id \in queries[c]
    <3>1. message.result \in Outcomes \ {"none", "pending"} /\ {message.id} \in SUBSET queries[c]
      BY <1>2, <2>1 DEF Reply, Outcomes
    <3>2. Settled(c, {message.id}, message.result)
      BY <1>1, <2>1
    <3>3. \A id \in Of(c) :
            result'[id] = IF id \in {message.id} THEN message.result ELSE result[id]
      BY <3>2, IdFacts DEF Settled
    <3>4. /\ queries' \in [Clients -> SUBSET Ids] /\ result' \in [Ids -> Outcomes]
          /\ timer' \in [Ids -> BOOLEAN] /\ queries'[c] = queries[c] \ {message.id}
          /\ \A d \in Clients \ {c} :
               /\ queries'[d] = queries[d]
               /\ \A id \in Of(d) : result'[id] = result[id] /\ timer'[id] = timer[id]
          /\ Promises(c)'
      BY <3>1, <3>2, SettledKeeps
    <3> QED
      BY <3>3, <3>4
  <2>2. CASE message.id \notin queries[c]
    BY <1>1, <1>3, <2>2 DEF IInv, TypeOK, Transport, Promises
  <2> QED
    BY <2>1, <2>2
<1>5. /\ DOMAIN toClient' = Clients /\ toClient'[c] = Tail(toClient[c])
      /\ \A d \in Clients \ {c} : toClient'[d] = toClient[d]
  BY <1>1 DEF IInv, TypeOK
<1>6. TypeOK'
  <2>1. \A d \in Clients : toClient'[d] \in Seq(Reply(d))
    BY <1>2, <1>5, MessageTypes DEF IInv
  <2> QED
    BY <1>1, <1>4, <1>5, <2>1 DEF IInv, TypeOK, Reply
<1>7. Transport(c)'
  <2>1. Numbered(c)' /\ Unserved(c)' /\ Ordered(toServer[c])'
    BY <1>1, <1>3, <1>4 DEF Transport, Numbered, Unserved, Ordered, Before
  <2>2. Served(c)'
    BY <1>1, <1>2, <1>3, <1>4, <1>5 DEF Transport, Served
  <2> QED
    BY <1>4, <2>1, <2>2 DEF Transport
<1>8. \A d \in Clients \ {c} : Transport(d)'
  BY <1>1, <1>4, <1>5, Others
<1> QED
  BY <1>6, <1>7, <1>8 DEF IInv

-----------------------------------------------------------------------------
(* The steps of the server: it only changes what it does for a query.      *)

LEMMA UntrackKeeps ==
  ASSUME IInv, Untrack
  PROVE  IInv'
<1>1. tracked' = {} /\ UNCHANGED <<client, toServer, toClient, service, aborted, discarded>>
  BY DEF Untrack
<1>2. TypeOK'
  BY <1>1 DEF IInv, TypeOK, client
<1>3. ASSUME NEW c \in Clients PROVE Transport(c)'
  BY <1>1, <1>3 DEF IInv, Transport, Numbered, Unserved, Served, Promises, Ordered, Before, client
<1> QED
  BY <1>2, <1>3 DEF IInv

(* A message leaves the queue of the server. *)
LEMMA HandledKeeps ==
  ASSUME IInv, NEW c \in Clients, NEW type \in {"query", "abort"}, Handled(c, type)
  PROVE  LET id == Head(toServer[c]).id
         IN  /\ id \in Of(c) /\ id \in Ids /\ id[2] <= nextID[c] /\ port[c] # "none"
             /\ type = "query" => service[id] = "none"
             /\ DOMAIN toServer' = Clients /\ toServer'[c] \in Seq(Query(c))
             /\ \A d \in Clients \ {c} : toServer'[d] = toServer[d]
             /\ Ordered(toServer'[c])
             /\ \A k \in 1 .. Len(toServer'[c]) :
                  /\ toServer'[c][k].id[2] <= nextID[c]
                  /\ toServer'[c][k].type = "query" =>
                       /\ service[toServer'[c][k].id] = "none"
                       /\ type = "query" => toServer'[c][k].id # id
<1>1. /\ toServer[c] # <<>> /\ Head(toServer[c]).type = type
      /\ toServer' = [toServer EXCEPT ![c] = Tail(@)]
  BY DEF Handled
<1>2. /\ toServer[c] \in Seq(Query(c)) /\ Head(toServer[c]) = toServer[c][1]
      /\ 1 \in 1 .. Len(toServer[c]) /\ toServer[c][1] \in Query(c)
      /\ Tail(toServer[c]) \in Seq(Query(c))
      /\ \A k \in 1 .. Len(Tail(toServer[c])) :
           k + 1 \in 1 .. Len(toServer[c]) /\ Tail(toServer[c])[k] = toServer[c][k + 1]
  BY <1>1, TailElements, MessageTypes DEF IInv
<1>3. Transport(c)
  BY DEF IInv
<1>4. /\ Ordered(Tail(toServer[c]))
      /\ \A k \in 1 .. Len(Tail(toServer[c])) : Before(Head(toServer[c]), Tail(toServer[c])[k])
  BY <1>1, <1>2, <1>3, OrderedTail DEF Transport
<1>5. /\ DOMAIN toServer' = Clients /\ toServer'[c] = Tail(toServer[c])
      /\ \A d \in Clients \ {c} : toServer'[d] = toServer[d]
  BY <1>1 DEF IInv, TypeOK
<1>6. /\ Head(toServer[c]).id \in Of(c) /\ Head(toServer[c]).id[2] <= nextID[c]
      /\ type = "query" => service[Head(toServer[c]).id] = "none"
      /\ port[c] # "none"
  BY <1>1, <1>2, <1>3 DEF Query, Transport, Numbered, Unserved
<1>7. ASSUME NEW k \in 1 .. Len(Tail(toServer[c]))
      PROVE  /\ Tail(toServer[c])[k].id[2] <= nextID[c]
             /\ Tail(toServer[c])[k].type = "query" =>
                  /\ service[Tail(toServer[c])[k].id] = "none"
                  /\ type = "query" => Tail(toServer[c])[k].id # Head(toServer[c]).id
  <2>1. Tail(toServer[c])[k].id[2] <= nextID[c]
    BY <1>2, <1>3 DEF Transport, Numbered
  <2>2. Tail(toServer[c])[k].type = "query" => service[Tail(toServer[c])[k].id] = "none"
    BY <1>2, <1>3 DEF Transport, Unserved
  <2>3. Head(toServer[c]).id[2] \in Nat
    BY <1>6, IdFacts
  <2>4. Tail(toServer[c])[k].type = "query" /\ type = "query" =>
          Tail(toServer[c])[k].id # Head(toServer[c]).id
    BY <1>1, <1>4, <2>3 DEF Before
  <2> QED
    BY <2>1, <2>2, <2>4
<1> QED
  BY <1>2, <1>4, <1>5, <1>6, <1>7, IdFacts

LEMMA HandleQueryKeeps ==
  ASSUME IInv, NEW c \in Clients, HandleQuery(c)
  PROVE  IInv'
<1> DEFINE id == Head(toServer[c]).id
<1>1. /\ Handled(c, "query") /\ tracked' = tracked \cup {id}
      /\ service' = [service EXCEPT ![id] = "running"]
      /\ UNCHANGED <<port, nextID, queries, result, timer, toClient, aborted, discarded>>
  BY DEF HandleQuery, client
<1>2. /\ id \in Of(c) /\ id \in Ids /\ id[2] <= nextID[c] /\ port[c] # "none"
      /\ service[id] = "none"
      /\ DOMAIN toServer' = Clients /\ toServer'[c] \in Seq(Query(c))
      /\ \A d \in Clients \ {c} : toServer'[d] = toServer[d]
      /\ Ordered(toServer'[c])
      /\ \A k \in 1 .. Len(toServer'[c]) :
           /\ toServer'[c][k].id[2] <= nextID[c]
           /\ toServer'[c][k].type = "query" =>
                service[toServer'[c][k].id] = "none" /\ toServer'[c][k].id # id
  BY <1>1, HandledKeeps
<1> HIDE DEF id
<1>3. /\ \A i \in Ids \ {id} : service'[i] = service[i]
      /\ service' \in [Ids -> {"none", "running", "answered"}]
  BY <1>1, <1>2 DEF IInv, TypeOK
<1>4. TypeOK'
  <2>1. \A d \in Clients : toServer'[d] \in Seq(Query(d))
    BY <1>2, MessageTypes DEF IInv
  <2> QED
    BY <1>1, <1>2, <1>3, <2>1 DEF IInv, TypeOK, Query
<1>5. Transport(c)'
  <2>1. Transport(c)
    BY DEF IInv
  <2>2. Numbered(c)'
    BY <1>1, <1>2, <1>3, <2>1, IdFacts DEF IInv, TypeOK, Transport, Numbered
  <2>3. \A k \in 1 .. Len(toServer'[c]) : toServer'[c][k].id \in Ids
    <3>1. \A S : \A s \in Seq(S) : \A k \in 1 .. Len(s) : s[k] \in S
      OBVIOUS
    <3>2. \A k \in 1 .. Len(toServer'[c]) : toServer'[c][k] \in Query(c)
      BY <1>2, <3>1
    <3> QED
      BY <3>2, IdFacts DEF Query
  <2>4. Unserved(c)'
    BY <1>1, <1>2, <1>3, <2>3 DEF Unserved
  <2>5. Served(c)'
    <3>1. \A k \in 1 .. Len(toClient[c]) : toClient[c][k] \in Reply(c)
      BY MessageTypes DEF IInv
    <3>2. \A k \in 1 .. Len(toClient[c]) : toClient[c][k].id \in Ids
      BY <3>1, IdFacts DEF Reply
    <3> QED
      BY <1>1, <1>2, <1>3, <2>1, <3>2, IdFacts DEF Transport, Served
  <2>6. Promises(c)'
    BY <1>1, <2>1 DEF Transport, Promises
  <2> QED
    BY <1>2, <2>2, <2>4, <2>5, <2>6 DEF Transport
<1>6. ASSUME NEW d \in Clients, d # c PROVE Transport(d)'
  <2>1. \A i \in Of(d) : i \in Ids /\ i # id
    BY <1>2, <1>6, IdFacts
  <2> QED
    BY <1>1, <1>2, <1>3, <1>6, <2>1, Others
<1> QED
  BY <1>4, <1>5, <1>6 DEF IInv

LEMMA HandleAbortKeeps ==
  ASSUME IInv, NEW c \in Clients, HandleAbort(c)
  PROVE  IInv'
<1> DEFINE id == Head(toServer[c]).id
<1>1. /\ Handled(c, "abort") /\ aborted' = aborted \cup ({id} \cap tracked)
      /\ tracked' = tracked \ {id} /\ discarded' = discarded \cup {id}
      /\ UNCHANGED <<port, nextID, queries, result, timer, toClient, service>>
  BY DEF HandleAbort, client
<1>2. /\ id \in Ids /\ port[c] # "none"
      /\ DOMAIN toServer' = Clients /\ toServer'[c] \in Seq(Query(c))
      /\ \A d \in Clients \ {c} : toServer'[d] = toServer[d]
      /\ Ordered(toServer'[c])
      /\ \A k \in 1 .. Len(toServer'[c]) :
           /\ toServer'[c][k].id[2] <= nextID[c]
           /\ toServer'[c][k].type = "query" => service[toServer'[c][k].id] = "none"
  BY <1>1, HandledKeeps
<1> HIDE DEF id
<1>3. TypeOK'
  <2>1. \A d \in Clients : toServer'[d] \in Seq(Query(d))
    BY <1>2, MessageTypes DEF IInv
  <2> QED
    BY <1>1, <1>2, <2>1 DEF IInv, TypeOK, Query
<1>4. Transport(c)'
  <2>1. Transport(c)
    BY DEF IInv
  <2>2. Numbered(c)' /\ Unserved(c)'
    BY <1>1, <1>2, <2>1 DEF Transport, Numbered, Unserved
  <2>3. Served(c)' /\ Promises(c)'
    BY <1>1, <2>1 DEF Transport, Served, Promises
  <2> QED
    BY <1>2, <2>2, <2>3 DEF Transport
<1>5. \A d \in Clients \ {c} : Transport(d)'
  BY <1>1, <1>2, Others
<1> QED
  BY <1>3, <1>4, <1>5 DEF IInv

LEMMA AnswerKeeps ==
  ASSUME IInv, NEW id \in Ids, Answer(id)
  PROVE  IInv'
<1> DEFINE c == id[1]
<1>1. c \in Clients /\ id \in Of(c)
  BY IdFacts
<1>2. /\ service[id] = "running" /\ service' = [service EXCEPT ![id] = "answered"]
      /\ UNCHANGED <<port, nextID, queries, result, timer, toServer, tracked, aborted, discarded>>
  BY DEF Answer, client
<1>3. PICK r \in {"value", "error"} :
        toClient' = [toClient EXCEPT ![c] =
          IF id \notin aborted /\ port[c] = "open"
          THEN Append(@, [id |-> id, result |-> r]) ELSE @]
  BY DEF Answer
<1> HIDE DEF c
<1>4. /\ DOMAIN toClient' = Clients /\ \A d \in Clients \ {c} : toClient'[d] = toClient[d]
      /\ toClient'[c] \in Seq(Reply(c))
      /\ \A k \in 1 .. Len(toClient'[c]) :
           \/ k \in 1 .. Len(toClient[c]) /\ toClient'[c][k] = toClient[c][k]
           \/ toClient'[c][k].id = id
  <2>1. toClient[c] \in Seq(Reply(c)) /\ DOMAIN toClient = Clients
    BY <1>1, MessageTypes DEF IInv, TypeOK
  <2>2. [id |-> id, result |-> r] \in Reply(c)
    BY <1>1 DEF Reply
  <2>3. /\ Append(toClient[c], [id |-> id, result |-> r]) \in Seq(Reply(c))
        /\ \A k \in 1 .. Len(Append(toClient[c], [id |-> id, result |-> r])) :
             \/ /\ k \in 1 .. Len(toClient[c])
                /\ Append(toClient[c], [id |-> id, result |-> r])[k] = toClient[c][k]
             \/ Append(toClient[c], [id |-> id, result |-> r])[k] = [id |-> id, result |-> r]
    BY <2>1, <2>2
  <2>4. toClient'[c] \in {toClient[c], Append(toClient[c], [id |-> id, result |-> r])}
    BY <1>1, <1>3, <2>1
  <2> QED
    BY <1>1, <1>3, <2>1, <2>3, <2>4
<1>5. /\ service'[id] = "answered" /\ \A i \in Ids \ {id} : service'[i] = service[i]
      /\ service' \in [Ids -> {"none", "running", "answered"}]
  BY <1>2 DEF IInv, TypeOK
<1>6. TypeOK'
  <2>1. \A d \in Clients : toClient'[d] \in Seq(Reply(d))
    BY <1>4, MessageTypes DEF IInv
  <2> QED
    BY <1>2, <1>4, <1>5, <2>1 DEF IInv, TypeOK, Reply
<1>7. Transport(c)'
  <2>1. Transport(c)
    BY <1>1 DEF IInv
  <2>2. Numbered(c)'
    BY <1>1, <1>2, <1>5, <2>1, IdFacts DEF Transport, Numbered
  <2>3. Unserved(c)'
    <3>1. \A k \in 1 .. Len(toServer[c]) : toServer[c][k].id \in Ids
      BY <1>1, MessageTypes, IdFacts DEF IInv, Query
    <3> QED
      BY <1>1, <1>2, <1>5, <2>1, <3>1, IdFacts DEF Transport, Unserved
  <2>4. Served(c)'
    <3>1. \A k \in 1 .. Len(toClient[c]) : toClient[c][k].id \in Ids
      BY <1>1, MessageTypes, IdFacts DEF IInv, Reply
    <3> QED
      BY <1>1, <1>2, <1>4, <1>5, <2>1, <3>1, IdFacts DEF Transport, Served
  <2>5. Promises(c)' /\ Ordered(toServer[c])'
    BY <1>2, <2>1 DEF Transport, Promises, Ordered, Before
  <2> QED
    BY <2>2, <2>3, <2>4, <2>5 DEF Transport
<1>8. ASSUME NEW d \in Clients, d # c PROVE Transport(d)'
  <2>1. \A i \in Of(d) : i \in Ids /\ i # id
    BY <1>1, <1>8, IdFacts
  <2> QED
    BY <1>1, <1>2, <1>4, <1>5, <1>8, <2>1, Others
<1> QED
  BY <1>6, <1>7, <1>8 DEF IInv

-----------------------------------------------------------------------------

LEMMA Stutters == IInv /\ UNCHANGED vars => IInv'
<1> SUFFICES ASSUME IInv, UNCHANGED vars PROVE IInv'
  OBVIOUS
<1>1. TypeOK'
  BY DEF IInv, TypeOK, vars, client, server
<1>2. ASSUME NEW c \in Clients PROVE Transport(c)'
  BY <1>2 DEF IInv, Transport, Numbered, Unserved, Served, Promises, Ordered, Before,
     vars, client, server
<1> QED
  BY <1>1, <1>2 DEF IInv

LEMMA Inductive == IInv /\ [Next]_vars => IInv'
<1> SUFFICES ASSUME IInv, [Next]_vars PROVE IInv'
  OBVIOUS
<1>1. ASSUME NEW c \in Clients, NEW timed \in BOOLEAN, Execute(c, timed) PROVE IInv'
  BY <1>1, ExecuteKeeps
<1>2. ASSUME NEW c \in Clients, Connect(c) \/ Disconnect(c) \/ Receive(c) PROVE IInv'
  BY <1>2, ConnectKeeps, DisconnectKeeps, ReceiveKeeps
<1>3. ASSUME NEW c \in Clients, NEW id \in Of(c), GiveUp(c, id) PROVE IInv'
  BY <1>3, GiveUpKeeps
<1>4. ASSUME ServerSteps PROVE IInv'
  BY <1>4, UntrackKeeps, HandleQueryKeeps, HandleAbortKeeps DEF ServerSteps
<1>5. ASSUME NEW id \in Ids, Answer(id) PROVE IInv'
  BY <1>5, AnswerKeeps
<1>6. CASE UNCHANGED vars
  BY <1>6, Stutters
<1> QED
  BY <1>1, <1>2, <1>3, <1>4, <1>5, <1>6 DEF Next

(* The transports and the server keep their types: an id stands for one    *)
(* query of one transport (transport.js:60), and a port carries only       *)
(* messages about the queries of its transport.                           *)
THEOREM TypeCorrect == Spec => []TypeOK
  BY Initially, Inductive, InvariantIsEnough, PTL DEF Spec

(* However an answer, a timeout, an abort and disconnect() race, the       *)
(* promise of a query is pending as long as it is in the dictionary of its *)
(* transport, and no timer outlives it (transport.js:110-165).            *)
THEOREM OnePromise == Spec => []PendingQueries
  BY Initially, Inductive, InvariantIsEnough, PTL DEF Spec

(* Queries reach the server in the order in which they were made, and no   *)
(* abort before its query (transport.js:87-102).                          *)
THEOREM Ordering == Spec => []InOrder
  BY Initially, Inductive, InvariantIsEnough, PTL DEF Spec

(* A query is settled with the answer of the service that ran for it       *)
(* (server.js:212-235, transport.js:193-212).                             *)
THEOREM OwnAnswer == Spec => []AnsweredByItsService
  BY Initially, Inductive, InvariantIsEnough, PTL DEF Spec
=============================================================================
