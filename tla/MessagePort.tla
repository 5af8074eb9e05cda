---------------------------- MODULE MessagePort ----------------------------
(***************************************************************************)
(* Calls over a MessagePort: the transports of the clients                *)
(* (ipfs-message-port-client/src/client/transport.js) and the server they *)
(* share (ipfs-message-port-server/src/server.js).  The two run in threads *)
(* of their own; a port delivers its messages in order.                   *)
(*                                                                        *)
(* <<c, k>> is the id that transport c gives to its k-th query.           *)
(***************************************************************************)
EXTENDS Naturals, Sequences, FiniteSets

CONSTANTS
  Clients,     \* the transports
  MaxQueries   \* bound: how many queries each transport is given

ASSUME MessagePortAssumption == MaxQueries \in [Clients -> Nat]

VARIABLES
  port,      \* of a transport: "none", "open" or "closed"
  nextID,    \* how many queries it has been given
  queries,   \* its dictionary of pending queries
  result,    \* what the promise of a query is settled with
  timer,     \* whether the timer of a query is armed
  toServer,  \* the messages on their way to the server, by client
  toClient,  \* those on their way back
  tracked,   \* the dictionary of the server
  service,   \* what the server does for a query
  aborted,   \* the queries whose signal the server has aborted
  discarded  \* history: the queries whose abort message the server has handled

client == <<port, nextID, queries, result, timer>>
server == <<tracked, service, aborted, discarded>>
vars == <<client, toServer, toClient, server>>

Ids == UNION {{c} \X (1 .. MaxQueries[c]) : c \in Clients}

Of(c) == {id \in Ids : id[1] = c}

(* The port of a client takes messages; a closed one drops them. *)
Posted(c, messages) ==
  toServer' = [toServer EXCEPT ![c] = IF port[c] = "open" THEN @ \o messages ELSE @]

Init ==
  /\ port = [c \in Clients |-> "none"]
  /\ nextID = [c \in Clients |-> 0]
  /\ queries = [c \in Clients |-> {}]
  /\ result = [id \in Ids |-> "none"]
  /\ timer = [id \in Ids |-> FALSE]
  /\ toServer = [c \in Clients |-> <<>>] /\ toClient = [c \in Clients |-> <<>>]
  /\ tracked = {} /\ service = [id \in Ids |-> "none"] /\ aborted = {} /\ discarded = {}

-----------------------------------------------------------------------------
(* The transport                                                          *)

(* execute(): a query is posted, or waits for connect(). *)
Execute(c, timed) ==
  LET id == <<c, nextID[c] + 1>>
  IN  /\ nextID[c] < MaxQueries[c]
      /\ nextID' = [nextID EXCEPT ![c] = @ + 1]
      /\ queries' = [queries EXCEPT ![c] = @ \cup {id}]
      /\ result' = [result EXCEPT ![id] = "pending"]
      /\ timer' = [timer EXCEPT ![id] = timed]
      /\ Posted(c, <<[type |-> "query", id |-> id]>>)
      /\ UNCHANGED <<port, toClient, server>>

(* Faulty variant: the entries in any order. *)
FaultyEntries(ids) == {s \in [1 .. Cardinality(ids) -> ids] : {s[k] : k \in DOMAIN s} = ids}

(* The entries of a dictionary in the order of their insertion: the one    *)
(* sequence of them that grows.                                           *)
Entries(ids) ==
  {s \in [1 .. Cardinality(ids) -> ids] : \A j, k \in DOMAIN s : j < k => s[j][2] < s[k][2]}

Messages(type, ids) == [k \in 1 .. Len(ids) |-> [type |-> type, id |-> ids[k]]]

(* Faulty variant: what was executed before connect() is not posted. *)
FaultyConnect(c) ==
  /\ port[c] = "none"
  /\ port' = [port EXCEPT ![c] = "open"]
  /\ UNCHANGED <<nextID, queries, result, timer, toServer, toClient, server>>

(* connect(): all pending queries are posted. *)
Connect(c) ==
  /\ port[c] = "none"
  /\ port' = [port EXCEPT ![c] = "open"]
  /\ \E waiting \in Entries(queries[c]) :
       toServer' = [toServer EXCEPT ![c] = Messages("query", waiting)]
  /\ UNCHANGED <<nextID, queries, result, timer, toClient, server>>

(* Faulty variant: the timer of a query that is settled goes on. *)
FaultySettled(c, ids, outcome) ==
  /\ queries' = [queries EXCEPT ![c] = @ \ ids]
  /\ result' = [id \in Ids |-> IF id \in ids THEN outcome ELSE result[id]]
  /\ UNCHANGED timer

(* Queries are taken out of the dictionary, settled and their timers cleared. *)
Settled(c, ids, outcome) ==
  /\ queries' = [queries EXCEPT ![c] = @ \ ids]
  /\ result' = [id \in Ids |-> IF id \in ids THEN outcome ELSE result[id]]
  /\ timer' = [id \in Ids |-> timer[id] /\ id \notin ids]

(* timeout(), and abort() when the signal of the caller aborts. *)
GiveUp(c, id) ==
  /\ id \in queries[c]
  /\ \/ timer[id] /\ Settled(c, {id}, "timeout")
     \/ Settled(c, {id}, "aborted")
  /\ Posted(c, <<[type |-> "abort", id |-> id]>>)
  /\ UNCHANGED <<port, nextID, toClient, server>>

(* disconnect(): all pending queries fail, then the port is closed; also   *)
(* once more, for the queries made since.                                 *)
Disconnect(c) ==
  /\ port' = [port EXCEPT ![c] = IF @ = "none" THEN @ ELSE "closed"]
  /\ Settled(c, queries[c], "disconnected")
  /\ \E waiting \in Entries(queries[c]) : Posted(c, Messages("abort", waiting))
  /\ toClient' = [toClient EXCEPT ![c] = <<>>]
  /\ UNCHANGED <<nextID, server>>

(* Faulty variant: a result is taken for that of the oldest pending query. *)
FaultyReceive(c) ==
  /\ port[c] = "open" /\ toClient[c] # <<>>
  /\ toClient' = [toClient EXCEPT ![c] = Tail(@)]
  /\ IF queries[c] # {}
     THEN \E id \in queries[c] : /\ \A other \in queries[c] : id[2] <= other[2]
                                 /\ Settled(c, {id}, Head(toClient[c]).result)
     ELSE UNCHANGED <<queries, result, timer>>
  /\ UNCHANGED <<port, nextID, toServer, server>>

(* handleEvent(): the result of a query that is not pending is ignored. *)
Receive(c) ==
  /\ port[c] = "open" /\ toClient[c] # <<>>
  /\ toClient' = [toClient EXCEPT ![c] = Tail(@)]
  /\ LET message == Head(toClient[c])
     IN  IF message.id \in queries[c]
         THEN Settled(c, {message.id}, message.result)
         ELSE UNCHANGED <<queries, result, timer>>
  /\ UNCHANGED <<port, nextID, toServer, server>>

-----------------------------------------------------------------------------
(* The server                                                             *)

(* Continuations run before the next message is handled. *)
NoContinuation == tracked = {}

Handled(c, type) ==
  /\ NoContinuation
  /\ toServer[c] # <<>> /\ Head(toServer[c]).type = type
  /\ toServer' = [toServer EXCEPT ![c] = Tail(@)]

(* handleQuery() puts the query in the dictionary and runs the service. *)
HandleQuery(c) ==
  LET id == Head(toServer[c]).id
  IN  /\ Handled(c, "query")
      /\ tracked' = tracked \cup {id}
      /\ service' = [service EXCEPT ![id] = "running"]
      /\ UNCHANGED <<client, toClient, aborted, discarded>>

(* "await this.run(query)": run() returns nothing that could be awaited, so *)
(* the query is out of the dictionary before its service has an answer.   *)
Untrack ==
  /\ tracked # {} /\ tracked' = {}
  /\ UNCHANGED <<client, toServer, toClient, service, aborted, discarded>>

(* abort(): a query that is in the dictionary is aborted. *)
HandleAbort(c) ==
  LET id == Head(toServer[c]).id
  IN  /\ Handled(c, "abort")
      /\ aborted' = aborted \cup ({id} \cap tracked)
      /\ tracked' = tracked \ {id}
      /\ discarded' = discarded \cup {id}
      /\ UNCHANGED <<client, toClient, service>>

(* Faulty variant: the answer goes to all ports the server is connected to. *)
FaultyAnswer(id) ==
  /\ NoContinuation /\ service[id] = "running"
  /\ service' = [service EXCEPT ![id] = "answered"]
  /\ \E r \in {"value", "error"} :
       toClient' = [c \in Clients |->
         IF port[c] = "open" THEN Append(toClient[c], [id |-> id, result |-> r]) ELSE toClient[c]]
  /\ UNCHANGED <<client, toServer, tracked, aborted, discarded>>

(* The service has an answer; it is posted to the port of the query. *)
Answer(id) ==
  /\ NoContinuation /\ service[id] = "running"
  /\ service' = [service EXCEPT ![id] = "answered"]
  /\ \E r \in {"value", "error"} :
       toClient' = [toClient EXCEPT ![id[1]] =
         IF id \notin aborted /\ port[id[1]] = "open"
         THEN Append(@, [id |-> id, result |-> r]) ELSE @]
  /\ UNCHANGED <<client, toServer, tracked, aborted, discarded>>

-----------------------------------------------------------------------------

ServerSteps == Untrack \/ (\E c \in Clients : HandleQuery(c) \/ HandleAbort(c))

Next ==
  \/ \E c \in Clients :
       \/ \E timed \in BOOLEAN : Execute(c, timed)
       \/ Connect(c) \/ Disconnect(c) \/ Receive(c)
       \/ \E id \in Of(c) : GiveUp(c, id)
  \/ ServerSteps
  \/ \E id \in Ids : Answer(id)

Spec == Init /\ [][Next]_vars

(* Both threads go on, services answer and timers go off. *)
Fairness ==
  /\ \A c \in Clients :
       /\ WF_vars(Receive(c))
       /\ WF_vars(HandleQuery(c) \/ HandleAbort(c))
       /\ \A id \in Of(c) : WF_vars(timer[id] /\ GiveUp(c, id))
  /\ WF_vars(Untrack)
  /\ \A id \in Ids : WF_vars(Answer(id))

FairSpec == Spec /\ Fairness

-----------------------------------------------------------------------------
(* Properties                                                             *)

Outcomes == {"none", "pending", "value", "error", "timeout", "aborted", "disconnected"}

TypeOK ==
  /\ port \in [Clients -> {"none", "open", "closed"}]
  /\ nextID \in [Clients -> Nat] /\ \A c \in Clients : nextID[c] <= MaxQueries[c]
  /\ queries \in [Clients -> SUBSET Ids]
  /\ result \in [Ids -> Outcomes]
  /\ timer \in [Ids -> BOOLEAN]
  /\ DOMAIN toServer = Clients /\ DOMAIN toClient = Clients
  /\ \A c \in Clients :
       /\ toServer[c] \in Seq([type : {"query", "abort"}, id : Of(c)])
       /\ toClient[c] \in Seq([id : Of(c), result : {"value", "error"}])
  /\ tracked \subseteq Ids /\ aborted \subseteq Ids /\ discarded \subseteq Ids
  /\ service \in [Ids -> {"none", "running", "answered"}]

(* The dictionary of a transport, the promises and the timers agree: no    *)
(* promise is forgotten, and no timer is left of a query that is over.    *)
PendingQueries ==
  \A c \in Clients : \A id \in Of(c) :
    /\ id \in queries[c] <=> result[id] = "pending"
    /\ timer[id] => result[id] = "pending"

(* Queries reach the server in the order in which they were made, those    *)
(* that waited for the port first, and an abort never before its query.   *)
InOrder ==
  \A c \in Clients : \A j, k \in 1 .. Len(toServer[c]) :
    j < k =>
      LET m == toServer[c][j]
          n == toServer[c][k]
      IN  /\ m.type = "query" /\ n.type = "query" => m.id[2] < n.id[2]
          /\ m.type = "abort" /\ n.type = "query" => m.id # n.id

(* An answer is only ever given by the service that ran for the query, and *)
(* settles that query alone.                                              *)
AnsweredByItsService ==
  \A id \in Ids : result[id] \in {"value", "error"} => service[id] = "answered"

(* A query that reaches a port is settled, whether it is answered, timed   *)
(* out, aborted or the transport disconnects, and so is one with a timer, *)
(* in any case.  What is executed on a port that is closed already waits  *)
(* for ever if it has no timer, unless disconnect() is called once more.  *)
QueriesSettle ==
  \A c \in Clients : \A id \in Of(c) :
    result[id] = "pending" /\ (port[c] = "open" \/ timer[id]) ~> result[id] # "pending"

(* transport.js:10: it "makes sure that aborted / timed out queries are    *)
(* cancelled as needed": when the server has handled the abort of a query *)
(* that runs, the signal of its service is aborted.                       *)
AbortedQueryIsCancelled ==
  \A id \in Ids : id \in discarded /\ service[id] = "running" => id \in aborted
=============================================================================
