------------------------------- MODULE Pubsub -------------------------------
(***************************************************************************)
(* One pubsub topic, from the handlers of HTTP and gRPC clients, through   *)
(* the servers, to the pubsub component of the node.                      *)
(*                                                                        *)
(* An HTTP subscription lives as long as its request: unsubscribing aborts *)
(* the request, the server hears of it by the close of the connection.    *)
(* A gRPC subscription has an id, which a second call hands back to the    *)
(* server; such calls may overlap.  The libp2p (external) of the node is a  *)
(* new one after a restart.                                               *)
(***************************************************************************)
EXTENDS Naturals, Sequences, FiniteSets

CONSTANTS
  Http,         \* the subscriptions made by an HTTP client, each one at most once
  Grpc,         \* those made by a gRPC client
  Local,        \* the handlers the user of the node itself subscribes
  Objects,      \* those of Local that are objects with a handleEvent
  Handlers,     \* the handlers of the clients
  HandlerOf,    \* the handler of each subscription of a client
  Companies,    \* which subscriptions and handlers there may be side by side
  MaxCalls,     \* how many unsubscribe() of the gRPC client may be under way at a time
  None

Remote == Http \cup Grpc
Calls == 1 .. MaxCalls

ASSUME PubsubAssumption ==
  /\ Http \cap Grpc = {} /\ Remote \cap Local = {}
  /\ Objects \subseteq Local
  /\ HandlerOf \in [Remote -> Handlers]
  /\ Companies \subseteq SUBSET (Remote \cup Local)
  /\ MaxCalls \in Nat /\ None \notin Grpc

VARIABLES
  network,    \* "started" or "stopped"
  handlers,   \* handlers[topic] of the component: a subscription of a client stands
              \* for the handler its server has made for it
  onMessage,  \* "none", "here" for a listener of this libp2p, "elsewhere" for one
              \* that was added to the libp2p of an earlier start
  listening,  \* how many listeners this libp2p has
  topic,      \* whether this libp2p is subscribed to the topic
  conn,       \* the request of a subscription: "none", "sent", "open" when it is being
              \* handled, "cut" when only its client knows that it is over, "closed"
  pipe,       \* what its server has pushed and its client has not read
  client,     \* its client: "none", "waiting" for the answer, "assumed" when it does not
              \* wait any more, "reading" after subscribe() was answered, "over"; a handler
              \* of Local is "none" when it may be subscribed, "over" when it may not
  tracked,    \* the subscription tracker of the HTTP client
  aborted,    \* the requests the tracker has aborted, until their clients see it
  maps,       \* the ids in each map a gRPC client has made for the topic; a map is named
              \* by its first id
  current,    \* the map that the gRPC client has for the topic now
  registered, \* the ids in the map of the gRPC server
  gcalls,     \* the unsubscribe() of the gRPC client under way: the ids it names, the map
              \* they were in, the ids the server has not come to, and who waits
  swept,      \* history: subscriptions of clients that were removed with all handlers
  leaked,     \* history: those whose close found the network stopped
  dropped     \* history: those whose map an unsubscribe() of other ids has dropped

component == <<network, handlers, onMessage, listening, topic, swept>>
http == <<tracked, aborted>>
grpc == <<maps, current, registered, gcalls, dropped>>
vars == <<component, conn, pipe, client, http, grpc, leaked>>

NoCall == [at |-> "none", ids |-> {}, map |-> None, todo |-> {}]

(* The ids the gRPC client has for the topic. *)
known == IF current = None THEN {} ELSE maps[current]

Init ==
  /\ network = "started"
  /\ handlers = {} /\ onMessage = "none" /\ listening = 0 /\ topic = FALSE
  /\ conn = [r \in Remote |-> "none"]
  /\ pipe = [r \in Remote |-> <<>>]
  /\ \E company \in Companies :
       client = [r \in Remote \cup Local |-> IF r \in company THEN "none" ELSE "over"]
  /\ tracked = {} /\ aborted = {}
  /\ maps = [r \in Grpc |-> {}] /\ current = None /\ dropped = {}
  /\ registered = {} /\ gcalls = [c \in Calls |-> NoCall]
  /\ swept = {} /\ leaked = {}

-----------------------------------------------------------------------------
(* The component of the node (components/pubsub.js).  network.use()        *)
(* rejects when the network is stopped.                                   *)

(* Faulty variant: a listener is added for every handler. *)
FaultyCoreSubscribe(s) ==
  /\ network = "started"
  /\ topic' = TRUE
  /\ onMessage' = "here"
  /\ listening' = listening + 1
  /\ handlers' = handlers \cup {s}
  /\ UNCHANGED <<network, swept>>

CoreSubscribe(s) ==
  /\ network = "started"
  /\ topic' = TRUE
  /\ onMessage' = IF onMessage = "none" THEN "here" ELSE onMessage
  /\ listening' = IF onMessage = "none" THEN listening + 1 ELSE listening
  /\ handlers' = handlers \cup {s}
  /\ UNCHANGED <<network, swept>>

(* What is left when the handlers of gone are removed; of an object, or of *)
(* no handler at all, every handler of the topic.                         *)
Left(gone) == IF gone = {} \/ gone \cap Objects # {} THEN {} ELSE handlers \ gone

(* Faulty variant: the topic is left with the first of its handlers. *)
FaultyCoreUnsubscribe(gone) ==
  /\ network = "started"
  /\ handlers' = Left(gone)
  /\ topic' = FALSE
  /\ listening' = IF Left(gone) = {} /\ onMessage = "here" THEN listening - 1 ELSE listening
  /\ onMessage' = IF Left(gone) = {} THEN "none" ELSE onMessage
  /\ swept' = swept \cup ((handlers \cap Remote) \ (Left(gone) \cup gone))
  /\ UNCHANGED network

CoreUnsubscribe(gone) ==
  /\ network = "started"
  /\ handlers' = Left(gone)
  /\ topic' = (topic /\ Left(gone) # {})
  /\ listening' = IF Left(gone) = {} /\ onMessage = "here" THEN listening - 1 ELSE listening
  /\ onMessage' = IF Left(gone) = {} THEN "none" ELSE onMessage
  /\ swept' = swept \cup ((handlers \cap Remote) \ (Left(gone) \cup gone))
  /\ UNCHANGED network

(* The user of the node; a handler is not subscribed twice at a time. *)
LocalSubscribe(s) ==
  /\ client[s] = "none" /\ s \notin handlers
  /\ CoreSubscribe(s)
  /\ UNCHANGED <<conn, pipe, client, http, grpc, leaked>>

LocalUnsubscribe(gone) ==
  /\ gone \in {{s} : s \in Local} \cup {{}}
  /\ CoreUnsubscribe(gone)
  /\ UNCHANGED <<conn, pipe, client, http, grpc, leaked>>

(* The next start() makes another libp2p; the component stays as it is. *)
NetworkStop ==
  /\ network = "started"
  /\ network' = "stopped"
  /\ listening' = 0 /\ topic' = FALSE
  /\ onMessage' = IF onMessage = "none" THEN "none" ELSE "elsewhere"
  /\ UNCHANGED <<handlers, swept, conn, pipe, client, http, grpc, leaked>>

NetworkStart ==
  /\ network = "stopped"
  /\ network' = "started"
  /\ UNCHANGED <<handlers, onMessage, listening, topic, swept, conn, pipe, client, http, grpc, leaked>>

-----------------------------------------------------------------------------
(* The HTTP client (subscription-tracker.js, subscribe.js)                 *)

(* The tracker forgets the subscriptions of these handlers and aborts      *)
(* their requests, those that are over apart.                             *)
TrackerUnsubscribe(hs, over) ==
  /\ tracked' = {r \in tracked : HandlerOf[r] \notin hs}
  /\ aborted' = (aborted \cup {r \in tracked : HandlerOf[r] \in hs}) \ over

HttpSubscribe(r) ==
  /\ client[r] = "none"
  /\ \/ /\ \E t \in tracked : HandlerOf[t] = HandlerOf[r]
        /\ client' = [client EXCEPT ![r] = "over"]
        /\ UNCHANGED <<conn, tracked>>
     \/ /\ \A t \in tracked : HandlerOf[t] # HandlerOf[r]
        /\ tracked' = tracked \cup {r}
        /\ conn' = [conn EXCEPT ![r] = "sent"]
        /\ client' = [client EXCEPT ![r] = "waiting"]
  /\ UNCHANGED <<component, pipe, aborted, grpc, leaked>>

(* After a second without an answer the subscription counts as made. *)
FfWorkaround(r) ==
  /\ client[r] = "waiting"
  /\ client' = [client EXCEPT ![r] = "assumed"]
  /\ UNCHANGED <<component, conn, pipe, http, grpc, leaked>>

(* The first of the data is there. *)
Respond(r) ==
  /\ client[r] \in {"waiting", "assumed"} /\ pipe[r] # <<>>
  /\ client' = [client EXCEPT ![r] = "reading"]
  /\ UNCHANGED <<component, conn, pipe, http, grpc, leaked>>

(* readMessages: what has no sender is passed over. *)
HttpRead(r) ==
  /\ client[r] = "reading" /\ pipe[r] # <<>>
  /\ pipe' = [pipe EXCEPT ![r] = Tail(@)]
  /\ \/ /\ Head(pipe[r]) = "end"
        /\ client' = [client EXCEPT ![r] = "over"]
        /\ TrackerUnsubscribe({HandlerOf[r]}, {r})
     \/ /\ Head(pipe[r]) # "end"
        /\ UNCHANGED <<client, http>>
  /\ UNCHANGED <<component, conn, grpc, leaked>>

(* unsubscribe() of some handler, or of all. *)
HttpUnsubscribe(hs) ==
  /\ hs \in {{h} : h \in Handlers} \cup {Handlers}
  /\ tracked # {}
  /\ TrackerUnsubscribe(hs, {})
  /\ UNCHANGED <<component, conn, pipe, client, grpc, leaked>>

(* The request is over for its client, which has been aborted or has lost  *)
(* its server; the tracker forgets whatever has the same handler now.     *)
RequestFails(r) ==
  /\ client[r] \in {"waiting", "assumed", "reading"}
  /\ client' = [client EXCEPT ![r] = "over"]
  /\ conn' = [conn EXCEPT ![r] = CASE @ = "sent" -> "closed" [] @ = "open" -> "cut" [] OTHER -> @]
  /\ pipe' = [pipe EXCEPT ![r] = <<>>]
  /\ TrackerUnsubscribe({HandlerOf[r]}, {r})
  /\ UNCHANGED <<component, grpc, leaked>>

AbortSeen(r) == r \in aborted /\ RequestFails(r)
ConnectionBreaks(r) == conn[r] \in {"sent", "open"} /\ RequestFails(r)

-----------------------------------------------------------------------------
(* The HTTP server (api/resources/pubsub.js)                               *)

(* A first empty answer is pushed before the node has subscribed. *)
HttpServe(r) ==
  /\ conn[r] = "sent"
  /\ conn' = [conn EXCEPT ![r] = "open"]
  /\ \/ /\ CoreSubscribe(r)
        /\ pipe' = [pipe EXCEPT ![r] = <<"hello">>]
     \/ /\ network = "stopped"
        /\ pipe' = [pipe EXCEPT ![r] = <<"hello", "end">>]
        /\ UNCHANGED component
  /\ UNCHANGED <<client, http, grpc, leaked>>

Ended(r) == pipe[r] # <<>> /\ pipe[r][Len(pipe[r])] = "end"

(* Faulty variant: the stream is ended, the handler stays. *)
FaultyClose(r) ==
  /\ conn[r] = "cut" \/ (conn[r] = "open" /\ Ended(r))
  /\ conn' = [conn EXCEPT ![r] = "closed"]
  /\ UNCHANGED <<component, pipe, client, http, grpc, leaked>>

(* The response is closed, by the client or after its end: the handler is  *)
(* unsubscribed, but nobody looks whether that has worked.                *)
Close(r) ==
  /\ conn[r] = "cut" \/ (conn[r] = "open" /\ Ended(r))
  /\ conn' = [conn EXCEPT ![r] = "closed"]
  /\ \/ /\ CoreUnsubscribe({r})
        /\ UNCHANGED leaked
     \/ /\ network = "stopped"
        /\ leaked' = leaked \cup {r}
        /\ UNCHANGED component
  /\ UNCHANGED <<pipe, client, http, grpc>>

-----------------------------------------------------------------------------
(* The gRPC client and server (pubsub/subscribe.js, pubsub/unsubscribe.js) *)

GrpcSubscribe(r) ==
  /\ client[r] = "none"
  /\ conn' = [conn EXCEPT ![r] = "sent"]
  /\ client' = [client EXCEPT ![r] = "waiting"]
  /\ UNCHANGED <<component, pipe, http, grpc, leaked>>

(* The id is pushed before the node has subscribed.  If that fails the     *)
(* channel is ended, before or after the id has been sent.                *)
GrpcServe(r) ==
  /\ conn[r] = "sent"
  /\ conn' = [conn EXCEPT ![r] = "open"]
  /\ registered' = registered \cup {r}
  /\ \/ /\ CoreSubscribe(r)
        /\ pipe' = [pipe EXCEPT ![r] = <<"hello">>]
     \/ /\ network = "stopped"
        /\ \E answer \in {<<"hello", "end">>, <<"end">>} : pipe' = [pipe EXCEPT ![r] = answer]
        /\ UNCHANGED component
  /\ UNCHANGED <<client, http, maps, current, gcalls, dropped, leaked>>

(* The id answers subscribe() and is put into the map of the topic, a new   *)
(* one when there is none; an end before it is no answer.                 *)
GrpcRead(r) ==
  /\ client[r] \in {"waiting", "reading"} /\ pipe[r] # <<>>
  /\ pipe' = [pipe EXCEPT ![r] = Tail(@)]
  /\ \/ /\ Head(pipe[r]) = "hello"
        /\ client' = [client EXCEPT ![r] = "reading"]
        /\ current' = IF current = None THEN r ELSE current
        /\ maps' = [maps EXCEPT ![current'] = known \cup {r}]
     \/ /\ Head(pipe[r]) # "hello"
        /\ client' = [client EXCEPT ![r] = "over"]
        /\ UNCHANGED <<current, maps>>
  /\ UNCHANGED <<component, conn, http, registered, gcalls, dropped, leaked>>

(* The client has gone.  The server waits for an event 'end', which a      *)
(* socket does not have, and keeps the subscription.                      *)
GrpcClientGoes(r) ==
  /\ client[r] \in {"waiting", "reading"} /\ conn[r] = "open"
  /\ client' = [client EXCEPT ![r] = "over"]
  /\ conn' = [conn EXCEPT ![r] = "cut"]
  /\ pipe' = [pipe EXCEPT ![r] = <<>>]
  /\ UNCHANGED <<component, http, grpc, leaked>>

(* unsubscribe() with a handler sends the ids it has in the map; without   *)
(* one, and for a handler it does not know, it sends none.  When a call    *)
(* times out only its caller stops waiting, so that is no step here.      *)
GrpcUnsubscribe(hs) ==
  \E c \in Calls :
    /\ gcalls[c].at = "none" /\ \A d \in 1 .. c - 1 : gcalls[d].at # "none"
    /\ hs \in {{h} : h \in Handlers} \cup {{}}
    /\ current # None
    /\ LET ids == {r \in known : HandlerOf[r] \in hs}
       IN  gcalls' = [gcalls EXCEPT ![c] = [at |-> "sent", ids |-> ids, map |-> current, todo |-> ids]]
    /\ UNCHANGED <<component, conn, pipe, client, http, maps, current, registered, dropped, leaked>>

(* The call is answered when the server has come to all ids; nobody hears  *)
(* of it when the connection has been lost.                               *)
Comes(c, left) ==
  gcalls' = [gcalls EXCEPT ![c] =
    IF left # {} THEN [@ EXCEPT !.todo = left]
    ELSE IF @.at = "abandoned" THEN NoCall ELSE [@ EXCEPT !.at = "done", !.todo = {}]]

(* No ids stand for all handlers of the topic, whoever has made them. *)
GrpcHandleAll(c) ==
  /\ gcalls[c].at \in {"sent", "abandoned"} /\ gcalls[c].ids = {}
  /\ CoreUnsubscribe({})
  /\ Comes(c, {})
  /\ UNCHANGED <<conn, pipe, client, http, maps, current, registered, dropped, leaked>>

(* The loop of the server over the ids, an await for each; an id that was  *)
(* never there or is there no more is passed over.                        *)
GrpcHandleOne(c, r) ==
  /\ gcalls[c].at \in {"sent", "abandoned"} /\ r \in gcalls[c].todo
  /\ Comes(c, gcalls[c].todo \ {r})
  /\ registered' = registered \ {r}
  /\ \/ /\ r \in registered
        /\ CoreUnsubscribe({r})
        /\ pipe' = IF conn[r] = "open" THEN [pipe EXCEPT ![r] = Append(@, "end")] ELSE pipe
     \/ /\ r \notin registered
        /\ UNCHANGED <<component, pipe>>
  /\ UNCHANGED <<conn, client, http, maps, current, dropped, leaked>>

(* Faulty variant: the ids are forgotten whether or not that has worked. *)
FaultyGrpcHandleFails(c) ==
  /\ gcalls[c].at \in {"sent", "abandoned"}
  /\ network = "stopped"
  /\ gcalls[c].ids = {} \/ gcalls[c].todo \cap registered # {}
  /\ gcalls' = [gcalls EXCEPT ![c].at = "done", ![c].todo = {}]
  /\ registered' = registered \ gcalls[c].todo
  /\ UNCHANGED <<component, conn, pipe, client, http, maps, current, dropped, leaked>>

(* The node does not unsubscribe a handler: the call fails, with the ids   *)
(* before it removed on the server and all of them kept by the client.    *)
GrpcHandleFails(c) ==
  /\ gcalls[c].at \in {"sent", "abandoned"}
  /\ network = "stopped"
  /\ gcalls[c].ids = {} \/ gcalls[c].todo \cap registered # {}
  /\ gcalls' = [gcalls EXCEPT ![c] = NoCall]
  /\ UNCHANGED <<component, conn, pipe, client, http, maps, current, registered, dropped, leaked>>

(* The connection is lost, before the request has arrived, while the       *)
(* server is about it, which it finishes, or with the answer: the call     *)
(* fails, and the server has forgotten ids that the client keeps.         *)
GrpcAnswerLost(c) ==
  /\ \/ /\ gcalls[c].at = "sent"
        /\ gcalls' = [gcalls EXCEPT ![c].at = "abandoned"]
     \/ /\ gcalls[c].at = "done" \/ (gcalls[c].at = "sent" /\ gcalls[c].todo = gcalls[c].ids)
        /\ gcalls' = [gcalls EXCEPT ![c] = NoCall]
  /\ UNCHANGED <<component, conn, pipe, client, http, maps, current, registered, dropped, leaked>>

(* The ids are taken out of the map the call has found.  When that is      *)
(* empty the topic is forgotten with the map it has by now, which may be a *)
(* later one.                                                             *)
GrpcUnsubscribed(c) ==
  LET call == gcalls[c]
  IN  /\ call.at = "done"
      /\ maps' = [maps EXCEPT ![call.map] = @ \ call.ids]
      /\ current' = IF maps'[call.map] = {} THEN None ELSE current
      /\ dropped' = dropped \cup (known \ (known' \cup call.ids))
      /\ gcalls' = [gcalls EXCEPT ![c] = NoCall]
      /\ UNCHANGED <<component, conn, pipe, client, http, registered, leaked>>

-----------------------------------------------------------------------------

HttpAdvances(r) == Respond(r) \/ HttpRead(r) \/ AbortSeen(r) \/ HttpServe(r) \/ Close(r)
GrpcAdvances(r) == GrpcServe(r) \/ GrpcRead(r)
GrpcCall(c) ==
  \/ GrpcHandleAll(c) \/ (\E r \in Grpc : GrpcHandleOne(c, r)) \/ GrpcHandleFails(c)
  \/ GrpcAnswerLost(c) \/ GrpcUnsubscribed(c)

Next ==
  \/ NetworkStop \/ NetworkStart
  \/ \E s \in Local : LocalSubscribe(s)
  \/ \E gone \in SUBSET Local : LocalUnsubscribe(gone)
  \/ \E r \in Http : HttpSubscribe(r) \/ FfWorkaround(r) \/ ConnectionBreaks(r) \/ HttpAdvances(r)
  \/ \E hs \in SUBSET Handlers : HttpUnsubscribe(hs) \/ GrpcUnsubscribe(hs)
  \/ \E r \in Grpc : GrpcSubscribe(r) \/ GrpcClientGoes(r) \/ GrpcAdvances(r)
  \/ \E c \in Calls : GrpcCall(c)

Spec == Init /\ [][Next]_vars

(* The server handles what it gets over HTTP, its clients read, an abort   *)
(* and a close are noticed.  Nothing is assumed of gRPC.                  *)
Fairness ==
  \A r \in Http :
    /\ WF_vars(Respond(r) \/ HttpRead(r)) /\ WF_vars(AbortSeen(r))
    /\ WF_vars(HttpServe(r)) /\ WF_vars(Close(r))

FairSpec == Spec /\ Fairness

-----------------------------------------------------------------------------
(* Properties                                                             *)

CallType == [at : {"none", "sent", "abandoned", "done"}, ids : SUBSET Grpc,
             map : Grpc \cup {None}, todo : SUBSET Grpc]

TypeOK ==
  /\ network \in {"started", "stopped"}
  /\ handlers \subseteq Remote \cup Local
  /\ onMessage \in {"none", "here", "elsewhere"}
  /\ listening \in 0 .. 1
  /\ topic \in BOOLEAN
  /\ conn \in [Remote -> {"none", "sent", "open", "cut", "closed"}]
  /\ pipe \in [Remote -> Seq({"hello", "end"})]
  /\ client \in [Remote \cup Local -> {"none", "waiting", "assumed", "reading", "over"}]
  /\ tracked \subseteq Http /\ aborted \subseteq Http
  /\ maps \in [Grpc -> SUBSET Grpc] /\ current \in Grpc \cup {None}
  /\ registered \subseteq Grpc
  /\ gcalls \in [Calls -> CallType]
  /\ swept \subseteq Remote /\ leaked \subseteq Http /\ dropped \subseteq Grpc

(* What a client takes for a subscription: subscribe() has been answered,  *)
(* the client has not unsubscribed, and no end is on its way.             *)
Subscribed(r) ==
  /\ client[r] \in {"assumed", "reading"} /\ conn[r] = "open" /\ ~Ended(r)
  /\ r \in tracked \cup known \cup dropped

(* What a client takes for a subscription has its handler in the node,     *)
(* through all subscriptions and ends of others, unless all handlers of    *)
(* the topic were removed: by an unsubscribe without a handler, by one of  *)
(* a single object of the node's user (pubsub.js:89), or by one over gRPC  *)
(* of a handler the client does not know, which sends no ids.  While the   *)
(* component has its listener on this libp2p there is one, and the topic;  *)
(* after a restart that found a handler it has not, until all are gone.   *)
SubscriptionsAreServed ==
  \A r \in Remote :
    Subscribed(r) /\ r \notin swept =>
      /\ r \in handlers
      /\ onMessage # "elsewhere" => onMessage = "here" /\ listening = 1 /\ topic

(* However unsubscribe() calls of a gRPC client overlap, fail half way and  *)
(* lose their answers, it forgets an id only when the node has no handler  *)
(* for it any more.  Exempt are the ids in a map that the answer to an     *)
(* earlier call has dropped, having found its own map empty                *)
(* (unsubscribe.js:48-50): those the node goes on serving.                *)
ForgottenBeforeAnswered ==
  \A r \in Grpc :
    conn[r] = "open" /\ client[r] # "waiting" /\ r \notin known \cup dropped => r \notin handlers

(* The node forgets the handler of an HTTP request whose client has        *)
(* unsubscribed or has gone, unless the network was stopped at that time.  *)
UnsubscribedAreForgotten ==
  \A r \in Http : (r \in handlers /\ r \notin tracked) ~> (r \notin handlers \/ r \in leaked)
=============================================================================
