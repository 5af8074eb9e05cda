---------------------------- MODULE PubsubProofs ----------------------------
(***************************************************************************)
(* What the clients of a topic can rely on, for any number of clients, of *)
(* handlers of the node, and of stops and starts of its network.          *)
(***************************************************************************)
EXTENDS Pubsub, Integers, TLAPS

(* The listener of this libp2p is there once, for all handlers; after a     *)
(* restart that found handlers, it is not.                                *)
Listener ==
  /\ onMessage = "none" <=> handlers = {}
  /\ onMessage = "here" => listening = 1 /\ topic
  /\ onMessage # "here" => listening = 0
  /\ network = "stopped" => onMessage # "here"

(* What its server has not begun to handle is known to nobody else. *)
Unanswered(r) ==
  /\ conn[r] \in {"none", "sent"} =>
       /\ r \notin handlers \cup registered \cup known /\ pipe[r] = <<>>
       /\ \A k \in Calls : r \notin gcalls[k].ids
  /\ conn[r] = "sent" => client[r] \in {"waiting", "assumed"}
  /\ client[r] = "none" => conn[r] = "none"

(* A request that is open has its handler, until it is told of the end. *)
Served(r) ==
  conn[r] = "open" /\ client[r] # "over" => Ended(r) \/ r \in handlers \cup swept

(* A handler of a gRPC client is found by its id, and the client has the   *)
(* id as soon as it has the answer.                                       *)
Identified(r) ==
  /\ client[r] # "assumed"
  /\ conn[r] = "open" /\ r \notin registered => r \notin handlers
  /\ conn[r] = "open" /\ client[r] = "waiting" =>
       pipe[r] # <<>> /\ (Head(pipe[r]) = "hello" \/ r \notin handlers)
  /\ conn[r] = "open" /\ client[r] # "waiting" => r \in known \cup dropped \/ r \notin handlers

(* The ids that a call has come to are not registered, and stay so. *)
CallInv ==
  \A c \in Calls :
    /\ (gcalls[c].ids \ gcalls[c].todo) \cap registered = {}
    /\ gcalls[c].at = "done" => gcalls[c].todo = {}

IInv ==
  /\ TypeOK /\ Listener /\ CallInv
  /\ \A r \in Remote : Unanswered(r) /\ Served(r)
  /\ \A r \in Grpc : Identified(r)

-----------------------------------------------------------------------------
(* What is read from a stream and written to it.                          *)
Chunks == {"hello", "end"}

LEMMA ReadOne ==
  ASSUME NEW s \in Seq(Chunks), s # <<>>
  PROVE  /\ Head(s) \in Chunks /\ Tail(s) \in Seq(Chunks)
         /\ s[Len(s)] = "end" /\ Head(s) # "end" =>
              Tail(s) # <<>> /\ Tail(s)[Len(Tail(s))] = "end"
<1>1. Len(s) \in Nat \ {0} /\ Head(s) = s[1] /\ Head(s) \in Chunks /\ Tail(s) \in Seq(Chunks)
  OBVIOUS
<1>2. Len(Tail(s)) = Len(s) - 1 /\ \A i \in 1 .. Len(s) - 1 : Tail(s)[i] = s[i + 1]
  BY <1>1
<1>3. ASSUME s[Len(s)] = "end", Head(s) # "end"
      PROVE  Tail(s) # <<>> /\ Tail(s)[Len(Tail(s))] = "end"
  <2>1. Len(s) # 1
    BY <1>1, <1>3
  <2>2. \A n \in Nat \ {0, 1} : n - 1 \in 1 .. n - 1 /\ n - 1 + 1 = n
    OBVIOUS
  <2>3. Len(s) - 1 \in 1 .. Len(s) - 1 /\ Len(s) - 1 + 1 = Len(s)
    <3>1. Len(s) \in Nat \ {0, 1}
      BY <1>1, <2>1
    <3> QED
      BY <2>2, <3>1, Zenon
  <2>4. Tail(s)[Len(Tail(s))] = s[Len(s)]
    BY <1>2, <2>3, Zenon
  <2>5. Tail(s) # <<>>
    <3>1. Len(<<>>) = 0 /\ 0 \notin 1 .. 0
      OBVIOUS
    <3> QED
      BY <1>2, <2>3, <3>1
  <2> QED
    BY <1>3, <2>4, <2>5
<1> QED
  BY <1>1, <1>3

LEMMA PushEnd ==
  ASSUME NEW s \in Seq(Chunks)
  PROVE  /\ Append(s, "end") \in Seq(Chunks) /\ Append(s, "end") # <<>>
         /\ Append(s, "end")[Len(Append(s, "end"))] = "end"
         /\ s # <<>> => Head(Append(s, "end")) = Head(s)
  BY DEF Chunks

LEMMA Answers ==
  /\ \A s \in {<<>>, <<"hello">>, <<"end">>, <<"hello", "end">>} : s \in Seq(Chunks)
  /\ \A s \in {<<"hello">>, <<"end">>, <<"hello", "end">>} : s # <<>>
  /\ \A s \in {<<"end">>, <<"hello", "end">>} : s[Len(s)] = "end"
  /\ Head(<<"hello">>) = "hello"
  BY DEF Chunks

-----------------------------------------------------------------------------
LEMMA Answering ==
  ASSUME TypeOK, NEW c \in Remote,
         NEW answer \in {<<"hello">>, <<"end">>, <<"hello", "end">>},
         pipe' = [pipe EXCEPT ![c] = answer]
  PROVE  pipe' \in [Remote -> Seq({"hello", "end"})] /\ pipe'[c] = answer
<1>1. answer \in Seq(Chunks)
  BY Answers
<1>2. pipe \in [Remote -> Seq(Chunks)]
  BY DEF TypeOK, Chunks
<1> QED
  BY <1>1, <1>2 DEF Chunks

(* The component, as the requests see it: whoever is subscribed stays so   *)
(* until it is named, or everybody is.                                    *)
ComponentStep(gone) ==
  /\ Listener'
  /\ network' \in {"started", "stopped"} /\ onMessage' \in {"none", "here", "elsewhere"}
  /\ listening' \in 0 .. 1 /\ topic' \in BOOLEAN
  /\ handlers' \subseteq Remote \cup Local
  /\ handlers \cap Remote \subseteq handlers' \cup gone \cup swept'
  /\ swept \subseteq swept' /\ swept' \subseteq Remote

LEMMA SubscribeOne ==
  ASSUME IInv, NEW s \in Remote \cup Local, CoreSubscribe(s)
  PROVE  ComponentStep({}) /\ handlers' = handlers \cup {s}
  BY DEF IInv, TypeOK, Listener, CoreSubscribe, ComponentStep

LEMMA UnsubscribeSome ==
  ASSUME IInv, NEW gone, CoreUnsubscribe(gone)
  PROVE  ComponentStep(gone) /\ handlers' \subseteq handlers \ gone
<1>1. handlers' = Left(gone) /\ Left(gone) \subseteq handlers \ gone
  BY DEF CoreUnsubscribe, Left
<1>2. topic' \in BOOLEAN
  BY DEF CoreUnsubscribe
<1>3. onMessage' = "here" => topic'
  BY DEF CoreUnsubscribe, IInv, Listener
<1>4. Listener' /\ listening' \in 0 .. 1
  BY <1>1, <1>3 DEF IInv, TypeOK, Listener, CoreUnsubscribe
<1>5. /\ network' \in {"started", "stopped"} /\ onMessage' \in {"none", "here", "elsewhere"}
      /\ handlers' \subseteq Remote \cup Local
      /\ handlers \cap Remote \subseteq handlers' \cup gone \cup swept'
      /\ swept \subseteq swept' /\ swept' \subseteq Remote
  BY <1>1 DEF IInv, TypeOK, CoreUnsubscribe
<1> QED
  BY <1>1, <1>2, <1>4, <1>5 DEF ComponentStep

LEMMA ComponentRests ==
  ASSUME IInv, UNCHANGED component
  PROVE  ComponentStep({}) /\ handlers' = handlers
  BY DEF IInv, TypeOK, Listener, ComponentStep, component

LEMMA InitIInv == Init => IInv
<1> SUFFICES ASSUME Init PROVE IInv
  OBVIOUS
<1>1. TypeOK
  <2>1. client \in [Remote \cup Local -> {"none", "waiting", "assumed", "reading", "over"}]
    BY DEF Init
  <2>2. pipe \in [Remote -> Seq({"hello", "end"})]
    BY DEF Init
  <2>3. /\ network \in {"started", "stopped"} /\ handlers \subseteq Remote \cup Local
        /\ onMessage \in {"none", "here", "elsewhere"} /\ listening \in 0 .. 1
        /\ conn \in [Remote -> {"none", "sent", "open", "cut", "closed"}]
    BY DEF Init
  <2>5. topic \in BOOLEAN
    BY DEF Init
  <2>4. /\ tracked \subseteq Http /\ aborted \subseteq Http
        /\ maps \in [Grpc -> SUBSET Grpc] /\ current \in Grpc \cup {None}
        /\ registered \subseteq Grpc /\ gcalls \in [Calls -> CallType]
        /\ swept \subseteq Remote /\ leaked \subseteq Http /\ dropped \subseteq Grpc
    BY DEF Init, NoCall, CallType
  <2> QED
    BY <2>1, <2>2, <2>3, <2>4, <2>5 DEF TypeOK
<1>2. Listener /\ CallInv
  BY DEF Init, Listener, CallInv, NoCall
<1>3. \A r \in Remote : Unanswered(r) /\ Served(r)
  BY DEF Init, Unanswered, Served, NoCall, known
<1>4. \A r \in Grpc : Identified(r)
  BY DEF Init, Identified, Remote
<1> QED
  BY <1>1, <1>2, <1>3, <1>4 DEF IInv

-----------------------------------------------------------------------------
(* One step: what it does to the requests, and what it leaves alone.      *)
Apart(r) ==
  /\ conn'[r] = conn[r] /\ pipe'[r] = pipe[r] /\ client'[r] = client[r]
  /\ r \in handlers' => r \in handlers
  /\ r \in handlers => r \in handlers' \cup swept'
  /\ r \in swept => r \in swept'
  /\ r \in registered' <=> r \in registered
  /\ r \in known' <=> r \in known
  /\ r \in dropped' <=> r \in dropped
  /\ \A c \in Calls : r \in gcalls'[c].ids => r \in gcalls[c].ids \cup known

RequestInv(r) == Unanswered(r) /\ Served(r) /\ (r \in Grpc => Identified(r))

LEMMA ApartKeeps ==
  ASSUME NEW r \in Remote, RequestInv(r), Apart(r)
  PROVE  RequestInv(r)'
  BY DEF RequestInv, Apart, Unanswered, Served, Identified, Ended

LEMMA Assembled ==
  ASSUME TypeOK', Listener', CallInv', \A r \in Remote : RequestInv(r)'
  PROVE  IInv'
  BY DEF IInv, RequestInv, Remote

LEMMA ComponentSteps ==
  ASSUME IInv, \/ NetworkStop \/ NetworkStart
               \/ \E s \in Local : LocalSubscribe(s)
               \/ \E gone \in SUBSET Local : LocalUnsubscribe(gone)
  PROVE  IInv'
<1>1. /\ Listener'
      /\ network' \in {"started", "stopped"} /\ onMessage' \in {"none", "here", "elsewhere"}
      /\ listening' \in 0 .. 1 /\ topic' \in BOOLEAN
      /\ handlers' \subseteq Remote \cup Local /\ handlers' \cap Remote \subseteq handlers
      /\ handlers \cap Remote \subseteq handlers' \cup swept'
      /\ swept \subseteq swept' /\ swept' \subseteq Remote
      /\ UNCHANGED <<conn, pipe, client, http, grpc, leaked>>
  <2>1. CASE NetworkStop
    <3>1. topic' \in BOOLEAN
      BY <2>1 DEF NetworkStop
    <3> QED
      BY <2>1, <3>1 DEF NetworkStop, IInv, TypeOK, Listener, http, grpc
  <2>4. CASE NetworkStart
    BY <2>4 DEF NetworkStart, IInv, TypeOK, Listener, http, grpc
  <2>2. CASE \E s \in Local : LocalSubscribe(s)
    BY <2>2, SubscribeOne, PubsubAssumption DEF LocalSubscribe, ComponentStep
  <2>3. CASE \E gone \in SUBSET Local : LocalUnsubscribe(gone)
    BY <2>3, UnsubscribeSome, PubsubAssumption DEF LocalUnsubscribe, ComponentStep
  <2> QED
    BY <2>1, <2>2, <2>3, <2>4
<1>2. TypeOK' /\ CallInv'
  BY <1>1 DEF IInv, TypeOK, CallInv, http, grpc
<1>3. ASSUME NEW r \in Remote PROVE RequestInv(r)'
  <2>1. Apart(r)
    BY <1>1 DEF Apart, known, http, grpc
  <2> QED
    BY <2>1, ApartKeeps DEF IInv, RequestInv
<1> QED
  BY <1>1, <1>2, <1>3, Assembled

(* The HTTP client, whose steps the component does not see. *)
LEMMA HttpClientSteps ==
  ASSUME IInv, NEW c \in Http,
         \/ HttpSubscribe(c) \/ FfWorkaround(c) \/ Respond(c) \/ HttpRead(c)
         \/ RequestFails(c)
  PROVE  IInv'
<1>1. UNCHANGED <<component, grpc>> /\ \A r \in Remote \ {c} : Apart(r)
  BY DEF HttpSubscribe, FfWorkaround, Respond, HttpRead, RequestFails, Apart, known, component, http, grpc,
         IInv, TypeOK
<1>2. CallInv' /\ Listener'
  BY <1>1, ComponentRests DEF IInv, CallInv, grpc, ComponentStep
<1>3. pipe[c] # <<>> => Tail(pipe[c]) \in Seq(Chunks)
  BY ReadOne DEF IInv, TypeOK, Chunks, Remote
<1>4. TypeOK'
  <2> USE DEF IInv, TypeOK, component, grpc, http, Chunks, Remote
  <2>1. CASE HttpSubscribe(c)
    BY <2>1, <1>1 DEF HttpSubscribe
  <2>2. CASE FfWorkaround(c) \/ Respond(c)
    BY <2>2, <1>1 DEF FfWorkaround, Respond
  <2>3. CASE HttpRead(c)
    BY <2>3, <1>1, <1>3 DEF HttpRead, TrackerUnsubscribe
  <2>4. CASE RequestFails(c)
    BY <2>4, <1>1, Answers DEF RequestFails, TrackerUnsubscribe
  <2> QED
    BY <2>1, <2>2, <2>3, <2>4
<1>5. RequestInv(c)'
  <2> USE DEF IInv, TypeOK, RequestInv, Unanswered, Served, known, component, grpc, Remote
  <2>0. c \notin Grpc /\ c \in Remote
    BY PubsubAssumption
  <2>1. CASE HttpSubscribe(c)
    BY <2>0, <2>1, <1>1 DEF HttpSubscribe, Ended
  <2>2. CASE FfWorkaround(c) \/ Respond(c)
    BY <2>0, <2>2, <1>1 DEF FfWorkaround, Respond, Ended
  <2>3. CASE HttpRead(c)
    BY <2>0, <2>3, <1>1, ReadOne DEF HttpRead, Ended, Chunks
  <2>4. CASE RequestFails(c)
    BY <2>0, <2>4, <1>1 DEF RequestFails
  <2> QED
    BY <2>1, <2>2, <2>3, <2>4
<1>6. \A r \in Remote : RequestInv(r)'
  BY <1>1, <1>5, ApartKeeps DEF IInv, RequestInv
<1> QED
  BY <1>2, <1>4, <1>6, Assembled

(* The HTTP server. *)
LEMMA HttpServerSteps ==
  ASSUME IInv, NEW c \in Http, HttpServe(c) \/ Close(c)
  PROVE  IInv'
<1>0. c \in Remote /\ c \notin Grpc /\ c \notin Local
  BY PubsubAssumption DEF Remote
<1>1. CASE HttpServe(c)
  <2>1. /\ ComponentStep({}) /\ handlers' \subseteq handlers \cup {c}
        /\ c \in handlers' \/ pipe'[c] = <<"hello", "end">>
        /\ conn' = [conn EXCEPT ![c] = "open"] /\ conn[c] = "sent"
        /\ \E answer \in {<<"hello">>, <<"hello", "end">>} : pipe' = [pipe EXCEPT ![c] = answer]
        /\ UNCHANGED <<client, http, grpc, leaked>>
    BY <1>0, <1>1, SubscribeOne, ComponentRests DEF HttpServe, IInv, TypeOK
  <2>2. TypeOK' /\ Listener' /\ CallInv'
    <3>1. pipe' \in [Remote -> Seq({"hello", "end"})]
      BY <1>0, <2>1, Answering DEF IInv
    <3> QED
      BY <2>1, <3>1 DEF IInv, TypeOK, CallInv, ComponentStep, grpc, http
  <2>3. RequestInv(c)'
    BY <1>0, <2>1, Answers DEF IInv, TypeOK, RequestInv, Unanswered, Served, Ended, known, grpc
  <2>4. ASSUME NEW r \in Remote \ {c} PROVE Apart(r)
    BY <2>1 DEF Apart, known, IInv, TypeOK, ComponentStep, grpc
  <2> QED
    BY <2>2, <2>3, <2>4, ApartKeeps, Assembled DEF IInv, RequestInv
<1>2. CASE Close(c)
  <2>1. /\ ComponentStep({c}) /\ handlers' \subseteq handlers
        /\ conn' = [conn EXCEPT ![c] = "closed"] /\ conn[c] \in {"cut", "open"}
        /\ leaked' \subseteq leaked \cup {c}
        /\ UNCHANGED <<pipe, client, http, grpc>>
    BY <1>2, UnsubscribeSome, ComponentRests DEF Close, ComponentStep
  <2>2. TypeOK' /\ Listener' /\ CallInv'
    BY <1>0, <2>1 DEF IInv, TypeOK, CallInv, ComponentStep, grpc, http
  <2>3. RequestInv(c)'
    BY <1>0, <2>1 DEF IInv, TypeOK, RequestInv, Unanswered, Served, known, grpc
  <2>4. ASSUME NEW r \in Remote \ {c} PROVE Apart(r)
    BY <2>1 DEF Apart, known, IInv, TypeOK, ComponentStep, grpc
  <2> QED
    BY <2>2, <2>3, <2>4, ApartKeeps, Assembled DEF IInv, RequestInv
<1> QED
  BY <1>1, <1>2

(* The gRPC client, whose steps the component does not see. *)
LEMMA KnownIds == ASSUME TypeOK PROVE known \subseteq Grpc
BY DEF TypeOK, known

LEMMA GrpcClientSteps ==
  ASSUME IInv, NEW c \in Grpc, GrpcSubscribe(c) \/ GrpcClientGoes(c) \/ GrpcRead(c)
  PROVE  IInv'
<1>0. c \in Remote
  BY DEF Remote
<1>1. /\ UNCHANGED <<component, http, registered, gcalls, dropped, leaked>>
      /\ \A r \in Remote \ {c} :
           conn'[r] = conn[r] /\ pipe'[r] = pipe[r] /\ client'[r] = client[r]
  BY DEF GrpcSubscribe, GrpcClientGoes, GrpcRead, component, grpc, IInv, TypeOK
<1>2. Listener' /\ CallInv'
  BY <1>1, ComponentRests DEF IInv, CallInv, ComponentStep
<1>3. CASE GrpcSubscribe(c) \/ GrpcClientGoes(c)
  <2>1. UNCHANGED <<maps, current, known>>
    BY <1>3 DEF GrpcSubscribe, GrpcClientGoes, grpc, known
  <2>2. TypeOK'
    <3>1. client' \in [Remote \cup Local -> {"none", "waiting", "assumed", "reading", "over"}]
      BY <1>3 DEF GrpcSubscribe, GrpcClientGoes, IInv, TypeOK
    <3>2. conn' \in [Remote -> {"none", "sent", "open", "cut", "closed"}]
      BY <1>3 DEF GrpcSubscribe, GrpcClientGoes, IInv, TypeOK
    <3>3. pipe' \in [Remote -> Seq({"hello", "end"})]
      BY <1>0, <1>3, Answers DEF GrpcSubscribe, GrpcClientGoes, IInv, TypeOK, Chunks
    <3> QED
      BY <1>1, <2>1, <3>1, <3>2, <3>3 DEF IInv, TypeOK, component, http
  <2>3. RequestInv(c)'
    BY <1>0, <1>1, <1>3, <2>1
    DEF GrpcSubscribe, GrpcClientGoes, IInv, TypeOK, RequestInv, Unanswered, Served, Identified, component
  <2>4. ASSUME NEW r \in Remote \ {c} PROVE Apart(r)
    BY <1>1, <2>1 DEF Apart, component
  <2> QED
    BY <1>2, <2>2, <2>3, <2>4, ApartKeeps, Assembled DEF IInv, RequestInv
<1>4. CASE GrpcRead(c)
  <2>1. /\ pipe[c] \in Seq(Chunks) /\ pipe[c] # <<>> /\ client[c] \in {"waiting", "reading"}
        /\ pipe' = [pipe EXCEPT ![c] = Tail(pipe[c])] /\ conn' = conn
        /\ client' = [client EXCEPT ![c] = IF Head(pipe[c]) = "hello" THEN "reading" ELSE "over"]
    BY <1>0, <1>4 DEF GrpcRead, IInv, TypeOK, Chunks
  <2>2. /\ known' = IF Head(pipe[c]) = "hello" THEN known \cup {c} ELSE known
        /\ maps' \in [Grpc -> SUBSET Grpc] /\ current' \in Grpc \cup {None}
    <3>1. CASE Head(pipe[c]) = "hello"
      <4>1. current' = (IF current = None THEN c ELSE current)
            /\ maps' = [maps EXCEPT ![current'] = known \cup {c}]
        BY <1>4, <3>1 DEF GrpcRead
      <4>2. current' \in Grpc /\ current' # None
        BY <4>1, PubsubAssumption DEF IInv, TypeOK
      <4> QED
        BY <3>1, <4>1, <4>2, KnownIds DEF IInv, TypeOK, known
    <3>2. CASE Head(pipe[c]) # "hello"
      BY <1>4, <3>2 DEF GrpcRead, IInv, TypeOK, known
    <3> QED
      BY <3>1, <3>2
  <2>3. TypeOK'
    BY <1>0, <1>1, <2>1, <2>2, ReadOne DEF IInv, TypeOK, component, http, Chunks
  <2>4. Unanswered(c)'
    BY <1>0, <1>1, <2>1, <2>2 DEF IInv, TypeOK, Unanswered, component
  <2>5. Served(c)'
    BY <1>0, <1>1, <2>1, ReadOne DEF IInv, TypeOK, Served, Ended, component
  <2>6. Identified(c)'
    BY <1>0, <1>1, <2>1, <2>2, ReadOne DEF IInv, TypeOK, Identified, component, Chunks
  <2>7. ASSUME NEW r \in Remote \ {c} PROVE Apart(r)
    BY <1>1, <2>2 DEF Apart, component
  <2> QED
    BY <1>2, <2>3, <2>4, <2>5, <2>6, <2>7, ApartKeeps, Assembled DEF IInv, RequestInv
<1> QED
  BY <1>3, <1>4

LEMMA GrpcServeStep ==
  ASSUME IInv, NEW c \in Grpc, GrpcServe(c)
  PROVE  IInv'
<1>0. c \in Remote
  BY DEF Remote
<1>1. /\ ComponentStep({}) /\ handlers' \subseteq handlers \cup {c}
      /\ \/ c \in handlers' /\ pipe'[c] = <<"hello">>
         \/ c \notin handlers' /\ pipe'[c] \in {<<"end">>, <<"hello", "end">>}
      /\ conn' = [conn EXCEPT ![c] = "open"] /\ conn[c] = "sent"
      /\ \E answer \in {<<"hello">>, <<"end">>, <<"hello", "end">>} :
           pipe' = [pipe EXCEPT ![c] = answer]
      /\ registered' = registered \cup {c}
      /\ UNCHANGED <<client, http, maps, current, known, gcalls, dropped, leaked>>
  <2>1. CASE CoreSubscribe(c) /\ pipe' = [pipe EXCEPT ![c] = <<"hello">>]
    <3>1. ComponentStep({}) /\ handlers' = handlers \cup {c}
      BY <1>0, <2>1, SubscribeOne
    <3>2. pipe'[c] = <<"hello">>
      BY <1>0, <2>1, Answering DEF IInv
    <3>3. /\ conn' = [conn EXCEPT ![c] = "open"] /\ conn[c] = "sent"
          /\ registered' = registered \cup {c}
          /\ UNCHANGED <<client, http, maps, current, known, gcalls, dropped, leaked>>
      BY DEF GrpcServe, known
    <3> QED
      BY <2>1, <3>1, <3>2, <3>3
  <2>2. CASE \E answer \in {<<"hello", "end">>, <<"end">>} :
               pipe' = [pipe EXCEPT ![c] = answer] /\ UNCHANGED component
    <3>1. c \notin handlers' /\ ComponentStep({}) /\ handlers' = handlers
      BY <1>0, <2>2, ComponentRests DEF GrpcServe, IInv, Unanswered
    <3> QED
      BY <1>0, <2>2, <3>1 DEF GrpcServe, IInv, TypeOK, known
  <2> QED
    BY <2>1, <2>2 DEF GrpcServe
<1>2. TypeOK' /\ Listener'
  <2>1. pipe' \in [Remote -> Seq({"hello", "end"})]
    BY <1>0, <1>1, Answering DEF IInv
  <2> QED
    BY <1>1, <2>1 DEF IInv, TypeOK, ComponentStep, http
<1>3. CallInv'
  BY <1>0, <1>1 DEF IInv, CallInv, Unanswered
<1>4. RequestInv(c)'
  BY <1>0, <1>1, Answers DEF IInv, TypeOK, RequestInv, Unanswered, Served, Identified, Ended
<1>5. ASSUME NEW r \in Remote \ {c} PROVE Apart(r)
  BY <1>1 DEF Apart, IInv, TypeOK, ComponentStep
<1> QED
  BY <1>2, <1>3, <1>4, <1>5, ApartKeeps, Assembled DEF IInv, RequestInv

(* A step of one call: no other call and no map is touched.               *)
LEMMA CallMoves ==
  ASSUME IInv, NEW c \in Calls, NEW e \in CallType, gcalls' = [gcalls EXCEPT ![c] = e],
         registered' \subseteq registered, e.ids \subseteq gcalls[c].ids \cup known,
         (e.ids \ e.todo) \cap registered' = {}, e.at = "done" => e.todo = {}
  PROVE  /\ gcalls' \in [Calls -> CallType] /\ CallInv'
         /\ \A k \in Calls : gcalls'[k].ids \subseteq gcalls[k].ids \cup known
<1>1. /\ gcalls' \in [Calls -> CallType]
      /\ \A k \in Calls : gcalls'[k] = IF k = c THEN e ELSE gcalls[k]
  BY DEF IInv, TypeOK
<1>2. CallInv'
  BY <1>1 DEF IInv, CallInv
<1> QED
  BY <1>1, <1>2

LEMMA NoCallTyped == NoCall \in CallType /\ NoCall.ids = {} /\ NoCall.todo = {}
BY DEF NoCall, CallType

LEMMA HttpUnsubscribeStep ==
  ASSUME IInv, \E hs \in SUBSET Handlers : HttpUnsubscribe(hs)
  PROVE  IInv'
<1>1. UNCHANGED <<component, conn, pipe, client, grpc, leaked>>
      /\ tracked' \subseteq tracked /\ aborted' \subseteq aborted \cup tracked
  BY DEF HttpUnsubscribe, TrackerUnsubscribe
<1>2. TypeOK' /\ Listener' /\ CallInv'
  BY <1>1, ComponentRests DEF IInv, TypeOK, ComponentStep, CallInv, component, grpc
<1>3. ASSUME NEW r \in Remote PROVE Apart(r)
  BY <1>1 DEF Apart, component, grpc, known
<1> QED
  BY <1>2, <1>3, ApartKeeps, Assembled DEF IInv, RequestInv

(* The steps of a call that no subscription notices: it is sent, answered   *)
(* with all handlers gone, fails or is abandoned.                         *)
LEMMA QuietCallSteps ==
  ASSUME IInv, NEW c \in Calls, NEW e \in CallType, gcalls' = [gcalls EXCEPT ![c] = e],
         e.ids \subseteq gcalls[c].ids \cup known, (e.ids \ e.todo) \cap registered = {},
         e.at = "done" => e.todo = {},
         ComponentStep({}), handlers' \subseteq handlers,
         UNCHANGED <<conn, pipe, client, http, maps, current, registered, dropped, leaked>>
  PROVE  IInv'
<1>1. /\ gcalls' \in [Calls -> CallType] /\ CallInv'
      /\ \A k \in Calls : gcalls'[k].ids \subseteq gcalls[k].ids \cup known
  BY CallMoves
<1>2. TypeOK'
  BY <1>1 DEF IInv, TypeOK, ComponentStep, http
<1>3. ASSUME NEW r \in Remote PROVE Apart(r)
  BY <1>1 DEF Apart, ComponentStep, known
<1> QED
  BY <1>1, <1>2, <1>3, ApartKeeps, Assembled DEF IInv, RequestInv, ComponentStep

LEMMA GrpcUnsubscribeStep ==
  ASSUME IInv, NEW hs \in SUBSET Handlers, GrpcUnsubscribe(hs)
  PROVE  IInv'
<1>1. PICK c \in Calls :
        /\ gcalls' = [gcalls EXCEPT ![c] = [at |-> "sent", ids |-> {r \in known : HandlerOf[r] \in hs},
                                            map |-> current, todo |-> {r \in known : HandlerOf[r] \in hs}]]
        /\ UNCHANGED <<component, conn, pipe, client, http, maps, current, registered, dropped, leaked>>
  BY DEF GrpcUnsubscribe
<1> DEFINE ids == {r \in known : HandlerOf[r] \in hs}
<1> DEFINE e == [at |-> "sent", ids |-> ids, map |-> current, todo |-> ids]
<1>3. e \in CallType /\ e.ids \subseteq known /\ e.ids \ e.todo = {} /\ e.at # "done"
  BY KnownIds DEF IInv, TypeOK, CallType
<1>4. ComponentStep({}) /\ handlers' = handlers
  BY <1>1, ComponentRests
<1>5. gcalls' = [gcalls EXCEPT ![c] = e]
  BY <1>1
<1> HIDE DEF e
<1> QED
  BY <1>1, <1>3, <1>4, <1>5, QuietCallSteps

(* What an entry becomes when the server has come to some of its ids.      *)
LEMMA Coming ==
  ASSUME IInv, NEW c \in Calls, NEW left \in SUBSET Grpc, Comes(c, left),
         gcalls[c].at \in {"sent", "abandoned"}
  PROVE  \E e \in CallType :
           /\ gcalls' = [gcalls EXCEPT ![c] = e]
           /\ e.ids \in {gcalls[c].ids, {}} /\ e.ids \ e.todo \subseteq gcalls[c].ids \ left
           /\ e.at = "done" => e.todo = {}
<1>1. gcalls[c] \in CallType
  BY DEF IInv, TypeOK
<1> DEFINE e == IF left # {} THEN [gcalls[c] EXCEPT !.todo = left]
                ELSE IF gcalls[c].at = "abandoned" THEN NoCall
                ELSE [gcalls[c] EXCEPT !.at = "done", !.todo = {}]
<1>2. gcalls' = [gcalls EXCEPT ![c] = e]
  BY DEF Comes
<1>3. /\ e \in CallType
      /\ e.ids \in {gcalls[c].ids, {}} /\ e.ids \ e.todo \subseteq gcalls[c].ids \ left
      /\ e.at = "done" => e.todo = {}
  <2>1. CASE left # {}
    <3>1. e = [at |-> gcalls[c].at, ids |-> gcalls[c].ids, map |-> gcalls[c].map, todo |-> left]
      BY <1>1, <2>1 DEF CallType
    <3> QED
      BY <1>1, <3>1 DEF CallType
  <2>2. CASE left = {} /\ gcalls[c].at = "abandoned"
    BY <2>2, NoCallTyped
  <2>3. CASE left = {} /\ gcalls[c].at # "abandoned"
    <3>1. e = [at |-> "done", ids |-> gcalls[c].ids, map |-> gcalls[c].map, todo |-> {}]
      BY <1>1, <2>3 DEF CallType
    <3> QED
      BY <1>1, <2>3, <3>1 DEF CallType
  <2> QED
    BY <2>1, <2>2, <2>3
<1> HIDE DEF e
<1> QED
  BY <1>2, <1>3

LEMMA QuietAnswers ==
  ASSUME IInv, NEW c \in Calls, GrpcHandleAll(c) \/ GrpcHandleFails(c) \/ GrpcAnswerLost(c)
  PROVE  IInv'
<1>0. gcalls[c] \in CallType /\ (gcalls[c].ids \ gcalls[c].todo) \cap registered = {}
  BY DEF IInv, TypeOK, CallInv
<1>1. CASE GrpcHandleAll(c)
  <2>1. PICK e \in CallType :
          /\ gcalls' = [gcalls EXCEPT ![c] = e] /\ e.ids = {}
          /\ e.at = "done" => e.todo = {}
    BY <1>1, Coming DEF GrpcHandleAll
  <2>2. ComponentStep({}) /\ handlers' \subseteq handlers
    BY <1>1, UnsubscribeSome DEF GrpcHandleAll
  <2> QED
    BY <1>1, <2>1, <2>2, QuietCallSteps DEF GrpcHandleAll
<1>2. ASSUME NEW e \in {NoCall, [gcalls[c] EXCEPT !.at = "abandoned"]},
             gcalls' = [gcalls EXCEPT ![c] = e],
             UNCHANGED <<component, conn, pipe, client, http, maps, current, registered, dropped, leaked>>
      PROVE  IInv'
  <2>1. /\ e \in CallType /\ e.ids \subseteq gcalls[c].ids
        /\ (e.ids \ e.todo) \cap registered = {}
        /\ e.at = "done" => e.todo = {}
    BY <1>0, NoCallTyped DEF CallType
  <2>2. ComponentStep({}) /\ handlers' = handlers
    BY <1>2, ComponentRests
  <2> QED
    BY <1>2, <2>1, <2>2, QuietCallSteps
<1>3. CASE GrpcHandleFails(c)
  BY <1>2, <1>3 DEF GrpcHandleFails
<1>4. CASE GrpcAnswerLost(c)
  BY <1>2, <1>4 DEF GrpcAnswerLost
<1> QED
  BY <1>1, <1>3, <1>4

LEMMA GrpcHandleOneStep ==
  ASSUME IInv, NEW c \in Calls, NEW g \in Grpc, GrpcHandleOne(c, g)
  PROVE  IInv'
<1>0. g \in Remote /\ gcalls[c] \in CallType /\ gcalls[c].todo \subseteq Grpc
      /\ (gcalls[c].ids \ gcalls[c].todo) \cap registered = {}
  BY DEF IInv, TypeOK, CallInv, CallType, Remote
<1>1. PICK e \in CallType :
        /\ gcalls' = [gcalls EXCEPT ![c] = e]
        /\ e.ids \in {gcalls[c].ids, {}} /\ e.ids \ e.todo \subseteq gcalls[c].ids \ (gcalls[c].todo \ {g})
        /\ e.at = "done" => e.todo = {}
  <2>1. /\ gcalls[c].todo \ {g} \in SUBSET Grpc /\ Comes(c, gcalls[c].todo \ {g})
        /\ gcalls[c].at \in {"sent", "abandoned"}
    BY <1>0 DEF GrpcHandleOne
  <2> QED
    BY <2>1, Coming
<1>2. /\ registered' = registered \ {g}
      /\ UNCHANGED <<conn, client, http, maps, current, dropped, leaked>>
      /\ handlers' \subseteq handlers
      /\ \/ /\ g \in registered /\ ComponentStep({g}) /\ g \notin handlers'
            /\ pipe' = IF conn[g] = "open" THEN [pipe EXCEPT ![g] = Append(@, "end")] ELSE pipe
         \/ g \notin registered /\ ComponentStep({}) /\ pipe' = pipe
  <2>1. CASE CoreUnsubscribe({g})
    BY <2>1, UnsubscribeSome, ComponentRests DEF GrpcHandleOne
  <2>2. CASE g \notin registered /\ UNCHANGED <<component, pipe>>
    BY <2>2, ComponentRests DEF GrpcHandleOne
  <2> QED
    BY <2>1, <2>2 DEF GrpcHandleOne
<1>3. (e.ids \ e.todo) \cap registered' = {}
  BY <1>0, <1>1, <1>2
<1>4. /\ gcalls' \in [Calls -> CallType] /\ CallInv'
      /\ \A k \in Calls : gcalls'[k].ids \subseteq gcalls[k].ids \cup known
  BY <1>1, <1>2, <1>3, CallMoves
<1>5. pipe[g] \in Seq(Chunks)
  BY <1>0 DEF IInv, TypeOK, Chunks
<1>6. TypeOK' /\ Listener'
  <2>1. pipe' \in [Remote -> Seq(Chunks)]
    BY <1>0, <1>2, <1>5, PushEnd DEF IInv, TypeOK, Chunks
  <2> QED
    BY <1>2, <1>4, <2>1 DEF IInv, TypeOK, ComponentStep, http, Chunks
<1>7. ASSUME NEW r \in Remote, r # g \/ g \notin registered PROVE Apart(r)
  BY <1>2, <1>4, <1>7 DEF Apart, IInv, TypeOK, ComponentStep, known
<1>8. ASSUME g \in registered PROVE RequestInv(g)'
  <2>1. /\ g \notin handlers' /\ client' = client /\ conn' = conn /\ known' = known
        /\ pipe'[g] = IF conn[g] = "open" THEN Append(pipe[g], "end") ELSE pipe[g]
        /\ conn[g] \notin {"none", "sent"}
    BY <1>0, <1>2, <1>8 DEF IInv, TypeOK, Unanswered, known
  <2>2. conn[g] = "open" => Ended(g)'
    BY <1>5, <2>1, PushEnd DEF Ended
  <2>3. Unanswered(g)' /\ Served(g)'
    BY <1>0, <2>1, <2>2 DEF IInv, Unanswered, Served
  <2>4. Identified(g)'
    BY <1>5, <2>1, PushEnd DEF IInv, Identified
  <2> QED
    BY <2>3, <2>4 DEF RequestInv
<1>9. \A r \in Remote : RequestInv(r)'
  BY <1>7, <1>8, ApartKeeps DEF IInv, RequestInv
<1> QED
  BY <1>4, <1>6, <1>9, Assembled

(* The client forgets the ids of the call, and whatever else was in the     *)
(* map that it drops.                                                     *)
LEMMA GrpcUnsubscribedStep ==
  ASSUME IInv, NEW c \in Calls, GrpcUnsubscribed(c)
  PROVE  IInv'
<1>1. /\ UNCHANGED <<component, conn, pipe, client, http, registered, leaked>>
      /\ gcalls' = [gcalls EXCEPT ![c] = NoCall]
      /\ gcalls[c].ids \cap registered = {}
  BY DEF GrpcUnsubscribed, IInv, CallInv
<1>2. /\ maps' \in [Grpc -> SUBSET Grpc] /\ current' \in {current, None}
      /\ known' \subseteq known
      /\ dropped' = dropped \cup (known \ (known' \cup gcalls[c].ids))
  BY DEF GrpcUnsubscribed, IInv, TypeOK, known
<1>3. /\ gcalls' \in [Calls -> CallType] /\ CallInv'
      /\ \A k \in Calls : gcalls'[k].ids \subseteq gcalls[k].ids \cup known
  BY <1>1, NoCallTyped, CallMoves
<1>4. TypeOK' /\ Listener'
  BY <1>1, <1>2, <1>3, KnownIds, ComponentRests DEF IInv, TypeOK, ComponentStep, component, http
<1>5. ASSUME NEW r \in Remote PROVE RequestInv(r)'
  <2>1. Unanswered(r)'
    BY <1>1, <1>2, <1>3 DEF IInv, Unanswered, component
  <2>2. Served(r)'
    BY <1>1 DEF IInv, Served, Ended, component
  <2>3. r \in Grpc => Identified(r)'
    BY <1>1, <1>2 DEF IInv, Identified, component
  <2> QED
    BY <2>1, <2>2, <2>3 DEF RequestInv
<1> QED
  BY <1>3, <1>4, <1>5, Assembled

-----------------------------------------------------------------------------
(* The invariant, which follows each subscription through its connection,  *)
(* its server and the maps of ids.                                        *)
THEOREM Inductive == Spec => []IInv
<1>1. ASSUME IInv, [Next]_vars PROVE IInv'
  <2>1. CASE UNCHANGED vars
    <3>1. TypeOK' /\ Listener' /\ CallInv'
      BY <1>1, <2>1, ComponentRests
      DEF IInv, TypeOK, ComponentStep, CallInv, vars, component, http, grpc
    <3>2. ASSUME NEW r \in Remote PROVE Apart(r)
      BY <2>1 DEF Apart, known, vars, component, http, grpc
    <3> QED
      BY <1>1, <3>1, <3>2, ApartKeeps, Assembled DEF IInv, RequestInv
  <2>2. CASE \/ NetworkStop \/ NetworkStart
             \/ \E s \in Local : LocalSubscribe(s)
             \/ \E gone \in SUBSET Local : LocalUnsubscribe(gone)
    BY <1>1, <2>2, ComponentSteps
  <2>3. ASSUME NEW c \in Http,
               HttpSubscribe(c) \/ FfWorkaround(c) \/ ConnectionBreaks(c) \/ HttpAdvances(c)
        PROVE  IInv'
    BY <1>1, <2>3, HttpClientSteps, HttpServerSteps
    DEF ConnectionBreaks, AbortSeen, HttpAdvances
  <2>4. ASSUME NEW c \in Grpc, GrpcSubscribe(c) \/ GrpcClientGoes(c) \/ GrpcAdvances(c)
        PROVE  IInv'
    BY <1>1, <2>4, GrpcClientSteps, GrpcServeStep DEF GrpcAdvances
  <2>5. CASE \E hs \in SUBSET Handlers : HttpUnsubscribe(hs) \/ GrpcUnsubscribe(hs)
    BY <1>1, <2>5, HttpUnsubscribeStep, GrpcUnsubscribeStep
  <2>6. ASSUME NEW c \in Calls, GrpcCall(c) PROVE IInv'
    BY <1>1, <2>6, QuietAnswers, GrpcHandleOneStep, GrpcUnsubscribedStep DEF GrpcCall
  <2> QED
    BY <1>1, <2>1, <2>2, <2>3, <2>4, <2>5, <2>6 DEF Next
<1> QED
  BY <1>1, InitIInv, PTL DEF Spec

(* Every variable keeps its type: the libp2p never has a second listener.  *)
THEOREM TypeCorrect == Spec => []TypeOK
BY Inductive, PTL DEF IInv

LEMMA InvServed == ASSUME IInv PROVE SubscriptionsAreServed
<1> SUFFICES ASSUME NEW r \in Remote, Subscribed(r), r \notin swept
             PROVE  r \in handlers /\ (onMessage # "elsewhere" => onMessage = "here" /\ listening = 1 /\ topic)
  BY DEF SubscriptionsAreServed
<1>1. r \in handlers
  BY DEF IInv, Served, Subscribed
<1>2. onMessage # "elsewhere" => onMessage = "here"
  BY <1>1 DEF IInv, TypeOK, Listener
<1> QED
  BY <1>1, <1>2 DEF IInv, Listener

(* What a client takes for a subscription has its handler in the node,     *)
(* whatever the other clients, their connections and the network do,      *)
(* unless all handlers of the topic were removed, for which an unsubscribe *)
(* of one object or over gRPC of one unknown handler is enough; and it has *)
(* the one listener of libp2p, unless the network was started again while  *)
(* there were handlers.                                                   *)
THEOREM SubscribersAreServed == Spec => []SubscriptionsAreServed
BY Inductive, InvServed, PTL

LEMMA InvForgotten == ASSUME IInv PROVE ForgottenBeforeAnswered
BY DEF IInv, Identified, ForgottenBeforeAnswered

(* However the unsubscribe() calls of a gRPC client overlap and fail, it   *)
(* forgets an id only when the node has no handler for it, or when a call  *)
(* that has found its own map empty drops the map this id is in.          *)
THEOREM AnsweredIsForgotten == Spec => []ForgottenBeforeAnswered
BY Inductive, InvForgotten, PTL
=============================================================================
