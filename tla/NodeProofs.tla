----------------------------- MODULE NodeProofs -----------------------------
(***************************************************************************)
(* What start() and stop() promise for any number of tasks and            *)
(* activations.  OneRepublisher holds however calls overlap; what a stop() *)
(* leaves behind is known when the application makes one call at a time.  *)
(* The second part is about the Service alone, with any number of callers; *)
(* the last one shows that a node implements it.                          *)
(***************************************************************************)
EXTENDS NodeLifecycle, TLAPS

LEMMA Generations == Gen = 1 .. MaxActivations /\ NoGen = 0 /\ NoGen \notin Gen
BY DEF Gen, NoGen

(* The calls of the Service that a start() or stop() is in. *)
Places ==
  \A t \in Callers :
    /\ at[t] = "start" <=> call[t].at = "activating"
    /\ at[t] \in {"bitswap", "libp2p"} <=> call[t].at = "deactivating"
    /\ at[t] = "network" <=> call[t].at = "awaitReady"
    /\ call[t].at \in {"activating", "deactivating"} => call[t].gen \in Gen

Names ==
  /\ state.status = "stopped" => state = Stopped
  /\ state.status # "stopped" => state.gen \in Gen

Base == NodeTypeOK /\ Places /\ Names

LEMMA BaseInit == NodeInit => Base
<1> SUFFICES ASSUME NodeInit PROVE Base
  OBVIOUS
<1>1. TypeOK
  BY DEF NodeInit, Init, TypeOK, Idle, Stopped, Ops, At, Outcomes, Gen, NoGen
<1>2. NodeTypeOK
  BY <1>1 DEF NodeInit, NodeTypeOK
<1>3. Places /\ Names
  BY DEF NodeInit, Init, Idle, Stopped, Places, Names
<1> QED
  BY <1>2, <1>3 DEF Base

(* The steps of the Service, as they appear in the steps of the node. *)
LEMMA ServiceStep ==
  ASSUME Base, NEW t \in Callers,
         \/ StartActivates(t) \/ StartRefused(t)
         \/ ActivationResolves(t) \/ ActivationRejects(t)
         \/ StopCalled(t) \/ StopRetries(t)
         \/ Deactivated(t) \/ DeactivationFails(t)
  PROVE  /\ TypeOK' /\ Names'
         /\ \A u \in Callers \ {t} : call'[u] = call[u]
         /\ call'[t].at \in {"activating", "deactivating"} => call'[t].gen \in Gen
<1> USE DEF Base, NodeTypeOK, Places, Names, TypeOK, Idle, Busy, Stopped,
            Ops, At, Outcomes, Gen, NoGen
<1>1. CASE StartActivates(t)
  BY <1>1 DEF StartActivates
<1>2. CASE StartRefused(t)
  BY <1>2 DEF StartRefused
<1>3. CASE ActivationResolves(t)
  BY <1>3 DEF ActivationResolves
<1>4. CASE ActivationRejects(t)
  BY <1>4 DEF ActivationRejects
<1>5. CASE StopCalled(t) \/ StopRetries(t)
  <2>1. StopDispatch(t)
    BY <1>5 DEF StopCalled, StopRetries
  <2>2. CASE state.status = "stopped"
    BY <2>1, <2>2 DEF StopDispatch
  <2>3. CASE state.status = "starting"
    BY <2>1, <2>3 DEF StopDispatch
  <2>4. CASE state.status = "started"
    BY <2>1, <2>4 DEF StopDispatch
  <2> QED
    BY <2>2, <2>3, <2>4
<1>6. CASE Deactivated(t)
  BY <1>6 DEF Deactivated
<1>7. CASE DeactivationFails(t)
  BY <1>7 DEF DeactivationFails
<1> QED
  BY <1>1, <1>2, <1>3, <1>4, <1>5, <1>6, <1>7

Positions ==
  {"idle", "start", "services", "stop", "network", "bitswap", "libp2p", "close", "closing"}

(* A task that does a step of the Service goes where its call is then. *)
LEMMA PlacesStep ==
  ASSUME Base, NEW t \in Callers, NEW p \in Positions, at' = [at EXCEPT ![t] = p],
         \A u \in Callers \ {t} : call'[u] = call[u],
         p = "start" <=> call'[t].at = "activating",
         p \in {"bitswap", "libp2p"} <=> call'[t].at = "deactivating",
         p = "network" <=> call'[t].at = "awaitReady",
         call'[t].at \in {"activating", "deactivating"} => call'[t].gen \in Gen
  PROVE  Places' /\ at' \in [Callers -> Positions]
BY DEF Base, Places, NodeTypeOK, Positions

(* A step that the Service has no part in. *)
LEMMA NoServiceStep ==
  ASSUME Base, UNCHANGED service,
         \/ UNCHANGED at
         \/ \E t \in Callers, p \in {"idle", "services", "stop", "close", "closing"} :
              /\ at[t] \in {"idle", "services", "stop", "close", "closing"}
              /\ at' = [at EXCEPT ![t] = p]
         \/ \E t \in Callers : at[t] = "bitswap" /\ at' = [at EXCEPT ![t] = "libp2p"]
  PROVE  TypeOK' /\ Names' /\ Places' /\ at' \in [Callers -> Positions]
<1>1. TypeOK' /\ Names'
  BY DEF Base, NodeTypeOK, Names, service, TypeOK, Stopped, Gen, NoGen
<1>2. at \in [Callers -> Positions] /\ UNCHANGED call
  BY DEF Base, NodeTypeOK, Positions, service
<1>3. Places'
  BY <1>2 DEF Base, Places, Positions, Gen
<1>4. at' \in [Callers -> Positions]
  BY <1>2 DEF Positions
<1> QED
  BY <1>1, <1>3, <1>4

(* The rest of the types. *)
Others ==
  /\ waits \in [Callers -> Gen \cup {NoGen}]
  /\ step \in [Gen -> {"none", "open", "config", "libp2p", "done", "failed"}]
  /\ libp2p \subseteq Gen /\ bitswap \subseteq Gen
  /\ blocks \in Gen \cup {NoGen} /\ under \in [Gen -> Gen \cup {NoGen}]
  /\ repo \in {"open", "closing", "closed"} /\ datastore \in BOOLEAN
  /\ online \in Gen \cup {NoGen}
  /\ republisher \in [Gen -> {"none", "armed", "round", "stopping", "stopped"}]
  /\ preloading \in BOOLEAN
  /\ mfs \in [Gen -> {"none", "starting", "armed", "checking"}]
  /\ timeoutId \in Gen \cup {NoGen} /\ overlapped \in BOOLEAN /\ crossed \in BOOLEAN

LEMMA Parts ==
  ASSUME TypeOK', at' \in [Callers -> Positions], Others'
  PROVE  NodeTypeOK'
BY DEF NodeTypeOK, Others, Positions

LEMMA StartStep ==
  ASSUME Base, NEW t \in Callers, StartCalled(t) \/ StartAdvances(t)
  PROVE  Base'
<1> USE DEF SetAt, SetIdle, IsCalled, Goes, Answers, stores, services, calls
<1>1. CASE StartCalled(t)
  <2>1. CASE StartActivates(t) /\ SetAt(t, "start")
    <3>1. call'[t].at = "activating" /\ call'[t].gen \in Gen
      BY <2>1 DEF StartActivates, Busy, Base, NodeTypeOK, TypeOK, Gen
    <3>2. Others'
      BY <1>1, <2>1, <3>1 DEF StartCalled, Base, NodeTypeOK, Others, StartActivates
    <3> QED
      BY <2>1, <3>1, <3>2, ServiceStep, PlacesStep, Parts DEF Positions, Base
  <2>2. CASE StartRefused(t) /\ SetIdle(t) /\ UNCHANGED step
    <3>1. call'[t].at = "idle"
      BY <2>2 DEF StartRefused, Idle, Base, NodeTypeOK, TypeOK
    <3>2. Others'
      BY <1>1, <2>2 DEF StartCalled, Base, NodeTypeOK, Others
    <3> QED
      BY <2>2, <3>1, <3>2, ServiceStep, PlacesStep, Parts DEF Positions, Base
  <2> QED
    BY <1>1, <2>1, <2>2 DEF StartCalled
<1>2. CASE OpenRepo(t)
  <2>1. Others'
    BY <1>2 DEF OpenRepo, Base, NodeTypeOK, Others
  <2> QED
    BY <1>2, <2>1, NoServiceStep, Parts DEF OpenRepo, Base
<1>3. CASE StartLibp2p(t)
  <2>1. call[t].gen \in Gen
    BY <1>3 DEF StartLibp2p, Activating, Base, Places
  <2>2. Others'
    BY <1>3, <2>1 DEF StartLibp2p, Base, NodeTypeOK, Others
  <2> QED
    BY <1>3, <2>2, NoServiceStep, Parts DEF StartLibp2p, Base
<1>4. CASE StartBitswap(t)
  <2>1. call[t].gen \in Gen /\ call'[t].at = "idle" /\ ActivationResolves(t)
    BY <1>4 DEF StartBitswap, Activating, Base, Places, ActivationResolves, Idle, NodeTypeOK, TypeOK
  <2>2. Others'
    BY <1>4, <2>1 DEF StartBitswap, StartServices, Base, NodeTypeOK, Others
  <2>3. \E p \in {"idle", "services"} : at' = [at EXCEPT ![t] = p]
    BY <1>4 DEF StartBitswap, StartServices
  <2> QED
    BY <2>1, <2>2, <2>3, ServiceStep, PlacesStep, Parts DEF Positions, Base
<1>5. CASE ActivationFails(t)
  <2>1. call'[t].at = "idle" /\ ActivationRejects(t)
    BY <1>5 DEF ActivationFails, Base, ActivationRejects, Idle, NodeTypeOK, TypeOK
  <2>2. Others'
    BY <1>5 DEF ActivationFails, Base, NodeTypeOK, Others
  <2>3. at' = [at EXCEPT ![t] = "idle"]
    BY <1>5 DEF ActivationFails
  <2> QED
    BY <2>1, <2>2, <2>3, ServiceStep, PlacesStep, Parts DEF Positions, Base
<1> QED
  BY <1>1, <1>2, <1>3, <1>4, <1>5 DEF StartAdvances

(* Service.stop() and what follows it. *)
LEMMA DispatchedStep ==
  ASSUME Base, NEW t \in Callers, StopCalled(t) \/ StopRetries(t), Dispatched(t),
         online' \in Gen \cup {NoGen},
         UNCHANGED <<step, bitswap, libp2p, under, stores, republisher, preloading, mfs, timeoutId>>
  PROVE  Base'
<1> USE DEF SetAt, Goes, stores
<1>1. /\ call'[t].at \in {"idle", "awaitReady", "deactivating"} /\ TypeOK' /\ Names'
      /\ \A u \in Callers \ {t} : call'[u] = call[u]
      /\ call'[t].at \in {"activating", "deactivating"} => call'[t].gen \in Gen
  <2>1. call'[t].at \in {"idle", "awaitReady", "deactivating"}
    BY DEF StopCalled, StopRetries, StopDispatch, Idle, Busy, Base, NodeTypeOK, TypeOK
  <2> QED
    BY <2>1, ServiceStep
<1>2. Others'
  BY <1>1 DEF Dispatched, Base, NodeTypeOK, Others
<1>3. \E p \in Positions :
        /\ at' = [at EXCEPT ![t] = p] /\ p # "start"
        /\ p \in {"bitswap", "libp2p"} <=> call'[t].at = "deactivating"
        /\ p = "network" <=> call'[t].at = "awaitReady"
  BY <1>1 DEF Dispatched, Positions
<1>4. Places' /\ at' \in [Callers -> Positions]
  BY <1>1, <1>3, PlacesStep
<1> QED
  BY <1>1, <1>2, <1>4, Parts DEF Base

LEMMA StopStep ==
  ASSUME Base, NEW t \in Callers, NodeStopCalled(t) \/ StopAdvances(t)
  PROVE  Base'
<1> USE DEF SetAt, SetIdle, IsCalled, Goes, Answers, stores, services, calls, network
<1>1. CASE NodeStopCalled(t)
  <2>1. Others'
    BY <1>1 DEF NodeStopCalled, Base, NodeTypeOK, Others
  <2>2. at[t] = "idle" /\ \E p \in {"idle", "stop"} : at' = [at EXCEPT ![t] = p]
    BY <1>1 DEF NodeStopCalled
  <2> QED
    BY <1>1, <2>1, <2>2, NoServiceStep, Parts DEF NodeStopCalled, Base
<1>2. CASE StopNetwork(t)
  <2>1. online' \in Gen \cup {NoGen}
    BY <1>2 DEF StopNetwork, Base, NodeTypeOK
  <2> QED
    BY <1>2, <2>1, DispatchedStep DEF StopNetwork
<1>3. CASE NodeStopRetries(t)
  <2>1. online' \in Gen \cup {NoGen}
    BY <1>3 DEF NodeStopRetries, Base, NodeTypeOK
  <2> QED
    BY <1>3, <2>1, DispatchedStep DEF NodeStopRetries
<1>4. CASE StopBitswap(t)
  <2>1. Others'
    BY <1>4 DEF StopBitswap, Base, NodeTypeOK, Others
  <2> QED
    BY <1>4, <2>1, NoServiceStep, Parts DEF StopBitswap, Base
<1>5. CASE StopLibp2p(t)
  <2>1. Others'
    BY <1>5 DEF StopLibp2p, Base, NodeTypeOK, Others
  <2>2. Deactivated(t) /\ call'[t].at = "idle" /\ at' = [at EXCEPT ![t] = "close"]
    BY <1>5 DEF StopLibp2p, Deactivated, Idle, Base, NodeTypeOK, TypeOK
  <2> QED
    BY <2>1, <2>2, ServiceStep, PlacesStep, Parts DEF Positions, Base
<1>6. CASE StopFails(t)
  <2>1. Others'
    BY <1>6 DEF StopFails, Base, NodeTypeOK, Others
  <2>2. DeactivationFails(t) /\ call'[t].at = "idle" /\ at' = [at EXCEPT ![t] = "idle"]
    BY <1>6 DEF StopFails, DeactivationFails, Idle, Base, NodeTypeOK, TypeOK
  <2> QED
    BY <2>1, <2>2, ServiceStep, PlacesStep, Parts DEF Positions, Base
<1>7. CASE CloseRepo(t) \/ RepoClosed(t)
  <2>1. Others'
    BY <1>7 DEF CloseRepo, RepoClosed, Base, NodeTypeOK, Others
  <2>2. at[t] \in {"close", "closing"} /\ UNCHANGED service
        /\ \E p \in {"idle", "closing"} : at' = [at EXCEPT ![t] = p]
    BY <1>7 DEF CloseRepo, RepoClosed
  <2> QED
    BY <2>1, <2>2, NoServiceStep, Parts DEF Base
<1> QED
  BY <1>1, <1>2, <1>3, <1>4, <1>5, <1>6, <1>7 DEF StopAdvances

LEMMA BackgroundStep ==
  ASSUME Base, NEW g \in Gen,
         \/ MfsStarted(g) \/ MfsStartFails(g) \/ MfsFires(g) \/ MfsChecked(g)
         \/ RoundBegins(g) \/ RoundEnds(g)
  PROVE  Base'
<1> USE DEF SetIdle, Answers, stores, calls, network
<1>1. Others'
  BY DEF MfsStarted, MfsStartFails, MfsFires, MfsChecked, RoundBegins, RoundEnds, Base, NodeTypeOK, Others
<1>2. /\ UNCHANGED service
      /\ \/ UNCHANGED at
         \/ \E t \in Callers : at[t] = "services" /\ at' = [at EXCEPT ![t] = "idle"]
  BY DEF MfsStarted, MfsStartFails, MfsFires, MfsChecked, RoundBegins, RoundEnds, StarterWaits
<1> QED
  BY <1>1, <1>2, NoServiceStep, Parts DEF Base

LEMMA BaseStep == Base /\ [NodeNext]_nodeVars => Base'
<1> SUFFICES ASSUME Base, [NodeNext]_nodeVars PROVE Base'
  OBVIOUS
<1>1. CASE UNCHANGED nodeVars
  <2>1. Others'
    BY <1>1 DEF nodeVars, network, stores, services, calls, Base, NodeTypeOK, Others
  <2> QED
    BY <1>1, <2>1, NoServiceStep, Parts DEF nodeVars, calls, Base
<1> QED
  BY <1>1, StartStep, StopStep, BackgroundStep DEF NodeNext

LEMMA AlwaysBase == NodeSpec => []Base
BY BaseInit, BaseStep, PTL DEF NodeSpec

(* Every variable of the node, and of the Service in it, keeps its type. *)
THEOREM TypeCorrect == NodeSpec => []NodeTypeOK
<1>1. Base => NodeTypeOK
  BY DEF Base
<1> QED
  BY <1>1, AlwaysBase, PTL

-----------------------------------------------------------------------------
(* The republisher that runs is the one IPNS is online with.  A stop() that *)
(* waits for one is the only one, and nobody takes IPNS offline meanwhile. *)
RepublisherInv ==
  /\ \A g \in Gen : Republishing(g) => online = g
  /\ \A t \in Callers : (at[t] = "stop" /\ waits[t] # NoGen) =>
       online = waits[t] /\ republisher[waits[t]] \in {"stopping", "stopped"}
  /\ \A t, u \in Callers :
       (at[t] = "stop" /\ at[u] = "stop" /\ waits[t] # NoGen /\ waits[t] = waits[u]) => t = u

LEMMA RepublisherInit == NodeInit => RepublisherInv
BY DEF NodeInit, RepublisherInv, Republishing

(* Callers that leave or pass by "stop" do not matter. *)
LEMMA Elsewhere ==
  ASSUME RepublisherInv, UNCHANGED <<online, republisher>>,
         \A t \in Callers : at'[t] = "stop" => at[t] = "stop" /\ waits'[t] = waits[t]
  PROVE  RepublisherInv'
BY DEF RepublisherInv, Republishing, Gen, NoGen

LEMMA RepublisherStep == Base /\ RepublisherInv /\ [NodeNext]_nodeVars => RepublisherInv'
<1> SUFFICES ASSUME Base, RepublisherInv, [NodeNext]_nodeVars PROVE RepublisherInv'
  OBVIOUS
<1> USE Generations
<1>1. ASSUME NEW t \in Callers, StartBitswap(t) PROVE RepublisherInv'
  <2> DEFINE g == call[t].gen
  <2>1. g \in Gen /\ StartServices(t, g) /\ at[t] = "start"
    BY <1>1 DEF StartBitswap, Activating, Base, Places
  <2>2. \A u \in Callers : at'[u] = "stop" => at[u] = "stop" /\ waits'[u] = waits[u]
    BY <2>1 DEF StartServices, Goes, SetAt, Answers, SetIdle, Base, NodeTypeOK
  <2>3. CASE online # NoGen
    <3>1. UNCHANGED <<online, republisher>>
      BY <2>1, <2>3 DEF StartServices, Base, NodeTypeOK
    <3> QED
      BY <2>2, <3>1, Elsewhere
  <2>4. CASE online = NoGen
    <3>1. online' = g /\ republisher' = [republisher EXCEPT ![g] = "armed"]
      BY <2>1, <2>4 DEF StartServices, Base, NodeTypeOK
    <3>2. \A h \in Gen : Republishing(h)' => h = g
      BY <2>4, <3>1 DEF RepublisherInv, Republishing, Base, NodeTypeOK
    <3>3. \A u \in Callers : at'[u] = "stop" => waits'[u] = NoGen
      BY <2>2, <2>4 DEF RepublisherInv
    <3> QED
      BY <2>1, <3>1, <3>2, <3>3 DEF RepublisherInv
  <2> QED
    BY <2>3, <2>4
<1>2. ASSUME NEW t \in Callers, NodeStopCalled(t) PROVE RepublisherInv'
  <2>1. at[t] = "idle" /\ online' = online
    BY <1>2 DEF NodeStopCalled, IsCalled
  <2>2. CASE RepublisherStops /\ SetIdle(t) /\ UNCHANGED republisher
    <3>1. \A u \in Callers : at'[u] = "stop" => at[u] = "stop" /\ waits'[u] = waits[u]
      BY <2>1, <2>2 DEF SetIdle, Base, NodeTypeOK
    <3> QED
      BY <2>1, <2>2, <3>1, Elsewhere
  <2>3. CASE /\ ~RepublisherStops
             /\ at' = [at EXCEPT ![t] = "stop"] /\ waits' = [waits EXCEPT ![t] = online]
             /\ republisher' = [g \in Gen |->
                  CASE g # online -> republisher[g]
                    [] g = online /\ republisher[g] = "round" -> "stopping"
                    [] OTHER -> "stopped"]
    <3>1. \A u \in Callers : at[u] = "stop" => waits[u] = NoGen
      BY <2>3 DEF RepublisherInv, RepublisherStops
    <3>2. \A u \in Callers : at'[u] = "stop" => waits'[u] = NoGen \/ (u = t /\ waits'[u] = online)
      <4>1. DOMAIN at = Callers /\ DOMAIN waits = Callers
        BY DEF Base, NodeTypeOK
      <4>2. \A u \in Callers \ {t} : at'[u] = at[u] /\ waits'[u] = waits[u]
        BY <2>3, <4>1
      <4>3. waits'[t] = online
        BY <2>3, <4>1
      <4> QED
        BY <3>1, <4>2, <4>3
    <3>3. online \in Gen => republisher'[online] \in {"stopping", "stopped"}
      BY <2>3
    <3>4. \A g \in Gen : Republishing(g)' => online = g
      BY <2>3 DEF RepublisherInv, Republishing
    <3> QED
      BY <2>1, <3>2, <3>3, <3>4 DEF RepublisherInv, Base, NodeTypeOK
  <2> QED
    BY <1>2, <2>2, <2>3 DEF NodeStopCalled
<1>3. ASSUME NEW t \in Callers, StopNetwork(t) PROVE RepublisherInv'
  <2>1. /\ at[t] = "stop" /\ republisher' = republisher /\ waits' = waits
        /\ waits[t] # NoGen => republisher[waits[t]] = "stopped"
        /\ online' = IF waits[t] = NoGen THEN online ELSE NoGen
    BY <1>3 DEF StopNetwork, Dispatched, Goes, SetAt
  <2>2. \A u \in Callers : at'[u] = "stop" => at[u] = "stop" /\ u # t
    BY <1>3 DEF StopNetwork, Dispatched, Goes, SetAt, Base, NodeTypeOK
  <2>3. CASE waits[t] = NoGen
    BY <2>1, <2>2, <2>3, Elsewhere
  <2>4. CASE waits[t] # NoGen
    <3>1. online = waits[t] /\ republisher[online] = "stopped"
      BY <2>1, <2>4 DEF RepublisherInv
    <3>2. \A g \in Gen : ~Republishing(g)'
      BY <2>1, <3>1 DEF RepublisherInv, Republishing
    <3>3. \A u \in Callers : at'[u] = "stop" => waits'[u] = NoGen
      BY <2>1, <2>2, <2>4, <3>1 DEF RepublisherInv
    <3> QED
      BY <3>2, <3>3 DEF RepublisherInv
  <2> QED
    BY <2>3, <2>4
<1>4. ASSUME NEW g \in Gen, RoundBegins(g) \/ RoundEnds(g) PROVE RepublisherInv'
  <2>1. /\ UNCHANGED <<online, at, waits>>
        /\ \/ republisher[g] = "armed" /\ republisher' = [republisher EXCEPT ![g] = "round"]
           \/ republisher[g] = "round" /\ republisher' = [republisher EXCEPT ![g] = "armed"]
           \/ republisher[g] = "stopping" /\ republisher' = [republisher EXCEPT ![g] = "stopped"]
    BY <1>4 DEF RoundBegins, RoundEnds, calls, Base, NodeTypeOK
  <2>2. DOMAIN republisher = Gen
    BY DEF Base, NodeTypeOK
  <2>3. \A h \in Gen : Republishing(h)' => Republishing(h)
    BY <2>1, <2>2 DEF Republishing
  <2>4. \A h \in Gen : republisher[h] \in {"stopping", "stopped"} => republisher'[h] \in {"stopping", "stopped"}
    BY <2>1, <2>2
  <2>5. \A t \in Callers : waits[t] \in Gen \cup {NoGen}
    BY DEF Base, NodeTypeOK
  <2> QED
    BY <2>1, <2>3, <2>4, <2>5 DEF RepublisherInv
<1>5. ASSUME NEW t \in Callers,
             \/ StartCalled(t) \/ OpenRepo(t) \/ StartLibp2p(t) \/ ActivationFails(t)
             \/ NodeStopRetries(t) \/ StopBitswap(t) \/ StopLibp2p(t) \/ StopFails(t)
             \/ CloseRepo(t) \/ RepoClosed(t)
      PROVE  RepublisherInv'
  <2>1. UNCHANGED <<online, republisher>>
    BY <1>5 DEF StartCalled, OpenRepo, StartLibp2p, ActivationFails, NodeStopRetries, StopBitswap,
       StopLibp2p, StopFails, CloseRepo, RepoClosed, services
  <2>2. \A u \in Callers : at'[u] = "stop" => at[u] = "stop" /\ waits'[u] = waits[u]
    BY <1>5 DEF StartCalled, OpenRepo, StartLibp2p, ActivationFails, NodeStopRetries, StopBitswap,
       StopLibp2p, StopFails, CloseRepo, RepoClosed, Dispatched, Goes, SetAt, SetIdle, Answers,
       calls, Base, NodeTypeOK
  <2> QED
    BY <2>1, <2>2, Elsewhere
<1>6. ASSUME NEW g \in Gen, MfsStarted(g) \/ MfsStartFails(g) \/ MfsFires(g) \/ MfsChecked(g)
      PROVE  RepublisherInv'
  <2>1. UNCHANGED <<online, republisher>>
    BY <1>6 DEF MfsStarted, MfsStartFails, MfsFires, MfsChecked
  <2>2. \A u \in Callers : at'[u] = "stop" => at[u] = "stop" /\ waits'[u] = waits[u]
    BY <1>6 DEF MfsStarted, MfsStartFails, MfsFires, MfsChecked, calls, SetIdle, Answers, Base, NodeTypeOK
  <2> QED
    BY <2>1, <2>2, Elsewhere
<1>7. CASE UNCHANGED nodeVars
  BY <1>7, Elsewhere DEF nodeVars, services, calls
<1> QED
  BY <1>1, <1>2, <1>3, <1>4, <1>5, <1>6, <1>7 DEF NodeNext, StartAdvances, StopAdvances

LEMMA AlwaysRepublisher == NodeSpec => []RepublisherInv
BY RepublisherInit, RepublisherStep, AlwaysBase, PTL DEF NodeSpec

(* However start() and stop() overlap, at most one republisher runs        *)
(* (components/ipns.js startOnline and stop).                              *)
THEOREM OneAtATime == NodeSpec => []OneRepublisher
<1>1. RepublisherInv => OneRepublisher
  BY DEF RepublisherInv, OneRepublisher
<1> QED
  BY <1>1, AlwaysRepublisher, PTL

-----------------------------------------------------------------------------
(* As long as calls do not overlap, the place of the one that is under way *)
(* tells what runs.                                                       *)
AtPlace(t) ==
  /\ at[t] = "start" =>
       /\ state = [status |-> "starting", gen |-> call[t].gen]
       /\ step[call[t].gen] \in {"config", "libp2p"} => repo # "closed"
       /\ step[call[t].gen] # "failed"
  /\ at[t] = "stop" => waits[t] = online
  /\ at[t] # "network"
  /\ at[t] \in {"bitswap", "libp2p"} =>
       state = [status |-> "started", gen |-> call[t].gen] /\ blocks = NoGen
  /\ at[t] = "libp2p" => bitswap = {}
  /\ at[t] \in {"close", "closing"} => state = Stopped
  /\ at[t] \in {"bitswap", "libp2p", "close", "closing"} => online = NoGen
  /\ at[t] \in {"stop", "bitswap", "libp2p", "close", "closing"} => ~preloading

(* What runs belongs to the activation that the Service holds, except for  *)
(* the libp2p of a start that has failed.                                 *)
Runs ==
  /\ libp2p \subseteq Abandoned \cup (IF state.status = "stopped" THEN {} ELSE {state.gen})
  /\ bitswap \subseteq (IF state.status = "started" THEN {state.gen} ELSE {})
  /\ blocks # NoGen => state.status = "started"
  /\ \A g \in Gen : under[g] = NoGen

Sequential ==
  /\ \A t, u \in Callers : at[t] # "idle" /\ at[u] # "idle" => t = u
  /\ \A t \in Callers : AtPlace(t)
  /\ state.status = "starting" => \E t \in Callers : at[t] = "start"
  /\ Runs
  /\ repo # "closed" => datastore
  /\ \A g \in Gen : Republishing(g) => datastore

(* An activation that was never made has made no step. *)
Fresh == \A g \in Gen : activation[g] = "none" => step[g] = "none"

SequentialInv == Fresh /\ (~overlapped => Sequential)

LEMMA SequentialInit == NodeInit => SequentialInv
<1> SUFFICES ASSUME NodeInit PROVE SequentialInv
  OBVIOUS
<1>1. Runs
  BY DEF NodeInit, Init, Stopped, Runs
<1>2. \A t \in Callers : AtPlace(t)
  BY DEF NodeInit, AtPlace
<1> QED
  BY <1>1, <1>2 DEF NodeInit, Init, Stopped, SequentialInv, Sequential, Fresh, Republishing

(* The call of t is the only one: it is enough to look at its place. *)
LEMMA OnlyCall ==
  ASSUME Base, Sequential, NEW t \in Callers, at[t] # "idle" \/ \A u \in Callers : at[u] = "idle",
         \A u \in Callers \ {t} : at'[u] = at[u], AtPlace(t)',
         state'.status = "starting" => at'[t] = "start",
         Runs', repo' # "closed" => datastore', \A g \in Gen : Republishing(g)' => datastore'
  PROVE  Sequential'
<1>1. \A u \in Callers \ {t} : at'[u] = "idle"
  BY DEF Sequential
<1>2. \A u \in Callers \ {t} : AtPlace(u)'
  BY <1>1 DEF AtPlace
<1>3. \A u, v \in Callers : at'[u] # "idle" /\ at'[v] # "idle" => u = v
  BY <1>1
<1> QED
  BY <1>1, <1>2, <1>3, Generations DEF Sequential

LEMMA FreshStep == Base /\ Fresh /\ [NodeNext]_nodeVars => Fresh'
<1> SUFFICES ASSUME Base, Fresh, [NodeNext]_nodeVars PROVE Fresh'
  OBVIOUS
<1>1. DOMAIN activation = Gen /\ DOMAIN step = Gen
  BY DEF Base, NodeTypeOK, TypeOK, Gen
<1>2. ASSUME NEW t \in Callers, StartCalled(t) PROVE Fresh'
  <2>1. CASE StartActivates(t)
    <3>1. PICK g \in Gen : activation' = [activation EXCEPT ![g] = "pending"] /\ call'[t].gen = g
      <4>1. DOMAIN call = Callers
        BY DEF Base, NodeTypeOK, TypeOK
      <4>2. PICK g \in Gen : /\ activation' = [activation EXCEPT ![g] = "pending"]
                                /\ call' = [call EXCEPT ![t] = Busy("start", "activating", g)]
        BY <2>1 DEF StartActivates
      <4> QED
        BY <4>1, <4>2 DEF Gen, Busy
    <3>2. UNCHANGED step \/ \E s : step' = [step EXCEPT ![g] = s]
      BY <1>2, <3>1 DEF StartCalled
    <3> QED
      BY <1>1, <3>1, <3>2, Generations DEF Fresh
  <2>2. CASE StartRefused(t) /\ UNCHANGED step
    BY <2>2, Generations DEF StartRefused, Fresh
  <2> QED
    BY <1>2, <2>1, <2>2 DEF StartCalled
<1>3. ASSUME NEW t \in Callers, OpenRepo(t) \/ StartLibp2p(t) PROVE Fresh'
  <2>1. step[call[t].gen] # "none" /\ UNCHANGED activation
        /\ \E s : step' = [step EXCEPT ![call[t].gen] = s]
    BY <1>3 DEF OpenRepo, StartLibp2p, Activating, service
  <2> QED
    BY <1>1, <2>1, Generations DEF Fresh
<1>4. ASSUME NEW t \in Callers, StartBitswap(t) \/ ActivationFails(t) PROVE Fresh'
  <2>1. /\ \E r \in {"resolved", "rejected"} : activation' = [activation EXCEPT ![call[t].gen] = r]
        /\ \E s : step' = [step EXCEPT ![call[t].gen] = s]
    BY <1>4 DEF StartBitswap, ActivationFails, ActivationResolves, ActivationRejects
  <2> QED
    BY <1>1, <2>1, Generations DEF Fresh
<1>5. ASSUME NEW t \in Callers, NodeStopCalled(t) \/ StopAdvances(t) PROVE Fresh'
  BY <1>5, Generations DEF NodeStopCalled, StopAdvances, StopNetwork, NodeStopRetries, StopBitswap, StopLibp2p,
     StopFails, CloseRepo, RepoClosed, StopCalled, StopRetries, StopDispatch,
     Deactivated, DeactivationFails, service, network, Fresh
<1>6. ASSUME NEW g \in Gen,
             \/ MfsStarted(g) \/ MfsStartFails(g) \/ MfsFires(g) \/ MfsChecked(g)
             \/ RoundBegins(g) \/ RoundEnds(g)
      PROVE  Fresh'
  BY <1>6, Generations DEF MfsStarted, MfsStartFails, MfsFires, MfsChecked, RoundBegins, RoundEnds, service, network, Fresh
<1>7. CASE UNCHANGED nodeVars
  BY <1>7, Generations DEF nodeVars, service, network, Fresh
<1> QED
  BY <1>2, <1>3, <1>4, <1>5, <1>6, <1>7 DEF NodeNext, StartAdvances

LEMMA StartIsSequential ==
  ASSUME Base, Fresh, Sequential, RepublisherInv, NEW t \in Callers,
         StartCalled(t) \/ StartAdvances(t), ~overlapped'
  PROVE  Sequential'
<1> USE Generations DEF SetAt, SetIdle, IsCalled, Goes, Answers, stores, services, calls
<1>1. DOMAIN at = Callers /\ DOMAIN call = Callers /\ DOMAIN step = Gen /\ DOMAIN republisher = Gen
  BY DEF Base, NodeTypeOK, TypeOK
<1>2. \A u \in Callers \ {t} : at'[u] = at[u]
  BY <1>1 DEF StartCalled, StartAdvances, OpenRepo, StartLibp2p, StartBitswap, StartServices, ActivationFails
<1>3. CASE StartCalled(t)
  <2>1. \A u \in Callers : at[u] = "idle"
    BY <1>3 DEF StartCalled
  <2>2. UNCHANGED <<libp2p, bitswap, blocks, under, repo, datastore, online, republisher>>
    BY <1>3 DEF StartCalled
  <2>3. \A g \in Gen : Republishing(g)' => datastore'
    BY <2>2 DEF Sequential, Republishing
  <2>4. CASE StartActivates(t) /\ at' = [at EXCEPT ![t] = "start"]
    <3>1. PICK g \in Gen : /\ state' = [status |-> "starting", gen |-> g] /\ activation[g] = "none"
                           /\ state.status = "stopped"
                           /\ call' = [call EXCEPT ![t] = Busy("start", "activating", g)]
      BY <2>4 DEF StartActivates, Gen
    <3>2. call'[t].gen = g /\ at'[t] = "start"
      BY <1>1, <2>4, <3>1 DEF Busy
    <3>3. step' = [step EXCEPT ![g] = IF repo = "closed" THEN "open" ELSE "config"]
      BY <1>3, <2>4, <3>2 DEF StartCalled, StartRefused, StartActivates
    <3>4. AtPlace(t)'
      BY <1>1, <2>2, <3>1, <3>2, <3>3 DEF AtPlace
    <3>5. Runs'
      <4>1. step[g] # "failed"
        BY <3>1 DEF Fresh
      <4>2. Abandoned' = Abandoned
        BY <1>1, <3>3, <4>1 DEF Abandoned
      <4> QED
        BY <2>2, <3>1, <4>2 DEF Sequential, Runs
    <3> QED
      BY <1>2, <2>1, <2>2, <2>3, <3>2, <3>4, <3>5, OnlyCall DEF Sequential
  <2>5. CASE StartRefused(t) /\ at' = [at EXCEPT ![t] = "idle"] /\ UNCHANGED step
    <3>1. UNCHANGED state /\ at'[t] = "idle"
      BY <1>1, <2>5 DEF StartRefused
    <3>2. AtPlace(t)'
      BY <3>1 DEF AtPlace
    <3>3. Runs'
      BY <2>2, <2>5, <3>1 DEF Sequential, Runs, Abandoned
    <3> QED
      BY <1>2, <2>1, <2>2, <2>3, <3>1, <3>2, <3>3, OnlyCall DEF Sequential
  <2> QED
    BY <1>3, <2>4, <2>5 DEF StartCalled
<1>4. ASSUME NEW where, Activating(t, where)
      PROVE  /\ at[t] = "start" /\ call[t].gen \in Gen /\ step[call[t].gen] = where
             /\ state = [status |-> "starting", gen |-> call[t].gen]
  BY <1>4 DEF Activating, Base, Places, Sequential, AtPlace
<1>5. CASE OpenRepo(t)
  <2> DEFINE g == call[t].gen
  <2>1. /\ at[t] = "start" /\ g \in Gen /\ state = [status |-> "starting", gen |-> g] /\ step[g] = "open"
    BY <1>4, <1>5 DEF OpenRepo
  <2>2. /\ repo' = "open" /\ datastore' = TRUE /\ step' = [step EXCEPT ![g] = "config"]
        /\ UNCHANGED <<state, call, libp2p, bitswap, blocks, under, at>>
    BY <1>5 DEF OpenRepo, service
  <2>3. AtPlace(t)'
    BY <1>1, <2>1, <2>2 DEF AtPlace
  <2>4. Abandoned' = Abandoned
    BY <1>1, <2>1, <2>2 DEF Abandoned
  <2>5. Runs'
    BY <2>2, <2>4 DEF Sequential, Runs
  <2> QED
    BY <1>2, <2>1, <2>2, <2>3, <2>5, OnlyCall
<1>6. CASE StartLibp2p(t)
  <2> DEFINE g == call[t].gen
  <2>1. /\ at[t] = "start" /\ g \in Gen /\ state = [status |-> "starting", gen |-> g] /\ step[g] = "config"
    BY <1>4, <1>6 DEF StartLibp2p
  <2>2. /\ libp2p' = libp2p \cup {g} /\ step' = [step EXCEPT ![g] = "libp2p"]
        /\ UNCHANGED <<state, call, bitswap, blocks, under, at, repo, datastore, republisher>>
    BY <1>6 DEF StartLibp2p, service
  <2>3. AtPlace(t)'
    <3>1. repo # "closed"
      BY <2>1 DEF Sequential, AtPlace
    <3> QED
      BY <1>1, <2>1, <2>2, <3>1 DEF AtPlace
  <2>4. Abandoned' = Abandoned
    BY <1>1, <2>1, <2>2 DEF Abandoned
  <2>5. Runs'
    BY <2>1, <2>2, <2>4 DEF Sequential, Runs
  <2>6. \A h \in Gen : Republishing(h)' => datastore'
    BY <2>2 DEF Sequential, Republishing
  <2> QED
    BY <1>2, <2>1, <2>2, <2>3, <2>5, <2>6, OnlyCall DEF Sequential
<1>7. CASE StartBitswap(t)
  <2> DEFINE g == call[t].gen
  <2>1. /\ at[t] = "start" /\ g \in Gen /\ state = [status |-> "starting", gen |-> g] /\ step[g] = "libp2p"
    BY <1>4, <1>7 DEF StartBitswap
  <2>2. /\ state' = [status |-> "started", gen |-> g] /\ step' = [step EXCEPT ![g] = "done"]
        /\ bitswap' = bitswap \cup {g} /\ blocks' = g /\ under' = [under EXCEPT ![g] = blocks]
        /\ UNCHANGED <<libp2p, repo, datastore>>
    BY <1>7 DEF StartBitswap, ActivationResolves
  <2>3. at'[t] \in {"idle", "services"}
    BY <1>1, <1>7 DEF StartBitswap, StartServices
  <2>4. AtPlace(t)'
    BY <2>3 DEF AtPlace
  <2>5. Abandoned' = Abandoned
    BY <1>1, <2>1, <2>2 DEF Abandoned
  <2>6. Runs'
    <3>1. blocks = NoGen /\ bitswap = {} /\ libp2p \subseteq Abandoned \cup {g}
      BY <2>1 DEF Sequential, Runs
    <3>2. \A h \in Gen : under'[h] = NoGen
      BY <2>2, <3>1 DEF Sequential, Runs, Base, NodeTypeOK
    <3> QED
      BY <2>2, <2>5, <3>1, <3>2 DEF Runs
  <2>7. repo # "closed" /\ datastore'
    BY <2>1, <2>2 DEF Sequential, AtPlace
  <2> QED
    BY <1>2, <2>1, <2>2, <2>4, <2>6, <2>7, OnlyCall
<1>8. CASE ActivationFails(t)
  <2> DEFINE g == call[t].gen
  <2>1. /\ at[t] = "start" /\ g \in Gen /\ state = [status |-> "starting", gen |-> g]
    BY <1>4, <1>8 DEF ActivationFails
  <2>2. /\ state' = Stopped /\ step' = [step EXCEPT ![g] = "failed"] /\ at'[t] = "idle"
        /\ UNCHANGED <<libp2p, bitswap, blocks, under, repo, datastore, republisher>>
    BY <1>1, <1>8 DEF ActivationFails, ActivationRejects
  <2>3. AtPlace(t)'
    BY <2>2 DEF AtPlace
  <2>4. Abandoned' = Abandoned \cup {g}
    BY <1>1, <2>1, <2>2 DEF Abandoned
  <2>5. Runs'
    BY <2>1, <2>2, <2>4 DEF Sequential, Runs, Stopped
  <2>6. \A h \in Gen : Republishing(h)' => datastore'
    BY <2>2 DEF Sequential, Republishing
  <2> QED
    BY <1>2, <2>1, <2>2, <2>3, <2>5, <2>6, OnlyCall DEF Sequential, Stopped
<1> QED
  BY <1>3, <1>5, <1>6, <1>7, <1>8 DEF StartAdvances

LEMMA StopIsSequential ==
  ASSUME Base, Sequential, RepublisherInv, NEW t \in Callers,
         NodeStopCalled(t) \/ StopAdvances(t), ~overlapped'
  PROVE  Sequential'
<1> USE Generations DEF SetAt, SetIdle, IsCalled, Goes, Answers, stores, services, calls, network
<1>1. DOMAIN at = Callers /\ DOMAIN call = Callers /\ DOMAIN waits = Callers
  BY DEF Base, NodeTypeOK, TypeOK
<1>2. \A u \in Callers \ {t} : at'[u] = at[u]
  BY <1>1 DEF NodeStopCalled, StopAdvances, StopNetwork, NodeStopRetries, Dispatched, StopBitswap, StopLibp2p,
     StopFails, CloseRepo, RepoClosed
<1>3. UNCHANGED step
  BY DEF NodeStopCalled, StopAdvances, StopNetwork, NodeStopRetries, StopBitswap, StopLibp2p,
     StopFails, CloseRepo, RepoClosed
<1>4. Abandoned' = Abandoned
  BY <1>3 DEF Abandoned
<1>5. CASE NodeStopCalled(t)
  <2>1. \A u \in Callers : at[u] = "idle"
    BY <1>5 DEF NodeStopCalled
  <2>2. /\ UNCHANGED <<state, libp2p, bitswap, blocks, under, repo, datastore, online>> /\ preloading' = FALSE
        /\ at'[t] = "idle" \/ (at'[t] = "stop" /\ waits'[t] = online)
    <3>1. \/ at' = [at EXCEPT ![t] = "idle"]
          \/ at' = [at EXCEPT ![t] = "stop"] /\ waits' = [waits EXCEPT ![t] = online]
      BY <1>5 DEF NodeStopCalled
    <3> QED
      BY <1>1, <1>5, <3>1 DEF NodeStopCalled, service
  <2>3. AtPlace(t)'
    BY <2>2 DEF AtPlace
  <2>4. Runs'
    BY <1>4, <2>2 DEF Sequential, Runs
  <2>5. \A h \in Gen : Republishing(h)' => Republishing(h)
    BY <1>5 DEF NodeStopCalled, Republishing
  <2>6. state.status # "starting"
    BY <2>1 DEF Sequential
  <2> QED
    BY <1>2, <2>1, <2>2, <2>3, <2>4, <2>5, <2>6, OnlyCall DEF Sequential
<1>6. CASE StopNetwork(t)
  <2>1. /\ at[t] = "stop" /\ waits[t] = online /\ ~preloading /\ state.status # "starting"
    BY <1>6 DEF StopNetwork, Sequential, AtPlace
  <2>2. /\ online' = NoGen /\ UNCHANGED <<state, libp2p, bitswap, under, repo, datastore, republisher, preloading>>
    BY <1>6, <2>1 DEF StopNetwork, StopCalled, StopDispatch
  <2>3. call'[t] = IF state.status = "stopped" THEN Idle("ok", NoGen)
                   ELSE Busy("stop", "deactivating", state.gen)
    BY <1>1, <1>6, <2>1 DEF StopNetwork, StopCalled, StopDispatch
  <2>4. \A h \in Gen : Republishing(h)' => datastore'
    BY <2>2 DEF Sequential, Republishing
  <2>5. CASE state.status = "stopped"
    <3>1. call'[t].at = "idle"
      BY <2>3, <2>5 DEF Idle
    <3>2. at'[t] = "close" /\ UNCHANGED blocks
      BY <1>1, <1>6, <3>1 DEF StopNetwork, Dispatched
    <3>3. AtPlace(t)'
      BY <2>1, <2>2, <2>5, <3>2 DEF AtPlace, Base, Names
    <3>4. Runs'
      BY <1>4, <2>2, <3>2 DEF Sequential, Runs
    <3> QED
      BY <1>2, <2>1, <2>2, <2>4, <3>3, <3>4, OnlyCall DEF Sequential
  <2>6. CASE state.status # "stopped"
    <3>1. call'[t].at = "deactivating" /\ call'[t].gen = state.gen
      BY <2>3, <2>6 DEF Busy
    <3>2. at'[t] = "bitswap" /\ blocks' = under[state.gen]
      BY <1>1, <1>6, <3>1 DEF StopNetwork, Dispatched
    <3>3. state = [status |-> "started", gen |-> state.gen] /\ state.gen \in Gen
      BY <2>1, <2>6 DEF Base, NodeTypeOK, TypeOK, Names
    <3>4. blocks' = NoGen
      BY <3>2, <3>3 DEF Sequential, Runs
    <3>5. AtPlace(t)'
      BY <2>1, <2>2, <3>1, <3>2, <3>3, <3>4 DEF AtPlace
    <3>6. Runs'
      BY <1>4, <2>2, <3>4 DEF Sequential, Runs
    <3> QED
      BY <1>2, <2>1, <2>2, <2>4, <3>5, <3>6, OnlyCall DEF Sequential
  <2> QED
    BY <2>5, <2>6
<1>7. CASE NodeStopRetries(t)
  BY <1>7 DEF NodeStopRetries, Sequential, AtPlace
<1>8. CASE StopBitswap(t)
  <2>1. /\ at[t] = "bitswap" /\ state = [status |-> "started", gen |-> call[t].gen]
        /\ blocks = NoGen /\ online = NoGen /\ ~preloading /\ bitswap \subseteq {call[t].gen}
    <3>1. at[t] = "bitswap" /\ state = [status |-> "started", gen |-> call[t].gen]
          /\ blocks = NoGen /\ online = NoGen /\ ~preloading
      BY <1>8 DEF StopBitswap, Sequential, AtPlace
    <3> QED
      BY <3>1 DEF Sequential, Runs
  <2>2. /\ bitswap' = {} /\ at'[t] = "libp2p"
        /\ UNCHANGED <<state, call, libp2p, blocks, under, repo, datastore, online, republisher, preloading>>
    BY <1>1, <1>8, <2>1 DEF StopBitswap, service
  <2>3. AtPlace(t)'
    BY <2>1, <2>2 DEF AtPlace
  <2>4. Runs'
    BY <1>4, <2>2 DEF Sequential, Runs
  <2>5. \A h \in Gen : Republishing(h)' => datastore'
    BY <2>2 DEF Sequential, Republishing
  <2> QED
    BY <1>2, <2>1, <2>2, <2>3, <2>4, <2>5, OnlyCall DEF Sequential
<1>9. CASE StopLibp2p(t)
  <2>1. /\ at[t] = "libp2p" /\ state = [status |-> "started", gen |-> call[t].gen]
        /\ blocks = NoGen /\ online = NoGen /\ ~preloading /\ bitswap = {}
    BY <1>9 DEF StopLibp2p, Sequential, AtPlace
  <2>2. /\ state' = Stopped /\ libp2p' = libp2p \ {call[t].gen} /\ at'[t] = "close"
        /\ UNCHANGED <<bitswap, blocks, under, repo, datastore, online, republisher, preloading>>
    BY <1>1, <1>9 DEF StopLibp2p, Deactivated
  <2>3. AtPlace(t)'
    BY <2>1, <2>2 DEF AtPlace
  <2>4. Runs'
    BY <1>4, <2>1, <2>2 DEF Sequential, Runs, Stopped
  <2>5. \A h \in Gen : Republishing(h)' => datastore'
    BY <2>2 DEF Sequential, Republishing
  <2> QED
    BY <1>2, <2>1, <2>2, <2>3, <2>4, <2>5, OnlyCall DEF Sequential, Stopped
<1>10. CASE StopFails(t)
  <2>1. /\ at[t] # "idle" /\ at'[t] = "idle" /\ state.status = "started"
        /\ UNCHANGED <<state, libp2p, bitswap, blocks, under, repo, datastore, republisher>>
    BY <1>1, <1>10 DEF StopFails, DeactivationFails, Sequential, AtPlace
  <2>2. AtPlace(t)'
    BY <2>1 DEF AtPlace
  <2>3. Runs'
    BY <1>4, <2>1 DEF Sequential, Runs
  <2>4. \A h \in Gen : Republishing(h)' => datastore'
    BY <2>1 DEF Sequential, Republishing
  <2> QED
    BY <1>2, <2>1, <2>2, <2>3, <2>4, OnlyCall DEF Sequential
<1>11. CASE CloseRepo(t)
  <2>1. /\ at[t] = "close" /\ state = Stopped /\ online = NoGen /\ ~preloading
        /\ at'[t] \in {"idle", "closing"} /\ repo' \in {repo, "closing"}
        /\ repo' = "closing" => repo # "closed"
        /\ UNCHANGED <<state, libp2p, bitswap, blocks, under, datastore, online, republisher, preloading>>
    BY <1>1, <1>11 DEF CloseRepo, service, Sequential, AtPlace
  <2>2. AtPlace(t)'
    BY <2>1 DEF AtPlace
  <2>3. Runs'
    BY <1>4, <2>1 DEF Sequential, Runs
  <2>4. \A h \in Gen : Republishing(h)' => datastore'
    BY <2>1 DEF Sequential, Republishing
  <2> QED
    BY <1>2, <2>1, <2>2, <2>3, <2>4, OnlyCall DEF Sequential, Stopped
<1>12. CASE RepoClosed(t)
  <2>1. /\ at[t] = "closing" /\ state = Stopped /\ online = NoGen
        /\ at'[t] = "idle" /\ repo' = "closed"
        /\ UNCHANGED <<state, libp2p, bitswap, blocks, under, republisher>>
    BY <1>1, <1>12 DEF RepoClosed, service, Sequential, AtPlace
  <2>2. AtPlace(t)'
    BY <2>1 DEF AtPlace
  <2>3. Runs'
    BY <1>4, <2>1 DEF Sequential, Runs
  <2>4. \A h \in Gen : ~Republishing(h)'
    BY <2>1 DEF RepublisherInv, Republishing
  <2> QED
    BY <1>2, <2>1, <2>2, <2>3, <2>4, OnlyCall DEF Sequential, Stopped
<1> QED
  BY <1>5, <1>6, <1>7, <1>8, <1>9, <1>10, <1>11, <1>12 DEF StopAdvances

(* The timers change nothing a call relies on. *)
LEMMA BackgroundIsSequential ==
  ASSUME Base, Sequential, NEW g \in Gen,
         \/ MfsStarted(g) \/ MfsStartFails(g) \/ MfsFires(g) \/ MfsChecked(g)
         \/ RoundBegins(g) \/ RoundEnds(g)
  PROVE  Sequential'
<1> USE Generations DEF SetIdle, Answers, stores, network, calls
<1>1. /\ UNCHANGED <<state, call, step, libp2p, bitswap, blocks, under, repo, online, preloading>>
      /\ datastore => datastore'
  BY DEF MfsStarted, MfsStartFails, MfsFires, MfsChecked, RoundBegins, RoundEnds, service, Base, NodeTypeOK
<1>2. Runs'
  BY <1>1 DEF Sequential, Runs, Abandoned
<1>3. \A h \in Gen : Republishing(h)' => Republishing(h)
  BY DEF MfsStarted, MfsStartFails, MfsFires, MfsChecked, RoundBegins, RoundEnds, Republishing, Base, NodeTypeOK
<1>4. /\ repo' # "closed" => datastore'
      /\ \A h \in Gen : Republishing(h)' => datastore'
  BY <1>1, <1>3 DEF Sequential
<1>5. CASE UNCHANGED <<at, waits>>
  <2>1. \A t \in Callers : AtPlace(t)'
    BY <1>1, <1>5 DEF Sequential, AtPlace
  <2>2. \A t, u \in Callers : at'[t] # "idle" /\ at'[u] # "idle" => t = u
    BY <1>5 DEF Sequential
  <2>3. state'.status = "starting" => \E t \in Callers : at'[t] = "start"
    BY <1>1, <1>5 DEF Sequential
  <2> QED
    BY <1>2, <1>4, <2>1, <2>2, <2>3 DEF Sequential
<1>6. ASSUME NEW t \in Callers, at[t] = "services", at' = [at EXCEPT ![t] = "idle"]
      PROVE  Sequential'
  <2>1. at'[t] = "idle" /\ \A u \in Callers \ {t} : at'[u] = at[u]
    BY <1>6 DEF Base, NodeTypeOK
  <2>2. AtPlace(t)'
    BY <2>1 DEF AtPlace
  <2>3. state'.status # "starting"
    BY <1>1, <1>6 DEF Sequential
  <2> QED
    BY <1>2, <1>4, <1>6, <2>1, <2>2, <2>3, OnlyCall
<1> QED
  BY <1>5, <1>6 DEF MfsStarted, MfsStartFails, MfsFires, MfsChecked, RoundBegins, RoundEnds, StarterWaits

LEMMA Latched == ASSUME [NodeNext]_nodeVars PROVE overlapped => overlapped'
BY DEF NodeNext, StartCalled, NodeStopCalled, StartAdvances, StopAdvances, OpenRepo, StartLibp2p,
   StartBitswap, StartServices, ActivationFails, StopNetwork, NodeStopRetries, Dispatched, SetAt,
   StopBitswap, StopLibp2p, StopFails, CloseRepo, RepoClosed, MfsStarted, MfsStartFails,
   MfsFires, MfsChecked, RoundBegins, RoundEnds, IsCalled, Goes, Answers, calls, nodeVars

LEMMA SequentialStep == Base /\ RepublisherInv /\ SequentialInv /\ [NodeNext]_nodeVars => SequentialInv'
<1> SUFFICES ASSUME Base, RepublisherInv, SequentialInv, [NodeNext]_nodeVars, ~overlapped' PROVE Sequential'
  BY FreshStep DEF SequentialInv
<1>1. overlapped => overlapped'
  BY Latched
<1>2. Fresh /\ Sequential
  BY <1>1 DEF SequentialInv
<1>3. CASE UNCHANGED nodeVars
  <2>1. UNCHANGED <<at, waits, state, call, step, libp2p, bitswap, blocks, under, repo,
                    datastore, online, republisher, preloading>>
    BY <1>3 DEF nodeVars, service, network, stores, services, calls
  <2>2. \A t \in Callers : AtPlace(t)'
    BY <1>2, <2>1 DEF Sequential, AtPlace
  <2>3. Runs'
    BY <1>2, <2>1 DEF Sequential, Runs, Abandoned
  <2>4. \A h \in Gen : Republishing(h)' => datastore'
    BY <1>2, <2>1 DEF Sequential, Republishing
  <2> QED
    BY <1>2, <2>1, <2>2, <2>3, <2>4, Generations DEF Sequential
<1> QED
  BY <1>2, <1>3, StartIsSequential, StopIsSequential, BackgroundIsSequential DEF NodeNext

LEMMA AlwaysSequential == NodeSpec => []SequentialInv
BY SequentialInit, SequentialStep, AlwaysBase, AlwaysRepublisher, PTL DEF NodeSpec

-----------------------------------------------------------------------------
(* A round of the republisher always finds the datastore open, if the      *)
(* application makes one call at a time (republisher.js, stop.js:16-25).   *)
THEOREM DatastoreIsThere == NodeSpec => []RoundsFindTheDatastore
<1>1. SequentialInv => RoundsFindTheDatastore
  BY DEF SequentialInv, Sequential, Republishing, RoundsFindTheDatastore
<1> QED
  BY <1>1, AlwaysSequential, PTL

(* What the end of stop() leaves as it is: IPNS is online and the MFS is    *)
(* preloaded only in a started node, and the one chain of preloads is the *)
(* one whose timer a stop() clears.                                       *)
Chains ==
  /\ \A g \in Gen : mfs[g] # "none" =>
       /\ state = [status |-> "started", gen |-> g]
       /\ \A t \in Callers : at[t] \in {"idle", "services"}
  /\ \A g \in Gen : mfs[g] = "starting" => \E t \in Callers : at[t] = "services"
  /\ \A g \in Gen : mfs[g] \in {"armed", "checking"} => timeoutId = g
  /\ repo = "closed" => ~datastore

Quiet ==
  /\ online # NoGen => state.status = "started"
  /\ repo = "closed" => state.status # "started" /\ ~preloading
  /\ crossed \/ Chains

QuietInv == ~overlapped => Quiet

LEMMA QuietInit == NodeInit => QuietInv
BY DEF NodeInit, Init, Stopped, QuietInv, Quiet, Chains

(* The steps of start(). *)
LEMMA StartIsQuiet ==
  ASSUME Base, Sequential, Quiet, NEW t \in Callers, StartCalled(t) \/ StartAdvances(t), ~overlapped'
  PROVE  Quiet'
<1> USE Generations DEF SetAt, SetIdle, IsCalled, Goes, Answers, stores, services, calls
<1>1. DOMAIN at = Callers /\ DOMAIN mfs = Gen
  BY DEF Base, NodeTypeOK
<1>2. CASE StartCalled(t)
  <2>1. /\ \A u \in Callers : at[u] = "idle"
        /\ UNCHANGED <<repo, datastore, online, preloading, mfs, timeoutId, crossed>>
    BY <1>2 DEF StartCalled
  <2>2. CASE StartActivates(t)
    <3>1. state.status = "stopped" /\ state'.status = "starting"
      BY <2>2 DEF StartActivates
    <3> QED
      BY <2>1, <3>1 DEF Quiet, Chains
  <2>3. CASE StartRefused(t) /\ at' = [at EXCEPT ![t] = "idle"]
    <3>1. UNCHANGED state /\ \A u \in Callers : at'[u] = "idle"
      BY <1>1, <2>1, <2>3 DEF StartRefused
    <3> QED
      BY <2>1, <3>1 DEF Quiet, Chains
  <2> QED
    BY <1>2, <2>2, <2>3 DEF StartCalled
<1>3. ASSUME NEW where, Activating(t, where)
      PROVE  /\ at[t] = "start" /\ state = [status |-> "starting", gen |-> call[t].gen] /\ online = NoGen
             /\ call[t].gen \in Gen /\ step[call[t].gen] = where
             /\ ~crossed => \A g \in Gen : mfs[g] = "none"
  <2>1. /\ at[t] = "start" /\ state = [status |-> "starting", gen |-> call[t].gen]
        /\ call[t].gen \in Gen /\ step[call[t].gen] = where
    BY <1>3 DEF Activating, Base, Places, Sequential, AtPlace
  <2> QED
    BY <2>1 DEF Quiet, Chains
<1>4. CASE OpenRepo(t)
  <2>1. /\ repo' = "open" /\ UNCHANGED <<state, online, preloading, mfs, timeoutId, crossed, at>>
        /\ ~crossed => \A g \in Gen : mfs[g] = "none"
    BY <1>3, <1>4 DEF OpenRepo, service
  <2> QED
    BY <2>1 DEF Quiet, Chains
<1>5. CASE StartLibp2p(t)
  BY <1>5 DEF StartLibp2p, service, Quiet, Chains
<1>6. CASE StartBitswap(t)
  <2> DEFINE g == call[t].gen
  <2>1. /\ at[t] = "start" /\ g \in Gen /\ online = NoGen /\ repo # "closed"
        /\ ~crossed => \A h \in Gen : mfs[h] = "none"
    <3>1. Activating(t, "libp2p")
      BY <1>6 DEF StartBitswap
    <3>2. /\ at[t] = "start" /\ g \in Gen /\ online = NoGen /\ step[g] = "libp2p"
          /\ ~crossed => \A h \in Gen : mfs[h] = "none"
      BY <1>3, <3>1
    <3>3. repo # "closed"
      BY <3>2 DEF Sequential, AtPlace
    <3> QED
      BY <3>2, <3>3
  <2>2. /\ state' = [status |-> "started", gen |-> g] /\ UNCHANGED <<repo, datastore, timeoutId, crossed>>
        /\ mfs' = [mfs EXCEPT ![g] = IF MfsPreloading THEN "starting" ELSE @]
        /\ at' = [at EXCEPT ![t] = IF MfsPreloading THEN "services" ELSE "idle"]
    BY <1>6, <2>1 DEF StartBitswap, StartServices, ActivationResolves
  <2>3. \A u \in Callers \ {t} : at'[u] = "idle"
    BY <1>1, <2>1, <2>2 DEF Sequential
  <2>4. at'[t] = IF MfsPreloading THEN "services" ELSE "idle"
    BY <1>1, <2>2
  <2>5. ~crossed => \A h \in Gen : mfs'[h] # "none" => h = g /\ mfs'[h] = "starting" /\ MfsPreloading
    BY <1>1, <2>1, <2>2
  <2> QED
    BY <2>1, <2>2, <2>3, <2>4, <2>5 DEF Quiet, Chains
<1>7. CASE ActivationFails(t)
  <2>1. online = NoGen /\ (~crossed => \A g \in Gen : mfs[g] = "none")
    BY <1>3, <1>7 DEF ActivationFails
  <2>2. state' = Stopped /\ UNCHANGED <<repo, datastore, online, preloading, mfs, timeoutId, crossed>>
    BY <1>7 DEF ActivationFails, ActivationRejects
  <2> QED
    BY <2>1, <2>2 DEF Quiet, Chains, Stopped
<1> QED
  BY <1>2, <1>4, <1>5, <1>6, <1>7 DEF StartAdvances

(* The steps of stop(): when it begins there is one timer at most, and it  *)
(* is cleared.                                                            *)
LEMMA StopIsQuiet ==
  ASSUME Base, Sequential, Sequential', Quiet, NEW t \in Callers, NodeStopCalled(t) \/ StopAdvances(t),
         ~overlapped'
  PROVE  Quiet'
<1> USE Generations DEF SetAt, SetIdle, IsCalled, Goes, Answers, stores, services, calls, network
<1>1. CASE NodeStopCalled(t)
  <2>1. /\ \A u \in Callers : at[u] = "idle"
        /\ UNCHANGED <<state, repo, datastore, online, timeoutId>> /\ ~preloading'
        /\ crossed' = (crossed \/ \E g \in Gen : mfs[g] \in {"starting", "checking"})
        /\ mfs' = [g \in Gen |-> IF g = timeoutId /\ mfs[g] = "armed" THEN "none" ELSE mfs[g]]
    BY <1>1 DEF NodeStopCalled, service
  <2>2. ~crossed' => \A g \in Gen : mfs'[g] = "none"
    BY <2>1 DEF Quiet, Chains, Base, NodeTypeOK
  <2> QED
    BY <2>1, <2>2 DEF Quiet, Chains
<1>2. CASE StopAdvances(t)
  <2>1. at[t] \in {"stop", "network", "bitswap", "libp2p", "close", "closing"}
    BY <1>2 DEF StopAdvances, StopNetwork, NodeStopRetries, StopBitswap, StopLibp2p, StopFails, CloseRepo,
       RepoClosed
  <2>2. ~crossed => \A g \in Gen : mfs[g] = "none"
    BY <2>1 DEF Quiet, Chains
  <2>3. UNCHANGED <<mfs, timeoutId, crossed, preloading>>
    BY <1>2 DEF StopAdvances, StopNetwork, NodeStopRetries, StopBitswap, StopLibp2p, StopFails, CloseRepo,
       RepoClosed, Dispatched
  <2>4. CASE StopNetwork(t) \/ NodeStopRetries(t)
    <3>1. UNCHANGED <<state, repo, datastore>> /\ online' \in {online, NoGen}
      BY <2>4 DEF StopNetwork, NodeStopRetries, StopCalled, StopRetries, StopDispatch
    <3> QED
      BY <2>2, <2>3, <3>1 DEF Quiet, Chains
  <2>5. CASE StopBitswap(t) \/ StopFails(t)
    <3>1. UNCHANGED <<state, repo, datastore, online>>
      BY <2>5 DEF StopBitswap, StopFails, DeactivationFails, service
    <3> QED
      BY <2>2, <2>3, <3>1 DEF Quiet, Chains
  <2>6. CASE StopLibp2p(t)
    <3>1. state' = Stopped /\ online = NoGen /\ UNCHANGED <<repo, datastore, online>>
      BY <2>6 DEF StopLibp2p, Deactivated, Sequential, AtPlace
    <3> QED
      BY <2>2, <2>3, <3>1 DEF Quiet, Chains, Stopped
  <2>7. CASE CloseRepo(t)
    <3>1. UNCHANGED <<state, datastore, online>> /\ repo' \in {repo, "closing"}
      BY <2>7 DEF CloseRepo, service
    <3> QED
      BY <2>2, <2>3, <3>1 DEF Quiet, Chains
  <2>8. CASE RepoClosed(t)
    <3>1. state = Stopped /\ ~preloading /\ ~datastore' /\ UNCHANGED <<state, online>>
      BY <2>8 DEF RepoClosed, service, Sequential, AtPlace
    <3> QED
      BY <2>2, <2>3, <3>1 DEF Quiet, Chains, Stopped
  <2> QED
    BY <1>2, <2>4, <2>5, <2>6, <2>7, <2>8 DEF StopAdvances
<1> QED
  BY <1>1, <1>2

(* The timers: the chain that fires is the one that a stop() would clear.  *)
LEMMA BackgroundIsQuiet ==
  ASSUME Base, Base', Sequential, Quiet, NEW g \in Gen,
         \/ MfsStarted(g) \/ MfsStartFails(g) \/ MfsFires(g) \/ MfsChecked(g)
         \/ RoundBegins(g) \/ RoundEnds(g)
  PROVE  Quiet'
<1> USE Generations DEF SetIdle, Answers, stores, network, calls
<1>1. UNCHANGED <<state, repo, online, preloading, crossed>>
  BY DEF MfsStarted, MfsStartFails, MfsFires, MfsChecked, RoundBegins, RoundEnds, service
<1>2. CASE RoundBegins(g) \/ RoundEnds(g)
  <2>1. UNCHANGED <<at, mfs, timeoutId, datastore>>
    BY <1>2 DEF RoundBegins, RoundEnds
  <2> QED
    BY <1>1, <2>1 DEF Quiet, Chains
<1>3. CASE MfsStarted(g) \/ MfsStartFails(g) \/ MfsFires(g) \/ MfsChecked(g)
  <2>1. /\ mfs[g] # "none" /\ timeoutId' \in {timeoutId, g}
        /\ \E s \in {"none", "armed", "checking"} :
             /\ mfs' = [mfs EXCEPT ![g] = s]
             /\ s = "armed" => timeoutId' = g
             /\ s = "checking" => mfs[g] = "armed" /\ UNCHANGED timeoutId
    BY <1>3 DEF MfsStarted, MfsStartFails, MfsFires, MfsChecked
  <2>2. \/ UNCHANGED at
        \/ \E t \in Callers : at[t] = "services" /\ at' = [at EXCEPT ![t] = "idle"]
    BY <1>3 DEF MfsStarted, MfsStartFails, MfsFires, MfsChecked, StarterWaits
  <2>3. ASSUME ~crossed PROVE Chains'
    <3>1. state = [status |-> "started", gen |-> g] /\ \A t \in Callers : at[t] \in {"idle", "services"}
      BY <2>1, <2>3 DEF Quiet, Chains
    <3>2. \A h \in Gen \ {g} : mfs[h] = "none"
      BY <2>3, <3>1 DEF Quiet, Chains
    <3>3. DOMAIN at = Callers /\ DOMAIN mfs = Gen
      BY DEF Base, NodeTypeOK
    <3>4. \A t \in Callers : at'[t] \in {"idle", "services"}
      BY <2>2, <3>1, <3>3
    <3>5. \A h \in Gen \ {g} : mfs'[h] = "none"
      BY <2>1, <3>2, <3>3
    <3>6. mfs'[g] \in {"none", "armed", "checking"} /\ (mfs'[g] # "none" => timeoutId' = g)
      BY <2>1, <2>3, <3>3 DEF Quiet, Chains
    <3>7. repo # "closed"
      BY <3>1 DEF Quiet
    <3> QED
      BY <1>1, <3>1, <3>4, <3>5, <3>6, <3>7 DEF Chains
  <2> QED
    BY <1>1, <2>3 DEF Quiet
<1> QED
  BY <1>2, <1>3

LEMMA AlwaysQuiet == NodeSpec => []QuietInv
<1>1. ASSUME Base, Base', SequentialInv, SequentialInv', QuietInv, [NodeNext]_nodeVars PROVE QuietInv'
  <2> SUFFICES ASSUME ~overlapped' PROVE Quiet'
    BY DEF QuietInv
  <2>1. CASE UNCHANGED nodeVars
    BY <1>1, <2>1 DEF nodeVars, service, network, stores, services, calls, QuietInv, Quiet, Chains
  <2>2. CASE NodeNext
    <3>1. ~overlapped
      BY <1>1, <2>2, Latched
    <3>2. Sequential /\ Sequential' /\ Quiet
      BY <1>1, <3>1 DEF SequentialInv, QuietInv
    <3> QED
      BY <1>1, <2>2, <3>2, StartIsQuiet, StopIsQuiet, BackgroundIsQuiet DEF NodeNext
  <2> QED
    BY <1>1, <2>1, <2>2
<1> QED
  BY <1>1, QuietInit, AlwaysBase, AlwaysSequential, PTL DEF NodeSpec

(* A node that a stop() has closed is quiet, if one call is made at a time: *)
(* nothing of it runs but the libp2p that a failed start() has left        *)
(* (network.js:89-97), and its datastore stays closed unless the stop()    *)
(* crossed a preload of the MFS, which sets its timer again                *)
(* (mfs-preload.js:44).                                                    *)
THEOREM StopLeavesNothing == NodeSpec => []StoppedNodeIsQuiet
<1>1. ASSUME Base, RepublisherInv, SequentialInv, QuietInv PROVE StoppedNodeIsQuiet
  <2> SUFFICES ASSUME repo = "closed", \A t \in Callers : at[t] = "idle", ~overlapped
               PROVE  /\ state = Stopped /\ online = NoGen /\ ~preloading
                      /\ libp2p \subseteq Abandoned /\ bitswap = {} /\ blocks = NoGen
                      /\ \A g \in Gen : ~Republishing(g)
                      /\ crossed \/ (~datastore /\ \A g \in Gen : mfs[g] = "none")
    BY DEF StoppedNodeIsQuiet
  <2>1. Sequential /\ Quiet
    BY <1>1 DEF SequentialInv, QuietInv
  <2>2. state.status = "stopped" /\ ~preloading /\ online = NoGen
    <3>1. state.status \notin {"started", "starting"}
      BY <2>1 DEF Sequential, Quiet
    <3> QED
      BY <1>1, <2>1, <3>1 DEF Quiet, Base, NodeTypeOK, TypeOK
  <2>3. state = Stopped
    BY <1>1, <2>2 DEF Base, Names
  <2>4. libp2p \subseteq Abandoned /\ bitswap = {} /\ blocks = NoGen
    BY <2>1, <2>2 DEF Sequential, Runs
  <2>5. \A g \in Gen : ~Republishing(g)
    BY <1>1, <2>2, Generations DEF RepublisherInv
  <2>6. crossed \/ (~datastore /\ \A g \in Gen : mfs[g] = "none")
    BY <2>1, <2>2 DEF Quiet, Chains
  <2> QED
    BY <2>2, <2>3, <2>4, <2>5, <2>6
<1> QED
  BY <1>1, AlwaysBase, AlwaysRepublisher, AlwaysSequential, AlwaysQuiet, PTL

-----------------------------------------------------------------------------
(***************************************************************************)
(* The Service alone, with use() and with calls of start() and stop() that *)
(* no order of the node holds back, for any number of tasks, all of which *)
(* may stop it at a time.                                                 *)
(*                                                                        *)
(* NoLeakedInstance is not inductive: that the state names the network     *)
(* that is up must survive the end of an activation and of a              *)
(* deactivation, so the invariant also says which task is at what.  A     *)
(* stop() that lags behind another one deactivates a network that is down *)
(* already; when a newer start() has gone on meanwhile, its end overwrites *)
(* the state, and nothing is claimed from there on.                       *)
(***************************************************************************)

(* The task that runs activate() is the one whose promise the state holds. *)
ActivatingInv ==
  /\ \A c \in Callers : call[c].at = "activating" =>
       /\ call[c].op = "start" /\ call[c].gen \in Gen
       /\ state = [status |-> "starting", gen |-> call[c].gen]
       /\ activation[call[c].gen] = "pending"
  /\ \A c, d \in Callers :
       (call[c].at = "activating" /\ call[d].at = "activating") => c = d

(* A promise is pending only while its activate() runs. *)
PendingIsAwaited ==
  \A g \in Gen : activation[g] = "pending" =>
    \E c \in Callers : call[c].at = "activating" /\ call[c].gen = g

(* The task that runs deactivate() works on the network the state holds,   *)
(* or on one that another stop() has brought down.                        *)
DeactivatingInv ==
  \A c \in Callers : call[c].at = "deactivating" =>
    /\ call[c].op = "stop" /\ call[c].gen \in Gen
    /\ activation[call[c].gen] = "resolved"
    /\ instance[call[c].gen] = "up" => state = [status |-> "started", gen |-> call[c].gen]

StoppingInv ==
  \A c \in Callers : call[c].op = "stop" =>
    call[c].outcome = "pending" /\ call[c].at \in {"awaitReady", "deactivating"}

(* The networks: one that is up is held by the state, one that is held by  *)
(* the state is up, one that was never activated is not.                  *)
HoldingInv ==
  /\ state.status = "stopped" => state = Stopped
  /\ state.status = "started" => state.gen \in Gen /\ activation[state.gen] = "resolved"
  /\ state.status = "starting" => state.gen \in Gen
  /\ state.status = "starting" => activation[state.gen] = "pending"

PhaseInv == ActivatingInv /\ PendingIsAwaited /\ DeactivatingInv /\ HoldingInv /\ NoLeakedInstance

ServiceInv == TypeOK /\ StoppingInv /\ (~overwritten => PhaseInv)

USE DEF Gen, NoGen

-----------------------------------------------------------------------------
(* Every variable keeps its type, whoever may call stop().                 *)
THEOREM ServiceTypeCorrect == Spec => []TypeOK
<1> USE DEF TypeOK, Ops, At, Outcomes, Idle, Busy, Stopped
<1>1. ASSUME Init PROVE TypeOK
  BY <1>1 DEF Init
<1>2. ASSUME TypeOK, [Next]_vars PROVE TypeOK'
  <2>1. CASE UNCHANGED vars
    BY <1>2, <2>1 DEF vars
  <2>2. ASSUME NEW c \in Callers, StartActivates(c) PROVE TypeOK'
    BY <1>2, <2>2 DEF StartActivates
  <2>3. ASSUME NEW c \in Callers, StartRefused(c) PROVE TypeOK'
    BY <1>2, <2>3 DEF StartRefused
  <2>4. ASSUME NEW c \in Callers, ActivationResolves(c) PROVE TypeOK'
    BY <1>2, <2>4 DEF ActivationResolves
  <2>5. ASSUME NEW c \in Callers, ActivationRejects(c) PROVE TypeOK'
    BY <1>2, <2>5 DEF ActivationRejects
  <2>6. ASSUME NEW c \in Callers, StopDispatch(c) PROVE TypeOK'
    BY <1>2, <2>6 DEF StopDispatch
  <2>7. ASSUME NEW c \in Callers, Deactivated(c) PROVE TypeOK'
    BY <1>2, <2>7 DEF Deactivated
  <2>8. ASSUME NEW c \in Callers, DeactivationFails(c) PROVE TypeOK'
    BY <1>2, <2>8 DEF DeactivationFails
  <2>9. ASSUME NEW c \in Callers, UseCalled(c) PROVE TypeOK'
    BY <1>2, <2>9 DEF UseCalled
  <2>10. ASSUME NEW c \in Callers, UseSettles(c) PROVE TypeOK'
    BY <1>2, <2>10 DEF UseSettles
  <2>11. ASSUME NEW c \in Callers, UseTimesOut(c) PROVE TypeOK'
    BY <1>2, <2>11 DEF UseTimesOut
  <2> QED
    BY <1>2, <2>1, <2>2, <2>3, <2>4, <2>5, <2>6, <2>7, <2>8, <2>9, <2>10, <2>11
    DEF Next, StopCalled, StopRetries
<1> QED
  BY <1>1, <1>2, PTL DEF Spec

-----------------------------------------------------------------------------
(* The invariant, for any number of tasks that start, stop and use.        *)
THEOREM ServiceInductive == Spec => []ServiceInv
<1>1. ASSUME Init, TypeOK PROVE ServiceInv
  BY <1>1 DEF Init, ServiceInv, PhaseInv, ActivatingInv, PendingIsAwaited, StoppingInv, DeactivatingInv,
     HoldingInv, NoLeakedInstance, Idle, Stopped
<1>2. ASSUME TypeOK, StoppingInv, [Next]_vars PROVE StoppingInv'
  BY <1>2 DEF Next, vars, TypeOK, StoppingInv, Idle, Busy, StartActivates, StartRefused, ActivationResolves,
     ActivationRejects, StopCalled, StopRetries, StopDispatch, Deactivated, DeactivationFails, UseCalled,
     UseSettles, UseTimesOut
<1>3. ASSUME TypeOK, TypeOK', StoppingInv, PhaseInv, ~overwritten, [Next]_vars, ~overwritten'
      PROVE  PhaseInv'
  <2> USE <1>3 DEF TypeOK, PhaseInv, ActivatingInv, PendingIsAwaited, StoppingInv, DeactivatingInv, HoldingInv,
                   NoLeakedInstance, Idle, Busy, Stopped
  <2>1. CASE UNCHANGED vars
    BY <2>1 DEF vars
  <2>2. ASSUME NEW c \in Callers, StartActivates(c) PROVE PhaseInv'
    BY <2>2 DEF StartActivates
  <2>3. ASSUME NEW c \in Callers, StartRefused(c) PROVE PhaseInv'
    BY <2>3 DEF StartRefused
  <2>4. ASSUME NEW c \in Callers, ActivationResolves(c) PROVE PhaseInv'
    BY <2>4 DEF ActivationResolves
  <2>5. ASSUME NEW c \in Callers, ActivationRejects(c) PROVE PhaseInv'
    BY <2>5 DEF ActivationRejects
  <2>6. ASSUME NEW c \in Callers, StopDispatch(c), call[c].at \notin {"activating", "deactivating"}
        PROVE  PhaseInv'
    BY <2>6 DEF StopDispatch
  <2>7. ASSUME NEW c \in Callers, Deactivated(c) PROVE PhaseInv'
    <3>1. /\ state' = Stopped /\ call[c].at = "deactivating" /\ call[c].gen \in Gen /\ UNCHANGED activation
          /\ instance' = [instance EXCEPT ![call[c].gen] = "down"]
          /\ call' = [call EXCEPT ![c] = Idle("ok", call[c].gen)]
      BY <2>7 DEF Deactivated
    <3>2. state \in {Stopped, [status |-> "started", gen |-> call[c].gen]}
      BY <2>7 DEF Deactivated
    <3>3. \A d \in Callers : call[d].at # "activating"
      BY <3>2
    <3>4. \A g \in Gen : instance'[g] # "up"
      BY <3>1, <3>2
    <3>5. \A d \in Callers : call'[d] = call[d] \/ (d = c /\ call'[d] = Idle("ok", call[c].gen))
      BY <3>1
    <3> QED
      BY <3>1, <3>2, <3>3, <3>4, <3>5
  <2>8. ASSUME NEW c \in Callers, DeactivationFails(c) PROVE PhaseInv'
    BY <2>8 DEF DeactivationFails
  <2>9. ASSUME NEW c \in Callers, UseCalled(c) PROVE PhaseInv'
    BY <2>9 DEF UseCalled
  <2>10. ASSUME NEW c \in Callers, UseSettles(c) PROVE PhaseInv'
    BY <2>10 DEF UseSettles
  <2>11. ASSUME NEW c \in Callers, UseTimesOut(c) PROVE PhaseInv'
    BY <2>11 DEF UseTimesOut
  <2> QED
    BY <2>1, <2>2, <2>3, <2>4, <2>5, <2>6, <2>7, <2>8, <2>9, <2>10, <2>11
    DEF Next, StopCalled, StopRetries
<1>4. ASSUME TypeOK, overwritten, [Next]_vars PROVE overwritten'
  BY <1>4 DEF TypeOK, Next, vars, StartActivates, StartRefused, ActivationResolves, ActivationRejects, StopCalled,
     StopRetries, StopDispatch, Deactivated, DeactivationFails, UseCalled, UseSettles, UseTimesOut
<1>5. ASSUME TypeOK, TypeOK', ServiceInv, [Next]_vars PROVE ServiceInv'
  BY <1>2, <1>3, <1>4, <1>5 DEF ServiceInv
<1> QED
  BY <1>1, <1>5, ServiceTypeCorrect, PTL DEF Spec

(* A network that is up is never forgotten: it is the one stop() reaches,  *)
(* however many tasks start and stop, until the end of a stop() that       *)
(* another one has overtaken overwrites the state of a newer start()       *)
(* (service.js:139).                                                       *)
THEOREM NoLeak == Spec => []NoLeakedInstance
<1>1. ServiceInv => NoLeakedInstance
  BY DEF ServiceInv, PhaseInv, NoLeakedInstance
<1> QED
  BY <1>1, ServiceInductive, PTL

LEMMA InvOneActivation == ASSUME ServiceInv PROVE OneActivation
BY DEF ServiceInv, PhaseInv, ActivatingInv, PendingIsAwaited, OneActivation

(* No two calls of activate() are ever under way at the same time, until   *)
(* a stop() has overwritten the state of a newer start().                  *)
THEOREM Exclusive == Spec => []OneActivation
BY ServiceInductive, InvOneActivation, PTL

(* A stop() that returns leaves nothing up and nothing coming up.          *)
LEMMA ServiceStopStep ==
  ASSUME ServiceInv, ServiceInv', [Next]_vars, NEW c \in Callers,
         call[c].op = "stop", call'[c].outcome = "ok", ~overwritten'
  PROVE  /\ state'.status = "stopped"
         /\ \A g \in Gen : instance'[g] # "up" /\ activation'[g] # "pending"
<1>1. OneActivation' /\ NoLeakedInstance'
  <2>1. OneActivation'
    BY DEF ServiceInv, PhaseInv, ActivatingInv, PendingIsAwaited, OneActivation
  <2> QED
    BY <2>1 DEF ServiceInv, PhaseInv
<1>2. state'.status = "stopped"
  <2> USE DEF ServiceInv, TypeOK, StoppingInv, Idle, Busy, Stopped
  <2>1. call'[c] # call[c] /\ call[c].at \in {"awaitReady", "deactivating"}
    OBVIOUS
  <2>2. ASSUME NEW d \in Callers, StopDispatch(d) PROVE state'.status = "stopped"
    BY <2>2, <2>1 DEF StopDispatch
  <2>3. ASSUME NEW d \in Callers, Deactivated(d) PROVE state'.status = "stopped"
    BY <2>3 DEF Deactivated
  <2>4. ASSUME NEW d \in Callers,
               \/ StartActivates(d) \/ StartRefused(d) \/ UseCalled(d) \/ UseSettles(d)
        PROVE  FALSE
    BY <2>4, <2>1 DEF StartActivates, StartRefused, UseCalled, UseSettles
  <2>5. ASSUME NEW d \in Callers,
               \/ ActivationResolves(d) \/ ActivationRejects(d) \/ DeactivationFails(d)
               \/ UseTimesOut(d)
        PROVE  FALSE
    BY <2>5, <2>1 DEF ActivationResolves, ActivationRejects, DeactivationFails, UseTimesOut
  <2> QED
    BY <2>1, <2>2, <2>3, <2>4, <2>5 DEF Next, vars, StopCalled, StopRetries
<1> QED
  BY <1>1, <1>2 DEF OneActivation, NoLeakedInstance

(* When stop() returns nothing is up or coming up, however many stop() run *)
(* side by side, as long as none has overwritten the state of a start().   *)
THEOREM StopIsComplete == Spec => StopStops
<1>1. ASSUME ServiceInv, ServiceInv', [Next]_vars
      PROVE  [\A c \in Callers :
                (call[c].op = "stop" /\ call'[c].outcome = "ok" /\ ~overwritten')
                  => /\ state'.status = "stopped"
                     /\ \A g \in Gen : instance'[g] # "up" /\ activation'[g] # "pending"]_vars
  BY <1>1, ServiceStopStep
<1> QED
  BY <1>1, ServiceInductive, PTL DEF Spec, StopStops

-----------------------------------------------------------------------------
(***************************************************************************)
(* The node drives its Service by the Service's own steps and touches it   *)
(* by no other, so whatever is proved of the Service is true of a node.   *)
(***************************************************************************)

LEMMA ServiceStepOrStutter ==
  ASSUME [NodeNext]_nodeVars
  PROVE  [Next]_vars
<1> USE DEF service, vars
<1>1. ASSUME NEW t \in Callers, StartCalled(t) PROVE Next
  BY <1>1 DEF StartCalled, Next
<1>2. ASSUME NEW t \in Callers, OpenRepo(t) \/ StartLibp2p(t) PROVE UNCHANGED vars
  BY <1>2 DEF OpenRepo, StartLibp2p
<1>3. ASSUME NEW t \in Callers, StartBitswap(t) \/ ActivationFails(t) PROVE Next
  BY <1>3 DEF StartBitswap, ActivationFails, Next
<1>4. ASSUME NEW t \in Callers, StopNetwork(t) \/ NodeStopRetries(t) PROVE Next
  BY <1>4 DEF StopNetwork, NodeStopRetries, Next
<1>5. ASSUME NEW t \in Callers, StopLibp2p(t) \/ StopFails(t) PROVE Next
  BY <1>5 DEF StopLibp2p, StopFails, Next
<1>6. ASSUME NEW t \in Callers,
             NodeStopCalled(t) \/ StopBitswap(t) \/ CloseRepo(t) \/ RepoClosed(t)
      PROVE  UNCHANGED vars
  BY <1>6 DEF NodeStopCalled, StopBitswap, CloseRepo, RepoClosed
<1>7. ASSUME NEW g \in Gen,
             \/ MfsStarted(g) \/ MfsStartFails(g) \/ MfsFires(g) \/ MfsChecked(g)
             \/ RoundBegins(g) \/ RoundEnds(g)
      PROVE  UNCHANGED vars
  BY <1>7 DEF MfsStarted, MfsStartFails, MfsFires, MfsChecked, RoundBegins, RoundEnds
<1>8. CASE UNCHANGED nodeVars
  BY <1>8 DEF nodeVars
<1> QED
  BY <1>1, <1>2, <1>3, <1>4, <1>5, <1>6, <1>7, <1>8 DEF NodeNext, StartAdvances, StopAdvances

(* A node implements the Service, without use(): every step of start() and *)
(* stop() (components/start.js, stop.js, network.js) is one of the steps   *)
(* of utils/service.js or leaves the service alone.                        *)
THEOREM NodeImplementsService == NodeSpec => Spec
<1>1. NodeInit => Init
  BY DEF NodeInit
<1> QED
  BY <1>1, ServiceStepOrStutter, PTL DEF NodeSpec, Spec

(* In a node whose start() and stop() are called by any number of tasks,   *)
(* no network that runs is ever forgotten, at most one is being brought up *)
(* and a Service.stop() that returns leaves none, with the same exception. *)
THEOREM NodeKeepsItsNetwork ==
  NodeSpec => ([]NoLeakedInstance /\ []OneActivation /\ StopStops)
BY NodeImplementsService, NoLeak, Exclusive, StopIsComplete
=============================================================================
