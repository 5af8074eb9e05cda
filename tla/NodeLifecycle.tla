--------------------------- MODULE NodeLifecycle ---------------------------
(***************************************************************************)
(* start() and stop() of a node (components/start.js, stop.js): the       *)
(* network, which the Service that this module extends starts and stops   *)
(* in the steps of components/network.js, the IPNS republisher, the       *)
(* preloader, the timer that preloads the MFS root, and the repo below    *)
(* them all.  The Service's steps are conjuncts of the node's steps; the   *)
(* callers of the node's start() and stop() are the Service's.            *)
(*                                                                        *)
(* The g-th activation of the network names what start() creates with it. *)
(***************************************************************************)
EXTENDS Service

CONSTANT MfsPreloading  \* options.preload.enabled, as mfs-preload.js reads it

ASSUME NodeAssumption == MfsPreloading \in BOOLEAN

VARIABLES
  at,           \* where the call of a task is
  waits,        \* the republisher that a stop() waits for
  step,         \* how far an activation of the network is
  libp2p,       \* the activations whose libp2p runs
  bitswap,      \* the activations whose bitswap runs
  blocks,       \* repo.blocks: NoGen is the plain store, g the BlockStorage of g
  under,        \* what the BlockStorage of an activation unwraps to
  repo,         \* "open", "closing" or "closed"
  datastore,    \* whether the datastore of the repo is open
  online,       \* IPNSAPI.online, by activation
  republisher,  \* the republisher of an activation
  preloading,   \* whether the preloader takes requests
  mfs,          \* the chain of MFS preloads that a start() has begun
  timeoutId,    \* the chain whose timer was set last
  overlapped,   \* history: whether a call was made while another one was under way
  crossed       \* history: whether a stop() was called while a preload of the MFS was under way

service == <<state, activation, instance, call, overwritten>>
network == <<step, libp2p, bitswap, blocks, under>>
stores == <<repo, datastore>>
services == <<online, republisher, preloading, mfs, timeoutId>>
calls == <<at, waits, overlapped, crossed>>
nodeVars == <<service, network, stores, services, calls>>

NodeInit ==
  /\ Init
  /\ at = [t \in Callers |-> "idle"]
  /\ waits = [t \in Callers |-> NoGen]
  /\ step = [g \in Gen |-> "none"]
  /\ libp2p = {} /\ bitswap = {} /\ blocks = NoGen /\ under = [g \in Gen |-> NoGen]
  /\ repo = "open" /\ datastore = TRUE
  /\ online = NoGen /\ republisher = [g \in Gen |-> "none"]
  /\ preloading = TRUE
  /\ mfs = [g \in Gen |-> "none"] /\ timeoutId = NoGen
  /\ overlapped = FALSE /\ crossed = FALSE

IsCalled(t) ==
  /\ at[t] = "idle"
  /\ overlapped' = (overlapped \/ \E u \in Callers : at[u] # "idle")

SetAt(t, where) == at' = [at EXCEPT ![t] = where] /\ UNCHANGED waits

SetIdle(t) ==
  /\ at' = [at EXCEPT ![t] = "idle"]
  /\ waits' = [waits EXCEPT ![t] = NoGen]

Goes(t, where) == SetAt(t, where) /\ UNCHANGED <<overlapped, crossed>>

(* The call of a task returns, or throws. *)
Answers(t) == SetIdle(t) /\ UNCHANGED <<overlapped, crossed>>

-----------------------------------------------------------------------------
(* start()                                                                *)

(* Service.start is called; Network.start looks whether the repo is closed. *)
StartCalled(t) ==
  /\ IsCalled(t)
  /\ \/ /\ StartActivates(t)
        /\ SetAt(t, "start")
        /\ step' = [step EXCEPT ![call'[t].gen] = IF repo = "closed" THEN "open" ELSE "config"]
     \/ /\ StartRefused(t)
        /\ SetIdle(t)
        /\ UNCHANGED step
  /\ UNCHANGED <<crossed, libp2p, bitswap, blocks, under, stores, services>>

Activating(t, where) == call[t].at = "activating" /\ step[call[t].gen] = where

OpenRepo(t) ==
  /\ Activating(t, "open")
  /\ repo' = "open" /\ datastore' = TRUE
  /\ step' = [step EXCEPT ![call[t].gen] = "config"]
  /\ UNCHANGED <<service, libp2p, bitswap, blocks, under, services, calls>>

(* The config is read and libp2p created and started: three awaits in one   *)
(* step, since nothing of the node changes before the last has ended.     *)
StartLibp2p(t) ==
  /\ Activating(t, "config")
  /\ libp2p' = libp2p \cup {call[t].gen}
  /\ step' = [step EXCEPT ![call[t].gen] = "libp2p"]
  /\ UNCHANGED <<service, bitswap, blocks, under, stores, services, calls>>

(* Faulty variant: the republisher starts before it is known that there is none. *)
FaultyStartServices(t, g) ==
  /\ republisher' = [republisher EXCEPT ![g] = "armed"]
  /\ online' = IF online = NoGen THEN g ELSE online
  /\ preloading' = TRUE
  /\ mfs' = [mfs EXCEPT ![g] = IF MfsPreloading THEN "starting" ELSE @]
  /\ IF online # NoGen THEN Answers(t)
     ELSE IF MfsPreloading THEN Goes(t, "services") ELSE Answers(t)

(* Promise.all of start.js: ipns.startOnline() throws when it is online,    *)
(* the other two are called all the same.                                 *)
StartServices(t, g) ==
  /\ republisher' = [republisher EXCEPT ![g] = IF online = NoGen THEN "armed" ELSE @]
  /\ online' = IF online = NoGen THEN g ELSE online
  /\ preloading' = TRUE
  /\ mfs' = [mfs EXCEPT ![g] = IF MfsPreloading THEN "starting" ELSE @]
  /\ IF online # NoGen THEN Answers(t)
     ELSE IF MfsPreloading THEN Goes(t, "services") ELSE Answers(t)

(* bitswap starts, the BlockStorage takes the place of repo.blocks, and     *)
(* start() goes on before anything else runs.                             *)
StartBitswap(t) ==
  LET g == call[t].gen
  IN  /\ Activating(t, "libp2p")
      /\ ActivationResolves(t)
      /\ bitswap' = bitswap \cup {g}
      /\ blocks' = g /\ under' = [under EXCEPT ![g] = blocks]
      /\ step' = [step EXCEPT ![g] = "done"]
      /\ StartServices(t, g)
      /\ UNCHANGED <<libp2p, stores, timeoutId>>

(* A step of Network.start throws; what it has started is not stopped. *)
ActivationFails(t) ==
  /\ \E where \in {"open", "config", "libp2p"} : Activating(t, where)
  /\ ActivationRejects(t)
  /\ step' = [step EXCEPT ![call[t].gen] = "failed"]
  /\ Answers(t)
  /\ UNCHANGED <<libp2p, bitswap, blocks, under, stores, services>>

(* The task whose start() waits for the chain g. *)
StarterWaits(t, g) == at[t] = "services" /\ call[t].gen = g

(* files.stat('/') has loaded the root, which opens the datastore (see     *)
(* with-mfs-root.js): the timer is set and start() returns.               *)
MfsStarted(g) ==
  /\ mfs[g] = "starting"
  /\ mfs' = [mfs EXCEPT ![g] = "armed"] /\ timeoutId' = g
  /\ datastore' = TRUE
  /\ \/ \E t \in Callers : StarterWaits(t, g) /\ Answers(t)
     \/ (\A t \in Callers : ~StarterWaits(t, g)) /\ UNCHANGED calls
  /\ UNCHANGED <<service, network, repo, online, republisher, preloading>>

MfsStartFails(g) ==
  /\ mfs[g] = "starting"
  /\ mfs' = [mfs EXCEPT ![g] = "none"]
  /\ \/ \E t \in Callers : StarterWaits(t, g) /\ Answers(t)
     \/ (\A t \in Callers : ~StarterWaits(t, g)) /\ UNCHANGED calls
  /\ UNCHANGED <<service, network, stores, online, republisher, preloading, timeoutId>>

-----------------------------------------------------------------------------
(* What runs while the node is started                                    *)

MfsFires(g) ==
  /\ mfs[g] = "armed"
  /\ mfs' = [mfs EXCEPT ![g] = "checking"]
  /\ UNCHANGED <<service, network, stores, online, republisher, preloading, timeoutId, calls>>

(* The root is loaded and preloaded, or that failed; the timer is set. *)
MfsChecked(g) ==
  /\ mfs[g] = "checking"
  /\ mfs' = [mfs EXCEPT ![g] = "armed"] /\ timeoutId' = g
  /\ datastore' \in {datastore, TRUE}
  /\ UNCHANGED <<service, network, repo, online, republisher, preloading, calls>>

(* A round of the republisher, as module Ipns has it in detail. *)
RoundBegins(g) ==
  /\ republisher[g] = "armed"
  /\ republisher' = [republisher EXCEPT ![g] = "round"]
  /\ UNCHANGED <<service, network, stores, online, preloading, mfs, timeoutId, calls>>

RoundEnds(g) ==
  /\ republisher[g] \in {"round", "stopping"}
  /\ republisher' = [republisher EXCEPT ![g] = IF @ = "round" THEN "armed" ELSE "stopped"]
  /\ UNCHANGED <<service, network, stores, online, preloading, mfs, timeoutId, calls>>

-----------------------------------------------------------------------------
(* stop()                                                                 *)

(* Another stop() has taken the handle of the republisher away. *)
RepublisherStops == online # NoGen /\ republisher[online] \in {"stopping", "stopped"}

(* Promise.all of stop.js: the preloader is stopped, the timer that was set *)
(* last is cleared (a preload that is under way sets another one when it   *)
(* ends), and ipns.stop() waits for the round of the republisher, or       *)
(* throws when another stop() does.                                       *)
NodeStopCalled(t) ==
  /\ IsCalled(t)
  /\ crossed' = (crossed \/ \E g \in Gen : mfs[g] \in {"starting", "checking"})
  /\ preloading' = FALSE
  /\ mfs' = [g \in Gen |-> IF g = timeoutId /\ mfs[g] = "armed" THEN "none" ELSE mfs[g]]
  /\ \/ /\ RepublisherStops
        /\ SetIdle(t)
        /\ UNCHANGED republisher
     \/ /\ ~RepublisherStops
        /\ at' = [at EXCEPT ![t] = "stop"]
        /\ waits' = [waits EXCEPT ![t] = online]
        /\ republisher' = [g \in Gen |->
             CASE g # online -> republisher[g]
               [] g = online /\ republisher[g] = "round" -> "stopping"
               [] OTHER -> "stopped"]
  /\ UNCHANGED <<service, network, stores, online, timeoutId>>

(* Network.stop, which Service.stop may have called, begins with the store. *)
Dispatched(t) ==
  IF call'[t].at = "deactivating"
  THEN /\ blocks' = under[call'[t].gen]
       /\ Goes(t, "bitswap")
  ELSE /\ UNCHANGED blocks
       /\ Goes(t, IF call'[t].at = "idle" THEN "close" ELSE "network")

(* Faulty variant: the network is stopped at once. *)
FaultyStopNetwork(t) ==
  /\ at[t] = "stop"
  /\ online' = IF waits[t] = NoGen THEN online ELSE NoGen
  /\ StopCalled(t)
  /\ Dispatched(t)
  /\ UNCHANGED <<step, libp2p, bitswap, under, stores, republisher, preloading, mfs, timeoutId>>

(* The republisher has stopped: IPNS is offline, Service.stop is called. *)
StopNetwork(t) ==
  /\ at[t] = "stop"
  /\ waits[t] # NoGen => republisher[waits[t]] = "stopped"
  /\ online' = IF waits[t] = NoGen THEN online ELSE NoGen
  /\ StopCalled(t)
  /\ Dispatched(t)
  /\ UNCHANGED <<step, libp2p, bitswap, under, stores, republisher, preloading, mfs, timeoutId>>

(* The start that Service.stop waited for is over. *)
NodeStopRetries(t) ==
  /\ at[t] = "network"
  /\ StopRetries(t)
  /\ Dispatched(t)
  /\ UNCHANGED <<step, libp2p, bitswap, under, stores, services>>

StopBitswap(t) ==
  /\ at[t] = "bitswap"
  /\ bitswap' = bitswap \ {call[t].gen}
  /\ Goes(t, "libp2p")
  /\ UNCHANGED <<service, step, libp2p, blocks, under, stores, services>>

(* Faulty variant: a stop leaves libp2p to itself. *)
FaultyStopLibp2p(t) ==
  /\ at[t] = "libp2p"
  /\ Deactivated(t)
  /\ Goes(t, "close")
  /\ UNCHANGED <<step, libp2p, bitswap, blocks, under, stores, services>>

StopLibp2p(t) ==
  /\ at[t] = "libp2p"
  /\ Deactivated(t)
  /\ libp2p' = libp2p \ {call[t].gen}
  /\ Goes(t, "close")
  /\ UNCHANGED <<step, bitswap, blocks, under, stores, services>>

(* Stopping bitswap or libp2p throws: the repo stays open. *)
StopFails(t) ==
  /\ at[t] \in {"bitswap", "libp2p"}
  /\ DeactivationFails(t)
  /\ Answers(t)
  /\ UNCHANGED <<network, stores, services>>

(* repo.close() throws when the repo is closed already. *)
CloseRepo(t) ==
  /\ at[t] = "close"
  /\ \/ repo = "closed" /\ Answers(t) /\ UNCHANGED repo
     \/ repo # "closed" /\ repo' = "closing" /\ Goes(t, "closing")
  /\ UNCHANGED <<service, network, datastore, services>>

RepoClosed(t) ==
  /\ at[t] = "closing"
  /\ repo' = "closed" /\ datastore' = FALSE
  /\ Answers(t)
  /\ UNCHANGED <<service, network, services>>

-----------------------------------------------------------------------------

StartAdvances(t) ==
  OpenRepo(t) \/ StartLibp2p(t) \/ StartBitswap(t) \/ ActivationFails(t)

StopAdvances(t) ==
  \/ StopNetwork(t) \/ NodeStopRetries(t) \/ StopBitswap(t) \/ StopLibp2p(t) \/ StopFails(t)
  \/ CloseRepo(t) \/ RepoClosed(t)

NodeNext ==
  \/ \E t \in Callers : StartCalled(t) \/ NodeStopCalled(t) \/ StartAdvances(t) \/ StopAdvances(t)
  \/ \E g \in Gen :
       MfsStarted(g) \/ MfsStartFails(g) \/ MfsFires(g) \/ MfsChecked(g)
         \/ RoundBegins(g) \/ RoundEnds(g)

NodeSpec == NodeInit /\ [][NodeNext]_nodeVars

(* Promises settle; timers and calls need not come. *)
NodeFairness ==
  /\ \A t \in Callers : WF_nodeVars(StartAdvances(t)) /\ WF_nodeVars(StopAdvances(t))
  /\ \A g \in Gen : WF_nodeVars(MfsStarted(g) \/ MfsStartFails(g)) /\ WF_nodeVars(RoundEnds(g))

NodeFairSpec == NodeSpec /\ NodeFairness

-----------------------------------------------------------------------------
(* Properties                                                             *)

NodeTypeOK ==
  /\ TypeOK
  /\ at \in [Callers -> {"idle", "start", "services", "stop", "network", "bitswap", "libp2p",
                       "close", "closing"}]
  /\ waits \in [Callers -> Gen \cup {NoGen}]
  /\ step \in [Gen -> {"none", "open", "config", "libp2p", "done", "failed"}]
  /\ libp2p \subseteq Gen /\ bitswap \subseteq Gen
  /\ blocks \in Gen \cup {NoGen} /\ under \in [Gen -> Gen \cup {NoGen}]
  /\ repo \in {"open", "closing", "closed"} /\ datastore \in BOOLEAN
  /\ online \in Gen \cup {NoGen}
  /\ republisher \in [Gen -> {"none", "armed", "round", "stopping", "stopped"}]
  /\ preloading \in BOOLEAN
  /\ mfs \in [Gen -> {"none", "starting", "armed", "checking"}]
  /\ timeoutId \in Gen \cup {NoGen} /\ overlapped \in BOOLEAN /\ crossed \in BOOLEAN

Republishing(g) == republisher[g] \in {"armed", "round", "stopping"}

(* What a failed Network.start has left behind, which nothing ever stops. *)
Abandoned == {g \in Gen : step[g] = "failed"}

(* A node whose repo is closed, with no call under way, is quiet: what a    *)
(* stop() has closed no timer, no round and no service of the node opens   *)
(* again or writes to, and the next start() finds the Service stopped, if  *)
(* the application makes one call at a time.  The libp2p of a start that   *)
(* failed is exempt: network.js does not stop it.  So are the timer and    *)
(* the datastore after a stop() that crossed a preload of the MFS: it goes *)
(* on, sets its timer again (mfs-preload.js:44) and opens the datastore    *)
(* that stop.js:24-25 closes last since services write to it.             *)
StoppedNodeIsQuiet ==
  (repo = "closed" /\ (\A t \in Callers : at[t] = "idle") /\ ~overlapped) =>
    /\ state = Stopped /\ online = NoGen /\ ~preloading
    /\ libp2p \subseteq Abandoned /\ bitswap = {} /\ blocks = NoGen
    /\ \A g \in Gen : ~Republishing(g)
    /\ crossed \/ (~datastore /\ \A g \in Gen : mfs[g] = "none")

(* A round of the republisher reads and writes records: it never meets a   *)
(* datastore that stop() has closed.                                      *)
RoundsFindTheDatastore ==
  overlapped \/ \A g \in Gen : republisher[g] \in {"round", "stopping"} => datastore

(* Two republishers never run at a time, however calls overlap: they would *)
(* publish the same keys side by side (see OneValuePerSequence of Ipns).   *)
OneRepublisher ==
  \A g, h \in Gen : Republishing(g) /\ Republishing(h) => g = h

(* Every start() and stop() is answered, however they overlap. *)
CallsAnswered == \A t \in Callers : at[t] # "idle" ~> at[t] = "idle"
=============================================================================
