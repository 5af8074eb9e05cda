------------------------------ MODULE Service ------------------------------
(***************************************************************************)
(* utils/service.js: the state machine that starts and stops an           *)
(* asynchronous sub-system once.  A node has one of them, for its network *)
(* (components/network.js); every component that needs libp2p or bitswap  *)
(* goes through use() or try().                                           *)
(*                                                                        *)
(* JavaScript runs one task at a time, so one action is one synchronous   *)
(* segment of a method, from its start or an await to the next await.  An *)
(* activation g stands for the g-th call of activate(): for its promise   *)
(* and for the value (a Network) the promise resolves to.                 *)
(***************************************************************************)
EXTENDS Naturals, FiniteSets

CONSTANTS
  Callers,         \* the tasks that call the methods; each one has at most one call under way
  MaxActivations   \* bound: how many times activate() is called

ASSUME ServiceAssumption == MaxActivations \in Nat

VARIABLES
  state,       \* service.state; gen names the `ready` or the `value` it holds
  activation,  \* how far the promise of each activate() call is
  instance,    \* whether the value of an activation is running
  call,        \* what each task is doing, and how its last call ended
  overwritten  \* history: whether the end of a stop() has overwritten the state that
               \* a newer start() had set

vars == <<state, activation, instance, call, overwritten>>

Gen == 1 .. MaxActivations
NoGen == 0

Idle(outcome, g) == [op |-> "none", at |-> "idle", gen |-> g, outcome |-> outcome]
Busy(op, at, g) == [op |-> op, at |-> at, gen |-> g, outcome |-> "pending"]

Stopped == [status |-> "stopped", gen |-> NoGen]

Ops == {"none", "start", "stop", "use"}
Outcomes == {"none", "pending", "ok", "already", "notStarted", "failed", "timeout"}
At == {"idle", "activating", "awaitReady", "deactivating"}

(* Every variable has its type.  The status 'stopping' of ServiceState is *)
(* missing on purpose: no statement of service.js assigns it.             *)
TypeOK ==
  /\ state \in [status : {"stopped", "starting", "started"}, gen : Gen \cup {NoGen}]
  /\ activation \in [Gen -> {"none", "pending", "resolved", "rejected"}]
  /\ instance \in [Gen -> {"none", "up", "down"}]
  /\ call \in [Callers -> [op : Ops, at : At, gen : Gen \cup {NoGen}, outcome : Outcomes]]
  /\ overwritten \in BOOLEAN

Init ==
  /\ state = Stopped
  /\ activation = [g \in Gen |-> "none"]
  /\ instance = [g \in Gen |-> "none"]
  /\ call = [c \in Callers |-> Idle("none", NoGen)]
  /\ overwritten = FALSE

-----------------------------------------------------------------------------
(* Service.start                                                          *)

(* Faulty variant: only 'started' is refused, not 'starting'. *)
FaultyStartActivates(c) ==
  /\ call[c].at = "idle"
  /\ state.status # "started"
  /\ \E g \in Gen :
       /\ activation[g] = "none"
       /\ \A h \in Gen : h < g => activation[h] # "none"
       /\ state' = [status |-> "starting", gen |-> g]
       /\ activation' = [activation EXCEPT ![g] = "pending"]
       /\ call' = [call EXCEPT ![c] = Busy("start", "activating", g)]
  /\ UNCHANGED <<instance, overwritten>>

(* Status 'stopped': activate() is called and the state becomes 'starting' *)
(* with its promise, without an await in between.                         *)
StartActivates(c) ==
  /\ call[c].at = "idle"
  /\ state.status = "stopped"
  /\ \E g \in Gen :
       /\ activation[g] = "none"
       /\ \A h \in Gen : h < g => activation[h] # "none"
       /\ state' = [status |-> "starting", gen |-> g]
       /\ activation' = [activation EXCEPT ![g] = "pending"]
       /\ call' = [call EXCEPT ![c] = Busy("start", "activating", g)]
  /\ UNCHANGED <<instance, overwritten>>

(* Status 'starting' or 'started': AlreadyStartingError, AlreadyStartedError. *)
StartRefused(c) ==
  /\ call[c].at = "idle"
  /\ state.status \in {"starting", "started"}
  /\ call' = [call EXCEPT ![c] = Idle("already", NoGen)]
  /\ UNCHANGED <<state, activation, instance, overwritten>>

(* The promise resolves.  start() was the first to await it, so its       *)
(* continuation runs before that of any stop() or use() that waits for it. *)
ActivationResolves(c) ==
  /\ call[c].at = "activating"
  /\ activation' = [activation EXCEPT ![call[c].gen] = "resolved"]
  /\ instance' = [instance EXCEPT ![call[c].gen] = "up"]
  /\ state' = [status |-> "started", gen |-> call[c].gen]
  /\ call' = [call EXCEPT ![c] = Idle("ok", call[c].gen)]
  /\ UNCHANGED overwritten

(* Faulty variant: a failed start leaves a status no method knows. *)
FaultyActivationRejects(c) ==
  /\ call[c].at = "activating"
  /\ activation' = [activation EXCEPT ![call[c].gen] = "rejected"]
  /\ state' = [status |-> "failed", gen |-> NoGen]
  /\ call' = [call EXCEPT ![c] = Idle("failed", call[c].gen)]
  /\ UNCHANGED <<instance, overwritten>>

(* The promise rejects: the catch clause puts the service back in 'stopped'. *)
ActivationRejects(c) ==
  /\ call[c].at = "activating"
  /\ activation' = [activation EXCEPT ![call[c].gen] = "rejected"]
  /\ state' = Stopped
  /\ call' = [call EXCEPT ![c] = Idle("failed", call[c].gen)]
  /\ UNCHANGED <<instance, overwritten>>

-----------------------------------------------------------------------------
(* Service.stop                                                           *)

(* The switch of stop(): it runs when stop() is called and again when the *)
(* promise it waited for has settled.  In 'started' the state stays       *)
(* 'started' while deactivate() runs.                                     *)
StopDispatch(c) ==
  /\ call' = [call EXCEPT ![c] =
       CASE state.status = "stopped"  -> Idle("ok", NoGen)
         [] state.status = "starting" -> Busy("stop", "awaitReady", state.gen)
         [] OTHER                     -> Busy("stop", "deactivating", state.gen)]
  /\ UNCHANGED <<state, activation, instance, overwritten>>

StopCalled(c) ==
  /\ call[c].at = "idle"
  /\ StopDispatch(c)

(* Faulty variants: the stop does not dispatch again, so it forgets what   *)
(* the start brought up; the error of the start is not swallowed, so the  *)
(* continuation never runs.                                               *)
FaultyStopRetries(c) ==
  /\ call[c].op = "stop" /\ call[c].at = "awaitReady"
  /\ activation[call[c].gen] # "pending"
  /\ call' = [call EXCEPT ![c] = Idle("ok", NoGen)]
  /\ UNCHANGED <<state, activation, instance, overwritten>>

FaultyStopRetriesOnSuccess(c) ==
  /\ call[c].op = "stop" /\ call[c].at = "awaitReady"
  /\ activation[call[c].gen] = "resolved"
  /\ StopDispatch(c)

(* The wait ends however the start ended: its error is swallowed. *)
StopRetries(c) ==
  /\ call[c].op = "stop" /\ call[c].at = "awaitReady"
  /\ activation[call[c].gen] # "pending"
  /\ StopDispatch(c)

(* Faulty variant: the service counts as stopped even when deactivate()    *)
(* failed half way.                                                       *)
FaultyDeactivationFails(c) ==
  /\ call[c].at = "deactivating"
  /\ state' = Stopped
  /\ call' = [call EXCEPT ![c] = Idle("failed", call[c].gen)]
  /\ UNCHANGED <<activation, instance, overwritten>>

(* deactivate() has finished: the state becomes 'stopped', whatever it was: *)
(* another stop() may have ended before, and a start() been called since.  *)
Deactivated(c) ==
  /\ call[c].at = "deactivating"
  /\ instance' = [instance EXCEPT ![call[c].gen] = "down"]
  /\ state' = Stopped
  /\ overwritten' = (overwritten \/ state \notin {Stopped, [status |-> "started", gen |-> call[c].gen]})
  /\ call' = [call EXCEPT ![c] = Idle("ok", call[c].gen)]
  /\ UNCHANGED activation

(* deactivate() has thrown: stop() throws and the state stays as it is. *)
DeactivationFails(c) ==
  /\ call[c].at = "deactivating"
  /\ call' = [call EXCEPT ![c] = Idle("failed", call[c].gen)]
  /\ UNCHANGED <<state, activation, instance, overwritten>>

-----------------------------------------------------------------------------
(* Service.use, which returns what Service.try returns when that is a value *)

UseCalled(c) ==
  /\ call[c].at = "idle"
  /\ call' = [call EXCEPT ![c] =
       CASE state.status = "stopped"  -> Idle("notStarted", NoGen)
         [] state.status = "starting" -> Busy("use", "awaitReady", state.gen)
         [] OTHER                     -> Idle("ok", state.gen)]
  /\ UNCHANGED <<state, activation, instance, overwritten>>

UseSettles(c) ==
  /\ call[c].op = "use" /\ call[c].at = "awaitReady"
  /\ activation[call[c].gen] # "pending"
  /\ call' = [call EXCEPT ![c] =
       Idle(IF activation[call[c].gen] = "resolved" THEN "ok" ELSE "failed", call[c].gen)]
  /\ UNCHANGED <<state, activation, instance, overwritten>>

(* withTimeout(state.ready, options) loses the race against the timer. *)
UseTimesOut(c) ==
  /\ call[c].op = "use" /\ call[c].at = "awaitReady"
  /\ call' = [call EXCEPT ![c] = Idle("timeout", NoGen)]
  /\ UNCHANGED <<state, activation, instance, overwritten>>

-----------------------------------------------------------------------------

Next ==
  \E c \in Callers :
    \/ StartActivates(c) \/ StartRefused(c) \/ ActivationResolves(c) \/ ActivationRejects(c)
    \/ StopCalled(c) \/ StopRetries(c) \/ Deactivated(c) \/ DeactivationFails(c)
    \/ UseCalled(c) \/ UseSettles(c) \/ UseTimesOut(c)

Spec == Init /\ [][Next]_vars

(* Promises settle and continuations run; nobody is obliged to make a call. *)
Fairness ==
  \A c \in Callers :
    /\ WF_vars(ActivationResolves(c) \/ ActivationRejects(c))
    /\ WF_vars(Deactivated(c) \/ DeactivationFails(c))
    /\ WF_vars(StopRetries(c))
    /\ WF_vars(UseSettles(c))

FairSpec == Spec /\ Fairness

-----------------------------------------------------------------------------
(* Properties                                                             *)

(* No leak: a network that is up is the one the service holds, so a later  *)
(* stop() reaches it.  Any task may call stop(), several at a time, while  *)
(* others start and use the service.  What the code does not prevent is    *)
(* named by `overwritten`: of two stop() that deactivate one network the   *)
(* later ends after the next start() and puts the service in 'stopped'.    *)
(* (The comments at service.js:75 and :111 say otherwise.)                 *)
NoLeakedInstance ==
  ~overwritten => \A g \in Gen : instance[g] = "up" => state = [status |-> "started", gen |-> g]

(* Two networks are never being brought up at the same time: an activation *)
(* that is pending is the one the service is waiting for, unless a stop()  *)
(* has overwritten its state.                                             *)
OneActivation ==
  ~overwritten => \A g \in Gen : activation[g] = "pending" => state = [status |-> "starting", gen |-> g]

(* A stop() that returns leaves the service stopped with nothing running,  *)
(* even when it had to wait for a start() and dispatch again, or when      *)
(* another stop() was faster.                                             *)
StopStops ==
  [][\A c \in Callers :
       (call[c].op = "stop" /\ call'[c].outcome = "ok" /\ ~overwritten')
         => /\ state'.status = "stopped"
            /\ \A g \in Gen : instance'[g] # "up" /\ activation'[g] # "pending"]_vars

(* Every call that waits is answered: no stop() or use() hangs on a promise *)
(* that belongs to an activation which is long over.                      *)
CallsReturn == \A c \in Callers : call[c].at # "idle" ~> call[c].at = "idle"
=============================================================================
