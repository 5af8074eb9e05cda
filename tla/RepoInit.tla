------------------------------ MODULE RepoInit ------------------------------
(***************************************************************************)
(* IPFS.create() on the repo at one path (components/index.js,            *)
(* components/storage.js): the repo is opened and configured or, when it   *)
(* is not initialised, initialised in several steps, each of which is on  *)
(* the disk when the next one begins.  Processes crash and call create()  *)
(* again; two processes may be told to use the same path.                 *)
(***************************************************************************)
EXTENDS Naturals, FiniteSets

CONSTANTS
  Nodes,       \* the processes
  Identities,  \* the key pairs that are generated or given as init.privateKey
  Given,       \* those that options.config may bring along as its Identity
  None,
  EmptyRepo    \* what init.emptyRepo may be

ASSUME RepoInitAssumption ==
  None \notin Identities \cup Nodes /\ Given \subseteq Identities /\ EmptyRepo \subseteq BOOLEAN

VARIABLES
  \* on the disk
  config,       \* the Identity in the config, None when there is no config
  version,      \* whether the version file is there, which says "initialised"
  dek,          \* whether the config has the DEK of the keychain
  self,         \* the identity that the key "self" of the keychain holds
  emptyDir,     \* whether the empty directory is there and pinned
  assets,       \* whether the default assets are there
  keyspace,     \* the identity whose IPNS name stands for the empty directory
  lock,         \* the process that holds the repo.lock
  \* in the processes
  at,           \* where create() is; "running" when it has returned
  peer,         \* the identity a node runs with
  empty,        \* init.emptyRepo
  given,        \* options.config.Identity, or None
  \* history
  used,         \* the identities that were generated
  owner,        \* the identity the first create() that returned has had, or a later one was given
  replaced,     \* whether an identity that was given has taken the place of another one
  interrupted,  \* whether a create() crashed or failed
  raced         \* whether a create() was called while another one was under way

disk == <<config, version, dek, self, emptyDir, assets, keyspace, lock>>
options == <<empty, given>>
history == <<used, owner, replaced, interrupted, raced>>
vars == <<disk, at, peer, options, history>>

Init ==
  /\ config = None /\ version = FALSE /\ dek = FALSE /\ self = None
  /\ emptyDir = FALSE /\ assets = FALSE /\ keyspace = None /\ lock = None
  /\ at = [n \in Nodes |-> "out"] /\ peer = [n \in Nodes |-> None]
  /\ empty = [n \in Nodes |-> FALSE] /\ given = [n \in Nodes |-> None]
  /\ used = {} /\ owner = None /\ replaced = FALSE /\ interrupted = FALSE /\ raced = FALSE

Goes(n, from, to) == at[n] = from /\ at' = [at EXCEPT ![n] = to]

(* create() rejects.  Nothing closes a repo that was opened. *)
Rejects(n) ==
  /\ at' = [at EXCEPT ![n] = "out"]
  /\ peer' = [peer EXCEPT ![n] = None]
  /\ interrupted' = TRUE

Returns(n, identity) == owner' = IF owner = None THEN identity ELSE owner

Create(n) ==
  /\ Goes(n, "out", "open")
  /\ raced' = (raced \/ \E m \in Nodes : at[m] \notin {"out", "running"})
  /\ \E e \in EmptyRepo : empty' = [empty EXCEPT ![n] = e]
  /\ \E i \in Given \cup {None} : given' = [given EXCEPT ![n] = i]
  /\ UNCHANGED <<disk, peer, used, owner, replaced, interrupted>>

(* repo.open() of ipfs-repo (external): the repo is initialised and the    *)
(* lock is free.                                                          *)
Initialised == config # None /\ version

Opens(n) == lock = None /\ lock' = n

(* loadRepo: the repo opens, or it is not initialised and may be. *)
LoadRepo(n) ==
  /\ \/ Initialised /\ Opens(n) /\ Goes(n, "open", "configure")
     \/ ~Initialised /\ Goes(n, "open", "exists") /\ UNCHANGED lock
  /\ UNCHANGED <<config, version, dek, self, emptyDir, assets, keyspace, peer, options, history>>

(* What configureRepo writes and goes on with. *)
Configures(n, identity) ==
  /\ Goes(n, "configure", "configured")
  /\ config' = identity /\ peer' = [peer EXCEPT ![n] = identity]
  /\ owner' = IF owner # None /\ given[n] # None THEN given[n] ELSE owner
  /\ replaced' = (replaced \/ given[n] \notin {None, config})
  /\ UNCHANGED <<version, dek, self, emptyDir, assets, keyspace, lock, options, interrupted, raced>>

(* Faulty variant: without an identity in the options a new one is made. *)
FaultyConfigureRepo(n) ==
  \/ given[n] # None /\ Configures(n, given[n]) /\ UNCHANGED used
  \/ given[n] = None /\ \E i \in Identities \ used : Configures(n, i) /\ used' = used \cup {i}

(* configureRepo: the config of the options is merged into that of the     *)
(* repo, which is replaced; an Identity in it replaces the one there was.  *)
ConfigureRepo(n) ==
  /\ Configures(n, IF given[n] = None THEN config ELSE given[n])
  /\ UNCHANGED used

(* The keychain is there and the rest of create() has not failed. *)
Configured(n) ==
  /\ Goes(n, "configured", "running")
  /\ Returns(n, peer[n])
  /\ UNCHANGED <<disk, peer, options, used, replaced, interrupted, raced>>

(* Faulty variant: the key "self" is imported before the repo is there. *)
FaultyVerifyNew(n) ==
  /\ Goes(n, "exists", "init")
  /\ ~version
  /\ \E i \in Identities \ used :
       /\ peer' = [peer EXCEPT ![n] = i] /\ used' = used \cup {i}
       /\ self' = IF self = None THEN i ELSE self
  /\ UNCHANGED <<config, version, dek, emptyDir, assets, keyspace, lock, options, owner, replaced, interrupted, raced>>

(* initRepo: "Verify that repo does not exist yet"; a key pair is made,    *)
(* whatever identity options.config may have.                             *)
VerifyNew(n) ==
  /\ Goes(n, "exists", "init")
  /\ ~version
  /\ \E i \in Identities \ used :
       peer' = [peer EXCEPT ![n] = i] /\ used' = used \cup {i}
  /\ UNCHANGED <<disk, options, owner, replaced, interrupted, raced>>

(* repo.init() of ipfs-repo (external) writes the config, then the version. *)
WriteConfig(n) ==
  /\ Goes(n, "init", "version")
  /\ config' = peer[n] /\ dek' = FALSE
  /\ UNCHANGED <<version, self, emptyDir, assets, keyspace, lock, peer, options, history>>

WriteVersion(n) ==
  /\ Goes(n, "version", "reopen")
  /\ version' = TRUE
  /\ UNCHANGED <<config, dek, self, emptyDir, assets, keyspace, lock, peer, options, history>>

OpenNew(n) ==
  /\ Goes(n, "reopen", "key")
  /\ Opens(n)
  /\ UNCHANGED <<config, version, dek, self, emptyDir, assets, keyspace, peer, options, history>>

(* The key "self" is imported unless there is one. *)
ImportSelf(n) ==
  /\ Goes(n, "key", "dek")
  /\ self' = IF self = None THEN peer[n] ELSE self
  /\ UNCHANGED <<config, version, dek, emptyDir, assets, keyspace, lock, peer, options, history>>

(* The DEK is stored: the repo is loaded, and it is new. *)
StoreDek(n) ==
  /\ Goes(n, "dek", IF empty[n] THEN "running" ELSE "emptyDir")
  /\ dek' = TRUE
  /\ IF empty[n] THEN Returns(n, peer[n]) ELSE UNCHANGED owner
  /\ UNCHANGED <<config, version, self, emptyDir, assets, keyspace, lock, peer, options, used, replaced, interrupted, raced>>

AddEmptyDir(n) ==
  /\ Goes(n, "emptyDir", "assets")
  /\ emptyDir' = TRUE
  /\ UNCHANGED <<config, version, dek, self, assets, keyspace, lock, peer, options, history>>

(* Faulty variant: the keyspace is left to the first name.publish. *)
FaultyInitAssets(n) ==
  /\ Goes(n, "assets", "running")
  /\ assets' = TRUE
  /\ Returns(n, peer[n])
  /\ UNCHANGED <<config, version, dek, self, emptyDir, keyspace, lock, peer, options, used, replaced, interrupted, raced>>

InitAssets(n) ==
  /\ Goes(n, "assets", "keyspace")
  /\ assets' = TRUE
  /\ UNCHANGED <<config, version, dek, self, emptyDir, keyspace, lock, peer, options, history>>

InitializeKeyspace(n) ==
  /\ Goes(n, "keyspace", "running")
  /\ keyspace' = peer[n]
  /\ Returns(n, peer[n])
  /\ UNCHANGED <<config, version, dek, self, emptyDir, assets, lock, peer, options, used, replaced, interrupted, raced>>

(* Any step may throw: the lock is held, the repo exists, allowNew is       *)
(* false, the disk is full, the network does not start.                   *)
Fails(n) ==
  /\ at[n] \notin {"out", "running"}
  /\ Rejects(n)
  /\ UNCHANGED <<disk, options, used, owner, replaced, raced>>

(* stop() closes the repo. *)
Stop(n) ==
  /\ Goes(n, "running", "out")
  /\ lock' = None
  /\ peer' = [peer EXCEPT ![n] = None]
  /\ UNCHANGED <<config, version, dek, self, emptyDir, assets, keyspace, options, history>>

(* Faulty variant: the lock of a process that is gone stays. *)
FaultyCrash(n) ==
  /\ at[n] # "out" \/ lock = n
  /\ at' = [at EXCEPT ![n] = "out"]
  /\ peer' = [peer EXCEPT ![n] = None]
  /\ lock' = IF lock = n THEN "stale" ELSE lock
  /\ interrupted' = (interrupted \/ at[n] \notin {"out", "running"})
  /\ UNCHANGED <<config, version, dek, self, emptyDir, assets, keyspace, options, used, owner, replaced, raced>>

(* A crash, or the end of the process: its lock is found to be stale. *)
Crash(n) ==
  /\ at[n] # "out" \/ lock = n
  /\ at' = [at EXCEPT ![n] = "out"]
  /\ peer' = [peer EXCEPT ![n] = None]
  /\ lock' = IF lock = n THEN None ELSE lock
  /\ interrupted' = (interrupted \/ at[n] \notin {"out", "running"})
  /\ UNCHANGED <<config, version, dek, self, emptyDir, assets, keyspace, options, used, owner, replaced, raced>>

Next ==
  \E n \in Nodes :
    \/ Create(n) \/ LoadRepo(n) \/ ConfigureRepo(n) \/ Configured(n)
    \/ VerifyNew(n) \/ WriteConfig(n) \/ WriteVersion(n) \/ OpenNew(n) \/ ImportSelf(n) \/ StoreDek(n)
    \/ AddEmptyDir(n) \/ InitAssets(n) \/ InitializeKeyspace(n)
    \/ Fails(n) \/ Stop(n) \/ Crash(n)

Spec == Init /\ [][Next]_vars

-----------------------------------------------------------------------------
(* Properties                                                             *)

TypeOK ==
  /\ config \in Identities \cup {None} /\ self \in Identities \cup {None}
  /\ keyspace \in Identities \cup {None} /\ lock \in Nodes \cup {None}
  /\ {version, dek, emptyDir, assets, replaced, interrupted, raced} \subseteq BOOLEAN
  /\ at \in [Nodes -> {"out", "open", "configure", "configured", "exists", "init", "version", "reopen", "key",
                       "dek", "emptyDir", "assets", "keyspace", "running"}]
  /\ peer \in [Nodes -> Identities \cup {None}]
  /\ empty \in [Nodes -> BOOLEAN] /\ given \in [Nodes -> Given \cup {None}]
  /\ used \subseteq Identities /\ owner \in Identities \cup {None}

(* A node keeps the identity that the first create() has given it, or that  *)
(* a later one was given for it in options.config, through all crashes of  *)
(* this and of later calls, unless two processes create it at a time:      *)
(* storage.js looks whether there is a repo and writes one before anything *)
(* is locked.                                                             *)
IdentityKept == owner # None /\ ~raced => config = owner

(* What runs is what is stored: the identity of the config is that of the  *)
(* node, and the key "self" of the keychain and the IPNS name made at the  *)
(* start belong to it, also when an earlier create() was cut off between   *)
(* two steps.  An identity that options.config has brought to a repo with  *)
(* another one replaces it in the config only (storage.js:243-246); the    *)
(* key and the name stay those of the old one and are exempt then.        *)
SelfIsTheNode ==
  \A n \in Nodes :
    at[n] = "running" /\ ~raced =>
      /\ config = peer[n]
      /\ replaced \/ (self \in {None, peer[n]} /\ keyspace \in {None, peer[n]})

(* A repo on which no create() was cut off has everything. *)
CompleteUnlessCutOff ==
  \A n \in Nodes :
    at[n] = "running" /\ ~interrupted /\ ~raced =>
      /\ self # None /\ dek
      /\ \/ emptyDir /\ assets /\ keyspace # None
         \/ ~emptyDir /\ ~assets /\ keyspace = None /\ TRUE \in EmptyRepo
=============================================================================
