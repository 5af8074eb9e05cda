--------------------------- MODULE RepoInitProofs ---------------------------
(***************************************************************************)
(* Theorems about create(), for any processes, identities and options.    *)
(***************************************************************************)
EXTENDS RepoInit, TLAPS

Making == {"reopen", "key", "dek", "emptyDir", "assets", "keyspace"}
Creating == {"open", "configure", "configured", "exists", "init", "version"} \cup Making

(* Holds always: who has opened the repo holds its lock, and what is said  *)
(* to be initialised has a config.                                        *)
LockInv ==
  /\ version => config # None
  /\ self # None \/ emptyDir \/ assets \/ keyspace # None => version
  /\ \A n \in Nodes :
       /\ at[n] \in {"configure", "configured", "key", "dek", "emptyDir", "assets", "keyspace", "running"} => lock = n
       /\ at[n] = "version" => config # None
       /\ at[n] \in {"configure", "configured", "running"} \cup Making => version
       /\ at[n] \in {"configured", "init", "version"} \cup Making => peer[n] \in Identities
       /\ at[n] # "out" => empty[n] \in EmptyRepo

(* Holds while no two create() were under way at a time: the identity in   *)
(* the config is that of the process that writes it, and of all that came *)
(* after the version was written.                                         *)
IdentityInv ==
  ~raced =>
    /\ \A m, n \in Nodes : at[m] \in Creating /\ at[n] \in Creating => m = n
    /\ \A n \in Nodes :
         /\ at[n] \in {"init", "version"} => ~version
         /\ at[n] = "reopen" => \A m \in Nodes : at[m] # "running"
         /\ at[n] \in {"configured", "version", "running"} \cup Making => config = peer[n]
    /\ owner # None => version /\ config = owner
    /\ ~replaced => self \in {None, config} /\ keyspace \in {None, config}

Everything == self # None /\ dek /\ emptyDir /\ assets /\ keyspace # None
Nothing == ~emptyDir /\ ~assets /\ keyspace = None

(* Holds while, besides, no create() was cut off: what has been made so    *)
(* far, by a create() that is making it, and what there is after it.      *)
ProgressInv ==
  ~raced /\ ~interrupted =>
    /\ \A n \in Nodes :
         /\ at[n] \in {"reopen", "key", "dek", "emptyDir"} => Nothing
         /\ at[n] \in {"dek", "emptyDir", "assets", "keyspace"} => self # None
         /\ at[n] \in {"emptyDir", "assets", "keyspace"} => dek
         /\ at[n] \in {"assets", "keyspace"} => emptyDir
         /\ at[n] = "keyspace" => assets
    /\ version /\ (\A n \in Nodes : at[n] \notin Making) =>
         Everything \/ (self # None /\ dek /\ Nothing /\ TRUE \in EmptyRepo)

IInv == TypeOK /\ LockInv /\ IdentityInv /\ ProgressInv

LEMMA InitIInv == Init => IInv
  BY RepoInitAssumption
     DEF Init, IInv, TypeOK, LockInv, IdentityInv, ProgressInv, Creating, Making

LEMMA StepIInv == IInv /\ [Next]_vars => IInv'
<1> SUFFICES ASSUME IInv, [Next]_vars PROVE IInv'
  OBVIOUS
<1> USE RepoInitAssumption DEF IInv
<1>1. ASSUME NEW n \in Nodes, Create(n) PROVE IInv'
  <2>1. TypeOK'
    BY <1>1 DEF Create, Goes, disk, options, TypeOK, LockInv
  <2>2. LockInv'
    BY <1>1 DEF Create, Goes, disk, options, TypeOK, LockInv, Making
  <2>3. IdentityInv'
    <3> SUFFICES ASSUME ~raced' PROVE IdentityInv'
      BY DEF IdentityInv
    <3>1. ~raced /\ \A m \in Nodes : at[m] \in {"out", "running"}
      BY <1>1 DEF Create
    <3>2. at' = [at EXCEPT ![n] = "open"] /\ UNCHANGED <<disk, peer, owner, replaced>>
      BY <1>1 DEF Create, Goes
    <3> QED
      BY <3>1, <3>2 DEF disk, options, TypeOK, IdentityInv, Creating, Making
  <2>4. ProgressInv'
    BY <1>1 DEF Create, Goes, disk, options, TypeOK, LockInv, IdentityInv, ProgressInv, Everything, Nothing, Creating, Making
  <2> QED
    BY <2>1, <2>2, <2>3, <2>4
<1>2. ASSUME NEW n \in Nodes, LoadRepo(n) PROVE IInv'
  <2>1. TypeOK'
    BY <1>2 DEF LoadRepo, Goes, Opens, Initialised, history, options, TypeOK, LockInv
  <2>2. LockInv'
    BY <1>2 DEF LoadRepo, Goes, Opens, Initialised, history, options, TypeOK, LockInv, Making
  <2>3. IdentityInv'
    BY <1>2 DEF LoadRepo, Goes, Opens, Initialised, history, options, TypeOK, LockInv, IdentityInv, Creating, Making
  <2>4. ProgressInv'
    <3>1. /\ at[n] = "open" /\ at'[n] \in {"configure", "exists"}
          /\ \A m \in Nodes \ {n} : at'[m] = at[m]
          /\ UNCHANGED <<config, version, dek, self, emptyDir, assets, keyspace, interrupted, raced>>
      BY <1>2 DEF LoadRepo, Goes, history, options, TypeOK
    <3> QED
      BY <3>1 DEF ProgressInv, Everything, Nothing, Making
  <2> QED
    BY <2>1, <2>2, <2>3, <2>4
<1>3. ASSUME NEW n \in Nodes, ConfigureRepo(n) PROVE IInv'
  <2>1. TypeOK'
    BY <1>3 DEF ConfigureRepo, Configures, Goes, Returns, disk, options, TypeOK, LockInv
  <2>2. LockInv'
    BY <1>3 DEF ConfigureRepo, Configures, Goes, Returns, disk, options, TypeOK, LockInv, Making
  <2>3. IdentityInv'
    BY <1>3 DEF ConfigureRepo, Configures, Goes, Returns, disk, options, TypeOK, LockInv, IdentityInv, Creating, Making
  <2>4. ProgressInv'
    BY <1>3 DEF ConfigureRepo, Configures, Goes, Returns, disk, options, TypeOK, LockInv, IdentityInv, ProgressInv, Everything, Nothing, Creating, Making
  <2> QED
    BY <2>1, <2>2, <2>3, <2>4
<1>4. ASSUME NEW n \in Nodes, VerifyNew(n) PROVE IInv'
  <2>1. TypeOK'
    BY <1>4 DEF VerifyNew, Goes, disk, options, TypeOK, LockInv
  <2>2. LockInv'
    BY <1>4 DEF VerifyNew, Goes, disk, options, TypeOK, LockInv, Making
  <2>3. IdentityInv'
    BY <1>4 DEF VerifyNew, Goes, disk, options, TypeOK, LockInv, IdentityInv, Creating, Making
  <2>4. ProgressInv'
    BY <1>4 DEF VerifyNew, Goes, disk, options, TypeOK, LockInv, IdentityInv, ProgressInv, Everything, Nothing, Creating, Making
  <2> QED
    BY <2>1, <2>2, <2>3, <2>4
<1>5. ASSUME NEW n \in Nodes, WriteConfig(n) PROVE IInv'
  <2>1. TypeOK'
    BY <1>5 DEF WriteConfig, Goes, history, options, TypeOK, LockInv
  <2>2. LockInv'
    BY <1>5 DEF WriteConfig, Goes, history, options, TypeOK, LockInv, Making
  <2>3. IdentityInv'
    BY <1>5 DEF WriteConfig, Goes, history, options, TypeOK, LockInv, IdentityInv, Creating, Making
  <2>4. ProgressInv'
    BY <1>5 DEF WriteConfig, Goes, history, options, TypeOK, LockInv, IdentityInv, ProgressInv, Everything, Nothing, Creating, Making
  <2> QED
    BY <2>1, <2>2, <2>3, <2>4
<1>6. ASSUME NEW n \in Nodes, WriteVersion(n) PROVE IInv'
  <2>1. TypeOK'
    BY <1>6 DEF WriteVersion, Goes, history, options, TypeOK, LockInv
  <2>2. LockInv'
    BY <1>6 DEF WriteVersion, Goes, history, options, TypeOK, LockInv, Making
  <2>3. IdentityInv'
    BY <1>6 DEF WriteVersion, Goes, history, options, TypeOK, LockInv, IdentityInv, Creating, Making
  <2>4. ProgressInv'
    BY <1>6 DEF WriteVersion, Goes, history, options, TypeOK, LockInv, IdentityInv, ProgressInv, Everything, Nothing, Creating, Making
  <2> QED
    BY <2>1, <2>2, <2>3, <2>4
<1>7. ASSUME NEW n \in Nodes, OpenNew(n) PROVE IInv'
  <2>1. TypeOK'
    BY <1>7 DEF OpenNew, Goes, Opens, history, options, TypeOK, LockInv
  <2>2. LockInv'
    BY <1>7 DEF OpenNew, Goes, Opens, history, options, TypeOK, LockInv, Making
  <2>3. IdentityInv'
    BY <1>7 DEF OpenNew, Goes, Opens, history, options, TypeOK, LockInv, IdentityInv, Creating, Making
  <2>4. ProgressInv'
    BY <1>7 DEF OpenNew, Goes, Opens, history, options, TypeOK, LockInv, IdentityInv, ProgressInv, Everything, Nothing, Creating, Making
  <2> QED
    BY <2>1, <2>2, <2>3, <2>4
<1>8. ASSUME NEW n \in Nodes, ImportSelf(n) PROVE IInv'
  <2>1. TypeOK'
    BY <1>8 DEF ImportSelf, Goes, history, options, TypeOK, LockInv
  <2>2. LockInv'
    BY <1>8 DEF ImportSelf, Goes, history, options, TypeOK, LockInv, Making
  <2>3. IdentityInv'
    BY <1>8 DEF ImportSelf, Goes, history, options, TypeOK, LockInv, IdentityInv, Creating, Making
  <2>4. ProgressInv'
    BY <1>8 DEF ImportSelf, Goes, history, options, TypeOK, LockInv, IdentityInv, ProgressInv, Everything, Nothing, Creating, Making
  <2> QED
    BY <2>1, <2>2, <2>3, <2>4
<1>9. ASSUME NEW n \in Nodes, StoreDek(n) PROVE IInv'
  <2>1. TypeOK'
    BY <1>9 DEF StoreDek, Goes, Returns, options, TypeOK, LockInv
  <2>2. LockInv'
    BY <1>9 DEF StoreDek, Goes, Returns, options, TypeOK, LockInv, Making
  <2>3. IdentityInv'
    BY <1>9 DEF StoreDek, Goes, Returns, options, TypeOK, LockInv, IdentityInv, Creating, Making
  <2>4. ProgressInv'
    BY <1>9 DEF StoreDek, Goes, Returns, options, TypeOK, LockInv, IdentityInv, ProgressInv, Everything, Nothing, Creating, Making
  <2> QED
    BY <2>1, <2>2, <2>3, <2>4
<1>10. ASSUME NEW n \in Nodes, AddEmptyDir(n) PROVE IInv'
  <2>1. TypeOK'
    BY <1>10 DEF AddEmptyDir, Goes, history, options, TypeOK, LockInv
  <2>2. LockInv'
    BY <1>10 DEF AddEmptyDir, Goes, history, options, TypeOK, LockInv, Making
  <2>3. IdentityInv'
    BY <1>10 DEF AddEmptyDir, Goes, history, options, TypeOK, LockInv, IdentityInv, Creating, Making
  <2>4. ProgressInv'
    BY <1>10 DEF AddEmptyDir, Goes, history, options, TypeOK, LockInv, IdentityInv, ProgressInv, Everything, Nothing, Creating, Making
  <2> QED
    BY <2>1, <2>2, <2>3, <2>4
<1>11. ASSUME NEW n \in Nodes, InitAssets(n) PROVE IInv'
  <2>1. TypeOK'
    BY <1>11 DEF InitAssets, Goes, history, options, TypeOK, LockInv
  <2>2. LockInv'
    BY <1>11 DEF InitAssets, Goes, history, options, TypeOK, LockInv, Making
  <2>3. IdentityInv'
    BY <1>11 DEF InitAssets, Goes, history, options, TypeOK, LockInv, IdentityInv, Creating, Making
  <2>4. ProgressInv'
    BY <1>11 DEF InitAssets, Goes, history, options, TypeOK, LockInv, IdentityInv, ProgressInv, Everything, Nothing, Creating, Making
  <2> QED
    BY <2>1, <2>2, <2>3, <2>4
<1>12. ASSUME NEW n \in Nodes, InitializeKeyspace(n) PROVE IInv'
  <2>1. TypeOK'
    BY <1>12 DEF InitializeKeyspace, Goes, Returns, options, TypeOK, LockInv
  <2>2. LockInv'
    BY <1>12 DEF InitializeKeyspace, Goes, Returns, options, TypeOK, LockInv, Making
  <2>3. IdentityInv'
    BY <1>12 DEF InitializeKeyspace, Goes, Returns, options, TypeOK, LockInv, IdentityInv, Creating, Making
  <2>4. ProgressInv'
    BY <1>12 DEF InitializeKeyspace, Goes, Returns, options, TypeOK, LockInv, IdentityInv, ProgressInv, Everything, Nothing, Creating, Making
  <2> QED
    BY <2>1, <2>2, <2>3, <2>4
<1>13. ASSUME NEW n \in Nodes, Fails(n) PROVE IInv'
  <2>1. TypeOK'
    BY <1>13 DEF Fails, Rejects, disk, options, TypeOK, LockInv
  <2>2. LockInv'
    BY <1>13 DEF Fails, Rejects, disk, options, TypeOK, LockInv, Making
  <2>3. IdentityInv'
    BY <1>13 DEF Fails, Rejects, disk, options, TypeOK, LockInv, IdentityInv, Creating, Making
  <2>4. ProgressInv'
    BY <1>13 DEF Fails, Rejects, disk, options, TypeOK, LockInv, IdentityInv, ProgressInv, Everything, Nothing, Creating, Making
  <2> QED
    BY <2>1, <2>2, <2>3, <2>4
<1>14. ASSUME NEW n \in Nodes, Stop(n) PROVE IInv'
  <2>1. TypeOK'
    BY <1>14 DEF Stop, Goes, history, options, TypeOK, LockInv
  <2>2. LockInv'
    BY <1>14 DEF Stop, Goes, history, options, TypeOK, LockInv, Making
  <2>3. IdentityInv'
    BY <1>14 DEF Stop, Goes, history, options, TypeOK, LockInv, IdentityInv, Creating, Making
  <2>4. ProgressInv'
    BY <1>14 DEF Stop, Goes, history, options, TypeOK, LockInv, IdentityInv, ProgressInv, Everything, Nothing, Creating, Making
  <2> QED
    BY <2>1, <2>2, <2>3, <2>4
<1>15. ASSUME NEW n \in Nodes, Crash(n) PROVE IInv'
  <2>1. TypeOK'
    BY <1>15 DEF Crash, options, TypeOK, LockInv
  <2>2. LockInv'
    BY <1>15 DEF Crash, options, TypeOK, LockInv, Making
  <2>3. IdentityInv'
    BY <1>15 DEF Crash, options, TypeOK, LockInv, IdentityInv, Creating, Making
  <2>4. ProgressInv'
    BY <1>15 DEF Crash, options, TypeOK, LockInv, IdentityInv, ProgressInv, Everything, Nothing, Creating, Making
  <2> QED
    BY <2>1, <2>2, <2>3, <2>4
<1>17. ASSUME NEW n \in Nodes, Configured(n) PROVE IInv'
  <2>1. TypeOK'
    BY <1>17 DEF Configured, Goes, Returns, disk, options, TypeOK, LockInv
  <2>2. LockInv'
    BY <1>17 DEF Configured, Goes, Returns, disk, options, TypeOK, LockInv, Making
  <2>3. IdentityInv'
    BY <1>17 DEF Configured, Goes, Returns, disk, options, TypeOK, LockInv, IdentityInv, Creating, Making
  <2>4. ProgressInv'
    BY <1>17 DEF Configured, Goes, Returns, disk, options, TypeOK, LockInv, IdentityInv, ProgressInv, Everything, Nothing, Creating, Making
  <2> QED
    BY <2>1, <2>2, <2>3, <2>4
<1>16. CASE UNCHANGED vars
  BY <1>16 DEF vars, disk, history, options, TypeOK, LockInv, IdentityInv, ProgressInv, Everything, Nothing
<1> QED
  BY <1>1, <1>2, <1>3, <1>4, <1>5, <1>6, <1>7, <1>8, <1>9, <1>10, <1>11, <1>12, <1>13, <1>14, <1>15, <1>16, <1>17 DEF Next

LEMMA AlwaysIInv == Spec => []IInv
  BY InitIInv, StepIInv, PTL DEF Spec

(* Disk and processes keep their types. *)
THEOREM TypeCorrect == Spec => []TypeOK
<1>1. IInv => TypeOK
  BY DEF IInv
<1> QED
  BY <1>1, AlwaysIInv, PTL

(* However often create() is cut off and called again, the config has the   *)
(* identity that the first create() to return has had or, after it, the    *)
(* last one that options.config has brought along (storage.js:238-249),    *)
(* as long as no two create() are under way at a time.                     *)
THEOREM IdentityLasts == Spec => []IdentityKept
<1>1. IInv => IdentityKept
  BY DEF IInv, IdentityInv, IdentityKept
<1> QED
  BY <1>1, AlwaysIInv, PTL

(* The config has the identity the node runs with; so have the key "self"  *)
(* and the IPNS name that create() leaves, unless an identity given in     *)
(* options.config has replaced another one, which leaves these two alone.  *)
THEOREM SelfAgrees == Spec => []SelfIsTheNode
<1>1. IInv => SelfIsTheNode
  BY DEF IInv, TypeOK, LockInv, IdentityInv, SelfIsTheNode, Creating, Making
<1> QED
  BY <1>1, AlwaysIInv, PTL

(* A repo on which no create() was cut off has the key "self", the DEK and, *)
(* unless it was to be empty, all else that components/index.js adds.      *)
THEOREM CompleteAfterAll == Spec => []CompleteUnlessCutOff
<1>1. ASSUME IInv PROVE CompleteUnlessCutOff
  <2> SUFFICES ASSUME NEW n \in Nodes, at[n] = "running", ~interrupted, ~raced
               PROVE  /\ self # None /\ dek
                      /\ \/ emptyDir /\ assets /\ keyspace # None
                         \/ ~emptyDir /\ ~assets /\ keyspace = None /\ TRUE \in EmptyRepo
    BY DEF CompleteUnlessCutOff
  <2>1. version /\ lock = n /\ config = peer[n]
    BY <1>1 DEF IInv, LockInv, IdentityInv
  <2>2. \A m \in Nodes : at[m] \notin Making
    BY <1>1, <2>1 DEF IInv, LockInv, IdentityInv, Making
  <2> QED
    BY <1>1, <2>1, <2>2 DEF IInv, ProgressInv, Everything, Nothing
<1> QED
  BY <1>1, AlwaysIInv, PTL
=============================================================================
