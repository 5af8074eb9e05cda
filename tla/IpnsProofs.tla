----------------------------- MODULE IpnsProofs -----------------------------
(***************************************************************************)
(* Theorems about IPNS, for any keys, values, calls and initial routings. *)
(***************************************************************************)
EXTENDS Ipns, TLAPS

LEMMA CallsAndRepublisher == Procs = Calls \cup {"republisher"} /\ "republisher" \notin Calls
  BY IpnsAssumption DEF Procs

(* What a process has at hand in each phase of its publication. *)
Prepared(p) ==
  /\ at[p] \in {"read", "store", "put", "finish"} => job[p].key \in Keys /\ job[p].value \in Values
  /\ at[p] = "lookup" => job[p].key \in Keys
  /\ at[p] \in {"store", "put", "finish"} => made[p] \in Records
  /\ at[p] \in {"put", "finish"} =>
       made[p] \in stored[job[p].key] /\ local[job[p].key] # NoRecord
  /\ p \in Calls /\ outcome[p] = "pending" /\ request[p].op = "publish" =>
       at[p] \in {"read", "store", "put", "finish"}
  /\ p \in Calls /\ outcome[p] = "none" => at[p] = "idle"

(* What the timer and the handle say of the round. *)
RoundInv ==
  /\ timer = "armed" => handle = "running" /\ at["republisher"] = "idle"
  /\ at["republisher"] # "idle" => handle # "none"
  /\ handle = "running" => timer = "armed" \/ at["republisher"] # "idle"

Basics == TypeOK /\ (\A p \in Procs : Prepared(p)) /\ RoundInv

LEMMA NextRecordType ==
  ASSUME NEW last \in Records \cup {NoRecord}, NEW value \in Values
  PROVE  NextRecord(last, value) \in Records /\ NextRecord(last, value).value = value
  BY IpnsAssumption DEF NextRecord, Records

LEMMA InitBasics == Init => Basics
<1> SUFFICES ASSUME Init PROVE Basics
  OBVIOUS
<1> USE IpnsAssumption, CallsAndRepublisher DEF Init
<1>1. TypeOK
  <2>1. routing \in [Keys -> Records \cup {NoRecord}]
    OBVIOUS
  <2>2. stored \in [Keys -> SUBSET Records]
    BY <2>1
  <2> QED
    BY <2>1, <2>2 DEF TypeOK, NoJob
<1>2. \A p \in Procs : Prepared(p)
  BY DEF Prepared
<1>3. RoundInv
  BY DEF RoundInv
<1> QED
  BY <1>1, <1>2, <1>3 DEF Basics

(* A step of a publication, by a call or by the republisher. *)
LEMMA PublishStepsBasics ==
  ASSUME Basics, NEW p \in Procs, PublishSteps(p)
  PROVE  Basics'
<1> USE IpnsAssumption, CallsAndRepublisher
<1>1. at[p] \in {"read", "store", "put"} /\ job[p].key \in Keys /\ job[p].value \in Values
      /\ (at[p] # "read" => made[p] \in Records)
  BY DEF PublishSteps, Read, Store, Put, Basics, Prepared
<1>2. CASE Read(p)
  <2>1. LastRecord(job[p].key) \in Records \cup {NoRecord}
    BY <1>1 DEF LastRecord, Basics, TypeOK
  <2>2. made'[p] \in Records /\ made' \in [Procs -> Records \cup {NoRecord}]
    BY <1>1, <1>2, <2>1, NextRecordType DEF Read, Basics, TypeOK
  <2>3. TypeOK'
    BY <1>2, <2>2 DEF Read, Basics, TypeOK, stores, republisher, history
  <2>4. \A q \in Procs : Prepared(q)'
    BY <1>1, <1>2, <2>2 DEF Read, Basics, TypeOK, Prepared, stores, history
  <2>5. RoundInv'
    BY <1>2 DEF Read, Basics, TypeOK, RoundInv, republisher
  <2> QED
    BY <2>3, <2>4, <2>5 DEF Basics
<1>3. CASE Store(p)
  <2>1. made[p] \in Records /\ made[p] # NoRecord
    BY <1>1, <1>3 DEF Store
  <2>2. TypeOK'
    <3>1. local' \in [Keys -> Records \cup {NoRecord}] /\ stored' \in [Keys -> SUBSET Records]
      BY <1>1, <1>3, <2>1 DEF Store, Basics, TypeOK
    <3> QED
      BY <1>3, <3>1 DEF Store, Basics, TypeOK, republisher
  <2>3. \A q \in Procs : Prepared(q)'
    BY <1>1, <1>3, <2>1 DEF Store, Basics, TypeOK, Prepared
  <2>4. RoundInv'
    BY <1>3 DEF Store, Basics, TypeOK, RoundInv, republisher
  <2> QED
    BY <2>2, <2>3, <2>4 DEF Basics
<1>4. CASE Put(p)
  <2>1. TypeOK'
    <3>1. Selected(routing[job[p].key], made[p]) \in Records \cup {NoRecord}
      BY <1>1, <1>4 DEF Put, Selected, Basics, TypeOK
    <3> QED
      BY <1>1, <1>4, <3>1 DEF Put, Basics, TypeOK, republisher, history
  <2>2. \A q \in Procs : Prepared(q)'
    BY <1>1, <1>4 DEF Put, Basics, TypeOK, Prepared, history
  <2>3. RoundInv'
    BY <1>4 DEF Put, Basics, TypeOK, RoundInv, republisher
  <2> QED
    BY <2>1, <2>2, <2>3 DEF Basics
<1> QED
  BY <1>2, <1>3, <1>4 DEF PublishSteps

(* The other steps of a call. *)
LEMMA CallStepBasics ==
  ASSUME Basics, NEW c \in Calls,
         \/ \E r \in Requests : Publish(c, r) \/ Resolve(c, r)
         \/ Published(c) \/ Lookup(c) \/ PublishFails(c) \/ TimesOut(c)
  PROVE  Basics'
<1> USE IpnsAssumption, CallsAndRepublisher
<1>1. ASSUME NEW r \in Requests, Publish(c, r) PROVE Basics'
  <2>1. r.key \in Keys /\ r.value \in Values
    BY <1>1 DEF Publish
  <2>2. TypeOK'
    <3>1. overlap' \subseteq Keys
      BY <1>1, <2>1 DEF Publish, Starts, Basics, TypeOK
    <3> QED
      BY <1>1, <2>1, <3>1 DEF Publish, Starts, Basics, TypeOK, stores, republisher
  <2>3. \A q \in Procs : Prepared(q)'
    BY <1>1, <2>1 DEF Publish, Starts, Basics, TypeOK, Prepared, stores
  <2>4. RoundInv'
    BY <1>1 DEF Publish, Basics, TypeOK, RoundInv, republisher
  <2> QED
    BY <2>2, <2>3, <2>4 DEF Basics
<1>2. ASSUME NEW r \in Requests, Resolve(c, r) PROVE Basics'
  <2>1. r.key \in Keys
    BY <1>2 DEF Resolve
  <2> DEFINE Cached == outcome' = [outcome EXCEPT ![c] = "ok"] /\ UNCHANGED <<at, job>>
             Looks == /\ outcome' = [outcome EXCEPT ![c] = "pending"]
                      /\ at' = [at EXCEPT ![c] = "lookup"]
                      /\ job' = [job EXCEPT ![c] = [key |-> r.key, value |-> NoRecord]]
  <2>5. Cached \/ Looks
    BY <1>2 DEF Resolve
  <2>6. /\ request' = [request EXCEPT ![c] = r] /\ r.op = "resolve"
        /\ UNCHANGED <<stores, made, hops, republisher, history>>
    BY <1>2 DEF Resolve
  <2>2. TypeOK'
    <3>1. /\ request' \in [Calls -> Requests \cup {NoRecord}]
          /\ outcome' \in [Calls -> {"none", "pending", "ok", "failed", "timeout"}]
      BY <2>5, <2>6 DEF Basics, TypeOK
    <3>2. /\ at' \in [Procs -> {"idle", "read", "store", "put", "finish", "lookup", "next"}]
          /\ job' \in [Procs -> [key : Keys \cup {NoRecord}, value : Values \cup {NoRecord}]]
      <4>1. CASE Cached
        BY <4>1 DEF Basics, TypeOK
      <4>2. CASE Looks
        BY <2>1, <4>2 DEF Basics, TypeOK
      <4> QED
        BY <2>5, <4>1, <4>2
    <3> HIDE DEF Cached, Looks
    <3> QED
      BY <2>6, <3>1, <3>2 DEF Basics, TypeOK, stores, republisher, history
  <2>3. \A q \in Procs : Prepared(q)'
    <3>1. CASE Cached
      BY <2>1, <2>6, <3>1 DEF Basics, TypeOK, Prepared, stores, history
    <3>2. CASE Looks
      BY <2>1, <2>6, <3>2 DEF Basics, TypeOK, Prepared, stores, history
    <3> QED
      BY <2>5, <3>1, <3>2
  <2>4. RoundInv'
    BY <1>2 DEF Resolve, Basics, TypeOK, RoundInv, republisher
  <2> QED
    BY <2>2, <2>3, <2>4 DEF Basics
<1>3. CASE Published(c)
  <2>1. job[c].key \in Keys /\ job[c].value \in Values
    BY <1>3 DEF Published, Basics, Prepared
  <2>2. TypeOK'
    BY <1>3, <2>1 DEF Published, Rests, NoJob, Basics, TypeOK, republisher
  <2>3. \A q \in Procs : Prepared(q)'
    BY <1>3 DEF Published, Rests, NoJob, Basics, TypeOK, Prepared
  <2>4. RoundInv'
    BY <1>3 DEF Published, Rests, Basics, TypeOK, RoundInv, republisher
  <2> QED
    BY <2>2, <2>3, <2>4 DEF Basics
<1>4. CASE Lookup(c)
  <2> DEFINE record == routing[job[c].key]
  <2>1. job[c].key \in Keys /\ record \in Records \cup {NoRecord}
    BY <1>4 DEF Lookup, Basics, Prepared, TypeOK
  <2>2. hops' \in [Calls -> 0 .. MaxDepth]
    BY <1>4 DEF Lookup, Basics, TypeOK
  <2>3. UNCHANGED <<stores, request, republisher, history>>
    BY <1>4 DEF Lookup
  <2>4. CASE /\ record \in Records /\ record.value \in Keys
             /\ job' = [job EXCEPT ![c].key = record.value] /\ UNCHANGED <<at, made, outcome>>
    <3>1. TypeOK'
      <4>1. job' \in [Procs -> [key : Keys \cup {NoRecord}, value : Values \cup {NoRecord}]]
        BY <2>4 DEF Basics, TypeOK
      <4> QED
        BY <2>2, <2>3, <2>4, <4>1 DEF Basics, TypeOK, stores, republisher, history
    <3>2. \A q \in Procs : Prepared(q)'
      BY <1>4, <2>1, <2>3, <2>4 DEF Lookup, Basics, TypeOK, Prepared, stores, history
    <3>3. RoundInv'
      BY <2>3, <2>4 DEF Basics, RoundInv, republisher
    <3> QED
      BY <3>1, <3>2, <3>3 DEF Basics
  <2>5. CASE /\ Rests(c)
             /\ outcome' \in [Calls -> {"none", "pending", "ok", "failed", "timeout"}]
             /\ outcome'[c] \notin {"pending", "none"} /\ \A d \in Calls \ {c} : outcome'[d] = outcome[d]
    <3>1. TypeOK'
      BY <2>2, <2>3, <2>5 DEF Rests, NoJob, Basics, TypeOK, stores, republisher, history
    <3>2. \A q \in Procs : Prepared(q)'
      BY <2>3, <2>5 DEF Rests, NoJob, Basics, TypeOK, Prepared, stores, history
    <3>3. RoundInv'
      BY <2>3, <2>5 DEF Rests, Basics, TypeOK, RoundInv, republisher
    <3> QED
      BY <3>1, <3>2, <3>3 DEF Basics
  <2>6. Rests(c) => /\ outcome' \in [Calls -> {"none", "pending", "ok", "failed", "timeout"}]
                    /\ outcome'[c] \notin {"pending", "none"} /\ \A d \in Calls \ {c} : outcome'[d] = outcome[d]
    <3> HAVE Rests(c)
    <3>1. at' # at
      BY <1>4 DEF Lookup, Rests, Basics, TypeOK
    <3>2. outcome \in [Calls -> {"none", "pending", "ok", "failed", "timeout"}] /\ outcome[c] # "none"
      BY <1>4 DEF Lookup, Basics, TypeOK, Prepared
    <3>3. PICK o \in {"ok", "failed", "timeout"} : outcome' = [outcome EXCEPT ![c] = o]
      BY <1>4, <3>1, <3>2 DEF Lookup
    <3> QED
      BY <3>2, <3>3
  <2> QED
    BY <1>4, <2>1, <2>4, <2>5, <2>6 DEF Lookup
<1>5. CASE PublishFails(c)
  <2>1. job[c].key \in Keys
    BY <1>5 DEF PublishFails, Basics, Prepared
  <2>2. TypeOK'
    BY <1>5, <2>1 DEF PublishFails, Rests, NoJob, Basics, TypeOK, stores, republisher
  <2>3. \A q \in Procs : Prepared(q)'
    BY <1>5 DEF PublishFails, Rests, NoJob, Basics, TypeOK, Prepared, stores
  <2>4. RoundInv'
    BY <1>5 DEF PublishFails, Rests, Basics, TypeOK, RoundInv, republisher
  <2> QED
    BY <2>2, <2>3, <2>4 DEF Basics
<1>6. CASE TimesOut(c)
  <2>0. unsettled' \subseteq Keys
    BY <1>6 DEF TimesOut, Basics, TypeOK, Prepared
  <2>1. TypeOK'
    BY <1>6, <2>0 DEF TimesOut, Basics, TypeOK, stores, republisher
  <2>2. \A q \in Procs : Prepared(q)'
    BY <1>6 DEF TimesOut, Basics, TypeOK, Prepared, stores
  <2>3. RoundInv'
    BY <1>6 DEF TimesOut, Basics, TypeOK, RoundInv, republisher
  <2> QED
    BY <2>1, <2>2, <2>3 DEF Basics
<1> QED
  BY <1>1, <1>2, <1>3, <1>4, <1>5, <1>6

(* The end of a round, after the last key or an error. *)
LEMMA RoundOverBasics ==
  ASSUME Basics, at["republisher"] # "idle", RoundOver,
         UNCHANGED <<stores, request, hops, outcome, stored, promised, overlap, unsettled>>
  PROVE  Basics'
<1> USE IpnsAssumption, CallsAndRepublisher
<1>1. TypeOK'
  <2>1. <<>> \in Seq(Keys) /\ NoJob \in [key : Keys \cup {NoRecord}, value : Values \cup {NoRecord}]
    BY DEF NoJob
  <2>2. /\ at' \in [Procs -> {"idle", "read", "store", "put", "finish", "lookup", "next"}]
        /\ job' \in [Procs -> [key : Keys \cup {NoRecord}, value : Values \cup {NoRecord}]]
        /\ made' \in [Procs -> Records \cup {NoRecord}]
    BY <2>1 DEF RoundOver, Rests, Basics, TypeOK
  <2>3. round' \in Seq(Keys) /\ timer' \in {"off", "armed"} /\ handle' \in {"none", "running", "stopping"}
    BY <2>1 DEF RoundOver
  <2> QED
    BY <2>2, <2>3 DEF Basics, TypeOK, stores
<1>2. \A q \in Procs : Prepared(q)'
  BY DEF RoundOver, Rests, NoJob, Basics, TypeOK, Prepared, stores
<1>3. RoundInv'
  BY DEF RoundOver, Rests, Basics, TypeOK, RoundInv
<1> QED
  BY <1>1, <1>2, <1>3 DEF Basics

(* The other steps of the republisher. *)
LEMMA RepublisherStepBasics ==
  ASSUME Basics,
         \/ RepublisherStart \/ RepublisherStop \/ TimerFires
         \/ RepublishNext \/ Republished \/ RepublishFails
  PROVE  Basics'
<1> USE IpnsAssumption, CallsAndRepublisher
<1>1. CASE RepublisherStart \/ RepublisherStop \/ TimerFires
  <2>1. TypeOK'
    BY <1>1 DEF RepublisherStart, RepublisherStop, TimerFires, Basics, TypeOK, stores, history
  <2>2. \A q \in Procs : Prepared(q)'
    BY <1>1 DEF RepublisherStart, RepublisherStop, TimerFires, Basics, TypeOK, Prepared, stores, history
  <2>3. RoundInv'
    BY <1>1 DEF RepublisherStart, RepublisherStop, TimerFires, Basics, TypeOK, RoundInv
  <2> QED
    BY <2>1, <2>2, <2>3 DEF Basics
<1>2. CASE RepublishNext
  <2> DEFINE key == Head(round)
  <2>1. at["republisher"] = "next"
    BY <1>2 DEF RepublishNext
  <2>2. CASE round = <<>>
    BY <1>2, <2>1, <2>2, RoundOverBasics DEF RepublishNext
  <2>3. round # <<>> => key \in Keys /\ Tail(round) \in Seq(Keys)
    BY DEF Basics, TypeOK
  <2>4. CASE round # <<>> /\ local[key] = NoRecord
    <3>1. /\ round' = Tail(round)
          /\ UNCHANGED <<stores, at, job, made, request, hops, outcome, timer, handle, history>>
      BY <1>2, <2>4 DEF RepublishNext, history
    <3>2. TypeOK'
      BY <2>3, <2>4, <3>1 DEF Basics, TypeOK, stores, history
    <3>3. (\A q \in Procs : Prepared(q)') /\ RoundInv'
      BY <3>1 DEF Basics, Prepared, RoundInv, stores, history
    <3> QED
      BY <3>2, <3>3 DEF Basics
  <2>5. CASE round # <<>> /\ local[key] # NoRecord
    <3>1. local[key].value \in Values
      BY <2>3, <2>5 DEF Basics, TypeOK, Records
    <3>2. /\ round' = Tail(round) /\ at' = [at EXCEPT !["republisher"] = "read"]
          /\ Starts("republisher", key, local[key].value)
          /\ UNCHANGED <<stores, made, request, hops, outcome, timer, handle, stored, promised, unsettled>>
      BY <1>2, <2>5 DEF RepublishNext
    <3>3. TypeOK'
      <4>1. overlap' \subseteq Keys
        BY <2>3, <2>5, <3>2 DEF Starts, Basics, TypeOK
      <4>2. job' \in [Procs -> [key : Keys \cup {NoRecord}, value : Values \cup {NoRecord}]]
        BY <2>3, <2>5, <3>1, <3>2 DEF Starts, Basics, TypeOK
      <4> QED
        BY <2>3, <2>5, <3>2, <4>1, <4>2 DEF Basics, TypeOK, stores
    <3>4. \A q \in Procs : Prepared(q)'
      BY <2>3, <2>5, <3>1, <3>2 DEF Starts, Basics, TypeOK, Prepared, stores
    <3>5. RoundInv'
      BY <2>1, <3>2 DEF Basics, TypeOK, RoundInv
    <3> QED
      BY <3>3, <3>4, <3>5 DEF Basics
  <2> QED
    BY <2>2, <2>4, <2>5
<1>3. CASE Republished
  <2>1. TypeOK'
    BY <1>3 DEF Republished, NoJob, Basics, TypeOK, stores, republisher, history
  <2>2. \A q \in Procs : Prepared(q)'
    BY <1>3 DEF Republished, NoJob, Basics, TypeOK, Prepared, stores, history
  <2>3. RoundInv'
    BY <1>3 DEF Republished, Basics, TypeOK, RoundInv, republisher
  <2> QED
    BY <2>1, <2>2, <2>3 DEF Basics
<1>4. CASE RepublishFails
  BY <1>4, RoundOverBasics DEF RepublishFails, history
<1> QED
  BY <1>1, <1>2, <1>3, <1>4

LEMMA ExpireBasics ==
  ASSUME Basics, NEW key \in Keys, Expire(key)
  PROVE  Basics'
<1>1. TypeOK'
  BY DEF Expire, Basics, TypeOK, republisher, history
<1>2. (\A q \in Procs : Prepared(q)') /\ RoundInv'
  BY DEF Expire, Basics, Prepared, RoundInv, republisher, history
<1> QED
  BY <1>1, <1>2 DEF Basics

LEMMA StepBasics == Basics /\ [Next]_vars => Basics'
<1> SUFFICES ASSUME Basics, [Next]_vars PROVE Basics'
  OBVIOUS
<1>1. CASE Next
  <2>1. ASSUME NEW c \in Calls,
               \/ \E r \in Requests : Publish(c, r) \/ Resolve(c, r)
               \/ CallAdvances(c) \/ PublishFails(c) \/ TimesOut(c)
        PROVE  Basics'
    BY <2>1, CallsAndRepublisher, CallStepBasics, PublishStepsBasics DEF CallAdvances
  <2>2. ASSUME NEW key \in Keys, Expire(key) PROVE Basics'
    BY <2>2, ExpireBasics
  <2>3. CASE RepublisherStart \/ RepublisherStop \/ TimerFires \/ RoundAdvances \/ RepublishFails
    BY <2>3, CallsAndRepublisher, RepublisherStepBasics, PublishStepsBasics DEF RoundAdvances
  <2> QED
    BY <1>1, <2>1, <2>2, <2>3 DEF Next
<1>2. CASE UNCHANGED vars
  <2>1. TypeOK'
    BY <1>2 DEF Basics, TypeOK, vars, stores, republisher, history
  <2>2. (\A q \in Procs : Prepared(q)') /\ RoundInv'
    BY <1>2 DEF Basics, Prepared, RoundInv, vars, stores, republisher, history
  <2> QED
    BY <2>1, <2>2 DEF Basics
<1> QED
  BY <1>1, <1>2

LEMMA AlwaysBasics == Spec => []Basics
  BY InitBasics, StepBasics, PTL DEF Spec

(* The variables of publisher, resolver and republisher keep their types. *)
THEOREM TypeCorrect == Spec => []TypeOK
<1>1. Basics => TypeOK
  BY DEF Basics
<1> QED
  BY <1>1, AlwaysBasics, PTL

(* stop() of the republisher (republisher.js) answers when no round runs,  *)
(* and no timer is left that would start one; until then every round, also *)
(* one that failed, is followed by another.                               *)
THEOREM StopsForGood == Spec => []RoundsUntilStop
<1>1. Basics => RoundsUntilStop
  BY DEF Basics, TypeOK, RoundInv, RoundsUntilStop
<1> QED
  BY <1>1, AlwaysBasics, PTL
-----------------------------------------------------------------------------
(* What the steps do to the key that is published.                        *)

Busy(p) == at[p] \in {"read", "store", "put", "finish"}

(* A publication begins. *)
Begins(p, key, value) ==
  /\ ~Busy(p)
  /\ at' = [at EXCEPT ![p] = "read"]
  /\ Starts(p, key, value)
  /\ UNCHANGED <<stores, made, stored, unsettled>>
  /\ IF p \in Calls THEN promised' = [promised EXCEPT ![key] = NoRecord]
     ELSE UNCHANGED promised /\ local[key] # NoRecord /\ value = local[key].value

(* No record changes and no publication goes on; one that a call gives up  *)
(* leaves its key unsettled.                                              *)
Quiet ==
  /\ UNCHANGED <<local, routing, stored, overlap, promised>>
  /\ unsettled \subseteq unsettled'
  /\ \A k \in Keys : cache'[k] \in {cache[k], NoRecord}
  /\ \A q \in Procs : Busy(q)' => at'[q] = at[q] /\ job'[q] = job[q] /\ made'[q] = made[q]
  /\ \A c \in Calls : Busy(c) /\ ~Busy(c)' => job[c].key \in unsettled'

LEMMA StepKinds ==
  ASSUME Basics, [Next]_vars
  PROVE  \/ \E p \in Procs, key \in Keys, value \in Values : Begins(p, key, value)
         \/ \E p \in Procs : PublishSteps(p)
         \/ \E c \in Calls : Published(c)
         \/ Quiet
<1> USE CallsAndRepublisher
<1>1. ASSUME NEW c \in Calls, NEW r \in Requests, Publish(c, r)
      PROVE  r.key \in Keys /\ r.value \in Values /\ Begins(c, r.key, r.value)
  BY <1>1, IpnsAssumption DEF Publish, Begins, Busy, Basics, Prepared
<1>2. ASSUME NEW c \in Calls, NEW r \in Requests, Resolve(c, r) PROVE Quiet
  <2>1. at[c] = "idle" /\ at' \in {at, [at EXCEPT ![c] = "lookup"]}
    BY <1>2 DEF Resolve, Basics, Prepared
  <2>2. \A q \in Procs \ {c} : at'[q] = at[q] /\ job'[q] = job[q]
    BY <1>2 DEF Resolve, Basics, TypeOK
  <2> QED
    BY <1>2, <2>1, <2>2 DEF Resolve, Quiet, Busy, Basics, TypeOK, stores, history
<1>3. ASSUME NEW c \in Calls, Lookup(c) PROVE Quiet
  <2>1. at[c] = "lookup" /\ at'[c] \in {"lookup", "idle"} /\ UNCHANGED <<stores, history>>
    BY <1>3 DEF Lookup, Rests, Basics, TypeOK
  <2>2. \A q \in Procs \ {c} : at'[q] = at[q] /\ job'[q] = job[q] /\ made'[q] = made[q]
    BY <1>3 DEF Lookup, Rests, Basics, TypeOK
  <2> QED
    BY <2>1, <2>2 DEF Quiet, Busy, stores, history
<1>4. ASSUME NEW c \in Calls, PublishFails(c) PROVE Quiet
  BY <1>4 DEF PublishFails, Rests, Quiet, Busy, Basics, TypeOK, stores
<1>5. ASSUME NEW c \in Calls, TimesOut(c) PROVE Quiet
  BY <1>5 DEF TimesOut, Quiet, Busy, stores
<1>6. ASSUME NEW key \in Keys, Expire(key) PROVE Quiet
  BY <1>6 DEF Expire, Quiet, Busy, Basics, TypeOK, history
<1>7. CASE RepublisherStart \/ RepublisherStop
  BY <1>7 DEF RepublisherStart, RepublisherStop, Quiet, Busy, stores, history
<1>8. CASE TimerFires
  BY <1>8 DEF TimerFires, Quiet, Busy, Basics, TypeOK, stores, history
<1>9. ASSUME RoundOver, UNCHANGED <<stores, history>> PROVE Quiet
  BY <1>9 DEF RoundOver, Rests, Quiet, Busy, Basics, TypeOK, stores, history
<1>10. CASE RepublishNext
  <2> DEFINE key == Head(round)
  <2>1. CASE round = <<>>
    BY <1>9, <1>10, <2>1 DEF RepublishNext, history
  <2>2. CASE round # <<>> /\ local[key] = NoRecord
    BY <1>10, <2>2 DEF RepublishNext, Quiet, Busy, stores
  <2>3. CASE round # <<>> /\ local[key] # NoRecord
    <3>1. key \in Keys /\ local[key].value \in Values
      BY <2>3 DEF Basics, TypeOK, Records
    <3>2. Begins("republisher", key, local[key].value)
      BY <1>10, <2>3 DEF RepublishNext, Begins, Busy
    <3> QED
      BY <3>1, <3>2
  <2> QED
    BY <2>1, <2>2, <2>3
<1>11. CASE Republished
  BY <1>11 DEF Republished, Quiet, Busy, Basics, TypeOK, stores, history
<1>12. CASE RepublishFails
  BY <1>9, <1>12 DEF RepublishFails
<1>13. CASE UNCHANGED vars
  BY <1>13 DEF vars, Quiet, Busy, stores, history
<1> QED
  BY <1>1, <1>2, <1>3, <1>4, <1>5, <1>6, <1>7, <1>8, <1>10, <1>11, <1>12, <1>13
     DEF Next, CallAdvances, RoundAdvances

-----------------------------------------------------------------------------
(* The records of a key                                                   *)

(* A key that is not in overlap has one publisher at a time. *)
Alone(k) == \A p, q \in Procs : Publishing(p, k) /\ Publishing(q, k) => p = q

(* No record that was ever stored has a higher number, nor the same number *)
(* and another value.                                                     *)
NewestIsLocal(k) ==
  IF local[k] = NoRecord
  THEN stored[k] = IF routing[k] = NoRecord THEN {} ELSE {routing[k]}
  ELSE \A r \in stored[k] : /\ r.seq <= local[k].seq
                            /\ r.seq = local[k].seq => r.value = local[k].value

RoutingIsStored(k) == routing[k] # NoRecord => routing[k] \in stored[k]

OneValue(k) == \A r, s \in stored[k] : r.seq = s.seq => r.value = s.value

(* What the publisher has made agrees with what it has read, or stored. *)
MadeAgrees(p, k) ==
  /\ at[p] = "store" => made[p] = NextRecord(LastRecord(k), job[p].value)
  /\ at[p] \in {"put", "finish"} => made[p] = local[k] /\ made[p].value = job[p].value
  /\ at[p] = "finish" => routing[k] = local[k]

KeyInv(k) ==
  k \notin overlap =>
    /\ Alone(k) /\ NewestIsLocal(k) /\ RoutingIsStored(k) /\ OneValue(k)
    /\ \A p \in Procs : Publishing(p, k) => MadeAgrees(p, k)

(* The records and their numbers as a publication goes on. *)
LEMMA BeginsKey ==
  ASSUME Basics, NEW k \in Keys, KeyInv(k),
         NEW p \in Procs, NEW key \in Keys, NEW value \in Values, Begins(p, key, value)
  PROVE  KeyInv(k)'
<1> SUFFICES ASSUME k \notin overlap' PROVE KeyInv(k)'
  BY DEF KeyInv
<1>1. k \notin overlap /\ (k = key => \A q \in Procs \ {p} : ~Publishing(q, k))
  BY DEF Begins, Starts
<1>2. \A q \in Procs \ {p} : at'[q] = at[q] /\ job'[q] = job[q]
  BY DEF Begins, Starts, Basics, TypeOK
<1>3. at'[p] = "read" /\ job'[p].key = key
  BY DEF Begins, Starts, Basics, TypeOK
<1>4. Alone(k)'
  BY <1>1, <1>2, <1>3 DEF KeyInv, Alone, Publishing
<1>5. NewestIsLocal(k)' /\ RoutingIsStored(k)' /\ OneValue(k)'
  BY <1>1 DEF KeyInv, Begins, NewestIsLocal, RoutingIsStored, OneValue, stores
<1>6. \A q \in Procs : Publishing(q, k)' => MadeAgrees(q, k)'
  <2> SUFFICES ASSUME NEW q \in Procs, Publishing(q, k)' PROVE MadeAgrees(q, k)'
    OBVIOUS
  <2>1. CASE q = p
    BY <1>3, <2>1 DEF MadeAgrees
  <2>2. CASE q # p
    <3>1. Publishing(q, k) /\ at'[q] = at[q] /\ job'[q] = job[q] /\ made'[q] = made[q]
      BY <1>2, <2>2 DEF Publishing, Begins, Starts, stores
    <3>2. made' = made /\ UNCHANGED <<local, routing>>
      BY DEF Begins, stores
    <3> QED
      BY <1>1, <3>1, <3>2 DEF KeyInv, MadeAgrees, LastRecord
  <2> QED
    BY <2>1, <2>2
<1> QED
  BY <1>4, <1>5, <1>6 DEF KeyInv

LEMMA QuietKey ==
  ASSUME NEW k \in Keys, KeyInv(k), Quiet
  PROVE  KeyInv(k)'
<1> SUFFICES ASSUME k \notin overlap' PROVE KeyInv(k)'
  BY DEF KeyInv
<1>1. k \notin overlap
  BY DEF Quiet
<1>2. \A q \in Procs : Publishing(q, k)' =>
        Publishing(q, k) /\ at'[q] = at[q] /\ job'[q] = job[q] /\ made'[q] = made[q]
  BY DEF Quiet, Busy, Publishing
<1>3. Alone(k)'
  BY <1>1, <1>2 DEF KeyInv, Alone
<1>4. NewestIsLocal(k)' /\ RoutingIsStored(k)' /\ OneValue(k)'
  BY <1>1 DEF KeyInv, Quiet, NewestIsLocal, RoutingIsStored, OneValue
<1>5. \A q \in Procs : Publishing(q, k)' => MadeAgrees(q, k)'
  BY <1>1, <1>2 DEF KeyInv, Quiet, MadeAgrees, LastRecord
<1> QED
  BY <1>3, <1>4, <1>5 DEF KeyInv

LEMMA PublishedKey ==
  ASSUME Basics, NEW k \in Keys, KeyInv(k), NEW c \in Calls, Published(c)
  PROVE  KeyInv(k)'
<1> SUFFICES ASSUME k \notin overlap' PROVE KeyInv(k)'
  BY DEF KeyInv
<1>1. k \notin overlap
  BY DEF Published
<1>2. \A q \in Procs : Publishing(q, k)' =>
        Publishing(q, k) /\ at'[q] = at[q] /\ job'[q] = job[q] /\ made'[q] = made[q]
  BY CallsAndRepublisher DEF Published, Rests, Publishing, Basics, TypeOK
<1>3. Alone(k)'
  BY <1>1, <1>2 DEF KeyInv, Alone
<1>4. NewestIsLocal(k)' /\ RoutingIsStored(k)' /\ OneValue(k)'
  BY <1>1 DEF KeyInv, Published, NewestIsLocal, RoutingIsStored, OneValue
<1>5. \A q \in Procs : Publishing(q, k)' => MadeAgrees(q, k)'
  BY <1>1, <1>2 DEF KeyInv, Published, MadeAgrees, LastRecord
<1> QED
  BY <1>3, <1>4, <1>5 DEF KeyInv

(* A record that is made from the last one is newer than all that were     *)
(* stored, or is the last one itself.                                     *)
LEMMA NextIsNewest ==
  ASSUME Basics, NEW k \in Keys, NewestIsLocal(k), NEW value \in Values,
         NEW record, record = NextRecord(LastRecord(k), value)
  PROVE  \A r \in stored[k] : r.seq <= record.seq /\ (r.seq = record.seq => r.value = record.value)
<1> USE IpnsAssumption
<1>1. LastRecord(k) \in Records \cup {NoRecord} /\ stored[k] \subseteq Records
  BY DEF LastRecord, Basics, TypeOK
<1>2. CASE LastRecord(k) = NoRecord
  BY <1>2 DEF LastRecord, NewestIsLocal
<1>3. CASE LastRecord(k) # NoRecord
  <2>1. \A r \in stored[k] : /\ r.seq <= LastRecord(k).seq
                             /\ r.seq = LastRecord(k).seq => r.value = LastRecord(k).value
    BY <1>1, <1>3 DEF LastRecord, NewestIsLocal, Records
  <2>2. record.value = value /\
        record.seq = IF LastRecord(k).value = value THEN LastRecord(k).seq ELSE LastRecord(k).seq + 1
    BY <1>3 DEF NextRecord
  <2>3. \A r \in stored[k] : r.seq \in Nat
    BY <1>1 DEF Records
  <2>4. LastRecord(k).seq \in Nat
    BY <1>1, <1>3 DEF Records
  <2> QED
    BY <2>1, <2>2, <2>3, <2>4
<1> QED
  BY <1>2, <1>3

LEMMA PublishStepsKey ==
  ASSUME Basics, NEW k \in Keys, KeyInv(k), NEW p \in Procs, PublishSteps(p)
  PROVE  KeyInv(k)'
<1> USE IpnsAssumption
<1> SUFFICES ASSUME k \notin overlap' PROVE KeyInv(k)'
  BY DEF KeyInv
<1> DEFINE key == job[p].key
<1>1. /\ k \notin overlap /\ job' = job /\ key \in Keys
      /\ \A q \in Procs \ {p} : at'[q] = at[q] /\ made'[q] = made[q]
      /\ at[p] \in {"read", "store", "put"} /\ at'[p] \in {"store", "put", "finish"}
  BY DEF PublishSteps, Read, Store, Put, history, Basics, TypeOK, Prepared
<1>2. \A q \in Procs : Publishing(q, k)' <=> Publishing(q, k)
  BY <1>1 DEF Publishing
<1>3. Alone(k)'
  BY <1>1, <1>2 DEF KeyInv, Alone
<1>4. CASE k # key
  <2>1. UNCHANGED <<local[k], routing[k], stored[k]>>
    BY <1>1, <1>4 DEF PublishSteps, Read, Store, Put, stores, history, Basics, TypeOK
  <2>2. \A q \in Procs : Publishing(q, k) => q # p
    BY <1>4 DEF Publishing
  <2>3. \A q \in Procs : Publishing(q, k)' => MadeAgrees(q, k)'
    BY <1>1, <1>2, <2>1, <2>2 DEF KeyInv, MadeAgrees, LastRecord
  <2>4. NewestIsLocal(k)' /\ RoutingIsStored(k)' /\ OneValue(k)'
    BY <1>1, <2>1 DEF KeyInv, NewestIsLocal, RoutingIsStored, OneValue
  <2> QED
    BY <1>3, <2>3, <2>4 DEF KeyInv
<1>5. CASE k = key
  <2>1. Publishing(p, k) /\ \A q \in Procs : Publishing(q, k) => q = p
    BY <1>1, <1>5 DEF Publishing, KeyInv, Alone
  <2>2. SUFFICES NewestIsLocal(k)' /\ RoutingIsStored(k)' /\ OneValue(k)' /\ MadeAgrees(p, k)'
    BY <1>2, <1>3, <2>1 DEF KeyInv
  <2>3. job[p].value \in Values /\ MadeAgrees(p, k)
    BY <1>1, <2>1 DEF Basics, Prepared, KeyInv
  <2>4. NewestIsLocal(k) /\ RoutingIsStored(k) /\ OneValue(k)
    BY <1>1 DEF KeyInv
  <2>5. CASE Read(p)
    <3>1. UNCHANGED <<local, routing, stored>>
      BY <2>5 DEF Read, stores, history
    <3>2. at'[p] = "store" /\ made'[p] = NextRecord(LastRecord(k), job[p].value)
      BY <1>5, <2>5 DEF Read, Basics, TypeOK
    <3> QED
      BY <1>1, <2>4, <3>1, <3>2 DEF NewestIsLocal, RoutingIsStored, OneValue, MadeAgrees, LastRecord
  <2>6. CASE Store(p)
    <3>1. /\ made[p] = NextRecord(LastRecord(k), job[p].value) /\ made[p] \in Records
          /\ made[p].value = job[p].value
      BY <2>3, <2>6 DEF Store, MadeAgrees, Basics, Prepared, NextRecord
    <3>2. /\ local'[k] = made[p] /\ stored'[k] = stored[k] \cup {made[p]}
          /\ UNCHANGED <<routing, made, job>> /\ at'[p] = "put"
      BY <1>5, <2>6 DEF Store, Basics, TypeOK
    <3>3. \A r \in stored[k] : r.seq <= made[p].seq /\ (r.seq = made[p].seq => r.value = made[p].value)
      BY <2>3, <2>4, <3>1, NextIsNewest
    <3>4. made[p].seq <= made[p].seq /\ made[p] # NoRecord
      BY <3>1 DEF Records
    <3>5. NewestIsLocal(k)'
      BY <3>2, <3>3, <3>4 DEF NewestIsLocal
    <3>6. OneValue(k)'
      BY <2>4, <3>2, <3>3 DEF OneValue
    <3>7. RoutingIsStored(k)' /\ MadeAgrees(p, k)'
      BY <2>4, <3>1, <3>2 DEF RoutingIsStored, MadeAgrees
    <3> QED
      BY <3>5, <3>6, <3>7
  <2>7. CASE Put(p)
    <3>1. /\ made[p] = local[k] /\ made[p].value = job[p].value
          /\ made[p] \in stored[k] /\ local[k] # NoRecord /\ made[p] \in Records
      BY <1>5, <2>3, <2>7 DEF Put, MadeAgrees, Basics, Prepared
    <3>2. routing[k] # NoRecord => routing[k].seq <= made[p].seq /\ routing[k].seq \in Nat
      BY <2>4, <3>1 DEF NewestIsLocal, RoutingIsStored, Basics, TypeOK, Records
    <3>3. Selected(routing[k], made[p]) = made[p]
      BY <3>1, <3>2 DEF Selected, Records
    <3>4. /\ routing'[k] = made[p] /\ at'[p] = "finish"
          /\ UNCHANGED <<local, stored, made, job>>
      BY <1>5, <2>7, <3>3 DEF Put, history, Basics, TypeOK
    <3>5. NewestIsLocal(k)' /\ OneValue(k)'
      BY <2>4, <3>1, <3>4 DEF NewestIsLocal, OneValue
    <3>6. RoutingIsStored(k)' /\ MadeAgrees(p, k)'
      BY <3>1, <3>4 DEF RoutingIsStored, MadeAgrees
    <3> QED
      BY <3>5, <3>6
  <2> QED
    BY <2>5, <2>6, <2>7 DEF PublishSteps
<1> QED
  BY <1>4, <1>5
-----------------------------------------------------------------------------
(* The value of a key, between publications                               *)

CallPublishes(k) == \E c \in Calls : Publishing(c, k)

(* Where no publish has failed or timed out, routing, cache and promise    *)
(* have the value of the local record, while no call publishes another,   *)
(* and the republisher publishes no other.                                *)
ValueInv(k) ==
  k \notin overlap \cup unsettled =>
    /\ CallPublishes(k) => promised[k] = NoRecord
    /\ ~CallPublishes(k) /\ local[k] # NoRecord =>
         /\ routing[k] # NoRecord /\ routing[k].value = local[k].value
         /\ cache[k] \in {NoRecord, local[k].value}
         /\ promised[k] \in {NoRecord, local[k].value}
    /\ local[k] = NoRecord => cache[k] = NoRecord /\ promised[k] = NoRecord
    /\ Publishing("republisher", k) =>
         local[k] # NoRecord /\ job["republisher"].value = local[k].value

LEMMA BeginsValue ==
  ASSUME Basics, NEW k \in Keys, ValueInv(k),
         NEW p \in Procs, NEW key \in Keys, NEW value \in Values, Begins(p, key, value)
  PROVE  ValueInv(k)'
<1> USE CallsAndRepublisher
<1> SUFFICES ASSUME k \notin overlap' \cup unsettled' PROVE ValueInv(k)'
  BY DEF ValueInv
<1>1. k \notin overlap \cup unsettled /\ (k = key => \A q \in Procs \ {p} : ~Publishing(q, k))
  BY DEF Begins, Starts
<1>2. \A q \in Procs \ {p} : at'[q] = at[q] /\ job'[q] = job[q]
  BY DEF Begins, Starts, Basics, TypeOK
<1>3. at'[p] = "read" /\ job'[p].key = key /\ job'[p].value = value
  BY DEF Begins, Starts, Basics, TypeOK
<1>4. UNCHANGED <<local, routing, cache>>
  BY DEF Begins, stores
<1>5. CASE p \in Calls
  <2>1. promised' = [promised EXCEPT ![key] = NoRecord] /\ p # "republisher"
    BY <1>5 DEF Begins
  <2>2. Publishing("republisher", k)' => Publishing("republisher", k) /\ job'["republisher"] = job["republisher"]
    BY <1>2, <2>1 DEF Publishing
  <2>3. CASE k = key
    <3>1. promised'[k] = NoRecord /\ CallPublishes(k)'
      BY <1>3, <1>5, <2>1, <2>3 DEF Basics, TypeOK, CallPublishes, Publishing
    <3> QED
      BY <1>1, <1>4, <2>2, <3>1 DEF ValueInv
  <2>4. CASE k # key
    <3>1. promised'[k] = promised[k]
      BY <2>1, <2>4 DEF Basics, TypeOK
    <3>2. CallPublishes(k)' <=> CallPublishes(k)
      BY <1>2, <1>3, <2>4 DEF CallPublishes, Publishing, Begins, Busy
    <3> QED
      BY <1>1, <1>4, <2>2, <3>1, <3>2 DEF ValueInv
  <2> QED
    BY <2>3, <2>4
<1>6. CASE p = "republisher"
  <2>1. promised' = promised /\ local[key] # NoRecord /\ value = local[key].value
    BY <1>6 DEF Begins
  <2>2. CallPublishes(k)' <=> CallPublishes(k)
    BY <1>2, <1>6 DEF CallPublishes, Publishing
  <2>3. Publishing("republisher", k)' => k = key
    BY <1>3, <1>6 DEF Publishing
  <2> QED
    BY <1>1, <1>3, <1>4, <1>6, <2>1, <2>2, <2>3 DEF ValueInv
<1> QED
  BY <1>5, <1>6
LEMMA QuietValue ==
  ASSUME Basics, NEW k \in Keys, ValueInv(k), Quiet
  PROVE  ValueInv(k)'
<1> USE CallsAndRepublisher
<1> SUFFICES ASSUME k \notin overlap' \cup unsettled' PROVE ValueInv(k)'
  BY DEF ValueInv
<1>1. k \notin overlap \cup unsettled
  BY DEF Quiet
<1>2. \A q \in Procs : Publishing(q, k)' => Publishing(q, k) /\ job'[q] = job[q]
  BY DEF Quiet, Busy, Publishing
<1>3. \A c \in Calls : Publishing(c, k) => Publishing(c, k)'
  BY DEF Quiet, Busy, Publishing
<1>4. CallPublishes(k)' <=> CallPublishes(k)
  BY <1>2, <1>3 DEF CallPublishes
<1>5. /\ UNCHANGED <<local[k], routing[k], promised[k]>>
      /\ cache'[k] \in {cache[k], NoRecord}
  BY DEF Quiet
<1> QED
  BY <1>1, <1>2, <1>4, <1>5 DEF ValueInv

LEMMA PublishedValue ==
  ASSUME Basics, NEW k \in Keys, KeyInv(k), ValueInv(k), NEW c \in Calls, Published(c)
  PROVE  ValueInv(k)'
<1> USE CallsAndRepublisher
<1> SUFFICES ASSUME k \notin overlap' \cup unsettled' PROVE ValueInv(k)'
  BY DEF ValueInv
<1>1. k \notin overlap \cup unsettled /\ UNCHANGED <<local, routing>>
  BY DEF Published
<1>2. \A q \in Procs \ {c} : job'[q] = job[q] /\ (Publishing(q, k)' <=> Publishing(q, k))
  BY DEF Published, Rests, Publishing, Basics, TypeOK
<1>3. at[c] = "finish" /\ at'[c] = "idle" /\ job[c].key \in Keys
  BY DEF Published, Rests, Basics, TypeOK, Prepared
<1>4. CASE job[c].key = k
  <2>1. Publishing(c, k) /\ \A q \in Procs : Publishing(q, k) => q = c
    BY <1>1, <1>3, <1>4 DEF Publishing, KeyInv, Alone
  <2>2. ~CallPublishes(k)' /\ ~Publishing("republisher", k)'
    BY <1>2, <1>3, <2>1 DEF CallPublishes, Publishing
  <2>3. /\ local[k] # NoRecord /\ routing[k] = local[k] /\ local[k].value = job[c].value
        /\ promised[k] = NoRecord
    BY <1>1, <1>3, <1>4, <2>1 DEF KeyInv, MadeAgrees, Basics, Prepared, ValueInv, CallPublishes
  <2>4. cache'[k] = job[c].value /\ promised'[k] \in {promised[k], job[c].value}
    BY <1>4 DEF Published, Basics, TypeOK
  <2> QED
    BY <1>1, <2>2, <2>3, <2>4 DEF ValueInv
<1>5. CASE job[c].key # k
  <2>1. UNCHANGED <<cache[k], promised[k]>>
    BY <1>5 DEF Published, Basics, TypeOK
  <2>3. ~Publishing(c, k) /\ ~Publishing(c, k)'
    BY <1>3, <1>5 DEF Publishing
  <2>4. \A d \in Calls : Publishing(d, k)' <=> Publishing(d, k)
    BY <1>2, <2>3
  <2>5. CallPublishes(k)' <=> CallPublishes(k)
    BY <2>4 DEF CallPublishes
  <2>2. Publishing("republisher", k)' => Publishing("republisher", k) /\ UNCHANGED <<job["republisher"]>>
    BY <1>2
  <2> QED
    BY <1>1, <2>1, <2>2, <2>5 DEF ValueInv
<1> QED
  BY <1>4, <1>5

LEMMA PublishStepsValue ==
  ASSUME Basics, NEW k \in Keys, KeyInv(k), ValueInv(k), NEW p \in Procs, PublishSteps(p)
  PROVE  ValueInv(k)'
<1> USE CallsAndRepublisher
<1> SUFFICES ASSUME k \notin overlap' \cup unsettled' PROVE ValueInv(k)'
  BY DEF ValueInv
<1> DEFINE key == job[p].key
<1>1. /\ k \notin overlap \cup unsettled /\ key \in Keys
      /\ UNCHANGED <<job, cache, promised>>
      /\ \A q \in Procs \ {p} : at'[q] = at[q]
      /\ at[p] \in {"read", "store", "put"} /\ at'[p] \in {"store", "put", "finish"}
  BY DEF PublishSteps, Read, Store, Put, stores, history, Basics, TypeOK, Prepared
<1>2. \A q \in Procs : Publishing(q, k)' <=> Publishing(q, k)
  BY <1>1 DEF Publishing
<1>3. CallPublishes(k)' <=> CallPublishes(k)
  BY <1>2 DEF CallPublishes
<1>4. CASE k # key \/ Read(p)
  <2>1. UNCHANGED <<local[k], routing[k]>>
    BY <1>1, <1>4 DEF PublishSteps, Read, Store, Put, stores, Basics, TypeOK
  <2> QED
    BY <1>1, <1>2, <1>3, <2>1 DEF ValueInv
<1>5. CASE k = key /\ (Store(p) \/ Put(p))
  <2>1. Publishing(p, k) /\ (\A q \in Procs : Publishing(q, k) => q = p) /\ MadeAgrees(p, k)
    BY <1>1, <1>5 DEF Publishing, KeyInv, Alone
  <2>2. made[p] # NoRecord /\ made[p].value = job[p].value
    BY <1>1, <1>5, <2>1, IpnsAssumption DEF MadeAgrees, Store, Put, Basics, Prepared, NextRecord
  <2>3. CASE p \in Calls
    <3>1. CallPublishes(k) /\ ~Publishing("republisher", k)
      BY <2>1, <2>3 DEF CallPublishes
    <3>2. local'[k] # NoRecord
      BY <1>1, <1>5, <2>2, IpnsAssumption DEF Store, Put, Basics, TypeOK, Prepared
    <3> QED
      BY <1>1, <1>2, <1>3, <3>1, <3>2 DEF ValueInv
  <2>4. CASE p = "republisher"
    <3>1. /\ ~CallPublishes(k) /\ local[k] # NoRecord /\ job[p].value = local[k].value
          /\ routing[k] # NoRecord /\ routing[k].value = local[k].value
      BY <1>1, <2>1, <2>4 DEF ValueInv, CallPublishes
    <3>2. local'[k] \in {local[k], made[p]} /\ routing'[k] \in {routing[k], made[p]}
      BY <1>5 DEF Store, Put, Selected, Basics, TypeOK
    <3>3. /\ local'[k] # NoRecord /\ local'[k].value = local[k].value
          /\ routing'[k] # NoRecord /\ routing'[k].value = local[k].value
      BY <2>2, <3>1, <3>2
    <3> QED
      BY <1>1, <1>2, <1>3, <2>4, <3>1, <3>3 DEF ValueInv
  <2> QED
    BY <2>3, <2>4
<1> QED
  BY <1>4, <1>5 DEF PublishSteps

-----------------------------------------------------------------------------

IInv == Basics /\ \A k \in Keys : KeyInv(k) /\ ValueInv(k)

LEMMA InitIInv == Init => IInv
<1> SUFFICES ASSUME Init PROVE IInv
  OBVIOUS
<1>1. Basics
  BY InitBasics
<1>2. ASSUME NEW k \in Keys PROVE KeyInv(k) /\ ValueInv(k)
  <2>1. \A p \in Procs : ~Publishing(p, k)
    BY DEF Init, Publishing
  <2>2. local[k] = NoRecord /\ cache[k] = NoRecord /\ promised[k] = NoRecord
        /\ stored[k] = IF routing[k] = NoRecord THEN {} ELSE {routing[k]}
    BY DEF Init
  <2>3. KeyInv(k)
    BY <2>1, <2>2 DEF KeyInv, Alone, NewestIsLocal, RoutingIsStored, OneValue
  <2>4. ValueInv(k)
    BY <2>1, <2>2, CallsAndRepublisher DEF ValueInv, CallPublishes
  <2> QED
    BY <2>3, <2>4
<1> QED
  BY <1>1, <1>2 DEF IInv

LEMMA StepIInv == IInv /\ [Next]_vars => IInv'
<1> SUFFICES ASSUME IInv, [Next]_vars PROVE IInv'
  OBVIOUS
<1>1. Basics /\ Basics'
  BY StepBasics DEF IInv
<1>2. ASSUME NEW k \in Keys PROVE KeyInv(k)' /\ ValueInv(k)'
  <2>1. KeyInv(k) /\ ValueInv(k)
    BY DEF IInv
  <2>2. ASSUME NEW p \in Procs, NEW key \in Keys, NEW value \in Values, Begins(p, key, value)
        PROVE  KeyInv(k)' /\ ValueInv(k)'
    BY <1>1, <2>1, <2>2, BeginsKey, BeginsValue
  <2>3. ASSUME NEW p \in Procs, PublishSteps(p) PROVE KeyInv(k)' /\ ValueInv(k)'
    BY <1>1, <2>1, <2>3, PublishStepsKey, PublishStepsValue
  <2>4. ASSUME NEW c \in Calls, Published(c) PROVE KeyInv(k)' /\ ValueInv(k)'
    BY <1>1, <2>1, <2>4, PublishedKey, PublishedValue
  <2>5. CASE Quiet
    BY <1>1, <2>1, <2>5, QuietKey, QuietValue
  <2> QED
    BY <1>1, <2>2, <2>3, <2>4, <2>5, StepKinds
<1> QED
  BY <1>1, <1>2 DEF IInv

LEMMA AlwaysIInv == Spec => []IInv
  BY InitIInv, StepIInv, PTL DEF Spec

(* Two records of a key with one sequence number have one value, however   *)
(* often publish (publisher.js) fails between its awaits, is made again or *)
(* is followed by a round of the republisher, unless two publications of   *)
(* this key, by calls or by the republisher, have overlapped.             *)
THEOREM SequenceNumbersIdentify == Spec => []OneValuePerSequence
<1>1. IInv => OneValuePerSequence
  BY DEF IInv, KeyInv, OneValue, OneValuePerSequence
<1> QED
  BY <1>1, AlwaysIInv, PTL

(* What publish() was answered with survives every round of the            *)
(* republisher (republisher.js), in the datastore and in the routing.     *)
THEOREM PublishLasts == Spec => []PublishedValueStays
<1>1. IInv => PublishedValueStays
  BY DEF IInv, ValueInv, PublishedValueStays
<1> QED
  BY <1>1, AlwaysIInv, PTL

(* The cache of ipns/index.js, which only publish() fills, agrees with     *)
(* the routing between publications.                                      *)
THEOREM CacheIsTrue == Spec => []CacheAgrees
<1>1. IInv => CacheAgrees
  BY CallsAndRepublisher DEF IInv, ValueInv, CallPublishes, CacheAgrees
<1> QED
  BY <1>1, AlwaysIInv, PTL
=============================================================================
