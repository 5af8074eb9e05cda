-------------------------------- MODULE Ipns --------------------------------
(***************************************************************************)
(* IPNS: publisher, republisher, resolver and cache (ipns/).              *)
(*                                                                        *)
(* A publish reads the last record of its key, stores a new one with the  *)
(* next sequence number in the datastore and puts it in the routing, each *)
(* at an await of its own and without a lock.  The republisher does the   *)
(* same with the value it has read before, key by key, from a timer.      *)
(***************************************************************************)
EXTENDS Naturals, Sequences, FiniteSets

CONSTANTS
  Keys,      \* the names
  Paths,     \* what a name may stand for, other names apart
  NoRecord,  \* there is no record, no value
  Calls,     \* the calls that are made, each one at most once
  Requests,  \* what they may ask for
  OwnKeys,   \* the keys the republisher goes through, the one of the node first
  MaxDepth,  \* defaultMaximumRecursiveDepth of the resolver
  InitialRoutings  \* what the routing may hold of a key that was used elsewhere before

Values == Paths \cup Keys
Records == [value : Values, seq : Nat]

ASSUME IpnsAssumption ==
  /\ Paths \cap Keys = {} /\ NoRecord \notin Values /\ NoRecord \notin Records
  /\ OwnKeys \in Seq(Keys) /\ OwnKeys # <<>>
  /\ MaxDepth \in Nat \ {0}
  /\ "republisher" \notin Calls
  /\ InitialRoutings \subseteq [Keys -> Records \cup {NoRecord}]
  /\ \A r \in Requests :
       \/ r.op = "publish" /\ r.key \in Keys /\ r.value \in Values
       \/ r.op = "resolve" /\ r.key \in Keys /\ r.recursive \in BOOLEAN /\ r.nocache \in BOOLEAN

VARIABLES
  local,     \* the records in the datastore, by key
  routing,   \* the records in the routing
  best,      \* whether the routing keeps the best record (DHT) or the last (datastore)
  cache,     \* the values in the cache of ipns/index.js
  at,        \* where each call, and the round of the republisher, is
  job,       \* the key and the value it publishes
  made,      \* the record it has made
  request,   \* what a call asks for
  hops,      \* how many names a resolve has looked up
  outcome,   \* what its caller has been told
  round,     \* the keys the republisher has still to go through in this round
  timer,     \* its timer: "off" or "armed"
  handle,    \* "none", "running", or "stopping" while stop() waits for the round
  stored,    \* history: every record that was ever stored, by key
  promised,  \* history: what the last publish() of a key that was answered has promised
  overlap,   \* history: the keys that two jobs have been publishing at a time
  unsettled  \* history: the keys of which a publish has failed or timed out

stores == <<local, routing, best, cache>>
republisher == <<round, timer, handle>>
history == <<stored, promised, overlap, unsettled>>
vars == <<stores, at, job, made, request, hops, outcome, republisher, history>>

Procs == Calls \cup {"republisher"}
NoJob == [key |-> NoRecord, value |-> NoRecord]

(* What a process was at is over. *)
Rests(p) ==
  /\ at' = [at EXCEPT ![p] = "idle"]
  /\ job' = [job EXCEPT ![p] = NoJob]
  /\ made' = [made EXCEPT ![p] = NoRecord]

Publishing(p, key) == at[p] \in {"read", "store", "put", "finish"} /\ job[p].key = key

Init ==
  /\ local = [k \in Keys |-> NoRecord]
  /\ routing \in InitialRoutings
  /\ best \in BOOLEAN
  /\ cache = [k \in Keys |-> NoRecord]
  /\ at = [p \in Procs |-> "idle"]
  /\ job = [p \in Procs |-> NoJob]
  /\ made = [p \in Procs |-> NoRecord]
  /\ request = [c \in Calls |-> NoRecord]
  /\ hops = [c \in Calls |-> 0]
  /\ outcome = [c \in Calls |-> "none"]
  /\ round = <<>> /\ timer = "off" /\ handle = "none"
  /\ stored = [k \in Keys |-> IF routing[k] = NoRecord THEN {} ELSE {routing[k]}]
  /\ promised = [k \in Keys |-> NoRecord]
  /\ overlap = {} /\ unsettled = {}

-----------------------------------------------------------------------------
(* Publishing (publisher.js), by a call or by the republisher             *)

(* Faulty variant: the sequence number starts anew with every record. *)
FaultyNextRecord(last, value) == [value |-> value, seq |-> 0]

(* Increment if the published value is different. *)
NextRecord(last, value) ==
  [value |-> value,
   seq |-> CASE last = NoRecord -> 0
             [] last # NoRecord /\ last.value = value -> last.seq
             [] OTHER -> last.seq + 1]

(* The record in the datastore or, when there is none, in the routing. *)
LastRecord(key) == IF local[key] # NoRecord THEN local[key] ELSE routing[key]

(* Faulty variant: the value is put in the place of its record. *)
FaultySelected(old, record) == record.value

(* What is left in the routing when a record is put: the datastore of      *)
(* offline-datastore.js overwrites, the DHT (external) prefers the higher  *)
(* sequence number and, of two equal ones, the later record.              *)
Selected(old, record) ==
  IF best /\ old # NoRecord /\ old.seq > record.seq THEN old ELSE record

(* _getPublished and the sequence number of _updateOrCreateRecord. *)
Read(p) ==
  /\ at[p] = "read"
  /\ made' = [made EXCEPT ![p] = NextRecord(LastRecord(job[p].key), job[p].value)]
  /\ at' = [at EXCEPT ![p] = "store"]
  /\ UNCHANGED <<stores, job, request, hops, outcome, republisher, history>>

(* The new record is in the datastore. *)
Store(p) ==
  LET key == job[p].key
  IN  /\ at[p] = "store"
      /\ local' = [local EXCEPT ![key] = made[p]]
      /\ stored' = [stored EXCEPT ![key] = @ \cup {made[p]}]
      /\ at' = [at EXCEPT ![p] = "put"]
      /\ UNCHANGED <<routing, best, cache, job, made, request, hops, outcome, republisher,
                     promised, overlap, unsettled>>

(* _putRecordToRouting. *)
Put(p) ==
  LET key == job[p].key
  IN  /\ at[p] = "put"
      /\ routing' = [routing EXCEPT ![key] = Selected(@, made[p])]
      /\ at' = [at EXCEPT ![p] = "finish"]
      /\ UNCHANGED <<local, best, cache, job, made, request, hops, outcome, republisher, history>>

-----------------------------------------------------------------------------
(* Calls (index.js)                                                       *)

Starts(p, key, value) ==
  /\ job' = [job EXCEPT ![p] = [key |-> key, value |-> value]]
  /\ overlap' = overlap \cup (IF \E q \in Procs \ {p} : Publishing(q, key) THEN {key} ELSE {})

Publish(c, r) ==
  /\ outcome[c] = "none" /\ r.op = "publish"
  /\ request' = [request EXCEPT ![c] = r]
  /\ outcome' = [outcome EXCEPT ![c] = "pending"]
  /\ at' = [at EXCEPT ![c] = "read"]
  /\ Starts(c, r.key, r.value)
  /\ promised' = [promised EXCEPT ![r.key] = NoRecord]
  /\ UNCHANGED <<stores, made, hops, republisher, stored, unsettled>>

(* Faulty variant: only an empty cache is filled. *)
FaultyPublished(c) ==
  LET key == job[c].key
      pending == outcome[c] = "pending"
  IN  /\ at[c] = "finish"
      /\ cache' = [cache EXCEPT ![key] = IF @ = NoRecord THEN job[c].value ELSE @]
      /\ Rests(c)
      /\ outcome' = [outcome EXCEPT ![c] = IF pending THEN "ok" ELSE @]
      /\ promised' = [promised EXCEPT ![key] = IF pending THEN job[c].value ELSE @]
      /\ UNCHANGED <<local, routing, best, request, hops, republisher, stored, overlap, unsettled>>

(* The value is put in the cache, the caller is answered. *)
Published(c) ==
  LET key == job[c].key
      pending == outcome[c] = "pending"
  IN  /\ at[c] = "finish"
      /\ cache' = [cache EXCEPT ![key] = job[c].value]
      /\ Rests(c)
      /\ outcome' = [outcome EXCEPT ![c] = IF pending THEN "ok" ELSE @]
      /\ promised' = [promised EXCEPT ![key] = IF pending THEN job[c].value ELSE @]
      /\ UNCHANGED <<local, routing, best, request, hops, republisher, stored, overlap, unsettled>>

(* An await rejects: the datastore or the routing fails. *)
PublishFails(c) ==
  /\ at[c] \in {"read", "store", "put"}
  /\ Rests(c)
  /\ outcome' = [outcome EXCEPT ![c] = IF @ = "pending" THEN "failed" ELSE @]
  /\ unsettled' = unsettled \cup {job[c].key}
  /\ UNCHANGED <<stores, request, hops, republisher, stored, promised, overlap>>

(* withTimeoutOption: the caller has its answer, the call goes on. *)
TimesOut(c) ==
  /\ outcome[c] = "pending"
  /\ outcome' = [outcome EXCEPT ![c] = "timeout"]
  /\ unsettled' = unsettled \cup (IF request[c].op = "publish" THEN {job[c].key} ELSE {})
  /\ UNCHANGED <<stores, at, job, made, request, hops, republisher, stored, promised, overlap>>

(* A resolve that is neither recursive nor nocache looks in the cache. *)
Resolve(c, r) ==
  /\ outcome[c] = "none" /\ r.op = "resolve"
  /\ request' = [request EXCEPT ![c] = r]
  /\ \/ /\ ~r.nocache /\ ~r.recursive /\ cache[r.key] # NoRecord
        /\ outcome' = [outcome EXCEPT ![c] = "ok"]
        /\ UNCHANGED <<at, job>>
     \/ /\ r.nocache \/ r.recursive \/ cache[r.key] = NoRecord
        /\ outcome' = [outcome EXCEPT ![c] = "pending"]
        /\ at' = [at EXCEPT ![c] = "lookup"]
        /\ job' = [job EXCEPT ![c] = [key |-> r.key, value |-> NoRecord]]
  /\ UNCHANGED <<stores, made, hops, republisher, history>>

(* Faulty variant: the limit is not passed on with the recursion. *)
FaultyExceeds(c) == FALSE

(* Only a recursive resolve has a limit, the other one has the depth       *)
(* Infinity; the count stops at the limit.                                *)
Exceeds(c) == request[c].recursive /\ hops[c] + 1 = MaxDepth

(* resolver.js: a name is looked up; the value of another name is followed. *)
Lookup(c) ==
  LET record == routing[job[c].key]
      follows == record # NoRecord /\ record.value \in Keys /\ ~Exceeds(c)
  IN  /\ at[c] = "lookup"
      /\ hops' = [hops EXCEPT ![c] = IF @ < MaxDepth THEN @ + 1 ELSE @]
      /\ \/ /\ follows
            /\ job' = [job EXCEPT ![c].key = record.value]
            /\ UNCHANGED <<at, made, outcome>>
         \/ /\ ~follows
            /\ Rests(c)
            /\ outcome' = [outcome EXCEPT ![c] =
                 CASE @ # "pending" -> @
                   [] @ = "pending" /\ record # NoRecord /\ record.value \in Paths -> "ok"
                   [] OTHER -> "failed"]
      /\ UNCHANGED <<stores, request, republisher, history>>

(* utils/tlru.js: a cached value gets too old, or is pushed out. *)
Expire(key) ==
  /\ cache[key] # NoRecord
  /\ cache' = [cache EXCEPT ![key] = NoRecord]
  /\ UNCHANGED <<local, routing, best, at, job, made, request, hops, outcome, republisher, history>>

-----------------------------------------------------------------------------
(* The republisher (republisher.js)                                       *)

RepublisherStart ==
  /\ handle = "none"
  /\ handle' = "running" /\ timer' = "armed"
  /\ UNCHANGED <<stores, at, job, made, request, hops, outcome, round, history>>

(* stop() clears the timer and waits for the round under way. *)
RepublisherStop ==
  /\ handle = "running"
  /\ timer' = "off"
  /\ handle' = IF at["republisher"] = "idle" THEN "none" ELSE "stopping"
  /\ UNCHANGED <<stores, at, job, made, request, hops, outcome, round, history>>

(* The timer goes off: a round over all keys begins. *)
TimerFires ==
  /\ timer = "armed"
  /\ timer' = "off"
  /\ round' = OwnKeys
  /\ at' = [at EXCEPT !["republisher"] = "next"]
  /\ UNCHANGED <<stores, job, made, request, hops, outcome, handle, history>>

(* Faulty variant: the timer is armed even if stop() has been called. *)
FaultyRoundOver ==
  /\ Rests("republisher")
  /\ round' = <<>>
  /\ timer' = "armed"
  /\ handle' = IF handle = "running" THEN "running" ELSE "none"

(* The timer is armed again unless stop() has been called. *)
RoundOver ==
  /\ Rests("republisher")
  /\ round' = <<>>
  /\ timer' = IF handle = "running" THEN "armed" ELSE "off"
  /\ handle' = IF handle = "running" THEN "running" ELSE "none"

(* _getPreviousValue of the next key; a key without a record is passed     *)
(* over, after the last key the round is over.                            *)
RepublishNext ==
  /\ at["republisher"] = "next"
  /\ \/ /\ round = <<>>
        /\ RoundOver
        /\ UNCHANGED overlap
     \/ /\ round # <<>> /\ local[Head(round)] = NoRecord
        /\ round' = Tail(round)
        /\ UNCHANGED <<at, job, made, timer, handle, overlap>>
     \/ /\ round # <<>> /\ local[Head(round)] # NoRecord
        /\ round' = Tail(round)
        /\ at' = [at EXCEPT !["republisher"] = "read"]
        /\ Starts("republisher", Head(round), local[Head(round)].value)
        /\ UNCHANGED <<made, timer, handle>>
  /\ UNCHANGED <<stores, request, hops, outcome, stored, promised, unsettled>>

Republished ==
  /\ at["republisher"] = "finish"
  /\ at' = [at EXCEPT !["republisher"] = "next"]
  /\ job' = [job EXCEPT !["republisher"] = NoJob]
  /\ made' = [made EXCEPT !["republisher"] = NoRecord]
  /\ UNCHANGED <<stores, request, hops, outcome, republisher, history>>

(* An error, of the key of the node or of another one, ends the round. *)
RepublishFails ==
  /\ at["republisher"] \in {"next", "read", "store", "put"}
  /\ RoundOver
  /\ UNCHANGED <<stores, request, hops, outcome, history>>

-----------------------------------------------------------------------------

PublishSteps(p) == Read(p) \/ Store(p) \/ Put(p)

CallAdvances(c) == PublishSteps(c) \/ Published(c) \/ Lookup(c)
RoundAdvances == PublishSteps("republisher") \/ RepublishNext \/ Republished

Next ==
  \/ \E c \in Calls :
       \/ \E r \in Requests : Publish(c, r) \/ Resolve(c, r)
       \/ CallAdvances(c) \/ PublishFails(c) \/ TimesOut(c)
  \/ \E key \in Keys : Expire(key)
  \/ RepublisherStart \/ RepublisherStop \/ TimerFires
  \/ RoundAdvances \/ RepublishFails

Spec == Init /\ [][Next]_vars

(* Promises settle.  Timers, calls, stop() and failures need not come. *)
Fairness == WF_vars(RoundAdvances) /\ \A c \in Calls : WF_vars(CallAdvances(c))

FairSpec == Spec /\ Fairness

-----------------------------------------------------------------------------
(* Properties                                                             *)

TypeOK ==
  /\ local \in [Keys -> Records \cup {NoRecord}]
  /\ routing \in [Keys -> Records \cup {NoRecord}]
  /\ best \in BOOLEAN
  /\ cache \in [Keys -> Values \cup {NoRecord}]
  /\ at \in [Procs -> {"idle", "read", "store", "put", "finish", "lookup", "next"}]
  /\ job \in [Procs -> [key : Keys \cup {NoRecord}, value : Values \cup {NoRecord}]]
  /\ made \in [Procs -> Records \cup {NoRecord}]
  /\ request \in [Calls -> Requests \cup {NoRecord}]
  /\ hops \in [Calls -> 0 .. MaxDepth]
  /\ outcome \in [Calls -> {"none", "pending", "ok", "failed", "timeout"}]
  /\ round \in Seq(Keys)
  /\ timer \in {"off", "armed"}
  /\ handle \in {"none", "running", "stopping"}
  /\ stored \in [Keys -> SUBSET Records]
  /\ promised \in [Keys -> Values \cup {NoRecord}]
  /\ overlap \subseteq Keys /\ unsettled \subseteq Keys

(* A sequence number of a key stands for one value, whatever publishes,    *)
(* fails, times out or is republished, as long as no two jobs publish the  *)
(* key at a time: otherwise peers may keep either of two records.         *)
OneValuePerSequence ==
  \A key \in Keys \ overlap : \A r, s \in stored[key] : r.seq = s.seq => r.value = s.value

(* What a publish() has been answered with stays the value of the name     *)
(* until the next publish(), through all rounds of the republisher, unless *)
(* another job published the key at the same time.                        *)
PublishedValueStays ==
  \A key \in Keys \ (overlap \cup unsettled) :
    promised[key] # NoRecord =>
      /\ local[key] # NoRecord /\ local[key].value = promised[key]
      /\ routing[key] # NoRecord /\ routing[key].value = promised[key]

(* A cached value is the value of the name.  This needs that no publish of *)
(* the key has failed or timed out: what such a publish has stored is      *)
(* published by the republisher later, past the cache.                    *)
CacheAgrees ==
  \A key \in Keys \ (overlap \cup unsettled) :
    cache[key] # NoRecord /\ (\A p \in Procs : ~Publishing(p, key)) =>
      routing[key] # NoRecord /\ routing[key].value = cache[key]

(* Rounds go on until stop(), failed ones included: between two of them    *)
(* the timer is armed.  Once stop() has returned nothing of the            *)
(* republisher runs or will run: the datastore is closed next.            *)
RoundsUntilStop ==
  /\ handle = "none" => timer = "off" /\ at["republisher"] = "idle"
  /\ handle = "running" => (timer = "armed" <=> at["republisher"] = "idle")

(* Every publish() is answered, and every recursive resolve(), cycles of   *)
(* names included; stop() returns.  (A call is made once, so none is kept  *)
(* waiting if nobody waits again and again.)                              *)
CallsEnd ==
  []<>( /\ \A c \in Calls :
             outcome[c] = "pending" => request[c].op = "resolve" /\ ~request[c].recursive
        /\ handle # "stopping" )
=============================================================================
