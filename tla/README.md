# A verification project for js-ipfs

TLA+ specifications of the parts of js-ipfs whose correctness depends on the
order in which things happen, the TLC runs that check them on small instances,
and theorems about them that TLAPS has checked for every value of the
constants. `PROJECT.json` is the index: components, runs, the mutant that shows
each property can fail, the lines of source behind each definition, the
hazards, the findings and the theorems.

Paths without a prefix are relative to `src/packages/ipfs-core/src/`.

## 1. The system

js-ipfs is a set of npm packages around one of them, `ipfs-core`, which puts a
node together from libp2p, bitswap and a repo (blockstore, datastore, pin
store). The other packages carry its API over HTTP, gRPC, a message port or a
command line. State lives in `ipfs-core` and in the repo; JavaScript runs one
task at a time, so whatever can go wrong between components goes wrong at an
`await`, at a `yield`, at a timer or at a crash.

| component | state | operations | who it interacts with | hard behaviour |
|---|---|---|---|---|
| Service (`utils/service.js`) | `service.state` | `start`, `stop`, `use`, `try` | wraps the network; every component that needs libp2p or bitswap calls `use` | overlapping start/stop/use, failing activation or deactivation, timeouts |
| Network, start, stop (`components/network.js`, `start.js`, `stop.js`) | libp2p, bitswap, which blockstore the repo uses | start, stop | Service, preload, mfs-preload, IPNS, repo | partial failure of a start or a stop, order of the steps |
| MFS (`components/files/`) | the root CID in the datastore, the blocks | `write`, `mkdir`, `rm`, `cp`, `mv`, `touch`, `chmod`, `stat`, `flush`, `ls`, `read` | blockstore, datastore, a process-wide lock | concurrent calls, timeouts that release the lock, crashes between storing and linking |
| Garbage collection, pins, blocks (`components/repo/gc.js`, `add-all`, `dag`, `object`, `block`, `pin`) | blockstore, pin store, `repo.gcLock` | add, put, import, pin, unpin, remove, gc | each other through `gcLock`; gc reads the MFS root | marking and deleting against storing and pinning, failures in every phase |
| Lock (`components/files/utils/create-lock.js`, npm `mortice`) | a queue of readers and writers | `readLock`, `writeLock`, release | MFS, `gcLock` | released early, by the wrapper of a timed-out call |
| IPNS (`ipns/`, `components/name/`) | local record, sequence number, republisher timer, cache | publish, republish, resolve | datastore, routing, keychain | two publishers of one key, republishing an old value, recursion of names |
| Pubsub (`components/pubsub.js`, `ipfs-http-client/src/pubsub/`, `ipfs-grpc-*`, `ipfs-http-server/src/api/resources/pubsub.js`) | handlers by topic, one libp2p listener, the tracker of the HTTP client, maps of ids on both sides of gRPC | subscribe, unsubscribe, close of a request or a channel | libp2p, which a restart replaces | subscribing and unsubscribing over several processes; broken connections; one handler used twice |
| Preload (`preload.js`, `mfs-preload.js`) | LRU cache, running requests, timer | preload, start, stop | add, MFS, HTTP preload nodes | stop during a request, a timer armed after stop |
| Block storage (`block-storage.js`) | none of its own | get, put, delete, many | repo blockstore, bitswap | swapped under running calls at start and stop |
| Repo initialisation (`components/storage.js`, `components/index.js`) | config with identity and DEK, version, key `self`, empty directory, assets, name of the node, `repo.lock` | `create` (open, configure or initialise) | repo, keychain, pins, IPNS | crash or failure between the steps, two processes on one path |
| Sharded directories (`files/utils/hamt-utils.js`, `dir-sharded.js`) | HAMT nodes | add and remove an entry | MFS | conversion, collapse of sub-shards |
| Message port (`ipfs-message-port-*`) | pending queries and their timers in the transport, queries in the server | execute, connect, abort, timeout, disconnect, answer | core in a worker | answers that race aborts and timeouts |
| HTTP client and server, gateway, gRPC, CLI, daemon | next to none, pubsub apart | transport | core | see Pubsub |

What makes each correct:

* *Service*: at most one network is being brought up; a network that is up is
  the one the service holds; `stop()` returns only when nothing runs; every
  waiting call is answered.
* *MFS*: operations take effect one after the other although each is many
  reads and writes; the root never names a missing block; a call changes only
  what it names; nothing is lost when a call stops half way; every call ends.
* *gc and pins*: what is pinned is complete; a gc does not touch the MFS or a
  user's pins; every call ends, whoever fails.
* *IPNS*: a sequence number stands for one value, what was published stays the
  value of the name through every republishing, resolution ends, and after
  `stop()` no round goes on.
* *Node*: a node that is stopped is quiet; two republishers never run at a time; a
  round never meets a closed datastore; every call is answered.
* *Repo initialisation*: a repo keeps its identity, whatever crashes, until it is
  given another one; what was not cut off is complete.
* *Message port*: a query is settled once, by its own answer or by the first of
  timeout, abort and disconnect, and is not left pending.
* *Pubsub*: what a client takes for a subscription is served, and what it has
  unsubscribed is forgotten.

## 2. Modules

```
Service <------- NodeLifecycle <- MCNode       MfsTree <---- MFS <- MCMfs
   ^                    ^                                 / | \
   |                NodeProofs      AtomicMfs <-(Atomic)-+  |  MfsProofs
MCService                                                   v
                                    RepoGC -----------> Mortice
Ipns      <- MCIpns, IpnsProofs       ^                     ^
RepoInit  <- MCRepoInit, RepoInitProofs MCRepoGC       MorticeProofs
MessagePort <- MCMessagePort,         RepoGCProofs --------^ <- MfsProofs
             MessagePortProofs
Pubsub    <- MCPubsub, PubsubProofs
```

**Service** models `utils/service.js`. `state` is `service.state`; the promise
or the value it holds is named by the number of the activation (`gen`).
`activation[g]` is how far the promise of the g-th `activate()` is,
`instance[g]` whether the network it gave is up, `call[c]` what task `c` waits
for. One action is one synchronous segment: `StartActivates` ends at the await
of `activate()`, `ActivationResolves` is the continuation, `StopDispatch` is
the switch of `stop()` which runs again after a wait (`StopRetries`). The
status `'stopping'`, which the type declares and the code never assigns, is not
reachable and therefore not in the model. Any task may call any operation. Two
`stop()` may therefore deactivate one network, and the later of them end after
the next `start()`: `overwritten` is the history variable that says so.

**Mortice** is the lock of the npm package `mortice` (external): a queue of
batches, the first of which holds the lock; consecutive readers share a batch.

**MfsTree** is the pure part of `components/files/`: a tree is a nested record,
and since a CID is the hash of a node and all that is below it, a node stands
for its own CID. `ToTrail`, `AddLink`, `RemoveLink` and `UpdateTree` are the
helpers of those names; one operator per operation (`MkdirEffect`, `RmEffect`,
`CpEffect`...) says what one step of it does with the root it has read: fail,
do nothing, expand into other steps, or commit a new root together with the
blocks it has stored (depending on `flush`) and those it must have read.
`Overlay` gives the bytes of a written file.

**AtomicMfs** is what `files/index.js` promises ("will execute in series"): a
call is a list of steps, each an indivisible change of the tree. What a step
does is a constant operator here, so that the promise is about the series and
not about the tree; `MFS` gives it the `Effect` of `MfsTree`.

**MFS** is what really happens. A call goes through `Begin`, for `write` a read
section (`ReadDestination`) and `Import`, then `Enter` (the write lock is
granted) and for each of its steps `Load` (read the root, build and store),
`Check` (the signal of `updateMfsRoot`) and `Put`. `leftOut` is a history
variable: the nodes that calls with `flush: false` have built and not stored. `mv` is a `cp` step and an
`rm` step, a recursive `chmod` an `rm` and a `cp`, as in the code. `Timeout` is
`withTimeoutOption`: the caller, and the lock wrapper around it, get a
TimeoutError and the lock is released, while the operation goes on until it
next looks at its signal; `write`, whose lock is inside, keeps it
(`NestedTimeout` is the timer of the mkdir or stat inside). `Crash` loses the
memory and keeps the datastore and the blockstore.

**RepoGC** models everything that holds `repo.gcLock`, and gc itself. A request
`put` stands for `add-all`, `dag/put`, `dag/import`, `object/put` and
`block/put`: lock (or not), store block by block, pin (or not), release.
`pinAdd` (with or without the lock, recursive or direct), `pinRm` and `blockRm`
follow their files; `gc` loads and pins the MFS root (`Walk`, `Record`) before
it queues for the write lock, marks, deletes block by block, releases, unpins.
A change of the MFS (`mfs`) stores blocks and replaces the root without
`gcLock`. `Fails` is a rejected await or a consumer that leaves a generator, in
any phase; the finally clauses run. `repo.pins` and `repo.gc()` belong to the
package `ipfs-repo` and are modelled from their use. `overlap` and
`safe` are history variables that only properties read.

**NodeLifecycle** puts `components/start.js`, `stop.js` and `network.js` over
`Service`, which it extends and whose actions are conjuncts of its own
(`StartActivates`, `StopRetries`...; its own `Init`, `Next` and so on begin with
`Node`; its callers are those of the Service): one action per await of `Network.start` (`OpenRepo`, `StartLibp2p`,
`StartBitswap`) and of `Network.stop` (`Dispatched`, `StopBitswap`,
`StopLibp2p`), each of which may fail (`ActivationFails`, `StopFails`). Which
store `repo.blocks` is (`blocks`, `under`) follows the swap and the `unwrap()`
of `block-storage.js`. `StartServices` is the `Promise.all` of `start.js`: IPNS
goes online with a new republisher (`RoundBegins`, `RoundEnds`), the preloader
and the chain of MFS preloads begin (`MfsStarted`, `MfsFires`, `MfsChecked`,
which re-arms its timer whatever happened meanwhile). `stop()` is
`NodeStopCalled` (which waits for a round), `StopNetwork`, `CloseRepo`,
`RepoClosed`. A republisher, a chain and a libp2p are named by the activation
they belong to. Two history variables mark what the code does not promise:
`overlapped`, a call made while another one was under way, and `crossed`, a
`stop()` called while a preload of the MFS was under way.

**Ipns** is `ipns/`: a publication reads the last record (`Read`), stores the
next one (`Store`), puts it in the routing (`Put`), and a publish by a call
writes the cache (`Published`). The republisher does the same with what it has
read before (`RepublishNext`, `Republished`), key after key, in a round that a
timer begins (`TimerFires`, `RoundOver`); `RepublisherStop` waits for it.
`best` says which routing there is: the DHT (external) keeps the better record,
`offline-datastore.js` the last. `Resolve` and `Lookup` follow names, counting
the depth down as `resolver.js` does. `Expire` is the TLRU cache.

**RepoInit** is `create()`: `LoadRepo` opens what is there, and `ConfigureRepo`
merges `options.config` into its config and writes it, the `Identity` that the
options may have (`given`) included; or it goes on to `VerifyNew`, `WriteConfig`, `WriteVersion`, `OpenNew`, `ImportSelf`,
`StoreDek` (`initRepo`), `AddEmptyDir`, `InitAssets`, `InitializeKeyspace`. All
of it is on the disk when the next step begins; `Crash` loses the process and
its lock, `Fails` rejects and leaves the lock, as the code does, `Stop` closes.
`owner` is the identity that the first create() to return has had, or that a
later one was given; `replaced` says that it was another one.

**MessagePort** is `transport.js` and `server.js`, which run in threads of their
own with two queues of messages between them: `Execute`, `Connect`, `GiveUp`
(timeout and abort), `Disconnect`, `Receive` on one side, `HandleQuery`,
`Untrack`, `HandleAbort`, `Answer` on the other. `Untrack` is the continuation
of `await this.run(query)`, which comes before any other message, since `run`
returns nothing to wait for.

**Pubsub** follows one topic from the handlers of an HTTP and of a gRPC client
to the pubsub component of the node: `CoreSubscribe` and `CoreUnsubscribe` are
the component, with its one listener; `HttpSubscribe` to `AbortSeen` the
tracker and the request of the HTTP client, with the workaround for Firefox
that takes a subscription for made after a second; `HttpServe` and `Close` the
handler of the HTTP server; `Grpc...` the maps of ids on both sides and the calls
between them. A gRPC client has one map of ids per topic, makes a new one when
the topic has none, and may have several `unsubscribe()` under way: each has
captured the map it found (`gcalls[c].map`), the server handles its ids one
await after the other (`GrpcHandleOne`), and its continuation
(`GrpcUnsubscribed`) empties that map and deletes the topic when it is empty,
whichever map the topic has by then. `dropped` are the ids of a map that goes in
this way. A caller that times out takes nothing back: the call is the same. `NetworkStop` and `NetworkStart` replace libp2p under them. Messages are
not modelled: `listening = 1` and `topic` say that each arrives once.

## 3. Runs

| run | instance | shows |
|---|---|---|
| `service` | 3 tasks that start, stop and use, 3 activations | `NoLeakedInstance`, `OneActivation`, `StopStops`, `CallsReturn`, and that no state is stuck (deadlock is checked) |
| `node` | 2 tasks that start and stop, 2 activations, preloading on | `OneRepublisher`, `RoundsFindTheDatastore`, `StoppedNodeIsQuiet`, `CallsAnswered` |
| `mfs` | 3 calls out of 16 requests, crash at any moment, no timeouts | `ImplementsAtomicMfs` (refinement), `ChangesAreConfined`, `MvKeepsItsSource` |
| `mfs_timed` | 2 calls out of 9 that may time out, 2 of them with `flush: false` | `RootIntact`, `InSeries` and `NoStaleRoot` with the exemptions they state, `EveryCallEnds` |
| `gc` | 3 calls out of 10 requests, 5 blocks | `LockedPinsAreComplete`, `UndisturbedMfsIsKept`, `EveryCallEnds` |
| `ipns` | 2 calls and the republisher, 2 keys that stand for each other, both routings | `OneValuePerSequence`, `PublishedValueStays`, `CacheAgrees`, `RoundsUntilStop`, `CallsEnd` |
| `repo_init` | 2 processes, 3 identities, one of which `options.config` may bring, crash or failure at each step | `IdentityKept`, `SelfIsTheNode`, `CompleteUnlessCutOff` |
| `message_port` | 2 transports with 2 queries and 1 | `PendingQueries`, `InOrder`, `AnsweredByItsService`, `QueriesSettle` |
| `pubsub` | one handler subscribed twice over HTTP or once over HTTP and gRPC, beside an object of the node's user; or twice over gRPC, with 2 `unsubscribe()` at a time | `SubscriptionsAreServed`, `ForgottenBeforeAnswered`, `UnsubscribedAreForgotten` |
| `mfs_ipfs_mv` | `mv /ipfs/<cid>/b /b` | finding: the MFS is replaced by the tree of the CID |
| `gc_mfs` | two calls out of gc and a change of the MFS | finding: blocks of the MFS are deleted |
| `message_port_abort` | the instance of `message_port` | finding: the abort of a query that runs is ignored |

The passing runs also check the type invariant of their module (`TypeOK`; `mfs`
does for `mfs_timed`; `NodeTypeOK` of the node is proved and not run). The
findings are in `PROJECT.json` with the sentence each contradicts; the run of a
finding checks only that sentence.

**Bounds.** *service*: a bug needs a stale continuation, that is an activation,
its successor, and a task that still waits for the first; three tasks and three
activations give that and one more to collide with, and two `stop()` of one
network beside a `start()`. *node*: calls may be
repeated for ever, only the activations are counted (`MaxActivations`): two let
a start follow a stop, or a failed start, while things of the first are still
there; two tasks let every call overlap every other. *mfs*: tree paths over three
names and at most three levels, which is enough for a target that is above,
below, beside or equal to another, missing in one or two components, or a
file; three calls allow one to hold the lock, one to queue and one to be in its
unlocked import. *mfs_timed* needs one call that has lost the lock and one that
has it; what one call has not flushed is below the directory that the other
moves, changes or removes. *gc*: a root that shares a block with the next root and with a user's
file; three calls are a collector, a call that stores or pins, and one more
that unpins, removes or collects, also the pin of the root that a gc is about to
collect from. *ipns*: two publications of one key, of
different values, beside a republisher that goes round without a bound; the
two names stand for each other where they were published before, so that a
resolution can be cyclic, and `MaxDepth` is 3 for the 32 of the code.
*repo_init*: a process that made the repo and one that finds it, in turns or
at a time; three identities are one for each of two that race and one that the
options bring or that is left for a later attempt. *message_port*: two queries of one transport can be confused,
overtake each other or be settled for each other, and a third belongs to
another port. *pubsub*: two subscriptions of one handler are what the trackers
cannot tell apart; two `unsubscribe()` over gRPC are what it takes for one to
drop the map of a subscription made between them. The handler of the node is an
object, which the code removes in a way of its own; functions are removed like
the handlers of the servers. A user of the node does not subscribe
a handler that is subscribed. In `mfs`, `gc`, `ipns`, `message_port` and `pubsub` each call or
subscription is made once; longer histories are sequences of those, from a
state of the same shape. Deadlock is not checked where the calls are used up
(all runs but `service`).

**Fairness.** Weak fairness of the continuations only: the promise an operation
awaits settles (datastore, blockstore, `activate`, `deactivate`, the granted
lock), the consumer of a generator goes on with it or leaves it, timers that are
armed go off, a port delivers, a server handles what has arrived over HTTP, an
HTTP client reads and sees the close of its connection. Nothing is assumed of
gRPC, of which only safety is stated. Nobody is
obliged to make a call, to fail or to crash. `repo_init` states none: it checks
no liveness. In Service and NodeLifecycle, the resolving and the
rejecting of one promise share one condition, so that either may always
happen.

**Symmetry.** Only `mfs` uses it, over the calls, which no constant
distinguishes; its properties are all safety properties.

## 4. Proofs

TLAPS proves 36 theorems that `PROJECT.json` lists, for every number of calls,
tasks, keys, blocks and so on. They cover every invariant that the passing runs
check and every action property of theirs: `StopStops`, `ChangesAreConfined`,
`MvKeepsItsSource` and the refinement `ImplementsAtomicMfs`.

`MorticeProofs` has the lemmas about the lock: queueing and releasing take it
from nobody else, a writer is alone (`WriterIsAlone`), and where in the queue a
call is (`Absent`, `Once`, `AtFront`, `OnlyWrites`) is not changed by the
others (`MovedKeeps`). `MfsProofs` and `RepoGCProofs` rest on them.

**Service** (second part of `NodeProofs`, for `Spec` with any number of callers):
`ServiceTypeCorrect`, `NoLeak`, `Exclusive` and `StopIsComplete`, whoever starts
and stops. `ServiceInv` is `~overwritten => PhaseInv` with the types and where
a `stop()` can be waiting in any case (`StoppingInv`).
`PhaseInv` says which phase of which call belongs to which
status: a call that is activating is the one whose activation the state names,
at most one exists, and one that is deactivating holds the current value.
`NoLeakedInstance` alone is not inductive, because it does not say that the
network a continuation is about is still the current one.

**Node** (`NodeProofs`): `TypeCorrect`; `OneAtATime` (`OneRepublisher`), however
calls overlap, since a republisher that runs is the one IPNS is online with, a
stop() that waits for one is the only one that does, and nobody takes IPNS
offline meanwhile (`RepublisherInv`); `DatastoreIsThere` and
`StopLeavesNothing`, for an application that makes one call at a time. For
these two `Sequential` says, for each place the one call can be at, what the
Service, the network, IPNS, the preloader and the repo are; it is needed
because `StoppedNodeIsQuiet` is about what there is after the last step of a
stop(), and each part of it was done several steps earlier. `NodeImplementsService`: `NodeSpec => Spec`, since
each step of the node contains one step of the Service or leaves its variables
alone. What is proved of the Service is therefore true in a node
(`NodeKeepsItsNetwork`), with the exception of `overwritten`.

**MFS** (`MfsProofs`). The first part is about the lock: `TypeCorrect`, `Serial`
(`InSeries`), `NoLostUpdate` (`NoStaleRoot`) and, assuming that no request
times out, `Refines`: `Spec` implements `AtomicMfs`. `Effect` stays folded in
all of them but for the steps it expands into: they hold whatever the
operations do to the tree. The invariant ties the phase of a call to the lock
(a call that is inside and has not timed out holds it) and what it has read to
the root (`base[c] = root` until a call without the lock has put one). In the
refinement a `Put`, or a `Load` without effect, is `Apply`, since what was read
is still the root; `Enter` is a stutter; a failure is `Abandon`; a crash is
`AbandonAll`. With timeouts that is not true, and `Lined` says what is: a call
that has lost the lock is nowhere in the queue, so that a put that is not a
`stray` comes from the one call that holds the lock and replaces the root it was
built from (`PutsTheNext`).

The other parts unfold the operations. They are about requests that flush
(`AllFlush`; `flush: false` leaves blocks out, see 5) and name only CIDs whose
trees the blockstore has (`WholeTrees`), with any tree at the start, any set of
such requests, any number of calls, timeouts and crashes.

* `TreeNeverDangles` (`RootIntact`, and that under `AllFlush` nothing below the
  root is missing, `leftOut` or not). `RootIntact` is not inductive: a `Put` may
  be of a root that was built long before, a link of a node that was found
  several steps earlier. `Intact` says that the blockstore is closed under
  links and has the root, the root that each `check` and `put` is about, and the
  nodes and CIDs that the steps still to come name. A step then stores only
  nodes whose children are stored already or with it.
* `ChangesStayOnTheirPath` (`ChangesAreConfined`), for requests that change the
  MFS and not the tree of a CID (`InTheMfs`; the code takes `/ipfs/<cid>` as the
  target and the finding of `mfs_ipfs_mv` is what comes of it). `UpdateTree`
  rebuilds a trail, so that each node of the new tree that is not on the path
  is that of the old one, and each on it has the old type, data and meta;
  `Directed` says that every step a call has left is about a path of its
  request, also those that `chmod -R`, `cp` and `write` expand into.
* `MvLosesNothing` (`MvKeepsItsSource`), in addition for targets less deep than
  `MaxDepth` (`Shallow`; further down `NodesOf` does not look). `Sourced` says,
  while a `mv` holds the lock, that what the link will put in its place is what is
  at the source now, and when only the `rm` is left that the copy is in the
  tree beside the source, from where the `rm` cannot take it.

Where a fact is about all depths of a tree the proofs do without induction over
data: a depth at which it fails would be in a set of naturals with a least
element. `MCMfs` has TLC check that the instances of the runs satisfy these
hypotheses (`MCMfsAssumption`).

**gc** (`RepoGCProofs`): `TypeCorrect` (types, and that a call is only in phases
of its operation), `LockedPinsComplete` and `MfsIsSpared`. For every graph, set of
requests and number of calls, a pin set under `gcLock` is complete for ever. The
inductive invariant has, besides the types:

* `LockInv`: whoever is in a phase between acquisition and release holds the
  lock in its mode,
* `WalkInv`: a locked call that is about to record a pin has all its blocks,
* `SweepInv`: a collector that deletes has marked all that locked pins need,
* `DeleteInv`: a block/rm that has passed its check deletes no such block.

Each is needed for a step the others do not cover: recording uses `WalkInv`,
deleting `SweepInv` and `DeleteInv`, and `LockInv` with `WriterIsAlone` keeps
deleting and recording apart. Unlocked pins change the pin store in the middle
of a sweep; they can only leave `safe` or shrink what a member of it needs
(`NeedOfPin`). `MfsIsSpared` assumes that no `block/rm` names a block of an MFS
root (`MfsBlocksAreLeft`). While nothing has disturbed a gc, its `loaded` is
the root of the datastore, which is pinned until it has marked, and what is
marked contains the tree below it; a change of the MFS that is under way has
stored, or has still to store, each of its blocks.

**IPNS** (`IpnsProofs`): `TypeCorrect`, `StopsForGood` (`RoundsUntilStop`),
`SequenceNumbersIdentify` (`OneValuePerSequence`), `PublishLasts`
(`PublishedValueStays`) and `CacheIsTrue` (`CacheAgrees`). `OneValuePerSequence`
is inductive only with `NewestIsLocal`: no record that was ever stored has a
higher number than the local one, which is what the next number is made from;
before the first publish, that role is the routing's. The values need in addition
that the republisher, while it publishes a key, has the value of the local
record, which holds unless a call publishes the key at the same time (`overlap`).

**Repo initialisation** (`RepoInitProofs`): `TypeCorrect`, `IdentityLasts`,
`SelfAgrees`, `CompleteAfterAll`, for any processes, identities and options. `LockInv`
holds always, `IdentityInv` while no two create() were under way at a time,
`ProgressInv` (what a create() has done by its place) while none was cut off.

**Message port** (`MessagePortProofs`): `TypeCorrect`, `OnePromise`
(`PendingQueries`), `Ordering` (`InOrder`) and `OwnAnswer`
(`AnsweredByItsService`), for any number of transports and queries. `OwnAnswer`
needs that a query is on its way to the server only once and that its service
has not begun, which needs the order of the queue; so one invariant
(`Transport`) has them all.

**Pubsub** (`PubsubProofs`): `TypeCorrect`, `SubscribersAreServed`
(`SubscriptionsAreServed`) and `AnsweredIsForgotten`
(`ForgottenBeforeAnswered`), for any number of clients, handlers and calls and of
restarts of the network. `SubscriptionsAreServed` relates what a client believes
to the handlers of the node, with a connection, a server and maps of ids in
between; `ForgottenBeforeAnswered` the maps of a gRPC client to them, with any
number of overlapping `unsubscribe()`. The invariant (`IInv`) therefore follows
a subscription through all of them: what the server has not begun to handle is known nowhere
(`Unanswered`), an open connection has its handler unless all were swept away
(`Served`), the client of gRPC has the id of each handler it has been told of,
or it was dropped (`Identified`), the ids that a call has come to are registered no more
(`CallInv`), and the
listener is there exactly for the handlers (`Listener`).

The assumptions on the constants are those of the modules (`ServiceAssumption`,
`MfsAssumption`, `RepoGCAssumption`, `IpnsAssumption`, ...). TLC evaluates them
in the runs.

Only model-checked: every liveness property, `UnsubscribedAreForgotten` among
them (the prover does not do fairness, nor ENABLED); the findings, which are
counterexamples; and `RootIntact`, `ChangesAreConfined` and `MvKeepsItsSource`
outside of the hypotheses above, of which section 5 says what is untrue there.

## 5. What the code does and the properties exempt

What follows is in the models, because the code does it. Each property that
would be untrue because of it states its exemption, by a history variable or a
condition. The sentences of the repository that speak against it are quoted; the
three findings of section 3 are the divergences that have a run of their own.

* *Service*: two overlapping `stop()` both deactivate the network, and the later
  one sets the state to 'stopped' whatever it is by then
  (`utils/service.js:139`, `overwritten`): the network or the activation of a
  `start()` made in between is forgotten. Against it: "If service is stopped or
  is stopping this is noop" (`service.js:110-111`), and of the state transitions
  "Which ensures no race conditions can occur" (`service.js:75`).
* *Node*: a `start()` during a `stop()` that is closing the repo takes the repo
  for open (`components/network.js:50-52`); a `stop()` during a `start()` finds
  no republisher yet, and the one that the start makes next stays
  (`stop.js:16`); `overlapped` marks both. A preload of the MFS that is under way
  when `stop()` is called re-arms its timer afterwards and opens the datastore
  again (`mfs-preload.js:44`, `crossed`), although the repo "must be closed after
  stopping services as some of them will write into the datastore"
  (`stop.js:24-25`). The libp2p of a failed start runs on (`network.js:68-80`,
  `Abandoned`).
* *MFS*: a call with `flush: false` puts a root whose blocks it has not stored
  (`leftOut`), and `flush` does not store what it has left out: it is a `stat`
  (`files/flush.js:30`). The option is documented with "If true the changes will
  be immediately flushed to disk" (`docs/core-api/FILES.md:559`). A call that has timed out goes on without the lock
  (`stray`). A recursive `chmod` is a removal and a copy, and a crash between
  them removes. The copy of a `mv` goes
  under the name of its source when the target is a directory
  (`files/cp.js:126`). Where that place is the source itself or below it, the `rm`
  removes the copy with the source: `mv /a/b /a` loses `/a/b`, although "If `from` has a single value and `to` exists
  and is a directory, `from` will be moved into `to`" (`FILES.md:940`). Where it is above
  the source, as in `mv /a/a /`, the copy takes the place of the directory that
  the source is in, and the `rm` then removes what the copy has at that path. `CopiesBeside`
  is the condition under which nothing of this happens.
* *gc*: it unpins the root at its end, also when a user has pinned the same CID
  (`repo/gc.js:44`).
* *IPNS*: the republisher publishes a value it has read before, after a publish
  of another value in between (`ipns/republisher.js:173`, `overlap`); a publish
  that fails after it has stored its record is published later, past the cache
  (`unsettled`); a resolve that is not recursive follows names without a limit
  (`ipns/resolver.js:55` and `:85`), and so a cycle for ever. The comment there is
  "If obtained a ipfs cid or recursive option is disabled", and the option,
  `false` by default, is documented with "Resolve until the result is not an IPNS
  name" (`docs/core-api/NAME.md:237`): without it one name is to be resolved.
  `CallsEnd` is about the recursive resolve.
* *Repo initialisation*: an `Identity` in `options.config` replaces that of a repo
  that exists in the config only (`components/storage.js:243-246`); the key
  `self` and the name in the keyspace stay those of the old one (`replaced`).
  What is missing after a create() that was cut off is
  never added (`components/index.js:324`, `interrupted`); two processes that
  create one repo at a time overwrite each other's config
  (`components/storage.js:110`, `raced`); a create() that fails leaves the repo
  locked until the process ends.
* *Message port*: a query without a timer that is executed after `disconnect()`
  waits until `disconnect()` is called once more (`transport.js:73`).
* *Pubsub*: after a restart of the network with a handler left no listener is
  added to the new libp2p (`components/pubsub.js:42`, `onMessage = "elsewhere"`);
  unsubscribing an object removes every handler of the topic
  (`pubsub.js:89`, `swept`), and so does unsubscribing over gRPC a handler that
  the client does not know, as no ids are sent
  (`ipfs-grpc-server/src/endpoints/pubsub/unsubscribe.js:19`, `swept`). Against
  both: "the `handler` will no longer receive updates for the `topic`", and "If
  the `handler` is not equivalent to the `handler` provided on `subscribe`, no
  action will be taken" (`docs/core-api/PUBSUB.md:119`). An `unsubscribe()` over
  gRPC that ends late deletes the topic with a map that a later `subscribe()` has
  made (`ipfs-grpc-client/src/core-api/pubsub/unsubscribe.js:17` and `:44-50`,
  `dropped`): that handler can not be unsubscribed by name any more. The end
  of an older HTTP request aborts a newer one of the same handler
  (`ipfs-http-client/src/pubsub/subscribe.js:80`); the subscription of a gRPC
  client that is gone stays, as the server waits for an event its socket does
  not have (`ipfs-grpc-server/src/utils/web-socket-message-channel.js:93`); a
  close that finds the network stopped does not unsubscribe (`leaked`).

## 6. What the models leave out

* *MFS*: calls with several sources or paths (they repeat a step), the
  creation of the first root (see the plan), sharding, sizes, the values of times and modes;
  `ls` and `read`, which change nothing and for which `RootIntact` is stated.
* *gc*: several files in one `add`, each with its own pin, are several
  requests. That `dag/import` swallows the error of a pin and goes on to the
  next root is not told apart from a call that ends there. Pins with other
  root blocks than the user's CID (metadata) and remote pins are not modelled.
* *IPNS*: expiry of records, pubsub routing, the keychain, DNSLink.
* *Node*: the requests and the cache of the preloader; timeouts of `use()`,
  which are in Service.
* *Repo initialisation*: the values of the config, profiles, migrations.
* *Message port*: the encoding of arguments, iterables and callbacks that are
  transferred as ports of their own.
* *Pubsub*: messages; several topics (the listener is shared by them, which is
  what `onMessage` is about); a request that is cut before its server has begun
  to handle it is not handled; the HTTP client drops a message without sender.
* Everything listed as `not_modelled` in `PROJECT.json`.

The lines behind the definitions are a small share of the repository. The rest is,
in that order: the interface tests (`interface-ipfs-core`) and the tests of the
packages; type declarations; the encoding, decoding and printing in the HTTP
client, the HTTP server, gRPC and the command line, one function per call of
the API, without state and without a second actor; and thin wrappers around
libp2p (`swarm`, `dht`, `bitswap`, `stats`). A model of any of these would
repeat its lines and could not go wrong.

## 7. Plan

Done: Service, Mortice, MfsTree, AtomicMfs, MFS, RepoGC, NodeLifecycle, Ipns,
RepoInit, MessagePort, Pubsub, with the proofs above. Left, in this order:

1. `MFS`: the first root of a new repo, which unlocked readers may overwrite
   (`utils/with-mfs-root.js:30`); several sources.
2. The preloader: its cache and its requests against `stop()`.
3. Iterables and callbacks of the message port.
4. That the HAMT of a sharded directory has the entries of the flat one, as runs
   over bounded inputs.
5. Proofs: the MFS with `flush: false` as far as `flush` repairs it.
