# A TLA+ verification of grape-vector-db

grape-vector-db (`src/src`, Rust) is a vector database: an in-memory nearest-neighbour index
over a durable document store, usable in a process, or as a cluster with load balancing,
replication, sharding, failover and leader election. This directory holds TLA+ models of its
components, TLC configurations that check them on small instances, and TLAPS proofs, for
every value of the constants, of all but three of the properties that the passing runs
check.  Paths such as `index.rs` are below `src/src`; `distributed/` is
`src/src/distributed`.

## 1. Inventory

| Component | State | Operations | Correct when | Hard because |
|---|---|---|---|---|
| **HNSW index**, **Faiss index** `index.rs` | array of vectors, map from identifiers to slots, graph (a snapshot of the array, its points named by slot), dimension | add, batch add, remove, search, optimize, clear | the map is injective into the array, names mean current slots, one dimension, a caller sees the last vector of every identifier | re-adding leaves ghosts, refused batches are half applied, removal renumbers everything |
| **VectorDatabase** `lib.rs` | `storage` and `vector_index`, each behind a tokio `RwLock` | add, batch add, delete, search, rebuild, open | store and index agree; calls return | two locks taken in different orders, two writes, errors in between, restart with an empty index |
| **Document store** `storage.rs` | sled trees, backup files | insert, batch, get, update, delete, list, search, backup, restore, clear | writes survive; a restore can be undone; reads agree | restore clears before it inserts, backup names have seconds |
| **Load balancer** `distributed/load_balancer.rs` | `node_weights`, `routing_stats`, connection counts, counter | add/remove node, health, connections, `route_request`, `check_load_balance` | requests go to healthy nodes in the shares promised | written by late answers, by the sweep and by membership |
| **Request router** `distributed/request_router.rs` | `routing_metrics`, caches | route with failover and retries | every request ends once and is counted once; hits are fresh | timeouts race with late execution |
| **Cluster service, discovery** `distributed/cluster_service.rs` | failures per seed | add/remove node, probe seeds | members and balancer agree | two registries updated one after the other |
| **Replication** `distributed/replication.rs` | `replica_groups`, `sync_policy`, health monitor | add/remove group, `replicate_data`, `update_sync_state` | Ok means the confirmations the policy asks for | groups change, answers get lost, answers refuse |
| **Failover** `distributed/failover.rs` | `node_states`, heartbeat tasks, recovery queue | add/remove node, detect, declare, recover | every recovery task runs exactly once before its failover returns | a guard held through a whole failover; callers execute each other's tasks |
| **Raft node** `distributed/raft.rs` | term, vote, log, commit and apply index, disk | vote, append, heartbeat, client command, election, apply, restart | one vote per term, accepted logs match, entries applied once | restart, log merging, two appliers |
| **Consensus manager** `distributed/consensus.rs` | its own term, state and log | election and heartbeat timers, `submit_command`, command loop | leaders have votes, what is executed is stored by a majority, committed commands run in order | results arrive after the term moved on; the loop meets failing storage |
| **Cluster manager** `distributed/cluster.rs` | nodes, shard map, version | join, leave, add/remove node, health monitor | every shard has a member as primary | reassignment may fail half-way |
| **Sharding** `distributed/shard.rs` | shard map, local shards, statistics, hash ring and its cache | initialise, upsert, delete, search, migrate | every key has one place, every shard is served | three steps under two locks, nested reads |
| **Network** `distributed/network.rs`, `network_client.rs` | connections | connect, disconnect, send, probe, shut down | calls return, failures belong to the connection probed | the lock is held across requests |
| **Embedded database** `embedded.rs` on **advanced storage** `advanced_storage.rs` | life-cycle state, operation counters; two sled trees | open, upsert, delete, search, close, drop; commit, flush, checkpoint | close waits for calls and leaves all on disk | counters written by several paths, crashes between commits |
| **Resilience** `resilience.rs` | breaker, token bucket, pool | `execute_with_resilience` | budgets hold, calls return | atomics read and written separately |
| **Concurrent collections** `concurrent.rs` | work queues, batches | push, get, steal; add task, collect, process | every job is handed out once, batches get through | stealing thresholds, partial batches |
| **Query engine** `query_engine.rs`, `query.rs` | result cache, configuration, saved file | search, clear, reconfigure; save, load | cached answers honour the call; a load restores a snapshot | nothing invalidates the cache; a save is not atomic |
| **Enterprise** `enterprise.rs` | users, keys, login attempts, audit log, policy | create, authenticate, check, log in | counters and log keep their bounds | the password is checked between two locks |
| **Hybrid search, sparse index** `hybrid.rs`, `sparse.rs` | postings, statistics, learnt weights | add, remove, search, fuse, record | removed documents leave nothing behind; fusion keeps what sources agree on | vocabularies that are replaced, racing feedback |
| **Filtering** `filtering.rs` | inverted, numeric, nested and geo indices | add, filter, SQL | answers mean what the documents say | entries of replaced documents stay |
| **Quantization** `quantization.rs` | cache of bit vectors | quantize, staged search | an exact match is found | two stages cut the candidates |
| embeddings, metrics, performance, gRPC, config, generated code, binaries | little or none | remote calls, counters, parsing | | no decision of another part reads them |

How they interact: `VectorDatabase` owns the store and the index behind the two
locks; the query engine shares both.  `ClusterService` owns a `ClusterManager`, the
balancer and the router; its discovery task adds and removes seeds in the balancer;
the router asks the balancer for a node and reports every outcome back, and sends
through the network client.  `FailoverManager` holds a `ReplicationManager` and reads
its groups and its health monitor.  `ConsensusManager` holds a `RaftNode` but keeps a
term and a log of its own, and its command loop reads the log and the commit index of
that node.  The shard manager owns a hash ring that nothing fills.  The engines of
`hybrid.rs`, `filtering.rs` and `quantization.rs`, the optimizer of `query_engine.rs`
and the collections of `concurrent.rs` are exported and stand alone.  `PROJECT.json`
lists every component with its status, and the hazards line by line.

## 2. Modules

| Module | Models | Role |
|---|---|---|
| `Vectors` | identifiers, vectors, batches, the loop of `add_vectors` | shared data |
| `VectorIndex` | the trait `VectorIndex` | abstract specification; also the index inside `VectorDatabase` |
| `HnswIndex` | `HnswVectorIndex`, the closing of gaps in its array, its `search` | implements `VectorIndex` |
| `FaissIndex` | `FaissVectorIndex` | the other implementation; extends `HnswIndex`, whose distances it uses |
| `TokioRwLock` | tokio's fair read-write lock (external) | used by `VectorDatabase` |
| `VectorDatabase` | `lib.rs` with the store of `storage.rs` | composes store, locks and `VectorIndex` |
| `DocumentStore` | `storage.rs` by itself, with its files | |
| `RequestRouting` | balancer, router, discovery | composition of three components |
| `LoadBalancing` | the strategies of the balancer and its report | |
| `RequestDelivery` | router, cache and network client: sends, retries, late answers | |
| `Replication` | `ReplicationManager` | |
| `Failover` | `FailoverManager` | extends `Replication`, whose state it reads |
| `Election` | elections, heartbeats and shutdown of `ConsensusManager`, the voters of `raft.rs` | |
| `Consensus` | `submit_command`, replication, execution, commit | extends `Election`, whose leaders and voters it uses |
| `CommandLoop` | the loop that executes committed commands | Raft log and commit index, read by the manager |
| `RaftNode` | one node of `raft.rs` with its disk | |
| `Sharding` | `ShardManager`, `ConsistentHashRing` with its cache | two parts that share no state |
| `Membership` | `ClusterManager`, with the cluster service on top | |
| `NetworkConnections` | `NetworkManager` and its monitor | |
| `EmbeddedDB` | `embedded.rs` over `advanced_storage.rs` | composition of two components |
| `Resilience`, `TaskQueues`, `Accounts` | `resilience.rs`, `concurrent.rs`, `enterprise.rs` | |
| `QueryEngine` | `query_engine.rs` with its optimizer, `query.rs` | |
| `SparseIndex`, `HybridSearch` | `sparse.rs`, `hybrid.rs` | `HybridSearch` extends `SparseIndex` |
| `Filtering`, `Quantization` | `filtering.rs`, `quantization.rs` | |
| `HnswIndexProofs` | lemmas and theorems about | `HnswIndex`, `FaissIndex`, `DocumentStore` |
| `VectorDatabaseProofs` | | `VectorDatabase` with its locks |
| `EmbeddedDBProofs` | | `EmbeddedDB`, `Accounts`, `QueryEngine`, `NetworkConnections`, `Resilience`, `TaskQueues`, `CommandLoop` |
| `HybridSearchProofs` | | `SparseIndex`, `HybridSearch` |
| `RaftNodeProofs` | | `RaftNode`, `RequestRouting`, `RequestDelivery`, `LoadBalancing` |
| `ConsensusProofs` | | `Election`, `Consensus` |
| `FailoverProofs` | | `Replication`, `Failover` |
| `ShardingProofs` | | `Sharding`, `Membership` |
| `MC*` | instances for TLC | each extends the components of its run, so that the properties it checks are the ones the theorems state; `MCRetrieval` takes `Filtering` (`F`) and `Quantization` (`B`) with `INSTANCE`; `MCConsensus.cfg` and `MCTwoLeaders.cfg` give the constants of `Consensus` itself |

Definitions called "Mutant" are never used by a specification: each is a plausible
mistake in the code, kept to show that the property it is paired with in
`PROJECT.json` would notice.

### HnswIndex

`vectors`, `hnsw`, `id_to_index`, `dimension` are the fields of the struct; slots
count from 1, 0 stands for "not in the map".  One action per operation.  `AddVectors`
takes the items before the first wrong dimension and rebuilds the graph only when it
took all; `RemoveVector` drops the slot and every ghost and closes the gaps
(`Compact`), exactly as the loop over the map does.  The refinement mapping reads a
live vector through the map, and calls an identifier visible when its slot lies
inside the graph.

### VectorDatabase

A call of a task goes through the places in `pc`; asking for a lock and getting it
are different steps, since the lock is a first-in-first-out queue.  `AddToStore` is
the sled batch, `AddToIndex` the index update; `DeleteFromIndex` and
`DeleteFromStore` likewise; search and rebuild hold the storage lock while they wait
for the index.  A rebuild refills the index one document per step although it holds
both locks, so that a failure in the middle is a state.  `Restart` clears the
index, the locks and the calls, and keeps the store.  Two history variables say when
store and index *may* disagree about a document: `tainted`, documents shared with a
conflicting call under way, and `doubt`, why a document is in doubt (`disturbed` by a
conflicting or half-failed call, or `reopened` after a restart).  A clean add, delete
or rebuild clears it.

### RequestRouting

`entry[n]` is the balancer's entry for a node (absent, healthy, unhealthy; weight 0
and the unhealthy flag are always written together), `req[r]` a request with its
target list and the attempt it is at, `executed` what nodes have done, `metrics` and
`routed` the counters of router and balancer.  Time is a free choice: an attempt may
time out before, after or without being executed.  Which node a strategy prefers is
free too.  `Succeed` reports the time since the *first* attempt, as the code does, so
after a failover the report may lie beyond the five minutes the balancer accepts.

### Replication, Failover

`sending[d]` is one `replicate_data` call; `groups` cannot change while one runs,
because the read lock is held.  A replica may store the data and its answer be lost, or
answer and not have stored it: the code counts every answer.  `from` is history: who
answered.  In `Failover`, `detect[c]` is one call of `detect_node_failure` through its
steps: check the heartbeats, wait for the write guard of `node_states` and declare (with
whatever was read before), take a copy of the affected shards, choose a new primary and
queue a task for each, then execute whatever the queue holds.  The guard (`guard`) is
kept to the end, so there is one declared failover at a time, and no node is added,
removed or marked recovered meanwhile; but `initiate_failover` is public, and called
directly (`Initiate`) it runs beside the detection without the guard.  A shard without a
known replica sends the call to `Fallback`, which needs the lock of `node_states`: who
holds the guard itself never gets it.  Recovery tasks are named by caller and shard.
`strikes` is the number of failures since the last success, as far as it matters.

### Election, Consensus

Each node has two states of its own that never meet: `consensus[n]`, which the election
and heartbeat tasks of its manager share, and `voter[n]`, the term, vote and log of its
Raft node, which answers for it.  `election[n]` and `beat[n]` are the two tasks between
their awaits; `mail` holds vote requests and answers.  A sender may give up on a peer
that still gets the request later, and timers fire at any time.  `call[c]` is one call
of `submit_command`: leadership is looked up once, the entry gets the length of the
manager's own log as its index, and a peer's Raft node accepts the fixed term 1 and
replaces its log by the entry.

### Sharding, Membership

`task[t]` is a call of the shard manager between two of its awaits; a point is stored or
deleted, and counted, under different locks, so both are steps.  A search keeps the two read
locks from one step to the next, and nobody who writes gets in.  A migration takes any
shard that is here to any node, this one included; it copies nothing, changes the map and
forgets the local shard, as the code does.  `forgotten` remembers the counts that the code
loses when an initialisation falls between, `stranded` the shards: those whose map is
initialised between the last two steps of a migration, and those migrated to this very
node.  The positions of the hash ring are numbers given with the instance,
spread like hashes; the cache evicts without an order, as iterating a hash map does.
`Membership` is the manager's table of nodes and shards together with the list that the
cluster service keeps for the balancer: `work` is a call between the two. The round robin
that replaces a lost copy is in closed form: `Tries` is the first number of steps after
which a shard has its replicas again, or at which the loop gives up; and the order in which
shards are met is any, as iterating the map is.

### RaftNode, CommandLoop

`RaftNode` takes one request at a time, as its main loop does; `busy` says which wait
blocks it, and `spawned` and `applying` are the tasks that apply entries beside it.
Requests are any that a leader of another term may ever have sent, in any order:
`LeaderLog` fixes those leaders' logs, which match as Raft's logs do.  `Restart` keeps
`disk`: term and own vote, but no vote given to others, since only elections persist.
`CommandLoop` keeps the log of the Raft node and its commit index, which three actions
change: a leader's own command at the end (`AppendCommand`), an entry received behind any
entry the log has (`ReceiveEntry`, which cuts off what followed, committed or not, as
`handle_log_entries` does), and `CommitUpTo`.  What others may send is not restricted, so
that the loop can find a committed entry missing or another in its place; `replaced` is
the history of committed places that were cut off.  `round` is the loop's place between its
reads of the log; `failed` and `executed`, with the command of each place, are its history.

### RequestDelivery, LoadBalancing, NetworkConnections

A delivery is sent, executed and answered in three steps; the client's attempts and the
router's targets are counters; `sent` remembers what was sent and not yet executed, so
that an execution can follow the call's end.  `now` ticks so that entries of the cache
expire.  `LoadBalancing` fixes what each strategy may choose and counts a choice in a
later step, under another lock; `node_weights` is the map in the order it yields its
nodes, `HealthyNodes` those that `route_request` chooses from, and adding, removing and
updating a node (`AddWeight`, `RemoveWeight`, `UpdateWeight`) have to wait while a router
is between its choice and its count.  In `NetworkConnections` a call or the monitor holds the
table while it waits for a peer.

### EmbeddedDB, DocumentStore, the file of QueryEngine

The storage is a journal of contents, and a prefix of it is on disk; a flush moves the mark,
and a crash falls back to any length from there on.  `DocumentStore` takes the restore
apart: save what is there, clear, insert one document after the other, with a crash possible
after each.  File names carry the second, and two restores can fall into one.  A read that
sorts is a set put in order by rank (`InOrder`), a page the documents with so many before
them (`Passed`), and a hybrid search may give any answer that some order of walking its hash
map gives.  `QueryEngine` opens its file, then writes: in between the file is empty (`Torn` after a
crash).

### Resilience, TaskQueues, Accounts, the cache of QueryEngine

Atomics are read and written in the steps the code has: the breaker decides on counts
read before others change them, the bucket refills before it takes.  `Continue(t)` is
what the executor does without being asked.  In `TaskQueues` a thread holds a batch of
its own, and the channel is bounded.  A login of `Accounts` reads the attempts, checks
the password, and enters the outcome later.  A search of `QueryEngine` fixes its key by
the configuration of its clone, reads the store, and inserts afterwards.

### Retrieval

Scores, and the distances of the dense index, are ranks or small integers.  In
`HybridSearch` a reciprocal rank is an integer, since `Unit` is divisible by all denominators, and a
ranking is any that the scores allow; `Kept` is what is left of it after the cut and the
look into the store.  The fusions by weights take the numbers of the sources as they are:
distances of the dense index as if they were similarities, scores of BM25 with their sign.
`RecordFeedback` and `Learn` are the two steps in which a rating moves the weights.  `SparseIndex`
keeps postings, document frequencies and the number of documents under the vocabulary of
the moment, but no lengths of documents; `Filtering` the entries of every content a
document ever had.  `ParseWhereClause` gives the filter of an SQL condition or none: a field
with a dot is an error, and so is a text the SQL parser refuses, which is external.
`Quantization` keeps the bits of vectors of integers and compares cosines by cross
multiplication.

## 3. Runs

Parts that share no state are explored in one run, one at a time: the variable `part` of
an `MC` module names the part that moves, the others rest in their initial state.

| Run | Question | Instance |
|---|---|---|
| `database_liveness` | does every call return? | 2 callers, 6 kinds of batches, weak fairness |
| `request_routing` | what becomes of a request: routing, choice of nodes, delivery, replication; what does a Raft node promise? | 3 nodes, 2 requests, 1 retry; 2 routers, 3 strategies; 3 nodes, of which 2 are tried, with 2 attempts each; groups with 0 to 3 replicas; leaders of 2 terms and own elections |
| `routing_marks_failed` (violation) | is a failed node marked? | the same |
| `failover` | is every recovery task executed exactly once, and before its failover returns? | 2 callers, 2 shards, a primary and a replica |
| `failover_choice` (violation) | can a failed node become primary? | 1 caller, 1 shard |
| `failover_fallback` (violation) | does a call that looks for a healthy node get on? | the same, weak fairness |
| `failover_acks` (violation) | has a successful write been stored? | 1 piece of data, 1 replica |
| `consensus` | do leaders have votes, do votes bind, do terms only grow, is what is executed stored by a majority? | 3 nodes, 2 candidates, 2 terms, 1 command, one node shut down |
| `two_leaders` (violation) | is there one leader per term? | 3 nodes, 2 candidates, 1 term |
| `placement` | do index and store of a database agree under concurrent calls, failures and restarts; is every shard served, every count right, every route current, through migrations, weights and departures? | 3 callers, 2 documents, batches with, without and with a refused vector; 3 tasks, 3 nodes, 3 shards; a ring of 12 places; 2 shards and 3 members |
| `local_parts` | do the parts around the index keep their promises in all interleavings? | see `MCLocalParts` |
| `retrieval` | do array, map and graph of an index stay consistent and answer rightly, does it implement its contract; is the store safe through crashes and restores; do sparse index, fusion, filters and quantizer answer what the documents say? | 2 identifiers, 4 vectors, at most 4 slots; 2 documents, foreign keys, 3 writes or restores; the others see `MCRetrieval` |

What the passing runs show:

* `SlotsWellFormed`: what `search` and `get_all_vectors` rely on without testing it.
  `RemovalCleansUp`: a removal repairs what refused batches and re-added identifiers left
  behind.  `NearestIsFoundInBoth`: the answer is exact when the caller asks for as many
  more as there are ghosts.  `ImplementsContract`: the refinement.  `RestoreIsSafe`: a
  restore that returns Ok is on disk, and its file of what was there before can be
  restored again, unless writing it failed or a second restore of that second took its
  name.  `WaysToReadAgree`: lists, pages, counts, single reads, metadata queries and the
  hybrid of two searches agree.
* `IndexAgreesWithStore`: documents no conflicting call touched are indexed exactly as
  stored.  `RebuildIsExact`: after a rebuild the index holds the vectors of the store.
  `EveryCallReturns`: the lock orders of delete, search and rebuild never wait for each
  other.
* `RequestsAccountedFor`: counters under different locks add up, and late executions are
  bounded by targets and attempts.  `OutcomesAreRight`: a late report never puts a removed
  node back, a node marked unhealthy revives only through a request that already waited for
  it, and a request fails only with its nodes or retries used up.  `BalancingIsFair`: turns
  are even, and a balance reported is one.  `DeliveryIsSound`: no answer from the cache is
  older than its time to live and the timeout, and a request goes to no more targets than the
  router retries and to none more often than the client does.
  `AckKeepsPromise`: Ok means all replicas, or a majority, of the group the shard *then*
  has.
* `OneVotePerTerm` (Raft node), `AcceptedEntriesMatchLeader`, `AppliedOnceAndCommitted`:
  through delayed requests of several leaders, own terms and restarts the node votes once
  per term between two starts, accepts only what matches, and applies nothing twice.
* `NoTaskIsLost`, `ReturnMeansRecovered`: a detection and failovers started directly, which
  execute each other's tasks, lose none and repeat none, and none returns too early.
* `ClaimsAreBacked`, `OneVotePerTerm`, `TermNeverFalls`: see the proofs.
* `CountCoversStored`, `EveryShardIsServed`: three tasks that store, delete, count, search
  and migrate under two locks never lose a count or a shard, with the exceptions the
  comments name.  `CachedRouteIsCurrent`, `OnlyOwnKeysMove`: the ring's cache never
  outlives a change, and a node that comes or goes moves only its own keys.
  `RemovalsLoseNothing`: a shard names a lost node only after a removal that failed, and
  no removal costs another node its copy.
* `CloseIsExact`: close waits for running calls and leaves a vector with its metadata on
  disk.  `CallsShareNothing`, `EveryJobOnce`, `CommandsTakeEffectInOrder`: tokens, resources,
  jobs and committed commands are handed out once.
  `LoginsLeaveBounds`: racing logins pass the limit by no more than their number.
  `CachedAnswersHonourCall`: a cached answer is one to this call under this
  configuration, however old (writes do not invalidate it, section 4).  `LoadRestoresSnapshot`: a load never gives half a save.
  `FailureIsFresh`: a failure is entered for the connection that was probed.
  `EverythingGetsThrough`: liveness of calls, batches and committed commands.
* `SparseIndexSound`, `AnswersMatchContents` (filters and the quantizer): each compares
  the algorithm with a definition over the documents.  `FusionKeepsOrder`: rank
  fusion turns nothing around that its sources agree on; fusion by weights nothing that
  terms and text agree on, of two documents that the vector does not tell apart.  Where it
  does, its distances count as scores (section 4).
  `LearningIsBounded`: no run of ratings moves a weight
  further than the largest single change of rating would.
  The rules of the query optimizer are checked as an assumption of `MCLocalParts` over
  all requests and rule lists there (`OptimizingNarrows`).

### Bounds, and why they are enough

* `MaxSlots = 4` lets one identifier leave three ghosts, and two identifiers leave two
  and be renumbered past each other.  The proofs remove all of these bounds.
* Three callers and two documents let two calls conflict on one document while a third
  rebuilds or searches, with a writer queued between two readers.  Liveness is checked
  with two callers: every pair of operations, in every order on the two queues.
* `SeedFailures = 1` (5 in the code) and `MaxRetries = 1`: only whether the limit is
  passed matters, and both sides of it are reached.  The same holds for `Threshold = 1`
  (3 in the code) of failover, the buckets of one token and the pools of one resource.
* Groups with 0 to 3 replicas give every relation of a majority to the whole.
* Two candidates and two terms give every race between two elections, a stale request
  and a step down.  With a second command the state space leaves the time a run may take;
  what two commands can disturb, the commit index, is proved instead.
* The leaders of terms 1 and 3, whose logs share one entry, and the node's own term 2
  between them: the smallest setting in which the node's entries conflict with a later
  leader's while requests of the earlier one are still on their way.
* Three tasks on three shards: a store and a delete in one shard beside a migration of it,
  to another node (of the two it could go to one is enough) or to this one.
* Limit 2 and rank constant 60 make `Unit` a multiple of 61, 62, 63 and 64, the
  denominators that rankings of twice the limit can have; three ratings with a history of
  two let the history be cut.
* A journal of four contents lets a crash fall between any two of three commits.
* Three slots for the audit log with two dropped at once keep the proportion of the code.
* `CHECK_DEADLOCK FALSE` is set where the bounds or the inputs run out: the array is
  full, all data has been replicated, the terms are used up.  `placement` (with the facade
  and its locks), `database_liveness` and the violated routing run check deadlock.
* Symmetry is used for requests, non-seed nodes, data, callers, shards, tasks, documents
  and words, in runs that check no liveness.

### Fairness

`FairSpec` of `VectorDatabase` asks for weak fairness of `Continue(t)` for every client:
tokio polls a woken future again, sled and index calls return, and the lock serves
its queue in order (the FIFO queue is in the model, not in the fairness).  Nothing is
assumed about new calls or restarts.  `LocalSpec` of `MCLocalParts` asks the same of calls
through the resilience manager, of the threads and the reader of the batch processor, of
the tasks that use the network (a request ends by its timeout at the latest) and of the
command loop, which is an endless task.  Nothing is assumed of peers, of new calls or of
the storage: it may fail as often as `MaxErrors` says, and the loop then passes over.
The other components sleep, probe and retry for ever and promise nothing eventually.

## 4. What the models found

Each of these is a run that must find the violation, with the line quoted in
`PROJECT.json`:

1. **A node that fails a request stays healthy** (`routing_marks_failed`).  The router
   reports 999999 ms for a failure, the balancer refuses anything above 300000 ms.
2. **A failed replica can become primary** (`failover_choice`).  The health consulted is
   set to true when a node is registered and never cleared.  One caller is enough: it
   declares the replica, whose shards have no group yet, returns, and later fails over
   the primary.
3. **A detection waits for itself** (`failover_fallback`).  It holds the write guard of
   `node_states` through the failover it starts, whose search for a healthy node asks for
   the read lock.  Every declaration, `add_node` and `remove_node` after it waits too.
4. **A refusal counts as a confirmation** (`failover_acks`).  A replica's answer
   carries a field `success` that the sender never reads.
5. **Two leaders in one term** (`two_leaders`).  A candidate notes its own vote in its
   manager; its Raft node still has its vote for that term and gives it to the other
   candidate.  Both get a majority, and a heartbeat of an equal term makes nobody step
   down.

Met while modelling, and kept in the models as the code has it:

* *Index and database.*  A search can miss the nearest vector after an identifier was
  added twice (`index.rs:219`).  After a restart the index is empty, and the first add
  hides recovered documents until a rebuild (`lib.rs:256`).  Faiss: the slot of a
  re-added identifier keeps its name, so a removed identifier can still be found; the IVF
  types never accept a vector; a failed add keeps the dimension.
* *Store.*  A restore clears only the default tree; a failed safety copy is only warned
  about, and a second restore in the same second replaces it.  `hybrid_search` keeps raw
  scores of documents that one search found, and without a vector returns up to twice the
  limit.
* *Sharding and membership.*  Migration copies no data and `cleanup_shard_*` delete none;
  a re-initialisation between its last two steps leaves a primary shard unserved, and so
  does a migration to this node itself, which is not refused; forwarded writes always
  succeed; statistics are reset.  The ring of the manager and of the router is never filled;
  if it were, the shard that `get_shard_id` finds by the plain hash of a key would not be
  that of `get_shard_id_async`, which goes by the mixed hash the ring is made with.  A retry of a
  failed removal reports success with its shards orphaned (`cluster.rs:704`).
* *Raft and consensus.*  `restore_logs` and `compact_log` wait for a lock they hold; votes
  given to others are not persisted; a failed entry is skipped; the commit index of a
  manager may go back.  The command loop counts a command that returned an error as
  applied, passes over failed entries once a later one succeeds, and spins on an entry it
  cannot read.  Both the Raft node and the manager execute a committed command.
* *Around the index.*  `EmbeddedVectorDB::new` fails with the default warm-up; a successful
  delete counts itself twice, so that close times out; `half_open_requests` is never
  raised; the limiter of the enterprise constructor is never looked up; a batch that is
  partial when the processor closes is lost, and its threads spin; a save interrupted by a
  crash leaves neither the old nor the new file; failed connections are never probed
  again; `authenticate_jwt` can never succeed; writes never invalidate a cached answer.
* *Retrieval.*  What the dense index returns, and the breakdown of a score calls a
  similarity (`types.rs:438`), is a distance; every fusion but that by ranks puts larger
  numbers first (`hybrid.rs:503`), so that a nearer document comes behind.  With a negative idf linear fusion ranks a listed document below an unlisted
  one, and the shares by quality of the learned fusion have no bound and no sign; few candidates and the
  default rescore ratio give an empty answer; most filter operators answer nothing.  An SQL
  condition on a field with a dot is an error (`filtering.rs:935`), also the one of
  `examples/advanced_filtering_demo.rs:334`; `table` in the statement made around every
  condition (`filtering.rs:785`) is a keyword, and a parser that takes it for the start of a
  table function refuses them all: what is checked speaks of the conditions it accepts.

## 5. Proofs

Every theorem is about the specification that TLC runs, for every value of its
constants: the bounds of section 3 do not matter here, and the bounds that remain in
guards (`MaxSlots`, `MaxOps`, `MaxCount` ...) are any natural numbers.  Each component has
an inductive invariant (`Inv` with the theorem `Invariance` for the first of a module,
`RoutingInv`, `FileInv`, `LoopInv` ... for the others); what says something to a reader is
a theorem of its own.  Where a part is inductive as it stands, that is said.

### HnswIndex

`HnswIndexProofs` proves, for every set of identifiers and vectors, every dimension
function, every set of batches and every bound on the array:

* `Invariance`: `Spec => []Inv`, with `TypesAlwaysRight`, `SlotsAlwaysWellFormed`,
  `SnapshotAlwaysPrefix` and `DimensionAlwaysOne` as its consequences;
* `RemovalAlwaysCleansUp`: the action property of the run;
* `Refinement`: `Spec => ImplementsContract`.

**The invariant.**  None of the four conditions is inductive alone.  `remove_vector`
asks whether any *slot* is left and forgets the graph otherwise, while callers care
whether any *identifier* is left; the two agree because the last slot of the array
always has an owner (`LastSlotOwned`): adding makes the last slot the newest one,
removing leaves owned slots only.  `SnapshotIsPrefix` needs `SlotsWellFormed` for the
renumbered map, and `OneDimension` needs that an empty batch or a refused item leaves
the dimension as the array has it.

**The argument.**  First, `Rank` counts the kept positions in
order and reaches every number up to their count (`RankOrder`, `RankOnto`), so that
`Compact` returns each kept element at its rank (`CompactProperties`).  A single vector
is a batch of one (`AddVectorIsBatch`), so one lemma, `AddVectorsInv`, serves both;
`LastForDistinct` says that two identifiers of a batch never get the same slot.
`RemovalProperty` describes the array and the map after a removal, and carries both the
invariant and the clean-up property.  The refinement has one lemma per action, and uses
the invariant before and after the step.

### Searches, and the Faiss index

`NearestIsAlwaysFound`: `NearestIsFoundInBoth`.  A search of the HNSW index that asks for k
and as many more as there are ghosts gets every identifier strictly nearer than one it got,
and at least k; a search of the Faiss index misses an identifier only for k slots no
farther, and returns one that is not there only when it was added twice.  Distances with
ties broken by slot are a strict order, and what a search returns are the slots with fewer
than k below them; so the proof counts the slots below a given one.  In the HNSW index these
belong to different identifiers but for the ghosts.  In the Faiss index a re-added
identifier has several slots that bear its name: `FaissInv` says that an identifier and its
slot name each other and that another slot bears its name only when it was added twice, and
`FaissSized` bounds the array and has every index with vectors trained.

### Document store

* `RestoresAreSafe`: `RestoreIsSafe`, for any documents, foreign keys and seconds.  The
  invariant `StoreInv` says of a restore under way which entries it has still to insert and
  that what it has inserted or left is what the file says (`RestoreSound`); every content a
  crash may fall back to after a restore is one of those, since the flush forgets the
  earlier ones before the restore returns.
* `ReadsOfTheStoreAgree`: `WaysToReadAgree`.  The state only has to be well typed
  (`StoreTyped`); the work is in the reads.  In a strict order on a finite set every rank is
  taken by one element (`RanksReach`, `OrderedProperty`), hence a list has every document
  once and in order; the documents a page must have passed are a prefix of that list
  (`PassedAreBelow`, `PageProperty`); what `limit` cuts off stands above nothing that is
  left (`CutInOrder`); and a weighted sum with weights between 0 and 1 honours what both
  searches agree on (`WeightsHonourBoth`), whatever order the hash map is walked in.

### VectorDatabase

`VectorDatabaseProofs` proves, for any callers, documents, vectors and batches, with
stores that fail, batches that are refused and restarts at any point:

* `IndexAlwaysAgrees`: `IndexAgreesWithStore`;
* `RebuildsAreExact`: `RebuildIsExact`.

Agreement is not inductive, since every writer passes through a state in which it has
changed one side only.  `UndoubtedAgree` sets the documents of such calls (`HalfDone`)
apart, and two parts say why a call that ends cleanly may drop the doubt:
`AddsStored`, an addition finds the store as it left it, and `DeletesUnindexed`, a
deletion the index, unless a conflicting call has tainted them; `OverlapsTainted`
says that two calls on one document always have.  `RefillsExact` describes an index
that is half refilled, and needs that nobody else writes meanwhile.  That is what
`LocksSound` gives: a task stands in a queue at most once and only at the lock its call
waits for, a rebuild keeps both its locks, so a writer that enters is alone
(`WriterAlone`, from the lock's queue).  Batches are the other half: a batch may name an
identifier more than once, with and without a vector, and what reaches the index is the
last vector of each (`LastVectorHandedOver`, from the ranks of `VectorsToIndex`).

### EmbeddedDB

`EmbeddedDBProofs` proves `ClosingIsExact`: `CloseIsExact`, for any number of threads,
identifiers and operations.  The counters are exact because the calls that run are
finitely many and a call enters or leaves that set one at a time (`OneMoreBusy`,
`OneLessBusy`); `CallsOnlyWhenReady` is needed since nothing in the counters forbids a
call that began before the close.  A flush or a crash leaves a suffix of the journal
(`SuffixIsSound`), of which every content has its metadata.

### The other local parts

Also in `EmbeddedDBProofs`, for any number of tasks, threads, peers or workers:

* `LoginsAlwaysLeaveBounds` (`Accounts`).  `LoginsCounted` adds the logins between their two
  looks at the failures to the failures already counted: each began when there was room
  by the policy of that moment, so that together they pass the greatest limit by less than
  the number of tasks.  `AuditSound` says which numbers the log still has.
* `LoadsRestoreSnapshots` (`QueryEngine`).  `FileInv`: what a thread carries, and what the file
  has unless it is torn or missing, was taken as a whole (`TakenStaysTaken`).
* `AnswersAlwaysHonourCalls` (`QueryEngine`).  `QueryInv`: what is under a key of the cache is
  an answer to that text and limit, and it is no older than the last clear and the searches
  then under way allow (`floor`); so is what a search is about to insert.
* `FailuresAreFresh` (`NetworkConnections`).  `NetworkInv`: while the monitor waits for a
  peer it holds the table as its only writer (`TokioRwLock`), so the connection
  it then marks is the one it found.
* `CallsNeverShare` (`Resilience`).  `TokensCounted`: granted, in the bucket and on their way
  into it, tokens are at most the capacity and the ticks.  `OnePlace`: a resource is once in
  the pool or with one call.
* `JobsAlwaysOnce` (`TaskQueues`).  `JobsInv`: no job is twice in the queues or both queued
  and taken, and every job pushed is queued or taken, also when the queue is another's.
* `CommandsAlwaysInOrder` (`CommandLoop`).  `LoopOrdered` says that everything up to
  `last_applied` was executed or failed, also in the round that is running; `LoopFollows`
  that what was executed, and the command the loop works on, are what the log has at their
  places unless these were cut off after they were committed; `LoopStored` says what the
  storage has, by what was executed, when nothing failed, and within a command what it will
  have once the points still to do are done.  `LoopFollows` needs `LoopBehind`, by which a
  round never goes past what was committed: only such places count as `replaced`.

### Sparse index

`HybridSearchProofs` proves `StatisticsCoverEntries`: `SparseIndexSound`, for any
documents, words, limits and number of additions.  Three of its four parts are inductive
as they stand (`EntriesAdded`, `FrequenciesCover`, and the types).  That a search counts
at least the documents it may find is not: a document may be added twice with texts
whose terms differ, and a removal takes one entry from every list that has the document,
and one from the count.  `LayersCounted` therefore counts a document as often as it
occurs in the list that has most of its entries: an addition adds at most one such layer
(`LayersGrow`), a removal that finds the document takes away the topmost
(`LayersShrink`), and the documents with an entry are the first layers
(`LayersBoundMatching`).

### Hybrid search

Also in `HybridSearchProofs`:

* `FusionAlwaysKeepsOrder`: `FusionKeepsOrder`, for rank fusion and fusion by weights, any
  rankings, numbers and learnt weights.  The last answer is the state that matters
  (`SearchInv`): a reciprocal rank falls as the rank grows (`QuotientsFall`), so a document
  that no source places below another, and one above, has the greater sum and is kept when
  the other is; normalising and weighting are monotone
  in the numbers given (`NormalizedFollows`, `LinearFollows`), distances included, which is
  why the farther of two documents is never behind.
* `LearningStaysBounded`: `LearningIsBounded`.  `WeightsFollow` ties every weight to the
  last rating seen and to where the weight began: the changes of ratings telescope, so that
  no sequence of ratings adds up.

### Sharding

`ShardingProofs` proves, for any cluster, number of shards, replication factor, points
and concurrent calls:

* `CountsCover`: `CountCoversStored`;
* `EveryShardServed`: `EveryShardIsServed`.

The count alone is not inductive: a deletion that is about to be counted would take it
below what is stored.  `CountsHold` puts those deletions on the side of the points, and
the upserts about to be counted on the side of the count; each step changes both sides
alike, or the slack grows (an upsert that overwrites, a count that stops at zero).  The
calls about to count change by one member at a time (`UncountedSame`, `UncountedMore`,
`UncountedFewer`).  That a shard is given up only after the map says so needs
`MigrationsLeave`: when a migration cleans up, the map no longer names this node, or the
shard is one of the stranded.  `SearchesSeeAll` is the reading
locks at work: what a search has seen of either map is still so.

### Hash ring and membership

Also in `ShardingProofs`, for any nodes, weights, keys and sizes of the cache:

* `RouteIsCurrent`: `CachedRouteIsCurrent`, and `OwnKeysMove`: `OnlyOwnKeysMove`.  That the
  cache follows the ring (`RingInv`) holds whatever hashes collide; that the ring is what the
  weights say needs `NoCollision`, the hypothesis of both theorems: of two virtual nodes
  with the same hash one is lost in the code as well.  A key's owner is the node of its
  first successor, and a minimum over more positions changes only to a new one.
* `RemovalsAlwaysLoseNothing`: `RemovalsLoseNothing`.  The types and the condition on
  orphaned shards are inductive together.  `TableRebalanced` says of every shard and every
  order in which the shared index of the round robin meets them: the shard keeps its other
  holders and is given healthy ones only (`Replaces`).

### Replication and failover

`FailoverProofs` proves, for any nodes, shards, layouts and data, and any number of
detections and direct failovers:

* `TasksAreNeverLost`: `NoTaskIsLost`;  `ReturnsRecovered`: `ReturnMeansRecovered`;
* `AcksKeepTheirPromise`: `AckKeepsPromise` of `Replication`.

A task is counted in one place; that a new one is in none before needs `TasksOwned`
(every task belongs to a detection that made it and has not returned) and
`DetectionsSound` (a detection works on shards it has no task for yet).  For the writes
`CallsBacked` counts: every success came from another replica that answered, and a call
keeps its group while it sends.  A majority of the replicas then has answered
(`QuorumKeepsPromise`), or all have (`SynchronousKeepsPromise`); that they have stored
the data is what `failover_acks` refutes.

### Consensus and the Raft node

`ConsensusProofs` proves, for any number of nodes, terms and commands:

* `TypesAlwaysRight`: every state is well typed (with `CallsHaveNodes`: a call past its
  admission has a node);
* `VotesAreGivenOnce`: `OneVotePerTerm`.  It is not inductive: `VotesBind` adds that a
  vote once given is still in the Raft node's `voted_for` as long as its term is that of
  the vote, and that its term never returns.  Vote requests, heartbeats and entries all
  move the term through `InTerm`, so one lemma (`HearingATerm`) serves the three actions;
* `CommitIndexIsExecuted`: `CommitNamesExecuted`.  The invariant adds that a call which
  has appended finds its command at its index for ever (`LogsGrow`), and that a call
  which commits has executed;
* `TermsNeverFall`: both tasks of a manager overwrite the term with what they heard, and
  yet it never falls.  `RoleInv` says why: until shutdown a manager that polls is a
  candidate of the term it polls for, one that sends heartbeats leads in their term, so
  that the two tasks never write at the same time, and the term each remembers is the
  current one (`RoleStep`);
* `ClaimsAreAlwaysBacked`: `ClaimsAreBacked`.  The invariant counts: answers on their way
  tell of votes really given (`VotesInMail`), the votes of an election are at most one
  more than the peers that voted and are no longer waited for (`VotesCounted`), and the
  same of acknowledgements (`AcksCounted`).  What is counted once only grows
  (`MoreBackers`, `MoreKeepers`), and a peer counted is taken from those waited for
  (`CountOneMore`).

`RaftNodeProofs` proves, for logs and terms of any length and any leaders whose logs match:
`TypesAlwaysRight`, `VotesAreGivenOnce`, `EntriesAreAppliedOnce`,
`AcceptedEntriesAlwaysMatch`.  `Inv` joins `VotesBind` (a vote given binds while its term
lasts), `OwnTerms` (entries the node appended carry terms of its own, so that none is taken
for a leader's), `LogsMatch` (where the log has a leader's term at a place, it is that
leader's log up to there), `PositiveTerm` and `AppliedBelow`.  `AppliedBelow`, by which an
entry once applied lies below `last_applied` and every applier stops at a commit index,
gives `EntriesAreAppliedOnce`. Each handler has one lemma; the merge of `handle_log_entries`
is the hard one: an entry that is already there truncates nothing that matches, and one that
is new leaves only what the leader has.

### Routing, delivery and balancing

Also in `RaftNodeProofs`, for any number of nodes, requests, callers and routers:

* `RequestsAlwaysAccountedFor` and `OutcomesAreAlwaysRight` (`RequestRouting`).  `RoutingInv`
  adds to types and count that a request under way is at one of at most three targets,
  no two the same (`TargetsSound`); a request enters or leaves the set of those under way by
  itself, which the counting uses.
* `DeliveryIsAlwaysSound` (`RequestDelivery`).  `DeliveryInv`: a call is never older than the
  timeout, what it sent and was not executed went to its targets so far, once per attempt,
  and an answer is no older than the attempt it belongs to; what is cached was at most a
  timeout old when it was cached.
* `BalancingIsAlwaysFair` (`LoadBalancing`).  Even turns are not inductive: `EvenTurns` says
  that the counter has gone round the healthy nodes some number of times and once more over
  an arc that ends where it stands.  Balance is counting: if every counted node is within
  the tolerance of an equal share and one node of at most seven is left out, the shares
  do not add up to the requests (`BalanceIsShared`).

### Assumptions

`ElectionAssumption`, `CommandAssumption`: finitely many nodes and
commands, `None` is no node, at least one term.  `RaftAssumption`: bounds are naturals,
other leaders have other terms, and their logs match pairwise.  `VectorsAssumption`,
`MaxSlotsAssumption`, `DatabaseAssumption`: dimensions are naturals, `NoVec`, `NoDim` and
`NoDoc` are no vector, dimension or document, batches are sequences of items.
`EmbeddedAssumption` and `ShardingAssumption`: finitely many threads and tasks, a cluster
of at least one node that includes this one, more nodes than replicas of a shard,
hashes up to a greatest one.  `ReplicationAssumption`, `FailoverAssumption`: finitely many
nodes, and the replicas of a layout differ from one another and from the primary.

Of the other parts: `DistAssumption`, `FaissAssumption`: distances are naturals, index types
are the four of the code.  `StoreAssumption`: `KeyOrder` lists the keys, identifiers are
apart from the keys of others, documents are ones that can be given.  `RoutingAssumption`,
`DeliveryAssumption`, `BalancingAssumption`: finitely many nodes, requests and routers,
timeouts and attempts above zero, the strategies of the code.  `RingAssumption`: positive
sizes, and hashes that are positions.  `MembershipAssumption`: finitely many nodes and
shards, the local service is no cluster node.  `SearchAssumption`, `FusionAssumption`:
finitely many documents and words, `Unit` a multiple of the denominators, ratings from 1 to
5, a learning rate that is a multiple of ten units.  `AccountAssumption`, `QueryAssumption`,
`NetworkAssumption`, `ResilienceAssumption`, `QueuesAssumption`, `LoopAssumption`: limits
are naturals (positive where the code divides by them or waits for them), there are at least
two workers, the monitor is no caller, and commands are of the kinds of the code.  TLC
evaluates all of them in its runs.

### Only model-checked

* Liveness, `EveryCallReturns` and `EverythingGetsThrough`: temporal reasoning with fairness
  and ENABLED is out of this prover's reach.
* `AnswersMatchContents`: a filter is a tree of conditions and its meaning a recursive
  definition, and the quantizer folds over bits and sorts; what they compute for every input
  needs induction over data, which the installed provers cannot instantiate.
* The rules of the query optimizer (`OptimizingNarrows`), for the same reason.
* The five runs that find a violation: a counterexample is one instance.

## 6. Abstractions, and what is not modelled

* Graph search, Faiss, sled, moka and tokio are external: exact nearest neighbours, one
  atomic and recoverable batch per write, any eviction, a fair lock.  `search` compares a
  query of the index's dimension (the code does not check it).
* Identifiers, vectors and pieces of data are model values; payloads, formatting, events
  and logs are left out; scores are ranks or small integers.
* Time is a free choice; timers fire and calls time out whenever they may, or a counter
  of few ticks passes.
* A crash of a component of the cluster is a node whose requests fail or time out.
* The Raft loop is written as if `restore_logs` returned, and the peers' answers to it,
  which the code draws at random, are left open.  The code has no server for the vote
  requests that managers send; the voters are the handlers `raft.rs` provides for them.
* The seven locks inside the load balancer, read in two orders by two methods
  (`load_balancer.rs:495`), are not modelled: the methods are single steps, and the
  deadlock with a queued writer is a hazard without a property.

Not modelled: embeddings (remote calls), metrics, benchmarks and the tuning helpers of
`performance/` (counters and parameter choices nothing reads), gRPC and generated code
(translation without state), configuration and types, binaries; compaction and log
restoration of `raft.rs` (they wait for their own lock); the bodies of configuration and
shard commands and of recovery phases (stubs without effect); `check_replica_consistency`
(read only); the hash map, queue and counters of `concurrent.rs` (wrappers of crates);
caches of the router and connection pools that no decision reads.  `PROJECT.json` gives
the reason by component.

## 7. Plan

What would add most next:

1. `check_replica_consistency` beside `Replication`, and the two lock orders of the load
   balancer with explicit locks.
2. The composition of `Sharding` with `RequestRouting`: a request routed to a node that
   has just lost the shard.
3. An abstract replicated register that `Replication` with the synchronous policy
   implements.

Of the theorems, what is left is `AnswersMatchContents` for filters of one level, whose
meaning needs no recursion, and a refinement of `VectorIndex` by `FaissIndex` up to the
slots that keep the name of a re-added identifier.
