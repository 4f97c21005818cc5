------------------------------ MODULE Sharding ------------------------------
(***************************************************************************)
(* ShardManager of src/distributed/shard.rs on one node: the map from      *)
(* shards to nodes, the shards held locally with their statistics, and the *)
(* calls that write, search and migrate; and the ring of hashes it owns    *)
(* and never fills, which moves on its own.                                *)
(*                                                                         *)
(* Each lock is released before the next step of a call, except by         *)
(* search_vectors, which keeps local_shards, and from its second half on   *)
(* shard_map, for reading.  It asks for local_shards again while it has    *)
(* it; the writer that may be queued in between and block it for good is   *)
(* not modelled.                                                           *)
(***************************************************************************)
EXTENDS Integers, Sequences, FiniteSets, FiniteSetsExt, Functions

CONSTANTS Me,                  \* node_id
          Cluster,             \* the sequence of nodes given to initialize_shards
          ShardCount, ReplicationFactor, MaxVectorsPerShard,
          HashAlgorithm,       \* "SimpleHash", "ConsistentHash" or "RangeHash"
          MaxHash,             \* largest hash, u64::MAX in the code
          Point,
          HashOf,              \* the hash of a point's identifier
          Task,
          MaxCount             \* bound on the count of a shard and the upserts on their way

Node == {Cluster[i] : i \in DOMAIN Cluster}
Shard == 0..ShardCount - 1

ShardingAssumption ==
    /\ ShardCount \in Nat \ {0} /\ ReplicationFactor \in 0..Len(Cluster) - 1
    /\ MaxVectorsPerShard \in Nat /\ MaxCount \in Nat
    /\ Cluster \in Seq(Node) /\ Me \in Node /\ IsFiniteSet(Task)
    /\ HashAlgorithm \in {"SimpleHash", "ConsistentHash", "RangeHash"}
    /\ MaxHash \in Nat /\ ShardCount <= MaxHash
    /\ HashOf \in [Point -> 0..MaxHash]

ASSUME ShardingAssumption

VARIABLES shard_map,      \* shard -> primary and replicas
          local_shards,   \* shard held here -> vector_count of its statistics
          stored,         \* points in the storage of this node
          task,           \* task -> its call and the place it has reached
          forgotten,      \* history: shards whose statistics were reset too early
          stranded        \* history: shards that a migration may leave here without
                          \* their primary: initialised again at its end, or sent to Me

vars == <<shard_map, local_shards, stored, task, forgotten, stranded>>

Idle == [pc |-> "idle"]

\* What the map says of a shard; its state is always Active.
ShardInfo == [primary : Node, replicas : SUBSET Node]

Init ==
    /\ shard_map = << >> /\ local_shards = << >>
    /\ stored = {}
    /\ task = [t \in Task |-> Idle]
    /\ forgotten = {} /\ stranded = {}

Goto(t, record) == task' = [task EXCEPT ![t] = record]
At(t, pc) == task[t].pc = pc

\* No search holds the lock of the local shards.
LocalShardsWritable == \A t \in Task : ~At(t, "search") /\ ~At(t, "answer")

\* No search holds the lock of the map.
ShardMapWritable == \A t \in Task : ~At(t, "answer")

-----------------------------------------------------------------------------
(* Keys and ranges of hashes *)

\* The hashes of a shard; the last one takes what the division leaves over.
HashRange(s, count) ==
    LET size == MaxHash \div count
    IN  s * size .. IF s = count - 1 THEN MaxHash ELSE (s + 1) * size - 1

RangeShard(h, count) ==
    LET s == h \div (MaxHash \div count) IN IF s < count THEN s ELSE count - 1

\* The range of get_shard_id_async: by the first bytes of the key itself, here
\* the first two as they are read into a number.
MaxPrefix == 65535
AsyncRangeShard(prefix, count) == prefix \div (MaxPrefix \div count)

\* get_shard_id.  The ring of the manager is never given a node, and without
\* nodes it leaves the key to the simple hash.
ShardOf(p) ==
    IF HashAlgorithm = "RangeHash" THEN RangeShard(HashOf[p], ShardCount)
    ELSE HashOf[p] % ShardCount

-----------------------------------------------------------------------------
(* initialize_shards *)

\* The nodes of the cluster in turn, and those that follow as replicas.
Assigned(s) ==
    LET at(i) == Cluster[((s + i) % Len(Cluster)) + 1]
    IN  [primary  |-> at(0),
         replicas |-> {at(i) : i \in 1..ReplicationFactor} \ {at(0)}]

InitializeShards(t) ==
    /\ At(t, "idle") /\ ShardMapWritable
    /\ shard_map' = [s \in Shard |-> Assigned(s)]
    /\ Goto(t, [pc |-> "create"])
    /\ stranded' = stranded \cup {task[u].shard : u \in {x \in Task : At(x, "cleanup")}}
    /\ UNCHANGED <<local_shards, stored, forgotten>>

StoredIn(s) == {p \in stored : ShardOf(p) = s}

\* Calls about to count an upsert (1) or a deletion (-1) in a shard.
Uncounted(s, delta) ==
    {t \in Task : At(t, "count") /\ task[t].delta = delta /\ ShardOf(task[t].point) = s}

\* Every shard of this node gets new statistics, also one that is there.
CreateLocalShards(t) ==
    /\ At(t, "create") /\ LocalShardsWritable
    /\ LET mine == {s \in DOMAIN shard_map :
                       Me \in {shard_map[s].primary} \cup shard_map[s].replicas}
       IN  /\ local_shards' = [s \in DOMAIN local_shards \cup mine |->
                                  IF s \in mine THEN 0 ELSE local_shards[s]]
           /\ forgotten' = forgotten \cup {s \in mine : StoredIn(s) # {} \/ Uncounted(s, -1) # {}}
    /\ Goto(t, Idle)
    /\ UNCHANGED <<shard_map, stored, stranded>>

-----------------------------------------------------------------------------
(* upsert_vector, delete_vector: store, then count, under different locks *)

\* Upserts counted in a shard and those on their way, which MaxCount bounds.
Upserts(s) ==
    local_shards[s] + Cardinality({t \in Task : At(t, "upsert") /\ ShardOf(task[t].point) = s})
                    + Cardinality(Uncounted(s, 1))

\* get_local_shard decides whether the request is served here.
Request(t, op, p) ==
    /\ At(t, "idle")
    /\ op = "upsert" /\ ShardOf(p) \in DOMAIN local_shards => Upserts(ShardOf(p)) < MaxCount
    /\ Goto(t, IF ShardOf(p) \in DOMAIN local_shards
               THEN [pc |-> op, point |-> p]
               ELSE [pc |-> "forward", point |-> p])
    /\ UNCHANGED <<shard_map, local_shards, stored, forgotten, stranded>>

CountFor(t, p, delta) == Goto(t, [pc |-> "count", point |-> p, delta |-> delta])

\* An upsert counts, also when it overwrites; an error of the storage ends it.
StoreVector(t) ==
    /\ At(t, "upsert")
    /\ \/ /\ stored' = stored \cup {task[t].point}
          /\ CountFor(t, task[t].point, 1)
       \/ Goto(t, Idle) /\ UNCHANGED stored
    /\ UNCHANGED <<shard_map, local_shards, forgotten, stranded>>

\* Mutant: a point that was not there is counted as deleted.
DeleteVectorAlwaysCounted(t) ==
    /\ At(t, "delete")
    /\ stored' = stored \ {task[t].point}
    /\ CountFor(t, task[t].point, -1)
    /\ UNCHANGED <<shard_map, local_shards, forgotten, stranded>>

DeleteVector(t) ==
    /\ At(t, "delete")
    /\ \/ /\ stored' = stored \ {task[t].point}
          /\ IF task[t].point \in stored THEN CountFor(t, task[t].point, -1)
             ELSE Goto(t, Idle)
       \/ Goto(t, Idle) /\ UNCHANGED stored
    /\ UNCHANGED <<shard_map, local_shards, forgotten, stranded>>

\* update_shard_stats: the count stops at zero; a shard that has left is ignored.
UpdateShardStats(t) ==
    /\ At(t, "count") /\ LocalShardsWritable
    /\ LET s == ShardOf(task[t].point)
       IN  local_shards' =
               IF s \in DOMAIN local_shards
               THEN [local_shards EXCEPT ![s] = LET c == @ + task[t].delta
                                                IN  IF c < 0 THEN 0 ELSE c]
               ELSE local_shards
    /\ Goto(t, Idle)
    /\ UNCHANGED <<shard_map, stored, forgotten, stranded>>

\* A shard of another node: the call is sent, or fails; nothing changes here.
Forward(t) ==
    /\ At(t, "forward")
    /\ Goto(t, Idle)
    /\ UNCHANGED <<shard_map, local_shards, stored, forgotten, stranded>>

-----------------------------------------------------------------------------
(* search_vectors *)

SearchLocal(t) ==
    /\ At(t, "idle")
    /\ Goto(t, [pc |-> "search", local |-> DOMAIN local_shards])
    /\ UNCHANGED <<shard_map, local_shards, stored, forgotten, stranded>>

\* Every other shard of the map is asked for at its primary; the answers are
\* awaited with both locks held.
SearchRemote(t) ==
    /\ At(t, "search")
    /\ Goto(t, [pc |-> "answer", local |-> task[t].local,
                remote |-> DOMAIN shard_map \ DOMAIN local_shards])
    /\ UNCHANGED <<shard_map, local_shards, stored, forgotten, stranded>>

SearchReturns(t) ==
    /\ At(t, "answer")
    /\ Goto(t, Idle)
    /\ UNCHANGED <<shard_map, local_shards, stored, forgotten, stranded>>

-----------------------------------------------------------------------------
(* get_shard_health *)

\* Sizes are never counted and latencies never measured.
Healthy(s) == local_shards[s] <= MaxVectorsPerShard

-----------------------------------------------------------------------------
(* migrate_shard *)

\* Any shard that is here, to any node, this one included.
MigrateShard(t, s, n) ==
    /\ At(t, "idle") /\ LocalShardsWritable
    /\ s \in DOMAIN local_shards
    /\ Goto(t, [pc |-> "copy", shard |-> s, to |-> n])
    /\ UNCHANGED <<shard_map, local_shards, stored, forgotten, stranded>>

\* Counts, hashes and the index are compared with copies of the local values.
IntegrityCheckPasses == TRUE

\* Mutant: the local shard is cleaned up without a change of the map.
CopyShardWithoutMapping(t) ==
    /\ At(t, "copy")
    /\ Goto(t, IF task[t].shard \in DOMAIN local_shards
               THEN [task[t] EXCEPT !.pc = "cleanup"] ELSE Idle)
    /\ UNCHANGED <<shard_map, local_shards, stored, forgotten, stranded>>

\* The data is collected, which fails if the shard has gone meanwhile, sent,
\* which may fail, and checked.
CopyShard(t) ==
    /\ At(t, "copy")
    /\ \/ /\ task[t].shard \in DOMAIN local_shards /\ IntegrityCheckPasses
          /\ Goto(t, [task[t] EXCEPT !.pc = "map"])
       \/ Goto(t, Idle)
    /\ UNCHANGED <<shard_map, local_shards, stored, forgotten, stranded>>

UpdateShardMapping(t) ==
    /\ At(t, "map") /\ ShardMapWritable
    /\ shard_map' = [shard_map EXCEPT ![task[t].shard].primary = task[t].to]
    /\ Goto(t, [task[t] EXCEPT !.pc = "cleanup"])
    /\ stranded' = IF task[t].to = Me THEN stranded \cup {task[t].shard} ELSE stranded
    /\ UNCHANGED <<local_shards, stored, forgotten>>

\* cleanup_shard_storage_data only logs: the points stay in the storage.
StoredAfterCleanup == stored

CleanupLocalShard(t) ==
    /\ At(t, "cleanup") /\ LocalShardsWritable
    /\ local_shards' = [s \in DOMAIN local_shards \ {task[t].shard} |-> local_shards[s]]
    /\ stored' = StoredAfterCleanup
    /\ Goto(t, Idle)
    /\ UNCHANGED <<shard_map, forgotten, stranded>>

Next ==
    \E t \in Task :
        \/ InitializeShards(t) \/ CreateLocalShards(t)
        \/ \E p \in Point, op \in {"upsert", "delete"} : Request(t, op, p)
        \/ StoreVector(t) \/ DeleteVector(t) \/ UpdateShardStats(t) \/ Forward(t)
        \/ SearchLocal(t) \/ SearchRemote(t) \/ SearchReturns(t)
        \/ \E s \in Shard, n \in Node : MigrateShard(t, s, n)
        \/ CopyShard(t) \/ UpdateShardMapping(t) \/ CleanupLocalShard(t)

Spec == Init /\ [][Next]_vars

-----------------------------------------------------------------------------
\* Every hash belongs to the shard whose range, as the map announces it, holds
\* it, for any number of shards (shard.rs:432-443, 612-615).
KeysLieInTheirShard ==
    \A count \in 1..ShardCount + 1, h \in 0..MaxHash :
        RangeShard(h, count) < count /\ h \in HashRange(RangeShard(h, count), count)

\* No text begins with more than F4 8F, the last of UTF-8; so the ranges by first
\* bytes need no bound on the last of them, as those by hash do, for up to a
\* thousand shards (shard.rs:535-552).
TextsLieInSomeShard ==
    LET last == 62607 IN \A count \in 1..1000 : AsyncRangeShard(last, count) < count

\* The count of a local shard covers the points stored in it but for those about
\* to be counted, though storing, deleting and counting are different steps
\* under different locks; and so a shard with too many points reports itself.
\* Statistics that were reset over stored points, or over a deletion about to be
\* counted, are exempt (shard.rs:641-644, 664-670, 912).
CountCoversStored ==
    \A s \in DOMAIN local_shards \ forgotten :
        /\ local_shards[s] >= Cardinality(StoredIn(s)) - Cardinality(Uncounted(s, 1))
        /\ Uncounted(s, 1) = {} /\ Cardinality(StoredIn(s)) > MaxVectorsPerShard => ~Healthy(s)

\* A shard whose primary is this node is held here: no migration gives it up
\* before the map says so, whatever initialisation or other migration runs
\* beside it.  Exempt are the two ways that strand a shard: a map initialised
\* again between the last two steps of a migration, and a migration to this
\* node itself, which nothing refuses (shard.rs:926, 960, 965, 1103).
PrimaryIsServed ==
    (\A t \in Task : ~At(t, "create")) =>
        \A s \in DOMAIN shard_map \ stranded :
            shard_map[s].primary = Me => s \in DOMAIN local_shards

\* A search asks every shard of the map exactly once, here or elsewhere,
\* although shards are created, migrated and removed meanwhile (shard.rs:767,
\* 834-841).
SearchCoversEveryShardOnce ==
    \A t \in Task : At(t, "answer") =>
        /\ task[t].local \cap task[t].remote = {}
        /\ task[t].local \cup task[t].remote = DOMAIN shard_map

\* Every shard is served: what belongs here is here, and a search leaves no shard
\* out (shard.rs:945-965, 767-841).
EveryShardIsServed == PrimaryIsServed /\ SearchCoversEveryShardOnce

-----------------------------------------------------------------------------
(* ConsistentHashRing, which the shard manager owns: virtual nodes on a    *)
(* ring of hashes, the weights of the nodes, and a cache of routed keys.   *)
(* Hash values are positions 0..RingSize-1; VirtualHash and KeyHash stand  *)
(* for hash_key.  virtual_nodes and sorted_hashes change together and are  *)
(* one function of the occupied positions.  The other readers of the ring, *)
(* get_shard_id and get_shard_id_async, change nothing in it but the cache *)
(* and are not modelled.                                                   *)

CONSTANTS RingNode, Key,
          RingSize,      \* bound on the hashes, u64 in the code
          PerWeight,     \* virtual_node_count
          MaxWeight,
          CacheMax,      \* cache_max_size
          EvictedAtOnce, \* a tenth of it
          VirtualHash,   \* hash of "node:i"
          KeyHash        \* hash of a key

Position == 0..RingSize - 1
Copies == 0..PerWeight * MaxWeight - 1

ASSUME RingAssumption ==
    /\ {RingSize, PerWeight, MaxWeight, CacheMax} \subseteq Nat \ {0}
    /\ EvictedAtOnce \in 0..CacheMax
    /\ VirtualHash \in [RingNode \X Copies -> Position]
    /\ KeyHash \in [Key -> Position]

\* Two virtual nodes do not collide on 64 bits.
NoCollision ==
    \A a, b \in RingNode \X Copies : VirtualHash[a] = VirtualHash[b] => a = b

VARIABLES virtual_nodes,  \* occupied position -> node
          node_weights,   \* node -> weight
          routing_cache,  \* key -> node
          lowered         \* nodes added again with a lower weight

ringVars == <<virtual_nodes, node_weights, routing_cache, lowered>>

RingInit ==
    /\ virtual_nodes = << >> /\ node_weights = << >> /\ routing_cache = << >>
    /\ lowered = {}

-----------------------------------------------------------------------------
\* The positions of a node's virtual nodes for a weight.
PositionsOf(n, w) == {VirtualHash[<<n, i>>] : i \in 0..PerWeight * w - 1}

\* Mutant: keys are dealt out by the number of virtual nodes.
SuccessorByModulo(points, h) ==
    CHOOSE p \in DOMAIN points : Cardinality({q \in DOMAIN points : q < p})
                                    = h % Cardinality(DOMAIN points)

\* The first occupied position at or after h, else the first of the ring.
Successor(points, h) ==
    LET after == {p \in DOMAIN points : p >= h}
    IN  Min(IF after = {} THEN DOMAIN points ELSE after)

\* The node that the ring gives a key.
OwnerOf(points, k) == points[Successor(points, KeyHash[k])]

\* Add a node, or add it again with another weight: virtual nodes are only
\* ever inserted.
AddNode(n, w) ==
    /\ node_weights' = [m \in DOMAIN node_weights \cup {n} |->
                           IF m = n THEN w ELSE node_weights[m]]
    /\ virtual_nodes' = [p \in DOMAIN virtual_nodes \cup PositionsOf(n, w) |->
                            IF p \in PositionsOf(n, w) THEN n ELSE virtual_nodes[p]]
    /\ routing_cache' = << >>
    /\ lowered' = IF n \in DOMAIN node_weights /\ w < node_weights[n]
                  THEN lowered \cup {n} ELSE lowered

\* Mutant: the cache survives a removal.
RemoveNodeKeepsCache(n) ==
    /\ n \in DOMAIN node_weights
    /\ node_weights' = Restrict(node_weights, DOMAIN node_weights \ {n})
    /\ virtual_nodes' = Restrict(virtual_nodes,
                           DOMAIN virtual_nodes \ PositionsOf(n, node_weights[n]))
    /\ UNCHANGED <<routing_cache, lowered>>

\* Remove a known node, with the virtual nodes of its present weight.
RemoveNode(n) ==
    /\ n \in DOMAIN node_weights
    /\ node_weights' = Restrict(node_weights, DOMAIN node_weights \ {n})
    /\ virtual_nodes' = Restrict(virtual_nodes,
                           DOMAIN virtual_nodes \ PositionsOf(n, node_weights[n]))
    /\ routing_cache' = << >>
    /\ UNCHANGED lowered

\* Route a key that is not in the cache; a full cache first gives up a tenth
\* of its entries, whichever the map yields first.
GetNode(k) ==
    /\ k \notin DOMAIN routing_cache /\ virtual_nodes # << >>
    /\ \E gone \in SUBSET DOMAIN routing_cache :
          /\ Cardinality(gone) = IF Cardinality(DOMAIN routing_cache) >= CacheMax
                                 THEN EvictedAtOnce ELSE 0
          /\ routing_cache' = [j \in (DOMAIN routing_cache \ gone) \cup {k} |->
                                  IF j = k THEN OwnerOf(virtual_nodes, k)
                                  ELSE routing_cache[j]]
    /\ UNCHANGED <<virtual_nodes, node_weights, lowered>>

RingNext ==
    \/ \E n \in RingNode : (\E w \in 0..MaxWeight : AddNode(n, w)) \/ RemoveNode(n)
    \/ \E k \in Key : GetNode(k)

RingSpec == RingInit /\ [][RingNext]_ringVars

-----------------------------------------------------------------------------
RingTypeOK ==
    /\ DOMAIN virtual_nodes \subseteq Position
    /\ \A p \in DOMAIN virtual_nodes : virtual_nodes[p] \in RingNode
    /\ DOMAIN node_weights \subseteq RingNode
    /\ \A n \in DOMAIN node_weights : node_weights[n] \in 0..MaxWeight
    /\ DOMAIN routing_cache \subseteq Key
    /\ lowered \subseteq RingNode

\* A cached route is the route that the ring gives now, through additions,
\* changes of weight and removals (shard.rs:245).
CacheFollowsRing ==
    \A k \in DOMAIN routing_cache :
        /\ virtual_nodes # << >>
        /\ routing_cache[k] = OwnerOf(virtual_nodes, k)

\* The ring holds just the virtual nodes of its members, except those of nodes
\* whose weight was lowered: these stay for good, also when the node is removed
\* (shard.rs:202, 226).
RingMatchesWeights ==
    /\ \A n \in DOMAIN node_weights : \A p \in PositionsOf(n, node_weights[n]) :
          p \in DOMAIN virtual_nodes /\ virtual_nodes[p] = n
    /\ \A p \in DOMAIN virtual_nodes : LET n == virtual_nodes[p] IN
          n \in lowered \/ (n \in DOMAIN node_weights /\ p \in PositionsOf(n, node_weights[n]))

\* The ring is what the weights of its nodes say, and a cached route the one
\* that the ring gives, whatever nodes have come, gone or changed their weight
\* since it was cached (shard.rs:198-301).
CachedRouteIsCurrent == RingTypeOK /\ RingMatchesWeights /\ CacheFollowsRing

Rerouted(k) ==
    \/ virtual_nodes = << >> \/ virtual_nodes' = << >>
    \/ OwnerOf(virtual_nodes', k) # OwnerOf(virtual_nodes, k)

\* Consistency of the hashing: a change of the ring moves keys to the node that
\* is added or away from the node that is removed, and no others
\* (shard.rs:198, 223, 243).
OnlyOwnKeysMove ==
    [][/\ \A n \in RingNode, w \in 0..MaxWeight : AddNode(n, w) =>
             \A k \in Key : virtual_nodes # << >> /\ Rerouted(k) =>
                 OwnerOf(virtual_nodes', k) = n
       /\ \A n \in RingNode : RemoveNode(n) =>
             \A k \in Key : virtual_nodes # << >> /\ Rerouted(k) =>
                 OwnerOf(virtual_nodes, k) = n]_ringVars
=============================================================================
