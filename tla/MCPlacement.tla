---------------------------- MODULE MCPlacement -----------------------------
(***************************************************************************)
(* Where data lies: the store and the index of a database, the shard       *)
(* manager, the hash ring that it owns and never fills, and the shard table *)
(* of the cluster manager.  They share no state; each is explored while    *)
(* the others stand still.                                                 *)
(*                                                                         *)
(* Database: three callers, alike as the tasks of the shard manager are,   *)
(* and the documents of MCVectorDatabase.                                  *)
(*                                                                         *)
(* Shard manager: three nodes and three shards with one replica each.  The *)
(* first node is primary of a shard and replica of another, and may move   *)
(* both to the third, for which the second would do as well, and to        *)
(* itself.  Two points share shard 0, so that one can be deleted while the *)
(* other is stored; the third belongs to a shard that is forwarded to.     *)
(*                                                                         *)
(* Ring: three nodes with up to four virtual nodes, spread so that every   *)
(* node has neighbours of both others; a cache that is full with two keys. *)
(*                                                                         *)
(* Membership: a seed knows all three nodes, or two of them, with two      *)
(* shards laid out as the shard manager does, one or two replicas each:    *)
(* with three members the round robin starts on a node that has a replica, *)
(* with two it runs past twice the healthy nodes, and a member can go when *)
(* no other is healthy.                                                    *)
(***************************************************************************)
EXTENDS Sharding, Membership, MCVectorDatabase, TLC

CONSTANTS n1, n2, n3, p1, p2, p3, seed, local, m1

MCCluster == <<n1, n2, n3>>
MCHashOf == (p1 :> 0) @@ (p2 :> 2) @@ (p3 :> 5)

Interchangeable == Permutations(Task)

Index(n) == CHOOSE i \in 1..3 : MCCluster[i] = n
MCVirtualHash == [c \in {n1, n2, n3} \X (0..3) |-> (5 * (4 * (Index(c[1]) - 1) + c[2])) % 12]
MCKeyHash == [k \in {1, 4, 8} |-> k]

Layout(cluster, copies) ==
    [s \in 0..1 |->
        [primary  |-> cluster[(s % Len(cluster)) + 1],
         replicas |-> {cluster[((s + i) % Len(cluster)) + 1] : i \in 1..copies}
                          \ {cluster[(s % Len(cluster)) + 1]}]]

MCSeedInfo ==
    { [nodes  |-> (n1 :> "Healthy") @@ (n2 :> "Healthy") @@ (n3 :> "Healthy"),
       shards |-> Layout(<<n1, n2, n3>>, copies)] : copies \in {1, 2} }
    \cup
    { [nodes  |-> (n1 :> "Healthy") @@ (n2 :> "Healthy"),
       shards |-> Layout(<<n1, n2>>, 1)] }

-----------------------------------------------------------------------------
ASSUME NoCollision /\ ShardingAssumption /\ KeysLieInTheirShard /\ TextsLieInSomeShard

VARIABLE part   \* the one of them that moves

PlacementInit ==
    /\ Init /\ RingInit /\ MembershipInit /\ DatabaseInit
    /\ part \in {"shards", "ring", "members", "database"}

\* The steps of the next-state relations, one by one.
Shards(A) == part = "shards" /\ A /\ UNCHANGED <<part, ringVars, memberVars, dbVars>>
OnRing(A) == part = "ring" /\ A /\ UNCHANGED <<part, vars, memberVars, dbVars>>
OfMembers(A) == part = "members" /\ A /\ UNCHANGED <<part, vars, ringVars, dbVars>>
OnData(A) == part = "database" /\ A /\ UNCHANGED <<part, vars, ringVars, memberVars>>

PlacementNext ==
    \/ \E t \in Task :
        \/ Shards(InitializeShards(t)) \/ Shards(CreateLocalShards(t))
        \/ \E p \in Point, op \in {"upsert", "delete"} : Shards(Request(t, op, p))
        \/ Shards(StoreVector(t)) \/ Shards(DeleteVector(t)) \/ Shards(UpdateShardStats(t))
        \/ Shards(Forward(t))
        \/ Shards(SearchLocal(t)) \/ Shards(SearchRemote(t)) \/ Shards(SearchReturns(t))
        \/ \E s \in Shard, n \in {n1, n3} : Shards(MigrateShard(t, s, n))
        \/ Shards(CopyShard(t)) \/ Shards(UpdateShardMapping(t))
        \/ Shards(CleanupLocalShard(t))
    \/ \E n \in Node :
        \/ (\E w \in 0..2 : OnRing(AddNode(n, w))) \/ OnRing(RemoveNode(n))
    \/ \E k \in Key : OnRing(GetNode(k))
    \/ \E n \in Node :
        \/ OfMembers(AddMember(m1, n)) \/ OfMembers(RemoveMember(m1, n))
        \/ OfMembers(n \in DOMAIN nodes /\ UpdateNodeState(n))
    \/ OfMembers(BalanceAdd(m1)) \/ OfMembers(BalanceRemove(m1))
    \/ OfMembers(SeedProbed(seed))
    \/ \E seen \in SeedInfo : OfMembers(JoinCluster(seen))
    \/ OfMembers(LeaveCluster)
    \/ \E silent \in SUBSET Node :
          OfMembers(silent \subseteq HealthyAmong(nodes)
                  /\ MonitorClusterHealth(silent))
    \/ \E t \in Client :
        \/ (\E docs \in DocBatches : OnData(BeginAdd(t, docs)))
        \/ (\E id \in Id : OnData(BeginDelete(t, id)))
        \/ OnData(BeginRead(t)) \/ OnData(BeginSearch(t)) \/ OnData(BeginRebuild(t))
        \/ OnData(AddToStore(t)) \/ OnData(AddStoreFails(t)) \/ OnData(AddToIndex(t))
        \/ OnData(DeleteFromIndex(t)) \/ OnData(DeleteFromStore(t))
        \/ OnData(DeleteStoreFails(t)) \/ OnData(ReadStore(t))
        \/ OnData(SearchEntersStore(t)) \/ OnData(SearchAnswers(t))
        \/ OnData(RebuildEntersStore(t)) \/ OnData(RebuildClears(t))
        \/ OnData(RebuildAdds(t)) \/ OnData(RebuildDone(t)) \/ OnData(RebuildFails(t))
    \/ OnData(Restart)

PlacementVars == <<part, vars, ringVars, memberVars, dbVars>>

PlacementSpec == PlacementInit /\ [][PlacementNext]_PlacementVars
=============================================================================
