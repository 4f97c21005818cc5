----------------------------- MODULE Membership -----------------------------
(***************************************************************************)
(* The cluster manager (src/distributed/cluster.rs) and the service around *)
(* it (cluster_service.rs): who is a member, which nodes hold each shard   *)
(* when a member leaves, and what joining through a seed replaces.         *)
(*                                                                         *)
(* Each operation of the service runs as a task that other tasks may       *)
(* overtake between its call to the manager and its call to the balancer.  *)
(* Nothing refreshes last_heartbeat, since the receiver of the heartbeat   *)
(* channel is dropped in ClusterManager::new, so that any node may time    *)
(* out.  handle_node_failure has no caller and is not modelled.            *)
(***************************************************************************)
EXTENDS Integers, Sequences, FiniteSetsExt, SequencesExt

CONSTANTS ClusterNode, \* nodes that may become members
          Seed,        \* configured seed addresses, known by that name
          Local,       \* the local node, never a member of its own table
          TableShard,
          MaxNodes,    \* config.max_nodes
          SeedInfo,    \* the ClusterInfo that a seed may answer with
          ServiceTask

\* A seed's table names healthy or unhealthy members, and shards that they hold.
ASSUME MembershipAssumption ==
    /\ IsFiniteSet(ClusterNode) /\ IsFiniteSet(TableShard)
    /\ Local \notin ClusterNode /\ MaxNodes \in Nat
    /\ \A seen \in SeedInfo :
          /\ seen.nodes \in [DOMAIN seen.nodes -> {"Healthy", "Unhealthy"}]
          /\ seen.shards \in [DOMAIN seen.shards -> [primary  : DOMAIN seen.nodes,
                                                    replicas : SUBSET DOMAIN seen.nodes]]
          /\ DOMAIN seen.nodes \subseteq ClusterNode /\ DOMAIN seen.shards \subseteq TableShard

VARIABLES nodes,      \* cluster_info.nodes: the state of each member
          shards,     \* cluster_info.shard_map
          balancer,   \* nodes the load balancer may choose
          work,       \* where each call of the service is
          refused     \* history: members whose removal was left half done

info == <<nodes, shards>>
memberVars == <<nodes, shards, balancer, work, refused>>

Members == DOMAIN nodes
Holders(s) == {shards[s].primary} \cup shards[s].replicas

MembershipTypeOK ==
    /\ nodes \in [Members -> {"Healthy", "Unhealthy"}] /\ Members \subseteq ClusterNode
    /\ shards \in [DOMAIN shards -> [primary : ClusterNode, replicas : SUBSET ClusterNode]]
    /\ DOMAIN shards \subseteq TableShard
    /\ balancer \subseteq ClusterNode \cup Seed \cup {Local}
    /\ work \in [ServiceTask -> [pc : {"idle"}]
                   \cup [pc : {"balance_add", "balance_remove"}, node : ClusterNode]]

\* ClusterService::new and start.
MembershipInit ==
    /\ nodes = << >> /\ shards = << >>
    /\ balancer = {Local}
    /\ work = [t \in ServiceTask |-> [pc |-> "idle"]]
    /\ refused = {}

WorkAt(t, pc) == work[t].pc = pc
WorkOn(t, pc, n) == work' = [work EXCEPT ![t] = [pc |-> pc, node |-> n]]
WorkDone(t) == work' = [work EXCEPT ![t] = [pc |-> "idle"]]

-----------------------------------------------------------------------------
(* rebalance_shards_after_node_removal.                                    *)

HealthyAmong(ns) == {n \in DOMAIN ns : ns[n] = "Healthy"}
Affected(n) == {s \in DOMAIN shards : n \in Holders(s)}

\* The nodes that the round robin tries when it goes k steps on from the index.
Tried(healthy, index, k) == {healthy[((index + i) % Len(healthy)) + 1] : i \in 0..k - 1}

\* The replicas of a shard are topped up round robin; the loop gives up when the
\* index, which all the shards share, has gone round twice.
Tries(healthy, primary, replicas, index) ==
    LET target == IF Len(healthy) > 2 THEN 2 ELSE Len(healthy) - 1
    IN  Min({k \in 0..2 * Len(healthy) + 1 :
                \/ Cardinality(replicas \cup (Tried(healthy, index, k) \ {primary})) >= target
                \/ k > 0 /\ index + k > 2 * Len(healthy)})

\* Mutant: the removed node stays among the replicas.
ReassignKeepsReplica(n, healthy, s, index) ==
    IF shards[s].primary = n
    THEN [shard |-> [shards[s] EXCEPT !.primary = healthy[(index % Len(healthy)) + 1]],
          index |-> index + 1]
    ELSE [shard |-> shards[s], index |-> index]

\* One affected shard, from the index on: its primary is replaced by the next
\* healthy node, even one that holds a replica, and n leaves its replicas.
Reassign(n, healthy, s, index) ==
    LET moved   == shards[s].primary = n
        primary == IF moved THEN healthy[(index % Len(healthy)) + 1] ELSE shards[s].primary
        kept    == shards[s].replicas \ {n}
        from    == IF moved THEN index + 1 ELSE index
        tries   == Tries(healthy, primary, kept, from)
    IN  [shard |-> [primary  |-> primary,
                    replicas |-> kept \cup (Tried(healthy, from, tries) \ {primary})],
         index |-> from + tries]

\* Where the index may stand when the loop comes to each shard: it takes them in
\* any order, and goes on from one to the next.
Indices(n, healthy) ==
    LET affected == Affected(n)
    IN  {at \in [affected -> 0..Cardinality(affected) * (2 * Len(healthy) + 2)] :
            \E order \in SetToSeqs(affected) :
                /\ at[order[1]] = 0
                /\ \A i \in 1..Cardinality(affected) - 1 :
                      at[order[i + 1]] = Reassign(n, healthy, order[i], at[order[i]]).index}

\* The tables that a removal of n may leave.
Rebalanced(n, healthy) ==
    {[s \in DOMAIN shards |->
        IF s \in Affected(n) THEN Reassign(n, healthy, s, at[s]).shard ELSE shards[s]] :
        at \in Indices(n, healthy)}

-----------------------------------------------------------------------------
(* The operations of the service.                                          *)

\* add_node: the manager first, unless it is full, then the balancer.
AddMember(t, n) ==
    /\ WorkAt(t, "idle")
    /\ Cardinality(Members) < MaxNodes
    /\ nodes' = [m \in Members \cup {n} |->
                     IF m = n THEN "Healthy" ELSE nodes[m]]
    /\ WorkOn(t, "balance_add", n)
    /\ UNCHANGED <<shards, balancer, refused>>

BalanceAdd(t) ==
    /\ WorkAt(t, "balance_add")
    /\ balancer' = balancer \cup {work[t].node}
    /\ WorkDone(t)
    /\ UNCHANGED <<info, refused>>

\* remove_node: the member goes before its shards are reassigned; without a
\* healthy node left for them the call fails there, and a repeated call finds
\* no member and succeeds.
RemoveMember(t, n) ==
    LET remaining == [m \in Members \ {n} |-> nodes[m]]
    IN  /\ WorkAt(t, "idle")
        /\ nodes' = remaining
        /\ UNCHANGED balancer
        /\ \/ /\ n \notin Members \/ Affected(n) = {}
              /\ WorkOn(t, "balance_remove", n)
              /\ UNCHANGED <<shards, refused>>
           \/ /\ n \in Members /\ Affected(n) # {}
              /\ \E healthy \in SetToSeqs(HealthyAmong(remaining)) \ {<< >>} :
                     shards' \in Rebalanced(n, healthy)
              /\ WorkOn(t, "balance_remove", n)
              /\ UNCHANGED refused
           \/ /\ n \in Members /\ Affected(n) # {}
              /\ HealthyAmong(remaining) = {}
              /\ refused' = refused \cup {n}
              /\ UNCHANGED <<shards, work>>

BalanceRemove(t) ==
    /\ WorkAt(t, "balance_remove")
    /\ balancer' = balancer \ {work[t].node}
    /\ WorkDone(t)
    /\ UNCHANGED <<info, refused>>

\* Discovery: a seed that answers is balanced; one that failed too often
\* (RequestRouting counts) is not.
SeedProbed(s) ==
    /\ \/ balancer' = balancer \cup {s}
       \/ balancer' = balancer \ {s}
    /\ UNCHANGED <<info, work, refused>>

\* join_cluster: once a seed has answered all three requests its table
\* replaces the local one; before that nothing changes.
JoinCluster(seen) ==
    /\ nodes' = seen.nodes /\ shards' = seen.shards
    /\ refused' = {}
    /\ UNCHANGED <<balancer, work>>

\* leave_cluster, forced or not, moves no shard: it clears the table.
LeaveCluster ==
    /\ nodes' = << >> /\ shards' = << >>
    /\ refused' = {}
    /\ UNCHANGED <<balancer, work>>

\* monitor_cluster_health: silent nodes are unhealthy, and stay so.
MonitorClusterHealth(silent) ==
    /\ silent # {}
    /\ nodes' = [n \in Members |->
                     IF n \in silent THEN "Unhealthy" ELSE nodes[n]]
    /\ UNCHANGED <<shards, balancer, work, refused>>

\* update_node_state has no caller in the repository but is public; to an
\* unhealthy state it does what the monitor does.
UpdateNodeState(n) ==
    /\ nodes' = [nodes EXCEPT ![n] = "Healthy"]
    /\ UNCHANGED <<shards, balancer, work, refused>>

MembershipNext ==
    \/ \E t \in ServiceTask :
           \/ \E n \in ClusterNode : AddMember(t, n) \/ RemoveMember(t, n)
           \/ BalanceAdd(t) \/ BalanceRemove(t)
    \/ \E s \in Seed : SeedProbed(s)
    \/ \E seen \in SeedInfo : JoinCluster(seen)
    \/ LeaveCluster
    \/ \E silent \in SUBSET HealthyAmong(nodes) : MonitorClusterHealth(silent)
    \/ \E n \in Members : UpdateNodeState(n)

MembershipSpec == MembershipInit /\ [][MembershipNext]_memberVars

-----------------------------------------------------------------------------
\* A shard names a node that is no member only if the removal of that node
\* failed for want of a healthy one (remove_node): every other way a member
\* goes takes it out of every shard, as primary and as replica.
OnlyFailedRemovalsOrphan ==
    \A s \in DOMAIN shards : Holders(s) \subseteq Members \cup refused

\* Removing a node costs no other node its copy of a shard
\* (rebalance_shards_after_node_removal): also when the new primary was one
\* of the replicas, and when the round robin gives up early.
RemovalKeepsOtherCopies ==
    [][\A n \in ClusterNode : (\E t \in ServiceTask : RemoveMember(t, n)) =>
           \A s \in DOMAIN shards :
               Holders(s) \ {n} \subseteq
                   {shards'[s].primary} \cup shards'[s].replicas]_memberVars

\* Shards name a lost node only when no healthy one was left, and a member that
\* goes costs no other its copies (cluster.rs:704); the types of the manager are
\* checked with it.
RemovalsLoseNothing ==
    /\ [](MembershipTypeOK /\ OnlyFailedRemovalsOrphan)
    /\ RemovalKeepsOtherCopies
=============================================================================
