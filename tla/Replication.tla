---------------------------- MODULE Replication ----------------------------
(***************************************************************************)
(* ReplicationManager of src/distributed/replication.rs: the replica group *)
(* of each shard, the sync state of its nodes, and the copying of data to  *)
(* the replicas under one of three policies.                               *)
(*                                                                         *)
(* replicate_data reads the group under the lock of replica_groups and     *)
(* keeps that lock while it sends, one replica after the other; whoever    *)
(* changes a group waits until then.                                       *)
(***************************************************************************)
EXTENDS Integers, Sequences, FiniteSets

CONSTANTS Node, Shard,
          Data,        \* pieces of data, each replicated by one call
          NoGroup,
          Policies,    \* the policies a manager may be created with
          Layouts,     \* the groups add_replica_group is called with
          SyncStates   \* the states update_sync_state is called with

\* Nothing in the code checks a layout; callers give every node once.
Layout == [primary : Node, replicas : Seq(Node)]

ASSUME ReplicationAssumption ==
    /\ IsFiniteSet(Node)
    /\ Policies \subseteq {"synchronous", "asynchronous", "quorum"}
    /\ Layouts \subseteq Layout
    /\ \A l \in Layouts : \A i, j \in 1..Len(l.replicas) :
          /\ l.replicas[i] # l.primary
          /\ l.replicas[i] = l.replicas[j] => i = j
    /\ SyncStates \subseteq {"syncing", "synced", "failed", "lagging"}
    /\ \A l \in Layouts : l # NoGroup

VARIABLES policy,   \* sync_policy
          groups,   \* replica_groups: layout and sync_state of each shard
          copies,   \* <<node, data>>: the node has stored the data
          sending   \* the replicate_data call of each piece of data

rvars == <<policy, groups, copies, sending>>

\* Beside its count of successes a call has, as history, who answered it.
Idle == [pc |-> "new", shard |-> NoGroup, next |-> 1, acks |-> 0, from |-> {}]

ReplicationTypeOK ==
    /\ policy \in Policies
    /\ \A s \in Shard : groups[s] # NoGroup =>
          /\ groups[s].layout \in Layouts
          /\ DOMAIN groups[s].sync \subseteq Node
          /\ {groups[s].layout.primary} \cup
                {groups[s].layout.replicas[i] : i \in 1..Len(groups[s].layout.replicas)}
             \subseteq DOMAIN groups[s].sync
    /\ copies \subseteq Node \X Data
    /\ sending \in [Data -> [pc : {"new", "sending", "ok", "err"},
                             shard : Shard \cup {NoGroup},
                             next : Nat \ {0}, acks : Nat, from : SUBSET Node]]

ReplicationInit ==
    /\ policy \in Policies
    /\ groups = [s \in Shard |-> NoGroup]
    /\ copies = {}
    /\ sending = [d \in Data |-> Idle]

-----------------------------------------------------------------------------
Replicas(layout) == {layout.replicas[i] : i \in 1..Len(layout.replicas)}

\* The nodes of the group, for check_replica_consistency and failover.
Concerned(s, n) ==
    /\ groups[s] # NoGroup
    /\ n = groups[s].layout.primary \/ n \in Replicas(groups[s].layout)

\* No call holds the lock of replica_groups.
GroupsUnlocked == \A d \in Data : sending[d].pc # "sending"

\* add_replica_group replaces a group that is there: only the primary counts
\* as synced.
AddReplicaGroup(s, l) ==
    /\ GroupsUnlocked
    /\ groups' = [groups EXCEPT ![s] =
          [layout |-> l,
           sync |-> [n \in {l.primary} \cup Replicas(l) |->
                        IF n \in Replicas(l) THEN "syncing" ELSE "synced"]]]
    /\ UNCHANGED <<policy, copies, sending>>

RemoveReplicaGroup(s) ==
    /\ GroupsUnlocked
    /\ groups' = [groups EXCEPT ![s] = NoGroup]
    /\ UNCHANGED <<policy, copies, sending>>

\* update_sync_state records the state of any node, member or not.
UpdateSyncState(s, n, state) ==
    /\ GroupsUnlocked
    /\ groups[s] # NoGroup
    /\ groups' = [groups EXCEPT ![s].sync =
                     [m \in DOMAIN @ \cup {n} |-> IF m = n THEN state ELSE @[m]]]
    /\ UNCHANGED <<policy, copies, sending>>

-----------------------------------------------------------------------------
\* replicate_data finds the group, or gives up at once.
BeginReplicate(d, s) ==
    /\ sending[d].pc = "new"
    /\ sending' = [sending EXCEPT ![d] =
          IF groups[s] = NoGroup THEN [Idle EXCEPT !.pc = "err"]
          ELSE [Idle EXCEPT !.pc = "sending", !.shard = s]]
    /\ UNCHANGED <<policy, groups, copies>>

ReplicasOf(d) == groups[sending[d].shard].layout.replicas

\* Mutant: half of the replicas are enough.
RequiredHalf(d) == Len(ReplicasOf(d)) \div 2

\* required_confirmations counts the replicas without the primary.
Required(d) == Len(ReplicasOf(d)) \div 2 + 1

\* The next replica is sent the data, up to three times.  Any answer counts as
\* a success, for nobody reads its field success: the replica may have refused.
\* It may as well have stored the data without an answer that arrives.  A quorum
\* ends the call before the rest is tried.
SendToNext(d) ==
    LET call == sending[d]
        node == ReplicasOf(d)[call.next]
    IN /\ call.pc = "sending"
       /\ call.next <= Len(ReplicasOf(d))
       /\ \/ sending' = [sending EXCEPT ![d].next = @ + 1, ![d].acks = @ + 1,
                           ![d].from = @ \cup {node},
                           ![d].pc = IF policy = "quorum"
                                        /\ call.acks + 1 >= Required(d)
                                     THEN "ok" ELSE "sending"]
          \/ sending' = [sending EXCEPT ![d].next = @ + 1]
       /\ copies' \in {copies, copies \cup {<<node, d>>}}
       /\ UNCHANGED <<policy, groups>>

\* Every replica was tried.
EndReplicate(d) ==
    LET call == sending[d]
        success == \/ policy = "asynchronous"
                   \/ policy = "synchronous" /\ call.acks = Len(ReplicasOf(d))
    IN /\ call.pc = "sending"
       /\ call.next > Len(ReplicasOf(d))
       /\ sending' = [sending EXCEPT ![d].pc = IF success THEN "ok" ELSE "err"]
       /\ UNCHANGED <<policy, groups, copies>>

ReplicationNext ==
    \/ \E s \in Shard : \/ \E l \in Layouts : AddReplicaGroup(s, l)
                        \/ RemoveReplicaGroup(s)
    \/ \E s \in Shard, n \in Node, state \in SyncStates : UpdateSyncState(s, n, state)
    \/ \E d \in Data : \/ \E s \in Shard : BeginReplicate(d, s)
                       \/ SendToNext(d)
                       \/ EndReplicate(d)

-----------------------------------------------------------------------------
\* A call that returns Ok has had the answers its policy asks for, of different
\* replicas that the shard still has at that moment: of all of them, or of a
\* majority.  The group is looked up before and used during the sends.
AckKeepsPromise ==
    [][\A d \in Data :
          sending[d].pc = "sending" /\ sending'[d].pc = "ok" =>
             LET s == sending[d].shard
                 all == Replicas(groups'[s].layout)
                 confirming == all \cap sending'[d].from
             IN /\ groups'[s] # NoGroup
                /\ policy = "synchronous" => confirming = all
                /\ policy = "quorum" => 2 * Cardinality(confirming) > Cardinality(all)]_rvars

\* "All replicas have to confirm" (replication.rs:17), "a majority of the replicas
\* confirms" (replication.rs:21): data that is replicated with success is on all
\* replicas, or on a majority of them.
AckMeansStored ==
    [][\A d \in Data :
          sending[d].pc = "sending" /\ sending'[d].pc = "ok" =>
             LET all == Replicas(groups'[sending[d].shard].layout)
                 holding == {n \in all : <<n, d>> \in copies'}
             IN /\ policy = "synchronous" => holding = all
                /\ policy = "quorum" => 2 * Cardinality(holding) > Cardinality(all)]_rvars
=============================================================================
