-------------------------- MODULE MCRequestRouting --------------------------
(***************************************************************************)
(* What a request meets in the cluster: its routing, the choice of a node, *)
(* its delivery, the replication of its data, and a Raft node.  Each part  *)
(* is explored while the others stand at their initial state.              *)
(*                                                                         *)
(* Routing: three nodes, one of them a seed removed after two failed       *)
(* probes, and two requests: a request has two backups, of which one retry *)
(* reaches only the first, and a second request can time out where the     *)
(* first one still waits.                                                  *)
(*                                                                         *)
(* Balancing: two routers and three choices among three nodes, one in no   *)
(* data centre.                                                            *)
(*                                                                         *)
(* Delivery: a caller and three nodes, one more than the router tries;     *)
(* attempts sent twice on each target, and answers that are cached for one *)
(* of three ticks.                                                         *)
(*                                                                         *)
(* Replication: two pieces of data and one shard, whose group has no, one, *)
(* two or three replicas: no quorum at all, all of them, and a majority of *)
(* two of three.                                                           *)
(*                                                                         *)
(* Raft: a node that can hear leaders of terms 1 and 3, whose logs agree   *)
(* on the first entry, and lead term 2 itself: entries of the node conflict *)
(* with those of the later leader, and delayed requests of the earlier one *)
(* can arrive among them.                                                  *)
(*                                                                         *)
(* Requests, data, and nodes that are no seeds, are alike.                 *)
(***************************************************************************)
EXTENDS RaftNode, RequestRouting, RequestDelivery, Replication,
        LoadBalancing, TLC

MCLeaderLog == (1 :> <<1, 1>>) @@ (3 :> <<1, 3>>)
MCLeaderCommit == (1 :> 1) @@ (3 :> 2)

MCLayouts == {[primary |-> "a", replicas |-> <<>>],
              [primary |-> "a", replicas |-> <<"b">>],
              [primary |-> "b", replicas |-> <<"c", "a">>],
              [primary |-> "a", replicas |-> <<"b", "c", "d">>]}

Interchangeable ==
    Permutations(Request) \cup Permutations(Member \ Seed)
    \cup Permutations(Data)

MCTier == [n \in Balanced |-> CASE n = "m1" -> 1 [] n = "m2" -> 2 [] OTHER -> 0]
MCCenter == [n \in Balanced |-> n]

ASSUME RaftAssumption

-----------------------------------------------------------------------------
\* The part a behaviour is about; the others rest in one initial state.
VARIABLE part

ClusterInit ==
    /\ part \in {"routing", "delivery", "balancer", "copying", "raft"}
    /\ RoutingInit /\ (part = "routing" \/ entry = [n \in Member |-> "healthy"])
    /\ DeliveryInit
    /\ BalanceInit /\ (part = "balancer" \/ strategy = "RoundRobin")
    /\ ReplicationInit /\ (part = "copying" \/ policy = "quorum")
    /\ Init

\* The steps of the next-state relations, one by one.
Routing(A) ==
    /\ part = "routing" /\ A
    /\ UNCHANGED <<part, deliveryVars, balanceVars, rvars, vars>>
Delivery(A) ==
    /\ part = "delivery" /\ A
    /\ UNCHANGED <<part, routingVars, balanceVars, rvars, vars>>
Balancer(A) ==
    /\ part = "balancer" /\ A
    /\ UNCHANGED <<part, routingVars, deliveryVars, rvars, vars>>
Copying(A) ==
    /\ part = "copying" /\ A
    /\ UNCHANGED <<part, routingVars, deliveryVars, balanceVars, vars>>
Raft(A) ==
    /\ part = "raft" /\ A
    /\ UNCHANGED <<part, routingVars, deliveryVars, balanceVars, rvars>>

ClusterNext ==
    \/ \E r \in Request :
        \/ Routing(Route(r)) \/ Routing(Succeed(r))
        \/ Routing(FailWithError(r)) \/ Routing(TimeOut(r))
        \/ \E n \in Member : Routing(Execute(n, r))
    \/ \E n \in Member : Routing(AddNode(n)) \/ Routing(RemoveNode(n)) \/ Routing(Sweep(n))
    \/ \E s \in Seed : Routing(ProbeSucceeds(s)) \/ Routing(ProbeFails(s))
    \/ \E c \in Caller :
        \/ (\E i \in Id : Delivery(BeginSearch(c, i))) \/ Delivery(BeginInsert(c))
        \/ \E targets \in TargetLists : Delivery(RouteTo(c, targets))
        \/ Delivery(Send(c)) \/ Delivery(ExecuteSent(c)) \/ Delivery(Receive(c))
        \/ Delivery(AttemptFails(c)) \/ Delivery(TargetTimesOut(c))
    \/ Delivery(CleanCache) \/ Delivery(Tick)
    \/ \E r \in Router : Balancer(Choose(r)) \/ Balancer(Count(r))
    \/ \E n \in Balanced :
        \/ Balancer(AddWeight(n)) \/ Balancer(RemoveWeight(n))
        \/ \E healthy \in BOOLEAN : Balancer(UpdateWeight(n, healthy))
        \/ \E k \in 0..1 : Balancer(UpdateConnections(n, k))
    \/ \E s \in Shard :
        \/ \E l \in Layouts : Copying(AddReplicaGroup(s, l))
        \/ Copying(RemoveReplicaGroup(s))
        \/ \E n \in Node : Copying(UpdateSyncState(s, n, "synced"))
        \/ \E d \in Data : Copying(BeginReplicate(d, s))
    \/ \E d \in Data : Copying(SendToNext(d)) \/ Copying(EndReplicate(d))
    \/ \E c \in Candidate, t \in 1..MaxTerm, i \in 0..MaxLog, lt \in 0..MaxTerm :
           lt <= t /\ (i = 0 <=> lt = 0) /\ Raft(HandleVoteRequest(c, t, i, lt))
    \/ Raft(StartElection) \/ Raft(FinishElection)
    \/ \E t \in LeaderTerm, i \in 0..MaxLog : \E c \in 0..LeaderCommit[t] :
           Raft(HandleAppendRequest(t, i, c)) \/ Raft(HandleHeartbeat(t, i, c))
    \/ Raft(HandleClientCommand) \/ Raft(FinishReplication)
    \/ Raft(ApplierReadsCommit) \/ (\E c \in applying : Raft(ApplierRuns(c)))
    \/ Raft(Restart)

ClusterSpec ==
    ClusterInit
    /\ [][ClusterNext]_<<part, routingVars, deliveryVars, balanceVars, rvars, vars>>
=============================================================================
