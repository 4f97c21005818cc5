---------------------------- MODULE LoadBalancing ----------------------------
(***************************************************************************)
(* How the load balancer of src/distributed/load_balancer.rs chooses one   *)
(* of its healthy nodes, and what check_load_balance reports.              *)
(* RequestRouting says what becomes of the node's health afterwards.       *)
(*                                                                         *)
(* route_request holds the read lock of the weights from its first look to *)
(* the end; the counter and the statistics have locks of their own, so     *)
(* that routers draw in one order and are counted in another, while adding,*)
(* removing and updating a node wait.                                      *)
(***************************************************************************)
EXTENDS Integers, Sequences, FiniteSets, SequencesExt

CONSTANTS Balanced,  \* nodes that may be known to the balancer
          Router, NoNode,
          Strategies, \* values of config.strategy
          Tier,      \* location of each node: latency_tier, or 0 for none
          Center,    \* location of each node: datacenter
          MaxRouted  \* bound: requests routed

ASSUME BalancingAssumption ==
    /\ IsFiniteSet(Balanced) /\ IsFiniteSet(Router) /\ NoNode \notin Balanced
    /\ Strategies \subseteq {"RoundRobin", "WeightedRoundRobin", "LeastConnections",
                             "LoadBased", "LocationAware"}
    /\ Tier \in [Balanced -> 0..5]
    /\ MaxRouted \in Nat

VARIABLES strategy,      \* set when the balancer is made
          node_weights,  \* the nodes in the order the map yields them
          unhealthy,     \* those of them that are not healthy
          current_connections,
          round_robin_counter,
          routing_stats, \* of the nodes that have been routed to
          chosen,        \* what each router has chosen and not yet counted
          drawn          \* history: choices since the healthy nodes last changed

balanceVars == <<strategy, node_weights, unhealthy, current_connections, round_robin_counter,
                 routing_stats, chosen, drawn>>

NoneDrawn == [n \in Balanced |-> 0]

BalanceInit ==
    /\ strategy \in Strategies
    /\ node_weights = << >> /\ unhealthy = {}
    /\ current_connections = [n \in Balanced |-> 0]
    /\ round_robin_counter = 0
    /\ routing_stats = << >>
    /\ chosen = [r \in Router |-> NoNode]
    /\ drawn = NoneDrawn

Known == {node_weights[i] : i \in DOMAIN node_weights}
HealthyNodes == Known \ unhealthy

\* healthy_nodes keeps the order of the map: n has the index that counts the
\* healthy nodes before it.
Before(m, n) ==
    \E i, j \in DOMAIN node_weights : i < j /\ node_weights[i] = m /\ node_weights[j] = n
IndexOf(n) == Cardinality({m \in HealthyNodes : Before(m, n)})

-----------------------------------------------------------------------------
\* The nodes a strategy may return.  Weights and response times are left open,
\* so that every node may have the best score.
Best(nodes) == nodes

\* select_location_aware: the data centre of the node with the lowest tier, and
\* in it any node; without locations, any node.
NearestCenters ==
    LET located == {n \in HealthyNodes : Tier[n] # 0}
    IN  {Center[n] : n \in {m \in located : \A o \in located : Tier[m] <= Tier[o]}}

Selectable ==
    CASE strategy = "LeastConnections" ->
            {n \in HealthyNodes : \A m \in HealthyNodes :
                current_connections[n] <= current_connections[m]}
      [] strategy = "LocationAware" ->
            IF NearestCenters = {} THEN Best(HealthyNodes)
            ELSE Best({n \in HealthyNodes : Tier[n] # 0 /\ Center[n] \in NearestCenters})
      [] OTHER -> Best(HealthyNodes)

\* Mutant: the counter wraps one node early.
SelectRoundRobinShort(n) ==
    /\ IndexOf(n) = round_robin_counter % Cardinality(HealthyNodes)
    /\ round_robin_counter' =
           IF round_robin_counter + 2 >= Cardinality(HealthyNodes) THEN 0
           ELSE round_robin_counter + 1

\* select_round_robin.
SelectRoundRobin(n) ==
    /\ IndexOf(n) = round_robin_counter % Cardinality(HealthyNodes)
    /\ round_robin_counter' = (round_robin_counter + 1) % Cardinality(HealthyNodes)

\* The requests counted, one by one, and their number.
Counted == UNION {{n} \X (1..routing_stats[n]) : n \in DOMAIN routing_stats}
Routed == Cardinality(Counted)

InFlight == {r \in Router : chosen[r] # NoNode}

\* route_request up to the choice.
Choose(r) ==
    /\ r \notin InFlight /\ Routed + Cardinality(InFlight) < MaxRouted
    /\ \E n \in HealthyNodes :
          /\ \/ strategy = "RoundRobin" /\ SelectRoundRobin(n)
             \/ strategy # "RoundRobin" /\ n \in Selectable /\ UNCHANGED round_robin_counter
          /\ chosen' = [chosen EXCEPT ![r] = n]
          /\ drawn' = [drawn EXCEPT ![n] = @ + 1]
    /\ UNCHANGED <<strategy, node_weights, unhealthy, current_connections, routing_stats>>

\* The rest of route_request.
Count(r) ==
    /\ chosen[r] # NoNode
    /\ routing_stats' =
           IF chosen[r] \in DOMAIN routing_stats
           THEN [routing_stats EXCEPT ![chosen[r]] = @ + 1]
           ELSE [n \in DOMAIN routing_stats \cup {chosen[r]} |->
                    IF n = chosen[r] THEN 1 ELSE routing_stats[n]]
    /\ chosen' = [chosen EXCEPT ![r] = NoNode]
    /\ UNCHANGED <<strategy, node_weights, unhealthy, current_connections, round_robin_counter,
                   drawn>>

-----------------------------------------------------------------------------
\* No writer passes a route_request.
Unread == InFlight = {}

\* add_node: the map may take any order.
AddWeight(n) ==
    /\ Unread /\ n \notin Known
    /\ node_weights' \in SetToSeqs(Known \cup {n})
    /\ unhealthy' = unhealthy \ {n}
    /\ current_connections' = [current_connections EXCEPT ![n] = 0]
    /\ drawn' = NoneDrawn
    /\ UNCHANGED <<strategy, round_robin_counter, routing_stats, chosen>>

\* remove_node forgets the node and keeps its statistics.
RemoveWeight(n) ==
    /\ Unread
    /\ \E i \in DOMAIN node_weights :
          /\ node_weights[i] = n
          /\ node_weights' = [j \in 1..Len(node_weights) - 1 |->
                                 node_weights[IF j < i THEN j ELSE j + 1]]
    /\ unhealthy' = unhealthy \ {n}
    /\ drawn' = NoneDrawn
    /\ UNCHANGED <<strategy, current_connections, round_robin_counter, routing_stats, chosen>>

\* update_node_health and the health sweep.
UpdateWeight(n, healthy) ==
    /\ Unread /\ n \in Known
    /\ unhealthy' = IF healthy THEN unhealthy \ {n} ELSE unhealthy \cup {n}
    /\ drawn' = IF unhealthy' = unhealthy THEN drawn ELSE NoneDrawn
    /\ UNCHANGED <<strategy, node_weights, current_connections, round_robin_counter,
                   routing_stats, chosen>>

\* update_node_connections.
UpdateConnections(n, count) ==
    /\ Unread /\ n \in Known
    /\ current_connections' = [current_connections EXCEPT ![n] = count]
    /\ UNCHANGED <<strategy, node_weights, unhealthy, round_robin_counter, routing_stats,
                   chosen, drawn>>

-----------------------------------------------------------------------------
Absolute(x) == IF x < 0 THEN -x ELSE x

\* check_load_balance: the deviation of a counted node from the total divided
\* by the number of known nodes is below 15 percent.
WithinShare(n) ==
    100 * Absolute(routing_stats[n] * Len(node_weights) - Routed) < 15 * Routed

IsBalanced ==
    \/ node_weights = << >> \/ Routed = 0
    \/ \A n \in DOMAIN routing_stats : WithinShare(n)

BalanceNext ==
    \/ \E r \in Router : Choose(r) \/ Count(r)
    \/ \E n \in Balanced : AddWeight(n) \/ RemoveWeight(n)
                           \/ UpdateWeight(n, TRUE) \/ UpdateWeight(n, FALSE)
                           \/ (\E k \in 0..1 : UpdateConnections(n, k))

BalanceSpec == BalanceInit /\ [][BalanceNext]_balanceVars

-----------------------------------------------------------------------------
BalancingTypeOK ==
    /\ strategy \in Strategies
    /\ node_weights \in Seq(Balanced) /\ unhealthy \subseteq Known
    /\ round_robin_counter \in Nat
    /\ DOMAIN routing_stats \subseteq Balanced
    /\ \A n \in DOMAIN routing_stats : routing_stats[n] \in Nat \ {0}
    /\ chosen \in [Router -> Balanced \cup {NoNode}]
    /\ drawn \in [Balanced -> Nat]

\* As long as the same nodes are healthy, the turns the round-robin counter
\* gives differ by at most one, wherever the counter stood when they became
\* healthy and however routers overlap (select_round_robin).
RoundRobinEven ==
    strategy = "RoundRobin" =>
        \A m, n \in HealthyNodes : drawn[m] <= drawn[n] + 1

\* A report of balance means that every node had its share: while no node that
\* was routed to has been removed, and with up to seven nodes, one that is left
\* out altogether shows in the shares of the others (check_load_balance looks
\* at the counted nodes only).
BalanceMeansShares ==
    /\ DOMAIN routing_stats \subseteq Known /\ Len(node_weights) <= 7
    /\ Routed > 0 /\ IsBalanced
    => Known = DOMAIN routing_stats

\* Turns are even, and shares that are reported as balanced are
\* (load_balancer.rs:363, 513).
BalancingIsFair == BalancingTypeOK /\ RoundRobinEven /\ BalanceMeansShares
=============================================================================
