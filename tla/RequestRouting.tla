--------------------------- MODULE RequestRouting ---------------------------
(***************************************************************************)
(* The load balancer, the request router and the seed discovery of         *)
(* src/distributed (load_balancer.rs, request_router.rs and                *)
(* cluster_service.rs): how a request chooses its nodes, fails over, and   *)
(* what its outcome does to the health the balancer keeps for each node.   *)
(*                                                                         *)
(* Time is left open: an attempt may end in a timeout before, after or     *)
(* without its execution, and any node may go without an update long       *)
(* enough for the health sweep.  Which healthy node a strategy prefers is  *)
(* left open too.                                                          *)
(***************************************************************************)
EXTENDS Integers, Sequences, FiniteSets

CONSTANTS Member,       \* nodes the balancer may know
          Seed,         \* the seed nodes that discovery probes
          Request,      \* client requests
          MaxRetries,   \* config.max_retries
          SeedFailures  \* failed probes in a row that are tolerated (5 in the code)

ASSUME RoutingAssumption ==
    /\ IsFiniteSet(Member) /\ IsFiniteSet(Request)
    /\ Seed \subseteq Member
    /\ MaxRetries \in Nat
    /\ SeedFailures \in Nat

VARIABLES entry,      \* node_weights: a healthy node has a positive weight
          routed,     \* routing_stats, summed over the nodes
          failures,   \* consecutive_failures of the discovery task
          req,        \* where each request is, and the nodes it may try
          executed,   \* <<node, request>>: the node has executed the request
          metrics     \* routing_metrics

nodes == <<entry, failures>>
routingVars == <<nodes, routed, req, executed, metrics>>

NewRequest == [pc |-> "new", targets |-> <<>>, attempt |-> 0]

RoutingTypeOK ==
    /\ entry \in [Member -> {"absent", "healthy", "unhealthy"}]
    /\ routed \in Nat
    /\ failures \in [Seed -> 0..SeedFailures + 1]
    /\ req \in [Request -> [pc : {"new", "trying", "ok", "failed", "refused"},
                            targets : Seq(Member), attempt : 0..3]]
    /\ \A r \in Request : req[r].attempt <= Len(req[r].targets)
    /\ executed \subseteq Member \X Request
    /\ metrics \in [success : Nat, failed : Nat]

\* Nodes are added when the cluster is set up; nothing has been asked yet.
RoutingInit ==
    /\ entry \in [Member -> {"absent", "healthy"}]
    /\ routed = 0
    /\ failures = [s \in Seed |-> 0]
    /\ req = [r \in Request |-> NewRequest]
    /\ executed = {}
    /\ metrics = [success |-> 0, failed |-> 0]

-----------------------------------------------------------------------------
Healthy == {n \in Member : entry[n] = "healthy"}

\* The node a request is waiting for.
Current(r) == req[r].targets[req[r].attempt]

\* The nodes the request was sent to.
Tried(r) == {req[r].targets[i] : i \in 1..req[r].attempt}

\* At most two backup nodes, in whatever order the map yields them.
MaxBackups == 2

Backups(target) ==
    {b \in UNION {[1..k -> Healthy \ {target}] : k \in 0..MaxBackups} :
        /\ \A i, j \in DOMAIN b : b[i] = b[j] => i = j
        /\ Len(b) = MaxBackups \/ Len(b) = Cardinality(Healthy) - 1}

\* update_node_health writes the entry of a node it knows; a response time
\* beyond five minutes is refused before the entry is looked at.
UpdateHealth(n, health, timeAccepted) ==
    entry' = IF timeAccepted /\ entry[n] # "absent"
             THEN [entry EXCEPT ![n] = health] ELSE entry

\* The caller has its result.  Which nodes were tried, and what they still
\* execute, no longer matters to anyone.
Ended(r, outcome) ==
    /\ req' = [req EXCEPT ![r] = [NewRequest EXCEPT !.pc = outcome]]
    /\ metrics' = IF outcome = "ok" THEN [metrics EXCEPT !.success = @ + 1]
                  ELSE [metrics EXCEPT !.failed = @ + 1]
    /\ executed' = {e \in executed : e[2] # r}

\* Mutant: a request counts as routed before a node is found.
RouteCountsRefusals(r) ==
    /\ req[r].pc = "new"
    /\ \/ /\ Healthy = {}
          /\ req' = [req EXCEPT ![r].pc = "refused"]
       \/ \E target \in Healthy : \E backups \in Backups(target) :
             req' = [req EXCEPT ![r] = [pc |-> "trying", attempt |-> 1,
                                        targets |-> <<target>> \o backups]]
    /\ routed' = routed + 1
    /\ UNCHANGED <<nodes, executed, metrics>>

\* route_request and the first attempt.  Without a healthy node the request is
\* refused and leaves no trace in the metrics.
Route(r) ==
    /\ req[r].pc = "new"
    /\ \/ /\ Healthy = {}
          /\ req' = [req EXCEPT ![r].pc = "refused"]
          /\ UNCHANGED routed
       \/ \E target \in Healthy : \E backups \in Backups(target) :
             /\ req' = [req EXCEPT ![r] = [pc |-> "trying", attempt |-> 1,
                                           targets |-> <<target>> \o backups]]
             /\ routed' = routed + 1
    /\ UNCHANGED <<nodes, executed, metrics>>

\* The loop goes on with the next target unless the retries are used up; after
\* the last failure the request is counted against its first target.
TryNext(r) ==
    IF req[r].attempt < Len(req[r].targets) /\ req[r].attempt <= MaxRetries
    THEN /\ req' = [req EXCEPT ![r].attempt = @ + 1]
         /\ UNCHANGED <<metrics, executed>>
    ELSE Ended(r, "failed")

\* A node executes what it was sent, be it after the router gave up on it.
Execute(n, r) ==
    /\ n \in Tried(r)
    /\ executed' = executed \cup {<<n, r>>}
    /\ UNCHANGED <<nodes, routed, req, metrics>>

\* The response arrives in time.  The time reported counts from the first
\* attempt, so after a failover it may be beyond the five minutes.
Succeed(r) ==
    /\ req[r].pc = "trying"
    /\ <<Current(r), r>> \in executed
    /\ \E timeAccepted \in IF req[r].attempt = 1 THEN {TRUE} ELSE BOOLEAN :
          UpdateHealth(Current(r), "healthy", timeAccepted)
    /\ Ended(r, "ok")
    /\ UNCHANGED <<routed, failures>>

\* The node or the connection to it fails: the router reports a response time
\* of 999999 ms, which update_node_health refuses.
FailWithError(r) ==
    /\ req[r].pc = "trying"
    /\ UpdateHealth(Current(r), "unhealthy", FALSE)
    /\ TryNext(r)
    /\ UNCHANGED <<routed, failures>>

\* No response within request_timeout_ms.
TimeOut(r) ==
    /\ req[r].pc = "trying"
    /\ UpdateHealth(Current(r), "unhealthy", TRUE)
    /\ TryNext(r)
    /\ UNCHANGED <<routed, failures>>

-----------------------------------------------------------------------------
\* Mutant: adding a known node makes it healthy.
AddEntryOverwrites(n) == entry' = [entry EXCEPT ![n] = "healthy"]

\* add_node refuses a node it knows, healthy or not.
AddEntry(n) ==
    entry' = IF entry[n] = "absent" THEN [entry EXCEPT ![n] = "healthy"] ELSE entry

AddNode(n) == AddEntry(n) /\ UNCHANGED <<failures, routed, req, executed, metrics>>

RemoveNode(n) ==
    /\ entry' = [entry EXCEPT ![n] = "absent"]
    /\ UNCHANGED <<failures, routed, req, executed, metrics>>

\* The background sweep finds a node without an update for two intervals; it
\* looks again under the write lock before it marks it.
Sweep(n) ==
    /\ entry[n] # "absent"
    /\ entry' = [entry EXCEPT ![n] = "unhealthy"]
    /\ UNCHANGED <<failures, routed, req, executed, metrics>>

\* Discovery probes a seed: a good answer adds it, too many bad ones in a row
\* remove it.  (A good answer also makes the node join the cluster through the
\* seed, which touches nothing the balancer looks at.)
ProbeSucceeds(s) ==
    /\ failures' = [failures EXCEPT ![s] = 0]
    /\ AddEntry(s)
    /\ UNCHANGED <<routed, req, executed, metrics>>

ProbeFails(s) ==
    LET count == IF failures[s] > SeedFailures THEN failures[s] ELSE failures[s] + 1
    IN /\ failures' = [failures EXCEPT ![s] = count]
       /\ entry' = IF count > SeedFailures
                   THEN [entry EXCEPT ![s] = "absent"] ELSE entry
       /\ UNCHANGED <<routed, req, executed, metrics>>

Finish(r) == Succeed(r) \/ FailWithError(r) \/ TimeOut(r)

RoutingNext ==
    \/ \E r \in Request : Route(r) \/ Finish(r)
    \/ \E n \in Member, r \in Request : Execute(n, r)
    \/ \E n \in Member : AddNode(n) \/ RemoveNode(n) \/ Sweep(n)
    \/ \E s \in Seed : ProbeSucceeds(s) \/ ProbeFails(s)

RoutingSpec == RoutingInit /\ [][RoutingNext]_routingVars

-----------------------------------------------------------------------------
\* The counters of balancer and router are written under different locks at
\* different times: every request that was routed is either still under way or
\* counted once as a success or a failure.
EveryRoutedRequestCounted ==
    routed =
        metrics.success + metrics.failed
        + Cardinality({r \in Request : req[r].pc = "trying"})

\* A request fails only after every healthy node it was given was tried or the
\* retries are used up, each node at most once.
FailureMeansExhausted ==
    [][\A r \in Request :
          req[r].pc = "trying" /\ req'[r].pc = "failed" =>
              \/ Cardinality(Tried(r)) = Len(req[r].targets)
              \/ Cardinality(Tried(r)) > MaxRetries]_routingVars

\* The outcome of a request can come after the node was removed: it never puts
\* the node back.
LateOutcomeNeverReinserts ==
    [][\A n \in Member :
          entry[n] = "absent" /\ entry'[n] # "absent" => req' = req]_routingVars

\* A node marked unhealthy becomes healthy only through the answer to a request
\* that was already waiting for it: once the last such request is over, neither
\* probes nor the sweep bring the node back, only removing and adding it does.
RevivalNeedsAWaitingRequest ==
    [][\A n \in Member :
          entry[n] = "unhealthy" /\ entry'[n] = "healthy" =>
              \E r \in Request : /\ req[r].pc = "trying" /\ Current(r) = n
                                 /\ req'[r].pc = "ok"]_routingVars

\* A request is accounted for however it ends: the router's counters agree with
\* its outcome (request_router.rs:293-434).
RequestsAccountedFor == RoutingTypeOK /\ EveryRoutedRequestCounted

\* The outcome of a request, however late, does to its node what it should
\* (request_router.rs:439-483).
OutcomesAreRight ==
    /\ RevivalNeedsAWaitingRequest
    /\ LateOutcomeNeverReinserts
    /\ FailureMeansExhausted

\* "Automatic failure detection and marking of nodes"
\* (BUILTIN_LOAD_BALANCER_SUMMARY.md:12): a node an attempt failed on is not
\* healthy for the balancer afterwards.
FailedNodeIsMarked ==
    [][\A r \in Request :
          req[r].pc = "trying" /\ req'[r] # req[r] /\ req'[r].pc # "ok"
              => entry'[Current(r)] # "healthy"]_routingVars
=============================================================================
