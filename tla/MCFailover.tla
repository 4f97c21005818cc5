----------------------------- MODULE MCFailover -----------------------------
(***************************************************************************)
(* A primary and its replica, either of which may fail, two shards so that *)
(* one failover queues two tasks, and two callers that detect failures or  *)
(* start failovers at the same time.  One failed heartbeat is enough here. *)
(***************************************************************************)
EXTENDS Failover

MCLayouts == {[primary |-> "a", replicas |-> <<"b">>]}

Interchangeable == Permutations(Caller) \cup Permutations(Shard)
=============================================================================
