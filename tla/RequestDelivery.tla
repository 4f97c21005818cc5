--------------------------- MODULE RequestDelivery ---------------------------
(***************************************************************************)
(* How a request reaches a node: the caches of the request router          *)
(* (request_router.rs) and the retries of the network client               *)
(* (network_client.rs).                                                    *)
(*                                                                         *)
(* The router gives every target one attempt with a timeout; within it the *)
(* client sends the request again after each failure.  A request that was  *)
(* sent may be executed at any time later, also when its sender gave up.   *)
(* Which nodes a request may use is the balancer's choice (RequestRouting) *)
(* and left open here.                                                     *)
(*                                                                         *)
(* The cache of insert results is written and never read: a repeated       *)
(* insert is executed again, and only searches meet the cache here.  The   *)
(* router's connection pools are made and dropped, and used by nobody.     *)
(***************************************************************************)
EXTENDS Integers, Sequences, FiniteSets, SequencesExt

CONSTANTS Caller, Server,
          Id,            \* request_id of the route info: the cache's key
          NoEntry,
          CacheEnabled,  \* enable_request_cache
          Ttl,           \* cache_ttl_secs
          Timeout,       \* request_timeout_ms
          RetryAttempts, \* of the client
          TargetRetries, \* of the router
          MaxNow, MaxSearches \* bounds: the clock, and searches begun

ASSUME DeliveryAssumption ==
    /\ CacheEnabled \in BOOLEAN
    /\ Ttl \in Nat /\ Timeout \in Nat \ {0}
    /\ RetryAttempts \in Nat \ {0} /\ TargetRetries \in Nat
    /\ MaxNow \in Nat /\ MaxSearches \in Nat

VARIABLES now,
          search_cache, \* [data, cached_at] of each id; data is the time the
                        \* node that gave the answer executed the search
          cache_metrics, \* cache_hits and cache_misses
          call,         \* what each caller is doing
          sent          \* what each call has sent: <<node, attempt>>

deliveryVars == <<now, search_cache, cache_metrics, call, sent>>

NoRequest == [pc |-> "idle", kind |-> "search", id |-> NoEntry, targets |-> << >>,
         position |-> 0, attempt |-> 0, since |-> 0, answer |-> NoEntry]

DeliveryInit ==
    /\ now = 0
    /\ search_cache = [i \in Id |-> NoEntry]
    /\ cache_metrics = [hits |-> 0, misses |-> 0]
    /\ call = [c \in Caller |-> NoRequest]
    /\ sent = [c \in Caller |-> {}]

Expired(i) == now - search_cache[i].cached_at >= Ttl

\* Mutant: an entry is found until the cleanup removes it.
FoundUntilCleaned(i) == search_cache[i] # NoEntry

\* TypedCache::get.
Found(i) == search_cache[i] # NoEntry /\ ~Expired(i)

\* execute_vector_search up to the routing: a hit is the answer.
BeginSearch(c, i) ==
    /\ call[c].pc = "idle"
    /\ cache_metrics.hits + cache_metrics.misses < MaxSearches
    /\ IF CacheEnabled /\ Found(i)
       THEN /\ call' = [call EXCEPT ![c] =
                   [NoRequest EXCEPT !.id = i, !.answer = search_cache[i].data]]
            /\ cache_metrics' = [cache_metrics EXCEPT !.hits = @ + 1]
       ELSE /\ call' = [call EXCEPT ![c] = [NoRequest EXCEPT !.pc = "routing", !.id = i]]
            /\ cache_metrics' = [cache_metrics EXCEPT !.misses = @ + 1]
    /\ UNCHANGED <<now, search_cache, sent>>

\* execute_document_insert and execute_batch_insert.
BeginInsert(c) ==
    /\ call[c].pc = "idle"
    /\ call' = [call EXCEPT ![c] =
           [NoRequest EXCEPT !.pc = "routing", !.kind = "insert"]]
    /\ UNCHANGED <<now, search_cache, cache_metrics, sent>>

\* The attempt on the target at a position begins.
AttemptOn(c, targets, position) ==
    /\ call' = [call EXCEPT ![c] =
           [pc |-> "sending", kind |-> call[c].kind, id |-> call[c].id,
            targets |-> targets, position |-> position, attempt |-> 0,
            since |-> now, answer |-> NoEntry]]
    /\ UNCHANGED sent

\* The caller has its result.  What its requests may still do is forgotten.
Over(c, answer) ==
    /\ call' = [call EXCEPT ![c] = [NoRequest EXCEPT !.answer = answer]]
    /\ sent' = [sent EXCEPT ![c] = {}]

\* execute_request_with_routing: the balancer names a target and up to two
\* others, or refuses.
RouteTo(c, targets) ==
    /\ call[c].pc = "routing"
    /\ IF targets = << >> THEN Over(c, NoEntry)
       ELSE AttemptOn(c, targets, 1)
    /\ UNCHANGED <<now, search_cache, cache_metrics>>

Target(c) == call[c].targets[call[c].position]

\* One POST of the client.
Send(c) ==
    /\ call[c].pc = "sending"
    /\ call' = [call EXCEPT ![c].pc = "waiting", ![c].attempt = @ + 1,
                            ![c].answer = NoEntry]
    /\ sent' = [sent EXCEPT ![c] = @ \cup {<<Target(c), call[c].attempt + 1>>}]
    /\ UNCHANGED <<now, search_cache, cache_metrics>>

\* The node executes what the caller waits for.
ExecuteSent(c) ==
    /\ call[c].pc = "waiting" /\ call[c].answer = NoEntry
    /\ call' = [call EXCEPT ![c].answer = now]
    /\ UNCHANGED <<now, search_cache, cache_metrics, sent>>

\* The answer arrives.  It is cached when it came from the first target.
Receive(c) ==
    /\ call[c].pc = "waiting" /\ call[c].answer # NoEntry
    /\ Over(c, call[c].answer)
    /\ search_cache' =
           IF CacheEnabled /\ call[c].kind = "search" /\ call[c].position = 1
           THEN [search_cache EXCEPT ![call[c].id] =
                    [data |-> call[c].answer, cached_at |-> now]]
           ELSE search_cache
    /\ UNCHANGED <<now, cache_metrics>>

\* The next target, unless there is none or the retries are used up.
NextTarget(c) ==
    IF call[c].position < Len(call[c].targets) /\ call[c].position <= TargetRetries
    THEN AttemptOn(c, call[c].targets, call[c].position + 1)
    ELSE Over(c, NoEntry)

\* The client's attempt fails: refused, lost, an error status or an answer that
\* cannot be read.  It sleeps and sends again, as often as it is configured to.
AttemptFails(c) ==
    /\ call[c].pc = "waiting"
    /\ IF call[c].attempt < RetryAttempts
       THEN call' = [call EXCEPT ![c].pc = "sending"] /\ UNCHANGED sent
       ELSE NextTarget(c)
    /\ UNCHANGED <<now, search_cache, cache_metrics>>

\* The router's timeout drops the client's call wherever it is.
TargetTimesOut(c) ==
    /\ call[c].pc \in {"sending", "waiting"}
    /\ now - call[c].since >= Timeout
    /\ NextTarget(c)
    /\ UNCHANGED <<now, search_cache, cache_metrics>>

\* The background task that drops expired entries.
CleanCache ==
    /\ CacheEnabled
    /\ search_cache' = [i \in Id |-> IF search_cache[i] # NoEntry /\ Expired(i)
                                     THEN NoEntry ELSE search_cache[i]]
    /\ UNCHANGED <<now, cache_metrics, call, sent>>

\* Time passes; a timer fires when it is due.
Tick ==
    /\ now < MaxNow
    /\ \A c \in Caller : call[c].pc \in {"sending", "waiting"} =>
           now - call[c].since < Timeout
    /\ now' = now + 1
    /\ UNCHANGED <<search_cache, cache_metrics, call, sent>>

\* A target and up to two others, each once.
TargetLists == {<< >>} \cup UNION {{s \in [1..k -> Server] : IsInjective(s)} : k \in 1..3}

DeliveryNext ==
    \/ \E c \in Caller :
        \/ \E i \in Id : BeginSearch(c, i)
        \/ BeginInsert(c)
        \/ \E targets \in TargetLists : RouteTo(c, targets)
        \/ Send(c) \/ ExecuteSent(c) \/ Receive(c) \/ AttemptFails(c) \/ TargetTimesOut(c)
    \/ CleanCache \/ Tick

DeliverySpec == DeliveryInit /\ [][DeliveryNext]_deliveryVars

-----------------------------------------------------------------------------
\* A search that is answered from the cache gets what a node found no longer
\* ago than the time to live of an entry and the timeout of the request that
\* filled it, although nothing removes an entry when data change (TypedCache).
HitsAreFresh ==
    [][\A c \in Caller :
           cache_metrics'.hits # cache_metrics.hits /\ call'[c] # call[c]
               => now - call'[c].answer < Ttl + Timeout]_deliveryVars

\* However attempts fail, are lost, time out and are executed late, one request
\* is sent at most as often as the client tries, to each of at most one node
\* more than the router retries: no node executes it more often
\* (execute_request_with_routing and the send_* functions).
ExecutionsBounded ==
    \A c \in Caller :
        /\ Cardinality({m[1] : m \in sent[c]}) <= TargetRetries + 1
        /\ \A n \in Server :
               Cardinality({m \in sent[c] : m[1] = n}) <= RetryAttempts

\* What a search is told is fresh enough, and no request is executed more often
\* than its retries allow (request_router.rs:172, network_client.rs).
DeliveryIsSound == []ExecutionsBounded /\ HitsAreFresh
=============================================================================
