----------------------------- MODULE EmbeddedDB -----------------------------
(***************************************************************************)
(* The embedded database (src/embedded.rs) over its storage engine         *)
(* (src/advanced_storage.rs): blocking calls of several threads, what they *)
(* commit and when it is on disk, the counters that closing waits for, and *)
(* the process stopping at any point.                                      *)
(*                                                                         *)
(* Sled is external: a transaction on two trees is atomic, and what a      *)
(* crash leaves is what some earlier moment since the last flush held.     *)
(* The journal is the sequence of those contents, the present one last.    *)
(***************************************************************************)
EXTENDS Integers, Sequences, FiniteSets, SequencesExt

CONSTANTS Thread, Id,
          Batch,       \* the batches of identifiers that upserts store
          Doomed,      \* the lists of identifiers that deletes name
          MaxOps,      \* bound: operations counted in one run of the process
          MaxJournal   \* bound: commits between two flushes

EmbeddedAssumption ==
    /\ IsFiniteSet(Thread)
    /\ Batch \subseteq SUBSET Id
    /\ Doomed \subseteq Seq(Id)
    /\ MaxOps \in Nat /\ MaxJournal \in Nat \ {0}

ASSUME EmbeddedAssumption

VARIABLES state,      \* DatabaseState, or "down" when there is no object
          journal,    \* contents of the VECTORS and METADATA trees
          counters,   \* AtomicCounters
          call,       \* the blocking call of each thread
          deletes     \* history: deletes that succeeded since the start

vars == <<state, journal, counters, call, deletes>>

Counters == [operations : Nat, successful : Nat, failed : Nat]
Idle == [pc |-> "idle", ids |-> {}, todo |-> << >>]
Zero == [operations |-> 0, successful |-> 0, failed |-> 0]
Now == Last(journal)

TypeOK ==
    /\ state \in {"down", "Initializing", "Ready", "Shutting", "Closed"}
    /\ journal # << >> /\ Len(journal) <= MaxJournal
    /\ \A k \in DOMAIN journal :
           journal[k] \in [vectors : SUBSET Id, metadata : SUBSET Id]
    /\ counters \in Counters
    /\ counters.successful + counters.failed <= counters.operations
    /\ deletes \in Nat

Init ==
    /\ state = "down"
    /\ journal = <<[vectors |-> {}, metadata |-> {}]>>
    /\ counters = Zero
    /\ call = [t \in Thread |-> Idle]
    /\ deletes = 0

-----------------------------------------------------------------------------
(* The storage engine.                                                     *)

\* A transaction over both trees: store_vector, batch_store_vectors and
\* delete_vector.
Commit(content) ==
    /\ Len(journal) < MaxJournal
    /\ journal' = Append(journal, content)

\* What the trees hold with some identifiers stored,
With(ids) == [vectors |-> Now.vectors \cup ids, metadata |-> Now.metadata \cup ids]

\* and with one deleted.
Without(id) == [vectors |-> Now.vectors \ {id}, metadata |-> Now.metadata \ {id}]

\* flush, sync, compact and create_checkpoint bring everything to disk.
FlushAll == journal' = <<Now>>

\* Sled's own flusher, every flush_interval_ms.
BackgroundFlush ==
    /\ \E k \in 2..Len(journal) : journal' = SubSeq(journal, k, Len(journal))
    /\ UNCHANGED <<state, counters, call, deletes>>

Checkpoint ==
    /\ state = "Ready"
    /\ Len(journal) > 1
    /\ FlushAll
    /\ UNCHANGED <<state, counters, call, deletes>>

-----------------------------------------------------------------------------
(* The life of the database.                                               *)

\* new_async opens the trees, and warms them up if asked to.
Open ==
    /\ state = "down"
    /\ state' = "Initializing"
    /\ counters' = Zero /\ deletes' = 0
    /\ UNCHANGED <<journal, call>>

\* warmup_cache asks for trees that new never opens, so that a warm start is
\* an error and the object is dropped.
Warmup(enabled) ==
    /\ state = "Initializing"
    /\ state' = IF enabled THEN "down" ELSE "Ready"
    /\ UNCHANGED <<journal, counters, call, deletes>>

\* has_active_operations; the index of the query engine stays empty, since no
\* operation of the database adds to it, and so does the query cache.
Pending == counters.operations - (counters.successful + counters.failed)

\* close takes the database by value: no call is under way.
BeginClose ==
    /\ state = "Ready"
    /\ \A t \in Thread : call[t] = Idle
    /\ state' = "Shutting"
    /\ UNCHANGED <<journal, counters, call, deletes>>

\* Mutant: the database is closed without having flushed.
FinishCloseUnflushed ==
    /\ state = "Shutting"
    /\ state' = IF Pending > 0 THEN "down" ELSE "Closed"
    /\ UNCHANGED <<journal, counters, call, deletes>>

\* close_async: with an operation still pending when shutdown_timeout_ms is
\* over, close is an error and the object is dropped unflushed.
FinishClose ==
    /\ state = "Shutting"
    /\ IF Pending > 0
       THEN state' = "down" /\ UNCHANGED journal
       ELSE state' = "Closed" /\ FlushAll
    /\ UNCHANGED <<counters, call, deletes>>

\* The closed object is dropped.
Drop ==
    /\ state = "Closed"
    /\ state' = "down"
    /\ UNCHANGED <<journal, counters, call, deletes>>

\* The process stops: a content since the last flush is what comes back.
Crash ==
    /\ state # "down"
    /\ state' = "down"
    /\ \E k \in DOMAIN journal : journal' = <<journal[k]>>
    /\ call' = [t \in Thread |-> Idle]
    /\ counters' = Zero /\ deletes' = 0

-----------------------------------------------------------------------------
(* Blocking calls.                                                         *)

\* Each begins by ensure_ready and counts itself.
Begin(t, pc, ids, todo) ==
    /\ state = "Ready"
    /\ call[t] = Idle
    /\ counters.operations + 1 < MaxOps
    /\ counters' = [counters EXCEPT !.operations = @ + 1]
    /\ call' = [call EXCEPT ![t] = [pc |-> pc, ids |-> ids, todo |-> todo]]
    /\ UNCHANGED <<state, journal, deletes>>

Succeed(t, extra) ==
    /\ counters' = [counters EXCEPT !.successful = @ + 1, !.operations = @ + extra]
    /\ call' = [call EXCEPT ![t] = Idle]

Fail(t) ==
    /\ counters' = [counters EXCEPT !.failed = @ + 1]
    /\ call' = [call EXCEPT ![t] = Idle]
    /\ UNCHANGED <<state, journal, deletes>>

\* The transaction of an upsert fails as a whole.
Upsert(t) ==
    /\ call[t].pc = "upsert"
    /\ Commit(With(call[t].ids))
    /\ Succeed(t, 0)
    /\ UNCHANGED <<state, deletes>>

\* delete_async takes the storage lock anew for each identifier.
DeleteOne(t) ==
    /\ call[t].pc = "delete" /\ call[t].todo # << >>
    /\ LET id == Head(call[t].todo)
       IN  IF id \in Now.vectors \cup Now.metadata
           THEN Commit(Without(id)) ELSE UNCHANGED journal
    /\ call' = [call EXCEPT ![t].todo = Tail(@)]
    /\ UNCHANGED <<state, counters, deletes>>

\* A delete that succeeds counts itself again: MaxOps leaves room for it.
FinishDelete(t) ==
    /\ call[t].pc = "delete" /\ call[t].todo = << >>
    /\ Succeed(t, 1)
    /\ deletes' = deletes + 1
    /\ UNCHANGED <<state, journal>>

\* search_async reads; what it finds is the subject of the query engine.
Search(t) ==
    /\ call[t].pc = "search"
    /\ Succeed(t, 0)
    /\ UNCHANGED <<state, journal, deletes>>

\* Any call may end in an error of the storage, a delete with some of its
\* identifiers gone.
CallFails(t) == call[t] # Idle /\ Fail(t)

Next ==
    \/ BackgroundFlush \/ Checkpoint
    \/ Open \/ (\E enabled \in BOOLEAN : Warmup(enabled))
    \/ BeginClose \/ FinishClose \/ Drop \/ Crash
    \/ \E t \in Thread :
        \/ \E ids \in Batch : Begin(t, "upsert", ids, << >>)
        \/ \E ids \in Doomed : Begin(t, "delete", {}, ids)
        \/ Begin(t, "search", {}, << >>)
        \/ Upsert(t) \/ DeleteOne(t) \/ FinishDelete(t) \/ Search(t)
        \/ CallFails(t)

Spec == Init /\ [][Next]_vars

-----------------------------------------------------------------------------
\* Whatever a crash leaves, an identifier has its vector exactly when it has
\* its metadata (the transactions of store_vector, batch_store_vectors and
\* delete_vector).
VectorsMatchMetadata ==
    \A k \in DOMAIN journal : journal[k].vectors = journal[k].metadata

\* A database that reports itself closed has everything on disk: nothing that
\* a finished call did can be lost any more (close_async).
ClosedIsDurable == state = "Closed" => Len(journal) = 1

\* What has_active_operations takes for running calls is the running calls and
\* every delete that ever succeeded: a delete counts itself twice and finishes
\* once, so that after one of them close can only time out (delete_blocking,
\* delete_async).
PendingIsCallsAndDeletes ==
    state # "down" =>
        Pending = Cardinality({t \in Thread : call[t] # Idle}) + deletes

\* Closing waits for all calls that run, and no others but for the deletes that
\* counted themselves twice, and leaves everything on disk, a vector with its
\* metadata (embedded.rs:586-664).
CloseIsExact ==
    TypeOK /\ VectorsMatchMetadata /\ PendingIsCallsAndDeletes /\ ClosedIsDurable
=============================================================================
