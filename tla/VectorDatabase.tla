--------------------------- MODULE VectorDatabase ---------------------------
(***************************************************************************)
(* VectorDatabase of src/lib.rs: a document store and a vector index, each *)
(* behind a tokio RwLock, and the calls of tasks that take the two locks   *)
(* one after the other or one inside the other.  The index is the contract *)
(* VectorIndex, which HnswIndex implements.                                *)
(***************************************************************************)
EXTENDS VectorIndex, TokioRwLock, FiniteSets

CONSTANTS Client,       \* callers: tasks
          NoDoc,        \* "no document"
          DocBatches    \* what callers add; a document is [id, vec], vec may be NoVec

ASSUME DatabaseAssumption ==
    /\ NoDoc \notin Vec \cup {NoVec}
    /\ DocBatches \subseteq Seq([id : Id, vec : Vec \cup {NoVec}])

VARIABLES store,      \* identifier -> vector of the stored document, NoVec, or NoDoc
          storage,    \* the lock of the store
          index,      \* the lock of the index
          call,       \* task -> its call and the place it has reached
          tainted,    \* history: task -> documents a conflicting call touched meanwhile
          doubt       \* history: documents that store and index may disagree about

dbVars == <<live, visible, built, dim, store, storage, index, call, tainted, doubt>>

NoCall == [op |-> "none"]

DatabaseInit ==
    /\ IndexInit /\ dim = NoDim
    /\ store = [id \in Id |-> NoDoc]
    /\ storage = Free
    /\ index = Free
    /\ call = [t \in Client |-> NoCall]
    /\ tainted = [t \in Client |-> {}]
    /\ doubt = {}

Goes(t, record) == call' = [call EXCEPT ![t] = record]

DocIds(docs) == {docs[i].id : i \in DOMAIN docs}

\* The documents a call writes; a rebuild and reads write none.
Touches(c) == CASE c.op = "add" -> DocIds(c.docs)
                [] c.op = "delete" -> {c.id}
                [] OTHER -> {}

\* A call that writes ids begins: it disturbs the calls under way on the same
\* documents and is disturbed by them.
Disturb(t, ids) ==
    tainted' = [u \in Client |->
                   IF u = t THEN ids \cap UNION {Touches(call[x]) : x \in Client}
                   ELSE tainted[u] \cup (ids \cap Touches(call[u]))]

\* A call that wrote ids ends; only one that succeeds undisturbed settles them.
Ends(t, ids, ok) ==
    /\ Goes(t, NoCall)
    /\ doubt' = IF ok THEN (doubt \ ids) \cup tainted[t] ELSE doubt \cup ids
    /\ tainted' = [tainted EXCEPT ![t] = {}]

-----------------------------------------------------------------------------
(* batch_add_documents: the store first, the index under its own lock after. *)

\* Of documents with one identifier the batch stores the last.
LastDoc(docs, id) ==
    CHOOSE d \in {docs[i] : i \in DOMAIN docs} :
        \E i \in DOMAIN docs : /\ docs[i] = d /\ d.id = id
                               /\ \A j \in DOMAIN docs : docs[j].id = id => j <= i

WithVector(docs) == {i \in DOMAIN docs : docs[i].vec # NoVec}

\* The documents that have a vector, in the order of the batch.
VectorsToIndex(docs) ==
    [k \in 1..Cardinality(WithVector(docs)) |->
        docs[CHOOSE i \in WithVector(docs) :
                Cardinality({j \in WithVector(docs) : j <= i}) = k]]

BeginAdd(t, docs) ==
    /\ call[t] = NoCall
    /\ Goes(t, [op |-> "add", at |-> "storage", docs |-> docs])
    /\ storage' = Requested(storage, t, "write")
    /\ Disturb(t, DocIds(docs))
    /\ UNCHANGED <<ivars, store, index, doubt>>

AddToStore(t) ==
    /\ call[t].op = "add" /\ call[t].at = "storage" /\ CanEnter(storage, t)
    /\ LET docs == call[t].docs
       IN  /\ store' = [id \in Id |-> IF id \in DocIds(docs) THEN LastDoc(docs, id).vec
                                      ELSE store[id]]
           /\ IF VectorsToIndex(docs) = <<>>
              THEN Ends(t, DocIds(docs), TRUE) /\ UNCHANGED index
              ELSE /\ Goes(t, [call[t] EXCEPT !.at = "index"])
                   /\ index' = Requested(index, t, "write")
                   /\ UNCHANGED <<tainted, doubt>>
    /\ storage' = Left(Entered(storage, t), t)
    /\ UNCHANGED ivars

\* Mutant: an error of the store is not returned to the caller.
AddStoreFailsUnnoticed(t) ==
    /\ call[t].op = "add" /\ call[t].at = "storage" /\ CanEnter(storage, t)
    /\ storage' = Left(Entered(storage, t), t)
    /\ Goes(t, [call[t] EXCEPT !.at = "index"])
    /\ index' = Requested(index, t, "write")
    /\ UNCHANGED <<ivars, store, tainted, doubt>>

\* The batch of the store is atomic: an error leaves everything as it was.
AddStoreFails(t) ==
    /\ call[t].op = "add" /\ call[t].at = "storage" /\ CanEnter(storage, t)
    /\ storage' = Left(Entered(storage, t), t)
    /\ Goes(t, NoCall)
    /\ doubt' = doubt \cup tainted[t]
    /\ tainted' = [tainted EXCEPT ![t] = {}]
    /\ UNCHANGED <<ivars, store, index>>

\* The index takes all vectors, or stops at one of another dimension.
AddToIndex(t) ==
    /\ call[t].op = "add" /\ call[t].at = "index" /\ CanEnter(index, t)
    /\ LET docs == call[t].docs
       IN  \/ AddVectorsOk(VectorsToIndex(docs)) /\ Ends(t, DocIds(docs), TRUE)
           \/ AddVectorsErr(VectorsToIndex(docs)) /\ Ends(t, DocIds(docs), FALSE)
    /\ index' = Left(Entered(index, t), t)
    /\ UNCHANGED <<store, storage>>

-----------------------------------------------------------------------------
(* delete_document: the index first, the store after. *)

BeginDelete(t, id) ==
    /\ call[t] = NoCall
    /\ Goes(t, [op |-> "delete", at |-> "index", id |-> id])
    /\ index' = Requested(index, t, "write")
    /\ Disturb(t, {id})
    /\ UNCHANGED <<ivars, store, storage, doubt>>

\* Mutant: the index stays locked until the document is gone as well.
DeleteKeepsIndexLock(t) ==
    /\ call[t].op = "delete" /\ call[t].at = "index" /\ CanEnter(index, t)
    /\ RemoveVector(call[t].id)
    /\ index' = Entered(index, t)
    /\ Goes(t, [call[t] EXCEPT !.at = "storage"])
    /\ storage' = Requested(storage, t, "write")
    /\ UNCHANGED <<store, tainted, doubt>>

DeleteFromIndex(t) ==
    /\ call[t].op = "delete" /\ call[t].at = "index" /\ CanEnter(index, t)
    /\ RemoveVector(call[t].id)
    /\ index' = Left(Entered(index, t), t)
    /\ Goes(t, [call[t] EXCEPT !.at = "storage"])
    /\ storage' = Requested(storage, t, "write")
    /\ UNCHANGED <<store, tainted, doubt>>

DeleteFromStore(t) ==
    /\ call[t].op = "delete" /\ call[t].at = "storage" /\ CanEnter(storage, t)
    /\ store' = [store EXCEPT ![call[t].id] = NoDoc]
    /\ storage' = Left(Entered(storage, t), t)
    /\ Ends(t, {call[t].id}, TRUE)
    /\ UNCHANGED <<ivars, index>>

DeleteStoreFails(t) ==
    /\ call[t].op = "delete" /\ call[t].at = "storage" /\ CanEnter(storage, t)
    /\ storage' = Left(Entered(storage, t), t)
    /\ Ends(t, {call[t].id}, FALSE)
    /\ UNCHANGED <<ivars, store, index>>

-----------------------------------------------------------------------------
(* get_document, list_documents, text_search, get_stats: the store is read.  *)

BeginRead(t) ==
    /\ call[t] = NoCall
    /\ Goes(t, [op |-> "read", at |-> "storage"])
    /\ storage' = Requested(storage, t, "read")
    /\ UNCHANGED <<ivars, store, index, tainted, doubt>>

ReadStore(t) ==
    /\ call[t].op = "read" /\ CanEnter(storage, t)
    /\ storage' = Left(Entered(storage, t), t)
    /\ Goes(t, NoCall)
    /\ UNCHANGED <<ivars, store, index, tainted, doubt>>

-----------------------------------------------------------------------------
(* search_documents: the index is read with the store locked. *)

\* What a search for a vector can return: without a graph the store is scanned.
Found == IF built THEN {id \in visible : store[id] # NoDoc}
         ELSE {id \in Id : store[id] # NoDoc}

DropBothLocks(t) == storage' = Left(storage, t) /\ index' = Left(Entered(index, t), t)

BeginSearch(t) ==
    /\ call[t] = NoCall
    /\ Goes(t, [op |-> "search", at |-> "storage"])
    /\ storage' = Requested(storage, t, "read")
    /\ UNCHANGED <<ivars, store, index, tainted, doubt>>

SearchEntersStore(t) ==
    /\ call[t].op = "search" /\ call[t].at = "storage" /\ CanEnter(storage, t)
    /\ storage' = Entered(storage, t)
    /\ Goes(t, [call[t] EXCEPT !.at = "index"])
    /\ index' = Requested(index, t, "read")
    /\ UNCHANGED <<ivars, store, tainted, doubt>>

SearchAnswers(t) ==
    /\ call[t].op = "search" /\ call[t].at = "index" /\ CanEnter(index, t)
    /\ DropBothLocks(t)
    /\ Goes(t, NoCall)
    /\ UNCHANGED <<ivars, store, tainted, doubt>>

-----------------------------------------------------------------------------
(* rebuild_index: both locks are held while the index is cleared and filled. *)

BeginRebuild(t) ==
    /\ call[t] = NoCall
    /\ Goes(t, [op |-> "rebuild", at |-> "storage"])
    /\ storage' = Requested(storage, t, "read")
    /\ UNCHANGED <<ivars, store, index, tainted, doubt>>

\* Mutant: the store is let go of before the index is waited for.
RebuildLeavesStore(t) ==
    /\ call[t].op = "rebuild" /\ call[t].at = "storage" /\ CanEnter(storage, t)
    /\ storage' = Left(Entered(storage, t), t)
    /\ Goes(t, [call[t] EXCEPT !.at = "index"])
    /\ index' = Requested(index, t, "write")
    /\ UNCHANGED <<ivars, store, tainted, doubt>>

RebuildEntersStore(t) ==
    /\ call[t].op = "rebuild" /\ call[t].at = "storage" /\ CanEnter(storage, t)
    /\ storage' = Entered(storage, t)
    /\ Goes(t, [call[t] EXCEPT !.at = "index"])
    /\ index' = Requested(index, t, "write")
    /\ UNCHANGED <<ivars, store, tainted, doubt>>

\* A delete that has done half of its work will find its document's vector back.
RebuildClears(t) ==
    /\ call[t].op = "rebuild" /\ call[t].at = "index" /\ CanEnter(index, t)
    /\ Clear
    /\ index' = Entered(index, t)
    /\ Goes(t, [op |-> "rebuild", at |-> "refill",
                todo |-> {id \in Id : store[id] # NoDoc}])
    /\ tainted' = [u \in Client |->
                      IF call[u].op = "delete" /\ call[u].at = "storage"
                      THEN tainted[u] \cup {call[u].id} ELSE tainted[u]]
    /\ UNCHANGED <<store, storage, doubt>>

\* One document after the other, in whatever order their keys have; those
\* without a vector are passed over.
RebuildAdds(t) ==
    /\ call[t].op = "rebuild" /\ call[t].at = "refill"
    /\ \E id \in call[t].todo :
          /\ IF store[id] \in Vec THEN AddVectorOk(id, store[id]) ELSE UNCHANGED ivars
          /\ Goes(t, [call[t] EXCEPT !.todo = @ \ {id}])
    /\ UNCHANGED <<store, storage, index, tainted, doubt>>

RebuildEnds(t) ==
    /\ storage' = Left(storage, t) /\ index' = Left(index, t)
    /\ Goes(t, NoCall)
    /\ UNCHANGED <<store, tainted>>

RebuildDone(t) ==
    /\ call[t].op = "rebuild" /\ call[t].at = "refill" /\ call[t].todo = {}
    /\ RebuildEnds(t)
    /\ doubt' = {}
    /\ UNCHANGED ivars

\* A document cannot be read, or its vector has another dimension.
RebuildFails(t) ==
    /\ call[t].op = "rebuild" /\ call[t].at = "refill" /\ call[t].todo # {}
    /\ RebuildEnds(t)
    /\ doubt' = Id
    /\ UNCHANGED ivars

-----------------------------------------------------------------------------
\* The process ends and starts again: new() opens the store and an empty index.
Restart ==
    /\ Clear
    /\ storage' = Free /\ index' = Free
    /\ call' = [t \in Client |-> NoCall]
    /\ tainted' = [t \in Client |-> {}]
    /\ doubt' = {id \in Id : store[id] # NoDoc}
    /\ UNCHANGED store

\* What a task does on its own once its call has begun.
Continue(t) ==
    \/ AddToStore(t) \/ AddStoreFails(t) \/ AddToIndex(t)
    \/ DeleteFromIndex(t) \/ DeleteFromStore(t) \/ DeleteStoreFails(t)
    \/ ReadStore(t)
    \/ SearchEntersStore(t) \/ SearchAnswers(t)
    \/ RebuildEntersStore(t) \/ RebuildClears(t) \/ RebuildAdds(t)
    \/ RebuildDone(t) \/ RebuildFails(t)

DatabaseNext ==
    \/ \E t \in Client, docs \in DocBatches : BeginAdd(t, docs)
    \/ \E t \in Client, id \in Id : BeginDelete(t, id)
    \/ \E t \in Client : BeginRead(t) \/ BeginSearch(t) \/ BeginRebuild(t)
    \/ \E t \in Client : Continue(t)
    \/ Restart

DatabaseSpec == DatabaseInit /\ [][DatabaseNext]_dbVars

\* tokio polls every task again, and the store and the index answer.
FairSpec == DatabaseSpec /\ \A t \in Client : WF_dbVars(Continue(t))

-----------------------------------------------------------------------------
\* Store and index agree about every document that no call is writing and that
\* no disturbed or half-failed call, failed rebuild or restart has left in
\* doubt: a vector is stored iff it is indexed, the same one, and a search can
\* find it (lib.rs:345-356, 380-388).  A document stored without a vector may
\* keep the vector of its former version in the index (lib.rs:335).
IndexAgreesWithStore ==
    \A id \in Id \ (doubt \cup UNION {Touches(call[t]) : t \in Client}) :
        (\A t \in Client : call[t].op = "rebuild" => call[t].at # "refill") =>
            /\ store[id] = NoDoc => live[id] = NoVec
            /\ store[id] \in Vec => live[id] = store[id] /\ id \in Found

\* When a rebuild is through, the index holds the vectors of the store and no
\* others, and shows them all, whatever calls wait with half of their work done
\* (lib.rs:563-581).
RebuildIsExact ==
    \A t \in Client :
        (call[t].op = "rebuild" /\ call[t].at = "refill" /\ call[t].todo = {}) =>
            /\ live = [id \in Id |-> IF store[id] \in Vec THEN store[id] ELSE NoVec]
            /\ visible = LiveIds(live)

\* Every call returns, though searches and rebuilds wait for the index with the
\* store locked and writers queue on both locks (lib.rs:469, 563).
EveryCallReturns == \A t \in Client : call[t] # NoCall ~> call[t] = NoCall
=============================================================================
