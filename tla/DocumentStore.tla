--------------------------- MODULE DocumentStore ---------------------------
(***************************************************************************)
(* BasicVectorStore of src/storage.rs: documents under keys "doc:<id>" in  *)
(* the default tree of a sled database, with its writes, listings and      *)
(* searches, and its backup and restore.                                   *)
(*                                                                         *)
(* from_db takes a database that others may use as well: they can have     *)
(* keys of their own in the default tree and in another tree.  Writers     *)
(* have the store to themselves, so that only a failure of sled or the end *)
(* of the process comes between the steps of a restore.  What was written  *)
(* since the last flush is lost from the end of the log backwards.         *)
(*                                                                         *)
(* A document is what one text query, one query vector and one metadata    *)
(* filter make of it: whether its content and its title hold the query,    *)
(* its similarity in tenths, and the filtered value.                       *)
(***************************************************************************)
EXTENDS Integers, Sequences, FiniteSets, FiniteSetsExt, SequencesExt

CONSTANTS DocId, Document,
          ForeignKey, TreeKey, \* others' keys in the default tree, in another tree
          KeyOrder,            \* the keys of the default tree as sled sorts them
          None, Empty,
          MaxSecond,           \* bound: how far the clock goes
          MaxWrites            \* bound: on writes and restores together

\* A document as it is given, and as it is stored.
Metadata == {d.metadata : d \in Document}
GivenDocument == [content : BOOLEAN, title : BOOLEAN \cup {None},
                  vector : (-10..10) \cup {None}, metadata : Metadata]
DocumentRecord == [content : BOOLEAN, title : BOOLEAN,
                   vector : (-10..10) \cup {None}, metadata : Metadata]

\* No document is stored as the empty value, which optimize and backup pass over.
ASSUME StoreAssumption ==
    /\ KeyOrder \in Seq(DocId \cup ForeignKey)
    /\ ToSet(KeyOrder) = DocId \cup ForeignKey
    /\ DocId \cap (ForeignKey \cup TreeKey) = {}
    /\ Document \subseteq GivenDocument
    /\ Empty \notin DocumentRecord
    /\ MaxSecond \in Nat \ {0} /\ MaxWrites \in Nat

VARIABLES db,        \* the database, key by key
          past,      \* the databases a crash may fall back to
          files,     \* the backup files that are there
          restoring, \* the restore that is under way
          second,    \* SystemTime::now, in seconds
          writes,    \* how many writes and restores began
          begun,     \* history: what the last restore of a second found
          restored   \* history: the documents of the file just restored

storeVars == <<db, past, files, restoring, second, writes, begun, restored>>

\* The path the caller backs up to, and path.with_extension("pre_restore_<s>"),
\* which replaces the extension of such a path by another one.
Given == 0
Path == 0..MaxSecond

Writable == restoring = None

StoreInit ==
    /\ db = << >> /\ past = {db}
    /\ files = << >>
    /\ restoring = None
    /\ second = 1 /\ writes = 0
    /\ begun = << >> /\ restored = None

-----------------------------------------------------------------------------
(* Writes.  sled may refuse each of them and then nothing has changed.      *)

With(f, g) == [k \in DOMAIN f \cup DOMAIN g |-> IF k \in DOMAIN g THEN g[k] ELSE f[k]]
Without(f, ks) == [k \in DOMAIN f \ ks |-> f[k]]

\* The database is now d, in memory.
Write(d) ==
    /\ Writable
    /\ writes < MaxWrites /\ writes' = writes + 1
    /\ db' = d
    /\ past' = past \cup {d}
    /\ restored' = None
    /\ UNCHANGED <<files, restoring, second, begun>>

\* The record of a new document: what is not given is empty.
Record(d) == [d EXCEPT !.title = IF @ = None THEN FALSE ELSE @]

\* insert_document, under the identifier it is given or under a fresh one; both
\* create the record anew.
InsertDocument(id, d) == Write(With(db, [k \in {id} |-> Record(d)]))

InsertFresh(d) == \E id \in DocId \ DOMAIN db : InsertDocument(id, d)

\* batch_insert_documents: one sled batch, of which the last document of an
\* identifier counts.
BatchInsertDocuments(ids, d) == Write(With(db, [k \in ids |-> Record(d)]))

DeleteDocument(id) == id \in DOMAIN db /\ Write(Without(db, {id}))

\* update_document keeps the title and the vector when the new document has
\* none, and replaces content and metadata.
UpdateDocument(id, d) ==
    /\ id \in DOMAIN db
    /\ Write([db EXCEPT ![id] =
           [content |-> d.content,
            title |-> IF d.title = None THEN @.title ELSE d.title,
            vector |-> IF d.vector = None THEN @.vector ELSE d.vector,
            metadata |-> d.metadata]])

UpdateDocumentMetadata(id, m) ==
    id \in DOMAIN db /\ Write([db EXCEPT ![id].metadata = m])

\* clear empties the default tree.
Cleared(d) == Without(d, DocId \cup ForeignKey)
ClearStore == Write(Cleared(db))

\* optimize flushes and then removes empty values from every tree.
OptimizeStore ==
    LET cleaned == Without(db, {k \in DOMAIN db : db[k] = Empty})
    IN  /\ Writable
        /\ db' = cleaned
        /\ past' = {db, cleaned}
        /\ UNCHANGED <<files, restoring, second, writes, begun, restored>>

\* Another user of the database writes a key of its own.
WriteForeign(k, value) == Write(With(db, [x \in {k} |-> value]))

\* sled flushes in the background.
BackgroundFlush ==
    /\ past' = {db}
    /\ UNCHANGED <<db, files, restoring, second, writes, begun, restored>>

-----------------------------------------------------------------------------
(* Backup and restore.                                                      *)

\* What a backup holds of a database.
Contents(d) == Without(d, {k \in DOMAIN d : d[k] = Empty})

DocumentsOf(d) == [k \in DocId \cap DOMAIN d |-> d[k]]

\* backup writes a temporary file and renames it, or fails and leaves nothing.
Backup ==
    /\ Writable
    /\ files' = With(files, [p \in {Given} |-> Contents(db)])
    /\ UNCHANGED <<db, past, restoring, second, writes, begun, restored>>

\* restore reads and checks the file; a damaged one ends it here.  It backs up
\* what it is about to replace, and goes on when that fails.
BeginRestore(path) ==
    /\ Writable /\ path \in DOMAIN files
    /\ writes < MaxWrites /\ writes' = writes + 1
    /\ \/ /\ files' = With(files, [p \in {second} |-> Contents(db)])
          /\ begun' = With(begun, [s \in {second} |-> Contents(db)])
       \/ /\ begun' = Without(begun, {second})
          /\ UNCHANGED files
    /\ restoring' = [left |-> files[path], all |-> files[path], cleared |-> FALSE]
    /\ restored' = None
    /\ UNCHANGED <<db, past, second>>

\* The default tree is emptied; other trees keep what they have.
ClearForRestore ==
    /\ restoring # None /\ ~restoring.cleared
    /\ db' = Cleared(db)
    /\ past' = past \cup {db'}
    /\ restoring' = [restoring EXCEPT !.cleared = TRUE]
    /\ UNCHANGED <<files, second, writes, begun, restored>>

\* The next entry of the file; the order in which the trees come is open.
RestoreEntry ==
    /\ restoring # None /\ restoring.cleared
    /\ \E k \in DOMAIN restoring.left :
        /\ db' = With(db, [x \in {k} |-> restoring.left[k]])
        /\ restoring' = [restoring EXCEPT !.left = Without(@, {k})]
    /\ past' = past \cup {db'}
    /\ UNCHANGED <<files, second, writes, begun, restored>>

\* Mutant: restore returns without the final flush.
FinishRestoreUnflushed ==
    /\ restoring # None /\ restoring.cleared /\ restoring.left = << >>
    /\ restored' = DocumentsOf(restoring.all)
    /\ restoring' = None
    /\ UNCHANGED <<db, past, files, second, writes, begun>>

\* The final flush; only then does restore return Ok.
FinishRestore ==
    /\ restoring # None /\ restoring.cleared /\ restoring.left = << >>
    /\ past' = {db}
    /\ restored' = DocumentsOf(restoring.all)
    /\ restoring' = None
    /\ UNCHANGED <<db, files, second, writes, begun>>

\* An error of sled ends the restore where it is.
RestoreFails ==
    /\ restoring # None
    /\ restoring' = None
    /\ UNCHANGED <<db, past, files, second, writes, begun, restored>>

\* The process ends and starts again over what sled recovers.
Crash ==
    /\ \E d \in past : db' = d /\ past' = {d}
    /\ restoring' = None
    /\ UNCHANGED <<files, second, writes, begun, restored>>

NextSecond ==
    /\ second < MaxSecond
    /\ second' = second + 1
    /\ UNCHANGED <<db, past, files, restoring, writes, begun, restored>>

-----------------------------------------------------------------------------
(* Reads.                                                                   *)

Stored == DocId \cap DOMAIN db

DocumentExists(id) == id \in DOMAIN db
CountDocuments == Cardinality(Stored)

\* ids as a sequence in the strict order R, a set of pairs.
InOrder(ids, R) ==
    [i \in 1..Cardinality(ids) |->
        CHOOSE x \in ids : Cardinality({y \in ids : <<y, x>> \in R}) = i - 1]

UpTo(limit, s) == SubSeq(s, 1, IF limit < Len(s) THEN limit ELSE Len(s))

\* The documents in key order, as every iteration of the tree meets them.
Place == [k \in DocId \cup ForeignKey |-> CHOOSE i \in DOMAIN KeyOrder : KeyOrder[i] = k]
ByKey == {p \in Stored \X Stored : Place[p[1]] < Place[p[2]]}
InKeyOrder == InOrder(Stored, ByKey)

\* Mutant: keys of others count towards the offset.
PassedEveryKey(id) ==
    Cardinality({k \in DOMAIN db \ TreeKey : Place[k] < Place[id]})

\* How many documents an iteration has passed when it comes to id.
Passed(id) == Cardinality({k \in Stored : Place[k] < Place[id]})

ListDocumentIds(offset, limit) ==
    InOrder({id \in Stored : Passed(id) \in offset..offset + limit - 1}, ByKey)

\* The limit is looked at after a document was added.
SearchByMetadata(m, limit) ==
    UpTo(IF limit = 0 THEN 1 ELSE limit,
         InOrder({id \in Stored : db[id].metadata = m}, ByKey))

\* What has a score, sorted by it, ties as they were met, and cut off.
ByScore(score, met) ==
    {p \in (DOMAIN score) \X (DOMAIN score) :
        \/ score[p[1]] > score[p[2]]
        \/ score[p[1]] = score[p[2]] /\ met[p[1]] < met[p[2]]}

Best(score, met, limit) == UpTo(limit, InOrder(DOMAIN score, ByScore(score, met)))

TextScore == [id \in Stored |->
    (IF db[id].content THEN 7 ELSE 0) + (IF db[id].title THEN 3 ELSE 0)]

TextSearch(limit) ==
    Best(Restrict(TextScore, {id \in Stored : TextScore[id] > 0}), Place, limit)

\* Documents without a vector are passed over; cosine_similarity is given.
Similarity == [id \in {i \in Stored : db[i].vector # None} |-> db[id].vector]

VectorSearch(limit, threshold) ==
    Best(Restrict(Similarity, {id \in DOMAIN Similarity : Similarity[id] >= threshold}),
         Place, limit)

\* hybrid_search with a query vector: the weights alpha and 1 - alpha, in
\* tenths, apply to documents that both searches found; the others keep the
\* score they had.
HybridScores(limit, alpha) ==
    LET texts == ToSet(TextSearch(2 * limit))
        vectors == ToSet(VectorSearch(2 * limit, -10))
    IN  [id \in texts \cup vectors |->
            IF id \in texts \cap vectors
            THEN alpha * TextScore[id] + (10 - alpha) * Similarity[id]
            ELSE IF id \in texts THEN 10 * TextScore[id] ELSE 10 * Similarity[id]]

\* The answers it may give: the scores are kept in a hash map, which is walked in
\* any order.  Without a query vector the text results come back, up to twice the
\* limit.
HybridSearch(limit, alpha, hasVector) ==
    IF hasVector
    THEN {Best(HybridScores(limit, alpha), met, limit) :
             met \in Injection(Stored, 1..Cardinality(Stored))}
    ELSE {TextSearch(2 * limit)}

-----------------------------------------------------------------------------
StoreNext ==
    \/ \E id \in DocId, d \in Document : InsertDocument(id, d) \/ UpdateDocument(id, d)
    \/ \E d \in Document : InsertFresh(d)
    \/ \E d \in Document : BatchInsertDocuments(DocId, d)
    \/ \E id \in DocId : DeleteDocument(id)
    \/ \E id \in DocId, d \in Document : UpdateDocumentMetadata(id, d.metadata)
    \/ ClearStore \/ OptimizeStore \/ BackgroundFlush
    \/ \E k \in ForeignKey \cup TreeKey, value \in {"value", Empty} : WriteForeign(k, value)
    \/ Backup \/ (\E p \in Path : BeginRestore(p))
    \/ ClearForRestore \/ RestoreEntry \/ FinishRestore \/ RestoreFails
    \/ Crash \/ NextSecond

StoreSpec == StoreInit /\ [][StoreNext]_storeVars

-----------------------------------------------------------------------------
StoreTypeOK ==
    /\ DOMAIN db \subseteq DocId \cup ForeignKey \cup TreeKey
    /\ db \in past
    /\ DOMAIN files \subseteq Path
    /\ second \in 1..MaxSecond
    /\ DOMAIN begun \subseteq 1..MaxSecond

\* After restore has returned Ok and until the next write, the documents are
\* those of the file, no more and no less, and a crash does not change that:
\* the store was emptied, filled entry by entry, and flushed (restore).
RestoreIsDurable ==
    restored # None => \A d \in past : DocumentsOf(d) = restored

\* Whatever becomes of a restore (an error half-way, a crash, success), what it
\* found is in the file it has written before, as long as no other restore of
\* the same second has replaced that file; unless the writing of it failed,
\* which restore only warns of.
RestoreCanBeUndone ==
    \A s \in DOMAIN begun : s \in DOMAIN files /\ files[s] = begun[s]

\* A list has every document once and in key order, as many as are counted; a
\* page of it has those that belong there, also with keys of others among them, so
\* that reading page after page leaves out none; and every document is found by
\* its metadata (list_document_ids, count_documents, search_by_metadata).
ReadsAgree ==
    /\ Len(InKeyOrder) = CountDocuments
    /\ \A i, j \in DOMAIN InKeyOrder : i < j => Place[InKeyOrder[i]] < Place[InKeyOrder[j]]
    /\ \A offset \in 0..Cardinality(DocId), limit \in 1..Cardinality(DocId) :
          LET page == ListDocumentIds(offset, limit)
          IN  /\ Len(page) <= limit
              /\ \A i \in 1..limit :
                    /\ i \in DOMAIN page <=> offset + i \in DOMAIN InKeyOrder
                    /\ i \in DOMAIN page => page[i] = InKeyOrder[offset + i]
    /\ \A id \in DocId :
          /\ DocumentExists(id) <=> id \in ToSet(InKeyOrder)
          /\ DocumentExists(id) <=>
                \E m \in Metadata : id \in ToSet(SearchByMetadata(m, Cardinality(DocId)))

\* Of two documents that both searches find, the one that is better for one of
\* them and no worse for the other is never placed below, in whatever order the
\* hash map is walked (hybrid_search, with weights between 0 and 1).
HybridHonoursBoth ==
    \A limit \in 1..Cardinality(DocId) :
        LET both == ToSet(TextSearch(2 * limit)) \cap ToSet(VectorSearch(2 * limit, -10))
        IN  \A x, y \in both :
               /\ TextScore[x] >= TextScore[y] /\ Similarity[x] >= Similarity[y]
               /\ TextScore[x] > TextScore[y] \/ Similarity[x] > Similarity[y]
               => \A alpha \in 1..9 : \A found \in HybridSearch(limit, alpha, TRUE) :
                     /\ y \in ToSet(found) => x \in ToSet(found)
                     /\ \A i, j \in DOMAIN found : found[i] = x /\ found[j] = y => i < j

\* Restoring loses nothing: neither what it restores nor what it replaces
\* (storage.rs:645, 659).
RestoreIsSafe == RestoreIsDurable /\ RestoreCanBeUndone

\* The ways to read agree with each other, page by page, one by one, by metadata
\* and by both scores (storage.rs:296-435, 721-848).
WaysToReadAgree == StoreTypeOK /\ ReadsAgree /\ HybridHonoursBoth
=============================================================================
