---------------------------- MODULE MCRetrieval -----------------------------
(***************************************************************************)
(* Indexes, document store and the parts of the retrieval; they share no   *)
(* state, and in a behaviour one of them moves and the others stand still. *)
(*                                                                         *)
(* Indexes: two identifiers; four vectors on a line, three of dimension 1  *)
(* and one of dimension 2; arrays of at most four slots, so that one       *)
(* identifier can leave three ghosts behind.                               *)
(*                                                                         *)
(* Store: two documents that two searches rank, keys of others that sort   *)
(* before them, in the same tree and in another, with and without a value; *)
(* three writes and restores, of which two can fall into one second.       *)
(*                                                                         *)
(* Hybrid search: three documents and two words: texts of no, one or both  *)
(* words, additions again under another text, vocabularies that grow and   *)
(* renumber.                                                               *)
(*                                                                         *)
(* Filters: two identifiers, each added up to twice with any of six        *)
(* contents: a field and a nested field with texts, numbers and flags, or  *)
(* neither, near and far places.  The leaves of the filters ask for texts, *)
(* numbers and places; the conditions compare, in both orders, and join,   *)
(* some about the nested field or not for the parser.                      *)
(*                                                                         *)
(* Fusion: two threads record four ratings of a good, a middling and a bad *)
(* answer; lists of three sources in which two documents agree, disagree   *)
(* or are missing.  Quantizer: vectors with a twin by their bits, an       *)
(* opposite and one without length, a cache of two.                        *)
(***************************************************************************)
EXTENDS FaissIndex, DocumentStore, HybridSearch, TLC

CONSTANTS d1, d2, Foreign, Elsewhere

Position == [vec \in Vec |-> CASE vec = "p0" -> 0 [] vec = "p1" -> 1
                               [] vec = "p4" -> 4 [] OTHER -> 9]

MCDimOf == [vec \in Vec |-> IF vec = "q" THEN 2 ELSE 1]

MCDist == [pair \in Vec \X Vec |->
              LET d == Position[pair[1]] - Position[pair[2]]
              IN IF d < 0 THEN -d ELSE d]

MCBatches == {<<>>} \cup [1..2 -> Item]

Titled == [content |-> FALSE, title |-> TRUE, vector |-> 9, metadata |-> "n"]
Untitled == [content |-> TRUE, title |-> None, vector |-> 4, metadata |-> "m"]

MCDocument == {Titled, Untitled}
MCKeyOrder == <<Foreign, d1, d2>>

-----------------------------------------------------------------------------
CONSTANTS f1, f2, title, size, idPath, unknown, u, v

VARIABLES entries, places, latest, refiled

Words(ws) == [kind |-> "text", words |-> ws]
Num(n) == [kind |-> "number", n |-> n]
Truth == [kind |-> "flag", on |-> TRUE]

MCContents == {
    [leaves |-> (title :> Words({u, v}) @@ size :> Num(1)), place |-> {0}],
    [leaves |-> (title :> Words({u}) @@ size :> Num(0)), place |-> {2}],
    [leaves |-> (title :> Truth @@ size :> Words({v})), place |-> {}],
    [leaves |-> (title :> Num(1) @@ size :> Words({u, v})), place |-> {1}],
    [leaves |-> (idPath :> Words({unknown}) @@ size :> Truth), place |-> {}],
    [leaves |-> << >>, place |-> {1}] }

Compare(op, path, value) == [type |-> "comparison", op |-> op, path |-> path, value |-> value]
Inside(op, value) == [type |-> "nested", op |-> op, path |-> size, value |-> value]
Near(radius) == [type |-> "within", center |-> 1, radius |-> radius]
Join(type, operands) == [type |-> type, operands |-> operands]

Leaves ==
    {Compare("=", title, Words({u})), Compare(">", size, Num(0)), Compare("=", title, Truth),
     Inside("contains", Words({v})), Inside("equal", Num(1)), Inside("equal", Truth),
     [type |-> "search", paths |-> {title, size}, words |-> {u}], Near(0), Near(1), Near(2)}

MCFilter ==
    LET pairs == {Join(t, {x, y}) : t \in {"and", "or"}, x \in Leaves, y \in Leaves}
    IN  Leaves \cup pairs \cup {Join("not", {x}) : x \in Leaves \cup pairs}
          \cup {Join("not", {Near(0), Near(1)}), Join("and", {})}

Atoms ==
    {[type |-> "atom", op |-> "=", path |-> title, value |-> Words({u}), swapped |-> FALSE],
     [type |-> "atom", op |-> ">", path |-> title, value |-> Num(0), swapped |-> FALSE],
     [type |-> "atom", op |-> ">", path |-> title, value |-> Num(0), swapped |-> TRUE],
     [type |-> "atom", op |-> ">", path |-> size, value |-> Num(0), swapped |-> FALSE]}

MCCondition ==
    LET pairs == {Join(t, {x, y}) : t \in {"and", "or"}, x \in Atoms, y \in Atoms}
    IN  Atoms \cup pairs \cup {[type |-> "unparsed"]}
          \cup {Join("not", {x}) : x \in Atoms \cup pairs}
          \cup {Join("not", {[type |-> "parentheses", inner |-> x]}) : x \in pairs}

F == INSTANCE Filtering WITH
        FilterDoc <- {f1, f2}, NestedPath <- {size}, IdPath <- idPath, Unknown <- unknown,
        again <- refiled, FilterContents <- MCContents, Filter <- MCFilter, Condition <- MCCondition

filterVars == <<entries, places, latest, refiled>>

Scores(x, y) == ("x" :> x) @@ ("y" :> y)
ListsOf(byVector, byTerm, byText) == [dense |-> byVector, sparse |-> byTerm, text |-> byText]

\* Distances alike, apart and missing; scores of terms of either sign.
MCLists == {
    ListsOf(Scores(1, 1), Scores(2, -1), Scores(1, 1)),
    ListsOf(Scores(0, 2), Scores(2, 1), "x" :> 1),
    ListsOf(Scores(0, 2), Scores(1, 1), << >>),
    ListsOf("x" :> 2, "x" :> -2, << >>),
    ListsOf("x" :> 1, Scores(1, 1), "x" :> 2),
    ListsOf(<< >>, Scores(-1, -2), Scores(2, 1)),
    ListsOf("y" :> 1, "x" :> 2, "y" :> 1),
    ListsOf(Scores(0, 0), Scores(2, 0), Scores(2, 1)) }

VARIABLES quantized, search
quantizerVars == <<quantized, search>>

Vector == {<<2, 2>>, <<1, 2>>, <<2, -1>>, <<-1, -1>>, <<0, 0>>}

B == INSTANCE Quantization WITH
        Threshold <- 0, RescorePercent <- 70, CacheLimit <- 2, MaxCandidates <- 3

ASSUME B!QuantizationAssumption

-----------------------------------------------------------------------------
VARIABLE part   \* the part that moves

RetrievalVars == <<part, vars, faissVars, storeVars, searchVars, filterVars, fusionVars,
                   quantizerVars>>

\* One initial state of an index is enough for the others to start from.
RetrievalInit ==
    /\ Init /\ FaissInit /\ StoreInit
    /\ SearchInit /\ F!FilterInit /\ FusionInit /\ B!QuantizerInit
    /\ part \in {"hnsw", "faiss", "store", "hybrid", "filter", "fusion", "quantizer"}
    /\ part = "hnsw" \/ dimension = NoDim
    /\ part = "faiss" \/ index_type = "Flat"

\* The steps of the next-state relations, one by one.
OnHnsw(step) ==
    /\ part = "hnsw" /\ step
    /\ UNCHANGED <<part, faissVars, storeVars, searchVars, filterVars, fusionVars, quantizerVars>>
OnFaiss(step) ==
    /\ part = "faiss" /\ step
    /\ UNCHANGED <<part, vars, storeVars, searchVars, filterVars, fusionVars, quantizerVars>>
OnStore(step) ==
    /\ part = "store" /\ step
    /\ UNCHANGED <<part, vars, faissVars, searchVars, filterVars, fusionVars, quantizerVars>>
Searches(step) ==
    /\ part = "hybrid" /\ step
    /\ UNCHANGED <<part, vars, faissVars, storeVars, filterVars, fusionVars, quantizerVars>>
Filters(step) ==
    /\ part = "filter" /\ step
    /\ UNCHANGED <<part, vars, faissVars, storeVars, searchVars, fusionVars, quantizerVars>>
Learns(step) ==
    /\ part = "fusion" /\ step
    /\ UNCHANGED <<part, vars, faissVars, storeVars, searchVars, filterVars, quantizerVars>>
Quantizes(step) ==
    /\ part = "quantizer" /\ step
    /\ UNCHANGED <<part, vars, faissVars, storeVars, searchVars, filterVars, fusionVars>>

RetrievalNext ==
    \/ \E items \in Batches : OnHnsw(AddVectors(items)) \/ OnFaiss(FaissAddVectors(items))
    \/ \E id \in Id, vec \in Vec :
          OnHnsw(AddVector(id, vec)) \/ OnFaiss(FaissAddVector(id, vec))
    \/ \E id \in Id : OnHnsw(RemoveVector(id)) \/ OnFaiss(FaissRemoveVector(id))
    \/ OnHnsw(Optimize) \/ OnFaiss(FaissOptimize)
    \/ OnHnsw(Clear) \/ OnFaiss(FaissClear)
    \/ \E id \in DocId, d \in Document :
          OnStore(InsertDocument(id, d)) \/ OnStore(UpdateDocument(id, d))
    \/ \E d \in Document :
          OnStore(InsertFresh(d)) \/ OnStore(BatchInsertDocuments(DocId, d))
    \/ \E id \in DocId : OnStore(DeleteDocument(id))
    \/ OnStore(UpdateDocumentMetadata(d1, "n"))
    \/ OnStore(WriteForeign(Foreign, "value")) \/ OnStore(WriteForeign(Elsewhere, Empty))
    \/ OnStore(ClearStore) \/ OnStore(OptimizeStore) \/ OnStore(BackgroundFlush)
    \/ OnStore(Backup) \/ (\E p \in 0..2 : OnStore(BeginRestore(p)))
    \/ OnStore(ClearForRestore) \/ OnStore(RestoreEntry)
    \/ OnStore(FinishRestore) \/ OnStore(RestoreFails)
    \/ OnStore(Crash) \/ OnStore(NextSecond)
    \/ \E d \in Doc, words \in SUBSET Word : Searches(AddDocument(d, words))
    \/ \E d \in Doc : Searches(RemoveDocument(d))
    \/ \E words \in SUBSET Word \ {{}} :
          Searches(NewVocabulary(words)) \/ Searches(Search(words))
    \/ Searches(ClearSearch)
    \/ \E d \in {f1, f2}, contents \in MCContents : Filters(F!AddToFilter(d, contents))
    \/ \E r \in Recorder :
        \/ \E query \in Query, rating \in Ratings \cup {0} : Learns(RecordFeedback(r, query, rating))
        \/ Learns(Learn(r))
    \/ (\E vector \in Vector : Quantizes(B!Quantize(vector))) \/ Quantizes(B!ClearQuantized)
    \/ \E query \in Vector, n \in 1..3 : \E candidates \in [1..n -> Vector] :
          Quantizes(B!MultiStageSearch(query, candidates))

RetrievalSpec == RetrievalInit /\ [][RetrievalNext]_RetrievalVars

\* What is found is what the contents say: by filters and by the conditions that
\* are translated to one, asked once the engine has a document (filtering.rs:373,
\* 784), and by the quantizer, which finds a stored vector by itself
\* (quantization.rs:176).
AnswersMatchContents ==
    /\ latest # << >> => F!FilterMatchesDocuments /\ F!SqlKeepsMeaning
    /\ B!ExactMatchIsFound

Alike == Permutations(Doc) \cup Permutations(Word)
=============================================================================
