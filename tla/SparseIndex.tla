---------------------------- MODULE SparseIndex -----------------------------
(***************************************************************************)
(* SparseIndex of src/sparse.rs, an inverted index with the statistics of  *)
(* BM25, and the vocabulary that turns a text into its terms.  A call      *)
(* holds the locks of index and statistics to its end.                     *)
(***************************************************************************)
EXTENDS Integers, Sequences, FiniteSets, SequencesExt

CONSTANTS Doc,
          Word    \* words of the texts, stop words apart

\* Identifiers of terms.
Term == 0..Cardinality(Word) - 1

VARIABLES inverted_index,         \* term -> documents of its entries
          document_frequencies,   \* term -> its count
          total_documents,
          vocabulary,             \* word -> term
          additions               \* history: document -> additions not yet removed

indexVars == <<inverted_index, document_frequencies, total_documents, vocabulary, additions>>

IndexInit ==
    /\ inverted_index = [t \in Term |-> << >>]
    /\ document_frequencies = << >>
    /\ total_documents = 0
    /\ vocabulary = << >>
    /\ additions = [d \in Doc |-> 0]

-----------------------------------------------------------------------------
\* build_vocabulary numbers the words in the order a hash set yields them.
UpdateVocabulary(words) ==
    /\ vocabulary' \in {f \in [words -> 0..Cardinality(words) - 1] :
                          \A v, w \in words : f[v] = f[w] => v = w}
    /\ UNCHANGED <<inverted_index, document_frequencies, total_documents, additions>>

\* The terms of a text; words that the vocabulary lacks are left out.
TermsOf(words) == {vocabulary[w] : w \in words \cap DOMAIN vocabulary}

Frequency(t) == IF t \in DOMAIN document_frequencies THEN document_frequencies[t] ELSE 0

\* add_document: an entry for every term, also for a document that has some.
AddEntries(d, terms) ==
    /\ inverted_index' =
           [t \in Term |-> IF t \in terms THEN Append(inverted_index[t], d)
                           ELSE inverted_index[t]]
    /\ document_frequencies' =
           [t \in DOMAIN document_frequencies \cup terms |->
               IF t \in terms THEN Frequency(t) + 1 ELSE Frequency(t)]
    /\ total_documents' = total_documents + 1
    /\ additions' = [additions EXCEPT ![d] = @ + 1]
    /\ UNCHANGED vocabulary

FirstEntry(d, t) == SelectInSeq(inverted_index[t], LAMBDA e : e = d)

\* Mutant: the removal ends with the first term that has the document.
RemoveFirstTermOnly(d) ==
    LET having == {t \in Term : FirstEntry(d, t) # 0}
    IN  [t \in Term |->
            IF t \in having /\ \A other \in having : t <= other
            THEN RemoveAt(inverted_index[t], FirstEntry(d, t)) ELSE inverted_index[t]]

\* The first entry of the document leaves every list.
EntriesWithout(d) ==
    [t \in Term |-> IF FirstEntry(d, t) = 0 THEN inverted_index[t]
                    ELSE RemoveAt(inverted_index[t], FirstEntry(d, t))]

\* A count goes with the last entry of its term, and is not lowered before.
FrequenciesAfter(d) ==
    [t \in {x \in DOMAIN document_frequencies :
               FirstEntry(d, x) = 0 \/ EntriesWithout(d)[x] # << >>} |->
        document_frequencies[t]]

\* Documents without a term are not found, and stay counted.
CountAfter(d) ==
    IF total_documents > 0 /\ \E t \in Term : FirstEntry(d, t) # 0
    THEN total_documents - 1 ELSE total_documents

RemoveEntries(d) ==
    /\ inverted_index' = EntriesWithout(d)
    /\ document_frequencies' = FrequenciesAfter(d)
    /\ total_documents' = CountAfter(d)
    /\ additions' = [additions EXCEPT ![d] = IF @ = 0 THEN 0 ELSE @ - 1]
    /\ UNCHANGED vocabulary

ClearIndex ==
    /\ inverted_index' = [t \in Term |-> << >>]
    /\ document_frequencies' = << >> /\ total_documents' = 0
    /\ additions' = [d \in Doc |-> 0]
    /\ UNCHANGED vocabulary

\* Documents that search_bm25 gives a score to.
Matching(terms) == UNION {Range(inverted_index[t]) : t \in terms}

-----------------------------------------------------------------------------
Entries(d, t) == Cardinality({i \in DOMAIN inverted_index[t] : inverted_index[t][i] = d})

\* A document removed as often as it was added has no entry left, though its
\* texts had other terms, or the same terms under a vocabulary since replaced;
\* the statistics never fall behind the entries: each term with entries, and no
\* other, has a count, which covers them, and the documents are at least as many
\* as those with entries, so that a search finds them (sparse.rs:88-93, 110-134,
\* 161).
SparseIndexSound ==
    /\ \A d \in Doc, t \in Term : Entries(d, t) <= additions[d]
    /\ \A t \in Term :
          /\ t \in DOMAIN document_frequencies <=> inverted_index[t] # << >>
          /\ Frequency(t) >= Len(inverted_index[t])
    /\ Cardinality(Matching(Term)) <= total_documents
=============================================================================
