---------------------------- MODULE HybridSearch -----------------------------
(***************************************************************************)
(* HybridSearchEngine of src/hybrid.rs: a dense index and a sparse index   *)
(* that documents enter and leave together, and searches that fuse the     *)
(* rankings of both with a text search over the store.  Distances, BM25    *)
(* and text scores are any scores in the order each source ranks by, and   *)
(* an absent score of BM25 that is not a number leaves any order.          *)
(*                                                                         *)
(* The fusion strategies of src/hybrid.rs beside reciprocal ranks, and the *)
(* StatisticalFusionModel that learns the weights of one of them from the  *)
(* ratings of users.  These fuse the numbers that the sources give: the    *)
(* distances of the dense index, where less is nearer, as they are, scores *)
(* of BM25, which can be negative, and scores of the text.  They are       *)
(* integers here; a weight counts in thousandths, a rating in fifths, and  *)
(* words stand for the text of a query.                                    *)
(***************************************************************************)
EXTENDS SparseIndex, FiniteSetsExt

CONSTANTS Limit, RrfK,
          Unit,           \* a reciprocal rank of one: all denominators divide it
          MaxAdds         \* bound on the additions

ASSUME SearchAssumption ==
    /\ {Limit, RrfK, Unit, MaxAdds} \subseteq Nat \ {0}
    /\ IsFiniteSet(Doc) /\ IsFiniteSet(Word)
    /\ \A r \in 1..2 * Limit : Unit % (RrfK + r) = 0

VARIABLES dense,   \* documents in the dense index
          stored,  \* document in the store -> its words
          answer,  \* rankings of the last search and their fusion
          adds

searchVars == <<indexVars, dense, stored, answer, adds>>

NoAnswer == [lists |-> <<<<>>, <<>>, <<>>>>, ranking |-> <<>>]

SearchInit ==
    /\ IndexInit
    /\ dense = {} /\ stored = << >> /\ answer = NoAnswer /\ adds = 0

-----------------------------------------------------------------------------
\* Rankings of at most 2 * limit of some documents, best first.
Rankings(docs) ==
    LET n == Min({2 * Limit, Cardinality(docs)})
    IN  {r \in [1..n -> docs] : \A i, j \in 1..n : r[i] = r[j] => i = j}

\* Old points of a vector in the graph may take the place of documents.
DenseRankings == UNION {Rankings(docs) : docs \in SUBSET dense}

Listed(lists) == UNION {ToSet(lists[i]) : i \in 1..3}

\* Place of a document in a ranking, 0 if it has none.
RankIn(d, ranking) ==
    IF d \in ToSet(ranking) THEN CHOOSE i \in DOMAIN ranking : ranking[i] = d ELSE 0

Reciprocal(d, ranking) ==
    IF RankIn(d, ranking) = 0 THEN 0 ELSE Unit \div (RrfK + RankIn(d, ranking))

\* Mutant: a later source overwrites the score of an earlier one.
LastReciprocal(lists) ==
    [d \in Listed(lists) |->
        Reciprocal(d, lists[Max({i \in 1..3 : RankIn(d, lists[i]) # 0})])]

\* rrf_fusion adds up the reciprocal ranks of a document.
RrfScores(lists) ==
    [d \in Listed(lists) |->
        Reciprocal(d, lists[1]) + Reciprocal(d, lists[2]) + Reciprocal(d, lists[3])]

\* Best first; documents of the same score in the order the map yields them.
Sorted(scores) ==
    {r \in Rankings(DOMAIN scores) :
        /\ \A i, j \in DOMAIN r : i < j => scores[r[i]] >= scores[r[j]]
        /\ \A d \in DOMAIN scores \ ToSet(r) : \A i \in DOMAIN r : scores[r[i]] >= scores[d]}

\* The cut to the limit, and what the store has of it, in the order of the ranking.
Kept(ranking) ==
    LET docs == {ranking[i] : i \in {j \in DOMAIN ranking : j <= Limit}} \cap DOMAIN stored
    IN  {r \in UNION {[1..n -> docs] : n \in 0..Limit} :
            /\ ToSet(r) = docs
            /\ \A i, j \in DOMAIN r : i < j => RankIn(r[i], ranking) < RankIn(r[j], ranking)}

-----------------------------------------------------------------------------
\* add_document indexes the vector, then the text by the vocabulary of the
\* moment; the caller has stored the document.  A vector that is refused leaves
\* the sparse index as it was.
AddDocument(d, words) ==
    /\ adds < MaxAdds /\ adds' = adds + 1
    /\ stored' = [e \in DOMAIN stored \cup {d} |-> IF e = d THEN words ELSE stored[e]]
    /\ \/ dense' = dense \cup {d} /\ AddEntries(d, TermsOf(words))
       \/ UNCHANGED <<indexVars, dense>>
    /\ answer' = NoAnswer

\* remove_document; the caller removes the document from the store.
RemoveDocument(d) ==
    /\ dense' = dense \ {d}
    /\ RemoveEntries(d)
    /\ stored' = [e \in DOMAIN stored \ {d} |-> stored[e]]
    /\ answer' = NoAnswer
    /\ UNCHANGED adds

NewVocabulary(words) ==
    /\ UpdateVocabulary(words)
    /\ answer' = NoAnswer
    /\ UNCHANGED <<dense, stored, adds>>

ClearSearch ==
    /\ ClearIndex
    /\ answer' = NoAnswer
    /\ UNCHANGED <<dense, stored, adds>>

\* A search with a vector and a text.  The dense and sparse rankings come from
\* the indexes as they are, the text ranking from the store; answers that the
\* store no longer has are dropped, after the cut to the limit.
Search(words) ==
    /\ answer = NoAnswer
    /\ \E byVector \in DenseRankings,
          byTerm \in Rankings(IF total_documents = 0 THEN {} ELSE Matching(TermsOf(words))),
          byText \in Rankings({d \in DOMAIN stored : stored[d] \cap words # {}}) :
          LET lists == <<byVector, byTerm, byText>> IN
          \E ranking \in Sorted(RrfScores(lists)) : \E kept \in Kept(ranking) :
             answer' = [lists |-> lists, ranking |-> kept]
    /\ UNCHANGED <<indexVars, dense, stored, adds>>

SearchNext ==
    \/ \E d \in Doc, words \in SUBSET Word : AddDocument(d, words)
    \/ \E d \in Doc : RemoveDocument(d)
    \/ \E words \in SUBSET Word \ {{}} : NewVocabulary(words) \/ Search(words)
    \/ ClearSearch

SearchSpec == SearchInit /\ [][SearchNext]_searchVars

-----------------------------------------------------------------------------
\* d is listed wherever e is, never behind it and somewhere ahead of it.
Dominates(d, e, lists) ==
    /\ \A i \in 1..3 : RankIn(e, lists[i]) # 0 =>
          RankIn(d, lists[i]) # 0 /\ RankIn(d, lists[i]) <= RankIn(e, lists[i])
    /\ \E i \in 1..3 : RankIn(d, lists[i]) # 0 /\ RankIn(d, lists[i]) # RankIn(e, lists[i])

\* A document that every source prefers to another, or lists alone, is not left
\* out for it, and stands before it in the answer (hybrid.rs:422, 482).
PreferredIsKept ==
    \A d \in DOMAIN stored : \A i \in DOMAIN answer.ranking :
        Dominates(d, answer.ranking[i], answer.lists) => RankIn(d, answer.ranking) # 0

PreferredIsAhead ==
    \A d \in DOMAIN stored : \A i \in DOMAIN answer.ranking :
        Dominates(d, answer.ranking[i], answer.lists) => RankIn(d, answer.ranking) \in 0..i - 1
-----------------------------------------------------------------------------
(* Fusion by scores, and the learning of its weights.                      *)

CONSTANTS Recorder,     \* threads that record metrics of queries
          FusedDoc,     \* documents
          Query,        \* sets of words: the texts of queries
          Ratings,      \* ratings users give, among 1..5
          Rate,         \* learning_rate * 0.2, in thousandths
          MaxHistory,   \* 10000: queries kept in query_history
          Lists,        \* what the sources give: source -> document -> number
          TextLengths,  \* bytes of the text of a search
          MaxScore, One,   \* numbers are up to MaxScore; a normalised score of one is One
          MaxRecorded   \* bound on the queries recorded

Source == {"dense", "sparse", "text"}

ASSUME FusionAssumption ==
    /\ {Rate, MaxHistory, MaxScore, One} \subseteq Nat \ {0} /\ Rate % 10 = 0
    /\ MaxRecorded \in Nat
    /\ Ratings \subseteq 1..5 /\ TextLengths \subseteq Nat
    /\ \A lists \in Lists, s \in Source :
          /\ DOMAIN lists[s] \subseteq FusedDoc
          /\ \A d \in DOMAIN lists[s] :
                lists[s][d] \in (IF s = "sparse" THEN -MaxScore ELSE 0)..MaxScore
    /\ \A range \in 1..2 * MaxScore : One % range = 0

VARIABLES weights,    \* query_type_weights: type of query -> weights
          last,       \* last rating in weight_history, NoRating without one
          history,    \* query_history: records of a text and a rating
          learning,   \* recorder -> rating it still has to hand to the model
          recorded

fusionVars == <<weights, last, history, learning, recorded>>

Kind == {"semantic", "keyword", "mixed"}
NoRating == 0
Idle == -1

Triple(d, s, t) == [dense |-> d, sparse |-> s, text |-> t]

\* StatisticalFusionModel::new.
InitialWeights ==
    [semantic |-> Triple(800, 150, 50), keyword |-> Triple(300, 600, 100),
     mixed |-> Triple(500, 400, 100)]

FusionInit ==
    /\ weights = InitialWeights /\ last = NoRating /\ history = <<>>
    /\ learning = [r \in Recorder |-> Idle] /\ recorded = 0

-----------------------------------------------------------------------------
(* Learning *)

Clamp(n, low, high) == IF n < low THEN low ELSE IF n > high THEN high ELSE n

\* update_model moves the weights of every type of query by how much this rating
\* differs from the one before, whatever the query was.
Moved(w, difference) ==
    Triple(Clamp(w.dense + Rate * difference, 100, 900),
           Clamp(w.sparse + (Rate \div 2) * difference, 100, 900),
           Clamp(w.text + ((3 * Rate) \div 10) * difference, 50, 300))

\* Mutant: the rating itself moves the weights, not the change of rating.
UpdateModelByRating(rating) ==
    IF rating = NoRating THEN UNCHANGED <<weights, last>>
    ELSE /\ weights' = [kind \in Kind |->
              IF last = NoRating THEN weights[kind] ELSE Moved(weights[kind], rating)]
         /\ last' = rating

UpdateModel(rating) ==
    IF rating = NoRating THEN UNCHANGED <<weights, last>>
    ELSE /\ weights' = [kind \in Kind |->
              IF last = NoRating THEN weights[kind] ELSE Moved(weights[kind], rating - last)]
         /\ last' = rating

\* record_query_metrics keeps the latest queries, then lets go of the history
\* and takes the lock of the model.
RecordFeedback(r, query, rating) ==
    /\ learning[r] = Idle /\ recorded < MaxRecorded /\ recorded' = recorded + 1
    /\ LET longer == Append(history, [text |-> query, rating |-> rating])
       IN  history' = IF Len(longer) > MaxHistory THEN Tail(longer) ELSE longer
    /\ learning' = [learning EXCEPT ![r] = rating]
    /\ UNCHANGED <<weights, last>>

Learn(r) ==
    /\ learning[r] # Idle
    /\ UpdateModel(learning[r])
    /\ learning' = [learning EXCEPT ![r] = Idle]
    /\ UNCHANGED <<history, recorded>>

FusionNext ==
    \/ \E r \in Recorder, query \in Query, rating \in Ratings \cup {NoRating} :
          RecordFeedback(r, query, rating)
    \/ \E r \in Recorder : Learn(r)

FusionSpec == FusionInit /\ [][FusionNext]_fusionVars

-----------------------------------------------------------------------------
(* Weights of a search *)

\* analyze_query_context, by the bytes of the text and whether it has a space.
KindOf(bytes, spaced) ==
    IF bytes > 20 /\ spaced THEN "semantic"
    ELSE IF bytes <= 5 \/ ~spaced THEN "keyword" ELSE "mixed"

\* predict_weights, in ten-thousandths: a text of more than ten bytes raises
\* the dense weight, to at most one, another lowers it.
PredictWeights(bytes, spaced) ==
    LET w == weights[KindOf(bytes, spaced)]
    IN  Triple(Min({w.dense * (IF bytes > 10 THEN 12 ELSE 8), 10000}), 10 * w.sparse, 10 * w.text)

NoneNegative(lists) == \A s \in Source : \A d \in DOMAIN lists[s] : lists[s][d] >= 0

\* calculate_result_quality is nought for a list without results and positive for
\* one whose numbers are not negative; adjust_weights_by_quality shares a fifth
\* out by quality.  How is left open, in tenths of the weight.  Negative scores can
\* make a quality negative, and the shares then have no bound and no sign.
Shares(lists) ==
    LET found == {s \in Source : lists[s] # << >>}
    IN  IF found = {} THEN {[s \in Source |-> 0]}
        ELSE IF NoneNegative(lists)
             THEN {share \in [Source -> 0..2] :
                      /\ share["dense"] + share["sparse"] + share["text"] = 2
                      /\ \A s \in Source \ found : share[s] = 0}
             ELSE [Source -> Int]

AdjustWeights(w, share) == [s \in Source |-> w[s] * (10 + share[s])]

\* calculate_query_similarity above 0.7.
Similar(a, b) == 10 * Cardinality(a \cap b) > 7 * Cardinality(a \cup b)

\* adapt_weights_from_history, in hundredths of the weight: the queries nobody
\* rated count as ratings of nought.
Poor(query) ==
    LET similar == SelectSeq(history, LAMBDA q : Similar(q.text, query))
        total == FoldLeft(LAMBDA sum, q : sum + q.rating, 0, similar)
    IN  similar # <<>> /\ 10 * total < 6 * 5 * Len(similar)

AdaptWeights(w, query) ==
    IF Poor(query) THEN Triple(90 * w.dense, 110 * w.sparse, 105 * w.text)
    ELSE Triple(100 * w.dense, 100 * w.sparse, 100 * w.text)

-----------------------------------------------------------------------------
(* Fusion of lists of numbers: source -> document -> number *)

Scored(lists) == UNION {DOMAIN lists[s] : s \in Source}

\* linear_fusion: more is better, in every list, and a document that a list has not
\* gets nought for it.
LinearFusion(lists, w) ==
    [d \in Scored(lists) |->
        LET part(s) == IF d \in DOMAIN lists[s] THEN w[s] * lists[s][d] ELSE 0
        IN  part("dense") + part("sparse") + part("text")]

\* normalize_scores: from nought for the least number of the list to one for the
\* greatest, and one for every document when all are equal.
NormalizeScores(list) ==
    LET scores == {list[d] : d \in DOMAIN list}
        range == Max(scores) - Min(scores)
    IN  [d \in DOMAIN list |->
            IF range > 0 THEN (One * (list[d] - Min(scores))) \div range ELSE One]

\* fuse_results, for the strategies that are not reciprocal ranks: the scores that
\* a search may give to these lists.  Those of the first two come from the weights
\* w alone, the others also from the length of the text and what was learnt from
\* such texts, or from the ratings of similar queries.
LinearScores(lists, w) == {LinearFusion(lists, w)}
NormalizedScores(lists, w) == {LinearFusion([s \in Source |-> NormalizeScores(lists[s])], w)}
LearnedScores(lists, bytes, spaced) ==
    {LinearFusion(lists, AdjustWeights(PredictWeights(bytes, spaced), share)) :
        share \in Shares(lists)}
AdaptiveScores(lists, w, query) == {LinearFusion(lists, AdaptWeights(w, query))}

-----------------------------------------------------------------------------
FusionTypeOK ==
    /\ weights \in [Kind -> [dense : 100..900, sparse : 100..900, text : 50..300]]
    /\ last \in Ratings \cup {NoRating}
    /\ history \in Seq([text : Query, rating : Ratings \cup {NoRating}])
    /\ Len(history) <= MaxHistory
    /\ learning \in [Recorder -> Ratings \cup {NoRating, Idle}]
    /\ recorded \in 0..MaxRecorded

\* No run of ratings, however long and however the recorders interleave, moves
\* a weight further than the largest single change of rating: what the model
\* adds for a rise it takes back for the fall, and a bound on the weight may
\* swallow part of a move but not add one.
WeightsStayClose ==
    \A kind \in Kind :
        LET w == weights[kind]  from == InitialWeights[kind] IN
        /\ w.dense - from.dense \in -4 * Rate..4 * Rate
        /\ w.sparse - from.sparse \in -2 * Rate..2 * Rate
        /\ 10 * (w.text - from.text) \in -12 * Rate..12 * Rate

\* What is learnt stays in its bounds, the weights and the history (hybrid.rs:134).
LearningIsBounded == FusionTypeOK /\ WeightsStayClose

\* The list has d wherever it has e, with no lower number; and where it has not e,
\* not with a negative number, which counts less than none.
NoLower(d, e, list) ==
    IF e \in DOMAIN list THEN d \in DOMAIN list /\ list[d] >= list[e]
    ELSE d \in DOMAIN list => list[d] >= 0

\* By terms and text d is at least as good as e; by the vector it is listed if e
\* is, and no nearer.
AtLeastAsGood(d, e, lists) ==
    NoLower(d, e, lists["sparse"]) /\ NoLower(d, e, lists["text"])
NoNearer(d, e, lists) == NoLower(d, e, lists["dense"])

OrderKept(fused, lists) ==
    \A d, e \in Scored(lists) :
        AtLeastAsGood(d, e, lists) /\ NoNearer(d, e, lists) => fused[d] >= fused[e]

FusionsFollow(lists, w) ==
    /\ \A fused \in LinearScores(lists, w) : OrderKept(fused, lists)
    /\ \A fused \in NormalizedScores(lists, w) : OrderKept(fused, lists)
    /\ NoneNegative(lists) => \A bytes \in TextLengths, spaced \in BOOLEAN :
          \A fused \in LearnedScores(lists, bytes, spaced) : OrderKept(fused, lists)
    /\ \A query \in Query : \A fused \in AdaptiveScores(lists, w, query) : OrderKept(fused, lists)

\* Of two documents that the vector does not tell apart, the one that terms and
\* text rank no lower does not end up with the lower score, by any weights, learned
\* or adapted; nor does it when it is the farther one, since a distance counts as
\* a score.
FusionFollowsScores == \A lists \in Lists : FusionsFollow(lists, InitialWeights.mixed)

\* By reciprocal ranks no fusion turns around what the sources agree on; by weights
\* none turns around what terms and text agree on where the vector has no say,
\* whatever has been learnt and recorded (hybrid.rs:422, 491, 587).
FusionKeepsOrder ==
    /\ [](PreferredIsKept /\ PreferredIsAhead)
    /\ FusionFollowsScores
    /\ [][UNCHANGED <<weights, history>> \/ FusionFollowsScores']_<<weights, history>>
=============================================================================
