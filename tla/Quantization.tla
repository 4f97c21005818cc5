---------------------------- MODULE Quantization ----------------------------
(***************************************************************************)
(* BinaryQuantizer of src/quantization.rs: vectors reduced to one bit per  *)
(* coordinate, kept in a bounded cache, and the search in two stages, by   *)
(* the bits and then by the cosine of the vectors themselves.  Coordinates *)
(* are integers and fill whole bytes, so that no bit beyond the last one   *)
(* takes part in a distance.                                               *)
(***************************************************************************)
EXTENDS Integers, Sequences, FiniteSetsExt, SequencesExt, TLC

CONSTANTS Vector,           \* vectors of one dimension: tuples of integers
          Threshold,        \* a coordinate above it becomes a one
          RescorePercent,   \* rescore_ratio, in hundredths
          CacheLimit,       \* 10000: vectors the cache takes
          MaxCandidates     \* bound on the candidates of a search

QuantizationAssumption ==
    /\ Threshold \in Int /\ RescorePercent \in 0..100
    /\ {CacheLimit, MaxCandidates} \subseteq Nat \ {0}
    /\ \A v \in Vector : v \in Seq(Int) /\ \A w \in Vector : Len(w) = Len(v)

VARIABLES quantized,   \* the cache: vector -> bits
          search       \* query, candidates and answer of the last search

quantizerVars == <<quantized, search>>

NoSearch == [query |-> <<>>, candidates |-> <<>>, answer |-> <<>>]

QuantizerInit == quantized = << >> /\ search = NoSearch

-----------------------------------------------------------------------------
\* The set of coordinates whose bit is one.
Bits(v) == {i \in DOMAIN v : v[i] > Threshold}

\* quantize answers from its cache and, while there is room, adds to it.
BitsOf(v) == IF v \in DOMAIN quantized THEN quantized[v] ELSE Bits(v)

Quantize(v) ==
    /\ quantized' = IF v \in DOMAIN quantized \/ Cardinality(DOMAIN quantized) >= CacheLimit
                    THEN quantized ELSE (v :> Bits(v)) @@ quantized
    /\ UNCHANGED search

ClearQuantized == quantized' = << >> /\ UNCHANGED search

HammingDistance(a, b) == Cardinality((a \ b) \cup (b \ a))

Dot(v, w) == FoldLeft(LAMBDA sum, i : sum + v[i] * w[i], 0, [i \in DOMAIN v |-> i])

Signed(n) == IF n < 0 THEN -(n * n) ELSE n * n

\* cosine_similarity of q and v is no less than that of q and w: nought for a
\* vector without length, and compared by their squares.
CosineAtLeast(q, v, w) ==
    LET dv == IF Dot(v, v) = 0 THEN 0 ELSE Dot(q, v)
        dw == IF Dot(w, w) = 0 THEN 0 ELSE Dot(q, w)
        nv == IF Dot(v, v) = 0 THEN 1 ELSE Dot(v, v)
        nw == IF Dot(w, w) = 0 THEN 1 ELSE Dot(w, w)
    IN  Signed(dv) * nw >= Signed(dw) * nv

\* The number of candidates rescored is rounded down, to none of a few.
RescoreNearest(query, candidates) ==
    LET n == (Len(candidates) * RescorePercent) \div 100
        far(i) == HammingDistance(BitsOf(query), BitsOf(candidates[i]))
        byBits == SortSeq([i \in 1..Len(candidates) |-> i],
                          LAMBDA i, j : far(i) < far(j) \/ (far(i) = far(j) /\ i < j))
    IN  SortSeq(SubSeq(byBits, 1, n),
                LAMBDA i, j : CosineAtLeast(query, candidates[i], candidates[j])
                              /\ ~CosineAtLeast(query, candidates[j], candidates[i]))

\* multi_stage_search.
MultiStageSearch(query, candidates) ==
    /\ search = NoSearch
    /\ search' = [query |-> query, candidates |-> candidates,
                  answer |-> RescoreNearest(query, candidates)]
    /\ UNCHANGED quantized

QuantizerNext ==
    \/ \E v \in Vector : Quantize(v)
    \/ ClearQuantized
    \/ \E query \in Vector, n \in 1..MaxCandidates : \E candidates \in [1..n -> Vector] :
          MultiStageSearch(query, candidates)

QuantizerSpec == QuantizerInit /\ [][QuantizerNext]_quantizerVars

-----------------------------------------------------------------------------
\* A candidate equal to the query is first in the answer, or only candidates in
\* the same direction are before it, whenever the first stage keeps as many
\* candidates as share its bits: no shortcut by bits loses an exact match
\* (quantization.rs:168).
ExactMatchIsFound ==
    \A i \in DOMAIN search.candidates :
        LET query == search.query
            alike == {j \in DOMAIN search.candidates : Bits(search.candidates[j]) = Bits(query)}
        IN  /\ search.candidates[i] = query
            /\ Cardinality(alike) <= (Len(search.candidates) * RescorePercent) \div 100
            => /\ search.answer # <<>>
               /\ CosineAtLeast(query, search.candidates[search.answer[1]], query)
=============================================================================
