------------------------- MODULE HybridSearchProofs -------------------------
(***************************************************************************)
(* What holds of hybrid search for any documents, words, limits and        *)
(* queries: the statistics of the sparse index never fall behind its       *)
(* entries, while documents are added twice and removed under other        *)
(* vocabularies; what users' ratings teach stays in its bounds; and no     *)
(* fusion turns around what the sources agree on.                          *)
(***************************************************************************)
EXTENDS HybridSearch, FunctionTheorems, SequenceTheorems, FiniteSetTheorems,
        WellFoundedInduction, TLAPS

IndexTyped ==
    /\ inverted_index \in [Term -> Seq(Doc)]
    /\ document_frequencies \in [DOMAIN document_frequencies -> Nat]
    /\ total_documents \in Nat
    /\ additions \in [Doc -> Nat]

EntriesAdded == \A d \in Doc, t \in Term : Entries(d, t) <= additions[d]

FrequenciesCover ==
    \A t \in Term :
        /\ t \in DOMAIN document_frequencies <=> inverted_index[t] # << >>
        /\ Frequency(t) >= Len(inverted_index[t])

\* A document has as many layers as entries in the list that has most of them:
\* an addition makes at most one more, and a removal takes one away.
Layers == {p \in Doc \X Nat : \E t \in Term : p[2] \in 1..Entries(p[1], t)}

LayersCounted == IsFiniteSet(Layers) /\ Cardinality(Layers) <= total_documents

Inv == IndexTyped /\ EntriesAdded /\ FrequenciesCover /\ LayersCounted

-----------------------------------------------------------------------------
(* Sequences of documents.                                                 *)

Places(s, d) == {i \in DOMAIN s : s[i] = d}
Occurrences(s, d) == Cardinality(Places(s, d))

LEMMA PlacesAreFinite ==
    ASSUME NEW D, NEW s \in Seq(D), NEW d
    PROVE  /\ Places(s, d) \in SUBSET (1..Len(s)) /\ IsFiniteSet(Places(s, d))
           /\ Occurrences(s, d) \in Nat
           /\ Occurrences(s, d) = 0 <=> \A i \in 1..Len(s) : s[i] # d
<1>1. Places(s, d) \in SUBSET (1..Len(s))
      BY DEF Places
<1>2. IsFiniteSet(Places(s, d)) /\ Occurrences(s, d) \in Nat
      <2>1. IsFiniteSet(1..Len(s))
            BY FS_Interval
      <2> QED BY <1>1, <2>1, FS_Subset, FS_CardinalityType DEF Occurrences
<1>3. Occurrences(s, d) = 0 <=> Places(s, d) = {}
      BY <1>2, FS_EmptySet DEF Occurrences
<1> QED BY <1>1, <1>2, <1>3 DEF Places

\* A non-empty set of numbers has a least one.
LEMMA LeastNumber ==
    ASSUME NEW S \in SUBSET Nat, S # {}
    PROVE  Min(S) \in S /\ \A y \in S : Min(S) <= y
<1>1. PICK x \in S : \A y \in S : <<y, x>> \notin OpToRel(<, Nat)
      BY NatLessThanWellFounded, WFMin
<1>2. \A y \in S : ~ (y < x)
      BY <1>1 DEF OpToRel
<1>3. \E z \in S : \A y \in S : z <= y
      BY <1>2
<1> QED BY <1>3 DEF Min

\* The place at which SelectInSeq finds a document.
First(s, d) == SelectInSeq(s, LAMBDA e : e = d)

LEMMA FirstPlace ==
    ASSUME NEW D, NEW s \in Seq(D), NEW d
    PROVE  /\ First(s, d) = 0 <=> Occurrences(s, d) = 0
           /\ First(s, d) # 0 => First(s, d) \in 1..Len(s) /\ s[First(s, d)] = d
<1> DEFINE I == {i \in 1..Len(s) : s[i] = d}
<1>1. First(s, d) = IF I # {} THEN Min(I) ELSE 0
      BY Zenon DEF First, SelectInSeq
<1>2. /\ I \in SUBSET Nat /\ 0 \notin I
      /\ \A i \in I : i \in 1..Len(s) /\ s[i] = d
      OBVIOUS
<1>3. Occurrences(s, d) = 0 <=> I = {}
      BY PlacesAreFinite
<1> HIDE DEF I
<1>4. I # {} => Min(I) \in I
      BY <1>2, LeastNumber
<1> QED BY <1>1, <1>2, <1>3, <1>4

LEMMA OneAppended ==
    ASSUME NEW D, NEW s \in Seq(D), NEW d \in D, NEW e
    PROVE  /\ Append(s, d) \in Seq(D) /\ Append(s, d) # << >>
           /\ Len(Append(s, d)) = Len(s) + 1
           /\ Occurrences(Append(s, d), e) =
                  IF e = d THEN Occurrences(s, e) + 1 ELSE Occurrences(s, e)
<1> DEFINE a == Append(s, d)
           n == Len(s) + 1
<1>1. /\ a \in Seq(D) /\ a # << >> /\ Len(a) = n
      /\ \A i \in 1..Len(s) : a[i] = s[i]
      /\ a[n] = d
      BY AppendProperties
<1>2. /\ Places(s, e) = {i \in 1..Len(s) : s[i] = e}
      /\ Places(a, e) = {i \in 1..n : a[i] = e}
      BY <1>1 DEF Places
<1>3. n \notin Places(s, e) /\ 1..n = (1..Len(s)) \cup {n}
      BY <1>2
<1> HIDE DEF a, n
<1>4. Places(a, e) = IF e = d THEN Places(s, e) \cup {n} ELSE Places(s, e)
      BY <1>1, <1>2, <1>3
<1>5. IsFiniteSet(Places(s, e))
      BY PlacesAreFinite
<1>6. Cardinality(Places(s, e) \cup {n}) = Cardinality(Places(s, e)) + 1
      BY <1>3, <1>5, FS_AddElement
<1>7. Occurrences(a, e) = IF e = d THEN Occurrences(s, e) + 1 ELSE Occurrences(s, e)
      BY <1>4, <1>6 DEF Occurrences
<1> QED BY <1>1, <1>7 DEF a, n

LEMMA OneRemoved ==
    ASSUME NEW D, NEW s \in Seq(D), NEW k \in 1..Len(s), NEW e
    PROVE  /\ RemoveAt(s, k) \in Seq(D) /\ Len(RemoveAt(s, k)) = Len(s) - 1
           /\ Occurrences(RemoveAt(s, k), e) =
                  IF e = s[k] THEN Occurrences(s, e) - 1 ELSE Occurrences(s, e)
<1> DEFINE r == RemoveAt(s, k)
           before == SubSeq(s, 1, k - 1)
           after == SubSeq(s, k + 1, Len(s))
<1>1. /\ before \in Seq(D) /\ Len(before) = k - 1
      /\ \A i \in 1..k - 1 : before[i] = s[i]
      <2>1. \A i \in 1..k - 1 : s[i] \in D
            OBVIOUS
      <2>2. /\ before \in Seq(D) /\ Len(before) = IF 1 <= k - 1 THEN k - 1 - 1 + 1 ELSE 0
            /\ \A i \in 1..k - 1 - 1 + 1 : before[i] = s[1 + i - 1]
            BY <2>1, SubSeqProperties
      <2> QED BY <2>2
<1>2. /\ after \in Seq(D) /\ Len(after) = Len(s) - k
      /\ \A i \in 1..Len(s) - k : after[i] = s[k + i]
      <2>1. \A i \in k + 1..Len(s) : s[i] \in D
            OBVIOUS
      <2>2. /\ after \in Seq(D)
            /\ Len(after) = IF k + 1 <= Len(s) THEN Len(s) - (k + 1) + 1 ELSE 0
            /\ \A i \in 1..Len(s) - (k + 1) + 1 : after[i] = s[k + 1 + i - 1]
            BY <2>1, SubSeqProperties
      <2> QED BY <2>2
<1>3. r = before \o after
      BY DEF RemoveAt
<1> HIDE DEF before, after, r
<1>4. /\ r \in Seq(D) /\ Len(r) = Len(s) - 1
      /\ \A i \in 1..Len(s) - 1 : r[i] = IF i < k THEN s[i] ELSE s[i + 1]
      <2>1. /\ r \in Seq(D) /\ Len(r) = Len(before) + Len(after)
            /\ \A i \in 1..Len(before) + Len(after) :
                  r[i] = IF i <= Len(before) THEN before[i] ELSE after[i - Len(before)]
            BY <1>1, <1>2, <1>3, ConcatProperties
      <2>2. Len(r) = Len(s) - 1
            BY <1>1, <1>2, <2>1
      <2>3. ASSUME NEW i \in 1..Len(s) - 1
            PROVE  r[i] = IF i < k THEN s[i] ELSE s[i + 1]
            <3>0. i \in 1..Len(before) + Len(after)
                  BY <1>1, <1>2
            <3>1. CASE i < k
                  <4>1. i <= Len(before) /\ i \in 1..k - 1
                        BY <1>1, <3>1
                  <4> QED BY <1>1, <2>1, <3>0, <3>1, <4>1
            <3>2. CASE i >= k
                  <4> DEFINE j == i - (k - 1)
                  <4>1. j \in 1..Len(s) - k /\ k + j = i + 1
                        BY <3>2
                  <4>2. r[i] = after[j]
                        <5>1. ~ (i <= Len(before)) /\ i - Len(before) = j
                              BY <1>1, <3>2
                        <5> QED BY <2>1, <3>0, <5>1
                  <4> HIDE DEF j
                  <4>3. after[j] = s[k + j]
                        BY <1>2, <4>1
                  <4> QED BY <3>2, <4>1, <4>2, <4>3
            <3> QED BY <3>1, <3>2
      <2> QED BY <2>1, <2>2, <2>3
<1>5. Occurrences(r, e) = Cardinality(Places(s, e) \ {k})
      <2> DEFINE P == Places(r, e)
                 Q == Places(s, e) \ {k}
                 f == [i \in P |-> IF i < k THEN i ELSE i + 1]
      <2>1. P = {i \in 1..Len(s) - 1 : r[i] = e} /\ Q = {i \in 1..Len(s) : s[i] = e} \ {k}
            BY <1>4 DEF Places
      <2>2. f \in [P -> Q]
            <3> SUFFICES ASSUME NEW i \in P PROVE (IF i < k THEN i ELSE i + 1) \in Q
                OBVIOUS
            <3>1. i \in 1..Len(s) - 1 /\ r[i] = e
                  BY ONLY <2>1, i \in P
            <3>2. CASE i < k
                  <4>1. i \in 1..Len(s) /\ i # k /\ r[i] = s[i]
                        BY <1>4, <3>1, <3>2
                  <4> QED BY ONLY <2>1, <3>1, <3>2, <4>1
            <3>3. CASE ~ (i < k)
                  <4>1. i + 1 \in 1..Len(s) /\ i + 1 # k /\ r[i] = s[i + 1]
                        BY <1>4, <3>1, <3>3
                  <4> QED BY ONLY <2>1, <3>1, <3>3, <4>1
            <3> QED BY ONLY <3>2, <3>3
      <2>3. \A i, j \in P : f[i] = f[j] => i = j
            BY <2>1
      <2>4. ASSUME NEW q \in Q PROVE \E i \in P : f[i] = q
            <3>1. CASE q < k
                  <4>1. q \in P
                        BY <1>4, <2>1, <3>1
                  <4> QED BY <3>1, <4>1
            <3>2. CASE q > k
                  <4>1. q - 1 \in P /\ q - 1 >= k
                        BY <1>4, <2>1, <3>2
                  <4>2. f[q - 1] = q
                        BY <2>1, <4>1
                  <4> QED BY <4>1, <4>2
            <3> QED BY <2>1, <3>1, <3>2
      <2>5. f \in Bijection(P, Q)
            BY <2>2, <2>3, <2>4, Fun_IsBij
      <2>6. IsFiniteSet(P)
            BY <1>4, PlacesAreFinite
      <2> QED BY <2>5, <2>6, FS_Bijection DEF ExistsBijection, Occurrences
<1>6. IsFiniteSet(Places(s, e)) /\ (k \in Places(s, e) <=> e = s[k])
      <2>1. IsFiniteSet(Places(s, e))
            BY PlacesAreFinite
      <2>2. k \in DOMAIN s
            OBVIOUS
      <2> QED BY <2>1, <2>2 DEF Places
<1>7. Occurrences(r, e) = IF e = s[k] THEN Occurrences(s, e) - 1 ELSE Occurrences(s, e)
      <2>1. CASE e = s[k]
            BY <1>5, <1>6, <2>1, FS_RemoveElement DEF Occurrences
      <2>2. CASE e # s[k]
            <3>1. Places(s, e) \ {k} = Places(s, e)
                  BY <1>6, <2>2
            <3> QED BY <1>5, <2>2, <3>1 DEF Occurrences
      <2> QED BY <2>1, <2>2
<1> QED BY <1>4, <1>7 DEF r

-----------------------------------------------------------------------------
(* Entries and layers of documents.                                        *)

LEMMA EntriesAre ==
    ASSUME NEW d \in Doc, NEW t \in Term
    PROVE  /\ Entries(d, t) = Occurrences(inverted_index[t], d)
           /\ Entries(d, t)' = Occurrences(inverted_index'[t], d)
BY DEF Entries, Occurrences, Places

LEMMA EntriesAreNumbers ==
    ASSUME inverted_index \in [Term -> Seq(Doc)], NEW d \in Doc, NEW t \in Term
    PROVE  /\ Entries(d, t) \in Nat
           /\ FirstEntry(d, t) = First(inverted_index[t], d)
           /\ FirstEntry(d, t) = 0 <=> Entries(d, t) = 0
           /\ FirstEntry(d, t) # 0 =>
                 /\ FirstEntry(d, t) \in 1..Len(inverted_index[t])
                 /\ inverted_index[t][FirstEntry(d, t)] = d
<1>1. inverted_index[t] \in Seq(Doc)
      OBVIOUS
<1>2. FirstEntry(d, t) = First(inverted_index[t], d)
      BY Zenon DEF FirstEntry, First
<1>3. Entries(d, t) = Occurrences(inverted_index[t], d)
      BY EntriesAre
<1> QED BY <1>1, <1>2, <1>3, PlacesAreFinite, FirstPlace

LEMMA InLayers ==
    ASSUME NEW p
    PROVE  /\ p \in Layers <=>
                 \E e \in Doc, t \in Term : \E x \in 1..Entries(e, t) : p = <<e, x>>
           /\ p \in Layers' <=>
                 \E e \in Doc, t \in Term : \E x \in 1..Entries(e, t)' : p = <<e, x>>
BY DEF Layers

\* The length of the longest list of entries of a document.
LEMMA MostEntries ==
    ASSUME IndexTyped, EntriesAdded, NEW d \in Doc
    PROVE  \E m \in Nat : /\ \A t \in Term : Entries(d, t) <= m
                          /\ m # 0 => \E t \in Term : Entries(d, t) = m
<1> DEFINE U == {m \in Nat : \A t \in Term : Entries(d, t) <= m}
           m == Min(U)
<1>1. additions[d] \in U
      BY DEF IndexTyped, EntriesAdded
<1>2. m \in U /\ \A y \in U : m <= y
      BY <1>1, LeastNumber
<1>3. \A t \in Term : Entries(d, t) \in Nat
      BY EntriesAreNumbers DEF IndexTyped
<1> HIDE DEF m
<1>4. m # 0 => m - 1 \notin U
      BY <1>2
<1>5. m # 0 => \E t \in Term : Entries(d, t) > m - 1
      BY <1>2, <1>3, <1>4
<1> QED BY <1>2, <1>3, <1>5

\* Adding a document makes at most one layer.
LEMMA LayersGrow ==
    ASSUME IndexTyped, EntriesAdded, NEW d \in Doc,
           \A e \in Doc, t \in Term :
              Entries(e, t)' <= IF e = d THEN Entries(e, t) + 1 ELSE Entries(e, t),
           \A e \in Doc, t \in Term : Entries(e, t)' \in Nat
    PROVE  \E p : Layers' \subseteq Layers \cup {p}
<1>1. PICK m \in Nat : /\ \A t \in Term : Entries(d, t) <= m
                       /\ m # 0 => \E t \in Term : Entries(d, t) = m
      BY MostEntries
<1>2. \A e \in Doc, t \in Term : Entries(e, t) \in Nat
      BY EntriesAreNumbers DEF IndexTyped
<1>3. ASSUME NEW p \in Layers', p # <<d, m + 1>>
      PROVE  p \in Layers
      <2>1. PICK e \in Doc, t \in Term : \E x \in 1..Entries(e, t)' : p = <<e, x>>
            BY InLayers
      <2>2. PICK x \in 1..Entries(e, t)' : p = <<e, x>>
            BY <2>1
      <2>3. Entries(e, t) \in Nat /\ Entries(e, t)' \in Nat
            BY <1>2
      <2>4. CASE e # d
            <3>1. x \in 1..Entries(e, t)
                  BY <2>2, <2>3, <2>4
            <3> QED BY <2>2, <3>1, InLayers
      <2>5. CASE e = d
            <3>1. Entries(d, t) <= m /\ Entries(d, t) \in Nat
                  BY <1>1, <2>3, <2>5
            <3>2. x <= Entries(d, t) + 1 /\ x # m + 1
                  BY <1>3, <2>2, <2>3, <2>5
            <3>3. x \in 1..m
                  BY <2>2, <2>3, <3>1, <3>2
            <3>4. PICK u \in Term : Entries(d, u) = m
                  BY <1>1, <3>3
            <3> QED BY <2>2, <2>5, <3>3, <3>4, InLayers
      <2> QED BY <2>4, <2>5
<1> QED BY <1>3

\* Removing a document that has entries takes a layer away.
LEMMA LayersShrink ==
    ASSUME IndexTyped, EntriesAdded, NEW d \in Doc,
           \A e \in Doc, t \in Term :
              Entries(e, t)' = IF e = d /\ Entries(e, t) # 0
                               THEN Entries(e, t) - 1 ELSE Entries(e, t),
           \E t \in Term : Entries(d, t) # 0
    PROVE  \E p \in Layers : Layers' \subseteq Layers \ {p}
<1>1. PICK m \in Nat : /\ \A t \in Term : Entries(d, t) <= m
                       /\ m # 0 => \E t \in Term : Entries(d, t) = m
      BY MostEntries
<1>2. \A e \in Doc, t \in Term : Entries(e, t) \in Nat
      BY EntriesAreNumbers DEF IndexTyped
<1>3. m # 0
      BY <1>1, <1>2
<1>4. PICK u \in Term : Entries(d, u) = m
      BY <1>1, <1>3
<1>5. <<d, m>> \in Layers
      BY <1>3, <1>4, InLayers
<1>6. ASSUME NEW p \in Layers'
      PROVE  p \in Layers /\ p # <<d, m>>
      <2>1. PICK e \in Doc, t \in Term : \E x \in 1..Entries(e, t)' : p = <<e, x>>
            BY InLayers
      <2>2. PICK x \in 1..Entries(e, t)' : p = <<e, x>>
            BY <2>1
      <2>3. Entries(e, t) \in Nat
            BY <1>2
      <2>4. x \in 1..Entries(e, t)
            BY <2>2, <2>3
      <2>5. p \in Layers
            BY <2>2, <2>4, InLayers
      <2>6. ASSUME e = d PROVE x < m
            <3>1. Entries(d, t) <= m /\ Entries(d, t) # 0
                  BY <1>1, <2>3, <2>4, <2>6
            <3>2. x <= Entries(d, t) - 1
                  BY <2>2, <2>3, <2>6, <3>1
            <3> QED BY <2>3, <2>4, <2>6, <3>1, <3>2
      <2> QED BY <2>2, <2>5, <2>6
<1> QED BY <1>5, <1>6

-----------------------------------------------------------------------------
(* The operations.                                                         *)

LEMMA FrequenciesAreNumbers ==
    ASSUME IndexTyped, NEW t
    PROVE  Frequency(t) \in Nat
BY DEF IndexTyped, Frequency

LEMMA AddKeepsInv ==
    ASSUME Inv, NEW d \in Doc, NEW terms, AddEntries(d, terms)
    PROVE  Inv'
<1> USE DEF Inv
<1>1. \A t \in Term :
         /\ inverted_index[t] \in Seq(Doc)
         /\ inverted_index'[t] = IF t \in terms THEN Append(inverted_index[t], d)
                                 ELSE inverted_index[t]
      BY DEF AddEntries, IndexTyped
<1>2. ASSUME NEW t \in Term
      PROVE  /\ inverted_index'[t] \in Seq(Doc)
             /\ t \in terms => /\ inverted_index'[t] # << >>
                               /\ Len(inverted_index'[t]) = Len(inverted_index[t]) + 1
             /\ \A e \in Doc : Entries(e, t)' = IF t \in terms /\ e = d
                                                THEN Entries(e, t) + 1 ELSE Entries(e, t)
      <2>1. \A e \in Doc : /\ Entries(e, t) = Occurrences(inverted_index[t], e)
                           /\ Entries(e, t)' = Occurrences(inverted_index'[t], e)
            BY EntriesAre
      <2>2. CASE t \in terms
            <3> DEFINE old == inverted_index[t]
                       new == inverted_index'[t]
            <3>1. old \in Seq(Doc) /\ new = Append(old, d)
                  BY <1>1, <2>2
            <3> HIDE DEF old, new
            <3>2. new \in Seq(Doc) /\ new # << >> /\ Len(new) = Len(old) + 1
                  BY <3>1, OneAppended
            <3>3. \A e \in Doc :
                     Occurrences(new, e) = IF e = d THEN Occurrences(old, e) + 1
                                           ELSE Occurrences(old, e)
                  BY <3>1, OneAppended
            <3> QED BY <2>1, <2>2, <3>2, <3>3 DEF old, new
      <2>3. CASE t \notin terms
            BY <1>1, <2>1, <2>3
      <2> QED BY <2>2, <2>3
<1>3. IndexTyped'
      <2>1. inverted_index' \in [Term -> Seq(Doc)]
            BY <1>2 DEF AddEntries
      <2>2. document_frequencies' \in [DOMAIN document_frequencies' -> Nat]
            BY FrequenciesAreNumbers DEF AddEntries
      <2>3. total_documents' \in Nat /\ additions' \in [Doc -> Nat]
            BY DEF AddEntries, IndexTyped
      <2> QED BY <2>1, <2>2, <2>3 DEF IndexTyped
<1>4. \A e \in Doc, t \in Term : Entries(e, t) \in Nat
      BY EntriesAreNumbers DEF IndexTyped
<1>5. EntriesAdded'
      <2> SUFFICES ASSUME NEW e \in Doc, NEW t \in Term
                   PROVE  Entries(e, t)' <= additions'[e]
          BY DEF EntriesAdded
      <2>1. Entries(e, t) <= additions[e] /\ additions[e] \in Nat
            BY DEF EntriesAdded, IndexTyped
      <2>2. additions'[e] = IF e = d THEN additions[e] + 1 ELSE additions[e]
            BY DEF AddEntries, IndexTyped
      <2> QED BY <1>2, <1>4, <2>1, <2>2
<1>6. FrequenciesCover'
      <2> SUFFICES ASSUME NEW t \in Term
                   PROVE  /\ t \in DOMAIN document_frequencies' <=> inverted_index'[t] # << >>
                          /\ Frequency(t)' >= Len(inverted_index'[t])
          BY DEF FrequenciesCover
      <2>1. /\ t \in DOMAIN document_frequencies <=> inverted_index[t] # << >>
            /\ Frequency(t) >= Len(inverted_index[t])
            BY DEF FrequenciesCover
      <2>2. /\ t \in DOMAIN document_frequencies' <=>
                  t \in DOMAIN document_frequencies \/ t \in terms
            /\ t \in DOMAIN document_frequencies' =>
                  document_frequencies'[t] = IF t \in terms THEN Frequency(t) + 1 ELSE Frequency(t)
            BY DEF AddEntries
      <2>3. Frequency(t)' = IF t \in DOMAIN document_frequencies'
                            THEN document_frequencies'[t] ELSE 0
            BY DEF Frequency
      <2>4. Frequency(t) \in Nat /\ Len(inverted_index[t]) \in Nat
            BY <1>1, FrequenciesAreNumbers
      <2>5. t \notin DOMAIN document_frequencies => Frequency(t) = 0
            BY DEF Frequency
      <2>6. CASE t \in terms
            BY <1>2, <2>1, <2>2, <2>3, <2>4, <2>6
      <2>7. CASE t \notin terms
            <3>1. inverted_index'[t] = inverted_index[t]
                  BY <1>1, <2>7
            <3> QED BY <2>1, <2>2, <2>3, <2>5, <2>7, <3>1
      <2> QED BY <2>6, <2>7
<1>7. PICK p : Layers' \subseteq Layers \cup {p}
      <2>1. \A e \in Doc, t \in Term : Entries(e, t)' \in Nat
            BY <1>2, <1>4
      <2>2. \A e \in Doc, t \in Term :
               Entries(e, t)' <= IF e = d THEN Entries(e, t) + 1 ELSE Entries(e, t)
            BY <1>2, <1>4
      <2> QED BY <2>1, <2>2, LayersGrow
<1>8. LayersCounted'
      <2>1. /\ IsFiniteSet(Layers) /\ Cardinality(Layers) \in Nat
            /\ Cardinality(Layers) <= total_documents /\ total_documents \in Nat
            BY FS_CardinalityType DEF LayersCounted, IndexTyped
      <2>2. /\ IsFiniteSet(Layers \cup {p})
            /\ Cardinality(Layers \cup {p}) = Cardinality(Layers)
               \/ Cardinality(Layers \cup {p}) = Cardinality(Layers) + 1
            BY <2>1, FS_AddElement
      <2>3. /\ IsFiniteSet(Layers') /\ Cardinality(Layers') \in Nat
            /\ Cardinality(Layers') <= Cardinality(Layers \cup {p})
            BY <1>7, <2>2, FS_Subset, FS_CardinalityType
      <2>4. total_documents' = total_documents + 1
            BY DEF AddEntries
      <2>5. Cardinality(Layers') <= total_documents'
            BY <2>1, <2>2, <2>3, <2>4
      <2> QED BY <2>3, <2>5 DEF LayersCounted
<1> QED BY <1>3, <1>5, <1>6, <1>8

LEMMA RemoveKeepsInv ==
    ASSUME Inv, NEW d \in Doc, RemoveEntries(d)
    PROVE  Inv'
<1> USE DEF Inv
<1>1. \A t \in Term :
         /\ inverted_index[t] \in Seq(Doc)
         /\ inverted_index'[t] = IF FirstEntry(d, t) = 0 THEN inverted_index[t]
                                 ELSE RemoveAt(inverted_index[t], FirstEntry(d, t))
      BY DEF RemoveEntries, EntriesWithout, IndexTyped
<1>2. ASSUME NEW t \in Term
      PROVE  /\ inverted_index'[t] \in Seq(Doc)
             /\ FirstEntry(d, t) # 0 =>
                   /\ inverted_index[t] # << >>
                   /\ Len(inverted_index'[t]) = Len(inverted_index[t]) - 1
             /\ \A e \in Doc : Entries(e, t)' = IF e = d /\ Entries(e, t) # 0
                                                THEN Entries(e, t) - 1 ELSE Entries(e, t)
      <2> DEFINE k == FirstEntry(d, t)
      <2>1. \A e \in Doc : /\ Entries(e, t) = Occurrences(inverted_index[t], e)
                           /\ Entries(e, t)' = Occurrences(inverted_index'[t], e)
            BY EntriesAre
      <2>2. /\ k = 0 <=> Entries(d, t) = 0
            /\ k # 0 => k \in 1..Len(inverted_index[t]) /\ inverted_index[t][k] = d
            BY EntriesAreNumbers DEF IndexTyped
      <2> HIDE DEF k
      <2>3. CASE k = 0
            <3>1. inverted_index'[t] = inverted_index[t]
                  BY <1>1, <2>3 DEF k
            <3> QED BY <1>1, <2>1, <2>2, <2>3, <3>1 DEF k
      <2>4. CASE k # 0
            <3>1. inverted_index'[t] = RemoveAt(inverted_index[t], k)
                  BY <1>1, <2>4 DEF k
            <3> DEFINE old == inverted_index[t]
                       new == inverted_index'[t]
            <3>2. /\ old \in Seq(Doc) /\ new = RemoveAt(old, k)
                  /\ k \in 1..Len(old) /\ old[k] = d
                  BY <1>1, <2>2, <2>4, <3>1
            <3> HIDE DEF old, new
            <3>3. new \in Seq(Doc) /\ Len(new) = Len(old) - 1 /\ old # << >>
                  BY <3>2, OneRemoved
            <3>4. \A e \in Doc :
                     Occurrences(new, e) = IF e = d THEN Occurrences(old, e) - 1
                                           ELSE Occurrences(old, e)
                  BY <3>2, OneRemoved
            <3>5. \A e \in Doc :
                     Entries(e, t)' = IF e = d THEN Entries(e, t) - 1 ELSE Entries(e, t)
                  BY <2>1, <3>4 DEF old, new
            <3>6. Entries(d, t) # 0
                  BY <2>2, <2>4
            <3> QED BY <3>3, <3>5, <3>6 DEF old, new
      <2> QED BY <2>3, <2>4
<1>3. IndexTyped'
      <2>1. inverted_index' \in [Term -> Seq(Doc)]
            BY <1>2 DEF RemoveEntries, EntriesWithout
      <2>2. document_frequencies' \in [DOMAIN document_frequencies' -> Nat]
            BY DEF RemoveEntries, FrequenciesAfter, IndexTyped
      <2>3. total_documents' \in Nat /\ additions' \in [Doc -> Nat]
            BY DEF RemoveEntries, CountAfter, IndexTyped
      <2> QED BY <2>1, <2>2, <2>3 DEF IndexTyped
<1>4. \A e \in Doc, t \in Term : /\ Entries(e, t) \in Nat
                                 /\ e = d => (FirstEntry(d, t) = 0 <=> Entries(e, t) = 0)
      BY EntriesAreNumbers DEF IndexTyped
<1>5. EntriesAdded'
      <2> SUFFICES ASSUME NEW e \in Doc, NEW t \in Term
                   PROVE  Entries(e, t)' <= additions'[e]
          BY DEF EntriesAdded
      <2>1. Entries(e, t) <= additions[e] /\ additions[e] \in Nat
            BY DEF EntriesAdded, IndexTyped
      <2>2. additions'[e] = IF e = d /\ additions[e] # 0 THEN additions[e] - 1 ELSE additions[e]
            BY DEF RemoveEntries, IndexTyped
      <2> QED BY <1>2, <1>4, <2>1, <2>2
<1>6. FrequenciesCover'
      <2> SUFFICES ASSUME NEW t \in Term
                   PROVE  /\ t \in DOMAIN document_frequencies' <=> inverted_index'[t] # << >>
                          /\ Frequency(t)' >= Len(inverted_index'[t])
          BY DEF FrequenciesCover
      <2>1. /\ t \in DOMAIN document_frequencies <=> inverted_index[t] # << >>
            /\ Frequency(t) >= Len(inverted_index[t])
            BY DEF FrequenciesCover
      <2>2. /\ t \in DOMAIN document_frequencies' <=>
                  /\ t \in DOMAIN document_frequencies
                  /\ FirstEntry(d, t) = 0 \/ inverted_index'[t] # << >>
            /\ t \in DOMAIN document_frequencies' =>
                  document_frequencies'[t] = document_frequencies[t]
            BY DEF RemoveEntries, FrequenciesAfter
      <2>3. /\ Frequency(t) = IF t \in DOMAIN document_frequencies
                              THEN document_frequencies[t] ELSE 0
            /\ Frequency(t)' = IF t \in DOMAIN document_frequencies'
                               THEN document_frequencies'[t] ELSE 0
            BY DEF Frequency
      <2>4. Frequency(t) \in Nat /\ Len(inverted_index[t]) \in Nat
            BY <1>1, FrequenciesAreNumbers
      <2>5. CASE FirstEntry(d, t) = 0
            <3>1. inverted_index'[t] = inverted_index[t]
                  BY <1>1, <2>5
            <3> QED BY <2>1, <2>2, <2>3, <2>5, <3>1
      <2>6. CASE FirstEntry(d, t) # 0
            <3>1. t \in DOMAIN document_frequencies' <=> inverted_index'[t] # << >>
                  BY <1>2, <2>1, <2>2, <2>6
            <3>2. CASE inverted_index'[t] = << >>
                  <4>1. Len(inverted_index'[t]) = 0
                        BY <3>2
                  <4> QED BY <2>3, <3>1, <3>2, <4>1
            <3>3. CASE inverted_index'[t] # << >>
                  <4>1. Frequency(t)' = Frequency(t)
                        BY <2>2, <2>3, <3>1, <3>3
                  <4> QED BY <1>2, <2>1, <2>4, <2>6, <3>1, <4>1
            <3> QED BY <3>2, <3>3
      <2> QED BY <2>5, <2>6
<1>7. LayersCounted'
      <2>1. /\ IsFiniteSet(Layers) /\ Cardinality(Layers) \in Nat
            /\ Cardinality(Layers) <= total_documents /\ total_documents \in Nat
            BY FS_CardinalityType DEF LayersCounted, IndexTyped
      <2>2. CASE \A t \in Term : FirstEntry(d, t) = 0
            <3>1. total_documents' = total_documents
                  BY <2>2 DEF RemoveEntries, CountAfter
            <3>2. \A e \in Doc, t \in Term : Entries(e, t)' = Entries(e, t)
                  BY <1>2, <1>4, <2>2
            <3>3. Layers' = Layers
                  BY <3>2 DEF Layers
            <3> QED BY <2>1, <3>1, <3>3 DEF LayersCounted
      <2>3. CASE \E t \in Term : FirstEntry(d, t) # 0
            <3>1. \E t \in Term : Entries(d, t) # 0
                  BY <1>4, <2>3
            <3>2. PICK p \in Layers : Layers' \subseteq Layers \ {p}
                  BY <1>2, <3>1, LayersShrink
            <3>3. /\ IsFiniteSet(Layers \ {p})
                  /\ Cardinality(Layers \ {p}) = Cardinality(Layers) - 1
                  BY <2>1, FS_RemoveElement
            <3>4. /\ IsFiniteSet(Layers') /\ Cardinality(Layers') \in Nat
                  /\ Cardinality(Layers') <= Cardinality(Layers \ {p})
                  BY <3>2, <3>3, FS_Subset, FS_CardinalityType
            <3>5. total_documents' = total_documents \/ total_documents' = total_documents - 1
                  BY DEF RemoveEntries, CountAfter
            <3>6. Cardinality(Layers') <= total_documents'
                  BY <2>1, <3>3, <3>4, <3>5
            <3> QED BY <3>4, <3>6 DEF LayersCounted
      <2> QED BY <2>2, <2>3
<1> QED BY <1>3, <1>5, <1>6, <1>7

\* An index without entries.
EmptyIndex ==
    /\ inverted_index = [t \in Term |-> << >>] /\ document_frequencies = << >>
    /\ total_documents = 0 /\ additions = [d \in Doc |-> 0]

LEMMA EmptyIndexInv == EmptyIndex => Inv
<1> SUFFICES ASSUME EmptyIndex PROVE Inv
    OBVIOUS
<1>1. \A t \in Term : inverted_index[t] = << >> /\ inverted_index[t] \in Seq(Doc)
      BY DEF EmptyIndex
<1>2. IndexTyped
      BY <1>1 DEF EmptyIndex, IndexTyped
<1>3. \A d \in Doc, t \in Term : Entries(d, t) = 0
      <2> SUFFICES ASSUME NEW d \in Doc, NEW t \in Term PROVE Entries(d, t) = 0
          OBVIOUS
      <2>1. \A i \in 1..Len(inverted_index[t]) : inverted_index[t][i] # d
            BY <1>1
      <2>2. Occurrences(inverted_index[t], d) = 0
            BY <1>1, <2>1, PlacesAreFinite
      <2> QED BY <2>2, EntriesAre
<1>4. EntriesAdded
      BY <1>3 DEF EmptyIndex, EntriesAdded
<1>5. FrequenciesCover
      BY <1>1 DEF EmptyIndex, FrequenciesCover, Frequency
<1>6. Layers = {}
      BY <1>3 DEF Layers
<1>7. LayersCounted
      BY <1>6, FS_EmptySet DEF EmptyIndex, LayersCounted
<1> QED BY <1>2, <1>4, <1>5, <1>7 DEF Inv

LEMMA QuietKeepsInv ==
    ASSUME Inv, UNCHANGED <<inverted_index, document_frequencies, total_documents, additions>>
    PROVE  Inv'
BY DEF Inv, IndexTyped, EntriesAdded, FrequenciesCover, LayersCounted, Layers, Entries, Frequency

-----------------------------------------------------------------------------
(* The engine.                                                             *)

\* What each index promises is kept by every operation of the engine, for any
\* documents, words, limits and number of additions.
THEOREM Invariance == SearchSpec => []Inv
<1>1. SearchInit => Inv
      BY EmptyIndexInv DEF SearchInit, IndexInit, EmptyIndex
<1>2. EmptyIndex' => Inv'
      BY EmptyIndexInv, PTL
<1>3. Inv /\ [SearchNext]_searchVars => Inv'
      <2> SUFFICES ASSUME Inv, [SearchNext]_searchVars PROVE Inv'
          OBVIOUS
      <2>1. ASSUME NEW d \in Doc, NEW words \in SUBSET Word, AddDocument(d, words)
            PROVE  Inv'
            <3>1. CASE AddEntries(d, TermsOf(words))
                  BY <3>1, AddKeepsInv
            <3>2. CASE UNCHANGED indexVars
                  BY <3>2, QuietKeepsInv DEF indexVars
            <3> QED BY <2>1, <3>1, <3>2 DEF AddDocument
      <2>2. ASSUME NEW d \in Doc, RemoveDocument(d)
            PROVE  Inv'
            BY <2>2, RemoveKeepsInv DEF RemoveDocument
      <2>3. ASSUME NEW words \in SUBSET Word \ {{}}, NewVocabulary(words) \/ Search(words)
            PROVE  Inv'
            BY <2>3, QuietKeepsInv DEF NewVocabulary, UpdateVocabulary, Search, indexVars
      <2>4. CASE ClearSearch
            BY <1>2, <2>4 DEF ClearSearch, ClearIndex, EmptyIndex
      <2>5. CASE UNCHANGED searchVars
            BY <2>5, QuietKeepsInv DEF searchVars, indexVars
      <2> QED BY <2>1, <2>2, <2>3, <2>4, <2>5 DEF SearchNext
<1> QED BY <1>1, <1>3, PTL DEF SearchSpec

LEMMA LayersBoundMatching ==
    ASSUME Inv
    PROVE  Cardinality(Matching(Term)) <= total_documents
<1> DEFINE M == Matching(Term)
           f == [e \in M |-> <<e, 1>>]
<1>1. ASSUME NEW e \in M PROVE <<e, 1>> \in Layers
      <2>1. PICK t \in Term : e \in Range(inverted_index[t])
            BY DEF Matching
      <2>2. inverted_index[t] \in Seq(Doc)
            BY DEF Inv, IndexTyped
      <2>3. PICK i \in 1..Len(inverted_index[t]) : e = inverted_index[t][i]
            BY <2>1, <2>2 DEF Range
      <2>4. e \in Doc
            BY <2>2, <2>3
      <2>5. Entries(e, t) \in Nat /\ Entries(e, t) # 0
            BY <2>2, <2>3, <2>4, EntriesAre, PlacesAreFinite
      <2>6. 1 \in 1..Entries(e, t)
            BY <2>5
      <2> QED BY <2>4, <2>6, InLayers
<1> HIDE DEF M
<1>2. f \in Injection(M, Layers)
      BY <1>1, Fun_IsInj
<1>3. IsFiniteSet(Layers) /\ Cardinality(Layers) <= total_documents /\ total_documents \in Nat
      BY DEF Inv, LayersCounted, IndexTyped
<1>4. Cardinality(M) <= Cardinality(Layers) /\ IsFiniteSet(M)
      BY <1>2, <1>3, FS_Injection DEF ExistsInjection
<1>5. Cardinality(M) \in Nat /\ Cardinality(Layers) \in Nat
      BY <1>3, <1>4, FS_CardinalityType
<1> QED BY <1>3, <1>4, <1>5 DEF M

\* A document removed as often as it was added has no entry left, and the
\* statistics of the sparse index never fall behind its entries (sparse.rs:88-93,
\* 110-134, 161).
THEOREM StatisticsCoverEntries == SearchSpec => []SparseIndexSound
<1>1. Inv => SparseIndexSound
      BY LayersBoundMatching DEF Inv, EntriesAdded, FrequenciesCover, SparseIndexSound
<1> QED BY <1>1, Invariance, PTL
-----------------------------------------------------------------------------
(* The weights learnt from ratings.                                        *)

\* A weight that began at `from` is where the last rating puts it, at a rate.
Follows(w, from, rate, rating) ==
    IF rating = NoRating THEN w = from
    ELSE w - from \in rate * (rating - 5)..rate * (rating - 1)

AllFollow(w, from, rating) ==
    /\ Follows(w.dense, from.dense, Rate, rating)
    /\ Follows(w.sparse, from.sparse, Rate \div 2, rating)
    /\ Follows(w.text, from.text, (3 * Rate) \div 10, rating)

WeightsFollow == \A kind \in Kind : AllFollow(weights[kind], InitialWeights[kind], last)

FusionInv == FusionTypeOK /\ WeightsFollow

\* The rates, and where the weights begin.
LEMMA RatesAndStart ==
    /\ Rate \in Nat /\ Rate \div 2 \in Nat /\ (3 * Rate) \div 10 \in Nat
    /\ 2 * (Rate \div 2) = Rate /\ 10 * ((3 * Rate) \div 10) = 3 * Rate
    /\ Ratings \subseteq 1..5 /\ NoRating \notin Ratings
    /\ MaxHistory \in Nat /\ MaxHistory > 0
<1>1. Rate \in Nat /\ Rate % 10 = 0 /\ Ratings \subseteq 1..5
      /\ MaxHistory \in Nat /\ MaxHistory > 0
      BY FusionAssumption
<1>2. PICK k \in Int : Rate = 10 * k
      BY <1>1
<1> QED BY <1>1, <1>2 DEF NoRating

Bounded == [dense : 100..900, sparse : 100..900, text : 50..300]

\* FusionTypeOK with the bounds of the weights by name, which the steps that
\* leave the weights alone need not look into.
FusionTyped ==
    /\ weights \in [Kind -> Bounded] /\ last \in Ratings \cup {NoRating}
    /\ history \in Seq([text : Query, rating : Ratings \cup {NoRating}])
    /\ Len(history) <= MaxHistory
    /\ learning \in [Recorder -> Ratings \cup {NoRating, Idle}]
    /\ recorded \in 0..MaxRecorded

LEMMA FusionTyping == (FusionTypeOK <=> FusionTyped) /\ (FusionTypeOK' <=> FusionTyped')
BY DEF FusionTypeOK, FusionTyped, Bounded

Within(w) ==
    /\ w.dense \in Int /\ w.sparse \in Int /\ w.text \in Int
    /\ w.dense \in 100..900 /\ w.sparse \in 100..900 /\ w.text \in 50..300

LEMMA StartIsWithin == \A kind \in Kind : Within(InitialWeights[kind])
<1>1. /\ InitialWeights["semantic"] = Triple(800, 150, 50)
      /\ InitialWeights["keyword"] = Triple(300, 600, 100)
      /\ InitialWeights["mixed"] = Triple(500, 400, 100)
      BY DEF InitialWeights
<1>2. Within(Triple(800, 150, 50)) /\ Within(Triple(300, 600, 100))
      /\ Within(Triple(500, 400, 100))
      BY DEF Within, Triple
<1> QED BY ONLY <1>1, <1>2 DEF Kind

LEMMA WeightsAreWithin ==
    ASSUME FusionInv
    PROVE  \A kind \in Kind : Within(weights[kind])
<1>1. weights \in [Kind -> Bounded]
      BY FusionTyping DEF FusionInv, FusionTyped
<1>2. ASSUME NEW w \in Bounded PROVE Within(w)
      <2>1. w.dense \in 100..900 /\ w.sparse \in 100..900 /\ w.text \in 50..300
            BY DEF Bounded
      <2>2. w.dense \in Int /\ w.sparse \in Int /\ w.text \in Int
            BY ONLY <2>1
      <2> QED BY <2>1, <2>2 DEF Within
<1>3. \A kind \in Kind : weights[kind] \in Bounded
      BY <1>1
<1> QED BY <1>2, <1>3

Between(x, low, high) == x \in low..high

Step(w, rate, old, new, low, high) == Clamp(w + rate * (new - old), low, high)

\* A step by the change of rating keeps the weight where its rating puts it:
\* a bound may swallow part of the step, as the weight began within the bounds.
LEMMA ClampedStepFollows ==
    ASSUME NEW rate, NEW low, NEW high, NEW from, NEW old, NEW new, NEW w,
           Between(from, low, high), Follows(w, from, rate, old),
           rate \in Nat, low \in Int, high \in Int, w \in Int, old \in 1..5, new \in 1..5
    PROVE  /\ Between(Step(w, rate, old, new, low, high), low, high)
           /\ Follows(Step(w, rate, old, new, low, high), from, rate, new)
<1> DEFINE move == rate * (new - old)
<1>1. /\ move \in Int
      /\ rate * (old - 5) + move = rate * (new - 5)
      /\ rate * (old - 1) + move = rate * (new - 1)
      OBVIOUS
<1>2. rate * (new - 5) \in Int /\ rate * (new - 5) <= 0
      /\ rate * (new - 1) \in Int /\ rate * (new - 1) >= 0
      OBVIOUS
<1>3. rate * (old - 5) \in Int /\ rate * (old - 1) \in Int
      OBVIOUS
<1>0. from \in low..high
      BY DEF Between
<1>4. w - from \in rate * (old - 5)..rate * (old - 1)
      BY DEF Follows, NoRating
<1> HIDE DEF move
<1>5. Clamp(w + move, low, high) \in low..high
      /\ Clamp(w + move, low, high) - from \in rate * (new - 5)..rate * (new - 1)
      BY <1>0, <1>1, <1>2, <1>3, <1>4 DEF Clamp
<1> QED BY <1>5 DEF move, Step, Follows, NoRating, Between

\* The same for the first rating, which moves nothing.
LEMMA FirstRatingFollows ==
    ASSUME NEW rate \in Nat, NEW new \in 1..5
    PROVE  0 \in rate * (new - 5)..rate * (new - 1)
<1>1. rate * (new - 5) \in Int /\ rate * (new - 5) <= 0
      /\ rate * (new - 1) \in Int /\ rate * (new - 1) >= 0
      OBVIOUS
<1> QED BY <1>1

LEMMA ModelKeepsBounds ==
    ASSUME FusionInv, NEW rating \in Ratings \cup {NoRating}, UpdateModel(rating)
    PROVE  /\ weights' \in [Kind -> Bounded]
           /\ last' \in Ratings \cup {NoRating}
           /\ WeightsFollow'
<1>1. CASE rating = NoRating
      <2>1. weights' = weights /\ last' = last
            BY <1>1 DEF UpdateModel
      <2>2. weights \in [Kind -> Bounded] /\ last \in Ratings \cup {NoRating} /\ WeightsFollow
            BY FusionTyping DEF FusionInv, FusionTyped
      <2>3. WeightsFollow'
            BY ONLY <2>1, <2>2 DEF WeightsFollow, AllFollow, Follows
      <2> QED BY <2>1, <2>2, <2>3
<1>2. CASE rating # NoRating /\ last = NoRating
      <2>1. weights' = [kind \in Kind |-> weights[kind]] /\ last' = rating
            BY <1>2 DEF UpdateModel
      <2>2. rating \in 1..5 /\ last' # NoRating /\ last' \in 1..5 /\ last' \in Ratings
            BY <1>2, <2>1, RatesAndStart
      <2>3. \A kind \in Kind : weights'[kind] = weights[kind]
            BY <2>1
      <2>4. ASSUME NEW kind \in Kind
            PROVE  AllFollow(weights'[kind], InitialWeights[kind], last')
            <3> DEFINE w == weights[kind]
                       from == InitialWeights[kind]
            <3>1. w.dense = from.dense /\ w.sparse = from.sparse /\ w.text = from.text
                  BY <1>2 DEF FusionInv, WeightsFollow, AllFollow, Follows
            <3>2. from.dense \in Int /\ from.sparse \in Int /\ from.text \in Int
                  <4>1. Within(from)
                        BY StartIsWithin
                  <4> HIDE DEF from
                  <4> QED BY ONLY <4>1 DEF Within
            <3>3. weights'[kind] = w
                  BY <2>3
            <3> HIDE DEF w, from
            <3>4. w.dense - from.dense = 0 /\ w.sparse - from.sparse = 0 /\ w.text - from.text = 0
                  BY <3>1, <3>2
            <3>5. \A rate \in Nat : 0 \in rate * (last' - 5)..rate * (last' - 1)
                  BY <2>2, FirstRatingFollows
            <3>6. AllFollow(w, from, last')
                  BY <2>2, <3>4, <3>5, RatesAndStart DEF AllFollow, Follows
            <3> QED BY <3>3, <3>6 DEF from
      <2>5. weights' \in [Kind -> Bounded]
            <3>1. weights \in [Kind -> Bounded]
                  BY FusionTyping DEF FusionInv, FusionTyped
            <3> QED BY ONLY <2>1, <3>1
      <2> QED BY <2>2, <2>4, <2>5 DEF WeightsFollow
<1>3. CASE rating # NoRating /\ last # NoRating
      <2>1. weights' = [kind \in Kind |-> Moved(weights[kind], rating - last)]
            /\ last' = rating
            BY <1>3 DEF UpdateModel
      <2>2. /\ rating \in 1..5 /\ last' # NoRating /\ last' \in Ratings
            /\ last \in 1..5
            BY <1>3, <2>1, RatesAndStart, FusionTyping DEF FusionInv, FusionTyped
      <2>3. ASSUME NEW kind \in Kind
            PROVE  /\ weights'[kind] \in Bounded
                   /\ AllFollow(weights'[kind], InitialWeights[kind], last')
            <3> DEFINE w == weights[kind]
                       from == InitialWeights[kind]
                       d == Step(w.dense, Rate, last, rating, 100, 900)
                       s == Step(w.sparse, Rate \div 2, last, rating, 100, 900)
                       t == Step(w.text, (3 * Rate) \div 10, last, rating, 50, 300)
            <3>0. /\ Rate \in Nat /\ Rate \div 2 \in Nat /\ (3 * Rate) \div 10 \in Nat
                  /\ last \in 1..5 /\ rating \in 1..5
                  BY <2>2, RatesAndStart
            <3>1. w.dense \in Int /\ w.sparse \in Int /\ w.text \in Int
                  <4>1. Within(w)
                        BY WeightsAreWithin
                  <4> HIDE DEF w
                  <4> QED BY ONLY <4>1 DEF Within
            <3>2. /\ Follows(w.dense, from.dense, Rate, last)
                  /\ Follows(w.sparse, from.sparse, Rate \div 2, last)
                  /\ Follows(w.text, from.text, (3 * Rate) \div 10, last)
                  BY DEF FusionInv, WeightsFollow, AllFollow
            <3>3. /\ Between(from.dense, 100, 900) /\ Between(from.sparse, 100, 900)
                  /\ Between(from.text, 50, 300)
                  <4>1. Within(from)
                        BY StartIsWithin
                  <4> HIDE DEF from
                  <4> QED BY ONLY <4>1 DEF Within, Between
            <3>7. weights'[kind] = Triple(d, s, t)
                  BY <2>1 DEF Moved, Step
            <3> HIDE DEF w, from
            <3>4. Between(d, 100, 900) /\ Follows(d, from.dense, Rate, rating)
                  BY ONLY <3>0, <3>1, <3>2, <3>3, ClampedStepFollows, SMT
            <3>5. Between(s, 100, 900) /\ Follows(s, from.sparse, Rate \div 2, rating)
                  BY ONLY <3>0, <3>1, <3>2, <3>3, ClampedStepFollows, SMT
            <3>6. Between(t, 50, 300) /\ Follows(t, from.text, (3 * Rate) \div 10, rating)
                  <4> DEFINE third == (3 * Rate) \div 10
                  <4>1. last \in 1..5 /\ rating \in 1..5 /\ third \in Nat /\ w.text \in Int /\ Between(from.text, 50, 300)
                        /\ Follows(w.text, from.text, third, last)
                        BY <3>0, <3>1, <3>2, <3>3
                  <4> HIDE DEF third
                  <4>2. /\ Between(Step(w.text, third, last, rating, 50, 300), 50, 300)
                        /\ Follows(Step(w.text, third, last, rating, 50, 300), from.text, third, rating)
                        BY ONLY <4>1, ClampedStepFollows, SMT
                  <4> QED BY <4>2 DEF third
            <3> HIDE DEF d, s, t
            <3>8. weights'[kind] \in Bounded /\ weights'[kind].dense = d
                  /\ weights'[kind].sparse = s /\ weights'[kind].text = t
                  BY <3>4, <3>5, <3>6, <3>7 DEF Triple, Bounded, Between
            <3> QED BY <2>1, <3>4, <3>5, <3>6, <3>8 DEF AllFollow, from
      <2>4. weights' \in [Kind -> Bounded]
            BY <2>1, <2>3
      <2> QED BY <2>2, <2>3, <2>4 DEF WeightsFollow
<1> QED BY <1>1, <1>2, <1>3

\* FusionInv holds in every state of the model of the weights.
THEOREM FusionInvariance == FusionSpec => []FusionInv
<1>1. FusionInit => FusionInv
      <2> SUFFICES ASSUME FusionInit PROVE FusionInv
          OBVIOUS
      <2>1. weights \in [Kind -> Bounded]
            <3>1. /\ Triple(800, 150, 50) \in Bounded /\ Triple(300, 600, 100) \in Bounded
                  /\ Triple(500, 400, 100) \in Bounded
                  BY DEF Triple, Bounded
            <3> QED BY <3>1 DEF FusionInit, InitialWeights, Kind
      <2>2. last = NoRating /\ history = << >> /\ learning = [r \in Recorder |-> Idle]
            /\ recorded = 0 /\ weights = InitialWeights
            BY DEF FusionInit
      <2>3. history \in Seq([text : Query, rating : Ratings \cup {NoRating}]) /\ Len(history) = 0
            BY <2>2, EmptySeq
      <2>4. WeightsFollow
            BY <2>2 DEF WeightsFollow, AllFollow, Follows
      <2>5. learning \in [Recorder -> Ratings \cup {NoRating, Idle}]
            /\ recorded \in 0..MaxRecorded
            BY <2>2, FusionAssumption
      <2> QED BY <2>1, <2>2, <2>3, <2>4, <2>5, RatesAndStart, FusionTyping DEF FusionInv, FusionTyped
<1>2. FusionInv /\ [FusionNext]_fusionVars => FusionInv'
      <2> SUFFICES ASSUME FusionInv, [FusionNext]_fusionVars PROVE FusionInv'
          OBVIOUS
      <2>1. ASSUME NEW r \in Recorder, NEW query \in Query,
                   NEW rating \in Ratings \cup {NoRating}, RecordFeedback(r, query, rating)
            PROVE  FusionInv'
            <3> DEFINE Entry == [text : Query, rating : Ratings \cup {NoRating}]
                       longer == Append(history, [text |-> query, rating |-> rating])
            <3>1. history \in Seq(Entry) /\ Len(history) <= MaxHistory
                  BY FusionTyping DEF FusionInv, FusionTyped
            <3>2. longer \in Seq(Entry) /\ Len(longer) = Len(history) + 1 /\ longer # << >>
                  BY <3>1, AppendProperties
            <3>3. history' = IF Len(longer) > MaxHistory THEN Tail(longer) ELSE longer
                  BY <2>1 DEF RecordFeedback
            <3>4. Tail(longer) \in Seq(Entry) /\ Len(Tail(longer)) = Len(longer) - 1
                  BY <3>2, HeadTailProperties
            <3> HIDE DEF longer, Entry
            <3>5. history' \in Seq(Entry) /\ Len(history') <= MaxHistory
                  BY <3>1, <3>2, <3>3, <3>4, RatesAndStart, LenProperties
            <3>6. WeightsFollow'
                  <4>1. WeightsFollow /\ UNCHANGED <<weights, last>>
                        BY <2>1 DEF FusionInv, RecordFeedback
                  <4> QED BY ONLY <4>1 DEF WeightsFollow, AllFollow, Follows
            <3>7. learning' \in [Recorder -> Ratings \cup {NoRating, Idle}]
                  <4>1. learning \in [Recorder -> Ratings \cup {NoRating, Idle}]
                        BY FusionTyping DEF FusionInv, FusionTyped
                  <4>2. learning' = [learning EXCEPT ![r] = rating]
                        BY <2>1 DEF RecordFeedback
                  <4> QED BY <4>1, <4>2
            <3>8. recorded' \in 0..MaxRecorded
                  <4>1. recorded \in 0..MaxRecorded /\ recorded < MaxRecorded /\ recorded' = recorded + 1
                        BY <2>1, FusionTyping DEF RecordFeedback, FusionInv, FusionTyped
                  <4> QED BY <4>1, FusionAssumption
            <3>9. weights' \in [Kind -> Bounded] /\ last' \in Ratings \cup {NoRating}
                  <4>1. weights \in [Kind -> Bounded] /\ last \in Ratings \cup {NoRating}
                        BY FusionTyping DEF FusionInv, FusionTyped
                  <4>2. UNCHANGED <<weights, last>>
                        BY <2>1 DEF RecordFeedback
                  <4> QED BY ONLY <4>1, <4>2
            <3>10. FusionTypeOK'
                  BY ONLY <3>5, <3>7, <3>8, <3>9, FusionTyping DEF FusionTyped, Entry
            <3> QED BY ONLY <3>6, <3>10 DEF FusionInv
      <2>2. ASSUME NEW r \in Recorder, Learn(r)
            PROVE  FusionInv'
            <3>1. learning[r] \in Ratings \cup {NoRating} /\ UpdateModel(learning[r])
                  BY <2>2, FusionTyping DEF Learn, FusionInv, FusionTyped
            <3>2. /\ weights' \in [Kind -> Bounded]
                  /\ last' \in Ratings \cup {NoRating}
                  /\ WeightsFollow'
                  BY <3>1, ModelKeepsBounds
            <3>3. /\ learning' \in [Recorder -> Ratings \cup {NoRating, Idle}]
                  /\ UNCHANGED <<history, recorded>>
                  <4>1. learning \in [Recorder -> Ratings \cup {NoRating, Idle}]
                        BY FusionTyping DEF FusionInv, FusionTyped
                  <4>2. learning' = [learning EXCEPT ![r] = Idle] /\ UNCHANGED <<history, recorded>>
                        BY <2>2 DEF Learn
                  <4> QED BY ONLY <4>1, <4>2
            <3>4. /\ history \in Seq([text : Query, rating : Ratings \cup {NoRating}])
                  /\ Len(history) <= MaxHistory /\ recorded \in 0..MaxRecorded
                  BY FusionTyping DEF FusionInv, FusionTyped
            <3>5. FusionTypeOK'
                  BY ONLY <3>2, <3>3, <3>4, FusionTyping DEF FusionTyped
            <3> QED BY ONLY <3>2, <3>5 DEF FusionInv
      <2>3. CASE UNCHANGED fusionVars
            <3>1. FusionTypeOK'
                  BY <2>3, FusionTyping DEF fusionVars, FusionInv, FusionTyped
            <3>2. WeightsFollow'
                  BY <2>3 DEF fusionVars, FusionInv, WeightsFollow, AllFollow, Follows
            <3> QED BY <3>1, <3>2 DEF FusionInv
      <2> QED BY <2>1, <2>2, <2>3 DEF FusionNext
<1> QED BY <1>1, <1>2, PTL DEF FusionSpec

\* The history stays short, and no run of ratings moves a weight further than the
\* largest single change of rating would (hybrid.rs:134, 239).
THEOREM LearningStaysBounded == FusionSpec => []LearningIsBounded
<1>1. FusionInv => LearningIsBounded
      <2> SUFFICES ASSUME FusionInv, NEW kind \in Kind
                   PROVE  LET w == weights[kind]  from == InitialWeights[kind] IN
                          /\ w.dense - from.dense \in -4 * Rate..4 * Rate
                          /\ w.sparse - from.sparse \in -2 * Rate..2 * Rate
                          /\ 10 * (w.text - from.text) \in -12 * Rate..12 * Rate
          BY DEF LearningIsBounded, WeightsStayClose, FusionInv
      <2> DEFINE w == weights[kind]
                 from == InitialWeights[kind]
      <2>1. w.dense \in Int /\ w.sparse \in Int /\ w.text \in Int
            <3>1. Within(w)
                  BY WeightsAreWithin
            <3> HIDE DEF w
            <3> QED BY ONLY <3>1 DEF Within
      <2>2. from.dense \in Int /\ from.sparse \in Int /\ from.text \in Int
            <3>1. Within(from)
                  BY StartIsWithin
            <3> HIDE DEF from
            <3> QED BY ONLY <3>1 DEF Within
      <2>3. /\ Follows(w.dense, from.dense, Rate, last)
            /\ Follows(w.sparse, from.sparse, Rate \div 2, last)
            /\ Follows(w.text, from.text, (3 * Rate) \div 10, last)
            BY DEF FusionInv, WeightsFollow, AllFollow
      <2>4. ASSUME NEW x \in Int, NEW y \in Int, NEW rate \in Nat, Follows(x, y, rate, last)
            PROVE  x - y \in -(4 * rate)..4 * rate
            <3>1. CASE last = NoRating
                  BY <2>4, <3>1 DEF Follows
            <3>2. CASE last # NoRating
                  <4>1. last \in 1..5
                        BY <3>2, RatesAndStart, FusionTyping DEF FusionInv, FusionTyped
                  <4>2. x - y \in rate * (last - 5)..rate * (last - 1)
                        BY <2>4, <3>2 DEF Follows
                  <4>3. rate * (last - 5) >= -(4 * rate) /\ rate * (last - 1) <= 4 * rate
                        BY <4>1
                  <4>4. rate * (last - 5) \in Int /\ rate * (last - 1) \in Int
                        BY <4>1
                  <4> QED BY <4>2, <4>3, <4>4
            <3> QED BY <3>1, <3>2
      <2> HIDE DEF w, from
      <2>5. /\ w.dense - from.dense \in -(4 * Rate)..4 * Rate
            /\ w.sparse - from.sparse \in -(4 * (Rate \div 2))..4 * (Rate \div 2)
            /\ w.text - from.text \in -(4 * ((3 * Rate) \div 10))..4 * ((3 * Rate) \div 10)
            BY <2>1, <2>2, <2>3, <2>4, RatesAndStart
      <2>6. /\ w.dense - from.dense \in -4 * Rate..4 * Rate
            /\ w.sparse - from.sparse \in -2 * Rate..2 * Rate
            /\ 10 * (w.text - from.text) \in -12 * Rate..12 * Rate
            BY <2>1, <2>2, <2>5, RatesAndStart
      <2> QED BY <2>6 DEF w, from
<1> QED BY <1>1, FusionInvariance, PTL
-----------------------------------------------------------------------------
(* The order of fused rankings.                                            *)

\* A ranking without repetitions.
IsRanking(r) ==
    \E n \in 0..2 * Limit : DOMAIN r = 1..n /\ \A i, j \in 1..n : r[i] = r[j] => i = j

LEMMA RankIs ==
    ASSUME NEW r, IsRanking(r), NEW d
    PROVE  /\ RankIn(d, r) # 0 => RankIn(d, r) \in DOMAIN r /\ r[RankIn(d, r)] = d
           /\ RankIn(d, r) \in 0..2 * Limit
           /\ \A i \in DOMAIN r : r[i] = d => RankIn(d, r) = i /\ i # 0
           /\ d \in ToSet(r) <=> RankIn(d, r) # 0
<1>1. PICK n \in 0..2 * Limit :
         DOMAIN r = 1..n /\ \A i, j \in 1..n : r[i] = r[j] => i = j
      BY DEF IsRanking
<1>2. 2 * Limit \in Nat
      BY SearchAssumption
<1>3. CASE d \in ToSet(r)
      <2>1. \E i \in DOMAIN r : r[i] = d
            BY <1>3 DEF ToSet
      <2>2. RankIn(d, r) \in DOMAIN r /\ r[RankIn(d, r)] = d
            BY <1>3, <2>1, Zenon DEF RankIn
      <2>3. \A i \in DOMAIN r : r[i] = d => RankIn(d, r) = i
            BY <1>1, <2>2
      <2> QED BY <1>1, <1>2, <1>3, <2>2, <2>3
<1>4. CASE d \notin ToSet(r)
      <2>1. RankIn(d, r) = 0
            BY <1>4 DEF RankIn
      <2>2. \A i \in DOMAIN r : r[i] # d
            BY <1>4 DEF ToSet
      <2> QED BY <1>2, <1>4, <2>1, <2>2
<1> QED BY <1>3, <1>4

\* An exact quotient.
LEMMA Exactly ==
    ASSUME NEW a \in Nat, NEW b \in Nat \ {0}, a % b = 0
    PROVE  a \div b \in Nat /\ a = b * (a \div b)
OBVIOUS

\* The larger the divisor, the smaller the quotient.
LEMMA QuotientsFall ==
    ASSUME NEW x \in Nat \ {0}, NEW b \in Nat \ {0}, NEW c \in Nat \ {0}, b < c,
           NEW p \in Nat, x = b * p, NEW q \in Nat, x = c * q
    PROVE  q < p /\ 0 < q
<1>1. q # 0
      <2> SUFFICES ASSUME q = 0 PROVE FALSE
          OBVIOUS
      <2>1. c * q = 0
            OBVIOUS
      <2> QED BY <2>1
<1>2. CASE p <= q
      <2>1. PICK d \in Nat : q = p + d
            <3>1. q - p \in Nat /\ q = p + (q - p)
                  BY <1>2
            <3> QED BY <3>1
      <2>2. PICK e \in Nat \ {0} : c = b + e
            <3>1. c - b \in Nat \ {0} /\ c = b + (c - b)
                  OBVIOUS
            <3> QED BY <3>1
      <2>3. c * q = b * p + b * d + e * q /\ b * d \in Nat /\ e * q \in Nat /\ b * p \in Nat
            <3>1. c * q = b * q + e * q
                  BY <2>2
            <3>2. b * q = b * p + b * d
                  BY <2>1
            <3>3. b * d \in Nat /\ e * q \in Nat /\ b * p \in Nat
                  OBVIOUS
            <3> QED BY <3>1, <3>2, <3>3
      <2>4. e * q >= 1
            <3>1. PICK f \in Nat : q = 1 + f
                  <4>1. q - 1 \in Nat /\ q = 1 + (q - 1)
                        BY <1>1
                  <4> QED BY <4>1
            <3>2. e * q = e + e * f /\ e * f \in Nat
                  BY <3>1
            <3> QED BY <3>2
      <2> QED BY <2>3, <2>4
<1> QED BY <1>1, <1>2

\* A better rank is worth more.
LEMMA WorthOfRanks ==
    ASSUME NEW r \in 1..2 * Limit
    PROVE  /\ Unit \div (RrfK + r) \in Nat /\ Unit \div (RrfK + r) > 0
           /\ \A s \in 1..2 * Limit : r < s => Unit \div (RrfK + s) < Unit \div (RrfK + r)
<1> DEFINE worth(s) == Unit \div (RrfK + s)
<1>1. Unit \in Nat \ {0} /\ RrfK \in Nat \ {0} /\ Limit \in Nat \ {0}
      BY SearchAssumption
<1>2. ASSUME NEW s \in 1..2 * Limit
      PROVE  RrfK + s \in Nat \ {0} /\ worth(s) \in Nat /\ Unit = (RrfK + s) * worth(s)
      <2>1. RrfK + s \in Nat \ {0} /\ Unit % (RrfK + s) = 0
            <3>1. Unit % (RrfK + s) = 0
                  BY SearchAssumption
            <3>2. RrfK + s \in Nat \ {0}
                  BY <1>1
            <3> QED BY <3>1, <3>2
      <2> QED BY <1>1, <2>1, Exactly
<1> HIDE DEF worth
<1>3. worth(r) > 0
      <2> SUFFICES ASSUME worth(r) = 0 PROVE FALSE
          BY <1>2
      <2>1. (RrfK + r) * worth(r) = 0
            BY <1>2
      <2> QED BY <1>1, <1>2, <2>1
<1>4. ASSUME NEW s \in 1..2 * Limit, r < s PROVE worth(s) < worth(r)
      <2> DEFINE b == RrfK + r
                 c == RrfK + s
                 p == worth(r)
                 q == worth(s)
      <2>1. b \in Nat \ {0} /\ c \in Nat \ {0} /\ b < c
            BY <1>1, <1>2, <1>4
      <2>2. p \in Nat /\ q \in Nat
            BY <1>2
      <2>3. Unit = b * p
            BY <1>2
      <2>4. Unit = c * q
            BY <1>2
      <2> HIDE DEF b, c, p, q
      <2>5. q < p
            BY <1>1, <2>1, <2>2, <2>3, <2>4, QuotientsFall
      <2> QED BY <2>5 DEF p, q
<1> QED BY <1>2, <1>3, <1>4 DEF worth

\* What a ranking gives a document, by its place.
LEMMA ReciprocalIs ==
    ASSUME NEW r, IsRanking(r), NEW s, IsRanking(s), NEW d, NEW e
    PROVE  /\ Reciprocal(d, r) \in Nat
           /\ (RankIn(e, s) # 0 => RankIn(d, r) # 0 /\ RankIn(d, r) <= RankIn(e, s))
                => /\ Reciprocal(d, r) >= Reciprocal(e, s)
                   /\ RankIn(d, r) # 0 /\ RankIn(d, r) # RankIn(e, s)
                        => Reciprocal(d, r) > Reciprocal(e, s)
<1> DEFINE worth(t) == Unit \div (RrfK + t)
           a == RankIn(d, r)
           b == RankIn(e, s)
<1>1. a \in 0..2 * Limit /\ b \in 0..2 * Limit /\ 2 * Limit \in Nat
      BY RankIs, SearchAssumption
<1>2. /\ \A t \in 1..2 * Limit : worth(t) \in Nat /\ worth(t) > 0
      /\ \A t, u \in 1..2 * Limit : t < u => worth(u) < worth(t)
      BY WorthOfRanks
<1>3. /\ Reciprocal(d, r) = IF a = 0 THEN 0 ELSE worth(a)
      /\ Reciprocal(e, s) = IF b = 0 THEN 0 ELSE worth(b)
      BY DEF Reciprocal
<1> HIDE DEF worth, a, b
<1>4. /\ a # 0 => a \in 1..2 * Limit
      /\ b # 0 => b \in 1..2 * Limit
      BY <1>1
<1>5. Reciprocal(d, r) \in Nat /\ Reciprocal(e, s) \in Nat
      BY <1>2, <1>3, <1>4
<1>6. ASSUME b # 0 => a # 0 /\ a <= b
      PROVE  /\ Reciprocal(d, r) >= Reciprocal(e, s)
             /\ a # 0 /\ a # b => Reciprocal(d, r) > Reciprocal(e, s)
      <2>1. CASE b = 0
            BY <1>2, <1>3, <1>4, <1>5, <2>1
      <2>2. CASE b # 0 /\ a = b
            BY <1>3, <1>5, <2>2
      <2>3. CASE b # 0 /\ a # b
            <3>1. a \in 1..2 * Limit /\ b \in 1..2 * Limit /\ a < b
                  BY <1>1, <1>4, <1>6, <2>3
            <3>2. worth(b) < worth(a) /\ a # 0
                  BY <1>2, <3>1
            <3> QED BY <1>3, <1>5, <2>3, <3>2
      <2> QED BY <2>1, <2>2, <2>3
<1> QED BY <1>5, <1>6 DEF a, b

ThreeRankings(lists) == \A i \in 1..3 : IsRanking(lists[i])

LEMMA ListedRanked ==
    ASSUME NEW lists, ThreeRankings(lists), NEW d
    PROVE  d \in Listed(lists) <=> \E i \in 1..3 : RankIn(d, lists[i]) # 0
BY RankIs DEF Listed, ThreeRankings

\* What the sources agree on is scored so.
LEMMA AgreementIsScored ==
    ASSUME NEW lists, ThreeRankings(lists), NEW d, NEW e \in Listed(lists),
           Dominates(d, e, lists)
    PROVE  /\ d \in Listed(lists)
           /\ RrfScores(lists)[d] \in Nat /\ RrfScores(lists)[e] \in Nat
           /\ RrfScores(lists)[d] > RrfScores(lists)[e]
<1> DEFINE p(i) == Reciprocal(d, lists[i])
           q(i) == Reciprocal(e, lists[i])
<1>1. ASSUME NEW i \in 1..3
      PROVE  /\ p(i) \in Nat /\ q(i) \in Nat /\ p(i) >= q(i)
             /\ RankIn(d, lists[i]) # 0 /\ RankIn(d, lists[i]) # RankIn(e, lists[i]) => p(i) > q(i)
      <2>1. IsRanking(lists[i])
            BY DEF ThreeRankings
      <2>2. RankIn(e, lists[i]) # 0 =>
               RankIn(d, lists[i]) # 0 /\ RankIn(d, lists[i]) <= RankIn(e, lists[i])
            BY DEF Dominates
      <2> QED BY <2>1, <2>2, ReciprocalIs
<1>2. PICK i \in 1..3 : RankIn(d, lists[i]) # 0 /\ RankIn(d, lists[i]) # RankIn(e, lists[i])
      BY DEF Dominates
<1>3. d \in Listed(lists)
      BY <1>2, ListedRanked
<1>4. /\ RrfScores(lists)[d] = p(1) + p(2) + p(3)
      /\ RrfScores(lists)[e] = q(1) + q(2) + q(3)
      BY <1>3 DEF RrfScores
<1> HIDE DEF p, q
<1>5. p(i) > q(i)
      BY <1>1, <1>2
<1>6. /\ p(1) \in Nat /\ q(1) \in Nat /\ p(1) >= q(1)
      /\ p(2) \in Nat /\ q(2) \in Nat /\ p(2) >= q(2)
      /\ p(3) \in Nat /\ q(3) \in Nat /\ p(3) >= q(3)
      BY <1>1
<1>7. p(1) > q(1) \/ p(2) > q(2) \/ p(3) > q(3)
      <2>1. i = 1 \/ i = 2 \/ i = 3
            OBVIOUS
      <2> QED BY <1>5, <2>1
<1> QED BY <1>3, <1>4, <1>6, <1>7

\* The rankings an index may give.
LEMMA RankingsRank ==
    ASSUME NEW docs, IsFiniteSet(docs), NEW r \in Rankings(docs)
    PROVE  IsRanking(r) /\ ToSet(r) \subseteq docs
<1> DEFINE c == Cardinality(docs)
           n == Min({2 * Limit, c})
<1>1. c \in Nat /\ 2 * Limit \in Nat
      BY FS_CardinalityType, SearchAssumption
<1>2. n \in {2 * Limit, c} /\ n <= 2 * Limit
      <2>1. {2 * Limit, c} \in SUBSET Nat /\ {2 * Limit, c} # {}
            BY <1>1
      <2> HIDE DEF c
      <2> QED BY <2>1, LeastNumber
<1>3. n \in 0..2 * Limit
      BY <1>1, <1>2
<1>4. r \in [1..n -> docs] /\ \A i, j \in 1..n : r[i] = r[j] => i = j
      BY DEF Rankings
<1> HIDE DEF n
<1> QED BY <1>3, <1>4 DEF IsRanking, ToSet

\* In an answer that is sorted, cut and rid of what the store has not, the
\* document with the better score comes first.
LEMMA BetterIsFirst ==
    ASSUME NEW scores, IsFiniteSet(DOMAIN scores), NEW r \in Sorted(scores),
           NEW kept \in Kept(r), NEW d \in DOMAIN scores \cap DOMAIN stored, NEW i \in DOMAIN kept,
           scores[d] \in Nat, scores[kept[i]] \in Nat, scores[d] > scores[kept[i]]
    PROVE  RankIn(d, kept) \in 1..i - 1
<1> DEFINE docs == {r[k] : k \in {j \in DOMAIN r : j <= Limit}} \cap DOMAIN stored
<1>1. IsRanking(r) /\ Limit \in Nat /\ 2 * Limit \in Nat
      BY RankingsRank, SearchAssumption DEF Sorted
<1>2. /\ \A k, l \in DOMAIN r : k < l => scores[r[k]] >= scores[r[l]]
      /\ \A x \in DOMAIN scores \ ToSet(r) : \A k \in DOMAIN r : scores[r[k]] >= scores[x]
      BY DEF Sorted
<1>3. PICK n \in 0..Limit : kept \in [1..n -> docs]
      BY DEF Kept
<1>4. /\ ToSet(kept) = docs
      /\ \A k, l \in DOMAIN kept : k < l => RankIn(kept[k], r) < RankIn(kept[l], r)
      BY DEF Kept
<1>5. PICK k \in DOMAIN r : k <= Limit /\ r[k] = kept[i]
      BY <1>3
<1>6. d \in ToSet(r)
      <2>1. d \notin ToSet(r) => scores[kept[i]] >= scores[d]
            BY <1>2, <1>5
      <2> QED BY <2>1
<1>7. PICK l \in DOMAIN r : r[l] = d
      BY <1>6 DEF ToSet
<1>8. k \in Int /\ l \in Int
      BY <1>1 DEF IsRanking
<1>9. l < k
      <2>1. ~ (k < l)
            BY <1>2, <1>5, <1>7
      <2>2. k # l
            BY <1>5, <1>7
      <2> QED BY <1>8, <2>1, <2>2
<1>10. d \in docs
      BY <1>1, <1>5, <1>7, <1>8, <1>9
<1> HIDE DEF docs
<1>11. PICK m \in DOMAIN kept : kept[m] = d
      BY <1>4, <1>10 DEF ToSet
<1>12. i \in 1..n /\ m \in 1..n
      BY <1>3, <1>11
<1>13. RankIn(kept[i], r) = k /\ RankIn(kept[m], r) = l
      BY <1>1, <1>5, <1>7, <1>11, RankIs
<1>14. m < i
      <2>1. ~ (i < m)
            BY <1>4, <1>8, <1>9, <1>12, <1>13
      <2>2. i # m
            BY <1>8, <1>9, <1>13
      <2> QED BY <1>12, <2>1, <2>2
<1>15. IsRanking(kept)
      <2>1. \A x, y \in 1..n : kept[x] = kept[y] => x = y
            <3> SUFFICES ASSUME NEW x \in 1..n, NEW y \in 1..n, kept[x] = kept[y], x < y
                         PROVE  FALSE
                OBVIOUS
            <3>1. RankIn(kept[x], r) < RankIn(kept[y], r) /\ RankIn(kept[x], r) = RankIn(kept[y], r)
                  BY <1>3, <1>4
            <3>2. RankIn(kept[x], r) \in Int
                  BY <1>1, RankIs
            <3> QED BY <3>1, <3>2
      <2>2. n \in 0..2 * Limit /\ DOMAIN kept = 1..n
            BY <1>1, <1>3
      <2> QED BY <2>1, <2>2 DEF IsRanking
<1>16. RankIn(d, kept) = m
      BY <1>11, <1>15, RankIs
<1> QED BY <1>12, <1>14, <1>16

\* Kept and ahead in one.
FusionKeepsAgreement ==
    \A d \in DOMAIN stored : \A i \in DOMAIN answer.ranking :
        Dominates(d, answer.ranking[i], answer.lists) => RankIn(d, answer.ranking) \in 1..i - 1

\* What the engine holds are documents and terms, and its answer keeps the order.
SearchInv ==
    /\ dense \in SUBSET Doc /\ DOMAIN stored \in SUBSET Doc
    /\ \A w \in DOMAIN vocabulary : vocabulary[w] \in Term
    /\ FusionKeepsAgreement

\* No answer keeps any order.
LEMMA NoAnswerKeepsOrder == answer = NoAnswer => FusionKeepsAgreement
<1> SUFFICES ASSUME answer = NoAnswer PROVE FusionKeepsAgreement
    OBVIOUS
<1>1. DOMAIN answer.ranking = {}
      BY DEF NoAnswer
<1> QED BY <1>1 DEF FusionKeepsAgreement

LEMMA NewTerms ==
    ASSUME NEW words \in SUBSET Word, UpdateVocabulary(words)
    PROVE  \A w \in DOMAIN vocabulary' : vocabulary'[w] \in Term
<1>1. IsFiniteSet(words) /\ Cardinality(words) <= Cardinality(Word)
      BY SearchAssumption, FS_Subset
<1>2. Cardinality(words) \in Nat /\ Cardinality(Word) \in Nat
      BY <1>1, SearchAssumption, FS_CardinalityType
<1>3. vocabulary' \in [words -> 0..Cardinality(words) - 1]
      BY DEF UpdateVocabulary
<1> QED BY <1>1, <1>2, <1>3 DEF Term

\* An answer keeps the order its sources agree on.
LEMMA SearchKeepsOrder ==
    ASSUME Inv, SearchInv, NEW words \in SUBSET Word, Search(words)
    PROVE  FusionKeepsAgreement'
<1> DEFINE found == IF total_documents = 0 THEN {} ELSE Matching(TermsOf(words))
           texts == {d \in DOMAIN stored : stored[d] \cap words # {}}
<1>1. PICK byVector \in DenseRankings, byTerm \in Rankings(found), byText \in Rankings(texts) :
         \E ranking \in Sorted(RrfScores(<<byVector, byTerm, byText>>)) :
         \E kept \in Kept(ranking) :
            answer' = [lists |-> <<byVector, byTerm, byText>>, ranking |-> kept]
      BY DEF Search
<1> DEFINE lists == <<byVector, byTerm, byText>>
           scores == RrfScores(lists)
<1>2. PICK ranking \in Sorted(scores) : \E kept \in Kept(ranking) :
         answer' = [lists |-> lists, ranking |-> kept]
      BY <1>1
<1>3. PICK kept \in Kept(ranking) : answer' = [lists |-> lists, ranking |-> kept]
      BY <1>2
<1>4. stored' = stored
      BY DEF Search
<1>5. \A t \in TermsOf(words) : t \in Term
      BY DEF TermsOf, SearchInv
<1>6. found \in SUBSET Doc
      <2>1. \A t \in Term : Range(inverted_index[t]) \subseteq Doc
            <3> SUFFICES ASSUME NEW t \in Term PROVE Range(inverted_index[t]) \subseteq Doc
                OBVIOUS
            <3>1. inverted_index[t] \in Seq(Doc)
                  BY DEF Inv, IndexTyped
            <3> QED BY <3>1 DEF Range
      <2> QED BY <1>5, <2>1 DEF Matching
<1>7. \A docs \in SUBSET Doc : IsFiniteSet(docs)
      BY SearchAssumption, FS_Subset
<1>8. /\ IsRanking(byVector) /\ ToSet(byVector) \subseteq Doc
      /\ IsRanking(byTerm) /\ ToSet(byTerm) \subseteq Doc
      /\ IsRanking(byText) /\ ToSet(byText) \subseteq Doc
      <2>1. PICK docs \in SUBSET dense : byVector \in Rankings(docs)
            BY DEF DenseRankings
      <2>2. docs \in SUBSET Doc /\ texts \in SUBSET Doc
            BY DEF SearchInv
      <2> HIDE DEF found, texts
      <2> QED BY <1>6, <1>7, <2>1, <2>2, RankingsRank
<1> HIDE DEF found, texts
<1>9. lists[1] = byVector /\ lists[2] = byTerm /\ lists[3] = byText
      OBVIOUS
<1> HIDE DEF lists
<1>10. ThreeRankings(lists)
      BY <1>8, <1>9 DEF ThreeRankings
<1>11. DOMAIN scores = Listed(lists) /\ Listed(lists) \subseteq Doc
      <2>1. \A i \in 1..3 : ToSet(lists[i]) \subseteq Doc
            BY <1>8, <1>9
      <2> QED BY <2>1 DEF RrfScores, Listed
<1>12. IsFiniteSet(DOMAIN scores)
      BY <1>7, <1>11
<1>13. ASSUME NEW d \in DOMAIN stored, NEW i \in DOMAIN kept, Dominates(d, kept[i], lists)
       PROVE  RankIn(d, kept) \in 1..i - 1
      <2>1. kept[i] \in ToSet(ranking)
            BY DEF Kept, ToSet
      <2>2. ranking \in Rankings(DOMAIN scores)
            BY DEF Sorted
      <2>3. kept[i] \in Listed(lists)
            BY <1>11, <1>12, <2>1, <2>2, RankingsRank
      <2>4. d \in Listed(lists) /\ scores[d] \in Nat /\ scores[kept[i]] \in Nat
            /\ scores[d] > scores[kept[i]]
            BY <1>10, <1>13, <2>3, AgreementIsScored
      <2>5. d \in DOMAIN scores \cap DOMAIN stored
            BY <1>11, <2>4
      <2> HIDE DEF scores
      <2> QED BY <1>12, <2>4, <2>5, BetterIsFirst
<1>14. answer'.lists = lists /\ answer'.ranking = kept
      BY <1>3
<1> QED BY <1>4, <1>13, <1>14 DEF FusionKeepsAgreement

LEMMA SearchInvariance == SearchSpec => []SearchInv
<1>1. SearchInit => SearchInv
      <2> SUFFICES ASSUME SearchInit PROVE SearchInv
          OBVIOUS
      <2>1. DOMAIN stored = {} /\ DOMAIN vocabulary = {} /\ dense = {}
            BY DEF SearchInit, IndexInit
      <2> QED BY <2>1, NoAnswerKeepsOrder DEF SearchInv, SearchInit
<1>2. (answer = NoAnswer => FusionKeepsAgreement)'
      BY NoAnswerKeepsOrder, PTL
<1>3. Inv /\ SearchInv /\ [SearchNext]_searchVars => SearchInv'
      <2> SUFFICES ASSUME Inv, SearchInv, [SearchNext]_searchVars PROVE SearchInv'
          OBVIOUS
      <2>1. ASSUME NEW d \in Doc, NEW words \in SUBSET Word, AddDocument(d, words)
            PROVE  SearchInv'
            <3>1. answer' = NoAnswer /\ vocabulary' = vocabulary /\ dense' \in SUBSET Doc
                  BY <2>1 DEF AddDocument, AddEntries, indexVars, SearchInv
            <3>2. DOMAIN stored' \in SUBSET Doc
                  BY <2>1 DEF AddDocument, SearchInv
            <3> QED BY <1>2, <3>1, <3>2 DEF SearchInv, NoAnswer
      <2>2. ASSUME NEW d \in Doc, RemoveDocument(d)
            PROVE  SearchInv'
            <3>1. answer' = NoAnswer /\ vocabulary' = vocabulary /\ dense' \in SUBSET Doc
                  BY <2>2 DEF RemoveDocument, RemoveEntries, SearchInv
            <3>2. DOMAIN stored' \in SUBSET Doc
                  BY <2>2 DEF RemoveDocument, SearchInv
            <3> QED BY <1>2, <3>1, <3>2 DEF SearchInv, NoAnswer
      <2>3. ASSUME NEW words \in SUBSET Word, NewVocabulary(words)
            PROVE  SearchInv'
            <3>1. answer' = NoAnswer /\ dense' = dense /\ stored' = stored
                  /\ UpdateVocabulary(words)
                  BY <2>3 DEF NewVocabulary
            <3> QED BY <1>2, <3>1, NewTerms DEF SearchInv, NoAnswer
      <2>4. ASSUME NEW words \in SUBSET Word, Search(words)
            PROVE  SearchInv'
            <3>1. dense' = dense /\ stored' = stored /\ vocabulary' = vocabulary
                  BY <2>4 DEF Search, indexVars
            <3>2. FusionKeepsAgreement'
                  BY <2>4, SearchKeepsOrder
            <3> QED BY <3>1, <3>2 DEF SearchInv
      <2>5. CASE ClearSearch
            <3>1. answer' = NoAnswer /\ dense' = dense /\ stored' = stored
                  /\ vocabulary' = vocabulary
                  BY <2>5 DEF ClearSearch, ClearIndex
            <3> QED BY <1>2, <3>1 DEF SearchInv, NoAnswer
      <2>6. CASE UNCHANGED searchVars
            BY <2>6 DEF searchVars, indexVars, SearchInv, FusionKeepsAgreement
      <2> QED BY <2>1, <2>2, <2>3, <2>4, <2>5, <2>6 DEF SearchNext
<1> QED BY <1>1, <1>3, Invariance, PTL DEF SearchSpec

-----------------------------------------------------------------------------
(* The order of weighted scores.                                           *)

\* Weighing keeps an order of scores.
LEMMA WeighedFollows ==
    ASSUME NEW w \in Nat, NEW x \in Int, NEW y \in Int
    PROVE  w * x \in Int /\ (x <= y => w * x <= w * y)
<1>1. ASSUME x <= y PROVE w * x <= w * y
      <2>1. PICK z \in Nat : y = x + z
            <3>1. y - x \in Nat /\ y = x + (y - x)
                  BY <1>1
            <3> QED BY <3>1
      <2>2. w * y = w * x + w * z /\ w * z \in Nat /\ w * x \in Int
            BY <2>1
      <2> QED BY <2>2
<1> QED BY <1>1

LEMMA WeighedIsNoLess ==
    ASSUME NEW w \in Nat, NEW x \in Int, x >= 0 PROVE w * x \in Nat
<1>1. w * 0 = 0 /\ w * 0 <= w * x /\ w * x \in Int
      BY WeighedFollows
<1> QED BY ONLY <1>1

\* Lists of numbers, and weights for them.
NumberLists(lists) == \A s \in Source : \A d \in DOMAIN lists[s] : lists[s][d] \in Int
Weights(w) == \A s \in Source : w[s] \in Nat

LEMMA LinearFollows ==
    ASSUME NEW lists, NumberLists(lists), NEW w, Weights(w),
           NEW d \in Scored(lists), NEW e \in Scored(lists),
           \A s \in Source : NoLower(d, e, lists[s])
    PROVE  LinearFusion(lists, w)[d] >= LinearFusion(lists, w)[e]
<1> DEFINE part(x, s) == IF x \in DOMAIN lists[s] THEN w[s] * lists[s][x] ELSE 0
<1>1. ASSUME NEW s \in Source
      PROVE  part(d, s) \in Int /\ part(e, s) \in Int /\ part(e, s) <= part(d, s)
      <2>1. w[s] \in Nat
            BY DEF Weights
      <2>2. /\ d \in DOMAIN lists[s] => lists[s][d] \in Int /\ part(d, s) \in Int
            /\ e \in DOMAIN lists[s] => lists[s][e] \in Int /\ part(e, s) \in Int
            BY <2>1, WeighedFollows DEF NumberLists
      <2>3. part(d, s) \in Int /\ part(e, s) \in Int
            BY <2>2
      <2>4. CASE e \notin DOMAIN lists[s]
            <3>1. CASE d \notin DOMAIN lists[s]
                  BY <2>4, <3>1
            <3>2. CASE d \in DOMAIN lists[s]
                  <4>1. lists[s][d] >= 0 /\ lists[s][d] \in Int
                        BY <2>2, <2>4, <3>2 DEF NoLower
                  <4>2. part(d, s) \in Nat
                        BY <2>1, <3>2, <4>1, WeighedIsNoLess
                  <4> QED BY <2>4, <4>2
            <3> QED BY <3>1, <3>2
      <2>5. CASE e \in DOMAIN lists[s]
            <3>1. d \in DOMAIN lists[s] /\ lists[s][e] <= lists[s][d]
                  BY <2>2, <2>5 DEF NoLower
            <3> QED BY <2>1, <2>2, <2>3, <2>5, <3>1, WeighedFollows
      <2> QED BY <2>4, <2>5
<1>2. \A x \in Scored(lists) :
         LinearFusion(lists, w)[x] = part(x, "dense") + part(x, "sparse") + part(x, "text")
      BY DEF LinearFusion
<1> HIDE DEF part
<1>3. /\ part(d, "dense") \in Int /\ part(e, "dense") \in Int
      /\ part(e, "dense") <= part(d, "dense")
      /\ part(d, "sparse") \in Int /\ part(e, "sparse") \in Int
      /\ part(e, "sparse") <= part(d, "sparse")
      /\ part(d, "text") \in Int /\ part(e, "text") \in Int
      /\ part(e, "text") <= part(d, "text")
      BY <1>1 DEF Source
<1> QED BY <1>2, <1>3

\* A set of numbers between bounds has a least and a greatest one.
LEMMA LeastAndGreatest ==
    ASSUME NEW n \in Nat, NEW S \in SUBSET (-n..n), S # {}
    PROVE  /\ Min(S) \in S /\ \A y \in S : Min(S) <= y
           /\ Max(S) \in S /\ \A y \in S : y <= Max(S)
<1>1. \E x \in S : \A y \in S : x <= y
      <2> DEFINE T == {n + x : x \in S}
      <2>1. T \in SUBSET Nat /\ T # {}
            <3>1. \A x \in S : n + x \in Nat
                  OBVIOUS
            <3> QED BY <3>1
      <2>2. PICK m \in T : \A t \in T : m <= t
            BY <2>1, LeastNumber
      <2>3. PICK x \in S : m = n + x
            BY <2>2
      <2>4. \A y \in S : n + x <= n + y
            BY <2>2, <2>3
      <2> QED BY <2>4
<1>2. \E x \in S : \A y \in S : x >= y
      <2> DEFINE T == {n - x : x \in S}
      <2>1. T \in SUBSET Nat /\ T # {}
            <3>1. \A x \in S : n - x \in Nat
                  OBVIOUS
            <3> QED BY <3>1
      <2>2. PICK m \in T : \A t \in T : m <= t
            BY <2>1, LeastNumber
      <2>3. PICK x \in S : m = n - x
            BY <2>2
      <2>4. \A y \in S : n - x <= n - y
            BY <2>2, <2>3
      <2> QED BY <2>4
<1>3. Min(S) \in S /\ \A y \in S : Min(S) <= y
      BY <1>1 DEF Min
<1>4. Max(S) \in S /\ \A y \in S : y <= Max(S)
      BY <1>2 DEF Max
<1> QED BY <1>3, <1>4

LEMMA QuotientsFollow ==
    ASSUME NEW x \in Nat, NEW y \in Nat, NEW n \in Nat \ {0}
    PROVE  x \div n \in Nat /\ (x <= y => x \div n <= y \div n)
<1> DEFINE p == x \div n
           q == y \div n
           r == x % n
           s == y % n
<1>1. p \in Nat /\ q \in Nat /\ r \in 0..n - 1 /\ s \in 0..n - 1
      OBVIOUS
<1>2. x = n * p + r /\ y = n * q + s
      OBVIOUS
<1> HIDE DEF p, q, r, s
<1>3. ASSUME x <= y, q < p PROVE FALSE
      <2>1. PICK z \in Nat : p = q + 1 + z
            <3>1. p - q - 1 \in Nat /\ p = q + 1 + (p - q - 1)
                  BY <1>1, <1>3
            <3> QED BY <3>1
      <2>2. n * p = n * q + n + n * z /\ n * z \in Nat /\ n * q \in Nat
            BY <1>1, <2>1
      <2> QED BY <1>1, <1>2, <1>3, <2>2
<1> QED BY <1>1, <1>3 DEF p, q

\* Normalising keeps the documents of a list and their order.
LEMMA NormalizedFollows ==
    ASSUME NEW list, \A d \in DOMAIN list : list[d] \in -MaxScore..MaxScore,
           NEW d \in DOMAIN list, NEW e \in DOMAIN list
    PROVE  /\ NormalizeScores(list)[d] \in Nat /\ NormalizeScores(list)[e] \in Nat
           /\ list[e] <= list[d] => NormalizeScores(list)[e] <= NormalizeScores(list)[d]
<1> DEFINE scores == {list[x] : x \in DOMAIN list}
           low == Min(scores)
           range == Max(scores) - low
           from(x) == One * (list[x] - low)
<1>1. MaxScore \in Nat /\ One \in Nat
      BY FusionAssumption
<1>2. scores \in SUBSET (-MaxScore..MaxScore) /\ scores # {} /\ scores \in SUBSET Int
      BY <1>1
<1>3. \A x \in DOMAIN list :
         NormalizeScores(list)[x] = IF range > 0 THEN from(x) \div range ELSE One
      BY DEF NormalizeScores
<1>4. list[d] \in scores /\ list[e] \in scores
      OBVIOUS
<1> HIDE DEF scores
<1>5. /\ low \in scores /\ \A y \in scores : low <= y
      /\ Max(scores) \in scores /\ \A y \in scores : y <= Max(scores)
      BY <1>1, <1>2, LeastAndGreatest
<1> HIDE DEF low
<1>6. /\ range \in Nat
      /\ list[d] - low \in Nat /\ list[e] - low \in Nat
      /\ list[e] <= list[d] => list[e] - low <= list[d] - low
      <2>1. low \in Int /\ Max(scores) \in Int /\ list[d] \in Int /\ list[e] \in Int
            BY <1>2, <1>4, <1>5
      <2>2. low <= Max(scores) /\ low <= list[d] /\ low <= list[e]
            BY <1>4, <1>5
      <2> QED BY <2>1, <2>2
<1>7. from(d) \in Nat /\ from(e) \in Nat /\ (list[e] <= list[d] => from(e) <= from(d))
      BY <1>1, <1>6, WeighedFollows, WeighedIsNoLess
<1> HIDE DEF range, from
<1>8. CASE range > 0
      <2>1. /\ from(d) \div range \in Nat /\ from(e) \div range \in Nat
            /\ from(e) <= from(d) => from(e) \div range <= from(d) \div range
            BY <1>6, <1>7, <1>8, QuotientsFollow
      <2> QED BY <1>3, <1>7, <1>8, <2>1
<1>9. CASE ~ (range > 0)
      BY <1>1, <1>3, <1>9
<1> QED BY <1>8, <1>9

LEMMA BoundedWeights ==
    ASSUME NEW w \in Bounded PROVE w.dense \in Nat /\ w.sparse \in Nat /\ w.text \in Nat
<1> DEFINE wide == 100..900
           narrow == 50..300
<1>1. w.dense \in wide /\ w.sparse \in wide /\ w.text \in narrow
      BY DEF Bounded
<1>2. \A a, b \in Nat : a..b \subseteq Nat
      OBVIOUS
<1>3. wide \subseteq Nat /\ narrow \subseteq Nat
      BY ONLY <1>2
<1> HIDE DEF wide, narrow
<1> QED BY ONLY <1>1, <1>3

\* The weights of a search are numbers.
LEMMA SearchWeights ==
    ASSUME FusionTypeOK
    PROVE  /\ Weights(InitialWeights.mixed)
           /\ \A query : Weights(AdaptWeights(InitialWeights.mixed, query))
           /\ \A lists : NoneNegative(lists) =>
                 \A bytes \in Nat, spaced \in BOOLEAN, share \in Shares(lists) :
                    Weights(AdjustWeights(PredictWeights(bytes, spaced), share))
<1>1. InitialWeights.mixed = Triple(500, 400, 100)
      BY DEF InitialWeights
<1>2. \A a, b, c \in Nat : Weights(Triple(a, b, c))
      BY DEF Weights, Triple, Source
<1>3. Weights(InitialWeights.mixed)
      BY <1>1, <1>2
<1>4. \A query : Weights(AdaptWeights(InitialWeights.mixed, query))
      <2> SUFFICES ASSUME NEW query
                   PROVE  Weights(AdaptWeights(InitialWeights.mixed, query))
          OBVIOUS
      <2> DEFINE w == InitialWeights.mixed
      <2>1. w.dense = 500 /\ w.sparse = 400 /\ w.text = 100
            BY <1>1 DEF Triple
      <2>2. AdaptWeights(w, query) = IF Poor(query)
               THEN Triple(90 * w.dense, 110 * w.sparse, 105 * w.text)
               ELSE Triple(100 * w.dense, 100 * w.sparse, 100 * w.text)
            BY DEF AdaptWeights
      <2> HIDE DEF w
      <2> QED BY <1>2, <2>1, <2>2 DEF w
<1>5. ASSUME NEW bytes \in Nat, NEW spaced \in BOOLEAN, NEW lists, NoneNegative(lists),
             NEW share \in Shares(lists)
      PROVE  Weights(AdjustWeights(PredictWeights(bytes, spaced), share))
      <2> DEFINE kind == KindOf(bytes, spaced)
                 w == weights[kind]
                 m == w.dense * (IF bytes > 10 THEN 12 ELSE 8)
                 v == PredictWeights(bytes, spaced)
      <2>1. kind \in Kind
            BY DEF KindOf, Kind
      <2>2. w.dense \in Nat /\ w.sparse \in Nat /\ w.text \in Nat
            <3>1. w \in Bounded
                  <4>1. weights \in [Kind -> Bounded]
                        BY FusionTyping DEF FusionTyped
                  <4> HIDE DEF kind
                  <4> QED BY ONLY <2>1, <4>1
            <3> HIDE DEF w
            <3> QED BY <3>1, BoundedWeights
      <2>3. v = Triple(Min({m, 10000}), 10 * w.sparse, 10 * w.text)
            BY DEF PredictWeights
      <2>4. Min({m, 10000}) \in Nat
            <3>1. m \in Nat
                  BY <2>2
            <3> HIDE DEF m
            <3>2. {m, 10000} \in SUBSET Nat /\ {m, 10000} # {}
                  BY <3>1
            <3>3. Min({m, 10000}) \in {m, 10000}
                  BY <3>2, LeastNumber
            <3> QED BY <3>1, <3>3
      <2> HIDE DEF w, m, v
      <2>5. Weights(v)
            BY <1>2, <2>2, <2>3, <2>4
      <2>6. \A s \in Source : share[s] \in Nat
            <3>1. share \in [Source -> 0..2] \/ share = [s \in Source |-> 0]
                  BY <1>5 DEF Shares
            <3> QED BY <3>1
      <2>7. \A s \in Source : AdjustWeights(v, share)[s] = v[s] * (10 + share[s])
            BY DEF AdjustWeights
      <2>8. ASSUME NEW s \in Source PROVE AdjustWeights(v, share)[s] \in Nat
            <3>1. v[s] \in Nat /\ 10 + share[s] \in Nat
                  BY <2>5, <2>6 DEF Weights
            <3> QED BY <2>7, <3>1, WeighedIsNoLess
      <2> QED BY <2>8 DEF Weights, v
<1> QED BY <1>3, <1>4, <1>5

\* Whatever the weights, the scores follow the numbers of the sources.
LEMMA WeightsKeepOrder == FusionTypeOK => FusionFollowsScores
<1> SUFFICES ASSUME FusionTypeOK, NEW lists \in Lists
             PROVE  FusionsFollow(lists, InitialWeights.mixed)
    BY DEF FusionFollowsScores
<1> DEFINE w == InitialWeights.mixed
           normal == [s \in Source |-> NormalizeScores(lists[s])]
<1>1. /\ \A s \in Source : \A x \in DOMAIN lists[s] : lists[s][x] \in -MaxScore..MaxScore
      /\ MaxScore \in Nat
      <2>1. /\ MaxScore \in Nat
            /\ \A s \in Source : \A x \in DOMAIN lists[s] :
                  lists[s][x] \in (IF s = "sparse" THEN -MaxScore ELSE 0)..MaxScore
            BY FusionAssumption
      <2>2. \A n \in Nat : -n..n \subseteq -n..n /\ 0..n \subseteq -n..n
            OBVIOUS
      <2>3. 0..MaxScore \subseteq -MaxScore..MaxScore
            BY <2>1, <2>2
      <2> QED BY <2>1, <2>3, Zenon
<1>2. NumberLists(lists)
      <2>1. \A x \in -MaxScore..MaxScore : x \in Int
            BY <1>1
      <2> QED BY <1>1, <2>1, Zenon DEF NumberLists
<1>3. ASSUME NEW d, NEW e, AtLeastAsGood(d, e, lists), NoNearer(d, e, lists)
       PROVE  \A s \in Source : NoLower(d, e, lists[s])
      <2> SUFFICES ASSUME NEW s \in Source PROVE NoLower(d, e, lists[s])
          OBVIOUS
      <2>1. s = "dense" \/ s = "sparse" \/ s = "text"
            BY DEF Source
      <2> QED BY <1>3, <2>1, Zenon DEF AtLeastAsGood, NoNearer
<1>4. ASSUME NEW v, Weights(v) PROVE OrderKept(LinearFusion(lists, v), lists)
      <2> SUFFICES ASSUME NEW d \in Scored(lists), NEW e \in Scored(lists),
                          AtLeastAsGood(d, e, lists), NoNearer(d, e, lists)
                   PROVE  LinearFusion(lists, v)[d] >= LinearFusion(lists, v)[e]
          BY Zenon DEF OrderKept
      <2>1. \A s \in Source : NoLower(d, e, lists[s])
            BY <1>3
      <2> QED BY <1>2, <1>4, <2>1, LinearFollows
<1>5. ASSUME NEW fused \in LinearScores(lists, w) PROVE OrderKept(fused, lists)
      BY <1>4, SearchWeights DEF LinearScores
<1>6. ASSUME NEW fused \in NormalizedScores(lists, w),
             NEW d \in Scored(lists), NEW e \in Scored(lists),
             AtLeastAsGood(d, e, lists), NoNearer(d, e, lists)
      PROVE  fused[d] >= fused[e]
      <2>1. \A s \in Source : normal[s] = NormalizeScores(lists[s])
                              /\ DOMAIN normal[s] = DOMAIN lists[s]
            BY DEF NormalizeScores
      <2>2. fused = LinearFusion(normal, w)
            BY DEF NormalizedScores
      <2> HIDE DEF normal
      <2>3. /\ \A s \in Source : \A x \in DOMAIN normal[s] : normal[s][x] \in Nat
            /\ NumberLists(normal)
            <3>1. ASSUME NEW s \in Source, NEW x \in DOMAIN normal[s]
                  PROVE  normal[s][x] \in Nat
                  BY <1>1, <2>1, NormalizedFollows
            <3>2. \A n \in Nat : n \in Int
                  OBVIOUS
            <3> QED BY <3>1, <3>2, Zenon DEF NumberLists
      <2>4. Scored(normal) = Scored(lists)
            BY <2>1 DEF Scored
      <2>5. ASSUME NEW s \in Source PROVE NoLower(d, e, normal[s])
            <3>1. CASE e \in DOMAIN lists[s]
                  <4>1. d \in DOMAIN lists[s] /\ lists[s][d] >= lists[s][e]
                        BY <1>6, <1>3, <3>1 DEF NoLower
                  <4>2. \A x \in DOMAIN lists[s] : lists[s][x] \in -MaxScore..MaxScore
                        BY <1>1
                  <4>3. lists[s][e] <= lists[s][d]
                        <5>1. \A n \in Nat : \A x, y \in -n..n : x >= y => y <= x
                              OBVIOUS
                        <5> QED BY <1>1, <3>1, <4>1, <4>2, <5>1
                  <4>4. /\ NormalizeScores(lists[s])[d] \in Nat
                        /\ NormalizeScores(lists[s])[e] \in Nat
                        /\ NormalizeScores(lists[s])[e] <= NormalizeScores(lists[s])[d]
                        BY <3>1, <4>1, <4>2, <4>3, NormalizedFollows
                  <4> QED BY <2>1, <3>1, <4>1, <4>4 DEF NoLower
            <3>2. CASE e \notin DOMAIN lists[s]
                  <4>1. d \in DOMAIN normal[s] => normal[s][d] \in Nat
                        BY <2>3
                  <4> QED BY <2>1, <3>2, <4>1 DEF NoLower
            <3> QED BY <3>1, <3>2
      <2>6. Weights(w)
            BY SearchWeights
      <2> HIDE DEF w
      <2> QED BY <2>2, <2>3, <2>4, <2>5, <2>6, LinearFollows
<1>7. ASSUME NEW bytes \in TextLengths, NEW spaced \in BOOLEAN,
             NEW fused \in LearnedScores(lists, bytes, spaced), NoneNegative(lists)
      PROVE  OrderKept(fused, lists)
      <2>1. PICK share \in Shares(lists) :
               fused = LinearFusion(lists, AdjustWeights(PredictWeights(bytes, spaced), share))
            BY DEF LearnedScores
      <2>2. bytes \in Nat
            BY FusionAssumption
      <2>3. Weights(AdjustWeights(PredictWeights(bytes, spaced), share))
            BY <1>7, <2>2, SearchWeights
      <2> QED BY <1>4, <2>1, <2>3
<1>8. ASSUME NEW query \in Query, NEW fused \in AdaptiveScores(lists, w, query)
      PROVE  OrderKept(fused, lists)
      <2>1. fused = LinearFusion(lists, AdaptWeights(w, query))
            BY DEF AdaptiveScores
      <2>2. Weights(AdaptWeights(w, query))
            BY SearchWeights
      <2> QED BY <1>4, <2>1, <2>2
<1>9. \A fused \in NormalizedScores(lists, w) : OrderKept(fused, lists)
      BY <1>6 DEF OrderKept
<1>10. FusionsFollow(lists, w)
      <2> HIDE DEF w
      <2> QED BY <1>5, <1>7, <1>8, <1>9, Zenon DEF FusionsFollow
<1> QED BY <1>10

\* Reciprocal ranks turn nothing around that the sources agree on, and weights
\* nothing that terms and text agree on where the vector has no say, for any limits,
\* rankings, lists and texts, and whatever ratings have taught (rrf_fusion,
\* linear_fusion, normalize_scores).
THEOREM FusionAlwaysKeepsOrder == SearchSpec /\ FusionSpec => FusionKeepsOrder
<1>1. FusionInv => FusionFollowsScores
      BY WeightsKeepOrder DEF FusionInv
<1>2. SearchInv => PreferredIsKept /\ PreferredIsAhead
      <2>1. \A i : \A x \in 1..i - 1 : x # 0 /\ x \in 0..i - 1
            OBVIOUS
      <2> QED BY <2>1, Zenon DEF SearchInv, FusionKeepsAgreement, PreferredIsKept, PreferredIsAhead
<1>3. FusionSpec => []FusionFollowsScores
      BY <1>1, FusionInvariance, PTL
<1>4. SearchSpec => [](PreferredIsKept /\ PreferredIsAhead)
      BY <1>2, SearchInvariance, PTL
<1>5. []FusionFollowsScores =>
         /\ FusionFollowsScores
         /\ [][UNCHANGED <<weights, history>> \/ FusionFollowsScores']_<<weights, history>>
      BY PTL
<1> QED BY <1>3, <1>4, <1>5, PTL DEF FusionKeepsOrder
=============================================================================
