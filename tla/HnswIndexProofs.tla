-------------------------- MODULE HnswIndexProofs --------------------------
(***************************************************************************)
(* Inv holds in every behaviour of HnswIndex, whatever the identifiers,    *)
(* the vectors and the batches, and every behaviour is one the contract    *)
(* VectorIndex allows; its answers and those of FaissIndex are exact up to *)
(* the slots that serve nobody; the restores of the document store lose    *)
(* nothing and its ways to read agree, whatever the documents.             *)
(***************************************************************************)
EXTENDS FaissIndex, DocumentStore, FunctionTheorems, SequenceTheorems, FiniteSetTheorems,
        WellFoundedInduction, TLAPS

-----------------------------------------------------------------------------
(* Rank and Compact: the kept positions are renumbered 1..n without gaps   *)
(* or collisions and each keeps its element.                               *)

\* A non-empty set of naturals has a least element.
LEMMA LeastNatural ==
    ASSUME NEW S \in SUBSET Nat, S # {}
    PROVE  \E x \in S : \A y \in S : x <= y
<1>1. PICK x \in S : \A y \in S : <<y, x>> \notin OpToRel(<, Nat)
      BY NatLessThanWellFounded, WFMin
<1>2. \A y \in S : ~(y < x)
      BY <1>1 DEF OpToRel
<1> QED BY <1>2

\* A non-empty set of positions up to n has a greatest element.
LEMMA GreatestPosition ==
    ASSUME NEW n \in Nat, NEW S \in SUBSET (1..n), S # {}
    PROVE  \E x \in S : \A y \in S : y <= x
<1> DEFINE T == {n - x : x \in S}
<1>1. T \in SUBSET Nat /\ T # {}
      <2>1. \A x \in S : n - x \in Nat
            OBVIOUS
      <2> QED BY <2>1
<1>2. PICK t \in T : \A u \in T : t <= u
      BY <1>1, LeastNatural
<1>3. PICK x \in S : t = n - x
      BY <1>2
<1>4. \A y \in S : t <= n - y
      BY <1>2
<1> QED BY <1>3, <1>4

-----------------------------------------------------------------------------
\* Ranks are positions of the compacted sequence and keep the order.
LEMMA RankOrder ==
    ASSUME NEW n \in Nat, NEW keep \in SUBSET (1..n)
    PROVE  /\ IsFiniteSet(keep)
           /\ Cardinality(keep) \in 0..n
           /\ \A i \in keep : Rank(keep, i) \in 1..Cardinality(keep)
           /\ \A i, j \in keep : i < j => Rank(keep, i) < Rank(keep, j)
<1> DEFINE Upto(i) == {k \in keep : k <= i}
<1>1. IsFiniteSet(keep) /\ Cardinality(keep) \in 0..n
      <2>1. IsFiniteSet(1..n) /\ Cardinality(1..n) = n
            BY FS_Interval
      <2>2. IsFiniteSet(keep) /\ Cardinality(keep) <= n
            BY <2>1, FS_Subset
      <2> QED BY <2>2, FS_CardinalityType
<1>2. \A i : IsFiniteSet(Upto(i)) /\ Cardinality(Upto(i)) \in Nat
             /\ Cardinality(Upto(i)) <= Cardinality(keep)
      <2> TAKE i
      <2>1. Upto(i) \in SUBSET keep
            OBVIOUS
      <2> HIDE DEF Upto
      <2> QED BY <1>1, <2>1, FS_Subset, FS_CardinalityType
<1>3. \A i \in keep : Cardinality(Upto(i)) # 0
      <2> TAKE i \in keep
      <2>1. i \in Upto(i)
            OBVIOUS
      <2> HIDE DEF Upto
      <2> QED BY <1>2, <2>1, FS_EmptySet
<1>4. ASSUME NEW i \in keep, NEW j \in keep, i < j
      PROVE  Cardinality(Upto(i)) < Cardinality(Upto(j))
      <2>1. Upto(i) \in SUBSET Upto(j) /\ j \in Upto(j) /\ j \notin Upto(i)
            <3>1. i \in Nat /\ j \in Nat /\ \A k \in keep : k \in Nat
                  OBVIOUS
            <3>2. \A k \in keep : k <= i => k <= j
                  BY <1>4, <3>1
            <3>3. j <= j /\ ~(j <= i)
                  BY <1>4, <3>1
            <3> QED BY <3>2, <3>3
      <2> HIDE DEF Upto
      <2>2. Upto(i) # Upto(j)
            BY <2>1
      <2> QED BY <1>2, <2>1, <2>2, FS_Subset
<1>5. \A i : Rank(keep, i) = Cardinality(Upto(i))
      BY DEF Rank
<1> HIDE DEF Upto
<1> QED BY <1>1, <1>2, <1>3, <1>4, <1>5

\* Every position of the compacted sequence is the rank of one kept position.
LEMMA RankOnto ==
    ASSUME NEW n \in Nat, NEW keep \in SUBSET (1..n),
           NEW r \in 1..Cardinality(keep)
    PROVE  \E i \in keep : Rank(keep, i) = r
<1> DEFINE rank == [i \in keep |-> Rank(keep, i)]
           m == Cardinality(keep)
<1>1. /\ m \in Nat
      /\ \A i \in keep : Rank(keep, i) \in 1..m
      /\ \A i, j \in keep : i < j => Rank(keep, i) < Rank(keep, j)
      BY RankOrder
<1>2. \A i, j \in keep : Rank(keep, i) = Rank(keep, j) => i = j
      <2> TAKE i, j \in keep
      <2> HAVE Rank(keep, i) = Rank(keep, j)
      <2>1. ~(i < j) /\ ~(j < i)
            BY <1>1
      <2> QED BY <2>1
<1> HIDE DEF m
<1>3. IsFiniteSet(1..m) /\ Cardinality(1..m) = m
      BY <1>1, FS_Interval
<1>4. rank \in Injection(keep, 1..m)
      <2>1. rank \in [keep -> 1..m]
            BY <1>1
      <2>2. \A i, j \in keep : rank[i] = rank[j] => i = j
            BY <1>2
      <2> QED BY <2>1, <2>2, Zenon DEF Injection, IsInjective
<1> HIDE DEF rank
<1>5. rank \in Surjection(keep, 1..m)
      BY <1>3, <1>4, FS_Injection DEF m
<1>6. \E i \in keep : rank[i] = r
      BY <1>5 DEF Surjection, m
<1> QED BY <1>6 DEF rank

\* What Compact returns.
LEMMA CompactProperties ==
    ASSUME NEW V, NEW vs \in Seq(V), NEW keep \in SUBSET (1..Len(vs))
    PROVE  /\ Compact(vs, keep) \in Seq(V)
           /\ Len(Compact(vs, keep)) = Cardinality(keep)
           /\ Cardinality(keep) \in 0..Len(vs)
           /\ \A i \in keep : /\ Rank(keep, i) \in 1..Cardinality(keep)
                              /\ Compact(vs, keep)[Rank(keep, i)] = vs[i]
           /\ \A i, j \in keep : Rank(keep, i) = Rank(keep, j) => i = j
           /\ \A r \in 1..Cardinality(keep) : \E i \in keep : Rank(keep, i) = r
<1> DEFINE m == Cardinality(keep)
           At(r) == CHOOSE i \in keep : Rank(keep, i) = r
<1>1. Len(vs) \in Nat
      OBVIOUS
<1>2. m \in 0..Len(vs) /\ \A i \in keep : Rank(keep, i) \in 1..m
      BY <1>1, RankOrder
<1>3. \A i, j \in keep : Rank(keep, i) = Rank(keep, j) => i = j
      <2> TAKE i, j \in keep
      <2> HAVE Rank(keep, i) = Rank(keep, j)
      <2>1. ~(i < j) /\ ~(j < i)
            BY <1>1, <1>2, RankOrder
      <2> QED BY <2>1
<1>4. \A r \in 1..m : \E i \in keep : Rank(keep, i) = r
      BY <1>1, RankOnto
<1>5. \A r \in 1..m : At(r) \in keep /\ Rank(keep, At(r)) = r
      BY <1>4
<1>6. Compact(vs, keep) = [r \in 1..m |-> vs[At(r)]]
      BY DEF Compact
<1>7. \A i \in keep : At(Rank(keep, i)) = i
      BY <1>2, <1>3, <1>5
<1> HIDE DEF At
<1>8. \A r \in 1..m : vs[At(r)] \in V
      <2> TAKE r \in 1..m
      <2>1. At(r) \in 1..Len(vs)
            BY <1>5
      <2> QED BY <2>1, ElementOfSeq
<1> QED BY <1>2, <1>3, <1>4, <1>6, <1>7, <1>8

-----------------------------------------------------------------------------
(* Batches and the slots they fill.                                        *)

\* LastFor names the last item for id among the first n.
LEMMA LastForProperty ==
    ASSUME NEW items \in Seq(Item), NEW n \in 0..Len(items),
           NEW id \in IdsIn(items, n)
    PROVE  /\ LastFor(items, n, id) \in 1..n
           /\ items[LastFor(items, n, id)].id = id
           /\ items[LastFor(items, n, id)].vec \in Vec
<1> DEFINE S == {i \in 1..n : items[i].id = id}
<1>1. S \in SUBSET (1..n) /\ S # {}
      BY DEF IdsIn
<1>2. \E last \in S : \A j \in S : j <= last
      <2> HIDE DEF S
      <2>1. n \in Nat
            OBVIOUS
      <2> QED BY <1>1, <2>1, GreatestPosition
<1>3. \E i \in 1..n : /\ items[i].id = id
                      /\ \A j \in 1..n : items[j].id = id => j <= i
      BY <1>2
<1>4. LastFor(items, n, id) \in 1..n /\ items[LastFor(items, n, id)].id = id
      BY <1>3 DEF LastFor
<1>5. LastFor(items, n, id) \in 1..Len(items)
      BY <1>4
<1>6. items[LastFor(items, n, id)] \in Item
      BY <1>5, ElementOfSeq
<1> QED BY <1>4, <1>6 DEF Item

\* Distinct identifiers have distinct last items, and the last of all items is
\* the last one for its identifier.
LEMMA LastForDistinct ==
    ASSUME NEW items \in Seq(Item), NEW n \in 0..Len(items)
    PROVE  /\ \A x, y \in IdsIn(items, n) :
                 LastFor(items, n, x) = LastFor(items, n, y) => x = y
           /\ n # 0 => \E id \in Id : id \in IdsIn(items, n) /\ LastFor(items, n, id) = n
<1>1. \A x \in IdsIn(items, n) : items[LastFor(items, n, x)].id = x
      BY LastForProperty
<1>2. ASSUME n # 0
      PROVE  \E id \in Id : id \in IdsIn(items, n) /\ LastFor(items, n, id) = n
      <2>1. n \in 1..Len(items) /\ n \in 1..n
            BY <1>2
      <2>2. items[n] \in Item
            BY <2>1, ElementOfSeq
      <2> DEFINE id == items[n].id
      <2>3. id \in Id /\ id \in IdsIn(items, n)
            BY <2>1, <2>2 DEF Item, IdsIn
      <2>4. \E i \in 1..n : /\ items[i].id = id
                            /\ \A j \in 1..n : items[j].id = id => j <= i
            BY <2>1
      <2>5. /\ LastFor(items, n, id) \in 1..n
            /\ \A j \in 1..n : items[j].id = id => j <= LastFor(items, n, id)
            BY <2>4 DEF LastFor
      <2>6. n <= LastFor(items, n, id)
            BY <2>1, <2>5
      <2>7. LastFor(items, n, id) = n
            BY <2>5, <2>6
      <2> QED BY <2>3, <2>7
<1> QED BY <1>1, <1>2

-----------------------------------------------------------------------------
\* The state after the first n items of a batch have been pushed.
LEMMA PushProperty ==
    ASSUME NEW items \in Seq(Item), NEW n \in 0..Len(items), TypeOK,
           vectors' = vectors \o [i \in 1..n |-> items[i].vec]
    PROVE  /\ vectors' \in Seq(Vec)
           /\ Len(vectors') = Len(vectors) + n
           /\ \A s \in 1..Len(vectors) : vectors'[s] = vectors[s]
           /\ \A i \in 1..n : vectors'[Len(vectors) + i] = items[i].vec
<1> DEFINE pushed == [i \in 1..n |-> items[i].vec]
<1>1. \A i \in 1..n : items[i].vec \in Vec
      <2> TAKE i \in 1..n
      <2>1. i \in 1..Len(items)
            OBVIOUS
      <2>2. items[i] \in Item
            BY <2>1, ElementOfSeq
      <2> QED BY <2>2 DEF Item
<1>2. pushed \in Seq(Vec) /\ Len(pushed) = n
      BY <1>1
<1>3. \A i \in 1..n : pushed[i] = items[i].vec
      OBVIOUS
<1>4. vectors \in Seq(Vec) /\ vectors' = vectors \o pushed
      BY DEF TypeOK
<1> HIDE DEF pushed
<1>5. /\ vectors' \in Seq(Vec)
      /\ Len(vectors') = Len(vectors) + n
      /\ \A s \in 1..Len(vectors) + n :
            vectors'[s] = IF s <= Len(vectors) THEN vectors[s]
                          ELSE pushed[s - Len(vectors)]
      <2>1. /\ vectors \o pushed \in Seq(Vec)
            /\ Len(vectors \o pushed) = Len(vectors) + Len(pushed)
            /\ \A s \in 1..Len(vectors) + Len(pushed) :
                  (vectors \o pushed)[s] =
                      IF s <= Len(vectors) THEN vectors[s]
                      ELSE pushed[s - Len(vectors)]
            BY <1>2, <1>4, ConcatProperties
      <2> QED BY <1>2, <1>4, <2>1
<1>6. Len(vectors) \in Nat
      BY <1>4
<1>7. \A s \in 1..Len(vectors) : vectors'[s] = vectors[s]
      BY <1>5, <1>6
<1>8. ASSUME NEW i \in 1..n
      PROVE  vectors'[Len(vectors) + i] = items[i].vec
      <2>1. /\ Len(vectors) + i \in 1..Len(vectors) + n
            /\ ~(Len(vectors) + i <= Len(vectors))
            /\ (Len(vectors) + i) - Len(vectors) = i
            BY <1>6
      <2> QED BY <1>3, <1>5, <2>1
<1> QED BY <1>5, <1>7, <1>8

\* AddVector is AddVectors on a batch of one that is taken, or a refusal.
LEMMA AddVectorIsBatch ==
    ASSUME NEW id \in Id, NEW vec \in Vec, TypeOK, AddVector(id, vec)
    PROVE  \/ UNCHANGED vars /\ dimension # NoDim /\ DimOf[vec] # dimension
           \/ AddVectors(<<[id |-> id, vec |-> vec]>>)
              /\ TakesUpTo(dimension, <<[id |-> id, vec |-> vec]>>, 1)
<1> DEFINE it == [id |-> id, vec |-> vec]
           items == <<it>>
<1>1. CASE dimension # NoDim /\ DimOf[vec] # dimension
      BY <1>1 DEF AddVector
<1>2. CASE ~(dimension # NoDim /\ DimOf[vec] # dimension)
      <2>1. /\ dimension' = DimOf[vec]
            /\ vectors' = Append(vectors, vec)
            /\ id_to_index' = [id_to_index EXCEPT ![id] = Len(vectors')]
            /\ hnsw' = Build(vectors')
            /\ Len(vectors) < MaxSlots
            BY <1>2 DEF AddVector
      <2>2. it \in Item /\ items \in Seq(Item) /\ Len(items) = 1 /\ items[1] = it
            BY DEF Item
      <2>3. DimAfter(dimension, items) = DimOf[vec]
            BY <1>2, <2>2 DEF DimAfter
      <2>4. TakesUpTo(dimension, items, 1)
            BY <2>2, <2>3 DEF TakesUpTo
      <2>5. IdsIn(items, 1) = {id}
            BY <2>2 DEF IdsIn
      <2>6. LastFor(items, 1, id) = 1
            <3> HIDE DEF items
            <3>1. 1 \in 0..Len(items) /\ id \in IdsIn(items, 1)
                  BY <2>2, <2>5
            <3>2. LastFor(items, 1, id) \in 1..1
                  BY <2>2, <3>1, LastForProperty
            <3> QED BY <3>2
      <2>7. vectors' = vectors \o [i \in 1..1 |-> items[i].vec]
            <3>1. [i \in 1..1 |-> items[i].vec] = <<vec>>
                  BY <2>2
            <3>2. vectors \in Seq(Vec)
                  BY DEF TypeOK
            <3> QED BY <2>1, <3>1, <3>2, AppendIsConcat
      <2>8. Len(vectors) \in Nat /\ Len(vectors') = Len(vectors) + 1
            BY <2>1 DEF TypeOK
      <2>9. id_to_index' =
                [x \in Id |-> IF x \in IdsIn(items, 1)
                              THEN Len(vectors) + LastFor(items, 1, x)
                              ELSE id_to_index[x]]
            BY <2>1, <2>5, <2>6, <2>8 DEF TypeOK
      <2>10. Len(vectors) + Len(items) <= MaxSlots
            BY <2>1, <2>2, <2>8, MaxSlotsAssumption
      <2>11. AddVectors(items)
            <3> HIDE DEF items
            <3>1. 1 \in 0..Len(items) /\ 1 = Len(items)
                  BY <2>2
            <3> QED BY <2>1, <2>3, <2>4, <2>7, <2>9, <2>10, <3>1 DEF AddVectors
      <2> QED BY <2>4, <2>11
<1> QED BY <1>1, <1>2

-----------------------------------------------------------------------------
\* After any push, build_index leaves the graph equal to the array.
LEMMA BuildIsSnapshot ==
    ASSUME Inv, NEW vs \in Seq(Vec), Len(vectors) <= Len(vs)
    PROVE  Build(vs) = vs
<1>1. CASE vs = <<>>
      <2>1. Len(vectors) = 0 /\ Len(hnsw) = 0
            BY <1>1 DEF Inv, TypeOK, SnapshotIsPrefix
      <2>2. hnsw = <<>>
            BY <2>1 DEF Inv, TypeOK
      <2> QED BY <1>1, <2>2 DEF Build
<1>2. CASE vs # <<>>
      BY <1>2 DEF Build
<1> QED BY <1>1, <1>2

\* Adding vectors, whole or in part, keeps slots and snapshot sound.
LEMMA AddVectorsInv ==
    ASSUME Inv, NEW items \in Seq(Item), AddVectors(items)
    PROVE  Inv'
<1>1. PICK n \in 0..Len(items) :
          /\ TakesUpTo(dimension, items, n)
          /\ vectors' = vectors \o [i \in 1..n |-> items[i].vec]
          /\ id_to_index' =
                [id \in Id |-> IF id \in IdsIn(items, n)
                               THEN Len(vectors) + LastFor(items, n, id)
                               ELSE id_to_index[id]]
          /\ hnsw' = IF n = Len(items) THEN Build(vectors') ELSE hnsw
      BY DEF AddVectors
<1>2. /\ vectors' \in Seq(Vec)
      /\ Len(vectors') = Len(vectors) + n
      /\ \A s \in 1..Len(vectors) : vectors'[s] = vectors[s]
      /\ \A i \in 1..n : vectors'[Len(vectors) + i] = items[i].vec
      BY <1>1, PushProperty DEF Inv
<1>3. /\ \A id \in IdsIn(items, n) : LastFor(items, n, id) \in 1..n
      /\ \A x, y \in IdsIn(items, n) :
            LastFor(items, n, x) = LastFor(items, n, y) => x = y
      BY LastForProperty, LastForDistinct
<1>4. Len(vectors) \in Nat /\ Len(vectors') \in Nat /\ n \in Nat
      BY <1>2 DEF Inv, TypeOK
<1>5. dimension' = DimAfter(dimension, items)
      BY DEF AddVectors
<1>6. n = Len(items) => hnsw' = vectors'
      <2>1. Len(vectors) <= Len(vectors')
            BY <1>2, <1>4
      <2>2. Build(vectors') = vectors'
            BY <1>2, <2>1, BuildIsSnapshot
      <2> QED BY <1>1, <2>2
<1>7. TypeOK'
      <2>1. hnsw' \in Seq(Vec)
            BY <1>1, <1>2, <1>6 DEF Inv, TypeOK
      <2>2. id_to_index' \in [Id -> Nat]
            BY <1>1, <1>3, <1>4 DEF Inv, TypeOK
      <2>3. dimension' \in Nat \cup {NoDim}
            <3>1. CASE dimension = NoDim /\ items # <<>>
                  <4>1. items[1] \in Item
                        BY <3>1
                  <4> QED BY <1>5, <3>1, <4>1, VectorsAssumption DEF DimAfter, Item
            <3>2. CASE ~(dimension = NoDim /\ items # <<>>)
                  BY <1>5, <3>2 DEF DimAfter, Inv, TypeOK
            <3> QED BY <3>1, <3>2
      <2> QED BY <1>2, <2>1, <2>2, <2>3 DEF TypeOK
<1>8. SlotsWellFormed'
      <2>1. ASSUME NEW id \in Id
            PROVE  id_to_index'[id] <= Len(vectors')
            BY <1>1, <1>2, <1>3, <1>4 DEF Inv, TypeOK, SlotsWellFormed
      <2>2. ASSUME NEW x \in Id, NEW y \in Id, id_to_index'[x] = id_to_index'[y]
            PROVE  x = y \/ id_to_index'[x] = 0
            <3>1. id_to_index[x] \in 0..Len(vectors) /\ id_to_index[y] \in 0..Len(vectors)
                  BY <1>4 DEF Inv, TypeOK, SlotsWellFormed
            <3>2. CASE x \in IdsIn(items, n) /\ y \in IdsIn(items, n)
                  BY <1>1, <1>3, <1>4, <2>2, <3>2
            <3>3. CASE x \in IdsIn(items, n) /\ y \notin IdsIn(items, n)
                  BY <1>1, <1>3, <1>4, <2>2, <3>1, <3>3
            <3>4. CASE x \notin IdsIn(items, n) /\ y \in IdsIn(items, n)
                  BY <1>1, <1>3, <1>4, <2>2, <3>1, <3>4
            <3>5. CASE x \notin IdsIn(items, n) /\ y \notin IdsIn(items, n)
                  BY <1>1, <2>2, <3>5 DEF Inv, SlotsWellFormed
            <3> QED BY <3>2, <3>3, <3>4, <3>5
      <2> QED BY <2>1, <2>2 DEF SlotsWellFormed
<1>9. SnapshotIsPrefix'
      <2>1. CASE n = Len(items)
            BY <1>4, <1>6, <2>1 DEF SnapshotIsPrefix
      <2>2. CASE n # Len(items)
            <3>1. /\ hnsw' = hnsw
                  /\ Len(hnsw) \in 0..Len(vectors)
                  /\ \A s \in 1..Len(hnsw) : hnsw[s] = vectors[s]
                  BY <1>1, <2>2 DEF Inv, TypeOK, SnapshotIsPrefix
            <3>2. \A s \in 1..Len(hnsw) : s \in 1..Len(vectors)
                  BY <1>4, <3>1
            <3> QED BY <1>2, <1>4, <3>1, <3>2 DEF SnapshotIsPrefix
      <2> QED BY <2>1, <2>2
<1>10. OneDimension'
      <2>1. \A s \in 1..Len(vectors) : DimOf[vectors[s]] = dimension
            BY DEF Inv, OneDimension, Slots
      <2>2. ASSUME NEW s \in 1..Len(vectors)
            PROVE  DimOf[vectors'[s]] = dimension'
            <3>1. vectors[s] \in Vec
                  BY DEF Inv, TypeOK
            <3>2. dimension # NoDim
                  BY <2>1, <3>1, VectorsAssumption
            <3>3. dimension' = dimension
                  BY <1>5, <3>2 DEF DimAfter
            <3> QED BY <1>2, <2>1, <3>3
      <2>3. ASSUME NEW i \in 1..n
            PROVE  DimOf[vectors'[Len(vectors) + i]] = dimension'
            BY <1>1, <1>2, <1>5 DEF TakesUpTo
      <2>4. ASSUME NEW s \in 1..Len(vectors')
            PROVE  DimOf[vectors'[s]] = dimension'
            <3>1. CASE s <= Len(vectors)
                  BY <1>4, <2>2, <3>1
            <3>2. CASE ~(s <= Len(vectors))
                  <4>1. s - Len(vectors) \in 1..n /\ s = Len(vectors) + (s - Len(vectors))
                        BY <1>2, <1>4, <3>2
                  <4> QED BY <2>3, <4>1
            <3> QED BY <3>1, <3>2
      <2> QED BY <2>4 DEF OneDimension, Slots
<1>11. LastSlotOwned'
      <2>1. CASE n = 0
            <3>1. IdsIn(items, n) = {}
                  BY <2>1 DEF IdsIn
            <3>2. id_to_index' = id_to_index
                  BY <1>1, <3>1 DEF Inv, TypeOK
            <3>3. Len(vectors') = Len(vectors)
                  BY <1>2, <1>4, <2>1
            <3>4. vectors' # <<>> => vectors # <<>>
                  BY <1>2, <3>3 DEF Inv, TypeOK
            <3> QED BY <3>2, <3>3, <3>4 DEF Inv, LastSlotOwned, Owned, Slots
      <2>2. CASE n # 0
            <3>1. PICK id \in Id : id \in IdsIn(items, n) /\ LastFor(items, n, id) = n
                  BY <2>2, LastForDistinct
            <3>2. id_to_index'[id] = Len(vectors')
                  BY <1>1, <1>2, <3>1
            <3>3. Len(vectors') \in 1..Len(vectors')
                  BY <1>2, <1>4, <2>2
            <3> QED BY <3>2, <3>3 DEF LastSlotOwned, Owned, Slots
      <2> QED BY <2>1, <2>2
<1> QED BY <1>7, <1>8, <1>9, <1>10, <1>11 DEF Inv

-----------------------------------------------------------------------------
\* A removal: every kept identifier has the slot with its old vector, every
\* slot has an owner, and the graph is the array.
LEMMA RemovalProperty ==
    ASSUME Inv, NEW id \in Id, id_to_index[id] # 0, RemoveVector(id)
    PROVE  /\ vectors' \in Seq(Vec)
           /\ id_to_index' \in [Id -> Nat]
           /\ hnsw' = vectors'
           /\ dimension' = dimension
           /\ \A x \in Id : (x = id \/ id_to_index[x] = 0) <=> id_to_index'[x] = 0
           /\ \A x \in Id : id_to_index'[x] # 0 =>
                 /\ id_to_index'[x] \in 1..Len(vectors')
                 /\ vectors'[id_to_index'[x]] = vectors[id_to_index[x]]
           /\ \A x, y \in Id : id_to_index'[x] = id_to_index'[y] =>
                 x = y \/ id_to_index'[x] = 0
           /\ \A s \in 1..Len(vectors') : \E x \in Id : id_to_index'[x] = s
<1> DEFINE keep == KeptWithout(id)
           m == Cardinality(keep)
<1>1. /\ vectors' = Compact(vectors, keep)
      /\ id_to_index' =
            [x \in Id |-> IF x = id \/ id_to_index[x] = 0 THEN 0
                          ELSE Rank(keep, id_to_index[x])]
      /\ hnsw' = vectors'
      /\ dimension' = dimension
      BY DEF RemoveVector
<1>2. vectors \in Seq(Vec) /\ keep \in SUBSET (1..Len(vectors))
      BY DEF Inv, TypeOK, KeptWithout, Owned, Slots
<1>3. \A x \in Id : x # id /\ id_to_index[x] # 0 => id_to_index[x] \in keep
      <2> TAKE x \in Id
      <2> HAVE x # id /\ id_to_index[x] # 0
      <2>1. id_to_index[x] \in 1..Len(vectors)
            BY DEF Inv, TypeOK, SlotsWellFormed
      <2>2. id_to_index[x] # id_to_index[id]
            BY DEF Inv, SlotsWellFormed
      <2> QED BY <2>1, <2>2 DEF KeptWithout, Owned, Slots
<1>4. \A s \in keep : \E x \in Id : x # id /\ id_to_index[x] = s /\ s # 0
      BY DEF KeptWithout, Owned, Slots
<1> HIDE DEF keep, m
<1>5. /\ Compact(vectors, keep) \in Seq(Vec)
      /\ Len(Compact(vectors, keep)) = m
      /\ m \in 0..Len(vectors)
      /\ \A i \in keep : /\ Rank(keep, i) \in 1..m
                         /\ Compact(vectors, keep)[Rank(keep, i)] = vectors[i]
      /\ \A i, j \in keep : Rank(keep, i) = Rank(keep, j) => i = j
      /\ \A r \in 1..m : \E i \in keep : Rank(keep, i) = r
      BY <1>2, CompactProperties DEF m
<1>6. Len(vectors) \in Nat /\ m \in Nat
      BY <1>2, <1>5
<1>7. \A x \in Id :
          \/ (x = id \/ id_to_index[x] = 0) /\ id_to_index'[x] = 0
          \/ /\ x # id /\ id_to_index[x] # 0
             /\ id_to_index[x] \in keep
             /\ id_to_index'[x] = Rank(keep, id_to_index[x])
             /\ id_to_index'[x] \in 1..m
             /\ vectors'[id_to_index'[x]] = vectors[id_to_index[x]]
      BY <1>1, <1>3, <1>5
<1>8. id_to_index' \in [Id -> Nat]
      BY <1>1, <1>6, <1>7
<1>9. ASSUME NEW x \in Id, NEW y \in Id, id_to_index'[x] = id_to_index'[y]
      PROVE  x = y \/ id_to_index'[x] = 0
      <2>1. CASE id_to_index'[x] # 0
            <3>1. id_to_index[x] = id_to_index[y] /\ id_to_index[x] # 0
                  BY <1>5, <1>6, <1>7, <1>9, <2>1
            <3> QED BY <3>1 DEF Inv, SlotsWellFormed
      <2> QED BY <2>1
<1>10. ASSUME NEW s \in 1..m
       PROVE  \E x \in Id : id_to_index'[x] = s
      <2>1. PICK i \in keep : Rank(keep, i) = s
            BY <1>5
      <2>2. PICK x \in Id : x # id /\ id_to_index[x] = i /\ i # 0
            BY <1>4
      <2> QED BY <1>1, <2>1, <2>2
<1>11. vectors' \in Seq(Vec) /\ Len(vectors') = m
      BY <1>1, <1>5
<1>12. \A x \in Id : (x = id \/ id_to_index[x] = 0) <=> id_to_index'[x] = 0
      BY <1>6, <1>7
<1>13. \A x \in Id : id_to_index'[x] # 0 =>
          /\ id_to_index'[x] \in 1..Len(vectors')
          /\ vectors'[id_to_index'[x]] = vectors[id_to_index[x]]
      BY <1>7, <1>11
<1> QED BY <1>1, <1>8, <1>9, <1>10, <1>11, <1>12, <1>13

\* The compaction of a removal keeps slots and snapshot sound.
LEMMA RemoveVectorInv ==
    ASSUME Inv, NEW id \in Id, RemoveVector(id)
    PROVE  Inv'
<1>1. CASE id_to_index[id] = 0
      BY <1>1 DEF RemoveVector, vars, Inv, TypeOK, SlotsWellFormed,
                  SnapshotIsPrefix, OneDimension, LastSlotOwned, Owned, Slots
<1>2. CASE id_to_index[id] # 0
      <2>1. /\ vectors' \in Seq(Vec)
            /\ id_to_index' \in [Id -> Nat]
            /\ hnsw' = vectors'
            /\ dimension' = dimension
            /\ \A x \in Id : (x = id \/ id_to_index[x] = 0) <=> id_to_index'[x] = 0
            /\ \A x \in Id : id_to_index'[x] # 0 =>
                  /\ id_to_index'[x] \in 1..Len(vectors')
                  /\ vectors'[id_to_index'[x]] = vectors[id_to_index[x]]
            /\ \A x, y \in Id : id_to_index'[x] = id_to_index'[y] =>
                  x = y \/ id_to_index'[x] = 0
            /\ \A s \in 1..Len(vectors') : \E x \in Id : id_to_index'[x] = s
            BY <1>2, RemovalProperty
      <2>2. Len(vectors') \in Nat
            BY <2>1
      <2>3. TypeOK'
            BY <2>1 DEF Inv, TypeOK
      <2>4. SlotsWellFormed'
            BY <2>1, <2>2 DEF SlotsWellFormed
      <2>5. SnapshotIsPrefix'
            BY <2>1, <2>2 DEF SnapshotIsPrefix
      <2>6. OneDimension'
            <3>1. ASSUME NEW s \in 1..Len(vectors')
                  PROVE  DimOf[vectors'[s]] = dimension'
                  <4>1. PICK x \in Id : id_to_index'[x] = s
                        BY <2>1
                  <4>2. id_to_index'[x] # 0 /\ id_to_index[x] # 0
                        BY <2>1, <2>2, <4>1
                  <4>3. vectors'[s] = vectors[id_to_index[x]]
                        BY <2>1, <4>1, <4>2
                  <4>4. id_to_index[x] \in 1..Len(vectors)
                        BY <4>2 DEF Inv, TypeOK, SlotsWellFormed
                  <4> QED BY <2>1, <4>3, <4>4 DEF Inv, OneDimension, Slots
            <3> QED BY <3>1 DEF OneDimension, Slots
      <2>7. LastSlotOwned'
            <3>1. ASSUME vectors' # <<>>
                  PROVE  Len(vectors') \in 1..Len(vectors')
                  BY <2>1, <3>1
            <3> QED BY <2>1, <3>1 DEF LastSlotOwned, Owned, Slots
      <2> QED BY <2>3, <2>4, <2>5, <2>6, <2>7 DEF Inv
<1> QED BY <1>1, <1>2

-----------------------------------------------------------------------------
\* An empty index is sound.
LEMMA InitInv == Init => Inv
<1> SUFFICES ASSUME Init PROVE Inv
    OBVIOUS
<1>1. dimension \in Nat \cup {NoDim}
      BY VectorsAssumption DEF Init, Dims
<1> QED BY <1>1 DEF Init, Inv, TypeOK, SlotsWellFormed, SnapshotIsPrefix,
                    OneDimension, LastSlotOwned, Slots

\* Every operation keeps the invariant.
LEMMA NextInv == Inv /\ [Next]_vars => Inv'
<1> SUFFICES ASSUME Inv, [Next]_vars PROVE Inv'
    OBVIOUS
<1>1. ASSUME UNCHANGED vars PROVE Inv'
      BY <1>1 DEF vars, Inv, TypeOK, SlotsWellFormed, SnapshotIsPrefix,
                  OneDimension, LastSlotOwned, Owned, Slots
<1>2. CASE \E items \in Batches : AddVectors(items)
      BY <1>2, AddVectorsInv, VectorsAssumption
<1>3. ASSUME NEW id \in Id, NEW vec \in Vec, AddVector(id, vec) PROVE Inv'
      <2>1. <<[id |-> id, vec |-> vec]>> \in Seq(Item)
            BY DEF Item
      <2> QED BY <1>1, <1>3, <2>1, AddVectorIsBatch, AddVectorsInv DEF Inv
<1>4. CASE \E id \in Id : RemoveVector(id)
      BY <1>4, RemoveVectorInv
<1>5. CASE Optimize
      <2>1. /\ hnsw' = Build(vectors)
            /\ vectors' = vectors /\ id_to_index' = id_to_index /\ dimension' = dimension
            BY <1>5 DEF Optimize
      <2>2. vectors \in Seq(Vec) /\ Len(vectors) \in Nat
            BY DEF Inv, TypeOK
      <2>3. hnsw' = vectors
            BY <2>1, <2>2, BuildIsSnapshot
      <2> QED BY <2>1, <2>2, <2>3 DEF Inv, TypeOK, SlotsWellFormed, SnapshotIsPrefix,
                  OneDimension, LastSlotOwned, Owned, Slots
<1>6. CASE Clear
      BY <1>6 DEF Clear, Inv, TypeOK, SlotsWellFormed, SnapshotIsPrefix,
                  OneDimension, LastSlotOwned, Slots
<1> QED BY <1>1, <1>2, <1>3, <1>4, <1>5, <1>6 DEF Next

\* The slots, the snapshot, the dimension and the types stay as the code needs
\* them, in every state and for any number of identifiers, vectors and slots.
THEOREM Invariance == Spec => []Inv
<1> QED BY InitInv, NextInv, PTL DEF Spec

\* Each conjunct the model checker tests, as a theorem of its own.  The array,
\* the graph, the map and the dimension keep their types.
THEOREM TypesAlwaysRight == Spec => []TypeOK
<1>1. Inv => TypeOK
      BY DEF Inv
<1> QED BY <1>1, Invariance, PTL

\* All vectors that distance() may compare have one dimension.
THEOREM DimensionAlwaysOne == Spec => []OneDimension
<1>1. Inv => OneDimension
      BY DEF Inv
<1> QED BY <1>1, Invariance, PTL

\* search and get_all_vectors always find well-formed slots.
THEOREM SlotsAlwaysWellFormed == Spec => []SlotsWellFormed
<1>1. Inv => SlotsWellFormed
      BY DEF Inv
<1> QED BY <1>1, Invariance, PTL

\* The names in the graph always mean the current slots.
THEOREM SnapshotAlwaysPrefix == Spec => []SnapshotIsPrefix
<1>1. Inv => SnapshotIsPrefix
      BY DEF Inv
<1> QED BY <1>1, Invariance, PTL

-----------------------------------------------------------------------------
(***************************************************************************)
(* The refinement.  Contract!X is X of VectorIndex with the state mapped.  *)
(***************************************************************************)

\* Under Inv an identifier is live iff it has a slot.
LEMMA LiveIffSlot ==
    ASSUME Inv
    PROVE  \A id \in Id : liveVectors[id] # NoVec <=> id_to_index[id] # 0
<1> TAKE id \in Id
<1>1. id_to_index[id] # 0 => id_to_index[id] \in 1..Len(vectors)
      BY DEF Inv, TypeOK, SlotsWellFormed
<1>2. id_to_index[id] # 0 => vectors[id_to_index[id]] \in Vec
      BY <1>1 DEF Inv, TypeOK
<1> QED BY <1>2, VectorsAssumption DEF liveVectors

\* When the graph is the whole array, everything live is visible, and there is
\* a graph iff something is live.
LEMMA FreshSnapshot ==
    Inv /\ hnsw = vectors =>
        /\ visibleIds = Contract!LiveIds(liveVectors)
        /\ hnsw # <<>> <=> Contract!LiveIds(liveVectors) # {}
<1> SUFFICES ASSUME Inv, hnsw = vectors
             PROVE  /\ visibleIds = Contract!LiveIds(liveVectors)
                    /\ hnsw # <<>> <=> Contract!LiveIds(liveVectors) # {}
    OBVIOUS
<1>1. ASSUME NEW id \in Id
      PROVE  id_to_index[id] # 0 <=> id_to_index[id] \in 1..Len(hnsw)
      <2>1. /\ id_to_index[id] \in Nat /\ Len(hnsw) \in Nat
            /\ id_to_index[id] <= Len(hnsw)
            BY DEF Inv, TypeOK, SlotsWellFormed
      <2> QED BY <2>1
<1>2. Contract!LiveIds(liveVectors) = {id \in Id : id_to_index[id] # 0}
      BY LiveIffSlot DEF Contract!LiveIds
<1>3. visibleIds = Contract!LiveIds(liveVectors)
      BY <1>1, <1>2 DEF visibleIds
<1>4. hnsw # <<>> => \E id \in Id : id_to_index[id] # 0
      <2> SUFFICES ASSUME hnsw # <<>> PROVE \E id \in Id : id_to_index[id] # 0
          OBVIOUS
      <2>1. Len(vectors) # 0
            BY DEF Inv, TypeOK
      <2>2. PICK id \in Id : id_to_index[id] = Len(vectors)
            BY DEF Inv, LastSlotOwned, Owned
      <2> QED BY <2>1, <2>2
<1>5. hnsw = <<>> => \A id \in Id : id_to_index[id] = 0
      <2> SUFFICES ASSUME hnsw = <<>>, NEW id \in Id PROVE id_to_index[id] = 0
          OBVIOUS
      <2>1. Len(hnsw) = 0
            OBVIOUS
      <2> QED BY <1>1, <2>1
<1> QED BY <1>2, <1>3, <1>4, <1>5

\* An empty index is an empty collection.
LEMMA RefinesInit == Init => Contract!IndexInit
<1> SUFFICES ASSUME Init PROVE Contract!IndexInit
    OBVIOUS
<1>1. liveVectors = [id \in Id |-> NoVec] /\ visibleIds = {} /\ ~(hnsw # <<>>)
      BY DEF Init, liveVectors, visibleIds
<1> QED BY <1>1 DEF Init, Contract!IndexInit, Dims, Contract!Dims

\* A batch adds to the collection what the contract allows.
LEMMA RefinesAddVectors ==
    ASSUME Inv, Inv', NEW items \in Seq(Item), AddVectors(items)
    PROVE  \/ Contract!AddVectorsOk(items)
           \/ Contract!AddVectorsErr(items)
<1>1. PICK n \in 0..Len(items) :
          /\ TakesUpTo(dimension, items, n)
          /\ vectors' = vectors \o [i \in 1..n |-> items[i].vec]
          /\ id_to_index' =
                [id \in Id |-> IF id \in IdsIn(items, n)
                               THEN Len(vectors) + LastFor(items, n, id)
                               ELSE id_to_index[id]]
          /\ hnsw' = IF n = Len(items) THEN Build(vectors') ELSE hnsw
      BY DEF AddVectors
<1>2. /\ vectors' \in Seq(Vec)
      /\ Len(vectors') = Len(vectors) + n
      /\ \A s \in 1..Len(vectors) : vectors'[s] = vectors[s]
      /\ \A i \in 1..n : vectors'[Len(vectors) + i] = items[i].vec
      BY <1>1, PushProperty DEF Inv
<1>3. Len(vectors) \in Nat /\ n \in Nat
      BY DEF Inv, TypeOK
<1>4. \A id \in IdsIn(items, n) : LastFor(items, n, id) \in 1..n
      BY LastForProperty
<1>5. liveVectors' = Contract!LiveWith(items, n)
      <2>1. ASSUME NEW id \in Id
            PROVE  liveVectors'[id] = IF id \in IdsIn(items, n)
                                      THEN items[LastFor(items, n, id)].vec
                                      ELSE liveVectors[id]
            <3>1. CASE id \in IdsIn(items, n)
                  <4>1. id_to_index'[id] = Len(vectors) + LastFor(items, n, id)
                        BY <1>1, <3>1
                  <4>2. id_to_index'[id] # 0
                        BY <1>3, <1>4, <3>1, <4>1
                  <4>3. vectors'[id_to_index'[id]] = items[LastFor(items, n, id)].vec
                        BY <1>2, <1>4, <3>1, <4>1
                  <4> QED BY <3>1, <4>2, <4>3 DEF liveVectors
            <3>2. CASE id \notin IdsIn(items, n)
                  <4>1. id_to_index'[id] = id_to_index[id]
                        BY <1>1, <3>2
                  <4>2. id_to_index[id] # 0 => id_to_index[id] \in 1..Len(vectors)
                        BY <1>3 DEF Inv, TypeOK, SlotsWellFormed
                  <4> QED BY <1>2, <3>2, <4>1, <4>2 DEF liveVectors
            <3> QED BY <3>1, <3>2
      <2> QED BY <2>1 DEF liveVectors, Contract!LiveWith, Contract!IdsIn, IdsIn,
                          Contract!LastFor, LastFor
<1>6. dimension' = Contract!DimAfter(dimension, items)
      BY DEF AddVectors, DimAfter, Contract!DimAfter
<1>7. Contract!TakesUpTo(dimension, items, n)
      BY <1>1 DEF TakesUpTo, Contract!TakesUpTo, DimAfter, Contract!DimAfter
<1>8. CASE n = Len(items)
      <2>1. Len(vectors) <= Len(vectors')
            BY <1>2, <1>3
      <2>2. hnsw' = vectors'
            BY <1>1, <1>2, <1>8, <2>1, BuildIsSnapshot
      <2>3. /\ visibleIds' = Contract!LiveIds(liveVectors')
            /\ hnsw' # <<>> <=> Contract!LiveIds(liveVectors') # {}
            <3>1. (Inv /\ hnsw = vectors =>
                      /\ visibleIds = Contract!LiveIds(liveVectors)
                      /\ hnsw # <<>> <=> Contract!LiveIds(liveVectors) # {})'
                  BY FreshSnapshot, PTL
            <3> QED BY <2>2, <3>1
      <2>4. hnsw # <<>> => hnsw' # <<>>
            <3>1. Len(hnsw) <= Len(hnsw') /\ Len(hnsw) \in Nat /\ Len(hnsw') \in Nat
                  BY <1>2, <1>3, <2>2 DEF Inv, TypeOK, SnapshotIsPrefix
            <3> QED BY <3>1 DEF Inv, TypeOK
      <2>5. Contract!Rebuilt
            BY <2>3, <2>4 DEF Contract!Rebuilt
      <2> QED BY <1>5, <1>6, <1>7, <1>8, <2>5 DEF Contract!AddVectorsOk
<1>9. CASE n # Len(items)
      <2>1. hnsw' = hnsw /\ n < Len(items)
            BY <1>1, <1>9
      <2>2. visibleIds' = visibleIds \ Contract!IdsIn(items, n)
            <3>1. Len(hnsw) \in 0..Len(vectors)
                  BY DEF Inv, TypeOK, SnapshotIsPrefix
            <3>2. \A id \in Id : id \in IdsIn(items, n) =>
                      id_to_index'[id] \notin 1..Len(hnsw')
                  BY <1>1, <1>3, <1>4, <2>1, <3>1
            <3>3. \A id \in Id : id \notin IdsIn(items, n) =>
                      id_to_index'[id] = id_to_index[id]
                  BY <1>1
            <3> QED BY <2>1, <3>2, <3>3 DEF visibleIds, IdsIn, Contract!IdsIn
      <2> QED BY <1>5, <1>6, <1>7, <2>1, <2>2 DEF Contract!AddVectorsErr
<1> QED BY <1>8, <1>9

\* So does a single vector.
LEMMA RefinesAddVector ==
    ASSUME Inv, Inv', NEW id \in Id, NEW vec \in Vec, AddVector(id, vec)
    PROVE  \/ Contract!AddVectorOk(id, vec)
           \/ Contract!AddVectorErr(vec)
<1> DEFINE items == <<[id |-> id, vec |-> vec]>>
<1>1. CASE UNCHANGED vars /\ dimension # NoDim /\ DimOf[vec] # dimension
      <2>1. liveVectors' = liveVectors /\ visibleIds' = visibleIds
            BY <1>1 DEF vars, liveVectors, visibleIds
      <2> QED BY <1>1, <2>1 DEF vars, Contract!AddVectorErr, Contract!ivars
<1>2. CASE AddVectors(items) /\ TakesUpTo(dimension, items, 1)
      <2>1. items \in Seq(Item) /\ Len(items) = 1
            BY DEF Item
      <2>2. Contract!AddVectorsOk(items) \/ Contract!AddVectorsErr(items)
            BY <1>2, <2>1, RefinesAddVectors
      <2>3. ~Contract!AddVectorsErr(items)
            <3> SUFFICES ASSUME NEW n \in 0..Len(items), n < Len(items),
                                Contract!TakesUpTo(dimension, items, n)
                         PROVE  FALSE
                BY DEF Contract!AddVectorsErr
            <3>1. n = 0
                  BY <2>1
            <3>2. DimOf[items[1].vec] # Contract!DimAfter(dimension, items)
                  BY <2>1, <3>1 DEF Contract!TakesUpTo
            <3>3. DimOf[items[1].vec] = DimAfter(dimension, items)
                  BY <1>2 DEF TakesUpTo
            <3> QED BY <3>2, <3>3 DEF DimAfter, Contract!DimAfter
      <2> QED BY <2>2, <2>3 DEF Contract!AddVectorOk
<1> QED BY <1>1, <1>2, AddVectorIsBatch DEF Inv

\* A removal takes one identifier out of the collection.
LEMMA RefinesRemoveVector ==
    ASSUME Inv, Inv', NEW id \in Id, RemoveVector(id)
    PROVE  Contract!RemoveVector(id)
<1>1. CASE id_to_index[id] = 0
      <2>1. liveVectors' = liveVectors /\ visibleIds' = visibleIds
            BY <1>1 DEF RemoveVector, vars, liveVectors, visibleIds
      <2>2. liveVectors[id] = NoVec
            BY <1>1, LiveIffSlot
      <2> QED BY <1>1, <2>1, <2>2
              DEF RemoveVector, vars, Contract!RemoveVector, Contract!ivars
<1>2. CASE id_to_index[id] # 0
      <2>1. /\ hnsw' = vectors'
            /\ dimension' = dimension
            /\ id_to_index' \in [Id -> Nat]
            /\ \A x \in Id : (x = id \/ id_to_index[x] = 0) <=> id_to_index'[x] = 0
            /\ \A x \in Id : id_to_index'[x] # 0 =>
                  vectors'[id_to_index'[x]] = vectors[id_to_index[x]]
            BY <1>2, RemovalProperty
      <2>2. liveVectors[id] # NoVec
            BY <1>2, LiveIffSlot
      <2>3. liveVectors' = [liveVectors EXCEPT ![id] = NoVec]
            BY <2>1 DEF liveVectors
      <2>4. (Inv /\ hnsw = vectors =>
                /\ visibleIds = Contract!LiveIds(liveVectors)
                /\ hnsw # <<>> <=> Contract!LiveIds(liveVectors) # {})'
            BY FreshSnapshot, PTL
      <2>5. /\ visibleIds' = Contract!LiveIds(liveVectors')
            /\ (hnsw # <<>>)' = (Contract!LiveIds(liveVectors') # {})
            BY <2>1, <2>4
      <2> QED BY <2>1, <2>2, <2>3, <2>5 DEF Contract!RemoveVector
<1> QED BY <1>1, <1>2

\* Rebuilding the graph leaves the collection alone.
LEMMA RefinesOptimize ==
    ASSUME Inv, Inv', Optimize
    PROVE  Contract!Optimize
<1>1. /\ hnsw' = Build(vectors)
      /\ vectors' = vectors /\ id_to_index' = id_to_index /\ dimension' = dimension
      BY DEF Optimize
<1>2. vectors \in Seq(Vec) /\ Len(vectors) \in Nat
      BY DEF Inv, TypeOK
<1>3. hnsw' = vectors'
      BY <1>1, <1>2, BuildIsSnapshot
<1>4. liveVectors' = liveVectors
      BY <1>1 DEF liveVectors
<1>5. (Inv /\ hnsw = vectors =>
          /\ visibleIds = Contract!LiveIds(liveVectors)
          /\ hnsw # <<>> <=> Contract!LiveIds(liveVectors) # {})'
      BY FreshSnapshot, PTL
<1>6. hnsw # <<>> => hnsw' # <<>>
      BY <1>1, <1>3 DEF Inv, TypeOK, SnapshotIsPrefix
<1> QED BY <1>1, <1>3, <1>4, <1>5, <1>6 DEF Contract!Optimize, Contract!Rebuilt

\* Clearing empties the collection.
LEMMA RefinesClear == Clear => Contract!Clear
<1> SUFFICES ASSUME Clear PROVE Contract!Clear
    OBVIOUS
<1>1. liveVectors' = [id \in Id |-> NoVec] /\ visibleIds' = {} /\ ~(hnsw' # <<>>)
      BY DEF Clear, liveVectors, visibleIds
<1> QED BY <1>1 DEF Clear, Contract!Clear

\* Every step of the index is a step of the contract or none.
LEMMA RefinesNext == Inv /\ Inv' /\ [Next]_vars => [Contract!IndexNext]_Contract!ivars
<1> SUFFICES ASSUME Inv, Inv', [Next]_vars
             PROVE  [Contract!IndexNext]_Contract!ivars
    OBVIOUS
<1>1. CASE UNCHANGED vars
      BY <1>1 DEF vars, Contract!ivars, liveVectors, visibleIds
<1>2. CASE \E items \in Batches : AddVectors(items)
      BY <1>2, RefinesAddVectors, VectorsAssumption DEF Contract!IndexNext
<1>3. CASE \E id \in Id, vec \in Vec : AddVector(id, vec)
      BY <1>3, RefinesAddVector DEF Contract!IndexNext
<1>4. CASE \E id \in Id : RemoveVector(id)
      BY <1>4, RefinesRemoveVector DEF Contract!IndexNext
<1>5. CASE Optimize
      BY <1>5, RefinesOptimize DEF Contract!IndexNext
<1>6. CASE Clear
      BY <1>6, RefinesClear DEF Contract!IndexNext
<1> QED BY <1>1, <1>2, <1>3, <1>4, <1>5, <1>6 DEF Next

\* Arrays, slots, ghosts and snapshots are invisible to callers: every
\* behaviour of the HNSW index is one its contract allows.
THEOREM Refinement == Spec => ImplementsContract
<1> QED BY RefinesInit, RefinesNext, Invariance, InitInv, NextInv, PTL
        DEF Spec, ImplementsContract, Contract!IndexSpec

\* A removal that finds its identifier leaves no ghost and an up-to-date graph.
THEOREM RemovalAlwaysCleansUp == Spec => RemovalCleansUp
<1> DEFINE Clean(id) == (id_to_index[id] # 0 /\ id_to_index'[id] = 0 /\ vectors' # <<>>) =>
                            Ghosts' = {} /\ hnsw' = vectors'
<1>1. ASSUME Inv, [Next]_vars, NEW id \in Id,
             id_to_index[id] # 0, id_to_index'[id] = 0, vectors' # <<>>
      PROVE  Ghosts' = {} /\ hnsw' = vectors'
      <2>1. CASE UNCHANGED vars
            BY <1>1, <2>1 DEF vars
      <2>2. ASSUME NEW items \in Seq(Item), AddVectors(items) PROVE FALSE
            <3>1. PICK n \in 0..Len(items) :
                      id_to_index' =
                          [x \in Id |-> IF x \in IdsIn(items, n)
                                        THEN Len(vectors) + LastFor(items, n, x)
                                        ELSE id_to_index[x]]
                  BY <2>2 DEF AddVectors
            <3>2. id \in IdsIn(items, n) => LastFor(items, n, id) \in 1..n
                  BY LastForProperty
            <3>3. Len(vectors) \in Nat
                  BY <1>1 DEF Inv, TypeOK
            <3> QED BY <1>1, <3>1, <3>2, <3>3
      <2>3. ASSUME NEW x \in Id, NEW vec \in Vec, AddVector(x, vec) PROVE FALSE
            <3>1. <<[id |-> x, vec |-> vec]>> \in Seq(Item)
                  BY DEF Item
            <3> QED BY <1>1, <2>3, <2>2, <3>1, AddVectorIsBatch DEF Inv, vars
      <2>4. ASSUME NEW x \in Id, RemoveVector(x)
            PROVE  Ghosts' = {} /\ hnsw' = vectors'
            <3>1. id_to_index[x] # 0
                  BY <1>1, <2>4 DEF RemoveVector, vars
            <3>2. /\ hnsw' = vectors'
                  /\ \A s \in 1..Len(vectors') : \E y \in Id : id_to_index'[y] = s
                  BY <1>1, <2>4, <3>1, RemovalProperty
            <3> QED BY <3>2 DEF Ghosts, Owned, Slots
      <2>5. ~Optimize
            BY <1>1 DEF Optimize
      <2>6. ~Clear
            BY <1>1 DEF Clear
      <2> QED BY <1>1, <2>1, <2>2, <2>3, <2>4, <2>5, <2>6, VectorsAssumption DEF Next
<1>2. Inv /\ [Next]_vars => [\A id \in Id : Clean(id)]_vars
      BY <1>1
<1> QED BY <1>2, Invariance, PTL DEF Spec, RemovalCleansUp

-----------------------------------------------------------------------------
(* The document store and its restores (module DocumentStore).             *)

\* What a database or a file holds under the keys of documents are documents.
DocsSound(d) == \A k \in DocId \cap DOMAIN d : d[k] \in DocumentRecord

\* A restore under way has the documents of the file before it or behind it:
\* behind it, once the tree was emptied, in the database and nothing else there.
RestoreSound(r) ==
    /\ DOMAIN r = {"left", "all", "cleared"}
    /\ DocsSound(r.all)
    /\ \A k \in DOMAIN r.left : k \in DOMAIN r.all /\ r.left[k] = r.all[k]
    /\ ~ r.cleared => DocId \cap DOMAIN r.all \subseteq DOMAIN r.left
    /\ r.cleared =>
          \A k \in DocId : /\ k \in DOMAIN db => k \in DOMAIN r.all /\ db[k] = r.all[k]
                           /\ k \in DOMAIN r.all => k \in DOMAIN r.left \/ k \in DOMAIN db

StoreInv ==
    /\ db \in past
    /\ \A d \in past : DocsSound(d)
    /\ \A p \in DOMAIN files : DocsSound(files[p])
    /\ restored # None => restoring = None
    /\ restoring # None => RestoreSound(restoring)
    /\ second \in Nat \ {0} /\ DOMAIN begun \subseteq Nat \ {0}
    /\ RestoreIsSafe

LEMMA StoreInitially == StoreInit => StoreInv
<1> SUFFICES ASSUME StoreInit PROVE StoreInv
  OBVIOUS
<1>1. DOMAIN << >> = {}
  OBVIOUS
<1>2. /\ db \in past /\ \A d \in past : DocsSound(d)
      /\ \A p \in DOMAIN files : DocsSound(files[p])
      /\ restored = None /\ restoring = None
      /\ second \in Nat \ {0} /\ DOMAIN begun = {}
  BY <1>1 DEF StoreInit, DocsSound
<1> QED BY <1>2 DEF StoreInv, RestoreIsSafe, RestoreIsDurable, RestoreCanBeUndone

\* What is put together from sound parts is sound, and so is what is left of it.
LEMMA SoundParts ==
  ASSUME NEW d, DocsSound(d)
  PROVE  /\ \A e : DocsSound(e) => DocsSound(With(d, e))
         /\ \A ks : DocsSound(Without(d, ks))
  BY DEF DocsSound, With, Without

LEMMA FileSound ==
  ASSUME NEW d, DocsSound(d)
  PROVE  DocsSound(Contents(d))
  BY DEF DocsSound, Contents, Without

\* A write leaves the store sound when it writes documents.
LEMMA WriteIsSafe ==
  ASSUME StoreInv, NEW d, DocsSound(d), Write(d)
  PROVE  StoreInv'
<1>1. /\ db' = d /\ past' = past \cup {d} /\ restored' = None
      /\ UNCHANGED <<files, restoring, second, begun>> /\ restoring = None
  BY DEF Write, Writable
<1>2. (\A e \in past : DocsSound(e))' /\ (\A p \in DOMAIN files : DocsSound(files[p]))'
  BY <1>1 DEF StoreInv, DocsSound
<1>3. RestoreIsSafe'
  BY <1>1 DEF StoreInv, RestoreIsSafe, RestoreIsDurable, RestoreCanBeUndone
<1> QED BY <1>1, <1>2, <1>3 DEF StoreInv

\* The writes of documents write documents.
LEMMA WritesAreSafe ==
  ASSUME StoreInv,
         \/ \E id \in DocId, d \in Document : InsertDocument(id, d) \/ UpdateDocument(id, d)
         \/ \E d \in Document : InsertFresh(d)
         \/ \E d \in Document : BatchInsertDocuments(DocId, d)
         \/ \E id \in DocId : DeleteDocument(id)
         \/ \E id \in DocId, d \in Document : UpdateDocumentMetadata(id, d.metadata)
         \/ ClearStore
         \/ \E k \in ForeignKey \cup TreeKey, value \in {"value", Empty} : WriteForeign(k, value)
  PROVE  StoreInv'
<1>1. DocsSound(db)
  BY DEF StoreInv
<1>2. ASSUME NEW d \in Document
      PROVE  /\ d.content \in BOOLEAN /\ d.title \in BOOLEAN \cup {None}
             /\ d.vector \in (-10..10) \cup {None} /\ d.metadata \in Metadata
             /\ Record(d) \in DocumentRecord
  <2>1. d \in GivenDocument
    BY StoreAssumption
  <2>2. /\ d.content \in BOOLEAN /\ d.title \in BOOLEAN \cup {None}
        /\ d.vector \in (-10..10) \cup {None} /\ d.metadata \in Metadata
    BY <2>1 DEF GivenDocument
  <2> QED BY <2>1, <2>2 DEF Record, DocumentRecord, GivenDocument
<1>3. ASSUME NEW id \in DocId, NEW d \in Document, InsertDocument(id, d) PROVE StoreInv'
  <2>1. DocsSound([k \in {id} |-> Record(d)])
    BY <1>2 DEF DocsSound
  <2> QED BY <1>1, <1>3, <2>1, SoundParts, WriteIsSafe DEF InsertDocument
<1>4. ASSUME NEW d \in Document, BatchInsertDocuments(DocId, d) PROVE StoreInv'
  <2>1. DocsSound([k \in DocId |-> Record(d)])
    BY <1>2 DEF DocsSound
  <2> QED BY <1>1, <1>4, <2>1, SoundParts, WriteIsSafe DEF BatchInsertDocuments
<1>5. ASSUME NEW id \in DocId, NEW d \in Document, UpdateDocument(id, d) PROVE StoreInv'
  <2> DEFINE new == [content |-> d.content,
                     title |-> IF d.title = None THEN db[id].title ELSE d.title,
                     vector |-> IF d.vector = None THEN db[id].vector ELSE d.vector,
                     metadata |-> d.metadata]
  <2>1. id \in DOMAIN db /\ Write([db EXCEPT ![id] = new])
    BY <1>5 DEF UpdateDocument
  <2>2. db[id] \in DocumentRecord
    BY <1>1, <2>1 DEF DocsSound
  <2>3. db[id].title \in BOOLEAN /\ db[id].vector \in (-10..10) \cup {None}
    BY <2>2 DEF DocumentRecord
  <2>4. new \in DocumentRecord
    BY <1>2, <2>3 DEF DocumentRecord
  <2> HIDE DEF new
  <2>5. DocsSound([db EXCEPT ![id] = new])
    BY <1>1, <2>4 DEF DocsSound
  <2> QED BY <2>1, <2>5, WriteIsSafe
<1>6. ASSUME NEW id \in DocId, NEW d \in Document, UpdateDocumentMetadata(id, d.metadata)
      PROVE  StoreInv'
  <2> DEFINE new == [db[id] EXCEPT !.metadata = d.metadata]
  <2>1. id \in DOMAIN db /\ Write([db EXCEPT ![id] = new])
    BY <1>6 DEF UpdateDocumentMetadata
  <2>2. db[id] \in DocumentRecord
    BY <1>1, <2>1 DEF DocsSound
  <2>3. new \in DocumentRecord
    BY <1>2, <2>2 DEF DocumentRecord
  <2> HIDE DEF new
  <2>4. DocsSound([db EXCEPT ![id] = new])
    BY <1>1, <2>3 DEF DocsSound
  <2> QED BY <2>1, <2>4, WriteIsSafe
<1>7. ASSUME NEW ks, Write(Without(db, ks)) PROVE StoreInv'
  BY <1>1, <1>7, SoundParts, WriteIsSafe
<1>8. ASSUME NEW k \in ForeignKey \cup TreeKey, NEW value, WriteForeign(k, value)
      PROVE  StoreInv'
  <2>1. k \notin DocId
    BY StoreAssumption
  <2>2. DocsSound([x \in {k} |-> value])
    BY <2>1 DEF DocsSound
  <2> QED BY <1>1, <1>8, <2>2, SoundParts, WriteIsSafe DEF WriteForeign
<1> QED BY <1>3, <1>4, <1>5, <1>6, <1>7, <1>8
        DEF InsertFresh, DeleteDocument, ClearStore, Cleared

\* What comes to the disk, and what a crash leaves, are databases it could fall
\* back to before.
LEMMA DiskIsSafe ==
  ASSUME StoreInv, OptimizeStore \/ BackgroundFlush \/ Crash
  PROVE  StoreInv'
<1>1. /\ db \in past /\ \A d \in past : DocsSound(d)
      /\ restored # None => \A d \in past : DocumentsOf(d) = restored
  BY DEF StoreInv, RestoreIsSafe, RestoreIsDurable
<1>2. CASE OptimizeStore
  <2> DEFINE cleaned == Without(db, {k \in DOMAIN db : db[k] = Empty})
  <2>1. /\ db' = cleaned /\ past' = {db, cleaned} /\ restoring = None
        /\ UNCHANGED <<files, restoring, second, begun, restored>>
    BY <1>2 DEF OptimizeStore, Writable
  <2>2. /\ DOMAIN cleaned = {k \in DOMAIN db : db[k] # Empty}
        /\ \A k \in DOMAIN cleaned : cleaned[k] = db[k]
    BY DEF Without
  <2> HIDE DEF cleaned
  <2>3. \A k \in DocId \cap DOMAIN db : db[k] # Empty
    BY <1>1, StoreAssumption DEF DocsSound
  <2>4. DocId \cap DOMAIN cleaned = DocId \cap DOMAIN db
    BY <2>2, <2>3
  <2>5. DocsSound(cleaned) /\ DocumentsOf(cleaned) = DocumentsOf(db)
    BY <1>1, <2>2, <2>4 DEF DocsSound, DocumentsOf
  <2>6. /\ (\A e \in past : DocsSound(e))' /\ (\A p \in DOMAIN files : DocsSound(files[p]))'
    BY <1>1, <2>1, <2>5 DEF StoreInv, DocsSound
  <2>7. RestoreIsDurable'
    BY <1>1, <2>1, <2>5 DEF RestoreIsDurable, DocumentsOf
  <2>8. RestoreCanBeUndone'
    BY <2>1 DEF StoreInv, RestoreIsSafe, RestoreCanBeUndone
  <2> QED BY <2>1, <2>6, <2>7, <2>8 DEF StoreInv, RestoreIsSafe
<1>3. CASE BackgroundFlush \/ Crash
  <2>1. /\ \E d \in past : db' = d /\ past' = {d}
        /\ UNCHANGED <<files, second, begun, restored>>
        /\ restoring' = None \/ (restoring' = restoring /\ db' = db)
    BY <1>1, <1>3 DEF BackgroundFlush, Crash
  <2>2. /\ db' \in past' /\ past' \subseteq past
    BY <2>1
  <2>3. /\ (\A e \in past : DocsSound(e))' /\ (\A p \in DOMAIN files : DocsSound(files[p]))'
    BY <1>1, <2>1, <2>2 DEF StoreInv, DocsSound
  <2>4. (restored # None => restoring = None)'
    BY <2>1 DEF StoreInv
  <2>5. (restoring # None => RestoreSound(restoring))'
    BY <2>1 DEF StoreInv, RestoreSound, DocsSound
  <2>6. RestoreIsDurable'
    BY <1>1, <2>1, <2>2 DEF RestoreIsDurable, DocumentsOf
  <2>7. RestoreCanBeUndone'
    BY <2>1 DEF StoreInv, RestoreIsSafe, RestoreCanBeUndone
  <2> QED BY <2>1, <2>2, <2>3, <2>4, <2>5, <2>6, <2>7 DEF StoreInv, RestoreIsSafe
<1> QED BY <1>2, <1>3

LEMMA BackupIsSafe ==
  ASSUME StoreInv, Backup
  PROVE  StoreInv'
<1>1. /\ files' = With(files, [p \in {Given} |-> Contents(db)])
      /\ UNCHANGED <<db, past, restoring, second, begun, restored>> /\ restoring = None
  BY DEF Backup, Writable
<1>2. /\ DOMAIN files' = DOMAIN files \cup {Given}
      /\ files'[Given] = Contents(db)
      /\ \A p \in DOMAIN files : p # Given => files'[p] = files[p]
  BY <1>1 DEF With
<1>3. DocsSound(Contents(db))
  BY FileSound DEF StoreInv
<1>4. \A p \in DOMAIN files' : DocsSound(files'[p])
  BY <1>2, <1>3 DEF StoreInv
<1>5. Given \notin DOMAIN begun
  BY DEF StoreInv, Given
<1>6. RestoreCanBeUndone'
  BY <1>1, <1>2, <1>5 DEF StoreInv, RestoreIsSafe, RestoreCanBeUndone
<1>7. RestoreIsDurable' /\ (\A d \in past : DocsSound(d))'
  BY <1>1 DEF StoreInv, RestoreIsSafe, RestoreIsDurable, DocumentsOf, DocsSound
<1>8. (\A p \in DOMAIN files : DocsSound(files[p]))'
  BY <1>4 DEF DocsSound
<1> QED BY <1>1, <1>6, <1>7, <1>8 DEF StoreInv, RestoreIsSafe

LEMMA RestoreBegins ==
  ASSUME StoreInv, NEW path \in Path, BeginRestore(path)
  PROVE  StoreInv'
<1>1. /\ path \in DOMAIN files /\ restored' = None /\ UNCHANGED <<db, past, second>>
      /\ restoring' = [left |-> files[path], all |-> files[path], cleared |-> FALSE]
  BY DEF BeginRestore
<1>2. DocsSound(files[path]) /\ DocsSound(db) /\ DocsSound(Contents(db))
      /\ second \in Nat \ {0} /\ RestoreCanBeUndone
  BY <1>1, FileSound DEF StoreInv, RestoreIsSafe
<1>3. RestoreSound(restoring)'
  BY <1>1, <1>2 DEF RestoreSound, DocsSound
<1>4. /\ \A p \in DOMAIN files' : DocsSound(files'[p])
      /\ \A s \in DOMAIN begun' : s \in DOMAIN files' /\ files'[s] = begun'[s]
      /\ DOMAIN begun' \subseteq Nat \ {0}
  <2>1. CASE /\ files' = With(files, [p \in {second} |-> Contents(db)])
             /\ begun' = With(begun, [s \in {second} |-> Contents(db)])
    <3>1. /\ DOMAIN files' = DOMAIN files \cup {second} /\ files'[second] = Contents(db)
          /\ \A p \in DOMAIN files : p # second => files'[p] = files[p]
      BY <2>1 DEF With
    <3>2. /\ DOMAIN begun' = DOMAIN begun \cup {second} /\ begun'[second] = Contents(db)
          /\ \A s \in DOMAIN begun : s # second => begun'[s] = begun[s]
      BY <2>1 DEF With
    <3>3. \A p \in DOMAIN files' : DocsSound(files'[p])
      BY <1>2, <3>1 DEF StoreInv
    <3> QED BY <1>2, <3>1, <3>2, <3>3 DEF StoreInv, RestoreCanBeUndone
  <2>2. CASE begun' = Without(begun, {second}) /\ UNCHANGED files
    <3>1. /\ DOMAIN begun' = DOMAIN begun \ {second}
          /\ \A s \in DOMAIN begun' : begun'[s] = begun[s]
      BY <2>2 DEF Without
    <3> QED BY <1>2, <2>2, <3>1 DEF StoreInv, RestoreCanBeUndone
  <2> QED BY <2>1, <2>2 DEF BeginRestore
<1>5. RestoreCanBeUndone' /\ RestoreIsDurable'
  BY <1>1, <1>4 DEF RestoreCanBeUndone, RestoreIsDurable
<1>6. (\A p \in DOMAIN files : DocsSound(files[p]))' /\ (\A d \in past : DocsSound(d))'
  BY <1>1, <1>4 DEF StoreInv, DocsSound
<1> QED BY <1>1, <1>2, <1>3, <1>4, <1>5, <1>6 DEF StoreInv, RestoreIsSafe

\* A step of a restore before it returns: the database becomes d.
LEMMA RestoreGoesOn ==
  ASSUME StoreInv, restoring # None, NEW d, DocsSound(d),
         db' = d, past' = past \cup {d}, RestoreSound(restoring)',
         UNCHANGED <<files, second, begun, restored>>
  PROVE  StoreInv'
<1>1. restored = None
  BY DEF StoreInv
<1>2. (\A e \in past : DocsSound(e))' /\ (\A p \in DOMAIN files : DocsSound(files[p]))'
  BY DEF StoreInv, DocsSound
<1>3. RestoreIsSafe'
  BY <1>1 DEF StoreInv, RestoreIsSafe, RestoreIsDurable, RestoreCanBeUndone
<1> QED BY <1>1, <1>2, <1>3 DEF StoreInv

LEMMA RestoreClears ==
  ASSUME StoreInv, ClearForRestore
  PROVE  StoreInv'
<1>1. /\ restoring # None /\ ~ restoring.cleared /\ db' = Cleared(db)
      /\ past' = past \cup {Cleared(db)} /\ restoring' = [restoring EXCEPT !.cleared = TRUE]
      /\ UNCHANGED <<files, second, begun, restored>>
  BY DEF ClearForRestore
<1>2. RestoreSound(restoring) /\ DocsSound(db)
  BY <1>1 DEF StoreInv
<1>3. DocsSound(Cleared(db))
  BY <1>2, SoundParts DEF Cleared
<1>4. DocId \cap DOMAIN Cleared(db) = {}
  BY DEF Cleared, Without
<1>5. /\ DOMAIN restoring' = {"left", "all", "cleared"} /\ restoring'.cleared = TRUE
      /\ restoring'.left = restoring.left /\ restoring'.all = restoring.all
  BY <1>1, <1>2 DEF RestoreSound
<1>6. RestoreSound(restoring)'
  BY <1>1, <1>2, <1>4, <1>5 DEF RestoreSound, DocsSound
<1> QED BY <1>1, <1>3, <1>6, RestoreGoesOn

LEMMA RestoreAddsEntry ==
  ASSUME StoreInv, RestoreEntry
  PROVE  StoreInv'
<1>1. PICK k \in DOMAIN restoring.left :
         /\ db' = With(db, [x \in {k} |-> restoring.left[k]])
         /\ restoring' = [restoring EXCEPT !.left = Without(restoring.left, {k})]
  BY DEF RestoreEntry
<1>2. /\ restoring # None /\ restoring.cleared /\ past' = past \cup {db'}
      /\ UNCHANGED <<files, second, begun, restored>>
  BY DEF RestoreEntry
<1>3. RestoreSound(restoring) /\ DocsSound(db)
  BY <1>2 DEF StoreInv
<1>4. /\ k \in DOMAIN restoring.all /\ restoring.left[k] = restoring.all[k]
  BY <1>3 DEF RestoreSound
<1>5. DocsSound([x \in {k} |-> restoring.left[k]])
  BY <1>3, <1>4 DEF RestoreSound, DocsSound
<1> DEFINE d == With(db, [x \in {k} |-> restoring.left[k]])
<1>6. /\ DOMAIN d = DOMAIN db \cup {k} /\ d[k] = restoring.all[k]
      /\ \A x \in DOMAIN db : x # k => d[x] = db[x]
  BY <1>4 DEF With
<1>7. DocsSound(d)
  BY <1>3, <1>5, SoundParts
<1> HIDE DEF d
<1>8. /\ DOMAIN restoring' = {"left", "all", "cleared"}
      /\ restoring'.cleared = restoring.cleared /\ restoring'.all = restoring.all
      /\ restoring'.left = Without(restoring.left, {k})
  BY <1>1, <1>3 DEF RestoreSound
<1>9. /\ DOMAIN restoring'.left = DOMAIN restoring.left \ {k}
      /\ \A x \in DOMAIN restoring'.left : restoring'.left[x] = restoring.left[x]
  BY <1>8 DEF Without
<1>10. db' = d
  BY <1>1 DEF d
<1>11. RestoreSound(restoring)'
  <2>1. DocsSound(restoring.all)'
    BY <1>3, <1>8 DEF RestoreSound, DocsSound
  <2>2. (\A x \in DOMAIN restoring.left :
            x \in DOMAIN restoring.all /\ restoring.left[x] = restoring.all[x])'
    BY <1>3, <1>8, <1>9 DEF RestoreSound
  <2>3. (\A x \in DocId :
            /\ x \in DOMAIN db => x \in DOMAIN restoring.all /\ db[x] = restoring.all[x]
            /\ x \in DOMAIN restoring.all => x \in DOMAIN restoring.left \/ x \in DOMAIN db)'
    BY <1>2, <1>3, <1>4, <1>6, <1>8, <1>9, <1>10 DEF RestoreSound
  <2> QED BY <1>2, <1>8, <2>1, <2>2, <2>3 DEF RestoreSound
<1> QED BY <1>2, <1>7, <1>10, <1>11, RestoreGoesOn

LEMMA RestoreReturns ==
  ASSUME StoreInv, FinishRestore
  PROVE  StoreInv'
<1>1. /\ restoring # None /\ restoring.cleared /\ restoring.left = << >>
      /\ past' = {db} /\ restored' = DocumentsOf(restoring.all) /\ restoring' = None
      /\ UNCHANGED <<db, files, second, begun>>
  BY DEF FinishRestore
<1>2. RestoreSound(restoring) /\ DOMAIN restoring.left = {}
  BY <1>1 DEF StoreInv
<1>3. /\ \A k \in DocId \cap DOMAIN db : k \in DOMAIN restoring.all /\ db[k] = restoring.all[k]
      /\ \A k \in DocId \cap DOMAIN restoring.all : k \in DOMAIN db
  BY <1>1, <1>2 DEF RestoreSound
<1>4. DocId \cap DOMAIN db = DocId \cap DOMAIN restoring.all
  BY <1>3
<1>5. DocumentsOf(db) = DocumentsOf(restoring.all)
  BY <1>3, <1>4 DEF DocumentsOf
<1>6. RestoreIsDurable'
  <2>1. \A d \in past' : DocumentsOf(d) = restored'
    BY <1>1, <1>5
  <2> QED BY <2>1 DEF RestoreIsDurable, DocumentsOf
<1>7. RestoreCanBeUndone' /\ (\A p \in DOMAIN files : DocsSound(files[p]))'
      /\ (\A d \in past : DocsSound(d))'
  BY <1>1 DEF StoreInv, RestoreIsSafe, RestoreCanBeUndone, DocsSound
<1> QED BY <1>1, <1>6, <1>7 DEF StoreInv, RestoreIsSafe

LEMMA OthersAreSafe ==
  ASSUME StoreInv, RestoreFails \/ NextSecond \/ UNCHANGED storeVars
  PROVE  StoreInv'
<1>1. /\ UNCHANGED <<db, past, files, begun, restored>>
      /\ restoring' = restoring \/ restoring' = None
      /\ second' = second \/ second' = second + 1
  BY DEF RestoreFails, NextSecond, storeVars
<1>2. /\ RestoreIsSafe' /\ (\A p \in DOMAIN files : DocsSound(files[p]))'
      /\ (\A d \in past : DocsSound(d))'
  BY <1>1 DEF StoreInv, RestoreIsSafe, RestoreIsDurable, RestoreCanBeUndone, DocsSound,
              DocumentsOf
<1>3. (restoring # None => RestoreSound(restoring))'
  BY <1>1 DEF StoreInv, RestoreSound, DocsSound
<1>4. second' \in Nat \ {0}
  BY <1>1 DEF StoreInv
<1> QED BY <1>1, <1>2, <1>3, <1>4 DEF StoreInv

LEMMA StoreStep == StoreInv /\ [StoreNext]_storeVars => StoreInv'
  BY WritesAreSafe, DiskIsSafe, BackupIsSafe, RestoreBegins, RestoreClears,
     RestoreAddsEntry, RestoreReturns, OthersAreSafe DEF StoreNext

\* Whatever the documents and the keys of others, and wherever sled fails or the
\* process ends, a restore loses neither what it restores nor what it replaces:
\* storage.rs:645, 659.
THEOREM RestoresAreSafe == StoreSpec => []RestoreIsSafe
<1>1. StoreInv => RestoreIsSafe
  BY DEF StoreInv
<1> QED BY StoreInitially, StoreStep, <1>1, PTL DEF StoreSpec

-----------------------------------------------------------------------------
(* Searches of the HNSW index.                                             *)

\* Subsets of a finite set, and their sizes.
LEMMA SubsetSizes ==
    ASSUME NEW S, IsFiniteSet(S), NEW T \in SUBSET S
    PROVE  /\ IsFiniteSet(T) /\ Cardinality(T) \in Nat /\ Cardinality(S) \in Nat
           /\ Cardinality(T) <= Cardinality(S)
           /\ Cardinality(S) = Cardinality(T) => S = T
           /\ S # T => Cardinality(T) < Cardinality(S)
<1>1. /\ IsFiniteSet(T) /\ Cardinality(T) <= Cardinality(S)
      /\ Cardinality(S) = Cardinality(T) => S = T
      BY FS_Subset
<1>2. Cardinality(T) \in Nat /\ Cardinality(S) \in Nat
      BY <1>1, FS_CardinalityType
<1> QED BY <1>1, <1>2

LEMMA FirstNumbers ==
    ASSUME NEW n \in Nat
    PROVE  IsFiniteSet(1..n) /\ Cardinality(1..n) = n
BY FS_Interval

\* The identifiers that own the points of S.
OwnersOf(S) == {id \in Id : id_to_index[id] \in S}

\* Slots somebody owns are as many as their owners.
LEMMA AsManyOwners ==
    ASSUME SlotsWellFormed, id_to_index \in [Id -> Nat],
           NEW S \in SUBSET Owned, IsFiniteSet(S)
    PROVE  Cardinality(OwnersOf(S)) = Cardinality(S)
<1> DEFINE f == [s \in S |-> CHOOSE id \in Id : id_to_index[id] = s]
<1>1. ASSUME NEW s \in S PROVE f[s] \in Id /\ id_to_index[f[s]] = s
      <2>1. \E id \in Id : id_to_index[id] = s
            BY DEF Owned
      <2> QED BY <2>1
<1>2. \A s \in S : f[s] \in OwnersOf(S)
      BY <1>1 DEF OwnersOf
<1>3. f \in [S -> OwnersOf(S)]
      BY <1>2
<1> HIDE DEF f
<1>4. ASSUME NEW id \in OwnersOf(S) PROVE id_to_index[id] \in S /\ f[id_to_index[id]] = id
      <2>1. id \in Id /\ id_to_index[id] \in S
            BY DEF OwnersOf
      <2>2. id_to_index[id] \in Slots /\ id_to_index[id] # 0
            BY <2>1 DEF Owned, Slots
      <2>3. f[id_to_index[id]] \in Id /\ id_to_index[f[id_to_index[id]]] = id_to_index[id]
            BY <1>1, <2>1
      <2> QED BY <2>1, <2>2, <2>3 DEF SlotsWellFormed
<1>5. f \in Injection(S, OwnersOf(S))
      BY <1>1, <1>3 DEF Injection, IsInjective
<1>6. f \in Surjection(S, OwnersOf(S))
      BY <1>3, <1>4 DEF Surjection
<1>7. ExistsBijection(S, OwnersOf(S))
      BY <1>5, <1>6 DEF Bijection, ExistsBijection
<1> QED BY <1>7, FS_Bijection

\* Points asked for in excess of the ghosts have enough owners.
LEMMA EnoughOwners ==
    ASSUME Inv, NEW k \in Nat, NEW S \in SUBSET Slots,
           Cardinality(S) = k + Cardinality(Ghosts)
    PROVE  Cardinality(OwnersOf(S)) >= k
<1> DEFINE mine == S \cap Owned
           others == S \cap Ghosts
<1>1. /\ id_to_index \in [Id -> Nat] /\ SlotsWellFormed
      /\ vectors \in Seq(Vec) /\ Len(vectors) \in Nat
      BY DEF Inv, TypeOK
<1>2. IsFiniteSet(Slots)
      BY <1>1, FirstNumbers DEF Slots
<1>3. /\ Ghosts \in SUBSET Slots /\ Owned \in SUBSET Slots
      /\ mine \in SUBSET Slots /\ others \in SUBSET Ghosts
      BY DEF Ghosts, Owned
<1>4. S = mine \cup others /\ mine \cap others = {}
      BY DEF Ghosts
<1>5. mine \in SUBSET Owned /\ OwnersOf(mine) = OwnersOf(S)
      BY <1>1 DEF OwnersOf, Owned
<1> HIDE DEF mine, others
<1>6. /\ IsFiniteSet(Ghosts) /\ Cardinality(Ghosts) \in Nat
      /\ IsFiniteSet(mine) /\ Cardinality(mine) \in Nat
      BY <1>2, <1>3, SubsetSizes
<1>7. /\ IsFiniteSet(others) /\ Cardinality(others) \in Nat
      /\ Cardinality(others) <= Cardinality(Ghosts)
      BY <1>3, <1>6, SubsetSizes
<1>8. Cardinality(mine \cup others) =
         Cardinality(mine) + Cardinality(others) - Cardinality(mine \cap others)
      BY <1>6, <1>7, FS_Union
<1>9. Cardinality(mine \cap others) = 0
      BY <1>4, FS_EmptySet
<1>10. Cardinality(S) = Cardinality(mine) + Cardinality(others)
      BY <1>4, <1>6, <1>7, <1>8, <1>9
<1>11. Cardinality(OwnersOf(mine)) = Cardinality(mine)
      BY <1>1, <1>5, <1>6, AsManyOwners
<1> QED BY <1>5, <1>6, <1>7, <1>10, <1>11

\* Owners of the points nearest to q are nearest to q among those visible.
LEMMA OwnersAreNear ==
    ASSUME Inv, NEW q \in Vec, NEW n \in Nat, NEW S \in NearestPoints(q, n),
           NEW id \in OwnersOf(S), NEW other \in visibleIds \ OwnersOf(S)
    PROVE  Dist[q, liveVectors[id]] <= Dist[q, liveVectors[other]]
<1>1. /\ vectors \in Seq(Vec) /\ hnsw \in Seq(Vec) /\ id_to_index \in [Id -> Nat]
      /\ Len(hnsw) \in Nat
      /\ \A s \in 1..Len(hnsw) : hnsw[s] = vectors[s]
      BY DEF Inv, TypeOK, SnapshotIsPrefix
<1>2. S \subseteq 1..Len(hnsw)
      BY DEF NearestPoints
<1>3. /\ id \in Id /\ id_to_index[id] \in S
      /\ other \in Id /\ id_to_index[other] \in 1..Len(hnsw) /\ id_to_index[other] \notin S
      BY DEF OwnersOf, visibleIds
<1>7. id_to_index[id] # 0 /\ id_to_index[other] # 0
      BY <1>1, <1>2, <1>3
<1>4. /\ liveVectors[id] = vectors[id_to_index[id]]
      /\ liveVectors[other] = vectors[id_to_index[other]]
      BY <1>3, <1>7 DEF liveVectors
<1>5. /\ liveVectors[id] = hnsw[id_to_index[id]]
      /\ liveVectors[other] = hnsw[id_to_index[other]]
      BY <1>1, <1>2, <1>3, <1>4
<1>6. Dist[q, hnsw[id_to_index[id]]] <= Dist[q, hnsw[id_to_index[other]]]
      BY <1>3 DEF NearestPoints
<1> QED BY <1>5, <1>6

\* Asking for as many vectors more as there are ghosts gives every identifier
\* strictly nearer than one it gives, and at least k of them if there are k.
LEMMA NearestWithSlack == Inv => NearestIsFoundWithSlack
<1> SUFFICES ASSUME Inv PROVE NearestIsFoundWithSlack
    OBVIOUS
<1>1. ASSUME NEW q \in Vec, NEW k \in Nat, NEW S \in NearestPoints(q, k + Cardinality(Ghosts))
      PROVE  Cardinality(OwnersOf(S)) >= k \/ OwnersOf(S) = visibleIds
      <2>1. /\ vectors \in Seq(Vec) /\ hnsw \in Seq(Vec)
            /\ Len(hnsw) \in Nat /\ Len(vectors) \in Nat /\ Len(hnsw) <= Len(vectors)
            BY DEF Inv, TypeOK, SnapshotIsPrefix
      <2>2. /\ S \in SUBSET (1..Len(hnsw))
            /\ Cardinality(S) = IF k + Cardinality(Ghosts) < Len(hnsw)
                                THEN k + Cardinality(Ghosts) ELSE Len(hnsw)
            BY DEF NearestPoints
      <2>3. S \in SUBSET Slots
            BY <2>1, <2>2 DEF Slots
      <2>4. CASE Cardinality(S) = k + Cardinality(Ghosts)
            BY <2>3, <2>4, EnoughOwners, Zenon
      <2>5. CASE Cardinality(S) = Len(hnsw)
            <3>1. IsFiniteSet(1..Len(hnsw)) /\ Cardinality(1..Len(hnsw)) = Len(hnsw)
                  BY <2>1, FirstNumbers
            <3>2. S = 1..Len(hnsw)
                  BY <2>2, <2>5, <3>1, SubsetSizes
            <3> QED BY <3>2 DEF OwnersOf, visibleIds
      <2> QED BY <2>2, <2>4, <2>5
<1>2. 1..MaxSlots \subseteq Nat /\ Queries \subseteq Vec
      BY MaxSlotsAssumption DEF Queries
<1>3. IsFiniteSet(Slots) /\ Ghosts \in SUBSET Slots
      <2>1. Len(vectors) \in Nat
            BY DEF Inv, TypeOK
      <2> QED BY <2>1, FirstNumbers DEF Slots, Ghosts
<1>4. Cardinality(Ghosts) \in Nat
      BY <1>3, SubsetSizes
<1>5. ASSUME NEW q \in Queries, NEW k \in 1..MaxSlots,
             NEW A \in Answers(q, k + Cardinality(Ghosts))
      PROVE  /\ \A id \in A, other \in visibleIds \ A :
                   Dist[q, liveVectors[id]] <= Dist[q, liveVectors[other]]
             /\ Cardinality(A) >= k \/ A = visibleIds
      <2>1. PICK S \in NearestPoints(q, k + Cardinality(Ghosts)) : A = OwnersOf(S)
            BY DEF Answers, OwnersOf
      <2>2. q \in Vec /\ k \in Nat /\ k + Cardinality(Ghosts) \in Nat
            BY <1>2, <1>4
      <2>3. \A id \in A, other \in visibleIds \ A :
               Dist[q, liveVectors[id]] <= Dist[q, liveVectors[other]]
            BY <2>1, <2>2, OwnersAreNear
      <2> QED BY <1>1, <2>1, <2>2, <2>3
<1> QED BY <1>5 DEF NearestIsFoundWithSlack

-----------------------------------------------------------------------------
(* Searches of the Faiss index (module FaissIndex): a finite set in strict *)
(* order has exactly k elements with fewer than k elements below them, if  *)
(* it has one with k elements or more below it.                            *)

\* The elements of D below s in the order R, a set of pairs.
Below(D, R, s) == {t \in D : <<t, s>> \in R}

StrictOrder(D, R) ==
    /\ \A s \in D : <<s, s>> \notin R
    /\ \A s, t, u \in D : <<s, t>> \in R /\ <<t, u>> \in R => <<s, u>> \in R
    /\ \A s, t \in D : s = t \/ <<s, t>> \in R \/ <<t, s>> \in R

\* What is below is finite, and less is below what is below.
LEMMA BelowProperty ==
    ASSUME NEW D, IsFiniteSet(D), NEW R, StrictOrder(D, R), NEW s \in D
    PROVE  /\ Below(D, R, s) \in SUBSET D /\ IsFiniteSet(Below(D, R, s))
           /\ Cardinality(Below(D, R, s)) \in Nat
           /\ \A t \in Below(D, R, s) :
                 /\ Below(D, R, t) \in SUBSET Below(D, R, s)
                 /\ t \notin Below(D, R, t)
                 /\ Cardinality(Below(D, R, t)) < Cardinality(Below(D, R, s))
<1>1. Below(D, R, s) \in SUBSET D
      BY DEF Below
<1>2. IsFiniteSet(Below(D, R, s)) /\ Cardinality(Below(D, R, s)) \in Nat
      BY <1>1, SubsetSizes
<1>3. ASSUME NEW t \in Below(D, R, s)
      PROVE  /\ Below(D, R, t) \in SUBSET Below(D, R, s)
             /\ t \notin Below(D, R, t)
             /\ Cardinality(Below(D, R, t)) < Cardinality(Below(D, R, s))
      <2>1. t \in D /\ <<t, s>> \in R
            BY DEF Below
      <2>2. Below(D, R, t) \in SUBSET Below(D, R, s)
            BY <2>1 DEF Below, StrictOrder
      <2>3. t \notin Below(D, R, t)
            BY <2>1 DEF Below, StrictOrder
      <2>4. Below(D, R, s) # Below(D, R, t)
            BY <2>3
      <2>5. Cardinality(Below(D, R, t)) < Cardinality(Below(D, R, s))
            BY <1>2, <2>2, <2>4, SubsetSizes
      <2> QED BY <2>2, <2>3, <2>5
<1> QED BY <1>1, <1>2, <1>3

\* If something has elements below it, one of them is directly below it.
LEMMA DirectlyBelow ==
    ASSUME NEW D, IsFiniteSet(D), NEW R, StrictOrder(D, R), NEW s \in D,
           Cardinality(Below(D, R, s)) # 0
    PROVE  \E p \in Below(D, R, s) :
              Cardinality(Below(D, R, s)) = Cardinality(Below(D, R, p)) + 1
<1> DEFINE B == Below(D, R, s)
           Depths == {Cardinality(B) - Cardinality(Below(D, R, t)) : t \in B}
<1>1. /\ B \in SUBSET D /\ IsFiniteSet(B) /\ Cardinality(B) \in Nat
      /\ \A t \in B : /\ Below(D, R, t) \in SUBSET B
                      /\ t \notin Below(D, R, t)
                      /\ Cardinality(Below(D, R, t)) < Cardinality(B)
      BY BelowProperty
<1>2. B # {}
      BY FS_EmptySet
<1>3. \A t \in B : /\ t \in D /\ IsFiniteSet(Below(D, R, t))
                   /\ Cardinality(Below(D, R, t)) \in Nat
      BY <1>1, BelowProperty
<1> HIDE DEF B
<1>4. Depths \in SUBSET Nat /\ Depths # {}
      <2>1. \A t \in B : Cardinality(B) - Cardinality(Below(D, R, t)) \in Nat
            BY <1>1, <1>3
      <2> QED BY <1>2, <2>1
<1>5. \E d \in Depths : \A e \in Depths : d <= e
      <2> HIDE DEF Depths
      <2> QED BY <1>4, LeastNatural
<1>6. PICK p \in B : \A t \in B :
         Cardinality(B) - Cardinality(Below(D, R, p)) <=
            Cardinality(B) - Cardinality(Below(D, R, t))
      BY <1>5
<1>7. \A t \in B : Cardinality(Below(D, R, t)) <= Cardinality(Below(D, R, p))
      BY <1>1, <1>3, <1>6
<1>8. ASSUME NEW t \in B, t # p PROVE t \in Below(D, R, p)
      <2>1. t \in D /\ p \in D
            BY <1>3
      <2>2. CASE <<p, t>> \in R
            <3>1. p \in Below(D, R, t)
                  BY <2>1, <2>2 DEF Below
            <3>2. Cardinality(Below(D, R, p)) < Cardinality(Below(D, R, t))
                  BY <2>1, <3>1, BelowProperty
            <3> QED BY <1>3, <1>7, <3>2
      <2>3. CASE <<t, p>> \in R
            BY <2>1, <2>3 DEF Below
      <2> QED BY <1>8, <2>1, <2>2, <2>3 DEF StrictOrder
<1>9. B = Below(D, R, p) \cup {p} /\ p \notin Below(D, R, p)
      BY <1>1, <1>8
<1>10. Cardinality(Below(D, R, p) \cup {p}) = Cardinality(Below(D, R, p)) + 1
      BY <1>3, <1>9, FS_AddElement
<1> QED BY <1>9, <1>10 DEF B

\* Where something has k elements or more below it, something has exactly k.
LEMMA EveryRankTaken ==
    ASSUME NEW D, IsFiniteSet(D), NEW R, StrictOrder(D, R), NEW k \in Nat,
           NEW x \in D, Cardinality(Below(D, R, x)) >= k
    PROVE  \E s \in D : Cardinality(Below(D, R, s)) = k
<1> DEFINE Ranks == {Cardinality(Below(D, R, s)) : s \in {t \in D :
                        Cardinality(Below(D, R, t)) >= k}}
<1>1. \A s \in D : Cardinality(Below(D, R, s)) \in Nat
      BY BelowProperty
<1>2. \E m \in Ranks : \A e \in Ranks : m <= e
      <2>1. Ranks \in SUBSET Nat /\ Ranks # {}
            BY <1>1
      <2> HIDE DEF Ranks
      <2> QED BY <2>1, LeastNatural
<1>3. PICK s \in D : /\ Cardinality(Below(D, R, s)) >= k
                     /\ \A t \in D : Cardinality(Below(D, R, t)) >= k =>
                           Cardinality(Below(D, R, s)) <= Cardinality(Below(D, R, t))
      BY <1>2
<1>4. CASE Cardinality(Below(D, R, s)) # k
      <2>1. Cardinality(Below(D, R, s)) # 0
            BY <1>1, <1>3, <1>4
      <2>2. PICK p \in Below(D, R, s) :
               Cardinality(Below(D, R, s)) = Cardinality(Below(D, R, p)) + 1
            BY <2>1, DirectlyBelow
      <2>3. p \in D
            BY DEF Below
      <2> QED BY <1>1, <1>3, <1>4, <2>2, <2>3
<1> QED BY <1>3, <1>4

\* The elements with fewer than k below them.
First(D, R, k) == {s \in D : Cardinality(Below(D, R, s)) < k}

LEMMA FirstAreMany ==
    ASSUME NEW D, IsFiniteSet(D), NEW R, StrictOrder(D, R), NEW k \in Nat,
           NEW x \in D, x \notin First(D, R, k)
    PROVE  /\ Cardinality(First(D, R, k)) = k
           /\ \A s \in First(D, R, k) : <<s, x>> \in R
<1>1. \A s \in D : Cardinality(Below(D, R, s)) \in Nat
      BY BelowProperty
<1>2. Cardinality(Below(D, R, x)) >= k
      BY <1>1 DEF First
<1>3. PICK m \in D : Cardinality(Below(D, R, m)) = k
      BY <1>2, EveryRankTaken
<1>4. ASSUME NEW y \in D, Cardinality(Below(D, R, y)) >= k, NEW s \in First(D, R, k)
      PROVE  <<s, y>> \in R
      <2>1. s \in D /\ Cardinality(Below(D, R, s)) < k
            BY DEF First
      <2>2. s # y
            BY <1>1, <1>4, <2>1
      <2>3. CASE <<y, s>> \in R
            <3>1. y \in Below(D, R, s)
                  BY <2>3 DEF Below
            <3>2. Cardinality(Below(D, R, y)) < Cardinality(Below(D, R, s))
                  BY <2>1, <3>1, BelowProperty
            <3> QED BY <1>1, <1>4, <2>1, <3>2
      <2> QED BY <2>1, <2>2, <2>3 DEF StrictOrder
<1>5. First(D, R, k) = Below(D, R, m)
      <2>1. \A s \in First(D, R, k) : s \in Below(D, R, m)
            BY <1>1, <1>3, <1>4 DEF Below, First
      <2>2. ASSUME NEW s \in Below(D, R, m) PROVE s \in First(D, R, k)
            <3>1. s \in D
                  BY DEF Below
            <3>2. Cardinality(Below(D, R, s)) < Cardinality(Below(D, R, m))
                  BY BelowProperty
            <3> QED BY <1>3, <3>1, <3>2 DEF First
      <2> QED BY <2>1, <2>2
<1> QED BY <1>2, <1>3, <1>4, <1>5

-----------------------------------------------------------------------------
(* The maps of the Faiss index.                                            *)

\* An identifier and its slot name each other; another slot may bear its name
\* only when it was added twice.
FaissInv ==
    /\ array \in Seq(Vec) /\ slot_of \in [Id -> Nat]
    /\ DOMAIN id_of \subseteq 1..Len(array)
    /\ \A s \in DOMAIN id_of : id_of[s] \in Id
    /\ \A id \in Id : slot_of[id] # 0 => slot_of[id] \in DOMAIN id_of /\ id_of[slot_of[id]] = id
    /\ \A s \in DOMAIN id_of : s = slot_of[id_of[s]] \/ id_of[s] \in again

LEMMA FaissInitially == FaissInit => FaissInv
<1> SUFFICES ASSUME FaissInit PROVE FaissInv
    OBVIOUS
<1>1. /\ array = << >> /\ id_of = << >> /\ slot_of = [id \in Id |-> 0]
      BY DEF FaissInit
<1>2. DOMAIN id_of = {}
      BY <1>1
<1>3. array \in Seq(Vec) /\ slot_of \in [Id -> Nat]
      BY <1>1
<1> QED BY <1>1, <1>2, <1>3 DEF FaissInv

LEMMA Shifted ==
    ASSUME NEW a \in Nat, NEW n \in Nat, NEW s \in (a + 1)..(a + n)
    PROVE  s - a \in 1..n /\ s = a + (s - a)
OBVIOUS

\* Slots at the end of the array are given to identifiers; the one given last
\* is the slot of its identifier.
LEMMA SlotsGiven ==
    ASSUME FaissInv, NEW n \in Nat, NEW given \in Seq(Vec), Len(given) = n,
           NEW named \in [1..n -> Id],
           array' = array \o given,
           DOMAIN id_of' = DOMAIN id_of \cup (Len(array) + 1)..(Len(array) + n),
           \A s \in DOMAIN id_of : id_of'[s] = id_of[s],
           \A i \in 1..n : id_of'[Len(array) + i] = named[i],
           slot_of' \in [Id -> Nat],
           \A i \in 1..n : \E j \in 1..n :
              named[j] = named[i] /\ slot_of'[named[i]] = Len(array) + j,
           \A id \in Id : (\A i \in 1..n : named[i] # id) => slot_of'[id] = slot_of[id],
           again \subseteq again',
           \A i \in 1..n : slot_of[named[i]] # 0 => named[i] \in again',
           \A i, j \in 1..n : i # j /\ named[i] = named[j] => named[i] \in again'
    PROVE  FaissInv'
<1>1. /\ array \in Seq(Vec) /\ Len(array) \in Nat /\ slot_of \in [Id -> Nat]
      /\ DOMAIN id_of \subseteq 1..Len(array)
      /\ \A s \in DOMAIN id_of : id_of[s] \in Id
      /\ \A id \in Id : slot_of[id] # 0 =>
            slot_of[id] \in DOMAIN id_of /\ id_of[slot_of[id]] = id
      /\ \A s \in DOMAIN id_of : s = slot_of[id_of[s]] \/ id_of[s] \in again
      BY DEF FaissInv
<1>2. array' \in Seq(Vec) /\ Len(array') = Len(array) + n
      <2>1. array \o given \in Seq(Vec) /\ Len(array \o given) = Len(array) + Len(given)
            BY ONLY <1>1, given \in Seq(Vec), ConcatProperties
      <2>2. array' = array \o given /\ Len(given) = n
            OBVIOUS
      <2> QED BY ONLY <2>1, <2>2
<1>3. DOMAIN id_of' \subseteq 1..Len(array')
      BY <1>1, <1>2
<1>4. ASSUME NEW s \in DOMAIN id_of'
      PROVE  \/ s \in DOMAIN id_of /\ id_of'[s] = id_of[s]
             \/ \E i \in 1..n : s = Len(array) + i /\ id_of'[s] = named[i]
      <2>1. CASE s \in DOMAIN id_of
            BY <2>1
      <2>2. CASE s \in (Len(array) + 1)..(Len(array) + n)
            <3>1. s - Len(array) \in 1..n /\ s = Len(array) + (s - Len(array))
                  BY <1>1, <2>2, Shifted
            <3> QED BY <3>1
      <2> QED BY <2>1, <2>2
<1>5. \A s \in DOMAIN id_of' : id_of'[s] \in Id
      BY <1>1, <1>4
<1>6. ASSUME NEW id \in Id, slot_of'[id] # 0
      PROVE  slot_of'[id] \in DOMAIN id_of' /\ id_of'[slot_of'[id]] = id
      <2>1. CASE \A i \in 1..n : named[i] # id
            <3>1. slot_of'[id] = slot_of[id]
                  BY <2>1
            <3> QED BY <1>1, <1>6, <3>1
      <2>2. CASE \E i \in 1..n : named[i] = id
            <3>1. PICK j \in 1..n : named[j] = id /\ slot_of'[id] = Len(array) + j
                  BY <2>2
            <3>2. Len(array) + j \in (Len(array) + 1)..(Len(array) + n)
                  BY <1>1
            <3> QED BY <3>1, <3>2
      <2> QED BY <2>1, <2>2
<1>7. ASSUME NEW s \in DOMAIN id_of'
      PROVE  s = slot_of'[id_of'[s]] \/ id_of'[s] \in again'
      <2>1. CASE s \in DOMAIN id_of /\ id_of'[s] = id_of[s]
            <3>1. id_of[s] \in Id
                  BY <1>1, <2>1
            <3>2. CASE \E i \in 1..n : named[i] = id_of[s]
                  <4>1. slot_of[id_of[s]] # 0 => id_of[s] \in again'
                        BY <3>2
                  <4>2. slot_of[id_of[s]] = 0 => s # slot_of[id_of[s]]
                        BY <1>1, <2>1
                  <4> QED BY <1>1, <2>1, <4>1, <4>2
            <3>3. CASE \A i \in 1..n : named[i] # id_of[s]
                  <4>1. slot_of'[id_of[s]] = slot_of[id_of[s]]
                        BY <3>1, <3>3
                  <4> QED BY <1>1, <2>1, <4>1
            <3> QED BY <3>2, <3>3
      <2>2. CASE \E i \in 1..n : s = Len(array) + i /\ id_of'[s] = named[i]
            <3>1. PICK i \in 1..n : s = Len(array) + i /\ id_of'[s] = named[i]
                  BY <2>2
            <3>2. PICK j \in 1..n : named[j] = named[i] /\ slot_of'[named[i]] = Len(array) + j
                  OBVIOUS
            <3> QED BY <3>1, <3>2
      <2> QED BY <1>4, <2>1, <2>2
<1> QED BY <1>2, <1>3, <1>5, <1>6, <1>7 DEF FaissInv

LEMMA FaissAddsVector ==
    ASSUME FaissInv, NEW id \in Id, NEW vec \in Vec, FaissAddVector(id, vec)
    PROVE  FaissInv'
<1>1. CASE UNCHANGED <<array, slot_of, id_of, again>>
      BY <1>1 DEF FaissInv
<1>2. CASE /\ array' = Append(array, vec)
           /\ slot_of' = [slot_of EXCEPT ![id] = Len(array) + 1]
           /\ id_of' = [s \in DOMAIN id_of \cup {Len(array) + 1} |->
                           IF s = Len(array) + 1 THEN id ELSE id_of[s]]
           /\ again' = again \cup IF slot_of[id] # 0 THEN {id} ELSE {}
      <2>1. /\ array \in Seq(Vec) /\ Len(array) \in Nat /\ slot_of \in [Id -> Nat]
            /\ DOMAIN id_of \subseteq 1..Len(array)
            BY DEF FaissInv
      <2> DEFINE n == 1
                 given == <<vec>>
                 named == [i \in 1..1 |-> id]
      <2>2. given \in Seq(Vec) /\ Len(given) = n /\ array' = array \o given
            BY <1>2, <2>1
      <2>3. n \in Nat /\ named \in [1..n -> Id]
            OBVIOUS
      <2>4. \A i \in 1..n : i = 1 /\ named[i] = id
            OBVIOUS
      <2>5. 1 \in 1..n /\ (Len(array) + 1)..(Len(array) + n) = {Len(array) + 1}
            BY <2>1
      <2>6. \A s \in DOMAIN id_of : s # Len(array) + 1
            BY <2>1
      <2>7. /\ slot_of' \in [Id -> Nat] /\ slot_of'[id] = Len(array) + 1
            /\ \A x \in Id : x # id => slot_of'[x] = slot_of[x]
            BY <1>2, <2>1
      <2> HIDE DEF n, given, named
      <2>8. DOMAIN id_of' = DOMAIN id_of \cup (Len(array) + 1)..(Len(array) + n)
            BY <1>2, <2>5
      <2>9. \A s \in DOMAIN id_of : id_of'[s] = id_of[s]
            BY <1>2, <2>6
      <2>10. id_of'[Len(array) + 1] = id
            BY <1>2
      <2>11. \A i \in 1..n : id_of'[Len(array) + i] = named[i]
            BY <2>4, <2>10
      <2>12. \A i \in 1..n : \E j \in 1..n :
                named[j] = named[i] /\ slot_of'[named[i]] = Len(array) + j
            BY <2>4, <2>5, <2>7
      <2>13. \A x \in Id : (\A i \in 1..n : named[i] # x) => slot_of'[x] = slot_of[x]
            BY <2>4, <2>5, <2>7
      <2>14. again \subseteq again'
            BY <1>2
      <2>15. \A i \in 1..n : slot_of[named[i]] # 0 => named[i] \in again'
            BY <1>2, <2>4
      <2>16. \A i, j \in 1..n : i # j /\ named[i] = named[j] => named[i] \in again'
            BY <2>4
      <2> QED BY <2>2, <2>3, <2>7, <2>8, <2>9, <2>11, <2>12, <2>13, <2>14, <2>15, <2>16,
                 SlotsGiven
<1> QED BY <1>1, <1>2 DEF FaissAddVector, faissVars

LEMMA FaissAddsVectors ==
    ASSUME FaissInv, NEW items \in Batches, FaissAddVectors(items)
    PROVE  FaissInv'
<1>1. CASE UNCHANGED <<array, slot_of, id_of, again>>
      BY <1>1 DEF FaissInv
<1>2. CASE \E n \in 0..Len(items) :
            /\ array' = array \o [i \in 1..n |-> items[i].vec]
            /\ slot_of' = [id \in Id |->
                  IF id \in IdsIn(items, n)
                  THEN Len(array) + LastFor(items, n, id) ELSE slot_of[id]]
            /\ id_of' = [s \in DOMAIN id_of \cup Len(array) + 1..Len(array) + n |->
                  IF s > Len(array) THEN items[s - Len(array)].id ELSE id_of[s]]
            /\ again' = again \cup
                  {id \in IdsIn(items, n) :
                      \/ slot_of[id] # 0
                      \/ \E i, j \in 1..n : i # j /\ items[i].id = id /\ items[j].id = id}
      <2>1. PICK n \in 0..Len(items) :
            /\ array' = array \o [i \in 1..n |-> items[i].vec]
            /\ slot_of' = [id \in Id |->
                  IF id \in IdsIn(items, n)
                  THEN Len(array) + LastFor(items, n, id) ELSE slot_of[id]]
            /\ id_of' = [s \in DOMAIN id_of \cup Len(array) + 1..Len(array) + n |->
                  IF s > Len(array) THEN items[s - Len(array)].id ELSE id_of[s]]
            /\ again' = again \cup
                  {id \in IdsIn(items, n) :
                      \/ slot_of[id] # 0
                      \/ \E i, j \in 1..n : i # j /\ items[i].id = id /\ items[j].id = id}
            BY <1>2
      <2>2. /\ array \in Seq(Vec) /\ Len(array) \in Nat /\ slot_of \in [Id -> Nat]
            /\ DOMAIN id_of \subseteq 1..Len(array)
            BY DEF FaissInv
      <2>3. items \in Seq(Item) /\ n \in Nat /\ n <= Len(items)
            BY VectorsAssumption
      <2>4. ASSUME NEW i \in 1..n
            PROVE  items[i].vec \in Vec /\ items[i].id \in Id /\ items[i].id \in IdsIn(items, n)
            <3>1. i \in 1..Len(items)
                  BY <2>3
            <3>2. items[i] \in Item
                  BY <2>3, <3>1, ElementOfSeq
            <3> QED BY <3>2 DEF Item, IdsIn
      <2> DEFINE given == [i \in 1..n |-> items[i].vec]
                 named == [i \in 1..n |-> items[i].id]
      <2>5. given \in Seq(Vec) /\ Len(given) = n /\ array' = array \o given
            BY <2>1, <2>3, <2>4
      <2>6. named \in [1..n -> Id] /\ \A i \in 1..n : named[i] = items[i].id
            BY <2>4
      <2> HIDE DEF given, named
      <2>7. DOMAIN id_of' = DOMAIN id_of \cup (Len(array) + 1)..(Len(array) + n)
            BY <2>1
      <2>8. \A s \in DOMAIN id_of : id_of'[s] = id_of[s]
            <3>1. \A s \in DOMAIN id_of : ~ (s > Len(array))
                  BY <2>2
            <3> QED BY <2>1, <3>1
      <2>9. ASSUME NEW i \in 1..n PROVE id_of'[Len(array) + i] = named[i]
            <3>1. /\ Len(array) + i \in (Len(array) + 1)..(Len(array) + n)
                  /\ Len(array) + i > Len(array) /\ (Len(array) + i) - Len(array) = i
                  BY <2>2, <2>3
            <3> QED BY <2>1, <2>6, <3>1
      <2>10. \A id \in IdsIn(items, n) : /\ LastFor(items, n, id) \in 1..n
                                         /\ items[LastFor(items, n, id)].id = id
            BY <2>3, LastForProperty
      <2>11. slot_of' \in [Id -> Nat]
            <3>1. \A id \in IdsIn(items, n) : Len(array) + LastFor(items, n, id) \in Nat
                  BY <2>2, <2>10
            <3> QED BY <2>1, <2>2, <3>1
      <2>12. ASSUME NEW i \in 1..n
             PROVE  \E j \in 1..n :
                       named[j] = named[i] /\ slot_of'[named[i]] = Len(array) + j
            <3>1. named[i] \in Id /\ named[i] \in IdsIn(items, n)
                  BY <2>4, <2>6
            <3>2. slot_of'[named[i]] = Len(array) + LastFor(items, n, named[i])
                  BY <2>1, <3>1
            <3>3. LastFor(items, n, named[i]) \in 1..n
                  /\ named[LastFor(items, n, named[i])] = named[i]
                  BY <2>6, <2>10, <3>1
            <3> QED BY <3>2, <3>3
      <2>13. ASSUME NEW id \in Id, \A i \in 1..n : named[i] # id
             PROVE  slot_of'[id] = slot_of[id]
            <3>1. id \notin IdsIn(items, n)
                  BY <2>6, <2>13 DEF IdsIn
            <3> QED BY <2>1, <3>1
      <2>14. again \subseteq again'
            BY <2>1
      <2>15. ASSUME NEW i \in 1..n, slot_of[named[i]] # 0 PROVE named[i] \in again'
            BY <2>1, <2>4, <2>6, <2>15
      <2>16. ASSUME NEW i \in 1..n, NEW j \in 1..n, i # j, named[i] = named[j]
             PROVE  named[i] \in again'
            BY <2>1, <2>4, <2>6, <2>16
      <2> QED BY <2>3, <2>5, <2>6, <2>7, <2>8, <2>9, <2>11, <2>12, <2>13, <2>14, <2>15, <2>16,
                 SlotsGiven
<1> QED BY <1>1, <1>2 DEF FaissAddVectors

LEMMA FaissRemovesVector ==
    ASSUME FaissInv, NEW id \in Id, FaissRemoveVector(id)
    PROVE  FaissInv'
<1>1. /\ array \in Seq(Vec) /\ slot_of \in [Id -> Nat]
      /\ DOMAIN id_of \subseteq 1..Len(array)
      /\ \A s \in DOMAIN id_of : id_of[s] \in Id
      /\ \A x \in Id : slot_of[x] # 0 => slot_of[x] \in DOMAIN id_of /\ id_of[slot_of[x]] = x
      /\ \A s \in DOMAIN id_of : s = slot_of[id_of[s]] \/ id_of[s] \in again
      BY DEF FaissInv
<1>2. /\ slot_of[id] # 0 /\ slot_of' = [slot_of EXCEPT ![id] = 0]
      /\ id_of' = [s \in DOMAIN id_of \ {slot_of[id]} |-> id_of[s]]
      /\ array' = array /\ again' = again
      BY DEF FaissRemoveVector
<1>3. /\ slot_of' \in [Id -> Nat] /\ slot_of'[id] = 0
      /\ \A x \in Id : x # id => slot_of'[x] = slot_of[x]
      BY <1>1, <1>2
<1>4. /\ DOMAIN id_of' = DOMAIN id_of \ {slot_of[id]}
      /\ \A s \in DOMAIN id_of' : id_of'[s] = id_of[s]
      BY <1>2
<1>5. ASSUME NEW x \in Id, slot_of'[x] # 0
      PROVE  slot_of'[x] \in DOMAIN id_of' /\ id_of'[slot_of'[x]] = x
      <2>1. x # id /\ slot_of'[x] = slot_of[x]
            BY <1>3, <1>5
      <2>2. slot_of[x] \in DOMAIN id_of /\ id_of[slot_of[x]] = x
            BY <1>1, <1>5, <2>1
      <2>3. slot_of[x] # slot_of[id]
            BY <1>1, <1>2, <2>1, <2>2
      <2> QED BY <1>4, <2>1, <2>2, <2>3
<1>6. ASSUME NEW s \in DOMAIN id_of' PROVE s = slot_of'[id_of'[s]] \/ id_of'[s] \in again'
      <2>1. s \in DOMAIN id_of /\ s # slot_of[id] /\ id_of'[s] = id_of[s]
            BY <1>4
      <2>2. CASE id_of[s] = id
            BY <1>1, <1>2, <2>1, <2>2
      <2>3. CASE id_of[s] # id
            BY <1>1, <1>2, <1>3, <2>1, <2>3
      <2> QED BY <2>2, <2>3
<1> QED BY <1>1, <1>2, <1>3, <1>4, <1>5, <1>6 DEF FaissInv

LEMMA FaissStep == FaissInv /\ [FaissNext]_faissVars => FaissInv'
<1> SUFFICES ASSUME FaissInv, [FaissNext]_faissVars PROVE FaissInv'
    OBVIOUS
<1>1. ASSUME NEW id \in Id, NEW vec \in Vec, FaissAddVector(id, vec) PROVE FaissInv'
      BY <1>1, FaissAddsVector
<1>2. ASSUME NEW items \in Batches, FaissAddVectors(items) PROVE FaissInv'
      BY <1>2, FaissAddsVectors
<1>3. ASSUME NEW id \in Id, FaissRemoveVector(id) PROVE FaissInv'
      BY <1>3, FaissRemovesVector
<1>4. CASE FaissOptimize
      BY <1>4 DEF FaissOptimize, FaissInv
<1>5. CASE FaissClear
      <2>1. /\ array' = << >> /\ id_of' = << >> /\ slot_of' = [id \in Id |-> 0]
            BY <1>5 DEF FaissClear
      <2>2. DOMAIN id_of' = {}
            BY <2>1
      <2>3. array' \in Seq(Vec) /\ slot_of' \in [Id -> Nat]
            BY <2>1
      <2> QED BY <2>1, <2>2, <2>3 DEF FaissInv
<1>6. CASE UNCHANGED faissVars
      BY <1>6 DEF FaissInv, faissVars
<1> QED BY <1>1, <1>2, <1>3, <1>4, <1>5, <1>6 DEF FaissNext

-----------------------------------------------------------------------------
\* The slots with an identifier, in the order of a search.
SearchOrder(q) == {p \in (DOMAIN id_of) \X (DOMAIN id_of) : Nearer(q, p[1], p[2])}

LEMMA SearchOrderIsStrict ==
    ASSUME FaissInv, NEW q \in Vec
    PROVE  /\ IsFiniteSet(DOMAIN id_of)
           /\ StrictOrder(DOMAIN id_of, SearchOrder(q))
           /\ \A s, t \in DOMAIN id_of : <<s, t>> \in SearchOrder(q) =>
                 Dist[q, array[s]] <= Dist[q, array[t]]
<1> DEFINE far(s) == Dist[q, array[s]]
<1>1. /\ array \in Seq(Vec) /\ Len(array) \in Nat /\ DOMAIN id_of \subseteq 1..Len(array)
      BY DEF FaissInv
<1>2. IsFiniteSet(DOMAIN id_of)
      <2>1. IsFiniteSet(1..Len(array))
            BY <1>1, FirstNumbers
      <2> QED BY <1>1, <2>1, FS_Subset
<1>3. \A s \in DOMAIN id_of : array[s] \in Vec
      BY <1>1, ElementOfSeq
<1>4. \A s \in DOMAIN id_of : far(s) \in Nat
      BY <1>3, DistAssumption
<1>5. \A s, t \in DOMAIN id_of : <<s, t>> \in SearchOrder(q) <=>
         far(s) < far(t) \/ (far(s) = far(t) /\ s < t)
      BY DEF SearchOrder, Nearer
<1>6. \A s \in DOMAIN id_of : s \in Nat
      BY <1>1
<1> HIDE DEF far
<1>7. \A s \in DOMAIN id_of : <<s, s>> \notin SearchOrder(q)
      BY <1>4, <1>5, <1>6
<1>8. ASSUME NEW s \in DOMAIN id_of, NEW t \in DOMAIN id_of, NEW u \in DOMAIN id_of,
             <<s, t>> \in SearchOrder(q), <<t, u>> \in SearchOrder(q)
      PROVE  <<s, u>> \in SearchOrder(q)
      BY <1>4, <1>5, <1>6, <1>8
<1>9. ASSUME NEW s \in DOMAIN id_of, NEW t \in DOMAIN id_of
      PROVE  s = t \/ <<s, t>> \in SearchOrder(q) \/ <<t, s>> \in SearchOrder(q)
      <2>1. far(s) \in Nat /\ far(t) \in Nat /\ s \in Nat /\ t \in Nat
            BY <1>4, <1>6
      <2>2. far(s) < far(t) \/ far(t) < far(s) \/ (far(s) = far(t) /\ (s < t \/ t < s \/ s = t))
            BY <2>1
      <2> QED BY <1>5, <2>2
<1>10. \A s, t \in DOMAIN id_of : <<s, t>> \in SearchOrder(q) => far(s) <= far(t)
      BY <1>4, <1>5
<1>11. StrictOrder(DOMAIN id_of, SearchOrder(q))
      BY <1>7, <1>8, <1>9 DEF StrictOrder
<1> QED BY <1>2, <1>10, <1>11 DEF far

LEMMA HitsAreFirst ==
    ASSUME NEW q, NEW k
    PROVE  Hits(q, k) = First(DOMAIN id_of, SearchOrder(q), k)
<1>1. \A s \in DOMAIN id_of :
         {t \in DOMAIN id_of : Nearer(q, t, s)} = Below(DOMAIN id_of, SearchOrder(q), s)
      BY DEF Below, SearchOrder
<1> QED BY <1>1 DEF Hits, First

\* The maps name each other, so what is left out has k slots nearer than it.
LEMMA NearestInFaiss == FaissInv => FaissFindsNearest
<1> SUFFICES ASSUME FaissInv PROVE FaissFindsNearest
    OBVIOUS
<1>1. /\ \A s \in DOMAIN id_of : s # 0 /\ id_of[s] \in Id
      /\ \A id \in Id : slot_of[id] # 0 =>
            slot_of[id] \in DOMAIN id_of /\ id_of[slot_of[id]] = id
      /\ \A s \in DOMAIN id_of : s = slot_of[id_of[s]] \/ id_of[s] \in again
      BY DEF FaissInv
<1>2. ASSUME NEW q \in Vec, NEW k \in Nat, NEW x \in DOMAIN id_of, x \notin Hits(q, k)
      PROVE  /\ Cardinality(Hits(q, k)) = k
             /\ \A s \in Hits(q, k) : Dist[q, array[s]] <= Dist[q, array[x]]
      <2> DEFINE D == DOMAIN id_of
                 R == SearchOrder(q)
      <2>1. IsFiniteSet(D) /\ StrictOrder(D, R)
            BY SearchOrderIsStrict
      <2>2. Hits(q, k) = First(D, R, k) /\ x \in D /\ x \notin First(D, R, k)
            BY <1>2, HitsAreFirst
      <2>3. \A s \in First(D, R, k) : s \in D
            BY DEF First
      <2>4. \A s \in D : <<s, x>> \in R => Dist[q, array[s]] <= Dist[q, array[x]]
            BY SearchOrderIsStrict
      <2> HIDE DEF D, R
      <2>5. /\ Cardinality(First(D, R, k)) = k
            /\ \A s \in First(D, R, k) : <<s, x>> \in R
            BY <2>1, <2>2, FirstAreMany
      <2> QED BY <2>2, <2>3, <2>4, <2>5
<1>3. ASSUME NEW q \in Vec, NEW k \in Nat, NEW id \in Id, slot_of[id] # 0,
             id \notin {id_of[s] : s \in Hits(q, k)}
      PROVE  /\ Cardinality(Hits(q, k)) = k
             /\ \A s \in Hits(q, k) : Dist[q, array[s]] <= Dist[q, array[slot_of[id]]]
      <2>1. slot_of[id] \in DOMAIN id_of /\ id_of[slot_of[id]] = id
            BY <1>1, <1>3
      <2>2. slot_of[id] \notin Hits(q, k)
            BY <1>3, <2>1
      <2> QED BY <1>2, <2>1, <2>2
<1>4. ASSUME NEW q, NEW k, NEW id \in {id_of[s] : s \in Hits(q, k)}
      PROVE  slot_of[id] # 0 \/ id \in again
      <2>1. PICK s \in DOMAIN id_of : id = id_of[s]
            BY DEF Hits
      <2> QED BY <1>1, <2>1
<1>5. 1..FaissSlots \subseteq Nat
      BY FaissAssumption
<1> QED BY <1>3, <1>4, <1>5 DEF FaissFindsNearest

\* The array keeps its bound, and an index that holds vectors was trained.
FaissSized == Len(array) <= FaissSlots /\ (array # << >> => trained)

LEMMA FaissStaysSized == FaissInv /\ FaissSized /\ [FaissNext]_faissVars => FaissSized'
<1> SUFFICES ASSUME FaissInv, FaissSized, [FaissNext]_faissVars PROVE FaissSized'
    OBVIOUS
<1>1. /\ array \in Seq(Vec) /\ Len(array) \in Nat /\ FaissSlots \in Nat
      /\ Len(array) <= FaissSlots
      BY FaissAssumption DEF FaissInv, FaissSized
<1>2. ASSUME NEW id \in Id, NEW vec \in Vec, FaissAddVector(id, vec) PROVE FaissSized'
      <2>1. \/ UNCHANGED faissVars
            \/ /\ trained' = (trained \/ CanTrain)
               /\ IF trained' THEN array' = Append(array, vec) ELSE array' = array
            BY <1>2, Zenon DEF FaissAddVector
      <2>2. CASE array' = array /\ (trained => trained')
            BY <2>2 DEF FaissSized
      <2>3. CASE trained' /\ array' = Append(array, vec)
            <3>1. Len(array') = Len(array) + 1
                  BY <1>1, <2>3
            <3>2. Len(array) < FaissSlots
                  BY <1>2 DEF FaissAddVector
            <3> QED BY <1>1, <2>3, <3>1, <3>2 DEF FaissSized
      <2>4. UNCHANGED faissVars => array' = array /\ (trained => trained')
            BY DEF faissVars
      <2> QED BY <2>1, <2>2, <2>3, <2>4, Zenon
<1>3. ASSUME NEW items \in Batches, FaissAddVectors(items) PROVE FaissSized'
      <2>1. CASE array' = array /\ trained' = trained
            BY <2>1 DEF FaissSized
      <2>2. CASE \E n \in 0..Len(items) :
                    /\ array' = array \o [i \in 1..n |-> items[i].vec]
                    /\ trained' = (trained \/ n > 0)
            <3>1. PICK n \in 0..Len(items) :
                     /\ array' = array \o [i \in 1..n |-> items[i].vec]
                     /\ trained' = (trained \/ n > 0)
                  BY <2>2
            <3>2. items \in Seq(Item) /\ n \in Nat /\ n <= Len(items) /\ Len(items) \in Nat
                  BY VectorsAssumption
            <3>3. \A i \in 1..n : items[i].vec \in Vec
                  <4>1. \A i \in 1..n : i \in 1..Len(items)
                        BY <3>2
                  <4>2. \A i \in 1..n : items[i] \in Item
                        BY <3>2, <4>1, ElementOfSeq
                  <4> QED BY <4>2 DEF Item
            <3> DEFINE given == [i \in 1..n |-> items[i].vec]
            <3>4. given \in Seq(Vec) /\ Len(given) = n /\ array' = array \o given
                  BY <3>1, <3>2, <3>3
            <3> HIDE DEF given
            <3>5. Len(array') = Len(array) + n /\ (n = 0 => array' = array)
                  <4>1. Len(array \o given) = Len(array) + Len(given)
                        BY <1>1, <3>4, ConcatProperties
                  <4>2. ASSUME n = 0
                        PROVE  given = << >>
                        BY <3>4, <4>2, EmptySeq
                  <4>3. array \o << >> = array
                        BY <1>1, ConcatEmptySeq
                  <4> QED BY <3>4, <4>1, <4>2, <4>3
            <3>6. Len(array) + Len(items) <= FaissSlots
                  BY <1>3 DEF FaissAddVectors
            <3>7. Len(array') <= FaissSlots
                  BY <1>1, <3>2, <3>5, <3>6
            <3>8. array' # << >> => trained'
                  <4>1. trained \/ n > 0 => trained'
                        BY <3>1, Zenon
                  <4>2. n = 0 \/ n > 0
                        BY <3>2
                  <4> QED BY <3>5, <4>1, <4>2 DEF FaissSized
            <3> QED BY <3>7, <3>8 DEF FaissSized
      <2> QED BY <1>3, <2>1, <2>2 DEF FaissAddVectors
<1>4. ASSUME NEW id \in Id, FaissRemoveVector(id) PROVE FaissSized'
      BY <1>4 DEF FaissRemoveVector, FaissSized
<1>5. CASE FaissOptimize
      BY <1>5 DEF FaissOptimize, FaissSized
<1>6. CASE FaissClear
      BY <1>1, <1>6 DEF FaissClear, FaissSized
<1>7. CASE UNCHANGED faissVars
      BY <1>7 DEF faissVars, FaissSized
<1> QED BY <1>2, <1>3, <1>4, <1>5, <1>6, <1>7 DEF FaissNext

LEMMA FaissTypes == FaissInv /\ FaissSized => FaissTypeOK
<1> SUFFICES ASSUME FaissInv, FaissSized PROVE FaissTypeOK
    OBVIOUS
<1>1. /\ array \in Seq(Vec) /\ Len(array) \in Nat /\ slot_of \in [Id -> Nat]
      /\ Len(array) <= FaissSlots /\ FaissSlots \in Nat
      /\ DOMAIN id_of \subseteq 1..Len(array) /\ DOMAIN array = 1..Len(array)
      BY FaissAssumption DEF FaissInv, FaissSized
<1>2. \A id \in Id : slot_of[id] # 0 => slot_of[id] \in DOMAIN id_of
      BY DEF FaissInv
<1>3. ASSUME NEW id \in Id PROVE slot_of[id] \in 0..FaissSlots
      <2>1. slot_of[id] \in Nat
            BY <1>1
      <2>2. slot_of[id] # 0 => slot_of[id] \in 1..Len(array)
            BY <1>1, <1>2
      <2> QED BY <1>1, <2>1, <2>2
<1> QED BY <1>1, <1>3 DEF FaissTypeOK, FaissSized

\* THEOREM: whatever was added, added again, refused and removed, a search of
\* either index finds the nearest vectors: all but as many as the index has
\* ghosts in the HNSW index, and all but the identifiers that k slots beat in
\* the Faiss index, which returns nothing that is not there unless it was added
\* twice (search, remove_vector); and both indexes keep their types.
THEOREM NearestIsAlwaysFound == Spec /\ FaissSpec => []NearestIsFoundInBoth
<1>1. Inv /\ FaissInv /\ FaissSized => NearestIsFoundInBoth
      BY NearestWithSlack, NearestInFaiss, FaissTypes DEF NearestIsFoundInBoth, Inv
<1>2. Spec => []Inv
      BY Invariance
<1>3. FaissInit => FaissSized
      BY FaissAssumption DEF FaissInit, FaissSized
<1>4. FaissSpec => [](FaissInv /\ FaissSized)
      BY FaissInitially, FaissStep, FaissStaysSized, <1>3, PTL DEF FaissSpec
<1> QED BY <1>1, <1>2, <1>4, PTL

-----------------------------------------------------------------------------
(* Reads of the store (module DocumentStore): a finite set in strict order *)
(* is a sequence, in which the place of an element is the number of those  *)
(* below it.                                                               *)

LEMMA RanksDiffer ==
    ASSUME NEW D, IsFiniteSet(D), NEW R, StrictOrder(D, R), NEW s \in D, NEW t \in D
    PROVE  /\ <<s, t>> \in R <=> Cardinality(Below(D, R, s)) < Cardinality(Below(D, R, t))
           /\ s # t => Cardinality(Below(D, R, s)) # Cardinality(Below(D, R, t))
<1>1. /\ Cardinality(Below(D, R, s)) \in Nat /\ Cardinality(Below(D, R, t)) \in Nat
      /\ s \in Below(D, R, t) =>
            Cardinality(Below(D, R, s)) < Cardinality(Below(D, R, t))
      /\ t \in Below(D, R, s) =>
            Cardinality(Below(D, R, t)) < Cardinality(Below(D, R, s))
      BY BelowProperty
<1>2. /\ s \in Below(D, R, t) <=> <<s, t>> \in R
      /\ t \in Below(D, R, s) <=> <<t, s>> \in R
      BY DEF Below
<1>3. s = t \/ <<s, t>> \in R \/ <<t, s>> \in R
      BY DEF StrictOrder
<1>4. s = t => <<s, t>> \notin R
      BY DEF StrictOrder
<1> QED BY <1>1, <1>2, <1>3, <1>4

LEMMA RanksReach ==
    ASSUME NEW D, IsFiniteSet(D), NEW R, StrictOrder(D, R)
    PROVE  /\ \A x \in D : Cardinality(Below(D, R, x)) + 1 \in 1..Cardinality(D)
           /\ \A i \in 1..Cardinality(D) :
                 \E x \in D : Cardinality(Below(D, R, x)) = i - 1
<1>1. Cardinality(D) \in Nat
      BY FS_CardinalityType
<1>2. ASSUME NEW x \in D
      PROVE  /\ Cardinality(Below(D, R, x)) \in Nat
             /\ Cardinality(Below(D, R, x)) < Cardinality(D)
      <2>1. Below(D, R, x) \in SUBSET D /\ Cardinality(Below(D, R, x)) \in Nat
            BY BelowProperty
      <2>2. x \notin Below(D, R, x)
            BY DEF Below, StrictOrder
      <2> QED BY <2>1, <2>2, SubsetSizes
<1>3. ASSUME NEW i \in 1..Cardinality(D)
      PROVE  \E x \in D : Cardinality(Below(D, R, x)) = i - 1
      <2>1. i \in Nat /\ i - 1 \in Nat /\ i <= Cardinality(D) /\ i >= 1
            BY <1>1
      <2>2. \E x \in D : Cardinality(Below(D, R, x)) >= i - 1
            <3> SUFFICES ASSUME \A x \in D : Cardinality(Below(D, R, x)) < i - 1
                         PROVE  FALSE
                BY <1>2, <2>1
            <3> DEFINE f == [x \in D |-> Cardinality(Below(D, R, x)) + 1]
            <3>1. f \in [D -> 1..(i - 1)]
                  BY <1>2, <2>1
            <3>2. ASSUME NEW x \in D, NEW y \in D, f[x] = f[y] PROVE x = y
                  <4>1. Cardinality(Below(D, R, x)) + 1 = Cardinality(Below(D, R, y)) + 1
                        BY <3>2
                  <4>2. Cardinality(Below(D, R, x)) = Cardinality(Below(D, R, y))
                        BY <1>2, <4>1
                  <4> QED BY <4>2, RanksDiffer
            <3> HIDE DEF f
            <3>3. f \in Injection(D, 1..(i - 1))
                  BY <3>1, <3>2 DEF Injection, IsInjective
            <3>4. IsFiniteSet(1..(i - 1)) /\ Cardinality(1..(i - 1)) = i - 1
                  BY <2>1, FirstNumbers
            <3>5. Cardinality(D) <= i - 1
                  BY <3>3, <3>4, FS_Injection
            <3> QED BY <1>1, <2>1, <3>5
      <2> QED BY <2>1, <2>2, EveryRankTaken
<1> QED BY <1>1, <1>2, <1>3

LEMMA OrderedProperty ==
    ASSUME NEW D, IsFiniteSet(D), NEW R, StrictOrder(D, R)
    PROVE  /\ Cardinality(D) \in Nat
           /\ InOrder(D, R) \in Seq(D) /\ Len(InOrder(D, R)) = Cardinality(D)
           /\ \A i \in 1..Cardinality(D) :
                 /\ InOrder(D, R)[i] \in D
                 /\ Cardinality(Below(D, R, InOrder(D, R)[i])) = i - 1
           /\ \A x \in D :
                 /\ Cardinality(Below(D, R, x)) + 1 \in 1..Cardinality(D)
                 /\ InOrder(D, R)[Cardinality(Below(D, R, x)) + 1] = x
<1>1. Cardinality(D) \in Nat
      BY FS_CardinalityType
<1>2. InOrder(D, R) = [i \in 1..Cardinality(D) |->
                          CHOOSE x \in D : Cardinality(Below(D, R, x)) = i - 1]
      BY DEF InOrder, Below
<1>3. ASSUME NEW i \in 1..Cardinality(D)
      PROVE  /\ InOrder(D, R)[i] \in D
             /\ Cardinality(Below(D, R, InOrder(D, R)[i])) = i - 1
      <2>1. InOrder(D, R)[i] = CHOOSE x \in D : Cardinality(Below(D, R, x)) = i - 1
            BY <1>2
      <2>2. \E x \in D : Cardinality(Below(D, R, x)) = i - 1
            BY RanksReach
      <2> HIDE DEF InOrder
      <2> QED BY <2>1, <2>2
<1>4. InOrder(D, R) \in Seq(D) /\ Len(InOrder(D, R)) = Cardinality(D)
      BY <1>1, <1>2, <1>3
<1>5. ASSUME NEW x \in D
      PROVE  /\ Cardinality(Below(D, R, x)) + 1 \in 1..Cardinality(D)
             /\ InOrder(D, R)[Cardinality(Below(D, R, x)) + 1] = x
      <2> DEFINE i == Cardinality(Below(D, R, x)) + 1
      <2>1. i \in 1..Cardinality(D) /\ Cardinality(Below(D, R, x)) \in Nat
            BY RanksReach, BelowProperty
      <2>2. InOrder(D, R)[i] \in D
            /\ Cardinality(Below(D, R, InOrder(D, R)[i])) = i - 1
            BY <1>3, <2>1
      <2>3. Cardinality(Below(D, R, InOrder(D, R)[i])) = Cardinality(Below(D, R, x))
            BY <2>1, <2>2
      <2>4. InOrder(D, R)[i] = x
            BY <2>2, <2>3, RanksDiffer
      <2> QED BY <2>1, <2>4
<1> QED BY <1>1, <1>3, <1>4, <1>5

\* The earlier element is the lower one.
LEMMA OrderedByPlace ==
    ASSUME NEW D, IsFiniteSet(D), NEW R, StrictOrder(D, R),
           NEW i \in 1..Cardinality(D), NEW j \in 1..Cardinality(D)
    PROVE  i < j <=> <<InOrder(D, R)[i], InOrder(D, R)[j]>> \in R
<1>1. /\ InOrder(D, R)[i] \in D /\ Cardinality(Below(D, R, InOrder(D, R)[i])) = i - 1
      /\ InOrder(D, R)[j] \in D /\ Cardinality(Below(D, R, InOrder(D, R)[j])) = j - 1
      BY OrderedProperty
<1> QED BY <1>1, RanksDiffer

LEMMA OrderedHasAll ==
    ASSUME NEW D, IsFiniteSet(D), NEW R, StrictOrder(D, R)
    PROVE  ToSet(InOrder(D, R)) = D
<1>1. DOMAIN InOrder(D, R) = 1..Cardinality(D)
      BY DEF InOrder
<1> QED BY <1>1, OrderedProperty DEF ToSet

LEMMA CutProperty ==
    ASSUME NEW S, NEW s \in Seq(S), NEW limit \in Nat
    PROVE  /\ UpTo(limit, s) \in Seq(S)
           /\ DOMAIN UpTo(limit, s) =
                 {i \in DOMAIN s : i <= limit}
           /\ \A i \in DOMAIN UpTo(limit, s) : UpTo(limit, s)[i] = s[i]
<1> DEFINE n == IF limit < Len(s) THEN limit ELSE Len(s)
<1>1. /\ Len(s) \in Nat /\ DOMAIN s = 1..Len(s) /\ \A i \in 1..Len(s) : s[i] \in S
      BY ElementOfSeq
<1>2. n \in Nat /\ n <= Len(s)
      BY <1>1
<1>3. 1..n = {i \in DOMAIN s : i <= limit}
      BY <1>1
<1>4. UpTo(limit, s) = SubSeq(s, 1, n)
      BY DEF UpTo
<1> HIDE DEF n
<1>5. /\ SubSeq(s, 1, n) \in Seq(S)
      /\ Len(SubSeq(s, 1, n)) = IF 1 <= n THEN n - 1 + 1 ELSE 0
      /\ \A i \in 1..(n - 1 + 1) : SubSeq(s, 1, n)[i] = s[1 + i - 1]
      <2>1. \A i \in 1..n : s[i] \in S
            BY <1>1, <1>2
      <2> QED BY <1>2, <2>1, SubSeqProperties
<1>6. Len(SubSeq(s, 1, n)) = n
      BY <1>2, <1>5
<1>7. DOMAIN SubSeq(s, 1, n) = 1..n
      BY <1>5, <1>6
<1>8. \A i \in 1..n : SubSeq(s, 1, n)[i] = s[i]
      BY <1>2, <1>5
<1> QED BY <1>3, <1>4, <1>5, <1>7, <1>8

\* Every key has its place in the tree.
LEMMA KeysPlaced ==
    /\ IsFiniteSet(DocId) /\ Cardinality(DocId) \in Nat
    /\ IsFiniteSet(Stored) /\ Cardinality(Stored) \in Nat
    /\ Cardinality(Stored) <= Cardinality(DocId)
    /\ \A k \in DocId : Place[k] \in Nat
    /\ \A D \in SUBSET Stored : IsFiniteSet(D) /\ StrictOrder(D, ByKey)
<1>1. ASSUME NEW k \in DocId PROVE Place[k] \in 1..Len(KeyOrder) /\ KeyOrder[Place[k]] = k
      <2>1. k \in ToSet(KeyOrder) /\ DOMAIN KeyOrder = 1..Len(KeyOrder)
            BY StoreAssumption
      <2>2. \E i \in DOMAIN KeyOrder : KeyOrder[i] = k
            BY <2>1 DEF ToSet
      <2>3. Place[k] = CHOOSE i \in DOMAIN KeyOrder : KeyOrder[i] = k
            BY DEF Place
      <2> QED BY <2>1, <2>2, <2>3
<1>2. Len(KeyOrder) \in Nat
      BY StoreAssumption
<1>3. IsFiniteSet(DocId)
      <2> DEFINE f == [k \in DocId |-> Place[k]]
      <2>1. f \in [DocId -> 1..Len(KeyOrder)]
            BY <1>1
      <2>2. ASSUME NEW x \in DocId, NEW y \in DocId, f[x] = f[y] PROVE x = y
            <3>1. Place[x] = Place[y]
                  BY <2>2
            <3> QED BY <1>1, <3>1
      <2> HIDE DEF f
      <2>3. f \in Injection(DocId, 1..Len(KeyOrder))
            BY <2>1, <2>2 DEF Injection, IsInjective
      <2>4. IsFiniteSet(1..Len(KeyOrder))
            BY <1>2, FirstNumbers
      <2> QED BY <2>3, <2>4, FS_Injection
<1>4. Stored \in SUBSET DocId
      BY DEF Stored
<1>5. /\ Cardinality(DocId) \in Nat /\ IsFiniteSet(Stored) /\ Cardinality(Stored) \in Nat
      /\ Cardinality(Stored) <= Cardinality(DocId)
      BY <1>3, <1>4, SubsetSizes
<1>6. ASSUME NEW D \in SUBSET Stored PROVE IsFiniteSet(D) /\ StrictOrder(D, ByKey)
      <2>1. IsFiniteSet(D)
            BY <1>5, SubsetSizes
      <2>2. ASSUME NEW x \in D, NEW y \in D
            PROVE  /\ <<x, y>> \in ByKey <=> Place[x] < Place[y]
                   /\ Place[x] \in Nat /\ Place[y] \in Nat
                   /\ Place[x] = Place[y] => x = y
            <3>1. x \in Stored /\ y \in Stored /\ x \in DocId /\ y \in DocId
                  BY <1>4
            <3>2. <<x, y>> \in ByKey <=> Place[x] < Place[y]
                  BY <3>1 DEF ByKey
            <3>3. /\ Place[x] \in Nat /\ KeyOrder[Place[x]] = x
                  /\ Place[y] \in Nat /\ KeyOrder[Place[y]] = y
                  BY <1>1, <1>2, <3>1
            <3> QED BY <3>2, <3>3
      <2>3. \A x \in D : <<x, x>> \notin ByKey
            BY <2>2
      <2>4. \A x, y, z \in D : <<x, y>> \in ByKey /\ <<y, z>> \in ByKey => <<x, z>> \in ByKey
            BY <2>2
      <2>5. ASSUME NEW x \in D, NEW y \in D
            PROVE  x = y \/ <<x, y>> \in ByKey \/ <<y, x>> \in ByKey
            <3>1. /\ <<x, y>> \in ByKey <=> Place[x] < Place[y]
                  /\ <<y, x>> \in ByKey <=> Place[y] < Place[x]
                  /\ Place[x] \in Nat /\ Place[y] \in Nat
                  /\ Place[x] = Place[y] => x = y
                  BY <2>2
            <3>2. Place[x] < Place[y] \/ Place[y] < Place[x] \/ Place[x] = Place[y]
                  BY <3>1
            <3> QED BY <3>1, <3>2
      <2> QED BY <2>1, <2>3, <2>4, <2>5 DEF StrictOrder
<1> QED BY <1>1, <1>2, <1>3, <1>5, <1>6

LEMMA PassedAreBelow ==
    ASSUME NEW id \in Stored
    PROVE  Passed(id) = Cardinality(Below(Stored, ByKey, id))
<1>1. {k \in Stored : Place[k] < Place[id]} = Below(Stored, ByKey, id)
      BY DEF Below, ByKey
<1> QED BY <1>1 DEF Passed

\* On a page, everything stands as many places earlier as were skipped.
LEMMA PageRanks ==
    ASSUME NEW offset \in Nat, NEW limit \in Nat,
           NEW P, P = {id \in Stored : Passed(id) \in offset..(offset + limit - 1)},
           NEW x \in P
    PROVE  Cardinality(Below(P, ByKey, x)) = Cardinality(Below(Stored, ByKey, x)) - offset
<1> DEFINE R == ByKey
           skipped == First(Stored, R, offset)
           low == Below(P, R, x)
<1>1. /\ IsFiniteSet(Stored) /\ StrictOrder(Stored, R)
      /\ x \in Stored /\ P \in SUBSET Stored
      BY KeysPlaced
<1>2. \A id \in Stored : /\ Cardinality(Below(Stored, R, id)) \in Nat
                         /\ Passed(id) = Cardinality(Below(Stored, R, id))
      BY <1>1, BelowProperty, PassedAreBelow
<1>3. /\ Cardinality(Below(Stored, R, x)) \in offset..(offset + limit - 1)
      /\ Cardinality(Below(Stored, R, x)) >= offset
      BY <1>1, <1>2
<1>4. x \notin First(Stored, R, offset)
      BY <1>2, <1>3 DEF First
<1>5. Cardinality(skipped) = offset /\ \A s \in skipped : <<s, x>> \in R
      BY <1>1, <1>4, FirstAreMany
<1>6. Below(Stored, R, x) = skipped \cup low /\ skipped \cap low = {}
      <2>1. ASSUME NEW s \in Below(Stored, R, x) PROVE s \in skipped \cup low
            <3>1. s \in Stored /\ <<s, x>> \in R
                  BY DEF Below
            <3>2. Cardinality(Below(Stored, R, s)) < Cardinality(Below(Stored, R, x))
                  BY <1>1, <3>1, RanksDiffer
            <3>3. CASE Cardinality(Below(Stored, R, s)) < offset
                  BY <3>1, <3>3 DEF First
            <3>4. CASE Cardinality(Below(Stored, R, s)) >= offset
                  <4>1. Passed(s) \in offset..(offset + limit - 1)
                        BY <1>2, <1>3, <3>1, <3>2, <3>4
                  <4> QED BY <3>1, <4>1 DEF Below
            <3> QED BY <1>2, <3>1, <3>3, <3>4
      <2>2. ASSUME NEW s \in skipped PROVE s \in Below(Stored, R, x) /\ s \notin low
            <3>1. s \in Stored /\ Cardinality(Below(Stored, R, s)) < offset
                  BY DEF First
            <3>2. s \notin P
                  BY <1>2, <3>1
            <3> QED BY <1>5, <3>1, <3>2 DEF Below
      <2>3. low \subseteq Below(Stored, R, x)
            BY <1>1 DEF Below
      <2> QED BY <2>1, <2>2, <2>3
<1>7. /\ IsFiniteSet(skipped) /\ Cardinality(skipped) \in Nat
      /\ IsFiniteSet(low) /\ Cardinality(low) \in Nat
      <2>1. skipped \in SUBSET Stored /\ low \in SUBSET Stored
            BY <1>1 DEF First, Below
      <2> QED BY <1>1, <2>1, SubsetSizes
<1> HIDE DEF skipped, low
<1>8. Cardinality(skipped \cup low) =
         Cardinality(skipped) + Cardinality(low) - Cardinality(skipped \cap low)
      BY <1>7, FS_Union
<1>9. Cardinality(skipped \cap low) = 0
      BY <1>6, FS_EmptySet
<1>10. Cardinality(Below(Stored, R, x)) = offset + Cardinality(low)
      BY <1>5, <1>6, <1>7, <1>8, <1>9
<1> QED BY <1>7, <1>10 DEF low

\* A page continues the list where the offset says.
LEMMA PageProperty ==
    ASSUME NEW offset \in Nat, NEW limit \in Nat
    PROVE  LET page == ListDocumentIds(offset, limit)
           IN  /\ Len(page) <= limit
               /\ \A i \in 1..limit :
                     /\ i \in DOMAIN page <=> offset + i \in DOMAIN InKeyOrder
                     /\ i \in DOMAIN page => page[i] = InKeyOrder[offset + i]
<1> DEFINE P == {id \in Stored : Passed(id) \in offset..(offset + limit - 1)}
           R == ByKey
<1>1. P \in SUBSET Stored
      OBVIOUS
<1>2. /\ IsFiniteSet(Stored) /\ StrictOrder(Stored, R) /\ Cardinality(Stored) \in Nat
      /\ IsFiniteSet(P) /\ StrictOrder(P, R)
      BY <1>1, KeysPlaced
<1>3. /\ ListDocumentIds(offset, limit) = InOrder(P, R)
      /\ InKeyOrder = InOrder(Stored, R)
      BY DEF ListDocumentIds, InKeyOrder
<1>4. /\ DOMAIN InOrder(P, R) = 1..Cardinality(P)
      /\ DOMAIN InOrder(Stored, R) = 1..Cardinality(Stored)
      BY DEF InOrder
<1>5. \A id \in Stored : /\ Cardinality(Below(Stored, R, id)) \in Nat
                         /\ Passed(id) = Cardinality(Below(Stored, R, id))
      BY <1>2, BelowProperty, PassedAreBelow
<1>6. \A x \in P : /\ Cardinality(Below(Stored, R, x)) \in offset..(offset + limit - 1)
                   /\ Cardinality(Below(P, R, x)) = Cardinality(Below(Stored, R, x)) - offset
      <2> SUFFICES ASSUME NEW x \in P
                   PROVE  /\ Cardinality(Below(Stored, R, x)) \in offset..(offset + limit - 1)
                          /\ Cardinality(Below(P, R, x)) = Cardinality(Below(Stored, R, x)) - offset
          OBVIOUS
      <2>1. x \in Stored /\ Passed(x) \in offset..(offset + limit - 1)
            OBVIOUS
      <2>2. Cardinality(Below(Stored, R, x)) \in offset..(offset + limit - 1)
            BY ONLY <1>5, <2>1
      <2>3. P = {id \in Stored : Passed(id) \in offset..(offset + limit - 1)} /\ x \in P
            OBVIOUS
      <2> HIDE DEF P
      <2>4. Cardinality(Below(P, ByKey, x)) = Cardinality(Below(Stored, ByKey, x)) - offset
            BY ONLY <2>3, PageRanks
      <2> QED BY <2>2, <2>4
<1>7. \A x \in Stored : Cardinality(Below(Stored, R, x)) \in offset..(offset + limit - 1)
                           => x \in P
      BY <1>5
<1> HIDE DEF P, R
<1>8. /\ Cardinality(P) \in Nat /\ Len(InOrder(P, R)) = Cardinality(P)
      /\ \A i \in 1..Cardinality(P) : /\ InOrder(P, R)[i] \in P
                                      /\ Cardinality(Below(P, R, InOrder(P, R)[i])) = i - 1
      /\ \A x \in P : Cardinality(Below(P, R, x)) + 1 \in 1..Cardinality(P)
      BY <1>2, OrderedProperty
<1>9. /\ \A i \in 1..Cardinality(Stored) :
            /\ InOrder(Stored, R)[i] \in Stored
            /\ Cardinality(Below(Stored, R, InOrder(Stored, R)[i])) = i - 1
      /\ \A x \in Stored :
            /\ Cardinality(Below(Stored, R, x)) + 1 \in 1..Cardinality(Stored)
            /\ InOrder(Stored, R)[Cardinality(Below(Stored, R, x)) + 1] = x
      BY <1>2, OrderedProperty
<1>10. ASSUME NEW i \in 1..Cardinality(P)
       PROVE  /\ i <= limit /\ offset + i \in 1..Cardinality(Stored)
              /\ InOrder(P, R)[i] = InOrder(Stored, R)[offset + i]
      <2> DEFINE x == InOrder(P, R)[i]
      <2>1. x \in P /\ x \in Stored /\ Cardinality(Below(P, R, x)) = i - 1
            BY <1>1, <1>8
      <2>2. /\ Cardinality(Below(Stored, R, x)) \in offset..(offset + limit - 1)
            /\ i - 1 = Cardinality(Below(Stored, R, x)) - offset
            BY <1>6, <2>1
      <2>3. /\ Cardinality(Below(Stored, R, x)) + 1 \in 1..Cardinality(Stored)
            /\ InOrder(Stored, R)[Cardinality(Below(Stored, R, x)) + 1] = x
            BY <1>9, <2>1
      <2>4. i \in Nat
            BY <1>8
      <2> HIDE DEF x
      <2>5. Cardinality(Below(Stored, R, x)) + 1 = offset + i /\ i <= limit
            BY <2>2, <2>4
      <2> QED BY <2>3, <2>5 DEF x
<1>11. ASSUME NEW i \in 1..limit, offset + i \in 1..Cardinality(Stored)
       PROVE  i \in 1..Cardinality(P)
      <2> DEFINE x == InOrder(Stored, R)[offset + i]
      <2>1. x \in Stored /\ Cardinality(Below(Stored, R, x)) = offset + i - 1
            BY <1>9, <1>11
      <2> HIDE DEF x
      <2>2. x \in P
            BY <1>7, <2>1
      <2>3. Cardinality(Below(P, R, x)) + 1 = i
            BY <1>6, <2>1, <2>2
      <2> QED BY <1>8, <2>2, <2>3
<1>12. Len(InOrder(P, R)) <= limit
      <2>1. CASE Cardinality(P) = 0
            BY <1>8, <2>1
      <2>2. CASE Cardinality(P) # 0
            <3>1. Cardinality(P) \in 1..Cardinality(P)
                  BY <1>8, <2>2
            <3> QED BY <1>8, <1>10, <3>1
      <2> QED BY <2>1, <2>2
<1> QED BY <1>3, <1>4, <1>10, <1>11, <1>12

LEMMA ReadsAlwaysAgree == DocsSound(db) => ReadsAgree
<1> SUFFICES ASSUME DocsSound(db) PROVE ReadsAgree
    OBVIOUS
<1> USE KeysPlaced
<1>1. InKeyOrder = InOrder(Stored, ByKey) /\ Stored \in SUBSET Stored
      BY DEF InKeyOrder
<1>2. DOMAIN InKeyOrder = 1..Cardinality(Stored)
      BY <1>1 DEF InOrder
<1>3. Len(InKeyOrder) = CountDocuments
      BY <1>1, OrderedProperty DEF CountDocuments
<1>4. ASSUME NEW i \in DOMAIN InKeyOrder, NEW j \in DOMAIN InKeyOrder, i < j
      PROVE  Place[InKeyOrder[i]] < Place[InKeyOrder[j]]
      <2>1. <<InKeyOrder[i], InKeyOrder[j]>> \in ByKey
            BY <1>1, <1>2, <1>4, OrderedByPlace
      <2> QED BY <2>1 DEF ByKey
<1>5. \A offset \in 0..Cardinality(DocId), limit \in 1..Cardinality(DocId) :
          LET page == ListDocumentIds(offset, limit)
          IN  /\ Len(page) <= limit
              /\ \A i \in 1..limit :
                    /\ i \in DOMAIN page <=> offset + i \in DOMAIN InKeyOrder
                    /\ i \in DOMAIN page => page[i] = InKeyOrder[offset + i]
      <2>1. 0..Cardinality(DocId) \subseteq Nat /\ 1..Cardinality(DocId) \subseteq Nat
            OBVIOUS
      <2> QED BY <2>1, PageProperty
<1>6. ASSUME NEW id \in DocId PROVE DocumentExists(id) <=> id \in Stored
      BY DEF DocumentExists, Stored
<1>7. ToSet(InKeyOrder) = Stored
      BY <1>1, OrderedHasAll
<1>8. ASSUME NEW m
      PROVE  ToSet(SearchByMetadata(m, Cardinality(DocId))) =
                 {id \in Stored : db[id].metadata = m}
      <2> DEFINE D == {id \in Stored : db[id].metadata = m}
                 s == InOrder(D, ByKey)
                 limit == IF Cardinality(DocId) = 0 THEN 1 ELSE Cardinality(DocId)
      <2>1. IsFiniteSet(D) /\ StrictOrder(D, ByKey) /\ D \in SUBSET Stored
            OBVIOUS
      <2>2. limit \in Nat /\ Cardinality(DocId) <= limit
            OBVIOUS
      <2>3. SearchByMetadata(m, Cardinality(DocId)) = UpTo(limit, s)
            BY DEF SearchByMetadata
      <2> HIDE DEF D, limit
      <2>4. /\ s \in Seq(D) /\ Cardinality(D) \in Nat /\ ToSet(s) = D
            BY <2>1, OrderedProperty, OrderedHasAll
      <2>5. DOMAIN s = 1..Cardinality(D)
            BY DEF InOrder
      <2>6. Cardinality(D) <= Cardinality(Stored)
            BY <2>1, SubsetSizes
      <2> HIDE DEF s
      <2>7. /\ DOMAIN UpTo(limit, s) = {i \in DOMAIN s : i <= limit}
            /\ \A i \in DOMAIN UpTo(limit, s) : UpTo(limit, s)[i] = s[i]
            BY <2>2, <2>4, CutProperty
      <2>8. \A i \in DOMAIN s : i <= limit
            BY <2>2, <2>4, <2>5, <2>6
      <2>9. DOMAIN UpTo(limit, s) = DOMAIN s
            BY <2>7, <2>8
      <2>10. ToSet(UpTo(limit, s)) = ToSet(s)
            BY <2>7, <2>9 DEF ToSet
      <2> QED BY <2>3, <2>4, <2>10 DEF D
<1>9. ASSUME NEW id \in Stored
      PROVE  \E m \in Metadata : id \in ToSet(SearchByMetadata(m, Cardinality(DocId)))
      <2>1. db[id] \in DocumentRecord
            BY DEF DocsSound, Stored
      <2>2. db[id].metadata \in Metadata
            BY <2>1 DEF DocumentRecord
      <2> QED BY <1>8, <2>2
<1>10. \A id \in DocId :
          /\ DocumentExists(id) <=> id \in ToSet(InKeyOrder)
          /\ DocumentExists(id) <=>
                \E m \in Metadata : id \in ToSet(SearchByMetadata(m, Cardinality(DocId)))
      BY <1>6, <1>7, <1>8, <1>9
<1> QED BY <1>3, <1>4, <1>5, <1>10 DEF ReadsAgree

\* What has a score stands in a strict order, however it was met.
LEMMA ScoresAreStrict ==
    ASSUME NEW score, IsFiniteSet(DOMAIN score), \A x \in DOMAIN score : score[x] \in Int,
           NEW met, \A x \in DOMAIN score : met[x] \in Int,
           \A x, y \in DOMAIN score : met[x] = met[y] => x = y
    PROVE  StrictOrder(DOMAIN score, ByScore(score, met))
<1> DEFINE D == DOMAIN score
           R == ByScore(score, met)
<1>1. \A x, y \in D : <<x, y>> \in R <=>
         score[x] > score[y] \/ (score[x] = score[y] /\ met[x] < met[y])
      BY DEF ByScore
<1>2. \A x \in D : score[x] \in Int /\ met[x] \in Int
      OBVIOUS
<1>3. \A x, y \in D : met[x] = met[y] => x = y
      OBVIOUS
<1> HIDE DEF D, R
<1>4. \A x \in D : <<x, x>> \notin R
      BY <1>1, <1>2
<1>5. ASSUME NEW x \in D, NEW y \in D, NEW z \in D, <<x, y>> \in R, <<y, z>> \in R
      PROVE  <<x, z>> \in R
      BY <1>1, <1>2, <1>5
<1>6. ASSUME NEW x \in D, NEW y \in D PROVE x = y \/ <<x, y>> \in R \/ <<y, x>> \in R
      <2>1. score[x] \in Int /\ score[y] \in Int /\ met[x] \in Int /\ met[y] \in Int
            BY <1>2
      <2>2. \/ score[x] > score[y] \/ score[y] > score[x]
            \/ score[x] = score[y] /\ (met[x] < met[y] \/ met[y] < met[x] \/ met[x] = met[y])
            BY <2>1
      <2> QED BY <1>1, <1>3, <2>2
<1>7. StrictOrder(D, R)
      BY <1>4, <1>5, <1>6 DEF StrictOrder
<1> QED BY <1>7 DEF D, R

\* What is cut off stands above all that is left.
LEMMA CutInOrder ==
    ASSUME NEW D, IsFiniteSet(D), NEW R, StrictOrder(D, R), NEW limit \in Nat
    PROVE  LET best == UpTo(limit, InOrder(D, R))
           IN  /\ ToSet(best) \subseteq D
               /\ \A x, y \in D : <<x, y>> \in R =>
                     /\ y \in ToSet(best) => x \in ToSet(best)
                     /\ \A i, j \in DOMAIN best : best[i] = x /\ best[j] = y => i < j
<1> DEFINE s == InOrder(D, R)
           best == UpTo(limit, s)
<1>1. s \in Seq(D) /\ DOMAIN s = 1..Cardinality(D) /\ Cardinality(D) \in Nat
      <2>1. DOMAIN s = 1..Cardinality(D)
            BY DEF InOrder
      <2> QED BY <2>1, OrderedProperty
<1>2. /\ \A i \in DOMAIN s : s[i] \in D /\ Cardinality(Below(D, R, s[i])) = i - 1
      /\ \A x \in D : /\ Cardinality(Below(D, R, x)) + 1 \in DOMAIN s
                      /\ s[Cardinality(Below(D, R, x)) + 1] = x
      <2>1. ASSUME NEW i \in 1..Cardinality(D)
            PROVE  s[i] \in D /\ Cardinality(Below(D, R, s[i])) = i - 1
            BY OrderedProperty
      <2>2. ASSUME NEW x \in D
            PROVE  /\ Cardinality(Below(D, R, x)) + 1 \in 1..Cardinality(D)
                   /\ s[Cardinality(Below(D, R, x)) + 1] = x
            BY OrderedProperty
      <2> HIDE DEF s
      <2> QED BY <1>1, <2>1, <2>2
<1> HIDE DEF s
<1>3. /\ DOMAIN best = {i \in DOMAIN s : i <= limit}
      /\ \A i \in DOMAIN best : best[i] = s[i]
      BY <1>1, CutProperty
<1> HIDE DEF best
<1>4. ToSet(best) \subseteq D
      BY <1>2, <1>3 DEF ToSet
<1>5. ASSUME NEW x \in D, NEW y \in D, <<x, y>> \in R
      PROVE  Cardinality(Below(D, R, x)) < Cardinality(Below(D, R, y))
      BY <1>5, RanksDiffer
<1>6. \A i \in DOMAIN best : i \in Nat /\ i <= limit
                             /\ Cardinality(Below(D, R, best[i])) = i - 1
      BY <1>1, <1>2, <1>3
<1>7. ASSUME NEW x \in D, NEW y \in D, <<x, y>> \in R, y \in ToSet(best)
      PROVE  x \in ToSet(best)
      <2>1. PICK j \in DOMAIN best : best[j] = y
            BY <1>7 DEF ToSet
      <2> DEFINE i == Cardinality(Below(D, R, x)) + 1
      <2>2. Cardinality(Below(D, R, x)) < j - 1 /\ j <= limit /\ j \in Nat
            BY <1>5, <1>6, <1>7, <2>1
      <2>3. i \in DOMAIN s /\ s[i] = x
            BY <1>2
      <2>4. Cardinality(Below(D, R, x)) \in Nat
            BY BelowProperty
      <2>5. i <= limit
            BY <2>2, <2>4
      <2> HIDE DEF i
      <2>6. i \in DOMAIN best /\ best[i] = x
            BY <1>3, <2>3, <2>5
      <2> QED BY <2>6 DEF ToSet
<1>8. ASSUME NEW x \in D, NEW y \in D, <<x, y>> \in R,
             NEW i \in DOMAIN best, NEW j \in DOMAIN best, best[i] = x, best[j] = y
      PROVE  i < j
      <2>1. i - 1 < j - 1 /\ i \in Nat /\ j \in Nat
            BY <1>5, <1>6, <1>8
      <2> QED BY <2>1
<1> QED BY <1>4, <1>7, <1>8 DEF best, s

\* Of the best, everything has a score, and who scores higher comes first.
LEMMA BestProperty ==
    ASSUME NEW score, IsFiniteSet(DOMAIN score), \A x \in DOMAIN score : score[x] \in Int,
           NEW met, \A x \in DOMAIN score : met[x] \in Int,
           \A x, y \in DOMAIN score : met[x] = met[y] => x = y,
           NEW limit \in Nat
    PROVE  LET best == Best(score, met, limit)
           IN  /\ ToSet(best) \subseteq DOMAIN score
               /\ \A x, y \in DOMAIN score : score[x] > score[y] =>
                     /\ y \in ToSet(best) => x \in ToSet(best)
                     /\ \A i, j \in DOMAIN best : best[i] = x /\ best[j] = y => i < j
<1> DEFINE D == DOMAIN score
           R == ByScore(score, met)
           best == UpTo(limit, InOrder(D, R))
<1>1. IsFiniteSet(D) /\ StrictOrder(D, R)
      BY ScoresAreStrict
<1>2. \A x, y \in D : score[x] > score[y] => <<x, y>> \in R
      BY DEF ByScore
<1>3. Best(score, met, limit) = best
      BY DEF Best
<1>4. /\ ToSet(best) \subseteq D
      /\ \A x, y \in D : <<x, y>> \in R =>
            /\ y \in ToSet(best) => x \in ToSet(best)
            /\ \A i, j \in DOMAIN best : best[i] = x /\ best[j] = y => i < j
      <2> HIDE DEF D, R
      <2> QED BY <1>1, CutInOrder
<1> HIDE DEF best, R
<1> QED BY <1>2, <1>3, <1>4

\* A weighted sum of two scores keeps what both of them say.
LEMMA WeightsHonourBoth ==
    ASSUME NEW alpha \in 1..9, NEW t \in Int, NEW u \in Int, NEW v \in Int, NEW w \in Int,
           t >= u, v >= w, t > u \/ v > w
    PROVE  alpha * t + (10 - alpha) * v > alpha * u + (10 - alpha) * w
<1>1. alpha \in {1, 2, 3, 4, 5, 6, 7, 8, 9}
      OBVIOUS
<1> QED BY <1>1

LEMMA WeightedIsInt ==
    ASSUME NEW alpha \in 1..9, NEW t \in Int, NEW u \in Int
    PROVE  alpha * t + (10 - alpha) * u \in Int
<1>1. alpha \in {1, 2, 3, 4, 5, 6, 7, 8, 9}
      OBVIOUS
<1> QED BY <1>1

LEMMA HybridAlwaysHonoursBoth == DocsSound(db) => HybridHonoursBoth
<1> SUFFICES ASSUME DocsSound(db) PROVE HybridHonoursBoth
    OBVIOUS
<1>1. ASSUME NEW id \in Stored
      PROVE  TextScore[id] \in Int /\ (db[id].vector # None => db[id].vector \in Int)
      <2>1. db[id] \in DocumentRecord
            BY DEF DocsSound, Stored
      <2>2. db[id].vector \in (-10..10) \cup {None}
            BY <2>1 DEF DocumentRecord
      <2>3. TextScore[id] \in Int
            BY DEF TextScore
      <2> QED BY <2>2, <2>3
<1>2. /\ DOMAIN Similarity \subseteq Stored
      /\ \A id \in DOMAIN Similarity : Similarity[id] \in Int
      BY <1>1 DEF Similarity
<1>3. \A D \in SUBSET Stored : /\ IsFiniteSet(D)
                               /\ \A x \in D : Place[x] \in Int
                               /\ \A x, y \in D : Place[x] = Place[y] => x = y
      <2>1. \A x \in Stored : Place[x] \in Nat
            BY KeysPlaced DEF Stored
      <2>2. ASSUME NEW x \in Stored, NEW y \in Stored, Place[x] = Place[y] PROVE x = y
            <3>1. StrictOrder(Stored, ByKey)
                  BY KeysPlaced
            <3>2. x = y \/ <<x, y>> \in ByKey \/ <<y, x>> \in ByKey
                  BY <3>1 DEF StrictOrder
            <3>3. ~ (Place[x] < Place[y]) /\ ~ (Place[y] < Place[x])
                  BY <2>1, <2>2
            <3> QED BY <3>2, <3>3 DEF ByKey
      <2> QED BY <2>1, <2>2, KeysPlaced
<1>4. ASSUME NEW f, NEW D \in SUBSET Stored, \A x \in D : f[x] \in Int, NEW n \in Nat
      PROVE  ToSet(Best(Restrict(f, D), Place, n)) \subseteq D
      <2> DEFINE score == Restrict(f, D)
      <2>1. DOMAIN score = D /\ \A x \in D : score[x] = f[x]
            BY DEF Restrict
      <2> HIDE DEF score
      <2>2. IsFiniteSet(DOMAIN score) /\ \A x \in DOMAIN score : score[x] \in Int
            BY <1>3, <1>4, <2>1
      <2>3. /\ \A x \in DOMAIN score : Place[x] \in Int
            /\ \A x, y \in DOMAIN score : Place[x] = Place[y] => x = y
            BY <1>3, <2>1
      <2>4. ToSet(Best(score, Place, n)) \subseteq DOMAIN score
            BY <2>2, <2>3, BestProperty
      <2> QED BY <2>1, <2>4 DEF score
<1>5. ASSUME NEW limit \in Nat
      PROVE  /\ ToSet(TextSearch(2 * limit)) \subseteq Stored
             /\ ToSet(VectorSearch(2 * limit, -10)) \subseteq DOMAIN Similarity
      <2>1. 2 * limit \in Nat
            OBVIOUS
      <2>2. ToSet(TextSearch(2 * limit)) \subseteq {id \in Stored : TextScore[id] > 0}
            BY <1>1, <1>4, <2>1 DEF TextSearch
      <2>3. ToSet(VectorSearch(2 * limit, -10)) \subseteq
               {id \in DOMAIN Similarity : Similarity[id] >= -10}
            BY <1>2, <1>4, <2>1 DEF VectorSearch
      <2> QED BY <2>2, <2>3
<1>6. ASSUME NEW limit \in 1..Cardinality(DocId), NEW alpha \in 1..9,
             NEW found \in HybridSearch(limit, alpha, TRUE),
             NEW x \in ToSet(TextSearch(2 * limit)) \cap ToSet(VectorSearch(2 * limit, -10)),
             NEW y \in ToSet(TextSearch(2 * limit)) \cap ToSet(VectorSearch(2 * limit, -10)),
             TextScore[x] >= TextScore[y], Similarity[x] >= Similarity[y],
             TextScore[x] > TextScore[y] \/ Similarity[x] > Similarity[y]
      PROVE  /\ y \in ToSet(found) => x \in ToSet(found)
             /\ \A i, j \in DOMAIN found : found[i] = x /\ found[j] = y => i < j
      <2> DEFINE texts == ToSet(TextSearch(2 * limit))
                 nearest == ToSet(VectorSearch(2 * limit, -10))
                 score == HybridScores(limit, alpha)
      <2>1. limit \in Nat
            BY KeysPlaced
      <2>2. texts \subseteq Stored /\ nearest \subseteq DOMAIN Similarity
            BY <1>5, <2>1
      <2>3. score = [id \in texts \cup nearest |->
                        IF id \in texts \cap nearest
                        THEN alpha * TextScore[id] + (10 - alpha) * Similarity[id]
                        ELSE IF id \in texts THEN 10 * TextScore[id] ELSE 10 * Similarity[id]]
            BY DEF HybridScores
      <2>4. PICK met \in Injection(Stored, 1..Cardinality(Stored)) :
               found = Best(score, met, limit)
            BY DEF HybridSearch
      <2>5. x \in texts \cap nearest /\ y \in texts \cap nearest
            OBVIOUS
      <2> HIDE DEF texts, nearest, score
      <2>6. DOMAIN score = texts \cup nearest /\ DOMAIN score \in SUBSET Stored
            BY <1>2, <2>2, <2>3
      <2>7. ASSUME NEW id \in DOMAIN score PROVE score[id] \in Int
            <3>1. /\ id \in texts => TextScore[id] \in Int
                  /\ id \in nearest => Similarity[id] \in Int
                  BY <1>1, <1>2, <2>2
            <3>2. CASE id \in texts \cap nearest
                  <4>1. score[id] = alpha * TextScore[id] + (10 - alpha) * Similarity[id]
                        BY <2>3, <3>2
                  <4> QED BY <3>1, <3>2, <4>1, WeightedIsInt
            <3>3. CASE id \in texts /\ id \notin nearest
                  BY <2>3, <3>1, <3>3
            <3>4. CASE id \in nearest /\ id \notin texts
                  BY <2>3, <3>1, <3>4
            <3> QED BY <2>6, <3>2, <3>3, <3>4
      <2>8. /\ \A id \in DOMAIN score : met[id] \in Int
            /\ \A a, b \in DOMAIN score : met[a] = met[b] => a = b
            <3>1. met \in [Stored -> 1..Cardinality(Stored)] /\ IsInjective(met)
                  BY DEF Injection
            <3>2. \A a, b \in Stored : met[a] = met[b] => a = b
                  BY <3>1 DEF IsInjective
            <3>3. \A a \in Stored : met[a] \in Int
                  BY <3>1
            <3> QED BY <2>6, <3>2, <3>3
      <2>9. score[x] > score[y]
            <3>1. /\ TextScore[x] \in Int /\ Similarity[x] \in Int
                  /\ TextScore[y] \in Int /\ Similarity[y] \in Int
                  BY <1>1, <1>2, <2>2, <2>5
            <3>2. /\ score[x] = alpha * TextScore[x] + (10 - alpha) * Similarity[x]
                  /\ score[y] = alpha * TextScore[y] + (10 - alpha) * Similarity[y]
                  BY <2>3, <2>5
            <3>3. alpha * TextScore[x] + (10 - alpha) * Similarity[x] >
                     alpha * TextScore[y] + (10 - alpha) * Similarity[y]
                  BY <1>6, <3>1, WeightsHonourBoth
            <3> QED BY <3>2, <3>3
      <2>10. x \in DOMAIN score /\ y \in DOMAIN score /\ IsFiniteSet(DOMAIN score)
            BY <1>3, <2>5, <2>6
      <2> DEFINE best == Best(score, met, limit)
      <2>11. \A id \in DOMAIN score : score[id] \in Int
            BY <2>7
      <2>12. \A a, b \in DOMAIN score : score[a] > score[b] =>
                /\ b \in ToSet(best) => a \in ToSet(best)
                /\ \A i, j \in DOMAIN best : best[i] = a /\ best[j] = b => i < j
            <3>1. /\ ToSet(best) \subseteq DOMAIN score
                  /\ \A a, b \in DOMAIN score : score[a] > score[b] =>
                        /\ b \in ToSet(best) => a \in ToSet(best)
                        /\ \A i, j \in DOMAIN best : best[i] = a /\ best[j] = b => i < j
                  BY ONLY <2>1, <2>8, <2>10, <2>11, BestProperty, Zenon
            <3> QED BY ONLY <3>1, Zenon
      <2>13. found = best
            BY <2>4
      <2> HIDE DEF best
      <2> QED BY ONLY <2>9, <2>10, <2>12, <2>13
<1> SUFFICES \A limit \in 1..Cardinality(DocId) :
                \A x, y \in ToSet(TextSearch(2 * limit)) \cap ToSet(VectorSearch(2 * limit, -10)) :
                   /\ TextScore[x] >= TextScore[y] /\ Similarity[x] >= Similarity[y]
                   /\ TextScore[x] > TextScore[y] \/ Similarity[x] > Similarity[y]
                   => \A alpha \in 1..9 : \A found \in HybridSearch(limit, alpha, TRUE) :
                         /\ y \in ToSet(found) => x \in ToSet(found)
                         /\ \A i, j \in DOMAIN found : found[i] = x /\ found[j] = y => i < j
    BY Zenon DEF HybridHonoursBoth
<1> TAKE limit \in 1..Cardinality(DocId)
<1> TAKE x, y \in ToSet(TextSearch(2 * limit)) \cap ToSet(VectorSearch(2 * limit, -10))
<1>7. HAVE /\ TextScore[x] >= TextScore[y] /\ Similarity[x] >= Similarity[y]
           /\ TextScore[x] > TextScore[y] \/ Similarity[x] > Similarity[y]
<1> TAKE alpha \in 1..9
<1> TAKE found \in HybridSearch(limit, alpha, TRUE)
<1> QED BY ONLY <1>6, <1>7, Zenon

\* The keys of databases and files, and the seconds of the clock.
AllKeys == DocId \cup ForeignKey \cup TreeKey

StoreTyped ==
    /\ db \in past /\ \A d \in past : DOMAIN d \subseteq AllKeys
    /\ DOMAIN files \subseteq Path /\ \A p \in DOMAIN files : DOMAIN files[p] \subseteq AllKeys
    /\ restoring # None =>
          /\ DOMAIN restoring = {"left", "all", "cleared"}
          /\ DOMAIN restoring.left \subseteq AllKeys
    /\ second \in 1..MaxSecond
    /\ DOMAIN begun \subseteq 1..MaxSecond

LEMMA StoreTypesStart == StoreInit => StoreTyped
<1> SUFFICES ASSUME StoreInit PROVE StoreTyped
    OBVIOUS
<1>1. DOMAIN << >> = {}
      OBVIOUS
<1>2. 1 \in 1..MaxSecond
      BY StoreAssumption
<1> QED BY <1>1, <1>2 DEF StoreInit, StoreTyped

LEMMA StoreTypesStay == StoreTyped /\ [StoreNext]_storeVars => StoreTyped'
<1> SUFFICES ASSUME StoreTyped, [StoreNext]_storeVars PROVE StoreTyped'
    OBVIOUS
<1>1. /\ db \in past /\ \A d \in past : DOMAIN d \subseteq AllKeys
      /\ DOMAIN db \subseteq AllKeys
      BY DEF StoreTyped
<1>2. \A ks : DOMAIN Without(db, ks) \subseteq AllKeys
      BY <1>1 DEF Without
<1>3. ASSUME NEW d, DOMAIN d \subseteq AllKeys, Write(d) PROVE StoreTyped'
      BY <1>1, <1>3 DEF StoreTyped, Write, Writable
<1>4. ASSUME NEW id \in DocId, NEW d, InsertDocument(id, d) PROVE StoreTyped'
      <2>1. DOMAIN With(db, [k \in {id} |-> Record(d)]) \subseteq AllKeys
            BY <1>1 DEF AllKeys, With
      <2> QED BY <1>3, <1>4, <2>1 DEF InsertDocument
<1>5. ASSUME NEW d, BatchInsertDocuments(DocId, d) PROVE StoreTyped'
      <2>1. DOMAIN With(db, [k \in DocId |-> Record(d)]) \subseteq AllKeys
            BY <1>1 DEF AllKeys, With
      <2> QED BY <1>3, <1>5, <2>1 DEF BatchInsertDocuments
<1>6. ASSUME NEW id \in DocId, NEW d, UpdateDocument(id, d) PROVE StoreTyped'
      <2>1. \A new : DOMAIN [db EXCEPT ![id] = new] \subseteq AllKeys
            BY <1>1
      <2>2. \E new : Write([db EXCEPT ![id] = new])
            BY <1>6 DEF UpdateDocument
      <2> QED BY <1>3, <2>1, <2>2
<1>7. ASSUME NEW id \in DocId, NEW m, UpdateDocumentMetadata(id, m) PROVE StoreTyped'
      <2>1. \A new : DOMAIN [db EXCEPT ![id] = new] \subseteq AllKeys
            BY <1>1
      <2>2. \E new : Write([db EXCEPT ![id] = new])
            BY <1>7 DEF UpdateDocumentMetadata
      <2> QED BY <1>3, <2>1, <2>2
<1>8. ASSUME NEW ks, Write(Without(db, ks)) PROVE StoreTyped'
      <2>1. DOMAIN Without(db, ks) \subseteq AllKeys
            BY <1>2
      <2> QED BY <1>3, <1>8, <2>1
<1>9. CASE (\E id \in DocId : DeleteDocument(id)) \/ ClearStore
      BY <1>8, <1>9 DEF DeleteDocument, ClearStore, Cleared
<1>10. ASSUME NEW k \in ForeignKey \cup TreeKey, NEW value, WriteForeign(k, value)
       PROVE  StoreTyped'
      <2>1. DOMAIN With(db, [x \in {k} |-> value]) \subseteq AllKeys
            BY <1>1 DEF AllKeys, With
      <2> QED BY <1>3, <1>10, <2>1 DEF WriteForeign
<1>11. CASE OptimizeStore
      <2>1. DOMAIN Without(db, {k \in DOMAIN db : db[k] = Empty}) \subseteq AllKeys
            BY <1>2
      <2> QED BY <1>1, <1>11, <2>1 DEF OptimizeStore, StoreTyped, Writable
<1>12. CASE BackgroundFlush \/ Crash
      BY <1>1, <1>12 DEF BackgroundFlush, Crash, StoreTyped
<1>13. DOMAIN Contents(db) \subseteq AllKeys
      BY <1>2 DEF Contents
<1>14. ASSUME NEW p \in Path
       PROVE  LET f == With(files, [x \in {p} |-> Contents(db)])
              IN  DOMAIN f \subseteq Path /\ \A x \in DOMAIN f : DOMAIN f[x] \subseteq AllKeys
      <2> DEFINE f == With(files, [x \in {p} |-> Contents(db)])
      <2>1. /\ DOMAIN f = DOMAIN files \cup {p} /\ f[p] = Contents(db)
            /\ \A x \in DOMAIN files : x # p => f[x] = files[x]
            BY DEF With
      <2> HIDE DEF f
      <2>2. DOMAIN f \subseteq Path /\ \A x \in DOMAIN f : DOMAIN f[x] \subseteq AllKeys
            BY <1>13, <2>1 DEF StoreTyped
      <2> QED BY <2>2 DEF f
<1>15. CASE Backup
      <2>1. Given \in Path
            BY StoreAssumption DEF Given, Path
      <2>2. /\ files' = With(files, [p \in {Given} |-> Contents(db)])
            /\ UNCHANGED <<db, past, restoring, second, begun>>
            BY <1>15 DEF Backup
      <2> QED BY <1>14, <2>1, <2>2 DEF StoreTyped
<1>16. ASSUME NEW path \in Path, BeginRestore(path) PROVE StoreTyped'
      <2>1. /\ path \in DOMAIN files /\ UNCHANGED <<db, past, second>>
            /\ restoring' = [left |-> files[path], all |-> files[path], cleared |-> FALSE]
            BY <1>16 DEF BeginRestore
      <2>2. second \in 1..MaxSecond /\ second \in Path
            BY StoreAssumption DEF StoreTyped, Path
      <2>3. DOMAIN files' \subseteq Path /\ \A p \in DOMAIN files' : DOMAIN files'[p] \subseteq AllKeys
            BY <1>14, <1>16, <2>2 DEF BeginRestore, StoreTyped
      <2>4. DOMAIN begun' \subseteq 1..MaxSecond
            <3>1. DOMAIN begun \subseteq 1..MaxSecond
                  BY DEF StoreTyped
            <3>2. CASE begun' = With(begun, [s \in {second} |-> Contents(db)])
                  <4>1. DOMAIN begun' = DOMAIN begun \cup {second}
                        BY <3>2 DEF With
                  <4> QED BY <2>2, <3>1, <4>1
            <3>3. CASE begun' = Without(begun, {second})
                  <4>1. DOMAIN begun' = DOMAIN begun \ {second}
                        BY <3>3 DEF Without
                  <4> QED BY <3>1, <4>1
            <3> QED BY <1>16, <3>2, <3>3 DEF BeginRestore
      <2>5. DOMAIN restoring' = {"left", "all", "cleared"} /\ restoring'.left = files[path]
            BY <2>1
      <2>6. DOMAIN files[path] \subseteq AllKeys
            BY <2>1 DEF StoreTyped
      <2> QED BY <2>1, <2>2, <2>3, <2>4, <2>5, <2>6 DEF StoreTyped
<1>17. CASE ClearForRestore
      <2>1. DOMAIN Cleared(db) \subseteq AllKeys
            BY <1>2 DEF Cleared
      <2>2. restoring' # None =>
               /\ DOMAIN restoring' = {"left", "all", "cleared"}
               /\ DOMAIN restoring'.left \subseteq AllKeys
            BY <1>17 DEF ClearForRestore, StoreTyped
      <2> QED BY <1>1, <1>17, <2>1, <2>2 DEF ClearForRestore, StoreTyped
<1>18. CASE RestoreEntry
      <2>1. PICK k \in DOMAIN restoring.left :
               /\ db' = With(db, [x \in {k} |-> restoring.left[k]])
               /\ restoring' = [restoring EXCEPT !.left = Without(restoring.left, {k})]
            BY <1>18 DEF RestoreEntry
      <2>2. /\ DOMAIN restoring = {"left", "all", "cleared"}
            /\ DOMAIN restoring.left \subseteq AllKeys
            BY <1>18 DEF RestoreEntry, StoreTyped
      <2>3. DOMAIN db' \subseteq AllKeys
            BY <1>1, <2>1, <2>2 DEF With
      <2>4. /\ DOMAIN restoring' = {"left", "all", "cleared"}
            /\ restoring'.left = Without(restoring.left, {k})
            BY <2>1, <2>2
      <2>5. DOMAIN restoring'.left \subseteq AllKeys
            BY <2>2, <2>4 DEF Without
      <2> QED BY <1>1, <1>18, <2>3, <2>4, <2>5 DEF RestoreEntry, StoreTyped
<1>19. CASE FinishRestore \/ RestoreFails
      BY <1>1, <1>19 DEF FinishRestore, RestoreFails, StoreTyped
<1>20. CASE NextSecond
      <2>1. second' \in 1..MaxSecond
            BY <1>20, StoreAssumption DEF NextSecond, StoreTyped
      <2> QED BY <1>20, <2>1 DEF NextSecond, StoreTyped
<1>21. CASE UNCHANGED storeVars
      BY <1>21 DEF storeVars, StoreTyped
<1> QED BY <1>4, <1>5, <1>6, <1>7, <1>9, <1>10, <1>11, <1>12, <1>15, <1>16, <1>17, <1>18,
           <1>19, <1>20, <1>21 DEF StoreNext, InsertFresh

\* THEOREM: whatever was written, restored and lost in a crash, the ways to read
\* the store agree: lists, pages, counts and searches by metadata have the same
\* documents, and a hybrid search keeps the order in which both searches agree
\* (storage.rs:296-435, 721-848).
THEOREM ReadsOfTheStoreAgree == StoreSpec => []WaysToReadAgree
<1>1. StoreInv /\ StoreTyped => WaysToReadAgree
  <2> SUFFICES ASSUME StoreInv, StoreTyped PROVE WaysToReadAgree
      OBVIOUS
  <2>1. DocsSound(db)
        BY DEF StoreInv
  <2>2. StoreTypeOK
        BY DEF StoreTyped, StoreTypeOK, AllKeys
  <2> QED BY <2>1, <2>2, ReadsAlwaysAgree, HybridAlwaysHonoursBoth DEF WaysToReadAgree
<1> QED BY <1>1, StoreInitially, StoreStep, StoreTypesStart, StoreTypesStay, PTL
        DEF StoreSpec
=============================================================================
