----------------------------- MODULE HnswIndex -----------------------------
(***************************************************************************)
(* HnswVectorIndex of src/index.rs: a growing array of vectors, a map from *)
(* identifiers to array slots, and the HNSW graph, which is a snapshot of  *)
(* the array taken by build_index.  Slots are counted from 1 here, from 0  *)
(* in the code; slot 0 stands for "not in the map", the empty sequence for *)
(* hnsw: None.                                                             *)
(*                                                                         *)
(* Inserting an identifier again appends a vector and redirects the map:   *)
(* the old slot stays in the array and in the graph as a ghost.            *)
(***************************************************************************)
EXTENDS Vectors, Integers, FiniteSets

CONSTANTS MaxSlots,   \* bound on the length of the array
          Dist        \* Dist[q, v]: the distance of two vectors

ASSUME MaxSlotsAssumption == MaxSlots \in Nat

ASSUME DistAssumption == Dist \in [Vec \X Vec -> Nat]

VARIABLES hnsw, vectors, id_to_index, dimension

vars == <<hnsw, vectors, id_to_index, dimension>>

Slots == 1..Len(vectors)

\* Slots some identifier points to; the others are ghosts.
Owned == {s \in Slots : \E id \in Id : id_to_index[id] = s}

Ghosts == Slots \ Owned

Init ==
    /\ hnsw = <<>>
    /\ vectors = <<>>
    /\ id_to_index = [id \in Id |-> 0]
    /\ dimension \in Dims \cup {NoDim}

\* build_index: a fresh snapshot, nothing at all on an empty array.
Build(vs) == IF vs = <<>> THEN hnsw ELSE vs

\* add_vectors: items are pushed until one has another dimension; only a batch
\* taken as a whole reaches build_index.
AddVectors(items) ==
    /\ Len(vectors) + Len(items) <= MaxSlots
    /\ \E n \in 0..Len(items) :
          /\ TakesUpTo(dimension, items, n)
          /\ vectors' = vectors \o [i \in 1..n |-> items[i].vec]
          /\ id_to_index' =
                [id \in Id |->
                    IF id \in IdsIn(items, n)
                    THEN Len(vectors) + LastFor(items, n, id)
                    ELSE id_to_index[id]]
          /\ hnsw' = IF n = Len(items) THEN Build(vectors') ELSE hnsw
    /\ dimension' = DimAfter(dimension, items)

\* add_vector: the dimension is checked before anything is touched.
AddVector(id, vec) ==
    /\ Len(vectors) < MaxSlots
    /\ IF dimension # NoDim /\ DimOf[vec] # dimension
       THEN UNCHANGED vars
       ELSE /\ dimension' = DimOf[vec]
            /\ vectors' = Append(vectors, vec)
            /\ id_to_index' = [id_to_index EXCEPT ![id] = Len(vectors')]
            /\ hnsw' = Build(vectors')

\* The new position of the kept position i, counted up by the loop of
\* remove_vector: how many are kept up to i.
Rank(keep, i) == Cardinality({k \in keep : k <= i})

\* seq without the positions outside keep, in the same order.
Compact(seq, keep) ==
    [r \in 1..Cardinality(keep) |->
        seq[CHOOSE i \in keep : Rank(keep, i) = r]]

\* Mutant: only the removed slot is dropped, ghosts stay.
KeptWithGhosts(id) == Slots \ {id_to_index[id]}

\* remove_vector: the slot of id and every ghost are dropped, the others close
\* up, and the graph is built again or, when nothing is left, forgotten.  The
\* dimension stays.
KeptWithout(id) == Owned \ {id_to_index[id]}

\* Mutant: the array closes up, the map still names the old slots.
RemoveVectorKeepsSlots(id) ==
    IF id_to_index[id] = 0
    THEN UNCHANGED vars
    ELSE /\ vectors' = Compact(vectors, KeptWithout(id))
         /\ id_to_index' = [id_to_index EXCEPT ![id] = 0]
         /\ hnsw' = vectors'
         /\ UNCHANGED dimension

RemoveVector(id) ==
    IF id_to_index[id] = 0
    THEN UNCHANGED vars
    ELSE /\ vectors' = Compact(vectors, KeptWithout(id))
         /\ id_to_index' =
               [x \in Id |-> IF x = id \/ id_to_index[x] = 0 THEN 0
                             ELSE Rank(KeptWithout(id), id_to_index[x])]
         /\ hnsw' = vectors'
         /\ UNCHANGED dimension

Optimize == hnsw' = Build(vectors) /\ UNCHANGED <<vectors, id_to_index, dimension>>

\* Mutant: the dimension survives.
ClearKeepsDimension ==
    /\ hnsw' = <<>>
    /\ vectors' = <<>>
    /\ id_to_index' = [id \in Id |-> 0]
    /\ UNCHANGED dimension

Clear ==
    /\ hnsw' = <<>>
    /\ vectors' = <<>>
    /\ id_to_index' = [id \in Id |-> 0]
    /\ dimension' = NoDim

Next ==
    \/ \E items \in Batches : AddVectors(items)
    \/ \E id \in Id, vec \in Vec : AddVector(id, vec)
    \/ \E id \in Id : RemoveVector(id)
    \/ Optimize
    \/ Clear

Spec == Init /\ [][Next]_vars

-----------------------------------------------------------------------------
TypeOK ==
    /\ vectors \in Seq(Vec)
    /\ hnsw \in Seq(Vec)
    /\ id_to_index \in [Id -> Nat]
    /\ dimension \in Nat \cup {NoDim}

\* No two identifiers share a slot and no slot lies outside the array.  search
\* stops at the first identifier of a slot and get_all_vectors fails on a slot
\* out of range, so both rely on it.
SlotsWellFormed ==
    /\ \A id \in Id : id_to_index[id] <= Len(vectors)
    /\ \A x, y \in Id : id_to_index[x] = id_to_index[y] =>
          x = y \/ id_to_index[x] = 0

\* The graph names its points "vec_<slot>" when it is built, and search reads
\* these names against the current map: the graph must be a prefix of the
\* current array, whatever was inserted, refused or removed since.
SnapshotIsPrefix ==
    /\ Len(hnsw) <= Len(vectors)
    /\ \A s \in 1..Len(hnsw) : hnsw[s] = vectors[s]

\* VectorPoint::distance zips two vectors and would silently compare a prefix:
\* all vectors ever held together have the dimension of the index.
OneDimension == \A s \in Slots : DimOf[vectors[s]] = dimension

\* The array is empty only when the map is: its last slot has an owner (the
\* test on vectors.is_empty() in remove_vector stands for "no identifier").
LastSlotOwned == vectors # <<>> => Len(vectors) \in Owned

Inv ==
    /\ TypeOK
    /\ SlotsWellFormed
    /\ SnapshotIsPrefix
    /\ OneDimension
    /\ LastSlotOwned

\* A removal that finds its identifier leaves no ghost behind and the graph up
\* to date, even after a batch that was refused half-way.
RemovalCleansUp ==
    [][\A id \in Id :
          (id_to_index[id] # 0 /\ id_to_index'[id] = 0 /\ vectors' # <<>>) =>
              Ghosts' = {} /\ hnsw' = vectors']_vars

-----------------------------------------------------------------------------
\* The contract of the trait, in terms of the state of this implementation.
liveVectors ==
    [id \in Id |-> IF id_to_index[id] = 0 THEN NoVec ELSE vectors[id_to_index[id]]]

visibleIds == {id \in Id : id_to_index[id] \in 1..Len(hnsw)}

Contract == INSTANCE VectorIndex WITH
    live <- liveVectors, visible <- visibleIds,
    built <- hnsw # <<>>, dim <- dimension

\* Whatever slots, ghosts and snapshots do, callers see an index that keeps the
\* last vector of every identifier and hides only what a refused batch touched.
ImplementsContract == Contract!IndexSpec

-----------------------------------------------------------------------------
(* search.  The graph search itself (instant_distance) is taken as exact:  *)
(* it returns the k nearest points of the graph, ties broken anyhow.  What *)
(* is examined is the step from points back to identifiers.                *)

\* The sets of graph points that are k nearest to q (all of them when the
\* graph is smaller than k).
NearestPoints(q, k) ==
    {S \in SUBSET (1..Len(hnsw)) :
        /\ Cardinality(S) = IF k < Len(hnsw) THEN k ELSE Len(hnsw)
        /\ \A s \in S, t \in (1..Len(hnsw)) \ S :
              Dist[q, hnsw[s]] <= Dist[q, hnsw[t]]}

\* Mutant: the name of a point is read as a slot counted from 0.
AnswersOffByOne(q, k) ==
    {{id \in visibleIds : id_to_index[id] + 1 \in S} : S \in NearestPoints(q, k)}

\* search: each point is replaced by the identifier whose slot bears its name;
\* a point that nobody owns any more yields nothing.
Answers(q, k) ==
    {{id \in Id : id_to_index[id] \in S} : S \in NearestPoints(q, k)}

Queries == {q \in Vec : dimension = NoDim \/ DimOf[q] = dimension}

\* Asking for as many vectors more as there are ghosts, a caller gets every
\* identifier strictly nearer than one it got, and at least k of them if there
\* are k (search, index.rs:212-230).
NearestIsFoundWithSlack ==
    \A q \in Queries : \A k \in 1..MaxSlots :
        \A A \in Answers(q, k + Cardinality(Ghosts)) :
            /\ \A id \in A, other \in visibleIds \ A :
                  Dist[q, liveVectors[id]] <= Dist[q, liveVectors[other]]
            /\ \/ Cardinality(A) >= k
               \/ A = visibleIds
=============================================================================
