------------------------------- MODULE Vectors -------------------------------
(***************************************************************************)
(* Vectors as the indexes of src/index.rs see them: values with a          *)
(* dimension, and batches of (identifier, vector) pairs, of which an index *)
(* takes the longest prefix of one dimension.                              *)
(***************************************************************************)
EXTENDS Naturals, Sequences

CONSTANTS Id,       \* identifiers of vectors
          Vec,      \* vectors
          DimOf,    \* DimOf[v]: the dimension of v
          NoVec,    \* "no vector"
          NoDim,    \* "no dimension yet"
          Batches   \* the batches callers hand to add_vectors

\* What add_vectors takes: pairs of an identifier and a vector.
Item == [id : Id, vec : Vec]

ASSUME VectorsAssumption ==
    /\ DimOf \in [Vec -> Nat]
    /\ NoVec \notin Vec
    /\ NoDim \notin Nat
    /\ Batches \subseteq Seq(Item)

Dims == {DimOf[v] : v \in Vec}

\* The dimension an index has once it has looked at items: its own or, when it
\* has none yet, that of the first vector.
DimAfter(dim, items) ==
    IF dim = NoDim /\ items # <<>> THEN DimOf[items[1].vec] ELSE dim

\* Exactly the first n items are pushed: they have the dimension of the index,
\* and the next one, if any, has not.
TakesUpTo(dim, items, n) ==
    /\ \A i \in 1..n : DimOf[items[i].vec] = DimAfter(dim, items)
    /\ n < Len(items) => DimOf[items[n + 1].vec] # DimAfter(dim, items)

\* Identifiers among the first n items.
IdsIn(items, n) == {id \in Id : \E i \in 1..n : items[i].id = id}

\* Of several items with one identifier the last one is kept.
LastFor(items, n, id) ==
    CHOOSE i \in 1..n : /\ items[i].id = id
                        /\ \A j \in 1..n : items[j].id = id => j <= i
=============================================================================
