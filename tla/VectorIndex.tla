----------------------------- MODULE VectorIndex -----------------------------
(***************************************************************************)
(* What a caller of the trait VectorIndex of src/index.rs sees of an HNSW  *)
(* index: the vectors that are alive, which of them a search can return,   *)
(* whether there is a graph to search, and the dimension.                  *)
(***************************************************************************)
EXTENDS Vectors

VARIABLES live,      \* identifier -> its vector, or NoVec
          visible,   \* identifiers a search can return
          built,     \* is there a graph (else search fails)?
          dim        \* the dimension, or NoDim

ivars == <<live, visible, built, dim>>

IndexInit ==
    /\ live = [id \in Id |-> NoVec]
    /\ visible = {}
    /\ built = FALSE
    /\ dim \in Dims \cup {NoDim}

LiveIds(l) == {id \in Id : l[id] # NoVec}

LiveWith(items, n) ==
    [id \in Id |-> IF id \in IdsIn(items, n)
                   THEN items[LastFor(items, n, id)].vec
                   ELSE live[id]]

\* build_index shows everything alive; with nothing in the array it does nothing.
Rebuilt ==
    /\ visible' = LiveIds(live')
    /\ built' = (built \/ LiveIds(live') # {})

AddVectorsOk(items) ==
    /\ TakesUpTo(dim, items, Len(items))
    /\ live' = LiveWith(items, Len(items))
    /\ dim' = DimAfter(dim, items)
    /\ Rebuilt

\* A batch refused in the middle has replaced vectors whose new points no graph
\* holds yet.
AddVectorsErr(items) ==
    /\ \E n \in 0..Len(items) :
          /\ n < Len(items)
          /\ TakesUpTo(dim, items, n)
          /\ live' = LiveWith(items, n)
          /\ visible' = visible \ IdsIn(items, n)
    /\ dim' = DimAfter(dim, items)
    /\ UNCHANGED built

AddVectorOk(id, vec) == AddVectorsOk(<<[id |-> id, vec |-> vec]>>)

AddVectorErr(vec) ==
    /\ dim # NoDim /\ DimOf[vec] # dim
    /\ UNCHANGED ivars

RemoveVector(id) ==
    IF live[id] = NoVec
    THEN UNCHANGED ivars
    ELSE /\ live' = [live EXCEPT ![id] = NoVec]
         /\ visible' = LiveIds(live')
         /\ built' = (LiveIds(live') # {})
         /\ UNCHANGED dim

Optimize == Rebuilt /\ UNCHANGED <<live, dim>>

Clear ==
    /\ live' = [id \in Id |-> NoVec]
    /\ visible' = {}
    /\ built' = FALSE
    /\ dim' = NoDim

IndexNext ==
    \/ \E items \in Batches : AddVectorsOk(items) \/ AddVectorsErr(items)
    \/ \E id \in Id, vec \in Vec : AddVectorOk(id, vec) \/ AddVectorErr(vec)
    \/ \E id \in Id : RemoveVector(id)
    \/ Optimize
    \/ Clear

IndexSpec == IndexInit /\ [][IndexNext]_ivars
=============================================================================
