-------------------------- MODULE MCVectorDatabase --------------------------
(***************************************************************************)
(* Two documents; two vectors of one dimension and one of another.  The    *)
(* batches for safety, which MCPlacement checks with three callers: one    *)
(* document with and one without a vector, and two documents of which the  *)
(* index refuses the second.  Liveness takes two callers, and batches that *)
(* lead add and rebuild through every branch.                              *)
(***************************************************************************)
EXTENDS VectorDatabase

MCDimOf == [v \in Vec |-> IF v = "wide" THEN 2 ELSE 1]

D(id, vec) == [id |-> id, vec |-> vec]

SafetyBatches ==
    {<<D(1, "u")>>, <<D(1, NoVec)>>, <<D(1, "v"), D(2, "wide")>>}

MixedBatches == SafetyBatches \cup
    {<<D(1, "v")>>, <<D(2, "wide")>>, <<D(2, "u"), D(2, NoVec)>>}
=============================================================================
