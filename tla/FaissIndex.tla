----------------------------- MODULE FaissIndex -----------------------------
(***************************************************************************)
(* FaissVectorIndex of src/index.rs: an array of vectors that only grows,  *)
(* a map from identifiers to slots, a map from slots to identifiers, and a *)
(* linear search over the slots that have an identifier.  Slots are        *)
(* counted from 1; slot 0 stands for "not in the map".                     *)
(*                                                                         *)
(* An index of type IVF has to be trained, trains on the vectors it has,   *)
(* and takes no vector before it is trained: it never takes one.           *)
(*                                                                         *)
(* An application has the one index or the other (HnswIndex); they share   *)
(* the trait, the vectors and their distances.                             *)
(***************************************************************************)
EXTENDS HnswIndex

CONSTANTS IndexTypes, \* the types an index may be created with
          FaissSlots  \* bound on the length of the array

ASSUME FaissAssumption ==
    /\ IndexTypes \subseteq {"Flat", "IvfFlat", "IvfPq", "Hnsw"}
    /\ FaissSlots \in Nat

VARIABLES index_type, array, slot_of, id_of, width, trained,
          again   \* history: identifiers added while they were there

faissVars == <<index_type, array, slot_of, id_of, width, trained, again>>

FaissInit ==
    /\ index_type \in IndexTypes
    /\ array = << >>
    /\ slot_of = [id \in Id |-> 0]
    /\ id_of = << >>
    /\ width = NoDim
    /\ trained = FALSE
    /\ again = {}

-----------------------------------------------------------------------------
\* train: nothing to do for a flat or HNSW index; train_ivf_index refuses an
\* empty array, and the array of an untrained index is empty.
CanTrain == index_type \in {"Flat", "Hnsw"} \/ array # << >>

\* add_vector: an index without a dimension takes the vector's, and keeps it
\* when the training fails.
FaissAddVector(id, vec) ==
    /\ Len(array) < FaissSlots
    /\ IF width # NoDim /\ DimOf[vec] # width
       THEN UNCHANGED faissVars
       ELSE /\ width' = DimOf[vec]
            /\ trained' = (trained \/ CanTrain)
            /\ IF trained'
               THEN /\ array' = Append(array, vec)
                    /\ slot_of' = [slot_of EXCEPT ![id] = Len(array) + 1]
                    /\ id_of' = [s \in DOMAIN id_of \cup {Len(array) + 1} |->
                                    IF s = Len(array) + 1 THEN id ELSE id_of[s]]
                    /\ again' = again \cup IF slot_of[id] # 0 THEN {id} ELSE {}
               ELSE UNCHANGED <<array, slot_of, id_of, again>>
            /\ UNCHANGED index_type

\* add_vectors stops at the first vector that is refused and keeps those before.
FaissAddVectors(items) ==
    /\ Len(array) + Len(items) <= FaissSlots
    /\ items # << >>
    /\ UNCHANGED index_type
    /\ IF ~trained /\ ~CanTrain
       THEN /\ width' = IF width = NoDim THEN DimOf[items[1].vec] ELSE width
            /\ UNCHANGED <<array, slot_of, id_of, trained, again>>
       ELSE \E n \in 0..Len(items) :
            /\ TakesUpTo(width, items, n)
            /\ array' = array \o [i \in 1..n |-> items[i].vec]
            /\ slot_of' = [id \in Id |->
                  IF id \in IdsIn(items, n)
                  THEN Len(array) + LastFor(items, n, id) ELSE slot_of[id]]
            /\ id_of' = [s \in DOMAIN id_of \cup Len(array) + 1..Len(array) + n |->
                  IF s > Len(array) THEN items[s - Len(array)].id ELSE id_of[s]]
            /\ width' = DimAfter(width, items)
            /\ trained' = (trained \/ n > 0)
            /\ again' = again \cup
                  {id \in IdsIn(items, n) :
                      \/ slot_of[id] # 0
                      \/ \E i, j \in 1..n : i # j /\ items[i].id = id /\ items[j].id = id}

\* remove_vector forgets the slot the identifier has now, and leaves the vector.
FaissRemoveVector(id) ==
    /\ slot_of[id] # 0
    /\ slot_of' = [slot_of EXCEPT ![id] = 0]
    /\ id_of' = [s \in DOMAIN id_of \ {slot_of[id]} |-> id_of[s]]
    /\ UNCHANGED <<index_type, array, width, trained, again>>

\* optimize trains again.
FaissOptimize ==
    /\ trained' = (trained \/ CanTrain)
    /\ UNCHANGED <<index_type, array, slot_of, id_of, width, again>>

FaissClear ==
    /\ array' = << >>
    /\ slot_of' = [id \in Id |-> 0]
    /\ id_of' = << >>
    /\ width' = NoDim
    /\ trained' = FALSE
    /\ again' = {}
    /\ UNCHANGED index_type

\* search: the k nearest slots that have an identifier, nearest first; of two
\* equally near the earlier.
Nearer(q, s, t) ==
    \/ Dist[q, array[s]] < Dist[q, array[t]]
    \/ Dist[q, array[s]] = Dist[q, array[t]] /\ s < t

Hits(q, k) ==
    {s \in DOMAIN id_of : Cardinality({t \in DOMAIN id_of : Nearer(q, t, s)}) < k}

FaissNext ==
    \/ \E id \in Id, vec \in Vec : FaissAddVector(id, vec)
    \/ \E items \in Batches : FaissAddVectors(items)
    \/ \E id \in Id : FaissRemoveVector(id)
    \/ FaissOptimize \/ FaissClear

FaissSpec == FaissInit /\ [][FaissNext]_faissVars

-----------------------------------------------------------------------------
FaissTypeOK ==
    /\ array \in Seq(Vec) /\ Len(array) <= FaissSlots
    /\ slot_of \in [Id -> 0..FaissSlots]
    /\ DOMAIN id_of \subseteq DOMAIN array
    /\ array # << >> => trained

\* A search for the k nearest leaves out an identifier that is there only for k
\* slots no farther than its vector, and returns one that is not there only
\* when it was added a second time before it was removed: its first slot then
\* keeps its name (remove_vector).
FaissFindsNearest ==
    \A q \in Vec, k \in 1..FaissSlots :
        LET found == {id_of[s] : s \in Hits(q, k)}
        IN  /\ \A id \in Id : slot_of[id] # 0 /\ id \notin found =>
                  /\ Cardinality(Hits(q, k)) = k
                  /\ \A s \in Hits(q, k) :
                        Dist[q, array[s]] <= Dist[q, array[slot_of[id]]]
            /\ \A id \in found : slot_of[id] # 0 \/ id \in again

\* The nearest vector is found, in either index (index.rs:223, 642).
NearestIsFoundInBoth ==
    /\ TypeOK /\ FaissTypeOK
    /\ NearestIsFoundWithSlack /\ FaissFindsNearest
=============================================================================
