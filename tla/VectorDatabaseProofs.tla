------------------------ MODULE VectorDatabaseProofs ------------------------
(***************************************************************************)
(* Store and index agree about every document that is not in doubt, and a  *)
(* rebuild is exact, for any callers, documents, vectors and batches, with *)
(* failures of the store, refused batches and restarts at any point.       *)
(***************************************************************************)
EXTENDS VectorDatabase, Integers, FunctionTheorems, SequenceTheorems,
        FiniteSetTheorems, WellFoundedInduction, TLAPS

Doc == [id : Id, vec : Vec \cup {NoVec}]

Held == [task : Client, mode : {"read", "write"}]

Lock == [holders : SUBSET Held, queue : Seq(Held)]

Add == [op : {"add"}, at : {"storage", "index"}, docs : DocBatches]
Delete == [op : {"delete"}, at : {"index", "storage"}, id : Id]
Read == [op : {"read"}, at : {"storage"}]
Search == [op : {"search"}, at : {"storage", "index"}]
Rebuild == [op : {"rebuild"}, at : {"storage", "index"}]
Refill == [op : {"rebuild"}, at : {"refill"}, todo : SUBSET Id]

Call == {NoCall} \cup Add \cup Delete \cup Read \cup Search \cup Rebuild \cup Refill

DataTyped ==
    /\ store \in [Id -> Vec \cup {NoVec, NoDoc}]
    /\ live \in [Id -> Vec \cup {NoVec}]
    /\ visible \in SUBSET Id /\ built \in BOOLEAN /\ dim \in Dims \cup {NoDim}
    /\ tainted \in [Client -> SUBSET Id]
    /\ doubt \in SUBSET Id

CallsTyped == storage \in Lock /\ index \in Lock /\ call \in [Client -> Call]

-----------------------------------------------------------------------------
(* The locks.                                                              *)

\* The call is at the lock named at.
Waits(c, at) == c # NoCall /\ c.at = at

\* How a call enters the lock it waits for.
Wants(c) == IF c.op \in {"add", "delete"} \/ (c.op = "rebuild" /\ c.at = "index")
            THEN "write" ELSE "read"

\* A task is in the queue of a lock at most once, and only while its call is at
\* that lock.
QueueSound(calls, queue, at) ==
    /\ \A i \in 1..Len(queue) :
          /\ Waits(calls[queue[i].task], at)
          /\ queue[i].mode = Wants(calls[queue[i].task])
    /\ \A i, j \in 1..Len(queue) : queue[i].task = queue[j].task => i = j

\* A rebuild keeps the store for reading from its first step, and the index for
\* writing while it fills it.
Keeps(c, t, st, ix) ==
    /\ c \in Refill \/ (c \in Rebuild /\ c.at = "index") =>
          [task |-> t, mode |-> "read"] \in st.holders
    /\ c \in Refill => [task |-> t, mode |-> "write"] \in ix.holders

Refilling(t) == call[t] \in Refill

LocksSound ==
    /\ QueueSound(call, storage.queue, "storage")
    /\ QueueSound(call, index.queue, "index")
    /\ \A t \in Client : Keeps(call[t], t, storage, index)
    /\ \A t, u \in Client : Refilling(t) /\ Refilling(u) => t = u

-----------------------------------------------------------------------------
(* What the calls under way have done.                                     *)

\* The calls that have changed one of store and index, and not yet the other.
Stored(t) == call[t] \in Add /\ call[t].at = "index"
Unindexed(t) == call[t] \in Delete /\ call[t].at = "storage"

\* Calls under way that write one document have tainted each other.
OverlapsTainted ==
    \A t, u \in Client : t # u =>
        Touches(call[t]) \cap Touches(call[u]) \subseteq tainted[t]

\* An undisturbed addition finds its documents in the store as it left them.
AddsStored ==
    \A t \in Client : Stored(t) =>
        \A id \in DocIds(call[t].docs) \ tainted[t] :
            store[id] = LastDoc(call[t].docs, id).vec

\* An undisturbed deletion finds its document out of the index.
DeletesUnindexed ==
    \A t \in Client : Unindexed(t) /\ call[t].id \notin tainted[t] => live[call[t].id] = NoVec

\* A rebuild has tainted the deletions that are half done, and has filled the
\* index up to what it still has to do.
RefillsExact ==
    \A t \in Client : Refilling(t) =>
        /\ live = [id \in Id |-> IF id \notin call[t].todo /\ store[id] \in Vec
                                 THEN store[id] ELSE NoVec]
        /\ visible = LiveIds(live)
        /\ \A u \in Client : Unindexed(u) => call[u].id \in tainted[u]

HalfDone(t) == IF Stored(t) \/ Unindexed(t) THEN Touches(call[t]) ELSE {}

Agree(id) ==
    /\ store[id] = NoDoc => live[id] = NoVec
    /\ store[id] \in Vec => live[id] = store[id] /\ (built => id \in visible)

UndoubtedAgree ==
    (\A t \in Client : ~ Refilling(t)) =>
        \A id \in Id \ (doubt \cup UNION {HalfDone(t) : t \in Client}) : Agree(id)

Inv ==
    /\ DataTyped /\ CallsTyped /\ LocksSound /\ OverlapsTainted
    /\ AddsStored /\ DeletesUnindexed /\ RefillsExact /\ UndoubtedAgree

-----------------------------------------------------------------------------
(* Batches: what VectorsToIndex hands to the index.                        *)

\* A non-empty set of positions up to n has a greatest element.
LEMMA GreatestPosition ==
    ASSUME NEW n \in Nat, NEW S \in SUBSET (1..n), S # {}
    PROVE  \E x \in S : \A y \in S : y <= x
<1> DEFINE T == {n - x : x \in S}
<1>1. T \in SUBSET Nat /\ T # {}
      <2>1. \A x \in S : n - x \in Nat
            OBVIOUS
      <2> QED BY <2>1
<1>2. PICK t \in T : \A u \in T : <<u, t>> \notin OpToRel(<, Nat)
      BY <1>1, NatLessThanWellFounded, WFMin
<1>3. \A u \in T : t <= u
      <2>1. \A u \in T : ~ (u < t)
            BY <1>1, <1>2 DEF OpToRel
      <2> HIDE DEF T
      <2> QED BY <1>1, <2>1
<1>4. PICK x \in S : t = n - x
      BY <1>2
<1>5. \A y \in S : t <= n - y
      BY <1>3
<1> QED BY <1>4, <1>5

\* The place of position i among the positions in W.
Rank(W, i) == Cardinality({j \in W : j <= i})

\* Ranks number the positions in W from 1 without gaps and in their order.
LEMMA RanksOfPositions ==
    ASSUME NEW n \in Nat, NEW W \in SUBSET (1..n)
    PROVE  /\ Cardinality(W) \in Nat
           /\ Cardinality(W) = 0 <=> W = {}
           /\ \A i \in W : Rank(W, i) \in 1..Cardinality(W)
           /\ \A i, j \in W : i < j => Rank(W, i) < Rank(W, j)
           /\ \A k \in 1..Cardinality(W) : \E i \in W : Rank(W, i) = k
<1> DEFINE Upto(i) == {j \in W : j <= i}
           m == Cardinality(W)
<1>1. IsFiniteSet(W) /\ m \in Nat /\ (m = 0 <=> W = {})
      <2>1. IsFiniteSet(1..n)
            BY FS_Interval
      <2>2. IsFiniteSet(W)
            BY <2>1, FS_Subset
      <2> QED BY <2>2, FS_CardinalityType, FS_EmptySet
<1>2. \A i \in W : IsFiniteSet(Upto(i)) /\ Cardinality(Upto(i)) \in 1..m
      <2> TAKE i \in W
      <2>1. Upto(i) \in SUBSET W /\ i \in Upto(i)
            OBVIOUS
      <2>2. IsFiniteSet(Upto(i)) /\ Cardinality(Upto(i)) <= m
            BY <1>1, <2>1, FS_Subset
      <2>3. Cardinality(Upto(i)) \in Nat /\ Cardinality(Upto(i)) # 0
            BY <2>1, <2>2, FS_CardinalityType, FS_EmptySet
      <2> QED BY <1>1, <2>2, <2>3
<1>3. ASSUME NEW i \in W, NEW j \in W, i < j
      PROVE  Cardinality(Upto(i)) < Cardinality(Upto(j))
      <2>1. i \in Nat /\ j \in Nat /\ \A k \in W : k \in Nat
            OBVIOUS
      <2>2. Upto(i) \in SUBSET Upto(j) /\ j \in Upto(j) /\ j \notin Upto(i)
            <3>1. \A k \in W : k <= i => k <= j
                  BY <1>3, <2>1
            <3>2. j <= j /\ ~ (j <= i)
                  BY <1>3, <2>1
            <3> QED BY <3>1, <3>2
      <2>3. /\ Cardinality(Upto(i)) <= Cardinality(Upto(j))
            /\ Cardinality(Upto(j)) = Cardinality(Upto(i)) => Upto(j) = Upto(i)
            BY <1>2, <2>2, FS_Subset
      <2>4. Upto(i) # Upto(j)
            BY <2>2
      <2> QED
            <3> HIDE DEF Upto
            <3> QED BY <1>2, <2>3, <2>4
<1>4. \A k \in 1..m : \E i \in W : Cardinality(Upto(i)) = k
      <2> DEFINE f == [i \in W |-> Cardinality(Upto(i))]
      <2>1. f \in [W -> 1..m]
            BY <1>2
      <2>2. ASSUME NEW i \in W, NEW j \in W, f[i] = f[j] PROVE i = j
            <3>1. ~ (i < j)
                  BY <1>2, <1>3, <2>2
            <3>2. ~ (j < i)
                  BY <1>2, <1>3, <2>2
            <3> QED BY <3>1, <3>2
      <2>3. f \in Injection(W, 1..m)
            BY <2>1, <2>2 DEF Injection, IsInjective
      <2>4. IsFiniteSet(1..m) /\ Cardinality(1..m) = m
            BY <1>1, FS_Interval
      <2>5. f \in Surjection(W, 1..m)
            BY <2>3, <2>4, FS_Injection
      <2>6. \A k \in 1..m : \E i \in W : f[i] = k
            BY <2>5 DEF Surjection
      <2> QED BY <2>6
<1> QED BY <1>1, <1>2, <1>3, <1>4 DEF Rank

\* What the index is handed are the vectors of the batch in its order.
LEMMA VectorsOfBatch ==
    ASSUME DatabaseAssumption, VectorsAssumption, NEW docs \in DocBatches
    PROVE  /\ docs \in Seq(Doc) /\ Len(docs) \in Nat /\ DOMAIN docs = 1..Len(docs)
           /\ \A i \in DOMAIN docs : docs[i] \in Doc
           /\ VectorsToIndex(docs) \in Seq(Item)
           /\ Len(VectorsToIndex(docs)) = Cardinality(WithVector(docs))
           /\ Len(VectorsToIndex(docs)) \in Nat
           /\ WithVector(docs) \in SUBSET (1..Len(docs))
           /\ \A k \in 1..Len(VectorsToIndex(docs)) :
                 \E i \in WithVector(docs) :
                    Rank(WithVector(docs), i) = k /\ VectorsToIndex(docs)[k] = docs[i]
<1> DEFINE W == WithVector(docs)
           m == Cardinality(W)
           items == VectorsToIndex(docs)
<1>1. docs \in Seq(Doc) /\ Len(docs) \in Nat /\ DOMAIN docs = 1..Len(docs)
      BY LenProperties DEF DatabaseAssumption, Doc
<1>2. \A i \in DOMAIN docs : docs[i] \in Doc
      BY <1>1, ElementOfSeq
<1>3. W \in SUBSET (1..Len(docs))
      BY <1>1 DEF WithVector
<1>4. /\ m \in Nat
      /\ \A k \in 1..m : \E i \in W : Rank(W, i) = k
      BY <1>1, <1>3, RanksOfPositions
<1>5. items = [k \in 1..m |-> docs[CHOOSE i \in W : Rank(W, i) = k]]
      BY DEF VectorsToIndex, Rank
<1>6. \A k \in 1..m : \E i \in W : Rank(W, i) = k /\ items[k] = docs[i]
      <2> TAKE k \in 1..m
      <2> DEFINE c == CHOOSE i \in W : Rank(W, i) = k
      <2>1. c \in W /\ Rank(W, c) = k
            BY <1>4
      <2>2. items[k] = docs[c]
            BY <1>5
      <2> QED BY <2>1, <2>2
<1>7. \A i \in W : docs[i] \in Item
      BY <1>1, <1>2, <1>3 DEF WithVector, Doc, Item
<1>8. items \in Seq(Item) /\ Len(items) = m
      <2>1. \A k \in 1..m : items[k] \in Item
            BY <1>6, <1>7
      <2>2. items \in [1..m -> Item]
            BY <1>5, <2>1
      <2> QED BY <1>4, <2>2
<1> QED BY <1>1, <1>2, <1>3, <1>4, <1>6, <1>8

\* LastDoc is the document of the batch at the last position with its identifier.
LEMMA LastDocProperty ==
    ASSUME DatabaseAssumption, VectorsAssumption, NEW docs \in DocBatches,
           NEW id \in DocIds(docs)
    PROVE  \E p \in DOMAIN docs :
              /\ docs[p] = LastDoc(docs, id) /\ docs[p].id = id
              /\ \A j \in DOMAIN docs : docs[j].id = id => j <= p
<1> DEFINE S == {i \in DOMAIN docs : docs[i].id = id}
           n == Len(docs)
<1>1. n \in Nat /\ DOMAIN docs = 1..n
      BY VectorsOfBatch
<1>2. S \in SUBSET (1..n) /\ S # {}
      BY <1>1 DEF DocIds
<1>3. PICK p \in S : \A j \in S : j <= p
      <2> HIDE DEF S, n
      <2> QED BY <1>1, <1>2, GreatestPosition
<1>4. \E d \in {docs[i] : i \in DOMAIN docs} :
         \E i \in DOMAIN docs : /\ docs[i] = d /\ d.id = id
                                /\ \A j \in DOMAIN docs : docs[j].id = id => j <= i
      BY <1>3
<1> QED BY <1>4 DEF LastDoc

LEMMA IdsHandedOver ==
    ASSUME DatabaseAssumption, VectorsAssumption, NEW docs \in DocBatches,
           NEW n \in 0..Len(VectorsToIndex(docs))
    PROVE  IdsIn(VectorsToIndex(docs), n) \subseteq DocIds(docs)
<1> DEFINE items == VectorsToIndex(docs)
<1>1. \A k \in 1..Len(items) : \E i \in DOMAIN docs : items[k] = docs[i]
      BY VectorsOfBatch
<1>2. Len(items) \in Nat
      BY VectorsOfBatch
<1>3. \A k \in 1..n : items[k].id \in DocIds(docs)
      BY <1>1, <1>2 DEF DocIds
<1> QED BY <1>3 DEF IdsIn

\* Of a document stored with a vector the index is handed that vector last.
LEMMA LastVectorHandedOver ==
    ASSUME DatabaseAssumption, VectorsAssumption, NEW docs \in DocBatches,
           NEW id \in DocIds(docs), LastDoc(docs, id).vec # NoVec
    PROVE  LET items == VectorsToIndex(docs)
           IN  /\ id \in IdsIn(items, Len(items))
               /\ items[LastFor(items, Len(items), id)].vec = LastDoc(docs, id).vec
<1> DEFINE items == VectorsToIndex(docs)
           W == WithVector(docs)
           m == Len(items)
<1>1. /\ W \in SUBSET (1..Len(docs)) /\ Len(docs) \in Nat /\ DOMAIN docs = 1..Len(docs)
      /\ m = Cardinality(W) /\ m \in Nat
      /\ \A k \in 1..m : \E i \in W : Rank(W, i) = k /\ items[k] = docs[i]
      /\ \A i \in DOMAIN docs : docs[i] \in Doc
      BY VectorsOfBatch
<1>2. /\ \A i \in W : Rank(W, i) \in 1..m
      /\ \A i, j \in W : i < j => Rank(W, i) < Rank(W, j)
      BY <1>1, RanksOfPositions
<1>3. PICK p \in DOMAIN docs :
              /\ docs[p] = LastDoc(docs, id) /\ docs[p].id = id
              /\ \A j \in DOMAIN docs : docs[j].id = id => j <= p
      BY LastDocProperty
<1>4. p \in W /\ id \in Id
      BY <1>1, <1>3 DEF WithVector, Doc
<1> DEFINE k == Rank(W, p)
<1>5. k \in 1..m
      BY <1>2, <1>4
<1>6. \A i, j \in W : Rank(W, i) = Rank(W, j) => i = j
      <2> SUFFICES ASSUME NEW i \in W, NEW j \in W, Rank(W, i) = Rank(W, j)
                   PROVE  i = j
          OBVIOUS
      <2>1. ~ (i < j) /\ ~ (j < i)
            BY <1>2
      <2>2. i \in Nat /\ j \in Nat
            BY <1>1
      <2> QED BY <2>1, <2>2
<1>7. items[k] = docs[p]
      BY <1>1, <1>4, <1>5, <1>6
<1>8. \A q \in 1..m : items[q].id = id => q <= k
      <2> SUFFICES ASSUME NEW q \in 1..m, items[q].id = id
                   PROVE  q <= k
          OBVIOUS
      <2>1. PICK i \in W : Rank(W, i) = q /\ items[q] = docs[i]
            BY <1>1
      <2>2. i <= p /\ i \in Nat /\ p \in Nat
            BY <1>1, <1>3, <2>1
      <2>3. i = p \/ i < p
            BY <2>2
      <2>4. CASE i = p
            BY <1>5, <2>1, <2>4
      <2>5. CASE i < p
            BY <1>2, <1>4, <1>5, <2>1, <2>5
      <2> QED BY <2>3, <2>4, <2>5
<1>9. id \in IdsIn(items, m)
      BY <1>3, <1>4, <1>5, <1>7 DEF IdsIn
<1>10. LastFor(items, m, id) = k
      <2> HIDE DEF items, m, k
      <2>1. k \in 1..m /\ items[k].id = id /\ \A q \in 1..m : items[q].id = id => q <= k
            BY <1>3, <1>5, <1>7, <1>8
      <2> DEFINE l == LastFor(items, m, id)
      <2>2. /\ l \in 1..m /\ items[l].id = id
            /\ \A q \in 1..m : items[q].id = id => q <= l
            BY <2>1 DEF LastFor
      <2>3. l <= k /\ k <= l /\ l \in Int /\ k \in Int
            BY <1>1, <2>1, <2>2
      <2>4. l = k
            <3> HIDE DEF l
            <3> QED BY <2>3
      <2> QED BY <2>4
<1> QED BY <1>3, <1>7, <1>9, <1>10

\* A batch of which nothing is handed over has stored no vector.
LEMMA NothingHandedOver ==
    ASSUME DatabaseAssumption, VectorsAssumption, NEW docs \in DocBatches,
           VectorsToIndex(docs) = <<>>, NEW id \in DocIds(docs)
    PROVE  LastDoc(docs, id).vec = NoVec
<1>1. Cardinality(WithVector(docs)) = 0 /\ WithVector(docs) \in SUBSET (1..Len(docs))
      /\ Len(docs) \in Nat
      BY VectorsOfBatch, EmptySeq
<1>2. WithVector(docs) = {}
      BY <1>1, RanksOfPositions
<1>3. PICK p \in DOMAIN docs : docs[p] = LastDoc(docs, id)
      BY LastDocProperty
<1>4. docs[p].vec = NoVec
      BY <1>2 DEF WithVector
<1> QED BY <1>3, <1>4

-----------------------------------------------------------------------------
(* The calls and the locks.                                                *)

\* What a call is follows from its name and its place.
LEMMA CallParts ==
    ASSUME NEW c \in Call
    PROVE  /\ c.op = "add" => c \in Add
           /\ c.op = "delete" => c \in Delete
           /\ c.op = "read" => c \in Read
           /\ c.op = "search" => c \in Search
           /\ c.op = "rebuild" /\ c.at # "refill" => c \in Rebuild
           /\ c.op = "rebuild" /\ c.at = "refill" => c \in Refill
           /\ c \in Add => c.op = "add" /\ c # NoCall
           /\ c \in Delete => c.op = "delete" /\ c # NoCall
           /\ c \in Rebuild => c.op = "rebuild" /\ c.at # "refill" /\ c # NoCall
           /\ c \in Refill => c.op = "rebuild" /\ c.at = "refill" /\ c # NoCall
           /\ c \in Read => c.op = "read" /\ c # NoCall
           /\ c \in Search => c.op = "search" /\ c # NoCall
           /\ c = NoCall => c.op = "none"
BY DEF Call, NoCall, Add, Delete, Read, Search, Rebuild, Refill

\* Only additions and deletions write documents.
LEMMA TouchesParts ==
    ASSUME NEW c \in Call
    PROVE  /\ c \in Add => Touches(c) = DocIds(c.docs)
           /\ c \in Delete => Touches(c) = {c.id}
           /\ c \notin Add \cup Delete => Touches(c) = {}
<1>1. /\ c \in Add => c.op = "add"
      /\ c \in Delete => c.op = "delete"
      /\ c \notin Add \cup Delete => c.op # "add" /\ c.op # "delete"
      BY CallParts
<1> QED BY <1>1 DEF Touches

\* What a step of task t, which turns its call from c into r, does with one lock.
Moves(lock, new, at, t, c, r) ==
    \/ new = lock /\ ~ Waits(c, at) /\ ~ Waits(r, at)
    \/ new = Requested(lock, t, Wants(r)) /\ ~ Waits(c, at) /\ Waits(r, at)
    \/ CanEnter(lock, t) /\ new = Entered(lock, t) /\ ~ Waits(r, at)
    \/ CanEnter(lock, t) /\ new = Left(Entered(lock, t), t) /\ ~ Waits(r, at)
    \/ new = Left(lock, t) /\ ~ Waits(c, at) /\ ~ Waits(r, at)

\* The head of a queue is a call that waits there, and wants what it asked for.
LEMMA HeadWaits ==
    ASSUME NEW lock \in Lock, NEW calls \in [Client -> Call], NEW at, NEW t \in Client,
           QueueSound(calls, lock.queue, at), CanEnter(lock, t)
    PROVE  /\ Head(lock.queue) = [task |-> t, mode |-> Wants(calls[t])]
           /\ Waits(calls[t], at)
<1>1. lock.queue \in Seq(Held) /\ lock.queue # <<>> /\ Head(lock.queue).task = t
      BY DEF CanEnter, Lock
<1>2. Len(lock.queue) \in Nat \ {0} /\ Head(lock.queue) = lock.queue[1]
      /\ Head(lock.queue) \in Held
      BY <1>1, EmptySeq, HeadTailProperties
<1>3. Head(lock.queue).mode = Wants(calls[t]) /\ Waits(calls[t], at)
      BY <1>1, <1>2 DEF QueueSound
<1> QED BY <1>1, <1>2, <1>3 DEF Held

\* A writer that can enter is alone.
LEMMA WriterAlone ==
    ASSUME NEW lock \in Lock, NEW calls \in [Client -> Call], NEW at, NEW t \in Client,
           QueueSound(calls, lock.queue, at), CanEnter(lock, t),
           Wants(calls[t]) = "write"
    PROVE  lock.holders = {}
<1>1. Head(lock.queue).mode = "write"
      <2>1. Head(lock.queue) = [task |-> t, mode |-> Wants(calls[t])]
            BY HeadWaits
      <2> QED BY <2>1
<1>2. \A h \in lock.holders : Head(lock.queue).mode = "read"
      BY DEF CanEnter
<1> QED BY <1>1, <1>2

LEMMA EnteredIs ==
    ASSUME NEW lock \in Lock, NEW calls \in [Client -> Call], NEW at, NEW t \in Client,
           QueueSound(calls, lock.queue, at), CanEnter(lock, t)
    PROVE  /\ Entered(lock, t) \in Lock
           /\ [task |-> t, mode |-> Wants(calls[t])] \in Entered(lock, t).holders
           /\ lock.holders \subseteq Entered(lock, t).holders
           /\ Entered(lock, t).queue = Tail(lock.queue)
<1>1. Head(lock.queue) = [task |-> t, mode |-> Wants(calls[t])]
      BY HeadWaits
<1>2. lock.queue \in Seq(Held) /\ lock.holders \subseteq Held /\ lock.queue # <<>>
      BY DEF Lock, CanEnter
<1>3. Head(lock.queue) \in Held /\ Tail(lock.queue) \in Seq(Held)
      BY <1>2, HeadTailProperties
<1>4. Entered(lock, t) =
         [holders |-> lock.holders \cup {Head(lock.queue)}, queue |-> Tail(lock.queue)]
      BY DEF Entered
<1> QED BY <1>1, <1>2, <1>3, <1>4 DEF Lock

LEMMA LeftIs ==
    ASSUME NEW lock \in Lock, NEW t \in Client
    PROVE  /\ Left(lock, t) \in Lock /\ Left(lock, t).queue = lock.queue
           /\ \A h \in lock.holders : h.task # t => h \in Left(lock, t).holders
<1> DEFINE rest == {h \in lock.holders : h.task # t}
<1>1. Left(lock, t) = [lock EXCEPT !.holders = rest]
      BY DEF Left
<1>2. rest \in SUBSET Held /\ \A h \in lock.holders : h.task # t => h \in rest
      BY DEF Lock
<1> HIDE DEF rest
<1> QED BY <1>1, <1>2 DEF Lock

LEMMA QueueRequested ==
    ASSUME NEW q \in Seq(Held), NEW f \in [Client -> Call], NEW at, NEW t \in Client,
           NEW r \in Call, QueueSound(f, q, at), ~ Waits(f[t], at), Waits(r, at)
    PROVE  LET entry == [task |-> t, mode |-> Wants(r)]
           IN  /\ Append(q, entry) \in Seq(Held)
               /\ QueueSound([f EXCEPT ![t] = r], Append(q, entry), at)
<1> DEFINE entry == [task |-> t, mode |-> Wants(r)]
           g == [f EXCEPT ![t] = r]
           q2 == Append(q, entry)
           n == Len(q)
<1>1. entry \in Held /\ entry.task = t /\ entry.mode = Wants(r)
      <2>1. Wants(r) \in {"read", "write"}
            BY DEF Wants
      <2> QED BY <2>1 DEF Held
<1>2. /\ q2 \in Seq(Held) /\ n \in Nat /\ Len(q2) = n + 1
      /\ q2[n + 1] = entry /\ \A i \in 1..n : q2[i] = q[i]
      <2> HIDE DEF entry
      <2> QED BY <1>1
<1>3. g[t] = r /\ \A u \in Client : u # t => g[u] = f[u]
      OBVIOUS
<1>4. \A i \in 1..n : q[i].task \in Client /\ q[i].task # t
      <2> TAKE i \in 1..n
      <2>1. q[i] \in Held
            BY <1>2, ElementOfSeq
      <2> QED BY <2>1 DEF Held, QueueSound
<1> HIDE DEF q2, g, entry
<1>5. \A i \in 1..Len(q2) : Waits(g[q2[i].task], at) /\ q2[i].mode = Wants(g[q2[i].task])
      <2> TAKE i \in 1..Len(q2)
      <2>1. CASE i = n + 1
            BY <1>1, <1>2, <1>3, <2>1
      <2>2. CASE i \in 1..n
            BY <1>2, <1>3, <1>4, <2>2 DEF QueueSound
      <2> QED BY <1>2, <2>1, <2>2
<1>6. \A i, j \in 1..Len(q2) : q2[i].task = q2[j].task => i = j
      <2> SUFFICES ASSUME NEW i \in 1..Len(q2), NEW j \in 1..Len(q2),
                          q2[i].task = q2[j].task
                   PROVE  i = j
          OBVIOUS
      <2>1. CASE i = n + 1 /\ j = n + 1
            BY <2>1
      <2>2. CASE i = n + 1 /\ j \in 1..n
            BY <1>1, <1>2, <1>4, <2>2
      <2>3. CASE i \in 1..n /\ j = n + 1
            BY <1>1, <1>2, <1>4, <2>3
      <2>4. CASE i \in 1..n /\ j \in 1..n
            BY <1>2, <2>4 DEF QueueSound
      <2> QED BY <1>2, <2>1, <2>2, <2>3, <2>4
<1>7. QueueSound(g, q2, at)
      BY <1>5, <1>6 DEF QueueSound
<1> QED BY <1>2, <1>7 DEF q2, g, entry

LEMMA QueueAdvanced ==
    ASSUME NEW q \in Seq(Held), NEW f \in [Client -> Call], NEW at, NEW t \in Client,
           NEW r \in Call, QueueSound(f, q, at), q # <<>>, Head(q).task = t
    PROVE  QueueSound([f EXCEPT ![t] = r], Tail(q), at)
<1> DEFINE g == [f EXCEPT ![t] = r]
           q2 == Tail(q)
           n == Len(q)
<1>1. /\ n \in Nat \ {0} /\ Len(q2) = n - 1 /\ Head(q) = q[1]
      /\ \A i \in 1..Len(q2) : q2[i] = q[i + 1]
      BY EmptySeq, HeadTailProperties
<1>2. \A u \in Client : u # t => g[u] = f[u]
      OBVIOUS
<1>3. \A i \in 1..n : q[i].task \in Client /\ (i # 1 => q[i].task # t)
      <2> TAKE i \in 1..n
      <2>1. q[i] \in Held
            BY <1>1, ElementOfSeq
      <2> QED BY <1>1, <2>1 DEF Held, QueueSound
<1> HIDE DEF g, q2
<1>4. \A i \in 1..Len(q2) :
         /\ i + 1 \in 1..n /\ q2[i] = q[i + 1]
         /\ g[q2[i].task] = f[q[i + 1].task]
      BY <1>1, <1>2, <1>3
<1> QED BY <1>1, <1>4 DEF QueueSound, g, q2

LEMMA QueueApart ==
    ASSUME NEW q \in Seq(Held), NEW f \in [Client -> Call], NEW at, NEW t \in Client,
           NEW r \in Call, QueueSound(f, q, at), ~ Waits(f[t], at)
    PROVE  QueueSound([f EXCEPT ![t] = r], q, at)
<1> DEFINE g == [f EXCEPT ![t] = r]
<1>1. \A i \in 1..Len(q) : q[i].task \in Client /\ g[q[i].task] = f[q[i].task]
      <2> TAKE i \in 1..Len(q)
      <2>1. q[i] \in Held
            BY ElementOfSeq
      <2> QED BY <2>1 DEF Held, QueueSound
<1> HIDE DEF g
<1>2. QueueSound(g, q, at)
      BY <1>1 DEF QueueSound
<1> QED BY <1>2 DEF g

\* Whatever a step does with a lock, its queue stays sound and no other task
\* loses it.
LEMMA MovesKeeps ==
    ASSUME NEW lock \in Lock, NEW new, NEW f \in [Client -> Call], NEW at,
           NEW t \in Client, NEW r \in Call,
           QueueSound(f, lock.queue, at), Moves(lock, new, at, t, f[t], r)
    PROVE  /\ new \in Lock
           /\ QueueSound([f EXCEPT ![t] = r], new.queue, at)
           /\ \A h \in lock.holders : h.task # t => h \in new.holders
<1>1. lock.queue \in Seq(Held)
      BY DEF Lock
<1>2. CASE new = lock /\ ~ Waits(f[t], at)
      BY <1>1, <1>2, QueueApart
<1>3. CASE new = Requested(lock, t, Wants(r)) /\ ~ Waits(f[t], at) /\ Waits(r, at)
      <2> DEFINE q2 == Append(lock.queue, [task |-> t, mode |-> Wants(r)])
      <2>1. q2 \in Seq(Held) /\ QueueSound([f EXCEPT ![t] = r], q2, at)
            BY <1>1, <1>3, QueueRequested
      <2>2. new = [holders |-> lock.holders, queue |-> q2]
            BY <1>3 DEF Requested, Lock
      <2> HIDE DEF q2
      <2> QED BY <2>1, <2>2 DEF Lock
<1>4. ASSUME CanEnter(lock, t)
      PROVE  /\ Entered(lock, t) \in Lock
             /\ QueueSound([f EXCEPT ![t] = r], Entered(lock, t).queue, at)
             /\ lock.holders \subseteq Entered(lock, t).holders
      <2>1. lock.queue # <<>> /\ Head(lock.queue).task = t
            BY <1>4 DEF CanEnter
      <2>2. QueueSound([f EXCEPT ![t] = r], Tail(lock.queue), at)
            BY <1>1, <2>1, QueueAdvanced
      <2> QED BY <1>4, <2>2, EnteredIs
<1>5. CASE CanEnter(lock, t) /\ new = Entered(lock, t)
      BY <1>4, <1>5
<1>6. CASE CanEnter(lock, t) /\ new = Left(Entered(lock, t), t)
      <2>1. Entered(lock, t) \in Lock
            BY <1>4, <1>6
      <2>2. /\ new \in Lock /\ new.queue = Entered(lock, t).queue
            /\ \A h \in Entered(lock, t).holders : h.task # t => h \in new.holders
            BY <1>6, <2>1, LeftIs
      <2> QED BY <1>4, <1>6, <2>2
<1>7. CASE new = Left(lock, t) /\ ~ Waits(f[t], at)
      BY <1>1, <1>7, LeftIs, QueueApart
<1> QED BY <1>2, <1>3, <1>5, <1>6, <1>7 DEF Moves


\* A step of task t leaves the locks sound when it moves each lock as its call
\* asks, and holds what the call it turns into needs.
LEMMA LocksStep ==
    ASSUME CallsTyped, LocksSound, NEW t \in Client, NEW r \in Call,
           call' = [call EXCEPT ![t] = r],
           Moves(storage, storage', "storage", t, call[t], r),
           Moves(index, index', "index", t, call[t], r),
           Keeps(r, t, storage', index'),
           r \in Refill => \A u \in Client : u # t => call[u] \notin Refill
    PROVE  CallsTyped' /\ LocksSound'
<1>1. /\ storage \in Lock /\ index \in Lock /\ call \in [Client -> Call]
      /\ QueueSound(call, storage.queue, "storage")
      /\ QueueSound(call, index.queue, "index")
      BY DEF CallsTyped, LocksSound
<1>2. /\ storage' \in Lock
      /\ QueueSound([call EXCEPT ![t] = r], storage'.queue, "storage")
      /\ \A h \in storage.holders : h.task # t => h \in storage'.holders
      BY <1>1, MovesKeeps
<1>3. /\ index' \in Lock
      /\ QueueSound([call EXCEPT ![t] = r], index'.queue, "index")
      /\ \A h \in index.holders : h.task # t => h \in index'.holders
      BY <1>1, MovesKeeps
<1>4. call'[t] = r /\ \A u \in Client : u # t => call'[u] = call[u]
      BY <1>1
<1>5. call' \in [Client -> Call]
      BY <1>1
<1>6. ASSUME NEW u \in Client PROVE Keeps(call'[u], u, storage', index')
      <2>1. CASE u = t
            BY <1>4, <2>1
      <2>2. CASE u # t
            <3>1. Keeps(call[u], u, storage, index)
                  BY DEF LocksSound
            <3> QED BY <1>2, <1>3, <1>4, <2>2, <3>1 DEF Keeps
      <2> QED BY <2>1, <2>2
<1>7. \A u, v \in Client : Refilling(u)' /\ Refilling(v)' => u = v
      BY <1>4 DEF LocksSound, Refilling
<1>8. CallsTyped'
      BY <1>2, <1>3, <1>5 DEF CallsTyped
<1>9. LocksSound'
      BY <1>2, <1>3, <1>6, <1>7 DEF LocksSound
<1> QED BY <1>8, <1>9

\* No task fills the index while another has the right to write in the store or
\* in the index.
LEMMA NobodyRefills ==
    ASSUME CallsTyped, LocksSound, NEW t \in Client, Wants(call[t]) = "write",
           CanEnter(storage, t) \/ CanEnter(index, t)
    PROVE  \A u \in Client : ~ Refilling(u)
<1>1. /\ storage \in Lock /\ index \in Lock /\ call \in [Client -> Call]
      /\ QueueSound(call, storage.queue, "storage")
      /\ QueueSound(call, index.queue, "index")
      BY DEF CallsTyped, LocksSound
<1>2. storage.holders = {} \/ index.holders = {}
      BY <1>1, WriterAlone
<1> QED BY <1>2 DEF LocksSound, Keeps, Refilling

\* What calls write are documents.
LEMMA TouchedAreIds ==
    ASSUME DatabaseAssumption, VectorsAssumption, NEW c \in Call
    PROVE  Touches(c) \in SUBSET Id
<1>1. \A docs \in DocBatches : DocIds(docs) \in SUBSET Id
      <2> TAKE docs \in DocBatches
      <2>1. \A i \in DOMAIN docs : docs[i] \in Doc
            BY VectorsOfBatch
      <2> QED BY <2>1 DEF DocIds, Doc
<1>2. c \in Add => c.docs \in DocBatches
      BY DEF Add
<1>3. c \in Delete => c.id \in Id
      BY DEF Delete
<1> QED BY <1>1, <1>2, <1>3, TouchesParts

\* A call begins, goes on without writing more, or ends.
LEMMA OverlapsStep ==
    ASSUME OverlapsTainted, call \in [Client -> Call], tainted \in [Client -> SUBSET Id],
           NEW t \in Client, NEW r \in Call, call' = [call EXCEPT ![t] = r],
           \/ Touches(call[t]) = {} /\ Disturb(t, Touches(r))
           \/ /\ Touches(r) \subseteq Touches(call[t])
              /\ \A u \in Client : u # t => tainted[u] \subseteq tainted'[u]
              /\ Touches(r) = {} \/ tainted[t] \subseteq tainted'[t]
    PROVE  OverlapsTainted'
<1>1. call'[t] = r /\ \A u \in Client : u # t => call'[u] = call[u]
      OBVIOUS
<1> SUFFICES ASSUME NEW u \in Client, NEW v \in Client, u # v
             PROVE  Touches(call'[u]) \cap Touches(call'[v]) \subseteq tainted'[u]
    BY DEF OverlapsTainted
<1>2. Touches(call[u]) \cap Touches(call[v]) \subseteq tainted[u]
      BY DEF OverlapsTainted
<1>3. CASE Touches(call[t]) = {} /\ Disturb(t, Touches(r))
      <2>1. /\ tainted'[t] = Touches(r) \cap UNION {Touches(call[x]) : x \in Client}
            /\ u # t => tainted'[u] = tainted[u] \cup (Touches(r) \cap Touches(call[u]))
            BY <1>3 DEF Disturb
      <2>2. CASE u = t
            <3>1. v # t /\ call'[v] = call[v]
                  BY <1>1, <2>2
            <3> QED BY <1>1, <2>1, <2>2, <3>1
      <2>3. CASE v = t
            BY <1>1, <2>1, <2>3
      <2>4. CASE u # t /\ v # t
            BY <1>1, <1>2, <2>1, <2>4
      <2> QED BY <2>2, <2>3, <2>4
<1>4. CASE /\ Touches(r) \subseteq Touches(call[t])
           /\ \A x \in Client : x # t => tainted[x] \subseteq tainted'[x]
           /\ Touches(r) = {} \/ tainted[t] \subseteq tainted'[t]
      <2>1. CASE u = t
            BY <1>1, <1>2, <1>4, <2>1
      <2>2. CASE v = t
            BY <1>1, <1>2, <1>4, <2>2
      <2>3. CASE u # t /\ v # t
            BY <1>1, <1>2, <1>4, <2>3
      <2> QED BY <2>1, <2>2, <2>3
<1> QED BY <1>3, <1>4

-----------------------------------------------------------------------------
(* Steps that change neither the store nor the index.                      *)

\* A call that begins, goes on or ends without changing anything keeps Inv.
LEMMA QuietStep ==
    ASSUME Inv, NEW t \in Client, NEW r \in Call, call' = [call EXCEPT ![t] = r],
           UNCHANGED <<ivars, store>>,
           call[t] \notin Refill, r \notin Refill,
           ~ (r \in Add /\ r.at = "index"), ~ (r \in Delete /\ r.at = "storage"),
           tainted' \in [Client -> SUBSET Id],
           \A u \in Client : u # t => tainted[u] \subseteq tainted'[u],
           doubt' \in SUBSET Id, doubt \cup HalfDone(t) \subseteq doubt',
           Moves(storage, storage', "storage", t, call[t], r),
           Moves(index, index', "index", t, call[t], r),
           Keeps(r, t, storage', index'),
           \/ Touches(call[t]) = {} /\ Disturb(t, Touches(r))
           \/ Touches(r) = {}
    PROVE  Inv'
<1>1. CallsTyped' /\ LocksSound'
      BY LocksStep DEF Inv
<1>2. /\ call \in [Client -> Call] /\ tainted \in [Client -> SUBSET Id]
      /\ call'[t] = r /\ \A u \in Client : u # t => call'[u] = call[u]
      BY DEF Inv, CallsTyped, DataTyped
<1>3. OverlapsTainted'
      <2>1. \/ Touches(call[t]) = {} /\ Disturb(t, Touches(r))
            \/ /\ Touches(r) \subseteq Touches(call[t])
               /\ \A u \in Client : u # t => tainted[u] \subseteq tainted'[u]
               /\ Touches(r) = {} \/ tainted[t] \subseteq tainted'[t]
            OBVIOUS
      <2> QED BY <1>2, <2>1, OverlapsStep DEF Inv
<1>4. live' = live /\ visible' = visible /\ built' = built /\ dim' = dim /\ store' = store
      BY DEF ivars
<1>5. DataTyped'
      BY <1>4 DEF Inv, DataTyped
<1>6. /\ \A u \in Client : Stored(u)' => u # t /\ Stored(u)
      /\ \A u \in Client : Unindexed(u)' => u # t /\ Unindexed(u)
      /\ \A u \in Client : Refilling(u)' => u # t /\ Refilling(u)
      /\ \A u \in Client : u # t /\ Refilling(u) => Refilling(u)'
      BY <1>2 DEF Stored, Unindexed, Refilling
<1>7. AddsStored'
      <2> SUFFICES ASSUME NEW u \in Client, Stored(u)',
                          NEW id \in DocIds(call'[u].docs) \ tainted'[u]
                   PROVE  store'[id] = LastDoc(call'[u].docs, id).vec
          BY DEF AddsStored
      <2>1. u # t /\ Stored(u) /\ call'[u] = call[u] /\ id \notin tainted[u]
            BY <1>2, <1>6
      <2> QED BY <1>4, <2>1 DEF Inv, AddsStored
<1>8. DeletesUnindexed'
      <2> SUFFICES ASSUME NEW u \in Client, Unindexed(u)', call'[u].id \notin tainted'[u]
                   PROVE  live'[call'[u].id] = NoVec
          BY DEF DeletesUnindexed
      <2>1. u # t /\ Unindexed(u) /\ call'[u] = call[u] /\ call[u].id \notin tainted[u]
            BY <1>2, <1>6
      <2> QED BY <1>4, <2>1 DEF Inv, DeletesUnindexed
<1>9. RefillsExact'
      <2> SUFFICES ASSUME NEW u \in Client, Refilling(u)'
                   PROVE  /\ live' = [id \in Id |-> IF id \notin call'[u].todo
                                                       /\ store'[id] \in Vec
                                                    THEN store'[id] ELSE NoVec]
                          /\ visible' = LiveIds(live')
                          /\ \A v \in Client : Unindexed(v)' => call'[v].id \in tainted'[v]
          BY DEF RefillsExact
      <2>1. u # t /\ Refilling(u) /\ call'[u] = call[u]
            BY <1>2, <1>6
      <2>2. /\ live = [id \in Id |-> IF id \notin call[u].todo /\ store[id] \in Vec
                                     THEN store[id] ELSE NoVec]
            /\ visible = LiveIds(live)
            /\ \A v \in Client : Unindexed(v) => call[v].id \in tainted[v]
            BY <2>1 DEF Inv, RefillsExact
      <2>3. ASSUME NEW v \in Client, Unindexed(v)' PROVE call'[v].id \in tainted'[v]
            BY <1>2, <1>6, <2>2, <2>3
      <2> QED BY <1>4, <2>1, <2>2, <2>3
<1>10. UndoubtedAgree'
      <2> SUFFICES ASSUME \A u \in Client : ~ Refilling(u)', NEW id \in Id, id \notin doubt',
                          \A u \in Client : id \notin HalfDone(u)'
                   PROVE  Agree(id)'
          BY DEF UndoubtedAgree
      <2>1. \A u \in Client : ~ Refilling(u)
            BY <1>6 DEF Refilling
      <2>2. ASSUME NEW u \in Client PROVE id \notin HalfDone(u)
            <3>1. CASE u = t
                  BY <3>1
            <3>2. CASE u # t
                  <4>1. HalfDone(u)' = HalfDone(u)
                        BY <1>2, <3>2 DEF HalfDone, Stored, Unindexed
                  <4> QED BY <4>1
            <3> QED BY <3>1, <3>2
      <2>3. Agree(id)
            BY <2>1, <2>2 DEF Inv, UndoubtedAgree
      <2> QED BY <1>4, <2>3 DEF Agree
<1> QED BY <1>1, <1>3, <1>5, <1>7, <1>8, <1>9, <1>10 DEF Inv


\* A call begins by asking for the lock it takes first.
LEMMA BeginsQuietly ==
    ASSUME DatabaseAssumption, VectorsAssumption, Inv, NEW t \in Client,
           \/ \E docs \in DocBatches : BeginAdd(t, docs)
           \/ \E id \in Id : BeginDelete(t, id)
           \/ BeginRead(t) \/ BeginSearch(t) \/ BeginRebuild(t)
    PROVE  Inv'
<1>1. /\ storage \in Lock /\ index \in Lock /\ call \in [Client -> Call]
      /\ tainted \in [Client -> SUBSET Id] /\ doubt \in SUBSET Id
      BY DEF Inv, CallsTyped, DataTyped
<1>2. /\ call[t] = NoCall /\ NoCall \in Call /\ UNCHANGED <<ivars, store, doubt>>
      BY DEF BeginAdd, BeginDelete, BeginRead, BeginSearch, BeginRebuild, Call
<1>3. /\ Touches(call[t]) = {} /\ HalfDone(t) = {} /\ call[t] \notin Refill
      /\ \A at : ~ Waits(call[t], at)
      BY <1>2, CallParts, TouchesParts DEF HalfDone, Stored, Unindexed, Waits
<1>4. ASSUME NEW r \in Call, r \notin Refill, r # NoCall,
             call' = [call EXCEPT ![t] = r],
             ~ (r \in Add /\ r.at = "index"), ~ (r \in Delete /\ r.at = "storage"),
             ~ (r \in Rebuild /\ r.at = "index"),
             Disturb(t, Touches(r)) \/ (Touches(r) = {} /\ tainted' = tainted),
             \/ /\ storage' = Requested(storage, t, Wants(r)) /\ index' = index
                /\ r.at = "storage"
             \/ /\ index' = Requested(index, t, Wants(r)) /\ storage' = storage
                /\ r.at = "index"
      PROVE  Inv'
      <2>1. /\ tainted' \in [Client -> SUBSET Id]
            /\ \A u \in Client : u # t => tainted[u] \subseteq tainted'[u]
            <3>1. CASE Disturb(t, Touches(r))
                  BY <1>1, <1>4, <3>1, TouchedAreIds DEF Disturb
            <3> QED BY <1>1, <1>4, <3>1
      <2>2. /\ Moves(storage, storage', "storage", t, call[t], r)
            /\ Moves(index, index', "index", t, call[t], r)
            BY <1>3, <1>4 DEF Moves, Waits
      <2>3. Keeps(r, t, storage', index')
            BY <1>4 DEF Keeps
      <2>4. doubt' \in SUBSET Id /\ doubt \cup HalfDone(t) \subseteq doubt'
            BY <1>1, <1>2, <1>3
      <2>5. UNCHANGED <<ivars, store>>
            BY <1>2
      <2>6. \/ Touches(call[t]) = {} /\ Disturb(t, Touches(r))
            \/ Touches(r) = {}
            BY <1>3, <1>4
      <2> QED BY <1>3, <1>4, <2>1, <2>2, <2>3, <2>4, <2>5, <2>6, QuietStep
<1>5. ASSUME NEW docs \in DocBatches, BeginAdd(t, docs) PROVE Inv'
      <2> DEFINE r == [op |-> "add", at |-> "storage", docs |-> docs]
      <2>1. r \in Add /\ r \in Call
            BY DEF Add, Call
      <2>2. r.op = "add" /\ r.at = "storage" /\ Wants(r) = "write" /\ r.docs = docs
            BY DEF Wants
      <2>3. Touches(r) = DocIds(docs)
            BY <2>1, <2>2, TouchesParts
      <2>4. /\ call' = [call EXCEPT ![t] = r]
            /\ storage' = Requested(storage, t, Wants(r)) /\ index' = index
            /\ Disturb(t, Touches(r))
            BY <1>5, <2>2, <2>3 DEF BeginAdd, Goes
      <2> HIDE DEF r
      <2> QED BY <1>4, <2>1, <2>2, <2>4, CallParts
<1>6. ASSUME NEW id \in Id, BeginDelete(t, id) PROVE Inv'
      <2> DEFINE r == [op |-> "delete", at |-> "index", id |-> id]
      <2>1. r \in Delete /\ r \in Call
            BY DEF Delete, Call
      <2>2. r.op = "delete" /\ r.at = "index" /\ Wants(r) = "write" /\ r.id = id
            BY DEF Wants
      <2>3. Touches(r) = {id}
            BY <2>1, <2>2, TouchesParts
      <2>4. /\ call' = [call EXCEPT ![t] = r]
            /\ index' = Requested(index, t, Wants(r)) /\ storage' = storage
            /\ Disturb(t, Touches(r))
            BY <1>6, <2>2, <2>3 DEF BeginDelete, Goes
      <2> HIDE DEF r
      <2> QED BY <1>4, <2>1, <2>2, <2>4, CallParts
<1>7. CASE BeginRead(t)
      <2> DEFINE r == [op |-> "read", at |-> "storage"]
      <2>1. r \in Read /\ r \in Call
            BY DEF Read, Call
      <2>2. r.op = "read" /\ r.at = "storage" /\ Wants(r) = "read"
            BY DEF Wants
      <2>3. Touches(r) = {}
            BY <2>1, <2>2, CallParts, TouchesParts
      <2>4. /\ call' = [call EXCEPT ![t] = r]
            /\ storage' = Requested(storage, t, Wants(r)) /\ index' = index
            /\ tainted' = tainted
            BY <1>7, <2>2 DEF BeginRead, Goes
      <2> HIDE DEF r
      <2> QED BY <1>4, <2>1, <2>2, <2>3, <2>4, CallParts
<1>8. CASE BeginSearch(t)
      <2> DEFINE r == [op |-> "search", at |-> "storage"]
      <2>1. r \in Search /\ r \in Call
            BY DEF Search, Call
      <2>2. r.op = "search" /\ r.at = "storage" /\ Wants(r) = "read"
            BY DEF Wants
      <2>3. Touches(r) = {}
            BY <2>1, <2>2, CallParts, TouchesParts
      <2>4. /\ call' = [call EXCEPT ![t] = r]
            /\ storage' = Requested(storage, t, Wants(r)) /\ index' = index
            /\ tainted' = tainted
            BY <1>8, <2>2 DEF BeginSearch, Goes
      <2> HIDE DEF r
      <2> QED BY <1>4, <2>1, <2>2, <2>3, <2>4, CallParts
<1>9. CASE BeginRebuild(t)
      <2> DEFINE r == [op |-> "rebuild", at |-> "storage"]
      <2>1. r \in Rebuild /\ r \in Call
            BY DEF Rebuild, Call
      <2>2. r.op = "rebuild" /\ r.at = "storage" /\ Wants(r) = "read"
            BY DEF Wants
      <2>3. Touches(r) = {}
            BY <2>1, <2>2, CallParts, TouchesParts
      <2>4. /\ call' = [call EXCEPT ![t] = r]
            /\ storage' = Requested(storage, t, Wants(r)) /\ index' = index
            /\ tainted' = tainted
            BY <1>9, <2>2 DEF BeginRebuild, Goes
      <2> HIDE DEF r
      <2> QED BY <1>4, <2>1, <2>2, <2>3, <2>4, CallParts
<1> QED BY <1>5, <1>6, <1>7, <1>8, <1>9

\* A call that ends, or goes on to the index, without having changed anything:
\* it fails in the store, reads, or enters the store for a search or a rebuild.
LEMMA GoesOnQuietly ==
    ASSUME DatabaseAssumption, VectorsAssumption, Inv, NEW t \in Client,
           \/ AddStoreFails(t) \/ DeleteStoreFails(t) \/ ReadStore(t)
           \/ SearchEntersStore(t) \/ SearchAnswers(t) \/ RebuildEntersStore(t)
    PROVE  Inv'
<1>1. /\ storage \in Lock /\ index \in Lock /\ call \in [Client -> Call]
      /\ tainted \in [Client -> SUBSET Id] /\ doubt \in SUBSET Id
      /\ QueueSound(call, storage.queue, "storage")
      /\ QueueSound(call, index.queue, "index")
      BY DEF Inv, CallsTyped, DataTyped, LocksSound
<1>2. UNCHANGED <<ivars, store>>
      BY DEF AddStoreFails, DeleteStoreFails, ReadStore, SearchEntersStore,
             SearchAnswers, RebuildEntersStore
<1>3. /\ CanEnter(storage, t) => Waits(call[t], "storage")
      /\ CanEnter(index, t) => Waits(call[t], "index")
      BY <1>1, HeadWaits
<1>4. call[t] \notin Refill
      BY <1>1, <1>3, CallParts DEF AddStoreFails, DeleteStoreFails, ReadStore,
         SearchEntersStore, SearchAnswers, RebuildEntersStore, Waits
<1>5. ASSUME NEW r \in Call, call' = [call EXCEPT ![t] = r],
             r \notin Refill, r \notin Add, r \notin Delete,
             tainted' \in [Client -> SUBSET Id],
             \A u \in Client : u # t => tainted[u] \subseteq tainted'[u],
             doubt' \in SUBSET Id, doubt \cup HalfDone(t) \subseteq doubt',
             Moves(storage, storage', "storage", t, call[t], r),
             Moves(index, index', "index", t, call[t], r),
             Keeps(r, t, storage', index')
      PROVE  Inv'
      <2>1. Touches(r) = {}
            BY <1>5, TouchesParts
      <2> QED BY <1>2, <1>4, <1>5, <2>1, QuietStep
<1>6. /\ NoCall \in Call /\ \A at : ~ Waits(NoCall, at)
      /\ NoCall \notin Refill /\ NoCall \notin Add /\ NoCall \notin Delete
      /\ \A st, ix : Keeps(NoCall, t, st, ix)
      <2>1. NoCall \in Call
            BY DEF Call
      <2>2. NoCall \notin Refill /\ NoCall \notin Add /\ NoCall \notin Delete /\ NoCall \notin Rebuild
            BY <2>1, CallParts
      <2> QED BY <2>1, <2>2 DEF Waits, Keeps
<1>7. CASE AddStoreFails(t)
      <2>1. /\ call[t].at = "storage" /\ CanEnter(storage, t) /\ call[t].op = "add"
            /\ storage' = Left(Entered(storage, t), t) /\ index' = index
            /\ call' = [call EXCEPT ![t] = NoCall]
            /\ doubt' = doubt \cup tainted[t] /\ tainted' = [tainted EXCEPT ![t] = {}]
            BY <1>7 DEF AddStoreFails, Goes
      <2>2. HalfDone(t) = {}
            BY <1>1, <2>1, CallParts DEF HalfDone, Stored, Unindexed
      <2>3. /\ Moves(storage, storage', "storage", t, call[t], NoCall)
            /\ Moves(index, index', "index", t, call[t], NoCall)
            BY <1>6, <2>1 DEF Moves, Waits
      <2>4. /\ tainted' \in [Client -> SUBSET Id]
            /\ \A u \in Client : u # t => tainted[u] \subseteq tainted'[u]
            /\ doubt' \in SUBSET Id /\ doubt \cup HalfDone(t) \subseteq doubt'
            BY <1>1, <2>1, <2>2
      <2> QED BY <1>5, <1>6, <2>1, <2>3, <2>4
<1>8. CASE DeleteStoreFails(t)
      <2>1. /\ call[t].at = "storage" /\ CanEnter(storage, t) /\ call[t].op = "delete"
            /\ storage' = Left(Entered(storage, t), t) /\ index' = index
            /\ call' = [call EXCEPT ![t] = NoCall]
            /\ doubt' = doubt \cup {call[t].id} /\ tainted' = [tainted EXCEPT ![t] = {}]
            BY <1>8 DEF DeleteStoreFails, Ends, Goes
      <2>2. call[t] \in Delete /\ call[t].id \in Id
            BY <1>1, <2>1, CallParts DEF Delete
      <2>3. HalfDone(t) \subseteq {call[t].id}
            BY <1>1, <2>2, TouchesParts DEF HalfDone
      <2>4. /\ Moves(storage, storage', "storage", t, call[t], NoCall)
            /\ Moves(index, index', "index", t, call[t], NoCall)
            BY <1>6, <2>1 DEF Moves, Waits
      <2>5. /\ tainted' \in [Client -> SUBSET Id]
            /\ \A u \in Client : u # t => tainted[u] \subseteq tainted'[u]
            /\ doubt' \in SUBSET Id /\ doubt \cup HalfDone(t) \subseteq doubt'
            BY <1>1, <2>1, <2>2, <2>3
      <2> QED BY <1>5, <1>6, <2>1, <2>4, <2>5
<1>9. CASE ReadStore(t)
      <2>1. /\ CanEnter(storage, t) /\ call[t].op = "read"
            /\ storage' = Left(Entered(storage, t), t) /\ index' = index
            /\ call' = [call EXCEPT ![t] = NoCall]
            /\ doubt' = doubt /\ tainted' = tainted
            BY <1>9 DEF ReadStore, Goes
      <2>2. HalfDone(t) = {}
            BY <1>1, <2>1, CallParts DEF HalfDone, Stored, Unindexed
      <2>3. /\ Moves(storage, storage', "storage", t, call[t], NoCall)
            /\ Moves(index, index', "index", t, call[t], NoCall)
            BY <1>3, <1>6, <2>1 DEF Moves, Waits
      <2> QED BY <1>1, <1>5, <1>6, <2>1, <2>2, <2>3
<1>10. CASE SearchAnswers(t)
      <2>1. /\ CanEnter(index, t) /\ call[t].op = "search" /\ call[t].at = "index"
            /\ storage' = Left(storage, t) /\ index' = Left(Entered(index, t), t)
            /\ call' = [call EXCEPT ![t] = NoCall]
            /\ doubt' = doubt /\ tainted' = tainted
            BY <1>10 DEF SearchAnswers, DropBothLocks, Goes
      <2>2. HalfDone(t) = {}
            BY <1>1, <2>1, CallParts DEF HalfDone, Stored, Unindexed
      <2>3. /\ Moves(storage, storage', "storage", t, call[t], NoCall)
            /\ Moves(index, index', "index", t, call[t], NoCall)
            BY <1>6, <2>1 DEF Moves, Waits
      <2> QED BY <1>1, <1>5, <1>6, <2>1, <2>2, <2>3
<1>11. CASE SearchEntersStore(t)
      <2> DEFINE r == [call[t] EXCEPT !.at = "index"]
      <2>1. /\ CanEnter(storage, t) /\ call[t].op = "search" /\ call[t].at = "storage"
            /\ storage' = Entered(storage, t) /\ index' = Requested(index, t, "read")
            /\ call' = [call EXCEPT ![t] = r]
            /\ doubt' = doubt /\ tainted' = tainted
            BY <1>11 DEF SearchEntersStore, Goes
      <2>2. call[t] \in Search
            BY <1>1, <2>1, CallParts
      <2>3. r \in Search /\ r \in Call /\ r.op = "search" /\ r.at = "index"
            BY <2>2 DEF Search, Call
      <2> HIDE DEF r
      <2>4. /\ Wants(r) = "read" /\ r \notin Refill /\ r \notin Add /\ r \notin Delete
            /\ r \notin Rebuild /\ HalfDone(t) = {} /\ r # NoCall
            BY <1>1, <2>1, <2>3, CallParts DEF HalfDone, Stored, Unindexed, Wants
      <2>5. /\ Moves(storage, storage', "storage", t, call[t], r)
            /\ Moves(index, index', "index", t, call[t], r)
            BY <2>1, <2>3, <2>4 DEF Moves, Waits
      <2>6. Keeps(r, t, storage', index')
            BY <2>4 DEF Keeps
      <2> QED BY <1>1, <1>5, <2>1, <2>3, <2>4, <2>5, <2>6
<1>12. CASE RebuildEntersStore(t)
      <2> DEFINE r == [call[t] EXCEPT !.at = "index"]
      <2>1. /\ CanEnter(storage, t) /\ call[t].op = "rebuild" /\ call[t].at = "storage"
            /\ storage' = Entered(storage, t) /\ index' = Requested(index, t, "write")
            /\ call' = [call EXCEPT ![t] = r]
            /\ doubt' = doubt /\ tainted' = tainted
            BY <1>12 DEF RebuildEntersStore, Goes
      <2>2. call[t] \in Rebuild
            BY <1>1, <2>1, CallParts
      <2>3. r \in Rebuild /\ r \in Call /\ r.op = "rebuild" /\ r.at = "index"
            BY <2>2 DEF Rebuild, Call
      <2> HIDE DEF r
      <2>4. /\ Wants(r) = "write" /\ r \notin Refill /\ r \notin Add /\ r \notin Delete
            /\ HalfDone(t) = {} /\ r # NoCall
            BY <1>1, <2>1, <2>3, CallParts DEF HalfDone, Stored, Unindexed, Wants
      <2>5. /\ Moves(storage, storage', "storage", t, call[t], r)
            /\ Moves(index, index', "index", t, call[t], r)
            BY <2>1, <2>3, <2>4 DEF Moves, Waits
      <2>6. Keeps(r, t, storage', index')
            <3>1. Wants(call[t]) = "read"
                  BY <2>1 DEF Wants
            <3>2. [task |-> t, mode |-> "read"] \in storage'.holders
                  BY <1>1, <2>1, <3>1, EnteredIs
            <3> QED BY <2>4, <3>2 DEF Keeps
      <2> QED BY <1>1, <1>5, <2>1, <2>3, <2>4, <2>5, <2>6
<1> QED BY <1>7, <1>8, <1>9, <1>10, <1>11, <1>12


-----------------------------------------------------------------------------
(* Steps that write in the store or in the index.                          *)

\* LastFor names an item for its identifier.
LEMMA LastForItem ==
    ASSUME NEW items \in Seq(Item), NEW n \in 0..Len(items), NEW id \in IdsIn(items, n)
    PROVE  items[LastFor(items, n, id)].vec \in Vec
<1> DEFINE S == {i \in 1..n : items[i].id = id}
<1>1. n \in Nat /\ S \in SUBSET (1..n) /\ S # {}
      BY DEF IdsIn
<1>2. \E last \in S : \A j \in S : j <= last
      <2> HIDE DEF S
      <2> QED BY <1>1, GreatestPosition
<1>3. \E i \in 1..n : /\ items[i].id = id
                      /\ \A j \in 1..n : items[j].id = id => j <= i
      BY <1>2
<1>4. LastFor(items, n, id) \in 1..Len(items)
      BY <1>3 DEF LastFor
<1>5. items[LastFor(items, n, id)] \in Item
      BY <1>4, ElementOfSeq
<1> QED BY <1>5 DEF Item

\* What the first n items of a batch leave in the index.
LEMMA LiveAfter ==
    ASSUME VectorsAssumption, DataTyped, NEW items \in Seq(Item), NEW n \in 0..Len(items),
           live' = LiveWith(items, n)
    PROVE  /\ live' \in [Id -> Vec \cup {NoVec}]
           /\ \A id \in Id : id \notin IdsIn(items, n) => live'[id] = live[id]
           /\ \A id \in IdsIn(items, n) : live'[id] = items[LastFor(items, n, id)].vec
<1>1. \A id \in IdsIn(items, n) : items[LastFor(items, n, id)].vec \in Vec
      BY LastForItem
<1>2. IdsIn(items, n) \subseteq Id
      BY DEF IdsIn
<1> QED BY <1>1, <1>2 DEF LiveWith, DataTyped

LEMMA DimensionAfter ==
    ASSUME DataTyped, NEW items \in Seq(Item)
    PROVE  DimAfter(dim, items) \in Dims \cup {NoDim}
<1>1. ASSUME items # <<>> PROVE DimOf[items[1].vec] \in Dims
      <2>1. Len(items) \in Nat \ {0}
            BY <1>1, EmptySeq
      <2>2. items[1] \in Item
            BY <2>1, ElementOfSeq
      <2> QED BY <2>2 DEF Item, Dims
<1> QED BY <1>1 DEF DimAfter, DataTyped

\* A document agrees in an index that shows all that is alive.
LEMMA ShownAgrees ==
    ASSUME VectorsAssumption, NEW id \in Id, visible' = LiveIds(live'),
           store'[id] = NoDoc => live'[id] = NoVec,
           store'[id] \in Vec => live'[id] = store'[id]
    PROVE  Agree(id)'
BY DEF Agree, LiveIds, VectorsAssumption

\* A step of an addition or a deletion that writes at most its own documents.
LEMMA WriterStep ==
    ASSUME DatabaseAssumption, VectorsAssumption, Inv, NEW t \in Client, NEW r \in Call,
           call[t] \in Add \cup Delete, call' = [call EXCEPT ![t] = r],
           r \notin Refill, r \notin Rebuild, Touches(r) \subseteq Touches(call[t]),
           \A u \in Client : ~ Refilling(u),
           Moves(storage, storage', "storage", t, call[t], r),
           Moves(index, index', "index", t, call[t], r),
           DataTyped',
           \A u \in Client : u # t => tainted'[u] = tainted[u],
           Touches(r) = {} \/ tainted'[t] = tainted[t],
           \A id \in Id \ Touches(call[t]) : store'[id] = store[id] /\ live'[id] = live[id],
           \A id \in Id \ Touches(call[t]) : Agree(id) => Agree(id)',
           doubt \ Touches(call[t]) \subseteq doubt',
           r \in Add /\ r.at = "index" =>
              \A id \in DocIds(r.docs) \ tainted'[t] : store'[id] = LastDoc(r.docs, id).vec,
           r \in Delete /\ r.at = "storage" /\ r.id \notin tainted'[t] => live'[r.id] = NoVec,
           \A id \in Touches(call[t]) :
              \/ id \in doubt' \/ Agree(id)'
              \/ /\ (r \in Add /\ r.at = "index") \/ (r \in Delete /\ r.at = "storage")
                 /\ id \in Touches(r)
    PROVE  Inv'
<1>1. /\ call \in [Client -> Call] /\ tainted \in [Client -> SUBSET Id]
      /\ call'[t] = r /\ \A u \in Client : u # t => call'[u] = call[u]
      BY DEF Inv, CallsTyped, DataTyped
<1>2. CallsTyped' /\ LocksSound'
      <2>1. Keeps(r, t, storage', index')
            BY DEF Keeps
      <2> QED BY <2>1, LocksStep DEF Inv
<1>3. OverlapsTainted'
      <2>1. /\ Touches(r) \subseteq Touches(call[t])
            /\ \A u \in Client : u # t => tainted[u] \subseteq tainted'[u]
            /\ Touches(r) = {} \/ tainted[t] \subseteq tainted'[t]
            OBVIOUS
      <2> QED BY <1>1, <2>1, OverlapsStep DEF Inv
<1>4. \A u \in Client : u # t => Touches(call[u]) \cap Touches(call[t]) \subseteq tainted[u]
      BY DEF Inv, OverlapsTainted
<1>5. AddsStored'
      <2> SUFFICES ASSUME NEW u \in Client, Stored(u)',
                          NEW id \in DocIds(call'[u].docs) \ tainted'[u]
                   PROVE  store'[id] = LastDoc(call'[u].docs, id).vec
          BY DEF AddsStored
      <2>1. CASE u = t
            BY <1>1, <2>1 DEF Stored
      <2>2. CASE u # t
            <3>1. call'[u] = call[u] /\ Stored(u) /\ id \notin tainted[u]
                  BY <1>1, <2>2 DEF Stored
            <3>2. store[id] = LastDoc(call[u].docs, id).vec
                  BY <3>1 DEF Inv, AddsStored
            <3>3. id \in Touches(call[u]) /\ id \in Id
                  <4>1. call[u] \in Call /\ call[u] \in Add
                        BY <1>1, <3>1 DEF Stored
                  <4>2. Touches(call[u]) = DocIds(call[u].docs)
                        BY ONLY <4>1, TouchesParts
                  <4>3. Touches(call[u]) \in SUBSET Id
                        BY ONLY <4>1, DatabaseAssumption, VectorsAssumption, TouchedAreIds
                  <4> QED BY <3>1, <4>2, <4>3
            <3>4. store'[id] = store[id]
                  BY <1>4, <2>2, <3>1, <3>3
            <3> QED BY <3>1, <3>2, <3>4
      <2> QED BY <2>1, <2>2
<1>6. DeletesUnindexed'
      <2> SUFFICES ASSUME NEW u \in Client, Unindexed(u)', call'[u].id \notin tainted'[u]
                   PROVE  live'[call'[u].id] = NoVec
          BY DEF DeletesUnindexed
      <2>1. CASE u = t
            BY <1>1, <2>1 DEF Unindexed
      <2>2. CASE u # t
            <3>1. call'[u] = call[u] /\ Unindexed(u) /\ call[u].id \notin tainted[u]
                  BY <1>1, <2>2 DEF Unindexed
            <3>2. live[call[u].id] = NoVec
                  BY <3>1 DEF Inv, DeletesUnindexed
            <3>3. call[u].id \in Touches(call[u]) /\ call[u].id \in Id
                  <4>1. call[u] \in Call /\ call[u] \in Delete
                        BY <1>1, <3>1 DEF Unindexed
                  <4>2. Touches(call[u]) = {call[u].id}
                        BY ONLY <4>1, TouchesParts
                  <4>3. Touches(call[u]) \in SUBSET Id
                        BY ONLY <4>1, DatabaseAssumption, VectorsAssumption, TouchedAreIds
                  <4> QED BY <3>1, <4>2, <4>3
            <3>4. live'[call[u].id] = live[call[u].id]
                  BY <1>4, <2>2, <3>1, <3>3
            <3> QED BY <3>1, <3>2, <3>4
      <2> QED BY <2>1, <2>2
<1>7. \A u \in Client : ~ Refilling(u)'
      BY <1>1 DEF Refilling
<1>8. RefillsExact'
      BY <1>7 DEF RefillsExact
<1>9. UndoubtedAgree'
      <2> SUFFICES ASSUME NEW id \in Id, id \notin doubt',
                          \A u \in Client : id \notin HalfDone(u)'
                   PROVE  Agree(id)'
          BY DEF UndoubtedAgree
      <2>1. CASE id \in Touches(call[t])
            <3>1. id \notin HalfDone(t)'
                  OBVIOUS
            <3> QED BY <1>1, <2>1, <3>1 DEF HalfDone, Stored, Unindexed
      <2>2. CASE id \notin Touches(call[t])
            <3>1. id \notin doubt /\ id \notin HalfDone(t)
                  BY <2>2 DEF HalfDone
            <3>2. ASSUME NEW u \in Client, u # t PROVE id \notin HalfDone(u)
                  <4>1. HalfDone(u)' = HalfDone(u)
                        BY <1>1, <3>2 DEF HalfDone, Stored, Unindexed
                  <4> QED BY <4>1
            <3>3. Agree(id)
                  BY <3>1, <3>2 DEF Inv, UndoubtedAgree
            <3> QED BY <2>2, <3>3
      <2> QED BY <2>1, <2>2
<1> QED BY <1>2, <1>3, <1>5, <1>6, <1>8, <1>9 DEF Inv


\* The document of an identifier that a batch stores.
LEMMA LastDocTyped ==
    ASSUME DatabaseAssumption, VectorsAssumption, NEW docs \in DocBatches,
           NEW id \in DocIds(docs)
    PROVE  LastDoc(docs, id).vec \in Vec \cup {NoVec} /\ id \in Id
<1>1. PICK p \in DOMAIN docs : docs[p] = LastDoc(docs, id) /\ docs[p].id = id
      BY LastDocProperty
<1>2. docs[p] \in Doc
      BY VectorsOfBatch
<1> QED BY <1>1, <1>2 DEF Doc

LEMMA IdleParts ==
    /\ NoCall \in Call /\ Touches(NoCall) = {} /\ \A at : ~ Waits(NoCall, at)
    /\ NoCall \notin Refill /\ NoCall \notin Rebuild /\ NoCall \notin Add /\ NoCall \notin Delete
<1>1. NoCall \in Call
      BY DEF Call
<1>2. NoCall \notin Refill /\ NoCall \notin Rebuild /\ NoCall \notin Add /\ NoCall \notin Delete
      BY <1>1, CallParts
<1> QED BY <1>1, <1>2, TouchesParts DEF Waits

LEMMA AddToStoreKeeps ==
    ASSUME DatabaseAssumption, VectorsAssumption, Inv, NEW t \in Client, AddToStore(t)
    PROVE  Inv'
<1> DEFINE c == call[t]
           docs == c.docs
           ids == DocIds(docs)
<1>1. /\ call \in [Client -> Call] /\ tainted \in [Client -> SUBSET Id] /\ doubt \in SUBSET Id
      /\ CallsTyped /\ LocksSound /\ DataTyped
      BY DEF Inv, CallsTyped, DataTyped
<1>2. c.op = "add" /\ c.at = "storage" /\ CanEnter(storage, t)
      BY DEF AddToStore
<1>3. c \in Add /\ docs \in DocBatches /\ Touches(c) = ids /\ Wants(c) = "write" /\ c # NoCall
      BY <1>1, <1>2, CallParts, TouchesParts DEF Add, Wants
<1>4. \A u \in Client : ~ Refilling(u)
      BY <1>1, <1>2, <1>3, NobodyRefills
<1>5. /\ store' = [id \in Id |-> IF id \in ids THEN LastDoc(docs, id).vec ELSE store[id]]
      /\ storage' = Left(Entered(storage, t), t)
      /\ live' = live /\ visible' = visible /\ built' = built /\ dim' = dim
      BY DEF AddToStore, ivars
<1>6. \A id \in ids : LastDoc(docs, id).vec \in Vec \cup {NoVec} /\ id \in Id
      BY <1>3, LastDocTyped
<1>7. /\ \A id \in ids : store'[id] = LastDoc(docs, id).vec
      /\ \A id \in Id \ ids : store'[id] = store[id] /\ live'[id] = live[id]
      /\ \A id \in Id \ ids : Agree(id) => Agree(id)'
      <2>1. /\ \A id \in ids : store'[id] = LastDoc(docs, id).vec
            /\ \A id \in Id \ ids : store'[id] = store[id]
            BY <1>5, <1>6
      <2> HIDE DEF ids
      <2> QED BY <1>5, <2>1 DEF Agree
<1>8. store' \in [Id -> Vec \cup {NoVec, NoDoc}]
      <2> HIDE DEF ids, docs
      <2> QED BY <1>1, <1>5, <1>6 DEF DataTyped
<1> HIDE DEF c, docs, ids
<1>9. CASE VectorsToIndex(docs) = <<>>
      <2>1. /\ call' = [call EXCEPT ![t] = NoCall] /\ index' = index
            /\ doubt' = (doubt \ ids) \cup tainted[t]
            /\ tainted' = [tainted EXCEPT ![t] = {}]
            BY <1>9 DEF AddToStore, Ends, Goes, c, docs, ids
      <2>2. DataTyped'
            BY <1>1, <1>5, <1>8, <2>1 DEF DataTyped
      <2>3. /\ Moves(storage, storage', "storage", t, c, NoCall)
            /\ Moves(index, index', "index", t, c, NoCall)
            BY <1>2, <1>5, <2>1, IdleParts DEF Moves, Waits, c
      <2>4. \A id \in ids : Agree(id)'
            <3>1. NoVec # NoDoc /\ NoVec \notin Vec
                  BY DEF DatabaseAssumption, VectorsAssumption
            <3>2. \A id \in ids : store'[id] = NoVec
                  BY <1>3, <1>7, <1>9, NothingHandedOver DEF ids
            <3>3. ASSUME NEW id \in ids PROVE Agree(id)'
                  <4>1. store'[id] # NoDoc /\ store'[id] \notin Vec
                        BY <3>1, <3>2
                  <4> QED BY <4>1 DEF Agree
            <3> QED BY <3>3
      <2>5. \A u \in Client : u # t => tainted'[u] = tainted[u]
            BY <1>1, <2>1
      <2>6. c = call[t]
            BY DEF c
      <2>7. doubt \ ids \subseteq doubt'
            BY <2>1
      <2>8. /\ ~ (NoCall \in Add /\ NoCall.at = "index")
            /\ ~ (NoCall \in Delete /\ NoCall.at = "storage")
            BY IdleParts
      <2> QED BY <1>3, <1>4, <1>7, <2>1, <2>2, <2>3, <2>4, <2>5, <2>6, <2>7, <2>8,
                 IdleParts, WriterStep
<1>10. CASE VectorsToIndex(docs) # <<>>
      <2> DEFINE r == [c EXCEPT !.at = "index"]
      <2>1. /\ call' = [call EXCEPT ![t] = r] /\ index' = Requested(index, t, "write")
            /\ doubt' = doubt /\ tainted' = tainted
            BY <1>10 DEF AddToStore, Goes, c, docs, ids
      <2>2. r \in Add /\ r \in Call /\ r.docs = docs /\ r.op = "add" /\ r.at = "index"
            BY <1>3 DEF Add, Call, docs
      <2> HIDE DEF r
      <2>3. /\ Touches(r) = ids /\ Wants(r) = "write" /\ r # NoCall
            /\ r \notin Refill /\ r \notin Rebuild /\ r \notin Delete
            BY <2>2, CallParts, TouchesParts DEF Wants, ids
      <2>4. DataTyped'
            BY <1>1, <1>5, <1>8, <2>1 DEF DataTyped
      <2>5. /\ Moves(storage, storage', "storage", t, c, r)
            /\ Moves(index, index', "index", t, c, r)
            BY <1>2, <1>5, <2>1, <2>2, <2>3 DEF Moves, Waits, c
      <2>6. \A id \in DocIds(r.docs) \ tainted'[t] : store'[id] = LastDoc(r.docs, id).vec
            BY <1>7, <2>2 DEF ids
      <2>7. c = call[t]
            BY DEF c
      <2>8. ~ (r \in Delete /\ r.at = "storage")
            BY <2>3
      <2>9. doubt \ ids \subseteq doubt'
            BY <2>1
      <2> QED BY <1>3, <1>4, <1>7, <2>1, <2>2, <2>3, <2>4, <2>5, <2>6, <2>7, <2>8, <2>9,
                 WriterStep
<1> QED BY <1>9, <1>10

LEMMA AddToIndexKeeps ==
    ASSUME DatabaseAssumption, VectorsAssumption, Inv, NEW t \in Client, AddToIndex(t)
    PROVE  Inv'
<1> DEFINE c == call[t]
           docs == c.docs
           ids == DocIds(docs)
           items == VectorsToIndex(docs)
<1>1. /\ call \in [Client -> Call] /\ tainted \in [Client -> SUBSET Id] /\ doubt \in SUBSET Id
      /\ CallsTyped /\ LocksSound /\ DataTyped
      BY DEF Inv, CallsTyped, DataTyped
<1>2. /\ c.op = "add" /\ c.at = "index" /\ CanEnter(index, t)
      /\ index' = Left(Entered(index, t), t) /\ storage' = storage /\ store' = store
      BY DEF AddToIndex
<1>3. c \in Add /\ docs \in DocBatches /\ Touches(c) = ids /\ Wants(c) = "write" /\ c # NoCall
      BY <1>1, <1>2, CallParts, TouchesParts DEF Add, Wants
<1>4. \A u \in Client : ~ Refilling(u)
      BY <1>1, <1>2, <1>3, NobodyRefills
<1>5. items \in Seq(Item) /\ Len(items) \in Nat
      BY <1>3, VectorsOfBatch
<1>6. \A n \in 0..Len(items) : IdsIn(items, n) \subseteq ids
      BY <1>3, IdsHandedOver
<1>7. dim' \in Dims \cup {NoDim}
      BY <1>1, <1>5, DimensionAfter DEF AddToIndex, AddVectorsOk, AddVectorsErr
<1>8. /\ call' = [call EXCEPT ![t] = NoCall] /\ tainted' = [tainted EXCEPT ![t] = {}]
      /\ \/ AddVectorsOk(items) /\ doubt' = (doubt \ ids) \cup tainted[t]
         \/ AddVectorsErr(items) /\ doubt' = doubt \cup ids
      BY DEF AddToIndex, Ends, Goes
<1>9. ids \subseteq Id
      BY <1>1, <1>3, TouchedAreIds
<1>10. c = call[t]
      OBVIOUS
<1>11. AddsStored
      BY DEF Inv
<1> HIDE DEF c, docs, ids, items
<1>12. /\ Moves(storage, storage', "storage", t, c, NoCall)
       /\ Moves(index, index', "index", t, c, NoCall)
      BY <1>2, IdleParts DEF Moves, Waits
<1>13. \A u \in Client : u # t => tainted'[u] = tainted[u]
      BY <1>1, <1>8
<1>14. tainted' \in [Client -> SUBSET Id] /\ store' \in [Id -> Vec \cup {NoVec, NoDoc}]
      BY <1>1, <1>2, <1>8 DEF DataTyped
<1>15. ASSUME DataTyped', doubt \ ids \subseteq doubt',
              \A id \in Id \ ids : live'[id] = live[id],
              \A id \in Id \ ids : Agree(id) => Agree(id)',
              \A id \in ids : id \in doubt' \/ Agree(id)'
       PROVE  Inv'
      <2>1. \A id \in Id \ ids : store'[id] = store[id] /\ live'[id] = live[id]
            BY <1>2, <1>15
      <2>2. /\ ~ (NoCall \in Add /\ NoCall.at = "index")
            /\ ~ (NoCall \in Delete /\ NoCall.at = "storage")
            BY IdleParts
      <2> QED BY <1>3, <1>4, <1>8, <1>10, <1>12, <1>13, <1>15, <2>1, <2>2, IdleParts, WriterStep
<1>16. CASE AddVectorsOk(items) /\ doubt' = (doubt \ ids) \cup tainted[t]
      <2>1. /\ live' = LiveWith(items, Len(items)) /\ visible' = LiveIds(live')
            /\ built' = (built \/ LiveIds(live') # {})
            BY <1>16 DEF AddVectorsOk, Rebuilt
      <2>2. Len(items) \in 0..Len(items)
            BY <1>5
      <2>3. /\ live' \in [Id -> Vec \cup {NoVec}]
            /\ \A id \in Id : id \notin IdsIn(items, Len(items)) => live'[id] = live[id]
            /\ \A id \in IdsIn(items, Len(items)) :
                  live'[id] = items[LastFor(items, Len(items), id)].vec
            BY <1>1, <1>5, <2>1, <2>2, LiveAfter
      <2>4. \A id \in Id \ ids : live'[id] = live[id]
            BY <1>6, <2>2, <2>3
      <2>5. visible' \in SUBSET Id /\ built' \in BOOLEAN
            BY <1>1, <2>1 DEF LiveIds, DataTyped
      <2>6. doubt' \in SUBSET Id /\ doubt \ ids \subseteq doubt'
            BY <1>1, <1>16
      <2>7. DataTyped'
            BY <1>7, <1>14, <2>3, <2>5, <2>6 DEF DataTyped
      <2>8. ASSUME NEW id \in Id \ ids, Agree(id) PROVE Agree(id)'
            <3>1. /\ store'[id] = NoDoc => live'[id] = NoVec
                  /\ store'[id] \in Vec => live'[id] = store'[id]
                  BY <1>2, <2>4, <2>8 DEF Agree
            <3> QED BY <2>1, <3>1, ShownAgrees
      <2>9. ASSUME NEW id \in ids, id \notin doubt' PROVE Agree(id)'
            <3>1. id \notin tainted[t] /\ id \in Id
                  BY <1>9, <1>16, <2>9
            <3>2. store'[id] = LastDoc(docs, id).vec
                  <4>1. Stored(t)
                        BY <1>2, <1>3, <1>10 DEF Stored
                  <4> QED BY <1>2, <1>11, <2>9, <3>1, <4>1 DEF AddsStored, c, docs, ids
            <3>3. LastDoc(docs, id).vec \in Vec \cup {NoVec}
                  BY <1>3, LastDocTyped DEF ids
            <3>4. store'[id] # NoDoc
                  BY <3>2, <3>3 DEF DatabaseAssumption
            <3>5. ASSUME store'[id] \in Vec PROVE live'[id] = store'[id]
                  <4>1. LastDoc(docs, id).vec # NoVec
                        BY <3>2, <3>5 DEF VectorsAssumption
                  <4>2. /\ id \in IdsIn(items, Len(items))
                        /\ items[LastFor(items, Len(items), id)].vec = LastDoc(docs, id).vec
                        BY <1>3, <4>1, LastVectorHandedOver DEF ids, items
                  <4> QED BY <2>3, <3>2, <4>2
            <3> QED BY <2>1, <3>1, <3>4, <3>5, ShownAgrees
      <2> QED BY <1>15, <2>4, <2>6, <2>7, <2>8, <2>9
<1>17. CASE AddVectorsErr(items) /\ doubt' = doubt \cup ids
      <2>1. PICK n \in 0..Len(items) : /\ live' = LiveWith(items, n)
                                       /\ visible' = visible \ IdsIn(items, n)
            BY <1>17 DEF AddVectorsErr
      <2>2. built' = built
            BY <1>17 DEF AddVectorsErr
      <2>3. /\ live' \in [Id -> Vec \cup {NoVec}]
            /\ \A id \in Id : id \notin IdsIn(items, n) => live'[id] = live[id]
            BY <1>1, <1>5, <2>1, LiveAfter
      <2>4. \A id \in Id \ ids : live'[id] = live[id] /\ (id \in visible => id \in visible')
            BY <1>6, <2>1, <2>3
      <2>5. doubt' \in SUBSET Id /\ doubt \ ids \subseteq doubt'
            BY <1>1, <1>9, <1>17
      <2>6. DataTyped'
            BY <1>1, <1>7, <1>14, <2>1, <2>2, <2>3, <2>5 DEF DataTyped
      <2>7. ASSUME NEW id \in Id \ ids, Agree(id) PROVE Agree(id)'
            BY <1>2, <2>2, <2>4, <2>7 DEF Agree
      <2> QED BY <1>15, <1>17, <2>4, <2>5, <2>6, <2>7
<1> QED BY <1>8, <1>16, <1>17

LEMMA DeleteFromIndexKeeps ==
    ASSUME DatabaseAssumption, VectorsAssumption, Inv, NEW t \in Client, DeleteFromIndex(t)
    PROVE  Inv'
<1> DEFINE c == call[t]
           r == [c EXCEPT !.at = "storage"]
<1>1. /\ call \in [Client -> Call] /\ tainted \in [Client -> SUBSET Id] /\ doubt \in SUBSET Id
      /\ CallsTyped /\ LocksSound /\ DataTyped
      BY DEF Inv, CallsTyped, DataTyped
<1>2. /\ c.op = "delete" /\ c.at = "index" /\ CanEnter(index, t)
      /\ RemoveVector(c.id)
      /\ index' = Left(Entered(index, t), t) /\ storage' = Requested(storage, t, "write")
      /\ call' = [call EXCEPT ![t] = r] /\ store' = store /\ tainted' = tainted /\ doubt' = doubt
      BY DEF DeleteFromIndex, Goes
<1>3. /\ c \in Delete /\ c.id \in Id /\ Touches(c) = {c.id} /\ Wants(c) = "write" /\ c # NoCall
      BY <1>1, <1>2, CallParts, TouchesParts DEF Delete, Wants
<1>4. \A u \in Client : ~ Refilling(u)
      BY <1>1, <1>2, <1>3, NobodyRefills
<1>5. r \in Delete /\ r \in Call /\ r.id = c.id /\ r.op = "delete" /\ r.at = "storage"
      BY <1>3 DEF Delete, Call
<1>6. c = call[t]
      OBVIOUS
<1> HIDE DEF c, r
<1>7. /\ Touches(r) = {c.id} /\ Wants(r) = "write" /\ r # NoCall
      /\ r \notin Refill /\ r \notin Rebuild /\ r \notin Add
      BY <1>5, CallParts, TouchesParts DEF Wants
<1>8. /\ Moves(storage, storage', "storage", t, c, r)
      /\ Moves(index, index', "index", t, c, r)
      BY <1>2, <1>5, <1>7 DEF Moves, Waits
<1>9. /\ live' \in [Id -> Vec \cup {NoVec}] /\ live'[c.id] = NoVec
      /\ \A id \in Id \ {c.id} : live'[id] = live[id]
      /\ visible' \in SUBSET Id /\ built' \in BOOLEAN /\ dim' = dim
      /\ \/ UNCHANGED <<live, visible, built>>
         \/ visible' = LiveIds(live')
      <2>1. CASE live[c.id] = NoVec
            BY <1>1, <1>2, <2>1 DEF RemoveVector, DataTyped, ivars
      <2>2. CASE live[c.id] # NoVec
            BY <1>1, <1>2, <1>3, <2>2 DEF RemoveVector, DataTyped, LiveIds
      <2> QED BY <2>1, <2>2
<1>10. DataTyped'
      BY <1>1, <1>2, <1>9 DEF DataTyped
<1>11. ASSUME NEW id \in Id \ {c.id}, Agree(id) PROVE Agree(id)'
      <2>1. CASE UNCHANGED <<live, visible, built>>
            BY <1>2, <1>11, <2>1 DEF Agree
      <2>2. CASE visible' = LiveIds(live')
            <3>1. /\ store'[id] = NoDoc => live'[id] = NoVec
                  /\ store'[id] \in Vec => live'[id] = store'[id]
                  BY <1>2, <1>9, <1>11 DEF Agree
            <3> QED BY <2>2, <3>1, ShownAgrees
      <2> QED BY <1>9, <2>1, <2>2
<1>12. /\ \A id \in Id \ {c.id} : store'[id] = store[id] /\ live'[id] = live[id]
       /\ \A u \in Client : u # t => tainted'[u] = tainted[u]
       /\ doubt \ {c.id} \subseteq doubt'
       /\ r.id \notin tainted'[t] => live'[r.id] = NoVec
      BY <1>2, <1>5, <1>9
<1> QED BY <1>2, <1>3, <1>4, <1>5, <1>6, <1>7, <1>8, <1>10, <1>11, <1>12, WriterStep

LEMMA DeleteFromStoreKeeps ==
    ASSUME DatabaseAssumption, VectorsAssumption, Inv, NEW t \in Client, DeleteFromStore(t)
    PROVE  Inv'
<1> DEFINE c == call[t]
<1>1. /\ call \in [Client -> Call] /\ tainted \in [Client -> SUBSET Id] /\ doubt \in SUBSET Id
      /\ CallsTyped /\ LocksSound /\ DataTyped /\ DeletesUnindexed
      BY DEF Inv, CallsTyped, DataTyped
<1>2. /\ c.op = "delete" /\ c.at = "storage" /\ CanEnter(storage, t)
      /\ store' = [store EXCEPT ![c.id] = NoDoc]
      /\ storage' = Left(Entered(storage, t), t) /\ index' = index
      /\ call' = [call EXCEPT ![t] = NoCall] /\ tainted' = [tainted EXCEPT ![t] = {}]
      /\ doubt' = (doubt \ {c.id}) \cup tainted[t]
      /\ live' = live /\ visible' = visible /\ built' = built /\ dim' = dim
      BY DEF DeleteFromStore, Ends, Goes, ivars
<1>3. /\ c \in Delete /\ c.id \in Id /\ Touches(c) = {c.id} /\ Wants(c) = "write" /\ c # NoCall
      BY <1>1, <1>2, CallParts, TouchesParts DEF Delete, Wants
<1>4. \A u \in Client : ~ Refilling(u)
      BY <1>1, <1>2, <1>3, NobodyRefills
<1>5. c.id \in doubt' \/ live[c.id] = NoVec
      <2>1. Unindexed(t)
            BY <1>2, <1>3 DEF Unindexed
      <2> QED BY <1>1, <1>2, <2>1 DEF DeletesUnindexed
<1>6. c = call[t]
      OBVIOUS
<1> HIDE DEF c
<1>7. /\ Moves(storage, storage', "storage", t, c, NoCall)
      /\ Moves(index, index', "index", t, c, NoCall)
      BY <1>2, IdleParts DEF Moves, Waits
<1>8. DataTyped'
      BY <1>1, <1>2, <1>3 DEF DataTyped
<1>9. store'[c.id] = NoDoc /\ \A id \in Id \ {c.id} : store'[id] = store[id]
      BY <1>1, <1>2, <1>3 DEF DataTyped
<1>10. ASSUME NEW id \in {c.id} PROVE id \in doubt' \/ Agree(id)'
      <2>1. NoDoc \notin Vec
            BY DEF DatabaseAssumption
      <2>2. CASE live[id] = NoVec
            <3>1. store'[id] = NoDoc /\ live'[id] = NoVec
                  BY <1>2, <1>9, <2>2
            <3> QED BY <2>1, <3>1 DEF Agree
      <2> QED BY <1>5, <2>2
<1>11. \A id \in Id \ {c.id} : Agree(id) => Agree(id)'
      BY <1>2, <1>9 DEF Agree
<1>12. /\ \A u \in Client : u # t => tainted'[u] = tainted[u]
       /\ doubt \ {c.id} \subseteq doubt'
       /\ \A id \in Id \ {c.id} : store'[id] = store[id] /\ live'[id] = live[id]
      BY <1>1, <1>2, <1>9
<1>13. /\ ~ (NoCall \in Add /\ NoCall.at = "index")
       /\ ~ (NoCall \in Delete /\ NoCall.at = "storage")
      BY IdleParts
<1>14. /\ call[t] \in Add \cup Delete /\ call' = [call EXCEPT ![t] = NoCall]
       /\ NoCall \in Call /\ NoCall \notin Refill /\ NoCall \notin Rebuild
       /\ Touches(NoCall) = {} /\ Touches(NoCall) \subseteq Touches(call[t])
       /\ Touches(call[t]) = {c.id}
      BY <1>2, <1>3, <1>6, IdleParts
<1>15. /\ Moves(storage, storage', "storage", t, call[t], NoCall)
       /\ Moves(index, index', "index", t, call[t], NoCall)
      BY <1>6, <1>7
<1>16. /\ \A id \in Id \ Touches(call[t]) : store'[id] = store[id] /\ live'[id] = live[id]
       /\ \A id \in Id \ Touches(call[t]) : Agree(id) => Agree(id)'
       /\ doubt \ Touches(call[t]) \subseteq doubt'
       /\ \A id \in Touches(call[t]) : id \in doubt' \/ Agree(id)'
      BY ONLY <1>10, <1>11, <1>12, <1>14
<1>17. DatabaseAssumption /\ VectorsAssumption /\ Inv
      OBVIOUS
<1> QED BY ONLY <1>4, <1>8, <1>12, <1>13, <1>14, <1>15, <1>16, <1>17, WriterStep


-----------------------------------------------------------------------------
(* The rebuild.                                                            *)

LEMMA RebuildClearsKeeps ==
    ASSUME DatabaseAssumption, VectorsAssumption, Inv, NEW t \in Client, RebuildClears(t)
    PROVE  Inv'
<1> DEFINE c == call[t]
           todo == {id \in Id : store[id] # NoDoc}
           r == [op |-> "rebuild", at |-> "refill", todo |-> todo]
<1>1. /\ call \in [Client -> Call] /\ tainted \in [Client -> SUBSET Id] /\ doubt \in SUBSET Id
      /\ CallsTyped /\ LocksSound /\ DataTyped /\ OverlapsTainted /\ AddsStored
      /\ storage \in Lock /\ index \in Lock /\ QueueSound(call, index.queue, "index")
      BY DEF Inv, CallsTyped, DataTyped, LocksSound
<1>2. /\ c.op = "rebuild" /\ c.at = "index" /\ CanEnter(index, t)
      /\ live' = [id \in Id |-> NoVec] /\ visible' = {} /\ built' = FALSE /\ dim' = NoDim
      /\ index' = Entered(index, t) /\ storage' = storage /\ store' = store /\ doubt' = doubt
      /\ call' = [call EXCEPT ![t] = r]
      /\ tainted' = [u \in Client |->
                        IF call[u].op = "delete" /\ call[u].at = "storage"
                        THEN tainted[u] \cup {call[u].id} ELSE tainted[u]]
      BY DEF RebuildClears, Clear, Goes
<1>3. c \in Rebuild /\ Wants(c) = "write" /\ Touches(c) = {} /\ c # NoCall
      BY <1>1, <1>2, CallParts, TouchesParts DEF Wants
<1>4. \A u \in Client : ~ Refilling(u)
      BY <1>1, <1>2, <1>3, NobodyRefills
<1>5. r \in Refill /\ r \in Call /\ r.at = "refill" /\ r.todo = todo
      BY DEF Refill, Call
<1>6. Touches(r) = {} /\ r \notin Add /\ r \notin Delete /\ r \notin Rebuild
      BY <1>5, CallParts, TouchesParts
<1>7. c = call[t]
      OBVIOUS
<1> HIDE DEF c, r, todo
<1>8. call'[t] = r /\ \A u \in Client : u # t => call'[u] = call[u]
      BY <1>1, <1>2
<1>9. /\ Moves(storage, storage', "storage", t, c, r)
      /\ Moves(index, index', "index", t, c, r)
      BY <1>2, <1>5 DEF Moves, Waits
<1>10. Keeps(r, t, storage', index')
      <2>1. [task |-> t, mode |-> "read"] \in storage.holders
            BY <1>1, <1>2, <1>3, <1>7 DEF LocksSound, Keeps
      <2>2. [task |-> t, mode |-> "write"] \in index'.holders
            BY <1>1, <1>2, <1>3, <1>7, EnteredIs
      <2> QED BY <1>2, <2>1, <2>2 DEF Keeps
<1>11. CallsTyped' /\ LocksSound'
      <2>1. \A u \in Client : u # t => call[u] \notin Refill
            BY <1>4 DEF Refilling
      <2> QED BY <1>1, <1>2, <1>5, <1>7, <1>9, <1>10, <2>1, LocksStep
<1>12. \A u \in Client : Unindexed(u) => call[u].id \in tainted'[u] /\ call[u].id \in Id
      BY <1>1, <1>2, CallParts DEF Unindexed, Delete
<1>13. tainted' \in [Client -> SUBSET Id] /\ \A u \in Client : tainted[u] \subseteq tainted'[u]
      <2>1. \A u \in Client : call[u].op = "delete" => call[u].id \in Id
            BY <1>1, CallParts DEF Delete
      <2> QED BY <1>1, <1>2, <2>1
<1>14. OverlapsTainted'
      <2>1. /\ Touches(r) \subseteq Touches(call[t])
            /\ \A u \in Client : u # t => tainted[u] \subseteq tainted'[u]
            /\ Touches(r) = {} \/ tainted[t] \subseteq tainted'[t]
            BY <1>6, <1>13
      <2> QED BY <1>1, <1>2, <1>5, <2>1, OverlapsStep
<1>15. DataTyped'
      BY <1>1, <1>2, <1>13 DEF DataTyped
<1>16. AddsStored'
      <2> SUFFICES ASSUME NEW u \in Client, Stored(u)',
                          NEW id \in DocIds(call'[u].docs) \ tainted'[u]
                   PROVE  store'[id] = LastDoc(call'[u].docs, id).vec
          BY DEF AddsStored
      <2>1. u # t /\ Stored(u) /\ call'[u] = call[u] /\ id \notin tainted[u]
            BY <1>6, <1>8, <1>13 DEF Stored
      <2> QED BY <1>1, <1>2, <2>1 DEF AddsStored
<1>17. DeletesUnindexed'
      <2> SUFFICES ASSUME NEW u \in Client, Unindexed(u)'
                   PROVE  live'[call'[u].id] = NoVec
          BY DEF DeletesUnindexed
      <2>1. call'[u].id \in Id
            BY DEF Unindexed, Delete
      <2> QED BY <1>2, <2>1
<1>18. RefillsExact'
      <2> SUFFICES ASSUME NEW u \in Client, Refilling(u)'
                   PROVE  /\ live' = [id \in Id |-> IF id \notin call'[u].todo
                                                       /\ store'[id] \in Vec
                                                    THEN store'[id] ELSE NoVec]
                          /\ visible' = LiveIds(live')
                          /\ \A v \in Client : Unindexed(v)' => call'[v].id \in tainted'[v]
          BY DEF RefillsExact
      <2>1. u = t
            BY <1>4, <1>8 DEF Refilling
      <2>2. \A id \in Id : ~ (id \notin call'[u].todo /\ store'[id] \in Vec)
            BY <1>2, <1>5, <1>8, <2>1 DEF todo, DatabaseAssumption
      <2>3. visible' = LiveIds(live')
            BY <1>2 DEF LiveIds
      <2>4. \A v \in Client : Unindexed(v)' => call'[v].id \in tainted'[v]
            BY <1>6, <1>8, <1>12 DEF Unindexed
      <2> QED BY <1>2, <2>2, <2>3, <2>4
<1>19. UndoubtedAgree'
      <2>1. Refilling(t)'
            BY <1>5, <1>8 DEF Refilling
      <2> QED BY <2>1 DEF UndoubtedAgree
<1> QED BY <1>11, <1>14, <1>15, <1>16, <1>17, <1>18, <1>19 DEF Inv

\* A single vector handed to the index replaces that of its identifier only.
LEMMA OneVectorAdded ==
    ASSUME VectorsAssumption, DataTyped, NEW id \in Id, NEW vec \in Vec, AddVectorOk(id, vec)
    PROVE  /\ live' = [live EXCEPT ![id] = vec]
           /\ visible' = LiveIds(live') /\ built' \in BOOLEAN /\ dim' \in Dims \cup {NoDim}
<1> DEFINE items == <<[id |-> id, vec |-> vec]>>
<1>1. /\ items \in Seq(Item) /\ Len(items) = 1 /\ items[1].id = id /\ items[1].vec = vec
      BY DEF Item
<1>2. AddVectorsOk(items)
      BY DEF AddVectorOk
<1> HIDE DEF items
<1>3. IdsIn(items, 1) = {id}
      BY <1>1 DEF IdsIn
<1>4. LastFor(items, 1, id) = 1
      <2>1. \E i \in 1..1 : /\ items[i].id = id
                            /\ \A j \in 1..1 : items[j].id = id => j <= i
            BY <1>1
      <2>2. LastFor(items, 1, id) \in 1..1
            BY <2>1 DEF LastFor
      <2> QED BY <2>2
<1>5. live' = LiveWith(items, 1) /\ visible' = LiveIds(live')
      /\ built' = (built \/ LiveIds(live') # {})
      BY <1>1, <1>2 DEF AddVectorsOk, Rebuilt
<1>6. live' = [live EXCEPT ![id] = vec]
      BY <1>1, <1>3, <1>4, <1>5 DEF LiveWith, DataTyped
<1>7. dim' \in Dims \cup {NoDim}
      BY <1>1, <1>2, DimensionAfter DEF AddVectorsOk
<1>8. built' \in BOOLEAN
      BY <1>5 DEF DataTyped
<1> QED BY <1>5, <1>6, <1>7, <1>8

LEMMA RebuildAddsKeeps ==
    ASSUME DatabaseAssumption, VectorsAssumption, Inv, NEW t \in Client, RebuildAdds(t)
    PROVE  Inv'
<1>1. /\ call \in [Client -> Call] /\ tainted \in [Client -> SUBSET Id] /\ doubt \in SUBSET Id
      /\ CallsTyped /\ LocksSound /\ DataTyped /\ OverlapsTainted /\ AddsStored
      BY DEF Inv, CallsTyped, DataTyped
<1>2. PICK id \in call[t].todo :
         /\ IF store[id] \in Vec THEN AddVectorOk(id, store[id]) ELSE UNCHANGED ivars
         /\ Goes(t, [call[t] EXCEPT !.todo = @ \ {id}])
      BY DEF RebuildAdds
<1>3. call[t] \in Refill
      BY <1>1, CallParts DEF RebuildAdds
<1> DEFINE c == call[t]
           todo == c.todo \ {id}
           r == [c EXCEPT !.todo = todo]
<1>4. c.todo \in SUBSET Id /\ id \in c.todo
      BY <1>2, <1>3 DEF Refill
<1>5. call' = [call EXCEPT ![t] = r]
      BY <1>2 DEF Goes
<1>6. UNCHANGED <<store, storage, index, tainted, doubt>>
      BY DEF RebuildAdds
<1>7. r \in Refill /\ r \in Call /\ r.todo = todo
      BY <1>3, <1>4 DEF Refill, Call
<1>8. /\ Touches(r) = {} /\ r \notin Add /\ r \notin Delete /\ r \notin Rebuild
      /\ r.at = "refill" /\ c.at = "refill" /\ c \in Refill /\ c = call[t]
      /\ c \notin Delete
      BY <1>1, <1>3, <1>7, CallParts, TouchesParts
<1>9. todo = c.todo \ {id}
      OBVIOUS
<1> HIDE DEF c, r, todo
<1>10. call'[t] = r /\ \A u \in Client : u # t => call'[u] = call[u]
      BY <1>1, <1>5
<1>11. /\ Moves(storage, storage', "storage", t, c, r)
       /\ Moves(index, index', "index", t, c, r)
      BY <1>6, <1>8 DEF Moves, Waits
<1>12. \A u \in Client : u # t => ~ Refilling(u)
      BY <1>8 DEF LocksSound, Refilling, Inv
<1>13. CallsTyped' /\ LocksSound'
      <2>1. Keeps(c, t, storage, index)
            BY <1>1, <1>8 DEF LocksSound
      <2>2. Keeps(r, t, storage', index')
            BY <1>6, <1>8, <2>1 DEF Keeps
      <2>3. \A u \in Client : u # t => call[u] \notin Refill
            BY <1>12 DEF Refilling
      <2> QED BY <1>1, <1>5, <1>7, <1>8, <1>11, <2>2, <2>3, LocksStep
<1>14. OverlapsTainted'
      <2>1. /\ Touches(r) \subseteq Touches(call[t])
            /\ \A u \in Client : u # t => tainted[u] \subseteq tainted'[u]
            /\ Touches(r) = {} \/ tainted[t] \subseteq tainted'[t]
            BY <1>6, <1>8
      <2> QED BY <1>1, <1>5, <1>7, <2>1, OverlapsStep
<1>15. /\ live = [x \in Id |-> IF x \notin c.todo /\ store[x] \in Vec THEN store[x] ELSE NoVec]
       /\ visible = LiveIds(live)
       /\ \A u \in Client : Unindexed(u) => call[u].id \in tainted[u]
      BY <1>8 DEF Inv, RefillsExact, Refilling
<1>16. id \in Id
      BY <1>4
<1>17. /\ live' = [x \in Id |-> IF x \notin todo /\ store[x] \in Vec THEN store[x] ELSE NoVec]
       /\ visible' = LiveIds(live')
       /\ built' \in BOOLEAN /\ dim' \in Dims \cup {NoDim}
      <2>1. CASE store[id] \in Vec
            <3>1. /\ live' = [live EXCEPT ![id] = store[id]] /\ visible' = LiveIds(live')
                  /\ built' \in BOOLEAN /\ dim' \in Dims \cup {NoDim}
                  BY <1>1, <1>2, <1>16, <2>1, OneVectorAdded
            <3>2. live' = [x \in Id |-> IF x = id THEN store[id] ELSE live[x]]
                  BY <1>15, <3>1
            <3>3. live' \in [Id -> Vec \cup {NoVec}]
                  BY <1>1, <2>1, <3>2 DEF DataTyped
            <3>4. \A x \in Id : live'[x] = IF x \notin todo /\ store[x] \in Vec
                                           THEN store[x] ELSE NoVec
                  BY <1>9, <1>15, <2>1, <3>2
            <3> QED BY <3>1, <3>3, <3>4
      <2>2. CASE store[id] \notin Vec
            <3>1. live' = live /\ visible' = visible /\ built' = built /\ dim' = dim
                  BY <1>2, <2>2 DEF ivars
            <3>2. \A x \in Id : (x \notin todo /\ store[x] \in Vec)
                                  <=> (x \notin c.todo /\ store[x] \in Vec)
                  BY <1>9, <2>2
            <3>3. live' = [x \in Id |-> IF x \notin todo /\ store[x] \in Vec
                                        THEN store[x] ELSE NoVec]
                  BY <1>15, <3>1, <3>2
            <3> QED BY <1>1, <1>15, <3>1, <3>3 DEF DataTyped
      <2> QED BY <2>1, <2>2
<1>18. DataTyped'
      <2>1. visible' \in SUBSET Id
            BY <1>17 DEF LiveIds
      <2>2. live' \in [Id -> Vec \cup {NoVec}]
            BY <1>17
      <2> QED BY <1>1, <1>6, <1>17, <2>1, <2>2 DEF DataTyped
<1>19. \A u \in Client : Unindexed(u)' => Unindexed(u) /\ call'[u] = call[u]
      BY <1>8, <1>10 DEF Unindexed
<1>20. AddsStored'
      <2> SUFFICES ASSUME NEW u \in Client, Stored(u)',
                          NEW x \in DocIds(call'[u].docs) \ tainted'[u]
                   PROVE  store'[x] = LastDoc(call'[u].docs, x).vec
          BY DEF AddsStored
      <2>1. u # t /\ Stored(u) /\ call'[u] = call[u] /\ x \notin tainted[u]
            BY <1>6, <1>8, <1>10 DEF Stored
      <2> QED BY <1>1, <1>6, <2>1 DEF AddsStored
<1>21. DeletesUnindexed'
      BY <1>6, <1>15, <1>19 DEF DeletesUnindexed
<1>22. RefillsExact'
      <2> SUFFICES ASSUME NEW u \in Client, Refilling(u)'
                   PROVE  /\ live' = [x \in Id |-> IF x \notin call'[u].todo
                                                      /\ store'[x] \in Vec
                                                   THEN store'[x] ELSE NoVec]
                          /\ visible' = LiveIds(live')
                          /\ \A v \in Client : Unindexed(v)' => call'[v].id \in tainted'[v]
          BY DEF RefillsExact
      <2>1. u = t
            BY <1>10, <1>12 DEF Refilling
      <2>2. call'[u].todo = todo /\ store' = store
            BY <1>6, <1>7, <1>10, <2>1
      <2>3. \A v \in Client : Unindexed(v)' => call'[v].id \in tainted'[v]
            BY <1>6, <1>15, <1>19
      <2> QED BY <1>17, <2>2, <2>3
<1>23. UndoubtedAgree'
      <2>1. Refilling(t)'
            BY <1>7, <1>10 DEF Refilling
      <2> QED BY <2>1 DEF UndoubtedAgree
<1> QED BY <1>13, <1>14, <1>18, <1>20, <1>21, <1>22, <1>23 DEF Inv

LEMMA RebuildEndKeeps ==
    ASSUME DatabaseAssumption, VectorsAssumption, Inv, NEW t \in Client,
           RebuildDone(t) \/ RebuildFails(t)
    PROVE  Inv'
<1> DEFINE c == call[t]
<1>1. /\ call \in [Client -> Call] /\ tainted \in [Client -> SUBSET Id] /\ doubt \in SUBSET Id
      /\ CallsTyped /\ LocksSound /\ DataTyped /\ OverlapsTainted /\ AddsStored
      /\ DeletesUnindexed
      BY DEF Inv, CallsTyped, DataTyped
<1>2. /\ c.op = "rebuild" /\ c.at = "refill"
      /\ storage' = Left(storage, t) /\ index' = Left(index, t)
      /\ call' = [call EXCEPT ![t] = NoCall]
      /\ store' = store /\ tainted' = tainted
      /\ live' = live /\ visible' = visible /\ built' = built /\ dim' = dim
      /\ (c.todo = {} /\ doubt' = {}) \/ doubt' = Id
      BY DEF RebuildDone, RebuildFails, RebuildEnds, Goes, ivars
<1>3. c \in Refill /\ Touches(c) = {} /\ c = call[t]
      BY <1>1, <1>2, CallParts, TouchesParts
<1> HIDE DEF c
<1>4. call'[t] = NoCall /\ \A u \in Client : u # t => call'[u] = call[u]
      BY <1>1, <1>2
<1>5. \A u \in Client : u # t => ~ Refilling(u)
      BY <1>3 DEF LocksSound, Refilling, Inv
<1>6. CallsTyped' /\ LocksSound'
      <2>1. /\ Moves(storage, storage', "storage", t, c, NoCall)
            /\ Moves(index, index', "index", t, c, NoCall)
            BY <1>2, IdleParts DEF Moves, Waits
      <2>2. Keeps(NoCall, t, storage', index')
            BY IdleParts DEF Keeps
      <2> QED BY <1>1, <1>2, <1>3, <2>1, <2>2, IdleParts, LocksStep
<1>7. OverlapsTainted'
      <2>1. /\ Touches(NoCall) \subseteq Touches(call[t])
            /\ \A u \in Client : u # t => tainted[u] \subseteq tainted'[u]
            /\ Touches(NoCall) = {} \/ tainted[t] \subseteq tainted'[t]
            BY <1>2, IdleParts
      <2> QED BY <1>1, <1>2, <2>1, IdleParts, OverlapsStep
<1>8. DataTyped'
      <2>1. doubt' \in SUBSET Id
            BY <1>2
      <2> QED BY <1>1, <1>2, <2>1 DEF DataTyped
<1>9. AddsStored'
      <2> SUFFICES ASSUME NEW u \in Client, Stored(u)',
                          NEW x \in DocIds(call'[u].docs) \ tainted'[u]
                   PROVE  store'[x] = LastDoc(call'[u].docs, x).vec
          BY DEF AddsStored
      <2>1. u # t /\ Stored(u) /\ call'[u] = call[u] /\ x \notin tainted[u]
            BY <1>2, <1>4, IdleParts DEF Stored
      <2> QED BY <1>1, <1>2, <2>1 DEF AddsStored
<1>10. DeletesUnindexed'
      <2> SUFFICES ASSUME NEW u \in Client, Unindexed(u)', call'[u].id \notin tainted'[u]
                   PROVE  live'[call'[u].id] = NoVec
          BY DEF DeletesUnindexed
      <2>1. Unindexed(u) /\ call'[u] = call[u]
            BY <1>4, IdleParts DEF Unindexed
      <2> QED BY <1>1, <1>2, <2>1 DEF DeletesUnindexed
<1>11. RefillsExact'
      BY <1>4, <1>5, IdleParts DEF RefillsExact, Refilling
<1>12. UndoubtedAgree'
      <2> SUFFICES ASSUME NEW id \in Id, id \notin doubt'
                   PROVE  Agree(id)'
          BY DEF UndoubtedAgree
      <2>1. c.todo = {}
            BY <1>2
      <2>2. /\ live = [x \in Id |-> IF x \notin c.todo /\ store[x] \in Vec
                                    THEN store[x] ELSE NoVec]
            /\ visible = LiveIds(live)
            BY <1>3 DEF Inv, RefillsExact, Refilling
      <2>3. NoDoc \notin Vec
            BY DEF DatabaseAssumption
      <2>4. visible' = LiveIds(live')
            BY <1>2, <2>2
      <2>5. /\ store'[id] = NoDoc => live'[id] = NoVec
            /\ store'[id] \in Vec => live'[id] = store'[id]
            BY <1>2, <2>1, <2>2, <2>3
      <2> QED BY <2>4, <2>5, ShownAgrees
<1> QED BY <1>6, <1>7, <1>8, <1>9, <1>10, <1>11, <1>12 DEF Inv

-----------------------------------------------------------------------------
(* The whole.                                                              *)

\* No call is under way, the locks are free, the index is empty, and whatever is
\* stored is in doubt.
Fresh ==
    /\ store \in [Id -> Vec \cup {NoVec, NoDoc}] /\ doubt \in SUBSET Id
    /\ live = [id \in Id |-> NoVec] /\ visible = {} /\ built = FALSE /\ dim = NoDim
    /\ storage = Free /\ index = Free /\ call = [t \in Client |-> NoCall]
    /\ tainted = [t \in Client |-> {}]
    /\ \A id \in Id : id \notin doubt => store[id] = NoDoc

LEMMA FreshStart == Fresh => Inv
<1> USE DatabaseAssumption, VectorsAssumption
<1> SUFFICES ASSUME Fresh PROVE Inv
    OBVIOUS
<1> USE DEF Fresh
<1>1. DataTyped
      BY DEF DataTyped
<1>2. Free \in Lock /\ Free.queue = <<>> /\ Len(Free.queue) = 0
      BY DEF Free, Lock
<1>3. CallsTyped
      BY <1>2, IdleParts DEF CallsTyped
<1>4. /\ \A t \in Client : call[t] = NoCall
      /\ \A t \in Client : ~ Refilling(t) /\ ~ Stored(t) /\ ~ Unindexed(t)
      BY IdleParts DEF Refilling, Stored, Unindexed
<1>5. LocksSound
      <2>1. QueueSound(call, storage.queue, "storage") /\ QueueSound(call, index.queue, "index")
            BY <1>2 DEF QueueSound
      <2>2. \A t \in Client : Keeps(call[t], t, storage, index)
            BY <1>4, IdleParts DEF Keeps
      <2> QED BY <1>4, <2>1, <2>2 DEF LocksSound
<1>6. OverlapsTainted
      BY <1>4, IdleParts DEF OverlapsTainted
<1>7. AddsStored /\ DeletesUnindexed /\ RefillsExact
      BY <1>4 DEF AddsStored, DeletesUnindexed, RefillsExact
<1>8. UndoubtedAgree
      BY DEF UndoubtedAgree, Agree, DatabaseAssumption
<1> QED BY <1>1, <1>3, <1>5, <1>6, <1>7, <1>8 DEF Inv

LEMMA RestartKeeps ==
    ASSUME Inv, Restart
    PROVE  Inv'
<1>1. Fresh'
      BY DEF Fresh, Restart, Clear, Inv, DataTyped
<1> QED BY <1>1, FreshStart, PTL

LEMMA StutteringKeeps ==
    ASSUME Inv, UNCHANGED dbVars
    PROVE  Inv'
BY DEF dbVars, Inv, DataTyped, CallsTyped, LocksSound, OverlapsTainted, AddsStored,
       DeletesUnindexed, RefillsExact, UndoubtedAgree, Refilling, Stored, Unindexed,
       HalfDone, Agree

\* Inv, the conjunction of the types, the soundness of the locks and what calls
\* under way have done to store and index (lib.rs:345-390, 563-581), is kept.
THEOREM Invariance == DatabaseSpec => []Inv
<1>1. DatabaseInit => Inv
      <2> SUFFICES ASSUME DatabaseInit PROVE Inv
          OBVIOUS
      <2>1. Fresh
            BY DEF Fresh, DatabaseInit, IndexInit
      <2> QED BY <2>1, FreshStart
<1>2. Inv /\ [DatabaseNext]_dbVars => Inv'
      <2> SUFFICES ASSUME Inv, [DatabaseNext]_dbVars PROVE Inv'
          OBVIOUS
      <2> USE DatabaseAssumption, VectorsAssumption
      <2>1. ASSUME NEW t \in Client, NEW docs \in DocBatches, BeginAdd(t, docs) PROVE Inv'
            BY <2>1, BeginsQuietly
      <2>2. ASSUME NEW t \in Client, NEW id \in Id, BeginDelete(t, id) PROVE Inv'
            BY <2>2, BeginsQuietly
      <2>3. ASSUME NEW t \in Client, BeginRead(t) \/ BeginSearch(t) \/ BeginRebuild(t)
            PROVE  Inv'
            BY <2>3, BeginsQuietly
      <2>4. ASSUME NEW t \in Client, Continue(t) PROVE Inv'
            <3>1. CASE AddToStore(t)
                  BY <3>1, AddToStoreKeeps
            <3>2. CASE AddToIndex(t)
                  BY <3>2, AddToIndexKeeps
            <3>3. CASE DeleteFromIndex(t)
                  BY <3>3, DeleteFromIndexKeeps
            <3>4. CASE DeleteFromStore(t)
                  BY <3>4, DeleteFromStoreKeeps
            <3>5. CASE \/ AddStoreFails(t) \/ DeleteStoreFails(t) \/ ReadStore(t)
                       \/ SearchEntersStore(t) \/ SearchAnswers(t) \/ RebuildEntersStore(t)
                  BY <3>5, GoesOnQuietly
            <3>6. CASE RebuildClears(t)
                  BY <3>6, RebuildClearsKeeps
            <3>7. CASE RebuildAdds(t)
                  BY <3>7, RebuildAddsKeeps
            <3>8. CASE RebuildDone(t) \/ RebuildFails(t)
                  BY <3>8, RebuildEndKeeps
            <3> QED BY <2>4, <3>1, <3>2, <3>3, <3>4, <3>5, <3>6, <3>7, <3>8 DEF Continue
      <2>5. CASE Restart
            BY <2>5, RestartKeeps
      <2>6. CASE UNCHANGED dbVars
            BY <2>6, StutteringKeeps
      <2> QED BY <2>1, <2>2, <2>3, <2>4, <2>5, <2>6 DEF DatabaseNext
<1> QED BY <1>1, <1>2, PTL DEF DatabaseSpec

LEMMA AgreementFollows ==
    ASSUME DatabaseAssumption, VectorsAssumption, Inv
    PROVE  IndexAgreesWithStore
<1> SUFFICES ASSUME NEW id \in Id, id \notin doubt,
                    \A t \in Client : id \notin Touches(call[t]),
                    \A t \in Client : call[t].op = "rebuild" => call[t].at # "refill"
             PROVE  /\ store[id] = NoDoc => live[id] = NoVec
                    /\ store[id] \in Vec => live[id] = store[id] /\ id \in Found
    BY DEF IndexAgreesWithStore
<1>1. \A t \in Client : ~ Refilling(t)
      BY CallParts DEF Refilling, Inv, CallsTyped
<1>2. \A t \in Client : id \notin HalfDone(t)
      BY DEF HalfDone
<1>3. Agree(id)
      BY <1>1, <1>2 DEF Inv, UndoubtedAgree
<1>4. NoDoc \notin Vec
      BY DEF DatabaseAssumption
<1> QED BY <1>3, <1>4 DEF Agree, Found

\* Whatever calls, failures and restarts come in whatever order, store and index
\* agree about every document that is neither in doubt nor being written: the
\* two locks are taken one after the other (lib.rs:345-356, 380-388) and only
\* overlapping calls on one document can tear them apart.
THEOREM IndexAlwaysAgrees == DatabaseSpec => []IndexAgreesWithStore
<1>1. Inv => IndexAgreesWithStore
      BY AgreementFollows, DatabaseAssumption, VectorsAssumption
<1> QED BY <1>1, Invariance, PTL

\* A rebuild that has passed over all documents leaves exactly the vectors of the
\* store in the index, since its two locks keep every writer out (lib.rs:563-581).
THEOREM RebuildsAreExact == DatabaseSpec => []RebuildIsExact
<1>1. Inv => RebuildIsExact
      <2> SUFFICES ASSUME Inv, NEW t \in Client, call[t].op = "rebuild",
                          call[t].at = "refill", call[t].todo = {}
                   PROVE  /\ live = [id \in Id |-> IF store[id] \in Vec
                                                   THEN store[id] ELSE NoVec]
                          /\ visible = LiveIds(live)
          BY DEF RebuildIsExact
      <2>1. Refilling(t)
            BY CallParts DEF Refilling, Inv, CallsTyped
      <2>2. /\ live = [id \in Id |-> IF id \notin call[t].todo /\ store[id] \in Vec
                                     THEN store[id] ELSE NoVec]
            /\ visible = LiveIds(live)
            BY <2>1 DEF Inv, RefillsExact
      <2> QED BY <2>2
<1> QED BY <1>1, Invariance, PTL
=============================================================================
