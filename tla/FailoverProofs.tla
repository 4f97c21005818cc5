--------------------------- MODULE FailoverProofs ---------------------------
(***************************************************************************)
(* Recovery tasks of the failover manager are neither lost nor doubled,    *)
(* and a write succeeds on the answers its policy asks for, for any nodes, *)
(* shards, layouts of replicas, data and number of concurrent detections.  *)
(***************************************************************************)
EXTENDS Failover, SequenceTheorems, FiniteSetTheorems, TLAPS

-----------------------------------------------------------------------------
(* The invariant of replication.                                           *)

States == {"syncing", "synced", "failed", "lagging"}

\* What a manager records of the nodes of a group.
SyncMap == UNION {[N -> States] : N \in SUBSET Node}

Group == [layout : Layouts, sync : SyncMap]

Members(layout) == {layout.primary} \cup Replicas(layout)

GroupsTyped == groups \in [Shard -> Group \cup {NoGroup}]

\* The replicas a call has tried that answered it, by position.
Answered(d) == {i \in 1..sending[d].next - 1 : ReplicasOf(d)[i] \in sending[d].from}

\* A call that is sending keeps its group; it has tried next - 1 replicas, and
\* every success it counts came from another one that answered.
CallsBacked ==
    \A d \in Data : sending[d].pc = "sending" =>
        /\ sending[d].shard \in Shard /\ groups[sending[d].shard] # NoGroup
        /\ sending[d].next <= Len(ReplicasOf(d)) + 1
        /\ sending[d].acks <= Cardinality(Answered(d))

RInv == ReplicationTypeOK /\ GroupsTyped /\ CallsBacked

-----------------------------------------------------------------------------
(* Layouts and groups.                                                     *)

LEMMA LayoutParts ==
    ASSUME ReplicationAssumption, NEW l \in Layouts
    PROVE  /\ l.primary \in Node /\ l.replicas \in Seq(Node)
           /\ Len(l.replicas) \in Nat
           /\ \A i \in 1..Len(l.replicas) : l.replicas[i] \in Node
           /\ Replicas(l) \subseteq Node /\ Members(l) \subseteq Node
           /\ \A i, j \in 1..Len(l.replicas) : l.replicas[i] = l.replicas[j] => i = j
<1>1. l.primary \in Node /\ l.replicas \in Seq(Node)
      BY DEF ReplicationAssumption, Layout
<1>2. Len(l.replicas) \in Nat /\ \A i \in 1..Len(l.replicas) : l.replicas[i] \in Node
      BY <1>1, LenProperties, ElementOfSeq
<1> QED BY <1>1, <1>2 DEF ReplicationAssumption, Replicas, Members

\* The type of a group that is there, and the nodes whose state it records.
LEMMA GroupParts ==
    ASSUME RInv, NEW s \in Shard, groups[s] # NoGroup
    PROVE  /\ groups[s] \in Group
           /\ groups[s].layout \in Layouts /\ groups[s].sync \in SyncMap
           /\ DOMAIN groups[s].sync \subseteq Node
           /\ Members(groups[s].layout) \subseteq DOMAIN groups[s].sync
BY DEF RInv, GroupsTyped, Group, ReplicationTypeOK, Members, Replicas

\* What a new entry of replica_groups has to be.
GroupSound(g) == g \in Group /\ Members(g.layout) \subseteq DOMAIN g.sync

LEMMA GroupsStayTyped ==
    ASSUME RInv, NEW s \in Shard, NEW g, g = NoGroup \/ GroupSound(g),
           groups' = [groups EXCEPT ![s] = g],
           UNCHANGED <<policy, copies, sending>>, GroupsUnlocked
    PROVE  RInv'
<1>1. groups' = [x \in Shard |-> IF x = s THEN g ELSE groups[x]]
      BY DEF RInv, GroupsTyped
<1>2. GroupsTyped'
      BY <1>1 DEF RInv, GroupsTyped, GroupSound
<1>3. ASSUME NEW x \in Shard, groups'[x] # NoGroup
      PROVE  GroupSound(groups'[x])
      <2>1. CASE x = s
            BY <1>1, <1>3, <2>1
      <2>2. CASE x # s
            BY <1>1, <1>3, <2>2, GroupParts DEF GroupSound
      <2> QED BY <2>1, <2>2
<1>4. \A g1 \in Group : DOMAIN g1.sync \subseteq Node /\ g1.layout \in Layouts
      BY DEF Group, SyncMap
<1>5. ReplicationTypeOK'
      BY <1>3, <1>4 DEF RInv, ReplicationTypeOK, GroupSound, Members, Replicas
<1>6. CallsBacked'
      BY DEF CallsBacked, GroupsUnlocked
<1> QED BY <1>2, <1>5, <1>6 DEF RInv

LEMMA AddReplicaGroupKeeps ==
    ASSUME ReplicationAssumption, RInv, NEW s \in Shard, NEW l \in Layouts,
           AddReplicaGroup(s, l)
    PROVE  RInv'
<1> DEFINE sync == [n \in {l.primary} \cup Replicas(l) |->
                        IF n \in Replicas(l) THEN "syncing" ELSE "synced"]
           g == [layout |-> l, sync |-> sync]
<1>1. sync \in [Members(l) -> States] /\ Members(l) \in SUBSET Node
      BY LayoutParts DEF Members, States
<1>2. sync \in SyncMap
      BY <1>1 DEF SyncMap
<1>3. DOMAIN sync = Members(l)
      BY DEF Members
<1> HIDE DEF sync
<1>4. GroupSound(g)
      BY <1>2, <1>3 DEF GroupSound, Group
<1>5. /\ groups' = [groups EXCEPT ![s] = g]
      /\ GroupsUnlocked /\ UNCHANGED <<policy, copies, sending>>
      BY DEF AddReplicaGroup, sync
<1> QED BY <1>4, <1>5, GroupsStayTyped

LEMMA UpdateSyncStateKeeps ==
    ASSUME ReplicationAssumption, RInv, NEW s \in Shard, NEW n \in Node,
           NEW state \in SyncStates, UpdateSyncState(s, n, state)
    PROVE  RInv'
<1> DEFINE old == groups[s]
           sync == [m \in DOMAIN old.sync \cup {n} |->
                        IF m = n THEN state ELSE old.sync[m]]
           g == [layout |-> old.layout, sync |-> sync]
<1>1. /\ old \in Group /\ old.layout \in Layouts /\ old.sync \in SyncMap
      /\ DOMAIN old.sync \subseteq Node
      /\ Members(old.layout) \subseteq DOMAIN old.sync
      BY GroupParts DEF UpdateSyncState
<1>2. PICK N \in SUBSET Node : old.sync \in [N -> States]
      <2>1. old.sync \in UNION {[N -> States] : N \in SUBSET Node}
            BY <1>1 DEF SyncMap
      <2> HIDE DEF old, sync, g
      <2> QED BY ONLY <2>1, Zenon
<1>3. sync \in [N \cup {n} -> States] /\ N \cup {n} \in SUBSET Node
      <2>1. DOMAIN old.sync = N /\ N \cup {n} \in SUBSET Node
            BY <1>2
      <2>2. \A m \in N : old.sync[m] \in States
            BY <1>2
      <2>3. state \in States
            BY DEF ReplicationAssumption, States
      <2> QED BY ONLY <2>1, <2>2, <2>3
<1>4. sync \in SyncMap /\ DOMAIN sync = DOMAIN old.sync \cup {n}
      BY <1>3 DEF SyncMap
<1>5. [old EXCEPT !.sync = sync] = g
      BY <1>1 DEF Group
<1>6. groups' = [groups EXCEPT ![s] = [old EXCEPT !.sync = sync]]
      BY DEF UpdateSyncState
<1> HIDE DEF sync
<1>7. GroupSound(g)
      BY <1>1, <1>4 DEF GroupSound, Group
<1>8. GroupsUnlocked /\ UNCHANGED <<policy, copies, sending>>
      BY DEF UpdateSyncState
<1> QED BY <1>5, <1>6, <1>7, <1>8, GroupsStayTyped

-----------------------------------------------------------------------------
(* The sending of data.                                                    *)

CallRecord == [pc : {"new", "sending", "ok", "err"}, shard : Shard \cup {NoGroup},
               next : Nat \ {0}, acks : Nat, from : SUBSET Node]

\* The replicas a call sends to.
LEMMA ReplicasOfSending ==
    ASSUME ReplicationAssumption, RInv, NEW d \in Data, sending[d].pc = "sending"
    PROVE  /\ sending[d] \in CallRecord /\ sending[d].shard \in Shard
           /\ groups[sending[d].shard] # NoGroup
           /\ ReplicasOf(d) = groups[sending[d].shard].layout.replicas
           /\ Len(ReplicasOf(d)) \in Nat
           /\ \A i \in 1..Len(ReplicasOf(d)) : ReplicasOf(d)[i] \in Node
           /\ \A i, j \in 1..Len(ReplicasOf(d)) :
                  ReplicasOf(d)[i] = ReplicasOf(d)[j] => i = j
           /\ sending[d].next \in 1..Len(ReplicasOf(d)) + 1
           /\ sending[d].acks \in Nat /\ sending[d].acks <= Cardinality(Answered(d))
<1>1. /\ sending[d].shard \in Shard /\ groups[sending[d].shard] # NoGroup
      /\ sending[d].next <= Len(ReplicasOf(d)) + 1
      /\ sending[d].acks <= Cardinality(Answered(d))
      BY DEF RInv, CallsBacked
<1>2. sending[d] \in CallRecord
      BY DEF RInv, ReplicationTypeOK, CallRecord
<1>3. sending[d].next \in Nat \ {0} /\ sending[d].acks \in Nat
      BY <1>2 DEF CallRecord
<1>4. groups[sending[d].shard].layout \in Layouts
      BY <1>1, GroupParts
<1>5. /\ Len(ReplicasOf(d)) \in Nat
      /\ \A i \in 1..Len(ReplicasOf(d)) : ReplicasOf(d)[i] \in Node
      /\ \A i, j \in 1..Len(ReplicasOf(d)) : ReplicasOf(d)[i] = ReplicasOf(d)[j] => i = j
      BY <1>4, LayoutParts DEF ReplicasOf
<1>6. sending[d].next \in 1..Len(ReplicasOf(d)) + 1
      BY <1>1, <1>3, <1>5
<1> QED BY <1>1, <1>2, <1>3, <1>5, <1>6 DEF ReplicasOf

LEMMA PositionsAreFinite ==
    ASSUME NEW n \in Nat, NEW A \in SUBSET (1..n)
    PROVE  /\ IsFiniteSet(A) /\ Cardinality(A) \in Nat
           /\ Cardinality(A) <= n
           /\ Cardinality(A) = n => A = 1..n
<1>1. IsFiniteSet(1..n) /\ Cardinality(1..n) = n
      BY FS_Interval
<1> QED BY <1>1, FS_Subset, FS_CardinalityType

\* Replicas are distinct: as many nodes hold the data as positions do.
LEMMA NodesAtPositions ==
    ASSUME ReplicationAssumption, NEW l \in Layouts,
           NEW A \in SUBSET (1..Len(l.replicas))
    PROVE  /\ IsFiniteSet({l.replicas[i] : i \in A})
           /\ Cardinality({l.replicas[i] : i \in A}) = Cardinality(A)
<1> DEFINE T == {l.replicas[i] : i \in A}
           f == [i \in A |-> l.replicas[i]]
<1>1. IsFiniteSet(A)
      BY PositionsAreFinite, LayoutParts
<1>2. f \in Bijection(A, T)
      <2>1. f \in Injection(A, T)
            BY LayoutParts DEF Injection, IsInjective
      <2>2. f \in Surjection(A, T)
            BY DEF Surjection
      <2> QED BY <2>1, <2>2 DEF Bijection
<1>3. ExistsBijection(A, T)
      BY <1>2 DEF ExistsBijection
<1> QED BY <1>1, <1>3, FS_Bijection

LEMMA NextNumber == \A x \in Nat : x + 1 \in Nat \ {0}
OBVIOUS

\* A call that moves on to the next replica, with an acknowledgement or without.
LEMMA CallsMoveOn ==
    ASSUME sending \in [Data -> CallRecord], NEW d \in Data,
           NEW pc \in {"new", "sending", "ok", "err"},
           \/ sending' = [sending EXCEPT ![d].next = @ + 1]
           \/ \E n \in Node :
                  sending' = [sending EXCEPT ![d].next = @ + 1, ![d].acks = @ + 1,
                                             ![d].from = @ \cup {n}, ![d].pc = pc]
    PROVE  /\ sending' \in [Data -> CallRecord]
           /\ \A e \in Data \ {d} : sending'[e] = sending[e]
           /\ sending'[d].shard = sending[d].shard
           /\ sending'[d].next = sending[d].next + 1
<1>1. CASE sending' = [sending EXCEPT ![d].next = @ + 1]
      <2>1. sending' \in [Data -> CallRecord]
            BY <1>1 DEF CallRecord
      <2>2. sending'[d].shard = sending[d].shard /\ sending'[d].next = sending[d].next + 1
            BY <1>1 DEF CallRecord
      <2> QED BY <1>1, <2>1, <2>2
<1>2. ASSUME NEW n \in Node,
             sending' = [sending EXCEPT ![d].next = @ + 1, ![d].acks = @ + 1,
                                        ![d].from = @ \cup {n}, ![d].pc = pc]
      PROVE  /\ sending' \in [Data -> CallRecord]
             /\ \A e \in Data \ {d} : sending'[e] = sending[e]
             /\ sending'[d].shard = sending[d].shard
             /\ sending'[d].next = sending[d].next + 1
      <2> DEFINE r == [sending[d] EXCEPT !.next = sending[d].next + 1,
                          !.acks = sending[d].acks + 1,
                          !.from = sending[d].from \cup {n}, !.pc = pc]
      <2>1. sending[d] \in CallRecord
            OBVIOUS
      <2>2. r \in CallRecord
            <3>1. /\ sending[d].next + 1 \in Nat \ {0} /\ sending[d].acks + 1 \in Nat
                  /\ sending[d].from \cup {n} \in SUBSET Node
                  <4>1. /\ sending[d].next \in Nat \ {0} /\ sending[d].acks \in Nat
                        /\ sending[d].from \in SUBSET Node
                        BY ONLY <2>1 DEF CallRecord
                  <4>2. sending[d].from \cup {n} \in SUBSET Node
                        BY ONLY <4>1, n \in Node
                  <4>3. sending[d].next + 1 \in Nat \ {0} /\ sending[d].acks + 1 \in Nat
                        BY ONLY <4>1, NextNumber
                  <4> QED BY ONLY <4>2, <4>3
            <3>2. \A i \in CallRecord : \A x \in Nat \ {0}, a \in Nat, f \in SUBSET Node :
                      [i EXCEPT !.next = x, !.acks = a, !.from = f, !.pc = pc] \in CallRecord
                  BY DEF CallRecord
            <3> QED BY ONLY <2>1, <3>1, <3>2
      <2>3. r.shard = sending[d].shard /\ r.next = sending[d].next + 1
            BY <2>1 DEF CallRecord
      <2>4. sending' = [sending EXCEPT ![d] = r]
            BY <1>2
      <2> HIDE DEF r
      <2>5. sending' \in [Data -> CallRecord] /\ sending'[d] = r
            BY <2>2, <2>4
      <2>6. \A e \in Data \ {d} : sending'[e] = sending[e]
            BY <2>4
      <2> QED BY ONLY <2>3, <2>5, <2>6
<1> QED BY <1>1, <1>2

\* One more replica is tried: the successes still come from replicas that
\* answered.
LEMMA SendToNextCounts ==
    ASSUME ReplicationAssumption, RInv, NEW d \in Data, SendToNext(d)
    PROVE  /\ sending'[d].shard = sending[d].shard
           /\ sending'[d].next = sending[d].next + 1
           /\ sending'[d].acks \in {sending[d].acks, sending[d].acks + 1}
           /\ sending'[d].acks <= Cardinality(Answered(d)')
           /\ \/ sending'[d].pc = "sending"
              \/ /\ sending'[d].pc = "ok" /\ policy = "quorum"
                 /\ sending'[d].acks >= Required(d)
           /\ sending' \in [Data -> CallRecord]
           /\ \A e \in Data \ {d} : sending'[e] = sending[e]
           /\ UNCHANGED <<policy, groups>>
           /\ copies' \subseteq Node \X Data
<1> DEFINE call == sending[d]
           k == call.next
           n == ReplicasOf(d)
<1>1. /\ call.pc = "sending" /\ k <= Len(n)
      /\ UNCHANGED <<policy, groups>>
      BY DEF SendToNext
<1>2. /\ call \in CallRecord /\ call.shard \in Shard /\ Len(n) \in Nat
      /\ k \in 1..Len(n) /\ call.acks \in Nat /\ n[k] \in Node
      /\ call.acks <= Cardinality(Answered(d))
      BY <1>1, ReplicasOfSending
<1>3. /\ copies' \subseteq copies \cup {<<n[k], d>>}
      /\ copies \subseteq Node \X Data
      BY DEF SendToNext, RInv, ReplicationTypeOK
<1>4. copies' \subseteq Node \X Data
      BY <1>2, <1>3
<1>5. sending \in [Data -> CallRecord]
      BY DEF RInv, ReplicationTypeOK, CallRecord
<1>6. Answered(d) \in SUBSET (1..k - 1) /\ IsFiniteSet(Answered(d))
      /\ Cardinality(Answered(d)) \in Nat
      <2>1. Answered(d) \in SUBSET (1..k - 1) /\ k - 1 \in Nat
            BY <1>2 DEF Answered
      <2> QED BY <2>1, PositionsAreFinite
<1>7. /\ sending' \in [Data -> CallRecord]
      /\ \A e \in Data \ {d} : sending'[e] = sending[e]
      /\ sending'[d].shard = call.shard /\ sending'[d].next = k + 1
      /\ sending'[d].acks \in {call.acks, call.acks + 1}
      /\ call.from \subseteq sending'[d].from
      /\ sending'[d].acks = call.acks + 1 => n[k] \in sending'[d].from
      /\ \/ sending'[d].pc = "sending"
         \/ sending'[d].pc = "ok" /\ policy = "quorum" /\ sending'[d].acks >= Required(d)
      <2> DEFINE enough == policy = "quorum" /\ call.acks + 1 >= Required(d)
                 pc == IF enough THEN "ok" ELSE "sending"
                 Acked == sending' = [sending EXCEPT ![d].next = @ + 1, ![d].acks = @ + 1,
                                                     ![d].from = @ \cup {n[k]}, ![d].pc = pc]
                 Silent == sending' = [sending EXCEPT ![d].next = @ + 1]
      <2>1. pc \in {"new", "sending", "ok", "err"}
            OBVIOUS
      <2>2. Acked \/ Silent
            BY DEF SendToNext
      <2>3. pc = "sending" \/ (pc = "ok" /\ enough)
            OBVIOUS
      <2> HIDE DEF pc
      <2>4. /\ sending' \in [Data -> CallRecord]
            /\ \A e \in Data \ {d} : sending'[e] = sending[e]
            /\ sending'[d].shard = call.shard /\ sending'[d].next = k + 1
            <3>1. \/ sending' = [sending EXCEPT ![d].next = @ + 1]
                  \/ \E m \in Node :
                         sending' = [sending EXCEPT ![d].next = @ + 1, ![d].acks = @ + 1,
                                                    ![d].from = @ \cup {m}, ![d].pc = pc]
                  BY <2>2, <1>2
            <3> HIDE DEF Acked, Silent, n
            <3> QED BY <2>1, <3>1, <1>5, CallsMoveOn
      <2>5. CASE Acked
            <3>1. sending'[d].acks = call.acks + 1 /\ sending'[d].pc = pc
                  BY <2>1, <2>5, <1>5 DEF CallRecord
            <3>2. sending'[d].from = call.from \cup {n[k]}
                  BY <2>1, <2>5, <1>5 DEF CallRecord
            <3> QED BY <2>3, <2>4, <3>1, <3>2
      <2>6. CASE Silent
            <3>1. /\ sending'[d].acks = call.acks /\ sending'[d].pc = "sending"
                  /\ sending'[d].from = call.from
                  BY <2>6, <1>1, <1>5 DEF CallRecord
            <3> QED BY <2>4, <3>1, <1>2
      <2> HIDE DEF Acked, Silent
      <2> QED BY <2>2, <2>5, <2>6
<1>8. sending'[d].acks <= Cardinality(Answered(d)')
      <2>1. ReplicasOf(d)' = n
            BY <1>1, <1>7 DEF ReplicasOf
      <2>2. Answered(d)' = {i \in 1..k : n[i] \in sending'[d].from}
            BY <2>1, <1>2, <1>7 DEF Answered
      <2>3. Answered(d) \subseteq Answered(d)' /\ Answered(d)' \in SUBSET (1..k)
            <3>1. Answered(d) = {i \in 1..k - 1 : n[i] \in call.from}
                  BY DEF Answered
            <3>2. 1..k - 1 \subseteq 1..k
                  BY <1>2
            <3> QED BY <2>2, <3>1, <3>2, <1>7
      <2>4. IsFiniteSet(Answered(d)') /\ Cardinality(Answered(d)') \in Nat
            <3>1. k \in Nat
                  BY <1>2
            <3> HIDE DEF call, k, n
            <3> QED BY ONLY <2>3, <3>1, PositionsAreFinite
      <2>5. CASE sending'[d].acks = call.acks
            <3>1. Cardinality(Answered(d)) <= Cardinality(Answered(d)')
                  BY <2>3, <2>4, FS_Subset
            <3> QED BY <2>5, <3>1, <2>4, <1>2, <1>6
      <2>6. CASE sending'[d].acks = call.acks + 1
            <3>1. k \in Answered(d)' /\ k \notin Answered(d)
                  BY <2>2, <2>6, <1>2, <1>6, <1>7
            <3>2. Answered(d) \cup {k} \in SUBSET Answered(d)'
                  BY <2>3, <3>1
            <3>3. Cardinality(Answered(d) \cup {k}) = Cardinality(Answered(d)) + 1
                  BY <3>1, <1>6, FS_AddElement
            <3>4. Cardinality(Answered(d) \cup {k}) <= Cardinality(Answered(d)')
                  BY <3>2, <2>4, FS_Subset
            <3> QED BY <2>6, <3>3, <3>4, <2>4, <1>2, <1>6
      <2> QED BY <2>5, <2>6, <1>7
<1> QED BY <1>1, <1>3, <1>4, <1>7, <1>8

\* The calls of other data than d are as they were.
LEMMA OthersStayBacked ==
    ASSUME RInv, NEW d \in Data, UNCHANGED groups,
           \A e \in Data \ {d} : sending'[e] = sending[e],
           NEW e \in Data \ {d}, sending'[e].pc = "sending"
    PROVE  /\ sending'[e].shard \in Shard /\ groups'[sending'[e].shard] # NoGroup
           /\ sending'[e].next <= Len(ReplicasOf(e)') + 1
           /\ sending'[e].acks <= Cardinality(Answered(e)')
<1>1. sending'[e] = sending[e]
      OBVIOUS
<1>2. ReplicasOf(e)' = ReplicasOf(e)
      BY <1>1 DEF ReplicasOf
<1>3. Answered(e)' = Answered(e)
      BY <1>1, <1>2 DEF Answered
<1> QED BY <1>1, <1>2, <1>3 DEF RInv, CallsBacked

\* A step of one call keeps the invariant when it keeps its own part of it.
LEMMA CallKeeps ==
    ASSUME RInv, NEW d \in Data, UNCHANGED <<policy, groups>>,
           copies' \subseteq Node \X Data,
           sending' \in [Data -> CallRecord],
           \A e \in Data \ {d} : sending'[e] = sending[e],
           sending'[d].pc = "sending" =>
               /\ sending'[d].shard \in Shard /\ groups[sending'[d].shard] # NoGroup
               /\ sending'[d].next <= Len(ReplicasOf(d)') + 1
               /\ sending'[d].acks <= Cardinality(Answered(d)')
    PROVE  RInv'
<1>1. ReplicationTypeOK' /\ GroupsTyped'
      <2>1. GroupsTyped'
            BY DEF RInv, GroupsTyped
      <2>2. ReplicationTypeOK'
            BY DEF RInv, ReplicationTypeOK, CallRecord
      <2> QED BY <2>1, <2>2
<1>2. CallsBacked'
      <2> SUFFICES ASSUME NEW e \in Data, sending'[e].pc = "sending"
                   PROVE  /\ sending'[e].shard \in Shard
                          /\ groups'[sending'[e].shard] # NoGroup
                          /\ sending'[e].next <= Len(ReplicasOf(e)') + 1
                          /\ sending'[e].acks <= Cardinality(Answered(e)')
            BY DEF CallsBacked
      <2>1. CASE e = d
            BY <2>1
      <2>2. CASE e # d
            BY <2>2, OthersStayBacked
      <2> QED BY <2>1, <2>2
<1> QED BY <1>1, <1>2 DEF RInv

LEMMA SendToNextKeeps ==
    ASSUME ReplicationAssumption, RInv, NEW d \in Data, SendToNext(d)
    PROVE  RInv'
<1>1. sending[d].pc = "sending" /\ sending[d].next <= Len(ReplicasOf(d))
      BY DEF SendToNext
<1>2. /\ sending[d].shard \in Shard /\ groups[sending[d].shard] # NoGroup
      /\ sending[d].next \in 1..Len(ReplicasOf(d)) + 1 /\ Len(ReplicasOf(d)) \in Nat
      BY <1>1, ReplicasOfSending
<1>3. ReplicasOf(d)' = ReplicasOf(d)
      BY SendToNextCounts DEF ReplicasOf
<1>4. sending'[d].next <= Len(ReplicasOf(d)') + 1
      BY <1>1, <1>2, <1>3, SendToNextCounts
<1> QED BY <1>2, <1>4, SendToNextCounts, CallKeeps

LEMMA BeginReplicateKeeps ==
    ASSUME ReplicationAssumption, RInv, NEW d \in Data, NEW s \in Shard, BeginReplicate(d, s)
    PROVE  RInv'
<1> DEFINE r == IF groups[s] = NoGroup THEN [Idle EXCEPT !.pc = "err"]
                ELSE [Idle EXCEPT !.pc = "sending", !.shard = s]
<1>1. /\ r \in CallRecord /\ r.next = 1 /\ r.acks = 0
      /\ r.pc = "sending" => groups[s] # NoGroup /\ r.shard = s
      <2>1. Idle \in CallRecord /\ Idle.next = 1 /\ Idle.acks = 0
            BY DEF CallRecord, Idle
      <2>2. ASSUME NEW i \in CallRecord
            PROVE  LET e == [i EXCEPT !.pc = "err"]
                       b == [i EXCEPT !.pc = "sending", !.shard = s]
                   IN  /\ e \in CallRecord /\ e.next = i.next /\ e.acks = i.acks
                       /\ b \in CallRecord /\ b.next = i.next /\ b.acks = i.acks
                       /\ e.pc = "err" /\ b.shard = s
            BY DEF CallRecord
      <2> QED BY <2>1, <2>2
<1>2. /\ UNCHANGED <<policy, groups, copies>> /\ sending' = [sending EXCEPT ![d] = r]
      /\ sending \in [Data -> CallRecord] /\ copies \subseteq Node \X Data
      BY DEF BeginReplicate, RInv, ReplicationTypeOK, CallRecord
<1> HIDE DEF r
<1>3. /\ sending' \in [Data -> CallRecord] /\ sending'[d] = r
      /\ \A e \in Data \ {d} : sending'[e] = sending[e]
      BY <1>1, <1>2
<1>4. ASSUME r.pc = "sending"
      PROVE  /\ r.shard \in Shard /\ groups[r.shard] # NoGroup
             /\ r.next <= Len(ReplicasOf(d)') + 1
             /\ r.acks <= Cardinality(Answered(d)')
      <2>1. ReplicasOf(d)' = groups[s].layout.replicas
            BY <1>1, <1>2, <1>3, <1>4 DEF ReplicasOf
      <2>2. Len(ReplicasOf(d)') \in Nat
            BY <1>1, <1>4, <2>1, GroupParts, LayoutParts
      <2>3. Answered(d)' = {}
            BY <1>1, <1>3 DEF Answered
      <2>4. Cardinality(Answered(d)') = 0
            BY <2>3, FS_EmptySet
      <2> QED BY <1>1, <1>4, <2>2, <2>4
<1> QED BY <1>2, <1>3, <1>4, CallKeeps

LEMMA EndReplicateKeeps ==
    ASSUME ReplicationAssumption, RInv, NEW d \in Data, EndReplicate(d)
    PROVE  RInv'
<1> DEFINE success == \/ policy = "asynchronous"
                      \/ policy = "synchronous" /\ sending[d].acks = Len(ReplicasOf(d))
           pc == IF success THEN "ok" ELSE "err"
<1>1. /\ UNCHANGED <<policy, groups, copies>>
      /\ sending' = [sending EXCEPT ![d].pc = pc]
      /\ sending \in [Data -> CallRecord] /\ copies \subseteq Node \X Data
      BY DEF EndReplicate, RInv, ReplicationTypeOK, CallRecord
<1>2. pc \in {"ok", "err"}
      OBVIOUS
<1> HIDE DEF pc
<1>3. /\ sending' \in [Data -> CallRecord] /\ sending'[d].pc # "sending"
      /\ \A e \in Data \ {d} : sending'[e] = sending[e]
      <2> DEFINE r == [sending[d] EXCEPT !.pc = pc]
      <2>1. r \in CallRecord /\ r.pc = pc
            BY <1>1, <1>2 DEF CallRecord
      <2>2. sending' = [sending EXCEPT ![d] = r]
            BY <1>1
      <2> HIDE DEF r
      <2> QED BY ONLY <1>1, <1>2, <2>1, <2>2
<1> QED BY <1>1, <1>3, CallKeeps

\* Every step of replication keeps its invariant.
LEMMA ReplicationKeeps ==
    ASSUME ReplicationAssumption, RInv, [ReplicationNext]_rvars
    PROVE  RInv'
<1>1. CASE ReplicationNext
      <2>1. ASSUME NEW s \in Shard, NEW l \in Layouts, AddReplicaGroup(s, l)
            PROVE  RInv'
            BY <2>1, AddReplicaGroupKeeps
      <2>2. ASSUME NEW s \in Shard, RemoveReplicaGroup(s)
            PROVE  RInv'
            BY <2>2, GroupsStayTyped DEF RemoveReplicaGroup
      <2>3. ASSUME NEW s \in Shard, NEW n \in Node, NEW state \in SyncStates,
                   UpdateSyncState(s, n, state)
            PROVE  RInv'
            BY <2>3, UpdateSyncStateKeeps
      <2>4. ASSUME NEW d \in Data, NEW s \in Shard, BeginReplicate(d, s)
            PROVE  RInv'
            BY <2>4, BeginReplicateKeeps
      <2>5. ASSUME NEW d \in Data, SendToNext(d)
            PROVE  RInv'
            BY <2>5, SendToNextKeeps
      <2>6. ASSUME NEW d \in Data, EndReplicate(d)
            PROVE  RInv'
            BY <2>6, EndReplicateKeeps
      <2> QED BY <1>1, <2>1, <2>2, <2>3, <2>4, <2>5, <2>6 DEF ReplicationNext
<1>2. CASE UNCHANGED rvars
      BY <1>2 DEF rvars, RInv, ReplicationTypeOK, GroupsTyped, CallsBacked, ReplicasOf, Answered
<1> QED BY <1>1, <1>2

-----------------------------------------------------------------------------
(* The answers that a successful write has had.                            *)

PromiseKept(d) ==
    LET s == sending[d].shard
        all == Replicas(groups'[s].layout)
        confirming == all \cap sending'[d].from
    IN /\ groups'[s] # NoGroup
       /\ policy = "synchronous" => confirming = all
       /\ policy = "quorum" => 2 * Cardinality(confirming) > Cardinality(all)

LEMMA MoreThanHalf ==
    ASSUME NEW n \in Nat, NEW c \in Nat, n \div 2 + 1 <= c
    PROVE  2 * c > n
OBVIOUS

\* Under the policy quorum a call ends with the answer that makes a majority of
\* the replicas.
LEMMA QuorumKeepsPromise ==
    ASSUME ReplicationAssumption, RInv, NEW d \in Data, SendToNext(d),
           sending'[d].pc = "ok"
    PROVE  PromiseKept(d)
<1> DEFINE s == sending[d].shard
           l == groups[s].layout
           A == {i \in 1..sending[d].next : l.replicas[i] \in sending'[d].from}
           confirming == Replicas(l) \cap sending'[d].from
<1>1. /\ policy = "quorum" /\ sending'[d].acks >= Required(d)
      /\ sending'[d].acks <= Cardinality(Answered(d)')
      /\ sending'[d].acks \in {sending[d].acks, sending[d].acks + 1}
      /\ UNCHANGED groups
      /\ sending'[d].shard = s /\ sending'[d].next = sending[d].next + 1
      BY SendToNextCounts
<1>2. /\ sending[d].pc = "sending" /\ sending[d].next <= Len(l.replicas)
      BY DEF SendToNext, ReplicasOf
<1>3. /\ s \in Shard /\ groups[s] # NoGroup /\ ReplicasOf(d) = l.replicas
      /\ sending[d].acks \in Nat /\ sending[d].next \in 1..Len(l.replicas)
      BY <1>2, ReplicasOfSending
<1>4. l \in Layouts /\ Len(l.replicas) \in Nat
      BY <1>3, GroupParts, LayoutParts
<1>5. Answered(d)' = A
      <2>1. ReplicasOf(d)' = l.replicas
            BY <1>1, <1>3 DEF ReplicasOf
      <2>2. sending'[d].next - 1 = sending[d].next
            BY <1>1, <1>3
      <2> QED BY ONLY <2>1, <2>2 DEF Answered
<1>6. A \in SUBSET (1..Len(l.replicas))
      BY <1>3, <1>4
<1>7. /\ Cardinality({l.replicas[i] : i \in A}) = Cardinality(A)
      /\ Cardinality(A) \in Nat
      <2> HIDE DEF A
      <2>1. Cardinality({l.replicas[i] : i \in A}) = Cardinality(A)
            BY <1>4, <1>6, NodesAtPositions
      <2>2. Cardinality(A) \in Nat
            BY <1>4, <1>6, PositionsAreFinite
      <2> QED BY <2>1, <2>2
<1>8. {l.replicas[i] : i \in A} \in SUBSET confirming
      BY <1>6 DEF Replicas
<1>9. /\ IsFiniteSet(Replicas(l)) /\ Cardinality(Replicas(l)) = Len(l.replicas)
      <2>1. 1..Len(l.replicas) \in SUBSET (1..Len(l.replicas))
            OBVIOUS
      <2>2. Cardinality(1..Len(l.replicas)) = Len(l.replicas)
            BY <1>4, FS_Interval
      <2>3. /\ IsFiniteSet({l.replicas[i] : i \in 1..Len(l.replicas)})
            /\ Cardinality({l.replicas[i] : i \in 1..Len(l.replicas)})
                   = Cardinality(1..Len(l.replicas))
            BY <2>1, <1>4, NodesAtPositions
      <2> QED BY ONLY <2>2, <2>3 DEF Replicas
<1>10. confirming \in SUBSET Replicas(l)
      OBVIOUS
<1>11. IsFiniteSet(confirming) /\ Cardinality(confirming) \in Nat
      BY <1>9, <1>10, FS_Subset, FS_CardinalityType
<1>12. Cardinality(A) <= Cardinality(confirming)
      BY <1>7, <1>8, <1>11, FS_Subset
<1>13. Len(l.replicas) \div 2 + 1 <= Cardinality(confirming)
      <2>1. Required(d) = Len(l.replicas) \div 2 + 1
            BY <1>3 DEF Required
      <2>2. Len(l.replicas) \div 2 \in Int
            BY <1>4
      <2> HIDE DEF A, confirming
      <2>3. sending'[d].acks \in Nat /\ sending'[d].acks <= Cardinality(A)
            BY <1>1, <1>3, <1>5
      <2>4. sending'[d].acks >= Len(l.replicas) \div 2 + 1
            BY <2>1, <1>1
      <2> DEFINE half == Len(l.replicas) \div 2
      <2> HIDE DEF half
      <2>5. half \in Int /\ sending'[d].acks >= half + 1
            BY <2>2, <2>4 DEF half
      <2>6. half + 1 <= Cardinality(confirming)
            BY <2>3, <2>5, <1>7, <1>11, <1>12
      <2> QED BY <2>6 DEF half
<1>14. 2 * Cardinality(confirming) > Len(l.replicas)
      BY <1>4, <1>11, <1>13, MoreThanHalf
<1> QED BY <1>1, <1>3, <1>9, <1>14 DEF PromiseKept

\* Under the policy synchronous a call succeeds when every replica answered.
LEMMA SynchronousKeepsPromise ==
    ASSUME ReplicationAssumption, RInv, NEW d \in Data, EndReplicate(d),
           sending'[d].pc = "ok"
    PROVE  PromiseKept(d)
<1> DEFINE s == sending[d].shard
           l == groups[s].layout
<1>1. /\ sending[d].pc = "sending" /\ sending[d].next > Len(ReplicasOf(d))
      /\ UNCHANGED groups
      BY DEF EndReplicate
<1>2. policy = "asynchronous" \/ (policy = "synchronous" /\ sending[d].acks = Len(ReplicasOf(d)))
      BY <1>1 DEF EndReplicate, RInv, ReplicationTypeOK
<1>3. /\ s \in Shard /\ groups[s] # NoGroup /\ ReplicasOf(d) = l.replicas
      /\ Len(l.replicas) \in Nat
      /\ sending[d].acks \in Nat /\ sending[d].next = Len(l.replicas) + 1
      /\ sending[d].acks <= Cardinality(Answered(d))
      /\ sending'[d].from = sending[d].from
      <2>1. /\ s \in Shard /\ groups[s] # NoGroup /\ ReplicasOf(d) = l.replicas
            /\ Len(ReplicasOf(d)) \in Nat /\ sending[d].acks \in Nat
            /\ sending[d].next \in 1..Len(ReplicasOf(d)) + 1
            /\ sending[d].acks <= Cardinality(Answered(d))
            BY <1>1, ReplicasOfSending
      <2>2. sending[d].next = Len(ReplicasOf(d)) + 1
            <3>1. \A a \in Nat : \A b \in 1..a + 1 : b > a => b = a + 1
                  OBVIOUS
            <3> QED BY ONLY <1>1, <2>1, <3>1
      <2>3. sending'[d].from = sending[d].from
            <3>1. sending \in [Data -> CallRecord]
                  BY DEF RInv, ReplicationTypeOK, CallRecord
            <3> QED BY <3>1 DEF EndReplicate, CallRecord
      <2> QED BY <2>1, <2>2, <2>3
<1>4. ASSUME policy = "synchronous"
      PROVE  \A n \in Replicas(l) : n \in sending'[d].from
      <2>1. sending[d].acks = Len(l.replicas)
            BY <1>2, <1>3, <1>4
      <2>2. Answered(d) = {i \in 1..Len(l.replicas) : l.replicas[i] \in sending[d].from}
            <3>1. sending[d].next - 1 = Len(l.replicas)
                  BY <1>3
            <3> QED BY <3>1, <1>3 DEF Answered
      <2>3. Answered(d) \in SUBSET (1..Len(l.replicas))
            BY <2>2
      <2>4. Cardinality(Answered(d)) = Len(l.replicas)
            <3>1. Cardinality(Answered(d)) \in Nat /\ Cardinality(Answered(d)) <= Len(l.replicas)
                  BY <2>3, <1>3, PositionsAreFinite
            <3>2. Len(l.replicas) <= Cardinality(Answered(d))
                  BY <2>1, <1>3
            <3> QED BY <3>1, <3>2, <1>3
      <2>5. Answered(d) = 1..Len(l.replicas)
            BY <2>3, <2>4, <1>3, PositionsAreFinite
      <2>6. \A i \in 1..Len(l.replicas) : l.replicas[i] \in sending[d].from
            BY ONLY <2>2, <2>5
      <2>7. \A n \in Replicas(l) : n \in sending[d].from
            BY ONLY <2>6 DEF Replicas
      <2> QED BY <2>7, <1>3
<1> QED BY <1>1, <1>2, <1>3, <1>4 DEF PromiseKept

-----------------------------------------------------------------------------
(* The invariant of failover.                                              *)

Detect == [pc : {"idle", "declare", "snapshot", "select", "fallback", "enqueue",
                 "execute"},
           node : Node \cup {NoTarget},
           shards : SUBSET Shard, made : SUBSET Shard,
           shard : Shard \cup {NoGroup},
           target : Node \cup {NoTarget},
           guard : BOOLEAN]

NodesTyped ==
    /\ nodeState \in [Node -> {"absent", "healthy", "failed"}]
    /\ monitors \in [Node -> 0..MaxMonitors]
    /\ strikes \in [Node -> {NoHistory} \cup 0..Threshold]
    /\ checked \subseteq Node
    /\ \A n \in Node : nodeState[n] # "absent" => monitors[n] > 0

TasksTyped ==
    /\ detect \in [Caller -> Detect]
    /\ queue \in Seq(Task) /\ active \subseteq Task /\ history \subseteq Task

Queued(t) == \E i \in 1..Len(queue) : queue[i] = t

QueueIsDistinct == \A i, j \in 1..Len(queue) : queue[i] = queue[j] => i = j

\* The task is queued, or executed, or recorded, and only one of these.
InOnePlace(t) ==
    /\ Queued(t) \/ t \in active \/ t \in history
    /\ ~ (Queued(t) /\ t \in active)
    /\ ~ (Queued(t) /\ t \in history)
    /\ ~ (t \in active /\ t \in history)

\* A detection works on shards it has no task for yet, and has made no task
\* before it selects; while it looks for a node, or queues the task, that shard
\* is still among those.
DetectionSound(c) ==
    /\ detect[c].made \cap detect[c].shards = {}
    /\ detect[c].pc \in {"idle", "declare", "snapshot"} => detect[c].made = {}
    /\ detect[c].pc \in {"fallback", "enqueue"} => detect[c].shard \in detect[c].shards

DetectionsSound == \A c \in Caller : DetectionSound(c)

\* Every task belongs to a detection that has made it and not yet returned.
TasksOwned ==
    \A c \in Caller, s \in Shard :
        Queued(<<c, s>>) \/ <<c, s>> \in active \/ <<c, s>> \in history
            => s \in detect[c].made

Inv == NoTaskIsLost /\ RInv /\ DetectionsSound /\ TasksOwned

\* The same, without replication and with places instead of their number.
FInv ==
    /\ NodesTyped /\ TasksTyped /\ QueueIsDistinct
    /\ \A c \in Caller : \A s \in detect[c].made : InOnePlace(<<c, s>>)
    /\ QueueIsAttended /\ DetectionsSound /\ TasksOwned

Places(t, A, B, C) ==
    {p \in {"queued", "active", "done"} :
        \/ p = "queued" /\ t \in A
        \/ p = "active" /\ t \in B
        \/ p = "done" /\ t \in C}

LEMMA OneOfThree ==
    ASSUME NEW t, NEW A, NEW B, NEW C
    PROVE  Cardinality(Places(t, A, B, C)) = 1 <=>
               /\ t \in A \/ t \in B \/ t \in C
               /\ ~ (t \in A /\ t \in B) /\ ~ (t \in A /\ t \in C)
               /\ ~ (t \in B /\ t \in C)
<1> DEFINE places == Places(t, A, B, C)
           only == /\ t \in A \/ t \in B \/ t \in C
                   /\ ~ (t \in A /\ t \in B) /\ ~ (t \in A /\ t \in C)
                   /\ ~ (t \in B /\ t \in C)
<1>1. /\ t \in A <=> "queued" \in places
      /\ t \in B <=> "active" \in places
      /\ t \in C <=> "done" \in places
      /\ places \subseteq {"queued", "active", "done"}
      <2>1. t \in A <=> "queued" \in places
            BY DEF Places
      <2>2. t \in B <=> "active" \in places
            BY DEF Places
      <2>3. t \in C <=> "done" \in places
            BY DEF Places
      <2>4. places \subseteq {"queued", "active", "done"}
            BY DEF Places
      <2> QED BY <2>1, <2>2, <2>3, <2>4
<1>2. IsFiniteSet(places)
      <2>1. IsFiniteSet({"queued"}) /\ IsFiniteSet({"queued"} \cup {"active"})
            BY FS_Singleton, FS_AddElement
      <2>2. IsFiniteSet({"queued"} \cup {"active"} \cup {"done"})
            BY <2>1, FS_AddElement
      <2>3. places \in SUBSET ({"queued"} \cup {"active"} \cup {"done"})
            BY <1>1
      <2> QED BY <2>2, <2>3, FS_Subset
<1> HIDE DEF places
<1>3. Cardinality(places) = 1 <=> \E x : places = {x}
      BY <1>2, FS_Singleton
<1>4. ASSUME NEW x, places = {x}
      PROVE  only
      BY <1>1, <1>4
<1>5. ASSUME only
      PROVE  \E x : places = {x}
      <2>1. CASE t \in A
            <3>1. places = {"queued"}
                  BY <1>1, <1>5, <2>1
            <3> QED BY <3>1
      <2>2. CASE t \in B
            <3>1. places = {"active"}
                  BY <1>1, <1>5, <2>2
            <3> QED BY <3>1
      <2>3. CASE t \in C
            <3>1. places = {"done"}
                  BY <1>1, <1>5, <2>3
            <3> QED BY <3>1
      <2> QED BY <1>5, <2>1, <2>2, <2>3
<1> QED BY <1>3, <1>4, <1>5 DEF places

\* Tasks are counted in places as the property does it.
LEMMA PlacesCounted ==
    ASSUME NEW c, NEW s
    PROVE  Cardinality({p \in {"queued", "active", "done"} :
                         \/ p = "queued" /\ \E i \in 1..Len(queue) : queue[i] = <<c, s>>
                         \/ p = "active" /\ <<c, s>> \in active
                         \/ p = "done" /\ <<c, s>> \in history}) = 1
              <=> InOnePlace(<<c, s>>)
<1> DEFINE t == <<c, s>>
           A == {queue[i] : i \in 1..Len(queue)}
           places == Places(t, A, active, history)
           counted == {p \in {"queued", "active", "done"} :
                         \/ p = "queued" /\ \E i \in 1..Len(queue) : queue[i] = t
                         \/ p = "active" /\ t \in active
                         \/ p = "done" /\ t \in history}
<1>1. Queued(t) <=> t \in A
      BY DEF Queued
<1>2. (\E i \in 1..Len(queue) : queue[i] = t) <=> t \in A
      OBVIOUS
<1> HIDE DEF A, t
<1>3. Cardinality(places) = 1 <=>
         /\ t \in A \/ t \in active \/ t \in history
         /\ ~ (t \in A /\ t \in active) /\ ~ (t \in A /\ t \in history)
         /\ ~ (t \in active /\ t \in history)
      BY OneOfThree
<1>4. counted = places
      BY <1>2 DEF Places
<1>5. Cardinality(counted) = 1 <=> InOnePlace(t)
      BY <1>1, <1>3, <1>4 DEF InOnePlace
<1> QED BY <1>5 DEF t

LEMMA InvParts == Inv <=> RInv /\ FInv
<1>1. EveryTaskInOnePlace <=>
         QueueIsDistinct /\ \A c \in Caller : \A s \in detect[c].made : InOnePlace(<<c, s>>)
      BY PlacesCounted, Zenon DEF EveryTaskInOnePlace, QueueIsDistinct
<1>2. RInv => ReplicationTypeOK
      BY DEF RInv
<1>3. TypeOK <=> ReplicationTypeOK /\ NodesTyped /\ TasksTyped
      BY DEF TypeOK, NodesTyped, TasksTyped, Detect
<1> QED BY <1>1, <1>2, <1>3 DEF Inv, FInv, NoTaskIsLost

-----------------------------------------------------------------------------
(* Steps that leave the tasks alone.                                       *)

\* The parts of the invariant that depend on nothing but tasks and detections.
LEMMA NodesKeep ==
    ASSUME FInv, NodesTyped', UNCHANGED <<detect, queue, active, history>>
    PROVE  FInv'
<1>1. TasksTyped' /\ QueueIsDistinct'
      BY DEF FInv, TasksTyped, QueueIsDistinct
<1>2. \A c \in Caller : \A s \in detect'[c].made : InOnePlace(<<c, s>>)'
      BY DEF FInv, InOnePlace, Queued
<1>3. QueueIsAttended' /\ DetectionsSound'
      BY DEF FInv, QueueIsAttended, DetectionsSound, DetectionSound
<1>4. TasksOwned'
      BY DEF FInv, TasksOwned, Queued
<1> QED BY ONLY <1>1, <1>2, <1>3, <1>4, NodesTyped' DEF FInv

LEMMA MonitoringKeeps ==
    ASSUME FailoverAssumption, FInv, NEW n \in Node,
           \/ AddNode(n) \/ RemoveNode(n) \/ Heartbeat(n)
           \/ MarkNodeRecovered(n) \/ AddNodeToMonitoring(n)
    PROVE  FInv' /\ UNCHANGED rvars
<1>1. NodesTyped
      BY DEF FInv
<1>2. Threshold \in Nat \ {0} /\ MaxMonitors \in Nat
      BY DEF FailoverAssumption
<1>3. CASE AddNode(n)
      <2>1. NodesTyped'
            BY <1>1, <1>2, <1>3 DEF AddNode, NodesTyped
      <2> QED BY <1>3, <2>1, NodesKeep DEF AddNode
<1>4. CASE RemoveNode(n)
      <2>1. NodesTyped'
            BY <1>1, <1>2, <1>4 DEF RemoveNode, NodesTyped
      <2> QED BY <1>4, <2>1, NodesKeep DEF RemoveNode
<1>5. CASE Heartbeat(n)
      <2>1. strikes[n] \in {NoHistory} \cup 0..Threshold
            BY <1>1 DEF NodesTyped
      <2>2. 0 \in 0..Threshold /\ 1 \in 0..Threshold
            BY <1>2
      <2>3. strikes[n] # NoHistory /\ strikes[n] # Threshold => strikes[n] + 1 \in 0..Threshold
            BY <1>2, <2>1
      <2>4. NodesTyped'
            BY <1>1, <1>5, <2>1, <2>2, <2>3 DEF Heartbeat, NodesTyped
      <2> QED BY <1>5, <2>4, NodesKeep DEF Heartbeat
<1>6. CASE MarkNodeRecovered(n)
      <2>1. NodesTyped'
            BY <1>1, <1>6 DEF MarkNodeRecovered, NodesTyped
      <2> QED BY <1>6, <2>1, NodesKeep DEF MarkNodeRecovered
<1>7. CASE AddNodeToMonitoring(n)
      <2>1. NodesTyped'
            BY <1>1, <1>7 DEF AddNodeToMonitoring, NodesTyped
      <2> QED BY <1>7, <2>1, NodesKeep DEF AddNodeToMonitoring
<1> QED BY <1>3, <1>4, <1>5, <1>6, <1>7

\* The places from which a detection goes on to execute tasks.
Attending == {"select", "fallback", "enqueue", "execute"}

\* A detection moves on without a task being made or moved.
LEMMA DetectionKeeps ==
    ASSUME FInv, NEW c \in Caller, UNCHANGED <<queue, active, history>>,
           NodesTyped', detect' \in [Caller -> Detect],
           \A b \in Caller \ {c} : detect'[b] = detect[b],
           detect'[c].made = detect[c].made,
           detect'[c].made \cap detect'[c].shards = {},
           detect'[c].pc \in {"declare", "snapshot"} => detect'[c].made = {},
           detect'[c].pc \in {"fallback", "enqueue"} => detect'[c].shard \in detect'[c].shards,
           detect'[c].pc # "idle",
           detect[c].pc \in Attending => detect'[c].pc \in Attending
    PROVE  FInv'
<1>1. TasksTyped' /\ QueueIsDistinct' /\ NodesTyped'
      BY DEF FInv, TasksTyped, QueueIsDistinct
<1>2. \A b \in Caller : detect'[b].made = detect[b].made
      OBVIOUS
<1>3. \A b \in Caller : \A s \in detect'[b].made : InOnePlace(<<b, s>>)'
      BY <1>2 DEF FInv, InOnePlace, Queued
<1>4. TasksOwned'
      BY <1>2 DEF FInv, TasksOwned, Queued
<1>5. DetectionsSound'
      <2> SUFFICES ASSUME NEW b \in Caller PROVE DetectionSound(b)'
            BY DEF DetectionsSound
      <2>1. CASE b = c
            BY <2>1 DEF DetectionSound
      <2>2. CASE b # c
            BY <2>2 DEF FInv, DetectionsSound, DetectionSound
      <2> QED BY <2>1, <2>2
<1>6. QueueIsAttended'
      BY DEF FInv, QueueIsAttended, Attending
<1> QED BY <1>1, <1>3, <1>4, <1>5, <1>6 DEF FInv

\* What the invariant says of one detection.
LEMMA DetectParts ==
    ASSUME FInv, NEW c \in Caller
    PROVE  /\ detect \in [Caller -> Detect] /\ detect[c] \in Detect
           /\ detect[c].shards \subseteq Shard /\ detect[c].made \subseteq Shard
           /\ detect[c].made \cap detect[c].shards = {}
           /\ detect[c].pc \in {"idle", "declare", "snapshot"} => detect[c].made = {}
           /\ detect[c].pc \in {"fallback", "enqueue"} => detect[c].shard \in detect[c].shards
           /\ NodesTyped
BY DEF FInv, TasksTyped, Detect, DetectionsSound, DetectionSound

LEMMA CheckKeeps ==
    ASSUME FInv, NEW c \in Caller, NEW n \in Node, Check(c, n)
    PROVE  FInv'
<1>1. /\ detect[c].pc = "idle"
      /\ detect' = [detect EXCEPT ![c].pc = "declare", ![c].node = n]
      /\ UNCHANGED <<nodeState, monitors, strikes, checked, queue, active, history>>
      BY DEF Check
<1>2. /\ detect' \in [Caller -> Detect]
      /\ \A b \in Caller \ {c} : detect'[b] = detect[b]
      BY <1>1, DetectParts DEF Detect
<1>3. /\ detect'[c].made = detect[c].made /\ detect'[c].shards = detect[c].shards
      /\ detect'[c].pc = "declare"
      BY <1>1, DetectParts DEF Detect
<1>4. NodesTyped'
      BY <1>1, DetectParts DEF NodesTyped
<1> QED BY <1>1, <1>2, <1>3, <1>4, DetectParts, DetectionKeeps DEF Attending

LEMMA DeclareKeeps ==
    ASSUME FInv, NEW c \in Caller, Declare(c)
    PROVE  FInv'
<1>1. /\ detect[c].pc = "declare"
      /\ nodeState' = [nodeState EXCEPT ![detect[c].node] =
                          IF @ = "absent" THEN @ ELSE "failed"]
      /\ detect' = [detect EXCEPT ![c].pc = "snapshot", ![c].guard = TRUE]
      /\ UNCHANGED <<monitors, strikes, checked, queue, active, history>>
      BY DEF Declare
<1> DEFINE r == [detect[c] EXCEPT !.pc = "snapshot", !.guard = TRUE]
<1>2. detect \in [Caller -> Detect] /\ detect[c] \in Detect
      BY DetectParts
<1>3. detect' = [detect EXCEPT ![c] = r]
      BY <1>1, <1>2
<1>4. r \in Detect
      BY <1>2 DEF Detect
<1>5. r.made = detect[c].made /\ r.shards = detect[c].shards /\ r.pc = "snapshot"
      BY <1>2 DEF Detect
<1> HIDE DEF r
<1>6. /\ detect' \in [Caller -> Detect] /\ detect'[c] = r
      /\ \A b \in Caller \ {c} : detect'[b] = detect[b]
      BY ONLY <1>2, <1>3, <1>4
<1>7. /\ detect'[c].made = detect[c].made /\ detect'[c].shards = detect[c].shards
      /\ detect'[c].pc = "snapshot"
      BY ONLY <1>6, <1>5
<1>8. NodesTyped'
      BY <1>1, DetectParts DEF NodesTyped
<1> QED BY <1>1, <1>6, <1>7, <1>8, DetectParts, DetectionKeeps DEF Attending

LEMMA InitiateKeeps ==
    ASSUME FInv, NEW c \in Caller, NEW n \in Node, Initiate(c, n)
    PROVE  FInv'
<1>1. /\ detect[c].pc = "idle"
      /\ detect' = [detect EXCEPT ![c].pc = "snapshot", ![c].node = n]
      /\ UNCHANGED <<nodeState, monitors, strikes, checked, queue, active, history>>
      BY DEF Initiate
<1>2. /\ detect' \in [Caller -> Detect]
      /\ \A b \in Caller \ {c} : detect'[b] = detect[b]
      BY <1>1, DetectParts DEF Detect
<1>3. /\ detect'[c].made = detect[c].made /\ detect'[c].shards = detect[c].shards
      /\ detect'[c].pc = "snapshot"
      BY <1>1, DetectParts DEF Detect
<1>4. NodesTyped'
      BY <1>1, DetectParts DEF NodesTyped
<1> QED BY <1>1, <1>2, <1>3, <1>4, DetectParts, DetectionKeeps DEF Attending

LEMMA FitAreNodes ==
    ASSUME ReplicationAssumption, RInv, NEW s \in Shard, NEW failed
    PROVE  FirstFit(s, failed) \subseteq Node
<1>1. CASE groups[s] = NoGroup
      <2>1. 1..Len(<< >>) = {}
            BY EmptySeq
      <2> QED BY <1>1, <2>1 DEF FirstFit
<1>2. CASE groups[s] # NoGroup
      <2>1. \A i \in 1..Len(groups[s].layout.replicas) : groups[s].layout.replicas[i] \in Node
            BY <1>2, GroupParts, LayoutParts
      <2> QED BY <1>2, <2>1 DEF FirstFit
<1> QED BY <1>1, <1>2

LEMMA SelectKeeps ==
    ASSUME FailoverAssumption, ReplicationAssumption, RInv, FInv,
           NEW c \in Caller, NEW s \in Shard, Select(c, s)
    PROVE  FInv'
<1>1. /\ detect[c].pc = "select" /\ s \in detect[c].shards
      /\ UNCHANGED <<nodeState, monitors, strikes, checked, queue, active, history>>
      BY DEF Select
<1>2. NodesTyped'
      BY <1>1, DetectParts DEF NodesTyped
<1>3. CASE detect' = [detect EXCEPT ![c].pc = "fallback", ![c].shard = s]
      <2>1. /\ detect' \in [Caller -> Detect]
            /\ \A b \in Caller \ {c} : detect'[b] = detect[b]
            BY <1>3, DetectParts DEF Detect
      <2>2. /\ detect'[c].made = detect[c].made
            /\ detect'[c].shards = detect[c].shards
            /\ detect'[c].pc = "fallback" /\ detect'[c].shard = s
            BY <1>1, <1>3, DetectParts DEF Detect
      <2> QED BY <1>1, <1>2, <2>1, <2>2, DetectParts, DetectionKeeps DEF Attending
<1>4. ASSUME NEW n \in Node,
             detect' = [detect EXCEPT ![c].pc = "enqueue", ![c].shard = s, ![c].target = n]
      PROVE  FInv'
      <2> DEFINE r == [detect[c] EXCEPT !.pc = "enqueue", !.shard = s, !.target = n]
      <2>1. detect \in [Caller -> Detect] /\ detect[c] \in Detect
            BY DetectParts
      <2>2. detect' = [detect EXCEPT ![c] = r]
            BY <1>4, <2>1
      <2>3. r \in Detect
            BY <2>1 DEF Detect
      <2>4. /\ r.made = detect[c].made /\ r.shards = detect[c].shards
            /\ r.pc = "enqueue" /\ r.shard = s
            BY <2>1 DEF Detect
      <2> HIDE DEF r
      <2>5. /\ detect' \in [Caller -> Detect] /\ detect'[c] = r
            /\ \A b \in Caller \ {c} : detect'[b] = detect[b]
            BY <2>1, <2>2, <2>3
      <2> QED BY <1>1, <1>2, <2>4, <2>5, DetectParts, DetectionKeeps DEF Attending
<1>5. FirstFit(s, detect[c].node) \subseteq Node
      BY FitAreNodes
<1> QED BY <1>3, <1>4, <1>5 DEF Select

LEMMA FallbackKeeps ==
    ASSUME FInv, NEW c \in Caller, Fallback(c)
    PROVE  FInv'
<1> DEFINE s == detect[c].shard
<1>1. /\ detect[c].pc = "fallback"
      /\ UNCHANGED <<nodeState, monitors, strikes, checked, queue, active, history>>
      BY DEF Fallback
<1>2. NodesTyped'
      BY <1>1, DetectParts DEF NodesTyped
<1>3. detect \in [Caller -> Detect] /\ detect[c] \in Detect /\ s \in detect[c].shards
      BY <1>1, DetectParts
<1>4. CASE detect' = [detect EXCEPT ![c].pc = "select", ![c].shards = @ \ {detect[c].shard},
                                    ![c].shard = NoGroup]
      <2> DEFINE r == [detect[c] EXCEPT !.pc = "select", !.shards = detect[c].shards \ {s},
                                        !.shard = NoGroup]
      <2>1. detect' = [detect EXCEPT ![c] = r]
            BY <1>3, <1>4
      <2>2. r \in Detect
            BY <1>3 DEF Detect
      <2>3. /\ r.made = detect[c].made /\ r.shards = detect[c].shards \ {s}
            /\ r.pc = "select"
            BY <1>3 DEF Detect
      <2> HIDE DEF r
      <2>4. /\ detect' \in [Caller -> Detect] /\ detect'[c] = r
            /\ \A b \in Caller \ {c} : detect'[b] = detect[b]
            BY <1>3, <2>1, <2>2
      <2> QED BY <1>1, <1>2, <2>3, <2>4, DetectParts, DetectionKeeps DEF Attending
<1>5. ASSUME NEW n \in Node,
             detect' = [detect EXCEPT ![c].pc = "enqueue", ![c].target = n]
      PROVE  FInv'
      <2> DEFINE r == [detect[c] EXCEPT !.pc = "enqueue", !.target = n]
      <2>1. detect' = [detect EXCEPT ![c] = r]
            BY <1>3, <1>5
      <2>2. r \in Detect
            BY <1>3 DEF Detect
      <2>3. /\ r.made = detect[c].made /\ r.shards = detect[c].shards
            /\ r.pc = "enqueue" /\ r.shard = s
            BY <1>3 DEF Detect
      <2> HIDE DEF r
      <2>4. /\ detect' \in [Caller -> Detect] /\ detect'[c] = r
            /\ \A b \in Caller \ {c} : detect'[b] = detect[b]
            BY <1>3, <2>1, <2>2
      <2> QED BY <1>1, <1>2, <1>3, <2>3, <2>4, DetectParts, DetectionKeeps DEF Attending
<1> QED BY <1>4, <1>5 DEF Fallback

LEMMA StartExecutionKeeps ==
    ASSUME FInv, NEW c \in Caller, StartExecution(c)
    PROVE  FInv'
<1>1. /\ detect[c].pc = "select"
      /\ detect' = [detect EXCEPT ![c].pc = "execute"]
      /\ UNCHANGED <<nodeState, monitors, strikes, checked, queue, active, history>>
      BY DEF StartExecution
<1>2. /\ detect' \in [Caller -> Detect]
      /\ \A b \in Caller \ {c} : detect'[b] = detect[b]
      BY <1>1, DetectParts DEF Detect
<1>3. /\ detect'[c].made = detect[c].made /\ detect'[c].shards = detect[c].shards
      /\ detect'[c].pc = "execute"
      BY <1>1, DetectParts DEF Detect
<1>4. NodesTyped'
      BY <1>1, DetectParts DEF NodesTyped
<1> QED BY <1>1, <1>2, <1>3, <1>4, DetectParts, DetectionKeeps DEF Attending

-----------------------------------------------------------------------------
(* Steps that make or move tasks.                                          *)

LEMMA EnqueueKeeps ==
    ASSUME FInv, NEW c \in Caller, Enqueue(c)
    PROVE  FInv'
<1> DEFINE s == detect[c].shard
           t == <<c, s>>
           r == [detect[c] EXCEPT !.pc = "select", !.shards = detect[c].shards \ {s},
                                  !.made = detect[c].made \cup {s},
                                  !.shard = NoGroup, !.target = NoTarget]
<1>1. /\ detect[c].pc = "enqueue" /\ queue' = Append(queue, t)
      /\ UNCHANGED <<nodeState, monitors, strikes, checked, active, history>>
      BY DEF Enqueue
<1>2. /\ detect \in [Caller -> Detect] /\ detect[c] \in Detect
      /\ s \in Shard /\ s \in detect[c].shards /\ s \notin detect[c].made
      BY <1>1, DetectParts
<1>3. detect' = [detect EXCEPT ![c] = r]
      BY <1>2 DEF Enqueue
<1>4. r \in Detect
      BY <1>2 DEF Detect
<1>5. /\ r.made = detect[c].made \cup {s} /\ r.shards = detect[c].shards \ {s}
      /\ r.pc = "select"
      BY <1>2 DEF Detect
<1> HIDE DEF r
<1>6. /\ detect' \in [Caller -> Detect] /\ detect'[c] = r
      /\ \A b \in Caller \ {c} : detect'[b] = detect[b]
      BY <1>2, <1>3, <1>4
<1>7. t \in Task
      BY <1>2 DEF Task
<1>8. ~ Queued(t) /\ t \notin active /\ t \notin history
      BY <1>2 DEF FInv, TasksOwned
<1>9. queue \in Seq(Task) /\ QueueIsDistinct
      BY DEF FInv, TasksTyped
<1> HIDE DEF t
<1>10. /\ queue' \in Seq(Task) /\ Len(queue) \in Nat /\ Len(queue') = Len(queue) + 1
       /\ \A i \in 1..Len(queue) : queue'[i] = queue[i]
       /\ queue'[Len(queue) + 1] = t
       BY <1>1, <1>7, <1>9, AppendProperties, LenProperties
<1>11. \A x : Queued(x)' <=> Queued(x) \/ x = t
       <2>1. 1..Len(queue') = 1..Len(queue) \cup {Len(queue) + 1}
             BY <1>10
       <2> QED BY <1>10, <2>1 DEF Queued
<1>12. QueueIsDistinct'
       <2> SUFFICES ASSUME NEW i \in 1..Len(queue'), NEW j \in 1..Len(queue'),
                           queue'[i] = queue'[j]
                    PROVE  i = j
             BY DEF QueueIsDistinct
       <2>1. \A k \in 1..Len(queue) : queue[k] # t
             BY <1>8 DEF Queued
       <2>2. CASE i \in 1..Len(queue) /\ j \in 1..Len(queue)
             BY <2>2, <1>9, <1>10 DEF QueueIsDistinct
       <2>3. CASE i = Len(queue) + 1 /\ j \in 1..Len(queue)
             BY <2>1, <2>3, <1>10
       <2>4. CASE i \in 1..Len(queue) /\ j = Len(queue) + 1
             BY <2>1, <2>4, <1>10
       <2>5. CASE i = Len(queue) + 1 /\ j = Len(queue) + 1
             BY <2>5
       <2> QED BY <2>2, <2>3, <2>4, <2>5, <1>10
<1>13. TasksTyped'
       BY <1>1, <1>6, <1>10 DEF FInv, TasksTyped
<1>14. NodesTyped'
       BY <1>1 DEF FInv, NodesTyped
<1>15. \A b \in Caller : \A x \in detect'[b].made :
           <<b, x>> = t \/ (<<b, x>> # t /\ x \in detect[b].made)
       BY <1>5, <1>6 DEF t
<1>16. \A b \in Caller : \A x \in detect'[b].made : InOnePlace(<<b, x>>)'
       BY <1>1, <1>8, <1>11, <1>15 DEF FInv, InOnePlace
<1>17. TasksOwned'
       <2> SUFFICES ASSUME NEW b \in Caller, NEW x \in Shard,
                           Queued(<<b, x>>)' \/ <<b, x>> \in active' \/ <<b, x>> \in history'
                    PROVE  x \in detect'[b].made
             BY DEF TasksOwned
       <2>1. <<b, x>> = t \/ x \in detect[b].made
             BY <1>1, <1>11 DEF FInv, TasksOwned
       <2> QED BY <2>1, <1>5, <1>6 DEF t
<1>18. DetectionsSound'
       <2> SUFFICES ASSUME NEW b \in Caller PROVE DetectionSound(b)'
             BY DEF DetectionsSound
       <2>1. CASE b = c
             BY <2>1, <1>5, <1>6, DetectParts DEF DetectionSound
       <2>2. CASE b # c
             BY <2>2, <1>6 DEF FInv, DetectionsSound, DetectionSound
       <2> QED BY <2>1, <2>2
<1>19. QueueIsAttended'
       BY <1>5, <1>6 DEF QueueIsAttended
<1> QED BY <1>12, <1>13, <1>14, <1>16, <1>17, <1>18, <1>19 DEF FInv

\* The last task of the queue, and the queue without it.
LEMMA PoppedTask ==
    ASSUME NEW q \in Seq(Task), q # << >>,
           \A i, j \in 1..Len(q) : q[i] = q[j] => i = j
    PROVE  /\ Last(q) \in Task /\ Front(q) \in Seq(Task)
           /\ \E i \in 1..Len(q) : q[i] = Last(q)
           /\ \A i, j \in 1..Len(Front(q)) : Front(q)[i] = Front(q)[j] => i = j
           /\ \A x : (\E i \in 1..Len(Front(q)) : Front(q)[i] = x)
                        <=> (\E i \in 1..Len(q) : q[i] = x) /\ x # Last(q)
<1>1. Len(q) \in Nat \ {0}
      BY EmptySeq, LenProperties
<1>2. \A i \in 1..Len(q) : q[i] \in Task
      BY ElementOfSeq
<1>3. Len(q) - 1 \in Nat /\ Len(q) \in 1..Len(q)
      BY <1>1
<1>4. \A i \in 1..Len(q) - 1 : q[i] \in Task
      BY <1>1, <1>2
<1>5. /\ Front(q) \in Seq(Task) /\ Len(Front(q)) = Len(q) - 1
      /\ \A i \in 1..Len(q) - 1 : Front(q)[i] = q[i]
      <2> DEFINE n == Len(q) - 1
      <2>1. n \in Nat /\ \A i \in 1..n : q[i] \in Task
            BY <1>3, <1>4
      <2> HIDE DEF n
      <2>2. /\ SubSeq(q, 1, n) \in Seq(Task)
            /\ Len(SubSeq(q, 1, n)) = IF 1 <= n THEN n - 1 + 1 ELSE 0
            /\ \A i \in 1..n - 1 + 1 : SubSeq(q, 1, n)[i] = q[1 + i - 1]
            BY <2>1, SubSeqProperties
      <2>3. Len(SubSeq(q, 1, n)) = n /\ \A i \in 1..n : SubSeq(q, 1, n)[i] = q[i]
            BY <2>1, <2>2
      <2> QED BY <2>2, <2>3 DEF Front, n
<1>6. 1..Len(q) = 1..Len(q) - 1 \cup {Len(q)}
      BY <1>1
<1>7. Last(q) = q[Len(q)]
      BY DEF Last
<1>8. \A i \in 1..Len(q) - 1 : q[i] # q[Len(q)]
      BY <1>1, <1>3
<1> QED BY <1>2, <1>3, <1>5, <1>6, <1>7, <1>8

LEMMA PopTaskKeeps ==
    ASSUME FInv, NEW c \in Caller, PopTask(c)
    PROVE  FInv'
<1> DEFINE t == Last(queue)
<1>1. /\ detect[c].pc = "execute" /\ active = {} /\ queue # << >>
      /\ active' = {t} /\ queue' = Front(queue)
      /\ UNCHANGED <<nodeState, monitors, strikes, checked, detect, history>>
      BY DEF PopTask
<1>2. queue \in Seq(Task) /\ QueueIsDistinct
      BY DEF FInv, TasksTyped
<1>3. /\ t \in Task /\ queue' \in Seq(Task) /\ QueueIsDistinct'
      /\ Queued(t)
      /\ \A x : Queued(x)' <=> Queued(x) /\ x # t
      <2>1. /\ t \in Task /\ Front(queue) \in Seq(Task)
            /\ \E i \in 1..Len(queue) : queue[i] = t
            /\ \A i, j \in 1..Len(Front(queue)) :
                   Front(queue)[i] = Front(queue)[j] => i = j
            /\ \A x : (\E i \in 1..Len(Front(queue)) : Front(queue)[i] = x)
                        <=> (\E i \in 1..Len(queue) : queue[i] = x) /\ x # t
            BY <1>1, <1>2, PoppedTask DEF QueueIsDistinct
      <2> HIDE DEF t
      <2> QED BY <1>1, <2>1 DEF QueueIsDistinct, Queued
<1> HIDE DEF t
<1>4. NodesTyped' /\ TasksTyped'
      BY <1>1, <1>3 DEF FInv, NodesTyped, TasksTyped
<1>5. \A b \in Caller : \A s \in detect'[b].made : InOnePlace(<<b, s>>)'
      BY <1>1, <1>3 DEF FInv, InOnePlace
<1>6. TasksOwned'
      BY <1>1, <1>3 DEF FInv, TasksOwned
<1>7. DetectionsSound'
      BY <1>1 DEF FInv, DetectionsSound, DetectionSound
<1>8. QueueIsAttended'
      BY <1>1 DEF QueueIsAttended
<1> QED BY <1>3, <1>4, <1>5, <1>6, <1>7, <1>8 DEF FInv

LEMMA FinishTaskKeeps ==
    ASSUME FInv, NEW c \in Caller, FinishTask(c)
    PROVE  FInv'
<1>1. /\ detect[c].pc = "execute"
      /\ history' = history \cup active /\ active' = {}
      /\ UNCHANGED <<nodeState, monitors, strikes, checked, detect, queue>>
      BY DEF FinishTask
<1>2. NodesTyped' /\ TasksTyped' /\ QueueIsDistinct'
      BY <1>1 DEF FInv, NodesTyped, TasksTyped, QueueIsDistinct
<1>3. \A x : Queued(x)' <=> Queued(x)
      BY <1>1 DEF Queued
<1>4. \A b \in Caller : \A s \in detect'[b].made : InOnePlace(<<b, s>>)'
      BY <1>1, <1>3 DEF FInv, InOnePlace
<1>5. TasksOwned'
      BY <1>1, <1>3 DEF FInv, TasksOwned
<1>6. DetectionsSound'
      BY <1>1 DEF FInv, DetectionsSound, DetectionSound
<1>7. QueueIsAttended'
      BY <1>1 DEF QueueIsAttended
<1> QED BY <1>2, <1>4, <1>5, <1>6, <1>7 DEF FInv

\* A detection returns whose tasks are all done.
LEMMA ReturnedKeeps ==
    ASSUME FInv, NEW c \in Caller, Returned(c),
           UNCHANGED <<nodeState, monitors, strikes, checked, queue, active>>,
           \A s \in Shard : ~ Queued(<<c, s>>) /\ <<c, s>> \notin active,
           QueueIsAttended'
    PROVE  FInv'
<1>1. /\ detect' = [detect EXCEPT ![c] = Idler]
      /\ history' = {t \in history : t[1] # c}
      BY DEF Returned
<1>2. /\ Idler \in Detect /\ Idler.made = {} /\ Idler.shards = {} /\ Idler.pc = "idle"
      BY DEF Idler, Detect
<1>3. /\ detect' \in [Caller -> Detect] /\ detect'[c] = Idler
      /\ \A b \in Caller \ {c} : detect'[b] = detect[b]
      BY <1>1, <1>2, DetectParts
<1>4. NodesTyped' /\ TasksTyped' /\ QueueIsDistinct'
      BY <1>1, <1>3 DEF FInv, NodesTyped, TasksTyped, QueueIsDistinct
<1>5. \A x : Queued(x)' <=> Queued(x)
      BY DEF Queued
<1>6. \A b \in Caller \ {c}, s \in Shard : <<b, s>> \in history' <=> <<b, s>> \in history
      BY <1>1
<1>7. \A s \in Shard : <<c, s>> \notin history'
      BY <1>1
<1>8. \A b \in Caller : \A s \in detect'[b].made : InOnePlace(<<b, s>>)'
      <2> SUFFICES ASSUME NEW b \in Caller, NEW s \in detect'[b].made
                   PROVE  InOnePlace(<<b, s>>)'
            OBVIOUS
      <2>1. b # c
            BY <1>2, <1>3
      <2>2. s \in detect[b].made /\ s \in Shard
            BY <2>1, <1>3, DetectParts
      <2> QED BY <2>1, <2>2, <1>5, <1>6 DEF FInv, InOnePlace
<1>9. TasksOwned'
      <2> SUFFICES ASSUME NEW b \in Caller, NEW s \in Shard,
                          Queued(<<b, s>>)' \/ <<b, s>> \in active' \/ <<b, s>> \in history'
                   PROVE  s \in detect'[b].made
            BY DEF TasksOwned
      <2>1. b # c
            BY <1>5, <1>7
      <2> QED BY <2>1, <1>3, <1>5, <1>6 DEF FInv, TasksOwned
<1>10. DetectionsSound'
      <2> SUFFICES ASSUME NEW b \in Caller PROVE DetectionSound(b)'
            BY DEF DetectionsSound
      <2>1. CASE b = c
            BY <2>1, <1>2, <1>3 DEF DetectionSound
      <2>2. CASE b # c
            BY <2>2, <1>3 DEF FInv, DetectionsSound, DetectionSound
      <2> QED BY <2>1, <2>2
<1> QED BY <1>4, <1>8, <1>9, <1>10 DEF FInv

LEMMA SnapshotKeeps ==
    ASSUME FInv, NEW c \in Caller, Snapshot(c)
    PROVE  FInv'
<1> DEFINE affected == {s \in Shard : Concerned(s, detect[c].node)}
<1>1. /\ detect[c].pc = "snapshot"
      /\ UNCHANGED <<nodeState, monitors, strikes, checked, queue, active>>
      BY DEF Snapshot
<1>2. detect[c].made = {}
      BY <1>1, DetectParts
<1>3. CASE Returned(c)
      <2>1. \A s \in Shard : ~ Queued(<<c, s>>) /\ <<c, s>> \notin active
            BY <1>2 DEF FInv, TasksOwned
      <2>2. \A b \in Caller \ {c} : detect'[b] = detect[b]
            BY <1>3, DetectParts DEF Returned
      <2>3. QueueIsAttended'
            BY <1>1, <2>2 DEF FInv, QueueIsAttended
      <2> QED BY <1>1, <1>3, <2>1, <2>3, ReturnedKeeps
<1>4. CASE /\ detect' = [detect EXCEPT ![c].pc = "select", ![c].shards = affected]
           /\ UNCHANGED history
      <2>1. affected \in SUBSET Shard
            OBVIOUS
      <2> HIDE DEF affected
      <2>2. /\ detect' \in [Caller -> Detect]
            /\ \A b \in Caller \ {c} : detect'[b] = detect[b]
            BY <1>4, <2>1, DetectParts DEF Detect
      <2>3. detect'[c].made = {} /\ detect'[c].pc = "select"
            BY <1>2, <1>4, DetectParts DEF Detect
      <2>4. NodesTyped'
            BY <1>1, DetectParts DEF NodesTyped
      <2> QED BY <1>1, <1>2, <1>4, <2>2, <2>3, <2>4, DetectionKeeps DEF Attending
<1> QED BY <1>3, <1>4 DEF Snapshot

LEMMA EndExecutionKeeps ==
    ASSUME FInv, NEW c \in Caller, EndExecution(c)
    PROVE  FInv'
<1>1. /\ active = {} /\ queue = << >> /\ Returned(c)
      /\ UNCHANGED <<nodeState, monitors, strikes, checked, queue, active>>
      BY DEF EndExecution
<1>2. Len(queue) = 0
      BY <1>1, EmptySeq
<1>3. \A s \in Shard : ~ Queued(<<c, s>>) /\ <<c, s>> \notin active
      BY <1>1, <1>2 DEF Queued
<1>4. QueueIsAttended'
      BY <1>1 DEF QueueIsAttended
<1> QED BY <1>1, <1>3, <1>4, ReturnedKeeps

LEMMA DetectionStepKeeps ==
    ASSUME ReplicationAssumption, FailoverAssumption, RInv, FInv,
           NEW c \in Caller, Detection(c)
    PROVE  FInv' /\ UNCHANGED rvars
<1>1. FInv'
      BY CheckKeeps, InitiateKeeps, DeclareKeeps, SnapshotKeeps, SelectKeeps,
         FallbackKeeps, EnqueueKeeps,
         StartExecutionKeeps, PopTaskKeeps, FinishTaskKeeps, EndExecutionKeeps DEF Detection
<1>2. UNCHANGED rvars
      BY DEF Detection, Check, Initiate, Declare, Snapshot, Select, Fallback, Enqueue,
             StartExecution, PopTask, FinishTask, EndExecution
<1> QED BY <1>1, <1>2

-----------------------------------------------------------------------------
(* The theorems.                                                           *)

LEMMA InitHolds ==
    ASSUME ReplicationAssumption, FailoverAssumption, Init
    PROVE  RInv /\ FInv
<1>1. RInv
      <2>1. ReplicationTypeOK
            BY DEF Init, ReplicationInit, ReplicationTypeOK, Idle
      <2>2. GroupsTyped
            BY DEF Init, ReplicationInit, GroupsTyped
      <2>3. CallsBacked
            BY DEF Init, ReplicationInit, CallsBacked, Idle
      <2> QED BY <2>1, <2>2, <2>3 DEF RInv
<1>2. /\ Idler \in Detect /\ Idler.made = {} /\ Idler.shards = {} /\ Idler.pc = "idle"
      BY DEF Idler, Detect
<1>3. Len(queue) = 0 /\ queue \in Seq(Task)
      BY EmptySeq DEF Init
<1>4. NodesTyped
      BY DEF Init, NodesTyped, FailoverAssumption
<1>5. TasksTyped
      BY <1>2, <1>3 DEF Init, TasksTyped
<1>6. QueueIsDistinct /\ \A t : ~ Queued(t)
      BY <1>3 DEF QueueIsDistinct, Queued
<1>7. QueueIsAttended
      BY DEF Init, QueueIsAttended
<1>8. \A c \in Caller : detect[c] = Idler
      BY DEF Init
<1>9. DetectionsSound
      BY <1>2, <1>8 DEF DetectionsSound, DetectionSound
<1>10. TasksOwned
      BY <1>6 DEF Init, TasksOwned
<1> QED BY <1>1, <1>2, <1>4, <1>5, <1>6, <1>7, <1>8, <1>9, <1>10 DEF FInv

LEMMA StepHolds ==
    ASSUME ReplicationAssumption, FailoverAssumption, RInv, FInv, [Next]_vars
    PROVE  RInv' /\ FInv'
<1>1. CASE ReplicationNext /\ UNCHANGED fvars
      <2>1. RInv'
            BY <1>1, ReplicationKeeps
      <2>2. NodesTyped'
            BY <1>1 DEF fvars, FInv, NodesTyped
      <2>3. FInv'
            BY <1>1, <2>2, NodesKeep DEF fvars
      <2> QED BY <2>1, <2>3
<1>2. ASSUME NEW n \in Node,
             \/ AddNode(n) \/ RemoveNode(n) \/ Heartbeat(n)
             \/ MarkNodeRecovered(n) \/ AddNodeToMonitoring(n)
      PROVE  RInv' /\ FInv'
      BY <1>2, MonitoringKeeps, ReplicationKeeps
<1>3. ASSUME NEW c \in Caller, Detection(c)
      PROVE  RInv' /\ FInv'
      BY <1>3, DetectionStepKeeps, ReplicationKeeps
<1>4. CASE UNCHANGED vars
      <2>1. RInv'
            BY <1>4, ReplicationKeeps DEF vars
      <2>2. NodesTyped'
            BY <1>4 DEF vars, fvars, FInv, NodesTyped
      <2>3. FInv'
            BY <1>4, <2>2, NodesKeep DEF vars, fvars
      <2> QED BY <2>1, <2>3
<1> QED BY <1>1, <1>2, <1>3, <1>4 DEF Next

\* The inductive invariant, of which the theorems below are parts.
THEOREM Invariance == Spec => []Inv
<1>1. Init => Inv
      BY InitHolds, InvParts, ReplicationAssumption, FailoverAssumption
<1>2. Inv /\ [Next]_vars => Inv'
      <2>1. Inv' <=> RInv' /\ FInv'
            BY InvParts, PTL
      <2> QED BY <2>1, StepHolds, InvParts, ReplicationAssumption, FailoverAssumption
<1> QED BY <1>1, <1>2, PTL DEF Spec

\* Recovery tasks are neither lost nor doubled nor left behind.
THEOREM TasksAreNeverLost == Spec => []NoTaskIsLost
<1>1. Inv => NoTaskIsLost
      BY DEF Inv
<1> QED BY <1>1, Invariance, PTL

\* Only a detection that ends its execution goes from there to idle.
LEMMA ReturnEndsExecution ==
    ASSUME FInv, [Next]_vars, NEW c \in Caller,
           detect[c].pc = "execute", detect'[c].pc = "idle"
    PROVE  active = {} /\ queue = << >>
<1>1. detect \in [Caller -> Detect]
      BY DEF FInv, TasksTyped
<1>2. detect' # detect
      OBVIOUS
<1>3. PICK b \in Caller : Detection(b)
      BY <1>2 DEF Next, vars, fvars, AddNode, RemoveNode, Heartbeat, MarkNodeRecovered,
                  AddNodeToMonitoring
<1>4. CASE b # c
      <2>1. detect'[c] = detect[c]
            BY <1>1, <1>3, <1>4 DEF Detection, Check, Initiate, Declare, Snapshot, Returned,
               Select, Fallback, Enqueue, StartExecution, PopTask, FinishTask, EndExecution
      <2> QED BY <2>1
<1>5. CASE b = c
      <2>1. PopTask(c) \/ FinishTask(c) \/ EndExecution(c)
            BY <1>3, <1>5 DEF Detection, Check, Initiate, Declare, Snapshot, Select,
               Fallback, Enqueue, StartExecution
      <2>2. EndExecution(c)
            BY <2>1 DEF PopTask, FinishTask
      <2> QED BY <2>2 DEF EndExecution
<1> QED BY <1>4, <1>5

\* A failover that returns has seen the end of every recovery it asked for.
THEOREM ReturnsRecovered == Spec => ReturnMeansRecovered
<1> DEFINE Recovered == \A c \in Caller :
                            detect[c].pc = "execute" /\ detect'[c].pc = "idle" =>
                                \A s \in detect[c].made : <<c, s>> \in history
<1>1. Inv /\ [Next]_vars => [Recovered]_vars
      <2> SUFFICES ASSUME Inv, [Next]_vars, NEW c \in Caller,
                          detect[c].pc = "execute", detect'[c].pc = "idle",
                          NEW s \in detect[c].made
                   PROVE  <<c, s>> \in history
            OBVIOUS
      <2>1. FInv
            BY InvParts
      <2>2. active = {} /\ queue = << >>
            BY <2>1, ReturnEndsExecution
      <2>3. Len(queue) = 0
            BY <2>2, EmptySeq
      <2>4. InOnePlace(<<c, s>>)
            BY <2>1 DEF FInv
      <2> QED BY <2>2, <2>3, <2>4 DEF InOnePlace, Queued
<1>2. ReturnMeansRecovered <=> [][Recovered]_vars
      BY PTL DEF ReturnMeansRecovered
<1> QED BY <1>1, <1>2, Invariance, PTL DEF Spec

\* A write that succeeds under the policy synchronous or quorum was answered by
\* all replicas of its shard, or by most of them (replicate_data).
THEOREM AcksKeepTheirPromise == Spec => AckKeepsPromise
<1> DEFINE Kept == \A d \in Data :
                       sending[d].pc = "sending" /\ sending'[d].pc = "ok" => PromiseKept(d)
<1>1. Inv /\ [Next]_vars => [Kept]_rvars
      <2> SUFFICES ASSUME Inv, [Next]_vars, NEW d \in Data,
                          sending[d].pc = "sending", sending'[d].pc = "ok"
                   PROVE  PromiseKept(d)
            OBVIOUS
      <2>1. RInv /\ FInv
            BY InvParts
      <2>2. sending' # sending
            OBVIOUS
      <2>3. ReplicationNext
            <3>1. ASSUME NEW n \in Node, AddNode(n) \/ RemoveNode(n) \/ Heartbeat(n)
                                         \/ MarkNodeRecovered(n) \/ AddNodeToMonitoring(n)
                  PROVE  UNCHANGED sending
                  BY <3>1 DEF AddNode, RemoveNode, Heartbeat, MarkNodeRecovered,
                              AddNodeToMonitoring, rvars
            <3>2. ASSUME NEW c \in Caller, Detection(c)
                  PROVE  UNCHANGED sending
                  BY <3>2, <2>1, DetectionStepKeeps, ReplicationAssumption,
                     FailoverAssumption DEF rvars
            <3> QED BY <2>2, <3>1, <3>2 DEF Next, vars, rvars
      <2>4. PICK e \in Data : SendToNext(e) \/ EndReplicate(e) \/ \E s \in Shard : BeginReplicate(e, s)
            BY <2>2, <2>3 DEF ReplicationNext, AddReplicaGroup, RemoveReplicaGroup,
                              UpdateSyncState
      <2>5. e = d
            <3>1. CASE SendToNext(e)
                  BY <2>1, <3>1, SendToNextCounts, ReplicationAssumption
            <3>2. CASE EndReplicate(e)
                  BY <2>1, <3>2 DEF EndReplicate, RInv, ReplicationTypeOK
            <3>3. ASSUME NEW s \in Shard, BeginReplicate(e, s) PROVE e = d
                  BY <2>1, <3>3 DEF BeginReplicate, RInv, ReplicationTypeOK
            <3> QED BY <2>4, <3>1, <3>2, <3>3
      <2>6. SendToNext(d) \/ EndReplicate(d)
            BY <2>4, <2>5 DEF BeginReplicate
      <2> QED BY <2>1, <2>6, QuorumKeepsPromise, SynchronousKeepsPromise,
                 ReplicationAssumption
<1>2. AckKeepsPromise <=> [][Kept]_rvars
      BY PTL DEF AckKeepsPromise, PromiseKept
<1> QED BY <1>1, <1>2, Invariance, PTL DEF Spec
=============================================================================
