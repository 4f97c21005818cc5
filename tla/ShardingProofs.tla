--------------------------- MODULE ShardingProofs ---------------------------
(***************************************************************************)
(* The count of a shard covers what is stored in it, a shard whose primary *)
(* is this node is held here, and a search asks every shard once: for any  *)
(* cluster, number of shards, points and concurrent calls.  The hash ring  *)
(* gives every key its node, its cache too, and moves no key that a change *)
(* does not concern: for any nodes, weights, keys and hashes.  When a      *)
(* member of the cluster goes, no other one loses its copy of a shard.     *)
(***************************************************************************)
EXTENDS Sharding, Membership, FunctionTheorems, SequenceTheorems,
        FiniteSetTheorems, WellFoundedInduction, TLAPS

\* A call and the place it has reached.
Creating == [pc : {"create"}]
OnPoint == [pc : {"upsert", "delete", "forward"}, point : Point]
Counting == [pc : {"count"}, point : Point, delta : {1, -1}]
Searching == [pc : {"search"}, local : SUBSET Shard]
Answering == [pc : {"answer"}, local : SUBSET Shard, remote : SUBSET Shard]
Migrating == [pc : {"copy", "map", "cleanup"}, shard : Shard, to : Node]

Call == {Idle} \cup Creating \cup OnPoint \cup Counting \cup Searching
            \cup Answering \cup Migrating

TypeOK ==
    /\ DOMAIN shard_map \in {{}, Shard}
    /\ shard_map \in [DOMAIN shard_map -> ShardInfo]
    /\ DOMAIN local_shards \in SUBSET DOMAIN shard_map
    /\ local_shards \in [DOMAIN local_shards -> Nat]
    /\ stored \in SUBSET Point /\ IsFiniteSet(stored)
    /\ task \in [Task -> Call]
    /\ forgotten \in SUBSET Shard /\ stranded \in SUBSET Shard

\* The count of a shard, the upserts still to be counted included, covers the
\* points stored and the deletions still to be counted.
CountsHold ==
    \A s \in DOMAIN local_shards \ forgotten :
        Cardinality(StoredIn(s)) + Cardinality(Uncounted(s, -1))
            <= local_shards[s] + Cardinality(Uncounted(s, 1))

\* The map does not name this node as the primary of s, unless s is stranded.
Moved(s) == s \in DOMAIN shard_map \ stranded => shard_map[s].primary # Me

\* A migration removes the shard here when the map no longer names this node.
MigrationsLeave == \A t \in Task : At(t, "cleanup") => Moved(task[t].shard)

\* What a search has seen is still so, since it keeps the locks.
SearchesSeeAll ==
    \A t \in Task :
        /\ At(t, "search") \/ At(t, "answer") => task[t].local = DOMAIN local_shards
        /\ At(t, "answer") => task[t].remote = DOMAIN shard_map \ DOMAIN local_shards

Inv == TypeOK /\ CountsHold /\ MigrationsLeave /\ SearchesSeeAll /\ PrimaryIsServed

-----------------------------------------------------------------------------
(* What holds of every step.                                               *)

\* What a call is follows from its place.
LEMMA CallParts ==
    ASSUME NEW c \in Call
    PROVE  /\ c.pc = "count" <=> c \in Counting
           /\ c.pc \in {"upsert", "delete", "forward"} <=> c \in OnPoint
           /\ c.pc \in {"copy", "map", "cleanup"} <=> c \in Migrating
           /\ c.pc = "search" <=> c \in Searching
           /\ c.pc = "answer" <=> c \in Answering
BY DEF Call, Idle, Creating, OnPoint, Counting, Searching, Answering, Migrating

LEMMA IdleIsCall ==
    /\ Idle \in Call /\ Idle.pc = "idle" /\ Idle \notin Migrating
<1>1. Idle \in Call /\ Idle.pc = "idle"
      BY DEF Call, Idle
<1> QED BY <1>1, CallParts

\* A step of task t that creates no local shards and removes none, and leaves the
\* map alone.
LEMMA CallStep ==
    ASSUME Inv, NEW t \in Task, NEW r \in Call, task' = [task EXCEPT ![t] = r],
           UNCHANGED <<shard_map, stranded>>, DOMAIN local_shards' = DOMAIN local_shards,
           ~ At(t, "create"), r.pc # "cleanup",
           r.pc = "search" => r.local = DOMAIN local_shards,
           r.pc = "answer" => /\ r.local = DOMAIN local_shards
                              /\ r.remote = DOMAIN shard_map \ DOMAIN local_shards
    PROVE  MigrationsLeave' /\ SearchesSeeAll' /\ PrimaryIsServed'
<1>1. task'[t] = r /\ \A u \in Task : u # t => task'[u] = task[u]
      BY DEF Inv, TypeOK
<1>2. MigrationsLeave'
      <2> SUFFICES ASSUME NEW u \in Task
                   PROVE  At(u, "cleanup")' => Moved(task[u].shard)'
          BY DEF MigrationsLeave
      <2>1. CASE u = t
            BY <1>1, <2>1 DEF At
      <2>2. CASE u # t
            BY <1>1, <2>2 DEF At, Inv, MigrationsLeave, Moved
      <2> QED BY <2>1, <2>2
<1>3. SearchesSeeAll'
      <2> SUFFICES ASSUME NEW u \in Task
                   PROVE  /\ At(u, "search")' \/ At(u, "answer")' =>
                                task'[u].local = DOMAIN local_shards'
                          /\ At(u, "answer")' => task'[u].remote
                                = DOMAIN shard_map' \ DOMAIN local_shards'
          BY DEF SearchesSeeAll
      <2>1. CASE u = t
            BY <1>1, <2>1 DEF At
      <2>2. CASE u # t
            BY <1>1, <2>2 DEF At, Inv, SearchesSeeAll
      <2> QED BY <2>1, <2>2
<1>4. PrimaryIsServed'
      <2>1. (\A u \in Task : ~ At(u, "create")') => \A u \in Task : ~ At(u, "create")
            BY <1>1 DEF At
      <2> QED BY <2>1 DEF Inv, PrimaryIsServed
<1> QED BY <1>2, <1>3, <1>4

-----------------------------------------------------------------------------
(* The counts.                                                             *)

\* Call c is about to count delta in shard s.
Counts(c, s, delta) == c.pc = "count" /\ c.delta = delta /\ ShardOf(c.point) = s

\* The calls about to count are some of the finitely many.
LEMMA UncountedFinite ==
    ASSUME ShardingAssumption, NEW s, NEW delta
    PROVE  IsFiniteSet(Uncounted(s, delta)) /\ Cardinality(Uncounted(s, delta)) \in Nat
<1>1. IsFiniteSet(Task) /\ Uncounted(s, delta) \subseteq Task
      BY DEF Uncounted, ShardingAssumption
<1> QED BY ONLY <1>1, FS_Subset, FS_CardinalityType

\* They are those whose call is one, in this state and in the next.
LEMMA UncountedMembers ==
    ASSUME NEW s, NEW delta
    PROVE  /\ Uncounted(s, delta) = {u \in Task : Counts(task[u], s, delta)}
           /\ Uncounted(s, delta)' = {u \in Task : Counts(task'[u], s, delta)}
BY DEF Uncounted, At, Counts

\* Nothing is counted before or after.
LEMMA UncountedSame ==
    ASSUME NEW s, NEW delta,
           \A u \in Task : Counts(task'[u], s, delta) <=> Counts(task[u], s, delta)
    PROVE  Uncounted(s, delta)' = Uncounted(s, delta)
<1>1. {u \in Task : Counts(task'[u], s, delta)} = {u \in Task : Counts(task[u], s, delta)}
      OBVIOUS
<1> QED BY ONLY <1>1, UncountedMembers

\* A call that now is about to count.
LEMMA UncountedMore ==
    ASSUME ShardingAssumption, NEW t \in Task, NEW s, NEW delta,
           \A u \in Task : u # t => (Counts(task'[u], s, delta) <=> Counts(task[u], s, delta)),
           ~ Counts(task[t], s, delta), Counts(task'[t], s, delta)
    PROVE  Cardinality(Uncounted(s, delta)') = Cardinality(Uncounted(s, delta)) + 1
<1> DEFINE U == {u \in Task : Counts(task[u], s, delta)}
           V == {u \in Task : Counts(task'[u], s, delta)}
<1>1. Uncounted(s, delta) = U /\ Uncounted(s, delta)' = V
      BY UncountedMembers
<1>2. V = U \cup {t} /\ t \notin U
      OBVIOUS
<1>3. IsFiniteSet(U)
      BY <1>1, UncountedFinite
<1> HIDE DEF U, V
<1> QED BY ONLY <1>1, <1>2, <1>3, FS_AddElement

\* A call that has counted.
LEMMA UncountedFewer ==
    ASSUME ShardingAssumption, NEW t \in Task, NEW s, NEW delta,
           \A u \in Task : u # t => (Counts(task'[u], s, delta) <=> Counts(task[u], s, delta)),
           Counts(task[t], s, delta), ~ Counts(task'[t], s, delta)
    PROVE  Cardinality(Uncounted(s, delta)') = Cardinality(Uncounted(s, delta)) - 1
<1> DEFINE U == {u \in Task : Counts(task[u], s, delta)}
           V == {u \in Task : Counts(task'[u], s, delta)}
<1>1. Uncounted(s, delta) = U /\ Uncounted(s, delta)' = V
      BY UncountedMembers
<1>2. V = U \ {t} /\ t \in U
      OBVIOUS
<1>3. IsFiniteSet(U)
      BY <1>1, UncountedFinite
<1> HIDE DEF U, V
<1> QED BY ONLY <1>1, <1>2, <1>3, FS_RemoveElement

\* Shards whose points, count and calls about to count do not change keep the
\* balance.
LEMMA CountsStay ==
    ASSUME CountsHold,
           \A s \in DOMAIN local_shards' \ forgotten' :
              /\ s \in DOMAIN local_shards \ forgotten
              /\ local_shards'[s] = local_shards[s]
              /\ StoredIn(s)' = StoredIn(s)
              /\ Uncounted(s, 1)' = Uncounted(s, 1)
              /\ Uncounted(s, -1)' = Uncounted(s, -1)
    PROVE  CountsHold'
BY DEF CountsHold

\* The points of a shard, when one is stored or deleted.
LEMMA StoredStep ==
    ASSUME TypeOK, NEW s, NEW p \in Point
    PROVE  /\ IsFiniteSet(StoredIn(s)) /\ Cardinality(StoredIn(s)) \in Nat
           /\ stored' = stored \cup {p} /\ ShardOf(p) # s => StoredIn(s)' = StoredIn(s)
           /\ stored' = stored \ {p} /\ ShardOf(p) # s => StoredIn(s)' = StoredIn(s)
           /\ stored' = stored \cup {p} =>
                 Cardinality(StoredIn(s)') <= Cardinality(StoredIn(s)) + 1
           /\ stored' = stored \ {p} /\ p \notin stored => StoredIn(s)' = StoredIn(s)
           /\ stored' = stored \ {p} /\ p \in stored /\ ShardOf(p) = s =>
                 Cardinality(StoredIn(s)') = Cardinality(StoredIn(s)) - 1
<1> DEFINE S == {q \in stored : ShardOf(q) = s}
           T == {q \in stored' : ShardOf(q) = s}
<1>1. StoredIn(s) = S /\ StoredIn(s)' = T
      BY DEF StoredIn
<1>2. IsFiniteSet(S) /\ Cardinality(S) \in Nat
      BY FS_Subset, FS_CardinalityType DEF TypeOK
<1>3. /\ stored' = stored \cup {p} /\ ShardOf(p) # s => T = S
      /\ stored' = stored \ {p} /\ ShardOf(p) # s => T = S
      /\ stored' = stored \cup {p} => T = S \/ T = S \cup {p}
      /\ stored' = stored \ {p} /\ p \notin stored => T = S
      /\ stored' = stored \ {p} /\ p \in stored /\ ShardOf(p) = s => T = S \ {p} /\ p \in S
      OBVIOUS
<1> HIDE DEF S, T
<1>4. /\ Cardinality(S \cup {p}) <= Cardinality(S) + 1
      /\ p \in S => Cardinality(S \ {p}) = Cardinality(S) - 1
      <2>1. Cardinality(S \cup {p}) = IF p \in S THEN Cardinality(S) ELSE Cardinality(S) + 1
            BY <1>2, FS_AddElement
      <2>2. Cardinality(S \ {p}) = IF p \in S THEN Cardinality(S) - 1 ELSE Cardinality(S)
            BY <1>2, FS_RemoveElement
      <2> QED BY <1>2, <2>1, <2>2
<1>5. /\ IsFiniteSet(StoredIn(s)) /\ Cardinality(StoredIn(s)) \in Nat
      /\ stored' = stored \cup {p} /\ ShardOf(p) # s => StoredIn(s)' = StoredIn(s)
      /\ stored' = stored \ {p} /\ ShardOf(p) # s => StoredIn(s)' = StoredIn(s)
      /\ stored' = stored \ {p} /\ p \notin stored => StoredIn(s)' = StoredIn(s)
      BY <1>1, <1>2, <1>3
<1>6. stored' = stored \cup {p} => Cardinality(StoredIn(s)') <= Cardinality(StoredIn(s)) + 1
      <2>1. Cardinality(S) <= Cardinality(S) + 1
            BY <1>2
      <2> QED BY <1>1, <1>3, <1>4, <2>1
<1>7. stored' = stored \ {p} /\ p \in stored /\ ShardOf(p) = s =>
         Cardinality(StoredIn(s)') = Cardinality(StoredIn(s)) - 1
      BY <1>1, <1>3, <1>4
<1> QED BY <1>5, <1>6, <1>7

-----------------------------------------------------------------------------
(* The steps.                                                              *)

\* A step of a call that changes nothing else and counts nothing.
LEMMA QuietStep ==
    ASSUME ShardingAssumption, Inv, NEW t \in Task, NEW r \in Call,
           task' = [task EXCEPT ![t] = r],
           UNCHANGED <<shard_map, local_shards, stored, forgotten, stranded>>,
           ~ At(t, "count"), ~ At(t, "create"), r.pc # "count", r.pc # "cleanup",
           r.pc = "search" => r.local = DOMAIN local_shards,
           r.pc = "answer" => /\ r.local = DOMAIN local_shards
                              /\ r.remote = DOMAIN shard_map \ DOMAIN local_shards
    PROVE  Inv'
<1>1. MigrationsLeave' /\ SearchesSeeAll' /\ PrimaryIsServed'
      BY CallStep
<1>2. TypeOK'
      BY DEF Inv, TypeOK
<1>3. \A s, delta : ~ Counts(task[t], s, delta) /\ ~ Counts(r, s, delta)
      BY DEF Counts, At
<1>4. CountsHold'
      <2> SUFFICES ASSUME NEW s \in DOMAIN local_shards' \ forgotten'
                   PROVE  /\ s \in DOMAIN local_shards \ forgotten
                          /\ local_shards'[s] = local_shards[s]
                          /\ StoredIn(s)' = StoredIn(s)
                          /\ Uncounted(s, 1)' = Uncounted(s, 1)
                          /\ Uncounted(s, -1)' = Uncounted(s, -1)
          BY CountsStay DEF Inv
      <2>1. StoredIn(s)' = StoredIn(s)
            BY DEF StoredIn
      <2>2. \A delta : Uncounted(s, delta)' = Uncounted(s, delta)
            <3> TAKE delta
            <3>1. \A u \in Task : Counts(task'[u], s, delta) <=> Counts(task[u], s, delta)
                  <4>1. task'[t] = r /\ \A u \in Task : u # t => task'[u] = task[u]
                        BY DEF Inv, TypeOK
                  <4> QED BY ONLY <1>3, <4>1
            <3> QED BY ONLY <3>1, UncountedSame
      <2> QED BY <2>1, <2>2
<1> QED BY <1>1, <1>2, <1>4 DEF Inv

\* Requests and what is forwarded; what a search sees; the start of a
\* migration and its copy; an error of the storage.
LEMMA CallsGoOn ==
    ASSUME ShardingAssumption, Inv, NEW t \in Task,
           \/ \E p \in Point, op \in {"upsert", "delete"} : Request(t, op, p)
           \/ Forward(t) \/ SearchLocal(t) \/ SearchRemote(t) \/ SearchReturns(t)
           \/ \E s \in Shard, n \in Node : MigrateShard(t, s, n)
           \/ CopyShard(t)
    PROVE  Inv'
<1>1. /\ task \in [Task -> Call] /\ DOMAIN local_shards \in SUBSET Shard
      /\ DOMAIN shard_map \in SUBSET Shard
      BY DEF Inv, TypeOK
<1>2. /\ UNCHANGED <<shard_map, local_shards, stored, forgotten, stranded>>
      /\ ~ At(t, "count") /\ ~ At(t, "create")
      BY DEF Request, Forward, SearchLocal, SearchRemote, SearchReturns, MigrateShard,
             CopyShard, At
<1>3. ASSUME Goto(t, Idle) PROVE Inv'
      BY <1>2, <1>3, IdleIsCall, QuietStep DEF Goto
<1>4. ASSUME NEW p \in Point, NEW op \in {"upsert", "delete"}, Request(t, op, p) PROVE Inv'
      <2>1. PICK pc \in {"upsert", "delete", "forward"} :
                    task' = [task EXCEPT ![t] = [pc |-> pc, point |-> p]]
            BY <1>4 DEF Request, Goto
      <2> DEFINE r == [pc |-> pc, point |-> p]
      <2>2. r \in OnPoint /\ r \in Call /\ r.pc = pc
            BY DEF OnPoint, Call
      <2> HIDE DEF r
      <2>3. r \notin Migrating
            BY <2>2, CallParts
      <2> QED BY <1>2, <2>1, <2>2, <2>3, QuietStep DEF r
<1>5. CASE Forward(t)
      BY <1>3, <1>5 DEF Forward
<1>6. CASE SearchLocal(t)
      <2> DEFINE r == [pc |-> "search", local |-> DOMAIN local_shards]
      <2>1. task' = [task EXCEPT ![t] = r]
            BY <1>6 DEF SearchLocal, Goto
      <2>2. r \in Searching /\ r \in Call /\ r.pc = "search" /\ r.local = DOMAIN local_shards
            BY <1>1 DEF Searching, Call
      <2> HIDE DEF r
      <2>3. r \notin Migrating
            BY <2>2, CallParts
      <2> QED BY <1>2, <2>1, <2>2, <2>3, QuietStep
<1>7. CASE SearchRemote(t)
      <2> DEFINE r == [pc |-> "answer", local |-> task[t].local,
                       remote |-> DOMAIN shard_map \ DOMAIN local_shards]
      <2>1. task' = [task EXCEPT ![t] = r] /\ At(t, "search")
            BY <1>7 DEF SearchRemote, Goto
      <2>2. task[t].local = DOMAIN local_shards
            BY <2>1 DEF Inv, SearchesSeeAll
      <2>3. /\ r \in Answering /\ r \in Call /\ r.pc = "answer"
            /\ r.local = DOMAIN local_shards
            /\ r.remote = DOMAIN shard_map \ DOMAIN local_shards
            BY <1>1, <2>2 DEF Answering, Call
      <2> HIDE DEF r
      <2>4. r \notin Migrating
            BY <2>3, CallParts
      <2> QED BY <1>2, <2>1, <2>3, <2>4, QuietStep
<1>8. CASE SearchReturns(t)
      BY <1>3, <1>8 DEF SearchReturns
<1>9. ASSUME NEW s \in Shard, NEW n \in Node, MigrateShard(t, s, n) PROVE Inv'
      <2> DEFINE r == [pc |-> "copy", shard |-> s, to |-> n]
      <2>1. task' = [task EXCEPT ![t] = r]
            BY <1>9 DEF MigrateShard, Goto
      <2>2. r \in Migrating /\ r \in Call /\ r.pc = "copy"
            BY DEF Migrating, Call
      <2> HIDE DEF r
      <2> QED BY <1>2, <2>1, <2>2, QuietStep
<1>10. CASE CopyShard(t)
      <2>1. CASE Goto(t, Idle)
            BY <1>3, <2>1
      <2>2. CASE Goto(t, [task[t] EXCEPT !.pc = "map"])
            <3> DEFINE r == [task[t] EXCEPT !.pc = "map"]
            <3>1. task' = [task EXCEPT ![t] = r]
                  BY <2>2 DEF Goto
            <3>2. task[t] \in Migrating
                  BY <1>1, <1>10, CallParts DEF CopyShard, At
            <3>3. r \in Migrating /\ r \in Call /\ r.pc = "map"
                  BY <3>2 DEF Migrating, Call
            <3> HIDE DEF r
            <3> QED BY <1>2, <3>1, <3>2, <3>3, QuietStep
      <2> QED BY <1>10, <2>1, <2>2 DEF CopyShard
<1> QED BY <1>4, <1>5, <1>6, <1>7, <1>8, <1>9, <1>10

\* Storing or deleting, which is counted later.
LEMMA StorageKeeps ==
    ASSUME ShardingAssumption, Inv, NEW t \in Task, StoreVector(t) \/ DeleteVector(t)
    PROVE  Inv'
<1> DEFINE p == task[t].point
<1>1. task \in [Task -> Call] /\ stored \in SUBSET Point /\ IsFiniteSet(stored)
      /\ ShardingAssumption /\ TypeOK
      BY DEF Inv, TypeOK
<1>2. /\ UNCHANGED <<shard_map, local_shards, forgotten, stranded>>
      /\ ~ At(t, "count") /\ ~ At(t, "create")
      BY DEF StoreVector, DeleteVector, At
<1>3. p \in Point
      <2>1. task[t] \in OnPoint
            BY <1>1, CallParts DEF StoreVector, DeleteVector, At
      <2> QED BY <2>1 DEF OnPoint
<1>4. CASE Goto(t, Idle) /\ UNCHANGED stored
      BY <1>2, <1>4, IdleIsCall, QuietStep DEF Goto
<1>5. ASSUME NEW delta \in {1, -1}, CountFor(t, p, delta),
             \/ delta = 1 /\ stored' = stored \cup {p}
             \/ delta = -1 /\ stored' = stored \ {p} /\ p \in stored
      PROVE  Inv'
      <2> DEFINE r == [pc |-> "count", point |-> p, delta |-> delta]
      <2>1. task' = [task EXCEPT ![t] = r]
            BY <1>5 DEF CountFor, Goto
      <2>2. r \in Counting /\ r \in Call /\ r.pc = "count" /\ r.point = p /\ r.delta = delta
            BY <1>3 DEF Counting, Call
      <2> HIDE DEF r, p
      <2>3. r \notin Migrating
            BY <2>2, CallParts
      <2>4. MigrationsLeave' /\ SearchesSeeAll' /\ PrimaryIsServed'
            BY <1>2, <2>1, <2>2, <2>3, CallStep
      <2>5. stored' \in SUBSET Point /\ IsFiniteSet(stored')
            BY <1>1, <1>3, <1>5, FS_AddElement, FS_RemoveElement
      <2>6. TypeOK'
            BY <1>1, <1>2, <2>1, <2>2, <2>5 DEF TypeOK
      <2>7. task'[t] = r /\ \A u \in Task : u # t => task'[u] = task[u]
            BY <1>1, <2>1 DEF TypeOK
      <2>8. CountsHold'
            <3> SUFFICES ASSUME NEW s \in DOMAIN local_shards, s \notin forgotten
                         PROVE  Cardinality(StoredIn(s)') + Cardinality(Uncounted(s, -1)')
                                   <= local_shards[s] + Cardinality(Uncounted(s, 1)')
                BY <1>2 DEF CountsHold
            <3>1. /\ Cardinality(StoredIn(s)) + Cardinality(Uncounted(s, -1))
                        <= local_shards[s] + Cardinality(Uncounted(s, 1))
                  /\ local_shards[s] \in Nat
                  BY DEF Inv, CountsHold, TypeOK
            <3>2. \A d : /\ ~ Counts(task[t], s, d)
                         /\ Counts(r, s, d) <=> d = delta /\ ShardOf(p) = s
                  BY <1>2, <2>2 DEF Counts, At
            <3>3. /\ Cardinality(Uncounted(s, 1)) \in Nat
                  /\ Cardinality(Uncounted(s, -1)) \in Nat
                  /\ Cardinality(StoredIn(s)) \in Nat
                  BY <1>1, <1>3, UncountedFinite, StoredStep
            <3>4. ASSUME NEW d, ~ Counts(r, s, d)
                  PROVE  Uncounted(s, d)' = Uncounted(s, d)
                  <4>1. \A u \in Task : Counts(task'[u], s, d) <=> Counts(task[u], s, d)
                        BY ONLY <2>7, <3>2, <3>4
                  <4> QED BY ONLY <4>1, UncountedSame
            <3>5. ASSUME ShardOf(p) = s
                  PROVE  Cardinality(Uncounted(s, delta)')
                            = Cardinality(Uncounted(s, delta)) + 1
                  <4>1. /\ ~ Counts(task[t], s, delta) /\ Counts(task'[t], s, delta)
                        /\ \A u \in Task : u # t =>
                              (Counts(task'[u], s, delta) <=> Counts(task[u], s, delta))
                        BY ONLY <2>7, <3>2, <3>5
                  <4> QED BY ONLY <1>1, <4>1, UncountedMore
            <3>6. CASE ShardOf(p) # s
                  <4>1. Uncounted(s, 1)' = Uncounted(s, 1)
                        <5>1. ~ Counts(r, s, 1)
                              BY <3>2, <3>6
                        <5> QED BY <3>4, <5>1
                  <4>2. Uncounted(s, -1)' = Uncounted(s, -1)
                        <5>1. ~ Counts(r, s, -1)
                              BY <3>2, <3>6
                        <5> QED BY <3>4, <5>1
                  <4>3. StoredIn(s)' = StoredIn(s)
                        BY <1>1, <1>3, <1>5, <3>6, StoredStep
                  <4> QED BY <3>1, <4>1, <4>2, <4>3
            <3>7. CASE ShardOf(p) = s /\ delta = 1
                  <4>1. Cardinality(Uncounted(s, 1)') = Cardinality(Uncounted(s, 1)) + 1
                        BY <3>5, <3>7
                  <4>2. Uncounted(s, -1)' = Uncounted(s, -1)
                        <5>1. ~ Counts(r, s, -1)
                              BY <3>2, <3>7
                        <5> QED BY <3>4, <5>1
                  <4>3. stored' = stored \cup {p}
                        BY <1>5, <3>7
                  <4>4. Cardinality(StoredIn(s)') <= Cardinality(StoredIn(s)) + 1
                        BY <1>1, <1>3, <4>3, StoredStep
                  <4>5. Cardinality(StoredIn(s)') \in Nat
                        <5>1. StoredIn(s)' \in SUBSET stored'
                              BY DEF StoredIn
                        <5> QED BY <2>5, <5>1, FS_Subset, FS_CardinalityType
                  <4> QED BY <3>1, <3>3, <4>1, <4>2, <4>4, <4>5
            <3>8. CASE ShardOf(p) = s /\ delta = -1
                  <4>1. Cardinality(Uncounted(s, -1)') = Cardinality(Uncounted(s, -1)) + 1
                        BY <3>5, <3>8
                  <4>2. Uncounted(s, 1)' = Uncounted(s, 1)
                        <5>1. ~ Counts(r, s, 1)
                              BY <3>2, <3>8
                        <5> QED BY <3>4, <5>1
                  <4>3. stored' = stored \ {p} /\ p \in stored
                        BY <1>5, <3>8
                  <4>4. Cardinality(StoredIn(s)') = Cardinality(StoredIn(s)) - 1
                        BY <1>1, <1>3, <3>8, <4>3, StoredStep
                  <4> QED BY <3>1, <3>3, <4>1, <4>2, <4>4
            <3> QED BY <1>5, <3>6, <3>7, <3>8
      <2> QED BY <2>4, <2>6, <2>8 DEF Inv
<1>6. CASE StoreVector(t)
      <2>1. \/ CountFor(t, p, 1) /\ stored' = stored \cup {p}
            \/ Goto(t, Idle) /\ UNCHANGED stored
            BY <1>6 DEF StoreVector
      <2> QED BY <1>4, <1>5, <2>1
<1>7. CASE DeleteVector(t)
      <2>1. CASE p \in stored /\ CountFor(t, p, -1) /\ stored' = stored \ {p}
            BY <1>5, <2>1
      <2>2. CASE p \notin stored /\ Goto(t, Idle) /\ stored' = stored \ {p}
            <3>1. stored' = stored
                  BY <2>2
            <3> QED BY <1>4, <2>2, <3>1
      <2> QED BY <1>4, <1>7, <2>1, <2>2 DEF DeleteVector
<1> QED BY <1>6, <1>7

\* A call about to count does so, unless the shard has left.
LEMMA StatsKeep ==
    ASSUME ShardingAssumption, Inv, NEW t \in Task, UpdateShardStats(t)
    PROVE  Inv'
<1> DEFINE p == task[t].point
           delta == task[t].delta
           z == ShardOf(task[t].point)
<1>1. ShardingAssumption /\ TypeOK /\ task' = [task EXCEPT ![t] = Idle] /\ Idle \in Call
      BY IdleIsCall DEF Inv, UpdateShardStats, Goto
<1>2. /\ UNCHANGED <<shard_map, stored, forgotten, stranded>>
      /\ At(t, "count") /\ ~ At(t, "create")
      BY DEF UpdateShardStats, At
<1>3. delta \in {1, -1}
      <2>1. task[t] \in Counting
            BY <1>1, <1>2, CallParts DEF At, TypeOK
      <2> QED BY <2>1 DEF Counting
<1>4. local_shards' = IF z \in DOMAIN local_shards
                      THEN [local_shards EXCEPT ![z] = LET c == @ + delta
                                                       IN  IF c < 0 THEN 0 ELSE c]
                      ELSE local_shards
      BY DEF UpdateShardStats
<1>5. \A s, d : /\ Counts(task[t], s, d) <=> d = delta /\ s = z
                /\ ~ Counts(Idle, s, d)
      BY <1>2, IdleIsCall DEF Counts, At
<1> HIDE DEF p, delta, z
<1>6. DOMAIN local_shards' = DOMAIN local_shards
      BY <1>4
<1>7. MigrationsLeave' /\ SearchesSeeAll' /\ PrimaryIsServed'
      BY <1>1, <1>2, <1>6, IdleIsCall, CallStep
<1>8. \A s \in DOMAIN local_shards :
         /\ local_shards[s] \in Nat
         /\ s # z => local_shards'[s] = local_shards[s]
         /\ s = z => local_shards'[s] = IF local_shards[s] + delta < 0 THEN 0
                                        ELSE local_shards[s] + delta
      BY <1>1, <1>4 DEF TypeOK
<1>9. TypeOK'
      <2>1. local_shards' \in [DOMAIN local_shards' -> Nat]
            <3>1. \A s \in DOMAIN local_shards : local_shards'[s] \in Nat
                  BY <1>3, <1>8
            <3>2. local_shards' = [s \in DOMAIN local_shards' |-> local_shards'[s]]
                  BY <1>1, <1>4 DEF TypeOK
            <3> QED BY <1>6, <3>1, <3>2
      <2>2. task' \in [Task -> Call]
            BY <1>1 DEF TypeOK
      <2> QED BY <1>1, <1>2, <1>6, <2>1, <2>2 DEF TypeOK
<1>10. task'[t] = Idle /\ \A u \in Task : u # t => task'[u] = task[u]
      BY <1>1 DEF TypeOK
<1>11. CountsHold'
      <2> SUFFICES ASSUME NEW s \in DOMAIN local_shards, s \notin forgotten
                   PROVE  Cardinality(StoredIn(s)') + Cardinality(Uncounted(s, -1)')
                             <= local_shards'[s] + Cardinality(Uncounted(s, 1)')
          BY <1>2, <1>6 DEF CountsHold
      <2>1. /\ Cardinality(StoredIn(s)) + Cardinality(Uncounted(s, -1))
                  <= local_shards[s] + Cardinality(Uncounted(s, 1))
            /\ local_shards[s] \in Nat
            BY DEF Inv, CountsHold, TypeOK
      <2>2. StoredIn(s)' = StoredIn(s)
            BY <1>2 DEF StoredIn
      <2>3. \A d : Cardinality(Uncounted(s, d)) \in Nat
            <3> TAKE d
            <3> QED BY ONLY <1>1, UncountedFinite
      <2>4. Cardinality(StoredIn(s)) \in Nat
            <3>1. StoredIn(s) \in SUBSET stored
                  BY DEF StoredIn
            <3> QED BY <1>1, <3>1, FS_Subset, FS_CardinalityType DEF TypeOK
      <2>5. ASSUME NEW d, ~ Counts(task[t], s, d)
            PROVE  Uncounted(s, d)' = Uncounted(s, d)
            <3>1. \A u \in Task : Counts(task'[u], s, d) <=> Counts(task[u], s, d)
                  BY ONLY <1>5, <1>10, <2>5
            <3> QED BY ONLY <3>1, UncountedSame
      <2>6. ASSUME NEW d, Counts(task[t], s, d)
            PROVE  Cardinality(Uncounted(s, d)') = Cardinality(Uncounted(s, d)) - 1
            <3>1. /\ ~ Counts(task'[t], s, d)
                  /\ \A u \in Task : u # t =>
                        (Counts(task'[u], s, d) <=> Counts(task[u], s, d))
                  BY ONLY <1>5, <1>10, <2>6
            <3> QED BY ONLY <1>1, <2>6, <3>1, UncountedFewer
      <2>7. CASE s # z
            <3>1. ~ Counts(task[t], s, 1) /\ ~ Counts(task[t], s, -1)
                  BY <1>5, <2>7
            <3>2. Uncounted(s, 1)' = Uncounted(s, 1)
                  BY <2>5, <3>1
            <3>3. Uncounted(s, -1)' = Uncounted(s, -1)
                  BY <2>5, <3>1
            <3> QED BY <1>8, <2>1, <2>2, <2>7, <3>2, <3>3
      <2>8. CASE s = z /\ delta = 1
            <3>1. Counts(task[t], s, 1) /\ ~ Counts(task[t], s, -1)
                  BY <1>5, <2>8
            <3>2. Cardinality(Uncounted(s, 1)') = Cardinality(Uncounted(s, 1)) - 1
                  BY <2>6, <3>1
            <3>3. Uncounted(s, -1)' = Uncounted(s, -1)
                  BY <2>5, <3>1
            <3>4. local_shards'[s] = local_shards[s] + 1
                  BY <1>8, <2>8
            <3> QED BY <2>1, <2>2, <2>3, <2>4, <3>2, <3>3, <3>4
      <2>9. CASE s = z /\ delta = -1
            <3>1. ~ Counts(task[t], s, 1) /\ Counts(task[t], s, -1)
                  BY <1>5, <2>9
            <3>2. Cardinality(Uncounted(s, -1)') = Cardinality(Uncounted(s, -1)) - 1
                  BY <2>6, <3>1
            <3>3. Uncounted(s, 1)' = Uncounted(s, 1)
                  BY <2>5, <3>1
            <3>4. local_shards'[s] >= local_shards[s] - 1 /\ local_shards'[s] \in Nat
                  BY <1>8, <2>9
            <3> QED BY <2>1, <2>2, <2>3, <2>4, <3>2, <3>3, <3>4
      <2> QED BY <1>3, <2>7, <2>8, <2>9
<1> QED BY <1>7, <1>9, <1>11 DEF Inv

\* The nodes given to a shard are nodes of the cluster.
LEMMA AssignedIsInfo ==
    ASSUME ShardingAssumption, NEW s \in Shard
    PROVE  Assigned(s) \in ShardInfo
<1> DEFINE at(i) == Cluster[((s + i) % Len(Cluster)) + 1]
<1>1. /\ Len(Cluster) \in Nat /\ Len(Cluster) > 0 /\ ReplicationFactor \in Nat
      /\ Cluster \in Seq(Node) /\ s \in Nat
      BY DEF ShardingAssumption, Shard
<1>2. ASSUME NEW i \in Nat PROVE at(i) \in Node
      <2>1. (s + i) % Len(Cluster) \in 0..Len(Cluster) - 1
            BY <1>1
      <2>2. ((s + i) % Len(Cluster)) + 1 \in 1..Len(Cluster)
            BY <1>1, <2>1
      <2> QED BY <1>1, <2>2
<1>3. 1..ReplicationFactor \in SUBSET Nat /\ 0 \in Nat
      BY <1>1
<1> HIDE DEF at
<1>4. at(0) \in Node /\ {at(i) : i \in 1..ReplicationFactor} \ {at(0)} \in SUBSET Node
      BY <1>2, <1>3
<1>5. [primary |-> at(0), replicas |-> {at(i) : i \in 1..ReplicationFactor} \ {at(0)}]
         \in ShardInfo
      BY <1>4 DEF ShardInfo
<1> QED BY <1>5 DEF Assigned, at

\* A map that is initialised again; the shards of migrations that are nearly over
\* are set apart.
LEMMA MapInitialised ==
    ASSUME ShardingAssumption, Inv, NEW t \in Task, InitializeShards(t)
    PROVE  Inv'
<1> DEFINE r == [pc |-> "create"]
<1>1. ShardingAssumption /\ TypeOK /\ task' = [task EXCEPT ![t] = r]
      BY DEF Inv, InitializeShards, Goto
<1>2. r \in Call /\ r.pc = "create"
      BY DEF Call, Creating
<1> HIDE DEF r
<1>3. r \notin Migrating /\ r \notin Counting
      BY <1>2, CallParts
<1>4. /\ UNCHANGED <<local_shards, stored, forgotten>>
      /\ At(t, "idle") /\ \A u \in Task : ~ At(u, "answer")
      /\ shard_map' = [s \in Shard |-> Assigned(s)]
      /\ stranded' = stranded \cup {task[u].shard : u \in {x \in Task : At(x, "cleanup")}}
      BY DEF InitializeShards, ShardMapWritable
<1>5. task'[t] = r /\ \A u \in Task : u # t => task'[u] = task[u]
      BY <1>1 DEF TypeOK
<1>6. TypeOK'
      <2>1. shard_map' \in [Shard -> ShardInfo] /\ DOMAIN shard_map' = Shard
            BY <1>1, <1>4, AssignedIsInfo
      <2>2. DOMAIN local_shards' \in SUBSET Shard
            BY <1>1, <1>4 DEF TypeOK
      <2>3. stranded' \in SUBSET Shard
            <3>1. \A u \in Task : At(u, "cleanup") => task[u].shard \in Shard
                  <4> SUFFICES ASSUME NEW u \in Task, At(u, "cleanup")
                               PROVE  task[u].shard \in Shard
                      OBVIOUS
                  <4>1. task[u] \in Migrating
                        BY <1>1, CallParts DEF At, TypeOK
                  <4> QED BY <4>1 DEF Migrating
            <3> QED BY <1>1, <1>4, <3>1 DEF TypeOK
      <2> QED BY <1>1, <1>2, <1>4, <2>1, <2>2, <2>3 DEF TypeOK
<1>7. CountsHold'
      <2> SUFFICES ASSUME NEW s \in DOMAIN local_shards' \ forgotten'
                   PROVE  /\ s \in DOMAIN local_shards \ forgotten
                          /\ local_shards'[s] = local_shards[s]
                          /\ StoredIn(s)' = StoredIn(s)
                          /\ Uncounted(s, 1)' = Uncounted(s, 1)
                          /\ Uncounted(s, -1)' = Uncounted(s, -1)
          BY CountsStay DEF Inv
      <2>1. StoredIn(s)' = StoredIn(s)
            BY <1>4 DEF StoredIn
      <2>2. ASSUME NEW d PROVE Uncounted(s, d)' = Uncounted(s, d)
            <3>1. ~ Counts(task[t], s, d) /\ ~ Counts(r, s, d)
                  BY <1>2, <1>4 DEF Counts, At
            <3>2. \A u \in Task : Counts(task'[u], s, d) <=> Counts(task[u], s, d)
                  BY ONLY <1>5, <3>1
            <3> QED BY ONLY <3>2, UncountedSame
      <2> QED BY <1>4, <2>1, <2>2
<1>8. MigrationsLeave'
      <2> SUFFICES ASSUME NEW u \in Task
                   PROVE  At(u, "cleanup")' => Moved(task[u].shard)'
          BY DEF MigrationsLeave
      <2>1. CASE u = t
            BY <1>2, <1>3, <1>5, <2>1 DEF At
      <2>2. CASE u # t
            <3>1. task'[u] = task[u]
                  BY <1>5, <2>2
            <3>2. At(u, "cleanup") => task[u].shard \in stranded'
                  BY <1>4
            <3> QED BY <3>1, <3>2 DEF At, Moved
      <2> QED BY <2>1, <2>2
<1>9. SearchesSeeAll'
      <2> SUFFICES ASSUME NEW u \in Task
                   PROVE  /\ At(u, "search")' \/ At(u, "answer")' =>
                                task'[u].local = DOMAIN local_shards'
                          /\ At(u, "answer")' => task'[u].remote
                                = DOMAIN shard_map' \ DOMAIN local_shards'
          BY DEF SearchesSeeAll
      <2>1. CASE u = t
            BY <1>2, <1>5, <2>1 DEF At
      <2>2. CASE u # t
            BY <1>4, <1>5, <2>2 DEF At, Inv, SearchesSeeAll
      <2> QED BY <2>1, <2>2
<1>10. PrimaryIsServed'
      BY <1>2, <1>5 DEF PrimaryIsServed, At
<1> QED BY <1>6, <1>7, <1>8, <1>9, <1>10 DEF Inv

\* New statistics, for the shards the map gives this node.
LEMMA ShardsCreated ==
    ASSUME ShardingAssumption, Inv, NEW t \in Task, CreateLocalShards(t)
    PROVE  Inv'
<1> DEFINE mine == {s \in DOMAIN shard_map :
                       Me \in {shard_map[s].primary} \cup shard_map[s].replicas}
<1>1. ShardingAssumption /\ TypeOK /\ task' = [task EXCEPT ![t] = Idle] /\ Idle \in Call
      BY IdleIsCall DEF Inv, CreateLocalShards, Goto
<1>2. /\ UNCHANGED <<shard_map, stored, stranded>>
      /\ At(t, "create") /\ \A u \in Task : ~ At(u, "search") /\ ~ At(u, "answer")
      /\ local_shards' = [s \in DOMAIN local_shards \cup mine |->
                             IF s \in mine THEN 0 ELSE local_shards[s]]
      /\ forgotten' = forgotten
            \cup {s \in mine : StoredIn(s) # {} \/ Uncounted(s, -1) # {}}
      BY DEF CreateLocalShards, LocalShardsWritable
<1>3. task'[t] = Idle /\ \A u \in Task : u # t => task'[u] = task[u]
      BY <1>1 DEF TypeOK
<1>4. mine \in SUBSET DOMAIN shard_map /\ DOMAIN shard_map \in SUBSET Shard
      BY <1>1 DEF TypeOK
<1>5. \A s \in DOMAIN shard_map : shard_map[s].primary = Me => s \in mine
      OBVIOUS
<1> HIDE DEF mine
<1>6. DOMAIN local_shards' = DOMAIN local_shards \cup mine
      BY <1>2
<1>7. TypeOK'
      <2>1. local_shards' \in [DOMAIN local_shards' -> Nat]
            BY <1>1, <1>2 DEF TypeOK
      <2>2. DOMAIN local_shards' \in SUBSET DOMAIN shard_map
            BY <1>1, <1>4, <1>6 DEF TypeOK
      <2>3. forgotten' \in SUBSET Shard
            BY <1>1, <1>2, <1>4 DEF TypeOK
      <2> QED BY <1>1, <1>2, <2>1, <2>2, <2>3 DEF TypeOK
<1>8. CountsHold'
      <2> SUFFICES ASSUME NEW s \in DOMAIN local_shards', s \notin forgotten'
                   PROVE  Cardinality(StoredIn(s)') + Cardinality(Uncounted(s, -1)')
                             <= local_shards'[s] + Cardinality(Uncounted(s, 1)')
          BY DEF CountsHold
      <2>1. StoredIn(s)' = StoredIn(s)
            BY <1>2 DEF StoredIn
      <2>2. ASSUME NEW d
            PROVE  Uncounted(s, d)' = Uncounted(s, d) /\ Cardinality(Uncounted(s, d)) \in Nat
            <3>1. ~ Counts(task[t], s, d) /\ ~ Counts(Idle, s, d)
                  BY <1>2, IdleIsCall DEF Counts, At
            <3>2. \A u \in Task : Counts(task'[u], s, d) <=> Counts(task[u], s, d)
                  BY ONLY <1>3, <3>1
            <3>3. Uncounted(s, d)' = Uncounted(s, d)
                  BY ONLY <3>2, UncountedSame
            <3>4. Cardinality(Uncounted(s, d)) \in Nat
                  BY ONLY <1>1, UncountedFinite
            <3> QED BY <3>3, <3>4
      <2>3. CASE s \in mine
            <3>1. StoredIn(s) = {} /\ Uncounted(s, -1) = {} /\ local_shards'[s] = 0
                  BY <1>2, <2>3
            <3> QED BY <2>1, <2>2, <3>1, FS_EmptySet
      <2>4. CASE s \notin mine
            <3>1. s \in DOMAIN local_shards \ forgotten /\ local_shards'[s] = local_shards[s]
                  BY <1>2, <1>6, <2>4
            <3> QED BY <2>1, <2>2, <3>1 DEF Inv, CountsHold
      <2> QED BY <2>3, <2>4
<1>9. MigrationsLeave'
      <2> SUFFICES ASSUME NEW u \in Task
                   PROVE  At(u, "cleanup")' => Moved(task[u].shard)'
          BY DEF MigrationsLeave
      <2>1. CASE u = t
            BY <1>3, <2>1, IdleIsCall DEF At
      <2>2. CASE u # t
            BY <1>2, <1>3, <2>2 DEF At, Inv, MigrationsLeave, Moved
      <2> QED BY <2>1, <2>2
<1>10. SearchesSeeAll'
      <2>1. \A u \in Task : ~ At(u, "search")' /\ ~ At(u, "answer")'
            BY <1>2, <1>3, IdleIsCall DEF At
      <2> QED BY <2>1 DEF SearchesSeeAll
<1>11. PrimaryIsServed'
      BY <1>2, <1>5, <1>6 DEF PrimaryIsServed
<1> QED BY <1>7, <1>8, <1>9, <1>10, <1>11 DEF Inv

\* The map names the new primary, before this node lets the shard go.
LEMMA MappingKeeps ==
    ASSUME ShardingAssumption, Inv, NEW t \in Task, UpdateShardMapping(t)
    PROVE  Inv'
<1>1. ShardingAssumption /\ TypeOK
      BY DEF Inv
<1>2. task[t] \in Migrating /\ At(t, "map")
      BY <1>1, CallParts DEF UpdateShardMapping, At, TypeOK
<1> PICK z \in Shard, n \in Node : z = task[t].shard /\ n = task[t].to
    BY <1>2 DEF Migrating
<1> DEFINE r == [task[t] EXCEPT !.pc = "cleanup"]
<1>3. /\ UNCHANGED <<local_shards, stored, forgotten>>
      /\ task' = [task EXCEPT ![t] = r]
      /\ \A u \in Task : ~ At(u, "answer")
      /\ shard_map' = [shard_map EXCEPT ![z].primary = n]
      /\ stranded' = IF n = Me THEN stranded \cup {z} ELSE stranded
      BY DEF UpdateShardMapping, ShardMapWritable, Goto
<1>3a. /\ \A s : s \in stranded => s \in stranded'
       /\ n = Me => z \in stranded'
       /\ stranded' \in SUBSET Shard
      <2>1. stranded \in SUBSET Shard
            BY <1>1 DEF TypeOK
      <2> QED BY ONLY <1>3, <2>1, z \in Shard
<1>4. r \in Migrating /\ r \in Call /\ r.pc = "cleanup" /\ r.shard = z /\ r.to = n
      BY <1>2 DEF Migrating, Call
<1> HIDE DEF r
<1>5. task'[t] = r /\ \A u \in Task : u # t => task'[u] = task[u]
      BY <1>1, <1>3 DEF TypeOK
<1>6. /\ DOMAIN shard_map' = DOMAIN shard_map
      /\ \A s \in DOMAIN shard_map :
            /\ shard_map[s] \in ShardInfo
            /\ s # z => shard_map'[s] = shard_map[s]
            /\ s = z => shard_map'[s] = [shard_map[s] EXCEPT !.primary = n]
      BY <1>1, <1>2, <1>3 DEF TypeOK
<1>7. /\ \A s \in DOMAIN shard_map : shard_map'[s] \in ShardInfo
      /\ z \in DOMAIN shard_map => shard_map'[z].primary = n
      BY <1>6 DEF ShardInfo
<1>8. TypeOK'
      <2>1. shard_map' = [s \in DOMAIN shard_map |-> shard_map'[s]]
            BY <1>1, <1>2, <1>3 DEF TypeOK
      <2>2. shard_map' \in [DOMAIN shard_map' -> ShardInfo]
            BY <1>6, <1>7, <2>1
      <2> QED BY <1>1, <1>2, <1>3, <1>4, <1>6, <1>3a, <2>2 DEF TypeOK
<1>9. CountsHold'
      <2> SUFFICES ASSUME NEW s \in DOMAIN local_shards' \ forgotten'
                   PROVE  /\ s \in DOMAIN local_shards \ forgotten
                          /\ local_shards'[s] = local_shards[s]
                          /\ StoredIn(s)' = StoredIn(s)
                          /\ Uncounted(s, 1)' = Uncounted(s, 1)
                          /\ Uncounted(s, -1)' = Uncounted(s, -1)
          BY CountsStay DEF Inv
      <2>1. StoredIn(s)' = StoredIn(s)
            BY <1>3 DEF StoredIn
      <2>2. ASSUME NEW d PROVE Uncounted(s, d)' = Uncounted(s, d)
            <3>1. ~ Counts(task[t], s, d) /\ ~ Counts(r, s, d)
                  BY <1>2, <1>4 DEF Counts, At
            <3>2. \A u \in Task : Counts(task'[u], s, d) <=> Counts(task[u], s, d)
                  BY ONLY <1>5, <3>1
            <3> QED BY ONLY <3>2, UncountedSame
      <2> QED BY <1>3, <2>1, <2>2
<1>10. \A s : Moved(s) => Moved(s)'
      <2> SUFFICES ASSUME NEW s, Moved(s), s \in DOMAIN shard_map \ stranded'
                   PROVE  shard_map'[s].primary # Me
          BY <1>6 DEF Moved
      <2>1. shard_map[s].primary # Me
            BY <1>3a DEF Moved
      <2>2. CASE s = z
            BY <1>7, <1>3a, <2>2
      <2> QED BY <1>6, <2>1, <2>2
<1>11. Moved(z)'
      BY <1>6, <1>7, <1>3a DEF Moved
<1>12. MigrationsLeave'
      <2> SUFFICES ASSUME NEW u \in Task
                   PROVE  At(u, "cleanup")' => Moved(task[u].shard)'
          BY DEF MigrationsLeave
      <2>1. CASE u = t
            <3>1. task'[u].shard = z /\ task'[u].to = n
                  BY <1>4, <1>5, <2>1
            <3> QED BY <1>4, <1>11, <3>1 DEF Moved
      <2>2. CASE u # t
            <3>1. task'[u] = task[u]
                  BY <1>5, <2>2
            <3>2. At(u, "cleanup") => Moved(task[u].shard)
                  BY DEF Inv, MigrationsLeave
            <3>3. Moved(task[u].shard) => (Moved(task[u].shard))'
                  <4> DEFINE x == task[u].shard
                  <4>1. Moved(x) => shard_map'[x].primary # Me \/ x \notin DOMAIN shard_map'
                                       \/ x \in stranded'
                        BY <1>10 DEF Moved
                  <4> QED BY <3>1, <4>1 DEF Moved
            <3> QED BY <3>1, <3>2, <3>3 DEF At
      <2> QED BY <2>1, <2>2
<1>13. SearchesSeeAll'
      <2> SUFFICES ASSUME NEW u \in Task
                   PROVE  /\ At(u, "search")' \/ At(u, "answer")' =>
                                task'[u].local = DOMAIN local_shards'
                          /\ At(u, "answer")' => task'[u].remote
                                = DOMAIN shard_map' \ DOMAIN local_shards'
          BY DEF SearchesSeeAll
      <2>1. CASE u = t
            BY <1>4, <1>5, <2>1 DEF At
      <2>2. CASE u # t
            BY <1>3, <1>5, <2>2 DEF At, Inv, SearchesSeeAll
      <2> QED BY <2>1, <2>2
<1>14. PrimaryIsServed'
      <2>1. (\A u \in Task : ~ At(u, "create")') => \A u \in Task : ~ At(u, "create")
            BY <1>2, <1>5 DEF At
      <2>2. \A s \in DOMAIN shard_map' \ stranded' : shard_map'[s].primary = Me =>
                s \in DOMAIN shard_map \ stranded /\ shard_map[s].primary = Me
            <3> SUFFICES ASSUME NEW s \in DOMAIN shard_map' \ stranded',
                                shard_map'[s].primary = Me
                         PROVE  s \in DOMAIN shard_map \ stranded /\ shard_map[s].primary = Me
                OBVIOUS
            <3>1. s \in DOMAIN shard_map \ stranded
                  BY <1>6, <1>3a
            <3>2. s # z
                  BY <1>7, <1>3a, <3>1
            <3> QED BY <1>6, <3>1, <3>2
      <2> QED BY <1>3, <2>1, <2>2 DEF Inv, PrimaryIsServed
<1> QED BY <1>8, <1>9, <1>12, <1>13, <1>14 DEF Inv

\* A shard that leaves is no longer this node's.
LEMMA ShardLeaves ==
    ASSUME ShardingAssumption, Inv, NEW t \in Task, CleanupLocalShard(t)
    PROVE  Inv'
<1> DEFINE z == task[t].shard
<1>1. ShardingAssumption /\ TypeOK /\ task' = [task EXCEPT ![t] = Idle] /\ Idle \in Call
      BY IdleIsCall DEF Inv, CleanupLocalShard, Goto
<1>2. /\ UNCHANGED <<shard_map, stored, forgotten, stranded>>
      /\ At(t, "cleanup") /\ \A u \in Task : ~ At(u, "search") /\ ~ At(u, "answer")
      /\ local_shards' = [s \in DOMAIN local_shards \ {z} |-> local_shards[s]]
      BY DEF CleanupLocalShard, LocalShardsWritable, StoredAfterCleanup
<1>3. Moved(z)
      BY <1>2 DEF Inv, MigrationsLeave
<1> HIDE DEF z
<1>4. task'[t] = Idle /\ \A u \in Task : u # t => task'[u] = task[u]
      BY <1>1 DEF TypeOK
<1>5. /\ DOMAIN local_shards' = DOMAIN local_shards \ {z}
      /\ \A s \in DOMAIN local_shards' : local_shards'[s] = local_shards[s]
      BY <1>2
<1>6. TypeOK'
      <2>1. local_shards' \in [DOMAIN local_shards' -> Nat]
            BY <1>1, <1>2 DEF TypeOK
      <2> QED BY <1>1, <1>2, <1>5, <2>1 DEF TypeOK
<1>7. CountsHold'
      <2> SUFFICES ASSUME NEW s \in DOMAIN local_shards' \ forgotten'
                   PROVE  /\ s \in DOMAIN local_shards \ forgotten
                          /\ local_shards'[s] = local_shards[s]
                          /\ StoredIn(s)' = StoredIn(s)
                          /\ Uncounted(s, 1)' = Uncounted(s, 1)
                          /\ Uncounted(s, -1)' = Uncounted(s, -1)
          BY CountsStay DEF Inv
      <2>1. StoredIn(s)' = StoredIn(s)
            BY <1>2 DEF StoredIn
      <2>2. ASSUME NEW d PROVE Uncounted(s, d)' = Uncounted(s, d)
            <3>1. ~ Counts(task[t], s, d) /\ ~ Counts(Idle, s, d)
                  BY <1>2, IdleIsCall DEF Counts, At
            <3>2. \A u \in Task : Counts(task'[u], s, d) <=> Counts(task[u], s, d)
                  BY ONLY <1>4, <3>1
            <3> QED BY ONLY <3>2, UncountedSame
      <2> QED BY <1>2, <1>5, <2>1, <2>2
<1>8. MigrationsLeave'
      <2> SUFFICES ASSUME NEW u \in Task
                   PROVE  At(u, "cleanup")' => Moved(task[u].shard)'
          BY DEF MigrationsLeave
      <2>1. CASE u = t
            BY <1>4, <2>1, IdleIsCall DEF At
      <2>2. CASE u # t
            BY <1>2, <1>4, <2>2 DEF At, Inv, MigrationsLeave, Moved
      <2> QED BY <2>1, <2>2
<1>9. SearchesSeeAll'
      <2>1. \A u \in Task : ~ At(u, "search")' /\ ~ At(u, "answer")'
            BY <1>2, <1>4, IdleIsCall DEF At
      <2> QED BY <2>1 DEF SearchesSeeAll
<1>10. PrimaryIsServed'
      <2>1. (\A u \in Task : ~ At(u, "create")') => \A u \in Task : ~ At(u, "create")
            BY <1>2, <1>4 DEF At
      <2> QED BY <1>2, <1>3, <1>5, <2>1 DEF Inv, PrimaryIsServed, Moved
<1> QED BY <1>6, <1>7, <1>8, <1>9, <1>10 DEF Inv

-----------------------------------------------------------------------------
(* The theorems.                                                           *)

\* The parts of the invariant hold together, whatever calls run at once and
\* wherever they are overtaken between two locks.
THEOREM Invariance == Spec => []Inv
<1> USE ShardingAssumption
<1>1. Init => Inv
      <2> SUFFICES ASSUME Init PROVE Inv
          OBVIOUS
      <2>1. TypeOK
            BY IdleIsCall, FS_EmptySet DEF Init, TypeOK
      <2>2. \A t \in Task : task[t] = Idle
            BY DEF Init
      <2>3. CountsHold /\ PrimaryIsServed
            BY DEF Init, CountsHold, PrimaryIsServed
      <2>4. MigrationsLeave /\ SearchesSeeAll
            BY <2>2, IdleIsCall DEF MigrationsLeave, SearchesSeeAll, At
      <2> QED BY <2>1, <2>3, <2>4 DEF Inv
<1>2. Inv /\ [Next]_vars => Inv'
      <2> SUFFICES ASSUME Inv, [Next]_vars PROVE Inv'
          OBVIOUS
      <2>1. CASE UNCHANGED vars
            BY <2>1 DEF vars, Inv, TypeOK, CountsHold, StoredIn, Uncounted, At, MigrationsLeave,
                        Moved, SearchesSeeAll, PrimaryIsServed
      <2>2. CASE Next
            <3> PICK t \in Task :
                    \/ InitializeShards(t) \/ CreateLocalShards(t)
                    \/ \E p \in Point, op \in {"upsert", "delete"} : Request(t, op, p)
                    \/ StoreVector(t) \/ DeleteVector(t) \/ UpdateShardStats(t) \/ Forward(t)
                    \/ SearchLocal(t) \/ SearchRemote(t) \/ SearchReturns(t)
                    \/ \E s \in Shard, n \in Node : MigrateShard(t, s, n)
                    \/ CopyShard(t) \/ UpdateShardMapping(t) \/ CleanupLocalShard(t)
                BY <2>2 DEF Next
            <3>1. CASE InitializeShards(t) \/ CreateLocalShards(t)
                  BY <3>1, MapInitialised, ShardsCreated
            <3>2. CASE StoreVector(t) \/ DeleteVector(t)
                  BY <3>2, StorageKeeps
            <3>3. CASE UpdateShardStats(t)
                  BY <3>3, StatsKeep
            <3>4. CASE UpdateShardMapping(t)
                  BY <3>4, MappingKeeps
            <3>5. CASE CleanupLocalShard(t)
                  BY <3>5, ShardLeaves
            <3> QED BY <3>1, <3>2, <3>3, <3>4, <3>5, CallsGoOn
      <2> QED BY <2>1, <2>2
<1> QED BY <1>1, <1>2, PTL DEF Spec

\* The count of a shard covers the points stored in it but for those about to be
\* counted, and a shard with too many points reports itself: the count is kept in
\* steps and under locks of its own, beside the storage.
THEOREM CountsCover == Spec => []CountCoversStored
<1>1. ShardingAssumption /\ Inv => CountCoversStored
      <2> SUFFICES ASSUME ShardingAssumption, Inv, NEW s \in DOMAIN local_shards \ forgotten
                   PROVE  /\ local_shards[s] >=
                                Cardinality(StoredIn(s)) - Cardinality(Uncounted(s, 1))
                          /\ Uncounted(s, 1) = {}
                                /\ Cardinality(StoredIn(s)) > MaxVectorsPerShard => ~ Healthy(s)
          BY DEF CountCoversStored
      <2>1. /\ Cardinality(StoredIn(s)) + Cardinality(Uncounted(s, -1))
                  <= local_shards[s] + Cardinality(Uncounted(s, 1))
            /\ local_shards[s] \in Nat /\ MaxVectorsPerShard \in Nat
            BY DEF Inv, CountsHold, TypeOK, ShardingAssumption
      <2>2. ASSUME NEW d PROVE Cardinality(Uncounted(s, d)) \in Nat
            <3>1. Uncounted(s, d) \in SUBSET Task
                  BY DEF Uncounted
            <3> QED BY <3>1, FS_Subset, FS_CardinalityType DEF ShardingAssumption
      <2>3. Cardinality(StoredIn(s)) \in Nat
            <3>1. StoredIn(s) \in SUBSET stored /\ IsFiniteSet(stored)
                  BY DEF StoredIn, Inv, TypeOK
            <3> QED BY <3>1, FS_Subset, FS_CardinalityType
      <2>4. Cardinality(StoredIn(s)) <= local_shards[s] + Cardinality(Uncounted(s, 1))
            BY <2>1, <2>2, <2>3
      <2>5. Uncounted(s, 1) = {} => Cardinality(Uncounted(s, 1)) = 0
            BY FS_EmptySet
      <2> QED BY <2>1, <2>2, <2>3, <2>4, <2>5 DEF Healthy
<1> QED BY <1>1, Invariance, ShardingAssumption, PTL

\* Whatever migrates, a shard that the map gives this node is held here, and a
\* search asks every shard of the map, once.
THEOREM EveryShardServed == Spec => []EveryShardIsServed
<1>1. Inv => EveryShardIsServed
      BY DEF Inv, TypeOK, SearchesSeeAll, EveryShardIsServed, SearchCoversEveryShardOnce
<1> QED BY <1>1, Invariance, PTL

-----------------------------------------------------------------------------
(* The hash ring.                                                          *)

RingInv ==
    /\ RingTypeOK
    /\ virtual_nodes \in [DOMAIN virtual_nodes -> RingNode]
    /\ node_weights \in [DOMAIN node_weights -> 0..MaxWeight]
    /\ routing_cache \in [DOMAIN routing_cache -> RingNode]
    /\ CacheFollowsRing

\* The least of a set of numbers, and nothing else, is its minimum.
LEMMA LeastNumber ==
    ASSUME NEW S \in SUBSET Nat, S # {}
    PROVE  Min(S) \in S /\ \A y \in S : Min(S) <= y
<1>1. PICK x \in S : \A y \in S : <<y, x>> \notin OpToRel(<, Nat)
      BY NatLessThanWellFounded, WFMin
<1>2. \A y \in S : ~ (y < x)
      BY <1>1 DEF OpToRel
<1>3. \E z \in S : \A y \in S : z <= y
      BY <1>2
<1> QED BY <1>3 DEF Min

LEMMA LeastIsMin ==
    ASSUME NEW S \in SUBSET Nat, NEW x \in S, \A y \in S : x <= y
    PROVE  Min(S) = x
<1>1. Min(S) \in S
      BY LeastNumber
<1>2. Min(S) <= x
      BY LeastNumber
<1>3. x <= Min(S)
      BY <1>1
<1>4. x \in Nat /\ Min(S) \in Nat
      BY <1>1
<1> QED BY <1>2, <1>3, <1>4

LEMMA SuccessorIsOccupied ==
    ASSUME NEW points, DOMAIN points \in SUBSET Position, DOMAIN points # {}, NEW h \in Position
    PROVE  Successor(points, h) \in DOMAIN points
<1> DEFINE D == DOMAIN points
           after == {p \in D : p >= h}
<1>0. RingSize \in Nat
      BY RingAssumption
<1>1. D \in SUBSET Nat /\ after \in SUBSET Nat /\ after \subseteq D /\ D # {}
      BY <1>0 DEF Position
<1>2. Successor(points, h) = Min(IF after = {} THEN D ELSE after)
      BY DEF Successor
<1> HIDE DEF D, after
<1>3. CASE after = {}
      <2>1. Successor(points, h) = Min(D)
            BY <1>2, <1>3
      <2>2. Min(D) \in D
            BY <1>1, LeastNumber
      <2> QED BY <2>1, <2>2 DEF D
<1>4. CASE after # {}
      <2>1. Successor(points, h) = Min(after)
            BY <1>2, <1>4
      <2>2. Min(after) \in after
            BY <1>1, <1>4, LeastNumber
      <2> QED BY <1>1, <2>1, <2>2 DEF D
<1> QED BY <1>3, <1>4

\* A ring with fewer points has the same successor, if it has that one.
LEMMA SuccessorStays ==
    ASSUME NEW more, NEW fewer, DOMAIN more \in SUBSET Position, NEW h \in Position,
           DOMAIN fewer \subseteq DOMAIN more, Successor(more, h) \in DOMAIN fewer
    PROVE  Successor(fewer, h) = Successor(more, h)
<1> DEFINE M == DOMAIN more
           F == DOMAIN fewer
           afterM == {p \in M : p >= h}
           afterF == {p \in F : p >= h}
           s == Successor(more, h)
<1>0. RingSize \in Nat
      BY RingAssumption
<1>1. /\ M \in SUBSET Nat /\ F \in SUBSET Nat /\ h \in Nat
      /\ afterM \in SUBSET Nat /\ afterF \in SUBSET Nat
      /\ F \subseteq M /\ s \in F
      BY <1>0 DEF Position
<1>2. /\ s = Min(IF afterM = {} THEN M ELSE afterM)
      /\ Successor(fewer, h) = Min(IF afterF = {} THEN F ELSE afterF)
      BY DEF Successor
<1>3. /\ afterF \subseteq afterM
      /\ \A p : p \in afterM <=> p \in M /\ p >= h
      /\ \A p : p \in afterF <=> p \in F /\ p >= h
      BY <1>1
<1> HIDE DEF M, F, afterM, afterF, s
<1>4. CASE afterM = {}
      <2>1. afterF = {} /\ \A y \in M : s <= y
            BY <1>1, <1>2, <1>3, <1>4, LeastNumber
      <2> QED BY <1>1, <1>2, <2>1, LeastIsMin DEF s
<1>5. CASE afterM # {}
      <2>1. s \in afterM /\ \A y \in afterM : s <= y
            BY <1>1, <1>2, <1>5, LeastNumber
      <2>2. s \in afterF /\ \A y \in afterF : s <= y
            BY <1>1, <1>3, <2>1
      <2> QED BY <1>1, <1>2, <2>2, LeastIsMin DEF s
<1> QED BY <1>4, <1>5

LEMMA OwnerStays ==
    ASSUME NEW more, NEW fewer, DOMAIN more \in SUBSET Position, NEW k \in Key,
           DOMAIN fewer \subseteq DOMAIN more,
           Successor(more, KeyHash[k]) \in DOMAIN fewer,
           fewer[Successor(more, KeyHash[k])] = more[Successor(more, KeyHash[k])]
    PROVE  OwnerOf(fewer, k) = OwnerOf(more, k)
<1>1. KeyHash[k] \in Position
      BY RingAssumption
<1> QED BY <1>1, SuccessorStays DEF OwnerOf

\* A larger weight has the positions of a smaller one, and all lie on the ring.
LEMMA PositionsGrow ==
    ASSUME NEW n \in RingNode, NEW w \in 0..MaxWeight, NEW v \in 0..MaxWeight
    PROVE  /\ PositionsOf(n, w) \in SUBSET Position
           /\ \A i \in 0..PerWeight * w - 1 : i \in Copies
           /\ v <= w => PositionsOf(n, v) \subseteq PositionsOf(n, w)
<1>1. PerWeight \in Nat /\ MaxWeight \in Nat /\ w \in Nat /\ v \in Nat
      BY RingAssumption
<1>2. /\ PerWeight * w \in Nat /\ PerWeight * v \in Nat /\ PerWeight * MaxWeight \in Nat
      /\ PerWeight * w <= PerWeight * MaxWeight
      /\ v <= w => PerWeight * v <= PerWeight * w
      BY <1>1
<1>3. \A i \in 0..PerWeight * w - 1 : i \in Copies
      BY <1>2 DEF Copies
<1>4. \A i \in Copies : VirtualHash[<<n, i>>] \in Position
      BY RingAssumption
<1>5. v <= w => \A i \in 0..PerWeight * v - 1 : i \in 0..PerWeight * w - 1
      BY <1>2
<1> QED BY <1>3, <1>4, <1>5 DEF PositionsOf

LEMMA PositionsDiffer ==
    ASSUME NoCollision, NEW m \in RingNode, NEW n \in RingNode, m # n,
           NEW v \in 0..MaxWeight, NEW w \in 0..MaxWeight
    PROVE  PositionsOf(m, v) \cap PositionsOf(n, w) = {}
<1>1. SUFFICES ASSUME NEW i \in Copies, NEW j \in Copies
               PROVE  VirtualHash[<<m, i>>] # VirtualHash[<<n, j>>]
      BY PositionsGrow DEF PositionsOf
<1> QED BY DEF NoCollision

-----------------------------------------------------------------------------
LEMMA EmptyRing ==
    ASSUME NEW points, points \in [DOMAIN points -> RingNode]
    PROVE  points = << >> <=> DOMAIN points = {}
<1>1. DOMAIN << >> = {}
      OBVIOUS
<1>2. ASSUME DOMAIN points = {} PROVE points = << >>
      <2>1. points = [p \in {} |-> points[p]]
            BY <1>2
      <2>2. << >> = [p \in {} |-> points[p]]
            OBVIOUS
      <2> QED BY <2>1, <2>2
<1> QED BY <1>1, <1>2

LEMMA OwnerIsNode ==
    ASSUME NEW points, points \in [DOMAIN points -> RingNode], DOMAIN points \in SUBSET Position,
           points # << >>, NEW k \in Key
    PROVE  /\ Successor(points, KeyHash[k]) \in DOMAIN points
           /\ OwnerOf(points, k) \in RingNode
<1>1. KeyHash[k] \in Position
      BY RingAssumption
<1>2. DOMAIN points # {}
      BY EmptyRing
<1>3. Successor(points, KeyHash[k]) \in DOMAIN points
      BY <1>1, <1>2, SuccessorIsOccupied
<1> QED BY <1>3 DEF OwnerOf

LEMMA AdditionKeepsRing ==
    ASSUME RingInv, NEW n \in RingNode, NEW w \in 0..MaxWeight, AddNode(n, w)
    PROVE  RingInv'
<1> USE DEF RingInv, RingTypeOK
<1>1. PositionsOf(n, w) \in SUBSET Position
      BY PositionsGrow
<1>2. /\ DOMAIN virtual_nodes' = DOMAIN virtual_nodes \cup PositionsOf(n, w)
      /\ virtual_nodes' \in [DOMAIN virtual_nodes' -> RingNode]
      BY DEF AddNode
<1>3. /\ DOMAIN node_weights' = DOMAIN node_weights \cup {n}
      /\ node_weights' \in [DOMAIN node_weights' -> 0..MaxWeight]
      BY DEF AddNode
<1>4. routing_cache' = << >> /\ lowered' \subseteq RingNode
      BY DEF AddNode
<1>5. DOMAIN routing_cache' = {} /\ routing_cache' \in [DOMAIN routing_cache' -> RingNode]
      BY <1>4
<1> QED BY <1>1, <1>2, <1>3, <1>4, <1>5 DEF CacheFollowsRing

LEMMA RemovalKeepsRing ==
    ASSUME RingInv, NEW n \in RingNode, RemoveNode(n)
    PROVE  RingInv'
<1> USE DEF RingInv, RingTypeOK
<1>1. /\ DOMAIN virtual_nodes' = DOMAIN virtual_nodes \ PositionsOf(n, node_weights[n])
      /\ virtual_nodes' \in [DOMAIN virtual_nodes' -> RingNode]
      BY DEF RemoveNode, Restrict
<1>2. /\ DOMAIN node_weights' = DOMAIN node_weights \ {n}
      /\ node_weights' \in [DOMAIN node_weights' -> 0..MaxWeight]
      BY DEF RemoveNode, Restrict
<1>3. routing_cache' = << >> /\ lowered' = lowered
      BY DEF RemoveNode
<1>4. DOMAIN routing_cache' = {} /\ routing_cache' \in [DOMAIN routing_cache' -> RingNode]
      BY <1>3
<1> QED BY <1>1, <1>2, <1>3, <1>4 DEF CacheFollowsRing

LEMMA LookupKeepsRing ==
    ASSUME RingInv, NEW k \in Key, GetNode(k)
    PROVE  RingInv'
<1> USE DEF RingInv, RingTypeOK
<1>1. OwnerOf(virtual_nodes, k) \in RingNode
      BY OwnerIsNode DEF GetNode
<1>2. PICK gone \in SUBSET DOMAIN routing_cache :
         routing_cache' = [j \in (DOMAIN routing_cache \ gone) \cup {k} |->
                              IF j = k THEN OwnerOf(virtual_nodes, k)
                              ELSE routing_cache[j]]
      BY DEF GetNode
<1>3. /\ DOMAIN routing_cache' \subseteq Key
      /\ routing_cache' \in [DOMAIN routing_cache' -> RingNode]
      BY <1>1, <1>2
<1>4. virtual_nodes # << >> /\ UNCHANGED <<virtual_nodes, node_weights, lowered>>
      BY DEF GetNode
<1>5. \A j \in DOMAIN routing_cache' : routing_cache'[j] = OwnerOf(virtual_nodes, j)
      BY <1>2 DEF CacheFollowsRing
<1> QED BY <1>3, <1>4, <1>5 DEF CacheFollowsRing

\* The cache of the ring follows it whatever hashes collide.
THEOREM CacheFollows == RingSpec => []RingInv
<1>1. RingInit => RingInv
      <2> SUFFICES ASSUME RingInit PROVE RingInv
          OBVIOUS
      <2> QED BY DEF RingInit, RingInv, RingTypeOK, CacheFollowsRing
<1>2. RingInv /\ [RingNext]_ringVars => RingInv'
      <2> SUFFICES ASSUME RingInv, [RingNext]_ringVars PROVE RingInv'
          OBVIOUS
      <2>1. ASSUME NEW n \in RingNode, NEW w \in 0..MaxWeight, AddNode(n, w) PROVE RingInv'
            BY <2>1, AdditionKeepsRing
      <2>2. ASSUME NEW n \in RingNode, RemoveNode(n) PROVE RingInv'
            BY <2>2, RemovalKeepsRing
      <2>3. ASSUME NEW k \in Key, GetNode(k) PROVE RingInv'
            BY <2>3, LookupKeepsRing
      <2>4. CASE UNCHANGED ringVars
            BY <2>4 DEF ringVars, RingInv, RingTypeOK, CacheFollowsRing
      <2> QED BY <2>1, <2>2, <2>3, <2>4 DEF RingNext
<1> QED BY <1>1, <1>2, PTL DEF RingSpec

-----------------------------------------------------------------------------
LEMMA AdditionKeepsWeights ==
    ASSUME NoCollision, RingInv, RingMatchesWeights,
           NEW n \in RingNode, NEW w \in 0..MaxWeight, AddNode(n, w)
    PROVE  RingMatchesWeights'
<1> DEFINE own == PositionsOf(n, w)
<1>1. /\ node_weights' = [m \in DOMAIN node_weights \cup {n} |->
                             IF m = n THEN w ELSE node_weights[m]]
      /\ virtual_nodes' = [p \in DOMAIN virtual_nodes \cup own |->
                              IF p \in own THEN n ELSE virtual_nodes[p]]
      /\ lowered' = IF n \in DOMAIN node_weights /\ w < node_weights[n]
                    THEN lowered \cup {n} ELSE lowered
      BY DEF AddNode
<1>2. \A m \in DOMAIN node_weights : m \in RingNode /\ node_weights[m] \in 0..MaxWeight
      BY DEF RingInv, RingTypeOK
<1>3. \A m \in DOMAIN node_weights \ {n} : PositionsOf(m, node_weights[m]) \cap own = {}
      BY <1>2, PositionsDiffer
<1>4. \A p \in own : p \in DOMAIN virtual_nodes' /\ virtual_nodes'[p] = n
      BY <1>1
<1> HIDE DEF own
<1>5. ASSUME NEW m \in DOMAIN node_weights', NEW p \in PositionsOf(m, node_weights'[m])
      PROVE  p \in DOMAIN virtual_nodes' /\ virtual_nodes'[p] = m
      <2>1. CASE m = n
            BY <1>1, <1>4, <1>5, <2>1 DEF own
      <2>2. CASE m # n
            <3>1. m \in DOMAIN node_weights /\ node_weights'[m] = node_weights[m]
                  BY <1>1, <2>2
            <3>2. p \in DOMAIN virtual_nodes /\ virtual_nodes[p] = m
                  BY <1>5, <3>1 DEF RingMatchesWeights
            <3>3. p \notin own
                  BY <1>3, <1>5, <2>2, <3>1
            <3> QED BY <1>1, <3>2, <3>3
      <2> QED BY <2>1, <2>2
<1>6. ASSUME NEW p \in DOMAIN virtual_nodes'
      PROVE  \/ virtual_nodes'[p] \in lowered'
             \/ /\ virtual_nodes'[p] \in DOMAIN node_weights'
                /\ p \in PositionsOf(virtual_nodes'[p], node_weights'[virtual_nodes'[p]])
      <2>1. CASE p \in own
            BY <1>1, <1>4, <2>1 DEF own
      <2>2. CASE p \notin own
            <3>1. p \in DOMAIN virtual_nodes /\ virtual_nodes'[p] = virtual_nodes[p]
                  BY <1>1, <2>2
            <3>2. PICK m : m = virtual_nodes[p]
                  OBVIOUS
            <3>3. CASE m \in lowered
                  BY <1>1, <3>1, <3>2, <3>3
            <3>4. CASE m \notin lowered
                  <4>1. m \in DOMAIN node_weights /\ p \in PositionsOf(m, node_weights[m])
                        BY <3>1, <3>2, <3>4 DEF RingMatchesWeights
                  <4>2. CASE m # n
                        BY <1>1, <3>1, <3>2, <4>1, <4>2
                  <4>3. CASE m = n
                        <5>1. node_weights[n] \in 0..MaxWeight
                              BY <1>2, <4>1, <4>3
                        <5>2. ~ (node_weights[n] <= w)
                              BY <2>2, <4>1, <4>3, <5>1, PositionsGrow DEF own
                        <5>3. w < node_weights[n]
                              BY <5>1, <5>2
                        <5>4. n \in lowered'
                              BY <1>1, <4>1, <4>3, <5>3
                        <5> QED BY <3>1, <3>2, <4>3, <5>4
                  <4> QED BY <4>2, <4>3
            <3> QED BY <3>3, <3>4
      <2> QED BY <2>1, <2>2
<1> QED BY <1>5, <1>6 DEF RingMatchesWeights

LEMMA RemovalKeepsWeights ==
    ASSUME NoCollision, RingInv, RingMatchesWeights, NEW n \in RingNode, RemoveNode(n)
    PROVE  RingMatchesWeights'
<1> DEFINE own == PositionsOf(n, node_weights[n])
<1>1. /\ n \in DOMAIN node_weights /\ lowered' = lowered
      /\ DOMAIN node_weights' = DOMAIN node_weights \ {n}
      /\ \A m \in DOMAIN node_weights' : node_weights'[m] = node_weights[m]
      /\ DOMAIN virtual_nodes' = DOMAIN virtual_nodes \ own
      /\ \A p \in DOMAIN virtual_nodes' : virtual_nodes'[p] = virtual_nodes[p]
      BY DEF RemoveNode, Restrict
<1>2. \A m \in DOMAIN node_weights : m \in RingNode /\ node_weights[m] \in 0..MaxWeight
      BY DEF RingInv, RingTypeOK
<1>3. \A m \in DOMAIN node_weights \ {n} : PositionsOf(m, node_weights[m]) \cap own = {}
      BY <1>1, <1>2, PositionsDiffer
<1>4. ASSUME NEW m \in DOMAIN node_weights', NEW p \in PositionsOf(m, node_weights'[m])
      PROVE  p \in DOMAIN virtual_nodes' /\ virtual_nodes'[p] = m
      <2>1. m \in DOMAIN node_weights \ {n} /\ p \in PositionsOf(m, node_weights[m])
            BY <1>1, <1>4
      <2>2. p \in DOMAIN virtual_nodes /\ virtual_nodes[p] = m /\ p \notin own
            BY <1>3, <2>1 DEF RingMatchesWeights
      <2> QED BY <1>1, <2>2
<1>5. ASSUME NEW p \in DOMAIN virtual_nodes'
      PROVE  \/ virtual_nodes'[p] \in lowered'
             \/ /\ virtual_nodes'[p] \in DOMAIN node_weights'
                /\ p \in PositionsOf(virtual_nodes'[p], node_weights'[virtual_nodes'[p]])
      <2>1. p \in DOMAIN virtual_nodes /\ p \notin own /\ virtual_nodes'[p] = virtual_nodes[p]
            BY <1>1, <1>5
      <2>2. PICK m : m = virtual_nodes[p]
            OBVIOUS
      <2>3. CASE m \in lowered
            BY <1>1, <2>1, <2>2, <2>3
      <2>4. CASE m \notin lowered
            <3>1. m \in DOMAIN node_weights /\ p \in PositionsOf(m, node_weights[m])
                  BY <2>1, <2>2, <2>4 DEF RingMatchesWeights
            <3>2. m # n
                  BY <2>1, <3>1
            <3>3. m \in DOMAIN node_weights' /\ node_weights'[m] = node_weights[m]
                  BY <1>1, <3>1, <3>2
            <3> QED BY <2>1, <2>2, <3>1, <3>3
      <2> QED BY <2>3, <2>4
<1> QED BY <1>4, <1>5 DEF RingMatchesWeights

LEMMA WeightsHold ==
    ASSUME NoCollision
    PROVE  RingSpec => [](RingInv /\ RingMatchesWeights)
<1>1. RingInit => RingMatchesWeights
      <2> SUFFICES ASSUME RingInit PROVE RingMatchesWeights
          OBVIOUS
      <2> QED BY DEF RingInit, RingMatchesWeights
<1>2. RingInv /\ RingMatchesWeights /\ [RingNext]_ringVars => RingMatchesWeights'
      <2> SUFFICES ASSUME RingInv, RingMatchesWeights, [RingNext]_ringVars
                   PROVE  RingMatchesWeights'
          OBVIOUS
      <2>1. ASSUME NEW n \in RingNode, NEW w \in 0..MaxWeight, AddNode(n, w)
            PROVE  RingMatchesWeights'
            BY <2>1, AdditionKeepsWeights
      <2>2. ASSUME NEW n \in RingNode, RemoveNode(n) PROVE RingMatchesWeights'
            BY <2>2, RemovalKeepsWeights
      <2>3. ASSUME NEW k \in Key, GetNode(k) PROVE RingMatchesWeights'
            BY <2>3 DEF GetNode, RingMatchesWeights
      <2>4. CASE UNCHANGED ringVars
            BY <2>4 DEF ringVars, RingMatchesWeights
      <2> QED BY <2>1, <2>2, <2>3, <2>4 DEF RingNext
<1> QED BY <1>1, <1>2, CacheFollows, PTL DEF RingSpec

\* As long as the hashes of the virtual nodes differ, the ring is what the weights
\* say and a cached route the one that the ring gives, through any additions,
\* changes of weight, removals and evictions (shard.rs:198-301).
THEOREM RouteIsCurrent ==
    ASSUME NoCollision
    PROVE  RingSpec => []CachedRouteIsCurrent
<1>1. RingInv /\ RingMatchesWeights => CachedRouteIsCurrent
      BY DEF CachedRouteIsCurrent, RingInv
<1> QED BY <1>1, WeightsHold, PTL

-----------------------------------------------------------------------------
LEMMA AdditionMovesOwnKeys ==
    ASSUME RingInv, RingInv', NEW n \in RingNode, NEW w \in 0..MaxWeight, AddNode(n, w),
           NEW k \in Key, virtual_nodes # << >>, Rerouted(k)
    PROVE  OwnerOf(virtual_nodes', k) = n
<1> DEFINE own == PositionsOf(n, w)
           s == Successor(virtual_nodes', KeyHash[k])
<1>1. virtual_nodes' = [p \in DOMAIN virtual_nodes \cup own |->
                           IF p \in own THEN n ELSE virtual_nodes[p]]
      BY DEF AddNode
<1>2. virtual_nodes' # << >>
      <2>1. DOMAIN virtual_nodes # {}
            BY EmptyRing DEF RingInv
      <2> QED BY <1>1, <2>1, EmptyRing DEF RingInv
<1>3. s \in DOMAIN virtual_nodes'
      BY <1>2, OwnerIsNode DEF RingInv, RingTypeOK
<1>4. OwnerOf(virtual_nodes', k) = virtual_nodes'[s]
      BY DEF OwnerOf
<1> HIDE DEF own
<1>5. CASE s \in own
      BY <1>1, <1>4, <1>5
<1>6. CASE s \notin own
      <2>1. s \in DOMAIN virtual_nodes /\ virtual_nodes[s] = virtual_nodes'[s]
            BY <1>1, <1>3, <1>6
      <2>2. DOMAIN virtual_nodes \subseteq DOMAIN virtual_nodes'
            BY <1>1
      <2>3. OwnerOf(virtual_nodes, k) = OwnerOf(virtual_nodes', k)
            BY <2>1, <2>2, OwnerStays DEF RingInv, RingTypeOK
      <2> QED BY <1>2, <2>3 DEF Rerouted
<1> QED BY <1>5, <1>6

LEMMA RemovalMovesOwnKeys ==
    ASSUME RingInv, RingInv', RingMatchesWeights, NEW n \in RingNode, RemoveNode(n),
           NEW k \in Key, virtual_nodes # << >>, Rerouted(k)
    PROVE  OwnerOf(virtual_nodes, k) = n
<1> DEFINE own == PositionsOf(n, node_weights[n])
           s == Successor(virtual_nodes, KeyHash[k])
<1>1. /\ n \in DOMAIN node_weights
      /\ DOMAIN virtual_nodes' = DOMAIN virtual_nodes \ own
      /\ \A p \in DOMAIN virtual_nodes' : virtual_nodes'[p] = virtual_nodes[p]
      BY DEF RemoveNode, Restrict
<1>2. s \in DOMAIN virtual_nodes
      BY OwnerIsNode DEF RingInv, RingTypeOK
<1>3. OwnerOf(virtual_nodes, k) = virtual_nodes[s]
      BY DEF OwnerOf
<1>4. CASE s \in own
      BY <1>1, <1>3, <1>4 DEF RingMatchesWeights
<1>5. CASE s \notin own
      <2>1. s \in DOMAIN virtual_nodes' /\ virtual_nodes'[s] = virtual_nodes[s]
            BY <1>1, <1>2, <1>5
      <2>2. virtual_nodes' # << >>
            BY <2>1, EmptyRing DEF RingInv
      <2>3. OwnerOf(virtual_nodes', k) = OwnerOf(virtual_nodes, k)
            BY <1>1, <2>1, OwnerStays DEF RingInv, RingTypeOK
      <2> QED BY <2>2, <2>3 DEF Rerouted
<1> QED BY <1>4, <1>5

\* A node that is added takes keys for itself alone, and a node that is removed
\* gives up its own alone: no key moves between two other nodes (shard.rs:198, 223).
THEOREM OwnKeysMove ==
    ASSUME NoCollision
    PROVE  RingSpec => OnlyOwnKeysMove
<1> DEFINE Own == /\ \A n \in RingNode, w \in 0..MaxWeight : AddNode(n, w) =>
                        \A k \in Key : virtual_nodes # << >> /\ Rerouted(k) =>
                            OwnerOf(virtual_nodes', k) = n
                  /\ \A n \in RingNode : RemoveNode(n) =>
                        \A k \in Key : virtual_nodes # << >> /\ Rerouted(k) =>
                            OwnerOf(virtual_nodes, k) = n
<1>1. RingInv /\ RingInv' /\ RingMatchesWeights => Own
      BY AdditionMovesOwnKeys, RemovalMovesOwnKeys
<1>2. RingInv /\ RingMatchesWeights /\ RingInv' /\ [RingNext]_ringVars => [Own]_ringVars
      BY <1>1
<1> QED BY <1>2, WeightsHold, PTL DEF RingSpec, OnlyOwnKeysMove

-----------------------------------------------------------------------------
(* The table of the cluster manager.                                       *)

\* What becomes of a shard that n held: its other holders keep it, and only
\* healthy nodes are added to them.
Replaces(n, healthy, old, new) ==
    /\ new \in [primary : ClusterNode, replicas : SUBSET ClusterNode]
    /\ {new.primary} \cup new.replicas
          \subseteq (({old.primary} \cup old.replicas) \ {n}) \cup healthy
    /\ ({old.primary} \cup old.replicas) \ {n} \subseteq {new.primary} \cup new.replicas

\* The round robin goes on by some number of steps.
LEMMA TriesAreNumbers ==
    ASSUME NEW healthy, Len(healthy) \in Nat, NEW primary, NEW replicas, NEW index \in Nat
    PROVE  Tries(healthy, primary, replicas, index) \in Nat
<1> DEFINE target == IF Len(healthy) > 2 THEN 2 ELSE Len(healthy) - 1
           S == {k \in 0..2 * Len(healthy) + 1 :
                    \/ Cardinality(replicas \cup (Tried(healthy, index, k) \ {primary})) >= target
                    \/ k > 0 /\ index + k > 2 * Len(healthy)}
           top == 2 * Len(healthy) + 1
<1>1. top \in 0..2 * Len(healthy) + 1 /\ top > 0 /\ index + top > 2 * Len(healthy)
      OBVIOUS
<1>2. S \in SUBSET Nat /\ top \in S
      BY <1>1
<1>3. Min(S) \in S
      BY <1>2, LeastNumber
<1>4. Tries(healthy, primary, replicas, index) = Min(S)
      BY DEF Tries
<1> QED BY <1>2, <1>3, <1>4

\* A node of the sequence at any index, counted round.
LEMMA RoundRobinNode ==
    ASSUME NEW healthy, Len(healthy) \in Nat \ {0}, NEW index \in Nat, NEW H,
           \A i \in 1..Len(healthy) : healthy[i] \in H
    PROVE  healthy[(index % Len(healthy)) + 1] \in H
<1>1. index % Len(healthy) \in 0..Len(healthy) - 1
      OBVIOUS
<1>2. (index % Len(healthy)) + 1 \in 1..Len(healthy)
      BY <1>1
<1> QED BY <1>2

LEMMA ShardReassigned ==
    ASSUME NEW n, NEW H \in SUBSET ClusterNode, NEW healthy, Len(healthy) \in Nat \ {0},
           \A i \in 1..Len(healthy) : healthy[i] \in H, NEW index \in Nat, NEW s,
           shards[s] \in [primary : ClusterNode, replicas : SUBSET ClusterNode]
    PROVE  Replaces(n, H, shards[s], Reassign(n, healthy, s, index).shard)
<1> DEFINE old     == shards[s]
           moved   == old.primary = n
           primary == IF moved THEN healthy[(index % Len(healthy)) + 1] ELSE old.primary
           kept    == old.replicas \ {n}
           from    == IF moved THEN index + 1 ELSE index
           tries   == Tries(healthy, primary, kept, from)
           added   == Tried(healthy, from, tries) \ {primary}
           new     == [primary |-> primary, replicas |-> kept \cup added]
<1>1. old.primary \in ClusterNode /\ old.replicas \in SUBSET ClusterNode
      OBVIOUS
<1>2. primary \in H \/ (primary = old.primary /\ old.primary # n)
      BY RoundRobinNode
<1>3. (old.primary # n => primary = old.primary) /\ from \in Nat
      OBVIOUS
<1> HIDE DEF primary, from
<1>4. tries \in Nat
      BY <1>3, TriesAreNumbers
<1> HIDE DEF tries
<1>5. Tried(healthy, from, tries) \subseteq H
      <2> SUFFICES ASSUME NEW i \in 0..tries - 1
                   PROVE  healthy[((from + i) % Len(healthy)) + 1] \in H
          BY DEF Tried
      <2>1. from + i \in Nat
            BY <1>3, <1>4
      <2> QED BY <2>1, RoundRobinNode
<1>6. added \subseteq H
      BY <1>5
<1> HIDE DEF added, old
<1>7. Replaces(n, H, old, new)
      <2>1. new \in [primary : ClusterNode, replicas : SUBSET ClusterNode]
            BY <1>1, <1>2, <1>6
      <2>2. new.primary = primary /\ new.replicas = (old.replicas \ {n}) \cup added
            OBVIOUS
      <2>3. {new.primary} \cup new.replicas
               \subseteq (({old.primary} \cup old.replicas) \ {n}) \cup H
            BY <1>2, <1>6, <2>2
      <2>4. ({old.primary} \cup old.replicas) \ {n} \subseteq {new.primary} \cup new.replicas
            BY <1>3, <2>2
      <2> QED BY <2>1, <2>3, <2>4 DEF Replaces
<1>8. Reassign(n, healthy, s, index).shard = new
      BY DEF Reassign, new, added, tries, from, primary, old
<1> QED BY <1>7, <1>8 DEF old

\* A removal reassigns the shards that n held, and leaves the others.
LEMMA TableRebalanced ==
    ASSUME MembershipTypeOK, NEW n, NEW H \in SUBSET ClusterNode,
           NEW healthy \in SetToSeqs(H) \ {<< >>}, NEW new \in Rebalanced(n, healthy)
    PROVE  /\ new \in [DOMAIN shards -> [primary : ClusterNode, replicas : SUBSET ClusterNode]]
           /\ \A s \in DOMAIN shards :
                 IF s \in Affected(n) THEN Replaces(n, H, shards[s], new[s])
                                      ELSE new[s] = shards[s]
<1>1. PICK at \in Indices(n, healthy) :
         new = [s \in DOMAIN shards |->
                   IF s \in Affected(n) THEN Reassign(n, healthy, s, at[s]).shard ELSE shards[s]]
      BY DEF Rebalanced
<1>2. at \in [Affected(n) -> 0..Cardinality(Affected(n)) * (2 * Len(healthy) + 2)]
      BY DEF Indices
<1>3. IsFiniteSet(H) /\ Cardinality(H) \in Nat
      BY MembershipAssumption, FS_Subset, FS_CardinalityType
<1>4. healthy \in [1..Cardinality(H) -> H]
      BY DEF SetToSeqs
<1>5. healthy \in Seq(H)
      BY <1>3, <1>4, SeqDef
<1>6. Len(healthy) \in Nat /\ (\A i \in 1..Len(healthy) : healthy[i] \in H) /\ Len(healthy) # 0
      <2>1. Len(healthy) = Cardinality(H) /\ DOMAIN healthy = 1..Len(healthy)
            BY <1>3, <1>4, <1>5
      <2>2. Len(healthy) # 0
            BY <1>5, EmptySeq
      <2> QED BY <1>3, <1>4, <2>1, <2>2
<1>7. \A s \in DOMAIN shards :
         shards[s] \in [primary : ClusterNode, replicas : SUBSET ClusterNode]
      BY DEF MembershipTypeOK
<1>8. ASSUME NEW s \in Affected(n)
      PROVE  Replaces(n, H, shards[s], Reassign(n, healthy, s, at[s]).shard)
      <2>1. at[s] \in Nat
            BY <1>2
      <2>2. s \in DOMAIN shards
            BY DEF Affected
      <2> QED BY <1>6, <1>7, <2>1, <2>2, ShardReassigned
<1>9. \A s \in DOMAIN shards :
         IF s \in Affected(n) THEN Replaces(n, H, shards[s], new[s]) ELSE new[s] = shards[s]
      BY <1>1, <1>8
<1>10. \A s \in DOMAIN shards : new[s] \in [primary : ClusterNode, replicas : SUBSET ClusterNode]
      BY <1>7, <1>9 DEF Replaces
<1> QED BY <1>1, <1>9, <1>10

\* A removal, in its three cases.
LEMMA MemberRemoved ==
    ASSUME MembershipTypeOK, OnlyFailedRemovalsOrphan,
           NEW t \in ServiceTask, NEW n \in ClusterNode, RemoveMember(t, n)
    PROVE  /\ MembershipTypeOK' /\ OnlyFailedRemovalsOrphan'
           /\ \A s \in DOMAIN shards :
                 Holders(s) \ {n} \subseteq {shards'[s].primary} \cup shards'[s].replicas
<1> DEFINE remaining == [m \in Members \ {n} |-> nodes[m]]
           H == HealthyAmong(remaining)
<1>1. nodes' = remaining /\ balancer' = balancer
      BY DEF RemoveMember
<1>2. /\ nodes' \in [Members' -> {"Healthy", "Unhealthy"}]
      /\ Members' = Members \ {n} /\ Members' \subseteq ClusterNode
      BY <1>1 DEF MembershipTypeOK, Members
<1>3. H \subseteq Members' /\ H \in SUBSET ClusterNode
      BY <1>1, <1>2 DEF HealthyAmong, Members
<1> HIDE DEF H, remaining
<1>4. \A s \in DOMAIN shards : Holders(s) \subseteq Members \cup refused
      BY DEF OnlyFailedRemovalsOrphan
<1>5. CASE /\ n \notin Members \/ Affected(n) = {}
           /\ WorkOn(t, "balance_remove", n) /\ UNCHANGED <<shards, refused>>
      <2>1. \A s \in DOMAIN shards : Holders(s) \subseteq (Members \ {n}) \cup refused
            BY <1>4, <1>5 DEF Affected
      <2>2. OnlyFailedRemovalsOrphan'
            BY <1>2, <1>5, <2>1 DEF OnlyFailedRemovalsOrphan, Holders
      <2>3. MembershipTypeOK'
            BY <1>1, <1>2, <1>5 DEF MembershipTypeOK, WorkOn
      <2> QED BY <1>5, <2>2, <2>3 DEF Holders
<1>6. CASE /\ \E healthy \in SetToSeqs(H) \ {<< >>} : shards' \in Rebalanced(n, healthy)
           /\ WorkOn(t, "balance_remove", n) /\ UNCHANGED refused
      <2>1. PICK healthy \in SetToSeqs(H) \ {<< >>} : shards' \in Rebalanced(n, healthy)
            BY <1>6
      <2>2. /\ shards' \in [DOMAIN shards -> [primary : ClusterNode, replicas : SUBSET ClusterNode]]
            /\ \A s \in DOMAIN shards :
                  IF s \in Affected(n) THEN Replaces(n, H, shards[s], shards'[s])
                                       ELSE shards'[s] = shards[s]
            <3>1. \A new \in Rebalanced(n, healthy) :
                     /\ new \in [DOMAIN shards ->
                                    [primary : ClusterNode, replicas : SUBSET ClusterNode]]
                     /\ \A s \in DOMAIN shards :
                           IF s \in Affected(n) THEN Replaces(n, H, shards[s], new[s])
                                                ELSE new[s] = shards[s]
                  BY <1>3, TableRebalanced, Zenon
            <3> QED BY <2>1, <3>1, Zenon
      <2>3. ASSUME NEW s \in DOMAIN shards
            PROVE  /\ Holders(s)' \subseteq Members' \cup refused'
                   /\ Holders(s) \ {n} \subseteq {shards'[s].primary} \cup shards'[s].replicas
            <3>1. CASE s \in Affected(n)
                  BY <1>2, <1>3, <1>4, <1>6, <2>2, <3>1 DEF Replaces, Holders
            <3>2. CASE s \notin Affected(n)
                  <4>1. n \notin Holders(s) /\ shards'[s] = shards[s]
                        BY <2>2, <3>2 DEF Affected
                  <4> QED BY <1>2, <1>4, <1>6, <4>1 DEF Holders
            <3> QED BY <3>1, <3>2
      <2>4. OnlyFailedRemovalsOrphan'
            BY <2>2, <2>3 DEF OnlyFailedRemovalsOrphan
      <2>5. MembershipTypeOK'
            BY <1>1, <1>2, <1>6, <2>2 DEF MembershipTypeOK, WorkOn
      <2> QED BY <2>3, <2>4, <2>5
<1>7. CASE refused' = refused \cup {n} /\ UNCHANGED <<shards, work>>
      <2>1. OnlyFailedRemovalsOrphan'
            BY <1>2, <1>4, <1>7 DEF OnlyFailedRemovalsOrphan, Holders
      <2>2. MembershipTypeOK'
            BY <1>1, <1>2, <1>7 DEF MembershipTypeOK
      <2> QED BY <1>7, <2>1, <2>2 DEF Holders
<1> QED BY <1>5, <1>6, <1>7 DEF RemoveMember, H, remaining

\* Any other step of the manager and its service.
LEMMA OtherMemberSteps ==
    ASSUME MembershipTypeOK, OnlyFailedRemovalsOrphan
    PROVE  /\ \A t \in ServiceTask, n \in ClusterNode :
                 AddMember(t, n) => MembershipTypeOK' /\ OnlyFailedRemovalsOrphan'
           /\ \A t \in ServiceTask :
                 BalanceAdd(t) \/ BalanceRemove(t) => MembershipTypeOK' /\ OnlyFailedRemovalsOrphan'
           /\ \A s \in Seed : SeedProbed(s) => MembershipTypeOK' /\ OnlyFailedRemovalsOrphan'
           /\ \A seen \in SeedInfo :
                 JoinCluster(seen) => MembershipTypeOK' /\ OnlyFailedRemovalsOrphan'
           /\ LeaveCluster => MembershipTypeOK' /\ OnlyFailedRemovalsOrphan'
           /\ \A silent : MonitorClusterHealth(silent) =>
                 MembershipTypeOK' /\ OnlyFailedRemovalsOrphan'
           /\ \A n : UpdateNodeState(n) => MembershipTypeOK' /\ OnlyFailedRemovalsOrphan'
           /\ UNCHANGED memberVars => MembershipTypeOK' /\ OnlyFailedRemovalsOrphan'
<1>1. ASSUME NEW t \in ServiceTask, NEW n \in ClusterNode, AddMember(t, n)
      PROVE  MembershipTypeOK' /\ OnlyFailedRemovalsOrphan'
      <2>1. nodes' = [m \in Members \cup {n} |-> IF m = n THEN "Healthy" ELSE nodes[m]]
            BY <1>1 DEF AddMember
      <2>2. UNCHANGED <<shards, balancer, refused>> /\ WorkOn(t, "balance_add", n)
            BY <1>1 DEF AddMember
      <2>3. Members' = Members \cup {n} /\ nodes' \in [Members' -> {"Healthy", "Unhealthy"}]
            BY <2>1 DEF Members, MembershipTypeOK
      <2> QED BY <2>2, <2>3 DEF MembershipTypeOK, OnlyFailedRemovalsOrphan, Holders, WorkOn
<1>2. ASSUME NEW t \in ServiceTask, BalanceAdd(t) \/ BalanceRemove(t)
      PROVE  MembershipTypeOK' /\ OnlyFailedRemovalsOrphan'
      <2>1. /\ UNCHANGED <<nodes, shards, refused>> /\ WorkDone(t)
            /\ \/ WorkAt(t, "balance_add") /\ balancer' = balancer \cup {work[t].node}
               \/ balancer' = balancer \ {work[t].node}
            BY <1>2 DEF BalanceAdd, BalanceRemove, info
      <2>2. WorkAt(t, "balance_add") => work[t].node \in ClusterNode
            BY DEF WorkAt, MembershipTypeOK
      <2>3. balancer' \subseteq ClusterNode \cup Seed \cup {Local}
            BY <2>1, <2>2 DEF MembershipTypeOK
      <2>4. work' \in [ServiceTask -> [pc : {"idle"}]
                         \cup [pc : {"balance_add", "balance_remove"}, node : ClusterNode]]
            BY <2>1 DEF MembershipTypeOK, WorkDone
      <2> QED BY <2>1, <2>3, <2>4
              DEF MembershipTypeOK, OnlyFailedRemovalsOrphan, Holders, Members
<1>3. ASSUME NEW s \in Seed, SeedProbed(s)
      PROVE  MembershipTypeOK' /\ OnlyFailedRemovalsOrphan'
      BY <1>3 DEF SeedProbed, info, MembershipTypeOK, OnlyFailedRemovalsOrphan, Holders, Members
<1>4. ASSUME NEW seen \in SeedInfo, JoinCluster(seen)
      PROVE  MembershipTypeOK' /\ OnlyFailedRemovalsOrphan'
      <2>1. /\ nodes' = seen.nodes /\ shards' = seen.shards /\ refused' = {}
            /\ UNCHANGED <<balancer, work>>
            BY <1>4 DEF JoinCluster
      <2>2. /\ seen.nodes \in [DOMAIN seen.nodes -> {"Healthy", "Unhealthy"}]
            /\ seen.shards \in [DOMAIN seen.shards -> [primary  : DOMAIN seen.nodes,
                                                      replicas : SUBSET DOMAIN seen.nodes]]
            /\ DOMAIN seen.nodes \subseteq ClusterNode /\ DOMAIN seen.shards \subseteq TableShard
            BY MembershipAssumption
      <2>3. ASSUME NEW s \in DOMAIN shards'
            PROVE  /\ shards'[s] \in [primary : ClusterNode, replicas : SUBSET ClusterNode]
                   /\ Holders(s)' \subseteq Members'
            BY <2>1, <2>2 DEF Holders, Members
      <2>4. shards' \in [DOMAIN shards' -> [primary : ClusterNode, replicas : SUBSET ClusterNode]]
            BY <2>1, <2>2, <2>3
      <2> QED BY <2>1, <2>2, <2>3, <2>4
              DEF MembershipTypeOK, OnlyFailedRemovalsOrphan, Members
<1>5. ASSUME nodes' = << >>, shards' = << >>, UNCHANGED <<balancer, work>>
      PROVE  MembershipTypeOK' /\ OnlyFailedRemovalsOrphan'
      BY <1>5 DEF MembershipTypeOK, OnlyFailedRemovalsOrphan, Members
<1>6. ASSUME LeaveCluster PROVE MembershipTypeOK' /\ OnlyFailedRemovalsOrphan'
      BY <1>5, <1>6 DEF LeaveCluster
<1>7. ASSUME UNCHANGED <<shards, balancer, work, refused>>,
             nodes' \in [Members -> {"Healthy", "Unhealthy"}]
      PROVE  MembershipTypeOK' /\ OnlyFailedRemovalsOrphan'
      <2>1. Members' = Members
            BY <1>7 DEF Members
      <2> QED BY <1>7, <2>1 DEF MembershipTypeOK, OnlyFailedRemovalsOrphan, Holders
<1>8. ASSUME NEW silent, MonitorClusterHealth(silent)
      PROVE  MembershipTypeOK' /\ OnlyFailedRemovalsOrphan'
      BY <1>7, <1>8 DEF MonitorClusterHealth, MembershipTypeOK
<1>9. ASSUME NEW n, UpdateNodeState(n)
      PROVE  MembershipTypeOK' /\ OnlyFailedRemovalsOrphan'
      BY <1>7, <1>9 DEF UpdateNodeState, MembershipTypeOK
<1>10. ASSUME UNCHANGED memberVars PROVE MembershipTypeOK' /\ OnlyFailedRemovalsOrphan'
      BY <1>7, <1>10 DEF memberVars, MembershipTypeOK
<1> QED BY <1>1, <1>2, <1>3, <1>4, <1>6, <1>8, <1>9, <1>10

LEMMA MembershipInvariance == MembershipSpec => [](MembershipTypeOK /\ OnlyFailedRemovalsOrphan)
<1> DEFINE Sound == MembershipTypeOK /\ OnlyFailedRemovalsOrphan
<1>1. MembershipInit => Sound
      BY DEF MembershipInit, MembershipTypeOK, OnlyFailedRemovalsOrphan, Members
<1>2. Sound /\ [MembershipNext]_memberVars => Sound'
      <2> SUFFICES ASSUME Sound, [MembershipNext]_memberVars PROVE Sound'
          OBVIOUS
      <2> QED BY MemberRemoved, OtherMemberSteps DEF MembershipNext
<1> QED BY <1>1, <1>2, PTL DEF MembershipSpec

\* For any members, tables of seeds and concurrent calls: shards name a lost node
\* only when no healthy one was left to replace it, and a member that goes costs
\* no other member its copy (cluster.rs:668).
THEOREM RemovalsAlwaysLoseNothing == MembershipSpec => RemovalsLoseNothing
<1> DEFINE Sound == MembershipTypeOK /\ OnlyFailedRemovalsOrphan
           Keeps == \A n \in ClusterNode : (\E t \in ServiceTask : RemoveMember(t, n)) =>
                       \A s \in DOMAIN shards :
                           Holders(s) \ {n} \subseteq
                               {shards'[s].primary} \cup shards'[s].replicas
<1>1. Sound => Keeps
      BY MemberRemoved
<1>2. Sound /\ [MembershipNext]_memberVars => [Keeps]_memberVars
      BY <1>1
<1> QED BY <1>2, MembershipInvariance, PTL
        DEF MembershipSpec, RemovalsLoseNothing, RemovalKeepsOtherCopies
=============================================================================
