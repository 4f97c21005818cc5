-------------------------- MODULE EmbeddedDBProofs --------------------------
(***************************************************************************)
(* Closing waits for the calls that run and leaves everything on disk, for *)
(* any number of threads, identifiers, commits and operations, with sled's *)
(* flusher and crashes at any point.  What serves the database in the same *)
(* process is proved after it, for any callers, keys and timings: accounts *)
(* and limits, the index file, the query cache, network connections, pools *)
(* and breakers, work stealing, and the command loop of the node.          *)
(***************************************************************************)
EXTENDS EmbeddedDB, Accounts, QueryEngine, NetworkConnections, Resilience,
        TaskQueues, CommandLoop, SequenceTheorems, FiniteSetTheorems, WellFoundedInduction, TLAPS

Content == [vectors : SUBSET Id, metadata : SUBSET Id]

CallRecord == [pc : {"idle", "upsert", "delete", "search"}, ids : SUBSET Id, todo : Seq(Id)]

\* The calls that run.
Busy == {t \in Thread : call[t] # Idle}

\* The types of the journal and of the calls, which TypeOK leaves out.
PartsTyped ==
    /\ journal \in Seq(Content)
    /\ call \in [Thread -> CallRecord]

\* Calls begin in the state Ready only, and close, which takes the database by
\* value, waits for them: in every other state none is under way.
CallsOnlyWhenReady == state # "Ready" => Busy = {}

Inv == CloseIsExact /\ PartsTyped /\ CallsOnlyWhenReady

-----------------------------------------------------------------------------
(* Contents of the trees.                                                  *)

\* What the trees hold now is typed, and a vector has its metadata.
LEMMA NowIsSound ==
    ASSUME Inv
    PROVE  Now \in Content /\ Now.vectors = Now.metadata
<1>1. Len(journal) \in Nat /\ Len(journal) # 0
      BY EmptySeq, LenProperties DEF Inv, CloseIsExact, TypeOK, PartsTyped
<1>2. Len(journal) \in DOMAIN journal
      BY <1>1, LenProperties DEF Inv, PartsTyped
<1> QED BY <1>1, <1>2, ElementOfSeq
        DEF Inv, CloseIsExact, PartsTyped, VectorsMatchMetadata, Now, Last

\* What a journal of sound contents has to satisfy.
JournalSound(j) ==
    /\ j \in Seq(Content) /\ j # << >> /\ Len(j) <= MaxJournal
    /\ \A k \in DOMAIN j : j[k] \in Content /\ j[k].vectors = j[k].metadata

\* A commit of a sound content.
LEMMA CommitIsSound ==
    ASSUME EmbeddedAssumption, Inv, NEW content \in Content,
           content.vectors = content.metadata, Commit(content)
    PROVE  JournalSound(journal')
<1>1. journal \in Seq(Content) /\ journal' = Append(journal, content)
      BY DEF Inv, PartsTyped, Commit
<1>2. \A k \in 1..Len(journal) : journal[k].vectors = journal[k].metadata
      BY <1>1, LenProperties DEF Inv, CloseIsExact, VectorsMatchMetadata
<1>3. /\ journal' \in Seq(Content) /\ journal' # << >>
      /\ Len(journal') = Len(journal) + 1
      /\ \A k \in 1..Len(journal) : journal'[k] = journal[k]
      /\ journal'[Len(journal) + 1] = content
      BY <1>1, AppendProperties
<1>4. Len(journal) \in Nat /\ DOMAIN journal' = 1..Len(journal) + 1
      BY <1>1, <1>3, LenProperties
<1>5. Len(journal') <= MaxJournal
      BY <1>3, <1>4 DEF Commit, EmbeddedAssumption
<1>6. \A k \in DOMAIN journal' : journal'[k] \in Content
      BY <1>3, ElementOfSeq, LenProperties
<1>7. \A k \in DOMAIN journal' : journal'[k].vectors = journal'[k].metadata
      BY <1>2, <1>3, <1>4
<1> QED BY <1>3, <1>5, <1>6, <1>7 DEF JournalSound

\* A journal of one sound content, after a flush or a crash.
LEMMA OneContentIsSound ==
    ASSUME EmbeddedAssumption, NEW content \in Content,
           content.vectors = content.metadata
    PROVE  JournalSound(<<content>>) /\ Len(<<content>>) = 1
BY DEF JournalSound, EmbeddedAssumption

\* The end of a sound journal.
LEMMA SuffixIsSound ==
    ASSUME EmbeddedAssumption, Inv, NEW k \in 1..Len(journal)
    PROVE  /\ JournalSound(SubSeq(journal, k, Len(journal)))
           /\ Len(SubSeq(journal, k, Len(journal))) = Len(journal) - k + 1
<1> DEFINE rest == SubSeq(journal, k, Len(journal))
<1>1. journal \in Seq(Content) /\ Len(journal) \in Nat
      BY LenProperties DEF Inv, PartsTyped
<1>2. \A i \in 1..Len(journal) :
          journal[i] \in Content /\ journal[i].vectors = journal[i].metadata
      BY <1>1, ElementOfSeq, LenProperties DEF Inv, CloseIsExact, VectorsMatchMetadata
<1>3. /\ rest \in Seq(Content) /\ Len(rest) = Len(journal) - k + 1
      /\ \A i \in 1..Len(journal) - k + 1 : rest[i] = journal[k + i - 1]
      BY <1>1, <1>2, SubSeqProperties
<1>4. \A i \in 1..Len(journal) - k + 1 : k + i - 1 \in 1..Len(journal)
      BY <1>1
<1> HIDE DEF rest
<1>5. DOMAIN rest = 1..Len(journal) - k + 1
      BY <1>3, LenProperties
<1>6. Len(rest) <= MaxJournal /\ rest # << >>
      <2>1. Len(rest) # 0 /\ Len(rest) <= Len(journal) /\ Len(rest) \in Nat
            BY <1>1, <1>3
      <2> QED BY <1>1, <2>1, EmptySeq DEF Inv, CloseIsExact, TypeOK, EmbeddedAssumption
<1> QED BY <1>2, <1>3, <1>4, <1>5, <1>6 DEF JournalSound, rest

-----------------------------------------------------------------------------
(* Calls that run.                                                         *)

LEMMA BusyIsFinite ==
    ASSUME EmbeddedAssumption
    PROVE  IsFiniteSet(Busy) /\ Cardinality(Busy) \in Nat
<1>1. Busy \in SUBSET Thread
      BY DEF Busy
<1> QED BY <1>1, FS_Subset, FS_CardinalityType DEF EmbeddedAssumption

\* A call that begins is one more.
LEMMA OneMoreBusy ==
    ASSUME EmbeddedAssumption, PartsTyped, NEW t \in Thread, NEW r \in CallRecord,
           call[t] = Idle, r # Idle, call' = [call EXCEPT ![t] = r]
    PROVE  Cardinality(Busy') = Cardinality(Busy) + 1
<1>1. Busy' = Busy \cup {t} /\ t \notin Busy
      BY DEF Busy, PartsTyped
<1> QED BY <1>1, BusyIsFinite, FS_AddElement

\* A call that ends is one less, and there was one.
LEMMA OneLessBusy ==
    ASSUME EmbeddedAssumption, PartsTyped, NEW t \in Thread,
           call[t] # Idle, call' = [call EXCEPT ![t] = Idle]
    PROVE  Cardinality(Busy') = Cardinality(Busy) - 1 /\ Cardinality(Busy) >= 1
<1>1. Busy' = Busy \ {t} /\ t \in Busy
      BY DEF Busy, PartsTyped
<1>2. Cardinality(Busy) # 0
      BY <1>1, BusyIsFinite, FS_EmptySet
<1> QED BY <1>1, <1>2, BusyIsFinite, FS_RemoveElement

-----------------------------------------------------------------------------
(* The invariant by its parts.                                             *)

CountersSound ==
    /\ counters \in Counters /\ deletes \in Nat
    /\ counters.successful + counters.failed <= counters.operations
    /\ PendingIsCallsAndDeletes

States == {"down", "Initializing", "Ready", "Shutting", "Closed"}

LEMMA InvFromParts ==
    /\ state \in States /\ JournalSound(journal) /\ CountersSound
       /\ call \in [Thread -> CallRecord] /\ ClosedIsDurable /\ CallsOnlyWhenReady
       => Inv
    /\ Inv => state \in States /\ JournalSound(journal) /\ CountersSound
BY DEF Inv, CloseIsExact, TypeOK, PartsTyped, CountersSound, JournalSound, States,
       Content, VectorsMatchMetadata

LEMMA NextInvFromParts ==
    ASSUME state' \in States, JournalSound(journal'), CountersSound',
           call' \in [Thread -> CallRecord], ClosedIsDurable', CallsOnlyWhenReady'
    PROVE  Inv'
BY DEF Inv, CloseIsExact, TypeOK, PartsTyped, CountersSound, JournalSound, States,
       Content, VectorsMatchMetadata

LEMMA InvHoldsAtStart == ASSUME EmbeddedAssumption, Init PROVE Inv
<1> DEFINE nothing == [vectors |-> {}, metadata |-> {}]
<1>1. nothing \in Content /\ nothing.vectors = nothing.metadata
      BY DEF Content
<1>2. JournalSound(journal) /\ Len(journal) = 1
      BY <1>1, OneContentIsSound DEF Init
<1>3. call \in [Thread -> CallRecord] /\ Busy = {}
      BY EmptySeq DEF Init, Idle, CallRecord, Busy
<1> QED BY <1>2, <1>3, InvFromParts
        DEF Init, Zero, Counters, CountersSound, States, PendingIsCallsAndDeletes,
            ClosedIsDurable, CallsOnlyWhenReady

-----------------------------------------------------------------------------
(* Steps of the storage engine, and of the life of the database.           *)

LEMMA BeyondFirst ==
    ASSUME NEW n \in Nat, NEW k \in 2..n
    PROVE  k \in 1..n /\ n # 1
OBVIOUS

LEMMA FlushKeepsInv ==
    ASSUME EmbeddedAssumption, Inv, BackgroundFlush \/ Checkpoint
    PROVE  Inv'
<1>1. JournalSound(journal') /\ (state = "Closed" => Len(journal') = 1)
      <2>1. CASE BackgroundFlush
            <3>1. PICK k \in 2..Len(journal) : journal' = SubSeq(journal, k, Len(journal))
                  BY <2>1 DEF BackgroundFlush
            <3>2. Len(journal) \in Nat
                  <4>1. journal \in Seq(Content)
                        BY DEF Inv, PartsTyped
                  <4> QED BY <4>1, LenProperties
            <3>3. k \in 1..Len(journal) /\ Len(journal) # 1
                  BY <3>2, BeyondFirst
            <3> QED BY <3>1, <3>3, SuffixIsSound DEF Inv, CloseIsExact, ClosedIsDurable
      <2>2. CASE Checkpoint
            BY <2>2, NowIsSound, OneContentIsSound DEF Checkpoint, FlushAll
      <2> QED BY <2>1, <2>2
<1>2. UNCHANGED <<state, counters, call, deletes>>
      BY DEF BackgroundFlush, Checkpoint
<1>3. CountersSound' /\ CallsOnlyWhenReady' /\ call' \in [Thread -> CallRecord]
      BY <1>2, InvFromParts
      DEF Inv, PartsTyped, CallsOnlyWhenReady, CountersSound, Busy,
          PendingIsCallsAndDeletes, Pending
<1> QED BY <1>1, <1>2, <1>3, InvFromParts, NextInvFromParts DEF ClosedIsDurable

LEMMA OpenKeepsInv == ASSUME EmbeddedAssumption, Inv, Open PROVE Inv'
<1>1. Busy = {} /\ Busy' = {}
      BY DEF Inv, CallsOnlyWhenReady, Open, Busy
<1>2. CountersSound'
      BY <1>1, FS_EmptySet
      DEF Open, Zero, Counters, CountersSound, PendingIsCallsAndDeletes, Pending, Busy
<1> QED BY <1>1, <1>2, InvFromParts, NextInvFromParts
        DEF Open, Inv, PartsTyped, ClosedIsDurable, CallsOnlyWhenReady, States

\* Neither the counters nor the calls change, and the state is left with no
\* call under way.
LEMMA LifeKeepsInv ==
    ASSUME EmbeddedAssumption, Inv,
           \/ \E enabled \in BOOLEAN : Warmup(enabled)
           \/ BeginClose \/ FinishClose \/ Drop
    PROVE  Inv'
<1>1. UNCHANGED <<counters, call, deletes>>
      BY DEF Warmup, BeginClose, FinishClose, Drop
<1>2. Busy = {} /\ Busy' = {}
      BY <1>1 DEF Inv, CallsOnlyWhenReady, Warmup, BeginClose, FinishClose, Drop, Busy
<1>3. state # "down" /\ state' \in States
      BY DEF Warmup, BeginClose, FinishClose, Drop, States
<1>4. CountersSound'
      BY <1>1, <1>2, <1>3, InvFromParts
      DEF CountersSound, PendingIsCallsAndDeletes, Pending, Busy
<1>5. JournalSound(journal') /\ ClosedIsDurable'
      <2>1. CASE FinishClose /\ Pending <= 0
            <3>1. counters \in Counters
                  BY InvFromParts DEF CountersSound
            <3>2. ~(Pending > 0)
                  BY <2>1, <3>1 DEF Pending, Counters
            <3> QED BY <2>1, <3>2, NowIsSound, OneContentIsSound
                    DEF FinishClose, FlushAll, ClosedIsDurable
      <2>2. CASE ~(FinishClose /\ Pending <= 0)
            <3>1. counters \in Counters
                  BY InvFromParts DEF CountersSound
            <3>2. FinishClose => Pending > 0
                  BY <2>2, <3>1 DEF Pending, Counters
            <3>3. journal' = journal /\ state' # "Closed"
                  BY <3>2 DEF Warmup, BeginClose, FinishClose, Drop
            <3> QED BY <3>3, InvFromParts DEF ClosedIsDurable
      <2> QED BY <2>1, <2>2
<1> QED BY <1>1, <1>2, <1>3, <1>4, <1>5, NextInvFromParts
        DEF Inv, PartsTyped, CallsOnlyWhenReady

LEMMA CrashKeepsInv == ASSUME EmbeddedAssumption, Inv, Crash PROVE Inv'
<1>1. PICK k \in DOMAIN journal : journal' = <<journal[k]>>
      BY DEF Crash
<1>2. JournalSound(journal')
      BY <1>1, InvFromParts, OneContentIsSound DEF JournalSound
<1>3. call' \in [Thread -> CallRecord] /\ Busy' = {}
      BY EmptySeq DEF Crash, Idle, CallRecord, Busy
<1> QED BY <1>2, <1>3, NextInvFromParts
        DEF Crash, Zero, Counters, CountersSound, States, PendingIsCallsAndDeletes,
            ClosedIsDurable, CallsOnlyWhenReady

-----------------------------------------------------------------------------
(* Calls.                                                                  *)

LEMMA BeginKeepsInv ==
    ASSUME EmbeddedAssumption, Inv, NEW t \in Thread, NEW pc \in {"upsert", "delete", "search"},
           NEW ids \in SUBSET Id, NEW todo \in Seq(Id), Begin(t, pc, ids, todo)
    PROVE  Inv'
<1> DEFINE r == [pc |-> pc, ids |-> ids, todo |-> todo]
<1>1. r \in CallRecord /\ r # Idle
      BY DEF CallRecord, Idle
<1>2. call' = [call EXCEPT ![t] = r] /\ call[t] = Idle /\ PartsTyped
      BY DEF Begin, Inv
<1> HIDE DEF r
<1>3. Cardinality(Busy') = Cardinality(Busy) + 1
      BY <1>1, <1>2, OneMoreBusy
<1>4. call' \in [Thread -> CallRecord]
      BY <1>1, <1>2 DEF PartsTyped
<1>5. CountersSound'
      <2>1. counters \in Counters /\ deletes' = deletes /\ deletes \in Nat
            /\ counters.successful + counters.failed <= counters.operations
            BY InvFromParts DEF CountersSound, Begin
      <2>2. counters' = [counters EXCEPT !.operations = @ + 1] /\ state = "Ready"
            BY DEF Begin
      <2>3. /\ counters' \in Counters
            /\ counters'.operations = counters.operations + 1
            /\ counters'.successful = counters.successful
            /\ counters'.failed = counters.failed
            BY <2>1, <2>2 DEF Counters
      <2>4. counters.operations \in Nat /\ counters.successful \in Nat /\ counters.failed \in Nat
            BY <2>1 DEF Counters
      <2>5. Pending = Cardinality(Busy) + deletes
            BY <2>2, InvFromParts DEF CountersSound, PendingIsCallsAndDeletes, Busy
      <2>6. Pending' = Cardinality(Busy') + deletes'
            BY <1>3, <2>1, <2>3, <2>4, <2>5, BusyIsFinite DEF Pending
      <2>7. counters'.successful + counters'.failed <= counters'.operations
            BY <2>1, <2>3, <2>4
      <2> QED BY <2>1, <2>3, <2>6, <2>7 DEF CountersSound, PendingIsCallsAndDeletes, Busy
<1> QED BY <1>4, <1>5, InvFromParts, NextInvFromParts
        DEF Begin, ClosedIsDurable, CallsOnlyWhenReady

\* A call under way means a database that is ready, and one operation pending.
LEMMA RunningMeansPending ==
    ASSUME EmbeddedAssumption, Inv, NEW t \in Thread, call[t] # Idle
    PROVE  state = "Ready" /\ Pending = Cardinality(Busy) + deletes /\ Cardinality(Busy) >= 1
<1>1. t \in Busy
      BY DEF Busy
<1>2. state = "Ready"
      BY <1>1 DEF Inv, CallsOnlyWhenReady
<1>3. Cardinality(Busy) # 0
      BY <1>1, BusyIsFinite, FS_EmptySet
<1> QED BY <1>2, <1>3, BusyIsFinite, InvFromParts
        DEF CountersSound, PendingIsCallsAndDeletes, Busy

\* What Succeed counts.
LEMMA SucceedCounts ==
    ASSUME counters \in Counters, NEW extra \in Nat, NEW t, Succeed(t, extra)
    PROVE  /\ counters' \in Counters
           /\ counters'.operations = counters.operations + extra
           /\ counters'.successful = counters.successful + 1
           /\ counters'.failed = counters.failed + 0
<1>1. counters.operations \in Nat /\ counters.successful \in Nat /\ counters.failed \in Nat
      BY DEF Counters
<1>2. counters' = [operations |-> counters.operations + extra,
                   successful |-> counters.successful + 1, failed |-> counters.failed]
      BY DEF Succeed, Counters
<1> QED BY <1>1, <1>2 DEF Counters

\* A call that ends, its counters written, over a sound journal.
LEMMA EndKeepsInv ==
    ASSUME EmbeddedAssumption, Inv, NEW t \in Thread, call[t] # Idle,
           call' = [call EXCEPT ![t] = Idle], UNCHANGED state, JournalSound(journal'),
           \/ Succeed(t, 0) /\ UNCHANGED deletes
           \/ Succeed(t, 1) /\ deletes' = deletes + 1
           \/ Fail(t)
    PROVE  Inv'
<1>1. PartsTyped
      BY DEF Inv
<1>2. call' \in [Thread -> CallRecord]
      BY <1>1, EmptySeq DEF PartsTyped, Idle, CallRecord
<1>3. Cardinality(Busy') = Cardinality(Busy) - 1
      BY <1>1, OneLessBusy
<1>4. state = "Ready" /\ Pending = Cardinality(Busy) + deletes /\ Cardinality(Busy) >= 1
      BY RunningMeansPending
<1>5. CountersSound'
      <2>1. counters \in Counters /\ deletes \in Nat /\ Cardinality(Busy) \in Nat
            BY InvFromParts, BusyIsFinite DEF CountersSound
      <2>2. PICK success \in {0, 1}, extra \in {0, 1} :
                /\ extra <= success
                /\ counters' \in Counters
                /\ counters'.operations = counters.operations + extra
                /\ counters'.successful = counters.successful + success
                /\ counters'.failed = counters.failed + (1 - success)
                /\ deletes' = deletes + extra
            <3>1. CASE Succeed(t, 0) /\ UNCHANGED deletes
                  <4>1. /\ counters' \in Counters
                        /\ counters'.operations = counters.operations + 0
                        /\ counters'.successful = counters.successful + 1
                        /\ counters'.failed = counters.failed + 0
                        BY <2>1, <3>1, SucceedCounts
                  <4> QED BY <2>1, <3>1, <4>1
            <3>2. CASE Succeed(t, 1) /\ deletes' = deletes + 1
                  <4>1. /\ counters' \in Counters
                        /\ counters'.operations = counters.operations + 1
                        /\ counters'.successful = counters.successful + 1
                        /\ counters'.failed = counters.failed + 0
                        BY <2>1, <3>2, SucceedCounts
                  <4> QED BY <2>1, <3>2, <4>1
            <3>3. CASE Fail(t)
                  <4>1. /\ counters' \in Counters
                        /\ counters'.operations = counters.operations + 0
                        /\ counters'.successful = counters.successful + 0
                        /\ counters'.failed = counters.failed + 1
                        BY <2>1, <3>3 DEF Fail, Counters
                  <4>2. deletes' = deletes + 0
                        BY <2>1, <3>3 DEF Fail
                  <4> QED BY <2>1, <4>1, <4>2
            <3> QED BY <3>1, <3>2, <3>3
      <2>4. counters.operations \in Nat /\ counters.successful \in Nat /\ counters.failed \in Nat
            BY <2>1 DEF Counters
      <2>5. deletes' \in Nat /\ counters'.successful + counters'.failed <= counters'.operations
            BY <1>4, <2>1, <2>2, <2>4 DEF Pending
      <2>6. Pending' = Cardinality(Busy') + deletes'
            BY <1>3, <1>4, <2>1, <2>2, <2>4 DEF Pending
      <2> QED BY <2>2, <2>5, <2>6 DEF CountersSound, PendingIsCallsAndDeletes, Busy
<1> QED BY <1>2, <1>4, <1>5, NextInvFromParts
        DEF States, ClosedIsDurable, CallsOnlyWhenReady

LEMMA UpsertKeepsInv ==
    ASSUME EmbeddedAssumption, Inv, NEW t \in Thread, Upsert(t)
    PROVE  Inv'
<1>1. call[t] \in CallRecord /\ call[t] # Idle
      BY DEF Inv, PartsTyped, Upsert, Idle
<1>2. With(call[t].ids) \in Content /\ With(call[t].ids).vectors = With(call[t].ids).metadata
      BY <1>1, NowIsSound DEF With, Content, CallRecord
<1>3. JournalSound(journal')
      BY <1>2, CommitIsSound DEF Upsert
<1> QED BY <1>1, <1>3, EndKeepsInv DEF Upsert, Succeed

\* The delete goes on with one identifier less; the calls that run stay so.
LEMMA DeleteOneKeepsInv ==
    ASSUME EmbeddedAssumption, Inv, NEW t \in Thread, DeleteOne(t)
    PROVE  Inv'
<1>1. call[t] \in CallRecord /\ call[t].todo # << >>
      BY DEF Inv, PartsTyped, DeleteOne
<1>2. Head(call[t].todo) \in Id /\ Tail(call[t].todo) \in Seq(Id)
      BY <1>1, HeadTailProperties DEF CallRecord
<1>3. JournalSound(journal')
      <2>1. CASE UNCHANGED journal
            BY <2>1, InvFromParts
      <2>2. CASE Commit(Without(Head(call[t].todo)))
            BY <1>2, <2>2, NowIsSound, CommitIsSound DEF Without, Content
      <2> QED BY <2>1, <2>2 DEF DeleteOne
<1>4. call' \in [Thread -> CallRecord] /\ Busy' = Busy
      <2> DEFINE r == [call[t] EXCEPT !.todo = Tail(call[t].todo)]
      <2>1. call' = [call EXCEPT ![t] = r]
            BY DEF DeleteOne
      <2>2. call \in [Thread -> CallRecord] /\ call[t].pc = "delete"
            BY DEF DeleteOne, Inv, PartsTyped
      <2>3. r \in CallRecord /\ r.pc = "delete"
            BY ONLY <1>1, <1>2, <2>2 DEF CallRecord
      <2> HIDE DEF r
      <2>4. call' \in [Thread -> CallRecord]
            BY ONLY <2>1, <2>2, <2>3
      <2>5. r # Idle /\ call[t] # Idle
            BY ONLY <2>2, <2>3 DEF Idle
      <2>6. \A u \in Thread : call'[u] = Idle <=> call[u] = Idle
            BY ONLY <2>1, <2>2, <2>5
      <2>7. Busy' = Busy
            BY ONLY <2>6 DEF Busy
      <2> QED BY <2>4, <2>7
<1>5. CountersSound' /\ CallsOnlyWhenReady' /\ ClosedIsDurable'
      <2>1. state = "Ready" /\ state' = state
            <3>1. call[t] # Idle
                  BY DEF DeleteOne, Idle
            <3> QED BY <3>1, RunningMeansPending DEF DeleteOne
      <2> QED BY <1>4, <2>1, InvFromParts
              DEF DeleteOne, CountersSound, PendingIsCallsAndDeletes, Pending, Busy,
                  CallsOnlyWhenReady, ClosedIsDurable
<1> QED BY <1>3, <1>4, <1>5, InvFromParts, NextInvFromParts DEF DeleteOne

\* The other ends of calls leave the journal alone.
LEMMA ReturnKeepsInv ==
    ASSUME EmbeddedAssumption, Inv, NEW t \in Thread,
           FinishDelete(t) \/ Search(t) \/ CallFails(t)
    PROVE  Inv'
<1>1. call[t] # Idle
      BY DEF FinishDelete, Search, CallFails, Idle
<1>2. JournalSound(journal') /\ UNCHANGED state
      BY InvFromParts DEF FinishDelete, Search, CallFails, Fail
<1> QED BY <1>1, <1>2, EndKeepsInv DEF FinishDelete, Search, CallFails, Succeed, Fail

-----------------------------------------------------------------------------
LEMMA StepKeepsInv == ASSUME EmbeddedAssumption, Inv, [Next]_vars PROVE Inv'
<1>1. CASE UNCHANGED vars
      BY <1>1 DEF vars, Inv, CloseIsExact, TypeOK, PartsTyped, CallsOnlyWhenReady, Busy,
                  VectorsMatchMetadata, PendingIsCallsAndDeletes, Pending, ClosedIsDurable
<1>2. CASE BackgroundFlush \/ Checkpoint
      BY <1>2, FlushKeepsInv
<1>3. CASE Open
      BY <1>3, OpenKeepsInv
<1>4. CASE (\E enabled \in BOOLEAN : Warmup(enabled)) \/ BeginClose \/ FinishClose \/ Drop
      BY <1>4, LifeKeepsInv
<1>5. CASE Crash
      BY <1>5, CrashKeepsInv
<1>6. ASSUME NEW t \in Thread, NEW ids \in Batch, Begin(t, "upsert", ids, << >>)
      PROVE  Inv'
      BY <1>6, BeginKeepsInv, EmptySeq DEF EmbeddedAssumption
<1>7. ASSUME NEW t \in Thread, NEW ids \in Doomed, Begin(t, "delete", {}, ids)
      PROVE  Inv'
      BY <1>7, BeginKeepsInv DEF EmbeddedAssumption
<1>8. ASSUME NEW t \in Thread, Begin(t, "search", {}, << >>)
      PROVE  Inv'
      BY <1>8, BeginKeepsInv, EmptySeq
<1>9. ASSUME NEW t \in Thread, Upsert(t) PROVE Inv'
      BY <1>9, UpsertKeepsInv
<1>10. ASSUME NEW t \in Thread, DeleteOne(t) PROVE Inv'
      BY <1>10, DeleteOneKeepsInv
<1>11. ASSUME NEW t \in Thread, FinishDelete(t) \/ Search(t) \/ CallFails(t) PROVE Inv'
      BY <1>11, ReturnKeepsInv
<1> QED BY <1>1, <1>2, <1>3, <1>4, <1>5, <1>6, <1>7, <1>8, <1>9, <1>10, <1>11 DEF Next

\* The inductive invariant holds in every behaviour.
THEOREM Invariance == Spec => []Inv
<1>1. Init => Inv
      BY EmbeddedAssumption, InvHoldsAtStart
<1>2. Inv /\ [Next]_vars => Inv'
      BY EmbeddedAssumption, StepKeepsInv
<1> QED BY <1>1, <1>2, PTL DEF Spec

\* close waits for exactly the calls that run and the deletes that counted
\* themselves twice; what it reports closed is on disk, and no crash ever leaves
\* a vector without its metadata (close_async, has_active_operations,
\* store_vector, batch_store_vectors, delete_vector).
THEOREM ClosingIsExact == Spec => []CloseIsExact
<1>1. Inv => CloseIsExact
      BY DEF Inv
<1> QED BY <1>1, Invariance, PTL
-----------------------------------------------------------------------------
(* Accounts: the bounds that logins leave behind.                          *)

LEMMA LeastNumber ==
    ASSUME NEW S \in SUBSET Nat, S # {}
    PROVE  Min(S) \in S /\ \A y \in S : Min(S) <= y
<1>1. PICK x \in S : \A y \in S : <<y, x>> \notin OpToRel(<, Nat)
      BY NatLessThanWellFounded, WFMin
<1>2. \A y \in S : ~ (y < x)
      BY <1>1 DEF OpToRel
<1>3. \E z \in S : \A y \in S : z <= y
      BY <1>2
<1> QED BY <1>3 DEF Min

\* A finite set of numbers has a greatest one: take a smallest set without.
LEMMA GreatestNumber ==
    ASSUME NEW P \in SUBSET Nat, IsFiniteSet(P), P # {}
    PROVE  Max(P) \in P /\ \A y \in P : y <= Max(P)
<1> DEFINE Topped(S) == \E x \in S : \A y \in S : y <= x
           Sizes == {k \in Nat : \E S \in SUBSET P : S # {} /\ Cardinality(S) = k /\ ~Topped(S)}
<1>1. Sizes = {}
      <2> SUFFICES ASSUME Sizes # {} PROVE FALSE
          OBVIOUS
      <2>1. Sizes \in SUBSET Nat
            OBVIOUS
      <2>2. Min(Sizes) \in Sizes /\ \A k \in Sizes : Min(Sizes) <= k
            BY <2>1, LeastNumber
      <2>3. PICK S \in SUBSET P : S # {} /\ Cardinality(S) = Min(Sizes) /\ ~Topped(S)
            BY <2>2
      <2>4. PICK x \in S : TRUE
            BY <2>3
      <2> DEFINE R == S \ {x}
      <2>5. IsFiniteSet(S) /\ Cardinality(S) \in Nat
            BY FS_Subset, FS_CardinalityType
      <2>6. IsFiniteSet(R) /\ Cardinality(R) = Cardinality(S) - 1 /\ Cardinality(R) \in Nat
            BY <2>4, <2>5, FS_RemoveElement, FS_CardinalityType
      <2>7. CASE R = {}
            <3>1. S = {x} /\ x \in Nat
                  BY <2>4, <2>7
            <3> QED BY <3>1, <2>3
      <2>8. CASE R # {} /\ ~Topped(R)
            <3>1. Cardinality(R) \in Sizes
                  BY <2>6, <2>8
            <3> HIDE DEF Sizes
            <3>2. Min(Sizes) <= Cardinality(R)
                  BY <3>1, <2>2
            <3> QED BY <3>2, <2>3, <2>5, <2>6
      <2>9. CASE Topped(R)
            <3>1. PICK m \in R : \A y \in R : y <= m
                  BY <2>9
            <3>2. m \in Nat /\ x \in Nat /\ \A y \in S : y = x \/ y <= m
                  BY <3>1, <2>4
            <3>3. CASE x <= m
                  BY <3>1, <3>2, <3>3, <2>3
            <3>4. CASE m <= x
                  BY <3>1, <3>2, <3>4, <2>3, <2>4
            <3> QED BY <3>2, <3>3, <3>4
      <2> QED BY <2>7, <2>8, <2>9
<1>2. Cardinality(P) \in Nat
      BY FS_CardinalityType
<1>3. Topped(P)
      BY <1>1, <1>2
<1> QED BY <1>3 DEF Max

\* The logins of a name between their two looks at its failures.
Attempting(n) == {t \in Task : login[t].at = "login" /\ login[t].name = n}

\* Every login under way may become a failure; it began when there was room for
\* one by the policy of that time.
LoginsCounted ==
    /\ login_attempts \in [Name -> Nat]
    /\ max_login_attempts \in Policies
    /\ DOMAIN login = Task
    /\ \A t \in Task : login[t].at = "login" => login[t].name \in Name
    /\ \A n \in Name :
          login_attempts[n] + Cardinality(Attempting(n)) <= Max(Policies) - 1 + Cardinality(Task)

AuditSound ==
    /\ audit_log \in Seq(Nat) /\ logged \in Nat
    /\ Len(audit_log) >= logged \/ Len(audit_log) >= LogSize + 1 - LogDrop
    /\ \A i \in 1..Len(audit_log) : audit_log[i] = logged - Len(audit_log) + i

LEMMA LogKeepsAudit ==
    ASSUME AuditSound, Log \/ NotLogged
    PROVE  AuditSound'
<1>1. CASE NotLogged
      BY <1>1 DEF NotLogged, AuditSound
<1>2. CASE Log
      <2> DEFINE longer == Append(audit_log, logged + 1)
                 n == Len(audit_log)
      <2>1. /\ audit_log \in Seq(Nat) /\ logged \in Nat /\ n \in Nat
            /\ LogSize \in Nat /\ LogDrop \in 1..LogSize
            /\ n >= logged \/ n >= LogSize + 1 - LogDrop
            /\ \A i \in 1..n : audit_log[i] = logged - n + i
            BY AccountAssumption, LenProperties DEF AuditSound
      <2>2. /\ longer \in Seq(Nat) /\ Len(longer) = n + 1
            /\ \A i \in 1..n : longer[i] = audit_log[i]
            /\ longer[n + 1] = logged + 1
            BY <2>1, AppendProperties
      <2>3. /\ logged' = logged + 1
            /\ audit_log' = IF Len(longer) > LogSize
                            THEN SubSeq(longer, LogDrop + 1, Len(longer)) ELSE longer
            BY <1>2 DEF Log
      <2> HIDE DEF longer, n
      <2>4. \A i \in 1..n + 1 : longer[i] = logged - n + i
            BY <2>1, <2>2
      <2>5. CASE n + 1 <= LogSize
            <3>1. audit_log' = longer
                  BY <2>1, <2>2, <2>3, <2>5
            <3> QED BY <3>1, <2>1, <2>2, <2>3, <2>4 DEF AuditSound
      <2>6. CASE n + 1 > LogSize
            <3> DEFINE kept == SubSeq(longer, LogDrop + 1, n + 1)
                       m == n + 1 - LogDrop
            <3>1. audit_log' = kept
                  BY <2>2, <2>3, <2>6
            <3>2. /\ LogDrop + 1 \in 1..n + 2 /\ n + 1 \in LogDrop..n + 1
                  /\ m \in Nat
                  BY <2>1, <2>6
            <3>3. \A i \in LogDrop + 1..n + 1 : longer[i] \in Nat
                  BY <2>1, <2>2, <3>2
            <3>4. /\ kept \in Seq(Nat) /\ Len(kept) = m
                  /\ \A i \in 1..m : kept[i] = longer[LogDrop + 1 + i - 1]
                  BY <2>1, <2>2, <3>2, <3>3, SubSeqProperties
            <3> HIDE DEF kept
            <3>5. ASSUME NEW i \in 1..m
                  PROVE  kept[i] = logged' - m + i
                  <4>1. LogDrop + 1 + i - 1 = LogDrop + i /\ LogDrop + i \in 1..n + 1
                        BY <2>1, <3>2
                  <4>2. kept[i] = logged - n + (LogDrop + i)
                        BY <4>1, <2>4, <3>4
                  <4> QED BY <4>2, <2>1, <2>3
            <3>6. m >= LogSize + 1 - LogDrop
                  BY <2>1, <2>6
            <3>7. logged' \in Nat
                  BY <2>1, <2>3
            <3> QED BY <3>1, <3>4, <3>5, <3>6, <3>7 DEF AuditSound
      <2> QED BY <2>1, <2>5, <2>6
<1> QED BY <1>1, <1>2

\* Every operation logs one entry or none.
LEMMA AccountStepLogs ==
    ASSUME [AccountNext]_accountVars
    PROVE  Log \/ NotLogged
<1>1. CASE UNCHANGED accountVars
      BY <1>1 DEF accountVars, NotLogged
<1>2. CASE AccountNext
      BY <1>2 DEF AccountNext, LockoutPasses, CreateAdminUser, CreateUser, BeginLogin,
         FinishLogin, FinishCall, Refusals, KeyExpires, CreateApiKey, RevokeApiKey,
         CheckPermission, BeginCallById, BeginCallWithKey, Authenticate, UpdatePolicy
<1> QED BY <1>1, <1>2

LEMMA LoginFacts ==
    ASSUME LoginsCounted
    PROVE  /\ Max(Policies) \in Policies /\ \A m \in Policies : m \in Nat /\ m > 0 /\ m <= Max(Policies)
           /\ Cardinality(Task) \in Nat /\ IsFiniteSet(Task)
           /\ \A n \in Name : IsFiniteSet(Attempting(n)) /\ Cardinality(Attempting(n)) \in Nat
                              /\ Cardinality(Attempting(n)) <= Cardinality(Task)
<1>1. Policies \in SUBSET Nat /\ 0 \notin Policies /\ Policies # {} /\ IsFiniteSet(Policies)
      /\ IsFiniteSet(Task)
      BY AccountAssumption
<1>2. Max(Policies) \in Policies /\ \A m \in Policies : m <= Max(Policies)
      BY <1>1, GreatestNumber
<1>3. \A n \in Name : Attempting(n) \in SUBSET Task
      BY DEF Attempting
<1> QED BY <1>1, <1>2, <1>3, FS_Subset, FS_CardinalityType

\* What no operation on users, keys and permissions touches.
LEMMA QuietKeepsLogins ==
    ASSUME LoginsCounted, UNCHANGED <<login_attempts, login>>, max_login_attempts' \in Policies
    PROVE  LoginsCounted'
BY DEF LoginsCounted, Attempting

\* A call comes or goes; logins stay.
LEMMA CallsKeepLogins ==
    ASSUME LoginsCounted, UNCHANGED <<login_attempts, max_login_attempts>>,
           NEW t \in Task, login[t].at # "login",
           NEW c, c.at # "login", login' = [login EXCEPT ![t] = c]
    PROVE  LoginsCounted'
<1>1. DOMAIN login' = Task /\ \A u \in Task : login'[u] = IF u = t THEN c ELSE login[u]
      BY DEF LoginsCounted
<1>2. \A n \in Name : Attempting(n)' = Attempting(n)
      BY <1>1 DEF Attempting
<1> QED BY <1>1, <1>2 DEF LoginsCounted

LEMMA BeginLoginKeepsLogins ==
    ASSUME LoginsCounted, NEW t \in Task, NEW n \in Name, NEW p \in Password, BeginLogin(t, n, p)
    PROVE  LoginsCounted'
<1> DEFINE record == [at |-> "login", name |-> n, password |-> p]
<1>1. login[t].at = "idle" /\ max_login_attempts' = max_login_attempts
      BY DEF BeginLogin, NoLogin
<1>2. CASE UNCHANGED <<login, login_attempts>>
      BY <1>1, <1>2, QuietKeepsLogins DEF LoginsCounted
<1>3. ASSUME login' = [login EXCEPT ![t] = record], NEW count \in Nat,
             count < Max(Policies), login_attempts' = [login_attempts EXCEPT ![n] = count]
      PROVE  LoginsCounted'
      <2>1. DOMAIN login' = Task /\ \A u \in Task : login'[u] = IF u = t THEN record ELSE login[u]
            BY <1>3 DEF LoginsCounted
      <2>2. login_attempts' \in [Name -> Nat]
            /\ \A m \in Name : login_attempts'[m] = IF m = n THEN count ELSE login_attempts[m]
            BY <1>3 DEF LoginsCounted
      <2>3. \A m \in Name \ {n} : Attempting(m)' = Attempting(m)
            BY <1>1, <2>1 DEF Attempting
      <2>4. Attempting(n)' \in SUBSET Task
            BY DEF Attempting
      <2>5. Cardinality(Attempting(n)') \in Nat /\ Cardinality(Attempting(n)') <= Cardinality(Task)
            BY <2>4, LoginFacts, FS_Subset, FS_CardinalityType
      <2>6. Max(Policies) \in Nat /\ Cardinality(Task) \in Nat
            BY LoginFacts
      <2>7. login_attempts'[n] + Cardinality(Attempting(n)') <= Max(Policies) - 1 + Cardinality(Task)
            BY <1>3, <2>2, <2>5, <2>6
      <2>8. \A m \in Name \ {n} : login_attempts'[m] + Cardinality(Attempting(m)')
                                      <= Max(Policies) - 1 + Cardinality(Task)
            BY <2>2, <2>3 DEF LoginsCounted
      <2>9. \A u \in Task : login'[u].at = "login" => login'[u].name \in Name
            BY <2>1 DEF LoginsCounted
      <2>10. \A m \in Name : login_attempts'[m] + Cardinality(Attempting(m)')
                                 <= Max(Policies) - 1 + Cardinality(Task)
            BY <2>7, <2>8
      <2> QED BY <1>1, <2>1, <2>2, <2>9, <2>10 DEF LoginsCounted
<1>4. CASE ~Locked(n) /\ login' = [login EXCEPT ![t] = record] /\ UNCHANGED login_attempts
      <2>1. login_attempts[n] \in Nat /\ login_attempts[n] < Max(Policies)
            BY <1>4, LoginFacts DEF LoginsCounted, Locked
      <2>2. login_attempts' = [login_attempts EXCEPT ![n] = login_attempts[n]]
            BY <1>4 DEF LoginsCounted
      <2> QED BY <1>3, <1>4, <2>1, <2>2
<1>5. CASE login' = [login EXCEPT ![t] = record]
           /\ login_attempts' = [login_attempts EXCEPT ![n] = 0]
      <2>1. 0 \in Nat /\ 0 < Max(Policies)
            BY LoginFacts
      <2> QED BY <1>3, <1>5, <2>1
<1> QED BY <1>2, <1>4, <1>5 DEF BeginLogin

LEMMA FinishLoginKeepsLogins ==
    ASSUME LoginsCounted, NEW t \in Task, FinishLogin(t)
    PROVE  LoginsCounted'
<1>0. PICK n \in Name : n = login[t].name
      BY DEF FinishLogin, LoginsCounted
<1>1. login[t].at = "login" /\ login' = [login EXCEPT ![t] = NoLogin]
      /\ max_login_attempts' = max_login_attempts
      BY DEF FinishLogin, LoginsCounted
<1>2. DOMAIN login' = Task /\ \A u \in Task : login'[u] = IF u = t THEN NoLogin ELSE login[u]
      BY <1>1 DEF LoginsCounted
<1>3. PICK count \in Nat : /\ login_attempts' = [login_attempts EXCEPT ![n] = count]
                           /\ count <= login_attempts[n] + 1
      BY <1>0, <1>1 DEF FinishLogin, LoginsCounted
<1>4. login_attempts' \in [Name -> Nat]
      /\ \A m \in Name : login_attempts'[m] = IF m = n THEN count ELSE login_attempts[m]
      BY <1>3 DEF LoginsCounted
<1>5. NoLogin.at # "login"
      BY DEF NoLogin
<1>6. \A m \in Name \ {n} : Attempting(m)' = Attempting(m)
      BY <1>0, <1>1, <1>2, <1>5 DEF Attempting
<1>7. Attempting(n)' = Attempting(n) \ {t} /\ t \in Attempting(n)
      BY <1>0, <1>1, <1>2, <1>5 DEF Attempting
<1>8. IsFiniteSet(Attempting(n)) /\ Cardinality(Attempting(n)) \in Nat
      BY <1>1, LoginFacts
<1>9. Cardinality(Attempting(n)') = Cardinality(Attempting(n)) - 1
      BY <1>7, <1>8, FS_RemoveElement
<1>10. login_attempts[n] \in Nat /\ Max(Policies) \in Nat /\ Cardinality(Task) \in Nat
       /\ login_attempts[n] + Cardinality(Attempting(n)) <= Max(Policies) - 1 + Cardinality(Task)
       BY <1>1, LoginFacts DEF LoginsCounted
<1>11. login_attempts'[n] + Cardinality(Attempting(n)') <= Max(Policies) - 1 + Cardinality(Task)
       BY <1>1, <1>3, <1>4, <1>8, <1>9, <1>10
<1>12. \A m \in Name \ {n} : login_attempts'[m] + Cardinality(Attempting(m)')
                                 <= Max(Policies) - 1 + Cardinality(Task)
       BY <1>4, <1>6 DEF LoginsCounted
<1>13. \A u \in Task : login'[u].at = "login" => login'[u].name \in Name
       BY <1>2, <1>5 DEF LoginsCounted
<1>14. \A m \in Name : login_attempts'[m] + Cardinality(Attempting(m)')
                           <= Max(Policies) - 1 + Cardinality(Task)
       BY <1>11, <1>12
<1> QED BY <1>1, <1>2, <1>4, <1>13, <1>14 DEF LoginsCounted

LEMMA AccountStepKeepsLogins ==
    ASSUME LoginsCounted, [AccountNext]_accountVars
    PROVE  LoginsCounted'
<1> DEFINE Quiet == UNCHANGED <<login_attempts, login, max_login_attempts>>
<1>1. CASE Quiet
      BY <1>1, QuietKeepsLogins DEF LoginsCounted
<1>2. ASSUME NEW n \in Name, LockoutPasses(n) \/ (\E p \in Password : CreateAdminUser(n, p))
                             \/ (\E roles \in SUBSET Role : CreateUser(n, roles))
      PROVE  Quiet
      BY <1>2 DEF LockoutPasses, CreateAdminUser, CreateUser
<1>3. ASSUME NEW n \in Name, NEW t \in Task, NEW p \in Password, BeginLogin(t, n, p)
      PROVE  LoginsCounted'
      BY <1>3, BeginLoginKeepsLogins
<1>4. ASSUME NEW t \in Task, FinishLogin(t)
      PROVE  LoginsCounted'
      BY <1>4, FinishLoginKeepsLogins
<1>5. ASSUME NEW t \in Task, FinishCall(t)
      PROVE  LoginsCounted'
      <2>1. /\ login[t].at # "login" /\ NoLogin.at # "login"
            /\ login' = [login EXCEPT ![t] = NoLogin]
            /\ UNCHANGED <<login_attempts, max_login_attempts>>
            BY <1>5 DEF FinishCall, NoLogin
      <2> QED BY <2>1, CallsKeepLogins
<1>6. ASSUME NEW k, KeyExpires(k) \/ (\E u \in DOMAIN users : CreateApiKey(u, k) \/ RevokeApiKey(u, k))
      PROVE  Quiet
      BY <1>6 DEF KeyExpires, CreateApiKey, RevokeApiKey
<1>7. ASSUME NEW t \in Task, NEW u, NEW p, Call(t, u, p), login[t] = NoLogin,
             UNCHANGED <<login_attempts, max_login_attempts>>
      PROVE  LoginsCounted'
      <2> DEFINE c == [at |-> "call", user |-> u, permission |-> p]
      <2>1. /\ login[t].at # "login" /\ c.at # "login"
            /\ login' = [login EXCEPT ![t] = c]
            BY <1>7 DEF Call, NoLogin
      <2> HIDE DEF c
      <2> QED BY <1>7, <2>1, CallsKeepLogins
<1>8. ASSUME NEW u, NEW p, CheckPermission(u, p)
      PROVE  Quiet
      BY <1>8 DEF CheckPermission
<1>9. ASSUME NEW t \in Task, NEW u, NEW p, BeginCallById(t, u, p)
      PROVE  LoginsCounted'
      BY <1>7, <1>9 DEF BeginCallById
<1>10. ASSUME NEW t \in Task, NEW k, NEW p, BeginCallWithKey(t, k, p)
       PROVE  LoginsCounted'
       <2>1. CASE UNCHANGED login
             BY <1>1, <1>10, <2>1 DEF BeginCallWithKey
       <2>2. ASSUME NEW u, Call(t, u, p)
             PROVE  LoginsCounted'
             BY <1>7, <1>10, <2>2 DEF BeginCallWithKey
       <2> QED BY <1>10, <2>1, <2>2 DEF BeginCallWithKey
<1>11. CASE Authenticate \/ UNCHANGED accountVars
       BY <1>1, <1>11 DEF Authenticate, accountVars
<1>12. ASSUME NEW max \in Policies, UpdatePolicy(max)
       PROVE  LoginsCounted'
       BY <1>12, QuietKeepsLogins DEF UpdatePolicy
<1> HIDE DEF Quiet
<1> QED BY <1>1, <1>2, <1>3, <1>4, <1>5, <1>6, <1>8, <1>9, <1>10, <1>11, <1>12 DEF AccountNext

\* However logins overlap, their counters and the audit log keep to the bounds of
\* the policy, for any number of tasks, users and policies (enterprise.rs:604-690).
THEOREM LoginsAlwaysLeaveBounds == AccountSpec => []LoginsLeaveBounds
<1> DEFINE AccountInv == LoginsCounted /\ AuditSound
<1>1. AccountInit => AccountInv
      <2> SUFFICES ASSUME AccountInit PROVE AccountInv
          OBVIOUS
      <2>1. /\ login_attempts = [n \in Name |-> 0] /\ login = [t \in Task |-> NoLogin]
            /\ max_login_attempts \in Policies /\ audit_log = << >> /\ logged = 0
            BY DEF AccountInit
      <2>2. \A n \in Name : Attempting(n) = {}
            BY <2>1 DEF Attempting, NoLogin
      <2>3. Cardinality({}) = 0
            BY FS_EmptySet
      <2>4. Policies \in SUBSET Nat /\ 0 \notin Policies /\ IsFiniteSet(Policies) /\ IsFiniteSet(Task)
            /\ LogSize \in Nat /\ LogDrop \in 1..LogSize
            BY AccountAssumption
      <2>5. Max(Policies) \in Policies
            BY <2>1, <2>4, GreatestNumber
      <2>6. Max(Policies) \in Nat /\ Max(Policies) # 0 /\ Cardinality(Task) \in Nat
            BY <2>4, <2>5, FS_CardinalityType
      <2>7. LoginsCounted
            <3>1. ASSUME NEW n \in Name
                  PROVE  login_attempts[n] + Cardinality(Attempting(n))
                             <= Max(Policies) - 1 + Cardinality(Task)
                  <4>1. login_attempts[n] = 0 /\ Cardinality(Attempting(n)) = 0
                        BY <2>1, <2>2, <2>3
                  <4> QED BY <4>1, <2>6
            <3> QED BY <2>1, <3>1 DEF LoginsCounted, NoLogin
      <2>8. << >> \in Seq(Nat) /\ Len(<< >>) = 0
            BY EmptySeq
      <2>9. AuditSound
            BY <2>1, <2>8 DEF AuditSound
      <2> QED BY <2>7, <2>9
<1>2. AccountInv /\ [AccountNext]_accountVars => AccountInv'
      BY AccountStepLogs, LogKeepsAudit, AccountStepKeepsLogins
<1>3. AccountInv => LoginsLeaveBounds
      <2> SUFFICES ASSUME AccountInv PROVE LoginsLeaveBounds
          OBVIOUS
      <2>1. ASSUME NEW n \in Name
            PROVE  login_attempts[n] <= Max(Policies) + Cardinality(Task) - 1
            <3>1. Max(Policies) \in Nat /\ Cardinality(Task) \in Nat
                  /\ Cardinality(Attempting(n)) \in Nat /\ login_attempts[n] \in Nat
                  BY LoginFacts DEF LoginsCounted
            <3> QED BY <3>1 DEF LoginsCounted
      <2>2. LogSize + 1 - LogDrop \in Nat /\ logged \in Nat /\ Len(audit_log) \in Nat
            BY AccountAssumption, LenProperties DEF AuditSound
      <2>3. {logged, LogSize + 1 - LogDrop} \in SUBSET Nat
            BY <2>2
      <2>4. Min({logged, LogSize + 1 - LogDrop}) \in Nat
            /\ Min({logged, LogSize + 1 - LogDrop}) <= logged
            /\ Min({logged, LogSize + 1 - LogDrop}) <= LogSize + 1 - LogDrop
            BY <2>3, LeastNumber
      <2>5. Len(audit_log) >= Min({logged, LogSize + 1 - LogDrop})
            BY <2>2, <2>4 DEF AuditSound
      <2>6. \A i \in DOMAIN audit_log : audit_log[i] = logged - Len(audit_log) + i
            BY LenProperties DEF AuditSound
      <2> QED BY <2>1, <2>5, <2>6 DEF LoginsLeaveBounds, FailuresBounded, AuditKeepsLatest
<1> QED BY <1>1, <1>2, <1>3, PTL DEF AccountSpec
-----------------------------------------------------------------------------
(* The file of the index (module QueryEngine)                                *)

\* A thread that saves or loads holds contents that were taken whole, and so
\* does the file unless it is torn or missing.
Handling == [at : {"captured", "writing", "loaded"}, data : captured]

FileInv ==
    /\ thread \in [FileThread -> {AtRest} \cup Handling]
    /\ file \in captured \cup {NoFile, Torn}

LEMMA FileInitially == FileInit => FileInv
  BY DEF FileInit, FileInv

\* Contents that were taken once stay taken.
LEMMA TakenStaysTaken ==
  ASSUME FileInv, captured \subseteq captured'
  PROVE  /\ thread \in [FileThread -> {AtRest} \cup Handling']
         /\ file \in captured' \cup {NoFile, Torn}
<1>1. Handling \subseteq Handling'
  BY DEF Handling
<1> QED BY <1>1 DEF FileInv

LEMMA FileStep == FileInv /\ [FileNext]_fileVars => FileInv'
<1> SUFFICES ASSUME FileInv, [FileNext]_fileVars PROVE FileInv'
  OBVIOUS
<1> USE DEF FileInv
<1>1. ASSUME NEW id \in SavedId, NEW vec \in SavedVec, AddToIndex(id, vec) PROVE FileInv'
  BY <1>1 DEF AddToIndex, Handling
<1>2. ASSUME NEW id \in SavedId, RemoveFromIndex(id) PROVE FileInv'
  BY <1>2 DEF RemoveFromIndex, Handling
<1>3. ASSUME NEW t \in FileThread, Capture(t) PROVE FileInv'
  <2>1. captured \subseteq captured' /\ live \in captured'
    BY <1>3 DEF Capture
  <2>2. [at |-> "captured", data |-> live] \in Handling'
    BY <2>1 DEF Handling
  <2>3. thread \in [FileThread -> {AtRest} \cup Handling'] /\ file \in captured' \cup {NoFile, Torn}
    BY <2>1, TakenStaysTaken
  <2> QED BY <1>3, <2>2, <2>3 DEF Capture
<1>4. ASSUME NEW t \in FileThread, OpenFile(t) PROVE FileInv'
  <2>1. thread[t] \in Handling
    BY <1>4 DEF OpenFile, AtRest
  <2>2. [thread[t] EXCEPT !.at = "writing"] \in Handling
    BY <2>1 DEF Handling
  <2>3. thread' = [thread EXCEPT ![t] = [thread[t] EXCEPT !.at = "writing"]]
    BY <1>4 DEF OpenFile
  <2>4. captured' = captured /\ file' = Torn
    BY <1>4 DEF OpenFile
  <2>5. Handling' = Handling
    BY <2>4 DEF Handling
  <2> QED BY <2>2, <2>3, <2>4, <2>5
<1>5. ASSUME NEW t \in FileThread, WriteFile(t) PROVE FileInv'
  <2>1. thread[t].data \in captured
    BY <1>5 DEF WriteFile, AtRest, Handling
  <2> QED BY <1>5, <2>1 DEF WriteFile, Handling
<1>6. ASSUME NEW t \in FileThread, WriteFails(t) PROVE FileInv'
  BY <1>6 DEF WriteFails, Handling
<1>7. ASSUME NEW t \in FileThread, ReadFile(t) PROVE FileInv'
  <2>1. [at |-> "loaded", data |-> file] \in Handling
    BY <1>7 DEF ReadFile, Handling
  <2>2. captured' = captured /\ file' = file
    BY <1>7 DEF ReadFile
  <2>3. Handling' = Handling
    BY <2>2 DEF Handling
  <2> QED BY <1>7, <2>1, <2>2, <2>3 DEF ReadFile
<1>8. ASSUME NEW t \in FileThread, ReplaceIndex(t) PROVE FileInv'
  BY <1>8 DEF ReplaceIndex, Handling
<1>9. CASE StopProcess
  BY <1>9 DEF StopProcess, Handling
<1>10. CASE UNCHANGED fileVars
  BY <1>10 DEF fileVars, Handling
<1> QED BY <1>1, <1>2, <1>3, <1>4, <1>5, <1>6, <1>7, <1>8, <1>9, <1>10 DEF FileNext

\* Only ReplaceIndex and a stop end a load.
LEMMA LoadStep ==
  ASSUME FileInv, FileNext,
         NEW t \in FileThread, thread[t].at = "loaded", thread'[t] = AtRest
  PROVE  live' \in captured \cup {<< >>}
<1>1. thread[t] # AtRest /\ thread[t] \in Handling
  BY DEF FileInv, AtRest
<1>2. thread[t].data \in captured
  BY <1>1 DEF Handling
<1>3. ASSUME NEW u \in FileThread, ReplaceIndex(u) PROVE live' \in captured
  <2>1. u = t
    BY <1>1, <1>3 DEF ReplaceIndex, FileInv
  <2> QED BY <2>1, <1>2, <1>3 DEF ReplaceIndex
<1>4. ASSUME NEW u \in FileThread,
             Capture(u) \/ OpenFile(u) \/ WriteFile(u) \/ WriteFails(u) \/ ReadFile(u)
      PROVE  FALSE
  <2>1. u # t
    BY <1>1, <1>4 DEF Capture, OpenFile, WriteFile, WriteFails, ReadFile
  <2>2. thread'[t] = thread[t]
    BY <1>4, <2>1 DEF FileInv, Capture, OpenFile, WriteFile, WriteFails, ReadFile
  <2> QED BY <2>2, <1>1
<1>5. ASSUME NEW id \in SavedId, NEW vec \in SavedVec, AddToIndex(id, vec) PROVE FALSE
  BY <1>1, <1>5 DEF AddToIndex
<1>6. ASSUME NEW id \in SavedId, RemoveFromIndex(id) PROVE FALSE
  BY <1>1, <1>6 DEF RemoveFromIndex
<1>7. CASE StopProcess
  BY <1>7 DEF StopProcess
<1> QED BY <1>3, <1>4, <1>5, <1>6, <1>7 DEF FileNext

\* A load gives the index contents it had as a whole at one moment, whatever
\* saves, loads, failed writes and restarts it ran beside: query.rs:269, 325.
THEOREM LoadsRestoreSnapshots == FileSpec => LoadRestoresSnapshot
<1>1. FileInv /\ [FileNext]_fileVars
        => [\A t \in FileThread :
              thread[t].at = "loaded" /\ thread'[t] = AtRest
                 => live' \in captured \cup {<< >>}]_fileVars
  BY LoadStep
<1> QED BY FileInitially, FileStep, <1>1, PTL DEF FileSpec, LoadRestoresSnapshot
-----------------------------------------------------------------------------
(* The cache of answers (module QueryEngine)                                *)

KeyOfCache == Text \X Limits
Answer == [text : Text, limit : Limits, seen : Nat]

\* A call that has missed the cache, and one that has read the store.
Missed == {r \in [at : {"missed"}, text : Text, limit : Limits, key : KeyOfCache] :
              r.key = <<r.text, r.limit>>}
Reading == {r \in [at : {"read"}, text : Text, limit : Limits, key : KeyOfCache, answer : Answer] :
              /\ r.key = <<r.text, r.limit>>
              /\ r.answer.text = r.text /\ r.answer.limit = r.limit}

\* What a key of the cache finds answers that key, and no answer in the cache or
\* on its way into it is older than the last clear allows.
QueryInv ==
    /\ default \in [Engine -> Limits]
    /\ writes \in Nat /\ floor \in Nat /\ floor <= writes
    /\ DOMAIN search = Engine
    /\ DOMAIN cache \subseteq KeyOfCache
    /\ \A k \in DOMAIN cache :
          /\ cache[k] \in Answer
          /\ cache[k].text = k[1] /\ cache[k].limit = k[2] /\ floor <= cache[k].seen
    /\ \A e \in Engine :
          /\ search[e].at \in {"idle", "missed", "read", "answered"}
          /\ search[e].at = "missed" => search[e] \in Missed
          /\ search[e].at = "read" =>
                search[e] \in Reading /\ floor <= search[e].answer.seen /\ search[e].answer.seen <= writes

LEMMA QueryInitially == QueryInit => QueryInv
  BY DEF QueryInit, QueryInv, NoSearch

LEMMA SearchBegins ==
  ASSUME QueryInv, NEW e \in Engine, NEW text \in Text, NEW limit \in Limits \cup {Absent},
         CachedSearch(e, text, limit)
  PROVE  /\ QueryInv'
         /\ search'[e].at = "answered" =>
               /\ search'[e].answer.text = search'[e].text
               /\ search'[e].answer.limit = search'[e].limit
               /\ search'[e].answer.seen >= floor
<1> DEFINE used == IF limit = Absent THEN default[e] ELSE limit
           key == <<text, used>>
           hit == [at |-> "answered", text |-> text, limit |-> used,
                   answer |-> cache[key], cached |-> TRUE]
           miss == [at |-> "missed", text |-> text, limit |-> used, key |-> key]
<1>1. used \in Limits /\ key \in KeyOfCache /\ key[1] = text /\ key[2] = used
  BY DEF QueryInv, KeyOfCache
<1>2. /\ search' = [search EXCEPT ![e] = IF key \in DOMAIN cache THEN hit ELSE miss]
      /\ UNCHANGED <<default, cache, writes, floor>>
  BY DEF CachedSearch, KeyOf
<1> HIDE DEF used, key
<1>3. /\ hit.at = "answered" /\ hit.text = text /\ hit.limit = used
      /\ hit.answer = cache[key]
  OBVIOUS
<1>5. miss \in Missed /\ miss.at = "missed"
  BY <1>1 DEF Missed, key
<1> HIDE DEF hit, miss
<1>6. search'[e] = (IF key \in DOMAIN cache THEN hit ELSE miss)
      /\ \A f \in Engine : f # e => search'[f] = search[f]
  BY <1>2 DEF QueryInv
<1>7. DOMAIN search' = Engine
  BY <1>2 DEF QueryInv
<1>8. QueryInv'
  BY <1>2, <1>3, <1>5, <1>6, <1>7 DEF QueryInv, Missed, Reading, Answer, KeyOfCache
<1>9. ASSUME key \in DOMAIN cache
      PROVE  cache[key] \in Answer /\ cache[key].text = text /\ cache[key].limit = used
                /\ floor <= cache[key].seen
  BY <1>1, <1>9 DEF QueryInv
<1>10. ASSUME search'[e].at = "answered"
       PROVE  /\ search'[e].answer.text = search'[e].text
              /\ search'[e].answer.limit = search'[e].limit
              /\ search'[e].answer.seen >= floor
  <2>1. search'[e] = hit /\ key \in DOMAIN cache
    BY <1>5, <1>6, <1>10
  <2>2. cache[key].seen \in Nat /\ floor \in Nat
    BY <1>9, <2>1 DEF Answer, QueryInv
  <2> QED BY <2>1, <2>2, <1>3, <1>9
<1> QED BY <1>8, <1>10

LEMMA StoreIsRead ==
  ASSUME QueryInv, NEW e \in Engine, ReadStore(e)
  PROVE  QueryInv' /\ search'[e].at = "read"
<1> DEFINE r == search[e]
           found == [text |-> r.text, limit |-> r.limit, seen |-> writes]
           read == [at |-> "read", text |-> r.text, limit |-> r.limit, key |-> r.key,
                    answer |-> found]
<1>1. r \in Missed /\ r.at = "missed"
  BY DEF QueryInv, ReadStore
<1>2. search' = [search EXCEPT ![e] = read] /\ UNCHANGED <<default, cache, writes, floor>>
  BY DEF ReadStore
<1> HIDE DEF r
<1>3. found \in Answer /\ found.seen = writes /\ found.text = r.text /\ found.limit = r.limit
  BY <1>1 DEF Answer, QueryInv, Missed
<1> HIDE DEF found
<1>5. read \in Reading /\ read.at = "read" /\ read.answer = found
  BY <1>1, <1>3 DEF Missed, Reading
<1> HIDE DEF read
<1>6. search'[e] = read /\ DOMAIN search' = Engine
      /\ \A f \in Engine : f # e => search'[f] = search[f]
  BY <1>2 DEF QueryInv
<1>7. QueryInv'
  BY <1>2, <1>3, <1>5, <1>6 DEF QueryInv, Missed, Reading, Answer, KeyOfCache
<1> QED BY <1>5, <1>6, <1>7

LEMMA AnswerIsInserted ==
  ASSUME QueryInv, NEW e \in Engine, InsertAnswer(e)
  PROVE  /\ QueryInv'
         /\ search'[e].at = "answered" /\ search'[e].cached = FALSE
         /\ search'[e].answer.text = search'[e].text
         /\ search'[e].answer.limit = search'[e].limit
<1> DEFINE r == search[e]
           done == [at |-> "answered", text |-> r.text, limit |-> r.limit,
                    answer |-> r.answer, cached |-> FALSE]
<1>1. r \in Reading /\ floor <= r.answer.seen
  BY DEF QueryInv, InsertAnswer
<1>2. /\ search' = [search EXCEPT ![e] = done]
      /\ cache' = [k \in DOMAIN cache \cup {r.key} |-> IF k = r.key THEN r.answer ELSE cache[k]]
      /\ UNCHANGED <<default, writes, floor>>
  BY DEF InsertAnswer
<1> HIDE DEF r
<1>3. /\ done.at = "answered" /\ done.cached = FALSE
      /\ done.text = r.text /\ done.limit = r.limit /\ done.answer = r.answer
  BY <1>1 DEF Reading
<1> HIDE DEF done
<1>4. search'[e] = done /\ DOMAIN search' = Engine
      /\ \A f \in Engine : f # e => search'[f] = search[f]
  BY <1>2 DEF QueryInv
<1>5. /\ r.key \in KeyOfCache /\ r.answer \in Answer
      /\ r.answer.text = r.key[1] /\ r.answer.limit = r.key[2]
  BY <1>1 DEF Reading, KeyOfCache
<1>6. /\ DOMAIN cache' = DOMAIN cache \cup {r.key}
      /\ \A k \in DOMAIN cache' : cache'[k] = IF k = r.key THEN r.answer ELSE cache[k]
  BY <1>2
<1>7. QueryInv'
  BY <1>1, <1>2, <1>3, <1>4, <1>5, <1>6 DEF QueryInv, Missed, Reading, KeyOfCache
<1> QED BY <1>1, <1>3, <1>4, <1>7 DEF Reading

\* The floor a clear sets is under every answer on its way into the cache.
LEMMA CacheIsCleared == QueryInv /\ ClearCache => QueryInv'
<1> SUFFICES ASSUME QueryInv, ClearCache PROVE QueryInv'
  OBVIOUS
<1> DEFINE seen == {search[e].answer.seen : e \in {f \in Engine : search[f].at = "read"}}
<1>1. seen \in SUBSET Nat
  BY DEF QueryInv, Reading, Answer
<1>2. {writes} \cup seen \in SUBSET Nat /\ {writes} \cup seen # {}
  BY <1>1 DEF QueryInv
<1>3. Min({writes} \cup seen) \in {writes} \cup seen
      /\ \A y \in {writes} \cup seen : Min({writes} \cup seen) <= y
  BY <1>2, LeastNumber
<1>4. PICK low \in Nat : low = Min({writes} \cup seen)
  BY <1>2, <1>3
<1>5. low <= writes /\ \A e \in Engine : search[e].at = "read" => low <= search[e].answer.seen
  BY <1>3, <1>4
<1>6. cache' = << >> /\ floor' = low /\ UNCHANGED <<default, search, writes>>
  BY <1>4 DEF ClearCache
<1> HIDE DEF seen
<1> QED BY <1>5, <1>6 DEF QueryInv, Missed, Reading, Answer, KeyOfCache

LEMMA QueryStep ==
  ASSUME QueryInv, [QueryNext]_queryVars
  PROVE  /\ QueryInv'
         /\ \A e \in Engine :
              search'[e] # search[e] /\ search'[e].at = "answered" =>
                /\ search'[e].answer.text = search'[e].text
                /\ search'[e].answer.limit = search'[e].limit
                /\ search'[e].cached => search'[e].answer.seen >= floor
<1> DEFINE Honoured(e) ==
              search'[e] # search[e] /\ search'[e].at = "answered" =>
                /\ search'[e].answer.text = search'[e].text
                /\ search'[e].answer.limit = search'[e].limit
                /\ search'[e].cached => search'[e].answer.seen >= floor
<1>1. ASSUME NEW e \in Engine, NEW text \in Text, NEW limit \in Limits \cup {Absent},
             CachedSearch(e, text, limit)
      PROVE  QueryInv' /\ \A f \in Engine : Honoured(f)
  <2>1. \A f \in Engine : f # e => search'[f] = search[f]
    BY <1>1 DEF CachedSearch, QueryInv
  <2> QED BY <1>1, <2>1, SearchBegins
<1>2. ASSUME NEW e \in Engine, ReadStore(e)
      PROVE  QueryInv' /\ \A f \in Engine : Honoured(f)
  <2>1. \A f \in Engine : f # e => search'[f] = search[f]
    BY <1>2 DEF ReadStore, QueryInv
  <2> QED BY <1>2, <2>1, StoreIsRead
<1>3. ASSUME NEW e \in Engine, InsertAnswer(e)
      PROVE  QueryInv' /\ \A f \in Engine : Honoured(f)
  <2>1. \A f \in Engine : f # e => search'[f] = search[f]
    BY <1>3 DEF InsertAnswer, QueryInv
  <2> QED BY <1>3, <2>1, AnswerIsInserted
<1>4. ASSUME NEW key \in Text \X Limits, Evict(key)
      PROVE  QueryInv' /\ \A f \in Engine : Honoured(f)
  BY <1>4 DEF Evict, QueryInv, Missed, Reading
<1>5. ASSUME NEW e \in Engine, NEW limit \in Limits, UpdateConfig(e, limit)
      PROVE  QueryInv' /\ \A f \in Engine : Honoured(f)
  BY <1>5 DEF UpdateConfig, QueryInv, NoSearch, Missed, Reading
<1>6. CASE WriteStore
  <2>1. writes' \in Nat /\ \A n \in Nat : n <= writes => n <= writes'
    BY <1>6 DEF WriteStore, QueryInv
  <2>2. UNCHANGED <<default, search, cache, floor>>
    BY <1>6 DEF WriteStore
  <2> QED BY <2>1, <2>2 DEF QueryInv, Missed, Reading, Answer
<1>7. CASE ClearCache
  BY <1>7, CacheIsCleared DEF ClearCache
<1>8. CASE UNCHANGED queryVars
  BY <1>8 DEF queryVars, QueryInv, Missed, Reading
<1> QED BY <1>1, <1>2, <1>3, <1>4, <1>5, <1>6, <1>7, <1>8 DEF QueryNext

\* An answer out of the cache is to the search that the configuration of the
\* caller's own clone makes of its call, and no answer from before a clear comes
\* back after it, but by the calls under way: query_engine.rs:128, 142, 220.
THEOREM AnswersAlwaysHonourCalls == QuerySpec => CachedAnswersHonourCall
<1>1. QueryInv /\ [QueryNext]_queryVars => QueryInv'
  BY QueryStep
<1>2. QueryInv /\ [QueryNext]_queryVars
        => [\A e \in Engine :
              LET now == search'[e] IN
              now # search[e] /\ now.at = "answered" =>
                 /\ now.answer.text = now.text /\ now.answer.limit = now.limit
                 /\ now.cached => now.answer.seen >= floor]_queryVars
  BY QueryStep
<1> QED BY QueryInitially, <1>1, <1>2, PTL DEF QuerySpec, CachedAnswersHonourCall
-----------------------------------------------------------------------------
(* The table of connections (module NetworkConnections)                    *)

\* A place in the queue of the table, or inside it: the monitor always writes.
Ticket == {k \in [task : NetworkTask, mode : {"read", "write"}] :
              k.task = Monitor => k.mode = "write"}

Table == [holders : SUBSET Ticket, queue : Seq(Ticket)]

NetworkCall ==
    [call : {"none"}, at : {"rest"}]
    \cup [call : {"connect", "send"}, at : {"request", "lock"}, peer : Peer]
    \cup [call : {"disconnect", "shutdown"}, at : {"lock"}, peers : SUBSET Peer]
    \cup [call : {"check"}, at : {"lock"}]
    \cup [call : {"check"}, at : {"request"}, peer : Peer, left : SUBSET Peer, of : Nat]

\* While it probes, the monitor is in the table as a writer, and the connection
\* it probes is the one it found.
NetworkInv ==
    /\ status \in [Peer -> {"none", "Connected", "Disconnected", "Failed"}]
    /\ joined \in [Peer -> Nat]
    /\ table \in Table
    /\ doing \in [NetworkTask -> NetworkCall]
    /\ \A t \in Caller : doing[t].call # "check"
    /\ doing[Monitor].call \in {"none", "check"}
    /\ doing[Monitor].at = "request" =>
          /\ [task |-> Monitor, mode |-> "write"] \in table.holders
          /\ doing[Monitor].of = joined[doing[Monitor].peer]

LEMMA NetworkInitially == NetworkInit => NetworkInv
  BY NetworkAssumption
  DEF NetworkInit, NetworkInv, NetworkTask, NetworkCall, Resting, Table, Free

LEMMA TableRequested ==
  ASSUME NEW lock \in Table, NEW t \in NetworkTask, NEW mode \in {"read", "write"},
         t = Monitor => mode = "write"
  PROVE  Requested(lock, t, mode) \in Table /\ Requested(lock, t, mode).holders = lock.holders
<1>1. [task |-> t, mode |-> mode] \in Ticket
  BY DEF Ticket
<1>2. lock.queue \in Seq(Ticket)
  BY DEF Table
<1>3. Append(lock.queue, [task |-> t, mode |-> mode]) \in Seq(Ticket)
  BY <1>1, <1>2
<1> QED BY <1>3 DEF Table, Requested

LEMMA TableEntered ==
  ASSUME NEW lock \in Table, NEW t \in NetworkTask, CanEnter(lock, t)
  PROVE  /\ Entered(lock, t) \in Table
         /\ lock.holders \subseteq Entered(lock, t).holders
         /\ t = Monitor => [task |-> Monitor, mode |-> "write"] \in Entered(lock, t).holders
         /\ [task |-> Monitor, mode |-> "write"] \notin lock.holders
<1>1. lock.queue \in Seq(Ticket) /\ lock.queue # << >> /\ Head(lock.queue).task = t
  BY DEF Table, CanEnter
<1>2. Head(lock.queue) \in Ticket /\ Tail(lock.queue) \in Seq(Ticket)
  BY <1>1
<1>3. Entered(lock, t) \in Table /\ Entered(lock, t).holders = lock.holders \cup {Head(lock.queue)}
  BY <1>2 DEF Table, Entered
<1>4. t = Monitor => Head(lock.queue) = [task |-> Monitor, mode |-> "write"]
  BY <1>1, <1>2 DEF Ticket
<1>5. [task |-> Monitor, mode |-> "write"] \notin lock.holders
  BY DEF CanEnter
<1> QED BY <1>3, <1>4, <1>5

LEMMA TableLeft ==
  ASSUME NEW lock \in Table, NEW t \in NetworkTask
  PROVE  /\ Left(lock, t) \in Table
         /\ t # Monitor /\ [task |-> Monitor, mode |-> "write"] \in lock.holders
               => [task |-> Monitor, mode |-> "write"] \in Left(lock, t).holders
  BY DEF Table, Left

\* The steps of other tasks than the monitor that leave the entries alone.
LEMMA CallerMoves ==
  ASSUME NetworkInv, NEW t \in Caller, NEW record \in NetworkCall, record.call # "check",
         Step(t, record), table' \in Table,
         [task |-> Monitor, mode |-> "write"] \in table.holders
            => [task |-> Monitor, mode |-> "write"] \in table'.holders,
         joined' \in [Peer -> Nat],
         [task |-> Monitor, mode |-> "write"] \in table.holders => joined' = joined,
         status' \in [Peer -> {"none", "Connected", "Disconnected", "Failed"}]
  PROVE  NetworkInv'
<1>1. t # Monitor /\ t \in NetworkTask /\ Monitor \in NetworkTask
  BY NetworkAssumption DEF NetworkTask
<1>2. doing' = [doing EXCEPT ![t] = record]
  BY DEF Step
<1>3. doing' \in [NetworkTask -> NetworkCall] /\ doing'[t] = record
      /\ \A u \in NetworkTask : u # t => doing'[u] = doing[u]
  BY <1>1, <1>2 DEF NetworkInv
<1>4. doing'[Monitor] = doing[Monitor]
  BY <1>1, <1>3
<1>5. doing[Monitor].at = "request" => [task |-> Monitor, mode |-> "write"] \in table.holders
  BY DEF NetworkInv
<1>6. \A u \in Caller : doing'[u].call # "check"
  BY <1>1, <1>3 DEF NetworkInv, NetworkTask
<1>7. doing'[Monitor].at = "request" =>
          /\ [task |-> Monitor, mode |-> "write"] \in table'.holders
          /\ doing'[Monitor].of = joined'[doing'[Monitor].peer]
  BY <1>4, <1>5 DEF NetworkInv
<1>8. doing'[Monitor].call \in {"none", "check"}
  BY <1>4 DEF NetworkInv
<1> QED BY <1>3, <1>6, <1>7, <1>8 DEF NetworkInv

\* The monitor goes on to another connection, or lets go of the table.
LEMMA MonitorProbes ==
  ASSUME NetworkInv, doing[Monitor].at = "request", ProbeNext,
         UNCHANGED joined, status' \in [Peer -> {"none", "Connected", "Disconnected", "Failed"}]
  PROVE  NetworkInv'
<1>1. Monitor \in NetworkTask /\ \A t \in Caller : t # Monitor /\ t \in NetworkTask
  BY NetworkAssumption DEF NetworkTask
<1>2. doing[Monitor] \in [call : {"check"}, at : {"request"}, peer : Peer, left : SUBSET Peer, of : Nat]
  BY <1>1 DEF NetworkInv, NetworkCall
<1>3. CASE doing[Monitor].left = {}
  <2>1. doing' = [doing EXCEPT ![Monitor] = Resting] /\ table' = Left(table, Monitor)
    BY <1>3 DEF ProbeNext, Return, Step
  <2>2. table' \in Table
    BY <1>1, <2>1, TableLeft DEF NetworkInv
  <2>3. Resting \in NetworkCall /\ Resting.call = "none" /\ Resting.at = "rest"
    BY DEF Resting, NetworkCall
  <2> HIDE DEF Resting
  <2> QED BY <1>1, <2>1, <2>2, <2>3 DEF NetworkInv
<1>4. CASE doing[Monitor].left # {}
  <2>1. PICK p \in doing[Monitor].left : Step(Monitor, Probing(p, doing[Monitor].left \ {p}))
    BY <1>4 DEF ProbeNext
  <2>2. table' = table
    BY <1>4 DEF ProbeNext
  <2> DEFINE record == Probing(p, doing[Monitor].left \ {p})
  <2>3. record \in NetworkCall /\ record.call = "check" /\ record.of = joined[record.peer]
    BY <1>2, <2>1 DEF Probing, NetworkCall, NetworkInv
  <2>4. doing' = [doing EXCEPT ![Monitor] = record]
    BY <2>1 DEF Step
  <2> HIDE DEF record
  <2> QED BY <1>1, <2>2, <2>3, <2>4 DEF NetworkInv
<1> QED BY <1>3, <1>4

LEMMA CallsBegin ==
  ASSUME NetworkInv,
         NEW t \in Caller, NEW p \in Peer,
         ConnectToNode(t, p) \/ DisconnectFromNode(t, p) \/ SendRequest(t, p) \/ Shutdown(t)
  PROVE  NetworkInv'
<1>1. t \in NetworkTask /\ t # Monitor
  BY NetworkAssumption DEF NetworkTask
<1>2. table \in Table /\ UNCHANGED <<status, joined>>
  BY DEF NetworkInv, ConnectToNode, DisconnectFromNode, SendRequest, Shutdown
<1>3. joined' \in [Peer -> Nat] /\ status' \in [Peer -> {"none", "Connected", "Disconnected", "Failed"}]
  BY <1>2 DEF NetworkInv
<1>4. CASE ConnectToNode(t, p)
  <2>1. Step(t, [call |-> "connect", at |-> "request", peer |-> p]) /\ table' = table
    BY <1>4 DEF ConnectToNode
  <2>2. [call |-> "connect", at |-> "request", peer |-> p] \in NetworkCall
    BY DEF NetworkCall
  <2> QED BY <1>2, <1>3, <2>1, <2>2, CallerMoves
<1>5. CASE DisconnectFromNode(t, p)
  <2> DEFINE record == [call |-> "disconnect", at |-> "lock", peers |-> {p}]
  <2>1. Step(t, record) /\ table' = Requested(table, t, "write")
    BY <1>5 DEF DisconnectFromNode, WaitFor
  <2>2. record \in NetworkCall /\ record.call # "check"
    BY DEF NetworkCall
  <2>3. table' \in Table /\ table'.holders = table.holders
    BY <1>1, <1>2, <2>1, TableRequested
  <2> HIDE DEF record
  <2> QED BY <1>2, <1>3, <2>1, <2>2, <2>3, CallerMoves
<1>6. CASE SendRequest(t, p)
  <2> DEFINE record == [call |-> "send", at |-> "lock", peer |-> p]
  <2>1. Step(t, record) /\ table' = Requested(table, t, "read")
    BY <1>6 DEF SendRequest, WaitFor
  <2>2. record \in NetworkCall /\ record.call # "check"
    BY DEF NetworkCall
  <2>3. table' \in Table /\ table'.holders = table.holders
    BY <1>1, <1>2, <2>1, TableRequested
  <2> HIDE DEF record
  <2> QED BY <1>2, <1>3, <2>1, <2>2, <2>3, CallerMoves
<1>7. CASE Shutdown(t)
  <2> DEFINE record == [call |-> "shutdown", at |-> "lock", peers |-> Peer]
  <2>1. Step(t, record) /\ table' = Requested(table, t, "write")
    BY <1>7 DEF Shutdown, WaitFor
  <2>2. record \in NetworkCall /\ record.call # "check"
    BY DEF NetworkCall
  <2>3. table' \in Table /\ table'.holders = table.holders
    BY <1>1, <1>2, <2>1, TableRequested
  <2> HIDE DEF record
  <2> QED BY <1>2, <1>3, <2>1, <2>2, <2>3, CallerMoves
<1> QED BY <1>4, <1>5, <1>6, <1>7

\* Who has got into the table alone lets nobody lose the place the monitor has,
\* for the monitor has none.
LEMMA CallsGetIn ==
  ASSUME NetworkInv, NEW t \in Caller,
         SaveConnection(t) \/ MarkDisconnected(t) \/ LookUpConnection(t)
  PROVE  NetworkInv'
<1>1. t \in NetworkTask /\ t # Monitor /\ doing[t] \in NetworkCall /\ table \in Table
  BY NetworkAssumption DEF NetworkTask, NetworkInv
<1>2. CanEnter(table, t)
  BY DEF SaveConnection, MarkDisconnected, LookUpConnection
<1>3. Entered(table, t) \in Table /\ [task |-> Monitor, mode |-> "write"] \notin table.holders
  BY <1>1, <1>2, TableEntered
<1>4. Left(Entered(table, t), t) \in Table
  BY <1>1, <1>3, TableLeft
<1>5. Resting \in NetworkCall /\ Resting.call # "check"
  BY DEF Resting, NetworkCall
<1>6. CASE SaveConnection(t)
  <2>1. doing[t].call = "connect" /\ doing[t].at = "lock"
    BY <1>6 DEF SaveConnection
  <2>2. doing[t].peer \in Peer
    BY <1>1, <2>1 DEF NetworkCall
  <2>3. /\ status' = [status EXCEPT ![doing[t].peer] = "Connected"]
        /\ joined' = [joined EXCEPT ![doing[t].peer] = joined[doing[t].peer] + 1]
        /\ table' = Left(Entered(table, t), t) /\ Step(t, Resting)
    BY <1>6 DEF SaveConnection
  <2>4. status' \in [Peer -> {"none", "Connected", "Disconnected", "Failed"}]
        /\ joined' \in [Peer -> Nat]
    BY <2>2, <2>3 DEF NetworkInv
  <2> QED BY <1>3, <1>4, <1>5, <2>3, <2>4, CallerMoves
<1>7. CASE MarkDisconnected(t)
  <2>1. /\ status' \in [Peer -> {"none", "Connected", "Disconnected", "Failed"}]
        /\ joined' = joined /\ table' = Left(Entered(table, t), t) /\ Step(t, Resting)
    BY <1>7 DEF MarkDisconnected, NetworkInv
  <2>2. joined' \in [Peer -> Nat]
    BY <2>1 DEF NetworkInv
  <2> QED BY <1>3, <1>4, <1>5, <2>1, <2>2, CallerMoves
<1>8. CASE LookUpConnection(t)
  <2>1. UNCHANGED <<status, joined>> /\ doing[t].call = "send" /\ doing[t].at = "lock"
    BY <1>8 DEF LookUpConnection
  <2>2. joined' \in [Peer -> Nat]
        /\ status' \in [Peer -> {"none", "Connected", "Disconnected", "Failed"}]
    BY <2>1 DEF NetworkInv
  <2>3. CASE status[doing[t].peer] = "none"
    <3>1. table' = Left(Entered(table, t), t) /\ Step(t, Resting)
      BY <1>8, <2>3 DEF LookUpConnection
    <3> QED BY <1>3, <1>4, <1>5, <2>1, <2>2, <3>1, CallerMoves
  <2>4. CASE status[doing[t].peer] # "none"
    <3> DEFINE record == [doing[t] EXCEPT !.at = "request"]
    <3>1. table' = Entered(table, t) /\ Step(t, record)
      BY <1>8, <2>4 DEF LookUpConnection
    <3>2. record \in NetworkCall /\ record.call # "check"
      BY <1>1, <2>1 DEF NetworkCall
    <3> HIDE DEF record
    <3> QED BY <1>3, <2>1, <2>2, <3>1, <3>2, CallerMoves
  <2> QED BY <2>3, <2>4
<1> QED BY <1>6, <1>7, <1>8

LEMMA RequestsEnd ==
  ASSUME NetworkInv, NEW t \in NetworkTask, Answered(t) \/ NotAnswered(t)
  PROVE  /\ NetworkInv'
         /\ \A p \in Peer : status[p] = "Connected" /\ status'[p] = "Failed" =>
               doing[Monitor].peer = p /\ doing[Monitor].of = joined[p]
<1>1. doing[t].at = "request" /\ doing[t] \in NetworkCall /\ table \in Table
      /\ joined' = joined
  BY DEF Answered, NotAnswered, GivesUp, Waiting, NetworkInv
<1>2. joined' \in [Peer -> Nat]
  BY <1>1 DEF NetworkInv
<1>3. CASE t = Monitor
  <2>1. doing[Monitor].call = "check"
    BY <1>1, <1>3 DEF NetworkInv, NetworkCall
  <2>2. ProbeNext /\ (status' = status \/ status' = [status EXCEPT ![doing[Monitor].peer] = "Failed"])
    BY <1>3, <2>1 DEF Answered, NotAnswered
  <2>3. status' \in [Peer -> {"none", "Connected", "Disconnected", "Failed"}]
        /\ \A p \in Peer : status[p] = "Connected" /\ status'[p] = "Failed" => doing[Monitor].peer = p
    BY <2>2 DEF NetworkInv
  <2>4. doing[Monitor].of = joined[doing[Monitor].peer]
    BY <1>1, <1>3 DEF NetworkInv
  <2> QED BY <1>1, <1>3, <2>2, <2>3, <2>4, MonitorProbes
<1>4. CASE t \in Caller
  <2>1. doing[t].call \in {"connect", "send"} /\ t # Monitor
    BY <1>1, <1>4, NetworkAssumption DEF NetworkInv, NetworkCall
  <2>2. status' = status /\ status' \in [Peer -> {"none", "Connected", "Disconnected", "Failed"}]
    BY <2>1 DEF Answered, NotAnswered, NetworkInv
  <2>3. CASE Step(t, Resting) /\ table' = Left(table, t)
    <3>1. table' \in Table
          /\ ([task |-> Monitor, mode |-> "write"] \in table.holders
                 => [task |-> Monitor, mode |-> "write"] \in table'.holders)
      BY <1>1, <2>1, <2>3, TableLeft
    <3>2. Resting \in NetworkCall /\ Resting.call # "check"
      BY DEF Resting, NetworkCall
    <3> QED BY <1>1, <1>2, <1>4, <2>2, <2>3, <3>1, <3>2, CallerMoves
  <2>4. CASE Step(t, [doing[t] EXCEPT !.at = "lock"]) /\ table' = Requested(table, t, "write")
             /\ doing[t].call = "connect"
    <3> DEFINE record == [doing[t] EXCEPT !.at = "lock"]
    <3>1. record \in NetworkCall /\ record.call # "check"
      BY <1>1, <2>4 DEF NetworkCall
    <3>2. Step(t, record)
      BY <2>4
    <3>3. table' \in Table /\ table'.holders = table.holders
      BY <1>1, <2>4, TableRequested
    <3> HIDE DEF record
    <3> QED BY <1>1, <1>2, <1>4, <2>2, <3>1, <3>2, <3>3, CallerMoves
  <2>5. \/ Step(t, Resting) /\ table' = Left(table, t)
        \/ /\ Step(t, [doing[t] EXCEPT !.at = "lock"]) /\ table' = Requested(table, t, "write")
           /\ doing[t].call = "connect"
    BY <2>1 DEF Answered, NotAnswered, Return, WaitFor
  <2> QED BY <2>2, <2>3, <2>4, <2>5
<1> QED BY <1>3, <1>4 DEF NetworkTask

LEMMA MonitorGoesIn == NetworkInv /\ (MonitorTicks \/ EnterTable) => NetworkInv'
<1> SUFFICES ASSUME NetworkInv, MonitorTicks \/ EnterTable PROVE NetworkInv'
  OBVIOUS
<1>1. Monitor \in NetworkTask /\ table \in Table /\ \A t \in Caller : t # Monitor /\ t \in NetworkTask
  BY NetworkAssumption DEF NetworkTask, NetworkInv
<1>2. UNCHANGED <<status, joined>>
  BY DEF MonitorTicks, EnterTable
<1>3. ASSUME NEW record \in NetworkCall, Step(Monitor, record), table' \in Table,
             record.call \in {"none", "check"},
             record.at = "request" =>
                /\ [task |-> Monitor, mode |-> "write"] \in table'.holders
                /\ record.of = joined[record.peer]
      PROVE  NetworkInv'
  BY <1>1, <1>2, <1>3 DEF NetworkInv, Step
<1>4. CASE MonitorTicks
  <2>1. Step(Monitor, [call |-> "check", at |-> "lock"]) /\ table' = Requested(table, Monitor, "write")
    BY <1>4 DEF MonitorTicks, WaitFor
  <2>2. table' \in Table
    BY <1>1, <2>1, TableRequested
  <2>3. [call |-> "check", at |-> "lock"] \in NetworkCall
    BY DEF NetworkCall
  <2> QED BY <1>3, <2>1, <2>2, <2>3
<1>5. CASE EnterTable
  <2>1. Entered(table, Monitor) \in Table
        /\ [task |-> Monitor, mode |-> "write"] \in Entered(table, Monitor).holders
    BY <1>1, <1>5, TableEntered DEF EnterTable
  <2>2. CASE Connected = {}
    <3>1. Step(Monitor, Resting) /\ table' = Left(Entered(table, Monitor), Monitor)
      BY <1>5, <2>2 DEF EnterTable
    <3>2. table' \in Table
      BY <1>1, <2>1, <3>1, TableLeft
    <3>3. Resting \in NetworkCall /\ Resting.call = "none" /\ Resting.at = "rest"
      BY DEF Resting, NetworkCall
    <3> QED BY <1>3, <3>1, <3>2, <3>3
  <2>3. CASE Connected # {}
    <3>1. table' = Entered(table, Monitor)
      BY <1>5, <2>3 DEF EnterTable
    <3>2. PICK p \in Connected : Step(Monitor, Probing(p, Connected \ {p}))
      BY <1>5, <2>3 DEF EnterTable
    <3> DEFINE record == Probing(p, Connected \ {p})
    <3>3. record \in NetworkCall /\ record.call = "check" /\ record.of = joined[record.peer]
      BY <3>2 DEF Probing, NetworkCall, NetworkInv, Connected
    <3>4. Step(Monitor, record)
      BY <3>2
    <3> HIDE DEF record
    <3> QED BY <1>3, <2>1, <3>1, <3>3, <3>4
  <2> QED BY <2>2, <2>3
<1> QED BY <1>4, <1>5

LEMMA NetworkStep ==
  ASSUME NetworkInv, [NetworkNext]_networkVars
  PROVE  /\ NetworkInv'
         /\ \A p \in Peer : status[p] = "Connected" /\ status'[p] = "Failed" =>
               doing[Monitor].peer = p /\ doing[Monitor].of = joined[p]
<1>1. ASSUME NEW t \in Caller, NEW p \in Peer,
             ConnectToNode(t, p) \/ DisconnectFromNode(t, p) \/ SendRequest(t, p)
      PROVE  NetworkInv' /\ status' = status
  BY <1>1, CallsBegin DEF ConnectToNode, DisconnectFromNode, SendRequest
<1>2. ASSUME NEW t \in Caller, Shutdown(t)
      PROVE  NetworkInv' /\ status' = status
  <2>1. status' = status
    BY <1>2 DEF Shutdown
  <2>2. CASE Peer # {}
    BY <1>2, <2>1, <2>2, CallsBegin
  <2>3. CASE Peer = {}
    <3> DEFINE record == [call |-> "shutdown", at |-> "lock", peers |-> Peer]
    <3>1. Step(t, record) /\ table' = Requested(table, t, "write") /\ joined' = joined
      BY <1>2 DEF Shutdown, WaitFor
    <3>2. record \in NetworkCall /\ record.call # "check"
      BY DEF NetworkCall
    <3>3. t \in NetworkTask /\ t # Monitor /\ table \in Table
      BY NetworkAssumption DEF NetworkTask, NetworkInv
    <3>4. table' \in Table /\ table'.holders = table.holders
      BY <3>1, <3>3, TableRequested
    <3>5. joined' \in [Peer -> Nat]
          /\ status' \in [Peer -> {"none", "Connected", "Disconnected", "Failed"}]
      BY <2>1, <3>1 DEF NetworkInv
    <3> HIDE DEF record
    <3> QED BY <2>1, <3>1, <3>2, <3>4, <3>5, CallerMoves
  <2> QED BY <2>2, <2>3
<1>3. ASSUME NEW t \in Caller, SaveConnection(t) \/ MarkDisconnected(t) \/ LookUpConnection(t)
      PROVE  NetworkInv' /\ \A p \in Peer : status[p] = "Connected" => status'[p] # "Failed"
  <2>1. NetworkInv'
    BY <1>3, CallsGetIn
  <2>2. \A p \in Peer : status[p] = "Connected" => status'[p] # "Failed"
    BY <1>3 DEF SaveConnection, MarkDisconnected, LookUpConnection, NetworkInv
  <2> QED BY <2>1, <2>2
<1>4. ASSUME NEW t \in NetworkTask, Answered(t) \/ NotAnswered(t)
      PROVE  /\ NetworkInv'
             /\ \A p \in Peer : status[p] = "Connected" /\ status'[p] = "Failed" =>
                   doing[Monitor].peer = p /\ doing[Monitor].of = joined[p]
  BY <1>4, RequestsEnd
<1>5. ASSUME NEW p \in Peer, HealthChanges(p) PROVE NetworkInv' /\ status' = status
  BY <1>5 DEF HealthChanges, NetworkInv
<1>6. CASE MonitorTicks \/ EnterTable
  BY <1>6, MonitorGoesIn DEF MonitorTicks, EnterTable
<1>7. CASE UNCHANGED networkVars
  BY <1>7 DEF networkVars, NetworkInv
<1> QED BY <1>1, <1>2, <1>3, <1>4, <1>5, <1>6, <1>7 DEF NetworkNext

\* A connection is marked as failed by a probe of that very connection only,
\* however many peers are silent and whoever connects again meanwhile:
\* network.rs:343, 425.
THEOREM FailuresAreFresh == NetworkSpec => FailureIsFresh
<1>1. NetworkInv /\ [NetworkNext]_networkVars => NetworkInv'
  BY NetworkStep
<1>2. NetworkInv /\ [NetworkNext]_networkVars
        => [\A p \in Peer :
              status[p] = "Connected" /\ status'[p] = "Failed" =>
                 doing[Monitor].peer = p /\ doing[Monitor].of = joined[p]]_networkVars
  BY NetworkStep
<1> QED BY NetworkInitially, <1>1, <1>2, PTL DEF NetworkSpec, FailureIsFresh
-----------------------------------------------------------------------------
(* Calls behind a breaker, a bucket and a pool (module Resilience)         *)

Breaker == [state : {"Closed", "HalfOpen", "Open"}, failures : Nat, successes : Nat,
            failed : {"never", "recently", "long ago"}, asked : {"recently", "long ago"}]

Bucket == [tokens : Nat, earned : Nat]

CallPlace ==
    [pc : {"idle", "open", "close", "reset"}]
    \cup [pc : {"allow"}, seen : {"Closed", "HalfOpen", "Open"}]
    \cup [pc : {"refill", "token"}, tried : Nat]
    \cup [pc : {"attempt"}, number : Nat]
    \cup [pc : {"working"}, number : Nat, resource : Resource \cup {NoResource}]
    \cup [pc : {"count", "judge"}, success : BOOLEAN]

\* Tokens are in the bucket, on their way into it, or handed out.
TokensCounted ==
    /\ bucket \in Bucket /\ granted \in Nat /\ ticks \in Nat
    /\ granted + bucket.tokens + bucket.earned <= Capacity + ticks

\* EveryResourceInOnePlace, place by place.
OnePlace ==
    /\ \A i, j \in DOMAIN pool : pool[i] = pool[j] => i = j
    /\ \A t \in CallTask, i \in DOMAIN pool :
          attempt[t].pc = "working" => attempt[t].resource # pool[i]
    /\ \A t, u \in CallTask :
          /\ attempt[t].pc = "working" /\ attempt[u].pc = "working"
          /\ attempt[t].resource = attempt[u].resource
          /\ attempt[t].resource # NoResource
          => t = u

PlacesTyped ==
    /\ breaker \in Breaker
    /\ pool \in Seq(Resource)
    /\ attempt \in [CallTask -> CallPlace]

CallsInv == PlacesTyped /\ TokensCounted /\ OnePlace

LEMMA CallsInitially == CallInit => CallsInv
  BY ResilienceAssumption
  DEF CallInit, CallsInv, PlacesTyped, TokensCounted, OnePlace, Breaker, Bucket, CallPlace, NotCalling

LEMMA PlacesAreShared == CallsInv => CallsShareNothing
<1> SUFFICES ASSUME CallsInv PROVE CallsShareNothing
  OBVIOUS
<1>1. GrantsWithinBudget
  <2>1. bucket.tokens \in Nat /\ bucket.earned \in Nat /\ granted \in Nat /\ ticks \in Nat
    BY DEF CallsInv, TokensCounted, Bucket
  <2>2. Capacity \in Nat /\ granted + bucket.tokens + bucket.earned <= Capacity + ticks
    BY ResilienceAssumption DEF CallsInv, TokensCounted
  <2> QED BY <2>1, <2>2 DEF GrantsWithinBudget
<1>2. Held \cap Range(pool) = {}
  BY DEF CallsInv, OnePlace, Held, Range, At
<1> QED BY <1>1, <1>2 DEF CallsShareNothing, EveryResourceInOnePlace, CallsInv, OnePlace, At

\* A task goes on without a resource: places become fewer.
LEMMA GoesOnWithout ==
  ASSUME CallsInv, NEW t \in CallTask, NEW place \in CallPlace, Goto(t, place),
         place.pc = "working" => place.resource = NoResource,
         pool' = pool, breaker' \in Breaker, TokensCounted'
  PROVE  CallsInv'
<1>1. attempt' \in [CallTask -> CallPlace] /\ attempt'[t] = place
      /\ \A u \in CallTask : u # t => attempt'[u] = attempt[u]
  BY DEF CallsInv, PlacesTyped, Goto
<1>2. PlacesTyped'
  BY <1>1 DEF CallsInv, PlacesTyped
<1>3. \A i \in DOMAIN pool : pool[i] # NoResource
  BY ResilienceAssumption DEF CallsInv, PlacesTyped
<1>4. OnePlace'
  BY <1>1, <1>3 DEF CallsInv, OnePlace
<1> QED BY <1>2, <1>4 DEF CallsInv

LEMMA TokensStay ==
  ASSUME TokensCounted, UNCHANGED <<bucket, granted, ticks>>
  PROVE  TokensCounted'
  BY DEF TokensCounted

LEMMA BucketSteps ==
  ASSUME CallsInv, NEW t \in CallTask, RefillTokens(t) \/ TryAcquire(t)
  PROVE  CallsInv'
<1>1. /\ bucket.tokens \in Nat /\ bucket.earned \in Nat /\ granted \in Nat /\ ticks \in Nat
      /\ Capacity \in Nat /\ bucket \in Bucket
      /\ granted + bucket.tokens + bucket.earned <= Capacity + ticks
  BY ResilienceAssumption DEF CallsInv, TokensCounted, Bucket
<1>2. attempt[t] \in CallPlace /\ breaker \in Breaker
  BY DEF CallsInv, PlacesTyped
<1>3. CASE RefillTokens(t)
  <2>1. Filled \in Nat /\ Filled <= bucket.tokens + bucket.earned
    BY <1>1 DEF Filled, Least
  <2>2. bucket' = [tokens |-> Filled, earned |-> 0] /\ granted' = granted /\ ticks' = ticks
    BY <1>3 DEF RefillTokens
  <2>3. bucket' \in Bucket /\ bucket'.tokens = Filled /\ bucket'.earned = 0
    BY <2>1, <2>2 DEF Bucket
  <2>4. granted' + Filled + 0 <= Capacity + ticks'
    BY <1>1, <2>1, <2>2
  <2>5. TokensCounted'
    BY <1>1, <2>2, <2>3, <2>4 DEF TokensCounted
  <2> DEFINE place == [attempt[t] EXCEPT !.pc = "token"]
  <2>6. place \in CallPlace /\ place.pc = "token"
    BY <1>2, <1>3 DEF RefillTokens, At, CallPlace
  <2>7. Goto(t, place) /\ pool' = pool /\ breaker' = breaker
    BY <1>3 DEF RefillTokens
  <2> HIDE DEF place
  <2> QED BY <1>2, <2>5, <2>6, <2>7, GoesOnWithout
<1>4. CASE TryAcquire(t) /\ TakeToken(t)
  <2>1. bucket.tokens >= 1 /\ bucket' = [bucket EXCEPT !.tokens = bucket.tokens - 1]
        /\ granted' = granted + 1 /\ ticks' = ticks
    BY <1>4 DEF TryAcquire, TakeToken
  <2>2. bucket' \in Bucket /\ bucket'.tokens = bucket.tokens - 1 /\ bucket'.earned = bucket.earned
    BY <1>1, <2>1 DEF Bucket
  <2>3. granted' + bucket'.tokens + bucket'.earned <= Capacity + ticks'
    BY <1>1, <2>1, <2>2
  <2>4. TokensCounted'
    BY <1>1, <2>1, <2>2, <2>3 DEF TokensCounted
  <2>5. Attempt(1) \in CallPlace /\ Attempt(1).pc = "attempt"
    BY DEF Attempt, CallPlace
  <2>6. Goto(t, Attempt(1)) /\ pool' = pool /\ breaker' = breaker
    BY <1>4 DEF TryAcquire, TakeToken
  <2> QED BY <1>2, <2>4, <2>5, <2>6, GoesOnWithout
<1>5. CASE TryAcquire(t) /\ ~ TakeToken(t)
  <2>1. PICK place : /\ Goto(t, place)
                     /\ place = IF attempt[t].tried + 1 < AcquireAttempts
                                THEN [pc |-> "refill", tried |-> attempt[t].tried + 1]
                                ELSE NotCalling
    BY <1>5 DEF TryAcquire
  <2>2. UNCHANGED <<bucket, granted, ticks, pool, breaker>>
    BY <1>5 DEF TryAcquire
  <2>3. attempt[t].tried \in Nat
    BY <1>2, <1>5 DEF TryAcquire, At, CallPlace
  <2>4. place \in CallPlace /\ place.pc \in {"refill", "idle"}
    BY <2>1, <2>3 DEF CallPlace, NotCalling
  <2>5. TokensCounted'
    BY <2>2, TokensStay DEF CallsInv
  <2> QED BY <1>2, <2>1, <2>2, <2>4, <2>5, GoesOnWithout
<1> QED BY <1>3, <1>4, <1>5

LEMMA ResourceAcquired ==
  ASSUME CallsInv, NEW t \in CallTask, Acquire(t)
  PROVE  CallsInv'
<1>1. attempt[t] \in CallPlace /\ attempt[t].pc = "attempt" /\ pool \in Seq(Resource)
  BY DEF CallsInv, PlacesTyped, Acquire, At
<1>2. attempt[t].number \in Nat
  BY <1>1 DEF CallPlace
<1>3. TokensCounted' /\ breaker' = breaker /\ breaker \in Breaker
  BY TokensStay DEF Acquire, CallsInv, PlacesTyped
<1>4. \A r \in Resource \cup {NoResource} :
         Holding(t, r) \in CallPlace /\ Holding(t, r).pc = "working" /\ Holding(t, r).resource = r
  BY <1>2 DEF Holding, CallPlace
<1>5. CASE pool = << >>
  <2>1. Goto(t, Holding(t, NoResource)) /\ pool' = pool
    BY <1>5 DEF Acquire
  <2> QED BY <1>3, <1>4, <2>1, GoesOnWithout
<1>6. CASE pool # << >>
  <2>1. Len(pool) \in Nat \ {0} /\ DOMAIN pool = 1..Len(pool)
    BY <1>1, <1>6
  <2> DEFINE r == pool[Len(pool)]
  <2>2. r \in Resource /\ Len(pool) \in DOMAIN pool
    BY <1>1, <2>1
  <2>3. Last(pool) = r /\ Front(pool) = SubSeq(pool, 1, Len(pool) - 1)
    BY DEF Last, Front
  <2>4. Goto(t, Holding(t, r)) /\ pool' = SubSeq(pool, 1, Len(pool) - 1)
    BY <1>6, <2>3 DEF Acquire
  <2>5. /\ pool' \in Seq(Resource) /\ DOMAIN pool' = 1..(Len(pool) - 1)
        /\ \A i \in DOMAIN pool' : i \in DOMAIN pool /\ i # Len(pool) /\ pool'[i] = pool[i]
    BY <1>1, <2>1, <2>4
  <2> HIDE DEF r
  <2>6. Holding(t, r) \in CallPlace /\ Holding(t, r).pc = "working" /\ Holding(t, r).resource = r
    BY <1>4, <2>2
  <2>7. /\ attempt' \in [CallTask -> CallPlace]
        /\ attempt'[t].pc = "working" /\ attempt'[t].resource = r
        /\ \A u \in CallTask : u # t => attempt'[u] = attempt[u]
    BY <2>4, <2>6 DEF CallsInv, PlacesTyped, Goto
  <2>8. PlacesTyped'
    BY <1>3, <2>5, <2>7 DEF PlacesTyped
  <2>9. \A i, j \in DOMAIN pool : pool[i] = pool[j] => i = j
    BY DEF CallsInv, OnePlace
  <2>10. \A i \in DOMAIN pool' : pool'[i] # r
    BY <2>2, <2>5, <2>9 DEF r
  <2>11. \A u \in CallTask : attempt[u].pc = "working" => attempt[u].resource # r
    BY <2>2 DEF CallsInv, OnePlace, r
  <2>12. OnePlace'
    <3>1. \A i, j \in DOMAIN pool' : pool'[i] = pool'[j] => i = j
      BY <2>5, <2>9
    <3>2. \A u \in CallTask, i \in DOMAIN pool' :
             attempt'[u].pc = "working" => attempt'[u].resource # pool'[i]
      BY <2>5, <2>7, <2>10 DEF CallsInv, OnePlace
    <3>3. \A u, v \in CallTask :
             /\ attempt'[u].pc = "working" /\ attempt'[v].pc = "working"
             /\ attempt'[u].resource = attempt'[v].resource
             /\ attempt'[u].resource # NoResource
             => u = v
      BY <2>7, <2>11 DEF CallsInv, OnePlace
    <3> QED BY <3>1, <3>2, <3>3 DEF OnePlace
  <2> QED BY <1>3, <2>8, <2>12 DEF CallsInv
<1> QED BY <1>5, <1>6

\* A resource that is nowhere else comes into the pool.
LEMMA PoolGrows ==
  ASSUME CallsInv, NEW r \in Resource, pool' = Append(pool, r),
         \A i \in DOMAIN pool : pool[i] # r,
         attempt' \in [CallTask -> CallPlace],
         \A u \in CallTask : attempt'[u].pc = "working" =>
             attempt'[u] = attempt[u] /\ attempt[u].resource # r,
         breaker' \in Breaker, TokensCounted'
  PROVE  CallsInv'
<1>1. pool \in Seq(Resource)
  BY DEF CallsInv, PlacesTyped
<1>2. /\ pool' \in Seq(Resource) /\ Len(pool) \in Nat
      /\ DOMAIN pool = 1..Len(pool) /\ DOMAIN pool' = 1..(Len(pool) + 1)
      /\ pool'[Len(pool) + 1] = r
      /\ \A i \in 1..Len(pool) : pool'[i] = pool[i]
  BY <1>1
<1>3. \A i \in DOMAIN pool' : i = Len(pool) + 1 \/ (i \in DOMAIN pool /\ pool'[i] = pool[i])
  BY <1>2
<1>4. PlacesTyped'
  BY <1>2 DEF PlacesTyped
<1>5. \A i, j \in DOMAIN pool' : pool'[i] = pool'[j] => i = j
  BY <1>2, <1>3 DEF CallsInv, OnePlace
<1>6. \A u \in CallTask, i \in DOMAIN pool' :
         attempt'[u].pc = "working" => attempt'[u].resource # pool'[i]
  BY <1>2, <1>3 DEF CallsInv, OnePlace
<1>7. OnePlace'
  BY <1>5, <1>6 DEF CallsInv, OnePlace
<1> QED BY <1>4, <1>7 DEF CallsInv

LEMMA AttemptEnds ==
  ASSUME CallsInv, NEW t \in CallTask, EndAttempt(t)
  PROVE  CallsInv'
<1>1. attempt[t] \in CallPlace /\ attempt[t].pc = "working"
  BY DEF CallsInv, PlacesTyped, EndAttempt, At
<1>2. attempt[t].number \in Nat /\ attempt[t].resource \in Resource \cup {NoResource}
  BY <1>1 DEF CallPlace
<1>3. TokensCounted' /\ breaker' \in Breaker
  BY TokensStay DEF EndAttempt, CallsInv, PlacesTyped
<1>4. PICK place \in CallPlace : Goto(t, place) /\ place.pc # "working"
  <2>1. ASSUME NEW b \in BOOLEAN
        PROVE  [pc |-> "count", success |-> b] \in CallPlace
    BY DEF CallPlace
  <2>2. Attempt(attempt[t].number + 1) \in CallPlace
        /\ Attempt(attempt[t].number + 1).pc = "attempt"
    BY <1>2 DEF Attempt, CallPlace
  <2>3. CASE Goto(t, [pc |-> "count", success |-> TRUE])
    BY <2>1, <2>3
  <2>4. CASE Goto(t, [pc |-> "count", success |-> FALSE])
    BY <2>1, <2>4
  <2>5. CASE Goto(t, Attempt(attempt[t].number + 1))
    BY <2>2, <2>5
  <2> QED BY <2>3, <2>4, <2>5 DEF EndAttempt
<1>5. CASE attempt[t].resource = NoResource
  BY <1>3, <1>4, <1>5, GoesOnWithout DEF EndAttempt, DropResource
<1>6. CASE attempt[t].resource # NoResource
  <2>1. PICK r \in Resource : r = attempt[t].resource
    BY <1>2, <1>6
  <2>2. pool' = Append(pool, r)
    BY <1>6, <2>1 DEF EndAttempt, DropResource
  <2>3. \A i \in DOMAIN pool : pool[i] # r
    BY <1>1, <2>1 DEF CallsInv, OnePlace
  <2>4. attempt' \in [CallTask -> CallPlace] /\ attempt'[t].pc # "working"
        /\ \A u \in CallTask : u # t => attempt'[u] = attempt[u]
    BY <1>4 DEF Goto, CallsInv, PlacesTyped
  <2>5. \A u \in CallTask : u # t /\ attempt[u].pc = "working" => attempt[u].resource # r
    BY <1>1, <1>6, <2>1 DEF CallsInv, OnePlace
  <2>6. \A u \in CallTask : attempt'[u].pc = "working" =>
             attempt'[u] = attempt[u] /\ attempt[u].resource # r
    BY <2>4, <2>5
  <2> QED BY <1>3, <2>2, <2>3, <2>4, <2>6, PoolGrows
<1> QED BY <1>5, <1>6

LEMMA BreakerSteps ==
  ASSUME CallsInv, NEW t \in CallTask,
         \/ AllowRequest(t) \/ Allowed(t) \/ Refused(t) \/ TakeResource(t)
         \/ Count(t) \/ Judge(t)
         \/ TransitionToOpen(t) \/ TransitionToClosed(t) \/ ResetCounters(t)
  PROVE  CallsInv'
<1>1. attempt[t] \in CallPlace /\ breaker \in Breaker
  BY DEF CallsInv, PlacesTyped
<1>2. TokensCounted' /\ pool' = pool
  BY TokensStay
  DEF CallsInv, AllowRequest, Allowed, Refused, TakeResource, Count, Judge,
      TransitionToOpen, TransitionToClosed, ResetCounters
<1>3. breaker' \in Breaker
  <2>1. CASE UNCHANGED breaker
    BY <1>1, <2>1
  <2>2. CASE AllowRequest(t)
    BY <1>1, <2>2 DEF AllowRequest, Breaker
  <2>3. CASE breaker' = [breaker EXCEPT !.state = "HalfOpen"]
    BY <1>1, <2>3 DEF Breaker
  <2>4. CASE Count(t)
    <3>1. breaker.failures \in Nat /\ breaker.successes \in Nat
      BY <1>1, Zenon DEF Breaker
    <3>2. breaker.failures + 1 \in Nat /\ breaker.successes + 1 \in Nat
      BY <3>1
    <3>3. \/ breaker' = [breaker EXCEPT !.successes = breaker.successes + 1]
          \/ breaker' = [breaker EXCEPT !.failures = breaker.failures + 1, !.failed = "recently"]
      BY <2>4 DEF Count
    <3> QED BY <1>1, <3>2, <3>3 DEF Breaker
  <2>5. CASE TransitionToOpen(t)
    BY <1>1, <2>5 DEF TransitionToOpen, Breaker
  <2>6. CASE TransitionToClosed(t)
    BY <1>1, <2>6 DEF TransitionToClosed, Breaker
  <2>7. CASE ResetCounters(t)
    BY <1>1, <2>7 DEF ResetCounters, Breaker
  <2> QED BY <2>1, <2>2, <2>3, <2>4, <2>5, <2>6, <2>7
          DEF Allowed, Refused, TakeResource, Judge
<1>4. \E place \in CallPlace :
         Goto(t, place) /\ (place.pc = "working" => place.resource = NoResource)
  <2>1. CASE AllowRequest(t)
    <3> DEFINE place == [pc |-> "allow", seen |-> breaker.state]
    <3>1. place \in CallPlace /\ place.pc = "allow" /\ Goto(t, place)
      BY <1>1, <2>1 DEF AllowRequest, CallPlace, Breaker
    <3> QED BY <3>1
  <2>2. CASE Allowed(t)
    BY <2>2 DEF Allowed, CallPlace
  <2>3. CASE Refused(t) \/ TransitionToOpen(t) \/ ResetCounters(t)
    BY <2>3 DEF Refused, TransitionToOpen, ResetCounters, NotCalling, CallPlace
  <2>4. CASE TakeResource(t)
    BY <1>1, <2>4 DEF TakeResource, Holding, At, CallPlace
  <2>5. CASE Count(t)
    BY <1>1, <2>5 DEF Count, At, CallPlace
  <2>6. CASE Judge(t)
    <3>1. attempt[t].success \in BOOLEAN
      BY <1>1, <2>6 DEF Judge, At, CallPlace
    <3>2. breaker.state \in {"Closed", "HalfOpen", "Open"}
      BY <1>1 DEF Breaker
    <3>3. Verdict(attempt[t].success) \in {"close", "idle", "reset", "open"}
      <4>1. CASE attempt[t].success = TRUE
        BY <3>2, <4>1 DEF Verdict
      <4>2. CASE attempt[t].success = FALSE
        BY <3>2, <4>2 DEF Verdict
      <4> QED BY <3>1, <4>1, <4>2
    <3>4. Goto(t, [pc |-> Verdict(attempt[t].success)])
      BY <2>6 DEF Judge
    <3> QED BY <3>3, <3>4 DEF CallPlace
  <2>7. CASE TransitionToClosed(t)
    BY <2>7 DEF TransitionToClosed, CallPlace
  <2> QED BY <2>1, <2>2, <2>3, <2>4, <2>5, <2>6, <2>7
<1> QED BY <1>2, <1>3, <1>4, GoesOnWithout

LEMMA CallsStep == CallsInv /\ [CallNext]_callVars => CallsInv'
<1> SUFFICES ASSUME CallsInv, [CallNext]_callVars PROVE CallsInv'
  OBVIOUS
<1>1. ASSUME NEW t \in CallTask, AllowRequest(t) \/ TakeResource(t) \/ Continue(t)
      PROVE  CallsInv'
  BY <1>1, BucketSteps, ResourceAcquired, AttemptEnds, BreakerSteps DEF Continue
<1>2. ASSUME NEW r \in Resource, AddResource(r) PROVE CallsInv'
  <2>1. r \in Outside /\ pool' = Append(pool, r) /\ UNCHANGED <<breaker, attempt>>
    BY <1>2 DEF AddResource
  <2>2. \A i \in DOMAIN pool : pool[i] # r
    BY <2>1 DEF Outside, Range
  <2>3. \A u \in CallTask : attempt[u].pc = "working" => attempt[u].resource # r
    BY <2>1, ResilienceAssumption DEF Outside, Held, At
  <2>4. TokensCounted'
    BY <1>2, TokensStay DEF AddResource, CallsInv
  <2> QED BY <2>1, <2>2, <2>3, <2>4, PoolGrows DEF CallsInv, PlacesTyped
<1>3. CASE SleepWindowPasses \/ PeriodPasses
  <2>1. breaker' \in Breaker
    BY <1>3 DEF SleepWindowPasses, PeriodPasses, Breaker, CallsInv, PlacesTyped
  <2>2. UNCHANGED <<bucket, granted, ticks, pool, attempt>>
    BY <1>3 DEF SleepWindowPasses, PeriodPasses
  <2> QED BY <2>1, <2>2, TokensStay DEF CallsInv, PlacesTyped, OnePlace
<1>4. CASE TokenEarned
  <2>1. /\ bucket.tokens \in Nat /\ bucket.earned \in Nat /\ granted \in Nat /\ ticks \in Nat
        /\ Capacity \in Nat /\ bucket \in Bucket
        /\ granted + bucket.tokens + bucket.earned <= Capacity + ticks
    BY ResilienceAssumption DEF CallsInv, TokensCounted, Bucket
  <2>2. bucket' = [bucket EXCEPT !.earned = bucket.earned + 1] /\ ticks' = ticks + 1
        /\ UNCHANGED <<granted, breaker, pool, attempt>>
    BY <1>4 DEF TokenEarned
  <2>3. bucket' \in Bucket /\ bucket'.tokens = bucket.tokens /\ bucket'.earned = bucket.earned + 1
    BY <2>1, <2>2 DEF Bucket
  <2>4. granted' + bucket'.tokens + bucket'.earned <= Capacity + ticks'
    BY <2>1, <2>2, <2>3
  <2>5. TokensCounted'
    BY <2>1, <2>2, <2>3, <2>4 DEF TokensCounted
  <2> QED BY <2>2, <2>5 DEF CallsInv, PlacesTyped, OnePlace
<1>5. CASE UNCHANGED callVars
  BY <1>5, TokensStay DEF callVars, CallsInv, PlacesTyped, OnePlace
<1> QED BY <1>1, <1>2, <1>3, <1>4, <1>5 DEF CallNext

\* However calls interleave with each other and with time, they get no token
\* that was not earned and no resource that another one has: resilience.rs:293,
\* 533.
THEOREM CallsNeverShare == CallSpec => []CallsShareNothing
  BY CallsInitially, CallsStep, PlacesAreShared, PTL DEF CallSpec
-----------------------------------------------------------------------------
(* The work-stealing queue (module TaskQueues)                             *)

JobsTyped ==
    /\ local \in [Worker -> Seq(Nat)]
    /\ pushed \in Nat
    /\ taken \subseteq 1..pushed

\* A job waits at one place at most, and nowhere once it is handed out.
JobsApart ==
    /\ \A w \in Worker : \A i \in DOMAIN local[w] :
          local[w][i] \in 1..pushed /\ local[w][i] \notin taken
    /\ \A w, other \in Worker : \A i \in DOMAIN local[w], j \in DOMAIN local[other] :
          local[w][i] = local[other][j] => w = other /\ i = j

NoJobLost ==
    \A n \in 1..pushed :
        n \in taken \/ \E w \in Worker : \E i \in DOMAIN local[w] : local[w][i] = n

JobsInv == JobsTyped /\ JobsApart /\ NoJobLost

LEMMA JobsInitially == TaskInit => JobsInv
  BY DEF TaskInit, JobInit, JobsInv, JobsTyped, JobsApart, NoJobLost

\* As many jobs are in a queue as it is long.
LEMMA JobsOfQueue ==
  ASSUME JobsInv, NEW w \in Worker
  PROVE  Cardinality(Range(local[w])) = Len(local[w])
<1> DEFINE s == local[w]
<1>1. s \in Seq(Nat) /\ Len(s) \in Nat /\ DOMAIN s = 1..Len(s)
  BY DEF JobsInv, JobsTyped
<1>2. \A i, j \in DOMAIN s : s[i] = s[j] => i = j
  BY DEF JobsInv, JobsApart
<1>3. s \in [1..Len(s) -> Range(s)]
  <2>1. s \in [1..Len(s) -> Nat]
    BY <1>1
  <2>2. \A i \in 1..Len(s) : s[i] \in Range(s)
    BY <1>1 DEF Range
  <2> QED BY <2>1, <2>2
<1>4. s \in Bijection(1..Len(s), Range(s))
  BY <1>1, <1>2, <1>3 DEF Bijection, Injection, IsInjective, Surjection, Range
<1>5. IsFiniteSet(1..Len(s)) /\ Cardinality(1..Len(s)) = Len(s)
  BY <1>1, FS_Interval
<1> QED BY <1>4, <1>5, FS_Bijection DEF ExistsBijection

LEMMA JobsAreOnce == JobsInv => EveryJobOnce
<1> SUFFICES ASSUME JobsInv PROVE EveryJobOnce
  OBVIOUS
<1>1. taken \cup UNION {Range(local[w]) : w \in Worker} = 1..pushed
  <2>1. taken \subseteq 1..pushed
        /\ \A w \in Worker : Range(local[w]) \subseteq 1..pushed
    BY DEF JobsInv, JobsTyped, JobsApart, Range
  <2>2. \A n \in 1..pushed : n \in taken \/ \E w \in Worker : n \in Range(local[w])
    BY DEF JobsInv, NoJobLost, Range
  <2> QED BY <2>1, <2>2
<1>2. ASSUME NEW w \in Worker
      PROVE  /\ Range(local[w]) \cap taken = {}
             /\ \A other \in Worker \ {w} : Range(local[w]) \cap Range(local[other]) = {}
  BY DEF JobsInv, JobsApart, Range
<1> QED BY <1>1, <1>2, JobsOfQueue DEF EveryJobOnce

\* A queue without one of its jobs, which is handed out; the order of the others
\* does not matter.
LEMMA JobHandedOut ==
  ASSUME JobsInv, NEW w \in Worker, NEW k \in DOMAIN local[w], NEW rest \in Seq(Nat),
         \A i \in DOMAIN rest : \E j \in DOMAIN local[w] : j # k /\ rest[i] = local[w][j],
         \A i, j \in DOMAIN rest : rest[i] = rest[j] => i = j,
         \A j \in DOMAIN local[w] : j # k => \E i \in DOMAIN rest : rest[i] = local[w][j],
         local' = [local EXCEPT ![w] = rest],
         taken' = taken \cup {local[w][k]}, pushed' = pushed
  PROVE  JobsInv'
<1>1. local' \in [Worker -> Seq(Nat)] /\ local'[w] = rest
      /\ \A v \in Worker : v # w => local'[v] = local[v]
  BY DEF JobsInv, JobsTyped
<1>2. local[w][k] \in 1..pushed
  BY DEF JobsInv, JobsApart
<1>3. JobsTyped'
  BY <1>1, <1>2 DEF JobsInv, JobsTyped
<1>4. \A v \in Worker : \A i \in DOMAIN local'[v] :
         \E j \in DOMAIN local[v] : local'[v][i] = local[v][j] /\ ~ (v = w /\ j = k)
  BY <1>1
<1>5. \A v \in Worker : \A i \in DOMAIN local'[v] :
         local'[v][i] \in 1..pushed' /\ local'[v][i] \notin taken'
  BY <1>4 DEF JobsInv, JobsApart
<1>6. \A v, other \in Worker : \A i \in DOMAIN local'[v], j \in DOMAIN local'[other] :
          local'[v][i] = local'[other][j] => v = other /\ i = j
  <2> SUFFICES ASSUME NEW v \in Worker, NEW other \in Worker,
                      NEW i \in DOMAIN local'[v], NEW j \in DOMAIN local'[other],
                      local'[v][i] = local'[other][j]
               PROVE  v = other /\ i = j
    OBVIOUS
  <2>1. v = other
    BY <1>4 DEF JobsInv, JobsApart
  <2>2. CASE v = w
    BY <1>1, <2>1, <2>2
  <2>3. CASE v # w
    BY <1>1, <2>1, <2>3 DEF JobsInv, JobsApart
  <2> QED BY <2>1, <2>2, <2>3
<1>7. NoJobLost'
  <2> SUFFICES ASSUME NEW n \in 1..pushed, n \notin taken'
               PROVE  \E v \in Worker : \E i \in DOMAIN local'[v] : local'[v][i] = n
    BY DEF NoJobLost
  <2>1. PICK v \in Worker : \E j \in DOMAIN local[v] : local[v][j] = n
    BY DEF JobsInv, NoJobLost
  <2>2. CASE v = w
    BY <1>1, <2>1, <2>2
  <2>3. CASE v # w
    BY <1>1, <2>1, <2>3
  <2> QED BY <2>2, <2>3
<1> QED BY <1>3, <1>5, <1>6, <1>7 DEF JobsInv, JobsApart

LEMMA JobPushed ==
  ASSUME JobsInv, NEW w \in Worker, Push(w)
  PROVE  JobsInv'
<1> DEFINE s == local[w]
<1>1. s \in Seq(Nat) /\ Len(s) \in Nat /\ DOMAIN s = 1..Len(s) /\ pushed \in Nat
  BY DEF JobsInv, JobsTyped
<1>2. pushed' = pushed + 1 /\ taken' = taken /\ local' = [local EXCEPT ![w] = Append(s, pushed + 1)]
  BY DEF Push
<1>3. /\ Append(s, pushed + 1) \in Seq(Nat)
      /\ DOMAIN Append(s, pushed + 1) = 1..(Len(s) + 1)
      /\ Append(s, pushed + 1)[Len(s) + 1] = pushed + 1
      /\ \A i \in 1..Len(s) : Append(s, pushed + 1)[i] = s[i]
  BY <1>1
<1>4. local' \in [Worker -> Seq(Nat)] /\ local'[w] = Append(s, pushed + 1)
      /\ \A v \in Worker : v # w => local'[v] = local[v]
  BY <1>2, <1>3 DEF JobsInv, JobsTyped
<1>5. DOMAIN local'[w] = DOMAIN s \cup {Len(s) + 1} /\ Len(s) + 1 \notin DOMAIN s
      /\ local'[w][Len(s) + 1] = pushed + 1
      /\ \A i \in DOMAIN s : local'[w][i] = s[i]
  BY <1>1, <1>3, <1>4
<1>6. 1..pushed' = 1..pushed \cup {pushed + 1} /\ pushed + 1 \notin 1..pushed /\ pushed' \in Nat
  BY <1>1, <1>2
<1> HIDE DEF s
<1>7. JobsTyped'
  BY <1>2, <1>4, <1>6 DEF JobsInv, JobsTyped
<1>8. \A v \in Worker : \A i \in DOMAIN local'[v] :
         \/ v = w /\ i = Len(s) + 1 /\ local'[v][i] = pushed + 1
         \/ i \in DOMAIN local[v] /\ local'[v][i] = local[v][i]
  BY <1>4, <1>5 DEF s
<1>9. JobsApart'
  <2>1. taken \subseteq 1..pushed
    BY DEF JobsInv, JobsTyped
  <2>2. \A v \in Worker : \A i \in DOMAIN local'[v] :
           local'[v][i] \in 1..pushed' /\ local'[v][i] \notin taken'
    BY <1>2, <1>6, <1>8, <2>1 DEF JobsInv, JobsApart
  <2>3. \A v \in Worker : \A i \in DOMAIN local[v] : local[v][i] # pushed + 1
    BY <1>6 DEF JobsInv, JobsApart
  <2>4. \A v, other \in Worker : \A i \in DOMAIN local'[v], j \in DOMAIN local'[other] :
           local'[v][i] = local'[other][j] => v = other /\ i = j
    <3> SUFFICES ASSUME NEW v \in Worker, NEW other \in Worker,
                        NEW i \in DOMAIN local'[v], NEW j \in DOMAIN local'[other],
                        local'[v][i] = local'[other][j]
                 PROVE  v = other /\ i = j
      OBVIOUS
    <3> QED BY <1>8, <2>3 DEF JobsInv, JobsApart
  <2> QED BY <2>2, <2>4 DEF JobsApart
<1>10. NoJobLost'
  <2> SUFFICES ASSUME NEW n \in 1..pushed', n \notin taken'
               PROVE  \E v \in Worker : \E i \in DOMAIN local'[v] : local'[v][i] = n
    BY DEF NoJobLost
  <2>1. CASE n = pushed + 1
    BY <1>5, <2>1
  <2>2. CASE n \in 1..pushed
    <3>1. PICK v \in Worker : \E j \in DOMAIN local[v] : local[v][j] = n
      BY <1>2, <2>2 DEF JobsInv, NoJobLost
    <3>2. \E j \in DOMAIN local'[v] : local'[v][j] = n
      BY <1>4, <1>5, <3>1 DEF s
    <3> QED BY <3>2
  <2> QED BY <1>6, <2>1, <2>2
<1> QED BY <1>7, <1>9, <1>10 DEF JobsInv

LEMMA JobGot ==
  ASSUME JobsInv, NEW w \in Worker, GetTask(w)
  PROVE  JobsInv'
<1> DEFINE s == local[w]
           rest == SubSeq(s, 1, Len(s) - 1)
<1>1. s \in Seq(Nat) /\ Len(s) \in Nat /\ DOMAIN s = 1..Len(s)
  BY DEF JobsInv, JobsTyped
<1>2. pushed' = pushed
  BY DEF GetTask
<1>3. CASE s = << >>
  <2>1. UNCHANGED <<local, taken>>
    BY <1>3 DEF GetTask
  <2> QED BY <1>2, <2>1 DEF JobsInv, JobsTyped, JobsApart, NoJobLost
<1>4. CASE s # << >>
  <2>1. Len(s) \in DOMAIN s /\ Len(s) - 1 \in Nat
    BY <1>1, <1>4
  <2>2. Last(s) = s[Len(s)] /\ Front(s) = rest
    BY DEF Last, Front
  <2>3. taken' = taken \cup {s[Len(s)]} /\ local' = [local EXCEPT ![w] = rest]
    BY <1>4, <2>2 DEF GetTask
  <2>4. /\ rest \in Seq(Nat) /\ DOMAIN rest = 1..(Len(s) - 1)
        /\ \A i \in 1..(Len(s) - 1) : rest[i] = s[i]
    BY ONLY <1>1, <2>1
  <2>5. DOMAIN rest = DOMAIN s \ {Len(s)} /\ \A i \in DOMAIN rest : rest[i] = s[i]
    <3>1. \A k \in Nat : 1..(k - 1) = (1..k) \ {k}
      OBVIOUS
    <3>2. 1..(Len(s) - 1) = (1..Len(s)) \ {Len(s)}
      BY ONLY <1>1, <3>1
    <3> QED BY ONLY <1>1, <2>4, <3>2
  <2>6. \A i, j \in DOMAIN s : s[i] = s[j] => i = j
    BY DEF JobsInv, JobsApart
  <2> HIDE DEF rest
  <2>7. \A i \in DOMAIN rest : \E j \in DOMAIN s : j # Len(s) /\ rest[i] = s[j]
    BY <2>5
  <2>8. \A i, j \in DOMAIN rest : rest[i] = rest[j] => i = j
    BY <2>5, <2>6
  <2>9. \A j \in DOMAIN s : j # Len(s) => \E i \in DOMAIN rest : rest[i] = s[j]
    BY <2>5
  <2>10. rest \in Seq(Nat)
    BY <2>4
  <2> QED BY <1>2, <2>1, <2>3, <2>7, <2>8, <2>9, <2>10, JobHandedOut
<1> QED BY <1>3, <1>4

LEMMA HalfOfTwo ==
  ASSUME NEW n \in Nat, n \div 2 > 0
  PROVE  n >= 2
  OBVIOUS

LEMMA JobStolen ==
  ASSUME JobsInv, NEW w \in Worker, NEW other \in Worker, Steal(w, other)
  PROVE  JobsInv'
<1> DEFINE s == local[other]
           rest == Tail(s)
<1>1. s \in Seq(Nat) /\ Len(s) \in Nat /\ DOMAIN s = 1..Len(s)
  BY DEF JobsInv, JobsTyped
<1>2. pushed' = pushed
  BY DEF Steal
<1>3. CASE ~ (Len(s) \div 2 > 0)
  <2>1. UNCHANGED <<local, taken>>
    BY <1>3 DEF Steal
  <2> QED BY <1>2, <2>1 DEF JobsInv, JobsTyped, JobsApart, NoJobLost
<1>4. CASE Len(s) \div 2 > 0
  <2>1. Len(s) >= 2
    BY <1>1, <1>4, HalfOfTwo
  <2>2. s # << >> /\ 1 \in DOMAIN s /\ Len(s) - 1 \in Nat
    BY <1>1, <2>1
  <2>3. taken' = taken \cup {s[1]} /\ local' = [local EXCEPT ![other] = rest]
    BY <1>1, <1>4, <2>2 DEF Steal
  <2>4. /\ rest \in Seq(Nat) /\ DOMAIN rest = 1..(Len(s) - 1)
        /\ \A i \in 1..(Len(s) - 1) : rest[i] = s[i + 1]
    BY <1>1, <2>2
  <2>5. \A i \in DOMAIN rest : i + 1 \in DOMAIN s /\ i + 1 # 1 /\ rest[i] = s[i + 1]
    BY <1>1, <2>4
  <2>6. \A j \in DOMAIN s : j # 1 => j - 1 \in DOMAIN rest /\ rest[j - 1] = s[j]
    BY <1>1, <2>4
  <2>7. \A i, j \in DOMAIN s : s[i] = s[j] => i = j
    BY DEF JobsInv, JobsApart
  <2>8. \A i, j \in DOMAIN rest : rest[i] = rest[j] => i = j
    <3> SUFFICES ASSUME NEW i \in DOMAIN rest, NEW j \in DOMAIN rest, rest[i] = rest[j]
                 PROVE  i = j
      OBVIOUS
    <3>1. i + 1 = j + 1
      BY <2>5, <2>7
    <3> QED BY <3>1, <2>4
  <2> HIDE DEF rest
  <2>9. \A i \in DOMAIN rest : \E j \in DOMAIN s : j # 1 /\ rest[i] = s[j]
    BY <2>5
  <2>10. \A j \in DOMAIN s : j # 1 => \E i \in DOMAIN rest : rest[i] = s[j]
    BY <2>6
  <2>11. rest \in Seq(Nat)
    BY <2>4
  <2> QED BY <1>2, <2>2, <2>3, <2>8, <2>9, <2>10, <2>11, JobHandedOut
<1> QED BY <1>3, <1>4

LEMMA JobsStep == JobsInv /\ [QueueNext]_taskVars => JobsInv'
<1> SUFFICES ASSUME JobsInv, [QueueNext]_taskVars PROVE JobsInv'
  OBVIOUS
<1>1. ASSUME NEW w \in Worker, Push(w) \/ GetTask(w) \/ \E other \in Worker : Steal(w, other)
      PROVE  JobsInv'
  BY <1>1, JobPushed, JobGot, JobStolen
<1>2. CASE UNCHANGED jobVars
  BY <1>2 DEF jobVars, JobsInv, JobsTyped, JobsApart, NoJobLost
<1>3. AddTask \/ GetResult \/ DropProcessor \/ (\E t \in PoolThread : ThreadStep(t))
         => UNCHANGED jobVars
  BY DEF AddTask, GetResult, DropProcessor, ThreadStep, Collect, Process, SendResult
<1> QED BY <1>1, <1>2, <1>3 DEF QueueNext, taskVars

\* Every job is handed out once, or waits in one queue, whoever pops and steals
\* at the same time: concurrent.rs:333-361.
THEOREM JobsAlwaysOnce == QueueSpec => []EveryJobOnce
  BY JobsInitially, JobsStep, JobsAreOnce, PTL DEF QueueSpec
-----------------------------------------------------------------------------
(* The loop that executes what was committed (module CommandLoop)          *)

AllPoints == UNION {Range(c.points) : c \in Command}

Execution == [index : Nat, command : Command]

RoundRecord ==
    {Asleep}
    \cup [at : {"entry"}, index : Nat, upto : Nat]
    \cup [at : {"points"}, index : Nat, upto : Nat, command : Command, todo : Seq(AllPoints)]

InRound == round.at \in {"entry", "points"}

LoopTyped ==
    /\ log \in Seq(Command)
    /\ committed \in Nat /\ last_applied \in Nat
    /\ round \in RoundRecord
    /\ storage \subseteq AllPoints
    /\ executed \in Seq(Execution)

\* The loop stays behind what is committed.
LoopBehind ==
    /\ last_applied <= committed
    /\ InRound => /\ last_applied < round.index /\ round.upto <= committed
                  /\ round.index <= round.upto + 1
    /\ round.at = "points" => /\ round.index <= round.upto
                              /\ round.command.kind \in {"upsert", "delete", "createShard"}

\* What is committed and was never cut off is in the log, as it was read.
LoopFollows ==
    /\ \A i \in 1..committed : i \in replaced \/ i <= Len(log)
    /\ round.at = "points" => round.index \in replaced \/ log[round.index] = round.command
    /\ \A k \in DOMAIN executed :
          \/ executed[k].index \in replaced
          \/ log[executed[k].index] = executed[k].command

\* What was executed is behind last_applied, in order, and what was passed over
\* failed or was missing, in the round that runs as well.
LoopOrdered ==
    /\ \A k \in DOMAIN executed : executed[k].index \in 1..last_applied
    /\ \A k, m \in DOMAIN executed : k < m => executed[k].index < executed[m].index
    /\ \A i \in 1..last_applied : i \in failed \/ \E k \in DOMAIN executed : executed[k].index = i
    /\ InRound => \A i \in Nat : last_applied < i /\ i < round.index => i \in failed

\* The command is of the given kind and about the point.
IsAbout(c, kind, p) == c.kind = kind /\ p \in Range(c.points)

\* What was executed leaves a point stored, and so does a command after it.
Stored(p) ==
    \E k \in DOMAIN executed :
        /\ IsAbout(executed[k].command, "upsert", p)
        /\ \A m \in DOMAIN executed : k < m => ~ IsAbout(executed[m].command, "delete", p)

StoredAfter(c, p) == IsAbout(c, "upsert", p) \/ (Stored(p) /\ ~ IsAbout(c, "delete", p))

\* What will be stored once the points still to do are done.
Coming == IF round.command.kind = "upsert" THEN storage \cup Range(round.todo)
          ELSE storage \ Range(round.todo)

LoopStored ==
    failed = {} =>
        /\ round.at # "points" => \A p \in AllPoints : p \in storage <=> Stored(p)
        /\ round.at = "points" =>
              \A p \in AllPoints : p \in Coming <=> StoredAfter(round.command, p)

LoopInv == LoopTyped /\ LoopBehind /\ LoopFollows /\ LoopOrdered /\ LoopStored

LEMMA LoopInitially == LoopInit => LoopInv
<1> SUFFICES ASSUME LoopInit PROVE LoopInv
  OBVIOUS
<1>1. LoopTyped /\ LoopBehind
  BY DEF LoopInit, LoopTyped, LoopBehind, RoundRecord, Asleep, InRound
<1>2. LoopFollows /\ LoopOrdered /\ LoopStored
  BY DEF LoopInit, LoopFollows, LoopOrdered, LoopStored, Asleep, InRound, Stored
<1> QED BY <1>1, <1>2 DEF LoopInv

LEMMA PointsAreKnown ==
  ASSUME NEW c \in Command
  PROVE  /\ c.points \in Seq(AllPoints) /\ PointsOf(c) \in Seq(AllPoints)
         /\ Range(c.points) \subseteq AllPoints
         /\ c.kind \in {"upsert", "delete", "createShard", "dropShard", "garbled"}
<1>1. c.points \in Seq(Range(c.points))
      /\ c.kind \in {"upsert", "delete", "createShard", "dropShard", "garbled"}
  BY LoopAssumption
<1>2. Range(c.points) \subseteq AllPoints
  BY DEF AllPoints
<1>3. c.points \in Seq(AllPoints) /\ << >> \in Seq(AllPoints)
  BY <1>1, <1>2
<1> QED BY <1>1, <1>2, <1>3 DEF PointsOf

\* One more execution.
LEMMA OneMoreExecution ==
  ASSUME executed \in Seq(Execution), NEW n \in Nat, NEW c \in Command,
         executed' = Append(executed, [index |-> n, command |-> c])
  PROVE  /\ executed' \in Seq(Execution)
         /\ Len(executed) \in Nat /\ DOMAIN executed = 1..Len(executed)
         /\ DOMAIN executed' = 1..Len(executed) + 1
         /\ \A k \in DOMAIN executed : k \in DOMAIN executed' /\ executed'[k] = executed[k]
         /\ executed'[Len(executed) + 1].index = n
         /\ executed'[Len(executed) + 1].command = c
<1> DEFINE e == [index |-> n, command |-> c]
<1>1. e \in Execution /\ e.index = n /\ e.command = c
  BY DEF Execution
<1> HIDE DEF e
<1>2. executed' = Append(executed, e)
  BY DEF e
<1>3. /\ executed' \in Seq(Execution)
      /\ Len(executed) \in Nat /\ DOMAIN executed = 1..Len(executed)
      /\ DOMAIN executed' = 1..Len(executed) + 1
      /\ \A k \in 1..Len(executed) : executed'[k] = executed[k]
      /\ executed'[Len(executed) + 1] = e
  BY ONLY executed \in Seq(Execution), <1>1, <1>2
<1> QED BY ONLY <1>1, <1>3

LEMMA StoredByOneMore ==
  ASSUME executed \in Seq(Execution), NEW n \in Nat, NEW c \in Command,
         executed' = Append(executed, [index |-> n, command |-> c]), NEW p
  PROVE  Stored(p)' <=> StoredAfter(c, p)
<1> DEFINE last == Len(executed) + 1
<1>1. /\ last \in Nat \ {0}
      /\ DOMAIN executed = 1..last - 1 /\ DOMAIN executed' = 1..last
      /\ \A k \in 1..last - 1 : executed'[k].command = executed[k].command
      /\ executed'[last].command = c
  BY OneMoreExecution
<1> HIDE DEF last
<1>2. ~ (IsAbout(c, "upsert", p) /\ IsAbout(c, "delete", p))
  BY DEF IsAbout
<1>3. ASSUME IsAbout(c, "upsert", p) PROVE Stored(p)'
  <2>1. last \in DOMAIN executed' /\ \A m \in DOMAIN executed' : ~ (last < m)
    BY ONLY <1>1
  <2>2. IsAbout(executed'[last].command, "upsert", p)
    BY <1>1, <1>3
  <2> QED BY ONLY <2>1, <2>2 DEF Stored
<1>4. ASSUME Stored(p), ~ IsAbout(c, "delete", p) PROVE Stored(p)'
  <2>1. PICK k \in DOMAIN executed :
           /\ IsAbout(executed[k].command, "upsert", p)
           /\ \A m \in DOMAIN executed : k < m => ~ IsAbout(executed[m].command, "delete", p)
    BY <1>4 DEF Stored
  <2>2. k \in DOMAIN executed' /\ executed'[k].command = executed[k].command
    BY ONLY <1>1, k \in DOMAIN executed
  <2>3. ASSUME NEW m \in DOMAIN executed', k < m
        PROVE  ~ IsAbout(executed'[m].command, "delete", p)
    <3>1. CASE m = last
      BY <1>1, <1>4, <3>1
    <3>2. CASE m # last
      <4>1. m \in DOMAIN executed /\ executed'[m].command = executed[m].command
        BY ONLY <1>1, <3>2, m \in DOMAIN executed'
      <4> QED BY <2>1, <2>3, <4>1
    <3> QED BY <3>1, <3>2
  <2> QED BY <2>1, <2>2, <2>3 DEF Stored
<1>5. ASSUME Stored(p)', ~ IsAbout(c, "upsert", p)
      PROVE  Stored(p) /\ ~ IsAbout(c, "delete", p)
  <2>1. PICK k \in DOMAIN executed' :
           /\ IsAbout(executed'[k].command, "upsert", p)
           /\ \A m \in DOMAIN executed' : k < m => ~ IsAbout(executed'[m].command, "delete", p)
    BY <1>5 DEF Stored
  <2>2. k # last
    BY <1>1, <1>5, <2>1
  <2>3. /\ k \in DOMAIN executed /\ executed'[k].command = executed[k].command
        /\ last \in DOMAIN executed' /\ k < last
    BY ONLY <1>1, <2>2, k \in DOMAIN executed'
  <2>4. ASSUME NEW m \in DOMAIN executed, k < m
        PROVE  ~ IsAbout(executed[m].command, "delete", p)
    <3>1. m \in DOMAIN executed' /\ executed'[m].command = executed[m].command
      BY ONLY <1>1, m \in DOMAIN executed
    <3> QED BY <2>1, <2>4, <3>1
  <2>5. ~ IsAbout(c, "delete", p)
    BY <1>1, <2>1, <2>3
  <2> QED BY <2>1, <2>3, <2>4, <2>5 DEF Stored
<1> QED BY <1>2, <1>3, <1>4, <1>5 DEF StoredAfter

LEMMA RoundParts ==
  ASSUME LoopInv, InRound
  PROVE  /\ round.index \in Nat /\ round.upto \in Nat /\ last_applied \in Nat
         /\ committed \in Nat /\ last_applied < round.index /\ round.upto <= committed
         /\ round.index <= round.upto + 1
         /\ round.at = "points" =>
               /\ round.command \in Command /\ round.todo \in Seq(AllPoints)
               /\ round.index \in 1..committed
         /\ \A i \in Nat : last_applied < i /\ i < round.index => i \in failed
<1>1. /\ round.index \in Nat /\ round.upto \in Nat
      /\ round.at = "points" => round.command \in Command /\ round.todo \in Seq(AllPoints)
  BY DEF LoopInv, LoopTyped, RoundRecord, InRound, Asleep
<1>2. /\ last_applied \in Nat /\ committed \in Nat /\ last_applied < round.index
      /\ round.upto <= committed /\ round.index <= round.upto + 1
      /\ round.at = "points" => round.index <= round.upto
  BY DEF LoopInv, LoopTyped, LoopBehind
<1>3. \A i \in Nat : last_applied < i /\ i < round.index => i \in failed
  BY DEF LoopInv, LoopOrdered
<1>4. round.at = "points" => round.index \in 1..committed
  BY ONLY <1>1, <1>2
<1> QED BY ONLY <1>1, <1>2, <1>3, <1>4

\* The Raft node commits more, and keeps of what is committed all but what counts
\* as cut off from then on.
LEMMA LogMovesOn ==
  ASSUME LoopInv, log' \in Seq(Command), committed' \in Nat, committed <= committed',
         \A i \in 1..committed' : i \in replaced' \/ i <= Len(log'),
         \A i \in 1..committed : i \in replaced' \/ (i \notin replaced /\ log'[i] = log[i]),
         UNCHANGED ownVars
  PROVE  LoopInv'
<1>1. UNCHANGED <<last_applied, round, storage, executed, failed>>
  BY DEF ownVars
<1>2. /\ committed \in Nat /\ last_applied \in Nat /\ last_applied <= committed
      /\ round.at = "points" => round.index \in 1..committed
  <2>1. round.at = "points" => InRound
    BY DEF InRound
  <2> QED BY <2>1, RoundParts DEF LoopInv, LoopTyped, LoopBehind
<1>3. LoopTyped'
  BY <1>1 DEF LoopInv, LoopTyped
<1>4. LoopBehind'
  <2>1. last_applied <= committed'
    BY <1>2
  <2>2. InRound => round.upto <= committed'
    BY RoundParts
  <2> QED BY <1>1, <2>1, <2>2 DEF LoopInv, LoopBehind, InRound
<1>5. LoopFollows'
  <2>1. ASSUME round.at = "points"
        PROVE  round.index \in replaced' \/ log'[round.index] = round.command
    BY <1>2, <2>1 DEF LoopInv, LoopFollows
  <2>2. ASSUME NEW k \in DOMAIN executed
        PROVE  \/ executed[k].index \in replaced'
               \/ log'[executed[k].index] = executed[k].command
    <3>1. executed[k].index \in 1..last_applied
      BY DEF LoopInv, LoopOrdered
    <3>2. executed[k].index \in 1..committed
      BY ONLY <1>2, <3>1
    <3> QED BY <3>2 DEF LoopInv, LoopFollows
  <2> QED BY <1>1, <2>1, <2>2 DEF LoopFollows
<1>6. LoopOrdered'
  BY <1>1 DEF LoopInv, LoopOrdered, InRound
<1>7. LoopStored'
  BY <1>1 DEF LoopInv, LoopStored, Stored, StoredAfter, Coming
<1> QED BY <1>3, <1>4, <1>5, <1>6, <1>7 DEF LoopInv

LEMMA RaftMovesOn ==
  ASSUME LoopInv,
         \/ \E c \in Command : AppendCommand(c) \/ \E prev \in 0..Len(log) : ReceiveEntry(prev, c)
         \/ \E index \in 1..Len(log) : CommitUpTo(index)
  PROVE  LoopInv'
<1>1. /\ log \in Seq(Command) /\ Len(log) \in Nat /\ committed \in Nat
      /\ \A i \in 1..committed : i \in replaced \/ i <= Len(log)
  BY DEF LoopInv, LoopTyped, LoopFollows
<1>2. ASSUME NEW c \in Command, AppendCommand(c) PROVE LoopInv'
  <2>1. /\ log' = Append(log, c) /\ committed' = committed /\ replaced' = replaced
        /\ UNCHANGED ownVars
    BY <1>2 DEF AppendCommand
  <2>2. /\ log' \in Seq(Command) /\ Len(log') = Len(log) + 1
        /\ \A i \in 1..Len(log) : log'[i] = log[i]
    BY ONLY <1>1, <2>1, c \in Command
  <2>3. ASSUME NEW i \in 1..committed, i \notin replaced
        PROVE  i <= Len(log') /\ log'[i] = log[i]
    BY <1>1, <2>2, <2>3
  <2> QED BY <1>1, <2>1, <2>2, <2>3, LogMovesOn
<1>3. ASSUME NEW c \in Command, NEW prev \in 0..Len(log), ReceiveEntry(prev, c) PROVE LoopInv'
  <2>1. /\ log' = Append(SubSeq(log, 1, prev), c) /\ committed' = committed
        /\ replaced' = replaced \cup prev + 1..committed /\ UNCHANGED ownVars
    BY <1>3 DEF ReceiveEntry
  <2>2. /\ prev \in Nat /\ SubSeq(log, 1, prev) \in Seq(Command)
        /\ Len(SubSeq(log, 1, prev)) = prev
        /\ \A i \in 1..prev : SubSeq(log, 1, prev)[i] = log[i]
    BY ONLY <1>1, prev \in 0..Len(log)
  <2>3. /\ log' \in Seq(Command) /\ Len(log') = prev + 1
        /\ \A i \in 1..prev : log'[i] = log[i]
    BY ONLY <2>1, <2>2, c \in Command
  <2>4. ASSUME NEW i \in 1..committed, i \notin replaced'
        PROVE  i \notin replaced /\ i <= Len(log') /\ log'[i] = log[i]
    <3>1. i \notin replaced /\ i \in 1..prev
      BY ONLY <1>1, <2>1, <2>2, <2>4, i \in 1..committed
    <3> QED BY ONLY <2>2, <2>3, <3>1
  <2> QED BY <1>1, <2>1, <2>3, <2>4, LogMovesOn
<1>4. ASSUME NEW index \in 1..Len(log), CommitUpTo(index) PROVE LoopInv'
  <2>1. /\ index \in committed + 1..Len(log) /\ committed' = index
        /\ log' = log /\ replaced' = replaced /\ UNCHANGED ownVars
    BY <1>4 DEF CommitUpTo
  <2>2. /\ committed' \in Nat /\ committed <= committed'
        /\ \A i \in 1..committed' : i <= Len(log')
    BY ONLY <1>1, <2>1
  <2> QED BY <1>1, <2>1, <2>2, LogMovesOn
<1> QED BY <1>2, <1>3, <1>4

LEMMA RoundBegins == LoopInv /\ WakeUp => LoopInv'
<1> SUFFICES ASSUME LoopInv, WakeUp PROVE LoopInv'
  OBVIOUS
<1>1. /\ round = Asleep /\ committed > last_applied
      /\ round' = [at |-> "entry", index |-> last_applied + 1, upto |-> committed]
      /\ UNCHANGED <<log, committed, replaced, last_applied, storage, executed, failed>>
  BY DEF WakeUp, raftVars
<1>2. last_applied \in Nat /\ committed \in Nat
  BY DEF LoopInv, LoopTyped
<1>3. round' \in RoundRecord /\ round'.at = "entry" /\ round'.index = last_applied + 1
      /\ round'.upto = committed
  BY <1>1, <1>2 DEF RoundRecord
<1>4. round.at # "points"
  BY <1>1 DEF Asleep
<1>5. LoopTyped' /\ LoopFollows'
  BY <1>1, <1>3 DEF LoopInv, LoopTyped, LoopFollows
<1>6. LoopBehind'
  <2>1. last_applied < last_applied + 1 /\ last_applied + 1 <= committed + 1
    BY <1>1, <1>2
  <2> QED BY <1>1, <1>2, <1>3, <2>1 DEF LoopInv, LoopBehind, InRound
<1>7. LoopOrdered'
  <2>1. \A i \in Nat : ~ (last_applied < i /\ i < last_applied + 1)
    BY <1>2
  <2> QED BY <1>1, <1>3, <2>1 DEF LoopInv, LoopOrdered, InRound
<1>8. LoopStored'
  BY <1>1, <1>3, <1>4 DEF LoopInv, LoopStored, Stored
<1> QED BY <1>5, <1>6, <1>7, <1>8 DEF LoopInv

LEMMA RoundEnds == LoopInv /\ EndRound => LoopInv'
<1> SUFFICES ASSUME LoopInv, EndRound PROVE LoopInv'
  OBVIOUS
<1>1. /\ round.at = "entry" /\ round' = Asleep
      /\ UNCHANGED <<log, committed, replaced, last_applied, storage, executed, failed>>
  BY DEF EndRound, raftVars
<1>2. round' \in RoundRecord /\ round'.at = "asleep"
  BY <1>1 DEF RoundRecord, Asleep
<1>3. LoopTyped' /\ LoopBehind' /\ LoopFollows'
  BY <1>1, <1>2 DEF LoopInv, LoopTyped, LoopBehind, LoopFollows, InRound
<1>4. LoopOrdered' /\ LoopStored'
  BY <1>1, <1>2 DEF LoopInv, LoopOrdered, LoopStored, InRound, Stored
<1> QED BY <1>3, <1>4 DEF LoopInv

\* What the next entry of a round is.
LEMMA NextIsEntry ==
  ASSUME LoopInv, InRound, round.index <= round.upto, round' = NextEntry
  PROVE  /\ round' \in RoundRecord /\ round'.at = "entry" /\ InRound'
         /\ round'.index = round.index + 1 /\ round'.upto = round.upto
         /\ round'.index <= round'.upto + 1
<1>1. round.index \in Nat /\ round.upto \in Nat
  BY RoundParts
<1>2. /\ round' = [at |-> "entry", index |-> round.index + 1, upto |-> round.upto]
      /\ round.index + 1 \in Nat
  BY <1>1 DEF NextEntry
<1>3. round' \in RoundRecord /\ round'.at = "entry"
      /\ round'.index = round.index + 1 /\ round'.upto = round.upto
  BY <1>1, <1>2 DEF RoundRecord
<1> QED BY <1>1, <1>3 DEF InRound

\* The loop passes over the entry of the round.
LEMMA EntryPassedOver ==
  ASSUME LoopInv, InRound, round.index <= round.upto, round' = NextEntry,
         UNCHANGED <<log, committed, replaced, last_applied, executed, storage>>,
         failed' = failed \cup {round.index}
  PROVE  LoopInv'
<1>1. /\ round.index \in Nat /\ round.upto \in Nat /\ last_applied \in Nat /\ committed \in Nat
      /\ last_applied < round.index /\ round.upto <= committed
      /\ \A i \in Nat : last_applied < i /\ i < round.index => i \in failed
  BY RoundParts
<1>2. /\ round' \in RoundRecord /\ round'.at = "entry" /\ InRound'
      /\ round'.index = round.index + 1 /\ round'.upto = round.upto
      /\ round'.index <= round'.upto + 1
  BY NextIsEntry
<1>3. LoopTyped' /\ LoopFollows'
  BY <1>2 DEF LoopInv, LoopTyped, LoopFollows
<1>4. LoopBehind'
  <2>1. last_applied < round.index + 1 /\ last_applied <= committed
    BY <1>1 DEF LoopInv, LoopBehind
  <2> QED BY <1>1, <1>2, <2>1 DEF LoopBehind
<1>5. LoopOrdered'
  <2>1. ASSUME NEW i \in Nat, last_applied < i, i < round.index + 1 PROVE i \in failed'
    <3>1. i = round.index \/ i < round.index
      BY ONLY <1>1, <2>1, i \in Nat
    <3> QED BY <1>1, <2>1, <3>1
  <2> QED BY <1>2, <2>1 DEF LoopInv, LoopOrdered
<1>6. LoopStored'
  BY DEF LoopStored
<1> QED BY <1>3, <1>4, <1>5, <1>6 DEF LoopInv

\* The loop has applied the entry of the round, a command that was the log's.
LEMMA EntryApplied ==
  ASSUME LoopInv, InRound, round.index <= round.upto, round' = NextEntry,
         UNCHANGED <<log, committed, replaced, failed>>, storage' \subseteq AllPoints,
         last_applied' = round.index, NEW c \in Command, executed' = Executed(c),
         round.index \in replaced \/ log[round.index] = c,
         failed = {} => \A p \in AllPoints : p \in storage' <=> StoredAfter(c, p)
  PROVE  LoopInv'
<1>1. /\ round.index \in Nat /\ round.upto \in Nat /\ last_applied \in Nat /\ committed \in Nat
      /\ last_applied < round.index /\ round.upto <= committed
      /\ \A i \in Nat : last_applied < i /\ i < round.index => i \in failed
  BY RoundParts
<1>2. /\ round' \in RoundRecord /\ round'.at = "entry" /\ InRound'
      /\ round'.index = round.index + 1 /\ round'.upto = round.upto
      /\ round'.index <= round'.upto + 1
  BY NextIsEntry
<1> DEFINE last == Len(executed) + 1
<1>3. /\ executed \in Seq(Execution)
      /\ executed' = Append(executed, [index |-> round.index, command |-> c])
  BY DEF LoopInv, LoopTyped, Executed
<1>4. /\ executed' \in Seq(Execution)
      /\ last \in Nat \ {0} /\ DOMAIN executed = 1..last - 1 /\ DOMAIN executed' = 1..last
      /\ \A k \in DOMAIN executed : k \in DOMAIN executed' /\ executed'[k] = executed[k]
      /\ executed'[last].index = round.index /\ executed'[last].command = c
  BY <1>1, <1>3, OneMoreExecution
<1> HIDE DEF last
<1>5. LoopTyped'
  BY <1>1, <1>2, <1>4 DEF LoopInv, LoopTyped
<1>6. LoopBehind'
  <2>1. round.index <= committed /\ round.index < round.index + 1
    BY <1>1
  <2> QED BY <1>1, <1>2, <2>1 DEF LoopBehind
<1>7. \A k \in DOMAIN executed' : k = last \/ (k \in DOMAIN executed /\ executed'[k] = executed[k])
  BY ONLY <1>4
<1>8. LoopFollows'
  <2>1. ASSUME NEW k \in DOMAIN executed'
        PROVE  \/ executed'[k].index \in replaced
               \/ log[executed'[k].index] = executed'[k].command
    <3>1. CASE k = last
      BY <1>4, <3>1
    <3>2. CASE k \in DOMAIN executed /\ executed'[k] = executed[k]
      BY <3>2 DEF LoopInv, LoopFollows
    <3> QED BY <1>7, <3>1, <3>2
  <2> QED BY <1>2, <2>1 DEF LoopInv, LoopFollows
<1>9. \A k \in DOMAIN executed : executed[k].index \in 1..last_applied
  BY DEF LoopInv, LoopOrdered
<1>10. ASSUME NEW k \in DOMAIN executed' PROVE executed'[k].index \in 1..round.index
  <2>1. CASE k = last
    BY <1>1, <1>4, <2>1
  <2>2. CASE k \in DOMAIN executed /\ executed'[k] = executed[k]
    <3>1. executed'[k].index \in 1..last_applied
      BY <1>9, <2>2
    <3> QED BY ONLY <1>1, <3>1
  <2> QED BY <1>7, <2>1, <2>2
<1>11. ASSUME NEW k \in DOMAIN executed', NEW m \in DOMAIN executed', k < m
       PROVE  executed'[k].index < executed'[m].index
  <2>1. k \in DOMAIN executed /\ executed'[k] = executed[k]
    <3>1. k # last
      BY ONLY <1>4, <1>11
    <3> QED BY <1>7, <3>1
  <2>2. CASE m = last
    <3>1. executed'[k].index \in 1..last_applied /\ executed'[m].index = round.index
      BY <1>4, <1>9, <2>1, <2>2
    <3> QED BY ONLY <1>1, <3>1
  <2>3. CASE m \in DOMAIN executed /\ executed'[m] = executed[m]
    BY <1>11, <2>1, <2>3 DEF LoopInv, LoopOrdered
  <2> QED BY <1>7, <2>2, <2>3
<1>12. ASSUME NEW i \in 1..round.index
       PROVE  i \in failed \/ \E k \in DOMAIN executed' : executed'[k].index = i
  <2>1. CASE i \in 1..last_applied
    <3>1. CASE i \in failed
      BY <3>1
    <3>2. CASE \E k \in DOMAIN executed : executed[k].index = i
      BY <1>4, <3>2
    <3> QED BY <2>1, <3>1, <3>2 DEF LoopInv, LoopOrdered
  <2>2. CASE i \in Nat /\ last_applied < i /\ i < round.index
    BY <1>1, <2>2
  <2>3. CASE i = round.index
    <3>1. last \in DOMAIN executed'
      BY ONLY <1>4
    <3> QED BY <1>4, <2>3, <3>1
  <2>4. \/ i \in 1..last_applied \/ i = round.index
        \/ i \in Nat /\ last_applied < i /\ i < round.index
    BY ONLY <1>1, i \in 1..round.index
  <2> QED BY <2>1, <2>2, <2>3, <2>4
<1>13. LoopOrdered'
  <2>1. \A i \in Nat : ~ (round.index < i /\ i < round.index + 1)
    BY ONLY <1>1
  <2> QED BY <1>2, <1>10, <1>11, <1>12, <2>1 DEF LoopOrdered
<1>14. LoopStored'
  <2> SUFFICES ASSUME failed = {}, NEW p \in AllPoints PROVE p \in storage' <=> Stored(p)'
    BY <1>2 DEF LoopStored
  <2>1. Stored(p)' <=> StoredAfter(c, p)
    BY <1>1, <1>3, StoredByOneMore
  <2> QED BY <2>1
<1> QED BY <1>5, <1>6, <1>8, <1>13, <1>14 DEF LoopInv

LEMMA EntrySkipped == LoopInv /\ SkipEntry => LoopInv'
<1> SUFFICES ASSUME LoopInv, SkipEntry PROVE LoopInv'
  OBVIOUS
<1>1. /\ round.at = "entry" /\ InRound /\ round.index <= round.upto /\ round' = NextEntry
      /\ UNCHANGED <<log, committed, replaced, storage>>
  BY DEF SkipEntry, AtEntry, InRound, raftVars
<1>2. CASE /\ round.index <= Len(log) /\ Entry.kind = "dropShard"
           /\ last_applied' = round.index /\ executed' = Executed(Entry) /\ failed' = failed
  <2>1. Entry \in Command /\ Entry = log[round.index]
    <3>1. /\ log \in Seq(Command) /\ round.index \in Nat /\ last_applied \in Nat
          /\ last_applied < round.index
      BY <1>1, RoundParts DEF LoopInv, LoopTyped
    <3>2. round.index \in 1..Len(log)
      BY <1>2, <3>1
    <3> QED BY <3>1, <3>2 DEF Entry
  <2>2. ASSUME failed = {}, NEW p \in AllPoints
        PROVE  p \in storage' <=> StoredAfter(Entry, p)
    <3>1. ~ IsAbout(Entry, "upsert", p) /\ ~ IsAbout(Entry, "delete", p)
      BY <1>2 DEF IsAbout
    <3>2. p \in storage <=> Stored(p)
      BY <1>1, <2>2 DEF LoopInv, LoopStored
    <3> QED BY <1>1, <3>1, <3>2 DEF StoredAfter
  <2>3. storage' \subseteq AllPoints
    BY <1>1 DEF LoopInv, LoopTyped
  <2> QED BY <1>1, <1>2, <2>1, <2>2, <2>3, EntryApplied
<1>3. CASE failed' = failed \cup {round.index} /\ UNCHANGED <<last_applied, executed>>
  BY <1>1, <1>3, EntryPassedOver
<1> QED BY <1>2, <1>3 DEF SkipEntry

LEMMA EntryBegun == LoopInv /\ BeginEntry => LoopInv'
<1> SUFFICES ASSUME LoopInv, BeginEntry PROVE LoopInv'
  OBVIOUS
<1>1. /\ round.at = "entry" /\ InRound /\ round.index <= round.upto /\ round.index <= Len(log)
      /\ Entry.kind \in {"upsert", "delete", "createShard"}
      /\ round' = [at |-> "points", index |-> round.index, upto |-> round.upto,
                   command |-> Entry, todo |-> PointsOf(Entry)]
      /\ UNCHANGED <<log, committed, replaced, last_applied, storage, executed, failed>>
  BY DEF BeginEntry, AtEntry, InRound, raftVars
<1>2. Entry \in Command /\ Entry = log[round.index] /\ round.index \in Nat /\ round.upto \in Nat
  <2>1. /\ log \in Seq(Command) /\ round.index \in Nat /\ round.upto \in Nat
        /\ last_applied \in Nat /\ last_applied < round.index
    BY <1>1, RoundParts DEF LoopInv, LoopTyped
  <2>2. round.index \in 1..Len(log)
    BY <1>1, <2>1
  <2> QED BY <2>1, <2>2 DEF Entry
<1>3. PointsOf(Entry) \in Seq(AllPoints)
  BY <1>2, PointsAreKnown
<1>4. /\ round' \in RoundRecord /\ round'.at = "points" /\ round'.index = round.index
      /\ round'.upto = round.upto /\ round'.command = Entry /\ round'.todo = PointsOf(Entry)
  BY <1>1, <1>2, <1>3 DEF RoundRecord
<1>5. LoopTyped' /\ LoopFollows'
  BY <1>1, <1>2, <1>4 DEF LoopInv, LoopTyped, LoopFollows
<1>6. LoopBehind'
  BY <1>1, <1>4 DEF LoopInv, LoopBehind, InRound
<1>7. LoopOrdered'
  BY <1>1, <1>4 DEF LoopInv, LoopOrdered, InRound
<1>8. ASSUME failed = {}, NEW p \in AllPoints
      PROVE  p \in Coming' <=> StoredAfter(Entry, p)
  <2>1. p \in storage <=> Stored(p)
    BY <1>1, <1>8 DEF LoopInv, LoopStored
  <2>2. Coming' = IF Entry.kind = "upsert" THEN storage \cup Range(PointsOf(Entry))
                  ELSE storage \ Range(PointsOf(Entry))
    BY <1>1, <1>4 DEF Coming
  <2>3. CASE Entry.kind = "createShard"
    <3>1. Range(PointsOf(Entry)) = {}
      BY <2>3 DEF PointsOf, Range
    <3> QED BY <2>1, <2>2, <2>3, <3>1 DEF IsAbout, StoredAfter
  <2>4. CASE Entry.kind \in {"upsert", "delete"}
    <3>1. PointsOf(Entry) = Entry.points
      BY <2>4 DEF PointsOf
    <3> QED BY <2>1, <2>2, <2>4, <3>1 DEF IsAbout, StoredAfter
  <2> QED BY <1>1, <2>3, <2>4
<1>9. LoopStored'
  <2>1. \A p : Stored(p)' <=> Stored(p)
    BY <1>1 DEF Stored
  <2> QED BY <1>1, <1>4, <1>8, <2>1 DEF LoopStored, StoredAfter
<1> QED BY <1>5, <1>6, <1>7, <1>9 DEF LoopInv

LEMMA PointExecuted == LoopInv /\ ExecutePoint => LoopInv'
<1> SUFFICES ASSUME LoopInv, ExecutePoint PROVE LoopInv'
  OBVIOUS
<1>1. /\ round.at = "points" /\ round.todo # << >> /\ InRound
      /\ UNCHANGED <<log, committed, replaced, last_applied, executed>>
  BY DEF ExecutePoint, InRound, raftVars
<1>2. /\ round.command \in Command /\ round.todo \in Seq(AllPoints)
      /\ round.index \in Nat /\ round.upto \in Nat /\ last_applied \in Nat
      /\ last_applied < round.index
  BY <1>1, RoundParts
<1>3. round.index <= round.upto /\ round.command.kind \in {"upsert", "delete", "createShard"}
  BY <1>1 DEF LoopInv, LoopBehind
<1>4. PICK first \in AllPoints, rest \in Seq(AllPoints) :
         first = Head(round.todo) /\ rest = Tail(round.todo)
  <2>1. Head(round.todo) \in AllPoints /\ Tail(round.todo) \in Seq(AllPoints)
    BY <1>1, <1>2
  <2> QED BY <2>1
<1>5. storage \subseteq AllPoints
  BY DEF LoopInv, LoopTyped
<1>6. CASE /\ storage' = IF round.command.kind = "upsert" THEN storage \cup {first}
                         ELSE storage \ {first}
           /\ round' = [round EXCEPT !.todo = rest]
           /\ failed' = failed
  <2>1. round \in [at : {"points"}, index : Nat, upto : Nat, command : Command, todo : Seq(AllPoints)]
    BY <1>1 DEF LoopInv, LoopTyped, RoundRecord, Asleep
  <2>2. /\ round' \in RoundRecord /\ round'.at = "points" /\ round'.index = round.index
        /\ round'.upto = round.upto /\ round'.command = round.command /\ round'.todo = rest
    BY <1>6, <2>1 DEF RoundRecord
  <2>3. LoopTyped'
    BY <1>1, <1>4, <1>5, <1>6, <2>2 DEF LoopInv, LoopTyped
  <2>4. LoopBehind'
    BY <1>1, <2>2 DEF LoopInv, LoopBehind, InRound
  <2>5. LoopOrdered'
    BY <1>1, <1>6, <2>2 DEF LoopInv, LoopOrdered, InRound
  <2>6. Range(round.todo) = {first} \cup Range(rest)
    <3>1. /\ DOMAIN round.todo = 1..Len(round.todo) /\ Len(round.todo) \in Nat \ {0}
          /\ DOMAIN rest = 1..(Len(round.todo) - 1)
          /\ first = round.todo[1]
          /\ \A i \in 1..(Len(round.todo) - 1) : rest[i] = round.todo[i + 1]
      BY <1>1, <1>2, <1>4
    <3>2. ASSUME NEW i \in DOMAIN round.todo PROVE round.todo[i] \in {first} \cup Range(rest)
      <4>1. CASE i = 1
        BY <3>1, <4>1
      <4>2. CASE i # 1
        <5>1. i - 1 \in DOMAIN rest /\ rest[i - 1] = round.todo[i]
          BY <3>1, <4>2
        <5> QED BY <5>1 DEF Range
      <4> QED BY <4>1, <4>2
    <3>3. ASSUME NEW i \in DOMAIN rest PROVE rest[i] \in Range(round.todo)
      <4>1. i + 1 \in DOMAIN round.todo /\ rest[i] = round.todo[i + 1]
        BY <3>1
      <4> QED BY <4>1 DEF Range
    <3>4. first \in Range(round.todo)
      <4>1. 1 \in DOMAIN round.todo
        BY <3>1
      <4> QED BY <3>1, <4>1 DEF Range
    <3> QED BY <3>2, <3>3, <3>4 DEF Range
  <2>7. Coming' = (IF round.command.kind = "upsert" THEN storage' \cup Range(rest)
                   ELSE storage' \ Range(rest))
    BY <2>2 DEF Coming
  <2>8. Coming' = Coming
    BY <1>6, <2>6, <2>7 DEF Coming
  <2>9. LoopStored'
    <3>1. \A p : /\ Stored(p)' <=> Stored(p)
                 /\ StoredAfter(round.command, p)' <=> StoredAfter(round.command, p)
      BY <1>1, <2>2 DEF Stored, StoredAfter
    <3> QED BY <1>1, <1>6, <2>2, <2>8, <3>1 DEF LoopInv, LoopStored
  <2>10. LoopFollows'
    BY <1>1, <2>2 DEF LoopInv, LoopFollows
  <2> QED BY <2>3, <2>4, <2>5, <2>9, <2>10 DEF LoopInv
<1>7. CASE failed' = failed \cup {round.index} /\ round' = NextEntry /\ storage' = storage
  BY <1>1, <1>3, <1>7, EntryPassedOver
<1> QED BY <1>4, <1>6, <1>7 DEF ExecutePoint

LEMMA EntryEnds == LoopInv /\ EndEntry => LoopInv'
<1> SUFFICES ASSUME LoopInv, EndEntry PROVE LoopInv'
  OBVIOUS
<1>1. /\ round.at = "points" /\ round.todo = << >> /\ InRound /\ round' = NextEntry
      /\ last_applied' = round.index /\ executed' = Executed(round.command)
      /\ UNCHANGED <<log, committed, replaced, storage, failed>>
  BY DEF EndEntry, InRound, raftVars
<1>2. round.index <= round.upto /\ round.command \in Command
  BY <1>1, RoundParts DEF LoopInv, LoopBehind
<1>3. storage' \subseteq AllPoints
  BY <1>1 DEF LoopInv, LoopTyped
<1>4. Coming = storage
  <2>1. Range(round.todo) = {}
    BY <1>1 DEF Range
  <2> QED BY <2>1 DEF Coming
<1>5. failed = {} => \A p \in AllPoints : p \in storage' <=> StoredAfter(round.command, p)
  BY <1>1, <1>4 DEF LoopInv, LoopStored
<1>6. round.index \in replaced \/ log[round.index] = round.command
  BY <1>1 DEF LoopInv, LoopFollows
<1> QED BY <1>1, <1>2, <1>3, <1>5, <1>6, EntryApplied

LEMMA LoopGoesOn == LoopInv /\ [LoopNext]_loopVars => LoopInv'
<1> SUFFICES ASSUME LoopInv, [LoopNext]_loopVars PROVE LoopInv'
  OBVIOUS
<1>1. CASE \/ \E c \in Command : AppendCommand(c) \/ \E prev \in 0..Len(log) : ReceiveEntry(prev, c)
           \/ \E index \in 1..Len(log) : CommitUpTo(index)
  BY <1>1, RaftMovesOn
<1>2. CASE LoopStep
  BY <1>2, RoundBegins, EntrySkipped, EntryBegun, PointExecuted, EntryEnds, RoundEnds
     DEF LoopStep
<1>3. CASE UNCHANGED loopVars
  <2>1. UNCHANGED <<log, committed, replaced, last_applied, round, storage, executed, failed>>
    BY <1>3 DEF loopVars, raftVars, ownVars
  <2>2. LoopTyped' /\ LoopBehind' /\ LoopFollows'
    BY <2>1 DEF LoopInv, LoopTyped, LoopBehind, LoopFollows, InRound
  <2>3. LoopOrdered' /\ LoopStored'
    BY <2>1 DEF LoopInv, LoopOrdered, LoopStored, InRound, Stored, StoredAfter, Coming
  <2> QED BY <2>2, <2>3 DEF LoopInv
<1> QED BY <1>1, <1>2, <1>3 DEF LoopNext

LEMMA LoopIsInOrder == LoopInv => CommandsTakeEffectInOrder
<1> SUFFICES ASSUME LoopInv PROVE CommandsTakeEffectInOrder
  OBVIOUS
<1>1. /\ last_applied \in Nat /\ committed \in Nat /\ last_applied <= committed
      /\ executed \in Seq(Execution)
  BY DEF LoopInv, LoopTyped, LoopBehind
<1>2. \A i \in DOMAIN executed : executed[i].index \in 1..committed
  <2>1. \A i \in DOMAIN executed : executed[i].index \in 1..last_applied
    BY DEF LoopInv, LoopOrdered
  <2> QED BY ONLY <1>1, <2>1
<1>3. CommandsRunInOrder
  <2>1. \A i \in DOMAIN executed : executed[i].index <= committed
    BY ONLY <1>1, <1>2
  <2> QED BY <2>1 DEF CommandsRunInOrder, LoopInv, LoopOrdered
<1>4. ExecutionFollowsLog
  BY <1>2 DEF ExecutionFollowsLog, LoopInv, LoopFollows
<1>5. StorageFollowsExecution
  <2> SUFFICES ASSUME round = Asleep, failed = {},
                      NEW p \in storage \cup UNION {Range(executed[i].command.points) :
                                                       i \in DOMAIN executed}
               PROVE  p \in storage <=>
                        \E i \in DOMAIN executed :
                            /\ Concerns(i, "upsert", p)
                            /\ \A j \in DOMAIN executed : i < j => ~ Concerns(j, "delete", p)
    BY DEF StorageFollowsExecution
  <2>1. \A i \in DOMAIN executed : executed[i].command \in Command
    <3>1. \A i \in DOMAIN executed : executed[i] \in Execution
      BY ONLY <1>1
    <3> QED BY <3>1 DEF Execution
  <2>2. p \in AllPoints
    BY <2>1 DEF AllPoints, LoopInv, LoopTyped
  <2>3. p \in storage <=> Stored(p)
    BY <2>2 DEF LoopInv, LoopStored, Asleep
  <2> QED BY <2>3 DEF Stored, IsAbout, Concerns
<1> QED BY <1>3, <1>4, <1>5 DEF CommandsTakeEffectInOrder

\* What is committed takes effect in the order of the log and once, as the log says
\* unless what was committed is cut off, and leaves in the storage what was
\* executed, whatever fails and however the Raft node appends, commits and cuts
\* meanwhile: consensus.rs:331-391.
THEOREM CommandsAlwaysInOrder == LoopSpec => []CommandsTakeEffectInOrder
  BY LoopInitially, LoopGoesOn, LoopIsInOrder, PTL DEF LoopSpec
=============================================================================
