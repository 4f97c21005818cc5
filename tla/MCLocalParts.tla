---------------------------- MODULE MCLocalParts ----------------------------
(***************************************************************************)
(* Parts of one process that share no state; in a behaviour one of them    *)
(* moves and the others stand still.                                       *)
(*                                                                         *)
(* Embedded database: two threads store a batch of two identifiers, or     *)
(* one, and delete both one after the other: the batch and the deletes     *)
(* overlap, and a crash can fall between any two of three commits.         *)
(*                                                                         *)
(* Resilience: two tasks with three calls between them, each retried once, *)
(* a bucket of one token that is earned again once, and one resource: a    *)
(* call meets a breaker that is closed, open and half open, an empty       *)
(* bucket and a pool that another attempt has emptied.                     *)
(*                                                                         *)
(* Task queues: three workers and three jobs; two threads that collect     *)
(* five tasks in batches of two, more than the two that may stay behind.   *)
(*                                                                         *)
(* Accounts: two tasks that log in, one of which also calls with a key or  *)
(* an identifier, an administrator and a reader, a log of three entries    *)
(* that drops two.  Query cache: two clones of an engine.                  *)
(* Index file: two threads that save and load.  Connections: two peers, a  *)
(* caller and the monitor, two connections made.  Committed commands: a    *)
(* log of two entries, of five kinds, and three errors of the storage or   *)
(* cuts of the log, so that an entry fails again and is then left behind,  *)
(* and one is cut off after it was executed.                               *)
(***************************************************************************)
EXTENDS EmbeddedDB, Resilience, TaskQueues, Accounts, QueryEngine,
        NetworkConnections, CommandLoop, TLC

CONSTANTS a, b, l1

MCBatch == {{a, b}, {b}}
MCDoomed == {<<a, b>>, <<b>>}

MCGrants ==
    [r \in Role |-> IF r = "SuperAdmin" THEN Permission ELSE Permission \ {"WriteData"}]

\* Two points together, the same two deleted one by one, and the other kinds.
MCCommand == {[kind |-> "upsert", points |-> <<1, 2>>], [kind |-> "delete", points |-> <<2>>],
              [kind |-> "createShard", points |-> << >>], [kind |-> "dropShard", points |-> << >>],
              [kind |-> "garbled", points |-> << >>]}

\* Requests of every kind around the limits of the rules, and up to two rules
\* added to the standard ones, of which the rewriting ones undo each other.
Requests == [kind : {"VectorSearch", "TextSearch", "HybridSearch"},
             query : {<<"x">>, <<"x", "y">>}, limit : {1, 100, 150}, threshold : {Absent, 0, 3}]
AddedRules == {LimitMaxResults(5), MinSimilarityThreshold(2),
               QueryRewrite(<< <<"x", <<"y", "y">>>> >>), QueryRewrite(<< <<"y", <<"x">>>> >>)}
RuleLists == {StandardRules} \cup {StandardRules \o <<r, q>> : r, q \in AddedRules}

ASSUME OptimizingNarrows(Requests, RuleLists)

-----------------------------------------------------------------------------
VARIABLE part   \* the part that moves

LocalVars == <<part, vars, callVars, jobVars, batchVars, accountVars, queryVars,
               fileVars, networkVars, loopVars>>

LocalInit ==
    /\ Init /\ CallInit /\ TaskInit /\ AccountInit /\ QueryInit /\ FileInit
    /\ NetworkInit /\ LoopInit
    /\ part \in {"database", "calls", "jobs", "batches", "accounts", "cache", "file", "network",
                "loop"}
    \* One initial state for what stands still.
    /\ part # "accounts" => max_login_attempts = 1
    /\ part # "cache" => default = [e \in Engine |-> 1]
    /\ part # "network" => health = [p \in Peer |-> "up"]

\* The steps of the next-state relations, one by one.
Database(step) ==
    /\ part = "database" /\ step
    /\ UNCHANGED <<part, callVars, jobVars, batchVars, accountVars, queryVars, fileVars, networkVars, loopVars>>
Calls(step) ==
    /\ part = "calls" /\ step
    /\ UNCHANGED <<part, vars, jobVars, batchVars, accountVars, queryVars, fileVars, networkVars, loopVars>>
Stealing(step) ==
    /\ part = "jobs" /\ step
    /\ UNCHANGED <<part, vars, callVars, accountVars, queryVars, fileVars, networkVars, loopVars>>
Batches(step) ==
    /\ part = "batches" /\ step
    /\ UNCHANGED <<part, vars, callVars, accountVars, queryVars, fileVars, networkVars, loopVars>>
Accounts(step) ==
    /\ part = "accounts" /\ step
    /\ UNCHANGED <<part, vars, callVars, jobVars, batchVars, queryVars, fileVars, networkVars, loopVars>>
Caching(step) ==
    /\ part = "cache" /\ step
    /\ UNCHANGED <<part, vars, callVars, jobVars, batchVars, accountVars, fileVars, networkVars, loopVars>>
Saving(step) ==
    /\ part = "file" /\ step
    /\ UNCHANGED <<part, vars, callVars, jobVars, batchVars, accountVars, queryVars, networkVars, loopVars>>
Network(step) ==
    /\ part = "network" /\ step
    /\ UNCHANGED <<part, vars, callVars, jobVars, batchVars, accountVars, queryVars, fileVars, loopVars>>
Looping(step) ==
    /\ part = "loop" /\ step
    /\ UNCHANGED <<part, vars, callVars, jobVars, batchVars, accountVars, queryVars, fileVars, networkVars>>

LocalNext ==
    \/ Database(BackgroundFlush) \/ Database(Checkpoint)
    \/ Database(Open) \/ (\E enabled \in BOOLEAN : Database(Warmup(enabled)))
    \/ Database(BeginClose) \/ Database(FinishClose) \/ Database(Drop) \/ Database(Crash)
    \/ \E t \in Thread :
        \/ \E ids \in Batch : Database(Begin(t, "upsert", ids, << >>))
        \/ \E ids \in Doomed : Database(Begin(t, "delete", {}, ids))
        \/ Database(Begin(t, "search", {}, << >>))
        \/ Database(Upsert(t)) \/ Database(DeleteOne(t)) \/ Database(FinishDelete(t))
        \/ Database(Search(t)) \/ Database(CallFails(t))
    \/ \E t \in CallTask :
        \/ Calls(AllowRequest(t)) \/ Calls(Allowed(t)) \/ Calls(Refused(t))
        \/ Calls(RefillTokens(t)) \/ Calls(TryAcquire(t))
        \/ Calls(Acquire(t)) \/ Calls(EndAttempt(t)) \/ Calls(TakeResource(t))
        \/ Calls(Count(t)) \/ Calls(Judge(t))
        \/ Calls(TransitionToOpen(t)) \/ Calls(TransitionToClosed(t))
        \/ Calls(ResetCounters(t))
    \/ (\E r \in Resource : Calls(AddResource(r)))
    \/ Calls(SleepWindowPasses) \/ Calls(PeriodPasses) \/ Calls(TokenEarned)
    \/ \E w \in Worker :
        \/ Stealing(Push(w)) \/ Stealing(GetTask(w))
        \/ \E other \in Worker : Stealing(Steal(w, other))
    \/ \E t \in PoolThread : Batches(Collect(t)) \/ Batches(Process(t)) \/ Batches(SendResult(t))
    \/ Batches(AddTask) \/ Batches(GetResult) \/ Batches(DropProcessor)
    \/ \E n \in Name :
        \/ Accounts(LockoutPasses(n))
        \/ (\E p \in Password : Accounts(CreateAdminUser(n, p)))
        \/ (\E roles \in SUBSET Role : Accounts(CreateUser(n, roles)))
        \/ (\E t \in Task, p \in Password : Accounts(BeginLogin(t, n, p)))
    \/ \E t \in Task : Accounts(FinishLogin(t)) \/ Accounts(FinishCall(t))
    \/ Accounts(KeyExpires(1))
    \/ \E u \in DOMAIN users :
        \/ Accounts(CreateApiKey(u, 1)) \/ Accounts(RevokeApiKey(u, 1))
    \/ \E u \in 1..2, p \in Permission :
        \/ Accounts(CheckPermission(u, p))
        \/ Accounts(BeginCallById(l1, u, p))
    \/ \E p \in Permission : Accounts(BeginCallWithKey(l1, 1, p))
    \/ Accounts(Authenticate)
    \/ \E max \in {1, 2} : Accounts(UpdatePolicy(max))
    \/ \E e \in Engine, text \in Text, limit \in Limits \cup {Absent} : Caching(CachedSearch(e, text, limit))
    \/ \E e \in Engine : Caching(ReadStore(e)) \/ Caching(InsertAnswer(e))
    \/ \E key \in Text \X Limits : Caching(Evict(key))
    \/ \E e \in Engine, limit \in Limits : Caching(UpdateConfig(e, limit))
    \/ Caching(WriteStore) \/ Caching(ClearCache)
    \/ \E id \in SavedId, vec \in SavedVec : Saving(AddToIndex(id, vec))
    \/ \E id \in SavedId : Saving(RemoveFromIndex(id))
    \/ \E t \in FileThread :
        \/ Saving(Capture(t)) \/ Saving(OpenFile(t)) \/ Saving(WriteFile(t))
        \/ Saving(WriteFails(t)) \/ Saving(ReadFile(t)) \/ Saving(ReplaceIndex(t))
    \/ Saving(StopProcess)
    \/ \E t \in Caller, p \in Peer :
        \/ Network(ConnectToNode(t, p)) \/ Network(DisconnectFromNode(t, p))
        \/ Network(SendRequest(t, p))
    \/ \E t \in Caller :
        \/ Network(Shutdown(t)) \/ Network(SaveConnection(t)) \/ Network(MarkDisconnected(t))
        \/ Network(LookUpConnection(t))
    \/ \E t \in Caller \cup {Monitor} : Network(Answered(t)) \/ Network(NotAnswered(t))
    \/ \E p \in Peer : Network(HealthChanges(p))
    \/ Network(MonitorTicks) \/ Network(EnterTable)
    \/ \E c \in Command :
        \/ Looping(AppendCommand(c))
        \/ \E prev \in 0..Len(log) : Looping(ReceiveEntry(prev, c))
    \/ \E index \in 1..Len(log) : Looping(CommitUpTo(index))
    \/ Looping(WakeUp) \/ Looping(SkipEntry) \/ Looping(BeginEntry)
    \/ Looping(ExecutePoint) \/ Looping(EndEntry) \/ Looping(EndRound)

\* The fairness is that of the calls through the resilience manager, of the
\* threads of the batch processor, of the tasks that use the network and of the
\* loop that executes committed commands.
LocalSpec ==
    /\ LocalInit /\ [][LocalNext]_LocalVars
    /\ \A t \in CallTask : WF_LocalVars(Calls(Continue(t)))
    /\ \A t \in PoolThread : WF_LocalVars(Batches(ThreadStep(t)))
    /\ WF_LocalVars(Batches(GetResult))
    /\ \A t \in Caller \cup {Monitor} : WF_LocalVars(Network(Continues(t)))
    /\ WF_LocalVars(Looping(LoopStep))

\* Calls return: through breaker, tokens and retries, and to peers that may
\* never answer (resilience.rs:676; network.rs:421).  Tasks given to the batch
\* processor come out but for the last few, and committed commands are applied
\* (concurrent.rs:411-445; consensus.rs:324).
EverythingGetsThrough ==
    EveryCallReturns /\ CallsReturn /\ BatchesGetThrough /\ CommittedIsApplied
=============================================================================
