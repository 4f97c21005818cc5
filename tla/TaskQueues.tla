----------------------------- MODULE TaskQueues -----------------------------
(***************************************************************************)
(* Two queues of src/concurrent.rs: WorkStealingQueue, whose workers take  *)
(* jobs from each other, and ConcurrentBatchProcessor, whose threads       *)
(* collect tasks of a bounded channel into batches and send their results  *)
(* into another.  Jobs and tasks are numbered in the order they arrive.    *)
(***************************************************************************)
EXTENDS Integers, Sequences, FiniteSets, SequencesExt

CONSTANTS Worker,      \* workers, each with a queue
          PoolThread,  \* threads of the batch processor
          BatchSize,
          QueueSize,   \* of both channels, ten times the batch in the code
          MaxJobs,     \* bound on the jobs pushed
          MaxPieces    \* bound on the tasks given to the batch processor

ASSUME QueuesAssumption ==
    /\ Cardinality(Worker) > 1
    /\ {BatchSize, QueueSize} \subseteq Nat \ {0} /\ {MaxJobs, MaxPieces} \subseteq Nat

VARIABLES local,     \* worker -> jobs of its queue, oldest first
          looking,   \* worker -> queues it may still look into, to steal
          pushed,    \* number of jobs so far
          taken,     \* jobs handed out
          queue,     \* tasks waiting
          results,   \* results waiting
          batch,     \* thread -> tasks it has collected
          output,    \* thread -> results it has yet to send
          open,      \* the processor has not been dropped
          given,     \* number of tasks so far
          received   \* tasks whose result was received

jobVars == <<local, looking, pushed, taken>>
batchVars == <<queue, results, batch, output, open, given, received>>
taskVars == <<jobVars, batchVars>>

JobInit ==
    /\ local = [w \in Worker |-> << >>]
    /\ looking = [w \in Worker |-> 0]
    /\ pushed = 0 /\ taken = {}

BatchInit ==
    /\ queue = << >> /\ results = << >>
    /\ batch = [t \in PoolThread |-> << >>] /\ output = [t \in PoolThread |-> << >>]
    /\ open = TRUE /\ given = 0 /\ received = {}

TaskInit == JobInit /\ BatchInit

-----------------------------------------------------------------------------
(* WorkStealingQueue *)

Push(w) ==
    /\ looking[w] = 0 /\ pushed < MaxJobs
    /\ pushed' = pushed + 1
    /\ local' = [local EXCEPT ![w] = Append(@, pushed')]
    /\ UNCHANGED <<looking, taken, batchVars>>

\* get_task: the youngest job of its own, else the worker starts to steal.
GetTask(w) ==
    /\ looking[w] = 0
    /\ IF local[w] = << >>
       THEN /\ looking' = [looking EXCEPT ![w] = Cardinality(Worker)]
            /\ UNCHANGED <<local, taken>>
       ELSE /\ taken' = taken \cup {Last(local[w])}
            /\ local' = [local EXCEPT ![w] = Front(@)]
            /\ UNCHANGED looking
    /\ UNCHANGED <<pushed, batchVars>>

\* Mutant: the stolen job stays where it was.
StealByCopy(w, other) ==
    /\ looking[w] > 0 /\ other # w
    /\ IF Len(local[other]) \div 2 > 0
       THEN /\ taken' = taken \cup {Head(local[other])}
            /\ looking' = [looking EXCEPT ![w] = 0]
       ELSE looking' = [looking EXCEPT ![w] = @ - 1] /\ UNCHANGED taken
    /\ UNCHANGED <<local, pushed, batchVars>>

\* The oldest job of another queue, chosen at random, unless it is the only one.
Steal(w, other) ==
    /\ looking[w] > 0 /\ other # w
    /\ IF Len(local[other]) \div 2 > 0
       THEN /\ taken' = taken \cup {Head(local[other])}
            /\ local' = [local EXCEPT ![other] = Tail(@)]
            /\ looking' = [looking EXCEPT ![w] = 0]
       ELSE looking' = [looking EXCEPT ![w] = @ - 1] /\ UNCHANGED <<local, taken>>
    /\ UNCHANGED <<pushed, batchVars>>

-----------------------------------------------------------------------------
(* ConcurrentBatchProcessor *)

\* add_task waits while the channel is full.
AddTask ==
    /\ open /\ given < MaxPieces /\ Len(queue) < QueueSize
    /\ given' = given + 1
    /\ queue' = Append(queue, given')
    /\ UNCHANGED <<jobVars, results, batch, output, open, received>>

\* A thread collects until its batch is full, or the channel closed and empty.
Collecting(t) ==
    /\ output[t] = << >>
    /\ Len(batch[t]) < BatchSize /\ (open \/ queue # << >>)

Collect(t) ==
    /\ Collecting(t) /\ queue # << >>
    /\ batch' = [batch EXCEPT ![t] = Append(@, Head(queue))]
    /\ queue' = Tail(queue)
    /\ UNCHANGED <<jobVars, results, output, open, given, received>>

\* One result for each task.
Process(t) ==
    /\ output[t] = << >> /\ ~Collecting(t) /\ batch[t] # << >>
    /\ output' = [output EXCEPT ![t] = batch[t]]
    /\ batch' = [batch EXCEPT ![t] = << >>]
    /\ UNCHANGED <<jobVars, queue, results, open, given, received>>

\* A send waits while the channel of results is full; when that is closed the
\* rest of the batch's results is dropped.
SendResult(t) ==
    /\ output[t] # << >>
    /\ IF open
       THEN /\ Len(results) < QueueSize
            /\ results' = Append(results, Head(output[t]))
            /\ output' = [output EXCEPT ![t] = Tail(@)]
       ELSE output' = [output EXCEPT ![t] = << >>] /\ UNCHANGED results
    /\ UNCHANGED <<jobVars, queue, batch, open, given, received>>

GetResult ==
    /\ open /\ results # << >>
    /\ received' = received \cup {Head(results)}
    /\ results' = Tail(results)
    /\ UNCHANGED <<jobVars, queue, batch, output, open, given>>

\* The owner drops the processor, with the sender of tasks and the receiver of
\* results; the threads hold the other ends.
DropProcessor ==
    /\ open /\ open' = FALSE
    /\ results' = << >>
    /\ UNCHANGED <<jobVars, queue, batch, output, given, received>>

ThreadStep(t) == Collect(t) \/ Process(t) \/ SendResult(t)

QueueNext ==
    \/ \E w \in Worker : Push(w) \/ GetTask(w) \/ \E other \in Worker : Steal(w, other)
    \/ AddTask \/ GetResult \/ DropProcessor
    \/ \E t \in PoolThread : ThreadStep(t)

\* The threads run, and their owner asks for results.
QueueSpec ==
    /\ TaskInit /\ [][QueueNext]_taskVars
    /\ (\A t \in PoolThread : WF_taskVars(ThreadStep(t))) /\ WF_taskVars(GetResult)

-----------------------------------------------------------------------------
\* Every job is handed out once, or waits in one queue, whoever pops and steals
\* at the same time (concurrent.rs:333-361).
EveryJobOnce ==
    LET Queued(w) == Range(local[w])
    IN  /\ taken \cup UNION {Queued(w) : w \in Worker} = 1..pushed
        /\ \A w \in Worker :
              /\ Cardinality(Queued(w)) = Len(local[w]) /\ Queued(w) \cap taken = {}
              /\ \A other \in Worker \ {w} : Queued(w) \cap Queued(other) = {}

\* Tasks come back as results while the processor lives: no more of them stay
\* behind than fill the batches of all threads but for one task each
\* (concurrent.rs:420-439).
BatchesGetThrough ==
    \A n \in 1..MaxPieces :
        given = n ~> ~open
            \/ Cardinality(received) + Cardinality(PoolThread) * (BatchSize - 1) >= n
=============================================================================
