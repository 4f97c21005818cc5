------------------------------ MODULE Failover ------------------------------
(***************************************************************************)
(* FailoverManager of src/distributed/failover.rs on top of the            *)
(* ReplicationManager: heartbeats, the declaration of failures, and the    *)
(* recovery tasks that concurrent callers queue and execute.               *)
(*                                                                         *)
(* A detection keeps the write guard of node_states from the declaration   *)
(* to the end of the failover it starts (auto_recovery_enabled is set by   *)
(* default); initiate_failover may also be called directly, without it.    *)
(*                                                                         *)
(* A recovery task has no effect of its own in this code (moving a shard   *)
(* is simulated and always succeeds), so a task is only queued, executed   *)
(* and recorded.  Every task of the program has the same priority, which   *)
(* leaves the queue in the order of arrival; it is popped from its end.    *)
(***************************************************************************)
EXTENDS Replication, SequencesExt

CONSTANTS Caller,      \* tasks that call detect_node_failure or initiate_failover
          Threshold,   \* failed heartbeats in a row that mean failure (3)
          NoHistory,   \* no heartbeat was recorded since monitoring began
          NoTarget,
          MaxMonitors  \* bound on the heartbeat tasks of one node

ASSUME FailoverAssumption ==
    /\ Threshold \in Nat \ {0}
    /\ NoHistory \notin Nat
    /\ NoTarget \notin Node
    /\ MaxMonitors \in Nat

VARIABLES nodeState,  \* node_states
          monitors,   \* heartbeat tasks running for each node
          strikes,    \* heartbeat_history: failures since the last success
          checked,    \* nodes the health monitor of the replicas knows
          detect,     \* where each call is
          queue,      \* recovery_queue
          active,     \* active_recoveries
          history     \* recovery_history, of calls still under way

fvars == <<nodeState, monitors, strikes, checked, detect, queue, active, history>>
vars == <<rvars, fvars>>

Idler == [pc |-> "idle", node |-> NoTarget, shards |-> {}, made |-> {},
          shard |-> NoGroup, target |-> NoTarget, guard |-> FALSE]

Task == Caller \X Shard

TypeOK ==
    /\ ReplicationTypeOK
    /\ nodeState \in [Node -> {"absent", "healthy", "failed"}]
    /\ monitors \in [Node -> 0..MaxMonitors]
    /\ strikes \in [Node -> {NoHistory} \cup 0..Threshold]
    /\ checked \subseteq Node
    /\ detect \in [Caller -> [pc : {"idle", "declare", "snapshot", "select",
                                    "fallback", "enqueue", "execute"},
                              node : Node \cup {NoTarget},
                              shards : SUBSET Shard, made : SUBSET Shard,
                              shard : Shard \cup {NoGroup},
                              target : Node \cup {NoTarget},
                              guard : BOOLEAN]]
    /\ queue \in Seq(Task) /\ active \subseteq Task /\ history \subseteq Task
    /\ \A n \in Node : nodeState[n] # "absent" => monitors[n] > 0

Init ==
    /\ ReplicationInit
    /\ nodeState = [n \in Node |-> "absent"]
    /\ monitors = [n \in Node |-> 0]
    /\ strikes = [n \in Node |-> NoHistory]
    /\ checked = {}
    /\ detect = [c \in Caller |-> Idler]
    /\ queue = <<>> /\ active = {} /\ history = {}

-----------------------------------------------------------------------------
\* No call holds the write guard of node_states.
StatesUnlocked == \A c \in Caller : ~ detect[c].guard

\* add_node starts a heartbeat task without asking whether one is running; the
\* map keeps the handle of the last one only.
AddNode(n) ==
    /\ StatesUnlocked
    /\ monitors[n] < MaxMonitors
    /\ nodeState' = [nodeState EXCEPT ![n] = "healthy"]
    /\ monitors' = [monitors EXCEPT ![n] = @ + 1]
    /\ UNCHANGED <<rvars, strikes, checked, detect, queue, active, history>>

\* remove_node stops the task whose handle is kept.
RemoveNode(n) ==
    /\ StatesUnlocked
    /\ nodeState[n] # "absent"
    /\ nodeState' = [nodeState EXCEPT ![n] = "absent"]
    /\ monitors' = [monitors EXCEPT ![n] = @ - 1]
    /\ strikes' = [strikes EXCEPT ![n] = NoHistory]
    /\ UNCHANGED <<rvars, checked, detect, queue, active, history>>

\* A heartbeat task records a success or a failure.
Heartbeat(n) ==
    /\ monitors[n] > 0
    /\ \/ strikes' = [strikes EXCEPT ![n] = 0]
       \/ strikes' = [strikes EXCEPT ![n] =
                         IF @ = NoHistory THEN 1
                         ELSE IF @ = Threshold THEN @ ELSE @ + 1]
    /\ UNCHANGED <<rvars, nodeState, monitors, checked, detect, queue, active, history>>

\* mark_node_recovered leaves the heartbeats as they are.
MarkNodeRecovered(n) ==
    /\ StatesUnlocked
    /\ nodeState' = [nodeState EXCEPT ![n] = IF @ = "absent" THEN @ ELSE "healthy"]
    /\ UNCHANGED <<rvars, monitors, strikes, checked, detect, queue, active, history>>

\* add_node_to_monitoring records a node as healthy.  No result of a health
\* check is ever stored, so it stays so.
AddNodeToMonitoring(n) ==
    /\ checked' = checked \cup {n}
    /\ UNCHANGED <<rvars, nodeState, monitors, strikes, detect, queue, active, history>>

-----------------------------------------------------------------------------
\* check_node_health: a node without any record counts as failed.
LooksFailed(n) == strikes[n] \notin 0..Threshold - 1

\* detect_node_failure of a node that looks failed; otherwise the call returns
\* with nothing done.
Check(c, n) ==
    /\ detect[c].pc = "idle"
    /\ LooksFailed(n)
    /\ detect' = [detect EXCEPT ![c].pc = "declare", ![c].node = n]
    /\ UNCHANGED <<rvars, nodeState, monitors, strikes, checked, queue, active, history>>

\* The guard is taken and kept.  The state is written although a heartbeat may
\* have come in while the call waited for it.
Declare(c) ==
    /\ detect[c].pc = "declare"
    /\ StatesUnlocked
    /\ nodeState' = [nodeState EXCEPT ![detect[c].node] =
                        IF @ = "absent" THEN @ ELSE "failed"]
    /\ detect' = [detect EXCEPT ![c].pc = "snapshot", ![c].guard = TRUE]
    /\ UNCHANGED <<rvars, monitors, strikes, checked, queue, active, history>>

\* initiate_failover called directly, of any node and without the guard.
Initiate(c, n) ==
    /\ detect[c].pc = "idle"
    /\ detect' = [detect EXCEPT ![c].pc = "snapshot", ![c].node = n]
    /\ UNCHANGED <<rvars, nodeState, monitors, strikes, checked, queue, active, history>>

\* The call returns and drops the guard if it has it.  What it queued is no
\* longer told apart from older tasks.
Returned(c) ==
    /\ detect' = [detect EXCEPT ![c] = Idler]
    /\ history' = {t \in history : t[1] # c}

\* get_affected_shards, from a copy of the groups.
Snapshot(c) ==
    LET affected == {s \in Shard : Concerned(s, detect[c].node)}
    IN /\ detect[c].pc = "snapshot"
       /\ IF affected = {} THEN Returned(c)
          ELSE /\ detect' = [detect EXCEPT ![c].pc = "select", ![c].shards = affected]
               /\ UNCHANGED history
       /\ UNCHANGED <<rvars, nodeState, monitors, strikes, checked, queue, active>>

\* select_new_primary takes the first replica that the health monitor knows and
\* that is not the failed node itself.
FirstFit(s, failed) ==
    LET replicas == IF groups[s] = NoGroup THEN <<>> ELSE groups[s].layout.replicas
        fit == {i \in 1..Len(replicas) : replicas[i] # failed /\ replicas[i] \in checked}
    IN {replicas[i] : i \in {i \in fit : \A j \in fit : i <= j}}

\* Without such a replica the call asks for the read lock of node_states.
Select(c, s) ==
    LET fit == FirstFit(s, detect[c].node)
    IN /\ detect[c].pc = "select"
       /\ s \in detect[c].shards
       /\ \/ /\ fit = {}
             /\ detect' = [detect EXCEPT ![c].pc = "fallback", ![c].shard = s]
          \/ \E n \in fit :
                detect' = [detect EXCEPT ![c].pc = "enqueue", ![c].shard = s,
                                         ![c].target = n]
       /\ UNCHANGED <<rvars, nodeState, monitors, strikes, checked, queue, active, history>>

\* Any healthy node is chosen; without one the shard is skipped with a message.
\* Who holds the write guard waits for the lock all the same, that is, for ever.
Fallback(c) ==
    LET healthy == {n \in Node \ {detect[c].node} : nodeState[n] = "healthy"}
    IN /\ detect[c].pc = "fallback"
       /\ StatesUnlocked
       /\ \/ /\ healthy = {}
             /\ detect' = [detect EXCEPT ![c].pc = "select",
                                         ![c].shards = @ \ {detect[c].shard},
                                         ![c].shard = NoGroup]
          \/ \E n \in healthy :
                detect' = [detect EXCEPT ![c].pc = "enqueue", ![c].target = n]
       /\ UNCHANGED <<rvars, nodeState, monitors, strikes, checked, queue, active, history>>

\* execute_pending_tasks keeps the lock of the queue until it is empty.
QueueUnlocked == \A c \in Caller : detect[c].pc # "execute"

\* add_recovery_task: the sort by priority is stable and all priorities are
\* the same.
Enqueue(c) ==
    /\ detect[c].pc = "enqueue"
    /\ QueueUnlocked
    /\ queue' = Append(queue, <<c, detect[c].shard>>)
    /\ detect' = [detect EXCEPT ![c].pc = "select",
                                ![c].shards = @ \ {detect[c].shard},
                                ![c].made = @ \cup {detect[c].shard},
                                ![c].shard = NoGroup, ![c].target = NoTarget]
    /\ UNCHANGED <<rvars, nodeState, monitors, strikes, checked, active, history>>

StartExecution(c) ==
    /\ detect[c].pc = "select"
    /\ detect[c].shards = {}
    /\ QueueUnlocked
    /\ detect' = [detect EXCEPT ![c].pc = "execute"]
    /\ UNCHANGED <<rvars, nodeState, monitors, strikes, checked, queue, active, history>>

\* Mutant: the task is read and stays in the queue.
PeekTask(c) ==
    /\ detect[c].pc = "execute"
    /\ active = {} /\ queue # <<>>
    /\ active' = {Last(queue)}
    /\ UNCHANGED <<rvars, nodeState, monitors, strikes, checked, detect, queue, history>>

\* The executor pops a task, executes it and records the result.
PopTask(c) ==
    /\ detect[c].pc = "execute"
    /\ active = {} /\ queue # <<>>
    /\ active' = {Last(queue)}
    /\ queue' = Front(queue)
    /\ UNCHANGED <<rvars, nodeState, monitors, strikes, checked, detect, history>>

FinishTask(c) ==
    /\ detect[c].pc = "execute"
    /\ active # {}
    /\ history' = history \cup active
    /\ active' = {}
    /\ UNCHANGED <<rvars, nodeState, monitors, strikes, checked, detect, queue>>

\* Mutant: tasks are spawned and not awaited.
EndExecutionUnawaited(c) ==
    /\ detect[c].pc = "execute"
    /\ queue = <<>>
    /\ Returned(c)
    /\ UNCHANGED <<rvars, nodeState, monitors, strikes, checked, queue, active>>

EndExecution(c) ==
    /\ detect[c].pc = "execute"
    /\ active = {} /\ queue = <<>>
    /\ Returned(c)
    /\ UNCHANGED <<rvars, nodeState, monitors, strikes, checked, queue, active>>

Detection(c) ==
    \/ \E n \in Node : Check(c, n) \/ Initiate(c, n)
    \/ Declare(c) \/ Snapshot(c)
    \/ \E s \in Shard : Select(c, s)
    \/ Fallback(c)
    \/ Enqueue(c) \/ StartExecution(c)
    \/ PopTask(c) \/ FinishTask(c) \/ EndExecution(c)

Next ==
    \/ ReplicationNext /\ UNCHANGED fvars
    \/ \E n \in Node : \/ AddNode(n) \/ RemoveNode(n) \/ Heartbeat(n)
                       \/ MarkNodeRecovered(n) \/ AddNodeToMonitoring(n)
    \/ \E c \in Caller : Detection(c)

Spec == Init /\ [][Next]_vars

-----------------------------------------------------------------------------
\* No recovery task is lost or executed twice, whoever executes it.
EveryTaskInOnePlace ==
    /\ \A i, j \in 1..Len(queue) : queue[i] = queue[j] => i = j
    /\ \A c \in Caller : \A s \in detect[c].made :
          Cardinality({p \in {"queued", "active", "done"} :
                         \/ p = "queued" /\ \E i \in 1..Len(queue) : queue[i] = <<c, s>>
                         \/ p = "active" /\ <<c, s>> \in active
                         \/ p = "done" /\ <<c, s>> \in history}) = 1

\* Tasks never lie in the queue when every call has returned.  (A call may wait
\* for ever in its fallback; its tasks then wait for the next call.)
QueueIsAttended ==
    queue # <<>> \/ active # {} =>
        \E c \in Caller : detect[c].pc \in {"select", "fallback", "enqueue", "execute"}

\* Tasks are neither lost nor doubled nor left behind by a detection and direct
\* failovers that take each other's tasks (failover.rs:748-790).
NoTaskIsLost == TypeOK /\ EveryTaskInOnePlace /\ QueueIsAttended

\* When a failover returns, the recovery of every shard it queued a task for
\* is over, even when another caller has taken the task from the queue.
ReturnMeansRecovered ==
    [][\A c \in Caller :
          detect[c].pc = "execute" /\ detect'[c].pc = "idle" =>
              \A s \in detect[c].made : <<c, s>> \in history]_vars

\* "Check whether the replica is healthy" (failover.rs:438): no node that is
\* declared failed is chosen to take over a shard.
FailedNodeNeverChosen ==
    [][\A c \in Caller :
          detect[c].pc \in {"select", "fallback"} /\ detect'[c].pc = "enqueue" =>
              nodeState[detect'[c].target] # "failed"]_vars

\* A call goes on whenever it can.
FairSpec == Spec /\ \A c \in Caller : WF_vars(Detection(c) /\ detect[c].pc # "idle")

\* "If there is no suitable replica, choose from the healthy nodes"
\* (failover.rs:449): a call that looks for a healthy node gets on.
FallbackGetsOn ==
    \A c \in Caller : detect[c].pc = "fallback" ~> detect[c].pc # "fallback"
=============================================================================
