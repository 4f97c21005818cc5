------------------------- MODULE NetworkConnections -------------------------
(***************************************************************************)
(* NetworkManager of src/distributed/network.rs: the table of connections  *)
(* to other nodes behind a tokio RwLock, the calls that send requests by   *)
(* it, and the monitor that probes every connection twice a minute.  A     *)
(* call keeps the lock while it waits for the answer to its request, as    *)
(* does the monitor; every request is given up after thirty seconds.       *)
(***************************************************************************)
EXTENDS TokioRwLock, Naturals, FiniteSets

CONSTANTS Peer,          \* other nodes
          Caller,        \* tasks that call the manager
          Monitor,       \* the task of start_connection_monitoring
          MaxConnects    \* bound on the calls that connect

ASSUME NetworkAssumption == Monitor \notin Caller /\ MaxConnects \in Nat

VARIABLES status,   \* peer -> "none", "Connected", "Disconnected", "Failed"
          joined,   \* peer -> how often it has been connected to
          made,     \* calls that connect so far
          table,    \* the lock of the table
          doing,    \* task -> its call and how far it has got
          health    \* peer -> "up", "down" (refuses) or "silent" (never answers)

networkVars == <<status, joined, made, table, doing, health>>

NetworkTask == Caller \cup {Monitor}
Resting == [call |-> "none", at |-> "rest"]

NetworkInit ==
    /\ status = [p \in Peer |-> "none"]
    /\ joined = [p \in Peer |-> 0] /\ made = 0
    /\ table = Free
    /\ doing = [t \in NetworkTask |-> Resting]
    /\ health \in [Peer -> {"up", "silent"}]

Step(t, record) == doing' = [doing EXCEPT ![t] = record]

\* The lock is let go of as the call ends.
Return(t) == Step(t, Resting) /\ table' = Left(table, t)

WaitFor(t, mode, record) == Step(t, record) /\ table' = Requested(table, t, mode)

\* shutdown borrows the manager mutably: no other call can be made meanwhile.
CanCall(t) == doing[t] = Resting /\ \A u \in Caller : doing[u].call # "shutdown"

-----------------------------------------------------------------------------
(* connect_to_node: the health of the peer is asked for without the lock. *)

ConnectToNode(t, p) ==
    /\ CanCall(t)
    /\ made < MaxConnects /\ made' = made + 1
    /\ Step(t, [call |-> "connect", at |-> "request", peer |-> p])
    /\ UNCHANGED <<status, joined, table, health>>

SaveConnection(t) ==
    /\ doing[t].call = "connect" /\ doing[t].at = "lock" /\ CanEnter(table, t)
    /\ status' = [status EXCEPT ![doing[t].peer] = "Connected"]
    /\ joined' = [joined EXCEPT ![doing[t].peer] = @ + 1]
    /\ table' = Left(Entered(table, t), t) /\ Step(t, Resting)
    /\ UNCHANGED <<made, health>>

\* disconnect_from_node keeps the entry.
DisconnectFromNode(t, p) ==
    /\ CanCall(t)
    /\ WaitFor(t, "write", [call |-> "disconnect", at |-> "lock", peers |-> {p}])
    /\ UNCHANGED <<status, joined, made, health>>

Shutdown(t) ==
    /\ \A u \in Caller : doing[u] = Resting
    /\ WaitFor(t, "write", [call |-> "shutdown", at |-> "lock", peers |-> Peer])
    /\ UNCHANGED <<status, joined, made, health>>

MarkDisconnected(t) ==
    /\ doing[t].call \in {"disconnect", "shutdown"} /\ CanEnter(table, t)
    /\ status' = [p \in Peer |->
                     IF p \in doing[t].peers /\ status[p] # "none" THEN "Disconnected"
                     ELSE status[p]]
    /\ table' = Left(Entered(table, t), t) /\ Step(t, Resting)
    /\ UNCHANGED <<joined, made, health>>

-----------------------------------------------------------------------------
(* send_vote_request, send_append_request, send_heartbeat, get_cluster_info: *)
(* any connection in the table is used, whatever its status.                *)

SendRequest(t, p) ==
    /\ CanCall(t)
    /\ WaitFor(t, "read", [call |-> "send", at |-> "lock", peer |-> p])
    /\ UNCHANGED <<status, joined, made, health>>

LookUpConnection(t) ==
    /\ doing[t].call = "send" /\ doing[t].at = "lock" /\ CanEnter(table, t)
    /\ IF status[doing[t].peer] = "none"
       THEN table' = Left(Entered(table, t), t) /\ Step(t, Resting)
       ELSE table' = Entered(table, t) /\ Step(t, [doing[t] EXCEPT !.at = "request"])
    /\ UNCHANGED <<status, joined, made, health>>

-----------------------------------------------------------------------------
(* check_connections_health *)

MonitorTicks ==
    /\ doing[Monitor] = Resting
    /\ WaitFor(Monitor, "write", [call |-> "check", at |-> "lock"])
    /\ UNCHANGED <<status, joined, made, health>>

Connected == {p \in Peer : status[p] = "Connected"}

Probing(p, left) ==
    [call |-> "check", at |-> "request", peer |-> p, left |-> left, of |-> joined[p]]

\* Mutant: the monitor takes a copy of the connections and lets go of the lock.
EnterTableForCopy ==
    /\ doing[Monitor].at = "lock" /\ CanEnter(table, Monitor)
    /\ table' = Left(Entered(table, Monitor), Monitor)
    /\ IF Connected = {} THEN Step(Monitor, Resting)
       ELSE \E p \in Connected : Step(Monitor, Probing(p, Connected \ {p}))
    /\ UNCHANGED <<status, joined, made, health>>

\* The monitor holds the write lock from its first probe to its last.
EnterTable ==
    /\ doing[Monitor].at = "lock" /\ CanEnter(table, Monitor)
    /\ IF Connected = {}
       THEN table' = Left(Entered(table, Monitor), Monitor) /\ Step(Monitor, Resting)
       ELSE /\ table' = Entered(table, Monitor)
            /\ \E p \in Connected : Step(Monitor, Probing(p, Connected \ {p}))
    /\ UNCHANGED <<status, joined, made, health>>

ProbeNext ==
    IF doing[Monitor].left = {} THEN Return(Monitor)
    ELSE /\ \E p \in doing[Monitor].left : Step(Monitor, Probing(p, doing[Monitor].left \ {p}))
         /\ UNCHANGED table

-----------------------------------------------------------------------------
(* The end of the request a task waits for *)

Waiting(t) == doing[t].at = "request"

Answered(t) ==
    /\ Waiting(t) /\ health[doing[t].peer] = "up"
    /\ CASE doing[t].call = "connect" -> WaitFor(t, "write", [doing[t] EXCEPT !.at = "lock"])
         [] doing[t].call = "send" -> Return(t)
         [] doing[t].call = "check" -> ProbeNext
    /\ UNCHANGED <<status, joined, made, health>>

\* Mutant: the client has no timeout; only a peer that refuses ends a request.
GivesUpWhenRefused(t) == Waiting(t) /\ health[doing[t].peer] = "down"

\* An error of the network, a bad answer, or thirty seconds without any.
GivesUp(t) == Waiting(t)

NotAnswered(t) ==
    /\ GivesUp(t)
    /\ CASE doing[t].call \in {"connect", "send"} ->
              Return(t) /\ UNCHANGED status
         [] doing[t].call = "check" ->
              ProbeNext /\ status' = [status EXCEPT ![doing[t].peer] = "Failed"]
    /\ UNCHANGED <<joined, made, health>>

HealthChanges(p) ==
    /\ health' = [health EXCEPT ![p] = IF @ = "up" THEN "down" ELSE "up"]
    /\ UNCHANGED <<status, joined, made, table, doing>>

Continues(t) ==
    \/ SaveConnection(t) \/ MarkDisconnected(t) \/ LookUpConnection(t)
    \/ Answered(t) \/ NotAnswered(t)
    \/ t = Monitor /\ EnterTable

NetworkNext ==
    \/ \E t \in Caller, p \in Peer : ConnectToNode(t, p)
    \/ \E t \in Caller, p \in Peer : DisconnectFromNode(t, p)
    \/ \E t \in Caller, p \in Peer : SendRequest(t, p)
    \/ \E t \in Caller : Shutdown(t)
    \/ \E t \in Caller : SaveConnection(t)
    \/ \E t \in Caller : MarkDisconnected(t)
    \/ \E t \in Caller : LookUpConnection(t)
    \/ \E t \in NetworkTask : Answered(t)
    \/ \E t \in NetworkTask : NotAnswered(t)
    \/ \E p \in Peer : HealthChanges(p)
    \/ MonitorTicks \/ EnterTable

\* Tasks run on, and every request ends within its timeout.
NetworkSpec ==
    /\ NetworkInit /\ [][NetworkNext]_networkVars
    /\ \A t \in NetworkTask : WF_networkVars(Continues(t))

-----------------------------------------------------------------------------
\* A connection is only marked as failed by a probe of that very connection:
\* none that was made again while a probe was under way is lost to the answer
\* about the one before it (network.rs:343, 425).
FailureIsFresh ==
    [][\A p \in Peer :
         status[p] = "Connected" /\ status'[p] = "Failed" =>
            doing[Monitor].peer = p /\ doing[Monitor].of = joined[p]]_networkVars

\* Every call returns, though the lock is held across requests to peers that
\* may never answer, and the monitor asks one after the other.
CallsReturn == \A t \in NetworkTask : doing[t] # Resting ~> doing[t] = Resting
=============================================================================
