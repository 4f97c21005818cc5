----------------------------- MODULE Consensus -----------------------------
(***************************************************************************)
(* ConsensusManager of src/distributed/consensus.rs: commands submitted to *)
(* a manager that led when it looked are logged, replicated and executed   *)
(* while elections and heartbeats go on.  The log of the manager is its    *)
(* own raft_state; the peers keep the entry in their Raft nodes, where     *)
(* every command replaces the one before.                                  *)
(***************************************************************************)
EXTENDS Election, Sequences

CONSTANT Command

ASSUME CommandAssumption == IsFiniteSet(Command)

VARIABLES log,           \* raft_state.log of each manager
          commit_index,  \* raft_state.commit_index of each manager
          call,          \* where the call that submits a command is
          executed,      \* the commands the storage of each node has executed
          stored         \* history: <<p, c>>, the Raft node of p accepted c

logVars == <<log, commit_index, call, executed, stored>>
vars == <<electionVars, logVars>>

NewCall == [pc |-> "new", node |-> None, index |-> 0, waiting |-> {}, acks |-> 0]

TypeOK ==
    /\ ElectionTypeOK
    /\ log \in [Node -> Seq(Command)]
    /\ commit_index \in [Node -> Nat]
    /\ call \in [Command -> [pc : {"new", "admitted", "replicating", "execute", "commit",
                                   "ok", "failed", "refused"},
                             node : Node \cup {None}, index : Nat,
                             waiting : SUBSET Node, acks : Nat]]
    /\ executed \in [Node -> SUBSET Command]
    /\ stored \subseteq Node \X Command

Init ==
    /\ ElectionInit
    /\ log = [n \in Node |-> <<>>]
    /\ commit_index = [n \in Node |-> 0]
    /\ call = [c \in Command |-> NewCall]
    /\ executed = [n \in Node |-> {}]
    /\ stored = {}

-----------------------------------------------------------------------------
\* Whether the node leads is looked up once, under the lock of the state.
Submit(c, n) ==
    /\ call[c].pc = "new"
    /\ call' = [call EXCEPT ![c].node = n,
                            ![c].pc = IF consensus[n].state = "Leader" THEN "admitted"
                                      ELSE "refused"]
    /\ UNCHANGED <<electionVars, log, commit_index, executed, stored>>

\* The entry gets the length of the log as its index and is sent to all peers.
AppendEntry(c) ==
    LET n == call[c].node
    IN /\ call[c].pc = "admitted"
       /\ log' = [log EXCEPT ![n] = Append(@, c)]
       /\ call' = [call EXCEPT ![c].pc = "replicating", ![c].index = Len(log[n]),
                               ![c].waiting = Others(n), ![c].acks = 1]
       /\ UNCHANGED <<electionVars, commit_index, executed, stored>>

\* The request carries term 1 whatever the term is: a Raft node of a later term
\* refuses it, any other replaces its log by the entry.
PeerAccepts(c, p) ==
    /\ call[c].pc = "replicating" /\ p \in call[c].waiting
    /\ voter[p].term <= 1
    /\ voter' = [voter EXCEPT ![p] = [InTerm(p, 1) EXCEPT !.log = 1]]
    /\ stored' = stored \cup {<<p, c>>}
    /\ \E heard \in BOOLEAN :
          call' = [call EXCEPT ![c].waiting = @ \ {p},
                               ![c].acks = IF heard THEN @ + 1 ELSE @]
    /\ UNCHANGED <<managers, mail, granted, log, commit_index, executed>>

PeerFails(c, p) ==
    /\ call[c].pc = "replicating" /\ p \in call[c].waiting
    /\ call' = [call EXCEPT ![c].waiting = @ \ {p}]
    /\ UNCHANGED <<electionVars, log, commit_index, executed, stored>>

\* Mutant: half of the cluster is enough.
RequiredHalf(n) == (Cardinality(Others(n)) + 1) \div 2

RequiredAcks(n) == (Cardinality(known[n]) \div 2) + 1

\* Every answer is awaited before they are counted.
CountAcks(c) ==
    /\ call[c].pc = "replicating" /\ call[c].waiting = {}
    /\ call' = [call EXCEPT ![c].pc = IF call[c].acks >= RequiredAcks(call[c].node)
                                      THEN "execute" ELSE "failed"]
    /\ UNCHANGED <<electionVars, log, commit_index, executed, stored>>

\* The storage may fail; the error leaves the entry in the log.
Execute(c) ==
    /\ call[c].pc = "execute"
    /\ \/ /\ executed' = [executed EXCEPT ![call[c].node] = @ \cup {c}]
          /\ call' = [call EXCEPT ![c].pc = "commit"]
       \/ /\ call' = [call EXCEPT ![c].pc = "failed"]
          /\ UNCHANGED executed
    /\ UNCHANGED <<electionVars, log, commit_index, stored>>

\* The index is written as it is, be it lower than the one there.
Commit(c) ==
    /\ call[c].pc = "commit"
    /\ commit_index' = [commit_index EXCEPT ![call[c].node] = call[c].index]
    /\ call' = [call EXCEPT ![c].pc = "ok"]
    /\ UNCHANGED <<electionVars, log, executed, stored>>

Step(c) ==
    \/ \E n \in Node : Submit(c, n)
    \/ \E p \in Node : PeerAccepts(c, p) \/ PeerFails(c, p)
    \/ AppendEntry(c) \/ CountAcks(c) \/ Execute(c) \/ Commit(c)

Next == (ElectionNext /\ UNCHANGED logVars) \/ (\E c \in Command : Step(c))

Spec == Init /\ [][Next]_vars

-----------------------------------------------------------------------------
\* A command is executed only when more than half of the cluster has accepted
\* it, the submitting node included: lost answers are never counted.
ExecutedOnMajority ==
    \A n \in Node : \A c \in executed[n] :
        2 * (Cardinality({p \in Others(n) : <<p, c>> \in stored}) + 1) > Cardinality(known[n])

\* What a manager claims is backed: a leader by the votes of a majority, its own
\* leader_id by its state, what it executed by a majority that stores it
\* (consensus.rs:411-510, 600-720).
ClaimsAreBacked ==
    TypeOK /\ LeaderHasMajority /\ LeaderIdIsHonest /\ ExecutedOnMajority

\* commit_index may go back when two calls end in the other order, but it never
\* names an entry whose command was not executed.
CommitNamesExecuted ==
    \A n \in Node :
        commit_index[n] > 0 => /\ commit_index[n] < Len(log[n])
                               /\ log[n][commit_index[n] + 1] \in executed[n]
=============================================================================
