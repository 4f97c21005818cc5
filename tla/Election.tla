------------------------------ MODULE Election ------------------------------
(***************************************************************************)
(* Leader election and heartbeats of src/distributed/consensus.rs.  Every  *)
(* node runs a ConsensusManager with two endless tasks, the election timer *)
(* and the heartbeat timer, which share consensus_state and release its    *)
(* lock while they wait for the peers.  A peer answers with the Raft node  *)
(* of src/distributed/raft.rs, whose term and vote are not those of the    *)
(* peer's own manager.                                                     *)
(*                                                                         *)
(* Time is left open: any timer may fire, any call may fail or time out,   *)
(* and a request may still arrive after its sender has given up on it.     *)
(***************************************************************************)
EXTENDS Integers, FiniteSets

CONSTANTS Node,     \* the members of the cluster
          None,     \* no node
          Contender, \* bound: the nodes whose election timer fires
          Stopping,  \* bound: the nodes that are shut down
          MaxTerm    \* bound: no election is started beyond this term

ASSUME ElectionAssumption ==
    /\ IsFiniteSet(Node)
    /\ None \notin Node
    /\ Contender \subseteq Node /\ Stopping \subseteq Node
    /\ MaxTerm \in Nat \ {0}

VARIABLES known,      \* cluster_info.nodes of each manager
          consensus,  \* consensus_state of each manager
          closed,     \* shutdown was called
          election,   \* the election under way in the election task
          beat,       \* the round of heartbeats under way in the heartbeat task
          voter,      \* current_term, voted_for and length of log of each Raft node
          mail,       \* requests and answers on their way
          granted     \* history: <<v, t, c>>, v granted its vote of term t to c

managers == <<known, consensus, closed, election, beat>>
electionVars == <<managers, voter, mail, granted>>

Term == 0..MaxTerm
Idle == [term |-> 0, waiting |-> {}, votes |-> 0]
NoBeat == [term |-> 0, waiting |-> {}]

Message ==
    [kind : {"vote"}, from : Node, to : Node, term : Term, log : Nat]
        \cup [kind : {"voteResponse"}, from : Node, to : Node,
              asked : Term, term : Term, ok : BOOLEAN]

ElectionTypeOK ==
    /\ known \in [Node -> SUBSET Node]
    /\ consensus \in [Node -> [term : Term, state : {"Follower", "Candidate", "Leader"},
                               voted_for : Node \cup {None},
                               leader_id : Node \cup {None}]]
    /\ closed \subseteq Node
    /\ election \in [Node -> [term : Term, waiting : SUBSET Node, votes : Nat]]
    /\ beat \in [Node -> [term : Term, waiting : SUBSET Node]]
    /\ voter \in [Node -> [term : Term, voted_for : Node \cup {None}, log : Nat]]
    /\ mail \subseteq Message
    /\ granted \subseteq Node \X Term \X Node

\* The managers start with the cluster they were given, or each on its own.
ElectionInit ==
    /\ known \in {[n \in Node |-> Node], [n \in Node |-> {}]}
    /\ consensus = [n \in Node |-> [term |-> 0, state |-> "Follower",
                                    voted_for |-> None, leader_id |-> None]]
    /\ closed = {}
    /\ election = [n \in Node |-> Idle]
    /\ beat = [n \in Node |-> NoBeat]
    /\ voter = [n \in Node |-> [term |-> 0, voted_for |-> None, log |-> 0]]
    /\ mail = {}
    /\ granted = {}

-----------------------------------------------------------------------------
Others(n) == known[n] \ {n}

Polling(n) == election[n].votes > 0

Requests(n, t) ==
    [kind : {"vote"}, from : {n}, to : Others(n), term : {t}, log : {voter[n].log}]

\* Answers that nobody waits for any more are dropped.
AnswersFor(n) == {m \in mail : m.kind = "voteResponse" /\ m.to = n}

\* A manager that hears of a higher term follows it.  The term is written
\* without a look at what consensus_state holds by then.
StepDown(n, t) ==
    consensus' = [consensus EXCEPT ![n] = [term |-> t, state |-> "Follower",
                                           voted_for |-> None, leader_id |-> None]]

\* Half of the others, rounded up, and the candidate itself.  Alone, a node
\* needs no vote but its own.
VotesNeeded(n) ==
    IF Others(n) = {} THEN 1 ELSE (Cardinality(Others(n)) + 1) \div 2 + 1

\* The timer fires: the state is written and one request per peer is sent.
StartElection(n) ==
    /\ n \in Contender
    /\ ~Polling(n)
    /\ consensus[n].state # "Leader"
    /\ consensus[n].term < MaxTerm
    /\ LET t == consensus[n].term + 1
       IN /\ consensus' = [consensus EXCEPT ![n].term = t, ![n].state = "Candidate",
                                            ![n].voted_for = n]
          /\ election' = [election EXCEPT ![n] =
                             [term |-> t, waiting |-> Others(n), votes |-> 1]]
          /\ mail' = {m \in mail : ~(m.kind = "vote" /\ m.from = n)} \cup Requests(n, t)
    /\ UNCHANGED <<known, closed, beat, voter, granted>>

\* The answers are awaited one by one until there are votes enough.
Awaits(n, p) ==
    /\ Polling(n)
    /\ p \in election[n].waiting
    /\ election[n].votes < VotesNeeded(n)

CollectVote(n, m) ==
    /\ m \in mail /\ m.kind = "voteResponse" /\ m.to = n
    /\ Awaits(n, m.from) /\ m.asked = election[n].term
    /\ \/ /\ m.ok
          /\ election' = [election EXCEPT ![n].votes = @ + 1,
                                          ![n].waiting = @ \ {m.from}]
          /\ mail' = mail \ {m}
          /\ UNCHANGED consensus
       \/ /\ ~m.ok /\ m.term > m.asked
          /\ StepDown(n, m.term)
          /\ election' = [election EXCEPT ![n] = Idle]
          /\ mail' = mail \ AnswersFor(n)
       \/ /\ ~m.ok /\ m.term <= m.asked
          /\ election' = [election EXCEPT ![n].waiting = @ \ {m.from}]
          /\ mail' = mail \ {m}
          /\ UNCHANGED consensus
    /\ UNCHANGED <<known, closed, beat, voter, granted>>

\* The call to a peer fails, whether or not the peer ever sees the request.
LoseVote(n, p) ==
    /\ Awaits(n, p)
    /\ election' = [election EXCEPT ![n].waiting = @ \ {p}]
    /\ mail' = {m \in mail : ~(m.kind = "voteResponse" /\ m.to = n /\ m.from = p)}
    /\ UNCHANGED <<known, consensus, closed, beat, voter, granted>>

\* The winner becomes leader whatever happened to consensus_state meanwhile.
Conclude(n) ==
    /\ Polling(n)
    /\ \/ /\ election[n].votes >= VotesNeeded(n)
          /\ consensus' = [consensus EXCEPT ![n].state = "Leader", ![n].leader_id = n]
       \/ /\ election[n].votes < VotesNeeded(n) /\ election[n].waiting = {}
          /\ consensus' = [consensus EXCEPT ![n].state = "Follower",
                                            ![n].voted_for = None]
    /\ election' = [election EXCEPT ![n] = Idle]
    /\ mail' = mail \ AnswersFor(n)
    /\ UNCHANGED <<known, closed, beat, voter, granted>>

-----------------------------------------------------------------------------
\* The Raft node takes over a higher term and forgets its vote.
InTerm(v, t) ==
    IF t > voter[v].term THEN [voter[v] EXCEPT !.term = t, !.voted_for = None]
    ELSE voter[v]

\* Mutant: a vote can be given twice.
GrantsAgain(v, m) == m.term >= voter[v].term /\ m.log >= voter[v].log

\* The Raft node of v grants the first request of a term, and its repetitions,
\* to a candidate whose own Raft node has as long a log.  (Every entry has
\* term 0, the term that raft_state keeps.)
Grants(v, m) ==
    /\ m.term >= voter[v].term
    /\ InTerm(v, m.term).voted_for \in {None, m.from}
    /\ m.log >= voter[v].log

Higher(t, u) == IF t > u THEN t ELSE u

\* An answer that comes after the call has failed is lost.
Reply(m, ok, waits) ==
    mail' = (mail \ {m}) \cup
        IF waits THEN {[kind |-> "voteResponse", from |-> m.to, to |-> m.from, asked |-> m.term,
                        term |-> Higher(m.term, voter[m.to].term), ok |-> ok]}
        ELSE {}

AnswerVote(v, m) ==
    /\ m \in mail /\ m.kind = "vote" /\ m.to = v
    /\ voter' = [voter EXCEPT ![v] =
                    IF Grants(v, m) THEN [InTerm(v, m.term) EXCEPT !.voted_for = m.from]
                    ELSE InTerm(v, m.term)]
    /\ granted' = IF Grants(v, m) THEN granted \cup {<<v, m.term, m.from>>}
                  ELSE granted
    /\ Reply(m, Grants(v, m),
             election[m.from].term = m.term /\ v \in election[m.from].waiting)
    /\ UNCHANGED managers

-----------------------------------------------------------------------------
Beating(n) == beat[n].waiting # {}

\* The round of heartbeats is over when every peer has answered or failed.
WithoutPeer(b, p) == IF b.waiting = {p} THEN NoBeat ELSE [b EXCEPT !.waiting = @ \ {p}]

\* Mutant: a candidate sends heartbeats too.
StartBeatAlways(n) ==
    /\ ~Beating(n)
    /\ beat' = [beat EXCEPT ![n] = [term |-> consensus[n].term, waiting |-> Others(n)]]
    /\ UNCHANGED <<known, consensus, closed, election, voter, mail, granted>>

\* The heartbeat timer of a leader fires; term and peers are read once.  (They
\* are read after the look at the state: only shutdown can come in between.)
StartBeat(n) ==
    /\ ~Beating(n)
    /\ consensus[n].state = "Leader"
    /\ beat' = [beat EXCEPT ![n] = [term |-> consensus[n].term, waiting |-> Others(n)]]
    /\ UNCHANGED <<known, consensus, closed, election, voter, mail, granted>>

\* The heartbeat reaches p; its answer comes back, or it fails.
ReachPeer(n, p) ==
    /\ p \in beat[n].waiting
    /\ voter' = [voter EXCEPT ![p] = InTerm(p, beat[n].term)]
    /\ \/ /\ voter[p].term > beat[n].term
          /\ StepDown(n, voter[p].term)
          /\ beat' = [beat EXCEPT ![n] = NoBeat]
       \/ /\ UNCHANGED consensus
          /\ beat' = [beat EXCEPT ![n] = WithoutPeer(@, p)]
    /\ UNCHANGED <<known, closed, election, mail, granted>>

LoseBeat(n, p) ==
    /\ p \in beat[n].waiting
    /\ beat' = [beat EXCEPT ![n] = WithoutPeer(@, p)]
    /\ UNCHANGED <<known, consensus, closed, election, voter, mail, granted>>

\* Shutting down makes the node a follower; both tasks go on.
Shutdown(n) ==
    /\ n \in Stopping
    /\ consensus' = [consensus EXCEPT ![n].state = "Follower"]
    /\ closed' = closed \cup {n}
    /\ UNCHANGED <<known, election, beat, voter, mail, granted>>

ElectionNext ==
    \E n \in Node : \/ StartElection(n) \/ Conclude(n) \/ StartBeat(n) \/ Shutdown(n)
                      \/ \E p \in Node : LoseVote(n, p) \/ ReachPeer(n, p) \/ LoseBeat(n, p)
                      \/ \E m \in mail : CollectVote(n, m) \/ AnswerVote(n, m)

ElectionSpec == ElectionInit /\ [][ElectionNext]_electionVars

-----------------------------------------------------------------------------
\* A leader counted votes that its peers really gave it in its term, more than
\* half of the cluster it knows: late, lost and repeated answers add none.
LeaderHasMajority ==
    \A n \in Node \ closed :
        consensus[n].state = "Leader" =>
            2 * (Cardinality({v \in Others(n) :
                                <<v, consensus[n].term, n>> \in granted}) + 1)
                > Cardinality(Others(n)) + 1

\* A Raft node gives one vote per term, through late and repeated requests and
\* heartbeats of other terms.
OneVotePerTerm ==
    \A g, h \in granted : g[1] = h[1] /\ g[2] = h[2] => g[3] = h[3]

\* The managers' two tasks both write the term without a look at it: before
\* shutdown they never write at the same time, so it never falls.
TermNeverFalls ==
    [][\A n \in Node \ closed : consensus'[n].term >= consensus[n].term]_electionVars

\* What get_leader tells about the node itself is true until it is shut down.
LeaderIdIsHonest ==
    \A n \in Node \ closed :
        consensus[n].leader_id = n <=> consensus[n].state = "Leader"

\* "In the end there is only one leader"
\* (docs/comprehensive-testing-plan.md:290-291, concurrent elections): no two
\* managers that know the whole cluster lead in one term.
OneLeaderPerTerm ==
    \A n, p \in {q \in Node \ closed : consensus[q].state = "Leader" /\ known[q] = Node} :
        consensus[n].term = consensus[p].term => n = p
=============================================================================
