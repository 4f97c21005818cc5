-------------------------- MODULE ConsensusProofs --------------------------
(***************************************************************************)
(* What holds of the consensus managers and their voters for any number of *)
(* nodes, terms and commands.                                              *)
(***************************************************************************)
EXTENDS Consensus, FiniteSetTheorems, TLAPS

ManagerRecord == [term : Term, state : {"Follower", "Candidate", "Leader"},
                  voted_for : Node \cup {None}, leader_id : Node \cup {None}]
ElectionRecord == [term : Term, waiting : SUBSET Node, votes : Nat]
BeatRecord == [term : Term, waiting : SUBSET Node]
VoterRecord == [term : Term, voted_for : Node \cup {None}, log : Nat]

-----------------------------------------------------------------------------
\* A Raft node that hears of a term stays well typed, never goes back, and
\* keeps its vote while its term stays.
LEMMA HearingATerm ==
    ASSUME NEW v \in Node, voter[v] \in VoterRecord, NEW t \in Term
    PROVE  /\ InTerm(v, t) \in VoterRecord
           /\ InTerm(v, t).term \in Term
           /\ InTerm(v, t).term >= voter[v].term
           /\ InTerm(v, t).term >= t
           /\ InTerm(v, t).term = voter[v].term => InTerm(v, t) = voter[v]
<1>0. Term \subseteq Int
      BY ElectionAssumption DEF Term
<1>1. voter[v].term \in Term /\ t \in Int /\ voter[v].term \in Int
      BY <1>0 DEF VoterRecord
<1>2. CASE t > voter[v].term
      <2>1. InTerm(v, t) = [voter[v] EXCEPT !.term = t, !.voted_for = None]
            BY <1>2 DEF InTerm
      <2>2. InTerm(v, t) = [term |-> t, voted_for |-> None, log |-> voter[v].log]
            BY <2>1 DEF VoterRecord
      <2> QED BY <1>1, <1>2, <2>2 DEF VoterRecord
<1>3. CASE ~(t > voter[v].term)
      <2>1. InTerm(v, t) = voter[v]
            BY <1>3 DEF InTerm
      <2> QED BY <1>1, <1>3, <2>1
<1> QED BY <1>2, <1>3

\* Terms are integers, among them 0 and the term 1 of every replicated entry.
LEMMA Terms == Term \subseteq Int /\ 0 \in Term /\ 1 \in Term
BY ElectionAssumption DEF Term

\* Every election step keeps the types.
LEMMA ElectionTypeStep ==
    ASSUME ElectionTypeOK, ElectionNext
    PROVE  ElectionTypeOK'
<1> USE DEF ManagerRecord, ElectionRecord, BeatRecord, VoterRecord
<1>1. ASSUME NEW n \in Node, StartElection(n)
      PROVE  ElectionTypeOK'
      <2>1. consensus[n].term + 1 \in Term
            BY <1>1, ElectionAssumption DEF StartElection, ElectionTypeOK, Term
      <2>2. consensus' \in [Node -> ManagerRecord]
            <3> DEFINE r == [consensus[n] EXCEPT !.term = consensus[n].term + 1,
                                                 !.state = "Candidate", !.voted_for = n]
            <3>1. consensus \in [Node -> ManagerRecord]
                  BY DEF ElectionTypeOK
            <3>2. r \in ManagerRecord
                  BY <2>1, <3>1
            <3>3. consensus' = [consensus EXCEPT ![n] = r]
                  BY <1>1 DEF StartElection
            <3> HIDE DEF r, ManagerRecord
            <3> QED BY <3>1, <3>2, <3>3
      <2>3. election' \in [Node -> ElectionRecord]
            BY <1>1, <2>1 DEF StartElection, ElectionTypeOK, Others
      <2>4. mail' \subseteq Message
            <3>1. Requests(n, consensus[n].term + 1) \subseteq Message
                  BY <2>1 DEF Requests, Message, ElectionTypeOK, Others
            <3> QED BY <1>1, <3>1 DEF StartElection, ElectionTypeOK
      <2> QED BY <1>1, <2>2, <2>3, <2>4 DEF StartElection, ElectionTypeOK
<1>2. ASSUME NEW n \in Node, Conclude(n)
      PROVE  ElectionTypeOK'
      <2>1. consensus' \in [Node -> ManagerRecord]
            BY <1>2 DEF Conclude, ElectionTypeOK
      <2>2. election' \in [Node -> ElectionRecord]
            BY <1>2, Terms DEF Conclude, ElectionTypeOK, Idle
      <2>3. mail' \subseteq Message
            BY <1>2 DEF Conclude, ElectionTypeOK
      <2> QED BY <1>2, <2>1, <2>2, <2>3 DEF Conclude, ElectionTypeOK
<1>3. ASSUME NEW n \in Node, StartBeat(n)
      PROVE  ElectionTypeOK'
      BY <1>3 DEF StartBeat, ElectionTypeOK, Others
<1>4. ASSUME NEW n \in Node, Shutdown(n)
      PROVE  ElectionTypeOK'
      <2>1. consensus' \in [Node -> ManagerRecord]
            <3> DEFINE r == [consensus[n] EXCEPT !.state = "Follower"]
            <3>1. consensus \in [Node -> ManagerRecord]
                  BY DEF ElectionTypeOK
            <3>2. r \in ManagerRecord
                  BY <3>1
            <3>3. consensus' = [consensus EXCEPT ![n] = r]
                  BY <1>4 DEF Shutdown
            <3> HIDE DEF r, ManagerRecord
            <3> QED BY <3>1, <3>2, <3>3
      <2>2. closed' \subseteq Node
            BY <1>4 DEF Shutdown, ElectionTypeOK
      <2> QED BY <1>4, <2>1, <2>2 DEF Shutdown, ElectionTypeOK
<1>5. ASSUME NEW n \in Node, NEW p \in Node, LoseVote(n, p)
      PROVE  ElectionTypeOK'
      <2>1. election' \in [Node -> ElectionRecord]
            <3> DEFINE r == [election[n] EXCEPT !.waiting = election[n].waiting \ {p}]
            <3>1. election \in [Node -> ElectionRecord]
                  BY DEF ElectionTypeOK
            <3>2. r \in ElectionRecord
                  <4>1. election[n] \in ElectionRecord
                        BY <3>1
                  <4>2. r = [term |-> election[n].term, votes |-> election[n].votes,
                             waiting |-> election[n].waiting \ {p}]
                        BY <4>1
                  <4> QED BY <4>1, <4>2
            <3>3. election' = [election EXCEPT ![n] = r]
                  BY <1>5 DEF LoseVote
            <3> HIDE DEF r, ElectionRecord
            <3> QED BY <3>1, <3>2, <3>3
      <2>2. mail' \subseteq Message
            BY <1>5 DEF LoseVote, ElectionTypeOK
      <2> QED BY <1>5, <2>1, <2>2 DEF LoseVote, ElectionTypeOK
<1>6. ASSUME NEW n \in Node, NEW p \in Node, ReachPeer(n, p)
      PROVE  ElectionTypeOK'
      <2>1. beat[n].term \in Term /\ voter[p] \in VoterRecord /\ voter[p].term \in Term
            BY DEF ElectionTypeOK
      <2>2. voter' \in [Node -> VoterRecord]
            <3>1. InTerm(p, beat[n].term) \in VoterRecord
                  BY <2>1, HearingATerm
            <3> QED BY <1>6, <3>1 DEF ReachPeer, ElectionTypeOK
      <2>3. consensus' \in [Node -> ManagerRecord]
            BY <1>6, <2>1 DEF ReachPeer, StepDown, ElectionTypeOK
      <2>4. beat' \in [Node -> BeatRecord]
            <3>1. NoBeat \in BeatRecord /\ WithoutPeer(beat[n], p) \in BeatRecord
                  BY <2>1, Terms DEF NoBeat, WithoutPeer, ElectionTypeOK
            <3> QED BY <1>6, <3>1 DEF ReachPeer, ElectionTypeOK
      <2> QED BY <1>6, <2>2, <2>3, <2>4 DEF ReachPeer, ElectionTypeOK
<1>7. ASSUME NEW n \in Node, NEW p \in Node, LoseBeat(n, p)
      PROVE  ElectionTypeOK'
      <2>1. WithoutPeer(beat[n], p) \in BeatRecord
            <3>1. NoBeat \in BeatRecord
                  BY Terms DEF NoBeat
            <3>2. beat[n] \in BeatRecord
                  BY DEF ElectionTypeOK
            <3> QED BY <3>1, <3>2 DEF WithoutPeer
      <2> QED BY <1>7, <2>1 DEF LoseBeat, ElectionTypeOK
<1>8. ASSUME NEW n \in Node, NEW m \in mail, CollectVote(n, m)
      PROVE  ElectionTypeOK'
      <2>1. m \in Message /\ m.kind = "voteResponse" /\ m.term \in Term
            BY <1>8 DEF CollectVote, ElectionTypeOK, Message
      <2>2. consensus' \in [Node -> ManagerRecord]
            <3>1. CASE StepDown(n, m.term)
                  BY <2>1, <3>1 DEF StepDown, ElectionTypeOK
            <3>2. CASE UNCHANGED consensus
                  BY <3>2 DEF ElectionTypeOK
            <3> QED BY <1>8, <3>1, <3>2 DEF CollectVote
      <2>3. election' \in [Node -> ElectionRecord]
            <3>1. Idle \in ElectionRecord
                  BY Terms DEF Idle
            <3>2. election \in [Node -> ElectionRecord]
                  BY DEF ElectionTypeOK
            <3>3. CASE election' = [election EXCEPT ![n].votes = @ + 1,
                                                    ![n].waiting = @ \ {m.from}]
                  <4> DEFINE e == election[n]
                             r == [e EXCEPT !.votes = @ + 1, !.waiting = @ \ {m.from}]
                  <4>1. r \in ElectionRecord
                        <5>1. e \in ElectionRecord
                              BY <3>2
                        <5> HIDE DEF e
                        <5> DEFINE counted == [e EXCEPT !.votes = @ + 1]
                        <5>2. counted \in ElectionRecord
                              BY ONLY <5>1 DEF ElectionRecord
                        <5>3. r = [counted EXCEPT !.waiting = @ \ {m.from}]
                              BY ONLY <5>1 DEF ElectionRecord
                        <5> HIDE DEF counted, r
                        <5> QED BY ONLY <5>2, <5>3 DEF ElectionRecord
                  <4>2. election' = [election EXCEPT ![n] = r]
                        BY ONLY <3>2, <3>3
                  <4> HIDE DEF r
                  <4> QED BY ONLY <3>2, <4>1, <4>2
            <3>4. CASE election' = [election EXCEPT ![n] = Idle]
                  BY ONLY <3>1, <3>2, <3>4
            <3>5. CASE election' = [election EXCEPT ![n].waiting = @ \ {m.from}]
                  BY ONLY <3>2, <3>5 DEF ElectionRecord
            <3> QED BY <1>8, <3>3, <3>4, <3>5 DEF CollectVote
      <2>4. mail' \subseteq Message
            BY <1>8 DEF CollectVote, ElectionTypeOK
      <2> QED BY <1>8, <2>2, <2>3, <2>4 DEF CollectVote, ElectionTypeOK
<1>9. ASSUME NEW n \in Node, NEW m \in mail, AnswerVote(n, m)
      PROVE  ElectionTypeOK'
      <2>1. /\ m.term \in Term /\ m.from \in Node /\ m.to = n
            /\ voter[n] \in VoterRecord /\ voter[n].term \in Term
            BY <1>9 DEF AnswerVote, ElectionTypeOK, Message
      <2>2. InTerm(n, m.term) \in VoterRecord
            BY <2>1, HearingATerm
      <2>3. voter' \in [Node -> VoterRecord]
            BY <1>9, <2>1, <2>2 DEF AnswerVote, ElectionTypeOK
      <2>4. granted' \subseteq Node \X Term \X Node
            BY <1>9, <2>1 DEF AnswerVote, ElectionTypeOK
      <2>5. mail' \subseteq Message
            <3> DEFINE t == Higher(m.term, voter[m.to].term)
                       answer(ok) == [kind |-> "voteResponse", from |-> m.to, to |-> m.from,
                                      asked |-> m.term, term |-> t, ok |-> ok]
            <3>1. t \in Term
                  BY <2>1 DEF Higher
            <3>2. \A ok \in BOOLEAN : answer(ok) \in Message
                  BY <2>1, <3>1 DEF Message
            <3>3. Grants(n, m) \in BOOLEAN
                  BY DEF Grants
            <3>4. \E ok \in BOOLEAN : mail' \subseteq mail \cup {answer(ok)}
                  BY <1>9, <3>3 DEF AnswerVote, Reply
            <3> QED BY <3>2, <3>4 DEF ElectionTypeOK
      <2> QED BY <1>9, <2>3, <2>4, <2>5 DEF AnswerVote, managers, ElectionTypeOK
<1> QED BY <1>1, <1>2, <1>3, <1>4, <1>5, <1>6, <1>7, <1>8, <1>9 DEF ElectionNext

CallRecord == [pc : {"new", "admitted", "replicating", "execute", "commit",
                     "ok", "failed", "refused"},
               node : Node \cup {None}, index : Nat, waiting : SUBSET Node, acks : Nat]

\* Where a call is past its admission, it has a node.
CallsHaveNodes ==
    \A c \in Command :
        call[c].pc \in {"admitted", "replicating", "execute", "commit", "ok"}
            => call[c].node \in Node

Inv == TypeOK /\ CallsHaveNodes

\* The managers start well typed, with no call under way.
LEMMA InitInv == Init => Inv
<1> SUFFICES ASSUME Init
             PROVE  Inv
    OBVIOUS
<1>1. ElectionTypeOK
      BY Terms DEF Init, ElectionInit, ElectionTypeOK, Idle, NoBeat, Message
<1>2. /\ log \in [Node -> Seq(Command)]
      /\ commit_index \in [Node -> Nat]
      /\ executed \in [Node -> SUBSET Command]
      /\ stored \subseteq Node \X Command
      BY DEF Init
<1>3. call \in [Command -> CallRecord]
      BY DEF Init, NewCall, CallRecord
<1>4. CallsHaveNodes
      BY DEF Init, NewCall, CallsHaveNodes
<1> QED BY <1>1, <1>2, <1>3, <1>4 DEF TypeOK, CallRecord, Inv

\* The step of a command changes its own call, and that to another call.
LEMMA CallUpdate ==
    ASSUME call \in [Command -> CallRecord], CallsHaveNodes, NEW c \in Command,
           NEW r \in CallRecord, call' = [call EXCEPT ![c] = r],
           r.pc \in {"admitted", "replicating", "execute", "commit", "ok"} => r.node \in Node
    PROVE  call' \in [Command -> CallRecord] /\ CallsHaveNodes'
BY DEF CallsHaveNodes

\* The steps of a submitted command keep the types.
LEMMA CommandStep ==
    ASSUME Inv, NEW c \in Command, Step(c)
    PROVE  Inv'
<1> DEFINE past == {"admitted", "replicating", "execute", "commit", "ok"}
<1>0. /\ ElectionTypeOK /\ CallsHaveNodes
      /\ call \in [Command -> CallRecord] /\ call[c] \in CallRecord
      /\ log \in [Node -> Seq(Command)]
      /\ commit_index \in [Node -> Nat]
      /\ executed \in [Node -> SUBSET Command]
      /\ stored \subseteq Node \X Command
      BY DEF Inv, TypeOK, CallRecord
<1>a. ASSUME UNCHANGED electionVars
      PROVE  ElectionTypeOK'
      BY <1>0, <1>a DEF ElectionTypeOK, electionVars, managers
<1>1. ASSUME NEW n \in Node, Submit(c, n)
      PROVE  Inv'
      <2> DEFINE r == [call[c] EXCEPT !.node = n,
                                      !.pc = IF consensus[n].state = "Leader" THEN "admitted"
                                             ELSE "refused"]
      <2>1. r \in CallRecord /\ r.node \in Node
            BY <1>0 DEF CallRecord
      <2>2. call' = [call EXCEPT ![c] = r]
            BY <1>1 DEF Submit
      <2> HIDE DEF r
      <2>3. call' \in [Command -> CallRecord] /\ CallsHaveNodes'
            BY <1>0, <2>1, <2>2, CallUpdate
      <2> QED BY <1>0, <1>1, <1>a, <2>3 DEF Submit, Inv, TypeOK, CallRecord
<1>2. ASSUME AppendEntry(c)
      PROVE  Inv'
      <2> DEFINE n == call[c].node
                 r == [call[c] EXCEPT !.pc = "replicating", !.index = Len(log[n]),
                                      !.waiting = Others(n), !.acks = 1]
      <2>1. n \in Node
            BY <1>0, <1>2 DEF AppendEntry, CallsHaveNodes
      <2>2. log[n] \in Seq(Command) /\ Len(log[n]) \in Nat /\ Others(n) \subseteq Node
            BY <1>0, <2>1 DEF ElectionTypeOK, Others
      <2>3. r \in CallRecord /\ r.node \in Node
            BY <1>0, <2>1, <2>2 DEF CallRecord
      <2>4. call' = [call EXCEPT ![c] = r]
            BY <1>2 DEF AppendEntry
      <2>5. log' \in [Node -> Seq(Command)]
            BY <1>0, <1>2, <2>1, <2>2 DEF AppendEntry
      <2> HIDE DEF r
      <2>6. call' \in [Command -> CallRecord] /\ CallsHaveNodes'
            BY <1>0, <2>3, <2>4, CallUpdate
      <2> QED BY <1>0, <1>2, <1>a, <2>5, <2>6 DEF AppendEntry, Inv, TypeOK, CallRecord
<1>3. ASSUME NEW p \in Node, PeerAccepts(c, p)
      PROVE  Inv'
      <2>1. PICK heard \in BOOLEAN :
               call' = [call EXCEPT ![c].waiting = @ \ {p},
                                    ![c].acks = IF heard THEN @ + 1 ELSE @]
            BY <1>3 DEF PeerAccepts
      <2> DEFINE acks == IF heard THEN call[c].acks + 1 ELSE call[c].acks
                 r == [call[c] EXCEPT !.waiting = call[c].waiting \ {p}, !.acks = acks]
      <2>2. acks \in Nat
            BY <1>0 DEF CallRecord
      <2>3. call' = [call EXCEPT ![c] = r]
            BY <2>1
      <2> HIDE DEF acks
      <2>4. r \in CallRecord /\ r.node = call[c].node
            BY <1>0, <2>2 DEF CallRecord
      <2>5. r.node \in Node
            BY <1>0, <1>3, <2>4 DEF PeerAccepts, CallsHaveNodes
      <2> HIDE DEF r
      <2>6. call' \in [Command -> CallRecord] /\ CallsHaveNodes'
            BY <1>0, <2>4, <2>3, <2>5, CallUpdate
      <2>7. voter[p] \in VoterRecord
            BY <1>0 DEF ElectionTypeOK, VoterRecord
      <2>8. InTerm(p, 1) \in VoterRecord
            BY <2>7, Terms, HearingATerm
      <2>9. [InTerm(p, 1) EXCEPT !.log = 1] \in VoterRecord
            BY <2>8 DEF VoterRecord
      <2>10. voter' \in [Node -> VoterRecord]
            BY <1>0, <1>3, <2>9 DEF PeerAccepts, ElectionTypeOK, VoterRecord
      <2>11. ElectionTypeOK'
            BY <1>0, <1>3, <2>10 DEF PeerAccepts, ElectionTypeOK, VoterRecord, managers
      <2>12. stored' \subseteq Node \X Command
            BY <1>0, <1>3 DEF PeerAccepts
      <2> QED BY <1>0, <1>3, <2>6, <2>11, <2>12 DEF PeerAccepts, Inv, TypeOK, CallRecord
<1>4. ASSUME NEW p \in Node, PeerFails(c, p)
      PROVE  Inv'
      <2> DEFINE r == [call[c] EXCEPT !.waiting = call[c].waiting \ {p}]
      <2>1. r \in CallRecord /\ r.node = call[c].node
            BY <1>0 DEF CallRecord
      <2>2. call' = [call EXCEPT ![c] = r]
            BY <1>4 DEF PeerFails
      <2>3. r.node \in Node
            BY <1>0, <1>4, <2>1 DEF PeerFails, CallsHaveNodes
      <2> HIDE DEF r
      <2>4. call' \in [Command -> CallRecord] /\ CallsHaveNodes'
            BY <1>0, <2>1, <2>2, <2>3, CallUpdate
      <2> QED BY <1>0, <1>4, <1>a, <2>4 DEF PeerFails, Inv, TypeOK, CallRecord
<1>b. ASSUME NEW to \in {"execute", "commit", "ok", "failed"},
             call[c].pc \in past,
             call' = [call EXCEPT ![c].pc = to]
      PROVE  call' \in [Command -> CallRecord] /\ CallsHaveNodes'
      <2> DEFINE r == [call[c] EXCEPT !.pc = to]
      <2>1. r \in CallRecord /\ r.node = call[c].node
            BY <1>0 DEF CallRecord
      <2>2. r.node \in Node
            BY <1>0, <1>b, <2>1 DEF CallsHaveNodes
      <2>3. call' = [call EXCEPT ![c] = r]
            BY <1>b
      <2> HIDE DEF r
      <2> QED BY <1>0, <2>1, <2>2, <2>3, CallUpdate
<1>5. ASSUME CountAcks(c)
      PROVE  Inv'
      <2>1. call' \in [Command -> CallRecord] /\ CallsHaveNodes'
            <3>1. \E to \in {"execute", "failed"} : call' = [call EXCEPT ![c].pc = to]
                  BY <1>5 DEF CountAcks
            <3> QED BY <1>5, <1>b, <3>1 DEF CountAcks
      <2> QED BY <1>0, <1>5, <1>a, <2>1 DEF CountAcks, Inv, TypeOK, CallRecord
<1>6. ASSUME Execute(c)
      PROVE  Inv'
      <2>1. call' \in [Command -> CallRecord] /\ CallsHaveNodes'
            <3>1. \E to \in {"commit", "failed"} : call' = [call EXCEPT ![c].pc = to]
                  BY <1>6 DEF Execute
            <3> QED BY <1>6, <1>b, <3>1 DEF Execute
      <2>2. executed' \in [Node -> SUBSET Command]
            BY <1>0, <1>6 DEF Execute
      <2> QED BY <1>0, <1>6, <1>a, <2>1, <2>2 DEF Execute, Inv, TypeOK, CallRecord
<1>7. ASSUME Commit(c)
      PROVE  Inv'
      <2>1. call' \in [Command -> CallRecord] /\ CallsHaveNodes'
            BY <1>7, <1>b DEF Commit
      <2>2. commit_index' \in [Node -> Nat]
            <3>1. call[c].index \in Nat
                  BY <1>0 DEF CallRecord
            <3>2. commit_index' = [commit_index EXCEPT ![call[c].node] = call[c].index]
                  BY <1>7 DEF Commit
            <3> QED BY <1>0, <3>1, <3>2
      <2> QED BY <1>0, <1>7, <1>a, <2>1, <2>2 DEF Commit, Inv, TypeOK, CallRecord
<1> QED BY <1>1, <1>2, <1>3, <1>4, <1>5, <1>6, <1>7 DEF Step

\* Every step keeps the types.
LEMMA NextInv == Inv /\ [Next]_vars => Inv'
<1> SUFFICES ASSUME Inv, [Next]_vars
             PROVE  Inv'
    OBVIOUS
<1>1. CASE ElectionNext /\ UNCHANGED logVars
      BY <1>1, ElectionTypeStep DEF Inv, TypeOK, CallsHaveNodes, logVars
<1>2. ASSUME NEW c \in Command, Step(c)
      PROVE  Inv'
      BY <1>2, CommandStep
<1>3. CASE UNCHANGED vars
      BY <1>3 DEF Inv, TypeOK, ElectionTypeOK, CallsHaveNodes, vars, logVars,
                  electionVars, managers
<1> QED BY <1>1, <1>2, <1>3 DEF Next

\* Types and the nodes of calls past their admission hold in every reachable
\* state of the managers of consensus.rs.
THEOREM Invariance == Spec => []Inv
BY InitInv, NextInv, PTL DEF Spec

\* Every reachable state of managers, voters, messages and calls is well typed,
\* also where a step writes what it read before it waited.
THEOREM TypesAlwaysRight == Spec => []TypeOK
<1>1. Inv => TypeOK
      BY DEF Inv
<1> QED BY <1>1, Invariance, PTL

-----------------------------------------------------------------------------
\* A vote that was given binds the Raft node for as long as it is in that term,
\* and it never returns to an earlier one.
VotesBind ==
    \A g \in granted :
        /\ g[2] <= voter[g[1]].term
        /\ g[2] = voter[g[1]].term => voter[g[1]].voted_for = g[3]

VoteInv == OneVotePerTerm /\ VotesBind

\* A Raft node that moves on, or keeps its vote, breaks no vote it has given.
LEMMA VotesKept ==
    ASSUME TypeOK, VoteInv, NEW p \in Node, UNCHANGED granted,
           voter'[p] \in VoterRecord,
           \A q \in Node \ {p} : voter'[q] = voter[q],
           voter'[p].term >= voter[p].term,
           voter'[p].term = voter[p].term => voter'[p].voted_for = voter[p].voted_for
    PROVE  VoteInv'
<1>1. OneVotePerTerm'
      BY DEF VoteInv, OneVotePerTerm
<1>2. ASSUME NEW g \in granted
      PROVE  /\ g[2] <= voter'[g[1]].term
             /\ g[2] = voter'[g[1]].term => voter'[g[1]].voted_for = g[3]
      <2>1. g[1] \in Node /\ g[2] \in Int
            BY Terms DEF TypeOK, ElectionTypeOK
      <2>2. voter[p].term \in Int /\ voter'[p].term \in Int
            BY Terms DEF TypeOK, ElectionTypeOK, VoterRecord
      <2>3. /\ g[2] <= voter[g[1]].term
            /\ g[2] = voter[g[1]].term => voter[g[1]].voted_for = g[3]
            BY DEF VoteInv, VotesBind
      <2>4. CASE g[1] = p
            BY <2>1, <2>2, <2>3, <2>4
      <2>5. CASE g[1] # p
            BY <2>1, <2>3, <2>5
      <2> QED BY <2>4, <2>5
<1> QED BY <1>1, <1>2 DEF VoteInv, VotesBind

\* Whatever a Raft node hears, the votes it has given stay unique and binding.
LEMMA VoteStep ==
    ASSUME Inv, VoteInv, [Next]_vars
    PROVE  VoteInv'
<1>0. /\ TypeOK /\ voter \in [Node -> VoterRecord]
      /\ mail \subseteq Message
      /\ beat \in [Node -> BeatRecord]
      /\ granted \subseteq Node \X Term \X Node
      BY DEF Inv, TypeOK, ElectionTypeOK, VoterRecord, BeatRecord
<1>a. ASSUME UNCHANGED <<voter, granted>>
      PROVE  VoteInv'
      BY <1>a DEF VoteInv, VotesBind, OneVotePerTerm
<1>1. ASSUME NEW v \in Node, NEW m \in mail, AnswerVote(v, m)
      PROVE  VoteInv'
      <2> DEFINE t == m.term
                 w == InTerm(v, t)
      <2>1. t \in Term /\ m.from \in Node /\ voter[v] \in VoterRecord
            BY <1>0, <1>1 DEF AnswerVote, Message
      <2>2. /\ w \in VoterRecord /\ w.term \in Term
            /\ w.term >= voter[v].term /\ w.term >= t
            /\ w.term = voter[v].term => w = voter[v]
            BY <2>1, HearingATerm
      <2>3. CASE ~Grants(v, m)
            <3>1. voter' = [voter EXCEPT ![v] = w] /\ UNCHANGED granted
                  BY <1>1, <2>3 DEF AnswerVote
            <3> HIDE DEF w
            <3>2. voter'[v] = w /\ \A q \in Node \ {v} : voter'[q] = voter[q]
                  BY <1>0, <3>1
            <3> QED BY <1>0, <2>2, <3>1, <3>2, VotesKept
      <2>4. CASE Grants(v, m)
            <3>1. w.voted_for \in {None, m.from} /\ t >= voter[v].term
                  BY <2>4 DEF Grants
            <3>2. w.term = t
                  <4>1. voter[v].term \in Int /\ t \in Int
                        BY <2>1, Terms DEF VoterRecord
                  <4>2. CASE t > voter[v].term
                        <5>1. w = [voter[v] EXCEPT !.term = t, !.voted_for = None]
                              BY <4>2 DEF InTerm
                        <5> QED BY <5>1, <2>1 DEF VoterRecord
                  <4>3. CASE ~(t > voter[v].term)
                        <5>1. w = voter[v]
                              BY <4>3 DEF InTerm
                        <5> QED BY <3>1, <4>1, <4>3, <5>1
                  <4> QED BY <4>2, <4>3
            <3> DEFINE x == [w EXCEPT !.voted_for = m.from]
            <3>3. voter' = [voter EXCEPT ![v] = x]
                  BY <1>1, <2>4 DEF AnswerVote
            <3>4. x.term = t /\ x.voted_for = m.from
                  BY <2>2, <3>2 DEF VoterRecord
            <3>5. granted' = granted \cup {<<v, t, m.from>>}
                  BY <1>1, <2>4 DEF AnswerVote
            <3> HIDE DEF w, x
            <3>6. voter'[v] = x /\ \A q \in Node \ {v} : voter'[q] = voter[q]
                  BY <1>0, <3>3
            <3>7. ASSUME NEW g \in granted
                  PROVE  /\ g[2] <= voter'[g[1]].term
                         /\ g[2] = voter'[g[1]].term => voter'[g[1]].voted_for = g[3]
                         /\ g[1] = v /\ g[2] = t => g[3] = m.from
                  <4>1. g[1] \in Node /\ g[2] \in Int /\ t \in Int /\ voter[v].term \in Int
                        BY <1>0, <2>1, Terms DEF VoterRecord
                  <4>2. /\ g[2] <= voter[g[1]].term
                        /\ g[2] = voter[g[1]].term => voter[g[1]].voted_for = g[3]
                        BY DEF VoteInv, VotesBind
                  <4>3. ASSUME g[1] = v, g[2] = t
                        PROVE  g[3] = m.from
                        <5>1. voter[v].term = t /\ voter[v].voted_for = g[3]
                              BY <3>1, <4>1, <4>2, <4>3
                        <5>2. w = voter[v]
                              BY <2>2, <3>2, <5>1
                        <5>3. g[3] \in Node
                              BY <1>0
                        <5> QED BY <3>1, <5>1, <5>2, <5>3, ElectionAssumption
                  <4>4. CASE g[1] = v
                        BY <3>1, <3>4, <3>6, <4>1, <4>2, <4>3, <4>4
                  <4>5. CASE g[1] # v
                        BY <3>6, <4>1, <4>2, <4>5
                  <4> QED BY <4>3, <4>4, <4>5
            <3>8. OneVotePerTerm'
                  BY <3>5, <3>7 DEF VoteInv, OneVotePerTerm
            <3>9. VotesBind'
                  <4>1. t <= voter'[v].term /\ voter'[v].voted_for = m.from
                        <5>1. voter'[v].term = t /\ voter'[v].voted_for = m.from
                              BY <3>4, <3>6
                        <5>2. t \in Int
                              BY <2>1, Terms
                        <5>3. t <= t
                              BY <5>2
                        <5> QED BY <5>1, <5>3
                  <4> QED BY <3>5, <3>7, <4>1 DEF VotesBind
            <3> QED BY <3>8, <3>9 DEF VoteInv
      <2> QED BY <2>3, <2>4
<1>2. ASSUME NEW n \in Node, NEW p \in Node, ReachPeer(n, p)
      PROVE  VoteInv'
      <2> DEFINE w == InTerm(p, beat[n].term)
      <2>1. beat[n].term \in Term /\ voter[p] \in VoterRecord
            BY <1>0 DEF BeatRecord
      <2>2. w \in VoterRecord /\ w.term >= voter[p].term
            /\ (w.term = voter[p].term => w = voter[p])
            BY <2>1, HearingATerm
      <2>3. voter' = [voter EXCEPT ![p] = w] /\ UNCHANGED granted
            BY <1>2 DEF ReachPeer
      <2> HIDE DEF w
      <2>4. voter'[p] = w /\ \A q \in Node \ {p} : voter'[q] = voter[q]
            BY <1>0, <2>3
      <2> QED BY <1>0, <2>2, <2>3, <2>4, VotesKept
<1>3. ASSUME NEW c \in Command, NEW p \in Node, PeerAccepts(c, p)
      PROVE  VoteInv'
      <2> DEFINE w == InTerm(p, 1)
                 x == [w EXCEPT !.log = 1]
      <2>1. w \in VoterRecord /\ w.term >= voter[p].term
            /\ (w.term = voter[p].term => w = voter[p])
            BY <1>0, Terms, HearingATerm
      <2>2. voter' = [voter EXCEPT ![p] = x] /\ UNCHANGED granted
            BY <1>3 DEF PeerAccepts
      <2>3. x \in VoterRecord /\ x.term = w.term /\ x.voted_for = w.voted_for
            BY <2>1 DEF VoterRecord
      <2> HIDE DEF w, x
      <2>4. voter'[p] = x /\ \A q \in Node \ {p} : voter'[q] = voter[q]
            BY <1>0, <2>2
      <2> QED BY <1>0, <2>1, <2>2, <2>3, <2>4, VotesKept
<1>4. CASE ElectionNext /\ UNCHANGED logVars
      BY <1>4, <1>1, <1>2, <1>a
         DEF ElectionNext, StartElection, Conclude, StartBeat, Shutdown, LoseVote, LoseBeat,
             CollectVote
<1>5. ASSUME NEW c \in Command, Step(c)
      PROVE  VoteInv'
      BY <1>5, <1>3, <1>a
         DEF Step, Submit, PeerFails, AppendEntry, CountAcks, Execute, Commit, electionVars
<1>6. CASE UNCHANGED vars
      BY <1>6, <1>a DEF vars, electionVars
<1> QED BY <1>4, <1>5, <1>6 DEF Next

\* A Raft node never gives two votes in one term, however often and late the
\* requests, heartbeats and entries of other terms reach it.
THEOREM VotesAreGivenOnce == Spec => []OneVotePerTerm
<1>1. Init => VoteInv
      BY DEF Init, ElectionInit, VoteInv, VotesBind, OneVotePerTerm
<1>2. Inv /\ VoteInv /\ [Next]_vars => VoteInv'
      BY VoteStep
<1>3. VoteInv => OneVotePerTerm
      BY DEF VoteInv
<1> QED BY <1>1, <1>2, <1>3, Invariance, PTL DEF Spec

-----------------------------------------------------------------------------
\* A call that has appended its entry finds it at its index for ever, and one
\* that commits has executed its command.
Names(entries, i, c) == i < Len(entries) /\ entries[i + 1] = c

CallsNameEntries ==
    \A c \in Command :
        /\ call[c].pc \in {"replicating", "execute", "commit", "ok"}
              => Names(log[call[c].node], call[c].index, c)
        /\ call[c].pc \in {"commit", "ok"} => c \in executed[call[c].node]

CommitInv == CallsNameEntries /\ CommitNamesExecuted

\* Logs grow at the end and nothing executed is undone.
Grows ==
    \A n \in Node :
        /\ \A i \in Nat, c \in Command : Names(log[n], i, c) => Names(log'[n], i, c)
        /\ executed[n] \subseteq executed'[n]

\* Logs grow at the end and nothing executed is undone, whichever call moves.
LEMMA LogsGrow ==
    ASSUME Inv, NEW c \in Command, Step(c)
    PROVE  Grows
<1>0. /\ log \in [Node -> Seq(Command)] /\ executed \in [Node -> SUBSET Command]
      /\ CallsHaveNodes
      BY DEF Inv, TypeOK
<1>1. CASE AppendEntry(c)
      <2> DEFINE n == call[c].node
      <2>1. n \in Node /\ log' = [log EXCEPT ![n] = Append(log[n], c)] /\ UNCHANGED executed
            BY <1>0, <1>1 DEF AppendEntry, CallsHaveNodes
      <2>2. ASSUME NEW q \in Node, NEW i \in Nat, NEW d \in Command, Names(log[q], i, d)
            PROVE  Names(log'[q], i, d)
            <3>1. CASE q = n
                  <4>1. log'[n] = Append(log[n], c) /\ log[n] \in Seq(Command)
                        BY <1>0, <2>1
                  <4>2. i < Len(log[n]) /\ log[n][i + 1] = d
                        BY <2>2, <3>1 DEF Names
                  <4>3. i < Len(log'[n]) /\ log'[n][i + 1] = d
                        BY <4>1, <4>2
                  <4> QED BY <3>1, <4>3 DEF Names
            <3>2. CASE q # n
                  BY <1>0, <2>1, <2>2, <3>2 DEF Names
            <3> QED BY <3>1, <3>2
      <2> QED BY <2>1, <2>2 DEF Grows
<1>2. CASE Execute(c)
      BY <1>0, <1>2 DEF Execute, Grows, Names
<1>3. CASE UNCHANGED <<log, executed>>
      BY <1>3 DEF Grows, Names
<1> QED BY <1>1, <1>2, <1>3
        DEF Step, Submit, PeerAccepts, PeerFails, CountAcks, Commit

\* A step of a call leaves every other call at the entry it appended.
LEMMA CommitStep ==
    ASSUME Inv, CommitInv, NEW c \in Command, Step(c)
    PROVE  CommitInv'
<1>0. /\ call \in [Command -> CallRecord] /\ call[c] \in CallRecord
      /\ commit_index \in [Node -> Nat] /\ log \in [Node -> Seq(Command)]
      /\ executed \in [Node -> SUBSET Command]
      /\ CallsHaveNodes /\ CallsNameEntries /\ CommitNamesExecuted
      BY DEF Inv, CommitInv, TypeOK, CallRecord
<1>1. Grows
      BY LogsGrow
<1>2. ASSUME NEW d \in Command, d # c
      PROVE  /\ call'[d] = call[d]
             /\ call[d].pc \in {"replicating", "execute", "commit", "ok"}
                   => Names(log'[call[d].node], call[d].index, d)
             /\ call[d].pc \in {"commit", "ok"} => d \in executed'[call[d].node]
      <2>1. call'[d] = call[d]
            BY <1>0, <1>2 DEF Step, Submit, AppendEntry, PeerAccepts, PeerFails, CountAcks,
                              Execute, Commit
      <2>2. call[d].index \in Nat
            BY <1>0 DEF CallRecord
      <2>3. call[d].pc \in {"replicating", "execute", "commit", "ok"}
               => call[d].node \in Node
            BY <1>0 DEF CallsHaveNodes
      <2> QED BY <1>0, <1>1, <2>1, <2>2, <2>3 DEF CallsNameEntries, Grows
<1>3. /\ call'[c].pc \in {"replicating", "execute", "commit", "ok"}
            => \/ AppendEntry(c)
               \/ /\ Names(log'[call[c].node], call[c].index, c)
                  /\ call'[c].node = call[c].node
                  /\ call'[c].index = call[c].index
      /\ call'[c].pc \in {"commit", "ok"}
            => call'[c].node = call[c].node /\ c \in executed'[call[c].node]
      <2>1. call[c].index \in Nat
            BY <1>0 DEF CallRecord
      <2>2. ASSUME call[c].pc \in {"replicating", "execute", "commit", "ok"}
            PROVE  Names(log'[call[c].node], call[c].index, c)
            <3>1. call[c].node \in Node
                  BY <1>0, <2>2 DEF CallsHaveNodes
            <3> QED BY <1>0, <1>1, <2>1, <2>2, <3>1 DEF CallsNameEntries, Grows
      <2>3. ASSUME NEW n \in Node, Submit(c, n)
            PROVE  call'[c].pc \in {"admitted", "refused"}
            BY <1>0, <2>3 DEF Submit, CallRecord
      <2>4. ASSUME NEW p \in Node, PeerAccepts(c, p)
            PROVE  /\ call[c].pc = "replicating" /\ call'[c].pc = "replicating"
                   /\ call'[c].node = call[c].node /\ call'[c].index = call[c].index
            BY <1>0, <2>4 DEF PeerAccepts, CallRecord
      <2>5. ASSUME NEW p \in Node, PeerFails(c, p)
            PROVE  /\ call[c].pc = "replicating" /\ call'[c].pc = "replicating"
                   /\ call'[c].node = call[c].node /\ call'[c].index = call[c].index
            BY <1>0, <2>5 DEF PeerFails, CallRecord
      <2>6. ASSUME CountAcks(c)
            PROVE  /\ call[c].pc = "replicating" /\ call'[c].pc \in {"execute", "failed"}
                   /\ call'[c].node = call[c].node /\ call'[c].index = call[c].index
            BY <1>0, <2>6 DEF CountAcks, CallRecord
      <2>7. ASSUME Execute(c)
            PROVE  /\ call[c].pc = "execute" /\ call'[c].pc \in {"commit", "failed"}
                   /\ call'[c].node = call[c].node /\ call'[c].index = call[c].index
                   /\ call'[c].pc = "commit" => c \in executed'[call[c].node]
            <3>1. call[c].node \in Node
                  BY <1>0, <2>7 DEF Execute, CallsHaveNodes
            <3> QED BY <1>0, <2>7, <3>1 DEF Execute, CallRecord
      <2>8. ASSUME Commit(c)
            PROVE  /\ call[c].pc = "commit" /\ call'[c].pc = "ok"
                   /\ call'[c].node = call[c].node /\ call'[c].index = call[c].index
                   /\ c \in executed'[call[c].node]
            BY <1>0, <2>8 DEF Commit, CallRecord, CallsNameEntries
      <2>9. AppendEntry(c) => call'[c].pc = "replicating"
            BY <1>0 DEF AppendEntry, CallRecord
      <2> QED BY <2>2, <2>3, <2>4, <2>5, <2>6, <2>7, <2>8, <2>9 DEF Step
<1>4. ASSUME AppendEntry(c)
      PROVE  Names(log'[call'[c].node], call'[c].index, c)
      <2> DEFINE n == call[c].node
      <2>1. n \in Node /\ log[n] \in Seq(Command)
            BY <1>0, <1>4 DEF AppendEntry, CallsHaveNodes
      <2>2. call'[c].node = n /\ call'[c].index = Len(log[n])
            BY <1>0, <1>4 DEF AppendEntry, CallRecord
      <2>3. log'[n] = Append(log[n], c)
            BY <1>0, <1>4, <2>1 DEF AppendEntry
      <2>4. Len(log[n]) < Len(log'[n]) /\ log'[n][Len(log[n]) + 1] = c
            BY <2>1, <2>3
      <2> QED BY <2>2, <2>4 DEF Names
<1>5. CallsNameEntries'
      BY <1>2, <1>3, <1>4 DEF CallsNameEntries
<1>6. CommitNamesExecuted'
      <2> SUFFICES ASSUME NEW n \in Node, commit_index'[n] > 0
                   PROVE  \E d \in executed'[n] : Names(log'[n], commit_index'[n], d)
          BY DEF CommitNamesExecuted, Names
      <2>1. CASE Commit(c) /\ n = call[c].node
            <3>1. commit_index'[n] = call[c].index /\ call'[c].pc = "ok"
                  BY <1>0, <2>1 DEF Commit, CallRecord
            <3>2. ~AppendEntry(c)
                  BY <2>1 DEF Commit, AppendEntry
            <3> QED BY <1>3, <2>1, <3>1, <3>2
      <2>2. CASE commit_index'[n] = commit_index[n]
            <3>1. commit_index[n] \in Nat
                  BY <1>0
            <3> DEFINE d == log[n][commit_index[n] + 1]
            <3>2. d \in executed[n] /\ Names(log[n], commit_index[n], d)
                  BY <1>0, <2>2 DEF CommitNamesExecuted, Names
            <3>3. d \in Command
                  BY <1>0, <3>2
            <3>4. Names(log'[n], commit_index[n], d)
                  BY <1>1, <3>1, <3>2, <3>3 DEF Grows
            <3> QED BY <1>1, <2>2, <3>2, <3>4 DEF Grows
      <2>3. commit_index'[n] = commit_index[n] \/ (Commit(c) /\ n = call[c].node)
            BY <1>0 DEF Step, Submit, AppendEntry, PeerAccepts, PeerFails, CountAcks,
                        Execute, Commit
      <2> QED BY <2>1, <2>2, <2>3
<1> QED BY <1>5, <1>6 DEF CommitInv

\* Whatever calls overtake one another, the commit index of a manager names an
\* entry of its log whose command it has executed.
THEOREM CommitIndexIsExecuted == Spec => []CommitNamesExecuted
<1>1. Init => CommitInv
      BY DEF Init, NewCall, CommitInv, CallsNameEntries, CommitNamesExecuted
<1>2. Inv /\ CommitInv /\ [Next]_vars => CommitInv'
      <2> SUFFICES ASSUME Inv, CommitInv, [Next]_vars
                   PROVE  CommitInv'
          OBVIOUS
      <2>1. ASSUME NEW c \in Command, Step(c)
            PROVE  CommitInv'
            BY <2>1, CommitStep
      <2>2. CASE UNCHANGED logVars
            BY <2>2 DEF logVars, CommitInv, CallsNameEntries, CommitNamesExecuted, Names
      <2> QED BY <2>1, <2>2 DEF Next, vars
<1>3. CommitInv => CommitNamesExecuted
      BY DEF CommitInv
<1> QED BY <1>1, <1>2, <1>3, Invariance, PTL DEF Spec

-----------------------------------------------------------------------------
\* Until it is shut down, a manager that collects votes is a candidate of the
\* term it asks for, and one that sends heartbeats leads in their term: neither
\* task writes between the steps of the other.
Role(n) ==
    /\ Polling(n) => consensus[n].state = "Candidate" /\ consensus[n].term = election[n].term
    /\ Beating(n) => consensus[n].state = "Leader" /\ consensus[n].term = beat[n].term
    /\ consensus[n].leader_id = n <=> consensus[n].state = "Leader"

RoleInv == \A n \in Node \ closed : Role(n)

TermsRise == \A n \in Node \ closed : consensus'[n].term >= consensus[n].term

\* What one node does leaves the roles of the others alone.
LEMMA OneNodeMoves ==
    ASSUME Inv, RoleInv, NEW n \in Node, closed \subseteq closed',
           \A q \in Node \ {n} : /\ consensus'[q] = consensus[q]
                                 /\ election'[q] = election[q]
                                 /\ beat'[q] = beat[q],
           n \notin closed' => Role(n)',
           n \notin closed => consensus'[n].term >= consensus[n].term
    PROVE  RoleInv' /\ TermsRise
<1>1. ASSUME NEW q \in Node, q # n, q \notin closed'
      PROVE  Role(q)'
      BY <1>1 DEF RoleInv, Role, Polling, Beating
<1>2. ASSUME NEW q \in Node, q # n
      PROVE  consensus'[q].term >= consensus[q].term
      <2>1. consensus[q].term \in Int
            BY Terms DEF Inv, TypeOK, ElectionTypeOK
      <2> QED BY <1>2, <2>1
<1> QED BY <1>1, <1>2 DEF RoleInv, TermsRise

\* Each task finds its manager in the role its last step left it in.
LEMMA RoleStep ==
    ASSUME Inv, RoleInv, ElectionNext
    PROVE  RoleInv' /\ TermsRise
<1> USE DEF ManagerRecord, ElectionRecord, BeatRecord
<1>0. /\ consensus \in [Node -> ManagerRecord]
      /\ election \in [Node -> ElectionRecord]
      /\ beat \in [Node -> BeatRecord]
      /\ voter \in [Node -> VoterRecord]
      /\ mail \subseteq Message
      /\ Term \subseteq Int /\ None \notin Node
      BY Terms, ElectionAssumption DEF Inv, TypeOK, ElectionTypeOK, VoterRecord
<1>r. \A n \in Node : consensus[n] \in ManagerRecord /\ consensus[n].term \in Int
      BY <1>0
<1>1. ASSUME NEW n \in Node, StartElection(n)
      PROVE  RoleInv' /\ TermsRise
      <2>1. n \notin closed => ~Beating(n) /\ consensus[n].leader_id # n
            BY <1>1 DEF StartElection, RoleInv, Role
      <2>2. /\ consensus'[n].term = consensus[n].term + 1
            /\ consensus'[n].state = "Candidate"
            /\ consensus'[n].leader_id = consensus[n].leader_id
            /\ election'[n].term = consensus[n].term + 1
            BY <1>0, <1>1 DEF StartElection
      <2>3. n \notin closed => Role(n)'
            BY <1>1, <2>1, <2>2 DEF StartElection, Role, Polling, Beating
      <2> QED BY <1>0, <1>1, <1>r, <2>2, <2>3, OneNodeMoves DEF StartElection
<1>2. ASSUME NEW n \in Node, Conclude(n)
      PROVE  RoleInv' /\ TermsRise
      <2>1. n \notin closed => consensus[n].state = "Candidate" /\ ~Beating(n)
                                /\ consensus[n].leader_id # n
            BY <1>2 DEF Conclude, RoleInv, Role
      <2>2. /\ consensus'[n].term = consensus[n].term
            /\ \/ consensus'[n].state = "Leader" /\ consensus'[n].leader_id = n
               \/ consensus'[n].state = "Follower"
                     /\ consensus'[n].leader_id = consensus[n].leader_id
            /\ election'[n].votes = 0
            BY <1>0, <1>2 DEF Conclude, Idle
      <2>3. n \notin closed => Role(n)'
            BY <1>2, <2>1, <2>2 DEF Conclude, Role, Polling, Beating
      <2> QED BY <1>0, <1>2, <1>r, <2>2, <2>3, OneNodeMoves DEF Conclude
<1>3. ASSUME NEW n \in Node, StartBeat(n)
      PROVE  RoleInv' /\ TermsRise
      <2>1. beat'[n].term = consensus[n].term
            BY <1>0, <1>3 DEF StartBeat
      <2>2. n \notin closed => Role(n)'
            BY <1>3, <2>1 DEF StartBeat, RoleInv, Role, Polling, Beating
      <2> QED BY <1>0, <1>3, <1>r, <2>2, OneNodeMoves DEF StartBeat
<1>4. ASSUME NEW n \in Node, Shutdown(n)
      PROVE  RoleInv' /\ TermsRise
      <2>1. consensus'[n].term = consensus[n].term /\ n \in closed'
            BY <1>0, <1>4 DEF Shutdown
      <2> QED BY <1>0, <1>4, <1>r, <2>1, OneNodeMoves DEF Shutdown
<1>5. ASSUME NEW n \in Node, NEW p \in Node, LoseVote(n, p)
      PROVE  RoleInv' /\ TermsRise
      <2>1. election'[n].term = election[n].term /\ election'[n].votes = election[n].votes
            BY <1>0, <1>5 DEF LoseVote
      <2>2. n \notin closed => Role(n)'
            BY <1>5, <2>1 DEF LoseVote, RoleInv, Role, Polling, Beating
      <2> QED BY <1>0, <1>5, <1>r, <2>2, OneNodeMoves DEF LoseVote
<1>b. ASSUME NEW n \in Node, NEW p \in Node, p \in beat[n].waiting,
             beat' = [beat EXCEPT ![n] = WithoutPeer(@, p)],
             UNCHANGED <<consensus, closed, election>>
      PROVE  RoleInv' /\ TermsRise
      <2>1. Beating(n)
            BY <1>b DEF Beating
      <2>2. beat'[n].waiting # {} => beat'[n].term = beat[n].term
            <3>1. beat'[n] = WithoutPeer(beat[n], p)
                  BY <1>0, <1>b
            <3> QED BY <1>0, <3>1 DEF WithoutPeer, NoBeat
      <2>3. n \notin closed => Role(n)'
            BY <1>b, <2>1, <2>2 DEF RoleInv, Role, Polling, Beating
      <2> QED BY <1>0, <1>b, <1>r, <2>3, OneNodeMoves
<1>6. ASSUME NEW n \in Node, NEW p \in Node, ReachPeer(n, p)
      PROVE  RoleInv' /\ TermsRise
      <2>1. CASE /\ voter[p].term > beat[n].term
                 /\ StepDown(n, voter[p].term)
                 /\ beat' = [beat EXCEPT ![n] = NoBeat]
            <3>1. voter[p].term \in Int /\ beat[n].term \in Int
                  BY <1>0 DEF VoterRecord
            <3>2. /\ consensus'[n].term = voter[p].term /\ consensus'[n].state = "Follower"
                  /\ consensus'[n].leader_id = None /\ beat'[n].waiting = {}
                  BY <1>0, <2>1 DEF StepDown, NoBeat
            <3>3. n \notin closed => consensus[n].term = beat[n].term /\ ~Polling(n)
                  BY <1>6 DEF ReachPeer, RoleInv, Role, Beating
            <3>4. n \notin closed => Role(n)'
                  BY <1>0, <1>6, <3>2, <3>3 DEF ReachPeer, Role, Polling, Beating
            <3>5. n \notin closed => consensus'[n].term >= consensus[n].term
                  BY <2>1, <3>1, <3>2, <3>3
            <3> QED BY <1>0, <1>6, <2>1, <3>4, <3>5, OneNodeMoves DEF ReachPeer, StepDown
      <2>2. CASE UNCHANGED consensus /\ beat' = [beat EXCEPT ![n] = WithoutPeer(@, p)]
            BY <1>6, <1>b, <2>2 DEF ReachPeer
      <2> QED BY <1>6, <2>1, <2>2 DEF ReachPeer
<1>7. ASSUME NEW n \in Node, NEW p \in Node, LoseBeat(n, p)
      PROVE  RoleInv' /\ TermsRise
      BY <1>7, <1>b DEF LoseBeat
<1>8. ASSUME NEW n \in Node, NEW m \in mail, CollectVote(n, m)
      PROVE  RoleInv' /\ TermsRise
      <2>0. /\ Polling(n) /\ m.asked = election[n].term
            /\ UNCHANGED <<closed, beat>>
            BY <1>8 DEF CollectVote, Awaits
      <2>1. CASE ~m.ok /\ m.term > m.asked /\ StepDown(n, m.term)
                 /\ election' = [election EXCEPT ![n] = Idle]
            <3>1. m.term \in Int /\ m.asked \in Int
                  BY <1>0, <1>8 DEF CollectVote, Message
            <3>2. /\ consensus'[n].term = m.term /\ consensus'[n].state = "Follower"
                  /\ consensus'[n].leader_id = None /\ election'[n].votes = 0
                  BY <1>0, <2>1 DEF StepDown, Idle
            <3>3. n \notin closed => consensus[n].term = m.asked /\ ~Beating(n)
                  BY <2>0 DEF RoleInv, Role
            <3>4. n \notin closed => Role(n)'
                  BY <1>0, <2>0, <3>2, <3>3 DEF Role, Polling, Beating
            <3>5. n \notin closed => consensus'[n].term >= consensus[n].term
                  BY <2>1, <3>1, <3>2, <3>3
            <3> QED BY <1>0, <2>0, <2>1, <3>4, <3>5, OneNodeMoves DEF StepDown
      <2>2. CASE /\ UNCHANGED consensus
                 /\ \E v \in {election[n].votes, election[n].votes + 1} :
                       election' = [election EXCEPT ![n].votes = v,
                                                    ![n].waiting = @ \ {m.from}]
            <3>1. election'[n].term = election[n].term
                  BY <1>0, <2>2
            <3>2. n \notin closed => Role(n)'
                  BY <2>0, <2>2, <3>1 DEF RoleInv, Role, Polling, Beating
            <3> QED BY <1>0, <1>r, <2>0, <2>2, <3>2, OneNodeMoves
      <2>3. election[n] = [election[n] EXCEPT !.votes = election[n].votes]
            BY <1>0
      <2>4. CASE UNCHANGED consensus
                 /\ election' = [election EXCEPT ![n].waiting = @ \ {m.from}]
            <3>1. election' = [election EXCEPT ![n].votes = election[n].votes,
                                               ![n].waiting = @ \ {m.from}]
                  BY <1>0, <2>4
            <3> QED BY <2>2, <2>4, <3>1
      <2> QED BY <1>8, <2>1, <2>2, <2>4 DEF CollectVote
<1>9. ASSUME NEW n \in Node, NEW m \in mail, AnswerVote(n, m)
      PROVE  RoleInv' /\ TermsRise
      BY <1>9, <1>r DEF AnswerVote, managers, RoleInv, TermsRise, Role, Polling, Beating
<1> QED BY <1>1, <1>2, <1>3, <1>4, <1>5, <1>6, <1>7, <1>8, <1>9 DEF ElectionNext

\* Submitted commands touch neither role nor term of a manager.
LEMMA RoleNext ==
    ASSUME Inv, RoleInv, [Next]_vars
    PROVE  RoleInv' /\ (TermsRise \/ UNCHANGED electionVars)
<1>1. CASE ElectionNext
      BY <1>1, RoleStep
<1>2. ASSUME UNCHANGED managers
      PROVE  RoleInv' /\ TermsRise
      <2>1. \A n \in Node : consensus[n].term \in Int
            BY Terms DEF Inv, TypeOK, ElectionTypeOK
      <2> QED BY <1>2, <2>1 DEF managers, RoleInv, TermsRise, Role, Polling, Beating
<1>3. ASSUME NEW c \in Command, Step(c)
      PROVE  UNCHANGED managers
      BY <1>3 DEF Step, Submit, AppendEntry, PeerAccepts, PeerFails, CountAcks, Execute,
                  Commit, electionVars
<1>4. UNCHANGED vars => UNCHANGED managers
      BY DEF vars, electionVars
<1> QED BY <1>1, <1>2, <1>3, <1>4 DEF Next

\* The two tasks of a manager write the term they read before they waited, and
\* yet it never falls until the manager is shut down.
THEOREM TermsNeverFall == Spec => TermNeverFalls
<1>1. Init => RoleInv
      BY ElectionAssumption DEF Init, ElectionInit, RoleInv, Role, Polling, Beating, Idle, NoBeat
<1>2. Inv /\ RoleInv /\ [Next]_vars => RoleInv'
      BY RoleNext
<1>3. Inv /\ RoleInv /\ [Next]_vars
         => [\A n \in Node \ closed : consensus'[n].term >= consensus[n].term]_electionVars
      BY RoleNext DEF TermsRise
<1> QED BY <1>1, <1>2, <1>3, Invariance, PTL DEF Spec, TermNeverFalls

-----------------------------------------------------------------------------
\* Which members of S have given n the vote of term t, by the votes of g, and
\* which of them store command c, by the entries of s.
Backers(S, g, t, n) == {v \in S : <<v, t, n>> \in g}
Keepers(S, s, c) == {p \in S : <<p, c>> \in s}

\* The votes a manager has counted were given, the answers on their way tell
\* of votes that were, and the acknowledgements counted stand for stored
\* commands.
VotesInMail ==
    \A m \in mail : m.kind = "voteResponse" /\ m.ok => <<m.from, m.asked, m.to>> \in granted

CountedVotes(n) ==
    Polling(n) =>
        /\ election[n].waiting \subseteq Others(n)
        /\ election[n].votes
              <= Cardinality(Backers(Others(n) \ election[n].waiting, granted,
                                     election[n].term, n)) + 1

VotesCounted == \A n \in Node : CountedVotes(n)

CountedAcks(c) ==
    LET n == call[c].node
    IN /\ call[c].pc = "replicating" =>
             /\ call[c].waiting \subseteq Others(n)
             /\ call[c].acks
                   <= Cardinality(Keepers(Others(n) \ call[c].waiting, stored, c)) + 1
       /\ call[c].pc = "execute" =>
             2 * (Cardinality(Keepers(Others(n), stored, c)) + 1) > Cardinality(known[n])

AcksCounted == \A c \in Command : CountedAcks(c)

\* The cluster a manager knows is finite.
LEMMA OthersFinite ==
    ASSUME Inv, NEW n \in Node
    PROVE  Others(n) \subseteq Node /\ IsFiniteSet(Others(n)) /\ IsFiniteSet(known[n])
<1>1. known[n] \in SUBSET Node /\ Others(n) \in SUBSET Node
      BY DEF Inv, TypeOK, ElectionTypeOK, Others
<1> QED BY <1>1, ElectionAssumption, FS_Subset

\* Counting in a larger set, or one more member, never counts less.
LEMMA CountGrows ==
    ASSUME NEW T, IsFiniteSet(T), NEW S \in SUBSET T
    PROVE  Cardinality(S) \in Nat /\ Cardinality(T) \in Nat /\ Cardinality(S) <= Cardinality(T)
BY FS_Subset, FS_CardinalityType

\* A set with one member more counts at least one more.
LEMMA CountOneMore ==
    ASSUME NEW T, IsFiniteSet(T), NEW S \in SUBSET T, NEW x \in T, x \notin S
    PROVE  Cardinality(S) \in Nat /\ Cardinality(T) \in Nat /\ Cardinality(S) + 1 <= Cardinality(T)
<1>1. IsFiniteSet(S)
      BY FS_Subset
<1>2. Cardinality(S \cup {x}) = Cardinality(S) + 1
      BY <1>1, FS_AddElement
<1>3. S \cup {x} \in SUBSET T
      OBVIOUS
<1> QED BY <1>1, <1>2, <1>3, FS_CardinalityType, CountGrows

\* More nodes asked and more votes given, or entries stored, make no fewer.
LEMMA MoreBackers ==
    ASSUME NEW T, IsFiniteSet(T), NEW S \in SUBSET T, NEW h, NEW g \in SUBSET h, NEW t, NEW n
    PROVE  /\ Cardinality(Backers(S, g, t, n)) \in Nat
           /\ Cardinality(Backers(T, h, t, n)) \in Nat
           /\ Cardinality(Backers(S, g, t, n)) <= Cardinality(Backers(T, h, t, n))
<1>1. /\ Backers(T, h, t, n) \in SUBSET T
      /\ Backers(S, g, t, n) \in SUBSET Backers(T, h, t, n)
      BY DEF Backers
<1>2. IsFiniteSet(Backers(T, h, t, n))
      BY <1>1, FS_Subset
<1> QED BY <1>1, <1>2, CountGrows

\* The same of the nodes that store a command.
LEMMA MoreKeepers ==
    ASSUME NEW T, IsFiniteSet(T), NEW S \in SUBSET T, NEW s, NEW r \in SUBSET s, NEW c
    PROVE  /\ Cardinality(Keepers(S, r, c)) \in Nat
           /\ Cardinality(Keepers(T, s, c)) \in Nat
           /\ Cardinality(Keepers(S, r, c)) <= Cardinality(Keepers(T, s, c))
<1>1. /\ Keepers(T, s, c) \in SUBSET T
      /\ Keepers(S, r, c) \in SUBSET Keepers(T, s, c)
      BY DEF Keepers
<1>2. IsFiniteSet(Keepers(T, s, c))
      BY <1>1, FS_Subset
<1> QED BY <1>1, <1>2, CountGrows

-----------------------------------------------------------------------------
\* Elections change no membership and take back no vote.
LEMMA ElectionKeeps ==
    ASSUME ElectionNext
    PROVE  UNCHANGED known /\ granted \subseteq granted'
<1>1. UNCHANGED known
      BY DEF ElectionNext, StartElection, Conclude, StartBeat, Shutdown, LoseVote, ReachPeer,
             LoseBeat, CollectVote, AnswerVote, managers
<1>2. granted \subseteq granted'
      BY DEF ElectionNext, StartElection, Conclude, StartBeat, Shutdown, LoseVote, ReachPeer,
             LoseBeat, CollectVote, AnswerVote, managers
<1> QED BY <1>1, <1>2

\* The answer to a request is sent with the vote it tells of.
LEMMA VotesInMailStep ==
    ASSUME Inv, VotesInMail, ElectionNext
    PROVE  VotesInMail'
<1>0. mail \subseteq Message /\ UNCHANGED known /\ granted \subseteq granted'
      BY ElectionKeeps DEF Inv, TypeOK, ElectionTypeOK
<1>a. ASSUME \A m \in mail' : m \in mail \/ m.kind = "vote"
      PROVE  VotesInMail'
      BY <1>0, <1>a DEF VotesInMail
<1>1. ASSUME NEW v \in Node, NEW m \in mail, AnswerVote(v, m)
      PROVE  VotesInMail'
      <2> SUFFICES ASSUME NEW a \in mail', a.kind = "voteResponse", a.ok
                   PROVE  <<a.from, a.asked, a.to>> \in granted'
          BY DEF VotesInMail
      <2>1. CASE a \in mail
            BY <1>0, <2>1 DEF VotesInMail
      <2>2. CASE a \notin mail
            <3> DEFINE ok == Grants(v, m)
                       t == Higher(m.term, voter[m.to].term)
                       answer == [kind |-> "voteResponse", from |-> m.to, to |-> m.from,
                                  asked |-> m.term, term |-> t, ok |-> ok]
            <3>1. mail' \subseteq mail \cup {answer} /\ m.to = v
                  BY <1>1 DEF AnswerVote, Reply
            <3>2. Grants(v, m) => granted' = granted \cup {<<v, m.term, m.from>>}
                  BY <1>1 DEF AnswerVote
            <3> HIDE DEF t
            <3>3. a = answer
                  BY <2>2, <3>1
            <3>4. a.from = m.to /\ a.to = m.from /\ a.asked = m.term /\ ok
                  BY <3>3
            <3> QED BY <3>1, <3>2, <3>4
      <2> QED BY <2>1, <2>2
<1>2. ASSUME NEW n \in Node, StartElection(n)
      PROVE  VotesInMail'
      <2>1. \A m \in mail' : m \in mail \/ m \in Requests(n, consensus[n].term + 1)
            BY <1>2 DEF StartElection
      <2> QED BY <1>a, <2>1 DEF Requests
<1>3. CASE mail' \subseteq mail
      BY <1>3, <1>a
<1> QED BY <1>1, <1>2, <1>3
        DEF ElectionNext, Conclude, StartBeat, Shutdown, LoseVote, ReachPeer, LoseBeat,
            CollectVote

\* A vote is counted once, when its answer is taken from those waited for.
LEMMA VotesCountedStep ==
    ASSUME Inv, VotesInMail, VotesCounted, ElectionNext
    PROVE  VotesCounted'
<1>0. /\ election \in [Node -> ElectionRecord] /\ mail \subseteq Message
      /\ UNCHANGED known /\ granted \subseteq granted'
      /\ \A n \in Node : Others(n)' = Others(n) /\ IsFiniteSet(Others(n))
      BY ElectionKeeps, OthersFinite DEF Inv, TypeOK, ElectionTypeOK, ElectionRecord, Others
<1>a. ASSUME NEW n \in Node, election'[n].term = election[n].term,
             election'[n].waiting \subseteq election[n].waiting,
             election'[n].votes = election[n].votes
      PROVE  CountedVotes(n)'
      <2> DEFINE S == Others(n) \ election[n].waiting
                 T == Others(n) \ election'[n].waiting
                 t == election[n].term
      <2>0. S \in SUBSET T /\ T \in SUBSET Others(n)
            BY <1>a
      <2>1. IsFiniteSet(T)
            BY <1>0, <2>0, FS_Subset
      <2> HIDE DEF S, T, t
      <2>2. /\ Cardinality(Backers(S, granted, t, n)) \in Nat
            /\ Cardinality(Backers(T, granted', t, n)) \in Nat
            /\ Cardinality(Backers(S, granted, t, n)) <= Cardinality(Backers(T, granted', t, n))
            BY <1>0, <2>0, <2>1, MoreBackers
      <2>3. election[n].votes \in Nat
            BY <1>0 DEF ElectionRecord
      <2>4. Polling(n) => /\ election[n].waiting \subseteq Others(n)
                          /\ election[n].votes <= Cardinality(Backers(S, granted, t, n)) + 1
            BY DEF VotesCounted, CountedVotes, S, t
      <2>5. Polling(n)' => election'[n].votes <= Cardinality(Backers(T, granted', t, n)) + 1
            BY <1>a, <2>2, <2>3, <2>4 DEF Polling
      <2> QED BY <1>0, <1>a, <2>4, <2>5 DEF CountedVotes, Polling, T, t
<1>b. ASSUME NEW n \in Node, election'[n].votes = 0
      PROVE  CountedVotes(n)'
      BY <1>b DEF CountedVotes, Polling
<1>c. ASSUME NEW n \in Node, \A q \in Node \ {n} : election'[q] = election[q],
             CountedVotes(n)'
      PROVE  VotesCounted'
      <2>1. \A q \in Node \ {n} : CountedVotes(q)'
            BY <1>a, <1>c
      <2> QED BY <1>c, <2>1 DEF VotesCounted
<1>1. ASSUME NEW n \in Node, StartElection(n)
      PROVE  VotesCounted'
      <2>1. election'[n] = [term |-> consensus[n].term + 1, waiting |-> Others(n), votes |-> 1]
            BY <1>0, <1>1 DEF StartElection
      <2>2. Backers(Others(n) \ Others(n), granted', consensus[n].term + 1, n) = {}
            BY DEF Backers
      <2>3. Cardinality(Backers(Others(n) \ Others(n), granted', consensus[n].term + 1, n)) = 0
            BY <2>2, FS_EmptySet
      <2>4. /\ election'[n].votes = 1 /\ election'[n].waiting = Others(n)
            /\ election'[n].term = consensus[n].term + 1
            BY <2>1
      <2>5. CountedVotes(n)'
            BY <1>0, <2>3, <2>4 DEF CountedVotes
      <2> QED BY <1>0, <1>1, <1>c, <2>5 DEF StartElection
<1>2. ASSUME NEW n \in Node, Conclude(n)
      PROVE  VotesCounted'
      <2>1. election'[n].votes = 0
            BY <1>0, <1>2 DEF Conclude, Idle
      <2> QED BY <1>0, <1>2, <1>b, <1>c, <2>1 DEF Conclude
<1>3. ASSUME NEW n \in Node, NEW p \in Node, LoseVote(n, p)
      PROVE  VotesCounted'
      <2>1. /\ election'[n].term = election[n].term /\ election'[n].votes = election[n].votes
            /\ election'[n].waiting \subseteq election[n].waiting
            BY <1>0, <1>3 DEF LoseVote, ElectionRecord
      <2>2. CountedVotes(n)'
            BY <1>a, <2>1
      <2> QED BY <1>0, <1>3, <1>c, <2>2 DEF LoseVote
<1>4. ASSUME NEW n \in Node, NEW m \in mail, CollectVote(n, m)
      PROVE  VotesCounted'
      <2>0. /\ Polling(n) /\ m.from \in election[n].waiting /\ m.asked = election[n].term
            /\ m.kind = "voteResponse" /\ m.to = n /\ UNCHANGED granted
            BY <1>4 DEF CollectVote, Awaits
      <2>1. CASE election' = [election EXCEPT ![n] = Idle]
            <3>1. election'[n].votes = 0
                  BY <1>0, <2>1 DEF Idle
            <3> QED BY <1>0, <2>1, <1>b, <1>c, <3>1
      <2>2. CASE election' = [election EXCEPT ![n].waiting = @ \ {m.from}]
            <3>1. /\ election'[n].term = election[n].term
                  /\ election'[n].votes = election[n].votes
                  /\ election'[n].waiting \subseteq election[n].waiting
                  BY <1>0, <2>2 DEF ElectionRecord
            <3>2. CountedVotes(n)'
                  BY <1>a, <3>1
            <3> QED BY <1>0, <2>2, <1>c, <3>2
      <2>3. CASE m.ok /\ election' = [election EXCEPT ![n].votes = @ + 1,
                                                      ![n].waiting = @ \ {m.from}]
            <3> DEFINE S == Others(n) \ election[n].waiting
                       T == Others(n) \ (election[n].waiting \ {m.from})
                       t == election[n].term
            <3>1. /\ election'[n].term = t /\ election'[n].votes = election[n].votes + 1
                  /\ election'[n].waiting = election[n].waiting \ {m.from}
                  BY <1>0, <2>3 DEF ElectionRecord
            <3>2. /\ election[n].waiting \subseteq Others(n)
                  /\ election[n].votes <= Cardinality(Backers(S, granted, t, n)) + 1
                  BY <2>0 DEF VotesCounted, CountedVotes
            <3>3. T \in SUBSET Others(n) /\ m.from \in T /\ m.from \notin S /\ S \subseteq T
                  BY <2>0, <3>2
            <3>4. <<m.from, t, n>> \in granted
                  BY <2>0, <2>3 DEF VotesInMail
            <3> HIDE DEF S, T, t
            <3>5. /\ Backers(T, granted, t, n) \in SUBSET Others(n)
                  /\ Backers(S, granted, t, n) \in SUBSET Backers(T, granted, t, n)
                  /\ m.from \in Backers(T, granted, t, n)
                  /\ m.from \notin Backers(S, granted, t, n)
                  BY <3>3, <3>4 DEF Backers
            <3>6. IsFiniteSet(Backers(T, granted, t, n))
                  BY <1>0, <3>5, FS_Subset
            <3>7. /\ Cardinality(Backers(S, granted, t, n)) \in Nat
                  /\ Cardinality(Backers(T, granted, t, n)) \in Nat
                  /\ Cardinality(Backers(S, granted, t, n)) + 1
                        <= Cardinality(Backers(T, granted, t, n))
                  BY <3>5, <3>6, CountOneMore
            <3>8. election[n].votes \in Nat
                  BY <1>0 DEF ElectionRecord
            <3>9. election'[n].votes <= Cardinality(Backers(T, granted, t, n)) + 1
                  BY <3>1, <3>2, <3>7, <3>8
            <3>10. CountedVotes(n)'
                  BY <1>0, <2>0, <3>1, <3>2, <3>9 DEF CountedVotes, T, t
            <3> QED BY <1>0, <2>3, <1>c, <3>10
      <2> QED BY <1>4, <2>1, <2>2, <2>3 DEF CollectVote
<1>5. CASE UNCHANGED election
      BY <1>5, <1>a DEF VotesCounted
<1> QED BY <1>1, <1>2, <1>3, <1>4, <1>5
        DEF ElectionNext, StartBeat, Shutdown, ReachPeer, LoseBeat, AnswerVote, managers

-----------------------------------------------------------------------------
\* A manager comes to lead, or leads in another term, only by an election.
LEMMA LeadersWereElected ==
    ASSUME Inv, ElectionNext, NEW q \in Node, consensus'[q].state = "Leader"
    PROVE  \/ /\ Conclude(q) /\ election[q].votes >= VotesNeeded(q)
              /\ consensus'[q].term = consensus[q].term
           \/ consensus[q].state = "Leader" /\ consensus'[q].term = consensus[q].term
<1>0. consensus \in [Node -> ManagerRecord]
      BY DEF Inv, TypeOK, ElectionTypeOK, ManagerRecord
<1>1. ASSUME NEW n \in Node, StartElection(n)
      PROVE  q # n /\ consensus'[q] = consensus[q]
      BY <1>0, <1>1 DEF StartElection, ManagerRecord
<1>2. ASSUME NEW n \in Node, Conclude(n)
      PROVE  \/ q # n /\ consensus'[q] = consensus[q]
             \/ /\ q = n /\ election[n].votes >= VotesNeeded(n)
                /\ consensus'[q].term = consensus[q].term
      BY <1>0, <1>2 DEF Conclude, ManagerRecord
<1>3. ASSUME NEW n \in Node, Shutdown(n)
      PROVE  q # n /\ consensus'[q] = consensus[q]
      BY <1>0, <1>3 DEF Shutdown, ManagerRecord
<1>4. ASSUME NEW n \in Node, NEW t, StepDown(n, t)
      PROVE  q # n /\ consensus'[q] = consensus[q]
      BY <1>0, <1>4 DEF StepDown, ManagerRecord
<1>5. CASE UNCHANGED consensus
      BY <1>5
<1> QED BY <1>1, <1>2, <1>3, <1>4, <1>5
        DEF ElectionNext, StartBeat, LoseVote, ReachPeer, LoseBeat, CollectVote, AnswerVote,
            managers

\* A leader elected by a majority keeps it for as long as it leads in that term.
LEMMA MajorityStep ==
    ASSUME Inv, RoleInv, VotesCounted, LeaderHasMajority, ElectionNext
    PROVE  LeaderHasMajority'
<1>0. /\ UNCHANGED known /\ granted \subseteq granted'
      /\ \A n \in Node : Others(n)' = Others(n) /\ IsFiniteSet(Others(n))
      BY ElectionKeeps, OthersFinite DEF Others
<1> SUFFICES ASSUME NEW n \in Node, n \notin closed', consensus'[n].state = "Leader"
             PROVE  2 * (Cardinality(Backers(Others(n), granted', consensus'[n].term, n)) + 1)
                        > Cardinality(Others(n)) + 1
    BY <1>0 DEF LeaderHasMajority, Backers
<1> DEFINE S == Others(n)
           t == consensus[n].term
<1>1. n \notin closed
      BY DEF ElectionNext, StartElection, Conclude, StartBeat, Shutdown, LoseVote, ReachPeer,
             LoseBeat, CollectVote, AnswerVote, managers
<1>2. consensus'[n].term = t
      BY LeadersWereElected
<1>3. IsFiniteSet(S) /\ Cardinality(S) \in Nat
      BY <1>0, FS_CardinalityType
<1>4. CASE consensus[n].state = "Leader"
      <2>1. 2 * (Cardinality(Backers(S, granted, t, n)) + 1) > Cardinality(S) + 1
            BY <1>1, <1>4 DEF LeaderHasMajority, Backers
      <2> HIDE DEF S, t
      <2>2. /\ Cardinality(Backers(S, granted, t, n)) \in Nat
            /\ Cardinality(Backers(S, granted', t, n)) \in Nat
            /\ Cardinality(Backers(S, granted, t, n)) <= Cardinality(Backers(S, granted', t, n))
            BY <1>0, <1>3, MoreBackers
      <2>3. 2 * (Cardinality(Backers(S, granted', t, n)) + 1) > Cardinality(S) + 1
            BY <1>3, <2>1, <2>2
      <2> QED BY <1>2, <2>3 DEF S
<1>5. CASE Conclude(n) /\ election[n].votes >= VotesNeeded(n)
      <2> DEFINE R == Others(n) \ election[n].waiting
      <2>1. /\ Polling(n) /\ election[n].votes \in Nat
            BY <1>5 DEF Conclude, Inv, TypeOK, ElectionTypeOK
      <2>2. t = election[n].term
            BY <1>1, <2>1 DEF RoleInv, Role
      <2>3. election[n].votes <= Cardinality(Backers(R, granted, t, n)) + 1
            BY <2>1, <2>2 DEF VotesCounted, CountedVotes
      <2>4. election[n].votes >= IF S = {} THEN 1 ELSE (Cardinality(S) + 1) \div 2 + 1
            BY <1>5 DEF VotesNeeded
      <2>5. S = {} => Cardinality(S) = 0
            BY FS_EmptySet
      <2>6. R \in SUBSET S
            OBVIOUS
      <2> HIDE DEF S, R, t
      <2>7. /\ Cardinality(Backers(R, granted, t, n)) \in Nat
            /\ Cardinality(Backers(S, granted', t, n)) \in Nat
            /\ Cardinality(Backers(R, granted, t, n)) <= Cardinality(Backers(S, granted', t, n))
            BY <1>0, <1>3, <2>6, MoreBackers
      <2> DEFINE k == Cardinality(S)
                 b == Cardinality(Backers(S, granted', t, n))
      <2>8. b \in Nat /\ k \in Nat /\ (b + 1 >= (k + 1) \div 2 + 1 \/ (k = 0 /\ b + 1 >= 1))
            BY <1>3, <2>1, <2>3, <2>4, <2>5, <2>7
      <2>9. 2 * (b + 1) > k + 1
            <3> HIDE DEF b, k
            <3> QED BY <2>8
      <2> QED BY <1>2, <2>9 DEF S
<1> QED BY <1>4, <1>5, LeadersWereElected

-----------------------------------------------------------------------------
\* What is counted for a call stays backed while the call counts nothing new.
LEMMA CountedAcksKept ==
    ASSUME Inv, NEW d \in Command, CountedAcks(d), UNCHANGED known, stored \subseteq stored',
           call[d].pc \in {"replicating", "execute"},
           call'[d].pc = call[d].pc, call'[d].node = call[d].node,
           call'[d].waiting \subseteq call[d].waiting, call'[d].acks = call[d].acks
    PROVE  CountedAcks(d)'
<1> DEFINE n == call[d].node
           S == Others(n) \ call[d].waiting
           T == Others(n) \ call'[d].waiting
           O == Others(n)
<1>1. n \in Node /\ call[d].acks \in Nat
      BY DEF Inv, TypeOK, CallsHaveNodes
<1>2. O' = O /\ IsFiniteSet(O) /\ Cardinality(known[n]) \in Nat
      BY <1>1, OthersFinite, FS_CardinalityType DEF Others
<1>3. S \in SUBSET T /\ T \in SUBSET O /\ O \in SUBSET O
      OBVIOUS
<1>4. /\ call[d].pc = "replicating" =>
            /\ call[d].waiting \subseteq O
            /\ call[d].acks <= Cardinality(Keepers(S, stored, d)) + 1
      /\ call[d].pc = "execute" =>
            2 * (Cardinality(Keepers(O, stored, d)) + 1) > Cardinality(known[n])
      BY DEF CountedAcks
<1>5. /\ CountedAcks(d)' <=>
            /\ call[d].pc = "replicating" =>
                  /\ call'[d].waiting \subseteq O
                  /\ call[d].acks <= Cardinality(Keepers(T, stored', d)) + 1
            /\ call[d].pc = "execute" =>
                  2 * (Cardinality(Keepers(O, stored', d)) + 1) > Cardinality(known[n])
      BY <1>2 DEF CountedAcks
<1> HIDE DEF n, S, T, O
<1>6. IsFiniteSet(T)
      BY <1>2, <1>3, FS_Subset
<1>7. /\ Cardinality(Keepers(S, stored, d)) \in Nat
      /\ Cardinality(Keepers(T, stored', d)) \in Nat
      /\ Cardinality(Keepers(S, stored, d)) <= Cardinality(Keepers(T, stored', d))
      BY <1>3, <1>6, MoreKeepers
<1>8. /\ Cardinality(Keepers(O, stored, d)) \in Nat
      /\ Cardinality(Keepers(O, stored', d)) \in Nat
      /\ Cardinality(Keepers(O, stored, d)) <= Cardinality(Keepers(O, stored', d))
      BY <1>2, <1>3, MoreKeepers
<1> QED BY <1>1, <1>2, <1>4, <1>5, <1>7, <1>8

\* An acknowledgement is counted once, when the peer is taken from those waited
\* for, and only if the peer has stored the command.
LEMMA AcksStep ==
    ASSUME Inv, AcksCounted, NEW c \in Command, Step(c)
    PROVE  AcksCounted'
<1>0. /\ call \in [Command -> CallRecord] /\ call[c] \in CallRecord
      /\ CallsHaveNodes /\ CountedAcks(c)
      BY DEF Inv, TypeOK, CallRecord, AcksCounted
<1>1. UNCHANGED known /\ stored \subseteq stored'
      BY DEF Step, Submit, AppendEntry, PeerAccepts, PeerFails, CountAcks, Execute, Commit,
             electionVars, managers
<1>2. ASSUME NEW d \in Command, d # c
      PROVE  CountedAcks(d)'
      <2>1. call'[d] = call[d] /\ CountedAcks(d)
            BY <1>0, <1>2 DEF Step, Submit, AppendEntry, PeerAccepts, PeerFails, CountAcks,
                              Execute, Commit, AcksCounted
      <2>2. CASE call[d].pc \in {"replicating", "execute"}
            BY <1>1, <2>1, <2>2, CountedAcksKept
      <2>3. CASE call[d].pc \notin {"replicating", "execute"}
            BY <2>1, <2>3 DEF CountedAcks
      <2> QED BY <2>2, <2>3
<1>a. ASSUME call'[c].pc \notin {"replicating", "execute"}
      PROVE  CountedAcks(c)'
      BY <1>a DEF CountedAcks
<1>b. ASSUME NEW p \in Node, call[c].pc = "replicating",
             call' = [call EXCEPT ![c].waiting = @ \ {p}]
      PROVE  CountedAcks(c)'
      <2>1. /\ call'[c].pc = "replicating" /\ call'[c].node = call[c].node
            /\ call'[c].acks = call[c].acks /\ call'[c].waiting \subseteq call[c].waiting
            BY <1>0, <1>b DEF CallRecord
      <2> QED BY <1>0, <1>1, <1>b, <2>1, CountedAcksKept
<1>3. ASSUME AppendEntry(c)
      PROVE  CountedAcks(c)'
      <2> DEFINE n == call[c].node
      <2>1. /\ call'[c].pc = "replicating" /\ call'[c].node = n
            /\ call'[c].waiting = Others(n) /\ call'[c].acks = 1
            BY <1>0, <1>3 DEF AppendEntry, CallRecord
      <2>2. Keepers(Others(n) \ Others(n), stored', c) = {}
            BY DEF Keepers
      <2>3. Cardinality(Keepers(Others(n) \ Others(n), stored', c)) = 0
            BY <2>2, FS_EmptySet
      <2> QED BY <1>1, <2>1, <2>3 DEF CountedAcks, Others
<1>4. ASSUME NEW p \in Node, PeerAccepts(c, p)
      PROVE  CountedAcks(c)'
      <2>1. PICK heard \in BOOLEAN :
               call' = [call EXCEPT ![c].waiting = @ \ {p},
                                    ![c].acks = IF heard THEN @ + 1 ELSE @]
            BY <1>4 DEF PeerAccepts
      <2>2. call[c].pc = "replicating" /\ p \in call[c].waiting
            BY <1>4 DEF PeerAccepts
      <2>3. CASE ~heard
            <3>1. /\ call'[c].pc = "replicating" /\ call'[c].node = call[c].node
                  /\ call'[c].acks = call[c].acks /\ call'[c].waiting \subseteq call[c].waiting
                  BY <1>0, <2>1, <2>2, <2>3 DEF CallRecord
            <3> QED BY <1>0, <1>1, <2>2, <3>1, CountedAcksKept
      <2>4. CASE heard
            <3> DEFINE n == call[c].node
                       S == Others(n) \ call[c].waiting
                       T == Others(n) \ (call[c].waiting \ {p})
            <3>1. /\ call'[c].pc = "replicating" /\ call'[c].node = n
                  /\ call'[c].acks = call[c].acks + 1
                  /\ call'[c].waiting = call[c].waiting \ {p}
                  BY <1>0, <2>1, <2>2, <2>4 DEF CallRecord
            <3>2. /\ call[c].waiting \subseteq Others(n)
                  /\ call[c].acks <= Cardinality(Keepers(S, stored, c)) + 1
                  BY <1>0, <2>2 DEF CountedAcks
            <3>3. n \in Node /\ IsFiniteSet(Others(n)) /\ call[c].acks \in Nat
                  BY <1>0, <2>2, OthersFinite DEF CallsHaveNodes, CallRecord
            <3>4. stored' = stored \cup {<<p, c>>}
                  BY <1>4 DEF PeerAccepts
            <3>5. /\ Keepers(S, stored, c) \in SUBSET Keepers(T, stored', c)
                  /\ Keepers(T, stored', c) \in SUBSET Others(n)
                  /\ p \in Keepers(T, stored', c) /\ p \notin Keepers(S, stored, c)
                  BY <2>2, <3>2, <3>4 DEF Keepers
            <3> HIDE DEF S, T
            <3>6. IsFiniteSet(Keepers(T, stored', c))
                  BY <3>3, <3>5, FS_Subset
            <3>7. /\ Cardinality(Keepers(S, stored, c)) \in Nat
                  /\ Cardinality(Keepers(T, stored', c)) \in Nat
                  /\ Cardinality(Keepers(S, stored, c)) + 1
                        <= Cardinality(Keepers(T, stored', c))
                  BY <3>5, <3>6, CountOneMore
            <3>8. call'[c].acks <= Cardinality(Keepers(T, stored', c)) + 1
                  BY <3>1, <3>2, <3>3, <3>7
            <3> QED BY <1>1, <3>1, <3>2, <3>8 DEF CountedAcks, Others, T
      <2> QED BY <2>3, <2>4
<1>5. ASSUME CountAcks(c), call'[c].pc = "execute"
      PROVE  CountedAcks(c)'
      <2> DEFINE n == call[c].node
                 O == Others(n)
                 k == Cardinality(known[n])
      <2>1. /\ call[c].pc = "replicating" /\ call[c].waiting = {}
            /\ call[c].acks >= k \div 2 + 1 /\ call'[c].node = n
            BY <1>0, <1>5 DEF CountAcks, CallRecord, RequiredAcks
      <2>2. n \in Node /\ IsFiniteSet(O) /\ k \in Nat /\ call[c].acks \in Nat
            BY <1>0, <2>1, OthersFinite, FS_CardinalityType DEF CallsHaveNodes, CallRecord
      <2>3. O \ call[c].waiting = O
            BY <2>1
      <2>4. call[c].acks <= Cardinality(Keepers(O, stored, c)) + 1
            BY <1>0, <2>1, <2>3 DEF CountedAcks
      <2>5. UNCHANGED stored /\ O' = O
            BY <1>1, <1>5, <2>2 DEF CountAcks, Others
      <2>6. O \in SUBSET O
            OBVIOUS
      <2> HIDE DEF O, k
      <2>7. Cardinality(Keepers(O, stored, c)) \in Nat
            BY <2>2, <2>6, MoreKeepers
      <2> DEFINE b == Cardinality(Keepers(O, stored, c))
      <2>8. 2 * (b + 1) > k
            <3>1. b \in Nat /\ b + 1 >= k \div 2 + 1
                  BY <2>1, <2>2, <2>4, <2>7
            <3> HIDE DEF b
            <3> QED BY <2>2, <3>1
      <2> QED BY <1>1, <1>5, <2>1, <2>5, <2>8 DEF CountedAcks, Others, O, k
<1>7. ASSUME NEW p \in Node, PeerFails(c, p)
      PROVE  CountedAcks(c)'
      BY <1>7, <1>b DEF PeerFails
<1>8. ASSUME NEW n \in Node, Submit(c, n)
      PROVE  CountedAcks(c)'
      BY <1>0, <1>8, <1>a DEF Submit, CallRecord
<1>9. CountAcks(c) => call'[c].pc \in {"execute", "failed"}
      BY <1>0 DEF CountAcks, CallRecord
<1>10. Execute(c) \/ Commit(c) => call'[c].pc \notin {"replicating", "execute"}
      BY <1>0 DEF Execute, Commit, CallRecord
<1>11. CountedAcks(c)'
      BY <1>3, <1>4, <1>5, <1>7, <1>8, <1>9, <1>10, <1>a DEF Step
<1> QED BY <1>2, <1>11 DEF AcksCounted

\* A command is executed only after its acknowledgements were counted.
LEMMA ExecutedStep ==
    ASSUME Inv, AcksCounted, ExecutedOnMajority, NEW c \in Command, Step(c)
    PROVE  ExecutedOnMajority'
<1>0. /\ call \in [Command -> CallRecord] /\ call[c] \in CallRecord
      /\ executed \in [Node -> SUBSET Command] /\ CallsHaveNodes
      BY DEF Inv, TypeOK, CallRecord
<1>1. UNCHANGED known /\ stored \subseteq stored'
      BY DEF Step, Submit, AppendEntry, PeerAccepts, PeerFails, CountAcks, Execute, Commit,
             electionVars, managers
<1> SUFFICES ASSUME NEW n \in Node, NEW d \in executed'[n]
             PROVE  2 * (Cardinality(Keepers(Others(n), stored', d)) + 1)
                        > Cardinality(known[n])
    BY <1>1 DEF ExecutedOnMajority, Keepers, Others
<1>2. 2 * (Cardinality(Keepers(Others(n), stored, d)) + 1) > Cardinality(known[n])
      <2>1. CASE d \in executed[n]
            BY <2>1 DEF ExecutedOnMajority, Keepers
      <2>2. CASE d \notin executed[n]
            <3>1. Execute(c) /\ n = call[c].node /\ d = c
                  <4>1. UNCHANGED executed \/ Execute(c)
                        BY DEF Step, Submit, AppendEntry, PeerAccepts, PeerFails, CountAcks,
                               Commit
                  <4>2. Execute(c) /\ d \in executed'[n]
                        BY <2>2, <4>1
                  <4>3. executed' = [executed EXCEPT ![call[c].node] = @ \cup {c}]
                        BY <2>2, <4>2 DEF Execute
                  <4> QED BY <1>0, <2>2, <4>2, <4>3
            <3> QED BY <3>1 DEF Execute, AcksCounted, CountedAcks
      <2> QED BY <2>1, <2>2
<1> DEFINE O == Others(n)
<1>3. IsFiniteSet(O) /\ O \in SUBSET O /\ Cardinality(known[n]) \in Nat
      BY OthersFinite, FS_CardinalityType
<1>4. 2 * (Cardinality(Keepers(O, stored, d)) + 1) > Cardinality(known[n])
      BY <1>2
<1> HIDE DEF O
<1>5. /\ Cardinality(Keepers(O, stored, d)) \in Nat
      /\ Cardinality(Keepers(O, stored', d)) \in Nat
      /\ Cardinality(Keepers(O, stored, d)) <= Cardinality(Keepers(O, stored', d))
      BY <1>1, <1>3, MoreKeepers
<1>6. 2 * (Cardinality(Keepers(O, stored', d)) + 1) > Cardinality(known[n])
      BY <1>3, <1>4, <1>5
<1> QED BY <1>6 DEF O

-----------------------------------------------------------------------------
BackedInv ==
    /\ RoleInv /\ VotesInMail /\ VotesCounted /\ LeaderHasMajority
    /\ AcksCounted /\ ExecutedOnMajority

\* At the start nobody leads and nothing is executed.
LEMMA InitBacked == Init => BackedInv
<1> SUFFICES ASSUME Init
             PROVE  BackedInv
    OBVIOUS
<1>1. RoleInv
      BY ElectionAssumption DEF Init, ElectionInit, RoleInv, Role, Polling, Beating, Idle, NoBeat
<1>2. VotesInMail
      BY DEF Init, ElectionInit, VotesInMail
<1>3. VotesCounted
      BY DEF Init, ElectionInit, VotesCounted, CountedVotes, Polling, Idle
<1>4. LeaderHasMajority
      BY DEF Init, ElectionInit, LeaderHasMajority
<1>5. AcksCounted
      BY DEF Init, NewCall, AcksCounted, CountedAcks
<1>6. ExecutedOnMajority
      BY DEF Init, ExecutedOnMajority
<1> QED BY <1>1, <1>2, <1>3, <1>4, <1>5, <1>6 DEF BackedInv

\* Every step keeps what the managers claim backed.
LEMMA NextBacked == Inv /\ BackedInv /\ [Next]_vars => BackedInv'
<1> SUFFICES ASSUME Inv, BackedInv, [Next]_vars
             PROVE  BackedInv'
    OBVIOUS
<1>1. RoleInv'
      BY RoleNext DEF BackedInv
<1>2. CASE ElectionNext /\ UNCHANGED logVars
      <2>1. VotesInMail' /\ VotesCounted' /\ LeaderHasMajority'
            BY <1>2, VotesInMailStep, VotesCountedStep, MajorityStep DEF BackedInv
      <2>2. UNCHANGED <<known, call, stored, executed>>
            BY <1>2, ElectionKeeps DEF logVars
      <2>3. AcksCounted' /\ ExecutedOnMajority'
            BY <2>2 DEF BackedInv, AcksCounted, CountedAcks, ExecutedOnMajority, Others
      <2> QED BY <1>1, <2>1, <2>3 DEF BackedInv
<1>3. ASSUME UNCHANGED <<managers, mail, granted>>
      PROVE  VotesInMail' /\ VotesCounted' /\ LeaderHasMajority'
      BY <1>3 DEF managers, BackedInv, VotesInMail, VotesCounted, CountedVotes, Polling,
                  LeaderHasMajority, Others
<1>4. ASSUME NEW c \in Command, Step(c)
      PROVE  BackedInv'
      <2>1. UNCHANGED <<managers, mail, granted>>
            BY <1>4 DEF Step, Submit, AppendEntry, PeerAccepts, PeerFails, CountAcks, Execute,
                        Commit, electionVars
      <2>2. AcksCounted' /\ ExecutedOnMajority'
            BY <1>4, AcksStep, ExecutedStep DEF BackedInv
      <2> QED BY <1>1, <1>3, <2>1, <2>2 DEF BackedInv
<1>5. CASE UNCHANGED vars
      <2>1. UNCHANGED <<managers, mail, granted, call, stored, executed>>
            BY <1>5 DEF vars, electionVars, logVars
      <2>2. AcksCounted' /\ ExecutedOnMajority'
            BY <2>1 DEF managers, BackedInv, AcksCounted, CountedAcks, ExecutedOnMajority, Others
      <2> QED BY <1>1, <1>3, <2>1, <2>2 DEF BackedInv
<1> QED BY <1>2, <1>4, <1>5 DEF Next

\* Whatever answers are lost, late or repeated: a leader has the votes of a
\* majority of the cluster it knows, names itself leader exactly while it leads,
\* and has executed only what a majority of that cluster has stored.
THEOREM ClaimsAreAlwaysBacked == Spec => []ClaimsAreBacked
<1>1. Inv /\ BackedInv => ClaimsAreBacked
      BY DEF Inv, BackedInv, RoleInv, Role, LeaderIdIsHonest, ClaimsAreBacked
<1> QED BY <1>1, InitBacked, NextBacked, Invariance, PTL DEF Spec
=============================================================================
