--------------------------- MODULE RaftNodeProofs ---------------------------
(***************************************************************************)
(* What holds of one Raft node for any number of candidates, any terms and *)
(* any logs of other leaders that match in the sense of Raft; and of the   *)
(* requests that clients send to such nodes: how they are routed, shared   *)
(* out, counted, retried and answered from a cache, for any nodes,         *)
(* requests and timeouts.                                                  *)
(***************************************************************************)
EXTENDS RaftNode, RequestRouting, RequestDelivery, LoadBalancing, SequenceTheorems,
        FiniteSetTheorems, TLAPS

-----------------------------------------------------------------------------
(* The inductive invariant.                                                *)

\* A vote granted in the present term is the one that is recorded, and no
\* election of the node's own is under way in that term.
VotesBind ==
    \A g \in granted : /\ g[1] <= current_term
                       /\ g[1] = current_term => voted_for = g[2] /\ busy # "election"

\* The node leads only in terms that nobody else leads.
OwnTerms == role = "Leader" => current_term \notin LeaderTerm

\* It leads, and appends, in a term above 0.
PositiveTerm == role = "Leader" \/ busy = "election" => current_term > 0

\* Its log matches those of all leaders.
LogsMatch ==
    \A t \in LeaderTerm : \A i \in DOMAIN log \cap DOMAIN LeaderLog[t] :
        log[i] = LeaderLog[t][i] => \A j \in 1..i : log[j] = LeaderLog[t][j]

\* What was applied lies below last_applied, and that, like what the waiting
\* appliers have read, below the commit index.
AppliedBelow ==
    /\ last_applied <= commit_index
    /\ \A c \in applying : c <= commit_index
    /\ \A i \in Index : times[i] <= 1 /\ (times[i] > 0 => i <= last_applied)

Inv ==
    /\ TypeOK /\ VotesBind /\ OneVotePerTerm /\ OwnTerms /\ PositiveTerm
    /\ LogsMatch /\ AppliedBelow

-----------------------------------------------------------------------------
(* Helpers.                                                                *)

\* The larger of two numbers.
LEMMA MaxOfTwo ==
    ASSUME NEW m \in Int, NEW n \in Int
    PROVE  Max({m, n}) = IF m >= n THEN m ELSE n
BY DEF Max

\* The smaller of two numbers.
LEMMA MinOfTwo ==
    ASSUME NEW m \in Int, NEW n \in Int
    PROVE  Min({m, n}) = IF m <= n THEN m ELSE n
BY DEF Min

\* What a request with an entry leaves of the log.
LEMMA CutAndAppend ==
    ASSUME NEW S, NEW l \in Seq(S), NEW p \in 0..Len(l), NEW e \in S
    PROVE  /\ SubSeq(l, 1, p) \o <<e>> \in Seq(S)
           /\ Len(SubSeq(l, 1, p) \o <<e>>) = p + 1
           /\ \A j \in 1..p : (SubSeq(l, 1, p) \o <<e>>)[j] = l[j]
           /\ (SubSeq(l, 1, p) \o <<e>>)[p + 1] = e
<1>1. /\ SubSeq(l, 1, p) \in Seq(S)
      /\ Len(SubSeq(l, 1, p)) = p
      /\ \A j \in 1..p : SubSeq(l, 1, p)[j] = l[j]
      <2>1. CASE p = 0
            BY <2>1, SubSeqEmpty, SubSeqProperties
      <2>2. CASE p > 0
            BY <2>2, SubSeqProperties
      <2> QED BY <2>1, <2>2
<1>2. <<e>> \in Seq(S) /\ Len(<<e>>) = 1 /\ <<e>>[1] = e
      OBVIOUS
<1> QED BY <1>1, <1>2, ConcatProperties

\* Hearing of a term: it is taken over when it is higher.
LEMMA Adopting ==
    ASSUME current_term \in 0..MaxTerm, NEW t \in 1..MaxTerm, Adopt(t), MaxTerm \in Nat
    PROVE  /\ current_term' = (IF t > current_term THEN t ELSE current_term)
           /\ current_term' \in 0..MaxTerm
           /\ role' = IF t > current_term THEN "Follower" ELSE role
BY MaxOfTwo DEF Adopt

\* The state machine keeps its order and its counts.
LEMMA Applying ==
    ASSUME MaxLog \in Nat, log \in Seq(1..MaxTerm),
           last_applied \in 0..MaxLog, times \in [Index -> Nat],
           \A i \in Index : times[i] <= 1 /\ (times[i] > 0 => i <= last_applied),
           NEW c \in 0..MaxLog, ApplyUpTo(c)
    PROVE  /\ last_applied' \in 0..MaxLog
           /\ times' \in [Index -> Nat]
           /\ last_applied' = last_applied \/ last_applied' <= c
           /\ \A i \in Index : times'[i] <= 1 /\ (times'[i] > 0 => i <= last_applied')
<1>1. CASE c <= last_applied /\ UNCHANGED <<times, last_applied>>
      BY <1>1
<1>2. CASE \E k \in last_applied + 1..c, done \in BOOLEAN :
              /\ last_applied' = k
              /\ times' = [i \in Index |->
                     IF i \in last_applied + 1..k /\ (i < k \/ done)
                     THEN times[i] + 1 ELSE times[i]]
      <2>1. PICK k \in last_applied + 1..c, done \in BOOLEAN :
              /\ last_applied' = k
              /\ times' = [i \in Index |->
                     IF i \in last_applied + 1..k /\ (i < k \/ done)
                     THEN times[i] + 1 ELSE times[i]]
            BY <1>2
      <2>2. last_applied' \in 0..MaxLog /\ last_applied' <= c /\ k > last_applied
            BY <2>1
      <2>3. ASSUME NEW i \in Index
            PROVE  times'[i] \in Nat /\ times'[i] <= 1 /\ (times'[i] > 0 => i <= last_applied')
            <3>1. i \in Int /\ times[i] \in Nat
                  BY DEF Index
            <3>2. CASE i \in last_applied + 1..k /\ (i < k \/ done)
                  <4>1. times[i] = 0
                        BY <3>1, <3>2
                  <4> QED BY <2>1, <3>1, <3>2, <4>1
            <3>3. CASE ~(i \in last_applied + 1..k /\ (i < k \/ done))
                  BY <2>1, <2>2, <3>1, <3>3
            <3> QED BY <3>2, <3>3
      <2>4. times' \in [Index -> Nat]
            BY <2>1, <2>3
      <2> QED BY <2>2, <2>3, <2>4
<1> QED BY <1>1, <1>2 DEF ApplyUpTo
-----------------------------------------------------------------------------
(* One lemma per action.                                                   *)

\* handle_vote_request gives no second vote in a term.
LEMMA VoteRequestKeepsInv ==
    ASSUME RaftAssumption, Inv,
           NEW c \in Candidate, NEW t \in 1..MaxTerm, NEW i, NEW lt,
           HandleVoteRequest(c, t, i, lt)
    PROVE  Inv'
<1> DEFINE vote == IF t > current_term THEN None ELSE voted_for
           upToDate == \/ lt > LastTerm(log)
                       \/ lt = LastTerm(log) /\ i >= Len(log)
           grant == t >= current_term /\ vote \in {None, c} /\ upToDate
<1>1. /\ busy = "no" /\ busy' = busy
      /\ Adopt(t)
      /\ voted_for' = IF grant THEN c ELSE vote
      /\ granted' = granted \cup IF grant THEN {<<t, c>>} ELSE {}
      /\ UNCHANGED <<log, commit_index, last_applied, disk, spawned, applying, times>>
      BY DEF HandleVoteRequest, LoopIsFree, durable, applier
<1> HIDE DEF grant
<1>2. /\ current_term' = (IF t > current_term THEN t ELSE current_term)
      /\ current_term' \in 0..MaxTerm /\ current_term \in 0..MaxTerm
      /\ role' = IF t > current_term THEN "Follower" ELSE role
      BY <1>1, Adopting DEF RaftAssumption, Inv, TypeOK
<1>3. grant => t >= current_term /\ vote \in {None, c} /\ current_term' = t
      BY <1>2 DEF grant
<1>4. None \notin Candidate
      BY DEF RaftAssumption
<1>5. TypeOK'
      BY <1>1, <1>2 DEF Inv, TypeOK
<1>6. VotesBind'
      <2> SUFFICES ASSUME NEW g \in granted'
                   PROVE  /\ g[1] <= current_term'
                          /\ g[1] = current_term' => voted_for' = g[2] /\ busy' # "election"
          BY DEF VotesBind
      <2>1. CASE g \in granted
            <3>1. g[1] \in 1..MaxTerm /\ g[2] \in Candidate /\ g[1] <= current_term
                  BY <2>1 DEF Inv, TypeOK, VotesBind
            <3>2. g[1] <= current_term'
                  BY <1>2, <3>1
            <3>3. ASSUME g[1] = current_term'
                  PROVE  voted_for' = g[2]
                  <4>1. ~(t > current_term) /\ g[1] = current_term
                        BY <1>2, <3>1, <3>3
                  <4>2. voted_for = g[2] /\ vote = voted_for
                        BY <2>1, <4>1 DEF Inv, VotesBind
                  <4> QED BY <1>1, <1>3, <1>4, <3>1, <4>2
            <3> QED BY <1>1, <3>2, <3>3
      <2>2. CASE grant /\ g = <<t, c>>
            BY <1>1, <1>2, <1>3, <2>2
      <2> QED BY <1>1, <2>1, <2>2
<1>7. OneVotePerTerm'
      <2> SUFFICES ASSUME NEW g \in granted', NEW h \in granted', g[1] = h[1]
                   PROVE  g = h
          BY DEF OneVotePerTerm
      <2>1. \A x \in granted' : x \in (1..MaxTerm) \X Candidate
            BY <1>5 DEF TypeOK
      <2>2. CASE g \in granted /\ h \in granted
            BY <2>2 DEF Inv, OneVotePerTerm
      <2>3. CASE g[1] = t /\ grant
            <3>1. g[1] = current_term' /\ h[1] = current_term'
                  BY <1>3, <2>3
            <3>2. g[2] = voted_for' /\ h[2] = voted_for'
                  BY <1>6, <3>1 DEF VotesBind
            <3>3. g \in (1..MaxTerm) \X Candidate /\ h \in (1..MaxTerm) \X Candidate
                  BY <2>1
            <3> QED BY <3>1, <3>2, <3>3
      <2> QED BY <1>1, <2>2, <2>3
<1>8. OwnTerms' /\ PositiveTerm' /\ LogsMatch' /\ AppliedBelow'
      BY <1>1, <1>2 DEF Inv, OwnTerms, PositiveTerm, LogsMatch, AppliedBelow
<1> QED BY <1>5, <1>6, <1>7, <1>8 DEF Inv

\* start_election opens a term in which nothing was granted.
LEMMA StartElectionKeepsInv ==
    ASSUME RaftAssumption, Inv, StartElection
    PROVE  Inv'
<1> USE DEF StartElection, durable, volatile, applier, Inv
<1>1. current_term' = current_term + 1 /\ current_term \in 0..MaxTerm
      BY DEF TypeOK
<1>2. TypeOK'
      BY <1>1 DEF TypeOK, Persist, RaftAssumption
<1>3. VotesBind'
      <2>1. \A g \in granted : g[1] \in 1..MaxTerm
            BY DEF TypeOK
      <2> QED BY <1>1, <2>1 DEF VotesBind
<1>4. OneVotePerTerm' /\ OwnTerms' /\ PositiveTerm' /\ LogsMatch' /\ AppliedBelow'
      BY <1>1 DEF OneVotePerTerm, OwnTerms, PositiveTerm, LogsMatch, AppliedBelow
<1> QED BY <1>2, <1>3, <1>4

\* The end of an election leaves the votes given to others alone.
LEMMA FinishElectionKeepsInv ==
    ASSUME RaftAssumption, Inv, FinishElection
    PROVE  Inv'
<1> USE DEF FinishElection, BecomeLeader, durable, applier, Inv
<1>1. TypeOK'
      BY DEF TypeOK
<1>2. VotesBind'
      BY DEF VotesBind
<1>3. OneVotePerTerm' /\ OwnTerms' /\ PositiveTerm' /\ LogsMatch' /\ AppliedBelow'
      BY DEF OneVotePerTerm, OwnTerms, PositiveTerm, LogsMatch, AppliedBelow
<1> QED BY <1>1, <1>2, <1>3

\* What every request of a leader does, whatever it makes of the log.
LEMMA AppendKeepsRest ==
    ASSUME RaftAssumption, Inv, NEW t \in LeaderTerm, NEW p, NEW pt, NEW es, NEW c \in Nat,
           AppendEntries(t, p, pt, es, c),
           log' \in Seq(1..MaxTerm), Len(log') <= MaxLog, LogsMatch'
    PROVE  Inv'
<1>1. t \in 1..MaxTerm
      BY DEF RaftAssumption
<1> DEFINE commit == Min({c, Len(log')})
           ok == t >= current_term /\ PrevMatches(p, pt)
           newLog == IF ok THEN LogAfter(p, es) ELSE log
           moved == ok /\ Min({c, Len(newLog)}) > commit_index
<1>2. /\ LoopIsFree /\ Adopt(t)
      /\ voted_for' = IF t > current_term THEN None ELSE voted_for
      /\ log' = newLog
      /\ commit_index' = IF moved THEN Min({c, Len(newLog)}) ELSE commit_index
      /\ spawned' = spawned + IF moved THEN 1 ELSE 0
      /\ UNCHANGED <<last_applied, durable, busy, applying, times, granted>>
      BY DEF AppendEntries
<1> HIDE DEF newLog
<1>3. /\ busy = "no" /\ busy' = busy
      /\ Adopt(t)
      /\ voted_for' = IF t > current_term THEN None ELSE voted_for
      /\ \/ commit_index' = commit_index
         \/ commit_index' = commit /\ commit > commit_index
      /\ spawned' = spawned \/ spawned' = spawned + 1
      /\ UNCHANGED <<last_applied, disk, applying, times, granted>>
      BY <1>2 DEF LoopIsFree, durable, Inv, TypeOK
<1>4. /\ current_term' = (IF t > current_term THEN t ELSE current_term)
      /\ current_term' \in 0..MaxTerm /\ current_term \in 0..MaxTerm
      /\ role' = IF t > current_term THEN "Follower" ELSE role
      BY <1>1, <1>3, Adopting DEF RaftAssumption, Inv, TypeOK
<1>5. commit_index' \in 0..MaxLog /\ commit_index' >= commit_index
      <2>1. Len(log') \in 0..MaxLog /\ commit_index \in 0..MaxLog
            BY DEF RaftAssumption, Inv, TypeOK
      <2>2. commit \in 0..MaxLog
            BY <2>1, MinOfTwo DEF RaftAssumption
      <2> QED BY <1>3, <2>1, <2>2
<1>6. TypeOK'
      BY <1>3, <1>4, <1>5 DEF Inv, TypeOK
<1>7. VotesBind'
      <2>1. \A g \in granted : g[1] \in 1..MaxTerm
            BY DEF Inv, TypeOK
      <2> QED BY <1>3, <1>4, <2>1 DEF Inv, VotesBind
<1>8. OneVotePerTerm' /\ OwnTerms' /\ PositiveTerm'
      BY <1>3, <1>4 DEF Inv, OneVotePerTerm, OwnTerms, PositiveTerm
<1>9. AppliedBelow'
      <2>1. /\ last_applied \in 0..MaxLog /\ commit_index \in 0..MaxLog
            /\ \A x \in applying : x \in 0..MaxLog
            BY DEF Inv, TypeOK
      <2> QED BY <1>3, <1>5, <2>1 DEF Inv, AppliedBelow
<1> QED BY <1>6, <1>7, <1>8, <1>9 DEF Inv

\* A heartbeat moves the commit index only over entries the node has.
LEMMA HeartbeatKeepsInv ==
    ASSUME RaftAssumption, Inv, NEW t \in LeaderTerm, NEW i \in 0..MaxLog,
           NEW c \in 0..LeaderCommit[t], HandleHeartbeat(t, i, c)
    PROVE  Inv'
<1>1. AppendEntries(t, i, TermAt(LeaderLog[t], i), << >>, c)
      BY DEF HandleHeartbeat
<1>2. log' = log
      BY <1>1 DEF AppendEntries, LogAfter
<1>3. log' \in Seq(1..MaxTerm) /\ Len(log') <= MaxLog /\ LogsMatch'
      BY <1>2 DEF Inv, TypeOK, LogsMatch
<1>4. c \in Nat
      BY DEF RaftAssumption
<1> QED BY <1>1, <1>3, <1>4, AppendKeepsRest

\* An accepted entry makes the log up to it the leader's.
LEMMA AcceptedEntryMatches ==
    ASSUME RaftAssumption, Inv, NEW t \in LeaderTerm, NEW i \in Int, NEW c,
           HandleAppendRequest(t, i, c), log' # log
    PROVE  /\ i \in 1..Len(LeaderLog[t])
           /\ log' \in Seq(1..MaxTerm)
           /\ Len(log') = i
           /\ \A j \in 1..i : log'[j] = LeaderLog[t][j]
<1> DEFINE e == LeaderLog[t][i]
<1>1. /\ LeaderLog[t] \in Seq(LeaderTerm) /\ LeaderTerm \subseteq 1..MaxTerm
      /\ log \in Seq(1..MaxTerm)
      BY DEF RaftAssumption, Inv, TypeOK
<1>2. /\ i \in 1..Len(LeaderLog[t])
      /\ AppendEntries(t, i - 1, TermAt(LeaderLog[t], i - 1), <<e>>, c)
      BY DEF HandleAppendRequest
<1>3. e \in 1..MaxTerm
      BY <1>1, <1>2, ElementOfSeq
<1>4. /\ PrevMatches(i - 1, TermAt(LeaderLog[t], i - 1))
      /\ log' = SubSeq(log, 1, i - 1) \o <<e>>
      BY <1>2 DEF AppendEntries, LogAfter
<1>5. i - 1 \in 0..Len(log)
      BY <1>1, <1>2, <1>4 DEF PrevMatches
<1>6. /\ log' \in Seq(1..MaxTerm)
      /\ Len(log') = i
      /\ \A j \in 1..i - 1 : log'[j] = log[j]
      /\ log'[i] = e
      <2> DEFINE p == i - 1
                 T == 1..MaxTerm
                 new == SubSeq(log, 1, p) \o <<e>>
      <2>1. p \in 0..Len(log) /\ log \in Seq(T) /\ e \in T
            BY <1>1, <1>3, <1>5
      <2> HIDE DEF p, T, e
      <2>2. /\ new \in Seq(T)
            /\ Len(new) = p + 1
            /\ \A j \in 1..p : new[j] = log[j]
            /\ new[p + 1] = e
            BY <2>1, CutAndAppend
      <2>3. p + 1 = i
            BY DEF p
      <2>4. log' = new
            BY <1>4 DEF p
      <2> QED BY <2>2, <2>3, <2>4 DEF p, T
<1>7. \A j \in 1..i - 1 : log[j] = LeaderLog[t][j]
      <2>1. CASE i = 1
            BY <2>1
      <2>2. CASE i > 1
            <3>1. log[i - 1] = LeaderLog[t][i - 1]
                  BY <1>2, <1>4, <2>2 DEF PrevMatches, TermAt
            <3>2. i - 1 \in DOMAIN log \cap DOMAIN LeaderLog[t]
                  BY <1>1, <1>2, <1>5, <2>2
            <3> QED BY <3>1, <3>2 DEF Inv, LogsMatch
      <2> QED BY <1>2, <2>1, <2>2
<1>8. \A j \in 1..i : log'[j] = LeaderLog[t][j]
      BY <1>2, <1>6, <1>7
<1> QED BY <1>2, <1>6, <1>8

\* handle_append_request leaves a log that matches every leader's.
LEMMA AppendRequestKeepsInv ==
    ASSUME RaftAssumption, Inv, NEW t \in LeaderTerm, NEW i \in 0..MaxLog,
           NEW c \in 0..LeaderCommit[t], HandleAppendRequest(t, i, c)
    PROVE  Inv'
<1>1. AppendEntries(t, i - 1, TermAt(LeaderLog[t], i - 1), <<LeaderLog[t][i]>>, c)
      BY DEF HandleAppendRequest
<1>2. c \in Nat
      BY DEF RaftAssumption
<1>3. CASE log' = log
      <2>1. log' \in Seq(1..MaxTerm) /\ Len(log') <= MaxLog /\ LogsMatch'
            BY <1>3 DEF Inv, TypeOK, LogsMatch
      <2> QED BY <1>1, <1>2, <2>1, AppendKeepsRest
<1>4. CASE log' # log
      <2>1. /\ i \in 1..Len(LeaderLog[t])
            /\ log' \in Seq(1..MaxTerm)
            /\ Len(log') = i
            /\ \A j \in 1..i : log'[j] = LeaderLog[t][j]
            BY <1>4, AcceptedEntryMatches
      <2>2. LogsMatch'
            <3> SUFFICES ASSUME NEW u \in LeaderTerm,
                                NEW k \in DOMAIN log' \cap DOMAIN LeaderLog[u],
                                log'[k] = LeaderLog[u][k],
                                NEW j \in 1..k
                         PROVE  log'[j] = LeaderLog[u][j]
                BY DEF LogsMatch
            <3>1. k \in 1..i /\ j \in 1..i
                  BY <2>1
            <3>2. LeaderLog[t] \in Seq(LeaderTerm)
                  BY DEF RaftAssumption
            <3>3. k \in DOMAIN LeaderLog[t] \cap DOMAIN LeaderLog[u]
                  BY <2>1, <3>1, <3>2
            <3>4. LeaderLog[t][k] = LeaderLog[u][k]
                  BY <2>1, <3>1
            <3>5. LeaderLog[t][j] = LeaderLog[u][j]
                  BY <3>3, <3>4 DEF RaftAssumption
            <3> QED BY <2>1, <3>1, <3>5
      <2>3. log' \in Seq(1..MaxTerm) /\ Len(log') <= MaxLog
            BY <2>1
      <2> QED BY <1>1, <1>2, <2>2, <2>3, AppendKeepsRest
<1> QED BY <1>3, <1>4

\* An entry of the node's own term matches every leader's log.
LEMMA ClientCommandKeepsInv ==
    ASSUME RaftAssumption, Inv, HandleClientCommand
    PROVE  Inv'
<1>1. /\ busy = "no" /\ busy' = "replicating"
      /\ role = "Leader" /\ Len(log) < MaxLog
      /\ log' = Append(log, current_term)
      /\ UNCHANGED <<role, current_term, voted_for, commit_index, last_applied, disk,
                     spawned, applying, times, granted>>
      BY DEF HandleClientCommand, LoopIsFree, durable, applier
<1>2. PositiveTerm
      BY <1>1 DEF Inv
<1>3. /\ log' \in Seq(1..MaxTerm) /\ Len(log') = Len(log) + 1
      /\ \A j \in 1..Len(log) : log'[j] = log[j]
      /\ log'[Len(log) + 1] = current_term
      <2>1. log \in Seq(1..MaxTerm) /\ current_term \in 1..MaxTerm
            BY <1>1, <1>2 DEF Inv, TypeOK, PositiveTerm
      <2> QED BY <1>1, <2>1, AppendProperties
<1>4. TypeOK'
      BY <1>1, <1>3 DEF Inv, TypeOK, RaftAssumption
<1>5. LogsMatch'
      <2> SUFFICES ASSUME NEW t \in LeaderTerm,
                          NEW i \in DOMAIN log' \cap DOMAIN LeaderLog[t],
                          log'[i] = LeaderLog[t][i],
                          NEW j \in 1..i
                   PROVE  log'[j] = LeaderLog[t][j]
          BY DEF LogsMatch
      <2>1. LeaderLog[t] \in Seq(LeaderTerm) /\ log \in Seq(1..MaxTerm)
            BY DEF RaftAssumption, Inv, TypeOK
      <2>2. i \in 1..Len(log) + 1
            BY <1>3, <2>1
      <2>3. i # Len(log) + 1
            <3>1. LeaderLog[t][i] \in LeaderTerm
                  BY <2>1, ElementOfSeq
            <3> QED BY <1>1, <1>3, <3>1 DEF Inv, OwnTerms
      <2>4. i \in 1..Len(log) /\ j \in 1..Len(log)
            BY <2>1, <2>2, <2>3
      <2> QED BY <1>3, <2>1, <2>4 DEF Inv, LogsMatch
<1>6. VotesBind' /\ OneVotePerTerm' /\ OwnTerms' /\ AppliedBelow' /\ PositiveTerm'
      BY <1>1 DEF Inv, VotesBind, OneVotePerTerm, OwnTerms, AppliedBelow, PositiveTerm
<1> QED BY <1>4, <1>5, <1>6 DEF Inv

\* Replication moves the commit index within the log.
LEMMA FinishReplicationKeepsInv ==
    ASSUME RaftAssumption, Inv, FinishReplication
    PROVE  Inv'
<1>1. /\ busy' = "no"
      /\ UNCHANGED <<role, current_term, voted_for, log, disk, spawned, applying, granted>>
      BY DEF FinishReplication, durable
<1>2. /\ MaxLog \in Nat /\ log \in Seq(1..MaxTerm) /\ Len(log) \in 0..MaxLog
      /\ commit_index \in 0..MaxLog /\ last_applied \in 0..MaxLog
      /\ times \in [Index -> Nat]
      /\ last_applied <= commit_index
      /\ \A i \in Index : times[i] <= 1 /\ (times[i] > 0 => i <= last_applied)
      BY DEF RaftAssumption, Inv, TypeOK, AppliedBelow
<1>3. /\ commit_index' \in 0..MaxLog /\ commit_index' >= commit_index
      /\ last_applied' \in 0..MaxLog /\ last_applied' <= commit_index'
      /\ times' \in [Index -> Nat]
      /\ \A i \in Index : times'[i] <= 1 /\ (times'[i] > 0 => i <= last_applied')
      <2>1. CASE UNCHANGED <<commit_index, last_applied, times>>
            BY <1>2, <2>1
      <2>2. CASE /\ commit_index' = Max({commit_index, Len(log)})
                 /\ IF Len(log) > commit_index THEN ApplyUpTo(Len(log))
                    ELSE UNCHANGED <<last_applied, times>>
            <3>1. commit_index' = IF commit_index >= Len(log) THEN commit_index ELSE Len(log)
                  BY <1>2, <2>2, MaxOfTwo
            <3>2. CASE Len(log) > commit_index
                  <4>1. ApplyUpTo(Len(log))
                        BY <2>2, <3>2
                  <4>2. /\ last_applied' \in 0..MaxLog
                        /\ times' \in [Index -> Nat]
                        /\ last_applied' = last_applied \/ last_applied' <= Len(log)
                        /\ \A i \in Index : times'[i] <= 1 /\ (times'[i] > 0 => i <= last_applied')
                        BY <1>2, <4>1, Applying
                  <4> QED BY <1>2, <3>1, <3>2, <4>2
            <3>3. CASE ~(Len(log) > commit_index)
                  BY <1>2, <2>2, <3>1, <3>3
            <3> QED BY <3>2, <3>3
      <2> QED BY <2>1, <2>2 DEF FinishReplication
<1>4. TypeOK'
      BY <1>1, <1>3 DEF Inv, TypeOK
<1>5. AppliedBelow'
      <2>1. \A c \in applying : c \in 0..MaxLog
            BY DEF Inv, TypeOK
      <2> QED BY <1>1, <1>2, <1>3, <2>1 DEF Inv, AppliedBelow
<1>6. VotesBind' /\ OneVotePerTerm' /\ OwnTerms' /\ LogsMatch' /\ PositiveTerm'
      BY <1>1 DEF Inv, VotesBind, OneVotePerTerm, OwnTerms, LogsMatch, PositiveTerm
<1> QED BY <1>4, <1>5, <1>6 DEF Inv

\* An applier that reads the commit index reads one the log covers.
LEMMA ApplierReadsKeepsInv ==
    ASSUME RaftAssumption, Inv, ApplierReadsCommit
    PROVE  Inv'
<1>1. /\ spawned > 0 /\ spawned' = spawned - 1
      /\ applying' = applying \cup {commit_index}
      /\ UNCHANGED <<role, current_term, voted_for, log, commit_index, last_applied,
                     disk, busy, times, granted>>
      BY DEF ApplierReadsCommit, volatile, durable
<1>2. TypeOK'
      BY <1>1 DEF Inv, TypeOK
<1>3. AppliedBelow'
      BY <1>1 DEF Inv, TypeOK, AppliedBelow
<1>4. VotesBind' /\ OneVotePerTerm' /\ OwnTerms' /\ LogsMatch' /\ PositiveTerm'
      BY <1>1 DEF Inv, VotesBind, OneVotePerTerm, OwnTerms, LogsMatch, PositiveTerm
<1> QED BY <1>2, <1>3, <1>4 DEF Inv

\* An applier continues where the last one ended, under the lock.
LEMMA ApplierRunsKeepsInv ==
    ASSUME RaftAssumption, Inv, NEW c \in applying, ApplierRuns(c)
    PROVE  Inv'
<1>1. /\ applying' = applying \ {c}
      /\ ApplyUpTo(c)
      /\ UNCHANGED <<role, current_term, voted_for, log, commit_index, disk, busy,
                     spawned, granted>>
      BY DEF ApplierRuns, durable
<1>2. /\ MaxLog \in Nat /\ log \in Seq(1..MaxTerm)
      /\ last_applied \in 0..MaxLog /\ commit_index \in 0..MaxLog
      /\ times \in [Index -> Nat] /\ c \in 0..MaxLog
      /\ c <= commit_index /\ last_applied <= commit_index
      /\ \A i \in Index : times[i] <= 1 /\ (times[i] > 0 => i <= last_applied)
      BY DEF RaftAssumption, Inv, TypeOK, AppliedBelow
<1>3. /\ last_applied' \in 0..MaxLog
      /\ times' \in [Index -> Nat]
      /\ last_applied' = last_applied \/ last_applied' <= c
      /\ \A i \in Index : times'[i] <= 1 /\ (times'[i] > 0 => i <= last_applied')
      BY <1>1, <1>2, Applying
<1>4. TypeOK'
      BY <1>1, <1>3 DEF Inv, TypeOK
<1>5. AppliedBelow'
      BY <1>1, <1>2, <1>3 DEF Inv, AppliedBelow
<1>6. VotesBind' /\ OneVotePerTerm' /\ OwnTerms' /\ LogsMatch' /\ PositiveTerm'
      BY <1>1 DEF Inv, VotesBind, OneVotePerTerm, OwnTerms, LogsMatch, PositiveTerm
<1> QED BY <1>4, <1>5, <1>6 DEF Inv

\* A restart forgets what was applied and granted, and keeps the rest sound.
LEMMA RestartKeepsInv ==
    ASSUME RaftAssumption, Inv, Restart
    PROVE  Inv'
<1> USE DEF Restart, Started, durable, Inv
<1>1. TypeOK'
      BY DEF TypeOK, RaftAssumption, Index
<1>2. VotesBind' /\ OneVotePerTerm' /\ OwnTerms' /\ PositiveTerm' /\ AppliedBelow'
      BY DEF VotesBind, OneVotePerTerm, OwnTerms, PositiveTerm, AppliedBelow
<1>3. LogsMatch'
      BY DEF LogsMatch
<1> QED BY <1>1, <1>2, <1>3

-----------------------------------------------------------------------------
(* Theorems.                                                               *)

\* A new node is sound.
LEMMA InvHoldsAtStart == ASSUME RaftAssumption, Init PROVE Inv
<1> USE DEF Init
<1>1. TypeOK
      BY DEF TypeOK, Blank, RaftAssumption, Index
<1>2. VotesBind /\ OneVotePerTerm /\ OwnTerms /\ PositiveTerm /\ AppliedBelow
      BY DEF VotesBind, OneVotePerTerm, OwnTerms, PositiveTerm, AppliedBelow
<1>3. LogsMatch
      BY DEF LogsMatch
<1> QED BY <1>1, <1>2, <1>3 DEF Inv

\* Every step keeps the invariant.
LEMMA StepKeepsInv == ASSUME RaftAssumption, Inv, [Next]_vars PROVE Inv'
<1>1. CASE \E c \in Candidate, t \in 1..MaxTerm, i \in 0..MaxLog, lt \in 0..MaxTerm :
               lt <= t /\ (i = 0 <=> lt = 0) /\ HandleVoteRequest(c, t, i, lt)
      BY <1>1, VoteRequestKeepsInv
<1>2. CASE StartElection
      BY <1>2, StartElectionKeepsInv
<1>3. CASE FinishElection
      BY <1>3, FinishElectionKeepsInv
<1>4. CASE \E t \in LeaderTerm, i \in 0..MaxLog : \E c \in 0..LeaderCommit[t] :
               HandleAppendRequest(t, i, c) \/ HandleHeartbeat(t, i, c)
      BY <1>4, AppendRequestKeepsInv, HeartbeatKeepsInv
<1>5. CASE HandleClientCommand
      BY <1>5, ClientCommandKeepsInv
<1>6. CASE FinishReplication
      BY <1>6, FinishReplicationKeepsInv
<1>7. CASE ApplierReadsCommit
      BY <1>7, ApplierReadsKeepsInv
<1>8. CASE \E c \in applying : ApplierRuns(c)
      BY <1>8, ApplierRunsKeepsInv
<1>9. CASE Restart
      BY <1>9, RestartKeepsInv
<1>10. CASE UNCHANGED vars
      <2>1. UNCHANGED <<role, current_term, voted_for, log, commit_index, last_applied,
                        disk, busy, spawned, applying, times, granted>>
            BY <1>10 DEF vars, volatile, durable, applier
      <2> QED BY <2>1 DEF Inv, TypeOK, VotesBind, OneVotePerTerm, OwnTerms, PositiveTerm,
                          LogsMatch, AppliedBelow
<1> QED BY <1>1, <1>2, <1>3, <1>4, <1>5, <1>6, <1>7, <1>8, <1>9, <1>10 DEF Next

\* The inductive invariant of the Raft node of raft.rs holds in every reachable
\* state.
THEOREM Invariance == ASSUME RaftAssumption PROVE Spec => []Inv
<1>1. Init => Inv
      BY InvHoldsAtStart
<1>2. Inv /\ [Next]_vars => Inv'
      BY StepKeepsInv
<1> QED BY <1>1, <1>2, PTL DEF Spec

\* Votes, terms, log and indexes of the node of raft.rs are always well typed.
THEOREM TypesAlwaysRight == ASSUME RaftAssumption PROVE Spec => []TypeOK
<1>1. Inv => TypeOK
      BY DEF Inv
<1> QED BY <1>1, Invariance, PTL

\* Between two starts the node votes for one other candidate per term, whatever
\* it hears and however its own elections end (handle_vote_request).
THEOREM VotesAreGivenOnce == ASSUME RaftAssumption PROVE Spec => []OneVotePerTerm
<1>1. Inv => OneVotePerTerm
      BY DEF Inv
<1> QED BY <1>1, Invariance, PTL

\* No entry is applied twice between two starts, and none before it is committed,
\* by however many appliers (apply_committed_entries).
THEOREM EntriesAreAppliedOnce ==
    ASSUME RaftAssumption PROVE Spec => []AppliedOnceAndCommitted
<1>1. Inv => AppliedOnceAndCommitted
      <2> SUFFICES ASSUME Inv, NEW i \in Index
                   PROVE  times[i] <= 1 /\ (times[i] > 0 => i <= commit_index)
          BY DEF AppliedOnceAndCommitted, Inv
      <2>1. i \in Int /\ last_applied \in Int /\ commit_index \in Int
            BY DEF Inv, TypeOK, Index
      <2> QED BY <2>1 DEF Inv, AppliedBelow
<1> QED BY <1>1, Invariance, PTL

\* An accepted entry makes the log up to it the leader's, in whatever order
\* requests of several leaders arrive (handle_append_request).
THEOREM AcceptedEntriesAlwaysMatch ==
    ASSUME RaftAssumption PROVE Spec => AcceptedEntriesMatchLeader
<1> DEFINE Matches == \A t \in LeaderTerm, i \in 1..MaxLog, c \in 0..MaxLog :
               HandleAppendRequest(t, i, c) /\ log' # log =>
                   SubSeq(log', 1, i) = SubSeq(LeaderLog[t], 1, i)
<1>1. Inv /\ [Next]_vars => [Matches]_vars
      <2> SUFFICES ASSUME Inv, NEW t \in LeaderTerm, NEW i \in 1..MaxLog, NEW c \in 0..MaxLog,
                          HandleAppendRequest(t, i, c), log' # log
                   PROVE  SubSeq(log', 1, i) = SubSeq(LeaderLog[t], 1, i)
          OBVIOUS
      <2>1. /\ i \in 1..Len(LeaderLog[t])
            /\ log' \in Seq(1..MaxTerm)
            /\ Len(log') = i
            /\ \A j \in 1..i : log'[j] = LeaderLog[t][j]
            BY AcceptedEntryMatches
      <2>2. LeaderLog[t] \in Seq(LeaderTerm)
            BY DEF RaftAssumption
      <2> QED BY <2>1, <2>2
<1>2. AcceptedEntriesMatchLeader <=> [][Matches]_vars
      BY PTL DEF AcceptedEntriesMatchLeader
<1> QED BY <1>1, <1>2, Invariance, PTL DEF Spec
-----------------------------------------------------------------------------
(* The routing of requests (module RequestRouting)                         *)

Trying == {r \in Request : req[r].pc = "trying"}

RequestRecord == [pc : {"new", "trying", "ok", "failed", "refused"},
                  targets : Seq(Member), attempt : 0..3]

\* A request that is under way waits for one of at most three targets, each a
\* node of its own.
TargetsSound ==
    \A r \in Request : req[r].pc = "trying" =>
        /\ 1 <= req[r].attempt /\ req[r].attempt <= Len(req[r].targets)
        /\ Len(req[r].targets) <= 3
        /\ \A i, j \in DOMAIN req[r].targets :
              req[r].targets[i] = req[r].targets[j] => i = j

RoutingInv == RoutingTypeOK /\ TargetsSound /\ EveryRoutedRequestCounted

LEMMA TryingIsFinite ==
  ASSUME NEW S \in SUBSET Request
  PROVE  IsFiniteSet(S) /\ Cardinality(S) \in Nat
  BY RoutingAssumption, FS_Subset, FS_CardinalityType

LEMMA RoutingInitially == RoutingInit => RoutingInv
<1> SUFFICES ASSUME RoutingInit PROVE RoutingInv
  OBVIOUS
<1>1. \A r \in Request : req[r] = [pc |-> "new", targets |-> << >>, attempt |-> 0]
  BY DEF RoutingInit, NewRequest
<1>2. req \in [Request -> RequestRecord]
  BY DEF RoutingInit, NewRequest, RequestRecord
<1>3. RoutingTypeOK
  BY <1>1, <1>2, RoutingAssumption DEF RoutingInit, RoutingTypeOK, RequestRecord
<1>4. Cardinality({r \in Request : req[r].pc = "trying"}) = 0
  <2>1. {r \in Request : req[r].pc = "trying"} = {}
    BY <1>1
  <2> QED BY <2>1, FS_EmptySet
<1>5. EveryRoutedRequestCounted
  BY <1>4 DEF RoutingInit, EveryRoutedRequestCounted
<1> QED BY <1>1, <1>3, <1>5 DEF RoutingInv, TargetsSound

LEMMA RequestParts ==
  ASSUME RoutingInv, NEW r \in Request
  PROVE  /\ req \in [Request -> RequestRecord] /\ req[r] \in RequestRecord
         /\ req[r].targets \in Seq(Member) /\ req[r].attempt \in 0..3
         /\ req[r].attempt <= Len(req[r].targets) /\ Len(req[r].targets) \in Nat
         /\ req[r].pc = "trying" =>
               /\ 1 <= req[r].attempt /\ Len(req[r].targets) <= 3
               /\ Current(r) \in Member
<1>1. req \in [Request -> RequestRecord] /\ req[r] \in RequestRecord
      /\ req[r].attempt <= Len(req[r].targets)
  BY DEF RoutingInv, RoutingTypeOK, RequestRecord
<1>2. req[r].targets \in Seq(Member) /\ req[r].attempt \in 0..3
  BY <1>1 DEF RequestRecord
<1>3. Len(req[r].targets) \in Nat
  BY <1>2
<1>4. ASSUME req[r].pc = "trying"
      PROVE  /\ 1 <= req[r].attempt /\ Len(req[r].targets) <= 3
             /\ Current(r) \in Member
  <2>1. 1 <= req[r].attempt /\ Len(req[r].targets) <= 3
    BY <1>4 DEF RoutingInv, TargetsSound
  <2>2. req[r].attempt \in 1..Len(req[r].targets)
    BY <1>1, <1>2, <1>3, <2>1
  <2> QED BY <1>2, <2>1, <2>2 DEF Current
<1> QED BY <1>1, <1>2, <1>3, <1>4

\* What the health of a node becomes is the health of a node.
LEMMA HealthStaysTyped ==
  ASSUME RoutingInv, NEW n \in Member, NEW health \in {"healthy", "unhealthy"},
         NEW accepted \in BOOLEAN, UpdateHealth(n, health, accepted)
  PROVE  entry' \in [Member -> {"absent", "healthy", "unhealthy"}]
  BY DEF UpdateHealth, RoutingInv, RoutingTypeOK

\* Requests leave what the balancer knows alone or typed, and their number does
\* not change when none begins or ends.
LEMMA RequestsStay ==
  ASSUME RoutingInv, UNCHANGED <<routed, req, metrics>>,
         entry' \in [Member -> {"absent", "healthy", "unhealthy"}],
         failures' \in [Seed -> 0..SeedFailures + 1],
         executed' \subseteq Member \X Request
  PROVE  RoutingInv'
  BY DEF RoutingInv, RoutingTypeOK, TargetsSound, EveryRoutedRequestCounted

\* Sequences of a target and its backups.
LEMMA TargetsInOrder ==
  ASSUME RoutingInv, NEW target \in Healthy, NEW backups \in Backups(target)
  PROVE  LET targets == <<target>> \o backups
         IN  /\ targets \in Seq(Member) /\ 1 <= Len(targets) /\ Len(targets) <= 3
             /\ \A i, j \in DOMAIN targets : targets[i] = targets[j] => i = j
<1>1. PICK k \in 0..2 : backups \in [1..k -> Healthy \ {target}]
  BY DEF Backups, MaxBackups
<1>2. \A i, j \in DOMAIN backups : backups[i] = backups[j] => i = j
  BY DEF Backups
<1>3. backups \in Seq(Healthy \ {target}) /\ Len(backups) = k
  BY <1>1
<1>4. Healthy \subseteq Member
  BY DEF Healthy
<1>5. backups \in Seq(Member) /\ DOMAIN backups = 1..k
  BY <1>1, <1>3, <1>4
<1> DEFINE targets == <<target>> \o backups
<1>6. /\ targets \in Seq(Member) /\ Len(targets) = k + 1 /\ targets[1] = target
      /\ \A i \in 1..k : targets[i + 1] = backups[i]
  BY <1>3, <1>4, <1>5
<1>7. DOMAIN targets = 1..(k + 1)
  BY <1>6
<1>8. \A i \in 1..k : backups[i] # target
  BY <1>1
<1> HIDE DEF targets
<1>9. \A i \in DOMAIN targets : i = 1 \/ (i - 1 \in 1..k /\ targets[i] = backups[i - 1])
  <2> SUFFICES ASSUME NEW i \in DOMAIN targets, i # 1
               PROVE  i - 1 \in 1..k /\ targets[i] = backups[i - 1]
    OBVIOUS
  <2>1. i - 1 \in 1..k /\ (i - 1) + 1 = i
    BY <1>7
  <2> QED BY <1>6, <2>1
<1>10. \A i, j \in DOMAIN targets : targets[i] = targets[j] => i = j
  <2> SUFFICES ASSUME NEW i \in DOMAIN targets, NEW j \in DOMAIN targets,
                      targets[i] = targets[j]
               PROVE  i = j
    OBVIOUS
  <2>1. CASE i = 1
    BY <1>6, <1>8, <1>9, <2>1
  <2>2. CASE j = 1
    BY <1>6, <1>8, <1>9, <2>2
  <2>3. CASE i # 1 /\ j # 1
    <3>1. i - 1 = j - 1
      BY <1>2, <1>5, <1>9, <2>3
    <3> QED BY <1>7, <3>1
  <2> QED BY <2>1, <2>2, <2>3
<1> QED BY <1>6, <1>10 DEF targets

LEMMA RequestRouted ==
  ASSUME RoutingInv, NEW r \in Request, Route(r)
  PROVE  RoutingInv'
<1>1. /\ req[r].pc = "new" /\ UNCHANGED <<nodes, executed, metrics>>
      /\ req \in [Request -> RequestRecord]
  BY RequestParts DEF Route
<1>2. /\ routed \in Nat /\ metrics.success \in Nat /\ metrics.failed \in Nat
      /\ routed = metrics.success + metrics.failed + Cardinality(Trying)
      /\ Trying \in SUBSET Request
  BY DEF RoutingInv, RoutingTypeOK, EveryRoutedRequestCounted, Trying
<1>3. IsFiniteSet(Trying) /\ Cardinality(Trying) \in Nat
  BY <1>2, TryingIsFinite
<1>4. CASE req' = [req EXCEPT ![r].pc = "refused"] /\ routed' = routed
  <2>1. /\ req' \in [Request -> RequestRecord]
        /\ req'[r].targets = req[r].targets /\ req'[r].attempt = req[r].attempt
        /\ req'[r].pc = "refused"
        /\ \A s \in Request : s # r => req'[s] = req[s]
    BY <1>1, <1>4 DEF RequestRecord
  <2>2. Trying' = Trying
    BY <1>1, <2>1 DEF Trying
  <2>3. RoutingTypeOK'
    BY <1>1, <1>4, <2>1 DEF RoutingInv, RoutingTypeOK, RequestRecord, nodes
  <2>4. TargetsSound'
    BY <2>1 DEF RoutingInv, TargetsSound
  <2>5. EveryRoutedRequestCounted'
    BY <1>1, <1>2, <1>4, <2>2 DEF EveryRoutedRequestCounted, Trying
  <2> QED BY <2>3, <2>4, <2>5 DEF RoutingInv
<1>5. CASE ~ (req' = [req EXCEPT ![r].pc = "refused"] /\ routed' = routed)
  <2>1. PICK target \in Healthy : \E backups \in Backups(target) :
           /\ req' = [req EXCEPT ![r] = [pc |-> "trying", attempt |-> 1,
                                         targets |-> <<target>> \o backups]]
           /\ routed' = routed + 1
    BY <1>5 DEF Route
  <2>2. PICK backups \in Backups(target) :
           /\ req' = [req EXCEPT ![r] = [pc |-> "trying", attempt |-> 1,
                                         targets |-> <<target>> \o backups]]
           /\ routed' = routed + 1
    BY <2>1
  <2>3. PICK targets \in Seq(Member) :
           /\ targets = <<target>> \o backups
           /\ 1 <= Len(targets) /\ Len(targets) <= 3
           /\ \A i, j \in DOMAIN targets : targets[i] = targets[j] => i = j
    BY TargetsInOrder
  <2>4. [pc |-> "trying", attempt |-> 1, targets |-> targets] \in RequestRecord
    BY DEF RequestRecord
  <2>5. /\ req' \in [Request -> RequestRecord]
        /\ req'[r] = [pc |-> "trying", attempt |-> 1, targets |-> targets]
        /\ \A s \in Request : s # r => req'[s] = req[s]
    BY <1>1, <2>2, <2>3, <2>4
  <2>6. RoutingTypeOK'
    BY <1>1, <1>2, <2>2, <2>3, <2>5 DEF RoutingInv, RoutingTypeOK, RequestRecord, nodes
  <2>7. TargetsSound'
    <3>1. /\ req'[r].attempt = 1 /\ req'[r].targets = targets
      BY <2>5
    <3>2. /\ 1 <= Len(targets) /\ Len(targets) <= 3
          /\ \A i, j \in DOMAIN targets : targets[i] = targets[j] => i = j
      BY <2>3
    <3>3. ASSUME NEW s \in Request, req'[s].pc = "trying"
          PROVE  /\ 1 <= req'[s].attempt /\ req'[s].attempt <= Len(req'[s].targets)
                 /\ Len(req'[s].targets) <= 3
                 /\ \A i, j \in DOMAIN req'[s].targets :
                       req'[s].targets[i] = req'[s].targets[j] => i = j
      <4>1. CASE s = r
        BY <3>1, <3>2, <4>1
      <4>2. CASE s # r
        <5>1. req'[s] = req[s]
          BY <2>5, <4>2
        <5> QED BY <3>3, <5>1 DEF RoutingInv, TargetsSound
      <4> QED BY <4>1, <4>2
    <3> QED BY <3>3 DEF TargetsSound
  <2>8. Trying' = Trying \cup {r} /\ r \notin Trying
    BY <1>1, <2>5 DEF Trying
  <2>9. Cardinality(Trying') = Cardinality(Trying) + 1
    BY <1>3, <2>8, FS_AddElement
  <2>10. routed' = metrics'.success + metrics'.failed + Cardinality(Trying')
    <3>1. metrics'.success = metrics.success /\ metrics'.failed = metrics.failed
      BY <1>1
    <3>2. routed' = routed + 1
      BY <2>2
    <3> QED BY <1>2, <1>3, <2>9, <3>1, <3>2
  <2>11. EveryRoutedRequestCounted'
    BY <2>10 DEF EveryRoutedRequestCounted, Trying
  <2> QED BY <2>6, <2>7, <2>11 DEF RoutingInv
<1> QED BY <1>4, <1>5

\* The end of a request, with either outcome.
LEMMA RequestEnds ==
  ASSUME RoutingInv, NEW r \in Request, req[r].pc = "trying",
         NEW outcome \in {"ok", "failed"}, Ended(r, outcome),
         entry' \in [Member -> {"absent", "healthy", "unhealthy"}],
         UNCHANGED <<routed, failures>>
  PROVE  RoutingInv'
<1>1. /\ routed \in Nat /\ metrics.success \in Nat /\ metrics.failed \in Nat
      /\ metrics \in [success : Nat, failed : Nat]
      /\ routed = metrics.success + metrics.failed + Cardinality(Trying)
      /\ Trying \in SUBSET Request /\ r \in Trying
  BY DEF RoutingInv, RoutingTypeOK, EveryRoutedRequestCounted, Trying
<1>2. IsFiniteSet(Trying) /\ Cardinality(Trying) \in Nat
  BY <1>1, TryingIsFinite
<1> DEFINE over == [NewRequest EXCEPT !.pc = outcome]
<1>3. over \in RequestRecord /\ over.pc = outcome /\ over.targets = << >> /\ over.attempt = 0
  <2>1. over = [pc |-> outcome, targets |-> << >>, attempt |-> 0]
    BY DEF NewRequest
  <2>2. << >> \in Seq(Member)
    BY EmptySeq
  <2> HIDE DEF over
  <2> QED BY <2>1, <2>2 DEF RequestRecord
<1>4. req' = [req EXCEPT ![r] = over] /\ executed' \subseteq executed
  BY DEF Ended
<1> HIDE DEF over
<1>5. /\ req' \in [Request -> RequestRecord] /\ req'[r] = over
      /\ \A s \in Request : s # r => req'[s] = req[s]
  BY <1>3, <1>4, RequestParts
<1>6. /\ metrics' \in [success : Nat, failed : Nat]
      /\ metrics'.success + metrics'.failed = metrics.success + metrics.failed + 1
  <2>1. CASE outcome = "ok"
    <3>1. metrics' = [metrics EXCEPT !.success = metrics.success + 1]
      BY <2>1 DEF Ended
    <3>2. /\ metrics' \in [success : Nat, failed : Nat]
          /\ metrics'.success = metrics.success + 1 /\ metrics'.failed = metrics.failed
      BY <1>1, <3>1
    <3> QED BY <1>1, <3>2
  <2>2. CASE outcome # "ok"
    <3>1. metrics' = [metrics EXCEPT !.failed = metrics.failed + 1]
      BY <2>2 DEF Ended
    <3>2. /\ metrics' \in [success : Nat, failed : Nat]
          /\ metrics'.failed = metrics.failed + 1 /\ metrics'.success = metrics.success
      BY <1>1, <3>1
    <3> QED BY <1>1, <3>2
  <2> QED BY <2>1, <2>2
<1>7. RoutingTypeOK'
  BY <1>3, <1>4, <1>5, <1>6 DEF RoutingInv, RoutingTypeOK, RequestRecord
<1>8. TargetsSound'
  BY <1>3, <1>5 DEF RoutingInv, TargetsSound
<1>9. Trying' = Trying \ {r}
  BY <1>3, <1>5 DEF Trying
<1>10. Cardinality(Trying') = Cardinality(Trying) - 1
  BY <1>1, <1>2, <1>9, FS_RemoveElement
<1>11. metrics'.success \in Nat /\ metrics'.failed \in Nat
  BY <1>6
<1>12. routed' = metrics'.success + metrics'.failed + Cardinality(Trying')
  BY <1>1, <1>2, <1>6, <1>10, <1>11
<1>13. EveryRoutedRequestCounted'
  BY <1>12 DEF EveryRoutedRequestCounted, Trying
<1> QED BY <1>7, <1>8, <1>13 DEF RoutingInv

LEMMA RequestGoesOn ==
  ASSUME RoutingInv, NEW r \in Request, req[r].pc = "trying", TryNext(r),
         entry' \in [Member -> {"absent", "healthy", "unhealthy"}],
         UNCHANGED <<routed, failures>>
  PROVE  RoutingInv'
<1>1. CASE req[r].attempt < Len(req[r].targets) /\ req[r].attempt <= MaxRetries
  <2>1. req' = [req EXCEPT ![r].attempt = req[r].attempt + 1] /\ UNCHANGED <<metrics, executed>>
    BY <1>1 DEF TryNext
  <2>2. req[r].attempt + 1 \in 0..3 /\ 1 <= req[r].attempt + 1
        /\ req[r].attempt + 1 <= Len(req[r].targets)
    <3> DEFINE a == req[r].attempt
    <3>1. /\ a \in 0..3 /\ a < Len(req[r].targets)
          /\ Len(req[r].targets) \in Nat /\ Len(req[r].targets) <= 3
      BY <1>1, RequestParts
    <3> HIDE DEF a
    <3>2. a + 1 \in 0..3 /\ 1 <= a + 1 /\ a + 1 <= Len(req[r].targets)
      BY ONLY <3>1
    <3> QED BY ONLY <3>2 DEF a
  <2>3. /\ req' \in [Request -> RequestRecord]
        /\ req'[r].pc = req[r].pc /\ req'[r].targets = req[r].targets
        /\ req'[r].attempt = req[r].attempt + 1
        /\ \A s \in Request : s # r => req'[s] = req[s]
    BY <2>1, <2>2, RequestParts DEF RequestRecord
  <2>4. Trying' = Trying
    BY <2>3 DEF Trying
  <2>5. RoutingTypeOK'
    BY <2>1, <2>2, <2>3 DEF RoutingInv, RoutingTypeOK, RequestRecord
  <2>6. TargetsSound'
    BY <2>2, <2>3 DEF RoutingInv, TargetsSound
  <2>7. EveryRoutedRequestCounted'
    BY <2>1, <2>4 DEF RoutingInv, EveryRoutedRequestCounted, Trying
  <2> QED BY <2>5, <2>6, <2>7 DEF RoutingInv
<1>2. CASE ~ (req[r].attempt < Len(req[r].targets) /\ req[r].attempt <= MaxRetries)
  BY <1>2, RequestEnds DEF TryNext
<1> QED BY <1>1, <1>2

LEMMA RequestFinishes ==
  ASSUME RoutingInv, NEW r \in Request, Finish(r)
  PROVE  RoutingInv'
<1>1. req[r].pc = "trying" /\ Current(r) \in Member /\ UNCHANGED <<routed, failures>>
  BY RequestParts DEF Finish, Succeed, FailWithError, TimeOut
<1>2. entry' \in [Member -> {"absent", "healthy", "unhealthy"}]
  BY <1>1, HealthStaysTyped DEF Finish, Succeed, FailWithError, TimeOut
<1> QED BY <1>1, <1>2, RequestEnds, RequestGoesOn DEF Finish, Succeed, FailWithError, TimeOut

LEMMA NodesChange ==
  ASSUME RoutingInv,
         \/ \E n \in Member, r \in Request : Execute(n, r)
         \/ \E n \in Member : AddNode(n) \/ RemoveNode(n) \/ Sweep(n)
         \/ \E s \in Seed : ProbeSucceeds(s) \/ ProbeFails(s)
         \/ UNCHANGED routingVars
  PROVE  RoutingInv' /\ req' = req
<1>1. /\ entry \in [Member -> {"absent", "healthy", "unhealthy"}]
      /\ failures \in [Seed -> 0..SeedFailures + 1]
      /\ executed \subseteq Member \X Request /\ Seed \subseteq Member /\ SeedFailures \in Nat
  BY RoutingAssumption DEF RoutingInv, RoutingTypeOK
<1>2. ASSUME NEW n \in Member, NEW r \in Request, Execute(n, r) PROVE RoutingInv' /\ req' = req
  <2>1. UNCHANGED <<entry, failures, routed, req, metrics>> /\ executed' \subseteq Member \X Request
    BY <1>1, <1>2 DEF Execute, nodes
  <2> QED BY <1>1, <2>1, RequestsStay
<1>3. ASSUME NEW n \in Member, AddNode(n) \/ RemoveNode(n) \/ Sweep(n)
      PROVE  RoutingInv' /\ req' = req
  <2>1. /\ UNCHANGED <<failures, routed, req, executed, metrics>>
        /\ entry' \in [Member -> {"absent", "healthy", "unhealthy"}]
    BY <1>1, <1>3 DEF AddNode, AddEntry, RemoveNode, Sweep
  <2> QED BY <1>1, <2>1, RequestsStay
<1>4. ASSUME NEW s \in Seed, ProbeSucceeds(s) PROVE RoutingInv' /\ req' = req
  <2>1. /\ UNCHANGED <<routed, req, executed, metrics>>
        /\ entry' \in [Member -> {"absent", "healthy", "unhealthy"}]
        /\ failures' \in [Seed -> 0..SeedFailures + 1]
    BY <1>1, <1>4 DEF ProbeSucceeds, AddEntry
  <2> QED BY <1>1, <2>1, RequestsStay
<1>5. ASSUME NEW s \in Seed, ProbeFails(s) PROVE RoutingInv' /\ req' = req
  <2> DEFINE count == IF failures[s] > SeedFailures THEN failures[s] ELSE failures[s] + 1
  <2>1. count \in 0..SeedFailures + 1
    BY <1>1
  <2>2. /\ failures' = [failures EXCEPT ![s] = count]
        /\ entry' = entry \/ entry' = [entry EXCEPT ![s] = "absent"]
        /\ UNCHANGED <<routed, req, executed, metrics>>
    BY <1>5 DEF ProbeFails
  <2> HIDE DEF count
  <2>3. /\ entry' \in [Member -> {"absent", "healthy", "unhealthy"}]
        /\ failures' \in [Seed -> 0..SeedFailures + 1]
    BY <1>1, <2>1, <2>2
  <2> QED BY <1>1, <2>2, <2>3, RequestsStay
<1>6. ASSUME UNCHANGED routingVars PROVE RoutingInv' /\ req' = req
  <2>1. UNCHANGED <<entry, failures, routed, req, executed, metrics>>
    BY <1>6 DEF routingVars, nodes
  <2> QED BY <1>1, <2>1, RequestsStay
<1> QED BY <1>2, <1>3, <1>4, <1>5, <1>6

LEMMA RoutingStep == RoutingInv /\ [RoutingNext]_routingVars => RoutingInv'
  BY RequestRouted, RequestFinishes, NodesChange DEF RoutingNext

\* The router's counters agree with the outcomes of its requests, however they
\* end: request_router.rs:293-434.
THEOREM RequestsAlwaysAccountedFor == RoutingSpec => []RequestsAccountedFor
<1>1. RoutingInv => RequestsAccountedFor
  BY DEF RoutingInv, RequestsAccountedFor
<1> QED BY RoutingInitially, RoutingStep, <1>1, PTL DEF RoutingSpec

-----------------------------------------------------------------------------
(* What the outcome of a request does to its node.                         *)

\* The nodes a request was sent to are as many as its attempts.
LEMMA EveryAttemptTriesAnother ==
  ASSUME RoutingInv, NEW r \in Request, req[r].pc = "trying"
  PROVE  Cardinality(Tried(r)) = req[r].attempt
<1> DEFINE try == [i \in 1..req[r].attempt |-> req[r].targets[i]]
<1>1. /\ req[r].attempt \in Nat /\ req[r].attempt <= Len(req[r].targets)
      /\ req[r].targets \in Seq(Member) /\ Len(req[r].targets) \in Nat
  BY RequestParts
<1>2. 1..req[r].attempt \subseteq DOMAIN req[r].targets
  BY <1>1
<1>3. \A i, j \in DOMAIN req[r].targets :
         req[r].targets[i] = req[r].targets[j] => i = j
  BY DEF RoutingInv, TargetsSound
<1>4. try \in [1..req[r].attempt -> Tried(r)]
  BY DEF Tried
<1>5. \A i, j \in 1..req[r].attempt : try[i] = try[j] => i = j
  BY <1>2, <1>3
<1>6. \A n \in Tried(r) : \E i \in 1..req[r].attempt : try[i] = n
  BY DEF Tried
<1> HIDE DEF try
<1>7. try \in Bijection(1..req[r].attempt, Tried(r))
  BY <1>4, <1>5, <1>6 DEF Bijection, Injection, IsInjective, Surjection
<1>8. ExistsBijection(1..req[r].attempt, Tried(r))
  BY <1>7 DEF ExistsBijection
<1> QED BY <1>1, <1>8, FS_CountingElements

\* Of the requests, a step ends at most one, and what it leaves of that one.
LEMMA OneRequestEnds ==
  ASSUME RoutingInv, NEW r \in Request, Finish(r)
  PROVE  /\ req[r].pc = "trying"
         /\ \A s \in Request : s # r => req'[s] = req[s]
         /\ \A n \in Member : n # Current(r) => entry'[n] = entry[n]
         /\ \A n \in Member : entry[n] = "absent" => entry'[n] = "absent"
         /\ entry'[Current(r)] # entry[Current(r)] /\ entry'[Current(r)] = "healthy"
               => Succeed(r) /\ req'[r].pc = "ok"
         /\ req'[r].pc = "failed" =>
               \/ req[r].attempt >= Len(req[r].targets)
               \/ req[r].attempt > MaxRetries
<1>1. /\ req[r].pc = "trying" /\ Current(r) \in Member
      /\ req \in [Request -> RequestRecord] /\ req[r].attempt \in Nat
      /\ Len(req[r].targets) \in Nat /\ MaxRetries \in Nat
      /\ entry \in [Member -> {"absent", "healthy", "unhealthy"}]
  <2>1. req[r].pc = "trying"
    BY DEF Finish, Succeed, FailWithError, TimeOut
  <2>2. /\ entry \in [Member -> {"absent", "healthy", "unhealthy"}]
        /\ MaxRetries \in Nat
    BY RoutingAssumption DEF RoutingInv, RoutingTypeOK
  <2>3. /\ Current(r) \in Member /\ req \in [Request -> RequestRecord]
        /\ req[r].attempt \in 0..3 /\ Len(req[r].targets) \in Nat
    BY <2>1, RequestParts
  <2> QED BY <2>1, <2>2, <2>3
<1>2. CASE Succeed(r)
  <2>1. /\ req' = [req EXCEPT ![r] = [NewRequest EXCEPT !.pc = "ok"]]
        /\ \E accepted \in BOOLEAN : UpdateHealth(Current(r), "healthy", accepted)
    BY <1>2 DEF Succeed, Ended
  <2>2. [NewRequest EXCEPT !.pc = "ok"].pc = "ok"
    BY DEF NewRequest
  <2>3. req'[r].pc = "ok" /\ \A s \in Request : s # r => req'[s] = req[s]
    BY <1>1, <2>1, <2>2
  <2>4. /\ \A n \in Member : n # Current(r) => entry'[n] = entry[n]
        /\ \A n \in Member : entry[n] = "absent" => entry'[n] = "absent"
    BY <1>1, <2>1 DEF UpdateHealth
  <2> QED BY <1>1, <1>2, <2>3, <2>4
<1>3. CASE FailWithError(r) \/ TimeOut(r)
  <2>1. TryNext(r) /\ \E accepted \in BOOLEAN : UpdateHealth(Current(r), "unhealthy", accepted)
    BY <1>3 DEF FailWithError, TimeOut
  <2>2. /\ \A n \in Member : n # Current(r) => entry'[n] = entry[n]
        /\ \A n \in Member : entry[n] = "absent" => entry'[n] = "absent"
        /\ entry'[Current(r)] = entry[Current(r)] \/ entry'[Current(r)] = "unhealthy"
    BY <1>1, <2>1 DEF UpdateHealth
  <2>3. CASE req[r].attempt < Len(req[r].targets) /\ req[r].attempt <= MaxRetries
    <3>1. req' = [req EXCEPT ![r].attempt = req[r].attempt + 1]
      BY <2>1, <2>3 DEF TryNext
    <3>2. req'[r].pc = req[r].pc /\ \A s \in Request : s # r => req'[s] = req[s]
      BY <1>1, <3>1 DEF RequestRecord
    <3> QED BY <1>1, <2>2, <3>2
  <2>4. CASE ~ (req[r].attempt < Len(req[r].targets) /\ req[r].attempt <= MaxRetries)
    <3>1. req' = [req EXCEPT ![r] = [NewRequest EXCEPT !.pc = "failed"]]
      BY <2>1, <2>4 DEF TryNext, Ended
    <3>2. \A s \in Request : s # r => req'[s] = req[s]
      BY <1>1, <3>1
    <3> QED BY <1>1, <2>2, <2>4, <3>2
  <2> QED BY <2>3, <2>4
<1> QED BY <1>2, <1>3 DEF Finish

LEMMA OutcomeSteps ==
  ASSUME RoutingInv, [RoutingNext]_routingVars
  PROVE  /\ \A n \in Member :
               entry[n] = "unhealthy" /\ entry'[n] = "healthy" =>
                  \E r \in Request : /\ req[r].pc = "trying" /\ Current(r) = n
                                     /\ req'[r].pc = "ok"
         /\ \A n \in Member : entry[n] = "absent" /\ entry'[n] # "absent" => req' = req
         /\ \A r \in Request :
               req[r].pc = "trying" /\ req'[r].pc = "failed" =>
                  \/ Cardinality(Tried(r)) = Len(req[r].targets)
                  \/ Cardinality(Tried(r)) > MaxRetries
<1>1. CASE \E r \in Request : Route(r)
  <2>1. PICK r \in Request : Route(r)
    BY <1>1
  <2>2. /\ req[r].pc = "new" /\ UNCHANGED entry
        /\ \A s \in Request : s # r => req'[s] = req[s]
    BY <2>1, RequestParts DEF Route, nodes
  <2> QED BY <2>2
<1>2. CASE \E r \in Request : Finish(r)
  <2>1. PICK r \in Request : Finish(r)
    BY <1>2
  <2>2. /\ req[r].pc = "trying"
        /\ \A s \in Request : s # r => req'[s] = req[s]
        /\ \A n \in Member : n # Current(r) => entry'[n] = entry[n]
        /\ \A n \in Member : entry[n] = "absent" => entry'[n] = "absent"
        /\ entry'[Current(r)] # entry[Current(r)] /\ entry'[Current(r)] = "healthy"
              => Succeed(r) /\ req'[r].pc = "ok"
        /\ req'[r].pc = "failed" =>
              \/ req[r].attempt >= Len(req[r].targets)
              \/ req[r].attempt > MaxRetries
    BY <2>1, OneRequestEnds
  <2>3. /\ Cardinality(Tried(r)) = req[r].attempt
        /\ req[r].attempt <= Len(req[r].targets)
        /\ req[r].attempt \in Nat /\ Len(req[r].targets) \in Nat
    BY <2>2, EveryAttemptTriesAnother, RequestParts
  <2>4. ASSUME NEW n \in Member, entry[n] = "unhealthy", entry'[n] = "healthy"
        PROVE  req[r].pc = "trying" /\ Current(r) = n /\ req'[r].pc = "ok"
    BY <2>2, <2>4
  <2>5. ASSUME NEW s \in Request, req[s].pc = "trying", req'[s].pc = "failed"
        PROVE  \/ Cardinality(Tried(s)) = Len(req[s].targets)
               \/ Cardinality(Tried(s)) > MaxRetries
    <3>1. s = r
      BY <2>2, <2>5
    <3> QED BY <2>2, <2>3, <2>5, <3>1
  <2> QED BY <2>2, <2>4, <2>5
<1>3. CASE \/ \E n \in Member, r \in Request : Execute(n, r)
           \/ \E n \in Member : AddNode(n) \/ RemoveNode(n) \/ Sweep(n)
           \/ \E s \in Seed : ProbeSucceeds(s) \/ ProbeFails(s)
           \/ UNCHANGED routingVars
  <2>1. req' = req
    BY <1>3, NodesChange
  <2>2. entry \in [Member -> {"absent", "healthy", "unhealthy"}] /\ Seed \subseteq Member
    BY RoutingAssumption DEF RoutingInv, RoutingTypeOK
  <2>3. \A n \in Member : ~ (entry[n] = "unhealthy" /\ entry'[n] = "healthy")
    <3>1. ASSUME NEW n \in Member, NEW r \in Request, Execute(n, r)
          PROVE  entry' = entry
      BY <3>1 DEF Execute, nodes
    <3>2. ASSUME NEW n \in Member, AddNode(n) \/ RemoveNode(n) \/ Sweep(n)
          PROVE  \A m \in Member : ~ (entry[m] = "unhealthy" /\ entry'[m] = "healthy")
      BY <2>2, <3>2 DEF AddNode, AddEntry, RemoveNode, Sweep
    <3>3. ASSUME NEW s \in Seed, ProbeSucceeds(s) \/ ProbeFails(s)
          PROVE  \A m \in Member : ~ (entry[m] = "unhealthy" /\ entry'[m] = "healthy")
      <4>1. \/ entry' = entry
            \/ entry[s] = "absent" /\ entry' = [entry EXCEPT ![s] = "healthy"]
            \/ entry' = [entry EXCEPT ![s] = "absent"]
        BY <3>3 DEF ProbeSucceeds, ProbeFails, AddEntry
      <4> QED BY <2>2, <4>1
    <3>4. UNCHANGED routingVars => entry' = entry
      BY DEF routingVars, nodes
    <3> QED BY <1>3, <3>1, <3>2, <3>3, <3>4
  <2> QED BY <2>1, <2>3
<1> QED BY <1>1, <1>2, <1>3 DEF RoutingNext

\* The outcome of a request does to its node what it should: only an answer that
\* was still waited for revives a node, none brings a removed one back, and a
\* request fails only when its targets or its retries are used up:
\* request_router.rs:439-483.
THEOREM OutcomesAreAlwaysRight == RoutingSpec => OutcomesAreRight
<1>1. RoutingInv /\ [RoutingNext]_routingVars =>
         [\A n \in Member :
             entry[n] = "unhealthy" /\ entry'[n] = "healthy" =>
                \E r \in Request : /\ req[r].pc = "trying" /\ Current(r) = n
                                   /\ req'[r].pc = "ok"]_routingVars
  BY OutcomeSteps
<1>2. RoutingInv /\ [RoutingNext]_routingVars =>
         [\A n \in Member :
             entry[n] = "absent" /\ entry'[n] # "absent" => req' = req]_routingVars
  BY OutcomeSteps
<1>3. RoutingInv /\ [RoutingNext]_routingVars =>
         [\A r \in Request :
             req[r].pc = "trying" /\ req'[r].pc = "failed" =>
                \/ Cardinality(Tried(r)) = Len(req[r].targets)
                \/ Cardinality(Tried(r)) > MaxRetries]_routingVars
  BY OutcomeSteps
<1> QED
  BY RoutingInitially, RoutingStep, <1>1, <1>2, <1>3, PTL
  DEF RoutingSpec, OutcomesAreRight, RevivalNeedsAWaitingRequest,
      LateOutcomeNeverReinserts, FailureMeansExhausted

-----------------------------------------------------------------------------
(* The delivery of requests (module RequestDelivery)                       *)

\* What a caller may be doing.
CallRecord == [pc : {"idle", "routing", "sending", "waiting"}, kind : {"search", "insert"},
               id : Id \cup {NoEntry}, targets : TargetLists, position : Nat,
               attempt : Nat, since : Nat, answer : Nat \cup {NoEntry}]

\* A call that has sent nothing yet has nothing outstanding.  One under way is at
\* most a timeout old; what it sent went to the targets up to its position, as
\* often as the client tries; and an answer it has is no older than the attempt.
CallSound(k, out, t) ==
    /\ k \in CallRecord
    /\ k.pc \in {"idle", "routing"} => out = {}
    /\ k.pc \in {"sending", "waiting"} =>
          /\ k.since <= t /\ t - k.since <= Timeout
          /\ 1 <= k.position /\ k.position <= TargetRetries + 1
          /\ k.attempt <= RetryAttempts
          /\ k.pc = "sending" => k.attempt < RetryAttempts
          /\ \A m \in out : \E p \in 1..k.position, a \in 1..RetryAttempts :
                m = <<k.targets[p], a>>
          /\ k.answer # NoEntry => k.since <= k.answer

\* What is cached was at most a timeout old when it was cached.
CacheSound(cache) ==
    \A i \in Id : cache[i] # NoEntry =>
        /\ cache[i] \in [data : Nat, cached_at : Nat]
        /\ cache[i].cached_at - cache[i].data <= Timeout

DeliveryInv ==
    /\ now \in Nat
    /\ cache_metrics \in [hits : Nat, misses : Nat]
    /\ DOMAIN search_cache = Id /\ CacheSound(search_cache)
    /\ call \in [Caller -> CallRecord] /\ sent = [c \in Caller |-> sent[c]]
    /\ \A c \in Caller : CallSound(call[c], sent[c], now)

LEMMA NoRequestIsSound ==
  ASSUME NEW answer \in Nat \cup {NoEntry}, NEW t
  PROVE  CallSound([NoRequest EXCEPT !.answer = answer], {}, t)
<1>1. [NoRequest EXCEPT !.answer = answer] =
         [pc |-> "idle", kind |-> "search", id |-> NoEntry, targets |-> << >>,
          position |-> 0, attempt |-> 0, since |-> 0, answer |-> answer]
  BY DEF NoRequest
<1>2. << >> \in TargetLists
  BY DEF TargetLists
<1> QED BY <1>1, <1>2 DEF CallSound, CallRecord

\* The calls that begin.
LEMMA NewRequests ==
  /\ \A i, data : [NoRequest EXCEPT !.id = i, !.answer = data] =
        [pc |-> "idle", kind |-> "search", id |-> i, targets |-> << >>,
         position |-> 0, attempt |-> 0, since |-> 0, answer |-> data]
  /\ \A i : [NoRequest EXCEPT !.pc = "routing", !.id = i] =
        [pc |-> "routing", kind |-> "search", id |-> i, targets |-> << >>,
         position |-> 0, attempt |-> 0, since |-> 0, answer |-> NoEntry]
  /\ [NoRequest EXCEPT !.pc = "routing", !.kind = "insert"] =
        [pc |-> "routing", kind |-> "insert", id |-> NoEntry, targets |-> << >>,
         position |-> 0, attempt |-> 0, since |-> 0, answer |-> NoEntry]
<1>1. ASSUME NEW i, NEW data
      PROVE  [NoRequest EXCEPT !.id = i, !.answer = data] =
                [pc |-> "idle", kind |-> "search", id |-> i, targets |-> << >>,
                 position |-> 0, attempt |-> 0, since |-> 0, answer |-> data]
  <2> DEFINE k == [NoRequest EXCEPT !.id = i]
  <2>1. k = [pc |-> "idle", kind |-> "search", id |-> i, targets |-> << >>,
             position |-> 0, attempt |-> 0, since |-> 0, answer |-> NoEntry]
    BY DEF NoRequest
  <2>2. [NoRequest EXCEPT !.id = i, !.answer = data] = [k EXCEPT !.answer = data]
    OBVIOUS
  <2> HIDE DEF k
  <2> QED BY <2>1, <2>2
<1> DEFINE k == [NoRequest EXCEPT !.pc = "routing"]
<1>2. k = [pc |-> "routing", kind |-> "search", id |-> NoEntry, targets |-> << >>,
           position |-> 0, attempt |-> 0, since |-> 0, answer |-> NoEntry]
  BY DEF NoRequest
<1>3. \A i : [NoRequest EXCEPT !.pc = "routing", !.id = i] = [k EXCEPT !.id = i]
  OBVIOUS
<1>4. [NoRequest EXCEPT !.pc = "routing", !.kind = "insert"] = [k EXCEPT !.kind = "insert"]
  OBVIOUS
<1> HIDE DEF k
<1>5. \A i : [k EXCEPT !.id = i] =
         [pc |-> "routing", kind |-> "search", id |-> i, targets |-> << >>,
          position |-> 0, attempt |-> 0, since |-> 0, answer |-> NoEntry]
  BY <1>2
<1>6. [k EXCEPT !.kind = "insert"] =
         [pc |-> "routing", kind |-> "insert", id |-> NoEntry, targets |-> << >>,
          position |-> 0, attempt |-> 0, since |-> 0, answer |-> NoEntry]
  BY <1>2
<1> QED BY <1>1, <1>3, <1>4, <1>5, <1>6

LEMMA DeliveryInitially == DeliveryInit => DeliveryInv
<1> SUFFICES ASSUME DeliveryInit PROVE DeliveryInv
  OBVIOUS
<1>1. NoRequest = [NoRequest EXCEPT !.answer = NoEntry]
  BY DEF NoRequest
<1>2. CallSound(NoRequest, {}, now)
  BY <1>1, NoRequestIsSound
<1>3. cache_metrics \in [hits : Nat, misses : Nat] /\ now \in Nat
  BY DEF DeliveryInit
<1>4. call \in [Caller -> CallRecord] /\ sent = [c \in Caller |-> sent[c]]
  BY <1>2 DEF DeliveryInit, CallSound
<1> QED BY <1>2, <1>3, <1>4 DEF DeliveryInit, DeliveryInv, CacheSound

\* One call goes on; the clock and the other calls stand still.
LEMMA OneCallMoves ==
  ASSUME DeliveryInv, NEW c \in Caller, NEW k, NEW out,
         call' = [call EXCEPT ![c] = k], sent' = [sent EXCEPT ![c] = out],
         CallSound(k, out, now), now' = now,
         cache_metrics' \in [hits : Nat, misses : Nat],
         DOMAIN search_cache' = Id, CacheSound(search_cache')
  PROVE  DeliveryInv' /\ call'[c] = k /\ \A d \in Caller \ {c} : call'[d] = call[d]
<1>1. /\ call' \in [Caller -> CallRecord] /\ sent' = [d \in Caller |-> sent'[d]]
      /\ call'[c] = k /\ sent'[c] = out
      /\ \A d \in Caller \ {c} : call'[d] = call[d] /\ sent'[d] = sent[d]
  BY DEF DeliveryInv, CallSound
<1>2. \A d \in Caller : CallSound(call'[d], sent'[d], now')
  BY <1>1 DEF DeliveryInv
<1>3. CacheSound(search_cache)'
  BY DEF CacheSound
<1>4. (\A d \in Caller : CallSound(call[d], sent[d], now))'
  BY <1>2 DEF CallSound
<1> QED BY <1>1, <1>3, <1>4 DEF DeliveryInv

\* What a call of the invariant is.
LEMMA CallParts ==
  ASSUME DeliveryInv, NEW c \in Caller
  PROVE  /\ call[c] \in CallRecord /\ CallSound(call[c], sent[c], now)
         /\ call[c].targets \in TargetLists /\ call[c].position \in Nat
         /\ call[c].attempt \in Nat /\ call[c].since \in Nat
         /\ call[c].answer \in Nat \cup {NoEntry}
         /\ now \in Nat /\ cache_metrics \in [hits : Nat, misses : Nat]
         /\ RetryAttempts \in Nat \ {0} /\ TargetRetries \in Nat
         /\ Timeout \in Nat \ {0} /\ Ttl \in Nat
<1>1. call[c] \in CallRecord /\ CallSound(call[c], sent[c], now)
  BY DEF DeliveryInv, CallSound
<1>2. /\ call[c].targets \in TargetLists /\ call[c].position \in Nat
      /\ call[c].attempt \in Nat /\ call[c].since \in Nat
      /\ call[c].answer \in Nat \cup {NoEntry}
  BY <1>1 DEF CallRecord
<1> QED BY <1>1, <1>2, DeliveryAssumption DEF DeliveryInv

LEMMA CallEnds ==
  ASSUME DeliveryInv, NEW c \in Caller, NEW answer \in Nat \cup {NoEntry},
         Over(c, answer), UNCHANGED <<now, cache_metrics>>,
         DOMAIN search_cache' = Id, CacheSound(search_cache')
  PROVE  DeliveryInv' /\ \A d \in Caller \ {c} : call'[d] = call[d]
<1> DEFINE k == [NoRequest EXCEPT !.answer = answer]
<1>1. CallSound(k, {}, now)
  BY NoRequestIsSound
<1>2. call' = [call EXCEPT ![c] = k] /\ sent' = [sent EXCEPT ![c] = {}]
  BY DEF Over
<1>3. cache_metrics' \in [hits : Nat, misses : Nat]
  BY DEF DeliveryInv
<1> HIDE DEF k
<1> QED BY <1>1, <1>2, <1>3, OneCallMoves

LEMMA AttemptBegins ==
  ASSUME DeliveryInv, NEW c \in Caller, NEW targets \in TargetLists,
         NEW position \in Nat \ {0}, position <= TargetRetries + 1,
         \A m \in sent[c] : \E p \in 1..position, a \in 1..RetryAttempts :
            m = <<targets[p], a>>,
         AttemptOn(c, targets, position), UNCHANGED <<now, search_cache, cache_metrics>>
  PROVE  DeliveryInv'
<1> DEFINE k == [pc |-> "sending", kind |-> call[c].kind, id |-> call[c].id,
                 targets |-> targets, position |-> position, attempt |-> 0,
                 since |-> now, answer |-> NoEntry]
<1>1. call[c] \in CallRecord /\ now \in Nat /\ RetryAttempts \in Nat \ {0} /\ Timeout \in Nat
  BY CallParts
<1>2. k \in CallRecord
  BY <1>1 DEF CallRecord
<1>3. CallSound(k, sent[c], now)
  BY <1>1, <1>2 DEF CallSound
<1>4. call' = [call EXCEPT ![c] = k]
  BY DEF AttemptOn
<1>5. sent' = [sent EXCEPT ![c] = sent[c]] /\ now' = now
  BY DEF AttemptOn, DeliveryInv
<1>6. /\ cache_metrics' \in [hits : Nat, misses : Nat]
      /\ DOMAIN search_cache' = Id /\ CacheSound(search_cache')
  BY DEF DeliveryInv
<1> HIDE DEF k
<1> QED BY <1>3, <1>4, <1>5, <1>6, OneCallMoves

LEMMA GoesToNextTarget ==
  ASSUME DeliveryInv, NEW c \in Caller, call[c].pc \in {"sending", "waiting"},
         NextTarget(c), UNCHANGED <<now, search_cache, cache_metrics>>
  PROVE  DeliveryInv'
<1>1. CASE call[c].position < Len(call[c].targets) /\ call[c].position <= TargetRetries
  <2>1. AttemptOn(c, call[c].targets, call[c].position + 1)
    BY <1>1 DEF NextTarget
  <2>2. /\ call[c].targets \in TargetLists /\ call[c].position + 1 \in Nat \ {0}
        /\ call[c].position + 1 <= TargetRetries + 1
    BY <1>1, CallParts
  <2>3. \A m \in sent[c] : \E p \in 1..call[c].position, a \in 1..RetryAttempts :
           m = <<call[c].targets[p], a>>
    BY CallParts DEF CallSound
  <2>4. \A p \in 1..call[c].position : p \in 1..(call[c].position + 1)
    BY CallParts
  <2>5. \A m \in sent[c] : \E p \in 1..(call[c].position + 1), a \in 1..RetryAttempts :
           m = <<call[c].targets[p], a>>
    BY <2>3, <2>4
  <2> QED BY <2>1, <2>2, <2>5, AttemptBegins
<1>2. CASE ~ (call[c].position < Len(call[c].targets) /\ call[c].position <= TargetRetries)
  <2>1. Over(c, NoEntry)
    BY <1>2 DEF NextTarget
  <2>2. DOMAIN search_cache' = Id /\ CacheSound(search_cache')
    BY DEF DeliveryInv
  <2> QED BY <2>1, <2>2, CallEnds
<1> QED BY <1>1, <1>2

LEMMA SearchBegins ==
  ASSUME DeliveryInv, NEW c \in Caller, NEW i \in Id, BeginSearch(c, i)
  PROVE  /\ DeliveryInv' /\ \A d \in Caller \ {c} : call'[d] = call[d]
         /\ cache_metrics'.hits # cache_metrics.hits =>
               now - call'[c].answer < Ttl + Timeout
<1>1. /\ call[c].pc = "idle" /\ UNCHANGED <<now, search_cache, sent>>
      /\ sent[c] = {} /\ sent' = [sent EXCEPT ![c] = {}]
      /\ now \in Nat /\ cache_metrics \in [hits : Nat, misses : Nat]
      /\ Ttl \in Nat /\ Timeout \in Nat
  <2>1. call[c].pc = "idle" /\ UNCHANGED <<now, search_cache, sent>>
    BY DEF BeginSearch
  <2>2. sent[c] = {} /\ sent = [d \in Caller |-> sent[d]]
    BY <2>1, CallParts DEF CallSound, DeliveryInv
  <2>3. sent' = [sent EXCEPT ![c] = {}]
    BY <2>1, <2>2 DEF DeliveryInv
  <2> QED BY <2>1, <2>2, <2>3, CallParts
<1>2. DOMAIN search_cache' = Id /\ CacheSound(search_cache')
  BY <1>1 DEF DeliveryInv
<1>3. << >> \in TargetLists
  BY DEF TargetLists
<1>4. CASE CacheEnabled /\ Found(i)
  <2> DEFINE data == search_cache[i].data
             k == [NoRequest EXCEPT !.id = i, !.answer = data]
  <2>1. /\ search_cache[i] \in [data : Nat, cached_at : Nat]
        /\ search_cache[i].cached_at - data <= Timeout
        /\ now - search_cache[i].cached_at < Ttl
    BY <1>1, <1>4 DEF Found, Expired, DeliveryInv, CacheSound
  <2>2. data \in Nat /\ now - data < Ttl + Timeout
    BY <1>1, <2>1
  <2> HIDE DEF data
  <2>3. k = [pc |-> "idle", kind |-> "search", id |-> i, targets |-> << >>,
             position |-> 0, attempt |-> 0, since |-> 0, answer |-> data]
    BY NewRequests
  <2> HIDE DEF k
  <2>4. CallSound(k, {}, now) /\ k.answer = data
    BY <1>3, <2>2, <2>3 DEF CallSound, CallRecord
  <2> USE DEF k
  <2>5. /\ call' = [call EXCEPT ![c] = k]
        /\ cache_metrics' \in [hits : Nat, misses : Nat]
    BY <1>1, <1>4 DEF BeginSearch, data
  <2> HIDE DEF k
  <2>6. DeliveryInv' /\ call'[c] = k /\ \A d \in Caller \ {c} : call'[d] = call[d]
    BY <1>1, <1>2, <2>4, <2>5, OneCallMoves
  <2>7. call'[c].answer = data
    BY <2>4, <2>6
  <2> QED BY <2>2, <2>6, <2>7
<1>5. CASE ~ (CacheEnabled /\ Found(i))
  <2> DEFINE k == [NoRequest EXCEPT !.pc = "routing", !.id = i]
  <2>1. k = [pc |-> "routing", kind |-> "search", id |-> i, targets |-> << >>,
             position |-> 0, attempt |-> 0, since |-> 0, answer |-> NoEntry]
    BY NewRequests
  <2> HIDE DEF k
  <2>2. CallSound(k, {}, now)
    BY <1>3, <2>1 DEF CallSound, CallRecord
  <2> USE DEF k
  <2>3. /\ call' = [call EXCEPT ![c] = k]
        /\ cache_metrics' \in [hits : Nat, misses : Nat]
        /\ cache_metrics'.hits = cache_metrics.hits
    BY <1>1, <1>5 DEF BeginSearch
  <2> HIDE DEF k
  <2> QED BY <1>1, <1>2, <2>2, <2>3, OneCallMoves
<1> QED BY <1>4, <1>5

LEMMA InsertBegins ==
  ASSUME DeliveryInv, NEW c \in Caller, BeginInsert(c)
  PROVE  DeliveryInv'
<1> DEFINE k == [NoRequest EXCEPT !.pc = "routing", !.kind = "insert"]
<1>1. k = [pc |-> "routing", kind |-> "insert", id |-> NoEntry, targets |-> << >>,
           position |-> 0, attempt |-> 0, since |-> 0, answer |-> NoEntry]
  BY NewRequests
<1>2. << >> \in TargetLists
  BY DEF TargetLists
<1> HIDE DEF k
<1>3. CallSound(k, {}, now)
  BY <1>1, <1>2 DEF CallSound, CallRecord
<1> USE DEF k
<1>4. call[c].pc = "idle" /\ UNCHANGED <<now, search_cache, cache_metrics, sent>>
      /\ call' = [call EXCEPT ![c] = k]
  BY DEF BeginInsert
<1>5. sent[c] = {} /\ sent = [d \in Caller |-> sent[d]]
  BY <1>4, CallParts DEF CallSound, DeliveryInv
<1>6. sent' = [sent EXCEPT ![c] = {}]
  BY <1>4, <1>5 DEF DeliveryInv
<1>7. /\ cache_metrics' \in [hits : Nat, misses : Nat]
      /\ DOMAIN search_cache' = Id /\ CacheSound(search_cache')
  BY <1>4 DEF DeliveryInv
<1> HIDE DEF k
<1> QED BY <1>3, <1>4, <1>6, <1>7, OneCallMoves

LEMMA CallRouted ==
  ASSUME DeliveryInv, NEW c \in Caller, NEW targets \in TargetLists, RouteTo(c, targets)
  PROVE  DeliveryInv'
<1>1. call[c].pc = "routing" /\ UNCHANGED <<now, search_cache, cache_metrics>>
  BY DEF RouteTo
<1>2. CASE targets = << >>
  <2>1. Over(c, NoEntry)
    BY <1>2 DEF RouteTo
  <2>2. DOMAIN search_cache' = Id /\ CacheSound(search_cache')
    BY <1>1 DEF DeliveryInv
  <2> QED BY <1>1, <2>1, <2>2, CallEnds
<1>3. CASE targets # << >>
  <2>1. AttemptOn(c, targets, 1)
    BY <1>3 DEF RouteTo
  <2>2. sent[c] = {} /\ 1 \in Nat \ {0} /\ 1 <= TargetRetries + 1
    BY <1>1, CallParts DEF CallSound
  <2> QED BY <1>1, <2>1, <2>2, AttemptBegins
<1> QED BY <1>2, <1>3

LEMMA CallSends ==
  ASSUME DeliveryInv, NEW c \in Caller, Send(c)
  PROVE  DeliveryInv'
<1>1. call[c].pc = "sending" /\ UNCHANGED <<now, search_cache, cache_metrics>>
  BY DEF Send
<1> DEFINE tried == call[c].attempt + 1
           out == sent[c] \cup {<<Target(c), tried>>}
           k == [call[c] EXCEPT !.pc = "waiting", !.attempt = tried, !.answer = NoEntry]
<1>2. /\ call[c] \in CallRecord /\ tried \in 1..RetryAttempts
      /\ call[c].position \in Nat /\ call[c].since <= now /\ now - call[c].since <= Timeout
      /\ 1 <= call[c].position /\ call[c].position <= TargetRetries + 1
      /\ \A m \in sent[c] : \E p \in 1..call[c].position, a \in 1..RetryAttempts :
            m = <<call[c].targets[p], a>>
  BY <1>1, CallParts DEF CallSound
<1> HIDE DEF tried
<1>3. /\ k \in CallRecord /\ k.pc = "waiting" /\ k.attempt = tried /\ k.answer = NoEntry
      /\ k.position = call[c].position /\ k.targets = call[c].targets
      /\ k.since = call[c].since
  <2> DEFINE k1 == [call[c] EXCEPT !.pc = "waiting"]
             k2 == [k1 EXCEPT !.attempt = tried]
  <2>1. k = [k2 EXCEPT !.answer = NoEntry]
    OBVIOUS
  <2>2. /\ k1 \in CallRecord /\ k1.pc = "waiting"
        /\ k1.position = call[c].position /\ k1.targets = call[c].targets
        /\ k1.since = call[c].since
    BY <1>2 DEF CallRecord
  <2> HIDE DEF k1, k
  <2>3. tried \in Nat
    BY <1>2, CallParts
  <2>4. /\ k2 \in CallRecord /\ k2.pc = "waiting" /\ k2.attempt = tried
        /\ k2.position = call[c].position /\ k2.targets = call[c].targets
        /\ k2.since = call[c].since
    BY <2>2, <2>3 DEF CallRecord
  <2> HIDE DEF k2
  <2>5. k \in CallRecord /\ k.answer = NoEntry
    BY <2>1, <2>4 DEF CallRecord
  <2>6. /\ k.pc = k2.pc /\ k.attempt = k2.attempt /\ k.position = k2.position
        /\ k.targets = k2.targets /\ k.since = k2.since
    BY <2>1, <2>4 DEF CallRecord
  <2> QED BY <2>4, <2>5, <2>6
<1>4. call[c].position \in 1..call[c].position
  BY <1>1, CallParts DEF CallSound
<1>5. \A m \in out : \E p \in 1..call[c].position, a \in 1..RetryAttempts :
         m = <<call[c].targets[p], a>>
  BY <1>2, <1>4 DEF Target
<1>6. CallSound(k, out, now)
  BY <1>2, <1>3, <1>5 DEF CallSound
<1>7. call' = [call EXCEPT ![c] = k] /\ sent' = [sent EXCEPT ![c] = out]
  BY DEF Send, DeliveryInv, tried
<1>8. /\ cache_metrics' \in [hits : Nat, misses : Nat]
      /\ DOMAIN search_cache' = Id /\ CacheSound(search_cache')
  BY <1>1 DEF DeliveryInv
<1> HIDE DEF k, out
<1> QED BY <1>1, <1>6, <1>7, <1>8, OneCallMoves

LEMMA CallExecuted ==
  ASSUME DeliveryInv, NEW c \in Caller, ExecuteSent(c)
  PROVE  DeliveryInv'
<1>1. /\ call[c].pc = "waiting" /\ UNCHANGED <<now, search_cache, cache_metrics, sent>>
      /\ call' = [call EXCEPT ![c].answer = now]
  BY DEF ExecuteSent
<1> DEFINE k == [call[c] EXCEPT !.answer = now]
<1>2. /\ call[c] \in CallRecord /\ CallSound(call[c], sent[c], now) /\ now \in Nat
  BY CallParts
<1>3. /\ k \in CallRecord /\ k.pc = "waiting" /\ k.attempt = call[c].attempt
      /\ k.position = call[c].position /\ k.targets = call[c].targets
      /\ k.since = call[c].since /\ k.answer = now
  BY <1>1, <1>2 DEF CallRecord
<1> HIDE DEF k
<1>4. CallSound(k, sent[c], now)
  BY <1>1, <1>2, <1>3 DEF CallSound
<1> USE DEF k
<1>5. call' = [call EXCEPT ![c] = k] /\ sent' = [sent EXCEPT ![c] = sent[c]]
  BY <1>1 DEF DeliveryInv
<1>6. /\ cache_metrics' \in [hits : Nat, misses : Nat]
      /\ DOMAIN search_cache' = Id /\ CacheSound(search_cache')
  BY <1>1 DEF DeliveryInv
<1> HIDE DEF k
<1> QED BY <1>1, <1>4, <1>5, <1>6, OneCallMoves

LEMMA CallReceives ==
  ASSUME DeliveryInv, NEW c \in Caller, Receive(c)
  PROVE  DeliveryInv'
<1>1. /\ call[c].pc = "waiting" /\ call[c].answer # NoEntry
      /\ Over(c, call[c].answer) /\ UNCHANGED <<now, cache_metrics>>
  BY DEF Receive
<1>2. /\ call[c].answer \in Nat /\ now \in Nat /\ call[c].since \in Nat
      /\ call[c].since <= call[c].answer /\ now - call[c].since <= Timeout
      /\ Timeout \in Nat
  BY <1>1, CallParts DEF CallSound
<1> DEFINE new == [data |-> call[c].answer, cached_at |-> now]
<1>3. new \in [data : Nat, cached_at : Nat] /\ new.cached_at - new.data <= Timeout
  BY <1>2
<1>4. \/ search_cache' = search_cache
      \/ search_cache' = [search_cache EXCEPT ![call[c].id] = new]
  BY DEF Receive
<1> HIDE DEF new
<1>5. DOMAIN search_cache' = Id /\ CacheSound(search_cache')
  <2>1. DOMAIN search_cache' = Id
    BY <1>4 DEF DeliveryInv
  <2>2. \A i \in Id : search_cache'[i] = search_cache[i] \/ search_cache'[i] = new
    BY <1>4 DEF DeliveryInv
  <2> QED BY <1>3, <2>1, <2>2 DEF DeliveryInv, CacheSound
<1> QED BY <1>1, <1>2, <1>5, CallEnds

LEMMA CallFails ==
  ASSUME DeliveryInv, NEW c \in Caller, AttemptFails(c) \/ TargetTimesOut(c)
  PROVE  DeliveryInv'
<1>1. /\ call[c].pc \in {"sending", "waiting"}
      /\ UNCHANGED <<now, search_cache, cache_metrics>>
  BY DEF AttemptFails, TargetTimesOut
<1>2. CASE NextTarget(c)
  BY <1>1, <1>2, GoesToNextTarget
<1>3. CASE ~ NextTarget(c)
  <2>1. /\ call[c].attempt < RetryAttempts /\ UNCHANGED sent
        /\ call' = [call EXCEPT ![c].pc = "sending"]
    BY <1>3 DEF AttemptFails, TargetTimesOut
  <2> DEFINE k == [call[c] EXCEPT !.pc = "sending"]
  <2>2. call[c] \in CallRecord /\ CallSound(call[c], sent[c], now)
    BY CallParts
  <2>3. /\ k \in CallRecord /\ k.pc = "sending" /\ k.attempt = call[c].attempt
        /\ k.position = call[c].position /\ k.targets = call[c].targets
        /\ k.since = call[c].since /\ k.answer = call[c].answer
    BY <2>2 DEF CallRecord
  <2> HIDE DEF k
  <2>4. CallSound(k, sent[c], now)
    BY <1>1, <2>1, <2>2, <2>3 DEF CallSound
  <2> USE DEF k
  <2>5. call' = [call EXCEPT ![c] = k] /\ sent' = [sent EXCEPT ![c] = sent[c]]
    BY <2>1 DEF DeliveryInv
  <2>6. /\ cache_metrics' \in [hits : Nat, misses : Nat]
        /\ DOMAIN search_cache' = Id /\ CacheSound(search_cache')
    BY <1>1 DEF DeliveryInv
  <2> HIDE DEF k
  <2> QED BY <1>1, <2>4, <2>5, <2>6, OneCallMoves
<1> QED BY <1>2, <1>3

LEMMA CacheCleaned ==
  ASSUME DeliveryInv, CleanCache
  PROVE  DeliveryInv'
<1>1. /\ UNCHANGED <<now, cache_metrics, call, sent>>
      /\ DOMAIN search_cache' = Id
      /\ \A i \in Id : search_cache'[i] = NoEntry \/ search_cache'[i] = search_cache[i]
  BY DEF CleanCache
<1>2. CacheSound(search_cache)'
  BY <1>1 DEF DeliveryInv, CacheSound
<1> QED BY <1>1, <1>2 DEF DeliveryInv, CallSound

LEMMA TimePasses ==
  ASSUME DeliveryInv, Tick
  PROVE  DeliveryInv'
<1>1. /\ now' = now + 1 /\ UNCHANGED <<search_cache, cache_metrics, call, sent>>
      /\ \A c \in Caller : call[c].pc \in {"sending", "waiting"} =>
            now - call[c].since < Timeout
  BY DEF Tick
<1>2. ASSUME NEW c \in Caller PROVE CallSound(call[c], sent[c], now + 1)
  <2>1. /\ call[c].since \in Nat /\ now \in Nat /\ Timeout \in Nat
        /\ CallSound(call[c], sent[c], now)
    BY CallParts
  <2> QED BY <1>1, <2>1 DEF CallSound
<1>3. (\A c \in Caller : CallSound(call[c], sent[c], now))'
  BY <1>1, <1>2 DEF CallSound
<1>4. CacheSound(search_cache)'
  BY <1>1 DEF DeliveryInv, CacheSound
<1>5. now' \in Nat
  BY <1>1 DEF DeliveryInv
<1> QED BY <1>1, <1>3, <1>4, <1>5 DEF DeliveryInv

LEMMA DeliveryStep == DeliveryInv /\ [DeliveryNext]_deliveryVars => DeliveryInv'
<1> SUFFICES ASSUME DeliveryInv, [DeliveryNext]_deliveryVars PROVE DeliveryInv'
  OBVIOUS
<1>1. CASE UNCHANGED deliveryVars
  BY <1>1 DEF deliveryVars, DeliveryInv, CallSound, CacheSound
<1> QED BY <1>1, SearchBegins, InsertBegins, CallRouted, CallSends, CallExecuted,
           CallReceives, CallFails, CacheCleaned, TimePasses DEF DeliveryNext

LEMMA HitsStep ==
  ASSUME DeliveryInv, [DeliveryNext]_deliveryVars
  PROVE  \A c \in Caller :
            cache_metrics'.hits # cache_metrics.hits /\ call'[c] # call[c]
               => now - call'[c].answer < Ttl + Timeout
<1>1. CASE \E c \in Caller, i \in Id : BeginSearch(c, i)
  <2>1. PICK c \in Caller, i \in Id : BeginSearch(c, i)
    BY <1>1
  <2>2. /\ \A d \in Caller \ {c} : call'[d] = call[d]
        /\ cache_metrics'.hits # cache_metrics.hits =>
              now - call'[c].answer < Ttl + Timeout
    BY <2>1, SearchBegins
  <2> QED BY <2>2
<1>2. CASE ~ \E c \in Caller, i \in Id : BeginSearch(c, i)
  <2>1. cache_metrics' = cache_metrics
    BY <1>2 DEF DeliveryNext, deliveryVars, BeginInsert, RouteTo, Send, ExecuteSent,
                Receive, AttemptFails, TargetTimesOut, CleanCache, Tick
  <2> QED BY <2>1
<1> QED BY <1>1, <1>2

\* What can be numbered with 1 to n is at most n things.
LEMMA AtMostIndices ==
  ASSUME NEW n \in Nat, NEW S, NEW f, \A x \in S : \E i \in 1..n : x = f[i]
  PROVE  Cardinality(S) <= n
<1> DEFINE T == {f[i] : i \in 1..n}
           g == [i \in 1..n |-> f[i]]
<1>1. g \in Surjection(1..n, T)
  BY DEF Surjection
<1>2. IsFiniteSet(1..n) /\ Cardinality(1..n) = n
  BY FS_Interval
<1>3. IsFiniteSet(T) /\ Cardinality(T) <= n
  BY <1>1, <1>2, FS_Surjection
<1>4. S \in SUBSET T
  OBVIOUS
<1> HIDE DEF T
<1>5. Cardinality(S) <= Cardinality(T) /\ IsFiniteSet(S)
  BY <1>3, <1>4, FS_Subset
<1>6. Cardinality(S) \in Nat /\ Cardinality(T) \in Nat
  BY <1>3, <1>5, FS_CardinalityType
<1> QED BY <1>3, <1>5, <1>6

LEMMA ExecutionsAreBounded == DeliveryInv => ExecutionsBounded
<1> SUFFICES ASSUME DeliveryInv, NEW c \in Caller
             PROVE  /\ Cardinality({m[1] : m \in sent[c]}) <= TargetRetries + 1
                    /\ \A n \in Server :
                          Cardinality({m \in sent[c] : m[1] = n}) <= RetryAttempts
  BY DEF ExecutionsBounded
<1>1. /\ call[c] \in CallRecord /\ CallSound(call[c], sent[c], now)
      /\ RetryAttempts \in Nat /\ TargetRetries + 1 \in Nat /\ call[c].position \in Nat
  BY CallParts
<1>2. CASE call[c].pc \in {"idle", "routing"}
  <2>1. sent[c] = {}
    BY <1>1, <1>2 DEF CallSound
  <2>2. {m[1] : m \in sent[c]} = {} /\ \A n \in Server : {m \in sent[c] : m[1] = n} = {}
    BY <2>1
  <2>3. Cardinality({}) = 0
    BY FS_EmptySet
  <2>4. /\ Cardinality({m[1] : m \in sent[c]}) = 0
        /\ \A n \in Server : Cardinality({m \in sent[c] : m[1] = n}) = 0
    BY <2>2, <2>3
  <2> QED BY <1>1, <2>4
<1>3. CASE call[c].pc \in {"sending", "waiting"}
  <2>1. /\ call[c].position <= TargetRetries + 1
        /\ \A m \in sent[c] : \E p \in 1..call[c].position, a \in 1..RetryAttempts :
              m = <<call[c].targets[p], a>>
    BY <1>1, <1>3 DEF CallSound
  <2>2. \A x \in {m[1] : m \in sent[c]} :
           \E p \in 1..(TargetRetries + 1) : x = call[c].targets[p]
    <3>1. \A p \in 1..call[c].position : p \in 1..(TargetRetries + 1)
      BY <1>1, <2>1
    <3> QED BY <2>1, <3>1
  <2>3. Cardinality({m[1] : m \in sent[c]}) <= TargetRetries + 1
    BY <1>1, <2>2, AtMostIndices
  <2>4. ASSUME NEW n \in Server
        PROVE  Cardinality({m \in sent[c] : m[1] = n}) <= RetryAttempts
    <3> DEFINE f == [a \in 1..RetryAttempts |-> <<n, a>>]
    <3>1. \A x \in {m \in sent[c] : m[1] = n} : \E a \in 1..RetryAttempts : x = f[a]
      BY <2>1
    <3> HIDE DEF f
    <3> QED BY <1>1, <3>1, AtMostIndices
  <2> QED BY <2>3, <2>4
<1> QED BY <1>1, <1>2, <1>3 DEF CallRecord

\* For any number of callers, any answers and any timeouts, what a search is told
\* is fresh enough, and no request is executed more often than its retries
\* allow: request_router.rs:172, network_client.rs.
THEOREM DeliveryIsAlwaysSound == DeliverySpec => DeliveryIsSound
<1>1. DeliveryInv /\ [DeliveryNext]_deliveryVars =>
         [\A c \in Caller :
             cache_metrics'.hits # cache_metrics.hits /\ call'[c] # call[c]
                => now - call'[c].answer < Ttl + Timeout]_deliveryVars
  BY HitsStep
<1> QED BY DeliveryInitially, DeliveryStep, ExecutionsAreBounded, <1>1, PTL
        DEF DeliverySpec, DeliveryIsSound, HitsAreFresh

-----------------------------------------------------------------------------
(* The balancer (module LoadBalancing).                                    *)

\* Subsets of a finite set, and their sizes.
LEMMA PartsAreSmaller ==
    ASSUME NEW S, IsFiniteSet(S), NEW T \in SUBSET S
    PROVE  /\ IsFiniteSet(T) /\ Cardinality(T) \in Nat /\ Cardinality(S) \in Nat
           /\ Cardinality(T) <= Cardinality(S)
           /\ T # S => Cardinality(T) < Cardinality(S)
<1>1. /\ IsFiniteSet(T) /\ Cardinality(T) <= Cardinality(S)
      /\ Cardinality(S) = Cardinality(T) => S = T
      BY FS_Subset
<1>2. Cardinality(T) \in Nat /\ Cardinality(S) \in Nat
      BY <1>1, FS_CardinalityType
<1> QED BY <1>1, <1>2

\* The map holds no node twice.
NoneTwice == \A i, j \in DOMAIN node_weights : node_weights[i] = node_weights[j] => i = j

\* The indices of the healthy nodes are 0 .. n-1, and no two are the same.
LEMMA IndicesDiffer ==
    ASSUME BalancingTypeOK, NoneTwice
    PROVE  /\ IsFiniteSet(HealthyNodes) /\ Cardinality(HealthyNodes) \in Nat
           /\ \A n \in HealthyNodes : IndexOf(n) \in 0..Cardinality(HealthyNodes) - 1
           /\ \A m, n \in HealthyNodes : IndexOf(m) = IndexOf(n) => m = n
<1> DEFINE Ahead(n) == {m \in HealthyNodes : Before(m, n)}
<1>1. node_weights \in Seq(Balanced) /\ DOMAIN node_weights = 1..Len(node_weights)
      /\ Len(node_weights) \in Nat
      BY DEF BalancingTypeOK
<1>2. HealthyNodes \in SUBSET Balanced
      <2>1. \A i \in DOMAIN node_weights : node_weights[i] \in Balanced
            BY <1>1, ElementOfSeq
      <2> QED BY <2>1 DEF HealthyNodes, Known
<1>3. IsFiniteSet(HealthyNodes) /\ Cardinality(HealthyNodes) \in Nat
      BY <1>2, BalancingAssumption, PartsAreSmaller
<1>4. \A n \in HealthyNodes : ~ Before(n, n)
      BY <1>1 DEF Before, NoneTwice
<1>5. ASSUME NEW l \in HealthyNodes, NEW m \in HealthyNodes, NEW n \in HealthyNodes,
             Before(l, m), Before(m, n)
      PROVE  Before(l, n)
      <2>1. PICK i, j \in DOMAIN node_weights : i < j /\ node_weights[i] = l /\ node_weights[j] = m
            BY <1>5 DEF Before
      <2>2. PICK a, b \in DOMAIN node_weights : a < b /\ node_weights[a] = m /\ node_weights[b] = n
            BY <1>5 DEF Before
      <2>3. j = a
            BY <2>1, <2>2 DEF NoneTwice
      <2>4. i < b
            BY <1>1, <2>1, <2>2, <2>3
      <2> QED BY <2>1, <2>2, <2>4 DEF Before
<1>6. ASSUME NEW m \in HealthyNodes, NEW n \in HealthyNodes
      PROVE  m = n \/ Before(m, n) \/ Before(n, m)
      <2>1. PICK i \in DOMAIN node_weights : node_weights[i] = m
            BY DEF HealthyNodes, Known
      <2>2. PICK j \in DOMAIN node_weights : node_weights[j] = n
            BY DEF HealthyNodes, Known
      <2>3. i < j \/ i = j \/ j < i
            BY <1>1
      <2> QED BY <2>1, <2>2, <2>3 DEF Before
<1>7. ASSUME NEW n \in HealthyNodes
      PROVE  /\ Ahead(n) \in SUBSET HealthyNodes /\ n \notin Ahead(n)
             /\ IsFiniteSet(Ahead(n)) /\ Cardinality(Ahead(n)) \in Nat
             /\ Cardinality(Ahead(n)) < Cardinality(HealthyNodes)
      <2>1. Ahead(n) \in SUBSET HealthyNodes /\ n \notin Ahead(n)
            BY <1>4
      <2>2. Ahead(n) # HealthyNodes
            BY <2>1
      <2> HIDE DEF Ahead
      <2> QED BY <1>3, <2>1, <2>2, PartsAreSmaller
<1>8. ASSUME NEW m \in HealthyNodes, NEW n \in HealthyNodes, Before(m, n)
      PROVE  Cardinality(Ahead(m)) < Cardinality(Ahead(n))
      <2>1. Ahead(m) \in SUBSET Ahead(n) /\ m \in Ahead(n)
            BY <1>5, <1>8
      <2>2. Ahead(m) # Ahead(n)
            BY <1>7, <2>1
      <2>3. IsFiniteSet(Ahead(n))
            BY <1>7
      <2> HIDE DEF Ahead
      <2> QED BY <2>1, <2>2, <2>3, PartsAreSmaller
<1>9. \A n \in HealthyNodes : IndexOf(n) = Cardinality(Ahead(n))
      BY DEF IndexOf
<1> HIDE DEF Ahead
<1>10. \A n \in HealthyNodes : IndexOf(n) \in 0..Cardinality(HealthyNodes) - 1
      BY <1>3, <1>7, <1>9
<1>11. ASSUME NEW m \in HealthyNodes, NEW n \in HealthyNodes, IndexOf(m) = IndexOf(n)
       PROVE  m = n
      <2>1. ~ Before(m, n) /\ ~ Before(n, m)
            BY <1>7, <1>8, <1>9, <1>11
      <2> QED BY <1>6, <2>1
<1> QED BY <1>3, <1>10, <1>11

\* The remainder is the only one.
LEMMA OnlyRemainder ==
    ASSUME NEW n \in Nat \ {0}, NEW q \in Nat, NEW r \in 0..n - 1, NEW a \in Nat,
           a = n * q + r
    PROVE  a % n = r
<1> DEFINE p == a \div n
           s == a % n
<1>1. p \in Int /\ s \in 0..n - 1 /\ a = n * p + s
      OBVIOUS
<1> HIDE DEF p, s
<1>2. CASE p = q
      <2>1. n * p = n * q /\ n * q \in Int
            BY <1>2
      <2> QED BY <1>1, <2>1 DEF s
<1>3. CASE p > q
      <2>1. n * p >= n * q + n
            <3>1. PICK d \in Nat : p = q + 1 + d
                  <4>1. p - q - 1 \in Nat /\ p = q + 1 + (p - q - 1)
                        BY <1>1, <1>3
                  <4> QED BY <4>1
            <3>2. n * p = n * q + n + n * d /\ n * d \in Nat /\ n * q \in Nat
                  BY <3>1
            <3> QED BY <3>2
      <2>2. n * q \in Int /\ n * p \in Int
            BY <1>1
      <2> QED BY <1>1, <2>1, <2>2
<1>4. CASE q > p
      <2>1. n * q >= n * p + n
            <3>1. PICK d \in Nat : q = p + 1 + d
                  <4>1. q - p - 1 \in Nat /\ q = p + 1 + (q - p - 1)
                        BY <1>1, <1>4
                  <4> QED BY <4>1
            <3>2. n * q = n * p + n + n * d /\ n * d \in Nat /\ n * p \in Int
                  BY <1>1, <3>1
            <3> QED BY <3>2
      <2>2. n * q \in Int /\ n * p \in Int
            BY <1>1
      <2> QED BY <1>1, <2>1, <2>2
<1> QED BY <1>1, <1>2, <1>3, <1>4

\* Counting on modulo n.
LEMMA NextTurn ==
    ASSUME NEW n \in Nat \ {0}, NEW c \in Nat
    PROVE  /\ c % n \in 0..n - 1
           /\ (c + 1) % n = IF (c % n) + 1 = n THEN 0 ELSE (c % n) + 1
           /\ ((c + 1) % n) % n = (c + 1) % n
<1> DEFINE q == c \div n
           r == c % n
<1>1. q \in Nat /\ r \in 0..n - 1
      OBVIOUS
<1>2. c = n * q + r
      OBVIOUS
<1>3. ((c + 1) % n) % n = (c + 1) % n
      OBVIOUS
<1> HIDE DEF q, r
<1>4. q + 1 \in Nat /\ n * (q + 1) = n * q + n /\ n * q \in Nat
      BY <1>1
<1> DEFINE a == c + 1
           t == IF r + 1 = n THEN 0 ELSE r + 1
           p == IF r + 1 = n THEN q + 1 ELSE q
<1>5. a \in Nat /\ t \in 0..n - 1 /\ p \in Nat
      BY <1>1, <1>4
<1>6. a = n * p + t
      BY <1>1, <1>2, <1>4
<1> HIDE DEF a, t, p
<1>7. a % n = t
      BY <1>5, <1>6, OnlyRemainder
<1> QED BY <1>1, <1>3, <1>7 DEF a, t, r

\* The places an arc of a ring holds that begins at b and ends before e; an arc
\* that ends where it begins holds none.
InArc(b, e, t) == IF b <= e THEN b <= t /\ t < e ELSE t >= b \/ t < e

\* Since the healthy nodes last changed, the counter has gone round the ring of
\* their indices m times, and once more over an arc that ends where it stands.
EvenTurns ==
    strategy = "RoundRobin" /\ HealthyNodes # {} =>
        \E m \in Nat : \E b \in 0..Cardinality(HealthyNodes) - 1 :
            \A n \in HealthyNodes :
                drawn[n] = m + IF InArc(b, round_robin_counter % Cardinality(HealthyNodes),
                                        IndexOf(n))
                               THEN 1 ELSE 0

BalancingInv == BalancingTypeOK /\ NoneTwice /\ EvenTurns

\* Turns counted along an arc differ by at most one.
LEMMA EvenTurnsAreEven ==
    ASSUME BalancingInv PROVE RoundRobinEven
<1> SUFFICES ASSUME strategy = "RoundRobin", NEW m \in HealthyNodes, NEW n \in HealthyNodes
             PROVE  drawn[m] <= drawn[n] + 1
    BY DEF RoundRobinEven
<1>1. PICK k \in Nat : \E b \in 0..Cardinality(HealthyNodes) - 1 :
            \A i \in HealthyNodes :
                drawn[i] = k + IF InArc(b, round_robin_counter % Cardinality(HealthyNodes),
                                        IndexOf(i))
                               THEN 1 ELSE 0
      BY DEF BalancingInv, EvenTurns
<1>2. \A i \in HealthyNodes : drawn[i] = k \/ drawn[i] = k + 1
      BY <1>1
<1> QED BY <1>2

LEMMA HealthyAreBalanced ==
    ASSUME BalancingTypeOK PROVE \A n \in Known : n \in Balanced
<1>1. node_weights \in Seq(Balanced)
      BY DEF BalancingTypeOK
<1>2. \A i \in DOMAIN node_weights : node_weights[i] \in Balanced
      BY <1>1, ElementOfSeq
<1> QED BY <1>2 DEF Known

\* While nothing has been drawn, an empty arc will do.
LEMMA FreshTurns == BalancingTypeOK /\ NoneTwice /\ drawn = NoneDrawn => EvenTurns
<1> SUFFICES ASSUME BalancingTypeOK, NoneTwice, drawn = NoneDrawn, HealthyNodes # {}
             PROVE  EvenTurns
    BY DEF EvenTurns
<1> DEFINE N == Cardinality(HealthyNodes)
           b == round_robin_counter % N
<1>1. IsFiniteSet(HealthyNodes) /\ N \in Nat
      BY IndicesDiffer
<1>2. N # 0
      BY <1>1, FS_EmptySet
<1>3. b \in 0..N - 1
      BY <1>1, <1>2 DEF BalancingTypeOK
<1>4. \A n \in HealthyNodes : n \in Balanced
      BY HealthyAreBalanced DEF HealthyNodes
<1>5. \A t \in Int : ~ InArc(b, b, t)
      BY <1>3 DEF InArc
<1> HIDE DEF b
<1>6. \A n \in HealthyNodes : drawn[n] = 0 + IF InArc(b, b, IndexOf(n)) THEN 1 ELSE 0
      <2>1. \A n \in HealthyNodes : IndexOf(n) \in Int
            BY IndicesDiffer
      <2> QED BY <1>4, <1>5, <2>1 DEF NoneDrawn
<1> QED BY <1>3, <1>6 DEF EvenTurns, b

LEMMA FreshTurnsNext == (BalancingTypeOK /\ NoneTwice /\ drawn = NoneDrawn => EvenTurns)'
BY FreshTurns, PTL

\* The nodes that are healthy, and their indices, depend on the map only.
LEMMA SameIndices ==
    ASSUME node_weights' = node_weights, unhealthy' = unhealthy
    PROVE  /\ Known' = Known /\ HealthyNodes' = HealthyNodes
           /\ \A n : IndexOf(n)' = IndexOf(n)
BY DEF Known, HealthyNodes, IndexOf, Before

LEMMA ArcGrows ==
    ASSUME NEW n \in Nat \ {0}, NEW b \in 0..n - 1, NEW e \in 0..n - 1, NEW t \in 0..n - 1,
           NEW f \in 0..n - 1, f = IF e + 1 = n THEN 0 ELSE e + 1
    PROVE  /\ ~ InArc(b, e, e)
           /\ f # b => (InArc(b, f, t) <=> InArc(b, e, t) \/ t = e)
           /\ f = b => ~ InArc(f, f, t) /\ (InArc(b, e, t) \/ t = e)
BY DEF InArc

\* A turn lengthens the arc by the place of the node that is chosen; an arc
\* that comes round is one more time round the ring.
LEMMA TurnTaken ==
    ASSUME BalancingInv, NEW r \in Router, Choose(r), strategy = "RoundRobin",
           HealthyNodes # {}
    PROVE  EvenTurns'
<1> DEFINE N == Cardinality(HealthyNodes)
           e == round_robin_counter % N
           f == round_robin_counter' % N
<1>1. BalancingTypeOK /\ NoneTwice /\ EvenTurns
      BY DEF BalancingInv
<1>2. N \in Nat \ {0} /\ round_robin_counter \in Nat
      <2>1. IsFiniteSet(HealthyNodes) /\ N \in Nat
            BY <1>1, IndicesDiffer
      <2> QED BY <1>1, <2>1, FS_EmptySet DEF BalancingTypeOK
<1>3. PICK n \in HealthyNodes : SelectRoundRobin(n) /\ drawn' = [drawn EXCEPT ![n] = @ + 1]
      BY DEF Choose
<1>4. HealthyNodes' = HealthyNodes /\ \A i : IndexOf(i)' = IndexOf(i)
      <2>1. node_weights' = node_weights /\ unhealthy' = unhealthy
            BY DEF Choose
      <2> QED BY <2>1, SameIndices
<1>5. e \in 0..N - 1 /\ f = (IF e + 1 = N THEN 0 ELSE e + 1) /\ IndexOf(n) = e
      BY <1>2, <1>3, NextTurn DEF SelectRoundRobin
<1>6. \A i \in HealthyNodes : IndexOf(i) \in 0..N - 1 /\ (IndexOf(i) = e => i = n)
      BY <1>1, <1>5, IndicesDiffer
<1>7. PICK m \in Nat : \E b \in 0..N - 1 : \A i \in HealthyNodes :
            drawn[i] = m + IF InArc(b, e, IndexOf(i)) THEN 1 ELSE 0
      BY <1>1 DEF EvenTurns
<1>8. PICK b \in 0..N - 1 : \A i \in HealthyNodes :
            drawn[i] = m + IF InArc(b, e, IndexOf(i)) THEN 1 ELSE 0
      BY <1>7
<1>9. \A i \in HealthyNodes : drawn'[i] = IF i = n THEN drawn[i] + 1 ELSE drawn[i]
      <2>1. \A i \in HealthyNodes : i \in Balanced
            BY <1>1, HealthyAreBalanced DEF HealthyNodes
      <2> QED BY <1>1, <1>3, <2>1 DEF BalancingTypeOK
<1> HIDE DEF N, e, f
<1>10. f \in 0..N - 1
      BY <1>2, <1>5
<1>11. \A i \in HealthyNodes :
            /\ f # b => drawn'[i] = m + IF InArc(b, f, IndexOf(i)) THEN 1 ELSE 0
            /\ f = b => drawn'[i] = (m + 1) + IF InArc(f, f, IndexOf(i)) THEN 1 ELSE 0
      <2> SUFFICES ASSUME NEW i \in HealthyNodes
                   PROVE  /\ f # b => drawn'[i] = m + IF InArc(b, f, IndexOf(i)) THEN 1 ELSE 0
                          /\ f = b => drawn'[i] = (m + 1)
                                         + IF InArc(f, f, IndexOf(i)) THEN 1 ELSE 0
            OBVIOUS
      <2>1. IndexOf(i) \in 0..N - 1 /\ (IndexOf(i) = e <=> i = n)
            BY <1>5, <1>6
      <2>2. /\ ~ InArc(b, e, e)
            /\ f # b => (InArc(b, f, IndexOf(i)) <=> InArc(b, e, IndexOf(i)) \/ IndexOf(i) = e)
            /\ f = b => ~ InArc(f, f, IndexOf(i)) /\ (InArc(b, e, IndexOf(i)) \/ IndexOf(i) = e)
            BY <1>2, <1>5, <1>10, <2>1, ArcGrows
      <2>3. drawn[i] = m + IF InArc(b, e, IndexOf(i)) THEN 1 ELSE 0
            BY <1>8
      <2>4. drawn'[i] = IF i = n THEN drawn[i] + 1 ELSE drawn[i]
            BY <1>9
      <2> QED BY <2>1, <2>2, <2>3, <2>4
<1>12. \E k \in Nat : \E a \in 0..N - 1 : \A i \in HealthyNodes :
            drawn'[i] = k + IF InArc(a, f, IndexOf(i)) THEN 1 ELSE 0
      <2>1. m + 1 \in Nat
            OBVIOUS
      <2> QED BY <1>10, <1>11, <2>1
<1> QED BY <1>4, <1>12 DEF EvenTurns, N, f

\* Every known node has one place in the map.
LEMMA OnePlaceEach ==
    ASSUME BalancingTypeOK, NoneTwice
    PROVE  /\ IsFiniteSet(Known) /\ Cardinality(Known) = Len(node_weights)
           /\ Len(node_weights) \in Nat
<1>1. node_weights \in Seq(Balanced) /\ DOMAIN node_weights = 1..Len(node_weights)
      /\ Len(node_weights) \in Nat
      BY DEF BalancingTypeOK
<1>2. node_weights \in [1..Len(node_weights) -> Known]
      BY <1>1 DEF Known
<1>3. node_weights \in Bijection(1..Len(node_weights), Known)
      BY <1>1, <1>2 DEF Bijection, Injection, Surjection, IsInjective, NoneTwice, Known
<1>4. ExistsBijection(1..Len(node_weights), Known)
      BY <1>3 DEF ExistsBijection
<1> QED BY <1>1, <1>4, FS_CountingElements, FS_NatBijection

\* Between them, the counted requests of nodes that each have fewer than 115
\* percent of the average are too few, if a node has none and there are at most
\* seven.
LEMMA SharesAreBounded ==
    ASSUME NEW n \in 1..7, NEW s \in Nat, NEW all \in Nat \ {0}, NEW k \in Nat,
           k = (115 * all) \div (100 * n)
    PROVE  /\ 100 * (s * n - all) < 15 * all => s <= k
           /\ (n - 1) * k < all
<1>1. CASE n = 1 BY <1>1
<1>2. CASE n = 2 BY <1>2
<1>3. CASE n = 3 BY <1>3
<1>4. CASE n = 4 BY <1>4
<1>5. CASE n = 5 BY <1>5
<1>6. CASE n = 6 BY <1>6
<1>7. CASE n = 7 BY <1>7
<1> QED BY <1>1, <1>2, <1>3, <1>4, <1>5, <1>6, <1>7

\* What is counted has a number.
LEMMA CountedIsFinite ==
    ASSUME BalancingTypeOK, DOMAIN routing_stats \subseteq Known, IsFiniteSet(Known)
    PROVE  Routed \in Nat
<1> DEFINE Of == [n \in DOMAIN routing_stats |-> {n} \X (1..routing_stats[n])]
           All == {Of[n] : n \in DOMAIN routing_stats}
<1>1. IsFiniteSet(DOMAIN routing_stats)
      BY FS_Subset
<1>2. ASSUME NEW n \in DOMAIN routing_stats PROVE IsFiniteSet(Of[n])
      <2>1. IsFiniteSet({n}) /\ IsFiniteSet(1..routing_stats[n])
            <3>1. routing_stats[n] \in Int /\ 1 \in Int
                  BY DEF BalancingTypeOK
            <3> QED BY <3>1, FS_Singleton, FS_Interval
      <2> QED BY <2>1, FS_Product
<1>3. Of \in Surjection(DOMAIN routing_stats, All)
      BY DEF Surjection
<1>4. Counted = UNION All
      BY DEF Counted
<1> HIDE DEF Of
<1>5. \A T \in All : IsFiniteSet(T)
      BY <1>2
<1> HIDE DEF All
<1>6. IsFiniteSet(All)
      BY <1>1, <1>3, FS_Surjection
<1>7. IsFiniteSet(Counted)
      BY <1>4, <1>5, <1>6, FS_UNION
<1> QED BY <1>7, FS_CardinalityType DEF Routed

LEMMA BalanceIsShared ==
    ASSUME BalancingTypeOK, NoneTwice PROVE BalanceMeansShares
<1> SUFFICES ASSUME DOMAIN routing_stats \subseteq Known, Len(node_weights) <= 7,
                    Routed > 0, IsBalanced, Known # DOMAIN routing_stats
             PROVE  FALSE
    BY DEF BalanceMeansShares
<1> DEFINE N == Len(node_weights)
           K == (115 * Routed) \div (100 * N)
<1>1. PICK x \in Known : x \notin DOMAIN routing_stats
      OBVIOUS
<1>2. IsFiniteSet(Known) /\ Cardinality(Known) = N /\ N \in Nat
      BY OnePlaceEach
<1>3. IsFiniteSet(Known \ {x}) /\ Cardinality(Known \ {x}) = N - 1
      BY <1>1, <1>2, FS_RemoveElement
<1>4. N \in 1..7
      <2>1. Known # {} /\ IsFiniteSet(Known)
            BY <1>1, <1>2
      <2>2. Cardinality(Known) # 0
            BY <2>1, FS_EmptySet
      <2>3. N \in Nat /\ N # 0 /\ N <= 7
            BY <1>2, <2>2
      <2> HIDE DEF N
      <2> QED BY <2>3
<1>5. \A n \in DOMAIN routing_stats : routing_stats[n] \in Nat
      BY DEF BalancingTypeOK
<1>6. ASSUME NEW k \in Nat, \A n \in DOMAIN routing_stats : routing_stats[n] <= k
      PROVE  Routed <= (N - 1) * k
      <2>1. ASSUME NEW c \in Counted PROVE c \in (Known \ {x}) \X (1..k)
            <3>1. PICK n \in DOMAIN routing_stats : c \in {n} \X (1..routing_stats[n])
                  BY DEF Counted
            <3>2. PICK j \in 1..routing_stats[n] : c = <<n, j>>
                  BY <3>1
            <3>3. j \in 1..k
                  BY <1>5, <1>6, <3>2
            <3>4. n \in Known \ {x}
                  BY <1>1
            <3> QED BY <3>2, <3>3, <3>4
      <2>2. IsFiniteSet(1..k) /\ Cardinality(1..k) = k
            <3>1. k \in Int /\ 1 \in Int
                  OBVIOUS
            <3>2. IsFiniteSet(1..k) /\ Cardinality(1..k) = IF 1 > k THEN 0 ELSE k - 1 + 1
                  BY <3>1, FS_Interval
            <3> QED BY <3>2
      <2>3. /\ IsFiniteSet((Known \ {x}) \X (1..k))
            /\ Cardinality((Known \ {x}) \X (1..k)) = (N - 1) * k
            <3>1. IsFiniteSet(Known \ {x}) /\ IsFiniteSet(1..k)
                  BY <1>3, <2>2
            <3>2. /\ IsFiniteSet((Known \ {x}) \X (1..k))
                  /\ Cardinality((Known \ {x}) \X (1..k))
                        = Cardinality(Known \ {x}) * Cardinality(1..k)
                  BY <3>1, FS_Product
            <3> QED BY <1>3, <2>2, <3>2
      <2>4. Counted \in SUBSET ((Known \ {x}) \X (1..k))
            BY <2>1
      <2> QED BY <2>3, <2>4, PartsAreSmaller DEF Routed
<1>7. Routed \in Nat \ {0}
      <2>1. Routed \in Nat
            BY <1>2, CountedIsFinite
      <2> QED BY <2>1
<1>8. K \in Nat
      <2>1. 100 * N \in Nat \ {0} /\ 115 * Routed \in Nat
            BY <1>4, <1>7
      <2> QED BY <2>1
<1> HIDE DEF K
<1>9. ASSUME NEW n \in DOMAIN routing_stats PROVE routing_stats[n] <= K
      <2>1. WithinShare(n)
            BY <1>1, <1>7 DEF IsBalanced, Known
      <2>2. 100 * (routing_stats[n] * N - Routed) < 15 * Routed
            <3>1. routing_stats[n] * N \in Int
                  BY <1>4, <1>5
            <3> QED BY <1>7, <2>1, <3>1 DEF WithinShare, Absolute
      <2>3. routing_stats[n] \in Nat
            BY <1>5
      <2> QED BY <1>4, <1>7, <1>8, <2>2, <2>3, SharesAreBounded DEF K
<1>10. (N - 1) * K < Routed
      BY <1>4, <1>7, <1>8, SharesAreBounded DEF K
<1>11. Routed <= (N - 1) * K
      BY <1>6, <1>8, <1>9
<1>12. (N - 1) * K \in Int
      BY <1>4, <1>8
<1> QED BY <1>7, <1>10, <1>11, <1>12

LEMMA BalancingBegins == BalanceInit => BalancingInv
<1> SUFFICES ASSUME BalanceInit PROVE BalancingInv
    OBVIOUS
<1>1. node_weights = << >> /\ DOMAIN node_weights = {} /\ node_weights \in Seq(Balanced)
      BY DEF BalanceInit
<1>2. DOMAIN routing_stats = {}
      BY DEF BalanceInit
<1>3. BalancingTypeOK
      BY <1>1, <1>2 DEF BalanceInit, BalancingTypeOK, NoneDrawn
<1>4. NoneTwice
      BY <1>1 DEF NoneTwice
<1> QED BY <1>3, <1>4, FreshTurns DEF BalancingInv, BalanceInit

\* A choice is made of healthy nodes.
LEMMA ChoiceKeeps ==
    ASSUME BalancingInv, NEW r \in Router, Choose(r) PROVE BalancingInv'
<1> USE DEF BalancingInv
<1>1. node_weights' = node_weights /\ unhealthy' = unhealthy /\ strategy' = strategy
      BY DEF Choose
<1>2. /\ NoneTwice' /\ Known' = Known /\ HealthyNodes' = HealthyNodes
      BY <1>1, SameIndices DEF NoneTwice
<1>3. BalancingTypeOK'
      <2>1. PICK n \in HealthyNodes :
               /\ \/ SelectRoundRobin(n)
                  \/ round_robin_counter' = round_robin_counter
               /\ chosen' = [chosen EXCEPT ![r] = n]
               /\ drawn' = [drawn EXCEPT ![n] = @ + 1]
            BY DEF Choose
      <2>2. n \in Balanced
            BY HealthyAreBalanced DEF HealthyNodes
      <2>3. round_robin_counter' \in Nat
            <3>1. IsFiniteSet(HealthyNodes) /\ Cardinality(HealthyNodes) \in Nat \ {0}
                  BY IndicesDiffer, FS_EmptySet
            <3> QED BY <2>1, <3>1 DEF SelectRoundRobin, BalancingTypeOK
      <2>4. routing_stats' = routing_stats
            BY DEF Choose
      <2>5. chosen' \in [Router -> Balanced \cup {NoNode}] /\ drawn' \in [Balanced -> Nat]
            BY <2>1, <2>2 DEF BalancingTypeOK
      <2> QED BY <1>1, <1>2, <2>3, <2>4, <2>5 DEF BalancingTypeOK
<1>4. EvenTurns'
      BY <1>1, <1>2, TurnTaken DEF EvenTurns
<1> QED BY <1>2, <1>3, <1>4

\* Counting a request that was routed changes the statistics only.
LEMMA CountKeeps ==
    ASSUME BalancingInv, NEW r \in Router, Count(r) PROVE BalancingInv'
<1> USE DEF BalancingInv
<1>1. /\ node_weights' = node_weights /\ unhealthy' = unhealthy /\ strategy' = strategy
      /\ round_robin_counter' = round_robin_counter /\ drawn' = drawn
      BY DEF Count
<1>2. /\ NoneTwice' /\ Known' = Known /\ HealthyNodes' = HealthyNodes
      /\ \A n : IndexOf(n)' = IndexOf(n)
      BY <1>1, SameIndices DEF NoneTwice
<1>3. EvenTurns'
      BY <1>1, <1>2 DEF EvenTurns
<1>4. chosen[r] \in Balanced
      BY DEF Count, BalancingTypeOK
<1>5. /\ DOMAIN routing_stats' \subseteq Balanced
      /\ \A n \in DOMAIN routing_stats' : routing_stats'[n] \in Nat \ {0}
      <2>1. CASE chosen[r] \in DOMAIN routing_stats
            <3>1. routing_stats' = [routing_stats EXCEPT ![chosen[r]] = @ + 1]
                  BY <2>1 DEF Count
            <3> QED BY <2>1, <3>1 DEF BalancingTypeOK
      <2>2. CASE chosen[r] \notin DOMAIN routing_stats
            <3>1. routing_stats' = [n \in DOMAIN routing_stats \cup {chosen[r]} |->
                                       IF n = chosen[r] THEN 1 ELSE routing_stats[n]]
                  BY <2>2 DEF Count
            <3> QED BY <1>4, <2>2, <3>1 DEF BalancingTypeOK
      <2> QED BY <2>1, <2>2
<1>6. chosen' \in [Router -> Balanced \cup {NoNode}]
      BY DEF Count, BalancingTypeOK
<1>7. BalancingTypeOK'
      BY <1>1, <1>2, <1>5, <1>6 DEF BalancingTypeOK
<1> QED BY <1>2, <1>3, <1>7

\* A new order of the nodes holds each of them once.
LEMMA AddedOnce ==
    ASSUME NEW S, IsFiniteSet(S), NEW f \in SetToSeqs(S)
    PROVE  /\ f \in Seq(S) /\ {f[i] : i \in DOMAIN f} = S
           /\ \A i, j \in DOMAIN f : f[i] = f[j] => i = j
<1> DEFINE c == Cardinality(S)
<1>1. c \in Nat
      BY FS_CardinalityType
<1>2. f \in [1..c -> S] /\ \A i, j \in 1..c : i # j => f[i] # f[j]
      BY DEF SetToSeqs
<1>3. f \in Injection(1..c, S)
      BY <1>2 DEF Injection, IsInjective
<1>4. IsFiniteSet(1..c) /\ Cardinality(1..c) = c
      <2>1. IsFiniteSet(1..c) /\ Cardinality(1..c) = IF 1 > c THEN 0 ELSE c - 1 + 1
            <3>1. 1 \in Int /\ c \in Int
                  BY <1>1
            <3> HIDE DEF c
            <3> QED BY <3>1, FS_Interval
      <2> QED BY <1>1, <2>1
<1>5. f \in Surjection(1..c, S)
      BY <1>3, <1>4, FS_Injection
<1>6. {f[i] : i \in 1..c} = S
      BY <1>2, <1>5 DEF Surjection
<1> QED BY <1>1, <1>2, <1>6

LEMMA AddKeeps ==
    ASSUME BalancingInv, NEW n \in Balanced, AddWeight(n) PROVE BalancingInv'
<1> USE DEF BalancingInv
<1> DEFINE S == Known \cup {n}
<1>1. IsFiniteSet(S) /\ \A m \in S : m \in Balanced
      BY OnePlaceEach, HealthyAreBalanced, FS_AddElement
<1>2. node_weights' \in SetToSeqs(S)
      BY DEF AddWeight
<1>3. node_weights' \in Seq(S) /\ Known' = S /\ NoneTwice'
      <2> HIDE DEF S
      <2> QED BY <1>1, <1>2, AddedOnce DEF Known, NoneTwice
<1>4. node_weights' \in Seq(Balanced)
      BY <1>1, <1>3
<1>5. /\ strategy' = strategy /\ unhealthy' = unhealthy \ {n} /\ drawn' = NoneDrawn
      /\ round_robin_counter' = round_robin_counter
      /\ routing_stats' = routing_stats /\ chosen' = chosen
      BY DEF AddWeight
<1>6. unhealthy' \subseteq Known'
      BY <1>3, <1>5 DEF BalancingTypeOK
<1>7. NoneDrawn \in [Balanced -> Nat] /\ NoneDrawn' = NoneDrawn
      BY DEF NoneDrawn
<1>8. BalancingTypeOK'
      BY <1>4, <1>5, <1>6, <1>7 DEF BalancingTypeOK
<1>9. EvenTurns'
      BY <1>3, <1>5, <1>7, <1>8, FreshTurnsNext
<1> QED BY <1>3, <1>8, <1>9

LEMMA RemoveKeeps ==
    ASSUME BalancingInv, NEW n \in Balanced, RemoveWeight(n) PROVE BalancingInv'
<1> USE DEF BalancingInv
<1> DEFINE w == node_weights
           at(i, j) == IF j < i THEN j ELSE j + 1
<1>1. w \in Seq(Balanced) /\ DOMAIN w = 1..Len(w) /\ Len(w) \in Nat
      BY DEF BalancingTypeOK
<1>2. PICK i \in 1..Len(w) :
         w[i] = n /\ w' = [j \in 1..Len(w) - 1 |-> w[at(i, j)]]
      BY <1>1 DEF RemoveWeight
<1>3. /\ strategy' = strategy /\ unhealthy' = unhealthy \ {n} /\ drawn' = NoneDrawn
      /\ round_robin_counter' = round_robin_counter
      /\ routing_stats' = routing_stats /\ chosen' = chosen
      BY DEF RemoveWeight
<1>4. \A j \in 1..Len(w) - 1 : at(i, j) \in 1..Len(w) /\ at(i, j) # i
      BY <1>1, <1>2
<1>5. w' \in Seq(Balanced) /\ DOMAIN w' = 1..Len(w) - 1
      /\ \A j \in DOMAIN w' : w'[j] = w[at(i, j)]
      <2>1. \A j \in 1..Len(w) - 1 : w[at(i, j)] \in Balanced
            BY <1>1, <1>4, ElementOfSeq
      <2>2. Len(w) - 1 \in Nat
            BY <1>1
      <2> QED BY <1>2, <2>1, <2>2
<1>6. NoneTwice'
      <2>1. ASSUME NEW j \in DOMAIN w', NEW k \in DOMAIN w', w'[j] = w'[k]
            PROVE  j = k
            <3>1. at(i, j) = at(i, k)
                  BY <1>1, <1>4, <1>5, <2>1 DEF NoneTwice
            <3> QED BY <1>1, <1>5, <3>1
      <2> QED BY <2>1 DEF NoneTwice
<1>7. unhealthy' \subseteq Known'
      <2>1. ASSUME NEW m \in unhealthy, m # n PROVE m \in Known'
            <3>1. PICK k \in 1..Len(w) : w[k] = m
                  BY <1>1 DEF BalancingTypeOK, Known
            <3>2. k # i
                  BY <1>2, <2>1, <3>1
            <3>3. \E j \in 1..Len(w) - 1 : at(i, j) = k
                  <4>1. CASE k < i
                        <5>1. k \in 1..Len(w) - 1 /\ at(i, k) = k
                              BY <1>1, <4>1
                        <5> QED BY <5>1
                  <4>2. CASE i < k
                        <5>1. k - 1 \in 1..Len(w) - 1 /\ at(i, k - 1) = k
                              BY <1>1, <4>2
                        <5> QED BY <5>1
                  <4> QED BY <1>1, <3>2, <4>1, <4>2
            <3> QED BY <1>5, <3>1, <3>3 DEF Known
      <2> QED BY <1>3, <2>1
<1>8. NoneDrawn \in [Balanced -> Nat] /\ NoneDrawn' = NoneDrawn
      BY DEF NoneDrawn
<1>9. BalancingTypeOK'
      BY <1>3, <1>5, <1>7, <1>8 DEF BalancingTypeOK
<1>10. EvenTurns'
      BY <1>3, <1>6, <1>8, <1>9, FreshTurnsNext
<1> QED BY <1>6, <1>9, <1>10

\* Health and load do not move a node.
LEMMA UpdatesKeep ==
    ASSUME BalancingInv, NEW n \in Balanced, NEW k \in 0..1,
           UpdateWeight(n, TRUE) \/ UpdateWeight(n, FALSE) \/ UpdateConnections(n, k)
    PROVE  BalancingInv'
<1> USE DEF BalancingInv
<1>1. /\ node_weights' = node_weights /\ strategy' = strategy /\ chosen' = chosen
      /\ round_robin_counter' = round_robin_counter /\ routing_stats' = routing_stats
      BY DEF UpdateWeight, UpdateConnections
<1>2. Known' = Known /\ NoneTwice'
      BY <1>1 DEF Known, NoneTwice
<1>3. unhealthy' \subseteq Known'
      BY <1>2 DEF UpdateWeight, UpdateConnections, BalancingTypeOK
<1>4. \/ drawn' = drawn /\ unhealthy' = unhealthy
      \/ drawn' = NoneDrawn
      BY DEF UpdateWeight, UpdateConnections
<1>5. NoneDrawn \in [Balanced -> Nat] /\ NoneDrawn' = NoneDrawn
      BY DEF NoneDrawn
<1>6. BalancingTypeOK'
      BY <1>1, <1>3, <1>4, <1>5 DEF BalancingTypeOK
<1>7. CASE drawn' = drawn /\ unhealthy' = unhealthy
      <2>1. HealthyNodes' = HealthyNodes /\ \A m : IndexOf(m)' = IndexOf(m)
            BY <1>1, <1>7, SameIndices
      <2>2. EvenTurns'
            BY <1>1, <1>7, <2>1 DEF EvenTurns
      <2> QED BY <1>2, <1>6, <2>2
<1>8. CASE drawn' = NoneDrawn
      BY <1>2, <1>5, <1>6, <1>8, FreshTurnsNext
<1> QED BY <1>4, <1>7, <1>8

LEMMA BalancingStep == BalancingInv /\ [BalanceNext]_balanceVars => BalancingInv'
<1> SUFFICES ASSUME BalancingInv, [BalanceNext]_balanceVars PROVE BalancingInv'
    OBVIOUS
<1>1. CASE UNCHANGED balanceVars
      <2>1. /\ node_weights' = node_weights /\ unhealthy' = unhealthy /\ strategy' = strategy
            /\ round_robin_counter' = round_robin_counter /\ drawn' = drawn
            /\ routing_stats' = routing_stats /\ chosen' = chosen
            BY <1>1 DEF balanceVars
      <2>2. /\ Known' = Known /\ HealthyNodes' = HealthyNodes
            /\ \A n : IndexOf(n)' = IndexOf(n)
            BY <2>1, SameIndices
      <2> QED BY <2>1, <2>2 DEF BalancingInv, BalancingTypeOK, NoneTwice, EvenTurns
<1>2. ASSUME NEW r \in Router, Choose(r) \/ Count(r) PROVE BalancingInv'
      BY <1>2, ChoiceKeeps, CountKeeps
<1>3. ASSUME NEW n \in Balanced, AddWeight(n) \/ RemoveWeight(n) PROVE BalancingInv'
      BY <1>3, AddKeeps, RemoveKeeps
<1>4. ASSUME NEW n \in Balanced, UpdateWeight(n, TRUE) \/ UpdateWeight(n, FALSE)
                                 \/ \E k \in 0..1 : UpdateConnections(n, k)
      PROVE  BalancingInv'
      <2>1. PICK k \in 0..1 : UpdateWeight(n, TRUE) \/ UpdateWeight(n, FALSE)
                              \/ UpdateConnections(n, k)
            <3>1. 0 \in 0..1
                  OBVIOUS
            <3> QED BY <1>4, <3>1, Zenon
      <2> QED BY <2>1, UpdatesKeep
<1> QED BY <1>1, <1>2, <1>3, <1>4 DEF BalanceNext

\* As long as the same nodes are healthy, no node has two turns more than
\* another, for any number of nodes, routers that overlap and any order of the
\* map; and a report of balance means that no node was left out
\* (select_round_robin, check_load_balance).
THEOREM BalancingIsAlwaysFair == BalanceSpec => []BalancingIsFair
<1>1. BalancingInv => BalancingIsFair
      BY EvenTurnsAreEven, BalanceIsShared DEF BalancingIsFair, BalancingInv
<1> QED BY <1>1, BalancingBegins, BalancingStep, PTL DEF BalanceSpec
=============================================================================
