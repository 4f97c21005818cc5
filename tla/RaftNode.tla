------------------------------ MODULE RaftNode ------------------------------
(***************************************************************************)
(* One Raft node of src/distributed/raft.rs: votes, the log, the commit    *)
(* index and the state machine, driven by the main loop one command at a   *)
(* time, with the application of committed entries running beside it.      *)
(*                                                                         *)
(* The loop is written as if restore_logs returned: in the code it waits   *)
(* for a lock it holds itself (raft.rs:1134), so the handlers say what the *)
(* node does once that wait is removed.  Requests come from leaders of     *)
(* other terms, whose logs match in the sense of Raft; each carries the    *)
(* one entry that replicate_log_entry puts into it, or none.  A request    *)
(* may be delayed, repeated or overtaken.  The peers' answers are drawn at *)
(* random in the code, and left open here.                                 *)
(***************************************************************************)
EXTENDS Integers, Sequences, FiniteSets, FiniteSetsExt, SequencesExt

CONSTANTS Self, Candidate, None,
          LeaderTerm,     \* terms led by other nodes
          LeaderLog,      \* the log of the leader of each, a sequence of terms
          LeaderCommit,   \* how far that leader has committed
          MaxTerm, MaxLog \* bounds: elections and client commands stop there

\* Leaders do not share terms with this node, and two logs that hold the same
\* term at a place are the same up to it.
RaftAssumption ==
    /\ Self \notin Candidate /\ None \notin Candidate \cup {Self}
    /\ MaxTerm \in Nat /\ MaxLog \in Nat
    /\ LeaderTerm \subseteq 1..MaxTerm
    /\ \A t \in LeaderTerm : /\ LeaderLog[t] \in Seq(LeaderTerm)
                             /\ Len(LeaderLog[t]) <= MaxLog
                             /\ LeaderCommit[t] \in 0..Len(LeaderLog[t])
    /\ \A t, u \in LeaderTerm : \A i \in DOMAIN LeaderLog[t] \cap DOMAIN LeaderLog[u] :
           LeaderLog[t][i] = LeaderLog[u][i] =>
               \A j \in 1..i : LeaderLog[t][j] = LeaderLog[u][j]

VARIABLES role, current_term, voted_for,
          log,           \* the term of each entry
          commit_index, last_applied,
          disk,          \* raft_state_<node>: term and vote
          busy,          \* what the main loop waits for
          spawned,       \* calls of apply_committed_entries that have read nothing
          applying,      \* commit indexes read by appliers that now need a lock
          times,         \* history: how often each index was applied since start
          granted        \* history: <<term, candidate>> granted since start

durable == disk
volatile == <<role, current_term, voted_for, log, commit_index, last_applied>>
applier == <<spawned, applying, times>>
vars == <<volatile, durable, busy, applier, granted>>

Index == 1..MaxLog

TypeOK ==
    /\ role \in {"Follower", "Candidate", "Leader"}
    /\ current_term \in 0..MaxTerm
    /\ voted_for \in Candidate \cup {Self, None}
    /\ log \in Seq(1..MaxTerm) /\ Len(log) <= MaxLog
    /\ commit_index \in 0..MaxLog /\ last_applied \in 0..MaxLog
    /\ disk \in [term : 0..MaxTerm, vote : {Self, None}]
    /\ busy \in {"no", "election", "replicating"}
    /\ applying \subseteq 0..MaxLog /\ spawned \in Nat
    /\ times \in [Index -> Nat]
    /\ granted \subseteq (1..MaxTerm) \X Candidate

Blank == [term |-> 0, vote |-> None]

\* RaftNode::new over a storage that may hold what an earlier run persisted;
\* restore_state reads it.  The log is not restored: it is written under other
\* keys than those restore_logs scans.
Started(saved) ==
    /\ role' = "Follower"
    /\ current_term' = saved.term /\ voted_for' = saved.vote
    /\ log' = << >> /\ commit_index' = 0 /\ last_applied' = 0
    /\ busy' = "no"
    /\ spawned' = 0 /\ applying' = {}
    /\ times' = [i \in Index |-> 0]
    /\ granted' = {}

Init ==
    /\ role = "Follower"
    /\ current_term = 0 /\ voted_for = None
    /\ log = << >> /\ commit_index = 0 /\ last_applied = 0
    /\ disk = Blank
    /\ busy = "no"
    /\ spawned = 0 /\ applying = {}
    /\ times = [i \in Index |-> 0]
    /\ granted = {}

\* handle_command answers one command of the loop before it takes the next.
LoopIsFree == busy = "no"

\* persist_state writes term and vote, whatever they are at that moment.
Persist(term, vote) == disk' = [term |-> term, vote |-> vote]

\* become_leader; next and match indexes are not read afterwards.
BecomeLeader == role' = "Leader"

LastTerm(l) == IF l = << >> THEN 0 ELSE Last(l)

-----------------------------------------------------------------------------
(* Votes.                                                                  *)

\* A higher term is taken over, and makes a follower.
Adopt(term) ==
    /\ current_term' = Max({term, current_term})
    /\ role' = IF term > current_term THEN "Follower" ELSE role

\* Mutant: the vote is granted without being recorded.
HandleVoteRequestUnrecorded(c, term, lastIndex, lastTerm) ==
    LET vote == IF term > current_term THEN None ELSE voted_for
        upToDate == \/ lastTerm > LastTerm(log)
                    \/ lastTerm = LastTerm(log) /\ lastIndex >= Len(log)
        grant == term >= current_term /\ vote \in {None, c} /\ upToDate
    IN  /\ LoopIsFree
        /\ Adopt(term)
        /\ voted_for' = vote
        /\ granted' = granted \cup IF grant THEN {<<term, c>>} ELSE {}
        /\ UNCHANGED <<log, commit_index, last_applied, durable, busy, applier>>

\* handle_vote_request.  The vote is not persisted.
HandleVoteRequest(c, term, lastIndex, lastTerm) ==
    LET vote == IF term > current_term THEN None ELSE voted_for
        upToDate == \/ lastTerm > LastTerm(log)
                    \/ lastTerm = LastTerm(log) /\ lastIndex >= Len(log)
        grant == term >= current_term /\ vote \in {None, c} /\ upToDate
    IN  /\ LoopIsFree
        /\ Adopt(term)
        /\ voted_for' = IF grant THEN c ELSE vote
        /\ granted' = granted \cup IF grant THEN {<<term, c>>} ELSE {}
        /\ UNCHANGED <<log, commit_index, last_applied, durable, busy, applier>>

\* handle_election_timeout and start_election up to the calls of the peers.
StartElection ==
    /\ LoopIsFree /\ role # "Leader"
    /\ current_term < MaxTerm
    /\ role' = "Candidate"
    /\ current_term' = current_term + 1
    /\ voted_for' = Self
    /\ Persist(current_term + 1, Self)
    /\ busy' = "election"
    /\ UNCHANGED <<log, commit_index, last_applied, applier, granted>>

\* The votes are in.  The other leaders of LeaderTerm were elected by a
\* majority, so that this node is not elected in their terms.  A lost election
\* withdraws the vote in the same term, in memory only.
FinishElection ==
    /\ busy = "election"
    /\ \/ /\ current_term \notin LeaderTerm
          /\ BecomeLeader
          /\ UNCHANGED voted_for
       \/ /\ role' = "Follower"
          /\ voted_for' = None
    /\ busy' = "no"
    /\ UNCHANGED <<current_term, log, commit_index, last_applied, durable,
                   applier, granted>>

-----------------------------------------------------------------------------
(* The log.                                                                *)

\* handle_log_entries for one entry after prev: whatever follows prev goes,
\* also when it matched; an empty request leaves the log alone.
LogAfter(prev, entries) ==
    IF entries = << >> THEN log ELSE SubSeq(log, 1, prev) \o entries

\* Mutant: the entry before is there, whatever its term.
PrevMatchesByLength(prev, prevTerm) == prev > 0 => prev <= Len(log)

PrevMatches(prev, prevTerm) ==
    prev > 0 => prev <= Len(log) /\ log[prev] = prevTerm

\* handle_append_request, with the application of new commits spawned.
AppendEntries(term, prev, prevTerm, entries, leaderCommit) ==
    LET ok     == term >= current_term /\ PrevMatches(prev, prevTerm)
        newLog == IF ok THEN LogAfter(prev, entries) ELSE log
        commit == Min({leaderCommit, Len(newLog)})
        moved  == ok /\ commit > commit_index
    IN  /\ LoopIsFree
        /\ Adopt(term)
        /\ voted_for' = IF term > current_term THEN None ELSE voted_for
        /\ log' = newLog
        /\ commit_index' = IF moved THEN commit ELSE commit_index
        /\ spawned' = spawned + IF moved THEN 1 ELSE 0
        /\ UNCHANGED <<last_applied, durable, busy, applying, times, granted>>

TermAt(l, i) == IF i = 0 THEN 0 ELSE l[i]

\* A leader's request for entry i of its log, as replicate_log_entry makes it.
HandleAppendRequest(t, i, c) ==
    /\ i \in 1..Len(LeaderLog[t])
    /\ AppendEntries(t, i - 1, TermAt(LeaderLog[t], i - 1), <<LeaderLog[t][i]>>, c)

\* A heartbeat names the last entry of its log.
HandleHeartbeat(t, i, c) ==
    /\ i \in 0..Len(LeaderLog[t])
    /\ c <= i
    /\ AppendEntries(t, i, TermAt(LeaderLog[t], i), << >>, c)

\* handle_client_command appends and persists before it asks the peers; the
\* entry stays in the log whatever they answer.
HandleClientCommand ==
    /\ LoopIsFree /\ role = "Leader"
    /\ Len(log) < MaxLog
    /\ log' = Append(log, current_term)
    /\ busy' = "replicating"
    /\ UNCHANGED <<role, current_term, voted_for, commit_index, last_applied,
                   durable, applier, granted>>

\* Mutant: last_applied is only updated when the loop has finished.
ApplyUpToLate(c) ==
    \E k \in {i \in 0..c : i >= last_applied} :
        /\ times' = [i \in Index |->
               IF i \in last_applied + 1..k /\ i <= Len(log)
               THEN times[i] + 1 ELSE times[i]]
        /\ last_applied' = IF k = c THEN k ELSE last_applied

\* The state machine: entries after last_applied up to c.  The index goes up
\* before its entry is looked up and applied, so that the loop that ends on a
\* missing entry (a panic) or a failed one skips it.
ApplyUpTo(c) ==
    \/ /\ c <= last_applied
       /\ UNCHANGED <<times, last_applied>>
    \/ \E k \in last_applied + 1..c, done \in BOOLEAN :
        /\ k <= Len(log) + 1
        /\ done => k = c /\ k <= Len(log)
        /\ last_applied' = k
        /\ times' = [i \in Index |->
               IF i \in last_applied + 1..k /\ (i < k \/ done)
               THEN times[i] + 1 ELSE times[i]]

\* replicate_log_entry: with enough answers the entry is committed and applied
\* before the call returns.
FinishReplication ==
    /\ busy = "replicating"
    /\ \/ UNCHANGED <<commit_index, last_applied, times>>
       \/ /\ commit_index' = Max({commit_index, Len(log)})
          /\ IF Len(log) > commit_index THEN ApplyUpTo(Len(log))
             ELSE UNCHANGED <<last_applied, times>>
    /\ busy' = "no"
    /\ UNCHANGED <<role, current_term, voted_for, log, durable, spawned,
                   applying, granted>>

\* apply_committed_entries in a task of its own: the commit index is read
\* first, the rest happens under the lock of last_applied.
ApplierReadsCommit ==
    /\ spawned > 0
    /\ spawned' = spawned - 1
    /\ applying' = applying \cup {commit_index}
    /\ UNCHANGED <<volatile, durable, busy, times, granted>>

ApplierRuns(c) ==
    /\ c \in applying
    /\ applying' = applying \ {c}
    /\ ApplyUpTo(c)
    /\ UNCHANGED <<role, current_term, voted_for, log, commit_index, durable,
                   busy, spawned, granted>>

\* The process stops at any point and starts again.
Restart == Started(disk) /\ UNCHANGED durable

-----------------------------------------------------------------------------
Next ==
    \/ \E c \in Candidate, t \in 1..MaxTerm, i \in 0..MaxLog, lt \in 0..MaxTerm :
           lt <= t /\ (i = 0 <=> lt = 0) /\ HandleVoteRequest(c, t, i, lt)
    \/ StartElection \/ FinishElection
    \/ \E t \in LeaderTerm, i \in 0..MaxLog : \E c \in 0..LeaderCommit[t] :
           HandleAppendRequest(t, i, c) \/ HandleHeartbeat(t, i, c)
    \/ HandleClientCommand \/ FinishReplication
    \/ ApplierReadsCommit \/ (\E c \in applying : ApplierRuns(c))
    \/ Restart

Spec == Init /\ [][Next]_vars

-----------------------------------------------------------------------------
\* Between two starts the node grants its vote to at most one other candidate
\* in each term, although a lost election of its own withdraws the vote it had
\* given itself (start_election); across a restart it does not hold, since
\* handle_vote_request persists nothing.
OneVotePerTerm ==
    \A g, h \in granted : g[1] = h[1] => g = h

\* When the node accepts an entry from a leader, its log up to that entry is
\* the leader's, in whatever order requests of several leaders arrive and
\* whatever the node appended as a leader itself (handle_append_request,
\* handle_log_entries).
AcceptedEntriesMatchLeader ==
    [][\A t \in LeaderTerm, i \in 1..MaxLog, c \in 0..MaxLog :
           HandleAppendRequest(t, i, c) /\ log' # log =>
               SubSeq(log', 1, i) = SubSeq(LeaderLog[t], 1, i)]_vars

\* Between two starts no entry is applied twice, and none that was not
\* committed, with an applier running beside the loop and another one waiting
\* (apply_committed_entries): the price is that a failed entry is skipped.  The
\* types are checked with it.
AppliedOnceAndCommitted ==
    /\ TypeOK
    /\ \A i \in Index : /\ times[i] <= 1
                        /\ times[i] > 0 => i <= commit_index
=============================================================================
