----------------------------- MODULE CommandLoop -----------------------------
(***************************************************************************)
(* The loop of src/distributed/consensus.rs that executes what the Raft    *)
(* node of a manager has committed (start_command_processing), beside that *)
(* node.  An entry it receives replaces what its log has from that place   *)
(* on, whether that is committed or not, so that the log may become        *)
(* shorter than its commit index and differ from what was executed.        *)
(*                                                                         *)
(* The loop wakes up, reads the commit index and goes through the entries  *)
(* after last_applied.  An entry that fails is left behind: the next one   *)
(* that succeeds moves last_applied past it, and only a failed entry that  *)
(* ends the log is tried again.                                            *)
(***************************************************************************)
EXTENDS Integers, Sequences, FiniteSets, SequencesExt

CONSTANTS Command,     \* records [kind, points]
          MaxEntries,  \* bound on the log
          MaxErrors    \* bound on the errors of the storage and the cuts of the log

ASSUME LoopAssumption ==
    /\ \A c \in Command :
          /\ c.kind \in {"upsert", "delete", "createShard", "dropShard", "garbled"}
          /\ c.points \in Seq(Range(c.points))
    /\ MaxEntries \in Nat /\ MaxErrors \in Nat

VARIABLES log, committed,  \* the log of the Raft node, and its commit index
          last_applied,
          round,           \* where the loop is
          storage,         \* the points stored
          executed,        \* history: index and command of what was executed, in turn
          failed,          \* history: entries that failed or were missing once
          replaced,        \* history: committed entries that were cut off
          errors           \* how many errors and cuts there were

raftVars == <<log, committed, replaced>>
ownVars == <<last_applied, round, storage, executed, failed>>
loopVars == <<raftVars, ownVars, errors>>

Asleep == [at |-> "asleep"]

LoopInit ==
    /\ log = << >> /\ committed = 0 /\ replaced = {}
    /\ last_applied = 0 /\ round = Asleep
    /\ storage = {}
    /\ executed = << >> /\ failed = {} /\ errors = 0

-----------------------------------------------------------------------------
(* The Raft node.  What it sends to others, and what they accept, is left   *)
(* to RaftNode; here it may hear anything that fits behind an entry it has. *)

\* A leader adds a command at the end of the log it has, whatever is committed.
AppendCommand(c) ==
    /\ Len(log) < MaxEntries
    /\ log' = Append(log, c)
    /\ UNCHANGED <<committed, replaced, ownVars, errors>>

\* A request carries one entry.  It goes behind the first prev entries, and what
\* followed them is gone, conflicting or not and committed or not.
ReceiveEntry(prev, c) ==
    /\ prev \in 0..Len(log) /\ prev < MaxEntries
    /\ IF prev = Len(log) THEN UNCHANGED errors
       ELSE errors < MaxErrors /\ errors' = errors + 1
    /\ log' = Append(SubSeq(log, 1, prev), c)
    /\ replaced' = replaced \cup prev + 1..committed
    /\ UNCHANGED <<committed, ownVars>>

\* By a majority, or by the commit index of a leader, as far as the log goes.
CommitUpTo(index) ==
    /\ index \in committed + 1..Len(log) /\ committed' = index
    /\ UNCHANGED <<log, replaced, ownVars, errors>>

-----------------------------------------------------------------------------
(* The loop.                                                               *)

WakeUp ==
    /\ round = Asleep /\ committed > last_applied
    /\ round' = [at |-> "entry", index |-> last_applied + 1, upto |-> committed]
    /\ UNCHANGED <<raftVars, last_applied, storage, executed, failed, errors>>

NextEntry == [at |-> "entry", index |-> round.index + 1, upto |-> round.upto]

AtEntry == round.at = "entry" /\ round.index <= round.upto

Entry == log[round.index]

Readable == round.index <= Len(log) /\ Entry.kind # "garbled"

\* What the loop notes of an execution, here as history.
Executed(command) == Append(executed, [index |-> round.index, command |-> command])

\* A command to drop a shard is ignored, and counts as applied; an entry that is
\* missing or cannot be read does not.
SkipEntry ==
    /\ AtEntry
    /\ \/ /\ round.index <= Len(log) /\ Entry.kind = "dropShard"
          /\ last_applied' = round.index /\ executed' = Executed(Entry) /\ UNCHANGED failed
       \/ /\ ~ Readable
          /\ failed' = failed \cup {round.index} /\ UNCHANGED <<last_applied, executed>>
    /\ round' = NextEntry
    /\ UNCHANGED <<raftVars, storage, errors>>

\* What a command executes on: nothing is created for a shard, and the command
\* succeeds (execute_shard_operation).
PointsOf(c) == IF c.kind = "createShard" THEN << >> ELSE c.points

BeginEntry ==
    /\ AtEntry /\ round.index <= Len(log)
    /\ Entry.kind \in {"upsert", "delete", "createShard"}
    /\ round' = [at |-> "points", index |-> round.index, upto |-> round.upto,
                 command |-> Entry, todo |-> PointsOf(Entry)]
    /\ UNCHANGED <<raftVars, last_applied, storage, executed, failed, errors>>

\* execute_vector_operation goes through the points, and ends with the first
\* error of the storage: the points before it stay as they are then.
ExecutePoint ==
    /\ round.at = "points" /\ round.todo # << >>
    /\ \/ /\ storage' = IF round.command.kind = "upsert"
                        THEN storage \cup {Head(round.todo)} ELSE storage \ {Head(round.todo)}
          /\ round' = [round EXCEPT !.todo = Tail(@)]
          /\ UNCHANGED <<failed, errors>>
       \/ /\ errors < MaxErrors /\ errors' = errors + 1
          /\ failed' = failed \cup {round.index}
          /\ round' = NextEntry
          /\ UNCHANGED storage
    /\ UNCHANGED <<raftVars, last_applied, executed>>

\* Mutant: what was executed is not noted.
EndEntryUnnoted ==
    /\ round.at = "points" /\ round.todo = << >>
    /\ executed' = Executed(round.command)
    /\ round' = NextEntry
    /\ UNCHANGED <<raftVars, last_applied, storage, failed, errors>>

EndEntry ==
    /\ round.at = "points" /\ round.todo = << >>
    /\ last_applied' = round.index
    /\ executed' = Executed(round.command)
    /\ round' = NextEntry
    /\ UNCHANGED <<raftVars, storage, failed, errors>>

EndRound ==
    /\ round.at = "entry" /\ round.index > round.upto
    /\ round' = Asleep
    /\ UNCHANGED <<raftVars, last_applied, storage, executed, failed, errors>>

LoopStep == WakeUp \/ SkipEntry \/ BeginEntry \/ ExecutePoint \/ EndEntry \/ EndRound

LoopNext ==
    \/ \E c \in Command : AppendCommand(c) \/ \E prev \in 0..Len(log) : ReceiveEntry(prev, c)
    \/ \E index \in 1..Len(log) : CommitUpTo(index)
    \/ LoopStep

LoopSpec == LoopInit /\ [][LoopNext]_loopVars /\ WF_loopVars(LoopStep)

-----------------------------------------------------------------------------
\* Commands are executed once committed, in the order of their places in the log,
\* each place at most once, retries included; and one is passed over only because
\* it failed or was missing when its turn came (consensus.rs:331-391).
CommandsRunInOrder ==
    /\ \A i \in DOMAIN executed : executed[i].index <= committed
    /\ \A i, j \in DOMAIN executed : i < j => executed[i].index < executed[j].index
    /\ \A i \in 1..last_applied :
          i \in failed \/ \E k \in DOMAIN executed : executed[k].index = i

\* What was executed is what the log has at its place, although the loop reads
\* the entry before it works on it, unless the Raft node cut off what it had
\* committed (consensus.rs:335, raft.rs:1268-1275).
ExecutionFollowsLog ==
    \A i \in DOMAIN executed : LET index == executed[i].index IN
        index \in replaced \/ (index <= Len(log) /\ log[index] = executed[i].command)

\* The i-th command executed is of the given kind and about the point.
Concerns(i, kind, p) ==
    executed[i].command.kind = kind /\ p \in Range(executed[i].command.points)

\* As long as nothing failed or was missing, a point is stored between two rounds
\* just if the last command executed about it was an upsert.
StorageFollowsExecution ==
    round = Asleep /\ failed = {} =>
        \A p \in storage \cup UNION {Range(executed[i].command.points) : i \in DOMAIN executed} :
            p \in storage <=>
                \E i \in DOMAIN executed :
                    /\ Concerns(i, "upsert", p)
                    /\ \A j \in DOMAIN executed : i < j => ~Concerns(j, "delete", p)

\* What is committed takes effect in the order of the log and once, as the log says
\* as long as it keeps what is committed, and leaves in the storage what was
\* executed (consensus.rs:331-391).
CommandsTakeEffectInOrder ==
    CommandsRunInOrder /\ ExecutionFollowsLog /\ StorageFollowsExecution

\* What is committed is applied in the end, once commands have stopped coming,
\* but for entries at the end of the log that are missing or unreadable, over
\* which the loop goes again and again.
CommittedIsApplied ==
    []<>(\A i \in last_applied + 1..committed : i > Len(log) \/ log[i].kind = "garbled")
=============================================================================
