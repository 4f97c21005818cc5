----------------------------- MODULE TokioRwLock -----------------------------
(***************************************************************************)
(* tokio::sync::RwLock as its callers use it: tasks queue in the order in  *)
(* which they ask, readers share, a writer is alone, and nobody passes a   *)
(* task that asked before, not even a reader a waiting writer.             *)
(***************************************************************************)
LOCAL INSTANCE Sequences

Free == [holders |-> {}, queue |-> <<>>]

Requested(lock, t, mode) ==
    [lock EXCEPT !.queue = Append(@, [task |-> t, mode |-> mode])]

\* The first in the queue gets in when those inside can share with it.
CanEnter(lock, t) ==
    /\ lock.queue # <<>>
    /\ Head(lock.queue).task = t
    /\ \A h \in lock.holders : h.mode = "read" /\ Head(lock.queue).mode = "read"

Entered(lock, t) ==
    [holders |-> lock.holders \cup {Head(lock.queue)}, queue |-> Tail(lock.queue)]

\* The guard of t is dropped.
Left(lock, t) == [lock EXCEPT !.holders = {h \in @ : h.task # t}]
=============================================================================
