------------------------------- MODULE JobQueue -------------------------------
(***************************************************************************)
(* InMemoryJobQueue: a deque ordered by a scheduler, guarded by one mutex, *)
(* with one condition variable.  Each operation's body runs under the      *)
(* mutex from its first to its last line, so it is one atomic action; the  *)
(* exceptions are stop(), which notifies after unlocking, and dequeue(),   *)
(* which gives the mutex up while it waits.  waiting is the set of threads *)
(* asleep inside cv_.wait.                                                 *)
(***************************************************************************)
EXTENDS Schedulers, FiniteSets

CONSTANT Workers     \* the threads that call dequeue

ASSUME WorkersAssumption == Workers # {} /\ IsFiniteSet(Workers)

VARIABLES jobs_,     \* std::deque<Job> jobs_
          stopping_, \* bool stopping_
          waiting    \* threads blocked in cv_.wait

queueVars == <<jobs_, stopping_, waiting>>

QueueTypeOK ==
    /\ jobs_ \in Seq(Jobs)
    /\ stopping_ \in BOOLEAN
    /\ waiting \in SUBSET Workers

QueueInit ==
    /\ jobs_ = <<>>
    /\ stopping_ = FALSE
    /\ waiting = {}

-------------------------------------------------------------------------------

\* A fault for mutation: wake somebody only when the queue was empty.
NotifyOneIfEmpty ==
    \/ (waiting = {} \/ jobs_ # <<>>) /\ waiting' = waiting
    \/ jobs_ = <<>> /\ \E w \in waiting : waiting' = waiting \ {w}

\* cv_.notify_one(): one arbitrary waiter leaves cv_.wait and looks again.
notify_one ==
    \/ waiting = {} /\ waiting' = waiting
    \/ \E w \in waiting : waiting' = waiting \ {w}

\* enqueue(job)
enqueue(j) ==
    /\ jobs_' = addJob(jobs_, j)
    /\ notify_one
    /\ UNCHANGED stopping_

\* dequeue(): the predicate of cv_.wait is false, the thread sleeps.
dequeueWait(w) ==
    /\ w \notin waiting
    /\ jobs_ = <<>> /\ ~stopping_
    /\ waiting' = waiting \cup {w}
    /\ UNCHANGED <<jobs_, stopping_>>

\* The standard lets cv_.wait return unnotified; the predicate is looked at again.
spuriousWake(w) ==
    /\ w \in waiting
    /\ waiting' = waiting \ {w}
    /\ UNCHANGED <<jobs_, stopping_>>

\* dequeue() returns nullopt.
dequeueNull(w) ==
    /\ w \notin waiting
    /\ stopping_ /\ jobs_ = <<>>
    /\ UNCHANGED queueVars

\* dequeue() returns the job at position i, also when the queue is stopping.
dequeueJob(w, elapsed, i) ==
    /\ w \notin waiting
    /\ IsNextJob(jobs_, elapsed, i)
    /\ jobs_' = eraseJob(jobs_, i)
    /\ UNCHANGED <<stopping_, waiting>>

\* stop(), inside the lock_guard's scope ...
stopSet ==
    /\ stopping_' = TRUE
    /\ UNCHANGED <<jobs_, waiting>>

\* A fault for mutation: notify_one for notify_all.
StopNotifyOne ==
    /\ notify_one
    /\ UNCHANGED <<jobs_, stopping_>>

\* ... and after it: cv_.notify_all().
stopNotify ==
    /\ waiting' = {}
    /\ UNCHANGED <<jobs_, stopping_>>

===============================================================================
