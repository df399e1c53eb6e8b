------------------------------ MODULE WorkerPool ------------------------------
(***************************************************************************)
(* WorkerPool over InMemoryJobQueue, with Executor::execute seen through   *)
(* what it returns, ResultCollector with its observers, and the promise of *)
(* every job.  The environment (the CLI, the daemon thread, the benchmark) *)
(* enqueues jobs at any time after start() and calls stop() once.          *)
(***************************************************************************)
EXTENDS JobQueue

CONSTANTS Kind,         \* what a job's command is to Executor::execute
          Preemptible,  \* the jobs with time_quantum > 0
          Outcomes,     \* the ends of a sandboxed program that are explored
          MaxBursts,    \* bound: how often one job is preempted
          NumObservers, \* observers registered with the ResultCollector
          NoJob,        \* a worker's job_opt when it holds no job
          NoWorker      \* the owner of a free mutex

Kinds == {"program", "empty", "cd", "exit"}

\* How isolateAndRun can end: exit code 0, another exit code, SIGKILL, SIGSYS,
\* another signal, or an early return (pipe, clone or waitpid failed).
AllOutcomes == {"ok", "nonzero", "sigkill", "sigsys", "sigother", "error"}

ASSUME PoolAssumption ==
    /\ Kind \in [Jobs -> Kinds]
    /\ Preemptible \in SUBSET Jobs
    /\ Outcomes \in SUBSET AllOutcomes
    /\ Outcomes # {}
    /\ MaxBursts \in Nat
    /\ NumObservers \in Nat \ {0}
    /\ NoJob \notin Jobs
    /\ NoWorker \notin Workers

VARIABLES
    running_,        \* std::atomic<bool> running_
    wpc,             \* where each worker thread is
    cur,             \* the job each worker holds (job_opt)
    outcome,         \* exec_result of the job each worker holds
    elapsed_bursts,  \* Job::elapsed_bursts
    mutex_,          \* owner of ResultCollector::mutex_
    notified,        \* observers the owner of mutex_ has called so far
    seen,            \* the results each observer has been given, in order
    promise,         \* Job::result_promise
    submitted,       \* history: the jobs handed to enqueue by a submitter
    ctl,             \* where the thread that owns the pool is
    alive            \* the process has not called exit()

poolVars == <<running_, wpc, cur, outcome, elapsed_bursts>>
resultVars == <<mutex_, notified, seen, promise>>
vars == <<queueVars, poolVars, resultVars, submitted, ctl, alive>>

PC == {"unborn", "check", "dequeue", "execute", "submit", "observe", "fulfil", "exited"}
Ctl == {"new", "up", "stop_queue", "stop_notify", "join", "stopped"}
Verdicts == {"SUCCESS", "TIMEOUT", "SECCOMP_VIOLATION", "KILLED", "FAILED"}
Observers == 1..NumObservers

-------------------------------------------------------------------------------

\* The verdict workerLoop derives from exec_result.
Verdict(o) ==
    CASE o = "ok"       -> "SUCCESS"
      [] o = "sigkill"  -> "TIMEOUT"
      [] o = "sigsys"   -> "SECCOMP_VIOLATION"
      [] o = "sigother" -> "KILLED"
      [] OTHER          -> "FAILED"

\* The JobResult handed to the observers.
JobResult(j, o) == [job |-> j, verdict |-> Verdict(o)]

\* What execute(job) returns when it returns and the job was not preempted: an
\* empty command and cd succeed, a program ends in one of its ways.
ExecuteReturns(j) ==
    CASE Kind[j] = "program"         -> Outcomes
      [] Kind[j] \in {"empty", "cd"} -> {"ok"}
      [] Kind[j] = "exit"            -> {}

\* result_promise->set_value(success ? 0 : 1)
PromiseValue(o) == IF o = "ok" THEN "zero" ELSE "one"

Init ==
    /\ QueueInit
    /\ running_ = FALSE
    /\ wpc = [w \in Workers |-> "unborn"]
    /\ cur = [w \in Workers |-> NoJob]
    /\ outcome = [w \in Workers |-> "none"]
    /\ elapsed_bursts = [j \in Jobs |-> 0]
    /\ mutex_ = NoWorker
    /\ notified = 0
    /\ seen = [k \in Observers |-> <<>>]
    /\ promise = [j \in Jobs |-> "unset"]
    /\ submitted = {}
    /\ ctl = "new"
    /\ alive = TRUE

-------------------------------------------------------------------------------
(* The owner of the pool.                                                  *)

\* WorkerPool::start()
start ==
    /\ ctl = "new"
    /\ ctl' = "up"
    /\ running_' = TRUE
    /\ wpc' = [w \in Workers |-> "check"]
    /\ UNCHANGED <<queueVars, cur, outcome, elapsed_bursts, resultVars, submitted, alive>>

\* WorkerPool::stop(): running_ = false; a later call returns at once.
stopRunning ==
    /\ ctl = "up" /\ running_
    /\ running_' = FALSE
    /\ ctl' = "stop_queue"
    /\ UNCHANGED <<queueVars, wpc, cur, outcome, elapsed_bursts, resultVars, submitted, alive>>

\* stop(): job_queue_.stop(), in its two steps.
stopQueue ==
    /\ ctl = "stop_queue"
    /\ stopSet
    /\ ctl' = "stop_notify"
    /\ UNCHANGED <<poolVars, resultVars, submitted, alive>>

stopQueueNotify ==
    /\ ctl = "stop_notify"
    /\ stopNotify
    /\ ctl' = "join"
    /\ UNCHANGED <<poolVars, resultVars, submitted, alive>>

\* stop(): every worker is joined.
joinAll ==
    /\ ctl = "join"
    /\ \A w \in Workers : wpc[w] = "exited"
    /\ ctl' = "stopped"
    /\ UNCHANGED <<queueVars, poolVars, resultVars, submitted, alive>>

\* A submitter calls job_queue.enqueue(job).
submitJob(j) ==
    /\ ctl # "new"
    /\ j \notin submitted
    /\ submitted' = submitted \cup {j}
    /\ enqueue(j)
    /\ UNCHANGED <<poolVars, resultVars, ctl, alive>>

-------------------------------------------------------------------------------
(* One worker thread: workerLoop.                                          *)

Goto(w, pc) == wpc' = [wpc EXCEPT ![w] = pc]

\* while (running_)
checkRunning(w) ==
    /\ wpc[w] = "check"
    /\ Goto(w, IF running_ THEN "dequeue" ELSE "exited")
    /\ UNCHANGED <<queueVars, running_, cur, outcome, elapsed_bursts, resultVars,
                   submitted, ctl, alive>>

\* job_queue_.dequeue() blocks ...
workerSleep(w) ==
    /\ wpc[w] = "dequeue"
    /\ dequeueWait(w)
    /\ UNCHANGED <<poolVars, resultVars, submitted, ctl, alive>>

\* ... and may wake without a notification.
workerSpuriousWake(w) ==
    /\ wpc[w] = "dequeue"
    /\ spuriousWake(w)
    /\ UNCHANGED <<poolVars, resultVars, submitted, ctl, alive>>

\* job_queue_.dequeue() returns nullopt: break.
workerBreak(w) ==
    /\ wpc[w] = "dequeue"
    /\ dequeueNull(w)
    /\ Goto(w, "exited")
    /\ UNCHANGED <<running_, cur, outcome, elapsed_bursts, resultVars, submitted, ctl, alive>>

\* job_queue_.dequeue() returns a job.
workerTake(w) ==
    /\ wpc[w] = "dequeue"
    /\ \E i \in DOMAIN jobs_ :
          /\ dequeueJob(w, elapsed_bursts, i)
          /\ cur' = [cur EXCEPT ![w] = jobs_[i]]
    /\ Goto(w, "execute")
    /\ UNCHANGED <<running_, outcome, elapsed_bursts, resultVars, submitted, ctl, alive>>

\* A fault for mutation: the promise is set before the result is submitted.
FulfilFirst(w) ==
    /\ wpc[w] = "execute"
    /\ \E o \in ExecuteReturns(cur[w]) :
          /\ outcome' = [outcome EXCEPT ![w] = o]
          /\ promise' = [promise EXCEPT ![cur[w]] = PromiseValue(o)]
    /\ Goto(w, "submit")
    /\ UNCHANGED <<queueVars, running_, cur, elapsed_bursts, mutex_, notified, seen, submitted,
                   ctl, alive>>

\* executor_.execute returns a final result.
executeDone(w) ==
    /\ wpc[w] = "execute"
    /\ \E o \in ExecuteReturns(cur[w]) : outcome' = [outcome EXCEPT ![w] = o]
    /\ Goto(w, "submit")
    /\ UNCHANGED <<queueVars, running_, cur, elapsed_bursts, resultVars, submitted, ctl, alive>>

\* A fault for mutation: no continue after the enqueue, so the preempted job is
\* also reported.
PreemptWithoutContinue(w) ==
    /\ wpc[w] = "execute"
    /\ Kind[cur[w]] = "program" /\ cur[w] \in Preemptible
    /\ elapsed_bursts[cur[w]] < MaxBursts
    /\ elapsed_bursts' = [elapsed_bursts EXCEPT ![cur[w]] = @ + 1]
    /\ enqueue(cur[w])
    /\ Goto(w, "submit")
    /\ UNCHANGED <<running_, cur, outcome, resultVars, submitted, ctl, alive>>

\* A fault for mutation: the preempted job is not put back.
PreemptWithoutEnqueue(w) ==
    /\ wpc[w] = "execute"
    /\ Kind[cur[w]] = "program" /\ cur[w] \in Preemptible
    /\ elapsed_bursts[cur[w]] < MaxBursts
    /\ elapsed_bursts' = [elapsed_bursts EXCEPT ![cur[w]] = @ + 1]
    /\ cur' = [cur EXCEPT ![w] = NoJob]
    /\ Goto(w, "check")
    /\ UNCHANGED <<queueVars, running_, outcome, resultVars, submitted, ctl, alive>>

\* executor_.execute returns preempted: the burst is counted, the job goes back.
executePreempted(w) ==
    /\ wpc[w] = "execute"
    /\ Kind[cur[w]] = "program" /\ cur[w] \in Preemptible
    /\ elapsed_bursts[cur[w]] < MaxBursts
    /\ elapsed_bursts' = [elapsed_bursts EXCEPT ![cur[w]] = @ + 1]
    /\ enqueue(cur[w])
    /\ cur' = [cur EXCEPT ![w] = NoJob]
    /\ Goto(w, "check")
    /\ UNCHANGED <<running_, outcome, resultVars, submitted, ctl, alive>>

\* handleBuiltin: exit(0) ends the process from inside a worker.
executeExit(w) ==
    /\ wpc[w] = "execute"
    /\ Kind[cur[w]] = "exit"
    /\ alive' = FALSE
    /\ UNCHANGED <<queueVars, poolVars, resultVars, submitted, ctl>>

\* A fault for mutation: submitResult without its lock_guard.
SubmitWithoutLock(w) ==
    /\ wpc[w] = "submit"
    /\ mutex_' = w
    /\ Goto(w, "observe")
    /\ UNCHANGED <<queueVars, running_, cur, outcome, elapsed_bursts, notified, seen, promise,
                   submitted, ctl, alive>>

\* result_collector_.submitResult takes mutex_.
submitLock(w) ==
    /\ wpc[w] = "submit"
    /\ mutex_ = NoWorker
    /\ mutex_' = w
    /\ Goto(w, "observe")
    /\ UNCHANGED <<queueVars, running_, cur, outcome, elapsed_bursts, notified, seen, promise,
                   submitted, ctl, alive>>

\* A fault for mutation: one observer too many is called.
ObserveOnePast(w) ==
    /\ wpc[w] = "observe" /\ mutex_ = w
    /\ seen' = [seen EXCEPT ![notified + 1] = Append(@, JobResult(cur[w], outcome[w]))]
    /\ IF notified = NumObservers
         THEN mutex_' = NoWorker /\ notified' = 0 /\ Goto(w, "fulfil")
         ELSE notified' = notified + 1 /\ UNCHANGED <<mutex_, wpc>>
    /\ UNCHANGED <<queueVars, running_, cur, outcome, elapsed_bursts, promise,
                   submitted, ctl, alive>>

\* submitResult calls the next observer; after the last one it unlocks.
observe(w) ==
    /\ wpc[w] = "observe" /\ mutex_ = w
    /\ seen' = [seen EXCEPT ![notified + 1] = Append(@, JobResult(cur[w], outcome[w]))]
    /\ IF notified + 1 = NumObservers
         THEN mutex_' = NoWorker /\ notified' = 0 /\ Goto(w, "fulfil")
         ELSE notified' = notified + 1 /\ UNCHANGED <<mutex_, wpc>>
    /\ UNCHANGED <<queueVars, running_, cur, outcome, elapsed_bursts, promise,
                   submitted, ctl, alive>>

\* A fault for mutation: the promise is forgotten.
FulfilForgotten(w) ==
    /\ wpc[w] = "fulfil"
    /\ cur' = [cur EXCEPT ![w] = NoJob]
    /\ outcome' = [outcome EXCEPT ![w] = "none"]
    /\ Goto(w, "check")
    /\ UNCHANGED <<queueVars, running_, elapsed_bursts, resultVars, submitted, ctl, alive>>

\* result_promise->set_value; the worker goes back to while (running_).
fulfil(w) ==
    /\ wpc[w] = "fulfil"
    /\ promise' = [promise EXCEPT ![cur[w]] = PromiseValue(outcome[w])]
    /\ cur' = [cur EXCEPT ![w] = NoJob]
    /\ outcome' = [outcome EXCEPT ![w] = "none"]
    /\ Goto(w, "check")
    /\ UNCHANGED <<queueVars, running_, elapsed_bursts, mutex_, notified, seen,
                   submitted, ctl, alive>>

\* Nothing is left to do: the process is gone, or the pool is stopped and every
\* job has been submitted.
terminated ==
    /\ ~alive \/ (ctl = "stopped" /\ submitted = Jobs)
    /\ UNCHANGED vars

workerProgress(w) ==
    \/ checkRunning(w) \/ workerSleep(w) \/ workerBreak(w) \/ workerTake(w)
    \/ executeDone(w) \/ executePreempted(w) \/ executeExit(w)
    \/ submitLock(w) \/ observe(w) \/ fulfil(w)

Next ==
    \/ alive /\ start
    \/ alive /\ stopRunning
    \/ alive /\ stopQueue
    \/ alive /\ stopQueueNotify
    \/ alive /\ joinAll
    \/ alive /\ \E j \in Jobs : submitJob(j)
    \/ alive /\ \E w \in Workers : workerProgress(w)
    \/ alive /\ \E w \in Workers : workerSpuriousWake(w)
    \/ terminated

Spec == Init /\ [][Next]_vars

\* The operating system runs every thread.  Nothing obliges a submitter to submit
\* or the owner to stop the pool, nor a waiter to wake unnotified; a program ends
\* because it is finite (the benchmark) or because the watchdog ends it (main).
Fairness ==
    /\ WF_vars(alive /\ (start \/ stopQueue \/ stopQueueNotify \/ joinAll))
    /\ \A w \in Workers : WF_vars(alive /\ workerProgress(w))

FairSpec == Spec /\ Fairness

-------------------------------------------------------------------------------
(* Properties.                                                             *)

InQueue(j) == \E i \in DOMAIN jobs_ : jobs_[i] = j
Held(j) == \E w \in Workers : cur[w] = j
Resolved(j) == promise[j] # "unset"

\* The types of the variables.
TypeOK ==
    /\ QueueTypeOK
    /\ running_ \in BOOLEAN
    /\ wpc \in [Workers -> PC]
    /\ cur \in [Workers -> Jobs \cup {NoJob}]
    /\ outcome \in [Workers -> AllOutcomes \cup {"none"}]
    /\ elapsed_bursts \in [Jobs -> 0..MaxBursts]
    /\ mutex_ \in Workers \cup {NoWorker}
    /\ notified \in 0..(NumObservers - 1)
    /\ seen \in [Observers -> Seq([job : Jobs, verdict : Verdicts])]
    /\ promise \in [Jobs -> {"unset", "zero", "one"}]
    /\ submitted \in SUBSET Jobs
    /\ ctl \in Ctl
    /\ alive \in BOOLEAN

\* A submitted job is in exactly one place: once in the deque, in the hands of one
\* worker, or resolved.  enqueue, dequeue, the preempted branch of workerLoop and
\* set_value (which throws on a second call) hand the job over without losing or
\* doubling it, whatever the interleaving and also across stop().
JobConservation ==
    /\ \A a, b \in DOMAIN jobs_ : jobs_[a] = jobs_[b] => a = b
    /\ \A v, w \in Workers : cur[v] = cur[w] /\ cur[v] # NoJob => v = w
    /\ \A j \in Jobs :
          /\ j \in submitted <=> InQueue(j) \/ Held(j) \/ Resolved(j)
          /\ ~(InQueue(j) /\ Held(j))
          /\ ~(InQueue(j) /\ Resolved(j))
          /\ ~(Held(j) /\ Resolved(j))

\* The workers that will look at the deque without being woken.
Seeking == {w \in Workers : wpc[w] \in {"check", "dequeue"} /\ w \notin waiting}

\* No lost wake-up: while the pool runs, a worker sleeps in cv_.wait only if every
\* queued job has an awake worker of its own on the way to the deque.  This is what
\* one notify_one per enqueue under the mutex must achieve.
WorkConserving ==
    running_ /\ waiting # {} => Len(jobs_) <= Cardinality(Seeking)

\* The observers are called in turn under ResultCollector::mutex_, so all of them
\* are given the same results in the same order; a later observer lags an earlier
\* one by at most the result being submitted.
ObserversAgree ==
    \A k, m \in Observers :
        k < m => /\ IsPrefix(seen[m], seen[k])
                 /\ Len(seen[k]) <= Len(seen[m]) + 1

\* Every promise is set after, and agrees with, the one result each observer was
\* given for that job: whoever waits on the future finds the result published.
ResultBeforePromise ==
    \A j \in Jobs, k \in Observers :
        LET mine == {i \in DOMAIN seen[k] : seen[k][i].job = j}
        IN  /\ \A a, b \in mine : a = b
            /\ Resolved(j) =>
                 \E i \in mine : seen[k][i].verdict = "SUCCESS" <=> promise[j] = "zero"

\* Unless the pool is stopped or a job runs exit, every submitted job is resolved.
EveryJobResolved ==
    \A j \in Jobs : (j \in submitted) ~> (Resolved(j) \/ ctl # "up" \/ ~alive)

\* stop() returns: every worker leaves its loop, whatever it was doing.
StopReturns == (ctl = "stop_queue") ~> (ctl = "stopped" \/ ~alive)

-------------------------------------------------------------------------------
(* Refinement of JobService.                                               *)

AbstractStatus ==
    [j \in Jobs |-> IF j \notin submitted THEN "new"
                    ELSE IF InQueue(j) THEN "queued"
                    ELSE IF Held(j) THEN "running"
                    ELSE "done"]

PublishedJobs ==
    {j \in Jobs : \E i \in DOMAIN seen[NumObservers] : seen[NumObservers][i].job = j}

Service == INSTANCE JobService
    WITH Capacity <- Cardinality(Workers),
         status <- AbstractStatus,
         published <- PublishedJobs

\* Seen from outside, the pool is a JobService: at most one running job per worker,
\* a preempted job is not published, a job is done only once its result has reached
\* every observer.
ImplementsJobService == Service!Spec

===============================================================================
