-------------------------------- MODULE Engine --------------------------------
(***************************************************************************)
(* main(): the prompt loop and the detached daemon thread, two submitters  *)
(* over one WorkerPool that share the atomic counter next_job_id.  The     *)
(* prompt thread also owns the pool: it starts it, and stops it at end of  *)
(* input; when it returns, what the daemon thread refers to is destroyed.  *)
(***************************************************************************)
EXTENDS WorkerPool, Parser

CONSTANTS PromptJobs, \* the jobs typed at the prompt
          Line        \* the line each of them is typed as, in tokens

ASSUME EngineAssumption ==
    /\ PromptJobs \in SUBSET Jobs
    /\ DOMAIN Line = PromptJobs
    /\ \A j \in PromptJobs :  \* the prompt runs cd and exit itself
          /\ parseLine(Line[j]).executable \notin {"", "cd", "exit"}
          /\ Kind[j] = "program"
    /\ IsFiniteSet(Jobs)

DaemonJobs == Jobs \ PromptJobs

VARIABLES
    next_job_id,  \* std::atomic<uint64_t> next_job_id
    id,           \* Job::id, 0 before it is given
    cli,          \* where the prompt thread is
    line,         \* the job the prompt thread is handling
    daemon,       \* the job the daemon thread has numbered and not enqueued yet
    announced     \* the id the prompt printed for a background job, 0 for none

mainVars == <<next_job_id, id, cli, line, daemon, announced>>
evars == <<vars, mainVars>>

EInit ==
    /\ Init
    /\ next_job_id = 1
    /\ id = [j \in Jobs |-> 0]
    /\ cli = "boot"
    /\ line = NoJob
    /\ daemon = NoJob
    /\ announced = [j \in Jobs |-> 0]

-------------------------------------------------------------------------------

\* Faults for mutation: pre-increment, and no increment.
TakeIdPreIncrement(j) ==
    /\ id' = [id EXCEPT ![j] = next_job_id + 1]
    /\ next_job_id' = next_job_id + 1

TakeIdNoIncrement(j) ==
    /\ id' = [id EXCEPT ![j] = next_job_id]
    /\ UNCHANGED next_job_id

\* Job job{next_job_id++, ...}
takeId(j) ==
    /\ id' = [id EXCEPT ![j] = next_job_id]
    /\ next_job_id' = next_job_id + 1

\* worker_pool.start(), then the prompt and the daemon thread.
boot ==
    /\ cli = "boot"
    /\ start
    /\ cli' = "prompt"
    /\ UNCHANGED <<next_job_id, id, line, daemon, announced>>

\* A line is read and becomes a Job with its number.
promptRead(j) ==
    /\ cli = "prompt" /\ id[j] = 0
    /\ takeId(j)
    /\ line' = j
    /\ cli' = "enqueue"
    /\ UNCHANGED <<vars, daemon, announced>>

\* job_queue.enqueue; a foreground job is then waited for, a background one announced.
promptEnqueue ==
    /\ cli = "enqueue"
    /\ submitJob(line)
    /\ cli' = IF parseLine(Line[line]).isBackground THEN "announce" ELSE "wait"
    /\ UNCHANGED <<next_job_id, id, line, daemon, announced>>

\* A fault for mutation: the prompt does not wait.
PromptDoesNotWait ==
    /\ cli = "wait"
    /\ cli' = "prompt"
    /\ line' = NoJob
    /\ UNCHANGED <<vars, next_job_id, id, daemon, announced>>

\* future.wait() returns; the terminal is taken back.
promptWaited ==
    /\ cli = "wait" /\ Resolved(line)
    /\ cli' = "prompt"
    /\ line' = NoJob
    /\ UNCHANGED <<vars, next_job_id, id, daemon, announced>>

\* A fault for mutation: the next job's number.
AnnounceNext ==
    /\ cli = "announce"
    /\ announced' = [announced EXCEPT ![line] = next_job_id]
    /\ cli' = "prompt"
    /\ line' = NoJob
    /\ UNCHANGED <<vars, next_job_id, id, daemon>>

\* The number printed is next_job_id - 1, read again.
promptAnnounce ==
    /\ cli = "announce"
    /\ announced' = [announced EXCEPT ![line] = next_job_id - 1]
    /\ cli' = "prompt"
    /\ line' = NoJob
    /\ UNCHANGED <<vars, next_job_id, id, daemon>>

processEnds ==
    /\ alive' = FALSE
    /\ UNCHANGED <<queueVars, poolVars, resultVars, submitted, ctl, mainVars>>

\* exit at the prompt: executor.execute calls exit(0) in this thread.
promptExit ==
    /\ cli = "prompt"
    /\ processEnds

\* End of input: worker_pool.stop() ...
promptEof ==
    /\ cli = "prompt"
    /\ stopRunning
    /\ cli' = "stop"
    /\ UNCHANGED <<next_job_id, id, line, daemon, announced>>

\* A fault for mutation: the workers are not joined.
PromptStopNoJoin ==
    /\ cli = "stop"
    /\ \/ stopQueue
       \/ stopQueueNotify
       \/ /\ ctl = "join"
          /\ ctl' = "stopped"
          /\ UNCHANGED <<queueVars, poolVars, resultVars, submitted, alive>>
    /\ UNCHANGED mainVars

promptStop ==
    /\ cli = "stop"
    /\ stopQueue \/ stopQueueNotify \/ joinAll
    /\ UNCHANGED mainVars

\* ... and main returns: its pool, collector, queue and executor are destroyed ...
mainReturns ==
    /\ cli = "stop" /\ ctl = "stopped"
    /\ cli' = "destroyed"
    /\ UNCHANGED <<vars, next_job_id, id, line, daemon, announced>>

\* ... and with the process the daemon thread ends.
mainReturned == cli = "destroyed" /\ processEnds

\* The daemon thread parses a line of /tmp/isolyx_cmds and numbers the job ...
daemonRead(j) ==
    /\ cli # "boot" /\ daemon = NoJob /\ id[j] = 0
    /\ takeId(j)
    /\ daemon' = j
    /\ UNCHANGED <<vars, cli, line, announced>>

\* ... then enqueues it.
daemonEnqueue ==
    /\ daemon # NoJob /\ cli # "destroyed"
    /\ submitJob(daemon)
    /\ daemon' = NoJob
    /\ UNCHANGED <<next_job_id, id, cli, line, announced>>

\* The queue it refers to is destroyed: the engine crashes, or nothing comes of it.
daemonDangles ==
    /\ daemon # NoJob /\ cli = "destroyed"
    /\ \/ processEnds
       \/ daemon' = NoJob /\ UNCHANGED <<vars, next_job_id, id, cli, line, announced>>

poolStep ==
    /\ \E w \in Workers : workerProgress(w) \/ workerSpuriousWake(w)
    /\ UNCHANGED mainVars

promptStep ==
    \/ boot \/ (\E j \in PromptJobs : promptRead(j)) \/ promptEnqueue \/ promptWaited
    \/ promptAnnounce \/ promptExit \/ promptEof \/ promptStop \/ mainReturns
    \/ mainReturned

daemonStep == (\E j \in DaemonJobs : daemonRead(j)) \/ daemonEnqueue \/ daemonDangles

ENext ==
    \/ alive /\ (promptStep \/ daemonStep \/ poolStep)
    \/ ~alive /\ UNCHANGED evars

ESpec == EInit /\ [][ENext]_evars

\* The kernel runs every thread; nobody has to type or to send anything.
EFairness ==
    /\ WF_evars(alive /\ (boot \/ promptEnqueue \/ promptWaited \/ promptAnnounce
                          \/ promptStop \/ mainReturns \/ mainReturned))
    /\ WF_evars(alive /\ (daemonEnqueue \/ daemonDangles))
    /\ \A w \in Workers : WF_evars(alive /\ workerProgress(w) /\ UNCHANGED mainVars)

EFairSpec == ESpec /\ EFairness

-------------------------------------------------------------------------------
(* Properties.                                                             *)

\* The types of the variables.
EngineTypeOK ==
    /\ TypeOK
    /\ next_job_id \in 1..(Cardinality(Jobs) + 1)
    /\ id \in [Jobs -> 0..Cardinality(Jobs)]
    /\ cli \in {"boot", "prompt", "enqueue", "wait", "announce", "stop", "destroyed"}
    /\ line \in PromptJobs \cup {NoJob}
    /\ daemon \in DaemonJobs \cup {NoJob}
    /\ announced \in [Jobs -> 0..Cardinality(Jobs)]

\* Whichever submitter numbered them, two jobs the observers report never share an
\* id, and a job is numbered before it can be reported.
ReportedIdsUnique ==
    \A k \in Observers : \A x, y \in DOMAIN seen[k] :
        /\ id[seen[k][x].job] # 0
        /\ id[seen[k][x].job] = id[seen[k][y].job] => x = y

\* When the prompt comes back after a line that is not sent to the background, that
\* job's result has reached every observer: its log line precedes the next prompt.
PromptAfterResult ==
    cli # "boot" =>
        \A j \in PromptJobs : WaitsForJob(Line[j]) /\ id[j] # 0 /\ line # j =>
            \A k \in Observers : \E i \in DOMAIN seen[k] : seen[k][i].job = j

\* A prompt that waits for a foreground job comes back, however many background and
\* daemon jobs compete with it, unless some job runs exit.
PromptReturns == (cli = "wait") ~> (cli = "prompt" \/ ~alive)

\* End of input ends the engine, after the jobs being run and without the others.
EofEndsEngine == (cli = "stop") ~> ~alive

\* The number announced for a background job is that job's own, unless the daemon thread
\* numbered jobs between the prompt's two reads of next_job_id: then it is the last of
\* theirs, never a number of another line or of nobody.
AnnouncedIdIsOwn ==
    \A j \in Jobs : announced[j] # 0 =>
        /\ announced[j] >= id[j]
        /\ \A n \in id[j]..announced[j] : \E k \in {j} \cup DaemonJobs : id[k] = n

\* What main destroys nobody but the daemon thread uses any more: every worker has
\* been joined, so the limiter and watchdogs of every run are gone, and each job is
\* resolved or has never been taken from the queue.
WorkersGoneBeforeMain ==
    cli = "destroyed" =>
        /\ \A w \in Workers : wpc[w] = "exited"
        /\ \A j \in submitted : Resolved(j) \/ InQueue(j)

===============================================================================
