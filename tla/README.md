# Isolyx: a TLA+ verification project

Isolyx runs commands in Linux sandboxes: a prompt and a command pipe submit
jobs to a queue, worker threads take them in the order a scheduler chooses,
each job is executed in a cloned child with its own namespaces, cgroup, seccomp
filter and watchdogs, and the result goes to a logger and a dashboard. This
directory models the concurrent core of that program in TLA+, model-checks it
with TLC on small instances and proves with TLAPS, for all instances, every
safety property of the passing runs and the refinement of the abstract service.

## Inventory

| Component | State | Operations | What makes it correct |
|---|---|---|---|
| Schedulers (`FCFS`, `RoundRobin`, `Priority`, `MLFQ`) | none; they work on the queue's deque | `addJob`, `getNextJob` | the choice is the one the policy names; nobody is passed over for ever |
| `InMemoryJobQueue` | `jobs_`, `stopping_`, mutex, condition variable | `enqueue`, `dequeue`, `stop` | no lost wake-up, no lost or doubled job |
| `WorkerPool` | `running_`, worker threads, the job each holds | `start`, `stop`, `workerLoop` | every job resolved once, `stop` returns |
| `ResultCollector`, observers | observer list, mutex | `submitResult`, `onResult` | all observers see the same results in the same order, before the promise |
| `Executor` | factories | `execute`, builtins `cd`, `exit` | every limiter and watchdog is destroyed when `execute` returns |
| `LinuxNamespaceIsolator` | `Job::pid`, `unique_id`, `file_counter`, the child | `isolateAndRun`, `child_entry` | limits before the program, one final status, a preempted child is stopped |
| `TimeoutWatchdog`, `AnomalyWatchdog`, `CompositeWatchdog` | `running_`, thread, target pid | `start`, `stop` | a run always ends; another child is killed at most in a known window |
| `CgroupV2Limiter` | a directory, the generator of its name | constructor, `applyToPid`, destructor | the child is a member before it runs, of a directory of its own; the directory is removed |
| `SeccompDenylistPolicy` | a filter context | `init`, `getContext` | loaded before `execvp` |
| `PerLanguageRootfsProvider` | none; the working directory | `prepareRootfs` | the path exists for every job |
| `Parser` | none | `parseLine`, `parsePipeline` | words, targets and `&` are told apart |
| `Executor::executePipeline` | pipes, children | `executePipeline`, `reapZombies` | every pipe end is closed where it must be |
| `main` | `next_job_id`, prompt, daemon thread | prompt loop, command pipe, shutdown | unique ids, the prompt comes back, end of input ends the engine |
| `DashboardObserver`, `server.js` | two named pipes, `pendingRequests` | `onResult`, `POST /api/submit`, the read stream | a result finds its request, neither side holds the other up |
| Benchmark, web page, JSON library | | | see "Not modelled" |

Interaction: `main`'s two submitters share `next_job_id` and the queue; workers
share the queue and the collector; each `execute` owns a limiter and two
watchdog threads that act on the child through its process id only; the children
share one root file system, which their programs can write to; the dashboard's API talks to the daemon thread and to
the observer over two named pipes that either side opens and closes at any time.
What is hard here is concurrency (threads, children,
watchdogs), signals sent by process id, failures of single calls, and what
happens between two of them. `PROJECT.json` lists these hazards with the line
where each one bites.

## Modules

| Module | Models | Source |
|---|---|---|
| `Schedulers` | the position a strategy takes, as a predicate | `src/*Scheduler.cpp` |
| `JobQueue` | the queue's operations as actions; extends `Schedulers` | `InMemoryJobQueue.cpp` |
| `WorkerPool` | pool, collector, promises over `JobQueue` | `WorkerPool.cpp`, `ResultCollector.cpp`, `Executor::execute` |
| `JobService` | abstract: accept, begin, yield, publish, finish | what the pool promises |
| `Overtaking` | `WorkerPool` plus a history of who passed whom | the schedulers' fairness |
| `Parser` | `parseLine` as a fold over tokens, and what it should return | `Parser.cpp` |
| `Engine` | prompt, daemon thread and shutdown over `WorkerPool` and `Parser` | `main.cpp` |
| `Isolator` | one `execute` of a program per job: worker, child, watchdogs, limiter, signals | `LinuxNamespaceIsolator.cpp`, `*Watchdog.cpp`, `CgroupV2Limiter.cpp` |
| `Limiter` | concurrent limiters: names, directories, caps, kill and removal | `CgroupV2Limiter.cpp` |
| `Sandbox` | the directory and files concurrent children share, `cd`, a restart | `child_entry`, `isolateAndRun`, `PerLanguageRootfsProvider.cpp` |
| `Pipeline` | a line of piped commands, their ends and their ending | `Executor::executePipeline` |
| `Dashboard` | the two named pipes between engine and API | `DashboardObserver.cpp`, `main.cpp`, `server.js` |
| `WorkerPoolProofs` | theorems about `WorkerPool` and its refinement of `JobService` | |
| `OvertakingProofs`, `EngineProofs` | theorems about the two modules over the pool; extend `WorkerPoolProofs` | |
| `IsolatorProofs`, `LimiterProofs`, `SandboxProofs`, `PipelineProofs`, `DashboardProofs` | theorems about the other five | |
| `MC*` | constants for TLC; `Pipeline` and `Dashboard` need none | |

Definitions carry the names of the code where TLA+ allows it; `PROJECT.json`
maps each one to its lines. Definitions commented "a fault for mutation" are
plausible bugs used to see that a property can fail; no specification uses them.

How the code becomes actions:

* **Queue.** Each operation is one action, because its body holds the mutex from
  beginning to end. Two are split: `stop()` notifies after it unlocks
  (`stopSet`, `stopNotify`), and `dequeue()` gives the mutex up inside
  `cv_.wait` (`dequeueWait`, then `dequeueJob` or `dequeueNull`). `notify_one`
  wakes an arbitrary waiter; a waiter may wake unnotified.
* **Worker.** `wpc` follows `workerLoop`: `check` (`while (running_)`),
  `dequeue`, `execute`, `submit` and `observe` (the collector's lock and one
  observer at a time), `fulfil`. `execute` is abstracted to what it returns;
  `Isolator` opens it. `exit(0)` inside a worker ends the process (`alive`).
* **Isolator.** `ipc` follows `isolateAndRun` and the destructors at the end of
  `execute`. The child is `blocked` in its first `read`, then in `setup`, then
  in its own process `group`, then it is the `user`'s program, a `zombie` or
  `reaped`. Signals become pending and are acted on later. `kill(-pid)` reaches
  a child only after its `setpgid`; `kill(pid)` reaches whoever has that number
  now. The watchdog threads kill the group and then the process; the timeout's
  holds its mutex meanwhile, the anomaly's does not. A child inherits the write
  end of its own sync pipe, so it never sees end-of-file there; a child cloned
  in between inherits the read end of another one's, in which case writing to a
  dead child's pipe does not raise SIGPIPE.
  A child whose `setenv` or `perror` needs a lock that another thread held at
  the moment of `clone` stays where it is for ever (fault `locks`), before its
  `setpgid` or, after a failing `seccomp_load` or `execvp`, behind it.
  `path` is the directory a limiter has drawn; under fault `names` it may be
  another run's. `limiterKill` sends SIGKILL to every child listed there, whoever's
  it is, and `purgedBy` records by whom. `waitpid` never returns -1 here: it could
  for a child somebody else has reaped (`reapZombies` has no caller) or when a
  handler interrupts it, and `main` installs none: it ignores SIGTTOU or gives
  it its default, no more.
* **Limiter.** A draw from the static generator is a load and a store of its
  index, two steps of an unlocked `mt19937`; distinct indices stand for distinct
  names. The refill after 624 draws is left out: it would only add ways to
  collide after a race. That two indices never give one number (of 32
  random bits) is assumed here, not in `Isolator`. The directory exists by name, so two limiters of one
  name share it, its caps and its members. Making the directory, writing a cap
  file and joining may each fail (`Faults`); the code prints that, if anything,
  and goes on, and `failed` records it.
* **Sandbox.** `rmdir` of a directory that is a mount point only in *other*
  mount namespaces succeeds on Linux and detaches those mounts, so `mounted` is
  emptied. Contents of output files are the set of jobs that wrote to them.
  `restart` is `exit(0)` followed by a new engine: the children of the old one
  become `orphans` that run on, nobody collects or kills them, and
  `file_counter` is 1 again. A file that was deleted while such a child has it
  open takes no more part (`opened`). The programs in `Meddlers` reach every file
  of the root, by a redirection or by what they do (`Touch`): they may take over
  the name of any output file (write, truncate, remove, rename, link), after which
  that name is `spoilt` and what is read there may be anybody's, or make a file, a
  directory or nothing of `oldroot` (`tampered`). A failing redirection ends the
  child, a failing `pipe` or `clone` the run. `cd` moves the whole process, so every
  launch finds it in the directory that has `rootfs_base` or in one that has not
  (`WorkingDirectories`).
* **Pipeline.** `readers` and `writers` say which process has which end of which
  pipe; `fork` copies the parent's, `dup2`, `close` and the end of a process
  take them away. A program alternates between taking input and giving output,
  blocks on an empty or full pipe, ends at end-of-file and by SIGPIPE.
* **Dashboard.** A named pipe lives while somebody has an end of it: its contents
  go with the last one. A blocking `open` waits for the other side and counts as
  a reader meanwhile; `O_NONBLOCK` for writing fails at once. A handler of
  `server.js` runs to its end before the event loop delivers anything, so the
  data that the thread pool read waits for it. After `EPIPE` the handler
  answers 500 and keeps its descriptor (`leaked`), which keeps the daemon from
  seeing end-of-file. A result is `big` if it fills the pipe (the rest, and the
  newline, are lost and the next line runs into it) and `binary` if `dump()`
  throws.
* **Engine.** The prompt's `next_job_id++`, `enqueue` and the second read of
  `next_job_id` are separate steps, as they are for the daemon thread. The
  prompt's lines are parsed by `Parser`, which decides whether it waits. After
  `stop()` returns `main` destroys its locals; a daemon thread that then enqueues
  uses a destroyed queue, which is a crash or has no effect. Empty lines change
  nothing in the model; what `cd` changes is in `Sandbox`.

Names, arguments, output bytes, log lines and the numbers in the cgroup files
are left out: no property depends on them. Process status is reduced to exit 0,
another exit code, SIGKILL, SIGSYS and another signal, which is what `workerLoop`
tells apart; `Isolator` only has WIFEXITED and WIFSIGNALED.

## Runs

Passing:

| Run | Instance | Shows |
|---|---|---|
| `pool_safety` | RoundRobin, 3 workers, 4 jobs (2 programs, 1 empty, 1 `exit`), 1 preemption, 2 observers | `JobConservation`, `WorkConserving`, `ObserversAgree`, `ResultBeforePromise`, `BoundedOvertaking` |
| `pool_live` | MLFQ, 2 workers, 3 programs with priorities 0, 1, 2, two of which outlive their quantum twice | `BoundedOvertaking`, `EveryJobResolved`, `StopReturns`, refinement of `JobService` |
| `isolator_safety` | 2 concurrent runs, limiter, watchdogs, failing clone and setup, colliding cgroup names | `GuardedBeforeSetup`, `NothingLeftBehind`, `EngineEndsOnlyByEarlyKill`, `StrayKillWindow` |
| `isolator_live` | 1 run, failing cgroup, attachment, clone and setup, inherited locks | `GuardedBeforeSetup`, and `EveryRunReturns` although the program may loop |
| `isolator_quantum` | 2 runs with a quantum, no limiter, no watchdog (the benchmark), failing clone and setup, inherited locks | `RunsOnlyWhileExecuted`, `EveryRunReturns` |
| `engine` | FCFS, 2 workers, `prog > &` and `prog &` at the prompt, 1 daemon job | `ReportedIdsUnique`, `AnnouncedIdIsOwn`, `PromptAfterResult`, `WorkersGoneBeforeMain`, `PromptReturns`, `EofEndsEngine`; `ParserAssumption`: `parseLine` agrees with `ParsesAsWritten` on all lines of up to 6 tokens |
| `sandbox_output` | 3 children, 2 at a time besides those of the earlier engine, all of them meddling, any working directory, one restart | `OutputIsOwn`, `SetupFailsOnlyOverlapped` |
| `limiter` | 3 concurrent limiters, failing directory, caps and attachment | `SeparateUnlessRaced`, `NoDirectoryLeft` |
| `pipeline` | 3 commands, foreground and background, only the middle one sure to end | `EndsClosed`, `PipelineReturns`, `ChildrenEnd` |
| `dashboard` | 2 requests, 1 job from the prompt, 2 starts of the engine, all kinds of output | `BroadcastIsAnswered`, `AnsweredUnlessLost`, `NeitherSideHeldUp` |

Every module also has one type invariant.

`StrayKillWindow` says how far the watchdogs' use of a bare process id can go
wrong: a SIGKILL may reach the next owner of a recycled number, but only after
`waitpid` has reaped the watched child and before `watchdog->stop()` has joined
the threads. The property bounds the window; it does not say it is closed.

Violations, each a disagreement between the code and what the repository says:

| Run | The code |
|---|---|
| `sandbox_concurrent` | one child's `rmdir("oldroot")` makes another child's setup fail |
| `dashboard_lost` | a result published in the 100 ms before the API reopens the pipe is dropped |

Of other weaknesses of the code, passing properties state exactly how far they
go:

* If the timeout fires before the sync byte is written, or the limiter of another
  run that drew the same directory name kills the child there, and no other child
  holds the pipe's read end, `write` raises SIGPIPE and the engine dies.
  `EngineEndsOnlyByEarlyKill`: in no third way.
* A cgroup that cannot be made or joined leaves the program uncapped.
  `GuardedBeforeSetup` asks for the membership only where the cgroup could be made
  and the kernel took the child, and for the watchdogs always;
  `SeparateUnlessRaced` says that such a failure costs no other job its caps.
* All programs can write to the root they share. `OutputIsOwn`: a job's reported
  output is its own unless somebody touched the file of that very number.
  `SetupFailsOnlyOverlapped`: a later setup fails because of what programs left
  only if that is at `oldroot`.
* The announced number of a background job may be the daemon's.
  `AnnouncedIdIsOwn`: only one the daemon took in between.
* `exit` ends the process with programs, cgroups and watchdogs in use, end of
  input does not (`WorkersGoneBeforeMain`). The children left behind may share a
  file number with the next engine's (`OutputIsOwn`).
* Two limiters may draw the same name. `SeparateUnlessRaced`: only after two
  draws at the same time.
* A failing `pipe` or `fork` leaves ends open and children unreaped
  (`EndsClosed` and `ChildrenEnd` exclude it).
* Requests whose command or result was dropped, or whose engine died, wait for
  ever (`AnsweredUnlessLost` excuses them: no others do).
* The child calls `setenv` and `perror` behind `clone`, although `README.md` of the
  repository speaks of a strictly enforced async-signal-safe boundary. A child
  that waits there for an inherited lock is ended by the watchdogs, and without
  them stopped at the end of its quantum if it has its process group already.
  Before its `setpgid` nothing reaches it and `execute` polls for ever.
  `EveryRunReturns`, in runs with fault `locks`, excepts this case and no other;
  without the exception `isolator_quantum` fails.

No binary builds a `PriorityScheduler`, so no run uses it; the theorems about the
pool cover it with the others, except the bound on overtaking, which it has not. `workerLoop` reports `FAILED` where the comment in
`JobResult.hpp` lists `ERROR`; the model has the code's word.

**Bounds.** `MaxBursts` caps preemptions per job (1 lets a preempted job compete
with all others; 2 lets it come back twice, so that MLFQ levels tie and cross). Two workers are enough for every pairwise
race; three show a wake-up that goes to the wrong one of several sleepers. Two
process ids with two jobs let a number be recycled. The submitter side is finite
because the set of jobs is; each job is submitted once, as in the code.
`MaxStarts` caps the starts of the engine: two show everything a restart can
meet of the run before. Three children, or three limiters, let two that did not
overlap meet through a third; two of the children at a time (`MaxActive`) and
the orphans, which no longer count, make three at once. The faults are spread over the
isolator's runs so that each is met where it matters most: `names` needs two
runs, `locks` needs liveness, and `cgroup` and `attach` are met by one run alone. `MaxTries` is 2 instead of 10: an attempt fails
until the last member is dead, and one that succeeds and one that gives up are
both reached. `Capacity` 1 makes a pipe block at the second write. `MaxTokens` 6
gives runs of redirection signs of either parity on both sides of a word.
`Outputs` selects what jobs may print. Symmetry is used for interchangeable
workers or jobs in safety runs only.

**Deadlock** is checked in every run; the states in which nothing is left to do
stutter explicitly (`terminated`).

**Fairness.** Weak fairness of each thread, of the child's own setup and of
signal delivery, which the kernel's scheduler provides, and of the passing of
time (`dogTimeout`, `quantumElapses`). There is none for submitting, stopping,
spurious wake-ups, or the end of a user's program in `Isolator`: there the
watchdog or the quantum ends it. `WorkerPool` takes from `EveryRunReturns` that
`execute` returns. The polling loop of a quantum has separate fairness for
`waitpid` and for `kill`, as it does both in every round. `Dashboard` assumes
that the engine's threads, the event loop and its timers go on and that a
program ends; nobody has to start a process or to send anything. `Pipeline`
assumes that the programs in `Ends` end, and those connected to no pipe; for the
others end-of-file and SIGPIPE must do it.

## Proofs

Every invariant and safety action property that a passing run checks is also a
theorem, for every value of the constants that the named assumptions allow: any
sets of jobs, workers, process ids, requests and observers (finite where they are
counted), any number of preemptions, restarts, attempts and commands. The
assumptions are stated next to the CONSTANTS and TLC evaluates them in the runs.
Each proof follows one pattern: an inductive invariant, checked by TLC first,
that adds to the property what the code knows at each place (the conjuncts called
`...Shape`), one lemma per action that disturbs it, and a temporal last step.

**`WorkerPoolProofs`**

* `TypeCorrect` (`TypeOK`). Not inductive alone, since `observe` would append a
  result without a job; `HeldShape` (a worker holds a job exactly in
  `execute`..`fulfil`) and `BornShape` (no thread before `start`) are added.
* `JobsConserved` (`JobConservation`). Inductive together with `TypeInv`. Only
  four actions move a job (`MovingSteps`); each has a lemma that says from where
  to where. They rest on `AddMembers` and `EraseMembers`, which say what the
  deque contains after `push_back` and `erase`.
* `NoLostWakeup` (`WorkConserving`). The strengthening says that only threads in
  `dequeue` sleep (`WaitShape`) and ties `running_` and `stopping_` to the
  progress of `stop()` (`RunShape`), without which a worker could leave while the
  pool runs. The argument counts: an `enqueue` that finds a sleeper adds one job
  and one seeker, a `dequeue` removes one of each, a worker sleeps only when the
  deque is empty.
* `ObserversSeeTheSame` (`ObserversAgree`), `ResultsPrecedePromises`
  (`ResultBeforePromise`). `LockShape`: the owner of the collector's mutex is the
  worker that calls observers. `LogShape`: the last observer's results are a log,
  and those already called have one more, the owner's. `ReportShape`: the log has
  one result per job, of jobs whose promise is set, with the same meaning, or
  whose worker is about to set it.
* `PoolImplementsService` (`ImplementsJobService`). The last observer's log is
  what the service has published. Each action is a step of the service or a
  stutter: `enqueue` accepts, taking a job begins it, a re-enqueue yields it, the
  last observer publishes, the promise finishes. That no more jobs run than there
  are workers (`RunningBound`) comes from conservation: the map from running jobs
  to the workers that hold them is injective.

**`OvertakingProofs`**

* `OvertakingIsBounded` (`BoundedOvertaking`). `OrderShape`: a queued job that has
  passed another queued one stands behind it and has used a burst for each time.
  So under FCFS and RoundRobin, which take the front, it cannot pass again, and
  under MLFQ only while its bursts leave it at a level strictly above, ties going
  to the front. `RowShape` says the same of passers that are not in the deque.
  The hypothesis `Policy # "Priority"` is needed: an urgent job that is preempted
  is taken again each time. `main.cpp` and `benchmark.cpp` build the other three.

**`EngineProofs`**

* `EngineTypeCorrect` (`EngineTypeOK`), `IdsAreUnique` (`ReportedIdsUnique`). The
  pool's steps inside the engine preserve `ResultInv` by the lemmas of
  `WorkerPoolProofs`; `IdShape` says that the numbers given out are those below
  `next_job_id`, each to one job, and that no job is enqueued without one.
* `AnnouncementIsOwn` (`AnnouncedIdIsOwn`). `AnnounceShape`: between the prompt's
  numbering and its second read, only the daemon thread numbers.
* `DestroyedAfterWorkers` (`WorkersGoneBeforeMain`). `OwnerShape`: `main` destroys
  only after `stop()` returned, which joins every worker.
* `PromptFollowsResult` (`PromptAfterResult`). `PromptShape`: a line the prompt is
  done with went to the background or its promise is set; the rest is
  `ResultsPrecedePromises`. It assumes `ParsesAsWritten` of the typed lines: that
  `parseLine` says "background" exactly where the line does would need induction
  over the tokens. `ParserAssumption` checks it for all lines of up to 6 tokens.

**`IsolatorProofs`** (all parts of the invariant but `PidShape` are about one job)

* `IsolatorTypeCorrect` (`TypeOK`), `PreemptedStandsStill`
  (`RunsOnlyWhileExecuted`). `CallShape` ties the worker's
  place to the child and the result, `StopShape` says that a reported stop lasts
  until the job is executed again, `DogShape` that a watchdog thread lives between
  its start and its join.
* `EngineOutlivesRuns` (`EngineEndsOnlyByEarlyKill`). `KillShape`: a child that
  has not got its sync byte can have been ended only by a watchdog or, where names
  collide, by another run's limiter: its own limiter is destroyed after the wait.
  `NameShape`: without that fault every name is one job's.
* `StrayKillsBounded` (`StrayKillWindow`, an action property). With `PidShape`, a
  process id has one living owner, so a kill hits another child only if the
  watched one is reaped; with `DogShape` the thread is not yet joined.
* `GuardedFirst` (`GuardedBeforeSetup`), `CleanReturn` (`NothingLeftBehind`).
  `GuardShape` for the watchdogs; `CgroupShape` for the directories: a child is in
  its limiter's or in none, and every directory there is belongs to a run that has
  not returned, so that the last of several runs with one name removes it. Both
  assume that there is a limiter or a quantum but not both: `main` has the one,
  the benchmark the other, and a second `execute` of one child would give it a
  second cgroup.

**`LimiterProofs`**

* `LimiterTypeCorrect` (`TypeOK`). `CountShape`: the generator is advanced at most
  once per draw, so its index stays within the number of jobs.
* `LimitersSeparate` (`SeparateUnlessRaced`). `PrivateShape`: as long as no two
  draws overlapped, names differ, a directory and its members belong to the
  limiter of that name, and it has all its limiter did not fail to give it.
* `DirectoriesRemoved` (`NoDirectoryLeft`). `Responsible`: every directory has a
  limiter of its name that has not given up yet, and `ChildShape`: a member is a
  child of a limiter of that name. A destructor that fails the last time met a
  living member, whose limiter is then the responsible one.

**`SandboxProofs`**

These hold for every set of `Meddlers`.

* `SandboxTypeCorrect` (`TypeOK`). `CountShape` bounds `file_counter`.
* `OutputsSeparate` (`OutputIsOwn`). `FileShape`: a file nobody took over holds
  output only of children with its number that are not collected. `NumberShape`: the running
  engine's children have different numbers below `file_counter`.
* `SetupFailureExplained` (`SetupFailsOnlyOverlapped`). `SetupShape`: a child that
  never overlapped is alone in its setup, has the `oldroot` it made, or found, and
  the mount on it, unless a program touched it: only a child in its own setup
  takes it away. `RootShape`: without a program's doing there is never anything
  but an empty directory.

**`PipelineProofs`**

* `PipelineTypeCorrect` (`TypeOK`), `PipelineEndsClosed` (`EndsClosed`).
  `ParentEnds`: in round `i` the parent has at most the reading end of pipe
  `i - 1` and both of pipe `i`. `ChildEnds`: that is all a child inherits, and it
  gives the reading end of pipe `i` up before its program runs.

**`DashboardProofs`**

* `DashboardTypeCorrect` (`TypeOK`), `ResultsAnswer` (`BroadcastIsAnswered`).
  `KnownShape`: a request of which a command, a job or a result exists is
  answered, is in `pendingRequests`, or its handler is between `writeSync` and
  `pendingRequests.set`. The stream's data is delivered only when no handler runs,
  so the last case is over by then (`HandlerShape`).

**Only model-checked.** Liveness under fairness is out of the prover's reach:
`EveryJobResolved`, `StopReturns`, `EveryRunReturns`, `PromptReturns`,
`EofEndsEngine`, `PipelineReturns`, `ChildrenEnd`, `AnsweredUnlessLost`,
`NeitherSideHeldUp`. So is what the parser's fold computes for every line, which
needs induction over data. `SetupSucceeds` and `EveryResultBroadcast` are false,
as the two violation runs show.

## Not modelled

* `include/json.hpp` is a third-party library, 24,765 of the repository's 26,421
  lines of implementation. It keeps no state here, and the one behaviour that
  matters, that `dump()` throws, is in `Dashboard`. A figure of how much of the
  code is modelled is low because of it; of the remaining 1,656 lines (headers,
  declarations and the web page included) more than half are mapped.
* The seccomp rule list is a table for libseccomp; its effect is an end by SIGSYS.
* `parsePipeline` splits at `|` and calls `parseLine`; it has no caller.
  `executePipeline` has none either but has control worth checking.
* The web page (`App.jsx`) shows what the API sends; one of its hazards is listed.
* The uid and gid maps, the host name and the child's stack are their success or
  failure; giving the terminal back to the prompt is left out.
* A program that leaves its process group or session, descriptors that leak into
  programs other than those of the sync pipe, a stop of the API while the engine
  runs, and a stream that fails with anything but end-of-file.
* A limiter together with a time quantum, which no binary combines: no run has it, and
  the two theorems about cgroups exclude it.
* What a meddling program may do to the root besides the output files and `oldroot`:
  it can break the programs that run there later, not their setup.

## Plan

1. Done: schedulers, queue, pool, abstract service, overtaking, parser, engine,
   isolator, limiter, sandbox, pipeline, dashboard; a theorem for every safety
   property of the passing runs and for the refinement.
2. Left: shorter proofs where several actions share an argument, and lemmas that
   state single steps of the liveness arguments (what is enabled in a state where
   a job waits), as far as they need no `ENABLED`.
