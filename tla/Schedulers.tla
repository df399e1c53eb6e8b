------------------------------ MODULE Schedulers ------------------------------
(***************************************************************************)
(* The four IScheduler strategies.  A scheduler only touches the deque it  *)
(* is given: addJob puts a job in, getNextJob picks a position, moves the  *)
(* job out and erases that position.  A job is named by its identity; the  *)
(* fields the strategies read are the constant Priority (Job::priority)    *)
(* and the argument elapsed (Job::elapsed_bursts).                         *)
(***************************************************************************)
EXTENDS Integers, SequencesExt

CONSTANTS Jobs,      \* the jobs that may be submitted
          Policy,    \* the strategy the queue was built with
          Priority   \* Job::priority, set by the submitter

Policies == {"FCFS", "RoundRobin", "Priority", "MLFQ"}

ASSUME SchedulerAssumption ==
    /\ Policy \in Policies
    /\ Priority \in [Jobs -> Int]

-------------------------------------------------------------------------------

\* A fault for mutation: a job is put in front.
PushFront(jobs, j) == <<j>> \o jobs

\* Every strategy appends.
addJob(jobs, j) == Append(jobs, j)

\* FCFS and RoundRobin take the front of the deque.
IsFront(jobs, i) == i = 1

\* PriorityScheduler: std::max_element by priority, the first of equals.
IsFirstMaxPriority(jobs, i) ==
    /\ \A k \in DOMAIN jobs : Priority[jobs[k]] <= Priority[jobs[i]]
    /\ \A k \in 1..(i - 1) : Priority[jobs[k]] < Priority[jobs[i]]

\* MLFQScheduler: demotion is the number of bursts already used.
Level(j, elapsed) == Priority[j] + elapsed[j]

\* A fault for mutation: the last of equals instead of the first (<= for <).
IsLastMinLevel(jobs, elapsed, i) ==
    /\ \A k \in DOMAIN jobs : Level(jobs[i], elapsed) <= Level(jobs[k], elapsed)
    /\ \A k \in (i + 1)..Len(jobs) : Level(jobs[i], elapsed) < Level(jobs[k], elapsed)

\* MLFQScheduler: std::min_element by level, the first of equals.
IsFirstMinLevel(jobs, elapsed, i) ==
    /\ \A k \in DOMAIN jobs : Level(jobs[i], elapsed) <= Level(jobs[k], elapsed)
    /\ \A k \in 1..(i - 1) : Level(jobs[i], elapsed) < Level(jobs[k], elapsed)

\* The position getNextJob moves out of a non-empty deque.
IsNextJob(jobs, elapsed, i) ==
    /\ i \in DOMAIN jobs
    /\ CASE Policy \in {"FCFS", "RoundRobin"} -> IsFront(jobs, i)
         [] Policy = "Priority"               -> IsFirstMaxPriority(jobs, i)
         [] Policy = "MLFQ"                   -> IsFirstMinLevel(jobs, elapsed, i)

\* getNextJob's pop_front / erase(it).
eraseJob(jobs, i) == RemoveAt(jobs, i)

===============================================================================
