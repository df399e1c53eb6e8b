------------------------------ MODULE Overtaking ------------------------------
(***************************************************************************)
(* How long a queued job can be passed over.  WorkerPool with one history  *)
(* variable: bypass[j][i] counts how often i has been taken from the deque *)
(* while j has been waiting in it since j last joined it.                  *)
(***************************************************************************)
EXTENDS WorkerPool

VARIABLE bypass

ovars == <<vars, bypass>>

Zero == [i \in Jobs |-> 0]

OInit == Init /\ bypass = [j \in Jobs |-> Zero]

\* The job taken from the deque by this step, if any.
Taken(i) == InQueue(i) /\ ~InQueue(i)'

\* j has stayed in the deque across this step.
Stayed(j) == InQueue(j) /\ InQueue(j)'

Count ==
    bypass' = [j \in Jobs |->
                 IF Stayed(j)
                   THEN [i \in Jobs |-> bypass[j][i] + (IF Taken(i) THEN 1 ELSE 0)]
                   ELSE Zero]

ONext == Next /\ Count

OSpec == OInit /\ [][ONext]_ovars

OFairSpec == OSpec /\ Fairness

-------------------------------------------------------------------------------

\* How often the order of the strategies the binaries use lets i pass a waiting j.
Bound(j, i) ==
    CASE Policy \in {"FCFS", "RoundRobin"} -> 1
      [] Policy = "MLFQ" ->
           LET gap == Level(j, elapsed_bursts) - Priority[i]
           IN  IF gap < 0 THEN 0 ELSE IF gap = 0 THEN 1 ELSE gap

\* While a job waits, no other job gets more turns than the strategy's order allows:
\* one under FCFS and RoundRobin, where a preempted job rejoins behind everybody;
\* under MLFQScheduler, one for each level the other job starts above the waiting one.
\* A job that has fallen to the same level rejoins behind, since min_element takes the
\* first of equals, and passes only if it was there before.
BoundedOvertaking ==
    \A i, j \in Jobs : InQueue(j) => bypass[j][i] <= Bound(j, i)

===============================================================================
