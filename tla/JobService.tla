------------------------------ MODULE JobService ------------------------------
(***************************************************************************)
(* What the queue, the pool and the result collector promise together,     *)
(* without threads, locks or scheduling: a bounded number of jobs runs at  *)
(* a time, a running job may be sent back to wait, its result is published *)
(* once, and only then is the job done.                                    *)
(***************************************************************************)
EXTENDS Naturals, FiniteSets

CONSTANTS Jobs,      \* the jobs that may be submitted
          Capacity   \* how many may run at a time

VARIABLES status,    \* where each job is in its life
          published  \* the jobs whose result has reached every observer

vars == <<status, published>>

Init ==
    /\ status = [j \in Jobs |-> "new"]
    /\ published = {}

Running == {j \in Jobs : status[j] = "running"}

Move(j, from, to) ==
    /\ status[j] = from
    /\ status' = [status EXCEPT ![j] = to]

Accept(j) == Move(j, "new", "queued") /\ UNCHANGED published

Begin(j) ==
    /\ Cardinality(Running) < Capacity
    /\ Move(j, "queued", "running")
    /\ UNCHANGED published

\* A preempted job goes back to wait; nothing of it has been published.
Yield(j) ==
    /\ j \notin published
    /\ Move(j, "running", "queued")
    /\ UNCHANGED published

Publish(j) ==
    /\ status[j] = "running" /\ j \notin published
    /\ published' = published \cup {j}
    /\ UNCHANGED status

Finish(j) ==
    /\ j \in published
    /\ Move(j, "running", "done")
    /\ UNCHANGED published

Next == \E j \in Jobs : Accept(j) \/ Begin(j) \/ Yield(j) \/ Publish(j) \/ Finish(j)

Spec == Init /\ [][Next]_vars

===============================================================================
