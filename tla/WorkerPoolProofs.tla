--------------------------- MODULE WorkerPoolProofs ---------------------------
(***************************************************************************)
(* Theorems about WorkerPool, for any number of workers, jobs and          *)
(* observers, any scheduler and any bound on preemption.                   *)
(***************************************************************************)
EXTENDS WorkerPool, SequenceTheorems, FiniteSetTheorems, TLAPS

-------------------------------------------------------------------------------
(* The deque.                                                              *)

\* What erase(it) leaves of a deque: everything but position i, in the old order.
LEMMA EraseProperties ==
    ASSUME NEW S, NEW s \in Seq(S), NEW i \in 1..Len(s)
    PROVE  /\ eraseJob(s, i) \in Seq(S)
           /\ Len(eraseJob(s, i)) = Len(s) - 1
           /\ \A k \in 1..(Len(s) - 1) : eraseJob(s, i)[k] = IF k < i THEN s[k] ELSE s[k + 1]
<1> DEFINE front == SubSeq(s, 1, i - 1)
           back == SubSeq(s, i + 1, Len(s))
<1>1. Len(s) \in Nat /\ i \in Nat /\ \A k \in 1..Len(s) : s[k] \in S
  BY LenProperties, ElementOfSeq
<1>2. /\ front \in Seq(S)
      /\ Len(front) = i - 1
      /\ \A k \in 1..(i - 1) : front[k] = s[k]
  <2>1. /\ front \in Seq(S)
        /\ Len(front) = IF 1 <= i - 1 THEN (i - 1) - 1 + 1 ELSE 0
        /\ \A k \in 1..((i - 1) - 1 + 1) : front[k] = s[1 + k - 1]
    <3>1. i - 1 \in Int /\ 1 \in Int /\ \A k \in 1..(i - 1) : s[k] \in S
      BY <1>1
    <3> HIDE DEF front
    <3>. QED  BY <3>1, SubSeqProperties DEF front
  <2> HIDE DEF front
  <2>2. Len(front) = i - 1  BY <1>1, <2>1
  <2>3. \A k \in 1..(i - 1) : k \in 1..((i - 1) - 1 + 1) /\ 1 + k - 1 = k  BY <1>1
  <2>. QED  BY <2>1, <2>2, <2>3
<1>3. /\ back \in Seq(S)
      /\ Len(back) = Len(s) - i
      /\ \A k \in 1..(Len(s) - i) : back[k] = s[i + k]
  <2>1. /\ back \in Seq(S)
        /\ Len(back) = IF i + 1 <= Len(s) THEN Len(s) - (i + 1) + 1 ELSE 0
        /\ \A k \in 1..(Len(s) - (i + 1) + 1) : back[k] = s[(i + 1) + k - 1]
    <3>1. i + 1 \in Int /\ Len(s) \in Int /\ \A k \in (i + 1)..Len(s) : s[k] \in S
      BY <1>1
    <3> HIDE DEF back
    <3>. QED  BY <3>1, SubSeqProperties DEF back
  <2> HIDE DEF back
  <2>2. Len(back) = Len(s) - i  BY <1>1, <2>1
  <2>3. \A k \in 1..(Len(s) - i) : k \in 1..(Len(s) - (i + 1) + 1) /\ (i + 1) + k - 1 = i + k
    BY <1>1
  <2>. QED  BY <2>1, <2>2, <2>3
<1> HIDE DEF front, back
<1>4. eraseJob(s, i) = front \o back
  BY DEF eraseJob, RemoveAt, front, back
<1>5. /\ front \o back \in Seq(S)
      /\ Len(front \o back) = Len(front) + Len(back)
      /\ \A k \in 1..(Len(front) + Len(back)) :
            (front \o back)[k] = IF k <= Len(front) THEN front[k] ELSE back[k - Len(front)]
  BY <1>2, <1>3, ConcatProperties
<1>6. Len(front) + Len(back) = Len(s) - 1
  BY <1>1, <1>2, <1>3
<1>7. ASSUME NEW k \in 1..(Len(s) - 1)
      PROVE  (front \o back)[k] = IF k < i THEN s[k] ELSE s[k + 1]
  <2>1. (front \o back)[k] = IF k <= i - 1 THEN front[k] ELSE back[k - (i - 1)]
    BY <1>2, <1>5, <1>6
  <2>2. CASE k < i
    <3>1. k <= i - 1 /\ k \in 1..(i - 1)  BY <1>1, <2>2
    <3>. QED  BY <2>1, <2>2, <3>1, <1>2
  <2>3. CASE ~(k < i)
    <3>1. ~(k <= i - 1) /\ k - (i - 1) \in 1..(Len(s) - i) /\ i + (k - (i - 1)) = k + 1
      BY <1>1, <2>3
    <3>. QED  BY <2>1, <2>3, <3>1, <1>3
  <2>. QED  BY <2>2, <2>3
<1>. QED  BY <1>4, <1>5, <1>6, <1>7

\* Membership and distinctness of the jobs in a deque.
In(s, x) == \E k \in DOMAIN s : s[k] = x
Distinct(s) == \A k, m \in DOMAIN s : s[k] = s[m] => k = m

\* addJob adds its argument and nothing else.
LEMMA AddMembers ==
    ASSUME NEW S, NEW s \in Seq(S), NEW x \in S
    PROVE  /\ addJob(s, x) \in Seq(S)
           /\ Len(addJob(s, x)) = Len(s) + 1
           /\ \A y : In(addJob(s, x), y) <=> In(s, y) \/ y = x
           /\ Distinct(s) /\ ~In(s, x) => Distinct(addJob(s, x))
<1> DEFINE t == Append(s, x)
<1>1. /\ Len(s) \in Nat
      /\ DOMAIN s = 1..Len(s)
  BY LenProperties
<1>2. /\ t \in Seq(S)
      /\ Len(t) = Len(s) + 1
      /\ \A k \in 1..Len(s) : t[k] = s[k]
      /\ t[Len(s) + 1] = x
  BY AppendProperties
<1> HIDE DEF t
<1>3. DOMAIN t = 1..(Len(s) + 1)
  BY <1>2, LenProperties
<1>4. \A k \in 1..(Len(s) + 1) : k \in 1..Len(s) \/ k = Len(s) + 1
  BY <1>1
<1>5. \A k \in 1..Len(s) : k \in 1..(Len(s) + 1) /\ k # Len(s) + 1
  BY <1>1
<1>6. \A y : In(t, y) <=> In(s, y) \/ y = x
  <2>0. Len(s) + 1 \in 1..(Len(s) + 1)  BY <1>1
  <2> SUFFICES ASSUME NEW y PROVE In(t, y) <=> In(s, y) \/ y = x  OBVIOUS
  <2>1. ASSUME In(t, y) PROVE In(s, y) \/ y = x
    BY <2>1, <1>1, <1>2, <1>3, <1>4 DEF In
  <2>2. ASSUME In(s, y) PROVE In(t, y)
    BY <2>2, <1>1, <1>2, <1>3, <1>5 DEF In
  <2>3. In(t, x)
    BY <2>0, <1>2, <1>3 DEF In
  <2>. QED  BY <2>1, <2>2, <2>3
<1>7. ASSUME Distinct(s), ~In(s, x) PROVE Distinct(t)
  <2> SUFFICES ASSUME NEW k \in DOMAIN t, NEW m \in DOMAIN t, t[k] = t[m]
               PROVE  k = m
    BY DEF Distinct
  <2>1. CASE k \in 1..Len(s) /\ m \in 1..Len(s)
    BY <2>1, <1>1, <1>2, <1>7 DEF Distinct
  <2>2. CASE k \in 1..Len(s) /\ m = Len(s) + 1
    BY <2>2, <1>1, <1>2, <1>7 DEF In
  <2>3. CASE k = Len(s) + 1 /\ m \in 1..Len(s)
    BY <2>3, <1>1, <1>2, <1>7 DEF In
  <2>. QED  BY <2>1, <2>2, <2>3, <1>3, <1>4
<1>. QED  BY <1>2, <1>6, <1>7 DEF addJob, t

\* eraseJob removes exactly the job at its position.
LEMMA EraseMembers ==
    ASSUME NEW S, NEW s \in Seq(S), NEW i \in DOMAIN s, Distinct(s)
    PROVE  /\ eraseJob(s, i) \in Seq(S)
           /\ Len(eraseJob(s, i)) = Len(s) - 1
           /\ \A y : In(eraseJob(s, i), y) <=> In(s, y) /\ y # s[i]
           /\ Distinct(eraseJob(s, i))
<1> DEFINE t == eraseJob(s, i)
           old(k) == IF k < i THEN k ELSE k + 1
<1>1. /\ Len(s) \in Nat
      /\ DOMAIN s = 1..Len(s)
      /\ i \in 1..Len(s)
  BY LenProperties
<1>2. /\ t \in Seq(S)
      /\ Len(t) = Len(s) - 1
      /\ \A k \in 1..(Len(s) - 1) : t[k] = IF k < i THEN s[k] ELSE s[k + 1]
  BY <1>1, EraseProperties
<1> HIDE DEF t
<1>3. DOMAIN t = 1..(Len(s) - 1)
  BY <1>2, LenProperties
<1>4. \A k \in 1..(Len(s) - 1) : t[k] = s[old(k)] /\ old(k) \in 1..Len(s) /\ old(k) # i
  BY <1>1, <1>2
<1>5. \A k, m \in 1..(Len(s) - 1) : old(k) = old(m) => k = m
  BY <1>1
<1>6. \A n \in 1..Len(s) : n # i => \E k \in 1..(Len(s) - 1) : old(k) = n
  <2> SUFFICES ASSUME NEW n \in 1..Len(s), n # i
               PROVE  \E k \in 1..(Len(s) - 1) : old(k) = n
    OBVIOUS
  <2>1. CASE n < i
    <3>1. n \in 1..(Len(s) - 1) /\ old(n) = n  BY <2>1, <1>1
    <3>. QED  BY <3>1
  <2>2. CASE i < n
    <3>1. n - 1 \in 1..(Len(s) - 1) /\ old(n - 1) = n  BY <2>2, <1>1
    <3>. QED  BY <3>1
  <2>. QED  BY <1>1, <2>1, <2>2
<1> HIDE DEF old
<1>7. Distinct(t)
  <2> SUFFICES ASSUME NEW k \in 1..(Len(s) - 1), NEW m \in 1..(Len(s) - 1), t[k] = t[m]
               PROVE  k = m
    BY <1>3 DEF Distinct
  <2>1. old(k) = old(m)
    BY <1>1, <1>4 DEF Distinct
  <2>. QED  BY <2>1, <1>5
<1>8. ASSUME NEW y PROVE In(t, y) <=> In(s, y) /\ y # s[i]
  <2>1. ASSUME In(t, y) PROVE In(s, y) /\ y # s[i]
    <3>1. PICK k \in 1..(Len(s) - 1) : t[k] = y  BY <2>1, <1>3 DEF In
    <3>2. s[old(k)] = y /\ old(k) \in DOMAIN s /\ old(k) # i  BY <3>1, <1>1, <1>4
    <3>. QED  BY <3>2 DEF In, Distinct
  <2>2. ASSUME In(s, y), y # s[i] PROVE In(t, y)
    <3>1. PICK n \in 1..Len(s) : s[n] = y  BY <2>2, <1>1 DEF In
    <3>2. PICK k \in 1..(Len(s) - 1) : old(k) = n  BY <3>1, <2>2, <1>6
    <3>. QED  BY <3>1, <3>2, <1>3, <1>4 DEF In
  <2>. QED  BY <2>1, <2>2
<1>. QED  BY <1>2, <1>7, <1>8 DEF t

-------------------------------------------------------------------------------
(* Types.                                                                  *)

\* The places of workerLoop where job_opt holds a job.
Holding == {"execute", "submit", "observe", "fulfil"}

\* A worker holds a job exactly between dequeue() and the end of the iteration.
HeldShape == \A w \in Workers : cur[w] # NoJob <=> wpc[w] \in Holding

\* Before start() there is no worker thread.
BornShape == ctl = "new" => \A w \in Workers : wpc[w] = "unborn"

TypeInv == TypeOK /\ HeldShape /\ BornShape

\* The constants' assumptions, in the form the steps use them.
LEMMA ConstantFacts ==
    /\ NoJob \notin Jobs
    /\ NoWorker \notin Workers
    /\ Outcomes \in SUBSET AllOutcomes
    /\ NumObservers \in Nat /\ NumObservers >= 1
    /\ MaxBursts \in Nat
    /\ Workers # {} /\ IsFiniteSet(Workers)
    /\ Kind \in [Jobs -> Kinds]
BY PoolAssumption, WorkersAssumption

\* enqueue keeps the types of the queue and wakes at most one worker.
LEMMA EnqueueFacts ==
    ASSUME NEW j \in Jobs, QueueTypeOK, enqueue(j)
    PROVE  /\ QueueTypeOK'
           /\ jobs_' = addJob(jobs_, j)
           /\ stopping_' = stopping_
           /\ (waiting = {} /\ waiting' = {}) \/ \E w \in waiting : waiting' = waiting \ {w}
<1>1. jobs_' \in Seq(Jobs)
  BY AddMembers DEF enqueue, QueueTypeOK
<1>2. (waiting = {} /\ waiting' = {}) \/ \E w \in waiting : waiting' = waiting \ {w}
  BY DEF enqueue, notify_one
<1>. QED  BY <1>1, <1>2 DEF enqueue, QueueTypeOK

\* The initial state is well typed.
LEMMA TypeInit == Init => TypeInv
<1> SUFFICES ASSUME Init PROVE TypeInv  OBVIOUS
<1>1. HeldShape /\ BornShape
  BY DEF Init, HeldShape, BornShape, Holding
<1>2. seen \in [Observers -> Seq([job : Jobs, verdict : Verdicts])]
  <2>1. <<>> \in Seq([job : Jobs, verdict : Verdicts])  BY EmptySeq
  <2>. QED  BY <2>1 DEF Init
<1>3. QueueTypeOK
  <2>1. <<>> \in Seq(Jobs)  BY EmptySeq
  <2>. QED  BY <2>1 DEF Init, QueueInit, QueueTypeOK
<1>4. notified \in 0..(NumObservers - 1) /\ elapsed_bursts \in [Jobs -> 0..MaxBursts]
  BY ConstantFacts DEF Init
<1>. QED  BY <1>1, <1>2, <1>3, <1>4 DEF Init, TypeInv, TypeOK, PC, Ctl

\* Every step keeps the types, one step per action.
LEMMA TypeNext == TypeInv /\ [Next]_vars => TypeInv'
<1> SUFFICES ASSUME TypeInv, [Next]_vars PROVE TypeInv'  OBVIOUS
<1> USE ConstantFacts
<1>1. CASE UNCHANGED vars
  BY <1>1 DEF TypeInv, TypeOK, QueueTypeOK, HeldShape, BornShape, vars, queueVars, poolVars, resultVars
<1>2. CASE start
  BY <1>2 DEF start, TypeInv, TypeOK, QueueTypeOK, HeldShape, BornShape, Holding, PC, Ctl, queueVars,
              resultVars
<1>3. CASE stopRunning \/ stopQueue \/ stopQueueNotify \/ joinAll
  <2>1. QueueTypeOK' /\ running_' \in BOOLEAN /\ ctl' \in Ctl /\ ctl' # "new"
    BY <1>3 DEF stopRunning, stopQueue, stopQueueNotify, joinAll, stopSet, stopNotify, TypeInv,
                TypeOK, QueueTypeOK, Ctl, queueVars, poolVars
  <2>2. UNCHANGED <<wpc, cur, outcome, elapsed_bursts, mutex_, notified, seen, promise,
                    submitted, alive>>
    BY <1>3 DEF stopRunning, stopQueue, stopQueueNotify, joinAll, poolVars, resultVars
  <2>. QED  BY <2>1, <2>2 DEF TypeInv, TypeOK, HeldShape, BornShape
<1>4. ASSUME NEW j \in Jobs, submitJob(j) PROVE TypeInv'
  <2>1. QueueTypeOK'
    BY <1>4, EnqueueFacts DEF submitJob, TypeInv, TypeOK
  <2>. QED  BY <1>4, <2>1 DEF submitJob, TypeInv, TypeOK, HeldShape, BornShape, poolVars, resultVars
<1>5. ASSUME NEW w \in Workers, workerProgress(w) \/ workerSpuriousWake(w) PROVE TypeInv'
  <2>1. CASE checkRunning(w)
    BY <2>1 DEF checkRunning, Goto, TypeInv, TypeOK, QueueTypeOK, HeldShape, BornShape, Holding, PC,
                queueVars, resultVars
  <2>2. CASE workerSleep(w) \/ workerSpuriousWake(w)
    BY <2>2 DEF workerSleep, workerSpuriousWake, dequeueWait, spuriousWake, TypeInv, TypeOK,
                QueueTypeOK, HeldShape, BornShape, poolVars, resultVars
  <2>3. CASE workerBreak(w)
    BY <2>3 DEF workerBreak, dequeueNull, Goto, TypeInv, TypeOK, QueueTypeOK, HeldShape, BornShape,
                Holding, PC, queueVars, resultVars
  <2>4. CASE workerTake(w)
    <3>1. PICK i \in DOMAIN jobs_ : /\ dequeueJob(w, elapsed_bursts, i)
                                    /\ cur' = [cur EXCEPT ![w] = jobs_[i]]
      BY <2>4 DEF workerTake
    <3>2. jobs_[i] \in Jobs /\ jobs_' \in Seq(Jobs)
      <4>1. jobs_ \in Seq(Jobs) /\ i \in 1..Len(jobs_)
        BY LenProperties DEF TypeInv, TypeOK, QueueTypeOK
      <4>. QED  BY <3>1, <4>1, EraseProperties, ElementOfSeq DEF dequeueJob
    <3>. QED  BY <2>4, <3>1, <3>2 DEF workerTake, dequeueJob, Goto, TypeInv, TypeOK,
                  QueueTypeOK, HeldShape, BornShape, Holding, PC, resultVars
  <2>5. CASE executeDone(w)
    <3>1. ExecuteReturns(cur[w]) \subseteq AllOutcomes
      BY <2>5 DEF executeDone, ExecuteReturns, AllOutcomes, TypeInv, TypeOK, HeldShape, BornShape, Holding,
                  Kinds
    <3>2. outcome' \in [Workers -> AllOutcomes \cup {"none"}]
      BY <2>5, <3>1 DEF executeDone, TypeInv, TypeOK
    <3>. QED  BY <2>5, <3>2 DEF executeDone, Goto, TypeInv, TypeOK, QueueTypeOK, HeldShape, BornShape,
                  Holding, PC, queueVars, resultVars
  <2>6. CASE executePreempted(w)
    <3>1. cur[w] \in Jobs
      BY <2>6 DEF executePreempted, TypeInv, TypeOK, HeldShape, BornShape, Holding
    <3>2. QueueTypeOK'
      BY <2>6, <3>1, EnqueueFacts DEF executePreempted, TypeInv, TypeOK
    <3>3. elapsed_bursts' \in [Jobs -> 0..MaxBursts]
      BY <2>6, <3>1 DEF executePreempted, TypeInv, TypeOK
    <3>. QED  BY <2>6, <3>2, <3>3 DEF executePreempted, Goto, TypeInv, TypeOK, HeldShape, BornShape,
                  Holding, PC, resultVars
  <2>7. CASE executeExit(w)
    BY <2>7 DEF executeExit, TypeInv, TypeOK, QueueTypeOK, HeldShape, BornShape, queueVars, poolVars,
                resultVars
  <2>8. CASE submitLock(w)
    BY <2>8 DEF submitLock, Goto, TypeInv, TypeOK, QueueTypeOK, HeldShape, BornShape, Holding, PC,
                queueVars
  <2>9. CASE observe(w)
    <3> DEFINE R == [job : Jobs, verdict : Verdicts]
               r == JobResult(cur[w], outcome[w])
               k == notified + 1
    <3>1. r \in R
      BY <2>9 DEF observe, JobResult, Verdict, Verdicts, TypeInv, TypeOK, HeldShape, BornShape, Holding
    <3>2. k \in Observers
      BY DEF Observers, TypeInv, TypeOK
    <3>3. seen' \in [Observers -> Seq(R)]
      <4>1. seen \in [Observers -> Seq(R)]  BY DEF TypeInv, TypeOK
      <4>2. seen' = [seen EXCEPT ![k] = Append(@, r)]  BY <2>9 DEF observe
      <4> HIDE DEF R, r, k
      <4>3. Append(seen[k], r) \in Seq(R)  BY <3>1, <3>2, <4>1, AppendProperties
      <4>. QED  BY <3>2, <4>1, <4>2, <4>3
    <3> HIDE DEF r
    <3>4. notified' \in 0..(NumObservers - 1)
      BY <2>9 DEF observe, TypeInv, TypeOK
    <3>. QED  BY <2>9, <3>3, <3>4 DEF observe, Goto, TypeInv, TypeOK, QueueTypeOK, HeldShape, BornShape,
                  Holding, PC, queueVars
  <2>10. CASE fulfil(w)
    BY <2>10 DEF fulfil, PromiseValue, Goto, TypeInv, TypeOK, QueueTypeOK, HeldShape, BornShape, Holding,
                 PC, queueVars
  <2>. QED  BY <1>5, <2>1, <2>2, <2>3, <2>4, <2>5, <2>6, <2>7, <2>8, <2>9, <2>10
            DEF workerProgress
<1>. QED  BY <1>1, <1>2, <1>3, <1>4, <1>5 DEF Next, terminated

\* Every state of the pool is well typed, whatever the constants.
THEOREM TypeCorrect == Spec => []TypeOK
<1>1. TypeInv => TypeOK  BY DEF TypeInv
<1>. QED  BY <1>1, TypeInit, TypeNext, PTL DEF Spec

-------------------------------------------------------------------------------
(* No job is lost or doubled.                                              *)

ConservationInv == TypeInv /\ JobConservation

\* Only enqueue, dequeue, the preempted branch and set_value move a job.
LEMMA MovingSteps ==
    ASSUME [Next]_vars
    PROVE  \/ UNCHANGED <<jobs_, cur, promise, submitted>>
           \/ \E j \in Jobs : submitJob(j)
           \/ \E w \in Workers : workerTake(w) \/ executePreempted(w) \/ fulfil(w)
<1>1. CASE UNCHANGED vars
  BY <1>1 DEF vars, queueVars, poolVars, resultVars
<1>2. CASE start \/ stopRunning \/ stopQueue \/ stopQueueNotify \/ joinAll
  BY <1>2 DEF start, stopRunning, stopQueue, stopQueueNotify, joinAll, stopSet, stopNotify,
              queueVars, poolVars, resultVars
<1>3. ASSUME NEW w \in Workers, checkRunning(w) \/ workerSleep(w) \/ workerSpuriousWake(w)
                                \/ workerBreak(w)
      PROVE  UNCHANGED <<jobs_, cur, promise, submitted>>
  BY <1>3 DEF checkRunning, workerSleep, workerSpuriousWake, workerBreak, dequeueWait,
              spuriousWake, dequeueNull, queueVars, poolVars, resultVars
<1>4. ASSUME NEW w \in Workers, executeDone(w) \/ executeExit(w) \/ submitLock(w) \/ observe(w)
      PROVE  UNCHANGED <<jobs_, cur, promise, submitted>>
  BY <1>4 DEF executeDone, executeExit, submitLock, observe, queueVars, poolVars, resultVars
<1>. QED  BY <1>1, <1>2, <1>3, <1>4 DEF Next, terminated, workerProgress

\* A job that is submitted joins the deque.
LEMMA ConservationSubmit ==
    ASSUME ConservationInv, NEW j \in Jobs, submitJob(j)
    PROVE  JobConservation'
<1>1. /\ jobs_ \in Seq(Jobs)
      /\ jobs_' = addJob(jobs_, j)
      /\ submitted' = submitted \cup {j}
      /\ cur' = cur /\ promise' = promise
  BY EnqueueFacts DEF submitJob, poolVars, resultVars, ConservationInv, TypeInv, TypeOK,
     QueueTypeOK
<1>2. ~In(jobs_, j) /\ ~Held(j) /\ ~Resolved(j)
  BY DEF submitJob, ConservationInv, JobConservation, InQueue, In
<1>3. Distinct(jobs_)
  BY DEF ConservationInv, JobConservation, Distinct
<1>4. /\ Distinct(jobs_')
      /\ \A y : In(jobs_', y) <=> In(jobs_, y) \/ y = j
  BY <1>1, <1>2, <1>3, AddMembers
<1>5. \A y \in Jobs : /\ InQueue(y)' <=> InQueue(y) \/ y = j
                      /\ Held(y)' <=> Held(y)
                      /\ Resolved(y)' <=> Resolved(y)
  BY <1>1, <1>4 DEF InQueue, In, Held, Resolved
<1>6. \A v, w \in Workers : cur'[v] = cur'[w] /\ cur'[v] # NoJob => v = w
  BY <1>1 DEF ConservationInv, JobConservation
<1>7. \A y \in Jobs : /\ y \in submitted' <=> InQueue(y)' \/ Held(y)' \/ Resolved(y)'
                      /\ ~(InQueue(y)' /\ Held(y)')
                      /\ ~(InQueue(y)' /\ Resolved(y)')
                      /\ ~(Held(y)' /\ Resolved(y)')
  BY <1>1, <1>2, <1>5 DEF ConservationInv, JobConservation
<1>. QED  BY <1>4, <1>6, <1>7 DEF JobConservation, Distinct

\* A job that is dequeued passes from the deque to one worker.
LEMMA ConservationTake ==
    ASSUME ConservationInv, NEW u \in Workers, workerTake(u)
    PROVE  JobConservation'
<1>1. PICK i \in DOMAIN jobs_ : /\ jobs_' = eraseJob(jobs_, i)
                                /\ cur' = [cur EXCEPT ![u] = jobs_[i]]
  BY DEF workerTake, dequeueJob
<1> DEFINE j == jobs_[i]
<1>2. /\ jobs_ \in Seq(Jobs)
      /\ j \in Jobs
      /\ cur \in [Workers -> Jobs \cup {NoJob}]
      /\ cur[u] = NoJob
      /\ submitted' = submitted /\ promise' = promise
  <2>1. jobs_ \in Seq(Jobs)  BY DEF ConservationInv, TypeInv, TypeOK, QueueTypeOK
  <2>2. j \in Jobs  BY <2>1, LenProperties, ElementOfSeq
  <2>. QED  BY <2>1, <2>2 DEF workerTake, resultVars, ConservationInv, TypeInv, TypeOK,
                HeldShape, Holding
<1>3. Distinct(jobs_)
  BY DEF ConservationInv, JobConservation, Distinct
<1>4. /\ Distinct(jobs_')
      /\ \A y : In(jobs_', y) <=> In(jobs_, y) /\ y # j
  BY <1>1, <1>2, <1>3, EraseMembers
<1> HIDE DEF j
<1>5. In(jobs_, j)
  BY DEF In, j
<1>6. cur' = [cur EXCEPT ![u] = j]
  BY <1>1 DEF j
<1>7. \A y \in Jobs : /\ InQueue(y)' <=> InQueue(y) /\ y # j
                      /\ Held(y)' <=> Held(y) \/ y = j
                      /\ Resolved(y)' <=> Resolved(y)
  <2> SUFFICES ASSUME NEW y \in Jobs
               PROVE  /\ InQueue(y)' <=> InQueue(y) /\ y # j
                      /\ Held(y)' <=> Held(y) \/ y = j
                      /\ Resolved(y)' <=> Resolved(y)
    OBVIOUS
  <2>1. InQueue(y)' <=> InQueue(y) /\ y # j  BY <1>4 DEF InQueue, In
  <2>2. Held(y)' <=> Held(y) \/ y = j
    BY <1>2, <1>6, ConstantFacts DEF Held
  <2>3. Resolved(y)' <=> Resolved(y)  BY <1>2 DEF Resolved
  <2>. QED  BY <2>1, <2>2, <2>3
<1>8. InQueue(j) /\ ~Held(j) /\ ~Resolved(j)
  BY <1>2, <1>5 DEF ConservationInv, JobConservation, InQueue, In
<1>9. ASSUME NEW v \in Workers, NEW w \in Workers, cur'[v] = cur'[w], cur'[v] # NoJob
      PROVE  v = w
  BY <1>2, <1>6, <1>8, <1>9 DEF ConservationInv, JobConservation, Held
<1>10. \A y \in Jobs : /\ y \in submitted' <=> InQueue(y)' \/ Held(y)' \/ Resolved(y)'
                       /\ ~(InQueue(y)' /\ Held(y)')
                       /\ ~(InQueue(y)' /\ Resolved(y)')
                       /\ ~(Held(y)' /\ Resolved(y)')
  BY <1>2, <1>7, <1>8 DEF ConservationInv, JobConservation
<1>. QED  BY <1>4, <1>9, <1>10 DEF JobConservation, Distinct

\* The worker's job_opt is the only holder of its job.
LEMMA SoleHolder ==
    ASSUME ConservationInv, NEW u \in Workers, wpc[u] \in Holding,
           cur' = [cur EXCEPT ![u] = NoJob]
    PROVE  /\ cur[u] \in Jobs
           /\ Held(cur[u]) /\ ~InQueue(cur[u]) /\ ~Resolved(cur[u])
           /\ \A y \in Jobs : Held(y)' <=> Held(y) /\ y # cur[u]
           /\ \A v, w \in Workers : cur'[v] = cur'[w] /\ cur'[v] # NoJob => v = w
<1>1. cur \in [Workers -> Jobs \cup {NoJob}] /\ cur[u] \in Jobs
  BY DEF ConservationInv, TypeInv, TypeOK, HeldShape
<1>2. Held(cur[u]) /\ ~InQueue(cur[u]) /\ ~Resolved(cur[u])
  BY <1>1 DEF Held, ConservationInv, JobConservation
<1>3. \A v, w \in Workers : cur[v] = cur[w] /\ cur[v] # NoJob => v = w
  BY DEF ConservationInv, JobConservation
<1>4. \A y \in Jobs : Held(y)' <=> Held(y) /\ y # cur[u]
  BY <1>1, <1>3, ConstantFacts DEF Held
<1>5. \A v, w \in Workers : cur'[v] = cur'[w] /\ cur'[v] # NoJob => v = w
  BY <1>1, <1>3
<1>. QED  BY <1>1, <1>2, <1>4, <1>5

\* A preempted job goes from its worker back to the deque.
LEMMA ConservationPreempt ==
    ASSUME ConservationInv, NEW u \in Workers, executePreempted(u)
    PROVE  JobConservation'
<1> DEFINE j == cur[u]
<1>1. /\ wpc[u] \in Holding
      /\ cur' = [cur EXCEPT ![u] = NoJob]
      /\ submitted' = submitted /\ promise' = promise
  BY DEF executePreempted, Holding, resultVars
<1>2. /\ j \in Jobs
      /\ Held(j) /\ ~InQueue(j) /\ ~Resolved(j)
      /\ \A y \in Jobs : Held(y)' <=> Held(y) /\ y # j
      /\ \A v, w \in Workers : cur'[v] = cur'[w] /\ cur'[v] # NoJob => v = w
  BY <1>1, SoleHolder
<1>3. /\ jobs_ \in Seq(Jobs)
      /\ jobs_' = addJob(jobs_, j)
  BY <1>2, EnqueueFacts DEF executePreempted, ConservationInv, TypeInv, TypeOK, QueueTypeOK
<1> HIDE DEF j
<1>4. Distinct(jobs_) /\ ~In(jobs_, j)
  BY <1>2 DEF ConservationInv, JobConservation, Distinct, InQueue, In
<1>5. /\ Distinct(jobs_')
      /\ \A y : In(jobs_', y) <=> In(jobs_, y) \/ y = j
  BY <1>2, <1>3, <1>4, AddMembers
<1>6. \A y \in Jobs : /\ InQueue(y)' <=> InQueue(y) \/ y = j
                      /\ Resolved(y)' <=> Resolved(y)
  BY <1>1, <1>5 DEF InQueue, In, Resolved
<1>7. \A y \in Jobs : /\ y \in submitted' <=> InQueue(y)' \/ Held(y)' \/ Resolved(y)'
                      /\ ~(InQueue(y)' /\ Held(y)')
                      /\ ~(InQueue(y)' /\ Resolved(y)')
                      /\ ~(Held(y)' /\ Resolved(y)')
  BY <1>1, <1>2, <1>6 DEF ConservationInv, JobConservation
<1>. QED  BY <1>2, <1>5, <1>7 DEF JobConservation, Distinct

\* A finished job goes from its worker to its promise.
LEMMA ConservationFulfil ==
    ASSUME ConservationInv, NEW u \in Workers, fulfil(u)
    PROVE  JobConservation'
<1> DEFINE j == cur[u]
<1>1. /\ wpc[u] \in Holding
      /\ cur' = [cur EXCEPT ![u] = NoJob]
      /\ submitted' = submitted /\ jobs_' = jobs_
      /\ promise' = [promise EXCEPT ![j] = PromiseValue(outcome[u])]
  BY DEF fulfil, Holding, queueVars
<1>2. /\ j \in Jobs
      /\ Held(j) /\ ~InQueue(j) /\ ~Resolved(j)
      /\ \A y \in Jobs : Held(y)' <=> Held(y) /\ y # j
      /\ \A v, w \in Workers : cur'[v] = cur'[w] /\ cur'[v] # NoJob => v = w
  BY <1>1, SoleHolder
<1> HIDE DEF j
<1>3. promise \in [Jobs -> {"unset", "zero", "one"}] /\ PromiseValue(outcome[u]) # "unset"
  BY DEF ConservationInv, TypeInv, TypeOK, PromiseValue
<1>4. \A y \in Jobs : /\ InQueue(y)' <=> InQueue(y)
                      /\ Resolved(y)' <=> Resolved(y) \/ y = j
  BY <1>1, <1>2, <1>3 DEF InQueue, Resolved
<1>5. \A y \in Jobs : /\ y \in submitted' <=> InQueue(y)' \/ Held(y)' \/ Resolved(y)'
                      /\ ~(InQueue(y)' /\ Held(y)')
                      /\ ~(InQueue(y)' /\ Resolved(y)')
                      /\ ~(Held(y)' /\ Resolved(y)')
  BY <1>1, <1>2, <1>4 DEF ConservationInv, JobConservation
<1>6. \A a, b \in DOMAIN jobs_' : jobs_'[a] = jobs_'[b] => a = b
  BY <1>1 DEF ConservationInv, JobConservation
<1>. QED  BY <1>2, <1>5, <1>6 DEF JobConservation

\* JobConservation holds at first, when nothing has been submitted.
LEMMA ConservationInit == Init => ConservationInv
<1> SUFFICES ASSUME Init PROVE JobConservation
  BY TypeInit DEF ConservationInv
<1>1. DOMAIN jobs_ = {}
  BY EmptySeq, LenProperties DEF Init, QueueInit
<1>. QED  BY <1>1, ConstantFacts DEF Init, JobConservation, InQueue, Held, Resolved

\* Every step keeps JobConservation.
LEMMA ConservationNext == ConservationInv /\ [Next]_vars => ConservationInv'
<1> SUFFICES ASSUME ConservationInv, [Next]_vars PROVE ConservationInv'  OBVIOUS
<1>1. TypeInv'
  BY TypeNext DEF ConservationInv
<1>2. CASE UNCHANGED <<jobs_, cur, promise, submitted>>
  BY <1>1, <1>2 DEF ConservationInv, JobConservation, InQueue, Held, Resolved
<1>3. CASE \E j \in Jobs : submitJob(j)
  BY <1>1, <1>3, ConservationSubmit DEF ConservationInv
<1>4. CASE \E w \in Workers : workerTake(w) \/ executePreempted(w) \/ fulfil(w)
  BY <1>1, <1>4, ConservationTake, ConservationPreempt, ConservationFulfil DEF ConservationInv
<1>. QED  BY <1>2, <1>3, <1>4, MovingSteps

\* No interleaving of submitters, workers, preemption and stop() loses a job, runs
\* it in two places or resolves it twice, for any number of workers and any scheduler.
THEOREM JobsConserved == Spec => []JobConservation
<1>1. ConservationInv => JobConservation  BY DEF ConservationInv
<1>. QED  BY <1>1, ConservationInit, ConservationNext, PTL DEF Spec

-------------------------------------------------------------------------------
(* No wake-up is lost.                                                     *)

\* How running_ and stopping_ follow the thread that owns the pool.
RunShape ==
    /\ running_ <=> ctl = "up"
    /\ stopping_ => ctl \in {"stop_notify", "join", "stopped"}

\* Only a thread inside dequeue() sleeps in cv_.wait.
WaitShape == \A w \in waiting : wpc[w] = "dequeue"

WakeShape == TypeInv /\ RunShape /\ WaitShape

WakeInv == WakeShape /\ WorkConserving

\* More seekers, and one more at least if some thread has joined them.
LEMMA MoreSeekers ==
    ASSUME Seeking \subseteq Seeking'
    PROVE  /\ Cardinality(Seeking) \in Nat /\ Cardinality(Seeking') \in Nat
           /\ Cardinality(Seeking) <= Cardinality(Seeking')
           /\ (\E u : u \notin Seeking /\ u \in Seeking') =>
                 Cardinality(Seeking) + 1 <= Cardinality(Seeking')
<1>1. Seeking \in SUBSET Workers /\ Seeking' \in SUBSET Workers
  BY DEF Seeking
<1>2. IsFiniteSet(Seeking) /\ IsFiniteSet(Seeking')
  BY <1>1, FS_Subset, ConstantFacts
<1>3. Cardinality(Seeking) \in Nat /\ Cardinality(Seeking') \in Nat
  BY <1>2, FS_CardinalityType
<1>4. /\ Cardinality(Seeking) <= Cardinality(Seeking')
      /\ Cardinality(Seeking') = Cardinality(Seeking) => Seeking' = Seeking
  BY <1>2, FS_Subset
<1>5. ASSUME NEW u, u \notin Seeking, u \in Seeking'
      PROVE  Cardinality(Seeking) + 1 <= Cardinality(Seeking')
  BY <1>3, <1>4, <1>5
<1>. QED  BY <1>3, <1>4, <1>5

\* The shape of the control state, one step per group of actions.
LEMMA WakeShapeNext == WakeShape /\ [Next]_vars => WakeShape'
<1> SUFFICES ASSUME WakeShape, [Next]_vars PROVE RunShape' /\ WaitShape'
  BY TypeNext DEF WakeShape
<1> USE DEF WakeShape, RunShape, WaitShape
<1>0. wpc \in [Workers -> PC] /\ waiting \in SUBSET Workers
  BY DEF TypeInv, TypeOK, QueueTypeOK
<1>1. CASE UNCHANGED vars
  BY <1>1 DEF vars, queueVars, poolVars
<1>2. CASE start
  <2>1. waiting = {}
    BY <1>0, <1>2 DEF start, TypeInv, BornShape
  <2>. QED  BY <1>2, <2>1 DEF start, queueVars
<1>3. CASE stopRunning \/ stopQueue \/ stopQueueNotify \/ joinAll
  BY <1>3 DEF stopRunning, stopQueue, stopQueueNotify, joinAll, stopSet, stopNotify, queueVars,
              poolVars
<1>4. ASSUME NEW j \in Jobs, submitJob(j) PROVE RunShape' /\ WaitShape'
  <2>1. waiting' \subseteq waiting /\ stopping_' = stopping_
    BY <1>4, EnqueueFacts DEF submitJob, TypeInv, TypeOK
  <2>. QED  BY <1>4, <2>1 DEF submitJob, poolVars
<1>5. ASSUME NEW w \in Workers, workerProgress(w) \/ workerSpuriousWake(w)
      PROVE  RunShape' /\ WaitShape'
  <2>1. UNCHANGED <<running_, stopping_, ctl>>
    BY <1>5 DEF workerProgress, checkRunning, workerSleep, workerSpuriousWake, workerBreak,
       workerTake, executeDone, executePreempted, executeExit, submitLock, observe, fulfil,
       dequeueWait, spuriousWake, dequeueNull, dequeueJob, enqueue, queueVars, poolVars
  <2>2. CASE workerSleep(w) \/ workerSpuriousWake(w)
    BY <2>1, <2>2, <1>0 DEF workerSleep, workerSpuriousWake, dequeueWait, spuriousWake,
       poolVars
  <2>3. CASE workerBreak(w) \/ workerTake(w)
    BY <2>1, <2>3, <1>0 DEF workerBreak, workerTake, dequeueNull, dequeueJob, Goto, queueVars
  <2>4. CASE executePreempted(w)
    <3>1. cur[w] \in Jobs
      BY <2>4 DEF executePreempted, TypeInv, TypeOK, HeldShape, Holding
    <3>2. waiting' \subseteq waiting
      BY <2>4, <3>1, EnqueueFacts DEF executePreempted, TypeInv, TypeOK
    <3>. QED  BY <2>1, <2>4, <3>2, <1>0 DEF executePreempted, Goto
  <2>5. CASE checkRunning(w) \/ executeDone(w) \/ submitLock(w) \/ fulfil(w)
    BY <2>1, <2>5, <1>0 DEF checkRunning, executeDone, submitLock, fulfil, Goto, queueVars
  <2>6. CASE executeExit(w) \/ observe(w)
    BY <2>1, <2>6, <1>0 DEF executeExit, observe, Goto, queueVars, poolVars
  <2>. QED  BY <1>5, <2>2, <2>3, <2>4, <2>5, <2>6 DEF workerProgress
<1>. QED  BY <1>1, <1>2, <1>3, <1>4, <1>5 DEF Next, terminated

\* enqueue either finds nobody asleep or wakes one worker, who then seeks.
LEMMA WakeSubmit ==
    ASSUME WakeInv, NEW j \in Jobs, submitJob(j)
    PROVE  WorkConserving'
<1>1. /\ QueueTypeOK /\ QueueTypeOK'
      /\ jobs_' = addJob(jobs_, j)
      /\ (waiting = {} /\ waiting' = {}) \/ \E w \in waiting : waiting' = waiting \ {w}
      /\ wpc' = wpc /\ running_' = running_
  BY EnqueueFacts DEF submitJob, poolVars, WakeInv, WakeShape, TypeInv, TypeOK
<1>2. Len(jobs_) \in Nat /\ Len(jobs_') = Len(jobs_) + 1
  BY <1>1, AddMembers, LenProperties DEF QueueTypeOK
<1>3. CASE waiting' = {}
  BY <1>3 DEF WorkConserving
<1>4. ASSUME NEW u \in waiting, waiting' = waiting \ {u} PROVE WorkConserving'
  <2>1. Seeking \subseteq Seeking' /\ u \notin Seeking /\ u \in Seeking'
    BY <1>1, <1>4 DEF Seeking, WakeInv, WakeShape, WaitShape, QueueTypeOK
  <2>2. /\ Cardinality(Seeking) \in Nat /\ Cardinality(Seeking') \in Nat
        /\ Cardinality(Seeking) + 1 <= Cardinality(Seeking')
    BY <2>1, MoreSeekers
  <2>3. running_ => Len(jobs_) <= Cardinality(Seeking)
    BY <1>4 DEF WakeInv, WorkConserving
  <2>. QED  BY <1>1, <1>2, <2>2, <2>3 DEF WorkConserving
<1>. QED  BY <1>1, <1>3, <1>4

\* A preempted worker enqueues and becomes a seeker itself.
LEMMA WakePreempt ==
    ASSUME WakeInv, NEW w \in Workers, executePreempted(w)
    PROVE  WorkConserving'
<1>1. cur[w] \in Jobs
  BY DEF executePreempted, WakeInv, WakeShape, TypeInv, TypeOK, HeldShape, Holding
<1>2. /\ QueueTypeOK /\ QueueTypeOK'
      /\ jobs_' = addJob(jobs_, cur[w])
      /\ waiting' \subseteq waiting
      /\ running_' = running_
      /\ wpc' = [wpc EXCEPT ![w] = "check"]
      /\ wpc \in [Workers -> PC] /\ wpc[w] = "execute"
  BY <1>1, EnqueueFacts DEF executePreempted, Goto, WakeInv, WakeShape, TypeInv, TypeOK
<1>3. Len(jobs_) \in Nat /\ Len(jobs_') = Len(jobs_) + 1
  BY <1>1, <1>2, AddMembers, LenProperties DEF QueueTypeOK
<1>4. Seeking \subseteq Seeking' /\ w \notin Seeking /\ w \in Seeking'
  BY <1>2 DEF Seeking, WakeInv, WakeShape, WaitShape
<1>5. /\ Cardinality(Seeking) \in Nat /\ Cardinality(Seeking') \in Nat
      /\ Cardinality(Seeking) + 1 <= Cardinality(Seeking')
  BY <1>4, MoreSeekers
<1>6. running_' /\ waiting' # {} => Len(jobs_) <= Cardinality(Seeking)
  BY <1>2 DEF WakeInv, WorkConserving
<1>. QED  BY <1>3, <1>5, <1>6 DEF WorkConserving

\* A worker that takes a job leaves one job fewer and one seeker fewer.
LEMMA WakeTake ==
    ASSUME WakeInv, NEW w \in Workers, workerTake(w)
    PROVE  WorkConserving'
<1>1. PICK i \in DOMAIN jobs_ : jobs_' = eraseJob(jobs_, i)
  BY DEF workerTake, dequeueJob
<1>2. /\ w \notin waiting /\ waiting' = waiting /\ running_' = running_
      /\ wpc[w] = "dequeue" /\ wpc' = [wpc EXCEPT ![w] = "execute"]
      /\ wpc \in [Workers -> PC] /\ jobs_ \in Seq(Jobs)
  BY DEF workerTake, dequeueJob, Goto, WakeInv, WakeShape, TypeInv, TypeOK, QueueTypeOK
<1>3. Len(jobs_) \in Nat /\ Len(jobs_') = Len(jobs_) - 1
  BY <1>1, <1>2, EraseProperties, LenProperties
<1>4. w \in Seeking /\ Seeking' = Seeking \ {w}
  BY <1>2 DEF Seeking
<1>5. /\ Cardinality(Seeking) \in Nat
      /\ Cardinality(Seeking \ {w}) = Cardinality(Seeking) - 1
  <2>1. Seeking \in SUBSET Workers  BY DEF Seeking
  <2>2. IsFiniteSet(Seeking)  BY <2>1, FS_Subset, ConstantFacts
  <2>. QED  BY <2>2, <1>4, FS_RemoveElement, FS_CardinalityType
<1>6. running_' /\ waiting' # {} => Len(jobs_) <= Cardinality(Seeking)
  BY <1>2 DEF WakeInv, WorkConserving
<1>. QED  BY <1>3, <1>4, <1>5, <1>6 DEF WorkConserving

\* Steps that leave the deque alone and let no seeker go.
LEMMA WakeKeep ==
    ASSUME WakeInv, jobs_' = jobs_, Seeking \subseteq Seeking',
           running_' /\ waiting' # {} => running_ /\ waiting # {}
    PROVE  WorkConserving'
<1>1. /\ Cardinality(Seeking) \in Nat /\ Cardinality(Seeking') \in Nat
      /\ Cardinality(Seeking) <= Cardinality(Seeking')
  BY MoreSeekers
<1>2. Len(jobs_) \in Nat
  BY LenProperties DEF WakeInv, WakeShape, TypeInv, TypeOK, QueueTypeOK
<1>. QED  BY <1>1, <1>2 DEF WakeInv, WorkConserving

\* The deque and the control state start empty and at rest.
LEMMA WakeInit == Init => WakeInv
<1> SUFFICES ASSUME Init PROVE RunShape /\ WaitShape /\ WorkConserving
  BY TypeInit DEF WakeInv, WakeShape
<1>. QED  BY DEF Init, QueueInit, RunShape, WaitShape, WorkConserving

\* Every step keeps WorkConserving.
LEMMA WakeNext == WakeInv /\ [Next]_vars => WakeInv'
<1> SUFFICES ASSUME WakeInv, [Next]_vars PROVE WorkConserving'
  BY WakeShapeNext DEF WakeInv
<1>0. wpc \in [Workers -> PC] /\ waiting \in SUBSET Workers /\ RunShape /\ WaitShape
  BY DEF WakeInv, WakeShape, TypeInv, TypeOK, QueueTypeOK
<1>1. CASE UNCHANGED vars
  BY <1>1 DEF vars, queueVars, poolVars, WakeInv, WorkConserving, Seeking
<1>2. CASE start
  <2>1. waiting' = {}
    BY <1>0, <1>2 DEF start, queueVars, WakeInv, WakeShape, TypeInv, BornShape, WaitShape
  <2>. QED  BY <2>1 DEF WorkConserving
<1>3. CASE stopRunning \/ stopQueue \/ stopQueueNotify \/ joinAll
  <2>1. ~running_'
    BY <1>0, <1>3 DEF stopRunning, stopQueue, stopQueueNotify, joinAll, poolVars, RunShape
  <2>. QED  BY <2>1 DEF WorkConserving
<1>4. CASE \E j \in Jobs : submitJob(j)
  BY <1>4, WakeSubmit
<1>5. ASSUME NEW w \in Workers, workerProgress(w) \/ workerSpuriousWake(w)
      PROVE  WorkConserving'
  <2>1. CASE checkRunning(w)
    <3>1. CASE running_
      <4>1. Seeking \subseteq Seeking'
        BY <2>1, <3>1, <1>0 DEF checkRunning, Goto, queueVars, Seeking
      <4>. QED  BY <2>1, <4>1, WakeKeep DEF checkRunning, queueVars
    <3>2. CASE ~running_
      BY <2>1, <3>2 DEF checkRunning, WorkConserving
    <3>. QED  BY <3>1, <3>2
  <2>2. CASE workerSleep(w)
    <3>1. Len(jobs_') = 0
      BY <2>2, EmptySeq DEF workerSleep, dequeueWait
    <3>2. Seeking' \in SUBSET Workers  BY DEF Seeking
    <3>3. Cardinality(Seeking') \in Nat
      BY <3>2, FS_Subset, FS_CardinalityType, ConstantFacts
    <3>. QED  BY <3>1, <3>3 DEF WorkConserving
  <2>3. CASE workerSpuriousWake(w)
    <3>1. Seeking \subseteq Seeking'
      BY <2>3 DEF workerSpuriousWake, spuriousWake, poolVars, Seeking
    <3>. QED  BY <2>3, <3>1, WakeKeep DEF workerSpuriousWake, spuriousWake, poolVars
  <2>4. CASE workerBreak(w)
    <3>1. ~running_'
      BY <1>0, <2>4 DEF workerBreak, dequeueNull, RunShape
    <3>. QED  BY <3>1 DEF WorkConserving
  <2>5. CASE workerTake(w) \/ executePreempted(w)
    BY <2>5, WakeTake, WakePreempt
  <2>6. CASE executeDone(w) \/ submitLock(w) \/ fulfil(w)
    <3>1. Seeking \subseteq Seeking'
      BY <2>6, <1>0 DEF executeDone, submitLock, fulfil, Goto, queueVars, Seeking
    <3>. QED  BY <2>6, <3>1, WakeKeep DEF executeDone, submitLock, fulfil, queueVars
  <2>7. CASE executeExit(w) \/ observe(w)
    <3>1. Seeking \subseteq Seeking'
      BY <2>7, <1>0 DEF executeExit, observe, Goto, queueVars, poolVars, Seeking
    <3>. QED  BY <2>7, <3>1, WakeKeep DEF executeExit, observe, queueVars, poolVars
  <2>. QED  BY <1>5, <2>1, <2>2, <2>3, <2>4, <2>5, <2>6, <2>7 DEF workerProgress
<1>. QED  BY <1>1, <1>2, <1>3, <1>4, <1>5 DEF Next, terminated

\* While the pool runs, no worker sleeps in cv_.wait with a queued job that nobody
\* awake will fetch: one notify_one per enqueue is enough, for any number of workers.
THEOREM NoLostWakeup == Spec => []WorkConserving
<1>1. WakeInv => WorkConserving  BY DEF WakeInv
<1>. QED  BY <1>1, WakeInit, WakeNext, PTL DEF Spec

-------------------------------------------------------------------------------
(* What the pool publishes: the observers' logs, their order with respect  *)
(* to the promises, and the refinement of JobService.                      *)

\* The log of the observer that is called last, and the result a worker has to report.
Log == seen[NumObservers]
Result(w) == JobResult(cur[w], outcome[w])
Reported(j) == \E i \in DOMAIN Log : Log[i].job = j

\* The owner of ResultCollector::mutex_ is the one worker that calls observers, and a
\* free mutex means that none has been called for a result that is still on its way.
LockShape ==
    /\ \A w \in Workers : wpc[w] = "observe" <=> mutex_ = w
    /\ mutex_ = NoWorker => notified = 0

\* The observers already called are one result ahead of the others, who agree.
LogShape ==
    \A k \in Observers :
        seen[k] = IF k <= notified THEN Append(Log, Result(mutex_)) ELSE Log

\* The log holds one result per job: of those whose promise is set, with the same
\* meaning, and of those a worker is about to set it for.
ReportShape ==
    /\ \A a, b \in DOMAIN Log : Log[a].job = Log[b].job => a = b
    /\ \A j \in Jobs : Reported(j) =>
          Resolved(j) \/ \E w \in Workers : cur[w] = j /\ wpc[w] = "fulfil"
    /\ \A w \in Workers : wpc[w] = "fulfil" => \E i \in DOMAIN Log : Log[i] = Result(w)
    /\ \A j \in Jobs : Resolved(j) =>
          \E i \in DOMAIN Log :
              Log[i].job = j /\ (Log[i].verdict = "SUCCESS" <=> promise[j] = "zero")

ResultInv == ConservationInv /\ LockShape /\ LogShape /\ ReportShape

R == [job : Jobs, verdict : Verdicts]

\* What the steps need of the types.
LEMMA ResultTypes ==
    ASSUME ResultInv
    PROVE  /\ NumObservers \in Observers
           /\ seen \in [Observers -> Seq(R)]
           /\ Log \in Seq(R)
           /\ Len(Log) \in Nat /\ DOMAIN Log = 1..Len(Log)
           /\ wpc \in [Workers -> PC] /\ cur \in [Workers -> Jobs \cup {NoJob}]
           /\ promise \in [Jobs -> {"unset", "zero", "one"}]
           /\ notified \in 0..(NumObservers - 1)
           /\ notified # 0 => mutex_ \in Workers /\ wpc[mutex_] = "observe"
<1>1. NumObservers \in Observers
  BY ConstantFacts DEF Observers
<1>2. seen \in [Observers -> Seq(R)]
  BY DEF ResultInv, ConservationInv, TypeInv, TypeOK, R
<1>3. Log \in Seq(R)
  BY <1>1, <1>2 DEF Log
<1>4. Len(Log) \in Nat /\ DOMAIN Log = 1..Len(Log)
  BY <1>3, LenProperties
<1>5. notified # 0 => mutex_ \in Workers /\ wpc[mutex_] = "observe"
  BY DEF ResultInv, LockShape, ConservationInv, TypeInv, TypeOK
<1>. QED  BY <1>1, <1>2, <1>3, <1>4, <1>5 DEF ResultInv, ConservationInv, TypeInv, TypeOK

\* A step that changes no log and no promise, and moves no worker in or out of the
\* places where it reports.
LEMMA ResultKeep ==
    ASSUME ResultInv, UNCHANGED resultVars,
           \A w \in Workers :
               {wpc[w], wpc'[w]} \cap {"observe", "fulfil"} # {} =>
                   wpc'[w] = wpc[w] /\ cur'[w] = cur[w] /\ outcome'[w] = outcome[w]
    PROVE  LockShape' /\ LogShape' /\ ReportShape'
<1>1. /\ Log' = Log
      /\ mutex_' = mutex_ /\ notified' = notified /\ seen' = seen /\ promise' = promise
  BY DEF resultVars, Log
<1>2. \A w \in Workers :
          /\ wpc'[w] = "observe" <=> wpc[w] = "observe"
          /\ wpc'[w] = "fulfil" <=> wpc[w] = "fulfil"
          /\ wpc[w] \in {"observe", "fulfil"} => cur'[w] = cur[w] /\ Result(w)' = Result(w)
  BY DEF Result
<1>3. LockShape'
  BY <1>1, <1>2 DEF ResultInv, LockShape
<1>4. LogShape'
  <2> SUFFICES ASSUME NEW k \in Observers
               PROVE  seen[k] = IF k <= notified THEN Append(Log, Result(mutex_)') ELSE Log
    BY <1>1 DEF LogShape, Result
  <2>1. CASE k <= notified
    <3>1. notified # 0  BY <2>1, ConstantFacts DEF Observers
    <3>2. Result(mutex_)' = Result(mutex_)
      BY <3>1, <1>1, <1>2, ResultTypes DEF Result
    <3>. QED  BY <3>2 DEF ResultInv, LogShape
  <2>2. CASE ~(k <= notified)
    BY <2>2 DEF ResultInv, LogShape
  <2>. QED  BY <2>1, <2>2
<1>5. ReportShape'
  <2>1. \A j \in Jobs : (Reported(j)' <=> Reported(j)) /\ (Resolved(j)' <=> Resolved(j))
    BY <1>1 DEF Reported, Resolved
  <2>. QED  BY <1>1, <1>2, <2>1 DEF ResultInv, ReportShape
<1>. QED  BY <1>3, <1>4, <1>5

\* The mutex is taken before the first observer is called.
LEMMA ResultLock ==
    ASSUME ResultInv, NEW u \in Workers, submitLock(u)
    PROVE  LockShape' /\ LogShape' /\ ReportShape'
<1>1. /\ wpc[u] = "submit" /\ wpc' = [wpc EXCEPT ![u] = "observe"]
      /\ mutex_ = NoWorker /\ mutex_' = u /\ notified = 0 /\ notified' = 0
      /\ seen' = seen /\ promise' = promise /\ cur' = cur /\ outcome' = outcome
      /\ Log' = Log
  BY DEF submitLock, Goto, Log, ResultInv, LockShape
<1>2. LockShape'
  BY <1>1, ResultTypes, ConstantFacts DEF ResultInv, LockShape
<1>3. LogShape'
  <2>1. \A k \in Observers : ~(k <= 0)  BY ConstantFacts DEF Observers
  <2>. QED  BY <1>1, <2>1 DEF ResultInv, LogShape
<1>4. ReportShape'
  <2>1. \A w \in Workers : /\ wpc'[w] = "fulfil" <=> wpc[w] = "fulfil"
                           /\ Result(w)' = Result(w)
    BY <1>1, ResultTypes DEF Result
  <2>2. \A j \in Jobs : (Reported(j)' <=> Reported(j)) /\ (Resolved(j)' <=> Resolved(j))
    BY <1>1 DEF Reported, Resolved
  <2>. QED  BY <1>1, <2>1, <2>2 DEF ResultInv, ReportShape
<1>. QED  BY <1>2, <1>3, <1>4

\* The last observer is called: its log grows, the others' stay where they were.
LEMMA ResultObserveLast ==
    ASSUME ResultInv, NEW u \in Workers, observe(u), notified + 1 = NumObservers
    PROVE  LockShape' /\ LogShape' /\ ReportShape'
<1> DEFINE r == Result(u)
<1>1. /\ wpc[u] = "observe" /\ wpc' = [wpc EXCEPT ![u] = "fulfil"]
      /\ mutex_ = u /\ mutex_' = NoWorker /\ notified' = 0
      /\ seen' = [seen EXCEPT ![NumObservers] = Append(Log, r)]
      /\ promise' = promise /\ cur' = cur /\ outcome' = outcome
  BY DEF observe, Goto, Log, Result
<1>2. Log' = Append(Log, r)
  BY <1>1, ResultTypes DEF Log
<1>3. cur[u] \in Jobs /\ r \in R /\ r.job = cur[u]
  BY <1>1 DEF Result, JobResult, R, Verdict, Verdicts, ResultInv, ConservationInv, TypeInv, TypeOK,
     HeldShape, Holding
<1> HIDE DEF r
<1>4. /\ DOMAIN Log' = 1..(Len(Log) + 1)
      /\ \A i \in DOMAIN Log : i \in DOMAIN Log' /\ Log'[i] = Log[i] /\ i # Len(Log) + 1
      /\ Len(Log) + 1 \in DOMAIN Log' /\ Log'[Len(Log) + 1] = r
      /\ \A i \in DOMAIN Log' : i \in DOMAIN Log \/ i = Len(Log) + 1
  <2>1. /\ Log' \in Seq(R) /\ Len(Log') = Len(Log) + 1
        /\ \A i \in 1..Len(Log) : Log'[i] = Log[i]
        /\ Log'[Len(Log) + 1] = r
    BY <1>2, <1>3, ResultTypes, AppendProperties
  <2>2. DOMAIN Log' = 1..(Len(Log) + 1)
    BY <2>1, LenProperties
  <2>. QED  BY <2>1, <2>2, ResultTypes
<1>5. LockShape'
  BY <1>1, ResultTypes, ConstantFacts DEF ResultInv, LockShape
<1>6. LogShape'
  <2> SUFFICES ASSUME NEW k \in Observers PROVE seen'[k] = Log'
    <3>1. \A k \in Observers : ~(k <= 0)  BY ConstantFacts DEF Observers
    <3>. QED  BY <1>1, <3>1 DEF LogShape
  <2>1. CASE k = NumObservers
    BY <2>1 DEF Log
  <2>2. CASE k # NumObservers
    <3>1. k <= notified  BY <2>2, ResultTypes, ConstantFacts DEF Observers
    <3>. QED  BY <1>1, <1>2, <2>2, <3>1, ResultTypes DEF ResultInv, LogShape, r
  <2>. QED  BY <2>1, <2>2
<1>7. ~Resolved(cur[u]) /\ ~Reported(cur[u])
  <2>1. ~Resolved(cur[u])
    BY <1>3 DEF ResultInv, ConservationInv, JobConservation, Held
  <2>2. \A w \in Workers : cur[w] = cur[u] => w = u
    BY <1>3, ConstantFacts DEF ResultInv, ConservationInv, JobConservation
  <2>. QED  BY <1>1, <1>3, <2>1, <2>2 DEF ResultInv, ReportShape
<1>8. \A j \in Jobs : Resolved(j)' <=> Resolved(j)
  BY <1>1 DEF Resolved
<1>9. \A w \in Workers : /\ Result(w)' = Result(w) /\ cur'[w] = cur[w]
                         /\ wpc'[w] = "fulfil" <=> wpc[w] = "fulfil" \/ w = u
  BY <1>1, ResultTypes DEF Result
<1>10. \A a, b \in DOMAIN Log' : Log'[a].job = Log'[b].job => a = b
  BY <1>3, <1>4, <1>7 DEF ResultInv, ReportShape, Reported
<1>11. ASSUME NEW j \in Jobs, Reported(j)'
       PROVE  Resolved(j)' \/ \E w \in Workers : cur'[w] = j /\ wpc'[w] = "fulfil"
  <2>1. Reported(j) \/ j = cur[u]
    BY <1>3, <1>4, <1>11 DEF Reported
  <2>. QED  BY <2>1, <1>8, <1>9 DEF ResultInv, ReportShape
<1>12. ASSUME NEW w \in Workers, wpc'[w] = "fulfil"
       PROVE  \E i \in DOMAIN Log' : Log'[i] = Result(w)'
  <2>1. CASE w = u
    BY <1>4, <1>9, <2>1 DEF r
  <2>2. CASE wpc[w] = "fulfil"
    BY <1>4, <1>9, <2>2 DEF ResultInv, ReportShape
  <2>. QED  BY <2>1, <2>2, <1>9, <1>12
<1>13. ASSUME NEW j \in Jobs, Resolved(j)'
       PROVE  \E i \in DOMAIN Log' :
                  Log'[i].job = j /\ (Log'[i].verdict = "SUCCESS" <=> promise'[j] = "zero")
  BY <1>1, <1>4, <1>8, <1>13 DEF ResultInv, ReportShape
<1>14. ReportShape'
  BY <1>10, <1>11, <1>12, <1>13 DEF ReportShape
<1>. QED  BY <1>5, <1>6, <1>14

\* An earlier observer is called: it is now one of those that are ahead.
LEMMA ResultObserve ==
    ASSUME ResultInv, NEW u \in Workers, observe(u), notified + 1 # NumObservers
    PROVE  LockShape' /\ LogShape' /\ ReportShape'
<1>1. /\ wpc' = wpc /\ mutex_ = u /\ mutex_' = u /\ notified' = notified + 1
      /\ seen' = [seen EXCEPT ![notified + 1] = Append(@, Result(u))]
      /\ promise' = promise /\ cur' = cur /\ outcome' = outcome
  BY DEF observe, Result
<1>2. /\ notified + 1 \in Observers /\ NumObservers # notified + 1
      /\ \A k \in Observers : k <= notified + 1 <=> k <= notified \/ k = notified + 1
      /\ ~(notified + 1 <= notified)
  BY ResultTypes, ConstantFacts DEF Observers
<1>3. Log' = Log
  BY <1>1, <1>2, ResultTypes DEF Log
<1>4. \A w : Result(w)' = Result(w)
  BY <1>1 DEF Result
<1>5. LockShape'
  BY <1>1, ConstantFacts DEF ResultInv, LockShape
<1>6. LogShape'
  <2> SUFFICES ASSUME NEW k \in Observers
               PROVE  seen'[k] = IF k <= notified + 1 THEN Append(Log, Result(u)) ELSE Log
    BY <1>1, <1>3, <1>4 DEF LogShape, Result
  <2>1. seen[k] = IF k <= notified THEN Append(Log, Result(u)) ELSE Log
    BY <1>1 DEF ResultInv, LogShape
  <2>2. seen'[k] = IF k = notified + 1 THEN Append(seen[k], Result(u)) ELSE seen[k]
    BY <1>1, <1>2, ResultTypes
  <2>. QED  BY <1>2, <2>1, <2>2
<1>7. ReportShape'
  <2>1. \A j \in Jobs : (Reported(j)' <=> Reported(j)) /\ (Resolved(j)' <=> Resolved(j))
    BY <1>1, <1>3 DEF Reported, Resolved
  <2>. QED  BY <1>1, <1>3, <1>4, <2>1 DEF ResultInv, ReportShape
<1>. QED  BY <1>5, <1>6, <1>7

\* The verdict and the promise's value mean the same.
LEMMA VerdictPromise == \A o : Verdict(o) = "SUCCESS" <=> PromiseValue(o) = "zero"
BY DEF Verdict, PromiseValue

\* The promise is set for a job whose result is in the log.
LEMMA ResultFulfil ==
    ASSUME ResultInv, NEW u \in Workers, fulfil(u)
    PROVE  LockShape' /\ LogShape' /\ ReportShape'
<1> DEFINE j == cur[u]
<1>1. /\ wpc[u] = "fulfil" /\ wpc' = [wpc EXCEPT ![u] = "check"]
      /\ mutex_' = mutex_ /\ notified' = notified /\ seen' = seen /\ Log' = Log
      /\ promise' = [promise EXCEPT ![j] = PromiseValue(outcome[u])]
      /\ cur' = [cur EXCEPT ![u] = NoJob] /\ outcome' = [outcome EXCEPT ![u] = "none"]
  BY DEF fulfil, Goto, Log
<1>2. outcome \in [Workers -> AllOutcomes \cup {"none"}] /\ j \in Jobs
  BY <1>1 DEF ResultInv, ConservationInv, TypeInv, TypeOK, HeldShape, Holding
<1>3. \A w \in Workers \ {u} : /\ wpc'[w] = wpc[w] /\ cur'[w] = cur[w]
                               /\ Result(w)' = Result(w)
  BY <1>1, <1>2, ResultTypes DEF Result
<1>4. \A w \in Workers : cur[w] = j => w = u
  BY <1>2, ConstantFacts DEF ResultInv, ConservationInv, JobConservation
<1>5. PICK n \in DOMAIN Log : Log[n] = Result(u)
  BY <1>1 DEF ResultInv, ReportShape
<1>6. Log[n].job = j /\ (Log[n].verdict = "SUCCESS" <=> PromiseValue(outcome[u]) = "zero")
  BY <1>5, VerdictPromise DEF Result, JobResult
<1> HIDE DEF j
<1>7. wpc'[u] = "check" /\ cur'[u] = NoJob
  BY <1>1, ResultTypes
<1>8. LockShape'
  BY <1>1, <1>3, <1>7 DEF ResultInv, LockShape
<1>9. LogShape'
  <2> SUFFICES ASSUME NEW k \in Observers
               PROVE  seen[k] = IF k <= notified THEN Append(Log, Result(mutex_)') ELSE Log
    BY <1>1 DEF LogShape, Result
  <2>1. CASE k <= notified
    <3>1. notified # 0  BY <2>1, ConstantFacts DEF Observers
    <3>2. mutex_ \in Workers \ {u}  BY <3>1, <1>1, ResultTypes
    <3>3. Result(mutex_)' = Result(mutex_)  BY <3>2, <1>1, <1>3 DEF Result
    <3>. QED  BY <3>3 DEF ResultInv, LogShape
  <2>2. CASE ~(k <= notified)
    BY <2>2 DEF ResultInv, LogShape
  <2>. QED  BY <2>1, <2>2
<1>10. \A y \in Jobs : /\ Resolved(y)' <=> Resolved(y) \/ y = j
                       /\ y # j => promise'[y] = promise[y]
  BY <1>1, <1>2, ResultTypes DEF Resolved, PromiseValue
<1>11. promise'[j] = PromiseValue(outcome[u])
  BY <1>1, <1>2, ResultTypes
<1>12. ASSUME NEW y \in Jobs, Reported(y)'
       PROVE  Resolved(y)' \/ \E w \in Workers : cur'[w] = y /\ wpc'[w] = "fulfil"
  <2>1. Reported(y)  BY <1>1, <1>12 DEF Reported
  <2>2. CASE Resolved(y)  BY <2>2, <1>10
  <2>3. ASSUME NEW w \in Workers, cur[w] = y, wpc[w] = "fulfil"
        PROVE  Resolved(y)' \/ \E v \in Workers : cur'[v] = y /\ wpc'[v] = "fulfil"
    BY <2>3, <1>3, <1>10 DEF j
  <2>. QED  BY <2>1, <2>2, <2>3 DEF ResultInv, ReportShape
<1>13. ASSUME NEW y \in Jobs, Resolved(y)'
       PROVE  \E i \in DOMAIN Log :
                  Log[i].job = y /\ (Log[i].verdict = "SUCCESS" <=> promise'[y] = "zero")
  <2>1. CASE y = j
    BY <2>1, <1>6, <1>11
  <2>2. CASE y # j
    BY <2>2, <1>10, <1>13 DEF ResultInv, ReportShape
  <2>. QED  BY <2>1, <2>2
<1>14. \A w \in Workers : wpc'[w] = "fulfil" => \E i \in DOMAIN Log : Log[i] = Result(w)'
  BY <1>3, <1>7 DEF ResultInv, ReportShape
<1>15. ReportShape'
  <2>1. \A a, b \in DOMAIN Log : Log[a].job = Log[b].job => a = b
    BY DEF ResultInv, ReportShape
  <2>. QED  BY <1>1, <1>12, <1>13, <1>14, <2>1 DEF ReportShape
<1>. QED  BY <1>8, <1>9, <1>15

\* At first nothing is published, held or resolved.
LEMMA ResultInit == Init => ResultInv
<1> SUFFICES ASSUME Init PROVE LockShape /\ LogShape /\ ReportShape
  BY ConservationInit DEF ResultInv
<1>1. /\ NumObservers \in Observers /\ \A k \in Observers : ~(k <= 0)
      /\ seen = [k \in Observers |-> <<>>] /\ notified = 0
  BY ConstantFacts DEF Init, Observers
<1>2. Log = <<>> /\ DOMAIN Log = {}
  <2>1. Log = <<>>  BY <1>1 DEF Log
  <2>2. Log \in Seq(R) /\ Len(Log) = 0  BY <2>1, EmptySeq
  <2>3. DOMAIN Log = 1..0  BY <2>2, LenProperties
  <2>. QED  BY <2>1, <2>3
<1>3. LockShape
  BY ConstantFacts DEF Init, LockShape
<1>4. LogShape
  BY <1>1, <1>2 DEF LogShape
<1>5. ReportShape
  BY <1>2 DEF Init, ReportShape, Reported, Resolved
<1>. QED  BY <1>3, <1>4, <1>5

\* The steps that publish or resolve, and what the others keep.
LEMMA ReportingSteps ==
    ASSUME TypeInv, [Next]_vars
    PROVE  \/ /\ UNCHANGED resultVars
              /\ \A w \in Workers :
                     {wpc[w], wpc'[w]} \cap {"observe", "fulfil"} # {} =>
                         wpc'[w] = wpc[w] /\ cur'[w] = cur[w] /\ outcome'[w] = outcome[w]
           \/ \E w \in Workers : submitLock(w) \/ observe(w) \/ fulfil(w)
<1> DEFINE Keep == /\ UNCHANGED resultVars
                   /\ \A w \in Workers :
                          {wpc[w], wpc'[w]} \cap {"observe", "fulfil"} # {} =>
                              wpc'[w] = wpc[w] /\ cur'[w] = cur[w] /\ outcome'[w] = outcome[w]
<1>0. /\ wpc \in [Workers -> PC] /\ cur \in [Workers -> Jobs \cup {NoJob}]
      /\ outcome \in [Workers -> AllOutcomes \cup {"none"}]
  BY DEF TypeInv, TypeOK
<1>1. CASE UNCHANGED <<resultVars, wpc, cur, outcome>>
  BY <1>1
<1>2. CASE start
  <2>1. \A w \in Workers : wpc[w] = "unborn" /\ wpc'[w] = "check"
    BY <1>2 DEF start, TypeInv, BornShape
  <2>. QED  BY <1>2, <2>1 DEF start
<1>3. CASE stopRunning \/ stopQueue \/ stopQueueNotify \/ joinAll
  BY <1>3, <1>1 DEF stopRunning, stopQueue, stopQueueNotify, joinAll, poolVars
<1>4. CASE \E j \in Jobs : submitJob(j)
  BY <1>4, <1>1 DEF submitJob, poolVars
<1>5. ASSUME NEW u \in Workers, workerSleep(u) \/ workerSpuriousWake(u) \/ executeExit(u)
      PROVE  UNCHANGED <<resultVars, wpc, cur, outcome>>
  BY <1>5 DEF workerSleep, workerSpuriousWake, executeExit, poolVars
<1>6. ASSUME NEW u \in Workers,
             checkRunning(u) \/ workerBreak(u) \/ workerTake(u) \/ executeDone(u)
             \/ executePreempted(u)
      PROVE  Keep
  <2>1. /\ UNCHANGED resultVars
        /\ wpc[u] \in {"check", "dequeue", "execute"}
        /\ \E pc \in {"check", "dequeue", "execute", "submit", "exited"} :
              wpc' = [wpc EXCEPT ![u] = pc]
    BY <1>6 DEF checkRunning, workerBreak, workerTake, executeDone, executePreempted, Goto
  <2>2. \A w \in Workers \ {u} : cur'[w] = cur[w] /\ outcome'[w] = outcome[w]
    BY <1>0, <1>6 DEF checkRunning, workerBreak, workerTake, executeDone, executePreempted
  <2>. QED  BY <1>0, <2>1, <2>2
<1>7. CASE UNCHANGED vars
  BY <1>7, <1>1 DEF vars, poolVars
<1> HIDE DEF Keep
<1>. QED  BY <1>1, <1>2, <1>3, <1>4, <1>5, <1>6, <1>7 DEF Next, terminated, workerProgress, Keep

\* Every step keeps the invariant.
LEMMA ResultNext == ResultInv /\ [Next]_vars => ResultInv'
<1> SUFFICES ASSUME ResultInv, [Next]_vars PROVE LockShape' /\ LogShape' /\ ReportShape'
  BY ConservationNext DEF ResultInv
<1>1. TypeInv  BY DEF ResultInv, ConservationInv
<1>2. CASE \E w \in Workers : submitLock(w) \/ observe(w) \/ fulfil(w)
  BY <1>2, ResultLock, ResultObserve, ResultObserveLast, ResultFulfil
<1>. QED  BY <1>1, <1>2, ReportingSteps, ResultKeep

\* A sequence is a prefix of itself with one element more.
LEMMA AppendPrefix ==
    ASSUME NEW S, NEW s \in Seq(S), NEW x \in S
    PROVE  /\ IsPrefix(s, Append(s, x))
           /\ Len(s) \in Nat /\ Len(Append(s, x)) = Len(s) + 1
<1> DEFINE t == Append(s, x)
           p == SubSeq(s, 1, Len(s))
           q == SubSeq(t, 1, Len(s))
<1>1. Len(s) \in Nat  BY LenProperties
<1>2. /\ t \in Seq(S) /\ Len(t) = Len(s) + 1
      /\ \A i \in 1..Len(s) : t[i] = s[i] /\ s[i] \in S
  BY AppendProperties, ElementOfSeq
<1> HIDE DEF t
<1>3. /\ p \in Seq(S) /\ q \in Seq(S)
      /\ Len(p) = Len(s) /\ Len(q) = Len(s)
      /\ \A i \in 1..Len(s) : p[i] = s[i] /\ q[i] = s[i]
  <2>1. /\ p \in Seq(S)
        /\ Len(p) = IF 1 <= Len(s) THEN Len(s) - 1 + 1 ELSE 0
        /\ \A i \in 1..(Len(s) - 1 + 1) : p[i] = s[1 + i - 1]
    BY <1>1, <1>2, SubSeqProperties
  <2>2. /\ q \in Seq(S)
        /\ Len(q) = IF 1 <= Len(s) THEN Len(s) - 1 + 1 ELSE 0
        /\ \A i \in 1..(Len(s) - 1 + 1) : q[i] = t[1 + i - 1]
    BY <1>1, <1>2, SubSeqProperties
  <2> HIDE DEF p, q
  <2>3. Len(p) = Len(s) /\ Len(q) = Len(s)  BY <1>1, <2>1, <2>2
  <2>4. \A i \in 1..Len(s) : i \in 1..(Len(s) - 1 + 1) /\ 1 + i - 1 = i  BY <1>1
  <2>. QED  BY <1>2, <2>1, <2>2, <2>3, <2>4
<1> HIDE DEF p, q
<1>4. p = q
  BY <1>1, <1>3, SeqEqual
<1>. QED  BY <1>1, <1>2, <1>4 DEF IsPrefix, t, p, q

\* The observers' logs agree whenever the logs have the shape above.
LEMMA AgreeFromShape == ResultInv => ObserversAgree
<1> SUFFICES ASSUME ResultInv, NEW k \in Observers, NEW m \in Observers, k < m
             PROVE  IsPrefix(seen[m], seen[k]) /\ Len(seen[k]) <= Len(seen[m]) + 1
  BY DEF ObserversAgree
<1>1. /\ seen[k] = IF k <= notified THEN Append(Log, Result(mutex_)) ELSE Log
      /\ seen[m] = IF m <= notified THEN Append(Log, Result(mutex_)) ELSE Log
  BY DEF ResultInv, LogShape
<1>2. seen[m] = seen[k] \/ (seen[k] = Append(seen[m], Result(mutex_)) /\ k <= notified)
  BY <1>1, ResultTypes DEF Observers
<1>3. seen[m] \in Seq(R)
  BY ResultTypes
<1>4. CASE seen[m] = seen[k]
  <2>1. Len(seen[m]) \in Nat  BY <1>3, LenProperties
  <2>2. IsPrefix(seen[m], seen[m])  BY <2>1 DEF IsPrefix
  <2>. QED  BY <1>4, <2>1, <2>2
<1>5. CASE seen[k] = Append(seen[m], Result(mutex_)) /\ k <= notified
  <2>1. notified # 0  BY <1>5, ConstantFacts DEF Observers
  <2>2. mutex_ \in Workers /\ wpc[mutex_] = "observe"  BY <2>1, ResultTypes
  <2>3. Result(mutex_) \in R
    BY <2>2 DEF Result, JobResult, R, Verdict, Verdicts, ResultInv, ConservationInv, TypeInv,
       TypeOK, HeldShape, Holding
  <2>4. /\ IsPrefix(seen[m], seen[k])
        /\ Len(seen[m]) \in Nat /\ Len(seen[k]) = Len(seen[m]) + 1
    BY <1>3, <1>5, <2>3, AppendPrefix
  <2>. QED  BY <2>4
<1>. QED  BY <1>2, <1>4, <1>5

\* All observers are given the same results in the same order, however many workers
\* finish at the same time and however many observers there are.
THEOREM ObserversSeeTheSame == Spec => []ObserversAgree
BY ResultInit, ResultNext, AgreeFromShape, PTL DEF Spec

\* A promise comes after the results whenever the log has the shape above.
LEMMA OrderFromShape == ResultInv => ResultBeforePromise
<1> SUFFICES ASSUME ResultInv, NEW j \in Jobs, NEW k \in Observers
             PROVE  LET mine == {i \in DOMAIN seen[k] : seen[k][i].job = j}
                    IN  /\ \A a, b \in mine : a = b
                        /\ Resolved(j) =>
                             \E i \in mine : seen[k][i].verdict = "SUCCESS" <=> promise[j] = "zero"
  BY DEF ResultBeforePromise
<1>1. seen[k] = IF k <= notified THEN Append(Log, Result(mutex_)) ELSE Log
  BY DEF ResultInv, LogShape
<1>2. CASE ~(k <= notified)
  <2>1. seen[k] = Log  BY <1>1, <1>2
  <2>. QED  BY <2>1 DEF ResultInv, ReportShape
<1>3. CASE k <= notified
  <2> DEFINE r == Result(mutex_)
  <2>1. mutex_ \in Workers /\ wpc[mutex_] = "observe"
    BY <1>3, ResultTypes, ConstantFacts DEF Observers
  <2>2. r \in R /\ r.job = cur[mutex_] /\ cur[mutex_] \in Jobs
    BY <2>1 DEF Result, JobResult, R, Verdict, Verdicts, ResultInv, ConservationInv, TypeInv,
       TypeOK, HeldShape, Holding
  <2>3. ~Reported(cur[mutex_])
    <3>1. ~Resolved(cur[mutex_])
      BY <2>1, <2>2 DEF ResultInv, ConservationInv, JobConservation, Held
    <3>2. \A w \in Workers : cur[w] = cur[mutex_] => w = mutex_
      BY <2>1, <2>2, ConstantFacts DEF ResultInv, ConservationInv, JobConservation
    <3>. QED  BY <2>1, <2>2, <3>1, <3>2 DEF ResultInv, ReportShape
  <2> HIDE DEF r
  <2>4. seen[k] = Append(Log, r)  BY <1>1, <1>3 DEF r
  <2>5. /\ \A i \in DOMAIN Log : i \in DOMAIN seen[k] /\ seen[k][i] = Log[i]
        /\ \A i \in DOMAIN seen[k] : i \in DOMAIN Log \/ (i = Len(Log) + 1 /\ seen[k][i] = r)
    <3>1. /\ seen[k] \in Seq(R) /\ Len(seen[k]) = Len(Log) + 1
          /\ \A i \in 1..Len(Log) : seen[k][i] = Log[i]
          /\ seen[k][Len(Log) + 1] = r
      BY <2>2, <2>4, ResultTypes, AppendProperties
    <3>2. DOMAIN seen[k] = 1..(Len(Log) + 1)
      BY <3>1, LenProperties
    <3>. QED  BY <3>1, <3>2, ResultTypes
  <2>6. ASSUME NEW a \in DOMAIN seen[k], NEW b \in DOMAIN seen[k],
               seen[k][a].job = j, seen[k][b].job = j
        PROVE  a = b
    BY <2>2, <2>3, <2>5, <2>6 DEF ResultInv, ReportShape, Reported
  <2>7. ASSUME Resolved(j)
        PROVE  \E i \in DOMAIN seen[k] :
                   /\ seen[k][i].job = j
                   /\ seen[k][i].verdict = "SUCCESS" <=> promise[j] = "zero"
    BY <2>5, <2>7 DEF ResultInv, ReportShape
  <2>. QED  BY <2>6, <2>7
<1>. QED  BY <1>2, <1>3

\* Whoever waits on a job's future finds its one result, of the same meaning, with every
\* observer: set_value comes after submitResult on every path of workerLoop.
THEOREM ResultsPrecedePromises == Spec => []ResultBeforePromise
BY ResultInit, ResultNext, OrderFromShape, PTL DEF Spec

-------------------------------------------------------------------------------
(* The pool implements JobService.                                         *)

\* A job's abstract status follows from where the job is.
LEMMA StatusOf ==
    ASSUME ConservationInv, NEW j \in Jobs
    PROVE  /\ AbstractStatus[j] = "new" <=> j \notin submitted
           /\ AbstractStatus[j] = "queued" <=> InQueue(j)
           /\ AbstractStatus[j] = "running" <=> Held(j)
           /\ AbstractStatus[j] = "done" <=> Resolved(j)
BY DEF AbstractStatus, ConservationInv, JobConservation

\* Moving one job between places is one change of the abstract status.
LEMMA StatusMove ==
    ASSUME ConservationInv, ConservationInv', NEW j \in Jobs,
           \A y \in Jobs \ {j} : /\ y \in submitted' <=> y \in submitted
                                 /\ InQueue(y)' <=> InQueue(y)
                                 /\ Held(y)' <=> Held(y)
    PROVE  AbstractStatus' = [AbstractStatus EXCEPT ![j] = AbstractStatus'[j]]
BY DEF AbstractStatus

\* The published jobs of the abstract service are the jobs in the last log.
LEMMA PublishedIsReported == PublishedJobs = {j \in Jobs : Reported(j)}
BY DEF PublishedJobs, Reported, Log

\* enqueue by a submitter is Accept.
LEMMA SubmitAccepts ==
    ASSUME ResultInv, ResultInv', NEW j \in Jobs, submitJob(j)
    PROVE  Service!Accept(j)
<1>1. ConservationInv /\ ConservationInv'
  BY DEF ResultInv
<1>2. /\ jobs_ \in Seq(Jobs) /\ jobs_' = addJob(jobs_, j)
      /\ submitted' = submitted \cup {j} /\ j \notin submitted
      /\ cur' = cur /\ seen' = seen
  BY <1>1, EnqueueFacts DEF submitJob, poolVars, resultVars, ConservationInv, TypeInv, TypeOK,
     QueueTypeOK
<1>3. \A y : In(jobs_', y) <=> In(jobs_, y) \/ y = j
  BY <1>2, AddMembers
<1>4. \A y \in Jobs : /\ InQueue(y)' <=> InQueue(y) \/ y = j
                      /\ Held(y)' <=> Held(y)
  BY <1>2, <1>3 DEF InQueue, In, Held
<1>5. AbstractStatus' = [AbstractStatus EXCEPT ![j] = AbstractStatus'[j]]
  BY <1>1, <1>2, <1>4, StatusMove
<1>6. AbstractStatus[j] = "new"
  BY <1>1, <1>2, StatusOf
<1>7. AbstractStatus'[j] = "queued"
  BY <1>2, <1>4 DEF AbstractStatus
<1>8. PublishedJobs' = PublishedJobs
  BY <1>2 DEF PublishedJobs
<1>. QED  BY <1>5, <1>6, <1>7, <1>8 DEF Service!Accept, Service!Move

\* Without the worker that is about to take a job, there are fewer holders than workers.
LEMMA RunningBound ==
    ASSUME ConservationInv, NEW u \in Workers, cur[u] = NoJob
    PROVE  Cardinality(Service!Running) < Cardinality(Workers)
<1> DEFINE Run == {y \in Jobs : Held(y)}
           f == [y \in Run |-> CHOOSE v \in Workers : cur[v] = y]
<1>1. Service!Running = Run
  BY StatusOf DEF Service!Running
<1>2. \A y \in Run : f[y] \in Workers /\ cur[f[y]] = y
  BY DEF Held
<1>3. f \in Injection(Run, Workers \ {u})
  <2>1. f \in [Run -> Workers \ {u}]
    BY <1>2, ConstantFacts
  <2>2. \A x, y \in Run : f[x] = f[y] => x = y
    BY <1>2
  <2> HIDE DEF f, Run
  <2>. QED  BY <2>1, <2>2 DEF Injection, IsInjective
<1> HIDE DEF f, Run
<1>4. /\ IsFiniteSet(Workers \ {u})
      /\ Cardinality(Workers \ {u}) = Cardinality(Workers) - 1
      /\ Cardinality(Workers) \in Nat
  BY ConstantFacts, FS_RemoveElement, FS_CardinalityType
<1>5. IsFiniteSet(Run) /\ Cardinality(Run) <= Cardinality(Workers \ {u})
  BY <1>3, <1>4, FS_Injection
<1>6. Cardinality(Run) \in Nat
  BY <1>5, FS_CardinalityType
<1>. QED  BY <1>1, <1>4, <1>5, <1>6

\* The abstract specification counts with the same operator.
LEMMA SameCardinality == \A S : Service!Cardinality(S) = Cardinality(S)
BY Zenon DEF Service!Cardinality, Cardinality, Service!IsFiniteSet, IsFiniteSet

\* dequeue is Begin.
LEMMA TakeBegins ==
    ASSUME ResultInv, ResultInv', NEW u \in Workers, workerTake(u)
    PROVE  \E j \in Jobs : Service!Begin(j)
<1>1. ConservationInv /\ ConservationInv'
  BY DEF ResultInv
<1>2. PICK i \in DOMAIN jobs_ : /\ jobs_' = eraseJob(jobs_, i)
                                /\ cur' = [cur EXCEPT ![u] = jobs_[i]]
  BY DEF workerTake, dequeueJob
<1> DEFINE j == jobs_[i]
<1>3. jobs_ \in Seq(Jobs) /\ Distinct(jobs_)
  BY <1>1 DEF ConservationInv, TypeInv, TypeOK, QueueTypeOK, JobConservation, Distinct
<1>4. j \in Jobs
  BY <1>3, LenProperties, ElementOfSeq
<1>5. /\ cur \in [Workers -> Jobs \cup {NoJob}] /\ cur[u] = NoJob
      /\ submitted' = submitted /\ seen' = seen
  BY <1>1 DEF workerTake, resultVars, ConservationInv, TypeInv, TypeOK, HeldShape, Holding
<1>6. \A y : In(jobs_', y) <=> In(jobs_, y) /\ y # j
  BY <1>2, <1>3, EraseMembers
<1>7. In(jobs_, j) /\ cur' = [cur EXCEPT ![u] = j]
  BY <1>2 DEF In
<1> HIDE DEF j
<1>8. \A y \in Jobs : InQueue(y)' <=> InQueue(y) /\ y # j
  BY <1>6 DEF InQueue, In
<1>9. \A y \in Jobs : Held(y)' <=> Held(y) \/ y = j
  BY <1>5, <1>7, ConstantFacts DEF Held
<1>10. AbstractStatus' = [AbstractStatus EXCEPT ![j] = AbstractStatus'[j]]
  BY <1>1, <1>4, <1>5, <1>8, <1>9, StatusMove
<1>11. AbstractStatus[j] = "queued"
  BY <1>1, <1>4, <1>7, StatusOf DEF InQueue, In
<1>12. AbstractStatus'[j] = "running"
  <2>1. j \in submitted  BY <1>1, <1>4, <1>7 DEF ConservationInv, JobConservation, InQueue, In
  <2>. QED  BY <1>4, <1>5, <1>8, <1>9, <2>1 DEF AbstractStatus
<1>13. PublishedJobs' = PublishedJobs
  BY <1>5 DEF PublishedJobs
<1>14. Cardinality(Service!Running) < Cardinality(Workers)
  BY <1>1, <1>5, RunningBound
<1>15. Service!Move(j, "queued", "running")
  BY <1>10, <1>11, <1>12 DEF Service!Move
<1>16. Service!Begin(j)
  BY <1>13, <1>14, <1>15, SameCardinality DEF Service!Begin
<1>. QED  BY <1>4, <1>16

\* The preempted branch is Yield: nothing of the job has been published.
LEMMA PreemptYields ==
    ASSUME ResultInv, ResultInv', NEW u \in Workers, executePreempted(u)
    PROVE  Service!Yield(cur[u])
<1> DEFINE j == cur[u]
<1>1. ConservationInv /\ ConservationInv'
  BY DEF ResultInv
<1>2. /\ wpc[u] = "execute" /\ wpc[u] \in Holding
      /\ cur' = [cur EXCEPT ![u] = NoJob]
      /\ submitted' = submitted /\ seen' = seen
  BY DEF executePreempted, Holding, resultVars
<1>3. /\ j \in Jobs
      /\ Held(j) /\ ~InQueue(j) /\ ~Resolved(j)
      /\ \A y \in Jobs : Held(y)' <=> Held(y) /\ y # j
  BY <1>1, <1>2, SoleHolder
<1>4. jobs_ \in Seq(Jobs) /\ jobs_' = addJob(jobs_, j)
  BY <1>1, <1>3, EnqueueFacts DEF executePreempted, ConservationInv, TypeInv, TypeOK, QueueTypeOK
<1>5. \A w \in Workers : cur[w] = j => w = u
  BY <1>1, <1>3, ConstantFacts DEF ConservationInv, JobConservation
<1> HIDE DEF j
<1>6. \A y \in Jobs : InQueue(y)' <=> InQueue(y) \/ y = j
  <2>1. \A y : In(jobs_', y) <=> In(jobs_, y) \/ y = j  BY <1>3, <1>4, AddMembers
  <2>. QED  BY <2>1 DEF InQueue, In
<1>7. AbstractStatus' = [AbstractStatus EXCEPT ![j] = AbstractStatus'[j]]
  BY <1>1, <1>2, <1>3, <1>6, StatusMove
<1>8. AbstractStatus[j] = "running"
  BY <1>1, <1>3, StatusOf
<1>9. AbstractStatus'[j] = "queued"
  BY <1>1, <1>2, <1>3, <1>6 DEF AbstractStatus, ConservationInv, JobConservation
<1>10. PublishedJobs' = PublishedJobs
  BY <1>2 DEF PublishedJobs
<1>11. j \notin PublishedJobs
  <2>1. ~Reported(j)
    BY <1>2, <1>3, <1>5 DEF ResultInv, ReportShape
  <2>. QED  BY <2>1, PublishedIsReported
<1>. QED  BY <1>7, <1>8, <1>9, <1>10, <1>11 DEF Service!Yield, Service!Move, j

\* The call of the last observer is Publish.
LEMMA ObservePublishes ==
    ASSUME ResultInv, ResultInv', NEW u \in Workers, observe(u), notified + 1 = NumObservers
    PROVE  Service!Publish(cur[u])
<1> DEFINE r == Result(u)
<1>1. /\ wpc[u] = "observe"
      /\ seen' = [seen EXCEPT ![NumObservers] = Append(Log, r)]
      /\ promise' = promise /\ cur' = cur /\ submitted' = submitted /\ jobs_' = jobs_
  BY DEF observe, Log, Result, queueVars
<1>2. Log' = Append(Log, r)
  BY <1>1, ResultTypes DEF Log
<1>3. cur[u] \in Jobs /\ r \in R /\ r.job = cur[u] /\ Held(cur[u])
  BY <1>1 DEF Result, JobResult, R, Verdict, Verdicts, ResultInv, ConservationInv, TypeInv, TypeOK,
     HeldShape, Holding, Held
<1> HIDE DEF r
<1>4. \A y : Reported(y)' <=> Reported(y) \/ y = cur[u]
  <2>1. /\ Log' \in Seq(R) /\ Len(Log') = Len(Log) + 1
        /\ \A i \in 1..Len(Log) : Log'[i] = Log[i]
        /\ Log'[Len(Log) + 1] = r
    BY <1>2, <1>3, ResultTypes, AppendProperties
  <2>2. DOMAIN Log' = 1..(Len(Log) + 1)
    BY <2>1, LenProperties
  <2>3. /\ \A i \in 1..Len(Log) : i \in 1..(Len(Log) + 1)
        /\ Len(Log) + 1 \in 1..(Len(Log) + 1)
        /\ \A i \in 1..(Len(Log) + 1) : i \in 1..Len(Log) \/ i = Len(Log) + 1
    BY ResultTypes
  <2>. QED  BY <1>3, <2>1, <2>2, <2>3, ResultTypes DEF Reported
<1>5. PublishedJobs' = PublishedJobs \cup {cur[u]}
  <2>1. PublishedJobs' = {y \in Jobs : Reported(y)'}  BY DEF PublishedJobs, Reported, Log
  <2>. QED  BY <2>1, <1>3, <1>4, PublishedIsReported
<1>6. AbstractStatus' = AbstractStatus
  BY <1>1 DEF AbstractStatus, InQueue, Held
<1>7. AbstractStatus[cur[u]] = "running"
  BY <1>3, StatusOf DEF ResultInv
<1>8. cur[u] \notin PublishedJobs
  <2>1. ~Resolved(cur[u])
    BY <1>3 DEF ResultInv, ConservationInv, JobConservation
  <2>2. \A w \in Workers : cur[w] = cur[u] => w = u
    BY <1>3, ConstantFacts DEF ResultInv, ConservationInv, JobConservation
  <2>3. ~Reported(cur[u])
    BY <1>1, <1>3, <2>1, <2>2 DEF ResultInv, ReportShape
  <2>. QED  BY <2>3, PublishedIsReported
<1>. QED  BY <1>5, <1>6, <1>7, <1>8 DEF Service!Publish

\* set_value is Finish.
LEMMA FulfilFinishes ==
    ASSUME ResultInv, ResultInv', NEW u \in Workers, fulfil(u)
    PROVE  Service!Finish(cur[u])
<1> DEFINE j == cur[u]
<1>1. ConservationInv /\ ConservationInv'
  BY DEF ResultInv
<1>2. /\ wpc[u] = "fulfil" /\ wpc[u] \in Holding
      /\ cur' = [cur EXCEPT ![u] = NoJob]
      /\ submitted' = submitted /\ seen' = seen /\ jobs_' = jobs_
  BY DEF fulfil, Holding, queueVars
<1>3. /\ j \in Jobs
      /\ Held(j) /\ ~InQueue(j) /\ ~Resolved(j)
      /\ \A y \in Jobs : Held(y)' <=> Held(y) /\ y # j
  BY <1>1, <1>2, SoleHolder
<1>4. Reported(j)
  BY <1>2 DEF ResultInv, ReportShape, Result, JobResult, Reported
<1> HIDE DEF j
<1>5. \A y \in Jobs : InQueue(y)' <=> InQueue(y)
  BY <1>2 DEF InQueue
<1>6. AbstractStatus' = [AbstractStatus EXCEPT ![j] = AbstractStatus'[j]]
  BY <1>1, <1>2, <1>3, <1>5, StatusMove
<1>7. AbstractStatus[j] = "running"
  BY <1>1, <1>3, StatusOf
<1>8. AbstractStatus'[j] = "done"
  BY <1>1, <1>2, <1>3, <1>5 DEF AbstractStatus, ConservationInv, JobConservation
<1>9. PublishedJobs' = PublishedJobs
  BY <1>2 DEF PublishedJobs
<1>10. j \in PublishedJobs
  BY <1>3, <1>4, PublishedIsReported
<1>. QED  BY <1>6, <1>7, <1>8, <1>9, <1>10 DEF Service!Finish, Service!Move, j

\* Every step of the pool is a step of the service or invisible to it.
LEMMA ServiceStep ==
    ASSUME ResultInv, ResultInv', [Next]_vars
    PROVE  [Service!Next]_(Service!vars)
<1>1. ASSUME UNCHANGED <<jobs_, cur, submitted>>, seen'[NumObservers] = seen[NumObservers]
      PROVE  UNCHANGED Service!vars
  BY <1>1 DEF Service!vars, AbstractStatus, PublishedJobs, InQueue, Held
<1>2. CASE \E j \in Jobs : submitJob(j)
  BY <1>2, SubmitAccepts DEF Service!Next
<1>3. ASSUME NEW u \in Workers, workerTake(u) PROVE Service!Next
  BY <1>3, TakeBegins DEF Service!Next
<1>4. ASSUME NEW u \in Workers, executePreempted(u) PROVE Service!Next
  <2>1. cur[u] \in Jobs
    BY <1>4 DEF executePreempted, ResultInv, ConservationInv, TypeInv, TypeOK, HeldShape, Holding
  <2>. QED  BY <1>4, <2>1, PreemptYields DEF Service!Next
<1>5. ASSUME NEW u \in Workers, fulfil(u) PROVE Service!Next
  <2>1. cur[u] \in Jobs
    BY <1>5 DEF fulfil, ResultInv, ConservationInv, TypeInv, TypeOK, HeldShape, Holding
  <2>. QED  BY <1>5, <2>1, FulfilFinishes DEF Service!Next
<1>6. ASSUME NEW u \in Workers, observe(u) PROVE [Service!Next]_(Service!vars)
  <2>1. CASE notified + 1 = NumObservers
    <3>1. cur[u] \in Jobs
      BY <1>6 DEF observe, ResultInv, ConservationInv, TypeInv, TypeOK, HeldShape, Holding
    <3>. QED  BY <1>6, <2>1, <3>1, ObservePublishes DEF Service!Next
  <2>2. CASE notified + 1 # NumObservers
    <3>1. seen'[NumObservers] = seen[NumObservers]
      BY <1>6, <2>2, ResultTypes DEF observe
    <3>2. UNCHANGED <<jobs_, cur, submitted>>
      BY <1>6 DEF observe, queueVars
    <3>. QED  BY <1>1, <3>1, <3>2
  <2>. QED  BY <2>1, <2>2
<1>7. CASE UNCHANGED <<jobs_, cur, promise, submitted>> /\ UNCHANGED resultVars
  BY <1>7, <1>1 DEF resultVars
<1>8. CASE \E u \in Workers : submitLock(u)
  BY <1>8, <1>1 DEF submitLock, queueVars
<1>9. TypeInv
  BY DEF ResultInv, ConservationInv
<1>. QED  BY <1>2, <1>3, <1>4, <1>5, <1>6, <1>7, <1>8, <1>9, MovingSteps, ReportingSteps

\* WorkerPool, InMemoryJobQueue and ResultCollector together implement JobService, for
\* any number of workers, observers and jobs and any scheduler.
THEOREM PoolImplementsService == Spec => ImplementsJobService
<1>1. Init => Service!Init
  <2> SUFFICES ASSUME Init PROVE Service!Init  OBVIOUS
  <2>1. AbstractStatus = [j \in Jobs |-> "new"]
    BY DEF Init, AbstractStatus
  <2>2. PublishedJobs = {}
    <3>1. seen[NumObservers] = <<>>  BY ConstantFacts DEF Init, Observers
    <3>2. <<>> \in Seq(R) /\ Len(<<>>) = 0  BY EmptySeq
    <3>3. DOMAIN seen[NumObservers] = 1..0  BY <3>1, <3>2, LenProperties
    <3>. QED  BY <3>3 DEF PublishedJobs
  <2>. QED  BY <2>1, <2>2 DEF Service!Init
<1>2. ResultInv /\ ResultInv' /\ [Next]_vars => [Service!Next]_(Service!vars)
  BY ServiceStep
<1>. QED  BY <1>1, <1>2, ResultInit, ResultNext, PTL DEF Spec, ImplementsJobService, Service!Spec

===============================================================================
