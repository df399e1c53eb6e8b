--------------------------- MODULE OvertakingProofs ---------------------------
(***************************************************************************)
(* How long a queued job can be passed over, for any number of workers and *)
(* jobs, under the strategies the binaries use.  Whoever passes a waiting  *)
(* job and comes back has used a burst and stands behind it: under FCFS    *)
(* and RoundRobin he cannot pass again, under MLFQ only while his bursts   *)
(* leave him at a level strictly above.                                    *)
(***************************************************************************)
EXTENDS Overtaking, WorkerPoolProofs

\* The history counts.
Counts == bypass \in [Jobs -> [Jobs -> Nat]]

\* A queued job that has passed another queued one is behind it, with a burst for each
\* time.
OrderShape ==
    \A a, b \in DOMAIN jobs_ :
        bypass[jobs_[a]][jobs_[b]] > 0 =>
            a < b /\ bypass[jobs_[a]][jobs_[b]] <= elapsed_bursts[jobs_[b]]

\* A job that has passed, wherever it is, was submitted, and has used its bursts but
\* perhaps the current one.
RowShape ==
    \A i, j \in Jobs :
        InQueue(j) /\ bypass[j][i] > 0 =>
            i \in submitted /\ bypass[j][i] <= elapsed_bursts[i] + 1

OvertakingInv ==
    /\ ConservationInv /\ Counts
    /\ OrderShape /\ RowShape
    /\ BoundedOvertaking

-------------------------------------------------------------------------------

(* The bound and the counting.                                             *)

\* The types the steps use.
LEMMA OvertakingTypes ==
    ASSUME ConservationInv
    PROVE  /\ jobs_ \in Seq(Jobs) /\ DOMAIN jobs_ = 1..Len(jobs_) /\ Len(jobs_) \in Nat
           /\ \A a \in DOMAIN jobs_ : jobs_[a] \in Jobs /\ InQueue(jobs_[a])
           /\ Distinct(jobs_)
           /\ elapsed_bursts \in [Jobs -> Nat] /\ Priority \in [Jobs -> Int]
           /\ \A j \in Jobs : InQueue(j) => j \in submitted
<1>1. TypeOK /\ JobConservation
  BY DEF ConservationInv, TypeInv
<1>2. jobs_ \in Seq(Jobs)
  BY <1>1 DEF TypeOK, QueueTypeOK
<1>3. /\ DOMAIN jobs_ = 1..Len(jobs_) /\ Len(jobs_) \in Nat
      /\ \A a \in DOMAIN jobs_ : jobs_[a] \in Jobs
  BY <1>2, LenProperties, ElementOfSeq
<1>4. elapsed_bursts \in [Jobs -> Nat]
  BY <1>1, ConstantFacts DEF TypeOK
<1>5. Distinct(jobs_) /\ \A j \in Jobs : InQueue(j) => j \in submitted
  BY <1>1 DEF JobConservation, Distinct
<1>. QED  BY <1>2, <1>3, <1>4, <1>5, SchedulerAssumption DEF InQueue

\* The bound in the two families of strategies.
LEMMA BoundCases ==
    ASSUME ConservationInv, NEW i \in Jobs, NEW j \in Jobs
    PROVE  /\ Policy \in {"FCFS", "RoundRobin"} => Bound(j, i) = 1
           /\ Policy = "MLFQ" =>
                 Bound(j, i) = LET gap == Level(j, elapsed_bursts) - Priority[i]
                               IN  IF gap < 0 THEN 0 ELSE IF gap = 0 THEN 1 ELSE gap
           /\ Policy = "MLFQ" => Level(j, elapsed_bursts) \in Int /\ Priority[i] \in Int
<1>1. Level(j, elapsed_bursts) \in Int /\ Priority[i] \in Int
  BY OvertakingTypes DEF Level
<1>. QED  BY <1>1 DEF Bound

\* What one step does to the history.
LEMMA CountFacts ==
    ASSUME Counts, Count
    PROVE  /\ Counts'
           /\ \A i, j \in Jobs :
                 /\ ~Stayed(j) => bypass'[j][i] = 0
                 /\ Stayed(j) /\ ~Taken(i) => bypass'[j][i] = bypass[j][i]
                 /\ Stayed(j) /\ Taken(i) => bypass'[j][i] = bypass[j][i] + 1
<1>1. bypass' = [j \in Jobs |->
                    IF Stayed(j)
                      THEN [i \in Jobs |-> bypass[j][i] + (IF Taken(i) THEN 1 ELSE 0)]
                      ELSE Zero]
  BY DEF Count
<1>2. \A i, j \in Jobs : bypass[j][i] \in Nat
  BY DEF Counts
<1>3. ASSUME NEW j \in Jobs
      PROVE  /\ bypass'[j] \in [Jobs -> Nat]
             /\ \A i \in Jobs :
                 /\ ~Stayed(j) => bypass'[j][i] = 0
                 /\ Stayed(j) /\ ~Taken(i) => bypass'[j][i] = bypass[j][i]
                 /\ Stayed(j) /\ Taken(i) => bypass'[j][i] = bypass[j][i] + 1
  <2>1. CASE ~Stayed(j)
    <3>1. bypass'[j] = [i \in Jobs |-> 0]
      BY <1>1, <2>1 DEF Zero
    <3>. QED  BY <2>1, <3>1
  <2>2. CASE Stayed(j)
    <3>1. bypass'[j] = [i \in Jobs |-> bypass[j][i] + (IF Taken(i) THEN 1 ELSE 0)]
      BY <1>1, <2>2
    <3>2. \A i \in Jobs : bypass'[j][i] = IF Taken(i) THEN bypass[j][i] + 1 ELSE bypass[j][i]
      BY <1>2, <3>1
    <3>3. bypass'[j] \in [Jobs -> Nat]
      BY <1>2, <3>1
    <3>. QED  BY <2>2, <3>2, <3>3
  <2>. QED  BY <2>1, <2>2
<1>4. Counts'
  <2>1. DOMAIN bypass' = Jobs /\ bypass' = [j \in Jobs |-> bypass'[j]]
    BY <1>1
  <2>. QED  BY <1>3, <2>1 DEF Counts
<1>. QED  BY <1>3, <1>4

-------------------------------------------------------------------------------
(* The steps.                                                              *)

\* A step that leaves the deque and the bursts alone.
LEMMA OvertakingKeep ==
    ASSUME OvertakingInv, ConservationInv', Count,
           UNCHANGED <<jobs_, elapsed_bursts, submitted>>
    PROVE  OvertakingInv'
<1>1. ConservationInv /\ Counts /\ OrderShape /\ RowShape /\ BoundedOvertaking
  BY DEF OvertakingInv
<1>2. \A j \in Jobs : InQueue(j)' = InQueue(j)
  BY DEF InQueue
<1>3. Counts' /\ \A i, j \in Jobs : InQueue(j) => bypass'[j][i] = bypass[j][i]
  BY <1>1, <1>2, CountFacts DEF Stayed, Taken
<1>4. OrderShape'
  BY <1>1, <1>3, OvertakingTypes DEF OrderShape
<1>5. RowShape'
  BY <1>1, <1>2, <1>3 DEF RowShape
<1>6. \A i, j \in Jobs : Bound(j, i)' = Bound(j, i)
  BY DEF Bound, Level
<1>7. BoundedOvertaking'
  BY <1>1, <1>2, <1>3, <1>6 DEF BoundedOvertaking
<1>. QED  BY <1>3, <1>4, <1>5, <1>7 DEF OvertakingInv

\* A job joins the deque at its end: it has been passed by nobody, and where it has
\* passed the others it has the bursts.
LEMMA OvertakingJoin ==
    ASSUME Policy # "Priority", OvertakingInv, ConservationInv', Count,
           NEW x \in Jobs, ~InQueue(x), jobs_' = addJob(jobs_, x),
           \A k \in Jobs \ {x} : elapsed_bursts'[k] = elapsed_bursts[k],
           \A j \in Jobs : InQueue(j) => bypass[j][x] <= elapsed_bursts'[x],
           submitted' = submitted \cup {x}
    PROVE  OvertakingInv'
<1>1. ConservationInv /\ Counts /\ OrderShape /\ RowShape /\ BoundedOvertaking
  BY DEF OvertakingInv
<1>2. /\ jobs_ \in Seq(Jobs) /\ Len(jobs_) \in Nat /\ DOMAIN jobs_ = 1..Len(jobs_)
      /\ \A a \in DOMAIN jobs_ : jobs_[a] \in Jobs /\ InQueue(jobs_[a])
  BY <1>1, OvertakingTypes
<1>3. elapsed_bursts \in [Jobs -> Nat] /\ elapsed_bursts' \in [Jobs -> Nat]
  <2>1. elapsed_bursts' \in [Jobs -> Nat]
    BY ConstantFacts DEF ConservationInv, TypeInv, TypeOK
  <2>. QED  BY <1>1, <2>1, OvertakingTypes
<1>4. /\ Len(jobs_') = Len(jobs_) + 1 /\ DOMAIN jobs_' = 1..(Len(jobs_) + 1)
      /\ \A a \in 1..Len(jobs_) : jobs_'[a] = jobs_[a]
      /\ jobs_'[Len(jobs_) + 1] = x
  <2>1. /\ jobs_' \in Seq(Jobs) /\ Len(jobs_') = Len(jobs_) + 1
        /\ \A a \in 1..Len(jobs_) : jobs_'[a] = jobs_[a]
        /\ jobs_'[Len(jobs_) + 1] = x
    BY <1>2, AppendProperties DEF addJob
  <2>. QED  BY <2>1, LenProperties
<1>5. \A j \in Jobs : InQueue(j)' <=> InQueue(j) \/ j = x
  <2>1. \A j : In(jobs_', j) <=> In(jobs_, j) \/ j = x
    BY <1>2, AddMembers
  <2>. QED  BY <2>1 DEF In, InQueue
<1>6. /\ Counts'
      /\ \A i, j \in Jobs : InQueue(j) => bypass'[j][i] = bypass[j][i]
      /\ \A i \in Jobs : bypass'[x][i] = 0
  BY <1>1, <1>5, CountFacts DEF Stayed, Taken
<1>7. \A i, j \in Jobs : bypass[j][i] \in Nat
  BY <1>1 DEF Counts
<1>8. OrderShape'
  <2>1. SUFFICES ASSUME NEW a \in DOMAIN jobs_', NEW b \in DOMAIN jobs_',
                        bypass'[jobs_'[a]][jobs_'[b]] > 0
                 PROVE  a < b /\ bypass'[jobs_'[a]][jobs_'[b]] <= elapsed_bursts'[jobs_'[b]]
    BY DEF OrderShape
  <2>2. jobs_'[b] \in Jobs
    BY <1>2, <1>4
  <2>3. a \in 1..Len(jobs_)
    BY <1>2, <1>4, <1>6, <2>1, <2>2
  <2>4. jobs_'[a] = jobs_[a] /\ jobs_[a] \in Jobs /\ InQueue(jobs_[a])
    BY <1>2, <1>4, <2>3
  <2>5. bypass'[jobs_'[a]][jobs_'[b]] = bypass[jobs_[a]][jobs_'[b]]
    BY <1>6, <2>2, <2>4
  <2>6. CASE b \in 1..Len(jobs_)
    <3>1. jobs_'[b] = jobs_[b] /\ jobs_[b] # x
      BY <1>2, <1>4, <2>6
    <3>. QED  BY <1>1, <1>2, <2>1, <2>2, <2>3, <2>5, <2>6, <3>1 DEF OrderShape
  <2>7. CASE b = Len(jobs_) + 1
    BY <1>2, <1>4, <2>3, <2>4, <2>5, <2>7
  <2>. QED  BY <1>2, <1>4, <2>6, <2>7
<1>9. RowShape'
  <2>1. SUFFICES ASSUME NEW i \in Jobs, NEW j \in Jobs, InQueue(j)', bypass'[j][i] > 0
                 PROVE  i \in submitted' /\ bypass'[j][i] <= elapsed_bursts'[i] + 1
    BY DEF RowShape
  <2>2. InQueue(j) /\ bypass'[j][i] = bypass[j][i]
    BY <1>5, <1>6, <2>1
  <2>3. CASE i = x
    BY <1>3, <1>7, <2>2, <2>3
  <2>4. CASE i # x
    BY <1>1, <2>1, <2>2, <2>4 DEF RowShape
  <2>. QED  BY <2>3, <2>4
<1>10. BoundedOvertaking'
  <2>1. SUFFICES ASSUME NEW i \in Jobs, NEW j \in Jobs, InQueue(j)'
                 PROVE  bypass'[j][i] <= Bound(j, i)'
    BY DEF BoundedOvertaking
  <2>2. CASE j = x
    <3>1. Priority[j] + elapsed_bursts'[j] \in Int /\ Priority[i] \in Int
      BY <1>3, SchedulerAssumption
    <3>2. CASE Policy \in {"FCFS", "RoundRobin"}
      BY <1>6, <2>2, <3>2 DEF Bound
    <3>3. CASE Policy = "MLFQ"
      BY <1>6, <2>2, <3>1, <3>3 DEF Bound, Level
    <3>. QED  BY <3>2, <3>3, SchedulerAssumption DEF Policies
  <2>3. CASE j # x
    <3>1. InQueue(j) /\ bypass'[j][i] = bypass[j][i]
      BY <1>5, <1>6, <2>1, <2>3
    <3>2. elapsed_bursts'[j] = elapsed_bursts[j]
      BY <2>3
    <3>3. Bound(j, i)' = Bound(j, i)
      BY <3>2 DEF Bound, Level
    <3>. QED  BY <1>1, <3>1, <3>3 DEF BoundedOvertaking
  <2>. QED  BY <2>2, <2>3
<1>. QED  BY <1>6, <1>8, <1>9, <1>10 DEF OvertakingInv

\* The job at position p leaves the deque.  Whoever waits before it has a higher level,
\* or the strategy would have taken him: so it passes a waiting job a second time only
\* with a level to spare.
LEMMA OvertakingTake ==
    ASSUME Policy # "Priority", OvertakingInv, ConservationInv', Count,
           NEW p \in DOMAIN jobs_, IsNextJob(jobs_, elapsed_bursts, p),
           jobs_' = eraseJob(jobs_, p), UNCHANGED <<elapsed_bursts, submitted>>
    PROVE  OvertakingInv'
<1>1. ConservationInv /\ Counts /\ OrderShape /\ RowShape /\ BoundedOvertaking
  BY DEF OvertakingInv
<1>2. /\ jobs_ \in Seq(Jobs) /\ Len(jobs_) \in Nat /\ DOMAIN jobs_ = 1..Len(jobs_)
      /\ \A a \in DOMAIN jobs_ : jobs_[a] \in Jobs /\ InQueue(jobs_[a])
      /\ Distinct(jobs_)
      /\ elapsed_bursts \in [Jobs -> Nat] /\ Priority \in [Jobs -> Int]
      /\ \A j \in Jobs : InQueue(j) => j \in submitted
  BY <1>1, OvertakingTypes
<1>. DEFINE x == jobs_[p]
            old(k) == IF k < p THEN k ELSE k + 1
<1>3. x \in Jobs /\ InQueue(x) /\ p \in 1..Len(jobs_) /\ p \in Nat
  BY <1>2
<1>4. /\ DOMAIN jobs_' = 1..(Len(jobs_) - 1)
      /\ \A k \in 1..(Len(jobs_) - 1) :
            jobs_'[k] = jobs_[old(k)] /\ old(k) \in 1..Len(jobs_) /\ old(k) # p
  <2>1. /\ jobs_' \in Seq(Jobs) /\ Len(jobs_') = Len(jobs_) - 1
        /\ \A k \in 1..(Len(jobs_) - 1) : jobs_'[k] = IF k < p THEN jobs_[k] ELSE jobs_[k + 1]
    BY <1>2, EraseProperties
  <2>2. DOMAIN jobs_' = 1..(Len(jobs_) - 1)
    BY <2>1, LenProperties
  <2>3. \A k \in 1..(Len(jobs_) - 1) : old(k) \in 1..Len(jobs_) /\ old(k) # p
    BY <1>2, <1>3
  <2>. QED  BY <2>1, <2>2, <2>3
<1>5. ASSUME NEW k \in 1..(Len(jobs_) - 1), NEW m \in 1..(Len(jobs_) - 1), old(k) < old(m)
      PROVE  k < m
  <2>1. k \in Int /\ m \in Int /\ p \in Int
    BY <1>3
  <2>. QED  BY <1>5, <2>1
<1>. HIDE DEF old
<1>6. \A j \in Jobs : InQueue(j)' <=> InQueue(j) /\ j # x
  <2>1. \A j : In(jobs_', j) <=> In(jobs_, j) /\ j # x
    BY <1>2, EraseMembers
  <2>. QED  BY <2>1 DEF In, InQueue
<1>7. /\ Counts'
      /\ \A i, j \in Jobs : InQueue(j)' =>
            bypass'[j][i] = IF i = x THEN bypass[j][i] + 1 ELSE bypass[j][i]
  BY <1>1, <1>3, <1>6, CountFacts DEF Stayed, Taken
<1>8. \A i, j \in Jobs : bypass[j][i] \in Nat
  BY <1>1 DEF Counts
<1>9. ASSUME NEW j \in Jobs, InQueue(j)'
      PROVE  \E a \in DOMAIN jobs_ : a # p /\ jobs_[a] = j
  BY <1>6, <1>9 DEF InQueue
<1>10. OrderShape'
  <2>1. SUFFICES ASSUME NEW a \in DOMAIN jobs_', NEW b \in DOMAIN jobs_',
                        bypass'[jobs_'[a]][jobs_'[b]] > 0
                 PROVE  a < b /\ bypass'[jobs_'[a]][jobs_'[b]] <= elapsed_bursts'[jobs_'[b]]
    BY DEF OrderShape
  <2>2. /\ old(a) \in DOMAIN jobs_ /\ jobs_'[a] = jobs_[old(a)] /\ old(a) # p
        /\ old(b) \in DOMAIN jobs_ /\ jobs_'[b] = jobs_[old(b)] /\ old(b) # p
    BY <1>2, <1>4
  <2>3. jobs_[old(a)] # x /\ jobs_[old(b)] # x
    BY <1>2, <2>2 DEF Distinct
  <2>4. bypass'[jobs_'[a]][jobs_'[b]] = bypass[jobs_[old(a)]][jobs_[old(b)]]
    BY <1>2, <1>6, <1>7, <2>2, <2>3
  <2>5. /\ old(a) < old(b)
        /\ bypass[jobs_[old(a)]][jobs_[old(b)]] <= elapsed_bursts[jobs_[old(b)]]
    BY <1>1, <2>1, <2>2, <2>4 DEF OrderShape
  <2>. QED  BY <1>4, <1>5, <2>2, <2>4, <2>5
<1>11. ASSUME NEW j \in Jobs, InQueue(j)', bypass[j][x] > 0
       PROVE  bypass[j][x] <= elapsed_bursts[x]
  BY <1>1, <1>9, <1>11 DEF OrderShape
<1>12. RowShape'
  <2>1. SUFFICES ASSUME NEW i \in Jobs, NEW j \in Jobs, InQueue(j)', bypass'[j][i] > 0
                 PROVE  i \in submitted' /\ bypass'[j][i] <= elapsed_bursts'[i] + 1
    BY DEF RowShape
  <2>2. CASE i = x
    <3>1. bypass'[j][i] = bypass[j][x] + 1 /\ bypass[j][x] \in Nat /\ elapsed_bursts[x] \in Nat
      BY <1>2, <1>3, <1>7, <1>8, <2>1, <2>2
    <3>2. bypass[j][x] = 0 \/ bypass[j][x] <= elapsed_bursts[x]
      BY <1>11, <2>1, <3>1
    <3>. QED  BY <1>2, <1>3, <2>2, <3>1, <3>2
  <2>3. CASE i # x
    BY <1>1, <1>6, <1>7, <2>1, <2>3 DEF RowShape
  <2>. QED  BY <2>2, <2>3
<1>13. BoundedOvertaking'
  <2>1. SUFFICES ASSUME NEW i \in Jobs, NEW j \in Jobs, InQueue(j)'
                 PROVE  bypass'[j][i] <= Bound(j, i)'
    BY DEF BoundedOvertaking
  <2>2. Bound(j, i)' = Bound(j, i)
    BY DEF Bound, Level
  <2>3. CASE i # x
    BY <1>1, <1>6, <1>7, <2>1, <2>2, <2>3 DEF BoundedOvertaking
  <2>4. CASE i = x
    <3>1. PICK a \in DOMAIN jobs_ : a # p /\ jobs_[a] = j
      BY <1>9, <2>1
    <3>2. bypass'[j][i] = bypass[j][x] + 1 /\ bypass[j][x] \in Nat
      BY <1>3, <1>7, <1>8, <2>1, <2>4
    <3>3. bypass[j][x] > 0 => a < p /\ bypass[j][x] <= elapsed_bursts[x]
      BY <1>1, <3>1 DEF OrderShape
    <3>4. CASE Policy \in {"FCFS", "RoundRobin"}
      <4>1. p = 1 /\ ~(a < p)
        <5>1. p = 1
          BY <3>4 DEF IsNextJob, IsFront
        <5>2. a \in Nat /\ a >= 1
          BY <1>2
        <5>. QED  BY <5>1, <5>2
      <4>2. Bound(j, i) = 1
        BY <1>1, <3>4, BoundCases
      <4>. QED  BY <2>2, <3>2, <3>3, <4>1, <4>2
    <3>5. CASE Policy = "MLFQ"
      <4>. DEFINE gap == Level(j, elapsed_bursts) - Priority[i]
      <4>1. Bound(j, i) = IF gap < 0 THEN 0 ELSE IF gap = 0 THEN 1 ELSE gap
        BY <1>1, <3>5, BoundCases
      <4>2. /\ Level(x, elapsed_bursts) <= Level(j, elapsed_bursts)
            /\ a < p => Level(x, elapsed_bursts) < Level(j, elapsed_bursts)
        <5>1. IsFirstMinLevel(jobs_, elapsed_bursts, p)
          BY <3>5 DEF IsNextJob
        <5>2. a < p => a \in 1..(p - 1)
          BY <1>2, <3>1
        <5>. QED  BY <3>1, <5>1, <5>2 DEF IsFirstMinLevel
      <4>3. /\ Level(x, elapsed_bursts) = Priority[i] + elapsed_bursts[x]
            /\ Level(j, elapsed_bursts) \in Int /\ Priority[i] \in Int
            /\ elapsed_bursts[x] \in Nat
        BY <1>2, <1>3, <2>4 DEF Level
      <4>4. gap \in Int /\ gap >= elapsed_bursts[x] /\ (a < p => gap > elapsed_bursts[x])
        BY <4>2, <4>3
      <4>. HIDE DEF gap
      <4>. QED  BY <2>2, <3>2, <3>3, <4>1, <4>3, <4>4
    <3>. QED  BY <3>4, <3>5, SchedulerAssumption DEF Policies
  <2>. QED  BY <2>3, <2>4
<1>. QED  BY <1>7, <1>10, <1>12, <1>13 DEF OvertakingInv

\* Every step is one of the three.
LEMMA OvertakingNext ==
    ASSUME Policy # "Priority", OvertakingInv, [ONext]_ovars
    PROVE  OvertakingInv'
<1>1. ConservationInv /\ RowShape
  BY DEF OvertakingInv
<1>2. TypeOK
  BY <1>1 DEF ConservationInv, TypeInv
<1>3. [Next]_vars
  BY DEF ONext, ovars
<1>4. ConservationInv'
  BY <1>1, <1>3, ConservationNext
<1>5. CASE UNCHANGED ovars
  <2>1. UNCHANGED <<jobs_, elapsed_bursts, submitted, bypass>>
    BY <1>5 DEF ovars, vars, queueVars, poolVars, resultVars
  <2>. QED  BY <1>4, <2>1 DEF OvertakingInv, Counts, OrderShape, RowShape, BoundedOvertaking,
                              InQueue, Bound, Level
<1>6. ASSUME Count, NEW j \in Jobs, submitJob(j) PROVE OvertakingInv'
  <2>1. /\ j \notin submitted /\ submitted' = submitted \cup {j} /\ jobs_' = addJob(jobs_, j)
        /\ elapsed_bursts' = elapsed_bursts
    BY <1>6 DEF submitJob, enqueue, poolVars
  <2>2. ~InQueue(j) /\ elapsed_bursts[j] \in Nat
    BY <1>1, <2>1, OvertakingTypes
  <2>3. \A k \in Jobs : InQueue(k) => bypass[k][j] <= elapsed_bursts'[j]
    <3>1. \A k \in Jobs : bypass[k][j] \in Nat
      BY DEF OvertakingInv, Counts
    <3>2. \A k \in Jobs : InQueue(k) => bypass[k][j] = 0
      BY <1>1, <2>1, <3>1 DEF RowShape
    <3>. QED  BY <2>1, <2>2, <3>2
  <2>. QED  BY <1>4, <1>6, <2>1, <2>2, <2>3, OvertakingJoin
<1>7. ASSUME Count, NEW w \in Workers, executePreempted(w) PROVE OvertakingInv'
  <2>1. /\ wpc[w] = "execute" /\ submitted' = submitted
        /\ elapsed_bursts' = [elapsed_bursts EXCEPT ![cur[w]] = @ + 1]
        /\ jobs_' = addJob(jobs_, cur[w])
    BY <1>7 DEF executePreempted, enqueue
  <2>2. cur[w] \in Jobs /\ Held(cur[w])
    BY <1>1, <1>2, <2>1 DEF ConservationInv, TypeInv, TypeOK, HeldShape, Holding, Held
  <2>3. ~InQueue(cur[w]) /\ cur[w] \in submitted
    BY <1>1, <2>2 DEF ConservationInv, JobConservation
  <2>4. /\ \A k \in Jobs \ {cur[w]} : elapsed_bursts'[k] = elapsed_bursts[k]
        /\ elapsed_bursts'[cur[w]] = elapsed_bursts[cur[w]] + 1
    BY <1>1, <2>1, <2>2, OvertakingTypes
  <2>5. \A k \in Jobs : InQueue(k) => bypass[k][cur[w]] <= elapsed_bursts'[cur[w]]
    <3>1. \A k \in Jobs : bypass[k][cur[w]] \in Nat
      BY <2>2 DEF OvertakingInv, Counts
    <3>2. elapsed_bursts[cur[w]] \in Nat
      BY <1>1, <2>2, OvertakingTypes
    <3>. QED  BY <1>1, <2>2, <2>4, <3>1, <3>2 DEF RowShape
  <2>6. submitted' = submitted \cup {cur[w]}
    BY <2>1, <2>3
  <2>. QED  BY <1>4, <1>7, <2>1, <2>2, <2>3, <2>4, <2>5, <2>6, OvertakingJoin
<1>8. ASSUME Count, NEW w \in Workers, workerTake(w) PROVE OvertakingInv'
  <2>1. PICK p \in DOMAIN jobs_ : dequeueJob(w, elapsed_bursts, p)
    BY <1>8 DEF workerTake
  <2>2. IsNextJob(jobs_, elapsed_bursts, p) /\ jobs_' = eraseJob(jobs_, p)
    BY <2>1 DEF dequeueJob
  <2>3. UNCHANGED <<elapsed_bursts, submitted>>
    BY <1>8 DEF workerTake
  <2>. QED  BY <1>4, <1>8, <2>2, <2>3, OvertakingTake
<1>9. ASSUME Count, UNCHANGED <<jobs_, elapsed_bursts, submitted>> PROVE OvertakingInv'
  BY <1>4, <1>9, OvertakingKeep
<1>10. ASSUME Next
       PROVE  \/ UNCHANGED <<jobs_, elapsed_bursts, submitted>>
              \/ \E j \in Jobs : submitJob(j)
              \/ \E w \in Workers : workerTake(w) \/ executePreempted(w)
  <2>1. CASE terminated
    BY <2>1 DEF terminated, vars, queueVars, poolVars, resultVars
  <2>2. CASE start \/ stopRunning \/ stopQueue \/ stopQueueNotify \/ joinAll
    BY <2>2 DEF start, stopRunning, stopQueue, stopQueueNotify, joinAll, stopSet, stopNotify,
                queueVars, poolVars, resultVars
  <2>3. ASSUME NEW w \in Workers, checkRunning(w) \/ workerSleep(w) \/ workerSpuriousWake(w)
                                  \/ workerBreak(w) \/ fulfil(w)
        PROVE  UNCHANGED <<jobs_, elapsed_bursts, submitted>>
    BY <2>3 DEF checkRunning, workerSleep, workerSpuriousWake, workerBreak, fulfil, dequeueWait,
                spuriousWake, dequeueNull, queueVars, poolVars, resultVars
  <2>4. ASSUME NEW w \in Workers, executeDone(w) \/ executeExit(w) \/ submitLock(w) \/ observe(w)
        PROVE  UNCHANGED <<jobs_, elapsed_bursts, submitted>>
    BY <2>4 DEF executeDone, executeExit, submitLock, observe, queueVars, poolVars, resultVars
  <2>. QED  BY <1>10, <2>1, <2>2, <2>3, <2>4 DEF Next, workerProgress
<1>. QED  BY <1>5, <1>6, <1>7, <1>8, <1>9, <1>10 DEF ONext

-------------------------------------------------------------------------------

\* No job is passed over for ever by another one: for any number of jobs and workers,
\* whoever preempts whom, another job gets at most one turn under FCFS and RoundRobin,
\* and one per level it starts above under MLFQ, while a job waits in the deque.  No
\* bound exists for PriorityScheduler, which no binary uses: an urgent job that is
\* preempted is taken again each time.
THEOREM OvertakingIsBounded ==
    ASSUME Policy # "Priority"
    PROVE  OSpec => []BoundedOvertaking
<1>1. OInit => OvertakingInv
  <2> SUFFICES ASSUME OInit PROVE OvertakingInv
    OBVIOUS
  <2>1. ConservationInv
    BY ConservationInit DEF OInit
  <2>2. Counts
    BY DEF OInit, Counts, Zero
  <2>3. DOMAIN jobs_ = {} /\ \A j : ~InQueue(j)
    BY DEF OInit, Init, QueueInit, InQueue
  <2>4. OrderShape /\ RowShape /\ BoundedOvertaking
    BY <2>3 DEF OrderShape, RowShape, BoundedOvertaking
  <2>. QED  BY <2>1, <2>2, <2>4 DEF OvertakingInv
<1>2. OvertakingInv /\ [ONext]_ovars => OvertakingInv'
  BY OvertakingNext
<1>3. OvertakingInv => BoundedOvertaking
  BY DEF OvertakingInv
<1>. QED  BY <1>1, <1>2, <1>3, PTL DEF OSpec

===============================================================================
