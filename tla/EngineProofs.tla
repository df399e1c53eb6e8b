----------------------------- MODULE EngineProofs -----------------------------
(***************************************************************************)
(* Theorems about Engine: the two submitters number, announce and wait for *)
(* jobs correctly, and main destroys nothing a worker still uses.          *)
(***************************************************************************)
EXTENDS Engine, WorkerPoolProofs

-------------------------------------------------------------------------------
(* The inductive invariant.                                                *)

\* The numbers given out are 1 .. next_job_id - 1, each to one job, and no job is
\* enqueued without one.
IdShape ==
    /\ next_job_id \in Nat \ {0}
    /\ id \in [Jobs -> Nat]
    /\ \A j \in Jobs : id[j] < next_job_id
    /\ \A n \in 1..(next_job_id - 1) : \E j \in Jobs : id[j] = n
    /\ \A i, j \in Jobs : id[i] = id[j] /\ id[i] # 0 => i = j
    /\ \A j \in submitted : id[j] # 0

Handling == {"enqueue", "wait", "announce"}
Places == {"boot", "prompt", "stop", "destroyed"} \cup Handling

\* The job a submitter is handling has its number.
ThreadShape ==
    /\ cli \in Places
    /\ line \in PromptJobs \cup {NoJob}
    /\ daemon \in DaemonJobs \cup {NoJob}
    /\ line # NoJob <=> cli \in Handling
    /\ line # NoJob => id[line] # 0
    /\ daemon # NoJob => id[daemon] # 0

\* The prompt thread owns the pool.
OwnerShape ==
    /\ ctl = "new" <=> cli = "boot"
    /\ cli = "destroyed" => ctl = "stopped"
    /\ ctl = "stopped" => \A w \in Workers : wpc[w] = "exited"

\* While a line is handled only the daemon thread numbers jobs.
AnnounceShape ==
    /\ announced \in [Jobs -> Nat]
    /\ \A j \in Jobs : announced[j] < next_job_id
    /\ \A j \in Jobs : announced[j] # 0 => id[j] # 0
    /\ line # NoJob => \A k \in PromptJobs : id[k] <= id[line]
    /\ AnnouncedIdIsOwn

Background(j) == parseLine(Line[j]).isBackground

\* A numbered line the prompt is done with was in the background or is resolved.
PromptShape ==
    /\ cli = "announce" => Background(line)
    /\ \A j \in PromptJobs : id[j] # 0 /\ j # line => Background(j) \/ Resolved(j)

EngineInv ==
    ResultInv /\ IdShape /\ ThreadShape /\ OwnerShape /\ AnnounceShape /\ PromptShape

-------------------------------------------------------------------------------

(* What the steps of the engine are to the pool.                           *)

\* The constants' assumptions, in the form the steps use them.
LEMMA EngineConstants ==
    /\ PromptJobs \in SUBSET Jobs /\ DaemonJobs \in SUBSET Jobs
    /\ Jobs = PromptJobs \cup DaemonJobs /\ PromptJobs \cap DaemonJobs = {}
    /\ NoJob \notin Jobs
    /\ IsFiniteSet(Jobs)
BY EngineAssumption, PoolAssumption DEF DaemonJobs

\* exit() changes nothing but whether the process is there.
Death ==
    alive' = FALSE /\ UNCHANGED <<queueVars, poolVars, resultVars, submitted, ctl>>

\* Every step of the engine is a step of the pool, a stutter of it, or its death.
LEMMA EngineStepsPool ==
    ASSUME EngineInv, [ENext]_evars
    PROVE  [Next]_vars \/ Death
<1>1. (cli = "enqueue" => line \in Jobs) /\ (daemon # NoJob => daemon \in Jobs)
  BY EngineConstants DEF EngineInv, ThreadShape, Handling
<1>2. CASE UNCHANGED evars
  BY <1>2 DEF evars
<1>3. ASSUME alive, promptStep PROVE [Next]_vars \/ Death
  <2>1. CASE boot  BY <2>1, <1>3 DEF boot, Next
  <2>2. CASE \E j \in PromptJobs : promptRead(j)  BY <2>2 DEF promptRead
  <2>3. CASE promptEnqueue  BY <2>3, <1>1, <1>3 DEF promptEnqueue, Next
  <2>4. CASE promptWaited \/ promptAnnounce \/ mainReturns
    BY <2>4 DEF promptWaited, promptAnnounce, mainReturns
  <2>5. CASE promptExit \/ mainReturned
    BY <2>5 DEF promptExit, mainReturned, processEnds, Death
  <2>6. CASE promptEof  BY <2>6, <1>3 DEF promptEof, Next
  <2>7. CASE promptStop  BY <2>7, <1>3 DEF promptStop, Next
  <2>. QED  BY <1>3, <2>1, <2>2, <2>3, <2>4, <2>5, <2>6, <2>7 DEF promptStep
<1>4. ASSUME alive, daemonStep PROVE [Next]_vars \/ Death
  <2>1. CASE \E j \in DaemonJobs : daemonRead(j)  BY <2>1 DEF daemonRead
  <2>2. CASE daemonEnqueue  BY <2>2, <1>1, <1>4 DEF daemonEnqueue, Next
  <2>3. CASE daemonDangles  BY <2>3 DEF daemonDangles, processEnds, Death
  <2>. QED  BY <1>4, <2>1, <2>2, <2>3 DEF daemonStep
<1>5. ASSUME alive, poolStep PROVE [Next]_vars \/ Death
  BY <1>5 DEF poolStep, Next
<1>. QED  BY <1>2, <1>3, <1>4, <1>5 DEF ENext, evars

\* The invariant of the pool does not care whether the process is there.
LEMMA DeathKeeps == ASSUME ResultInv, Death PROVE ResultInv'
<1> USE DEF Death, queueVars, poolVars, resultVars
<1>1. TypeInv'
  BY DEF ResultInv, ConservationInv, TypeInv, TypeOK, QueueTypeOK, HeldShape, BornShape
<1>2. JobConservation'
  BY DEF ResultInv, ConservationInv, JobConservation, InQueue, Held, Resolved
<1>3. LockShape' /\ LogShape'
  BY DEF ResultInv, LockShape, LogShape, Log, Result
<1>4. ReportShape'
  BY DEF ResultInv, ReportShape, Log, Result, Reported, Resolved
<1>. QED  BY <1>1, <1>2, <1>3, <1>4 DEF ResultInv, ConservationInv

\* A promise is never unset again, and what is submitted changes in enqueue only.
LEMMA PoolKeeps ==
    ASSUME ResultInv, [Next]_vars \/ Death
    PROVE  /\ \A j \in Jobs : Resolved(j) => Resolved(j)'
           /\ submitted' = submitted \/ \E j \in Jobs : submitJob(j)
<1>1. promise \in [Jobs -> {"unset", "zero", "one"}]
  BY ResultTypes
<1>2. CASE Death
  BY <1>2 DEF Death, resultVars, Resolved
<1>3. CASE \E j \in Jobs : submitJob(j)
  BY <1>3 DEF submitJob, resultVars, Resolved
<1>4. CASE \E w \in Workers : workerTake(w) \/ executePreempted(w)
  BY <1>4 DEF workerTake, executePreempted, resultVars, Resolved
<1>5. CASE \E w \in Workers : fulfil(w)
  BY <1>1, <1>5 DEF fulfil, PromiseValue, Resolved
<1>6. CASE UNCHANGED <<jobs_, cur, promise, submitted>>
  BY <1>6 DEF Resolved
<1>. QED  BY <1>2, <1>3, <1>4, <1>5, <1>6, MovingSteps

\* A step that neither numbers, enqueues nor finishes with a job.
Quiet ==
    /\ UNCHANGED <<next_job_id, id, line, announced, submitted>>
    /\ daemon' \in {daemon, NoJob}
    /\ cli' = cli \/ {cli, cli'} \subseteq Places \ Handling

\* What each step of the engine is to the submitters' own variables.
LEMMA EngineStepsMain ==
    ASSUME EngineInv, [ENext]_evars
    PROVE  \/ \E j \in PromptJobs : promptRead(j)
           \/ \E j \in DaemonJobs : daemonRead(j)
           \/ promptEnqueue \/ daemonEnqueue \/ promptWaited \/ promptAnnounce
           \/ Quiet
<1>1. CASE UNCHANGED evars
  BY <1>1 DEF evars, vars, mainVars, Quiet
<1>2. CASE boot \/ promptEof
  BY <1>2 DEF boot, promptEof, start, stopRunning, Quiet, Places, Handling
<1>3. CASE promptStop \/ mainReturns
  BY <1>3 DEF promptStop, mainReturns, stopQueue, stopQueueNotify, joinAll, mainVars, vars,
              Quiet, Places, Handling
<1>4. CASE promptExit \/ mainReturned \/ daemonDangles
  BY <1>4 DEF promptExit, mainReturned, daemonDangles, processEnds, mainVars, vars, Quiet
<1>5. CASE poolStep
  <2>1. PICK w \in Workers : workerProgress(w) \/ workerSpuriousWake(w)
    BY <1>5 DEF poolStep
  <2>2. submitted' = submitted
    BY <2>1 DEF workerProgress, workerSpuriousWake, checkRunning, workerSleep, workerBreak,
                workerTake, executeDone, executePreempted, executeExit, submitLock, observe,
                fulfil
  <2>. QED  BY <1>5, <2>2 DEF poolStep, mainVars, Quiet
<1>. QED  BY <1>1, <1>2, <1>3, <1>4, <1>5 DEF ENext, promptStep, daemonStep, evars

-------------------------------------------------------------------------------
(* The invariant is inductive, part by part.                               *)

\* next_job_id++ by either submitter keeps the numbers consecutive and distinct, and an
\* enqueue hands over a job that has one.
LEMMA IdNext == ASSUME EngineInv, [ENext]_evars PROVE IdShape'
<1>1. IdShape /\ ThreadShape
  BY DEF EngineInv
<1>2. ASSUME NEW j \in Jobs, takeId(j), id[j] = 0, submitted' = submitted
      PROVE  IdShape'
  <2>1. /\ next_job_id' \in Nat \ {0} /\ id' \in [Jobs -> Nat]
        /\ \A k \in Jobs : id'[k] < next_job_id'
    BY <1>1, <1>2 DEF IdShape, takeId
  <2>2. \A n \in 1..(next_job_id' - 1) : \E k \in Jobs : id'[k] = n
    BY <1>1, <1>2 DEF IdShape, takeId
  <2>3. \A i, k \in Jobs : id'[i] = id'[k] /\ id'[i] # 0 => i = k
    BY <1>1, <1>2 DEF IdShape, takeId
  <2>4. \A k \in submitted' : id'[k] # 0
    <3>1. submitted \in SUBSET Jobs
      BY DEF EngineInv, ResultInv, ConservationInv, TypeInv, TypeOK
    <3>. QED  BY <1>1, <1>2, <3>1 DEF IdShape, takeId
  <2>. QED  BY <2>1, <2>2, <2>3, <2>4 DEF IdShape
<1>3. CASE \E j \in PromptJobs : promptRead(j)
  BY <1>2, <1>3, EngineConstants DEF promptRead, vars
<1>4. CASE \E j \in DaemonJobs : daemonRead(j)
  BY <1>2, <1>4, EngineConstants DEF daemonRead, vars
<1>5. CASE promptEnqueue
  BY <1>1, <1>5 DEF promptEnqueue, submitJob, IdShape, ThreadShape, Handling
<1>6. CASE daemonEnqueue
  BY <1>1, <1>6 DEF daemonEnqueue, submitJob, IdShape, ThreadShape
<1>7. CASE promptWaited \/ promptAnnounce
  BY <1>1, <1>7 DEF promptWaited, promptAnnounce, vars, IdShape
<1>8. CASE Quiet
  BY <1>1, <1>8 DEF Quiet, IdShape
<1>. QED  BY <1>3, <1>4, <1>5, <1>6, <1>7, <1>8, EngineStepsMain

\* The prompt thread handles a line between reading it and returning to the prompt.
LEMMA ThreadNext == ASSUME EngineInv, [ENext]_evars PROVE ThreadShape'
<1>1. IdShape /\ ThreadShape
  BY DEF EngineInv
<1> USE EngineConstants DEF ThreadShape, Places, Handling
<1>2. CASE \E j \in PromptJobs : promptRead(j)
  BY <1>1, <1>2 DEF promptRead, takeId, IdShape
<1>3. CASE \E j \in DaemonJobs : daemonRead(j)
  BY <1>1, <1>3 DEF daemonRead, takeId, IdShape
<1>4. CASE promptEnqueue  BY <1>1, <1>4 DEF promptEnqueue
<1>5. CASE daemonEnqueue  BY <1>1, <1>5 DEF daemonEnqueue
<1>6. CASE promptWaited \/ promptAnnounce  BY <1>1, <1>6 DEF promptWaited, promptAnnounce
<1>7. CASE Quiet  BY <1>1, <1>7 DEF Quiet
<1>. QED  BY <1>2, <1>3, <1>4, <1>5, <1>6, <1>7, EngineStepsMain

\* A joined worker does not come back.
LEMMA ExitedStays ==
    ASSUME TypeInv, ctl = "stopped", \A w \in Workers : wpc[w] = "exited",
           NEW u \in Workers, workerProgress(u) \/ workerSpuriousWake(u)
    PROVE  FALSE
BY DEF workerProgress, workerSpuriousWake, checkRunning, workerSleep, workerBreak,
       workerTake, executeDone, executePreempted, executeExit, submitLock, observe, fulfil

\* main starts the pool before the prompt, and destroys it after joining the workers.
LEMMA OwnerNext == ASSUME EngineInv, [ENext]_evars PROVE OwnerShape'
<1>1. OwnerShape /\ ThreadShape /\ TypeInv
  BY DEF EngineInv, ResultInv, ConservationInv
<1> USE DEF OwnerShape
<1>2. CASE UNCHANGED evars
  BY <1>1, <1>2 DEF evars, vars, poolVars, mainVars
<1>3. CASE boot  BY <1>1, <1>3 DEF boot, start
<1>4. CASE (\E j \in PromptJobs : promptRead(j)) \/ (\E j \in DaemonJobs : daemonRead(j))
  BY <1>1, <1>4 DEF promptRead, daemonRead, vars, poolVars
<1>5. CASE promptEnqueue \/ daemonEnqueue
  BY <1>1, <1>5 DEF promptEnqueue, daemonEnqueue, submitJob, poolVars
<1>6. CASE promptWaited \/ promptAnnounce \/ mainReturns
  BY <1>1, <1>6 DEF promptWaited, promptAnnounce, mainReturns, vars, poolVars
<1>7. CASE promptExit \/ mainReturned \/ daemonDangles
  BY <1>1, <1>7 DEF promptExit, mainReturned, daemonDangles, processEnds, vars, poolVars,
                    mainVars
<1>8. CASE promptEof  BY <1>1, <1>8 DEF promptEof, stopRunning
<1>9. CASE promptStop
  BY <1>1, <1>9 DEF promptStop, stopQueue, stopQueueNotify, joinAll, poolVars, mainVars
<1>10. CASE poolStep
  <2>1. PICK u \in Workers : workerProgress(u) \/ workerSpuriousWake(u)
    BY <1>10 DEF poolStep
  <2>2. ctl # "stopped"
    BY <1>1, <2>1, ExitedStays
  <2>3. ctl' = ctl
    BY <2>1 DEF workerProgress, workerSpuriousWake, checkRunning, workerSleep, workerBreak,
                workerTake, executeDone, executePreempted, executeExit, submitLock, observe,
                fulfil
  <2>. QED  BY <1>1, <1>10, <2>2, <2>3 DEF poolStep, mainVars
<1>. QED  BY <1>2, <1>3, <1>4, <1>5, <1>6, <1>7, <1>8, <1>9, <1>10
          DEF ENext, promptStep, daemonStep

\* A number given out stays with its job.
LEMMA NumbersStay ==
    ASSUME EngineInv, [ENext]_evars
    PROVE  \A j \in Jobs : id[j] # 0 => id'[j] = id[j]
<1>1. id \in [Jobs -> Nat]
  BY DEF EngineInv, IdShape
<1>2. CASE \E j \in Jobs : takeId(j) /\ id[j] = 0
  BY <1>1, <1>2 DEF takeId
<1>3. CASE id' = id
  BY <1>3
<1>. QED  BY <1>2, <1>3, EngineStepsMain, EngineConstants
          DEF promptRead, daemonRead, promptEnqueue, daemonEnqueue, promptWaited,
              promptAnnounce, Quiet

\* next_job_id is read a second time for the announcement; what the daemon thread
\* numbered in between lies between the two reads and nothing else does.
LEMMA AnnouncedNext == ASSUME EngineInv, [ENext]_evars PROVE AnnounceShape'
<1>1. IdShape /\ ThreadShape /\ AnnounceShape /\ IdShape'
  BY IdNext DEF EngineInv
<1>2. ASSUME announced' = announced,
             next_job_id' \in {next_job_id, next_job_id + 1},
             line' # NoJob => \A k \in PromptJobs : id'[k] <= id'[line']
      PROVE  AnnounceShape'
  <2>1. /\ announced' \in [Jobs -> Nat]
        /\ \A j \in Jobs : announced'[j] < next_job_id'
        /\ \A j \in Jobs : announced'[j] # 0 => id'[j] # 0
    BY <1>1, <1>2, NumbersStay DEF AnnounceShape, IdShape
  <2>2. ASSUME NEW j \in Jobs, announced[j] # 0
        PROVE  /\ announced[j] >= id'[j]
               /\ \A n \in id'[j]..announced[j] : \E k \in {j} \cup DaemonJobs : id'[k] = n
    <3>1. id'[j] = id[j] /\ id[j] \in Nat \ {0} /\ announced[j] \in Nat
      BY <1>1, <2>2, NumbersStay DEF AnnounceShape, IdShape
    <3>2. announced[j] >= id[j]
      BY <1>1, <2>2 DEF AnnounceShape, AnnouncedIdIsOwn
    <3>3. ASSUME NEW n \in id[j]..announced[j]
          PROVE  \E k \in {j} \cup DaemonJobs : id'[k] = n
      <4>1. PICK k \in {j} \cup DaemonJobs : id[k] = n
        BY <1>1, <2>2, <3>3 DEF AnnounceShape, AnnouncedIdIsOwn
      <4>2. id'[k] = n
        BY <3>1, <4>1, NumbersStay, EngineConstants
      <4>. QED  BY <4>2
    <3>. QED  BY <3>1, <3>2, <3>3
  <2>3. AnnouncedIdIsOwn'
    BY <1>2, <2>2 DEF AnnouncedIdIsOwn
  <2>. QED  BY <1>2, <2>1, <2>3 DEF AnnounceShape
<1>3. CASE \E j \in PromptJobs : promptRead(j)
  BY <1>1, <1>2, <1>3, EngineConstants DEF promptRead, takeId, IdShape
<1>4. CASE \E j \in DaemonJobs : daemonRead(j)
  <2>1. PICK j \in DaemonJobs : daemonRead(j)  BY <1>4
  <2>2. line' # NoJob => \A k \in PromptJobs : id'[k] <= id'[line']
    BY <1>1, <2>1, EngineConstants DEF daemonRead, takeId, IdShape, AnnounceShape, ThreadShape
  <2>. QED  BY <1>2, <2>1, <2>2 DEF daemonRead, takeId
<1>5. CASE promptEnqueue \/ daemonEnqueue \/ promptWaited \/ Quiet
  BY <1>1, <1>2, <1>5 DEF promptEnqueue, daemonEnqueue, promptWaited, Quiet, AnnounceShape
<1>6. CASE promptAnnounce
  <2>1. /\ line \in PromptJobs /\ line \in Jobs /\ id[line] \in Nat \ {0}
        /\ next_job_id \in Nat \ {0} /\ id[line] < next_job_id
        /\ id' = id /\ next_job_id' = next_job_id /\ line' = NoJob
        /\ announced' = [announced EXCEPT ![line] = next_job_id - 1]
    BY <1>1, <1>6, EngineConstants DEF promptAnnounce, ThreadShape, Handling, IdShape
  <2>2. ASSUME NEW n \in id[line]..(next_job_id - 1)
        PROVE  \E k \in {line} \cup DaemonJobs : id[k] = n
    <3>1. n \in 1..(next_job_id - 1)  BY <2>1, <2>2
    <3>2. PICK k \in Jobs : id[k] = n  BY <1>1, <3>1 DEF IdShape
    <3>3. CASE k \in DaemonJobs  BY <3>2, <3>3
    <3>4. CASE k \in PromptJobs
      <4>1. id[k] = id[line]
        BY <1>1, <2>1, <2>2, <3>2, <3>4, EngineConstants DEF AnnounceShape
      <4>. QED  BY <3>2, <4>1
    <3>. QED  BY <3>3, <3>4, EngineConstants
  <2>3. /\ announced' \in [Jobs -> Nat]
        /\ \A j \in Jobs : announced'[j] < next_job_id'
        /\ \A j \in Jobs : announced'[j] # 0 => id'[j] # 0
    BY <1>1, <2>1 DEF AnnounceShape
  <2>4. ASSUME NEW j \in Jobs, announced'[j] # 0
        PROVE  /\ announced'[j] >= id[j]
               /\ \A n \in id[j]..announced'[j] : \E k \in {j} \cup DaemonJobs : id[k] = n
    <3>1. CASE j = line
      BY <1>1, <2>1, <2>2, <3>1 DEF AnnounceShape
    <3>2. CASE j # line
      BY <1>1, <2>1, <2>4, <3>2 DEF AnnounceShape, AnnouncedIdIsOwn
    <3>. QED  BY <3>1, <3>2
  <2>. QED  BY <2>1, <2>3, <2>4 DEF AnnounceShape, AnnouncedIdIsOwn
<1>. QED  BY <1>3, <1>4, <1>5, <1>6, EngineStepsMain

\* The prompt leaves a foreground line through future.wait() only.
LEMMA PromptNext == ASSUME EngineInv, [ENext]_evars PROVE PromptShape'
<1>1. IdShape /\ ThreadShape /\ PromptShape /\ ResultInv
  BY DEF EngineInv
<1>2. \A j \in PromptJobs : Resolved(j) => Resolved(j)'
  BY <1>1, EngineStepsPool, PoolKeeps, EngineConstants
<1>3. CASE \E j \in PromptJobs : promptRead(j)
  <2>1. PICK j \in PromptJobs : promptRead(j)  BY <1>3
  <2>2. /\ line = NoJob /\ line' = j /\ cli' = "enqueue"
        /\ \A k \in PromptJobs : k # j => id'[k] = id[k]
    BY <1>1, <2>1, EngineConstants DEF promptRead, takeId, ThreadShape, Handling, IdShape
  <2>. QED  BY <1>1, <1>2, <2>2, EngineConstants DEF PromptShape
<1>4. CASE \E j \in DaemonJobs : daemonRead(j)
  <2>1. PICK j \in DaemonJobs : daemonRead(j)  BY <1>4
  <2>2. /\ line' = line /\ cli' = cli
        /\ \A k \in PromptJobs : id'[k] = id[k]
    BY <1>1, <2>1, EngineConstants DEF daemonRead, takeId, IdShape
  <2>. QED  BY <1>1, <1>2, <2>2 DEF PromptShape
<1>5. CASE promptEnqueue
  <2>1. /\ id' = id /\ line' = line
        /\ cli' = IF Background(line) THEN "announce" ELSE "wait"
    BY <1>5 DEF promptEnqueue, Background
  <2>. QED  BY <1>1, <1>2, <2>1 DEF PromptShape
<1>6. CASE promptWaited
  BY <1>1, <1>2, <1>6 DEF promptWaited, PromptShape
<1>7. CASE promptAnnounce
  BY <1>1, <1>2, <1>7 DEF promptAnnounce, PromptShape
<1>8. CASE daemonEnqueue
  BY <1>1, <1>2, <1>8 DEF daemonEnqueue, PromptShape
<1>9. CASE Quiet
  BY <1>1, <1>2, <1>9 DEF Quiet, PromptShape, Places, Handling
<1>. QED  BY <1>3, <1>4, <1>5, <1>6, <1>7, <1>8, <1>9, EngineStepsMain

\* The invariant holds at first ...
LEMMA EngineInit == EInit => EngineInv
<1> SUFFICES ASSUME EInit PROVE EngineInv
  OBVIOUS
<1>1. ResultInv  BY ResultInit DEF EInit
<1>2. IdShape  BY DEF EInit, Init, IdShape
<1>3. ThreadShape  BY DEF EInit, ThreadShape, Places, Handling
<1>4. OwnerShape  BY DEF EInit, Init, OwnerShape
<1>5. AnnounceShape  BY DEF EInit, AnnounceShape, AnnouncedIdIsOwn
<1>6. PromptShape  BY EngineConstants DEF EInit, PromptShape
<1>. QED  BY <1>1, <1>2, <1>3, <1>4, <1>5, <1>6 DEF EngineInv

\* ... and every step keeps it.
LEMMA EngineNext == EngineInv /\ [ENext]_evars => EngineInv'
<1> SUFFICES ASSUME EngineInv, [ENext]_evars PROVE EngineInv'
  OBVIOUS
<1>1. ResultInv'
  BY EngineStepsPool, ResultNext, DeathKeeps DEF EngineInv
<1>. QED  BY <1>1, IdNext, ThreadNext, OwnerNext, AnnouncedNext, PromptNext DEF EngineInv

-------------------------------------------------------------------------------
(* What follows from it.                                                   *)

\* No more numbers are given out than there are jobs.
LEMMA NumbersBound ==
    ASSUME IdShape
    PROVE  Cardinality(Jobs) \in Nat /\ next_job_id <= Cardinality(Jobs) + 1
<1> DEFINE S == 1..(next_job_id - 1)
           f == [n \in S |-> CHOOSE j \in Jobs : id[j] = n]
<1>1. \A n \in S : f[n] \in Jobs /\ id[f[n]] = n
  BY DEF IdShape
<1>2. f \in Injection(S, Jobs)
  <2>1. f \in [S -> Jobs]
    BY <1>1
  <2>2. \A m, n \in S : f[m] = f[n] => m = n
    BY <1>1
  <2> HIDE DEF f, S
  <2>. QED  BY <2>1, <2>2 DEF Injection, IsInjective
<1>3. IsFiniteSet(Jobs) /\ Cardinality(Jobs) \in Nat
  BY EngineConstants, FS_CardinalityType
<1>4. Cardinality(S) = next_job_id - 1
  BY FS_Interval DEF IdShape
<1> HIDE DEF f, S
<1>5. Cardinality(S) <= Cardinality(Jobs)
  BY <1>2, <1>3, FS_Injection
<1>. QED  BY <1>3, <1>4, <1>5 DEF IdShape

\* The invariant gives the types.
LEMMA TypeFromShape == EngineInv => EngineTypeOK
<1> SUFFICES ASSUME EngineInv PROVE EngineTypeOK
  OBVIOUS
<1>1. TypeOK /\ IdShape /\ ThreadShape /\ AnnounceShape
  BY DEF EngineInv, ResultInv, ConservationInv, TypeInv
<1>2. Cardinality(Jobs) \in Nat /\ next_job_id <= Cardinality(Jobs) + 1
  BY <1>1, NumbersBound
<1>3. /\ next_job_id \in 1..(Cardinality(Jobs) + 1)
      /\ id \in [Jobs -> 0..Cardinality(Jobs)]
      /\ announced \in [Jobs -> 0..Cardinality(Jobs)]
  BY <1>1, <1>2 DEF IdShape, AnnounceShape
<1>. QED  BY <1>1, <1>3 DEF EngineTypeOK, ThreadShape, Places, Handling

\* What an observer has been told about was submitted.
LEMMA ReportedSubmitted ==
    ASSUME ResultInv, NEW k \in Observers, NEW x \in DOMAIN seen[k]
    PROVE  seen[k][x].job \in submitted
<1>1. /\ Log \in Seq(R) /\ DOMAIN Log = 1..Len(Log) /\ Len(Log) \in Nat
      /\ cur \in [Workers -> Jobs \cup {NoJob}]
      /\ notified \in 0..(NumObservers - 1)
      /\ notified # 0 => mutex_ \in Workers /\ wpc[mutex_] = "observe"
  BY ResultTypes
<1>2. \A j \in Jobs : Held(j) \/ Resolved(j) => j \in submitted
  BY DEF ResultInv, ConservationInv, JobConservation
<1>3. ASSUME NEW i \in DOMAIN Log PROVE Log[i].job \in submitted
  <2>1. Log[i].job \in Jobs /\ Reported(Log[i].job)
    <3>1. Log[i] \in R  BY <1>1, ElementOfSeq
    <3>. QED  BY <3>1 DEF R, Reported
  <2>2. Held(Log[i].job) \/ Resolved(Log[i].job)
    BY <2>1 DEF ResultInv, ReportShape, Held
  <2>. QED  BY <1>2, <2>1, <2>2
<1>4. CASE ~(k <= notified)
  BY <1>3, <1>4 DEF ResultInv, LogShape
<1>5. CASE k <= notified
  <2>1. mutex_ \in Workers /\ wpc[mutex_] = "observe"
    BY <1>1, <1>5, ConstantFacts DEF Observers
  <2>2. cur[mutex_] \in Jobs /\ Held(cur[mutex_])
    BY <1>1, <2>1 DEF ResultInv, ConservationInv, TypeInv, HeldShape, Holding, Held
  <2>3. seen[k] = Append(Log, Result(mutex_))
    BY <1>5 DEF ResultInv, LogShape
  <2>4. Result(mutex_).job = cur[mutex_]
    BY DEF Result, JobResult
  <2>5. CASE x \in DOMAIN Log
    <3>1. seen[k][x] = Log[x]  BY <1>1, <2>3, <2>5
    <3>. QED  BY <1>3, <2>5, <3>1
  <2>6. CASE x \notin DOMAIN Log
    <3>1. seen[k][x] = Result(mutex_)  BY <1>1, <2>3, <2>6
    <3>. QED  BY <1>2, <2>2, <2>4, <3>1
  <2>. QED  BY <2>5, <2>6
<1>. QED  BY <1>4, <1>5

\* Two entries of a log are of two jobs, and those have two numbers.
LEMMA UniqueFromShape == EngineInv => ReportedIdsUnique
<1> SUFFICES ASSUME EngineInv, NEW k \in Observers,
                    NEW x \in DOMAIN seen[k], NEW y \in DOMAIN seen[k]
             PROVE  /\ id[seen[k][x].job] # 0
                    /\ id[seen[k][x].job] = id[seen[k][y].job] => x = y
  BY DEF ReportedIdsUnique
<1> DEFINE a == seen[k][x].job
           b == seen[k][y].job
<1>1. ResultInv /\ IdShape /\ ResultBeforePromise
  BY OrderFromShape DEF EngineInv
<1>2. a \in submitted /\ b \in submitted
  BY <1>1, ReportedSubmitted
<1>3. submitted \in SUBSET Jobs
  BY <1>1 DEF ResultInv, ConservationInv, TypeInv, TypeOK
<1>4. a = b => x = y
  BY <1>1, <1>2, <1>3 DEF ResultBeforePromise
<1> HIDE DEF a, b
<1>5. id[a] # 0 /\ (id[a] = id[b] => a = b)
  BY <1>1, <1>2, <1>3 DEF IdShape
<1>. QED  BY <1>4, <1>5 DEF a, b

\* A worker that has been joined holds no job.
LEMMA GoneFromShape == EngineInv => WorkersGoneBeforeMain
<1> SUFFICES ASSUME EngineInv, cli = "destroyed"
             PROVE  /\ \A w \in Workers : wpc[w] = "exited"
                    /\ \A j \in submitted : Resolved(j) \/ InQueue(j)
  BY DEF WorkersGoneBeforeMain
<1>1. \A w \in Workers : wpc[w] = "exited"
  BY DEF EngineInv, OwnerShape
<1>2. \A w \in Workers : cur[w] = NoJob
  BY <1>1 DEF EngineInv, ResultInv, ConservationInv, TypeInv, HeldShape, Holding
<1>3. submitted \in SUBSET Jobs /\ \A j \in Jobs : ~Held(j)
  BY <1>2, ConstantFacts DEF EngineInv, ResultInv, ConservationInv, TypeInv, TypeOK, Held
<1>. QED  BY <1>1, <1>3 DEF EngineInv, ResultInv, ConservationInv, JobConservation

\* A foreground line the prompt has left is resolved, hence reported.
LEMMA AfterFromShape ==
    ASSUME EngineInv, \A j \in PromptJobs : ParsesAsWritten(Line[j])
    PROVE  PromptAfterResult
<1> SUFFICES ASSUME NEW j \in PromptJobs, WaitsForJob(Line[j]), id[j] # 0, line # j,
                    NEW k \in Observers
             PROVE  \E i \in DOMAIN seen[k] : seen[k][i].job = j
  BY DEF PromptAfterResult
<1>1. ~Background(j)
  BY DEF ParsesAsWritten, Background
<1>2. Resolved(j)
  BY <1>1 DEF EngineInv, PromptShape
<1>. QED  BY <1>2, OrderFromShape, EngineConstants DEF EngineInv, ResultBeforePromise

\* The submitters, the prompt and the daemon keep their variables' types; no number is
\* beyond the number of jobs.
THEOREM EngineTypeCorrect == ESpec => []EngineTypeOK
<1>1. EInit => EngineInv  BY EngineInit
<1>2. EngineInv /\ [ENext]_evars => EngineInv'  BY EngineNext
<1>3. EngineInv => EngineTypeOK  BY TypeFromShape
<1>. QED  BY <1>1, <1>2, <1>3, PTL DEF ESpec

\* next_job_id++ from two threads: no two results the observers are given carry the same id.
THEOREM IdsAreUnique == ESpec => []ReportedIdsUnique
<1>1. EngineInv => ReportedIdsUnique  BY UniqueFromShape
<1>. QED  BY <1>1, EngineInit, EngineNext, PTL DEF ESpec

\* The announced number is off by the daemon's jobs only.
THEOREM AnnouncementIsOwn == ESpec => []AnnouncedIdIsOwn
<1>1. EngineInv => AnnouncedIdIsOwn  BY DEF EngineInv, AnnounceShape
<1>. QED  BY <1>1, EngineInit, EngineNext, PTL DEF ESpec

\* main destroys the pool after every worker has left it.
THEOREM DestroyedAfterWorkers == ESpec => []WorkersGoneBeforeMain
<1>1. EngineInv => WorkersGoneBeforeMain  BY GoneFromShape
<1>. QED  BY <1>1, EngineInit, EngineNext, PTL DEF ESpec

\* Where parseLine reads the typed lines as they are written, the prompt that waits for a
\* foreground job comes back after its result has been reported.
THEOREM PromptFollowsResult ==
    ASSUME \A j \in PromptJobs : ParsesAsWritten(Line[j])
    PROVE  ESpec => []PromptAfterResult
<1>1. EngineInv => PromptAfterResult  BY AfterFromShape
<1>. QED  BY <1>1, EngineInit, EngineNext, PTL DEF ESpec

===============================================================================
