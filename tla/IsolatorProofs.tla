---------------------------- MODULE IsolatorProofs ----------------------------
(***************************************************************************)
(* Theorems about Isolator, for any number of jobs and process ids, with   *)
(* or without quantum, limiter and watchdogs.  Most of the invariant       *)
(* speaks of a single job: jobs meet only where the kernel gives a process *)
(* id of a reaped child to another one, and where two limiters have drawn  *)
(* one directory name.                                                     *)
(***************************************************************************)
EXTENDS Isolator, TLAPS

-------------------------------------------------------------------------------
(* The inductive invariant.                                                *)

Unreaped(j) == proc[j] \notin {"none", "reaped"}
Watching == {"watch_timeout", "watch_anomaly", "sync"}
Stopping == {"stop_timeout", "join_timeout", "stop_anomaly", "join_anomaly"}
Returning == Stopping \cup {"limiter_kill", "limiter_remove"}
Finals == Statuses \cup {"error"}

\* The kernel gives a process id to one child at a time.
PidShape == \A j, k \in Jobs : Unreaped(j) /\ Unreaped(k) /\ pid[j] = pid[k] => j = k

\* What the worker's place says of the child and of the result.
CallShape(j) ==
    /\ proc[j] = "none" <=> pid[j] = NoPid
    /\ ipc[j] = "clone" => proc[j] = "none"
    /\ ipc[j] \in {"limit"} \cup Watching => proc[j] \in {"blocked", "zombie"}
    /\ ipc[j] \in {"cont", "wait"} => Unreaped(j)
    /\ ipc[j] \in Returning \cup {"idle"} =>
          \/ proc[j] \in {"none", "reaped"} /\ result[j] \in Finals
          \/ Unreaped(j) /\ result[j] = "preempted"
          \/ ipc[j] = "idle" /\ proc[j] = "none" /\ result[j] = "none"
    /\ proc[j] = "zombie" => exit[j] \in Statuses
    /\ result[j] = "preempted" => j \in Quantum

\* Killed by a watchdog, or by the limiter of another run with the same directory.
Killed(j) == hitBy[j] # {} \/ ("names" \in Faults /\ purgedBy[j] \ {j} # {})

\* A child that is not yet past the sync pipe can only have been killed.
KillShape(j) ==
    /\ proc[j] = "none" => pending[j] = {} /\ hitBy[j] = {} /\ ~synced[j]
    /\ proc[j] \in Running \ {"blocked"} => synced[j]
    /\ ipc[j] \in Launching => ~synced[j]
    /\ ipc[j] \in Launching /\ ("KILL" \in pending[j] \/ proc[j] = "zombie") => Killed(j)

\* SIGSTOP is sent to the process group of a job whose quantum is over; the stop is
\* reported once, and lasts until the job is executed again.
StopShape(j) ==
    /\ news[j] => stopped[j]
    /\ stopped[j] => proc[j] \in Grouped /\ expired[j]
    /\ "STOP" \in pending[j] /\ proc[j] \in Running => proc[j] \in Grouped /\ expired[j]
    /\ ipc[j] \in Returning \cup {"idle", "cont"} /\ proc[j] \in Running =>
          stopped[j] /\ ~news[j]

Active(j, d) == dog[j][d] \notin {"none", "finished"}

\* A watchdog thread lives between its start and its join.
DogShape(j) ==
    /\ \A d \in Dogs : dog[j][d] = "none" => ~armed[j][d]
    /\ armed[j]["timeout"] => ipc[j] \in {"watch_anomaly", "sync", "wait", "stop_timeout"}
    /\ armed[j]["anomaly"] =>
          ipc[j] \in {"sync", "wait", "stop_timeout", "join_timeout", "stop_anomaly"}
    /\ Active(j, "timeout") => armed[j]["timeout"] \/ ipc[j] = "join_timeout"
    /\ Active(j, "anomaly") => armed[j]["anomaly"] \/ ipc[j] = "join_anomaly"

\* When the sync byte is written the watchdogs are in place.
GuardShape(j) ==
    /\ UseWatchdogs /\ (ipc[j] \in {"watch_anomaly", "sync"} \/ synced[j]) =>
          dog[j]["timeout"] # "none"
    /\ UseWatchdogs /\ (ipc[j] = "sync" \/ synced[j]) => dog[j]["anomaly"] # "none"

\* Unless two limiters can draw one name, every job has a name of its own.
NameShape(j) ==
    "names" \notin Faults => path[j] \in {j, NoName} /\ member[j] \in {j, NoName, Refused}

JobShape(j) == CallShape(j) /\ KillShape(j) /\ StopShape(j) /\ DogShape(j) /\ GuardShape(j)

\* The worker has passed applyToPid and the child has not ended.
Attached(j) == (ipc[j] \in Watching \/ synced[j]) /\ proc[j] \in Running

\* The directories, where no job is executed twice: a limiter has one from the first step
\* of execute, its child is in that one or in none, and a directory that exists belongs
\* to a run that has not returned.
CgroupShape ==
    /\ \A j \in Jobs :
          /\ ipc[j] = "idle" /\ result[j] = "none" => path[j] = NoName
          /\ member[j] \in {path[j], NoName, Refused}
          /\ Attached(j) /\ path[j] \in cgroups =>
                member[j] \in {path[j], Refused} \/ Sharing(j)
    /\ \A n \in cgroups : \E k \in Jobs : path[k] = n /\ ~Final(k)

\* The program's configurations have a limiter or a quantum, not both.
LimiterShape ==
    /\ ~UseLimiter => cgroups = {}
    /\ Quantum = {} => CgroupShape

IsolatorInv ==
    /\ TypeOK /\ PidShape /\ EngineEndsOnlyByEarlyKill /\ LimiterShape
    /\ \A j \in Jobs : JobShape(j) /\ NameShape(j)

-------------------------------------------------------------------------------
(* The types.                                                              *)

\* A signal sent is one of the two.
LEMMA SendType ==
    ASSUME TypeOK, NEW s \in {"KILL", "STOP"}, NEW targets, Send(s, targets)
    PROVE  pending' \in [Jobs -> SUBSET {"KILL", "STOP"}]
BY DEF TypeOK, Send

\* One entry of a table by job and watchdog is assigned.
LEMMA TableUpdate ==
    ASSUME NEW S, NEW f \in [Jobs -> [Dogs -> S]], NEW i \in Jobs, NEW d \in Dogs, NEW v \in S,
           NEW g, g = [f EXCEPT ![i][d] = v]
    PROVE  /\ g \in [Jobs -> [Dogs -> S]]
           /\ g[i][d] = v
           /\ \A e \in Dogs : e # d => g[i][e] = f[i][e]
           /\ \A j \in Jobs : j # i => g[j] = f[j]
OBVIOUS

\* Every step keeps the types.
LEMMA TypeStep == ASSUME TypeOK, NEW i \in Jobs, Step(i) PROVE TypeOK'
<1> USE IsolatorAssumption
<1> USE DEF callVars, cgroupVars, procVars, dogVars, killVars, Goto
<1>1. CASE executeBegin(i)
  <2>1. path' \in [Jobs -> Jobs \cup {NoName}] /\ cgroups' \in SUBSET Jobs
    <3>1. \/ UNCHANGED <<path, cgroups>>
          \/ \E n \in Jobs : /\ path' = [path EXCEPT ![i] = n]
                             /\ cgroups' \in {cgroups, cgroups \cup {n}}
      BY <1>1 DEF executeBegin, makeCgroup, LimiterNames
    <3>2. path \in [Jobs -> Jobs \cup {NoName}] /\ cgroups \in SUBSET Jobs
      BY DEF TypeOK
    <3>3. ASSUME NEW n \in Jobs, path' = [path EXCEPT ![i] = n],
                 cgroups' \in {cgroups, cgroups \cup {n}}
          PROVE  path' \in [Jobs -> Jobs \cup {NoName}] /\ cgroups' \in SUBSET Jobs
      BY <3>2, <3>3
    <3>. QED  BY <3>1, <3>2, <3>3
  <2>2. ipc' \in [Jobs -> IPC] /\ result' \in [Jobs -> Results]
    BY <1>1 DEF TypeOK, executeBegin, IPC, Launching, Results
  <2>. QED  BY <1>1, <2>1, <2>2 DEF TypeOK, executeBegin
<1>2. CASE launchFails(i)
  BY <1>2 DEF TypeOK, launchFails, IPC, Launching, Results
<1>3. CASE launch(i)
  BY <1>3 DEF TypeOK, launch, IPC, Launching, Running, Grouped
<1>4. CASE applyToPid(i)
  <2>1. member' \in [Jobs -> Jobs \cup {NoName, Refused}]
    <3>1. \/ UNCHANGED member
          \/ path[i] \in cgroups /\ member' = [member EXCEPT ![i] = path[i]]
          \/ member' = [member EXCEPT ![i] = Refused]
      BY <1>4 DEF applyToPid
    <3>. QED  BY <3>1 DEF TypeOK
  <2>2. ipc' \in [Jobs -> IPC]
    BY <1>4 DEF TypeOK, applyToPid, IPC, Launching
  <2>. QED  BY <1>4, <2>1, <2>2 DEF TypeOK, applyToPid
<1>5. CASE startWatchdogs(i)
  <2>1. ipc' \in [Jobs -> IPC]
    <3>1. \E pc \in IPC : ipc' = [ipc EXCEPT ![i] = pc]
      BY <1>5 DEF startWatchdogs, startDog, IPC, Launching
    <3>. QED  BY <3>1 DEF TypeOK
  <2>2. dog' \in [Jobs -> [Dogs -> DogStates]] /\ armed' \in [Jobs -> [Dogs -> BOOLEAN]]
    <3>1. dog \in [Jobs -> [Dogs -> DogStates]] /\ armed \in [Jobs -> [Dogs -> BOOLEAN]]
      BY DEF TypeOK
    <3>2. \/ UNCHANGED dogVars
          \/ \E d \in Dogs : /\ dog' = [dog EXCEPT ![i][d] = "waiting"]
                             /\ armed' = [armed EXCEPT ![i][d] = TRUE]
      BY <1>5 DEF startWatchdogs, startDog, Dogs
    <3>3. "waiting" \in DogStates  BY DEF DogStates
    <3>4. CASE UNCHANGED dogVars  BY <3>1, <3>4
    <3>5. ASSUME NEW d \in Dogs, dog' = [dog EXCEPT ![i][d] = "waiting"],
                 armed' = [armed EXCEPT ![i][d] = TRUE]
          PROVE  /\ dog' \in [Jobs -> [Dogs -> DogStates]]
                 /\ armed' \in [Jobs -> [Dogs -> BOOLEAN]]
      BY <3>1, <3>3, <3>5, TableUpdate
    <3>. QED  BY <3>2, <3>4, <3>5
  <2>. QED  BY <1>5, <2>1, <2>2 DEF TypeOK, startWatchdogs, startDog
<1>6. CASE writeSync(i)
  <2>1. /\ ipc' \in [Jobs -> IPC] /\ synced' \in [Jobs -> BOOLEAN]
        /\ alive' \in BOOLEAN
    <3>1. /\ ipc' = ipc \/ ipc' = [ipc EXCEPT ![i] = "wait"]
          /\ synced' = synced \/ synced' = [synced EXCEPT ![i] = TRUE]
          /\ alive' = alive \/ alive' = FALSE
      BY <1>6 DEF writeSync
    <3>2. ipc \in [Jobs -> IPC] /\ synced \in [Jobs -> BOOLEAN] /\ alive \in BOOLEAN
      BY DEF TypeOK
    <3>3. "wait" \in IPC  BY DEF IPC
    <3>. QED  BY <3>1, <3>2, <3>3
  <2>. QED  BY <1>6, <2>1 DEF TypeOK, writeSync
<1>7. CASE resume(i)
  BY <1>7 DEF TypeOK, resume, IPC
<1>8. CASE stopWatchdogs(i)
  <2>1. ipc' \in [Jobs -> IPC]
    <3>1. \E pc \in IPC : ipc' = [ipc EXCEPT ![i] = pc]
      BY <1>8 DEF stopWatchdogs, stopDog, joinDog, IPC
    <3>. QED  BY <3>1 DEF TypeOK
  <2>2. armed' \in [Jobs -> [Dogs -> BOOLEAN]]
    <3>1. armed \in [Jobs -> [Dogs -> BOOLEAN]]
      BY DEF TypeOK
    <3>2. \/ UNCHANGED armed
          \/ \E d \in Dogs : armed' = [armed EXCEPT ![i][d] = FALSE]
      BY <1>8 DEF stopWatchdogs, stopDog, joinDog, Dogs
    <3>3. ASSUME NEW d \in Dogs, armed' = [armed EXCEPT ![i][d] = FALSE]
          PROVE  armed' \in [Jobs -> [Dogs -> BOOLEAN]]
      BY <3>1, <3>3, TableUpdate
    <3>. QED  BY <3>1, <3>2, <3>3
  <2>. QED  BY <1>8, <2>1, <2>2 DEF TypeOK, stopWatchdogs, stopDog, joinDog
<1>9. CASE limiterKill(i)
  <2>1. purgedBy' \in [Jobs -> SUBSET Jobs]
    <3>1. purgedBy \in [Jobs -> SUBSET Jobs]
      BY DEF TypeOK
    <3>2. ASSUME NEW k \in Jobs PROVE purgedBy'[k] \in SUBSET Jobs
      BY <1>9, <3>1 DEF limiterKill
    <3>3. purgedBy' = [k \in Jobs |-> purgedBy'[k]]
      BY <1>9 DEF limiterKill
    <3>. QED  BY <3>2, <3>3
  <2>2. pending' \in [Jobs -> SUBSET {"KILL", "STOP"}]
    BY <1>9, SendType DEF limiterKill
  <2>3. ipc' \in [Jobs -> IPC]
    BY <1>9 DEF TypeOK, limiterKill, IPC
  <2>. QED  BY <1>9, <2>1, <2>2, <2>3 DEF TypeOK, limiterKill
<1>10. CASE limiterRemove(i)
  <2>1. cgroups' \subseteq cgroups
    BY <1>10 DEF limiterRemove
  <2>. QED  BY <1>10, <2>1 DEF TypeOK, limiterRemove, IPC
<1>11. CASE quantumElapses(i)
  BY <1>11 DEF TypeOK, quantumElapses
<1>12. CASE waitReap(i)
  BY <1>12 DEF TypeOK, waitReap, IPC, Results, Statuses
<1>13. CASE waitStopped(i)
  BY <1>13 DEF TypeOK, waitStopped, IPC, Results
<1>14. CASE waitSendStop(i)
  BY <1>14, SendType DEF TypeOK, waitSendStop
<1>15. CASE childAdvances(i) \/ userExit(i)
  <2>1. PICK st \in Running \cup {"zombie"}, e \in Statuses \cup {"none"} : Become(i, st, e)
    BY <1>15 DEF childAdvances, childSync, childSetup, childStuck, childSetupFails,
                 childExec, userExit, Running, Grouped, Statuses
  <2>. QED  BY <2>1 DEF TypeOK, Become, childUnchanged
<1>16. CASE kernelDelivers(i)
  <2>1. /\ proc' \in [Jobs -> Running \cup {"none", "zombie", "reaped"}]
        /\ exit' \in [Jobs -> Statuses \cup {"none"}]
    <3>1. /\ proc' = proc \/ proc' = [proc EXCEPT ![i] = "zombie"]
          /\ exit' = exit \/ exit' = [exit EXCEPT ![i] = "signaled"]
      BY <1>16 DEF kernelDelivers, deliverKill, deliverStop
    <3>2. "signaled" \in Statuses  BY DEF Statuses
    <3>3. proc' \in [Jobs -> Running \cup {"none", "zombie", "reaped"}]
      BY <3>1 DEF TypeOK
    <3>4. exit' \in [Jobs -> Statuses \cup {"none"}]
      <4>1. exit \in [Jobs -> Statuses \cup {"none"}]  BY DEF TypeOK
      <4>. QED  BY <3>1, <3>2, <4>1
    <3>. QED  BY <3>3, <3>4
  <2>2. stopped' \in [Jobs -> BOOLEAN] /\ news' \in [Jobs -> BOOLEAN]
    BY <1>16 DEF TypeOK, kernelDelivers, deliverKill, deliverStop
  <2>3. pending' \in [Jobs -> SUBSET {"KILL", "STOP"}]
    <3>1. \/ pending' = [pending EXCEPT ![i] = {}]
          \/ pending' = [pending EXCEPT ![i] = pending[i] \ {"STOP"}]
      BY <1>16 DEF kernelDelivers, deliverKill, deliverStop
    <3>2. pending \in [Jobs -> SUBSET {"KILL", "STOP"}]
      BY DEF TypeOK
    <3>3. {} \in SUBSET {"KILL", "STOP"} /\ pending[i] \ {"STOP"} \in SUBSET {"KILL", "STOP"}
      BY <3>2
    <3>. QED  BY <3>1, <3>2, <3>3
  <2>. QED  BY <1>16, <2>1, <2>2, <2>3 DEF TypeOK, kernelDelivers, deliverKill, deliverStop
<1>17. ASSUME NEW d \in Dogs, dogAdvances(i, d) PROVE TypeOK'
  <2>1. PICK st \in DogStates : DogGoto(i, d, st)
    BY <1>17 DEF dogAdvances, dogStopped, dogKillGroup, dogKillPid, dogTimeout, dogPeriod,
                 dogSample, DogStates
  <2>2. dog' \in [Jobs -> [Dogs -> DogStates]]
    BY <2>1, TableUpdate DEF TypeOK, DogGoto
  <2>3. \/ UNCHANGED <<pending, hitBy>>
        \/ \E targets : DogKill(i, targets)
    BY <1>17 DEF dogAdvances, dogStopped, dogKillGroup, dogKillPid, dogTimeout, dogPeriod,
                 dogSample
  <2>4. /\ pending' \in [Jobs -> SUBSET {"KILL", "STOP"}]
        /\ hitBy' \in [Jobs -> SUBSET Jobs]
    <3>1. CASE UNCHANGED <<pending, hitBy>>
      BY <3>1 DEF TypeOK
    <3>2. ASSUME NEW targets, DogKill(i, targets)
          PROVE  /\ pending' \in [Jobs -> SUBSET {"KILL", "STOP"}]
                 /\ hitBy' \in [Jobs -> SUBSET Jobs]
      <4>1. pending' \in [Jobs -> SUBSET {"KILL", "STOP"}]
        BY <3>2, SendType DEF DogKill
      <4>2. hitBy \in [Jobs -> SUBSET Jobs]
        BY DEF TypeOK
      <4>. QED  BY <3>2, <4>1, <4>2 DEF DogKill
    <3>. QED  BY <2>3, <3>1, <3>2
  <2>. QED  BY <2>1, <2>2, <2>4 DEF TypeOK, DogGoto
<1>. QED  BY <1>1, <1>2, <1>3, <1>4, <1>5, <1>6, <1>7, <1>8, <1>9, <1>10, <1>11, <1>12,
             <1>13, <1>14, <1>15, <1>16, <1>17 DEF Step, workerAdvances

-------------------------------------------------------------------------------
(* What a step of one job is to another.                                   *)

\* The worker, the watchdogs and the child of j have not moved ...
Alike(j) ==
    /\ ipc'[j] = ipc[j] /\ result'[j] = result[j] /\ pid'[j] = pid[j]
    /\ expired'[j] = expired[j] /\ synced'[j] = synced[j]
    /\ path'[j] = path[j] /\ member'[j] = member[j]
    /\ proc'[j] = proc[j] /\ exit'[j] = exit[j]
    /\ stopped'[j] = stopped[j] /\ news'[j] = news[j]
    /\ dog'[j] = dog[j] /\ armed'[j] = armed[j]

\* ... but a watchdog or the limiter of i may have sent SIGKILL to the child.
Struck(j, i) ==
    \/ pending'[j] = pending[j] /\ hitBy'[j] = hitBy[j] /\ purgedBy'[j] = purgedBy[j]
    \/ /\ proc[j] \in Running
       /\ pending'[j] = pending[j] \cup {"KILL"}
       /\ \/ j \in Owner(pid[i]) /\ hitBy'[j] = hitBy[j] \cup {i} /\ purgedBy'[j] = purgedBy[j]
          \/ /\ "names" \in Faults /\ i # j
             /\ hitBy'[j] = hitBy[j] /\ purgedBy'[j] = purgedBy[j] \cup {i}

\* While its child is not reaped, a job's pid means that child.
LEMMA OwnPid ==
    ASSUME PidShape, NEW i \in Jobs, Unreaped(i), NEW j \in Owner(pid[i])
    PROVE  j = i
BY DEF PidShape, Unreaped, Owner

\* The effect of a signal on one job.
LEMMA SendEffect ==
    ASSUME NEW s, NEW targets, Send(s, targets), NEW j \in Jobs
    PROVE  /\ j \in targets => pending'[j] = pending[j] \cup {s}
           /\ j \notin targets => pending'[j] = pending[j]
BY DEF Send

\* A step of job i leaves the others alone but for a stray SIGKILL.
LEMMA OthersStep ==
    ASSUME TypeOK, PidShape, NEW i \in Jobs, CallShape(i), Step(i), NameShape(i),
           NEW j \in Jobs, j # i, NameShape(j)
    PROVE  Alike(j) /\ Struck(j, i)
<1> USE DEF callVars, cgroupVars, procVars, dogVars, killVars, Goto
<1>0. /\ ipc \in [Jobs -> IPC] /\ result \in [Jobs -> Results]
      /\ expired \in [Jobs -> BOOLEAN] /\ synced \in [Jobs -> BOOLEAN]
      /\ path \in [Jobs -> Jobs \cup {NoName}]
      /\ member \in [Jobs -> Jobs \cup {NoName, Refused}]
  BY DEF TypeOK
<1>a. /\ proc \in [Jobs -> Running \cup {"none", "zombie", "reaped"}]
      /\ exit \in [Jobs -> Statuses \cup {"none"}]
      /\ stopped \in [Jobs -> BOOLEAN] /\ news \in [Jobs -> BOOLEAN]
      /\ pending \in [Jobs -> SUBSET {"KILL", "STOP"}]
  BY DEF TypeOK
<1>b. dog \in [Jobs -> [Dogs -> DogStates]] /\ armed \in [Jobs -> [Dogs -> BOOLEAN]]
  BY DEF TypeOK
<1>c. pid \in [Jobs -> Pids \cup {NoPid}]
  BY DEF TypeOK
<1>1. CASE executeBegin(i) \/ launchFails(i) \/ applyToPid(i)
  BY <1>0, <1>1 DEF executeBegin, makeCgroup, launchFails, applyToPid, Alike, Struck
<1>2. CASE launch(i)
  BY <1>0, <1>a, <1>c, <1>2 DEF launch, Alike, Struck
<1>3. CASE startWatchdogs(i)
  <2>1. \/ UNCHANGED dogVars
        \/ \E d \in Dogs : /\ dog' = [dog EXCEPT ![i][d] = "waiting"]
                           /\ armed' = [armed EXCEPT ![i][d] = TRUE]
    BY <1>3 DEF startWatchdogs, startDog, Dogs
  <2>2. dog'[j] = dog[j] /\ armed'[j] = armed[j]
    BY <1>b, <2>1
  <2>. QED  BY <1>0, <1>3, <2>2 DEF startWatchdogs, startDog, Alike, Struck
<1>4. CASE writeSync(i)
  BY <1>0, <1>4 DEF writeSync, Alike, Struck
<1>5. CASE resume(i)
  <2>1. j \notin ByGroup(pid[i])
    BY <1>5, OwnPid DEF resume, CallShape, ByGroup
  <2>2. stopped'[j] = stopped[j] /\ pending'[j] = pending[j]
    BY <1>5, <1>a, <2>1 DEF resume
  <2>. QED  BY <1>0, <1>5, <2>2 DEF resume, Alike, Struck
<1>6. CASE stopWatchdogs(i)
  <2>1. \/ UNCHANGED armed
        \/ \E d \in Dogs : armed' = [armed EXCEPT ![i][d] = FALSE]
    BY <1>6 DEF stopWatchdogs, stopDog, joinDog, Dogs
  <2>2. armed'[j] = armed[j]
    BY <1>b, <2>1
  <2>. QED  BY <1>0, <1>6, <2>2 DEF stopWatchdogs, stopDog, joinDog, Alike, Struck
<1>7. CASE limiterKill(i)
  <2>1. Alike(j) /\ hitBy'[j] = hitBy[j]
    BY <1>0, <1>7 DEF limiterKill, Alike
  <2>2. CASE j \notin Members(path[i])
    <3>1. pending'[j] = pending[j] /\ purgedBy'[j] = purgedBy[j]
      BY <1>7, <2>2, SendEffect DEF limiterKill
    <3>. QED  BY <2>1, <3>1 DEF Struck
  <2>3. CASE j \in Members(path[i])
    <3>1. pending'[j] = pending[j] \cup {"KILL"} /\ purgedBy'[j] = purgedBy[j] \cup {i}
      BY <1>7, <2>3, SendEffect DEF limiterKill
    <3>2. proc[j] \in Running /\ member[j] = path[i] /\ path[i] \in Jobs
      BY <2>3 DEF Members, TypeOK
    <3>3. "names" \in Faults
      BY <3>2, IsolatorAssumption DEF NameShape
    <3>. QED  BY <2>1, <3>1, <3>2, <3>3 DEF Struck
  <2>. QED  BY <2>2, <2>3
<1>8. CASE limiterRemove(i) \/ quantumElapses(i)
  BY <1>0, <1>8 DEF limiterRemove, quantumElapses, Alike, Struck
<1>9. CASE waitReap(i) \/ waitStopped(i)
  BY <1>0, <1>a, <1>9 DEF waitReap, waitStopped, Alike, Struck
<1>10. CASE waitSendStop(i)
  <2>1. j \notin ByGroup(pid[i])
    BY <1>10, OwnPid DEF waitSendStop, CallShape, ByGroup
  <2>2. pending'[j] = pending[j]
    BY <1>10, <2>1, SendEffect DEF waitSendStop
  <2>. QED  BY <1>10, <2>2 DEF waitSendStop, Alike, Struck
<1>11. CASE childAdvances(i) \/ userExit(i)
  <2>1. PICK st, e : Become(i, st, e)
    BY <1>11 DEF childAdvances, childSync, childSetup, childStuck, childSetupFails,
                 childExec, userExit
  <2>. QED  BY <1>a, <2>1 DEF Become, childUnchanged, Alike, Struck
<1>12. CASE kernelDelivers(i)
  BY <1>a, <1>12 DEF kernelDelivers, deliverKill, deliverStop, Alike, Struck
<1>13. ASSUME NEW d \in Dogs, dogAdvances(i, d) PROVE Alike(j) /\ Struck(j, i)
  <2>1. PICK st : DogGoto(i, d, st)
    BY <1>13 DEF dogAdvances, dogStopped, dogKillGroup, dogKillPid, dogTimeout, dogPeriod,
                 dogSample
  <2>2. Alike(j) /\ purgedBy' = purgedBy
    BY <1>b, <2>1 DEF DogGoto, Alike
  <2>3. \/ UNCHANGED <<pending, hitBy>>
        \/ DogKill(i, ByGroup(pid[i])) \/ DogKill(i, ByPid(pid[i]))
    BY <1>13 DEF dogAdvances, dogStopped, dogKillGroup, dogKillPid, dogTimeout, dogPeriod,
                 dogSample
  <2>4. ASSUME NEW targets \in {ByGroup(pid[i]), ByPid(pid[i])}, DogKill(i, targets)
        PROVE  Struck(j, i)
    <3>1. j \in targets => j \in Owner(pid[i]) /\ proc[j] \in Running
      BY DEF ByGroup, ByPid, Running, Grouped
    <3>2. /\ j \in targets => pending'[j] = pending[j] \cup {"KILL"}
          /\ j \notin targets => pending'[j] = pending[j]
      BY <2>4, SendEffect DEF DogKill
    <3>3. /\ j \in targets => hitBy'[j] = hitBy[j] \cup {i}
          /\ j \notin targets => hitBy'[j] = hitBy[j]
      BY <2>4 DEF DogKill
    <3>. QED  BY <2>2, <3>1, <3>2, <3>3 DEF Struck
  <2>5. CASE UNCHANGED <<pending, hitBy>>
    BY <2>2, <2>5 DEF Struck
  <2>6. CASE DogKill(i, ByGroup(pid[i]))  BY <2>2, <2>4, <2>6
  <2>7. CASE DogKill(i, ByPid(pid[i]))  BY <2>2, <2>4, <2>7
  <2>. QED  BY <2>2, <2>3, <2>5, <2>6, <2>7
<1>. QED  BY <1>1, <1>2, <1>3, <1>4, <1>5, <1>6, <1>7, <1>8, <1>9, <1>10, <1>11, <1>12,
             <1>13 DEF Step, workerAdvances

\* What holds of a job outlasts the others' steps.
LEMMA OthersKeep ==
    ASSUME NEW i \in Jobs, NEW j \in Jobs, JobShape(j), Alike(j), Struck(j, i)
    PROVE  JobShape(j)'
<1>1. CallShape(j)'
  BY DEF JobShape, CallShape, Alike, Unreaped
<1>2. KillShape(j)'
  BY DEF JobShape, KillShape, Killed, Alike, Struck, Running, Grouped
<1>3. StopShape(j)'
  BY DEF JobShape, StopShape, Alike, Struck
<1>4. DogShape(j)'
  BY DEF JobShape, DogShape, Alike, Active
<1>5. GuardShape(j)'
  BY DEF JobShape, GuardShape, Alike
<1>. QED  BY <1>1, <1>2, <1>3, <1>4, <1>5 DEF JobShape

-------------------------------------------------------------------------------
(* What a step is to its own job: first the new values, then the shapes.   *)

\* The worker calls the factories, then starts a child or finds the one it has.
LEMMA OwnBegin ==
    ASSUME TypeOK, NEW i \in Jobs, JobShape(i), executeBegin(i)
    PROVE  JobShape(i)'
<1>1. /\ ipc[i] = "idle" /\ result[i] \in {"none", "preempted"}
      /\ ipc'[i] = IF pid[i] = NoPid THEN "clone" ELSE "cont"
      /\ result'[i] = "none"
  BY DEF TypeOK, executeBegin, Goto
<1>3. UNCHANGED <<pid, expired, synced, procVars, dogVars, killVars>>
  BY DEF executeBegin
<1>4. CallShape(i)'
  BY <1>1, <1>3 DEF JobShape, CallShape, Unreaped, procVars, Returning, Stopping, Watching,
                    Finals, Statuses
<1>5. KillShape(i)'
  BY <1>1, <1>3 DEF JobShape, KillShape, Killed, killVars, CallShape, procVars, Launching,
                    Running, Grouped
<1>6. StopShape(i)'
  BY <1>1, <1>3 DEF JobShape, StopShape, CallShape, procVars, Running, Grouped
<1>7. DogShape(i)'
  BY <1>1, <1>3 DEF JobShape, DogShape, dogVars, Active
<1>8. GuardShape(i)'
  BY <1>1, <1>3 DEF JobShape, GuardShape, dogVars
<1>. QED  BY <1>4, <1>5, <1>6, <1>7, <1>8 DEF JobShape

\* clone() fails, or makes a child that waits for the sync byte.
LEMMA OwnLaunch ==
    ASSUME TypeOK, NEW i \in Jobs, JobShape(i), launchFails(i) \/ launch(i)
    PROVE  JobShape(i)'
<1>1. CASE launchFails(i)
  <2>1. /\ ipc[i] = "clone" /\ ipc'[i] = "stop_timeout" /\ result'[i] = "error"
        /\ UNCHANGED <<pid, expired, synced, cgroupVars, procVars, dogVars, killVars>>
    BY <1>1 DEF TypeOK, launchFails, Goto
  <2>2. proc[i] = "none"
    BY <2>1 DEF JobShape, CallShape
  <2>3. CallShape(i)'
    BY <2>1, <2>2 DEF JobShape, CallShape, Unreaped, procVars, Watching, Finals, cgroupVars
  <2>4. KillShape(i)' /\ StopShape(i)'
    BY <2>1, <2>2 DEF JobShape, KillShape, Killed, killVars, StopShape, procVars, Launching,
                      Running, Grouped
  <2>5. DogShape(i)'
    BY <2>1 DEF JobShape, DogShape, dogVars, Active
  <2>6. GuardShape(i)'
    BY <2>1, <2>2 DEF JobShape, GuardShape, dogVars, procVars, cgroupVars, Watching,
                      Running, Grouped
  <2>. QED  BY <2>3, <2>4, <2>5, <2>6 DEF JobShape
<1>2. CASE launch(i)
  <2>1. /\ ipc[i] = "clone" /\ ipc'[i] = "limit" /\ proc'[i] = "blocked"
        /\ pid'[i] \in Pids
    BY <1>2 DEF TypeOK, launch, Goto
  <2>2. UNCHANGED <<result, expired, synced, cgroupVars, exit, stopped, news, pending,
                    dogVars, killVars>>
    BY <1>2 DEF launch
  <2>3. proc[i] = "none" /\ pid'[i] # NoPid
    BY <2>1, IsolatorAssumption DEF JobShape, CallShape
  <2>4. CallShape(i)'
    BY <2>1, <2>2, <2>3 DEF JobShape, CallShape, Unreaped, Watching, Returning, Stopping
  <2>5. KillShape(i)' /\ StopShape(i)'
    BY <2>1, <2>2, <2>3 DEF JobShape, KillShape, Killed, killVars, StopShape, Launching,
                            Running, Grouped,
                            Returning, Stopping
  <2>6. DogShape(i)'
    BY <2>1, <2>2 DEF JobShape, DogShape, dogVars, Active
  <2>7. GuardShape(i)'
    BY <2>1, <2>2, <2>3 DEF JobShape, GuardShape, KillShape, dogVars, cgroupVars, Watching
  <2>. QED  BY <2>4, <2>5, <2>6, <2>7 DEF JobShape
<1>. QED  BY <1>1, <1>2

\* The child becomes a member of the cgroup.
LEMMA OwnApply ==
    ASSUME TypeOK, NEW i \in Jobs, JobShape(i), applyToPid(i)
    PROVE  JobShape(i)'
<1>1. /\ ipc[i] = "limit" /\ ipc'[i] = "watch_timeout"
      /\ UNCHANGED <<result, pid, expired, synced, path, procVars, dogVars, killVars>>
  BY DEF TypeOK, applyToPid, Goto
<1>2. CallShape(i)'
  BY <1>1 DEF JobShape, CallShape, Unreaped, procVars, Watching, Returning, Stopping
<1>3. KillShape(i)' /\ StopShape(i)'
  BY <1>1 DEF JobShape, KillShape, Killed, killVars, StopShape, procVars, Launching,
              Returning, Stopping
<1>4. DogShape(i)'
  BY <1>1 DEF JobShape, DogShape, dogVars, Active
<1>5. GuardShape(i)'
  BY <1>1 DEF JobShape, GuardShape, KillShape, dogVars, procVars, Launching, Watching
<1>. QED  BY <1>2, <1>3, <1>4, <1>5 DEF JobShape

\* A watchdog thread is started.
LEMMA OwnStart ==
    ASSUME TypeOK, NEW i \in Jobs, JobShape(i), startWatchdogs(i)
    PROVE  JobShape(i)'
<1>1. PICK d \in Dogs : startDog(i, d, IF d = "timeout" THEN "watch_timeout" ELSE "watch_anomaly",
                                       IF d = "timeout" THEN "watch_anomaly" ELSE "sync")
  BY DEF startWatchdogs, Dogs
<1>2. /\ ipc[i] = IF d = "timeout" THEN "watch_timeout" ELSE "watch_anomaly"
      /\ ipc'[i] = IF d = "timeout" THEN "watch_anomaly" ELSE "sync"
  BY <1>1 DEF TypeOK, startDog, Goto
<1>3. UNCHANGED <<result, pid, expired, synced, cgroupVars, procVars, killVars>>
  BY <1>1 DEF startDog
<1>4. /\ UseWatchdogs => dog'[i][d] = "waiting" /\ armed'[i][d] = TRUE
      /\ ~UseWatchdogs => dog'[i][d] = dog[i][d] /\ armed'[i][d] = armed[i][d]
      /\ \A e \in Dogs : e # d => dog'[i][e] = dog[i][e] /\ armed'[i][e] = armed[i][e]
  <2>1. dog \in [Jobs -> [Dogs -> DogStates]] /\ armed \in [Jobs -> [Dogs -> BOOLEAN]]
    BY DEF TypeOK
  <2>2. "waiting" \in DogStates  BY DEF DogStates
  <2>3. CASE UseWatchdogs
    BY <1>1, <2>1, <2>2, <2>3, TableUpdate DEF startDog
  <2>4. CASE ~UseWatchdogs
    BY <1>1, <2>4 DEF startDog, dogVars
  <2>. QED  BY <2>3, <2>4
<1>5. d = "timeout" \/ d = "anomaly"  BY DEF Dogs
<1>6. CallShape(i)'
  BY <1>2, <1>3, <1>5 DEF JobShape, CallShape, Unreaped, procVars, cgroupVars, Watching,
                          Returning, Stopping
<1>7. KillShape(i)' /\ StopShape(i)'
  BY <1>2, <1>3, <1>5 DEF JobShape, KillShape, Killed, killVars, StopShape, procVars,
                          Launching, Returning,
                          Stopping
<1>8. DogShape(i)'
  BY <1>2, <1>4, <1>5 DEF JobShape, DogShape, Active, Dogs
<1>9. GuardShape(i)'
  <2>1. ~synced[i]
    BY <1>2, <1>5 DEF JobShape, KillShape, Killed, killVars, Launching
  <2>. QED  BY <1>2, <1>3, <1>4, <1>5, <2>1
            DEF JobShape, GuardShape, procVars, cgroupVars, Watching, Dogs
<1>. QED  BY <1>6, <1>7, <1>8, <1>9 DEF JobShape

\* The sync byte is written, or SIGPIPE ends the engine.
LEMMA OwnSync ==
    ASSUME TypeOK, NEW i \in Jobs, JobShape(i), writeSync(i)
    PROVE  JobShape(i)'
<1>1. /\ ipc[i] = "sync"
      /\ \/ ipc'[i] = "wait" /\ synced'[i] = TRUE
         \/ ipc'[i] = ipc[i] /\ synced'[i] = synced[i]
      /\ UNCHANGED <<result, pid, expired, cgroupVars, procVars, dogVars, killVars>>
  BY DEF TypeOK, writeSync, Goto
<1>2. CallShape(i)'
  BY <1>1 DEF JobShape, CallShape, Unreaped, procVars, cgroupVars, Watching, Returning,
              Stopping
<1>3. KillShape(i)' /\ StopShape(i)'
  BY <1>1 DEF JobShape, KillShape, Killed, killVars, StopShape, CallShape, procVars,
              Launching, Watching,
              Returning, Stopping
<1>4. DogShape(i)'
  BY <1>1 DEF JobShape, DogShape, dogVars, Active
<1>5. GuardShape(i)'
  BY <1>1 DEF JobShape, GuardShape, dogVars, procVars, cgroupVars, Watching
<1>. QED  BY <1>2, <1>3, <1>4, <1>5 DEF JobShape

\* SIGCONT to the child's group undoes the stop.
LEMMA OwnResume ==
    ASSUME TypeOK, NEW i \in Jobs, JobShape(i), resume(i)
    PROVE  JobShape(i)'
<1>1. /\ ipc[i] = "cont" /\ ipc'[i] = "wait" /\ expired'[i] = FALSE
      /\ UNCHANGED <<result, pid, synced, cgroupVars, proc, exit, news, dogVars, killVars>>
  BY DEF TypeOK, resume, Goto
<1>2. i \in ByGroup(pid[i]) <=> proc[i] \in Grouped
  BY DEF ByGroup, Owner, Grouped
<1>3. /\ stopped'[i] = (stopped[i] /\ proc[i] \notin Grouped)
      /\ pending'[i] = IF proc[i] \in Grouped THEN pending[i] \ {"STOP"} ELSE pending[i]
  BY <1>2 DEF resume
<1>4. CallShape(i)'
  BY <1>1 DEF JobShape, CallShape, Unreaped, cgroupVars, Watching, Returning, Stopping
<1>5. KillShape(i)'
  BY <1>1, <1>3 DEF JobShape, KillShape, Killed, killVars, CallShape, Unreaped, Launching
<1>6. StopShape(i)'
  BY <1>1, <1>3 DEF JobShape, StopShape, Returning, Stopping, Grouped, Running
<1>7. DogShape(i)'
  BY <1>1 DEF JobShape, DogShape, dogVars, Active
<1>8. GuardShape(i)'
  BY <1>1 DEF JobShape, GuardShape, dogVars, cgroupVars, Watching
<1>. QED  BY <1>4, <1>5, <1>6, <1>7, <1>8 DEF JobShape

\* A watchdog is told to stop and joined; nothing else of the job changes.
LEMMA OwnStop ==
    ASSUME TypeOK, NEW i \in Jobs, JobShape(i), stopWatchdogs(i)
    PROVE  JobShape(i)'
<1>1. /\ UNCHANGED <<result, pid, expired, synced, cgroupVars, procVars, dog, killVars>>
      /\ ipc[i] \in Stopping /\ ipc'[i] \in Stopping \cup {"limiter_kill"}
  BY DEF TypeOK, stopWatchdogs, stopDog, joinDog, Goto, Stopping, dogVars
<1>2. CallShape(i)'
  BY <1>1 DEF JobShape, CallShape, Unreaped, procVars, cgroupVars, Watching, Returning,
              Stopping
<1>3. KillShape(i)' /\ StopShape(i)'
  BY <1>1 DEF JobShape, KillShape, Killed, killVars, StopShape, CallShape, procVars,
              Launching, Returning,
              Stopping
<1>4. armed \in [Jobs -> [Dogs -> BOOLEAN]] /\ ipc \in [Jobs -> IPC]
  BY DEF TypeOK
<1>5. DogShape(i)'
  <2>1. CASE stopDog(i, "timeout", "stop_timeout", "join_timeout", "stop_anomaly")
    <3>1. CASE armed[i]["timeout"]
      <4>1. /\ armed'[i]["timeout"] = FALSE /\ armed'[i]["anomaly"] = armed[i]["anomaly"]
            /\ ipc[i] = "stop_timeout" /\ ipc'[i] = "join_timeout"
        BY <1>4, <2>1, <3>1 DEF stopDog, Goto, Dogs
      <4>. QED  BY <1>1, <4>1 DEF JobShape, DogShape, Active, Dogs
    <3>2. CASE ~armed[i]["timeout"]
      <4>1. armed' = armed /\ ipc[i] = "stop_timeout" /\ ipc'[i] = "stop_anomaly"
        BY <1>4, <2>1, <3>2 DEF stopDog, Goto
      <4>. QED  BY <1>1, <3>2, <4>1 DEF JobShape, DogShape, Active, Dogs
    <3>. QED  BY <3>1, <3>2
  <2>2. CASE joinDog(i, "timeout", "join_timeout", "stop_anomaly")
    <3>1. /\ armed' = armed /\ ipc[i] = "join_timeout" /\ ipc'[i] = "stop_anomaly"
          /\ dog[i]["timeout"] = "finished"
      BY <1>4, <2>2 DEF joinDog, Goto, dogVars
    <3>. QED  BY <1>1, <3>1 DEF JobShape, DogShape, Active, Dogs
  <2>3. CASE stopDog(i, "anomaly", "stop_anomaly", "join_anomaly", "limiter_kill")
    <3>1. CASE armed[i]["anomaly"]
      <4>1. /\ armed'[i]["anomaly"] = FALSE /\ armed'[i]["timeout"] = armed[i]["timeout"]
            /\ ipc[i] = "stop_anomaly" /\ ipc'[i] = "join_anomaly"
        BY <1>4, <2>3, <3>1 DEF stopDog, Goto, Dogs
      <4>. QED  BY <1>1, <4>1 DEF JobShape, DogShape, Active, Dogs
    <3>2. CASE ~armed[i]["anomaly"]
      <4>1. armed' = armed /\ ipc[i] = "stop_anomaly" /\ ipc'[i] = "limiter_kill"
        BY <1>4, <2>3, <3>2 DEF stopDog, Goto
      <4>. QED  BY <1>1, <3>2, <4>1 DEF JobShape, DogShape, Active, Dogs
    <3>. QED  BY <3>1, <3>2
  <2>4. CASE joinDog(i, "anomaly", "join_anomaly", "limiter_kill")
    <3>1. /\ armed' = armed /\ ipc[i] = "join_anomaly" /\ ipc'[i] = "limiter_kill"
          /\ dog[i]["anomaly"] = "finished"
      BY <1>4, <2>4 DEF joinDog, Goto, dogVars
    <3>. QED  BY <1>1, <3>1 DEF JobShape, DogShape, Active, Dogs
  <2>. QED  BY <2>1, <2>2, <2>3, <2>4 DEF stopWatchdogs
<1>6. GuardShape(i)'
  BY <1>1 DEF JobShape, GuardShape, procVars, cgroupVars, Watching, Stopping
<1>. QED  BY <1>2, <1>3, <1>5, <1>6 DEF JobShape

\* ~CgroupV2Limiter.
LEMMA OwnLimiter ==
    ASSUME TypeOK, NEW i \in Jobs, JobShape(i), limiterKill(i) \/ limiterRemove(i)
    PROVE  JobShape(i)'
<1>1. /\ ipc[i] \in {"limiter_kill", "limiter_remove"}
      /\ ipc'[i] \in {"limiter_remove", "idle"}
      /\ UNCHANGED <<result, pid, expired, synced, proc, exit, stopped, news, dogVars, hitBy>>
  BY DEF TypeOK, limiterKill, limiterRemove, Goto, procVars, killVars
<1>2. \/ pending'[i] = pending[i]
      \/ proc[i] \in Running /\ pending'[i] = pending[i] \cup {"KILL"}
  <2>1. CASE limiterKill(i)
    BY <2>1, SendEffect DEF limiterKill, Members
  <2>2. CASE limiterRemove(i)
    BY <2>2 DEF limiterRemove, procVars
  <2>. QED  BY <2>1, <2>2
<1>4. CallShape(i)'
  BY <1>1 DEF JobShape, CallShape, Unreaped, Watching, Returning, Stopping, Running, Grouped
<1>5. KillShape(i)' /\ StopShape(i)'
  BY <1>1, <1>2 DEF JobShape, KillShape, Killed, killVars, StopShape, CallShape, Launching,
                    Returning,
                    Stopping, Running
<1>6. DogShape(i)'
  BY <1>1 DEF JobShape, DogShape, dogVars, Active
<1>7. GuardShape(i)'
  BY <1>1 DEF JobShape, GuardShape, dogVars
<1>. QED  BY <1>4, <1>5, <1>6, <1>7 DEF JobShape

\* The polling loop: time passes, the child's end or stop is reported, SIGSTOP is sent.
LEMMA OwnWait ==
    ASSUME TypeOK, NEW i \in Jobs, JobShape(i),
           quantumElapses(i) \/ waitReap(i) \/ waitStopped(i) \/ waitSendStop(i)
    PROVE  JobShape(i)'
<1>1. CASE quantumElapses(i)
  <2>1. /\ ipc[i] = "wait" /\ expired'[i] = TRUE
        /\ UNCHANGED <<ipc, result, pid, synced, cgroupVars, procVars, dogVars, killVars>>
    BY <1>1 DEF TypeOK, quantumElapses
  <2>2. CallShape(i)'
    BY <2>1 DEF JobShape, CallShape, Unreaped, procVars, cgroupVars
  <2>3. KillShape(i)' /\ StopShape(i)'
    BY <2>1 DEF JobShape, KillShape, Killed, killVars, StopShape, procVars
  <2>4. DogShape(i)' /\ GuardShape(i)'
    BY <2>1 DEF JobShape, DogShape, GuardShape, dogVars, procVars, cgroupVars, Active
  <2>. QED  BY <2>2, <2>3, <2>4 DEF JobShape
<1>2. CASE waitReap(i)
  <2>1. /\ ipc[i] = "wait" /\ ipc'[i] = "stop_timeout"
        /\ proc[i] = "zombie" /\ proc'[i] = "reaped" /\ result'[i] = exit[i]
        /\ UNCHANGED <<pid, expired, synced, cgroupVars, exit, stopped, news, pending,
                       dogVars, killVars>>
    BY <1>2 DEF TypeOK, waitReap, Goto
  <2>2. exit[i] \in Statuses
    BY <2>1 DEF JobShape, CallShape
  <2>3. CallShape(i)'
    BY <2>1, <2>2 DEF JobShape, CallShape, Unreaped, Watching, Returning, Stopping, Finals,
                      Statuses
  <2>4. KillShape(i)' /\ StopShape(i)'
    BY <2>1 DEF JobShape, KillShape, Killed, killVars, StopShape, Launching, Running, Grouped
  <2>5. DogShape(i)' /\ GuardShape(i)'
    BY <2>1 DEF JobShape, DogShape, GuardShape, dogVars, cgroupVars, Active, Running, Grouped
  <2>. QED  BY <2>3, <2>4, <2>5 DEF JobShape
<1>3. CASE waitStopped(i)
  <2>1. /\ ipc[i] = "wait" /\ ipc'[i] = "stop_timeout" /\ i \in Quantum
        /\ proc[i] \in Running /\ news[i] /\ news'[i] = FALSE /\ result'[i] = "preempted"
        /\ UNCHANGED <<pid, expired, synced, cgroupVars, proc, exit, stopped, pending,
                       dogVars, killVars>>
    BY <1>3 DEF TypeOK, waitStopped, Goto
  <2>2. CallShape(i)'
    BY <2>1 DEF JobShape, CallShape, Unreaped, Watching, Returning, Stopping, Running, Grouped
  <2>3. KillShape(i)' /\ StopShape(i)'
    BY <2>1 DEF JobShape, KillShape, Killed, killVars, StopShape, Launching, Running, Grouped
  <2>4. DogShape(i)' /\ GuardShape(i)'
    BY <2>1 DEF JobShape, DogShape, GuardShape, dogVars, cgroupVars, Active, Watching
  <2>. QED  BY <2>2, <2>3, <2>4 DEF JobShape
<1>4. CASE waitSendStop(i)
  <2>1. /\ ipc[i] = "wait" /\ expired[i]
        /\ UNCHANGED <<callVars, cgroupVars, proc, exit, stopped, news, dogVars, killVars>>
    BY <1>4 DEF waitSendStop
  <2>2. \/ pending'[i] = pending[i]
        \/ proc[i] \in Grouped /\ pending'[i] = pending[i] \cup {"STOP"}
    BY <1>4, SendEffect DEF waitSendStop, ByGroup
  <2>3. CallShape(i)'
    BY <2>1 DEF JobShape, CallShape, Unreaped, callVars, cgroupVars
  <2>4. KillShape(i)' /\ StopShape(i)'
    BY <2>1, <2>2 DEF JobShape, KillShape, Killed, killVars, StopShape, CallShape, Unreaped,
                      callVars, Launching,
                      Returning, Stopping
  <2>5. DogShape(i)' /\ GuardShape(i)'
    BY <2>1 DEF JobShape, DogShape, GuardShape, dogVars, callVars, cgroupVars, Active
  <2>. QED  BY <2>3, <2>4, <2>5 DEF JobShape
<1>. QED  BY <1>1, <1>2, <1>3, <1>4

\* The child passes the sync pipe when its byte is written, and ends when it runs.
LEMMA OwnChild ==
    ASSUME TypeOK, NEW i \in Jobs, JobShape(i), childAdvances(i) \/ userExit(i)
    PROVE  JobShape(i)'
<1>1. PICK st \in {"setup", "stuck", "group", "stuck_group", "user", "zombie"},
           e \in Statuses \cup {"none"} :
         /\ Become(i, st, e)
         /\ proc[i] \in Running /\ ~stopped[i]
         /\ proc[i] = "blocked" => synced[i]
         /\ st = "zombie" => e \in Statuses
         /\ proc[i] \in Grouped => st \in Grouped \cup {"zombie"}
  BY DEF childAdvances, childSync, childSetup, childStuck, childSetupFails, childExec,
         userExit, Runs, Running, Grouped, Statuses
<1>2. /\ proc'[i] = st /\ exit'[i] = e
      /\ UNCHANGED childUnchanged
  BY <1>1 DEF TypeOK, Become
<1>3. synced[i] /\ ipc[i] \notin Launching
  BY <1>1 DEF JobShape, KillShape, Killed, killVars, Running, Grouped
<1>4. CallShape(i)'
  BY <1>1, <1>2, <1>3 DEF JobShape, CallShape, Unreaped, childUnchanged, callVars, cgroupVars,
                          Launching, Watching, Running, Grouped
<1>5. KillShape(i)'
  BY <1>1, <1>2, <1>3 DEF JobShape, KillShape, Killed, killVars, childUnchanged, callVars,
                          Running, Grouped
<1>6. StopShape(i)'
  BY <1>1, <1>2, <1>3 DEF JobShape, StopShape, childUnchanged, callVars, Running, Grouped
<1>7. DogShape(i)'
  BY <1>2 DEF JobShape, DogShape, childUnchanged, callVars, dogVars, Active
<1>8. GuardShape(i)'
  BY <1>1, <1>2, <1>3 DEF JobShape, GuardShape, childUnchanged, callVars, cgroupVars, dogVars
<1>. QED  BY <1>4, <1>5, <1>6, <1>7, <1>8 DEF JobShape

\* The kernel ends or stops the child.
LEMMA OwnDeliver ==
    ASSUME TypeOK, NEW i \in Jobs, JobShape(i), kernelDelivers(i)
    PROVE  JobShape(i)'
<1>1. CASE deliverKill(i)
  <2>1. /\ proc[i] \in Running /\ "KILL" \in pending[i]
        /\ proc'[i] = "zombie" /\ exit'[i] = "signaled"
        /\ stopped'[i] = FALSE /\ news'[i] = FALSE /\ pending'[i] = {}
        /\ UNCHANGED <<callVars, cgroupVars, dogVars, killVars>>
    BY <1>1 DEF TypeOK, deliverKill
  <2>2. CallShape(i)'
    BY <2>1 DEF JobShape, CallShape, Unreaped, callVars, cgroupVars, Running, Grouped, Statuses
  <2>3. KillShape(i)' /\ StopShape(i)'
    BY <2>1 DEF JobShape, KillShape, Killed, killVars, StopShape, callVars, Running, Grouped
  <2>4. DogShape(i)' /\ GuardShape(i)'
    BY <2>1 DEF JobShape, DogShape, GuardShape, dogVars, callVars, cgroupVars, Active,
                Running, Grouped
  <2>. QED  BY <2>2, <2>3, <2>4 DEF JobShape
<1>2. CASE deliverStop(i)
  <2>1. /\ proc[i] \in Running /\ ~stopped[i] /\ "STOP" \in pending[i]
        /\ stopped'[i] = TRUE /\ news'[i] = TRUE /\ pending'[i] = pending[i] \ {"STOP"}
        /\ UNCHANGED <<callVars, cgroupVars, proc, exit, dogVars, killVars>>
    BY <1>2 DEF TypeOK, deliverStop
  <2>2. CallShape(i)'
    BY <2>1 DEF JobShape, CallShape, Unreaped, callVars, cgroupVars
  <2>3. KillShape(i)' /\ StopShape(i)'
    BY <2>1 DEF JobShape, KillShape, Killed, killVars, StopShape, callVars, Running, Grouped
  <2>4. DogShape(i)' /\ GuardShape(i)'
    BY <2>1 DEF JobShape, DogShape, GuardShape, dogVars, callVars, cgroupVars, Active
  <2>. QED  BY <2>2, <2>3, <2>4 DEF JobShape
<1>. QED  BY <1>1, <1>2 DEF kernelDelivers

\* A watchdog thread advances, and may send SIGKILL to its own child.
LEMMA OwnDog ==
    ASSUME TypeOK, NEW i \in Jobs, JobShape(i), NEW d \in Dogs, dogAdvances(i, d)
    PROVE  JobShape(i)'
<1>1. PICK st \in DogStates \ {"none"} : /\ DogGoto(i, d, st)
                                        /\ Active(i, d)
  BY DEF dogAdvances, dogStopped, dogKillGroup, dogKillPid, dogTimeout, dogPeriod, dogSample,
         DogStates, Active
<1>2. UNCHANGED <<callVars, cgroupVars, proc, exit, stopped, news, armed, purgedBy>>
  BY <1>1 DEF DogGoto
<1>3. dog'[i][d] = st /\ \A e \in Dogs : e # d => dog'[i][e] = dog[i][e]
  BY <1>1, TableUpdate DEF TypeOK, DogGoto
<1>4. \/ pending'[i] = pending[i] /\ hitBy'[i] = hitBy[i]
      \/ /\ proc[i] \in Running
         /\ pending'[i] = pending[i] \cup {"KILL"} /\ hitBy'[i] = hitBy[i] \cup {i}
  <2>1. \/ UNCHANGED <<pending, hitBy>>
        \/ \E targets \in {ByGroup(pid[i]), ByPid(pid[i])} : DogKill(i, targets)
    BY DEF dogAdvances, dogStopped, dogKillGroup, dogKillPid, dogTimeout, dogPeriod, dogSample
  <2>2. ASSUME NEW targets \in {ByGroup(pid[i]), ByPid(pid[i])}, DogKill(i, targets)
        PROVE  \/ pending'[i] = pending[i] /\ hitBy'[i] = hitBy[i]
               \/ /\ proc[i] \in Running
                  /\ pending'[i] = pending[i] \cup {"KILL"} /\ hitBy'[i] = hitBy[i] \cup {i}
    <3>1. i \in targets => proc[i] \in Running
      BY DEF ByGroup, ByPid, Running, Grouped
    <3>2. /\ i \in targets => pending'[i] = pending[i] \cup {"KILL"}
          /\ i \notin targets => pending'[i] = pending[i]
      BY <2>2, SendEffect DEF DogKill
    <3>3. /\ i \in targets => hitBy'[i] = hitBy[i] \cup {i}
          /\ i \notin targets => hitBy'[i] = hitBy[i]
      BY <2>2 DEF DogKill
    <3>. QED  BY <3>1, <3>2, <3>3
  <2>. QED  BY <2>1, <2>2
<1>5. CallShape(i)'
  BY <1>2 DEF JobShape, CallShape, Unreaped, callVars, cgroupVars
<1>6. KillShape(i)' /\ StopShape(i)'
  BY <1>2, <1>4 DEF JobShape, KillShape, Killed, killVars, StopShape, callVars, Running,
                    Grouped
<1>7. DogShape(i)'
  BY <1>1, <1>2, <1>3 DEF JobShape, DogShape, callVars, Active, Dogs
<1>8. GuardShape(i)'
  BY <1>1, <1>2, <1>3 DEF JobShape, GuardShape, callVars, cgroupVars, Dogs
<1>. QED  BY <1>5, <1>6, <1>7, <1>8 DEF JobShape

-------------------------------------------------------------------------------
(* The invariant is inductive.                                             *)

\* Every step keeps what holds of its own job.
LEMMA OwnStep ==
    ASSUME TypeOK, NEW i \in Jobs, JobShape(i), Step(i)
    PROVE  JobShape(i)'
BY OwnBegin, OwnLaunch, OwnApply, OwnStart, OwnSync, OwnResume, OwnStop, OwnLimiter, OwnWait,
   OwnChild, OwnDeliver, OwnDog DEF Step, workerAdvances

\* Only clone() assigns Job::pid, and no child comes back from the dead.
LEMMA PidSteps ==
    ASSUME TypeOK, NEW i \in Jobs, Step(i)
    PROVE  launch(i) \/ (pid' = pid /\ (Unreaped(i)' => Unreaped(i)))
<1> USE DEF callVars, cgroupVars, procVars, Unreaped
<1>1. CASE executeBegin(i) \/ launchFails(i) \/ applyToPid(i) \/ startWatchdogs(i)
           \/ writeSync(i) \/ resume(i)
  BY <1>1 DEF executeBegin, launchFails, applyToPid, startWatchdogs, startDog, writeSync,
              resume
<1>2. CASE stopWatchdogs(i) \/ limiterKill(i) \/ limiterRemove(i) \/ quantumElapses(i)
           \/ waitStopped(i) \/ waitSendStop(i)
  BY <1>2 DEF stopWatchdogs, stopDog, joinDog, limiterKill, limiterRemove, quantumElapses,
              waitStopped, waitSendStop
<1>3. CASE waitReap(i)
  BY <1>3 DEF waitReap, TypeOK
<1>4. CASE childAdvances(i) \/ userExit(i)
  BY <1>4 DEF childAdvances, childSync, childSetup, childStuck, childSetupFails, childExec,
              userExit, Runs, Become, childUnchanged
<1>5. CASE kernelDelivers(i)
  BY <1>5 DEF kernelDelivers, deliverKill, deliverStop, Running, Grouped
<1>6. ASSUME NEW d \in Dogs, dogAdvances(i, d) PROVE pid' = pid /\ proc' = proc
  BY <1>6 DEF dogAdvances, dogStopped, dogKillGroup, dogKillPid, dogTimeout, dogPeriod,
              dogSample, DogGoto
<1>. QED  BY <1>1, <1>2, <1>3, <1>4, <1>5, <1>6 DEF Step, workerAdvances

\* clone() returns a process id that no unreaped child has.
LEMMA PidNext ==
    ASSUME TypeOK, PidShape, NEW i \in Jobs, CallShape(i), Step(i),
           \A j \in Jobs : NameShape(j)
    PROVE  PidShape'
<1> SUFFICES ASSUME NEW j \in Jobs, NEW k \in Jobs, j # k,
                    Unreaped(j)', Unreaped(k)', pid'[j] = pid'[k]
             PROVE  FALSE
  BY DEF PidShape
<1>1. \A m \in Jobs : m # i => pid'[m] = pid[m] /\ (Unreaped(m)' => Unreaped(m))
  BY OthersStep DEF Alike, Unreaped
<1>2. CASE launch(i)
  <2>1. PICK p \in Pids : Owner(p) = {} /\ pid' = [pid EXCEPT ![i] = p]
    BY <1>2 DEF launch
  <2>2. pid'[i] = p
    BY <2>1 DEF TypeOK
  <2>3. \A m \in Jobs : m # i /\ Unreaped(m) => pid[m] # p
    BY <2>1 DEF Owner, Unreaped
  <2>. QED  BY <1>1, <2>2, <2>3 DEF PidShape
<1>3. CASE pid' = pid /\ (Unreaped(i)' => Unreaped(i))
  BY <1>1, <1>3 DEF PidShape
<1>. QED  BY <1>2, <1>3, PidSteps

\* The write of the sync byte is the only step that ends the engine, and it does so where
\* the child is gone, which before the byte a SIGKILL has brought about.
LEMMA AliveNext ==
    ASSUME TypeOK, NEW i \in Jobs, JobShape(i), Step(i), alive
    PROVE  EngineEndsOnlyByEarlyKill'
<1>1. CASE writeSync(i)
  <2>1. CASE alive' = alive
    BY <2>1 DEF EngineEndsOnlyByEarlyKill
  <2>2. CASE alive' # alive
    <3>1. ipc[i] = "sync" /\ proc[i] \notin Running /\ ipc' = ipc /\ UNCHANGED killVars
      BY <1>1, <2>2 DEF writeSync
    <3>2. proc[i] = "zombie"
      BY <3>1 DEF JobShape, CallShape, Watching, Running, Grouped
    <3>3. Killed(i)
      BY <3>1, <3>2 DEF JobShape, KillShape, Launching
    <3>. QED  BY <3>1, <3>3 DEF EngineEndsOnlyByEarlyKill, Killed, killVars
  <2>. QED  BY <2>1, <2>2
<1>2. CASE ~writeSync(i)
  <2>1. alive' = alive
    BY <1>2 DEF Step, workerAdvances, executeBegin, launchFails, launch, applyToPid,
         startWatchdogs, startDog, resume, stopWatchdogs, stopDog, joinDog, limiterKill,
         limiterRemove, quantumElapses, waitReap, waitStopped, waitSendStop, childAdvances,
         childSync, childSetup, childStuck, childSetupFails, childExec, userExit, Become,
         childUnchanged, kernelDelivers, deliverKill, deliverStop, dogAdvances, dogStopped,
         dogKillGroup, dogKillPid, dogTimeout, dogPeriod, dogSample, DogGoto
  <2>. QED  BY <2>1 DEF EngineEndsOnlyByEarlyKill
<1>. QED  BY <1>1, <1>2

\* The directories change where a limiter is made, applied and destroyed.
LEMMA CgroupSteps ==
    ASSUME NEW i \in Jobs, Step(i)
    PROVE  executeBegin(i) \/ applyToPid(i) \/ limiterRemove(i) \/ UNCHANGED cgroupVars
BY DEF Step, workerAdvances, launchFails, launch, startWatchdogs, startDog, writeSync,
       resume, stopWatchdogs, stopDog, joinDog, limiterKill, quantumElapses, waitReap,
       waitStopped, waitSendStop, childAdvances, childSync, childSetup, childStuck,
       childSetupFails, childExec, userExit, Become, childUnchanged, kernelDelivers,
       deliverKill, deliverStop, dogAdvances, dogStopped, dogKillGroup, dogKillPid, dogTimeout,
       dogPeriod, dogSample, DogGoto

\* What makeCgroup does to the names and directories.
LEMMA BeginEffect ==
    ASSUME TypeOK, NEW i \in Jobs, executeBegin(i)
    PROVE  /\ member' = member
           /\ \A j \in Jobs : j # i => path'[j] = path[j]
           /\ \/ path' = path /\ cgroups' = cgroups
              \/ /\ UseLimiter /\ path'[i] \in LimiterNames(i)
                 /\ cgroups' \subseteq cgroups \cup {path'[i]}
<1>1. \/ UNCHANGED <<path, cgroups>>
      \/ \E n \in LimiterNames(i) : /\ UseLimiter /\ path' = [path EXCEPT ![i] = n]
                                    /\ cgroups' \in {cgroups, cgroups \cup {n}}
  BY DEF executeBegin, makeCgroup
<1>. QED  BY <1>1 DEF executeBegin, TypeOK

\* What applyToPid does to the membership.
LEMMA ApplyEffect ==
    ASSUME TypeOK, NEW i \in Jobs, applyToPid(i)
    PROVE  /\ path' = path /\ cgroups' = cgroups
           /\ \A j \in Jobs : j # i => member'[j] = member[j]
           /\ member'[i] \in {path[i], Refused, member[i]}
           /\ path[i] \in cgroups /\ proc[i] \in Running => member'[i] \in {path[i], Refused}
<1>1. /\ path' = path /\ cgroups' = cgroups
      /\ IF path[i] \in cgroups /\ proc[i] \in Running
           THEN \E m \in {path[i], Refused} : member' = [member EXCEPT ![i] = m]
           ELSE member' = member
  BY DEF applyToPid
<1>. QED  BY <1>1 DEF TypeOK

\* Names stay apart unless two limiters can draw one.
LEMMA NameNext ==
    ASSUME TypeOK, NEW i \in Jobs, Step(i), \A j \in Jobs : NameShape(j)
    PROVE  \A j \in Jobs : NameShape(j)'
<1>1. CASE executeBegin(i)
  <2>1. "names" \notin Faults => LimiterNames(i) = {i}
    BY DEF LimiterNames
  <2>. QED  BY <1>1, <2>1, BeginEffect DEF NameShape
<1>2. CASE applyToPid(i)
  BY <1>2, ApplyEffect DEF NameShape
<1>3. CASE limiterRemove(i)
  BY <1>3 DEF limiterRemove, NameShape
<1>4. CASE UNCHANGED cgroupVars
  BY <1>4 DEF cgroupVars, NameShape
<1>. QED  BY <1>1, <1>2, <1>3, <1>4, CgroupSteps

\* Without limiters there are no directories.
LEMMA NoLimiterNext ==
    ASSUME TypeOK, NEW i \in Jobs, Step(i), ~UseLimiter, cgroups = {}
    PROVE  cgroups' = {}
<1>1. CASE executeBegin(i)  BY <1>1, BeginEffect
<1>2. CASE applyToPid(i)  BY <1>2, ApplyEffect
<1>3. CASE limiterRemove(i)  BY <1>3 DEF limiterRemove
<1>4. CASE UNCHANGED cgroupVars  BY <1>4 DEF cgroupVars
<1>. QED  BY <1>1, <1>2, <1>3, <1>4, CgroupSteps

\* No other step ends a run, or makes a child that counts as attached.
LEMMA QuietSteps ==
    ASSUME TypeOK, NEW i \in Jobs, JobShape(i), Step(i), ~executeBegin(i), ~applyToPid(i),
           ~limiterRemove(i)
    PROVE  /\ ipc'[i] = "idle" => ipc[i] = "idle" /\ result'[i] = result[i]
           /\ Attached(i)' => Attached(i)
<1> USE DEF callVars, procVars, Goto
<1>0. /\ ipc \in [Jobs -> IPC] /\ synced \in [Jobs -> BOOLEAN]
      /\ proc \in [Jobs -> Running \cup {"none", "zombie", "reaped"}]
      /\ result \in [Jobs -> Results]
  BY DEF TypeOK
<1>1. CASE launchFails(i) \/ launch(i)
  <2>1. ipc[i] = "clone" /\ ipc'[i] \in {"stop_timeout", "limit"} /\ synced' = synced
    BY <1>0, <1>1 DEF launchFails, launch
  <2>2. ~synced[i]
    BY <2>1 DEF JobShape, KillShape, Launching
  <2>. QED  BY <2>1, <2>2 DEF Attached, Watching
<1>2. CASE startWatchdogs(i)
  <2>1. ipc[i] \in Watching /\ ipc'[i] \in Watching /\ synced' = synced /\ proc' = proc
    BY <1>0, <1>2 DEF startWatchdogs, startDog, Watching
  <2>. QED  BY <2>1 DEF Attached, Watching
<1>3. CASE writeSync(i)
  <2>1. ipc[i] = "sync" /\ ipc'[i] \in {"sync", "wait"} /\ proc' = proc
    BY <1>0, <1>3 DEF writeSync
  <2>. QED  BY <2>1 DEF Attached, Watching
<1>4. CASE resume(i) \/ stopWatchdogs(i) \/ limiterKill(i) \/ waitStopped(i)
  <2>1. ipc'[i] \in Stopping \cup {"wait", "limiter_kill", "limiter_remove"}
    BY <1>0, <1>4 DEF resume, stopWatchdogs, stopDog, joinDog, limiterKill, waitStopped,
                      Stopping
  <2>2. synced' = synced /\ proc' = proc
    BY <1>4 DEF resume, stopWatchdogs, stopDog, joinDog, limiterKill, waitStopped
  <2>. QED  BY <2>1, <2>2 DEF Attached, Watching, Stopping
<1>5. CASE waitReap(i)
  <2>1. ipc'[i] = "stop_timeout" /\ proc'[i] = "reaped"
    BY <1>0, <1>5 DEF waitReap
  <2>. QED  BY <2>1 DEF Attached, Running, Grouped
<1>6. CASE quantumElapses(i) \/ waitSendStop(i)
  BY <1>6 DEF quantumElapses, waitSendStop, Attached
<1>7. CASE childAdvances(i) \/ userExit(i)
  <2>1. PICK st, e : Become(i, st, e) /\ proc[i] \in Running
    BY <1>7 DEF childAdvances, childSync, childSetup, childStuck, childSetupFails, childExec,
                userExit, Runs, Running, Grouped
  <2>. QED  BY <2>1 DEF Become, childUnchanged, Attached
<1>8. CASE kernelDelivers(i)
  BY <1>8 DEF kernelDelivers, deliverKill, deliverStop, Attached
<1>9. ASSUME NEW d \in Dogs, dogAdvances(i, d) PROVE UNCHANGED <<ipc, result, synced, proc>>
  BY <1>9 DEF dogAdvances, dogStopped, dogKillGroup, dogKillPid, dogTimeout, dogPeriod,
              dogSample, DogGoto
<1>10. CASE \E d \in Dogs : dogAdvances(i, d)
  BY <1>9, <1>10 DEF Attached
<1>. QED  BY <1>1, <1>2, <1>3, <1>4, <1>5, <1>6, <1>7, <1>8, <1>10 DEF Step, workerAdvances

\* A job that is executed once: while its child runs its worker has not returned.
LEMMA BusyOnce ==
    ASSUME Quantum = {}, NEW j \in Jobs, JobShape(j)
    PROVE  /\ proc[j] \in Running =>
                 ipc[j] \notin Returning \cup {"idle"}
           /\ ipc[j] = "idle" /\ result[j] \in {"none", "preempted"} =>
                 result[j] = "none" /\ proc[j] = "none"
BY DEF JobShape, CallShape, Unreaped, Running, Grouped, Finals, Statuses

\* The directories stay with the runs that made them.
LEMMA CgroupNext ==
    ASSUME IsolatorInv, Quantum = {}, CgroupShape, NEW i \in Jobs, Step(i)
    PROVE  CgroupShape'
<1> USE IsolatorAssumption
<1>0. /\ TypeOK /\ TypeOK' /\ PidShape
      /\ \A j \in Jobs : JobShape(j) /\ NameShape(j)
      /\ CallShape(i)
  BY TypeStep DEF IsolatorInv, JobShape
<1>1. \A j \in Jobs : j # i => Alike(j)
  BY <1>0, OthersStep
<1>2. \A j \in Jobs : j # i => (Final(j)' <=> Final(j)) /\ (Attached(j)' <=> Attached(j))
  BY <1>1 DEF Alike, Final, Attached
<1>3. cgroups \subseteq Jobs /\ cgroups' \subseteq Jobs /\ NoName \notin Jobs
  BY <1>0 DEF TypeOK
<1>4. CASE executeBegin(i)
  <2>1. /\ ipc[i] = "idle" /\ result[i] = "none" /\ proc[i] = "none" /\ path[i] = NoName
        /\ ipc'[i] # "idle" /\ proc' = proc
    BY <1>0, <1>4, BusyOnce DEF executeBegin, Goto, procVars, TypeOK, CgroupShape
  <2>2. /\ member' = member /\ \A j \in Jobs : j # i => path'[j] = path[j]
        /\ cgroups' \subseteq cgroups \cup {path'[i]}
    BY <1>0, <1>4, BeginEffect
  <2>3. member[i] \in {NoName, Refused}
    BY <2>1 DEF CgroupShape
  <2>4. ~Attached(i)' /\ ~Final(i)'
    BY <2>1 DEF Attached, Final, Running, Grouped
  <2>5. ASSUME NEW j \in Jobs, j # i, Attached(j)', path'[j] \in cgroups'
        PROVE  member'[j] \in {path'[j], Refused} \/ Sharing(j)'
    <3>1. Attached(j) /\ path'[j] = path[j] /\ member'[j] = member[j]
      BY <1>2, <2>2, <2>5
    <3>2. CASE path[j] \in cgroups
      <4>1. member[j] \in {path[j], Refused} \/ Sharing(j)
        BY <3>1, <3>2 DEF CgroupShape
      <4>2. Sharing(j) => Sharing(j)'
        BY <1>3, <2>1, <2>2, <3>1, <3>2 DEF Sharing
      <4>. QED  BY <3>1, <4>1, <4>2
    <3>3. CASE path[j] \notin cgroups
      <4>1. path'[j] = path'[i]  BY <2>2, <2>5, <3>1, <3>3
      <4>. QED  BY <2>5, <4>1 DEF Sharing
    <3>. QED  BY <3>2, <3>3
  <2>6. ASSUME NEW n \in cgroups' PROVE \E k \in Jobs : path'[k] = n /\ ~Final(k)'
    <3>1. CASE n \in cgroups
      <4>1. PICK k \in Jobs : path[k] = n /\ ~Final(k)  BY <3>1 DEF CgroupShape
      <4>2. k # i  BY <1>3, <2>1, <3>1, <4>1
      <4>. QED  BY <1>2, <2>2, <4>1, <4>2
    <3>2. CASE n \notin cgroups  BY <2>2, <2>4, <2>6, <3>2
    <3>. QED  BY <3>1, <3>2
  <2>7. ASSUME NEW j \in Jobs
        PROVE  /\ ipc'[j] = "idle" /\ result'[j] = "none" => path'[j] = NoName
               /\ member'[j] \in {path'[j], NoName, Refused}
    BY <1>1, <2>1, <2>2, <2>3 DEF CgroupShape, Alike
  <2>. QED  BY <2>4, <2>5, <2>6, <2>7 DEF CgroupShape
<1>5. CASE applyToPid(i)
  <2>1. /\ ipc[i] = "limit" /\ ipc'[i] = "watch_timeout" /\ proc' = proc
        /\ path' = path /\ cgroups' = cgroups
        /\ \A j \in Jobs : j # i => member'[j] = member[j]
        /\ member'[i] \in {path[i], Refused, member[i]}
        /\ path[i] \in cgroups /\ proc[i] \in Running => member'[i] \in {path[i], Refused}
    BY <1>0, <1>5, ApplyEffect DEF applyToPid, Goto, procVars, TypeOK
  <2>2. \A j \in Jobs : Sharing(j)' <=> Sharing(j)
    BY <2>1 DEF Sharing
  <2>3. \A j \in Jobs : ~Final(j) => ~Final(j)'
    BY <1>2, <2>1 DEF Final
  <2>4. Attached(i)' => proc[i] \in Running
    BY <2>1 DEF Attached
  <2>5. ASSUME NEW j \in Jobs
        PROVE  /\ ipc'[j] = "idle" /\ result'[j] = "none" => path'[j] = NoName
               /\ member'[j] \in {path'[j], NoName, Refused}
               /\ Attached(j)' /\ path'[j] \in cgroups' =>
                     member'[j] \in {path'[j], Refused} \/ Sharing(j)'
    <3>1. CASE j = i  BY <2>1, <2>4, <3>1 DEF CgroupShape
    <3>2. CASE j # i  BY <1>1, <1>2, <2>1, <2>2, <3>2 DEF CgroupShape, Alike
    <3>. QED  BY <3>1, <3>2
  <2>6. \A n \in cgroups' : \E k \in Jobs : path'[k] = n /\ ~Final(k)'
    BY <2>1, <2>3 DEF CgroupShape
  <2>. QED  BY <2>5, <2>6 DEF CgroupShape
<1>6. CASE limiterRemove(i)
  <2>1. /\ ipc[i] = "limiter_remove" /\ path' = path /\ member' = member /\ proc' = proc
        /\ cgroups' = IF Members(path[i]) = {} THEN cgroups \ {path[i]} ELSE cgroups
        /\ synced' = synced /\ ipc'[i] = "idle" /\ result' = result
    BY <1>0, <1>6 DEF limiterRemove, Goto, procVars, TypeOK
  <2>2. proc[i] \notin Running /\ result[i] # "none"
    <3>1. proc[i] \notin Running
      BY <1>0, <2>1, BusyOnce DEF Returning
    <3>2. result[i] # "none"
      BY <1>0, <2>1 DEF CallShape, Returning, Finals, Statuses
    <3>. QED  BY <3>1, <3>2
  <2>3. ASSUME NEW n \in cgroups' PROVE \E k \in Jobs : path'[k] = n /\ ~Final(k)'
    <3>1. PICK k \in Jobs : path[k] = n /\ ~Final(k)
      BY <2>1, <2>3 DEF CgroupShape
    <3>2. CASE k # i  BY <1>2, <2>1, <3>1, <3>2
    <3>3. CASE k = i
      <4>1. PICK m \in Members(n) : TRUE
        BY <2>1, <2>3, <3>1, <3>3
      <4>2. m \in Jobs /\ member[m] = n /\ proc[m] \in Running /\ n \in Jobs
        BY <1>3, <2>3, <4>1 DEF Members
      <4>3. path[m] = n
        BY <4>2 DEF CgroupShape
      <4>4. m # i /\ ipc[m] # "idle"
        BY <1>0, <2>2, <4>2, BusyOnce
      <4>5. ~Final(m)'
        BY <1>2, <4>2, <4>4 DEF Final
      <4>. QED  BY <2>1, <4>2, <4>3, <4>5
    <3>. QED  BY <3>2, <3>3
  <2>4. ASSUME NEW j \in Jobs
        PROVE  /\ ipc'[j] = "idle" /\ result'[j] = "none" => path'[j] = NoName
               /\ member'[j] \in {path'[j], NoName, Refused}
               /\ Attached(j)' /\ path'[j] \in cgroups' =>
                     member'[j] \in {path'[j], Refused} \/ Sharing(j)'
    <3>1. Sharing(j)' <=> Sharing(j)  BY <2>1 DEF Sharing
    <3>2. CASE j = i  BY <2>1, <2>2, <3>2 DEF CgroupShape, Attached
    <3>3. CASE j # i  BY <1>1, <1>2, <2>1, <3>1, <3>3 DEF CgroupShape, Alike
    <3>. QED  BY <3>2, <3>3
  <2>. QED  BY <2>3, <2>4 DEF CgroupShape
<1>7. CASE ~executeBegin(i) /\ ~applyToPid(i) /\ ~limiterRemove(i)
  <2>1. UNCHANGED <<path, cgroups, member>>
    BY <1>7, CgroupSteps DEF cgroupVars
  <2>2. /\ ipc'[i] = "idle" => ipc[i] = "idle" /\ result'[i] = result[i]
        /\ Attached(i)' => Attached(i)
    BY <1>0, <1>7, QuietSteps
  <2>3. \A j \in Jobs :
           /\ ipc'[j] = "idle" => ipc[j] = "idle" /\ result'[j] = result[j]
           /\ Attached(j)' => Attached(j)
    BY <1>1, <1>2, <2>2 DEF Alike
  <2>4. ASSUME NEW j \in Jobs
        PROVE  /\ ipc'[j] = "idle" /\ result'[j] = "none" => path'[j] = NoName
               /\ member'[j] \in {path'[j], NoName, Refused}
               /\ Attached(j)' /\ path'[j] \in cgroups' =>
                     member'[j] \in {path'[j], Refused} \/ Sharing(j)'
    <3>1. Sharing(j)' <=> Sharing(j)  BY <2>1 DEF Sharing
    <3>. QED  BY <2>1, <2>3, <3>1 DEF CgroupShape
  <2>5. ASSUME NEW n \in cgroups' PROVE \E k \in Jobs : path'[k] = n /\ ~Final(k)'
    <3>1. PICK k \in Jobs : path[k] = n /\ ~Final(k)
      BY <2>1, <2>5 DEF CgroupShape
    <3>2. Final(k)' => Final(k)
      BY <2>3 DEF Final
    <3>. QED  BY <2>1, <3>1, <3>2
  <2>. QED  BY <2>4, <2>5 DEF CgroupShape
<1>. QED  BY <1>4, <1>5, <1>6, <1>7

\* A stutter changes none of it.
LEMMA StutterKeeps == ASSUME IsolatorInv, UNCHANGED vars PROVE IsolatorInv'
<1> USE DEF vars, callVars, cgroupVars, procVars, dogVars, killVars
<1>1. TypeOK'  BY DEF IsolatorInv, TypeOK
<1>2. PidShape'  BY DEF IsolatorInv, PidShape, Unreaped
<1>3. EngineEndsOnlyByEarlyKill'  BY DEF IsolatorInv, EngineEndsOnlyByEarlyKill
<1>4. ASSUME NEW j \in Jobs PROVE JobShape(j)' /\ NameShape(j)'
  <2>1. Alike(j) /\ Struck(j, j)  BY DEF Alike, Struck
  <2>2. JobShape(j)'  BY <2>1, OthersKeep DEF IsolatorInv
  <2>. QED  BY <2>2 DEF IsolatorInv, NameShape
<1>5. LimiterShape'
  BY DEF IsolatorInv, LimiterShape, CgroupShape, Attached, Sharing, Final
<1>. QED  BY <1>1, <1>2, <1>3, <1>4, <1>5 DEF IsolatorInv

\* The invariant holds before anything is executed ...
LEMMA IsolatorInit == Init => IsolatorInv
<1> SUFFICES ASSUME Init PROVE IsolatorInv
  OBVIOUS
<1>1. TypeOK
  <2>1. "idle" \in IPC /\ "none" \in Results /\ "none" \in DogStates
    BY DEF IPC, Results, DogStates
  <2>. QED  BY <2>1 DEF Init, TypeOK
<1>2. PidShape /\ EngineEndsOnlyByEarlyKill
  BY DEF Init, PidShape, Unreaped, EngineEndsOnlyByEarlyKill
<1>4. LimiterShape /\ \A j \in Jobs : NameShape(j)
  BY DEF Init, LimiterShape, CgroupShape, NameShape
<1>3. ASSUME NEW j \in Jobs PROVE JobShape(j)
  <2>1. /\ ipc[j] = "idle" /\ result[j] = "none" /\ pid[j] = NoPid /\ expired[j] = FALSE
        /\ synced[j] = FALSE /\ proc[j] = "none"
        /\ stopped[j] = FALSE /\ news[j] = FALSE /\ pending[j] = {} /\ hitBy[j] = {}
    BY DEF Init
  <2>2. \A d \in Dogs : dog[j][d] = "none" /\ armed[j][d] = FALSE
    BY DEF Init
  <2>3. CallShape(j)
    BY <2>1 DEF CallShape, Unreaped, Watching, Returning, Stopping
  <2>4. KillShape(j) /\ StopShape(j)
    BY <2>1 DEF KillShape, StopShape, Launching, Running, Grouped
  <2>5. DogShape(j) /\ GuardShape(j)
    BY <2>1, <2>2 DEF DogShape, GuardShape, Active, Dogs, Watching
  <2>. QED  BY <2>3, <2>4, <2>5 DEF JobShape
<1>. QED  BY <1>1, <1>2, <1>3, <1>4 DEF IsolatorInv

\* ... and every step keeps it.
LEMMA IsolatorNext == IsolatorInv /\ [Next]_vars => IsolatorInv'
<1> SUFFICES ASSUME IsolatorInv, [Next]_vars PROVE IsolatorInv'
  OBVIOUS
<1>1. ASSUME alive, NEW i \in Jobs, Step(i) PROVE IsolatorInv'
  <2>1. /\ TypeOK /\ PidShape /\ JobShape(i) /\ CallShape(i)
        /\ \A j \in Jobs : NameShape(j)
    BY DEF IsolatorInv, JobShape
  <2>2. TypeOK' /\ PidShape' /\ EngineEndsOnlyByEarlyKill' /\ JobShape(i)'
    BY <1>1, <2>1, TypeStep, PidNext, AliveNext, OwnStep
  <2>3. ASSUME NEW j \in Jobs, j # i PROVE JobShape(j)'
    BY <1>1, <2>1, <2>3, OthersStep, OthersKeep DEF IsolatorInv
  <2>4. LimiterShape' /\ \A j \in Jobs : NameShape(j)'
    BY <1>1, NameNext, NoLimiterNext, CgroupNext DEF IsolatorInv, LimiterShape
  <2>. QED  BY <2>2, <2>3, <2>4 DEF IsolatorInv
<1>2. CASE UNCHANGED vars
  BY <1>2, StutterKeeps
<1>. QED  BY <1>1, <1>2 DEF Next, terminated

-------------------------------------------------------------------------------
(* The theorems.                                                           *)

\* The variables keep their types.
THEOREM IsolatorTypeCorrect == Spec => []TypeOK
<1>1. IsolatorInv => TypeOK  BY DEF IsolatorInv
<1>. QED  BY <1>1, IsolatorInit, IsolatorNext, PTL DEF Spec

\* In the two configurations of the program, a quantum without a limiter and a limiter
\* without a quantum, no child gets past the sync pipe before it is guarded, whichever
\* directories could be made and whatever names were drawn.
THEOREM GuardedFirst ==
    ASSUME Quantum = {} \/ ~UseLimiter
    PROVE  Spec => []GuardedBeforeSetup
<1>1. IsolatorInv => GuardedBeforeSetup
  <2> SUFFICES ASSUME IsolatorInv, NEW j \in Jobs, proc[j] \in Running \ {"blocked"}
               PROVE  /\ path[j] \in cgroups =>
                            member[j] \in {path[j], Refused} \/ Sharing(j)
                      /\ UseWatchdogs => \A d \in Dogs : dog[j][d] # "none"
    BY DEF GuardedBeforeSetup
  <2>1. JobShape(j) /\ LimiterShape  BY DEF IsolatorInv
  <2>2. synced[j]  BY <2>1 DEF JobShape, KillShape
  <2>3. UseWatchdogs => \A d \in Dogs : dog[j][d] # "none"
    BY <2>1, <2>2 DEF JobShape, GuardShape, Dogs
  <2>4. path[j] \in cgroups => member[j] \in {path[j], Refused} \/ Sharing(j)
    BY <2>1, <2>2 DEF LimiterShape, CgroupShape, Attached
  <2>. QED  BY <2>3, <2>4
<1>. QED  BY <1>1, IsolatorInit, IsolatorNext, PTL DEF Spec

\* What execute leaves behind when it returns in these configurations, whatever was
\* interrupted or failed: a directory only while a run with the same name goes on.
THEOREM CleanReturn ==
    ASSUME Quantum = {} \/ ~UseLimiter
    PROVE  Spec => []NothingLeftBehind
<1>1. IsolatorInv => NothingLeftBehind
  <2> SUFFICES ASSUME IsolatorInv, NEW j \in Jobs, ipc[j] = "idle"
               PROVE  /\ \A d \in Dogs : dog[j][d] \in {"none", "finished"}
                      /\ Final(j) =>
                            /\ proc[j] \in {"none", "reaped"}
                            /\ path[j] \in cgroups =>
                                  \E k \in Jobs : path[k] = path[j] /\ ~Final(k)
    BY DEF NothingLeftBehind, Final
  <2>1. JobShape(j) /\ LimiterShape  BY DEF IsolatorInv
  <2>2. \A d \in Dogs : ~Active(j, d)
    BY <2>1 DEF JobShape, DogShape, Dogs
  <2>3. Final(j) => proc[j] \in {"none", "reaped"}
    BY <2>1 DEF JobShape, CallShape, Final, Unreaped
  <2>4. path[j] \in cgroups => \E k \in Jobs : path[k] = path[j] /\ ~Final(k)
    BY <2>1 DEF LimiterShape, CgroupShape
  <2>. QED  BY <2>2, <2>3, <2>4 DEF Active
<1>. QED  BY <1>1, IsolatorInit, IsolatorNext, PTL DEF Spec

\* A preempted program stands still until it is executed again, with any mixture of
\* quantum, limiter and watchdogs.
THEOREM PreemptedStandsStill == Spec => []RunsOnlyWhileExecuted
<1>1. IsolatorInv => RunsOnlyWhileExecuted
  <2> SUFFICES ASSUME IsolatorInv, NEW j \in Jobs, ipc[j] = "idle", proc[j] \in Running
               PROVE  /\ stopped[j] /\ proc[j] \in Grouped
                      /\ expired[j] /\ result[j] = "preempted"
    BY DEF RunsOnlyWhileExecuted
  <2>1. JobShape(j)  BY DEF IsolatorInv
  <2>2. Unreaped(j)  BY DEF Unreaped, Running, Grouped
  <2>. QED  BY <2>1, <2>2 DEF JobShape, CallShape, StopShape, Unreaped
<1>. QED  BY <1>1, IsolatorInit, IsolatorNext, PTL DEF Spec

\* SIGPIPE on the sync pipe follows a SIGKILL and nothing else: a watchdog's, or that of
\* another run's limiter where two can draw one name.
THEOREM EngineOutlivesRuns == Spec => []EngineEndsOnlyByEarlyKill
<1>1. IsolatorInv => EngineEndsOnlyByEarlyKill  BY DEF IsolatorInv
<1>. QED  BY <1>1, IsolatorInit, IsolatorNext, PTL DEF Spec

\* The history of SIGKILLs is written by a watchdog thread that is running.
LEMMA HitSteps ==
    ASSUME NEW i \in Jobs, Step(i)
    PROVE  \/ hitBy' = hitBy
           \/ /\ \E d \in Dogs : Active(i, d)
              /\ \A j \in Jobs : hitBy'[j] \subseteq hitBy[j] \cup {i}
<1>1. CASE \E d \in Dogs : dogAdvances(i, d)
  <2>1. PICK d \in Dogs : dogAdvances(i, d)  BY <1>1
  <2>2. Active(i, d)
    BY <2>1 DEF dogAdvances, dogStopped, dogKillGroup, dogKillPid, dogTimeout, dogPeriod,
                dogSample, Active
  <2>3. hitBy' = hitBy \/ \E targets : DogKill(i, targets)
    BY <2>1 DEF dogAdvances, dogStopped, dogKillGroup, dogKillPid, dogTimeout, dogPeriod,
                dogSample
  <2>. QED  BY <2>2, <2>3 DEF DogKill
<1>2. CASE ~\E d \in Dogs : dogAdvances(i, d)
  BY <1>2 DEF Step, workerAdvances, executeBegin, launchFails, launch, applyToPid,
       startWatchdogs, startDog, writeSync, resume, stopWatchdogs, stopDog, joinDog,
       limiterKill, limiterRemove, quantumElapses, waitReap, waitStopped, waitSendStop,
       childAdvances, childSync, childSetup, childStuck, childSetupFails, childExec, userExit,
       Become, childUnchanged, kernelDelivers, deliverKill, deliverStop, killVars
<1>. QED  BY <1>1, <1>2

\* A watchdog that strikes another job's child does so after its own child was reaped.
LEMMA StrayStep ==
    ASSUME IsolatorInv, NEW i \in Jobs, Step(i),
           NEW j \in Jobs, NEW k \in Jobs, k \in hitBy'[j], k \notin hitBy[j], k # j
    PROVE  ipc[k] \in Stopping
<1>1. TypeOK /\ PidShape /\ JobShape(i) /\ NameShape(i) /\ NameShape(j)
  BY DEF IsolatorInv
<1>2. k = i /\ \E d \in Dogs : Active(i, d)
  BY HitSteps
<1>3. j \in Owner(pid[i])
  <2>1. Struck(j, i)
    BY <1>1, <1>2, OthersStep DEF JobShape
  <2>. QED  BY <2>1 DEF Struck
<1>4. ~Unreaped(i)
  BY <1>1, <1>2, <1>3, OwnPid
<1>5. ipc[i] \in {"watch_anomaly", "sync", "wait"} \cup Stopping
  BY <1>1, <1>2 DEF JobShape, DogShape, Dogs, Stopping
<1>. QED  BY <1>1, <1>2, <1>4, <1>5 DEF JobShape, CallShape, Watching, Unreaped

\* Process ids are reused, but a SIGKILL meant for another child can only be sent between
\* the reaping of the watched child and the join of its watchdogs.
THEOREM StrayKillsBounded == Spec => StrayKillWindow
<1> DEFINE Window == \A j, k \in Jobs : k \in hitBy'[j] /\ k \notin hitBy[j] /\ k # j =>
          ipc[k] \in {"stop_timeout", "join_timeout", "stop_anomaly", "join_anomaly"}
<1>1. IsolatorInv /\ [Next]_vars => [Window]_vars
  <2> SUFFICES ASSUME IsolatorInv, Next, NEW j \in Jobs, NEW k \in Jobs,
                      k \in hitBy'[j], k \notin hitBy[j], k # j
               PROVE  ipc[k] \in Stopping
    BY DEF Stopping
  <2>1. ~terminated  BY DEF terminated, vars, killVars
  <2>2. PICK i \in Jobs : Step(i)  BY <2>1 DEF Next
  <2>. QED  BY <2>2, StrayStep
<1>. QED  BY <1>1, IsolatorInit, IsolatorNext, PTL DEF Spec, StrayKillWindow

===============================================================================
