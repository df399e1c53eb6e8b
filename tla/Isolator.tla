------------------------------- MODULE Isolator -------------------------------
(***************************************************************************)
(* Executor::execute of a program: LinuxNamespaceIsolator::isolateAndRun   *)
(* in the worker thread, the two watchdog threads it starts, the cgroup    *)
(* limiter it owns, and the kernel's view of the child process.  Every job *)
(* has its own worker thread here; a preempted job may be executed again.  *)
(* The child's setup is kept only as far as the parent can notice it:      *)
(* whether it waits for the sync byte, whether it has a process group yet, *)
(* whether it runs the user's program.                                     *)
(***************************************************************************)
EXTENDS Naturals, FiniteSets

CONSTANTS Jobs,         \* the programs being executed
          Pids,         \* process ids the kernel can hand out
          Quantum,      \* the jobs with time_quantum > 0
          UseLimiter,   \* Executor was given a limiter factory
          UseWatchdogs, \* Executor was given a watchdog factory
          Faults        \* what may fail: "clone" (or pipe), "cgroup" (its directory), "attach"
                        \* (the write to cgroup.procs), "setup", "names": two limiters draw one
                        \* directory name, and "locks": a child is cloned while another thread
                        \* holds a lock of the C library

NoPid == 0
NoName == "none"
Refused == "refused"
Dogs == {"timeout", "anomaly"}

ASSUME IsolatorAssumption ==
    /\ Pids \in SUBSET (Nat \ {NoPid})
    /\ Quantum \in SUBSET Jobs
    /\ UseLimiter \in BOOLEAN
    /\ UseWatchdogs \in BOOLEAN
    /\ Faults \in SUBSET {"clone", "cgroup", "attach", "setup", "names", "locks"}
    /\ Jobs \cap {NoName, Refused} = {}

VARIABLES
    ipc,      \* where the worker is inside execute / isolateAndRun
    result,   \* ExecutionResult
    pid,      \* Job::pid
    expired,  \* elapsed_ms >= time_quantum
    synced,   \* the sync byte has been written
    path,     \* cgroup_path_ of the job's limiter: the job's own name or another one's
    cgroups,  \* the directories that exist under isolyx/
    member,   \* kernel: the cgroup the child is in; Refused if the kernel did not let it in
    proc,     \* kernel: the child's life
    exit,     \* kernel: the exit status of a dead child
    stopped,  \* kernel: the child is stopped
    news,     \* kernel: the stop has not been reported by waitpid
    pending,  \* kernel: signals sent to the child and not yet acted on
    dog,      \* where each watchdog thread is
    armed,    \* running_ of each watchdog
    hitBy,    \* history: the jobs whose watchdogs sent SIGKILL to this child
    purgedBy, \* history: the jobs whose limiters did
    alive     \* the engine process itself

callVars == <<ipc, result, pid, expired, synced>>
cgroupVars == <<path, cgroups, member>>
procVars == <<proc, exit, stopped, news, pending>>
dogVars == <<dog, armed>>
killVars == <<hitBy, purgedBy>>
vars == <<callVars, cgroupVars, procVars, dogVars, killVars, alive>>

Launching == {"clone", "limit", "watch_timeout", "watch_anomaly", "sync"}
IPC == Launching \cup {"idle", "cont", "wait", "stop_timeout", "join_timeout",
                       "stop_anomaly", "join_anomaly", "limiter_kill", "limiter_remove"}
Statuses == {"exited", "signaled"}
Results == Statuses \cup {"none", "error", "preempted"}

\* blocked: in read() on the sync pipe; setup: in child_entry before setpgid;
\* stuck: there, waiting for a lock nobody has; group: after setpgid; stuck_group: the
\* same wait in perror after setpgid; user: after execvp.
Grouped == {"group", "stuck_group", "user"}
Running == {"blocked", "setup", "stuck"} \cup Grouped
DogStates == {"none", "waiting", "sampling", "kill_group", "kill_pid", "finished"}

Init ==
    /\ ipc = [j \in Jobs |-> "idle"]
    /\ result = [j \in Jobs |-> "none"]
    /\ pid = [j \in Jobs |-> NoPid]
    /\ expired = [j \in Jobs |-> FALSE]
    /\ synced = [j \in Jobs |-> FALSE]
    /\ path = [j \in Jobs |-> NoName]
    /\ cgroups = {}
    /\ member = [j \in Jobs |-> NoName]
    /\ proc = [j \in Jobs |-> "none"]
    /\ exit = [j \in Jobs |-> "none"]
    /\ stopped = [j \in Jobs |-> FALSE]
    /\ news = [j \in Jobs |-> FALSE]
    /\ pending = [j \in Jobs |-> {}]
    /\ dog = [j \in Jobs |-> [d \in Dogs |-> "none"]]
    /\ armed = [j \in Jobs |-> [d \in Dogs |-> FALSE]]
    /\ hitBy = [j \in Jobs |-> {}]
    /\ purgedBy = [j \in Jobs |-> {}]
    /\ alive = TRUE

-------------------------------------------------------------------------------
(* The kernel's signals.                                                   *)

\* The jobs whose child now has process id p: one that is neither unborn nor reaped.
Owner(p) == {k \in Jobs : pid[k] = p /\ proc[k] \notin {"none", "reaped"}}

\* The children kill(p, _) and kill(-p, _) reach.
ByPid(p) == {k \in Owner(p) : proc[k] \in Running}
ByGroup(p) == {k \in Owner(p) : proc[k] \in Grouped}

\* A signal becomes pending; a second one of the same kind is merged with it.
Send(s, targets) ==
    pending' = [k \in Jobs |-> IF k \in targets THEN pending[k] \cup {s} ELSE pending[k]]

\* cgroup.procs of a directory: the children in it that still run.
Members(n) == {k \in Jobs : n \in cgroups /\ member[k] = n /\ proc[k] \in Running}

Goto(j, pc) == ipc' = [ipc EXCEPT ![j] = pc]

-------------------------------------------------------------------------------
(* The worker thread: Executor::execute and isolateAndRun.                 *)

\* The name a limiter draws from the generator all workers share without a lock: its own,
\* or one that another limiter has drawn (Limiter shows how).
LimiterNames(j) == {j} \cup {n \in Jobs : "names" \in Faults /\ \E k \in Jobs : path[k] = n}

\* CgroupV2Limiter(...) makes its directory and writes the caps; that it cannot is only
\* printed, and a directory that is there already is taken over.
makeCgroup(j) ==
    IF UseLimiter
      THEN \E n \in LimiterNames(j) :
              /\ path' = [path EXCEPT ![j] = n]
              /\ \/ cgroups' = cgroups \cup {n}
                 \/ "cgroup" \in Faults /\ UNCHANGED cgroups
      ELSE UNCHANGED <<path, cgroups>>

\* execute(job): the factories are called, then isolateAndRun.
executeBegin(j) ==
    /\ ipc[j] = "idle" /\ result[j] \in {"none", "preempted"}
    /\ result' = [result EXCEPT ![j] = "none"]
    /\ makeCgroup(j)
    /\ Goto(j, IF pid[j] = NoPid THEN "clone" ELSE "cont")
    /\ UNCHANGED <<pid, expired, synced, member, procVars, dogVars, killVars, alive>>

\* A fault for mutation: clone's -1 is stored in Job::pid before it is looked at.
LaunchUnchecked(j) ==
    /\ ipc[j] = "clone" /\ "clone" \in Faults
    /\ result' = [result EXCEPT ![j] = "error"]
    /\ pid' = [pid EXCEPT ![j] = 0 - 1]
    /\ Goto(j, "stop_timeout")
    /\ UNCHANGED <<expired, synced, cgroupVars, procVars, dogVars, killVars, alive>>

\* pipe() or clone() fails: return result.
launchFails(j) ==
    /\ ipc[j] = "clone" /\ "clone" \in Faults
    /\ result' = [result EXCEPT ![j] = "error"]
    /\ Goto(j, "stop_timeout")
    /\ UNCHANGED <<pid, expired, synced, cgroupVars, procVars, dogVars, killVars, alive>>

\* clone(): a child with a process id nobody has, waiting for the sync byte.
launch(j) ==
    /\ ipc[j] = "clone"
    /\ \E p \in Pids :
          /\ Owner(p) = {}
          /\ pid' = [pid EXCEPT ![j] = p]
    /\ proc' = [proc EXCEPT ![j] = "blocked"]
    /\ Goto(j, "limit")
    /\ UNCHANGED <<result, expired, synced, cgroupVars, exit, stopped, news, pending,
                   dogVars, killVars, alive>>

\* limiter->applyToPid(child_pid): a file that does not open is only printed, and whether
\* the kernel takes the pid is not looked at.
applyToPid(j) ==
    /\ ipc[j] = "limit"
    /\ IF path[j] \in cgroups /\ proc[j] \in Running
         THEN \/ member' = [member EXCEPT ![j] = path[j]]
              \/ "attach" \in Faults /\ member' = [member EXCEPT ![j] = Refused]
         ELSE UNCHANGED member
    /\ Goto(j, "watch_timeout")
    /\ UNCHANGED <<result, pid, expired, synced, path, cgroups, procVars, dogVars, killVars,
                   alive>>

\* watchdog->start(child_pid): CompositeWatchdog starts its members in turn.
startDog(j, d, here, next) ==
    /\ ipc[j] = here
    /\ IF UseWatchdogs
         THEN /\ dog' = [dog EXCEPT ![j][d] = "waiting"]
              /\ armed' = [armed EXCEPT ![j][d] = TRUE]
         ELSE UNCHANGED dogVars
    /\ Goto(j, next)
    /\ UNCHANGED <<result, pid, expired, synced, cgroupVars, procVars, killVars, alive>>

startWatchdogs(j) ==
    \/ startDog(j, "timeout", "watch_timeout", "watch_anomaly")
    \/ startDog(j, "anomaly", "watch_anomaly", "sync")

\* uid_map, setgroups and gid_map are written, then the sync byte.  The parent has
\* closed its read end.  If the child is dead the write raises SIGPIPE, whose default
\* disposition ends the engine, unless a child cloned meanwhile inherited the read end.
writeSync(j) ==
    /\ ipc[j] = "sync"
    /\ \/ /\ \E k \in Jobs : proc[k] \in Running
          /\ synced' = [synced EXCEPT ![j] = TRUE]
          /\ Goto(j, "wait")
          /\ UNCHANGED alive
       \/ /\ proc[j] \notin Running
          /\ alive' = FALSE
          /\ UNCHANGED <<synced, ipc>>
    /\ UNCHANGED <<result, pid, expired, cgroupVars, procVars, dogVars, killVars>>

\* A fault for mutation: the stopped child gets no SIGCONT.
ResumeWithoutCont(j) ==
    /\ ipc[j] = "cont"
    /\ expired' = [expired EXCEPT ![j] = FALSE]
    /\ Goto(j, "wait")
    /\ UNCHANGED <<result, pid, synced, cgroupVars, procVars, dogVars, killVars, alive>>

\* The process exists: kill(-pid, SIGCONT), which also discards a pending SIGSTOP.
resume(j) ==
    /\ ipc[j] = "cont"
    /\ stopped' = [k \in Jobs |-> stopped[k] /\ k \notin ByGroup(pid[j])]
    /\ pending' = [k \in Jobs |-> IF k \in ByGroup(pid[j]) THEN pending[k] \ {"STOP"}
                                 ELSE pending[k]]
    /\ expired' = [expired EXCEPT ![j] = FALSE]
    /\ Goto(j, "wait")
    /\ UNCHANGED <<result, pid, synced, cgroupVars, proc, exit, news, dogVars, killVars, alive>>

\* The polling loop has slept time_quantum times.
quantumElapses(j) ==
    /\ ipc[j] = "wait" /\ j \in Quantum /\ ~expired[j]
    /\ expired' = [expired EXCEPT ![j] = TRUE]
    /\ UNCHANGED <<ipc, result, pid, synced, cgroupVars, procVars, dogVars, killVars, alive>>

\* waitpid reports the end of the child and frees its process id.  It cannot return -1:
\* no handler is installed that could interrupt it, and nobody else waits for the child.
waitReap(j) ==
    /\ ipc[j] = "wait" /\ proc[j] = "zombie"
    /\ proc' = [proc EXCEPT ![j] = "reaped"]
    /\ result' = [result EXCEPT ![j] = exit[j]]
    /\ Goto(j, "stop_timeout")
    /\ UNCHANGED <<pid, expired, synced, cgroupVars, exit, stopped, news, pending,
                   dogVars, killVars, alive>>

\* With a quantum waitpid also reports a stop: the job is preempted.
waitStopped(j) ==
    /\ ipc[j] = "wait" /\ j \in Quantum /\ proc[j] \in Running /\ news[j]
    /\ news' = [news EXCEPT ![j] = FALSE]
    /\ result' = [result EXCEPT ![j] = "preempted"]
    /\ Goto(j, "stop_timeout")
    /\ UNCHANGED <<pid, expired, synced, cgroupVars, proc, exit, stopped, pending,
                   dogVars, killVars, alive>>

\* A fault for mutation: preempted as soon as SIGSTOP is sent, not when it is reported.
StopWithoutWaiting(j) ==
    /\ ipc[j] = "wait" /\ expired[j]
    /\ Send("STOP", ByGroup(pid[j]))
    /\ result' = [result EXCEPT ![j] = "preempted"]
    /\ Goto(j, "stop_timeout")
    /\ UNCHANGED <<pid, expired, synced, cgroupVars, proc, exit, stopped, news, dogVars, killVars,
                   alive>>

\* waitpid has reported nothing and the quantum is over: kill(-pid, SIGSTOP), again
\* and again.  It finds no process group until the child has called setpgid, and
\* whatever happened since waitpid looked is noticed in the next iteration.
waitSendStop(j) ==
    /\ ipc[j] = "wait" /\ expired[j]
    /\ Send("STOP", ByGroup(pid[j]))
    /\ UNCHANGED <<callVars, cgroupVars, proc, exit, stopped, news, dogVars, killVars, alive>>

\* Watchdog stop(), explicit after the end of the child or from the destructor:
\* under mtx_, which TimeoutWatchdog holds while it kills, running_ becomes false.
stopDog(j, d, here, join, next) ==
    /\ ipc[j] = here
    /\ IF armed[j][d]
         THEN /\ d = "timeout" => dog[j][d] \notin {"kill_group", "kill_pid"}
              /\ armed' = [armed EXCEPT ![j][d] = FALSE]
              /\ Goto(j, join)
         ELSE Goto(j, next) /\ UNCHANGED armed
    /\ UNCHANGED <<result, pid, expired, synced, cgroupVars, procVars, dog, killVars, alive>>

\* A fault for mutation: the thread is detached.
DetachDog(j, d, here, next) ==
    /\ ipc[j] = here
    /\ Goto(j, next)
    /\ UNCHANGED <<result, pid, expired, synced, cgroupVars, procVars, dogVars, killVars, alive>>

\* stop() joins the thread.
joinDog(j, d, here, next) ==
    /\ ipc[j] = here /\ dog[j][d] = "finished"
    /\ Goto(j, next)
    /\ UNCHANGED <<result, pid, expired, synced, cgroupVars, procVars, dogVars, killVars, alive>>

stopWatchdogs(j) ==
    \/ stopDog(j, "timeout", "stop_timeout", "join_timeout", "stop_anomaly")
    \/ joinDog(j, "timeout", "join_timeout", "stop_anomaly")
    \/ stopDog(j, "anomaly", "stop_anomaly", "join_anomaly", "limiter_kill")
    \/ joinDog(j, "anomaly", "join_anomaly", "limiter_kill")

\* ~CgroupV2Limiter: SIGKILL to every process listed in cgroup.procs, whoever's child
\* it is ...
limiterKill(j) ==
    /\ ipc[j] = "limiter_kill"
    /\ Send("KILL", Members(path[j]))
    /\ purgedBy' = [k \in Jobs |-> IF k \in Members(path[j]) THEN purgedBy[k] \cup {j}
                                  ELSE purgedBy[k]]
    /\ Goto(j, "limiter_remove")
    /\ UNCHANGED <<result, pid, expired, synced, cgroupVars, proc, exit, stopped, news,
                   dogVars, hitBy, alive>>

\* ... then ten attempts to remove the directory, which fail while it has a live
\* member; the directory stays behind if all of them fail.
limiterRemove(j) ==
    /\ ipc[j] = "limiter_remove"
    /\ cgroups' = IF Members(path[j]) = {} THEN cgroups \ {path[j]} ELSE cgroups
    /\ Goto(j, "idle")
    /\ UNCHANGED <<result, pid, expired, synced, path, member, procVars, dogVars, killVars,
                   alive>>

-------------------------------------------------------------------------------
(* The child: child_entry, then the user's program.                        *)

Runs(j, at) == proc[j] = at /\ ~stopped[j]

childUnchanged == <<callVars, cgroupVars, stopped, news, pending, dogVars, killVars, alive>>

Become(j, state, status) ==
    /\ proc' = [proc EXCEPT ![j] = state]
    /\ exit' = [exit EXCEPT ![j] = status]
    /\ UNCHANGED childUnchanged

\* A fault for mutation: the child does not wait for its parent.
ChildDoesNotWait(j) == Runs(j, "blocked") /\ Become(j, "setup", "none")

\* read(sync_fd) returns the byte.  The child inherited the write end too, so it
\* never sees end-of-file: without the byte it waits for ever.
childSync(j) == Runs(j, "blocked") /\ synced[j] /\ Become(j, "setup", "none")

\* Hostname, mounts, pivot_root and redirections, then setpgid(0, 0).
childSetup(j) == Runs(j, "setup") /\ Become(j, "group", "none")

\* setenv, or perror after a failed call, waits for a lock that clone copied while an
\* engine thread held it.
childStuck(j) ==
    /\ "locks" \in Faults
    /\ \/ Runs(j, "setup") /\ Become(j, "stuck", "none")
       \/ "setup" \in Faults /\ Runs(j, "group") /\ Become(j, "stuck_group", "none")

\* One of the setup calls fails: return -1.
childSetupFails(j) ==
    /\ "setup" \in Faults
    /\ Runs(j, "setup")
    /\ Become(j, "zombie", "exited")

\* seccomp_load and execvp; if either fails the child returns -1.
childExec(j) ==
    /\ Runs(j, "group")
    /\ \/ Become(j, "user", "none")
       \/ "setup" \in Faults /\ Become(j, "zombie", "exited")

\* The program ends by itself: exit, SIGSYS from its filter, a fault, the OOM killer.
userExit(j) == Runs(j, "user") /\ \E s \in Statuses : Become(j, "zombie", s)

\* The kernel acts on a pending SIGKILL, also when the child is stopped ...
deliverKill(j) ==
    /\ proc[j] \in Running /\ "KILL" \in pending[j]
    /\ proc' = [proc EXCEPT ![j] = "zombie"]
    /\ exit' = [exit EXCEPT ![j] = "signaled"]
    /\ stopped' = [stopped EXCEPT ![j] = FALSE]
    /\ news' = [news EXCEPT ![j] = FALSE]
    /\ pending' = [pending EXCEPT ![j] = {}]
    /\ UNCHANGED <<callVars, cgroupVars, dogVars, killVars, alive>>

\* ... and on a pending SIGSTOP.
deliverStop(j) ==
    /\ proc[j] \in Running /\ ~stopped[j] /\ "STOP" \in pending[j]
    /\ stopped' = [stopped EXCEPT ![j] = TRUE]
    /\ news' = [news EXCEPT ![j] = TRUE]
    /\ pending' = [pending EXCEPT ![j] = @ \ {"STOP"}]
    /\ UNCHANGED <<callVars, cgroupVars, proc, exit, dogVars, killVars, alive>>

-------------------------------------------------------------------------------
(* The watchdog threads.                                                   *)

DogGoto(j, d, to) ==
    /\ dog' = [dog EXCEPT ![j][d] = to]
    /\ UNCHANGED <<callVars, cgroupVars, proc, exit, stopped, news, armed, purgedBy, alive>>

\* wait_for finds running_ false: the thread returns.
dogStopped(j, d) ==
    /\ dog[j][d] = "waiting" /\ ~armed[j][d]
    /\ DogGoto(j, d, "finished")
    /\ UNCHANGED <<pending, hitBy>>

\* TimeoutWatchdog: wait_for times out with running_ still true; mtx_ stays locked.
dogTimeout(j) ==
    /\ dog[j]["timeout"] = "waiting" /\ armed[j]["timeout"]
    /\ DogGoto(j, "timeout", "kill_group")
    /\ UNCHANGED <<pending, hitBy>>

\* AnomalyWatchdog: 20 ms have passed with running_ true; mtx_ is released.
dogPeriod(j) ==
    /\ dog[j]["anomaly"] = "waiting" /\ armed[j]["anomaly"]
    /\ DogGoto(j, "anomaly", "sampling")
    /\ UNCHANGED <<pending, hitBy>>

\* It reads /proc/<pid>/syscall: whoever has that pid now may be found in a
\* suspicious call if it is a user's program.
dogSample(j) ==
    /\ dog[j]["anomaly"] = "sampling"
    /\ \/ DogGoto(j, "anomaly", "waiting")
       \/ /\ \E k \in Owner(pid[j]) : proc[k] = "user"
          /\ DogGoto(j, "anomaly", "kill_group")
    /\ UNCHANGED <<pending, hitBy>>

DogKill(j, targets) ==
    /\ Send("KILL", targets)
    /\ hitBy' = [k \in Jobs |-> IF k \in targets THEN hitBy[k] \cup {j} ELSE hitBy[k]]

\* kill(-target_pid_, SIGKILL)
dogKillGroup(j, d) ==
    /\ dog[j][d] = "kill_group"
    /\ DogKill(j, ByGroup(pid[j]))
    /\ DogGoto(j, d, "kill_pid")

\* A fault for mutation: only the process group is killed.
KillGroupOnly(j, d) ==
    /\ dog[j][d] = "kill_pid"
    /\ DogGoto(j, d, "finished")
    /\ UNCHANGED <<pending, hitBy>>

\* kill(target_pid_, SIGKILL), after which both watchdogs' threads return.
dogKillPid(j, d) ==
    /\ dog[j][d] = "kill_pid"
    /\ DogKill(j, ByPid(pid[j]))
    /\ DogGoto(j, d, "finished")

-------------------------------------------------------------------------------

\* Everything has been executed, or the engine is gone.
terminated ==
    /\ ~alive \/ \A j \in Jobs : ipc[j] = "idle" /\ result[j] \notin {"none", "preempted"}
    /\ UNCHANGED vars

\* The worker between two states of isolateAndRun it must leave.
workerAdvances(j) ==
    \/ launchFails(j) \/ launch(j) \/ applyToPid(j) \/ startWatchdogs(j) \/ writeSync(j)
    \/ resume(j) \/ stopWatchdogs(j) \/ limiterKill(j) \/ limiterRemove(j)

childAdvances(j) ==
    childSync(j) \/ childSetup(j) \/ childStuck(j) \/ childSetupFails(j) \/ childExec(j)

kernelDelivers(j) == deliverKill(j) \/ deliverStop(j)

dogAdvances(j, d) ==
    \/ dogStopped(j, d) \/ dogKillGroup(j, d) \/ dogKillPid(j, d)
    \/ d = "timeout" /\ dogTimeout(j)
    \/ d = "anomaly" /\ (dogPeriod(j) \/ dogSample(j))

Step(j) ==
    \/ executeBegin(j) \/ workerAdvances(j)
    \/ quantumElapses(j) \/ waitReap(j) \/ waitStopped(j) \/ waitSendStop(j)
    \/ childAdvances(j) \/ userExit(j) \/ kernelDelivers(j)
    \/ \E d \in Dogs : dogAdvances(j, d)

Next == (alive /\ \E j \in Jobs : Step(j)) \/ terminated

Spec == Init /\ [][Next]_vars

\* The kernel runs every thread and the child, delivers signals, and lets time pass;
\* the polling loop looks again after each kill.  Nothing makes a user's program end.
Fairness ==
    \A j \in Jobs :
        /\ WF_vars(alive /\ workerAdvances(j))
        /\ WF_vars(alive /\ quantumElapses(j))
        /\ WF_vars(alive /\ (waitReap(j) \/ waitStopped(j)))
        /\ WF_vars(alive /\ waitSendStop(j))
        /\ WF_vars(alive /\ childAdvances(j))
        /\ WF_vars(alive /\ kernelDelivers(j))
        /\ \A d \in Dogs : WF_vars(alive /\ dogAdvances(j, d))

FairSpec == Spec /\ Fairness

-------------------------------------------------------------------------------
(* Properties.                                                             *)

Final(j) == ipc[j] = "idle" /\ result[j] \notin {"none", "preempted"}

\* The types of the variables.
TypeOK ==
    /\ ipc \in [Jobs -> IPC]
    /\ result \in [Jobs -> Results]
    /\ pid \in [Jobs -> Pids \cup {NoPid}]
    /\ expired \in [Jobs -> BOOLEAN]
    /\ synced \in [Jobs -> BOOLEAN]
    /\ path \in [Jobs -> Jobs \cup {NoName}]
    /\ cgroups \in SUBSET Jobs
    /\ member \in [Jobs -> Jobs \cup {NoName, Refused}]
    /\ proc \in [Jobs -> Running \cup {"none", "zombie", "reaped"}]
    /\ exit \in [Jobs -> Statuses \cup {"none"}]
    /\ stopped \in [Jobs -> BOOLEAN]
    /\ news \in [Jobs -> BOOLEAN]
    /\ pending \in [Jobs -> SUBSET {"KILL", "STOP"}]
    /\ dog \in [Jobs -> [Dogs -> DogStates]]
    /\ armed \in [Jobs -> [Dogs -> BOOLEAN]]
    /\ hitBy \in [Jobs -> SUBSET Jobs]
    /\ purgedBy \in [Jobs -> SUBSET Jobs]
    /\ alive \in BOOLEAN

\* Another job's limiter has the same directory.
Sharing(j) == \E k \in Jobs \ {j} : path[k] = path[j]

\* The sync pipe's purpose: whatever the interleaving of worker and child, the child
\* does not leave child_entry's first read, let alone run the user's program, until
\* both watchdogs watch it and it is in its cgroup, unless the directory could not be
\* made (and is there, if at all, because another limiter has made it since) or the
\* kernel refused the child.
GuardedBeforeSetup ==
    \A j \in Jobs :
        proc[j] \in Running \ {"blocked"} =>
            /\ path[j] \in cgroups => member[j] \in {path[j], Refused} \/ Sharing(j)
            /\ UseWatchdogs => \A d \in Dogs : dog[j][d] # "none"

\* When execute returns a final result nothing of the run is left: the child has been
\* reaped, no watchdog thread can still send a signal, and the cgroup directory is gone
\* or a run that drew the same name has yet to remove it.
NothingLeftBehind ==
    \A j \in Jobs :
        /\ ipc[j] = "idle" => \A d \in Dogs : dog[j][d] \in {"none", "finished"}
        /\ Final(j) =>
              /\ proc[j] \in {"none", "reaped"}
              /\ path[j] \in cgroups => \E k \in Jobs : path[k] = path[j] /\ ~Final(k)

\* While no worker executes a job, its program does not run: it is stopped, with its
\* whole process group, because its quantum was over, and a SIGCONT to the group will
\* find it.
RunsOnlyWhileExecuted ==
    \A j \in Jobs :
        ipc[j] = "idle" /\ proc[j] \in Running =>
            stopped[j] /\ proc[j] \in Grouped /\ expired[j] /\ result[j] = "preempted"

\* Every call of execute returns, although the user's program need not end: the
\* watchdogs end it, or the quantum does.  The exception is a child without watchdogs
\* that waits for a lock before it has called setpgid: no SIGSTOP reaches it.
EveryRunReturns ==
    \A j \in Jobs :
        (ipc[j] # "idle") ~>
            (ipc[j] = "idle" \/ ~alive \/ (~UseWatchdogs /\ proc[j] = "stuck"))

\* A watchdog's SIGKILL reaches the child it was started for.  Process ids are reused,
\* so it may reach another one, but only between the moment waitpid has reaped the
\* watched child and the end of watchdog->stop(): joining the threads closes the window.
StrayKillWindow ==
    [][\A j, k \in Jobs : k \in hitBy'[j] /\ k \notin hitBy[j] /\ k # j =>
          ipc[k] \in {"stop_timeout", "join_timeout", "stop_anomaly", "join_anomaly"}]_vars

\* A run takes the engine down only in two ways: the child was killed while it waited
\* for the sync byte, by a watchdog or by the limiter of another run that drew the same
\* directory name, and SIGPIPE answers the parent's write.  No child can be gone by then
\* of its own accord, whichever of its calls fail.
EngineEndsOnlyByEarlyKill ==
    ~alive => \E j \in Jobs :
                 /\ ipc[j] = "sync"
                 /\ hitBy[j] # {} \/ ("names" \in Faults /\ purgedBy[j] \ {j} # {})

===============================================================================
