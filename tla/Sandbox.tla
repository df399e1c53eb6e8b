------------------------------- MODULE Sandbox -------------------------------
(***************************************************************************)
(* What concurrent children share on the host's file system: every         *)
(* child_entry makes, mounts on and removes one directory oldroot in the   *)
(* one root file system, and writes its output to a file there whose       *)
(* number comes from file_counter and which isolateAndRun reads and        *)
(* deletes.  A watchdog may kill a child at any moment.  exit at the       *)
(* prompt leaves children behind that run on; the next engine counts from  *)
(* 1 again in the same directory.  All programs run as one user in that    *)
(* root file system: a program, or the redirection it is started with, can *)
(* reach every file there.                                                 *)
(***************************************************************************)
EXTENDS Naturals, FiniteSets

CONSTANTS Jobs,       \* the programs that are run, each once
          Meddlers,   \* the ones that touch files of the root which are not theirs
          MaxActive,  \* worker threads: how many run at a time
          MaxStarts   \* bound: how often the engine is started

ASSUME SandboxAssumption ==
    /\ IsFiniteSet(Jobs) /\ Meddlers \subseteq Jobs
    /\ MaxActive \in Nat \ {0}
    /\ MaxStarts \in Nat \ {0}

VARIABLES
    starts,        \* how often the engine has been started
    file_counter,  \* static std::atomic<int> file_counter
    unique_id,     \* Job::unique_id
    rootfs,        \* absolute_rootfs, as the directory it was made in
    orphans,       \* the children whose engine is gone
    at,            \* the next call of the child, then of its parent
    failed,        \* the children whose setup calls failed: child_entry returned -1
    oldroot,       \* what rootfs/oldroot is
    mounted,       \* the children whose former root is mounted on oldroot
    opened,        \* the children whose stdout is their output file
    files,         \* rootfs/tmp/isolyx_out_<n>, unless spoilt: whose output is in it
    stdout_out,    \* ExecutionResult::stdout_out, as the children it came from
    overlapped,    \* history: the children that set up while another one did
    tampered,      \* history: a program touched oldroot
    spoilt         \* history: the numbers whose output file a program touched by name

engineVars == <<starts, file_counter, unique_id, rootfs, orphans,
                overlapped, tampered, spoilt>>
vars == <<engineVars, at, failed, oldroot, mounted, opened, files, stdout_out>>

\* oldroot is empty as child_entry makes it; full stands for a directory rmdir refuses
\* (with something in it, or reached by a link), file for what is no directory.
Directory == {"empty", "full"}

Numbers == 1..Cardinality(Jobs)
SetupAt == {"mkdir", "pivot_root", "umount2", "rmdir"}
ChildAt == SetupAt \cup {"open", "user"}
Active == {j \in Jobs \ orphans : at[j] \in ChildAt \cup {"dead"}}
InSetup == {j \in Jobs : at[j] \in SetupAt}

Init ==
    /\ starts = 1 /\ file_counter = 1
    /\ unique_id = [j \in Jobs |-> 0]
    /\ rootfs = [j \in Jobs |-> "home"]
    /\ orphans = {}
    /\ overlapped = {} /\ tampered = FALSE /\ spoilt = {}
    /\ at = [j \in Jobs |-> "new"]
    /\ failed = {}
    /\ oldroot = "absent"
    /\ mounted = {}
    /\ opened = {}
    /\ files = [n \in Numbers |-> {}]
    /\ stdout_out = [j \in Jobs |-> {}]

Advance(j, from, to) == at[j] = from /\ at' = [at EXCEPT ![j] = to]

\* The child is gone, and with its mount namespace its mounts.
Die(j) ==
    /\ at' = [at EXCEPT ![j] = "dead"]
    /\ mounted' = mounted \ {j}
    /\ opened' = opened \ {j}

-------------------------------------------------------------------------------

\* A setup call fails: return -1.
SetupFails(j) == Die(j) /\ failed' = failed \cup {j}

\* exit(0) while jobs run, and a new engine: its counter is new, the children are not.
restart ==
    /\ starts < MaxStarts
    /\ starts' = starts + 1
    /\ file_counter' = 1
    /\ orphans' = orphans \cup Active
    /\ UNCHANGED <<unique_id, rootfs, overlapped, tampered, spoilt, at, failed, oldroot,
                   mounted, opened, files, stdout_out>>

\* The working directory of the whole process: cd, at the prompt or from the command
\* pipe, changes it between any two launches, to one that has a rootfs_base or not.
WorkingDirectories == {"home", "away"}

\* isolateAndRun asks prepareRootfs for the path and clones the child.
Clone(j) ==
    /\ Cardinality(Active) < MaxActive
    /\ Advance(j, "new", "mkdir")
    /\ \E cwd \in WorkingDirectories : rootfs' = [rootfs EXCEPT ![j] = cwd]
    /\ overlapped' = overlapped \cup (IF InSetup = {} THEN {} ELSE InSetup \cup {j})
    /\ UNCHANGED <<starts, orphans, tampered, spoilt, failed, oldroot, mounted, opened,
                   files, stdout_out>>

\* Faults for mutation: the number after the increment, and no increment.
LaunchPreIncrement(j) ==
    /\ Clone(j)
    /\ unique_id' = [unique_id EXCEPT ![j] = file_counter + 1]
    /\ file_counter' = file_counter + 1

LaunchSameNumber(j) ==
    /\ Clone(j)
    /\ unique_id' = [unique_id EXCEPT ![j] = file_counter]
    /\ UNCHANGED file_counter

\* The job's files are numbered with file_counter.fetch_add(1), then clone().
launch(j) ==
    /\ Clone(j)
    /\ unique_id' = [unique_id EXCEPT ![j] = file_counter]
    /\ file_counter' = file_counter + 1

\* pipe() fails, or clone() does, after the number is drawn: the result is reported as
\* it was initialised.
launchFails(j) ==
    /\ Cardinality(Active) < MaxActive
    /\ Advance(j, "new", "collected")
    /\ \/ UNCHANGED <<unique_id, file_counter>>
       \/ /\ unique_id' = [unique_id EXCEPT ![j] = file_counter]
          /\ file_counter' = file_counter + 1
    /\ UNCHANGED <<starts, rootfs, orphans, overlapped, tampered, spoilt, failed, oldroot,
                   mounted, opened, files, stdout_out>>

\* A fault for mutation: an oldroot that is there already is an error.
MakeOldrootStrict(j) ==
    /\ at[j] = "mkdir"
    /\ IF rootfs[j] = "home" /\ oldroot = "absent"
         THEN /\ Advance(j, "mkdir", "pivot_root")
              /\ oldroot' = "empty"
              /\ UNCHANGED <<failed, mounted, opened>>
         ELSE SetupFails(j) /\ UNCHANGED oldroot
    /\ UNCHANGED <<engineVars, files, stdout_out>>

\* The child's hostname and mounts, which fail where there is no rootfs_base, then
\* mkdir("oldroot"), whose failure (EEXIST, whatever is there) is ignored.
makeOldroot(j) ==
    /\ at[j] = "mkdir"
    /\ IF rootfs[j] = "home"
         THEN /\ Advance(j, "mkdir", "pivot_root")
              /\ oldroot' = IF oldroot = "absent" THEN "empty" ELSE oldroot
              /\ UNCHANGED <<failed, mounted, opened>>
         ELSE SetupFails(j) /\ UNCHANGED oldroot
    /\ UNCHANGED <<engineVars, files, stdout_out>>

\* pivot_root(".", "oldroot") and chdir("/"); without the directory: return -1.
pivotRoot(j) ==
    /\ at[j] = "pivot_root"
    /\ IF oldroot \in Directory
         THEN /\ Advance(j, "pivot_root", "umount2")
              /\ mounted' = mounted \cup {j}
              /\ UNCHANGED <<failed, opened>>
         ELSE SetupFails(j)
    /\ UNCHANGED <<engineVars, oldroot, files, stdout_out>>

\* umount2("oldroot", MNT_DETACH); if the name is gone or nothing of this child's
\* namespace is mounted there: return -1.
umountOldroot(j) ==
    /\ at[j] = "umount2"
    /\ IF oldroot \in Directory /\ j \in mounted
         THEN /\ Advance(j, "umount2", "rmdir")
              /\ mounted' = mounted \ {j}
              /\ UNCHANGED <<failed, opened>>
         ELSE SetupFails(j)
    /\ UNCHANGED <<engineVars, oldroot, files, stdout_out>>

\* rmdir("oldroot"), whose failure is ignored: the kernel refuses for what is not an
\* empty directory and for a mount in the caller's own namespace only; the mounts of
\* other namespaces on the directory are detached with it.
removeOldroot(j) ==
    /\ Advance(j, "rmdir", "open")
    /\ IF oldroot = "empty"
         THEN oldroot' = "absent" /\ mounted' = {}
         ELSE UNCHANGED <<oldroot, mounted>>
    /\ UNCHANGED <<engineVars, failed, opened, files, stdout_out>>

\* What a program that meddles can do to the shared root: take over the name of any
\* output file (write to it, truncate, remove, rename or link it), or make anything of
\* oldroot, the mounts of other namespaces on it kept or detached.
Touch(j) ==
    /\ j \in Meddlers
    /\ \/ /\ \E n \in Numbers : /\ spoilt' = spoilt \cup {n}
                               /\ files' = [files EXCEPT ![n] = {}]
          /\ UNCHANGED <<tampered, oldroot, mounted>>
       \/ /\ oldroot' \in Directory \cup {"absent", "file"}
          /\ mounted' \in {mounted, {}}
          /\ tampered' = TRUE /\ UNCHANGED <<spoilt, files>>
    /\ UNCHANGED <<starts, file_counter, unique_id, rootfs, orphans, overlapped>>

\* The redirection of the output or, without one, the job's own output file with
\* O_TRUNC, whose failure is ignored; then the same for stderr.
openOutput(j) ==
    /\ Advance(j, "open", "user")
    /\ \/ /\ files' = [files EXCEPT ![unique_id[j]] = {}]
          /\ opened' = opened \cup {j}
          /\ UNCHANGED <<engineVars, oldroot, mounted>>
       \/ UNCHANGED <<files, opened, engineVars, oldroot, mounted>>
       \/ Touch(j) /\ UNCHANGED opened
    /\ UNCHANGED <<failed, stdout_out>>

\* The redirection of the output fails: return -1.
redirectFails(j) ==
    /\ at[j] = "open"
    /\ Die(j)
    /\ UNCHANGED <<engineVars, failed, oldroot, files, stdout_out>>

\* The user's program writes to its stdout.  What is written under a spoilt name is part
\* of what Content allows there.
writeOutput(j) ==
    /\ at[j] = "user" /\ j \in opened /\ unique_id[j] \notin spoilt
    /\ files' = [files EXCEPT ![unique_id[j]] = @ \cup {j}]
    /\ UNCHANGED <<engineVars, at, failed, oldroot, mounted, opened, stdout_out>>

\* The user's program touches what is not its own.
meddle(j) ==
    /\ at[j] = "user"
    /\ Touch(j)
    /\ UNCHANGED <<at, failed, opened, stdout_out>>

\* The user's program ends, or never began: the redirection of the input failed.
programEnds(j) ==
    /\ at[j] = "user"
    /\ Die(j)
    /\ UNCHANGED <<engineVars, failed, oldroot, files, stdout_out>>

\* A watchdog kills the child, wherever it is.
killed(j) ==
    /\ at[j] \in ChildAt /\ j \notin orphans
    /\ Die(j)
    /\ UNCHANGED <<engineVars, failed, oldroot, files, stdout_out>>

\* What is read under the name of an output file: once a program has taken the name over
\* it may lead to the output of any child, at worst of all.
Content(n) == IF n \in spoilt THEN {k \in Jobs : at[k] # "new"} ELSE files[n]

\* The parent has reaped the child: read_and_delete.  A child of an earlier engine that
\* has the deleted file open writes where nobody looks.
collect(j) ==
    /\ j \notin orphans
    /\ Advance(j, "dead", "collected")
    /\ IF rootfs[j] = "home"
         THEN /\ stdout_out' = [stdout_out EXCEPT ![j] = Content(unique_id[j])]
              /\ files' = [files EXCEPT ![unique_id[j]] = {}]
              /\ opened' = {k \in opened : unique_id[k] # unique_id[j]}
         ELSE UNCHANGED <<stdout_out, files, opened>>
    /\ UNCHANGED <<engineVars, failed, oldroot, mounted>>

terminated ==
    /\ \A j \in Jobs : at[j] = "collected" \/ j \in orphans
    /\ UNCHANGED vars

childStep(j) ==
    \/ makeOldroot(j) \/ pivotRoot(j) \/ umountOldroot(j) \/ removeOldroot(j)
    \/ openOutput(j) \/ redirectFails(j) \/ writeOutput(j) \/ meddle(j)
    \/ programEnds(j)

Next ==
    \/ restart \/ terminated
    \/ \E j \in Jobs :
          launch(j) \/ launchFails(j) \/ childStep(j) \/ killed(j) \/ collect(j)

Spec == Init /\ [][Next]_vars

-------------------------------------------------------------------------------
(* Properties.                                                             *)

\* The types of the variables.
TypeOK ==
    /\ starts \in 1..MaxStarts
    /\ file_counter \in 1..(Cardinality(Jobs) + 1)
    /\ unique_id \in [Jobs -> Numbers \cup {0}]
    /\ rootfs \in [Jobs -> WorkingDirectories]
    /\ orphans \in SUBSET Jobs /\ overlapped \in SUBSET Jobs
    /\ tampered \in BOOLEAN /\ spoilt \in SUBSET Numbers
    /\ at \in [Jobs -> ChildAt \cup {"new", "dead", "collected"}]
    /\ failed \in SUBSET Jobs
    /\ oldroot \in Directory \cup {"absent", "file"}
    /\ mounted \in SUBSET Jobs
    /\ opened \in SUBSET Jobs
    /\ files \in [Numbers -> SUBSET Jobs]
    /\ stdout_out \in [Jobs -> SUBSET Jobs]

\* The output reported for a job was written by that job's program, although all
\* jobs share one directory, some die before they open their file, and some fail to.
\* It takes a program that touched the output file of that very number by its name, or
\* a child an earlier engine left behind under the same number, to put in anything else.
OutputIsOwn ==
    \A j \in Jobs : \A k \in stdout_out[j] \ {j} :
        \/ unique_id[j] \in spoilt
        \/ k \in orphans /\ unique_id[k] = unique_id[j]

\* What a killed, failed or abandoned child leaves in the root file system never makes
\* a later setup fail: that takes a child that sets up at the same time, a working
\* directory without rootfs_base, or a program that touched oldroot.
SetupFailsOnlyOverlapped ==
    \A j \in failed : j \in overlapped \/ rootfs[j] = "away" \/ tampered

\* A child that is not killed gets through its setup: no other job, running, finished or
\* killed in the middle of its own, can make its setup calls fail.
SetupSucceeds == \A j \in failed : rootfs[j] = "away"

==============================================================================
