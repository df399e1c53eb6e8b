------------------------------- MODULE Limiter -------------------------------
(***************************************************************************)
(* CgroupV2Limiter, one per job in execution: a name drawn from a static   *)
(* generator that the workers share without a lock, a directory of that    *)
(* name made, filled with the caps, joined by the job's child, and in the  *)
(* destructor emptied and removed.  A draw is a load and a store of the    *)
(* generator's index; distinct indices give distinct names.                *)
(***************************************************************************)
EXTENDS Naturals, FiniteSets

CONSTANTS Jobs,      \* the programs that are run, each with a limiter of its own
          MaxTries,  \* attempts to remove the directory: 10 in the code
          Faults     \* what may fail: "directory" (it cannot be made), "caps" (one of the
                     \* files cannot be written), "attach" (the kernel refuses the pid)

ASSUME LimiterAssumption ==
    /\ IsFiniteSet(Jobs)
    /\ MaxTries \in Nat \ {0}
    /\ Faults \in SUBSET {"directory", "caps", "attach"}

VARIABLES
    gen,      \* the index of static std::mt19937 gen
    name,     \* cgroup_path_, as the index its number was drawn at
    at,       \* where each worker is between the constructor and the destructor's end
    tries,    \* the destructor's failed attempts
    dirs,     \* the directories that exist
    caps,     \* those of them with their cpu, memory and pid caps written
    child,    \* the job's child
    member,   \* the directory whose cgroup.procs lists it, 0 for the engine's own
    failed,   \* history: what failed for this limiter
    raced,    \* history: two constructors drew at the same time
    hitBy     \* history: the jobs whose destructor sent this child SIGKILL

vars == <<gen, name, at, tries, dirs, caps, child, member, failed, raced, hitBy>>

Names == 1..Cardinality(Jobs)
Live == {"up", "dying"}
Members(n) == {k \in Jobs : member[k] = n /\ child[k] \in Live}

Init ==
    /\ gen = 1
    /\ name = [j \in Jobs |-> 0]
    /\ at = [j \in Jobs |-> "new"]
    /\ tries = [j \in Jobs |-> 0]
    /\ dirs = {} /\ caps = {}
    /\ child = [j \in Jobs |-> "none"]
    /\ member = [j \in Jobs |-> 0]
    /\ failed = [j \in Jobs |-> {}]
    /\ raced = FALSE
    /\ hitBy = [j \in Jobs |-> {}]

Fails(j, what) == what \in Faults /\ failed' = [failed EXCEPT ![j] = @ \cup {what}]

Advance(j, from, to) == at[j] = from /\ at' = [at EXCEPT ![j] = to]

-----------------------------------------------------------------------------
(* The constructor.                                                        *)

\* Faults for mutation: a generator of its own with the default seed, and the index
\* after the increment.
LoadOwnGenerator(j) ==
    /\ Advance(j, "new", "draw")
    /\ name' = [name EXCEPT ![j] = 1]
    /\ raced' = (raced \/ \E k \in Jobs : at[k] = "draw")
    /\ UNCHANGED <<gen, tries, dirs, caps, child, member, failed, hitBy>>

LoadIncremented(j) ==
    /\ Advance(j, "new", "draw")
    /\ name' = [name EXCEPT ![j] = gen + 1]
    /\ raced' = (raced \/ \E k \in Jobs : at[k] = "draw")
    /\ UNCHANGED <<gen, tries, dirs, caps, child, member, failed, hitBy>>

\* subtree_control is written; dist(gen) loads the generator's index ...
loadIndex(j) ==
    /\ Advance(j, "new", "draw")
    /\ name' = [name EXCEPT ![j] = gen]
    /\ raced' = (raced \/ \E k \in Jobs : at[k] = "draw")
    /\ UNCHANGED <<gen, tries, dirs, caps, child, member, failed, hitBy>>

\* ... and stores the next one.
storeIndex(j) ==
    /\ Advance(j, "draw", "make")
    /\ gen' = name[j] + 1
    /\ UNCHANGED <<name, tries, dirs, caps, child, member, failed, raced, hitBy>>

\* fs::create_directories, no error if the directory is there already; that it cannot be
\* made is printed and the constructor goes on.
makeDirectory(j) ==
    /\ Advance(j, "make", "caps")
    /\ \/ dirs' = dirs \cup {name[j]} /\ UNCHANGED failed
       \/ Fails(j, "directory") /\ UNCHANGED dirs
    /\ UNCHANGED <<gen, name, tries, caps, child, member, raced, hitBy>>

\* cpu.max, memory.max, memory.swap.max and pids.max, if there is a directory to hold
\* them; one that does not open is printed, if that, and the constructor goes on.
writeCaps(j) ==
    /\ Advance(j, "caps", "clone")
    /\ \/ caps' = caps \cup ({name[j]} \cap dirs) /\ UNCHANGED failed
       \/ Fails(j, "caps") /\ UNCHANGED caps
    /\ UNCHANGED <<gen, name, tries, dirs, child, member, raced, hitBy>>

-----------------------------------------------------------------------------
(* isolateAndRun, as far as the limiter is concerned.                      *)

\* clone(); if it fails the limiter is destroyed at once.
clone(j) ==
    /\ \/ Advance(j, "clone", "apply") /\ child' = [child EXCEPT ![j] = "up"]
       \/ Advance(j, "clone", "kill") /\ UNCHANGED child
    /\ UNCHANGED <<gen, name, tries, dirs, caps, member, failed, raced, hitBy>>

\* applyToPid: the child joins the directory of that name, if there is one.  Whether the
\* kernel has taken the pid is not looked at.
applyToPid(j) ==
    /\ Advance(j, "apply", "run")
    /\ \/ /\ member' = [member EXCEPT ![j] = IF name[j] \in dirs /\ child[j] \in Live
                                              THEN name[j] ELSE 0]
          /\ UNCHANGED failed
       \/ Fails(j, "attach") /\ UNCHANGED member
    /\ UNCHANGED <<gen, name, tries, dirs, caps, child, raced, hitBy>>

\* The child ends, by itself, by a watchdog or by a SIGKILL of this module.
childEnds(j) ==
    /\ child[j] \in Live
    /\ child' = [child EXCEPT ![j] = "dead"]
    /\ UNCHANGED <<gen, name, at, tries, dirs, caps, member, failed, raced, hitBy>>

\* A fault for mutation: execute returns although waitpid has not reported the end.
ReturnUnreaped(j) ==
    /\ Advance(j, "run", "kill")
    /\ UNCHANGED <<gen, name, tries, dirs, caps, child, member, failed, raced, hitBy>>

\* waitpid reports it and execute returns.  It cannot return -1 instead: no handler is
\* installed that could interrupt it, and nobody else waits for the child.
reap(j) ==
    /\ child[j] = "dead"
    /\ Advance(j, "run", "kill")
    /\ UNCHANGED <<gen, name, tries, dirs, caps, child, member, failed, raced, hitBy>>

-----------------------------------------------------------------------------
(* The destructor.                                                         *)

\* SIGKILL to every process in cgroup.procs.
killMembers(j) ==
    /\ Advance(j, "kill", "remove")
    /\ child' = [k \in Jobs |-> IF k \in Members(name[j]) THEN "dying" ELSE child[k]]
    /\ hitBy' = [k \in Jobs |-> IF k \in Members(name[j]) THEN hitBy[k] \cup {j} ELSE hitBy[k]]
    /\ UNCHANGED <<gen, name, tries, dirs, caps, member, failed, raced>>

\* fs::remove succeeds on a directory without live members; otherwise, and when
\* there is no such directory, it is tried again.
removeDirectory(j) ==
    /\ at[j] = "remove"
    /\ IF name[j] \in dirs /\ Members(name[j]) = {}
         THEN /\ dirs' = dirs \ {name[j]} /\ caps' = caps \ {name[j]}
              /\ Advance(j, "remove", "gone")
              /\ UNCHANGED tries
         ELSE /\ tries' = [tries EXCEPT ![j] = @ + 1]
              /\ at' = [at EXCEPT ![j] = IF tries'[j] = MaxTries THEN "gone" ELSE "remove"]
              /\ UNCHANGED <<dirs, caps>>
    /\ UNCHANGED <<gen, name, child, member, failed, raced, hitBy>>

-----------------------------------------------------------------------------

terminated == (\A j \in Jobs : at[j] = "gone") /\ UNCHANGED vars

Step(j) ==
    \/ loadIndex(j) \/ storeIndex(j) \/ makeDirectory(j) \/ writeCaps(j)
    \/ clone(j) \/ applyToPid(j) \/ childEnds(j) \/ reap(j)
    \/ killMembers(j) \/ removeDirectory(j)

Next == (\E j \in Jobs : Step(j)) \/ terminated

Spec == Init /\ [][Next]_vars

-----------------------------------------------------------------------------
(* Properties.                                                             *)

\* The types of the variables.
TypeOK ==
    /\ gen \in 1..(Cardinality(Jobs) + 1)
    /\ name \in [Jobs -> Names \cup {0}]
    /\ at \in [Jobs -> {"new", "draw", "make", "caps", "clone", "apply", "run", "kill",
                        "remove", "gone"}]
    /\ tries \in [Jobs -> 0..MaxTries]
    /\ dirs \in SUBSET Names /\ caps \in SUBSET dirs
    /\ child \in [Jobs -> Live \cup {"none", "dead"}]
    /\ member \in [Jobs -> Names \cup {0}]
    /\ failed \in [Jobs -> SUBSET Faults]
    /\ raced \in BOOLEAN
    /\ hitBy \in [Jobs -> SUBSET Jobs]

\* What the names are for: no limiter kills another job's child, no two children share
\* a directory, and a child that runs is a member of a directory with its caps, except
\* for what could not be made, written or joined: a failure takes the membership or the
\* caps from this run and nothing from another.  Only two draws at the same moment can
\* break this; afterwards later draws may collide as well, since a late store sets the
\* generator back.
SeparateUnlessRaced ==
    raced \/ \A j \in Jobs :
        /\ hitBy[j] = {}
        /\ member[j] # 0 => \A k \in Jobs \ {j} : member[k] # member[j]
        /\ at[j] = "run" /\ child[j] \in Live =>
              /\ failed[j] \cap {"directory", "attach"} = {} => member[j] = name[j]
              /\ failed[j] \cap {"directory", "caps"} = {} => name[j] \in caps

\* Whatever the names, when the last limiter is gone so is every directory: one that
\* gives up after its attempts has met a member whose own limiter comes after it.
NoDirectoryLeft ==
    (\A j \in Jobs : at[j] \in {"new", "gone"}) => dirs = {}

==============================================================================
