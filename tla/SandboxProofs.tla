---------------------------- MODULE SandboxProofs ----------------------------
(***************************************************************************)
(* Proofs about what concurrent children share on the host's file system,  *)
(* for any number of jobs, worker threads and restarts of the engine, and  *)
(* any set of programs that meddle with the shared root.                   *)
(*                                                                         *)
(* Two arguments carry them.  An output file nobody took over holds output *)
(* only of children that have its number and are not collected yet, and    *)
(* among the children of one engine the number is unique: whatever else is *)
(* in a job's file is an orphan's.  And as long as no program touches it   *)
(* only a child in its own setup takes oldroot away, so a child that never *)
(* overlapped another one's setup still has it.                            *)
(***************************************************************************)
EXTENDS Sandbox, FiniteSetTheorems, TLAPS

Launched == {j \in Jobs : at[j] # "new"}

\* Every number was drawn for a job of its own.
CountShape == file_counter <= Cardinality(Launched) + 1

\* The running engine's children have different numbers, all below the counter's.
NumberShape ==
    \A j \in Active :
        /\ unique_id[j] < file_counter
        /\ \A k \in Active \ {j} : unique_id[k] # unique_id[j]

\* A file holds output of children with its number, not yet collected; they got to
\* their program, so they ran in rootfs_base.
FileShape ==
    \A n \in Numbers : \A k \in files[n] :
        unique_id[k] = n /\ at[k] \in {"user", "dead"} /\ rootfs[k] = "home"

\* What is known of one job from where it is.
JobShape(j) ==
    /\ at[j] = "new" => stdout_out[j] = {} /\ j \notin orphans /\ j \notin failed
    /\ at[j] \notin {"new", "collected"} => unique_id[j] # 0
    /\ at[j] \in ChildAt \ {"mkdir"} => rootfs[j] = "home"

\* A child that never overlapped is alone in its setup and has the oldroot it made, and
\* on it the mount it made, unless a program took them away.
SetupShape ==
    \A j \in InSetup \ overlapped :
        /\ InSetup = {j}
        /\ at[j] = "pivot_root" => tampered \/ oldroot \in Directory
        /\ at[j] = "umount2" => tampered \/ (oldroot \in Directory /\ j \in mounted)

\* Nothing but an empty directory is ever at oldroot, as far as the children's setups go.
RootShape == tampered \/ oldroot \in {"absent", "empty"}

SandboxInv ==
    /\ TypeOK /\ CountShape /\ NumberShape /\ FileShape /\ SetupShape /\ RootShape
    /\ \A j \in Jobs : JobShape(j)
    /\ OutputIsOwn
    /\ SetupFailsOnlyOverlapped

-----------------------------------------------------------------------------

(* Counting the numbers that are drawn.                                    *)

Places == ChildAt \cup {"new", "dead", "collected"}
Kinds == Directory \cup {"absent", "file"}

\* Which jobs have been launched is a part of a finite set.
LEMMA LaunchedFacts ==
    /\ IsFiniteSet(Launched)
    /\ Cardinality(Launched) \in Nat /\ Cardinality(Jobs) \in Nat
    /\ Cardinality(Launched) <= Cardinality(Jobs)
    /\ \A j \in Jobs : j \notin Launched => Cardinality(Launched) < Cardinality(Jobs)
<1>1. IsFiniteSet(Jobs) /\ Launched \in SUBSET Jobs
  BY SandboxAssumption DEF Launched
<1>2. /\ IsFiniteSet(Launched) /\ Cardinality(Launched) <= Cardinality(Jobs)
      /\ Cardinality(Jobs) = Cardinality(Launched) => Jobs = Launched
  BY <1>1, FS_Subset
<1>3. Cardinality(Launched) \in Nat /\ Cardinality(Jobs) \in Nat
  BY <1>1, <1>2, FS_CardinalityType
<1>. QED  BY <1>2, <1>3

\* The parts of the type invariant the other lemmas use.
LEMMA Types ==
    ASSUME SandboxInv
    PROVE  /\ file_counter \in Nat /\ at \in [Jobs -> Places]
           /\ unique_id \in [Jobs -> Nat] /\ rootfs \in [Jobs -> WorkingDirectories]
           /\ failed \in SUBSET Jobs /\ tampered \in BOOLEAN /\ spoilt \in SUBSET Numbers
           /\ orphans \in SUBSET Jobs /\ overlapped \in SUBSET Jobs
           /\ oldroot \in Kinds /\ mounted \in SUBSET Jobs /\ opened \in SUBSET Jobs
           /\ files \in [Numbers -> SUBSET Jobs] /\ stdout_out \in [Jobs -> SUBSET Jobs]
           /\ \A j \in Jobs : at[j] \notin {"new", "collected"} => unique_id[j] \in Numbers
<1>1. TypeOK
  BY DEF SandboxInv
<1>2. unique_id \in [Jobs -> Numbers \cup {0}]
  BY <1>1 DEF TypeOK
<1>3. file_counter \in Nat /\ unique_id \in [Jobs -> Nat]
  BY <1>1, <1>2, LaunchedFacts DEF TypeOK, Numbers
<1>4. \A j \in Jobs : at[j] \notin {"new", "collected"} => unique_id[j] \in Numbers
  BY <1>2 DEF SandboxInv, JobShape
<1>. QED  BY <1>1, <1>3, <1>4 DEF TypeOK, Places, Kinds

\* Steps of children and their parents draw no number, and nobody comes back to life.
LEMMA NumbersKept ==
    ASSUME SandboxInv, UNCHANGED <<file_counter, unique_id, orphans>>,
           NEW j \in Jobs, at[j] \in ChildAt \cup {"dead"},
           NEW to \in ChildAt \cup {"dead", "collected"}, at' = [at EXCEPT ![j] = to]
    PROVE  CountShape' /\ NumberShape'
<1>1. at \in [Jobs -> Places]
  BY Types
<1>2. /\ at' \in [Jobs -> Places]
      /\ \A k \in Jobs \ {j} : at'[k] = at[k]
      /\ at'[j] = to
  BY <1>1 DEF Places
<1>3. at[j] # "new" /\ to # "new"
  BY DEF ChildAt, SetupAt
<1>4. Launched' = Launched
  BY <1>2, <1>3 DEF Launched
<1>5. CountShape'
  BY <1>4 DEF SandboxInv, CountShape
<1>6. Active' \subseteq Active
  BY <1>2 DEF Active
<1>7. NumberShape'
  <2>1. /\ \A k \in Active : unique_id[k] < file_counter
        /\ \A k, l \in Active : k # l => unique_id[l] # unique_id[k]
    BY DEF SandboxInv, NumberShape
  <2>. QED  BY <1>6, <2>1 DEF NumberShape
<1>. QED  BY <1>5, <1>7

-----------------------------------------------------------------------------
(* Steps of a child.                                                       *)

\* A child may end at any moment: what it wrote stays, and it is out of everyone's way.
LEMMA DieStep ==
    ASSUME SandboxInv, NEW j \in Jobs, at[j] \in ChildAt,
           Die(j), UNCHANGED <<engineVars, oldroot, files, stdout_out>>,
           \/ failed' = failed
           \/ /\ failed' = failed \cup {j}
              /\ j \in overlapped \/ rootfs[j] = "away" \/ tampered
    PROVE  SandboxInv'
<1>1. /\ at' = [at EXCEPT ![j] = "dead"]
      /\ mounted' = mounted \ {j} /\ opened' = opened \ {j}
  BY DEF Die
<1>2. /\ starts' = starts /\ file_counter' = file_counter
      /\ unique_id' = unique_id /\ rootfs' = rootfs /\ orphans' = orphans
      /\ overlapped' = overlapped /\ oldroot' = oldroot /\ files' = files
      /\ stdout_out' = stdout_out /\ tampered' = tampered /\ spoilt' = spoilt
  BY DEF engineVars
<1>3. /\ at' \in [Jobs -> Places] /\ at'[j] = "dead"
      /\ \A k \in Jobs \ {j} : at'[k] = at[k] /\ (k \in failed' <=> k \in failed)
      /\ failed' \in SUBSET Jobs
      /\ mounted' \in SUBSET Jobs /\ opened' \in SUBSET Jobs
  BY <1>1, Types DEF Places
<1>4. TypeOK'
  <2>1. TypeOK
    BY DEF SandboxInv
  <2>. QED  BY <1>2, <1>3, <2>1 DEF TypeOK, Places
<1>5. CountShape' /\ NumberShape'
  BY <1>1, <1>2, NumbersKept
<1>6. FileShape'
  <2>1. \A n \in Numbers : \A k \in files[n] : k \in Jobs
    BY Types
  <2>. QED  BY <1>2, <1>3, <2>1 DEF SandboxInv, FileShape
<1>7. SetupShape'
  <2>1. InSetup' = InSetup \ {j}
    BY <1>3 DEF InSetup, SetupAt
  <2>2. ASSUME NEW k \in InSetup', k \notin overlapped
        PROVE  /\ InSetup' = {k}
               /\ at'[k] = "pivot_root" => tampered \/ oldroot \in Directory
               /\ at'[k] = "umount2" => tampered \/ (oldroot \in Directory /\ k \in mounted')
    <3>1. k \in InSetup /\ k # j /\ k \in Jobs
      BY <2>1, <2>2 DEF InSetup
    <3>2. /\ InSetup = {k}
          /\ at[k] = "pivot_root" => tampered \/ oldroot \in Directory
          /\ at[k] = "umount2" => tampered \/ (oldroot \in Directory /\ k \in mounted)
      BY <2>2, <3>1 DEF SandboxInv, SetupShape
    <3>. QED  BY <1>1, <1>3, <2>1, <3>1, <3>2
  <2>. QED  BY <1>2, <2>2 DEF SetupShape
<1>8. \A k \in Jobs : JobShape(k)'
  BY <1>2, <1>3 DEF SandboxInv, JobShape, ChildAt, SetupAt
<1>9. OutputIsOwn' /\ RootShape'
  BY <1>2 DEF SandboxInv, OutputIsOwn, RootShape
<1>10. SetupFailsOnlyOverlapped'
  BY <1>2, <1>3 DEF SandboxInv, SetupFailsOnlyOverlapped
<1>. QED  BY <1>4, <1>5, <1>6, <1>7, <1>8, <1>9, <1>10 DEF SandboxInv

\* A setup call that succeeds: what remains to show is the setup's own invariant.
LEMMA SetupCall ==
    ASSUME SandboxInv, NEW j \in Jobs, at[j] \in SetupAt, rootfs[j] = "home",
           NEW to \in {"pivot_root", "umount2", "rmdir", "open"},
           at' = [at EXCEPT ![j] = to],
           UNCHANGED <<engineVars, failed, opened, files, stdout_out>>,
           mounted' \in SUBSET Jobs, oldroot' \in Kinds, RootShape', SetupShape'
    PROVE  SandboxInv'
<1>1. /\ starts' = starts /\ file_counter' = file_counter
      /\ unique_id' = unique_id /\ rootfs' = rootfs /\ orphans' = orphans
      /\ overlapped' = overlapped /\ failed' = failed /\ opened' = opened
      /\ files' = files /\ stdout_out' = stdout_out
      /\ tampered' = tampered /\ spoilt' = spoilt
  BY DEF engineVars
<1>2. /\ at' \in [Jobs -> Places] /\ at'[j] = to
      /\ \A k \in Jobs \ {j} : at'[k] = at[k]
  BY Types DEF Places, ChildAt, SetupAt
<1>3. at[j] \in ChildAt /\ to \in ChildAt
  BY DEF ChildAt, SetupAt
<1>4. TypeOK'
  <2>1. TypeOK
    BY DEF SandboxInv
  <2>. QED  BY <1>1, <1>2, <2>1 DEF TypeOK, Places, Kinds
<1>5. CountShape' /\ NumberShape'
  BY <1>1, <1>3, NumbersKept
<1>6. FileShape'
  <2>1. \A n \in Numbers : \A k \in files[n] : k \in Jobs /\ k # j
    BY Types DEF SandboxInv, FileShape, SetupAt
  <2>. QED  BY <1>1, <1>2, <2>1 DEF SandboxInv, FileShape
<1>7. \A k \in Jobs : JobShape(k)'
  BY <1>1, <1>2, <1>3 DEF SandboxInv, JobShape, ChildAt, SetupAt
<1>8. OutputIsOwn' /\ SetupFailsOnlyOverlapped'
  BY <1>1 DEF SandboxInv, OutputIsOwn, SetupFailsOnlyOverlapped
<1>. QED  BY <1>4, <1>5, <1>6, <1>7, <1>8 DEF SandboxInv

\* mkdir("oldroot"): the directory is there, whoever made it, unless a program put
\* something else in its place.
LEMMA MakeOldrootStep ==
    ASSUME SandboxInv, NEW j \in Jobs, makeOldroot(j)
    PROVE  SandboxInv'
<1>1. at[j] = "mkdir" /\ at[j] \in SetupAt /\ at[j] \in ChildAt
  BY DEF makeOldroot, ChildAt, SetupAt
<1>2. CASE rootfs[j] = "home"
  <2>1. /\ at' = [at EXCEPT ![j] = "pivot_root"]
        /\ oldroot' = IF oldroot = "absent" THEN "empty" ELSE oldroot
        /\ UNCHANGED <<engineVars, failed, mounted, opened, files, stdout_out>>
    BY <1>2 DEF makeOldroot, Advance
  <2>2. \A k \in Jobs : at'[k] = IF k = j THEN "pivot_root" ELSE at[k]
    BY <2>1, Types
  <2>3. InSetup' = InSetup
    BY <1>1, <2>2 DEF InSetup, SetupAt
  <2>4. SetupShape'
    BY <1>1, <2>1, <2>2, <2>3 DEF SandboxInv, SetupShape, RootShape, InSetup, engineVars,
                                         Directory
  <2>5. oldroot' \in Kinds /\ mounted' \in SUBSET Jobs
    BY <2>1, Types DEF Kinds, Directory
  <2>6. RootShape'
    BY <2>1 DEF SandboxInv, RootShape, engineVars
  <2>. QED  BY <1>1, <1>2, <2>1, <2>4, <2>5, <2>6, SetupCall
<1>3. CASE rootfs[j] # "home"
  <2>1. rootfs[j] = "away"
    BY <1>3, Types DEF WorkingDirectories
  <2>2. /\ Die(j) /\ failed' = failed \cup {j}
        /\ UNCHANGED <<engineVars, oldroot, files, stdout_out>>
    BY <1>3 DEF makeOldroot, SetupFails
  <2>. QED  BY <1>1, <2>1, <2>2, DieStep
<1>. QED  BY <1>2, <1>3

\* pivot_root(".", "oldroot"): without an overlap the directory is still there.
LEMMA PivotRootStep ==
    ASSUME SandboxInv, NEW j \in Jobs, pivotRoot(j)
    PROVE  SandboxInv'
<1>1. at[j] = "pivot_root" /\ at[j] \in SetupAt /\ at[j] \in ChildAt \ {"mkdir"}
  BY DEF pivotRoot, ChildAt, SetupAt
<1>2. rootfs[j] = "home" /\ j \in InSetup
  BY <1>1 DEF SandboxInv, JobShape, InSetup
<1>3. CASE oldroot \in Directory
  <2>1. /\ at' = [at EXCEPT ![j] = "umount2"] /\ mounted' = mounted \cup {j}
        /\ UNCHANGED <<engineVars, failed, oldroot, opened, files, stdout_out>>
    BY <1>3 DEF pivotRoot, Advance
  <2>2. \A k \in Jobs : at'[k] = IF k = j THEN "umount2" ELSE at[k]
    BY <2>1, Types
  <2>3. InSetup' = InSetup
    BY <1>1, <2>2 DEF InSetup, SetupAt
  <2>4. SetupShape'
    BY <1>1, <1>3, <2>1, <2>2, <2>3 DEF SandboxInv, SetupShape, InSetup, engineVars
  <2>5. mounted' \in SUBSET Jobs /\ oldroot' \in Kinds /\ RootShape'
    BY <2>1, Types DEF SandboxInv, RootShape, engineVars
  <2>. QED  BY <1>1, <1>2, <2>1, <2>4, <2>5, SetupCall
<1>4. CASE oldroot \notin Directory
  <2>1. j \in overlapped \/ tampered
    BY <1>1, <1>2, <1>4 DEF SandboxInv, SetupShape
  <2>2. /\ Die(j) /\ failed' = failed \cup {j}
        /\ UNCHANGED <<engineVars, oldroot, files, stdout_out>>
    BY <1>4 DEF pivotRoot, SetupFails
  <2>. QED  BY <1>1, <2>1, <2>2, DieStep
<1>. QED  BY <1>3, <1>4

\* umount2("oldroot", MNT_DETACH): without an overlap nobody else has detached it.
LEMMA UmountStep ==
    ASSUME SandboxInv, NEW j \in Jobs, umountOldroot(j)
    PROVE  SandboxInv'
<1>1. at[j] = "umount2" /\ at[j] \in SetupAt /\ at[j] \in ChildAt \ {"mkdir"}
  BY DEF umountOldroot, ChildAt, SetupAt
<1>2. rootfs[j] = "home" /\ j \in InSetup
  BY <1>1 DEF SandboxInv, JobShape, InSetup
<1>3. CASE oldroot \in Directory /\ j \in mounted
  <2>1. /\ at' = [at EXCEPT ![j] = "rmdir"] /\ mounted' = mounted \ {j}
        /\ UNCHANGED <<engineVars, failed, oldroot, opened, files, stdout_out>>
    BY <1>3 DEF umountOldroot, Advance
  <2>2. \A k \in Jobs : at'[k] = IF k = j THEN "rmdir" ELSE at[k]
    BY <2>1, Types
  <2>3. InSetup' = InSetup
    BY <1>1, <2>2 DEF InSetup, SetupAt
  <2>4. SetupShape'
    BY <1>1, <1>3, <2>1, <2>2, <2>3 DEF SandboxInv, SetupShape, InSetup, engineVars
  <2>5. mounted' \in SUBSET Jobs /\ oldroot' \in Kinds /\ RootShape'
    BY <2>1, Types DEF SandboxInv, RootShape, engineVars
  <2>. QED  BY <1>1, <1>2, <2>1, <2>4, <2>5, SetupCall
<1>4. CASE ~(oldroot \in Directory /\ j \in mounted)
  <2>1. j \in overlapped \/ tampered
    BY <1>1, <1>2, <1>4 DEF SandboxInv, SetupShape
  <2>2. /\ Die(j) /\ failed' = failed \cup {j}
        /\ UNCHANGED <<engineVars, oldroot, files, stdout_out>>
    BY <1>4 DEF umountOldroot, SetupFails
  <2>. QED  BY <1>1, <2>1, <2>2, DieStep
<1>. QED  BY <1>3, <1>4

\* rmdir("oldroot") takes the directory from every other child in its setup: all of
\* them overlap with this one.
LEMMA RemoveOldrootStep ==
    ASSUME SandboxInv, NEW j \in Jobs, removeOldroot(j)
    PROVE  SandboxInv'
<1>1. at[j] = "rmdir" /\ at[j] \in SetupAt /\ at[j] \in ChildAt \ {"mkdir"}
  BY DEF removeOldroot, Advance, ChildAt, SetupAt
<1>2. rootfs[j] = "home" /\ j \in InSetup
  BY <1>1 DEF SandboxInv, JobShape, InSetup
<1>3. /\ at' = [at EXCEPT ![j] = "open"]
      /\ UNCHANGED <<engineVars, failed, opened, files, stdout_out>>
  BY DEF removeOldroot, Advance
<1>4. mounted' \in SUBSET Jobs /\ oldroot' \in Kinds /\ RootShape'
  BY Types DEF removeOldroot, SandboxInv, RootShape, engineVars, Kinds
<1>5. \A k \in Jobs : at'[k] = IF k = j THEN "open" ELSE at[k]
  BY <1>3, Types
<1>6. InSetup' = InSetup \ {j}
  BY <1>1, <1>5 DEF InSetup, SetupAt
<1>7. InSetup' \ overlapped' = {}
  <2>1. \A k \in InSetup \ overlapped : k = j
    BY <1>2 DEF SandboxInv, SetupShape
  <2>. QED  BY <1>3, <1>6, <2>1 DEF engineVars
<1>8. SetupShape'
  BY <1>7 DEF SetupShape
<1>. QED  BY <1>1, <1>2, <1>3, <1>4, <1>8, SetupCall

-----------------------------------------------------------------------------
(* The output file.                                                        *)

\* A step outside the setup leaves the setups of the others as they were, unless it
\* touches oldroot.
LEMMA SetupUntouched ==
    ASSUME SandboxInv, NEW j \in Jobs, at[j] \notin SetupAt, NEW to, to \notin SetupAt,
           at' = [at EXCEPT ![j] = to], overlapped' = overlapped,
           tampered' = TRUE \/ UNCHANGED <<tampered, oldroot, mounted>>
    PROVE  SetupShape'
<1>1. \A k \in Jobs : at'[k] = IF k = j THEN to ELSE at[k]
  BY Types
<1>2. InSetup' = InSetup
  BY <1>1 DEF InSetup
<1>3. \A k \in InSetup : at'[k] = at[k]
  BY <1>1 DEF InSetup
<1>. QED  BY <1>2, <1>3 DEF SandboxInv, SetupShape

\* A step that opens an output file or touches the shared root puts nobody's output in
\* a file, and is on record.
LEMMA RootStep ==
    ASSUME SandboxInv, NEW j \in Jobs, at[j] \in {"open", "user"},
           at' = [at EXCEPT ![j] = "user"],
           UNCHANGED <<starts, file_counter, unique_id, rootfs, orphans, overlapped,
                       failed, stdout_out>>,
           files' \in [Numbers -> SUBSET Jobs], opened' \in SUBSET Jobs,
           \A n \in Numbers : files'[n] \subseteq files[n],
           spoilt \subseteq spoilt', spoilt' \in SUBSET Numbers,
           \/ tampered' = TRUE /\ oldroot' \in Kinds /\ mounted' \in SUBSET Jobs
           \/ UNCHANGED <<tampered, oldroot, mounted>>
    PROVE  SandboxInv'
<1>1. /\ at' \in [Jobs -> Places] /\ at'[j] = "user"
      /\ \A k \in Jobs \ {j} : at'[k] = at[k]
  BY Types DEF Places, ChildAt
<1>2. TypeOK'
  <2>1. TypeOK
    BY DEF SandboxInv
  <2>2. /\ tampered' \in BOOLEAN /\ mounted' \in SUBSET Jobs
        /\ oldroot' \in Directory \cup {"absent", "file"}
    BY Types DEF Kinds
  <2>. QED  BY <1>1, <2>1, <2>2 DEF TypeOK, Places
<1>3. CountShape' /\ NumberShape'
  BY NumbersKept DEF ChildAt
<1>4. FileShape'
  <2>1. \A n \in Numbers : \A k \in files'[n] :
            /\ k \in Jobs /\ unique_id[k] = n /\ rootfs[k] = "home"
            /\ at[k] \in {"user", "dead"}
    BY Types DEF SandboxInv, FileShape
  <2>. QED  BY <1>1, <2>1 DEF FileShape
<1>5. SetupShape'
  BY SetupUntouched DEF SetupAt
<1>6. RootShape'
  BY DEF SandboxInv, RootShape
<1>7. \A k \in Jobs : JobShape(k)'
  BY <1>1 DEF SandboxInv, JobShape, ChildAt, SetupAt
<1>8. OutputIsOwn'
  BY DEF SandboxInv, OutputIsOwn
<1>9. SetupFailsOnlyOverlapped'
  <2>1. tampered => tampered'
    BY Types
  <2>. QED  BY <2>1 DEF SandboxInv, SetupFailsOnlyOverlapped
<1>. QED  BY <1>2, <1>3, <1>4, <1>5, <1>6, <1>7, <1>8, <1>9 DEF SandboxInv

\* What Touch does, in the terms of RootStep.
LEMMA TouchEffect ==
    ASSUME SandboxInv, NEW j \in Jobs, Touch(j)
    PROVE  /\ UNCHANGED <<starts, file_counter, unique_id, rootfs, orphans, overlapped>>
           /\ files' \in [Numbers -> SUBSET Jobs]
           /\ \A n \in Numbers : files'[n] \subseteq files[n]
           /\ spoilt \subseteq spoilt' /\ spoilt' \in SUBSET Numbers
           /\ \/ tampered' = TRUE /\ oldroot' \in Kinds /\ mounted' \in SUBSET Jobs
              \/ UNCHANGED <<tampered, oldroot, mounted>>
<1>1. CASE /\ \E n \in Numbers : /\ spoilt' = spoilt \cup {n}
                                 /\ files' = [files EXCEPT ![n] = {}]
           /\ UNCHANGED <<tampered, oldroot, mounted>>
  BY <1>1, Types DEF Touch
<1>2. CASE /\ oldroot' \in Directory \cup {"absent", "file"}
           /\ mounted' \in {mounted, {}}
           /\ tampered' = TRUE /\ UNCHANGED <<spoilt, files>>
  BY <1>2, Types DEF Touch, Kinds
<1>. QED  BY <1>1, <1>2 DEF Touch

\* Opening with O_TRUNC empties the file of the child's number; a redirection may take
\* over another name.
LEMMA OpenOutputStep ==
    ASSUME SandboxInv, NEW j \in Jobs, openOutput(j)
    PROVE  SandboxInv'
<1>1. /\ at[j] \in {"open", "user"} /\ at' = [at EXCEPT ![j] = "user"]
      /\ UNCHANGED <<failed, stdout_out>>
  BY DEF openOutput, Advance
<1>2. CASE Touch(j) /\ UNCHANGED opened
  BY <1>1, <1>2, TouchEffect, RootStep, Types
<1>3. CASE /\ \/ files' = [files EXCEPT ![unique_id[j]] = {}] /\ opened' = opened \cup {j}
              \/ UNCHANGED <<files, opened>>
           /\ UNCHANGED <<engineVars, oldroot, mounted>>
  <2>1. /\ UNCHANGED <<starts, file_counter, unique_id, rootfs, orphans, overlapped>>
        /\ UNCHANGED <<tampered, oldroot, mounted>> /\ spoilt' = spoilt
    BY <1>3 DEF engineVars
  <2>2. /\ files' \in [Numbers -> SUBSET Jobs] /\ opened' \in SUBSET Jobs
        /\ \A n \in Numbers : files'[n] \subseteq files[n]
    BY <1>3, Types
  <2>. QED  BY <1>1, <2>1, <2>2, RootStep, Types
<1>. QED  BY <1>2, <1>3 DEF openOutput

\* The user's program touches what is not its own.
LEMMA MeddleStep ==
    ASSUME SandboxInv, NEW j \in Jobs, meddle(j)
    PROVE  SandboxInv'
<1>1. at[j] = "user" /\ Touch(j) /\ UNCHANGED <<at, failed, opened, stdout_out>>
  BY DEF meddle
<1>2. at' = [at EXCEPT ![j] = "user"]
  BY <1>1, Types
<1>. QED  BY <1>1, <1>2, TouchEffect, RootStep, Types

\* A program writes to the file of its own number.
LEMMA WriteOutputStep ==
    ASSUME SandboxInv, NEW j \in Jobs, writeOutput(j)
    PROVE  SandboxInv'
<1>1. /\ at[j] = "user" /\ files' = [files EXCEPT ![unique_id[j]] = @ \cup {j}]
      /\ UNCHANGED <<engineVars, at, failed, oldroot, mounted, opened, stdout_out>>
  BY DEF writeOutput
<1>2. unique_id[j] \in Numbers /\ files \in [Numbers -> SUBSET Jobs]
  BY <1>1, Types
<1>3. /\ files' \in [Numbers -> SUBSET Jobs]
      /\ \A n \in Numbers : \A k \in files'[n] :
            k \in files[n] \/ (k = j /\ n = unique_id[j])
  BY <1>1, <1>2
<1>4. TypeOK'
  <2>1. TypeOK
    BY DEF SandboxInv
  <2>. QED  BY <1>1, <1>3, <2>1 DEF TypeOK, engineVars
<1>5. rootfs[j] = "home"
  BY <1>1 DEF SandboxInv, JobShape, ChildAt
<1>6. FileShape'
  BY <1>1, <1>3, <1>5 DEF SandboxInv, FileShape, engineVars
<1>7. /\ CountShape' /\ NumberShape' /\ SetupShape' /\ \A k \in Jobs : JobShape(k)'
      /\ OutputIsOwn' /\ SetupFailsOnlyOverlapped' /\ RootShape'
  BY <1>1 DEF SandboxInv, CountShape, Launched, NumberShape, Active, SetupShape, InSetup,
              JobShape, OutputIsOwn, SetupFailsOnlyOverlapped, RootShape, engineVars
<1>. QED  BY <1>4, <1>6, <1>7 DEF SandboxInv

\* read_and_delete: what is in a file nobody took over and not the job's own is an
\* orphan's, since no other child of this engine has the number.
LEMMA CollectStep ==
    ASSUME SandboxInv, NEW j \in Jobs, collect(j)
    PROVE  SandboxInv'
<1>1. /\ j \notin orphans /\ at[j] = "dead" /\ at' = [at EXCEPT ![j] = "collected"]
      /\ failed' = failed /\ oldroot' = oldroot /\ mounted' = mounted /\ UNCHANGED engineVars
  BY DEF collect, Advance
<1>2. /\ starts' = starts /\ file_counter' = file_counter
      /\ unique_id' = unique_id /\ rootfs' = rootfs /\ orphans' = orphans
      /\ overlapped' = overlapped /\ tampered' = tampered /\ spoilt' = spoilt
  BY <1>1 DEF engineVars
<1>3. /\ at' \in [Jobs -> Places] /\ at'[j] = "collected"
      /\ \A k \in Jobs \ {j} : at'[k] = at[k]
  BY <1>1, Types DEF Places
<1>4. unique_id[j] \in Numbers /\ j \in Active
  BY <1>1, Types DEF Active
<1>5. \A k \in Content(unique_id[j]) \ {j} :
         \/ unique_id[j] \in spoilt
         \/ k \in orphans /\ unique_id[k] = unique_id[j]
  <2>1. SUFFICES ASSUME NEW k \in files[unique_id[j]], k # j
                 PROVE  k \in orphans /\ unique_id[k] = unique_id[j]
    BY DEF Content
  <2>2. k \in Jobs /\ unique_id[k] = unique_id[j] /\ at[k] \in {"user", "dead"}
    BY <1>4, Types DEF SandboxInv, FileShape
  <2>3. k \notin Active
    BY <1>4, <2>1, <2>2 DEF SandboxInv, NumberShape
  <2>. QED  BY <2>2, <2>3 DEF Active, ChildAt
<1>6. /\ files' \in [Numbers -> SUBSET Jobs] /\ opened' \in SUBSET Jobs
      /\ stdout_out' \in [Jobs -> SUBSET Jobs]
      /\ \A n \in Numbers : files'[n] \subseteq files[n] \ {j}
      /\ \A k \in Jobs : \/ stdout_out'[k] = stdout_out[k]
                         \/ k = j /\ stdout_out'[k] = Content(unique_id[j])
  <2>1. CASE rootfs[j] = "home"
    <3>1. /\ stdout_out' = [stdout_out EXCEPT ![j] = Content(unique_id[j])]
          /\ files' = [files EXCEPT ![unique_id[j]] = {}]
          /\ opened' = {k \in opened : unique_id[k] # unique_id[j]}
      BY <2>1 DEF collect
    <3>2. \A n \in Numbers \ {unique_id[j]} : j \notin files[n]
      BY DEF SandboxInv, FileShape
    <3>3. files \in [Numbers -> SUBSET Jobs] /\ Content(unique_id[j]) \in SUBSET Jobs
      BY <1>4, Types DEF Content
    <3>4. /\ files' \in [Numbers -> SUBSET Jobs]
          /\ \A n \in Numbers : files'[n] \subseteq files[n] \ {j}
      BY <1>4, <3>1, <3>2, <3>3
    <3>5. /\ stdout_out' \in [Jobs -> SUBSET Jobs]
          /\ \A k \in Jobs : \/ stdout_out'[k] = stdout_out[k]
                             \/ k = j /\ stdout_out'[k] = Content(unique_id[j])
      BY <3>1, <3>3, Types
    <3>6. opened' \in SUBSET Jobs
      BY <3>1, Types
    <3>. QED  BY <3>4, <3>5, <3>6
  <2>2. CASE rootfs[j] # "home"
    <3>1. UNCHANGED <<stdout_out, files, opened>>
      BY <2>2 DEF collect
    <3>2. \A n \in Numbers : j \notin files[n]
      BY <2>2 DEF SandboxInv, FileShape
    <3>. QED  BY <3>1, <3>2, Types
  <2>. QED  BY <2>1, <2>2
<1>7. TypeOK'
  <2>1. TypeOK
    BY DEF SandboxInv
  <2>. QED  BY <1>1, <1>2, <1>3, <1>6, <2>1 DEF TypeOK, Places
<1>8. CountShape' /\ NumberShape'
  BY <1>1, <1>2, NumbersKept
<1>9. FileShape'
  <2>1. \A n \in Numbers : \A k \in files'[n] : k \in Jobs \ {j} /\ k \in files[n]
    BY <1>6, Types
  <2>. QED  BY <1>2, <1>3, <2>1 DEF SandboxInv, FileShape
<1>10. SetupShape'
  BY <1>1, <1>2, SetupUntouched DEF SetupAt
<1>11. \A k \in Jobs : JobShape(k)'
  <2>1. \A k \in Jobs : at'[k] = "new" => k # j /\ stdout_out'[k] = stdout_out[k]
    BY <1>3, <1>6
  <2>. QED  BY <1>1, <1>2, <1>3, <2>1 DEF SandboxInv, JobShape, ChildAt, SetupAt
<1>12. OutputIsOwn'
  BY <1>2, <1>5, <1>6 DEF SandboxInv, OutputIsOwn
<1>13. SetupFailsOnlyOverlapped' /\ RootShape'
  BY <1>1, <1>2 DEF SandboxInv, SetupFailsOnlyOverlapped, RootShape
<1>. QED  BY <1>7, <1>8, <1>9, <1>10, <1>11, <1>12, <1>13 DEF SandboxInv

-----------------------------------------------------------------------------
(* Steps of the engine.                                                    *)

\* A new engine starts with no child, and the numbers are free again.
LEMMA RestartStep == SandboxInv /\ restart => SandboxInv'
<1> SUFFICES ASSUME SandboxInv, restart PROVE SandboxInv'
  OBVIOUS
<1>1. /\ starts < MaxStarts /\ starts' = starts + 1 /\ file_counter' = 1
      /\ orphans' = orphans \cup Active
      /\ UNCHANGED <<unique_id, rootfs, overlapped, tampered, spoilt, at, failed, oldroot,
                     mounted, opened, files, stdout_out>>
  BY DEF restart
<1>2. Active \in SUBSET Jobs /\ \A j \in Active : at[j] # "new"
  BY DEF Active, ChildAt, SetupAt
<1>3. Active' = {}
  BY <1>1 DEF Active
<1>4. /\ starts' \in 1..MaxStarts
      /\ file_counter' \in 1..(Cardinality(Jobs) + 1)
      /\ orphans' \in SUBSET Jobs
  BY <1>1, <1>2, Types, LaunchedFacts, SandboxAssumption DEF SandboxInv, TypeOK
<1>5. TypeOK'
  <2>1. TypeOK
    BY DEF SandboxInv
  <2>. QED  BY <1>1, <1>4, <2>1 DEF TypeOK
<1>6. CountShape'
  <2>1. Launched' = Launched
    BY <1>1 DEF Launched
  <2>. QED  BY <1>1, <2>1, LaunchedFacts DEF CountShape
<1>7. NumberShape'
  BY <1>3 DEF NumberShape
<1>8. FileShape' /\ SetupShape' /\ RootShape'
  BY <1>1 DEF SandboxInv, FileShape, SetupShape, InSetup, RootShape
<1>9. \A j \in Jobs : JobShape(j)'
  BY <1>1, <1>2 DEF SandboxInv, JobShape
<1>10. OutputIsOwn' /\ SetupFailsOnlyOverlapped'
  BY <1>1 DEF SandboxInv, OutputIsOwn, SetupFailsOnlyOverlapped
<1>. QED  BY <1>5, <1>6, <1>7, <1>8, <1>9, <1>10 DEF SandboxInv

\* Drawing a number: there are no more of them than jobs.
LEMMA DrawFacts ==
    ASSUME SandboxInv, NEW j \in Jobs, at[j] = "new",
           NEW to \in {"mkdir", "collected"}, at' = [at EXCEPT ![j] = to]
    PROVE  /\ file_counter \in Numbers
           /\ file_counter + 1 \in 1..(Cardinality(Jobs) + 1)
           /\ Cardinality(Launched') = Cardinality(Launched) + 1
           /\ file_counter # 0
           /\ at' \in [Jobs -> Places] /\ at'[j] = to
           /\ \A k \in Jobs \ {j} : at'[k] = at[k]
<1>1. /\ at' \in [Jobs -> Places] /\ at'[j] = to
      /\ \A k \in Jobs \ {j} : at'[k] = at[k]
  BY Types DEF Places, ChildAt, SetupAt
<1>2. Launched' = Launched \cup {j} /\ j \notin Launched
  BY <1>1 DEF Launched
<1>3. Cardinality(Launched') = Cardinality(Launched) + 1
  BY <1>2, LaunchedFacts, FS_AddElement
<1>4. Cardinality(Launched) < Cardinality(Jobs)
  BY <1>2, LaunchedFacts
<1>5. file_counter <= Cardinality(Launched) + 1 /\ file_counter \in 1..(Cardinality(Jobs) + 1)
  BY DEF SandboxInv, CountShape, TypeOK
<1>. QED  BY <1>1, <1>3, <1>4, <1>5, LaunchedFacts DEF Numbers

\* fetch_add(1) and clone(): a number nobody of this engine has, and an overlap is seen
\* from both sides.
LEMMA LaunchStep ==
    ASSUME SandboxInv, NEW j \in Jobs, launch(j)
    PROVE  SandboxInv'
<1>1. /\ at[j] = "new" /\ at' = [at EXCEPT ![j] = "mkdir"]
      /\ \E cwd \in WorkingDirectories : rootfs' = [rootfs EXCEPT ![j] = cwd]
      /\ overlapped' = overlapped \cup (IF InSetup = {} THEN {} ELSE InSetup \cup {j})
      /\ UNCHANGED <<starts, orphans, tampered, spoilt, failed, oldroot, mounted,
                     opened, files, stdout_out>>
      /\ unique_id' = [unique_id EXCEPT ![j] = file_counter]
      /\ file_counter' = file_counter + 1
  BY DEF launch, Clone, Advance
<1>2. TypeOK /\ j \notin orphans /\ j \notin failed /\ stdout_out[j] = {}
  BY <1>1 DEF SandboxInv, JobShape
<1>3. /\ at' \in [Jobs -> Places] /\ at'[j] = "mkdir" /\ unique_id'[j] = file_counter
      /\ \A k \in Jobs \ {j} : /\ at'[k] = at[k] /\ unique_id'[k] = unique_id[k]
                               /\ rootfs'[k] = rootfs[k]
  BY <1>1, Types, DrawFacts
<1>4. /\ file_counter \in Numbers /\ file_counter # 0
      /\ file_counter' \in 1..(Cardinality(Jobs) + 1)
  BY <1>1, DrawFacts
<1>6. CountShape'
  <2>1. Cardinality(Launched') = Cardinality(Launched) + 1
    BY <1>1, DrawFacts
  <2>. QED  BY <1>1, <2>1, Types, LaunchedFacts DEF SandboxInv, CountShape
<1>8. TypeOK'
  <2>1. unique_id' \in [Jobs -> Numbers \cup {0}]
    BY <1>1, <1>2, <1>4 DEF TypeOK
  <2>2. rootfs' \in [Jobs -> WorkingDirectories]
    BY <1>1, <1>2 DEF TypeOK
  <2>3. overlapped' \in SUBSET Jobs
    BY <1>1, Types DEF InSetup
  <2>. QED  BY <1>1, <1>2, <1>3, <1>4, <2>1, <2>2, <2>3 DEF TypeOK, Places
<1>9. NumberShape'
  <2>1. Active' \subseteq Active \cup {j}
    BY <1>1, <1>3 DEF Active
  <2>2. \A k \in Active : k \in Jobs \ {j} /\ unique_id[k] < file_counter
    BY <1>1 DEF SandboxInv, NumberShape, Active, ChildAt, SetupAt
  <2>3. file_counter \in Nat /\ unique_id \in [Jobs -> Nat]
    BY Types
  <2>4. \A k \in Active' : unique_id'[k] < file_counter'
    BY <1>1, <1>3, <2>1, <2>2, <2>3
  <2>5. \A k, l \in Active' : k # l => unique_id'[l] # unique_id'[k]
    <3>1. \A k, l \in Active : k # l => unique_id[l] # unique_id[k]
      BY DEF SandboxInv, NumberShape
    <3>. QED  BY <1>3, <2>1, <2>2, <2>3, <3>1
  <2>. QED  BY <2>4, <2>5 DEF NumberShape
<1>10. FileShape'
  <2>1. \A n \in Numbers : \A k \in files[n] : k \in Jobs \ {j}
    BY <1>1, Types DEF SandboxInv, FileShape
  <2>. QED  BY <1>1, <1>3, <2>1 DEF SandboxInv, FileShape
<1>11. SetupShape'
  <2>1. InSetup' = InSetup \cup {j}
    BY <1>3 DEF InSetup, SetupAt
  <2>2. CASE InSetup = {}
    BY <1>3, <2>1, <2>2 DEF SetupShape
  <2>3. CASE InSetup # {}
    <3>1. InSetup' \ overlapped' = {}
      BY <1>1, <2>1, <2>3
    <3>. QED  BY <3>1 DEF SetupShape
  <2>. QED  BY <2>2, <2>3
<1>12. \A k \in Jobs : JobShape(k)'
  BY <1>1, <1>2, <1>3, <1>4 DEF SandboxInv, JobShape
<1>13. OutputIsOwn'
  <2>1. \A k \in Jobs : stdout_out[k] # {} => k # j
    BY <1>2
  <2>2. \A k \in orphans : k \in Jobs \ {j}
    BY <1>2, Types
  <2>. QED  BY <1>1, <1>3, <2>1, <2>2 DEF SandboxInv, OutputIsOwn
<1>14. SetupFailsOnlyOverlapped' /\ RootShape'
  BY <1>1, <1>2, <1>3, Types DEF SandboxInv, SetupFailsOnlyOverlapped, RootShape
<1>. QED  BY <1>6, <1>8, <1>9, <1>10, <1>11, <1>12, <1>13, <1>14 DEF SandboxInv

\* pipe() or clone() fails: the number, if one was drawn, is lost.
LEMMA LaunchFailsStep ==
    ASSUME SandboxInv, NEW j \in Jobs, launchFails(j)
    PROVE  SandboxInv'
<1>1. /\ at[j] = "new" /\ at' = [at EXCEPT ![j] = "collected"]
      /\ \/ UNCHANGED <<unique_id, file_counter>>
         \/ /\ unique_id' = [unique_id EXCEPT ![j] = file_counter]
            /\ file_counter' = file_counter + 1
      /\ UNCHANGED <<starts, rootfs, orphans, overlapped, tampered, spoilt, failed,
                     oldroot, mounted, opened, files, stdout_out>>
  BY DEF launchFails, Advance
<1>2. TypeOK /\ j \notin orphans /\ j \notin failed /\ stdout_out[j] = {}
  BY <1>1 DEF SandboxInv, JobShape
<1>3. /\ at' \in [Jobs -> Places] /\ at'[j] = "collected"
      /\ \A k \in Jobs \ {j} : at'[k] = at[k] /\ unique_id'[k] = unique_id[k]
  BY <1>1, Types, DrawFacts
<1>4. file_counter' \in {file_counter, file_counter + 1}
  BY <1>1
<1>5. CountShape'
  <2>1. Cardinality(Launched') = Cardinality(Launched) + 1
    BY <1>1, DrawFacts
  <2>. QED  BY <1>4, <2>1, Types, LaunchedFacts DEF SandboxInv, CountShape
<1>6. TypeOK'
  <2>1. /\ file_counter \in Numbers
        /\ file_counter + 1 \in 1..(Cardinality(Jobs) + 1)
    BY <1>1, DrawFacts
  <2>2. /\ unique_id' \in [Jobs -> Numbers \cup {0}]
        /\ file_counter' \in 1..(Cardinality(Jobs) + 1)
    BY <1>1, <1>2, <2>1 DEF TypeOK
  <2>. QED  BY <1>1, <1>2, <1>3, <2>2 DEF TypeOK, Places
<1>7. NumberShape'
  <2>1. Active' \subseteq Active /\ \A k \in Active : k \in Jobs \ {j}
    BY <1>1, <1>3 DEF Active, ChildAt, SetupAt
  <2>2. /\ \A k \in Active : unique_id[k] < file_counter
        /\ \A k, l \in Active : k # l => unique_id[l] # unique_id[k]
    BY DEF SandboxInv, NumberShape
  <2>3. file_counter \in Nat /\ unique_id \in [Jobs -> Nat]
    BY Types
  <2>4. \A k \in Active' : unique_id'[k] < file_counter'
    BY <1>3, <1>4, <2>1, <2>2, <2>3
  <2>5. \A k, l \in Active' : k # l => unique_id'[l] # unique_id'[k]
    BY <1>3, <2>1, <2>2
  <2>. QED  BY <2>4, <2>5 DEF NumberShape
<1>8. FileShape'
  <2>1. \A n \in Numbers : \A k \in files[n] : k \in Jobs \ {j}
    BY <1>1, Types DEF SandboxInv, FileShape
  <2>. QED  BY <1>1, <1>3, <2>1 DEF SandboxInv, FileShape
<1>9. SetupShape'
  BY <1>1, SetupUntouched DEF SetupAt
<1>10. \A k \in Jobs : JobShape(k)'
  BY <1>1, <1>2, <1>3 DEF SandboxInv, JobShape, ChildAt, SetupAt
<1>11. OutputIsOwn'
  <2>1. \A k \in Jobs : stdout_out[k] # {} => k # j
    BY <1>2
  <2>2. \A k \in orphans : k \in Jobs \ {j}
    BY <1>2, Types
  <2>. QED  BY <1>1, <1>3, <2>1, <2>2 DEF SandboxInv, OutputIsOwn
<1>12. SetupFailsOnlyOverlapped' /\ RootShape'
  BY <1>1 DEF SandboxInv, SetupFailsOnlyOverlapped, RootShape
<1>. QED  BY <1>5, <1>6, <1>7, <1>8, <1>9, <1>10, <1>11, <1>12 DEF SandboxInv

-----------------------------------------------------------------------------
(* The theorems.                                                           *)

\* The invariant holds when the first engine starts, and every step keeps it.
LEMMA SandboxInvariant == Spec => []SandboxInv
<1>1. Init => SandboxInv
  <2> SUFFICES ASSUME Init PROVE SandboxInv
    OBVIOUS
  <2>1. starts \in 1..MaxStarts /\ file_counter \in 1..(Cardinality(Jobs) + 1)
    BY LaunchedFacts, SandboxAssumption DEF Init
  <2>2. /\ unique_id \in [Jobs -> Numbers \cup {0}] /\ rootfs \in [Jobs -> WorkingDirectories]
        /\ at \in [Jobs -> ChildAt \cup {"new", "dead", "collected"}]
    BY DEF Init, WorkingDirectories
  <2>3. files \in [Numbers -> SUBSET Jobs] /\ stdout_out \in [Jobs -> SUBSET Jobs]
    BY DEF Init, WorkingDirectories
  <2>4. TypeOK
    BY <2>1, <2>2, <2>3 DEF Init, TypeOK, Directory
  <2>5. CountShape
    BY LaunchedFacts DEF Init, CountShape
  <2>6. Active = {} /\ InSetup = {}
    BY DEF Init, Active, InSetup, ChildAt, SetupAt
  <2>7. NumberShape /\ SetupShape /\ FileShape /\ RootShape
    BY <2>6 DEF Init, NumberShape, SetupShape, FileShape, RootShape
  <2>8. \A j \in Jobs : JobShape(j)
    BY DEF Init, JobShape, ChildAt, SetupAt
  <2>9. OutputIsOwn /\ SetupFailsOnlyOverlapped
    BY DEF Init, OutputIsOwn, SetupFailsOnlyOverlapped
  <2>. QED  BY <2>4, <2>5, <2>7, <2>8, <2>9 DEF SandboxInv
<1>2. SandboxInv /\ [Next]_vars => SandboxInv'
  <2> SUFFICES ASSUME SandboxInv, [Next]_vars PROVE SandboxInv'
    OBVIOUS
  <2>1. CASE restart
    BY <2>1, RestartStep
  <2>2. ASSUME NEW j \in Jobs, childStep(j) PROVE SandboxInv'
    <3>1. CASE makeOldroot(j) \/ pivotRoot(j) \/ umountOldroot(j) \/ removeOldroot(j)
      BY <3>1, MakeOldrootStep, PivotRootStep, UmountStep, RemoveOldrootStep
    <3>2. CASE openOutput(j) \/ writeOutput(j) \/ meddle(j)
      BY <3>2, OpenOutputStep, WriteOutputStep, MeddleStep
    <3>3. CASE redirectFails(j) \/ programEnds(j)
      <4>1. /\ at[j] \in ChildAt /\ Die(j)
            /\ UNCHANGED <<engineVars, failed, oldroot, files, stdout_out>>
        BY <3>3 DEF redirectFails, programEnds, ChildAt
      <4>. QED  BY <4>1, DieStep
    <3>. QED  BY <2>2, <3>1, <3>2, <3>3 DEF childStep
  <2>3. ASSUME NEW j \in Jobs, killed(j) PROVE SandboxInv'
    <3>1. /\ at[j] \in ChildAt /\ Die(j)
          /\ UNCHANGED <<engineVars, failed, oldroot, files, stdout_out>>
      BY <2>3 DEF killed
    <3>. QED  BY <3>1, DieStep
  <2>4. ASSUME NEW j \in Jobs, launch(j) \/ launchFails(j) \/ collect(j) PROVE SandboxInv'
    BY <2>4, LaunchStep, LaunchFailsStep, CollectStep
  <2>5. CASE UNCHANGED vars
    <3>1. TypeOK'
      BY <2>5 DEF SandboxInv, TypeOK, vars, engineVars
    <3>2. /\ CountShape' /\ NumberShape' /\ FileShape' /\ SetupShape'
          /\ \A k \in Jobs : JobShape(k)'
          /\ OutputIsOwn' /\ SetupFailsOnlyOverlapped' /\ RootShape'
      BY <2>5 DEF SandboxInv, CountShape, Launched, NumberShape, Active, FileShape,
                  SetupShape, InSetup, JobShape, OutputIsOwn, SetupFailsOnlyOverlapped,
                  RootShape, vars, engineVars
    <3>. QED  BY <3>1, <3>2 DEF SandboxInv
  <2>. QED  BY <2>1, <2>2, <2>3, <2>4, <2>5 DEF Next, terminated
<1>. QED  BY <1>1, <1>2, PTL DEF Spec

\* The variables keep their types, across restarts: in particular file_counter numbers
\* no more files than there are jobs.
THEOREM SandboxTypeCorrect == Spec => []TypeOK
<1>1. SandboxInv => TypeOK
  BY DEF SandboxInv
<1>. QED  BY <1>1, SandboxInvariant, PTL

\* For any number of workers and whatever the programs do to the shared root: the output
\* isolateAndRun reports for a job is that job's, unless a program touched the output
\* file of its number by name or an orphan of an earlier engine has the same number.
THEOREM OutputsSeparate == Spec => []OutputIsOwn
<1>1. SandboxInv => OutputIsOwn
  BY DEF SandboxInv
<1>. QED  BY <1>1, SandboxInvariant, PTL

\* child_entry's setup calls fail only for a child whose setup overlapped another one's,
\* that was started away from rootfs_base, or after a program touched oldroot, whatever
\* killed children left behind.
THEOREM SetupFailureExplained == Spec => []SetupFailsOnlyOverlapped
<1>1. SandboxInv => SetupFailsOnlyOverlapped
  BY DEF SandboxInv
<1>. QED  BY <1>1, SandboxInvariant, PTL

==============================================================================
