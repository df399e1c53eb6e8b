--------------------------- MODULE PipelineProofs ---------------------------
(***************************************************************************)
(* Proofs about executePipeline for any number of commands: its types, and *)
(* who holds which end of which pipe.  In round i of the loop the parent   *)
(* has at most the reading end of the pipe before and both ends of the new *)
(* one, so these are all a child can inherit, and exec takes the new       *)
(* pipe's reading end from it again.                                       *)
(***************************************************************************)
EXTENDS Pipeline, TLAPS

\* The ends of the parent: prev_fd and fd[] in the round they belong to, none after
\* the loop.  A call that fails returns with the ends it has.
ParentEnds ==
    \A p \in Pipes :
        /\ pc \in {"pipe", "fork", "close"} =>
              /\ 0 \in readers[p] => p = i - 1 \/ (p = i /\ pc # "pipe")
              /\ 0 \in writers[p] => p = i /\ pc # "pipe"
        /\ pc = "wait" \/ (pc = "returned" /\ ~failed) => 0 \notin readers[p] \cup writers[p]

\* The ends of a child, before and after exec.
ChildEnds(c) ==
    \A p \in Pipes :
        /\ c \in readers[p] => p = c - 1 \/ (p = c /\ ~Running(c))
        /\ c \in writers[p] => p = c

PipelineInv ==
    /\ TypeOK
    /\ ParentEnds
    /\ \A c \in Children : ChildEnds(c)

-----------------------------------------------------------------------------

\* Process numbers: a pipe's two neighbours are children, and 0 is none of them.
LEMMA Numbers ==
    /\ N \in Nat /\ N >= 2
    /\ \A c \in Children : c \in Nat /\ c # 0 /\ c \in 0..N
    /\ \A p \in Pipes : p \in Nat /\ p \in Children /\ p + 1 \in Children
    /\ 0 \in 0..N
BY PipelineAssumption DEF Children, Pipes

\* The exit of a child closes its ends and nothing else of the tables.
LEMMA ExitStep ==
    ASSUME PipelineInv, NEW c \in Children, NEW how \in {"ok", "nonzero", "signal"},
           Exit(c, how)
    PROVE  PipelineInv'
<1>. USE Numbers
<1>1. /\ UNCHANGED callVars /\ UNCHANGED content
      /\ proc' = [proc EXCEPT ![c] = "zombie"] /\ status' = [status EXCEPT ![c] = how]
      /\ readers' = [p \in Pipes |-> readers[p] \ {c}]
      /\ writers' = [p \in Pipes |-> writers[p] \ {c}]
  BY DEF Exit
<1>2. TypeOK
  BY DEF PipelineInv
<1>3. TypeOK'
  <2>1. /\ readers' \in [Pipes -> SUBSET (0..N)] /\ writers' \in [Pipes -> SUBSET (0..N)]
    BY <1>1, <1>2 DEF TypeOK
  <2>2. /\ proc' \in [Children -> {"none", "born", "run", "write", "zombie", "reaped"}]
        /\ status' \in [Children -> {"none", "ok", "nonzero", "signal"}]
    BY <1>1, <1>2 DEF TypeOK
  <2>. QED  BY <1>1, <1>2, <2>1, <2>2 DEF TypeOK, callVars
<1>4. ParentEnds'
  BY <1>1 DEF PipelineInv, ParentEnds, callVars
<1>5. \A k \in Children : ChildEnds(k)'
  <2>1. \A k \in Children \ {c} : proc'[k] = proc[k]
    BY <1>1, <1>2 DEF TypeOK
  <2>. QED  BY <1>1, <2>1 DEF PipelineInv, ChildEnds, Running
<1>. QED  BY <1>3, <1>4, <1>5 DEF PipelineInv

\* A read or a write changes the content of a pipe and leaves the ends alone.
LEMMA TransferStep ==
    ASSUME PipelineInv, NEW c \in Children, NEW next \in {"run", "write"}, Running(c),
           proc' = [proc EXCEPT ![c] = next], content' \in [Pipes -> 0..Capacity],
           UNCHANGED <<callVars, readers, writers, status>>
    PROVE  PipelineInv'
<1>1. TypeOK
  BY DEF PipelineInv
<1>2. proc' \in [Children -> {"none", "born", "run", "write", "zombie", "reaped"}]
  BY <1>1 DEF TypeOK
<1>3. TypeOK'
  BY <1>1, <1>2 DEF TypeOK, callVars
<1>4. ParentEnds'
  BY DEF PipelineInv, ParentEnds, callVars
<1>5. \A k \in Children : Running(k)' = Running(k)
  BY <1>1 DEF TypeOK, Running
<1>6. \A k \in Children : ChildEnds(k)'
  BY <1>5 DEF PipelineInv, ChildEnds
<1>. QED  BY <1>3, <1>4, <1>6 DEF PipelineInv

-----------------------------------------------------------------------------
(* The parent's steps.                                                     *)

\* A failing call changes no end, and what it leaves is not claimed to be closed.
LEMMA CallFailsStep == PipelineInv /\ callFails => PipelineInv'
<1> SUFFICES ASSUME PipelineInv, callFails PROVE PipelineInv'
  OBVIOUS
<1>1. TypeOK'
  BY DEF PipelineInv, TypeOK, callFails
<1>2. ParentEnds'
  BY DEF ParentEnds, callFails
<1>3. \A c \in Children : ChildEnds(c)'
  BY DEF PipelineInv, ChildEnds, Running, callFails
<1>. QED  BY <1>1, <1>2, <1>3 DEF PipelineInv

\* pipe(fd): both ends of pipe i are the parent's alone.
LEMMA MakePipeStep == PipelineInv /\ makePipe => PipelineInv'
<1> SUFFICES ASSUME PipelineInv, makePipe PROVE PipelineInv'
  OBVIOUS
<1>. USE Numbers
<1>1. TypeOK /\ pc = "pipe" /\ i \in Children
  BY DEF PipelineInv, TypeOK, makePipe
<1>2. /\ pc' = "fork" /\ i' = i /\ failed' = failed /\ background' = background
      /\ success' = success /\ content' = content /\ proc' = proc /\ status' = status
  BY DEF makePipe
<1>3. /\ readers' \in [Pipes -> SUBSET (0..N)] /\ writers' \in [Pipes -> SUBSET (0..N)]
      /\ \A p \in Pipes : readers'[p] = readers[p] \/ (p = i /\ readers'[p] = {0})
      /\ \A p \in Pipes : writers'[p] = writers[p] \/ (p = i /\ writers'[p] = {0})
  <2>1. CASE i < N
    <3>1. /\ readers' = [readers EXCEPT ![i] = {0}]
          /\ writers' = [writers EXCEPT ![i] = {0}]
      BY <2>1 DEF makePipe
    <3>2. readers \in [Pipes -> SUBSET (0..N)] /\ writers \in [Pipes -> SUBSET (0..N)]
      BY <1>1 DEF TypeOK
    <3>3. {0} \in SUBSET (0..N)
      OBVIOUS
    <3>. QED  BY <3>1, <3>2, <3>3
  <2>2. CASE ~(i < N)
    BY <1>1, <2>2 DEF TypeOK, makePipe
  <2>. QED  BY <2>1, <2>2
<1>4. TypeOK'
  BY <1>1, <1>2, <1>3 DEF TypeOK
<1>5. ParentEnds'
  BY <1>1, <1>2, <1>3 DEF PipelineInv, ParentEnds
<1>6. \A c \in Children : ChildEnds(c)'
  BY <1>2, <1>3 DEF PipelineInv, ChildEnds, Running
<1>. QED  BY <1>4, <1>5, <1>6 DEF PipelineInv

\* fork(): the child of round i inherits the ends of round i.
LEMMA ForkStep == PipelineInv /\ forkChild => PipelineInv'
<1> SUFFICES ASSUME PipelineInv, forkChild PROVE PipelineInv'
  OBVIOUS
<1>. USE Numbers
<1>1. TypeOK /\ pc = "fork" /\ i \in Children
  BY DEF PipelineInv, TypeOK, forkChild
<1>2. /\ pc' = "close" /\ i' = i /\ failed' = failed /\ background' = background
      /\ success' = success /\ content' = content /\ status' = status
      /\ proc' = [proc EXCEPT ![i] = "born"]
  BY DEF forkChild
<1>3. \A p \in Pipes : /\ readers'[p] \subseteq readers[p] \cup {i}
                       /\ writers'[p] \subseteq writers[p] \cup {i}
                       /\ i \in readers'[p] => i \in readers[p] \/ 0 \in readers[p]
                       /\ i \in writers'[p] => i \in writers[p] \/ 0 \in writers[p]
  BY DEF forkChild
<1>4. readers' \in [Pipes -> SUBSET (0..N)]
  BY <1>1 DEF TypeOK, forkChild
<1>5. writers' \in [Pipes -> SUBSET (0..N)]
  BY <1>1 DEF TypeOK, forkChild
<1>6. proc' \in [Children -> {"none", "born", "run", "write", "zombie", "reaped"}]
  BY <1>1, <1>2 DEF TypeOK
<1>7. TypeOK'
  BY <1>1, <1>2, <1>4, <1>5, <1>6 DEF TypeOK
<1>8. ParentEnds'
  <2>1. i # 0
    BY <1>1
  <2>. QED  BY <1>1, <1>2, <1>3, <2>1 DEF PipelineInv, ParentEnds
<1>9. ASSUME NEW c \in Children PROVE ChildEnds(c)'
  <2>1. CASE c # i
    <3>1. Running(c)' = Running(c)
      BY <1>1, <1>2, <2>1 DEF TypeOK, Running
    <3>2. \A p \in Pipes : /\ c \in readers'[p] => c \in readers[p]
                           /\ c \in writers'[p] => c \in writers[p]
      BY <1>3, <2>1
    <3>. QED  BY <3>1, <3>2 DEF PipelineInv, ChildEnds
  <2>2. CASE c = i
    <3>1. ~Running(c)'
      BY <1>1, <1>2, <2>2 DEF TypeOK, Running
    <3>2. ASSUME NEW p \in Pipes PROVE /\ c \in readers'[p] => p = c - 1 \/ p = c
                                       /\ c \in writers'[p] => p = c
      BY <1>1, <1>3, <2>2 DEF PipelineInv, ParentEnds, ChildEnds
    <3>. QED  BY <3>1, <3>2 DEF ChildEnds
  <2>. QED  BY <2>1, <2>2
<1>. QED  BY <1>7, <1>8, <1>9 DEF PipelineInv

\* The end of a round: what it leaves to the next one is the reading end of pipe i, and
\* after the last round, which has no pipe, nothing.
LEMMA CloseStep == PipelineInv /\ closeEnds => PipelineInv'
<1> SUFFICES ASSUME PipelineInv, closeEnds PROVE PipelineInv'
  OBVIOUS
<1>. USE Numbers
<1>1. TypeOK /\ pc = "close" /\ i \in Children
  BY DEF PipelineInv, TypeOK, closeEnds, NextCommand
<1>2. /\ failed' = failed /\ background' = background /\ success' = success
      /\ content' = content /\ proc' = proc /\ status' = status
  BY DEF closeEnds, NextCommand
<1>3. /\ readers' = [p \in Pipes |-> IF p + 1 = i THEN readers[p] \ {0} ELSE readers[p]]
      /\ writers' = [p \in Pipes |-> IF p = i THEN writers[p] \ {0} ELSE writers[p]]
  BY DEF closeEnds
<1>4. \/ i < N /\ pc' = "pipe" /\ i' = i + 1
      \/ i = N /\ pc' \in {"wait", "returned"} /\ i' = 1
  BY <1>1 DEF closeEnds, NextCommand, Children
<1>5. i' \in Children /\ pc' \in {"pipe", "fork", "close", "wait", "returned"}
  BY <1>1, <1>4 DEF Children
<1>6. readers' \in [Pipes -> SUBSET (0..N)] /\ writers' \in [Pipes -> SUBSET (0..N)]
  BY <1>1, <1>3 DEF TypeOK
<1>7. TypeOK'
  BY <1>1, <1>2, <1>5, <1>6 DEF TypeOK
<1>8. ASSUME NEW p \in Pipes
      PROVE  /\ 0 \in readers'[p] => p = i
             /\ 0 \notin writers'[p]
  <2>1. /\ 0 \in readers[p] => p = i - 1 \/ p = i
        /\ 0 \in writers[p] => p = i
    BY <1>1 DEF PipelineInv, ParentEnds
  <2>2. p = i - 1 => p + 1 = i
    BY <1>1
  <2>. QED  BY <1>3, <2>1, <2>2
<1>9. ParentEnds'
  <2>1. ASSUME NEW p \in Pipes PROVE p # N
    BY DEF Pipes
  <2>2. i \in Nat
    BY <1>1
  <2>3. CASE i < N /\ pc' = "pipe" /\ i' = i + 1
    BY <1>8, <2>2, <2>3 DEF ParentEnds
  <2>4. CASE i = N /\ pc' \in {"wait", "returned"} /\ i' = 1
    BY <1>8, <2>1, <2>4 DEF ParentEnds
  <2>. QED  BY <1>4, <2>3, <2>4
<1>10. \A c \in Children : ChildEnds(c)'
  BY <1>2, <1>3 DEF PipelineInv, ChildEnds, Running
<1>. QED  BY <1>7, <1>9, <1>10 DEF PipelineInv

\* waitpid and reapZombies take dead children off the table.
LEMMA WaitStep == PipelineInv /\ waitChild => PipelineInv'
<1> SUFFICES ASSUME PipelineInv, waitChild PROVE PipelineInv'
  OBVIOUS
<1>. USE Numbers
<1>1. TypeOK /\ pc = "wait" /\ i \in Children /\ proc[i] = "zombie"
  BY DEF PipelineInv, TypeOK, waitChild
<1>2. /\ failed' = failed /\ background' = background /\ content' = content
      /\ readers' = readers /\ writers' = writers /\ status' = status
      /\ proc' = [proc EXCEPT ![i] = "reaped"]
  BY DEF waitChild
<1>3. /\ pc' \in {"wait", "returned"} /\ i' \in Children /\ success' \in BOOLEAN
  <2>1. success \in BOOLEAN
    BY <1>1 DEF TypeOK
  <2>2. CASE i < N
    <3>1. i + 1 \in Children
      BY <1>1, <2>2 DEF Children
    <3>. QED  BY <1>1, <2>1, <2>2, <3>1 DEF waitChild
  <2>3. CASE ~(i < N)
    BY <1>1, <2>3 DEF waitChild
  <2>. QED  BY <2>2, <2>3
<1>4. proc' \in [Children -> {"none", "born", "run", "write", "zombie", "reaped"}]
  BY <1>1, <1>2 DEF TypeOK
<1>5. TypeOK'
  BY <1>1, <1>2, <1>3, <1>4 DEF TypeOK
<1>6. ParentEnds'
  BY <1>1, <1>2, <1>3 DEF PipelineInv, ParentEnds
<1>7. \A c \in Children : Running(c)' = Running(c)
  BY <1>1, <1>2 DEF TypeOK, Running
<1>8. \A c \in Children : ChildEnds(c)'
  BY <1>2, <1>7 DEF PipelineInv, ChildEnds
<1>. QED  BY <1>5, <1>6, <1>8 DEF PipelineInv

LEMMA ReapStep == PipelineInv /\ reapZombies => PipelineInv'
<1> SUFFICES ASSUME PipelineInv, reapZombies PROVE PipelineInv'
  OBVIOUS
<1>1. TypeOK
  BY DEF PipelineInv
<1>2. /\ UNCHANGED <<callVars, readers, writers, content, status>>
      /\ proc' = [c \in Children |-> IF proc[c] = "zombie" THEN "reaped" ELSE proc[c]]
  BY DEF reapZombies
<1>3. proc' \in [Children -> {"none", "born", "run", "write", "zombie", "reaped"}]
  BY <1>1, <1>2 DEF TypeOK
<1>4. TypeOK'
  BY <1>1, <1>2, <1>3 DEF TypeOK, callVars
<1>5. ParentEnds'
  BY <1>2 DEF PipelineInv, ParentEnds, callVars
<1>6. \A c \in Children : Running(c)' = Running(c)
  BY <1>2 DEF Running
<1>7. \A c \in Children : ChildEnds(c)'
  BY <1>2, <1>6 DEF PipelineInv, ChildEnds
<1>. QED  BY <1>4, <1>5, <1>7 DEF PipelineInv

-----------------------------------------------------------------------------
(* A child's steps.                                                        *)

\* exec: the child has given up its copy of the reading end of the pipe it writes to.
LEMMA ExecStep ==
    ASSUME PipelineInv, NEW c \in Children, childExec(c)
    PROVE  PipelineInv'
<1>. USE Numbers
<1>1. TypeOK
  BY DEF PipelineInv
<1>2. /\ UNCHANGED <<callVars, content, status>>
      /\ proc' = [proc EXCEPT ![c] = "run"]
  BY DEF childExec
<1>3. PICK files \in SUBSET {"in", "out"} :
          /\ readers' = [p \in Pipes |-> IF p = c \/ (p + 1 = c /\ "in" \in files)
                                        THEN readers[p] \ {c} ELSE readers[p]]
          /\ writers' = [p \in Pipes |-> IF p = c /\ "out" \in files
                                        THEN writers[p] \ {c} ELSE writers[p]]
  BY DEF childExec
<1>4. \A p \in Pipes : /\ readers'[p] = readers[p] \/ readers'[p] = readers[p] \ {c}
                       /\ writers'[p] = writers[p] \/ writers'[p] = writers[p] \ {c}
                       /\ p = c => c \notin readers'[p]
  BY <1>3
<1>5. readers' \in [Pipes -> SUBSET (0..N)] /\ writers' \in [Pipes -> SUBSET (0..N)]
  BY <1>1, <1>3 DEF TypeOK
<1>6. proc' \in [Children -> {"none", "born", "run", "write", "zombie", "reaped"}]
  BY <1>1, <1>2 DEF TypeOK
<1>7. TypeOK'
  BY <1>1, <1>2, <1>5, <1>6 DEF TypeOK, callVars
<1>8. ParentEnds'
  BY <1>2, <1>4 DEF PipelineInv, ParentEnds, callVars
<1>9. ASSUME NEW k \in Children PROVE ChildEnds(k)'
  <2>1. \A p \in Pipes : /\ k \in readers'[p] => k \in readers[p]
                         /\ k \in writers'[p] => k \in writers[p]
    BY <1>4
  <2>2. k # c => Running(k)' = Running(k)
    BY <1>1, <1>2 DEF TypeOK, Running
  <2>. QED  BY <1>4, <2>1, <2>2 DEF PipelineInv, ChildEnds
<1>. QED  BY <1>7, <1>8, <1>9 DEF PipelineInv

\* The program's steps are transfers and exits.
LEMMA ProgramStep ==
    ASSUME PipelineInv, NEW c \in Children, childStep(c) \/ programEnds(c)
    PROVE  PipelineInv'
<1>. USE Numbers
<1>1. TypeOK
  BY DEF PipelineInv
<1>2. content \in [Pipes -> 0..Capacity] /\ Capacity \in Nat
  BY <1>1, PipelineAssumption DEF TypeOK
<1>3. CASE childExec(c)
  BY <1>3, ExecStep
<1>4. CASE childExecFails(c)
  BY <1>4, ExitStep DEF childExecFails
<1>5. CASE programReads(c)
  <2>1. content' \in [Pipes -> 0..Capacity]
    BY <1>2, <1>5 DEF programReads, Reads
  <2>. QED  BY <1>5, <2>1, TransferStep DEF programReads, Running
<1>6. CASE programEof(c)
  BY <1>6, ExitStep DEF programEof
<1>7. CASE programWrites(c)
  <2>1. content' \in [Pipes -> 0..Capacity]
    BY <1>2, <1>7 DEF programWrites, Writes
  <2>. QED  BY <1>7, <2>1, TransferStep DEF programWrites, Running
<1>8. CASE programSigpipe(c)
  BY <1>8, ExitStep DEF programSigpipe
<1>9. CASE programEnds(c)
  BY <1>9, ExitStep DEF programEnds
<1>. QED  BY <1>3, <1>4, <1>5, <1>6, <1>7, <1>8, <1>9 DEF childStep

-----------------------------------------------------------------------------
(* The theorems.                                                           *)

\* The invariant holds before the first pipe is made, and every step keeps it.
LEMMA PipelineInvariant == Spec => []PipelineInv
<1>1. Init => PipelineInv
  <2> SUFFICES ASSUME Init PROVE PipelineInv
    OBVIOUS
  <2>1. 1 \in Children /\ 0 \in 0..Capacity
    BY PipelineAssumption DEF Children
  <2>2. content \in [Pipes -> 0..Capacity]
    BY <2>1 DEF Init
  <2>3. TypeOK
    BY <2>1, <2>2 DEF Init, TypeOK
  <2>4. ParentEnds /\ \A c \in Children : ChildEnds(c)
    BY DEF Init, ParentEnds, ChildEnds
  <2>. QED  BY <2>3, <2>4 DEF PipelineInv
<1>2. PipelineInv /\ [Next]_vars => PipelineInv'
  <2> SUFFICES ASSUME PipelineInv, [Next]_vars PROVE PipelineInv'
    OBVIOUS
  <2>1. CASE parentStep
    BY <2>1, CallFailsStep, MakePipeStep, ForkStep, CloseStep, WaitStep DEF parentStep
  <2>2. CASE reapZombies
    BY <2>2, ReapStep
  <2>3. CASE \E c \in Children : childStep(c) \/ programEnds(c)
    BY <2>3, ProgramStep
  <2>4. CASE UNCHANGED vars
    BY <2>4 DEF PipelineInv, TypeOK, ParentEnds, ChildEnds, Running, vars, callVars
  <2>. QED  BY <2>1, <2>2, <2>3, <2>4 DEF Next, terminated
<1>. QED  BY <1>1, <1>2, PTL DEF Spec

\* The variables of executePipeline keep their types: its loop variable names a command,
\* and a pipe never holds more than it can.
THEOREM PipelineTypeCorrect == Spec => []TypeOK
<1>1. PipelineInv => TypeOK
  BY DEF PipelineInv
<1>. QED  BY <1>1, PipelineInvariant, PTL

\* However many commands the line has, whichever redirections they use and in whatever
\* order the children get to run: a call that returns without an error has closed every
\* end it opened, and a running command has no end but those to its two neighbours.
THEOREM PipelineEndsClosed == Spec => []EndsClosed
<1>1. PipelineInv => EndsClosed
  BY DEF PipelineInv, ParentEnds, ChildEnds, EndsClosed
<1>. QED  BY <1>1, PipelineInvariant, PTL

=============================================================================
