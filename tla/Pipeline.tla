------------------------------- MODULE Pipeline -------------------------------
(***************************************************************************)
(* Executor::executePipeline of two or more commands: one fork per command *)
(* and one pipe between neighbours, whose ends are copied by fork and must *)
(* be closed one by one by parent and children for end-of-file and SIGPIPE *)
(* to travel along the pipeline.  Process 0 is the engine, 1..N are the    *)
(* commands' children, pipe p joins child p to child p + 1.                *)
(***************************************************************************)
EXTENDS Naturals

CONSTANTS N,       \* pipeline.size()
          Ends,    \* the commands whose program ends by itself
          Capacity \* bound: writes a pipe holds

ASSUME PipelineAssumption ==
    /\ N \in Nat /\ N >= 2
    /\ Ends \in SUBSET (1..N)
    /\ Capacity \in Nat \ {0}

Children == 1..N
Pipes == 1..(N - 1)

VARIABLES
    pc,          \* where executePipeline is
    i,           \* its loop variable, or the child it waits for
    background,  \* pipeline.back().isBackground
    success,     \* ExecutionResult::success
    failed,      \* history: pipe() or fork() failed
    readers,     \* the processes that have each pipe's reading end open
    writers,     \* ... and its writing end
    content,     \* what has been written and not read
    proc,        \* the children
    status       \* how a dead child ended

callVars == <<pc, i, background, success, failed>>
vars == <<callVars, readers, writers, content, proc, status>>

Init ==
    /\ pc = "pipe" /\ i = 1
    /\ background \in BOOLEAN
    /\ success = TRUE /\ failed = FALSE
    /\ readers = [p \in Pipes |-> {}]
    /\ writers = [p \in Pipes |-> {}]
    /\ content = [p \in Pipes |-> 0]
    /\ proc = [c \in Children |-> "none"]
    /\ status = [c \in Children |-> "none"]

-------------------------------------------------------------------------------
(* The parent.                                                             *)

\* pipe() or fork() fails: return at once, whatever has been started and opened.
callFails ==
    /\ pc = "fork" \/ (pc = "pipe" /\ i < N)
    /\ pc' = "returned" /\ success' = FALSE /\ failed' = TRUE
    /\ UNCHANGED <<i, background, readers, writers, content, proc, status>>

\* The last command gets no pipe.
makePipe ==
    /\ pc = "pipe"
    /\ IF i < N
         THEN /\ readers' = [readers EXCEPT ![i] = {0}]
              /\ writers' = [writers EXCEPT ![i] = {0}]
         ELSE UNCHANGED <<readers, writers>>
    /\ pc' = "fork"
    /\ UNCHANGED <<i, background, success, failed, content, proc, status>>

\* fork(): the child has a copy of every end the parent has.
forkChild ==
    /\ pc = "fork"
    /\ proc' = [proc EXCEPT ![i] = "born"]
    /\ readers' = [p \in Pipes |-> readers[p] \cup (IF 0 \in readers[p] THEN {i} ELSE {})]
    /\ writers' = [p \in Pipes |-> writers[p] \cup (IF 0 \in writers[p] THEN {i} ELSE {})]
    /\ pc' = "close"
    /\ UNCHANGED <<i, background, success, failed, content, status>>

\* A fault for mutation: one round too many.
NextPastEnd ==
    /\ pc = "close"
    /\ pc' = "pipe" /\ i' = i + 1
    /\ UNCHANGED <<background, success, failed, content, proc, status>>

\* The loop goes on, or the call to the waiting, or to the return.
NextCommand ==
    /\ pc = "close"
    /\ IF i < N THEN pc' = "pipe" /\ i' = i + 1
       ELSE pc' = (IF background THEN "returned" ELSE "wait") /\ i' = 1
    /\ UNCHANGED <<background, success, failed, content, proc, status>>

\* A fault for mutation: the parent keeps the writing end.
KeepWritingEnd ==
    /\ NextCommand
    /\ readers' = [p \in Pipes |-> IF p + 1 = i THEN readers[p] \ {0} ELSE readers[p]]
    /\ UNCHANGED writers

\* A fault for mutation: the parent keeps the reading end of the pipe before.
KeepReadingEnd ==
    /\ NextCommand
    /\ writers' = [p \in Pipes |-> IF p = i THEN writers[p] \ {0} ELSE writers[p]]
    /\ UNCHANGED readers

\* close(prev_fd), prev_fd = fd[0], close(fd[1]); after the loop the children are
\* waited for unless the pipeline is in the background.
closeEnds ==
    /\ NextCommand
    /\ readers' = [p \in Pipes |-> IF p + 1 = i THEN readers[p] \ {0} ELSE readers[p]]
    /\ writers' = [p \in Pipes |-> IF p = i THEN writers[p] \ {0} ELSE writers[p]]

\* waitpid for each child in turn; the last one's status is the result.
waitChild ==
    /\ pc = "wait" /\ proc[i] = "zombie"
    /\ proc' = [proc EXCEPT ![i] = "reaped"]
    /\ IF i < N THEN i' = i + 1 /\ UNCHANGED <<pc, success>>
       ELSE pc' = "returned" /\ success' = (status[N] = "ok") /\ UNCHANGED i
    /\ UNCHANGED <<background, failed, readers, writers, content, status>>

\* reapZombies(), for the children nobody waited for.
reapZombies ==
    /\ pc = "returned"
    /\ \E c \in Children : proc[c] = "zombie"
    /\ proc' = [c \in Children |-> IF proc[c] = "zombie" THEN "reaped" ELSE proc[c]]
    /\ UNCHANGED <<callVars, readers, writers, content, status>>

-------------------------------------------------------------------------------
(* A child.                                                                *)

Reads(c) == c - 1 \in Pipes /\ c \in readers[c - 1]
Writes(c) == c \in Pipes /\ c \in writers[c]
Running(c) == proc[c] \in {"run", "write"}

\* A process that ends closes all its ends.
Exit(c, how) ==
    /\ proc' = [proc EXCEPT ![c] = "zombie"]
    /\ status' = [status EXCEPT ![c] = how]
    /\ readers' = [p \in Pipes |-> readers[p] \ {c}]
    /\ writers' = [p \in Pipes |-> writers[p] \ {c}]
    /\ UNCHANGED <<callVars, content>>

\* A fault for mutation: the child keeps the reading end of the pipe it writes to.
ExecKeepsEnd(c) ==
    /\ proc[c] = "born"
    /\ proc' = [proc EXCEPT ![c] = "run"]
    /\ UNCHANGED <<callVars, readers, writers, content, status>>

\* The ends become stdin and stdout and are closed, and with a redirection the file
\* takes the end's place; then execvp.
childExec(c) ==
    /\ proc[c] = "born"
    /\ \E files \in SUBSET {"in", "out"} :
          /\ readers' = [p \in Pipes |-> IF p = c \/ (p + 1 = c /\ "in" \in files)
                                        THEN readers[p] \ {c} ELSE readers[p]]
          /\ writers' = [p \in Pipes |-> IF p = c /\ "out" \in files
                                        THEN writers[p] \ {c} ELSE writers[p]]
    /\ proc' = [proc EXCEPT ![c] = "run"]
    /\ UNCHANGED <<callVars, content, status>>

\* execvp fails: exit(1).
childExecFails(c) == proc[c] = "born" /\ Exit(c, "nonzero")

\* The program takes its next input, from the pipe or from elsewhere ...
programReads(c) ==
    /\ proc[c] = "run"
    /\ IF Reads(c)
         THEN content[c - 1] > 0 /\ content' = [content EXCEPT ![c - 1] = @ - 1]
         ELSE UNCHANGED content
    /\ proc' = [proc EXCEPT ![c] = "write"]
    /\ UNCHANGED <<callVars, readers, writers, status>>

\* ... ends when there will be none ...
programEof(c) ==
    /\ proc[c] = "run" /\ Reads(c)
    /\ content[c - 1] = 0 /\ writers[c - 1] = {}
    /\ Exit(c, "ok")

\* ... and writes, if the pipe has room and a reader; without a reader SIGPIPE ends it.
programWrites(c) ==
    /\ proc[c] = "write"
    /\ IF Writes(c)
         THEN content[c] < Capacity /\ content' = [content EXCEPT ![c] = @ + 1]
         ELSE UNCHANGED content
    /\ Writes(c) => readers[c] # {}
    /\ proc' = [proc EXCEPT ![c] = "run"]
    /\ UNCHANGED <<callVars, readers, writers, status>>

programSigpipe(c) ==
    /\ proc[c] = "write" /\ Writes(c) /\ readers[c] = {}
    /\ Exit(c, "signal")

\* Any program may end of its own accord.
programEnds(c) == Running(c) /\ \E how \in {"ok", "nonzero"} : Exit(c, how)

-------------------------------------------------------------------------------

parentStep == callFails \/ makePipe \/ forkChild \/ closeEnds \/ waitChild

childStep(c) ==
    \/ childExec(c) \/ childExecFails(c)
    \/ programReads(c) \/ programEof(c) \/ programWrites(c) \/ programSigpipe(c)

terminated == pc = "returned" /\ UNCHANGED vars

Next ==
    \/ parentStep \/ reapZombies \/ terminated
    \/ \E c \in Children : childStep(c) \/ programEnds(c)

Spec == Init /\ [][Next]_vars

\* The kernel runs the parent and every child.  The programs in Ends end, and one that
\* neither reads nor writes a pipe does too; of the others nothing of the kind is asked.
Fairness ==
    /\ WF_vars(parentStep)
    /\ \A c \in Children :
          /\ WF_vars(childStep(c))
          /\ WF_vars((c \in Ends \/ ~(Reads(c) \/ Writes(c))) /\ programEnds(c))

FairSpec == Spec /\ Fairness

-------------------------------------------------------------------------------
(* Properties.                                                             *)

\* The types of the variables.
TypeOK ==
    /\ pc \in {"pipe", "fork", "close", "wait", "returned"} /\ i \in Children
    /\ background \in BOOLEAN /\ success \in BOOLEAN /\ failed \in BOOLEAN
    /\ readers \in [Pipes -> SUBSET (0..N)]
    /\ writers \in [Pipes -> SUBSET (0..N)]
    /\ content \in [Pipes -> 0..Capacity]
    /\ proc \in [Children -> {"none", "born", "run", "write", "zombie", "reaped"}]
    /\ status \in [Children -> {"none", "ok", "nonzero", "signal"}]

\* A call that returns without an error has closed every end it opened, and only the
\* two neighbours of a pipe have ever an end of it once their programs run: no other
\* command of the line holds a pipe open.
EndsClosed ==
    /\ pc = "returned" /\ ~failed => \A p \in Pipes : 0 \notin readers[p] \cup writers[p]
    /\ \A c \in Children : Running(c) =>
          \A p \in Pipes : /\ c \in readers[p] => p = c - 1
                           /\ c \in writers[p] => p = c

\* A pipeline ends as soon as one of its commands does: end-of-file ends those after
\* it, SIGPIPE those before it, and the call returns.
PipelineReturns == <>(pc = "returned")

\* The same for a pipeline in the background: the call does not wait, and its
\* children end nevertheless, unless a failed call left an end open in the engine.
ChildrenEnd ==
    \A c \in Children : [](proc[c] # "none" => <>(failed \/ proc[c] \in {"zombie", "reaped"}))

===============================================================================
