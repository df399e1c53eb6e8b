------------------------------ MODULE Dashboard ------------------------------
(***************************************************************************)
(* The two named pipes between the engine and the dashboard's API server.  *)
(* The API's POST handler writes a command to /tmp/isolyx_cmds, the        *)
(* engine's daemon thread reads it; a worker in DashboardObserver writes   *)
(* the result to /tmp/isolyx_events, the API's read stream delivers it to  *)
(* the waiting request.  The pool in between is reduced to a job that is   *)
(* running and finishes; the collector's mutex lets one worker write.      *)
(*                                                                         *)
(* A pipe's contents are discarded when its last end is closed.  open of a *)
(* reading end waits for a writer and counts as a reader meanwhile.        *)
(* A handler of the API runs to its end before the event loop goes on.     *)
(***************************************************************************)
EXTENDS Integers, SequencesExt

CONSTANTS Requests,   \* POST /api/submit, each with its own uuid
          CliJobs,    \* jobs typed at the engine's prompt
          Outputs,    \* what jobs print: "small", "big" (a pipe overflows), "binary" (not UTF-8)
          MaxStarts,  \* bound: how often the engine is started
          NoJob

Jobs == Requests \cup CliJobs

ASSUME DashboardAssumption ==
    /\ Requests \cap CliJobs = {}
    /\ Outputs \in SUBSET {"small", "big", "binary"} /\ "small" \in Outputs
    /\ MaxStarts \in Nat
    /\ NoJob \notin Jobs

VARIABLES
    engine,     \* the engine process
    starts,     \* how often it has been started
    daemon,     \* the daemon thread and its end of the command pipe
    cmds,       \* contents of /tmp/isolyx_cmds, as lines
    jobs,       \* what the engine knows of each job
    observer,   \* the worker inside DashboardObserver::onResult
    current,    \* the job whose result it writes
    events,     \* contents of /tmp/isolyx_events
    stream,     \* the API's read stream, "off" while there is no API
    handler,    \* the POST handler, when the event loop runs it
    request,    \* the request it handles
    leaked,     \* the API still has a writing end that closeSync was skipped for
    pendingRequests,
    answer,     \* what each request was answered
    broadcast,  \* the jobs emitted to the web clients
    lost        \* history: jobs whose command or result was dropped somewhere

engineVars == <<engine, starts, daemon, jobs, observer, current>>
apiVars == <<stream, handler, request, leaked, pendingRequests, answer, broadcast>>
vars == <<engineVars, cmds, events, apiVars, lost>>

Init ==
    /\ engine = "down" /\ starts = 0
    /\ daemon = "closed" /\ cmds = <<>>
    /\ jobs = [j \in Jobs |-> "none"]
    /\ observer = "idle" /\ current = NoJob /\ events = <<>>
    /\ stream = "off"
    /\ handler = "idle" /\ request = NoJob /\ leaked = FALSE
    /\ pendingRequests = {}
    /\ answer = [r \in Requests |-> "none"]
    /\ broadcast = {} /\ lost = {}

CmdReader == daemon \in {"opening", "open", "eof"}
CmdWriter == leaked \/ handler \in {"write", "close"}
EventReader == stream \in {"opening", "open", "eof"}
EventWriter == observer \in {"write", "newline", "close"}

\* A piece of a line in the event pipe: all of it, its beginning, or its end.
Piece(j, what) == [job |-> j, what |-> what]
Newline == Piece(NoJob, "newline")
JobsIn(pieces) == {p.job : p \in Range(pieces)} \ {NoJob}

\* Write and newline fail with EAGAIN while the beginning of a big result fills the pipe.
Full == \E p \in Range(events) : p.what = "part"

-----------------------------------------------------------------------------
(* The engine.                                                             *)

\* The process is gone: its ends are closed and its jobs are forgotten.
engineEnds ==
    /\ engine' = "down"
    /\ daemon' = "closed" /\ observer' = "idle" /\ current' = NoJob
    /\ jobs' = [j \in Jobs |-> IF jobs[j] = "running" THEN "dead" ELSE jobs[j]]
    /\ cmds' = IF CmdWriter THEN cmds ELSE <<>>
    /\ events' = IF EventReader THEN events ELSE <<>>
    /\ lost' = lost \cup {j \in Jobs : jobs[j] = "running"}
                    \cup (IF CmdWriter THEN {} ELSE Range(cmds))
                    \cup (IF EventReader THEN {} ELSE JobsIn(events))
    /\ UNCHANGED <<starts, apiVars>>

engineStart ==
    /\ engine = "down" /\ starts < MaxStarts
    /\ engine' = "up" /\ starts' = starts + 1
    /\ UNCHANGED <<daemon, jobs, observer, current, cmds, events, apiVars, lost>>

\* exit or end of input at the prompt.
engineExit == engine = "up" /\ engineEnds

\* A job is typed at the prompt.
cliSubmit(j) ==
    /\ engine = "up" /\ jobs[j] = "none"
    /\ jobs' = [jobs EXCEPT ![j] = "running"]
    /\ UNCHANGED <<engine, starts, daemon, observer, current, cmds, events, apiVars, lost>>

Daemon(from, to) ==
    /\ engine = "up" /\ daemon = from
    /\ daemon' = to
    /\ UNCHANGED <<engine, starts, observer, current, events, apiVars>>

\* A fault for mutation: the pipe is opened only when somebody writes.
OpenIfWriter ==
    /\ CmdWriter
    /\ Daemon("closed", "open")
    /\ UNCHANGED <<cmds, jobs, lost>>

\* while (true) { std::ifstream pipe(pipe_path) ... : blocks unless there is a writer.
daemonOpen ==
    /\ Daemon("closed", IF CmdWriter THEN "open" ELSE "opening")
    /\ UNCHANGED <<cmds, jobs, lost>>

\* getline, parse, enqueue.
daemonLine ==
    /\ Daemon("open", "open")
    /\ cmds # <<>>
    /\ cmds' = Tail(cmds)
    /\ jobs' = [jobs EXCEPT ![Head(cmds)] = "running"]
    /\ UNCHANGED lost

\* No writer and nothing to read: getline fails.
daemonEof ==
    /\ cmds = <<>> /\ ~CmdWriter
    /\ Daemon("open", "eof")
    /\ UNCHANGED <<cmds, jobs, lost>>

\* ~ifstream: what was written since goes with the pipe, unless a writer still has it.
daemonClose ==
    /\ Daemon("eof", "closed")
    /\ cmds' = IF CmdWriter THEN cmds ELSE <<>>
    /\ lost' = IF CmdWriter THEN lost ELSE lost \cup Range(cmds)
    /\ UNCHANGED jobs

Observe(from, to) ==
    /\ engine = "up" /\ observer = from
    /\ observer' = to
    /\ UNCHANGED <<engine, starts, daemon, cmds, handler, request, leaked, pendingRequests,
                   answer, broadcast>>

\* A worker's job has ended and its result reaches onResult: j.dump() throws for a
\* string that is not UTF-8, which nothing catches in workerLoop.
onResult(j) ==
    /\ engine = "up" /\ observer = "idle" /\ jobs[j] = "running"
    /\ \/ "binary" \in Outputs /\ engineEnds
       \/ /\ Observe("idle", "open")
          /\ current' = j
          /\ UNCHANGED <<jobs, events, stream, lost>>

Done == jobs' = [jobs EXCEPT ![current] = "done"] /\ current' = NoJob

\* open(O_WRONLY | O_NONBLOCK): fails at once without a reader, and wakes a waiting one.
openEvents ==
    \/ /\ EventReader
       /\ Observe("open", "write")
       /\ stream' = IF stream = "opening" THEN "open" ELSE stream
       /\ UNCHANGED <<current, jobs, events, lost>>
    \/ /\ ~EventReader
       /\ Observe("open", "idle")
       /\ Done
       /\ lost' = lost \cup {current}
       /\ UNCHANGED <<stream, events>>

\* write to a pipe: SIGPIPE without a reader, EAGAIN when it is full.
WriteEvent(from, to, piece) ==
    /\ observer = from /\ engine = "up"
    /\ IF ~EventReader
         THEN engineEnds
         ELSE /\ Observe(from, to)
              /\ events' = IF Full THEN events ELSE Append(events, piece)
              /\ lost' = IF Full \/ piece.what = "part" THEN lost \cup {current} ELSE lost
              /\ UNCHANGED <<current, jobs, stream>>

writeData ==
    \/ WriteEvent("write", "newline", Piece(current, "whole"))
    \/ "big" \in Outputs /\ WriteEvent("write", "newline", Piece(current, "part"))

writeNewline == WriteEvent("newline", "close", Newline)

\* close(fd)
closeEvents ==
    /\ Observe("close", "idle")
    /\ Done
    /\ events' = IF EventReader THEN events ELSE <<>>
    /\ lost' = IF EventReader THEN lost ELSE lost \cup JobsIn(events)
    /\ UNCHANGED stream

-----------------------------------------------------------------------------
(* The API server.                                                         *)

apiStart ==
    /\ stream = "off"
    /\ stream' = "timer"
    /\ UNCHANGED <<engineVars, cmds, events, handler, request, leaked, pendingRequests,
                   answer, broadcast, lost>>

Handle(from, to) ==
    /\ stream # "off" /\ handler = from
    /\ handler' = to
    /\ UNCHANGED <<engine, starts, jobs, observer, current, events, stream, broadcast>>

\* POST /api/submit: a bad request or a failing compilation is answered at once, else
\* openSync is called.
post(r) ==
    /\ answer[r] = "none" /\ r \notin pendingRequests
    /\ \/ Handle("idle", "open") /\ request' = r /\ UNCHANGED answer
       \/ Handle("idle", "idle") /\ answer' = [answer EXCEPT ![r] = "error"] /\ UNCHANGED request
    /\ UNCHANGED <<daemon, cmds, leaked, pendingRequests, lost>>

\* openSync returns once there is a reader, and wakes a waiting one.
postOpened ==
    /\ CmdReader
    /\ Handle("open", "write")
    /\ daemon' = IF daemon = "opening" THEN "open" ELSE daemon
    /\ UNCHANGED <<cmds, request, leaked, pendingRequests, answer, lost>>

\* A fault for mutation: the job's uuid is gone before the request is registered.
WriteForgetsRequest ==
    /\ CmdReader
    /\ Handle("write", "close")
    /\ cmds' = Append(cmds, request)
    /\ request' = NoJob
    /\ UNCHANGED <<daemon, leaked, pendingRequests, answer, lost>>

\* writeSync; without a reader it throws EPIPE and the catch answers 500 without
\* closing the descriptor.
postWrite ==
    \/ /\ CmdReader
       /\ Handle("write", "close")
       /\ cmds' = Append(cmds, request)
       /\ UNCHANGED <<daemon, request, leaked, pendingRequests, answer, lost>>
    \/ /\ ~CmdReader
       /\ Handle("write", "idle")
       /\ answer' = [answer EXCEPT ![request] = "error"]
       /\ request' = NoJob /\ leaked' = TRUE
       /\ UNCHANGED <<daemon, cmds, pendingRequests, lost>>

\* closeSync and pendingRequests.set.
postClose ==
    /\ Handle("close", "idle")
    /\ pendingRequests' = pendingRequests \cup {request}
    /\ request' = NoJob
    /\ cmds' = IF CmdReader \/ leaked THEN cmds ELSE <<>>
    /\ lost' = IF CmdReader \/ leaked THEN lost ELSE lost \cup Range(cmds)
    /\ UNCHANGED <<daemon, leaked, answer>>

Stream(from, to) ==
    /\ stream = from
    /\ stream' = to
    /\ UNCHANGED <<engineVars, cmds, handler, request, leaked>>

\* readFromPipe() is called by its timer: createReadStream opens the pipe.
streamOpen ==
    /\ handler = "idle"
    /\ Stream("timer", IF EventWriter THEN "open" ELSE "opening")
    /\ UNCHANGED <<events, pendingRequests, answer, broadcast, lost>>

\* chunk.split('\n'): a piece is a line of its own, and parses, if it is whole and
\* nothing is before or after it on the line.
Parsed(chunk) ==
    {j \in Jobs : \E i \in DOMAIN chunk :
        /\ chunk[i] = Piece(j, "whole")
        /\ i > 1 => chunk[i - 1] = Newline
        /\ i < Len(chunk) => chunk[i + 1] = Newline}

Deliver(emitted) ==
    /\ broadcast' = broadcast \cup emitted
    /\ answer' = [r \in Requests |-> IF r \in emitted \cap pendingRequests THEN "result" ELSE answer[r]]
    /\ pendingRequests' = pendingRequests \ emitted
    /\ events' = <<>>
    /\ lost' = lost \cup (JobsIn(events) \ Parsed(events))

\* Faults for mutation: the loop over the lines ends with the first event that
\* answers a request; the stream's events are handled while the handler waits.
DataFirstOnly ==
    /\ handler = "idle" /\ events # <<>>
    /\ Stream("open", "open")
    /\ LET done == {i \in DOMAIN events : events[i].job \in Parsed(events) \cap pendingRequests}
       IN  Deliver({j \in Parsed(events) : \E i \in DOMAIN events :
                        events[i].job = j /\ \A k \in done : i <= k})

DataDuringHandler ==
    /\ events # <<>>
    /\ Stream("open", "open")
    /\ Deliver(Parsed(events))

\* 'data': the chunk is split into lines, each parsed, emitted and matched.
streamData ==
    /\ handler = "idle" /\ events # <<>>
    /\ Stream("open", "open")
    /\ Deliver(Parsed(events))

\* read returns 0: no writer and nothing left ...
streamEnd ==
    /\ events = <<>> /\ ~EventWriter
    /\ Stream("open", "eof")
    /\ UNCHANGED <<events, pendingRequests, answer, broadcast, lost>>

\* ... 'end' sets a timer of 100 ms and the stream closes the pipe.
streamClose ==
    /\ handler = "idle"
    /\ Stream("eof", "timer")
    /\ events' = IF EventWriter THEN events ELSE <<>>
    /\ lost' = IF EventWriter THEN lost ELSE lost \cup JobsIn(events)
    /\ UNCHANGED <<pendingRequests, answer, broadcast>>

-----------------------------------------------------------------------------

daemonStep == daemonOpen \/ daemonLine \/ daemonEof \/ daemonClose
observerStep == openEvents \/ writeData \/ writeNewline \/ closeEvents
handlerStep == postOpened \/ postWrite \/ postClose
streamStep == streamOpen \/ streamData \/ streamEnd \/ streamClose

terminated ==
    /\ engine = "down" /\ starts = MaxStarts
    /\ UNCHANGED vars

Next ==
    \/ engineStart \/ engineExit \/ apiStart
    \/ \E j \in CliJobs : cliSubmit(j)
    \/ \E j \in Jobs : onResult(j)
    \/ \E r \in Requests : post(r)
    \/ daemonStep \/ observerStep \/ handlerStep \/ streamStep
    \/ terminated

Spec == Init /\ [][Next]_vars

\* The threads of a running engine, the event loop and its timers go on, and a
\* program ends.  Nobody has to start a process, to submit or to stop anything.
Fairness ==
    /\ WF_vars(daemonStep) /\ WF_vars(observerStep)
    /\ WF_vars(\E j \in Jobs : onResult(j))
    /\ WF_vars(handlerStep)
    /\ WF_vars(streamOpen) /\ WF_vars(streamData) /\ WF_vars(streamEnd) /\ WF_vars(streamClose)

FairSpec == Spec /\ Fairness

-----------------------------------------------------------------------------
(* Properties.                                                             *)

\* The types of the variables.
TypeOK ==
    /\ engine \in {"down", "up"} /\ starts \in 0..MaxStarts
    /\ daemon \in {"closed", "opening", "open", "eof"}
    /\ cmds \in Seq(Requests)
    /\ jobs \in [Jobs -> {"none", "running", "done", "dead"}]
    /\ observer \in {"idle", "open", "write", "newline", "close"}
    /\ current \in Jobs \cup {NoJob}
    /\ events \in Seq([job : Jobs \cup {NoJob}, what : {"whole", "part", "newline"}])
    /\ stream \in {"off", "timer", "opening", "open", "eof"}
    /\ handler \in {"idle", "open", "write", "close"}
    /\ request \in Requests \cup {NoJob} /\ leaked \in BOOLEAN
    /\ pendingRequests \in SUBSET Requests
    /\ answer \in [Requests -> {"none", "error", "result"}]
    /\ broadcast \in SUBSET Jobs /\ lost \in SUBSET Jobs

\* A result that reaches the API finds its request waiting, however fast the job is:
\* the handler registers the request before the event loop can see the result, and a
\* request answered with an error has no job.
BroadcastIsAnswered ==
    \A r \in Requests \cap broadcast : answer[r] = "result"

\* A request that waits is answered with its job's result unless its command or result
\* was dropped on the way: nothing waits for ever between the two pipes, also across a
\* restart of the engine and when several results arrive in one chunk.
AnsweredUnlessLost ==
    \A r \in Requests :
        (r \in pendingRequests) ~> (answer[r] = "result" \/ r \in lost \/ engine = "down")

\* Neither side holds the other up. Whatever the API does, and without one, the worker
\* that publishes a result leaves onResult, and with it the collector's mutex; with a
\* running engine openSync returns, so the API's event loop goes on: the two sides, each
\* waiting for the other's end of the command pipe, meet.
NeitherSideHeldUp ==
    /\ (observer # "idle") ~> (observer = "idle")
    /\ (handler # "idle") ~> (handler = "idle" \/ engine = "down")

\* The result of a job that runs while the API listens on the pipe is broadcast.
EveryResultBroadcast ==
    \A j \in Jobs :
        (jobs[j] = "running" /\ stream \in {"opening", "open"})
            ~> (j \in broadcast \/ engine = "down")

=============================================================================
