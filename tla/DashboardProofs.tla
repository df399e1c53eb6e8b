--------------------------- MODULE DashboardProofs ---------------------------
(***************************************************************************)
(* Proofs about the two pipes between engine and dashboard, for any number *)
(* of requests, prompt jobs and starts of the engine: the types, and that  *)
(* a result which is broadcast has answered its request.  The argument is  *)
(* that whatever the engine knows of a request, in a pipe or as a job, its *)
(* handler has written, and that the event loop looks into the event pipe  *)
(* only between handlers, when that handler has registered it.             *)
(***************************************************************************)
EXTENDS Dashboard, SequenceTheorems, TLAPS

\* The request has left the API: a command in the pipe, a job, or a result in the pipe.
Known(r) == r \in Range(cmds) \/ jobs[r] # "none" \/ r \in JobsIn(events)

\* A worker inside onResult has a job.
ObserverShape == observer # "idle" => current \in Jobs /\ jobs[current] # "none"

\* A handler that has not returned has a request, neither answered nor registered.
HandlerShape ==
    handler # "idle" =>
        /\ request \in Requests
        /\ answer[request] = "none"
        /\ request \notin pendingRequests

\* What has left the API waits to be answered or is answered, or its handler is
\* between writeSync and pendingRequests.set.
KnownShape ==
    \A r \in Requests : Known(r) =>
        \/ r \in pendingRequests
        \/ answer[r] = "result"
        \/ handler = "close" /\ request = r

DashboardInv ==
    /\ TypeOK /\ ObserverShape /\ HandlerShape /\ KnownShape
    /\ BroadcastIsAnswered

-----------------------------------------------------------------------------

(* What is in a pipe.                                                      *)

Pieces == [job : Jobs \cup {NoJob}, what : {"whole", "part", "newline"}]

\* An empty pipe, one line less and one line more.
LEMMA PipeContents ==
    ASSUME NEW S, NEW s \in Seq(S)
    PROVE  /\ Range(<<>>) = {} /\ Range(s) \subseteq S
           /\ s # <<>> => /\ Tail(s) \in Seq(S) /\ Head(s) \in Range(s)
                          /\ Range(Tail(s)) \subseteq Range(s)
           /\ \A e \in S : Append(s, e) \in Seq(S) /\ Range(Append(s, e)) = Range(s) \cup {e}
<1>1. DOMAIN s = 1..Len(s) /\ Len(s) \in Nat /\ \A n \in 1..Len(s) : s[n] \in S
  BY LenProperties, ElementOfSeq
<1>2. Range(<<>>) = {}
  BY DEF Range
<1>3. Range(s) \subseteq S
  BY <1>1 DEF Range
<1>4. ASSUME s # <<>>
      PROVE  /\ Tail(s) \in Seq(S) /\ Head(s) \in Range(s)
             /\ Range(Tail(s)) \subseteq Range(s)
  <2>1. /\ Tail(s) \in Seq(S) /\ Len(Tail(s)) = Len(s) - 1
        /\ \A n \in 1..Len(Tail(s)) : Tail(s)[n] = s[n + 1]
    BY <1>4, HeadTailProperties
  <2>2. Len(s) # 0 /\ Head(s) = s[1]
    BY <1>4, EmptySeq
  <2>3. DOMAIN Tail(s) = 1..Len(Tail(s))
    BY <2>1
  <2>. QED  BY <1>1, <2>1, <2>2, <2>3 DEF Range
<1>5. ASSUME NEW e \in S
      PROVE  Append(s, e) \in Seq(S) /\ Range(Append(s, e)) = Range(s) \cup {e}
  <2>1. /\ Append(s, e) \in Seq(S) /\ Len(Append(s, e)) = Len(s) + 1
        /\ \A n \in 1..Len(s) : Append(s, e)[n] = s[n]
        /\ Append(s, e)[Len(s) + 1] = e
    BY AppendProperties
  <2>2. DOMAIN Append(s, e) = 1..(Len(s) + 1)
    BY <2>1
  <2>. QED  BY <1>1, <2>1, <2>2 DEF Range
<1>. QED  BY <1>2, <1>3, <1>4, <1>5

\* The same for the jobs whose results are in the event pipe.
LEMMA EventContents ==
    ASSUME NEW s \in Seq(Pieces)
    PROVE  /\ JobsIn(<<>>) = {} /\ JobsIn(s) \subseteq Jobs
           /\ \A e \in Pieces : JobsIn(Append(s, e)) \subseteq JobsIn(s) \cup ({e.job} \ {NoJob})
           /\ Parsed(s) \subseteq JobsIn(s)
<1>1. /\ Range(<<>>) = {} /\ Range(s) \subseteq Pieces
      /\ \A e \in Pieces : Range(Append(s, e)) = Range(s) \cup {e}
  BY PipeContents
<1>2. JobsIn(<<>>) = {} /\ JobsIn(s) \subseteq Jobs
  BY <1>1 DEF JobsIn, Pieces
<1>3. \A e \in Pieces : JobsIn(Append(s, e)) \subseteq JobsIn(s) \cup ({e.job} \ {NoJob})
  BY <1>1 DEF JobsIn
<1>4. ASSUME NEW j \in Parsed(s) PROVE j \in JobsIn(s)
  <2>1. j \in Jobs /\ j # NoJob
    BY DashboardAssumption DEF Parsed
  <2>2. PICK n \in DOMAIN s : s[n] = Piece(j, "whole")
    BY DEF Parsed
  <2>3. s[n] \in Range(s) /\ s[n].job = j
    BY <2>2 DEF Range, Piece
  <2>. QED  BY <2>1, <2>3 DEF JobsIn
<1>. QED  BY <1>2, <1>3, <1>4

\* The parts of the type invariant the other lemmas use.
LEMMA Types ==
    ASSUME TypeOK
    PROVE  /\ cmds \in Seq(Requests) /\ events \in Seq(Pieces)
           /\ jobs \in [Jobs -> {"none", "running", "done", "dead"}]
           /\ answer \in [Requests -> {"none", "error", "result"}]
           /\ pendingRequests \in SUBSET Requests /\ broadcast \in SUBSET Jobs
           /\ lost \in SUBSET Jobs
           /\ Range(cmds) \subseteq Requests /\ JobsIn(events) \subseteq Jobs
           /\ Requests \subseteq Jobs
<1>1. cmds \in Seq(Requests) /\ events \in Seq(Pieces)
  BY DEF TypeOK, Pieces
<1>2. Range(cmds) \subseteq Requests /\ JobsIn(events) \subseteq Jobs
  BY <1>1, PipeContents, EventContents
<1>. QED  BY <1>1, <1>2 DEF TypeOK, Jobs

\* A pipe that is left alone, or discarded, holds nothing new.
LEMMA Discarded ==
    ASSUME TypeOK
    PROVE  /\ cmds' = cmds \/ cmds' = <<>> =>
                 cmds' \in Seq(Requests) /\ Range(cmds') \subseteq Range(cmds)
           /\ events' = events \/ events' = <<>> =>
                 events' \in Seq(Pieces) /\ JobsIn(events') \subseteq JobsIn(events)
<1>1. cmds \in Seq(Requests) /\ events \in Seq(Pieces)
  BY Types
<1>2. <<>> \in Seq(Requests) /\ <<>> \in Seq(Pieces)
  OBVIOUS
<1>3. Range(<<>>) = {} /\ JobsIn(<<>>) = {}
  BY <1>1, PipeContents, EventContents
<1>. QED  BY <1>1, <1>2, <1>3

\* A step that leaves the API's requests alone and tells the engine of no new one cannot
\* break the invariant.
LEMMA RequestsUntouched ==
    ASSUME DashboardInv, TypeOK', ObserverShape',
           UNCHANGED <<handler, request, pendingRequests, answer, broadcast>>,
           \A r \in Requests : Known(r)' => Known(r)
    PROVE  DashboardInv'
<1>1. HandlerShape' /\ BroadcastIsAnswered'
  BY DEF DashboardInv, HandlerShape, BroadcastIsAnswered
<1>2. KnownShape'
  BY DEF DashboardInv, KnownShape
<1>. QED  BY <1>1, <1>2 DEF DashboardInv

-----------------------------------------------------------------------------
(* Steps of the engine.                                                    *)

\* The process ends, by exit, an exception or SIGPIPE.
LEMMA EngineEndsStep == DashboardInv /\ engineEnds => DashboardInv'
<1> SUFFICES ASSUME DashboardInv, engineEnds PROVE DashboardInv'
  OBVIOUS
<1>1. TypeOK
  BY DEF DashboardInv
<1>2. /\ engine' = "down" /\ daemon' = "closed" /\ observer' = "idle" /\ current' = NoJob
      /\ jobs' = [j \in Jobs |-> IF jobs[j] = "running" THEN "dead" ELSE jobs[j]]
      /\ cmds' = cmds \/ cmds' = <<>>
      /\ events' = events \/ events' = <<>>
      /\ UNCHANGED <<starts, apiVars>>
  BY DEF engineEnds
<1>3. lost' \in SUBSET Jobs
  <2>1. lost' \subseteq lost \cup Jobs \cup Range(cmds) \cup JobsIn(events)
    BY DEF engineEnds
  <2>. QED  BY <1>1, <2>1, Types
<1>4. /\ jobs' \in [Jobs -> {"none", "running", "done", "dead"}]
      /\ \A j \in Jobs : jobs'[j] # "none" => jobs[j] # "none"
  BY <1>1, <1>2, Types
<1>5. /\ cmds' \in Seq(Requests) /\ events' \in Seq(Pieces)
      /\ Range(cmds') \subseteq Range(cmds) /\ JobsIn(events') \subseteq JobsIn(events)
  BY <1>1, <1>2, Discarded
<1>6. TypeOK'
  BY <1>1, <1>2, <1>3, <1>4, <1>5 DEF TypeOK, Pieces, apiVars
<1>7. ObserverShape'
  BY <1>2 DEF ObserverShape
<1>8. \A r \in Requests : Known(r)' => Known(r)
  BY <1>4, <1>5 DEF Known, Jobs
<1>. QED  BY <1>2, <1>6, <1>7, <1>8, RequestsUntouched DEF apiVars

\* A start of the engine, and a job from the prompt, which is no request.
LEMMA PromptSteps ==
    ASSUME DashboardInv, engineStart \/ \E j \in CliJobs : cliSubmit(j)
    PROVE  DashboardInv'
<1>1. TypeOK
  BY DEF DashboardInv
<1>2. CASE engineStart
  <2>1. /\ engine' = "up" /\ starts < MaxStarts /\ starts' = starts + 1
        /\ UNCHANGED <<daemon, jobs, observer, current, cmds, events, apiVars, lost>>
    BY <1>2 DEF engineStart
  <2>2. starts' \in 0..MaxStarts
    BY <1>1, <2>1, DashboardAssumption DEF TypeOK
  <2>3. TypeOK'
    BY <1>1, <2>1, <2>2 DEF TypeOK, apiVars
  <2>4. ObserverShape' /\ \A r \in Requests : Known(r)' => Known(r)
    BY <2>1 DEF DashboardInv, ObserverShape, Known, JobsIn
  <2>. QED  BY <2>1, <2>3, <2>4, RequestsUntouched DEF apiVars
<1>3. ASSUME NEW j \in CliJobs, cliSubmit(j) PROVE DashboardInv'
  <2>1. /\ jobs' = [jobs EXCEPT ![j] = "running"]
        /\ UNCHANGED <<engine, starts, daemon, observer, current, cmds, events, apiVars, lost>>
    BY <1>3 DEF cliSubmit
  <2>2. /\ jobs' \in [Jobs -> {"none", "running", "done", "dead"}]
        /\ jobs'[j] = "running" /\ \A k \in Jobs \ {j} : jobs'[k] = jobs[k]
    BY <1>1, <2>1, Types DEF Jobs
  <2>3. TypeOK'
    BY <1>1, <2>1, <2>2 DEF TypeOK, apiVars
  <2>4. ObserverShape'
    BY <2>1, <2>2 DEF DashboardInv, ObserverShape
  <2>5. \A r \in Requests : Known(r)' => Known(r)
    BY <2>1, <2>2, DashboardAssumption DEF Known, JobsIn, Jobs
  <2>. QED  BY <2>1, <2>3, <2>4, <2>5, RequestsUntouched DEF apiVars
<1>. QED  BY <1>2, <1>3

\* The daemon thread: a line that leaves the pipe becomes a job.
LEMMA DaemonStep == DashboardInv /\ daemonStep => DashboardInv'
<1> SUFFICES ASSUME DashboardInv, daemonStep PROVE DashboardInv'
  OBVIOUS
<1>1. TypeOK /\ ObserverShape
  BY DEF DashboardInv
<1>2. /\ daemon' \in {"closed", "opening", "open", "eof"}
      /\ UNCHANGED <<engine, starts, observer, current, events, apiVars>>
  BY DEF daemonStep, daemonOpen, daemonLine, daemonEof, daemonClose, Daemon
<1>3. /\ cmds' \in Seq(Requests) /\ lost' \in SUBSET Jobs
      /\ jobs' \in [Jobs -> {"none", "running", "done", "dead"}]
      /\ \A j \in Jobs : jobs[j] # "none" => jobs'[j] # "none"
      /\ \A r \in Requests : r \in Range(cmds') \/ jobs'[r] # "none" =>
                             r \in Range(cmds) \/ jobs[r] # "none"
  <2>1. CASE daemonOpen \/ daemonEof
    <3>1. UNCHANGED <<cmds, jobs, lost>>
      BY <2>1 DEF daemonOpen, daemonEof
    <3>. QED  BY <1>1, <3>1, Types
  <2>2. CASE daemonLine
    <3>1. /\ cmds # <<>> /\ cmds' = Tail(cmds) /\ lost' = lost
          /\ jobs' = [jobs EXCEPT ![Head(cmds)] = "running"]
      BY <2>2 DEF daemonLine
    <3>2. /\ cmds' \in Seq(Requests) /\ Head(cmds) \in Range(cmds)
          /\ Range(cmds') \subseteq Range(cmds)
      BY <1>1, <3>1, Types, PipeContents
    <3>3. Head(cmds) \in Jobs /\ Requests \subseteq Jobs
      BY <1>1, <3>2, Types
    <3>4. /\ jobs' \in [Jobs -> {"none", "running", "done", "dead"}]
          /\ \A j \in Jobs : jobs'[j] = IF j = Head(cmds) THEN "running" ELSE jobs[j]
      BY <1>1, <3>1, <3>3, Types
    <3>. QED  BY <1>1, <3>1, <3>2, <3>3, <3>4, Types
  <2>3. CASE daemonClose
    <3>1. cmds' = cmds \/ cmds' = <<>>
      BY <2>3 DEF daemonClose
    <3>2. cmds' \in Seq(Requests) /\ Range(cmds') \subseteq Range(cmds)
      BY <1>1, <3>1, Discarded
    <3>3. jobs' = jobs /\ (lost' = lost \/ lost' = lost \cup Range(cmds))
      BY <2>3 DEF daemonClose
    <3>. QED  BY <1>1, <3>2, <3>3, Types
  <2>. QED  BY <2>1, <2>2, <2>3 DEF daemonStep
<1>4. TypeOK'
  BY <1>1, <1>2, <1>3 DEF TypeOK, apiVars
<1>5. ObserverShape'
  BY <1>1, <1>2, <1>3 DEF ObserverShape
<1>6. \A r \in Requests : Known(r)' => Known(r)
  BY <1>2, <1>3 DEF Known, JobsIn
<1>. QED  BY <1>2, <1>4, <1>5, <1>6, RequestsUntouched DEF apiVars

\* The end of onResult: the job it had is done.
LEMMA DoneFacts ==
    ASSUME TypeOK, ObserverShape, observer # "idle", Done
    PROVE  /\ current' = NoJob /\ current \in Jobs
           /\ jobs' \in [Jobs -> {"none", "running", "done", "dead"}]
           /\ \A j \in Jobs : jobs'[j] # "none" => jobs[j] # "none"
<1>1. /\ current' = NoJob /\ current \in Jobs /\ jobs[current] # "none"
      /\ jobs' = [jobs EXCEPT ![current] = "done"]
  BY DEF ObserverShape, Done
<1>2. \A j \in Jobs : jobs'[j] = IF j = current THEN "done" ELSE jobs[j]
  BY <1>1, Types
<1>3. jobs' \in [Jobs -> {"none", "running", "done", "dead"}]
  BY <1>1, Types
<1>. QED  BY <1>1, <1>2, <1>3

\* A worker enters onResult with a running job, or its engine ends with an exception.
LEMMA OnResultStep ==
    ASSUME DashboardInv, NEW j \in Jobs, onResult(j)
    PROVE  DashboardInv'
<1>1. TypeOK
  BY DEF DashboardInv
<1>2. CASE engineEnds
  BY <1>2, EngineEndsStep
<1>3. CASE /\ Observe("idle", "open") /\ current' = j /\ jobs[j] = "running"
           /\ UNCHANGED <<jobs, events, stream, lost>>
  <2>1. /\ observer' = "open"
        /\ UNCHANGED <<engine, starts, daemon, cmds, handler, request, leaked,
                       pendingRequests, answer, broadcast>>
    BY <1>3 DEF Observe
  <2>2. TypeOK'
    BY <1>1, <1>3, <2>1 DEF TypeOK
  <2>3. ObserverShape'
    BY <1>3 DEF ObserverShape
  <2>4. \A r \in Requests : Known(r)' => Known(r)
    BY <1>3, <2>1 DEF Known, JobsIn
  <2>. QED  BY <2>1, <2>2, <2>3, <2>4, RequestsUntouched
<1>. QED  BY <1>2, <1>3 DEF onResult

\* open of the event pipe, with and without a reader.
LEMMA OpenEventsStep == DashboardInv /\ openEvents => DashboardInv'
<1> SUFFICES ASSUME DashboardInv, openEvents PROVE DashboardInv'
  OBVIOUS
<1>1. TypeOK /\ ObserverShape
  BY DEF DashboardInv
<1>2. CASE /\ Observe("open", "write")
           /\ stream' = IF stream = "opening" THEN "open" ELSE stream
           /\ UNCHANGED <<current, jobs, events, lost>>
  <2>1. /\ observer = "open" /\ observer' = "write"
        /\ UNCHANGED <<engine, starts, daemon, cmds, handler, request, leaked,
                       pendingRequests, answer, broadcast>>
    BY <1>2 DEF Observe
  <2>2. TypeOK'
    BY <1>1, <1>2, <2>1 DEF TypeOK
  <2>3. ObserverShape'
    BY <1>1, <1>2, <2>1 DEF ObserverShape
  <2>4. \A r \in Requests : Known(r)' => Known(r)
    BY <1>2, <2>1 DEF Known, JobsIn
  <2>. QED  BY <2>1, <2>2, <2>3, <2>4, RequestsUntouched
<1>3. CASE /\ Observe("open", "idle") /\ Done /\ lost' = lost \cup {current}
           /\ UNCHANGED <<stream, events>>
  <2>1. /\ observer = "open" /\ observer' = "idle"
        /\ UNCHANGED <<engine, starts, daemon, cmds, handler, request, leaked,
                       pendingRequests, answer, broadcast>>
    BY <1>3 DEF Observe
  <2>2. /\ current' = NoJob /\ current \in Jobs
        /\ jobs' \in [Jobs -> {"none", "running", "done", "dead"}]
        /\ \A j \in Jobs : jobs'[j] # "none" => jobs[j] # "none"
    BY <1>1, <1>3, <2>1, DoneFacts
  <2>3. lost' \in SUBSET Jobs
    BY <1>1, <1>3, <2>2, Types
  <2>4. TypeOK'
    BY <1>1, <1>3, <2>1, <2>2, <2>3 DEF TypeOK
  <2>5. ObserverShape'
    BY <2>1 DEF ObserverShape
  <2>6. \A r \in Requests : Known(r)' => Known(r)
    BY <1>3, <2>1, <2>2 DEF Known, JobsIn, Jobs
  <2>. QED  BY <2>1, <2>4, <2>5, <2>6, RequestsUntouched
<1>. QED  BY <1>2, <1>3 DEF openEvents

\* A write appends a piece about the worker's own job, or fails.
LEMMA WriteEventStep ==
    ASSUME DashboardInv, NEW from \in {"write", "newline"}, NEW to \in {"newline", "close"},
           NEW piece \in Pieces, piece.job \in {current, NoJob}, WriteEvent(from, to, piece)
    PROVE  DashboardInv'
<1>1. TypeOK /\ ObserverShape
  BY DEF DashboardInv
<1>2. CASE ~EventReader
  BY <1>2, EngineEndsStep DEF WriteEvent
<1>3. CASE EventReader
  <2>1. /\ observer = from /\ observer' = to
        /\ UNCHANGED <<engine, starts, daemon, cmds, handler, request, leaked,
                       pendingRequests, answer, broadcast, current, jobs, stream>>
    BY <1>3 DEF WriteEvent, Observe
  <2>2. current \in Jobs /\ jobs[current] # "none"
    BY <1>1, <2>1 DEF ObserverShape
  <2>3. events' = events \/ events' = Append(events, piece)
    BY <1>3 DEF WriteEvent
  <2>4. lost' \in SUBSET Jobs
    <3>1. lost' = lost \/ lost' = lost \cup {current}
      BY <1>3 DEF WriteEvent
    <3>. QED  BY <1>1, <2>2, <3>1, Types
  <2>5. events' \in Seq(Pieces) /\ JobsIn(events') \subseteq JobsIn(events) \cup {current}
    <3>1. events \in Seq(Pieces)
      BY <1>1, Types
    <3>2. Append(events, piece) \in Seq(Pieces)
      BY <3>1, PipeContents
    <3>3. JobsIn(Append(events, piece)) \subseteq JobsIn(events) \cup ({piece.job} \ {NoJob})
      BY <3>1, EventContents
    <3>. QED  BY <2>3, <3>1, <3>2, <3>3
  <2>6. TypeOK'
    BY <1>1, <2>1, <2>4, <2>5 DEF TypeOK, Pieces
  <2>7. ObserverShape'
    BY <2>1, <2>2 DEF ObserverShape
  <2>8. \A r \in Requests : Known(r)' => Known(r)
    BY <2>1, <2>2, <2>5 DEF Known
  <2>. QED  BY <2>1, <2>6, <2>7, <2>8, RequestsUntouched
<1>. QED  BY <1>2, <1>3

\* All of the worker's calls in onResult.
LEMMA ObserverStep == DashboardInv /\ observerStep => DashboardInv'
<1> SUFFICES ASSUME DashboardInv, observerStep PROVE DashboardInv'
  OBVIOUS
<1>1. TypeOK /\ ObserverShape
  BY DEF DashboardInv
<1>2. CASE openEvents
  BY <1>2, OpenEventsStep
<1>3. ASSUME NEW what \in {"whole", "part"}
      PROVE  Piece(current, what) \in Pieces /\ Piece(current, what).job = current
  BY <1>1 DEF TypeOK, Piece, Pieces
<1>4. CASE writeData
  BY <1>3, <1>4, WriteEventStep DEF writeData
<1>5. CASE writeNewline
  <2>1. Newline \in Pieces /\ Newline.job = NoJob
    BY DEF Newline, Piece, Pieces
  <2>. QED  BY <1>5, <2>1, WriteEventStep DEF writeNewline
<1>6. CASE closeEvents
  <2>1. /\ observer = "close" /\ observer' = "idle" /\ Done /\ stream' = stream
        /\ UNCHANGED <<engine, starts, daemon, cmds, handler, request, leaked,
                       pendingRequests, answer, broadcast>>
    BY <1>6 DEF closeEvents, Observe
  <2>2. /\ current' = NoJob
        /\ jobs' \in [Jobs -> {"none", "running", "done", "dead"}]
        /\ \A j \in Jobs : jobs'[j] # "none" => jobs[j] # "none"
    BY <1>1, <2>1, DoneFacts
  <2>3. events' = events \/ events' = <<>>
    BY <1>6 DEF closeEvents
  <2>4. events' \in Seq(Pieces) /\ JobsIn(events') \subseteq JobsIn(events)
    BY <1>1, <2>3, Discarded
  <2>5. lost' \in SUBSET Jobs
    BY <1>1, <1>6, Types DEF closeEvents
  <2>6. TypeOK'
    BY <1>1, <2>1, <2>2, <2>4, <2>5 DEF TypeOK, Pieces
  <2>7. ObserverShape'
    BY <2>1 DEF ObserverShape
  <2>8. \A r \in Requests : Known(r)' => Known(r)
    BY <2>1, <2>2, <2>4 DEF Known, Jobs
  <2>. QED  BY <2>1, <2>6, <2>7, <2>8, RequestsUntouched
<1>. QED  BY <1>2, <1>4, <1>5, <1>6 DEF observerStep

-----------------------------------------------------------------------------
(* Steps of the API server.                                                *)

\* A request comes in: nothing is known of it outside.
LEMMA PostStep ==
    ASSUME DashboardInv, NEW r \in Requests, post(r)
    PROVE  DashboardInv'
<1>1. TypeOK /\ HandlerShape /\ KnownShape /\ BroadcastIsAnswered /\ ObserverShape
  BY DEF DashboardInv
<1>2. /\ answer[r] = "none" /\ r \notin pendingRequests /\ handler = "idle"
      /\ UNCHANGED <<engine, starts, jobs, observer, current, events, stream, broadcast,
                     daemon, cmds, leaked, pendingRequests, lost>>
  BY DEF post, Handle
<1>3. ~Known(r) /\ r \notin broadcast
  BY <1>1, <1>2 DEF KnownShape, BroadcastIsAnswered
<1>4. \A q \in Requests : Known(q)' => Known(q)
  BY <1>2 DEF Known, JobsIn
<1>5. ObserverShape'
  BY <1>1, <1>2 DEF ObserverShape
<1>6. CASE handler' = "open" /\ request' = r /\ answer' = answer
  <2>1. TypeOK'
    BY <1>1, <1>2, <1>6 DEF TypeOK
  <2>2. HandlerShape' /\ BroadcastIsAnswered'
    BY <1>1, <1>2, <1>6 DEF HandlerShape, BroadcastIsAnswered
  <2>3. KnownShape'
    BY <1>1, <1>2, <1>4, <1>6 DEF KnownShape
  <2>. QED  BY <1>5, <2>1, <2>2, <2>3 DEF DashboardInv
<1>7. CASE handler' = "idle" /\ request' = request /\ answer' = [answer EXCEPT ![r] = "error"]
  <2>1. /\ answer' \in [Requests -> {"none", "error", "result"}]
        /\ \A q \in Requests \ {r} : answer'[q] = answer[q]
    BY <1>1, <1>7, Types
  <2>2. TypeOK'
    BY <1>1, <1>2, <1>7, <2>1 DEF TypeOK
  <2>3. HandlerShape' /\ BroadcastIsAnswered'
    BY <1>1, <1>2, <1>3, <1>7, <2>1 DEF HandlerShape, BroadcastIsAnswered
  <2>4. KnownShape'
    BY <1>1, <1>2, <1>3, <1>4, <2>1 DEF KnownShape
  <2>. QED  BY <1>5, <2>2, <2>3, <2>4 DEF DashboardInv
<1>. QED  BY <1>6, <1>7 DEF post, Handle

\* openSync returns: nothing has been written yet.
LEMMA PostOpenedStep == DashboardInv /\ postOpened => DashboardInv'
<1> SUFFICES ASSUME DashboardInv, postOpened PROVE DashboardInv'
  OBVIOUS
<1>1. TypeOK /\ HandlerShape /\ KnownShape /\ BroadcastIsAnswered /\ ObserverShape
  BY DEF DashboardInv
<1>2. /\ handler = "open" /\ handler' = "write"
      /\ daemon' = IF daemon = "opening" THEN "open" ELSE daemon
      /\ UNCHANGED <<engine, starts, jobs, observer, current, events, stream, broadcast,
                     cmds, request, leaked, pendingRequests, answer, lost>>
  BY DEF postOpened, Handle
<1>3. TypeOK'
  BY <1>1, <1>2 DEF TypeOK
<1>4. ObserverShape' /\ HandlerShape' /\ BroadcastIsAnswered'
  BY <1>1, <1>2 DEF ObserverShape, HandlerShape, BroadcastIsAnswered
<1>5. KnownShape'
  BY <1>1, <1>2 DEF KnownShape, Known, JobsIn
<1>. QED  BY <1>3, <1>4, <1>5 DEF DashboardInv

\* writeSync makes the request known, with its handler still there to register it; when
\* it throws, the engine has never heard of the request that is answered with an error.
LEMMA PostWriteStep == DashboardInv /\ postWrite => DashboardInv'
<1> SUFFICES ASSUME DashboardInv, postWrite PROVE DashboardInv'
  OBVIOUS
<1>1. TypeOK /\ HandlerShape /\ KnownShape /\ BroadcastIsAnswered /\ ObserverShape
  BY DEF DashboardInv
<1>2. /\ handler = "write"
      /\ UNCHANGED <<engine, starts, jobs, observer, current, events, stream, broadcast,
                     daemon, pendingRequests, lost>>
  BY DEF postWrite, Handle
<1>3. /\ request \in Requests /\ answer[request] = "none"
      /\ request \notin pendingRequests
  BY <1>1, <1>2 DEF HandlerShape
<1>4. ~Known(request) /\ request \notin broadcast
  BY <1>1, <1>2, <1>3 DEF KnownShape, BroadcastIsAnswered
<1>5. ObserverShape'
  BY <1>1, <1>2 DEF ObserverShape
<1>6. CASE /\ handler' = "close" /\ cmds' = Append(cmds, request)
           /\ UNCHANGED <<request, leaked, answer>>
  <2>1. cmds' \in Seq(Requests) /\ Range(cmds') = Range(cmds) \cup {request}
    BY <1>1, <1>3, <1>6, Types, PipeContents
  <2>2. TypeOK'
    BY <1>1, <1>2, <1>6, <2>1 DEF TypeOK
  <2>3. HandlerShape' /\ BroadcastIsAnswered'
    BY <1>1, <1>2, <1>3, <1>6 DEF HandlerShape, BroadcastIsAnswered
  <2>4. \A q \in Requests : Known(q)' => Known(q) \/ q = request
    BY <1>2, <2>1 DEF Known, JobsIn
  <2>5. KnownShape'
    BY <1>1, <1>2, <1>6, <2>4 DEF KnownShape
  <2>. QED  BY <1>5, <2>2, <2>3, <2>5 DEF DashboardInv
<1>7. CASE /\ handler' = "idle" /\ answer' = [answer EXCEPT ![request] = "error"]
           /\ request' = NoJob /\ leaked' = TRUE /\ cmds' = cmds
  <2>1. /\ answer' \in [Requests -> {"none", "error", "result"}]
        /\ \A q \in Requests \ {request} : answer'[q] = answer[q]
    BY <1>1, <1>3, <1>7, Types
  <2>2. TypeOK'
    BY <1>1, <1>2, <1>7, <2>1 DEF TypeOK
  <2>3. HandlerShape' /\ BroadcastIsAnswered'
    BY <1>1, <1>2, <1>4, <1>7, <2>1 DEF HandlerShape, BroadcastIsAnswered
  <2>4. \A q \in Requests : Known(q)' => Known(q) /\ q # request
    BY <1>2, <1>4, <1>7 DEF Known, JobsIn
  <2>5. KnownShape'
    BY <1>1, <1>2, <2>1, <2>4 DEF KnownShape
  <2>. QED  BY <1>5, <2>2, <2>3, <2>5 DEF DashboardInv
<1>. QED  BY <1>6, <1>7 DEF postWrite, Handle

\* pendingRequests.set: the handler hands its request over.
LEMMA PostCloseStep == DashboardInv /\ postClose => DashboardInv'
<1> SUFFICES ASSUME DashboardInv, postClose PROVE DashboardInv'
  OBVIOUS
<1>1. TypeOK /\ HandlerShape /\ KnownShape /\ BroadcastIsAnswered /\ ObserverShape
  BY DEF DashboardInv
<1>2. /\ handler = "close" /\ handler' = "idle" /\ request' = NoJob
      /\ pendingRequests' = pendingRequests \cup {request}
      /\ UNCHANGED <<engine, starts, jobs, observer, current, events, stream, broadcast,
                     daemon, leaked, answer>>
  BY DEF postClose, Handle
<1>3. request \in Requests
  BY <1>1, <1>2 DEF HandlerShape
<1>4. cmds' = cmds \/ cmds' = <<>>
  BY DEF postClose
<1>5. cmds' \in Seq(Requests) /\ Range(cmds') \subseteq Range(cmds)
  BY <1>1, <1>4, Discarded
<1>6. pendingRequests' \in SUBSET Requests /\ lost' \in SUBSET Jobs
  BY <1>1, <1>2, <1>3, Types DEF postClose
<1>7. TypeOK'
  BY <1>1, <1>2, <1>5, <1>6 DEF TypeOK
<1>8. ObserverShape' /\ HandlerShape' /\ BroadcastIsAnswered'
  BY <1>1, <1>2 DEF ObserverShape, HandlerShape, BroadcastIsAnswered
<1>9. \A q \in Requests : Known(q)' => Known(q)
  BY <1>2, <1>5 DEF Known, JobsIn
<1>10. KnownShape'
  BY <1>1, <1>2, <1>9 DEF KnownShape
<1>. QED  BY <1>7, <1>8, <1>10 DEF DashboardInv

\* 'data': between handlers, whatever result is parsed is known, so it is waited for or
\* has been answered already.
LEMMA StreamDataStep == DashboardInv /\ streamData => DashboardInv'
<1> SUFFICES ASSUME DashboardInv, streamData PROVE DashboardInv'
  OBVIOUS
<1>1. TypeOK /\ HandlerShape /\ KnownShape /\ BroadcastIsAnswered /\ ObserverShape
  BY DEF DashboardInv
<1>. DEFINE emitted == Parsed(events)
<1>2. /\ handler = "idle" /\ stream' = "open"
      /\ UNCHANGED <<engine, starts, daemon, jobs, observer, current, cmds, handler, request,
                     leaked>>
  BY DEF streamData, Stream, engineVars
<1>3. /\ broadcast' = broadcast \cup emitted
      /\ answer' = [r \in Requests |-> IF r \in emitted \cap pendingRequests
                                       THEN "result" ELSE answer[r]]
      /\ pendingRequests' = pendingRequests \ emitted
      /\ events' = <<>>
      /\ lost' = lost \cup (JobsIn(events) \ emitted)
  BY DEF streamData, Deliver
<1>4. events \in Seq(Pieces) /\ emitted \subseteq JobsIn(events) /\ emitted \subseteq Jobs
  BY <1>1, Types, EventContents
<1>5. events' \in Seq(Pieces) /\ JobsIn(events') \subseteq JobsIn(events)
  BY <1>1, <1>3, Discarded
<1>6. ASSUME NEW r \in emitted \cap Requests
      PROVE  r \in pendingRequests \/ answer[r] = "result"
  <2>1. Known(r)
    BY <1>4 DEF Known
  <2>. QED  BY <1>1, <1>2, <2>1 DEF KnownShape
<1>7. /\ answer' \in [Requests -> {"none", "error", "result"}]
      /\ pendingRequests' \in SUBSET Requests
      /\ broadcast' \in SUBSET Jobs /\ lost' \in SUBSET Jobs
  <2>1. answer' \in [Requests -> {"none", "error", "result"}]
    BY <1>1, <1>3, Types
  <2>2. pendingRequests' \in SUBSET Requests /\ broadcast' \in SUBSET Jobs
    BY <1>1, <1>3, <1>4, Types
  <2>3. lost' \in SUBSET Jobs
    BY <1>1, <1>3, Types
  <2>. QED  BY <2>1, <2>2, <2>3
<1>8. TypeOK'
  BY <1>1, <1>2, <1>5, <1>7 DEF TypeOK, Pieces
<1>9. \A r \in Requests : /\ answer[r] = "result" => answer'[r] = "result"
                          /\ r \in emitted => answer'[r] = "result"
  BY <1>3, <1>6
<1>10. ObserverShape' /\ HandlerShape'
  BY <1>1, <1>2 DEF ObserverShape, HandlerShape
<1>11. BroadcastIsAnswered'
  BY <1>1, <1>3, <1>9 DEF BroadcastIsAnswered
<1>12. KnownShape'
  <2>1. \A r \in Requests : Known(r)' => Known(r)
    BY <1>2, <1>5 DEF Known
  <2>2. ASSUME NEW r \in Requests, Known(r)'
        PROVE  r \in pendingRequests' \/ answer'[r] = "result"
    <3>1. r \in pendingRequests \/ answer[r] = "result"
      BY <1>1, <1>2, <2>1, <2>2 DEF KnownShape
    <3>. QED  BY <1>3, <1>9, <3>1
  <2>. QED  BY <2>2 DEF KnownShape
<1>. QED  BY <1>8, <1>10, <1>11, <1>12 DEF DashboardInv

\* The start of the API and the stream's other events leave the requests alone.
LEMMA StreamStep ==
    ASSUME DashboardInv, apiStart \/ streamOpen \/ streamEnd \/ streamClose
    PROVE  DashboardInv'
<1>1. TypeOK /\ ObserverShape
  BY DEF DashboardInv
<1>2. /\ stream' \in {"off", "timer", "opening", "open", "eof"}
      /\ UNCHANGED <<engine, starts, daemon, jobs, observer, current, cmds, handler, request,
                     leaked, pendingRequests, answer, broadcast>>
  BY DEF apiStart, streamOpen, streamEnd, streamClose, Stream, engineVars
<1>3. events' = events \/ events' = <<>>
  BY DEF apiStart, streamOpen, streamEnd, streamClose
<1>4. events' \in Seq(Pieces) /\ JobsIn(events') \subseteq JobsIn(events)
  BY <1>1, <1>3, Discarded
<1>5. lost' \in SUBSET Jobs
  <2>1. lost' = lost \/ lost' = lost \cup JobsIn(events)
    BY DEF apiStart, streamOpen, streamEnd, streamClose
  <2>. QED  BY <1>1, <2>1, Types
<1>6. TypeOK'
  BY <1>1, <1>2, <1>4, <1>5 DEF TypeOK, Pieces
<1>7. ObserverShape'
  BY <1>1, <1>2 DEF ObserverShape
<1>8. \A r \in Requests : Known(r)' => Known(r)
  BY <1>2, <1>4 DEF Known
<1>. QED  BY <1>2, <1>6, <1>7, <1>8, RequestsUntouched

-----------------------------------------------------------------------------
(* The theorems.                                                           *)

\* The invariant holds before either process is started, and every step keeps it.
LEMMA DashboardInvariant == Spec => []DashboardInv
<1>1. Init => DashboardInv
  <2> SUFFICES ASSUME Init PROVE DashboardInv
    OBVIOUS
  <2>1. <<>> \in Seq(Requests) /\ <<>> \in Seq(Pieces)
    OBVIOUS
  <2>2. Range(<<>>) = {} /\ JobsIn(<<>>) = {}
    BY <2>1, PipeContents, EventContents
  <2>3. /\ jobs \in [Jobs -> {"none", "running", "done", "dead"}]
        /\ answer \in [Requests -> {"none", "error", "result"}]
        /\ starts \in 0..MaxStarts
    BY DashboardAssumption DEF Init
  <2>4. TypeOK
    BY <2>1, <2>3 DEF Init, TypeOK, Pieces
  <2>5. ObserverShape /\ HandlerShape /\ BroadcastIsAnswered
    BY DEF Init, ObserverShape, HandlerShape, BroadcastIsAnswered
  <2>6. KnownShape
    BY <2>2 DEF Init, KnownShape, Known, Jobs
  <2>. QED  BY <2>4, <2>5, <2>6 DEF DashboardInv
<1>2. DashboardInv /\ [Next]_vars => DashboardInv'
  <2> SUFFICES ASSUME DashboardInv, [Next]_vars PROVE DashboardInv'
    OBVIOUS
  <2>1. CASE engineStart \/ \E j \in CliJobs : cliSubmit(j)
    BY <2>1, PromptSteps
  <2>2. CASE engineExit
    BY <2>2, EngineEndsStep DEF engineExit
  <2>3. CASE \E j \in Jobs : onResult(j)
    BY <2>3, OnResultStep
  <2>4. CASE daemonStep \/ observerStep
    BY <2>4, DaemonStep, ObserverStep
  <2>5. CASE \E r \in Requests : post(r)
    BY <2>5, PostStep
  <2>6. CASE handlerStep
    BY <2>6, PostOpenedStep, PostWriteStep, PostCloseStep DEF handlerStep
  <2>7. CASE apiStart \/ streamStep
    BY <2>7, StreamStep, StreamDataStep DEF streamStep
  <2>8. CASE UNCHANGED vars
    <3>1. UNCHANGED <<engine, starts, daemon, jobs, observer, current, cmds, events, stream,
                      handler, request, leaked, pendingRequests, answer, broadcast, lost>>
      BY <2>8 DEF vars, engineVars, apiVars
    <3>2. TypeOK'
      BY <3>1 DEF DashboardInv, TypeOK
    <3>3. ObserverShape' /\ \A r \in Requests : Known(r)' => Known(r)
      BY <3>1 DEF DashboardInv, ObserverShape, Known, JobsIn
    <3>. QED  BY <3>1, <3>2, <3>3, RequestsUntouched
  <2>. QED  BY <2>1, <2>2, <2>3, <2>4, <2>5, <2>6, <2>7, <2>8 DEF Next, terminated
<1>. QED  BY <1>1, <1>2, PTL DEF Spec

\* The variables of both processes and both pipes keep their types: only requests are
\* in the command pipe, and a pipe's pieces are of known jobs.
THEOREM DashboardTypeCorrect == Spec => []TypeOK
<1>1. DashboardInv => TypeOK
  BY DEF DashboardInv
<1>. QED  BY <1>1, DashboardInvariant, PTL

\* For any number of requests, starts and deaths of the engine, and however fast a job
\* is: a result the API broadcasts has answered its request.
THEOREM ResultsAnswer == Spec => []BroadcastIsAnswered
<1>1. DashboardInv => BroadcastIsAnswered
  BY DEF DashboardInv
<1>. QED  BY <1>1, DashboardInvariant, PTL

==============================================================================
