------------------------------ MODULE AsyncRun ------------------------------
(***************************************************************************)
(* One asynchronous benchmark run: StartAsyncRun and the background        *)
(* goroutine it starts (internal/orchestrator), one goroutine per          *)
(* assignment with the engine's interval callback, the in-memory progress  *)
(* (internal/runstate), the live gauges (internal/metrics), the stored row *)
(* (internal/store), and the two followers of a run: the SSE stream        *)
(* (internal/api) and the watch command (internal/monitor).                *)
(*                                                                         *)
(* A step is one access to shared state.  RecordInterval loads the entry,  *)
(* changes its copy and stores the copy back: two steps.  A stream's tick  *)
(* looks into the progress and then, separately, into the store.           *)
(***************************************************************************)
EXTENDS Naturals, FiniteSets

CONSTANTS
    Assignments,  \* the schedule of the run (topology.Build)
    Remote,       \* those given to an agent: no interval callback
    Streams,      \* SSE connections
    Watchers,     \* stratabench watch commands
    Hosts,        \* how the run may be started: by the API server, by the
                  \* command line, with or without --watch, or by an MCP tool
    None,         \* no row, progress, sample or verdict
    MaxSeq,       \* bound: time buckets an assignment reports
    MaxFaults,    \* bound: store calls that return an error
    MaxCrashes    \* bound: crashes of the process

Row == [status : {"running", "completed", "failed"},
        parts : SUBSET Assignments, warned : BOOLEAN]

Samples  == (Assignments \ Remote) \X (1..MaxSeq)
Phases   == {"queued", "running", "aggregating", "failed"}
Progress == [phase : Phases, total : Nat, done : Nat, latest : Samples \cup {None}]

ASSUME AsyncAssumption ==
    /\ IsFiniteSet(Assignments) /\ Assignments # {}
    /\ Remote \subseteq Assignments
    /\ Hosts \subseteq {"api", "cli", "watch", "mcp"}
    /\ Streams \cap Watchers = {}
    /\ None \notin {"completed", "failed"} /\ None \notin Row \cup Progress
    /\ MaxSeq \in Nat

VARIABLES
    host,      \* the program that starts the run
    caller,    \* its progress through the call of StartAsyncRun
    alive,     \* its process runs
    storeOpen, \* its store handle is open
    row,       \* the run's row in the store
    progress,  \* the run's entry of runstate's map
    gauges,    \* the live gauges that carry the run's id
    pc,        \* the background goroutine
    failed,    \* Run returned an error to it
    worker,    \* worker[a]: the goroutine of assignment a
    seq,       \* seq[a]: buckets a's callback was called with
    emit,      \* emit[a]: where that call is
    copy,      \* copy[a]: the entry it loaded and will store
    drained,   \* assignments taken from the result channel
    results,   \* the successful ones among them (resultSet)
    stream,    \* stream[s]: the connection
    last,      \* last[s]: lastIntervalSeq of the connection
    watch,     \* watch[w]: the watch process
    verdict,   \* the final status a stream or watcher reported
    faults, crashes

hostVars   == <<host, caller, alive, storeOpen>>
memoryVars == <<progress, gauges>>
runVars    == <<failed, drained, results>>
workerVars == <<worker, seq, emit, copy>>
streamVars == <<stream, last>>
followVars == <<streamVars, watch, verdict>>
vars == <<hostVars, row, memoryVars, pc, runVars, workerVars, followVars,
          faults, crashes>>

Observers == Streams \cup Watchers

Init ==
    /\ host \in Hosts
    /\ caller = "idle" /\ alive = TRUE /\ storeOpen = TRUE
    /\ row = None /\ progress = None /\ gauges = {}
    /\ pc = "none" /\ failed = FALSE
    /\ worker = [a \in Assignments |-> "none"]
    /\ seq = [a \in Assignments |-> 0]
    /\ emit = [a \in Assignments |-> "idle"]
    /\ copy = [a \in Assignments |-> None]
    /\ drained = {} /\ results = {}
    /\ stream = [s \in Streams |-> "none"]
    /\ last = [s \in Streams |-> 0]
    /\ watch = [w \in Watchers |-> "none"]
    /\ verdict = [o \in Observers |-> None]
    /\ faults = 0 /\ crashes = 0

-----------------------------------------------------------------------------
(* The store.  Save replaces the whole row; it fails on a closed handle,   *)
(* and may fail at any time.                                               *)

Fault == faults < MaxFaults /\ faults' = faults + 1

SaveSucceeds(r) == storeOpen /\ row' = r /\ UNCHANGED faults

SaveFails ==
    /\ UNCHANGED row
    /\ \/ ~storeOpen /\ UNCHANGED faults
       \/ storeOpen /\ Fault

RunningRow      == [status |-> "running", parts |-> {}, warned |-> FALSE]
FailedRow       == [status |-> "failed", parts |-> {}, warned |-> FALSE]
CompletedRow(S) == [status |-> "completed", parts |-> S, warned |-> FALSE]

Entry(phase, total, done) ==
    [phase |-> phase, total |-> total, done |-> done, latest |-> None]

-----------------------------------------------------------------------------
(* StartAsyncRun and what its caller does with the Service afterwards.     *)

\* Validation passed and the row is about to be written; a rejected request
\* changes nothing.
StartAsyncRun ==
    /\ caller = "idle" /\ alive
    /\ caller' = "placing"
    /\ UNCHANGED <<host, alive, storeOpen, row, memoryVars, pc, runVars,
                   workerVars, followVars, faults, crashes>>

SavePlaceholder ==
    /\ caller = "placing"
    /\ \/ SaveSucceeds(RunningRow) /\ caller' = "queueing"
       \/ SaveFails /\ caller' = "idle"
    /\ UNCHANGED <<host, alive, storeOpen, memoryVars, pc, runVars, workerVars,
                   followVars, crashes>>

\* The entry is set before the goroutine starts; a total of zero deletes the
\* run's gauges.
SetQueued ==
    /\ caller = "queueing" /\ caller' = "returning"
    /\ progress' = Entry("queued", 0, 0)
    /\ gauges' = {}
    /\ pc' = "planning"
    /\ UNCHANGED <<host, alive, storeOpen, row, runVars, workerVars, followVars,
                   faults, crashes>>

\* The process ends: what it kept in memory is gone, its connections close,
\* and run --async --watch no longer polls.
ProcessEnds ==
    /\ alive' = FALSE
    /\ progress' = None /\ gauges' = {}
    /\ pc' = (IF pc \in {"none", "ended"} THEN pc ELSE "lost")
    /\ worker' = [a \in Assignments |->
                    IF worker[a] = "running" THEN "none" ELSE worker[a]]
    /\ emit' = [a \in Assignments |-> "idle"]
    /\ copy' = [a \in Assignments |-> None]
    /\ stream' = [s \in Streams |->
                    IF stream[s] = "none" THEN "none" ELSE "closed"]
    /\ watch' = [w \in Watchers |->
                   IF host = "watch" /\ watch[w] = "polling" THEN "closed" ELSE watch[w]]
    /\ UNCHANGED <<host, storeOpen, row, runVars, seq, last, verdict, faults>>

\* The API server keeps its Service, and run --async --watch goes on to follow
\* the run; an MCP tool call closes it on return; the command line without
\* --watch prints the run id and exits.
CallerReturns ==
    /\ caller = "returning" /\ caller' = "returned"
    /\ \/ /\ host \in {"api", "watch"}
          /\ UNCHANGED <<host, alive, storeOpen, row, memoryVars, pc, runVars,
                         workerVars, followVars, faults, crashes>>
       \/ /\ host = "mcp"
          /\ storeOpen' = FALSE
          /\ UNCHANGED <<host, alive, row, memoryVars, pc, runVars, workerVars,
                         followVars, faults, crashes>>
       \/ host = "cli" /\ ProcessEnds /\ UNCHANGED crashes

\* run --async --watch exits when its WatchRun returns, and that is as soon as
\* the row is final: here the watchers are this command's own.
WatchExits ==
    /\ host = "watch" /\ alive /\ caller = "returned"
    /\ Watchers # {} /\ \A w \in Watchers : watch[w] = "closed"
    /\ ProcessEnds
    /\ UNCHANGED <<caller, crashes>>

Crash ==
    /\ alive /\ crashes < MaxCrashes /\ crashes' = crashes + 1
    /\ caller' = (IF caller = "idle" THEN "idle" ELSE "returned")
    /\ ProcessEnds

\* The server comes up again.  It looks at no row it finds.
Restart ==
    /\ ~alive /\ host = "api" /\ alive' = TRUE
    /\ UNCHANGED <<host, caller, storeOpen, row, memoryVars, pc, runVars,
                   workerVars, followVars, faults, crashes>>

-----------------------------------------------------------------------------
(* Run, in the background goroutine.                                       *)

\* Topology, work directory or the second validation refuse the run: the
\* clearing of Run is not deferred yet.
RefusePlan ==
    /\ pc = "planning" /\ pc' = "returned" /\ failed' = TRUE
    /\ UNCHANGED <<hostVars, row, memoryVars, drained, results, workerVars,
                   followVars, faults, crashes>>

Launch ==
    /\ pc = "planning" /\ pc' = "running"
    /\ progress' = Entry("running", Cardinality(Assignments), 0)
    /\ gauges' = {"running", "total"}
    /\ worker' = [a \in Assignments |-> "running"]
    /\ UNCHANGED <<hostVars, row, runVars, seq, emit, copy, followVars, faults,
                   crashes>>

\* IncrementDone, then the gauges of the entry if there still is one.
RecordDone ==
    /\ progress' = (IF progress = None THEN None
                    ELSE [progress EXCEPT !.done = @ + 1])
    /\ gauges' = (IF progress = None THEN gauges
                  ELSE gauges \cup {progress.phase, "total"})

\* Mutant: the continue after a failed item is missing.
DrainCountsFailures(a) ==
    /\ pc = "running"
    /\ \A b \in Assignments : worker[b] \in {"ok", "failed"}
    /\ a \notin drained /\ drained' = drained \cup {a}
    /\ results' = results \cup {a}
    /\ RecordDone
    /\ UNCHANGED <<hostVars, row, pc, failed, workerVars, followVars, faults,
                   crashes>>

\* After wg.Wait: take one item from the channel, whatever its order.
DrainItem(a) ==
    /\ pc = "running"
    /\ \A b \in Assignments : worker[b] \in {"ok", "failed"}
    /\ a \notin drained /\ drained' = drained \cup {a}
    /\ results' = (IF worker[a] = "ok" THEN results \cup {a} ELSE results)
    /\ RecordDone
    /\ UNCHANGED <<hostVars, row, pc, failed, workerVars, followVars, faults,
                   crashes>>

AllFailed ==
    /\ pc = "running" /\ drained = Assignments /\ results = {}
    /\ pc' = "clearGauges" /\ failed' = TRUE
    /\ UNCHANGED <<hostVars, row, memoryVars, drained, results, workerVars,
                   followVars, faults, crashes>>

\* The new entry has no latest interval.
Aggregate ==
    /\ pc = "running" /\ drained = Assignments /\ results # {}
    /\ pc' = "saving"
    /\ progress' = Entry("aggregating", Cardinality(Assignments),
                         Cardinality(Assignments))
    /\ gauges' = gauges \cup {"aggregating", "total"}
    /\ UNCHANGED <<hostVars, row, runVars, workerVars, followVars, faults, crashes>>

SaveRun ==
    /\ pc = "saving"
    /\ \/ /\ SaveSucceeds(CompletedRow(results))
          /\ pc' = (IF results = Assignments THEN "clearGauges" ELSE "warning")
          /\ UNCHANGED failed
       \/ SaveFails /\ pc' = "clearGauges" /\ failed' = TRUE
    /\ UNCHANGED <<hostVars, memoryVars, drained, results, workerVars, followVars,
                   crashes>>

\* Mutant: missing assignments are returned as an error.
WarningIsError ==
    /\ pc = "warning" /\ pc' = "clearGauges"
    /\ SaveSucceeds([CompletedRow(results) EXCEPT !.warned = TRUE]) \/ SaveFails
    /\ failed' = TRUE
    /\ UNCHANGED <<hostVars, memoryVars, drained, results, workerVars, followVars,
                   crashes>>

\* The error of this Save is ignored.
SaveWarning ==
    /\ pc = "warning" /\ pc' = "clearGauges"
    /\ \/ SaveSucceeds([CompletedRow(results) EXCEPT !.warned = TRUE])
       \/ SaveFails
    /\ UNCHANGED <<hostVars, memoryVars, runVars, workerVars, followVars, crashes>>

\* The deferred calls, last one first.
ClearGauges ==
    /\ pc = "clearGauges" /\ pc' = "clearProgress"
    /\ gauges' = {}
    /\ UNCHANGED <<hostVars, row, progress, runVars, workerVars, followVars, faults,
                   crashes>>

\* Mutant: the deferred Clear is missing.
KeepProgress ==
    /\ pc = "clearProgress" /\ pc' = "returned"
    /\ UNCHANGED <<hostVars, row, memoryVars, runVars, workerVars, followVars,
                   faults, crashes>>

ClearProgress ==
    /\ pc = "clearProgress" /\ pc' = "returned"
    /\ progress' = None
    /\ UNCHANGED <<hostVars, row, gauges, runVars, workerVars, followVars, faults,
                   crashes>>

\* Mutant: an error of Run is only shown in the progress.
FailureNotSaved ==
    /\ pc = "returned" /\ failed
    /\ pc' = "setFailed"
    /\ UNCHANGED <<hostVars, row, memoryVars, runVars, workerVars, followVars,
                   faults, crashes>>

\* Back in the goroutine of StartAsyncRun; the error of this Save is ignored.
SaveFailed ==
    /\ pc = "returned" /\ failed
    /\ pc' = "setFailed"
    /\ SaveSucceeds(FailedRow) \/ SaveFails
    /\ UNCHANGED <<hostVars, memoryVars, runVars, workerVars, followVars, crashes>>

SetFailed ==
    /\ pc = "setFailed" /\ pc' = "finish"
    /\ progress' = Entry("failed", 0, 0)
    /\ UNCHANGED <<hostVars, row, gauges, runVars, workerVars, followVars, faults,
                   crashes>>

Finish ==
    /\ pc = "finish" \/ (pc = "returned" /\ ~failed)
    /\ pc' = "ended"
    /\ gauges' = {}
    /\ UNCHANGED <<hostVars, row, progress, runVars, workerVars, followVars, faults,
                   crashes>>

Coordinator ==
    \/ RefusePlan \/ Launch \/ AllFailed \/ Aggregate
    \/ SaveRun \/ SaveWarning \/ ClearGauges \/ ClearProgress
    \/ SaveFailed \/ SetFailed \/ Finish
    \/ \E a \in Assignments : DrainItem(a)

-----------------------------------------------------------------------------
(* runAssignment and its interval callback.                                *)

\* The engine reports its next time bucket.
Report(a) ==
    /\ worker[a] = "running" /\ a \notin Remote
    /\ emit[a] = "idle" /\ seq[a] < MaxSeq
    /\ seq' = [seq EXCEPT ![a] = @ + 1]
    /\ emit' = [emit EXCEPT ![a] = "loading"]
    /\ UNCHANGED <<hostVars, row, memoryVars, pc, runVars, worker, copy, followVars,
                   faults, crashes>>

\* RecordInterval, up to active.Store.
LoadProgress(a) ==
    /\ emit[a] = "loading"
    /\ IF progress = None
       THEN emit' = [emit EXCEPT ![a] = "gauging"] /\ UNCHANGED copy
       ELSE /\ emit' = [emit EXCEPT ![a] = "storing"]
            /\ copy' = [copy EXCEPT ![a] =
                          [progress EXCEPT !.latest = <<a, seq[a]>>]]
    /\ UNCHANGED <<hostVars, row, memoryVars, pc, runVars, worker, seq, followVars,
                   faults, crashes>>

StoreProgress(a) ==
    /\ emit[a] = "storing"
    /\ progress' = copy[a]
    /\ copy' = [copy EXCEPT ![a] = None]
    /\ emit' = [emit EXCEPT ![a] = "gauging"]
    /\ UNCHANGED <<hostVars, row, gauges, pc, runVars, worker, seq, followVars,
                   faults, crashes>>

RecordLiveInterval(a) ==
    /\ emit[a] = "gauging"
    /\ gauges' = gauges \cup {"live"}
    /\ emit' = [emit EXCEPT ![a] = "idle"]
    /\ UNCHANGED <<hostVars, row, progress, pc, runVars, worker, seq, copy,
                   followVars, faults, crashes>>

EmitStep(a) == LoadProgress(a) \/ StoreProgress(a) \/ RecordLiveInterval(a)

\* Mutant: the runner returns when the engine process has ended.
EngineEnded(a) == worker[a] = "running"

\* A runner waits for the goroutines that scan the engine's output.
RunnerReturns(a) == emit[a] = "idle"

AssignmentEnds(a) ==
    /\ worker[a] = "running" /\ RunnerReturns(a)
    /\ \E outcome \in {"ok", "failed"} : worker' = [worker EXCEPT ![a] = outcome]
    /\ UNCHANGED <<hostVars, row, memoryVars, pc, runVars, seq, emit, copy,
                   followVars, faults, crashes>>

-----------------------------------------------------------------------------
(* The followers.                                                          *)

\* The client has the run id and connects to the server.
OpenStream(s) ==
    /\ stream[s] = "none" /\ alive
    /\ host = "api" /\ caller = "returned" /\ row # None
    /\ stream' = [stream EXCEPT ![s] = "open"]
    /\ UNCHANGED <<hostVars, row, memoryVars, pc, runVars, workerVars, last,
                   watch, verdict, faults, crashes>>

\* writeStreamEvent while there is progress: an interval event when the
\* latest sample is newer, and a progress event.
StreamProgress(s) ==
    /\ stream[s] = "open" /\ progress # None
    /\ progress.latest # None /\ progress.latest[2] > last[s]
    /\ last' = [last EXCEPT ![s] = progress.latest[2]]
    /\ UNCHANGED <<hostVars, row, memoryVars, pc, runVars, workerVars, stream,
                   watch, verdict, faults, crashes>>

\* ... otherwise it goes on to read the store.
StreamMisses(s) ==
    /\ stream[s] = "open" /\ progress = None
    /\ stream' = [stream EXCEPT ![s] = "reading"]
    /\ UNCHANGED <<hostVars, row, memoryVars, pc, runVars, workerVars, last,
                   watch, verdict, faults, crashes>>

\* Mutant: only a completed row ends the poll.
OnlyCompleted(r) == r # None /\ r.status = "completed"

Final(r) == r # None /\ r.status \in {"completed", "failed"}

StreamReads(s) ==
    /\ stream[s] = "reading"
    /\ \/ /\ Final(row)
          /\ stream' = [stream EXCEPT ![s] = "closed"]
          /\ verdict' = [verdict EXCEPT ![s] = row.status]
          /\ UNCHANGED faults
       \/ /\ ~Final(row) /\ row # None
          /\ stream' = [stream EXCEPT ![s] = "open"]
          /\ UNCHANGED <<verdict, faults>>
       \/ /\ Fault
          /\ stream' = [stream EXCEPT ![s] = "closed"]
          /\ UNCHANGED verdict
    /\ UNCHANGED <<hostVars, row, memoryVars, pc, runVars, workerVars, last,
                   watch, crashes>>

\* The client goes away: the request's context ends.
Disconnect(s) ==
    /\ stream[s] \in {"open", "reading"}
    /\ stream' = [stream EXCEPT ![s] = "closed"]
    /\ UNCHANGED <<hostVars, row, memoryVars, pc, runVars, workerVars, last, watch,
                   verdict, faults, crashes>>

\* WatchRun prints the progress it sees, none in a process of its own; what it
\* returns on is the row.
StartWatch(w) ==
    /\ watch[w] = "none" /\ caller = "returned" /\ row # None
    /\ watch' = [watch EXCEPT ![w] = "polling"]
    /\ UNCHANGED <<hostVars, row, memoryVars, pc, runVars, workerVars, streamVars,
                   verdict, faults, crashes>>

WatchReads(w) ==
    /\ watch[w] = "polling"
    /\ \/ /\ Final(row)
          /\ verdict' = [verdict EXCEPT ![w] = row.status]
          /\ UNCHANGED faults
       \/ Fault /\ UNCHANGED verdict
    /\ watch' = [watch EXCEPT ![w] = "closed"]
    /\ UNCHANGED <<hostVars, row, memoryVars, pc, runVars, workerVars, streamVars,
                   crashes>>

\* The user stops the command: its context is cancelled.
InterruptWatch(w) ==
    /\ watch[w] = "polling"
    /\ watch' = [watch EXCEPT ![w] = "closed"]
    /\ UNCHANGED <<hostVars, row, memoryVars, pc, runVars, workerVars, streamVars,
                   verdict, faults, crashes>>

Caller == StartAsyncRun \/ SavePlaceholder \/ SetQueued \/ CallerReturns

Next ==
    \/ Caller \/ WatchExits \/ Crash \/ Restart
    \/ Coordinator
    \/ \E a \in Assignments : Report(a) \/ EmitStep(a) \/ AssignmentEnds(a)
    \/ \E s \in Streams : OpenStream(s) \/ StreamProgress(s) \/ StreamMisses(s)
                          \/ StreamReads(s) \/ Disconnect(s)
    \/ \E w \in Watchers : StartWatch(w) \/ WatchReads(w) \/ InterruptWatch(w)

SafeSpec == Init /\ [][Next]_vars

\* Every goroutine is scheduled, every engine ends, tickers tick.  Nobody has
\* to submit a run, follow one, or restart a server.
Fairness ==
    /\ WF_vars(SavePlaceholder) /\ WF_vars(SetQueued) /\ WF_vars(CallerReturns)
    /\ WF_vars(WatchExits)
    /\ WF_vars(Coordinator)
    /\ \A a \in Assignments : WF_vars(EmitStep(a)) /\ WF_vars(AssignmentEnds(a))
    /\ \A s \in Streams : /\ WF_vars(StreamProgress(s)) /\ WF_vars(StreamMisses(s))
                          /\ WF_vars(StreamReads(s))
    /\ \A w \in Watchers : WF_vars(WatchReads(w))

FairSpec == SafeSpec /\ Fairness

-----------------------------------------------------------------------------
(* Properties.                                                             *)

\* What the API shows of a run is exact: while it runs, the counter is the
\* number of results taken, although intervals rewrite the whole entry, and
\* "aggregating" means that every assignment ended and was counted.
ProgressExact ==
    progress # None =>
        /\ progress.phase = "running" =>
             /\ progress.total = Cardinality(Assignments)
             /\ progress.done = Cardinality(drained)
        /\ progress.phase = "aggregating" =>
             drained = Assignments /\ progress.done = progress.total

\* An ended run leaves no gauge behind, and no progress entry unless it
\* failed: nobody writes either after the deferred clearing.
NothingLeftBehind ==
    pc = "ended" =>
        /\ gauges = {}
        /\ progress = None \/ (failed /\ progress = Entry("failed", 0, 0))

\* An ended run's row carries exactly the results of the assignments that
\* succeeded, says "failed" when there are none, and is marked when some are
\* missing -- as long as no store call failed.
OutcomeRecorded ==
    LET succeeded == {a \in Assignments : worker[a] = "ok"} IN
    pc = "ended" /\ faults = 0 =>
        row = IF succeeded = {} THEN FailedRow
              ELSE [CompletedRow(succeeded) EXCEPT
                      !.warned = succeeded # Assignments]

\* The record settles once, with results or as failed, and every stream and
\* watcher that returns a verdict returns what the record settled at.
Lifecycle == INSTANCE RunLifecycle WITH record <- row
ImplementsLifecycle == Lifecycle!LifecycleSpec
SettlesRun          == Lifecycle!SettlingSpec

\* A watch command comes to an end.  Does not hold for a run that the command
\* line starts with --async: it dies with the process that printed its id, and
\* docs/MONITORING.md says "Or start async, then watch separately".
WatchReturns ==
    \A w \in Watchers : (watch[w] = "polling" ~> watch[w] = "closed")

\* The stream of a completed run ends.
CompletedStreamEnds ==
    \A s \in Streams :
        (stream[s] = "open" /\ row # None /\ row.status = "completed")
            ~> stream[s] = "closed"

\* docs/MONITORING.md: "done when completed/failed".  Does not hold: the
\* "failed" entry stays in the progress map and hides the row.
StreamEndsAfterFailure ==
    \A s \in Streams :
        (stream[s] = "open" /\ row # None /\ row.status = "failed")
            ~> stream[s] = "closed"
=============================================================================
