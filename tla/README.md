# StrataBench: a TLA+ model of the benchmark orchestrator and its operator

StrataBench runs storage benchmarks (fio, warp, a native engine, mocks) against
block devices, files and object stores.  One Go service plans a run, gives its
assignments to goroutines or to remote agents, starts a benchmark tool for each,
aggregates their results and stores them; a command line, an HTTP API, an MCP
server and a Kubernetes operator are its callers.  The modules here model the
path of a run from the intent of a user to the row in the store and what is done
with that row, check them with TLC on small instances, and prove the main results
with TLAPS for every size.

    tlc -workers 4 -config OperatorSafety.cfg MCOperator.tla
    tlapm OperatorProofs.tla

Paths below are relative to the repository's root.  `PROJECT.json` maps every
definition of the modules to the lines it stands for and lists the runs, the
mutants that show each property can fail, the hazards and the findings.

## 1. Inventory

### Components modelled

| Component | Code | State | Module |
|---|---|---|---|
| Kubernetes operator | `internal/operator` | Benchmark object (annotations, status), ConfigMap, Job | `BenchmarkOperator` |
| Apply in the operator's pod | `internal/manifest` | manifest, status file on a shared volume | `BenchmarkOperator` (pod), `Planning` (front door) |
| Planner, agent loop | `internal/planner`, `internal/agentloop`, `internal/llm` | the plan as it is merged | `Planning` |
| Profiles, validator | `internal/profile`, `internal/validator` | parameters of the profile's copy, verdict | `Planning` |
| Topology | `internal/topology` | none: a function of the request | `Topology` |
| Asynchronous runs | `internal/orchestrator` | schedule, result channel, stored row | `AsyncRun` |
| Run progress | `internal/runstate` | map of in-flight runs | `AsyncRun` |
| Live gauges | `internal/metrics` | label sets that carry a run id | `AsyncRun` (which sets exist) |
| Engine runners | `internal/engine` | child process, pipes, scanners, output buffer, files in the work directory | `EngineRunner` |
| Native engine | `crates/stratabench-engine`, `internal/engine/native.go` | worker threads, atomic counters, progress file | `NativeEngine` |
| Remote agent and client | `internal/remote`, `cmd/stratabench-agent`, `internal/agentauth`, `internal/agenttls` | connections, handlers, the agent's store | `RemoteAgent` |
| Aggregation | `internal/aggregate` | none: a function of the results | `Aggregate` |
| Run store, baselines | `internal/store`, `internal/baseline` | tables of runs and baselines | `AsyncRun` (one row), `ResultService` (tables) |
| Regression check, analysis, comparison, import | `internal/orchestrator`, `internal/analyst`, `internal/compare/diff.go`, `internal/importer` | answers under way | `ResultService` |
| Branch comparison | `internal/compare`, `internal/git`, `internal/provenance` | the repository, the built binary | `CompareBranches` |
| API stream, watch command | `internal/api`, `internal/monitor` | connections, `lastIntervalSeq` | `AsyncRun` (followers) |
| Command line, MCP tools | `cmd/stratabench`, `internal/mcp` | the process and its store handle | `AsyncRun` (`host`), `ResultService` (callers) |

**Kubernetes operator.**  A ticker lists the Benchmark objects and drives each
towards a finished batch Job: `reconcileOne` decides from the *listed* copy
whether to skip, tear down, create or observe, and every branch is a chain of
API calls (Get, Update, Delete, Create) and file accesses, any of which may
fail.  Between two of them a user edits, annotates, deletes or re-creates the
object; the cluster deletes Jobs and pods at its own pace; the pod writes the
status file; another replica, during a rolling update, does the same work from
its own snapshot.  The hard behaviour is what this leaves behind: a Job whose
retry token or spec hash was not recorded, a status file from an earlier pod, a
Job that lingers on a finalizer.  It is correct when retries are never dropped,
runs are started only on request, what is reported has happened, and every
benchmark settles once users and faults stop.

**Asynchronous run.**  `StartAsyncRun` stores a row with status `running`, sets
a progress entry, starts a goroutine that calls `Run`, and returns the run id.
`Run` plans the schedule, starts one goroutine per assignment, drains their
results, aggregates, saves, perhaps saves again with a warning, and clears
progress and gauges in deferred calls; an error makes the goroutine save the row
as `failed` and set a `failed` progress entry.  Engines call back with time
buckets, and `RecordInterval` loads the run's entry, changes a copy and stores it
back without a lock around the three.  An SSE stream polls the progress map and
then the store, a watch command polls the store, and both end on a final row.
What the process does after `StartAsyncRun` returns differs: the API server
lives on, `run --async` exits, `run --async --watch` exits when its watch does,
an MCP tool closes the store handle.  It is correct when the record of a run
settles once and as the assignments ended, followers report what it settled at
and end, the progress shown is exact, and an ended run leaves nothing behind.

**Planning and topology.**  A front door hands options and an intent to the
planner.  It takes the answer of a language model or a keyword match, merges what
`ParseIntent` found and then the options; the guide asks questions and fills in
defaults; the overrides go into a copy of the profile; the validator judges the
copy; `Build` turns clients, targets and a mode into (client, target)
assignments.  Nothing runs concurrently.  What is hard is that one value has
several spellings and several authors: it is correct when options win, when the
engine runs what the validator judged, and when each mode covers the pairs it
promises.

**Engine runner.**  A tool is a child process.  Two goroutines scan its pipes
into one unlocked buffer and call back for each sample, or one goroutine polls a
file the tool writes (of fio two files, merged line by line); `cmd.Wait`, a cancel function and a wait group end them.
It is correct when a result is one that a tool of this run produced, when samples
are of this run and arrive between call and return, and when Run returns.

**Native engine.**  Worker threads add to atomic counters, one per second; a
writer thread copies the counters of the seconds to a file while they still
change; a goroutine in Go follows the file.  A failed attempt may leave its threads
behind.  It is correct when the streamed seconds are in order, in the result, and
never more than was measured.

**Remote agent.**  A client checks the agent's health, posts its assignment and
waits for up to two hours; the agent runs it with an orchestrator of its own and
stops it when it learns that the connection is closed.  Replies, agents and the
coordinator may be lost, and any number of runs may be under way.  It is correct
when what the coordinator records is what an agent has stored, when nothing runs
twice, when a gap in the results is announced, and when nothing is left at work by a
run that has ended.

**Results.**  Checks, reports, comparisons, exports and imports are sequences of
queries on two tables that others change in between, and any query may fail.  It is
correct when an alert has a witness and an answer can be explained by what was in
the tables.

**Branch comparison.**  Check out a branch or another revision, build, measure, do
the same for a second one, go back; every command may fail, other comparisons may use the
same repository, and the process may be interrupted.  It is correct when labels
name what was measured and a clean repository is left as it was.

### Not modelled

| Component | Code | Why |
|---|---|---|
| Lab bootstrap | `internal/lab`, `cmd/stratabench/lab.go` | shell scripts run one after another over SSH: the program keeps no state, the effects are those of the scripts |
| Discovery and inventory | `internal/discovery`, `internal/inventory` | reads host data, no state |
| Reports and export | `internal/report`, `internal/export` | rendering of finished results; *which* rows a history exports and which status a report shows are in `ResultService` |
| Deployment and samples | `deploy/`, `lab/` | configuration; the two replicas of a rolling update are why the operator's theorems are for any number |
| Inside modelled components | | hardware inventory and SMART history of the store, gauge values, the intent's regular expressions, parsers of tool output beyond the kind of a line, wording of messages and reports |

Text matching, rendering and host input/output hold no state that interleaves
with anything, and their correctness is about characters: unit tests reach it, a
model of it would be a copy of the code.

### Hazards

`PROJECT.json` lists them at their lines.  The families are: decisions on a
listed snapshot that is stale when used; read-modify-write on the Benchmark
object, on the progress entry and on the status file; one call of a chain
failing; the operator, the API server, an agent or the command line ending in the
middle; two replicas; followers that look into two places in turn; a store handle
closed under a running goroutine; two scanners on one buffer and a pipe nobody
reads; files that an earlier run left in a shared work directory; counters that
are read while they grow; a client that gives up on an agent that does not;
queries between which the tables change; a checkout that fails; values with
several spellings; boundaries of sharding, of inferred modes, of interval series
and of percentages.

## 2. Modules

### BenchmarkOperator

One Benchmark object, one name, any set of `Operators`.  An action is one API
call or one file access of `reconcileOne`; `pc[o]` names the next one, `snap[o]`
is the listed copy every decision of that pass uses, `seen[o]` the Job status
its Get returned, `patch[o]` the arguments of `patchStatus` with where it
continues.

| Actions | Code |
|---|---|
| `List`, `GetJob` | `reconcileAll`, head of `reconcileOne`, `decideReconcile` |
| `RemoveStatusFile`, `DeleteJob` | `teardownRun` and the switch to Pending after it |
| `UpsertConfigMap`, `CreateJob` | `ensureJob` up to `Create`, with the AlreadyExists branch |
| `GetObject` + `MarkRetryApplied` | `markRetryApplied` |
| `GetObject` + `PatchAnnotation`, `GetObject` + `PatchStatus` | the two halves of `patchStatus` |
| `Observe` | `observeJob` with `ReadApplyResult` |
| `Conflict`, `Abort` | an Update refused for a stale version; any call failing before or after its effect, or the operator killed |
| `PodStart`, `PodTruncate`, `PodWrite`, `PodFail` | `stratabench apply`: the manifest is read when the pod starts, `os.WriteFile` truncates and then writes; a pod may be lost after that, before it exits |
| `JobGone` | the cluster's garbage collector |
| `CreateBenchmark`, `EditSpec`, `AnnotateRetry`, `DeleteBenchmark` | the user |

Resource versions are `fresh[o]`: nothing was written since o's last Get.  A
write that changes nothing keeps the version, which the model allows but does
not require, because a changed status message is not part of the state.  The spec
is two values: the fields `specHash` covers (`work`) and those it leaves out
(`extra`).  A spec that `fromUnstructured` rejects is `Invalid`.  `request` and
`ran` are history: what each Job was created for and what its pod ran, as long as the
pod did not fail before it had written its result.  The write of the status file and
the exit of the command after it are one step, which may end in a lost pod: no operator
looks at the file between the two, except through a Job that has replaced this one, and
then the order makes no difference.

Not in it: names (so two long names cut to the same 63 characters are not seen),
the text of messages, and the loop over several objects, which share nothing but
the pass.

### RunLifecycle and AsyncRun

`RunLifecycle` is what a run promises those who follow it: a record is submitted
as `running`, settles at most once, with the results of some assignments or as
failed, may get a warning after that, and whoever returns a verdict returns what
the record settled at.  `SettlingSpec` adds that a submitted run does settle.

`AsyncRun` is the code: `caller` is the call of `StartAsyncRun`, `pc` the
background goroutine, `worker[a]` an assignment's goroutine, `emit[a]` where its
interval callback is (load, store, gauges), `stream[s]` and `watch[w]` the
followers.  The refinement maps `record` to the stored row and keeps the verdicts.

| Actions | Code |
|---|---|
| `StartAsyncRun`, `SavePlaceholder`, `SetQueued`, `CallerReturns` | `StartAsyncRun` and what each host does next |
| `WatchExits`, `Crash`, `Restart` | the process ends and, for the server, comes back |
| `RefusePlan`, `Launch`, `DrainItem`, `AllFailed`, `Aggregate`, `SaveRun`, `SaveWarning`, `ClearGauges`, `ClearProgress` | `Run`, its deferred calls in their order |
| `SaveFailed`, `SetFailed`, `Finish` | the goroutine after `Run` |
| `Report`, `LoadProgress`, `StoreProgress`, `RecordLiveInterval`, `AssignmentEnds` | `runAssignment` and the engine's callback |
| `OpenStream`, `StreamProgress`, `StreamMisses`, `StreamReads`, `Disconnect` | `handleRunStream`, `writeStreamEvent` |
| `StartWatch`, `WatchReads`, `InterruptWatch` | `WatchRun` |

Results are reduced to the set of assignments they come from, gauges to which of
the run's label sets exist, samples to their assignment and sequence number.  A
`Save` replaces the row or leaves it; a `Save` that commits and whose reply is
lost (possible with Postgres) is left for later.  A crash takes memory with it
and leaves the row.

### Topology, Planning and Aggregate

Three modules, each extending the one before, follow a request from the intent to
the results part of the record.

`Topology` has `Build` and its helpers as operators over sequences of names, with
a blank name for what trimming leaves empty, and one action, `Plan`.  Its
properties compare the schedule with the *sets* of names the request mentions.

`Planning` puts the front doors before it.  An ask is a record: options, what the
regular expressions found in the intent, and what a language model answered (or
nothing).  Stages: `MakePlan` (`planner.Plan`, `MergePlan`, `PlanFromPrompt`),
`Guide` (questions and default parameters; without `--yes` a question ends the
loop), `Validate` (`ApplyOverrides`, `syncParamAliases`, the validator), `Start`
(the lists and mode that reach `Service.Run`).  Parameters are functions from
their *spellings* to values, so that a duration given as `duration`,
`duration_sec` and `runtime` at the same time is three values.  Choices that
depend on a map's order in Go are nondeterministic.  Of the parameters an intent may
set, those that no property is about (`ramp_time`, `iodepth`, ...) are left out.

`Aggregate` lets the assignments of a schedule end in any order, each with results
or an error, and combines them (`Results`, `Intervals`, the rows per client and
per target).  `iops` stands for all summed fields, `max` for all maxima, `min` and
`avg` for those where 0 means unknown; averages are rounded down, where the code
divides floats.  What the code appends to slices are here functions of the position
in the channel, and its loops are folds whose result does not depend on the order;
the one loop that does, for the number of a bucket, takes the first position.

### RunnerContract and EngineRunner

`RunnerContract` is what `AsyncRun` relies on: callbacks only between the call of
Run and its return.  `EngineRunner` is the code: `StartTool` with every way the
preparation of an engine may end, the child (`PrintLine`, `OpenLog`, `WriteSample`,
`EndLine`, `WriteBenchData`, `Finish`, `Crash`, `Kill`), a scanner per pipe
(`BeginAppend`, `EndAppend`, `OnInterval`, `ScanEnds`), the poller (`PollTick`,
`PollEnds`), and Run from the child's exit on (`WaitChild`, `Conclude`).

Appending to the shared buffer takes two steps; when both scanners are in between,
either line may be lost, or mixed with the other into a line that may or may not be
taken for a result.  `cmd.Wait` closes the pipes under the scanners, which keep some
of what was in them.  A line of output is its kind: what the stream scanner, the
result parser, both or neither recognise, or longer than the scanner's buffer.

fio logs operations and bandwidth in two files, which it opens and extends in any
order; a line comes in one piece or in two, of which the first may show half a number.
`Series` merges the files by position, for the stream and for the record.  A
position that was streamed counts as sent, whatever it lacked.  One look at both
files stands for the two reads of a flush: a line that is written between the reads
could as well have come after both.  The file of the native engine is one, and half a
line of it does not parse, so that it counts as not there.  A result file may be
missing or not parse even if the tool has exited with status 0.

Several runs use one directory one after the other, so that what one leaves is what
the next finds.  (Requests for one target at the same time do share it as well, see
section 5.)  Left out: fio's log names other than the usual ones (the glob
fallback of `fio_logs.go:21-35`, for which the job files here give no reason) and a
work directory on a full disk.

### NativeEngine

The main thread (`Open`, `Spawn`, `Finish`, `Synthesize`), the workers of each
attempt (submit, complete, count), its writer (`FlushBegins`, `LoadBucket`,
`WriteText`, `WriteNewline`) and the follower (`Drain`).  Each atomic access is a
step.  A bucket's count is read, then written as a line in two parts, so that the
follower may meet half a line and two writers may spoil each other's.

### RemoteAgent

A request is an assignment of one run of the coordinator (`Plans` says which runs may
be started, and with which assignments); runs start whenever they like and go on at
the same time.  `run[n]` is where Run is: it waits for its goroutines, saves the
completed row (`SaveRun`), and, if an assignment failed, adds the warning and saves
again (`SaveWarning`), each time perhaps without success.  `client[q]` is a goroutine,
`conn[q]` its connection, `agent[q]` the handler; `rows` is the store of the agents and
survives `Restart`.  `Crash` ends a process of the coordinator with the runs in it.
`GiveUp` is the timeout: it may come at any time after the request was sent.
`Authorized` and `Reachable` compare the tokens and TLS files of both sides.
`unsaved` is history: the runs whose warning never reached the store.

### ResultService

The tables `runs` and `baselines`, files and reports on disk, and up to one
operation per caller.  Each query is an action, `Fault` lets it fail, and the
operation goes on as the code does.  `Settle` is the end of an asynchronous run.
Rows carry the second in which their run began, which may be that of another row or
before it (`StartedAt`), and rows of one second come in any order.  Of the results the
IOPS, p50 and p99 are kept; the analysis's warning about clients that differ by more
than 30 % (`analyst.go:53-58`) would need those of each client and is left out.
Four variables are history: `sawBase` and `sawRuns`, what the tables held during a check; `early`, the
baselines that were set from the placeholder of a run in progress; `drafts`, the
runs whose placeholder was exported.  The last two name the states in which a
baseline may lead to a row of another target.

### CompareBranches

`head`, `local`, `origin`, the tree and the artifact are the repository; `cmd[c]`
is a process.  The flags name any revision that `git checkout` takes: a branch, a
remote ref or a commit (both detach the HEAD), or "HEAD".  `CheckoutOK` and
`CheckoutFails` are `git.Checkout` with its `checkout -B` fallback, which is no help
unless the revision is a branch.  `Fault` is a git command that fails for a moment:
a checkout, the capture of the state to go back to, the provenance of a run.  One
tracked file stands for all that a build or a user may change.  `started`, `overlap`,
`spoiled` and `blind` (git did not answer when asked for provenance) are history.

### Proof modules and instances

`OperatorProofs`, `AsyncRunProofs`, `AgentProofs`, `EngineProofs`, `NativeProofs`,
`BranchProofs`, `ServiceProofs` and `PlanningProofs` hold definitions of inductive
invariants and theorems.  The `MC`
modules name the model values and the inputs; the cfg files set the bounds.

## 3. Runs

| Run | Result | What it shows |
|---|---|---|
| `op_safety` | holds | One replica; spec edits, retry annotations, deletion and re-creation, pods that outlive their Job, one fault.  `AppliedRetryHasJob`: a token is marked applied only after a Job was created for it.  `ReportedRunFinished`: a run id shown is that of a run that a pod has done and written down, Completed needs a pod that succeeded.  `JobsAccountedFor`: every Job is owed to a user's write or to a pass that failed before recording its Job, so the loop alone never repeats a benchmark.  `CompletedLeftOnlyOnRequest`: a benchmark leaves Completed only when the listed copy asked for it. |
| `op_live` | holds | `Converges`: every benchmark settles in a final phase with its own hash and retry.  `RetryServed`: a requested retry is applied. |
| `op_stamp` | violated | A conflicting edit leaves the new Job without a hash; `observeJob` then stamps the edited spec's hash on the run of the old one, so the edit never runs. |
| `async_safety` | holds | For each host, with a store fault and a crash: `ProgressExact`, although intervals rewrite the whole entry; `NothingLeftBehind`; `ImplementsLifecycle`. |
| `async_live` | holds | On the API server without faults: `OutcomeRecorded`, `SettlesRun`, `WatchReturns`, `CompletedStreamEnds`. |
| `async_mcp` | violated | The MCP tool closes the store under the run it started; the outcome is never saved. |
| `topology_plans` | holds | `CoverageByMode`: every direct request in every mode yields each pair once and covers what its mode promises, and auto never refuses.  `FlagsWin`: a run works on what the options name, whatever intent and model say.  `DurationKept`: the engine runs as long as the validator judged, and as long as the intent asked.  `InferredTopologyRuns`: a topology inferred from the intent's own lists is accepted.  `ResultsAddUp`: whatever fails and in whatever order assignments end, totals, rows and interval series account for every result once, no unknown minimum hides a known one, and what holds of every series that is merged (numbered in order, averages between minimum and maximum) holds of the merged one. |
| `engine_run` | holds | Two runs in one directory, one after the other, for each way of starting and reading a tool.  `HonestOutcome`: success means a number from a tool that exited with status 0.  `OwnSamples`: no sample of an earlier run (fio excepted).  `CaughtUp`: once Run returns, the poller has delivered every line of the native engine's file once; of fio, as many samples as the record has, each number the recorded one, missing, or half of one.  `ImplementsContract`.  `RunReturns`: Run returns when its tool ends (unless a scanner gave up on a long line) and whenever it is cancelled. |
| `native` | holds | `StreamInOrder`, `StreamedIsRecorded`: what was streamed is each second once, in order, and at most what the result says.  `ResultAddsUp`: no operation is counted twice.  `RunEnds`: also when operations fail for ever. |
| `agent` | holds | Two agents, two runs at the same time, five setups of tokens and TLS, any two of: a lost connection, a restarted agent, a failed save, the end of the coordinator.  `RecordedByAgent`: a recorded result is stored at its agent.  `AtMostOnce`.  `SilentMeansComplete`: a run that returns without a warning lacks nothing; an incomplete row without one is a row whose second save has not come or came to nothing.  `StragglersAreCutOff`: nothing is at work for a run that has ended, unless its connection was closed or lost.  `RunsEnd`: the coordinator's run returns and a benchmark nobody waits for is stopped. |
| `service` | holds | Two callers, three calls, one failing query.  `AlertsJustified`: every alert has a stored witness.  `AnswerExplained`: without failures an answer is that of some reference that was there.  `TablesAgree`.  `AlertMeansRegressed`: the two notions of regression agree.  `HistoryIsLatest`: an exported history skips no run. |
| `branches` | holds | Two processes, one fault, repositories with missing and stale branches and a detached HEAD; branches, remote refs, a commit and HEAD as flags.  `LabelsTrue`: a run measured the commit of its label, which is what its revision stood for when the command began (a head "HEAD" is excepted, section 5).  `RestoresCleanRepository`, `BranchesStay`. |

### Bounds, and why they are enough

- *Operator.*  Five Jobs, two or three user writes, at most one fault.  An
  anomaly needs a Job, one that supersedes it and one to
  recover with, an edit, a token or a deletion to make that happen, and one lost
  call.  `JobsAccountedFor` bounds the Jobs by the user's writes and the failed
  recordings (a fault each, or a conflict, which takes a write), so five is not
  reached by a loop that only repeats itself; `op_live` would show a benchmark
  stuck at the bound.  Two specs and one or two tokens are what equality can tell
  apart.  Two replicas are not run any more: `RetryNeverDropped` and
  `ReportsAreTrue` are proved for any number of them.  The safety run uses
  symmetry, the liveness run does not.
- *AsyncRun.*  Two local assignments are the least at which callbacks race; the
  liveness run has three, one of them remote, so that results can be all, some
  or none.  Two buckets each let one be reported while another is stored.  One
  stream and one watcher suffice, as followers share nothing.
- *Topology, Planning, Aggregate.*  Three names per list cover fewer, equal and
  more clients than targets, with blank and repeated entries; a direct request has
  every mode, none, or a word that is no mode.  Lists and parameters
  of an ask vary separately (`ListAsks`, `ParamAsks`), because the code never
  combines them.  Every spelling of the duration takes a value below and above
  the profile's minimum, null and text.  Runs of up to four assignments reach one
  and several rows per client and per target; the four results have no samples,
  two seconds, one second and a late start.
- *EngineRunner.*  Ten requests are the ways of preparing, reading and parsing
  that differ.  Two lines per child, or per file, reach both pipes, a full pipe of two,
  a torn buffer, and a log that is ahead of the other; a second run meets what the
  first left (`After`: each request is followed by the same one, the native engine's
  also by fio, as engines that leave different files do not meet).
- *NativeEngine.*  Two threads share counters, two seconds make an order, an
  operation may be in flight at each boundary; io_uring, pread and no block I/O.
- *RemoteAgent.*  Two clients share a target, two runs can overlap on one agent;
  with two faults an assignment may fail and then a save, or the process end, which
  is the least for an incomplete row without a warning.  The theorems need no bound.
- *ResultService.*  Four ids, of which three are stored, are a baseline, a run
  under check, one of another profile and a new one; three calls are two
  operations that interfere and one before them; the limits of the lists are below
  the number of rows.  Results lie just inside and outside the thresholds.
- *CompareBranches.*  Two commits with different files, one fault, two
  processes with two commands between them; each kind of revision is a flag of some
  command, and each command meets each of five repositories.  The theorems need no
  bound.

All runs switch TLC's deadlock check off because the system may stop: nobody has
to create a Benchmark or submit a run, and an ended run takes no more steps.

### Fairness

- *Operator.*  Each replica's next step is weakly fair (the ticker of `Run` fires
  for ever, and a call in progress returns), pods end (they are bounded by the
  engine's run time; a pod that cannot start is collected), and the cluster removes
  deleted Jobs.  Users, faults and restarts get none; they are bounded.
- *AsyncRun.*  Goroutines are scheduled, every engine ends, tickers tick.  Nobody
  has to submit a run, open a stream, start a watch or restart a server; crashes
  and store faults get none, and `async_live` has neither, because with either
  the row may stay `running` for ever (the errors of the last `Save`s are dropped
  and no start-up code looks for such rows).
- *EngineRunner.*  Goroutines are scheduled, a child that is not blocked on a full
  pipe ends, and a killed child dies.  Nobody has to cancel.
- *NativeEngine.*  Threads are scheduled, time passes, an operation in flight ends
  or fails.  An io_uring that refuses to submit is outside this assumption.
- *RemoteAgent.*  Goroutines are scheduled and the two-hour timeout expires.  A
  benchmark need not end and an agent need not answer.

## 4. Proofs

`OperatorProofs`, from `OperatorAssumption` alone (distinct sentinels, a natural
Job bound):

- `TypeCorrect`: `SafeSpec => []TypeOK`, by one lemma per action or group of
  actions.  `TypeOK` alone is not inductive: calls copy fields of the snapshot
  into the ConfigMap, the annotations and `patch`, and a fresh copy is written
  back.  `LocalsSet` adds that a snapshot is an object wherever it is used, that
  its spec parsed wherever its hash is taken, and that a current copy is a copy of
  an object that exists.
- `RetryNeverDropped`: `SafeSpec => []AppliedRetryHasJob`.  The strengthening
  `RetryInv` says that between `CreateJob` and `markRetryApplied` a replica holds
  the token of a Job that was created; tokens of created Jobs never change.
- `ReportsAreTrue`: `SafeSpec => []ReportedRunFinished`.  `ReportInv` follows the
  claim on its way from the pod to the status file or the Job's status, to an
  operator's locals, to the object: a complete status file names a run that is
  `Done`, a pending `patchStatus` with a run id names one too, and one with
  Completed implies that some pod succeeded.  `Moves` and `Writes` say how a step
  changes a pod and the file; a run that was done stays so and ids are not reused.

The second part of `OperatorProofs` is under the hypothesis that one replica runs (`Operators = {o}`):
two replicas that list the same object may each create a Job, and one may reset
what the other has just completed, so neither theorem holds without it.  A restart
of the replica is a step of the specification.

- `JobsAreOwed`: `JobsAccountedFor`.  The invariant is an account (`Paid`): Jobs
  created, plus the Jobs the replica holds credit for, are at most the users' writes
  plus the failed recordings.  `Held` says when it holds one: as long as the object
  asks for a run, and from the decision until the Job is there.  `Edited` is a second
  one, while the user has changed the object under a pass in progress.  What keeps
  the replica from holding credit nobody paid is `Recorded`: between `CreateJob` and
  the annotations it carries the hash and the token of that Job, and once they are
  written the object no longer asks.
- `CompletedStays`: `CompletedLeftOnlyOnRequest`, from `Answered`, which says that a
  replica past `getJob` with a copy in Completed works on a request of that copy.

`AsyncRunProofs`, from `AsyncAssumption`:

- `RowFollowsRun`: the inductive invariant, `Shape /\ RowAtPc /\ VerdictOnce`.  The
  goroutine's position determines the row (`running` until a `Save` succeeded,
  and again before the `failed` save only if none did), and no follower has a
  verdict before it returned.
- `Refinement`: `SafeSpec => ImplementsLifecycle`, for any number of assignments,
  streams, watchers, faults and crashes and for every host.  Each group of steps
  is shown to keep the invariant and to be a lifecycle step or a stutter; the
  invariant is what excludes a `failed` save over a completed row.
- `ProgressIsExact`, `EndedRunsLeaveNothing`, by `MemoryFollowsRun`: what is in memory
  as a function of the goroutine's position.  `WorkersWithin` says that an engine runs
  only before the first result is taken, and that an entry about to be stored back by
  a callback differs from the present one in the latest sample only: this is why
  rewriting the whole entry without a lock loses no count.  `ResultsExact` and
  `ProgressAtPc` then give the count at each step.
- `OutcomesAreRecorded`: `OutcomeRecorded` on every host but the MCP server
  (`"mcp" \notin Hosts`), whose tool closes the store under its run: the run
  `async_mcp` violates it.  `RecordedAtPc` says what the row holds at each position
  while no call of the store has failed.

`AgentProofs`, from `AgentAssumption` (each run has finitely many assignments, and one
at least):

- `ResultsAreStored`, `NeverTwice`, `SilenceIsComplete`, `StragglersCutOff`:
  the four safety properties of the run `agent`, for any number of assignments,
  concurrent runs, faults and crashes.  The strengthening: `AnswersAreStored` (an
  answer that is on its way or was received has a row), `StartsCounted` (a handler
  leaves "off" once and an unauthorised one never starts), `RunsWait` (a goroutine in
  flight has a run that waits for it, an open connection has a client that waits),
  `RowAtStep` (what the row holds, and whether it has the warning, at each step of
  its run).

`EngineProofs`, from `EngineAssumption`, for any requests, pipe sizes, lines and
runs in one directory:

- `ResultsAreHonest`, `SamplesAreOwn`, `KeepsContract`.  `LiveInAttempt` says that
  child, scanners and poller live only while Run is in an attempt: that is why
  nobody calls back after the return and nobody changes the text between parsing
  and return.  `ToolsOfJob` and `LogIsOwn` follow the mock and the sample file.
- `SamplesAreCaughtUp`: `CaughtUp`.  `FilesAre` says what is in a file: until the tool
  opens it, older lines only, then its own, numbered by position.  `Streamed` relates files, poller and count: if nothing old was delivered, what
  was delivered is as long as what the poller has seen, and each line shown is the
  one that is in the file now, or was missing or half (`Shown`); this is kept because
  an own line only ever becomes whole.  A poller that ended without a cancellation
  ended after the tool, and a tool that succeeded has finished its lines.

`NativeProofs`, from `NativeAssumption` (at least one thread and one second), for any
number of threads, seconds and operations, any configurations, and attempts that fail
half-way:

- `SamplesInOrder`: `StreamInOrder`, and `SamplesAreRecorded`: `StreamedIsRecorded`.
  Neither is inductive: what the follower delivers depends on the whole file.
  `OneWriter` says that as long as no failed attempt has left threads behind
  (`OrphansStay`: once there are some, they stay), at most one writer has written;
  the file is one line per second from the first (`InLine`), the writer stands at its
  end (`AtEnd`), and each line shows a count that its counter still has or has passed.
  The follower's pass over the file is a recursive function; `UnseenIsRest` shows that
  it returns the rest of such a file, `UnseenRises` that from any file, spoiled lines
  included, it returns later and later seconds.
- `ResultsAreCounted`: `ResultAddsUp`.  `OpsAddUp`: the totals are at least the sum
  of the seconds plus the workers between the totals and their second (`Between`), so
  that nothing is counted twice at whatever point the writer or the result looks.
  `OneMore` is the lemma on the sum: one operation in one second adds one, one after
  the end of the run nothing.

`BranchProofs`, from `BranchesAssumption`, for any branches, commits, flags,
processes and faults:

- `LabelsAreTrue`, `CleanRepositoryRestored`, `BranchesNeverMove`.  `Sole`: a command
  that nobody disturbed since it began is the only one.  `LabelsInv` follows what
  was built and noted (and, by `AtBase`, that a head "HEAD" is what the base left),
  `TidyInv` where head and branches are at each step of such a command.  The key
  lemma, `CleanCheckout`: without uncommitted changes and faults a checkout goes to
  the commit the revision stood for at the start, or does nothing.

`ServiceProofs`, from `ServiceAssumption` (results are numbers, what is stored at the
start is a finite table), for any number of callers, calls, faults, runs, limits and
any results and settings:

- `TablesStayTrue`, `AlertsHaveWitnesses`, `AnswersAreExplained`, `AlertsAreRegressions`,
  by `RecordsAgree`.  A run's record is copied: into callers, files, and the tables a
  check has seen.  `CopiesAgree` says that all copies of a run agree (`Kin`) and none is
  ahead of the row (`Current`), whatever imports and settling do.  A step is reduced
  to what it does to the copies (`Effect`) and to what each call does (`Move`);
  `OnTheWay` follows a check's reference from the table to its answer, and
  `Justified`, `Explained` and `Referred` are its answer.  That a rolling reference exists
  and lies among its samples is shown by well-foundedness (`MinExists`, `MaxExists`).
  The attempt showed the first form of `Untargeted` to be too strong: six calls (export
  and re-import of a placeholder, a baseline set in between) leave a baseline that
  leads to a row of another key.  `early` and `drafts` now say which ones may.
- `ExportsLatest`: `HistoryIsLatest`, an action property, for histories of any length.

`PlanningProofs`, for lists of any length, any names, intents and answers of a model.
It needs `TopologyAssumption` (a blank name is no name, lists have a greatest length,
the values for "refused" and "not built" are not schedules), `PlanningAssumption`
(asks, intents and answers have the fields and names the front doors give them; the
patterns of `ParseIntent` find no blank address and write one of the five modes or
none) and, for durations, `LibraryAssumption`, which is true of every file in
`profiles/`: a profile gives its duration by the name that its engine's runner reads,
vdbench and sbk profiles always give one, and a minimum is a number.

- `RequestsAreCovered`: `CoverageByMode`.  `NormalizeList` is a recursive function over
  positions; that there is such a function (`RecursionExists`) and what it returns
  (`Normalized`) is shown by `CountUp`, an induction in terms of sets.  Then one lemma
  per mode (`SingleCovers`, `PoolCovers`, `SweepCovers`, `MatrixCovers`) and, for shard,
  `ColumnsEven` and `ShardShares`: round robin gives no target two clients more than
  another.  `IInv` carries the request from the front door through the stages.
- `OptionsDecide`: `FlagsWin`, and `InferredModesRun`: `InferredTopologyRuns`, from the
  conjuncts of `IInv` that say where the lists, the target and the mode of a plan come
  from (`Keeps`, `HasTarget`, `RequestOf`).  `OneHostEach`: a list with one host per
  entry loses none when it is normalized.
- `DurationsReachEngines`: `DurationKept`, by `TimeOK`: the duration of an intent stays
  in the plan until the overrides are applied, and these leave both spellings equal
  (`SyncAligns`, `OverridesAlign`) or leave the profile's own parameters
  (`DurationsAgree`).  The attempt showed that the property rests on the shape of the
  profiles: one for fio that gives only `duration_sec` would run for another time than
  the validator judges.  `LibraryAssumption` is this condition.
- `ResultsAreComplete`: `ResultsAddUp`, for schedules, results and interval series of
  any length.  Its invariant `RecordOK` is small: what has ended are jobs of a built
  plan, and the record, once there is one, is `Outcome` of what ended.  The work is in
  the folds.  `FoldExists` and `FoldUnique` show by `SetUp`, an induction over finite
  sets in terms of sets, that folding a function whose step is indifferent to order has
  one result, which adds one position at a time; `Total`, `Largest` and
  `LeastKnown` are such (`TotalFolds`, `LargestFolds`, `LeastFolds`).  From there:
  sums may be exchanged (`TotalExchange`: the intervals of the sum are the sum of the
  intervals), grouped by target (`TotalByKey`, `LeastByKey`), and an average lies
  between bounds of its terms (`MeanBetween`).  `AggregateAssumption` says which
  fields a result has and that an error is none; a runner numbers its intervals as it
  likes.
- `RunsFollowPlans`: the specification that the run `topology_plans` checks implies the
  one these theorems are about.

Every invariant and every action property that a passing run checks is stated by a
theorem.  Only the liveness properties (`Converges`, `RetryServed`, `SettlesRun`,
`WatchReturns`, `CompletedStreamEnds`, `RunReturns`, `RunEnds`, `RunsEnd`) are only
model-checked: fairness and ENABLED are outside the prover's reach.

## 5. Known disagreements

Two have a run that shows them, `op_stamp` and `async_mcp`.  `PROJECT.json` quotes
the documentation they contradict.  These properties are excluded by what the code
does and remain in the modules for whoever repairs it: add the name to the
cfg and TLC shows the behaviour.

- `HeadIsMeasured` (`CompareBranches`, with `Branches.cfg`): the CI gate of
  `docs/BRANCH-COMPARE.md:66-78` runs `compare branches --base origin/main --head HEAD`.
  The base checkout detaches the HEAD at origin/main; `git checkout HEAD`
  (`git/git.go:59`) then does nothing, so both runs measure origin/main, the second one
  is labelled HEAD, and the gate finds no regression whatever the commit under test
  does.  It takes no fault, no local change and no second command.  `LabelsTrue`
  excepts this one case and says what the code does instead.

- `StreamEndsAfterFailure` (`AsyncRun`, with `AsyncLive.cfg`): the `failed` progress
  entry is never cleared (`orchestrator/async.go:68`) and hides the row, so the
  stream of a failed run sends no `done`, although `docs/MONITORING.md` says "done
  when completed/failed".  `WatchReturns` fails with `Hosts = {"cli"}`: `run --async`
  exits with its goroutine, and the separate watch of the same page never returns.
- `JobPerBenchmark` and `EditsTakeEffect` (`BenchmarkOperator`): a Benchmark that is
  deleted and re-created is completed by its predecessor's Job, which is found by
  name (`reconciler.go:100`); an edit of topology, checkBaseline, checkHardware or
  useOllama starts no run, because `specHash` leaves them out (`job.go:46`; give
  `Extras` two values).

The properties name the following cases as exceptions, or the models contain them
without a property that they would contradict.

*Operator.*  A benchmark completed while its status file cannot be read keeps no
run id for ever (`reconcile_logic.go:24`).  Names are cut to 63 characters, so two
long ones may share a Job.

*Planning.*  The override `threads` becomes `numjobs`, so that profiles which set
`threads` keep their own value while the recorded workload shows the requested one;
`warmup_sec`, `block_size` and `queue_depth` behave alike.  `runtime` alone is
lost on a profile with `duration_sec`.  A model's null suppresses the parsed value.  A
single target given through API, MCP or a manifest gives way to servers named in
the intent; `docs/AGENTIC.md:181` holds for the command line only.  An explicit `auto`
does not undo an inferred topology; an inferred mode stays when options change
the lists, and `Build` then refuses it.  "Same host" words with distinct addresses
shard although the guide says single (`docs/AGENTIC.md:175`).  A profile without
`direct` never validates when it requires direct I/O.

*Topology.*  The shard example of `docs/TOPOLOGY.md:52` gives the third of three
clients the first of three targets; `Build` gives it the third.

*Aggregation.*  Interval series are merged by position: a gap or a late start
lands in another second, and merged sequence numbers may repeat.  Mean latencies
are not weighted by operations.

*Engines.*  The work directory of a target is named (`orchestrator/run.go:249`) but
not made, so fio, warp, elbencho and spdk fail on a fresh target.  Runs on one
target share it: old fio logs are streamed, old warp data and vdbench reports
enter results.  Runs on one target at the same time write the same files; what is
said of samples and results here is for one after the other.  A sample that fio's
poller sees before both logs have its line, or in the middle of one, is
streamed without its operations or bandwidth, or with half a number, and is not sent
again (`fio_logs.go:125-130`), so that a live stream may differ from the record.
Two scanners share one buffer without a lock (`stream_cmd.go:32-39`): a mixed
line may be taken for a number, and the race may even end the process, which is not
modelled.  A line longer than the scanner's buffer stops the scanner and may
block the tool until the run is cancelled.  In the native engine a failed
`try_clone` leaves threads that write the same file; a failing submission loops; a
ring that cannot be set up returns zero operations as success; block I/O that cannot
be validated falls back to synthetic numbers.

*Results.*  `baseline set` of a run in progress stores the key of its placeholder,
which has no target.  A failed asynchronous run keeps a passed validation, so its
analysis says "healthy".  An import may put an older export over a finished row,
and rows of a CSV file are saved one by one.  The rolling reference includes mock
runs, and is taken from the newest 500 rows.  `export --last N` filters the newest 3N
rows.  "No regression" is also printed without a baseline.  A p99 alert is at 15 %,
`docs/ARCHITECTURE.md:199` says 10 %.

*Branch comparison.*  A head "HEAD" is what the base checkout left (above).  A detached
HEAD is not restored.  When git does not answer, a run has no commit in its label, or
no dirty flag (`compare/branches.go:83`, `git/git.go:30`).  The fallback
`checkout -B` resets a user's branch to origin's after any failure of the first
checkout.  An interrupt leaves the other branch checked out, and two comparisons at
once mislabel each other's runs.

*Coordinator and agents.*  When assignments fail, the completed row is stored before
its warning (`orchestrator/run.go:222-233`); in between a reader finds an incomplete
row that looks complete, and it stays like that when the second save fails, whose
error is dropped, or the process ends.  Nothing keeps runs apart: `POST /api/v1/runs`
and several commands start runs at the same time, on one agent and in one work directory.

*Streams.*  The stream's interval events "for each time bucket"
(`docs/MONITORING.md:61`) are the latest sample of every 500 ms tick.

## 6. What is left

1. A `Save` whose reply is lost (possible with Postgres), as a variant of the store
   fault in `AsyncRun` and `ResultService`.
2. The composition of `RemoteAgent` with `AsyncRun`, whose remote assignments are
   one step there.
3. Other parameters with several spellings in `Planning`.
