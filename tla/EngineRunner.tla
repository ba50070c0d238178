---------------------------- MODULE EngineRunner ----------------------------
(***************************************************************************)
(* internal/engine: how a runner starts a benchmark tool as a child        *)
(* process, gathers its output and turns it into results.                  *)
(*                                                                         *)
(* Most tools are read by two goroutines, one on stdout and one on stderr  *)
(* (runStreamedCommand and its copies).  fio and the native engine write   *)
(* samples to a file that one goroutine polls.  Some tools have no live    *)
(* samples and use CombinedOutput.  (The orchestrator, the only caller,    *)
(* always passes OnInterval.)  The runs against one target share a work    *)
(* directory, one after the other.  A line of output is its kind; a line   *)
(* in a file of samples has the run that wrote it, its number in the file  *)
(* and how much of it is there.                                            *)
(***************************************************************************)
EXTENDS Naturals, Sequences

CONSTANTS
    Jobs,       \* the requests: engine, mock, vm, driver, bridge
    After,      \* the requests that may follow one in its work directory
    MockTicks,  \* intervals of a mock run
    PipeCap,    \* unread lines a pipe holds before its writer blocks
    LongLines,  \* tools may print lines longer than the scanner's buffer
    MaxLines,   \* bound: lines one child prints, or writes to one file
    MaxRuns     \* bound: runs in one work directory

Engines == {"fio", "warp", "elbencho", "spdk", "vdbench", "sbk", "gosbench",
            "stratabench", "mock", "other"}
Drivers == {"postgresql", "rocksdb", "kafka"}

ASSUME EngineAssumption ==
    /\ Jobs \subseteq [engine : Engines, mock : BOOLEAN, vm : BOOLEAN,
                       driver : Drivers \cup {"generic"}, bridge : BOOLEAN]
    /\ After \in [Jobs -> SUBSET Jobs]
    /\ MockTicks \in Nat /\ PipeCap \in Nat \ {0}
    /\ MaxLines \in Nat /\ LongLines \in BOOLEAN /\ MaxRuns \in Nat

Fds   == {"stdout", "stderr"}
Kinds == {"stats", "rate", "summary", "long"}
Logs  == {"iops", "bw", "progress"}
Leavers == {"warp", "vdbench"}
Tools == (Engines \ {"sbk", "other"}) \cup Drivers \cup {"bridge"}
Causes == {"none", "engine", "tool", "directory", "exit", "parse", "context"}

VARIABLES
    job, runNo,
    attempts,   \* the tools still to try, the current one first
    phase,      \* where Run is
    cancelled,  \* the caller's context is done
    outcome,    \* what Run returned
    cause,      \* why the last attempt failed
    dir,        \* the target's work directory exists
    child,      \* the child process: "none", "running", or how it exited
    wrote,      \* lines the child has printed
    opened,     \* files of samples the child has opened, and so emptied
    pipe,       \* unread lines of each pipe
    scan,       \* each scanner goroutine
    torn,       \* the scanners append to outBuf at the same time
    text,       \* outBuf, or what CombinedOutput returned
    tail,       \* cancel() of tailCtx was called
    poller, seen,  \* the polling goroutine and its "emitted"
    log,        \* the files of samples in the work directory
    bench,      \* the benchmark data of warp, the reports of vdbench in it
    intervals,  \* the interval series attached to the result
    delivered   \* the samples passed to OnInterval: the lines of each

control == <<job, runNo, attempts, phase, cancelled, outcome, cause>>
process == <<child, wrote, opened>>
reading == <<pipe, scan, torn, text>>
polling == <<poller, seen>>
workdir == <<dir, log, bench>>
given   == <<delivered, intervals>>
vars == <<control, workdir, process, reading, polling, tail, given>>

-----------------------------------------------------------------------------
(* Which tools a request tries, and how their output is collected.         *)

SBKTools(j) == (IF j.driver \in Drivers THEN <<j.driver>> ELSE <<>>)
               \o (IF j.bridge THEN <<"bridge">> ELSE <<>>)

ForProfile(j) ==
    CASE j.mock \/ j.engine = "mock"    -> <<"mock">>
      [] ~j.mock /\ j.engine = "other"  -> <<>>
      [] ~j.mock /\ j.engine = "sbk"    -> SBKTools(j)
      [] OTHER                          -> <<j.engine>>

tool == attempts[1]

\* "combined" tools have no live samples.
collect ==
    CASE tool \in {"rocksdb", "kafka", "bridge"} -> "combined"
      [] tool = "fio"         -> IF job.vm THEN "combined" ELSE "poll"
      [] tool = "stratabench" -> "poll"
      [] OTHER                -> "pipes"

\* What a stream scanner takes for a sample, and a parser for the result.  A
\* "rate" line matches both expressions of a tool, "stats" and "summary" one.
scanWarpStream        == {"stats", "rate"}
parseWarpOutput       == {"rate", "summary"}
scanElbenchoStream    == {"stats", "rate"}
parseElbenchoOutput   == {"rate", "summary"}
scanSPDKStream        == {"stats", "rate"}
parseSPDKOutput       == {"rate"}
scanVdbenchStream     == {"stats", "rate"}
parseVdbenchOutput    == {"rate", "summary"}
scanGosbenchStream    == {"rate"}
parseGosbenchOutput   == {"rate"}
scanPgBenchStream     == {"stats"}
parsePgBenchOutput    == {"summary"}
parseDBBenchOutput    == {"summary"}
parseKafkaOutput      == {"summary"}
parseFioJSON          == {"summary"}

Live(line) == line \in
    CASE tool = "warp"       -> scanWarpStream     [] tool = "elbencho" -> scanElbenchoStream
      [] tool = "spdk"       -> scanSPDKStream     [] tool = "vdbench"  -> scanVdbenchStream
      [] tool = "gosbench"   -> scanGosbenchStream [] OTHER             -> scanPgBenchStream

ResultLines(t) ==
    CASE t = "warp"       -> parseWarpOutput     [] t = "elbencho" -> parseElbenchoOutput
      [] t = "spdk"       -> parseSPDKOutput     [] t = "vdbench"  -> parseVdbenchOutput
      [] t = "gosbench"   -> parseGosbenchOutput [] t = "postgresql" -> parsePgBenchOutput
      [] t = "rocksdb"    -> parseDBBenchOutput  [] t = "kafka"    -> parseKafkaOutput
      [] OTHER            -> parseFioJSON

\* vdbench is also parsed from the reports in its output directory.
FromReports(t) == t = "vdbench" /\ ~job.vm /\ bench[t] # <<>>

\* The result comes from a file that the tool writes on success.
ResultFile(t) == t \in {"stratabench", "bridge"} \/ (t = "fio" /\ ~job.vm)

\* A line of the output is taken for the result; whether one that another
\* line was written into is, and for which number, depends on what is left.
Found(t)   == \E i \in DOMAIN text : text[i] \in ResultLines(t)
Garbled(t) == ~ResultFile(t) /\ \E i \in DOMAIN text : text[i] = "mixed"

\* Mutant: what cannot be parsed is replaced by an estimate.
Estimated(t) == TRUE

Parses(t) == ResultFile(t) \/ FromReports(t) \/ Found(t) \/ Garbled(t)

\* A file may be missing, unreadable or not what is expected.
MayNotParse(t) == ResultFile(t) \/ Garbled(t) \/ ~Found(t)

-----------------------------------------------------------------------------
(* How the preparation of a tool may end: whether its work directory then  *)
(* exists, the sample files, and why it failed ("none": the tool starts).   *)

Way(d, l, why) == [dir |-> d, log |-> l, why |-> why]

Missing == Way(dir, log, "tool")
\* A file is written to the directory, or the tool is started in it, and
\* nobody has made it.
InDirectory == Way(dir, log, IF dir THEN "none" ELSE "directory")
MakesDirectory == {Way(TRUE, log, "tool"), Way(TRUE, log, "none")}

FioWays      == {Missing, InDirectory}
VMFioWays    == {Missing, InDirectory}
WarpWays     == {Missing, InDirectory}
ElbenchoWays == {Missing, InDirectory}
VMElbenchoWays == {Missing, InDirectory}
SPDKWays     == {Missing, InDirectory}
VdbenchWays  == {Missing} \cup MakesDirectory
VMVdbenchWays == {Missing} \cup MakesDirectory
\* With a configuration of the profile, none is written to the directory.
GosbenchWays == {Missing, InDirectory} \cup MakesDirectory
PgBenchWays  == {Missing, Way(dir, log, "none")}
DBBenchWays  == {Missing, Way(dir, log, "none")}
KafkaWays    == {Missing, Way(dir, log, "none")}
BridgeWays   == {Missing} \cup MakesDirectory

\* Mutant: the progress file of the last run is left in place.
NativeKeepsProgress == {Missing} \cup MakesDirectory

\* The old progress file is removed before anything else is done.
NoProgress == [log EXCEPT !["progress"] = <<>>]
NativeWays == {Missing, Way(dir, NoProgress, "tool"),
               Way(TRUE, NoProgress, "tool"), Way(TRUE, NoProgress, "none")}

Ways ==
    CASE tool = "fio"      -> IF job.vm THEN VMFioWays ELSE FioWays
      [] tool = "elbencho" -> IF job.vm THEN VMElbenchoWays ELSE ElbenchoWays
      [] tool = "vdbench"  -> IF job.vm THEN VMVdbenchWays ELSE VdbenchWays
      [] tool = "warp"     -> WarpWays      [] tool = "spdk"        -> SPDKWays
      [] tool = "gosbench" -> GosbenchWays  [] tool = "stratabench" -> NativeWays
      [] tool = "rocksdb"  -> DBBenchWays   [] tool = "kafka"       -> KafkaWays
      [] tool = "bridge"   -> BridgeWays    [] OTHER                -> PgBenchWays

-----------------------------------------------------------------------------
(* Run, up to the start of a tool.                                         *)

Init ==
    /\ job \in Jobs /\ runNo = 1 /\ attempts = <<>> /\ phase = "idle"
    /\ cancelled = FALSE /\ outcome = "none" /\ cause = "none"
    /\ dir \in BOOLEAN /\ log = [l \in Logs |-> <<>>] /\ bench = [t \in Leavers |-> <<>>]
    /\ delivered = <<>> /\ intervals = <<>>
    /\ child = "none" /\ wrote = 0 /\ opened = {} /\ tail = FALSE /\ torn = {} /\ text = <<>>
    /\ pipe = [f \in Fds |-> <<>>] /\ scan = [f \in Fds |-> "off"]
    /\ poller = "off" /\ seen = 0

\* The orchestrator calls Run, for the first time or for a later benchmark of
\* the same target.
Call ==
    /\ phase \in {"idle", "returned"}
    /\ \/ phase = "idle" /\ UNCHANGED <<runNo, job>>
       \/ phase = "returned" /\ runNo < MaxRuns /\ runNo' = runNo + 1 /\ job' \in After[job]
    /\ attempts' = ForProfile(job') /\ phase' = "attempt" /\ cancelled' = FALSE
    /\ cause' = (IF attempts' = <<>> THEN "engine" ELSE "none")
    /\ child' = "none" /\ wrote' = 0 /\ opened' = {} /\ tail' = FALSE /\ torn' = {} /\ text' = <<>>
    /\ pipe' = [f \in Fds |-> <<>>] /\ scan' = [f \in Fds |-> "off"]
    /\ poller' = "off" /\ seen' = 0 /\ delivered' = <<>> /\ intervals' = <<>>
    /\ UNCHANGED <<outcome, workdir>>

\* The caller's context ends: Ctrl-C, or the client of the agent disconnects.
Cancel ==
    /\ phase \notin {"idle", "returned"} /\ ~cancelled
    /\ cancelled' = TRUE
    /\ UNCHANGED <<job, runNo, attempts, phase, outcome, cause, process, reading,
                   polling, workdir, given, tail>>

ReturnFrom(result) == phase' = "returned" /\ outcome' = result

GiveUp ==
    /\ phase = "attempt" /\ attempts = <<>>
    /\ ReturnFrom("error")
    /\ UNCHANGED <<job, runNo, attempts, cancelled, cause, process, reading, polling,
                   workdir, given, tail>>

\* An attempt fails; the SBK runner goes on to its bridge.
Fails(why) ==
    /\ attempts' = Tail(attempts) /\ cause' = why /\ phase' = "attempt"
    /\ UNCHANGED <<job, runNo, cancelled, outcome>>

\* Prepare the next tool and start it, or fail.
StartTool ==
    /\ phase = "attempt" /\ attempts # <<>> /\ tool # "mock"
    /\ \E w \in Ways :
         /\ dir' = w.dir /\ log' = w.log
         /\ IF w.why # "none" \/ cancelled
            THEN /\ Fails(IF w.why # "none" THEN w.why ELSE "context")
                 /\ UNCHANGED <<process, reading, polling, tail>>
            ELSE /\ phase' = "running" /\ child' = "running" /\ wrote' = 0 /\ opened' = {}
                 /\ pipe' = [f \in Fds |-> <<>>] /\ text' = <<>> /\ torn' = {} /\ tail' = FALSE
                 /\ scan' = [f \in Fds |-> IF collect = "pipes" THEN "read" ELSE "off"]
                 /\ poller' = (IF collect = "poll" THEN "on" ELSE "off") /\ seen' = 0
                 /\ UNCHANGED <<job, runNo, attempts, cancelled, outcome, cause>>
    /\ UNCHANGED <<bench, given>>

-----------------------------------------------------------------------------
(* The child process.                                                      *)

\* A write blocks while the pipe is full.
PrintLine(f, kind) ==
    /\ child = "running" /\ collect # "poll" /\ wrote < MaxLines
    /\ kind = "long" => LongLines
    /\ collect = "pipes" => Len(pipe[f]) < PipeCap
    /\ pipe' = [pipe EXCEPT ![f] = Append(@, kind)] /\ wrote' = wrote + 1
    /\ UNCHANGED <<control, child, opened, scan, torn, text, polling, workdir, given, tail>>

Line(run, n, how) == [of |-> run, no |-> n, how |-> how]

\* fio logs operations and bandwidth in two files, in no order.
LogsOf == IF job.engine = "fio" THEN {"iops", "bw"} ELSE {"progress"}

\* A line that is half written may be read.  Half a line of fio's may show
\* another number ("cut"); half a line that shows none, as half an object of
\* JSON, is skipped, as if it were not there yet.
Pieces == IF job.engine = "fio" THEN {"whole", "cut"} ELSE {"whole"}
Half(l) == log[l] # <<>> /\ log[l][Len(log[l])].how # "whole"

WriteTo(l, lines) ==
    /\ child = "running" /\ collect = "poll"
    /\ log' = [log EXCEPT ![l] = lines]
    /\ UNCHANGED <<control, child, wrote, reading, polling, dir, bench, given, tail>>

\* What an earlier run has left in a file is there until the tool opens it.
OpenLog(l) == WriteTo(l, <<>>) /\ l \in LogsOf \ opened /\ opened' = opened \cup {l}

WriteSample(l) ==
    /\ child = "running" /\ l \in opened /\ ~Half(l) /\ Len(log[l]) < MaxLines
    /\ \E how \in Pieces :
         WriteTo(l, Append(log[l], Line(runNo, Len(log[l]) + 1, how)))
    /\ UNCHANGED opened

\* The rest of a line comes at once (it is shorter than a buffer).
EndLine(l) ==
    /\ l \in opened /\ Half(l)
    /\ WriteTo(l, [log[l] EXCEPT ![Len(log[l])].how = "whole"])
    /\ UNCHANGED opened

\* warp leaves its benchmark data in the directory, vdbench its reports.
WriteBenchData ==
    /\ child = "running" /\ (tool = "warp" \/ (tool = "vdbench" /\ ~job.vm))
    /\ bench' = [bench EXCEPT ![tool] = <<runNo>>]
    /\ UNCHANGED <<control, dir, log, process, reading, polling, tail, given>>

\* A tool that still writes to a full pipe does not end by itself.
Blocked == collect = "pipes" /\ \E f \in Fds : Len(pipe[f]) = PipeCap

Exits(status) ==
    /\ child = "running" /\ child' = status
    /\ UNCHANGED <<control, wrote, opened, reading, polling, workdir, given, tail>>

\* Who succeeds has finished the lines that were begun.
Finish ==
    /\ child = "running" /\ ~Blocked
    /\ \E status \in {"ok", "failed"} :
         /\ status = "ok" => \A l \in opened : ~Half(l)
         /\ Exits(status)
Crash  == Exits("failed")

\* CommandContext kills the tool when the context ends.
Kill == cancelled /\ Exits("failed")

-----------------------------------------------------------------------------
(* A scanner goroutine: scan*Stream on one pipe.                           *)

\* The select at the end of each line.
AfterLine == IF tail \/ cancelled THEN "done" ELSE "read"

\* outBuf has no lock: of two appends at once either line may be lost, or be
\* joined to or overwritten by the other.
BeginAppend(f) ==
    /\ scan[f] = "read" /\ pipe[f] # <<>> /\ Head(pipe[f]) # "long"
    /\ scan' = [scan EXCEPT ![f] = "append"]
    /\ torn' = (IF \E g \in Fds \ {f} : scan[g] = "append" THEN Fds ELSE torn \ {f})
    /\ UNCHANGED <<control, process, pipe, text, polling, workdir, given, tail>>

EndAppend(f) ==
    /\ scan[f] = "append"
    /\ \/ text' = Append(text, Head(pipe[f]))
       \/ f \in torn /\ text' \in {text, Append(text, "mixed")}
    /\ scan' = [scan EXCEPT ![f] = IF Live(Head(pipe[f])) THEN "call" ELSE AfterLine]
    /\ pipe' = [pipe EXCEPT ![f] = Tail(@)]
    /\ UNCHANGED <<control, process, torn, polling, workdir, given, tail>>

\* A sample made of one line of output, or by the mock.
NewSample == [l \in {"output"} |-> Line(runNo, Len(delivered) + 1, "whole")]

OnInterval(f) ==
    /\ scan[f] = "call"
    /\ delivered' = Append(delivered, NewSample)
    /\ scan' = [scan EXCEPT ![f] = AfterLine]
    /\ UNCHANGED <<control, process, pipe, torn, text, polling, workdir, intervals, tail>>

\* Scan returns false: at the end of the output, or on a line that does not
\* fit, after which nobody reads the pipe any more.
ScanEnds(f) ==
    /\ scan[f] = "read"
    /\ \/ pipe[f] = <<>> /\ child # "running"
       \/ pipe[f] # <<>> /\ Head(pipe[f]) = "long"
    /\ scan' = [scan EXCEPT ![f] = "done"]
    /\ UNCHANGED <<control, process, pipe, torn, text, polling, workdir, given, tail>>

-----------------------------------------------------------------------------
(* The polling goroutine: watchFioLogIntervals, watchNativeProgress.       *)

mapKeys == UNION {DOMAIN log[l] : l \in LogsOf}
NoLine == Line(0, 0, "none")

\* fio's two logs are merged by position; what one does not have yet is zero.
\* (One look at both is enough: they are written independently, so that a line
\* written between the two looks could as well have been written after both.)
Series ==
    [i \in mapKeys |-> [l \in LogsOf |-> IF i \in DOMAIN log[l] THEN log[l][i] ELSE NoLine]]

\* Mutant: the entry at "emitted" is sent again.
ResendLast == SubSeq(Series, IF seen = 0 THEN 1 ELSE seen, Len(Series))

Unsent == SubSeq(Series, seen + 1, Len(Series))

\* flush, on a tick and once more when the context ends.  fio's "emitted" is
\* the length of the series, the native engine's the last number it sent.
Flush ==
    /\ delivered' = delivered \o Unsent
    /\ seen' = (IF job.engine # "fio" /\ seen > Len(Series) THEN seen ELSE Len(Series))

PollTick ==
    /\ poller = "on" /\ ~tail /\ ~cancelled
    /\ seen # Len(Series)
    /\ Flush
    /\ UNCHANGED <<control, process, reading, poller, workdir, intervals, tail>>

\* Mutant: the poller listens to the context of the caller only.
PollUntilCancelled ==
    /\ poller = "on" /\ cancelled
    /\ Flush
    /\ poller' = "done"
    /\ UNCHANGED <<control, process, reading, workdir, intervals, tail>>

PollEnds ==
    /\ poller = "on" /\ (tail \/ cancelled)
    /\ Flush
    /\ poller' = "done"
    /\ UNCHANGED <<control, process, reading, workdir, intervals, tail>>

-----------------------------------------------------------------------------
(* Run, from the exit of the child on.                                     *)

\* cmd.Wait closes the pipes under the scanners, which keep what they have
\* buffered; then tailCtx is cancelled.
WaitChild ==
    /\ phase = "running" /\ child # "running"
    /\ phase' = "joining" /\ tail' = TRUE
    /\ IF collect = "combined"
       THEN /\ text' = pipe["stdout"] \o pipe["stderr"]
            /\ pipe' = [f \in Fds |-> <<>>]
       ELSE /\ UNCHANGED text
            /\ \E kept \in [Fds -> 0..PipeCap] :
                 /\ \A f \in Fds : kept[f] <= Len(pipe[f])
                                   /\ (scan[f] = "append" => kept[f] > 0)
                 /\ pipe' = [f \in Fds |-> SubSeq(pipe[f], 1, kept[f])]
    /\ UNCHANGED <<job, runNo, attempts, cancelled, outcome, cause, process, scan,
                   torn, polling, workdir, given>>

\* Mutant: Run does not wait for its goroutines.
NoWait == TRUE

\* wg.Wait()
Joined == /\ \A f \in Fds : scan[f] \in {"off", "done"}
          /\ poller \in {"off", "done"}

\* What the log files hold.
attachFioIntervals == {Series}
\* What warp analyze makes of the benchmark data in the directory, if it works.
attachWarpIntervals == {<<>>, bench["warp"]}

Recorded ==
    CASE tool = "fio" /\ ~job.vm -> attachFioIntervals
      [] tool = "warp"           -> attachWarpIntervals
      [] OTHER                   -> {<<>>}

\* The exit status is checked, then the output is parsed.
Conclude ==
    /\ phase = "joining" /\ Joined
    /\ \/ /\ child = "failed" \/ MayNotParse(tool)
          /\ Fails(IF child = "failed" THEN "exit" ELSE "parse")
          /\ UNCHANGED intervals
       \/ /\ child = "ok" /\ Parses(tool)
          /\ ReturnFrom("ok") /\ intervals' \in Recorded
          /\ UNCHANGED <<job, runNo, attempts, cancelled, cause>>
    /\ UNCHANGED <<process, reading, polling, workdir, delivered, tail>>

\* streamMockIntervals: a callback, then a tick or the end of the context.
MockTick ==
    /\ phase = "attempt" /\ attempts # <<>> /\ tool = "mock"
    /\ Len(delivered) < MockTicks
    /\ ~cancelled \/ delivered = <<>>
    /\ delivered' = Append(delivered, NewSample)
    /\ UNCHANGED <<control, process, reading, polling, workdir, intervals, tail>>

MockEnds ==
    /\ phase = "attempt" /\ attempts # <<>> /\ tool = "mock"
    /\ \/ Len(delivered) = MockTicks /\ ReturnFrom("ok") /\ UNCHANGED cause
       \/ cancelled /\ delivered # <<>> /\ ReturnFrom("error") /\ cause' = "context"
    /\ UNCHANGED <<job, runNo, attempts, cancelled, process, reading, polling, workdir,
                   given, tail>>

-----------------------------------------------------------------------------
RunStep == Call \/ GiveUp \/ StartTool \/ WaitChild \/ Conclude \/ MockTick \/ MockEnds
ChildStep == \/ Finish \/ Crash \/ Kill \/ WriteBenchData
             \/ \E l \in Logs : OpenLog(l) \/ WriteSample(l) \/ EndLine(l)
             \/ \E f \in Fds, k \in Kinds : PrintLine(f, k)
ScanStep(f) == BeginAppend(f) \/ EndAppend(f) \/ OnInterval(f) \/ ScanEnds(f)
PollStep == PollTick \/ PollEnds

Next == Cancel \/ RunStep \/ ChildStep \/ PollStep \/ \E f \in Fds : ScanStep(f)

SafeSpec == Init /\ [][Next]_vars

\* Goroutines are scheduled, and a child that can end ends.
FairSpec ==
    /\ SafeSpec
    /\ WF_vars(RunStep) /\ WF_vars(Finish) /\ WF_vars(Kill) /\ WF_vars(PollStep)
    /\ \A f \in Fds : WF_vars(ScanStep(f))

-----------------------------------------------------------------------------
(* Properties.                                                             *)

Returned == phase = "returned"
Mocked   == job.mock \/ job.engine = "mock"

\* A benchmark that was not asked to be mocked succeeds only with a number
\* that a tool of this run produced before it exited with status 0 (vdbench:
\* or with one of the reports in the directory, which may be older; tools with
\* two scanners: or with a line that a race on their buffer has made).
HonestOutcome ==
    Returned /\ outcome = "ok" /\ ~Mocked =>
        /\ tool # "mock" /\ child = "ok"
        /\ \/ ResultFile(tool) \/ FromReports(tool)
           \/ \E i \in DOMAIN text : text[i] \in {"rate", "summary", "mixed"}

\* What earlier runs left in the work directory is never shown as a live
\* sample, except of fio, whose old logs stay until it writes new ones.
OwnSamples ==
    job.engine # "fio" =>
        \A i \in DOMAIN delivered : \A l \in DOMAIN delivered[i] : delivered[i][l].of = runNo

\* No line that an earlier run left was taken for one of this run.
NothingOld ==
    \A i \in DOMAIN delivered : \A l \in DOMAIN delivered[i] : delivered[i][l].of \in {0, runNo}

\* Once Run succeeds, each line of the native engine was delivered once and in
\* order.  Of fio, as many samples were streamed as its result records, each
\* number at its place; but a sample that was streamed before both logs had its
\* line lacks the operations or the bandwidth, or has half a number for it.
CaughtUp ==
    Returned /\ outcome = "ok" /\ poller = "done" /\ ~cancelled /\ NothingOld =>
        /\ tool = "stratabench" =>
             delivered = [i \in DOMAIN log["progress"] |->
                             [l \in {"progress"} |-> log["progress"][i]]]
        /\ tool = "fio" =>
             /\ Len(delivered) = Len(intervals)
             /\ \A i \in DOMAIN delivered, l \in {"iops", "bw"} :
                  \/ delivered[i][l] = intervals[i][l]
                  \/ delivered[i][l].how \in {"none", "cut"}

\* The callback is silent before the call of Run and after its return.
Contract == INSTANCE RunnerContract WITH
    running <- phase \notin {"idle", "returned"}, samples <- Len(delivered)
ImplementsContract == Contract!Spec

\* A scanner met a line that is too long; its tool may block for ever.
GaveUp == \E f \in Fds : scan[f] = "done" /\ pipe[f] # <<>> /\ ~tail

\* Run returns when its tool ends, and whenever it is cancelled.
RunReturns ==
    /\ phase = "attempt" ~> Returned \/ GaveUp
    /\ cancelled ~> Returned
=============================================================================
