---------------------------- MODULE EngineProofs ----------------------------
(***************************************************************************)
(* What a runner promises, for any requests, sizes of pipes, number of     *)
(* lines and number of runs in one work directory.                         *)
(***************************************************************************)
EXTENDS EngineRunner, SequenceTheorems, TLAPS

Busy == {"running", "joining"}
Reads == {"read", "append", "call"}

Lines   == [of : Nat, no : Nat, how : {"whole", "cut", "none"}]
Samples == UNION {[S -> Lines] : S \in SUBSET (Logs \cup {"output"})}

Typed ==
    /\ job \in Jobs /\ runNo \in Nat
    /\ attempts \in Seq(Tools) /\ phase \in {"idle", "attempt", "joining", "running", "returned"}
    /\ outcome \in {"none", "ok", "error"} /\ child \in {"none", "running", "ok", "failed"}
    /\ scan \in [Fds -> {"off", "done"} \cup Reads] /\ poller \in {"off", "on", "done"}
    /\ seen \in Nat /\ log \in [Logs -> Seq(Lines)] /\ opened \in SUBSET Logs
    /\ delivered \in Seq(Samples)

\* Children, scanners and pollers live only while Run is in an attempt, whose
\* tool is not the mock.
LiveInAttempt ==
    /\ child = "running" => phase = "running"
    /\ poller = "on" => phase \in Busy /\ tool \in {"fio", "stratabench"}
    /\ \A f \in Fds : scan[f] \in Reads => phase \in Busy
    /\ phase \in Busy => attempts # <<>> /\ tool # "mock"

Polled == {"fio", "stratabench"}

\* Only a request for a mock, or for a polled tool, has an attempt with it.
ToolsOfJob ==
    \A i \in 1..Len(attempts) :
        /\ attempts[i] = "mock" => Mocked
        /\ attempts[i] \in Polled => attempts[i] = job.engine

\* What a poller reads was written by this run, unless it is fio's.
LogIsOwn ==
    poller = "on" /\ job.engine # "fio" =>
        \A i \in 1..Len(log["progress"]) : log["progress"][i].of = runNo

IInv == Typed /\ LiveInAttempt /\ ToolsOfJob /\ LogIsOwn /\ HonestOutcome /\ OwnSamples

-----------------------------------------------------------------------------
\* What the constants say of a request.
LEMMA JobTypes ==
    \A j \in Jobs : j.engine \in Engines /\ j.driver \in Drivers \cup {"generic"}
                    /\ j.mock \in BOOLEAN /\ j.vm \in BOOLEAN /\ j.bridge \in BOOLEAN
BY EngineAssumption

\* Nothing has been asked for: the invariant holds.
LEMMA InitIInv == Init => IInv
<1> SUFFICES ASSUME Init PROVE IInv
  OBVIOUS
<1>1. Typed
  <2>1. log \in [Logs -> Seq(Lines)] /\ delivered \in Seq(Samples)
    <3>1. log = [l \in Logs |-> <<>>] /\ delivered = <<>>
      BY DEF Init
    <3> QED BY <3>1
  <2> QED BY <2>1 DEF Init, Typed
<1>2. LiveInAttempt /\ ToolsOfJob /\ LogIsOwn
  BY DEF Init, LiveInAttempt, ToolsOfJob, LogIsOwn, Reads, Busy
<1>3. HonestOutcome /\ OwnSamples
  BY DEF Init, HonestOutcome, OwnSamples, Returned
<1> QED BY <1>1, <1>2, <1>3 DEF IInv

\* The attempts of a request are tools; the mock and the polled ones only when
\* asked for.
LEMMA AttemptsOfRequest ==
    ASSUME NEW j \in Jobs
    PROVE  /\ ForProfile(j) \in Seq(Tools)
           /\ \A i \in 1..Len(ForProfile(j)) :
                /\ ForProfile(j)[i] = "mock" => j.mock \/ j.engine = "mock"
                /\ ForProfile(j)[i] \in Polled => ForProfile(j)[i] = j.engine
<1>1. /\ j.engine \in Engines /\ j.driver \in Drivers \cup {"generic"}
      /\ j.mock \in BOOLEAN /\ j.bridge \in BOOLEAN
  BY JobTypes
<1>2. CASE j.mock \/ j.engine = "mock"
  <2>1. ForProfile(j) = <<"mock">>
    BY <1>2 DEF ForProfile
  <2> QED BY <1>2, <2>1 DEF Tools, Engines, Polled
<1>3. CASE ~j.mock /\ j.engine = "other"
  <2>1. ForProfile(j) = <<>>
    BY <1>3 DEF ForProfile
  <2> QED BY <2>1
<1>4. CASE ~j.mock /\ j.engine = "sbk"
  <2> DEFINE Others  == Tools \ {"mock", "fio", "stratabench"}
             own     == IF j.driver \in Drivers THEN <<j.driver>> ELSE <<>>
             through == IF j.bridge THEN <<"bridge">> ELSE <<>>
  <2>1. ForProfile(j) = own \o through
    BY <1>4 DEF ForProfile, SBKTools
  <2>2. own \in Seq(Others)
    <3>1. Drivers \subseteq Others
      BY DEF Tools, Drivers, Engines
    <3>2. CASE j.driver \in Drivers
      <4>1. j.driver \in Others
        BY <3>1, <3>2
      <4>2. own = <<j.driver>>
        BY <3>2
      <4> HIDE DEF own, Others
      <4> QED BY <4>1, <4>2
    <3>3. CASE j.driver \notin Drivers
      BY <3>3
    <3> QED BY <3>2, <3>3
  <2>3. through \in Seq(Others)
    <3>1. "bridge" \in Others
      BY DEF Tools
    <3> HIDE DEF Others
    <3> QED BY <3>1
  <2> HIDE DEF Others, own, through
  <2>4. own \o through \in Seq(Others)
    BY <2>2, <2>3, ConcatProperties
  <2>5. \A i \in 1..Len(own \o through) : (own \o through)[i] \in Others
    BY <2>4, ElementOfSeq
  <2>6. own \o through \in Seq(Tools)
    BY <2>4 DEF Others
  <2> QED BY <2>1, <2>5, <2>6 DEF Others, Polled
<1>5. CASE ~j.mock /\ j.engine \notin {"mock", "other", "sbk"}
  <2>1. ForProfile(j) = <<j.engine>>
    BY <1>5 DEF ForProfile
  <2> QED BY <1>1, <1>5, <2>1 DEF Tools
<1> QED BY <1>1, <1>2, <1>3, <1>4, <1>5

\* A line that a parser accepts is a rate or a summary.
LEMMA ResultsAreNumbers == \A t : ResultLines(t) \subseteq {"rate", "summary"}
BY DEF ResultLines, parseWarpOutput, parseElbenchoOutput, parseSPDKOutput, parseVdbenchOutput,
       parseGosbenchOutput, parsePgBenchOutput, parseDBBenchOutput, parseKafkaOutput, parseFioJSON

\* Preparing a tool leaves the samples in the directory, or removes the progress
\* file: the native engine always does.
LEMMA WaysToStart ==
    \A w \in Ways : /\ w.log \in {log, NoProgress}
                    /\ tool = "stratabench" /\ w.why = "none" => w.log = NoProgress
<1>1. Missing.log = log /\ Missing.why = "tool" /\ InDirectory.log = log
  BY DEF Way, Missing, InDirectory
<1>2. \A w \in {Missing, InDirectory} \cup MakesDirectory \cup {Way(dir, log, "none")} : w.log = log
  <2>1. \A w \in MakesDirectory \cup {Way(dir, log, "none")} : w.log = log
    BY DEF Way, MakesDirectory
  <2> QED BY <1>1, <2>1
<1>3. \A w \in NativeWays : w.log \in {log, NoProgress} /\ (w.why = "none" => w.log = NoProgress)
  <2>1. \A w \in {Way(dir, NoProgress, "tool"), Way(TRUE, NoProgress, "tool"),
                  Way(TRUE, NoProgress, "none")} : w.log = NoProgress
    BY DEF Way
  <2> QED BY <1>1, <2>1 DEF NativeWays
<1>4. CASE tool = "stratabench"
  <2>1. Ways = NativeWays
    BY <1>4 DEF Ways
  <2> QED BY <1>3, <2>1
<1>5. CASE tool # "stratabench"
  <2>1. Ways \subseteq {Missing, InDirectory} \cup MakesDirectory \cup {Way(dir, log, "none")}
    <3>1. \/ Ways \in {FioWays, VMFioWays, ElbenchoWays, VMElbenchoWays, VdbenchWays, VMVdbenchWays}
          \/ Ways \in {WarpWays, SPDKWays, GosbenchWays, DBBenchWays, KafkaWays, BridgeWays, PgBenchWays}
      BY <1>5 DEF Ways
    <3> QED BY <3>1 DEF FioWays, VMFioWays, WarpWays, ElbenchoWays, VMElbenchoWays, SPDKWays,
                 VdbenchWays, VMVdbenchWays, GosbenchWays, PgBenchWays, DBBenchWays, KafkaWays, BridgeWays
  <2> QED BY <1>2, <1>5, <2>1
<1> QED BY <1>4, <1>5

\* Without its progress file the directory is typed as before.
LEMMA ProgressRemoved ==
    ASSUME log \in [Logs -> Seq(Lines)]
    PROVE  /\ NoProgress \in [Logs -> Seq(Lines)] /\ NoProgress["progress"] = <<>>
           /\ \A l \in Logs : NoProgress[l] \in {log[l], <<>>}
<1>1. "progress" \in Logs /\ <<>> \in Seq(Lines)
  BY DEF Logs
<1> QED BY <1>1 DEF NoProgress

\* Only fio and the native engine are polled.
LEMMA PolledTools == collect = "poll" => tool \in {"fio", "stratabench"}
BY DEF collect

-----------------------------------------------------------------------------
ContractStep == [Contract!Next]_<<phase \notin {"idle", "returned"}, Len(delivered), outcome>>

\* A request is taken up: nothing of the last run is left in memory.
LEMMA CallStep ==
    ASSUME IInv, Call
    PROVE  IInv' /\ ContractStep
<1>1. job' \in Jobs /\ runNo' \in Nat
  <2>1. job \in Jobs /\ runNo \in Nat /\ After[job] \subseteq Jobs
    BY EngineAssumption DEF IInv, Typed
  <2> QED BY <2>1 DEF Call
<1>2. /\ attempts' = ForProfile(job') /\ phase' = "attempt" /\ phase \in {"idle", "returned"}
      /\ child' = "none" /\ scan' = [f \in Fds |-> "off"] /\ poller' = "off" /\ seen' = 0
      /\ delivered' = <<>> /\ outcome' = outcome /\ log' = log /\ opened' = {}
  BY DEF Call, workdir
<1>3. Typed'
  BY <1>1, <1>2, AttemptsOfRequest DEF IInv, Typed
<1>4. LiveInAttempt' /\ LogIsOwn' /\ HonestOutcome' /\ OwnSamples'
  BY <1>2 DEF LiveInAttempt, LogIsOwn, HonestOutcome, OwnSamples, Returned, Busy, Reads
<1>5. ToolsOfJob'
  BY <1>1, <1>2, AttemptsOfRequest DEF ToolsOfJob, Mocked
<1>6. ContractStep
  BY <1>2 DEF ContractStep, Contract!Next, Contract!Call
<1> QED BY <1>3, <1>4, <1>5, <1>6 DEF IInv

\* There is nothing to try, or nothing more.
LEMMA GiveUpStep ==
    ASSUME IInv, GiveUp
    PROVE  IInv' /\ ContractStep
<1>1. /\ phase = "attempt" /\ phase' = "returned" /\ outcome' = "error"
      /\ UNCHANGED <<job, runNo, attempts, child, scan, poller, seen, log, opened, delivered>>
  BY DEF GiveUp, ReturnFrom, process, reading, polling, workdir, given
<1>2. Typed'
  BY <1>1 DEF IInv, Typed
<1>3. LiveInAttempt' /\ ToolsOfJob' /\ LogIsOwn' /\ HonestOutcome' /\ OwnSamples'
  BY <1>1 DEF IInv, LiveInAttempt, ToolsOfJob, LogIsOwn, HonestOutcome, OwnSamples, Mocked, Busy
<1>4. ContractStep
  BY <1>1 DEF ContractStep, Contract!Next, Contract!Return
<1> QED BY <1>2, <1>3, <1>4 DEF IInv

\* An attempt that failed is dropped; what is left are tools of the request.
LEMMA FailedAttempt ==
    ASSUME IInv, attempts # <<>>, attempts' = Tail(attempts), job' = job
    PROVE  attempts' \in Seq(Tools) /\ ToolsOfJob'
<1>1. /\ attempts' \in Seq(Tools) /\ Len(attempts') = Len(attempts) - 1
      /\ \A i \in 1..Len(attempts') : attempts'[i] = attempts[i+1]
  BY HeadTailProperties DEF IInv, Typed
<1>2. Len(attempts) \in Nat
  BY DEF IInv, Typed
<1>3. \A i \in 1..Len(attempts') : i + 1 \in 1..Len(attempts)
  BY <1>1, <1>2
<1> QED BY <1>1, <1>3 DEF IInv, ToolsOfJob, Mocked

\* A tool is prepared and started, or fails to start.
LEMMA StartToolStep ==
    ASSUME IInv, StartTool
    PROVE  IInv' /\ ContractStep
<1>1. /\ phase = "attempt" /\ attempts # <<>> /\ tool # "mock" /\ UNCHANGED <<delivered, job, runNo, outcome>>
  BY DEF StartTool, Fails, given
<1>2. PICK w \in Ways :
         /\ log' = w.log
         /\ \/ /\ attempts' = Tail(attempts) /\ phase' = "attempt"
               /\ UNCHANGED <<child, scan, poller, seen, opened>>
            \/ /\ w.why = "none" /\ phase' = "running" /\ child' = "running" /\ attempts' = attempts
               /\ opened' = {}
               /\ scan' = [f \in Fds |-> IF collect = "pipes" THEN "read" ELSE "off"]
               /\ poller' = (IF collect = "poll" THEN "on" ELSE "off") /\ seen' = 0
  BY DEF StartTool, Fails, process, reading, polling
<1>3. log' \in [Logs -> Seq(Lines)]
  BY <1>2, WaysToStart, ProgressRemoved DEF IInv, Typed
<1>4. HonestOutcome' /\ OwnSamples'
  BY <1>1, <1>2 DEF IInv, HonestOutcome, OwnSamples, Returned
<1>5. ContractStep
  BY <1>1, <1>2 DEF ContractStep
<1>6. CASE attempts' = Tail(attempts) /\ phase' = "attempt" /\ UNCHANGED <<child, scan, poller, seen, opened>>
  <2>1. Typed' /\ ToolsOfJob'
    BY <1>1, <1>3, <1>6, FailedAttempt DEF IInv, Typed
  <2>2. LiveInAttempt' /\ LogIsOwn'
    BY <1>1, <1>6 DEF IInv, LiveInAttempt, LogIsOwn, Busy
  <2> QED BY <1>4, <1>5, <2>1, <2>2 DEF IInv
<1>7. CASE /\ w.why = "none" /\ phase' = "running" /\ child' = "running" /\ attempts' = attempts
           /\ opened' = {}
           /\ scan' = [f \in Fds |-> IF collect = "pipes" THEN "read" ELSE "off"]
           /\ poller' = (IF collect = "poll" THEN "on" ELSE "off") /\ seen' = 0
  <2>1. Typed'
    BY <1>1, <1>3, <1>7 DEF IInv, Typed, Reads
  <2>2. LiveInAttempt'
    BY <1>1, <1>7, PolledTools DEF LiveInAttempt, Busy, tool
  <2>3. ToolsOfJob'
    BY <1>1, <1>7 DEF IInv, ToolsOfJob, Mocked
  <2>4. LogIsOwn'
    <3> SUFFICES ASSUME collect = "poll", job.engine # "fio" PROVE log'["progress"] = <<>>
      BY <1>1, <1>7 DEF LogIsOwn
    <3>1. 1 \in 1..Len(attempts)
      BY <1>1 DEF IInv, Typed
    <3>2. tool = "stratabench"
      BY <3>1, PolledTools DEF IInv, ToolsOfJob, tool, Polled
    <3> QED BY <1>2, <1>7, <3>2, WaysToStart, ProgressRemoved DEF IInv, Typed
  <2> QED BY <1>4, <1>5, <2>1, <2>2, <2>3, <2>4 DEF IInv
<1> QED BY <1>2, <1>6, <1>7

\* Run waits for the child: its exit becomes known.
LEMMA WaitChildStep ==
    ASSUME IInv, WaitChild
    PROVE  IInv' /\ ContractStep
<1>1. /\ phase = "running" /\ child # "running" /\ phase' = "joining"
      /\ UNCHANGED <<job, runNo, attempts, outcome, child, scan, poller, seen, log, opened, delivered>>
  BY DEF WaitChild, process, polling, workdir, given
<1>2. Typed'
  BY <1>1 DEF IInv, Typed
<1>3. LiveInAttempt' /\ ToolsOfJob' /\ LogIsOwn'
  BY <1>1 DEF IInv, LiveInAttempt, ToolsOfJob, LogIsOwn, Mocked, Busy, tool
<1>4. HonestOutcome' /\ OwnSamples'
  BY <1>1 DEF IInv, HonestOutcome, OwnSamples, Returned
<1>5. ContractStep
  BY <1>1 DEF ContractStep
<1> QED BY <1>2, <1>3, <1>4, <1>5 DEF IInv

\* Run returns only after its goroutines, with what a parser accepted.
LEMMA ConcludeStep ==
    ASSUME IInv, Conclude
    PROVE  IInv' /\ ContractStep
<1>1. /\ phase = "joining" /\ attempts # <<>> /\ tool # "mock" /\ child # "running"
      /\ poller # "on" /\ \A f \in Fds : scan[f] \notin Reads
      /\ UNCHANGED <<job, runNo, child, scan, poller, seen, log, opened, bench, text, delivered>>
  <2>1. phase = "joining" /\ Joined
    BY DEF Conclude
  <2>2. UNCHANGED <<job, runNo, child, scan, poller, seen, log, opened, bench, text, delivered>>
    BY DEF Conclude, Fails, process, reading, polling, workdir
  <2> QED BY <2>1, <2>2 DEF IInv, LiveInAttempt, Joined, Busy, Reads
<1>2. CASE Fails(IF child = "failed" THEN "exit" ELSE "parse")
  <2>1. attempts' = Tail(attempts) /\ phase' = "attempt" /\ outcome' = outcome
    BY <1>2 DEF Fails
  <2>2. Typed' /\ ToolsOfJob'
    BY <1>1, <2>1, FailedAttempt DEF IInv, Typed
  <2>3. LiveInAttempt' /\ LogIsOwn' /\ HonestOutcome' /\ OwnSamples'
    BY <1>1, <2>1 DEF IInv, LiveInAttempt, LogIsOwn, HonestOutcome, OwnSamples, Returned, Busy
  <2>4. ContractStep
    BY <1>1, <2>1 DEF ContractStep
  <2> QED BY <2>2, <2>3, <2>4 DEF IInv
<1>3. CASE /\ child = "ok" /\ Parses(tool) /\ attempts' = attempts
           /\ phase' = "returned" /\ outcome' = "ok"
  <2>1. Typed' /\ ToolsOfJob'
    BY <1>1, <1>3 DEF IInv, Typed, ToolsOfJob, Mocked
  <2>2. LiveInAttempt' /\ LogIsOwn' /\ OwnSamples'
    BY <1>1, <1>3 DEF IInv, LiveInAttempt, LogIsOwn, OwnSamples, Busy
  <2>3. \/ ResultFile(tool) \/ FromReports(tool)
        \/ \E i \in DOMAIN text : text[i] \in {"rate", "summary", "mixed"}
    BY <1>3, ResultsAreNumbers DEF Parses, Found, Garbled
  <2>4. HonestOutcome'
    BY <1>1, <1>3, <2>3 DEF HonestOutcome, tool, ResultFile, FromReports
  <2>5. ContractStep
    BY <1>1, <1>3 DEF ContractStep, Contract!Next, Contract!Return
  <2> QED BY <2>1, <2>2, <2>4, <2>5 DEF IInv
<1> QED BY <1>2, <1>3 DEF Conclude, ReturnFrom

-----------------------------------------------------------------------------
\* A sample of this run from its output.
LEMMA NewSampleType ==
    ASSUME IInv
    PROVE  /\ NewSample \in Samples
           /\ \A l \in DOMAIN NewSample : NewSample[l].of = runNo
<1>1. runNo \in Nat /\ Len(delivered) + 1 \in Nat
  BY DEF IInv, Typed
<1>2. Line(runNo, Len(delivered) + 1, "whole") \in Lines /\ Line(runNo, Len(delivered) + 1, "whole").of = runNo
  BY <1>1 DEF Line, Lines
<1>3. NewSample \in [{"output"} -> Lines] /\ {"output"} \in SUBSET (Logs \cup {"output"})
  BY <1>2 DEF NewSample
<1> QED BY <1>2, <1>3 DEF NewSample, Samples

\* One more sample of this run.
LEMMA OneSample ==
    ASSUME IInv, phase \notin {"idle", "returned"}, phase' = phase, outcome' = outcome,
           job' = job, runNo' = runNo, delivered' = Append(delivered, NewSample)
    PROVE  delivered' \in Seq(Samples) /\ OwnSamples' /\ ContractStep
<1>1. delivered \in Seq(Samples) /\ NewSample \in Samples
  BY NewSampleType DEF IInv, Typed
<1>2. /\ delivered' \in Seq(Samples) /\ Len(delivered') = Len(delivered) + 1
      /\ \A i \in 1..Len(delivered) : delivered'[i] = delivered[i]
      /\ delivered'[Len(delivered) + 1] = NewSample
  BY <1>1, AppendProperties
<1>3. Len(delivered) \in Nat /\ DOMAIN delivered = 1..Len(delivered) /\ DOMAIN delivered' = 1..Len(delivered')
  BY <1>1, <1>2
<1>4. OwnSamples'
  <2> SUFFICES ASSUME job.engine # "fio", NEW i \in 1..Len(delivered')
               PROVE  \A l \in DOMAIN delivered'[i] : delivered'[i][l].of = runNo
    BY <1>3 DEF OwnSamples
  <2>1. \A k \in 1..Len(delivered) : \A l \in DOMAIN delivered[k] : delivered[k][l].of = runNo
    BY <1>3 DEF IInv, OwnSamples
  <2>2. i \in 1..Len(delivered) \/ i = Len(delivered) + 1
    BY <1>2, <1>3
  <2> QED BY <1>2, <2>1, <2>2, NewSampleType
<1>5. Contract!Emit
  BY <1>2, <1>3 DEF Contract!Emit
<1> QED BY <1>2, <1>4, <1>5 DEF ContractStep, Contract!Next

\* The mock delivers a sample of its own, or ends.
LEMMA MockStep ==
    ASSUME IInv, MockTick \/ MockEnds
    PROVE  IInv' /\ ContractStep
<1>1. CASE MockTick
  <2>1. /\ phase = "attempt" /\ delivered' = Append(delivered, NewSample)
        /\ UNCHANGED <<job, runNo, attempts, phase, outcome, child, scan, poller, seen, log, opened>>
    BY <1>1 DEF MockTick, control, process, reading, polling, workdir
  <2>2. delivered' \in Seq(Samples) /\ OwnSamples' /\ ContractStep
    BY <2>1, OneSample
  <2>3. Typed'
    BY <2>1, <2>2 DEF IInv, Typed
  <2>4. LiveInAttempt' /\ ToolsOfJob' /\ LogIsOwn' /\ HonestOutcome'
    BY <2>1 DEF IInv, LiveInAttempt, ToolsOfJob, LogIsOwn, HonestOutcome, Returned, Mocked, Busy
  <2> QED BY <2>2, <2>3, <2>4 DEF IInv
<1>2. CASE MockEnds
  <2>1. /\ phase = "attempt" /\ attempts # <<>> /\ tool = "mock"
        /\ phase' = "returned" /\ outcome' \in {"ok", "error"}
        /\ UNCHANGED <<job, runNo, attempts, child, scan, poller, seen, log, opened, delivered>>
    BY <1>2 DEF MockEnds, ReturnFrom, process, reading, polling, workdir, given
  <2>2. Typed'
    BY <2>1 DEF IInv, Typed
  <2>3. 1 \in 1..Len(attempts)
    BY <2>1 DEF IInv, Typed
  <2>4. Mocked
    BY <2>1, <2>3 DEF IInv, ToolsOfJob, tool
  <2>5. LiveInAttempt' /\ ToolsOfJob' /\ LogIsOwn' /\ HonestOutcome' /\ OwnSamples'
    BY <2>1, <2>4 DEF IInv, LiveInAttempt, ToolsOfJob, LogIsOwn, HonestOutcome, OwnSamples, Mocked, Busy
  <2>6. ContractStep
    BY <2>1 DEF ContractStep, Contract!Next, Contract!Return
  <2> QED BY <2>2, <2>5, <2>6 DEF IInv
<1> QED BY <1>1, <1>2

-----------------------------------------------------------------------------
WritesFile(l) == OpenLog(l) \/ WriteSample(l) \/ EndLine(l)

\* The tool opens one of its files, adds a line to one, or ends a line.
LEMMA FileStep ==
    ASSUME IInv, NEW l \in Logs, WritesFile(l)
    PROVE  /\ child = "running" /\ collect = "poll"
           /\ log' \in [Logs -> Seq(Lines)] /\ opened' \in SUBSET Logs
           /\ \A k \in Logs \ {l} : log'[k] = log[k] /\ (k \in opened' <=> k \in opened)
           /\ UNCHANGED <<control, child, wrote, scan, poller, seen, given, tail>>
           /\ \/ l \notin opened /\ l \in opened' /\ log'[l] = <<>>
              \/ /\ l \in opened /\ l \in opened'
                 /\ Len(log'[l]) = Len(log[l]) + 1
                 /\ \A i \in 1..Len(log[l]) : log'[l][i] = log[l][i]
                 /\ \E how \in Pieces : log'[l][Len(log[l]) + 1] = Line(runNo, Len(log[l]) + 1, how)
              \/ /\ l \in opened /\ l \in opened'
                 /\ Len(log'[l]) = Len(log[l]) /\ log[l] # <<>> /\ log[l][Len(log[l])].how # "whole"
                 /\ \A i \in 1..Len(log[l]) : i # Len(log[l]) => log'[l][i] = log[l][i]
                 /\ log'[l][Len(log[l])] = [log[l][Len(log[l])] EXCEPT !.how = "whole"]
<1>1. log \in [Logs -> Seq(Lines)] /\ log[l] \in Seq(Lines) /\ Len(log[l]) \in Nat /\ runNo \in Nat
      /\ opened \in SUBSET Logs
  BY DEF IInv, Typed
<1>2. \A new \in Seq(Lines) : WriteTo(l, new) =>
         /\ log' \in [Logs -> Seq(Lines)] /\ log'[l] = new /\ \A k \in Logs \ {l} : log'[k] = log[k]
         /\ child = "running" /\ collect = "poll"
         /\ UNCHANGED <<control, child, wrote, scan, poller, seen, given, tail>>
  BY <1>1 DEF WriteTo, reading, polling
<1>3. CASE OpenLog(l)
  <2>1. <<>> \in Seq(Lines)
    OBVIOUS
  <2> QED BY <1>1, <1>2, <1>3, <2>1 DEF OpenLog
<1>4. CASE WriteSample(l)
  <2>1. l \in opened /\ opened' = opened
    BY <1>4 DEF WriteSample
  <2>2. PICK how \in Pieces : WriteTo(l, Append(log[l], Line(runNo, Len(log[l]) + 1, how)))
    BY <1>4 DEF WriteSample
  <2>3. Line(runNo, Len(log[l]) + 1, how) \in Lines
    BY <1>1 DEF Line, Lines, Pieces
  <2> DEFINE new == Append(log[l], Line(runNo, Len(log[l]) + 1, how))
  <2>4. /\ new \in Seq(Lines) /\ Len(new) = Len(log[l]) + 1
        /\ \A i \in 1..Len(log[l]) : new[i] = log[l][i]
        /\ new[Len(log[l]) + 1] = Line(runNo, Len(log[l]) + 1, how)
    BY <1>1, <2>3, AppendProperties
  <2> HIDE DEF new
  <2>5. WriteTo(l, new)
    BY <2>2 DEF new
  <2>6. /\ log' \in [Logs -> Seq(Lines)] /\ log'[l] = new /\ \A k \in Logs \ {l} : log'[k] = log[k]
        /\ child = "running" /\ collect = "poll"
        /\ UNCHANGED <<control, child, wrote, scan, poller, seen, given, tail>>
    BY <1>2, <2>4, <2>5
  <2> QED BY <1>1, <2>1, <2>4, <2>6
<1>5. CASE EndLine(l)
  <2> DEFINE new == [log[l] EXCEPT ![Len(log[l])].how = "whole"]
  <2>1. l \in opened /\ opened' = opened /\ log[l] # <<>> /\ log[l][Len(log[l])].how # "whole"
        /\ WriteTo(l, new)
    BY <1>5 DEF EndLine, Half
  <2>2. Len(log[l]) \in 1..Len(log[l]) /\ log[l][Len(log[l])] \in Lines /\ DOMAIN log[l] = 1..Len(log[l])
        /\ log[l] \in [1..Len(log[l]) -> Lines]
    BY <1>1, <2>1, EmptySeq
  <2>3. [log[l][Len(log[l])] EXCEPT !.how = "whole"] \in Lines
    BY <2>2 DEF Lines
  <2>4. /\ new[Len(log[l])] = [log[l][Len(log[l])] EXCEPT !.how = "whole"]
        /\ \A i \in 1..Len(log[l]) : i # Len(log[l]) => new[i] = log[l][i]
        /\ new \in [1..Len(log[l]) -> Lines]
    BY <2>2, <2>3
  <2>5. new \in Seq(Lines) /\ Len(new) = Len(log[l])
    BY <1>1, <2>4
  <2> HIDE DEF new
  <2>6. /\ log' \in [Logs -> Seq(Lines)] /\ log'[l] = new /\ \A k \in Logs \ {l} : log'[k] = log[k]
        /\ child = "running" /\ collect = "poll"
        /\ UNCHANGED <<control, child, wrote, scan, poller, seen, given, tail>>
    BY <1>2, <2>1, <2>5
  <2> QED BY <1>1, <2>1, <2>4, <2>5, <2>6
<1> QED BY <1>3, <1>4, <1>5 DEF WritesFile

\* What a step on a file makes of a line: it stays as it was, apart from its end,
\* or is of this run.
LEMMA FileLines ==
    ASSUME IInv, NEW l \in Logs, WritesFile(l), NEW k \in Logs, NEW i \in 1..Len(log'[k])
    PROVE  \/ log'[k][i].of = runNo
           \/ i \in 1..Len(log[k]) /\ log'[k][i].of = log[k][i].of
<1>1. CASE k # l
  <2>1. log'[k] = log[k]
    BY <1>1, FileStep
  <2>2. i \in 1..Len(log'[k])
    OBVIOUS
  <2>3. i \in 1..Len(log[k]) /\ log'[k][i].of = log[k][i].of
    BY <2>1, <2>2, Zenon
  <2> QED BY <2>3
<1>2. CASE k = l
  <2>1. log[l] \in Seq(Lines) /\ Len(log[l]) \in Nat /\ log'[l] \in Seq(Lines)
    <3>1. log' \in [Logs -> Seq(Lines)]
      BY FileStep
    <3>2. log \in [Logs -> Seq(Lines)]
      BY DEF IInv, Typed
    <3> QED BY <3>1, <3>2
  <2>2. CASE log'[l] = <<>>
    BY <1>2, <2>2
  <2>3. CASE /\ Len(log'[l]) = Len(log[l]) + 1
             /\ \A j \in 1..Len(log[l]) : log'[l][j] = log[l][j]
             /\ \E how \in Pieces : log'[l][Len(log[l]) + 1] = Line(runNo, Len(log[l]) + 1, how)
    <3>1. i \in 1..Len(log[l]) \/ i = Len(log[l]) + 1
      BY <1>2, <2>1, <2>3
    <3>2. log'[l][Len(log[l]) + 1].of = runNo
      BY <2>3 DEF Line
    <3> QED BY <1>2, <2>3, <3>1, <3>2
  <2>4. CASE /\ Len(log'[l]) = Len(log[l])
             /\ \A j \in 1..Len(log[l]) : j # Len(log[l]) => log'[l][j] = log[l][j]
             /\ log'[l][Len(log[l])] = [log[l][Len(log[l])] EXCEPT !.how = "whole"]
    <3>1. i \in 1..Len(log[l])
      BY <1>2, <2>4
    <3>2. log[l][i] \in Lines
      BY <2>1, <3>1
    <3>3. [log[l][i] EXCEPT !.how = "whole"].of = log[l][i].of
      BY <3>2 DEF Lines
    <3> QED BY <1>2, <2>4, <3>1, <3>3
  <2> QED BY <2>2, <2>3, <2>4, FileStep
<1> QED BY <1>1, <1>2

\* The context ends, or the child goes on: Run does not see it yet.
LEMMA ChildKeepsIInv ==
    ASSUME IInv, Cancel \/ ChildStep
    PROVE  IInv' /\ ContractStep
<1>1. /\ UNCHANGED <<job, runNo, attempts, phase, outcome, scan, poller, seen, delivered>>
      /\ child' \in {child, "ok", "failed"}
      /\ phase # "returned"
      /\ (UNCHANGED <<log, opened>>) \/ \E l \in Logs : WritesFile(l)
  <2>1. CASE Cancel
    BY <2>1 DEF Cancel, process, reading, polling, workdir, given
  <2>2. CASE ChildStep
    <3>1. child = "running"
      BY <2>2 DEF ChildStep, Finish, Crash, Kill, Exits, OpenLog, WriteSample, EndLine, WriteTo,
                  WriteBenchData, PrintLine
    <3>2. phase # "returned"
      BY <3>1 DEF IInv, LiveInAttempt
    <3>3. CASE Finish \/ Crash \/ Kill
      BY <3>2, <3>3 DEF Finish, Crash, Kill, Exits, control, reading, polling, workdir, given
    <3>4. CASE \E l \in Logs : WritesFile(l)
      <4>1. PICK l \in Logs : WritesFile(l)
        BY <3>4
      <4>2. UNCHANGED <<control, child, scan, poller, seen, given>>
        BY <4>1, FileStep
      <4> QED BY <3>2, <3>4, <4>2 DEF control, given
    <3>5. CASE WriteBenchData
      BY <3>2, <3>5 DEF WriteBenchData, control, reading, polling, process, given
    <3>6. CASE \E f \in Fds, k \in Kinds : PrintLine(f, k)
      BY <3>2, <3>6 DEF PrintLine, control, polling, workdir, given
    <3> QED BY <2>2, <3>3, <3>4, <3>5, <3>6 DEF ChildStep, WritesFile
  <2> QED BY <2>1, <2>2
<1>2. log' \in [Logs -> Seq(Lines)] /\ opened' \in SUBSET Logs
  <2>1. CASE UNCHANGED <<log, opened>>
    BY <2>1 DEF IInv, Typed
  <2>2. CASE \E l \in Logs : WritesFile(l)
    BY <2>2, FileStep
  <2> QED BY <1>1, <2>1, <2>2
<1>4. Typed'
  BY <1>1, <1>2 DEF IInv, Typed
<1>5. LiveInAttempt' /\ ToolsOfJob' /\ HonestOutcome' /\ OwnSamples'
  BY <1>1 DEF IInv, LiveInAttempt, ToolsOfJob, HonestOutcome, OwnSamples, Returned, Mocked, tool, Busy
<1>6. LogIsOwn'
  <2> SUFFICES ASSUME poller = "on", job.engine # "fio", NEW i \in 1..Len(log'["progress"])
               PROVE  log'["progress"][i].of = runNo
    BY <1>1 DEF LogIsOwn
  <2>1. \A k \in 1..Len(log["progress"]) : log["progress"][k].of = runNo
    BY DEF IInv, LogIsOwn
  <2>2. "progress" \in Logs
    BY DEF Logs
  <2>3. CASE UNCHANGED <<log, opened>>
    BY <2>1, <2>3
  <2>4. CASE \E l \in Logs : WritesFile(l)
    BY <2>1, <2>2, <2>4, FileLines
  <2> QED BY <1>1, <2>3, <2>4
<1>7. ContractStep
  BY <1>1 DEF ContractStep
<1> QED BY <1>4, <1>5, <1>6, <1>7 DEF IInv

\* A scanner works on while Run is in its attempt.
LEMMA ScanKeepsIInv ==
    ASSUME IInv, NEW f \in Fds, ScanStep(f)
    PROVE  IInv' /\ ContractStep
<1>1. /\ scan[f] \in Reads
      /\ \E t \in {"done"} \cup Reads : scan' = [scan EXCEPT ![f] = t]
      /\ UNCHANGED <<job, runNo, attempts, phase, outcome, child, poller, seen, log, opened>>
      /\ delivered' = delivered \/ delivered' = Append(delivered, NewSample)
  <2>1. CASE BeginAppend(f)
    BY <2>1 DEF BeginAppend, Reads, control, process, polling, workdir, given
  <2>2. CASE EndAppend(f)
    BY <2>2 DEF EndAppend, AfterLine, Reads, control, process, polling, workdir, given
  <2>3. CASE OnInterval(f)
    BY <2>3 DEF OnInterval, AfterLine, Reads, control, process, polling, workdir
  <2>4. CASE ScanEnds(f)
    BY <2>4 DEF ScanEnds, Reads, control, process, polling, workdir, given
  <2> QED BY <2>1, <2>2, <2>3, <2>4 DEF ScanStep
<1>2. phase \in Busy
  BY <1>1 DEF IInv, LiveInAttempt
<1>3. delivered' \in Seq(Samples) /\ OwnSamples' /\ ContractStep
  <2>1. CASE delivered' = delivered
    BY <1>1, <2>1 DEF IInv, Typed, OwnSamples, ContractStep
  <2>2. CASE delivered' = Append(delivered, NewSample)
    BY <1>1, <1>2, <2>2, OneSample DEF Busy
  <2> QED BY <1>1, <2>1, <2>2
<1>4. Typed'
  BY <1>1, <1>3 DEF IInv, Typed
<1>5. LiveInAttempt' /\ ToolsOfJob' /\ LogIsOwn' /\ HonestOutcome'
  BY <1>1, <1>2 DEF IInv, LiveInAttempt, ToolsOfJob, LogIsOwn, HonestOutcome, Returned, Mocked, tool, Busy
<1> QED BY <1>3, <1>4, <1>5 DEF IInv

\* What a sequence has after its first k elements.
LEMMA RestOfSequence ==
    ASSUME NEW S, NEW s \in Seq(S), NEW k \in Nat
    PROVE  /\ SubSeq(s, k + 1, Len(s)) \in Seq(S) /\ Len(SubSeq(s, k + 1, Len(s))) \in Nat
           /\ k <= Len(s) => Len(SubSeq(s, k + 1, Len(s))) = Len(s) - k
           /\ \A i \in 1..Len(SubSeq(s, k + 1, Len(s))) :
                 k + i \in 1..Len(s) /\ SubSeq(s, k + 1, Len(s))[i] = s[k + i]
<1> DEFINE r == SubSeq(s, k + 1, Len(s))
<1>1. k + 1 \in Int /\ Len(s) \in Nat /\ \A i \in k + 1 .. Len(s) : s[i] \in S
  <2>1. \A i \in k + 1 .. Len(s) : i \in 1 .. Len(s)
    OBVIOUS
  <2> QED BY <2>1, ElementOfSeq
<1>2. /\ r \in Seq(S)
      /\ Len(r) = IF k + 1 <= Len(s) THEN Len(s) - (k + 1) + 1 ELSE 0
      /\ \A i \in 1 .. Len(s) - (k + 1) + 1 : r[i] = s[k + 1 + i - 1]
  BY <1>1, SubSeqProperties
<1> HIDE DEF r
<1>3. Len(r) \in Nat /\ \A i \in 1..Len(r) :
         i \in 1 .. Len(s) - (k + 1) + 1 /\ k + 1 + i - 1 = k + i /\ k + i \in 1..Len(s)
  BY <1>1, <1>2
<1>4. r \in Seq(S) /\ Len(r) \in Nat /\ \A i \in 1..Len(r) : k + i \in 1..Len(s) /\ r[i] = s[k + i]
  BY <1>2, <1>3
<1>5. k <= Len(s) => Len(r) = Len(s) - k
  <2>1. Len(r) = IF k + 1 <= Len(s) THEN Len(s) - (k + 1) + 1 ELSE 0
    BY <1>2
  <2> QED BY <1>1, <2>1
<1> QED BY <1>4, <1>5 DEF r

\* The series of some files: their positions are a prefix of the naturals.
Keys(g, L)  == UNION {DOMAIN g[l] : l \in L}
Merge(g, L) == [i \in Keys(g, L) |-> [l \in L |-> IF i \in DOMAIN g[l] THEN g[l][i] ELSE NoLine]]

LEMMA MergeIsSeries ==
    ASSUME NEW g \in [Logs -> Seq(Lines)], NEW L \in {{"iops", "bw"}, {"progress"}}
    PROVE  /\ Merge(g, L) \in Seq(Samples) /\ Len(Merge(g, L)) \in Nat
           /\ \A l \in L : Len(g[l]) \in Nat /\ Len(g[l]) <= Len(Merge(g, L))
           /\ \E l \in L : Len(g[l]) = Len(Merge(g, L))
           /\ \A i \in 1..Len(Merge(g, L)) :
                Merge(g, L)[i] = [l \in L |-> IF i \in 1..Len(g[l]) THEN g[l][i] ELSE NoLine]
<1>1. L \subseteq Logs /\ \A l \in L : g[l] \in Seq(Lines) /\ Len(g[l]) \in Nat /\ DOMAIN g[l] = 1..Len(g[l])
  BY DEF Logs
<1>2. PICK top \in L : \A l \in L : Len(g[l]) <= Len(g[top])
  <2>1. CASE L = {"progress"}
    BY <1>1, <2>1
  <2>2. CASE L = {"iops", "bw"}
    <3>1. CASE Len(g["iops"]) <= Len(g["bw"])
      <4>1. "bw" \in L /\ \A l \in L : Len(g[l]) <= Len(g["bw"])
        BY <1>1, <2>2, <3>1
      <4> QED BY <4>1
    <3>2. CASE ~(Len(g["iops"]) <= Len(g["bw"]))
      <4>1. "iops" \in L /\ \A l \in L : Len(g[l]) <= Len(g["iops"])
        BY <1>1, <2>2, <3>2
      <4> QED BY <4>1
    <3> QED BY <3>1, <3>2
  <2> QED BY <2>1, <2>2
<1> DEFINE n == Len(g[top])
<1>3. n \in Nat /\ \A l \in L : \A i \in 1..Len(g[l]) : i \in 1..n
  BY <1>1, <1>2
<1>4. Keys(g, L) = 1..n
  <2>1. \A i \in Keys(g, L) : i \in 1..n
    BY <1>1, <1>3 DEF Keys
  <2>2. \A i \in 1..n : i \in Keys(g, L)
    BY <1>1 DEF Keys
  <2> QED BY <2>1, <2>2
<1> HIDE DEF n
<1> DEFINE at(i) == [l \in L |-> IF i \in 1..Len(g[l]) THEN g[l][i] ELSE NoLine]
<1>5. Merge(g, L) = [i \in 1..n |-> at(i)]
  <2>1. \A i \in 1..n : [l \in L |-> IF i \in DOMAIN g[l] THEN g[l][i] ELSE NoLine] = at(i)
    BY <1>1
  <2> HIDE DEF at
  <2> QED BY <1>4, <2>1 DEF Merge
<1>6. \A i \in 1..n : at(i) \in Samples
  <2> TAKE i \in 1..n
  <2>1. NoLine \in Lines
    BY DEF NoLine, Line, Lines
  <2>2. \A l \in L : (IF i \in 1..Len(g[l]) THEN g[l][i] ELSE NoLine) \in Lines
    BY <1>1, <2>1, ElementOfSeq
  <2>3. at(i) \in [L -> Lines]
    BY <2>2
  <2>4. L \in SUBSET (Logs \cup {"output"})
    BY <1>1
  <2> HIDE DEF at
  <2> QED BY <2>3, <2>4 DEF Samples
<1> HIDE DEF at
<1>7. Merge(g, L) \in [1..n -> Samples]
  BY <1>5, <1>6
<1>8. Merge(g, L) \in Seq(Samples) /\ Len(Merge(g, L)) = n
  BY <1>3, <1>7
<1>9. \A i \in 1..n : Merge(g, L)[i] = at(i)
  BY <1>5
<1> QED BY <1>1, <1>2, <1>3, <1>8, <1>9 DEF at, n

\* What a poller sees is the series of the files of its tool.
LEMMA SeriesMerged ==
    /\ LogsOf \in {{"iops", "bw"}, {"progress"}}
    /\ Series = Merge(log, LogsOf) /\ Unsent = SubSeq(Series, seen + 1, Len(Series))
<1>1. Series = Merge(log, LogsOf)
  BY DEF Series, Merge, mapKeys, Keys
<1> QED BY <1>1 DEF LogsOf, Unsent

LEMMA SeriesType ==
    ASSUME IInv
    PROVE  /\ Series \in Seq(Samples) /\ Len(Series) \in Nat
           /\ \A l \in LogsOf : Len(log[l]) \in Nat /\ Len(log[l]) <= Len(Series)
           /\ \E l \in LogsOf : Len(log[l]) = Len(Series)
           /\ \A i \in 1..Len(Series) :
                Series[i] = [l \in LogsOf |-> IF i \in 1..Len(log[l]) THEN log[l][i] ELSE NoLine]
<1>1. log \in [Logs -> Seq(Lines)] /\ LogsOf \in {{"iops", "bw"}, {"progress"}}
  BY SeriesMerged DEF IInv, Typed
<1>2. Series = Merge(log, LogsOf)
  BY SeriesMerged
<1>3. /\ Merge(log, LogsOf) \in Seq(Samples) /\ Len(Merge(log, LogsOf)) \in Nat
      /\ \A l \in LogsOf : Len(log[l]) \in Nat /\ Len(log[l]) <= Len(Merge(log, LogsOf))
      /\ \E l \in LogsOf : Len(log[l]) = Len(Merge(log, LogsOf))
      /\ \A i \in 1..Len(Merge(log, LogsOf)) :
           Merge(log, LogsOf)[i] = [l \in LogsOf |-> IF i \in 1..Len(log[l]) THEN log[l][i] ELSE NoLine]
  BY <1>1, MergeIsSeries
<1> QED BY <1>2, <1>3

\* A poller hands over what the files have beyond what it has seen.
LEMMA PollKeepsIInv ==
    ASSUME IInv, PollStep
    PROVE  IInv' /\ ContractStep
<1>1. /\ poller = "on" /\ poller' \in {"on", "done"} /\ seen' \in {seen, Len(Series)}
      /\ delivered' = delivered \o Unsent
      /\ UNCHANGED <<job, runNo, attempts, phase, outcome, child, scan, log, opened>>
  BY DEF PollStep, PollTick, PollEnds, Flush, control, process, reading, workdir
<1>2. phase \in Busy
  BY <1>1 DEF IInv, LiveInAttempt
<1>3. Series \in Seq(Samples) /\ delivered \in Seq(Samples) /\ seen \in Nat /\ Len(Series) \in Nat
      /\ Len(delivered) \in Nat
  BY SeriesType DEF IInv, Typed
<1>4. /\ Unsent \in Seq(Samples) /\ Len(Unsent) \in Nat
      /\ \A i \in 1..Len(Unsent) : seen + i \in 1..Len(Series) /\ Unsent[i] = Series[seen + i]
  <2> HIDE DEF Unsent, Series
  <2>1. Unsent = SubSeq(Series, seen + 1, Len(Series))
    BY SeriesMerged
  <2> QED BY <1>3, <2>1, RestOfSequence
<1>5. /\ delivered' \in Seq(Samples) /\ Len(delivered') = Len(delivered) + Len(Unsent)
      /\ \A i \in 1..Len(delivered') :
           delivered'[i] = IF i <= Len(delivered) THEN delivered[i] ELSE Unsent[i - Len(delivered)]
  BY <1>1, <1>3, <1>4, ConcatProperties
<1>6. OwnSamples'
  <2> SUFFICES ASSUME job.engine # "fio", NEW i \in 1..Len(delivered')
               PROVE  \A l \in DOMAIN delivered'[i] : delivered'[i][l].of = runNo
    <3>1. DOMAIN delivered' = 1..Len(delivered')
      BY <1>5
    <3> QED BY <1>1, <3>1 DEF OwnSamples
  <2>1. \A k \in 1..Len(delivered) : \A l \in DOMAIN delivered[k] : delivered[k][l].of = runNo
    BY <1>3 DEF IInv, OwnSamples
  <2>2. \A k \in 1..Len(Unsent) : \A l \in DOMAIN Unsent[k] : Unsent[k][l].of = runNo
    <3> SUFFICES ASSUME NEW k \in 1..Len(Unsent) PROVE \A l \in DOMAIN Unsent[k] : Unsent[k][l].of = runNo
      OBVIOUS
    <3>1. LogsOf = {"progress"}
      BY DEF LogsOf
    <3>2. seen + k \in 1..Len(Series) /\ Unsent[k] = Series[seen + k]
      BY <1>4
    <3>3. Len(log["progress"]) = Len(Series)
      BY <3>1, SeriesType
    <3>4. Series[seen + k] = [l \in {"progress"} |-> log["progress"][seen + k]]
      <4>1. Series[seen + k] =
              [l \in {"progress"} |-> IF seen + k \in 1..Len(log[l]) THEN log[l][seen + k] ELSE NoLine]
        BY <3>1, <3>2, SeriesType
      <4> QED BY <3>2, <3>3, <4>1
    <3>5. log["progress"][seen + k].of = runNo
      BY <1>1, <3>2, <3>3 DEF IInv, LogIsOwn
    <3> QED BY <3>2, <3>4, <3>5
  <2>3. CASE i <= Len(delivered)
    BY <1>3, <1>5, <2>1, <2>3
  <2>4. CASE ~(i <= Len(delivered))
    <3>1. i - Len(delivered) \in 1..Len(Unsent)
      BY <1>3, <1>4, <1>5, <2>4
    <3> QED BY <1>5, <2>2, <2>4, <3>1
  <2> QED BY <2>3, <2>4
<1>7. ContractStep
  <2>1. CASE Len(Unsent) = 0
    BY <1>1, <1>3, <1>5, <2>1 DEF ContractStep
  <2>2. CASE Len(Unsent) > 0
    <3>1. Contract!Emit
      BY <1>1, <1>2, <1>3, <1>4, <1>5, <2>2 DEF Contract!Emit, Busy
    <3> QED BY <3>1 DEF ContractStep, Contract!Next
  <2> QED BY <1>4, <2>1, <2>2
<1>8. Typed'
  BY <1>1, <1>3, <1>5 DEF IInv, Typed
<1>9. LiveInAttempt' /\ ToolsOfJob' /\ LogIsOwn' /\ HonestOutcome'
  BY <1>1, <1>2 DEF IInv, LiveInAttempt, ToolsOfJob, LogIsOwn, HonestOutcome, Returned, Mocked, tool, Busy
<1> QED BY <1>6, <1>7, <1>8, <1>9 DEF IInv

-----------------------------------------------------------------------------
\* Every step keeps the invariant, and is a step or a stutter of the contract.
LEMMA StepIInv == IInv /\ [Next]_vars => IInv' /\ ContractStep
<1> SUFFICES ASSUME IInv, [Next]_vars PROVE IInv' /\ ContractStep
  OBVIOUS
<1>1. CASE RunStep
  BY <1>1, CallStep, GiveUpStep, StartToolStep, WaitChildStep, ConcludeStep, MockStep DEF RunStep
<1>2. CASE Cancel \/ ChildStep
  BY <1>2, ChildKeepsIInv
<1>3. CASE \E f \in Fds : ScanStep(f)
  BY <1>3, ScanKeepsIInv
<1>4. CASE PollStep
  BY <1>4, PollKeepsIInv
<1>5. CASE UNCHANGED vars
  <2>1. UNCHANGED <<job, runNo, attempts, phase, outcome, child, scan, poller, seen, log, opened,
                    bench, text, delivered>>
    BY <1>5 DEF vars, control, process, reading, polling, workdir, given
  <2>2. Typed' /\ LiveInAttempt' /\ ToolsOfJob' /\ LogIsOwn' /\ OwnSamples'
    BY <2>1 DEF IInv, Typed, LiveInAttempt, ToolsOfJob, LogIsOwn, OwnSamples, Mocked, tool
  <2>3. HonestOutcome'
    BY <2>1 DEF IInv, HonestOutcome, Returned, Mocked, tool, ResultFile, FromReports
  <2>4. ContractStep
    BY <2>1 DEF ContractStep
  <2> QED BY <2>2, <2>3, <2>4 DEF IInv
<1> QED BY <1>1, <1>2, <1>3, <1>4, <1>5 DEF Next

\* The inductive invariant holds of every run of every request, with
\* no assumption on what the tools print or how they exit.
THEOREM Invariance == SafeSpec => []IInv
<1>1. Init => IInv
  BY InitIInv
<1>2. IInv /\ [Next]_vars => IInv'
  BY StepIInv
<1> QED BY <1>1, <1>2, PTL DEF SafeSpec

\* No runner invents a result: what a run that was not asked to be mocked
\* reports was printed, or written to a file, by a tool that exited with
\* status 0, or made of such lines by the race of two scanners (the parsers and
\* the exit checks of internal/engine, the shared outBuf).
THEOREM ResultsAreHonest == SafeSpec => []HonestOutcome
<1>1. IInv => HonestOutcome
  BY DEF IInv
<1> QED BY <1>1, Invariance, PTL

\* Live samples are this run's, except fio's (the progress file is removed
\* before the native engine starts).
THEOREM SamplesAreOwn == SafeSpec => []OwnSamples
<1>1. IInv => OwnSamples
  BY DEF IInv
<1> QED BY <1>1, Invariance, PTL

\* The runner keeps the contract that the orchestrator relies on: no callback
\* before Run is called or after it has returned.
THEOREM KeepsContract == SafeSpec => ImplementsContract
<1>1. Init => Contract!Init
  BY DEF Init, Contract!Init
<1>2. IInv /\ [Next]_vars => ContractStep
  BY StepIInv
<1> QED BY <1>1, <1>2, Invariance, PTL DEF SafeSpec, ImplementsContract, Contract!Spec, ContractStep

-----------------------------------------------------------------------------
(* What a poller has delivered.  Until the tool opens a file it holds older  *)
(* lines or nothing; from then on this run's only.  As long as nothing old   *)
(* was taken for a line of this run, the samples delivered are as many as    *)
(* the poller has seen, and each line shown is the one in the file, or half  *)
(* of it, or was not there; and the last flush comes after the tool has      *)
(* exited, unless the caller's context has ended.                            *)

AllOlder == \A l \in Logs : \A i \in 1..Len(log[l]) : log[l][i].of < runNo

Attempted ==
    /\ wrote \in Nat /\ tail \in BOOLEAN /\ runNo >= 1
    /\ \A l \in Logs : \A i \in 1..Len(log[l]) : 1 <= log[l][i].of /\ log[l][i].of <= runNo
    /\ phase = "idle" => \A l \in Logs : log[l] = <<>>
    /\ tail => phase # "running"
    /\ \A i \in 1..Len(attempts) : attempts[i] \in Polled => Len(attempts) = 1

\* A polled tool is the first that its request tries.
NothingPolled ==
    phase = "attempt" /\ attempts # <<>> =>
        /\ poller = "off"
        /\ tool \in Polled => delivered = <<>> /\ AllOlder

\* What a tool's file has at each place.
FilesAre ==
    \A l \in LogsOf : \A i \in 1..Len(log[l]) :
        IF l \in opened THEN \E how \in Pieces : log[l][i] = Line(runNo, i, how)
                       ELSE log[l][i].of < runNo

\* A line that was shown is in the file, or was not complete (only fio's).
Shown(i, l) ==
    \/ i \in 1..Len(log[l]) /\ delivered[i][l] = log[l][i]
    \/ job.engine = "fio" /\ delivered[i][l].how \in {"none", "cut"}

Streamed(k) ==
    NothingOld =>
        /\ Len(delivered) = k /\ k <= Len(Series)
        /\ k > 0 => \A l \in LogsOf : l \notin opened => log[l] = <<>>
        /\ \A i \in 1..k : DOMAIN delivered[i] = LogsOf /\ \A l \in LogsOf : Shown(i, l)

WhatIsPolled ==
    phase \in Busy =>
        /\ poller # "off" <=> collect = "poll"
        /\ collect = "poll" =>
             /\ \A f \in Fds : scan[f] = "off"
             /\ FilesAre
             /\ poller = "on" => Streamed(seen)
             /\ poller = "done" /\ ~cancelled => child # "running" /\ Streamed(Len(Series))

PInv == Attempted /\ NothingPolled /\ WhatIsPolled /\ CaughtUp

\* Nothing has been asked for.
LEMMA InitPInv == Init => PInv
<1> SUFFICES ASSUME Init PROVE PInv
  OBVIOUS
<1>1. Attempted
  <2>1. wrote = 0 /\ tail = FALSE /\ runNo = 1 /\ attempts = <<>> /\ phase = "idle"
        /\ log = [l \in Logs |-> <<>>]
    BY DEF Init
  <2>2. wrote \in Nat /\ tail \in BOOLEAN /\ runNo >= 1
    <3>1. wrote = 0 /\ runNo = 1
      BY <2>1, Zenon
    <3>2. wrote \in Nat /\ runNo >= 1
      BY <3>1
    <3>3. tail \in BOOLEAN
      BY <2>1, Zenon
    <3> QED BY <3>2, <3>3, Zenon
  <2>3. \A l \in Logs : log[l] = <<>>
    BY <2>1, Zenon
  <2>4. 1..Len(attempts) = {} /\ \A l \in Logs : 1..Len(log[l]) = {}
    <3>1. Len(<<>>) = 0 /\ Len(attempts) = 0
      BY <2>1, EmptySeq
    <3> QED BY <2>3, <3>1
  <2> QED BY <2>1, <2>2, <2>3, <2>4 DEF Attempted
<1>2. phase = "idle"
  BY DEF Init
<1>3. NothingPolled /\ WhatIsPolled /\ CaughtUp
  BY <1>2 DEF NothingPolled, WhatIsPolled, CaughtUp, Busy, Returned
<1> QED BY <1>1, <1>3 DEF PInv

\* A request that tries a polled tool tries nothing else (ForProfile).
LEMMA PolledAlone ==
    ASSUME NEW j \in Jobs, NEW i \in 1..Len(ForProfile(j)), ForProfile(j)[i] \in Polled
    PROVE  Len(ForProfile(j)) = 1
<1>1. CASE j.mock \/ j.engine \notin {"sbk", "other"}
  <2>1. ForProfile(j) = <<"mock">> \/ ForProfile(j) = <<j.engine>>
    BY <1>1 DEF ForProfile
  <2> QED BY <2>1
<1>2. CASE ~j.mock /\ j.engine = "other"
  BY <1>2 DEF ForProfile
<1>3. CASE ~j.mock /\ j.engine = "sbk"
  <2> DEFINE Others  == Drivers \cup {"bridge"}
             own     == IF j.driver \in Drivers THEN <<j.driver>> ELSE <<>>
             through == IF j.bridge THEN <<"bridge">> ELSE <<>>
  <2>1. ForProfile(j) = own \o through
    BY <1>3 DEF ForProfile, SBKTools
  <2>2. own \in Seq(Others)
    <3>1. CASE j.driver \in Drivers
      <4>1. j.driver \in Others /\ own = <<j.driver>>
        BY <3>1
      <4> HIDE DEF own, Others
      <4> QED BY <4>1
    <3>2. CASE j.driver \notin Drivers
      BY <3>2
    <3> QED BY <3>1, <3>2
  <2>3. through \in Seq(Others)
    <3>1. "bridge" \in Others
      OBVIOUS
    <3> HIDE DEF Others
    <3> QED BY <3>1
  <2>4. Others \cap Polled = {}
    BY DEF Drivers, Polled
  <2> HIDE DEF Others, own, through
  <2>5. own \o through \in Seq(Others)
    BY <2>2, <2>3, ConcatProperties
  <2>6. \A k \in 1..Len(own \o through) : (own \o through)[k] \in Others
    BY <2>5, ElementOfSeq
  <2> QED BY <2>1, <2>4, <2>6
<1> QED BY <1>1, <1>2, <1>3

\* What the poller has shown stays as it is while nobody touches the files.
LEMMA StreamKept ==
    UNCHANGED <<job, runNo, log, opened, delivered>> =>
        /\ Series' = Series /\ LogsOf' = LogsOf /\ (FilesAre => FilesAre')
        /\ \A k : Streamed(k) => Streamed(k)'
<1> SUFFICES ASSUME UNCHANGED <<job, runNo, log, opened, delivered>>
             PROVE  /\ Series' = Series /\ LogsOf' = LogsOf /\ (FilesAre => FilesAre')
                    /\ \A k : Streamed(k) => Streamed(k)'
  OBVIOUS
<1>1. Series' = Series /\ LogsOf' = LogsOf
  BY DEF Series, mapKeys, LogsOf
<1>2. FilesAre => FilesAre'
  BY <1>1 DEF FilesAre, Pieces
<1>3. NothingOld' => NothingOld
  BY DEF NothingOld
<1>4. \A i, l : Shown(i, l) => Shown(i, l)'
  BY DEF Shown
<1>5. \A k : Streamed(k) => Streamed(k)'
  BY <1>1, <1>3, <1>4 DEF Streamed
<1> QED BY <1>1, <1>2, <1>5

\* While Run is busy with a tool that is not polled, nothing here is at stake.
LEMMA UnpolledStep ==
    ASSUME IInv, PInv, phase \in Busy, collect # "poll", wrote' \in Nat,
           UNCHANGED <<job, runNo, attempts, phase, outcome, poller, log, tail>>
    PROVE  PInv'
<1>1. Attempted'
  BY DEF PInv, Attempted
<1>2. collect' = collect
  BY DEF collect, tool
<1>3. NothingPolled' /\ WhatIsPolled' /\ CaughtUp'
  BY <1>2 DEF PInv, NothingPolled, WhatIsPolled, CaughtUp, Returned, Busy
<1> QED BY <1>1, <1>3 DEF PInv

\* A step that touches neither the samples nor the poller: the child may exit,
\* the context may end, a scanner of pipes may move.
LEMMA QuietStep ==
    ASSUME IInv, PInv, phase \notin {"idle", "returned"},
           UNCHANGED <<job, runNo, attempts, phase, outcome, poller, seen, log, opened, tail, wrote,
                       intervals, delivered>>,
           cancelled => cancelled', child # "running" => child' # "running",
           scan' = scan \/ \E f \in Fds : scan[f] # "off"
    PROVE  PInv'
<1>1. Attempted' /\ NothingPolled' /\ CaughtUp'
  BY DEF PInv, Attempted, NothingPolled, CaughtUp, Returned, AllOlder, tool
<1>2. collect' = collect
  BY DEF collect, tool
<1>3. WhatIsPolled'
  BY <1>2, StreamKept DEF PInv, WhatIsPolled
<1> QED BY <1>1, <1>3 DEF PInv

\* A request is taken up: whatever the files hold is older.
LEMMA CallPolls == ASSUME IInv, PInv, Call PROVE PInv'
<1>1. /\ phase' = "attempt" /\ poller' = "off" /\ delivered' = <<>> /\ wrote' = 0 /\ tail' = FALSE
      /\ attempts' = ForProfile(job') /\ log' = log
      /\ \/ phase = "idle" /\ runNo' = runNo
         \/ phase = "returned" /\ runNo' = runNo + 1
  BY DEF Call, workdir
<1>2. job' \in Jobs
  BY CallStep DEF IInv, Typed
<1>3. runNo \in Nat /\ runNo >= 1 /\ log \in [Logs -> Seq(Lines)]
  BY DEF IInv, Typed, PInv, Attempted
<1>4. \A l \in Logs : \A i \in 1..Len(log[l]) :
         1 <= log[l][i].of /\ log[l][i].of < runNo' /\ log[l][i].of <= runNo'
  <2> SUFFICES ASSUME NEW l \in Logs, NEW i \in 1..Len(log[l])
               PROVE  1 <= log[l][i].of /\ log[l][i].of < runNo' /\ log[l][i].of <= runNo'
    OBVIOUS
  <2>1. 1 <= log[l][i].of /\ log[l][i].of <= runNo
    BY DEF PInv, Attempted
  <2>2. log[l][i].of \in Nat
    <3>1. log[l] \in Seq(Lines)
      BY <1>3
    <3>2. log[l][i] \in Lines
      BY <3>1, ElementOfSeq
    <3> QED BY <3>2 DEF Lines
  <2>3. CASE phase = "idle"
    <3>1. log[l] = <<>>
      BY <2>3 DEF PInv, Attempted
    <3> QED BY <3>1
  <2>4. CASE runNo' = runNo + 1
    BY <1>3, <2>1, <2>2, <2>4
  <2> QED BY <1>1, <2>3, <2>4
<1>5. Attempted'
  <2>1. \A i \in 1..Len(attempts') : attempts'[i] \in Polled => Len(attempts') = 1
    BY <1>1, <1>2, PolledAlone
  <2>2. runNo' >= 1
    BY <1>1, <1>3
  <2>3. \A l \in Logs : \A i \in 1..Len(log'[l]) : 1 <= log'[l][i].of /\ log'[l][i].of <= runNo'
    BY <1>1, <1>4
  <2> QED BY <1>1, <2>1, <2>2, <2>3 DEF Attempted
<1>6. AllOlder'
  BY <1>1, <1>4 DEF AllOlder
<1>7. NothingPolled' /\ WhatIsPolled' /\ CaughtUp'
  BY <1>1, <1>6 DEF NothingPolled, WhatIsPolled, CaughtUp, Returned, Busy
<1> QED BY <1>5, <1>7 DEF PInv

\* An attempt that fails leaves a polled tool no successor.
LEMMA FailsPolled ==
    ASSUME IInv, PInv, attempts # <<>>, phase # "idle", phase' = "attempt", attempts' = Tail(attempts),
           poller = "off" \/ tool \in Polled,
           \A l \in Logs : \A i \in 1..Len(log'[l]) : 1 <= log'[l][i].of /\ log'[l][i].of <= runNo,
           UNCHANGED <<job, runNo, outcome, poller, tail, wrote>>
    PROVE  PInv'
<1>1. /\ attempts' \in Seq(Tools) /\ Len(attempts') = Len(attempts) - 1
      /\ \A i \in 1..Len(attempts') : attempts'[i] = attempts[i+1]
  BY HeadTailProperties DEF IInv, Typed
<1>2. Len(attempts) \in Nat /\ Len(attempts') \in Nat /\ 1 \in 1..Len(attempts)
  BY <1>1 DEF IInv, Typed
<1>3. \A i \in 1..Len(attempts') : attempts'[i] \notin Polled
  <2> SUFFICES ASSUME NEW i \in 1..Len(attempts'), attempts'[i] \in Polled PROVE FALSE
    OBVIOUS
  <2>1. i + 1 \in 1..Len(attempts) /\ attempts[i+1] \in Polled
    BY <1>1, <1>2
  <2> QED BY <1>1, <1>2, <2>1 DEF PInv, Attempted
<1>4. attempts' # <<>> => poller = "off" /\ tool' \notin Polled
  <2> SUFFICES ASSUME attempts' # <<>> PROVE poller = "off" /\ tool' \notin Polled
    OBVIOUS
  <2>1. 1 \in 1..Len(attempts')
    BY <1>1, <1>2
  <2>2. tool' \notin Polled
    BY <1>3, <2>1 DEF tool
  <2>3. tool \notin Polled
    BY <1>1, <1>2, <2>1 DEF PInv, Attempted, tool
  <2> QED BY <2>2, <2>3
<1>5. Attempted'
  BY <1>3 DEF PInv, Attempted
<1>6. NothingPolled' /\ WhatIsPolled' /\ CaughtUp'
  BY <1>4 DEF NothingPolled, WhatIsPolled, CaughtUp, Returned, Busy
<1> QED BY <1>5, <1>6 DEF PInv

\* A tool is prepared: the files it is to fill hold older lines, if any.
LEMMA StartPolls == ASSUME IInv, PInv, StartTool PROVE PInv'
<1>1. /\ phase = "attempt" /\ attempts # <<>> /\ tool # "mock" /\ poller = "off"
      /\ UNCHANGED <<delivered, intervals, job, runNo, outcome>>
  BY DEF StartTool, Fails, given, PInv, NothingPolled
<1>2. PICK w \in Ways :
         /\ log' = w.log
         /\ \/ /\ attempts' = Tail(attempts) /\ phase' = "attempt"
               /\ UNCHANGED <<scan, poller, seen, wrote, tail>>
            \/ /\ phase' = "running" /\ attempts' = attempts /\ wrote' = 0 /\ tail' = FALSE
               /\ opened' = {}
               /\ scan' = [f \in Fds |-> IF collect = "pipes" THEN "read" ELSE "off"]
               /\ poller' = (IF collect = "poll" THEN "on" ELSE "off") /\ seen' = 0
  BY DEF StartTool, Fails, process, reading, polling
<1>3. \A l \in Logs : log'[l] \in {log[l], <<>>}
  BY <1>2, WaysToStart, ProgressRemoved DEF IInv, Typed
<1>4. \A l \in Logs : \A i \in 1..Len(log'[l]) :
         i \in 1..Len(log[l]) /\ log'[l][i] = log[l][i]
  <2> SUFFICES ASSUME NEW l \in Logs, NEW i \in 1..Len(log'[l])
               PROVE  i \in 1..Len(log[l]) /\ log'[l][i] = log[l][i]
    OBVIOUS
  <2>1. log'[l] # <<>>
    <3> SUFFICES ASSUME log'[l] = <<>> PROVE FALSE
      OBVIOUS
    <3>1. Len(log'[l]) = 0
      BY EmptySeq
    <3> QED BY <3>1
  <2> QED BY <1>3, <2>1
<1>5. \A l \in Logs : \A i \in 1..Len(log'[l]) : 1 <= log'[l][i].of /\ log'[l][i].of <= runNo
  BY <1>4 DEF PInv, Attempted
<1>6. CASE /\ phase' = "running" /\ attempts' = attempts /\ wrote' = 0 /\ tail' = FALSE
           /\ opened' = {}
           /\ scan' = [f \in Fds |-> IF collect = "pipes" THEN "read" ELSE "off"]
           /\ poller' = (IF collect = "poll" THEN "on" ELSE "off") /\ seen' = 0
  <2>1. Attempted'
    BY <1>1, <1>5, <1>6 DEF PInv, Attempted
  <2>2. collect' = collect /\ LogsOf \subseteq Logs /\ LogsOf' = LogsOf
    BY <1>1, <1>6 DEF collect, tool, LogsOf, Logs
  <2>3. collect = "poll" => delivered = <<>> /\ AllOlder
    BY <1>1, PolledTools DEF PInv, NothingPolled, Polled
  <2>4. collect = "poll" => FilesAre'
    <3> SUFFICES ASSUME collect = "poll", NEW l \in LogsOf, NEW i \in 1..Len(log'[l])
                 PROVE  log'[l][i].of < runNo
      BY <1>1, <1>6, <2>2 DEF FilesAre
    <3>1. l \in Logs
      BY <2>2
    <3> QED BY <1>4, <2>3, <3>1 DEF AllOlder
  <2>5. collect = "poll" => Streamed(0)'
    <3> SUFFICES ASSUME collect = "poll" PROVE Streamed(0)'
      OBVIOUS
    <3>1. Len(delivered') = 0
      BY <1>1, <2>3, EmptySeq
    <3>2. IInv'
      BY StartToolStep
    <3>3. LogsOf' \in {{"iops", "bw"}, {"progress"}} /\ log' \in [Logs -> Seq(Lines)]
      BY <3>2 DEF IInv, Typed, LogsOf
    <3>4. Series' = Merge(log', LogsOf')
      BY DEF Series, Merge, mapKeys, Keys
    <3>5. 0 <= Len(Series')
      <4>1. Len(Merge(log', LogsOf')) \in Nat
        BY <3>3, MergeIsSeries
      <4> QED BY <3>4, <4>1
    <3> QED BY <3>1, <3>5 DEF Streamed
  <2>6. WhatIsPolled'
    BY <1>1, <1>6, <2>2, <2>4, <2>5 DEF WhatIsPolled
  <2>7. NothingPolled' /\ CaughtUp'
    BY <1>6 DEF NothingPolled, CaughtUp, Returned
  <2> QED BY <2>1, <2>6, <2>7 DEF PInv
<1>7. CASE /\ attempts' = Tail(attempts) /\ phase' = "attempt"
           /\ UNCHANGED <<scan, poller, seen, wrote, tail>>
  BY <1>1, <1>5, <1>7, FailsPolled
<1> QED BY <1>2, <1>6, <1>7

\* Until the tool has exited, the poller of a run that is not cancelled goes on.
LEMMA PollerOutlives ==
    ASSUME IInv, PInv, child = "running", collect = "poll", ~cancelled
    PROVE  phase \in Busy /\ poller = "on"
BY DEF IInv, LiveInAttempt, PInv, WhatIsPolled, Typed, Busy

\* The native engine or fio writes to a file of this run: what the poller has
\* shown of it stays what it was.
LEMMA FilePolls == ASSUME IInv, PInv, NEW l \in Logs, WritesFile(l) PROVE PInv'
<1>1. /\ child = "running" /\ collect = "poll" /\ log \in [Logs -> Seq(Lines)]
      /\ log' \in [Logs -> Seq(Lines)] /\ runNo \in Nat /\ phase \in Busy
      /\ UNCHANGED <<job, runNo, attempts, phase, outcome, cancelled, child, wrote, scan, poller, seen,
                     tail, delivered, intervals>>
  <2>1. /\ child = "running" /\ collect = "poll" /\ log' \in [Logs -> Seq(Lines)]
        /\ UNCHANGED <<control, child, wrote, scan, poller, seen, given, tail>>
    BY FileStep
  <2>2. UNCHANGED <<job, runNo, attempts, phase, outcome, cancelled, child, wrote, scan, poller, seen,
                    tail, delivered, intervals>>
    BY <2>1 DEF control, given
  <2>3. log \in [Logs -> Seq(Lines)] /\ runNo \in Nat /\ phase \in Busy
    BY <2>1 DEF IInv, Typed, LiveInAttempt, Busy
  <2> QED BY <2>1, <2>2, <2>3
<1>2. collect' = collect /\ LogsOf' = LogsOf /\ LogsOf \subseteq Logs /\ Pieces' = Pieces
  BY <1>1 DEF collect, tool, LogsOf, Logs, Pieces
<1>3. Attempted'
  <2>1. \A k \in Logs : \A i \in 1..Len(log'[k]) : 1 <= log'[k][i].of /\ log'[k][i].of <= runNo
    <3> SUFFICES ASSUME NEW k \in Logs, NEW i \in 1..Len(log'[k])
                 PROVE  1 <= log'[k][i].of /\ log'[k][i].of <= runNo
      OBVIOUS
    <3>1. CASE log'[k][i].of = runNo
      BY <1>1, <3>1 DEF PInv, Attempted
    <3>2. CASE i \in 1..Len(log[k]) /\ log'[k][i].of = log[k][i].of
      BY <3>2 DEF PInv, Attempted
    <3> QED BY <3>1, <3>2, FileLines
  <2> QED BY <1>1, <2>1 DEF PInv, Attempted, Busy
<1>4. NothingPolled' /\ CaughtUp'
  BY <1>1 DEF NothingPolled, CaughtUp, Returned, Busy
<1>5. FilesAre /\ (poller = "on" => Streamed(seen)) /\ ~(poller = "done" /\ ~cancelled)
      /\ (poller # "off") /\ \A f \in Fds : scan[f] = "off"
  BY <1>1 DEF PInv, WhatIsPolled
<1>6. FilesAre'
  <2> SUFFICES ASSUME NEW k \in LogsOf, NEW i \in 1..Len(log'[k])
               PROVE  IF k \in opened' THEN \E how \in Pieces : log'[k][i] = Line(runNo, i, how)
                                       ELSE log'[k][i].of < runNo
    BY <1>1, <1>2 DEF FilesAre
  <2>0. k \in Logs
    BY <1>2
  <2>1. CASE k # l
    <3>1. log'[k] = log[k] /\ (k \in opened' <=> k \in opened)
      BY <2>0, <2>1, FileStep
    <3>2. i \in 1..Len(log[k])
      BY <3>1
    <3>3. IF k \in opened THEN \E how \in Pieces : log[k][i] = Line(runNo, i, how)
                         ELSE log[k][i].of < runNo
      BY <1>5, <3>2 DEF FilesAre
    <3>4. (k \in opened' <=> k \in opened) /\ log'[k][i] = log[k][i]
      BY <3>1
    <3>5. CASE k \in opened
      BY <3>3, <3>4, <3>5
    <3>6. CASE k \notin opened
      BY <3>3, <3>4, <3>6
    <3> QED BY <3>5, <3>6
  <2>2. CASE k = l
    <3>1. l \in opened' /\ log[l] \in Seq(Lines) /\ Len(log[l]) \in Nat
      <4>1. l \in opened'
        BY FileStep
      <4>2. log[l] \in Seq(Lines)
        BY <1>1
      <4> QED BY <4>1, <4>2
    <3>2. CASE log'[l] = <<>>
      <4>1. Len(log'[l]) = 0
        BY <3>2, EmptySeq
      <4> QED BY <2>2, <4>1
    <3>3. CASE /\ l \in opened /\ Len(log'[l]) = Len(log[l]) + 1
               /\ \A j \in 1..Len(log[l]) : log'[l][j] = log[l][j]
               /\ \E how \in Pieces : log'[l][Len(log[l]) + 1] = Line(runNo, Len(log[l]) + 1, how)
      <4>1. i \in 1..Len(log[l]) \/ i = Len(log[l]) + 1
        BY <2>2, <3>1, <3>3
      <4>2. \A j \in 1..Len(log[l]) : \E how \in Pieces : log[l][j] = Line(runNo, j, how)
        BY <1>5, <2>2, <3>3 DEF FilesAre
      <4>3. CASE i \in 1..Len(log[l])
        <5>1. log'[l][i] = log[l][i]
          BY <3>3, <4>3
        <5> QED BY <2>2, <3>1, <4>2, <4>3, <5>1
      <4>4. CASE i = Len(log[l]) + 1
        BY <2>2, <3>1, <3>3, <4>4
      <4> QED BY <4>1, <4>3, <4>4
    <3>4. CASE /\ l \in opened /\ Len(log'[l]) = Len(log[l]) /\ log[l] # <<>>
               /\ \A j \in 1..Len(log[l]) : j # Len(log[l]) => log'[l][j] = log[l][j]
               /\ log'[l][Len(log[l])] = [log[l][Len(log[l])] EXCEPT !.how = "whole"]
      <4>1. i \in 1..Len(log[l])
        BY <2>2, <3>4
      <4>2. PICK how \in Pieces : log[l][i] = Line(runNo, i, how)
        BY <1>5, <2>2, <3>4, <4>1 DEF FilesAre
      <4>3. [log[l][i] EXCEPT !.how = "whole"] = Line(runNo, i, "whole") /\ "whole" \in Pieces
        BY <4>2 DEF Line, Pieces
      <4>4. log'[l][i] = log[l][i] \/ log'[l][i] = [log[l][i] EXCEPT !.how = "whole"]
        BY <3>4, <4>1
      <4>5. \E piece \in Pieces : log'[l][i] = Line(runNo, i, piece)
        BY <4>2, <4>3, <4>4
      <4> QED BY <2>2, <3>1, <4>5
    <3> QED BY <3>2, <3>3, <3>4, FileStep
  <2> QED BY <2>1, <2>2
<1>7. poller = "on" => Streamed(seen)'
  <2> SUFFICES ASSUME poller = "on", NothingOld' PROVE
                 /\ Len(delivered) = seen /\ seen <= Len(Series')
                 /\ seen > 0 => \A k \in LogsOf : k \notin opened' => log'[k] = <<>>
                 /\ \A i \in 1..seen : DOMAIN delivered[i] = LogsOf /\ \A k \in LogsOf : Shown(i, k)'
    BY <1>1, <1>2 DEF Streamed
  <2>1. NothingOld
    BY <1>1 DEF NothingOld
  <2>2. /\ Len(delivered) = seen /\ seen <= Len(Series) /\ seen \in Nat
        /\ seen > 0 => \A k \in LogsOf : k \notin opened => log[k] = <<>>
        /\ \A i \in 1..seen : DOMAIN delivered[i] = LogsOf /\ \A k \in LogsOf : Shown(i, k)
    BY <1>5, <2>1 DEF Streamed, IInv, Typed
  <2>3. seen > 0 => \A k \in LogsOf : k \notin opened' => log'[k] = <<>>
    <3> SUFFICES ASSUME seen > 0, NEW k \in LogsOf, k \notin opened' PROVE log'[k] = <<>>
      OBVIOUS
    <3>1. k \in Logs /\ k # l
      BY <1>2, FileStep
    <3>2. log'[k] = log[k] /\ k \notin opened
      BY <3>1, FileStep
    <3> QED BY <2>2, <3>2
  <2>4. seen > 0 => \A k \in LogsOf : Len(log[k]) <= Len(log'[k])
    <3> SUFFICES ASSUME seen > 0, NEW k \in LogsOf PROVE Len(log[k]) <= Len(log'[k])
      OBVIOUS
    <3>1. k \in Logs /\ Len(log[k]) \in Nat /\ Len(log'[k]) \in Nat
      <4>1. k \in Logs
        BY <1>2
      <4>2. log[k] \in Seq(Lines) /\ log'[k] \in Seq(Lines)
        BY <1>1, <4>1
      <4> QED BY <4>1, <4>2
    <3>2. CASE k # l
      <4>1. log'[k] = log[k]
        BY <3>1, <3>2, FileStep
      <4> QED BY <3>1, <4>1
    <3>3. CASE k = l
      <4>1. CASE l \notin opened
        <5>1. log[l] = <<>>
          BY <2>2, <3>3, <4>1
        <5>2. Len(log[l]) = 0
          BY <5>1, EmptySeq
        <5> QED BY <3>1, <3>3, <5>2
      <4>2. CASE l \in opened
        <5>1. Len(log'[l]) = Len(log[l]) + 1 \/ Len(log'[l]) = Len(log[l])
          BY <4>2, FileStep
        <5> QED BY <3>1, <3>3, <5>1
      <4> QED BY <4>1, <4>2
    <3> QED BY <3>2, <3>3
  <2>5. seen <= Len(Series')
    <3>1. LogsOf' \in {{"iops", "bw"}, {"progress"}}
      BY DEF LogsOf
    <3>2. Series' = Merge(log', LogsOf')
      BY DEF Series, Merge, mapKeys, Keys
    <3>3. Len(Series') \in Nat /\ \A k \in LogsOf : Len(log'[k]) \in Nat /\ Len(log'[k]) <= Len(Series')
      BY <1>1, <1>2, <3>1, <3>2, MergeIsSeries
    <3>4. PICK k \in LogsOf : Len(log[k]) = Len(Series)
      BY SeriesType
    <3>5. Len(log[k]) \in Nat
      BY <3>4, SeriesType
    <3> QED BY <2>2, <2>4, <3>3, <3>4, <3>5
  <2>6. \A i \in 1..seen : \A k \in LogsOf : Shown(i, k)'
    <3> SUFFICES ASSUME NEW i \in 1..seen, NEW k \in LogsOf PROVE Shown(i, k)'
      OBVIOUS
    <3>1. CASE job.engine = "fio" /\ delivered[i][k].how \in {"none", "cut"}
      BY <1>1, <3>1 DEF Shown
    <3>2. CASE i \in 1..Len(log[k]) /\ delivered[i][k] = log[k][i]
                /\ ~(job.engine = "fio" /\ delivered[i][k].how \in {"none", "cut"})
      <4>1. k \in Logs /\ Len(log[k]) \in Nat
        BY <1>2, SeriesType
      <4>2. k \in opened
        <5> SUFFICES ASSUME k \notin opened PROVE FALSE
          OBVIOUS
        <5>1. log[k] = <<>>
          BY <2>2
        <5>2. Len(log[k]) = 0
          BY <5>1, EmptySeq
        <5> QED BY <3>2, <5>2
      <4>3. log[k][i].how = "whole"
        <5>1. PICK how \in Pieces : log[k][i] = Line(runNo, i, how)
          BY <1>5, <3>2, <4>2 DEF FilesAre
        <5> QED BY <3>2, <5>1 DEF Line, Pieces
      <4>4. i \in 1..Len(log'[k]) /\ log'[k][i] = log[k][i]
        <5>1. CASE k # l
          <6>1. log'[k] = log[k]
            BY <4>1, <5>1, FileStep
          <6> QED BY <3>2, <6>1
        <5>2. CASE /\ k = l /\ Len(log'[l]) = Len(log[l]) + 1
                   /\ \A j \in 1..Len(log[l]) : log'[l][j] = log[l][j]
          BY <3>2, <4>1, <5>2
        <5>3. CASE /\ k = l /\ Len(log'[l]) = Len(log[l]) /\ log[l][Len(log[l])].how # "whole"
                   /\ \A j \in 1..Len(log[l]) : j # Len(log[l]) => log'[l][j] = log[l][j]
          <6>1. i # Len(log[l])
            BY <4>3, <5>3
          <6> QED BY <3>2, <5>3, <6>1
        <5> QED BY <4>2, <5>1, <5>2, <5>3, FileStep
      <4> QED BY <1>1, <3>2, <4>4 DEF Shown
    <3> QED BY <2>2, <3>1, <3>2 DEF Shown
  <2> QED BY <2>2, <2>3, <2>5, <2>6
<1>8. WhatIsPolled'
  BY <1>1, <1>2, <1>5, <1>6, <1>7 DEF WhatIsPolled
<1> QED BY <1>3, <1>4, <1>8 DEF PInv

\* A poller reads the rest of the files.
LEMMA ReadingPolls == ASSUME IInv, PInv, PollStep PROVE PInv'
<1>1. /\ poller = "on" /\ delivered' = delivered \o Unsent
      /\ seen' = (IF job.engine # "fio" /\ seen > Len(Series) THEN seen ELSE Len(Series))
      /\ poller' = "on" \/ (poller' = "done" /\ (tail \/ cancelled))
      /\ UNCHANGED <<job, runNo, attempts, phase, outcome, cancelled, child, scan, wrote, tail,
                     log, opened, intervals>>
  BY DEF PollStep, PollTick, PollEnds, Flush, control, process, reading, workdir
<1>2. /\ Series \in Seq(Samples) /\ delivered \in Seq(Samples) /\ seen \in Nat /\ Len(Series) \in Nat
      /\ Len(delivered) \in Nat /\ phase \in Busy /\ runNo \in Nat /\ log \in [Logs -> Seq(Lines)]
  BY <1>1, SeriesType DEF IInv, Typed, LiveInAttempt
<1>3. collect' = collect /\ collect = "poll" /\ LogsOf' = LogsOf /\ Series' = Series /\ LogsOf \subseteq Logs
  <2>1. collect' = collect /\ collect = "poll"
    BY <1>1, <1>2 DEF collect, tool, PInv, WhatIsPolled
  <2>2. LogsOf' = LogsOf /\ Series' = Series /\ LogsOf \subseteq Logs
    BY <1>1 DEF LogsOf, Series, mapKeys, Logs
  <2> QED BY <2>1, <2>2
<1>4. NothingOld' => seen' = Len(Series) /\ Streamed(Len(Series))'
  <2> SUFFICES ASSUME NothingOld'
               PROVE  /\ seen' = Len(Series) /\ Len(delivered') = Len(Series)
                      /\ Len(Series) > 0 => \A l \in LogsOf : l \notin opened => log[l] = <<>>
                      /\ \A i \in 1..Len(Series) :
                           DOMAIN delivered'[i] = LogsOf /\ \A l \in LogsOf : Shown(i, l)'
    BY <1>1, <1>2, <1>3 DEF Streamed
  <2>1. /\ Unsent \in Seq(Samples) /\ Len(Unsent) \in Nat
        /\ seen <= Len(Series) => Len(Unsent) = Len(Series) - seen
        /\ \A i \in 1..Len(Unsent) : seen + i \in 1..Len(Series) /\ Unsent[i] = Series[seen + i]
    <3>1. Unsent = SubSeq(Series, seen + 1, Len(Series))
      BY SeriesMerged
    <3> HIDE DEF Unsent, Series
    <3> QED BY <1>2, <3>1, RestOfSequence
  <2>2. /\ delivered' \in Seq(Samples) /\ Len(delivered') = Len(delivered) + Len(Unsent)
        /\ \A i \in 1..Len(delivered') :
             delivered'[i] = IF i <= Len(delivered) THEN delivered[i] ELSE Unsent[i - Len(delivered)]
    BY <1>1, <1>2, <2>1, ConcatProperties
  <2>3. NothingOld
    <3> SUFFICES ASSUME NEW i \in 1..Len(delivered), NEW l \in DOMAIN delivered[i]
                 PROVE  delivered[i][l].of \in {0, runNo}
      BY <1>2 DEF NothingOld
    <3>1. i \in 1..Len(delivered') /\ delivered'[i] = delivered[i]
      BY <1>2, <2>1, <2>2
    <3>2. i \in DOMAIN delivered'
      BY <2>2, <3>1
    <3> QED BY <1>1, <3>1, <3>2 DEF NothingOld
  <2>4. /\ Len(delivered) = seen /\ seen <= Len(Series)
        /\ seen > 0 => \A l \in LogsOf : l \notin opened => log[l] = <<>>
        /\ \A i \in 1..seen : DOMAIN delivered[i] = LogsOf /\ \A l \in LogsOf : Shown(i, l)
    BY <1>1, <1>2, <1>3, <2>3 DEF PInv, WhatIsPolled, Streamed
  <2>5. seen' = Len(Series) /\ Len(delivered') = Len(Series)
    BY <1>1, <1>2, <2>1, <2>2, <2>4
  <2>6. \A i \in 1..seen : delivered'[i] = delivered[i]
    BY <1>2, <2>2, <2>4, <2>5
  <2>7. \A i \in 1..Len(Series) : i \notin 1..seen =>
           delivered'[i] = [l \in LogsOf |-> IF i \in 1..Len(log[l]) THEN log[l][i] ELSE NoLine]
    <3> SUFFICES ASSUME NEW i \in 1..Len(Series), i \notin 1..seen
                 PROVE  delivered'[i] = [l \in LogsOf |-> IF i \in 1..Len(log[l]) THEN log[l][i] ELSE NoLine]
      OBVIOUS
    <3>1. i \in 1..Len(delivered') /\ ~(i <= Len(delivered)) /\ i - Len(delivered) \in 1..Len(Unsent)
          /\ seen + (i - Len(delivered)) = i
      BY <1>2, <2>1, <2>4, <2>5
    <3>2. delivered'[i] = Unsent[i - Len(delivered)]
      BY <2>2, <3>1
    <3>3. Unsent[i - Len(delivered)] = Series[seen + (i - Len(delivered))]
      BY <2>1, <3>1
    <3>4. delivered'[i] = Series[i]
      BY <3>1, <3>2, <3>3
    <3> QED BY <3>4, SeriesType
  <2>8. Len(Series) > 0 => \A l \in LogsOf : l \notin opened => log[l] = <<>>
    <3> SUFFICES ASSUME Len(Series) > 0, NEW l \in LogsOf, l \notin opened, log[l] # <<>> PROVE FALSE
      OBVIOUS
    <3>1. seen = 0
      BY <1>2, <2>4
    <3>2. log[l] \in Seq(Lines) /\ l \in Logs
      BY <1>2, <1>3
    <3>3. 1 \in 1..Len(log[l]) /\ 1 \in 1..Len(Series) /\ 1 \notin 1..seen
      BY <1>2, <3>1, <3>2, EmptySeq
    <3>4. l \in DOMAIN delivered'[1] /\ delivered'[1][l] = log[l][1]
      BY <2>7, <3>3
    <3>5. 1 \in DOMAIN delivered'
      BY <2>2, <2>5, <3>3
    <3>6. log[l][1].of \in {0, runNo}
      BY <1>1, <3>4, <3>5 DEF NothingOld
    <3>7. 1 <= log[l][1].of
      BY <3>2, <3>3 DEF PInv, Attempted
    <3>8. log[l][1].of < runNo
      BY <1>2, <1>3, <3>3 DEF PInv, WhatIsPolled, FilesAre
    <3> QED BY <1>2, <3>6, <3>7, <3>8
  <2>9. ASSUME NEW i \in 1..Len(Series), NEW l \in LogsOf PROVE Shown(i, l)'
    <3>1. CASE i \in 1..seen
      <4>1. Shown(i, l) /\ delivered'[i] = delivered[i]
        BY <2>4, <2>6, <3>1
      <4> QED BY <1>1, <4>1 DEF Shown
    <3>2. CASE i \notin 1..seen /\ i \in 1..Len(log[l])
      <4>1. delivered'[i][l] = log[l][i]
        BY <2>7, <3>2
      <4> QED BY <1>1, <3>2, <4>1 DEF Shown
    <3>3. CASE i \notin 1..seen /\ i \notin 1..Len(log[l])
      <4>1. delivered'[i][l] = NoLine
        BY <2>7, <3>3
      <4>2. job.engine = "fio"
        <5> SUFFICES ASSUME job.engine # "fio" PROVE FALSE
          OBVIOUS
        <5>1. LogsOf = {"progress"}
          BY DEF LogsOf
        <5>2. Len(log[l]) = Len(Series)
          BY <5>1, SeriesType
        <5> QED BY <3>3, <5>2
      <4>3. NoLine.how = "none"
        BY DEF NoLine, Line
      <4> QED BY <1>1, <4>1, <4>2, <4>3 DEF Shown
    <3> QED BY <3>1, <3>2, <3>3
  <2>10. \A i \in 1..Len(Series) : DOMAIN delivered'[i] = LogsOf
    <3> SUFFICES ASSUME NEW i \in 1..Len(Series) PROVE DOMAIN delivered'[i] = LogsOf
      OBVIOUS
    <3>1. CASE i \in 1..seen
      BY <2>4, <2>6, <3>1
    <3>2. CASE i \notin 1..seen
      BY <2>7, <3>2
    <3> QED BY <3>1, <3>2
  <2> QED BY <2>5, <2>8, <2>9, <2>10
<1>5. Streamed(seen)' /\ Streamed(Len(Series))'
  <2>1. ASSUME ~NothingOld' PROVE Streamed(seen)' /\ Streamed(Len(Series))'
    BY <2>1 DEF Streamed
  <2> QED BY <1>3, <1>4, <2>1 DEF Streamed
<1>6. Attempted'
  BY <1>1 DEF PInv, Attempted
<1>7. NothingPolled' /\ CaughtUp'
  BY <1>1, <1>2 DEF NothingPolled, CaughtUp, Returned, Busy
<1>8. WhatIsPolled'
  <2>1. (\A f \in Fds : scan[f] = "off") /\ FilesAre
    BY <1>2, <1>3 DEF PInv, WhatIsPolled
  <2>2. FilesAre'
    BY <1>1, <1>3, <2>1 DEF FilesAre, Pieces
  <2>3. poller' = "done" /\ ~cancelled => child # "running"
    BY <1>1 DEF IInv, LiveInAttempt, PInv, Attempted
  <2>4. poller' # "off"
    BY <1>1
  <2> QED BY <1>1, <1>3, <1>5, <2>1, <2>2, <2>3, <2>4 DEF WhatIsPolled
<1> QED BY <1>6, <1>7, <1>8 DEF PInv

\* The tool has exited: the poller is told to end.
LEMMA ExitPolls == ASSUME IInv, PInv, WaitChild PROVE PInv'
<1>1. /\ phase = "running" /\ child # "running" /\ phase' = "joining" /\ tail' = TRUE
      /\ UNCHANGED <<job, runNo, attempts, outcome, cancelled, child, scan, wrote, poller, seen,
                     log, opened, delivered, intervals>>
  BY DEF WaitChild, process, polling, workdir, given
<1>2. collect' = collect
  BY <1>1 DEF collect, tool
<1>3. Attempted'
  BY <1>1 DEF PInv, Attempted
<1>4. NothingPolled' /\ CaughtUp'
  BY <1>1 DEF NothingPolled, CaughtUp, Returned
<1>5. WhatIsPolled'
  BY <1>1, <1>2, StreamKept DEF PInv, WhatIsPolled, Busy
<1> QED BY <1>3, <1>4, <1>5 DEF PInv

\* The goroutines have been waited for: an answer, or the next tool.
LEMMA ConcludePolls == ASSUME IInv, PInv, Conclude PROVE PInv'
<1>1. /\ phase = "joining" /\ Joined
      /\ UNCHANGED <<job, runNo, cancelled, child, scan, wrote, poller, seen, tail, log, opened,
                     delivered>>
  BY DEF Conclude, Fails, process, reading, polling, workdir
<1>2. attempts # <<>> /\ phase \in Busy
  BY <1>1 DEF IInv, LiveInAttempt, Busy
<1>3. poller # "off" => collect = "poll" /\ tool \in Polled
  BY <1>2, PolledTools DEF PInv, WhatIsPolled, Polled
<1>4. CASE attempts' = Tail(attempts) /\ phase' = "attempt" /\ UNCHANGED <<outcome, intervals>>
  <2>1. \A l \in Logs : \A i \in 1..Len(log'[l]) : 1 <= log'[l][i].of /\ log'[l][i].of <= runNo
    BY <1>1 DEF PInv, Attempted
  <2> QED BY <1>1, <1>2, <1>3, <1>4, <2>1, FailsPolled
<1>5. CASE phase' = "returned" /\ intervals' \in Recorded /\ UNCHANGED attempts
  <2>1. Attempted'
    BY <1>1, <1>5 DEF PInv, Attempted
  <2>2. NothingPolled' /\ WhatIsPolled'
    BY <1>5 DEF NothingPolled, WhatIsPolled, Busy
  <2>3. CaughtUp'
    <3> SUFFICES ASSUME poller = "done", ~cancelled, NothingOld
                 PROVE  /\ tool = "stratabench" =>
                             delivered = [i \in DOMAIN log["progress"] |->
                                             [l \in {"progress"} |-> log["progress"][i]]]
                        /\ tool = "fio" =>
                             /\ Len(delivered) = Len(intervals')
                             /\ \A i \in DOMAIN delivered, l \in {"iops", "bw"} :
                                  \/ delivered[i][l] = intervals'[i][l]
                                  \/ delivered[i][l].how \in {"none", "cut"}
      BY <1>1, <1>5 DEF CaughtUp, tool, NothingOld
    <3>1. /\ log \in [Logs -> Seq(Lines)] /\ delivered \in Seq(Samples) /\ Len(delivered) \in Nat
          /\ DOMAIN delivered = 1..Len(delivered)
      BY DEF IInv, Typed
    <3>2. collect = "poll" /\ tool \in Polled /\ tool = job.engine
      <4>1. 1 \in 1..Len(attempts)
        BY <1>2 DEF IInv, Typed
      <4> QED BY <1>3, <4>1 DEF IInv, ToolsOfJob, tool
    <3>3. /\ Len(delivered) = Len(Series)
          /\ \A i \in 1..Len(Series) : DOMAIN delivered[i] = LogsOf /\ \A l \in LogsOf : Shown(i, l)
      BY <1>2, <3>2 DEF PInv, WhatIsPolled, Streamed
    <3>4. CASE tool = "stratabench"
      <4>1. LogsOf = {"progress"} /\ job.engine # "fio" /\ log["progress"] \in Seq(Lines)
        BY <3>1, <3>2, <3>4 DEF LogsOf, Logs
      <4>2. Len(log["progress"]) = Len(Series) /\ DOMAIN log["progress"] = 1..Len(Series)
        BY <4>1, SeriesType
      <4> DEFINE kept == [i \in 1..Len(Series) |-> [l \in {"progress"} |-> log["progress"][i]]]
      <4>3. \A i \in 1..Len(Series) : delivered[i] = kept[i]
        <5> SUFFICES ASSUME NEW i \in 1..Len(Series)
                     PROVE  delivered[i] = [l \in {"progress"} |-> log["progress"][i]]
          OBVIOUS
        <5>1. DOMAIN delivered[i] = {"progress"} /\ delivered[i]["progress"] = log["progress"][i]
          BY <3>3, <4>1 DEF Shown
        <5>2. delivered[i] \in Samples
          BY <3>1, <3>3, ElementOfSeq
        <5>3. delivered[i] = [l \in DOMAIN delivered[i] |-> delivered[i][l]]
          BY <5>2 DEF Samples
        <5> QED BY <5>1, <5>3
      <4>4. delivered = [i \in 1..Len(Series) |-> delivered[i]]
        BY <3>1, <3>3
      <4>5. delivered = kept
        <5> HIDE DEF kept
        <5>1. kept = [i \in 1..Len(Series) |-> kept[i]]
          BY DEF kept
        <5> QED BY <4>3, <4>4, <5>1
      <4> QED BY <3>4, <4>2, <4>5
    <3>5. CASE tool = "fio"
      <4>1. LogsOf = {"iops", "bw"} /\ intervals' = Series
        BY <1>5, <3>2, <3>5 DEF collect, Recorded, attachFioIntervals, LogsOf
      <4>2. ASSUME NEW i \in DOMAIN delivered, NEW l \in {"iops", "bw"}
            PROVE  delivered[i][l] = Series[i][l] \/ delivered[i][l].how \in {"none", "cut"}
        <5>1. i \in 1..Len(Series) /\ l \in LogsOf
          BY <3>1, <3>3, <4>1
        <5>2. Series[i][l] = IF i \in 1..Len(log[l]) THEN log[l][i] ELSE NoLine
          BY <5>1, SeriesType
        <5>3. Shown(i, l)
          BY <3>3, <5>1
        <5> QED BY <5>2, <5>3 DEF Shown
      <4> QED BY <3>3, <3>5, <4>1, <4>2
    <3> QED BY <3>2, <3>4, <3>5 DEF Polled
  <2> QED BY <2>1, <2>2, <2>3 DEF PInv
<1> QED BY <1>4, <1>5 DEF Conclude, Fails, ReturnFrom

\* No tool is left: an error.
LEMMA GiveUpPolls == ASSUME IInv, PInv, GiveUp PROVE PInv'
<1>1. /\ phase' = "returned" /\ outcome' = "error"
      /\ UNCHANGED <<job, runNo, attempts, wrote, tail, log>>
  BY DEF GiveUp, ReturnFrom, process, workdir
<1>2. Attempted'
  BY <1>1 DEF PInv, Attempted
<1>3. NothingPolled' /\ WhatIsPolled' /\ CaughtUp'
  BY <1>1 DEF NothingPolled, WhatIsPolled, CaughtUp, Busy
<1> QED BY <1>2, <1>3 DEF PInv

\* The mock has no file to poll.
LEMMA MockPolls == ASSUME IInv, PInv, MockTick \/ MockEnds PROVE PInv'
<1>1. /\ phase = "attempt" /\ attempts # <<>> /\ tool = "mock" /\ phase' \in {"attempt", "returned"}
      /\ UNCHANGED <<job, runNo, attempts, poller, wrote, tail, log>>
  BY DEF MockTick, MockEnds, ReturnFrom, control, process, polling, workdir
<1>2. poller = "off" /\ tool \notin Polled /\ tool' = tool
  BY <1>1 DEF PInv, NothingPolled, Polled, tool
<1>3. Attempted'
  BY <1>1 DEF PInv, Attempted
<1>4. NothingPolled' /\ WhatIsPolled' /\ CaughtUp'
  BY <1>1, <1>2 DEF NothingPolled, WhatIsPolled, CaughtUp, Busy
<1> QED BY <1>3, <1>4 DEF PInv

\* The steps of the child that leave the samples alone, and the scanners'.
LEMMA OthersPoll ==
    ASSUME IInv, PInv,
           \/ Cancel \/ Finish \/ Crash \/ Kill \/ WriteBenchData
           \/ \E f \in Fds, k \in Kinds : PrintLine(f, k)
           \/ \E f \in Fds : ScanStep(f)
    PROVE  PInv'
<1>1. CASE Cancel
  BY <1>1, QuietStep DEF Cancel, process, reading, polling, workdir, given
<1>2. CASE Finish \/ Crash \/ Kill \/ WriteBenchData
  <2>1. /\ child = "running" /\ phase = "running"
        /\ UNCHANGED <<job, runNo, attempts, phase, cancelled, outcome, poller, seen, log, opened,
                       tail, wrote, intervals, delivered, scan>>
    BY <1>2 DEF Finish, Crash, Kill, Exits, WriteBenchData, control, process, reading, polling,
                workdir, given, IInv, LiveInAttempt
  <2> QED BY <2>1, QuietStep
<1>3. CASE \E f \in Fds, k \in Kinds : PrintLine(f, k)
  <2>1. /\ child = "running" /\ collect # "poll" /\ wrote' = wrote + 1
        /\ UNCHANGED <<job, runNo, attempts, phase, outcome, poller, log, tail>>
    BY <1>3 DEF PrintLine, control, polling, workdir
  <2>2. phase \in Busy /\ wrote' \in Nat
    BY <2>1 DEF IInv, LiveInAttempt, Busy, PInv, Attempted
  <2> QED BY <2>1, <2>2, UnpolledStep
<1>4. CASE \E f \in Fds : ScanStep(f)
  <2>1. PICK f \in Fds : ScanStep(f)
    BY <1>4
  <2>2. /\ scan[f] \in Reads
        /\ UNCHANGED <<job, runNo, attempts, phase, outcome, poller, log, tail, wrote>>
    BY <2>1 DEF ScanStep, BeginAppend, EndAppend, OnInterval, ScanEnds, control, process, polling,
                workdir, Reads
  <2>3. phase \in Busy /\ scan[f] # "off"
    BY <2>2 DEF IInv, LiveInAttempt, Reads
  <2>4. collect # "poll"
    BY <2>3 DEF PInv, WhatIsPolled
  <2>5. wrote' \in Nat
    BY <2>2 DEF PInv, Attempted
  <2> QED BY <2>2, <2>3, <2>4, <2>5, UnpolledStep
<1> QED BY <1>1, <1>2, <1>3, <1>4

\* Every step keeps what is known of the pollers.
LEMMA StepPInv == ASSUME IInv, PInv, [Next]_vars PROVE PInv'
<1>1. CASE RunStep
  BY <1>1, CallPolls, GiveUpPolls, StartPolls, ExitPolls, ConcludePolls, MockPolls DEF RunStep
<1>2. CASE ChildStep
  BY <1>2, FilePolls, OthersPoll DEF ChildStep, WritesFile
<1>3. CASE PollStep
  BY <1>3, ReadingPolls
<1>4. CASE Cancel \/ \E f \in Fds : ScanStep(f)
  BY <1>4, OthersPoll
<1>5. CASE UNCHANGED vars
  <2>1. UNCHANGED <<job, runNo, attempts, phase, outcome, poller, seen, log, opened, tail, wrote,
                    intervals, delivered, cancelled, child, scan>>
    BY <1>5 DEF vars, control, process, reading, polling, workdir, given
  <2>2. Attempted' /\ NothingPolled' /\ CaughtUp'
    BY <2>1 DEF PInv, Attempted, NothingPolled, CaughtUp, NothingOld, Returned, AllOlder, tool
  <2>3. collect' = collect
    BY <2>1 DEF collect, tool
  <2>4. WhatIsPolled'
    BY <2>1, <2>3, StreamKept DEF PInv, WhatIsPolled
  <2> QED BY <2>2, <2>4 DEF PInv
<1> QED BY <1>1, <1>2, <1>3, <1>4, <1>5 DEF Next

\* Once Run succeeds, every line of the progress file has been passed to
\* OnInterval exactly once and in order.  Of fio as many samples were passed as
\* the result records, and each number that was passed is the recorded one, is
\* missing, or was read half: the last flush of watchNativeProgress and
\* watchFioLogIntervals comes after the exit of the tool and before the result
\* is read, but "emitted" counts a position that one log did not have yet.
THEOREM SamplesAreCaughtUp == SafeSpec => []CaughtUp
<1>1. Init => PInv
  BY InitPInv
<1>2. IInv /\ PInv /\ [Next]_vars => PInv'
  BY StepPInv
<1>3. PInv => CaughtUp
  BY DEF PInv
<1> QED BY <1>1, <1>2, <1>3, Invariance, PTL DEF SafeSpec
=============================================================================
