---------------------------- MODULE NativeEngine ----------------------------
(***************************************************************************)
(* crates/stratabench-engine: the native engine, and the goroutine of      *)
(* internal/engine that follows its progress file.                         *)
(*                                                                         *)
(* An attempt (io_uring, then pread) spawns a progress writer and one      *)
(* worker per thread.  The workers count their operations in shared atomic *)
(* counters, one of them per second; the writer copies the counters of the *)
(* seconds to the progress file while they still change.  When an attempt  *)
(* fails half-way, the threads it has spawned keep running beside those of *)
(* the next one.  Without block I/O the results are synthetic.             *)
(***************************************************************************)
EXTENDS Naturals, Sequences, SequencesExt

CONSTANTS
    Threads,    \* worker threads, numbered from 1
    Seconds,    \* duration_sec
    QueueDepth, \* operations a worker of io_uring keeps in flight
    Configs,    \* io_engine and pattern of the configurations
    MaxOps,     \* bound: operations counted or in flight
    MaxClock    \* bound: seconds

ASSUME NativeAssumption ==
    /\ Threads \in Nat \ {0} /\ Seconds \in Nat \ {0}
    /\ QueueDepth \in Nat \ {0} /\ MaxOps \in Nat /\ MaxClock \in Nat
    /\ Configs \subseteq [uring : BOOLEAN, pattern : {"read", "write", "mixed"}, block : BOOLEAN]

Attempts == {"io_uring", "pread"}
Workers  == 1..Threads
Synthetic == 3   \* progress lines of a synthetic run

VARIABLES
    cfg,
    stage,     \* where the main thread is: what it does, and the next thread or line
    now,       \* whole seconds since the start
    worker,    \* each worker: its step, operations in flight, second
    ops,       \* total_ops, read_ops, write_ops of each attempt
    bucket,    \* bucket_ops of each attempt
    writer,    \* each progress writer: its step, position, count and "emitted"
    file,      \* the progress file: lines, the last one still open
    result,    \* what is written to the output file
    delivered, \* the samples passed to OnInterval
    seen       \* "emitted" of the goroutine

vars == <<cfg, stage, now, worker, ops, bucket, writer, file, result, delivered, seen>>
counters == <<ops, bucket>>
reader   == <<delivered, seen>>

Sample(s, n) == [seq |-> s, n |-> n]
NoResult == [source |-> "none", total |-> 0, reads |-> 0, writes |-> 0, intervals |-> <<>>]
InTime == now < Seconds   \* start.elapsed() < duration

-----------------------------------------------------------------------------
(* The main thread.                                                        *)

Idle    == [step |-> "off", pending |-> 0, sec |-> 0]
Quiet   == [step |-> "off", last |-> FALSE, at |-> 1, n |-> 0, emitted |-> 0]

Init ==
    /\ cfg \in Configs /\ now = 0 /\ stage = <<"main", 0>>
    /\ worker = [a \in Attempts |-> [t \in Workers |-> Idle]]
    /\ ops = [a \in Attempts |-> [total |-> 0, reads |-> 0, writes |-> 0]]
    /\ bucket = [a \in Attempts |-> [s \in 1..Seconds |-> 0]]
    /\ writer = [a \in Attempts |-> Quiet]
    /\ file = <<<<>>>> /\ result = NoResult /\ delivered = <<>> /\ seen = 0

\* run_block, io_engine: io_uring first only when it is asked for.
FirstStage == <<IF ~cfg.block THEN "synthetic" ELSE IF cfg.uring THEN "io_uring" ELSE "pread", 0>>
NextStage(a) == <<IF a = "io_uring" THEN "pread" ELSE "synthetic", 0>>

RunBenchmark ==
    /\ stage = <<"main", 0>> /\ stage' = FirstStage
    /\ UNCHANGED <<cfg, now, worker, counters, writer, file, result, reader>>

\* validate_block_cfg and open_target succeed: RunState::new, and the writer
\* empties the file.  Or one of them fails.
Open(a) ==
    /\ stage = <<a, 0>>
    /\ \/ /\ stage' = <<a, 1>>
          /\ writer' = [writer EXCEPT ![a].step = "sleep"]
          /\ file' = <<<<>>>>
       \/ stage' = NextStage(a) /\ UNCHANGED <<writer, file>>
    /\ UNCHANGED <<cfg, now, worker, counters, result, reader>>

\* One turn of the spawn loop.  try_clone may fail: run_block_* returns and
\* leaves behind the writer and the workers it has spawned.
Spawn(a, t) ==
    /\ stage = <<a, t>>
    /\ \/ /\ \E step \in IF a = "io_uring" THEN {"loop", "done"} ELSE {"loop"} :
               worker' = [worker EXCEPT ![a][t].step = step]
          /\ stage' = <<a, t + 1>>
       \/ stage' = NextStage(a) /\ UNCHANGED worker
    /\ UNCHANGED <<cfg, now, counters, writer, file, result, reader>>

\* Mutant: the seconds are numbered from 0.
IntervalsFromZero(a) ==
    [s \in {i \in 0..(Seconds - 1) : bucket[a][i + 1] > 0} |-> bucket[a][s + 1]]

\* The intervals of finish(): the count of each second with an operation.
Intervals(a) == [s \in {i \in 1..Seconds : bucket[a][i] > 0} |-> bucket[a][s]]

\* The workers are joined, then the writer; finish() reads the counters.
Finish(a) ==
    /\ stage = <<a, Threads + 1>>
    /\ \A t \in Workers : worker[a][t].step = "done"
    /\ writer[a].step = "done"
    /\ result' = [source |-> a, total |-> ops[a].total, reads |-> ops[a].reads,
                  writes |-> ops[a].writes, intervals |-> Intervals(a)]
    /\ stage' = <<"exit", 0>>
    /\ UNCHANGED <<cfg, now, worker, counters, writer, file, reader>>

\* synthesize_with_progress: each line is one write.
EmitSynthetic ==
    \/ stage = <<"synthetic", 0>> /\ stage' = <<"synthetic", 1>> /\ file' = <<<<>>>>
    \/ \E i \in 1..Synthetic :
         /\ stage = <<"synthetic", i>> /\ stage' = <<"synthetic", i + 1>>
         /\ file' = Append([file EXCEPT ![Len(file)] = Append(@, Sample(i, 1))], <<>>)

SyntheticStep ==
    /\ EmitSynthetic
    /\ UNCHANGED <<cfg, now, worker, counters, writer, result, reader>>

Synthesize ==
    /\ stage = <<"synthetic", Synthetic + 1>> /\ stage' = <<"exit", 0>>
    /\ result' = [NoResult EXCEPT !.source = "synthetic"]
    /\ UNCHANGED <<cfg, now, worker, counters, writer, file, reader>>

-----------------------------------------------------------------------------
(* A worker thread.                                                        *)

Alive == stage[1] # "exit"

\* should_write: by the pattern, or by chance.
should_write == CASE cfg.pattern = "read"  -> {FALSE} [] cfg.pattern = "write" -> {TRUE}
                  [] OTHER -> BOOLEAN

Work(a, t, step, next) ==
    /\ Alive /\ worker[a][t].step = step
    /\ worker' = [worker EXCEPT ![a][t] = next]
    /\ UNCHANGED <<cfg, stage, now, writer, file, result, reader>>

Depth(a) == IF a = "io_uring" THEN QueueDepth ELSE 1
Issued == FoldFunction(LAMBDA o, n : o.total + n, 0, ops)
          + FoldFunction(LAMBDA ws, n : FoldFunction(LAMBDA w, k : w.pending + k, n, ws), 0, worker)

\* An operation is issued while there is time and room.
Issue(a, t) ==
    /\ InTime /\ worker[a][t].pending < Depth(a) /\ Issued < MaxOps
    /\ Work(a, t, "loop", [worker[a][t] EXCEPT !.pending = @ + 1])
    /\ UNCHANGED counters

\* It fails and is not counted.
OpFails(a, t) ==
    /\ worker[a][t].pending > 0
    /\ Work(a, t, "loop", [worker[a][t] EXCEPT !.pending = @ - 1])
    /\ UNCHANGED counters

\* record(): the totals, which nobody reads before the join, then the second
\* from the clock, then the counter of that second.
CountTotals(a, t) ==
    /\ worker[a][t].pending > 0
    /\ Work(a, t, "loop", [worker[a][t] EXCEPT !.pending = @ - 1, !.step = "bucket",
                                               !.sec = now + 1])
    /\ \E write \in should_write :
         ops' = [ops EXCEPT ![a].total = @ + 1,
                            ![a].reads = IF write THEN @ ELSE @ + 1,
                            ![a].writes = IF write THEN @ + 1 ELSE @]
    /\ UNCHANGED bucket

\* After the end of the run it belongs to no second.
CountBucket(a, t) ==
    /\ Work(a, t, "bucket", [worker[a][t] EXCEPT !.step = "loop", !.sec = 0])
    /\ bucket' = [bucket EXCEPT ![a] = [s \in 1..Seconds |->
                     IF s = worker[a][t].sec THEN @[s] + 1 ELSE @[s]]]
    /\ UNCHANGED ops

\* Mutant: the loop ends with operations in flight.
EndsEarly(a, t) ==
    /\ ~InTime
    /\ Work(a, t, "loop", [worker[a][t] EXCEPT !.step = "done"])
    /\ UNCHANGED counters

WorkerEnds(a, t) ==
    /\ ~InTime /\ worker[a][t].pending = 0
    /\ Work(a, t, "loop", [worker[a][t] EXCEPT !.step = "done"])
    /\ UNCHANGED counters

WorkerStep(a, t) ==
    \/ Issue(a, t) \/ OpFails(a, t) \/ CountTotals(a, t) \/ CountBucket(a, t) \/ WorkerEnds(a, t)

-----------------------------------------------------------------------------
(* The progress writer.                                                    *)

Write(a, step, next) ==
    /\ Alive /\ writer[a].step = step
    /\ writer' = [writer EXCEPT ![a] = next]
    /\ UNCHANGED <<cfg, stage, now, worker, counters, result, reader>>

\* flush_progress, after a sleep.
FlushBegins(a) ==
    /\ Write(a, "sleep", [writer[a] EXCEPT !.step = "load", !.at = writer[a].emitted + 1])
    /\ UNCHANGED file

\* Mutant: the writer waits until every second has been reported.
EndsWhenComplete(w) ==
    IF ~InTime /\ w.emitted = Seconds THEN [w EXCEPT !.step = "done"] ELSE [w EXCEPT !.step = "sleep"]

\* The writer sleeps again; when the time is over, one last flush follows.
FlushEnds(w) ==
    IF w.last THEN [w EXCEPT !.step = "done"]
    ELSE IF InTime THEN [w EXCEPT !.step = "sleep"]
    ELSE [w EXCEPT !.last = TRUE, !.at = w.emitted + 1]

\* Mutant: a second without an operation is skipped.
LoadAny(a) ==
    /\ LET w == writer[a] IN
       Write(a, "load", IF w.at > Seconds THEN FlushEnds(w)
                        ELSE IF bucket[a][w.at] > 0
                        THEN [w EXCEPT !.step = "text", !.n = bucket[a][w.at]]
                        ELSE [w EXCEPT !.at = @ + 1])
    /\ UNCHANGED file

\* A counter is read; the flush stops at the first second without operations.
LoadBucket(a) ==
    /\ LET w == writer[a] IN
       Write(a, "load", IF w.at <= Seconds /\ bucket[a][w.at] > 0
                        THEN [w EXCEPT !.step = "text", !.n = bucket[a][w.at]]
                        ELSE FlushEnds(w))
    /\ UNCHANGED file

\* writeln! writes the text and then the newline.
WriteText(a) ==
    /\ Write(a, "text", [writer[a] EXCEPT !.step = "newline"])
    /\ file' = [file EXCEPT ![Len(file)] = Append(@, Sample(writer[a].at, writer[a].n))]

WriteNewline(a) ==
    /\ Write(a, "newline", [writer[a] EXCEPT !.step = "load", !.emitted = writer[a].at,
                                             !.at = @ + 1])
    /\ file' = Append(file, <<>>)

WriterStep(a) == FlushBegins(a) \/ LoadBucket(a) \/ WriteText(a) \/ WriteNewline(a)

-----------------------------------------------------------------------------
(* The clock, and the goroutine that follows the file.                     *)

\* (The attempts start within the first second.)
Tick ==
    /\ stage[2] = Threads + 1 /\ stage[1] \in Attempts /\ now < MaxClock
    /\ now' = now + 1
    /\ UNCHANGED <<cfg, stage, worker, counters, writer, file, result, reader>>

\* drainNativeProgressFile: from the start of the file, whatever is new.  A line
\* that two writers share is not JSON and is skipped.
Unseen ==
    LET read[k \in 0..Len(file)] ==
            IF k = 0 THEN [given |-> <<>>, seen |-> seen]
            ELSE IF Len(file[k]) # 1 \/ file[k][1].seq <= read[k-1].seen THEN read[k-1]
            ELSE [given |-> Append(read[k-1].given, file[k][1]), seen |-> file[k][1].seq]
    IN  read[Len(file)]

Drain ==
    /\ Unseen.given # <<>>
    /\ delivered' = delivered \o Unseen.given /\ seen' = Unseen.seen
    /\ UNCHANGED <<cfg, stage, now, worker, counters, writer, file, result>>

-----------------------------------------------------------------------------
MainStep == \/ RunBenchmark \/ SyntheticStep \/ Synthesize
            \/ \E a \in Attempts : Open(a) \/ Finish(a) \/ \E t \in Workers : Spawn(a, t)

Next == \/ MainStep \/ Tick \/ Drain
        \/ \E a \in Attempts : WriterStep(a) \/ \E t \in Workers : WorkerStep(a, t)

SafeSpec == Init /\ [][Next]_vars

\* A thread that can run does; an operation in flight ends, one way or the
\* other (io_uring never reports an operation if the ring refuses to submit).
FairSpec ==
    /\ SafeSpec
    /\ WF_vars(MainStep) /\ WF_vars(Tick) /\ WF_vars(Drain)
    /\ \A a \in Attempts : WF_vars(WriterStep(a)) /\ \A t \in Workers : WF_vars(WorkerStep(a, t))

-----------------------------------------------------------------------------
(* Properties.                                                             *)

\* Threads of an attempt that was given up are still running.
Orphans == \E a \in Attempts :
    writer[a].step # "off" /\ stage[1] # a /\ result.source # a

\* The streamed samples are those of the seconds 1, 2, ...: none is missing,
\* repeated or out of order (two writers may spoil each other's lines).
StreamInOrder ==
    /\ \A i, j \in DOMAIN delivered : i < j => delivered[i].seq < delivered[j].seq
    /\ ~Orphans => \A i \in DOMAIN delivered : delivered[i].seq = i

\* Whatever was streamed is in the result, with a count at least as high: a
\* live sample never shows more than was measured.
StreamedIsRecorded ==
    result.source \in Attempts /\ ~Orphans =>
        \A i \in DOMAIN delivered :
            /\ delivered[i].seq \in DOMAIN result.intervals
            /\ result.intervals[delivered[i].seq] >= delivered[i].n

\* The sum of what the intervals show.
Counted(intervals) ==
    LET sum[s \in 0..Seconds] ==
            IF s = 0 THEN 0
            ELSE sum[s-1] + (IF s \in DOMAIN intervals THEN intervals[s] ELSE 0)
    IN  sum[Seconds]

\* The result adds up: reads and writes make the total, and the seconds hold
\* no operation twice.
ResultAddsUp ==
    result.source \in Attempts =>
        /\ result.total = result.reads + result.writes
        /\ Counted(result.intervals) <= result.total
        /\ \A t \in Workers : worker[result.source][t].pending = 0

\* The engine ends, also when no operation ever succeeds.
RunEnds == <>(stage[1] = "exit")
=============================================================================
