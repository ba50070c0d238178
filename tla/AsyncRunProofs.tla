--------------------------- MODULE AsyncRunProofs ---------------------------
(***************************************************************************)
(* AsyncRun implements RunLifecycle, for any number of assignments,        *)
(* streams, watchers, faults and crashes, and whoever starts the run; what *)
(* it shows of itself while it runs is exact, and nothing of it stays in   *)
(* memory.                                                                 *)
(***************************************************************************)
EXTENDS AsyncRun, FiniteSetTheorems, TLAPS

\* Run has not reported an error yet.
Undecided == {"none", "planning", "running", "saving", "warning"}

\* Where the background goroutine stands says what the row holds.
RowAtPc ==
    /\ caller \in {"idle", "placing"} => row = None /\ pc = "none"
    /\ caller = "queueing" => row = RunningRow /\ pc = "none"
    /\ pc \in {"planning", "running", "saving"} => row = RunningRow
    /\ pc = "saving" => results # {}
    /\ pc = "warning" => /\ row.status = "completed"
                         /\ row = CompletedRow(results)
                         /\ results \notin {{}, Assignments}
    /\ pc \in {"clearGauges", "clearProgress", "returned"} /\ failed =>
         row = RunningRow
    /\ pc \in Undecided => ~failed

\* Who has not returned yet has no verdict.
VerdictOnce ==
    /\ verdict \in [Observers -> {"completed", "failed", None}]
    /\ \A s \in Streams : stream[s] \in {"none", "open", "reading"} => verdict[s] = None
    /\ \A w \in Watchers : watch[w] \in {"none", "polling"} => verdict[w] = None

\* The parts of the state the two facts above are about.
Shape ==
    /\ results \subseteq Assignments
    /\ stream \in [Streams -> {"none", "open", "reading", "closed"}]
    /\ watch \in [Watchers -> {"none", "polling", "closed"}]

IInv == Shape /\ RowAtPc /\ VerdictOnce

AbstractStep == Lifecycle!Next \/ UNCHANGED Lifecycle!lifecycleVars

USE DEF Undecided

\* A run nobody has started satisfies the invariant ...
LEMMA InitIInv == Init => IInv
BY DEF Init, IInv, Shape, RowAtPc, VerdictOnce, Observers, RunningRow

\* ... and is an initial state of the lifecycle.
LEMMA InitAbstract == Init => Lifecycle!Init
BY DEF Init, Lifecycle!Init

-----------------------------------------------------------------------------
(* Each kind of step keeps the invariant and is a step of the lifecycle.   *)

\* A process that ends changes no row and gives no verdict.
LEMMA EndingStep ==
    ASSUME IInv, ProcessEnds, caller' \in {caller, "returned"},
           caller' = "idle" => caller = "idle",
           caller \in {"placing", "queueing"} => caller' = "returned"
    PROVE  IInv' /\ AbstractStep
<1>1. /\ UNCHANGED <<row, results, failed, verdict>>
      /\ pc' \in {pc, "lost"} /\ (pc = "none" => pc' = "none")
      /\ pc' # "lost" => pc' \in {"none", "ended"} \cup {pc}
  BY DEF ProcessEnds, runVars
<1>2. /\ stream' \in [Streams -> {"none", "open", "reading", "closed"}]
      /\ \A s \in Streams : stream'[s] # "closed" => stream[s] = stream'[s]
      /\ watch' \in [Watchers -> {"none", "polling", "closed"}]
      /\ \A w \in Watchers : watch'[w] # "closed" => watch[w] = watch'[w]
  BY DEF ProcessEnds, IInv, Shape
<1>3. Shape'
  BY <1>1, <1>2 DEF IInv, Shape
<1>4. RowAtPc'
  BY <1>1 DEF IInv, RowAtPc, RunningRow, CompletedRow
<1>5. VerdictOnce'
  BY <1>1, <1>2 DEF IInv, Shape, VerdictOnce
<1> QED BY <1>1, <1>3, <1>4, <1>5 DEF IInv, AbstractStep, Lifecycle!lifecycleVars

\* A step that leaves the row, the goroutine's place and the followers alone.
LEMMA QuietStep ==
    ASSUME IInv, UNCHANGED <<row, results, failed, verdict, watch, stream, pc>>,
           caller' = caller \/ (caller = "idle" /\ caller' = "placing")
                            \/ (caller = "returning" /\ caller' = "returned")
    PROVE  IInv' /\ AbstractStep
BY DEF IInv, Shape, RowAtPc, VerdictOnce, AbstractStep, Lifecycle!lifecycleVars,
       RunningRow, CompletedRow

\* The call of StartAsyncRun: the placeholder row is the lifecycle's Submit.
LEMMA CallerStep ==
    ASSUME IInv, Caller
    PROVE  IInv' /\ AbstractStep
<1>1. CASE StartAsyncRun
  BY <1>1, QuietStep DEF StartAsyncRun, runVars, followVars, streamVars
<1>2. CASE SavePlaceholder
  <2>1. caller = "placing" /\ row = None /\ pc = "none"
    BY <1>2 DEF SavePlaceholder, IInv, RowAtPc
  <2>2. /\ UNCHANGED <<results, failed, verdict, watch, stream, pc>>
        /\ \/ row' = RunningRow /\ caller' = "queueing"
           \/ row' = row /\ caller' = "idle"
    BY <1>2 DEF SavePlaceholder, SaveSucceeds, SaveFails, runVars, followVars, streamVars
  <2>3. IInv'
    BY <2>1, <2>2 DEF IInv, Shape, RowAtPc, VerdictOnce
  <2>4. AbstractStep
    BY <2>1, <2>2 DEF AbstractStep, Lifecycle!lifecycleVars, Lifecycle!Next,
                      Lifecycle!Submit, Lifecycle!Running, RunningRow
  <2> QED BY <2>3, <2>4
<1>3. CASE SetQueued
  <2>1. /\ caller = "queueing" /\ caller' = "returning" /\ pc' = "planning"
        /\ row = RunningRow /\ pc = "none"
        /\ UNCHANGED <<row, results, failed, verdict, watch, stream>>
    BY <1>3 DEF SetQueued, IInv, RowAtPc, runVars, followVars, streamVars
  <2> QED BY <2>1 DEF IInv, Shape, RowAtPc, VerdictOnce, AbstractStep,
                      Lifecycle!lifecycleVars
<1>4. CASE CallerReturns
  <2>1. CASE host = "cli" /\ ProcessEnds
    BY <1>4, <2>1, EndingStep DEF CallerReturns
  <2>2. CASE ~(host = "cli" /\ ProcessEnds)
    BY <1>4, <2>2, QuietStep DEF CallerReturns, memoryVars, runVars, followVars, streamVars
  <2> QED BY <2>1, <2>2
<1> QED BY <1>1, <1>2, <1>3, <1>4 DEF Caller

\* The process ends or comes back: nothing but memory changes.
LEMMA ProcessStep ==
    ASSUME IInv, WatchExits \/ Crash \/ Restart
    PROVE  IInv' /\ AbstractStep
<1>1. CASE WatchExits
  BY <1>1, EndingStep DEF WatchExits
<1>2. CASE Crash
  BY <1>2, EndingStep DEF Crash
<1>3. CASE Restart
  BY <1>3, QuietStep DEF Restart, memoryVars, runVars, followVars, streamVars
<1> QED BY <1>1, <1>2, <1>3

\* The background goroutine: the first Save that succeeds settles the record.
LEMMA CoordinatorStep ==
    ASSUME IInv, Coordinator
    PROVE  IInv' /\ AbstractStep
<1>1. UNCHANGED <<hostVars, followVars>>
  BY DEF Coordinator, RefusePlan, Launch, AllFailed, Aggregate, SaveRun, SaveWarning,
         ClearGauges, ClearProgress, SaveFailed, SetFailed, Finish, DrainItem
<1>2. /\ UNCHANGED <<caller, verdict, watch, stream>>
      /\ pc # "none" => caller \notin {"idle", "placing", "queueing"}
      /\ VerdictOnce'
  BY <1>1 DEF hostVars, followVars, streamVars, IInv, RowAtPc, VerdictOnce
\* The goroutine moves on and leaves the row alone.
<1>3. ASSUME UNCHANGED row, results' \subseteq Assignments, RowAtPc'
      PROVE  IInv' /\ AbstractStep
  BY <1>2, <1>3 DEF IInv, Shape, AbstractStep, Lifecycle!lifecycleVars
<1>4. CASE RefusePlan
  BY <1>2, <1>3, <1>4 DEF RefusePlan, IInv, Shape, RowAtPc
<1>5. CASE Launch
  BY <1>2, <1>3, <1>5 DEF Launch, IInv, Shape, RowAtPc, runVars
<1>6. CASE AllFailed
  BY <1>2, <1>3, <1>6 DEF AllFailed, IInv, Shape, RowAtPc
<1>7. CASE Aggregate
  BY <1>2, <1>3, <1>7 DEF Aggregate, IInv, Shape, RowAtPc, runVars
<1>8. CASE SaveRun
  <2>1. /\ pc = "saving" /\ row = RunningRow /\ ~failed
        /\ results # {} /\ results \subseteq Assignments /\ results' = results
    BY <1>8 DEF SaveRun, IInv, Shape, RowAtPc
  <2>2. CASE SaveFails /\ pc' = "clearGauges" /\ failed' = TRUE
    BY <1>2, <1>3, <2>1, <2>2 DEF SaveFails, RowAtPc
  <2>3. CASE row' = CompletedRow(results) /\ failed' = failed
    <3>1. pc' = (IF results = Assignments THEN "clearGauges" ELSE "warning")
      BY <1>8, <2>1, <2>3 DEF SaveRun, SaveFails, SaveSucceeds, RunningRow, CompletedRow
    <3>2. RowAtPc'
      BY <1>2, <2>1, <2>3, <3>1 DEF RowAtPc, CompletedRow
    <3>3. Lifecycle!Settle
      <4>1. row' \in {Lifecycle!Completed(S) : S \in (SUBSET Assignments) \ {{}}}
        BY <2>1, <2>3 DEF Lifecycle!Completed, CompletedRow
      <4> QED BY <1>2, <2>1, <4>1 DEF Lifecycle!Settle, Lifecycle!Running, RunningRow
    <3>4. AbstractStep
      BY <3>3 DEF AbstractStep, Lifecycle!Next
    <3> QED BY <1>2, <2>1, <3>2, <3>4 DEF IInv, Shape
  <2> QED BY <1>8, <2>2, <2>3 DEF SaveRun, SaveSucceeds
<1>9. CASE SaveWarning
  <2>1. /\ pc = "warning" /\ pc' = "clearGauges" /\ ~failed /\ ~failed'
        /\ row = CompletedRow(results) /\ results \notin {{}, Assignments}
        /\ results \subseteq Assignments /\ results' = results
    BY <1>9 DEF SaveWarning, IInv, Shape, RowAtPc, runVars
  <2>2. CASE UNCHANGED row
    BY <1>2, <1>3, <2>1, <2>2 DEF RowAtPc
  <2>3. CASE row' = [CompletedRow(results) EXCEPT !.warned = TRUE]
    <3>1. RowAtPc'
      BY <1>2, <2>1 DEF RowAtPc
    <3>2. row # None
      <4>1. row \in Row
        BY <2>1 DEF Row, CompletedRow
      <4> QED BY <4>1, AsyncAssumption DEF AsyncAssumption
    <3>3. AbstractStep
      BY <1>2, <2>1, <2>3, <3>2 DEF AbstractStep, Lifecycle!Next, Lifecycle!Annotate,
                                   CompletedRow
    <3> QED BY <1>2, <2>1, <3>1, <3>3 DEF IInv, Shape
  <2> QED BY <1>9, <2>2, <2>3 DEF SaveWarning, SaveSucceeds, SaveFails
<1>10. CASE ClearGauges
  BY <1>2, <1>3, <1>10 DEF ClearGauges, IInv, Shape, RowAtPc, runVars
<1>11. CASE ClearProgress
  BY <1>2, <1>3, <1>11 DEF ClearProgress, IInv, Shape, RowAtPc, runVars
<1>12. CASE SaveFailed
  <2>1. /\ pc = "returned" /\ pc' = "setFailed" /\ row = RunningRow
        /\ results \subseteq Assignments /\ results' = results
    BY <1>12 DEF SaveFailed, IInv, Shape, RowAtPc, runVars
  <2>2. RowAtPc'
    BY <1>2, <2>1 DEF RowAtPc
  <2>3. CASE UNCHANGED row
    BY <1>3, <2>1, <2>2, <2>3
  <2>4. CASE row' = FailedRow
    BY <1>2, <2>1, <2>2, <2>4 DEF IInv, Shape, AbstractStep, Lifecycle!Next,
         Lifecycle!Settle, Lifecycle!Running, Lifecycle!Failed, RunningRow, FailedRow
  <2> QED BY <1>12, <2>3, <2>4 DEF SaveFailed, SaveSucceeds, SaveFails
<1>13. CASE SetFailed
  BY <1>2, <1>3, <1>13 DEF SetFailed, IInv, Shape, RowAtPc, runVars
<1>14. CASE Finish
  BY <1>2, <1>3, <1>14 DEF Finish, IInv, Shape, RowAtPc, runVars
<1>15. ASSUME NEW a \in Assignments, DrainItem(a)
       PROVE  IInv' /\ AbstractStep
  <2>1. /\ pc = "running" /\ UNCHANGED <<pc, row, failed>>
        /\ results' \subseteq Assignments
    BY <1>15 DEF DrainItem, IInv, Shape
  <2> QED BY <1>2, <1>3, <2>1 DEF IInv, RowAtPc
<1> QED
  BY <1>4, <1>5, <1>6, <1>7, <1>8, <1>9, <1>10, <1>11, <1>12, <1>13, <1>14, <1>15
     DEF Coordinator

\* Assignments and interval callbacks touch the progress only.
LEMMA WorkerStep ==
    ASSUME IInv, NEW a \in Assignments,
           Report(a) \/ EmitStep(a) \/ AssignmentEnds(a)
    PROVE  IInv' /\ AbstractStep
<1>1. UNCHANGED <<row, pc, results, failed, caller, stream, watch, verdict>>
  BY DEF Report, EmitStep, LoadProgress, StoreProgress, RecordLiveInterval,
         AssignmentEnds, hostVars, runVars, followVars, streamVars
<1> QED BY <1>1, QuietStep

\* What a follower reads of the row is what it returns.
LEMMA FollowerStep ==
    ASSUME IInv,
           \/ \E s \in Streams : \/ OpenStream(s) \/ StreamProgress(s)
                                \/ StreamMisses(s) \/ StreamReads(s) \/ Disconnect(s)
           \/ \E w \in Watchers : StartWatch(w) \/ WatchReads(w) \/ InterruptWatch(w)
    PROVE  IInv' /\ AbstractStep
<1>1. UNCHANGED <<row, pc, results, failed, caller>>
  BY DEF OpenStream, StreamProgress, StreamMisses, StreamReads, Disconnect, StartWatch,
         WatchReads, InterruptWatch, hostVars, runVars
<1>2. RowAtPc'
  BY <1>1 DEF IInv, RowAtPc, RunningRow, CompletedRow
<1>3. ASSUME UNCHANGED verdict, Shape', VerdictOnce'
      PROVE  IInv' /\ AbstractStep
  BY <1>1, <1>2, <1>3 DEF IInv, AbstractStep, Lifecycle!lifecycleVars
\* Observe, by the one follower that returns.
<1>4. ASSUME NEW o \in Observers, verdict[o] = None, Final(row),
             verdict' = [verdict EXCEPT ![o] = row.status], Shape', VerdictOnce'
      PROVE  IInv' /\ AbstractStep
  BY <1>1, <1>2, <1>4 DEF IInv, Final, AbstractStep, Lifecycle!Next, Lifecycle!Observe
<1>5. ASSUME NEW s \in Streams,
             \/ OpenStream(s) \/ StreamProgress(s) \/ StreamMisses(s)
             \/ StreamReads(s) \/ Disconnect(s)
      PROVE  IInv' /\ AbstractStep
  <2>1. /\ UNCHANGED watch
        /\ stream' = stream
           \/ \E at \in {"open", "reading", "closed"} :
                 stream' = [stream EXCEPT ![s] = at] /\ stream[s] # "closed"
    BY <1>5 DEF OpenStream, StreamProgress, StreamMisses, StreamReads, Disconnect, Shape, IInv
  <2>2. Shape'
    BY <1>1, <2>1 DEF IInv, Shape
  <2>3. CASE UNCHANGED verdict
    <3>1. VerdictOnce'
      BY <2>1, <2>3 DEF IInv, Shape, VerdictOnce
    <3> QED BY <1>3, <2>2, <2>3, <3>1
  <2>4. CASE StreamReads(s) /\ Final(row) /\ stream' = [stream EXCEPT ![s] = "closed"]
             /\ verdict' = [verdict EXCEPT ![s] = row.status]
    <3>1. verdict[s] = None /\ s \in Observers /\ s \notin Watchers
      BY <2>4, AsyncAssumption
         DEF StreamReads, IInv, VerdictOnce, Observers, AsyncAssumption
    <3>2. VerdictOnce'
      BY <2>1, <2>4, <3>1 DEF IInv, Shape, VerdictOnce, Final
    <3> QED BY <1>4, <2>2, <2>4, <3>1, <3>2
  <2> QED
    BY <1>5, <2>3, <2>4
       DEF OpenStream, StreamProgress, StreamMisses, StreamReads, Disconnect
<1>6. ASSUME NEW w \in Watchers, StartWatch(w) \/ WatchReads(w) \/ InterruptWatch(w)
      PROVE  IInv' /\ AbstractStep
  <2>1. /\ UNCHANGED stream
        /\ \E at \in {"polling", "closed"} :
             watch' = [watch EXCEPT ![w] = at] /\ watch[w] # "closed"
    BY <1>6 DEF StartWatch, WatchReads, InterruptWatch, streamVars
  <2>2. Shape'
    BY <1>1, <2>1 DEF IInv, Shape
  <2>3. CASE UNCHANGED verdict
    <3>1. VerdictOnce'
      BY <2>1, <2>3 DEF IInv, Shape, VerdictOnce
    <3> QED BY <1>3, <2>2, <2>3, <3>1
  <2>4. CASE WatchReads(w) /\ Final(row) /\ verdict' = [verdict EXCEPT ![w] = row.status]
    <3>1. /\ verdict[w] = None /\ w \in Observers /\ w \notin Streams
          /\ watch' = [watch EXCEPT ![w] = "closed"]
      BY <2>4, AsyncAssumption
         DEF WatchReads, IInv, VerdictOnce, Observers, AsyncAssumption
    <3>2. VerdictOnce'
      BY <2>1, <2>4, <3>1 DEF IInv, Shape, VerdictOnce, Final
    <3> QED BY <1>4, <2>2, <2>4, <3>1, <3>2
  <2> QED BY <1>6, <2>3, <2>4 DEF StartWatch, WatchReads, InterruptWatch
<1> QED BY <1>5, <1>6

\* A stuttering step stutters in the lifecycle as well.
LEMMA StutterStep ==
    ASSUME IInv, UNCHANGED vars
    PROVE  IInv' /\ AbstractStep
BY QuietStep DEF vars, hostVars, runVars, followVars, streamVars

\* Every step of the specification, from the groups above.
LEMMA NextStep == IInv /\ [Next]_vars => IInv' /\ AbstractStep
BY CallerStep, ProcessStep, CoordinatorStep, WorkerStep, FollowerStep, StutterStep DEF Next

-----------------------------------------------------------------------------

\* Where the goroutine of StartAsyncRun stands determines the row, and no
\* follower holds a verdict before it returns.
THEOREM RowFollowsRun == SafeSpec => []IInv
<1>1. IInv /\ [Next]_vars => IInv'
  BY NextStep
<1> QED BY InitIInv, <1>1, PTL DEF SafeSpec

\* The asynchronous run as implemented keeps the promise of RunLifecycle: the
\* record settles at most once, with results or as failed, and every stream or
\* watch command that returns a verdict returns what it settled at.
THEOREM Refinement == SafeSpec => ImplementsLifecycle
<1>1. IInv /\ [Next]_vars => [Lifecycle!Next]_(Lifecycle!lifecycleVars)
  BY NextStep DEF AbstractStep
<1> QED
  BY InitAbstract, RowFollowsRun, <1>1, PTL
     DEF SafeSpec, ImplementsLifecycle, Lifecycle!LifecycleSpec

-----------------------------------------------------------------------------
(* What the run keeps in memory: progress, gauges, workers and results.    *)

Total == Cardinality(Assignments)

MemoryTypes ==
    /\ worker \in [Assignments -> {"none", "running", "ok", "failed"}]
    /\ emit \in [Assignments -> {"idle", "loading", "storing", "gauging"}]
    /\ seq \in [Assignments -> Nat]
    /\ copy \in [Assignments -> Progress \cup {None}]
    /\ progress \in Progress \cup {None}
    /\ drained \subseteq Assignments /\ results \subseteq Assignments
    /\ host \in Hosts /\ faults \in Nat

\* An engine runs only while Run waits for it, before it takes any result; a
\* callback runs only while its engine does, and an entry it is about to store
\* back differs from the present one in the latest sample only.
WorkersWithin ==
    \A a \in Assignments :
        /\ worker[a] = "running" => pc = "running" /\ drained = {}
        /\ emit[a] # "idle" => worker[a] = "running" /\ a \notin Remote /\ seq[a] \in 1..MaxSeq
        /\ emit[a] = "storing" =>
             copy[a] # None /\ copy[a].phase = "running" /\ copy[a].total = Total /\ copy[a].done = 0

\* What is taken from the result channel is what ended well.
ResultsExact == results = {a \in drained : worker[a] = "ok"}

\* Where the background goroutine stands says what the entry holds.
ProgressAtPc ==
    /\ pc \in {"none", "planning", "running", "saving", "warning", "clearGauges", "clearProgress",
               "returned", "setFailed", "finish", "ended", "lost"}
    /\ pc \in {"none", "lost"} => progress = None
    /\ pc = "planning" => progress = Entry("queued", 0, 0)
    /\ pc \in {"none", "planning"} => drained = {} /\ \A a \in Assignments : worker[a] = "none"
    /\ pc = "running" => /\ progress # None /\ progress.phase = "running"
                         /\ progress.total = Total /\ progress.done = Cardinality(drained)
    /\ pc \in {"saving", "warning", "clearGauges", "clearProgress"} =>
         /\ drained = Assignments
         /\ progress # None /\ progress.phase \in {"running", "aggregating"}
         /\ progress.total = Total /\ progress.done = Total
    /\ pc \in {"returned", "setFailed"} => progress \in {None, Entry("queued", 0, 0)}
    /\ pc = "returned" /\ ~failed => progress = None
    /\ pc \in {"setFailed", "finish"} => failed
    /\ pc = "finish" => progress = Entry("failed", 0, 0)

MInv == MemoryTypes /\ WorkersWithin /\ ResultsExact /\ ProgressAtPc /\ NothingLeftBehind

\* What the row holds when every call of the store succeeded.
Succeeded == {a \in Assignments : worker[a] = "ok"}
Recorded ==
    row = IF Succeeded = {} THEN FailedRow
          ELSE [CompletedRow(Succeeded) EXCEPT !.warned = Succeeded # Assignments]

StoreOpen == host # "mcp" => storeOpen

RecordedAtPc ==
    host # "mcp" /\ faults = 0 =>
        /\ pc = "warning" => results # Assignments
        /\ pc \in {"clearGauges", "clearProgress", "returned"} =>
             (failed => Succeeded = {}) /\ (~failed => Recorded)
        /\ pc \in {"setFailed", "finish"} => Succeeded = {} /\ Recorded
        /\ pc = "ended" => Recorded

OInv == StoreOpen /\ RecordedAtPc

\* Entries of the progress map are not None.
LEMMA EntryTyped ==
    ASSUME NEW p \in Phases, NEW t \in Nat, NEW d \in Nat
    PROVE  /\ Entry(p, t, d) \in Progress /\ Entry(p, t, d) # None
           /\ Entry(p, t, d).phase = p /\ Entry(p, t, d).total = t /\ Entry(p, t, d).done = d
<1>1. Entry(p, t, d) \in Progress
  BY DEF Entry, Progress
<1> QED BY <1>1, AsyncAssumption DEF Entry

\* The schedule is finite, and counting what was drained takes one more each time.
LEMMA Counting ==
    /\ Total \in Nat /\ Cardinality({}) = 0
    /\ \A D \in SUBSET Assignments : Cardinality(D) \in Nat
    /\ \A D \in SUBSET Assignments : \A a \in Assignments \ D :
          Cardinality(D \cup {a}) = Cardinality(D) + 1
<1>1. \A D \in SUBSET Assignments : IsFiniteSet(D)
  BY AsyncAssumption, FS_Subset
<1> QED BY <1>1, AsyncAssumption, FS_CardinalityType, FS_EmptySet, FS_AddElement DEF Total

\* Nothing has been started.
LEMMA InitMemory == Init => MInv
<1> SUFFICES ASSUME Init PROVE MInv
  OBVIOUS
<1>1. MemoryTypes
  BY DEF Init, MemoryTypes
<1>2. WorkersWithin /\ ResultsExact
  BY DEF Init, WorkersWithin, ResultsExact
<1>3. ProgressAtPc /\ NothingLeftBehind
  BY DEF Init, ProgressAtPc, NothingLeftBehind
<1> QED BY <1>1, <1>2, <1>3 DEF MInv

memory == <<worker, emit, seq, copy, progress, gauges, drained, results, pc, failed, host>>

\* A step that touches none of this.
LEMMA QuietMemory ==
    ASSUME MInv, UNCHANGED memory, faults' \in Nat
    PROVE  MInv'
<1>1. MemoryTypes'
  BY DEF MInv, MemoryTypes, memory
<1>2. WorkersWithin' /\ ResultsExact'
  BY DEF MInv, WorkersWithin, ResultsExact, memory
<1>3. ProgressAtPc' /\ NothingLeftBehind'
  BY DEF MInv, ProgressAtPc, NothingLeftBehind, Entry, memory
<1> QED BY <1>1, <1>2, <1>3 DEF MInv

\* The memory of a process that ends is gone, and so are its goroutines.
LEMMA EndingMemory ==
    ASSUME MInv, ProcessEnds
    PROVE  MInv'
<1>1. /\ progress' = None /\ gauges' = {}
      /\ pc' = IF pc \in {"none", "ended"} THEN pc ELSE "lost"
      /\ UNCHANGED <<drained, results, failed, seq, host, faults>>
  BY DEF ProcessEnds, runVars
<1>2. /\ worker' \in [Assignments -> {"none", "running", "ok", "failed"}]
      /\ emit' \in [Assignments -> {"idle", "loading", "storing", "gauging"}]
      /\ copy' \in [Assignments -> Progress \cup {None}]
      /\ \A a \in Assignments : /\ worker'[a] # "running" /\ emit'[a] = "idle"
                                /\ worker'[a] = "ok" <=> worker[a] = "ok"
                                /\ worker[a] = "none" => worker'[a] = "none"
  BY DEF ProcessEnds, MInv, MemoryTypes
<1>3. MemoryTypes'
  BY <1>1, <1>2 DEF MInv, MemoryTypes
<1>4. WorkersWithin'
  BY <1>2 DEF WorkersWithin
<1>5. ResultsExact'
  BY <1>1, <1>2 DEF MInv, MemoryTypes, ResultsExact
<1>6. ProgressAtPc' /\ NothingLeftBehind'
  BY <1>1, <1>2 DEF MInv, ProgressAtPc, NothingLeftBehind
<1> QED BY <1>3, <1>4, <1>5, <1>6 DEF MInv

\* The call of StartAsyncRun: the entry is there before the goroutine is.
LEMMA CallerMemory ==
    ASSUME IInv, MInv, Caller
    PROVE  MInv'
<1>1. CASE StartAsyncRun
  BY <1>1, QuietMemory DEF StartAsyncRun, hostVars, memoryVars, runVars, workerVars, memory,
                           MInv, MemoryTypes
<1>2. CASE SavePlaceholder
  <2>1. faults' \in Nat
    BY <1>2 DEF SavePlaceholder, SaveSucceeds, SaveFails, Fault, MInv, MemoryTypes
  <2> QED BY <1>2, <2>1, QuietMemory DEF SavePlaceholder, memoryVars, runVars, workerVars, memory
<1>3. CASE SetQueued
  <2>1. /\ pc = "none" /\ pc' = "planning" /\ progress' = Entry("queued", 0, 0) /\ gauges' = {}
        /\ UNCHANGED <<worker, emit, seq, copy, drained, results, failed, host, faults>>
    BY <1>3 DEF SetQueued, IInv, RowAtPc, runVars, workerVars
  <2>2. Entry("queued", 0, 0) \in Progress
    BY EntryTyped DEF Phases
  <2>3. MemoryTypes'
    BY <2>1, <2>2 DEF MInv, MemoryTypes
  <2>4. WorkersWithin' /\ ResultsExact'
    BY <2>1 DEF MInv, WorkersWithin, ResultsExact
  <2>5. ProgressAtPc' /\ NothingLeftBehind'
    BY <2>1 DEF MInv, ProgressAtPc, NothingLeftBehind, Entry
  <2> QED BY <2>3, <2>4, <2>5 DEF MInv
<1>4. CASE CallerReturns
  <2>1. CASE host = "cli" /\ ProcessEnds
    BY <2>1, EndingMemory
  <2>2. CASE ~(host = "cli" /\ ProcessEnds)
    <3>1. UNCHANGED <<host, row, memoryVars, pc, runVars, workerVars, faults>>
      BY <1>4, <2>2 DEF CallerReturns
    <3> QED BY <3>1, QuietMemory DEF memoryVars, runVars, workerVars, memory, MInv, MemoryTypes
  <2> QED BY <2>1, <2>2
<1> QED BY <1>1, <1>2, <1>3, <1>4 DEF Caller

\* The process ends, or the server comes up again.
LEMMA ProcessMemory ==
    ASSUME MInv, WatchExits \/ Crash \/ Restart
    PROVE  MInv'
<1>1. CASE WatchExits \/ Crash
  BY <1>1, EndingMemory DEF WatchExits, Crash
<1>2. CASE Restart
  BY <1>2, QuietMemory DEF Restart, memoryVars, runVars, workerVars, memory, MInv, MemoryTypes
<1> QED BY <1>1, <1>2

\* Followers look at memory and do not change it.
LEMMA FollowerMemory ==
    ASSUME MInv,
           \/ \E s \in Streams : \/ OpenStream(s) \/ StreamProgress(s)
                                \/ StreamMisses(s) \/ StreamReads(s) \/ Disconnect(s)
           \/ \E w \in Watchers : StartWatch(w) \/ WatchReads(w) \/ InterruptWatch(w)
    PROVE  MInv'
<1>1. UNCHANGED <<hostVars, memoryVars, pc, runVars, workerVars>>
  BY DEF OpenStream, StreamProgress, StreamMisses, StreamReads, Disconnect, StartWatch,
         WatchReads, InterruptWatch
<1>2. faults' = faults \/ faults' = faults + 1
  BY DEF OpenStream, StreamProgress, StreamMisses, StreamReads, Disconnect, StartWatch,
         WatchReads, InterruptWatch, Fault
<1>3. faults' \in Nat
  BY <1>2 DEF MInv, MemoryTypes
<1> QED BY <1>1, <1>3, QuietMemory DEF hostVars, memoryVars, runVars, workerVars, memory

\* A report, its load and its store: the entry stored back is the one there,
\* for while an engine runs nothing is counted.
LEMMA WorkerMemory ==
    ASSUME MInv, NEW a \in Assignments, Report(a) \/ EmitStep(a) \/ AssignmentEnds(a)
    PROVE  MInv'
<1>1. UNCHANGED <<pc, drained, results, failed, host, faults>>
  BY DEF Report, EmitStep, LoadProgress, StoreProgress, RecordLiveInterval, AssignmentEnds,
         hostVars, runVars
<1>2. /\ worker[a] = "running" /\ pc = "running" /\ drained = {} /\ pc' = "running"
      /\ progress \in Progress /\ progress # None /\ progress.phase = "running"
      /\ progress.total = Total /\ progress.done = 0
  <2>1. worker[a] = "running"
    BY DEF Report, EmitStep, LoadProgress, StoreProgress, RecordLiveInterval, AssignmentEnds,
           MInv, WorkersWithin
  <2> QED BY <1>1, <2>1, Counting DEF MInv, MemoryTypes, WorkersWithin, ProgressAtPc
\* The rest follows from what happens to worker, callback and entry.
<1>3. ASSUME MemoryTypes', WorkersWithin', ResultsExact',
             progress' \in Progress, progress'.phase = "running",
             progress'.total = Total, progress'.done = 0
      PROVE  MInv'
  <2>1. progress' # None
    BY <1>3, AsyncAssumption
  <2>2. ProgressAtPc' /\ NothingLeftBehind'
    BY <1>1, <1>2, <1>3, <2>1, Counting DEF ProgressAtPc, NothingLeftBehind
  <2> QED BY <1>3, <2>2 DEF MInv
<1>4. CASE Report(a)
  <2>1. /\ UNCHANGED <<worker, copy, progress>>
        /\ seq' = [seq EXCEPT ![a] = seq[a] + 1] /\ emit' = [emit EXCEPT ![a] = "loading"]
        /\ a \notin Remote /\ seq[a] < MaxSeq /\ emit[a] = "idle"
    BY <1>4 DEF Report, memoryVars
  <2>2. seq[a] + 1 \in 1..MaxSeq
    BY <2>1, AsyncAssumption DEF MInv, MemoryTypes
  <2>3. MemoryTypes'
    BY <1>1, <2>1, <2>2 DEF MInv, MemoryTypes
  <2>4. /\ emit'[a] = "loading" /\ seq'[a] = seq[a] + 1
        /\ \A b \in Assignments : b # a => emit'[b] = emit[b] /\ seq'[b] = seq[b]
    BY <2>1 DEF MInv, MemoryTypes
  <2>5. WorkersWithin'
    BY <1>1, <1>2, <2>1, <2>2, <2>4 DEF MInv, WorkersWithin
  <2>6. ResultsExact'
    BY <1>1, <2>1 DEF MInv, ResultsExact
  <2> QED BY <1>2, <1>3, <2>1, <2>3, <2>5, <2>6
<1>5. CASE LoadProgress(a)
  <2> DEFINE p == [progress EXCEPT !.latest = <<a, seq[a]>>]
  <2>1. /\ UNCHANGED <<worker, seq, progress>> /\ emit[a] = "loading"
        /\ emit' = [emit EXCEPT ![a] = "storing"] /\ copy' = [copy EXCEPT ![a] = p]
    BY <1>2, <1>5 DEF LoadProgress, memoryVars
  <2>2. a \notin Remote /\ seq[a] \in 1..MaxSeq
    BY <2>1 DEF MInv, WorkersWithin
  <2>3. p \in Progress /\ p.phase = "running" /\ p.total = Total /\ p.done = 0
    <3>1. <<a, seq[a]>> \in Samples
      BY <2>2 DEF Samples
    <3> QED BY <1>2, <3>1 DEF Progress
  <2> HIDE DEF p
  <2>4. p # None
    BY <2>3, AsyncAssumption
  <2>5. MemoryTypes'
    BY <1>1, <2>1, <2>3 DEF MInv, MemoryTypes
  <2>6. /\ emit'[a] = "storing" /\ copy'[a] = p
        /\ \A b \in Assignments : b # a => emit'[b] = emit[b] /\ copy'[b] = copy[b]
    BY <2>1 DEF MInv, MemoryTypes
  <2>7. WorkersWithin'
    BY <1>1, <1>2, <2>1, <2>2, <2>3, <2>4, <2>6 DEF MInv, WorkersWithin
  <2>8. ResultsExact'
    BY <1>1, <2>1 DEF MInv, ResultsExact
  <2> QED BY <1>2, <1>3, <2>1, <2>5, <2>7, <2>8
<1>6. CASE StoreProgress(a)
  <2>1. /\ UNCHANGED <<worker, seq>> /\ emit[a] = "storing" /\ progress' = copy[a]
        /\ emit' = [emit EXCEPT ![a] = "gauging"] /\ copy' = [copy EXCEPT ![a] = None]
    BY <1>6 DEF StoreProgress
  <2>2. /\ copy[a] \in Progress /\ copy[a].phase = "running"
        /\ copy[a].total = Total /\ copy[a].done = 0
    BY <2>1 DEF MInv, MemoryTypes, WorkersWithin
  <2>3. MemoryTypes'
    BY <1>1, <2>1, <2>2 DEF MInv, MemoryTypes
  <2>4. /\ emit'[a] = "gauging"
        /\ \A b \in Assignments : b # a => emit'[b] = emit[b] /\ copy'[b] = copy[b]
    BY <2>1 DEF MInv, MemoryTypes
  <2>5. WorkersWithin'
    BY <1>1, <1>2, <2>1, <2>4 DEF MInv, WorkersWithin
  <2>6. ResultsExact'
    BY <1>1, <2>1 DEF MInv, ResultsExact
  <2> QED BY <1>3, <2>1, <2>2, <2>3, <2>5, <2>6
<1>7. CASE RecordLiveInterval(a)
  <2>1. /\ UNCHANGED <<worker, seq, copy, progress>> /\ emit' = [emit EXCEPT ![a] = "idle"]
    BY <1>7 DEF RecordLiveInterval
  <2>2. MemoryTypes'
    BY <1>1, <2>1 DEF MInv, MemoryTypes
  <2>3. emit'[a] = "idle" /\ \A b \in Assignments : b # a => emit'[b] = emit[b]
    BY <2>1 DEF MInv, MemoryTypes
  <2>4. WorkersWithin'
    BY <1>1, <2>1, <2>3 DEF MInv, WorkersWithin
  <2>5. ResultsExact'
    BY <1>1, <2>1 DEF MInv, ResultsExact
  <2> QED BY <1>2, <1>3, <2>1, <2>2, <2>4, <2>5
<1>8. CASE AssignmentEnds(a)
  <2>1. /\ UNCHANGED <<seq, emit, copy, progress>> /\ emit[a] = "idle"
        /\ \E t \in {"ok", "failed"} : worker' = [worker EXCEPT ![a] = t]
    BY <1>8 DEF AssignmentEnds, RunnerReturns, memoryVars
  <2>2. MemoryTypes'
    BY <1>1, <2>1 DEF MInv, MemoryTypes
  <2>3. worker'[a] # "running" /\ \A b \in Assignments : b # a => worker'[b] = worker[b]
    BY <2>1 DEF MInv, MemoryTypes
  <2>4. WorkersWithin'
    BY <1>1, <2>1, <2>3 DEF MInv, WorkersWithin
  <2>5. ResultsExact'
    BY <1>1, <1>2 DEF MInv, ResultsExact
  <2> QED BY <1>2, <1>3, <2>1, <2>2, <2>4, <2>5
<1> QED BY <1>4, <1>5, <1>6, <1>7, <1>8 DEF EmitStep

\* The goroutine goes on after the engines have ended: what is left to show is
\* the entry and the gauges.
LEMMA CoordinatorMoves ==
    ASSUME MInv, UNCHANGED <<host, worker, seq, emit, copy, drained, results>>,
           faults' \in Nat, progress' \in Progress \cup {None},
           \A a \in Assignments : worker[a] # "running",
           ProgressAtPc', NothingLeftBehind'
    PROVE  MInv'
<1>1. MemoryTypes'
  BY DEF MInv, MemoryTypes
<1>2. WorkersWithin' /\ ResultsExact'
  BY DEF MInv, WorkersWithin, ResultsExact
<1> QED BY <1>1, <1>2 DEF MInv

\* A save changes the row, and the count of faults.
LEMMA SaveFaults ==
    ASSUME MInv, NEW r, SaveSucceeds(r) \/ SaveFails
    PROVE  /\ faults' \in Nat /\ (faults' = 0 => faults = 0)
           /\ SaveFails /\ storeOpen => faults' # 0
BY DEF SaveSucceeds, SaveFails, Fault, MInv, MemoryTypes

\* The background goroutine: one result counted for each one taken, the entry
\* replaced by an exact one, and at last removed.
LEMMA CoordinatorMemory ==
    ASSUME MInv, Coordinator
    PROVE  MInv'
<1>1. progress \in Progress \cup {None} /\ faults \in Nat
  BY DEF MInv, MemoryTypes
<1>2. ASSUME pc # "running" \/ drained = Assignments
      PROVE  \A a \in Assignments : worker[a] # "running"
  BY <1>2, AsyncAssumption DEF MInv, WorkersWithin
<1>3. CASE RefusePlan
  <2>1. /\ pc = "planning" /\ pc' = "returned" /\ failed' = TRUE /\ UNCHANGED progress
        /\ UNCHANGED <<host, worker, seq, emit, copy, drained, results, faults>>
    BY <1>3 DEF RefusePlan, hostVars, memoryVars, workerVars
  <2>2. ProgressAtPc' /\ NothingLeftBehind'
    BY <2>1 DEF MInv, ProgressAtPc, NothingLeftBehind, Entry
  <2> QED BY <1>1, <1>2, <2>1, <2>2, CoordinatorMoves
<1>4. CASE Launch
  <2>1. /\ pc = "planning" /\ pc' = "running" /\ progress' = Entry("running", Total, 0)
        /\ worker' = [a \in Assignments |-> "running"]
        /\ UNCHANGED <<host, seq, emit, copy, drained, results, failed, faults>>
    BY <1>4 DEF Launch, hostVars, runVars, Total
  <2>2. drained = {} /\ \A a \in Assignments : worker[a] = "none"
    BY <2>1 DEF MInv, ProgressAtPc
  <2>3. /\ progress' \in Progress /\ progress' # None /\ progress'.phase = "running"
        /\ progress'.total = Total /\ progress'.done = 0
    BY <2>1, EntryTyped, Counting DEF Phases
  <2>4. MemoryTypes'
    BY <2>1, <2>3 DEF MInv, MemoryTypes
  <2>5. WorkersWithin' /\ ResultsExact'
    BY <2>1, <2>2 DEF MInv, WorkersWithin, ResultsExact
  <2>6. ProgressAtPc' /\ NothingLeftBehind'
    BY <2>1, <2>2, <2>3, Counting DEF ProgressAtPc, NothingLeftBehind
  <2> QED BY <2>4, <2>5, <2>6 DEF MInv
<1>5. CASE AllFailed
  <2>1. /\ pc = "running" /\ drained = Assignments /\ pc' = "clearGauges" /\ failed' = TRUE
        /\ UNCHANGED <<host, progress, worker, seq, emit, copy, drained, results, faults>>
    BY <1>5 DEF AllFailed, hostVars, memoryVars, workerVars
  <2>2. ProgressAtPc' /\ NothingLeftBehind'
    BY <2>1 DEF MInv, ProgressAtPc, NothingLeftBehind, Total
  <2> QED BY <1>1, <1>2, <2>1, <2>2, CoordinatorMoves
<1>6. CASE Aggregate
  <2>1. /\ pc = "running" /\ drained = Assignments /\ pc' = "saving"
        /\ progress' = Entry("aggregating", Total, Total)
        /\ UNCHANGED <<host, worker, seq, emit, copy, drained, results, failed, faults>>
    BY <1>6 DEF Aggregate, hostVars, runVars, workerVars, Total
  <2>2. /\ progress' \in Progress /\ progress' # None /\ progress'.phase = "aggregating"
        /\ progress'.total = Total /\ progress'.done = Total
    BY <2>1, EntryTyped, Counting DEF Phases
  <2>3. ProgressAtPc' /\ NothingLeftBehind'
    BY <2>1, <2>2 DEF ProgressAtPc, NothingLeftBehind
  <2> QED BY <1>1, <1>2, <2>1, <2>2, <2>3, CoordinatorMoves
<1>7. CASE SaveRun \/ SaveWarning
  <2>1. /\ pc \in {"saving", "warning"} /\ pc' \in {"warning", "clearGauges"}
        /\ UNCHANGED <<host, progress, worker, seq, emit, copy, drained, results>>
    BY <1>7 DEF SaveRun, SaveWarning, hostVars, memoryVars, runVars, workerVars
  <2>2. faults' \in Nat
    BY <1>7, SaveFaults DEF SaveRun, SaveWarning
  <2>3. ProgressAtPc' /\ NothingLeftBehind'
    BY <2>1 DEF MInv, ProgressAtPc, NothingLeftBehind, Total
  <2> QED BY <1>1, <1>2, <2>1, <2>2, <2>3, CoordinatorMoves
<1>8. CASE ClearGauges
  <2>1. /\ pc = "clearGauges" /\ pc' = "clearProgress"
        /\ UNCHANGED <<host, progress, worker, seq, emit, copy, drained, results, failed, faults>>
    BY <1>8 DEF ClearGauges, hostVars, runVars, workerVars
  <2>2. ProgressAtPc' /\ NothingLeftBehind'
    BY <2>1 DEF MInv, ProgressAtPc, NothingLeftBehind, Total
  <2> QED BY <1>1, <1>2, <2>1, <2>2, CoordinatorMoves
<1>9. CASE ClearProgress
  <2>1. /\ pc = "clearProgress" /\ pc' = "returned" /\ progress' = None
        /\ UNCHANGED <<host, worker, seq, emit, copy, drained, results, failed, faults>>
    BY <1>9 DEF ClearProgress, hostVars, runVars, workerVars
  <2>2. ProgressAtPc' /\ NothingLeftBehind'
    BY <2>1 DEF ProgressAtPc, NothingLeftBehind
  <2> QED BY <1>1, <1>2, <2>1, <2>2, CoordinatorMoves
<1>10. CASE SaveFailed
  <2>1. /\ pc = "returned" /\ failed /\ pc' = "setFailed"
        /\ UNCHANGED <<host, progress, worker, seq, emit, copy, drained, results, failed>>
    BY <1>10 DEF SaveFailed, hostVars, memoryVars, runVars, workerVars
  <2>2. faults' \in Nat
    BY <1>10, SaveFaults DEF SaveFailed
  <2>3. ProgressAtPc' /\ NothingLeftBehind'
    BY <2>1 DEF MInv, ProgressAtPc, NothingLeftBehind, Entry
  <2> QED BY <1>1, <1>2, <2>1, <2>2, <2>3, CoordinatorMoves
<1>11. CASE SetFailed
  <2>1. /\ pc = "setFailed" /\ pc' = "finish" /\ progress' = Entry("failed", 0, 0)
        /\ UNCHANGED <<host, worker, seq, emit, copy, drained, results, failed, faults>>
    BY <1>11 DEF SetFailed, hostVars, runVars, workerVars
  <2>2. progress' \in Progress
    BY <2>1, EntryTyped DEF Phases
  <2>3. ProgressAtPc' /\ NothingLeftBehind'
    BY <2>1 DEF MInv, ProgressAtPc, NothingLeftBehind, Entry
  <2> QED BY <1>1, <1>2, <2>1, <2>2, <2>3, CoordinatorMoves
<1>12. CASE Finish
  <2>1. /\ pc = "finish" \/ (pc = "returned" /\ ~failed)
        /\ UNCHANGED <<host, progress, worker, seq, emit, copy, drained, results, failed, faults>>
    BY <1>12 DEF Finish, hostVars, runVars, workerVars
  <2>2. pc' = "ended" /\ gauges' = {}
    BY <1>12 DEF Finish
  <2>3. ProgressAtPc' /\ NothingLeftBehind'
    BY <2>1, <2>2 DEF MInv, ProgressAtPc, NothingLeftBehind, Entry
  <2> QED BY <1>1, <1>2, <2>1, <2>3, CoordinatorMoves
<1>13. ASSUME NEW a \in Assignments, DrainItem(a)
       PROVE  MInv'
  <2>1. /\ pc = "running" /\ pc' = "running" /\ a \notin drained /\ drained' = drained \cup {a}
        /\ \A b \in Assignments : worker[b] # "running"
        /\ results' = IF worker[a] = "ok" THEN results \cup {a} ELSE results
        /\ UNCHANGED <<host, worker, seq, emit, copy, failed, faults>>
    BY <1>13 DEF DrainItem, hostVars, workerVars
  <2>2. progress # None /\ progress.phase = "running" /\ progress.total = Total
        /\ progress.done = Cardinality(drained) /\ progress \in Progress
    BY <1>1, <2>1 DEF MInv, ProgressAtPc
  <2>3. drained \in SUBSET Assignments /\ drained' \in SUBSET Assignments
        /\ results' \subseteq Assignments
    BY <2>1 DEF MInv, MemoryTypes
  <2>4. Cardinality(drained) \in Nat /\ Cardinality(drained') = Cardinality(drained) + 1
    BY <2>1, <2>3, Counting
  <2>5. progress' = [progress EXCEPT !.done = progress.done + 1]
    BY <1>13, <2>2 DEF DrainItem, RecordDone
  <2>6. /\ progress' \in Progress /\ progress'.phase = "running" /\ progress'.total = Total
        /\ progress'.done = Cardinality(drained')
    BY <2>2, <2>4, <2>5 DEF Progress
  <2>7. progress' # None
    BY <2>6, AsyncAssumption
  <2>8. MemoryTypes'
    BY <2>1, <2>3, <2>6 DEF MInv, MemoryTypes
  <2>9. WorkersWithin'
    BY <2>1 DEF MInv, WorkersWithin
  <2>10. ResultsExact'
    BY <2>1 DEF MInv, ResultsExact
  <2>11. ProgressAtPc' /\ NothingLeftBehind'
    BY <2>1, <2>6, <2>7 DEF ProgressAtPc, NothingLeftBehind
  <2> QED BY <2>8, <2>9, <2>10, <2>11 DEF MInv
<1> QED BY <1>3, <1>4, <1>5, <1>6, <1>7, <1>8, <1>9, <1>10, <1>11, <1>12, <1>13 DEF Coordinator

\* Every step keeps what is in memory exact.
LEMMA NextMemory == IInv /\ MInv /\ [Next]_vars => MInv'
<1> SUFFICES ASSUME IInv, MInv, [Next]_vars PROVE MInv'
  OBVIOUS
<1>1. CASE UNCHANGED vars
  BY <1>1, QuietMemory DEF vars, hostVars, memoryVars, runVars, workerVars, memory, MInv, MemoryTypes
<1>2. CASE Next
  BY <1>2, CallerMemory, ProcessMemory, CoordinatorMemory, WorkerMemory, FollowerMemory DEF Next
<1> QED BY <1>1, <1>2

-----------------------------------------------------------------------------
(* The row of an ended run, when the store answers every call.             *)

\* Nothing has ended.
LEMMA InitRecorded == Init => OInv
BY DEF Init, OInv, StoreOpen, RecordedAtPc

\* Before the first result is saved, or after a crash, nothing is claimed.
Early == {"none", "planning", "running", "saving", "lost"}

\* A step that leaves row and outcome alone.
LEMMA QuietRecorded ==
    ASSUME OInv, UNCHANGED <<host, storeOpen, row, failed, results>>, Succeeded' = Succeeded,
           faults' = 0 => faults = 0, pc' = pc \/ pc' \in Early
    PROVE  OInv'
<1>1. StoreOpen'
  BY DEF OInv, StoreOpen
<1>2. Recorded => Recorded'
  BY DEF Recorded, FailedRow, CompletedRow
<1>3. CASE pc' \in Early
  BY <1>1, <1>3 DEF OInv, RecordedAtPc, Early
<1>4. CASE pc' = pc
  BY <1>1, <1>2, <1>4 DEF OInv, RecordedAtPc
<1> QED BY <1>3, <1>4

\* A step during which nothing is claimed.
LEMMA EarlyRecorded ==
    ASSUME OInv, host' = host, storeOpen' = storeOpen \/ host = "mcp", pc' \in Early
    PROVE  OInv'
BY DEF OInv, StoreOpen, RecordedAtPc, Early

\* A process that ends takes no result away.
LEMMA EndingRecorded ==
    ASSUME MInv, OInv, ProcessEnds
    PROVE  OInv'
<1>1. /\ UNCHANGED <<host, storeOpen, row, failed, results, faults>>
      /\ pc' = pc \/ pc' = "lost"
  BY DEF ProcessEnds, runVars
<1>2. \A a \in Assignments : worker'[a] = "ok" <=> worker[a] = "ok"
  BY DEF ProcessEnds, MInv, MemoryTypes
<1>3. Succeeded' = Succeeded
  BY <1>2 DEF Succeeded
<1> QED BY <1>1, <1>3, QuietRecorded DEF Early

\* What is not the background goroutine records no outcome.
LEMMA OthersRecorded ==
    ASSUME IInv, MInv, OInv,
           \/ Caller \/ WatchExits \/ Crash \/ Restart
           \/ \E a \in Assignments : Report(a) \/ EmitStep(a) \/ AssignmentEnds(a)
           \/ \E s \in Streams : \/ OpenStream(s) \/ StreamProgress(s)
                                \/ StreamMisses(s) \/ StreamReads(s) \/ Disconnect(s)
           \/ \E w \in Watchers : StartWatch(w) \/ WatchReads(w) \/ InterruptWatch(w)
           \/ UNCHANGED vars
    PROVE  OInv'
<1>1. ASSUME UNCHANGED <<host, storeOpen, row, failed, results, worker, pc, faults>>
      PROVE  OInv'
  BY <1>1, QuietRecorded DEF Succeeded
<1>2. CASE StartAsyncRun \/ Restart \/ UNCHANGED vars
  BY <1>1, <1>2 DEF StartAsyncRun, Restart, vars, hostVars, runVars, workerVars
<1>3. CASE SavePlaceholder \/ SetQueued
  <2>1. host' = host /\ storeOpen' = storeOpen /\ pc' \in Early
    BY <1>3 DEF SavePlaceholder, SetQueued, IInv, RowAtPc, hostVars, Early
  <2> QED BY <2>1, EarlyRecorded
<1>4. CASE CallerReturns
  <2>1. CASE host = "cli" /\ ProcessEnds
    BY <2>1, EndingRecorded
  <2>2. CASE host \in {"api", "watch"} /\ ~ProcessEnds
    BY <1>1, <1>4, <2>2 DEF CallerReturns, runVars, workerVars
  <2>3. CASE host = "mcp" /\ ~ProcessEnds
    <3>1. host' = host
      BY <1>4, <2>3 DEF CallerReturns
    <3> QED BY <2>3, <3>1 DEF OInv, StoreOpen, RecordedAtPc
  <2> QED BY <1>4, <2>1, <2>2, <2>3, EndingRecorded DEF CallerReturns
<1>5. CASE WatchExits \/ Crash
  BY <1>5, EndingRecorded DEF WatchExits, Crash
<1>6. ASSUME NEW a \in Assignments, Report(a) \/ EmitStep(a) \/ AssignmentEnds(a)
      PROVE  OInv'
  <2>1. worker[a] = "running"
    BY <1>6 DEF Report, EmitStep, LoadProgress, StoreProgress, RecordLiveInterval, AssignmentEnds,
                MInv, WorkersWithin
  <2>2. pc = "running"
    BY <2>1 DEF MInv, WorkersWithin
  <2>3. host' = host /\ storeOpen' = storeOpen /\ pc' = pc
    BY <1>6 DEF Report, EmitStep, LoadProgress, StoreProgress, RecordLiveInterval, AssignmentEnds,
                hostVars
  <2> QED BY <2>2, <2>3, EarlyRecorded DEF Early
<1>7. CASE \/ \E s \in Streams : \/ OpenStream(s) \/ StreamProgress(s)
                                 \/ StreamMisses(s) \/ StreamReads(s) \/ Disconnect(s)
           \/ \E w \in Watchers : StartWatch(w) \/ WatchReads(w) \/ InterruptWatch(w)
  <2>1. UNCHANGED <<hostVars, row, pc, runVars, workerVars>>
    BY <1>7 DEF OpenStream, StreamProgress, StreamMisses, StreamReads, Disconnect, StartWatch,
                WatchReads, InterruptWatch
  <2>2. faults' = faults \/ faults' = faults + 1
    BY <1>7 DEF OpenStream, StreamProgress, StreamMisses, StreamReads, Disconnect, StartWatch,
                WatchReads, InterruptWatch, Fault
  <2>3. faults' = 0 => faults = 0
    BY <2>2 DEF MInv, MemoryTypes
  <2> QED BY <2>1, <2>3, QuietRecorded DEF hostVars, runVars, workerVars, Succeeded
<1> QED BY <1>2, <1>3, <1>4, <1>5, <1>6, <1>7 DEF Caller

\* The background goroutine: SaveRun records the results, SaveWarning marks
\* the missing ones, SaveFailed records a run without any.
LEMMA CoordinatorRecorded ==
    ASSUME IInv, MInv, OInv, Coordinator
    PROVE  OInv'
<1>1. /\ UNCHANGED <<host, storeOpen>> /\ StoreOpen'
      /\ host # "mcp" => storeOpen
  BY DEF Coordinator, RefusePlan, Launch, AllFailed, Aggregate, SaveRun, SaveWarning,
         ClearGauges, ClearProgress, SaveFailed, SetFailed, Finish, DrainItem, hostVars,
         OInv, StoreOpen
<1>2. ASSUME drained = Assignments PROVE Succeeded = results
  BY <1>2 DEF MInv, ResultsExact, Succeeded
<1>3. ASSUME UNCHANGED worker PROVE Succeeded' = Succeeded
  BY <1>3 DEF Succeeded
<1>4. SUFFICES ASSUME host # "mcp", faults' = 0, storeOpen
               PROVE  RecordedAtPc'
  BY <1>1 DEF OInv, RecordedAtPc
<1>5. faults = 0 /\ ~SaveFails
  <2>1. faults' = faults \/ faults' = faults + 1
    BY DEF Coordinator, RefusePlan, Launch, AllFailed, Aggregate, SaveRun, SaveWarning,
           ClearGauges, ClearProgress, SaveFailed, SetFailed, Finish, DrainItem,
           SaveSucceeds, SaveFails, Fault
  <2> QED BY <1>4, <2>1 DEF MInv, MemoryTypes, SaveFails, Fault
<1>6. CASE RefusePlan
  <2>1. pc' = "returned" /\ failed' = TRUE /\ UNCHANGED worker /\ pc = "planning"
    BY <1>6 DEF RefusePlan, workerVars
  <2>2. Succeeded = {}
    BY <2>1 DEF MInv, ProgressAtPc, Succeeded
  <2> QED BY <1>3, <2>1, <2>2 DEF RecordedAtPc
<1>7. CASE Launch \/ Aggregate \/ \E a \in Assignments : DrainItem(a)
  <2>1. pc' \in Early
    BY <1>7 DEF Launch, Aggregate, DrainItem, Early
  <2> QED BY <2>1 DEF RecordedAtPc, Early
<1>8. CASE AllFailed
  <2>1. pc' = "clearGauges" /\ failed' = TRUE /\ drained = Assignments /\ results = {}
        /\ UNCHANGED worker
    BY <1>8 DEF AllFailed, workerVars
  <2> QED BY <1>2, <1>3, <2>1 DEF RecordedAtPc
<1>9. CASE SaveRun
  <2>1. /\ pc = "saving" /\ drained = Assignments /\ results # {} /\ ~failed
        /\ UNCHANGED <<worker, results>>
    BY <1>9 DEF SaveRun, IInv, RowAtPc, MInv, ProgressAtPc, workerVars
  <2>2. /\ row' = CompletedRow(results) /\ failed' = failed
        /\ pc' = IF results = Assignments THEN "clearGauges" ELSE "warning"
    BY <1>5, <1>9 DEF SaveRun, SaveSucceeds
  <2>3. Succeeded' = results
    BY <1>2, <1>3, <2>1
  <2>4. CASE results = Assignments
    <3>1. Recorded'
      BY <2>1, <2>2, <2>3, <2>4 DEF Recorded, CompletedRow
    <3> QED BY <2>1, <2>2, <2>4, <3>1 DEF RecordedAtPc
  <2>5. CASE results # Assignments
    BY <2>1, <2>2, <2>5 DEF RecordedAtPc
  <2> QED BY <2>4, <2>5
<1>10. CASE SaveWarning
  <2>1. /\ pc = "warning" /\ pc' = "clearGauges" /\ drained = Assignments /\ ~failed
        /\ results \notin {{}, Assignments} /\ UNCHANGED <<worker, failed>>
    BY <1>10 DEF SaveWarning, IInv, RowAtPc, MInv, ProgressAtPc, workerVars, runVars
  <2>2. row' = [CompletedRow(results) EXCEPT !.warned = TRUE]
    BY <1>5, <1>10 DEF SaveWarning, SaveSucceeds
  <2>3. Succeeded' = results
    BY <1>2, <1>3, <2>1
  <2>4. Recorded'
    BY <2>1, <2>2, <2>3 DEF Recorded, CompletedRow
  <2> QED BY <2>1, <2>4 DEF RecordedAtPc
<1>11. CASE ClearGauges \/ ClearProgress
  <2>1. /\ pc \in {"clearGauges", "clearProgress"} /\ pc' \in {"clearProgress", "returned"}
        /\ UNCHANGED <<row, worker, failed, results>>
    BY <1>11 DEF ClearGauges, ClearProgress, runVars, workerVars
  <2>2. Recorded => Recorded'
    BY <1>3, <2>1 DEF Recorded, CompletedRow, FailedRow
  <2> QED BY <1>3, <1>4, <1>5, <2>1, <2>2 DEF OInv, RecordedAtPc
<1>12. CASE SaveFailed
  <2>1. pc = "returned" /\ failed /\ pc' = "setFailed" /\ row' = FailedRow /\ UNCHANGED worker
    BY <1>5, <1>12 DEF SaveFailed, SaveSucceeds, workerVars
  <2>2. Succeeded' = {}
    BY <1>3, <1>4, <1>5, <2>1 DEF OInv, RecordedAtPc
  <2>3. Recorded'
    BY <2>1, <2>2 DEF Recorded, FailedRow
  <2> QED BY <2>1, <2>2, <2>3 DEF RecordedAtPc
<1>13. CASE SetFailed
  <2>1. pc = "setFailed" /\ pc' = "finish" /\ UNCHANGED <<row, worker>>
    BY <1>13 DEF SetFailed, workerVars
  <2>2. Recorded => Recorded'
    BY <1>3, <2>1 DEF Recorded, CompletedRow, FailedRow
  <2> QED BY <1>3, <1>4, <1>5, <2>1, <2>2 DEF OInv, RecordedAtPc
<1>14. CASE Finish
  <2>1. /\ pc = "finish" \/ (pc = "returned" /\ ~failed)
        /\ pc' = "ended" /\ UNCHANGED <<row, worker>>
    BY <1>14 DEF Finish, workerVars
  <2>2. Recorded => Recorded'
    BY <1>3, <2>1 DEF Recorded, CompletedRow, FailedRow
  <2> QED BY <1>4, <1>5, <2>1, <2>2 DEF OInv, RecordedAtPc
<1> QED
  BY <1>6, <1>7, <1>8, <1>9, <1>10, <1>11, <1>12, <1>13, <1>14 DEF Coordinator

\* Every step keeps the row that of the outcome.
LEMMA NextRecorded == IInv /\ MInv /\ OInv /\ [Next]_vars => OInv'
BY OthersRecorded, CoordinatorRecorded DEF Next

-----------------------------------------------------------------------------
\* The entry, the gauges and the results in memory are those of where the
\* background goroutine stands, whatever interval callbacks store back.
THEOREM MemoryFollowsRun == SafeSpec => []MInv
<1>1. IInv /\ MInv /\ [Next]_vars => MInv'
  BY NextMemory
<1> QED BY InitMemory, RowFollowsRun, <1>1, PTL DEF SafeSpec

\* Progress is exact at every moment (RecordInterval rewrites the whole entry,
\* IncrementDone counts in place; no update of either is lost).
THEOREM ProgressIsExact == SafeSpec => []ProgressExact
<1>1. MInv => ProgressExact
  <2> SUFFICES ASSUME MInv, progress # None PROVE ProgressExact
    BY DEF ProgressExact
  <2> QED BY DEF MInv, ProgressAtPc, ProgressExact, NothingLeftBehind, Total, Entry
<1> QED BY MemoryFollowsRun, <1>1, PTL

\* After a run there is no gauge, and no entry but that of a failure (the
\* deferred Clear calls of Run, and the end of StartAsyncRun's goroutine).
THEOREM EndedRunsLeaveNothing == SafeSpec => []NothingLeftBehind
<1>1. MInv => NothingLeftBehind
  BY DEF MInv
<1> QED BY MemoryFollowsRun, <1>1, PTL

\* Unless an MCP tool starts the run and closes the store under it, an ended
\* run is recorded as it went, with the warning when results are missing.
THEOREM OutcomesAreRecorded ==
    ASSUME "mcp" \notin Hosts
    PROVE  SafeSpec => []OutcomeRecorded
<1>1. IInv /\ MInv /\ OInv /\ [Next]_vars => OInv'
  BY NextRecorded
<1>2. MInv /\ OInv => OutcomeRecorded
  <2> SUFFICES ASSUME MInv, OInv, pc = "ended", faults = 0 PROVE OutcomeRecorded
    BY DEF OutcomeRecorded
  <2>1. host # "mcp"
    BY DEF MInv, MemoryTypes
  <2>2. Recorded
    BY <2>1 DEF OInv, RecordedAtPc
  <2> QED BY <2>2 DEF OutcomeRecorded, Recorded, Succeeded
<1> QED BY InitRecorded, RowFollowsRun, MemoryFollowsRun, <1>1, <1>2, PTL DEF SafeSpec
=============================================================================
