---------------------------- MODULE ResultService ----------------------------
(***************************************************************************)
(* The result store and the operations of the command line, the HTTP API   *)
(* and the MCP tools on it: runs, baselines, regression checks, reports,   *)
(* comparisons, exports and imports.  An operation is a sequence of single *)
(* queries; those of several processes interleave, and each may fail.      *)
(* Of the results of a run the IOPS, the p50 and the p99 latency are kept. *)
(* Whether it was mocked is not: it never changes an alert or a status.    *)
(***************************************************************************)
EXTENDS Naturals, FiniteSets, Functions, FiniteSetsExt

CONSTANTS
    RunIds, Callers,
    Profiles,
    Targets,       \* "_default" is what TargetKey makes of a run without one
    Results,       \* the outcomes of a benchmark: iops, p50, p99
    Stored,        \* the runs in the store at the start
    HistoryLimit,  \* rows that ListSince returns at most (500)
    LastN,         \* of export --last
    MaxCalls, MaxFaults,
    None

NoResults == [iops |-> 0, p50 |-> 0, p99 |-> 0]
Alerts == {"iops", "latency_p99"}

Keys == Profiles \X (Targets \cup {"_default"})
Records == [key : Keys, status : {"running", "completed", "failed"},
            results : Results \cup {NoResults}, passed : BOOLEAN, at : Nat]

ASSUME ServiceAssumption ==
    /\ Results \subseteq [iops : Nat, p50 : Nat, p99 : Nat]
    /\ "_default" \notin Targets /\ None \notin RunIds
    /\ \E known \in SUBSET RunIds : IsFiniteSet(known) /\ Stored \in [known -> Records]
    /\ HistoryLimit \in Nat /\ LastN \in Nat /\ MaxCalls \in Nat /\ MaxFaults \in Nat

VARIABLES
    runs,       \* table runs: run_id -> record
    baselines,  \* table baselines: target key -> run_id
    files,      \* exported JSON files: run_id -> the record as it was
    reports,    \* HTML reports: run_id -> the status they show
    going,      \* asynchronous runs whose goroutine has not saved its result
    call,       \* the operation each caller is in
    calls, faults,
    early,      \* history: baselines set from a run that was not finished
    drafts,     \* history: runs of which the placeholder was exported
    sawBase, sawRuns  \* history: what the tables held during each check

tables  == <<runs, baselines, files, reports, going>>
history == <<early, drafts, sawBase, sawRuns>>
vars == <<tables, call, calls, faults, history>>

Free == [pc |-> "idle", op |-> "none", id |-> None, other |-> None, run |-> None,
         base |-> None, answer |-> None]

-----------------------------------------------------------------------------
(* Pure parts.                                                             *)

\* Check: 10 % fewer IOPS, 15 % more p99, strictly.
Check(current, reference) ==
    {a \in Alerts :
       CASE a = "iops" -> /\ reference.iops > 0 /\ current.iops > 0
                          /\ current.iops * 100 + 10 * reference.iops < reference.iops * 100
         [] OTHER      -> /\ reference.p99 > 0 /\ current.p99 > 0
                          /\ current.p99 * 100 > 115 * reference.p99}

\* List and ListSince: the n newest rows; rows of one second in any order.
Newest(table, n) ==
    {s \in SUBSET DOMAIN table :
        /\ Cardinality(s) = (IF n < Cardinality(DOMAIN table) THEN n ELSE Cardinality(DOMAIN table))
        /\ \A i \in s, j \in DOMAIN table \ s : table[i].at >= table[j].at}

\* created_at >= RollingSince(30): the runs with at = 0 are older.
Recent(table) == RestrictDomain(table, LAMBDA i : table[i].at > 0)

\* ReferenceFromHistory: best IOPS and best p99, not always of the same run.
\* Mutant: the target is not looked at.
AnyTarget(table, ids, run, id) ==
    {i \in ids : i # id /\ table[i].key[1] = run.key[1] /\ table[i].results.iops > 0}

Comparable(table, ids, run, id) ==
    {i \in ids : i # id /\ table[i].key = run.key /\ table[i].results.iops > 0}

ReferenceFromHistory(table, ids) ==
    LET latencies == {table[i].results.p99 : i \in ids} \ {0}
    IN  [iops |-> Max({0} \cup {table[i].results.iops : i \in ids}),
         p99  |-> IF latencies = {} THEN 0 ELSE Min(latencies)]

RunsOf(p, ids) == {i \in ids : runs[i].key[1] = p}

Rolling(table, run, id) ==
    {Check(run.results, ReferenceFromHistory(table, Comparable(table, ids, run, id))) :
       ids \in Newest(Recent(table), HistoryLimit)}

\* verdict of Diff: from the changes of IOPS and p99 alone.
Regressed(base, head) ==
    \/ base.iops > 0 /\ head.iops * 100 < 95 * base.iops
    \/ base.p99 > 0 /\ head.p99 * 100 > 110 * base.p99
Improved(base, head) ==
    /\ base.iops > 0 /\ head.iops * 100 > 101 * base.iops
    /\ base.p99 > 0 => head.p99 * 100 <= 105 * base.p99

\* Mutant: more IOPS hide a regression.
ImprovedFirst(base, head) ==
    IF base.iops > 0 /\ head.iops * 100 > 101 * base.iops THEN "improved"
    ELSE IF Regressed(base, head) THEN "regressed" ELSE "neutral"

verdict(base, head) ==
    IF Regressed(base, head) THEN "regressed"
    ELSE IF Improved(base, head) THEN "improved" ELSE "neutral"

\* Analyze: a p99 of ten times the p50 is a warning of its own.
Anomaly(results) == results.p50 > 0 /\ results.p99 >= 10 * results.p50

\* SummaryText: the worst insight decides.
SummaryStatus(run, alerts) ==
    IF ~run.passed THEN "needs attention"
    ELSE IF alerts # {} \/ Anomaly(run.results) THEN "review recommended" ELSE "healthy"

-----------------------------------------------------------------------------
(* Steps of an operation.                                                  *)

Init ==
    /\ runs = Stored /\ baselines = <<>> /\ files = <<>> /\ reports = <<>> /\ going = {}
    /\ call = [c \in Callers |-> Free] /\ calls = 0 /\ faults = 0
    /\ early = {} /\ drafts = {}
    /\ sawBase = [c \in Callers |-> {}] /\ sawRuns = [c \in Callers |-> {}]

Put(f, x, y) == [z \in DOMAIN f \cup {x} |-> IF z = x THEN y ELSE f[z]]
BaselineOf(table, key) == IF key \in DOMAIN table THEN table[key] ELSE None

\* Everybody in a check sees the tables change, until it has its answer.
Watching(c) == call'[c].op # "plain" /\ call'[c].pc \in {"baseline", "reference", "rolling", "answered"}
Sees(c, seen, new) ==
    CASE ~Watching(c)             -> {}
      [] call[c].pc = "answered"  -> seen
      [] OTHER                    -> seen \cup {new}
Witnessed ==
    /\ sawRuns' = [c \in Callers |-> Sees(c, sawRuns[c], runs')]
    /\ sawBase' = [c \in Callers |-> Sees(c, sawBase[c], BaselineOf(baselines', call'[c].run.key))]

At(c, pc) == call[c].pc = pc
Goes(c, next) == call' = [call EXCEPT ![c] = next]
To(c, pc) == [call[c] EXCEPT !.pc = pc]
Keep == UNCHANGED <<calls, faults, early, drafts>> /\ Witnessed

\* A query fails: the database is locked, the connection is lost.
Fault(c, next) ==
    /\ faults < MaxFaults /\ faults' = faults + 1
    /\ Goes(c, next) /\ UNCHANGED <<tables, calls, early, drafts>> /\ Witnessed

\* The operations of the front ends on stored runs.  "check" is baseline check
\* and analyze, "report" is one that starts with a check, "plain" is the API's
\* POST of a report, without one.
Operations == {"check", "report", "plain", "compare", "export", "import", "set", "last"}

Begin(c) ==
    /\ At(c, "idle") /\ calls < MaxCalls /\ calls' = calls + 1
    /\ \E op \in Operations, i, j \in RunIds :
         /\ op # "compare" => j = i
         /\ op = "last" => i = CHOOSE k \in RunIds : TRUE
         /\ Goes(c, [Free EXCEPT !.pc = IF op \in {"last", "import"} THEN op ELSE "get",
                                 !.op = op, !.id = i, !.other = j])
    /\ UNCHANGED <<tables, faults, early, drafts>> /\ Witnessed

\* A row has the second in which its run began: after the stored ones, or while
\* one of them was going on.
StartedAt == {Cardinality(DOMAIN runs)} \cup ({runs[i].at : i \in DOMAIN runs} \ {0})

\* run, POST /api/v1/runs, stratabench_run.  A run that fails leaves no row;
\* the command line may check the new run against its baseline.
Run(c) ==
    /\ At(c, "idle") /\ calls < MaxCalls /\ calls' = calls + 1
    /\ \E i \in RunIds \ DOMAIN runs, key \in Profiles \X Targets, results \in Results,
          passed, checkBaseline \in BOOLEAN, at \in StartedAt :
         LET run == [key |-> key, status |-> "completed", results |-> results,
                     passed |-> passed, at |-> at]
         IN  /\ runs' = Put(runs, i, run)
             /\ Goes(c, IF checkBaseline
                        THEN [Free EXCEPT !.pc = "baseline", !.op = "check", !.id = i, !.run = run]
                        ELSE Free)
    /\ UNCHANGED <<baselines, files, reports, going, faults, early, drafts>> /\ Witnessed

\* StartAsyncRun: the placeholder has no target yet.
StartAsyncRun(c) ==
    /\ At(c, "idle") /\ calls < MaxCalls /\ calls' = calls + 1
    /\ \E i \in RunIds \ DOMAIN runs, p \in Profiles :
         /\ runs' = Put(runs, i, [key |-> <<p, "_default">>, status |-> "running",
                                  results |-> NoResults, passed |-> TRUE,
                                  at |-> Cardinality(DOMAIN runs)])
         /\ going' = going \cup {i}
    /\ UNCHANGED <<baselines, files, reports, call, faults, early, drafts>> /\ Witnessed

\* Its goroutine saves the result; a failed run keeps the placeholder's target.
Settle(i) ==
    /\ i \in going /\ going' = going \ {i}
    /\ \/ \E target \in Targets, results \in Results :
            runs' = [runs EXCEPT ![i] = [@ EXCEPT !.key = <<runs[i].key[1], target>>,
                                                  !.status = "completed", !.results = results]]
       \/ runs' = [runs EXCEPT ![i] = [@ EXCEPT !.status = "failed"]]
    /\ UNCHANGED <<baselines, files, reports, call>> /\ Keep

\* Store.Get of the run.
Get(c) ==
    /\ At(c, "get")
    /\ LET next == CASE call[c].op \in {"check", "report"} -> "baseline"
                     [] call[c].op = "set"     -> "set"
                     [] call[c].op = "plain"   -> "answered"
                     [] call[c].op = "compare" -> "get other"
                     [] OTHER                  -> "write file"
       IN  \/ /\ call[c].id \in DOMAIN runs
              /\ Goes(c, [To(c, next) EXCEPT !.run = runs[call[c].id]])
              /\ UNCHANGED tables /\ Keep
           \/ /\ call[c].id \notin DOMAIN runs
              /\ Goes(c, Free) /\ UNCHANGED tables /\ Keep
           \/ Fault(c, Free)

\* Mutant: explicit baselines are not looked at.
GetNoBaseline(c) ==
    /\ At(c, "baseline") /\ Goes(c, To(c, "rolling"))
    /\ UNCHANGED tables /\ Keep

\* CheckRegression: the explicit baseline first.
GetBaseline(c) ==
    /\ At(c, "baseline")
    /\ LET b == BaselineOf(baselines, call[c].run.key)
       IN  \/ /\ Goes(c, [To(c, IF b = None THEN "rolling" ELSE "reference") EXCEPT !.base = b])
              /\ UNCHANGED tables /\ Keep
           \/ Fault(c, To(c, "rolling"))

\* The answer: alerts, the status an analysis or a report shows, and what an
\* explicit baseline was when it was read.
Answers(c, alerts, reference) ==
    [To(c, "answered") EXCEPT
       !.answer = [alerts |-> alerts, status |-> SummaryStatus(call[c].run, alerts),
                   reference |-> reference]]

GetReference(c) ==
    /\ At(c, "reference")
    /\ \/ /\ LET reference == runs[call[c].base].results
             IN  Goes(c, Answers(c, Check(call[c].run.results, reference), reference))
          /\ UNCHANGED tables /\ Keep
       \/ Fault(c, [To(c, "rolling") EXCEPT !.base = None])

\* Without a baseline, or when it cannot be read: the rolling reference; when
\* that fails too, there are no alerts.
ListSince(c) ==
    /\ At(c, "rolling")
    /\ \/ /\ \E alerts \in Rolling(runs, call[c].run, call[c].id) : Goes(c, Answers(c, alerts, NoResults))
          /\ UNCHANGED tables /\ Keep
       \/ Fault(c, Answers(c, {}, NoResults))

PutBaseline(c, key) ==
    /\ baselines' = Put(baselines, key, call[c].id)
    /\ early' = (IF call[c].run.status = "running" THEN early \cup {<<key, call[c].id>>}
                 ELSE early \ {<<key, call[c].id>>})
    /\ Goes(c, To(c, "confirm"))
    /\ UNCHANGED <<runs, files, reports, going, calls, faults, drafts>> /\ Witnessed

\* Mutant: the baseline is stored under the default key.
SetDefault(c) == At(c, "set") /\ PutBaseline(c, <<call[c].run.key[1], "_default">>)

\* SetBaselineFromRun: of any run, with the key it had when it was read.
SetBaseline(c) == At(c, "set") /\ (PutBaseline(c, call[c].run.key) \/ Fault(c, Free))

\* It returns what GetBaseline then finds.
Confirm(c) ==
    /\ At(c, "confirm")
    /\ \/ /\ Goes(c, [To(c, "done") EXCEPT !.answer = baselines[call[c].run.key]])
          /\ UNCHANGED tables /\ Keep
       \/ Fault(c, Free)

\* compare runs, /api/v1/compare, stratabench_compare_runs.
GetOther(c) ==
    /\ At(c, "get other")
    /\ \/ /\ call[c].other \in DOMAIN runs
          /\ Goes(c, [To(c, "done") EXCEPT
                        !.answer = verdict(call[c].run.results, runs[call[c].other].results)])
          /\ UNCHANGED tables /\ Keep
       \/ /\ call[c].other \notin DOMAIN runs
          /\ Goes(c, Free) /\ UNCHANGED tables /\ Keep
       \/ Fault(c, Free)

\* export json: the row as it is now.
Export(c) ==
    /\ At(c, "write file")
    /\ files' = Put(files, call[c].id, call[c].run)
    /\ drafts' = (IF call[c].run.status = "running" THEN drafts \cup {call[c].id} ELSE drafts)
    /\ Goes(c, Free) /\ UNCHANGED <<runs, baselines, reports, going, calls, faults, early>> /\ Witnessed

\* A record of a CSV file: its own new ID, no target.
rowToRun(p, results) == [key |-> <<p, "_default">>, status |-> "completed", results |-> results,
                         passed |-> TRUE, at |-> Cardinality(DOMAIN runs)]

\* SBK's own format: one run, of the Total row, and an error without it.
parseSBKFile(c) ==
    \/ /\ \E p \in Profiles, results \in Results :
            runs' = Put(runs, call[c].id, rowToRun(p, results))
       /\ Goes(c, Free) /\ UNCHANGED <<baselines, files, reports, going>> /\ Keep
    \/ Goes(c, Free) /\ UNCHANGED tables /\ Keep

\* Other CSV files: a run per row, saved one by one; those before a failure
\* stay.
ParseCSV(c) ==
    /\ \E p \in Profiles, results \in Results : runs' = Put(runs, call[c].id, rowToRun(p, results))
    /\ \E i \in RunIds \ DOMAIN runs' : Goes(c, [call[c] EXCEPT !.id = i])
    /\ UNCHANGED <<baselines, files, reports, going>> /\ Keep

\* An exported run keeps its ID and everything else.
ParseJSON(c) ==
    /\ runs' = Put(runs, call[c].id, files[call[c].id]) /\ Goes(c, Free)
    /\ UNCHANGED <<baselines, files, reports, going>> /\ Keep

\* import: the runs of a file replace rows with the same ID.
Import(c) ==
    /\ At(c, "import")
    /\ \/ call[c].id \in DOMAIN files /\ ParseJSON(c)
       \/ call[c].id \notin DOMAIN files \cup DOMAIN runs /\ (parseSBKFile(c) \/ ParseCSV(c))
       \/ call[c].id \in DOMAIN runs \ DOMAIN files /\ Goes(c, Free) /\ UNCHANGED tables /\ Keep
       \/ Fault(c, Free)

\* Mutant: the newest N runs are taken, then those of the profile.
CutFirst(p) == {RunsOf(p, s) : s \in Newest(runs, LastN)}

\* export excel --profile --last N: of the newest 3N runs those of the
\* profile, the newest N of them.
LastRuns(p) ==
    UNION {Newest(Restrict(runs, RunsOf(p, s)), LastN) : s \in Newest(runs, 3 * LastN)}

ExportLast(c) ==
    /\ At(c, "last")
    /\ \/ /\ \E p \in Profiles : \E ids \in LastRuns(p) :
               Goes(c, [To(c, "done") EXCEPT !.answer = [profile |-> p, ids |-> ids]])
          /\ UNCHANGED tables /\ Keep
       \/ Fault(c, Free)

-----------------------------------------------------------------------------
\* A report is written under the ID of the run, over one that is there.
WriteReport(c) ==
    /\ At(c, "answered") /\ call[c].op \in {"report", "plain"}
    /\ reports' = Put(reports, call[c].id,
                      IF call[c].op = "plain" THEN "none" ELSE call[c].answer.status)
    /\ Goes(c, Free) /\ UNCHANGED <<runs, baselines, files, going>> /\ Keep

\* The caller is done with the answer.
Finish(c) ==
    /\ At(c, "done") \/ (At(c, "answered") /\ call[c].op = "check")
    /\ Goes(c, Free) /\ UNCHANGED tables /\ Keep

CheckStep(c) == GetBaseline(c) \/ GetReference(c) \/ ListSince(c)
Step(c) == \/ Begin(c) \/ Run(c) \/ StartAsyncRun(c) \/ Get(c) \/ CheckStep(c)
           \/ SetBaseline(c) \/ Confirm(c) \/ GetOther(c) \/ Export(c) \/ Import(c)
           \/ ExportLast(c) \/ WriteReport(c) \/ Finish(c)

Next == (\E c \in Callers : Step(c)) \/ (\E i \in RunIds : Settle(i))
Spec == Init /\ [][Next]_vars

-----------------------------------------------------------------------------
(* Properties.                                                             *)

Answered(c) == call[c].pc = "answered" /\ call[c].op # "plain"

\* The placeholder of the run, without its target, was made the baseline, or
\* an export of the placeholder may have been imported back, or may still be.
Untargeted(key, id) == <<key, id>> \in early \/ id \in drafts

\* Every alert has a witness: another run of the same profile and target that
\* was that much better and was stored while the check went on, even when
\* queries failed or the rows changed under it.
AlertsJustified ==
    \A c \in Callers : Answered(c) =>
        \A a \in call[c].answer.alerts : \E t \in sawRuns[c] : \E i \in DOMAIN t :
            /\ i # call[c].id /\ a \in Check(call[c].run.results, t[i].results)
            /\ \/ t[i].key = call[c].run.key
               \/ i = call[c].base /\ Untargeted(call[c].run.key, i)

\* An answer, alerts or none, is what a check of a baseline and of rows that
\* were there while it went on must say, unless a query failed.
AnswerExplained ==
    \A c \in Callers : Answered(c) /\ faults = 0 =>
        \E b \in sawBase[c], t \in sawRuns[c] :
            call[c].answer.alerts \in
                IF b = None THEN Rolling(t, call[c].run, call[c].id)
                ELSE {Check(call[c].run.results, t[i].results) : i \in {b} \cap DOMAIN t}

\* The tables agree: a baseline is a stored run of the profile and target it
\* stands for, a report and a running goroutine have their row, and a row that
\* was imported is one that some run could have written.
TablesAgree ==
    /\ \A i \in DOMAIN runs : runs[i] \in Records
    /\ going \cup DOMAIN reports \subseteq DOMAIN runs
    /\ \A key \in DOMAIN baselines :
         /\ baselines[key] \in DOMAIN runs
         /\ runs[baselines[key]].key = key \/ Untargeted(key, baselines[key])

\* The two notions of a regression agree: an alert against a baseline means
\* that a comparison with it says "regressed".
AlertMeansRegressed ==
    \A c \in Callers : Answered(c) /\ call[c].base # None /\ call[c].answer.alerts # {} =>
        verdict(call[c].answer.reference, call[c].run.results) = "regressed"

\* The exported history of a profile leaves out no run that is newer than one
\* it has, and is short only when it has all runs of the profile or all there
\* are among the newest 3N.
LatestExported ==
    \A c \in Callers : At(c, "last") /\ call'[c].pc = "done" =>
        LET p == call'[c].answer.profile
            ids == call'[c].answer.ids
            rest == RunsOf(p, DOMAIN runs) \ ids
        IN  /\ Cardinality(ids) <= LastN
            /\ \A i \in ids, j \in rest : runs[i].at >= runs[j].at
            /\ Cardinality(ids) < LastN =>
                 \A j \in rest : Cardinality({i \in DOMAIN runs : runs[i].at >= runs[j].at}) > 3 * LastN
HistoryIsLatest == [][LatestExported]_vars
=============================================================================
