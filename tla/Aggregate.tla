------------------------------ MODULE Aggregate ------------------------------
(***************************************************************************)
(* From a schedule to a record: the assignments of a plan end in any order,*)
(* each with results or an error, and Service.Run (internal/orchestrator)  *)
(* combines what succeeded with internal/aggregate: cluster totals, a row  *)
(* per target, a row per client, a merged interval series.                 *)
(*                                                                         *)
(* Of the fields, iops stands for all that are summed, max for all that    *)
(* take the larger value; a minimum or an average of 0 means "unknown", and*)
(* averages are rounded down.                                              *)
(***************************************************************************)
EXTENDS Planning

CONSTANTS
    Measured,   \* bound: the requests whose benchmarks are run
    Samples,    \* the results a benchmark may have
    Failed      \* a benchmark that returned an error

\* What a runner reports; it numbers its intervals as it likes.
ASSUME AggregateAssumption ==
    /\ Samples \subseteq [iops : Nat, min : Nat, max : Nat,
                        intervals : Seq([seq : Nat, iops : Nat, min : Nat, avg : Nat, max : Nat])]
    /\ Failed \notin Samples

VARIABLES
    ended,      \* the channel: items in the order in which assignments ended
    record      \* the results part of the run's record

aggregateVars == <<ended, record>>

-----------------------------------------------------------------------------
(* aggregate.Results and aggregate.Intervals, of the results rs[k] at some *)
(* positions k of the channel.  All loops but that for the number of a     *)
(* bucket give the same for every order of the positions.                  *)

Field(rs, name) == [k \in DOMAIN rs |-> rs[k][name]]
Total(f)        == FoldFunction(LAMBDA v, sum : sum + v, 0, f)
Largest(f)      == FoldFunction(LAMBDA v, m : IF v > m THEN v ELSE m, 0, f)

\* Mutant: a minimum that is unknown takes the place of a known one.
LeastOf(f)      == FoldFunction(LAMBDA v, m : IF m = 0 \/ v < m THEN v ELSE m, 0, f)

LeastKnown(f)   == FoldFunction(LAMBDA v, m : IF m = 0 \/ (v > 0 /\ v < m) THEN v ELSE m, 0, f)
MeanKnown(f)    == LET known == {k \in DOMAIN f : f[k] > 0}
                   IN  IF known = {} THEN 0 ELSE Total(Restrict(f, known)) \div Cardinality(known)

\* Bucket i of the series that are long enough, whatever second it was; its
\* number is the first that differs from i.
Bucket(i, rs) ==
    LET ivs == [k \in {n \in DOMAIN rs : Len(rs[n].intervals) >= i} |-> rs[k].intervals[i]]
        odd == {k \in DOMAIN ivs : ivs[k].seq \notin {0, i}}
    IN  [seq  |-> IF odd = {} THEN i ELSE ivs[Min(odd)].seq,
         iops |-> Total(Field(ivs, "iops")), min |-> LeastKnown(Field(ivs, "min")),
         max  |-> Largest(Field(ivs, "max")), avg |-> MeanKnown(Field(ivs, "avg"))]

Intervals(rs) ==
    [i \in 1..Largest([k \in DOMAIN rs |-> Len(rs[k].intervals)]) |-> Bucket(i, rs)]

Results(rs) ==
    IF Cardinality(DOMAIN rs) = 1 THEN rs[CHOOSE k \in DOMAIN rs : TRUE]
    ELSE [iops |-> Total(Field(rs, "iops")), min |-> LeastKnown(Field(rs, "min")),
          max  |-> Largest(Field(rs, "max")), intervals |-> Intervals(rs)]

-----------------------------------------------------------------------------
(* Service.Run.                                                            *)

NoRecord == [outcome |-> "none"]

\* runAssignment, in a goroutine of its own.
runAssignment(a) ==
    /\ request \in Measured /\ record = NoRecord
    /\ \A k \in DOMAIN ended : ended[k].assignment # a
    /\ \E r \in Samples \cup {Failed} : ended' = Append(ended, [assignment |-> a, results |-> r])
    /\ UNCHANGED record

good        == Restrict(ended, {k \in DOMAIN ended : ended[k].results # Failed})
OfTarget(t) == Restrict(good, {k \in DOMAIN good : good[k].assignment.target = t})

\* One assignment on the coordinator itself has no client row.
clientRuns ==
    Restrict(good, {k \in DOMAIN good : good[k].assignment.client # Blank \/ Len(schedule) > 1})

targetRuns ==
    [t \in {good[k].assignment.target : k \in DOMAIN good} |-> Results(Field(OfTarget(t), "results"))]

Outcome ==
    IF DOMAIN good = {} THEN [outcome |-> "error"]
    ELSE [outcome |-> "record", total |-> Results(Field(good, "results")),
          clients |-> clientRuns, targets |-> targetRuns]

\* wg.Wait, and the loop over the closed channel.
Combine ==
    /\ Len(ended) = Len(schedule) /\ record = NoRecord
    /\ record' = Outcome
    /\ UNCHANGED ended

AggregateInit == PlanningInit /\ ended = <<>> /\ record = NoRecord

AggregateNext ==
    \/ PlanningNext /\ UNCHANGED aggregateVars
    \/ /\ Planned
       /\ Combine \/ \E a \in Jobs : runAssignment(a)
       /\ UNCHANGED <<planVars, request, schedule>>

AggregateSpec == AggregateInit /\ [][AggregateNext]_<<planVars, request, schedule, aggregateVars>>

-----------------------------------------------------------------------------
(* Properties.                                                             *)

LeastPositive(S) == IF S \subseteq {0} THEN 0 ELSE CHOOSE m \in S \ {0} : \A n \in S \ {0} : m <= n
SeriesTotal(r)   == Total(Field(r.intervals, "iops"))

\* What one expects of a series: numbered in order, averages that are no larger
\* than the maximum, and no average without a minimum or below it.
InStep(r)   == \A i \in DOMAIN r.intervals : r.intervals[i].seq = i
Bounded(r)  == \A i \in DOMAIN r.intervals : r.intervals[i].avg <= r.intervals[i].max
Complete(r) == \A i \in DOMAIN r.intervals :
                 r.intervals[i].avg > 0 => r.intervals[i].min \in 1..r.intervals[i].avg

\* Whatever fails and in whatever order assignments end, the record accounts
\* for every result exactly once: the totals, the rows per target and the
\* interval series are three ways of summing up the same benchmarks, an unknown
\* minimum hides no known one, and what is true of the series that are merged
\* is true of the merged one.  Only a run without any result is an error.
ResultsAddUp ==
    /\ record.outcome = "error" => \A k \in DOMAIN ended : ended[k].results = Failed
    /\ record.outcome = "record" =>
       LET it(k)  == ended[k].results
           ok     == {k \in DOMAIN ended : it(k) # Failed}
           rows   == record.targets
           total  == record.total
       IN  /\ ok # {}
           /\ total.iops = Total([k \in ok |-> it(k).iops])
           /\ total.iops = Total([t \in DOMAIN rows |-> rows[t].iops])
           /\ total.min = LeastPositive({it(k).min : k \in ok})
           /\ total.min = LeastPositive({rows[t].min : t \in DOMAIN rows})
           /\ \A t \in DOMAIN rows : rows[t].max <= total.max
           /\ SeriesTotal(total) = Total([k \in ok |-> SeriesTotal(it(k))])
           /\ SeriesTotal(total) = Total([t \in DOMAIN rows |-> SeriesTotal(rows[t])])
           /\ (\A k \in ok : InStep(it(k))) => InStep(total)
           /\ (\A k \in ok : Bounded(it(k))) => Bounded(total)
           /\ (\A k \in ok : Complete(it(k))) => Complete(total)
           /\ Len(schedule) > 1 => Range(record.clients) = {ended[k] : k \in ok}
=============================================================================
