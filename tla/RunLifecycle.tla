---------------------------- MODULE RunLifecycle ----------------------------
(***************************************************************************)
(* What an asynchronous benchmark run promises to whoever follows it: the  *)
(* run's record is created as "running", settles once as "completed" with  *)
(* the results of some assignments or as "failed" with none, is at most    *)
(* annotated afterwards, and an observer that returns a verdict returns    *)
(* the status the record settled at.  AsyncRun implements it.              *)
(***************************************************************************)
EXTENDS FiniteSets

CONSTANTS
    Assignments,  \* the client -> target jobs of the run
    Observers,    \* the followers of the run: SSE streams and watch commands
    None          \* no record, no verdict

VARIABLES
    record,   \* the stored run: its status, the results in it, the warning
    verdict   \* verdict[o]: the final status observer o returned

lifecycleVars == <<record, verdict>>

Running      == [status |-> "running", parts |-> {}, warned |-> FALSE]
Failed       == [status |-> "failed", parts |-> {}, warned |-> FALSE]
Completed(S) == [status |-> "completed", parts |-> S, warned |-> FALSE]

Init == record = None /\ verdict = [o \in Observers |-> None]

Submit == record = None /\ record' = Running /\ UNCHANGED verdict

Settle ==
    /\ record = Running
    /\ record' \in {Failed} \cup {Completed(S) : S \in (SUBSET Assignments) \ {{}}}
    /\ UNCHANGED verdict

\* Only a run that lacks a result gets the partial-failure warning.
Annotate ==
    /\ record # None
    /\ record.status = "completed" /\ record.parts # Assignments
    /\ record' = [record EXCEPT !.warned = TRUE]
    /\ UNCHANGED verdict

Observe(o) ==
    /\ record # None
    /\ record.status \in {"completed", "failed"}
    /\ verdict[o] = None
    /\ verdict' = [verdict EXCEPT ![o] = record.status]
    /\ UNCHANGED record

Next == Submit \/ Settle \/ Annotate \/ \E o \in Observers : Observe(o)

LifecycleSpec == Init /\ [][Next]_lifecycleVars

\* A submitted run is settled.
SettlingSpec == LifecycleSpec /\ WF_lifecycleVars(Settle)
=============================================================================
