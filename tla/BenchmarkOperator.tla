------------------------- MODULE BenchmarkOperator -------------------------
(***************************************************************************)
(* The Kubernetes operator of internal/operator: a resync loop that lists  *)
(* the Benchmark objects, decides for each from that snapshot, and drives  *)
(* a ConfigMap and a batch Job with one API call after another.  One       *)
(* Benchmark object, any number of operator replicas (a rolling update has *)
(* two), the pods its Jobs start and the user who edits the object all     *)
(* interleave between any two API calls.                                   *)
(*                                                                         *)
(* Optimistic concurrency: an Update sends back the object a Get returned, *)
(* and the API server refuses it when the object was written in between.   *)
(* fresh[o] says that nothing was written since o's last Get.              *)
(***************************************************************************)
EXTENDS Naturals

CONSTANTS
    Operators,       \* operator replicas
    Works,           \* values of the spec fields that specHash covers
    Invalid,         \* those fields when fromUnstructured refuses them
    Extras,          \* values of the fields it leaves out (topology, ...)
    Tokens,          \* values of the stratabench.io/retry annotation
    None,            \* an absent annotation, object or phase
    OrphansRun,      \* may a pod outlive its deleted Job (background GC)?
    MaxJobs,         \* bound: Jobs ever created
    MaxEdits,        \* bound: writes by the user
    MaxFaults,       \* bound: failed API calls, unreadable files, restarts
    MaxIncarnations  \* bound: times the user creates the object

Phases == {"Pending", "Running", "Completed", "Failed"}

ASSUME OperatorAssumption ==
    /\ Invalid \notin Works
    /\ None \notin Works \cup Tokens \cup Phases \cup {Invalid}
    /\ MaxJobs \in Nat
    /\ OrphansRun \in BOOLEAN

VARIABLES
    cr,          \* the Benchmark object, None when there is none
    incarnation, \* how many times it was created (its metadata.uid)
    configMap,   \* the spec the ConfigMap carries
    job,         \* the Job object: its id, 0 when there is none
    deleting,    \* that Job has a deletion timestamp
    created,     \* ids 1..created were given to Jobs so far
    request,     \* request[i]: the object uid and retry token Job i was created for
    pod,         \* pod[i]: the state of the single pod of Job i (backoffLimit 0)
    ran,         \* ran[i]: the spec pod i read from the ConfigMap, unless it failed
                 \* before it had written its result
    statusFile,  \* <data>/status/<name>.json: the pod that wrote it, 0, or Torn
    pc,          \* pc[o]: the call operator o makes next
    snap,        \* snap[o]: the list item o works from
    seen,        \* seen[o]: the Job state o's Get returned
    patch,       \* patch[o]: the arguments of o's patchStatus and its continuation
    fresh,       \* fresh[o]: the copy o last Got is still the current version
    edits,       \* user writes so far
    faults,      \* injected faults so far
    unstamped    \* reconciliations that failed before they recorded their Job

objectVars == <<cr, incarnation>>
jobVars    == <<configMap, job, deleting, created, request>>
podVars    == <<pod, ran, statusFile>>
localVars  == <<snap, seen, patch>>
budgetVars == <<edits, faults, unstamped>>
vars == <<objectVars, jobVars, podVars, pc, localVars, fresh, budgetVars>>

JobIds == 1..MaxJobs
Torn   == MaxJobs + 1     \* a truncated file: os.WriteFile is not atomic

Spec      == [work : Works \cup {Invalid}, extra : Extras]
Benchmark == [uid : Nat, spec : Spec, retry : Tokens \cup {None},
              applied : Tokens \cup {None}, hash : Works \cup {None},
              phase : Phases \cup {None}, runId : JobIds \cup {0}]
Patch     == [hash : Works \cup {None}, phase : Phases, runId : JobIds \cup {0},
              next : {"idle", "upsertConfigMap"}]
NoPatch   == [hash |-> None, phase |-> "Pending", runId |-> 0, next |-> "idle"]
PodStates == {"none", "pending", "running", "writing", "succeeded", "failed"}
Calls     == {"idle", "getJob", "removeFile", "deleteJob", "upsertConfigMap",
              "createJob", "getRetry", "updateRetry", "observe",
              "getAnnotation", "updateAnnotation", "getStatus", "updateStatus"}

TypeOK ==
    /\ cr \in Benchmark \cup {None}
    /\ incarnation \in Nat
    /\ configMap \in Spec \cup {None}
    /\ job \in JobIds \cup {0}
    /\ deleting \in BOOLEAN
    /\ created \in JobIds \cup {0}
    /\ request \in [JobIds -> [uid : Nat, token : Tokens \cup {None}]]
    /\ pod \in [JobIds -> PodStates]
    /\ ran \in [JobIds -> Spec \cup {None}]
    /\ statusFile \in JobIds \cup {0, Torn}
    /\ pc \in [Operators -> Calls]
    /\ snap \in [Operators -> Benchmark \cup {None}]
    /\ seen \in [Operators -> PodStates]
    /\ patch \in [Operators -> Patch]
    /\ fresh \in [Operators -> BOOLEAN]
    /\ edits \in Nat /\ faults \in Nat /\ unstamped \in Nat

Init ==
    /\ cr = None /\ incarnation = 0
    /\ configMap = None /\ job = 0 /\ deleting = FALSE /\ created = 0
    /\ request = [i \in JobIds |-> [uid |-> 0, token |-> None]]
    /\ pod = [i \in JobIds |-> "none"]
    /\ ran = [i \in JobIds |-> None]
    /\ statusFile = 0
    /\ pc = [o \in Operators |-> "idle"]
    /\ snap = [o \in Operators |-> None]
    /\ seen = [o \in Operators |-> "none"]
    /\ patch = [o \in Operators |-> NoPatch]
    /\ fresh = [o \in Operators |-> FALSE]
    /\ edits = 0 /\ faults = 0 /\ unstamped = 0

-----------------------------------------------------------------------------
(* Decisions, computed from the snapshot alone.                            *)

\* The hash covers the work fields only: topology, checkBaseline,
\* checkHardware and useOllama do not enter it.
specHash(s) == s.work

specChanged(stored, current) == stored # None /\ stored # current

\* Mutant: any token asks for a run, applied or not.
AnyTokenRequests(b) == b.retry # None

retryRequested(b) == b.retry # None /\ b.retry # b.applied

\* Mutants: a completed benchmark is skipped whatever its spec, or its retry.
SkipIgnoresSpec(phase, stored, current, jobExists, retry) ==
    LET changed == specChanged(stored, current)
    IN  IF phase = "Completed" /\ ~retry THEN "skip"
        ELSE IF (changed \/ retry) /\ jobExists THEN "teardown"
        ELSE IF ~jobExists THEN "ensure" ELSE "observe"

SkipIgnoresRetry(phase, stored, current, jobExists, retry) ==
    LET changed == specChanged(stored, current)
    IN  IF phase = "Completed" /\ ~changed THEN "skip"
        ELSE IF (changed \/ retry) /\ jobExists THEN "teardown"
        ELSE IF ~jobExists THEN "ensure" ELSE "observe"

decideReconcile(phase, stored, current, jobExists, retry) ==
    LET changed == specChanged(stored, current)
    IN  IF phase = "Completed" /\ ~changed /\ ~retry THEN "skip"
        ELSE IF (changed \/ retry) /\ jobExists THEN "teardown"
        ELSE IF ~jobExists THEN "ensure" ELSE "observe"

Active(i) == pod[i] \in {"pending", "running", "writing"}

\* A pod ends before it has written its result.
Lost(i) == pod' = [pod EXCEPT ![i] = "failed"] /\ ran' = [ran EXCEPT ![i] = None]

Goto(o, label) == pc' = [pc EXCEPT ![o] = label]

\* reconcileOne returns and its local variables are gone.
Return(o) ==
    /\ Goto(o, "idle")
    /\ snap' = [snap EXCEPT ![o] = None]
    /\ seen' = [seen EXCEPT ![o] = "none"]
    /\ patch' = [patch EXCEPT ![o] = NoPatch]

\* It returns an error; the next resync starts from a new List.  unstamped
\* counts the errors that leave a Job without its token or hash recorded.
Unrecorded(o) ==
    \/ pc[o] \in {"getRetry", "updateRetry"}
    \/ pc[o] \in {"getAnnotation", "updateAnnotation"} /\ patch[o].phase = "Running"

ReturnError(o) ==
    /\ Return(o)
    /\ unstamped' = IF Unrecorded(o) THEN unstamped + 1 ELSE unstamped

\* Enter patchStatus(name, h, status): with a hash it first writes the
\* annotation, then, from a second Get, the status subresource.
StartPatch(o, h, phase, runId, next) ==
    /\ patch' = [patch EXCEPT ![o] =
                   [hash |-> h, phase |-> phase, runId |-> runId, next |-> next]]
    /\ Goto(o, IF h = None THEN "getStatus" ELSE "getAnnotation")

\* A successful write by w outdates every copy of the Benchmark object; one
\* that changes nothing, not even the message, leaves its version as it was.
WriteObject(w, b) ==
    /\ cr' = b
    /\ \/ fresh' = [o \in Operators |-> FALSE]
       \/ b = cr /\ fresh' = [o \in Operators |-> o # w /\ fresh[o]]

-----------------------------------------------------------------------------
(* One reconciliation, one action per API call or file access.             *)

\* reconcileAll's List and the head of reconcileOne: an object whose spec
\* does not parse is marked Failed, any other goes on to Get its Job.
List(o) ==
    /\ pc[o] = "idle" /\ cr # None
    /\ snap' = [snap EXCEPT ![o] = cr]
    /\ IF cr.spec.work = Invalid
       THEN StartPatch(o, None, "Failed", 0, "idle")
       ELSE Goto(o, "getJob") /\ UNCHANGED patch
    /\ UNCHANGED <<objectVars, jobVars, podVars, seen, fresh, budgetVars>>

\* Get the Job and decide.
GetJob(o) ==
    /\ pc[o] = "getJob"
    /\ LET b == snap[o]
           action == decideReconcile(b.phase, b.hash, specHash(b.spec), job # 0,
                                     retryRequested(b))
       IN  \/ action = "skip"     /\ Return(o)
           \/ action = "teardown" /\ Goto(o, "removeFile") /\ UNCHANGED localVars
           \/ action = "ensure"   /\ Goto(o, "upsertConfigMap") /\ UNCHANGED localVars
           \/ /\ action = "observe" /\ Goto(o, "observe")
              /\ seen' = [seen EXCEPT ![o] = pod[job]]
              /\ UNCHANGED <<snap, patch>>
    /\ UNCHANGED <<objectVars, jobVars, podVars, fresh, budgetVars>>

\* teardownRun, first half: the status file goes before the Job does.  When
\* it cannot be removed, the pass goes on.
RemoveStatusFile(o) ==
    /\ pc[o] = "removeFile"
    /\ \/ statusFile' = 0 /\ UNCHANGED faults
       \/ faults < MaxFaults /\ faults' = faults + 1 /\ UNCHANGED statusFile
    /\ Goto(o, "deleteJob")
    /\ UNCHANGED <<objectVars, jobVars, pod, ran, localVars, fresh, edits, unstamped>>

\* teardownRun, second half: Delete with background propagation.  The Job
\* object disappears at once, or lingers on a finalizer; its pod is
\* collected later, on its own.
DeleteJob(o) ==
    /\ pc[o] = "deleteJob"
    /\ \/ /\ job' = 0 /\ deleting' = FALSE
          /\ IF job # 0 /\ Active(job) /\ ~OrphansRun
             THEN Lost(job) ELSE UNCHANGED <<pod, ran>>
       \/ /\ job # 0
          /\ deleting' = TRUE
          /\ UNCHANGED <<job, pod, ran>>
    /\ StartPatch(o, None, "Pending", 0, "upsertConfigMap")
    /\ UNCHANGED <<objectVars, configMap, created, request, statusFile, snap, seen, fresh,
                   budgetVars>>

\* upsertConfigMap: Create, or Get and Update of the existing one, always
\* with the snapshot's spec.  Only operators write it and every write
\* replaces its data, so the calls are one step; Abort covers a refusal.
UpsertConfigMap(o) ==
    /\ pc[o] = "upsertConfigMap"
    /\ configMap' = snap[o].spec
    /\ Goto(o, "createJob")
    /\ UNCHANGED <<objectVars, job, deleting, created, request, podVars, localVars, fresh,
                   budgetVars>>

\* Mutant: an existing Job counts as created.
CreateJobAdopts(o) ==
    /\ pc[o] = "createJob"
    /\ \/ job # 0 /\ UNCHANGED <<job, created, request, pod>>
       \/ /\ job = 0 /\ created < MaxJobs
          /\ created' = created + 1
          /\ job' = created'
          /\ request' = [request EXCEPT ![created'] =
                           [uid |-> snap[o].uid, token |-> snap[o].retry]]
          /\ pod' = [pod EXCEPT ![created'] = "pending"]
    /\ IF snap[o].retry = None
       THEN StartPatch(o, specHash(snap[o].spec), "Running", 0, "idle")
       ELSE Goto(o, "getRetry") /\ UNCHANGED patch
    /\ UNCHANGED <<objectVars, configMap, deleting, ran, statusFile, snap, seen, fresh,
                   budgetVars>>

\* Create the Job.  AlreadyExists is not an error: the benchmark is put
\* back to Pending, without a hash, until the previous Job is gone.
CreateJob(o) ==
    /\ pc[o] = "createJob"
    /\ \/ /\ job # 0
          /\ StartPatch(o, None, "Pending", 0, "idle")
          /\ UNCHANGED <<job, created, request, pod>>
       \/ /\ job = 0 /\ created < MaxJobs
          /\ created' = created + 1
          /\ job' = created'
          /\ request' = [request EXCEPT ![created'] =
                           [uid |-> snap[o].uid, token |-> snap[o].retry]]
          /\ pod' = [pod EXCEPT ![created'] = "pending"]
          /\ IF snap[o].retry = None
             THEN StartPatch(o, specHash(snap[o].spec), "Running", 0, "idle")
             ELSE Goto(o, "getRetry") /\ UNCHANGED patch
    /\ UNCHANGED <<objectVars, configMap, deleting, ran, statusFile, snap, seen, fresh,
                   budgetVars>>

\* A Get of the Benchmark object before writing it; NotFound is an error.
GetObject(o) ==
    /\ pc[o] \in {"getRetry", "getAnnotation", "getStatus"}
    /\ \/ /\ cr = None
          /\ ReturnError(o) /\ UNCHANGED <<fresh, edits, faults>>
       \/ /\ cr # None
          /\ fresh' = [fresh EXCEPT ![o] = TRUE]
          /\ Goto(o, CASE pc[o] = "getRetry"      -> "updateRetry"
                       [] pc[o] = "getAnnotation" -> "updateAnnotation"
                       [] pc[o] = "getStatus"     -> "updateStatus")
          /\ UNCHANGED <<localVars, budgetVars>>
    /\ UNCHANGED <<objectVars, jobVars, podVars>>

\* An Update the API server refuses: the object changed since the Get.
Conflict(o) ==
    /\ pc[o] \in {"updateRetry", "updateAnnotation", "updateStatus"}
    /\ ~fresh[o]
    /\ ReturnError(o)
    /\ UNCHANGED <<objectVars, jobVars, podVars, fresh, edits, faults>>

\* Mutant: the token of the moment is marked, not the one that was handled.
MarkCurrentToken(o) ==
    /\ pc[o] = "updateRetry" /\ fresh[o]
    /\ WriteObject(o, [cr EXCEPT !.applied = cr.retry])
    /\ StartPatch(o, specHash(snap[o].spec), "Running", 0, "idle")
    /\ UNCHANGED <<incarnation, jobVars, podVars, snap, seen, budgetVars>>

\* markRetryApplied: the token that was handled becomes retry-applied.
MarkRetryApplied(o) ==
    /\ pc[o] = "updateRetry" /\ fresh[o]
    /\ WriteObject(o, [cr EXCEPT !.applied = snap[o].retry])
    /\ StartPatch(o, specHash(snap[o].spec), "Running", 0, "idle")
    /\ UNCHANGED <<incarnation, jobVars, podVars, snap, seen, budgetVars>>

\* patchStatus: the spec-hash annotation, an Update of the object itself.
PatchAnnotation(o) ==
    /\ pc[o] = "updateAnnotation" /\ fresh[o]
    /\ WriteObject(o, [cr EXCEPT !.hash = patch[o].hash])
    /\ Goto(o, "getStatus")
    /\ UNCHANGED <<incarnation, jobVars, podVars, localVars, budgetVars>>

\* Mutant: an empty run ID leaves the old one in place.
PatchKeepsRunId(o) ==
    /\ pc[o] = "updateStatus" /\ fresh[o]
    /\ WriteObject(o, [cr EXCEPT !.phase = patch[o].phase,
                                 !.runId = IF patch[o].runId = 0 THEN @ ELSE patch[o].runId])
    /\ IF patch[o].next = "idle"
       THEN Return(o)
       ELSE Goto(o, patch[o].next) /\ UNCHANGED localVars
    /\ UNCHANGED <<incarnation, jobVars, podVars, budgetVars>>

\* patchStatus: phase and runId, an update of the status subresource.
PatchStatus(o) ==
    /\ pc[o] = "updateStatus" /\ fresh[o]
    /\ WriteObject(o, [cr EXCEPT !.phase = patch[o].phase, !.runId = patch[o].runId])
    /\ IF patch[o].next = "idle"
       THEN Return(o)
       ELSE Goto(o, patch[o].next) /\ UNCHANGED localVars
    /\ UNCHANGED <<incarnation, jobVars, podVars, budgetVars>>

\* Mutant: a torn file is taken for a result.
ResultOfAnyFile(file) == file

\* ReadApplyResult succeeds for a complete file only.
ResultOf(file) == IF file \in JobIds THEN file ELSE 0

\* observeJob, from the Job state Get returned.  A succeeded Job completes
\* the benchmark whether or not the status file can be read.
Observe(o) ==
    /\ pc[o] = "observe"
    /\ LET hash == specHash(snap[o].spec)
       IN  \/ /\ seen[o] = "succeeded"
              /\ StartPatch(o, hash, "Completed", ResultOf(statusFile), "idle")
              /\ UNCHANGED <<snap, seen, faults>>
           \/ /\ seen[o] = "succeeded" /\ faults < MaxFaults
              /\ faults' = faults + 1
              /\ StartPatch(o, hash, "Completed", 0, "idle")
              /\ UNCHANGED <<snap, seen>>
           \/ /\ seen[o] = "failed"
              /\ StartPatch(o, hash, "Failed", 0, "idle")
              /\ UNCHANGED <<snap, seen, faults>>
           \/ /\ seen[o] \notin {"succeeded", "failed"}
              /\ IF snap[o].phase # "Running"
                 THEN StartPatch(o, hash, "Running", 0, "idle") /\ UNCHANGED <<snap, seen>>
                 ELSE Return(o)
              /\ UNCHANGED faults
    /\ UNCHANGED <<objectVars, jobVars, podVars, fresh, edits, unstamped>>

\* An API call fails, before or after its effect, or the operator is killed
\* and restarted: nothing but the cluster's state survives either way.
Abort(o) ==
    /\ pc[o] # "idle" /\ faults < MaxFaults
    /\ faults' = faults + 1
    /\ ReturnError(o)
    /\ fresh' = [fresh EXCEPT ![o] = FALSE]
    /\ UNCHANGED <<objectVars, jobVars, podVars, edits>>

OperatorStep(o) ==
    \/ List(o) \/ GetJob(o) \/ RemoveStatusFile(o) \/ DeleteJob(o)
    \/ UpsertConfigMap(o) \/ CreateJob(o) \/ GetObject(o) \/ Conflict(o)
    \/ MarkRetryApplied(o) \/ PatchAnnotation(o) \/ PatchStatus(o) \/ Observe(o)

-----------------------------------------------------------------------------
(* The pod of Job i: stratabench apply <manifest> --status-out <file>.     *)

\* The container starts and loads the manifest from the mounted ConfigMap.
PodStart(i) ==
    /\ pod[i] = "pending" /\ configMap # None
    /\ pod' = [pod EXCEPT ![i] = "running"]
    /\ ran' = [ran EXCEPT ![i] = configMap]
    /\ UNCHANGED statusFile

\* manifest.Apply returned a run: WriteApplyResult truncates the file ...
PodTruncate(i) ==
    /\ pod[i] = "running"
    /\ pod' = [pod EXCEPT ![i] = "writing"]
    /\ statusFile' = Torn
    /\ UNCHANGED ran

\* ... and writes it.  Then the command exits 0 and the Job counts a success,
\* or the pod is lost before it exits.  (No operator reads the file between the
\* write and the exit, unless the Job has been replaced; then the order of the
\* exit and that read makes no difference.)
PodWrite(i) ==
    /\ pod[i] = "writing"
    /\ \E end \in {"succeeded", "failed"} : pod' = [pod EXCEPT ![i] = end]
    /\ statusFile' = i
    /\ UNCHANGED ran

\* apply returns an error, or the pod is evicted or collected.
PodFail(i) ==
    /\ Active(i)
    /\ Lost(i)
    /\ UNCHANGED statusFile

PodStep(i) ==
    /\ PodStart(i) \/ PodTruncate(i) \/ PodWrite(i) \/ PodFail(i)
    /\ UNCHANGED <<objectVars, jobVars, pc, localVars, fresh, budgetVars>>

\* The garbage collector removes a Job that waited for its pod.
JobGone ==
    /\ deleting /\ ~Active(job)
    /\ job' = 0 /\ deleting' = FALSE
    /\ UNCHANGED <<objectVars, configMap, created, request, podVars, pc, localVars, fresh,
                   budgetVars>>

-----------------------------------------------------------------------------
(* The user, with kubectl.                                                 *)

UserWrite(b) ==
    /\ edits < MaxEdits /\ edits' = edits + 1
    /\ WriteObject(None, b)
    /\ UNCHANGED <<jobVars, podVars, pc, localVars, faults, unstamped>>

CreateBenchmark(s) ==
    /\ cr = None /\ incarnation < MaxIncarnations
    /\ incarnation' = incarnation + 1
    /\ UserWrite([uid |-> incarnation', spec |-> s, retry |-> None, applied |-> None,
                  hash |-> None, phase |-> None, runId |-> 0])

DeleteBenchmark == cr # None /\ UserWrite(None) /\ UNCHANGED incarnation

EditSpec(s) ==
    /\ cr # None /\ cr.spec # s
    /\ UserWrite([cr EXCEPT !.spec = s]) /\ UNCHANGED incarnation

\* kubectl annotate: set the retry token, change it or remove it.
AnnotateRetry(t) ==
    /\ cr # None /\ cr.retry # t
    /\ UserWrite([cr EXCEPT !.retry = t]) /\ UNCHANGED incarnation

UserStep ==
    \/ \E s \in Spec : CreateBenchmark(s) \/ EditSpec(s)
    \/ \E t \in Tokens \cup {None} : AnnotateRetry(t)
    \/ DeleteBenchmark

-----------------------------------------------------------------------------
Next ==
    \/ \E o \in Operators : OperatorStep(o) \/ Abort(o)
    \/ \E i \in JobIds : PodStep(i)
    \/ JobGone
    \/ UserStep

\* The resync ticker keeps the loop going, pods end and the cluster collects
\* what was deleted.  Users, faults and restarts owe nothing.
Fairness ==
    /\ \A o \in Operators : WF_vars(OperatorStep(o))
    /\ \A i \in JobIds : WF_vars(PodStep(i))
    /\ WF_vars(JobGone)

SafeSpec == Init /\ [][Next]_vars
FairSpec == SafeSpec /\ Fairness

-----------------------------------------------------------------------------
(* Safety.                                                                 *)

\* A retry token is marked applied only after a Job was created for it: a
\* failure or restart between the two repeats a run, it never drops one
\* (ensureJob calls markRetryApplied after Create).
AppliedRetryHasJob ==
    cr # None /\ cr.applied # None =>
        \E i \in 1..created : request[i].token = cr.applied

\* Pod i did its run and wrote the whole result.
Reported(i) == pod[i] \in {"succeeded", "failed"} /\ ran[i] # None

\* What the status reports has happened: a run ID is shown by a Completed
\* benchmark only, and is that of a run that a pod has done and written down,
\* never a torn or half-written result; Completed itself needs some Job that
\* succeeded (WriteApplyResult, ReadApplyResult, observeJob and patchStatus).
ReportedRunFinished ==
    cr # None =>
        /\ cr.runId # 0 => cr.phase = "Completed" /\ Reported(cr.runId)
        /\ cr.phase = "Completed" => \E i \in 1..created : pod[i] = "succeeded"

\* With one replica every Job is owed to a user's write or to an earlier Job
\* whose hash or token could not be recorded: the resync loop alone never
\* starts a benchmark twice, however often it runs (decideReconcile and the
\* hash and retry-applied annotations that ensureJob leaves behind).
JobsAccountedFor == created <= edits + unstamped

\* With one replica a benchmark leaves Completed only because the list item
\* the operator works from asked for it: a spec that does not parse, a drifted
\* hash, or a retry token not yet applied (the skip rule of decideReconcile).
AsksForRun(b) ==
    \/ b.spec.work = Invalid
    \/ specChanged(b.hash, specHash(b.spec))
    \/ b.retry # None /\ b.retry # b.applied

LeavesCompleted ==
    /\ cr # None /\ cr.phase = "Completed"
    /\ cr' # None /\ cr'.uid = cr.uid /\ cr'.phase # "Completed"

LeavesOnRequest ==
    LeavesCompleted => \E o \in Operators : pc[o] = "updateStatus" /\ AsksForRun(snap[o])

CompletedLeftOnlyOnRequest == [][LeavesOnRequest]_vars

-----------------------------------------------------------------------------
(* Liveness.                                                               *)

Settled ==
    \/ cr = None
    \/ cr.spec.work = Invalid /\ cr.phase = "Failed"
    \/ /\ cr.phase \in {"Completed", "Failed"}
       /\ cr.hash = specHash(cr.spec)
       /\ cr.retry = None \/ cr.retry = cr.applied

\* Once users and faults stop, every benchmark reaches a final phase with the
\* hash of its own spec and its retry applied, and stays there: no conflict,
\* lingering Job or lost call leaves it Pending or Running for good (Run,
\* reconcileOne, "waiting for previous job cleanup").
Converges == <>[]Settled

\* A retry the user asked for is applied, unless the user withdraws it,
\* changes it, breaks the spec or deletes the object (markRetryApplied).
RetryServed ==
    \A t \in Tokens :
        (cr # None /\ cr.retry = t /\ cr.applied # t)
            ~> (cr = None \/ cr.retry # t \/ cr.applied = t \/ cr.spec.work = Invalid)

-----------------------------------------------------------------------------
(* What the documentation says and the code does not do.                   *)

\* The spec-hash annotation of a completed benchmark is the hash of the spec
\* its run was made with, so that a later edit is seen as a drift
\* (annotationSpecHash, written by patchStatus in ensureJob and observeJob).
StampMatchesRun ==
    cr # None /\ cr.phase = "Completed" /\ cr.runId # 0 =>
        ran[cr.runId] # None /\ specHash(ran[cr.runId]) = cr.hash

\* A completed Benchmark object had a Job created for it, not for an earlier
\* object of the same name (ensureJob, observeJob).
JobPerBenchmark ==
    cr # None /\ cr.phase = "Completed" =>
        \E i \in 1..created : request[i].uid = cr.uid

\* After the last edit of the spec a completed benchmark reports a run of that
\* spec (specHash).
EditsTakeEffect ==
    <>[](cr # None /\ cr.phase = "Completed" /\ cr.runId # 0 => ran[cr.runId] = cr.spec)
=============================================================================
