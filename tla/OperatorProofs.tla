--------------------------- MODULE OperatorProofs ---------------------------
(* Safety of BenchmarkOperator for any specs, tokens and bounds, checked by  *)
(* TLAPS: first for any set of replicas, then what a single one promises.    *)
EXTENDS BenchmarkOperator, TLAPS

\* Where the locals of a reconciliation are used they are set: the snapshot is
\* an object, one whose spec parsed wherever its hash is taken, and a copy that
\* is still current is a copy of an object that exists.
PatchCalls == {"getAnnotation", "updateAnnotation", "getStatus", "updateStatus"}

LocalsSet ==
    \A o \in Operators :
        /\ pc[o] # "idle" => snap[o] \in Benchmark
        /\ pc[o] \notin PatchCalls \cup {"idle"} => snap[o].spec.work \in Works
        /\ patch[o].next = "upsertConfigMap" => snap[o].spec.work \in Works
        /\ patch[o].next = "upsertConfigMap" => pc[o] # "idle"
        /\ fresh[o] => cr # None

TypeInv == TypeOK /\ LocalsSet

USE DEF JobIds, Torn, Phases, PodStates, Calls

\* What the proofs use of the assumption on the constants.
LEMMA Constants ==
    MaxJobs \in Nat /\ None \notin Works /\ None \notin Tokens /\ None \notin Phases
BY OperatorAssumption DEF OperatorAssumption

\* What patchStatus is called with is a Patch.
LEMMA PatchType ==
    ASSUME NEW h \in Works \cup {None}, NEW ph \in Phases, NEW r \in JobIds \cup {0},
           NEW n \in {"idle", "upsertConfigMap"}
    PROVE  [hash |-> h, phase |-> ph, runId |-> r, next |-> n] \in Patch
BY DEF Patch

\* The arguments of no patchStatus are of a Patch's type.
LEMMA NoPatchType ==
    /\ NoPatch \in Patch /\ NoPatch.next = "idle"
    /\ NoPatch.runId = 0 /\ NoPatch.phase = "Pending"
BY PatchType DEF NoPatch

\* The three ways pc and patch change keep their types.
LEMMA StartPatchType ==
    ASSUME TypeOK, NEW o \in Operators, NEW h \in Works \cup {None}, NEW ph \in Phases,
           NEW r \in JobIds \cup {0}, NEW n \in {"idle", "upsertConfigMap"},
           StartPatch(o, h, ph, r, n)
    PROVE  /\ pc' \in [Operators -> Calls] /\ patch' \in [Operators -> Patch]
           /\ patch'[o] = [hash |-> h, phase |-> ph, runId |-> r, next |-> n]
           /\ patch'[o].next = n /\ patch'[o].phase = ph /\ patch'[o].runId = r
           /\ pc'[o] \in {"getStatus", "getAnnotation"}
           /\ \A q \in Operators \ {o} : pc'[q] = pc[q] /\ patch'[q] = patch[q]
<1>1. [hash |-> h, phase |-> ph, runId |-> r, next |-> n] \in Patch
  BY PatchType
<1> QED BY <1>1 DEF TypeOK, StartPatch, Goto

\* A reconciliation that returns leaves its locals empty.
LEMMA ReturnType ==
    ASSUME TypeOK, NEW o \in Operators, Return(o)
    PROVE  /\ pc' \in [Operators -> Calls] /\ snap' \in [Operators -> Benchmark \cup {None}]
           /\ seen' \in [Operators -> PodStates] /\ patch' \in [Operators -> Patch]
           /\ pc'[o] = "idle" /\ patch'[o].next = "idle" /\ patch'[o].runId = 0
           /\ patch'[o].phase = "Pending" /\ seen'[o] = "none"
           /\ \A q \in Operators \ {o} : /\ pc'[q] = pc[q] /\ patch'[q] = patch[q]
                                       /\ snap'[q] = snap[q] /\ seen'[q] = seen[q]
BY NoPatchType DEF TypeOK, Return, Goto

\* The empty cluster has the right types.
LEMMA InitType == Init => TypeInv
<1> SUFFICES ASSUME Init PROVE TypeInv
  OBVIOUS
<1>1. TypeOK
  BY Constants, NoPatchType DEF Init, TypeOK
<1>2. LocalsSet
  BY NoPatchType DEF Init, LocalsSet
<1> QED BY <1>1, <1>2 DEF TypeInv

\* The fields of the Benchmark object have their types.
LEMMA ObjectType ==
    ASSUME TypeOK, cr # None
    PROVE  /\ cr \in Benchmark
           /\ cr.uid \in Nat /\ cr.spec \in Spec /\ cr.retry \in Tokens \cup {None}
           /\ cr.applied \in Tokens \cup {None} /\ cr.hash \in Works \cup {None}
           /\ cr.phase \in Phases \cup {None} /\ cr.runId \in JobIds \cup {0}
BY DEF TypeOK, Benchmark

\* List takes a well-typed snapshot (reconcileAll).
LEMMA ListType == ASSUME TypeInv, NEW o \in Operators, List(o) PROVE TypeInv'
<1> USE DEF TypeInv
<1>1. cr \in Benchmark /\ cr.spec \in Spec
  BY ObjectType DEF List
<1>2. TypeOK'
  <2>1. snap' \in [Operators -> Benchmark \cup {None}]
    BY <1>1 DEF TypeOK, List
  <2>2. pc' \in [Operators -> Calls] /\ patch' \in [Operators -> Patch]
    <3>1. CASE cr.spec.work = Invalid
      BY <3>1, StartPatchType DEF List
    <3>2. CASE cr.spec.work # Invalid
      BY <3>2 DEF TypeOK, List, Goto
    <3> QED BY <3>1, <3>2
  <2> QED BY <2>1, <2>2 DEF TypeOK, List, objectVars, jobVars, podVars, budgetVars
<1>3. LocalsSet'
  BY <1>1 DEF TypeOK, LocalsSet, List, StartPatch, Goto, PatchCalls, Spec, objectVars
<1> QED BY <1>2, <1>3

\* GetJob goes on to one of the four branches (reconcileOne).
LEMMA GetJobType == ASSUME TypeInv, NEW o \in Operators, GetJob(o) PROVE TypeInv'
<1> USE DEF TypeInv
<1> DEFINE action == decideReconcile(snap[o].phase, snap[o].hash, specHash(snap[o].spec),
                                     job # 0, retryRequested(snap[o]))
<1>1. CASE action = "skip" /\ Return(o)
  <2>1. TypeOK'
    BY <1>1, ReturnType DEF TypeOK, GetJob, objectVars, jobVars, podVars, budgetVars
  <2>2. LocalsSet'
    BY <1>1, NoPatchType DEF TypeOK, LocalsSet, GetJob, Return, Goto, objectVars
  <2> QED BY <2>1, <2>2
<1>2. CASE /\ action \in {"teardown", "ensure"} /\ UNCHANGED localVars
           /\ Goto(o, "removeFile") \/ Goto(o, "upsertConfigMap")
  <2>1. TypeOK'
    BY <1>2 DEF TypeOK, GetJob, Goto, objectVars, jobVars, podVars, localVars, budgetVars
  <2>2. LocalsSet'
    BY <1>2 DEF TypeOK, LocalsSet, GetJob, Goto, PatchCalls, objectVars, localVars
  <2> QED BY <2>1, <2>2
<1>3. CASE /\ action = "observe" /\ Goto(o, "observe")
           /\ seen' = [seen EXCEPT ![o] = pod[job]] /\ UNCHANGED <<snap, patch>>
  <2>1. job \in JobIds
    BY <1>3 DEF TypeOK, decideReconcile
  <2>2. TypeOK'
    BY <1>3, <2>1 DEF TypeOK, GetJob, Goto, objectVars, jobVars, podVars, budgetVars
  <2>3. LocalsSet'
    BY <1>3 DEF TypeOK, LocalsSet, GetJob, Goto, PatchCalls, objectVars
  <2> QED BY <2>2, <2>3
<1> QED BY <1>1, <1>2, <1>3 DEF GetJob

\* The steps of a reconciliation that leave the Benchmark object alone.
LEMMA TeardownType ==
    ASSUME TypeInv, NEW o \in Operators, RemoveStatusFile(o) \/ DeleteJob(o)
    PROVE  TypeInv'
<1> USE DEF TypeInv
<1>1. CASE RemoveStatusFile(o)
  <2>1. TypeOK'
    BY <1>1 DEF TypeOK, RemoveStatusFile, Goto, objectVars, jobVars, localVars
  <2>2. LocalsSet'
    BY <1>1 DEF TypeOK, LocalsSet, RemoveStatusFile, Goto, PatchCalls, objectVars, localVars
  <2> QED BY <2>1, <2>2
<1>2. CASE DeleteJob(o)
  <2>1. StartPatch(o, None, "Pending", 0, "upsertConfigMap")
    BY <1>2 DEF DeleteJob
  <2>2. /\ job' \in JobIds \cup {0} /\ deleting' \in BOOLEAN
        /\ pod' \in [JobIds -> PodStates] /\ ran' \in [JobIds -> Spec \cup {None}]
    BY <1>2 DEF TypeOK, DeleteJob, Lost
  <2>3. TypeOK'
    BY <1>2, <2>1, <2>2, StartPatchType DEF TypeOK, DeleteJob, objectVars, budgetVars
  <2>4. snap[o] \in Benchmark /\ snap[o].spec.work \in Works
    BY <1>2 DEF LocalsSet, DeleteJob, PatchCalls
  <2>5. snap' = snap /\ fresh' = fresh /\ cr' = cr
    BY <1>2 DEF DeleteJob, objectVars
  <2>6. /\ pc'[o] \in {"getStatus", "getAnnotation"}
        /\ \A q \in Operators \ {o} : pc'[q] = pc[q] /\ patch'[q] = patch[q]
    BY <2>1, StartPatchType
  <2>7. LocalsSet'
    BY <2>4, <2>5, <2>6 DEF LocalsSet, PatchCalls
  <2> QED BY <2>3, <2>7
<1> QED BY <1>1, <1>2

\* The steps of ensureJob up to the created Job.
LEMMA EnsureType ==
    ASSUME TypeInv, NEW o \in Operators, UpsertConfigMap(o) \/ CreateJob(o)
    PROVE  TypeInv'
<1> USE DEF TypeInv
<1>0. pc[o] \in {"upsertConfigMap", "createJob"}
  BY DEF UpsertConfigMap, CreateJob
<1>1. snap[o] \in Benchmark /\ snap[o].spec \in Spec /\ snap[o].spec.work \in Works
      /\ snap[o].uid \in Nat /\ snap[o].retry \in Tokens \cup {None}
  BY <1>0 DEF LocalsSet, PatchCalls, Benchmark
<1>2. CASE UpsertConfigMap(o)
  <2>1. TypeOK'
    BY <1>1, <1>2 DEF TypeOK, UpsertConfigMap, Goto, objectVars, podVars, localVars, budgetVars
  <2>2. LocalsSet'
    BY <1>1, <1>2 DEF TypeOK, LocalsSet, UpsertConfigMap, Goto, PatchCalls, objectVars, localVars
  <2> QED BY <2>1, <2>2
<1>3. CASE CreateJob(o)
  <2>1. CASE job # 0
    <3>1. StartPatch(o, None, "Pending", 0, "idle")
      BY <1>3, <2>1 DEF CreateJob
    <3>2. TypeOK'
      <4>1. pc' \in [Operators -> Calls] /\ patch' \in [Operators -> Patch]
        <5>1. "Pending" \in Phases
          BY DEF Phases
        <5> QED BY <3>1, <5>1, StartPatchType
      <4>2. UNCHANGED <<cr, incarnation, configMap, job, deleting, created, request, pod, ran,
                        statusFile, snap, seen>>
        BY <1>3, <2>1 DEF CreateJob, objectVars
      <4>3. UNCHANGED <<objectVars, budgetVars, fresh>>
        BY <1>3 DEF CreateJob
      <4> QED BY <4>1, <4>2, <4>3 DEF TypeOK, objectVars, budgetVars
    <3>3. snap' = snap /\ fresh' = fresh /\ cr' = cr
      BY <1>3 DEF CreateJob, objectVars
    <3>4. /\ pc'[o] \in {"getStatus", "getAnnotation"} /\ patch'[o].next = "idle"
          /\ \A q \in Operators \ {o} : pc'[q] = pc[q] /\ patch'[q] = patch[q]
      BY <3>1, StartPatchType
    <3>5. LocalsSet'
      BY <1>1, <3>3, <3>4 DEF LocalsSet, PatchCalls
    <3> QED BY <3>2, <3>5
  <2>2. CASE job = 0
    <3>1. created' \in JobIds /\ job' \in JobIds
      BY <1>3, <2>2, Constants DEF TypeOK, CreateJob
    <3>2. request' \in [JobIds -> [uid : Nat, token : Tokens \cup {None}]]
      <4>1. [uid |-> snap[o].uid, token |-> snap[o].retry]
              \in [uid : Nat, token : Tokens \cup {None}]
        BY <1>1
      <4> QED BY <1>3, <2>2, <4>1 DEF TypeOK, CreateJob
    <3>3. pod' \in [JobIds -> PodStates]
      BY <1>3, <2>2 DEF TypeOK, CreateJob
    <3>4. /\ pc' \in [Operators -> Calls] /\ patch' \in [Operators -> Patch]
          /\ patch'[o].next \in {patch[o].next, "idle"}
          /\ pc'[o] \in PatchCalls \cup {"getRetry"}
          /\ \A q \in Operators \ {o} : pc'[q] = pc[q] /\ patch'[q] = patch[q]
      <4>1. CASE snap[o].retry = None
        <5>1. StartPatch(o, specHash(snap[o].spec), "Running", 0, "idle")
          BY <1>3, <2>2, <4>1 DEF CreateJob
        <5> QED BY <1>1, <5>1, StartPatchType DEF specHash, PatchCalls
      <4>2. CASE snap[o].retry # None
        BY <1>3, <2>2, <4>2 DEF CreateJob, Goto, TypeOK
      <4> QED BY <4>1, <4>2
    <3>5. TypeOK'
      BY <1>3, <3>1, <3>2, <3>3, <3>4 DEF TypeOK, CreateJob, objectVars, budgetVars
    <3>6. snap' = snap /\ fresh' = fresh /\ cr' = cr
      BY <1>3 DEF CreateJob, objectVars
    <3>7. LocalsSet'
      BY <1>1, <3>4, <3>6 DEF LocalsSet, PatchCalls
    <3> QED BY <3>5, <3>7
  <2> QED BY <2>1, <2>2
<1> QED BY <1>2, <1>3

\* A failed call or a crash: only locals and counters change.
LEMMA ErrorType ==
    ASSUME TypeInv, NEW o \in Operators, Conflict(o) \/ Abort(o) \/ (GetObject(o) /\ cr = None)
    PROVE  TypeInv'
<1> USE DEF TypeInv
<1>1. /\ Return(o) /\ unstamped' \in Nat /\ faults' \in Nat /\ edits' \in Nat
      /\ fresh' \in [Operators -> BOOLEAN] /\ \A q \in Operators : fresh'[q] => fresh[q]
      /\ UNCHANGED <<objectVars, jobVars, podVars>>
  <2>1. CASE Conflict(o)
    BY <2>1 DEF TypeOK, Conflict, ReturnError
  <2>2. CASE Abort(o)
    BY <2>2 DEF TypeOK, Abort, ReturnError
  <2>3. CASE GetObject(o) /\ cr = None
    BY <2>3 DEF TypeOK, GetObject, ReturnError
  <2> QED BY <2>1, <2>2, <2>3
<1>2. TypeOK'
  BY <1>1, ReturnType DEF TypeOK, objectVars, jobVars, podVars
<1>3. LocalsSet'
  <2>1. /\ pc'[o] = "idle" /\ patch'[o].next = "idle"
        /\ \A q \in Operators \ {o} : /\ pc'[q] = pc[q] /\ patch'[q] = patch[q]
                                    /\ snap'[q] = snap[q]
    BY <1>1, ReturnType
  <2> QED BY <1>1, <2>1 DEF LocalsSet, objectVars
<1> QED BY <1>2, <1>3

\* The Gets of markRetryApplied and patchStatus.
LEMMA GetObjectType ==
    ASSUME TypeInv, NEW o \in Operators, GetObject(o), cr # None
    PROVE  TypeInv'
<1> USE DEF TypeInv
<1>1. /\ pc[o] \in {"getRetry", "getAnnotation", "getStatus"}
      /\ fresh' = [fresh EXCEPT ![o] = TRUE]
      /\ UNCHANGED <<objectVars, jobVars, podVars, localVars, budgetVars>>
      /\ Goto(o, CASE pc[o] = "getRetry"      -> "updateRetry"
                   [] pc[o] = "getAnnotation" -> "updateAnnotation"
                   [] pc[o] = "getStatus"     -> "updateStatus")
  BY DEF GetObject
<1>2. /\ pc' \in [Operators -> Calls]
      /\ pc[o] = "getRetry" => pc'[o] = "updateRetry"
      /\ pc[o] # "getRetry" => pc'[o] \in {"updateAnnotation", "updateStatus"}
      /\ \A q \in Operators \ {o} : pc'[q] = pc[q] /\ fresh'[q] = fresh[q]
  BY <1>1 DEF Goto, TypeOK
<1>3. TypeOK'
  BY <1>1, <1>2 DEF TypeOK, objectVars, jobVars, podVars, localVars, budgetVars
<1>4. LocalsSet'
  BY <1>1, <1>2 DEF LocalsSet, PatchCalls, objectVars, localVars
<1> QED BY <1>3, <1>4

\* The three writes of the Benchmark object.
LEMMA WriteType ==
    ASSUME TypeInv, NEW o \in Operators,
           MarkRetryApplied(o) \/ PatchAnnotation(o) \/ PatchStatus(o)
    PROVE  TypeInv'
<1> USE DEF TypeInv
<1>1. /\ fresh[o] /\ cr # None /\ snap[o] \in Benchmark /\ patch[o] \in Patch
      /\ fresh' \in [Operators -> BOOLEAN]
      /\ \A q \in Operators : fresh'[q] => cr' # None
      /\ UNCHANGED <<incarnation, jobVars, podVars, budgetVars>>
  <2>1. fresh[o] /\ UNCHANGED <<incarnation, jobVars, podVars, budgetVars>>
    BY DEF MarkRetryApplied, PatchAnnotation, PatchStatus
  <2>2. \E b : WriteObject(o, b)
    BY DEF MarkRetryApplied, PatchAnnotation, PatchStatus
  <2>3. fresh' \in [Operators -> BOOLEAN]
    BY <2>2 DEF TypeOK, WriteObject
  <2>4. cr # None /\ snap[o] \in Benchmark /\ patch[o] \in Patch
    BY <2>1 DEF TypeOK, LocalsSet, MarkRetryApplied, PatchAnnotation, PatchStatus
  <2>5. \A q \in Operators : fresh'[q] => cr' # None
    BY <2>2, <2>4 DEF WriteObject
  <2> QED BY <2>1, <2>3, <2>4, <2>5
<1>2. cr \in Benchmark
  BY <1>1, ObjectType
<1>3. CASE MarkRetryApplied(o)
  <2>1. snap[o].spec.work \in Works /\ snap[o].retry \in Tokens \cup {None}
    BY <1>1, <1>3 DEF LocalsSet, MarkRetryApplied, PatchCalls, Benchmark
  <2>2. cr' \in Benchmark
    BY <1>2, <1>3, <2>1 DEF MarkRetryApplied, WriteObject, Benchmark
  <2>3. StartPatch(o, specHash(snap[o].spec), "Running", 0, "idle")
    BY <1>3 DEF MarkRetryApplied
  <2>4. /\ pc' \in [Operators -> Calls] /\ patch' \in [Operators -> Patch]
        /\ pc'[o] \in {"getStatus", "getAnnotation"} /\ patch'[o].next = "idle"
        /\ \A q \in Operators \ {o} : pc'[q] = pc[q] /\ patch'[q] = patch[q]
    BY <2>1, <2>3, StartPatchType DEF specHash
  <2>5. snap' = snap /\ seen' = seen
    BY <1>3 DEF MarkRetryApplied
  <2>6. TypeOK'
    BY <1>1, <2>2, <2>4, <2>5 DEF TypeOK, jobVars, podVars, budgetVars
  <2>7. LocalsSet'
    BY <1>1, <2>4, <2>5 DEF LocalsSet, PatchCalls
  <2> QED BY <2>6, <2>7
<1>4. CASE PatchAnnotation(o)
  <2>1. cr' \in Benchmark
    BY <1>1, <1>2, <1>4 DEF PatchAnnotation, WriteObject, Benchmark, Patch
  <2>2. TypeOK'
    BY <1>1, <1>4, <2>1 DEF TypeOK, PatchAnnotation, Goto, jobVars, podVars, localVars, budgetVars
  <2>3. LocalsSet'
    BY <1>1, <1>4 DEF TypeOK, LocalsSet, PatchAnnotation, Goto, PatchCalls, localVars
  <2> QED BY <2>2, <2>3
<1>5. CASE PatchStatus(o)
  <2>1. cr' \in Benchmark
    BY <1>1, <1>2, <1>5 DEF PatchStatus, WriteObject, Benchmark, Patch
  <2>2. CASE patch[o].next = "idle"
    <3>1. Return(o)
      BY <1>5, <2>2 DEF PatchStatus
    <3>2. /\ pc'[o] = "idle" /\ patch'[o].next = "idle"
          /\ \A q \in Operators \ {o} : /\ pc'[q] = pc[q] /\ patch'[q] = patch[q]
                                      /\ snap'[q] = snap[q]
      BY <3>1, ReturnType
    <3>3. TypeOK'
      BY <1>1, <2>1, <3>1, ReturnType DEF TypeOK, jobVars, podVars, budgetVars
    <3>4. LocalsSet'
      BY <1>1, <3>2 DEF LocalsSet
    <3> QED BY <3>3, <3>4
  <2>3. CASE patch[o].next # "idle"
    <3>1. patch[o].next = "upsertConfigMap"
      BY <1>1, <2>3 DEF Patch
    <3>2. Goto(o, "upsertConfigMap") /\ UNCHANGED localVars
      BY <1>5, <2>3, <3>1 DEF PatchStatus
    <3>3. TypeOK'
      BY <1>1, <2>1, <3>2 DEF TypeOK, Goto, jobVars, podVars, localVars, budgetVars
    <3>4. LocalsSet'
      BY <1>1, <3>1, <3>2 DEF TypeOK, LocalsSet, Goto, PatchCalls, localVars
    <3> QED BY <3>3, <3>4
  <2> QED BY <2>2, <2>3
<1> QED BY <1>3, <1>4, <1>5

\* observeJob, whatever it finds in the Job and the status file.
LEMMA ObserveType == ASSUME TypeInv, NEW o \in Operators, Observe(o) PROVE TypeInv'
<1> USE DEF TypeInv
<1>1. /\ pc[o] = "observe" /\ snap[o] \in Benchmark /\ specHash(snap[o].spec) \in Works
      /\ faults' \in Nat
      /\ UNCHANGED <<objectVars, jobVars, podVars, fresh, edits, unstamped>>
  BY DEF TypeOK, LocalsSet, Observe, PatchCalls, specHash
<1>2. CASE Return(o)
  <2>1. TypeOK'
    BY <1>1, <1>2, ReturnType DEF TypeOK, objectVars, jobVars, podVars
  <2>2. /\ pc'[o] = "idle" /\ patch'[o].next = "idle"
        /\ \A q \in Operators \ {o} : /\ pc'[q] = pc[q] /\ patch'[q] = patch[q]
                                    /\ snap'[q] = snap[q]
    BY <1>2, ReturnType
  <2>3. LocalsSet'
    BY <1>1, <2>2 DEF LocalsSet, objectVars
  <2> QED BY <2>1, <2>3
<1>3. ASSUME NEW h \in Works, NEW ph \in Phases, NEW r \in JobIds \cup {0},
             StartPatch(o, h, ph, r, "idle"), UNCHANGED <<snap, seen>>
      PROVE  TypeInv'
  <2>1. /\ pc' \in [Operators -> Calls] /\ patch' \in [Operators -> Patch]
        /\ pc'[o] \in {"getStatus", "getAnnotation"} /\ patch'[o].next = "idle"
        /\ \A q \in Operators \ {o} : pc'[q] = pc[q] /\ patch'[q] = patch[q]
    <3>1. h \in Works \cup {None} /\ StartPatch(o, h, ph, r, "idle")
      BY <1>3
    <3>2. "idle" \in {"idle", "upsertConfigMap"} /\ TypeOK
      OBVIOUS
    <3> HIDE DEF Phases, JobIds, Calls, TypeInv
    <3> QED BY <3>1, <3>2, StartPatchType
  <2>2. TypeOK'
    BY <1>1, <1>3, <2>1 DEF TypeOK, objectVars, jobVars, podVars
  <2>3. LocalsSet'
    BY <1>1, <1>3, <2>1 DEF LocalsSet, PatchCalls, objectVars
  <2> QED BY <2>2, <2>3
<1>4. ResultOf(statusFile) \in JobIds \cup {0}
  BY DEF ResultOf
<1> QED BY <1>1, <1>2, <1>3, <1>4 DEF Observe

\* The pod keeps the types of its state and of the status file.
LEMMA PodType == ASSUME TypeInv, NEW i \in JobIds, PodStep(i) PROVE TypeInv'
<1> USE DEF TypeInv
<1>1. /\ pod' \in [JobIds -> PodStates] /\ ran' \in [JobIds -> Spec \cup {None}]
      /\ statusFile' \in JobIds \cup {0, Torn}
  BY DEF TypeOK, PodStep, PodStart, PodTruncate, PodWrite, PodFail, Lost
<1>2. TypeOK'
  BY <1>1 DEF TypeOK, PodStep, objectVars, jobVars, localVars, budgetVars
<1>3. LocalsSet'
  BY DEF LocalsSet, PodStep, objectVars, localVars
<1> QED BY <1>2, <1>3

\* So does the garbage collector.
LEMMA JobGoneType == TypeInv /\ JobGone => TypeInv'
<1> SUFFICES ASSUME TypeInv, JobGone PROVE TypeInv'
  OBVIOUS
<1>1. TypeOK'
  BY DEF TypeInv, TypeOK, JobGone, objectVars, podVars, localVars, budgetVars
<1>2. LocalsSet'
  BY DEF TypeInv, LocalsSet, JobGone, objectVars, localVars
<1> QED BY <1>1, <1>2 DEF TypeInv

\* So does the user, who writes well-typed objects only.
LEMMA UserType == TypeInv /\ UserStep => TypeInv'
<1> SUFFICES ASSUME TypeInv, UserStep PROVE TypeInv'
  OBVIOUS
<1> USE DEF TypeInv
<1>1. \E b \in Benchmark \cup {None} : UserWrite(b) /\ incarnation' \in Nat
  <2>1. ASSUME NEW s \in Spec, CreateBenchmark(s)
        PROVE  \E b \in Benchmark \cup {None} : UserWrite(b) /\ incarnation' \in Nat
    <3>1. incarnation' \in Nat
      BY <2>1 DEF TypeOK, CreateBenchmark
    <3>2. [uid |-> incarnation', spec |-> s, retry |-> None, applied |-> None,
           hash |-> None, phase |-> None, runId |-> 0] \in Benchmark
      BY <3>1 DEF Benchmark
    <3> QED BY <2>1, <3>1, <3>2 DEF CreateBenchmark
  <2>2. ASSUME NEW s \in Spec, EditSpec(s)
        PROVE  \E b \in Benchmark \cup {None} : UserWrite(b) /\ incarnation' \in Nat
    <3>1. [cr EXCEPT !.spec = s] \in Benchmark
      BY <2>2, ObjectType DEF EditSpec, Benchmark
    <3> QED BY <2>2, <3>1 DEF EditSpec, TypeOK
  <2>3. ASSUME NEW t \in Tokens \cup {None}, AnnotateRetry(t)
        PROVE  \E b \in Benchmark \cup {None} : UserWrite(b) /\ incarnation' \in Nat
    <3>1. [cr EXCEPT !.retry = t] \in Benchmark
      BY <2>3, ObjectType DEF AnnotateRetry, Benchmark
    <3> QED BY <2>3, <3>1 DEF AnnotateRetry, TypeOK
  <2>4. CASE DeleteBenchmark
    BY <2>4 DEF DeleteBenchmark, TypeOK
  <2> QED BY <2>1, <2>2, <2>3, <2>4 DEF UserStep
<1>2. PICK b \in Benchmark \cup {None} : UserWrite(b) /\ incarnation' \in Nat
  BY <1>1
<1>3. TypeOK'
  <2>1. fresh' \in [Operators -> BOOLEAN]
    BY <1>2 DEF TypeOK, UserWrite, WriteObject
  <2> QED BY <1>2, <2>1 DEF TypeOK, UserWrite, WriteObject, jobVars, podVars, localVars
<1>4. LocalsSet'
  BY <1>2 DEF TypeOK, LocalsSet, UserWrite, WriteObject, localVars
<1> QED BY <1>3, <1>4

\* Every step keeps the type invariant.
LEMMA NextType == TypeInv /\ [Next]_vars => TypeInv'
<1> SUFFICES ASSUME TypeInv, [Next]_vars PROVE TypeInv'
  OBVIOUS
<1>1. ASSUME NEW o \in Operators, OperatorStep(o) \/ Abort(o) PROVE TypeInv'
  <2>1. CASE GetObject(o)
    BY <2>1, ErrorType, GetObjectType
  <2> QED BY <1>1, <2>1, ListType, GetJobType, TeardownType, EnsureType, ErrorType, WriteType,
             ObserveType DEF OperatorStep
<1>2. CASE UNCHANGED vars
  BY <1>2 DEF TypeInv, TypeOK, LocalsSet, vars, objectVars, jobVars, podVars, localVars, budgetVars
<1> QED BY <1>1, <1>2, PodType, JobGoneType, UserType DEF Next

\* Every variable keeps its type, whatever the replicas, specs, tokens and
\* bounds (all of the operator's actions, its pods and the user).
THEOREM TypeCorrect == SafeSpec => []TypeOK
<1>1. SafeSpec => []TypeInv
  BY InitType, NextType, PTL DEF SafeSpec
<1> QED BY <1>1, PTL DEF TypeInv

-----------------------------------------------------------------------------
(* What one step leaves alone, used by both invariants below.               *)

StepOf(o) == OperatorStep(o) \/ Abort(o)

\* A reconciliation touches no other replica's locals.
LEMMA OthersUntouched ==
    ASSUME TypeInv, NEW o \in Operators, StepOf(o), NEW q \in Operators \ {o}
    PROVE  pc'[q] = pc[q] /\ snap'[q] = snap[q] /\ seen'[q] = seen[q] /\ patch'[q] = patch[q]
<1> USE DEF Goto, Return, ReturnError, StartPatch, localVars, TypeInv, TypeOK
<1>1. CASE List(o) \/ GetJob(o)
  BY <1>1 DEF List, GetJob
<1>2. CASE RemoveStatusFile(o) \/ DeleteJob(o) \/ UpsertConfigMap(o) \/ CreateJob(o)
  BY <1>2 DEF RemoveStatusFile, DeleteJob, UpsertConfigMap, CreateJob
<1>3. CASE GetObject(o) \/ Conflict(o) \/ Abort(o)
  BY <1>3 DEF GetObject, Conflict, Abort
<1>4. CASE MarkRetryApplied(o) \/ PatchAnnotation(o) \/ PatchStatus(o)
  BY <1>4 DEF MarkRetryApplied, PatchAnnotation, PatchStatus
<1>5. CASE Observe(o)
  BY <1>5 DEF Observe
<1> QED BY <1>1, <1>2, <1>3, <1>4, <1>5 DEF StepOf, OperatorStep

\* Every step but a reconciliation leaves the operators alone, and only the
\* user's writes the object.
LEMMA EnvironmentStep ==
    ASSUME TypeInv, [Next]_vars, \A o \in Operators : ~StepOf(o)
    PROVE  /\ UNCHANGED <<pc, snap, seen, patch, created, request>>
           /\ \/ cr' = cr \/ cr' = None
              \/ cr # None /\ \E s \in Spec : cr' = [cr EXCEPT !.spec = s]
              \/ cr # None /\ \E t \in Tokens \cup {None} : cr' = [cr EXCEPT !.retry = t]
              \/ \E u \in Nat, s \in Spec :
                   cr' = [uid |-> u, spec |-> s, retry |-> None, applied |-> None,
                          hash |-> None, phase |-> None, runId |-> 0]
<1>1. CASE \E i \in JobIds : PodStep(i)
  BY <1>1 DEF PodStep, objectVars, jobVars, localVars
<1>2. CASE JobGone
  BY <1>2 DEF JobGone, objectVars, localVars
<1>3. CASE UNCHANGED vars
  BY <1>3 DEF vars, objectVars, jobVars, localVars
<1>4. CASE UserStep
  <2>1. UNCHANGED <<pc, snap, seen, patch, created, request>>
    BY <1>4 DEF UserStep, CreateBenchmark, EditSpec, AnnotateRetry, DeleteBenchmark, UserWrite,
                jobVars, localVars
  <2>2. CASE \E s \in Spec : CreateBenchmark(s)
    <3>1. incarnation' \in Nat
      BY <2>2 DEF CreateBenchmark, TypeInv, TypeOK
    <3> QED BY <2>1, <2>2, <3>1 DEF CreateBenchmark, UserWrite, WriteObject
  <2>3. CASE \E s \in Spec : EditSpec(s)
    BY <2>1, <2>3 DEF EditSpec, UserWrite, WriteObject
  <2>4. CASE \E t \in Tokens \cup {None} : AnnotateRetry(t)
    BY <2>1, <2>4 DEF AnnotateRetry, UserWrite, WriteObject
  <2>5. CASE DeleteBenchmark
    BY <2>1, <2>5 DEF DeleteBenchmark, UserWrite, WriteObject
  <2> QED BY <1>4, <2>2, <2>3, <2>4, <2>5 DEF UserStep
<1> QED BY <1>1, <1>2, <1>3, <1>4 DEF Next, StepOf

\* A reconciliation changes the object in three ways, from a current copy.
LEMMA OperatorWrites ==
    ASSUME TypeInv, NEW o \in Operators, StepOf(o)
    PROVE  \/ cr' = cr
           \/ cr # None /\ pc[o] = "updateRetry" /\ cr' = [cr EXCEPT !.applied = snap[o].retry]
           \/ cr # None /\ cr' = [cr EXCEPT !.hash = patch[o].hash]
           \/ cr # None /\ cr' = [cr EXCEPT !.phase = patch[o].phase, !.runId = patch[o].runId]
<1>1. CASE MarkRetryApplied(o) \/ PatchAnnotation(o) \/ PatchStatus(o)
  BY <1>1 DEF TypeInv, LocalsSet, MarkRetryApplied, PatchAnnotation, PatchStatus, WriteObject
<1> QED BY <1>1 DEF StepOf, OperatorStep, List, GetJob, RemoveStatusFile, DeleteJob,
                    UpsertConfigMap, CreateJob, GetObject, Conflict, Observe, Abort, objectVars

\* Job requests are never rewritten, and only CreateJob adds one.
LEMMA RequestsStable ==
    ASSUME TypeInv, [Next]_vars
    PROVE  /\ created' \in Nat /\ created \in Nat /\ created <= created'
           /\ \A i \in 1..created : request'[i] = request[i]
<1>0. created \in Nat /\ created + 1 \notin 1..created
  BY Constants DEF TypeInv, TypeOK
<1>1. ASSUME NEW o \in Operators, StepOf(o), ~CreateJob(o)
      PROVE  created' = created /\ request' = request
  BY <1>1 DEF StepOf, OperatorStep, List, GetJob, RemoveStatusFile, DeleteJob, UpsertConfigMap,
              GetObject, Conflict, MarkRetryApplied, PatchAnnotation, PatchStatus, Observe, Abort,
              jobVars
<1>2. ASSUME NEW o \in Operators, CreateJob(o)
      PROVE  \/ created' = created /\ request' = request
             \/ created' = created + 1 /\ \A i \in 1..created : request'[i] = request[i]
  <2>1. CASE job # 0
    BY <1>2, <2>1 DEF CreateJob
  <2>2. CASE job = 0
    <3>1. /\ created' = created + 1
          /\ \E x : request' = [request EXCEPT ![created + 1] = x]
      BY <1>2, <2>2 DEF CreateJob
    <3>2. \A i \in 1..created : i \in JobIds /\ i # created + 1
      BY <1>0, Constants DEF TypeInv, TypeOK
    <3> QED BY <3>1, <3>2 DEF TypeInv, TypeOK
  <2> QED BY <2>1, <2>2
<1>3. CASE \A o \in Operators : ~StepOf(o)
  BY <1>0, <1>3, EnvironmentStep
<1> QED BY <1>0, <1>1, <1>2, <1>3

-----------------------------------------------------------------------------
(* A token that is marked applied was handled: between CreateJob and         *)
(* markRetryApplied the operator holds the token of a Job that exists.       *)

HasToken(n, req, t) == \E i \in 1..n : req[i].token = t

RetryInv ==
    /\ \A o \in Operators :
         pc[o] \in {"getRetry", "updateRetry"} => HasToken(created, request, snap[o].retry)
    /\ AppliedRetryHasJob

\* Once a Job was created for a token that stays so.
LEMMA TokenStable ==
    ASSUME TypeInv, [Next]_vars, NEW t, HasToken(created, request, t)
    PROVE  HasToken(created', request', t)
<1>1. PICK i \in 1..created : request[i].token = t
  BY DEF HasToken
<1>2. i \in 1..created' /\ request'[i].token = t
  BY <1>1, RequestsStable
<1> QED BY <1>2 DEF HasToken

\* The operator enters or stays in markRetryApplied with a token that has a Job.
LEMMA RetryLocals ==
    ASSUME TypeInv, NEW o \in Operators, StepOf(o), pc'[o] \in {"getRetry", "updateRetry"}
    PROVE  \/ pc[o] \in {"getRetry", "updateRetry"} /\ snap'[o] = snap[o]
           \/ HasToken(created', request', snap'[o].retry)
<1> USE DEF TypeInv, TypeOK, StartPatch, Return, ReturnError, Goto, localVars
<1>1. CASE List(o) \/ GetJob(o) \/ RemoveStatusFile(o) \/ DeleteJob(o) \/ UpsertConfigMap(o)
  BY <1>1 DEF List, GetJob, RemoveStatusFile, DeleteJob, UpsertConfigMap
<1>2. CASE CreateJob(o)
  <2>1. CASE job # 0
    BY <1>2, <2>1 DEF CreateJob
  <2>2. CASE job = 0
    <3>1. /\ created' = created + 1 /\ snap' = snap /\ created + 1 \in JobIds
          /\ request' = [request EXCEPT ![created + 1] =
                           [uid |-> snap[o].uid, token |-> snap[o].retry]]
      BY <1>2, <2>2, Constants DEF CreateJob
    <3>2. request'[created'].token = snap'[o].retry /\ created' \in 1..created'
      BY <3>1, Constants
    <3> QED BY <3>2 DEF HasToken
  <2> QED BY <2>1, <2>2
<1>3. CASE GetObject(o) \/ Conflict(o) \/ Abort(o)
  BY <1>3 DEF GetObject, Conflict, Abort
<1>4. CASE MarkRetryApplied(o) \/ PatchAnnotation(o) \/ PatchStatus(o)
  <2>1. patch[o] \in Patch
    OBVIOUS
  <2> QED BY <1>4, <2>1 DEF MarkRetryApplied, PatchAnnotation, PatchStatus, Patch
<1>5. CASE Observe(o)
  BY <1>5 DEF Observe
<1> QED BY <1>1, <1>2, <1>3, <1>4, <1>5 DEF StepOf, OperatorStep

\* Every step keeps the invariant behind RetryNeverDropped.
LEMMA NextRetry == ASSUME TypeInv, RetryInv, [Next]_vars PROVE RetryInv'
<1>1. ASSUME NEW o \in Operators, pc'[o] \in {"getRetry", "updateRetry"}
      PROVE  HasToken(created', request', snap'[o].retry)
  <2>1. CASE pc[o] \in {"getRetry", "updateRetry"} /\ snap'[o] = snap[o]
    BY <2>1, TokenStable DEF RetryInv
  <2>2. CASE StepOf(o)
    BY <1>1, <2>1, <2>2, RetryLocals
  <2>3. CASE \E q \in Operators \ {o} : StepOf(q)
    BY <1>1, <2>1, <2>3, OthersUntouched
  <2>4. CASE \A q \in Operators : ~StepOf(q)
    BY <1>1, <2>1, <2>4, EnvironmentStep
  <2> QED BY <2>2, <2>3, <2>4
<1>2. ASSUME cr' # None, cr'.applied # None PROVE HasToken(created', request', cr'.applied)
  <2>1. CASE cr # None /\ cr.applied = cr'.applied
    BY <1>2, <2>1, TokenStable DEF RetryInv, AppliedRetryHasJob, HasToken
  <2>2. ASSUME NEW o \in Operators, StepOf(o) PROVE HasToken(created', request', cr'.applied)
    <3>1. CASE cr # None /\ pc[o] = "updateRetry" /\ cr' = [cr EXCEPT !.applied = snap[o].retry]
      <4>1. cr'.applied = snap[o].retry
        BY <3>1, ObjectType DEF TypeInv, Benchmark
      <4> QED BY <3>1, <4>1, TokenStable DEF RetryInv
    <3>2. CASE /\ cr # None
               /\ \/ cr' = [cr EXCEPT !.hash = patch[o].hash]
                  \/ cr' = [cr EXCEPT !.phase = patch[o].phase, !.runId = patch[o].runId]
      <4>1. cr'.applied = cr.applied
        BY <3>2, ObjectType DEF TypeInv, Benchmark
      <4> QED BY <2>1, <3>2, <4>1
    <3> QED BY <1>2, <2>1, <2>2, <3>1, <3>2, OperatorWrites
  <2>3. CASE \A o \in Operators : ~StepOf(o)
    <3>1. cr # None /\ cr'.applied = cr.applied
      BY <1>2, <2>3, EnvironmentStep, ObjectType DEF TypeInv, Benchmark
    <3> QED BY <2>1, <3>1
  <2> QED BY <2>2, <2>3
<1> QED BY <1>1, <1>2 DEF RetryInv, AppliedRetryHasJob, HasToken

\* A retry is never marked as handled without a Job created for it, through
\* any interleaving of replicas, users, refused updates and restarts
\* (ensureJob's order: Create, then markRetryApplied).
THEOREM RetryNeverDropped == SafeSpec => []AppliedRetryHasJob
<1>1. Init => RetryInv
  BY DEF Init, RetryInv, AppliedRetryHasJob
<1>2. SafeSpec => []TypeInv
  BY InitType, NextType, PTL DEF SafeSpec
<1>3. TypeInv /\ RetryInv /\ [Next]_vars => RetryInv'
  BY NextRetry
<1>4. RetryInv => AppliedRetryHasJob
  BY DEF RetryInv
<1> QED BY <1>1, <1>2, <1>3, <1>4, PTL DEF SafeSpec

-----------------------------------------------------------------------------
(* What the status reports has happened.  The claim travels from the pod to  *)
(* the status file or the Job, to an operator's locals, to the object; it    *)
(* stays true because a run that was done stays so and ids are not reused.   *)

Done(p, r, i) == p[i] \in {"succeeded", "failed"} /\ r[i] # None
SomeSuccess(n, p) == \E i \in 1..n : p[i] = "succeeded"

ReportInv ==
    /\ \A i \in JobIds : i > created => pod[i] = "none"
    /\ \A i \in JobIds : pod[i] \in {"running", "writing"} => ran[i] # None
    /\ statusFile \in JobIds => Done(pod, ran, statusFile)
    /\ \A o \in Operators :
         /\ patch[o].runId # 0 => /\ patch[o].phase = "Completed"
                                  /\ Done(pod, ran, patch[o].runId)
         /\ patch[o].phase = "Completed" => SomeSuccess(created, pod)
         /\ seen[o] = "succeeded" => SomeSuccess(created, pod)
    /\ ReportedRunFinished

\* How a pod moves in one step, and who writes the status file.
Moves(j) ==
    \/ pod'[j] = pod[j] /\ ran'[j] = ran[j]
    \/ pod[j] \in {"pending", "running", "writing"} /\ pod'[j] = "failed"
    \/ pod[j] = "pending" /\ pod'[j] = "running" /\ ran'[j] # None
    \/ pod[j] = "running" /\ pod'[j] = "writing" /\ ran'[j] = ran[j]
    \/ pod[j] = "writing" /\ pod'[j] \in {"succeeded", "failed"} /\ ran'[j] = ran[j]
    \/ j = created + 1 /\ created' = created + 1 /\ pod'[j] = "pending"

Writes ==
    \/ statusFile' \in {0, Torn, statusFile}
    \/ /\ statusFile' \in JobIds /\ pod[statusFile'] = "writing"
       /\ pod'[statusFile'] \in {"succeeded", "failed"} /\ ran'[statusFile'] = ran[statusFile']

\* The steps of the operators.
LEMMA OperatorMoves ==
    ASSUME TypeInv, NEW o \in Operators, StepOf(o)
    PROVE  created' \in {created, created + 1} /\ (\A j \in JobIds : Moves(j)) /\ Writes
<1> USE DEF TypeInv, TypeOK, Moves, Writes
<1>1. CASE UNCHANGED <<pod, ran, statusFile, created>>
  BY <1>1
<1>2. CASE RemoveStatusFile(o)
  BY <1>2 DEF RemoveStatusFile, jobVars
<1>3. CASE DeleteJob(o)
  <2>1. /\ statusFile' = statusFile /\ created' = created
        /\ UNCHANGED <<pod, ran>> \/ (job # 0 /\ Active(job) /\ Lost(job))
    BY <1>3 DEF DeleteJob
  <2>2. CASE job # 0 /\ Active(job) /\ Lost(job)
    <3>1. \A j \in JobIds \ {job} : pod'[j] = pod[j] /\ ran'[j] = ran[j]
      BY <2>2 DEF Lost
    <3>2. job \in JobIds => Moves(job)
      BY <2>2 DEF Lost, Active
    <3> QED BY <2>1, <3>1, <3>2
  <2> QED BY <1>1, <2>1, <2>2
<1>4. CASE CreateJob(o)
  <2>1. /\ statusFile' = statusFile /\ ran' = ran
        /\ \/ pod' = pod /\ created' = created
           \/ created' = created + 1 /\ pod' = [pod EXCEPT ![created + 1] = "pending"]
    BY <1>4 DEF CreateJob
  <2> QED BY <2>1
<1>5. UNCHANGED <<pod, ran, statusFile, created>> \/ RemoveStatusFile(o) \/ DeleteJob(o) \/ CreateJob(o)
  BY DEF StepOf, OperatorStep, List, GetJob, UpsertConfigMap, GetObject, Conflict,
         MarkRetryApplied, PatchAnnotation, PatchStatus, Observe, Abort, jobVars, podVars
<1> QED BY <1>1, <1>2, <1>3, <1>4, <1>5

\* The steps of the pods, and all others.
LEMMA PodMoves ==
    ASSUME TypeInv, [Next]_vars
    PROVE  created' \in {created, created + 1} /\ (\A j \in JobIds : Moves(j)) /\ Writes
<1> USE DEF TypeInv, TypeOK
<1>1. CASE UNCHANGED <<pod, ran, statusFile, created>>
  BY <1>1 DEF Moves, Writes
<1>2. ASSUME NEW i \in JobIds, PodStep(i)
      PROVE  created' \in {created, created + 1} /\ (\A j \in JobIds : Moves(j)) /\ Writes
  <2>1. created' = created
    BY <1>2 DEF PodStep, jobVars
  <2>2. \A j \in JobIds \ {i} : pod'[j] = pod[j] /\ ran'[j] = ran[j]
    BY <1>2 DEF PodStep, PodStart, PodTruncate, PodWrite, PodFail, Lost
  <2>3. Moves(i)
    BY <1>2 DEF PodStep, PodStart, PodTruncate, PodWrite, PodFail, Lost, Active, Moves
  <2>4. Writes
    BY <1>2 DEF PodStep, PodStart, PodTruncate, PodWrite, PodFail, Writes
  <2> QED BY <2>1, <2>2, <2>3, <2>4 DEF Moves
<1>3. CASE JobGone \/ UserStep \/ UNCHANGED vars
  BY <1>1, <1>3 DEF JobGone, UserStep, CreateBenchmark, EditSpec, AnnotateRetry, DeleteBenchmark,
                    UserWrite, vars, jobVars, podVars
<1> QED BY <1>2, <1>3, OperatorMoves DEF Next, StepOf

\* What was so stays so.
LEMMA PodsStable ==
    ASSUME TypeInv, ReportInv, [Next]_vars
    PROVE  /\ \A i \in JobIds : pod[i] = "succeeded" => pod'[i] = "succeeded"
           /\ \A i \in JobIds : i > created' => pod'[i] = "none"
           /\ \A i \in JobIds : pod'[i] \in {"running", "writing"} => ran'[i] # None
           /\ \A i \in JobIds : Done(pod, ran, i) => Done(pod', ran', i)
           /\ statusFile' \in JobIds => Done(pod', ran', statusFile')
<1>1. created \in Nat /\ created' \in Nat /\ created <= created' /\ JobIds \subseteq Nat
  BY RequestsStable DEF JobIds
<1>2. ASSUME NEW i \in JobIds
      PROVE  /\ pod[i] = "succeeded" => pod'[i] = "succeeded"
             /\ i > created' => pod'[i] = "none"
             /\ pod'[i] \in {"running", "writing"} => ran'[i] # None
             /\ Done(pod, ran, i) => Done(pod', ran', i)
  <2>1. Moves(i)
    BY PodMoves
  <2>2. /\ i > created => pod[i] = "none"
        /\ pod[i] \in {"running", "writing"} => ran[i] # None
    BY DEF ReportInv
  <2>3. i = created + 1 => pod[i] = "none"
    BY <1>1, <2>2
  <2> QED BY <1>1, <2>1, <2>2, <2>3 DEF Moves, Done
<1>3. statusFile' \in JobIds => Done(pod', ran', statusFile')
  <2>1. Writes
    BY PodMoves
  <2>2. 0 \notin JobIds /\ Torn \notin JobIds
    BY Constants DEF JobIds, Torn
  <2>3. CASE statusFile' = statusFile
    BY <1>2, <2>3 DEF ReportInv
  <2> QED BY <2>1, <2>2, <2>3 DEF Writes, ReportInv, Done
<1> QED BY <1>2, <1>3

\* A Job that succeeded stays among the Jobs created.
LEMMA SuccessStable ==
    ASSUME TypeInv, ReportInv, [Next]_vars, SomeSuccess(created, pod)
    PROVE  SomeSuccess(created', pod')
<1>1. PICK i \in 1..created : pod[i] = "succeeded"
  BY DEF SomeSuccess
<1>2. i \in 1..created' /\ i \in JobIds
  BY RequestsStable, Constants DEF TypeInv, TypeOK
<1> QED BY <1>1, <1>2, PodsStable DEF SomeSuccess

\* What a reconciliation newly notes in its locals is so.
LEMMA ReportLocals ==
    ASSUME TypeInv, ReportInv, NEW o \in Operators, StepOf(o)
    PROVE  /\ \/ patch'[o] = patch[o]
              \/ patch'[o].runId = 0 /\ patch'[o].phase # "Completed"
              \/ /\ patch'[o].phase = "Completed" /\ SomeSuccess(created, pod)
                 /\ patch'[o].runId # 0 => Done(pod, ran, patch'[o].runId)
                 /\ patch'[o].runId \in JobIds \cup {0}
           /\ seen'[o] \in {seen[o], "none"} \/ (seen'[o] = "succeeded" => SomeSuccess(created, pod))
<1> USE DEF TypeInv, TypeOK, StartPatch, Goto, localVars
<1>1. CASE List(o)
  BY <1>1 DEF List
<1>2. CASE GetJob(o)
  <2>1. CASE Return(o)
    BY <1>2, <2>1, ReturnType
  <2>2. CASE seen' = [seen EXCEPT ![o] = pod[job]] /\ patch' = patch /\ job \in JobIds
    <3>1. seen'[o] = pod[job]
      BY <2>2
    <3>2. pod[job] = "succeeded" => job \in 1..created
      BY <2>2, Constants DEF ReportInv
    <3> QED BY <2>2, <3>1, <3>2 DEF SomeSuccess
  <2>3. CASE UNCHANGED localVars
    BY <2>3
  <2> QED BY <1>2, <2>1, <2>2, <2>3 DEF GetJob, decideReconcile
<1>3. CASE RemoveStatusFile(o) \/ DeleteJob(o) \/ UpsertConfigMap(o) \/ CreateJob(o)
  BY <1>3 DEF RemoveStatusFile, DeleteJob, UpsertConfigMap, CreateJob
<1>4. CASE Return(o)
  BY <1>4, ReturnType
<1>5. CASE GetObject(o) \/ Conflict(o) \/ Abort(o)
  BY <1>4, <1>5 DEF GetObject, Conflict, Abort, ReturnError
<1>6. CASE MarkRetryApplied(o) \/ PatchAnnotation(o) \/ PatchStatus(o)
  BY <1>4, <1>6 DEF MarkRetryApplied, PatchAnnotation, PatchStatus
<1>7. CASE Observe(o)
  BY <1>4, <1>7 DEF Observe, ResultOf, ReportInv
<1> QED BY <1>1, <1>2, <1>3, <1>5, <1>6, <1>7 DEF StepOf, OperatorStep

\* Every step keeps the invariant behind ReportsAreTrue.
LEMMA NextReport == ASSUME TypeInv, ReportInv, [Next]_vars PROVE ReportInv'
<1>1. ASSUME NEW q \in Operators
      PROVE  /\ patch'[q].runId # 0 => /\ patch'[q].phase = "Completed"
                                       /\ Done(pod', ran', patch'[q].runId)
             /\ patch'[q].phase = "Completed" => SomeSuccess(created', pod')
             /\ seen'[q] = "succeeded" => SomeSuccess(created', pod')
  <2>1. patch[q] \in Patch /\ patch[q].runId \in JobIds \cup {0}
    BY DEF TypeInv, TypeOK, Patch
  <2>2. CASE patch'[q] = patch[q] /\ seen'[q] = seen[q]
    BY <2>1, <2>2, PodsStable, SuccessStable DEF ReportInv
  <2>3. CASE StepOf(q)
    BY <2>1, <2>3, ReportLocals, PodsStable, SuccessStable DEF ReportInv
  <2>4. CASE \E o \in Operators \ {q} : StepOf(o)
    BY <2>2, <2>4, OthersUntouched
  <2>5. CASE \A o \in Operators : ~StepOf(o)
    BY <2>2, <2>5, EnvironmentStep
  <2> QED BY <2>3, <2>4, <2>5
<1>2. ASSUME cr' # None
      PROVE  /\ cr'.runId # 0 => cr'.phase = "Completed" /\ Done(pod', ran', cr'.runId)
             /\ cr'.phase = "Completed" => SomeSuccess(created', pod')
  <2>1. CASE cr # None /\ cr'.runId = cr.runId /\ cr'.phase = cr.phase
    BY <2>1, ObjectType, PodsStable, SuccessStable
    DEF TypeInv, ReportInv, ReportedRunFinished, Reported, Done, SomeSuccess
  <2>2. CASE cr'.runId = 0 /\ cr'.phase = None
    BY <2>2, OperatorAssumption DEF OperatorAssumption
  <2>3. ASSUME NEW o \in Operators, StepOf(o)
        PROVE  \/ cr # None /\ cr'.runId = cr.runId /\ cr'.phase = cr.phase
               \/ cr'.runId = patch[o].runId /\ cr'.phase = patch[o].phase
    BY <1>2, <2>3, OperatorWrites, ObjectType DEF TypeInv, Benchmark
  <2>4. ASSUME NEW o \in Operators, cr'.runId = patch[o].runId, cr'.phase = patch[o].phase
        PROVE  /\ cr'.runId # 0 => cr'.phase = "Completed" /\ Done(pod', ran', cr'.runId)
               /\ cr'.phase = "Completed" => SomeSuccess(created', pod')
    <3>1. patch[o].runId \in JobIds \cup {0}
      BY DEF TypeInv, TypeOK, Patch
    <3> QED BY <2>4, <3>1, PodsStable, SuccessStable DEF ReportInv
  <2>5. CASE \A o \in Operators : ~StepOf(o)
    <3>1. \/ cr # None /\ cr'.runId = cr.runId /\ cr'.phase = cr.phase
          \/ cr'.runId = 0 /\ cr'.phase = None
      BY <1>2, <2>5, EnvironmentStep, ObjectType DEF TypeInv, Benchmark
    <3> QED BY <2>1, <2>2, <3>1
  <2> QED BY <2>1, <2>3, <2>4, <2>5
<1> QED BY <1>1, <1>2, PodsStable DEF ReportInv, ReportedRunFinished, Reported, Done, SomeSuccess

\* A benchmark reports a run ID only when Completed and only of a run that was
\* done and written down, and is Completed only after some Job succeeded, through
\* any interleaving, torn and left status files, pods outliving their Jobs and
\* restarts (WriteApplyResult, ReadApplyResult, observeJob, patchStatus).
THEOREM ReportsAreTrue == SafeSpec => []ReportedRunFinished
<1>1. Init => ReportInv
  BY NoPatchType, Constants DEF Init, ReportInv, ReportedRunFinished
<1>2. SafeSpec => []TypeInv
  BY InitType, NextType, PTL DEF SafeSpec
<1>3. TypeInv /\ ReportInv /\ [Next]_vars => ReportInv'
  BY NextReport
<1>4. ReportInv => ReportedRunFinished
  BY DEF ReportInv
<1> QED BY <1>1, <1>2, <1>3, <1>4, PTL DEF SafeSpec

-----------------------------------------------------------------------------
(***************************************************************************)
(* What BenchmarkOperator promises when a single replica runs, for any     *)
(* specs, tokens and bounds: no Job that nobody asked for, and no          *)
(* benchmark taken out of Completed unasked.                               *)
(*                                                                         *)
(* The argument is an account.  Every user write and every reconciliation  *)
(* that fails before it recorded its Job is worth one Job.  The replica    *)
(* holds one unit of that credit from the moment the object asks for a run *)
(* until its Job is there, and one more while it works from a snapshot the *)
(* user has changed since.  The annotations are what keeps it from holding *)
(* a unit nobody paid: with the hash and the token recorded, the object    *)
(* does not ask again.                                                     *)
(***************************************************************************)

USE DEF JobIds, Torn, Phases, PodStates, Calls

\* No Job, or one that will be gone: the next reconciliation may create one.
NoJob == job = 0 \/ deleting

\* The object makes the next reconciliation create a Job, perhaps after
\* tearing the old one down.
Wants(b) == AsksForRun(b) \/ (NoJob /\ b.phase # "Completed")

\* The object is the one in hand, and the user changed what decides a run.
Same(o)   == pc[o] # "idle" /\ cr # None /\ cr.uid = snap[o].uid
Edited(o) ==
    /\ pc[o] # "idle" /\ cr # None
    /\ ~ (/\ cr.uid = snap[o].uid /\ cr.spec.work = snap[o].spec.work
          /\ cr.retry = snap[o].retry)

\* The replica is about to record a hash.
Stamping(o) == pc[o] \in PatchCalls /\ patch[o].hash # None
Writing(o)  == pc[o] \in {"getAnnotation", "updateAnnotation"}

\* The replica holds the credit for a Job.
Held(o) ==
    /\ pc[o] = "idle" => cr # None /\ Wants(cr)
    /\ pc[o] = "getJob" => Wants(snap[o])
    /\ pc[o] \in {"getRetry", "updateRetry", "observe"} \/ Stamping(o) => NoJob

Unit(x) == IF x THEN 1 ELSE 0
Owed(o) == Unit(Held(o)) + Unit(Edited(o))
Paid(o) == created + Owed(o) <= edits + unstamped

\* What the replica relies on while the object is still the one in hand.
Kept(o) ==
    /\ pc[o] \in {"getJob", "observe"} =>
         cr.hash = snap[o].hash /\ cr.applied = snap[o].applied /\ cr.phase = snap[o].phase
    /\ Stamping(o) => snap[o].retry \in {None, cr.applied}
    /\ Stamping(o) /\ (Writing(o) => patch[o].phase # "Running") =>
         ~specChanged(cr.hash, snap[o].spec.work)

Recorded(o) ==
    /\ deleting => job # 0
    /\ cr # None => cr.uid <= incarnation
    /\ pc[o] # "idle" => snap[o].uid <= incarnation
    /\ pc[o] = "observe" => ~AsksForRun(snap[o])
    /\ Stamping(o) => patch[o].hash = snap[o].spec.work /\ snap[o].spec.work \in Works
    /\ pc[o] \in PatchCalls /\ patch[o].next = "upsertConfigMap" => patch[o].hash = None
    /\ Same(o) => Kept(o)

Good(o) == TypeInv /\ Recorded(o) /\ Paid(o)

-----------------------------------------------------------------------------
(* Adding up.                                                              *)

\* The counters of the account are numbers.
LEMMA Counters ==
    ASSUME TypeInv PROVE created \in Nat /\ edits \in Nat /\ unstamped \in Nat
BY Constants DEF TypeInv, TypeOK

\* A step that neither gains credit nor starts to work from an old snapshot.
LEMMA NothingGained ==
    ASSUME TypeInv, NEW o \in Operators, Paid(o), UNCHANGED <<created, edits, unstamped>>,
           Held(o)' => Held(o), Edited(o)' => Edited(o)
    PROVE  Paid(o)'
BY Counters DEF Paid, Owed, Unit

\* A reconciliation that ends may leave the credit with the object, if it held
\* it or the user has changed the object since.
LEMMA HandedBack ==
    ASSUME TypeInv, NEW o \in Operators, Paid(o), UNCHANGED <<created, edits, unstamped>>,
           Held(o)' => Held(o) \/ Edited(o), ~Edited(o)'
    PROVE  Paid(o)'
BY Counters DEF Paid, Owed, Unit

\* With hash and token recorded, the object in hand asks for nothing.
LEMMA Stamped ==
    ASSUME TypeInv, NEW o \in Operators, Recorded(o), cr # None, ~Edited(o), Stamping(o),
           Writing(o) => patch[o].phase # "Running"
    PROVE  ~AsksForRun(cr)
<1>1. pc[o] # "idle"
  BY DEF Stamping, PatchCalls
<1>2. cr.uid = snap[o].uid /\ cr.spec.work = snap[o].spec.work /\ cr.retry = snap[o].retry
  BY <1>1 DEF Edited
<1>3. Kept(o) /\ snap[o].spec.work \in Works
  BY <1>1, <1>2 DEF Same, Recorded
<1>4. cr.spec.work # Invalid
  BY <1>2, <1>3, OperatorAssumption DEF OperatorAssumption
<1> QED BY <1>2, <1>3, <1>4 DEF Kept, AsksForRun, specHash

\* A reconciliation that ends with everything recorded, over an unchanged
\* object, held the credit for whatever the object still wants.
LEMMA StillWanted ==
    ASSUME TypeInv, NEW o \in Operators, Recorded(o), pc[o] # "idle", cr # None,
           ~Edited(o), ~Unrecorded(o), Wants(cr)
    PROVE  Held(o)
<1>1. cr.uid = snap[o].uid /\ cr.spec.work = snap[o].spec.work /\ cr.retry = snap[o].retry
  BY DEF Edited
<1>2. Kept(o)
  BY <1>1 DEF Same, Recorded
<1>3. pc[o] \in {"getJob", "observe"} => (AsksForRun(cr) <=> AsksForRun(snap[o]))
  BY <1>1, <1>2 DEF Kept, AsksForRun, specHash
<1>4. CASE pc[o] = "getJob"
  <2>1. cr.phase = snap[o].phase
    BY <1>2, <1>4 DEF Kept
  <2> QED BY <1>3, <1>4, <2>1 DEF Wants, Held, Stamping, PatchCalls
<1>5. CASE pc[o] = "observe"
  <2>1. ~AsksForRun(snap[o])
    BY <1>5 DEF Recorded
  <2> QED BY <1>3, <1>5, <2>1 DEF Wants, Held
<1>6. CASE Stamping(o)
  <2>1. ~AsksForRun(cr)
    BY <1>6, Stamped DEF Unrecorded, Writing
  <2>2. NoJob
    BY <2>1 DEF Wants
  <2> QED BY <1>6, <2>2 DEF Held, Stamping, PatchCalls
<1>7. CASE ~Stamping(o) /\ pc[o] \notin {"getJob", "observe"}
  BY <1>7 DEF Held, Unrecorded
<1> QED BY <1>4, <1>5, <1>6, <1>7

-----------------------------------------------------------------------------
(* The ways a reconciliation moves.                                        *)

\* What patchStatus is entered with (StartPatch).
LEMMA Enters ==
    ASSUME TypeInv, NEW o \in Operators, NEW h \in Works \cup {None}, NEW ph \in Phases,
           NEW r \in JobIds \cup {0}, NEW n \in {"idle", "upsertConfigMap"},
           StartPatch(o, h, ph, r, n)
    PROVE  /\ pc'[o] = (IF h = None THEN "getStatus" ELSE "getAnnotation")
           /\ patch'[o].hash = h /\ patch'[o].phase = ph /\ patch'[o].next = n
BY DEF TypeInv, TypeOK, StartPatch, Goto

\* An ending reconciliation leaves an idle replica.
LEMMA Unwound ==
    ASSUME TypeInv, NEW o \in Operators, Return(o)
    PROVE  pc'[o] = "idle" /\ ~Edited(o)' /\ ~Same(o)' /\ ~Stamping(o)'
<1>1. pc'[o] = "idle"
  BY ReturnType DEF TypeInv
<1> QED BY <1>1 DEF Edited, Same, Stamping, PatchCalls

\* However a reconciliation ends, what it leaves unrecorded is paid for.
LEMMA Ends ==
    ASSUME NEW o \in Operators, Good(o), pc[o] # "idle", Return(o),
           UNCHANGED <<cr, incarnation, job, deleting, created, edits>>,
           unstamped' = IF Unrecorded(o) THEN unstamped + 1 ELSE unstamped
    PROVE  Recorded(o)' /\ Paid(o)'
<1>1. pc'[o] = "idle" /\ ~Edited(o)' /\ ~Same(o)' /\ ~Stamping(o)'
  BY Unwound DEF Good
<1>2. Recorded(o)'
  BY <1>1 DEF Good, Recorded, PatchCalls
<1>3. CASE Unrecorded(o)
  BY <1>1, <1>2, <1>3, Counters DEF Good, Paid, Owed, Unit
<1>4. CASE ~Unrecorded(o)
  <2>1. Held(o)' => cr # None /\ Wants(cr)
    BY <1>1 DEF Held, Wants, NoJob
  <2>2. Held(o)' => Held(o) \/ Edited(o)
    BY <2>1, <1>4, StillWanted DEF Good
  <2> QED BY <1>1, <1>2, <1>4, <2>2, HandedBack DEF Good
<1> QED BY <1>3, <1>4

\* Refused updates, missing objects, failed calls and restarts.
LEMMA ErrorStep ==
    ASSUME NEW o \in Operators, Good(o),
           Conflict(o) \/ Abort(o) \/ (GetObject(o) /\ cr = None)
    PROVE  Recorded(o)' /\ Paid(o)'
<1>1. /\ pc[o] # "idle" /\ ReturnError(o)
      /\ UNCHANGED <<cr, incarnation, job, deleting, created, edits>>
  BY DEF Conflict, Abort, GetObject, objectVars, jobVars
<1> QED BY <1>1, Ends DEF ReturnError

\* The snapshot is the object itself (List).
LEMMA ListStep == ASSUME NEW o \in Operators, Good(o), List(o) PROVE Recorded(o)' /\ Paid(o)'
<1>1. /\ pc[o] = "idle" /\ cr # None
      /\ UNCHANGED <<cr, incarnation, job, deleting, created, edits, unstamped>>
  BY DEF List, objectVars, jobVars, budgetVars
<1>2. snap'[o] = cr
  BY DEF Good, TypeInv, TypeOK, List
<1>3. ~Edited(o)'
  BY <1>1, <1>2 DEF Edited
<1>4. CASE cr.spec.work = Invalid
  <2>1. pc'[o] = "getStatus" /\ patch'[o].hash = None
    <3>1. StartPatch(o, None, "Failed", 0, "idle")
      BY <1>4 DEF List
    <3> QED BY <3>1, Enters DEF Good
  <2>2. ~Stamping(o)'
    BY <2>1 DEF Stamping
  <2>3. Recorded(o)'
    BY <1>1, <1>2, <2>1, <2>2 DEF Good, Recorded, Kept
  <2>4. Held(o)
    BY <1>1, <1>4 DEF Held, Wants, AsksForRun, Stamping, PatchCalls
  <2> QED BY <1>1, <1>3, <2>3, <2>4, NothingGained DEF Good
<1>5. CASE cr.spec.work # Invalid
  <2>1. pc'[o] = "getJob" /\ patch' = patch
    BY <1>5 DEF Good, TypeInv, TypeOK, List, Goto
  <2>2. ~Stamping(o)'
    BY <2>1 DEF Stamping, PatchCalls
  <2>3. Recorded(o)'
    BY <1>1, <1>2, <2>1, <2>2 DEF Good, Recorded, Kept, PatchCalls
  <2>4. Held(o)' => Held(o)
    BY <1>1, <1>2, <2>1 DEF Held, Wants, NoJob, Stamping, PatchCalls
  <2> QED BY <1>1, <1>3, <2>3, <2>4, NothingGained DEF Good
<1> QED BY <1>4, <1>5

\* A Job is torn down or created only for a snapshot that wants one, and only
\* one that asks for nothing is observed (decideReconcile).
LEMMA GetJobStep == ASSUME NEW o \in Operators, Good(o), GetJob(o) PROVE Recorded(o)' /\ Paid(o)'
<1> DEFINE b == snap[o]
           action == decideReconcile(b.phase, b.hash, specHash(b.spec), job # 0,
                                     retryRequested(b))
<1>1. /\ pc[o] = "getJob" /\ b.spec.work \in Works
      /\ UNCHANGED <<cr, incarnation, job, deleting, created, edits, unstamped>>
  BY DEF Good, TypeInv, LocalsSet, PatchCalls, GetJob, objectVars, jobVars, budgetVars
<1>2. AsksForRun(b) <=> specChanged(b.hash, specHash(b.spec)) \/ retryRequested(b)
  BY <1>1, OperatorAssumption DEF AsksForRun, retryRequested, OperatorAssumption
<1>3. /\ action = "teardown" => AsksForRun(b)
      /\ action = "ensure"   => job = 0 /\ (AsksForRun(b) \/ b.phase # "Completed")
      /\ action = "observe"  => ~AsksForRun(b) /\ b.phase # "Completed"
  <2> HIDE DEF b
  <2> QED BY <1>2 DEF decideReconcile
<1>4. CASE action = "skip" /\ Return(o)
  BY <1>1, <1>4, Ends DEF Unrecorded
<1>5. CASE /\ action # "skip" /\ snap' = snap
           /\ \/ action \in {"teardown", "ensure"} /\ pc'[o] \in {"removeFile", "upsertConfigMap"}
              \/ action = "observe" /\ pc'[o] = "observe"
  <2>1. ~Stamping(o)' /\ pc'[o] \notin PatchCalls
    BY <1>5 DEF Stamping, PatchCalls
  <2>2. Same(o)' => Same(o)
    BY <1>1, <1>5 DEF Same
  <2>3. Recorded(o)'
    BY <1>1, <1>3, <1>5, <2>1, <2>2 DEF Good, Recorded, Kept, AsksForRun, Writing
  <2>4. Held(o)' => Held(o)
    BY <1>1, <1>3, <1>5 DEF Held, Wants, NoJob, Stamping, PatchCalls
  <2>5. Edited(o)' => Edited(o)
    BY <1>1, <1>5 DEF Edited
  <2> QED BY <1>1, <2>3, <2>4, <2>5, NothingGained DEF Good
<1> QED BY <1>4, <1>5 DEF GetJob, Good, TypeInv, TypeOK, Goto, localVars

\* teardownRun and upsertConfigMap: the credit stays in hand until the Job is
\* created (RemoveStatusFile, DeleteJob, UpsertConfigMap).
LEMMA TeardownStep ==
    ASSUME NEW o \in Operators, Good(o),
           RemoveStatusFile(o) \/ DeleteJob(o) \/ UpsertConfigMap(o)
    PROVE  Recorded(o)' /\ Paid(o)'
<1>1. /\ pc[o] \in {"removeFile", "deleteJob", "upsertConfigMap"}
      /\ UNCHANGED <<cr, incarnation, created, snap, edits, unstamped>>
  BY DEF RemoveStatusFile, DeleteJob, UpsertConfigMap, objectVars, jobVars, budgetVars, localVars
<1>2. pc'[o] \in {"deleteJob", "createJob", "getStatus"} /\ (deleting' => job' # 0) /\ ~Stamping(o)'
  <2>1. CASE DeleteJob(o)
    <3>1. StartPatch(o, None, "Pending", 0, "upsertConfigMap")
      BY <2>1 DEF DeleteJob
    <3>2. pc'[o] = "getStatus" /\ patch'[o].hash = None
      BY <3>1, Enters DEF Good
    <3> QED BY <2>1, <3>2 DEF DeleteJob, Stamping
  <2>2. CASE RemoveStatusFile(o) \/ UpsertConfigMap(o)
    BY <2>2 DEF Good, TypeInv, TypeOK, Recorded, RemoveStatusFile, UpsertConfigMap, Goto,
                Stamping, PatchCalls, jobVars
  <2> QED BY <1>1, <2>1, <2>2
<1>3. pc'[o] = "getStatus" => patch'[o].hash = None
  BY <1>2 DEF Stamping, PatchCalls
<1>4. Recorded(o)'
  BY <1>1, <1>2, <1>3 DEF Good, Recorded, Kept, PatchCalls
<1>5. Held(o)
  BY <1>1 DEF Held, Stamping, PatchCalls
<1>6. Edited(o)' => Edited(o)
  BY <1>1 DEF Edited
<1> QED BY <1>1, <1>4, <1>5, <1>6, NothingGained DEF Good

\* The Job spends the credit.  While the old Job lingers nothing is spent.
LEMMA CreateJobStep == ASSUME NEW o \in Operators, Good(o), CreateJob(o) PROVE Recorded(o)' /\ Paid(o)'
<1>1. /\ pc[o] = "createJob"
      /\ UNCHANGED <<cr, incarnation, deleting, snap, edits, unstamped>>
      /\ snap[o].spec.work \in Works /\ snap[o] \in Benchmark
  BY DEF Good, TypeInv, LocalsSet, PatchCalls, CreateJob, objectVars, budgetVars
<1>2. Held(o)
  BY <1>1 DEF Held, Stamping, PatchCalls
<1>3. CASE job # 0
  <2>1. StartPatch(o, None, "Pending", 0, "idle") /\ UNCHANGED <<job, created>>
    BY <1>3 DEF CreateJob
  <2>2. pc'[o] = "getStatus" /\ patch'[o].hash = None
    BY <2>1, Enters DEF Good
  <2>3. Recorded(o)'
    BY <1>1, <2>1, <2>2 DEF Good, Recorded, Kept, Stamping
  <2>4. Edited(o)' => Edited(o)
    BY <1>1 DEF Edited
  <2> QED BY <1>1, <1>2, <2>1, <2>3, <2>4, NothingGained DEF Good
<1>4. CASE job = 0
  <2>1. created' = created + 1 /\ job' = created' /\ ~deleting /\ ~NoJob'
    <3>1. created' = created + 1 /\ job' = created' /\ ~deleting
      BY <1>4 DEF Good, Recorded, CreateJob
    <3> QED BY <1>1, <3>1, Counters DEF Good, NoJob
  <2>2. \/ pc'[o] = "getRetry"
        \/ /\ snap[o].retry = None /\ pc'[o] = "getAnnotation"
           /\ patch'[o].hash = snap[o].spec.work
           /\ patch'[o].phase = "Running" /\ patch'[o].next = "idle"
    <3>1. CASE snap[o].retry # None
      BY <1>4, <3>1 DEF Good, TypeInv, TypeOK, CreateJob, Goto
    <3>2. CASE snap[o].retry = None
      <4>1. StartPatch(o, snap[o].spec.work, "Running", 0, "idle")
        BY <1>4, <3>2 DEF CreateJob, specHash
      <4> QED BY <1>1, <3>2, <4>1, Enters, Constants DEF Good
    <3> QED BY <3>1, <3>2
  <2>3. Recorded(o)'
    BY <1>1, <2>1, <2>2 DEF Good, Recorded, Kept, Stamping, Writing, PatchCalls
  <2>4. ~Held(o)'
    BY <1>1, <2>1, <2>2, Constants DEF Held, Stamping, PatchCalls
  <2>5. Edited(o)' => Edited(o)
    BY <1>1 DEF Edited
  <2>6. Paid(o)'
    BY <1>1, <1>2, <2>1, <2>4, <2>5, Counters DEF Good, Paid, Owed, Unit
  <2> QED BY <2>3, <2>6
<1> QED BY <1>3, <1>4

\* A Get before a write changes nothing the account is about.
LEMMA GetObjectStep ==
    ASSUME NEW o \in Operators, Good(o), GetObject(o), cr # None
    PROVE  Recorded(o)' /\ Paid(o)'
<1>1. UNCHANGED <<cr, incarnation, job, deleting, created, snap, patch, edits, unstamped>>
  BY DEF GetObject, objectVars, jobVars, localVars, budgetVars
<1>2. \/ pc[o] = "getRetry" /\ pc'[o] = "updateRetry"
      \/ pc[o] = "getAnnotation" /\ pc'[o] = "updateAnnotation"
      \/ pc[o] = "getStatus" /\ pc'[o] = "updateStatus"
  <2>1. pc' = [pc EXCEPT ![o] = CASE pc[o] = "getRetry"      -> "updateRetry"
                                  [] pc[o] = "getAnnotation" -> "updateAnnotation"
                                  [] pc[o] = "getStatus"     -> "updateStatus"]
    BY DEF GetObject, Goto
  <2> QED BY <2>1 DEF Good, TypeInv, TypeOK, GetObject
<1>3. Stamping(o)' <=> Stamping(o)
  BY <1>1, <1>2 DEF Stamping, PatchCalls
<1>4. Writing(o)' <=> Writing(o)
  BY <1>2 DEF Writing
<1>5. Same(o)' => Same(o)
  BY <1>1, <1>2 DEF Same
<1>6. Kept(o) => Kept(o)'
  BY <1>1, <1>2, <1>3, <1>4 DEF Kept
<1>7. Recorded(o)'
  BY <1>1, <1>2, <1>3, <1>5, <1>6 DEF Good, Recorded, PatchCalls
<1>8. Held(o)' => Held(o)
  BY <1>1, <1>2, <1>3 DEF Held, NoJob
<1>9. Edited(o)' => Edited(o)
  BY <1>1, <1>2 DEF Edited
<1> QED BY <1>1, <1>7, <1>8, <1>9, NothingGained DEF Good

\* The three writes of the object leave what the user wrote.
LEMMA WritesKeepRequest ==
    ASSUME NEW o \in Operators, Good(o),
           MarkRetryApplied(o) \/ PatchAnnotation(o) \/ PatchStatus(o)
    PROVE  /\ cr # None /\ cr'.uid = cr.uid /\ cr'.spec = cr.spec
           /\ cr'.retry = cr.retry
           /\ MarkRetryApplied(o) => /\ cr'.applied = snap[o].retry /\ cr'.hash = cr.hash
                                     /\ cr'.phase = cr.phase
           /\ PatchAnnotation(o)  => /\ cr'.hash = patch[o].hash /\ cr'.applied = cr.applied
                                     /\ cr'.phase = cr.phase
           /\ PatchStatus(o)      => /\ cr'.phase = patch[o].phase /\ cr'.hash = cr.hash
                                     /\ cr'.applied = cr.applied
           /\ UNCHANGED <<incarnation, job, deleting, created, edits, unstamped>>
<1>1. cr # None /\ cr \in Benchmark
  BY ObjectType DEF Good, TypeInv, LocalsSet, MarkRetryApplied, PatchAnnotation, PatchStatus
<1>2. UNCHANGED <<incarnation, job, deleting, created, edits, unstamped>>
  BY DEF MarkRetryApplied, PatchAnnotation, PatchStatus, jobVars, budgetVars
<1>3. \A b : WriteObject(o, b) => cr' = b
  BY DEF WriteObject
<1>4. CASE MarkRetryApplied(o)
  <2>1. cr' = [cr EXCEPT !.applied = snap[o].retry]
    BY <1>3, <1>4 DEF MarkRetryApplied
  <2> QED BY <1>1, <1>2, <1>4, <2>1 DEF Benchmark, MarkRetryApplied, PatchAnnotation, PatchStatus
<1>5. CASE PatchAnnotation(o)
  <2>1. cr' = [cr EXCEPT !.hash = patch[o].hash]
    BY <1>3, <1>5 DEF PatchAnnotation
  <2> QED BY <1>1, <1>2, <1>5, <2>1 DEF Benchmark, MarkRetryApplied, PatchAnnotation, PatchStatus
<1>6. CASE PatchStatus(o)
  <2>1. cr' = [cr EXCEPT !.phase = patch[o].phase, !.runId = patch[o].runId]
    BY <1>3, <1>6 DEF PatchStatus
  <2> QED BY <1>1, <1>2, <1>6, <2>1 DEF Benchmark, MarkRetryApplied, PatchAnnotation, PatchStatus
<1> QED BY <1>4, <1>5, <1>6

\* The token is recorded before the hash (markRetryApplied).
LEMMA MarkStep ==
    ASSUME NEW o \in Operators, Good(o), MarkRetryApplied(o)
    PROVE  Recorded(o)' /\ Paid(o)'
<1>1. /\ cr # None /\ cr'.uid = cr.uid /\ cr'.spec = cr.spec /\ cr'.retry = cr.retry
      /\ cr'.applied = snap[o].retry
      /\ UNCHANGED <<incarnation, job, deleting, created, edits, unstamped>>
  BY WritesKeepRequest
<1>2. pc[o] = "updateRetry" /\ snap' = snap /\ snap[o].spec.work \in Works
  BY DEF Good, TypeInv, LocalsSet, MarkRetryApplied, PatchCalls
<1>3. /\ pc'[o] = "getAnnotation" /\ patch'[o].hash = snap[o].spec.work
      /\ patch'[o].phase = "Running" /\ patch'[o].next = "idle"
  <2>1. StartPatch(o, snap[o].spec.work, "Running", 0, "idle")
    BY DEF MarkRetryApplied, specHash
  <2> QED BY <1>2, <2>1, Enters, Constants DEF Good
<1>4. Kept(o)'
  BY <1>1, <1>2, <1>3 DEF Kept, Stamping, Writing
<1>5. Recorded(o)'
  BY <1>1, <1>2, <1>3, <1>4 DEF Good, Recorded, PatchCalls, Stamping
<1>6. Held(o)' => Held(o)
  BY <1>1, <1>2, <1>3, Constants DEF Held, NoJob, Stamping, PatchCalls
<1>7. Edited(o)' => Edited(o)
  BY <1>1, <1>2 DEF Edited
<1> QED BY <1>1, <1>5, <1>6, <1>7, NothingGained DEF Good

\* The hash of the snapshot is recorded (patchStatus, first write).
LEMMA AnnotationStep ==
    ASSUME NEW o \in Operators, Good(o), PatchAnnotation(o)
    PROVE  Recorded(o)' /\ Paid(o)'
<1>1. /\ cr # None /\ cr'.uid = cr.uid /\ cr'.spec = cr.spec /\ cr'.retry = cr.retry
      /\ cr'.applied = cr.applied /\ cr'.hash = patch[o].hash
      /\ UNCHANGED <<incarnation, job, deleting, created, edits, unstamped>>
  BY WritesKeepRequest
<1>2. pc[o] = "updateAnnotation" /\ snap' = snap /\ patch' = patch /\ pc'[o] = "getStatus"
  BY DEF Good, TypeInv, TypeOK, PatchAnnotation, Goto, localVars
<1>3. Stamping(o)' <=> Stamping(o)
  BY <1>2 DEF Stamping, PatchCalls
<1>4. Same(o)' => Same(o)
  BY <1>1, <1>2 DEF Same
<1>5. Same(o)' => Kept(o)'
  BY <1>1, <1>2, <1>3, <1>4 DEF Good, Recorded, Kept, Stamping, specChanged
<1>6. Recorded(o)'
  BY <1>1, <1>2, <1>3, <1>5 DEF Good, Recorded, PatchCalls
<1>7. Held(o)' => Held(o)
  BY <1>1, <1>2, <1>3 DEF Held, NoJob
<1>8. Edited(o)' => Edited(o)
  BY <1>1, <1>2 DEF Edited
<1> QED BY <1>1, <1>6, <1>7, <1>8, NothingGained DEF Good

\* The status is written and the reconciliation returns, or goes on to create
\* the Job of a teardown (patchStatus, second write).
LEMMA StatusStep ==
    ASSUME NEW o \in Operators, Good(o), PatchStatus(o)
    PROVE  Recorded(o)' /\ Paid(o)'
<1>1. /\ cr # None /\ cr'.uid = cr.uid /\ cr'.spec = cr.spec /\ cr'.retry = cr.retry
      /\ cr'.applied = cr.applied /\ cr'.hash = cr.hash
      /\ UNCHANGED <<incarnation, job, deleting, created, edits, unstamped>>
  BY WritesKeepRequest
<1>2. pc[o] = "updateStatus" /\ patch[o].next \in {"idle", "upsertConfigMap"}
  BY DEF Good, TypeInv, TypeOK, PatchStatus, Patch
<1>3. CASE patch[o].next = "idle"
  <2>1. pc'[o] = "idle" /\ ~Edited(o)' /\ ~Same(o)' /\ ~Stamping(o)'
    BY <1>3, Unwound DEF Good, PatchStatus
  <2>2. Recorded(o)'
    BY <1>1, <2>1 DEF Good, Recorded, PatchCalls
  <2>3. AsksForRun(cr') <=> AsksForRun(cr)
    BY <1>1 DEF AsksForRun
  <2>4. ASSUME Held(o)', ~Edited(o) PROVE Held(o)
    <3>1. AsksForRun(cr') \/ NoJob
      BY <1>1, <2>1, <2>4 DEF Held, Wants, NoJob
    <3>2. CASE Stamping(o)
      <4>1. ~AsksForRun(cr)
        BY <1>1, <1>2, <2>4, <3>2, Stamped DEF Good, Writing
      <4> QED BY <1>2, <2>3, <3>1, <4>1 DEF Held
    <3>3. CASE ~Stamping(o)
      BY <1>2, <3>3 DEF Held
    <3> QED BY <3>2, <3>3
  <2> QED BY <1>1, <2>1, <2>2, <2>4, HandedBack DEF Good
<1>4. CASE patch[o].next = "upsertConfigMap"
  <2>1. pc'[o] = "upsertConfigMap" /\ snap' = snap
    BY <1>4 DEF Good, TypeInv, TypeOK, PatchStatus, Goto, localVars
  <2>2. ~Stamping(o) /\ ~Stamping(o)'
    BY <1>2, <1>4, <2>1 DEF Good, Recorded, Stamping, PatchCalls
  <2>3. Recorded(o)'
    BY <1>1, <1>2, <2>1, <2>2 DEF Good, Recorded, Kept, PatchCalls
  <2>4. Held(o)
    BY <1>2, <2>2 DEF Held
  <2>5. Edited(o)' => Edited(o)
    BY <1>1, <1>2, <2>1 DEF Edited
  <2> QED BY <1>1, <2>3, <2>4, <2>5, NothingGained DEF Good
<1> QED BY <1>2, <1>3, <1>4

\* What is observed is recorded with the hash of a snapshot that asked for
\* nothing (observeJob).
LEMMA ObserveStep ==
    ASSUME NEW o \in Operators, Good(o), Observe(o)
    PROVE  Recorded(o)' /\ Paid(o)'
<1>1. /\ pc[o] = "observe" /\ snap[o].spec.work \in Works
      /\ UNCHANGED <<cr, incarnation, job, deleting, created, edits, unstamped>>
  BY DEF Good, TypeInv, LocalsSet, PatchCalls, Observe, objectVars, jobVars
<1>2. CASE Return(o)
  BY <1>1, <1>2, Ends DEF Unrecorded
<1>3. ASSUME NEW ph \in Phases, NEW r \in JobIds \cup {0}, snap' = snap,
             StartPatch(o, snap[o].spec.work, ph, r, "idle")
      PROVE  Recorded(o)' /\ Paid(o)'
  <2>1. /\ pc'[o] = "getAnnotation" /\ patch'[o].hash = snap[o].spec.work
        /\ patch'[o].next = "idle"
    BY <1>1, <1>3, Enters, Constants DEF Good
  <2>2. Same(o)' => Same(o)
    BY <1>1, <1>3 DEF Same
  <2>3. ~AsksForRun(snap[o])
    BY <1>1 DEF Good, Recorded
  <2>4. Same(o)' => Kept(o)'
    BY <1>1, <1>3, <2>1, <2>2, <2>3 DEF Good, Recorded, Kept, AsksForRun, specHash, Stamping
  <2>5. Recorded(o)'
    BY <1>1, <1>3, <2>1, <2>4 DEF Good, Recorded, Stamping
  <2>6. Held(o)' => Held(o)
    BY <1>1, <2>1, Constants DEF Held, NoJob, Stamping, PatchCalls
  <2>7. Edited(o)' => Edited(o)
    BY <1>1, <1>3 DEF Edited
  <2> QED BY <1>1, <2>5, <2>6, <2>7, NothingGained DEF Good
<1>4. ResultOf(statusFile) \in JobIds \cup {0}
  BY DEF ResultOf
<1> QED BY <1>2, <1>3, <1>4 DEF Observe, specHash

-----------------------------------------------------------------------------
(* The pods, the garbage collector and the user.                           *)

\* A Job that is collected was no Job before (JobGone), and pods own nothing.
LEMMA ClusterStep ==
    ASSUME NEW o \in Operators, Good(o),
           JobGone \/ (\E i \in JobIds : PodStep(i)) \/ UNCHANGED vars
    PROVE  Recorded(o)' /\ Paid(o)'
<1>1. /\ UNCHANGED <<cr, incarnation, created, pc, snap, patch, edits, unstamped>>
      /\ \/ UNCHANGED <<job, deleting>>
         \/ deleting /\ job' = 0 /\ deleting' = FALSE
  BY DEF JobGone, PodStep, vars, objectVars, jobVars, localVars, budgetVars
<1>2. NoJob' <=> NoJob
  BY <1>1 DEF NoJob
<1>3. /\ Stamping(o)' <=> Stamping(o)
      /\ Writing(o)' <=> Writing(o)
      /\ Same(o)' <=> Same(o)
  BY <1>1 DEF Stamping, Writing, Same
<1>4. Kept(o)' <=> Kept(o)
  BY <1>1, <1>3 DEF Kept
<1>5. Recorded(o)'
  BY <1>1, <1>3, <1>4 DEF Good, Recorded
<1>6. Held(o)' => Held(o)
  BY <1>1, <1>2, <1>3 DEF Held, Wants
<1>7. Edited(o)' => Edited(o)
  BY <1>1 DEF Edited
<1> QED BY <1>1, <1>5, <1>6, <1>7, NothingGained DEF Good

\* What the user may have done to the object: a new one has a uid no snapshot
\* carries, an edit leaves the operator's annotations and the phase alone.
LEMMA UserWrites ==
    ASSUME TypeInv, UserStep
    PROVE  /\ UNCHANGED <<job, deleting, created, pc, snap, patch, unstamped>>
           /\ edits' = edits + 1
           /\ incarnation \in Nat /\ incarnation' \in Nat /\ incarnation <= incarnation'
           /\ \/ cr' = None
              \/ /\ incarnation' = incarnation + 1 /\ cr'.uid = incarnation'
                 /\ cr'.phase = None
              \/ /\ cr # None /\ cr'.uid = cr.uid /\ cr'.hash = cr.hash
                 /\ cr'.applied = cr.applied /\ cr'.phase = cr.phase
<1>1. incarnation \in Nat
  BY DEF TypeInv, TypeOK
<1>2. ASSUME NEW b, UserWrite(b)
      PROVE  /\ UNCHANGED <<job, deleting, created, pc, snap, patch, unstamped>>
             /\ edits' = edits + 1 /\ cr' = b
  BY <1>2 DEF UserWrite, WriteObject, jobVars, localVars
<1>3. ASSUME NEW s \in Spec, CreateBenchmark(s)
      PROVE  /\ incarnation' = incarnation + 1 /\ \E b : UserWrite(b)
             /\ cr'.uid = incarnation' /\ cr'.phase = None
  <2>1. UserWrite([uid |-> incarnation', spec |-> s, retry |-> None, applied |-> None,
                   hash |-> None, phase |-> None, runId |-> 0])
    BY <1>3 DEF CreateBenchmark
  <2> QED BY <1>2, <1>3, <2>1 DEF CreateBenchmark
<1>4. ASSUME NEW s \in Spec, EditSpec(s)
      PROVE  /\ incarnation' = incarnation /\ cr # None /\ \E b : UserWrite(b)
             /\ cr'.uid = cr.uid /\ cr'.hash = cr.hash
             /\ cr'.applied = cr.applied /\ cr'.phase = cr.phase
  <2>1. UserWrite([cr EXCEPT !.spec = s]) /\ cr # None /\ incarnation' = incarnation
    BY <1>4 DEF EditSpec
  <2> QED BY <1>2, <2>1, ObjectType DEF TypeInv, Benchmark
<1>5. ASSUME NEW t \in Tokens \cup {None}, AnnotateRetry(t)
      PROVE  /\ incarnation' = incarnation /\ cr # None /\ \E b : UserWrite(b)
             /\ cr'.uid = cr.uid /\ cr'.hash = cr.hash
             /\ cr'.applied = cr.applied /\ cr'.phase = cr.phase
  <2>1. UserWrite([cr EXCEPT !.retry = t]) /\ cr # None /\ incarnation' = incarnation
    BY <1>5 DEF AnnotateRetry
  <2> QED BY <1>2, <2>1, ObjectType DEF TypeInv, Benchmark
<1>6. CASE DeleteBenchmark
  <2>1. UserWrite(None) /\ incarnation' = incarnation
    BY <1>6 DEF DeleteBenchmark
  <2> QED BY <1>1, <1>2, <2>1
<1> QED BY <1>1, <1>2, <1>3, <1>4, <1>5, <1>6 DEF UserStep

\* A user's write pays for what it asks of an idle replica, or for the
\* snapshot it outdates.
LEMMA UserPays ==
    ASSUME NEW o \in Operators, Good(o), UserStep PROVE Recorded(o)' /\ Paid(o)'
<1>1. /\ UNCHANGED <<job, deleting, created, pc, snap, patch, unstamped>>
      /\ edits' = edits + 1
      /\ incarnation \in Nat /\ incarnation' \in Nat /\ incarnation <= incarnation'
      /\ \/ cr' = None
         \/ incarnation' = incarnation + 1 /\ cr'.uid = incarnation'
         \/ /\ cr # None /\ cr'.uid = cr.uid /\ cr'.hash = cr.hash
            /\ cr'.applied = cr.applied /\ cr'.phase = cr.phase
  BY UserWrites DEF Good
<1>2. (Stamping(o)' <=> Stamping(o)) /\ (Writing(o)' <=> Writing(o))
  BY <1>1 DEF Stamping, Writing
<1>3. pc[o] # "idle" => snap[o].uid \in Nat
  BY DEF Good, TypeInv, LocalsSet, Benchmark
<1>4. cr # None => cr.uid \in Nat
  BY ObjectType DEF Good, TypeInv
<1>5. Same(o)' => Kept(o)'
  <2>1. ASSUME Same(o)' PROVE Same(o) /\ cr'.hash = cr.hash /\ cr'.applied = cr.applied
                              /\ cr'.phase = cr.phase
    <3>1. cr' # None /\ pc[o] # "idle" /\ cr'.uid = snap[o].uid
      BY <1>1, <2>1 DEF Same
    <3>2. snap[o].uid <= incarnation
      BY <3>1 DEF Good, Recorded
    <3> QED BY <1>1, <1>3, <3>1, <3>2 DEF Same
  <2> QED BY <1>1, <1>2, <2>1 DEF Good, Recorded, Kept
<1>6. Recorded(o)'
  BY <1>1, <1>2, <1>3, <1>4, <1>5 DEF Good, Recorded
<1>7. CASE pc[o] = "idle"
  BY <1>1, <1>6, <1>7, Counters DEF Good, Paid, Owed, Unit, Edited, Held
<1>8. CASE pc[o] # "idle"
  <2>1. Held(o)' => Held(o)
    BY <1>1, <1>2, <1>8 DEF Held, Wants, NoJob
  <2> QED BY <1>1, <1>6, <2>1, Counters DEF Good, Paid, Owed, Unit
<1> QED BY <1>7, <1>8

-----------------------------------------------------------------------------
(* The account holds when no other replica writes.                         *)

OneInv == \A o \in Operators : Recorded(o) /\ Paid(o)

\* An idle replica and no object: nothing is owed.
LEMMA InitAccount == Init => OneInv
<1> SUFFICES ASSUME Init, NEW o \in Operators PROVE Recorded(o) /\ Paid(o)
  BY DEF OneInv
<1>1. Recorded(o)
  BY DEF Init, Recorded, Stamping, PatchCalls, Same
<1>2. ~Held(o) /\ ~Edited(o)
  BY DEF Init, Held, Edited
<1> QED BY <1>1, <1>2 DEF Init, Paid, Owed, Unit

\* Every step keeps the account.
LEMMA NextAccount ==
    ASSUME NEW o, Operators = {o}, TypeInv, OneInv, [Next]_vars
    PROVE  OneInv'
<1>1. o \in Operators /\ Good(o)
  BY DEF OneInv, Good
<1>2. CASE OperatorStep(o) \/ Abort(o)
  <2>1. CASE GetObject(o)
    BY <1>1, <2>1, ErrorStep, GetObjectStep DEF OneInv
  <2> QED BY <1>1, <1>2, <2>1, ErrorStep, ListStep, GetJobStep, TeardownStep, CreateJobStep,
             MarkStep, AnnotationStep, StatusStep, ObserveStep DEF OneInv, OperatorStep
<1>3. CASE JobGone \/ (\E i \in JobIds : PodStep(i)) \/ UNCHANGED vars
  BY <1>1, <1>3, ClusterStep DEF OneInv
<1>4. CASE UserStep
  BY <1>1, <1>4, UserPays DEF OneInv
<1> QED BY <1>2, <1>3, <1>4 DEF Next

\* The credit held by the replica is the difference the account leaves.
LEMMA AccountBounds ==
    ASSUME NEW o, Operators = {o}, TypeInv, OneInv PROVE JobsAccountedFor
<1>1. Owed(o) \in Nat
  BY DEF Owed, Unit
<1>2. created + Owed(o) <= edits + unstamped
  BY DEF OneInv, Paid
<1> QED BY <1>1, <1>2, Counters DEF JobsAccountedFor

\* The resync loop alone never starts a benchmark twice: with one replica each
\* Job is owed to a write of the user, or to an earlier Job whose token or hash
\* a failure left unrecorded (decideReconcile, ensureJob, observeJob).
THEOREM JobsAreOwed ==
    ASSUME NEW CONSTANT o, Operators = {o}
    PROVE  SafeSpec => []JobsAccountedFor
<1>1. SafeSpec => []TypeInv
  BY InitType, NextType, PTL DEF SafeSpec
<1>2. TypeInv /\ OneInv /\ [Next]_vars => OneInv'
  BY NextAccount
<1>3. TypeInv /\ OneInv => JobsAccountedFor
  BY AccountBounds
<1> QED BY InitAccount, <1>1, <1>2, <1>3, PTL DEF SafeSpec

-----------------------------------------------------------------------------
(* Leaving Completed.  A snapshot of a benchmark that is still Completed was *)
(* itself Completed, for only this replica writes the phase; and past GetJob *)
(* such a snapshot asks for a run.                                           *)

Answered(o) ==
    /\ pc[o] # "idle" /\ cr # None /\ cr.phase = "Completed" => snap[o].phase = "Completed"
    /\ pc[o] \notin {"idle", "getJob"} /\ snap[o].phase = "Completed" => AsksForRun(snap[o])
    /\ patch[o].phase = "Completed" => patch[o].next = "idle"

\* The snapshot is the object itself.
LEMMA ListAnswered ==
    ASSUME NEW o \in Operators, TypeInv, Answered(o), List(o) PROVE Answered(o)'
<1>1. snap'[o] = cr /\ cr' = cr /\ cr # None
  BY DEF TypeInv, TypeOK, List, objectVars
<1>2. CASE cr.spec.work = Invalid
  <2>1. StartPatch(o, None, "Failed", 0, "idle")
    BY <1>2 DEF List
  <2>2. patch'[o].next = "idle"
    BY <2>1, Enters
  <2> QED BY <1>1, <1>2, <2>2 DEF Answered, AsksForRun
<1>3. CASE cr.spec.work # Invalid
  <2>1. pc'[o] = "getJob" /\ patch' = patch
    BY <1>3 DEF TypeInv, TypeOK, List, Goto
  <2> QED BY <1>1, <2>1 DEF Answered
<1> QED BY <1>2, <1>3

\* GetJob skips a Completed snapshot that asks for nothing.
LEMMA GetJobAnswered ==
    ASSUME NEW o \in Operators, TypeInv, Answered(o), GetJob(o) PROVE Answered(o)'
<1> DEFINE b == snap[o]
           action == decideReconcile(b.phase, b.hash, specHash(b.spec), job # 0,
                                     retryRequested(b))
<1>1. /\ pc[o] = "getJob" /\ cr' = cr
  BY DEF GetJob, objectVars
<1>2. CASE Return(o)
  BY <1>1, <1>2, Unwound, ReturnType DEF TypeInv, Answered
<1>3. CASE action # "skip" /\ UNCHANGED <<snap, patch>>
  <2>1. b.phase = "Completed" => AsksForRun(b)
    BY <1>3 DEF decideReconcile, AsksForRun, retryRequested
  <2> QED BY <1>1, <1>3, <2>1 DEF Answered
<1> QED BY <1>2, <1>3 DEF GetJob, localVars

\* The steps that enter patchStatus with no Completed, or leave it as it is.
LEMMA TeardownAnswered ==
    ASSUME NEW o \in Operators, TypeInv, Answered(o),
           RemoveStatusFile(o) \/ DeleteJob(o) \/ UpsertConfigMap(o) \/ CreateJob(o)
    PROVE  Answered(o)'
<1>1. /\ pc[o] \notin {"idle", "getJob"} /\ UNCHANGED <<cr, snap>>
  BY DEF RemoveStatusFile, DeleteJob, UpsertConfigMap, CreateJob, objectVars, localVars
<1>2. patch'[o] = patch[o] \/ patch'[o].phase # "Completed" \/ patch'[o].next = "idle"
  BY DEF TypeInv, TypeOK, RemoveStatusFile, DeleteJob, UpsertConfigMap, CreateJob, localVars,
         StartPatch
<1> QED BY <1>1, <1>2 DEF Answered

\* An ended reconciliation has nothing to answer for.
LEMMA EndAnswered ==
    ASSUME NEW o \in Operators, TypeInv, Answered(o), Return(o)
    PROVE  Answered(o)'
BY Unwound, ReturnType DEF TypeInv, Answered

\* Reads and refusals.
LEMMA ReadAnswered ==
    ASSUME NEW o \in Operators, TypeInv, Answered(o),
           Conflict(o) \/ Abort(o) \/ GetObject(o) \/ Observe(o)
    PROVE  Answered(o)'
<1>1. pc[o] \notin {"idle", "getJob"} \/ Return(o)
  BY DEF Conflict, Abort, GetObject, Observe, ReturnError
<1>2. cr' = cr
  BY DEF Conflict, Abort, GetObject, Observe, objectVars
<1>3. CASE Return(o)
  BY <1>3, EndAnswered
<1>4. CASE ~Return(o)
  <2>1. snap' = snap /\ (patch'[o] = patch[o] \/ patch'[o].next = "idle")
    BY <1>4 DEF TypeInv, TypeOK, Conflict, Abort, GetObject, Observe, ReturnError, StartPatch,
                localVars
  <2> QED BY <1>1, <1>2, <1>4, <2>1 DEF Answered
<1> QED BY <1>3, <1>4

\* Only a status that ends the reconciliation says Completed.
LEMMA WriteAnswered ==
    ASSUME NEW o \in Operators, Good(o), Answered(o),
           MarkRetryApplied(o) \/ PatchAnnotation(o) \/ PatchStatus(o)
    PROVE  Answered(o)'
<1>1. cr # None
  BY WritesKeepRequest
<1>2. CASE MarkRetryApplied(o) \/ PatchAnnotation(o)
  <2>1. cr'.phase = cr.phase
    BY <1>2, WritesKeepRequest DEF MarkRetryApplied, PatchAnnotation
  <2>2. /\ pc[o] \notin {"idle", "getJob"} /\ snap' = snap
        /\ patch'[o] = patch[o] \/ patch'[o].next = "idle"
    BY <1>2 DEF Good, TypeInv, TypeOK, MarkRetryApplied, PatchAnnotation, StartPatch, localVars
  <2> QED BY <1>1, <2>1, <2>2 DEF Answered
<1>3. CASE PatchStatus(o)
  <2>1. CASE Return(o)
    BY <2>1, EndAnswered DEF Good
  <2>2. CASE ~Return(o)
    <3>1. /\ pc[o] = "updateStatus" /\ patch[o].next # "idle" /\ UNCHANGED <<snap, patch>>
          /\ cr'.phase = patch[o].phase
      BY <1>3, <2>2, WritesKeepRequest DEF PatchStatus, localVars
    <3> QED BY <1>1, <3>1 DEF Answered
  <2> QED BY <2>1, <2>2
<1> QED BY <1>2, <1>3

\* The user does not write the phase; pods and the collector write nothing.
LEMMA OutsideAnswered ==
    ASSUME NEW o \in Operators, Good(o), Answered(o),
           UserStep \/ JobGone \/ (\E i \in JobIds : PodStep(i)) \/ UNCHANGED vars
    PROVE  Answered(o)'
<1>1. CASE UserStep
  <2>1. /\ UNCHANGED <<pc, snap, patch>>
        /\ cr' = None \/ cr'.phase = None \/ (cr # None /\ cr'.phase = cr.phase)
    BY <1>1, UserWrites DEF Good
  <2> QED BY <2>1, Constants DEF Answered
<1>2. CASE JobGone \/ (\E i \in JobIds : PodStep(i)) \/ UNCHANGED vars
  <2>1. UNCHANGED <<cr, pc, snap, patch>>
    BY <1>2 DEF JobGone, PodStep, vars, objectVars, localVars
  <2> QED BY <2>1 DEF Answered
<1> QED BY <1>1, <1>2

\* Every step keeps it, and takes the object out of Completed on request only.
LEMMA NextAnswered ==
    ASSUME NEW o, Operators = {o}, TypeInv, OneInv, Answered(o), [Next]_vars
    PROVE  /\ Answered(o)'
           /\ LeavesCompleted => pc[o] = "updateStatus" /\ AsksForRun(snap[o])
<1>1. o \in Operators /\ Good(o)
  BY DEF OneInv, Good
<1>2. Answered(o)'
  <2>1. CASE OperatorStep(o) \/ Abort(o)
    BY <1>1, <2>1, ListAnswered, GetJobAnswered, TeardownAnswered, ReadAnswered, WriteAnswered
    DEF Good, OperatorStep
  <2> QED BY <1>1, <2>1, OutsideAnswered DEF Next
<1>3. ASSUME LeavesCompleted PROVE pc[o] = "updateStatus" /\ AsksForRun(snap[o])
  <2>1. CASE PatchStatus(o)
    BY <1>3, <2>1 DEF Answered, LeavesCompleted, PatchStatus
  <2>2. CASE MarkRetryApplied(o) \/ PatchAnnotation(o)
    BY <1>1, <1>3, <2>2, WritesKeepRequest DEF LeavesCompleted
  <2>3. CASE UserStep
    <3>1. cr' = None \/ cr'.uid = incarnation + 1 \/ cr'.phase = cr.phase
      BY <1>1, <2>3, UserWrites DEF Good
    <3>2. cr.uid <= incarnation /\ cr.uid \in Nat /\ incarnation \in Nat
      BY <1>1, <1>3, ObjectType DEF Good, TypeInv, TypeOK, Recorded, LeavesCompleted
    <3> QED BY <1>3, <3>1, <3>2 DEF LeavesCompleted
  <2>4. CASE cr' = cr
    BY <1>3, <2>4 DEF LeavesCompleted
  <2>5. \/ PatchStatus(o) \/ MarkRetryApplied(o) \/ PatchAnnotation(o) \/ UserStep \/ cr' = cr
    <3>1. CASE OperatorStep(o) \/ Abort(o)
      BY <3>1 DEF OperatorStep, List, GetJob, RemoveStatusFile, DeleteJob, UpsertConfigMap,
                  CreateJob, GetObject, Conflict, Observe, Abort, objectVars
    <3>2. CASE JobGone \/ (\E i \in JobIds : PodStep(i)) \/ UNCHANGED vars
      BY <3>2 DEF JobGone, PodStep, vars, objectVars
    <3> QED BY <3>1, <3>2 DEF Next
  <2> QED BY <2>1, <2>2, <2>3, <2>4, <2>5
<1> QED BY <1>2, <1>3

\* With one replica a benchmark stays Completed until its object asks the
\* replica for a run (the skip rule of decideReconcile).
THEOREM CompletedStays ==
    ASSUME NEW CONSTANT o, Operators = {o}
    PROVE  SafeSpec => CompletedLeftOnlyOnRequest
<1>1. Init => Answered(o)
  BY NoPatchType DEF Init, Answered
<1>2. TypeInv /\ OneInv /\ Answered(o) /\ [Next]_vars => Answered(o)'
  BY NextAnswered
<1>3. TypeInv /\ OneInv /\ Answered(o) /\ [Next]_vars => [LeavesOnRequest]_vars
  BY NextAnswered DEF LeavesOnRequest
<1>4. SafeSpec => []TypeInv
  BY InitType, NextType, PTL DEF SafeSpec
<1>5. TypeInv /\ OneInv /\ [Next]_vars => OneInv'
  BY NextAccount
<1> QED BY InitAccount, <1>1, <1>2, <1>3, <1>4, <1>5, PTL DEF SafeSpec, CompletedLeftOnlyOnRequest

=============================================================================
