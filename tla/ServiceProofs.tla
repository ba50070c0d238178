--------------------------- MODULE ServiceProofs ---------------------------
(***************************************************************************)
(* Proofs about ResultService, for every set of runs, callers, profiles,   *)
(* targets and results, any rows at the start and any bounds.  The         *)
(* argument is about copies: a record of a run lives in its row, in an     *)
(* exported file, in the hands of operations that read it, and in what     *)
(* checks saw.  All copies of a run stay kin (one result, one placeholder) *)
(* whatever the queries interleave with, and differ from the row only in   *)
(* ways that the histories early and drafts tell.                          *)
(***************************************************************************)
EXTENDS ResultService, FiniteSetTheorems, WellFoundedInduction, TLAPS

-----------------------------------------------------------------------------
(* The invariant.                                                          *)

Fields == {"pc", "op", "id", "other", "run", "base", "answer"}

\* The operations that have read the record of their run.
Holding == {"baseline", "reference", "rolling", "answered", "set", "confirm",
            "write file", "get other"}
Holds(c) == call[c].pc \in Holding

\* The tables refer to rows, and so do the calls and what checks saw.
Types ==
    /\ runs \in [DOMAIN runs -> Records] /\ DOMAIN runs \subseteq RunIds
    /\ IsFiniteSet(DOMAIN runs)
    /\ files \in [DOMAIN files -> Records] /\ DOMAIN files \subseteq DOMAIN runs
    /\ going \subseteq DOMAIN runs /\ DOMAIN reports \subseteq DOMAIN runs
    /\ \A key \in DOMAIN baselines : baselines[key] \in DOMAIN runs
    /\ early \subseteq Keys \X DOMAIN runs /\ faults \in Nat
CallTypes ==
    /\ DOMAIN call = Callers
    /\ \A c \in Callers :
         /\ DOMAIN call[c] = Fields
         /\ call[c].pc \in {"get", "import"} => call[c].id \in RunIds
         /\ Holds(c) => call[c].run \in Records /\ call[c].id \in DOMAIN runs
         /\ \A t \in sawRuns[c] : t \in [DOMAIN t -> Records] /\ DOMAIN t \subseteq DOMAIN runs

\* The places where a record of a run can be.
InRow(i, x)   == i \in DOMAIN runs /\ x = runs[i]
InFile(i, x)  == i \in DOMAIN files /\ x = files[i]
InCall(i, x)  == \E c \in Callers : Holds(c) /\ call[c].id = i /\ x = call[c].run
InSight(i, x) == \E c \in Callers : \E t \in sawRuns[c] : i \in DOMAIN t /\ x = t[i]
IsCopy(i, x)  == InRow(i, x) \/ InFile(i, x) \/ InCall(i, x) \/ InSight(i, x)

\* Two records of one run: one result, and one placeholder.
Kin(x, y) ==
    /\ x.results = y.results \/ x.results = NoResults \/ y.results = NoResults
    /\ x.status = "running" /\ y.status = "running" => x.key = y.key
\* A record of a run, against its row.
Current(i, x) ==
    /\ i \in going => x.status = "running" /\ x.results = NoResults
    /\ x.status = "running" \/ i \in drafts \/ x.key = runs[i].key
\* A baseline of a key, against the row it names.
Points(key, i) ==
    /\ i \in DOMAIN runs
    /\ runs[i].key = key \/ Untargeted(key, i)
    /\ i \in going => <<key, i>> \in early

CopiesAgree ==
    /\ \A i, x, y : IsCopy(i, x) /\ IsCopy(i, y) => Kin(x, y)
    /\ \A i, x : IsCopy(i, x) => Current(i, x)
    /\ \A i \in DOMAIN files : files[i].status = "running" => i \in drafts
    /\ \A key, i, x : <<key, i>> \in early /\ IsCopy(i, x) /\ x.status = "running" => x.key = key
BaselinesPoint == \A key \in DOMAIN baselines : Points(key, baselines[key])

TInv == Types /\ CallTypes /\ CopiesAgree /\ BaselinesPoint

-----------------------------------------------------------------------------
(* What a step does, without saying which.                                 *)

\* A row is kept, imported, settled or new.
RowsStep ==
    /\ DOMAIN runs \subseteq DOMAIN runs'
    /\ \A i \in DOMAIN runs' :
         \/ i \in DOMAIN runs /\ runs'[i] = runs[i]
         \/ i \in DOMAIN files /\ runs'[i] = files[i]
         \/ i \in going /\ i \notin going' /\ runs'[i].status # "running"
         \/ /\ i \notin DOMAIN runs
            /\ i \in going' => runs'[i].status = "running" /\ runs'[i].results = NoResults
    /\ \A i \in going' : i \in going \/ i \notin DOMAIN runs
\* A file, a baseline and the histories are written from what a call holds.
FilesStep ==
    \A i \in DOMAIN files' :
        \/ i \in DOMAIN files /\ files'[i] = files[i]
        \/ \E c \in Callers : /\ Holds(c) /\ call[c].id = i /\ files'[i] = call[c].run
                              /\ call[c].run.status = "running" => i \in drafts'
BaselinesStep ==
    \A key \in DOMAIN baselines' :
        \/ key \in DOMAIN baselines /\ baselines'[key] = baselines[key]
        \/ \E c \in Callers : /\ Holds(c) /\ call[c].id = baselines'[key] /\ key = call[c].run.key
                              /\ call[c].run.status = "running" => <<key, call[c].id>> \in early'
HistoryStep ==
    /\ drafts \subseteq drafts' /\ faults <= faults'
    /\ \A key, i : <<key, i>> \in early /\ <<key, i>> \notin early' =>
         \E c \in Callers : /\ Holds(c) /\ call[c].id = i /\ call[c].run.key = key
                            /\ call[c].run.status # "running"
    /\ \A key, i : <<key, i>> \in early' /\ <<key, i>> \notin early =>
         \E c \in Callers : /\ Holds(c) /\ call[c].id = i /\ call[c].run.key = key
                            /\ call[c].run.status = "running"
\* A call keeps the record it holds or reads the row, and a check that goes on
\* sees the rows there are.
CallsStep ==
    \A c \in Callers :
        /\ Holds(c)' =>
             \/ Holds(c) /\ call'[c].run = call[c].run /\ call'[c].id = call[c].id
             \/ InRow(call[c].id, call[c].run)'
        /\ \A t \in sawRuns'[c] : t \in sawRuns[c] \/ t = runs'
Effect == RowsStep /\ FilesStep /\ BaselinesStep /\ HistoryStep /\ CallsStep

-----------------------------------------------------------------------------
(* What a step does to the call of one caller.                             *)

\* The queries of a check, in the code's order.
CheckMove(c) ==
    /\ Holds(c) /\ UNCHANGED <<tables, early, drafts>>
    /\ call'[c].run = call[c].run /\ call'[c].id = call[c].id /\ call'[c].op = call[c].op
    /\ \/ /\ call[c].pc = "baseline" /\ call'[c].pc = "rolling" /\ call'[c].base = None
          /\ faults' = faults => BaselineOf(baselines, call[c].run.key) = None
       \/ /\ call[c].pc = "baseline" /\ call'[c].pc = "reference"
          /\ call'[c].base = BaselineOf(baselines, call[c].run.key) /\ call'[c].base # None
       \/ /\ call[c].pc = "reference" /\ call'[c].pc = "answered" /\ call'[c].base = call[c].base
          /\ call'[c].answer.reference = runs[call[c].base].results
          /\ call'[c].answer.alerts = Check(call[c].run.results, runs[call[c].base].results)
       \/ /\ call[c].pc = "reference" /\ call'[c].pc = "rolling" /\ call'[c].base = None
          /\ faults' > faults
       \/ /\ call[c].pc = "rolling" /\ call'[c].pc = "answered" /\ call'[c].base = call[c].base
          /\ \/ call'[c].answer.alerts \in Rolling(runs, call[c].run, call[c].id)
             \/ call'[c].answer.alerts = {} /\ faults' > faults
ReadMove(c) ==
    /\ InRow(call[c].id, call[c].run)'
    /\ \/ call'[c].pc \in {"set", "write file", "get other"}
       \/ call'[c].pc = "answered" /\ call'[c].op = "plain"
       \/ call'[c].pc = "baseline" /\ call'[c].op # "plain" /\ call'[c].base = None
Move(c) ==
    \/ call'[c] = call[c]
    \/ call'[c].pc \in {"idle", "done", "last"}
    \/ /\ call'[c].pc \in {"get", "import"} /\ call'[c].id \in RunIds
       /\ call'[c].pc = "get" => call'[c].base = None
    \/ ReadMove(c)
    \/ /\ call'[c].pc = "confirm" /\ Holds(c)
       /\ call'[c].run = call[c].run /\ call'[c].id = call[c].id
    \/ CheckMove(c)
Moves(c) ==
    /\ DOMAIN call' = Callers /\ DOMAIN call'[c] = Fields /\ Move(c)
    /\ \A d \in Callers \ {c} : call'[d] = call[d]
TableSteps == Types' /\ RowsStep /\ FilesStep /\ BaselinesStep /\ HistoryStep
Quiet == UNCHANGED <<tables, early, drafts>> /\ faults' \in Nat /\ faults <= faults'

\* A check that goes on: where its base comes from.
OnTheWay(c) ==
    /\ call[c].pc \in {"baseline", "reference", "rolling"} => call[c].op # "plain"
    /\ call[c].pc \in {"get", "baseline", "rolling"} => call[c].base = None
    /\ call[c].pc = "reference" =>
         /\ call[c].base # None /\ call[c].base \in sawBase[c]
         /\ Points(call[c].run.key, call[c].base)
    /\ call[c].pc = "rolling" /\ faults = 0 => None \in sawBase[c]

\* An answer: its alerts have witnesses, it is one that a check must give, and
\* a baseline in it is where its alerts come from.
Justified(c) ==
    \A a \in call[c].answer.alerts : \E t \in sawRuns[c] : \E i \in DOMAIN t :
        /\ i # call[c].id /\ a \in Check(call[c].run.results, t[i].results)
        /\ \/ t[i].key = call[c].run.key
           \/ i = call[c].base /\ Untargeted(call[c].run.key, i)
Explains(b, t, alerts, run, id) ==
    alerts \in IF b = None THEN Rolling(t, run, id)
               ELSE {Check(run.results, t[i].results) : i \in {b} \cap DOMAIN t}
Explained(c) ==
    faults = 0 => \E b \in sawBase[c], t \in sawRuns[c] :
                    Explains(b, t, call[c].answer.alerts, call[c].run, call[c].id)
Referred(c) ==
    call[c].base # None =>
        /\ call[c].answer.reference \in Results \cup {NoResults}
        /\ call[c].answer.alerts = Check(call[c].run.results, call[c].answer.reference)

LInv == TInv /\ \A c \in Callers : OnTheWay(c)
IInv == LInv /\ \A c \in Callers : Answered(c) => Justified(c) /\ Explained(c) /\ Referred(c)

\* A row is the first copy.
LEMMA RowIsCopy == \A i \in DOMAIN runs : IsCopy(i, runs[i])
BY DEF IsCopy, InRow

\* Every copy is of a run that has a row, and typed.
LEMMA CopyHasRow ==
    ASSUME Types, CallTypes, NEW i, NEW x, IsCopy(i, x)
    PROVE  i \in DOMAIN runs /\ x \in Records
<1>1. CASE InRow(i, x)
  BY <1>1 DEF InRow, Types
<1>2. CASE InFile(i, x)
  BY <1>2 DEF InFile, Types
<1>3. CASE InCall(i, x)
  BY <1>3 DEF InCall, CallTypes
<1>4. CASE InSight(i, x)
  <2>1. PICK c \in Callers : \E t \in sawRuns[c] : i \in DOMAIN t /\ x = t[i]
    BY <1>4 DEF InSight
  <2>2. PICK t \in sawRuns[c] : i \in DOMAIN t /\ x = t[i]
    BY <2>1
  <2> QED BY <2>2 DEF CallTypes
<1> QED BY <1>1, <1>2, <1>3, <1>4 DEF IsCopy

\* No step brings in a copy but that of the row.
LEMMA NewCopyIsRow ==
    ASSUME Effect, NEW i, NEW x, IsCopy(i, x)'
    PROVE  IsCopy(i, x) \/ InRow(i, x)'
<1>1. CASE InRow(i, x)'
  BY <1>1
<1>2. CASE InFile(i, x)'
  <2>1. \/ i \in DOMAIN files /\ files'[i] = files[i]
        \/ \E c \in Callers : Holds(c) /\ call[c].id = i /\ files'[i] = call[c].run
    BY <1>2 DEF InFile, Effect, FilesStep
  <2> QED BY <1>2, <2>1 DEF InFile, InCall, IsCopy
<1>3. CASE InCall(i, x)'
  <2>1. PICK c \in Callers : Holds(c)' /\ call'[c].id = i /\ x = call'[c].run
    BY <1>3 DEF InCall
  <2> QED BY <2>1 DEF Effect, CallsStep, IsCopy, InCall, InRow
<1>4. CASE InSight(i, x)'
  <2>1. PICK c \in Callers : \E t \in sawRuns'[c] : i \in DOMAIN t /\ x = t[i]
    BY <1>4 DEF InSight
  <2>2. PICK t \in sawRuns'[c] : i \in DOMAIN t /\ x = t[i]
    BY <2>1
  <2>3. t \in sawRuns[c] \/ t = runs'
    BY <2>2 DEF Effect, CallsStep
  <2> QED BY <2>2, <2>3 DEF IsCopy, InSight, InRow
<1> QED BY <1>1, <1>2, <1>3, <1>4 DEF IsCopy

\* A row after a step: a copy from before it, settled, or the first one.
LEMMA RowOrigin ==
    ASSUME Effect, NEW i \in DOMAIN runs'
    PROVE  \/ IsCopy(i, runs'[i])
           \/ i \in going /\ i \notin going' /\ runs'[i].status # "running"
           \/ /\ i \notin DOMAIN runs
              /\ i \in going' => runs'[i].status = "running" /\ runs'[i].results = NoResults
BY DEF Effect, RowsStep, IsCopy, InRow, InFile

\* The copies of a run stay kin.
LEMMA KinStep ==
    ASSUME TInv, Effect, NEW i, NEW x, NEW y, IsCopy(i, x)', IsCopy(i, y)'
    PROVE  Kin(x, y)
<1> DEFINE Old(z) == IsCopy(i, z)
<1>1. CASE Old(x) /\ Old(y)
  BY <1>1 DEF TInv, CopiesAgree
<1>2. CASE InRow(i, x)' /\ InRow(i, y)'
  BY <1>2 DEF InRow, Kin
<1>3. ASSUME NEW z, Old(z), i \in DOMAIN runs', ~ Old(runs'[i])
      PROVE  Kin(z, runs'[i]) /\ Kin(runs'[i], z)
  <2>1. i \in DOMAIN runs /\ Current(i, z)
    BY <1>3, CopyHasRow DEF TInv, CopiesAgree
  <2>2. runs'[i].status # "running" /\ i \in going
    BY <1>3, <2>1, RowOrigin
  <2>3. z.status = "running" /\ z.results = NoResults
    BY <2>1, <2>2 DEF Current
  <2>4. IsCopy(i, runs[i]) /\ runs[i].status = "running"
    BY <2>1, <2>2, RowIsCopy DEF TInv, CopiesAgree, Current
  <2> QED BY <2>2, <2>3 DEF Kin
<1> QED BY <1>1, <1>2, <1>3, NewCopyIsRow DEF InRow

\* A key that the history forgets is one that the row has, and its run is done.
LEMMA ForgottenIsRight ==
    ASSUME TInv, Effect, NEW key, NEW i, <<key, i>> \in early, <<key, i>> \notin early'
    PROVE  i \in DOMAIN runs /\ i \notin going /\ (i \in drafts \/ runs[i].key = key)
<1>1. PICK c \in Callers : /\ Holds(c) /\ call[c].id = i /\ call[c].run.key = key
                           /\ call[c].run.status # "running"
  BY DEF Effect, HistoryStep
<1>2. IsCopy(i, call[c].run)
  BY <1>1 DEF IsCopy, InCall
<1>3. Current(i, call[c].run) /\ i \in DOMAIN runs
  BY <1>2, CopyHasRow DEF TInv, CopiesAgree
<1> QED BY <1>1, <1>3 DEF Current

\* A key that the history learns is that of the placeholder that was read.
LEMMA LearntIsRead ==
    ASSUME Effect, NEW key, NEW i, <<key, i>> \in early', <<key, i>> \notin early
    PROVE  \E x : IsCopy(i, x) /\ x.key = key /\ x.status = "running"
<1>1. PICK c \in Callers : /\ Holds(c) /\ call[c].id = i /\ call[c].run.key = key
                           /\ call[c].run.status = "running"
  BY DEF Effect, HistoryStep
<1>2. IsCopy(i, call[c].run)
  BY <1>1 DEF IsCopy, InCall
<1> QED BY <1>1, <1>2

\* A row that was there changes its key only when the run settles, or by the
\* import of a placeholder.
LEMMA KeyKept ==
    ASSUME TInv, Effect, NEW i \in DOMAIN runs
    PROVE  /\ i \in DOMAIN runs'
           /\ \/ runs'[i].key = runs[i].key
              \/ i \in drafts
              \/ i \in going /\ i \notin going' /\ runs'[i].status # "running"
<1>1. i \in DOMAIN runs'
  BY DEF Effect, RowsStep
<1>2. CASE i \in DOMAIN files /\ runs'[i] = files[i]
  <2>1. IsCopy(i, files[i])
    BY <1>2 DEF IsCopy, InFile
  <2>2. Current(i, files[i])
    BY <2>1 DEF TInv, CopiesAgree
  <2> QED BY <1>1, <1>2, <2>2 DEF Current, TInv, CopiesAgree
<1> QED BY <1>1, <1>2 DEF Effect, RowsStep

\* Every copy stays current.
LEMMA CurrentStep ==
    ASSUME TInv, Effect, NEW i, NEW x, IsCopy(i, x)'
    PROVE  Current(i, x)'
<1>1. drafts \subseteq drafts' /\ (i \in going' => i \in going \/ i \notin DOMAIN runs)
  BY DEF Effect, HistoryStep, RowsStep
<1>2. CASE IsCopy(i, x)
  <2>1. i \in DOMAIN runs /\ Current(i, x)
    BY <1>2, CopyHasRow DEF TInv, CopiesAgree
  <2> QED BY <1>1, <2>1, KeyKept DEF Current
<1>3. CASE ~ IsCopy(i, x)
  <2>1. i \in DOMAIN runs' /\ x = runs'[i]
    BY <1>3, NewCopyIsRow DEF InRow
  <2> QED BY <1>1, <1>3, <2>1, RowOrigin, RowIsCopy DEF Current
<1> QED BY <1>2, <1>3

\* What a baseline points at stays the run of its key.
LEMMA PointsStep ==
    ASSUME TInv, Effect, NEW key, NEW i, Points(key, i)
    PROVE  Points(key, i)'
<1>1. drafts \subseteq drafts' /\ (i \in going' => i \in going)
  BY DEF Effect, HistoryStep, RowsStep, Points
<1>2. CASE <<key, i>> \in early /\ <<key, i>> \notin early'
  <2>1. i \in DOMAIN runs /\ i \notin going /\ (i \in drafts \/ runs[i].key = key)
    BY <1>2, ForgottenIsRight
  <2> QED BY <1>1, <2>1, KeyKept DEF Points, Untargeted
<1>3. CASE ~(<<key, i>> \in early /\ <<key, i>> \notin early')
  BY <1>1, <1>3, KeyKept DEF Points, Untargeted
<1> QED BY <1>2, <1>3

\* A step keeps the copies of every run in agreement.
LEMMA CopiesStep ==
    ASSUME TInv, Effect
    PROVE  CopiesAgree'
<1>1. \A i, x, y : IsCopy(i, x)' /\ IsCopy(i, y)' => Kin(x, y)
  BY KinStep
<1>2. \A i, x : IsCopy(i, x)' => Current(i, x)'
  BY CurrentStep
<1>3. ASSUME NEW i \in DOMAIN files', files'[i].status = "running"
      PROVE  i \in drafts'
  BY <1>3 DEF TInv, CopiesAgree, Effect, FilesStep, HistoryStep
<1>4. ASSUME NEW key, NEW i, NEW x, <<key, i>> \in early', IsCopy(i, x)', x.status = "running"
      PROVE  x.key = key
  <2>1. CASE IsCopy(i, x) /\ <<key, i>> \in early
    BY <2>1, <1>4 DEF TInv, CopiesAgree
  <2>2. CASE IsCopy(i, x) /\ <<key, i>> \notin early
    <3>1. PICK y : IsCopy(i, y) /\ y.key = key /\ y.status = "running"
      BY <1>4, <2>2, LearntIsRead
    <3> QED BY <2>2, <3>1, <1>4 DEF TInv, CopiesAgree, Kin
  <2>3. CASE ~ IsCopy(i, x)
    <3>1. i \in DOMAIN runs
      <4>1. CASE <<key, i>> \in early
        BY <4>1 DEF TInv, Types
      <4>2. CASE <<key, i>> \notin early
        BY <1>4, <4>2, LearntIsRead, CopyHasRow DEF TInv
      <4> QED BY <4>1, <4>2
    <3> QED BY <1>4, <2>3, <3>1, NewCopyIsRow, RowOrigin DEF InRow
  <2> QED BY <2>1, <2>2, <2>3
<1> QED BY <1>1, <1>2, <1>3, <1>4 DEF CopiesAgree, Kin

\* A step keeps every baseline on a run of its key.
LEMMA BaselinesKept ==
    ASSUME TInv, Effect
    PROVE  BaselinesPoint'
<1> SUFFICES ASSUME NEW key \in DOMAIN baselines'
             PROVE  Points(key, baselines[key])'
  BY DEF BaselinesPoint
<1>1. CASE key \in DOMAIN baselines /\ baselines'[key] = baselines[key]
  <2>1. Points(key, baselines[key])'
    BY <1>1, PointsStep DEF TInv, BaselinesPoint
  <2> QED BY <1>1, <2>1
<1>2. ASSUME NEW c \in Callers, Holds(c), call[c].id = baselines'[key], key = call[c].run.key,
             call[c].run.status = "running" => <<key, call[c].id>> \in early'
      PROVE  Points(key, baselines[key])'
  <2> DEFINE i == call[c].id
             x == call[c].run
  <2>1. IsCopy(i, x)
    BY <1>2 DEF IsCopy, InCall
  <2>2. i \in DOMAIN runs /\ Current(i, x)
    BY <2>1, CopyHasRow DEF TInv, CopiesAgree
  <2>3. drafts \subseteq drafts' /\ i \in DOMAIN runs' /\ (i \in going' => i \in going)
    BY <2>2, KeyKept DEF Effect, HistoryStep, RowsStep
  <2>4. CASE x.status = "running"
    <3>1. <<key, i>> \in early'
      BY <1>2, <2>4
    <3> QED BY <1>2, <2>3, <3>1 DEF Points, Untargeted
  <2>5. CASE x.status # "running"
    <3>1. i \notin going /\ (i \in drafts \/ runs[i].key = key)
      BY <1>2, <2>2, <2>5 DEF Current
    <3>2. i \in drafts' \/ runs'[i].key = key
      BY <2>2, <2>3, <3>1, KeyKept
    <3> QED BY <1>2, <2>3, <3>1, <3>2 DEF Points, Untargeted
  <2> QED BY <2>4, <2>5
<1> QED BY <1>1, <1>2 DEF Effect, BaselinesStep

-----------------------------------------------------------------------------
(* The steps, one by one.                                                  *)

\* A caller goes on to the next call.
LEMMA GoesOn ==
    ASSUME TInv, NEW c \in Callers, NEW next, Goes(c, next), DOMAIN next = Fields
    PROVE  /\ DOMAIN call' = Callers /\ DOMAIN call'[c] = Fields /\ call'[c] = next
           /\ \A d \in Callers \ {c} : call'[d] = call[d]
BY DEF TInv, CallTypes, Goes

\* A call with the fields of Free, changed where the operations change it.
LEMMA CallFields ==
    /\ DOMAIN Free = Fields /\ Free.pc = "idle" /\ Free.base = None /\ Free.op = "none"
    /\ \A p, o, i, j : LET next == [Free EXCEPT !.pc = p, !.op = o, !.id = i, !.other = j]
                       IN  DOMAIN next = Fields /\ next.pc = p /\ next.id = i /\ next.base = None
    /\ \A p, o, i, r : LET next == [Free EXCEPT !.pc = p, !.op = o, !.id = i, !.run = r]
                       IN  /\ DOMAIN next = Fields /\ next.pc = p /\ next.op = o /\ next.id = i
                           /\ next.run = r /\ next.base = None
BY DEF Free, Fields

\* A call that goes to another place, with what was read or answered.
LEMMA ToFields ==
    ASSUME TInv, NEW c \in Callers, NEW p
    PROVE  /\ LET next == To(c, p)
              IN  /\ DOMAIN next = Fields /\ next.pc = p /\ next.op = call[c].op
                  /\ next.id = call[c].id /\ next.run = call[c].run /\ next.base = call[c].base
           /\ \A r : LET next == [To(c, p) EXCEPT !.run = r]
                     IN  /\ DOMAIN next = Fields /\ next.pc = p /\ next.op = call[c].op
                         /\ next.id = call[c].id /\ next.run = r /\ next.base = call[c].base
           /\ \A b : LET next == [To(c, p) EXCEPT !.base = b]
                     IN  /\ DOMAIN next = Fields /\ next.pc = p /\ next.op = call[c].op
                         /\ next.id = call[c].id /\ next.run = call[c].run /\ next.base = b
           /\ \A a : LET next == [To(c, p) EXCEPT !.answer = a]
                     IN  /\ DOMAIN next = Fields /\ next.pc = p /\ next.op = call[c].op
                         /\ next.id = call[c].id /\ next.run = call[c].run
                         /\ next.base = call[c].base /\ next.answer = a
           /\ \A i : LET next == [call[c] EXCEPT !.id = i]
                     IN  DOMAIN next = Fields /\ next.pc = call[c].pc /\ next.id = i
<1>1. DOMAIN call[c] = Fields
  BY DEF TInv, CallTypes
<1> QED BY <1>1 DEF To, Fields

\* A failed query changes no table.
LEMMA FaultIsQuiet ==
    ASSUME TInv, NEW c \in Callers, NEW next, Fault(c, next)
    PROVE  Quiet /\ Goes(c, next) /\ faults' > faults /\ Witnessed
BY DEF TInv, Types, Fault, Quiet

\* Without a fault.
LEMMA KeepIsQuiet ==
    ASSUME TInv, UNCHANGED tables, Keep
    PROVE  Quiet /\ faults' = faults /\ Witnessed
BY DEF TInv, Types, Keep, Quiet

\* Then every table is as it was.
LEMMA QuietTables == TInv /\ Quiet => TableSteps
<1> SUFFICES ASSUME TInv, Quiet PROVE TableSteps
  OBVIOUS
<1>1. UNCHANGED <<runs, baselines, files, reports, going, early, drafts>>
  BY DEF Quiet, tables
<1>2. RowsStep /\ FilesStep /\ BaselinesStep /\ HistoryStep
  BY <1>1 DEF RowsStep, FilesStep, BaselinesStep, HistoryStep, Quiet
<1>3. Types'
  BY <1>1 DEF TInv, Types, Quiet
<1> QED BY <1>2, <1>3 DEF TableSteps

\* An operation begins.
LEMMA BeginMoves ==
    ASSUME TInv, NEW c \in Callers, Begin(c)
    PROVE  Quiet /\ Moves(c) /\ Witnessed
<1>1. PICK op \in Operations, i \in RunIds, j \in RunIds :
        Goes(c, [Free EXCEPT !.pc = IF op \in {"last", "import"} THEN op ELSE "get",
                             !.op = op, !.id = i, !.other = j])
  BY DEF Begin
<1> DEFINE p == IF op \in {"last", "import"} THEN op ELSE "get"
           next == [Free EXCEPT !.pc = p, !.op = op, !.id = i, !.other = j]
<1>2. DOMAIN next = Fields /\ next.pc = p /\ next.id = i /\ next.base = None
  BY CallFields
<1> HIDE DEF next
<1>3. call'[c] = next /\ DOMAIN call' = Callers /\ DOMAIN call'[c] = Fields
      /\ \A d \in Callers \ {c} : call'[d] = call[d]
  BY <1>1, <1>2, GoesOn DEF next
<1>4. Move(c)
  BY <1>2, <1>3 DEF Move
<1>5. Quiet /\ Witnessed
  BY DEF Begin, Quiet, TInv, Types
<1> QED BY <1>3, <1>4, <1>5 DEF Moves

\* The row of the run is read, is not there, or cannot be read.
LEMMA GetMoves ==
    ASSUME TInv, \A d \in Callers : OnTheWay(d), NEW c \in Callers, Get(c)
    PROVE  Quiet /\ Moves(c) /\ Witnessed
<1> DEFINE p == CASE call[c].op \in {"check", "report"} -> "baseline"
                     [] call[c].op = "set"     -> "set"
                     [] call[c].op = "plain"   -> "answered"
                     [] call[c].op = "compare" -> "get other"
                     [] OTHER                  -> "write file"
           next == [To(c, p) EXCEPT !.run = runs[call[c].id]]
<1>0. \/ p = "baseline" /\ call[c].op # "plain"
      \/ p = "answered" /\ call[c].op = "plain"
      \/ p \in {"set", "write file", "get other"}
  OBVIOUS
<1>5. call[c].base = None
  BY DEF Get, At, OnTheWay
<1>6. \/ call[c].id \in DOMAIN runs /\ Goes(c, next) /\ UNCHANGED tables /\ Keep
      \/ Goes(c, Free) /\ UNCHANGED tables /\ Keep
      \/ Fault(c, Free)
  BY DEF Get
<1> HIDE DEF p
<1>1. CASE call[c].id \in DOMAIN runs /\ Goes(c, next) /\ UNCHANGED tables /\ Keep
  <2>1. /\ DOMAIN next = Fields /\ next.pc = p /\ next.op = call[c].op
        /\ next.id = call[c].id /\ next.run = runs[call[c].id] /\ next.base = call[c].base
    BY ToFields
  <2> HIDE DEF next
  <2>3. call'[c] = next /\ DOMAIN call' = Callers /\ DOMAIN call'[c] = Fields
        /\ \A d \in Callers \ {c} : call'[d] = call[d]
    BY <1>1, <2>1, GoesOn
  <2>4. InRow(call[c].id, call[c].run)'
    BY <1>1, <2>1, <2>3 DEF InRow, tables
  <2>6. call'[c].pc = p /\ call'[c].op = call[c].op /\ call'[c].base = None
    BY <2>1, <1>5, <2>3
  <2>7. ReadMove(c)
    BY <2>4, <1>0, <2>6 DEF ReadMove
  <2> QED BY <1>1, <2>3, <2>7, KeepIsQuiet DEF Moves, Move
<1>2. CASE Goes(c, Free) /\ Quiet /\ Witnessed
  BY <1>2, GoesOn, CallFields DEF Moves, Move
<1> QED BY <1>1, <1>2, <1>6, KeepIsQuiet, FaultIsQuiet

\* The explicit baseline of the run is read, is not there, or cannot be read.
LEMMA GetBaselineMoves ==
    ASSUME TInv, \A d \in Callers : OnTheWay(d), NEW c \in Callers, GetBaseline(c)
    PROVE  Quiet /\ Moves(c) /\ Witnessed
<1> DEFINE b == BaselineOf(baselines, call[c].run.key)
           p == IF b = None THEN "rolling" ELSE "reference"
           next == [To(c, p) EXCEPT !.base = b]
<1>1. Holds(c) /\ call[c].pc = "baseline" /\ call[c].base = None
  BY DEF GetBaseline, At, Holds, Holding, OnTheWay
<1>2. \/ Goes(c, next) /\ UNCHANGED tables /\ Keep
      \/ Fault(c, To(c, "rolling"))
  BY DEF GetBaseline
<1>3. (b = None /\ p = "rolling") \/ (b # None /\ p = "reference")
  OBVIOUS
<1> HIDE DEF p, b
<1>4. CASE Goes(c, next) /\ UNCHANGED tables /\ Keep
  <2>1. /\ DOMAIN next = Fields /\ next.pc = p /\ next.op = call[c].op
        /\ next.id = call[c].id /\ next.run = call[c].run /\ next.base = b
    BY ToFields
  <2> HIDE DEF next
  <2>2. call'[c] = next /\ DOMAIN call' = Callers /\ DOMAIN call'[c] = Fields
        /\ \A d \in Callers \ {c} : call'[d] = call[d]
    BY <1>4, <2>1, GoesOn
  <2>3. UNCHANGED <<tables, early, drafts>> /\ Quiet /\ Witnessed
    BY <1>4, KeepIsQuiet DEF Quiet
  <2>4. CheckMove(c)
    BY <1>1, <1>3, <2>1, <2>2, <2>3 DEF CheckMove, b
  <2> QED BY <2>2, <2>3, <2>4 DEF Moves, Move
<1>5. CASE Fault(c, To(c, "rolling"))
  <2> DEFINE last == To(c, "rolling")
  <2>1. /\ DOMAIN last = Fields /\ last.pc = "rolling" /\ last.op = call[c].op
        /\ last.id = call[c].id /\ last.run = call[c].run /\ last.base = call[c].base
    BY ToFields
  <2> HIDE DEF last
  <2>2. Quiet /\ Goes(c, last) /\ faults' > faults /\ Witnessed
    BY <1>5, FaultIsQuiet DEF last
  <2>3. call'[c] = last /\ DOMAIN call' = Callers /\ DOMAIN call'[c] = Fields
        /\ \A d \in Callers \ {c} : call'[d] = call[d]
    BY <2>1, <2>2, GoesOn
  <2>4. CheckMove(c)
    BY <1>1, <2>1, <2>2, <2>3 DEF CheckMove, Quiet
  <2> QED BY <2>2, <2>3, <2>4 DEF Moves, Move
<1> QED BY <1>2, <1>4, <1>5

\* The results of the baseline are read, or it goes on without it.
LEMMA GetReferenceMoves ==
    ASSUME TInv, NEW c \in Callers, GetReference(c)
    PROVE  Quiet /\ Moves(c) /\ Witnessed
<1> DEFINE reference == runs[call[c].base].results
           alerts == Check(call[c].run.results, reference)
           status == SummaryStatus(call[c].run, alerts)
           answer == [alerts |-> alerts, status |-> status, reference |-> reference]
           next == [To(c, "answered") EXCEPT !.answer = answer]
           last == [To(c, "rolling") EXCEPT !.base = None]
<1>1. Holds(c) /\ call[c].pc = "reference"
  BY DEF GetReference, At, Holds, Holding
<1>2. \/ Goes(c, next) /\ UNCHANGED tables /\ Keep
      \/ Fault(c, last)
  BY DEF GetReference, Answers
<1>3. answer.alerts = alerts /\ answer.reference = reference
  OBVIOUS
<1> HIDE DEF answer
<1>4. CASE Goes(c, next) /\ UNCHANGED tables /\ Keep
  <2>1. /\ DOMAIN next = Fields /\ next.pc = "answered" /\ next.op = call[c].op
        /\ next.id = call[c].id /\ next.run = call[c].run /\ next.base = call[c].base
        /\ next.answer = answer
    BY ToFields
  <2> HIDE DEF next, alerts
  <2>2. call'[c] = next /\ DOMAIN call' = Callers /\ DOMAIN call'[c] = Fields
        /\ \A d \in Callers \ {c} : call'[d] = call[d]
    BY <1>4, <2>1, GoesOn
  <2>3. UNCHANGED <<tables, early, drafts>> /\ Quiet /\ Witnessed
    BY <1>4, KeepIsQuiet DEF Quiet
  <2>4. CheckMove(c)
    BY <1>1, <1>3, <2>1, <2>2, <2>3 DEF CheckMove, alerts
  <2> QED BY <2>2, <2>3, <2>4 DEF Moves, Move
<1>5. CASE Fault(c, last)
  <2>1. /\ DOMAIN last = Fields /\ last.pc = "rolling" /\ last.op = call[c].op
        /\ last.id = call[c].id /\ last.run = call[c].run /\ last.base = None
    BY ToFields
  <2> HIDE DEF last
  <2>2. Quiet /\ Goes(c, last) /\ faults' > faults /\ Witnessed
    BY <1>5, FaultIsQuiet
  <2>3. call'[c] = last /\ DOMAIN call' = Callers /\ DOMAIN call'[c] = Fields
        /\ \A d \in Callers \ {c} : call'[d] = call[d]
    BY <2>1, <2>2, GoesOn
  <2>4. CheckMove(c)
    BY <1>1, <2>1, <2>2, <2>3 DEF CheckMove, Quiet
  <2> QED BY <2>2, <2>3, <2>4 DEF Moves, Move
<1> QED BY <1>2, <1>4, <1>5

\* The rolling reference, or no alerts when the rows cannot be listed.
LEMMA ListSinceMoves ==
    ASSUME TInv, NEW c \in Callers, ListSince(c)
    PROVE  Quiet /\ Moves(c) /\ Witnessed
<1>1. Holds(c) /\ call[c].pc = "rolling"
  BY DEF ListSince, At, Holds, Holding
<1>2. PICK alerts :
        \/ /\ alerts \in Rolling(runs, call[c].run, call[c].id)
           /\ Goes(c, Answers(c, alerts, NoResults)) /\ UNCHANGED tables /\ Keep
        \/ alerts = {} /\ Fault(c, Answers(c, alerts, NoResults))
  BY DEF ListSince
<1> DEFINE status == SummaryStatus(call[c].run, alerts)
           answer == [alerts |-> alerts, status |-> status, reference |-> NoResults]
           next == [To(c, "answered") EXCEPT !.answer = answer]
<1>3. answer.alerts = alerts
  OBVIOUS
<1>4. next = Answers(c, alerts, NoResults)
  BY DEF Answers
<1> HIDE DEF answer
<1>5. /\ DOMAIN next = Fields /\ next.pc = "answered" /\ next.op = call[c].op
      /\ next.id = call[c].id /\ next.run = call[c].run /\ next.base = call[c].base
      /\ next.answer = answer
  BY ToFields
<1> HIDE DEF next
<1>6. Goes(c, next) /\ Quiet /\ Witnessed
      /\ (alerts \in Rolling(runs, call[c].run, call[c].id) \/ (alerts = {} /\ faults' > faults))
  BY <1>2, <1>4, KeepIsQuiet, FaultIsQuiet
<1>7. call'[c] = next /\ DOMAIN call' = Callers /\ DOMAIN call'[c] = Fields
      /\ \A d \in Callers \ {c} : call'[d] = call[d]
  BY <1>5, <1>6, GoesOn
<1>8. CheckMove(c)
  BY <1>1, <1>3, <1>5, <1>6, <1>7 DEF CheckMove, Quiet
<1> QED BY <1>6, <1>7, <1>8 DEF Moves, Move

\* The caller goes back to idle, or is done.
LEMMA EndMoves ==
    ASSUME TInv, NEW c \in Callers, NEW next, Goes(c, next), DOMAIN next = Fields,
           next.pc \in {"idle", "done"}
    PROVE  Moves(c)
BY GoesOn DEF Moves, Move

\* A baseline is set, under the key the run had when it was read.
LEMMA SetBaselineMoves ==
    ASSUME TInv, NEW c \in Callers, SetBaseline(c)
    PROVE  TableSteps /\ Moves(c) /\ Witnessed
<1> DEFINE key == call[c].run.key
           i == call[c].id
<1>1. Holds(c) /\ i \in DOMAIN runs /\ call[c].run \in Records
  BY DEF SetBaseline, At, Holds, Holding, TInv, CallTypes
<1>2. CASE PutBaseline(c, key)
  <2>1. UNCHANGED <<runs, files, reports, going, faults, drafts>> /\ Witnessed
        /\ Goes(c, To(c, "confirm"))
    BY <1>2 DEF PutBaseline
  <2>2. Moves(c)
    <3>1. LET next == To(c, "confirm")
          IN  /\ DOMAIN next = Fields /\ next.pc = "confirm" /\ next.id = call[c].id
              /\ next.run = call[c].run
      BY ToFields
    <3>2. call'[c] = To(c, "confirm") /\ DOMAIN call' = Callers /\ DOMAIN call'[c] = Fields
          /\ \A d \in Callers \ {c} : call'[d] = call[d]
      BY <2>1, <3>1, GoesOn
    <3> QED BY <1>1, <3>1, <3>2 DEF Moves, Move
  <2>3. /\ DOMAIN baselines' = DOMAIN baselines \cup {key}
        /\ \A k \in DOMAIN baselines' :
             baselines'[k] = IF k = key THEN i ELSE baselines[k]
    BY <1>2 DEF PutBaseline, Put
  <2>4. early' = IF call[c].run.status = "running" THEN early \cup {<<key, i>>}
                 ELSE early \ {<<key, i>>}
    BY <1>2 DEF PutBaseline
  <2>5. key \in Keys
    BY <1>1 DEF Records
  <2>6. BaselinesStep
    BY <1>1, <2>3, <2>4 DEF BaselinesStep
  <2>7. HistoryStep
    BY <1>1, <2>1, <2>4 DEF HistoryStep, TInv, Types
  <2>8. RowsStep /\ FilesStep
    BY <2>1 DEF RowsStep, FilesStep
  <2>9. Types'
    BY <1>1, <2>1, <2>3, <2>4, <2>5 DEF TInv, Types
  <2> QED BY <2>1, <2>2, <2>6, <2>7, <2>8, <2>9 DEF TableSteps
<1>3. CASE Fault(c, Free)
  BY <1>3, FaultIsQuiet, QuietTables, EndMoves, CallFields
<1> QED BY <1>2, <1>3 DEF SetBaseline

\* What GetBaseline finds then is returned.
LEMMA ConfirmMoves ==
    ASSUME TInv, NEW c \in Callers, Confirm(c)
    PROVE  Quiet /\ Moves(c) /\ Witnessed
<1>1. CASE Goes(c, [To(c, "done") EXCEPT !.answer = baselines[call[c].run.key]])
           /\ UNCHANGED tables /\ Keep
  <2> DEFINE next == [To(c, "done") EXCEPT !.answer = baselines[call[c].run.key]]
  <2>1. DOMAIN next = Fields /\ next.pc = "done"
    BY ToFields
  <2> HIDE DEF next
  <2> QED BY <1>1, <2>1, EndMoves, KeepIsQuiet DEF next
<1>2. CASE Fault(c, Free)
  BY <1>2, FaultIsQuiet, EndMoves, CallFields
<1> QED BY <1>1, <1>2 DEF Confirm

\* A comparison answers.
LEMMA GetOtherMoves ==
    ASSUME TInv, NEW c \in Callers, GetOther(c)
    PROVE  Quiet /\ Moves(c) /\ Witnessed
<1> DEFINE a == verdict(call[c].run.results, runs[call[c].other].results)
           next == [To(c, "done") EXCEPT !.answer = a]
<1>1. CASE Goes(c, next) /\ UNCHANGED tables /\ Keep
  <2> HIDE DEF a
  <2>1. DOMAIN next = Fields /\ next.pc = "done"
    BY ToFields
  <2> HIDE DEF next
  <2> QED BY <1>1, <2>1, EndMoves, KeepIsQuiet
<1>2. CASE Goes(c, Free) /\ UNCHANGED tables /\ Keep
  BY <1>2, KeepIsQuiet, EndMoves, CallFields
<1>3. CASE Fault(c, Free)
  BY <1>3, FaultIsQuiet, EndMoves, CallFields
<1> QED BY <1>1, <1>2, <1>3 DEF GetOther

\* A profile's history is exported.
LEMMA ExportLastMoves ==
    ASSUME TInv, NEW c \in Callers, ExportLast(c)
    PROVE  Quiet /\ Moves(c) /\ Witnessed
<1>1. CASE UNCHANGED tables /\ Keep /\ \E a : Goes(c, [To(c, "done") EXCEPT !.answer = a])
  <2>1. PICK a : Goes(c, [To(c, "done") EXCEPT !.answer = a])
    BY <1>1
  <2> DEFINE next == [To(c, "done") EXCEPT !.answer = a]
  <2>2. DOMAIN next = Fields /\ next.pc = "done"
    BY ToFields
  <2> HIDE DEF next
  <2> QED BY <1>1, <2>1, <2>2, EndMoves, KeepIsQuiet DEF next
<1>2. CASE Fault(c, Free)
  BY <1>2, FaultIsQuiet, EndMoves, CallFields
<1> QED BY <1>1, <1>2 DEF ExportLast

\* The caller is done with the answer.
LEMMA FinishMoves ==
    ASSUME TInv, NEW c \in Callers, Finish(c)
    PROVE  Quiet /\ Moves(c) /\ Witnessed
BY KeepIsQuiet, EndMoves, CallFields DEF Finish

\* The record that was read is written to a file.
LEMMA ExportMoves ==
    ASSUME TInv, NEW c \in Callers, Export(c)
    PROVE  TableSteps /\ Moves(c) /\ Witnessed
<1> DEFINE i == call[c].id
<1>1. Holds(c) /\ i \in DOMAIN runs /\ call[c].run \in Records
  BY DEF Export, At, Holds, Holding, TInv, CallTypes
<1>2. UNCHANGED <<runs, baselines, reports, going, faults, early>> /\ Witnessed /\ Goes(c, Free)
      /\ drafts' = (IF call[c].run.status = "running" THEN drafts \cup {i} ELSE drafts)
  BY DEF Export
<1>3. /\ DOMAIN files' = DOMAIN files \cup {i}
      /\ files' = [j \in DOMAIN files' |-> IF j = i THEN call[c].run ELSE files[j]]
  BY DEF Export, Put
<1>4. FilesStep
  BY <1>1, <1>2, <1>3 DEF FilesStep
<1>5. RowsStep /\ BaselinesStep /\ HistoryStep
  BY <1>2 DEF RowsStep, BaselinesStep, HistoryStep, TInv, Types
<1>6. files' \in [DOMAIN files' -> Records]
  BY <1>1, <1>3 DEF TInv, Types
<1>7. Types'
  BY <1>1, <1>2, <1>3, <1>6 DEF TInv, Types
<1> QED BY <1>2, <1>4, <1>5, <1>7, EndMoves, CallFields DEF TableSteps

\* A report is written under the ID of its run.
LEMMA WriteReportMoves ==
    ASSUME TInv, NEW c \in Callers, WriteReport(c)
    PROVE  TableSteps /\ Moves(c) /\ Witnessed
<1>1. call[c].id \in DOMAIN runs
  BY DEF WriteReport, At, Holds, Holding, TInv, CallTypes
<1>2. UNCHANGED <<runs, baselines, files, going, faults, early, drafts>> /\ Witnessed /\ Goes(c, Free)
      /\ DOMAIN reports' = DOMAIN reports \cup {call[c].id}
  BY DEF WriteReport, Keep, Put
<1>3. RowsStep /\ FilesStep /\ BaselinesStep /\ HistoryStep
  BY <1>2 DEF RowsStep, FilesStep, BaselinesStep, HistoryStep, TInv, Types
<1>4. Types'
  BY <1>1, <1>2 DEF TInv, Types
<1> QED BY <1>2, <1>3, <1>4, EndMoves, CallFields DEF TableSteps

\* A row that was not there: of a run, a placeholder, or of a CSV file.
LEMMA NewRow ==
    ASSUME TInv, NEW i \in RunIds \ DOMAIN runs, NEW rec \in Records, runs' = Put(runs, i, rec),
           UNCHANGED <<baselines, files, reports, early, drafts, faults>>,
           \/ going' = going
           \/ going' = going \cup {i} /\ rec.status = "running" /\ rec.results = NoResults
    PROVE  TableSteps
<1>1. /\ DOMAIN runs' = DOMAIN runs \cup {i}
      /\ runs' = [j \in DOMAIN runs' |-> IF j = i THEN rec ELSE runs[j]]
  BY DEF Put
<1>2. runs' \in [DOMAIN runs' -> Records]
  BY <1>1 DEF TInv, Types
<1>3. IsFiniteSet(DOMAIN runs')
  BY <1>1, FS_AddElement DEF TInv, Types
<1>4. RowsStep
  BY <1>1 DEF RowsStep, TInv, Types
<1>5. FilesStep /\ BaselinesStep /\ HistoryStep
  BY DEF FilesStep, BaselinesStep, HistoryStep, TInv, Types
<1>6. Types'
  BY <1>1, <1>2, <1>3 DEF TInv, Types
<1> QED BY <1>4, <1>5, <1>6 DEF TableSteps

\* The number of rows stands for the time.
LEMMA TimeIsNat == TInv => Cardinality(DOMAIN runs) \in Nat
BY FS_CardinalityType DEF TInv, Types

\* So is the second in which a run began.
LEMMA StartIsNat == TInv => StartedAt \subseteq Nat
<1> SUFFICES ASSUME TInv, NEW i \in DOMAIN runs PROVE runs[i].at \in Nat
  BY TimeIsNat DEF StartedAt
<1>1. runs[i] \in Records
  BY DEF TInv, Types
<1> QED BY <1>1 DEF Records

\* A run is done and its row is there; it may be checked next.
LEMMA RunMoves ==
    ASSUME TInv, NEW c \in Callers, Run(c)
    PROVE  TableSteps /\ Moves(c) /\ Witnessed
<1>1. PICK i \in RunIds \ DOMAIN runs, key \in Profiles \X Targets, results \in Results,
           passed \in BOOLEAN, checkBaseline \in BOOLEAN, at \in StartedAt :
         LET run == [key |-> key, status |-> "completed", results |-> results,
                     passed |-> passed, at |-> at]
         IN  /\ runs' = Put(runs, i, run)
             /\ Goes(c, IF checkBaseline
                        THEN [Free EXCEPT !.pc = "baseline", !.op = "check", !.id = i, !.run = run]
                        ELSE Free)
  BY DEF Run
<1> DEFINE run == [key |-> key, status |-> "completed", results |-> results,
                   passed |-> passed, at |-> at]
           next == [Free EXCEPT !.pc = "baseline", !.op = "check", !.id = i, !.run = run]
<1>2. run \in Records
  BY StartIsNat DEF Records, Keys
<1>3. runs' = Put(runs, i, run) /\ Goes(c, IF checkBaseline THEN next ELSE Free)
  BY <1>1
<1> HIDE DEF run
<1>4. UNCHANGED <<baselines, files, reports, going, faults, early, drafts>> /\ Witnessed
  BY DEF Run
<1>5. TableSteps
  BY <1>2, <1>3, <1>4, NewRow
<1>6. CASE checkBaseline
  <2>1. /\ DOMAIN next = Fields /\ next.pc = "baseline" /\ next.op = "check" /\ next.id = i
        /\ next.run = run /\ next.base = None
    BY CallFields
  <2>2. i \in DOMAIN runs' /\ runs'[i] = run
    BY <1>3 DEF Put
  <2> HIDE DEF next
  <2>3. call'[c] = next /\ DOMAIN call' = Callers /\ DOMAIN call'[c] = Fields
        /\ \A d \in Callers \ {c} : call'[d] = call[d]
    BY <1>3, <1>6, <2>1, GoesOn
  <2>4. ReadMove(c)
    BY <2>1, <2>2, <2>3 DEF ReadMove, InRow
  <2> QED BY <1>4, <1>5, <2>3, <2>4 DEF Moves, Move
<1>7. CASE ~ checkBaseline
  BY <1>3, <1>4, <1>5, <1>7, EndMoves, CallFields
<1> QED BY <1>6, <1>7

\* A placeholder is there, and a goroutine runs.
LEMMA StartAsyncRunMoves ==
    ASSUME TInv, NEW c \in Callers, StartAsyncRun(c)
    PROVE  TableSteps /\ UNCHANGED call /\ Witnessed
<1>1. PICK i \in RunIds \ DOMAIN runs, p \in Profiles :
         /\ runs' = Put(runs, i, [key |-> <<p, "_default">>, status |-> "running",
                                  results |-> NoResults, passed |-> TRUE,
                                  at |-> Cardinality(DOMAIN runs)])
         /\ going' = going \cup {i}
  BY DEF StartAsyncRun
<1> DEFINE run == [key |-> <<p, "_default">>, status |-> "running",
                   results |-> NoResults, passed |-> TRUE, at |-> Cardinality(DOMAIN runs)]
<1>2. run \in Records /\ run.status = "running" /\ run.results = NoResults
  BY TimeIsNat DEF Records, Keys
<1>3. runs' = Put(runs, i, run)
  BY <1>1
<1> HIDE DEF run
<1>4. UNCHANGED <<baselines, files, reports, call, faults, early, drafts>> /\ Witnessed
  BY DEF StartAsyncRun
<1> QED BY <1>1, <1>2, <1>3, <1>4, NewRow

\* A goroutine saves its result, or that it failed.
LEMMA SettleMoves ==
    ASSUME TInv, NEW i \in RunIds, Settle(i)
    PROVE  TableSteps /\ UNCHANGED call /\ Witnessed
<1>1. i \in going /\ going' = going \ {i} /\ i \in DOMAIN runs /\ runs[i] \in Records
  BY DEF Settle, TInv, Types
<1>2. UNCHANGED <<baselines, files, reports, call, faults, early, drafts>> /\ Witnessed
  BY DEF Settle, Keep
<1>3. DOMAIN runs' = DOMAIN runs /\ \A j \in DOMAIN runs \ {i} : runs'[j] = runs[j]
  BY <1>1 DEF Settle
<1>4. runs'[i] \in Records /\ runs'[i].status # "running"
  <2>1. ASSUME NEW target \in Targets, NEW results \in Results,
               runs' = [runs EXCEPT ![i] = [@ EXCEPT !.key = <<runs[i].key[1], target>>,
                                                     !.status = "completed", !.results = results]]
        PROVE  runs'[i] \in Records /\ runs'[i].status # "running"
    BY <1>1, <2>1 DEF Records, Keys
  <2>2. ASSUME runs' = [runs EXCEPT ![i] = [@ EXCEPT !.status = "failed"]]
        PROVE  runs'[i] \in Records /\ runs'[i].status # "running"
    BY <1>1, <2>2 DEF Records
  <2> QED BY <2>1, <2>2 DEF Settle
<1>8. runs' \in [DOMAIN runs' -> Records]
  <2>1. runs' = [j \in DOMAIN runs' |-> runs'[j]]
    BY DEF Settle, TInv, Types
  <2> QED BY <1>3, <1>4, <2>1 DEF TInv, Types
<1>5. RowsStep
  BY <1>1, <1>3, <1>4 DEF RowsStep
<1>6. FilesStep /\ BaselinesStep /\ HistoryStep
  BY <1>2 DEF FilesStep, BaselinesStep, HistoryStep, TInv, Types
<1>7. Types'
  BY <1>1, <1>2, <1>3, <1>8 DEF TInv, Types
<1> QED BY <1>2, <1>5, <1>6, <1>7 DEF TableSteps

\* A row of a CSV file has a place among the records.
LEMMA RowOfFile ==
    ASSUME TInv, NEW p \in Profiles, NEW results \in Results
    PROVE  rowToRun(p, results) \in Records
BY TimeIsNat DEF rowToRun, Records, Keys

\* The runs of a file replace or extend the rows.
LEMMA ImportMoves ==
    ASSUME TInv, NEW c \in Callers, Import(c)
    PROVE  TableSteps /\ Moves(c) /\ Witnessed
<1> DEFINE i == call[c].id
<1>1. i \in RunIds /\ call[c].pc = "import"
  BY DEF Import, At, TInv, CallTypes
<1>2. CASE i \in DOMAIN files /\ ParseJSON(c)
  <2>1. runs' = Put(runs, i, files[i]) /\ Goes(c, Free) /\ Witnessed
        /\ UNCHANGED <<baselines, files, reports, going, faults, early, drafts>>
    BY <1>2 DEF ParseJSON, Keep
  <2>2. DOMAIN runs' = DOMAIN runs /\ runs' \in [DOMAIN runs' -> Records]
        /\ runs'[i] = files[i] /\ \A j \in DOMAIN runs \ {i} : runs'[j] = runs[j]
    BY <1>2, <2>1 DEF Put, TInv, Types
  <2>3. RowsStep
    BY <1>2, <2>1, <2>2 DEF RowsStep
  <2>4. FilesStep /\ BaselinesStep /\ HistoryStep
    BY <2>1 DEF FilesStep, BaselinesStep, HistoryStep, TInv, Types
  <2>5. Types'
    BY <2>1, <2>2 DEF TInv, Types
  <2> QED BY <2>1, <2>3, <2>4, <2>5, EndMoves, CallFields DEF TableSteps
<1>3. ASSUME i \notin DOMAIN runs,
             \E p \in Profiles, results \in Results : runs' = Put(runs, i, rowToRun(p, results)),
             UNCHANGED <<baselines, files, reports, going>>, Keep
      PROVE  TableSteps /\ Witnessed
  <2>1. PICK p \in Profiles, results \in Results : runs' = Put(runs, i, rowToRun(p, results))
    BY <1>3
  <2>2. rowToRun(p, results) \in Records
    BY RowOfFile
  <2>3. UNCHANGED <<faults, early, drafts>> /\ Witnessed
    BY <1>3 DEF Keep
  <2> QED BY <1>1, <1>3, <2>1, <2>2, <2>3, NewRow
<1>4. CASE i \notin DOMAIN files \cup DOMAIN runs /\ parseSBKFile(c)
  BY <1>3, <1>4, KeepIsQuiet, QuietTables, EndMoves, CallFields DEF parseSBKFile
<1>5. CASE i \notin DOMAIN files \cup DOMAIN runs /\ ParseCSV(c)
  <2>1. TableSteps /\ Witnessed
    BY <1>3, <1>5 DEF ParseCSV
  <2>2. PICK j \in RunIds : Goes(c, [call[c] EXCEPT !.id = j])
    BY <1>5 DEF ParseCSV
  <2> DEFINE next == [call[c] EXCEPT !.id = j]
  <2>3. DOMAIN next = Fields /\ next.pc = "import" /\ next.id = j
    BY <1>1, ToFields
  <2> HIDE DEF next
  <2>4. Moves(c)
    BY <2>2, <2>3, GoesOn DEF next, Moves, Move
  <2> QED BY <2>1, <2>4
<1>6. CASE Goes(c, Free) /\ UNCHANGED tables /\ Keep
  BY <1>6, KeepIsQuiet, QuietTables, EndMoves, CallFields
<1>7. CASE Fault(c, Free)
  BY <1>7, FaultIsQuiet, QuietTables, EndMoves, CallFields
<1> QED BY <1>2, <1>4, <1>5, <1>6, <1>7 DEF Import

-----------------------------------------------------------------------------
(* Every step, from the groups above.                                      *)

AllMove == DOMAIN call' = Callers /\ \A d \in Callers : DOMAIN call'[d] = Fields /\ Move(d)

\* One caller goes on, the others stay where they are.
LEMMA OneMoves ==
    ASSUME TInv, NEW c \in Callers, Moves(c)
    PROVE  AllMove
BY DEF TInv, CallTypes, Moves, AllMove, Move

\* A step of one caller.
LEMMA StepMoves ==
    ASSUME LInv, NEW c \in Callers, Step(c)
    PROVE  TableSteps /\ Witnessed /\ (Moves(c) \/ UNCHANGED call)
<1>1. CASE StartAsyncRun(c)
  BY <1>1, StartAsyncRunMoves DEF LInv
<1>2. CASE Begin(c) \/ Get(c) \/ CheckStep(c) \/ Confirm(c) \/ GetOther(c) \/ ExportLast(c) \/ Finish(c)
  <2>1. Quiet /\ Moves(c) /\ Witnessed
    BY <1>2, BeginMoves, GetMoves, GetBaselineMoves, GetReferenceMoves, ListSinceMoves,
       ConfirmMoves, GetOtherMoves, ExportLastMoves, FinishMoves DEF CheckStep, LInv
  <2> QED BY <2>1, QuietTables DEF LInv
<1>3. CASE Run(c) \/ SetBaseline(c) \/ Export(c) \/ Import(c) \/ WriteReport(c)
  BY <1>3, RunMoves, SetBaselineMoves, ExportMoves, ImportMoves, WriteReportMoves DEF LInv
<1> QED BY <1>1, <1>2, <1>3 DEF Step

\* A step of the specification is one of those.
LEMMA NextMoves ==
    ASSUME LInv, [Next]_vars
    PROVE  TableSteps /\ AllMove /\ (Witnessed \/ UNCHANGED vars)
<1>1. ASSUME NEW c \in Callers, Step(c)
      PROVE  TableSteps /\ AllMove /\ Witnessed
  <2>1. ASSUME UNCHANGED call PROVE AllMove
    BY <2>1 DEF LInv, TInv, CallTypes, AllMove, Move
  <2>2. AllMove
    BY <1>1, <2>1, StepMoves, OneMoves DEF LInv
  <2> QED BY <1>1, <2>2, StepMoves
<1>2. ASSUME NEW i \in RunIds, Settle(i)
      PROVE  TableSteps /\ AllMove /\ Witnessed
  <2>1. AllMove
    BY <1>2, SettleMoves DEF LInv, TInv, CallTypes, AllMove, Move
  <2> QED BY <1>2, <2>1, SettleMoves DEF LInv
<1>3. CASE UNCHANGED vars
  <2>1. Quiet
    BY <1>3 DEF vars, tables, history, Quiet, LInv, TInv, Types
  <2>2. AllMove
    BY <1>3 DEF vars, LInv, TInv, CallTypes, AllMove, Move
  <2> QED BY <1>3, <2>1, <2>2, QuietTables DEF LInv
<1> QED BY <1>1, <1>2, <1>3 DEF Next

\* What a check sees of a step.
LEMMA Seeing ==
    ASSUME Witnessed, NEW c \in Callers
    PROVE  /\ \A t \in sawRuns'[c] : t \in sawRuns[c] \/ t = runs'
           /\ call'[c].op # "plain" /\ call'[c].pc \in {"baseline", "reference", "rolling", "answered"} =>
                /\ call[c].pc = "answered" =>
                     sawRuns'[c] = sawRuns[c] /\ sawBase'[c] = sawBase[c]
                /\ call[c].pc # "answered" =>
                     /\ runs' \in sawRuns'[c] /\ sawBase[c] \subseteq sawBase'[c]
                     /\ BaselineOf(baselines', call'[c].run.key) \in sawBase'[c]
BY DEF Witnessed, Sees, Watching

\* The calls keep their types and their copies.
LEMMA CallsMove ==
    ASSUME LInv, TableSteps, AllMove, Witnessed \/ UNCHANGED vars
    PROVE  Effect /\ CallTypes'
<1>1. ASSUME NEW c \in Callers
      PROVE  /\ Holds(c)' =>
                  \/ Holds(c) /\ call'[c].run = call[c].run /\ call'[c].id = call[c].id
                  \/ InRow(call[c].id, call[c].run)'
             /\ call'[c].pc \in {"get", "import"} => call'[c].id \in RunIds
  <2>1. CASE call'[c] = call[c]
    BY <2>1 DEF Holds, LInv, TInv, CallTypes
  <2>2. CASE call'[c].pc \in {"idle", "done", "last"}
    BY <2>2 DEF Holds, Holding
  <2>3. CASE call'[c].pc \in {"get", "import"} /\ call'[c].id \in RunIds
    BY <2>3 DEF Holds, Holding
  <2>4. CASE ReadMove(c)
    BY <2>4 DEF ReadMove
  <2>5. CASE /\ call'[c].pc = "confirm" /\ Holds(c)
             /\ call'[c].run = call[c].run /\ call'[c].id = call[c].id
    BY <2>5
  <2>6. CASE CheckMove(c)
    BY <2>6 DEF CheckMove
  <2> QED BY <2>1, <2>2, <2>3, <2>4, <2>5, <2>6 DEF AllMove, Move
<1>2. \A c \in Callers : \A t \in sawRuns'[c] : t \in sawRuns[c] \/ t = runs'
  BY Seeing DEF vars, history
<1>3. CallsStep
  BY <1>1, <1>2 DEF CallsStep
<1>4. CallTypes'
  <2> SUFFICES ASSUME NEW c \in Callers
               PROVE  /\ Holds(c)' => call'[c].run \in Records /\ call'[c].id \in DOMAIN runs'
                      /\ \A t \in sawRuns'[c] : t \in [DOMAIN t -> Records] /\ DOMAIN t \subseteq DOMAIN runs'
    BY <1>1 DEF CallTypes, AllMove
  <2>1. DOMAIN runs \subseteq DOMAIN runs' /\ runs' \in [DOMAIN runs' -> Records]
    BY DEF TableSteps, RowsStep, Types
  <2>2. Holds(c)' => call'[c].run \in Records /\ call'[c].id \in DOMAIN runs'
    BY <1>1, <2>1 DEF LInv, TInv, CallTypes, InRow
  <2>3. ASSUME NEW t \in sawRuns'[c]
        PROVE  t \in [DOMAIN t -> Records] /\ DOMAIN t \subseteq DOMAIN runs'
    BY <1>2, <2>1 DEF LInv, TInv, CallTypes
  <2> QED BY <2>2, <2>3
<1> QED BY <1>3, <1>4 DEF Effect, TableSteps

-----------------------------------------------------------------------------
(* What the pure parts answer.                                             *)

Measured == [iops : Nat, p50 : Nat, p99 : Nat]

\* The results of a record are numbers.
LEMMA ResultsMeasured == \A x \in Records : x.results \in Measured
BY ServiceAssumption DEF Records, NoResults, Measured

\* A non-empty set of numbers has a least one.
LEMMA MinExists ==
    ASSUME NEW T \in SUBSET Nat, T # {}
    PROVE  Min(T) \in T /\ \A y \in T : Min(T) <= y
<1>1. PICK x \in T : \A y \in T : ~ (<<y, x>> \in OpToRel(<, Nat))
  BY NatLessThanWellFounded, WFMin
<1>2. ASSUME NEW y \in T PROVE x <= y
  <2>1. x \in Nat /\ y \in Nat
    OBVIOUS
  <2>2. ~ (y < x)
    BY <1>1, <2>1 DEF OpToRel
  <2> QED BY <2>1, <2>2
<1> QED BY <1>2 DEF Min

\* A non-empty finite set of numbers has a greatest one: a smallest subset
\* without one would have one after all.
LEMMA MaxExists ==
    ASSUME NEW S \in SUBSET Nat, IsFiniteSet(S), S # {}
    PROVE  Max(S) \in S /\ \A y \in S : Max(S) >= y
<1> DEFINE Bad == {U \in SUBSET S : U # {} /\ \A x \in U : \E y \in U : ~(x >= y)}
<1>1. Bad = {}
  <2> SUFFICES ASSUME Bad # {} PROVE FALSE
    OBVIOUS
  <2>1. Bad \subseteq FiniteSubsetsOf(S)
    BY FS_FiniteSubsetsOfFinite
  <2>2. PICK U \in Bad : \A V \in Bad : ~ (<<V, U>> \in StrictSubsetOrdering(S))
    BY <2>1, FS_StrictSubsetOrderingWellFounded, WFMin
  <2>3. PICK u \in U : TRUE
    OBVIOUS
  <2>4. U \ {u} \notin Bad
    BY <2>2, <2>3 DEF StrictSubsetOrdering
  <2>5. CASE U \ {u} = {}
    BY <2>5, <2>3
  <2>6. CASE U \ {u} # {}
    <3>1. PICK m \in U \ {u} : \A y \in U \ {u} : m >= y
      BY <2>4, <2>6
    <3>2. CASE m >= u
      BY <3>1, <3>2
    <3>3. CASE ~ (m >= u)
      BY <3>1, <3>3
    <3> QED BY <3>2, <3>3
  <2> QED BY <2>5, <2>6
<1>2. \E x \in S : \A y \in S : x >= y
  BY <1>1
<1> QED BY <1>2 DEF Max

\* The two alerts.
LEMMA CheckMeans ==
    ASSUME NEW a, NEW current, NEW reference
    PROVE  a \in Check(current, reference) <=>
             \/ /\ a = "iops" /\ reference.iops > 0 /\ current.iops > 0
                /\ current.iops * 100 + 10 * reference.iops < reference.iops * 100
             \/ /\ a = "latency_p99" /\ reference.p99 > 0 /\ current.p99 > 0
                /\ current.p99 * 100 > 115 * reference.p99
BY DEF Check, Alerts

\* A result does not regress against itself, or against none.
LEMMA KinNeverAlerts ==
    ASSUME NEW x \in Records, NEW y \in Records, Kin(x, y)
    PROVE  Check(x.results, y.results) = {}
<1> DEFINE r == x.results
           s == y.results
<1>1. r \in Measured /\ s \in Measured
  BY ResultsMeasured
<1>2. r = s \/ r = NoResults \/ s = NoResults
  BY DEF Kin
<1> HIDE DEF r, s
<1>3. ASSUME NEW a, a \in Check(r, s) PROVE FALSE
  <2>1. \/ s.iops > 0 /\ r.iops > 0 /\ r.iops * 100 + 10 * s.iops < s.iops * 100
        \/ s.p99 > 0 /\ r.p99 > 0 /\ r.p99 * 100 > 115 * s.p99
    BY <1>3, CheckMeans
  <2>2. r.iops \in Nat /\ r.p99 \in Nat /\ s.iops \in Nat /\ s.p99 \in Nat
    BY <1>1 DEF Measured
  <2>3. CASE r = s
    BY <2>1, <2>2, <2>3
  <2>4. CASE r = NoResults \/ s = NoResults
    BY <2>1, <2>4 DEF NoResults
  <2> QED BY <1>2, <2>3, <2>4
<1> QED BY <1>3 DEF r, s

\* Behind the rolling reference is a run of the same profile and target, for
\* each alert one: the reference takes its best numbers from them.
LEMMA RollingWitness ==
    ASSUME NEW table, table \in [DOMAIN table -> Records], IsFiniteSet(DOMAIN table),
           NEW run \in Records, NEW id, NEW alerts \in Rolling(table, run, id), NEW a \in alerts
    PROVE  \E i \in DOMAIN table : /\ i # id /\ table[i].key = run.key
                                   /\ a \in Check(run.results, table[i].results)
<1>1. PICK rows \in Newest(Recent(table), HistoryLimit) :
        alerts = Check(run.results, ReferenceFromHistory(table, Comparable(table, rows, run, id)))
  BY DEF Rolling
<1> DEFINE ids == Comparable(table, rows, run, id)
           reference == ReferenceFromHistory(table, ids)
           iops == [i \in ids |-> table[i].results.iops]
           best == {0} \cup {table[i].results.iops : i \in ids}
           latencies == {table[i].results.p99 : i \in ids} \ {0}
<1>2. ids \subseteq DOMAIN table /\ \A i \in ids : i # id /\ table[i].key = run.key
  BY DEF Comparable, Newest, Recent, RestrictDomain, Restrict
<1>3. \A i \in ids : table[i].results \in Measured
  BY <1>2, ResultsMeasured
<1>4. reference.iops = Max(best) /\ reference.p99 = IF latencies = {} THEN 0 ELSE Min(latencies)
  BY DEF ReferenceFromHistory
<1> HIDE DEF ids, reference
<1>5. run.results \in Measured
  BY ResultsMeasured
<1>6. a \in Check(run.results, reference)
  BY <1>1 DEF ids, reference
<1>7. CASE a = "iops"
  <2>1. IsFiniteSet(ids)
    BY <1>2, FS_Subset
  <2>2. iops \in Surjection(ids, {table[i].results.iops : i \in ids})
    BY DEF Surjection
  <2>3. IsFiniteSet(best)
    BY <2>1, <2>2, FS_Surjection, FS_Singleton, FS_Union
  <2>4. best \in SUBSET Nat
    BY <1>3 DEF Measured
  <2>5. Max(best) \in best
    BY <2>3, <2>4, MaxExists
  <2>6. reference.iops > 0
    BY <1>6, <1>7, CheckMeans
  <2>9. reference.iops \in best
    <3> HIDE DEF best
    <3> QED BY <1>4, <2>5
  <2>7. PICK i \in ids : reference.iops = table[i].results.iops
    BY <2>6, <2>9
  <2>8. a \in Check(run.results, table[i].results)
    BY <1>6, <1>7, <2>7, CheckMeans
  <2> QED BY <1>2, <2>7, <2>8
<1>8. CASE a = "latency_p99"
  <2>1. reference.p99 > 0
    BY <1>6, <1>8, CheckMeans
  <2>2. latencies # {}
    <3> HIDE DEF latencies
    <3> QED BY <1>4, <2>1
  <2>3. latencies \in SUBSET Nat
    BY <1>3 DEF Measured
  <2>4. Min(latencies) \in latencies
    BY <2>2, <2>3, MinExists
  <2>5. PICK i \in ids : reference.p99 = table[i].results.p99
    BY <1>4, <2>2, <2>4
  <2>6. a \in Check(run.results, table[i].results)
    BY <1>6, <1>8, <2>5, CheckMeans
  <2> QED BY <1>2, <2>5, <2>6
<1> QED BY <1>6, <1>7, <1>8, CheckMeans

\* Ten per cent fewer IOPS, or fifteen more of the p99, is a regression for a
\* comparison, too.
LEMMA AlertsRegress ==
    ASSUME NEW current \in Measured, NEW reference \in Measured, Check(current, reference) # {}
    PROVE  verdict(reference, current) = "regressed"
<1>1. PICK a : a \in Check(current, reference)
  OBVIOUS
<1>2. \/ reference.iops > 0 /\ current.iops * 100 + 10 * reference.iops < reference.iops * 100
      \/ reference.p99 > 0 /\ current.p99 * 100 > 115 * reference.p99
  BY <1>1, CheckMeans
<1>3. /\ reference.iops \in Nat /\ reference.p99 \in Nat
      /\ current.iops \in Nat /\ current.p99 \in Nat
  BY DEF Measured
<1>4. Regressed(reference, current)
  BY <1>2, <1>3 DEF Regressed
<1> QED BY <1>4 DEF verdict

-----------------------------------------------------------------------------
(* The checks.                                                             *)

\* A check on its way keeps what it is based on.
LEMMA OnTheWayStep ==
    ASSUME LInv, Effect, AllMove, Witnessed \/ UNCHANGED vars, NEW c \in Callers
    PROVE  OnTheWay(c)'
<1> DEFINE b == BaselineOf(baselines, call[c].run.key)
<1>1. faults <= faults' /\ faults \in Nat
  BY DEF Effect, HistoryStep, LInv, TInv, Types
<1>2. OnTheWay(c)
  BY DEF LInv
<1>3. CASE UNCHANGED vars
  <2>1. UNCHANGED <<call, sawBase, faults, runs, early, drafts, going>>
    BY <1>3 DEF vars, tables, history
  <2> QED BY <1>2, <2>1 DEF OnTheWay, Points, Untargeted
<1>4. CASE Witnessed /\ call'[c] = call[c]
  <2>1. call[c].pc \in {"reference", "rolling"} => sawBase[c] \subseteq sawBase'[c]
    BY <1>2, <1>4, Seeing DEF OnTheWay
  <2>2. Points(call[c].run.key, call[c].base) => Points(call[c].run.key, call[c].base)'
    <3>1. \A key, i : Points(key, i) =>
            /\ i \in DOMAIN runs' /\ (runs'[i].key = key \/ <<key, i>> \in early' \/ i \in drafts')
            /\ i \in going' => <<key, i>> \in early'
      BY PointsStep DEF Points, Untargeted, LInv
    <3> QED BY <1>4, <3>1 DEF Points, Untargeted
  <2>3. faults' = 0 => faults = 0
    BY <1>1 DEF LInv
  <2> QED BY <1>2, <1>4, <2>1, <2>2, <2>3 DEF OnTheWay
<1>5. CASE Witnessed /\ ReadMove(c)
  BY <1>5 DEF ReadMove, OnTheWay
<1>6. CASE Witnessed /\ CheckMove(c)
  <2>1. UNCHANGED <<runs, baselines, early, drafts, going>>
    BY <1>6 DEF CheckMove, tables
  <2>2. CASE call[c].pc = "baseline"
    <3>1. b \in sawBase'[c] \/ call'[c].pc \notin {"rolling", "reference"}
      BY <1>2, <1>6, <2>1, <2>2, Seeing DEF CheckMove, OnTheWay
    <3>2. b # None => Points(call[c].run.key, b)
      BY DEF BaselineOf, LInv, TInv, BaselinesPoint
    <3>4. CASE call'[c].pc = "rolling" /\ call'[c].base = None /\ (faults' = faults => b = None)
      BY <1>1, <1>2, <1>6, <2>2, <3>1, <3>4 DEF CheckMove, OnTheWay
    <3>5. CASE call'[c].pc = "reference" /\ call'[c].base = b /\ b # None
      <4>1. Points(call[c].run.key, call[c].base)'
        BY <1>6, <2>1, <3>2, <3>5 DEF CheckMove, Points, Untargeted
      <4> QED BY <1>2, <1>6, <2>2, <3>1, <3>5, <4>1 DEF CheckMove, OnTheWay
    <3> QED BY <1>6, <2>2, <3>4, <3>5 DEF CheckMove
  <2>3. CASE call[c].pc # "baseline"
    BY <1>1, <1>2, <1>6, <2>3 DEF CheckMove, OnTheWay
  <2> QED BY <2>2, <2>3
<1>7. CASE call'[c].pc \in {"idle", "done", "last", "get", "import", "confirm"}
           /\ (call'[c].pc = "get" => call'[c].base = None)
  BY <1>7 DEF OnTheWay
<1> QED BY <1>3, <1>4, <1>5, <1>6, <1>7 DEF AllMove, Move

\* A witness of an alert that was given stays one: the history forgets a key
\* only when what was seen of the run has that very key.
LEMMA JustifiedStays ==
    ASSUME LInv, Effect, NEW c \in Callers, Justified(c), Holds(c),
           call'[c] = call[c], sawRuns'[c] = sawRuns[c]
    PROVE  Justified(c)'
<1> DEFINE key == call[c].run.key
<1> SUFFICES ASSUME NEW a \in call[c].answer.alerts
             PROVE  \E t \in sawRuns[c] : \E i \in DOMAIN t :
                      /\ i # call[c].id /\ a \in Check(call[c].run.results, t[i].results)
                      /\ \/ t[i].key = key
                         \/ i = call[c].base /\ (<<key, i>> \in early' \/ i \in drafts')
  BY DEF Justified, Untargeted
<1>1. PICK t \in sawRuns[c] : \E i \in DOMAIN t :
        /\ i # call[c].id /\ a \in Check(call[c].run.results, t[i].results)
        /\ t[i].key = key \/ (i = call[c].base /\ (<<key, i>> \in early \/ i \in drafts))
  BY DEF Justified, Untargeted
<1>2. PICK i \in DOMAIN t :
        /\ i # call[c].id /\ a \in Check(call[c].run.results, t[i].results)
        /\ t[i].key = key \/ (i = call[c].base /\ (<<key, i>> \in early \/ i \in drafts))
  BY <1>1
<1>3. IsCopy(i, t[i])
  BY <1>1 DEF IsCopy, InSight
<1>4. CASE <<key, i>> \in early /\ <<key, i>> \notin early'
  <2>1. i \notin drafts => runs[i].key = key
    BY <1>4, ForgottenIsRight DEF LInv
  <2>2. t[i].status = "running" \/ i \in drafts \/ t[i].key = runs[i].key
    BY <1>3 DEF LInv, TInv, CopiesAgree, Current
  <2>3. t[i].status = "running" => t[i].key = key
    BY <1>3, <1>4 DEF LInv, TInv, CopiesAgree
  <2> QED BY <1>2, <2>1, <2>2, <2>3 DEF Effect, HistoryStep
<1>5. CASE ~(<<key, i>> \in early /\ <<key, i>> \notin early')
  BY <1>2, <1>5 DEF Effect, HistoryStep
<1> QED BY <1>4, <1>5

\* An answer against a baseline: the row of the baseline is the witness, and
\* it is not the run itself.
LEMMA ReferenceAnswers ==
    ASSUME LInv, Witnessed, NEW c \in Callers, CheckMove(c), call[c].pc = "reference",
           call'[c].pc = "answered"
    PROVE  Justified(c)' /\ Explained(c)' /\ Referred(c)'
<1> DEFINE b == call[c].base
           key == call[c].run.key
<1>1. /\ call'[c].base = b /\ call'[c].answer.reference = runs[b].results
      /\ call'[c].answer.alerts = Check(call[c].run.results, runs[b].results)
      /\ call'[c].run = call[c].run /\ call'[c].id = call[c].id /\ call'[c].op = call[c].op
      /\ Holds(c) /\ UNCHANGED <<runs, early, drafts>>
  BY DEF CheckMove, tables
<1>2. b # None /\ b \in sawBase[c] /\ Points(key, b) /\ call[c].op # "plain"
  BY DEF LInv, OnTheWay
<1>3. runs \in sawRuns'[c] /\ sawBase[c] \subseteq sawBase'[c] /\ b \in DOMAIN runs
  BY <1>1, <1>2, Seeing DEF Points
<1>4. Justified(c)'
  <2> SUFFICES ASSUME NEW a \in call'[c].answer.alerts
               PROVE  /\ b # call[c].id /\ a \in Check(call[c].run.results, runs[b].results)
                      /\ runs[b].key = key \/ <<key, b>> \in early \/ b \in drafts
    BY <1>1, <1>3 DEF Justified, Untargeted
  <2>1. ASSUME b = call[c].id PROVE FALSE
    <3>1. IsCopy(b, call[c].run) /\ IsCopy(b, runs[b])
      BY <1>1, <1>3, <2>1, RowIsCopy DEF IsCopy, InCall
    <3>2. Kin(call[c].run, runs[b]) /\ call[c].run \in Records /\ runs[b] \in Records
      BY <3>1, CopyHasRow DEF LInv, TInv, CopiesAgree
    <3>3. Check(call[c].run.results, runs[b].results) = {}
      BY <3>2, KinNeverAlerts
    <3> QED BY <1>1, <3>3
  <2> QED BY <1>1, <1>2, <2>1 DEF Points, Untargeted
<1>5. Explained(c)'
  BY <1>1, <1>2, <1>3 DEF Explained, Explains
<1>6. runs[b].results \in Results \cup {NoResults}
  BY <1>3 DEF LInv, TInv, Types, Records
<1> QED BY <1>1, <1>4, <1>5, <1>6 DEF Referred

\* An answer from the rolling reference, or the empty one after a fault.
LEMMA RollingAnswers ==
    ASSUME LInv, Witnessed, HistoryStep, NEW c \in Callers, CheckMove(c), call[c].pc = "rolling",
           call'[c].pc = "answered"
    PROVE  Justified(c)' /\ Explained(c)' /\ Referred(c)'
<1>1. /\ call'[c].base = call[c].base
      /\ \/ call'[c].answer.alerts \in Rolling(runs, call[c].run, call[c].id)
         \/ call'[c].answer.alerts = {} /\ faults' > faults
      /\ call'[c].run = call[c].run /\ call'[c].id = call[c].id /\ call'[c].op = call[c].op
      /\ Holds(c) /\ UNCHANGED <<runs, early, drafts>>
  BY DEF CheckMove, tables
<1>2. call[c].base = None /\ call[c].op # "plain" /\ (faults = 0 => None \in sawBase[c])
  BY DEF LInv, OnTheWay
<1>3. runs \in sawRuns'[c] /\ sawBase[c] \subseteq sawBase'[c]
  BY <1>1, <1>2, Seeing
<1>4. call[c].run \in Records /\ runs \in [DOMAIN runs -> Records] /\ IsFiniteSet(DOMAIN runs)
      /\ faults \in Nat
  BY <1>1 DEF LInv, TInv, CallTypes, Types
<1>5. CASE call'[c].answer.alerts \in Rolling(runs, call[c].run, call[c].id)
  <2>1. Justified(c)'
    <3> SUFFICES ASSUME NEW a \in call'[c].answer.alerts
                 PROVE  \E i \in DOMAIN runs :
                          /\ i # call[c].id /\ runs[i].key = call[c].run.key
                          /\ a \in Check(call[c].run.results, runs[i].results)
      BY <1>1, <1>3 DEF Justified
    <3> QED BY <1>4, <1>5, RollingWitness
  <2>2. faults' = 0 => faults = 0
    BY <1>4 DEF HistoryStep
  <2>3. Explained(c)'
    BY <1>1, <1>2, <1>3, <1>5, <2>2 DEF Explained, Explains
  <2> QED BY <1>1, <1>2, <2>1, <2>3 DEF Referred
<1>6. CASE call'[c].answer.alerts = {} /\ faults' > faults
  BY <1>1, <1>2, <1>4, <1>6 DEF Justified, Explained, Referred
<1> QED BY <1>1, <1>5, <1>6

\* Every answer stays justified, explained and referred.
LEMMA AnswersStep ==
    ASSUME IInv, Effect, AllMove, Witnessed \/ UNCHANGED vars, NEW c \in Callers, Answered(c)'
    PROVE  Justified(c)' /\ Explained(c)' /\ Referred(c)'
<1>1. faults' = 0 => faults = 0
  BY DEF IInv, LInv, TInv, Types, Effect, HistoryStep
<1>2. CASE call'[c] = call[c]
  <2>1. Answered(c) /\ Holds(c)
    BY <1>2 DEF Answered, Holds, Holding
  <2>2. sawRuns'[c] = sawRuns[c] /\ sawBase'[c] = sawBase[c]
    BY <1>2, <2>1, Seeing DEF Answered, vars, history
  <2>3. Justified(c) /\ Explained(c) /\ Referred(c)
    BY <2>1 DEF IInv
  <2>4. Justified(c)'
    BY <1>2, <2>1, <2>2, <2>3, JustifiedStays DEF IInv
  <2>5. Explained(c)'
    BY <1>1, <1>2, <2>2, <2>3 DEF Explained
  <2> QED BY <1>2, <2>3, <2>4, <2>5 DEF Referred
<1>3. CASE call'[c] # call[c]
  <2>1. CheckMove(c)
    BY <1>3 DEF AllMove, Move, ReadMove, Answered
  <2>2. Witnessed
    BY <1>3 DEF vars
  <2>3. call[c].pc \in {"reference", "rolling"} /\ call'[c].pc = "answered"
    BY <2>1 DEF CheckMove, Answered
  <2> QED BY <2>1, <2>2, <2>3, ReferenceAnswers, RollingAnswers DEF IInv, Effect
<1> QED BY <1>2, <1>3

-----------------------------------------------------------------------------
(* The invariant, and what it says.                                        *)

\* It holds of the stored runs alone.
LEMMA InitIInv == Init => IInv
<1> SUFFICES ASSUME Init PROVE IInv
  OBVIOUS
<1>1. /\ runs = Stored /\ baselines = <<>> /\ files = <<>> /\ reports = <<>> /\ going = {}
      /\ call = [c \in Callers |-> Free] /\ faults = 0 /\ early = {} /\ drafts = {}
      /\ sawBase = [c \in Callers |-> {}] /\ sawRuns = [c \in Callers |-> {}]
  BY DEF Init
<1>2. DOMAIN baselines = {} /\ DOMAIN files = {} /\ DOMAIN reports = {}
  BY <1>1
<1>3. PICK known \in SUBSET RunIds : IsFiniteSet(known) /\ Stored \in [known -> Records]
  BY ServiceAssumption
<1>4. Types
  <2>1. DOMAIN runs = known /\ runs \in [DOMAIN runs -> Records]
    BY <1>1, <1>3
  <2>2. files \in [DOMAIN files -> Records]
    BY <1>1, <1>2
  <2> QED BY <1>1, <1>2, <1>3, <2>1, <2>2 DEF Types
<1>5. \A c \in Callers : call[c].pc = "idle" /\ DOMAIN call[c] = Fields /\ sawRuns[c] = {}
  BY <1>1, CallFields
<1>6. CallTypes
  BY <1>1, <1>5 DEF CallTypes, Holds, Holding
<1>7. \A i, x : IsCopy(i, x) => i \in DOMAIN runs /\ x = runs[i]
  BY <1>2, <1>5 DEF IsCopy, InRow, InFile, InCall, InSight, Holds, Holding
<1>8. CopiesAgree
  BY <1>1, <1>2, <1>7 DEF CopiesAgree, Kin, Current
<1>9. BaselinesPoint
  BY <1>2 DEF BaselinesPoint
<1> QED BY <1>4, <1>5, <1>6, <1>8, <1>9 DEF IInv, LInv, TInv, OnTheWay, Answered

\* Every step keeps it.
LEMMA NextIInv == IInv /\ [Next]_vars => IInv'
<1> SUFFICES ASSUME IInv, [Next]_vars PROVE IInv'
  OBVIOUS
<1>1. TableSteps /\ AllMove /\ (Witnessed \/ UNCHANGED vars)
  BY NextMoves DEF IInv
<1>2. Effect /\ CallTypes'
  BY <1>1, CallsMove DEF IInv
<1>3. Types' /\ CopiesAgree' /\ BaselinesPoint'
  BY <1>1, <1>2, CopiesStep, BaselinesKept DEF TableSteps, IInv, LInv
<1>4. \A c \in Callers : OnTheWay(c)'
  BY <1>1, <1>2, OnTheWayStep DEF IInv
<1>5. \A c \in Callers : Answered(c)' => Justified(c)' /\ Explained(c)' /\ Referred(c)'
  BY <1>1, <1>2, AnswersStep
<1> QED BY <1>2, <1>3, <1>4, <1>5 DEF IInv, LInv, TInv

\* The records of a run agree wherever they are, and so do the answers with
\* what the checks saw (store, baseline and orchestrator together).
THEOREM RecordsAgree == Spec => []IInv
BY InitIInv, NextIInv, PTL DEF Spec

\* A baseline stays a stored run of its profile and target, and no report or
\* goroutine is without its row (SetBaselineFromRun, import, StartAsyncRun).
THEOREM TablesStayTrue == Spec => []TablesAgree
<1>1. IInv => TablesAgree
  BY DEF IInv, LInv, TInv, Types, BaselinesPoint, Points, TablesAgree
<1> QED BY RecordsAgree, <1>1, PTL

\* No alert without a run that was that much better (CheckRegression and
\* ReferenceFromHistory), whatever changes under the check.
THEOREM AlertsHaveWitnesses == Spec => []AlertsJustified
<1>1. IInv => AlertsJustified
  BY DEF IInv, Justified, AlertsJustified
<1> QED BY RecordsAgree, <1>1, PTL

\* Without faults an answer, also that there is no alert, is the one a check
\* of rows and a baseline that were there must give (CheckRegression).
THEOREM AnswersAreExplained == Spec => []AnswerExplained
<1>1. IInv => AnswerExplained
  BY DEF IInv, Explained, Explains, AnswerExplained
<1> QED BY RecordsAgree, <1>1, PTL

\* What baseline.Check alerts on, compare.Diff calls regressed.
THEOREM AlertsAreRegressions == Spec => []AlertMeansRegressed
<1>1. IInv => AlertMeansRegressed
  <2> SUFFICES ASSUME IInv, NEW c \in Callers, Answered(c), call[c].base # None,
                      call[c].answer.alerts # {}
               PROVE  verdict(call[c].answer.reference, call[c].run.results) = "regressed"
    BY DEF AlertMeansRegressed
  <2>1. /\ call[c].answer.reference \in Results \cup {NoResults}
        /\ call[c].answer.alerts = Check(call[c].run.results, call[c].answer.reference)
    BY DEF IInv, Referred
  <2>2. call[c].run \in Records
    BY DEF IInv, LInv, TInv, CallTypes, Answered, Holds, Holding
  <2>3. call[c].answer.reference \in Measured
    BY <2>1, ServiceAssumption DEF NoResults, Measured
  <2> QED BY <2>1, <2>2, <2>3, ResultsMeasured, AlertsRegress
<1> QED BY RecordsAgree, <1>1, PTL

-----------------------------------------------------------------------------
(* The exported history.                                                   *)

\* The newest rows: how many, and newer than the others.
LEMMA NewestMeans ==
    ASSUME NEW table, IsFiniteSet(DOMAIN table), NEW n \in Nat, NEW s \in Newest(table, n)
    PROVE  /\ s \subseteq DOMAIN table /\ IsFiniteSet(s) /\ Cardinality(s) \in Nat
           /\ Cardinality(s) <= n
           /\ \A i \in s, j \in DOMAIN table \ s : table[i].at >= table[j].at
           /\ s # DOMAIN table => Cardinality(s) = n
<1>1. /\ s \subseteq DOMAIN table
      /\ Cardinality(s) = IF n < Cardinality(DOMAIN table) THEN n ELSE Cardinality(DOMAIN table)
      /\ \A i \in s, j \in DOMAIN table \ s : table[i].at >= table[j].at
  BY DEF Newest
<1>2. Cardinality(DOMAIN table) \in Nat
  BY FS_CardinalityType
<1>3. IsFiniteSet(s) /\ Cardinality(s) \in Nat /\ (Cardinality(s) = Cardinality(DOMAIN table) => s = DOMAIN table)
  BY <1>1, FS_Subset, FS_CardinalityType
<1> QED BY <1>1, <1>2, <1>3

\* What the two cuts of exportCmd leave of a profile.
LEMMA LastRunsAreLatest ==
    ASSUME Types, NEW p, NEW ids \in LastRuns(p)
    PROVE  /\ Cardinality(ids) <= LastN
           /\ \A i \in ids, j \in RunsOf(p, DOMAIN runs) \ ids : runs[i].at >= runs[j].at
           /\ Cardinality(ids) < LastN =>
                \A j \in RunsOf(p, DOMAIN runs) \ ids :
                    Cardinality({i \in DOMAIN runs : runs[i].at >= runs[j].at}) > 3 * LastN
<1>1. PICK s \in Newest(runs, 3 * LastN) : ids \in Newest(Restrict(runs, RunsOf(p, s)), LastN)
  BY DEF LastRuns
<1> DEFINE mine == RunsOf(p, s)
           table == Restrict(runs, mine)
           all == RunsOf(p, DOMAIN runs)
<1>2. LastN \in Nat /\ 3 * LastN \in Nat /\ IsFiniteSet(DOMAIN runs)
  BY ServiceAssumption DEF Types
<1>3. /\ s \subseteq DOMAIN runs /\ IsFiniteSet(s) /\ Cardinality(s) \in Nat
      /\ \A i \in s, j \in DOMAIN runs \ s : runs[i].at >= runs[j].at
      /\ s # DOMAIN runs => Cardinality(s) = 3 * LastN
  BY <1>1, <1>2, NewestMeans
<1>4. mine \subseteq s /\ mine = all \cap s /\ all \subseteq DOMAIN runs
  BY <1>3 DEF RunsOf
<1>5. DOMAIN table = mine /\ \A i \in mine : table[i] = runs[i]
  BY DEF Restrict
<1>6. IsFiniteSet(mine) /\ ids \in Newest(table, LastN)
  BY <1>1, <1>3, <1>4, FS_Subset
<1> HIDE DEF mine, table, all
<1>7. /\ ids \subseteq mine /\ Cardinality(ids) \in Nat /\ Cardinality(ids) <= LastN
      /\ \A i \in ids, j \in mine \ ids : runs[i].at >= runs[j].at
      /\ ids # mine => Cardinality(ids) = LastN
  <2>1. /\ ids \subseteq DOMAIN table /\ Cardinality(ids) \in Nat /\ Cardinality(ids) <= LastN
        /\ \A i \in ids, j \in DOMAIN table \ ids : table[i].at >= table[j].at
        /\ ids # DOMAIN table => Cardinality(ids) = LastN
    BY <1>2, <1>5, <1>6, NewestMeans
  <2> QED BY <1>5, <2>1
<1>8. \A i \in ids, j \in all \ ids : runs[i].at >= runs[j].at
  BY <1>3, <1>4, <1>7
<1>9. ASSUME Cardinality(ids) < LastN, NEW j \in all \ ids
      PROVE  Cardinality({i \in DOMAIN runs : runs[i].at >= runs[j].at}) > 3 * LastN
  <2> DEFINE newer == {i \in DOMAIN runs : runs[i].at >= runs[j].at}
  <2>1. j \in DOMAIN runs \ s
    BY <1>4, <1>7, <1>9, <1>2
  <2>2. Cardinality(s) = 3 * LastN
    BY <1>3, <2>1
  <2>3. Cardinality(s \cup {j}) = 3 * LastN + 1 /\ IsFiniteSet(s \cup {j})
    BY <1>2, <1>3, <2>1, <2>2, FS_AddElement
  <2>4. runs[j].at \in Nat
    BY <2>1 DEF Types, Records
  <2>5. s \cup {j} \in SUBSET newer
    BY <1>3, <2>1, <2>4
  <2>6. IsFiniteSet(newer) /\ Cardinality(newer) \in Nat
    BY <1>2, FS_Subset, FS_CardinalityType
  <2> HIDE DEF newer
  <2>7. Cardinality(s \cup {j}) <= Cardinality(newer)
    BY <2>5, <2>6, FS_Subset
  <2>8. Cardinality(newer) > 3 * LastN
    BY <1>2, <2>3, <2>6, <2>7
  <2> QED BY <2>8 DEF newer
<1> QED BY <1>7, <1>8, <1>9 DEF all

\* Only exportCmd takes a caller from "last" to "done".
LEMMA DoneIsExported ==
    ASSUME LInv, Next, NEW c \in Callers, At(c, "last"), call'[c].pc = "done"
    PROVE  \E p \in Profiles : \E ids \in LastRuns(p) :
             call'[c].answer.profile = p /\ call'[c].answer.ids = ids
<1>1. ASSUME NEW i \in RunIds, Settle(i) PROVE FALSE
  BY <1>1 DEF Settle, At
<1>2. PICK d \in Callers : Step(d)
  BY <1>1 DEF Next
<1>3. Moves(d) \/ UNCHANGED call
  BY <1>2, StepMoves
<1>4. Step(c)
  BY <1>2, <1>3 DEF Moves, At
<1>5. ExportLast(c) /\ ~ Fault(c, Free)
  <2>1. ~ Fault(c, Free)
    BY CallFields, FaultIsQuiet, GoesOn DEF LInv
  <2>2. ExportLast(c)
    BY <1>4 DEF Step, CheckStep, At, Begin, Run, StartAsyncRun, Get, GetBaseline, GetReference, ListSince,
       SetBaseline, Confirm, GetOther, Export, Import, WriteReport, Finish
  <2> QED BY <2>1, <2>2
<1>6. PICK p \in Profiles : \E ids \in LastRuns(p) :
        Goes(c, [To(c, "done") EXCEPT !.answer = [profile |-> p, ids |-> ids]])
  BY <1>5 DEF ExportLast
<1>10. PICK ids \in LastRuns(p) :
        Goes(c, [To(c, "done") EXCEPT !.answer = [profile |-> p, ids |-> ids]])
  BY <1>6
<1> DEFINE a == [profile |-> p, ids |-> ids]
           next == [To(c, "done") EXCEPT !.answer = a]
<1>7. a.profile = p /\ a.ids = ids
  OBVIOUS
<1> HIDE DEF a
<1>8. DOMAIN next = Fields /\ next.answer = a
  BY ToFields DEF LInv
<1> HIDE DEF next
<1>9. call'[c] = next
  BY <1>10, <1>8, GoesOn DEF LInv, next, a
<1> QED BY <1>7, <1>8, <1>9

\* The history that export excel writes leaves out no newer run of the
\* profile, and is short only when 3N newer runs came between.
THEOREM ExportsLatest == Spec => HistoryIsLatest
<1>1. IInv /\ [Next]_vars => [LatestExported]_vars
  <2> SUFFICES ASSUME IInv, Next, NEW c \in Callers, At(c, "last"), call'[c].pc = "done"
               PROVE  LET p == call'[c].answer.profile
                          ids == call'[c].answer.ids
                          rest == RunsOf(p, DOMAIN runs) \ ids
                      IN  /\ Cardinality(ids) <= LastN
                          /\ \A i \in ids, j \in rest : runs[i].at >= runs[j].at
                          /\ Cardinality(ids) < LastN =>
                               \A j \in rest :
                                 Cardinality({i \in DOMAIN runs : runs[i].at >= runs[j].at}) > 3 * LastN
    BY DEF LatestExported
  <2>1. PICK p \in Profiles : \E ids \in LastRuns(p) :
          call'[c].answer.profile = p /\ call'[c].answer.ids = ids
    BY DoneIsExported DEF IInv
  <2> QED BY <2>1, LastRunsAreLatest DEF IInv, LInv, TInv
<1> QED BY RecordsAgree, <1>1, PTL DEF Spec, HistoryIsLatest
=============================================================================
