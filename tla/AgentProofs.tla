---------------------------- MODULE AgentProofs -----------------------------
(***************************************************************************)
(* What the coordinator and its agents agree on, for any runs and plans,   *)
(* one after the other or at the same time, any tokens and TLS files, and  *)
(* any number of lost connections, restarts, crashes and failed saves.     *)
(***************************************************************************)
EXTENDS RemoteAgent, TLAPS

\* The agent's answer, and what the coordinator took from it, has a row.
AnswersAreStored ==
    \A q \in Requests :
        /\ agent[q] \in {"saved", "replied ok"} => q \in rows
        /\ client[q] = "ok" => q \in rows

\* A handler starts from "off", never returns to it, and starts once.
StartsCounted ==
    \A q \in Requests :
        /\ agent[q] = "off" => starts[q] = 0
        /\ starts[q] <= 1 /\ (starts[q] > 0 => Authorized)

\* A request under way has a run that waits for it, a connection that is open
\* has a client that waits, and a benchmark was asked for.
RunsWait ==
    \A q \in Requests :
        /\ client[q] \in InFlight => run[RunOf(q)] = "waiting"
        /\ conn[q] = "open" => client[q] = "wait"
        /\ agent[q] = "running" => conn[q] # "none"

\* Before its row is saved a run has none; between the saves it lacks results.
RowAtStep ==
    \A n \in Runs :
        /\ run[n] \in {"none", "waiting"} => record[n] = {} /\ ~warned[n]
        /\ run[n] = "saved" => record[n] \notin {{}, Plans[n]} /\ ~warned[n]

IInv == /\ TypeOK /\ AnswersAreStored /\ StartsCounted /\ RunsWait /\ RowAtStep
        /\ RecordedByAgent /\ SilentMeansComplete

\* The part of it that speaks of rows.
RowsOK == RowAtStep /\ RecordedByAgent /\ SilentMeansComplete

-----------------------------------------------------------------------------
\* The bound of the faults is a number.
LEMMA Bounds == MaxFaults \in Nat
BY AgentAssumption

\* The counters stay within it.
LEMMA Counters ==
    ASSUME IInv
    PROVE  faults \in 0..MaxFaults /\ starts \in [Requests -> Nat]
BY DEF IInv, TypeOK

\* Requests are pairs of a run and one of its assignments.
LEMMA RequestIsPair ==
    \A q \in Requests : /\ q = <<RunOf(q), q[2]>> /\ RunOf(q) \in Runs
                        /\ q[2] \in Plans[RunOf(q)] /\ q[2] \in Assignments
BY DEF Requests, RunOf

\* And every such pair is a request.
LEMMA PairIsRequest ==
    \A n \in Runs : \A a \in Plans[n] :
        a \in Assignments /\ <<n, a>> \in Requests /\ RunOf(<<n, a>>) = n
BY DEF Requests, RunOf, Assignments

\* Nothing has been asked for: the invariant holds.
LEMMA InitIInv == Init => IInv
<1> SUFFICES ASSUME Init PROVE IInv
  OBVIOUS
<1>1. TypeOK
  BY Bounds DEF Init, TypeOK
<1>2. AnswersAreStored /\ StartsCounted
  BY DEF Init, AnswersAreStored, StartsCounted
<1>3. RunsWait /\ RowAtStep
  BY RequestIsPair DEF Init, RunsWait, RowAtStep, InFlight
<1>4. RecordedByAgent /\ SilentMeansComplete
  BY DEF Init, RecordedByAgent, SilentMeansComplete
<1> QED BY <1>1, <1>2, <1>3, <1>4 DEF IInv

\* A step that leaves the runs alone, and rows only grow, keeps what is said of
\* the rows of the coordinator.
LEMMA RowsKept ==
    ASSUME IInv, UNCHANGED coordinator, rows \subseteq rows'
    PROVE  RowsOK'
<1>1. run' = run /\ record' = record /\ warned' = warned /\ unsaved' = unsaved
  BY DEF coordinator
<1>2. RecordedByAgent'
  BY <1>1 DEF IInv, RecordedByAgent
<1>3. RowAtStep' /\ SilentMeansComplete'
  BY <1>1 DEF IInv, RowAtStep, SilentMeansComplete
<1> QED BY <1>2, <1>3 DEF RowsOK

-----------------------------------------------------------------------------
\* A step of a client leaves the rows of coordinator and agents alone, and a
\* client that succeeds has the answer of a stored benchmark.
LEMMA ClientKeepsIInv ==
    ASSUME IInv, NEW q \in Requests, ClientStep(q)
    PROVE  IInv'
<1>1. /\ UNCHANGED <<setup, coordinator, agent, rows, starts, faults>>
      /\ \E t \in {"post", "wait", "ok", "failed"} : client' = [client EXCEPT ![q] = t]
      /\ client[q] \in InFlight
      /\ \E t \in {"none", "open", "closed", "lost"} : conn' = [conn EXCEPT ![q] = t]
  <2>0. conn = [conn EXCEPT ![q] = conn[q]] /\ conn[q] \in {"none", "open", "closed", "lost"}
    <3>1. conn \in [Requests -> {"none", "open", "closed", "lost"}]
      BY DEF IInv, TypeOK
    <3> QED BY <3>1
  <2>1. CASE Health(q)
    <3>1. conn' = conn
      BY <2>1 DEF Health
    <3> QED BY <2>0, <2>1, <3>1 DEF Health, Goes, InFlight
  <2>2. CASE Post(q)
    <3>1. CASE conn' = [conn EXCEPT ![q] = "open"]
      BY <2>2, <3>1 DEF Post, Goes, InFlight
    <3>2. CASE conn' = conn
      BY <2>0, <2>2, <3>2 DEF Post, Goes, InFlight
    <3> QED BY <2>2, <3>1, <3>2 DEF Post
  <2>3. CASE Receive(q)
    BY <2>3 DEF Receive, Goes, InFlight
  <2>4. CASE GiveUp(q)
    BY <2>4 DEF GiveUp, Goes, InFlight
  <2>5. CASE SeeError(q)
    <3>1. conn' = conn
      BY <2>5 DEF SeeError
    <3> QED BY <2>0, <2>5, <3>1 DEF SeeError, Goes, InFlight
  <2> QED BY <2>1, <2>2, <2>3, <2>4, <2>5 DEF ClientStep
<1>2. /\ client'[q] = "ok" => agent[q] = "replied ok"
      /\ conn'[q] = "open" => client'[q] = "wait"
      /\ agent[q] = "running" => conn'[q] # "none"
  <2>1. CASE Health(q)
    BY <2>1 DEF Health, Goes, IInv, TypeOK, RunsWait
  <2>2. CASE Post(q)
    BY <2>2 DEF Post, Goes, IInv, TypeOK, RunsWait
  <2>3. CASE Receive(q)
    BY <2>3 DEF Receive, Goes, IInv, TypeOK
  <2>4. CASE GiveUp(q)
    BY <2>4 DEF GiveUp, Goes, IInv, TypeOK
  <2>5. CASE SeeError(q)
    BY <2>5 DEF SeeError, Goes, IInv, TypeOK
  <2> QED BY <2>1, <2>2, <2>3, <2>4, <2>5 DEF ClientStep
<1>3. TypeOK'
  <2>1. client' \in [Requests -> {"off", "health", "post", "wait", "ok", "failed", "gone"}]
    BY <1>1 DEF IInv, TypeOK
  <2>2. conn' \in [Requests -> {"none", "open", "closed", "lost"}]
    BY <1>1 DEF IInv, TypeOK
  <2> QED BY <1>1, <2>1, <2>2 DEF IInv, TypeOK, coordinator
<1>4. AnswersAreStored'
  BY <1>1, <1>2 DEF IInv, TypeOK, AnswersAreStored
<1>5. StartsCounted'
  BY <1>1 DEF IInv, StartsCounted, Authorized
<1>6. RunsWait'
  <2>1. ASSUME NEW p \in Requests, p # q
        PROVE  client'[p] = client[p] /\ conn'[p] = conn[p] /\ agent'[p] = agent[p]
    BY <1>1, <2>1 DEF IInv, TypeOK
  <2>2. run[RunOf(q)] = "waiting"
    BY <1>1 DEF IInv, RunsWait
  <2>3. run' = run /\ agent' = agent
    BY <1>1 DEF coordinator
  <2> QED BY <1>2, <2>1, <2>2, <2>3 DEF IInv, RunsWait
<1>7. RowsOK'
  BY <1>1, RowsKept
<1> QED BY <1>3, <1>4, <1>5, <1>6, <1>7 DEF IInv, RowsOK

\* A step of an agent changes its handler, and adds the row before the answer.
LEMMA AgentKeepsIInv ==
    ASSUME IInv, NEW q \in Requests, AgentStep(q)
    PROVE  IInv'
<1>1. /\ UNCHANGED <<setup, coordinator, client, conn, faults>>
      /\ \E t \in {"running", "saved", "replied ok", "replied error"} : agent' = [agent EXCEPT ![q] = t]
      /\ rows' \in {rows, rows \cup {q}}
      /\ agent'[q] \in {"saved", "replied ok"} => q \in rows'
      /\ agent'[q] = "running" => conn[q] # "none"
      /\ \/ starts' = starts
         \/ starts' = [starts EXCEPT ![q] = @ + 1] /\ agent[q] = "off" /\ Authorized
  <2>0. /\ agent \in [Requests -> {"off", "running", "saved", "replied ok", "replied error", "gone"}]
        /\ (agent[q] = "saved" => q \in rows)
    BY DEF IInv, TypeOK, AnswersAreStored
  <2>1. CASE Serve(q)
    <3>1. agent[q] = "off" /\ agent' \in {[agent EXCEPT ![q] = t] : t \in {"running", "replied error"}}
      BY <2>1 DEF Serve, Becomes
    <3>2. agent'[q] \in {"running", "replied error"}
      BY <2>0, <3>1
    <3>3. starts' = starts \/ (starts' = [starts EXCEPT ![q] = @ + 1] /\ Authorized)
      BY <2>1 DEF Serve
    <3>4. rows' = rows /\ conn[q] # "none" /\ UNCHANGED <<setup, coordinator, client, conn, faults>>
      BY <2>1 DEF Serve
    <3> QED BY <3>1, <3>2, <3>3, <3>4
  <2>2. CASE Complete(q)
    BY <2>0, <2>2 DEF Complete, Becomes
  <2>3. CASE Reply(q)
    BY <2>0, <2>3 DEF Reply, Becomes
  <2>4. CASE Stop(q)
    BY <2>0, <2>4 DEF Stop, Becomes
  <2> QED BY <2>1, <2>2, <2>3, <2>4 DEF AgentStep
<1>2. TypeOK'
  <2>1. agent' \in [Requests -> {"off", "running", "saved", "replied ok", "replied error", "gone"}]
    BY <1>1 DEF IInv, TypeOK
  <2>2. starts' \in [Requests -> Nat]
    <3>1. CASE starts' = starts
      BY <3>1, Counters
    <3>2. CASE starts' = [starts EXCEPT ![q] = @ + 1]
      BY <3>2, Counters
    <3> QED BY <1>1, <3>1, <3>2
  <2>3. rows' \subseteq Requests
    <3>1. rows \subseteq Requests /\ rows' \in {rows, rows \cup {q}}
      BY <1>1 DEF IInv, TypeOK
    <3> QED BY <3>1
  <2> QED BY <1>1, <2>1, <2>2, <2>3 DEF IInv, TypeOK, coordinator
<1>3. AnswersAreStored'
  BY <1>1 DEF IInv, TypeOK, AnswersAreStored
<1>4. StartsCounted'
  <2>1. CASE starts' = starts
    <3>1. \A p \in Requests : agent'[p] = "off" => agent[p] = "off"
      BY <1>1 DEF IInv, TypeOK
    <3>2. Authorized' = Authorized
      BY <1>1 DEF Authorized
    <3>3. \A p \in Requests : /\ agent[p] = "off" => starts[p] = 0
                             /\ starts[p] <= 1 /\ (starts[p] > 0 => Authorized)
      BY DEF IInv, StartsCounted
    <3>4. \A p \in Requests : starts'[p] = starts[p]
      BY <2>1
    <3> HIDE DEF Authorized
    <3> QED BY <3>1, <3>2, <3>3, <3>4 DEF StartsCounted
  <2>2. CASE starts' # starts
    <3>1. starts' = [starts EXCEPT ![q] = @ + 1] /\ agent[q] = "off" /\ Authorized
      BY <1>1, <2>2
    <3>2. starts[q] = 0
      BY <3>1 DEF IInv, StartsCounted
    <3>3. starts'[q] = 1 /\ \A p \in Requests : p # q => starts'[p] = starts[p]
      BY <3>1, <3>2, Counters
    <3>4. agent'[q] # "off" /\ \A p \in Requests : p # q => agent'[p] = agent[p]
      BY <1>1 DEF IInv, TypeOK
    <3>5. Authorized'
      BY <1>1, <3>1 DEF Authorized
    <3> QED BY <3>3, <3>4, <3>5 DEF IInv, StartsCounted
  <2> QED BY <2>1, <2>2
<1>5. RunsWait'
  <2>1. run' = run
    BY <1>1 DEF coordinator
  <2> QED BY <1>1, <2>1 DEF IInv, TypeOK, RunsWait
<1>6. RowsOK'
  BY <1>1, RowsKept
<1> QED BY <1>2, <1>3, <1>4, <1>5, <1>6 DEF IInv, RowsOK

\* A fault opens no connection, starts no benchmark and adds no results.
LEMMA FaultKeepsIInv ==
    ASSUME IInv, \/ \E q \in Requests : LoseConnection(q)
                 \/ \E c \in Clients : Restart(c)
    PROVE  IInv'
<1> DEFINE Broken ==
      /\ UNCHANGED <<setup, coordinator, client, rows, starts>>
      /\ faults' \in 0..MaxFaults
      /\ agent' \in [Requests -> {"off", "running", "saved", "replied ok", "replied error", "gone"}]
      /\ conn' \in [Requests -> {"none", "open", "closed", "lost"}]
      /\ \A q \in Requests : agent'[q] = agent[q] \/ agent'[q] = "gone"
      /\ \A q \in Requests : conn'[q] = conn[q] \/ (conn[q] = "open" /\ conn'[q] = "lost")
<1>1. Broken
  <2>1. ASSUME NEW q \in Requests, LoseConnection(q)
        PROVE  Broken
    <3>1. /\ UNCHANGED <<setup, coordinator, client, agent, rows, starts>>
          /\ faults' = faults + 1 /\ faults < MaxFaults
          /\ conn[q] = "open" /\ conn' = [conn EXCEPT ![q] = "lost"]
      BY <2>1 DEF LoseConnection
    <3>2. faults' \in 0..MaxFaults
      BY <3>1, Bounds, Counters
    <3> QED BY <3>1, <3>2 DEF IInv, TypeOK
  <2>2. ASSUME NEW c \in Clients, Restart(c)
        PROVE  Broken
    <3>1. /\ UNCHANGED <<setup, coordinator, client, rows, starts>>
          /\ faults' = faults + 1 /\ faults < MaxFaults
          /\ agent' = [q \in Requests |->
               IF ClientOf(q) = c /\ (agent[q] # "off" \/ conn[q] # "none") THEN "gone" ELSE agent[q]]
          /\ conn' = [q \in Requests |->
               IF ClientOf(q) = c /\ conn[q] = "open" THEN "lost" ELSE conn[q]]
      BY <2>2 DEF Restart
    <3>2. faults' \in 0..MaxFaults
      BY <3>1, Bounds, Counters
    <3>3. agent' \in [Requests -> {"off", "running", "saved", "replied ok", "replied error", "gone"}]
      BY <3>1 DEF IInv, TypeOK
    <3>4. conn' \in [Requests -> {"none", "open", "closed", "lost"}]
      BY <3>1 DEF IInv, TypeOK
    <3> QED BY <3>1, <3>2, <3>3, <3>4
  <2> QED BY <2>1, <2>2
<1>2. TypeOK'
  BY <1>1 DEF IInv, TypeOK, coordinator
<1>3. AnswersAreStored' /\ StartsCounted'
  BY <1>1 DEF IInv, AnswersAreStored, StartsCounted, Authorized
<1>4. RunsWait'
  BY <1>1 DEF IInv, RunsWait, coordinator
<1>5. RowsOK'
  BY <1>1, RowsKept
<1> QED BY <1>2, <1>3, <1>4, <1>5 DEF IInv, RowsOK

\* A run that starts has asked for nothing yet.
LEMMA StartKeepsIInv ==
    ASSUME IInv, NEW n \in Runs, StartRun(n)
    PROVE  IInv'
<1>1. /\ UNCHANGED <<setup, record, warned, unsaved, conn, agent, rows, starts, faults>>
      /\ run[n] = "none" /\ run' = [run EXCEPT ![n] = "waiting"]
      /\ client' = [q \in Requests |-> IF RunOf(q) = n THEN "health" ELSE client[q]]
  BY DEF StartRun, Advances
<1>2. \A q \in Requests : RunOf(q) = n => client[q] \notin InFlight /\ conn[q] # "open"
  BY <1>1 DEF IInv, RunsWait, InFlight
<1>3. TypeOK'
  <2>1. client' \in [Requests -> {"off", "health", "post", "wait", "ok", "failed", "gone"}]
    BY <1>1 DEF IInv, TypeOK
  <2>2. run' \in [Runs -> {"none", "waiting", "saved", "complete", "partial", "error", "gone"}]
    BY <1>1 DEF IInv, TypeOK
  <2> QED BY <1>1, <2>1, <2>2 DEF IInv, TypeOK
<1>4. AnswersAreStored' /\ StartsCounted'
  BY <1>1 DEF IInv, AnswersAreStored, StartsCounted, Authorized
<1>5. RunsWait'
  <2>1. \A q \in Requests : RunOf(q) \in Runs
    BY RequestIsPair
  <2> QED BY <1>1, <1>2, <2>1 DEF IInv, TypeOK, RunsWait
<1>6. RowAtStep' /\ RecordedByAgent' /\ SilentMeansComplete'
  BY <1>1 DEF IInv, TypeOK, RowAtStep, RecordedByAgent, SilentMeansComplete
<1> QED BY <1>3, <1>4, <1>5, <1>6 DEF IInv

\* What succeeded has a row at its agent; what did not succeed failed.
LEMMA JoinedIs ==
    ASSUME IInv, NEW n \in Runs, Joined(n)
    PROVE  /\ Succeeded(n) \subseteq Plans[n]
           /\ \A a \in Succeeded(n) : <<n, a>> \in rows
           /\ Failed(n) = {} <=> Succeeded(n) = Plans[n]
           /\ \A q \in Requests : RunOf(q) = n => client[q] \notin InFlight
<1>1. \A a \in Succeeded(n) : a \in Plans[n] /\ <<n, a>> \in rows /\ client[<<n, a>>] = "ok"
  BY RequestIsPair DEF Succeeded, RequestsOf, IInv, AnswersAreStored
<1>2. \A a \in Plans[n] : <<n, a>> \in RequestsOf(n)
  BY PairIsRequest DEF RequestsOf
<1>3. ASSUME Failed(n) = {}, NEW a \in Plans[n]
      PROVE  a \in Succeeded(n)
  <2>1. client[<<n, a>>] # "failed"
    BY <1>2, <1>3 DEF Failed
  <2>2. client[<<n, a>>] = "ok"
    BY <1>2, <2>1 DEF Joined
  <2> QED BY <1>2, <2>2 DEF Succeeded
<1>4. ASSUME Succeeded(n) = Plans[n]
      PROVE  Failed(n) = {}
  <2>1. ASSUME NEW q \in RequestsOf(n), client[q] = "failed"
        PROVE  FALSE
    <3>1. q \in Requests /\ RunOf(q) = n
      BY DEF RequestsOf
    <3>2. q = <<n, q[2]>> /\ q[2] \in Plans[n]
      BY <3>1, RequestIsPair
    <3>3. client[<<n, q[2]>>] = "ok"
      BY <1>1, <1>4, <3>2
    <3> QED BY <2>1, <3>2, <3>3
  <2> QED BY <2>1 DEF Failed
<1>5. \A q \in Requests : RunOf(q) = n => client[q] \notin InFlight
  BY DEF Joined, RequestsOf, InFlight
<1> QED BY <1>1, <1>3, <1>4, <1>5

\* The end of a run: its row, its warning, or an error.
LEMMA RunKeepsIInv ==
    ASSUME IInv, NEW n \in Runs, RunStep(n)
    PROVE  IInv'
<1>1. /\ UNCHANGED <<setup, client, conn, agent, rows, starts>>
      /\ faults' \in 0..MaxFaults
      /\ \A q \in Requests : RunOf(q) = n => client[q] \notin InFlight
      /\ \E s \in {"saved", "complete", "partial", "error"} : run' = [run EXCEPT ![n] = s]
  <2>1. faults' = faults \/ (faults' = faults + 1 /\ faults < MaxFaults)
    BY DEF RunStep, AllFailed, SaveRun, SaveWarning
  <2>2. faults' \in 0..MaxFaults
    BY <2>1, Bounds, Counters
  <2>3. CASE AllFailed(n)
    BY <2>2, <2>3, JoinedIs DEF AllFailed, Advances
  <2>4. CASE SaveRun(n)
    BY <2>2, <2>4, JoinedIs DEF SaveRun, Advances
  <2>5. CASE SaveWarning(n)
    <3>1. run[n] = "saved"
      BY <2>5 DEF SaveWarning, Advances
    <3>2. \A q \in Requests : RunOf(q) = n => client[q] \notin InFlight
      BY <3>1 DEF IInv, RunsWait
    <3> QED BY <2>2, <2>5, <3>2 DEF SaveWarning, Advances
  <2> QED BY <2>3, <2>4, <2>5 DEF RunStep
<1>2. AnswersAreStored' /\ StartsCounted'
  BY <1>1 DEF IInv, AnswersAreStored, StartsCounted, Authorized
<1>3. RunsWait'
  <2>1. \A q \in Requests : RunOf(q) # n => run'[RunOf(q)] = run[RunOf(q)]
    BY <1>1, RequestIsPair DEF IInv, TypeOK
  <2> QED BY <1>1, <2>1 DEF IInv, RunsWait
<1>4. /\ record' \in [Runs -> SUBSET Assignments] /\ warned' \in [Runs -> BOOLEAN]
      /\ unsaved' \subseteq Runs
      /\ \A m \in Runs : m # n => /\ run'[m] = run[m] /\ record'[m] = record[m]
                                  /\ warned'[m] = warned[m] /\ (m \in unsaved' <=> m \in unsaved)
  <2>1. CASE AllFailed(n)
    BY <1>1, <2>1 DEF AllFailed, IInv, TypeOK
  <2>2. CASE SaveRun(n)
    <3>1. Succeeded(n) \subseteq Assignments
      BY <2>2, JoinedIs, PairIsRequest DEF SaveRun
    <3>2. record' = record \/ record' = [record EXCEPT ![n] = Succeeded(n)]
      BY <2>2 DEF SaveRun
    <3> QED BY <1>1, <2>2, <3>1, <3>2 DEF SaveRun, IInv, TypeOK
  <2>3. CASE SaveWarning(n)
    BY <1>1, <2>3 DEF SaveWarning, IInv, TypeOK
  <2> QED BY <2>1, <2>2, <2>3 DEF RunStep
<1>5. TypeOK'
  <2>1. run' \in [Runs -> {"none", "waiting", "saved", "complete", "partial", "error", "gone"}]
    BY <1>1 DEF IInv, TypeOK
  <2> QED BY <1>1, <1>4, <2>1 DEF IInv, TypeOK
<1> DEFINE RowOf(m) ==
      /\ run'[m] \in {"none", "waiting"} => record'[m] = {} /\ ~warned'[m]
      /\ run'[m] = "saved" => record'[m] \notin {{}, Plans[m]} /\ ~warned'[m]
      /\ \A a \in record'[m] : <<m, a>> \in rows
      /\ run'[m] = "complete" => record'[m] = Plans[m]
      /\ record'[m] \notin {{}, Plans[m]} /\ ~warned'[m] => run'[m] = "saved" \/ m \in unsaved'
      /\ warned'[m] => record'[m] \notin {{}, Plans[m]}
<1>6. ASSUME NEW m \in Runs, m # n
      PROVE  RowOf(m)
  BY <1>4, <1>6 DEF IInv, RowAtStep, RecordedByAgent, SilentMeansComplete
<1>7. RowOf(n)
  <2>0. /\ run \in [Runs -> {"none", "waiting", "saved", "complete", "partial", "error", "gone"}]
        /\ record \in [Runs -> SUBSET Assignments] /\ warned \in [Runs -> BOOLEAN]
    BY DEF IInv, TypeOK
  <2>1. CASE AllFailed(n)
    <3>1. run'[n] = "error" /\ record[n] = {} /\ ~warned[n] /\ record' = record /\ warned' = warned
      BY <2>0, <2>1 DEF AllFailed, Advances, IInv, RowAtStep
    <3> QED BY <3>1
  <2>2. CASE SaveRun(n)
    <3>0. run[n] = "waiting" /\ record[n] = {} /\ ~warned[n] /\ warned' = warned
      BY <2>2 DEF SaveRun, Advances, IInv, RowAtStep
    <3>1. CASE record' = record /\ Advances(n, "waiting", "error")
      BY <2>0, <3>0, <3>1 DEF Advances
    <3>2. CASE /\ Advances(n, "waiting", IF Failed(n) = {} THEN "complete" ELSE "saved")
               /\ record' = [record EXCEPT ![n] = Succeeded(n)]
      <4>1. record'[n] = Succeeded(n) /\ Succeeded(n) # {}
        BY <2>0, <2>2, <3>2 DEF SaveRun
      <4>2. \A a \in record'[n] : <<n, a>> \in rows
        BY <2>2, <4>1, JoinedIs DEF SaveRun
      <4>3. run'[n] = IF Succeeded(n) = Plans[n] THEN "complete" ELSE "saved"
        BY <2>0, <2>2, <3>2, JoinedIs DEF SaveRun, Advances
      <4> QED BY <3>0, <4>1, <4>2, <4>3
    <3> QED BY <2>2, <3>1, <3>2 DEF SaveRun
  <2>3. CASE SaveWarning(n)
    <3>1. /\ record[n] \notin {{}, Plans[n]} /\ ~warned[n]
          /\ run'[n] = "partial" /\ record' = record
          /\ \A a \in record[n] : <<n, a>> \in rows
      BY <2>0, <2>3 DEF SaveWarning, Advances, IInv, RowAtStep, RecordedByAgent
    <3>2. warned'[n] \/ n \in unsaved'
      BY <2>0, <2>3 DEF SaveWarning
    <3> QED BY <3>1, <3>2
  <2> QED BY <2>1, <2>2, <2>3 DEF RunStep
<1>8. RowAtStep' /\ RecordedByAgent' /\ SilentMeansComplete'
  <2>1. \A m \in Runs : RowOf(m)
    BY <1>6, <1>7
  <2>2. rows' = rows
    BY <1>1
  <2> QED BY <2>1, <2>2 DEF RowAtStep, RecordedByAgent, SilentMeansComplete
<1> QED BY <1>2, <1>3, <1>5, <1>8 DEF IInv

\* A process that ends takes its requests with it and leaves its rows.
LEMMA CrashKeepsIInv ==
    ASSUME IInv, NEW S \in SUBSET Runs, Crash(S)
    PROVE  IInv'
<1>1. /\ UNCHANGED <<setup, record, warned, agent, rows, starts>>
      /\ faults' = faults + 1 /\ faults < MaxFaults
      /\ run' = [n \in Runs |-> IF n \in S THEN "gone" ELSE run[n]]
      /\ unsaved' = unsaved \cup {n \in S : run[n] = "saved"}
      /\ client' = [q \in Requests |->
           IF RunOf(q) \in S /\ client[q] \in InFlight THEN "gone" ELSE client[q]]
      /\ conn' = [q \in Requests |->
           IF RunOf(q) \in S /\ conn[q] = "open" THEN "lost" ELSE conn[q]]
      /\ \A n \in S : run[n] \in {"waiting", "saved"}
  BY DEF Crash
<1>2. TypeOK'
  <2>1. faults' \in 0..MaxFaults
    BY <1>1, Bounds, Counters
  <2>2. run' \in [Runs -> {"none", "waiting", "saved", "complete", "partial", "error", "gone"}]
    BY <1>1 DEF IInv, TypeOK
  <2>3. client' \in [Requests -> {"off", "health", "post", "wait", "ok", "failed", "gone"}]
    BY <1>1 DEF IInv, TypeOK
  <2>4. conn' \in [Requests -> {"none", "open", "closed", "lost"}]
    BY <1>1 DEF IInv, TypeOK
  <2>5. unsaved' \subseteq Runs
    BY <1>1 DEF IInv, TypeOK
  <2> QED BY <1>1, <2>1, <2>2, <2>3, <2>4, <2>5 DEF IInv, TypeOK
<1>3. AnswersAreStored' /\ StartsCounted'
  BY <1>1 DEF IInv, AnswersAreStored, StartsCounted, Authorized
<1>4. RunsWait'
  <2> SUFFICES ASSUME NEW q \in Requests
               PROVE  /\ client'[q] \in InFlight => run'[RunOf(q)] = "waiting"
                      /\ conn'[q] = "open" => client'[q] = "wait"
                      /\ agent'[q] = "running" => conn'[q] # "none"
    BY DEF RunsWait
  <2>1. /\ client[q] \in InFlight => run[RunOf(q)] = "waiting"
        /\ conn[q] = "open" => client[q] = "wait"
        /\ agent[q] = "running" => conn[q] # "none"
    BY DEF IInv, RunsWait
  <2>2. RunOf(q) \in Runs
    BY RequestIsPair
  <2>3. CASE RunOf(q) \in S
    BY <1>1, <2>1, <2>3 DEF InFlight
  <2>4. CASE RunOf(q) \notin S
    BY <1>1, <2>1, <2>2, <2>4
  <2> QED BY <2>3, <2>4
<1>5. RowAtStep' /\ RecordedByAgent' /\ SilentMeansComplete'
  BY <1>1 DEF IInv, RowAtStep, RecordedByAgent, SilentMeansComplete
<1> QED BY <1>2, <1>3, <1>4, <1>5 DEF IInv

\* Every step keeps the invariant.
LEMMA NextIInv == IInv /\ [Next]_vars => IInv'
<1> SUFFICES ASSUME IInv, [Next]_vars PROVE IInv'
  OBVIOUS
<1>1. ASSUME NEW n \in Runs, StartRun(n) \/ RunStep(n)
      PROVE  IInv'
  BY <1>1, StartKeepsIInv, RunKeepsIInv
<1>2. ASSUME NEW q \in Requests, ClientStep(q) \/ AgentStep(q) \/ LoseConnection(q)
      PROVE  IInv'
  BY <1>2, ClientKeepsIInv, AgentKeepsIInv, FaultKeepsIInv
<1>3. ASSUME NEW c \in Clients, Restart(c)
      PROVE  IInv'
  BY <1>3, FaultKeepsIInv
<1>4. ASSUME NEW S \in SUBSET Runs, Crash(S)
      PROVE  IInv'
  BY <1>4, CrashKeepsIInv
<1>5. CASE UNCHANGED vars
  BY <1>5 DEF vars, coordinator, IInv, TypeOK, AnswersAreStored, StartsCounted, RunsWait,
              RowAtStep, RecordedByAgent, SilentMeansComplete, Authorized
<1> QED BY <1>1, <1>2, <1>3, <1>4, <1>5 DEF Next

\* A benchmark at work has a connection; an open one has a run that waits.
LEMMA CutOffFromIInv == IInv => StragglersAreCutOff
<1> SUFFICES ASSUME IInv, NEW q \in Requests, agent[q] = "running", conn[q] \notin {"closed", "lost"}
             PROVE  run[RunOf(q)] = "waiting" /\ client[q] = "wait"
  BY DEF StragglersAreCutOff
<1>1. conn[q] = "open"
  BY DEF IInv, TypeOK, RunsWait
<1> QED BY <1>1 DEF IInv, RunsWait, InFlight

-----------------------------------------------------------------------------
(* The theorems.                                                           *)

\* The inductive invariant holds of every behaviour.
THEOREM Invariance == Spec => []IInv
BY InitIInv, NextIInv, PTL DEF Spec

\* The state of coordinator and agents keeps its types.
THEOREM TypeCorrect == Spec => []TypeOK
<1>1. IInv => TypeOK
  BY DEF IInv
<1> QED BY <1>1, Invariance, PTL

\* Every result in a row of the coordinator is one an agent has stored before
\* it answered, whatever breaks or restarts.
THEOREM ResultsAreStored == Spec => []RecordedByAgent
<1>1. IInv => RecordedByAgent
  BY DEF IInv
<1> QED BY <1>1, Invariance, PTL

\* A request starts at most one benchmark, and none with a wrong token.
THEOREM NeverTwice == Spec => []AtMostOnce
<1>1. IInv => AtMostOnce
  BY DEF IInv, StartsCounted, AtMostOnce, Authorized
<1> QED BY <1>1, Invariance, PTL

\* A run that returns without a warning is complete, and an incomplete row says
\* so, but for the time between the two saves and for a second save that failed
\* or never came.
THEOREM SilenceIsComplete == Spec => []SilentMeansComplete
<1>1. IInv => SilentMeansComplete
  BY DEF IInv
<1> QED BY <1>1, Invariance, PTL

\* A benchmark that is at work on an agent has a run that waits for it, or lost
\* its client or its connection.
THEOREM StragglersCutOff == Spec => []StragglersAreCutOff
BY CutOffFromIInv, Invariance, PTL
=============================================================================
