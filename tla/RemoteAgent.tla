----------------------------- MODULE RemoteAgent ----------------------------
(***************************************************************************)
(* The coordinator and its agents: internal/orchestrator/run.go runs the   *)
(* assignments of a plan at the same time, those with a client through     *)
(* internal/remote on the agent of that client (cmd/stratabench-agent),    *)
(* which runs them with an orchestrator and a store of its own.            *)
(*                                                                         *)
(* A request is the assignment of one run of the coordinator.  Nothing     *)
(* keeps runs apart: the API server starts as many as are asked for, and   *)
(* several commands may use one store.  The client waits two hours at most *)
(* and asks only once; what the agent has started goes on until the agent  *)
(* learns that the connection is closed.                                   *)
(***************************************************************************)
EXTENDS Naturals, FiniteSets

CONSTANTS
    Plans,       \* bound: the runs that may be started, and the assignments of each
    Setups,      \* tokens and TLS files of the coordinator and the agents
    MaxFaults    \* bound: lost connections, restarts, crashes and failed saves

Runs        == DOMAIN Plans
Assignments == UNION {Plans[n] : n \in Runs}
Requests    == {q \in Runs \X Assignments : q[2] \in Plans[q[1]]}
RunOf(q)    == q[1]
ClientOf(q) == q[2].client
Clients     == {a.client : a \in Assignments}

ASSUME AgentAssumption ==
    /\ \A n \in Runs : IsFiniteSet(Plans[n]) /\ Plans[n] # {}
    /\ \A a \in Assignments : {"client", "target"} \subseteq DOMAIN a
    /\ MaxFaults \in Nat

VARIABLES
    setup,
    run,      \* where Run is, or how it returned: with all results, "partial"
              \* with the warning, with an "error"; "gone" with its process
    record,   \* the assignments whose results are in the completed row
    warned,   \* the row carries the partial_assignment_failure warning
    unsaved,  \* history: runs whose warning could not be saved
    client,   \* step of the coordinator's goroutine of a request
    conn,     \* its connection: "none", "open", "closed" by the client, "lost"
    agent,    \* the agent's handler of it
    rows,     \* requests with a completed row in the store of their agent
    starts,   \* benchmarks started for it
    faults

coordinator == <<run, record, warned, unsaved>>
vars == <<setup, coordinator, client, conn, agent, rows, starts, faults>>

RequestsOf(n) == {q \in Requests : RunOf(q) = n}

Init ==
    /\ setup \in Setups /\ faults = 0 /\ rows = {} /\ unsaved = {}
    /\ run = [n \in Runs |-> "none"] /\ record = [n \in Runs |-> {}]
    /\ warned = [n \in Runs |-> FALSE]
    /\ client = [q \in Requests |-> "off"] /\ conn = [q \in Requests |-> "none"]
    /\ agent = [q \in Requests |-> "off"] /\ starts = [q \in Requests |-> 0]

-----------------------------------------------------------------------------
(* Tokens and TLS.                                                         *)

\* Middleware, Authorized, SetAuthHeader: without a token of its own the
\* agent lets every request through.
Authorized == setup.agentToken = "" \/ setup.clientToken = setup.agentToken

\* ListenAndServe, serverTLSConfig: certificate and key, or neither of them;
\* an agent that cannot read its CA does not serve.
Serves == setup.serverTLS \in {"off", "on", "mutual"}

\* ConfigureClient: files that cannot be read are left out without an error,
\* and the handshake decides.
Handshake ==
    CASE setup.serverTLS = "off"    -> ~setup.https
      [] setup.serverTLS = "on"     -> setup.https /\ setup.clientCA
      [] setup.serverTLS = "mutual" -> setup.https /\ setup.clientCA /\ setup.clientCert
      [] OTHER                      -> FALSE

Reachable == Serves /\ Handshake

-----------------------------------------------------------------------------
(* The coordinator.                                                        *)

Advances(n, from, to) == run[n] = from /\ run' = [run EXCEPT ![n] = to]

\* One goroutine per assignment.
StartRun(n) ==
    /\ Advances(n, "none", "waiting")
    /\ client' = [q \in Requests |-> IF RunOf(q) = n THEN "health" ELSE client[q]]
    /\ UNCHANGED <<setup, record, warned, unsaved, conn, agent, rows, starts, faults>>

InFlight == {"health", "post", "wait"}
Goes(q, from, to) == client[q] = from /\ client' = [client EXCEPT ![q] = to]

\* Client.Health: any status but 200 is an error.
Health(q) ==
    /\ \/ Reachable /\ Authorized /\ Goes(q, "health", "post")
       \/ Goes(q, "health", "failed")
    /\ UNCHANGED <<setup, coordinator, conn, agent, rows, starts, faults>>

\* Client.Run sends its request, or cannot connect.
Post(q) ==
    /\ \/ Reachable /\ Goes(q, "post", "wait") /\ conn' = [conn EXCEPT ![q] = "open"]
       \/ Goes(q, "post", "failed") /\ UNCHANGED conn
    /\ UNCHANGED <<setup, coordinator, agent, rows, starts, faults>>

\* The reply: a status other than 200 or OK = false is an error.
Receive(q) ==
    /\ conn[q] = "open"
    /\ \/ agent[q] = "replied ok" /\ Goes(q, "wait", "ok")
       \/ agent[q] = "replied error" /\ Goes(q, "wait", "failed")
    /\ conn' = [conn EXCEPT ![q] = "none"]
    /\ UNCHANGED <<setup, coordinator, agent, rows, starts, faults>>

\* Mutant: the client has no timeout.
WaitForever(q) == FALSE /\ UNCHANGED vars

\* The client's timeout, or the end of the coordinator's context.
GiveUp(q) ==
    /\ conn[q] = "open" /\ Goes(q, "wait", "failed")
    /\ conn' = [conn EXCEPT ![q] = "closed"]
    /\ UNCHANGED <<setup, coordinator, agent, rows, starts, faults>>

\* Mutant: a request whose connection broke is sent again.
SendAgain(q) ==
    /\ conn[q] = "lost" /\ client[q] = "wait"
    /\ conn' = [conn EXCEPT ![q] = "open"] /\ agent' = [agent EXCEPT ![q] = "off"]
    /\ UNCHANGED <<setup, coordinator, client, rows, starts, faults>>

\* The connection breaks: the client sees an error at once.
SeeError(q) ==
    /\ conn[q] = "lost" /\ Goes(q, "wait", "failed")
    /\ UNCHANGED <<setup, coordinator, conn, agent, rows, starts, faults>>

\* Mutant: the errors of assignments are not kept.
NoErrors(n)  == {}

Failed(n)    == {q[2] : q \in {p \in RequestsOf(n) : client[p] = "failed"}}
Succeeded(n) == {q[2] : q \in {p \in RequestsOf(n) : client[p] = "ok"}}

\* Mutant: the goroutines are not waited for.
NotJoined(n) == TRUE

\* wg.Wait: all goroutines of the run have returned.
Joined(n) == \A q \in RequestsOf(n) : client[q] \in {"ok", "failed"}

\* Nothing succeeded.
AllFailed(n) ==
    /\ Joined(n) /\ Succeeded(n) = {} /\ Advances(n, "waiting", "error")
    /\ UNCHANGED <<setup, record, warned, unsaved, client, conn, agent, rows, starts, faults>>

\* saveRun: the completed row, with the results of those that succeeded and
\* without a word on the others; an error ends the run.
SaveRun(n) ==
    /\ Joined(n) /\ Succeeded(n) # {}
    /\ \/ /\ Advances(n, "waiting", IF Failed(n) = {} THEN "complete" ELSE "saved")
          /\ record' = [record EXCEPT ![n] = Succeeded(n)]
          /\ UNCHANGED faults
       \/ /\ faults < MaxFaults /\ faults' = faults + 1
          /\ Advances(n, "waiting", "error") /\ UNCHANGED record
    /\ UNCHANGED <<setup, warned, unsaved, client, conn, agent, rows, starts>>

\* The warning is added to what Run returns and saved; the error of this Save
\* is dropped.
SaveWarning(n) ==
    /\ Advances(n, "saved", "partial")
    /\ \/ warned' = [warned EXCEPT ![n] = TRUE] /\ UNCHANGED <<unsaved, faults>>
       \/ /\ faults < MaxFaults /\ faults' = faults + 1
          /\ unsaved' = unsaved \cup {n} /\ UNCHANGED warned
    /\ UNCHANGED <<setup, record, client, conn, agent, rows, starts>>

-----------------------------------------------------------------------------
(* An agent.                                                               *)

Becomes(q, from, to) == agent[q] = from /\ agent' = [agent EXCEPT ![q] = to]

\* The middleware and the handler of /v1/run, up to the start of the
\* benchmark: 401, 400, a bad profile, a failed validation end in an error.
Serve(q) ==
    /\ conn[q] # "none"
    /\ \/ /\ Authorized /\ Becomes(q, "off", "running")
          /\ starts' = [starts EXCEPT ![q] = @ + 1]
       \/ Becomes(q, "off", "replied error") /\ UNCHANGED starts
    /\ UNCHANGED <<setup, coordinator, client, conn, rows, faults>>

\* Mutant: the answer is sent before the row is stored.
ReplyFirst(q) ==
    /\ Becomes(q, "running", "replied ok")
    /\ UNCHANGED <<setup, coordinator, client, conn, rows, starts, faults>>

\* The benchmark ends well: the row is saved, then the answer is written; or
\* the Save fails.
Complete(q) ==
    /\ \/ Becomes(q, "running", "saved") /\ rows' = rows \cup {q}
       \/ Becomes(q, "running", "replied error") /\ UNCHANGED rows
    /\ UNCHANGED <<setup, coordinator, client, conn, starts, faults>>

Reply(q) ==
    /\ Becomes(q, "saved", "replied ok")
    /\ UNCHANGED <<setup, coordinator, client, conn, rows, starts, faults>>

\* r.Context() ends when the server notices that the connection is closed,
\* and the benchmark with it.
Stop(q) ==
    /\ conn[q] \in {"closed", "lost"}
    /\ Becomes(q, "running", "replied error")
    /\ UNCHANGED <<setup, coordinator, client, conn, rows, starts, faults>>

-----------------------------------------------------------------------------
(* Faults.                                                                 *)

\* The network loses the connection of a request.
LoseConnection(q) ==
    /\ faults < MaxFaults /\ conn[q] = "open"
    /\ conn' = [conn EXCEPT ![q] = "lost"] /\ faults' = faults + 1
    /\ UNCHANGED <<setup, coordinator, client, agent, rows, starts>>

\* An agent restarts: its handlers are gone, its store stays.
Restart(c) ==
    /\ faults < MaxFaults /\ faults' = faults + 1
    /\ agent' = [q \in Requests |->
           IF ClientOf(q) = c /\ (agent[q] # "off" \/ conn[q] # "none") THEN "gone" ELSE agent[q]]
    /\ conn' = [q \in Requests |->
           IF ClientOf(q) = c /\ conn[q] = "open" THEN "lost" ELSE conn[q]]
    /\ UNCHANGED <<setup, coordinator, client, rows, starts>>

\* A process of the coordinator ends, with the runs in it.
Crash(S) ==
    /\ S # {} /\ \A n \in S : run[n] \in {"waiting", "saved"}
    /\ faults < MaxFaults /\ faults' = faults + 1
    /\ run' = [n \in Runs |-> IF n \in S THEN "gone" ELSE run[n]]
    /\ unsaved' = unsaved \cup {n \in S : run[n] = "saved"}
    /\ client' = [q \in Requests |->
           IF RunOf(q) \in S /\ client[q] \in InFlight THEN "gone" ELSE client[q]]
    /\ conn' = [q \in Requests |->
           IF RunOf(q) \in S /\ conn[q] = "open" THEN "lost" ELSE conn[q]]
    /\ UNCHANGED <<setup, record, warned, agent, rows, starts>>

-----------------------------------------------------------------------------
ClientStep(q) == Health(q) \/ Post(q) \/ Receive(q) \/ GiveUp(q) \/ SeeError(q)
AgentStep(q)  == Serve(q) \/ Complete(q) \/ Reply(q) \/ Stop(q)

RunStep(n)    == AllFailed(n) \/ SaveRun(n) \/ SaveWarning(n)

Next == \/ \E n \in Runs : StartRun(n) \/ RunStep(n)
        \/ \E q \in Requests : ClientStep(q) \/ AgentStep(q) \/ LoseConnection(q)
        \/ \E c \in Clients : Restart(c)
        \/ \E S \in SUBSET Runs : Crash(S)

Spec == Init /\ [][Next]_vars

\* The goroutines run and the timeout expires; a server learns of a closed
\* connection.  A benchmark need not end.  (A request and a run take finitely
\* many steps, so fairness to all together is fairness to each.)
FairSpec ==
    /\ Spec /\ WF_vars(\E n \in Runs : RunStep(n))
    /\ WF_vars(\E q \in Requests : ClientStep(q)) /\ WF_vars(\E q \in Requests : Stop(q))

-----------------------------------------------------------------------------
(* Properties.                                                             *)

TypeOK ==
    /\ setup \in Setups /\ faults \in 0..MaxFaults
    /\ run \in [Runs -> {"none", "waiting", "saved", "complete", "partial", "error", "gone"}]
    /\ record \in [Runs -> SUBSET Assignments]
    /\ warned \in [Runs -> BOOLEAN] /\ unsaved \subseteq Runs
    /\ client \in [Requests -> {"off", "health", "post", "wait", "ok", "failed", "gone"}]
    /\ conn \in [Requests -> {"none", "open", "closed", "lost"}]
    /\ agent \in [Requests -> {"off", "running", "saved", "replied ok", "replied error", "gone"}]
    /\ rows \subseteq Requests /\ starts \in [Requests -> Nat]

\* Every result in a row of the coordinator is that of a benchmark that an
\* agent has completed and recorded in its own store.
RecordedByAgent ==
    \A n \in Runs : \A a \in record[n] : <<n, a>> \in rows

\* A request starts at most one benchmark, whatever is lost, and none on an
\* agent that wants another token.
AtMostOnce ==
    \A q \in Requests : starts[q] <= 1 /\ (starts[q] > 0 => setup.agentToken \in {"", setup.clientToken})

\* A run that returns without a warning has the results of every assignment.
\* A completed row that lacks results and has no warning is one between the
\* two saves of its run, or one whose second save never came about.  A row with
\* the warning does lack results.
SilentMeansComplete ==
    \A n \in Runs :
        /\ run[n] = "complete" => record[n] = Plans[n]
        /\ record[n] \notin {{}, Plans[n]} /\ ~warned[n] => run[n] = "saved" \/ n \in unsaved
        /\ warned[n] => record[n] \notin {{}, Plans[n]}

\* A benchmark runs on an agent only while its run waits for it, unless the
\* client gave up or the connection broke: a run that has ended without either
\* leaves nothing at work on a target for a later run to meet.
StragglersAreCutOff ==
    \A q \in Requests :
        agent[q] = "running" =>
            \/ run[RunOf(q)] = "waiting" /\ client[q] = "wait"
            \/ conn[q] \in {"closed", "lost"}

\* The coordinator's run returns, and a benchmark nobody waits for is stopped.
RunsEnd ==
    /\ []<>(\A n \in Runs : run[n] \notin {"waiting", "saved"})
    /\ []<>(\A q \in Requests : conn[q] \in {"closed", "lost"} => agent[q] # "running")
=============================================================================
