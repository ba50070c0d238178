------------------------------ MODULE Topology ------------------------------
(***************************************************************************)
(* internal/topology: which client benchmarks which target.  A request     *)
(* names a mode, agents and targets; Build turns it into the assignments   *)
(* that the orchestrator runs in parallel, or refuses it.  A name is a     *)
(* model value; Blank is one that TrimSpace leaves empty.                  *)
(***************************************************************************)
EXTENDS Naturals, Sequences, FiniteSets, SequencesExt

CONSTANTS
    ClientNames, TargetNames,
    Blank,        \* an empty name: as a client, the local coordinator
    Unbuilt,      \* no schedule yet
    Error,        \* Build returned an error
    MaxNames      \* bound: names in a request's lists

Modes == {"auto", "single", "pool", "sweep", "shard", "matrix"}

ASSUME TopologyAssumption ==
    /\ Blank \notin ClientNames \cup TargetNames \cup Modes
    /\ Error \notin Seq([client : ClientNames \cup {Blank}, target : TargetNames])
    /\ Unbuilt # Error
    /\ MaxNames \in Nat

\* What a caller may put in the field: "other" is a word that is no mode.
ModeWords == Modes \cup {Blank, "other"}

VARIABLES
    request,   \* what RunOptions carries: mode, clients, target, targets
    schedule   \* the assignments Build returned

-----------------------------------------------------------------------------
(* Lists of names.                                                         *)

NormalizeList(items) ==
    LET out[k \in 0..Len(items)] ==
          IF k = 0 THEN <<>>
          ELSE IF items[k] = Blank \/ items[k] \in ToSet(out[k-1]) THEN out[k-1]
          ELSE Append(out[k-1], items[k])
    IN  out[Len(items)]

MergeTargets(single, list) ==
    IF list # <<>> THEN NormalizeList(list)
    ELSE IF single # Blank THEN <<single>> ELSE <<>>

-----------------------------------------------------------------------------
(* Build, for lists that are already normalized.                           *)

inferMode(clients, targets) ==
    CASE clients <= 1 /\ targets <= 1 -> "single"
      [] clients <= 1 /\ targets > 1  -> "sweep"
      [] clients > 1  /\ targets <= 1 -> "pool"
      [] OTHER                        -> "shard"

Assignment(c, t) == [client |-> c, target |-> t]

\* The only client, or the coordinator when none is named.
oneClient(clients) == IF clients = <<>> THEN Blank ELSE clients[1]

Refused(mode, clients, targets) ==
    \/ mode \notin Modes \/ targets = <<>>
    \/ mode \in {"single", "pool"} /\ Len(targets) # 1
    \/ mode \in {"single", "sweep"} /\ Len(clients) > 1
    \/ mode \in {"pool", "shard", "matrix"} /\ clients = <<>>

\* Mutant: the target index runs one past the end before it wraps.
WrapLate(i, n) == IF i > n THEN 1 ELSE i

\* targets[i % len(targets)], counted from one.
WrapIndex(i, n) == ((i - 1) % n) + 1

PairUp(mode, clients, targets) ==
    CASE mode = "single" -> <<Assignment(oneClient(clients), targets[1])>>
      [] mode = "pool"   -> [i \in 1..Len(clients) |->
                               Assignment(clients[i], targets[1])]
      [] mode = "sweep"  -> [i \in 1..Len(targets) |->
                               Assignment(oneClient(clients), targets[i])]
      [] mode = "shard"  -> [i \in 1..Len(clients) |->
                               Assignment(clients[i],
                                          targets[WrapIndex(i, Len(targets))])]
      [] mode = "matrix" -> [k \in 1..(Len(clients) * Len(targets)) |->
                               Assignment(clients[((k - 1) \div Len(targets)) + 1],
                                          targets[WrapIndex(k, Len(targets))])]

Build(mode, clients, targets) ==
    LET cs == NormalizeList(clients)
        ts == NormalizeList(targets)
        m  == IF mode \in {"auto", Blank} THEN inferMode(Len(cs), Len(ts)) ELSE mode
    IN  IF Refused(m, cs, ts) THEN Error ELSE PairUp(m, cs, ts)

-----------------------------------------------------------------------------
(* Planning one request.                                                   *)

Lists(names) == UNION {[1..n -> names \cup {Blank}] : n \in 0..MaxNames}

Init ==
    /\ request \in [mode : ModeWords, clients : Lists(ClientNames),
                    target : TargetNames \cup {Blank}, targets : Lists(TargetNames)]
    /\ schedule = Unbuilt

Plan ==
    /\ schedule = Unbuilt
    /\ schedule' = Build(request.mode, request.clients,
                         MergeTargets(request.target, request.targets))
    /\ UNCHANGED request

-----------------------------------------------------------------------------
(* Properties, against the sets of names the request mentions.             *)

named(list) == ToSet(list) \ {Blank}
Clients == named(request.clients)
Targets == IF request.targets = <<>> THEN named(<<request.target>>)
           ELSE named(request.targets)
Jobs    == ToSet(schedule)
Planned == schedule \notin {Unbuilt, Error}

\* What Build promises.  The default mode refuses a request only when it names
\* no target.  No two goroutines of a run get the same assignment, whatever was
\* repeated in the request.  Which pairs run: every client with every target,
\* except for shard, where each client gets one of the targets, no target gets
\* two clients more than another, and none is left out unless there are fewer
\* clients than targets.
CoverageByMode ==
    /\ request.mode \in {"auto", Blank} /\ schedule = Error => Targets = {}
    /\ Planned =>
        LET all   == {Assignment(c, t) : c \in IF Clients = {} THEN {Blank} ELSE Clients,
                                         t \in Targets}
            share == [t \in Targets |-> Cardinality({j \in Jobs : j.target = t})]
            shard == \/ request.mode = "shard"
                     \/ request.mode \in {"auto", Blank} /\ Cardinality(Clients) > 1
                        /\ Cardinality(Targets) > 1
        IN  /\ Cardinality(Jobs) = Len(schedule)
            /\ IF shard
               THEN /\ Jobs \subseteq all /\ Len(schedule) = Cardinality(Clients)
                    /\ {j.client : j \in Jobs} = Clients
                    /\ \A t, u \in Targets : share[t] <= share[u] + 1
               ELSE Jobs = all
=============================================================================
