------------------------------ MODULE Planning ------------------------------
(***************************************************************************)
(* From an intent to a schedule: internal/planner, internal/profile,       *)
(* internal/validator and internal/agentloop, up to the topology.Build of  *)
(* module Topology.  A front door (agent command, API, MCP tool, manifest) *)
(* hands over options and an intent; the planner takes the answer of a     *)
(* language model or a keyword match, merges what ParseIntent found and    *)
(* then the options; the guide asks questions and adds defaults; the       *)
(* overrides go into a copy of the profile, which is validated and run.    *)
(*                                                                         *)
(* What regular expressions find in an intent is a record.  Of the         *)
(* parameters, those that decide how long a run takes and whether it may   *)
(* start are kept, in all their spellings.  Blank stands for every empty   *)
(* string, an absent answer included.                                      *)
(***************************************************************************)
EXTENDS Topology

CONSTANTS
    Asks,         \* what may be asked: front door, options, intent, answer
    Library,      \* the profiles directory: name -> profile
    FirstProfile, \* the first name in it
    Keywords,     \* SuggestProfile's table: name -> words
    HostOf,       \* address -> host
    Null, Text    \* parameter values: a JSON null, a string that is no number

\* Who asks and what answers may name any clients and targets, but expressions
\* over addresses find no empty ones, and a word of an intent is a mode.
ASSUME PlanningAssumption ==
    LET Naming(r) == /\ r.target \in TargetNames \cup {Blank}
                     /\ r.targets \in Seq(TargetNames \cup {Blank})
                     /\ r.clients \in Seq(ClientNames \cup {Blank})
    IN  /\ Blank \notin Asks
        /\ \A a \in Asks :
             /\ Naming(a) /\ a.topology \in ModeWords
             /\ Naming(a.intent) /\ a.intent.mode \in Modes \cup {Blank}
             /\ a.intent.clients \in Seq(ClientNames) /\ a.intent.targets \in Seq(TargetNames)
             /\ a.answer # Blank => Naming(a.answer) /\ a.answer.topology \in ModeWords

\* The files in profiles/ give a duration, if any, by the name that the engine's
\* runner reads, always for the engines with a default other than the validator's;
\* the keyword table names profiles.
ASSUME LibraryAssumption ==
    /\ {FirstProfile} \cup DOMAIN Keywords \subseteq DOMAIN Library
    /\ \A n \in DOMAIN Library :
         LET lib == Library[n]
         IN  /\ lib.minRuntime \in Nat
             /\ (IF lib.engine = "fio" THEN "duration_sec" ELSE "runtime") \notin DOMAIN lib.params
             /\ lib.engine \in {"vdbench", "sbk"} => /\ "duration_sec" \in DOMAIN lib.params
                                                    /\ lib.params["duration_sec"] # Text
    /\ \A a \in Asks : a.intent.duration \in Nat
    /\ {Null, Text} \cap Nat = {}

VARIABLES
    stage,      \* how far the loop is, or why it ended
    ask,        \* the caller's options, intent and language model
    plan,       \* planner.PlanResult
    questions,  \* Guidance.Questions, by topic
    params,     \* parameters of the profile's copy
    verdict     \* the validation: passed, and the duration it judged

planVars == <<stage, ask, plan, questions, params, verdict>>

First(a, b)     == IF a # Blank THEN a ELSE b
FirstList(a, b) == IF a # <<>> THEN a ELSE b

\* A map with f's entries, and g's for the other keys; a map with one entry.
Overlay(f, g) == [k \in DOMAIN f \cup DOMAIN g |-> IF k \in DOMAIN f THEN f[k] ELSE g[k]]
Entry(k, v)   == [x \in {k} |-> v]

-----------------------------------------------------------------------------
(* ParseIntent.                                                            *)

OneHost(clients, targets) ==
    /\ clients # <<>> /\ targets # <<>>
    /\ Cardinality({HostOf[a] : a \in ToSet(clients \o targets)}) = 1

\* Mutant: several servers are a sweep, whoever the clients are.
SweepFirst(i) ==
    IF i.mode # Blank THEN i.mode
    ELSE IF Len(i.targets) > 1 THEN "sweep"
    ELSE IF i.clients # <<>> /\ i.targets # <<>> THEN "shard"
    ELSE IF Len(i.clients) > 1 THEN "pool" ELSE Blank

inferTopology(i) ==
    IF i.mode # Blank THEN i.mode
    ELSE IF i.clients # <<>> /\ i.targets # <<>> THEN "shard"
    ELSE IF Len(i.clients) > 1 THEN "pool"
    ELSE IF Len(i.targets) > 1 THEN "sweep" ELSE Blank

\* A duration sets two parameters; a word or the hosts may say "colocated".
\* (Others, as "ramp_time" or "iodepth", come from one pattern each.)
intentParams(i) ==
    LET timed == IF i.duration > 0 THEN {"duration_sec", "runtime"} ELSE {}
        sized == IF "size" \in i.words THEN {"object_size"} ELSE {}
        local == IF "same host" \in i.words \/ OneHost(i.clients, i.targets) THEN {"colocated"} ELSE {}
    IN  [k \in timed \cup sized \cup local |-> IF k \in timed THEN i.duration ELSE Text]

ParseIntent(i) ==
    [target   |-> First(i.target, IF Len(i.targets) = 1 THEN i.targets[1] ELSE Blank),
     targets  |-> i.targets, clients |-> i.clients,
     topology |-> IF OneHost(i.clients, i.targets) THEN "single" ELSE inferTopology(i),
     params   |-> intentParams(i)]

-----------------------------------------------------------------------------
(* planner.Plan and MergePlan.                                             *)

\* The best score; a tie is broken by the order of a map.
SuggestProfile(words) ==
    LET score(n) == Cardinality(Keywords[n] \cap words)
        best == {n \in DOMAIN Keywords : score(n) > 0 /\ \A m \in DOMAIN Keywords : score(m) <= score(n)}
    IN  IF best = {} THEN {FirstProfile} ELSE best

\* The answer counts if it names a profile of the directory.
bases(a) ==
    IF a.answer # Blank /\ a.answer.profile \in DOMAIN Library THEN {a.answer}
    ELSE {[profile |-> n, target |-> Blank, targets |-> <<>>, clients |-> <<>>,
           topology |-> Blank, params |-> <<>>] : n \in SuggestProfile(a.intent.words)}

mergeParsedIntoPlan(base, parsed) ==
    [profile  |-> base.profile,
     target   |-> First(base.target, parsed.target),
     targets  |-> FirstList(base.targets, parsed.targets),
     clients  |-> FirstList(base.clients, parsed.clients),
     topology |-> First(base.topology, parsed.topology),
     params   |-> Overlay(base.params, parsed.params)]

\* Mutant: options only fill what the plan leaves open.
MergeOpen(p, o) ==
    [p EXCEPT !.target   = First(@, o.target),   !.targets = FirstList(@, o.targets),
              !.clients  = FirstList(@, o.clients),
              !.topology = First(First(@, o.topology), "auto")]

MergePlan(p, o) ==
    [p EXCEPT !.target   = First(o.target, @),   !.targets = FirstList(o.targets, @),
              !.clients  = FirstList(o.clients, @),
              !.topology = IF o.topology \notin {Blank, "auto"} THEN o.topology ELSE First(@, "auto")]

\* The agent command passes its target also as the list.
options(a) ==
    [target  |-> a.target, clients |-> a.clients, topology |-> a.topology,
     targets |-> IF a.front = "agent" THEN MergeTargets(a.target, a.targets) ELSE a.targets]

runTargets(p) == FirstList(p.targets, <<p.target>>)

LoadByName(name) == Library[name]

\* The plan and guide commands go on without a target, the loop does not.
MakePlan ==
    /\ stage = "plan"
    /\ \E base \in bases(ask) :
         plan' = MergePlan(mergeParsedIntoPlan(base, ParseIntent(ask.intent)), options(ask))
    /\ stage' = IF ask.front # "guide" /\ plan'.target = Blank /\ plan'.targets = <<>>
                THEN "no target" ELSE "guide"
    /\ UNCHANGED <<ask, questions, params, verdict, request, schedule>>

-----------------------------------------------------------------------------
(* Guide.                                                                  *)

Given(p, keys) == DOMAIN p.params \cap keys # {}
HasTarget(p)   == p.target # Blank \/ p.targets # <<>>
countDevices(p) == IF p.targets # <<>> THEN Len(p.targets) ELSE IF p.target = Blank THEN 0 ELSE 1

\* What must be cleared up first, by topic.
Questions(p, words, lib) ==
    {q \in {"layer", "target", "luns", "dsn", "topology"} :
       CASE q = "layer"  -> "nvme" \in words /\ Given(p, {"object_size"}) /\ lib.layer \notin {"object", "vm-object"}
         [] q = "target" -> lib.engine \in {"fio", "vdbench", "warp"} /\ ~HasTarget(p)
         [] q = "luns"   -> lib.engine = "vdbench" /\ countDevices(p) < 2
         [] q = "dsn"    -> lib.engine = "sbk" /\ p.target = Blank /\ ~Given(p, {"dsn"})
         [] q = "topology" -> p.clients # <<>> /\ ~HasTarget(p)}

\* EngineCatalog: a parameter of the kept kind, and its aliases.
EngineCatalog(engine) ==
    CASE engine = "fio"     -> {<<"runtime", {"duration_sec"}>>, <<"ramp_time", {}>>}
      [] engine = "vdbench" -> {<<"duration_sec", {}>>, <<"warmup_sec", {"ramp_time"}>>}
      [] OTHER              -> {<<"duration_sec", {}>>}

\* The profile's own values, for what the plan does not set.
suggestEngineDefaults(p, lib) ==
    LET open == {e[1] : e \in {e \in EngineCatalog(lib.engine) : ~Given(p, {e[1]} \cup e[2])}}
    IN  Restrict(lib.params, open \cap DOMAIN lib.params)

\* The topology of Guidance.AppliedDefaults.
defaultTopology(p) ==
    CASE p.clients # <<>> /\ p.targets # <<>> /\ p.topology = Blank -> "shard"
      [] p.clients # <<>> /\ p.targets # <<>> /\ p.topology = "shard" /\ Given(p, {"colocated"}) -> "single"
      [] OTHER -> Blank

applyGuidanceDefaults(p, lib) ==
    [p EXCEPT !.params = Overlay(@, suggestEngineDefaults(p, lib)),
              !.topology = IF @ \in {Blank, "auto"} THEN First(defaultTopology(p), @) ELSE @]

-----------------------------------------------------------------------------
(* Overrides.                                                              *)

normalizeParamKey(k) ==
    CASE k = "duration" -> "duration_sec"
      [] k \in {"ramp", "warmup_sec"} -> "ramp_time"
      [] OTHER -> k

\* Mutant: runtime is filled in only where it is missing.
FillMissing(ps) ==
    IF "duration_sec" \in DOMAIN ps THEN Overlay(ps, Entry("runtime", ps["duration_sec"]))
    ELSE IF "runtime" \in DOMAIN ps THEN Overlay(ps, Entry("duration_sec", ps["runtime"])) ELSE ps

syncParamAliases(ps) ==
    LET timed == IF "duration_sec" \in DOMAIN ps THEN Overlay(Entry("runtime", ps["duration_sec"]), ps)
                 ELSE IF "runtime" \in DOMAIN ps THEN Overlay(Entry("duration_sec", ps["runtime"]), ps)
                 ELSE ps
    IN  IF "ramp_time_sec" \in DOMAIN ps THEN Overlay(timed, Entry("ramp_time", ps["ramp_time_sec"])) ELSE timed

\* Of two spellings of one parameter either may win: the order of a map.
ApplyOverrides(ps, over) ==
    LET given == {k \in DOMAIN over : over[k] # Null}
        keys  == {normalizeParamKey(k) : k \in given}
        wins  == {f \in [keys -> {over[k] : k \in given}] :
                    \A n \in keys : \E k \in given : normalizeParamKey(k) = n /\ f[n] = over[k]}
    IN  IF DOMAIN over = {} THEN {ps} ELSE {syncParamAliases(Overlay(f, ps)) : f \in wins}

\* Questions end the loop unless the caller said --yes.
Guide ==
    /\ stage = "guide"
    /\ LET lib == LoadByName(plan.profile)
           qs  == Questions(plan, ask.intent.words, lib)
       IN  /\ questions' = qs
           /\ IF ask.front = "guide" THEN stage' = "advised" /\ UNCHANGED <<plan, params>>
              ELSE /\ plan' = applyGuidanceDefaults(plan, lib)
                   /\ params' \in ApplyOverrides(lib.params, plan'.params)
                   /\ stage' = IF qs # {} /\ ~ask.yes THEN "clarify" ELSE "validate"
    /\ UNCHANGED <<ask, verdict, request, schedule>>

-----------------------------------------------------------------------------
(* Validation and the start of the run.                                    *)

\* A value that is no number counts as absent.
ParamInt(ps, k, default) ==
    IF k \in DOMAIN ps /\ ps[k] # Text THEN ps[k] ELSE default

workloadDuration(ps) == ParamInt(ps, "runtime", ParamInt(ps, "duration_sec", 60))
workloadRamp(ps)     == ParamInt(ps, "ramp_time", ParamInt(ps, "ramp_time_sec", 0))

\* What the runner of an engine reads.
EngineDuration(engine, ps) ==
    CASE engine = "fio" -> ParamInt(ps, "runtime", 60)
      [] engine \in {"vdbench", "sbk"} -> ParamInt(ps, "duration_sec", 300)
      [] OTHER -> ParamInt(ps, "duration_sec", 60)

\* Of the host's rules only one is an error, the others warn: a profile that
\* runs in a guest needs ssh.
RequiresSSH(lib)           == lib.layer \in {"vm-block", "vm-file", "vm-afa"}
ValidateHardware(lib, ssh) == RequiresSSH(lib) => ssh

\* Rules about the data set and percentiles may pass or fail.
Passes(lib, ps, others) ==
    /\ others
    /\ lib.directIO => lib.layer = "object" \/ ParamInt(ps, "direct", 0) = 1
    /\ workloadDuration(ps) >= lib.minRuntime
    /\ workloadRamp(ps) >= lib.minRamp

Validate ==
    /\ stage = "validate"
    /\ \E others, ssh \in BOOLEAN :
         verdict' = [passed |-> /\ Passes(LoadByName(plan.profile), params, others)
                                /\ ValidateHardware(LoadByName(plan.profile), ssh),
                     duration |-> workloadDuration(params)]
    /\ stage' = IF verdict'.passed \/ ask.skipValidate THEN "start" ELSE "invalid"
    /\ UNCHANGED <<ask, plan, questions, params, request, schedule>>

\* Service.Run takes the profile, the plan's lists and its mode.
Start ==
    /\ stage = "start" /\ stage' = "request"
    /\ request' = [mode |-> plan.topology, clients |-> plan.clients,
                   target |-> First(plan.target, runTargets(plan)[1]), targets |-> runTargets(plan)]
    /\ UNCHANGED <<ask, plan, questions, params, verdict, schedule>>

-----------------------------------------------------------------------------
NoPlan == [profile |-> FirstProfile, target |-> Blank, targets |-> <<>>, clients |-> <<>>,
           topology |-> Blank, params |-> <<>>]

\* The run command names profile, lists and mode itself.
Direct == Init /\ stage = "request" /\ ask = Blank

Asked == /\ ask \in Asks /\ stage = "plan" /\ schedule = Unbuilt
         /\ request = [mode |-> "auto", clients |-> <<>>, target |-> Blank, targets |-> <<>>]

PlanningInit ==
    /\ Direct \/ Asked
    /\ plan = NoPlan /\ questions = {} /\ params = <<>> /\ verdict = [passed |-> FALSE, duration |-> 0]

PlanningNext ==
    \/ MakePlan \/ Guide \/ Validate \/ Start
    \/ stage = "request" /\ Plan /\ UNCHANGED planVars

PlanningSpec == PlanningInit /\ [][PlanningNext]_<<planVars, request, schedule>>

-----------------------------------------------------------------------------
(* Properties.                                                             *)

Scheduled == ask # Blank /\ Planned

\* docs/AGENTIC.md: "CLI flags (--target, --clients, --topology) override parsed
\* intent".  What a run works on is what the flags name, whatever the intent or
\* a language model says.  Through the API, MCP or a manifest only the list
\* --targets does: there a single target gives way to the intent's servers.
FlagsWin ==
    Scheduled =>
        LET o == options(ask)
        IN  /\ o.targets # <<>> => \A j \in Jobs : j.target \in named(o.targets)
            /\ named(o.clients) # {} => \A j \in Jobs : j.client \in named(o.clients)
            /\ o.topology \notin {Blank, "auto"} => request.mode = o.topology

\* However the duration was spelled and whoever set it, the engine runs as
\* long as the validator judged: no run is shorter than its profile's minimum
\* unless validation is skipped.  A duration in the intent reaches the engine,
\* past the guide's defaults and the profile's own value.
DurationKept ==
    Scheduled =>
        LET lib == LoadByName(plan.profile)
            runs == EngineDuration(lib.engine, params)
        IN  /\ runs >= lib.minRuntime \/ ask.skipValidate
            /\ runs = verdict.duration \/ params["duration_sec"] = Text
            /\ ask.answer = Blank /\ ask.intent.duration > 0 => runs = ask.intent.duration

\* A topology that ParseIntent inferred from the intent's own lists is never
\* refused, when the addresses of a role are on different hosts and neither
\* options nor an answer change the lists.
InferredTopologyRuns ==
    (/\ ask # Blank /\ stage = "request" /\ ask.answer = Blank /\ ask.intent.mode = Blank
     /\ ask.targets = <<>> /\ ask.clients = <<>> /\ ask.front # "agent"
     /\ ask.topology \in {Blank, "auto"}
     /\ \A l \in {ask.intent.clients, ask.intent.targets} :
          Cardinality({HostOf[a] : a \in ToSet(l)}) = Len(l))
    => schedule # Error
=============================================================================
