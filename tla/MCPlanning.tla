----------------------------- MODULE MCPlanning -----------------------------
(***************************************************************************)
(* Topology, Planning and Aggregate for TLC: every direct request with     *)
(* lists of up to three names, blank and repeated ones included; intents   *)
(* whose lists and options vary; intents and answers whose parameters      *)
(* vary; and the results of the runs of some requests of every shape.      *)
(***************************************************************************)
EXTENDS Aggregate

CONSTANTS c1, c2, c3, t1, t2, t3

\* Five of the profiles, with the parameters and rules of their files.
Files ==
    [nvme |-> [engine |-> "fio", layer |-> "block", directIO |-> TRUE, minRuntime |-> 600, minRamp |-> 60,
               params |-> [runtime |-> 600, ramp_time |-> 60, direct |-> 1]],
     afa  |-> [engine |-> "vdbench", layer |-> "block", directIO |-> TRUE, minRuntime |-> 300, minRamp |-> 60,
               params |-> [duration_sec |-> 300, warmup_sec |-> 60]],
     s3   |-> [engine |-> "warp", layer |-> "object", directIO |-> FALSE, minRuntime |-> 300, minRamp |-> 0,
               params |-> [duration_sec |-> 300]],
     pg   |-> [engine |-> "sbk", layer |-> "application", directIO |-> FALSE, minRuntime |-> 600, minRamp |-> 60,
               params |-> [duration_sec |-> 600, ramp_time_sec |-> 60]],
     vm   |-> [engine |-> "fio", layer |-> "vm-block", directIO |-> TRUE, minRuntime |-> 300, minRamp |-> 60,
               params |-> [runtime |-> 300, ramp_time |-> 60, direct |-> 1]]]

Table == [nvme |-> {"nvme", "database"}, vm |-> {"guest"}, afa |-> {"afa"}, s3 |-> {"s3"}, pg |-> {"postgres", "database"}]

\* c1 and t1 share a host, and so do c2 and c3.
Hosts == (c1 :> 1) @@ (t1 :> 1) @@ (c2 :> 2) @@ (c3 :> 2) @@ (t2 :> 3) @@ (t3 :> 4)

Answer(p, ps, cs, ts, m) ==
    [profile |-> p, target |-> Blank, targets |-> ts, clients |-> cs, topology |-> m, params |-> ps]

ListAsks ==
    [front : {"agent", "request", "guide"}, target : {Blank, t1}, targets : {<<>>, <<t2, t3>>},
     clients : {<<>>, <<c1>>, <<c1, c2>>}, topology : {Blank, "auto", "pool"}, yes : {TRUE}, skipValidate : {FALSE},
     intent : [words : {{"s3"}, {"afa", "same host"}}, duration : {0}, target : {Blank, t3},
               targets : {<<>>, <<t1>>, <<t2, t3>>}, clients : {<<>>, <<c1>>, <<c1, c2>>, <<c2, c3>>},
               mode : {Blank, "matrix"}],
     answer : {Blank, Answer("s3", <<>>, <<c3>>, <<t1, t2>>, "shard")}]

Spellings == UNION {[ks -> {30, 900, Null, Text}] : ks \in SUBSET {"duration", "duration_sec", "runtime"}}

OneDevice(words, durations, answers) ==
    [front : {"agent"}, target : {t1}, targets : {<<>>}, clients : {<<>>}, topology : {"auto"},
     yes : BOOLEAN, skipValidate : BOOLEAN,
     intent : [words : words, duration : durations, target : {Blank}, targets : {<<>>}, clients : {<<>>}, mode : {Blank}],
     answer : answers]

ParamAsks ==
    OneDevice(SUBSET {"nvme", "s3", "afa", "size", "database", "guest"}, {0, 30, 900}, {Blank})
    \cup OneDevice({{}, {"nvme", "size"}}, {0, 900},
                   {Answer(p, ps, <<>>, <<>>, Blank) : p \in {"nvme", "afa", "s3", "unknown"}, ps \in Spellings})

AllAsks == ListAsks \cup ParamAsks

\* Requests for one, two, three and four assignments.
Requests ==
    {r \in [mode : {"auto", "matrix"}, clients : {<<>>, <<c1>>, <<c1, c2>>, <<c1, c2, c3>>},
            target : {Blank}, targets : {<<t1>>, <<t1, t2>>}] :
       ~(r.mode = "matrix" /\ Len(r.clients) = 3 /\ Len(r.targets) = 2)}

Second(seq, iops, min, avg, max) == [seq |-> seq, iops |-> iops, min |-> min, avg |-> avg, max |-> max]

\* No samples and no minimum; two seconds; one second; a late start.
Outcomes ==
    {[iops |-> 100, min |-> 0, max |-> 60, intervals |-> <<>>],
     [iops |-> 200, min |-> 6, max |-> 48, intervals |-> <<Second(1, 7, 0, 12, 48), Second(2, 9, 6, 24, 36)>>],
     [iops |-> 50,  min |-> 4, max |-> 36, intervals |-> <<Second(1, 3, 4, 36, 36)>>],
     [iops |-> 10,  min |-> 8, max |-> 12, intervals |-> <<Second(2, 1, 8, 12, 12)>>]}
=============================================================================
