------------------------------ MODULE MCEngine ------------------------------
(***************************************************************************)
(* EngineRunner for TLC: one request per way of preparing a tool, of       *)
(* collecting its output and of parsing it.                                *)
(***************************************************************************)
EXTENDS EngineRunner

Request(e, m, v, d, b) == [engine |-> e, mock |-> m, vm |-> v, driver |-> d, bridge |-> b]

MCJobs == {Request("fio", FALSE, FALSE, "generic", FALSE),
           Request("fio", FALSE, TRUE, "generic", FALSE),
           Request("stratabench", FALSE, FALSE, "generic", FALSE),
           Request("warp", FALSE, FALSE, "generic", FALSE),
           Request("spdk", FALSE, FALSE, "generic", FALSE),
           Request("vdbench", FALSE, FALSE, "generic", FALSE),
           Request("warp", TRUE, FALSE, "generic", FALSE),
           Request("sbk", FALSE, FALSE, "postgresql", TRUE),
           Request("sbk", FALSE, FALSE, "kafka", FALSE),
           Request("sbk", FALSE, FALSE, "generic", FALSE)}

\* A request meets what the same one has left.  The native engine is also
\* followed by fio; no other two read or write the same file.
MCAfter ==
    [j \in MCJobs |->
        {j} \cup {k \in MCJobs : j.engine = "stratabench" /\ k.engine = "fio"}]
=============================================================================
