----------------------------- MODULE MCService -----------------------------
(* Small instances of ResultService for TLC. *)
EXTENDS ResultService, TLC

CONSTANTS r1, r2, r3, r4, c1, c2

\* The third one has a p99 of more than ten times its p50.
Out(i, l) == [iops |-> i, p50 |-> 11, p99 |-> l]
MCResults == {Out(100, 100), Out(89, 110), Out(102, 116)}
Symmetry == Permutations(Callers)

Row(p, t, results, at) ==
    [key |-> <<p, t>>, status |-> "completed", results |-> results, passed |-> TRUE, at |-> at]

\* An old run and two recent ones, one of them of another profile.
MCStored == (r1 :> Row("p", "t", Out(100, 100), 1)) @@ (r2 :> Row("q", "t", Out(102, 116), 2))
            @@ (r3 :> Row("p", "u", Out(89, 110), 0))
=============================================================================
