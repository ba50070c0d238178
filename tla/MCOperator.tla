----------------------------- MODULE MCOperator -----------------------------
(* BenchmarkOperator for TLC.  The cfg files name the replicas, specs and   *)
(* tokens as model values and set the bounds; safety runs use symmetry.     *)
EXTENDS BenchmarkOperator, TLC

Symmetry == Permutations(Operators) \cup Permutations(Works) \cup Permutations(Tokens)
=============================================================================
