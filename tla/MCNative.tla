------------------------------ MODULE MCNative ------------------------------
(***************************************************************************)
(* NativeEngine for TLC.                                                   *)
(***************************************************************************)
EXTENDS NativeEngine

MCConfigs == {[uring |-> TRUE, pattern |-> "read", block |-> TRUE],
              [uring |-> FALSE, pattern |-> "mixed", block |-> TRUE],
              [uring |-> FALSE, pattern |-> "write", block |-> FALSE]}
=============================================================================
