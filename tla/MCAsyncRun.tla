---------------------------- MODULE MCAsyncRun ----------------------------
(***************************************************************************)
(* AsyncRun for TLC: two local assignments race on the progress entry, a   *)
(* third one may run on an agent.                                          *)
(***************************************************************************)
EXTENDS AsyncRun, TLC

CONSTANTS a1, a2, a3, s1, w1
=============================================================================
