--------------------------- MODULE RunnerContract ---------------------------
(***************************************************************************)
(* What an engine runner promises its caller: samples arrive through the   *)
(* callback only between the call of Run and its return, and Run returns   *)
(* one outcome.  AsyncRun relies on it when it clears the progress of a    *)
(* run after its last runner has returned.                                 *)
(***************************************************************************)
EXTENDS Naturals

VARIABLES
    running,   \* between the call of Run and its return
    samples,   \* callbacks made in this call
    outcome    \* "none" until the first return, then "ok" or "error"

Init == ~running /\ samples = 0 /\ outcome = "none"

Call    == ~running /\ running' /\ samples' = 0 /\ UNCHANGED outcome
Emit    == running /\ running' /\ samples' \in Nat /\ samples' > samples /\ UNCHANGED outcome
Return  == running /\ ~running' /\ outcome' \in {"ok", "error"} /\ UNCHANGED samples

Next == Call \/ Emit \/ Return
Spec == Init /\ [][Next]_<<running, samples, outcome>>
=============================================================================
