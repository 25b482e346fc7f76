---------------------------- MODULE MCAutoRecovery ----------------------------
(* Overlapping recovery runs and a request, with short durations. *)
EXTENDS AutoRecovery, TLC
=============================================================================
