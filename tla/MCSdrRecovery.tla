---------------------------- MODULE MCSdrRecovery ----------------------------
(***************************************************************************)
(* Eight handles are as many as the loop, the watchdog, the pool and the   *)
(* broker can refer to at once.                                            *)
(***************************************************************************)
EXTENDS SdrRecovery

EightHandles == 1..8
=============================================================================
