---------------------------- MODULE MCDmaStatus ----------------------------
(* Model checking of DmaStatus, which has no parameters. *)
EXTENDS DmaStatus
=============================================================================
