---------------------------- MODULE MCDmaOutput ----------------------------
(* Model checking of DmaOutput: the constants are given in the .cfg files. *)
EXTENDS DmaOutput
=============================================================================
