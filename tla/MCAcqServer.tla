---------------------------- MODULE MCAcqServer ----------------------------
(* Model checking of AcqServer. *)
EXTENDS AcqServer, TLC
CONSTANTS c1, c2, adc, ddc
One == {c1}
Two == {c1, c2}
OnlyAdc == {adc}
OnlyDdc == {ddc}
None == {}
Alike == Permutations(Conns)
Acquisition == {"CAPTURE", "GET_SAMPLES"}
=============================================================================
