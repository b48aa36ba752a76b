------------------------------ MODULE MCDmaIf ------------------------------
(* Model checking of DmaIf: the ADC channel (data_valid_i tied high) and   *)
(* the DDC channel (data_valid_i comes and goes).                          *)
EXTENDS DmaIf
BothCounts == [c \in Ids |-> IF c = "ADC" THEN {1, 4} ELSE {2, 3}]
=============================================================================
