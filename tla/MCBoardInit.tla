----------------------------- MODULE MCBoardInit -----------------------------
(***************************************************************************)
(* The bring-up for TLC: all four controllers, three registers per device. *)
(* Every init memory has two entries or more and ends with the last        *)
(* address; the software's table differs from it in every register.        *)
(***************************************************************************)
EXTENDS BoardInit

Entry(a, d) == [addr |-> a, data |-> d]

MCInitMem ==
  <<<<Entry(0, 1), Entry(1, 2), Entry(2, 1)>>,
    <<Entry(1, 2), Entry(0, 1), Entry(2, 1)>>,
    <<Entry(0, 1), Entry(0, 2), Entry(2, 2)>>,
    <<Entry(0, 2), Entry(2, 1)>>>>

MCcdce72010_reg == [a \in 0..2 |-> IF a = 1 THEN 1 ELSE 2]
MCDelayFor == [v \in 0..2 |-> v + 1]
=============================================================================
