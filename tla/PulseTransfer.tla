---------------------------- MODULE PulseTransfer ----------------------------
(***************************************************************************)
(* What a pulse crossing between two clocks promises: a pulse taken from a *)
(* free crossing comes out exactly once, and only then is the crossing     *)
(* free again.                                                             *)
(***************************************************************************)
VARIABLES
  flight,   \* "free" | "set": taken, not out yet | "out": out, not free yet
  pulse     \* the output, 0 or 1

vars == <<flight, pulse>>

Init == flight = "free" /\ pulse = 0

Accept  == flight = "free" /\ flight' = "set" /\ UNCHANGED pulse
Deliver == flight = "set" /\ flight' = "out" /\ pulse' = 1
Drop    == pulse = 1 /\ pulse' = 0 /\ UNCHANGED flight
Release == flight = "out" /\ pulse = 0 /\ flight' = "free" /\ UNCHANGED pulse

Next == Accept \/ Deliver \/ Drop \/ Release

Spec == Init /\ [][Next]_vars
FairSpec == Spec /\ WF_vars(Deliver) /\ WF_vars(Drop) /\ WF_vars(Release)
=============================================================================
