------------------------------ MODULE DmaStatus ------------------------------
(***************************************************************************)
(* dma_status_reg_synch.vhd: how the software learns that a transfer is    *)
(* complete or has overflowed.  dma_if.vhd toggles dma_complete in the DMA *)
(* clock domain and holds dma_ovf as a level in the sampling clock domain; *)
(* this entity brings both into the bus clock domain and keeps two sticky  *)
(* bits, which capture_samples (low_level_op.c) clears before a capture.   *)
(***************************************************************************)
EXTENDS Integers, Sequences

VARIABLES
  dma_complete_i, dma_ovf_i,          \* the two inputs
  s_dma_complete,                     \* s_dma_complete_d1, d2, d3
  s_dma_complete_status,
  s_dma_ovf,                          \* s_dma_ovf_d1, d2
  s_dma_ovf_status,
  dma_complete_synch_glue, dma_ovf_synch_glue,   \* the status register
  capture,       \* "idle" | "cleared" | "started" | "running"
  completed,     \* the capture has completed since the last clear (history)
  overflowed,    \* the current capture has overflowed (history)
  owed           \* it has, since the last clear (history)

synchVars == <<s_dma_complete, s_dma_complete_status, s_dma_ovf, s_dma_ovf_status>>
statusVars == <<dma_complete_synch_glue, dma_ovf_synch_glue>>
inputVars == <<dma_complete_i, dma_ovf_i>>
historyVars == <<completed, overflowed, owed>>
vars == <<synchVars, statusVars, inputVars, capture, historyVars>>

Init ==
  /\ dma_complete_i = FALSE
  /\ dma_ovf_i = FALSE
  /\ s_dma_complete = <<FALSE, FALSE, FALSE>>
  /\ s_dma_complete_status = FALSE
  /\ s_dma_ovf = <<FALSE, FALSE>>
  /\ s_dma_ovf_status = FALSE
  /\ dma_complete_synch_glue = FALSE
  /\ dma_ovf_synch_glue = FALSE
  /\ capture = "idle"
  /\ completed = FALSE
  /\ overflowed = FALSE
  /\ owed = FALSE

-----------------------------------------------------------------------------
MutTwoStages ==
  /\ s_dma_complete' = <<dma_complete_i, s_dma_complete[1]>>
  /\ s_dma_complete_status' = (s_dma_complete[2] # s_dma_complete[1])
  /\ s_dma_ovf' = <<dma_ovf_i, s_dma_ovf[1]>>
  /\ s_dma_ovf_status' = s_dma_ovf[2]

MutRisingEdgeOnly ==
  /\ s_dma_complete' = <<dma_complete_i, s_dma_complete[1], s_dma_complete[2]>>
  /\ s_dma_complete_status' = (s_dma_complete[2] /\ ~s_dma_complete[3])
  /\ s_dma_ovf' = <<dma_ovf_i, s_dma_ovf[1]>>
  /\ s_dma_ovf_status' = s_dma_ovf[2]

p_dma_status_synch ==
  /\ s_dma_complete' = <<dma_complete_i, s_dma_complete[1], s_dma_complete[2]>>
  /\ s_dma_complete_status' = (s_dma_complete[3] # s_dma_complete[2])
  /\ s_dma_ovf' = <<dma_ovf_i, s_dma_ovf[1]>>
  /\ s_dma_ovf_status' = s_dma_ovf[2]

MutNotSticky(clear) ==
  /\ dma_complete_synch_glue' = s_dma_complete_status
  /\ dma_ovf_synch_glue' = (s_dma_ovf_status \/ (dma_ovf_synch_glue /\ ~clear))

MutWrongStatus(clear) ==
  /\ dma_complete_synch_glue' =
       (s_dma_complete_status \/ (dma_complete_synch_glue /\ ~clear))
  /\ dma_ovf_synch_glue' = (s_dma_complete_status \/ (dma_ovf_synch_glue /\ ~clear))

(* A detected condition wins over the software's write of 0. *)
p_dma_status_reg(clear) ==
  /\ dma_complete_synch_glue' =
       (s_dma_complete_status \/ (dma_complete_synch_glue /\ ~clear))
  /\ dma_ovf_synch_glue' = (s_dma_ovf_status \/ (dma_ovf_synch_glue /\ ~clear))

(* One edge of bus_clk_i. *)
BusClk(clear) ==
  /\ p_dma_status_synch
  /\ p_dma_status_reg(clear)

Tick == BusClk(FALSE) /\ UNCHANGED <<inputVars, capture, historyVars>>

(* capture_samples writes 0 to the status register.  A CAPTURE may come    *)
(* while the previous one runs: it clears the bits and then fails, so the  *)
(* capture goes on.                                                        *)
Clear ==
  /\ BusClk(TRUE)
  /\ capture' = IF capture = "idle" THEN "cleared" ELSE capture
  /\ completed' = FALSE
  /\ owed' = FALSE
  /\ UNCHANGED <<inputVars, overflowed>>

(* It then writes the capture control register, on a later bus clock. *)
Start ==
  /\ capture = "cleared"
  /\ BusClk(FALSE)
  /\ capture' = "started"
  /\ UNCHANGED <<inputVars, historyVars>>

-----------------------------------------------------------------------------
(* dma_if.vhd, on its own clocks: start_acq_trig clears the overflow bit,  *)
Trigger ==
  /\ capture = "started"
  /\ capture' = "running"
  /\ dma_ovf_i' = FALSE
  /\ overflowed' = FALSE
  /\ owed' = FALSE
  /\ UNCHANGED <<synchVars, statusVars, dma_complete_i, completed>>

(* a sample that finds the FIFO full sets it for the rest of the capture,  *)
Overflow ==
  /\ capture = "running"
  /\ dma_ovf_i' = TRUE
  /\ overflowed' = TRUE
  /\ owed' = TRUE
  /\ UNCHANGED <<synchVars, statusVars, dma_complete_i, capture, completed>>

(* and the hand-over of the word with TLAST toggles dma_complete.  Timing  *)
(* assumption: a capture outlasts the three synchroniser stages, so that   *)
(* two toggles are never both on their way.                                *)
Complete ==
  /\ capture = "running"
  /\ \A i \in 1..3 : s_dma_complete[i] = dma_complete_i
  /\ dma_complete_i' = ~dma_complete_i
  /\ capture' = "idle"
  /\ completed' = TRUE
  /\ UNCHANGED <<synchVars, statusVars, dma_ovf_i, overflowed, owed>>

Next == Tick \/ Clear \/ Start \/ Trigger \/ Overflow \/ Complete

Spec == Init /\ [][Next]_vars

(* The bus clock runs. *)
FairSpec == Spec /\ WF_vars(Tick)

-----------------------------------------------------------------------------
(* Every register of the entity is a bit or a shift register of bits. *)
TypeOK ==
  /\ dma_complete_i \in BOOLEAN
  /\ dma_ovf_i \in BOOLEAN
  /\ s_dma_complete \in [1..3 -> BOOLEAN]
  /\ s_dma_complete_status \in BOOLEAN
  /\ s_dma_ovf \in [1..2 -> BOOLEAN]
  /\ s_dma_ovf_status \in BOOLEAN
  /\ dma_complete_synch_glue \in BOOLEAN
  /\ dma_ovf_synch_glue \in BOOLEAN
  /\ capture \in {"idle", "cleared", "started", "running"}
  /\ completed \in BOOLEAN
  /\ overflowed \in BOOLEAN
  /\ owed \in BOOLEAN

(* No change of an input is still on its way to the status register. *)
Settled ==
  /\ \A i \in 1..3 : s_dma_complete[i] = dma_complete_i
  /\ ~s_dma_complete_status
  /\ \A i \in 1..2 : s_dma_ovf[i] = dma_ovf_i
  /\ s_dma_ovf_status = dma_ovf_i
  /\ dma_ovf_i => dma_ovf_synch_glue

(* A completion since the last clear is shown or on its way: no toggle is  *)
(* lost between the clock domains, and the bit stays until it is cleared.  *)
CompletionNotLost ==
  completed =>
    \/ dma_complete_synch_glue
    \/ s_dma_complete_status
    \/ s_dma_complete # <<dma_complete_i, dma_complete_i, dma_complete_i>>

(* An overflow is shown in the end, unless software clears the register or *)
(* the next trigger takes the level away first.                            *)
OverflowShown == owed ~> (dma_ovf_synch_glue \/ ~owed)

(* A completion is shown in the end, unless software clears the register.  *)
CompletionShown == completed ~> (dma_complete_synch_glue \/ ~completed)

(* low_level_op.c:173, "Clear status registers before proceeding", and     *)
(* bpm_adc_ddc_acquire_data.m:39-41, "Overflow detected": the bit read     *)
(* after a capture is about that capture.                                  *)
OverflowIsOfThisCapture ==
  capture = "idle" /\ completed /\ Settled /\ dma_ovf_synch_glue => overflowed
=============================================================================
