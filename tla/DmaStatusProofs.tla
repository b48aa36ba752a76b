--------------------------- MODULE DmaStatusProofs ---------------------------
(***************************************************************************)
(* Theorems about DmaStatus: the registers keep their types, and no        *)
(* completion is lost between the DMA clock, the bus clock and the         *)
(* software's clear.                                                       *)
(***************************************************************************)
EXTENDS DmaStatus, TLAPS

(* Three bits are a value of the completion synchroniser. *)
LEMMA ThreeBits ==
  ASSUME NEW a \in BOOLEAN, NEW b \in BOOLEAN, NEW c \in BOOLEAN
  PROVE  <<a, b, c>> \in [1..3 -> BOOLEAN]
OBVIOUS

(* Two bits are a value of the overflow synchroniser. *)
LEMMA TwoBits ==
  ASSUME NEW a \in BOOLEAN, NEW b \in BOOLEAN
  PROVE  <<a, b>> \in [1..2 -> BOOLEAN]
OBVIOUS

(* What one edge of the bus clock does to the types of the registers it    *)
(* drives, whether software clears or not.                                 *)
LEMMA BusClkType ==
  ASSUME TypeOK, NEW clear \in BOOLEAN, BusClk(clear)
  PROVE  /\ s_dma_complete' \in [1..3 -> BOOLEAN]
         /\ s_dma_complete_status' \in BOOLEAN
         /\ s_dma_ovf' \in [1..2 -> BOOLEAN]
         /\ s_dma_ovf_status' \in BOOLEAN
         /\ dma_complete_synch_glue' \in BOOLEAN
         /\ dma_ovf_synch_glue' \in BOOLEAN
<1>1. s_dma_complete' \in [1..3 -> BOOLEAN]
  BY ThreeBits DEF TypeOK, BusClk, p_dma_status_synch
<1>2. s_dma_ovf' \in [1..2 -> BOOLEAN]
  BY TwoBits DEF TypeOK, BusClk, p_dma_status_synch
<1>3. /\ s_dma_complete_status' \in BOOLEAN
      /\ s_dma_ovf_status' \in BOOLEAN
  BY DEF TypeOK, BusClk, p_dma_status_synch
<1>4. /\ dma_complete_synch_glue' \in BOOLEAN
      /\ dma_ovf_synch_glue' \in BOOLEAN
  BY DEF TypeOK, BusClk, p_dma_status_reg
<1> QED
  BY <1>1, <1>2, <1>3, <1>4

(* The registers of dma_status_reg_synch.vhd keep their types. *)
THEOREM TypeCorrect == Spec => []TypeOK
<1>1. Init => TypeOK
  <2> SUFFICES ASSUME Init
               PROVE  TypeOK
    OBVIOUS
  <2>1. <<FALSE, FALSE, FALSE>> \in [1..3 -> BOOLEAN]
    BY ThreeBits, Zenon
  <2>2. <<FALSE, FALSE>> \in [1..2 -> BOOLEAN]
    BY TwoBits, Zenon
  <2> QED
    BY <2>1, <2>2, Zenon DEF Init, TypeOK
<1>2. TypeOK /\ [Next]_vars => TypeOK'
  <2> SUFFICES ASSUME TypeOK, [Next]_vars
               PROVE  TypeOK'
    OBVIOUS
  <2>1. CASE Tick
    BY <2>1, BusClkType DEF Tick, TypeOK, inputVars, historyVars
  <2>2. CASE Clear
    BY <2>2, BusClkType DEF Clear, TypeOK, inputVars
  <2>3. CASE Start
    BY <2>3, BusClkType DEF Start, TypeOK, inputVars, historyVars
  <2>4. CASE Trigger
    BY <2>4 DEF Trigger, TypeOK, synchVars, statusVars
  <2>5. CASE Overflow
    BY <2>5 DEF Overflow, TypeOK, synchVars, statusVars
  <2>6. CASE Complete
    BY <2>6 DEF Complete, TypeOK, synchVars, statusVars
  <2>7. CASE UNCHANGED vars
    BY <2>7 DEF vars, TypeOK, synchVars, statusVars, inputVars, historyVars
  <2> QED
    BY <2>1, <2>2, <2>3, <2>4, <2>5, <2>6, <2>7 DEF Next
<1> QED
  BY <1>1, <1>2, PTL DEF Spec

(* One bus clock without a clear moves a completion one stage on: an input *)
(* that differs from the shift register reaches the detector, the detector *)
(* the status bit, and the status bit stays.                               *)
LEMMA BusClkKeepsCompletion ==
  ASSUME TypeOK, CompletionNotLost, completed, BusClk(FALSE),
         UNCHANGED dma_complete_i
  PROVE  CompletionNotLost'
<1>1. CASE dma_complete_synch_glue \/ s_dma_complete_status
  BY <1>1 DEF BusClk, p_dma_status_reg, CompletionNotLost
<1>2. CASE s_dma_complete # <<dma_complete_i, dma_complete_i, dma_complete_i>>
  <2>1. PICK i \in 1..3 : s_dma_complete[i] # dma_complete_i
    BY <1>2 DEF TypeOK
  <2>2. CASE s_dma_complete[1] # dma_complete_i \/ s_dma_complete[2] # dma_complete_i
    BY <2>2 DEF BusClk, p_dma_status_synch, CompletionNotLost
  <2>3. CASE s_dma_complete[1] = dma_complete_i /\ s_dma_complete[2] = dma_complete_i
    <3>1. s_dma_complete[3] # s_dma_complete[2]
      BY <2>1, <2>3
    <3> QED
      BY <3>1 DEF BusClk, p_dma_status_synch, CompletionNotLost
  <2> QED
    BY <2>2, <2>3
<1> QED
  BY <1>1, <1>2 DEF CompletionNotLost

(* No completion is lost: from the toggle in the DMA clock domain to the   *)
(* clear, it is in the synchroniser, in the detector or in the status bit, *)
(* whatever the order of the clocks and of capture_samples' writes.        *)
THEOREM CompletionIsKept == Spec => []CompletionNotLost
<1>1. Init => CompletionNotLost
  BY DEF Init, CompletionNotLost
<1>2. TypeOK /\ CompletionNotLost /\ [Next]_vars => CompletionNotLost'
  <2> SUFFICES ASSUME TypeOK, CompletionNotLost, [Next]_vars
               PROVE  CompletionNotLost'
    OBVIOUS
  <2>1. CASE Tick
    <3>1. BusClk(FALSE) /\ UNCHANGED <<dma_complete_i, completed>>
      BY <2>1 DEF Tick, inputVars, historyVars
    <3>2. CASE ~completed
      BY <3>1, <3>2 DEF CompletionNotLost
    <3>3. CASE completed
      BY <3>1, <3>3, BusClkKeepsCompletion
    <3> QED
      BY <3>2, <3>3
  <2>2. CASE Clear
    BY <2>2 DEF Clear, CompletionNotLost
  <2>3. CASE Start
    <3>1. BusClk(FALSE) /\ UNCHANGED <<dma_complete_i, completed>>
      BY <2>3 DEF Start, inputVars, historyVars
    <3>2. CASE ~completed
      BY <3>1, <3>2 DEF CompletionNotLost
    <3>3. CASE completed
      BY <3>1, <3>3, BusClkKeepsCompletion
    <3> QED
      BY <3>2, <3>3
  <2>4. CASE Trigger
    BY <2>4 DEF Trigger, CompletionNotLost, synchVars, statusVars
  <2>5. CASE Overflow
    BY <2>5 DEF Overflow, CompletionNotLost, synchVars, statusVars
  <2>6. CASE Complete
    BY <2>6 DEF Complete, CompletionNotLost, TypeOK, synchVars, statusVars
  <2>7. CASE UNCHANGED vars
    BY <2>7 DEF vars, CompletionNotLost, synchVars, statusVars, inputVars,
                historyVars
  <2> QED
    BY <2>1, <2>2, <2>3, <2>4, <2>5, <2>6, <2>7 DEF Next
<1> QED
  BY <1>1, <1>2, TypeCorrect, PTL DEF Spec
=============================================================================
