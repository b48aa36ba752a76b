----------------------------- MODULE DmaCapture -----------------------------
(***************************************************************************)
(* The write side of dma_if.vhd (clock data_clk_i): a 0 -> 1 transition of *)
(* bit 21 of the capture control register loads a down-counter whose bit   *)
(* 21 enables the FIFO; each valid sample decrements it and is written one *)
(* clock later; the sample that finds the low bits at zero carries TLAST.  *)
(*                                                                         *)
(* A sample is <<c, k>>: the k-th valid sample after the c-th trigger.     *)
(***************************************************************************)
EXTENDS Integers, Sequences

CONSTANTS
  Enable,       \* the weight of the enable bit, above the count (2^21)
  Depth,        \* words the FIFO holds
  MaxTriggers,  \* bound: triggers in one behaviour
  MaxOffset     \* bound: the offset k saturates here

VARIABLES
  capture_ctl_i,    \* the bus register SAMPLES_REG: [start, count]
  start_acq_reg,    \* start_acq_reg0..2, a shift register
  start_acq_trig,
  capture_ctl_reg,  \* the enable bit and, below it, the count
  last_data_reg,
  fifo_wren,
  data_i_d1,        \* the sample one clock later
  dma_ovf,          \* bit C_OVF_COUNTER_SIZE of s_fifo_ovf_c, sticky
  data_i,           \* number <<c, k>> of the sample the next valid clock brings
  words,            \* every word written to the FIFO
  freed             \* words the write side knows to have been read

captureVars == <<capture_ctl_i, start_acq_reg, start_acq_trig, capture_ctl_reg,
                 last_data_reg, fifo_wren, data_i_d1, dma_ovf, data_i>>

NoSample == <<0, 0>>
Capturing == capture_ctl_reg >= Enable
fifo_full == Len(words) - freed = Depth

CaptureInit ==
  /\ capture_ctl_i = [start |-> FALSE, count |-> 0]
  /\ start_acq_reg = <<FALSE, FALSE, FALSE>>
  /\ start_acq_trig = FALSE
  /\ capture_ctl_reg = 0
  /\ last_data_reg = FALSE
  /\ fifo_wren = FALSE
  /\ data_i_d1 = NoSample
  /\ dma_ovf = FALSE
  /\ data_i = NoSample

-----------------------------------------------------------------------------
p_start_acq_trig ==
  /\ start_acq_reg' = <<capture_ctl_i.start, start_acq_reg[1], start_acq_reg[2]>>
  /\ start_acq_trig' = (~start_acq_reg[3] /\ start_acq_reg[2])

MutCountsAlways(data_valid_i) == data_valid_i /\ ~fifo_full
MutCountsInvalid(data_valid_i) == Capturing /\ ~fifo_full

(* A sample that is counted now; a trigger that meets one is ignored. *)
Counts(data_valid_i) == Capturing /\ data_valid_i /\ ~fifo_full
Loads(data_valid_i) == start_acq_trig /\ ~Counts(data_valid_i)

MutLoadsFullCount(data_valid_i) ==
  capture_ctl_reg' =
    IF Counts(data_valid_i) THEN capture_ctl_reg - 1
    ELSE IF Loads(data_valid_i) THEN Enable + capture_ctl_i.count
    ELSE capture_ctl_reg

(* The counter is 22 bits wide, the loaded count 21. *)
p_samples_counter(data_valid_i) ==
  capture_ctl_reg' =
    IF Counts(data_valid_i) THEN capture_ctl_reg - 1
    ELSE IF Loads(data_valid_i)
    THEN Enable + ((capture_ctl_i.count - (IF data_valid_i THEN 1 ELSE 0)) % Enable)
    ELSE capture_ctl_reg

MutLastTooEarly(data_valid_i) ==
  last_data_reg' = (capture_ctl_reg = Enable + 1 /\ data_valid_i)

(* Not held while the FIFO is full, unlike the write enable below. *)
p_last_data_proc(data_valid_i) ==
  last_data_reg' = (capture_ctl_reg = Enable /\ data_valid_i)

MutEnableNotHeld(data_valid_i) ==
  /\ fifo_wren' = (~fifo_full /\ Capturing /\ data_valid_i)
  /\ data_i_d1' = IF data_valid_i THEN data_i ELSE NoSample

(* The data is delayed unconditionally; what it is on a clock without      *)
(* data_valid_i is never written.                                          *)
p_fifo_wr_en(data_valid_i) ==
  /\ fifo_wren' = IF fifo_full THEN fifo_wren ELSE Capturing /\ data_valid_i
  /\ data_i_d1' = IF data_valid_i THEN data_i ELSE NoSample

p_dma_overflow(data_valid_i) ==
  dma_ovf' = IF start_acq_trig THEN FALSE
             ELSE dma_ovf \/ (fifo_full /\ data_valid_i /\ Capturing)

MutWritesWhenFull ==
  words' = IF fifo_wren
           THEN Append(words, [data |-> data_i_d1, last |-> last_data_reg])
           ELSE words

(* The FIFO's write port: wr_en is ignored while the FIFO is full. *)
FifoWrClk ==
  words' = IF fifo_wren /\ ~fifo_full
           THEN Append(words, [data |-> data_i_d1, last |-> last_data_reg])
           ELSE words

(* The source numbers its valid samples from the trigger on. *)
Source(data_valid_i) ==
  data_i' = IF Loads(data_valid_i) THEN <<data_i[1] + 1, 1>>
            ELSE IF data_valid_i /\ data_i[2] \in 1..(MaxOffset - 1)
            THEN <<data_i[1], data_i[2] + 1>>
            ELSE data_i

(* One edge of data_clk_i. *)
DataClk(data_valid_i) ==
  /\ p_start_acq_trig
  /\ p_samples_counter(data_valid_i)
  /\ p_last_data_proc(data_valid_i)
  /\ p_fifo_wr_en(data_valid_i)
  /\ p_dma_overflow(data_valid_i)
  /\ FifoWrClk
  /\ Source(data_valid_i)
  /\ UNCHANGED capture_ctl_i

(* The read pointer crosses into the write domain. *)
FifoSyncRd(readPtr) ==
  /\ freed < readPtr
  /\ freed' = freed + 1
  /\ UNCHANGED words
=============================================================================
