-------------------------------- MODULE DmaIf --------------------------------
(***************************************************************************)
(* One acquisition channel end to end: capture_samples of low_level_op.c   *)
(* programs the AXI DMA engine and writes the capture control register,    *)
(* the capture side of dma_if.vhd (DmaCapture, clock data_clk_i) fills the *)
(* asynchronous FIFO, its read side (DmaOutput, clock dma_clk_i) empties   *)
(* it into the engine.  Three parties, two clocks, no common order.        *)
(***************************************************************************)
EXTENDS Integers, Sequences, FiniteSets, SequencesExt

CONSTANTS
  Enable, Depth, MaxTriggers, MaxOffset,  \* see DmaCapture
  MaxWords,     \* bound: words written in one behaviour
  Ids,          \* the channels, of "ADC" and "DDC"
  SampleCounts  \* sample counts software asks each channel for

ASSUME CaptureAssumption ==
  /\ Enable \in Nat \ {0}
  /\ Depth \in Nat \ {0}
  /\ MaxTriggers \in Nat
  /\ MaxOffset \in Nat \ {0}
  /\ MaxWords \in Nat
  /\ Ids \subseteq {"ADC", "DDC"}
  /\ SampleCounts \in [Ids -> SUBSET (1..(Enable - 1))]
  /\ \A i \in Ids : SampleCounts[i] \subseteq 1..MaxOffset

VARIABLES
  capture_ctl_i, start_acq_reg, start_acq_trig, capture_ctl_reg,
  last_data_reg, fifo_wren, data_i_d1, dma_ovf, data_i, words, freed,
  visible, readPtr, fifo_do, dma_out, dma_valid_reg0, pre_output_counter_wr,
  output_counter_rd, glue, s_dma_complete, delivered,
  id,         \* the channel, low_level_handler.id
  engine,     \* AXI DMA S2MM: words still to take, 0 when idle (external)
  qw_count,   \* the argument of the last capture_samples
  armed,      \* between the two writes of the capture control register
  \* history
  started,    \* calls of capture_samples
  asked,      \* the words asked for by requests whose start bit was seen
  stalled,    \* the FIFO was full at a data clock of a capture
  missed,     \* the last request set a start bit never seen low
  cut         \* a transfer ended before its capture did

swVars == <<id, engine, qw_count, armed, started, asked, stalled, missed, cut>>

(* data_valid_i is tied high in the ADC channel; DDC samples come and go. *)
ValidInputs == IF id = "ADC" THEN {TRUE} ELSE BOOLEAN

(* qw_count - qw_count_fix *)
CountFix == IF id = "ADC" THEN 0 ELSE 1

Data == (0..MaxTriggers) \X (0..MaxOffset)

Cap == INSTANCE DmaCapture
Out == INSTANCE DmaOutput

(* the registers of the two sides and the pointers of the FIFO *)
captureRegs == <<start_acq_reg, start_acq_trig, capture_ctl_reg, last_data_reg,
                 fifo_wren, data_i_d1, dma_ovf, data_i>>
readRegs == <<dma_out, dma_valid_reg0, pre_output_counter_wr,
              output_counter_rd, glue, s_dma_complete, delivered>>
fifoVars == <<words, freed, visible, readPtr, fifo_do>>
vars == <<capture_ctl_i, captureRegs, readRegs, fifoVars, swVars>>

Init ==
  /\ Cap!CaptureInit
  /\ Out!Init
  /\ freed = 0
  /\ id \in Ids
  /\ engine = 0
  /\ qw_count = 0
  /\ armed = FALSE
  /\ started = 0
  /\ asked = <<>>
  /\ stalled = FALSE
  /\ missed = FALSE
  /\ cut = FALSE

-----------------------------------------------------------------------------
MutShortTransfer(count) ==
  /\ ~armed
  /\ engine = 0
  /\ started < MaxTriggers
  /\ engine' = count - 1
  /\ qw_count' = count
  /\ started' = started + 1
  /\ armed' = TRUE
  /\ capture_ctl_i' = [start |-> FALSE, count |-> 0]
  /\ UNCHANGED <<captureRegs, readRegs, fifoVars, id, asked, stalled, missed, cut>>

(* capture_samples, up to the first write of the control register:         *)
(* XAxiDma_SimpleTransfer is refused while the engine is busy.             *)
StartTransfer(count) ==
  /\ ~armed
  /\ engine = 0
  /\ started < MaxTriggers
  /\ engine' = count
  /\ qw_count' = count
  /\ started' = started + 1
  /\ armed' = TRUE
  /\ capture_ctl_i' = [start |-> FALSE, count |-> 0]
  /\ UNCHANGED <<captureRegs, readRegs, fifoVars, id, asked, stalled, missed, cut>>

(* The words of the n-th request: its samples, TLAST on the last. *)
WordsOf(n, count) ==
  [k \in 1..count |-> [data |-> <<n, k>>, last |-> k = count]]

(* The second write.  Nothing makes it wait until data_clk_i, which stops  *)
(* while the MMCM is not locked, has sampled the cleared bit.              *)
StartCapture ==
  /\ armed
  /\ armed' = FALSE
  /\ missed' = start_acq_reg[1]
  /\ asked' = IF start_acq_reg[1] THEN asked
              ELSE asked \o WordsOf(started, qw_count)
  /\ capture_ctl_i' = [start |-> TRUE, count |-> qw_count - CountFix]
  /\ UNCHANGED <<captureRegs, readRegs, fifoVars, id, engine, qw_count, started,
                 stalled, cut>>

DataClk(data_valid_i) ==
  /\ Len(words) < MaxWords
  /\ Cap!DataClk(data_valid_i)
  /\ stalled' = (stalled \/ (Cap!fifo_full /\ (Cap!Capturing \/ fifo_wren)))
  /\ UNCHANGED <<freed, visible, readPtr, fifo_do, readRegs, id, engine,
                 qw_count, armed, started, asked, missed, cut>>

SyncRd ==
  /\ Cap!FifoSyncRd(readPtr)
  /\ UNCHANGED <<capture_ctl_i, captureRegs, visible, readPtr, fifo_do, readRegs,
                 swVars>>

SyncWr ==
  /\ Out!Sync
  /\ UNCHANGED <<capture_ctl_i, captureRegs, freed, swVars>>

(* Nothing is on its way from the counter to the engine. *)
Drained == ~Cap!Capturing /\ ~fifo_wren /\ delivered = Len(words)

(* TREADY needs a programmed transfer; TLAST ends it early. *)
DmaClk(dma_ready_i) ==
  /\ dma_ready_i => engine > 0
  /\ Out!DmaClk(dma_ready_i)
  /\ engine' = IF glue = 0 \/ ~dma_ready_i THEN engine
               ELSE IF words[glue].last THEN 0 ELSE engine - 1
  /\ UNCHANGED <<capture_ctl_i, captureRegs, freed, id, qw_count, armed, started,
                 asked, stalled, missed>>
  /\ cut' = (cut \/ (engine > 0 /\ engine' = 0 /\ ~Drained'))

Next ==
  \/ \E count \in SampleCounts[id] : StartTransfer(count)
  \/ StartCapture
  \/ \E data_valid_i \in ValidInputs : DataClk(data_valid_i)
  \/ SyncRd
  \/ SyncWr
  \/ \E dma_ready_i \in BOOLEAN : DmaClk(dma_ready_i)

Spec == Init /\ [][Next]_vars

(* Clocks tick, samples are valid again and again, and a programmed engine *)
(* is ready again and again.                                               *)
Fairness ==
  /\ WF_vars(StartCapture)
  /\ SF_vars(DataClk(TRUE))
  /\ WF_vars(SyncRd)
  /\ WF_vars(SyncWr)
  /\ WF_vars(DmaClk(TRUE))

FairSpec == Spec /\ Fairness

-----------------------------------------------------------------------------
(* Registers keep their widths, and the write side never takes a word for  *)
(* read before it is.                                                      *)
TypeOK ==
  /\ Out!TypeOK
  /\ capture_ctl_i \in [start : BOOLEAN, count : 0..(Enable - 1)]
  /\ start_acq_reg \in [1..3 -> BOOLEAN]
  /\ start_acq_trig \in BOOLEAN
  /\ capture_ctl_reg \in 0..(2 * Enable - 1)
  /\ last_data_reg \in BOOLEAN
  /\ fifo_wren \in BOOLEAN
  /\ data_i_d1 \in Data
  /\ data_i \in Data
  /\ dma_ovf \in BOOLEAN
  /\ freed \in 0..readPtr
  /\ id \in Ids
  /\ engine \in Nat
  /\ qw_count \in 0..(Enable - 1)
  /\ started \in 0..MaxTriggers
  /\ asked \in Seq(Out!Word)
  /\ armed \in BOOLEAN
  /\ stalled \in BOOLEAN
  /\ missed \in BOOLEAN
  /\ cut \in BOOLEAN

(* Nothing of a request is left on the capture side. *)
Quiet ==
  /\ ~armed
  /\ start_acq_reg = <<capture_ctl_i.start, capture_ctl_i.start, capture_ctl_i.start>>
  /\ ~start_acq_trig
  /\ ~Cap!Capturing
  /\ ~fifo_wren

(* The requests whose start bit reached the capture side, or still can. *)
Seen == IF armed \/ missed THEN started - 1 ELSE started

(* In an ADC channel whose FIFO never filled up the capture side has       *)
(* written the samples asked for and nothing else: consecutive, from the   *)
(* trigger on, with TLAST on the last of each request only, and nothing    *)
(* for a request whose start bit was missed.                               *)
CapturesWhatWasAsked ==
  id = "ADC" /\ ~stalled =>
    /\ IsPrefix(words, asked)
    /\ Quiet => words = asked

(* dma_if.vhd:248: the counter is held for "capture_count" samples.  Even  *)
(* when samples are lost, each ADC request yields as many words as it      *)
(* asked for, until a TLAST that came too early ends a transfer and leaves *)
(* words to the next: then a trigger may meet a capture that still runs.   *)
CountIsExact == id = "ADC" /\ Quiet /\ ~cut => Len(words) = Len(asked)

(* What the correction of low_level_op.c:171 makes of the DDC channel's    *)
(* counts, with data_valid_i high or low at the trigger: a request yields  *)
(* the words it asked for or one fewer, and never one more, which would    *)
(* wait in the FIFO and become the first sample of the next transfer.      *)
ShortByAtMostOne ==
  id = "DDC" /\ ~cut =>
    /\ Len(words) <= Len(asked)
    /\ Quiet => Len(words) >= Len(asked) - Seen

(* In a channel whose FIFO never filled up no transfer ends before its     *)
(* capture or leaves words behind for the next one, although software      *)
(* waits for the engine only: an idle engine of the ADC channel has taken  *)
(* every word of every request.                                            *)
TransferTakesAll ==
  ~stalled =>
    /\ ~cut
    /\ engine = 0 => delivered = Len(words)
    /\ engine = 0 /\ id = "ADC" => delivered = Len(asked)

(* The channel as a whole drives the read side as DmaOutput assumes. *)
OutSpec == Out!Spec

(* A programmed transfer ends, so that XAxiDma_Busy, which get_samples     *)
(* polls, becomes false: in the ADC channel even if the FIFO filled up and *)
(* samples were lost, in the DDC channel if it did not; unless the request *)
(* was missed, which nothing but a reset of the engine repairs, or the     *)
(* words of an earlier transfer were left behind.                          *)
TransferEnds ==
  engine > 0 ~> engine = 0 \/ missed \/ cut \/ (id = "DDC" /\ stalled)

(* dma_if.vhd:486-488: data is lost when the overflow flag is asserted; so *)
(* a capture that is over without the flag has lost nothing.               *)
LossIsFlagged == Quiet /\ ~dma_ovf => words = asked
=============================================================================
