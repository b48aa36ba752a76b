------------------------------ MODULE DmaOutput ------------------------------
(***************************************************************************)
(* The read side of dma_if.vhd (clock dma_clk_i): words leave an           *)
(* asynchronous FIFO with a registered output, go through a four-slot      *)
(* buffer and an output register, and are accepted by the AXI DMA engine.  *)
(* The FIFO is read only while the engine is ready, two clocks before the  *)
(* word reaches the bus, so the buffer has to absorb what is in flight     *)
(* when the engine deasserts TREADY.                                       *)
(*                                                                         *)
(* A register that holds a word holds its number (1 is the first word      *)
(* written since reset) and 0 is the cleared register: the code clears     *)
(* dma_data_outX and dma_valid_outX together and sets them together.       *)
(***************************************************************************)
EXTENDS Integers, Sequences, FiniteSets

CONSTANTS
  Data,       \* what a FIFO word carries besides its TLAST bit
  Depth,      \* words the FIFO holds
  MaxWords    \* bound: words written in one behaviour

ASSUME DepthAssumption == Depth \in Nat \ {0}
ASSUME MaxWordsAssumption == MaxWords \in Nat

VARIABLES
  \* the asynchronous FIFO (core generator, external)
  words,      \* every word written since reset
  visible,    \* words the read side's synchronised pointer shows
  readPtr,    \* words read out
  fifo_do,    \* the FIFO's output register
  \* p_dma_pre_output
  dma_out,    \* dma_data_outX and dma_valid_outX, 0 when cleared
  dma_valid_reg0,
  pre_output_counter_wr,
  \* p_dma_output_proc
  output_counter_rd,
  glue,       \* s_dma_data_glue and s_dma_valid_glue, 0 when not valid
  \* p_dma_complete
  s_dma_complete,
  delivered   \* words accepted by the engine (history)

fifoVars == <<words, visible, readPtr, fifo_do>>
outVars == <<dma_out, dma_valid_reg0, pre_output_counter_wr,
             output_counter_rd, glue, s_dma_complete, delivered>>
vars == <<words, visible, readPtr, fifo_do, dma_out, dma_valid_reg0,
          pre_output_counter_wr, output_counter_rd, glue, s_dma_complete,
          delivered>>

Slots == 0..3
Word == [data : Data, last : BOOLEAN]
written == Len(words)

FifoInit ==
  /\ words = <<>>
  /\ visible = 0
  /\ readPtr = 0
  /\ fifo_do = 0

(* The synchronous resets under dma_clk_rst. *)
OutInit ==
  /\ dma_out = [i \in Slots |-> 0]
  /\ dma_valid_reg0 = FALSE
  /\ pre_output_counter_wr = 0
  /\ output_counter_rd = 0
  /\ glue = 0
  /\ s_dma_complete = FALSE
  /\ delivered = 0

Init == FifoInit /\ OutInit

-----------------------------------------------------------------------------
(* The other clock domain: a word is written, *)
FifoWrite(w) ==
  /\ written < MaxWords
  /\ written - readPtr < Depth
  /\ words' = Append(words, w)
  /\ UNCHANGED <<visible, readPtr, fifo_do>>

(* and some time later the write pointer crosses into the read domain. *)
FifoSync ==
  /\ visible < written
  /\ visible' = visible + 1
  /\ UNCHANGED <<words, readPtr, fifo_do>>

fifo_empty == readPtr = visible

(* rd_en on a clock edge: the word appears on dout after the edge. *)
FifoClk(rden) ==
  /\ readPtr' = IF rden THEN readPtr + 1 ELSE readPtr
  /\ fifo_do' = IF rden THEN readPtr + 1 ELSE fifo_do
  /\ UNCHANGED <<words, visible>>

-----------------------------------------------------------------------------
MutNeverHolds(dma_ready_i) == TRUE

dma_ready_s(dma_ready_i) == dma_ready_i \/ glue = 0

MutReadsEmpty(dma_ready_i) == dma_ready_i
MutIgnoresReady(dma_ready_i) == ~fifo_empty

dma_valid_s(dma_ready_i) == dma_ready_i /\ ~fifo_empty

MutSlotNotCleared(dma_ready_i) ==
  /\ dma_out' = [i \in Slots |->
       IF pre_output_counter_wr = i /\ dma_valid_reg0 THEN fifo_do ELSE dma_out[i]]
  /\ pre_output_counter_wr' =
       IF dma_valid_reg0 THEN (pre_output_counter_wr + 1) % 4
       ELSE pre_output_counter_wr
  /\ dma_valid_reg0' = dma_valid_s(dma_ready_i)

(* The four-slot buffer: a word that arrives wins over the clearing of the *)
(* slot the output register has just taken.                                *)
p_dma_pre_output(dma_ready_i) ==
  /\ dma_out' = [i \in Slots |->
       IF pre_output_counter_wr = i /\ dma_valid_reg0 THEN fifo_do
       ELSE IF output_counter_rd = i /\ dma_ready_s(dma_ready_i) THEN 0
       ELSE dma_out[i]]
  /\ pre_output_counter_wr' =
       IF dma_valid_reg0 THEN (pre_output_counter_wr + 1) % 4
       ELSE pre_output_counter_wr
  /\ dma_valid_reg0' = dma_valid_s(dma_ready_i)

MutReaderOvertakes(dma_ready_i) ==
  IF dma_ready_s(dma_ready_i)
    THEN /\ glue' = dma_out[output_counter_rd]
         /\ output_counter_rd' = (output_counter_rd + 1) % 4
    ELSE UNCHANGED <<glue, output_counter_rd>>

MutReaderStops(dma_ready_i) ==
  IF dma_ready_i /\ glue # 0
    THEN /\ glue' = dma_out[output_counter_rd]
         /\ output_counter_rd' =
              IF output_counter_rd # pre_output_counter_wr
              THEN (output_counter_rd + 1) % 4
              ELSE output_counter_rd
    ELSE UNCHANGED <<glue, output_counter_rd>>

(* The output register takes the slot under the read pointer, cleared or   *)
(* not, and the pointer moves unless it has caught up with the writer.     *)
p_dma_output_proc(dma_ready_i) ==
  IF dma_ready_s(dma_ready_i)
    THEN /\ glue' = dma_out[output_counter_rd]
         /\ output_counter_rd' =
              IF output_counter_rd # pre_output_counter_wr
              THEN (output_counter_rd + 1) % 4
              ELSE output_counter_rd
    ELSE UNCHANGED <<glue, output_counter_rd>>

MutCompleteOnOffer(dma_ready_i) ==
  s_dma_complete' = IF glue # 0 /\ words[glue].last
                    THEN ~s_dma_complete ELSE s_dma_complete

(* The accepted last word flips the completion toggle. *)
p_dma_complete(dma_ready_i) ==
  s_dma_complete' = IF glue # 0 /\ dma_ready_i /\ words[glue].last
                    THEN ~s_dma_complete ELSE s_dma_complete

(* One edge of dma_clk_i, with the engine's TREADY as input. *)
DmaClk(dma_ready_i) ==
  /\ FifoClk(dma_valid_s(dma_ready_i))
  /\ p_dma_pre_output(dma_ready_i)
  /\ p_dma_output_proc(dma_ready_i)
  /\ p_dma_complete(dma_ready_i)
  /\ delivered' = IF glue # 0 /\ dma_ready_i THEN delivered + 1 ELSE delivered

Write(w) == FifoWrite(w) /\ UNCHANGED outVars
Sync == FifoSync /\ UNCHANGED outVars

Next ==
  \/ \E w \in Word : Write(w)
  \/ Sync
  \/ \E dma_ready_i \in BOOLEAN : DmaClk(dma_ready_i)

Spec == Init /\ [][Next]_vars

(* Clocks tick, pointers are synchronised, and the engine's TREADY is high *)
(* again and again, whatever TVALID is: S2MM raises it while a transfer is *)
(* programmed and there is room in its own buffer.                         *)
Fairness == WF_vars(Sync) /\ WF_vars(DmaClk(TRUE))

FairSpec == Spec /\ Fairness

-----------------------------------------------------------------------------
Occupancy == (pre_output_counter_wr - output_counter_rd) % 4

(* Pointers stay in their order, two-bit counters in their width: the FIFO *)
(* is never read while it is empty.                                        *)
TypeOK ==
  /\ words \in Seq(Word)
  /\ visible \in 0..written
  /\ readPtr \in 0..visible
  /\ fifo_do \in 0..readPtr
  /\ dma_out \in [Slots -> Nat]
  /\ dma_valid_reg0 \in BOOLEAN
  /\ pre_output_counter_wr \in Slots
  /\ output_counter_rd \in Slots
  /\ glue \in Nat
  /\ s_dma_complete \in BOOLEAN
  /\ delivered \in Nat

(* The comment at dma_if.vhd:331: the difference between                   *)
(* pre_output_counter_wr and output_counter_rd is never greater than two,  *)
(* counting the word that is still in the FIFO's output register, so the   *)
(* two-bit counters cannot wrap onto each other.                           *)
AtMostTwoInFlight ==
  Occupancy + (IF dma_valid_reg0 THEN 1 ELSE 0) <= 2

(* Every word read from the FIFO is in exactly one place, in order: the    *)
(* bus holds the next word to deliver, the occupied slots the following    *)
(* ones, the FIFO's output register the last; the free slots are cleared.  *)
OnBus == IF glue # 0 THEN 1 ELSE 0
Ahead(i) == (i - output_counter_rd) % 4
InOrder ==
  /\ glue # 0 => glue = delivered + 1
  /\ \A i \in Slots :
       dma_out[i] = IF Ahead(i) < Occupancy
                    THEN delivered + OnBus + Ahead(i) + 1 ELSE 0
  /\ dma_valid_reg0 => fifo_do = readPtr
  /\ readPtr = delivered + OnBus + Occupancy
                 + (IF dma_valid_reg0 THEN 1 ELSE 0)

(* AXI stream: an offered word does not change until it is accepted. *)
OfferedIsStable ==
  [][glue # 0 /\ delivered' = delivered => glue' = glue]_vars

(* The completion toggle counts the accepted words that carry TLAST: it    *)
(* cannot miss the end of a transfer or flip on the same end twice.        *)
CompleteCountsLast ==
  s_dma_complete = (Cardinality({k \in 1..delivered : words[k].last}) % 2 = 1)

(* Every word written reaches the engine, although the FIFO is only read   *)
(* while TREADY is high (dma_if.vhd:319).                                  *)
EveryWordDelivered == \A k \in 1..MaxWords : (written >= k) ~> (delivered >= k)

(* The read side of dma_if implements the stream that module DmaStream     *)
(* promises to the engine; the word on the bus is the output register.     *)
Stream == INSTANCE DmaStream WITH offered <- glue
StreamSpec == Stream!Spec
=============================================================================
