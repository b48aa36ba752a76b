----------------------------- MODULE DmaIfProofs -----------------------------
(***************************************************************************)
(* Theorems about the acquisition channel of DmaIf, for every depth of the *)
(* FIFO, every width of the counter, every sequence of captures and every  *)
(* interleaving of the two clocks and the software.                        *)
(***************************************************************************)
EXTENDS DmaIf, SequenceTheorems, TLAPS

(* The theorems about the read side, for the read side of this channel. *)
Read == INSTANCE DmaOutputProofs

-----------------------------------------------------------------------------
(* The write side on its own: types, the FIFO's room, and the number of    *)
(* triggers.                                                               *)

Bit(b) == IF b THEN 1 ELSE 0

(* The 0 -> 1 transitions of the start bit that have yet to load the       *)
(* counter, one for each stage of the synchroniser.                        *)
Edges == Bit(capture_ctl_i.start /\ ~start_acq_reg[1])
       + Bit(start_acq_reg[1] /\ ~start_acq_reg[2])
       + Bit(start_acq_reg[2] /\ ~start_acq_reg[3])
       + Bit(start_acq_trig)

WriteTypes ==
  /\ capture_ctl_i \in [start : BOOLEAN, count : 0..(Enable - 1)]
  /\ start_acq_reg \in [1..3 -> BOOLEAN]
  /\ start_acq_trig \in BOOLEAN
  /\ capture_ctl_reg \in 0..(2 * Enable - 1)
  /\ last_data_reg \in BOOLEAN
  /\ fifo_wren \in BOOLEAN
  /\ data_i_d1 \in Data
  /\ data_i \in Data
  /\ dma_ovf \in BOOLEAN

SoftTypes ==
  /\ id \in Ids
  /\ engine \in Nat
  /\ qw_count \in 0..(Enable - 1)
  /\ started \in 0..MaxTriggers
  /\ asked \in Seq(Out!Word)
  /\ armed \in BOOLEAN
  /\ stalled \in BOOLEAN
  /\ missed \in BOOLEAN
  /\ cut \in BOOLEAN

(* armed means that a request with its count is under way. *)
Request == armed => qw_count \in SampleCounts[id] /\ started > 0

FifoRoom ==
  /\ words \in Seq(Out!Word)
  /\ readPtr \in Nat
  /\ freed \in 0..readPtr
  /\ Len(words) - freed <= Depth

(* Each trigger has its request. *)
Triggers == data_i[1] + Edges <= IF armed THEN started - 1 ELSE started

WriteSide == WriteTypes /\ SoftTypes /\ Request /\ FifoRoom /\ Triggers

LEMMA BitRange == \A b : Bit(b) \in 0..1
BY DEF Bit

LEMMA Triple ==
  ASSUME NEW a \in BOOLEAN, NEW b \in BOOLEAN, NEW c \in BOOLEAN
  PROVE  <<a, b, c>> \in [1..3 -> BOOLEAN]
OBVIOUS

LEMMA InitWrite ==
  ASSUME Init
  PROVE  WriteSide
<1> USE CaptureAssumption DEF Init, Cap!CaptureInit, Cap!NoSample
<1>1. WriteTypes
  <2>1. capture_ctl_i \in [start : BOOLEAN, count : 0..(Enable - 1)]
    OBVIOUS
  <2>2. start_acq_reg \in [1..3 -> BOOLEAN]
    BY Triple
  <2>3. data_i \in Data /\ data_i_d1 \in Data /\ capture_ctl_reg \in 0..(2 * Enable - 1)
    BY DEF Data
  <2>4. start_acq_trig \in BOOLEAN /\ last_data_reg \in BOOLEAN /\ fifo_wren \in BOOLEAN
        /\ dma_ovf \in BOOLEAN
    BY Zenon
  <2> QED BY <2>1, <2>2, <2>3, <2>4, Zenon DEF WriteTypes
<1>2. SoftTypes /\ Request
  <2>1. asked \in Seq(Out!Word)
    OBVIOUS
  <2>2. id \in Ids /\ engine \in Nat /\ qw_count \in 0..(Enable - 1) /\ started \in 0..MaxTriggers
    OBVIOUS
  <2>3. ~armed /\ ~stalled /\ ~missed /\ ~cut
    BY Zenon
  <2>4. armed \in BOOLEAN /\ stalled \in BOOLEAN /\ missed \in BOOLEAN /\ cut \in BOOLEAN
    BY Zenon
  <2> QED BY <2>1, <2>2, <2>3, <2>4, Zenon DEF SoftTypes, Request
<1>3. FifoRoom
  BY DEF FifoRoom, Out!Init, Out!FifoInit
<1>4. Triggers
  BY DEF Triggers, Edges, Bit
<1> QED BY <1>1, <1>2, <1>3, <1>4 DEF WriteSide

LEMMA EdgesNat == Edges \in Nat
<1>1. \A a, b, c, d \in 0..1 : a + b + c + d \in Nat
  OBVIOUS
<1> QED BY <1>1, BitRange, Zenon DEF Edges

(* What a write of the start bit does to the edges on their way. *)
LEMMA EdgesLess ==
  ASSUME ~capture_ctl_i'.start, UNCHANGED <<start_acq_reg, start_acq_trig>>
  PROVE  Edges' <= Edges /\ Edges' \in Nat /\ Edges \in Nat
<1>1. Bit((capture_ctl_i.start /\ ~start_acq_reg[1])') = 0
  BY DEF Bit
<1>2. \A a, b, c, d \in 0..1 : 0 + b + c + d <= a + b + c + d
                            /\ 0 + b + c + d \in Nat /\ a + b + c + d \in Nat
  OBVIOUS
<1> DEFINE a == Bit(capture_ctl_i.start /\ ~start_acq_reg[1])
           b == Bit(start_acq_reg[1] /\ ~start_acq_reg[2])
           c == Bit(start_acq_reg[2] /\ ~start_acq_reg[3])
           d == Bit(start_acq_trig)
<1>3. a \in 0..1 /\ b \in 0..1 /\ c \in 0..1 /\ d \in 0..1
  BY BitRange, Zenon
<1>4. Edges = a + b + c + d
  BY DEF Edges
<1>5. Edges' = Bit((capture_ctl_i.start /\ ~start_acq_reg[1])') + b + c + d
  BY DEF Edges, Bit
<1> HIDE DEF a, b, c, d
<1> QED BY <1>1, <1>2, <1>3, <1>4, <1>5

LEMMA EdgesMore ==
  ASSUME UNCHANGED <<start_acq_reg, start_acq_trig>>
  PROVE  Edges' <= Edges + 1 /\ Edges' \in Nat /\ Edges \in Nat
<1>1. \A a, b, c, d, e \in 0..1 : e + b + c + d <= a + b + c + d + 1
                               /\ e + b + c + d \in Nat /\ a + b + c + d \in Nat
  OBVIOUS
<1> DEFINE a == Bit(capture_ctl_i.start /\ ~start_acq_reg[1])
           b == Bit(start_acq_reg[1] /\ ~start_acq_reg[2])
           c == Bit(start_acq_reg[2] /\ ~start_acq_reg[3])
           d == Bit(start_acq_trig)
           e == Bit((capture_ctl_i.start /\ ~start_acq_reg[1])')
<1>2. a \in 0..1 /\ b \in 0..1 /\ c \in 0..1 /\ d \in 0..1 /\ e \in 0..1
  BY BitRange, Zenon
<1>3. Edges = a + b + c + d
  BY DEF Edges
<1>4. Edges' = e + b + c + d
  BY DEF Edges, Bit
<1> HIDE DEF a, b, c, d, e
<1> QED BY <1>1, <1>2, <1>3, <1>4

LEMMA WriteStartTransfer ==
  ASSUME WriteSide, NEW count \in SampleCounts[id], StartTransfer(count)
  PROVE  WriteSide'
<1> USE CaptureAssumption DEF StartTransfer, WriteSide, captureRegs, readRegs, fifoVars
<1>1. WriteTypes'
  BY DEF WriteTypes
<1>2. SoftTypes' /\ Request'
  BY DEF SoftTypes, Request
<1>3. FifoRoom'
  BY DEF FifoRoom
<1>4. Triggers'
  <2>1. armed' /\ ~armed /\ started' = started + 1 /\ data_i' = data_i
    OBVIOUS
  <2>2. Edges' <= Edges /\ Edges' \in Nat /\ Edges \in Nat
    <3>1. ~capture_ctl_i'.start /\ UNCHANGED <<start_acq_reg, start_acq_trig>>
      OBVIOUS
    <3> QED BY <3>1, EdgesLess
  <2>3. started \in Nat /\ data_i[1] \in Nat
    BY DEF WriteTypes, SoftTypes, Data
  <2> QED BY <2>1, <2>2, <2>3 DEF Triggers
<1> QED BY <1>1, <1>2, <1>3, <1>4

LEMMA WordsOfType ==
  ASSUME NEW n \in 0..MaxTriggers, NEW count \in 1..MaxOffset
  PROVE  WordsOf(n, count) \in Seq(Out!Word) /\ Len(WordsOf(n, count)) = count
<1>1. \A k \in 1..count : <<n, k>> \in Data /\ (k = count) \in BOOLEAN
  BY CaptureAssumption DEF Data
<1>2. \A k \in 1..count : [data |-> <<n, k>>, last |-> k = count] \in Out!Word
  BY <1>1, Zenon DEF Out!Word
<1> QED BY <1>2, CaptureAssumption DEF WordsOf

LEMMA WriteStartCapture ==
  ASSUME WriteSide, StartCapture
  PROVE  WriteSide'
<1> USE CaptureAssumption DEF StartCapture, WriteSide, captureRegs, readRegs, fifoVars
<1>1. qw_count \in 1..(Enable - 1) /\ qw_count \in 1..MaxOffset
  BY DEF Request, SoftTypes
<1>2. WriteTypes'
  <2>1. qw_count - CountFix \in 0..(Enable - 1)
    BY <1>1 DEF CountFix
  <2> QED BY <2>1 DEF WriteTypes
<1>3. SoftTypes' /\ Request'
  <2>1. asked' \in Seq(Out!Word)
    BY <1>1, WordsOfType DEF SoftTypes
  <2>2. missed' \in BOOLEAN
    BY DEF WriteTypes
  <2> QED BY <2>1, <2>2 DEF SoftTypes, Request
<1>4. FifoRoom'
  BY DEF FifoRoom
<1>5. Triggers'
  <2>1. armed /\ ~armed' /\ started' = started /\ data_i' = data_i
        /\ UNCHANGED <<start_acq_reg, start_acq_trig>>
    OBVIOUS
  <2>2. Edges' <= Edges + 1 /\ Edges' \in Nat /\ Edges \in Nat
    BY <2>1, EdgesMore
  <2>3. started \in Nat /\ data_i[1] \in Nat
    BY DEF WriteTypes, SoftTypes, Data
  <2> QED BY <2>1, <2>2, <2>3 DEF Triggers
<1> QED BY <1>2, <1>3, <1>4, <1>5

LEMMA WriteDataClk ==
  ASSUME WriteSide, NEW data_valid_i \in BOOLEAN, DataClk(data_valid_i)
  PROVE  WriteSide'
<1> USE CaptureAssumption DEF DataClk, Cap!DataClk, WriteSide
<1>1. WriteTypes'
  <2>1. start_acq_reg' \in [1..3 -> BOOLEAN]
    BY DEF WriteTypes, Cap!p_start_acq_trig
  <2>2. start_acq_trig' \in BOOLEAN
    BY DEF WriteTypes, Cap!p_start_acq_trig
  <2>3. capture_ctl_reg' \in 0..(2 * Enable - 1)
    <3>1. \A x \in Int : x % Enable \in 0..(Enable - 1)
      OBVIOUS
    <3>2. /\ capture_ctl_reg \in 0..(2 * Enable - 1) /\ capture_ctl_i.count \in Nat
          /\ Enable \in Nat /\ Enable > 0
      BY DEF WriteTypes
    <3>3. CASE Cap!Counts(data_valid_i)
      <4>1. capture_ctl_reg' = capture_ctl_reg - 1 /\ capture_ctl_reg >= Enable
        BY <3>3 DEF Cap!p_samples_counter, Cap!Counts, Cap!Capturing
      <4> QED BY <3>2, <4>1
    <3>4. CASE ~Cap!Counts(data_valid_i) /\ Cap!Loads(data_valid_i)
      <4>1. PICK x \in Int : capture_ctl_reg' = Enable + (x % Enable)
        BY <3>2, <3>4 DEF Cap!p_samples_counter
      <4> QED BY <3>1, <3>2, <4>1
    <3>5. CASE ~Cap!Counts(data_valid_i) /\ ~Cap!Loads(data_valid_i)
      BY <3>2, <3>5 DEF Cap!p_samples_counter
    <3> QED BY <3>3, <3>4, <3>5
  <2>4. last_data_reg' \in BOOLEAN
    BY DEF Cap!p_last_data_proc
  <2>5. fifo_wren' \in BOOLEAN
    BY DEF WriteTypes, Cap!p_fifo_wr_en, Cap!Capturing
  <2>6. data_i_d1' \in Data
    BY DEF WriteTypes, Cap!p_fifo_wr_en, Cap!NoSample, Data
  <2>7. dma_ovf' \in BOOLEAN
    BY DEF WriteTypes, Cap!p_dma_overflow, Cap!Capturing, Cap!fifo_full
  <2>8. data_i' \in Data
    <3>1. data_i[1] \in 0..MaxTriggers /\ data_i[2] \in 0..MaxOffset /\ data_i \in Data
          /\ started \in 0..MaxTriggers
      BY DEF WriteTypes, SoftTypes, Data
    <3>2. start_acq_trig => data_i[1] + 1 <= MaxTriggers
      <4>1. start_acq_trig => Edges >= 1 /\ Edges \in Nat
        BY BitRange DEF Edges, Bit
      <4>2. data_i[1] + Edges <= started
        <5>1. Edges \in Nat
          BY EdgesNat
        <5> QED BY <3>1, <5>1 DEF Triggers
      <4> QED BY <3>1, <4>1, <4>2
    <3>3. \/ start_acq_trig /\ data_i' = <<data_i[1] + 1, 1>>
          \/ data_i[2] \in 1..(MaxOffset - 1) /\ data_i' = <<data_i[1], data_i[2] + 1>>
          \/ data_i' = data_i
      BY DEF Cap!Source, Cap!Loads
    <3> QED BY <3>1, <3>2, <3>3 DEF Data
  <2> QED BY <2>1, <2>2, <2>3, <2>4, <2>5, <2>6, <2>7, <2>8 DEF WriteTypes
<1>2. SoftTypes' /\ Request'
  BY DEF SoftTypes, Request, Cap!fifo_full, Cap!Capturing
<1>3. FifoRoom'
  <2>1. [data |-> data_i_d1, last |-> last_data_reg] \in Out!Word
    BY DEF WriteTypes, Out!Word
  <2> QED BY <2>1 DEF FifoRoom, Cap!FifoWrClk, Cap!fifo_full
<1>4. Triggers'
  <2> DEFINE s == capture_ctl_i.start
             r == start_acq_reg
  <2>1. /\ s' = s /\ r'[1] = s /\ r'[2] = r[1] /\ r'[3] = r[2]
        /\ start_acq_trig' = (r[2] /\ ~r[3])
    BY DEF Cap!p_start_acq_trig
  <2>2. Edges' = Bit(s /\ ~r[1]) + Bit(r[1] /\ ~r[2]) + Bit(r[2] /\ ~r[3])
    <3>1. Bit(s' /\ ~r'[1]) = 0
      BY <2>1 DEF Bit
    <3>2. Bit(r'[1] /\ ~r'[2]) = Bit(s /\ ~r[1])
      BY <2>1 DEF Bit
    <3>3. Bit(r'[2] /\ ~r'[3]) = Bit(r[1] /\ ~r[2])
      BY <2>1 DEF Bit
    <3>4. Bit(start_acq_trig') = Bit(r[2] /\ ~r[3])
      BY <2>1 DEF Bit
    <3> HIDE DEF s, r
    <3> QED BY <3>1, <3>2, <3>3, <3>4, BitRange DEF Edges, s, r
  <2>3. data_i'[1] <= data_i[1] + Bit(start_acq_trig) /\ data_i'[1] \in Nat
    <3>1. \/ start_acq_trig /\ data_i' = <<data_i[1] + 1, 1>>
          \/ data_i'[1] = data_i[1]
      BY DEF Cap!Source, Cap!Loads
    <3>2. data_i[1] \in Nat
      BY DEF WriteTypes, Data
    <3>3. Bit(start_acq_trig) = IF start_acq_trig THEN 1 ELSE 0
      BY DEF Bit
    <3> QED BY <3>1, <3>2, <3>3
  <2>4. data_i'[1] + Edges' <= data_i[1] + Edges /\ Edges' \in Nat /\ Edges \in Nat
    <3>1. Edges = Bit(s /\ ~r[1]) + Bit(r[1] /\ ~r[2]) + Bit(r[2] /\ ~r[3])
                    + Bit(start_acq_trig)
      BY DEF Edges
    <3>2. data_i[1] \in Nat
      BY DEF WriteTypes, Data
    <3>3. /\ Bit(s /\ ~r[1]) \in 0..1 /\ Bit(r[1] /\ ~r[2]) \in 0..1
          /\ Bit(r[2] /\ ~r[3]) \in 0..1 /\ Bit(start_acq_trig) \in 0..1
      BY BitRange, Zenon
    <3>4. \A a, b, c, d \in 0..1, x, y \in Nat :
            y <= x + d =>
              y + (a + b + c) <= x + (a + b + c + d) /\ a + b + c \in Nat /\ a + b + c + d \in Nat
      OBVIOUS
    <3> QED BY <2>2, <2>3, <3>1, <3>2, <3>3, <3>4, Zenon
  <2>5. armed' = armed /\ started' = started
    OBVIOUS
  <2>6. data_i[1] \in Nat /\ started \in Nat
    BY DEF WriteTypes, SoftTypes, Data
  <2> DEFINE lim == IF armed THEN started - 1 ELSE started
             old == data_i[1] + Edges
             new == data_i'[1] + Edges'
  <2>7. old <= lim /\ lim \in Int
    BY <2>6 DEF Triggers
  <2>8. new <= old /\ old \in Int /\ new \in Int
    BY <2>3, <2>4, <2>6
  <2> HIDE DEF lim, old, new
  <2>9. new <= lim
    BY <2>7, <2>8
  <2> QED BY <2>5, <2>9 DEF Triggers, lim, new
<1> QED BY <1>1, <1>2, <1>3, <1>4

LEMMA WriteSyncRd ==
  ASSUME WriteSide, SyncRd
  PROVE  WriteSide'
<1> USE CaptureAssumption DEF SyncRd, captureRegs, readRegs, swVars, Cap!FifoSyncRd, WriteSide
<1>1. WriteTypes' /\ SoftTypes' /\ Request'
  BY DEF WriteTypes, SoftTypes, Request
<1>2. FifoRoom'
  BY DEF FifoRoom
<1>3. Triggers'
  BY DEF Triggers, Edges
<1> QED BY <1>1, <1>2, <1>3

LEMMA WriteSyncWr ==
  ASSUME WriteSide, SyncWr \/ UNCHANGED vars
  PROVE  WriteSide'
<1>1. UNCHANGED <<capture_ctl_i, captureRegs, words, freed, readPtr, swVars>>
  BY DEF SyncWr, vars, fifoVars, Out!Sync, Out!FifoSync
<1> USE <1>1 DEF captureRegs, swVars, WriteSide
<1>2. WriteTypes' /\ SoftTypes' /\ Request'
  BY DEF WriteTypes, SoftTypes, Request
<1>3. FifoRoom'
  BY DEF FifoRoom
<1>4. Triggers'
  BY DEF Triggers, Edges
<1> QED BY <1>2, <1>3, <1>4

LEMMA WriteDmaClk ==
  ASSUME WriteSide, NEW dma_ready_i \in BOOLEAN, DmaClk(dma_ready_i)
  PROVE  WriteSide'
<1> USE DEF DmaClk, captureRegs, WriteSide
<1>1. WriteTypes'
  BY DEF WriteTypes
<1>2. SoftTypes' /\ Request'
  <2>1. engine' \in Nat
    BY DEF SoftTypes
  <2>2. cut' \in BOOLEAN
    BY DEF SoftTypes
  <2> QED BY <2>1, <2>2 DEF SoftTypes, Request
<1>3. FifoRoom'
  BY DEF FifoRoom, Out!DmaClk, Out!FifoClk
<1>4. Triggers'
  BY DEF Triggers, Edges
<1> QED BY <1>1, <1>2, <1>3, <1>4

LEMMA StepWrite ==
  ASSUME WriteSide, [Next]_vars
  PROVE  WriteSide'
<1>1. \A data_valid_i \in ValidInputs : data_valid_i \in BOOLEAN
  BY DEF ValidInputs
<1> QED
  BY <1>1, WriteStartTransfer, WriteStartCapture, WriteDataClk, WriteSyncRd, WriteSyncWr,
     WriteDmaClk DEF Next

(***************************************************************************)
(* The channel as a whole drives its read side as module DmaOutput assumes *)
(* it is driven: words enter the FIFO only while there is room, although   *)
(* the write side sees the read pointer late.                              *)
(***************************************************************************)
THEOREM DrivesReadSide == Spec => OutSpec
<1>1. Init => Out!Init
  BY DEF Init
<1>2. WriteSide /\ [Next]_vars => [Out!Next]_(Out!vars)
  <2> SUFFICES ASSUME WriteSide, [Next]_vars PROVE [Out!Next]_(Out!vars)
    OBVIOUS
  <2>1. ASSUME UNCHANGED <<fifoVars, readRegs>> PROVE UNCHANGED Out!vars
    BY <2>1 DEF fifoVars, readRegs, Out!vars
  <2>2. ASSUME NEW count \in SampleCounts[id], StartTransfer(count) PROVE UNCHANGED Out!vars
    BY <2>1, <2>2 DEF StartTransfer
  <2>3. CASE StartCapture
    BY <2>1, <2>3 DEF StartCapture
  <2>4. ASSUME NEW data_valid_i \in ValidInputs, DataClk(data_valid_i)
        PROVE [Out!Next]_(Out!vars)
    <3>1. /\ Len(words) < MaxWords /\ Cap!FifoWrClk
          /\ UNCHANGED <<visible, readPtr, fifo_do, readRegs>>
      BY <2>4 DEF DataClk, Cap!DataClk
    <3>2. CASE fifo_wren /\ ~Cap!fifo_full
      <4> DEFINE w == [data |-> data_i_d1, last |-> last_data_reg]
      <4>1. w \in Out!Word
        BY DEF WriteSide, WriteTypes, Out!Word
      <4>2. words' = Append(words, w)
        BY <3>1, <3>2 DEF Cap!FifoWrClk
      <4>3. Len(words) - readPtr < Depth
        BY <3>2, CaptureAssumption DEF WriteSide, FifoRoom, Cap!fifo_full
      <4>4. Out!Write(w)
        BY <3>1, <4>2, <4>3 DEF Out!Write, Out!FifoWrite, Out!written, Out!outVars, readRegs
      <4> QED BY <4>1, <4>4 DEF Out!Next
    <3>3. CASE ~(fifo_wren /\ ~Cap!fifo_full)
      BY <3>1, <3>3 DEF Cap!FifoWrClk, Out!vars, readRegs
    <3> QED BY <3>2, <3>3
  <2>5. CASE SyncRd
    BY <2>1, <2>5 DEF SyncRd, Cap!FifoSyncRd, fifoVars, Out!vars, readRegs
  <2>6. CASE SyncWr
    BY <2>6 DEF SyncWr, Out!Next
  <2>7. ASSUME NEW dma_ready_i \in BOOLEAN, DmaClk(dma_ready_i) PROVE Out!Next
    BY <2>7 DEF DmaClk, Out!Next
  <2>8. CASE UNCHANGED vars
    BY <2>1, <2>8 DEF vars
  <2> QED BY <2>2, <2>3, <2>4, <2>5, <2>6, <2>7, <2>8 DEF Next
<1>3. Init => WriteSide
  BY InitWrite
<1>4. WriteSide /\ [Next]_vars => WriteSide'
  BY StepWrite
<1> QED BY <1>1, <1>2, <1>3, <1>4, PTL DEF Spec, OutSpec, Out!Spec

-----------------------------------------------------------------------------
(* What the theorems about the read side say of this channel. *)
Delivery ==
  /\ delivered \in Nat /\ glue \in Nat
  /\ glue # 0 => glue = delivered + 1 /\ delivered < Len(words)
  /\ delivered <= Len(words)

THEOREM ReadSideHolds == Spec => [](Out!TypeOK /\ Delivery)
<1>1. Out!Spec => Read!Spec
  <2>1. Out!Init => Read!Init
    BY DEF Out!Init, Out!FifoInit, Out!OutInit, Out!Slots, Read!Init, Read!FifoInit,
       Read!OutInit, Read!Slots
  <2>2. [Out!Next]_(Out!vars) => [Read!Next]_(Read!vars)
    BY DEF Out!Next, Out!vars, Out!Word, Out!Write, Out!FifoWrite, Out!written, Out!outVars,
       Out!Sync, Out!FifoSync, Out!DmaClk, Out!FifoClk, Out!p_dma_pre_output, Out!Slots,
       Out!p_dma_output_proc, Out!p_dma_complete, Out!dma_valid_s, Out!dma_ready_s,
       Out!fifo_empty,
       Read!Next, Read!vars, Read!Word, Read!Write, Read!FifoWrite, Read!written, Read!outVars,
       Read!Sync, Read!FifoSync, Read!DmaClk, Read!FifoClk, Read!p_dma_pre_output, Read!Slots,
       Read!p_dma_output_proc, Read!p_dma_complete, Read!dma_valid_s, Read!dma_ready_s,
       Read!fifo_empty
  <2> QED BY <2>1, <2>2, PTL DEF Out!Spec, Read!Spec
<1>2. Read!Spec => [](Read!TypeOK)
  BY CaptureAssumption, Read!TypeCorrect
<1>3. Read!Spec => [](Read!InOrder)
  BY CaptureAssumption, Read!WordsStayInOrder
<1>4. Read!TypeOK => Out!TypeOK
  BY DEF Read!TypeOK, Read!Word, Read!written, Read!Slots, Out!TypeOK, Out!Word, Out!written,
     Out!Slots
<1>5. Read!TypeOK /\ Read!InOrder => Delivery
  <2> SUFFICES ASSUME Read!TypeOK, Read!InOrder PROVE Delivery
    OBVIOUS
  <2>1. Read!Occupancy \in Nat
    BY DEF Read!Occupancy, Read!TypeOK, Read!Slots
  <2> QED BY <2>1 DEF Read!TypeOK, Read!InOrder, Read!OnBus, Read!written, Delivery
<1> QED BY <1>1, <1>2, <1>3, <1>4, <1>5, DrivesReadSide, PTL DEF OutSpec

(***************************************************************************)
(* Every register of the channel keeps its width, the write side never     *)
(* takes a word for read before it is, and no more samples are triggered   *)
(* than software asked for.                                                *)
(***************************************************************************)
THEOREM ChannelTypes == Spec => []TypeOK
<1>1. Init => WriteSide
  BY InitWrite
<1>2. WriteSide /\ [Next]_vars => WriteSide'
  BY StepWrite
<1>3. Out!TypeOK /\ WriteSide => TypeOK
  BY DEF WriteSide, WriteTypes, SoftTypes, FifoRoom, TypeOK
<1> QED BY <1>1, <1>2, <1>3, ReadSideHolds, PTL DEF Spec

-----------------------------------------------------------------------------
(* The flow of words, as long as no transfer was cut short. *)

(* A DDC capture of one sample asks the counter for zero, which wraps. *)
TwoOrMore == "DDC" \in Ids => \A n \in SampleCounts["DDC"] : n >= 2
CountsFit == id = "ADC" \/ TwoOrMore

(* Samples the counter still has to let through. *)
Left == IF Cap!Capturing THEN capture_ctl_reg - Enable + 1 ELSE 0

(* Words written, and those the capture side still has to write. *)
Total == Len(words) + Bit(fifo_wren) + Left

(* The start bit and its synchroniser: at rest; cleared for a request; set *)
(* for a request that has not loaded the counter yet.                      *)
Steady ==
  /\ start_acq_reg[1] = capture_ctl_i.start
  /\ start_acq_reg[2] = capture_ctl_i.start
  /\ start_acq_reg[3] = capture_ctl_i.start
  /\ ~start_acq_trig

Falling ==
  /\ ~capture_ctl_i.start
  /\ start_acq_reg[1] => start_acq_reg[2]
  /\ start_acq_reg[2] => start_acq_reg[3]
  /\ ~start_acq_trig

Waiting ==
  /\ capture_ctl_i.start
  /\ \/ ~start_acq_reg[1] /\ (start_acq_reg[2] => start_acq_reg[3]) /\ ~start_acq_trig
     \/ start_acq_reg[1] /\ ~start_acq_reg[2] /\ ~start_acq_trig
     \/ start_acq_reg[1] /\ start_acq_reg[2] /\ ~start_acq_reg[3] /\ ~start_acq_trig
     \/ start_acq_reg[1] /\ start_acq_reg[2] /\ start_acq_reg[3] /\ start_acq_trig

(* A request starts on an idle channel, and stays alone on it. *)
Phase ==
  /\ armed => Falling /\ Drained /\ ~missed /\ engine = qw_count
  /\ ~armed => Steady \/ Waiting
  /\ Waiting =>
       /\ Drained /\ ~missed /\ engine = qw_count /\ started > 0
       /\ qw_count \in SampleCounts[id]
       /\ capture_ctl_i.count = qw_count - CountFix
  /\ missed => Steady /\ Drained /\ engine > 0 /\ started > 0
  /\ engine = 0 => Steady /\ Drained /\ ~armed

(* Words due from the requests that have loaded the counter, and those     *)
(* requests.                                                               *)
Due == IF Waiting THEN Len(asked) - qw_count ELSE Len(asked)
Served == IF armed \/ missed \/ Waiting THEN started - 1 ELSE started

Balance == IF id = "ADC" THEN Total = Due
           ELSE Total <= Due /\ Total >= Due - Served

Flow == ~cut /\ CountsFit => Phase /\ Balance

LEMMA PhasesDisjoint ==
  ASSUME WriteTypes
  PROVE  ~(Steady /\ Waiting) /\ ~(Falling /\ Waiting)
BY DEF WriteTypes, Steady, Falling, Waiting

LEMMA PhasesDisjointNext ==
  ASSUME WriteTypes'
  PROVE  ~(Steady' /\ Waiting') /\ ~(Falling' /\ Waiting')
BY DEF WriteTypes, Steady, Falling, Waiting

LEMMA TotalType ==
  ASSUME WriteSide
  PROVE  Left \in Nat /\ Bit(fifo_wren) \in 0..1 /\ Total \in Nat /\ Len(words) \in Nat
<1>1. Left \in Nat
  BY CaptureAssumption DEF WriteSide, WriteTypes, Left, Cap!Capturing
<1>2. Len(words) \in Nat
  BY DEF WriteSide, FifoRoom
<1> QED BY <1>1, <1>2, BitRange DEF Total

LEMMA DrainedTotal ==
  ASSUME WriteSide, Drained
  PROVE  Left = 0 /\ Bit(fifo_wren) = 0 /\ Total = Len(words) /\ delivered = Len(words)
<1>1. Left = 0 /\ Bit(fifo_wren) = 0
  BY DEF Drained, Left, Bit
<1> QED BY <1>1, TotalType DEF Drained, Total

LEMMA InitFlow ==
  ASSUME Init
  PROVE  Flow
<1>1. WriteSide
  BY InitWrite
<1>2. Steady /\ ~armed /\ ~missed
  BY Zenon DEF Init, Cap!CaptureInit, Steady
<1>3. Drained
  BY CaptureAssumption
  DEF Init, Cap!CaptureInit, Out!Init, Out!FifoInit, Out!OutInit, Drained, Cap!Capturing
<1>4. ~Waiting
  BY <1>1, <1>2, PhasesDisjoint DEF WriteSide
<1>5. Phase
  BY <1>2, <1>3, <1>4 DEF Phase
<1>6. Len(asked) = 0 /\ Len(words) = 0 /\ started = 0
  BY DEF Init, Out!Init, Out!FifoInit
<1>7. Balance
  <2>1. Total = 0 /\ Due = 0 /\ Served = 0
    BY <1>1, <1>2, <1>3, <1>4, <1>6, DrainedTotal DEF Due, Served
  <2> QED BY <2>1 DEF Balance
<1> QED BY <1>5, <1>7 DEF Flow

LEMMA FlowStartTransfer ==
  ASSUME WriteSide, Flow, NEW count \in SampleCounts[id], StartTransfer(count)
  PROVE  Flow'
<1> SUFFICES ASSUME ~cut', CountsFit' PROVE Phase' /\ Balance'
  BY DEF Flow
<1>1. ~cut /\ CountsFit
  BY DEF StartTransfer, CountsFit
<1>2. Phase /\ Balance
  BY <1>1 DEF Flow
<1>3. Steady /\ Drained /\ ~armed /\ engine = 0 /\ ~missed /\ ~Waiting
  BY <1>2, PhasesDisjoint DEF StartTransfer, Phase, WriteSide
<1>4. Falling'
  BY <1>3 DEF StartTransfer, captureRegs, Steady, Falling
<1>5. ~Waiting'
  BY DEF StartTransfer, Waiting
<1>6. Drained' /\ Total' = Total
  BY <1>3 DEF StartTransfer, Drained, Total, Left, Bit, Cap!Capturing, captureRegs, fifoVars,
     readRegs
<1>7. /\ armed' /\ ~missed' /\ engine' = count /\ qw_count' = count /\ count > 0
      /\ started' = started + 1 /\ asked' = asked /\ id' = id
  BY <1>3, CaptureAssumption DEF StartTransfer, WriteSide, SoftTypes
<1>8. Phase'
  BY <1>4, <1>5, <1>6, <1>7 DEF Phase
<1>9. Due' = Due /\ Served' = Served
  BY <1>3, <1>5, <1>7 DEF Due, Served, WriteSide, SoftTypes
<1> QED BY <1>2, <1>6, <1>7, <1>8, <1>9 DEF Balance

LEMMA FlowStartCapture ==
  ASSUME WriteSide, Flow, StartCapture
  PROVE  Flow'
<1> SUFFICES ASSUME ~cut', CountsFit' PROVE Phase' /\ Balance'
  BY DEF Flow
<1>1. ~cut /\ CountsFit
  BY DEF StartCapture, CountsFit
<1>2. Phase /\ Balance
  BY <1>1 DEF Flow
<1>3. /\ armed /\ Falling /\ Drained /\ ~missed /\ engine = qw_count /\ ~Waiting
      /\ qw_count \in SampleCounts[id] /\ started > 0
  BY <1>2, PhasesDisjoint DEF StartCapture, Phase, WriteSide, Request
<1>4. Drained' /\ Total' = Total
  BY <1>3 DEF StartCapture, Drained, Total, Left, Bit, Cap!Capturing, captureRegs, fifoVars,
     readRegs
<1>5. /\ ~armed' /\ engine' = engine /\ qw_count' = qw_count /\ started' = started /\ id' = id
      /\ capture_ctl_i'.start /\ capture_ctl_i'.count = qw_count - CountFix
      /\ start_acq_reg' = start_acq_reg /\ start_acq_trig' = start_acq_trig
      /\ missed' = start_acq_reg[1]
  BY DEF StartCapture, captureRegs
<1>6. qw_count \in 1..MaxOffset /\ started \in 0..MaxTriggers
  BY <1>3, CaptureAssumption DEF WriteSide, SoftTypes
<1>7. CASE start_acq_reg[1]
  <2>1. Steady' /\ missed' /\ asked' = asked
    BY <1>3, <1>5, <1>7 DEF Steady, Falling, StartCapture, WriteSide, WriteTypes
  <2>2. ~Waiting'
    BY <1>3, <1>5, <1>7 DEF Waiting, Falling
  <2>3. Phase'
    BY <1>3, <1>4, <1>5, <1>6, <2>1, <2>2 DEF Phase
  <2>4. Due' = Due /\ Served' = Served
    BY <1>3, <1>5, <2>1, <2>2 DEF Due, Served
  <2> QED BY <1>2, <1>4, <1>5, <2>3, <2>4 DEF Balance
<1>8. CASE ~start_acq_reg[1]
  <2>1. Waiting' /\ ~missed'
    BY <1>3, <1>5, <1>8 DEF Waiting, Falling
  <2>2. Len(asked') = Len(asked) + qw_count /\ Len(asked) \in Nat
    <3>1. asked' = asked \o WordsOf(started, qw_count)
      BY <1>8 DEF StartCapture
    <3>2. /\ WordsOf(started, qw_count) \in Seq(Out!Word)
          /\ Len(WordsOf(started, qw_count)) = qw_count
      BY <1>6, WordsOfType
    <3>3. asked \in Seq(Out!Word)
      BY DEF WriteSide, SoftTypes
    <3> QED BY <3>1, <3>2, <3>3, ConcatProperties
  <2>3. CountFix' = CountFix
    BY <1>5 DEF CountFix
  <2>4. Phase'
    BY <1>3, <1>4, <1>5, <1>6, <2>1, <2>3 DEF Phase
  <2>5. Due' = Due /\ Served' = Served
    BY <1>3, <1>5, <1>6, <2>1, <2>2 DEF Due, Served
  <2> QED BY <1>2, <1>4, <1>5, <2>4, <2>5 DEF Balance
<1> QED BY <1>7, <1>8

(* One edge of data_clk_i: what the counter still owes, what waits for the *)
(* FIFO and what is in it add up as before, unless the counter is loaded.  *)
LEMMA ClockKeepsTotal ==
  ASSUME WriteSide, NEW data_valid_i \in BOOLEAN, DataClk(data_valid_i), ~start_acq_trig
  PROVE  Total' = Total /\ (Drained => Drained')
<1> USE CaptureAssumption
<1>1. Len(words) \in Nat /\ capture_ctl_reg \in Nat /\ fifo_wren \in BOOLEAN
  BY DEF WriteSide, WriteTypes, FifoRoom
<1>2. /\ delivered' = delivered
      /\ capture_ctl_reg' = IF Cap!Counts(data_valid_i) THEN capture_ctl_reg - 1
                            ELSE capture_ctl_reg
      /\ fifo_wren' = IF Cap!fifo_full THEN fifo_wren ELSE Cap!Capturing /\ data_valid_i
  BY DEF DataClk, Cap!DataClk, Cap!p_samples_counter, Cap!p_fifo_wr_en, Cap!Loads, readRegs
<1>3. CASE Cap!fifo_full
  <2>1. words' = words /\ fifo_wren' = fifo_wren /\ capture_ctl_reg' = capture_ctl_reg
    BY <1>2, <1>3 DEF DataClk, Cap!DataClk, Cap!FifoWrClk, Cap!Counts
  <2>2. Total' = Total
    BY <2>1 DEF Total, Left, Bit, Cap!Capturing
  <2>3. Drained => Drained'
    BY <1>2, <2>1 DEF Drained, Cap!Capturing
  <2> QED BY <2>2, <2>3
<1>4. CASE ~Cap!fifo_full
  <2>1. Len(words') = Len(words) + Bit(fifo_wren) /\ (~fifo_wren => words' = words)
    BY <1>4 DEF DataClk, Cap!DataClk, Cap!FifoWrClk, Bit, WriteSide, FifoRoom
  <2>2. CASE Cap!Capturing /\ data_valid_i
    <3>1. capture_ctl_reg' = capture_ctl_reg - 1 /\ fifo_wren' = TRUE
      BY <1>2, <1>4, <2>2 DEF Cap!Counts
    <3>2. Left' = Left - 1 /\ Left \in Nat
      BY <1>1, <2>2, <3>1 DEF Left, Cap!Capturing
    <3>3. Bit(fifo_wren') = 1 /\ Bit(fifo_wren) \in 0..1
      BY <3>1 DEF Bit
    <3> QED BY <1>1, <2>1, <2>2, <3>2, <3>3 DEF Total, Drained
  <2>3. CASE ~(Cap!Capturing /\ data_valid_i)
    <3>1. capture_ctl_reg' = capture_ctl_reg /\ ~fifo_wren'
      BY <1>2, <1>4, <2>3 DEF Cap!Counts
    <3>2. Left' = Left /\ Left \in Nat /\ (Cap!Capturing' <=> Cap!Capturing)
      BY <1>1, <3>1 DEF Left, Cap!Capturing
    <3>3. Bit(fifo_wren') = 0 /\ Bit(fifo_wren) \in 0..1
      BY <3>1 DEF Bit
    <3>4. Total' = Total
      BY <1>1, <2>1, <3>2, <3>3 DEF Total
    <3>5. Drained => Drained'
      BY <1>2, <2>1, <3>1, <3>2 DEF Drained
    <3> QED BY <3>4, <3>5
  <2> QED BY <2>2, <2>3
<1> QED BY <1>3, <1>4

(* The synchroniser at an edge of data_clk_i. *)
LEMMA ClockShifts ==
  ASSUME WriteTypes, NEW data_valid_i \in BOOLEAN, DataClk(data_valid_i)
  PROVE  /\ Steady => Steady'
         /\ Falling => Falling'
         /\ Waiting /\ ~start_acq_trig => Waiting'
         /\ Waiting /\ start_acq_trig => Steady'
<1>1. /\ capture_ctl_i' = capture_ctl_i
      /\ start_acq_reg'[1] = capture_ctl_i.start /\ start_acq_reg'[2] = start_acq_reg[1]
      /\ start_acq_reg'[3] = start_acq_reg[2]
      /\ start_acq_trig' = (~start_acq_reg[3] /\ start_acq_reg[2])
  BY DEF DataClk, Cap!DataClk, Cap!p_start_acq_trig
<1>2. /\ capture_ctl_i.start \in BOOLEAN /\ start_acq_reg[1] \in BOOLEAN
      /\ start_acq_reg[2] \in BOOLEAN /\ start_acq_reg[3] \in BOOLEAN
      /\ start_acq_trig \in BOOLEAN
  BY DEF WriteTypes
<1> QED BY <1>1, <1>2 DEF Steady, Falling, Waiting

(* A trigger on an idle channel loads the count of its request: all of it, *)
(* or in the DDC channel perhaps one fewer.                                *)
LEMMA ClockLoads ==
  ASSUME WriteSide, CountsFit, Waiting, Phase, start_acq_trig,
         NEW data_valid_i \in ValidInputs, DataClk(data_valid_i)
  PROVE  /\ words' = words /\ ~fifo_wren' /\ delivered' = delivered
         /\ Left' \in Nat /\ Left' <= qw_count
         /\ IF id = "ADC" THEN Left' = qw_count ELSE Left' >= qw_count - 1
<1> USE CaptureAssumption
<1>1. /\ Drained /\ qw_count \in SampleCounts[id]
      /\ capture_ctl_i.count = qw_count - CountFix
  BY DEF Phase
<1>2. ~Cap!Capturing /\ ~fifo_wren
  BY <1>1 DEF Drained
<1>3. words' = words /\ ~fifo_wren' /\ delivered' = delivered
  BY <1>2 DEF DataClk, Cap!DataClk, Cap!FifoWrClk, Cap!p_fifo_wr_en, readRegs
<1> DEFINE v == IF data_valid_i THEN 1 ELSE 0
<1>4. capture_ctl_reg' = Enable + ((qw_count - CountFix - v) % Enable)
  BY <1>1, <1>2 DEF DataClk, Cap!DataClk, Cap!p_samples_counter, Cap!Loads, Cap!Counts
<1>5. qw_count \in 1..(Enable - 1) /\ id \in {"ADC", "DDC"}
  BY <1>1 DEF WriteSide, SoftTypes
<1>6. qw_count - CountFix - v \in 0..(Enable - 1)
  <2>1. CASE id = "ADC"
    BY <1>5, <2>1 DEF CountFix
  <2>2. CASE id = "DDC"
    <3>1. qw_count >= 2
      BY <1>1, <2>2 DEF CountsFit, TwoOrMore, WriteSide, SoftTypes
    <3> QED BY <1>5, <2>2, <3>1 DEF CountFix
  <2> QED BY <1>5, <2>1, <2>2
<1>7. Left' = qw_count - CountFix - v + 1
  BY <1>4, <1>6 DEF Left, Cap!Capturing
<1>8. id = "ADC" => v = 1
  BY DEF ValidInputs
<1>9. Left' \in Nat /\ Left' <= qw_count /\ Left' >= qw_count - 1
      /\ (id = "ADC" => Left' = qw_count)
  BY <1>5, <1>6, <1>7, <1>8 DEF CountFix
<1> QED BY <1>3, <1>9

LEMMA FlowDataClk ==
  ASSUME WriteSide, Flow, NEW data_valid_i \in ValidInputs, DataClk(data_valid_i)
  PROVE  Flow'
<1> SUFFICES ASSUME ~cut', CountsFit' PROVE Phase' /\ Balance'
  BY DEF Flow
<1>0. data_valid_i \in BOOLEAN
  BY DEF ValidInputs
<1>1. /\ id' = id /\ engine' = engine /\ qw_count' = qw_count /\ armed' = armed
      /\ started' = started /\ asked' = asked /\ missed' = missed /\ cut' = cut
      /\ capture_ctl_i' = capture_ctl_i
  BY DEF DataClk, Cap!DataClk
<1>2. ~cut /\ CountsFit /\ Phase /\ Balance
  BY <1>1 DEF Flow, CountsFit
<1>3. WriteTypes /\ WriteTypes'
  BY <1>0, WriteDataClk DEF WriteSide
<1>4. CountFix' = CountFix
  BY <1>1 DEF CountFix
<1>5. CASE Waiting /\ start_acq_trig
  <2>1. Steady' /\ ~Waiting'
    BY <1>0, <1>3, <1>5, ClockShifts, PhasesDisjointNext
  <2>2. /\ words' = words /\ ~fifo_wren' /\ delivered' = delivered
        /\ Left' \in Nat /\ Left' <= qw_count
        /\ IF id = "ADC" THEN Left' = qw_count ELSE Left' >= qw_count - 1
    BY <1>2, <1>5, ClockLoads
  <2>3. ~missed /\ ~armed /\ engine = qw_count /\ engine > 0 /\ Drained /\ started > 0
    <3>1. engine # 0
      BY <1>2, <1>3, <1>5, PhasesDisjoint DEF Phase
    <3>2. ~armed
      BY <1>2, <1>3, <1>5, PhasesDisjoint DEF Phase
    <3> QED BY <1>2, <1>5, <3>1, <3>2 DEF Phase, WriteSide, SoftTypes
  <2>4. Phase'
    BY <1>1, <2>1, <2>3 DEF Phase
  <2>5. Total = Len(words) /\ Total' = Len(words) + Left' /\ Len(words) \in Nat
    BY <2>2, <2>3, DrainedTotal, TotalType DEF Total, Bit
  <2>6. /\ Due = Len(asked) - qw_count /\ Due' = Len(asked)
        /\ Served = started - 1 /\ Served' = started
    BY <1>1, <1>5, <2>1, <2>3 DEF Due, Served
  <2>7. Len(asked) \in Nat /\ qw_count \in Nat /\ started \in Nat
    BY CaptureAssumption DEF WriteSide, SoftTypes
  <2>8. Balance'
    BY <1>1, <1>2, <2>2, <2>5, <2>6, <2>7 DEF Balance
  <2> QED BY <2>4, <2>8
<1>6. CASE ~(Waiting /\ start_acq_trig)
  <2>1. ~start_acq_trig
    BY <1>2, <1>6 DEF Phase, Steady, Falling
  <2>2. Total' = Total /\ (Drained => Drained')
    BY <1>0, <2>1, ClockKeepsTotal
  <2>3. Waiting' <=> Waiting
    BY <1>0, <1>2, <1>3, <2>1, ClockShifts, PhasesDisjoint, PhasesDisjointNext DEF Phase
  <2>4. (Steady => Steady') /\ (Falling => Falling')
    BY <1>0, <1>3, ClockShifts
  <2>5. Phase'
    BY <1>1, <1>2, <1>4, <2>2, <2>3, <2>4 DEF Phase
  <2>6. Due' = Due /\ Served' = Served
    BY <1>1, <2>3 DEF Due, Served
  <2> QED BY <1>1, <1>2, <2>2, <2>5, <2>6 DEF Balance
<1> QED BY <1>5, <1>6

(* The engine takes a word, or does not. *)
LEMMA EngineStep ==
  ASSUME WriteSide, Delivery, NEW dma_ready_i \in BOOLEAN, DmaClk(dma_ready_i)
  PROVE  /\ words' = words /\ UNCHANGED <<capture_ctl_i, captureRegs>>
         /\ UNCHANGED <<id, qw_count, armed, started, asked, stalled, missed>>
         /\ Left' = Left /\ Total' = Total
         /\ \/ delivered' = delivered /\ engine' = engine /\ cut' = cut
            \/ /\ delivered' = delivered + 1 /\ delivered < Len(words) /\ engine > 0
               /\ engine' = IF words[delivered + 1].last THEN 0 ELSE engine - 1
               /\ cut' = (cut \/ (engine' = 0 /\ ~Drained'))
<1>1. /\ words' = words /\ UNCHANGED <<capture_ctl_i, captureRegs>>
      /\ UNCHANGED <<id, qw_count, armed, started, asked, stalled, missed>>
  BY DEF DmaClk, Out!DmaClk, Out!FifoClk
<1>2. Left' = Left /\ Total' = Total
  BY <1>1 DEF Left, Total, Bit, Cap!Capturing, captureRegs
<1>3. engine \in Nat /\ cut \in BOOLEAN /\ delivered \in Nat
  BY DEF WriteSide, SoftTypes, Delivery
<1>4. CASE glue # 0 /\ dma_ready_i
  <2>1. engine > 0 /\ glue = delivered + 1 /\ delivered < Len(words)
    BY <1>4 DEF DmaClk, Delivery
  <2>2. delivered' = delivered + 1
    BY <1>4 DEF DmaClk, Out!DmaClk
  <2>3. engine' = IF words[delivered + 1].last THEN 0 ELSE engine - 1
    BY <1>4, <2>1 DEF DmaClk
  <2>4. cut' = (cut \/ (engine' = 0 /\ ~Drained'))
    BY <2>1 DEF DmaClk
  <2> QED BY <1>1, <1>2, <2>1, <2>2, <2>3, <2>4
<1>5. CASE ~(glue # 0 /\ dma_ready_i)
  <2>1. delivered' = delivered /\ engine' = engine
    BY <1>5 DEF DmaClk, Out!DmaClk
  <2>2. cut' = cut
    BY <1>3, <2>1 DEF DmaClk
  <2> QED BY <1>1, <1>2, <2>1, <2>2
<1> QED BY <1>4, <1>5

LEMMA FlowDmaClk ==
  ASSUME WriteSide, Delivery, Flow, NEW dma_ready_i \in BOOLEAN, DmaClk(dma_ready_i)
  PROVE  Flow'
<1> SUFFICES ASSUME ~cut', CountsFit' PROVE Phase' /\ Balance'
  BY DEF Flow
<1>1. /\ words' = words /\ UNCHANGED <<capture_ctl_i, captureRegs>>
      /\ UNCHANGED <<id, qw_count, armed, started, asked, missed>>
      /\ Total' = Total
  BY EngineStep
<1>2. ~cut /\ CountsFit
  BY <1>1, EngineStep DEF CountsFit
<1>3. Phase /\ Balance
  BY <1>2 DEF Flow
<1>4. (Steady' <=> Steady) /\ (Falling' <=> Falling) /\ (Waiting' <=> Waiting)
      /\ CountFix' = CountFix
  BY <1>1 DEF Steady, Falling, Waiting, CountFix, captureRegs
<1>5. Balance'
  BY <1>1, <1>3, <1>4 DEF Balance, Due, Served
<1>6. CASE delivered' = delivered /\ engine' = engine
  <2>1. Drained' <=> Drained
    BY <1>1, <1>6 DEF Drained, Cap!Capturing, captureRegs
  <2> QED BY <1>1, <1>3, <1>4, <1>5, <1>6, <2>1 DEF Phase
<1>7. CASE ~(delivered' = delivered /\ engine' = engine)
  <2>1. delivered < Len(words) /\ engine > 0 /\ (engine' = 0 => Drained')
    BY <1>7, EngineStep
  <2>2. ~Drained
    BY <2>1 DEF Drained, Delivery
  <2>3. ~armed /\ ~Waiting /\ ~missed /\ Steady
    BY <1>3, <2>2 DEF Phase
  <2> QED BY <1>1, <1>3, <1>4, <1>5, <2>1, <2>3 DEF Phase
<1> QED BY <1>6, <1>7

(* The pointers of the FIFO cross and nothing else moves. *)
LEMMA FlowSame ==
  ASSUME Flow, SyncRd \/ SyncWr \/ UNCHANGED vars
  PROVE  Flow'
<1>1. UNCHANGED <<capture_ctl_i, captureRegs, words, delivered, swVars>>
  BY DEF SyncRd, SyncWr, Cap!FifoSyncRd, Out!Sync, Out!FifoSync, Out!outVars, readRegs, vars,
     fifoVars
<1>2. Total' = Total /\ (Drained' <=> Drained)
  BY <1>1 DEF Total, Left, Bit, Cap!Capturing, Drained, captureRegs
<1>3. (Steady' <=> Steady) /\ (Falling' <=> Falling) /\ (Waiting' <=> Waiting)
      /\ CountFix' = CountFix
  BY <1>1 DEF Steady, Falling, Waiting, CountFix, captureRegs, swVars
<1>4. (Phase => Phase') /\ (Balance => Balance')
  BY <1>1, <1>2, <1>3 DEF Phase, Balance, Due, Served, swVars
<1> QED BY <1>1, <1>4 DEF Flow, CountsFit, swVars

LEMMA StepFlow ==
  ASSUME WriteSide, Delivery, Flow, [Next]_vars
  PROVE  Flow'
BY FlowStartTransfer, FlowStartCapture, FlowDataClk, FlowDmaClk, FlowSame DEF Next

THEOREM FlowHolds == Spec => [](WriteSide /\ Delivery /\ Flow)
<1>1. Init => WriteSide /\ Flow
  BY InitWrite, InitFlow
<1>2. WriteSide /\ Delivery /\ Flow /\ [Next]_vars => WriteSide' /\ Flow'
  BY StepWrite, StepFlow
<1> QED BY <1>1, <1>2, ReadSideHolds, PTL DEF Spec

(* At rest the capture side has written all that is due. *)
LEMMA QuietTotal ==
  ASSUME WriteSide, Quiet
  PROVE  ~Waiting /\ Total = Len(words) /\ ~armed
<1>1. ~Waiting
  <2>1. /\ start_acq_reg[1] = capture_ctl_i.start /\ start_acq_reg[2] = capture_ctl_i.start
        /\ start_acq_reg[3] = capture_ctl_i.start /\ ~start_acq_trig
    BY DEF Quiet
  <2> QED BY <2>1, PhasesDisjoint DEF Steady, WriteSide
<1>2. Left = 0 /\ Bit(fifo_wren) = 0
  BY DEF Quiet, Left, Bit
<1> QED BY <1>1, <1>2, TotalType DEF Total, Quiet

(***************************************************************************)
(* Each request of the ADC channel yields as many words as it asked for,   *)
(* for every count, every FIFO depth and however often the FIFO fills up,  *)
(* until a transfer is cut short.                                          *)
(***************************************************************************)
THEOREM CountsAreExact == Spec => []CountIsExact
<1>1. WriteSide /\ Flow => CountIsExact
  <2> SUFFICES ASSUME WriteSide, Flow, id = "ADC", Quiet, ~cut PROVE Len(words) = Len(asked)
    BY DEF CountIsExact
  <2>1. Balance
    BY DEF Flow, CountsFit
  <2> QED BY <2>1, QuietTotal DEF Balance, Due
<1> QED BY <1>1, FlowHolds, PTL

(***************************************************************************)
(* Each request of the DDC channel for two samples or more yields the      *)
(* words it asked for or one fewer, and never one more.                    *)
(***************************************************************************)
THEOREM NeverOneMore ==
  ASSUME TwoOrMore
  PROVE  Spec => []ShortByAtMostOne
<1>1. WriteSide /\ Flow => ShortByAtMostOne
  <2> SUFFICES ASSUME WriteSide, Flow, id = "DDC", ~cut
               PROVE  /\ Len(words) <= Len(asked)
                      /\ Quiet => Len(words) >= Len(asked) - Seen
    BY DEF ShortByAtMostOne
  <2>1. Phase /\ Balance
    BY DEF Flow, CountsFit
  <2>2. Total <= Due /\ Total >= Due - Served
    BY <2>1 DEF Balance
  <2>3. /\ Len(words) \in Nat /\ Total \in Nat /\ Total >= Len(words) /\ qw_count \in Nat
        /\ Len(asked) \in Nat /\ started \in Nat
    BY TotalType, CaptureAssumption DEF WriteSide, SoftTypes, Total
  <2>4. Due <= Len(asked) /\ Due \in Int
    BY <2>3 DEF Due
  <2>5. ASSUME Quiet PROVE Len(words) >= Len(asked) - Seen
    <3>1. ~Waiting /\ Total = Len(words) /\ ~armed
      BY <2>5, QuietTotal
    <3>2. Due = Len(asked) /\ Served = Seen
      BY <3>1 DEF Due, Served, Seen
    <3> QED BY <2>2, <3>1, <3>2
  <2> QED BY <2>2, <2>3, <2>4, <2>5
<1> QED BY <1>1, FlowHolds, PTL

-----------------------------------------------------------------------------
(* While the FIFO never fills up in a capture, TLAST is where it belongs.  *)

(* Behind a word with TLAST the capture has nothing more to write. *)
LastIsLast ==
  /\ \A i \in (delivered + 1)..Len(words) :
       words[i].last => i = Len(words) /\ ~fifo_wren /\ ~Cap!Capturing
  /\ fifo_wren /\ last_data_reg => ~Cap!Capturing

(* The engine was programmed for at least the words that come. *)
Enough == Total <= delivered + engine

Unstalled == ~stalled /\ CountsFit => ~cut /\ LastIsLast /\ Enough

LEMMA InitUnstalled ==
  ASSUME Init
  PROVE  Unstalled
<1>1. ~cut /\ ~fifo_wren /\ Len(words) = 0 /\ delivered = 0 /\ engine = 0
  BY DEF Init, Cap!CaptureInit, Out!Init, Out!FifoInit, Out!OutInit
<1>2. Left = 0
  BY CaptureAssumption DEF Init, Cap!CaptureInit, Left, Cap!Capturing
<1>3. LastIsLast
  BY <1>1 DEF LastIsLast
<1>4. Enough
  BY <1>1, <1>2 DEF Enough, Total, Bit
<1> QED BY <1>1, <1>3, <1>4 DEF Unstalled

LEMMA UnstalledSoftware ==
  ASSUME WriteSide, Delivery, Flow, Unstalled,
         StartCapture \/ \E count \in SampleCounts[id] : StartTransfer(count)
  PROVE  Unstalled'
<1> SUFFICES ASSUME ~stalled', CountsFit' PROVE (~cut /\ LastIsLast /\ Enough)'
  BY DEF Unstalled
<1>1. /\ UNCHANGED <<captureRegs, words, delivered, cut, stalled, id>>
      /\ engine' \in Nat /\ engine' >= engine
  BY CaptureAssumption DEF StartCapture, StartTransfer, fifoVars, readRegs, WriteSide, SoftTypes
<1>2. ~cut /\ LastIsLast /\ Enough
  BY <1>1 DEF Unstalled, CountsFit
<1>3. LastIsLast'
  BY <1>1, <1>2 DEF LastIsLast, captureRegs, Cap!Capturing
<1>4. Total' = Total /\ Total \in Nat
  BY <1>1, TotalType DEF Total, Left, Bit, Cap!Capturing, captureRegs
<1> QED BY <1>1, <1>2, <1>3, <1>4 DEF Enough, Delivery, WriteSide, SoftTypes

LEMMA UnstalledSame ==
  ASSUME Unstalled, SyncRd \/ SyncWr \/ UNCHANGED vars
  PROVE  Unstalled'
<1>1. UNCHANGED <<capture_ctl_i, captureRegs, words, delivered, swVars>>
  BY DEF SyncRd, SyncWr, Cap!FifoSyncRd, Out!Sync, Out!FifoSync, Out!outVars, readRegs, vars,
     fifoVars
<1> QED BY <1>1 DEF Unstalled, CountsFit, LastIsLast, Enough, Total, Left, Bit, Cap!Capturing,
     captureRegs, swVars

LEMMA UnstalledDataClk ==
  ASSUME WriteSide, Delivery, Flow, Unstalled,
         NEW data_valid_i \in ValidInputs, DataClk(data_valid_i)
  PROVE  Unstalled'
<1> SUFFICES ASSUME ~stalled', CountsFit' PROVE (~cut /\ LastIsLast /\ Enough)'
  BY DEF Unstalled
<1>0. data_valid_i \in BOOLEAN
  BY DEF ValidInputs
<1>1. /\ id' = id /\ engine' = engine /\ cut' = cut /\ delivered' = delivered
      /\ ~stalled /\ ~(Cap!fifo_full /\ (Cap!Capturing \/ fifo_wren))
  BY DEF DataClk, readRegs
<1>2. ~cut /\ LastIsLast /\ Enough /\ CountsFit /\ Phase
  BY <1>1 DEF Unstalled, CountsFit, Flow
<1>3. /\ Len(words) \in Nat /\ delivered \in Nat /\ delivered <= Len(words) /\ engine \in Nat
      /\ words \in Seq(Out!Word) /\ capture_ctl_reg \in Nat
  BY CaptureAssumption DEF WriteSide, FifoRoom, Delivery, SoftTypes, WriteTypes
<1>4. CASE start_acq_trig
  <2>1. Waiting /\ Drained /\ engine = qw_count
    BY <1>2, <1>4 DEF Phase, Steady, Falling
  <2>2. /\ words' = words /\ ~fifo_wren' /\ Left' \in Nat /\ Left' <= qw_count
    BY <1>2, <1>4, <2>1, ClockLoads
  <2>3. delivered = Len(words)
    BY <2>1 DEF Drained
  <2>4. LastIsLast'
    BY <1>1, <1>3, <2>2, <2>3 DEF LastIsLast
  <2>5. Enough'
    BY <1>1, <1>3, <2>1, <2>2, <2>3 DEF Enough, Total, Bit
  <2> QED BY <1>1, <1>2, <2>4, <2>5
<1>5. CASE ~start_acq_trig
  <2>1. Enough'
    BY <1>0, <1>1, <1>2, <1>5, ClockKeepsTotal DEF Enough
  <2>2. /\ capture_ctl_reg' = IF Cap!Counts(data_valid_i) THEN capture_ctl_reg - 1
                              ELSE capture_ctl_reg
        /\ fifo_wren' => Cap!Capturing /\ data_valid_i /\ ~Cap!fifo_full
    BY <1>1, <1>5 DEF DataClk, Cap!DataClk, Cap!p_samples_counter, Cap!Loads, Cap!p_fifo_wr_en
  <2>3. Cap!Capturing' => Cap!Capturing
    BY <1>3, <2>2, CaptureAssumption DEF Cap!Capturing
  <2>4. ASSUME fifo_wren', last_data_reg' PROVE ~Cap!Capturing'
    <3>1. capture_ctl_reg = Enable
      BY <2>4 DEF DataClk, Cap!DataClk, Cap!p_last_data_proc
    <3>2. capture_ctl_reg' = capture_ctl_reg - 1
      BY <2>2, <2>4 DEF Cap!Counts
    <3> QED BY <3>1, <3>2, CaptureAssumption DEF Cap!Capturing
  <2>5. ASSUME NEW i \in (delivered + 1)..Len(words'), words'[i].last
        PROVE  i = Len(words') /\ ~fifo_wren' /\ ~Cap!Capturing'
    <3>1. CASE fifo_wren
      <4>1. words' = Append(words, [data |-> data_i_d1, last |-> last_data_reg])
        BY <1>1, <3>1 DEF DataClk, Cap!DataClk, Cap!FifoWrClk
      <4>2. Len(words') = Len(words) + 1
        BY <1>3, <4>1
      <4>3. i \in (delivered + 1)..Len(words) => FALSE
        <5>1. ASSUME i \in (delivered + 1)..Len(words) PROVE FALSE
          <6>1. words'[i] = words[i]
            BY <1>3, <4>1, <5>1
          <6> QED BY <1>2, <2>5, <3>1, <5>1, <6>1 DEF LastIsLast
        <5> QED BY <5>1
      <4>4. i = Len(words) + 1
        BY <1>3, <4>2, <4>3
      <4>5. last_data_reg
        BY <1>3, <2>5, <4>1, <4>4
      <4>6. ~Cap!Capturing
        BY <1>2, <3>1, <4>5 DEF LastIsLast
      <4> QED BY <2>2, <2>3, <4>2, <4>4, <4>6
    <3>2. CASE ~fifo_wren
      <4>1. words' = words
        BY <3>2 DEF DataClk, Cap!DataClk, Cap!FifoWrClk
      <4>2. i = Len(words) /\ ~Cap!Capturing
        BY <1>2, <2>5, <4>1 DEF LastIsLast
      <4> QED BY <2>2, <2>3, <4>1, <4>2
    <3> QED BY <3>1, <3>2
  <2>6. LastIsLast'
    BY <1>1, <2>4, <2>5 DEF LastIsLast
  <2> QED BY <1>1, <1>2, <2>1, <2>6
<1> QED BY <1>4, <1>5

LEMMA UnstalledDmaClk ==
  ASSUME WriteSide, Delivery, Flow, Unstalled,
         NEW dma_ready_i \in BOOLEAN, DmaClk(dma_ready_i)
  PROVE  Unstalled'
<1> SUFFICES ASSUME ~stalled', CountsFit' PROVE (~cut /\ LastIsLast /\ Enough)'
  BY DEF Unstalled
<1>1. /\ words' = words /\ UNCHANGED <<captureRegs, id, stalled>> /\ Total' = Total
  BY EngineStep DEF captureRegs
<1>2. ~cut /\ LastIsLast /\ Enough
  BY <1>1 DEF Unstalled, CountsFit
<1>3. /\ Len(words) \in Nat /\ delivered \in Nat /\ delivered <= Len(words) /\ engine \in Nat
      /\ Total \in Nat /\ Total = Len(words) + Bit(fifo_wren) + Left /\ Left \in Nat
      /\ Bit(fifo_wren) \in 0..1
  BY TotalType DEF WriteSide, Delivery, SoftTypes, Total
<1>4. LastIsLast'
  <2>1. delivered' \in Nat /\ delivered' >= delivered
    BY <1>3, EngineStep
  <2>2. UNCHANGED <<fifo_wren, last_data_reg>> /\ (Cap!Capturing' <=> Cap!Capturing)
    BY <1>1 DEF captureRegs, Cap!Capturing
  <2>3. ASSUME NEW i \in (delivered' + 1)..Len(words'), words'[i].last
        PROVE  i = Len(words') /\ ~fifo_wren' /\ ~Cap!Capturing'
    <3>0. Len(words') = Len(words) /\ words'[i] = words[i]
      BY <1>1
    <3>1. i \in (delivered + 1)..Len(words)
      <4>1. \A d, e, n \in Nat : e >= d => (e + 1)..n \subseteq (d + 1)..n
        OBVIOUS
      <4>2. i \in (delivered' + 1)..Len(words)
        BY <3>0, Zenon
      <4> QED BY <1>3, <2>1, <4>1, <4>2
    <3>2. words[i].last
      BY <2>3, <3>0, Zenon
    <3> QED BY <1>1, <1>2, <2>2, <3>1, <3>2 DEF LastIsLast
  <2> QED BY <1>2, <2>2, <2>3 DEF LastIsLast
<1>5. CASE delivered' = delivered /\ engine' = engine /\ cut' = cut
  BY <1>1, <1>2, <1>4, <1>5 DEF Enough
<1>6. CASE ~(delivered' = delivered /\ engine' = engine /\ cut' = cut)
  <2>1. /\ delivered' = delivered + 1 /\ delivered < Len(words) /\ engine > 0
        /\ engine' = IF words[delivered + 1].last THEN 0 ELSE engine - 1
        /\ cut' = (cut \/ (engine' = 0 /\ ~Drained'))
    BY <1>6, EngineStep
  <2>2. ASSUME delivered' = Len(words), ~fifo_wren, ~Cap!Capturing PROVE Drained'
    BY <1>1, <2>2 DEF Drained, captureRegs, Cap!Capturing
  <2>3. CASE words[delivered + 1].last
    <3>1. delivered + 1 = Len(words) /\ ~fifo_wren /\ ~Cap!Capturing
      BY <1>2, <1>3, <2>1, <2>3 DEF LastIsLast
    <3>2. Drained' /\ Left = 0 /\ Bit(fifo_wren) = 0
      BY <2>1, <2>2, <3>1 DEF Left, Bit
    <3>3. Enough'
      BY <1>1, <1>3, <2>1, <2>3, <3>1, <3>2 DEF Enough
    <3> QED BY <1>2, <1>4, <2>1, <3>2, <3>3
  <2>4. CASE ~words[delivered + 1].last
    <3>1. Enough'
      BY <1>1, <1>2, <1>3, <2>1, <2>4 DEF Enough
    <3>2. ASSUME engine' = 0 PROVE Drained'
      <4>1. Total <= delivered'
        <5>1. Total' <= delivered' + engine'
          BY <3>1 DEF Enough
        <5> QED BY <1>1, <1>3, <2>1, <3>2, <5>1
      <4>2. delivered' <= Len(words)
        BY <1>3, <2>1
      <4>3. delivered' = Len(words) /\ Bit(fifo_wren) = 0 /\ Left = 0
        BY <1>3, <2>1, <4>1, <4>2
      <4>4. ~fifo_wren /\ ~Cap!Capturing
        BY <4>3, CaptureAssumption DEF Bit, Left, Cap!Capturing, WriteSide, WriteTypes
      <4> QED BY <2>2, <4>3, <4>4
    <3> QED BY <1>2, <1>4, <2>1, <3>1, <3>2
  <2> QED BY <2>3, <2>4
<1> QED BY <1>5, <1>6

LEMMA StepUnstalled ==
  ASSUME WriteSide, Delivery, Flow, Unstalled, [Next]_vars
  PROVE  Unstalled'
BY UnstalledSoftware, UnstalledDataClk, UnstalledDmaClk, UnstalledSame DEF Next

(***************************************************************************)
(* In a channel whose FIFO never filled up no transfer is cut short, and   *)
(* an idle engine has taken every word, for every sequence of counts (in   *)
(* the DDC channel of two or more): software that waits for the engine has *)
(* waited for the capture.                                                 *)
(***************************************************************************)
THEOREM TransfersTakeAll ==
  ASSUME TwoOrMore
  PROVE  Spec => []TransferTakesAll
<1>1. WriteSide /\ Flow /\ Unstalled => TransferTakesAll
  <2> SUFFICES ASSUME WriteSide, Flow, Unstalled, ~stalled
               PROVE  /\ ~cut
                      /\ engine = 0 => delivered = Len(words)
                      /\ engine = 0 /\ id = "ADC" => delivered = Len(asked)
    BY DEF TransferTakesAll
  <2>1. ~cut /\ Phase /\ Balance
    BY DEF Unstalled, Flow, CountsFit
  <2>2. ASSUME engine = 0 PROVE Steady /\ Drained
    BY <2>1, <2>2 DEF Phase
  <2>3. ASSUME engine = 0, id = "ADC" PROVE delivered = Len(asked)
    <3>1. Steady /\ Drained
      BY <2>2, <2>3
    <3>2. ~Waiting
      BY <3>1, PhasesDisjoint DEF WriteSide
    <3>3. Total = Len(asked)
      BY <2>1, <2>3, <3>2 DEF Balance, Due
    <3> QED BY <3>1, <3>3, DrainedTotal
  <2> QED BY <2>1, <2>2, <2>3 DEF Drained
<1>2. Init => Unstalled
  BY InitUnstalled
<1>3. WriteSide /\ Delivery /\ Flow /\ Unstalled /\ [Next]_vars => Unstalled'
  BY StepUnstalled
<1> QED BY <1>1, <1>2, <1>3, FlowHolds, PTL DEF Spec

-----------------------------------------------------------------------------
(* While the FIFO of the ADC channel never fills up, each word is the one  *)
(* its request asked for.                                                  *)

(* The last words asked for are those of the request under way. *)
Newest ==
  /\ qw_count <= Len(asked) /\ qw_count <= MaxOffset
  /\ \A k \in 1..qw_count :
       asked[Len(asked) - qw_count + k] = [data |-> <<started, k>>, last |-> k = qw_count]

(* The counter and the source agree on the sample that comes. *)
InStep == Left <= qw_count /\ data_i = <<started, qw_count - Left + 1>>

Content ==
  id = "ADC" /\ ~stalled =>
    /\ data_i[1] = Served
    /\ Waiting \/ Cap!Capturing => Newest
    /\ Cap!Capturing => InStep
    /\ fifo_wren => [data |-> data_i_d1, last |-> last_data_reg] = asked[Len(words) + 1]
    /\ \A i \in 1..Len(words) : words[i] = asked[i]

LEMMA InitContent ==
  ASSUME Init
  PROVE  Content
<1>1. data_i = <<0, 0>> /\ words = <<>> /\ ~fifo_wren /\ ~Cap!Capturing /\ ~capture_ctl_i.start
  BY CaptureAssumption
  DEF Init, Cap!CaptureInit, Cap!NoSample, Out!Init, Out!FifoInit, Cap!Capturing
<1>2. started = 0 /\ ~armed /\ ~missed
  BY DEF Init
<1>3. ~Waiting
  BY <1>1 DEF Waiting
<1>4. data_i[1] = Served
  BY <1>1, <1>2, <1>3 DEF Served
<1> QED BY <1>1, <1>3, <1>4 DEF Content

(* Where no word was lost the channel is in one of the phases of Flow. *)
LEMMA ContentPhase ==
  ASSUME WriteSide, Flow, Unstalled, id = "ADC", ~stalled
  PROVE  /\ ~cut /\ Phase /\ Total = Due
         /\ Len(words) \in Nat /\ Len(asked) \in Nat /\ qw_count \in Nat
         /\ Left \in Nat /\ Bit(fifo_wren) \in 0..1 /\ Due <= Len(asked) /\ Due \in Int
         /\ Len(words) + Bit(fifo_wren) + Left = Due
<1>1. ~cut /\ Phase /\ Total = Due
  BY DEF Unstalled, CountsFit, Flow, Balance
<1>2. Len(asked) \in Nat /\ qw_count \in Nat
  BY CaptureAssumption DEF WriteSide, SoftTypes
<1> QED BY <1>1, <1>2, TotalType DEF Total, Due

LEMMA ContentStartTransfer ==
  ASSUME WriteSide, Flow, Unstalled, Content, NEW count \in SampleCounts[id],
         StartTransfer(count)
  PROVE  Content'
<1> SUFFICES ASSUME id = "ADC", ~stalled PROVE Content'
  BY DEF Content, StartTransfer
<1>1. Steady /\ Drained /\ ~armed /\ ~missed /\ ~Waiting
  BY ContentPhase, PhasesDisjoint DEF StartTransfer, Phase, WriteSide
<1>2. ~Waiting' /\ armed' /\ started' = started + 1
  BY DEF StartTransfer, Waiting
<1>3. UNCHANGED <<words, asked, captureRegs>> /\ ~Cap!Capturing'
  BY <1>1 DEF StartTransfer, fifoVars, captureRegs, Drained, Cap!Capturing
<1>4. Served' = Served
  BY <1>1, <1>2 DEF Served, WriteSide, SoftTypes
<1> QED BY <1>2, <1>3, <1>4 DEF Content, captureRegs

LEMMA ContentStartCapture ==
  ASSUME WriteSide, Flow, Flow', Unstalled, Content, StartCapture
  PROVE  Content'
<1> SUFFICES ASSUME id = "ADC", ~stalled PROVE Content'
  BY DEF Content, StartCapture
<1>1. Drained /\ armed /\ Falling /\ ~Waiting
  BY ContentPhase, PhasesDisjoint DEF StartCapture, Phase, WriteSide
<1>2. Len(words) = Len(asked) /\ Len(asked) \in Nat
  BY <1>1, ContentPhase, DrainedTotal DEF Due
<1>3. /\ UNCHANGED <<id, words, captureRegs, started, qw_count>> /\ ~Cap!Capturing' /\ ~fifo_wren'
      /\ ~armed' /\ data_i' = data_i
  BY <1>1 DEF StartCapture, fifoVars, captureRegs, Drained, Cap!Capturing
<1>4. Phase'
  <2>1. ~cut' /\ CountsFit'
    BY <1>3, ContentPhase DEF StartCapture, CountsFit
  <2> QED BY <2>1 DEF Flow
<1>5. Served' = Served
  <2>1. missed' \/ Waiting'
    <3>1. Steady' => start_acq_reg[1]
      BY <1>3 DEF Steady, StartCapture, captureRegs
    <3> QED BY <1>3, <1>4, <3>1 DEF Phase, StartCapture
  <2> QED BY <1>1, <1>3, <2>1 DEF Served
<1>6. qw_count \in 1..MaxOffset /\ started \in 0..MaxTriggers
  BY <1>1, CaptureAssumption DEF WriteSide, SoftTypes, Request
<1> DEFINE w == WordsOf(started, qw_count)
<1>7. w \in Seq(Out!Word) /\ Len(w) = qw_count /\ asked \in Seq(Out!Word)
  BY <1>6, WordsOfType DEF WriteSide, SoftTypes
<1>8. CASE start_acq_reg[1]
  <2>1. asked' = asked
    BY <1>8 DEF StartCapture
  <2>2. ~Waiting'
    BY <1>1, <1>3, <1>8 DEF Waiting, Falling, captureRegs
  <2> QED BY <1>3, <1>5, <2>1, <2>2 DEF Content
<1>9. CASE ~start_acq_reg[1]
  <2> HIDE DEF w
  <2>1. asked' = asked \o w
    BY <1>9 DEF StartCapture, w
  <2>2. /\ Len(asked') = Len(asked) + qw_count
        /\ \A i \in 1..Len(asked) : asked'[i] = asked[i]
        /\ \A k \in 1..qw_count : asked'[Len(asked) + k] = w[k]
    <3>1. /\ Len(asked') = Len(asked) + qw_count
          /\ \A i \in 1..(Len(asked) + qw_count) :
               asked'[i] = IF i <= Len(asked) THEN asked[i] ELSE w[i - Len(asked)]
      BY <1>7, <2>1, ConcatProperties
    <3>2. Len(asked) \in Nat /\ qw_count \in Nat
      BY <1>2, <1>6
    <3>3. ASSUME NEW i \in 1..Len(asked) PROVE asked'[i] = asked[i]
      BY <3>1, <3>2
    <3>4. ASSUME NEW k \in 1..qw_count PROVE asked'[Len(asked) + k] = w[k]
      <4>1. /\ Len(asked) + k \in 1..(Len(asked) + qw_count) /\ ~(Len(asked) + k <= Len(asked))
            /\ Len(asked) + k - Len(asked) = k
        BY <3>2
      <4> HIDE DEF w
      <4> QED BY <3>1, <4>1
    <3> QED BY <3>1, <3>3, <3>4
  <2>3. \A k \in 1..qw_count : w[k] = [data |-> <<started, k>>, last |-> k = qw_count]
    BY DEF w, WordsOf
  <2>4. Newest'
    <3>1. Len(asked') - qw_count' = Len(asked) /\ qw_count' = qw_count /\ started' = started
          /\ qw_count' <= Len(asked') /\ qw_count' <= MaxOffset
      BY <1>2, <1>3, <1>6, <2>2, CaptureAssumption
    <3>2. \A k \in 1..qw_count : asked'[Len(asked) + k] =
                                [data |-> <<started, k>>, last |-> k = qw_count]
      BY <2>2, <2>3, Zenon
    <3> QED BY <3>1, <3>2 DEF Newest
  <2>5. \A i \in 1..Len(words') : words'[i] = asked'[i]
    BY <1>2, <1>3, <2>2 DEF Content
  <2> QED BY <1>3, <1>5, <2>4, <2>5 DEF Content
<1> QED BY <1>8, <1>9

LEMMA ContentSame ==
  ASSUME Content, UNCHANGED <<capture_ctl_i, captureRegs, words>>,
         UNCHANGED <<id, qw_count, armed, started, asked, stalled, missed>>
  PROVE  Content'
<1>1. (Waiting' <=> Waiting) /\ (Cap!Capturing' <=> Cap!Capturing) /\ Left' = Left
  BY DEF Waiting, Cap!Capturing, Left, captureRegs
<1>2. Served' = Served /\ (Newest => Newest') /\ (InStep => InStep')
  BY <1>1 DEF Served, Newest, InStep, captureRegs
<1> QED BY <1>1, <1>2 DEF Content, captureRegs

LEMMA ContentDataClk ==
  ASSUME WriteSide, WriteSide', Flow, Unstalled, Content,
         NEW data_valid_i \in ValidInputs, DataClk(data_valid_i)
  PROVE  Content'
<1> USE CaptureAssumption
<1> SUFFICES ASSUME id' = "ADC", ~stalled' PROVE Content'
  BY DEF Content
<1>1. /\ UNCHANGED <<id, qw_count, armed, started, asked, missed, capture_ctl_i>>
      /\ ~stalled /\ ~(Cap!fifo_full /\ (Cap!Capturing \/ fifo_wren)) /\ data_valid_i = TRUE
  BY DEF DataClk, Cap!DataClk, ValidInputs
<1>2. /\ Phase /\ Total = Due /\ id = "ADC"
      /\ Len(words) \in Nat /\ Len(asked) \in Nat /\ qw_count \in Nat
      /\ Left \in Nat /\ Bit(fifo_wren) \in 0..1 /\ Due <= Len(asked) /\ Due \in Int
      /\ Len(words) + Bit(fifo_wren) + Left = Due
  BY <1>1, ContentPhase
<1>3. /\ data_i[1] = Served
      /\ Waiting \/ Cap!Capturing => Newest
      /\ Cap!Capturing => InStep
      /\ fifo_wren => [data |-> data_i_d1, last |-> last_data_reg] = asked[Len(words) + 1]
      /\ \A i \in 1..Len(words) : words[i] = asked[i]
  BY <1>1, <1>2 DEF Content
<1>4. WriteTypes /\ WriteTypes' /\ words \in Seq(Out!Word) /\ capture_ctl_reg \in Nat
      /\ started \in Nat
  BY DEF WriteSide, FifoRoom, WriteTypes, SoftTypes
<1>5. \A i \in 1..Len(words') : words'[i] = asked'[i]
  <2>1. CASE fifo_wren
    <3> DEFINE w == [data |-> data_i_d1, last |-> last_data_reg]
    <3>1. words' = Append(words, w)
      BY <1>1, <2>1 DEF DataClk, Cap!DataClk, Cap!FifoWrClk
    <3>2. w = asked[Len(words) + 1]
      BY <1>3, <2>1
    <3> HIDE DEF w
    <3> QED BY <1>1, <1>3, <1>4, <3>1, <3>2
  <2>2. CASE ~fifo_wren
    <3>1. words' = words
      BY <2>2 DEF DataClk, Cap!DataClk, Cap!FifoWrClk
    <3> QED BY <1>1, <1>3, <3>1
  <2> QED BY <2>1, <2>2
<1>6. CASE start_acq_trig
  <2>1. Waiting /\ Drained /\ ~armed /\ ~missed
    BY <1>2, <1>4, <1>6, PhasesDisjoint DEF Phase, Steady, Falling
  <2>2. Steady' /\ ~Waiting'
    BY <1>1, <1>4, <1>6, <2>1, ClockShifts, PhasesDisjointNext
  <2>3. ~fifo_wren' /\ Left' = qw_count
    BY <1>2, <1>6, <2>1, ClockLoads DEF CountsFit
  <2>4. data_i' = <<data_i[1] + 1, 1>>
    BY <1>6, <2>1 DEF DataClk, Cap!DataClk, Cap!Source, Cap!Loads, Cap!Counts, Drained
  <2>5. data_i'[1] = Served' /\ Served' = started
    BY <1>1, <1>3, <1>4, <2>1, <2>2, <2>4 DEF Served
  <2>6. Newest'
    BY <1>1, <1>3, <2>1 DEF Newest
  <2>7. InStep'
    <3>1. data_i'[1] = data_i[1] + 1
      BY <2>4
    <3>2. data_i' = <<started, 1>>
      BY <2>4, <2>5, <3>1
    <3> QED BY <1>1, <1>2, <2>3, <3>2 DEF InStep
  <2> QED BY <1>5, <2>2, <2>3, <2>5, <2>6, <2>7 DEF Content
<1>7. CASE ~start_acq_trig
  <2>1. /\ capture_ctl_reg' = IF Cap!Counts(data_valid_i) THEN capture_ctl_reg - 1
                              ELSE capture_ctl_reg
        /\ data_i' = IF data_i[2] \in 1..(MaxOffset - 1) THEN <<data_i[1], data_i[2] + 1>>
                     ELSE data_i
    BY <1>1, <1>7 DEF DataClk, Cap!DataClk, Cap!p_samples_counter, Cap!Loads, Cap!Source
  <2>2. Waiting' <=> Waiting
    BY <1>1, <1>2, <1>4, <1>7, ClockShifts, PhasesDisjoint, PhasesDisjointNext DEF Phase
  <2>3. data_i'[1] = Served'
    BY <1>1, <1>3, <2>1, <2>2 DEF Served
  <2>4. Newest => Newest'
    BY <1>1 DEF Newest
  <2>5. Cap!Capturing' => Cap!Capturing
    BY <1>4, <2>1 DEF Cap!Capturing
  <2>6. CASE Cap!Capturing
    <3>1. ~armed /\ ~Waiting /\ ~missed /\ Newest /\ InStep
      BY <1>2, <1>3, <2>6 DEF Phase, Drained
    <3>2. Due = Len(asked)
      BY <3>1 DEF Due
    <3>3. Cap!Counts(data_valid_i) /\ capture_ctl_reg' = capture_ctl_reg - 1
      BY <1>1, <2>1, <2>6 DEF Cap!Counts
    <3>4. /\ Left = capture_ctl_reg - Enable + 1 /\ Left >= 1
          /\ Left' = Left - 1 /\ (Cap!Capturing' => Left > 1)
      BY <1>4, <2>6, <3>3 DEF Left, Cap!Capturing
    <3> DEFINE k == qw_count - Left + 1
    <3>5. k \in 1..qw_count /\ data_i = <<started, k>> /\ qw_count <= MaxOffset
      <4>1. qw_count <= MaxOffset
        BY <3>1 DEF Newest
      <4>2. Left <= qw_count /\ data_i = <<started, k>>
        BY <3>1 DEF InStep
      <4>3. \A l, q \in Nat : l >= 1 /\ l <= q => q - l + 1 \in 1..q
        OBVIOUS
      <4>4. k \in 1..qw_count
        BY <1>2, <3>4, <4>2, <4>3
      <4> QED BY <4>1, <4>2, <4>4
    <3>6. Cap!Capturing' => InStep'
      <4> SUFFICES ASSUME Cap!Capturing' PROVE InStep'
        OBVIOUS
      <4>1. data_i[1] = started /\ data_i[2] = k
        BY <3>5
      <4>2. k \in 1..(MaxOffset - 1)
        <5>1. \A l, q, m \in Nat : l > 1 /\ q <= m /\ q - l + 1 >= 1 => q - l + 1 \in 1..(m - 1)
          OBVIOUS
        <5>2. Left > 1 /\ qw_count <= MaxOffset /\ k >= 1
          BY <3>4, <3>5
        <5> QED BY <1>2, <5>1, <5>2
      <4>3. data_i' = <<started, k + 1>>
        BY <2>1, <4>1, <4>2
      <4>4. Left' <= qw_count' /\ k + 1 = qw_count' - Left' + 1
        <5>1. \A l, q \in Nat : l <= q => l - 1 <= q /\ q - l + 1 + 1 = q - (l - 1) + 1
          OBVIOUS
        <5>2. Left <= qw_count /\ Left' = Left - 1
          BY <3>1, <3>4 DEF InStep
        <5> QED BY <1>1, <1>2, <5>1, <5>2
      <4> QED BY <1>1, <4>3, <4>4 DEF InStep
    <3>7. Len(words') = Len(words) + Bit(fifo_wren)
      BY <1>1, <1>4 DEF DataClk, Cap!DataClk, Cap!FifoWrClk, Bit
    <3>8. Len(words') + 1 = Len(asked) - qw_count + k
      BY <1>2, <3>2, <3>7
    <3>9. asked[Len(asked) - qw_count + k] = [data |-> <<started, k>>, last |-> k = qw_count]
      BY <3>1, <3>5 DEF Newest
    <3>10. data_i_d1' = <<started, k>>
      BY <1>1, <3>5 DEF DataClk, Cap!DataClk, Cap!p_fifo_wr_en
    <3>11. last_data_reg' = (k = qw_count)
      <4>1. last_data_reg' = (capture_ctl_reg = Enable)
        BY <1>1 DEF DataClk, Cap!DataClk, Cap!p_last_data_proc
      <4>2. (capture_ctl_reg = Enable) = (k = qw_count)
        BY <1>2, <1>4, <3>4
      <4> QED BY <4>1, <4>2
    <3>12. [data |-> data_i_d1', last |-> last_data_reg'] = asked'[Len(words') + 1]
      BY <1>1, <3>8, <3>9, <3>10, <3>11, Zenon
    <3> QED BY <1>5, <2>2, <2>3, <2>4, <3>1, <3>6, <3>12 DEF Content
  <2>7. CASE ~Cap!Capturing
    <3>1. ~fifo_wren'
      BY <1>1, <2>7 DEF DataClk, Cap!DataClk, Cap!p_fifo_wr_en
    <3> QED BY <1>3, <1>5, <2>2, <2>3, <2>4, <2>5, <2>7, <3>1 DEF Content
  <2> QED BY <2>6, <2>7
<1> QED BY <1>6, <1>7

LEMMA StepContent ==
  ASSUME WriteSide, WriteSide', Delivery, Flow, Flow', Unstalled, Content, [Next]_vars
  PROVE  Content'
<1>1. ASSUME SyncRd \/ SyncWr \/ UNCHANGED vars PROVE Content'
  <2>1. UNCHANGED <<capture_ctl_i, captureRegs, words, swVars>>
    BY <1>1 DEF SyncRd, SyncWr, Cap!FifoSyncRd, Out!Sync, Out!FifoSync, vars, fifoVars
  <2> QED BY <2>1, ContentSame DEF swVars
<1>2. ASSUME NEW dma_ready_i \in BOOLEAN, DmaClk(dma_ready_i) PROVE Content'
  BY <1>2, EngineStep, ContentSame
<1> QED BY <1>1, <1>2, ContentStartTransfer, ContentStartCapture, ContentDataClk DEF Next

(***************************************************************************)
(* An ADC channel whose FIFO never filled up has written the samples asked *)
(* for, in order, TLAST on the last of each request, and nothing else: for *)
(* every count, depth and number of requests.                              *)
(***************************************************************************)
THEOREM CapturesAreExact == Spec => []CapturesWhatWasAsked
<1>1. WriteSide /\ Flow /\ Unstalled /\ Content => CapturesWhatWasAsked
  <2> SUFFICES ASSUME WriteSide, Flow, Unstalled, Content, id = "ADC", ~stalled
               PROVE  IsPrefix(words, asked) /\ (Quiet => words = asked)
    BY DEF CapturesWhatWasAsked
  <2>1. words \in Seq(Out!Word) /\ asked \in Seq(Out!Word)
    BY DEF WriteSide, FifoRoom, SoftTypes
  <2>2. Len(words) \in Nat /\ Len(words) <= Len(asked)
    BY ContentPhase
  <2>3. \A i \in 1..Len(words) : words[i] = asked[i]
    BY DEF Content
  <2>4. SubSeq(words, 1, Len(words)) = SubSeq(asked, 1, Len(words))
    BY <2>1, <2>2, <2>3
  <2>5. ASSUME Quiet PROVE words = asked
    <3>1. Len(words) = Len(asked)
      BY <2>5, ContentPhase, QuietTotal DEF Due
    <3> QED BY <2>1, <2>3, <3>1, SeqEqual
  <2> QED BY <2>2, <2>4, <2>5 DEF IsPrefix
<1>2. Init => Unstalled /\ Content
  BY InitUnstalled, InitContent
<1>3. WriteSide /\ Delivery /\ Flow /\ Unstalled /\ [Next]_vars => Unstalled'
  BY StepUnstalled
<1>4. /\ WriteSide /\ WriteSide' /\ Delivery /\ Flow /\ Flow' /\ Unstalled /\ Content
      /\ [Next]_vars
      => Content'
  BY StepContent
<1> QED BY <1>1, <1>2, <1>3, <1>4, FlowHolds, PTL DEF Spec
=============================================================================
