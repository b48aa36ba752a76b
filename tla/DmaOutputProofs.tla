--------------------------- MODULE DmaOutputProofs ---------------------------
(***************************************************************************)
(* Proofs about the read side of dma_if.vhd, for every FIFO depth and any  *)
(* number of words: the two-bit counters of the four-slot buffer never     *)
(* overrun, and the circuit implements the stream of module DmaStream.     *)
(***************************************************************************)
EXTENDS DmaOutput, FiniteSetTheorems, TLAPS

(* The counters are two bits wide: addition and difference modulo four. *)
LEMMA TwoBitNext ==
  \A a \in Slots : (a + 1) % 4 = IF a = 3 THEN 0 ELSE a + 1
BY DEF Slots

LEMMA TwoBitDiff ==
  ASSUME NEW a \in Slots, NEW b \in Slots
  PROVE  (a - b) % 4 = IF a >= b THEN a - b ELSE a - b + 4
BY DEF Slots

(* Type correctness of one edge of dma_clk_i. *)
LEMMA DmaClkType ==
  ASSUME TypeOK, NEW dma_ready_i \in BOOLEAN, DmaClk(dma_ready_i)
  PROVE  TypeOK'
<1> USE DEF DmaClk, written
<1>1. /\ words' \in Seq(Word) /\ visible' \in 0..Len(words')
      /\ readPtr' \in 0..visible' /\ fifo_do' \in 0..readPtr'
  BY DEF TypeOK, FifoClk, dma_valid_s, fifo_empty
<1>2. dma_out' \in [Slots -> Nat]
  BY DEF TypeOK, p_dma_pre_output
<1>3. dma_valid_reg0' \in BOOLEAN
  BY DEF TypeOK, p_dma_pre_output, dma_valid_s, fifo_empty
<1>4. pre_output_counter_wr' \in Slots /\ output_counter_rd' \in Slots
  BY TwoBitNext DEF TypeOK, p_dma_pre_output, p_dma_output_proc, Slots
<1>5. glue' \in Nat
  BY DEF TypeOK, p_dma_output_proc
<1>6. s_dma_complete' \in BOOLEAN
  BY Zenon DEF TypeOK, p_dma_complete
<1>7. delivered' \in Nat
  BY DEF TypeOK
<1> QED BY <1>1, <1>2, <1>3, <1>4, <1>5, <1>6, <1>7 DEF TypeOK

(* Spec => []TypeOK: every register keeps its width and the three FIFO     *)
(* pointers stay ordered (read <= visible <= written).                     *)
THEOREM TypeCorrect == Spec => []TypeOK
<1>1. Init => TypeOK
  <2> SUFFICES ASSUME Init PROVE TypeOK OBVIOUS
  <2>1. words \in Seq(Word) /\ Len(words) = 0
    BY DEF Init, FifoInit
  <2>2. dma_out \in [Slots -> Nat]
    BY DEF Init, OutInit
  <2>3. visible \in 0..written /\ readPtr \in 0..visible /\ fifo_do \in 0..readPtr
    BY <2>1 DEF Init, FifoInit, written
  <2>4. dma_valid_reg0 \in BOOLEAN /\ s_dma_complete \in BOOLEAN
    BY DEF Init, OutInit
  <2>5. /\ pre_output_counter_wr \in Slots /\ output_counter_rd \in Slots
        /\ glue \in Nat /\ delivered \in Nat
    BY DEF Init, OutInit, Slots
  <2> QED BY <2>1, <2>2, <2>3, <2>4, <2>5 DEF TypeOK
<1>2. TypeOK /\ [Next]_vars => TypeOK'
  <2> SUFFICES ASSUME TypeOK, [Next]_vars PROVE TypeOK' OBVIOUS
  <2>1. ASSUME NEW w \in Word, Write(w) PROVE TypeOK'
    BY <2>1 DEF TypeOK, Write, FifoWrite, outVars, written
  <2>2. CASE Sync
    BY <2>2 DEF TypeOK, Sync, FifoSync, outVars, written
  <2>3. ASSUME NEW dma_ready_i \in BOOLEAN, DmaClk(dma_ready_i) PROVE TypeOK'
    BY <2>3, DmaClkType
  <2>4. CASE UNCHANGED vars
    BY <2>4 DEF TypeOK, vars, written
  <2> QED BY <2>1, <2>2, <2>3, <2>4 DEF Next
<1> QED BY <1>1, <1>2, PTL DEF Spec

-----------------------------------------------------------------------------
(* The inductive invariant: the bound alone is not inductive for the       *)
(* order, nor the order for the bound (a fifth word would overwrite).      *)
IInv == TypeOK /\ AtMostTwoInFlight /\ InOrder

(* The edge keeps at most two words in flight. *)
LEMMA DmaClkBound ==
  ASSUME TypeOK, AtMostTwoInFlight, NEW dma_ready_i \in BOOLEAN,
         DmaClk(dma_ready_i)
  PROVE  AtMostTwoInFlight'
BY TwoBitNext, TwoBitDiff DEF TypeOK, AtMostTwoInFlight, Occupancy, DmaClk, p_dma_pre_output,
   p_dma_output_proc, dma_ready_s, dma_valid_s, fifo_empty, Slots

(* The edge keeps the words in flight in order. *)
LEMMA DmaClkOrder ==
  ASSUME IInv, NEW dma_ready_i \in BOOLEAN, DmaClk(dma_ready_i)
  PROVE  InOrder'
<1> USE DEF IInv, DmaClk
<1>1. (glue # 0 => glue = delivered + 1)'
  BY TwoBitDiff DEF TypeOK, InOrder, OnBus, Ahead, Occupancy, p_dma_output_proc, dma_ready_s, Slots
<1>2. (dma_valid_reg0 => fifo_do = readPtr)'
  BY DEF TypeOK, InOrder, p_dma_pre_output, FifoClk, dma_valid_s, fifo_empty
<1>3. (readPtr = delivered + OnBus + Occupancy
                 + (IF dma_valid_reg0 THEN 1 ELSE 0))'
  BY TwoBitNext, TwoBitDiff DEF TypeOK, InOrder, AtMostTwoInFlight, OnBus,
     Occupancy, p_dma_pre_output, p_dma_output_proc, FifoClk, dma_ready_s,
     dma_valid_s, fifo_empty, Slots
<1>4. (\A i \in Slots : dma_out[i] = IF Ahead(i) < Occupancy
                                     THEN delivered + OnBus + Ahead(i) + 1
                                     ELSE 0)'
  BY TwoBitNext, TwoBitDiff DEF TypeOK, InOrder, AtMostTwoInFlight, OnBus, Ahead,
     Occupancy, p_dma_pre_output, p_dma_output_proc, dma_ready_s, Slots
<1> QED BY <1>1, <1>2, <1>3, <1>4 DEF InOrder

(* Writes and pointer synchronisation leave everything read alone. *)
LEMMA FifoOrder ==
  ASSUME IInv, UNCHANGED outVars, UNCHANGED <<readPtr, fifo_do>>
  PROVE  (AtMostTwoInFlight /\ InOrder)'
BY DEF IInv, AtMostTwoInFlight, InOrder, OnBus, Ahead, Occupancy, outVars

(* AtMostTwoInFlight and InOrder hold in every reachable state: the        *)
(* comment at dma_if.vhd:331 is right for every pattern of TREADY and      *)
(* every FIFO depth, and no word is lost, duplicated or reordered between  *)
(* the FIFO and the bus.                                                   *)
THEOREM BufferNeverOverruns == Spec => [](AtMostTwoInFlight /\ InOrder)
<1>1. Init => AtMostTwoInFlight /\ InOrder
  <2> SUFFICES ASSUME Init PROVE AtMostTwoInFlight /\ InOrder OBVIOUS
  <2>1. Occupancy = 0 /\ OnBus = 0
    BY TwoBitDiff DEF Init, OutInit, Occupancy, OnBus, Slots
  <2> QED BY <2>1, TwoBitDiff DEF Init, OutInit, FifoInit, AtMostTwoInFlight, InOrder, Ahead, Slots
<1>2. IInv /\ [Next]_vars => (AtMostTwoInFlight /\ InOrder)'
  <2> SUFFICES ASSUME IInv, [Next]_vars PROVE (AtMostTwoInFlight /\ InOrder)'
    OBVIOUS
  <2>1. ASSUME NEW w \in Word, Write(w)
        PROVE (AtMostTwoInFlight /\ InOrder)'
    BY <2>1, FifoOrder DEF Write, FifoWrite
  <2>2. CASE Sync
    BY <2>2, FifoOrder DEF Sync, FifoSync
  <2>3. ASSUME NEW dma_ready_i \in BOOLEAN, DmaClk(dma_ready_i)
        PROVE (AtMostTwoInFlight /\ InOrder)'
    BY <2>3, DmaClkBound, DmaClkOrder DEF IInv
  <2>4. CASE UNCHANGED vars
    BY <2>4, FifoOrder DEF vars, outVars
  <2> QED BY <2>1, <2>2, <2>3, <2>4 DEF Next
<1> QED BY <1>1, <1>2, TypeCorrect, PTL DEF Spec, IInv

(* InOrder on its own: every word taken from the FIFO is in exactly one    *)
(* place, for every depth and every pattern of TREADY.                     *)
THEOREM WordsStayInOrder == Spec => []InOrder
BY BufferNeverOverruns, PTL

-----------------------------------------------------------------------------
(* The words with TLAST among the first d. *)
Lasts(d) == {k \in 1..d : words[k].last}

LEMMA LastsFinite ==
  ASSUME NEW d \in Nat
  PROVE  IsFiniteSet(Lasts(d)) /\ Cardinality(Lasts(d)) \in Nat
<1>1. IsFiniteSet(1..d)
  BY FS_Interval
<1>2. Lasts(d) \in SUBSET (1..d)
  BY DEF Lasts
<1> QED BY <1>1, <1>2, FS_Subset, FS_CardinalityType

(* One more word delivered adds one to their number if it carries TLAST. *)
LEMMA LastsStep ==
  ASSUME NEW d \in Nat
  PROVE  Cardinality(Lasts(d + 1))
           = IF words[d + 1].last THEN Cardinality(Lasts(d)) + 1 ELSE Cardinality(Lasts(d))
<1>1. d + 1 \notin Lasts(d)
  BY DEF Lasts
<1>2. CASE words[d + 1].last
  <2>1. Lasts(d + 1) = Lasts(d) \cup {d + 1}
    BY <1>2 DEF Lasts
  <2> QED BY <1>1, <1>2, <2>1, LastsFinite, FS_AddElement
<1>3. CASE ~words[d + 1].last
  <2>1. Lasts(d + 1) = Lasts(d)
    BY <1>3 DEF Lasts
  <2> QED BY <1>3, <2>1
<1> QED BY <1>2, <1>3

LEMMA Parity ==
  ASSUME NEW n \in Nat
  PROVE  (n + 1) % 2 = 1 <=> ~(n % 2 = 1)
OBVIOUS

(* What is delivered has been written. *)
LEMMA DeliveredIsWritten ==
  ASSUME IInv
  PROVE  /\ delivered \in Nat /\ delivered + OnBus <= Len(words)
         /\ glue # 0 => glue = delivered + 1
<1>1. Occupancy \in Nat
  BY TwoBitDiff DEF IInv, TypeOK, Occupancy, Slots
<1> QED BY <1>1 DEF IInv, TypeOK, InOrder, OnBus, written

(* The edge that delivers the last word, and no other, flips the toggle. *)
LEMMA DmaClkComplete ==
  ASSUME IInv, CompleteCountsLast, NEW dma_ready_i \in BOOLEAN, DmaClk(dma_ready_i)
  PROVE  CompleteCountsLast'
<1> DEFINE n == Cardinality(Lasts(delivered))
<1>0. /\ words' = words
      /\ delivered \in Nat
      /\ n \in Nat
      /\ s_dma_complete \in BOOLEAN
      /\ s_dma_complete = (n % 2 = 1)
  BY DeliveredIsWritten, LastsFinite
  DEF IInv, TypeOK, DmaClk, FifoClk, CompleteCountsLast, Lasts
<1>1. CASE glue # 0 /\ dma_ready_i
  <2>1. delivered' = delivered + 1 /\ glue = delivered + 1
    BY <1>1, DeliveredIsWritten DEF DmaClk
  <2>2. Cardinality(Lasts(delivered)') = Cardinality(Lasts(delivered + 1))
    BY <1>0, <2>1 DEF Lasts
  <2>3. CASE words[glue].last
    <3>1. s_dma_complete' = ~s_dma_complete
      BY <1>1, <2>3 DEF DmaClk, p_dma_complete
    <3>2. Cardinality(Lasts(delivered + 1)) = n + 1
      BY <1>0, <2>1, <2>3, LastsStep
    <3>3. (n + 1) % 2 = 1 <=> ~(n % 2 = 1)
      BY <1>0, Parity
    <3>4. s_dma_complete' = ((n + 1) % 2 = 1)
      BY <1>0, <3>1, <3>3, Zenon
    <3>5. s_dma_complete' = (Cardinality(Lasts(delivered)') % 2 = 1)
      BY <2>2, <3>2, <3>4, Zenon
    <3> QED BY <3>5, Zenon DEF CompleteCountsLast, Lasts
  <2>4. CASE ~words[glue].last
    <3>1. s_dma_complete' = s_dma_complete
      BY <2>4, Zenon DEF DmaClk, p_dma_complete
    <3>2. Cardinality(Lasts(delivered + 1)) = n
      BY <1>0, <2>1, <2>4, LastsStep
    <3>3. s_dma_complete' = (Cardinality(Lasts(delivered)') % 2 = 1)
      BY <1>0, <2>2, <3>1, <3>2, Zenon
    <3> QED BY <3>3, Zenon DEF CompleteCountsLast, Lasts
  <2> QED BY <2>3, <2>4
<1>2. CASE ~(glue # 0 /\ dma_ready_i)
  <2>1. delivered' = delivered /\ s_dma_complete' = s_dma_complete
    BY <1>2, Zenon DEF DmaClk, p_dma_complete
  <2> QED BY <1>0, <2>1, Zenon DEF CompleteCountsLast, Lasts
<1> QED BY <1>1, <1>2

(* CompleteCountsLast: the completion toggle of dma_if.vhd flips once for  *)
(* each accepted word with TLAST, so that the status register behind it    *)
(* can neither miss the end of a transfer nor see it twice.                *)
THEOREM ToggleCountsTransfers == Spec => []CompleteCountsLast
<1>1. Init => CompleteCountsLast
  <2> SUFFICES ASSUME Init PROVE CompleteCountsLast
    OBVIOUS
  <2>1. Lasts(delivered) = {} /\ s_dma_complete = FALSE
    BY DEF Init, OutInit, Lasts
  <2>2. Cardinality(Lasts(delivered)) % 2 # 1
    BY <2>1, FS_EmptySet
  <2> QED BY <2>1, <2>2, Zenon DEF CompleteCountsLast, Lasts
<1>2. IInv /\ CompleteCountsLast /\ [Next]_vars => CompleteCountsLast'
  <2> SUFFICES ASSUME IInv, CompleteCountsLast, [Next]_vars PROVE CompleteCountsLast'
    OBVIOUS
  <2>1. ASSUME NEW w \in Word, Write(w) PROVE CompleteCountsLast'
    <3>1. delivered' = delivered /\ s_dma_complete' = s_dma_complete
      BY <2>1 DEF Write, outVars
    <3>2. \A k \in 1..delivered : words'[k] = words[k]
      BY <2>1, DeliveredIsWritten DEF Write, FifoWrite, IInv, TypeOK, OnBus
    <3>3. Lasts(delivered)' = Lasts(delivered)
      BY <3>1, <3>2 DEF Lasts
    <3> QED BY <3>1, <3>3, Zenon DEF CompleteCountsLast, Lasts
  <2>2. CASE Sync
    BY <2>2, Zenon DEF Sync, FifoSync, outVars, CompleteCountsLast
  <2>3. ASSUME NEW dma_ready_i \in BOOLEAN, DmaClk(dma_ready_i)
        PROVE CompleteCountsLast'
    BY <2>3, DmaClkComplete
  <2>4. CASE UNCHANGED vars
    BY <2>4, Zenon DEF vars, outVars, fifoVars, CompleteCountsLast
  <2> QED BY <2>1, <2>2, <2>3, <2>4 DEF Next
<1> QED
  BY <1>1, <1>2, TypeCorrect, BufferNeverOverruns, PTL DEF Spec, IInv

-----------------------------------------------------------------------------
(* OfferedIsStable: a word on the bus stays there until it is accepted,    *)
(* the rule of the AXI stream handshake.                                   *)
THEOREM BusIsStable == Spec => OfferedIsStable
<1>1. TypeOK /\ [Next]_vars
        => [glue # 0 /\ delivered' = delivered => glue' = glue]_vars
  <2> SUFFICES ASSUME TypeOK, Next, glue # 0, delivered' = delivered
               PROVE  glue' = glue
    OBVIOUS
  <2>1. ASSUME NEW w \in Word, Write(w) PROVE glue' = glue
    BY <2>1 DEF Write, outVars
  <2>2. CASE Sync
    BY <2>2 DEF Sync, outVars
  <2>3. ASSUME NEW dma_ready_i \in BOOLEAN, DmaClk(dma_ready_i)
        PROVE glue' = glue
    BY <2>3 DEF DmaClk, p_dma_output_proc, dma_ready_s, TypeOK
  <2> QED BY <2>1, <2>2, <2>3 DEF Next
<1> QED BY <1>1, TypeCorrect, PTL DEF Spec, OfferedIsStable

-----------------------------------------------------------------------------
(* What each edge means for the stream. *)
LEMMA DmaClkIsStreamStep ==
  ASSUME IInv, NEW dma_ready_i \in BOOLEAN, DmaClk(dma_ready_i)
  PROVE  [Stream!Next]_(Stream!vars)
<1> USE DEF DmaClk, IInv
<1>1. words' = words
  BY DEF FifoClk
<1>2. output_counter_rd \in Slots /\ Occupancy \in 0..2
  BY TwoBitDiff DEF TypeOK, AtMostTwoInFlight, Occupancy, Slots
<1>3. dma_out[output_counter_rd] = IF Occupancy > 0 THEN delivered + OnBus + 1 ELSE 0
  BY <1>2, TwoBitDiff DEF InOrder, Ahead, Slots
<1>4. delivered + OnBus + Occupancy <= written
  BY <1>2 DEF TypeOK, InOrder, OnBus, written
<1>5. CASE glue = 0
  BY <1>1, <1>2, <1>3, <1>4, <1>5 DEF TypeOK, InOrder, OnBus, p_dma_output_proc, dma_ready_s,
     Stream!Next, Stream!Offer, Stream!vars, written
<1>6. CASE glue # 0 /\ dma_ready_i
  BY <1>1, <1>2, <1>3, <1>4, <1>6 DEF TypeOK, InOrder, OnBus, p_dma_output_proc, dma_ready_s,
     Stream!Next, Stream!Accept, Stream!vars, written
<1>7. CASE glue # 0 /\ ~dma_ready_i
  BY <1>1, <1>7 DEF p_dma_output_proc, dma_ready_s, Stream!vars, written
<1> QED BY <1>5, <1>6, <1>7

(* The read side of dma_if implements the stream. *)
THEOREM ImplementsStream == Spec => StreamSpec
<1>1. Init => Stream!Init
  BY DEF Init, FifoInit, OutInit, Stream!Init, written
<1>2. IInv /\ [Next]_vars => [Stream!Next]_(Stream!vars)
  <2> SUFFICES ASSUME IInv, [Next]_vars PROVE [Stream!Next]_(Stream!vars)
    OBVIOUS
  <2>1. ASSUME NEW w \in Word, Write(w) PROVE Stream!Next
    BY <2>1 DEF Write, FifoWrite, outVars, Stream!Next, Stream!Write, written,
       IInv, TypeOK
  <2>2. CASE Sync
    BY <2>2 DEF Sync, FifoSync, outVars, Stream!vars, written
  <2>3. ASSUME NEW dma_ready_i \in BOOLEAN, DmaClk(dma_ready_i)
        PROVE [Stream!Next]_(Stream!vars)
    BY <2>3, DmaClkIsStreamStep
  <2>4. CASE UNCHANGED vars
    BY <2>4 DEF vars, Stream!vars, written
  <2> QED BY <2>1, <2>2, <2>3, <2>4 DEF Next
<1> QED
  BY <1>1, <1>2, TypeCorrect, BufferNeverOverruns, PTL
  DEF Spec, StreamSpec, Stream!Spec, IInv
=============================================================================
