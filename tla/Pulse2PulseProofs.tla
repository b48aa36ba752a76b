-------------------------- MODULE Pulse2PulseProofs --------------------------
(* Theorems about Pulse2Pulse: for every number of pulses, whatever the    *)
(* two clocks and the source do.                                           *)
EXTENDS Pulse2Pulse, TLAPS

IInv == TypeOK /\ OneFront /\ PendingIsNew

(* The reset state has no front and nothing pending. *)
LEMMA InitIInv == Init => IInv
BY MaxPulsesAssumption
DEF Init, IInv, TypeOK, OneFront, PendingIsNew, Pending, flight, inbusy, Bit

(* An edge of in_clk moves the acknowledgement one register on. *)
LEMMA InClkFront ==
  ASSUME IInv, NEW pulsein \in Bit, in_proc(pulsein), UNCHANGED outVars
  PROVE  OneFront'
BY DEF IInv, TypeOK, OneFront, in_proc, outVars, Bit

(* An edge of out_clk moves the flag one register on. *)
LEMMA OutClkFront ==
  ASSUME IInv, out_proc, UNCHANGED inVars
  PROVE  OneFront'
BY DEF IInv, TypeOK, OneFront, out_proc, inVars, Bit

LEMMA BothClkFront ==
  ASSUME IInv, NEW pulsein \in Bit, in_proc(pulsein), out_proc
  PROVE  OneFront'
BY DEF IInv, TypeOK, OneFront, in_proc, out_proc, Bit

(* What a step does, whichever clocks have an edge: registers stay bits.   *)
LEMMA StepTypes ==
  ASSUME IInv, [Next]_vars
  PROVE  TypeOK'
<1>1. ASSUME NEW pulsein \in Bit, InClk(pulsein) PROVE TypeOK'
  BY <1>1, MaxPulsesAssumption
  DEF IInv, TypeOK, InClk, in_proc, Source, outVars, Bit
<1>2. ASSUME NEW pulsein \in Bit, BothClk(pulsein) PROVE TypeOK'
  BY <1>2, MaxPulsesAssumption
  DEF IInv, TypeOK, BothClk, in_proc, out_proc, Source, Destination, Bit
<1>3. CASE OutClk
  BY <1>3 DEF IInv, TypeOK, OutClk, out_proc, Destination, inVars, Bit
<1>4. CASE UNCHANGED vars
  BY <1>4 DEF IInv, TypeOK, vars, inVars, outVars
<1> QED
  BY <1>1, <1>2, <1>3, <1>4 DEF Next

(* A pulse is taken only together with new data, and is pending until the  *)
(* destination reads that data.                                            *)
LEMMA StepPending ==
  ASSUME IInv, [Next]_vars
  PROVE  PendingIsNew'
<1>0. TypeOK /\ OneFront /\ PendingIsNew
  BY DEF IInv
<1>1. ASSUME NEW pulsein \in Bit, InClk(pulsein) PROVE PendingIsNew'
  <2>1. polite' => polite /\ (pulsein = 1 => ~inbusy)
    BY <1>1, Zenon DEF InClk, Source
  <2>2. /\ polite => data = IF Pending THEN got + 1 ELSE got
        /\ Pending => got < data
    BY <1>0 DEF PendingIsNew
  <2>3. (Pending => got < data)'
    BY <1>0, <1>1, <2>2
    DEF TypeOK, OneFront, Pending, flight, inbusy, InClk, in_proc,
        Source, outVars, Bit
  <2>4. ASSUME polite, pulsein = 1 => ~inbusy
        PROVE  data' = IF Pending' THEN got' + 1 ELSE got'
    BY <1>0, <1>1, <2>2, <2>4
    DEF TypeOK, OneFront, Pending, flight, inbusy, InClk, in_proc,
        Source, outVars, Bit
  <2> QED
    BY <2>1, <2>3, <2>4 DEF PendingIsNew
<1>2. ASSUME NEW pulsein \in Bit, BothClk(pulsein) PROVE PendingIsNew'
  <2>1. polite' => polite /\ (pulsein = 1 => ~inbusy)
    BY <1>2, Zenon DEF BothClk, Source
  <2>2. /\ polite => data = IF Pending THEN got + 1 ELSE got
        /\ Pending => got < data
    BY <1>0 DEF PendingIsNew
  <2>3. (Pending => got < data)'
    BY <1>0, <1>2, <2>2
    DEF TypeOK, OneFront, Pending, flight, inbusy, BothClk, in_proc,
        out_proc, Source, Destination, Bit
  <2>4. ASSUME polite, pulsein = 1 => ~inbusy
        PROVE  data' = IF Pending' THEN got' + 1 ELSE got'
    BY <1>0, <1>2, <2>2, <2>4
    DEF TypeOK, OneFront, Pending, flight, inbusy, BothClk, in_proc,
        out_proc, Source, Destination, Bit
  <2> QED
    BY <2>1, <2>3, <2>4 DEF PendingIsNew
<1>3. CASE OutClk
  BY <1>0, <1>3
  DEF TypeOK, OneFront, PendingIsNew, Pending, flight, inbusy, OutClk, out_proc,
      Destination, inVars, Bit
<1>4. CASE UNCHANGED vars
  BY <1>0, <1>4 DEF PendingIsNew, Pending, flight, inbusy, vars, inVars, outVars
<1> QED
  BY <1>1, <1>2, <1>3, <1>4 DEF Next

LEMMA NextIInv == IInv /\ [Next]_vars => IInv'
<1> SUFFICES ASSUME IInv, [Next]_vars PROVE IInv'
  OBVIOUS
<1>1. TypeOK'
  BY StepTypes
<1>2. PendingIsNew'
  BY StepPending
<1>3. OneFront'
  <2>1. ASSUME NEW pulsein \in Bit, InClk(pulsein) PROVE OneFront'
    BY <2>1, InClkFront DEF InClk
  <2>2. ASSUME NEW pulsein \in Bit, BothClk(pulsein) PROVE OneFront'
    BY <2>2, BothClkFront DEF BothClk
  <2>3. CASE OutClk
    BY <2>3, OutClkFront DEF OutClk
  <2>4. CASE UNCHANGED vars
    BY <2>4 DEF IInv, OneFront, vars, inVars, outVars
  <2> QED
    BY <2>1, <2>2, <2>3, <2>4 DEF Next
<1> QED
  BY <1>1, <1>2, <1>3 DEF IInv

(* Registers stay bits and the destination never reads data from the       *)
(* future.                                                                 *)
THEOREM TypeCorrect == Spec => []TypeOK
<1>1. IInv => TypeOK
  BY DEF IInv
<1> QED
  BY <1>1, InitIInv, NextIInv, PTL DEF Spec

(* pulse2pulse.vhd:82-136: one front at a time in the ring of eight        *)
(* registers, whatever the two clocks do.                                  *)
THEOREM FrontIsKept == Spec => []OneFront
<1>1. IInv => OneFront
  BY DEF IInv
<1> QED
  BY <1>1, InitIInv, NextIInv, PTL DEF Spec

(* The data of a pulse on its way is newer than any the destination used. *)
THEOREM PulseDataIsNew == Spec => []PendingIsNew
<1>1. IInv => PendingIsNew
  BY DEF IInv
<1> QED
  BY <1>1, InitIInv, NextIInv, PTL DEF Spec

(* A source that waits for inbusy loses nothing. *)
THEOREM PoliteLosesNothing == Spec => []NoneSkipped
<1>1. IInv => NoneSkipped
  BY DEF IInv, TypeOK, PendingIsNew, NoneSkipped
<1> QED
  BY <1>1, InitIInv, NextIInv, PTL DEF Spec

(* No data is used for two pulses, polite source or not. *)
THEOREM DataUsedOnce == Spec => NeverTwice
<1> DEFINE Fresh == OutClk \/ (\E p \in Bit : BothClk(p)) =>
                      (pulseout = 1 => got' > got)
<1>1. IInv => Fresh
  BY DEF IInv, TypeOK, PendingIsNew, Pending, OutClk, BothClk, Destination
<1>2. IInv => [Fresh]_vars
  BY <1>1
<1>3. NeverTwice <=> [][Fresh]_vars
  BY DEF NeverTwice
<1> HIDE DEF Fresh
<1> QED
  BY <1>2, <1>3, InitIInv, NextIInv, PTL DEF Spec

(* Pulse2Pulse implements the abstract crossing: each pulse taken while    *)
(* inbusy is low comes out exactly once.                                   *)
THEOREM ImplementsTransfer == Spec => TransferSpec
<1>1. Init => Abs!Init
  BY DEF Init, Abs!Init, flight, inbusy
<1>2. IInv /\ [Next]_vars => [Abs!Next]_(Abs!vars)
  <2> SUFFICES ASSUME IInv, [Next]_vars PROVE [Abs!Next]_(Abs!vars)
    OBVIOUS
  <2>0. TypeOK /\ OneFront
    BY DEF IInv
  <2> USE DEF Abs!Next, Abs!vars, Abs!Accept, Abs!Deliver, Abs!Drop, Abs!Release
  <2>1. ASSUME NEW pulsein \in Bit, InClk(pulsein)
        PROVE  [Abs!Next]_(Abs!vars)
    BY <2>0, <2>1 DEF TypeOK, OneFront, flight, inbusy, InClk, in_proc, outVars, Bit
  <2>2. ASSUME NEW pulsein \in Bit, BothClk(pulsein)
        PROVE  [Abs!Next]_(Abs!vars)
    BY <2>0, <2>2
    DEF TypeOK, OneFront, flight, inbusy, BothClk, in_proc, out_proc, Bit
  <2>3. CASE OutClk
    BY <2>0, <2>3 DEF TypeOK, OneFront, flight, inbusy, OutClk, out_proc, inVars, Bit
  <2>4. CASE UNCHANGED vars
    BY <2>4 DEF flight, inbusy, vars, inVars, outVars
  <2> QED
    BY <2>1, <2>2, <2>3, <2>4 DEF Next
<1> QED
  BY <1>1, <1>2, InitIInv, NextIInv, PTL DEF Spec, TransferSpec, Abs!Spec
=============================================================================
