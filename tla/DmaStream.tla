------------------------------ MODULE DmaStream ------------------------------
(***************************************************************************)
(* What dma_if promises to the AXI DMA engine: a stream.  The words the    *)
(* capture side wrote are offered one at a time, in the order they were    *)
(* written, none lost, none repeated, none invented, and a word that is    *)
(* offered (TVALID high) stays on the bus until the engine accepts it      *)
(* (TREADY high on a clock edge).  Word k is the k-th word written since   *)
(* reset, so the state is three numbers.                                   *)
(***************************************************************************)
EXTENDS Naturals

VARIABLES
  written,    \* words handed over by the capture side
  offered,    \* the word on the bus, 0 when TVALID is low
  delivered   \* words the DMA engine has accepted

vars == <<written, offered, delivered>>

Init == written = 0 /\ offered = 0 /\ delivered = 0

(* The capture side hands over one more word. *)
Write ==
  /\ written' = written + 1
  /\ UNCHANGED <<offered, delivered>>

(* Nothing is on the bus: the next word may be offered. *)
Offer ==
  /\ offered = 0
  /\ delivered < written
  /\ offered' = delivered + 1
  /\ UNCHANGED <<written, delivered>>

(* The engine accepts the word; the next one may be offered at once. *)
Accept ==
  /\ offered # 0
  /\ delivered' = delivered + 1
  /\ \/ offered' = 0
     \/ delivered' < written /\ offered' = delivered' + 1
  /\ UNCHANGED written

Next == Write \/ Offer \/ Accept

Spec == Init /\ [][Next]_vars
=============================================================================
