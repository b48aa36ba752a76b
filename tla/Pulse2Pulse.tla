----------------------------- MODULE Pulse2Pulse -----------------------------
(***************************************************************************)
(* pulse2pulse.vhd: a one-clock pulse of the clock in_clk becomes a        *)
(* one-clock pulse of the unrelated clock out_clk.  A flag is set, crosses *)
(* through three registers, is acknowledged through three more and is then *)
(* withdrawn.  Every instance (fmc150_stellar_cmd, the four device         *)
(* controllers, the pulse registers of user_logic) leaves inbusy open, so  *)
(* the source may pulse at any time; and every instance has data beside    *)
(* the pulse: a register of the source, overwritten with each pulse, that  *)
(* the destination reads on the clock on which it sees the pulse.  Data is *)
(* abstracted to the number of the pulse that wrote it.                    *)
(***************************************************************************)
EXTENDS Integers

CONSTANT MaxPulses  \* bound: pulses of the source in one behaviour

ASSUME MaxPulsesAssumption == MaxPulses \in Nat

VARIABLES
  in_set, in_reset, in_reset_prev, in_reset_prev2,        \* clock in_clk
  out_set, out_set_prev, out_set_prev2, outreset, pulseout, \* clock out_clk
  data,     \* the source's data register: number of its newest pulse
  got,      \* what the destination read at its last pulse, 0 before
  polite    \* no pulse of the source has met inbusy = '1' (history)

inVars == <<in_set, in_reset, in_reset_prev, in_reset_prev2>>
outVars == <<out_set, out_set_prev, out_set_prev2, outreset, pulseout>>
vars == <<inVars, outVars, data, got, polite>>

Bit == {0, 1}
MutBusyFlagOnly == in_set = 1
inbusy == in_set = 1 \/ in_reset_prev = 1

Init ==
  /\ in_set = 0 /\ in_reset = 0 /\ in_reset_prev = 0 /\ in_reset_prev2 = 0
  /\ out_set = 0 /\ out_set_prev = 0 /\ out_set_prev2 = 0
  /\ outreset = 0 /\ pulseout = 0
  /\ data = 0
  /\ got = 0
  /\ polite = TRUE

-----------------------------------------------------------------------------
MutCounts(pulsein) ==
  /\ in_set' = IF in_reset_prev = 1 /\ in_reset_prev2 = 1 THEN 0
               ELSE in_set + pulsein
  /\ in_reset' = outreset
  /\ in_reset_prev' = in_reset
  /\ in_reset_prev2' = in_reset_prev

MutNeverReset(pulsein) ==
  /\ in_set' = IF pulsein = 1 THEN 1 ELSE in_set
  /\ in_reset' = outreset
  /\ in_reset_prev' = in_reset
  /\ in_reset_prev2' = in_reset_prev

in_proc(pulsein) ==
  /\ in_set' = IF in_reset_prev = 1 /\ in_reset_prev2 = 1 THEN 0
               ELSE IF pulsein = 1 THEN 1 ELSE in_set
  /\ in_reset' = outreset
  /\ in_reset_prev' = in_reset
  /\ in_reset_prev2' = in_reset_prev

MutLevelOut ==
  /\ pulseout' = out_set_prev
  /\ outreset' = IF out_set_prev = out_set_prev2 THEN out_set_prev ELSE outreset
  /\ out_set' = in_set
  /\ out_set_prev' = out_set
  /\ out_set_prev2' = out_set_prev

MutEarlyAck ==
  /\ pulseout' = IF out_set_prev = 1 /\ out_set_prev2 = 0 THEN 1 ELSE 0
  /\ outreset' = out_set
  /\ out_set' = in_set
  /\ out_set_prev' = out_set
  /\ out_set_prev2' = out_set_prev

out_proc ==
  /\ pulseout' = IF out_set_prev = 1 /\ out_set_prev2 = 0 THEN 1 ELSE 0
  /\ outreset' = IF out_set_prev = out_set_prev2 THEN out_set_prev ELSE outreset
  /\ out_set' = in_set
  /\ out_set_prev' = out_set
  /\ out_set_prev2' = out_set_prev

(* The source's side of one edge of in_clk (external). *)
Source(pulsein) ==
  /\ data + pulsein <= MaxPulses
  /\ data' = data + pulsein
  /\ polite' = (polite /\ ~(pulsein = 1 /\ inbusy))

(* The destination's side of one edge of out_clk (external). *)
Destination == got' = IF pulseout = 1 THEN data ELSE got

InClk(pulsein) ==
  /\ in_proc(pulsein)
  /\ Source(pulsein)
  /\ UNCHANGED <<outVars, got>>

OutClk ==
  /\ out_proc
  /\ Destination
  /\ UNCHANGED <<inVars, data, polite>>

(* Edges so close that each side samples what the other held before. *)
BothClk(pulsein) ==
  /\ in_proc(pulsein)
  /\ Source(pulsein)
  /\ out_proc
  /\ Destination

Next ==
  \/ \E pulsein \in Bit : InClk(pulsein) \/ BothClk(pulsein)
  \/ OutClk

Spec == Init /\ [][Next]_vars

(* Both clocks run; the source need not pulse. *)
FairSpec == Spec /\ WF_vars(InClk(0)) /\ WF_vars(OutClk)

-----------------------------------------------------------------------------
(* Registers are bits, data numbers do not run ahead of the source. *)
TypeOK ==
  /\ in_set \in Bit /\ in_reset \in Bit /\ in_reset_prev \in Bit
  /\ in_reset_prev2 \in Bit
  /\ out_set \in Bit /\ out_set_prev \in Bit /\ out_set_prev2 \in Bit
  /\ outreset \in Bit /\ pulseout \in Bit
  /\ data \in 0..MaxPulses
  /\ got \in 0..data
  /\ polite \in BOOLEAN

(* The abstract crossing: free when inbusy is low, and the pulse is out as *)
(* soon as the last of the three registers has the flag.                   *)
flight == IF ~inbusy THEN "free"
          ELSE IF in_set = 1 /\ out_set_prev2 = 0 THEN "set" ELSE "out"

Abs == INSTANCE PulseTransfer WITH pulse <- pulseout

(* pulse2pulse.vhd:87,118: whatever the two clocks and the source do, each *)
(* pulse taken while inbusy is low comes out once, as one pulse, before    *)
(* inbusy falls; no pulse comes out that was not taken.                    *)
TransferSpec == Abs!Spec

(* ... and it does come out, and inbusy does fall, while both clocks run.  *)
TransferLive == Abs!FairSpec

(* With inbusy left open a pulse can be swallowed and its data can replace *)
(* the data of the one in flight, but no data is ever used twice: each     *)
(* output pulse finds data that is newer than at any pulse before.         *)
NeverTwice == [][OutClk \/ (\E p \in Bit : BothClk(p)) =>
                   (pulseout = 1 => got' > got)]_vars

(* A source that did wait for inbusy would lose nothing: the destination   *)
(* is never more than one pulse behind.                                    *)
NoneSkipped == polite => data - got <= 1

(* The flag travels round the ring of registers as one front: ones behind  *)
(* it while the flag is set, zeros behind it once it is withdrawn.  The    *)
(* last register may lag when a pulse is taken as soon as inbusy falls.    *)
OneFront ==
  /\ in_set = 1 =>
       /\ out_set >= out_set_prev /\ out_set_prev >= out_set_prev2
       /\ out_set_prev2 >= outreset /\ outreset >= in_reset
       /\ in_reset >= in_reset_prev
       /\ in_reset_prev2 > in_reset_prev => in_reset = 0
  /\ in_set = 0 =>
       /\ out_set <= out_set_prev /\ out_set_prev <= out_set_prev2
       /\ out_set_prev2 <= outreset /\ outreset <= in_reset
       /\ in_reset <= in_reset_prev /\ in_reset_prev <= in_reset_prev2
  /\ pulseout = 1 => in_set = 1 /\ out_set_prev2 = 1 /\ outreset = 0

(* A pulse the destination has not acted on yet. *)
Pending == flight = "set" \/ pulseout = 1

(* Its data is newer than any the destination has read, and a polite       *)
(* source has written nothing else since.                                  *)
PendingIsNew ==
  /\ Pending => got < data
  /\ polite => data = IF Pending THEN got + 1 ELSE got

=============================================================================
