--------------------------- MODULE MCPulse2Pulse ---------------------------
(* Model checking of Pulse2Pulse. *)
EXTENDS Pulse2Pulse
=============================================================================
