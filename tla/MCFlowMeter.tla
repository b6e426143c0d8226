----------------------------- MODULE MCFlowMeter -----------------------------
(* Small instances of FlowMeter: a window of 2 seconds, 1 pulse a second for
   1 l/min, so that 3 pulses in the shortest window are a litre.           *)
EXTENDS FlowMeter
=============================================================================
