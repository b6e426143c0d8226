----------------------------- MODULE MCIrrigator -----------------------------
(* Small instances of Irrigator.                                           *)
EXTENDS Irrigator

MCInitPort == [ state |-> CLOSED, switch |-> 2, interval |-> 2,
                required |-> 2, current |-> 0 ]
=============================================================================
