------------------------------ MODULE MCDisplay ------------------------------
(* A small instance of Display: a minute of 2 seconds, a day of 2 minutes.  *)
EXTENDS Display

MCInitPort == [ state |-> CLOSED, switch |-> 2, interval |-> 2,
                required |-> 2, current |-> 0 ]
=============================================================================
