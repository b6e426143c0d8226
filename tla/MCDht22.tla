------------------------------- MODULE MCDht22 -------------------------------
(* Bytes of two bits, and the line's times in the data sheet's middle.     *)
EXTENDS Dht22

Frame(a, b, c, d) == [n \in 0 .. 3 |-> CASE n = 0 -> a [] n = 1 -> b [] n = 2 -> c [] OTHER -> d]

(* All ones; a temperature below zero with a carry in the sum; all zeros.  *)
MCFrames == {Frame(3, 3, 3, 3), Frame(1, 2, 2, 1), Frame(0, 0, 0, 0)}
=============================================================================
