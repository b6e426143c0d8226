-------------------------------- MODULE Meter --------------------------------
(***************************************************************************)
(* What the flow meter promises to the scheduler: litres are added once a  *)
(* window, a window is longer than Window seconds of the system clock, and *)
(* a litre is only counted for pulses that were seen and not used before.  *)
(* Irrigator!Flow is the step Measure; FlowMeter implements this module.   *)
(***************************************************************************)
EXTENDS Integers

CONSTANTS
  Window,        \* seconds of a flow window (60)
  Factor2,       \* twice calibrationFactor, the pulses a second of 1 l/min (9)
  U16            \* number of values of a uint16_t

VARIABLES
  now,           \* the system clock
  prevTicks,     \* start of the window
  litres,        \* flowLitresCurrent_u16
  unused         \* pulses that no litre was counted for

meter == <<now, prevTicks, litres, unused>>

(* The pulses of a litre in the shortest window: what a litre costs, twice.  *)
LitreCosts == Factor2 * (Window + 1)

Init == now \in Nat /\ prevTicks = 0 /\ litres = 0 /\ unused = 0

Flows == unused' = unused + 1 /\ UNCHANGED <<now, prevTicks, litres>>

(* Litres are never more than the pulses used up for them.                 *)
Measure ==
  /\ now > prevTicks + Window /\ prevTicks' = now
  /\ unused' \in 0 .. unused
  /\ \E l \in 0 .. U16 - 1 :
       /\ LitreCosts * l <= 2 * (unused - unused')
       /\ litres' = (litres + l) % U16
  /\ UNCHANGED now

(* Pulses may be lost, never found.                                        *)
Lose == unused' \in 0 .. unused /\ UNCHANGED <<now, prevTicks, litres>>

(* An opening starts to count anew.                                        *)
Open == litres' = 0 /\ UNCHANGED <<now, prevTicks, unused>>

Advance == now' \in Nat /\ now' > now /\ UNCHANGED <<prevTicks, litres, unused>>

Next == Flows \/ Measure \/ Lose \/ Open \/ Advance

Spec == Init /\ [][Next]_meter

=============================================================================
