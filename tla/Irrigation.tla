------------------------------ MODULE Irrigation ------------------------------
(***************************************************************************)
(* What the controller promises the garden, without its tasks, pulses,     *)
(* records and copies: a valve, the slots it is opened for, and what is    *)
(* left of them over sleep and loss of power.  It is the promise of a      *)
(* controller nobody reconfigures and whose clock is never set back.       *)
(* Irrigator implements it.                                                *)
(***************************************************************************)
EXTENDS Integers

CONSTANTS First, Interval,  \* slots: First, First + Interval, ...
          Horizon           \* where the clock stops

VARIABLES mode,   \* "off", "up" or "asleep"
          time,
          serving, \* has the controller a slot open? it knows none after a start
          water,  \* does the water run? the valve keeps its place without power
          slot,   \* the slot that is next, or being served
          saved,  \* the slot a restart goes back to
          alarm   \* when sleep ends

vars == <<mode, time, serving, water, slot, saved, alarm>>

Init == /\ mode = "off" /\ time = 0 /\ serving = FALSE /\ water = FALSE
        /\ slot = First /\ saved = First /\ alarm = 0

Up == mode = "up"

(* The water is turned on for a slot only, in its time or after it ...     *)
Open == /\ Up /\ ~serving /\ slot <= time
        /\ serving' = TRUE /\ water' = TRUE
        /\ UNCHANGED <<mode, time, slot, saved, alarm>>

(* ... and off with the slot, when the next one comes up, in that moment.   *)
Close == /\ Up /\ serving
         /\ serving' = FALSE /\ water' = FALSE /\ slot' = slot + Interval
         /\ UNCHANGED <<mode, time, saved, alarm>>

(* Overdue slots are passed over, by whole intervals; the one it comes to is
   less than an interval away.                                             *)
Skip == /\ Up /\ ~serving /\ slot < time
        /\ slot' \in {slot + k * Interval : k \in 1 .. time}
        /\ slot' < time + Interval
        /\ UNCHANGED <<mode, time, serving, water, saved, alarm>>

Save == /\ Up /\ ~serving
        /\ saved' = slot
        /\ UNCHANGED <<mode, time, serving, water, slot, alarm>>

(* Sleep ends by the next slot, and begins with a slot open only in the very
   second of that slot.  Water that runs goes on running.                  *)
Sleep == /\ Up /\ mode' = "asleep"
         /\ alarm' >= time
         /\ slot > time => alarm' <= slot
         /\ serving => slot = time
         /\ serving' = FALSE
         /\ UNCHANGED <<time, water, slot, saved>>

Wake == /\ mode = "asleep" /\ mode' = "off"
        /\ time' = (IF alarm < Horizon THEN alarm ELSE Horizon)
        /\ UNCHANGED <<serving, water, slot, saved, alarm>>

(* A loss of power also loses the time.  The water runs on: nothing but the
   end of a later slot turns it off.                                       *)
Crash == /\ mode # "off" /\ mode' = "off"
         /\ time' = 0 \/ (Up /\ time' = time)
         /\ serving' = FALSE
         /\ UNCHANGED <<water, slot, saved, alarm>>

Start == /\ mode = "off" /\ mode' = "up"
         /\ slot' = saved /\ alarm' = 0
         /\ UNCHANGED <<time, serving, water, saved>>

Pass == /\ Up /\ time' > time /\ time' <= Horizon
        /\ UNCHANGED <<mode, serving, water, slot, saved, alarm>>

Next == Open \/ Close \/ Skip \/ Save \/ Sleep \/ Wake \/ Crash \/ Start \/ Pass

Spec == Init /\ [][Next]_vars

=============================================================================
