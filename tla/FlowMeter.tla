------------------------------ MODULE FlowMeter ------------------------------
(***************************************************************************)
(* The flow meter: gpio_isr_handler counts pulses, the main loop turns the *)
(* pulses of a window into litres and adds them to flowLitresCurrent_u16.  *)
(* The loop reads the count, zeroes it and reads the clock twice more: the *)
(* interrupt, the second's tick and the SNTP client come in between.       *)
(*                                                                         *)
(* Bounds: MaxNow for the clock, MaxPulses for the pulses of one opening.  *)
(***************************************************************************)
EXTENDS Integers

CONSTANTS
  Window,        \* seconds of a flow window (60)
  Factor2,       \* twice calibrationFactor, the pulses a second of 1 l/min (9)
  U32, U16,      \* number of values of a uint32_t and of a uint16_t
  MaxNow, MaxPulses,
  ClockStepsBack \* may a synchronisation move the clock back?

ASSUME FlowAssumption ==
  /\ Window \in Nat /\ Factor2 \in Nat \ {0}
  /\ U16 \in Nat \ {0}
  /\ U32 \in Nat
  /\ MaxNow \in 0 .. U32 - 1 /\ MaxPulses \in 0 .. U32 - 1
  /\ ClockStepsBack \in BOOLEAN

VARIABLES
  now,             \* the system clock
  pc,
  prevTicks,
  flowPulseCount,  \* written by the interrupt and by the loop
  countPerSecond,
  flowRate,        \* as the uint16_t it is cast to
  litres,          \* flowLitresCurrent_u16
  pulses,          \* ghost: pulses unread at the last opening, and since
  age              \* ghost: seconds since the last measurement; many, once the
                   \* clock was set

vars == <<now, pc, prevTicks, flowPulseCount, countPerSecond, flowRate, litres,
          pulses, age>>

Word16 == 0 .. U16 - 1

(* After a reset or a wake the clock shows any time; the count starts at 0. *)
Init ==
  /\ now \in 0 .. MaxNow /\ pc = "loop" /\ prevTicks = 0
  /\ flowPulseCount = 0 /\ countPerSecond = 0 /\ flowRate = 0 /\ litres = 0
  /\ pulses = 0 /\ age = Window + 1

-----------------------------------------------------------------------------
(* Bug: the litres are rounded up instead of cut off.          *)
BugRoundsUp(count, seconds) ==
  IF seconds = 0 THEN Word16
  ELSE {((2 * count + Factor2 * seconds - 1) \div (Factor2 * seconds)) % U16}

(* Casting ((1.0 / seconds) * count) / calibrationFactor to a uint16_t.
   Rounded twice, an exact quotient may come out just below itself; what does
   not fit, or is divided by no seconds, gives any word.                   *)
Litres(count, seconds) ==
  IF seconds = 0 THEN Word16
  ELSE LET exact == (2 * count) \div (Factor2 * seconds)
       IN IF exact >= U16 THEN Word16
          ELSE {l \in {exact, exact - 1} :
                  l = exact \/ (l \in Nat /\ (2 * count) % (Factor2 * seconds) = 0)}

Elapsed == (now - prevTicks) % U32

(* Bug: the window is over a second early.                                 *)
BugEarlyWindow ==
  /\ pc = "loop" /\ Elapsed >= Window /\ pc' = "count"
  /\ UNCHANGED <<now, prevTicks, flowPulseCount, countPerSecond, flowRate, litres,
                 pulses, age>>

(* Is the window over?                                                     *)
CheckWindow ==
  /\ pc = "loop" /\ Elapsed > Window /\ pc' = "count"
  /\ UNCHANGED <<now, prevTicks, flowPulseCount, countPerSecond, flowRate, litres,
                 pulses, age>>

ReadCount ==
  /\ pc = "count" /\ pc' = "zero"
  /\ countPerSecond' = flowPulseCount
  /\ UNCHANGED <<now, prevTicks, flowPulseCount, flowRate, litres, pulses, age>>

(* Bug: the count is not zeroed.                                           *)
BugKeepsCount ==
  /\ pc = "zero" /\ pc' = "rate"
  /\ UNCHANGED <<now, prevTicks, flowPulseCount, countPerSecond, flowRate, litres,
                 pulses, age>>

ZeroCount ==
  /\ pc = "zero" /\ pc' = "rate"
  /\ flowPulseCount' = 0
  /\ UNCHANGED <<now, prevTicks, countPerSecond, flowRate, litres, pulses, age>>

ReadRate ==
  /\ pc = "rate" /\ pc' = "prev"
  /\ flowRate' \in Litres(countPerSecond, Elapsed)
  /\ UNCHANGED <<now, prevTicks, flowPulseCount, countPerSecond, litres, pulses, age>>

SetPrev ==
  /\ pc = "prev" /\ pc' = "add"
  /\ prevTicks' = now /\ age' = 0
  /\ UNCHANGED <<now, flowPulseCount, countPerSecond, flowRate, litres, pulses>>

(* Bug: the sum is kept in a wider integer.                                *)
BugWiderSum ==
  /\ pc = "add" /\ pc' = "loop"
  /\ litres' = litres + flowRate
  /\ UNCHANGED <<now, prevTicks, flowPulseCount, countPerSecond, flowRate, pulses,
                 age>>

AddLitres ==
  /\ pc = "add" /\ pc' = "loop"
  /\ litres' = (litres + flowRate) % U16
  /\ UNCHANGED <<now, prevTicks, flowPulseCount, countPerSecond, flowRate, pulses,
                 age>>

(* runPortCheck opens the port later in the same pass.                     *)
OpenPort ==
  /\ pc = "loop"
  /\ litres' = 0 /\ pulses' = flowPulseCount
  /\ UNCHANGED <<now, pc, prevTicks, flowPulseCount, countPerSecond, flowRate, age>>

app_main == \/ CheckWindow \/ ReadCount \/ ZeroCount \/ ReadRate \/ SetPrev
            \/ AddLitres \/ OpenPort

-----------------------------------------------------------------------------
gpio_isr_handler ==
  /\ pulses < MaxPulses
  /\ flowPulseCount' = (flowPulseCount + 1) % U32 /\ pulses' = pulses + 1
  /\ UNCHANGED <<now, pc, prevTicks, countPerSecond, flowRate, litres, age>>

Tick ==
  /\ now < MaxNow /\ now' = now + 1
  /\ age' = (IF age > Window THEN age ELSE age + 1)
  /\ UNCHANGED <<pc, prevTicks, flowPulseCount, countPerSecond, flowRate, litres,
                 pulses>>

SntpSet ==
  /\ now' \in 0 .. MaxNow
  /\ ClockStepsBack \/ now' > now
  /\ age' = Window + 1
  /\ UNCHANGED <<pc, prevTicks, flowPulseCount, countPerSecond, flowRate, litres,
                 pulses>>

Next == app_main \/ gpio_isr_handler \/ Tick \/ SntpSet

Spec == Init /\ [][Next]_vars

-----------------------------------------------------------------------------
TypeOK ==
  /\ now \in 0 .. MaxNow /\ prevTicks \in 0 .. MaxNow
  /\ pc \in {"loop", "count", "zero", "rate", "prev", "add"}
  /\ flowPulseCount \in 0 .. pulses /\ pulses \in 0 .. MaxPulses
  /\ countPerSecond \in Nat
  /\ flowRate \in Word16 /\ litres \in Word16
  /\ age \in 0 .. Window + 1

(* runPortCheck closes a port for the water counted: the litres counted since
   an opening were paid for by pulses, those unread at the opening included.
   A pulse is never counted twice, whenever the interrupt comes.           *)
NeverOvercounts == Factor2 * (Window + 1) * litres <= 2 * pulses

(* main.cpp:361, "Update flow quantity every 60 seconds": no window is shorter,
   however the reads of the clock fall, unless the clock was set meanwhile.  *)
WindowIsFull == [][prevTicks' # prevTicks => age > Window]_vars

(* Pulses read and not yet turned into litres belong to the abstract meter's
   unused; its Measure is SetPrev.                                         *)
Promise == INSTANCE Meter WITH
  unused <- flowPulseCount + (IF pc \in {"rate", "prev"} THEN countPerSecond ELSE 0),
  litres <- IF pc = "add" THEN (litres + flowRate) % U16 ELSE litres

(* The interleaved meter keeps what Meter promises.                        *)
KeepsPromise == Promise!Spec

=============================================================================
