-------------------------------- MODULE Dht22 --------------------------------
(***************************************************************************)
(* components/dht22: readSensor, which measures the pulses of the sensor   *)
(* by counting its own passes through a loop, with nothing that keeps the  *)
(* scheduler and interrupts away.  The line is external: it changes level  *)
(* in its own time, and any number of times while the reader is not        *)
(* looking, so that a count can only fall short of a pulse.                *)
(*                                                                         *)
(* The line's phases, odd ones low:  0 released, not answered yet;  1, 2   *)
(* the answer;  3+2k, 4+2k bit k;  then one more low, and Idle.  Shorted   *)
(* is a line that stays low.                                               *)
(***************************************************************************)
EXTENDS Integers

CONSTANTS
  ByteBits,   \* bits of a byte (8)
  Frames,     \* what the sensor can send: humidity and temperature, 4 bytes
  Release, Response, BitLow, ZeroHigh, OneHigh  \* the line's times, in us

MAXdhtData == 5
Bits       == MAXdhtData * ByteBits

(* 1 << n                                                                  *)
Pow2[n \in 0 .. ByteBits] == IF n = 0 THEN 1 ELSE 2 * Pow2[n - 1]
Byte == 0 .. Pow2[ByteBits] - 1

ASSUME SensorAssumption ==
  /\ ByteBits \in Nat \ {0, 1} /\ Frames \subseteq [0 .. 3 -> Byte]
  /\ {Release, Response, BitLow, ZeroHigh, OneHigh} \subseteq Nat

(* The data sheet's 26 to 28 us of a 0 (dht22.cpp:121) are on their side of
   what the code takes for a 0; nothing is assumed of the other times.     *)
ASSUME ZeroAssumption == ZeroHigh <= 40

VARIABLES
  wait,        \* the loop readSensor is in, or "none"
  counted,     \* the most passes that loop can have made
  byteInx, bitInx, dhtData,
  humidity, temperature,   \* in tenths
  result,      \* what readSensor returned last
  sent,        \* the bytes the sensor sends
  phase,       \* where the line is
  early,       \* history: the reader looked before the sensor had answered
  aligned,     \* history: each bit so far was read from its own pulse
  lost         \* history: bits sent as 1 and read as 0, up to 2

reader == <<wait, counted, byteInx, bitInx, dhtData, humidity, temperature, result>>
marks  == <<early, aligned, lost>>
vars   == <<reader, sent, phase, marks>>

Idle    == 4 + 2 * Bits
Shorted == 5 + 2 * Bits

Level(p) == IF p % 2 = 0 THEN 1 ELSE 0

(* The checksum follows the four bytes.                                    *)
Sum(data) == (data[0] + data[1] + data[2] + data[3]) % Pow2[ByteBits]
BitOf(byte, n) == (byte \div Pow2[n]) % 2
SentBit(bit) ==
  LET b == bit \div ByteBits
  IN BitOf(IF b = 4 THEN Sum(sent) ELSE sent[b], ByteBits - 1 - (bit % ByteBits))

-----------------------------------------------------------------------------
(* The four calls of getSignalLevel, with their arguments.                 *)
Waits == {"answerLow", "answerHigh", "bitLow", "bitHigh"}

State == [answerLow |-> 0, answerHigh |-> 1, bitLow |-> 0, bitHigh |-> 1]

usTimeOut == [answerLow |-> 85, answerHigh |-> 85, bitLow |-> 56, bitHigh |-> 75]

(* How long a phase lasts; to its end, in the last two.                    *)
Micros(p) ==
  CASE p \in {Idle, Shorted}        -> usTimeOut["answerLow"] + 1
    [] p = 0                        -> Release
    [] p \in {1, 2}                 -> Response
    [] p \in 3 .. Idle /\ p % 2 = 1 -> BitLow
    [] OTHER                        -> IF SentBit((p - 4) \div 2) = 1 THEN OneHigh ELSE ZeroHigh

Lesser(a, b) == IF a < b THEN a ELSE b

Counting == wait # "none" /\ Level(phase) = State[wait]

(* Bug: the answer that says the loop was given up is not looked at.       *)
BugLooksAway(loop, next) ==
  /\ wait = loop
  /\ Level(phase) # State[loop] \/ counted + Micros(phase) > usTimeOut[loop]
  /\ wait' = next /\ counted' = 0

(* The loop is left with what it has counted when the level has changed ... *)
Leaves(loop, next) ==
  /\ wait = loop /\ Level(phase) # State[loop]
  /\ wait' = next /\ counted' = 0

(* Bug: the loop goes on for as long as the level stays.                   *)
BugNoTimeOut == Counting /\ UNCHANGED vars

(* ... and given up when it has counted too much.                          *)
TimesOut ==
  /\ Counting /\ counted + Micros(phase) > usTimeOut[wait]
  /\ wait' = "none" /\ counted' = 0 /\ result' = "TIMEOUT"
  /\ UNCHANGED <<byteInx, bitInx, dhtData, humidity, temperature, sent, phase, marks>>

-----------------------------------------------------------------------------
(* readSensor, called once: it keeps nothing from one call to the next.    *)

Init ==
  /\ wait = "none" /\ counted = 0 /\ result = "none"
  /\ byteInx = 0 /\ bitInx = ByteBits - 1 /\ dhtData = [b \in 0 .. MAXdhtData - 1 |-> 0]
  /\ humidity = 0 /\ temperature = 0
  /\ sent \in Frames /\ phase = Idle
  /\ early = FALSE /\ aligned = TRUE /\ lost = 0

(* The start signal; a sensor that is there answers, sooner or later.      *)
Begin ==
  /\ wait = "none" /\ result = "none" /\ wait' = "answerLow"
  /\ phase' \in {0, 1, Idle, Shorted} /\ early' = (phase' = 0)
  /\ UNCHANGED <<counted, byteInx, bitInx, dhtData, humidity, temperature, result,
                 sent, aligned, lost>>

Answer ==
  /\ Leaves("answerLow", "answerHigh") \/ Leaves("answerHigh", "bitLow")
  /\ UNCHANGED <<byteInx, bitInx, dhtData, humidity, temperature, result, sent,
                 phase, marks>>

LowOver ==
  /\ Leaves("bitLow", "bitHigh")
  /\ UNCHANGED <<byteInx, bitInx, dhtData, humidity, temperature, result, sent,
                 phase, marks>>

(* The bit the reader is at (k in the code).                               *)
BitAt == byteInx * ByteBits + ByteBits - 1 - bitInx
LastBit == BitAt = Bits - 1

(* Bug: the threshold is below a pulse that says 0.                        *)
BugThreshold(uSec) == IF uSec > 20 THEN 1 ELSE 0

(* A long pulse is a 1.                                                    *)
Decoded(uSec) == IF uSec > 40 THEN 1 ELSE 0

(* What the bit makes of the bytes.                                        *)
WithBit(bit) == [dhtData EXCEPT ![byteInx] = @ + bit * Pow2[bitInx]]

Magnitude(data) == (data[2] % Pow2[ByteBits - 1]) * Pow2[ByteBits] + data[3]
Humidity(data)  == data[0] * Pow2[ByteBits] + data[1]
Negative(data)  == data[2] >= Pow2[ByteBits - 1]

(* Bug: the last byte of the four is left out.                             *)
BugShortSum(data) == data[4] = (data[0] + data[1] + data[2]) % Pow2[ByteBits]

ChecksumOK(data) == data[4] = Sum(data)

(* The values are assigned before the checksum is looked at.               *)
Assign(data) ==
  /\ humidity' = Humidity(data)
  /\ temperature' = (IF Negative(data) THEN -Magnitude(data) ELSE Magnitude(data))
  /\ result' = (IF ChecksumOK(data) THEN "OK" ELSE "CHECKSUM")

Mark(bit) ==
  /\ aligned' = (aligned /\ phase \in {5 + 2 * BitAt, Shorted})
  /\ lost' = (IF bit < SentBit(BitAt) THEN Lesser(2, lost + 1) ELSE lost)
  /\ UNCHANGED early

(* Bug: the index to the bit is not reset for the next byte.               *)
BugNextIndex ==
  /\ byteInx' = IF bitInx = 0 THEN byteInx + 1 ELSE byteInx
  /\ bitInx' = bitInx - 1

NextIndex ==
  /\ byteInx' = IF bitInx = 0 THEN byteInx + 1 ELSE byteInx
  /\ bitInx' = IF bitInx = 0 THEN ByteBits - 1 ELSE bitInx - 1

HighOver ==
  \E uSec \in 0 .. counted :
    LET bit == Decoded(uSec) IN
    /\ Leaves("bitHigh", IF LastBit THEN "none" ELSE "bitLow")
    /\ dhtData' = WithBit(bit) /\ Mark(bit)
    /\ NextIndex
    /\ IF LastBit THEN Assign(dhtData') ELSE UNCHANGED <<humidity, temperature, result>>
    /\ UNCHANGED <<sent, phase>>

-----------------------------------------------------------------------------
(* The line.                                                               *)

NextPhase ==
  /\ wait # "none" /\ phase < Idle /\ phase' = phase + 1
  /\ counted' = (IF Counting THEN Lesser(usTimeOut[wait] + 1, counted + Micros(phase))
                 ELSE counted)
  /\ UNCHANGED <<wait, byteInx, bitInx, dhtData, humidity, temperature, result,
                 sent, marks>>

(* The sensor loses power, or the line is shorted.                         *)
Breaks ==
  /\ wait # "none" /\ phase < Idle /\ phase' \in {Idle, Shorted}
  /\ counted' = (IF Counting THEN Lesser(usTimeOut[wait] + 1, counted + Micros(phase))
                 ELSE counted)
  /\ UNCHANGED <<wait, byteInx, bitInx, dhtData, humidity, temperature, result,
                 sent, marks>>

Reads == Answer \/ LowOver \/ HighOver \/ TimesOut
readSensor == Begin \/ Reads

Next == readSensor \/ NextPhase \/ Breaks

(* The reader runs, and the sensor keeps its times.                        *)
Spec == Init /\ [][Next]_vars /\ WF_vars(Reads) /\ WF_vars(NextPhase)

-----------------------------------------------------------------------------
(* The bytes, the indexes and the results stay in the range of their types,*)
(* and the index is inside dhtData for as long as the loop of the bits     *)
(* writes to it (dht22.cpp:191).                                           *)
TypeOK ==
  /\ wait \in Waits \cup {"none"} /\ counted \in 0 .. 86
  /\ byteInx \in 0 .. MAXdhtData /\ bitInx \in 0 .. ByteBits - 1
  /\ wait # "none" => byteInx < MAXdhtData
  /\ dhtData \in [0 .. MAXdhtData - 1 -> Byte]
  /\ humidity \in Nat /\ temperature \in Int
  /\ result \in {"none", "OK", "CHECKSUM", "TIMEOUT"}

(* The read went through, and the sensor had answered when it began.       *)
Complete == result \in {"OK", "CHECKSUM"} /\ ~early

(* A read that loses whole pulses while the reader is away does not find   *)
(* its 40 bits and times out: what comes back as values was never put      *)
(* together from shifted bits, unless the read began before the sensor had *)
(* answered (dht22.cpp:170-183).                                           *)
LostPulsesTimeOut == Complete => aligned

(* A read in which one bit was misread is never returned as good, whichever*)
(* of the five bytes the bit is of (dht22.cpp:189-192, 225).               *)
OneMisreadIsReported == result = "OK" /\ ~early /\ lost < 2 => lost = 0

(* A reader that is kept from counting reads too little and never too much:*)
(* the values it leaves, with a good checksum or a bad one, are never above*)
(* what was sent, and below zero it errs towards zero or past it           *)
(* (dht22.cpp:189-220).                                                    *)
NeverMoreThanSent ==
  Complete =>
    /\ humidity \in 0 .. Humidity(sent)
    /\ temperature \in -Magnitude(sent) .. Magnitude(sent)
    /\ temperature < 0 => Negative(sent)

(* Whatever the sensor and the line do, the read comes to an end           *)
(* (dht22.cpp:76), and app_main, which calls it, goes on.                  *)
ReadEnds == wait # "none" ~> wait = "none"
=============================================================================
