--------------------------- MODULE FlowMeter_proofs ---------------------------
(***************************************************************************)
(* Proofs about FlowMeter, for every value of its constants: nothing is    *)
(* counted that did not flow, and the interleaved meter implements Meter.  *)
(***************************************************************************)
EXTENDS FlowMeter, TLAPS

-----------------------------------------------------------------------------
(* Arithmetic.                                                             *)

LEMMA ProductGrows ==
  ASSUME NEW a \in Nat, NEW b \in Nat, NEW c \in Nat, a <= b
  PROVE  c * a <= c * b /\ c * a \in Nat
<1>1. PICK d \in Nat : b = a + d
  <2>1. b - a \in Nat /\ b = a + (b - a)
    OBVIOUS
  <2> QED BY <2>1
<1>2. c * b = c * a + c * d
  BY <1>1
<1>3. c * d \in Nat /\ c * a \in Nat
  OBVIOUS
<1> QED BY <1>2, <1>3

LEMMA ProductSplits ==
  ASSUME NEW a \in Nat, NEW b \in Nat, NEW c \in Nat
  PROVE  c * (a + b) = c * a + c * b
OBVIOUS

LEMMA DivisionBelow ==
  ASSUME NEW a \in Nat, NEW b \in Nat \ {0}
  PROVE  a \div b \in Nat /\ b * (a \div b) <= a
OBVIOUS

LEMMA RemainderBelow ==
  ASSUME NEW n \in Nat, NEW m \in Nat \ {0}
  PROVE  n % m \in 0 .. m - 1 /\ n % m <= n
<1>1. n % m \in 0 .. m - 1
  OBVIOUS
<1>2. CASE n < m
  BY <1>1, <1>2
<1>3. CASE n >= m
  BY <1>1, <1>3
<1> QED BY <1>1, <1>2, <1>3

LEMMA WordFits ==
  /\ \A n \in Nat : n % U16 \in Word16 /\ n % U16 <= n
  /\ \A n \in Word16 : n \in Nat
  /\ 0 \in Word16
<1> USE FlowAssumption DEF FlowAssumption, Word16
<1>1. ASSUME NEW n \in Nat PROVE n % U16 \in Word16 /\ n % U16 <= n
  BY RemainderBelow
<1> QED BY <1>1

Cost == Factor2 * (Window + 1)

(* What a window of more than Window seconds makes of its pulses, the pulses
   paid for: cutting off and rounding down only lose.                      *)
LEMMA LitresPaid ==
  ASSUME NEW count \in Nat, NEW seconds \in Nat, seconds > Window,
         NEW l \in Litres(count, seconds)
  PROVE  l \in Word16 /\ Cost * l <= 2 * count
<1> USE FlowAssumption DEF FlowAssumption
<1> DEFINE per == Factor2 * seconds
           exact == (2 * count) \div per
<1>1. seconds \in Nat \ {0} /\ Window + 1 <= seconds /\ Window + 1 \in Nat
  OBVIOUS
<1>2. per \in Nat \ {0}
  BY <1>1
<1>3. Cost <= per /\ Cost \in Nat
  BY <1>1, ProductGrows DEF Cost
<1>4. exact \in Nat /\ per * exact <= 2 * count
  <2> HIDE DEF per
  <2> QED BY <1>2, DivisionBelow
<1>5. l \in Word16 /\ l <= exact
  <2>1. CASE exact >= U16
    <3>1. l \in Word16
      BY <1>1, <2>1 DEF Litres
    <3> QED BY <3>1, <2>1, <1>4 DEF Word16
  <2>2. CASE ~(exact >= U16)
    <3>1. l = exact \/ (l = exact - 1 /\ l \in Nat)
      BY <1>1, <2>2 DEF Litres
    <3> HIDE DEF exact
    <3> QED BY <3>1, <2>2, <1>4 DEF Word16
  <2> QED BY <2>1, <2>2
<1>6. l \in Nat
  BY <1>5, WordFits
<1> HIDE DEF per, exact
<1>7. l * Cost <= l * per /\ exact * per = per * exact /\ l * Cost = Cost * l
  BY <1>2, <1>3, <1>4, <1>6, ProductGrows
<1>8. per * l <= per * exact
  BY <1>2, <1>4, <1>5, <1>6, ProductGrows
<1>9. l * per = per * l /\ l * per \in Nat /\ per * exact \in Nat /\ Cost * l \in Nat
  BY <1>2, <1>3, <1>4, <1>6
<1> QED BY <1>4, <1>5, <1>7, <1>8, <1>9

-----------------------------------------------------------------------------
(* Types.  Only a clock that is never behind prevTicks is needed for more.   *)

LEMMA RatesAreWords ==
  ASSUME NEW count \in Nat, NEW seconds \in Nat, NEW l \in Litres(count, seconds)
  PROVE  l \in Word16
<1> USE FlowAssumption DEF FlowAssumption
<1> DEFINE per == Factor2 * seconds
           exact == (2 * count) \div per
<1>1. CASE seconds = 0
  BY <1>1 DEF Litres
<1>2. CASE seconds # 0
  <2>1. per \in Nat \ {0}
    BY <1>2
  <2>2. exact \in Nat
    <3> HIDE DEF per
    <3> QED BY <2>1, DivisionBelow
  <2>3. CASE exact >= U16
    BY <1>2, <2>3 DEF Litres
  <2>4. CASE ~(exact >= U16)
    <3>1. l = exact \/ (l = exact - 1 /\ l \in Nat)
      BY <1>2, <2>4 DEF Litres
    <3> HIDE DEF exact
    <3> QED BY <3>1, <2>2, <2>4 DEF Word16
  <2> QED BY <2>3, <2>4
<1> QED BY <1>1, <1>2

LEMMA ElapsedIsWord ==
  ASSUME TypeOK
  PROVE  /\ Elapsed \in Nat
         /\ prevTicks <= now => Elapsed = now - prevTicks
<1> USE FlowAssumption DEF FlowAssumption, TypeOK, Elapsed
<1>1. now - prevTicks \in Int
  OBVIOUS
<1>2. Elapsed \in 0 .. U32 - 1
  BY <1>1
<1>3. ASSUME prevTicks <= now PROVE Elapsed = now - prevTicks
  <2>1. now - prevTicks \in 0 .. U32 - 1
    BY <1>3
  <2> QED BY <2>1
<1> QED BY <1>2, <1>3

(* An opening's pulses fit the counter.                                    *)
LEMMA CountFits ==
  ASSUME TypeOK, gpio_isr_handler
  PROVE  flowPulseCount' = flowPulseCount + 1
<1> USE FlowAssumption DEF FlowAssumption, TypeOK
<1>1. flowPulseCount + 1 \in 0 .. U32 - 1
  BY DEF gpio_isr_handler
<1>2. (flowPulseCount + 1) % U32 = flowPulseCount + 1
  BY <1>1
<1> QED BY <1>2 DEF gpio_isr_handler

LEMMA TypeInit == Init => TypeOK
BY FlowAssumption DEF FlowAssumption, Init, TypeOK, Word16

LEMMA TypeStep == TypeOK /\ [Next]_vars => TypeOK'
<1> SUFFICES ASSUME TypeOK, [Next]_vars PROVE TypeOK'
  OBVIOUS
<1> USE FlowAssumption, WordFits DEF FlowAssumption, TypeOK
<1>1. CASE CheckWindow
  BY <1>1 DEF CheckWindow
<1>2. CASE ReadCount
  BY <1>2 DEF ReadCount
<1>3. CASE ZeroCount
  BY <1>3 DEF ZeroCount
<1>4. CASE ReadRate
  <2>1. flowRate' \in Word16
    BY <1>4, ElapsedIsWord, RatesAreWords DEF ReadRate
  <2> QED BY <1>4, <2>1 DEF ReadRate
<1>5. CASE SetPrev
  BY <1>5 DEF SetPrev
<1>6. CASE AddLitres
  <2>1. litres' \in Word16
    <3>1. litres + flowRate \in Nat
      BY WordFits
    <3> QED BY <1>6, <3>1, WordFits DEF AddLitres
  <2> QED BY <1>6, <2>1 DEF AddLitres
<1>7. CASE OpenPort
  BY <1>7 DEF OpenPort
<1>8. CASE gpio_isr_handler
  <2>1. flowPulseCount' = flowPulseCount + 1
    BY <1>8, CountFits
  <2> QED BY <1>8, <2>1 DEF gpio_isr_handler
<1>9. CASE Tick
  BY <1>9 DEF Tick
<1>10. CASE SntpSet
  BY <1>10 DEF SntpSet
<1>11. CASE UNCHANGED vars
  BY <1>11 DEF vars
<1> QED BY <1>1, <1>2, <1>3, <1>4, <1>5, <1>6, <1>7, <1>8, <1>9, <1>10, <1>11
        DEF Next, app_main

(* Every variable keeps its type, steps back of the clock and the rates they
   make undefined included; the count never holds a pulse that was not there
   at the opening and did not come since.                                  *)
THEOREM FlowTypeInvariant == Spec => []TypeOK
BY TypeInit, TypeStep, PTL DEF Spec

-----------------------------------------------------------------------------
(* The window.  Until the clock is set, it has moved by age since prevTicks,
   and a measurement once begun has found the window over.                 *)

AgeInv ==
  /\ age <= Window => now = prevTicks + age
  /\ pc \in {"count", "zero", "rate", "prev"} => age > Window

LEMMA AgeInit == Init => AgeInv
BY FlowAssumption DEF FlowAssumption, Init, AgeInv

LEMMA AgeStep == TypeOK /\ AgeInv /\ [Next]_vars => AgeInv'
<1> SUFFICES ASSUME TypeOK, AgeInv, [Next]_vars PROVE AgeInv'
  OBVIOUS
<1>0. now \in Nat /\ prevTicks \in Nat /\ Window \in Nat /\ age \in Nat
  BY FlowAssumption DEF FlowAssumption, TypeOK
<1>1. CASE CheckWindow
  <2>1. age > Window
    BY <1>0, <1>1, ElapsedIsWord DEF CheckWindow, AgeInv
  <2> QED BY <1>1, <2>1 DEF CheckWindow, AgeInv
<1>2. CASE ReadCount \/ ZeroCount \/ ReadRate \/ AddLitres
  BY <1>2 DEF ReadCount, ZeroCount, ReadRate, AddLitres, AgeInv
<1>3. CASE SetPrev
  BY <1>0, <1>3 DEF SetPrev, AgeInv
<1>4. CASE OpenPort \/ gpio_isr_handler
  BY <1>4 DEF OpenPort, gpio_isr_handler, AgeInv
<1>5. CASE Tick
  BY <1>0, <1>5 DEF Tick, AgeInv
<1>6. CASE SntpSet
  BY <1>0, <1>6 DEF SntpSet, AgeInv
<1>7. CASE UNCHANGED vars
  BY <1>7 DEF vars, AgeInv
<1> QED BY <1>1, <1>2, <1>3, <1>4, <1>5, <1>6, <1>7 DEF Next, app_main

LEMMA OnlyFullWindowsEnd ==
  TypeOK /\ AgeInv /\ [Next]_vars => [prevTicks' # prevTicks => age > Window]_vars
<1> SUFFICES ASSUME TypeOK, AgeInv, [Next]_vars, prevTicks' # prevTicks
             PROVE  age > Window
  OBVIOUS
<1>1. CASE SetPrev
  BY <1>1 DEF SetPrev, AgeInv
<1>2. CASE ~SetPrev
  BY <1>2 DEF Next, app_main, vars, CheckWindow, ReadCount, ZeroCount, ReadRate,
              AddLitres, OpenPort, gpio_isr_handler, Tick, SntpSet
<1> QED BY <1>1, <1>2

(* A flow window that no setting of the clock falls into lasts longer than 60
   seconds, steps back of the clock before it included.                    *)
THEOREM WindowIsFullHolds == Spec => WindowIsFull
<1>1. Init => TypeOK /\ AgeInv
  BY TypeInit, AgeInit
<1>2. TypeOK /\ AgeInv /\ [Next]_vars => (TypeOK /\ AgeInv)'
  BY TypeStep, AgeStep
<1> QED BY <1>1, <1>2, OnlyFullWindowsEnd, PTL DEF Spec, WindowIsFull

-----------------------------------------------------------------------------
(* The bill.  Unless the clock steps back, every litre counted, or about to
   be added, and every pulse still to be used, is covered by a pulse of this
   opening.                                                                *)

Held == IF pc \in {"rate", "prev"} THEN countPerSecond ELSE 0
Owed == IF pc = "add" THEN flowRate ELSE 0

Bill == Cost * (litres + Owed) + 2 * (flowPulseCount + Held) <= 2 * pulses

MInv ==
  /\ prevTicks <= now
  /\ pc \in {"count", "zero", "rate", "prev"} => now > prevTicks + Window
  /\ pc = "zero" => countPerSecond <= flowPulseCount
  /\ pc = "prev" => Cost * flowRate <= 2 * countPerSecond
  /\ Bill

LEMMA CostIsNat ==
  /\ Cost \in Nat
  /\ \A n \in Nat : Cost * n \in Nat
  /\ Cost * 0 = 0
<1>1. Cost \in Nat
  BY FlowAssumption DEF FlowAssumption, Cost
<1> QED BY <1>1

LEMMA MeterInit == TypeOK /\ Init => MInv
BY CostIsNat, FlowAssumption DEF FlowAssumption, Init, MInv, Bill, Held, Owed

LEMMA MeterStep ==
  ASSUME ~ClockStepsBack, TypeOK, TypeOK', MInv, [Next]_vars
  PROVE  MInv'
<1>0. /\ now \in Nat /\ prevTicks \in Nat /\ Window \in Nat
      /\ flowPulseCount \in Nat /\ countPerSecond \in Nat /\ pulses \in Nat
      /\ litres \in Nat /\ flowRate \in Nat /\ Cost \in Nat
      /\ U32 \in Nat \ {0}
  BY FlowAssumption, WordFits, CostIsNat DEF FlowAssumption, TypeOK
<1>1. CASE CheckWindow
  <2>1. now > prevTicks + Window
    BY <1>0, <1>1, ElapsedIsWord DEF CheckWindow, MInv
  <2> QED BY <1>1, <2>1 DEF CheckWindow, MInv, Bill, Held, Owed
<1>2. CASE ReadCount
  BY <1>0, <1>2 DEF ReadCount, MInv, Bill, Held, Owed
<1>3. CASE ZeroCount
  <2>1. Bill'
    <3>1. Cost * litres + 2 * flowPulseCount <= 2 * pulses
      BY <1>0, <1>3 DEF ZeroCount, MInv, Bill, Held, Owed
    <3>2. Cost * litres \in Nat /\ countPerSecond <= flowPulseCount
      BY <1>0, <1>3, CostIsNat DEF ZeroCount, MInv
    <3> DEFINE bill == Cost * litres
    <3> HIDE DEF bill
    <3>3. bill + 2 * (0 + countPerSecond) <= 2 * pulses
      BY <1>0, <3>1, <3>2 DEF bill
    <3>4. bill = Cost * (litres + 0)
      BY <1>0 DEF bill
    <3> QED BY <1>3, <3>3, <3>4 DEF ZeroCount, Bill, Held, Owed
  <2> QED BY <1>3, <2>1 DEF ZeroCount, MInv
<1>4. CASE ReadRate
  <2>1. Cost * flowRate' <= 2 * countPerSecond
    <3>1. Elapsed \in Nat /\ Elapsed > Window
      BY <1>0, <1>4, ElapsedIsWord DEF ReadRate, MInv
    <3> QED BY <1>0, <1>4, <3>1, LitresPaid DEF ReadRate
  <2> QED BY <1>4, <2>1 DEF ReadRate, MInv, Bill, Held, Owed
<1>5. CASE SetPrev
  <2>1. Bill'
    <3>1. Cost * (litres + 0) + 2 * (flowPulseCount + countPerSecond) <= 2 * pulses
      BY <1>5 DEF SetPrev, MInv, Bill, Held, Owed
    <3>2. Cost * flowRate <= 2 * countPerSecond
      BY <1>5 DEF SetPrev, MInv
    <3>3. Cost * (litres + flowRate) = Cost * (litres + 0) + Cost * flowRate
      BY <1>0, ProductSplits
    <3>4. Cost * (litres + 0) \in Nat /\ Cost * flowRate \in Nat
      BY <1>0, CostIsNat
    <3> DEFINE had == Cost * (litres + 0)
               new == Cost * flowRate
    <3> HIDE DEF had, new
    <3>5. had + new + 2 * (flowPulseCount + 0) <= 2 * pulses
      BY <1>0, <3>1, <3>2, <3>4 DEF had, new
    <3>6. Cost * (litres + flowRate) + 2 * (flowPulseCount + 0) <= 2 * pulses
      BY <3>3, <3>5 DEF had, new
    <3> QED BY <1>5, <3>6 DEF SetPrev, Bill, Held, Owed
  <2>2. prevTicks' <= now'
    BY <1>0, <1>5 DEF SetPrev
  <2> QED BY <1>5, <2>1, <2>2 DEF SetPrev, MInv
<1>6. CASE AddLitres
  <2>1. Bill'
    <3> DEFINE sum == litres + flowRate
               left == sum % U16
    <3>1. sum \in Nat /\ left \in Nat /\ left <= sum
      BY <1>0, WordFits
    <3>2. Cost * sum + 2 * (flowPulseCount + 0) <= 2 * pulses
      BY <1>6 DEF AddLitres, MInv, Bill, Held, Owed
    <3>3. litres' = left
      BY <1>6 DEF AddLitres
    <3> HIDE DEF sum, left
    <3>4. Cost * left <= Cost * sum /\ Cost * left \in Nat /\ Cost * sum \in Nat
      BY <1>0, <3>1, ProductGrows
    <3>5. Cost * left = Cost * (left + 0)
      BY <3>1
    <3>6. Cost * (left + 0) + 2 * (flowPulseCount + 0) <= 2 * pulses
      BY <1>0, <3>2, <3>4, <3>5
    <3> QED BY <1>6, <3>3, <3>6 DEF AddLitres, Bill, Held, Owed
  <2> QED BY <1>6, <2>1 DEF AddLitres, MInv
<1>7. CASE OpenPort
  <2>1. Bill'
    BY <1>0, <1>7, CostIsNat DEF OpenPort, Bill, Held, Owed
  <2> QED BY <1>7, <2>1 DEF OpenPort, MInv
<1>8. CASE gpio_isr_handler
  <2>1. flowPulseCount' = flowPulseCount + 1
    BY <1>8, CountFits
  <2>2. pulses' = pulses + 1 /\ Held' = Held /\ Owed' = Owed /\ litres' = litres
    BY <1>8 DEF gpio_isr_handler, Held, Owed
  <2>3. Bill'
    <3> DEFINE bill == Cost * (litres + Owed)
    <3>1. Held \in Nat /\ Owed \in Nat
      BY <1>0 DEF Held, Owed
    <3>2. bill \in Nat /\ bill + 2 * (flowPulseCount + Held) <= 2 * pulses
      BY <1>0, <3>1, CostIsNat DEF MInv, Bill
    <3> HIDE DEF bill
    <3>3. bill + 2 * ((flowPulseCount + 1) + Held) <= 2 * (pulses + 1)
      BY <1>0, <3>1, <3>2
    <3> QED BY <2>1, <2>2, <3>3 DEF Bill, bill
  <2>4. pc = "zero" => countPerSecond <= flowPulseCount'
    BY <1>0, <2>1 DEF MInv
  <2> QED BY <1>8, <2>3, <2>4 DEF gpio_isr_handler, MInv
<1>9. CASE Tick
  BY <1>0, <1>9 DEF Tick, MInv, Bill, Held, Owed
<1>10. CASE SntpSet
  BY <1>0, <1>10 DEF SntpSet, TypeOK, MInv, Bill, Held, Owed
<1>11. CASE UNCHANGED vars
  BY <1>11 DEF vars, MInv, Bill, Held, Owed
<1> QED BY <1>1, <1>2, <1>3, <1>4, <1>5, <1>6, <1>7, <1>8, <1>9, <1>10, <1>11
        DEF Next, app_main

LEMMA BillCoversLitres == TypeOK /\ MInv => NeverOvercounts
<1> SUFFICES ASSUME TypeOK, MInv PROVE Cost * litres <= 2 * pulses
  BY DEF NeverOvercounts, Cost
<1>1. /\ Cost \in Nat /\ litres \in Nat /\ flowRate \in Nat
      /\ flowPulseCount \in Nat /\ countPerSecond \in Nat /\ pulses \in Nat
  BY CostIsNat, WordFits, FlowAssumption DEF FlowAssumption, TypeOK
<1>2. Held \in Nat /\ Owed \in Nat
  BY <1>1 DEF Held, Owed
<1>3. Cost * litres <= Cost * (litres + Owed) /\ Cost * litres \in Nat
  <2>1. litres <= litres + Owed /\ litres + Owed \in Nat
    BY <1>1, <1>2
  <2> QED BY <1>1, <2>1, ProductGrows
<1> DEFINE due == Cost * litres
           bill == Cost * (litres + Owed)
<1>4. bill + 2 * (flowPulseCount + Held) <= 2 * pulses
  BY DEF MInv, Bill
<1>5. bill \in Nat
  BY <1>1, <1>2, CostIsNat
<1>6. due <= bill /\ due \in Nat
  BY <1>3
<1> HIDE DEF due, bill
<1>7. due <= 2 * pulses
  BY <1>1, <1>2, <1>4, <1>5, <1>6
<1> QED BY <1>7 DEF due

LEMMA MeterInvariant ==
  ASSUME ~ClockStepsBack
  PROVE  Spec => [](TypeOK /\ MInv)
<1>1. Init => TypeOK /\ MInv
  BY TypeInit, MeterInit
<1>2. TypeOK /\ MInv /\ [Next]_vars => (TypeOK /\ MInv)'
  BY TypeStep, MeterStep
<1> QED BY <1>1, <1>2, PTL DEF Spec

(* Unless the clock steps back, every litre counted since an opening was paid
   for by pulses: no order of the interrupt, the ticks and the loop's reads
   counts one twice.                                                       *)
THEOREM NeverOvercountsHolds ==
  ASSUME ~ClockStepsBack
  PROVE  Spec => []NeverOvercounts
BY MeterInvariant, BillCoversLitres, PTL

-----------------------------------------------------------------------------
(* The implementation of Meter.                                            *)

LEMMA PromiseInit == Init => Promise!Init
BY FlowAssumption, WordFits DEF FlowAssumption, Init, Promise!Init

LEMMA PromiseStep ==
  ASSUME ~ClockStepsBack, TypeOK, TypeOK', MInv, [Next]_vars
  PROVE  [Promise!Next]_Promise!meter
<1> DEFINE unusedBar == flowPulseCount + (IF pc \in {"rate", "prev"} THEN countPerSecond ELSE 0)
           litresBar == IF pc = "add" THEN (litres + flowRate) % U16 ELSE litres
<1>0. /\ now \in Nat /\ prevTicks \in Nat /\ Window \in Nat
      /\ flowPulseCount \in Nat /\ countPerSecond \in Nat
      /\ litres \in Word16 /\ flowRate \in Word16
      /\ unusedBar \in Nat
  BY FlowAssumption, WordFits DEF FlowAssumption, TypeOK
<1> SUFFICES ASSUME ~(now' = now /\ prevTicks' = prevTicks /\ litresBar' = litresBar
                      /\ unusedBar' = unusedBar)
             PROVE  Promise!Next
  BY DEF Promise!meter
<1>1. CASE CheckWindow
  BY <1>1 DEF CheckWindow
<1>2. CASE ReadCount
  BY <1>2 DEF ReadCount
<1>3. CASE ZeroCount
  <2>1. unusedBar' = countPerSecond /\ unusedBar = flowPulseCount
        /\ countPerSecond <= flowPulseCount
    BY <1>0, <1>3 DEF ZeroCount, MInv
  <2>2. unusedBar' \in 0 .. unusedBar
    BY <1>0, <2>1
  <2>3. now' = now /\ prevTicks' = prevTicks /\ litresBar' = litresBar
    BY <1>3 DEF ZeroCount
  <2>4. Promise!Lose
    BY <2>2, <2>3 DEF Promise!Lose
  <2> QED BY <2>4 DEF Promise!Next
<1>4. CASE ReadRate
  BY <1>4 DEF ReadRate
<1>5. CASE SetPrev
  <2>1. now > prevTicks + Window /\ prevTicks' = now /\ now' = now
    BY <1>5 DEF SetPrev, MInv
  <2>2. unusedBar = flowPulseCount + countPerSecond /\ unusedBar' = flowPulseCount
    BY <1>0, <1>5 DEF SetPrev
  <2>3. unusedBar' \in 0 .. unusedBar /\ unusedBar - unusedBar' = countPerSecond
    BY <1>0, <2>2
  <2>4. Promise!LitreCosts * flowRate <= 2 * (unusedBar - unusedBar')
    BY <1>5, <2>3 DEF SetPrev, MInv, Cost, Promise!LitreCosts
  <2>5. litresBar' = (litresBar + flowRate) % U16
    BY <1>5 DEF SetPrev
  <2>6. flowRate \in 0 .. U16 - 1
    BY <1>0 DEF Word16
  <2>7. Promise!Measure
    BY <2>1, <2>3, <2>4, <2>5, <2>6 DEF Promise!Measure
  <2> QED BY <2>7 DEF Promise!Next
<1>6. CASE AddLitres
  BY <1>6 DEF AddLitres
<1>7. CASE OpenPort
  <2>1. Promise!Open
    BY <1>7 DEF OpenPort, Promise!Open
  <2> QED BY <2>1 DEF Promise!Next
<1>8. CASE gpio_isr_handler
  <2>1. flowPulseCount' = flowPulseCount + 1
    BY <1>8, CountFits
  <2>2. unusedBar' = unusedBar + 1
    BY <1>0, <1>8, <2>1 DEF gpio_isr_handler
  <2>3. Promise!Flows
    BY <1>8, <2>2 DEF gpio_isr_handler, Promise!Flows
  <2> QED BY <2>3 DEF Promise!Next
<1>9. CASE Tick
  <2>1. Promise!Advance
    BY <1>0, <1>9 DEF Tick, Promise!Advance
  <2> QED BY <2>1 DEF Promise!Next
<1>10. CASE SntpSet
  <2>1. now' \in Nat /\ now' > now
    BY <1>0, <1>10 DEF SntpSet
  <2>2. Promise!Advance
    BY <1>10, <2>1 DEF SntpSet, Promise!Advance
  <2> QED BY <2>2 DEF Promise!Next
<1>11. CASE UNCHANGED vars
  BY <1>11 DEF vars
<1> QED BY <1>1, <1>2, <1>3, <1>4, <1>5, <1>6, <1>7, <1>8, <1>9, <1>10, <1>11
        DEF Next, app_main

(* Unless the clock steps back, the interrupt and the loop's four reads and
   writes together are one honest measurement: FlowMeter implements Meter. *)
THEOREM KeepsPromiseHolds ==
  ASSUME ~ClockStepsBack
  PROVE  Spec => KeepsPromise
<1>1. TypeOK /\ MInv /\ (TypeOK /\ MInv)' /\ [Next]_vars => [Promise!Next]_Promise!meter
  BY PromiseStep
<1> QED BY <1>1, PromiseInit, MeterInvariant, PTL DEF Spec, KeepsPromise, Promise!Spec

=============================================================================
