----------------------------- MODULE Dht22_proofs -----------------------------
(***************************************************************************)
(* Proofs about Dht22, for every value of its constants.                   *)
(***************************************************************************)
EXTENDS Dht22, TLAPS, WellFoundedInduction

-----------------------------------------------------------------------------
(* Numbers.                                                                *)

(* Induction over Nat, with a set for the property.                        *)
LEMMA NatSetInduction ==
  ASSUME NEW S, 0 \in S, \A n \in Nat : n \in S => n + 1 \in S
  PROVE  Nat \subseteq S
<1> DEFINE T == {n \in Nat : n \notin S}
<1>1. SUFFICES ASSUME T # {} PROVE FALSE
  OBVIOUS
<1>2. IsWellFoundedOn(OpToRel(<, Nat), Nat)
  BY NatLessThanWellFounded
<1>3. \E x \in T : \A y \in T : <<y, x>> \notin OpToRel(<, Nat)
  <2> HIDE DEF T
  <2>1. T \subseteq Nat
    BY DEF T
  <2> QED BY <2>1, <1>1, <1>2, WFMin
<1>4. PICK x \in T : \A y \in T : <<y, x>> \notin OpToRel(<, Nat)
  BY <1>3
<1>5. \A y \in T : ~(y < x)
  BY <1>4 DEF OpToRel
<1>6. x # 0 /\ x - 1 \in Nat /\ x - 1 \in S
  BY <1>5
<1> QED BY <1>6

(* The powers up to the n-th exist.                                        *)
PowersTo(n, g) == g = [m \in 0 .. n |-> IF m = 0 THEN 1 ELSE 2 * g[m - 1]]

LEMMA PowersExist == \A n \in Nat : \E g : PowersTo(n, g)
<1> DEFINE S == {n \in Nat : \E g : PowersTo(n, g)}
<1>1. 0 \in S
  <2>1. PowersTo(0, [m \in 0 .. 0 |-> 1])
    BY DEF PowersTo
  <2> QED BY <2>1
<1>2. ASSUME NEW n \in Nat, n \in S PROVE n + 1 \in S
  <2>1. PICK g : PowersTo(n, g)
    BY <1>2
  <2> DEFINE h == [m \in 0 .. n + 1 |-> IF m = n + 1 THEN 2 * g[n] ELSE g[m]]
  <2>2. ASSUME NEW m \in 0 .. n + 1
        PROVE  h[m] = IF m = 0 THEN 1 ELSE 2 * h[m - 1]
    BY <2>1 DEF PowersTo
  <2>3. h = [m \in 0 .. n + 1 |-> IF m = 0 THEN 1 ELSE 2 * h[m - 1]]
    BY <2>2
  <2> HIDE DEF h
  <2>4. PowersTo(n + 1, h)
    BY <2>3 DEF PowersTo
  <2> QED BY <2>4
<1> HIDE DEF S
<1>3. Nat \subseteq S
  BY <1>1, <1>2, NatSetInduction
<1> QED BY <1>3 DEF S

LEMMA PowersEquation ==
  /\ Pow2[0] = 1
  /\ \A n \in 0 .. ByteBits : n > 0 => Pow2[n] = 2 * Pow2[n - 1]
<1>1. ByteBits \in Nat
  BY SensorAssumption DEF SensorAssumption
<1>2. PowersTo(ByteBits, Pow2)
  <2>1. \E g : PowersTo(ByteBits, g)
    BY <1>1, PowersExist
  <2>2. Pow2 = CHOOSE g : PowersTo(ByteBits, g)
    BY DEF Pow2, PowersTo
  <2> QED BY <2>1, <2>2
<1>3. ASSUME NEW n \in 0 .. ByteBits
      PROVE  Pow2[n] = IF n = 0 THEN 1 ELSE 2 * Pow2[n - 1]
  <2> DEFINE Halves(g) == [m \in 0 .. ByteBits |-> IF m = 0 THEN 1 ELSE 2 * g[m - 1]]
  <2>1. Pow2 = Halves(Pow2)
    BY <1>2 DEF PowersTo
  <2>2. Halves(Pow2)[n] = IF n = 0 THEN 1 ELSE 2 * Pow2[n - 1]
    OBVIOUS
  <2> HIDE DEF Halves
  <2> QED BY <2>1, <2>2
<1> QED BY <1>1, <1>3

(* They are positive ...                                                   *)
LEMMA PowersPositive == \A n \in 0 .. ByteBits : Pow2[n] \in Nat \ {0}
<1> DEFINE S == {n \in Nat : n \in 0 .. ByteBits => Pow2[n] \in Nat \ {0}}
<1>0. ByteBits \in Nat
  BY SensorAssumption DEF SensorAssumption
<1>1. 0 \in S
  BY PowersEquation
<1>2. ASSUME NEW n \in Nat, n \in S PROVE n + 1 \in S
  <2>1. SUFFICES ASSUME n + 1 \in 0 .. ByteBits PROVE Pow2[n + 1] \in Nat \ {0}
    OBVIOUS
  <2>2. Pow2[n + 1] = 2 * Pow2[n]
    BY <1>0, <2>1, PowersEquation
  <2>3. Pow2[n] \in Nat \ {0}
    BY <1>0, <1>2, <2>1
  <2> QED BY <2>2, <2>3
<1> HIDE DEF S
<1>3. Nat \subseteq S
  BY <1>1, <1>2, NatSetInduction
<1> QED BY <1>0, <1>3 DEF S

(* ... and a bit is worth no more than the highest of its byte.            *)
LEMMA PowersOrdered == \A n \in 0 .. ByteBits - 1 : Pow2[n] <= Pow2[ByteBits - 1]
<1> DEFINE S == {n \in Nat : n \in 0 .. ByteBits - 1 =>
                               Pow2[ByteBits - 1 - n] <= Pow2[ByteBits - 1]}
<1>0. ByteBits \in Nat /\ ByteBits > 1
  BY SensorAssumption DEF SensorAssumption
<1>1. 0 \in S
  BY <1>0, PowersPositive
<1>2. ASSUME NEW n \in Nat, n \in S PROVE n + 1 \in S
  <2>1. SUFFICES ASSUME n + 1 \in 0 .. ByteBits - 1
                 PROVE  Pow2[ByteBits - 1 - (n + 1)] <= Pow2[ByteBits - 1]
    OBVIOUS
  <2> DEFINE m == ByteBits - 1 - n
  <2>2. m \in 0 .. ByteBits /\ m > 0 /\ m - 1 \in 0 .. ByteBits
        /\ m - 1 = ByteBits - 1 - (n + 1)
    BY <1>0, <2>1
  <2>3. Pow2[m] = 2 * Pow2[m - 1] /\ Pow2[m - 1] \in Nat \ {0}
    BY <2>2, PowersEquation, PowersPositive
  <2>4. Pow2[m] <= Pow2[ByteBits - 1]
    BY <1>0, <1>2, <2>1
  <2>5. Pow2[ByteBits - 1] \in Nat
    BY <1>0, PowersPositive
  <2> HIDE DEF m
  <2>6. Pow2[m - 1] <= Pow2[ByteBits - 1]
    BY <2>3, <2>4, <2>5
  <2> QED BY <2>2, <2>6
<1> HIDE DEF S
<1>3. Nat \subseteq S
  BY <1>1, <1>2, NatSetInduction
<1>4. ASSUME NEW n \in 0 .. ByteBits - 1 PROVE Pow2[n] <= Pow2[ByteBits - 1]
  <2>1. ByteBits - 1 - n \in S /\ ByteBits - 1 - n \in 0 .. ByteBits - 1
        /\ ByteBits - 1 - (ByteBits - 1 - n) = n
    BY <1>0, <1>3
  <2>2. Pow2[ByteBits - 1 - (ByteBits - 1 - n)] <= Pow2[ByteBits - 1]
    BY <2>1 DEF S
  <2> QED BY <2>1, <2>2
<1> QED BY <1>4

(* A quotient and its remainder are the only ones.                         *)
LEMMA DivUnique ==
  ASSUME NEW d \in Nat \ {0}, NEW q \in Nat, NEW r \in 0 .. d - 1
  PROVE  (d * q + r) \div d = q /\ (d * q + r) % d = r
<1> DEFINE x == d * q + r
<1> DEFINE q2 == x \div d
<1> DEFINE r2 == x % d
<1>1. x \in Nat
  OBVIOUS
<1>2. q2 \in Int /\ r2 \in 0 .. d - 1 /\ x = d * q2 + r2
  BY <1>1
<1> HIDE DEF q2, r2
<1>3. d * (q - q2) = r2 - r
  BY <1>2
<1>4. ~(q - q2 >= 1)
  BY <1>2, <1>3
<1>5. ~(q - q2 <= -1)
  BY <1>2, <1>3
<1>6. q = q2
  BY <1>2, <1>4, <1>5
<1> QED BY <1>2, <1>6 DEF q2, r2

(* The sum of a byte less one of its bits is another sum.                  *)
LEMMA SumsDiffer ==
  ASSUME NEW d \in Nat \ {0}, NEW a \in Nat, NEW e \in 1 .. d - 1, e <= a
  PROVE  (a - e) % d # a % d
<1> DEFINE q1 == (a - e) \div d
<1> DEFINE q2 == a \div d
<1> DEFINE r == a % d
<1>1. SUFFICES ASSUME (a - e) % d = r PROVE FALSE
  OBVIOUS
<1>2. a - e \in Nat
  OBVIOUS
<1>3. q2 \in Int /\ r \in 0 .. d - 1 /\ a = d * q2 + r
  OBVIOUS
<1>4. q1 \in Int /\ a - e = d * q1 + r
  BY <1>1, <1>2
<1> HIDE DEF q1, q2, r
<1>5. d * (q2 - q1) = e
  BY <1>3, <1>4
<1>6. ~(q2 - q1 >= 1)
  BY <1>3, <1>4, <1>5
<1>7. ~(q2 - q1 <= 0)
  BY <1>3, <1>4, <1>5
<1> QED BY <1>3, <1>4, <1>6, <1>7

-----------------------------------------------------------------------------
(* Bytes, bit by bit from the highest.                                     *)

M == Pow2[ByteBits]
H == Pow2[ByteBits - 1]

LEMMA Highest == M = 2 * H /\ H \in Nat \ {0} /\ Byte = 0 .. 2 * H - 1
<1>1. ByteBits \in Nat /\ ByteBits > 1
  BY SensorAssumption DEF SensorAssumption
<1> QED BY <1>1, PowersEquation, PowersPositive DEF M, H, Byte

(* A byte whose lowest n bits are not there yet.                           *)
Prefix(x, n) == Pow2[n] * (x \div Pow2[n])

LEMMA PrefixFull == ASSUME NEW x \in Byte PROVE Prefix(x, ByteBits) = 0
<1>1. x \in 0 .. M - 1 /\ M \in Nat \ {0}
  BY Highest
<1>2. x = M * 0 + x
  BY <1>1
<1>3. x \div M = 0
  BY <1>1, <1>2, DivUnique
<1> QED BY <1>1, <1>3 DEF Prefix, M

LEMMA PrefixNone == ASSUME NEW x \in Byte PROVE Prefix(x, 0) = x
<1>1. x \in Nat
  BY Highest
<1>2. x \div 1 = x
  BY <1>1, DivUnique
<1> QED BY <1>1, <1>2, PowersEquation DEF Prefix

LEMMA PrefixNext ==
  ASSUME NEW x \in Byte, NEW n \in 0 .. ByteBits - 1
  PROVE  /\ BitOf(x, n) \in {0, 1} /\ Prefix(x, n + 1) \in Nat
         /\ Prefix(x, n) = Prefix(x, n + 1) + BitOf(x, n) * Pow2[n]
<1> DEFINE d == Pow2[n]
<1> DEFINE y == x \div d
<1> DEFINE r == x % d
<1> DEFINE a == y \div 2
<1> DEFINE b == y % 2
<1>0. ByteBits \in Nat /\ x \in Nat
  BY Highest, SensorAssumption DEF SensorAssumption
<1>1. d \in Nat \ {0} /\ Pow2[n + 1] = 2 * d
  BY <1>0, PowersEquation, PowersPositive
<1>2. y \in Int /\ r \in 0 .. d - 1 /\ x = d * y + r
  <2> HIDE DEF d
  <2> QED BY <1>0, <1>1
<1> HIDE DEF r
<1>3. y \in Nat
  <2> HIDE DEF d, y
  <2>1. ~(y <= -1)
    BY <1>0, <1>1, <1>2
  <2> QED BY <1>2, <2>1
<1>4. a \in Nat /\ b \in {0, 1} /\ y = 2 * a + b
  <2> HIDE DEF d, y
  <2> QED BY <1>3
<1>5. BitOf(x, n) = b /\ Prefix(x, n) = d * y /\ Prefix(x, n + 1) = (2 * d) * (x \div (2 * d))
  BY <1>1 DEF BitOf, Prefix
<1> HIDE DEF d, y, a, b
<1>6. x = (2 * d) * a + (d * b + r) /\ d * b + r \in 0 .. 2 * d - 1
  <2>1. CASE b = 0
    BY <1>1, <1>2, <1>4, <2>1
  <2>2. CASE b = 1
    BY <1>1, <1>2, <1>4, <2>2
  <2> QED BY <1>4, <2>1, <2>2
<1>7. x \div (2 * d) = a
  <2> DEFINE e == 2 * d
  <2> DEFINE s == d * b + r
  <2>1. e \in Nat \ {0} /\ s \in 0 .. e - 1 /\ x = e * a + s
    BY <1>1, <1>6
  <2> HIDE DEF e, s
  <2>2. x \div e = a
    BY <1>4, <2>1, DivUnique
  <2> QED BY <2>2 DEF e
<1>8. d * y = (2 * d) * a + b * d /\ (2 * d) * a \in Nat
  BY <1>1, <1>3, <1>4
<1> QED BY <1>1, <1>4, <1>5, <1>7, <1>8 DEF d

(* Where the reader's k-th bit is.                                         *)
LEMMA BitPlace ==
  ASSUME NEW c \in 0 .. 4, NEW n \in 0 .. ByteBits - 1
  PROVE  LET k == c * ByteBits + ByteBits - 1 - n
         IN  k \div ByteBits = c /\ ByteBits - 1 - (k % ByteBits) = n
<1>1. ByteBits \in Nat \ {0}
  BY SensorAssumption DEF SensorAssumption
<1> DEFINE r == ByteBits - 1 - n
<1>2. r \in 0 .. ByteBits - 1 /\ c * ByteBits + ByteBits - 1 - n = ByteBits * c + r
      /\ ByteBits - 1 - r = n
  BY <1>1
<1> HIDE DEF r
<1>3. (ByteBits * c + r) \div ByteBits = c /\ (ByteBits * c + r) % ByteBits = r
  BY <1>1, <1>2, DivUnique
<1> QED BY <1>2, <1>3

-----------------------------------------------------------------------------
(* What the reader has of each byte.                                       *)

(* A value with nothing in its lowest n bits, as far as adding the next bit
   goes: it overflows neither the byte nor the part below the highest bit. *)
Partial(v, n) ==
  /\ v \in 0 .. M - Pow2[n]
  /\ n < ByteBits /\ v < H => v <= H - Pow2[n]

(* v has no bit that p has not, as far as the values and their signs tell.  *)
Low(v) == IF v >= H THEN v - H ELSE v
Under(v, p) == v <= p /\ Low(v) <= Low(p) /\ (v >= H => p >= H)

LEMMA PartialNext ==
  ASSUME NEW n \in 0 .. ByteBits - 1, NEW v, Partial(v, n + 1), NEW bit \in {0, 1}
  PROVE  Partial(v + bit * Pow2[n], n)
<1> DEFINE d == Pow2[n]
<1>0. ByteBits \in Nat
  BY SensorAssumption DEF SensorAssumption
<1>1. d \in Nat \ {0} /\ Pow2[n + 1] = 2 * d
  BY <1>0, PowersEquation, PowersPositive
<1>2. v \in 0 .. 2 * H - 2 * d /\ (n + 1 < ByteBits /\ v < H => v <= H - 2 * d)
  BY <1>1, Highest DEF Partial
<1>3. n + 1 = ByteBits => d = H
  BY <1>0 DEF H
<1>4. bit * d \in {0, d}
  BY <1>1
<1>5. H \in Nat \ {0} /\ M = 2 * H
  BY Highest
<1> HIDE DEF d
<1> DEFINE w == v + bit * d
<1>6. w \in {v, v + d}
  BY <1>1, <1>2, <1>4, <1>5
<1> HIDE DEF w
<1>7. w \in 0 .. 2 * H - d
  BY <1>1, <1>2, <1>5, <1>6
<1>8. w < H => w <= H - d
  BY <1>0, <1>1, <1>2, <1>3, <1>5, <1>6
<1> QED BY <1>5, <1>7, <1>8 DEF Partial, w, d

LEMMA UnderNext ==
  ASSUME NEW n \in 0 .. ByteBits - 1, NEW v, NEW p,
         Partial(v, n + 1), Partial(p, n + 1), Under(v, p),
         NEW bit \in {0, 1}, NEW sentBit \in {0, 1}, bit <= sentBit
  PROVE  Under(v + bit * Pow2[n], p + sentBit * Pow2[n])
<1> DEFINE d == Pow2[n]
<1>0. ByteBits \in Nat
  BY SensorAssumption DEF SensorAssumption
<1>1. d \in Nat \ {0} /\ Pow2[n + 1] = 2 * d
  BY <1>0, PowersEquation, PowersPositive
<1>2. /\ v \in 0 .. 2 * H - 2 * d /\ (n + 1 < ByteBits /\ v < H => v <= H - 2 * d)
      /\ p \in 0 .. 2 * H - 2 * d /\ (n + 1 < ByteBits /\ p < H => p <= H - 2 * d)
  BY <1>1, Highest DEF Partial
<1>3. n + 1 = ByteBits => d = H
  BY <1>0 DEF H
<1>5. H \in Nat \ {0}
  BY Highest
<1> HIDE DEF d
<1>6. bit * d = (IF bit = 1 THEN d ELSE 0) /\ sentBit * d = (IF sentBit = 1 THEN d ELSE 0)
  BY <1>1
<1> DEFINE w == v + bit * d
<1> DEFINE q == p + sentBit * d
<1>7. \/ w = v /\ q = p
      \/ w = v /\ q = p + d
      \/ w = v + d /\ q = p + d
  BY <1>1, <1>2, <1>5, <1>6
<1> HIDE DEF w, q
<1>8. Under(w, q)
  <2>1. CASE n + 1 = ByteBits
    <3>1. v = 0 /\ p = 0
      BY <1>2, <1>3, <1>5, <2>1
    <3> QED BY <1>3, <1>5, <1>7, <2>1, <3>1 DEF Under, Low
  <2>2. CASE n + 1 < ByteBits
    BY <1>1, <1>2, <1>5, <1>7, <2>2 DEF Under, Low
  <2> QED BY <1>0, <2>1, <2>2
<1> QED BY <1>8 DEF w, q, d

(* So are the values of the byte that was sent, bit by bit.                *)
LEMMA PrefixPartial ==
  ASSUME NEW x \in Byte PROVE \A n \in 0 .. ByteBits : Partial(Prefix(x, n), n)
<1> DEFINE S == {k \in Nat : k \in 0 .. ByteBits =>
                               Partial(Prefix(x, ByteBits - k), ByteBits - k)}
<1>0. ByteBits \in Nat
  BY SensorAssumption DEF SensorAssumption
<1>1. 0 \in S
  <2>1. Partial(0, ByteBits)
    BY <1>0, Highest DEF Partial, M
  <2> QED BY <1>0, <2>1, PrefixFull
<1>2. ASSUME NEW k \in Nat, k \in S PROVE k + 1 \in S
  <2>1. SUFFICES ASSUME k + 1 \in 0 .. ByteBits
                 PROVE  Partial(Prefix(x, ByteBits - (k + 1)), ByteBits - (k + 1))
    OBVIOUS
  <2> DEFINE n == ByteBits - (k + 1)
  <2>2. n \in 0 .. ByteBits - 1 /\ ByteBits - k = n + 1
    BY <1>0, <2>1
  <2>3. Partial(Prefix(x, n + 1), n + 1)
    BY <1>0, <1>2, <2>1, <2>2
  <2> HIDE DEF n
  <2> QED BY <2>2, <2>3, PrefixNext, PartialNext DEF n
<1> HIDE DEF S
<1>3. Nat \subseteq S
  BY <1>1, <1>2, NatSetInduction
<1>4. ASSUME NEW n \in 0 .. ByteBits PROVE Partial(Prefix(x, n), n)
  <2>1. ByteBits - n \in S /\ ByteBits - n \in 0 .. ByteBits
        /\ ByteBits - (ByteBits - n) = n
    BY <1>0, <1>3
  <2> QED BY <2>1 DEF S
<1> QED BY <1>4

-----------------------------------------------------------------------------
(* The reader.                                                             *)

(* The number of bits of byte c that are still to be read.                 *)
Unread(c) == IF c < byteInx THEN 0 ELSE IF c = byteInx THEN bitInx + 1 ELSE ByteBits

Fresh ==
  /\ byteInx = 0 /\ bitInx = ByteBits - 1
  /\ dhtData = [b \in 0 .. MAXdhtData - 1 |-> 0]
  /\ aligned = TRUE /\ lost = 0 /\ result = "none"

(* The types, with what has been read and what has not.                    *)
ReaderInv ==
  /\ wait \in Waits \cup {"none"} /\ counted \in 0 .. 86
  /\ byteInx \in 0 .. 5 /\ bitInx \in 0 .. ByteBits - 1
  /\ wait # "none" => byteInx < 5 /\ result = "none"
  /\ dhtData \in [0 .. 4 -> Nat]
  /\ \A c \in 0 .. 4 : Partial(dhtData[c], Unread(c))
  /\ wait \in {"answerLow", "answerHigh"} => Fresh
  /\ wait = "none" /\ result = "none" => Fresh
  /\ result \in {"none", "OK", "CHECKSUM", "TIMEOUT"}
  /\ humidity \in Nat /\ temperature \in Int
  /\ sent \in Frames /\ phase \in 0 .. Shorted
  /\ early \in BOOLEAN /\ aligned \in BOOLEAN /\ lost \in 0 .. 2

(* What the reader does with the last bit.                                 *)
ValuesInv ==
  result \in {"OK", "CHECKSUM"} =>
    /\ wait = "none" /\ byteInx = 5
    /\ humidity = Humidity(dhtData)
    /\ temperature = (IF Negative(dhtData) THEN -Magnitude(dhtData) ELSE Magnitude(dhtData))
    /\ result = "OK" => ChecksumOK(dhtData)

LEMMA Sizes == /\ ByteBits \in Nat /\ ByteBits > 1 /\ Bits = 5 * ByteBits
               /\ Idle = 4 + 10 * ByteBits /\ Shorted = 5 + 10 * ByteBits
BY SensorAssumption DEF SensorAssumption, Bits, MAXdhtData, Idle, Shorted

LEMMA TimesAreNat == \A p : Micros(p) \in Nat
BY SensorAssumption DEF SensorAssumption, Micros, usTimeOut, Waits

LEMMA TimeOuts ==
  /\ usTimeOut["answerLow"] = 85 /\ usTimeOut["answerHigh"] = 85
  /\ usTimeOut["bitLow"] = 56 /\ usTimeOut["bitHigh"] = 75
BY DEF usTimeOut

LEMMA States ==
  /\ State["answerLow"] = 0 /\ State["answerHigh"] = 1
  /\ State["bitLow"] = 0 /\ State["bitHigh"] = 1
BY DEF State

LEMMA SentBytes == ASSUME sent \in Frames
                   PROVE  /\ \A c \in 0 .. 3 : sent[c] \in Byte
                          /\ Sum(sent) \in Byte
<1>1. ASSUME NEW c \in 0 .. 3 PROVE sent[c] \in Byte
  BY SensorAssumption DEF SensorAssumption
<1>2. sent[0] + sent[1] + sent[2] + sent[3] \in Nat
  BY <1>1, Highest
<1>3. Sum(sent) \in 0 .. M - 1
  BY <1>2, Highest DEF Sum, M
<1> QED BY <1>1, <1>3, Highest

(* The sum is over bytes, so it is one.                                    *)
LEMMA ValueTypes ==
  ASSUME NEW data \in [0 .. 4 -> Nat]
  PROVE  /\ Humidity(data) \in Nat /\ Magnitude(data) \in Nat
         /\ Sum(data) \in Byte
<1>1. data[0] \in Nat /\ data[1] \in Nat /\ data[2] \in Nat /\ data[3] \in Nat
  OBVIOUS
<1>2. M \in Nat \ {0} /\ H \in Nat \ {0}
  BY Highest
<1>3. \A a, b \in Nat : a * M + b \in Nat
  BY <1>2
<1>4. data[2] % H \in Nat
  BY <1>1, <1>2
<1>5. data[0] + data[1] + data[2] + data[3] \in Nat
  BY <1>1
<1>6. Sum(data) \in 0 .. M - 1
  BY <1>2, <1>5 DEF Sum, M
<1> QED
  BY <1>1, <1>3, <1>4, <1>6, Highest DEF Humidity, Magnitude, M, H

LEMMA ReaderInit == Init => ReaderInv /\ ValuesInv
<1> SUFFICES ASSUME Init PROVE ReaderInv /\ ValuesInv
  OBVIOUS
<1>1. Partial(0, ByteBits)
  BY Sizes, Highest DEF Partial, M
<1>2. \A c \in 0 .. 4 : dhtData[c] = 0 /\ Unread(c) = ByteBits
  BY Sizes DEF Init, MAXdhtData, Unread
<1>3. \A c \in 0 .. 4 : Partial(dhtData[c], Unread(c))
  BY <1>1, <1>2
<1>4. dhtData \in [0 .. 4 -> Nat] /\ Fresh
  BY DEF Init, Fresh, MAXdhtData
<1>5. phase \in 0 .. Shorted
  BY Sizes DEF Init
<1>6. wait = "none" /\ result = "none" /\ counted \in 0 .. 86 /\ sent \in Frames
  BY DEF Init
<1>7. byteInx \in 0 .. 5 /\ bitInx \in 0 .. ByteBits - 1 /\ lost \in 0 .. 2
      /\ humidity \in Nat /\ temperature \in Int
  BY Sizes DEF Init
<1>8. early \in BOOLEAN /\ aligned \in BOOLEAN
  BY DEF Init
<1> QED
  BY <1>3, <1>4, <1>5, <1>6, <1>7, <1>8 DEF ReaderInv, ValuesInv

(* What a bit changes.                                                     *)
LEMMA HighOverSteps ==
  ASSUME ReaderInv, HighOver
  PROVE  /\ wait = "bitHigh" /\ byteInx \in 0 .. 4 /\ Level(phase) = 0
         /\ wait' = (IF LastBit THEN "none" ELSE "bitLow") /\ counted' = 0
         /\ UNCHANGED <<sent, phase, early>>
         /\ aligned' = (aligned /\ phase \in {5 + 2 * BitAt, Shorted})
         /\ byteInx' = (IF bitInx = 0 THEN byteInx + 1 ELSE byteInx)
         /\ bitInx' = (IF bitInx = 0 THEN ByteBits - 1 ELSE bitInx - 1)
         /\ \A c \in 0 .. 4 : c # byteInx => Unread(c)' = Unread(c)
         /\ Unread(byteInx) = bitInx + 1
         /\ \A c \in 0 .. 4 : c = byteInx => Unread(c)' = bitInx
         /\ \E uSec \in 0 .. counted :
              LET bit == Decoded(uSec) IN
              /\ dhtData' = WithBit(bit)
              /\ lost' = (IF bit < SentBit(BitAt) THEN Lesser(2, lost + 1) ELSE lost)
         /\ IF LastBit THEN Assign(dhtData') ELSE UNCHANGED <<humidity, temperature, result>>
<1>1. PICK uSec \in 0 .. counted :
         LET bit == Decoded(uSec) IN
         /\ Leaves("bitHigh", IF LastBit THEN "none" ELSE "bitLow")
         /\ dhtData' = WithBit(bit) /\ Mark(bit)
         /\ NextIndex
         /\ IF LastBit THEN Assign(dhtData') ELSE UNCHANGED <<humidity, temperature, result>>
         /\ UNCHANGED <<sent, phase>>
  BY DEF HighOver
<1>2. wait = "bitHigh" /\ Level(phase) = 0
      /\ wait' = (IF LastBit THEN "none" ELSE "bitLow") /\ counted' = 0
  BY <1>1, States DEF Leaves, Level
<1>3. byteInx \in 0 .. 4 /\ bitInx \in 0 .. ByteBits - 1
  BY <1>2 DEF ReaderInv
<1>4. /\ byteInx' = (IF bitInx = 0 THEN byteInx + 1 ELSE byteInx)
      /\ bitInx' = (IF bitInx = 0 THEN ByteBits - 1 ELSE bitInx - 1)
  BY <1>1 DEF NextIndex
<1>5. /\ \A c \in 0 .. 4 : c # byteInx => Unread(c)' = Unread(c)
      /\ Unread(byteInx) = bitInx + 1
      /\ \A c \in 0 .. 4 : c = byteInx => Unread(c)' = bitInx
  BY <1>3, <1>4, Sizes DEF Unread
<1> QED
  BY <1>1, <1>2, <1>3, <1>4, <1>5 DEF Mark


(* What the line changes.                                                  *)
LEMMA LineSteps ==
  ASSUME ReaderInv, NextPhase \/ Breaks
  PROVE  /\ wait \in Waits /\ phase < Idle
         /\ phase' \in {phase + 1, Idle, Shorted} /\ phase' \in 0 .. Shorted
         /\ Breaks => phase' \in {Idle, Shorted}
         /\ NextPhase => phase' = phase + 1
         /\ counted' = (IF Counting THEN Lesser(usTimeOut[wait] + 1, counted + Micros(phase))
                        ELSE counted)
         /\ counted' \in 0 .. 86
         /\ UNCHANGED <<wait, byteInx, bitInx, dhtData, humidity, temperature, result,
                        sent, marks>>
<1>1. wait \in Waits /\ phase \in 0 .. Shorted /\ counted \in 0 .. 86 /\ phase < Idle
  BY DEF ReaderInv, NextPhase, Breaks
<1>2. /\ NextPhase => phase' = phase + 1
      /\ Breaks => phase' \in {Idle, Shorted}
  BY DEF NextPhase, Breaks
<1>3. phase' \in {phase + 1, Idle, Shorted} /\ phase' \in 0 .. Shorted
  BY <1>1, <1>2, Sizes
<1>4. counted' = (IF Counting THEN Lesser(usTimeOut[wait] + 1, counted + Micros(phase))
                  ELSE counted)
  BY DEF NextPhase, Breaks
<1>5. usTimeOut[wait] \in 0 .. 85
  BY <1>1, TimeOuts DEF Waits
<1>6. Micros(phase) \in Nat
  BY TimesAreNat
<1>7. counted' \in 0 .. 86
  BY <1>1, <1>4, <1>5, <1>6 DEF Lesser
<1> QED
  BY <1>1, <1>2, <1>3, <1>4, <1>7 DEF NextPhase, Breaks

(* The index to the byte is past the last one only after the last bit.     *)
LEMMA LastBitIs ==
  ASSUME byteInx \in 0 .. 4, bitInx \in 0 .. ByteBits - 1
  PROVE  /\ BitAt \in 0 .. Bits - 1
         /\ LastBit <=> byteInx = 4 /\ bitInx = 0
         /\ LastBit <=> BitAt = Bits - 1
<1> QED BY Sizes DEF BitAt, LastBit

LEMMA ReaderStep == ReaderInv /\ [Next]_vars => ReaderInv'
<1> SUFFICES ASSUME ReaderInv, [Next]_vars PROVE ReaderInv'
  OBVIOUS
<1>1. CASE Begin
  <2>1. /\ wait = "none" /\ result = "none" /\ wait' = "answerLow"
        /\ phase' \in {0, 1, Idle, Shorted} /\ early' \in BOOLEAN
        /\ UNCHANGED <<counted, byteInx, bitInx, dhtData, humidity, temperature, result,
                       sent, aligned, lost>>
    BY <1>1 DEF Begin
  <2>2. phase' \in 0 .. Shorted
    BY <2>1, Sizes
  <2>3. Fresh /\ Fresh' /\ byteInx < 5
    BY <2>1 DEF ReaderInv, Fresh
  <2>4. \A c \in 0 .. 4 : Partial(dhtData'[c], Unread(c)')
    BY <2>1 DEF ReaderInv, Unread
  <2> QED BY <2>1, <2>2, <2>3, <2>4 DEF ReaderInv, Waits
<1>2. CASE Answer \/ LowOver
  <2>1. /\ \/ wait = "answerLow" /\ wait' = "answerHigh"
           \/ wait = "answerHigh" /\ wait' = "bitLow"
           \/ wait = "bitLow" /\ wait' = "bitHigh"
        /\ counted' = 0
        /\ UNCHANGED <<byteInx, bitInx, dhtData, humidity, temperature, result, sent,
                       phase, early, aligned, lost>>
    BY <1>2 DEF Answer, LowOver, Leaves, marks
  <2>2. wait' \in {"answerLow", "answerHigh"} => Fresh'
    BY <2>1 DEF ReaderInv, Fresh
  <2>3. \A c \in 0 .. 4 : Partial(dhtData'[c], Unread(c)')
    BY <2>1 DEF ReaderInv, Unread
  <2> QED BY <2>1, <2>2, <2>3 DEF ReaderInv, Waits
<1>3. CASE TimesOut
  <2>1. /\ wait' = "none" /\ counted' = 0 /\ result' = "TIMEOUT"
        /\ UNCHANGED <<byteInx, bitInx, dhtData, humidity, temperature, sent, phase,
                       early, aligned, lost>>
    BY <1>3 DEF TimesOut, marks
  <2>2. \A c \in 0 .. 4 : Partial(dhtData'[c], Unread(c)')
    BY <2>1 DEF ReaderInv, Unread
  <2> QED BY <2>1, <2>2 DEF ReaderInv, Waits
<1>4. CASE HighOver
  <2> DEFINE b == byteInx
  <2>1. PICK uSec \in 0 .. counted :
          LET bit == Decoded(uSec) IN
          /\ dhtData' = WithBit(bit)
          /\ lost' = (IF bit < SentBit(BitAt) THEN Lesser(2, lost + 1) ELSE lost)
    BY <1>4, HighOverSteps
  <2> DEFINE bit == Decoded(uSec)
  <2>2. bit \in {0, 1}
    BY DEF Decoded
  <2> HIDE DEF bit
  <2>3. b \in 0 .. 4 /\ bitInx \in 0 .. ByteBits - 1 /\ Unread(b) = bitInx + 1
        /\ dhtData \in [0 .. 4 -> Nat] /\ lost \in 0 .. 2
    BY <1>4, HighOverSteps DEF ReaderInv
  <2>4. dhtData' = [dhtData EXCEPT ![b] = @ + bit * Pow2[bitInx]]
    BY <2>1 DEF WithBit, bit
  <2>5. Partial(dhtData[b], bitInx + 1)
    BY <2>3 DEF ReaderInv
  <2>6. Partial(dhtData[b] + bit * Pow2[bitInx], bitInx)
    BY <2>2, <2>3, <2>5, PartialNext
  <2>7. \A c \in 0 .. 4 : Partial(dhtData'[c], Unread(c)')
    <3>1. ASSUME NEW c \in 0 .. 4, c # b PROVE Partial(dhtData'[c], Unread(c)')
      <4>1. dhtData'[c] = dhtData[c] /\ Unread(c)' = Unread(c)
        BY <1>4, <2>3, <2>4, <3>1, HighOverSteps
      <4> QED BY <3>1, <4>1 DEF ReaderInv
    <3>2. ASSUME NEW c \in 0 .. 4, c = b PROVE Partial(dhtData'[c], Unread(c)')
      <4>1. dhtData'[c] = dhtData[b] + bit * Pow2[bitInx] /\ Unread(c)' = bitInx
        BY <1>4, <2>3, <2>4, <3>2, HighOverSteps
      <4> QED BY <2>6, <4>1
    <3> QED BY <3>1, <3>2
  <2>8. dhtData' \in [0 .. 4 -> Nat]
    <3>1. dhtData[b] + bit * Pow2[bitInx] \in Nat
      BY <2>3, <2>6, Highest, PowersPositive, Sizes DEF Partial
    <3> QED BY <2>3, <2>4, <3>1
  <2>9. lost' \in 0 .. 2
    BY <2>1, <2>3 DEF Lesser
  <2>10. /\ byteInx' = (IF bitInx = 0 THEN byteInx + 1 ELSE byteInx)
         /\ bitInx' = (IF bitInx = 0 THEN ByteBits - 1 ELSE bitInx - 1)
         /\ wait = "bitHigh" /\ wait' = (IF LastBit THEN "none" ELSE "bitLow")
         /\ counted' = 0 /\ UNCHANGED <<sent, phase, early>>
    BY <1>4, HighOverSteps
  <2>11. byteInx' \in 0 .. 5 /\ bitInx' \in 0 .. ByteBits - 1 /\ (~LastBit => byteInx' < 5)
    BY <2>3, <2>10, LastBitIs, Sizes
  <2>12. aligned' \in BOOLEAN
    BY <1>4, HighOverSteps DEF ReaderInv
  <2>13. IF LastBit THEN Assign(dhtData') ELSE UNCHANGED <<humidity, temperature, result>>
    BY <1>4, HighOverSteps
  <2>14. result = "none"
    BY <2>10 DEF ReaderInv, Waits
  <2>15. humidity' \in Nat /\ temperature' \in Int
    <3>1. CASE LastBit
      <4>1. Assign(dhtData')
        BY <2>13, <3>1
      <4> QED BY <2>8, <4>1, ValueTypes DEF Assign
    <3>2. CASE ~LastBit
      BY <2>13, <3>2 DEF ReaderInv
    <3> QED BY <3>1, <3>2
  <2>16. result' \in {"none", "OK", "CHECKSUM"} /\ (LastBit <=> result' # "none")
    BY <2>13, <2>14 DEF Assign
  <2> QED
    BY <2>7, <2>8, <2>9, <2>10, <2>11, <2>12, <2>15, <2>16 DEF ReaderInv, Waits
<1>5. CASE NextPhase \/ Breaks
  <2>1. /\ phase' \in 0 .. Shorted /\ counted' \in 0 .. 86
        /\ UNCHANGED <<wait, byteInx, bitInx, dhtData, humidity, temperature, result,
                       sent, early, aligned, lost>>
    BY <1>5, LineSteps DEF marks
  <2>2. \A c \in 0 .. 4 : Partial(dhtData'[c], Unread(c)')
    BY <2>1 DEF ReaderInv, Unread
  <2>3. Fresh => Fresh'
    BY <2>1 DEF Fresh
  <2> QED BY <2>1, <2>2, <2>3 DEF ReaderInv
<1>6. CASE UNCHANGED vars
  <2>1. UNCHANGED <<wait, counted, byteInx, bitInx, dhtData, humidity, temperature, result,
                    sent, phase, early, aligned, lost>>
    BY <1>6 DEF vars, reader, marks
  <2>2. \A c \in 0 .. 4 : Partial(dhtData'[c], Unread(c)')
    BY <2>1 DEF ReaderInv, Unread
  <2>3. Fresh => Fresh'
    BY <2>1 DEF Fresh
  <2> QED BY <2>1, <2>2, <2>3 DEF ReaderInv
<1> QED
  BY <1>1, <1>2, <1>3, <1>4, <1>5, <1>6 DEF Next, readSensor, Reads

LEMMA ValuesStep == ReaderInv /\ ValuesInv /\ [Next]_vars => ValuesInv'
<1> SUFFICES ASSUME ReaderInv, ValuesInv, [Next]_vars PROVE ValuesInv'
  OBVIOUS
<1>1. CASE Begin \/ Answer \/ LowOver
  <2>1. result' = "none"
    BY <1>1 DEF Begin, Answer, LowOver, Leaves, ReaderInv
  <2> QED BY <2>1 DEF ValuesInv
<1>2. CASE TimesOut
  BY <1>2 DEF TimesOut, ValuesInv
<1>3. CASE HighOver
  <2>1. CASE LastBit
    <3>1. wait' = "none" /\ byteInx' = 5
      BY <1>3, <2>1, HighOverSteps, LastBitIs DEF ReaderInv
    <3>2. Assign(dhtData')
      BY <1>3, <2>1, HighOverSteps
    <3> QED BY <3>1, <3>2 DEF Assign, ValuesInv
  <2>2. CASE ~LastBit
    <3>1. result' = result /\ wait = "bitHigh"
      BY <1>3, <2>2, HighOverSteps
    <3>2. result' = "none"
      BY <3>1 DEF ReaderInv
    <3> QED BY <3>2 DEF ValuesInv
  <2> QED BY <2>1, <2>2
<1>4. CASE NextPhase \/ Breaks \/ UNCHANGED vars
  BY <1>4 DEF NextPhase, Breaks, vars, reader, ValuesInv
<1> QED
  BY <1>1, <1>2, <1>3, <1>4 DEF Next, readSensor, Reads

(* The bytes, the indexes and the results stay in the range of their types,
   for bytes of any size and any times of the line.                        *)
THEOREM TypeInvariant == Spec => []TypeOK
<1>1. ReaderInv => TypeOK
  <2> SUFFICES ASSUME ReaderInv PROVE TypeOK
    OBVIOUS
  <2>1. ASSUME NEW c \in 0 .. 4 PROVE dhtData[c] \in Byte
    <3> DEFINE n == Unread(c)
    <3>1. n \in 0 .. ByteBits
      BY Sizes DEF ReaderInv, Unread
    <3>2. Partial(dhtData[c], n)
      BY DEF ReaderInv
    <3> HIDE DEF n
    <3> QED BY <3>1, <3>2, PowersPositive, Highest DEF Partial
  <2>2. dhtData \in [0 .. MAXdhtData - 1 -> Byte]
    BY <2>1 DEF ReaderInv, MAXdhtData
  <2> QED BY <2>2 DEF ReaderInv, TypeOK, MAXdhtData
<1>2. Spec => []ReaderInv
  BY ReaderInit, ReaderStep, PTL DEF Spec
<1> QED
  BY <1>1, <1>2, PTL

-----------------------------------------------------------------------------
(* The reader and the line.                                                *)

(* Where the line is at least, once the sensor answered before the read began.
   The bit the reader is at is not behind it, and when a pulse went by unseen
   it is two phases ahead, for good: the last bit then finds the line idle, or
   shorted before.  A count of a bit's own pulse is no longer than the pulse. *)
Ahead(w, ph, uSec, inStep, bit, pulse) ==
  /\ w = "answerLow" => ph >= 1
  /\ w = "answerHigh" => ph >= 2
  /\ w = "bitLow" => ph >= (IF inStep THEN 3 ELSE 5) + 2 * bit
  /\ w = "bitHigh" =>
       /\ ph >= (IF inStep THEN 4 ELSE 6) + 2 * bit
       /\ ~inStep => ~(ph = Shorted /\ bit = Bits - 1)
       /\ ph = 4 + 2 * bit => uSec = 0
       /\ ph = 5 + 2 * bit \/ (ph = Shorted /\ bit = Bits - 1) => uSec <= pulse

Pulse == Micros(4 + 2 * BitAt)

LineInv ==
  ~early => /\ Ahead(wait, phase, counted, aligned, BitAt, Pulse)
            /\ result \in {"OK", "CHECKSUM"} => aligned

LEMMA PulseKept == ASSUME UNCHANGED <<sent, byteInx, bitInx>>
                   PROVE  BitAt' = BitAt /\ Pulse' = Pulse
<1>1. BitAt' = BitAt
  BY DEF BitAt
<1> QED BY <1>1 DEF Pulse, Micros, SentBit, Sum

LEMMA LineInit == Init => LineInv
BY DEF Init, LineInv, Ahead

LEMMA LineStep == ReaderInv /\ LineInv /\ [Next]_vars => LineInv'
<1> SUFFICES ASSUME ReaderInv, LineInv, [Next]_vars, ~early' PROVE LineInv'
  BY DEF LineInv
<1>0. phase \in 0 .. Shorted /\ counted \in 0 .. 86 /\ aligned \in BOOLEAN
  BY DEF ReaderInv
<1>here. wait # "none" => byteInx \in 0 .. 4 /\ bitInx \in 0 .. ByteBits - 1 /\ BitAt \in 0 .. Bits - 1
  BY LastBitIs DEF ReaderInv
<1>1. CASE Begin
  <2>0. wait' = "answerLow" /\ result' = "none" /\ phase' \in {0, 1, Idle, Shorted}
        /\ early' = (phase' = 0)
    BY <1>1 DEF Begin
  <2>soon. phase' # 0
    BY <2>0
  <2>1. wait' = "answerLow" /\ phase' >= 1 /\ result' = "none"
    BY <2>0, <2>soon, Sizes
  <2>2. \A uSec, inStep, bit, pulse : Ahead(wait', phase', uSec, inStep, bit, pulse)
    BY <2>1 DEF Ahead
  <2> QED BY <2>1, <2>2 DEF LineInv
<1>2. CASE Answer
  <2>1. ~early /\ UNCHANGED <<phase, byteInx, bitInx, aligned, result>>
    BY <1>2 DEF Answer, marks
  <2>2. \/ wait = "answerLow" /\ Level(phase) # 0 /\ wait' = "answerHigh"
        \/ wait = "answerHigh" /\ Level(phase) # 1 /\ wait' = "bitLow"
    BY <1>2, States DEF Answer, Leaves
  <2>3. Fresh /\ result = "none"
    BY <2>2 DEF ReaderInv, Fresh
  <2>4. BitAt' = 0 /\ BitAt = 0 /\ aligned
    BY <2>1, <2>3, Sizes DEF BitAt, Fresh
  <2>5. CASE wait = "answerLow"
    <3>1. phase >= 2
      BY <1>0, <2>1, <2>2, <2>5, Sizes DEF LineInv, Ahead, Level
    <3>2. \A uSec, inStep, bit, pulse : Ahead(wait', phase', uSec, inStep, bit, pulse)
      BY <2>1, <2>2, <2>5, <3>1 DEF Ahead
    <3> QED BY <2>1, <2>3, <3>2 DEF LineInv
  <2>6. CASE wait = "answerHigh"
    <3>1. phase >= 3
      BY <1>0, <2>1, <2>2, <2>6, Sizes DEF LineInv, Ahead, Level
    <3>2. \A uSec, pulse : Ahead(wait', phase', uSec, aligned', 0, pulse)
      BY <2>1, <2>2, <2>4, <2>6, <3>1 DEF Ahead
    <3> QED BY <2>1, <2>3, <2>4, <3>2 DEF LineInv
  <2> QED BY <2>2, <2>5, <2>6
<1>3. CASE LowOver
  <2>1. /\ ~early /\ UNCHANGED <<sent, phase, byteInx, bitInx, aligned, result>>
        /\ wait = "bitLow" /\ Level(phase) # 0 /\ wait' = "bitHigh" /\ counted' = 0
    BY <1>3, States DEF LowOver, Leaves, marks
  <2> DEFINE k == BitAt
  <2>2. BitAt' = k /\ k \in 0 .. Bits - 1 /\ result = "none"
    BY <1>here, <2>1, PulseKept DEF ReaderInv
  <2>3. phase >= (IF aligned THEN 3 ELSE 5) + 2 * k
    BY <2>1 DEF LineInv, Ahead
  <2> HIDE DEF k
  <2>4. phase >= (IF aligned THEN 4 ELSE 6) + 2 * k /\ phase # Shorted
    BY <1>0, <2>1, <2>2, <2>3, Sizes DEF Level
  <2>5. Pulse' = Pulse /\ Pulse \in Nat
    BY <2>1, PulseKept, TimesAreNat DEF Pulse
  <2>6. Ahead(wait', phase', counted', aligned', k, Pulse)
    BY <2>1, <2>2, <2>4, <2>5 DEF Ahead
  <2> QED BY <2>1, <2>2, <2>5, <2>6 DEF LineInv
<1>4. CASE HighOver
  <2> DEFINE k == BitAt
  <2>1. /\ wait = "bitHigh" /\ Level(phase) = 0 /\ UNCHANGED <<phase, early>>
        /\ wait' = (IF LastBit THEN "none" ELSE "bitLow")
        /\ aligned' = (aligned /\ phase \in {5 + 2 * k, Shorted})
    BY <1>4, HighOverSteps
  <2>2. k \in 0 .. Bits - 1 /\ (LastBit <=> k = Bits - 1)
    BY <1>here, <2>1, LastBitIs
  <2>3. /\ phase >= (IF aligned THEN 4 ELSE 6) + 2 * k
        /\ ~aligned => ~(phase = Shorted /\ k = Bits - 1)
    BY <2>1 DEF LineInv, Ahead
  <2>4. CASE LastBit
    <3>1. aligned'
      BY <1>0, <2>1, <2>2, <2>3, <2>4, Sizes DEF Level
    <3>2. \A ph, uSec, inStep, bit, pulse : Ahead(wait', ph, uSec, inStep, bit, pulse)
      BY <2>1, <2>4 DEF Ahead
    <3> QED BY <3>1, <3>2 DEF LineInv
  <2>5. CASE ~LastBit
    <3>1. BitAt' = k + 1
      <4>1. /\ byteInx' = (IF bitInx = 0 THEN byteInx + 1 ELSE byteInx)
            /\ bitInx' = (IF bitInx = 0 THEN ByteBits - 1 ELSE bitInx - 1)
        BY <1>4, HighOverSteps
      <4>2. byteInx \in 0 .. 4 /\ bitInx \in 0 .. ByteBits - 1
        BY <1>here, <2>1
      <4> QED BY <4>1, <4>2, Sizes DEF BitAt
    <3>2. result' = "none"
      BY <1>4, <2>1, <2>5, HighOverSteps DEF ReaderInv
    <3>3. phase >= (IF aligned' THEN 3 ELSE 5) + 2 * (k + 1)
      <4> HIDE DEF k
      <4> QED BY <1>0, <2>1, <2>2, <2>3, Sizes DEF Level
    <3>4. wait' = "bitLow" /\ phase' = phase
      BY <2>1, <2>5
    <3> HIDE DEF k
    <3>5. \A uSec, pulse : Ahead(wait', phase', uSec, aligned', k + 1, pulse)
      BY <3>3, <3>4 DEF Ahead
    <3> QED BY <3>1, <3>2, <3>5 DEF LineInv
  <2> QED BY <2>4, <2>5
<1>5. CASE TimesOut
  <2>1. wait' = "none" /\ result' = "TIMEOUT"
    BY <1>5 DEF TimesOut
  <2>2. \A ph, uSec, inStep, bit, pulse : Ahead(wait', ph, uSec, inStep, bit, pulse)
    BY <2>1 DEF Ahead
  <2> QED BY <2>1, <2>2 DEF LineInv
<1>6. CASE NextPhase \/ Breaks
  <2> DEFINE k == BitAt
  <2>1. /\ wait \in Waits /\ phase < Idle /\ phase' \in 0 .. Shorted
        /\ UNCHANGED <<wait, result, early, aligned>>
        /\ BitAt' = k /\ Pulse' = Pulse /\ result = "none"
    BY <1>6, LineSteps, PulseKept DEF marks, ReaderInv, Waits
  <2>2. \/ phase' = phase + 1
        \/ phase' \in {Idle, Shorted}
    BY <1>6, LineSteps
  <2>3. counted' = (IF Counting THEN Lesser(usTimeOut[wait] + 1, counted + Micros(phase))
                    ELSE counted)
    BY <1>6, LineSteps
  <2>4. k \in 0 .. Bits - 1
    BY <1>here, <2>1 DEF Waits
  <2>5. Ahead(wait, phase, counted, aligned, k, Pulse)
    BY <2>1 DEF LineInv
  <2>pulse. Pulse = Micros(4 + 2 * k)
    BY DEF Pulse
  <2> HIDE DEF k
  <2>6. CASE wait # "bitHigh"
    <3>1. /\ wait = "answerLow" => phase' >= 1
          /\ wait = "answerHigh" => phase' >= 2
          /\ wait = "bitLow" => phase' >= (IF aligned THEN 3 ELSE 5) + 2 * k
      BY <1>0, <2>1, <2>2, <2>4, <2>5, Sizes DEF Ahead
    <3>2. \A uSec, pulse : Ahead(wait', phase', uSec, aligned', k, pulse)
      BY <2>1, <2>6, <3>1 DEF Ahead
    <3> QED BY <2>1, <3>2 DEF LineInv
  <2>7. CASE wait = "bitHigh"
    <3>1. /\ phase >= (IF aligned THEN 4 ELSE 6) + 2 * k
          /\ ~aligned => ~(phase = Shorted /\ k = Bits - 1)
          /\ phase = 4 + 2 * k => counted = 0
          /\ phase = 5 + 2 * k => counted <= Pulse
      BY <2>5, <2>7 DEF Ahead
    <3>2. /\ phase' >= (IF aligned THEN 4 ELSE 6) + 2 * k
          /\ ~aligned => ~(phase' = Shorted /\ k = Bits - 1)
          /\ phase' # 4 + 2 * k
      BY <1>0, <2>1, <2>2, <2>4, <3>1, Sizes
    <3>3. ASSUME phase' = 5 + 2 * k \/ (phase' = Shorted /\ k = Bits - 1)
          PROVE  counted' <= Pulse
      <4>1. phase \in {4 + 2 * k, 5 + 2 * k}
        BY <1>0, <2>1, <2>2, <2>4, <3>1, <3>3, Sizes
      <4>2. Micros(4 + 2 * k) \in Nat /\ Pulse = Micros(4 + 2 * k)
        BY <2>pulse, TimesAreNat
      <4>3. CASE phase = 4 + 2 * k
        BY <2>3, <2>7, <3>1, <4>2, <4>3, TimeOuts DEF Lesser
      <4>4. CASE phase = 5 + 2 * k
        <5>1. ~Counting
          BY <2>4, <2>7, <4>4, Sizes, States DEF Counting, Level
        <5> QED BY <2>3, <3>1, <4>4, <5>1
      <4> QED BY <4>1, <4>3, <4>4
    <3>4. Ahead(wait', phase', counted', aligned', k, Pulse)
      BY <2>1, <2>7, <3>2, <3>3 DEF Ahead
    <3> QED BY <2>1, <3>4 DEF LineInv
  <2> QED BY <2>6, <2>7
<1>7. CASE UNCHANGED vars
  BY <1>7, PulseKept DEF vars, reader, marks, LineInv
<1> QED
  BY <1>1, <1>2, <1>3, <1>4, <1>5, <1>6, <1>7 DEF Next, readSensor, Reads

(* A read that loses whole pulses while the reader is away times out.      *)
THEOREM LostPulsesTimeOutHolds == Spec => []LostPulsesTimeOut
<1>1. ReaderInv /\ LineInv => LostPulsesTimeOut
  BY DEF LineInv, LostPulsesTimeOut, Complete
<1> QED
  BY <1>1, ReaderInit, ReaderStep, LineInit, LineStep, PTL DEF Spec

-----------------------------------------------------------------------------
(* What was read and what was sent.                                        *)

(* The bytes against those of a reader that misread nothing: with n bits sent
   as 1 and read as 0, no value is above its own; with none they are equal, and
   with one a single byte is short, of a single bit.                       *)
Misread(data, right, n) ==
  /\ \A c \in 0 .. 4 : Under(data[c], right[c])
  /\ n = 0 => \A c \in 0 .. 4 : data[c] = right[c]
  /\ n = 1 => \E c \in 0 .. 4 :
                /\ right[c] - data[c] \in 1 .. H
                /\ \A b \in (0 .. 4) \ {c} : data[b] = right[b]

LEMMA BitWeighs == \A n \in 0 .. ByteBits - 1 : Pow2[n] \in 1 .. H
<1>1. H \in Nat /\ \A n \in 0 .. ByteBits - 1 : Pow2[n] <= H
  BY PowersOrdered, Highest DEF H
<1>2. \A n \in 0 .. ByteBits - 1 : Pow2[n] \in Nat \ {0}
  BY Sizes, PowersPositive
<1> QED BY <1>1, <1>2

(* A byte with a bit of the weight given, and the bits misread with this one. *)
Added(bytes, b, weight) == [bytes EXCEPT ![b] = @ + weight]
Recount(misread, bit, sentBit) ==
  IF bit < sentBit THEN Lesser(2, misread + 1) ELSE misread

LEMMA MisreadNext ==
  ASSUME NEW data \in [0 .. 4 -> Nat], NEW right \in [0 .. 4 -> Nat], NEW b \in 0 .. 4,
         NEW n \in 0 .. ByteBits - 1, NEW misread \in 0 .. 2, Misread(data, right, misread),
         Partial(data[b], n + 1), Partial(right[b], n + 1),
         NEW bit \in {0, 1}, NEW sentBit \in {0, 1}, bit <= sentBit
  PROVE  Misread(Added(data, b, bit * Pow2[n]), Added(right, b, sentBit * Pow2[n]),
                 Recount(misread, bit, sentBit))
<1> USE DEF Added, Recount
<1> DEFINE data2 == Added(data, b, bit * Pow2[n])
<1> DEFINE right2 == Added(right, b, sentBit * Pow2[n])
<1> DEFINE misread2 == Recount(misread, bit, sentBit)
<1>1. Pow2[n] \in 1 .. H
  BY BitWeighs
<1>2. /\ data2[b] = data[b] + bit * Pow2[n] /\ right2[b] = right[b] + sentBit * Pow2[n]
      /\ \A c \in 0 .. 4 : c # b => data2[c] = data[c] /\ right2[c] = right[c]
  OBVIOUS
<1>3. ASSUME NEW c \in 0 .. 4 PROVE data[c] \in Nat /\ right[c] \in Nat
  OBVIOUS
<1>4. Under(data2[b], right2[b])
  <2>1. Under(data[b], right[b])
    BY DEF Misread
  <2> HIDE DEF data2, right2
  <2> QED BY <1>2, <2>1, UnderNext
<1> HIDE DEF data2, right2
<1>5. \A c \in 0 .. 4 : Under(data2[c], right2[c])
  BY <1>2, <1>4 DEF Misread
<1>6. CASE bit = sentBit
  <2>1. misread2 = misread
    BY <1>6
  <2>2. right2[b] - data2[b] = right[b] - data[b] /\ (data2[b] = right2[b] <=> data[b] = right[b])
    <3>1. \A x, y, z \in Nat : /\ (x + z) - (y + z) = x - y
                               /\ (x + z) = (y + z) <=> x = y
      OBVIOUS
    <3>2. bit * Pow2[n] \in Nat
      BY <1>1
    <3> QED BY <1>2, <1>3, <1>6, <3>1, <3>2
  <2>3. \A c \in 0 .. 4 : /\ right2[c] - data2[c] = right[c] - data[c]
                          /\ data2[c] = right2[c] <=> data[c] = right[c]
    BY <1>2, <2>2
  <2>4. misread = 0 => \A c \in 0 .. 4 : data2[c] = right2[c]
    BY <2>3 DEF Misread
  <2>5. ASSUME misread = 1
        PROVE  \E c \in 0 .. 4 : /\ right2[c] - data2[c] \in 1 .. H
                                 /\ \A d \in (0 .. 4) \ {c} : data2[d] = right2[d]
    <3>1. PICK c \in 0 .. 4 : /\ right[c] - data[c] \in 1 .. H
                              /\ \A d \in (0 .. 4) \ {c} : data[d] = right[d]
      BY <2>5 DEF Misread
    <3>2. right2[c] - data2[c] \in 1 .. H
      BY <2>3, <3>1
    <3>3. \A d \in (0 .. 4) \ {c} : data2[d] = right2[d]
      BY <2>3, <3>1
    <3> QED BY <3>2, <3>3
  <2>6. Misread(data2, right2, misread)
    BY <1>5, <2>4, <2>5 DEF Misread
  <2> HIDE DEF misread2
  <2>7. Misread(data2, right2, misread2)
    BY <2>1, <2>6
  <2> QED BY <2>7 DEF data2, right2, misread2
<1>7. CASE bit = 0 /\ sentBit = 1
  <2>1. misread2 = IF misread = 0 THEN 1 ELSE 2
    BY <1>7 DEF Lesser
  <2>2. data2[b] = data[b] /\ right2[b] = right[b] + Pow2[n]
    BY <1>1, <1>2, <1>3, <1>7
  <2>3. ASSUME misread = 0
        PROVE  /\ right2[b] - data2[b] \in 1 .. H
               /\ \A d \in (0 .. 4) \ {b} : data2[d] = right2[d]
    <3>1. \A c \in 0 .. 4 : data[c] = right[c]
      BY <2>3 DEF Misread
    <3>2. right2[b] - data2[b] = Pow2[n]
      <4>1. \A x, y \in Nat : (x + y) - x = y
        OBVIOUS
      <4> QED BY <1>1, <1>3, <2>2, <3>1, <4>1
    <3> QED BY <1>1, <1>2, <3>1, <3>2
  <2>4. CASE misread = 0
    <3>1. misread2 = 1
      BY <2>1, <2>4
    <3> HIDE DEF misread2
    <3>2. Misread(data2, right2, misread2)
      BY <1>5, <2>3, <2>4, <3>1 DEF Misread
    <3> QED BY <3>2 DEF data2, right2, misread2
  <2>5. CASE misread # 0
    <3>1. misread2 = 2
      BY <2>1, <2>5
    <3> HIDE DEF misread2
    <3>2. Misread(data2, right2, misread2)
      BY <1>5, <3>1 DEF Misread
    <3> QED BY <3>2 DEF data2, right2, misread2
  <2> QED BY <2>4, <2>5
<1> QED BY <1>6, <1>7

(* The bytes the sensor sends, the sum included, as far as they are read.  *)
SentByte(c) == IF c = 4 THEN Sum(sent) ELSE sent[c]
Right == [c \in 0 .. 4 |-> Prefix(SentByte(c), Unread(c))]

(* Nothing spoils the read any more but what the sum has to tell.          *)
Live ==
  /\ ~early /\ aligned /\ result # "TIMEOUT"
  /\ ~(wait = "bitLow" /\ phase = Shorted)

BytesInv == Live => Misread(dhtData, Right, lost)

LEMMA SentByteIsByte == ASSUME sent \in Frames, NEW c \in 0 .. 4 PROVE SentByte(c) \in Byte
<1>1. CASE c = 4
  BY <1>1, SentBytes DEF SentByte
<1>2. CASE c # 4
  <2>1. c \in 0 .. 3
    BY <1>2
  <2> QED BY <1>2, <2>1, SentBytes DEF SentByte
<1> QED BY <1>1, <1>2

LEMMA FreshBytes == ASSUME sent \in Frames, Fresh PROVE Misread(dhtData, Right, 0)
<1>1. ASSUME NEW c \in 0 .. 4 PROVE dhtData[c] = 0 /\ Right[c] = 0
  <2>1. Unread(c) = ByteBits
    BY Sizes DEF Fresh, Unread
  <2>2. Prefix(SentByte(c), ByteBits) = 0
    BY SentByteIsByte, PrefixFull
  <2> QED BY <2>1, <2>2 DEF Fresh, Right, MAXdhtData
<1>2. Under(0, 0)
  BY Highest DEF Under, Low
<1> QED BY <1>1, <1>2 DEF Misread

(* A bit that was counted in its own pulse is not read as 1 when it is a 0. *)
LEMMA PulseIs ==
  ASSUME NEW k \in 0 .. Bits - 1
  PROVE  Micros(4 + 2 * k) = IF SentBit(k) = 1 THEN OneHigh ELSE ZeroHigh
<1> DEFINE p == 4 + 2 * k
<1>1. p \in Nat /\ p # Idle /\ p # Shorted /\ p > 2 /\ p % 2 # 1 /\ (p - 4) \div 2 = k
  BY Sizes
<1> HIDE DEF p
<1>2. Micros(p) = IF SentBit((p - 4) \div 2) = 1 THEN OneHigh ELSE ZeroHigh
  BY <1>1 DEF Micros
<1> QED BY <1>1, <1>2 DEF p

LEMMA NeverTooMuch ==
  ASSUME NEW k \in 0 .. Bits - 1, NEW uSec \in Nat, uSec <= Micros(4 + 2 * k)
  PROVE  Decoded(uSec) = 1 => SentBit(k) = 1
BY PulseIs, SensorAssumption, ZeroAssumption DEF SensorAssumption, ZeroAssumption, Decoded


LEMMA BytesInit == ReaderInv /\ Init => BytesInv
<1> SUFFICES ASSUME ReaderInv, Init PROVE Misread(dhtData, Right, lost)
  BY DEF BytesInv
<1>1. Fresh /\ lost = 0
  BY DEF ReaderInv, Init, Fresh
<1> QED BY <1>1, FreshBytes DEF ReaderInv

LEMMA BytesKept == ASSUME BytesInv, Live, UNCHANGED <<dhtData, byteInx, bitInx, sent, lost>>
                   PROVE  BytesInv'
<1>1. Right' = Right
  <2>1. \A c \in 0 .. 4 : Unread(c)' = Unread(c) /\ SentByte(c)' = SentByte(c)
    BY DEF Unread, SentByte, Sum
  <2> QED BY <2>1 DEF Right, Prefix
<1>2. Misread(dhtData, Right, lost)
  BY DEF BytesInv
<1> QED BY <1>1, <1>2 DEF BytesInv

LEMMA BytesStep ==
  ReaderInv /\ ReaderInv' /\ LineInv /\ BytesInv /\ [Next]_vars => BytesInv'
<1> SUFFICES ASSUME ReaderInv, ReaderInv', LineInv, BytesInv, [Next]_vars, Live'
             PROVE  BytesInv'
  BY DEF BytesInv
<1>1. CASE Begin
  <2>1. Fresh /\ lost = 0 /\ UNCHANGED <<dhtData, byteInx, bitInx, sent, lost>>
    BY <1>1 DEF Begin, ReaderInv, Fresh
  <2>2. Misread(dhtData, Right, 0)
    BY <2>1, FreshBytes DEF ReaderInv
  <2>3. Right' = Right
    <3>1. \A c \in 0 .. 4 : Unread(c)' = Unread(c) /\ SentByte(c)' = SentByte(c)
      BY <2>1 DEF Unread, SentByte, Sum
    <3> QED BY <3>1 DEF Right, Prefix
  <2> QED BY <2>1, <2>2, <2>3 DEF BytesInv
<1>2. CASE Answer \/ LowOver
  <2>1. UNCHANGED <<dhtData, byteInx, bitInx, sent, lost, early, aligned, result, phase>>
    BY <1>2 DEF Answer, LowOver, marks
  <2>2. ~(wait = "bitLow" /\ phase = Shorted)
    BY <1>2, Sizes, States DEF Answer, LowOver, Leaves, Level
  <2>3. Live
    BY <2>1, <2>2 DEF Live
  <2> QED BY <2>1, <2>3, BytesKept
<1>3. CASE HighOver
  <2> DEFINE k == BitAt
  <2> DEFINE b == byteInx
  <2> DEFINE n == bitInx
  <2> DEFINE sentBit == BitOf(SentByte(b), n)
  <2>1. PICK uSec \in 0 .. counted :
          LET bit == Decoded(uSec) IN
          /\ dhtData' = WithBit(bit)
          /\ lost' = (IF bit < SentBit(BitAt) THEN Lesser(2, lost + 1) ELSE lost)
    BY <1>3, HighOverSteps
  <2> DEFINE bit == Decoded(uSec)
  <2>2. /\ wait = "bitHigh" /\ b \in 0 .. 4 /\ n \in 0 .. ByteBits - 1
        /\ k \in 0 .. Bits - 1 /\ (LastBit <=> k = Bits - 1) /\ uSec \in Nat
        /\ uSec <= counted /\ sent \in Frames /\ dhtData \in [0 .. 4 -> Nat]
        /\ lost \in 0 .. 2 /\ counted \in 0 .. 86
    BY <1>3, <2>1, HighOverSteps, LastBitIs DEF ReaderInv
  <2>3. ~early /\ aligned /\ phase \in {5 + 2 * k, Shorted} /\ (phase = Shorted => LastBit)
        /\ result = "none"
    <3>1. /\ wait' = (IF LastBit THEN "none" ELSE "bitLow") /\ UNCHANGED <<phase, early>>
          /\ aligned' = (aligned /\ phase \in {5 + 2 * k, Shorted})
      BY <1>3, HighOverSteps
    <3>2. result = "none"
      BY <2>2 DEF ReaderInv
    <3> QED BY <3>1, <3>2 DEF Live
  <2>4. uSec <= Micros(4 + 2 * k)
    <3>1. counted <= Pulse
      BY <2>2, <2>3 DEF LineInv, Ahead
    <3>2. Pulse = Micros(4 + 2 * k) /\ Pulse \in Nat
      BY TimesAreNat DEF Pulse
    <3> HIDE DEF k
    <3> QED BY <2>2, <3>1, <3>2
  <2>5. SentBit(k) = sentBit
    <3>1. k \div ByteBits = b /\ ByteBits - 1 - (k % ByteBits) = n
      BY <2>2, BitPlace DEF BitAt
    <3> QED BY <3>1 DEF SentBit, SentByte
  <2>6. SentByte(b) \in Byte
    BY <2>2, SentByteIsByte
  <2>7. sentBit \in {0, 1} /\ bit \in {0, 1}
    BY <2>2, <2>6, PrefixNext DEF Decoded
  <2>8. bit <= sentBit
    <3>1. bit = 1 => sentBit = 1
      <4> HIDE DEF k, sentBit
      <4> QED BY <2>2, <2>4, <2>5, NeverTooMuch
    <3> HIDE DEF bit, sentBit
    <3> QED BY <2>7, <3>1
  <2>9. Misread(dhtData, Right, lost)
    BY <2>2, <2>3 DEF BytesInv, Live
  <2>10. Unread(b) = n + 1 /\ Right \in [0 .. 4 -> Nat]
         /\ Right[b] = Prefix(SentByte(b), n + 1)
    <3>1. Unread(b) = n + 1
      BY <1>3, HighOverSteps
    <3>2. ASSUME NEW c \in 0 .. 4 PROVE Prefix(SentByte(c), Unread(c)) \in Nat
      <4>1. Unread(c) \in 0 .. ByteBits
        BY Sizes DEF ReaderInv, Unread
      <4>2. Partial(Prefix(SentByte(c), Unread(c)), Unread(c))
        BY <2>2, <4>1, SentByteIsByte, PrefixPartial
      <4> QED BY <4>1, <4>2, Highest, PowersPositive DEF Partial
    <3> QED BY <2>2, <3>1, <3>2 DEF Right
  <2>11. Partial(dhtData[b], n + 1) /\ Partial(Right[b], n + 1)
    <3>1. Partial(dhtData[b], Unread(b))
      BY <2>2 DEF ReaderInv
    <3>2. Partial(Prefix(SentByte(b), n + 1), n + 1)
      BY <2>2, <2>6, Sizes, PrefixPartial
    <3> QED BY <2>10, <3>1, <3>2
  <2> DEFINE right2 == Added(Right, b, sentBit * Pow2[n])
  <2>12. Right' = right2
    <3>1. Prefix(SentByte(b), n) = Right[b] + sentBit * Pow2[n]
      BY <2>2, <2>6, <2>10, PrefixNext
    <3>2. \A c \in 0 .. 4 : SentByte(c)' = SentByte(c)
      <4>1. sent' = sent
        BY <1>3, HighOverSteps
      <4> QED BY <4>1 DEF SentByte, Sum
    <3>3. ASSUME NEW c \in 0 .. 4 PROVE Right'[c] = right2[c]
      <4>1. Right'[c] = Prefix(SentByte(c), Unread(c)')
        BY <3>2 DEF Right, Prefix
      <4>2. CASE c = b
        <5>1. Unread(c)' = n
          BY <1>3, <2>2, <4>2, HighOverSteps
        <5> HIDE DEF sentBit
        <5> QED BY <2>2, <2>10, <3>1, <4>1, <4>2, <5>1 DEF Added
      <4>3. CASE c # b
        <5>1. Unread(c)' = Unread(c)
          BY <1>3, <4>3, HighOverSteps
        <5>2. right2[c] = Right[c]
          BY <2>10, <4>3 DEF Added
        <5> QED BY <4>1, <5>1, <5>2 DEF Right
      <4> QED BY <4>2, <4>3
    <3>4. Right' = [c \in 0 .. 4 |-> Right'[c]] /\ right2 = [c \in 0 .. 4 |-> right2[c]]
      BY <2>10 DEF Right, Added
    <3> HIDE DEF right2
    <3> QED BY <3>3, <3>4
  <2>13. dhtData' = Added(dhtData, b, bit * Pow2[n])
    BY <2>1 DEF WithBit, Added
  <2>14. lost' = Recount(lost, bit, sentBit)
    BY <2>1, <2>5 DEF Recount
  <2> HIDE DEF k, b, n, bit, sentBit
  <2>15. Misread(Added(dhtData, b, bit * Pow2[n]), right2, Recount(lost, bit, sentBit))
    <3>1. b \in 0 .. 4 /\ n \in 0 .. ByteBits - 1 /\ lost \in 0 .. 2
          /\ dhtData \in [0 .. 4 -> Nat] /\ Right \in [0 .. 4 -> Nat]
      BY <2>2, <2>10
    <3> QED BY <2>7, <2>8, <2>9, <2>11, <3>1, MisreadNext
  <2>16. Misread(dhtData', right2, lost')
    BY <2>13, <2>14, <2>15
  <2> QED BY <2>12, <2>16 DEF BytesInv
<1>4. CASE TimesOut
  BY <1>4 DEF TimesOut, Live
<1>5. CASE NextPhase \/ Breaks
  <2>1. UNCHANGED <<dhtData, byteInx, bitInx, sent, lost, early, aligned, result>>
        /\ phase < Idle
    BY <1>5, LineSteps DEF marks
  <2>2. phase # Shorted
    BY <2>1, Sizes DEF ReaderInv
  <2>3. Live
    BY <2>1, <2>2 DEF Live
  <2> QED BY <2>1, <2>3, BytesKept
<1>6. CASE UNCHANGED vars
  <2>1. UNCHANGED <<dhtData, byteInx, bitInx, sent, lost>> /\ Live
    BY <1>6 DEF vars, reader, marks, Live
  <2> QED BY <2>1, BytesKept
<1> QED
  BY <1>1, <1>2, <1>3, <1>4, <1>5, <1>6 DEF Next, readSensor, Reads


(* The reader has got through: every bit is read.                          *)
LEMMA AllRead ==
  ASSUME ReaderInv, ValuesInv, LineInv, BytesInv, Complete
  PROVE  /\ Misread(dhtData, [c \in 0 .. 4 |-> SentByte(c)], lost)
         /\ sent \in Frames /\ dhtData \in [0 .. 4 -> Nat]
<1>1. ~early /\ aligned /\ result \in {"OK", "CHECKSUM"}
  BY DEF Complete, LineInv
<1>2. wait = "none" /\ byteInx = 5 /\ sent \in Frames /\ dhtData \in [0 .. 4 -> Nat]
  BY <1>1 DEF ValuesInv, ReaderInv
<1>3. Misread(dhtData, Right, lost)
  BY <1>1, <1>2 DEF BytesInv, Live
<1>4. ASSUME NEW c \in 0 .. 4 PROVE Prefix(SentByte(c), Unread(c)) = SentByte(c)
  BY <1>2, SentByteIsByte, PrefixNone DEF Unread
<1>5. Right = [c \in 0 .. 4 |-> SentByte(c)]
  BY <1>4 DEF Right
<1> QED BY <1>2, <1>3, <1>5

(* A read in which one bit was misread is never returned as good, whichever
   of the five bytes the bit is of.                                        *)
THEOREM OneMisreadIsReportedHolds == Spec => []OneMisreadIsReported
<1>1. ASSUME ReaderInv, ValuesInv, LineInv, BytesInv
      PROVE  OneMisreadIsReported
  <2>0. lost \in 0 .. 2
    BY <1>1 DEF ReaderInv
  <2>1. SUFFICES ASSUME result = "OK", ~early, lost = 1 PROVE FALSE
    BY <2>0 DEF OneMisreadIsReported
  <2> DEFINE right == [c \in 0 .. 4 |-> SentByte(c)]
  <2>2. Misread(dhtData, right, 1) /\ sent \in Frames /\ dhtData \in [0 .. 4 -> Nat]
    BY <1>1, <2>1, AllRead DEF Complete
  <2>3. PICK c \in 0 .. 4 : /\ right[c] - dhtData[c] \in 1 .. H
                            /\ \A b \in (0 .. 4) \ {c} : dhtData[b] = right[b]
    BY <2>2 DEF Misread
  <2>4. dhtData[4] = Sum(dhtData)
    BY <1>1, <2>1 DEF ValuesInv, ChecksumOK
  <2>5. /\ right[0] = sent[0] /\ right[1] = sent[1] /\ right[2] = sent[2]
        /\ right[3] = sent[3] /\ right[4] = Sum(sent)
    BY DEF SentByte
  <2>6. ASSUME NEW b \in 0 .. 4 PROVE right[b] \in Nat /\ dhtData[b] \in Nat
    BY <2>2, SentByteIsByte, Highest
  <2> HIDE DEF right
  <2>7. CASE c = 4
    <3>1. dhtData[0] = sent[0] /\ dhtData[1] = sent[1] /\ dhtData[2] = sent[2]
          /\ dhtData[3] = sent[3]
      BY <2>3, <2>5, <2>7
    <3>2. Sum(dhtData) = Sum(sent)
      BY <3>1 DEF Sum
    <3> QED BY <2>3, <2>4, <2>5, <2>6, <2>7, <3>2
  <2>8. CASE c # 4
    <3> DEFINE a == sent[0] + sent[1] + sent[2] + sent[3]
    <3> DEFINE d == dhtData[0] + dhtData[1] + dhtData[2] + dhtData[3]
    <3> DEFINE e == right[c] - dhtData[c]
    <3>1. c \in {0, 1, 2, 3} /\ e \in 1 .. H
      BY <2>3, <2>8
    <3>2. \A b \in 0 .. 3 : dhtData[b] = IF b = c THEN right[b] - e ELSE right[b]
      BY <2>3, <2>6, <3>1
    <3>3. a \in Nat /\ e <= a /\ d = a - e
      <4>1. right[0] \in Nat /\ right[1] \in Nat /\ right[2] \in Nat /\ right[3] \in Nat
            /\ dhtData[0] \in Nat /\ dhtData[1] \in Nat /\ dhtData[2] \in Nat /\ dhtData[3] \in Nat
        BY <2>6
      <4>2. /\ dhtData[0] = IF 0 = c THEN right[0] - e ELSE right[0]
            /\ dhtData[1] = IF 1 = c THEN right[1] - e ELSE right[1]
            /\ dhtData[2] = IF 2 = c THEN right[2] - e ELSE right[2]
            /\ dhtData[3] = IF 3 = c THEN right[3] - e ELSE right[3]
        BY <3>2
      <4> HIDE DEF e
      <4>3. e \in Nat
        BY <3>1, Highest
      <4> QED BY <2>5, <3>1, <4>1, <4>2, <4>3
    <3> HIDE DEF a, d, e
    <3>4. M \in Nat \ {0} /\ e \in 1 .. M - 1
      BY <3>1, Highest
    <3>5. (a - e) % M # a % M
      BY <3>3, <3>4, SumsDiffer
    <3>6. Sum(dhtData) = d % M /\ Sum(sent) = a % M
      BY DEF Sum, M, a, d
    <3>7. dhtData[4] = Sum(sent)
      BY <2>3, <2>5, <2>8
    <3> QED BY <2>4, <3>3, <3>5, <3>6, <3>7
  <2> QED BY <2>7, <2>8
<1>2. ReaderInv /\ ValuesInv /\ LineInv /\ BytesInv => OneMisreadIsReported
  BY <1>1
<1> QED
  BY <1>2, ReaderInit, ReaderStep, ValuesStep, LineInit, LineStep, BytesInit, BytesStep,
     PTL DEF Spec

(* The values a read leaves are never above what was sent, and below zero it
   errs towards zero or past it.                                           *)
THEOREM NeverMoreThanSentHolds == Spec => []NeverMoreThanSent
<1>1. ASSUME ReaderInv, ValuesInv, LineInv, BytesInv
      PROVE  NeverMoreThanSent
  <2>1. SUFFICES ASSUME Complete
                 PROVE  /\ humidity \in 0 .. Humidity(sent)
                        /\ temperature \in -Magnitude(sent) .. Magnitude(sent)
                        /\ temperature < 0 => Negative(sent)
    BY DEF NeverMoreThanSent
  <2>2. sent \in Frames /\ dhtData \in [0 .. 4 -> Nat]
        /\ \A c \in 0 .. 4 : Under(dhtData[c], SentByte(c))
    BY <1>1, <2>1, AllRead DEF Misread
  <2>3. ASSUME NEW c \in 0 .. 3
        PROVE  dhtData[c] \in Nat /\ sent[c] \in 0 .. 2 * H - 1 /\ Under(dhtData[c], sent[c])
    BY <2>2, SentBytes, Highest DEF SentByte
  <2>4. H \in Nat \ {0} /\ M \in Nat \ {0}
    BY Highest
  <2>5. humidity = Humidity(dhtData)
        /\ temperature = (IF Negative(dhtData) THEN -Magnitude(dhtData) ELSE Magnitude(dhtData))
    BY <1>1, <2>1 DEF ValuesInv, Complete
  <2> DEFINE Word(x, y) == x * M + y
  <2>6. ASSUME NEW x \in Nat, NEW y \in Nat, NEW z \in Nat, NEW w \in Nat, x <= z, y <= w
        PROVE  Word(x, y) \in 0 .. Word(z, w) /\ Word(z, w) \in Nat
    <3>1. z * M - x * M = (z - x) * M /\ (z - x) * M >= 0
      BY <2>4, <2>6
    <3>2. x * M \in Nat /\ z * M \in Nat
      BY <2>4
    <3> QED BY <2>6, <3>1, <3>2
  <2>7. dhtData[0] <= sent[0] /\ dhtData[1] <= sent[1] /\ dhtData[3] <= sent[3]
    BY <2>3 DEF Under
  <2>8. humidity \in 0 .. Humidity(sent)
    <3>1. /\ dhtData[0] \in Nat /\ dhtData[1] \in Nat /\ sent[0] \in Nat /\ sent[1] \in Nat
      BY <2>3, <2>4
    <3>2. Humidity(dhtData) = Word(dhtData[0], dhtData[1])
          /\ Humidity(sent) = Word(sent[0], sent[1])
      BY DEF Humidity, M
    <3> HIDE DEF Word
    <3>3. Word(dhtData[0], dhtData[1]) \in 0 .. Word(sent[0], sent[1])
      BY <2>6, <2>7, <3>1
    <3> QED BY <2>5, <3>2, <3>3
  <2>9. ASSUME NEW v \in 0 .. 2 * H - 1 PROVE v % H = Low(v) /\ Low(v) \in Nat
    <3>1. CASE v >= H
      <4>1. v - H \in 0 .. H - 1 /\ H * 1 + (v - H) = v
        BY <2>4, <3>1
      <4>2. (H * 1 + (v - H)) % H = v - H
        BY <2>4, <4>1, DivUnique
      <4> QED BY <3>1, <4>1, <4>2 DEF Low
    <3>2. CASE v < H
      <4>1. v \in 0 .. H - 1 /\ H * 0 + v = v
        BY <2>4, <3>2
      <4>2. (H * 0 + v) % H = v
        BY <2>4, <4>1, DivUnique
      <4> QED BY <2>4, <3>2, <4>1, <4>2 DEF Low
    <3> QED BY <2>4, <3>1, <3>2
  <2>10. dhtData[2] % H <= sent[2] % H /\ dhtData[2] % H \in Nat /\ sent[2] % H \in Nat
    <3>1. Under(dhtData[2], sent[2]) /\ dhtData[2] \in Nat /\ sent[2] \in 0 .. 2 * H - 1
      BY <2>3
    <3>2. dhtData[2] \in 0 .. 2 * H - 1
      BY <2>4, <3>1 DEF Under
    <3>3. Low(dhtData[2]) <= Low(sent[2])
      BY <3>1 DEF Under
    <3> QED BY <2>9, <3>1, <3>2, <3>3
  <2>11. Magnitude(dhtData) \in 0 .. Magnitude(sent) /\ Magnitude(sent) \in Nat
    <3>1. dhtData[3] \in Nat /\ sent[3] \in Nat
      BY <2>3, <2>4
    <3>2. /\ Magnitude(dhtData) = Word(dhtData[2] % H, dhtData[3])
          /\ Magnitude(sent) = Word(sent[2] % H, sent[3])
      BY DEF Magnitude, H, M
    <3> HIDE DEF Word
    <3>3. Word(dhtData[2] % H, dhtData[3]) \in 0 .. Word(sent[2] % H, sent[3])
          /\ Word(sent[2] % H, sent[3]) \in Nat
      BY <2>6, <2>7, <2>10, <3>1
    <3> QED BY <3>2, <3>3
  <2>12. Negative(dhtData) => Negative(sent)
    BY <2>3 DEF Under, Negative, H
  <2>13. temperature \in -Magnitude(sent) .. Magnitude(sent)
    BY <2>5, <2>11
  <2>14. temperature < 0 => Negative(sent)
    BY <2>5, <2>11, <2>12
  <2> QED BY <2>8, <2>13, <2>14
<1>2. ReaderInv /\ ValuesInv /\ LineInv /\ BytesInv => NeverMoreThanSent
  BY <1>1
<1> QED
  BY <1>2, ReaderInit, ReaderStep, ValuesStep, LineInit, LineStep, BytesInit, BytesStep,
     PTL DEF Spec

-----------------------------------------------------------------------------
(* Why a read ends: what is left of it.                                    *)

(* The loops the reader has still to leave.                                *)
Left ==
  CASE wait = "none"       -> 0
    [] wait = "answerLow"  -> 2 * (Bits - BitAt) + 2
    [] wait = "answerHigh" -> 2 * (Bits - BitAt) + 1
    [] wait = "bitLow"     -> 2 * (Bits - BitAt)
    [] wait = "bitHigh"    -> 2 * (Bits - BitAt) - 1

(* In each loop the reader is either out of it, or has counted too much, or
   the line has still somewhere to go.                                     *)
SomeoneMoves ==
  wait # "none" => \/ Level(phase) # State[wait]
                   \/ counted + Micros(phase) > usTimeOut[wait]
                   \/ phase < Idle

LEMMA LeftIsNat ==
  ReaderInv => Left \in Nat /\ (Left = 0 <=> wait = "none")
<1> SUFFICES ASSUME ReaderInv PROVE Left \in Nat /\ (Left = 0 <=> wait = "none")
  OBVIOUS
<1>1. wait \in Waits \cup {"none"}
      /\ (wait # "none" => byteInx \in 0 .. 4 /\ bitInx \in 0 .. ByteBits - 1)
  BY DEF ReaderInv
<1>2. wait # "none" => BitAt \in 0 .. Bits - 1
  BY <1>1, LastBitIs
<1>3. Bits \in Nat
  BY Sizes
<1> HIDE DEF BitAt, Bits
<1> QED BY <1>1, <1>2, <1>3 DEF Left, Waits

(* Every step of a read leaves one of finitely many loops for good, and the
   line, between two of them, only goes on; until the read has ended, one of
   them can always move.  So it ends, if both have their turns.            *)
THEOREM ReadGetsOn ==
  Spec => [](Left \in Nat /\ SomeoneMoves)
          /\ [][/\ Reads => Left' < Left
                /\ NextPhase \/ Breaks => Left' = Left /\ phase' > phase]_vars
<1>1. ReaderInv => Left \in Nat /\ SomeoneMoves
  <2> SUFFICES ASSUME ReaderInv, wait # "none", ~(phase < Idle)
               PROVE  counted + Micros(phase) > usTimeOut[wait]
    BY LeftIsNat DEF SomeoneMoves
  <2>1. phase \in {Idle, Shorted} /\ wait \in Waits /\ counted \in 0 .. 86
    BY Sizes DEF ReaderInv
  <2>2. Micros(phase) = 86
    BY <2>1, TimeOuts, Sizes DEF Micros
  <2> QED BY <2>1, <2>2, TimeOuts DEF Waits
<1>2. ReaderInv /\ ReaderInv' /\ [Next]_vars =>
        [/\ Reads => Left' < Left
         /\ NextPhase \/ Breaks => Left' = Left /\ phase' > phase]_vars
  <2> SUFFICES ASSUME ReaderInv, ReaderInv', Next
               PROVE  /\ Reads => Left' < Left
                      /\ NextPhase \/ Breaks => Left' = Left /\ phase' > phase
    OBVIOUS
  <2>0. Left \in Nat /\ Left' \in Nat /\ (Left = 0 <=> wait = "none")
        /\ (Left' = 0 <=> wait' = "none")
    <3>1. Left \in Nat /\ (Left = 0 <=> wait = "none")
      BY LeftIsNat
    <3>2. (ReaderInv => Left \in Nat /\ (Left = 0 <=> wait = "none"))'
      BY LeftIsNat, PTL
    <3> QED BY <3>1, <3>2
  <2>1. CASE Answer \/ LowOver
    <3>1. /\ \/ wait = "answerLow" /\ wait' = "answerHigh"
             \/ wait = "answerHigh" /\ wait' = "bitLow"
             \/ wait = "bitLow" /\ wait' = "bitHigh"
          /\ UNCHANGED <<byteInx, bitInx>>
      BY <2>1 DEF Answer, LowOver, Leaves
    <3>2. BitAt' = BitAt /\ BitAt \in 0 .. Bits - 1 /\ Bits \in Nat
      BY <3>1, LastBitIs, Sizes DEF BitAt, ReaderInv
    <3> HIDE DEF BitAt, Bits
    <3>3. Left' < Left
      BY <3>1, <3>2 DEF Left
    <3>4. ~(NextPhase \/ Breaks)
      BY <3>1 DEF NextPhase, Breaks
    <3> QED BY <3>3, <3>4
  <2>2. CASE HighOver
    <3>1. /\ wait = "bitHigh" /\ byteInx \in 0 .. 4 /\ bitInx \in 0 .. ByteBits - 1
          /\ wait' = (IF LastBit THEN "none" ELSE "bitLow")
          /\ byteInx' = (IF bitInx = 0 THEN byteInx + 1 ELSE byteInx)
          /\ bitInx' = (IF bitInx = 0 THEN ByteBits - 1 ELSE bitInx - 1)
      BY <2>2, HighOverSteps DEF ReaderInv
    <3>2. BitAt' = BitAt + 1
      BY <3>1, Sizes DEF BitAt
    <3>3. BitAt \in 0 .. Bits - 1 /\ Bits \in Nat
      BY <3>1, LastBitIs, Sizes
    <3> HIDE DEF BitAt, Bits
    <3>4. Left' < Left
      BY <2>0, <3>1, <3>2, <3>3 DEF Left
    <3>5. ~(NextPhase \/ Breaks)
      BY <3>1 DEF NextPhase, Breaks
    <3> QED BY <3>4, <3>5
  <2>3. CASE TimesOut
    <3>1. wait # "none" /\ wait' = "none"
      BY <2>3 DEF TimesOut, Counting
    <3>2. Left' < Left
      BY <2>0, <3>1
    <3>3. ~(NextPhase \/ Breaks)
      BY <3>1 DEF NextPhase, Breaks
    <3> QED BY <3>2, <3>3
  <2>4. CASE Begin
    <3>1. wait = "none" /\ wait' = "answerLow"
      BY <2>4 DEF Begin
    <3>2. ~Reads /\ ~NextPhase /\ ~Breaks
      BY <3>1 DEF Reads, Answer, LowOver, HighOver, TimesOut, Leaves, NextPhase, Breaks
    <3> QED BY <3>2
  <2>5. CASE NextPhase \/ Breaks
    <3>1. UNCHANGED <<wait, byteInx, bitInx>> /\ wait # "none" /\ phase < Idle
          /\ phase' \in {phase + 1, Idle, Shorted} /\ phase \in Nat
      BY <2>5, LineSteps DEF ReaderInv, Waits
    <3>2. Left' = Left
      BY <3>1 DEF Left, BitAt
    <3>3. phase' > phase
      BY <3>1, Sizes
    <3>4. ~Reads
      BY <3>1 DEF Reads, Answer, LowOver, HighOver, TimesOut, Leaves
    <3> QED BY <3>2, <3>3, <3>4
  <2> QED
    BY <2>1, <2>2, <2>3, <2>4, <2>5 DEF Next, readSensor, Reads
<1> QED BY <1>1, <1>2, ReaderInit, ReaderStep, PTL DEF Spec

=============================================================================
