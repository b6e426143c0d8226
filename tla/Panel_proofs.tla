----------------------------- MODULE Panel_proofs -----------------------------
(***************************************************************************)
(* Proofs about Panel, for every value of its constants: that the glass    *)
(* shows the frame buffer, and is never torn, wherever the window that the *)
(* counter goes through makes a frame begin, and where that can be; that   *)
(* every byte that is looked at is there; and that what is drawn into the  *)
(* frame buffer is what Canvas says of it.                                 *)
(***************************************************************************)
EXTENDS Panel, TLAPS, WellFoundedInduction

(* Remainders.                                                             *)
LEMMA DivUnique ==
  ASSUME NEW d \in Nat \ {0}, NEW q \in Nat, NEW r \in 0 .. d - 1
  PROVE  (d * q + r) \div d = q /\ (d * q + r) % d = r
<1> DEFINE x == d * q + r
<1> DEFINE q2 == x \div d
<1> DEFINE r2 == x % d
<1>1. x \in Nat
  OBVIOUS
<1>2. q2 \in Int /\ r2 \in 0 .. d - 1 /\ x = d * q2 + r2
  BY <1>1
<1> HIDE DEF q2, r2
<1>3. d * (q - q2) = r2 - r
  BY <1>2
<1>4. ~(q - q2 >= 1)
  BY <1>2, <1>3
<1>5. ~(q - q2 <= -1)
  BY <1>2, <1>3
<1>6. q = q2
  BY <1>2, <1>4, <1>5
<1> QED BY <1>2, <1>6 DEF q2, r2

LEMMA Division ==
  ASSUME NEW d \in Nat \ {0}, NEW a \in Nat
  PROVE  /\ a \div d \in Nat /\ a % d \in 0 .. d - 1
         /\ a = d * (a \div d) + (a % d)
<1> DEFINE q == a \div d
<1> DEFINE r == a % d
<1>1. q \in Int /\ r \in 0 .. d - 1 /\ a = d * q + r
  OBVIOUS
<1> HIDE DEF q, r
<1>2. ~(q <= -1)
  BY <1>1
<1>3. q \in Nat
  BY <1>1, <1>2
<1> QED BY <1>1, <1>3 DEF q, r

LEMMA RemainderOfSum ==
  ASSUME NEW d \in Nat \ {0}, NEW a \in Nat, NEW b \in Nat
  PROVE  ((a % d) + b) % d = (a + b) % d
<1> DEFINE q == a \div d
<1> DEFINE r == a % d
<1> DEFINE q2 == (r + b) \div d
<1> DEFINE r2 == (r + b) % d
<1>1. q \in Nat /\ r \in 0 .. d - 1 /\ a = d * q + r
  BY Division
<1> HIDE DEF q, r
<1>2. r + b \in Nat
  BY <1>1
<1>3. q2 \in Nat /\ r2 \in 0 .. d - 1 /\ r + b = d * q2 + r2
  BY <1>2, Division
<1> HIDE DEF q2, r2
<1>4. a + b = d * (q + q2) + r2
  BY <1>1, <1>3
<1>5. q + q2 \in Nat
  BY <1>1, <1>3
<1>6. (d * (q + q2) + r2) % d = r2
  BY <1>3, <1>5, DivUnique
<1>7. (a + b) % d = r2
  BY <1>4, <1>6
<1> QED BY <1>7 DEF r, r2

LEMMA RemaindersDiffer ==
  ASSUME NEW d \in Nat \ {0}, NEW a \in Nat, NEW e \in 1 .. d - 1
  PROVE  (a + e) % d # a % d
<1> DEFINE r == a % d
<1>1. r \in 0 .. d - 1 /\ (a + e) % d = (r + e) % d
  <2>1. e \in Nat
    OBVIOUS
  <2>2. a % d \in 0 .. d - 1
    BY Division
  <2>3. ((a % d) + e) % d = (a + e) % d
    BY <2>1, RemainderOfSum
  <2> QED BY <2>2, <2>3
<1> HIDE DEF r
<1>2. CASE r + e < d
  <2>1. (d * 0 + (r + e)) % d = r + e
    BY <1>1, <1>2, DivUnique
  <2> QED BY <1>1, <2>1 DEF r
<1>3. CASE r + e >= d
  <2>1. r + e - d \in 0 .. d - 1
    BY <1>1, <1>3
  <2>2. (d * 1 + (r + e - d)) % d = r + e - d
    BY <2>1, DivUnique
  <2>3. d * 1 + (r + e - d) = r + e
    BY <1>1
  <2>4. (r + e) % d = r + e - d
    BY <2>2, <2>3
  <2> QED BY <1>1, <2>4 DEF r
<1> QED BY <1>1, <1>2, <1>3

-----------------------------------------------------------------------------
(* The window and the frame.                                               *)

LEMMA Windows ==
  /\ w \in Nat \ {0} /\ Bytes \in Nat \ {0} /\ Cells \in Nat \ {0}
  /\ FirstCell \in 0 .. Cells - 1
<1>1. w \in Nat \ {0} /\ EPD_HEIGHT \in Nat \ {0}
  BY PaintAssumption DEF PaintAssumption, w
<1> DEFINE left == RamRows - FirstRow
<1>2. /\ RamCols \in Nat \ {0} /\ RamRows \in Nat \ {0} /\ FirstRow \in Nat
      /\ left \in Nat \ {0} /\ RamRows = FirstRow + left
  BY PanelAssumption DEF PanelAssumption
<1> HIDE DEF left, w
<1>3. Bytes \in Nat \ {0}
  BY <1>1 DEF Bytes
<1>4. FirstCell \in Nat /\ left * RamCols \in Nat \ {0}
  BY <1>2 DEF FirstCell
<1>5. Cells = FirstCell + left * RamCols
  BY <1>2 DEF Cells, FirstCell
<1> DEFINE rest == left * RamCols
<1> HIDE DEF rest
<1>6. Cells \in Nat \ {0} /\ FirstCell \in 0 .. Cells - 1
  <2>1. rest \in Nat \ {0} /\ Cells = FirstCell + rest
    BY <1>4, <1>5 DEF rest
  <2> QED BY <1>4, <2>1
<1> QED BY <1>1, <1>3, <1>6

(* Where a byte goes, and the next one, and that no two of a window's length
   go to the same cell.                                                    *)
LEMMA CellIs ==
  ASSUME NEW from \in Nat, NEW n \in Nat
  PROVE  /\ Cell(from, n) \in 0 .. Cells - 1
         /\ Cell(Cell(from, n), 1) = Cell(from, n + 1)
<1>1. Cells \in Nat \ {0} /\ from + n \in Nat
  BY Windows
<1> HIDE DEF Cells
<1>2. (from + n) % Cells \in 0 .. Cells - 1
  BY <1>1, Division
<1>3. (((from + n) % Cells) + 1) % Cells = (from + n + 1) % Cells
  BY <1>1, RemainderOfSum
<1>4. from + n + 1 = from + (n + 1)
  OBVIOUS
<1> QED BY <1>2, <1>3, <1>4 DEF Cell

LEMMA CellsDiffer ==
  ASSUME NEW from \in Nat, NEW n \in Nat, NEW m \in Nat, m < n, n < m + Cells
  PROVE  Cell(from, n) # Cell(from, m)
<1>1. Cells \in Nat \ {0} /\ from + m \in Nat
  BY Windows
<1> HIDE DEF Cells
<1> DEFINE e == n - m
<1>2. e \in 1 .. Cells - 1 /\ from + n = from + m + e
  BY <1>1
<1> HIDE DEF e
<1>3. (from + m + e) % Cells # (from + m) % Cells
  BY <1>1, <1>2, RemaindersDiffer
<1> QED BY <1>2, <1>3 DEF Cell

(* The first byte goes to the cell it begins at.                           *)
LEMMA CellZero ==
  ASSUME NEW from \in 0 .. Cells - 1
  PROVE  Cell(from, 0) = from
<1>1. Cells \in Nat \ {0}
  BY Windows
<1> HIDE DEF Cells
<1>2. (Cells * 0 + from) % Cells = from
  BY <1>1, DivUnique
<1>3. Cells * 0 + from = from + 0
  BY <1>1
<1> QED BY <1>2, <1>3 DEF Cell

-----------------------------------------------------------------------------
Pcs == {"Display", "Reset", "SWRESET", "LDirInit", "Clear", "cleared",
        "displayOutline", "running", "DisplayPart", "displayed"}

(* A memory to which k bytes of a frame were sent.                         *)
Holds(m, from, k, frame) ==
  \A n \in 0 .. k - 1 : n + Cells >= k => m[Cell(from, n)] = frame[n]

IsMemory(m) == m = [c \in 0 .. Cells - 1 |-> m[c]]
Front(m)    == [c \in Visible |-> m[c]]

(* The panel is sent nothing while it works; a transfer goes on where it is;
   an update shows what was sent whole; and the glass has the frame buffer
   once it was waited for, for as long as nothing is drawn.                *)
PanelInv ==
  /\ pc \in Pcs /\ sent \in 0 .. Bytes - 1 /\ counter \in 0 .. Cells - 1
  /\ begun \in 0 .. Cells - 1 /\ busy \in {"idle", "init", "update"}
  /\ IsMemory(ram)
  /\ busy = "update" => Holds(ram, begun, Bytes, asked)
  /\ pc \in {"Clear", "DisplayPart", "displayOutline", "running"} => busy = "idle"
  /\ pc \in {"Reset", "SWRESET", "LDirInit"} => busy # "update"
  /\ pc \notin {"Clear", "DisplayPart"} => sent = 0
  /\ pc \in {"Clear", "DisplayPart"} => counter = Cell(begun, sent)
  /\ pc = "Clear" => Holds(ram, begun, sent, White)
  /\ pc = "DisplayPart" => Holds(ram, begun, sent, image)
  /\ pc = "displayed" => /\ asked = image
                         /\ busy = "idle" => Shows(glass, begun, image)
                         /\ busy # "init"
  /\ pc = "running" /\ ~dispNeedRefresh => Shows(glass, begun, image)

(* A byte is added to a frame in the memory, and takes the place only of one
   that is a window's length behind it.                                    *)
LEMMA OneByteMore ==
  ASSUME NEW from \in Nat, NEW k \in Nat, NEW frame, NEW m, IsMemory(m),
         Holds(m, from, k, frame)
  PROVE  LET next == [m EXCEPT ![Cell(from, k)] = frame[k]]
         IN  IsMemory(next) /\ Holds(next, from, k + 1, frame)
<1> DEFINE next == [m EXCEPT ![Cell(from, k)] = frame[k]]
<1>0. Cells \in Nat \ {0}
  BY Windows
<1>1. \A n \in Nat : Cell(from, n) \in 0 .. Cells - 1
  BY CellIs
<1>2. IsMemory(next)
  BY <1>1 DEF IsMemory
<1>3. ASSUME NEW n \in 0 .. k, n + Cells >= k + 1
      PROVE  next[Cell(from, n)] = frame[n]
  <2>1. CASE n = k
    BY <1>1, <2>1 DEF IsMemory
  <2>2. CASE n # k
    <3>1. n \in 0 .. k - 1 /\ n < k /\ k < n + Cells /\ n + Cells >= k
      BY <1>0, <1>3, <2>2
    <3>2. Cell(from, n) # Cell(from, k)
      BY <3>1, CellsDiffer
    <3>3. next[Cell(from, n)] = m[Cell(from, n)]
      BY <1>1, <3>2 DEF IsMemory
    <3> QED BY <3>1, <3>3 DEF Holds
  <2> QED BY <2>1, <2>2
<1>4. (k + 1) - 1 = k
  OBVIOUS
<1>5. Holds(next, from, k + 1, frame)
  BY <1>3, <1>4 DEF Holds
<1> QED BY <1>2, <1>5

(* What is sent whole is shown by an update.                               *)
LEMMA FrontShows ==
  ASSUME NEW m, NEW from, NEW frame, Holds(m, from, Bytes, frame)
  PROVE  Shows(Front(m), from, frame)
BY DEF Holds, Shows, Front

(* What a byte does, whichever frame it is of.                             *)
LEMMA ByteSent ==
  ASSUME PanelInv, NEW at \in {"Clear", "DisplayPart"}, NEW frame, NEW next,
         pc = at => Holds(ram, begun, sent, frame), SendByte(at, frame, next)
  PROVE  /\ pc = at /\ busy = "idle" /\ IsMemory(ram') /\ counter' \in 0 .. Cells - 1
         /\ sent' \in 0 .. Bytes - 1 /\ counter' = Cell(begun, sent + 1)
         /\ LastByte => /\ sent' = 0 /\ pc' = next /\ busy' = "update" /\ asked' = frame
                        /\ sent + 1 = Bytes /\ Holds(ram', begun, Bytes, frame)
         /\ ~LastByte => /\ sent' = sent + 1 /\ UNCHANGED <<pc, busy, asked>>
                         /\ Holds(ram', begun, sent', frame)
         /\ UNCHANGED <<image, dispNeedRefresh, glass, begun>>
<1>1. /\ pc = at /\ sent \in 0 .. Bytes - 1 /\ sent \in Nat /\ begun \in Nat
      /\ counter = Cell(begun, sent) /\ IsMemory(ram) /\ busy = "idle"
      /\ Holds(ram, begun, sent, frame)
  BY DEF PanelInv, SendByte
<1>2. /\ ram' = [ram EXCEPT ![Cell(begun, sent)] = frame[sent]]
      /\ counter' = Cell(Cell(begun, sent), 1)
      /\ LastByte => sent' = 0 /\ pc' = next /\ busy' = "update" /\ asked' = frame
      /\ ~LastByte => sent' = sent + 1 /\ UNCHANGED <<pc, busy, asked>>
      /\ UNCHANGED <<image, dispNeedRefresh, glass, begun>>
  BY <1>1 DEF SendByte, Command
<1>3. IsMemory(ram') /\ Holds(ram', begun, sent + 1, frame)
  BY <1>1, <1>2, OneByteMore
<1>4. counter' = Cell(begun, sent + 1) /\ Cell(begun, sent + 1) \in 0 .. Cells - 1
  <2>1. sent + 1 \in Nat
    BY <1>1
  <2> QED BY <1>1, <1>2, <2>1, CellIs
<1>5. sent' \in 0 .. Bytes - 1
  <2>1. Bytes \in Nat \ {0}
    BY Windows
  <2> HIDE DEF Bytes
  <2>2. CASE LastByte
    BY <1>2, <2>1, <2>2
  <2>3. CASE ~LastByte
    BY <1>1, <1>2, <2>1, <2>3 DEF LastByte
  <2> QED BY <2>2, <2>3
<1>6. LastByte => sent + 1 = Bytes
  BY DEF LastByte
<1> QED BY <1>1, <1>2, <1>3, <1>4, <1>5, <1>6

-----------------------------------------------------------------------------
(* At the first start nothing was shown ...                                *)
LEMMA PanelInit == Init => PanelInv
<1>0. 0 \in 0 .. Bytes - 1 /\ 0 \in 0 .. Cells - 1
  BY Windows
<1>1. Init => IsMemory(ram)
  BY DEF Init, IsMemory
<1> QED BY <1>0, <1>1 DEF Init, PanelInv, Pcs

(* ... and no step of app_main, the panel or a reset breaks it.            *)
LEMMA PanelStep == PanelInv /\ [Next]_vars => PanelInv'
<1> SUFFICES ASSUME PanelInv, [Next]_vars PROVE PanelInv'
  OBVIOUS
<1>types. /\ 0 \in 0 .. Bytes - 1 /\ 0 \in 0 .. Cells - 1
          /\ FirstCell \in 0 .. Cells - 1
  BY Windows
<1>nothing. \A m, from, frame : Holds(m, from, 0, frame)
  BY DEF Holds
<1>begins. Cell(counter, 0) = counter
  BY CellZero DEF PanelInv
<1> USE <1>types DEF PanelInv, Pcs, chip, panel, hist, Command, Waited
<1>1. CASE ResetPin
  BY <1>1 DEF ResetPin
<1>2. CASE SwReset
  BY <1>2 DEF SwReset
<1>3. CASE SetWindow
  BY <1>3 DEF SetWindow
<1>4. CASE WaitAfterInit
  BY <1>4, <1>nothing, <1>begins DEF WaitAfterInit, WaitUntilIdle
<1>5. CASE ClearByte
  <2>1. SendByte("Clear", White, "cleared")
    BY <1>5 DEF ClearByte
  <2>2. pc = "Clear" => Holds(ram, begun, sent, White)
    OBVIOUS
  <2>3. /\ pc = "Clear" /\ busy = "idle" /\ IsMemory(ram') /\ counter' \in 0 .. Cells - 1
        /\ sent' \in 0 .. Bytes - 1 /\ counter' = Cell(begun, sent + 1)
        /\ LastByte => /\ sent' = 0 /\ pc' = "cleared" /\ busy' = "update"
                       /\ asked' = White /\ Holds(ram', begun, Bytes, White)
        /\ ~LastByte => /\ sent' = sent + 1 /\ UNCHANGED <<pc, busy, asked>>
                        /\ Holds(ram', begun, sent', White)
        /\ UNCHANGED begun
    BY <2>1, <2>2, ByteSent
  <2>4. White' = White
    BY DEF White, Bytes
  <2>5. CASE LastByte
    BY <2>3, <2>5
  <2>6. CASE ~LastByte
    BY <2>3, <2>4, <2>6
  <2> QED BY <2>5, <2>6
<1>6. CASE DisplayPart
  <2>1. SendByte("DisplayPart", image, "displayed")
    BY <1>6 DEF DisplayPart
  <2>2. pc = "DisplayPart" => Holds(ram, begun, sent, image)
    OBVIOUS
  <2>3. /\ pc = "DisplayPart" /\ busy = "idle" /\ IsMemory(ram')
        /\ counter' \in 0 .. Cells - 1
        /\ sent' \in 0 .. Bytes - 1 /\ counter' = Cell(begun, sent + 1)
        /\ LastByte => /\ sent' = 0 /\ pc' = "displayed" /\ busy' = "update"
                       /\ asked' = image /\ Holds(ram', begun, Bytes, image)
        /\ ~LastByte => /\ sent' = sent + 1 /\ UNCHANGED <<pc, busy, asked>>
                        /\ Holds(ram', begun, sent', image)
        /\ UNCHANGED <<image, begun>>
    BY <2>1, <2>2, ByteSent
  <2>4. CASE LastByte
    BY <2>3, <2>4
  <2>5. CASE ~LastByte
    BY <2>3, <2>5
  <2> QED BY <2>4, <2>5
<1>7. CASE WaitAfterClear
  BY <1>7 DEF WaitAfterClear, WaitUntilIdle
<1>8. CASE WaitAfterRefresh
  BY <1>8 DEF WaitAfterRefresh, WaitUntilIdle
<1>9. ASSUME NEW at, at \in {"displayOutline", "running"}, NEW calls, Draws(at, calls)
      PROVE  PanelInv'
  BY <1>9 DEF Draws
<1>10. CASE displayRefresh
  BY <1>10, <1>nothing, <1>begins DEF displayRefresh
<1>11. CASE Finish
  <2>1. /\ busy # "idle" /\ busy' = "idle" /\ UNCHANGED <<chip, ram, counter, hist>>
        /\ glass' = IF busy = "update" THEN Front(ram) ELSE glass
    BY <1>11 DEF Finish, Front
  <2>2. pc = "displayed" => Shows(glass', begun, image)
    BY <2>1, FrontShows
  <2> QED BY <2>1, <2>2
<1>12. CASE Reset
  BY <1>12 DEF Reset
<1>13. CASE UNCHANGED vars
  BY <1>13 DEF vars
<1> QED
  BY <1>1, <1>2, <1>3, <1>4, <1>5, <1>6, <1>7, <1>8, <1>9, <1>10, <1>11, <1>12, <1>13
     DEF Next, app_main, start, refresh, LDirInit, displayOutline, Update

LEMMA PanelInvariant == Spec => []PanelInv
BY PanelInit, PanelStep, PTL DEF Spec

-----------------------------------------------------------------------------
(* Whatever window the panel's counter goes through, and whatever was reset in
   between, the glass shows the frame buffer from where the last transfer began
   whenever no refresh is due.                                             *)
THEOREM GlassShowsTheFrameHolds == Spec => []GlassShowsTheFrame
<1>1. PanelInv => GlassShowsTheFrame
  BY DEF PanelInv, GlassShowsTheFrame
<1> QED BY <1>1, PanelInvariant, PTL

(* In every window too the glass only ever changes to the frame that was sent
   whole when it was last asked for, from where that transfer began.       *)
THEOREM NeverTornHolds == Spec => NeverTorn
<1>1. PanelInv /\ [Next]_vars => [glass' # glass => Shows(glass', begun, asked)]_vars
  <2> SUFFICES ASSUME PanelInv, Next, glass' # glass PROVE Shows(glass', begun, asked)
    OBVIOUS
  <2>1. Finish
    BY DEF Next, app_main, start, refresh, LDirInit, ResetPin, SwReset, SetWindow,
       WaitAfterInit, ClearByte, WaitAfterClear, displayOutline, Update, displayRefresh,
       DisplayPart, WaitAfterRefresh, WaitUntilIdle, SendByte, Draws, Reset, panel
  <2>2. busy = "update" /\ glass' = Front(ram)
    BY <2>1 DEF Finish, Front
  <2>3. Holds(ram, begun, Bytes, asked)
    BY <2>2 DEF PanelInv
  <2> QED BY <2>2, <2>3, FrontShows
<1> QED BY <1>1, PanelInvariant, PTL DEF Spec, NeverTorn

-----------------------------------------------------------------------------
(* Where the picture stands.                                               *)

LEMMA FirstPlace == FirstCell \in FramePlaces
<1>1. Bytes \in Nat /\ Cells \in Nat \ {0} /\ FirstCell \in 0 .. Cells - 1
  BY Windows
<1>2. Cell(FirstCell, 0) = FirstCell
  BY <1>1, CellZero
<1> HIDE DEF Bytes, Cells, FirstCell
<1>3. FirstCell + 0 * Bytes = FirstCell + 0 /\ 0 \in 0 .. Cells - 1
  BY <1>1
<1> QED BY <1>2, <1>3 DEF Cell, FramePlaces

(* A frame's length after one place is another.                            *)
LEMMA NextPlace ==
  ASSUME NEW from \in FramePlaces
  PROVE  Cell(from, Bytes) \in FramePlaces
<1>1. PICK k \in 0 .. Cells - 1 : from = (FirstCell + k * Bytes) % Cells
  BY DEF FramePlaces
<1>2. Bytes \in Nat /\ Cells \in Nat \ {0} /\ FirstCell \in 0 .. Cells - 1
  BY Windows
<1> HIDE DEF Bytes, Cells, FirstCell
<1> DEFINE a == FirstCell + k * Bytes
<1>3. k \in Nat /\ a \in Nat
  BY <1>1, <1>2
<1>4. a + Bytes = FirstCell + (k + 1) * Bytes
  BY <1>2, <1>3
<1> HIDE DEF a
<1>5. ((a % Cells) + Bytes) % Cells = (a + Bytes) % Cells
  BY <1>2, <1>3, RemainderOfSum
<1>6. Cell(from, Bytes) = (FirstCell + (k + 1) * Bytes) % Cells
  BY <1>1, <1>4, <1>5 DEF Cell, a
<1>7. CASE k + 1 \in 0 .. Cells - 1
  BY <1>6, <1>7 DEF FramePlaces
<1>8. CASE k + 1 = Cells
  <2>1. (Cells * Bytes + FirstCell) % Cells = FirstCell
    BY <1>2, DivUnique
  <2>2. FirstCell + (k + 1) * Bytes = Cells * Bytes + FirstCell
    BY <1>2, <1>8
  <2>3. Cell(from, Bytes) = FirstCell
    BY <1>6, <2>1, <2>2
  <2> QED BY <2>3, FirstPlace
<1> QED BY <1>1, <1>2, <1>7, <1>8

(* From the first transfer after a start on, frames begin in a set of places,
   each a frame after another.                                             *)
PlacesInv(places) ==
  /\ pc = "LDirInit" => counter = FirstCell
  /\ pc \in {"Clear", "cleared", "displayOutline", "running", "DisplayPart", "displayed"}
       => begun \in places
  /\ pc \in {"cleared", "displayOutline", "running", "displayed"}
       => counter = Cell(begun, Bytes)

LEMMA PlacesStep ==
  ASSUME NEW places, FirstCell \in places,
         \A from \in places : Cell(from, Bytes) \in places,
         PanelInv, PlacesInv(places), [Next]_vars
  PROVE  PlacesInv(places)'
<1> USE DEF PlacesInv, chip, panel, hist, Command, Waited
<1>1. CASE ResetPin \/ SwReset \/ SetWindow
  BY <1>1 DEF ResetPin, SwReset, SetWindow
<1>2. CASE WaitAfterInit
  BY <1>2 DEF WaitAfterInit, WaitUntilIdle
<1>3. ASSUME NEW at \in {"Clear", "DisplayPart"}, NEW frame,
             NEW next \in {"cleared", "displayed"}, SendByte(at, frame, next)
      PROVE  PlacesInv(places)'
  <2>1. pc = at /\ UNCHANGED begun /\ counter' = Cell(Cell(begun, sent), 1)
    BY <1>3 DEF SendByte, PanelInv
  <2>2. CASE LastByte
    <3>1. sent \in Nat /\ begun \in Nat /\ pc' = next /\ sent + 1 = Bytes
      BY <1>3, <2>2 DEF SendByte, PanelInv, LastByte
    <3>2. counter' = Cell(begun, Bytes)
      BY <2>1, <3>1, CellIs
    <3> QED BY <2>1, <3>1, <3>2
  <2>3. CASE ~LastByte
    <3>1. pc' = pc
      BY <1>3, <2>3 DEF SendByte
    <3> QED BY <2>1, <3>1
  <2> QED BY <2>2, <2>3
<1>4. CASE ClearByte \/ DisplayPart
  BY <1>3, <1>4 DEF ClearByte, DisplayPart
<1>5. CASE WaitAfterClear \/ WaitAfterRefresh
  BY <1>5 DEF WaitAfterClear, WaitAfterRefresh, WaitUntilIdle
<1>6. ASSUME NEW at, at \in {"displayOutline", "running"}, NEW calls, Draws(at, calls)
      PROVE  PlacesInv(places)'
  BY <1>6 DEF Draws
<1>7. CASE displayRefresh
  BY <1>7 DEF displayRefresh
<1>8. CASE Finish \/ Reset
  BY <1>8 DEF Finish, Reset
<1>9. CASE UNCHANGED vars
  BY <1>9 DEF vars
<1> QED
  BY <1>1, <1>2, <1>4, <1>5, <1>6, <1>7, <1>8, <1>9
     DEF Next, app_main, start, refresh, LDirInit, displayOutline, Update

LEMMA PlacesInit == ASSUME NEW places PROVE Init => PlacesInv(places)
BY DEF Init, PlacesInv

(* The picture stands where whole frames from the counter's start lead to: a
   transfer that was cut short moves it nowhere else.                      *)
THEOREM MovesByFramesHolds == Spec => []MovesByFrames
<1>1. Init => PlacesInv(FramePlaces)
  BY PlacesInit
<1>2. PanelInv /\ PlacesInv(FramePlaces) /\ [Next]_vars => PlacesInv(FramePlaces)'
  <2>1. FramePlaces' = FramePlaces
    BY DEF FramePlaces, Cells, FirstCell, Bytes
  <2> QED BY <2>1, FirstPlace, NextPlace, PlacesStep
<1>3. PlacesInv(FramePlaces) => MovesByFrames
  BY DEF PlacesInv, MovesByFrames
<1> QED BY <1>1, <1>2, <1>3, PanelInvariant, PTL DEF Spec

(* So it would stand still in a window of a frame's bytes, as HDirInit's has
   with frames of 200 lines; LDirInit's has 26 columns for 25.             *)
THEOREM StandsStill ==
  ASSUME Bytes = Cells
  PROVE  Spec => [](pc = "running" => begun = FirstCell)
<1>1. Cell(FirstCell, Bytes) = FirstCell
  <2>1. Cells \in Nat \ {0} /\ FirstCell \in 0 .. Cells - 1
    BY Windows
  <2> HIDE DEF Bytes, Cells, FirstCell
  <2>2. (Cells * 1 + FirstCell) % Cells = FirstCell
    BY <2>1, DivUnique
  <2>3. Cells * 1 + FirstCell = FirstCell + Bytes
    BY <2>1
  <2> QED BY <2>2, <2>3 DEF Cell
<1>2. Init => PlacesInv({FirstCell})
  BY PlacesInit
<1>3. PanelInv /\ PlacesInv({FirstCell}) /\ [Next]_vars => PlacesInv({FirstCell})'
  <2>1. FirstCell' = FirstCell
    BY DEF FirstCell
  <2> QED BY <1>1, <2>1, PlacesStep
<1>4. PlacesInv({FirstCell}) => (pc = "running" => begun = FirstCell)
  BY DEF PlacesInv
<1> QED BY <1>2, <1>3, <1>4, PanelInvariant, PTL DEF Spec

-----------------------------------------------------------------------------
(* The pixels of the frame buffer, and those of them that are black.       *)
Sheet == (0 .. EPD_WIDTH - 1) \X (0 .. EPD_HEIGHT - 1)

Black(img) == {p \in Sheet : 7 - (p[1] % 8) \notin img[p[1] \div 8 + p[2] * w]}

LEMMA Sizes ==
  /\ w \in Nat /\ EPD_WIDTH = 8 * w /\ EPD_HEIGHT \in Nat \ {0}
  /\ (EPD_WIDTH * EPD_HEIGHT) \div 8 = w * EPD_HEIGHT
<1>1. w \in Nat /\ EPD_WIDTH = 8 * w /\ EPD_HEIGHT \in Nat \ {0}
  BY PaintAssumption DEF PaintAssumption, w
<1> DEFINE n == w * EPD_HEIGHT
<1> HIDE DEF w
<1>2. EPD_WIDTH * EPD_HEIGHT = 8 * n /\ n \in Nat
  BY <1>1
<1> HIDE DEF n
<1>3. (8 * n) \div 8 = n
  BY <1>2
<1> QED BY <1>1, <1>2, <1>3 DEF n

(* Where the byte of a pixel is, for DrawAbsolutePixel and for the panel's
   rows.                                                                   *)
LEMMA Addresses ==
  ASSUME NEW x \in 0 .. EPD_WIDTH - 1, NEW y \in 0 .. EPD_HEIGHT - 1
  PROVE  /\ x \div 8 \in 0 .. w - 1 /\ x % 8 \in 0 .. 7 /\ x = 8 * (x \div 8) + (x % 8)
         /\ (x + y * EPD_WIDTH) \div 8 = x \div 8 + y * w
         /\ x \div 8 + y * w \in 0 .. w * EPD_HEIGHT - 1
<1>1. w \in Nat /\ EPD_WIDTH = 8 * w /\ EPD_HEIGHT \in Nat \ {0}
  BY Sizes
<1> HIDE DEF w
<1>2. x \div 8 \in 0 .. w - 1 /\ x % 8 \in 0 .. 7 /\ x = 8 * (x \div 8) + (x % 8)
  BY <1>1
<1> DEFINE n == y * w
<1>3. y * EPD_WIDTH = 8 * n /\ n \in Nat
  BY <1>1
<1>4. n + w <= w * EPD_HEIGHT
  <2>1. w * EPD_HEIGHT - (n + w) = w * (EPD_HEIGHT - 1 - y)
    BY <1>1
  <2>2. w * (EPD_HEIGHT - 1 - y) >= 0
    BY <1>1
  <2> QED BY <1>1, <1>3, <2>1, <2>2
<1>5. w * EPD_HEIGHT \in Nat
  BY <1>1
<1> HIDE DEF n
<1>6. (x + 8 * n) \div 8 = x \div 8 + n
  BY <1>1, <1>3
<1>7. x \div 8 + n \in 0 .. w * EPD_HEIGHT - 1
  BY <1>1, <1>2, <1>3, <1>4, <1>5
<1> QED BY <1>2, <1>3, <1>6, <1>7 DEF n

(* Two pixels of one byte are in the same row, and differ in their bits.   *)
LEMMA SameAddress ==
  ASSUME NEW a \in 0 .. w - 1, NEW b \in 0 .. w - 1, NEW y \in Int, NEW z \in Int,
         a + y * w = b + z * w
  PROVE  a = b /\ y = z
<1>1. w \in Nat
  BY Sizes
<1> HIDE DEF w
<1>2. (y - z) * w = b - a
  BY <1>1
<1>3. ~(y - z >= 1)
  BY <1>1, <1>2
<1>4. ~(y - z <= -1)
  BY <1>1, <1>2
<1>5. y = z
  BY <1>3, <1>4
<1> QED BY <1>1, <1>5

(* DrawPixels sets or clears the bits of the pixels that are on the sheet. *)
BitsAt(pixels, b) ==
  {7 - (p[1] % 8) : p \in {q \in {p \in pixels : InBuffer(p)} :
                             (q[1] + q[2] * EPD_WIDTH) \div 8 = b}}

LEMMA BitOfPixel ==
  ASSUME NEW pixels, \A q \in pixels : q \in Int \X Int, NEW p \in Sheet
  PROVE  7 - (p[1] % 8) \in BitsAt(pixels, p[1] \div 8 + p[2] * w) <=> p \in pixels
<1> DEFINE b == p[1] \div 8 + p[2] * w
<1>1. p[1] \in 0 .. EPD_WIDTH - 1 /\ p[2] \in 0 .. EPD_HEIGHT - 1 /\ p = <<p[1], p[2]>>
  BY DEF Sheet
<1>2. ASSUME p \in pixels PROVE 7 - (p[1] % 8) \in BitsAt(pixels, b)
  <2>1. InBuffer(p)
    BY <1>1, Sizes DEF InBuffer
  <2>2. (p[1] + p[2] * EPD_WIDTH) \div 8 = b
    BY <1>1, Addresses
  <2> HIDE DEF b
  <2> QED BY <1>2, <2>1, <2>2 DEF BitsAt
<1>3. ASSUME 7 - (p[1] % 8) \in BitsAt(pixels, b) PROVE p \in pixels
  <2>1. PICK q \in pixels : /\ InBuffer(q) /\ (q[1] + q[2] * EPD_WIDTH) \div 8 = b
                            /\ 7 - (p[1] % 8) = 7 - (q[1] % 8)
    BY <1>3 DEF BitsAt
  <2>2. q = <<q[1], q[2]>> /\ q[1] \in Int /\ q[2] \in Int
    OBVIOUS
  <2>3. q[1] \in 0 .. EPD_WIDTH - 1 /\ q[2] \in 0 .. EPD_HEIGHT - 1
    BY <2>1, <2>2, Sizes DEF InBuffer
  <2>4. /\ p[1] \div 8 \in 0 .. w - 1 /\ p[1] % 8 \in 0 .. 7
        /\ p[1] = 8 * (p[1] \div 8) + (p[1] % 8)
    BY <1>1, Addresses
  <2>5. /\ q[1] \div 8 \in 0 .. w - 1 /\ q[1] % 8 \in 0 .. 7
        /\ q[1] = 8 * (q[1] \div 8) + (q[1] % 8)
        /\ (q[1] + q[2] * EPD_WIDTH) \div 8 = q[1] \div 8 + q[2] * w
    BY <2>3, Addresses
  <2>6. q[1] \div 8 + q[2] * w = p[1] \div 8 + p[2] * w
    BY <2>1, <2>5
  <2>7. q[1] \div 8 = p[1] \div 8 /\ q[2] = p[2]
    <3> HIDE DEF w
    <3> QED BY <1>1, <2>2, <2>4, <2>5, <2>6, SameAddress
  <2>8. q[1] % 8 = p[1] % 8
    <3>1. \A i, j \in 0 .. 7 : 7 - i = 7 - j => i = j
      OBVIOUS
    <3>2. p[1] % 8 \in 0 .. 7 /\ q[1] % 8 \in 0 .. 7 /\ 7 - (p[1] % 8) = 7 - (q[1] % 8)
      BY <2>1, <2>4, <2>5
    <3> QED BY <3>1, <3>2
  <2>9. q = p
    BY <1>1, <2>2, <2>4, <2>5, <2>7, <2>8
  <2> QED BY <2>9
<1> QED BY <1>2, <1>3

(* The buffer keeps its bytes ...                                          *)
LEMMA BytesStay ==
  ASSUME NEW img \in Buffer, NEW pixels, \A q \in pixels : q \in Int \X Int, NEW colored
  PROVE  DrawPixels(img, pixels, colored) \in Buffer
<1>1. ASSUME NEW b PROVE BitsAt(pixels, b) \subseteq 0 .. 7
  <2>1. \A q \in pixels : 7 - (q[1] % 8) \in 0 .. 7
    OBVIOUS
  <2> QED BY <2>1 DEF BitsAt
<1>2. DrawPixels(img, pixels, colored) =
        [b \in DOMAIN img |-> IF colored # 0 THEN img[b] \cup BitsAt(pixels, b)
                                             ELSE img[b] \ BitsAt(pixels, b)]
  BY DEF DrawPixels, BitsAt
<1>3. DOMAIN img = 0 .. (EPD_WIDTH * EPD_HEIGHT) \div 8 - 1
      /\ \A b \in DOMAIN img : img[b] \subseteq 0 .. 7
  BY DEF Buffer, Byte
<1> QED BY <1>1, <1>2, <1>3 DEF Buffer, Byte

(* ... and of its pixels the drawn ones get the colour.                    *)
LEMMA InkOfPixels ==
  ASSUME NEW img \in Buffer, NEW pixels, \A q \in pixels : q \in Int \X Int, NEW colored
  PROVE  Black(DrawPixels(img, pixels, colored)) =
           {p \in Sheet : IF p \in pixels THEN colored = 0 ELSE p \in Black(img)}
<1> DEFINE out == DrawPixels(img, pixels, colored)
<1>1. out = [b \in DOMAIN img |-> IF colored # 0 THEN img[b] \cup BitsAt(pixels, b)
                                                 ELSE img[b] \ BitsAt(pixels, b)]
  BY DEF DrawPixels, BitsAt
<1> HIDE DEF out
<1>2. ASSUME NEW p \in Sheet
      PROVE  p \in Black(out) <=> IF p \in pixels THEN colored = 0 ELSE p \in Black(img)
  <2> DEFINE b == p[1] \div 8 + p[2] * w
  <2> DEFINE bit == 7 - (p[1] % 8)
  <2>1. b \in DOMAIN img
    <3>1. p[1] \in 0 .. EPD_WIDTH - 1 /\ p[2] \in 0 .. EPD_HEIGHT - 1
      BY DEF Sheet
    <3>2. DOMAIN img = 0 .. w * EPD_HEIGHT - 1
      BY Sizes DEF Buffer
    <3> QED BY <3>1, <3>2, Addresses
  <2>2. bit \in BitsAt(pixels, b) <=> p \in pixels
    BY BitOfPixel
  <2>3. /\ p \in Black(out) <=> bit \notin out[b]
        /\ p \in Black(img) <=> bit \notin img[b]
    BY DEF Black
  <2> HIDE DEF b, bit
  <2> QED BY <1>1, <2>1, <2>2, <2>3
<1>3. Black(out) \subseteq Sheet
  BY DEF Black
<1> QED BY <1>2, <1>3 DEF out

(* Clear leaves no pixel black.                                            *)
LEMMA Cleared ==
  ASSUME NEW img \in Buffer
  PROVE  Clear(img, UNCOLORED) \in Buffer /\ Black(Clear(img, UNCOLORED)) = {}
<1>1. \A q \in Sheet : q \in Int \X Int
  BY DEF Sheet
<1>2. Clear(img, UNCOLORED) = DrawPixels(img, Sheet, UNCOLORED)
  BY DEF Clear, Sheet
<1>3. Clear(img, UNCOLORED) \in Buffer
  BY <1>1, <1>2, BytesStay
<1>4. Black(Clear(img, UNCOLORED)) =
        {p \in Sheet : IF p \in Sheet THEN UNCOLORED = 0 ELSE p \in Black(img)}
  BY <1>1, <1>2, InkOfPixels
<1> QED BY <1>3, <1>4 DEF UNCOLORED

-----------------------------------------------------------------------------
(* The shapes: which of the sheet's pixels the loops visit.                *)

Points == Int \X Int

(* A line has its two ends and what is between them.                       *)
LEMMA Across ==
  ASSUME NEW x \in Int, NEW y \in Int, NEW a \in Int
  PROVE  \A p : p \in HorizontalLine(x, y, a - x + 1) <=>
                 p \in Points /\ p[2] = y /\ p[1] \in x .. a
<1>1. x + (a - x + 1) - 1 = a
  OBVIOUS
<1>2. HorizontalLine(x, y, a - x + 1) = {<<i, y>> : i \in x .. a}
  BY <1>1 DEF HorizontalLine
<1> QED BY <1>2 DEF Points

LEMMA Down ==
  ASSUME NEW x \in Int, NEW y \in Int, NEW a \in Int
  PROVE  \A p : p \in VerticalLine(x, y, a - y + 1) <=>
                 p \in Points /\ p[1] = x /\ p[2] \in y .. a
<1>1. y + (a - y + 1) - 1 = a
  OBVIOUS
<1>2. VerticalLine(x, y, a - y + 1) = {<<x, i>> : i \in y .. a}
  BY <1>1 DEF VerticalLine
<1> QED BY <1>2 DEF Points

(* The corners may come in any order.                                      *)
LEMMA Corners ==
  ASSUME NEW a \in Int, NEW b \in Int
  PROVE  /\ Smaller(a, b) \in Int /\ Larger(a, b) \in Int
         /\ Smaller(a, b) .. Larger(a, b) = a .. b \cup b .. a
         /\ {Smaller(a, b), Larger(a, b)} = {a, b}
         /\ Smaller(a, b) <= Larger(a, b)
BY DEF Smaller, Larger

(* A rectangle is the border of its box, ...                               *)
LEMMA RectangleVisits ==
  ASSUME NEW c, {c.x0, c.y0, c.x1, c.y1} \subseteq Int
  PROVE  Rectangle(c) = {p \in Points : /\ Promise!InBox(p, c)
                                        /\ p[1] \in {c.x0, c.x1} \/ p[2] \in {c.y0, c.y1}}
<1> DEFINE l == Smaller(c.x0, c.x1)
           r == Larger(c.x0, c.x1)
           t == Smaller(c.y0, c.y1)
           b == Larger(c.y0, c.y1)
<1>1. /\ l \in Int /\ r \in Int /\ l .. r = c.x0 .. c.x1 \cup c.x1 .. c.x0
      /\ {l, r} = {c.x0, c.x1} /\ l <= r
  BY Corners
<1>2. /\ t \in Int /\ b \in Int /\ t .. b = c.y0 .. c.y1 \cup c.y1 .. c.y0
      /\ {t, b} = {c.y0, c.y1} /\ t <= b
  BY Corners
<1>3. Rectangle(c) = HorizontalLine(l, t, r - l + 1) \cup HorizontalLine(l, b, r - l + 1)
                     \cup VerticalLine(l, t, b - t + 1) \cup VerticalLine(r, t, b - t + 1)
  BY DEF Rectangle
<1> HIDE DEF l, r, t, b
<1>4. \A p :
        /\ p \in HorizontalLine(l, t, r - l + 1) <=> p \in Points /\ p[2] = t /\ p[1] \in l .. r
        /\ p \in HorizontalLine(l, b, r - l + 1) <=> p \in Points /\ p[2] = b /\ p[1] \in l .. r
        /\ p \in VerticalLine(l, t, b - t + 1) <=> p \in Points /\ p[1] = l /\ p[2] \in t .. b
        /\ p \in VerticalLine(r, t, b - t + 1) <=> p \in Points /\ p[1] = r /\ p[2] \in t .. b
  BY <1>1, <1>2, Across, Down
<1>5. \A p \in Points : Promise!InBox(p, c) <=> p[1] \in l .. r /\ p[2] \in t .. b
  BY <1>1, <1>2 DEF Promise!InBox, Promise!Between
<1>6. l \in l .. r /\ r \in l .. r /\ t \in t .. b /\ b \in t .. b
  BY <1>1, <1>2
<1>7. ASSUME NEW p \in Points
      PROVE  p \in Rectangle(c) <=> /\ p[1] \in l .. r /\ p[2] \in t .. b
                                    /\ p[1] \in {l, r} \/ p[2] \in {t, b}
  BY <1>3, <1>4, <1>6
<1>8. Rectangle(c) \subseteq Points
  BY <1>3, <1>4
<1> QED BY <1>1, <1>2, <1>5, <1>7, <1>8

(* ... and a filled one all of it.                                         *)
LEMMA FilledRectangleVisits ==
  ASSUME NEW c, {c.x0, c.y0, c.x1, c.y1} \subseteq Int
  PROVE  FilledRectangle(c) = {p \in Points : Promise!InBox(p, c)}
<1> DEFINE l == Smaller(c.x0, c.x1)
           r == Larger(c.x0, c.x1)
           t == Smaller(c.y0, c.y1)
           b == Larger(c.y0, c.y1)
<1>1. l \in Int /\ r \in Int /\ l .. r = c.x0 .. c.x1 \cup c.x1 .. c.x0
  BY Corners
<1>2. t \in Int /\ b \in Int /\ t .. b = c.y0 .. c.y1 \cup c.y1 .. c.y0
  BY Corners
<1>3. FilledRectangle(c) = UNION {VerticalLine(i, t, b - t + 1) : i \in l .. r}
  BY DEF FilledRectangle
<1> HIDE DEF l, r, t, b
<1>4. ASSUME NEW i \in l .. r
      PROVE  \A p : p \in VerticalLine(i, t, b - t + 1) <=>
                      p \in Points /\ p[1] = i /\ p[2] \in t .. b
  <2>1. i \in Int
    BY <1>1
  <2> QED BY <1>2, <2>1, Down
<1>5. \A p \in Points : Promise!InBox(p, c) <=> p[1] \in l .. r /\ p[2] \in t .. b
  BY <1>1, <1>2 DEF Promise!InBox, Promise!Between
<1>6. FilledRectangle(c) = {p \in Points : p[1] \in l .. r /\ p[2] \in t .. b}
  BY <1>3, <1>4
<1> QED BY <1>5, <1>6

-----------------------------------------------------------------------------
(* The pointer of DrawCharAt.                                              *)

(* Induction, for a set: the natural numbers are well-founded.             *)
LEMMA NatSetInduction ==
  ASSUME NEW S, 0 \in S, \A n \in Nat : n \in S => n + 1 \in S
  PROVE  Nat \subseteq S
<1> DEFINE T == {n \in Nat : n \notin S}
<1>1. SUFFICES ASSUME T # {} PROVE FALSE
  OBVIOUS
<1>2. IsWellFoundedOn(OpToRel(<, Nat), Nat)
  BY NatLessThanWellFounded
<1>3. \E x \in T : \A y \in T : <<y, x>> \notin OpToRel(<, Nat)
  <2> HIDE DEF T
  <2>1. T \subseteq Nat
    BY DEF T
  <2> QED BY <2>1, <1>1, <1>2, WFMin
<1>4. PICK x \in T : \A y \in T : <<y, x>> \notin OpToRel(<, Nat)
  BY <1>3
<1>5. \A y \in T : ~(y < x)
  BY <1>4 DEF OpToRel
<1>6. x # 0 /\ x - 1 \in Nat /\ x - 1 \in S
  BY <1>5
<1> QED BY <1>6

Padded(w_px) == (w_px + 7) \div 8

(* Where the bit of a glyph's n-th pixel is in the table.                  *)
TableIndex(char, n) ==
  LET desc == Font.font_desc[char]
  IN desc.glyph_index + (n \div desc.w_px) * Padded(desc.w_px) + (n % desc.w_px) \div 8

LEMMA Glyphs ==
  ASSUME NEW char \in DOMAIN Font.font_desc
  PROVE  /\ Font.font_desc[char].w_px \in Nat /\ Font.font_desc[char].glyph_index \in Nat
         /\ Font.Height \in Nat /\ Font.Width \in Nat
BY FontAssumption DEF FontAssumption

(* From a pixel to the next the pointer moves on behind a byte's last bit,
   and behind the row's last pixel to the next whole byte.                 *)
LEMMA PointerMoves ==
  ASSUME NEW char \in DOMAIN Font.font_desc, Font.font_desc[char].w_px # 0, NEW n \in Nat
  PROVE  TableIndex(char, n + 1) =
           TableIndex(char, n) + Advance(n % Font.font_desc[char].w_px, Font.font_desc[char].w_px)
<1> DEFINE d == Font.font_desc[char].w_px
           s == Font.font_desc[char].glyph_index
           j == n \div d
           i == n % d
<1>0. d \in Nat \ {0} /\ s \in Nat
  BY Glyphs
<1>1. /\ TableIndex(char, n) = s + (n \div d) * Padded(d) + (n % d) \div 8
      /\ TableIndex(char, n + 1) = s + ((n + 1) \div d) * Padded(d) + ((n + 1) % d) \div 8
  BY DEF TableIndex
<1> HIDE DEF d, s
<1>2. j \in Nat /\ i \in 0 .. d - 1 /\ n = d * j + i
  <2>1. j \in Int /\ i \in 0 .. d - 1 /\ n = d * j + i
    BY <1>0
  <2> HIDE DEF i, j
  <2>2. ~(j <= -1)
    BY <1>0, <2>1
  <2> QED BY <2>1, <2>2
<1>3. Padded(d) \in Nat
  BY <1>0 DEF Padded
<1> DEFINE P == Padded(d)
           m == j * P
<1>m. m \in Nat /\ (j + 1) * P = m + P
  BY <1>2, <1>3
<1>4. CASE i < d - 1
  <2>1. i + 1 \in 0 .. d - 1 /\ n + 1 = d * j + (i + 1)
    BY <1>0, <1>2, <1>4
  <2>2. (n + 1) \div d = j /\ (n + 1) % d = i + 1
    <3> DEFINE k == i + 1
    <3>1. k \in 0 .. d - 1 /\ n + 1 = d * j + k
      BY <2>1
    <3> HIDE DEF i, j, k
    <3>2. (d * j + k) \div d = j /\ (d * j + k) % d = k
      BY <1>0, <1>2, <3>1, DivUnique
    <3> QED BY <3>1, <3>2 DEF k
  <2>3. TableIndex(char, n) = s + m + i \div 8 /\ TableIndex(char, n + 1) = s + m + (i + 1) \div 8
    BY <1>1, <2>2
  <2> HIDE DEF i, j, m
  <2>4. (i + 1) \div 8 = i \div 8 + (IF i % 8 = 7 THEN 1 ELSE 0)
    BY <1>0, <1>2
  <2>5. Advance(i, d) = IF i % 8 = 7 THEN 1 ELSE 0
    BY <1>0, <1>2, <1>4 DEF Advance
  <2>6. i \div 8 \in Nat
    BY <1>0, <1>2
  <2>7. TableIndex(char, n + 1) = TableIndex(char, n) + Advance(i, d)
    BY <1>0, <1>m, <2>3, <2>4, <2>5, <2>6
  <2> QED BY <2>7 DEF i, d
<1>5. CASE i = d - 1
  <2>1. n + 1 = d * (j + 1) + 0 /\ 0 \in 0 .. d - 1 /\ j + 1 \in Nat
    BY <1>0, <1>2, <1>5
  <2>2. (n + 1) \div d = j + 1 /\ (n + 1) % d = 0
    <3> HIDE DEF i, j
    <3> QED BY <1>0, <1>2, <2>1, DivUnique
  <2>3. TableIndex(char, n) = s + m + i \div 8 /\ TableIndex(char, n + 1) = s + (j + 1) * P + 0 \div 8
    BY <1>1, <2>2
  <2> HIDE DEF i, j, m
  <2>4. P = i \div 8 + 1
    BY <1>0, <1>5 DEF Padded
  <2>5. Advance(i, d) = 1
    <3>1. i % 8 = 7 <=> d % 8 = 0
      BY <1>0, <1>5
    <3> QED BY <1>0, <1>5, <3>1 DEF Advance
  <2>6. i \div 8 \in Nat /\ 0 \div 8 = 0
    BY <1>0, <1>2
  <2> HIDE DEF P
  <2>7. TableIndex(char, n + 1) = TableIndex(char, n) + Advance(i, d)
    BY <1>0, <1>m, <2>3, <2>4, <2>5, <2>6
  <2> QED BY <2>7 DEF i, d
<1> QED BY <1>0, <1>2, <1>4, <1>5

(* What the recursive definition of the pointer says.                      *)
Walk(char, g) ==
  LET desc == Font.font_desc[char]
  IN g = [n \in 0 .. desc.w_px * Font.Height - 1 |->
            IF n = 0 THEN desc.glyph_index
            ELSE g[n - 1] + Advance((n - 1) % desc.w_px, desc.w_px)]

LEMMA PointerIs ==
  ASSUME NEW char \in DOMAIN Font.font_desc, NEW g, Walk(char, g)
  PROVE  g = [n \in 0 .. Font.font_desc[char].w_px * Font.Height - 1 |-> TableIndex(char, n)]
<1> DEFINE d == Font.font_desc[char].w_px
           s == Font.font_desc[char].glyph_index
           last == d * Font.Height - 1
           S == {n \in Nat : n <= last => g[n] = TableIndex(char, n)}
           Step(f) == [n \in 0 .. last |-> IF n = 0 THEN s ELSE f[n - 1] + Advance((n - 1) % d, d)]
<1>0. d \in Nat /\ s \in Nat /\ Font.Height \in Nat /\ last \in Int /\ (d = 0 => last = -1)
  BY Glyphs
<1>1. g = Step(g)
  BY DEF Walk
<1>2. ASSUME NEW n \in 0 .. last
      PROVE  g[n] = IF n = 0 THEN s ELSE g[n - 1] + Advance((n - 1) % d, d)
  <2>1. Step(g)[n] = IF n = 0 THEN s ELSE g[n - 1] + Advance((n - 1) % d, d)
    OBVIOUS
  <2> HIDE DEF Step
  <2> QED BY <1>1, <2>1
<1>3. 0 \in S
  <2>1. SUFFICES ASSUME 0 <= last PROVE g[0] = TableIndex(char, 0)
    OBVIOUS
  <2>2. d # 0 /\ 0 \in 0 .. last
    BY <1>0, <2>1
  <2>3. g[0] = s
    BY <1>2, <2>2
  <2>4. 0 \div d = 0 /\ 0 % d = 0
    BY <1>0, <2>2
  <2>5. Padded(d) \in Nat
    BY <1>0 DEF Padded
  <2> QED BY <1>0, <2>3, <2>4, <2>5 DEF TableIndex
<1>4. ASSUME NEW n \in Nat, n \in S PROVE n + 1 \in S
  <2>1. SUFFICES ASSUME n + 1 <= last PROVE g[n + 1] = TableIndex(char, n + 1)
    OBVIOUS
  <2>2. d # 0 /\ n + 1 \in 0 .. last /\ n <= last
    BY <1>0, <2>1
  <2>3. g[n + 1] = g[n] + Advance(n % d, d)
    <3>1. n + 1 # 0 /\ (n + 1) - 1 = n
      OBVIOUS
    <3> QED BY <1>2, <2>2, <3>1
  <2>4. g[n] = TableIndex(char, n)
    BY <1>4, <2>2
  <2> QED BY <2>2, <2>3, <2>4, PointerMoves
<1> HIDE DEF S
<1>5. Nat \subseteq S
  BY <1>3, <1>4, NatSetInduction
<1>6. \A n \in 0 .. last : g[n] = TableIndex(char, n)
  BY <1>0, <1>5 DEF S
<1> QED BY <1>1, <1>6

LEMMA PointerExists ==
  ASSUME NEW char \in DOMAIN Font.font_desc
  PROVE  \E g : Walk(char, g)
<1> DEFINE d == Font.font_desc[char].w_px
           s == Font.font_desc[char].glyph_index
           last == d * Font.Height - 1
           g == [n \in 0 .. last |-> TableIndex(char, n)]
<1>0. d \in Nat /\ s \in Nat /\ last \in Int /\ (d = 0 => last = -1)
  BY Glyphs
<1>1. ASSUME NEW n \in 0 .. last
      PROVE  g[n] = IF n = 0 THEN s ELSE g[n - 1] + Advance((n - 1) % d, d)
  <2>1. d # 0
    BY <1>0
  <2>2. CASE n = 0
    <3>1. 0 \div d = 0 /\ 0 % d = 0
      BY <1>0, <2>1
    <3>2. Padded(d) \in Nat
      BY <1>0 DEF Padded
    <3> QED BY <1>0, <2>2, <3>1, <3>2 DEF TableIndex
  <2>3. CASE n # 0
    <3>1. n - 1 \in Nat /\ n - 1 \in 0 .. last /\ (n - 1) + 1 = n
      BY <1>0, <2>3
    <3>2. TableIndex(char, n) = TableIndex(char, n - 1) + Advance((n - 1) % d, d)
      BY <2>1, <3>1, PointerMoves
    <3>3. g[n] = TableIndex(char, n) /\ g[n - 1] = TableIndex(char, n - 1)
      BY <3>1
    <3> QED BY <2>3, <3>2, <3>3
  <2> QED BY <2>2, <2>3
<1>2. Walk(char, g)
  <2>1. g = [n \in 0 .. last |-> IF n = 0 THEN s ELSE g[n - 1] + Advance((n - 1) % d, d)]
    BY <1>1
  <2> HIDE DEF g
  <2> QED BY <2>1 DEF Walk
<1> QED BY <1>2

(* A glyph's pixels, one after another, are the dots of its bitmap.        *)
LEMMA CharVisits ==
  ASSUME NEW char \in DOMAIN Font.font_desc, NEW x \in Int, NEW y \in Int
  PROVE  Char(x, y, char) = {p \in Points : Promise!Dot(char, p[1] - x, p[2] - y)}
<1> DEFINE d == Font.font_desc[char].w_px
           s == Font.font_desc[char].glyph_index
           h == Font.Height
           ptr == CHOOSE g : Walk(char, g)
<1>0. d \in Nat /\ s \in Nat /\ h \in Nat
  BY Glyphs
<1>1. Char(x, y, char) =
        {<<x + (n % d), y + n \div d>> :
           n \in {m \in DOMAIN ptr : 7 - ((m % d) % 8) \in Font.table[ptr[m]]}}
  BY DEF Char, Walk
<1>2. ptr = [n \in 0 .. d * h - 1 |-> TableIndex(char, n)]
  BY PointerExists, PointerIs
<1> HIDE DEF ptr
<1>3. \A p : p \in Char(x, y, char) <=>
               \E n \in 0 .. d * h - 1 : /\ p = <<x + (n % d), y + n \div d>>
                                         /\ 7 - ((n % d) % 8) \in Font.table[TableIndex(char, n)]
  BY <1>1, <1>2
<1>4. \A n : TableIndex(char, n) = s + (n \div d) * Padded(d) + (n % d) \div 8
  BY DEF TableIndex
<1>5. \A i, j : Promise!Dot(char, i, j) <=>
                  /\ i \in 0 .. d - 1 /\ j \in 0 .. h - 1
                  /\ 7 - (i % 8) \in Font.table[s + j * Padded(d) + i \div 8]
  BY DEF Promise!Dot, Padded
<1> HIDE DEF d, s, h
<1>6. ASSUME NEW p \in Char(x, y, char)
      PROVE  p \in Points /\ Promise!Dot(char, p[1] - x, p[2] - y)
  <2>1. PICK n \in 0 .. d * h - 1 : /\ p = <<x + (n % d), y + n \div d>>
                                    /\ 7 - ((n % d) % 8) \in Font.table[TableIndex(char, n)]
    BY <1>3
  <2> DEFINE i == n % d
             j == n \div d
  <2>2. d # 0 /\ n \in Nat /\ n < d * h
    BY <1>0
  <2>3. j \in Int /\ i \in 0 .. d - 1 /\ n = d * j + i
    BY <1>0, <2>2
  <2>4. p = <<x + i, y + j>> /\ 7 - (i % 8) \in Font.table[s + j * Padded(d) + i \div 8]
    BY <1>4, <2>1
  <2> HIDE DEF i, j
  <2>5. ~(j <= -1)
    BY <1>0, <2>2, <2>3
  <2>6. ~(j - h >= 0)
    <3>1. d * j < d * h
      BY <1>0, <2>2, <2>3
    <3>2. d * (j - h) < 0
      BY <1>0, <2>3, <3>1
    <3> QED BY <1>0, <2>3, <3>2
  <2>7. j \in 0 .. h - 1
    BY <1>0, <2>3, <2>5, <2>6
  <2>8. p \in Points /\ p[1] - x = i /\ p[2] - y = j
    BY <2>3, <2>4, <1>0 DEF Points
  <2> QED BY <1>5, <2>3, <2>4, <2>7, <2>8
<1>7. ASSUME NEW p \in Points, Promise!Dot(char, p[1] - x, p[2] - y)
      PROVE  p \in Char(x, y, char)
  <2> DEFINE i == p[1] - x
             j == p[2] - y
             n == d * j + i
  <2>1. /\ i \in 0 .. d - 1 /\ j \in 0 .. h - 1
        /\ 7 - (i % 8) \in Font.table[s + j * Padded(d) + i \div 8]
    BY <1>5, <1>7
  <2>2. p = <<x + i, y + j>>
    BY DEF Points
  <2> HIDE DEF i, j
  <2>3. d # 0 /\ j \in Nat
    BY <1>0, <2>1
  <2>4. n \div d = j /\ n % d = i
    BY <1>0, <2>1, <2>3, DivUnique
  <2>5. n \in 0 .. d * h - 1
    <3>1. d * h - d * j - d = d * (h - 1 - j)
      BY <1>0, <2>1
    <3>2. d * (h - 1 - j) >= 0
      BY <1>0, <2>1
    <3>3. d * j >= 0 /\ d * j \in Int /\ d * h \in Int
      BY <1>0, <2>1
    <3>4. d * j + d <= d * h
      BY <1>0, <3>1, <3>2, <3>3
    <3> QED BY <1>0, <2>1, <3>3, <3>4
  <2>6. 7 - ((n % d) % 8) \in Font.table[TableIndex(char, n)]
    BY <1>4, <2>1, <2>4
  <2> HIDE DEF n
  <2> QED BY <1>3, <2>2, <2>4, <2>5, <2>6
<1> QED BY <1>6, <1>7

(* A string is its glyphs, one width after another.                        *)
LEMMA StringVisits ==
  ASSUME NEW c, {c.x, c.y} \subseteq Int, c.text \in Seq(DOMAIN Font.font_desc)
  PROVE  String(c) =
           {p \in Points : \E n \in DOMAIN c.text :
              Promise!Dot(c.text[n], p[1] - c.x - (n - 1) * Font.Width, p[2] - c.y)}
<1>1. ASSUME NEW n \in DOMAIN c.text
      PROVE  Char(c.x + (n - 1) * Font.Width, c.y, c.text[n]) =
               {p \in Points : Promise!Dot(c.text[n], p[1] - c.x - (n - 1) * Font.Width,
                                           p[2] - c.y)}
  <2> DEFINE m == (n - 1) * Font.Width
             char == c.text[n]
  <2>1. char \in DOMAIN Font.font_desc /\ m \in Int /\ c.x \in Int /\ c.y \in Int
    <3>1. n \in Nat /\ Font.Width \in Nat
      BY FontAssumption DEF FontAssumption
    <3> QED BY <3>1
  <2> HIDE DEF m, char
  <2>2. Char(c.x + m, c.y, char) = {p \in Points : Promise!Dot(char, p[1] - (c.x + m), p[2] - c.y)}
    <3>1. c.x + m \in Int
      BY <2>1
    <3> QED BY <2>1, <3>1, CharVisits
  <2>3. \A p \in Points : p[1] - (c.x + m) = p[1] - c.x - m
    BY <2>1 DEF Points
  <2>4. Char(c.x + m, c.y, char) = {p \in Points : Promise!Dot(char, p[1] - c.x - m, p[2] - c.y)}
    BY <2>2, <2>3
  <2> QED BY <2>4 DEF m, char
<1>2. \A p : p \in String(c) <=>
               \E n \in DOMAIN c.text : p \in Char(c.x + (n - 1) * Font.Width, c.y, c.text[n])
  BY DEF String
<1> QED BY <1>1, <1>2

(* The bits of an icon that are 1, or those that are 0, are in its box.    *)
LEMMA IconVisits ==
  ASSUME NEW c, {c.x, c.y} \subseteq Int, NEW colour,
         {c.icon.icon_width, c.icon.icon_height} \subseteq Nat, c.icon.icon_width % 8 = 0
  PROVE  IconPixels(c, colour) =
           {p \in Points : Promise!OnIcon(p, c) /\ (Promise!Dark(p, c) <=> colour # 1)}
<1> DEFINE bytes  == c.icon.icon_width \div 8
           height == c.icon.icon_height
           bits   == c.icon.buffer
<1>0. /\ c.x \in Int /\ c.y \in Int /\ height \in Nat
      /\ bytes \in Nat /\ c.icon.icon_width = 8 * bytes
  OBVIOUS
<1>1. IconPixels(c, colour) =
        {<<c.x + u[1] * 8 + u[3], c.y + u[2]>> : u \in
           {v \in (0 .. bytes - 1) \X (0 .. height - 1) \X (0 .. 7) :
              (7 - v[3] \in bits[v[1] + v[2] * bytes]) = (colour = 1)}}
  BY DEF IconPixels
<1>2. \A p : /\ Promise!OnIcon(p, c) <=> /\ p[1] - c.x \in 0 .. 8 * bytes - 1
                                         /\ p[2] - c.y \in 0 .. height - 1
             /\ Promise!Dark(p, c) <=>
                  7 - ((p[1] - c.x) % 8) \notin bits[(p[1] - c.x) \div 8 + (p[2] - c.y) * bytes]
  BY <1>0 DEF Promise!OnIcon, Promise!Dark
<1> HIDE DEF bytes, height, bits
<1>3. ASSUME NEW p \in IconPixels(c, colour)
      PROVE  p \in Points /\ Promise!OnIcon(p, c) /\ (Promise!Dark(p, c) <=> colour # 1)
  <2>1. PICK u \in (0 .. bytes - 1) \X (0 .. height - 1) \X (0 .. 7) :
               /\ (7 - u[3] \in bits[u[1] + u[2] * bytes]) = (colour = 1)
               /\ p = <<c.x + u[1] * 8 + u[3], c.y + u[2]>>
    BY <1>1
  <2> DEFINE a == u[1]
             j == u[2]
             k == u[3]
  <2>2. a \in 0 .. bytes - 1 /\ j \in 0 .. height - 1 /\ k \in 0 .. 7
    OBVIOUS
  <2>3. (7 - k \in bits[a + j * bytes]) <=> colour = 1
    BY <2>1
  <2>4. p = <<c.x + a * 8 + k, c.y + j>>
    BY <2>1
  <2> HIDE DEF a, j, k
  <2>5. p \in Points /\ p[1] - c.x = 8 * a + k /\ p[2] - c.y = j
    BY <1>0, <2>2, <2>4 DEF Points
  <2>6. 8 * a + k \in 0 .. 8 * bytes - 1 /\ (8 * a + k) \div 8 = a /\ (8 * a + k) % 8 = k
    BY <1>0, <2>2
  <2> QED BY <1>2, <2>2, <2>3, <2>5, <2>6
<1>4. ASSUME NEW p \in Points, Promise!OnIcon(p, c), Promise!Dark(p, c) <=> colour # 1
      PROVE  p \in IconPixels(c, colour)
  <2> DEFINE i == p[1] - c.x
             j == p[2] - c.y
             u == <<i \div 8, j, i % 8>>
  <2>1. i \in 0 .. 8 * bytes - 1 /\ j \in 0 .. height - 1
    BY <1>2, <1>4
  <2>2. (7 - (i % 8) \in bits[i \div 8 + j * bytes]) <=> colour = 1
    BY <1>2, <1>4
  <2>3. p = <<c.x + i, c.y + j>>
    BY <1>0 DEF Points
  <2> HIDE DEF i, j
  <2>4. i \div 8 \in 0 .. bytes - 1 /\ i % 8 \in 0 .. 7 /\ i = (i \div 8) * 8 + (i % 8)
    BY <1>0, <2>1
  <2>5. u \in (0 .. bytes - 1) \X (0 .. height - 1) \X (0 .. 7)
    BY <2>1, <2>4
  <2>6. (7 - u[3] \in bits[u[1] + u[2] * bytes]) = (colour = 1)
    BY <2>2
  <2>7. p = <<c.x + u[1] * 8 + u[3], c.y + u[2]>>
    <3>1. c.x + i = c.x + (i \div 8) * 8 + (i % 8)
      BY <1>0, <2>1, <2>4
    <3> QED BY <2>3, <3>1
  <2> HIDE DEF u
  <2> QED BY <1>1, <2>5, <2>6, <2>7
<1> QED BY <1>3, <1>4

-----------------------------------------------------------------------------
(* A call and a sequence of calls.                                         *)

(* A drawing call turns the pixels black that Canvas says.                 *)
LEMMA CallDraws ==
  ASSUME NEW img \in Buffer, NEW c, IsCall(c)
  PROVE  /\ Draw(img, c) \in Buffer
         /\ Black(Draw(img, c)) = {p \in Sheet : Promise!IsBlack(Black(img), p, c)}
<1> DEFINE Painted(pixels) == DrawPixels(img, pixels, c.colored)
           Becomes(pixels) ==
             {p \in Sheet : IF p \in pixels THEN c.colored = 0 ELSE p \in Black(img)}
<1>0. Sheet \subseteq Points
  BY Sizes DEF Sheet, Points
<1>1. ASSUME NEW pixels, pixels \subseteq Points
      PROVE  Painted(pixels) \in Buffer /\ Black(Painted(pixels)) = Becomes(pixels)
  BY <1>1, BytesStay, InkOfPixels DEF Points
<1> HIDE DEF Painted
<1>2. ASSUME c.op # "icon", NEW pixels, pixels \subseteq Points, Draw(img, c) = Painted(pixels),
             \A p \in Points : p \in pixels <=> Promise!OnShape(p, c)
      PROVE  /\ Draw(img, c) \in Buffer
             /\ Black(Draw(img, c)) = {p \in Sheet : Promise!IsBlack(Black(img), p, c)}
  BY <1>0, <1>1, <1>2 DEF Promise!IsBlack
<1>3. CASE c.op \in {"rectangle", "filled"} /\ {c.x0, c.y0, c.x1, c.y1} \subseteq Int
  <2>1. CASE c.op = "rectangle"
    <3>1. Draw(img, c) = Painted(Rectangle(c))
      BY <2>1 DEF Draw, Painted
    <3>2. /\ Rectangle(c) \subseteq Points
          /\ \A p \in Points : p \in Rectangle(c) <=> Promise!OnShape(p, c)
      BY <1>3, <2>1, RectangleVisits DEF Promise!OnShape
    <3> QED BY <1>2, <2>1, <3>1, <3>2
  <2>2. CASE c.op = "filled"
    <3>1. Draw(img, c) = Painted(FilledRectangle(c))
      BY <2>2 DEF Draw, Painted
    <3>2. /\ FilledRectangle(c) \subseteq Points
          /\ \A p \in Points : p \in FilledRectangle(c) <=> Promise!OnShape(p, c)
      BY <1>3, <2>2, FilledRectangleVisits DEF Promise!OnShape
    <3> QED BY <1>2, <2>2, <3>1, <3>2
  <2> QED BY <1>3, <2>1, <2>2
<1>4. CASE /\ c.op = "string" /\ {c.x, c.y} \subseteq Int
           /\ c.text \in Seq(DOMAIN Font.font_desc)
  <2>1. Draw(img, c) = Painted(String(c))
    BY <1>4 DEF Draw, Painted
  <2>2. /\ String(c) \subseteq Points
        /\ \A p \in Points : p \in String(c) <=> Promise!OnShape(p, c)
    BY <1>4, StringVisits DEF Promise!OnShape
  <2> QED BY <1>2, <1>4, <2>1, <2>2
<1>5. CASE /\ c.op = "icon" /\ {c.x, c.y} \subseteq Int
           /\ {c.icon.icon_width, c.icon.icon_height} \subseteq Nat
           /\ c.icon.icon_width % 8 = 0
  <2> DEFINE wiped == DrawPixels(img, IconPixels(c, 0), 0)
  <2>1. Draw(img, c) = DrawPixels(wiped, IconPixels(c, 1), 1)
    BY <1>5 DEF Draw, DrawIcon
  <2>2. /\ IconPixels(c, 0) = {p \in Points : Promise!OnIcon(p, c) /\ Promise!Dark(p, c)}
        /\ IconPixels(c, 1) = {p \in Points : Promise!OnIcon(p, c) /\ ~Promise!Dark(p, c)}
    BY <1>5, IconVisits
  <2>3. /\ wiped \in Buffer
        /\ Black(wiped) =
             {p \in Sheet : IF p \in IconPixels(c, 0) THEN 0 = 0 ELSE p \in Black(img)}
    BY <2>2, BytesStay, InkOfPixels DEF Points
  <2> HIDE DEF wiped
  <2>4. /\ Draw(img, c) \in Buffer
        /\ Black(Draw(img, c)) =
             {p \in Sheet : IF p \in IconPixels(c, 1) THEN 1 = 0 ELSE p \in Black(wiped)}
    BY <2>1, <2>2, <2>3, BytesStay, InkOfPixels DEF Points
  <2>5. \A p \in Sheet : p \in Black(Draw(img, c)) <=> Promise!IsBlack(Black(img), p, c)
    BY <1>0, <1>5, <2>2, <2>3, <2>4 DEF Promise!IsBlack
  <2> QED BY <2>4, <2>5
<1> QED BY <1>3, <1>4, <1>5 DEF IsCall

(* The buffer after each of the first n calls.                             *)
Buffers(img, calls, n, f) ==
  f = [m \in 0 .. n |-> IF m = 0 THEN img ELSE Draw(f[m - 1], calls[m])]

LEMMA BuffersExist ==
  ASSUME NEW img, NEW calls
  PROVE  \A n \in Nat : \E f : Buffers(img, calls, n, f)
<1> DEFINE S == {n \in Nat : \E f : Buffers(img, calls, n, f)}
<1>1. 0 \in S
  <2>1. Buffers(img, calls, 0, [m \in 0 .. 0 |-> img])
    BY DEF Buffers
  <2> QED BY <2>1
<1>2. ASSUME NEW n \in Nat, n \in S PROVE n + 1 \in S
  <2>1. PICK f : Buffers(img, calls, n, f)
    BY <1>2
  <2> DEFINE h == [m \in 0 .. n + 1 |-> IF m = n + 1 THEN Draw(f[n], calls[m]) ELSE f[m]]
  <2>2. ASSUME NEW m \in 0 .. n + 1
        PROVE  h[m] = IF m = 0 THEN img ELSE Draw(h[m - 1], calls[m])
    <3>1. CASE m = n + 1
      BY <3>1
    <3>2. CASE m # n + 1
      <4>1. m \in 0 .. n /\ (m # 0 => m - 1 \in 0 .. n)
        BY <3>2
      <4>2. f[m] = IF m = 0 THEN img ELSE Draw(f[m - 1], calls[m])
        BY <2>1, <4>1 DEF Buffers
      <4> QED BY <4>1, <4>2
    <3> QED BY <3>1, <3>2
  <2>3. h = [m \in 0 .. n + 1 |-> IF m = 0 THEN img ELSE Draw(h[m - 1], calls[m])]
    BY <2>2
  <2> HIDE DEF h
  <2>4. Buffers(img, calls, n + 1, h)
    BY <2>3 DEF Buffers
  <2> QED BY <2>4
<1> HIDE DEF S
<1>3. Nat \subseteq S
  BY <1>1, <1>2, NatSetInduction
<1> QED BY <1>3 DEF S

LEMMA BufferNext ==
  ASSUME NEW img, NEW calls, NEW n \in Nat, NEW f, Buffers(img, calls, n, f),
         NEW m \in 0 .. n
  PROVE  f[m] = IF m = 0 THEN img ELSE Draw(f[m - 1], calls[m])
<1> DEFINE Step(g) == [k \in 0 .. n |-> IF k = 0 THEN img ELSE Draw(g[k - 1], calls[k])]
<1>1. f = Step(f)
  BY DEF Buffers
<1>2. Step(f)[m] = IF m = 0 THEN img ELSE Draw(f[m - 1], calls[m])
  OBVIOUS
<1> HIDE DEF Step
<1> QED BY <1>1, <1>2

LEMMA BufferFirst ==
  ASSUME NEW img, NEW calls, NEW n \in Nat, NEW f, Buffers(img, calls, n, f)
  PROVE  f[0] = img
<1>1. 0 \in 0 .. n
  OBVIOUS
<1> QED BY <1>1, BufferNext

LEMMA BuffersStay ==
  ASSUME NEW img \in Buffer, NEW calls, NEW n \in Nat, \A m \in 1 .. n : IsCall(calls[m]),
         NEW f, Buffers(img, calls, n, f)
  PROVE  \A m \in 0 .. n : f[m] \in Buffer
<1> DEFINE S == {m \in Nat : m <= n => f[m] \in Buffer}
<1>1. 0 \in S
  BY BufferNext
<1>2. ASSUME NEW m \in Nat, m \in S PROVE m + 1 \in S
  <2>1. SUFFICES ASSUME m + 1 <= n PROVE f[m + 1] \in Buffer
    OBVIOUS
  <2>2. f[m + 1] = Draw(f[m], calls[m + 1])
    <3>1. m + 1 \in 0 .. n /\ m + 1 # 0 /\ (m + 1) - 1 = m
      BY <2>1
    <3> QED BY <3>1, BufferNext
  <2>3. f[m] \in Buffer /\ IsCall(calls[m + 1])
    BY <1>2, <2>1
  <2> QED BY <2>2, <2>3, CallDraws
<1> HIDE DEF S
<1>3. Nat \subseteq S
  BY <1>1, <1>2, NatSetInduction
<1> QED BY <1>3 DEF S

(* The ink after each of the first n calls, as Canvas has it.              *)
Inks(black, calls, n, g) ==
  g = [m \in 0 .. n |->
         IF m = 0 THEN black ELSE {p \in Sheet : Promise!IsBlack(g[m - 1], p, calls[m])}]

LEMMA InkNext ==
  ASSUME NEW img \in Buffer, NEW calls, NEW n \in Nat, \A m \in 1 .. n : IsCall(calls[m]),
         NEW f, Buffers(img, calls, n, f), NEW m \in 1 .. n
  PROVE  Black(f[m]) = {p \in Sheet : Promise!IsBlack(Black(f[m - 1]), p, calls[m])}
<1>1. m \in 0 .. n /\ m # 0 /\ m - 1 \in 0 .. n
  OBVIOUS
<1>2. f[m] = Draw(f[m - 1], calls[m])
  BY <1>1, BufferNext
<1>3. f[m - 1] \in Buffer
  BY <1>1, BuffersStay
<1> QED BY <1>2, <1>3, CallDraws

LEMMA InksExist ==
  ASSUME NEW img \in Buffer, NEW calls, NEW n \in Nat, \A m \in 1 .. n : IsCall(calls[m]),
         NEW f, Buffers(img, calls, n, f)
  PROVE  Inks(Black(img), calls, n, [m \in 0 .. n |-> Black(f[m])])
<1>first. f[0] = img
  BY BufferFirst
<1> DEFINE g == [m \in 0 .. n |-> Black(f[m])]
<1>1. ASSUME NEW m \in 0 .. n
      PROVE  g[m] = IF m = 0 THEN Black(img)
                    ELSE {p \in Sheet : Promise!IsBlack(g[m - 1], p, calls[m])}
  <2>1. CASE m = 0
    BY <1>first, <2>1
  <2>2. CASE m # 0
    <3>1. m \in 1 .. n /\ m - 1 \in 0 .. n
      BY <2>2
    <3>2. g[m] = Black(f[m]) /\ g[m - 1] = Black(f[m - 1])
      BY <3>1
    <3>3. Black(f[m]) = {p \in Sheet : Promise!IsBlack(Black(f[m - 1]), p, calls[m])}
      BY <3>1, InkNext
    <3> HIDE DEF g
    <3> QED BY <2>2, <3>2, <3>3
  <2> QED BY <2>1, <2>2
<1>2. g = [m \in 0 .. n |->
             IF m = 0 THEN Black(img)
             ELSE {p \in Sheet : Promise!IsBlack(g[m - 1], p, calls[m])}]
  <2> DEFINE Value(m) == IF m = 0 THEN Black(img)
                         ELSE {p \in Sheet : Promise!IsBlack(g[m - 1], p, calls[m])}
  <2>1. \A m \in 0 .. n : g[m] = Value(m)
    BY <1>1
  <2>2. g = [m \in 0 .. n |-> g[m]]
    OBVIOUS
  <2> HIDE DEF g, Value
  <2>3. g = [m \in 0 .. n |-> Value(m)]
    BY <2>1, <2>2
  <2> QED BY <2>3 DEF Value
<1> HIDE DEF g
<1>3. Inks(Black(img), calls, n, g)
  BY <1>2 DEF Inks
<1> QED BY <1>3 DEF g

LEMMA InksAre ==
  ASSUME NEW img \in Buffer, NEW calls, NEW n \in Nat, \A m \in 1 .. n : IsCall(calls[m]),
         NEW f, Buffers(img, calls, n, f),
         NEW g, Inks(Black(img), calls, n, g)
  PROVE  g[n] = Black(f[n])
<1>first. f[0] = img
  BY BufferFirst
<1> DEFINE Step(k) ==
      [m \in 0 .. n |->
         IF m = 0 THEN Black(img) ELSE {p \in Sheet : Promise!IsBlack(k[m - 1], p, calls[m])}]
<1>1. g = Step(g)
  BY DEF Inks
<1>2. \A m \in 0 .. n :
        Step(g)[m] = IF m = 0 THEN Black(img)
                     ELSE {p \in Sheet : Promise!IsBlack(g[m - 1], p, calls[m])}
  OBVIOUS
<1> HIDE DEF Step
<1>3. \A m \in 0 .. n :
        g[m] = IF m = 0 THEN Black(img)
               ELSE {p \in Sheet : Promise!IsBlack(g[m - 1], p, calls[m])}
  BY <1>1, <1>2
<1> DEFINE S == {m \in Nat : m <= n => g[m] = Black(f[m])}
<1>4. 0 \in S
  <2>1. 0 \in 0 .. n
    OBVIOUS
  <2> QED BY <1>first, <1>3, <2>1
<1>5. ASSUME NEW m \in Nat, m \in S PROVE m + 1 \in S
  <2>1. SUFFICES ASSUME m + 1 <= n PROVE g[m + 1] = Black(f[m + 1])
    OBVIOUS
  <2>2. m + 1 \in 1 .. n /\ m + 1 \in 0 .. n /\ m + 1 # 0 /\ (m + 1) - 1 = m
    BY <2>1
  <2>3. g[m] = Black(f[m])
    BY <1>5, <2>1
  <2>4. g[m + 1] = {p \in Sheet : Promise!IsBlack(g[m], p, calls[m + 1])}
    BY <1>3, <2>2
  <2>5. Black(f[m + 1]) = {p \in Sheet : Promise!IsBlack(Black(f[m]), p, calls[m + 1])}
    BY <2>2, InkNext
  <2> QED BY <2>3, <2>4, <2>5
<1> HIDE DEF S
<1>6. Nat \subseteq S
  BY <1>4, <1>5, NatSetInduction
<1> QED BY <1>6 DEF S

(* What class Display draws with some calls is what Canvas inks with them. *)
LEMMA CallsDraw ==
  ASSUME NEW img \in Buffer, NEW calls, Len(calls) \in Nat,
         \A m \in 1 .. Len(calls) : IsCall(calls[m])
  PROVE  /\ Drawn(img, calls) \in Buffer
         /\ Black(Drawn(img, calls)) = Promise!Inked(Black(img), calls)
<1> DEFINE n == Len(calls)
           f == CHOOSE h : Buffers(img, calls, n, h)
           g == CHOOSE h : Inks(Black(img), calls, n, h)
<1>1. Drawn(img, calls) = f[n]
  BY DEF Drawn, Buffers
<1>2. Promise!Inked(Black(img), calls) = g[n]
  BY DEF Promise!Inked, Promise!Pixels, Inks, Sheet
<1> HIDE DEF n
<1>0. n \in Nat /\ \A m \in 1 .. n : IsCall(calls[m])
  BY DEF n
<1>3. Buffers(img, calls, n, f)
  BY <1>0, BuffersExist
<1> HIDE DEF f
<1>4. f[n] \in Buffer
  BY <1>0, <1>3, BuffersStay
<1>5. Inks(Black(img), calls, n, g)
  BY <1>0, <1>3, InksExist
<1> HIDE DEF g
<1>6. g[n] = Black(f[n])
  BY <1>0, <1>3, <1>5, InksAre
<1> QED BY <1>1, <1>2, <1>4, <1>6 DEF n

-----------------------------------------------------------------------------
(* The types, and the refinement of Canvas.                                *)

(* Every step of app_main leaves a buffer in place, one with the pixels that
   Canvas says.                                                            *)
LEMMA ImageStep ==
  ASSUME image \in Buffer, [Next]_vars
  PROVE  /\ image' \in Buffer
         /\ \/ ResetPin /\ Black(image)' = {}
            \/ /\ pc # "Display" /\ pc' # "Display"
               /\ \E calls \in Updates \cup {Outline} :
                    Black(image)' = Promise!Inked(Black(image), calls)
            \/ Reset
            \/ UNCHANGED image /\ (pc # "Display")' = (pc # "Display")
<1>1. CASE ResetPin
  BY <1>1, Cleared DEF ResetPin
<1>2. ASSUME NEW at, at # "Display", NEW calls \in Updates \cup {Outline}, Draws(at, calls)
      PROVE  /\ image' \in Buffer /\ pc # "Display" /\ pc' # "Display"
             /\ Black(image)' = Promise!Inked(Black(image), calls)
  <2>1. Len(calls) \in Nat /\ \A m \in 1 .. Len(calls) : IsCall(calls[m])
    BY CallsAssumption DEF CallsAssumption
  <2>2. image' = Drawn(image, calls) /\ pc = at /\ pc' = "running"
    BY <1>2 DEF Draws
  <2>3. Drawn(image, calls) \in Buffer
        /\ Black(Drawn(image, calls)) = Promise!Inked(Black(image), calls)
    BY <2>1, CallsDraw
  <2>4. Black(image)' = Black(Drawn(image, calls))
    BY <2>2
  <2> QED BY <1>2, <2>2, <2>3, <2>4
<1>3. CASE displayOutline
  <2>1. Draws("displayOutline", Outline) /\ Outline \in Updates \cup {Outline}
    BY <1>3 DEF displayOutline
  <2> QED BY <1>2, <2>1
<1>4. CASE Update
  <2>1. PICK calls \in Updates : Draws("running", calls)
    BY <1>4 DEF Update
  <2> QED BY <1>2, <2>1
<1>5. CASE Reset
  BY <1>5, PanelAssumption DEF Reset, PanelAssumption
<1>6. CASE \/ SwReset \/ SetWindow \/ WaitAfterInit \/ ClearByte \/ WaitAfterClear
           \/ displayRefresh \/ DisplayPart \/ WaitAfterRefresh \/ Finish \/ UNCHANGED vars
  <2>1. UNCHANGED image /\ (pc # "Display")' = (pc # "Display")
    BY <1>6 DEF SwReset, SetWindow, WaitAfterInit, ClearByte, WaitAfterClear,
       displayRefresh, DisplayPart, WaitAfterRefresh, WaitUntilIdle, Waited, SendByte,
       Command, Finish, chip, vars
  <2> QED BY <2>1
<1> QED BY <1>1, <1>3, <1>4, <1>5, <1>6 DEF Next, app_main, start, refresh, LDirInit

(* The byte that is read is always one of the buffer's, and the one that is
   written one of the window's.                                            *)
THEOREM TypeInvariant == Spec => []TypeOK
<1>0. /\ Bytes \in Nat \ {0} /\ Cells \in Nat \ {0} /\ FirstCell \in 0 .. Cells - 1
      /\ Garbage \subseteq Buffer
  BY Windows, PanelAssumption DEF PanelAssumption
<1>1. Init => TypeOK
  BY <1>0 DEF Init, TypeOK
<1>2. TypeOK /\ [Next]_vars => TypeOK'
  <2> SUFFICES ASSUME TypeOK, [Next]_vars PROVE TypeOK'
    OBVIOUS
  <2> USE DEF TypeOK, Waited
  <2>1. image' \in Buffer
    BY ImageStep
  <2>2. CASE ResetPin \/ SwReset \/ SetWindow
    BY <1>0, <2>1, <2>2 DEF ResetPin, SwReset, SetWindow, Command
  <2>3. ASSUME NEW at, NEW frame, NEW next \in {"cleared", "displayed"},
               SendByte(at, frame, next)
        PROVE  TypeOK'
    <3>1. counter' = Cell(counter, 1) /\ UNCHANGED <<image, dispNeedRefresh>>
      BY <2>3 DEF SendByte
    <3>2. counter' \in 0 .. Cells - 1
      BY <3>1, CellIs
    <3>3. CASE LastByte
      BY <1>0, <2>1, <2>3, <3>1, <3>2, <3>3 DEF SendByte, Command
    <3>4. CASE ~LastByte
      <4>1. sent' = sent + 1 /\ UNCHANGED <<pc, busy>>
        BY <2>3, <3>4 DEF SendByte
      <4>2. sent' \in 0 .. Bytes - 1
        BY <1>0, <3>4, <4>1 DEF LastByte
      <4> QED BY <2>1, <3>1, <3>2, <4>1, <4>2
    <3> QED BY <3>3, <3>4
  <2>4. CASE ClearByte \/ DisplayPart
    BY <2>3, <2>4 DEF ClearByte, DisplayPart
  <2>5. CASE WaitAfterInit \/ WaitAfterClear \/ WaitAfterRefresh
    BY <2>1, <2>5 DEF WaitAfterInit, WaitAfterClear, WaitAfterRefresh, WaitUntilIdle, panel
  <2>6. ASSUME NEW at, NEW calls, Draws(at, calls) PROVE TypeOK'
    BY <2>1, <2>6 DEF Draws, panel
  <2>7. CASE displayRefresh
    BY <2>1, <2>7 DEF displayRefresh, panel
  <2>8. CASE Finish
    BY <2>1, <2>8 DEF Finish, chip
  <2>9. CASE Reset
    BY <1>0, <2>1, <2>9 DEF Reset, panel
  <2>10. CASE UNCHANGED vars
    BY <2>1, <2>10 DEF vars, chip, panel
  <2> QED
    BY <2>2, <2>4, <2>5, <2>6, <2>7, <2>8, <2>9, <2>10
       DEF Next, app_main, start, refresh, LDirInit, displayOutline, Update
<1> QED BY <1>1, <1>2, PTL DEF Spec

(* The painter implements Canvas: whatever class Display draws, in whichever
   order, over whatever malloc returned and after any reset, the bits of the
   frame buffer are black where the shapes, glyphs and icons say.          *)
THEOREM DrawsThePictureHolds == Spec => DrawsThePicture
<1>1. BlackPixels = Black(image)
  BY DEF BlackPixels, Black, Sheet
<1>2. Black(image) \subseteq Promise!Pixels
  BY DEF Black, Sheet, Promise!Pixels
<1>3. Init => Promise!Init
  BY <1>1, <1>2 DEF Init, Promise!Init
<1>4. TypeOK /\ [Next]_vars => [Promise!Next]_<<pc # "Display", BlackPixels>>
  <2> SUFFICES ASSUME image \in Buffer, [Next]_vars
               PROVE  [Promise!Next]_<<pc # "Display", BlackPixels>>
    BY DEF TypeOK
  <2>0. BlackPixels' = Black(image)'
    BY DEF BlackPixels, Black, Sheet
  <2>1. CASE ResetPin /\ Black(image)' = {}
    <3>1. pc = "Display" /\ pc' = "Reset"
      BY <2>1 DEF ResetPin, Command
    <3> QED BY <2>0, <2>1, <3>1 DEF Promise!Next, Promise!Blank
  <2>2. CASE /\ pc # "Display" /\ pc' # "Display"
             /\ \E calls \in Updates \cup {Outline} :
                  Black(image)' = Promise!Inked(Black(image), calls)
    BY <1>1, <2>0, <2>2 DEF Promise!Next, Promise!Draws
  <2>3. CASE Reset
    <3>1. pc' = "Display" /\ BlackPixels' \subseteq Promise!Pixels
      BY <2>3 DEF Reset, BlackPixels, Promise!Pixels
    <3> QED BY <3>1 DEF Promise!Next, Promise!Lose
  <2>4. CASE UNCHANGED image /\ (pc # "Display")' = (pc # "Display")
    BY <2>4 DEF BlackPixels
  <2> QED BY <2>1, <2>2, <2>3, <2>4, ImageStep
<1> QED BY <1>3, <1>4, TypeInvariant, PTL DEF Spec, DrawsThePicture, Promise!Spec


-----------------------------------------------------------------------------
(* What module Display takes a text and an icon for.                       *)

(* Calls of the same shape.                                                *)
SameText(c, d) ==
  c.op = "string" /\ d.op = "string" /\ c.x = d.x /\ c.y = d.y /\ c.text = d.text
SameBox(c, d) ==
  /\ c.op = "icon" /\ d.op = "icon" /\ c.x = d.x /\ c.y = d.y
  /\ c.icon.icon_width = d.icon.icon_width /\ c.icon.icon_height = d.icon.icon_height

(* A text drawn again in the background colour is gone (updateEnvData,
   updateFlow: display.cpp:107, 121), and so is whatever else its dots were
   dots of; where there was nothing before it, the picture is as it was.   *)
THEOREM OlderTextIsWiped ==
  ASSUME NEW img \in Buffer, NEW c, NEW d, IsCall(c), IsCall(d), SameText(c, d),
         c.colored = COLORED, d.colored = UNCOLORED
  PROVE  /\ Black(Draw(Draw(img, c), d)) = Black(img) \ String(c)
         /\ Black(img) \cap String(c) = {} => Black(Draw(Draw(img, c), d)) = Black(img)
<1>1. /\ Draw(img, c) \in Buffer
      /\ Black(Draw(img, c)) = {p \in Sheet : Promise!IsBlack(Black(img), p, c)}
      /\ Black(Draw(Draw(img, c), d)) =
           {p \in Sheet : Promise!IsBlack(Black(Draw(img, c)), p, d)}
  BY CallDraws
<1>2. Sheet \subseteq Points
  BY Sizes DEF Sheet, Points
<1>3. \A p \in Sheet : /\ p \in String(c) <=> Promise!OnShape(p, c)
                       /\ p \in String(c) <=> Promise!OnShape(p, d)
  <2>1. {c.x, c.y} \subseteq Int /\ c.text \in Seq(DOMAIN Font.font_desc) /\ c.op = "string"
    BY DEF IsCall, SameText
  <2>2. \A p \in Sheet : p \in String(c) <=> Promise!OnShape(p, c)
    BY <1>2, <2>1, StringVisits DEF Promise!OnShape
  <2>3. \A p \in Sheet : Promise!OnShape(p, c) <=> Promise!OnShape(p, d)
    BY DEF SameText, Promise!OnShape
  <2> QED BY <2>2, <2>3
<1>4. \A p \in Sheet : p \in Black(Draw(Draw(img, c), d)) <=> p \in Black(img) \ String(c)
  BY <1>1, <1>3 DEF Promise!IsBlack, SameText, COLORED, UNCOLORED
<1>5. Black(img) \subseteq Sheet
  BY DEF Black
<1> QED BY <1>1, <1>4, <1>5

(* An icon takes the place of the one before it, dark pixels and light ones
   (updateWifiState, updateOutputState: display.cpp:48-82).                *)
THEOREM IconTakesItsPlace ==
  ASSUME NEW img \in Buffer, NEW c, NEW d, IsCall(c), IsCall(d), SameBox(c, d)
  PROVE  Black(Draw(Draw(img, c), d)) = Black(Draw(img, d))
<1>1. /\ Draw(img, c) \in Buffer
      /\ Black(Draw(img, c)) = {p \in Sheet : Promise!IsBlack(Black(img), p, c)}
      /\ Black(Draw(img, d)) = {p \in Sheet : Promise!IsBlack(Black(img), p, d)}
      /\ Black(Draw(Draw(img, c), d)) =
           {p \in Sheet : Promise!IsBlack(Black(Draw(img, c)), p, d)}
  BY CallDraws
<1>2. \A p : Promise!OnIcon(p, c) <=> Promise!OnIcon(p, d)
  BY DEF SameBox, Promise!OnIcon
<1>3. \A p \in Sheet : Promise!IsBlack(Black(Draw(img, c)), p, d)
                         <=> Promise!IsBlack(Black(img), p, d)
  BY <1>1, <1>2 DEF Promise!IsBlack, SameBox
<1> QED BY <1>1, <1>3


-----------------------------------------------------------------------------
(* Why app_main comes back: what is left of a start or a refresh.          *)

(* The steps app_main has still to take until it runs.                     *)
StepsLeft ==
  CASE pc = "Display"        -> Bytes + 6
    [] pc = "Reset"          -> Bytes + 5
    [] pc = "SWRESET"        -> Bytes + 4
    [] pc = "LDirInit"       -> Bytes + 3
    [] pc = "Clear"          -> Bytes + 2 - sent
    [] pc = "cleared"        -> 2
    [] pc = "displayOutline" -> 1
    [] pc = "DisplayPart"    -> Bytes + 1 - sent
    [] pc = "displayed"      -> 1
    [] pc = "running"        -> 0

(* Every step of a start or a refresh is one of finitely many, and the panel,
   which they wait for, takes none back, but is idle after one step of its
   own.  So app_main comes back, if both have their turns and no reset comes
   in between.                                                             *)
THEOREM FrameGetsOn ==
  Spec => [](StepsLeft \in Nat /\ (StepsLeft = 0 <=> pc = "running"))
          /\ [][/\ app_main /\ pc # "running" => StepsLeft' < StepsLeft
                /\ Finish => StepsLeft' = StepsLeft /\ busy' = "idle"]_vars
<1>0. Bytes \in Nat \ {0}
  BY Windows
<1> HIDE DEF Bytes
<1>1. TypeOK => StepsLeft \in Nat /\ (StepsLeft = 0 <=> pc = "running")
  BY <1>0 DEF TypeOK, StepsLeft
<1>2. TypeOK /\ [Next]_vars =>
        [/\ app_main /\ pc # "running" => StepsLeft' < StepsLeft
         /\ Finish => StepsLeft' = StepsLeft /\ busy' = "idle"]_vars
  <2> SUFFICES ASSUME TypeOK
               PROVE  /\ app_main /\ pc # "running" => StepsLeft' < StepsLeft
                      /\ Finish => StepsLeft' = StepsLeft /\ busy' = "idle"
    OBVIOUS
  <2>0. sent \in 0 .. Bytes - 1
    BY DEF TypeOK
  <2>1. Finish => StepsLeft' = StepsLeft /\ busy' = "idle"
    BY DEF Finish, chip, StepsLeft
  <2>2. ResetPin \/ SwReset \/ SetWindow => StepsLeft' < StepsLeft
    BY <1>0 DEF ResetPin, SwReset, SetWindow, Waited, Command, StepsLeft
  <2>3. ASSUME NEW at, NEW frame, NEW next, SendByte(at, frame, next),
               <<at, next>> \in {<<"Clear", "cleared">>, <<"DisplayPart", "displayed">>}
        PROVE  StepsLeft' < StepsLeft
    <3>1. CASE LastByte
      <4>1. pc = at /\ pc' = next /\ sent + 1 = Bytes
        BY <2>3, <3>1 DEF SendByte, Command, LastByte
      <4> QED BY <1>0, <2>0, <2>3, <4>1 DEF StepsLeft
    <3>2. CASE ~LastByte
      <4>1. pc = at /\ pc' = pc /\ sent' = sent + 1
        BY <2>3, <3>2 DEF SendByte
      <4> QED BY <1>0, <2>0, <2>3, <4>1 DEF StepsLeft
    <3> QED BY <3>1, <3>2
  <2>4. ClearByte \/ DisplayPart => StepsLeft' < StepsLeft
    BY <2>3 DEF ClearByte, DisplayPart
  <2>5. WaitAfterInit \/ WaitAfterClear \/ WaitAfterRefresh => StepsLeft' < StepsLeft
    BY <1>0, <2>0 DEF WaitAfterInit, WaitAfterClear, WaitAfterRefresh, WaitUntilIdle, Waited,
       StepsLeft
  <2>6. displayOutline => StepsLeft' < StepsLeft
    BY DEF displayOutline, Draws, StepsLeft
  <2>7. Update \/ displayRefresh => pc = "running"
    BY DEF Update, Draws, displayRefresh
  <2> QED
    BY <2>1, <2>2, <2>4, <2>5, <2>6, <2>7 DEF app_main, start, refresh, LDirInit
<1> QED BY <1>1, <1>2, TypeInvariant, PTL DEF Spec

=============================================================================
