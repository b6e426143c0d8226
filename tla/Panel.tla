-------------------------------- MODULE Panel --------------------------------
(***************************************************************************)
(* The e-paper display below the texts of module Display: the frame buffer *)
(* that class Display draws into (components/display), its transfer byte   *)
(* by byte and the wait for the panel (components/epaper/epd1in54_V2), and *)
(* the panel itself, which is external: a memory with an address counter   *)
(* that goes through the window LDirInit sets and wraps at its end, a busy *)
(* pin, and the glass.                                                     *)
(*                                                                         *)
(* What a panel makes of a window that is larger than its memory is not in *)
(* the source; the window is a parameter.  LDirInit's has a column and a   *)
(* row more than the glass, and more bytes than a frame: each frame begins *)
(* where the one before it ended.                                          *)
(***************************************************************************)
EXTENDS Paint

CONSTANTS
  RamCols,    \* bytes in a row of the window LDirInit sets (0 .. 200 >> 3)
  RamRows,    \* rows of that window (0 .. 200)
  FirstRow,   \* the row where it puts the counter (0xC7)
  Lines,      \* lines of the glass (200)
  Outline,    \* the drawing calls of displayOutline
  Updates,    \* the drawing calls of the update functions, for some values
  Garbage,    \* what malloc can return
  MaxResets

ASSUME PanelAssumption ==
  /\ RamCols \in Nat \ {0} /\ EPD_WIDTH <= 8 * RamCols
  /\ RamRows \in Nat \ {0} /\ FirstRow \in 0 .. RamRows - 1 /\ Lines \in 1 .. RamRows
  /\ Garbage \subseteq Buffer /\ Garbage # {} /\ MaxResets \in Nat

(* What class Display calls the painter with (display.cpp:39-145).         *)
ASSUME CallsAssumption ==
  \A calls \in Updates \cup {Outline} :
    Len(calls) \in Nat /\ \A n \in 1 .. Len(calls) : IsCall(calls[n])

VARIABLES
  pc, sent,         \* where app_main is, and the bytes it sent (i + j * w)
  image,            \* frameBuffer
  dispNeedRefresh,
  ram, counter,     \* the panel's memory, row after row, and its counter
  busy,             \* "idle", "init" or "update"
  glass,
  begun, asked,     \* history: where the last transfer began, and the frame
                    \* that was sent when the glass was last to be updated
  resets

chip  == <<pc, sent, image, dispNeedRefresh>>
panel == <<ram, counter, busy, glass>>
hist  == <<begun, asked>>
vars  == <<chip, panel, hist, resets>>

w     == EPD_WIDTH \div 8
Bytes == w * EPD_HEIGHT
White == [n \in 0 .. Bytes - 1 |-> 0 .. 7]

(* The window, and what of it is behind the glass.                         *)
Cells     == RamCols * RamRows
FirstCell == FirstRow * RamCols
Visible   == {x + y * RamCols : x \in 0 .. w - 1, y \in 0 .. Lines - 1}

(* Where the n-th byte goes of a frame that begins at a cell.              *)
Cell(from, n) == (from + n) % Cells

Init ==
  /\ pc = "Display" /\ sent = 0 /\ image \in Garbage /\ dispNeedRefresh \in BOOLEAN
  /\ ram = [c \in 0 .. Cells - 1 |-> {}] /\ counter = 0 /\ busy = "idle"
  /\ glass = [c \in Visible |-> 0 .. 7] /\ begun = 0 /\ asked = White /\ resets = 0

-----------------------------------------------------------------------------
(* The panel is given something to do, and waited for.                     *)
Command(what, next) == busy' = what /\ pc' = next
Waited(at) == pc = at /\ busy = "idle"

(* Display::Display, and the first lines of LDirInit: the reset pin ends   *)
(* whatever the panel was doing.                                           *)
ResetPin ==
  /\ pc = "Display" /\ image' = Clear(image, UNCOLORED) /\ Command("init", "Reset")
  /\ UNCHANGED <<sent, dispNeedRefresh, ram, counter, glass, hist, resets>>

SwReset ==
  /\ Waited("Reset") /\ Command("init", "SWRESET")
  /\ UNCHANGED <<sent, image, dispNeedRefresh, ram, counter, glass, hist, resets>>

(* Bug: the counter is left where it was.                                  *)
BugKeepsCounter ==
  /\ Waited("SWRESET") /\ Command("init", "LDirInit")
  /\ UNCHANGED <<sent, image, dispNeedRefresh, ram, counter, glass, hist, resets>>

(* The rest of LDirInit, to its last wait.                                 *)
SetWindow ==
  /\ Waited("SWRESET") /\ counter' = FirstCell /\ Command("init", "LDirInit")
  /\ UNCHANGED <<sent, image, dispNeedRefresh, ram, glass, hist, resets>>

(* Bug: the loop over the rows makes one pass more.                        *)
BugOneRowMore == sent + 1 = w * (EPD_HEIGHT + 1)

(* Bug: as many rows are sent as the glass has lines.                      *)
BugOnlyTheLines == sent + 1 = w * Lines

LastByte == sent + 1 = Bytes

(* A byte goes to the memory; the last one is followed by the update.      *)
SendByte(at, frame, next) ==
  /\ pc = at
  /\ ram' = [ram EXCEPT ![counter] = frame[sent]] /\ counter' = Cell(counter, 1)
  /\ IF LastByte THEN Command("update", next) /\ sent' = 0 /\ asked' = frame
                 ELSE sent' = sent + 1 /\ UNCHANGED <<pc, busy, asked>>
  /\ UNCHANGED <<image, dispNeedRefresh, glass, begun, resets>>

ClearByte   == SendByte("Clear", White, "cleared")
DisplayPart == SendByte("DisplayPart", image, "displayed")

WaitUntilIdle(at, next) ==
  /\ Waited(at) /\ pc' = next
  /\ UNCHANGED <<sent, image, panel, asked, resets>>

WaitAfterInit ==
  WaitUntilIdle("LDirInit", "Clear") /\ begun' = counter /\ UNCHANGED dispNeedRefresh

WaitAfterClear ==
  WaitUntilIdle("cleared", "displayOutline") /\ UNCHANGED <<begun, dispNeedRefresh>>

(* Bug: the frame is sent for as long as the flag is set, which is cleared *)
(* behind that loop.                                                       *)
BugSendsAgain ==
  /\ WaitUntilIdle("displayed", IF dispNeedRefresh THEN "DisplayPart" ELSE "running")
  /\ UNCHANGED <<begun, dispNeedRefresh>>

WaitAfterRefresh ==
  WaitUntilIdle("displayed", "running") /\ dispNeedRefresh' = FALSE /\ UNCHANGED begun

(* The buffer after one drawing call and the next.                         *)
Drawn(img, calls) ==
  LET after[n \in 0 .. Len(calls)] ==
        IF n = 0 THEN img ELSE Draw(after[n - 1], calls[n])
  IN after[Len(calls)]

(* Bug: an update forgets to ask for a refresh.                            *)
BugForgetsRefresh(at, calls) ==
  /\ pc = at /\ pc' = "running" /\ image' = Drawn(image, calls)
  /\ UNCHANGED <<sent, dispNeedRefresh, panel, hist, resets>>

Draws(at, calls) ==
  /\ pc = at /\ pc' = "running"
  /\ image' = Drawn(image, calls) /\ dispNeedRefresh' = TRUE
  /\ UNCHANGED <<sent, panel, hist, resets>>

displayOutline == Draws("displayOutline", Outline)
Update == \E calls \in Updates : Draws("running", calls)

displayRefresh ==
  /\ pc = "running" /\ dispNeedRefresh /\ pc' = "DisplayPart" /\ begun' = counter
  /\ UNCHANGED <<sent, image, dispNeedRefresh, panel, asked, resets>>

-----------------------------------------------------------------------------
(* The panel finishes what it was given to do.                             *)
Finish ==
  /\ busy # "idle" /\ busy' = "idle"
  /\ glass' = (IF busy = "update" THEN [c \in Visible |-> ram[c]] ELSE glass)
  /\ UNCHANGED <<chip, ram, counter, hist, resets>>

(* The chip is reset or wakes up from deep sleep; the panel goes on.       *)
Reset ==
  /\ resets < MaxResets /\ resets' = resets + 1
  /\ pc' = "Display" /\ sent' = 0 /\ image' \in Garbage /\ dispNeedRefresh' \in BOOLEAN
  /\ UNCHANGED <<panel, hist>>

LDirInit == ResetPin \/ SwReset \/ SetWindow \/ WaitAfterInit
start    == LDirInit \/ ClearByte \/ WaitAfterClear \/ displayOutline
refresh  == displayRefresh \/ DisplayPart \/ WaitAfterRefresh
app_main == start \/ Update \/ refresh

Next == app_main \/ Finish \/ Reset

(* app_main runs, and the panel is there and finishes what it begins.      *)
Spec == Init /\ [][Next]_vars /\ WF_vars(start) /\ WF_vars(refresh) /\ WF_vars(Finish)

-----------------------------------------------------------------------------
(* The states' types; the byte that is read is in the buffer, and the one  *)
(* that is written in the window (epd1in54_V2.cpp:321-327).                *)
TypeOK ==
  /\ pc \in {"Display", "Reset", "SWRESET", "LDirInit", "Clear", "cleared",
             "displayOutline", "running", "DisplayPart", "displayed"}
  /\ sent \in 0 .. Bytes - 1 /\ image \in Buffer /\ dispNeedRefresh \in BOOLEAN
  /\ counter \in 0 .. Cells - 1 /\ busy \in {"idle", "init", "update"}

(* A picture has each byte of a frame that began at a cell, but those that *)
(* the same frame, if longer than the window, overwrote.                   *)
Shows(picture, from, frame) ==
  \A n \in 0 .. Bytes - 1 :
    Cell(from, n) \in Visible /\ n + Cells >= Bytes => picture[Cell(from, n)] = frame[n]

(* Whenever app_main is out of the driver and no refresh is due, the glass *)
(* shows the frame buffer from where the last transfer began, after resets *)
(* in the middle of a transfer or an update too (epd1in54_V2.cpp:198-217,  *)
(* 305-335; display.cpp:129-137).  In a window with more bytes than a      *)
(* frame it goes on showing older bytes in the cells that are left.        *)
GlassShowsTheFrame ==
  pc = "running" /\ ~dispNeedRefresh => Shows(glass, begun, image)

(* The glass only ever changes to the frame that was sent whole when it    *)
(* was last asked for: no half a frame, of a transfer a reset cut short,   *)
(* is ever shown (epd1in54_V2.cpp:204-216, 320-334).                       *)
NeverTorn == [][glass' # glass => Shows(glass', begun, asked)]_vars

(* The picture stands where a number of whole frames from the counter's    *)
(* start lead to, and nowhere else: how many bytes the transfers that were *)
(* cut short had sent leaves no trace (epd1in54_V2.cpp:171-176).           *)
FramePlaces == {(FirstCell + k * Bytes) % Cells : k \in 0 .. Cells - 1}

MovesByFrames == pc = "running" => begun \in FramePlaces

(* The bytes, masks, pointers and loops of epdpaint draw what Canvas says  *)
(* they draw, at the edges of the buffer too (epdpaint.cpp:45-369).        *)
BlackPixels ==
  {p \in (0 .. EPD_WIDTH - 1) \X (0 .. EPD_HEIGHT - 1) :
     7 - (p[1] % 8) \notin image[p[1] \div 8 + p[2] * w]}

Promise == INSTANCE Canvas WITH on <- pc # "Display", ink <- BlackPixels,
                                Calls <- Updates \cup {Outline}

DrawsThePicture == Promise!Spec

(* If the panel finishes what it begins, app_main comes back from every    *)
(* start and refresh, whatever was reset in between (epd1in54_V2.cpp:70).  *)
ComesBack == pc # "running" ~> pc = "running"
=============================================================================
