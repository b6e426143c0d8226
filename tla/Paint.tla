-------------------------------- MODULE Paint --------------------------------
(***************************************************************************)
(* components/epaper/epdpaint: the drawing operations.  A loop that draws  *)
(* pixels in one colour is the set of the pixels it visits, for it may     *)
(* visit them in any order; the bits it sets or clears in the frame buffer *)
(* are found the way the code finds them.  A buffer is a function from the *)
(* index of a byte to the byte, and a byte the set of its bits that are 1. *)
(* Rotation is never set (ROTATE_0), and IF_INVERT_COLOR is 1.             *)
(***************************************************************************)
EXTENDS Integers, Sequences

CONSTANTS
  EPD_WIDTH, EPD_HEIGHT,  \* 200 and 201
  Font                    \* an sFONT, its table indexed from 0

ASSUME PaintAssumption ==
  EPD_WIDTH \in Nat \ {0} /\ EPD_WIDTH % 8 = 0 /\ EPD_HEIGHT \in Nat \ {0}

(* uint16_t and the fields of glyph_desc (fonts.h:53-64).                  *)
ASSUME FontAssumption ==
  /\ Font.Width \in Nat /\ Font.Height \in Nat
  /\ \A char \in DOMAIN Font.font_desc :
       Font.font_desc[char].w_px \in Nat /\ Font.font_desc[char].glyph_index \in Nat

COLORED   == 0
UNCOLORED == 1

Byte   == SUBSET (0 .. 7)
Buffer == [0 .. (EPD_WIDTH * EPD_HEIGHT) \div 8 - 1 -> Byte]

(* Bug: the end of a row is not looked at.                                 *)
BugNoClip(p) == p[1] >= 0 /\ p[2] >= 0 /\ p[2] < EPD_HEIGHT

InBuffer(p) == p[1] >= 0 /\ p[1] < EPD_WIDTH /\ p[2] >= 0 /\ p[2] < EPD_HEIGHT

(* DrawPixel for each of the pixels.                                       *)
DrawPixels(img, pixels, colored) ==
  LET drawn   == {p \in pixels : InBuffer(p)}
      Bits(b) == {7 - (p[1] % 8) :
                    p \in {q \in drawn : (q[1] + q[2] * EPD_WIDTH) \div 8 = b}}
  IN [b \in DOMAIN img |-> IF colored # 0 THEN img[b] \cup Bits(b) ELSE img[b] \ Bits(b)]

Clear(img, colored) ==
  DrawPixels(img, (0 .. EPD_WIDTH - 1) \X (0 .. EPD_HEIGHT - 1), colored)

-----------------------------------------------------------------------------
HorizontalLine(x, y, line_width) == {<<i, y>> : i \in x .. x + line_width - 1}
VerticalLine(x, y, line_height)  == {<<x, i>> : i \in y .. y + line_height - 1}

Smaller(a, b) == IF a > b THEN b ELSE a
Larger(a, b)  == IF a > b THEN a ELSE b

Rectangle(c) ==
  LET min_x == Smaller(c.x0, c.x1)   max_x == Larger(c.x0, c.x1)
      min_y == Smaller(c.y0, c.y1)   max_y == Larger(c.y0, c.y1)
  IN HorizontalLine(min_x, min_y, max_x - min_x + 1)
     \cup HorizontalLine(min_x, max_y, max_x - min_x + 1)
     \cup VerticalLine(min_x, min_y, max_y - min_y + 1)
     \cup VerticalLine(max_x, min_y, max_y - min_y + 1)

FilledRectangle(c) ==
  LET min_y == Smaller(c.y0, c.y1)   max_y == Larger(c.y0, c.y1)
  IN UNION {VerticalLine(i, min_y, max_y - min_y + 1) :
              i \in Smaller(c.x0, c.x1) .. Larger(c.x0, c.x1)}

-----------------------------------------------------------------------------
(* Bug: a row of a glyph is not padded to whole bytes.                     *)
BugNoPadding(i, w_px) == IF i % 8 = 7 THEN 1 ELSE 0

(* How far the pointer moves after column i of a row.                      *)
Advance(i, w_px) ==
  (IF i % 8 = 7 THEN 1 ELSE 0) + (IF i = w_px - 1 /\ w_px % 8 # 0 THEN 1 ELSE 0)

(* DrawCharAt visits the pixels row by row; ptr[n] is its pointer at the   *)
(* n-th of them.                                                           *)
Char(x, y, char) ==
  LET desc == Font.font_desc[char]
      ptr[n \in 0 .. desc.w_px * Font.Height - 1] ==
        IF n = 0 THEN desc.glyph_index
        ELSE ptr[n - 1] + Advance((n - 1) % desc.w_px, desc.w_px)
  IN {<<x + (n % desc.w_px), y + n \div desc.w_px>> :
        n \in {m \in DOMAIN ptr : 7 - ((m % desc.w_px) % 8) \in Font.table[ptr[m]]}}

String(c) ==
  UNION {Char(c.x + (n - 1) * Font.Width, c.y, c.text[n]) : n \in DOMAIN c.text}

-----------------------------------------------------------------------------
(* The pixels an icon draws in a colour.                                   *)
IconPixels(c, colour) ==
  LET bytes == c.icon.icon_width \div 8
  IN {<<c.x + u[1] * 8 + u[3], c.y + u[2]>> : u \in
        {v \in (0 .. bytes - 1) \X (0 .. c.icon.icon_height - 1) \X (0 .. 7) :
           (7 - v[3] \in c.icon.buffer[v[1] + v[2] * bytes]) = (colour = 1)}}

DrawIcon(img, c) == DrawPixels(DrawPixels(img, IconPixels(c, 0), 0), IconPixels(c, 1), 1)

Draw(img, c) ==
  CASE c.op = "rectangle" -> DrawPixels(img, Rectangle(c), c.colored)
    [] c.op = "filled"    -> DrawPixels(img, FilledRectangle(c), c.colored)
    [] c.op = "string"    -> DrawPixels(img, String(c), c.colored)
    [] c.op = "icon"      -> DrawIcon(img, c)

(* What the drawing functions are called with: icons are whole bytes wide. *)
IsCall(c) ==
  \/ c.op \in {"rectangle", "filled"} /\ {c.x0, c.y0, c.x1, c.y1} \subseteq Int
  \/ /\ c.op = "string" /\ {c.x, c.y} \subseteq Int
     /\ c.text \in Seq(DOMAIN Font.font_desc)
  \/ /\ c.op = "icon" /\ {c.x, c.y} \subseteq Int
     /\ {c.icon.icon_width, c.icon.icon_height} \subseteq Nat
     /\ c.icon.icon_width % 8 = 0
=============================================================================
