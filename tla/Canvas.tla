-------------------------------- MODULE Canvas --------------------------------
(***************************************************************************)
(* What the drawing operations promise: a sheet of pixels and the set of   *)
(* those that are black.  A call inks, or wipes, the pixels of a shape,    *)
(* those of them that are on the sheet; an icon replaces its whole box.    *)
(***************************************************************************)
EXTENDS Integers, Sequences

CONSTANTS EPD_WIDTH, EPD_HEIGHT, Font,
          Calls  \* sequences of drawing calls

VARIABLES on, ink

Pixels == (0 .. EPD_WIDTH - 1) \X (0 .. EPD_HEIGHT - 1)

Between(n, a, b) == n \in a .. b \cup b .. a

InBox(p, r) == Between(p[1], r.x0, r.x1) /\ Between(p[2], r.y0, r.y1)

(* Is there a dot at column i and row j of a glyph?                        *)
Dot(char, i, j) ==
  LET desc == Font.font_desc[char]
  IN /\ i \in 0 .. desc.w_px - 1 /\ j \in 0 .. Font.Height - 1
     /\ 7 - (i % 8) \in Font.table[desc.glyph_index + j * ((desc.w_px + 7) \div 8)
                                   + i \div 8]

(* The pixels of a shape.                                                  *)
OnShape(p, c) ==
  CASE c.op = "rectangle" -> InBox(p, c) /\ (p[1] \in {c.x0, c.x1} \/ p[2] \in {c.y0, c.y1})
    [] c.op = "filled"    -> InBox(p, c)
    [] c.op = "string"    -> \E n \in DOMAIN c.text :
                               Dot(c.text[n], p[1] - c.x - (n - 1) * Font.Width, p[2] - c.y)

(* The icon's own pixel at p, and whether it is black.                     *)
OnIcon(p, c) ==
  p[1] - c.x \in 0 .. c.icon.icon_width - 1 /\ p[2] - c.y \in 0 .. c.icon.icon_height - 1
Dark(p, c) ==
  LET i == p[1] - c.x   j == p[2] - c.y
  IN 7 - (i % 8) \notin c.icon.buffer[i \div 8 + j * (c.icon.icon_width \div 8)]

IsBlack(black, p, c) ==
  IF c.op = "icon" THEN IF OnIcon(p, c) THEN Dark(p, c) ELSE p \in black
  ELSE IF OnShape(p, c) THEN c.colored = 0 ELSE p \in black

(* after[n]: the ink after the first n calls.                              *)
Inked(black, calls) ==
  LET after[n \in 0 .. Len(calls)] ==
        IF n = 0 THEN black ELSE {p \in Pixels : IsBlack(after[n - 1], p, calls[n])}
  IN after[Len(calls)]

Init == ~on /\ ink \subseteq Pixels

Blank == ~on /\ on' /\ ink' = {}

Draws == on /\ on' /\ \E calls \in Calls : ink' = Inked(ink, calls)

Lose == ~on' /\ ink' \subseteq Pixels

Next == Blank \/ Draws \/ Lose

Spec == Init /\ [][Next]_<<on, ink>>
=============================================================================
