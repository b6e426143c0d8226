------------------------------- MODULE MCPanel -------------------------------
(* A sheet of 16 by 5 pixels, glass of four lines and a window with a byte more
   in each row, a font with glyphs of less than a byte, of a byte and of more,
   and icons that reach over edges.                                        *)
EXTENDS Panel

MCFont ==
  [Width |-> 5, Height |-> 2,
   table |-> [n \in 0 .. 7 |-> CASE n = 0 -> {7, 5}     [] n = 1 -> {6}
                                 [] n = 2 -> {7, 0}     [] n = 3 -> {4, 3, 1}
                                 [] n = 4 -> {6, 0}     [] n = 5 -> {7}
                                 [] n = 6 -> {7, 2, 1}  [] OTHER -> {6, 0}],
   font_desc |-> [c \in {"narrow", "byte", "wide"} |->
                    CASE c = "narrow" -> [w_px |-> 3, glyph_index |-> 0]
                      [] c = "byte"   -> [w_px |-> 8, glyph_index |-> 2]
                      [] OTHER        -> [w_px |-> 10, glyph_index |-> 4]]]

Icon(a, b) == [icon_width |-> 8, icon_height |-> 2,
               buffer |-> [n \in 0 .. 1 |-> IF n = 0 THEN a ELSE b]]

Box(op, a, b, c, d, colored) ==
  [op |-> op, x0 |-> a, y0 |-> b, x1 |-> c, y1 |-> d, colored |-> colored]
Str(a, b, text, colored) ==
  [op |-> "string", x |-> a, y |-> b, text |-> text, colored |-> colored]
Ico(a, b, icon) == [op |-> "icon", x |-> a, y |-> b, icon |-> icon]

MCOutline == << Box("rectangle", 1, 1, 15, 4, COLORED), Ico(10, 1, Icon({0, 3, 7}, {2})) >>

(* Icons over the right edge, above and left, and a text over the lower edge;
   a text cleared and redrawn, as updateEnvData does; a filled rectangle given
   from the bottom up and a text over it, as portSwitchTime does.          *)
MCUpdates ==
  { << Ico(11, 2, Icon({1, 6}, {0, 4, 7})), Str(6, 4, <<"wide", "wide">>, COLORED),
       Ico(-3, -1, Icon({5}, {0, 2, 6})) >>,
    << Str(2, 1, <<"narrow", "byte">>, UNCOLORED), Str(2, 1, <<"wide">>, COLORED) >>,
    << Box("filled", 4, 3, 9, 1, UNCOLORED), Str(3, 0, <<"byte", "narrow">>, COLORED) >> }

MCGarbage == { [n \in 0 .. 9 |-> {}], [n \in 0 .. 9 |-> IF n % 2 = 0 THEN 0 .. 7 ELSE {3}] }
=============================================================================
