--------------------------- MODULE DisplayStreamMC ---------------------------
(***************************************************************************)
(* A display of three pages of two columns for TLC.  The initialisation      *)
(* sequences keep the first bytes of the real ones.                        *)
(***************************************************************************)
EXTENDS DisplayStream

MCSsd1306Init == <<0, 174, 213>>
MCSh1106Init  == <<0, 174, 2>>
MCSh1106On    == <<0, 175>>

Rectangle(x, width, page, pages) == [x |-> x, width |-> width, page |-> page, pages |-> pages]

MCSsd1306Updates == {Rectangle(0, 2, 0, 3), Rectangle(1, 1, 1, 2)}
MCSh1106Updates  == {Rectangle(0, 2, page, 1) : page \in 0..2} \union {Rectangle(1, 1, 0, 1)}

\* A lone control byte, a rectangle outside the display, and pixel data without a command.
MCNoise == {<<0>>, <<0, 33, 0, 2, 34, 0, 1>>, <<64, 0, 7>>}
=============================================================================
