--------------------------- MODULE DisplayRuntimeMC ---------------------------
(***************************************************************************)
(* Records for TLC: a display of one column, pixels 0 and 1.  A record     *)
(* holds a whole message, or one of its halves.                            *)
(***************************************************************************)
EXTENDS DisplayRuntime

MCSsd1306Init == <<0, 174, 213>>
MCSh1106Init  == <<0, 174, 2>>
MCSh1106On    == <<0, 175>>

PageRangeOf(page)     == <<0, 176 + page, 2, 16, 2, 16>>
Rectangle(page) == <<0, 33, 0, 0, 34, page, page>>

MCRecords == [ssd1306 |-> {Rectangle(0) \o <<64, 1>>, Rectangle(1), <<64, 0>>},
              sh1106  |-> {PageRangeOf(0) \o <<64, 0>>, PageRangeOf(0) \o <<64, 1>>,
                           PageRangeOf(1) \o <<64, 1>>, PageRangeOf(2), <<64, 1>>}]
=============================================================================
