---------------------------- MODULE DisplayParser ----------------------------
(***************************************************************************)
(* The display protocol parser (src/display_protocol.rs): a byte stream,   *)
(* handed over in arbitrary pieces by push(), is decoded into the display  *)
(* RAM of an SSD1306 or an SH1106.  One action is one turn of push()'s     *)
(* loop: a branch of scan(), or of one of the two readers of pixel data.   *)
(*                                                                         *)
(* Bytes are numbers with the values of the protocol.  The size of the     *)
(* display and the initialisation sequences are parameters.                *)
(***************************************************************************)
EXTENDS Integers, Sequences

CONSTANTS
    Width,        \* DISPLAY_WIDTH
    Pages,        \* DISPLAY_HEIGHT / 8
    Ssd1306Init,  \* SSD1306_INIT
    Sh1106Init,   \* SH1106_INIT
    Sh1106On      \* SH1106_DISPLAY_ON

Byte    == 0..255
Columns == 0..(Width - 1)
Rows    == 0..(Pages - 1)

\* Page commands are one byte, a column fits the two nibbles of its address.
ASSUME SizeAssumption == Width \in 1..128 /\ Pages \in 1..8

ASSUME PatternAssumption ==
    /\ Ssd1306Init \in Seq(Byte) /\ Sh1106Init \in Seq(Byte) /\ Sh1106On \in Seq(Byte)
    /\ Ssd1306Init # <<>> /\ Sh1106Init # <<>> /\ Sh1106On # <<>>

Command == 0      \* control byte: commands follow
Data    == 64     \* control byte: pixel data follows
SetColumns == 33  \* SSD1306 column address command
SetPages   == 34  \* SSD1306 page address command
SetPage    == 176 \* SH1106 page address command of page 0
FirstColumn == 2  \* the SH1106 RAM column of the leftmost pixel

\* The byte behind the control byte tells the initialisation sequences (ae, ae, af) from the
\* addressing commands (21, b0 to b7), and those of the SH1106 from each other.
ASSUME CommandsAssumption ==
    /\ \A p \in {Ssd1306Init, Sh1106Init, Sh1106On} :
          /\ Len(p) >= 2 /\ p[1] = Command
          /\ p[2] # SetColumns /\ p[2] - SetPage \notin Rows
    /\ Sh1106Init[2] # Sh1106On[2]

VARIABLES
    controller,    \* DisplayController
    pending,       \* bytes received and not yet decoded
    mode,          \* ParseState: its variant
    window,        \* ParseState: the rectangle that the next pixel data fill
    framebuffer,
    sh1106Pages,   \* pages written full width since page 0
    frameStarted,  \* sh1106_frame_started
    lastPage,      \* sh1106_last_page_command
    update,        \* the ParseUpdate of the current push()
    running        \* push() is in its loop

parserVars == <<controller, pending, mode, window, framebuffer,
                sh1106Pages, frameStarted, lastPage, update, running>>

Modes   == {"Scan", "Ssd1306Data", "Sh1106PageData"}
NoPage  == -1
NoColumn == -1
NoUpdate == [completed |-> 0, boundary |-> FALSE, discarded |-> 0, updates |-> 0]
NoWindow == [x |-> 0, width |-> 1, page |-> 0, pages |-> 1]
Blank    == [row \in Rows |-> [column \in Columns |-> 0]]

\* The rectangles that lie inside the display RAM.
Windows == {w \in [x : Columns, width : 1..Width, page : Rows, pages : 1..Pages] :
              w.x + w.width <= Width /\ w.page + w.pages <= Pages}

TypeOK ==
    /\ controller \in {"ssd1306", "sh1106"}
    /\ pending \in Seq(Byte)
    /\ mode \in Modes /\ window \in Windows
    /\ framebuffer \in [Rows -> [Columns -> Byte]]
    /\ sh1106Pages \in SUBSET Rows /\ frameStarted \in BOOLEAN
    /\ lastPage \in Rows \union {NoPage}
    /\ update \in [completed : Nat, boundary : BOOLEAN, discarded : Nat, updates : Nat]
    /\ running \in BOOLEAN

ParserInit ==
    /\ controller \in {"ssd1306", "sh1106"}
    /\ pending = <<>> /\ mode = "Scan" /\ window = NoWindow
    /\ framebuffer = Blank
    /\ sh1106Pages = {} /\ frameStarted = FALSE /\ lastPage = NoPage
    /\ update = NoUpdate /\ running = FALSE

-----------------------------------------------------------------------------
(* What the pending bytes may be. *)

\* The first n pending bytes are taken.
Rest(n) == SubSeq(pending, n + 1, Len(pending))

\* The slices' starts_with().
StartsWith(bytes, prefix) ==
    Len(prefix) <= Len(bytes) /\ \A i \in 1..Len(prefix) : bytes[i] = prefix[i]

\* consume_pattern() takes one of these.
Patterns == IF controller = "ssd1306" THEN {Ssd1306Init} ELSE {Sh1106Init, Sh1106On}

Matched == {p \in Patterns : StartsWith(pending, p)}

DecodeColumn(low, high) ==
    IF low \in 0..15 /\ high \in 16..31 THEN (high - 16) * 16 + low ELSE NoColumn

\* SSD1306: 00 21 x end_x 22 page end_page.
WindowCommand == controller = "ssd1306" /\ StartsWith(pending, <<Command, SetColumns>>)

\* Faulty form of WindowFits: the end of the rectangle may be one past the display.
WindowAlmostFits ==
    /\ pending[5] = SetPages
    /\ pending[3] <= pending[4] /\ pending[4] <= Width
    /\ pending[6] <= pending[7] /\ pending[7] < Pages

WindowFits ==
    /\ pending[5] = SetPages
    /\ pending[3] <= pending[4] /\ pending[4] < Width
    /\ pending[6] <= pending[7] /\ pending[7] < Pages

\* SH1106: 00 b0+page low high, then either pixel data (legacy) or low high again.
PageCommand == /\ controller = "sh1106" /\ Len(pending) >= 2
               /\ pending[1] = Command /\ pending[2] - SetPage \in Rows

CommandedPage == pending[2] - SetPage
EndColumn     == DecodeColumn(pending[3], pending[4])
StartColumn   == DecodeColumn(pending[5], pending[6])
Legacy        == pending[5] = Data

\* A whole page command: all the bytes that decide its range are there.
PageCommandRead == Len(pending) >= 6 \/ (Len(pending) >= 5 /\ Legacy)

PageRangeFits ==
    IF Legacy THEN EndColumn = FirstColumn
              ELSE /\ StartColumn >= FirstColumn /\ StartColumn <= EndColumn
                   /\ EndColumn < Width + FirstColumn

PageRange ==
    IF Legacy
    THEN [x |-> 0, width |-> Width, page |-> CommandedPage, pages |-> 1]
    ELSE [x |-> StartColumn - FirstColumn, width |-> EndColumn - StartColumn + 1,
          page |-> CommandedPage, pages |-> 1]

\* A page before the last one commanded: the frame of that one is over.
Backward == /\ PageCommand /\ Len(pending) >= 4 /\ EndColumn # NoColumn
            /\ lastPage # NoPage /\ CommandedPage < lastPage

\* Faulty form of Undecided: a fragment that ends inside an initialisation sequence
\* is not waited for.
UndecidedCommands ==
    \/ WindowCommand /\ Len(pending) < 7
    \/ PageCommand /\ ~PageCommandRead
    \/ pending \in {<<>>, <<Command>>}

\* scan() returns false: more bytes have to arrive.
Undecided ==
    \/ WindowCommand /\ Len(pending) < 7
    \/ PageCommand /\ ~PageCommandRead
    \/ pending \in {<<>>, <<Command>>}
    \/ \E p \in Patterns : StartsWith(p, pending)

Accepted == \/ WindowCommand /\ Len(pending) >= 7 /\ WindowFits
            \/ PageCommand /\ PageCommandRead /\ PageRangeFits

-----------------------------------------------------------------------------
(* push() and the turns of its loop. *)

Push(input) ==
    /\ ~running
    /\ pending' = pending \o input /\ update' = NoUpdate /\ running' = TRUE
    /\ UNCHANGED <<controller, mode, window, framebuffer, sh1106Pages, frameStarted, lastPage>>

\* The loop goes on after progress, unless there is something to present.
LoopAfterProgress == running' = ~(update'.completed > 0 \/ update'.boundary)

Scanning == running /\ mode = "Scan"

FrameVars == <<framebuffer, sh1106Pages, frameStarted, lastPage>>

ConsumePattern ==
    /\ Scanning
    /\ \E p \in Matched : pending' = Rest(Len(p))
    /\ UNCHANGED <<controller, mode, window, FrameVars, update>> /\ LoopAfterProgress

OpenWindow ==
    /\ Scanning /\ Matched = {} /\ WindowCommand /\ Len(pending) >= 7 /\ WindowFits
    /\ window' = [x |-> pending[3], width |-> pending[4] - pending[3] + 1,
                  page |-> pending[6], pages |-> pending[7] - pending[6] + 1]
    /\ mode' = "Ssd1306Data" /\ pending' = Rest(7)
    /\ UNCHANGED <<controller, FrameVars, update>> /\ LoopAfterProgress

\* Faulty form of WrapToLowerPage: the page it compares with is kept.
WrapKeepingLastPage ==
    /\ Scanning /\ Matched = {} /\ Backward
    /\ sh1106Pages' = {} /\ frameStarted' = FALSE
    /\ update' = [update EXCEPT !.boundary = TRUE] /\ running' = FALSE
    /\ UNCHANGED <<controller, pending, mode, window, framebuffer, lastPage>>

\* The incomplete frame is presented before the command is taken.
WrapToLowerPage ==
    /\ Scanning /\ Matched = {} /\ Backward
    /\ sh1106Pages' = {} /\ frameStarted' = FALSE /\ lastPage' = NoPage
    /\ update' = [update EXCEPT !.boundary = TRUE] /\ running' = FALSE
    /\ UNCHANGED <<controller, pending, mode, window, framebuffer>>

OpenPage ==
    /\ Scanning /\ Matched = {} /\ ~Backward
    /\ PageCommand /\ PageCommandRead /\ PageRangeFits
    /\ window' = PageRange /\ mode' = "Sh1106PageData"
    /\ pending' = Rest(IF Legacy THEN 4 ELSE 6)
    /\ sh1106Pages' = (IF CommandedPage = 0 THEN {} ELSE sh1106Pages)
    /\ frameStarted' = (frameStarted \/ CommandedPage = 0)
    /\ lastPage' = CommandedPage
    /\ UNCHANGED <<controller, framebuffer, update>> /\ LoopAfterProgress

AwaitCommand ==
    /\ Scanning /\ Matched = {} /\ ~Backward /\ ~Accepted /\ Undecided
    /\ running' = FALSE
    /\ UNCHANGED <<controller, pending, mode, window, FrameVars, update>>

Discard ==
    /\ Scanning /\ Matched = {} /\ ~Backward /\ ~Undecided /\ ~Accepted
    /\ pending' = Rest(1) /\ update' = [update EXCEPT !.discarded = @ + 1]
    /\ UNCHANGED <<controller, mode, window, FrameVars>> /\ LoopAfterProgress

Reading(kind) == running /\ mode = kind

MessageSize == window.width * window.pages + 1

Misframed == pending # <<>> /\ pending[1] # Data
DataRead  == pending # <<>> /\ pending[1] = Data /\ Len(pending) >= MessageSize

\* Pixel data do not follow their command: scan again from this byte.
Resynchronize ==
    /\ \E kind \in Modes \ {"Scan"} : Reading(kind)
    /\ Misframed
    /\ mode' = "Scan"
    /\ UNCHANGED <<controller, pending, window, FrameVars, update>> /\ LoopAfterProgress

AwaitData ==
    /\ \E kind \in Modes \ {"Scan"} : Reading(kind)
    /\ ~Misframed /\ ~DataRead
    /\ running' = FALSE
    /\ UNCHANGED <<controller, pending, mode, window, FrameVars, update>>

InWindow(row, column) == /\ row \in window.page..(window.page + window.pages - 1)
                         /\ column \in window.x..(window.x + window.width - 1)

\* Faulty form of Filled: every row takes the first row of the message.
FilledWithFirstRow == [row \in Rows |-> [column \in Columns |->
             IF InWindow(row, column) THEN pending[2 + (column - window.x)]
                                      ELSE framebuffer[row][column]]]

\* copy_from_slice: the rows of the rectangle follow one another in the message.
Filled == [row \in Rows |-> [column \in Columns |->
             IF InWindow(row, column)
             THEN pending[2 + (row - window.page) * window.width + (column - window.x)]
             ELSE framebuffer[row][column]]]

FullWidth  == window.x = 0 /\ window.width = Width

ReadData(kind) ==
    /\ Reading(kind) /\ DataRead
    /\ framebuffer' = Filled
    /\ pending' = Rest(MessageSize) /\ mode' = "Scan"
    /\ UNCHANGED <<controller, window>>

Presented(complete) ==
    IF complete THEN [update EXCEPT !.updates = @ + 1, !.completed = @ + 1]
                ELSE [update EXCEPT !.updates = @ + 1, !.boundary = TRUE]

ReadWindow ==
    /\ ReadData("Ssd1306Data")
    /\ update' = Presented(FullWidth /\ window.page = 0 /\ window.pages = Pages)
    /\ UNCHANGED <<sh1106Pages, frameStarted, lastPage>> /\ LoopAfterProgress

PagesWritten == IF FullWidth THEN sh1106Pages \union {window.page} ELSE sh1106Pages

ReadPage ==
    /\ ReadData("Sh1106PageData") /\ window.page < Pages - 1
    /\ update' = [update EXCEPT !.updates = @ + 1]
    /\ sh1106Pages' = PagesWritten
    /\ UNCHANGED <<frameStarted, lastPage>> /\ LoopAfterProgress

\* Faulty form of ReadLastPage: a frame that began in the middle counts as complete.
ReadLastPageOfAnything ==
    /\ ReadData("Sh1106PageData") /\ window.page = Pages - 1
    /\ update' = Presented(PagesWritten # {})
    /\ sh1106Pages' = {} /\ frameStarted' = FALSE /\ lastPage' = NoPage
    /\ LoopAfterProgress

ReadLastPage ==
    /\ ReadData("Sh1106PageData") /\ window.page = Pages - 1
    /\ update' = Presented(frameStarted /\ PagesWritten = Rows)
    /\ sh1106Pages' = {} /\ frameStarted' = FALSE /\ lastPage' = NoPage
    /\ LoopAfterProgress

Step == \/ ConsumePattern \/ OpenWindow \/ WrapToLowerPage \/ OpenPage
        \/ AwaitCommand \/ Discard \/ Resynchronize \/ AwaitData
        \/ ReadWindow \/ ReadPage \/ ReadLastPage

\* The parser alone: its caller pushes any bytes.
ParserNext == Step \/ \E input \in Seq(Byte) : Push(input)

ParserSpec == ParserInit /\ [][ParserNext]_parserVars
=============================================================================
