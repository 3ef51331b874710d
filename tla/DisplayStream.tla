---------------------------- MODULE DisplayStream ----------------------------
(***************************************************************************)
(* The parser and the loop around it (DisplayRuntime::push), fed with the  *)
(* bytes of one stream in two ways: by one call with all of them, and by a *)
(* call for every fragment.  A sender writes the stream first: commands    *)
(* and updates as the display backends send them, of which some may be cut *)
(* off or replaced by other bytes.                                         *)
(***************************************************************************)
EXTENDS DisplayParser

CONSTANTS
    Ssd1306Updates,  \* rectangles the SSD1306 sender updates
    Sh1106Updates,   \* rectangles of one page the SH1106 sender updates
    Cuts,            \* where a message may be cut off
    LegacyPages,     \* pages the SH1106 sender may also send without a range
    FragmentSizes,   \* lengths of a fragment, besides that of all the rest
    Noise,           \* byte sequences that are not messages
    MaxMessages,     \* bound: messages in the stream; a damaged one counts as two
    MaxDamaged       \* bound: how many of them are cut off or noise

ASSUME StreamAssumption == MaxMessages \in Nat /\ MaxDamaged \in Nat

ASSUME SenderAssumption ==
    /\ Ssd1306Updates \subseteq Windows
    /\ Sh1106Updates \subseteq {w \in Windows : w.pages = 1}
    /\ Cuts \subseteq Nat /\ Noise \subseteq Seq(Byte)

VARIABLES
    stream,       \* the bytes sent
    messages,     \* how many messages they are
    damaged,      \* and how many of those are cut off or noise
    ram,          \* the RAM of a real controller that executed the stream
    pass,         \* full-width pages sent in order from page 0
    framesSent,
    phase,        \* "send", then "whole", then "fragments"
    delivered,    \* bytes of the stream given to the parser
    called,       \* an update of the parser is still to be counted
    totals,       \* DisplayRuntime: completed_frames, discarded_bytes, display_updates
    passNumber,   \* page-0 commands executed
    writtenIn,    \* the pass that last wrote each page full width
    wPending, wMode, wWindow, wFramebuffer, wPages, wStarted, wLast, wUpdate,
    wRunning, wCalled, wTotals   \* the parser that gets the stream in one call

Whole == INSTANCE DisplayParser
    WITH pending <- wPending, mode <- wMode, window <- wWindow,
         framebuffer <- wFramebuffer, sh1106Pages <- wPages, frameStarted <- wStarted,
         lastPage <- wLast, update <- wUpdate, running <- wRunning

senderVars == <<stream, messages, damaged, ram, pass, framesSent>>
wholeVars  == <<wPending, wMode, wWindow, wFramebuffer, wPages, wStarted, wLast,
                wUpdate, wRunning, wCalled, wTotals>>
loopVars   == <<delivered, called, totals, passNumber, writtenIn>>
vars       == <<senderVars, phase, loopVars, parserVars, wholeVars>>

NoTotals == [frames |-> 0, discarded |-> 0, updates |-> 0]

Init ==
    /\ ParserInit /\ Whole!ParserInit
    /\ stream = <<>> /\ messages = 0 /\ damaged = 0 /\ ram = Blank
    /\ pass = 0 /\ framesSent = 0 /\ phase = "send"
    /\ delivered = 0 /\ called = FALSE /\ totals = NoTotals
    /\ passNumber = 0 /\ writtenIn = [row \in Rows |-> -1]
    /\ wCalled = FALSE /\ wTotals = NoTotals

-----------------------------------------------------------------------------
(* The sender. *)

Pixels(n) == [i \in 1..n |-> (62 - messages + i) % 256]

EndOf(w) == w.x + w.width - 1

\* The commands in front of the pixel data of a rectangle.
RangeCommands(w) ==
    IF controller = "ssd1306"
    THEN {<<Command, SetColumns, w.x, EndOf(w), SetPages, w.page, w.page + w.pages - 1>>}
    ELSE LET Column(c) == <<(c + FirstColumn) % 16, 16 + (c + FirstColumn) \div 16>>
             page      == <<Command, SetPage + w.page>>
         IN  {page \o Column(EndOf(w)) \o Column(w.x)}
             \union (IF w.width = Width /\ w.page \in LegacyPages THEN {page \o Column(0)} ELSE {})

Executed(w, pixels) ==
    [row \in Rows |-> [column \in Columns |->
        IF row \in w.page..(w.page + w.pages - 1) /\ column \in w.x..EndOf(w)
        THEN pixels[1 + (row - w.page) * w.width + (column - w.x)]
        ELSE ram[row][column]]]

Updates == IF controller = "ssd1306" THEN Ssd1306Updates ELSE Sh1106Updates

\* The full-width pages of a pass follow one another.
PassAfter(w) == IF w.width = Width /\ w.page = (IF w.page = 0 THEN 0 ELSE pass)
                THEN w.page + w.pages ELSE 0

\* The last page of a pass ends a frame; an SSD1306 gets its frames in one rectangle.
EndsFrame(w) == PassAfter(w) = Pages /\ (controller = "ssd1306" => w.page = 0)

Sending == phase = "send" /\ messages + damaged < MaxMessages

Sent(bytes) == /\ stream' = stream \o bytes /\ messages' = messages + 1
               /\ UNCHANGED <<phase, loopVars, parserVars, wholeVars>>

\* A display is initialised before it is written to.
SendPattern ==
    /\ Sending /\ framesSent = 0 /\ ram = Blank
    /\ \E p \in Patterns : Sent(p)
    /\ UNCHANGED <<damaged, ram, pass, framesSent>>

SendUpdate ==
    /\ Sending
    /\ \E w \in Updates : \E range \in RangeCommands(w) :
         LET pixels == Pixels(w.width * w.pages) IN
         /\ Sent(range \o <<Data>> \o pixels)
         /\ ram' = Executed(w, pixels)
         /\ pass' = PassAfter(w)
         /\ framesSent' = framesSent + (IF EndsFrame(w) THEN 1 ELSE 0)
    /\ UNCHANGED damaged

SendDamaged ==
    /\ Sending /\ damaged < MaxDamaged /\ messages + damaged + 2 <= MaxMessages
    /\ \/ \E w \in Updates : \E range \in RangeCommands(w) : \E cut \in Cuts :
             LET message == range \o <<Data>> \o Pixels(w.width * w.pages) IN
             cut < Len(message) /\ Sent(SubSeq(message, 1, cut))
       \/ \E bytes \in Noise : Sent(bytes)
    /\ damaged' = damaged + 1
    /\ UNCHANGED <<ram, pass, framesSent>>

-----------------------------------------------------------------------------
(* DisplayRuntime::push: the parser is called again as long as it has something *)
(* to present, the second time with no input. *)

Counted(t, u) == [frames |-> t.frames + u.completed, discarded |-> t.discarded + u.discarded,
                  updates |-> t.updates + u.updates]

Present(u) == u.completed > 0 \/ u.boundary

DeliverWhole ==
    /\ phase = "send" /\ phase' = "whole"
    /\ Whole!Push(stream) /\ wCalled' = TRUE
    /\ UNCHANGED <<senderVars, loopVars, parserVars, wTotals>>

WholeStep == Whole!Step /\ UNCHANGED <<senderVars, phase, loopVars, parserVars, wCalled, wTotals>>

WholeCounted ==
    /\ wCalled /\ ~wRunning /\ wTotals' = Counted(wTotals, wUpdate)
    /\ IF Present(wUpdate)
       THEN Whole!Push(<<>>) /\ UNCHANGED <<phase, wCalled>>
       ELSE /\ wCalled' = FALSE /\ phase' = "fragments"
            /\ UNCHANGED <<wPending, wMode, wWindow, wFramebuffer, wPages, wStarted, wLast,
                           wUpdate, wRunning>>
    /\ UNCHANGED <<senderVars, loopVars, parserVars>>

Deliver ==
    /\ phase = "fragments" /\ ~called
    /\ \E n \in 1..(Len(stream) - delivered) :
          /\ n \in FragmentSizes \union {Len(stream) - delivered}
          /\ Push(SubSeq(stream, delivered + 1, delivered + n))
          /\ delivered' = delivered + n
    /\ called' = TRUE
    /\ UNCHANGED <<senderVars, phase, totals, passNumber, writtenIn, wholeVars>>

PageWritten == update'.updates > update.updates /\ FullWidth

FragmentStep ==
    /\ Step
    /\ passNumber' = passNumber + (IF OpenPage /\ CommandedPage = 0 THEN 1 ELSE 0)
    /\ writtenIn' = (IF PageWritten THEN [writtenIn EXCEPT ![window.page] = passNumber]
                                    ELSE writtenIn)
    /\ UNCHANGED <<senderVars, phase, delivered, called, totals, wholeVars>>

\* Faulty form of UpdateCounted: the parser is called as long as there are bytes left.
CountedUntilEmpty ==
    /\ called /\ ~running /\ totals' = Counted(totals, update)
    /\ IF Present(update) \/ pending # <<>> THEN Push(<<>>) /\ UNCHANGED called
                                           ELSE called' = FALSE /\ UNCHANGED parserVars
    /\ UNCHANGED <<senderVars, phase, delivered, passNumber, writtenIn, wholeVars>>

UpdateCounted ==
    /\ called /\ ~running /\ totals' = Counted(totals, update)
    /\ IF Present(update) THEN Push(<<>>) /\ UNCHANGED called
                          ELSE called' = FALSE /\ UNCHANGED parserVars
    /\ UNCHANGED <<senderVars, phase, delivered, passNumber, writtenIn, wholeVars>>

Next == \/ SendPattern \/ SendUpdate \/ SendDamaged
        \/ DeliverWhole \/ WholeStep \/ WholeCounted
        \/ Deliver \/ FragmentStep \/ UpdateCounted

\* A call of push() runs on without waiting for anything.
Receiving == WholeStep \/ WholeCounted \/ FragmentStep \/ UpdateCounted

Spec == Init /\ [][Next]_vars /\ WF_vars(Receiving)

-----------------------------------------------------------------------------
(* Properties. *)

AllDelivered == phase = "fragments" /\ delivered = Len(stream) /\ ~called

\* However the stream is cut into pieces, a damaged one too, the display RAM, what is left
\* undecoded and the counts are those of the stream pushed in one piece (the parser has no
\* record boundaries to go by: README.md:231).
FragmentsSameAsWhole ==
    AllDelivered =>
        /\ <<pending, mode, framebuffer, totals>> = <<wPending, wMode, wFramebuffer, wTotals>>
        /\ <<sh1106Pages, frameStarted, lastPage>> = <<wPages, wStarted, wLast>>

\* An undamaged stream leaves in the framebuffer what it leaves in the RAM of the real
\* controller: nothing is discarded, nothing stays undecoded and every whole frame is
\* completed.
CleanStreamDecoded ==
    (AllDelivered /\ damaged = 0) =>
        /\ framebuffer = ram /\ pending = <<>>
        /\ totals.discarded = 0 /\ totals.frames >= framesSent

\* An SH1106 frame that is counted as complete has every page written full width by the
\* same pass: no page of it is left from an earlier frame (read_sh1106_page_data's bit set).
CompleteMeansOnePass ==
    [][ (controller = "sh1106" /\ update'.completed > update.completed) =>
            \A row \in Rows : writtenIn'[row] = passNumber ]_vars

\* What push() can still do: bytes to take, a rectangle to fill or give up, a page to leave.
Undone == Len(pending) + (IF mode = "Scan" THEN 0 ELSE 1) + (IF lastPage = NoPage THEN 0 ELSE 1)

\* Where a call of DisplayRuntime::push is: over, about to return, in the parser's loop, or
\* about to call the parser again.
Stage == IF ~called THEN 0 ELSE IF running THEN 2 ELSE IF Present(update) THEN 3 ELSE 1

\* No step of a call is in vain: a turn of scan() takes a byte, or changes a mode or a page
\* that it cannot change again, so that fewer steps are left than before it.
CallsProgress == [][called => 4 * Undone' + Stage' < 4 * Undone + Stage]_vars

\* Every call of DisplayRuntime::push returns: neither the parser's loop nor the one around
\* it, which goes on while there is something to present, runs for ever.
PushReturns == (called ~> ~called) /\ (wCalled ~> ~wCalled)
=============================================================================
