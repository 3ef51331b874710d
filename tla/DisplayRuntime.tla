---------------------------- MODULE DisplayRuntime ----------------------------
(***************************************************************************)
(* virtual-display's serve loop and DisplayRuntime                         *)
(* (src/bin/virtual-display.rs) with the window (src/sdl_display.rs) and   *)
(* the button lines (src/gpio_buttons.rs): records read from the kernel go *)
(* through the parser; the framebuffer is rendered at a frame boundary or  *)
(* when the deadline of a partial frame has passed; the window is polled   *)
(* for the held buttons and for its close event.                           *)
(*                                                                         *)
(* Time is counted in ticks.  The deadline is the ticks that are left.     *)
(* Counters, messages and the colours and orientation of pixels are left   *)
(* out.                                                                    *)
(***************************************************************************)
EXTENDS DisplayParser

CONSTANTS
    Records,       \* [controller -> what a read() of the device may return]
    Timeout,       \* PARTIAL_FRAME_TIMEOUT in ticks
    WindowWidth    \* width of the SDL window

ASSUME RuntimeAssumption ==
    /\ Timeout \in Nat \ {0} /\ WindowWidth \in Nat \ {0}
    /\ Records \in [{"ssd1306", "sh1106"} -> SUBSET Seq(Byte)]

VARIABLES
    pc,            \* where the thread is
    started,       \* steps of the startup that are done
    held,          \* what the process has to give back
    withButtons,   \* the button lines are wanted
    runningFlag,   \* RUNNING
    shown,         \* the framebuffer that was rendered last
    due,           \* partial_frame_deadline: ticks left, or NoDeadline
    buttons,       \* GpioButtonOutputs.state
    levels,        \* what the button lines drive: TRUE is high
    mouse,         \* x of the pointer while its button is held, or Released
    closing,       \* a close event is in the window's queue
    ticked,        \* a tick has passed in this pass of the loop
    unshownFor     \* history: ticks for which the framebuffer has not been shown

startVars   == <<started, held, withButtons>>
windowVars  == <<mouse, closing>>
lineVars    == <<buttons, levels>>
timeVars    == <<ticked, unshownFor>>
runtimeVars == <<pc, startVars, runningFlag, shown, due, lineVars, windowVars, timeVars>>
vars        == <<parserVars, runtimeVars>>

NoDeadline == -1
Released   == -1

\* What serve() and DisplayRuntime::start do in turn.  "title" (its conversion, which refuses
\* a NUL byte), "size" and "frame" (the first render) may fail too, and add nothing to give back.
Startup   == <<"device", "sdl", "title", "window", "renderer", "size", "texture", "frame", "lines">>
Resources == {"device", "sdl", "window", "renderer", "texture", "lines"}
Points    == {"start", "loop", "parse", "idle", "input", "returned"}

ButtonState == [left : BOOLEAN, right : BOOLEAN]
NoButtons   == [left |-> FALSE, right |-> FALSE]
Undriven    == [left |-> TRUE, right |-> TRUE]

RuntimeTypeOK ==
    /\ pc \in Points /\ started \in 0..Len(Startup) /\ held \in SUBSET Resources
    /\ withButtons \in BOOLEAN /\ runningFlag \in BOOLEAN
    /\ shown \in [Rows -> [Columns -> Byte]]
    /\ due \in 0..Timeout \union {NoDeadline}
    /\ buttons \in ButtonState /\ levels \in ButtonState
    /\ mouse \in 0..(WindowWidth - 1) \union {Released}
    /\ closing \in BOOLEAN /\ ticked \in BOOLEAN /\ unshownFor \in Nat

Init ==
    /\ ParserInit
    /\ pc = "start" /\ started = 0 /\ held = {} /\ withButtons \in BOOLEAN
    /\ runningFlag = TRUE /\ shown = Blank /\ due = NoDeadline
    /\ buttons = NoButtons /\ levels = Undriven
    /\ mouse = Released /\ closing = FALSE
    /\ ticked = FALSE /\ unshownFor = 0

-----------------------------------------------------------------------------
(* Startup and the end. *)

NextStep == Startup[started + 1]

\* GpioButtonOutputs::new(): open-drain lines that float until a button is pressed.
LinesRequested == buttons' = NoButtons /\ levels' = Undriven

Acquire ==
    /\ pc = "start" /\ started < Len(Startup) /\ (NextStep = "lines" => withButtons)
    /\ started' = started + 1 /\ held' = held \union ({NextStep} \intersect Resources)
    /\ IF NextStep = "lines" THEN LinesRequested ELSE UNCHANGED lineVars
    /\ UNCHANGED <<pc, withButtons, runningFlag, shown, due, windowVars, timeVars, parserVars>>

StartDone ==
    /\ pc = "start"
    /\ \/ started = Len(Startup)
       \/ started = Len(Startup) - 1 /\ ~withButtons
    /\ pc' = "loop"
    /\ UNCHANGED <<startVars, runningFlag, shown, due, lineVars, windowVars, timeVars, parserVars>>

Display == {"sdl", "window", "renderer", "texture"}

\* Faulty form of Destroyed: the branch of the texture forgets the renderer.
DestroyedWithoutRenderer(step) ==
    CASE step \in {"device", "sdl", "title"} -> {}
      [] step = "window"             -> {"sdl"}
      [] step \in {"renderer", "texture"} -> {"sdl", "window"}
      [] step = "size"               -> {"sdl", "window", "renderer"}
      [] OTHER                       -> Display

\* What the failed step's own error branch destroys, or the drop of the SdlDisplay.  The
\* branch of the title returns without SDL_Quit.
Destroyed(step) ==
    CASE step \in {"device", "sdl", "title"} -> {}
      [] step = "window"             -> {"sdl"}
      [] step = "renderer"           -> {"sdl", "window"}
      [] step \in {"size", "texture"} -> {"sdl", "window", "renderer"}
      [] OTHER                       -> Display

\* serve() returns: the device is closed, whichever step failed.
StartFails ==
    /\ pc = "start" /\ started < Len(Startup) /\ (NextStep = "lines" => withButtons)
    /\ pc' = "returned" /\ held' = (held \ Destroyed(NextStep)) \ {"device"}
    /\ UNCHANGED <<started, withButtons, runningFlag, shown, due, lineVars, windowVars, timeVars,
                   parserVars>>

\* serve() returns, with or without an error: the runtime and the device are dropped.
Returned == /\ pc' = "returned" /\ held' = held \ (Display \union {"lines", "device"})
            /\ levels' = Undriven

Stop ==
    /\ pc = "loop" /\ ~runningFlag /\ Returned
    /\ UNCHANGED <<started, withButtons, runningFlag, shown, due, buttons, windowVars, timeVars,
                   parserVars>>

\* read(), a render or the ioctl of the lines reports an error.
Fail ==
    /\ \/ pc = "loop" /\ runningFlag
       \/ pc = "parse" /\ ~running /\ (update.completed > 0 \/ update.boundary)
       \/ pc = "idle" /\ due = 0
       \/ pc = "input" /\ withButtons
    /\ Returned
    /\ UNCHANGED <<started, withButtons, runningFlag, shown, due, buttons, windowVars, timeVars,
                   parserVars>>

-----------------------------------------------------------------------------
(* The loop. *)

\* read() returned a record.  (A read() that is interrupted is made again.)
ReadRecord ==
    /\ pc = "loop" /\ runningFlag
    /\ \E record \in Records[controller] : Push(record)
    /\ pc' = "parse" /\ ticked' = FALSE
    /\ UNCHANGED <<startVars, runningFlag, shown, due, lineVars, windowVars, unshownFor>>

\* Nothing to read: poll, and sleep for 2 ms.
ReadNothing ==
    /\ pc = "loop" /\ runningFlag
    /\ pc' = "idle" /\ ticked' = FALSE
    /\ UNCHANGED <<startVars, runningFlag, shown, due, lineVars, windowVars, unshownFor,
                   parserVars>>

Parse == pc = "parse" /\ Step /\ UNCHANGED runtimeVars

Rendered == shown' = framebuffer /\ due' = NoDeadline /\ unshownFor' = 0

\* A frame boundary: render, and let the parser go on with what is pending.
Present ==
    /\ pc = "parse" /\ ~running /\ (update.completed > 0 \/ update.boundary)
    /\ Rendered /\ Push(<<>>)
    /\ UNCHANGED <<pc, startVars, runningFlag, lineVars, windowVars, ticked>>

\* Faulty form of Defer: every update moves the deadline.
DeferAgain ==
    /\ pc = "parse" /\ ~running /\ update.completed = 0 /\ ~update.boundary
    /\ due' = IF update.updates > 0 THEN Timeout ELSE due
    /\ pc' = "idle"
    /\ UNCHANGED <<startVars, runningFlag, shown, lineVars, windowVars, timeVars, parserVars>>

\* The first update of a partial frame sets the deadline; push() ends in poll_idle().
Defer ==
    /\ pc = "parse" /\ ~running /\ update.completed = 0 /\ ~update.boundary
    /\ due' = IF update.updates > 0 /\ due = NoDeadline THEN Timeout ELSE due
    /\ pc' = "idle"
    /\ UNCHANGED <<startVars, runningFlag, shown, lineVars, windowVars, timeVars, parserVars>>

\* Faulty form of PollIdle: the deadline is taken before it is compared.
PollIdleTakingDeadline ==
    /\ pc = "idle" /\ pc' = "input"
    /\ IF due = 0 THEN Rendered ELSE due' = NoDeadline /\ UNCHANGED <<shown, unshownFor>>
    /\ UNCHANGED <<startVars, runningFlag, lineVars, windowVars, ticked, parserVars>>

\* poll_idle(): the deadline of a partial frame.
PollIdle ==
    /\ pc = "idle" /\ pc' = "input"
    /\ IF due = 0 THEN Rendered ELSE UNCHANGED <<shown, due, unshownFor>>
    /\ UNCHANGED <<startVars, runningFlag, lineVars, windowVars, ticked, parserVars>>

\* mouse_buttons_for_x(): the thirds of the window.
ButtonsFor(x) ==
    IF x = Released THEN NoButtons
    ELSE [left  |-> x < (WindowWidth * 2) \div 3,
          right |-> x >= WindowWidth \div 3]

\* Faulty form of LinesSet: the lines are driven with the buttons' values, uninverted.
LinesSetUninverted(state) ==
    IF state = buttons THEN UNCHANGED lineVars
    ELSE buttons' = state /\ levels' = state

\* GpioButtonOutputs::set(): a pressed button pulls its line low.
LinesSet(state) ==
    IF state = buttons THEN UNCHANGED lineVars
    ELSE buttons' = state /\ levels' = [left |-> ~state.left, right |-> ~state.right]

\* Faulty form of PollInput: the close event is taken from the queue and not passed on.
PollInputKeepingRunning ==
    /\ pc = "input" /\ pc' = "loop"
    /\ IF withButtons THEN LinesSet(ButtonsFor(mouse)) ELSE UNCHANGED lineVars
    /\ closing' = FALSE
    /\ UNCHANGED <<startVars, runningFlag, shown, due, mouse, timeVars, parserVars>>

\* poll_input(): the window's events, its pointer and the button lines.
PollInput ==
    /\ pc = "input" /\ pc' = "loop"
    /\ IF withButtons THEN LinesSet(ButtonsFor(mouse)) ELSE UNCHANGED lineVars
    /\ runningFlag' = (runningFlag /\ ~closing) /\ closing' = FALSE
    /\ UNCHANGED <<startVars, shown, due, mouse, timeVars, parserVars>>

-----------------------------------------------------------------------------
(* The world around the thread. *)

\* A pass of the loop takes less than a tick.
Tick ==
    /\ pc \notin {"start", "returned"} /\ ~ticked /\ ticked' = TRUE
    /\ due' = IF due > 0 THEN due - 1 ELSE due
    /\ unshownFor' = IF framebuffer = shown THEN 0 ELSE unshownFor + 1
    /\ UNCHANGED <<pc, startVars, runningFlag, shown, lineVars, windowVars, parserVars>>

\* The window's events wait in its queue until poll_input() looks at them, and RUNNING is
\* read at the top of the loop: that is where they are taken to happen.
MoveMouse ==
    /\ pc = "input"
    /\ mouse' \in 0..(WindowWidth - 1) \union {Released}
    /\ UNCHANGED <<pc, startVars, runningFlag, shown, due, lineVars, closing, timeVars, parserVars>>

CloseWindow ==
    /\ pc = "input" /\ closing' = TRUE
    /\ UNCHANGED <<pc, startVars, runningFlag, shown, due, lineVars, mouse, timeVars, parserVars>>

\* stop(): the handler of SIGINT and SIGTERM.
Signal ==
    /\ pc \in {"start", "loop"} /\ runningFlag' = FALSE
    /\ UNCHANGED <<pc, startVars, shown, due, lineVars, windowVars, timeVars, parserVars>>

Thread == \/ Acquire \/ StartDone \/ StartFails \/ Stop \/ Fail
          \/ ReadRecord \/ ReadNothing \/ Parse \/ Present \/ Defer \/ PollIdle \/ PollInput

Next == Thread \/ Tick \/ MoveMouse \/ CloseWindow \/ Signal

\* The thread never waits for anything: read() is non-blocking.
Spec == Init /\ [][Next]_vars /\ WF_vars(Thread)

-----------------------------------------------------------------------------
(* Properties. *)

\* Whenever the loop comes back to read(), what the parser has decoded is on the window or
\* a deadline is set for it.
NothingLeftUnshown == (pc = "loop" /\ framebuffer # shown) => due # NoDeadline

\* Partial updates are rendered within the timeout of the first one, and the two passes of
\* the loop around it, even if records never stop coming (README.md:244).
RenderedInTime == unshownFor <= Timeout + 2

\* The startup ended because SdlDisplay::new refused its title.
TitleRefused == pc = "returned" /\ started < Len(Startup) /\ NextStep = "title"

\* However serve() ends, and in whatever step of the startup, nothing is left held, with one
\* exception: SDL stays initialised when the title is refused (sdl_display.rs:141-146).
NothingHeld == pc = "returned" => held = (IF TitleRefused THEN {"sdl"} ELSE {})

\* The lines end up as the held buttons say, also under traffic that never pauses; the
\* ends of the window press one button and its middle both.
LinesFollowMouse ==
    \A x \in 0..(WindowWidth - 1) :
        <>[](mouse = x /\ withButtons) =>
            <>[](\/ pc = "returned"
                 \/ /\ levels.left  <=> x >= (WindowWidth * 2) \div 3
                    /\ levels.right <=> x < WindowWidth \div 3)

\* A close event or a signal ends serve().
CloseEnds == (pc # "start" /\ (closing \/ ~runningFlag)) ~> pc = "returned"
=============================================================================
