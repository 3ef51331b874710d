------------------------- MODULE DisplayRuntimeProofs -------------------------
(***************************************************************************)
(* For every display, every set of records, every timeout and every window *)
(* size: what the parser has decoded is on the window or a deadline is set *)
(* for it, the deadline is kept, and serve() gives everything back.        *)
(***************************************************************************)
EXTENDS DisplayRuntime, DisplayParserProofs

USE RuntimeAssumption

\* Of the types, what the deadlines are about.
ClockTypes ==
    /\ pc \in Points /\ ticked \in BOOLEAN /\ unshownFor \in Nat
    /\ due \in 0..Timeout \union {NoDeadline}

\* What is decoded and not shown has a deadline, or push() has still to give it one.
ShownInv ==
    framebuffer # shown =>
        due # NoDeadline \/ pc = "returned" \/ (pc = "parse" /\ update.updates > 0)

\* Without a deadline at most the current push() has kept something from the window; with
\* one, the ticks that passed and those left add up; an expired one is taken before the
\* second tick.
ClockInv ==
    /\ due = NoDeadline =>
         \/ unshownFor = 0
         \/ pc = "parse" /\ ticked /\ update.updates > 0 /\ unshownFor = 1
         \/ pc = "returned" /\ unshownFor = 1
    /\ due # NoDeadline => unshownFor + due <= Timeout + 2
    /\ due > 0 => unshownFor + due <= Timeout + 1
    /\ due = 0 =>
         \/ pc \in {"parse", "idle"} /\ (ticked \/ unshownFor <= Timeout + 1)
         \/ pc \in {"input", "loop"} /\ ticked /\ unshownFor <= Timeout + 1
         \/ pc = "returned"

\* What is held at each step of the startup, and after the end: nothing, or SDL when the
\* title was refused.
HeldInv ==
    /\ started \in 0..9 /\ held \subseteq Display \union {"device", "lines"}
    /\ pc = "start" =>
         /\ started = 0 => held = {}
         /\ started = 1 => held = {"device"}
         /\ started \in {2, 3} => held = {"device", "sdl"}
         /\ started = 4 => held = {"device", "sdl", "window"}
         /\ started \in {5, 6} => held = {"device", "sdl", "window", "renderer"}
         /\ started \in {7, 8} => held = {"device"} \union Display
    /\ pc \notin {"start", "returned"} => started > 2
    /\ pc = "returned" => held = (IF started = 2 THEN {"sdl"} ELSE {})

IInv == Types /\ ClockTypes /\ ShownInv /\ ClockInv /\ HeldInv

-----------------------------------------------------------------------------
(* What steps do to the parser. *)


\* The thread decodes, pushes, or leaves the parser alone.
LEMMA ParserSteps ==
    ASSUME Types, [Next]_vars
    PROVE  UNCHANGED parserVars \/ Step \/ \E input \in Seq(Byte) : Push(input)
<1> USE DEF runtimeVars, startVars, windowVars, lineVars, timeVars
<1>0. \A record \in Records[controller] : record \in Seq(Byte)
  BY DEF Types, StateTypes
<1>1. CASE Acquire
  BY <1>1 DEF Acquire
<1>2. CASE StartDone
  BY <1>2 DEF StartDone
<1>3. CASE StartFails
  BY <1>3 DEF StartFails
<1>4. CASE Stop
  BY <1>4 DEF Stop
<1>5. CASE Fail
  BY <1>5 DEF Fail
<1>6. CASE ReadRecord
  <2>1. PICK record \in Records[controller] : Push(record)
    BY <1>6 DEF ReadRecord
  <2>2. record \in Seq(Byte)
    BY <2>1, <1>0
  <2> QED BY <2>1, <2>2
<1>7. CASE ReadNothing
  BY <1>7 DEF ReadNothing
<1>8. CASE Parse
  BY <1>8 DEF Parse
<1>9. CASE Present
  <2>1. <<>> \in Seq(Byte)
    OBVIOUS
  <2> QED BY <1>9, <2>1 DEF Present
<1>10. CASE Defer
  BY <1>10 DEF Defer
<1>11. CASE PollIdle
  BY <1>11 DEF PollIdle
<1>12. CASE PollInput
  BY <1>12 DEF PollInput
<1>13. CASE Tick
  BY <1>13 DEF Tick
<1>14. CASE MoveMouse
  BY <1>14 DEF MoveMouse
<1>15. CASE CloseWindow
  BY <1>15 DEF CloseWindow
<1>16. CASE Signal
  BY <1>16 DEF Signal
<1>17. CASE UNCHANGED vars
  BY <1>17 DEF vars
<1> QED BY <1>1, <1>2, <1>3, <1>4, <1>5, <1>6, <1>7, <1>8, <1>9, <1>10, <1>11, <1>12, <1>13,
           <1>14, <1>15, <1>16, <1>17 DEF Next, Thread

\* What push() draws it counts.
LEMMA StepCounts ==
    ASSUME Types, Step
    PROVE  /\ framebuffer' = framebuffer \/ update'.updates > 0
           /\ update.updates > 0 => update'.updates > 0
<1> USE DEF FrameVars, ReadData
<1>0. /\ update.updates \in Nat
      /\ DOMAIN update = {"completed", "boundary", "discarded", "updates"}
  BY DEF Types, UpdateType
<1>a. ASSUME NEW complete, update' = Presented(complete) PROVE update'.updates > 0
  <2>1. update'.updates = update.updates + 1
    <3>1. CASE complete
      BY <1>0, <1>a, <3>1 DEF Presented
    <3>2. CASE ~complete
      BY <1>0, <1>a, <3>2 DEF Presented
    <3> QED BY <3>1, <3>2
  <2> QED BY <1>0, <2>1
<1>2. CASE ConsumePattern
  BY <1>2 DEF ConsumePattern
<1>3. CASE OpenWindow
  BY <1>3 DEF OpenWindow
<1>4. CASE WrapToLowerPage
  BY <1>0, <1>4 DEF WrapToLowerPage
<1>5. CASE OpenPage
  BY <1>5 DEF OpenPage
<1>6. CASE AwaitCommand
  BY <1>6 DEF AwaitCommand
<1>7. CASE Discard
  BY <1>0, <1>7 DEF Discard
<1>8. CASE Resynchronize
  BY <1>8 DEF Resynchronize
<1>9. CASE AwaitData
  BY <1>9 DEF AwaitData
<1>10. CASE ReadWindow
  BY <1>a, <1>10 DEF ReadWindow
<1>11. CASE ReadPage
  BY <1>0, <1>11 DEF ReadPage
<1>12. CASE ReadLastPage
  BY <1>a, <1>12 DEF ReadLastPage
<1> QED BY <1>2, <1>3, <1>4, <1>5, <1>6, <1>7, <1>8, <1>9, <1>10, <1>11, <1>12 DEF Step

-----------------------------------------------------------------------------
(* The invariant is inductive. *)

\* The parser's types.
LEMMA NextParser ==
    ASSUME Types, [Next]_vars
    PROVE  Types'
<1>1. CASE UNCHANGED parserVars
  BY <1>1 DEF Types, FlagTypes, StateTypes, PageTypes, RamType, UpdateType, BytesType, parserVars
<1> QED BY <1>1, ParserSteps, NextTypes

\* The types of the clock.
LEMMA NextClock ==
    ASSUME ClockTypes, [Next]_vars
    PROVE  ClockTypes'
<1> USE DEF ClockTypes, Points, NoDeadline, runtimeVars, startVars, windowVars, lineVars, timeVars
<1>1. CASE Acquire
  BY <1>1 DEF Acquire
<1>2. CASE StartDone
  BY <1>2 DEF StartDone
<1>3. CASE StartFails
  BY <1>3 DEF StartFails
<1>4. CASE Stop
  BY <1>4 DEF Stop, Returned
<1>5. CASE Fail
  BY <1>5 DEF Fail, Returned
<1>6. CASE ReadRecord
  BY <1>6 DEF ReadRecord
<1>7. CASE ReadNothing
  BY <1>7 DEF ReadNothing
<1>8. CASE Parse
  BY <1>8 DEF Parse
<1>9. CASE Present
  BY <1>9 DEF Present, Rendered
<1>10. CASE Defer
  <2>1. due' \in {due, Timeout} /\ pc' = "idle" /\ UNCHANGED <<ticked, unshownFor>>
    BY <1>10 DEF Defer
  <2> QED BY <2>1
<1>11. CASE PollIdle
  BY <1>11 DEF PollIdle, Rendered
<1>12. CASE PollInput
  BY <1>12 DEF PollInput
<1>13. CASE Tick
  <2>1. pc' = pc /\ ticked' = TRUE
    BY <1>13 DEF Tick
  <2>2. (due > 0 /\ due' = due - 1) \/ due' = due
    BY <1>13 DEF Tick
  <2>3. unshownFor' \in {0, unshownFor + 1}
    BY <1>13 DEF Tick
  <2> QED BY <2>1, <2>2, <2>3
<1>14. CASE MoveMouse
  BY <1>14 DEF MoveMouse
<1>15. CASE CloseWindow
  BY <1>15 DEF CloseWindow
<1>16. CASE Signal
  BY <1>16 DEF Signal
<1>17. CASE UNCHANGED vars
  BY <1>17 DEF vars
<1> QED BY <1>1, <1>2, <1>3, <1>4, <1>5, <1>6, <1>7, <1>8, <1>9, <1>10, <1>11, <1>12, <1>13,
           <1>14, <1>15, <1>16, <1>17 DEF Next, Thread

\* Nothing decoded is forgotten.
LEMMA NextShown ==
    ASSUME Types, ClockTypes, ShownInv, [Next]_vars
    PROVE  ShownInv'
<1> USE DEF ShownInv, NoDeadline, runtimeVars, startVars, windowVars, lineVars, timeVars
<1>1. CASE Acquire
  BY <1>1 DEF Acquire, parserVars
<1>2. CASE StartDone
  BY <1>2 DEF StartDone, parserVars
<1>3. CASE StartFails
  BY <1>3 DEF StartFails, parserVars
<1>4. CASE Stop
  BY <1>4 DEF Stop, Returned, parserVars
<1>5. CASE Fail
  BY <1>5 DEF Fail, Returned, parserVars
<1>6. CASE ReadRecord
  <2>1. UNCHANGED <<framebuffer, shown, due>> /\ pc = "loop"
    BY <1>6 DEF ReadRecord, Push
  <2> QED BY <2>1
<1>7. CASE ReadNothing
  BY <1>7 DEF ReadNothing, parserVars
<1>8. CASE Parse
  <2>1. UNCHANGED <<pc, shown, due>> /\ pc = "parse" /\ Step
    BY <1>8 DEF Parse
  <2> QED BY <2>1, StepCounts
<1>9. CASE Present
  <2>1. shown' = framebuffer /\ framebuffer' = framebuffer
    BY <1>9 DEF Present, Rendered, Push
  <2> QED BY <2>1
<1>10. CASE Defer
  <2>1. UNCHANGED <<framebuffer, shown>>
        /\ due' = IF update.updates > 0 /\ due = -1 THEN Timeout ELSE due
    BY <1>10 DEF Defer, parserVars
  <2>2. Timeout # -1
    OBVIOUS
  <2> QED BY <1>10, <2>1, <2>2 DEF Defer
<1>11. CASE PollIdle
  <2>1. CASE due = 0
    BY <1>11, <2>1 DEF PollIdle, Rendered, parserVars
  <2>2. CASE due # 0
    BY <1>11, <2>2 DEF PollIdle, parserVars
  <2> QED BY <2>1, <2>2
<1>12. CASE PollInput
  BY <1>12 DEF PollInput, parserVars
<1>13. CASE Tick
  <2>1. UNCHANGED <<framebuffer, shown, pc, update>>
        /\ due' = IF due > 0 THEN due - 1 ELSE due
    BY <1>13 DEF Tick, parserVars
  <2>2. due # -1 => due' # -1
    BY <2>1 DEF ClockTypes
  <2> QED BY <2>1, <2>2
<1>14. CASE MoveMouse
  BY <1>14 DEF MoveMouse, parserVars
<1>15. CASE CloseWindow
  BY <1>15 DEF CloseWindow, parserVars
<1>16. CASE Signal
  BY <1>16 DEF Signal, parserVars
<1>17. CASE UNCHANGED vars
  BY <1>17 DEF vars, parserVars
<1> QED BY <1>1, <1>2, <1>3, <1>4, <1>5, <1>6, <1>7, <1>8, <1>9, <1>10, <1>11, <1>12, <1>13,
           <1>14, <1>15, <1>16, <1>17 DEF Next, Thread

\* The deadline is kept.
LEMMA NextTicks ==
    ASSUME Types, ClockTypes, ShownInv, ClockInv, [Next]_vars
    PROVE  ClockInv'
<1> USE DEF ClockInv, NoDeadline, runtimeVars, startVars, windowVars, lineVars, timeVars
<1>0. unshownFor \in Nat /\ due \in Int /\ Timeout \in Nat
  BY DEF ClockTypes
<1>1. CASE Acquire
  <2>1. UNCHANGED <<due, unshownFor, ticked>>
    BY <1>1 DEF Acquire
  <2>2. pc' = pc /\ update' = update
    BY <1>1 DEF Acquire, parserVars
  <2> QED BY <1>0, <2>1, <2>2
<1>2. CASE StartDone
  <2>1. UNCHANGED <<due, unshownFor, ticked>>
    BY <1>2 DEF StartDone
  <2>2. pc = "start" /\ pc' = "loop"
    BY <1>2 DEF StartDone, parserVars
  <2> QED BY <1>0, <2>1, <2>2
<1>3. CASE StartFails
  <2>1. UNCHANGED <<due, unshownFor, ticked>>
    BY <1>3 DEF StartFails
  <2>2. pc = "start" /\ pc' = "returned"
    BY <1>3 DEF StartFails, parserVars
  <2> QED BY <1>0, <2>1, <2>2
<1>4. CASE Stop
  <2>1. UNCHANGED <<due, unshownFor, ticked>>
    BY <1>4 DEF Stop, Returned
  <2>2. pc # "returned" /\ pc' = "returned"
    BY <1>4 DEF Stop, Returned, parserVars
  <2> QED BY <1>0, <2>1, <2>2
<1>5. CASE Fail
  <2>1. UNCHANGED <<due, unshownFor, ticked>>
    BY <1>5 DEF Fail, Returned
  <2>2. pc # "returned" /\ pc' = "returned"
    BY <1>5 DEF Fail, Returned, parserVars
  <2> QED BY <1>0, <2>1, <2>2
<1>6. CASE ReadRecord
  <2>1. UNCHANGED <<due, unshownFor>> /\ pc = "loop" /\ pc' = "parse"
    BY <1>6 DEF ReadRecord
  <2> QED BY <1>0, <2>1
<1>7. CASE ReadNothing
  <2>1. UNCHANGED <<due, unshownFor>> /\ pc = "loop" /\ pc' = "idle"
    BY <1>7 DEF ReadNothing
  <2> QED BY <1>0, <2>1
<1>8. CASE Parse
  <2>1. UNCHANGED <<pc, due, unshownFor, ticked>> /\ Step
    BY <1>8 DEF Parse
  <2> QED BY <1>0, <2>1, StepCounts
<1>9. CASE Present
  <2>1. due' = -1 /\ unshownFor' = 0
    BY <1>9 DEF Present, Rendered
  <2> QED BY <1>0, <2>1
<1>10. CASE Defer
  <2>1. /\ UNCHANGED <<unshownFor, ticked>> /\ pc = "parse" /\ pc' = "idle"
        /\ due' = IF update.updates > 0 /\ due = -1 THEN Timeout ELSE due
    BY <1>10 DEF Defer
  <2>2. Timeout > 0
    OBVIOUS
  <2> QED BY <1>0, <2>1, <2>2
<1>11. CASE PollIdle
  <2>1. pc = "idle" /\ pc' = "input" /\ ticked' = ticked
    BY <1>11 DEF PollIdle
  <2>2. CASE due = 0
    <3>1. due' = -1 /\ unshownFor' = 0
      BY <1>11, <2>2 DEF PollIdle, Rendered
    <3> QED BY <1>0, <3>1
  <2>3. CASE due # 0
    <3>1. UNCHANGED <<due, unshownFor>>
      BY <1>11, <2>3 DEF PollIdle
    <3> QED BY <1>0, <2>1, <2>3, <3>1
  <2> QED BY <1>0, <2>2, <2>3
<1>12. CASE PollInput
  <2>1. UNCHANGED <<due, unshownFor, ticked>> /\ pc = "input" /\ pc' = "loop"
    BY <1>12 DEF PollInput
  <2> QED BY <1>0, <2>1
<1>13. CASE Tick
  <2>1. /\ ~ticked /\ ticked' /\ pc \in Points \ {"start", "returned"} /\ pc' = pc
        /\ UNCHANGED update
        /\ due' = IF due > 0 THEN due - 1 ELSE due
        /\ unshownFor' = IF framebuffer = shown THEN 0 ELSE unshownFor + 1
    BY <1>13 DEF Tick, ClockTypes, parserVars
  <2>2. CASE due = -1
    <3>1. unshownFor' = 0 \/ (pc = "parse" /\ update.updates > 0 /\ unshownFor' = 1)
      BY <2>1, <2>2 DEF ShownInv
    <3> QED BY <1>0, <2>1, <2>2, <3>1
  <2>3. CASE due > 0
    <3>1. due' = due - 1 /\ unshownFor + due <= Timeout + 1
      BY <2>1, <2>3
    <3>2. unshownFor' = 0 \/ unshownFor' = unshownFor + 1
      BY <2>1
    <3>3. unshownFor' + due' <= Timeout + 1
      BY <1>0, <3>1, <3>2
    <3> QED BY <1>0, <2>1, <2>3, <3>1, <3>3 DEF Points
  <2>4. CASE due = 0
    <3>1. due' = 0 /\ (unshownFor' = 0 \/ unshownFor' = unshownFor + 1)
      BY <2>1, <2>4
    <3>2. pc \in {"parse", "idle"} /\ unshownFor <= Timeout + 1
      BY <2>1, <2>4
    <3>3. unshownFor' + due' <= Timeout + 2
      BY <1>0, <3>1, <3>2
    <3> QED BY <1>0, <2>1, <3>1, <3>2, <3>3
  <2> QED BY <1>0, <2>2, <2>3, <2>4 DEF ClockTypes
<1>14. CASE MoveMouse
  <2>1. UNCHANGED <<due, unshownFor, ticked>>
    BY <1>14 DEF MoveMouse
  <2>2. pc' = pc /\ update' = update
    BY <1>14 DEF MoveMouse, parserVars
  <2> QED BY <1>0, <2>1, <2>2
<1>15. CASE CloseWindow
  <2>1. UNCHANGED <<due, unshownFor, ticked>>
    BY <1>15 DEF CloseWindow
  <2>2. pc' = pc /\ update' = update
    BY <1>15 DEF CloseWindow, parserVars
  <2> QED BY <1>0, <2>1, <2>2
<1>16. CASE Signal
  <2>1. UNCHANGED <<due, unshownFor, ticked>>
    BY <1>16 DEF Signal
  <2>2. pc' = pc /\ update' = update
    BY <1>16 DEF Signal, parserVars
  <2> QED BY <1>0, <2>1, <2>2
<1>17. CASE UNCHANGED vars
  <2>1. UNCHANGED <<due, unshownFor, ticked, pc, update>>
    BY <1>17 DEF vars, parserVars
  <2> QED BY <1>0, <2>1
<1> QED BY <1>1, <1>2, <1>3, <1>4, <1>5, <1>6, <1>7, <1>8, <1>9, <1>10, <1>11, <1>12, <1>13,
           <1>14, <1>15, <1>16, <1>17 DEF Next, Thread

\* What is held is known at every step, and given back at the end.
LEMMA NextHeld ==
    ASSUME HeldInv, [Next]_vars
    PROVE  HeldInv'
<1> USE DEF HeldInv, Display, runtimeVars, startVars, windowVars, lineVars, timeVars
<1>1. CASE Acquire
  <2>1. /\ pc = "start" /\ pc' = "start" /\ started < 9 /\ started' = started + 1
        /\ held' = held \union ({Startup[started + 1]} \intersect Resources)
    BY <1>1 DEF Acquire, NextStep, Startup
  <2>2. CASE started = 0
    <3>1. Startup[started + 1] = "device"
      BY <2>2 DEF Startup
    <3>2. held' = {"device"}
      <4>1. held = {}
        BY <2>1, <2>2
      <4> QED BY <2>1, <3>1, <4>1 DEF Resources
    <3>3. started' = 1 /\ pc' = "start"
      BY <2>1, <2>2
    <3> QED BY <2>1, <2>2, <3>2, <3>3
  <2>3. CASE started = 1
    <3>1. Startup[started + 1] = "sdl"
      BY <2>3 DEF Startup
    <3>2. held' = held \union {"sdl"}
      BY <2>1, <3>1 DEF Resources
    <3>3. started' = 2 /\ pc' = "start"
      BY <2>1, <2>3
    <3> QED BY <2>1, <2>3, <3>2, <3>3
  <2>4. CASE started = 2
    <3>1. Startup[started + 1] = "title"
      BY <2>4 DEF Startup
    <3>2. held' = held
      BY <2>1, <3>1 DEF Resources
    <3>3. started' = 3 /\ pc' = "start"
      BY <2>1, <2>4
    <3> QED BY <2>1, <2>4, <3>2, <3>3
  <2>5. CASE started = 3
    <3>1. Startup[started + 1] = "window"
      BY <2>5 DEF Startup
    <3>2. held' = held \union {"window"}
      BY <2>1, <3>1 DEF Resources
    <3>3. started' = 4 /\ pc' = "start"
      BY <2>1, <2>5
    <3> QED BY <2>1, <2>5, <3>2, <3>3
  <2>6. CASE started = 4
    <3>1. Startup[started + 1] = "renderer"
      BY <2>6 DEF Startup
    <3>2. held' = held \union {"renderer"}
      BY <2>1, <3>1 DEF Resources
    <3>3. started' = 5 /\ pc' = "start"
      BY <2>1, <2>6
    <3> QED BY <2>1, <2>6, <3>2, <3>3
  <2>7. CASE started = 5
    <3>1. Startup[started + 1] = "size"
      BY <2>7 DEF Startup
    <3>2. held' = held
      BY <2>1, <3>1 DEF Resources
    <3>3. started' = 6 /\ pc' = "start"
      BY <2>1, <2>7
    <3> QED BY <2>1, <2>7, <3>2, <3>3
  <2>8. CASE started = 6
    <3>1. Startup[started + 1] = "texture"
      BY <2>8 DEF Startup
    <3>2. held' = held \union {"texture"}
      BY <2>1, <3>1 DEF Resources
    <3>3. started' = 7 /\ pc' = "start"
      BY <2>1, <2>8
    <3> QED BY <2>1, <2>8, <3>2, <3>3
  <2>9. CASE started = 7
    <3>1. Startup[started + 1] = "frame"
      BY <2>9 DEF Startup
    <3>2. held' = held
      BY <2>1, <3>1 DEF Resources
    <3>3. started' = 8 /\ pc' = "start"
      BY <2>1, <2>9
    <3> QED BY <2>1, <2>9, <3>2, <3>3
  <2>10. CASE started = 8
    <3>1. Startup[started + 1] = "lines"
      BY <2>10 DEF Startup
    <3>2. held' = held \union {"lines"}
      BY <2>1, <3>1 DEF Resources
    <3>3. started' = 9 /\ pc' = "start"
      BY <2>1, <2>10
    <3> QED BY <2>1, <2>10, <3>2, <3>3
  <2> QED BY <2>1, <2>2, <2>3, <2>4, <2>5, <2>6, <2>7, <2>8, <2>9, <2>10
<1>2. CASE StartDone
  <2>1. UNCHANGED <<started, held>> /\ pc' = "loop" /\ started > 2
    BY <1>2 DEF StartDone, Startup
  <2> QED BY <2>1
<1>3. CASE StartFails
  <2>1. /\ pc = "start" /\ pc' = "returned" /\ started < 9 /\ started' = started
        /\ held' = (held \ Destroyed(Startup[started + 1])) \ {"device"}
    BY <1>3 DEF StartFails, NextStep, Startup
  <2>2. CASE started = 0
    BY <2>1, <2>2 DEF Startup, Destroyed
  <2>3. CASE started = 1
    BY <2>1, <2>3 DEF Startup, Destroyed
  <2>4. CASE started = 2
    BY <2>1, <2>4 DEF Startup, Destroyed
  <2>5. CASE started = 3
    BY <2>1, <2>5 DEF Startup, Destroyed
  <2>6. CASE started = 4
    BY <2>1, <2>6 DEF Startup, Destroyed
  <2>7. CASE started = 5
    BY <2>1, <2>7 DEF Startup, Destroyed
  <2>8. CASE started = 6
    BY <2>1, <2>8 DEF Startup, Destroyed
  <2>9. CASE started = 7
    BY <2>1, <2>9 DEF Startup, Destroyed
  <2>10. CASE started = 8
    BY <2>1, <2>10 DEF Startup, Destroyed
  <2> QED BY <2>1, <2>2, <2>3, <2>4, <2>5, <2>6, <2>7, <2>8, <2>9, <2>10
<1>4. CASE Stop
  <2>1. UNCHANGED started /\ pc \notin {"start", "returned"} /\ pc' = "returned"
        /\ held' = held \ (Display \union {"lines", "device"})
    BY <1>4 DEF Stop, Returned
  <2>2. held' = {}
    BY <2>1
  <2>3. started' \in 0..9 /\ started' # 2
    BY <2>1
  <2>4. held' \subseteq Display \union {"device", "lines"} /\ "lines" \notin held'
    BY <2>2
  <2> QED BY <2>1, <2>2, <2>3, <2>4
<1>5. CASE Fail
  <2>1. UNCHANGED started /\ pc \notin {"start", "returned"} /\ pc' = "returned"
        /\ held' = held \ (Display \union {"lines", "device"})
    BY <1>5 DEF Fail, Returned
  <2>2. held' = {}
    BY <2>1
  <2>3. started' \in 0..9 /\ started' # 2
    BY <2>1
  <2>4. held' \subseteq Display \union {"device", "lines"} /\ "lines" \notin held'
    BY <2>2
  <2> QED BY <2>1, <2>2, <2>3, <2>4
<1>6. CASE ReadRecord
  <2>1. UNCHANGED <<started, held>> /\ {pc, pc'} \intersect {"start", "returned"} = {}
    BY <1>6 DEF ReadRecord
  <2> QED BY <2>1
<1>7. CASE ReadNothing
  <2>1. UNCHANGED <<started, held>> /\ {pc, pc'} \intersect {"start", "returned"} = {}
    BY <1>7 DEF ReadNothing
  <2> QED BY <2>1
<1>8. CASE Parse
  <2>1. UNCHANGED <<started, held, pc>>
    BY <1>8 DEF Parse
  <2> QED BY <2>1
<1>9. CASE Present
  <2>1. UNCHANGED <<started, held, pc>>
    BY <1>9 DEF Present
  <2> QED BY <2>1
<1>10. CASE Defer
  <2>1. UNCHANGED <<started, held>> /\ {pc, pc'} \intersect {"start", "returned"} = {}
    BY <1>10 DEF Defer
  <2> QED BY <2>1
<1>11. CASE PollIdle
  <2>1. UNCHANGED <<started, held>> /\ {pc, pc'} \intersect {"start", "returned"} = {}
    BY <1>11 DEF PollIdle
  <2> QED BY <2>1
<1>12. CASE PollInput
  <2>1. UNCHANGED <<started, held>> /\ {pc, pc'} \intersect {"start", "returned"} = {}
    BY <1>12 DEF PollInput
  <2> QED BY <2>1
<1>13. CASE Tick
  <2>1. UNCHANGED <<started, held, pc>>
    BY <1>13 DEF Tick
  <2> QED BY <2>1
<1>14. CASE MoveMouse
  <2>1. UNCHANGED <<started, held, pc>>
    BY <1>14 DEF MoveMouse
  <2> QED BY <2>1
<1>15. CASE CloseWindow
  <2>1. UNCHANGED <<started, held, pc>>
    BY <1>15 DEF CloseWindow
  <2> QED BY <2>1
<1>16. CASE Signal
  <2>1. UNCHANGED <<started, held, pc>>
    BY <1>16 DEF Signal
  <2> QED BY <2>1
<1>17. CASE UNCHANGED vars
  <2>1. UNCHANGED <<started, held, pc>>
    BY <1>17 DEF vars
  <2> QED BY <2>1
<1> QED BY <1>1, <1>2, <1>3, <1>4, <1>5, <1>6, <1>7, <1>8, <1>9, <1>10, <1>11, <1>12, <1>13,
           <1>14, <1>15, <1>16, <1>17 DEF Next, Thread

\* The invariant holds initially.
LEMMA InitInv == Init => IInv
<1> SUFFICES ASSUME Init PROVE IInv
  OBVIOUS
<1>1. Types
  BY InitTypes DEF Init
<1>2. ClockTypes
  BY DEF Init, ClockTypes, Points
<1>3. ShownInv
  BY DEF Init, ParserInit, ShownInv
<1>4. ClockInv
  BY DEF Init, ClockInv, NoDeadline
<1>5. HeldInv
  BY DEF Init, HeldInv
<1> QED BY <1>1, <1>2, <1>3, <1>4, <1>5 DEF IInv

\* The invariant holds throughout serve().
THEOREM Invariant == Spec => []IInv
<1>1. IInv /\ [Next]_vars => IInv'
  BY NextParser, NextClock, NextShown, NextTicks, NextHeld DEF IInv
<1> QED BY InitInv, <1>1, PTL DEF Spec

-----------------------------------------------------------------------------
(* The properties that follow from the invariant. *)

\* What DisplayRuntime::push decodes is rendered by it or has partial_frame_deadline set
\* when the loop comes back to read().
THEOREM NothingForgotten == Spec => []NothingLeftUnshown
<1>1. IInv => NothingLeftUnshown
  BY DEF IInv, ShownInv, NothingLeftUnshown
<1> QED BY Invariant, <1>1, PTL

\* poll_idle() renders a partial frame within the timeout of its first update and two
\* passes of the loop, whatever records arrive meanwhile.
THEOREM DeadlineKept == Spec => []RenderedInTime
<1>1. IInv => RenderedInTime
  <2> SUFFICES ASSUME IInv PROVE RenderedInTime
    OBVIOUS
  <2>1. unshownFor \in Nat /\ due \in 0..Timeout \union {-1} /\ Timeout \in Nat
    BY DEF IInv, ClockTypes, NoDeadline
  <2>2. CASE due = -1
    BY <2>1, <2>2 DEF IInv, ClockInv, NoDeadline, RenderedInTime
  <2>3. CASE due # -1
    BY <2>1, <2>3 DEF IInv, ClockInv, NoDeadline, RenderedInTime
  <2> QED BY <2>2, <2>3
<1> QED BY Invariant, <1>1, PTL

\* Every way out of the loop, and every error branch of serve() and DisplayRuntime::start but
\* one, gives back the device, the window and the button lines; the branch of a refused title
\* leaves SDL initialised and nothing else.
THEOREM GivesBack == Spec => []NothingHeld
<1>1. IInv => NothingHeld
  <2> SUFFICES ASSUME IInv, pc = "returned" PROVE held = (IF TitleRefused THEN {"sdl"} ELSE {})
    BY DEF NothingHeld
  <2>1. started \in 0..9 /\ held = (IF started = 2 THEN {"sdl"} ELSE {})
    BY DEF IInv, HeldInv
  <2>2. TitleRefused <=> started = 2
    BY <2>1 DEF TitleRefused, NextStep, Startup
  <2> QED BY <2>1, <2>2
<1> QED BY Invariant, <1>1, PTL
=============================================================================
