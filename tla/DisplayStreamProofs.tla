-------------------------- MODULE DisplayStreamProofs --------------------------
(***************************************************************************)
(* What a stream decodes to does not depend on how it is cut into pieces,  *)
(* and an undamaged stream decodes to what its sender meant, for every     *)
(* size of display, stream and fragmentation.                              *)
(*                                                                         *)
(* A decoding state is the parser's state with all the bytes of the stream *)
(* that are not decoded yet.  Turn is the one step the parser can take     *)
(* from it; it needs no bytes but the ones it takes, so that more of them  *)
(* behind change nothing.  Both parsers of DisplayStream follow Turn from  *)
(* the same state until nothing can be decoded: they end in the same one.  *)
(* A message that the sender means leads, by turns, from a state with      *)
(* nothing pending to such a state with the message executed.              *)
(***************************************************************************)
EXTENDS DisplayStream, DisplayParserProofs

State(c, bytes, m, w, f, pages, started, last, counts) ==
    [controller |-> c, pending |-> bytes, mode |-> m, window |-> w, framebuffer |-> f,
     pages |-> pages, started |-> started, last |-> last, counts |-> counts]

\* The parser's operators in a decoding state.
At(s) == INSTANCE DisplayParser
    WITH controller <- s.controller, pending <- s.pending, mode <- s.mode,
         window <- s.window, framebuffer <- s.framebuffer, sh1106Pages <- s.pages,
         frameStarted <- s.started, lastPage <- s.last, update <- s.counts, running <- TRUE

\* The numbers of the protocol, here and there.
USE DEF Command, Data, SetColumns, SetPages, SetPage, FirstColumn, NoPage, NoColumn, Rows,
        Columns, At!Command, At!Data, At!SetColumns, At!SetPages, At!SetPage, At!FirstColumn,
        At!NoPage, At!NoColumn, At!Rows, At!Columns

-----------------------------------------------------------------------------
(* One turn of the parser's loop as a function of the decoding state. *)

\* More bytes are needed.
Stuck(s) ==
    IF s.mode = "Scan"
    THEN At(s)!Matched = {} /\ ~At(s)!Backward /\ ~At(s)!Accepted /\ At(s)!Undecided
    ELSE ~At(s)!Misframed /\ ~At(s)!DataRead

PatternTaken(s) ==
    State(s.controller, At(s)!Rest(Len(CHOOSE p \in At(s)!Matched : TRUE)), "Scan", s.window,
          s.framebuffer, s.pages, s.started, s.last, s.counts)

FrameLeft(s) ==
    State(s.controller, s.pending, "Scan", s.window, s.framebuffer, {}, FALSE, NoPage, s.counts)

WindowOpened(s) ==
    State(s.controller, At(s)!Rest(7), "Ssd1306Data",
          [x |-> s.pending[3], width |-> s.pending[4] - s.pending[3] + 1,
           page |-> s.pending[6], pages |-> s.pending[7] - s.pending[6] + 1],
          s.framebuffer, s.pages, s.started, s.last, s.counts)

PageOpened(s) ==
    State(s.controller, At(s)!Rest(IF At(s)!Legacy THEN 4 ELSE 6), "Sh1106PageData",
          At(s)!PageRange, s.framebuffer,
          IF At(s)!CommandedPage = 0 THEN {} ELSE s.pages,
          s.started \/ At(s)!CommandedPage = 0, At(s)!CommandedPage, s.counts)

ByteDiscarded(s) ==
    State(s.controller, At(s)!Rest(1), "Scan", s.window, s.framebuffer, s.pages, s.started,
          s.last, [s.counts EXCEPT !.discarded = @ + 1])

CommandExpected(s) ==
    State(s.controller, s.pending, "Scan", s.window, s.framebuffer, s.pages, s.started, s.last,
          s.counts)

Shown(counts, complete) ==
    [counts EXCEPT !.updates = @ + 1, !.frames = @ + (IF complete THEN 1 ELSE 0)]

WindowTaken(s) ==
    State(s.controller, At(s)!Rest(At(s)!MessageSize), "Scan", s.window, At(s)!Filled,
          s.pages, s.started, s.last,
          Shown(s.counts, At(s)!FullWidth /\ s.window.page = 0 /\ s.window.pages = Pages))

PageTaken(s) ==
    State(s.controller, At(s)!Rest(At(s)!MessageSize), "Scan", s.window, At(s)!Filled,
          At(s)!PagesWritten, s.started, s.last, Shown(s.counts, FALSE))

LastPageTaken(s) ==
    State(s.controller, At(s)!Rest(At(s)!MessageSize), "Scan", s.window, At(s)!Filled,
          {}, FALSE, NoPage, Shown(s.counts, s.started /\ At(s)!PagesWritten = Rows))

ScanTurn(s) ==
    IF At(s)!Matched # {} THEN PatternTaken(s)
    ELSE IF At(s)!Backward THEN FrameLeft(s)
    ELSE IF ~At(s)!Accepted THEN ByteDiscarded(s)
    ELSE IF s.controller = "ssd1306" THEN WindowOpened(s) ELSE PageOpened(s)

DataTurn(s) ==
    IF At(s)!Misframed THEN CommandExpected(s)
    ELSE IF s.mode = "Ssd1306Data" THEN WindowTaken(s)
    ELSE IF s.window.page < Pages - 1 THEN PageTaken(s) ELSE LastPageTaken(s)

Turn(s) == IF s.mode = "Scan" THEN ScanTurn(s) ELSE DataTurn(s)

\* Every set of states that has s and the turns of its members has t.
Closed(S)     == \A s \in S : Stuck(s) \/ Turn(s) \in S
Reaches(s, t) == \A S : s \in S /\ Closed(S) => t \in S

-----------------------------------------------------------------------------
(* Facts about Reaches. *)

\* No turn.
LEMMA ReachesItself == ASSUME NEW s PROVE Reaches(s, s)
  BY DEF Reaches

\* One turn more.
LEMMA ReachesTurn ==
    ASSUME NEW s, NEW t, Reaches(s, t), ~Stuck(t)
    PROVE  Reaches(s, Turn(t))
  BY DEF Reaches, Closed

\* One turn less: there is only one way.
LEMMA ReachedAfterTurn ==
    ASSUME NEW s, NEW t, Reaches(s, t), ~Stuck(s), Stuck(t)
    PROVE  Reaches(Turn(s), t)
<1> SUFFICES ASSUME NEW S, Turn(s) \in S, Closed(S) PROVE t \in S
  BY DEF Reaches
<1>1. Closed(S \union {s})
  BY DEF Closed
<1>2. t \in S \union {s}
  BY <1>1 DEF Reaches
<1> QED BY <1>2

\* Nothing but itself is reached from a state that needs more bytes.
LEMMA StuckReaches ==
    ASSUME NEW s, NEW t, Reaches(s, t), Stuck(s)
    PROVE  t = s
<1>1. Closed({s})
  BY DEF Closed
<1> QED BY <1>1 DEF Reaches

-----------------------------------------------------------------------------
(* More bytes behind those that a turn takes do not change it. *)

Longer(s, rest) ==
    State(s.controller, s.pending \o rest, s.mode, s.window, s.framebuffer, s.pages, s.started,
          s.last, s.counts)

\* What a turn needs to know of a state's types.
Readable(s) ==
    /\ s = State(s.controller, s.pending, s.mode, s.window, s.framebuffer, s.pages, s.started,
                 s.last, s.counts)
    /\ s.controller \in {"ssd1306", "sh1106"}
    /\ s.pending \in Seq(Byte) /\ s.mode \in Modes /\ s.window \in Windows

\* A state written out, with more bytes.
LEMMA LongerState ==
    ASSUME NEW c, NEW bytes, NEW m, NEW w, NEW f, NEW pages, NEW started, NEW last, NEW counts,
           NEW rest
    PROVE  Longer(State(c, bytes, m, w, f, pages, started, last, counts), rest) =
              State(c, bytes \o rest, m, w, f, pages, started, last, counts)
  BY DEF Longer, State

\* Its parts.
LEMMA StateParts ==
    ASSUME NEW c, NEW bytes, NEW m, NEW w, NEW f, NEW pages, NEW started, NEW last, NEW counts,
           NEW s, s = State(c, bytes, m, w, f, pages, started, last, counts)
    PROVE  /\ s.controller = c /\ s.pending = bytes /\ s.mode = m /\ s.window = w
           /\ s.framebuffer = f /\ s.pages = pages /\ s.started = started /\ s.last = last
           /\ s.counts = counts
  BY DEF State

\* The bytes in front stay the same.
LEMMA LongerBytes ==
    ASSUME NEW q \in Seq(Byte), NEW rest \in Seq(Byte)
    PROVE  /\ q \o rest \in Seq(Byte) /\ Len(q) \in Nat /\ Len(rest) \in Nat
           /\ Len(q \o rest) = Len(q) + Len(rest)
           /\ \A i \in 1..Len(q) : (q \o rest)[i] = q[i] /\ q[i] \in Byte
  BY ConcatProperties, ElementOfSeq

\* What is left of the longer sequence after n bytes.
LEMMA LongerRest ==
    ASSUME NEW q \in Seq(Byte), NEW rest \in Seq(Byte), NEW n \in 0..Len(q)
    PROVE  SubSeq(q \o rest, n + 1, Len(q \o rest)) = SubSeq(q, n + 1, Len(q)) \o rest
<1> DEFINE long  == q \o rest
           left  == SubSeq(long, n + 1, Len(long))
           front == SubSeq(q, n + 1, Len(q))
           right == front \o rest
<1>1. /\ long \in Seq(Byte) /\ Len(q) \in Nat /\ Len(rest) \in Nat
      /\ Len(long) = Len(q) + Len(rest)
      /\ \A i \in 1..Len(q) + Len(rest) : long[i] = IF i <= Len(q) THEN q[i] ELSE rest[i - Len(q)]
  BY ConcatProperties
<1>2. /\ \A i \in n + 1..Len(q) : q[i] \in Byte
      /\ \A i \in n + 1..Len(long) : long[i] \in Byte
  BY <1>1, ElementOfSeq
<1> HIDE DEF long
<1>3. /\ front \in Seq(Byte) /\ Len(front) = Len(q) - n
      /\ \A i \in 1..Len(q) - n : front[i] = q[n + i]
  BY <1>1, <1>2, SubSeqProperties
<1>4. /\ left \in Seq(Byte) /\ Len(left) = Len(long) - n
      /\ \A i \in 1..Len(long) - n : left[i] = long[n + i]
  BY <1>1, <1>2, SubSeqProperties
<1> HIDE DEF front, left
<1>5. /\ right \in Seq(Byte) /\ Len(right) = Len(front) + Len(rest)
      /\ \A i \in 1..Len(front) + Len(rest) :
            right[i] = IF i <= Len(front) THEN front[i] ELSE rest[i - Len(front)]
  BY <1>3, ConcatProperties
<1> HIDE DEF right
<1>6. ASSUME NEW i \in 1..Len(left) PROVE left[i] = right[i]
  <2>1. left[i] = long[n + i] /\ n + i \in 1..Len(q) + Len(rest) /\ i \in Nat /\ n \in Nat
    BY <1>1, <1>4
  <2>2. i \in 1..Len(front) + Len(rest)
    BY <1>1, <1>3, <1>4
  <2>3. CASE n + i <= Len(q)
    <3>1. i <= Len(front) /\ i \in 1..Len(q) - n
      BY <1>1, <1>3, <2>1, <2>3
    <3> QED BY <1>1, <1>3, <1>5, <2>1, <2>2, <2>3, <3>1
  <2>4. CASE n + i > Len(q)
    <3>1. ~(i <= Len(front)) /\ n + i - Len(q) = i - Len(front)
      BY <1>1, <1>3, <2>1, <2>4
    <3>2. left[i] = rest[n + i - Len(q)]
      BY <1>1, <2>1, <2>4, SMTT(30)
    <3>3. right[i] = rest[i - Len(front)]
      BY <1>5, <2>2, <3>1
    <3> QED BY <3>1, <3>2, <3>3
  <2> QED BY <1>1, <2>1, <2>3, <2>4
<1>7. left = right
  <2>1. Len(left) = Len(right)
    BY <1>1, <1>3, <1>4, <1>5
  <2> QED BY <1>4, <1>5, <1>6, <2>1, SeqEqual
<1> QED BY <1>7 DEF left, right, long, front

\* No two of a controller's sequences can be at the front at once.
LEMMA OneMatch ==
    ASSUME NEW s, NEW p \in At(s)!Matched
    PROVE  At(s)!Matched = {p} /\ (CHOOSE x \in At(s)!Matched : TRUE) = p
<1>1. \A x, y \in At(s)!Matched : x = y
  BY CommandsAssumption DEF At!Matched, At!Patterns, At!StartsWith
<1> QED BY <1>1

\* A command is not the beginning of a sequence.
LEMMA CommandsDiffer ==
    ASSUME NEW s, At(s)!WindowCommand \/ At(s)!PageCommand
    PROVE  At(s)!Matched = {}
<1>1. s.pending[2] = SetColumns \/ s.pending[2] - SetPage \in Rows
  BY DEF At!WindowCommand, At!PageCommand, At!StartsWith
<1> QED BY <1>1, CommandsAssumption DEF At!Matched, At!Patterns, At!StartsWith

\* The same bytes in front: the commands that are there are the same.
LEMMA LongerCommands ==
    ASSUME NEW s, Readable(s), NEW rest \in Seq(Byte), Len(s.pending) >= 2
    PROVE  /\ At(Longer(s, rest))!WindowCommand <=> At(s)!WindowCommand
           /\ At(Longer(s, rest))!PageCommand <=> At(s)!PageCommand
<1> DEFINE l == Longer(s, rest)
<1>1. /\ l.controller = s.controller /\ Len(l.pending) \in Nat /\ Len(s.pending) \in Nat
      /\ Len(l.pending) >= 2
      /\ l.pending[1] = s.pending[1] /\ l.pending[2] = s.pending[2]
  BY LongerBytes DEF Longer, State, Readable
<1> HIDE DEF l
<1>2. At(l)!WindowCommand <=> At(s)!WindowCommand
  <2>1. At(s)!WindowCommand <=>
          /\ s.controller = "ssd1306"
          /\ s.pending[1] = Command /\ s.pending[2] = SetColumns
    BY <1>1 DEF At!WindowCommand, At!StartsWith
  <2>2. At(l)!WindowCommand <=>
          /\ l.controller = "ssd1306"
          /\ l.pending[1] = Command /\ l.pending[2] = SetColumns
    BY <1>1 DEF At!WindowCommand, At!StartsWith
  <2> QED BY <1>1, <2>1, <2>2, Zenon
<1>3. At(l)!PageCommand <=> At(s)!PageCommand
  BY <1>1 DEF At!PageCommand
<1> QED BY <1>2, <1>3 DEF l

\* A sequence at the front is taken.
LEMMA LongerPattern ==
    ASSUME NEW s, Readable(s), NEW rest \in Seq(Byte), s.mode = "Scan", At(s)!Matched # {}
    PROVE  ~Stuck(Longer(s, rest)) /\ Turn(Longer(s, rest)) = Longer(Turn(s), rest)
<1> DEFINE l == Longer(s, rest)
<1>1. PICK p \in At(s)!Matched : TRUE
  OBVIOUS
<1>2. /\ l.pending = s.pending \o rest /\ l.controller = s.controller /\ l.mode = "Scan"
      /\ s.pending \in Seq(Byte)
  BY DEF Longer, State, Readable
<1>3. Len(p) \in 0..Len(s.pending) /\ p \in Seq(Byte)
  BY <1>1, <1>2, PatternAssumption DEF At!Matched, At!Patterns, At!StartsWith
<1>4. p \in At(l)!Matched
  BY <1>1, <1>2, <1>3, LongerBytes DEF At!Matched, At!Patterns, At!StartsWith
<1>5. /\ ~Stuck(l) /\ Turn(l) = PatternTaken(l) /\ Turn(s) = PatternTaken(s)
  BY <1>2, <1>4 DEF Stuck, Turn, ScanTurn
<1>6. At(l)!Rest(Len(p)) = At(s)!Rest(Len(p)) \o rest
  BY <1>2, <1>3, LongerRest DEF At!Rest
<1>7. PatternTaken(l) = Longer(PatternTaken(s), rest)
  BY <1>1, <1>4, <1>6, OneMatch DEF PatternTaken, Longer, State
<1> QED BY <1>5, <1>7

\* The end of an incomplete frame does not take any bytes.
LEMMA LongerBackward ==
    ASSUME NEW s, Readable(s), NEW rest \in Seq(Byte), s.mode = "Scan",
           At(s)!Matched = {}, At(s)!Backward
    PROVE  ~Stuck(Longer(s, rest)) /\ Turn(Longer(s, rest)) = Longer(Turn(s), rest)
<1> DEFINE l == Longer(s, rest)
<1>1. /\ l.pending = s.pending \o rest /\ l.mode = "Scan" /\ l.last = s.last
      /\ s.pending \in Seq(Byte)
  BY DEF Longer, State, Readable
<1>2. At(s)!PageCommand /\ Len(s.pending) >= 4
  BY DEF At!Backward
<1>3. /\ Len(l.pending) >= 4
      /\ \A i \in 1..4 : l.pending[i] = s.pending[i]
  BY <1>1, <1>2, LongerBytes
<1>4. At(l)!PageCommand
  BY <1>2, LongerCommands
<1>5. At(l)!Backward
  BY <1>1, <1>3, <1>4 DEF At!Backward, At!CommandedPage, At!EndColumn, At!DecodeColumn
<1>6. ~Stuck(l) /\ Turn(l) = FrameLeft(l) /\ Turn(s) = FrameLeft(s)
  BY <1>1, <1>4, <1>5, CommandsDiffer DEF Stuck, Turn, ScanTurn
<1>7. FrameLeft(l) = Longer(FrameLeft(s), rest)
  BY DEF FrameLeft, Longer, State
<1> QED BY <1>6, <1>7

\* A rectangle of the SSD1306 is decided by seven bytes.
LEMMA LongerWindow ==
    ASSUME NEW s, Readable(s), NEW rest \in Seq(Byte), s.mode = "Scan",
           At(s)!WindowCommand, Len(s.pending) >= 7
    PROVE  LET l == Longer(s, rest) IN
           /\ Len(l.pending) >= 7 /\ At(l)!WindowCommand
           /\ At(l)!WindowFits <=> At(s)!WindowFits
           /\ WindowOpened(l) = Longer(WindowOpened(s), rest)
<1> DEFINE l == Longer(s, rest)
<1>1. /\ l.pending = s.pending \o rest /\ s.pending \in Seq(Byte) /\ Len(s.pending) \in Nat
      /\ l = State(s.controller, l.pending, s.mode, s.window, s.framebuffer, s.pages, s.started,
                   s.last, s.counts)
  BY DEF Longer, State, Readable
<1>2. /\ Len(l.pending) >= 7
      /\ l.pending[3] = s.pending[3] /\ l.pending[4] = s.pending[4]
      /\ l.pending[5] = s.pending[5] /\ l.pending[6] = s.pending[6]
      /\ l.pending[7] = s.pending[7]
  BY <1>1, LongerBytes
<1>3. At(l)!WindowCommand
  BY LongerCommands
<1> HIDE DEF l
<1>4. At(l)!WindowFits <=> At(s)!WindowFits
  BY <1>2 DEF At!WindowFits
<1>5. At(l)!Rest(7) = At(s)!Rest(7) \o rest
  <2>1. 7 \in 0..Len(s.pending)
    BY <1>1
  <2> QED BY <1>1, <2>1, LongerRest DEF At!Rest
<1>6. WindowOpened(l) = Longer(WindowOpened(s), rest)
  <2>1. /\ l.controller = s.controller /\ l.framebuffer = s.framebuffer /\ l.pages = s.pages
        /\ l.started = s.started /\ l.last = s.last /\ l.counts = s.counts
    BY <1>1, StateParts
  <2> DEFINE w(t) == [x |-> t.pending[3], width |-> t.pending[4] - t.pending[3] + 1,
                      page |-> t.pending[6], pages |-> t.pending[7] - t.pending[6] + 1]
  <2>2. w(l) = w(s)
    BY <1>2
  <2>3. \A t : WindowOpened(t) = State(t.controller, At(t)!Rest(7), "Ssd1306Data", w(t),
                                        t.framebuffer, t.pages, t.started, t.last, t.counts)
    BY DEF WindowOpened
  <2> HIDE DEF w
  <2>4. WindowOpened(l) = State(s.controller, At(s)!Rest(7) \o rest, "Ssd1306Data", w(s),
                                s.framebuffer, s.pages, s.started, s.last, s.counts)
    BY <1>5, <2>1, <2>2, <2>3
  <2> QED BY <2>3, <2>4, LongerState
<1> QED BY <1>2, <1>3, <1>4, <1>6 DEF l

\* A range of the SH1106 is decided by the bytes that PageCommandRead asks for.
LEMMA LongerPage ==
    ASSUME NEW s, Readable(s), NEW rest \in Seq(Byte), s.mode = "Scan",
           At(s)!PageCommand, At(s)!PageCommandRead
    PROVE  LET l == Longer(s, rest) IN
           /\ At(l)!PageCommand /\ At(l)!PageCommandRead
           /\ At(l)!PageRangeFits <=> At(s)!PageRangeFits
           /\ At(l)!Backward <=> At(s)!Backward
           /\ PageOpened(l) = Longer(PageOpened(s), rest)
<1> DEFINE l == Longer(s, rest)
           n == IF At(s)!Legacy THEN 4 ELSE 6
<1>1. /\ l.pending = s.pending \o rest /\ s.pending \in Seq(Byte) /\ l.last = s.last
      /\ Len(s.pending) \in Nat
  BY DEF Longer, State, Readable
<1>2. /\ Len(s.pending) >= 5 /\ Len(l.pending) >= Len(s.pending)
      /\ l.pending[2] = s.pending[2] /\ l.pending[3] = s.pending[3]
      /\ l.pending[4] = s.pending[4] /\ l.pending[5] = s.pending[5]
      /\ At(s)!Legacy \/ (Len(s.pending) >= 6 /\ l.pending[6] = s.pending[6])
  BY <1>1, LongerBytes DEF At!PageCommandRead, At!Legacy
<1>3. At(l)!Legacy <=> At(s)!Legacy
  BY <1>2 DEF At!Legacy
<1>4. /\ At(l)!EndColumn = At(s)!EndColumn /\ At(l)!CommandedPage = At(s)!CommandedPage
      /\ ~At(s)!Legacy => At(l)!StartColumn = At(s)!StartColumn
  BY <1>2 DEF At!EndColumn, At!StartColumn, At!CommandedPage, At!DecodeColumn
<1>5. At(l)!PageCommand /\ At(l)!PageCommandRead
  <2>1. Len(l.pending) \in Nat
    BY <1>1, LongerBytes
  <2>2. At(l)!PageCommandRead
    BY <1>1, <1>2, <1>3, <2>1 DEF At!PageCommandRead
  <2> QED BY <1>2, <2>2, LongerCommands
<1>6. At(l)!PageRangeFits <=> At(s)!PageRangeFits
  BY <1>3, <1>4 DEF At!PageRangeFits
<1>7. At(l)!Backward <=> At(s)!Backward
  BY <1>1, <1>2, <1>4, <1>5 DEF At!Backward
<1>8. At(l)!Rest(n) = At(s)!Rest(n) \o rest
  <2>1. n \in 0..Len(s.pending)
    BY <1>1, <1>2
  <2> QED BY <1>1, <2>1, LongerRest DEF At!Rest
<1>9. At(l)!PageRange = At(s)!PageRange
  BY <1>3, <1>4 DEF At!PageRange
<1>10. PageOpened(l) = Longer(PageOpened(s), rest)
  BY <1>3, <1>4, <1>8, <1>9, ZenonT(60) DEF PageOpened, Longer, State
<1> QED BY <1>5, <1>6, <1>7, <1>10

\* An accepted command is taken.
LEMMA LongerAccepted ==
    ASSUME NEW s, Readable(s), NEW rest \in Seq(Byte), s.mode = "Scan",
           At(s)!Matched = {}, ~At(s)!Backward, At(s)!Accepted
    PROVE  ~Stuck(Longer(s, rest)) /\ Turn(Longer(s, rest)) = Longer(Turn(s), rest)
<1> DEFINE l == Longer(s, rest)
<1>1. /\ l.mode = "Scan" /\ l.controller = s.controller /\ s.pending \in Seq(Byte)
      /\ Len(s.pending) \in Nat
  BY DEF Longer, State, Readable
<1>2. CASE At(s)!WindowCommand
  <2>1. s.controller = "ssd1306" /\ ~At(s)!PageCommand
    BY <1>2 DEF At!WindowCommand, At!PageCommand
  <2>2. Len(s.pending) >= 7 /\ At(s)!WindowFits
    BY <2>1 DEF At!Accepted
  <2>3. /\ Len(l.pending) >= 7 /\ At(l)!WindowCommand /\ At(l)!WindowFits
        /\ WindowOpened(l) = Longer(WindowOpened(s), rest)
    BY <1>2, <2>2, LongerWindow
  <2> HIDE DEF l
  <2>4. At(l)!Accepted /\ At(l)!Matched = {} /\ ~At(l)!Backward
    BY <1>1, <2>1, <2>3, CommandsDiffer DEF At!Accepted, At!Backward, At!PageCommand
  <2>5. ~Stuck(l) /\ Turn(l) = WindowOpened(l) /\ Turn(s) = WindowOpened(s)
    BY <1>1, <2>1, <2>4 DEF Stuck, Turn, ScanTurn
  <2> QED BY <2>3, <2>5 DEF l
<1>3. CASE ~At(s)!WindowCommand
  <2>1. At(s)!PageCommand /\ At(s)!PageCommandRead /\ At(s)!PageRangeFits
    BY <1>3 DEF At!Accepted
  <2>2. s.controller # "ssd1306"
    BY <2>1 DEF At!PageCommand
  <2>3. /\ At(l)!PageCommand /\ At(l)!PageCommandRead
        /\ At(l)!PageRangeFits /\ ~At(l)!Backward
        /\ PageOpened(l) = Longer(PageOpened(s), rest)
    BY <2>1, LongerPage
  <2> HIDE DEF l
  <2>4. At(l)!Accepted /\ At(l)!Matched = {}
    BY <2>3, CommandsDiffer DEF At!Accepted
  <2>5. ~Stuck(l) /\ Turn(l) = PageOpened(l) /\ Turn(s) = PageOpened(s)
    BY <1>1, <2>2, <2>3, <2>4 DEF Stuck, Turn, ScanTurn
  <2> QED BY <2>3, <2>5 DEF l
<1> QED BY <1>2, <1>3

\* A byte that cannot begin anything cannot begin anything with more bytes behind it either.
LEMMA LongerDiscard ==
    ASSUME NEW s, Readable(s), NEW rest \in Seq(Byte), s.mode = "Scan",
           At(s)!Matched = {}, ~At(s)!Backward, ~At(s)!Accepted, ~At(s)!Undecided
    PROVE  ~Stuck(Longer(s, rest)) /\ Turn(Longer(s, rest)) = Longer(Turn(s), rest)
<1> DEFINE l == Longer(s, rest)
<1>1. /\ l.mode = "Scan" /\ l.controller = s.controller /\ l.pending = s.pending \o rest
      /\ s.pending \in Seq(Byte) /\ Len(s.pending) \in Nat /\ Len(l.pending) \in Nat
      /\ Len(l.pending) >= Len(s.pending)
      /\ \A i \in 1..Len(s.pending) : l.pending[i] = s.pending[i]
      /\ l = State(s.controller, l.pending, s.mode, s.window, s.framebuffer, s.pages, s.started,
                   s.last, s.counts)
  BY LongerBytes DEF Longer, State, Readable
<1>2. Len(s.pending) >= 1 /\ (Len(s.pending) = 1 => s.pending[1] # Command)
  <2>1. s.pending # <<>> /\ s.pending # <<Command>>
    BY DEF At!Undecided
  <2>2. Len(s.pending) # 0
    BY <1>1, <2>1, EmptySeq
  <2>3. ASSUME Len(s.pending) = 1, s.pending[1] = Command PROVE FALSE
    <3>1. Len(<<Command>>) = 1 /\ <<Command>>[1] = Command /\ <<Command>> \in Seq(Byte)
      BY DEF Byte
    <3> HIDE DEF Command
    <3>2. s.pending = <<Command>>
      BY <1>1, <2>3, <3>1, SeqEqual
    <3> QED BY <2>1, <3>2
  <2> QED BY <1>1, <2>2, <2>3
<1>3. \A p \in At(s)!Patterns : ~At(s)!StartsWith(s.pending, p) /\ ~At(s)!StartsWith(p, s.pending)
  BY DEF At!Undecided, At!Matched
<1>4. \A p \in At(l)!Patterns : ~At(l)!StartsWith(l.pending, p) /\ ~At(l)!StartsWith(p, l.pending)
  <2> SUFFICES ASSUME NEW p \in At(l)!Patterns
               PROVE  ~At(l)!StartsWith(l.pending, p) /\ ~At(l)!StartsWith(p, l.pending)
    OBVIOUS
  <2>1. p \in At(s)!Patterns /\ Len(p) \in Nat
    BY <1>1, PatternAssumption DEF At!Patterns
  <2> HIDE DEF l
  <2>2. ~At(l)!StartsWith(p, l.pending)
    <3> SUFFICES ASSUME At(l)!StartsWith(p, l.pending) PROVE FALSE
      OBVIOUS
    <3>1. At(s)!StartsWith(p, s.pending)
      BY <1>1, <2>1 DEF At!StartsWith
    <3> QED BY <1>3, <2>1, <3>1
  <2>3. ~At(l)!StartsWith(l.pending, p)
    <3> SUFFICES ASSUME At(l)!StartsWith(l.pending, p) PROVE FALSE
      OBVIOUS
    <3>1. \A i \in 1..Len(s.pending) : i <= Len(p) => p[i] = s.pending[i]
      BY <1>1, <2>1 DEF At!StartsWith
    <3>2. Len(p) <= Len(s.pending) => \A i \in 1..Len(p) : s.pending[i] = p[i]
      BY <1>1, <2>1, <3>1
    <3>3. Len(p) > Len(s.pending) => \A i \in 1..Len(s.pending) : p[i] = s.pending[i]
      BY <1>1, <2>1, <3>1
    <3>4. At(s)!StartsWith(s.pending, p) \/ At(s)!StartsWith(p, s.pending)
      BY <1>1, <2>1, <3>2, <3>3 DEF At!StartsWith
    <3> QED BY <1>3, <2>1, <3>4
  <2> QED BY <2>2, <2>3
<1>5. /\ ~(At(l)!WindowCommand /\ Len(l.pending) < 7)
      /\ ~(At(l)!PageCommand /\ ~At(l)!PageCommandRead)
      /\ ~At(l)!Accepted /\ ~At(l)!Backward
  <2>1. CASE Len(s.pending) = 1
    <3>1. l.pending[1] # Command
      BY <1>1, <1>2, <2>1
    <3> HIDE DEF l
    <3>2. ~At(l)!WindowCommand
      <4>1. Len(<<Command, SetColumns>>) = 2 /\ <<Command, SetColumns>>[1] = Command
        OBVIOUS
      <4> QED BY <3>1, <4>1 DEF At!WindowCommand, At!StartsWith
    <3>3. ~At(l)!PageCommand
      BY <3>1 DEF At!PageCommand
    <3> QED BY <3>2, <3>3 DEF At!Accepted, At!Backward
  <2>2. CASE Len(s.pending) >= 2
    <3>1. /\ At(l)!WindowCommand <=> At(s)!WindowCommand
          /\ At(l)!PageCommand <=> At(s)!PageCommand
      BY <2>2, LongerCommands
    <3>2. /\ At(s)!WindowCommand => Len(s.pending) >= 7 /\ ~At(s)!WindowFits
          /\ At(s)!PageCommand => At(s)!PageCommandRead /\ ~At(s)!PageRangeFits
      BY <1>1 DEF At!Undecided, At!Accepted
    <3>3. CASE At(s)!WindowCommand
      <4>1. Len(l.pending) >= 7 /\ ~At(l)!WindowFits
        BY <3>2, <3>3, LongerWindow
      <4>2. ~At(s)!PageCommand
        BY <3>3 DEF At!WindowCommand, At!PageCommand
      <4> HIDE DEF l
      <4> QED BY <1>1, <3>1, <4>1, <4>2 DEF At!Accepted, At!Backward
    <3>4. CASE At(s)!PageCommand
      <4>1. At(l)!PageCommandRead /\ ~At(l)!PageRangeFits /\ ~At(l)!Backward
        BY <3>2, <3>4, LongerPage
      <4>2. ~At(s)!WindowCommand
        BY <3>4 DEF At!WindowCommand, At!PageCommand
      <4> HIDE DEF l
      <4> QED BY <3>1, <4>1, <4>2 DEF At!Accepted
    <3>5. CASE ~At(s)!WindowCommand /\ ~At(s)!PageCommand
      <4> HIDE DEF l
      <4> QED BY <3>1, <3>5 DEF At!Accepted, At!Backward
    <3> QED BY <3>3, <3>4, <3>5
  <2>3. Len(s.pending) = 1 \/ Len(s.pending) >= 2
    <3>1. Len(s.pending) \in Nat /\ Len(s.pending) >= 1
      BY <1>1, <1>2
    <3>2. \A n \in Nat : n >= 1 => n = 1 \/ n >= 2
      OBVIOUS
    <3> QED BY <3>1, <3>2
  <2> QED BY <2>1, <2>2, <2>3
<1>6. l.pending # <<>> /\ l.pending # <<Command>>
  <2>1. Len(<<Command>>) = 1 /\ <<Command>>[1] = Command /\ Len(<< >>) = 0
    OBVIOUS
  <2>2. 1 \in 1..Len(s.pending)
    BY <1>1, <1>2
  <2>3. Len(l.pending) >= 1 /\ l.pending[1] = s.pending[1]
    BY <1>1, <1>2, <2>2
  <2> HIDE DEF l
  <2>4. l.pending # <<>>
    BY <2>1, <2>3
  <2>5. ASSUME l.pending = <<Command>> PROVE FALSE
    <3>1. Len(s.pending) = 1
      BY <1>1, <1>2, <2>1, <2>5
    <3> QED BY <1>2, <2>1, <2>3, <2>5, <3>1
  <2> QED BY <2>4, <2>5
<1>7. At(l)!Matched = {} /\ ~At(l)!Undecided
  <2> HIDE DEF l
  <2> QED BY <1>4, <1>5, <1>6 DEF At!Matched, At!Undecided
<1>8. ~Stuck(l) /\ Turn(l) = ByteDiscarded(l) /\ Turn(s) = ByteDiscarded(s)
  <2> HIDE DEF l
  <2> QED BY <1>1, <1>5, <1>7 DEF Stuck, Turn, ScanTurn
<1>9. At(l)!Rest(1) = At(s)!Rest(1) \o rest
  <2>1. 1 \in 0..Len(s.pending)
    BY <1>1, <1>2
  <2> QED BY <1>1, <2>1, LongerRest DEF At!Rest
<1>10. ByteDiscarded(l) = Longer(ByteDiscarded(s), rest)
  <2>1. /\ l.controller = s.controller /\ l.framebuffer = s.framebuffer /\ l.pages = s.pages
        /\ l.started = s.started /\ l.last = s.last /\ l.counts = s.counts /\ l.window = s.window
    BY <1>1, StateParts
  <2> DEFINE counts == [s.counts EXCEPT !.discarded = @ + 1]
  <2>2. ByteDiscarded(s) = State(s.controller, At(s)!Rest(1), "Scan", s.window, s.framebuffer,
                                 s.pages, s.started, s.last, counts)
    BY DEF ByteDiscarded
  <2> HIDE DEF l
  <2>3. ByteDiscarded(l) = State(s.controller, At(s)!Rest(1) \o rest, "Scan", s.window,
                                 s.framebuffer, s.pages, s.started, s.last, counts)
    BY <1>9, <2>1 DEF ByteDiscarded
  <2> HIDE DEF counts
  <2> QED BY <2>2, <2>3, LongerState
<1> QED BY <1>8, <1>10

\* The pixel data of a message are in the bytes that it takes.
LEMMA PixelPlace ==
    ASSUME NEW w \in Windows, NEW row \in Rows, NEW column \in Columns,
           row \in w.page..(w.page + w.pages - 1), column \in w.x..(w.x + w.width - 1)
    PROVE  /\ w.width * w.pages + 1 \in Nat
           /\ 2 + (row - w.page) * w.width + (column - w.x) \in 2..(w.width * w.pages + 1)
<1> DEFINE r == row - w.page
           c == column - w.x
           n == w.width
           m == w.pages
<1>1. /\ w.x \in Columns /\ w.width \in 1..Width /\ w.page \in Rows /\ w.pages \in 1..Pages
  BY DEF Windows
<1>2. r \in 0..m - 1 /\ c \in 0..n - 1 /\ n \in Nat /\ m \in Nat
  BY <1>1
<1> HIDE DEF r, c, n, m
<1>3. r * n \in Nat /\ n * m \in Nat /\ r * n + n <= n * m
  <2>1. PICK e \in Nat : m = r + 1 + e
    <3>1. m - r - 1 \in Nat /\ m = r + 1 + (m - r - 1)
      BY <1>2
    <3> QED BY <3>1
  <2>2. n * m = r * n + n + n * e /\ n * e \in Nat
    BY <1>2, <2>1
  <2> QED BY <1>2, <2>2
<1>4. 2 + r * n + c \in 2..(n * m + 1) /\ n * m + 1 \in Nat
  BY <1>2, <1>3
<1> QED BY <1>4 DEF r, c, n, m

\* Pixel data, or the byte that is there instead of them.
LEMMA LongerData ==
    ASSUME NEW s, Readable(s), NEW rest \in Seq(Byte), s.mode # "Scan", ~Stuck(s)
    PROVE  ~Stuck(Longer(s, rest)) /\ Turn(Longer(s, rest)) = Longer(Turn(s), rest)
<1> DEFINE l == Longer(s, rest)
<1>1. /\ l.mode = s.mode /\ l.window = s.window /\ l.controller = s.controller
      /\ l.framebuffer = s.framebuffer /\ l.pages = s.pages
      /\ l.started = s.started /\ l.last = s.last /\ l.counts = s.counts
      /\ s.pending \in Seq(Byte) /\ Len(s.pending) \in Nat /\ Len(l.pending) \in Nat
      /\ l.pending = s.pending \o rest /\ s.window \in Windows
      /\ Len(l.pending) >= Len(s.pending)
      /\ \A i \in 1..Len(s.pending) : l.pending[i] = s.pending[i]
  BY LongerBytes DEF Longer, State, Readable
<1>2. At(s)!Misframed \/ At(s)!DataRead
  BY DEF Stuck
<1>3. l.pending # <<>> /\ l.pending[1] = s.pending[1] /\ s.pending # <<>>
  <2>1. s.pending # <<>>
    BY <1>2 DEF At!Misframed, At!DataRead
  <2>2. Len(s.pending) >= 1
    BY <1>1, <2>1, EmptySeq
  <2>3. Len(l.pending) >= 1 /\ Len(<< >>) = 0
    BY <1>1, <2>2
  <2> QED BY <1>1, <2>1, <2>2, <2>3
<1>4. CASE At(s)!Misframed
  <2> HIDE DEF l
  <2>1. At(l)!Misframed
    BY <1>3, <1>4 DEF At!Misframed
  <2>2. ~Stuck(l) /\ Turn(l) = CommandExpected(l) /\ Turn(s) = CommandExpected(s)
    BY <1>1, <1>4, <2>1 DEF Stuck, Turn, DataTurn
  <2>3. CommandExpected(l) = State(s.controller, s.pending \o rest, "Scan", s.window,
                                   s.framebuffer, s.pages, s.started, s.last, s.counts)
    BY <1>1 DEF CommandExpected
  <2>4. CommandExpected(l) = Longer(CommandExpected(s), rest)
    BY <2>3, LongerState DEF CommandExpected
  <2> QED BY <2>2, <2>4 DEF l
<1>5. CASE ~At(s)!Misframed
  <2>1. At(s)!DataRead /\ ~At(l)!Misframed
    BY <1>2, <1>3, <1>5 DEF At!Misframed
  <2>2. At(s)!MessageSize \in 0..Len(s.pending) /\ At(l)!MessageSize = At(s)!MessageSize
    <3>1. s.window.width \in Nat /\ s.window.pages \in Nat
      BY <1>1 DEF Windows
    <3>2. At(s)!MessageSize \in Nat
      BY <3>1, SMTT(30) DEF At!MessageSize
    <3> QED BY <1>1, <2>1, <3>2 DEF At!DataRead, At!MessageSize
  <2>3. At(l)!DataRead
    BY <1>1, <1>3, <2>1, <2>2 DEF At!DataRead
  <2>4. At(l)!Rest(At(l)!MessageSize) = At(s)!Rest(At(s)!MessageSize) \o rest
    BY <1>1, <2>2, LongerRest DEF At!Rest
  <2> HIDE DEF l
  <2>5. At(l)!Filled = At(s)!Filled
    <3>1. ASSUME NEW row \in Rows, NEW column \in Columns, At(s)!InWindow(row, column)
          PROVE  l.pending[2 + (row - s.window.page) * s.window.width + (column - s.window.x)] =
                 s.pending[2 + (row - s.window.page) * s.window.width + (column - s.window.x)]
      <4> DEFINE i == 2 + (row - s.window.page) * s.window.width + (column - s.window.x)
      <4>1. i \in 2..At(s)!MessageSize
        BY <1>1, <3>1, PixelPlace DEF At!InWindow, At!MessageSize
      <4> HIDE DEF i
      <4>2. i \in 1..Len(s.pending)
        BY <1>1, <2>2, <4>1
      <4> QED BY <1>1, <4>2 DEF i
    <3> QED BY <1>1, <3>1 DEF At!Filled, At!InWindow
  <2>6. /\ At(l)!PagesWritten = At(s)!PagesWritten
        /\ At(l)!FullWidth = At(s)!FullWidth
    BY <1>1 DEF At!PagesWritten, At!FullWidth
  <2>7. /\ WindowTaken(l) = Longer(WindowTaken(s), rest)
        /\ PageTaken(l) = Longer(PageTaken(s), rest)
        /\ LastPageTaken(l) = Longer(LastPageTaken(s), rest)
    <3>1. WindowTaken(l) = State(s.controller, At(s)!Rest(At(s)!MessageSize) \o rest, "Scan",
              s.window, At(s)!Filled, s.pages, s.started, s.last,
              Shown(s.counts, At(s)!FullWidth /\ s.window.page = 0 /\ s.window.pages = Pages))
      BY <1>1, <2>4, <2>5, <2>6 DEF WindowTaken
    <3>2. PageTaken(l) = State(s.controller, At(s)!Rest(At(s)!MessageSize) \o rest, "Scan",
              s.window, At(s)!Filled, At(s)!PagesWritten, s.started, s.last,
              Shown(s.counts, FALSE))
      BY <1>1, <2>4, <2>5, <2>6 DEF PageTaken
    <3>3. LastPageTaken(l) = State(s.controller, At(s)!Rest(At(s)!MessageSize) \o rest, "Scan",
              s.window, At(s)!Filled, {}, FALSE, NoPage,
              Shown(s.counts, s.started /\ At(s)!PagesWritten = Rows))
      BY <1>1, <2>4, <2>5, <2>6 DEF LastPageTaken
    <3>4. WindowTaken(l) = Longer(WindowTaken(s), rest)
      BY <3>1, LongerState DEF WindowTaken
    <3>5. PageTaken(l) = Longer(PageTaken(s), rest)
      <4> DEFINE counts == Shown(s.counts, FALSE)
      <4>1. PageTaken(s) = State(s.controller, At(s)!Rest(At(s)!MessageSize), "Scan",
                s.window, At(s)!Filled, At(s)!PagesWritten, s.started, s.last, counts)
        BY DEF PageTaken
      <4>2. PageTaken(l) = State(s.controller, At(s)!Rest(At(s)!MessageSize) \o rest, "Scan",
                s.window, At(s)!Filled, At(s)!PagesWritten, s.started, s.last, counts)
        BY <3>2
      <4> HIDE DEF counts
      <4> QED BY <4>1, <4>2, LongerState
    <3>6. LastPageTaken(l) = Longer(LastPageTaken(s), rest)
      <4> DEFINE counts == Shown(s.counts, s.started /\ At(s)!PagesWritten = Rows)
                 bytes  == At(s)!Rest(At(s)!MessageSize)
                 ram2   == At(s)!Filled
                 no     == FALSE
      <4>1. LastPageTaken(s) = State(s.controller, bytes, "Scan", s.window, ram2, {}, no,
                                     NoPage, counts)
        BY DEF LastPageTaken
      <4>2. LastPageTaken(l) = State(s.controller, bytes \o rest, "Scan", s.window, ram2, {},
                                     no, NoPage, counts)
        BY <3>3
      <4> HIDE DEF counts, bytes, ram2, no
      <4> QED BY <4>1, <4>2, LongerState
    <3> QED BY <3>4, <3>5, <3>6
  <2>8. ~Stuck(l)
    BY <1>1, <2>3 DEF Stuck
  <2>9. Turn(l) = Longer(Turn(s), rest)
    BY <1>1, <1>5, <2>1, <2>7 DEF Turn, DataTurn
  <2> QED BY <2>8, <2>9 DEF l
<1> QED BY <1>4, <1>5

\* A turn that is possible stays possible, and the same.
LEMMA LongerTurn ==
    ASSUME NEW s, Readable(s), NEW rest \in Seq(Byte), ~Stuck(s)
    PROVE  ~Stuck(Longer(s, rest)) /\ Turn(Longer(s, rest)) = Longer(Turn(s), rest)
<1>1. CASE s.mode # "Scan"
  BY <1>1, LongerData
<1>2. CASE s.mode = "Scan"
  <2>1. CASE At(s)!Matched # {}
    BY <1>2, <2>1, LongerPattern
  <2>2. CASE At(s)!Matched = {} /\ At(s)!Backward
    BY <1>2, <2>2, LongerBackward
  <2>3. CASE At(s)!Matched = {} /\ ~At(s)!Backward /\ At(s)!Accepted
    BY <1>2, <2>3, LongerAccepted
  <2>4. CASE At(s)!Matched = {} /\ ~At(s)!Backward /\ ~At(s)!Accepted
    BY <1>2, <2>4, LongerDiscard DEF Stuck
  <2> QED BY <2>1, <2>2, <2>3, <2>4
<1> QED BY <1>1, <1>2

-----------------------------------------------------------------------------
(* The actions of the parser take the turns of its state. *)

Totals == [frames : Nat, discarded : Nat, updates : Nat]
Outcomes == [completed : Nat, boundary : BOOLEAN, discarded : Nat, updates : Nat]

\* What push() adds to its outcome is added to the totals when it is counted.
LEMMA CountedLater ==
    ASSUME NEW t \in Totals, NEW u \in Outcomes
    PROVE  /\ Counted(t, u) \in Totals
           /\ Counted(t, NoUpdate) = t
           /\ Counted(t, [u EXCEPT !.updates = @ + 1, !.completed = @ + 1]) =
                 Shown(Counted(t, u), TRUE)
           /\ Counted(t, [u EXCEPT !.updates = @ + 1, !.boundary = TRUE]) =
                 Shown(Counted(t, u), FALSE)
           /\ Counted(t, [u EXCEPT !.updates = @ + 1]) = Shown(Counted(t, u), FALSE)
           /\ Counted(t, [u EXCEPT !.boundary = TRUE]) = Counted(t, u)
           /\ Counted(t, [u EXCEPT !.discarded = @ + 1]) =
                 [Counted(t, u) EXCEPT !.discarded = @ + 1]
<1> DEFINE a == u.completed
           b == u.boundary
           c == u.discarded
           d == u.updates
           f == t.frames
           g == t.discarded
           h == t.updates
<1>1. a \in Nat /\ c \in Nat /\ d \in Nat /\ f \in Nat /\ g \in Nat /\ h \in Nat
  BY DEF Totals, Outcomes
<1>2. /\ u = [completed |-> a, boundary |-> b, discarded |-> c, updates |-> d]
      /\ t = [frames |-> f, discarded |-> g, updates |-> h]
  BY DEF Totals, Outcomes
<1> HIDE DEF a, b, c, d, f, g, h
<1>3. Counted(t, u) = [frames |-> f + a, discarded |-> g + c, updates |-> h + d]
  BY <1>2 DEF Counted
<1>4. Counted(t, u) \in Totals
  BY <1>1, <1>3 DEF Totals
<1>5. Counted(t, NoUpdate) = t
  BY <1>1, <1>2 DEF Counted, NoUpdate
<1>a. \A complete : Shown(Counted(t, u), complete) =
            [frames |-> f + a + (IF complete THEN 1 ELSE 0), discarded |-> g + c,
             updates |-> h + d + 1]
  <2> DEFINE x == f + a
             y == g + c
             z == h + d
  <2> HIDE DEF x, y, z
  <2>1. Counted(t, u) = [frames |-> x, discarded |-> y, updates |-> z]
    BY <1>3 DEF x, y, z
  <2>2. \A n : [[frames |-> x, discarded |-> y, updates |-> z]
                   EXCEPT !.updates = @ + 1, !.frames = @ + n] =
               [frames |-> x + n, discarded |-> y, updates |-> z + 1]
    <3> SUFFICES ASSUME NEW n
                 PROVE  [[frames |-> x, discarded |-> y, updates |-> z]
                            EXCEPT !.updates = @ + 1, !.frames = @ + n] =
                        [frames |-> x + n, discarded |-> y, updates |-> z + 1]
      OBVIOUS
    <3> DEFINE k == x + n
               l == z + 1
    <3>1. [[frames |-> x, discarded |-> y, updates |-> z] EXCEPT !.updates = @ + 1] =
          [frames |-> x, discarded |-> y, updates |-> l]
      OBVIOUS
    <3>2. [[frames |-> x, discarded |-> y, updates |-> l] EXCEPT !.frames = @ + n] =
          [frames |-> k, discarded |-> y, updates |-> l]
      OBVIOUS
    <3> QED BY <3>1, <3>2
  <2> QED BY <2>1, <2>2 DEF Shown, x, y, z
<1>b. f + a + 1 = f + (a + 1) /\ f + a + 0 = f + a /\ h + d + 1 = h + (d + 1)
  BY <1>1
<1>c. /\ Shown(Counted(t, u), TRUE) =
            [frames |-> f + (a + 1), discarded |-> g + c, updates |-> h + (d + 1)]
      /\ Shown(Counted(t, u), FALSE) =
            [frames |-> f + a, discarded |-> g + c, updates |-> h + (d + 1)]
  <2>1. Shown(Counted(t, u), TRUE) =
            [frames |-> f + a + 1, discarded |-> g + c, updates |-> h + d + 1]
    BY <1>a
  <2>2. Shown(Counted(t, u), FALSE) =
            [frames |-> f + a + 0, discarded |-> g + c, updates |-> h + d + 1]
    BY <1>a
  <2> QED BY <1>b, <2>1, <2>2
<1>6. Counted(t, [u EXCEPT !.updates = @ + 1, !.completed = @ + 1]) = Shown(Counted(t, u), TRUE)
  BY <1>2, <1>c DEF Counted
<1>7. Counted(t, [u EXCEPT !.updates = @ + 1, !.boundary = TRUE]) = Shown(Counted(t, u), FALSE)
  BY <1>2, <1>c DEF Counted
<1>8. Counted(t, [u EXCEPT !.updates = @ + 1]) = Shown(Counted(t, u), FALSE)
  BY <1>2, <1>c DEF Counted
<1>9. Counted(t, [u EXCEPT !.boundary = TRUE]) = Counted(t, u)
  BY <1>1, <1>2, <1>3 DEF Counted
<1>10. Counted(t, [u EXCEPT !.discarded = @ + 1]) = [Counted(t, u) EXCEPT !.discarded = @ + 1]
  BY <1>1, <1>2, <1>3 DEF Counted
<1> QED BY <1>4, <1>5, <1>6, <1>7, <1>8, <1>9, <1>10

\* The state of the parser, its counts since the totals t included.
Now(t) == State(controller, pending, mode, window, framebuffer, sh1106Pages, frameStarted,
                lastPage, Counted(t, update))

\* The parser's operators are those of its state.
LEMMA NowReads ==
    ASSUME NEW t
    PROVE  LET s == Now(t) IN
           /\ At(s)!Matched = Matched /\ (At(s)!Backward <=> Backward)
           /\ At(s)!Accepted <=> Accepted
           /\ At(s)!Undecided <=> Undecided
           /\ \A n : At(s)!Rest(n) = Rest(n)
           /\ At(s)!Legacy <=> Legacy
           /\ At(s)!PageRange = PageRange /\ At(s)!CommandedPage = CommandedPage
           /\ At(s)!Misframed <=> Misframed
           /\ At(s)!DataRead <=> DataRead
           /\ At(s)!MessageSize = MessageSize /\ At(s)!Filled = Filled
           /\ At(s)!PagesWritten = PagesWritten /\ (At(s)!FullWidth <=> FullWidth)
<1> DEFINE s == Now(t)
<1>1. /\ s.controller = controller /\ s.pending = pending /\ s.mode = mode /\ s.window = window
      /\ s.framebuffer = framebuffer /\ s.pages = sh1106Pages /\ s.started = frameStarted
      /\ s.last = lastPage
  BY DEF Now, State
<1> HIDE DEF s
<1>2. /\ At(s)!Matched = Matched /\ At(s)!Patterns = Patterns
      /\ \A x, y : At(s)!StartsWith(x, y) <=> StartsWith(x, y)
  BY <1>1 DEF At!Matched, Matched, At!Patterns, Patterns, At!StartsWith, StartsWith
<1>3. At(s)!WindowCommand <=> WindowCommand
  BY <1>1, <1>2 DEF At!WindowCommand, WindowCommand
<1>4. At(s)!WindowFits <=> WindowFits
  BY <1>1 DEF At!WindowFits, WindowFits
<1>5. At(s)!PageCommand <=> PageCommand
  BY <1>1 DEF At!PageCommand, PageCommand
<1>6. /\ At(s)!Legacy <=> Legacy
      /\ At(s)!CommandedPage = CommandedPage /\ At(s)!EndColumn = EndColumn
      /\ At(s)!StartColumn = StartColumn
  BY <1>1 DEF At!Legacy, Legacy, At!CommandedPage, CommandedPage, At!EndColumn, EndColumn,
              At!StartColumn, StartColumn, At!DecodeColumn, DecodeColumn
<1>7. /\ At(s)!PageCommandRead <=> PageCommandRead
      /\ At(s)!PageRangeFits <=> PageRangeFits
      /\ At(s)!PageRange = PageRange
  BY <1>1, <1>6 DEF At!PageCommandRead, PageCommandRead, At!PageRangeFits, PageRangeFits,
                    At!PageRange, PageRange
<1>8. At(s)!Backward <=> Backward
  BY <1>1, <1>5, <1>6 DEF At!Backward, Backward
<1>9. At(s)!Accepted <=> Accepted
  BY <1>1, <1>3, <1>4, <1>5, <1>7 DEF At!Accepted, Accepted
<1>10. At(s)!Undecided <=> Undecided
  BY <1>1, <1>2, <1>3, <1>5, <1>7 DEF At!Undecided, Undecided
<1>11. \A n : At(s)!Rest(n) = Rest(n)
  BY <1>1 DEF At!Rest, Rest
<1>12. At(s)!MessageSize = MessageSize /\ (At(s)!FullWidth <=> FullWidth)
  BY <1>1 DEF At!MessageSize, MessageSize, At!FullWidth, FullWidth
<1>13. At(s)!Misframed <=> Misframed
  BY <1>1 DEF At!Misframed, Misframed
<1>14. At(s)!DataRead <=> DataRead
  BY <1>1, <1>12 DEF At!DataRead, DataRead
<1>15. At(s)!Filled = Filled
  BY <1>1 DEF At!Filled, Filled, At!InWindow, InWindow
<1>16. At(s)!PagesWritten = PagesWritten
  BY <1>1, <1>12 DEF At!PagesWritten, PagesWritten
<1> QED BY <1>2, <1>6, <1>7, <1>8, <1>9, <1>10, <1>11, <1>12, <1>13, <1>14, <1>15, <1>16 DEF s

\* A turn of push()'s loop is the turn of its state, or waits because there is none.
LEMMA StepIsTurn ==
    ASSUME Types, Step, NEW t \in Totals
    PROVE  \/ Stuck(Now(t)) /\ UNCHANGED <<Now(t), update>> /\ ~running'
           \/ /\ ~Stuck(Now(t)) /\ Now(t)' = Turn(Now(t))
              /\ ~running' => Present(update')
<1> DEFINE s == Now(t)
<1> USE DEF FrameVars
<1>1. /\ s.controller = controller /\ s.pending = pending /\ s.mode = mode /\ s.window = window
      /\ s.framebuffer = framebuffer /\ s.pages = sh1106Pages /\ s.started = frameStarted
      /\ s.last = lastPage /\ s.counts = Counted(t, update)
  BY DEF Now, State
<1>2. /\ At(s)!Matched = Matched /\ (At(s)!Backward <=> Backward)
      /\ At(s)!Accepted <=> Accepted
      /\ At(s)!Undecided <=> Undecided
      /\ \A n : At(s)!Rest(n) = Rest(n)
      /\ At(s)!Legacy <=> Legacy
      /\ At(s)!PageRange = PageRange /\ At(s)!CommandedPage = CommandedPage
      /\ At(s)!Misframed <=> Misframed
      /\ At(s)!DataRead <=> DataRead
      /\ At(s)!MessageSize = MessageSize /\ At(s)!Filled = Filled
      /\ At(s)!PagesWritten = PagesWritten /\ (At(s)!FullWidth <=> FullWidth)
  BY NowReads
<1>3. update \in Outcomes /\ window.page \in 0..Pages - 1
  BY DEF Types, UpdateType, Outcomes, StateTypes, Windows
<1>4. Now(t)' = State(controller', pending', mode', window', framebuffer', sh1106Pages',
                      frameStarted', lastPage', Counted(t, update'))
  BY DEF Now
<1>5. ASSUME LoopAfterProgress PROVE ~running' => Present(update')
  BY <1>5 DEF LoopAfterProgress, Present
<1> HIDE DEF s
<1>6. CASE ConsumePattern
  <2>1. PICK p \in Matched : pending' = Rest(Len(p))
    BY <1>6 DEF ConsumePattern
  <2>2. pending' = At(s)!Rest(Len(CHOOSE x \in At(s)!Matched : TRUE))
    BY <1>2, <2>1, OneMatch
  <2>3. ~Stuck(s) /\ Turn(s) = PatternTaken(s)
    BY <1>1, <1>2, <1>6, <2>1 DEF ConsumePattern, Scanning, Stuck, Turn, ScanTurn
  <2>4. Now(t)' = PatternTaken(s)
    BY <1>1, <1>4, <1>6, <2>2 DEF ConsumePattern, Scanning, PatternTaken
  <2> QED BY <1>5, <1>6, <2>3, <2>4 DEF ConsumePattern, s
<1>7. CASE OpenWindow
  <2>1. Matched = {} /\ ~Backward /\ Accepted /\ controller = "ssd1306"
    BY <1>7 DEF OpenWindow, Backward, Accepted, WindowCommand, PageCommand
  <2>2. ~Stuck(s) /\ Turn(s) = WindowOpened(s)
    BY <1>1, <1>2, <1>7, <2>1 DEF OpenWindow, Scanning, Stuck, Turn, ScanTurn
  <2>3. Now(t)' = WindowOpened(s)
    BY <1>1, <1>2, <1>4, <1>7 DEF OpenWindow, WindowOpened
  <2> QED BY <1>5, <1>7, <2>2, <2>3 DEF OpenWindow, s
<1>8. CASE WrapToLowerPage
  <2>1. ~Stuck(s) /\ Turn(s) = FrameLeft(s)
    BY <1>1, <1>2, <1>8, SMTT(30) DEF WrapToLowerPage, Scanning, Stuck, Turn, ScanTurn
  <2>2. Counted(t, update') = Counted(t, update)
    BY <1>3, <1>8, CountedLater DEF WrapToLowerPage
  <2>3. Now(t)' = FrameLeft(s)
    BY <1>1, <1>4, <1>8, <2>2 DEF WrapToLowerPage, Scanning, FrameLeft
  <2>4. update'.boundary
    BY <1>3, <1>8 DEF WrapToLowerPage, Outcomes
  <2> QED BY <2>1, <2>3, <2>4 DEF Present, s
<1>9. CASE OpenPage
  <2>1. Matched = {} /\ ~Backward /\ Accepted /\ controller # "ssd1306"
    BY <1>9 DEF OpenPage, Accepted, PageCommand
  <2>2. ~Stuck(s) /\ Turn(s) = PageOpened(s)
    BY <1>1, <1>2, <1>9, <2>1 DEF OpenPage, Scanning, Stuck, Turn, ScanTurn
  <2>3. Now(t)' = PageOpened(s)
    BY <1>1, <1>2, <1>4, <1>9 DEF OpenPage, PageOpened
  <2> QED BY <1>5, <1>9, <2>2, <2>3 DEF OpenPage, s
<1>10. CASE AwaitCommand
  <2>1. Stuck(s)
    BY <1>1, <1>2, <1>10 DEF AwaitCommand, Scanning, Stuck
  <2>2. UNCHANGED <<Now(t), update>> /\ ~running'
    BY <1>10 DEF AwaitCommand, Now
  <2> QED BY <2>1, <2>2 DEF s
<1>11. CASE Discard
  <2>1. Matched = {} /\ ~Backward /\ ~Accepted /\ ~Undecided
    BY <1>11 DEF Discard
  <2>2. ~Stuck(s) /\ Turn(s) = ByteDiscarded(s)
    BY <1>1, <1>2, <1>11, <2>1, SMTT(30) DEF Discard, Scanning, Stuck, Turn, ScanTurn
  <2>3. Counted(t, update') = [Counted(t, update) EXCEPT !.discarded = @ + 1]
    BY <1>3, <1>11, CountedLater, ZenonT(60) DEF Discard
  <2>4. Now(t)' = ByteDiscarded(s)
    BY <1>1, <1>2, <1>4, <1>11, <2>3 DEF Discard, Scanning, ByteDiscarded
  <2> QED BY <1>5, <1>11, <2>2, <2>4 DEF Discard, s
<1>12. CASE Resynchronize
  <2>1. ~Stuck(s) /\ Turn(s) = CommandExpected(s)
    BY <1>1, <1>2, <1>12 DEF Resynchronize, Reading, Stuck, Turn, DataTurn
  <2>2. Now(t)' = CommandExpected(s)
    BY <1>1, <1>4, <1>12 DEF Resynchronize, CommandExpected
  <2> QED BY <1>5, <1>12, <2>1, <2>2 DEF Resynchronize, s
<1>13. CASE AwaitData
  <2>1. Stuck(s)
    BY <1>1, <1>2, <1>13 DEF AwaitData, Reading, Stuck
  <2>2. UNCHANGED <<Now(t), update>> /\ ~running'
    BY <1>13 DEF AwaitData, Now
  <2> QED BY <2>1, <2>2 DEF s
<1>14. CASE ReadWindow
  <2> DEFINE complete == FullWidth /\ window.page = 0 /\ window.pages = Pages
  <2>1. Counted(t, update') = Shown(Counted(t, update), complete)
    BY <1>3, <1>14, CountedLater, ZenonT(60) DEF ReadWindow, Presented, Shown
  <2>2. ~Stuck(s) /\ Turn(s) = WindowTaken(s)
    BY <1>1, <1>2, <1>14
       DEF ReadWindow, ReadData, Reading, DataRead, Misframed, Stuck, Turn, DataTurn
  <2>3. Now(t)' = WindowTaken(s)
    BY <1>1, <1>2, <1>4, <1>14, <2>1 DEF ReadWindow, ReadData, WindowTaken
  <2> QED BY <1>5, <1>14, <2>2, <2>3 DEF ReadWindow, s
<1>15. CASE ReadPage
  <2>1. Counted(t, update') = Shown(Counted(t, update), FALSE)
    BY <1>3, <1>15, CountedLater DEF ReadPage
  <2>2. ~Stuck(s) /\ Turn(s) = PageTaken(s)
    BY <1>1, <1>2, <1>15
       DEF ReadPage, ReadData, Reading, DataRead, Misframed, Stuck, Turn, DataTurn
  <2>3. Now(t)' = PageTaken(s)
    BY <1>1, <1>2, <1>4, <1>15, <2>1 DEF ReadPage, ReadData, PageTaken
  <2> QED BY <1>5, <1>15, <2>2, <2>3 DEF ReadPage, s
<1>16. CASE ReadLastPage
  <2> DEFINE complete == frameStarted /\ PagesWritten = Rows
  <2>1. Counted(t, update') = Shown(Counted(t, update), complete)
    BY <1>3, <1>16, CountedLater, ZenonT(60) DEF ReadLastPage, Presented, Shown
  <2>2. ~Stuck(s) /\ Turn(s) = LastPageTaken(s)
    BY <1>1, <1>2, <1>3, <1>16
       DEF ReadLastPage, ReadData, Reading, DataRead, Misframed, Stuck, Turn, DataTurn
  <2>3. Now(t)' = LastPageTaken(s)
    BY <1>1, <1>2, <1>4, <1>16, <2>1 DEF ReadLastPage, ReadData, LastPageTaken
  <2> QED BY <1>5, <1>16, <2>2, <2>3, SMTT(30) DEF ReadLastPage, s
<1> QED BY <1>6, <1>7, <1>8, <1>9, <1>10, <1>11, <1>12, <1>13, <1>14, <1>15, <1>16 DEF Step

-----------------------------------------------------------------------------
(* The same of the parser that gets the stream in one call: the facts above are about the *)
(* variables of the other one.                                                            *)

\* The state of the parser that gets the stream in one call.
WholeNow(t) == State(controller, wPending, wMode, wWindow, wFramebuffer, wPages, wStarted,
                     wLast, Counted(t, wUpdate))

\* Its operators.
LEMMA WholeReads ==
    ASSUME NEW t
    PROVE  LET s == WholeNow(t) IN
           /\ At(s)!Matched = Whole!Matched /\ (At(s)!Backward <=> Whole!Backward)
           /\ At(s)!Accepted <=> Whole!Accepted
           /\ At(s)!Undecided <=> Whole!Undecided
           /\ \A n : At(s)!Rest(n) = Whole!Rest(n)
           /\ At(s)!Legacy <=> Whole!Legacy
           /\ At(s)!PageRange = Whole!PageRange /\ At(s)!CommandedPage = Whole!CommandedPage
           /\ At(s)!Misframed <=> Whole!Misframed
           /\ At(s)!DataRead <=> Whole!DataRead
           /\ At(s)!MessageSize = Whole!MessageSize /\ At(s)!Filled = Whole!Filled
           /\ At(s)!PagesWritten = Whole!PagesWritten /\ (At(s)!FullWidth <=> Whole!FullWidth)
<1> DEFINE s == WholeNow(t)
<1> USE DEF Whole!Command, Whole!Data, Whole!SetColumns, Whole!SetPages, Whole!SetPage,
           Whole!FirstColumn, Whole!NoPage, Whole!NoColumn, Whole!Rows, Whole!Columns, Whole!Modes,
           Modes
<1>1. /\ s.controller = controller /\ s.pending = wPending /\ s.mode = wMode /\ s.window = wWindow
      /\ s.framebuffer = wFramebuffer /\ s.pages = wPages /\ s.started = wStarted
      /\ s.last = wLast
  BY DEF WholeNow, State
<1> HIDE DEF s
<1>2. /\ At(s)!Matched = Whole!Matched /\ At(s)!Patterns = Whole!Patterns
      /\ \A x, y : At(s)!StartsWith(x, y) <=> Whole!StartsWith(x, y)
  BY <1>1 DEF At!Matched, Whole!Matched, At!Patterns, Whole!Patterns, At!StartsWith,
              Whole!StartsWith
<1>3. At(s)!WindowCommand <=> Whole!WindowCommand
  BY <1>1, <1>2 DEF At!WindowCommand, Whole!WindowCommand
<1>4. At(s)!WindowFits <=> Whole!WindowFits
  BY <1>1 DEF At!WindowFits, Whole!WindowFits
<1>5. At(s)!PageCommand <=> Whole!PageCommand
  BY <1>1 DEF At!PageCommand, Whole!PageCommand
<1>6. /\ At(s)!Legacy <=> Whole!Legacy
      /\ At(s)!CommandedPage = Whole!CommandedPage /\ At(s)!EndColumn = Whole!EndColumn
      /\ At(s)!StartColumn = Whole!StartColumn
  BY <1>1 DEF At!Legacy, Whole!Legacy, At!CommandedPage, Whole!CommandedPage, At!EndColumn,
              Whole!EndColumn,
              At!StartColumn, Whole!StartColumn, At!DecodeColumn, Whole!DecodeColumn
<1>7. /\ At(s)!PageCommandRead <=> Whole!PageCommandRead
      /\ At(s)!PageRangeFits <=> Whole!PageRangeFits
      /\ At(s)!PageRange = Whole!PageRange
  BY <1>1, <1>6 DEF At!PageCommandRead, Whole!PageCommandRead, At!PageRangeFits,
                    Whole!PageRangeFits,
                    At!PageRange, Whole!PageRange
<1>8. At(s)!Backward <=> Whole!Backward
  BY <1>1, <1>5, <1>6 DEF At!Backward, Whole!Backward
<1>9. At(s)!Accepted <=> Whole!Accepted
  BY <1>1, <1>3, <1>4, <1>5, <1>7 DEF At!Accepted, Whole!Accepted
<1>10. At(s)!Undecided <=> Whole!Undecided
  BY <1>1, <1>2, <1>3, <1>5, <1>7 DEF At!Undecided, Whole!Undecided
<1>11. \A n : At(s)!Rest(n) = Whole!Rest(n)
  BY <1>1 DEF At!Rest, Whole!Rest
<1>12. At(s)!MessageSize = Whole!MessageSize /\ (At(s)!FullWidth <=> Whole!FullWidth)
  BY <1>1 DEF At!MessageSize, Whole!MessageSize, At!FullWidth, Whole!FullWidth
<1>13. At(s)!Misframed <=> Whole!Misframed
  BY <1>1 DEF At!Misframed, Whole!Misframed
<1>14. At(s)!DataRead <=> Whole!DataRead
  BY <1>1, <1>12 DEF At!DataRead, Whole!DataRead
<1>15. At(s)!Filled = Whole!Filled
  BY <1>1 DEF At!Filled, Whole!Filled, At!InWindow, Whole!InWindow
<1>16. At(s)!PagesWritten = Whole!PagesWritten
  BY <1>1, <1>12 DEF At!PagesWritten, Whole!PagesWritten
<1> QED BY <1>2, <1>6, <1>7, <1>8, <1>9, <1>10, <1>11, <1>12, <1>13, <1>14, <1>15, <1>16 DEF s

\* Its turns.
LEMMA WholeStepIsTurn ==
    ASSUME wUpdate \in Outcomes, wWindow \in Windows, Whole!Step, NEW t \in Totals
    PROVE  \/ Stuck(WholeNow(t)) /\ UNCHANGED <<WholeNow(t), wUpdate>>
           \/ /\ ~Stuck(WholeNow(t)) /\ WholeNow(t)' = Turn(WholeNow(t))
              /\ ~wRunning' => Present(wUpdate')
<1> DEFINE s == WholeNow(t)
<1> USE DEF Whole!FrameVars, Whole!Command, Whole!Data, Whole!SetColumns, Whole!SetPages,
            Whole!SetPage,
           Whole!FirstColumn, Whole!NoPage, Whole!NoColumn, Whole!Rows, Whole!Columns, Whole!Modes,
           Modes
<1>1. /\ s.controller = controller /\ s.pending = wPending /\ s.mode = wMode /\ s.window = wWindow
      /\ s.framebuffer = wFramebuffer /\ s.pages = wPages /\ s.started = wStarted
      /\ s.last = wLast /\ s.counts = Counted(t, wUpdate)
  BY DEF WholeNow, State
<1>2. /\ At(s)!Matched = Whole!Matched /\ (At(s)!Backward <=> Whole!Backward)
      /\ At(s)!Accepted <=> Whole!Accepted
      /\ At(s)!Undecided <=> Whole!Undecided
      /\ \A n : At(s)!Rest(n) = Whole!Rest(n)
      /\ At(s)!Legacy <=> Whole!Legacy
      /\ At(s)!PageRange = Whole!PageRange /\ At(s)!CommandedPage = Whole!CommandedPage
      /\ At(s)!Misframed <=> Whole!Misframed
      /\ At(s)!DataRead <=> Whole!DataRead
      /\ At(s)!MessageSize = Whole!MessageSize /\ At(s)!Filled = Whole!Filled
      /\ At(s)!PagesWritten = Whole!PagesWritten /\ (At(s)!FullWidth <=> Whole!FullWidth)
  BY WholeReads
<1>3. wUpdate \in Outcomes /\ wWindow.page \in 0..Pages - 1
  BY DEF Windows
<1>4. WholeNow(t)' = State(controller', wPending', wMode', wWindow', wFramebuffer', wPages',
                      wStarted', wLast', Counted(t, wUpdate'))
  BY DEF WholeNow
<1>5. ASSUME Whole!LoopAfterProgress PROVE ~wRunning' => Present(wUpdate')
  BY <1>5 DEF Whole!LoopAfterProgress, Present
<1> HIDE DEF s
<1>6. CASE Whole!ConsumePattern
  <2>1. PICK p \in Whole!Matched : wPending' = Whole!Rest(Len(p))
    BY <1>6 DEF Whole!ConsumePattern
  <2>2. wPending' = At(s)!Rest(Len(CHOOSE x \in At(s)!Matched : TRUE))
    BY <1>2, <2>1, OneMatch
  <2>3. ~Stuck(s) /\ Turn(s) = PatternTaken(s)
    BY <1>1, <1>2, <1>6, <2>1 DEF Whole!ConsumePattern, Whole!Scanning, Stuck, Turn, ScanTurn
  <2>4. WholeNow(t)' = PatternTaken(s)
    BY <1>1, <1>4, <1>6, <2>2 DEF Whole!ConsumePattern, Whole!Scanning, PatternTaken
  <2> QED BY <1>5, <1>6, <2>3, <2>4 DEF Whole!ConsumePattern, s
<1>7. CASE Whole!OpenWindow
  <2>1. Whole!Matched = {} /\ ~Whole!Backward /\ Whole!Accepted /\ controller = "ssd1306"
    BY <1>7 DEF Whole!OpenWindow, Whole!Backward, Whole!Accepted, Whole!WindowCommand,
                Whole!PageCommand
  <2>2. ~Stuck(s) /\ Turn(s) = WindowOpened(s)
    BY <1>1, <1>2, <1>7, <2>1 DEF Whole!OpenWindow, Whole!Scanning, Stuck, Turn, ScanTurn
  <2>3. WholeNow(t)' = WindowOpened(s)
    BY <1>1, <1>2, <1>4, <1>7 DEF Whole!OpenWindow, WindowOpened
  <2> QED BY <1>5, <1>7, <2>2, <2>3 DEF Whole!OpenWindow, s
<1>8. CASE Whole!WrapToLowerPage
  <2>1. ~Stuck(s) /\ Turn(s) = FrameLeft(s)
    BY <1>1, <1>2, <1>8, SMTT(30) DEF Whole!WrapToLowerPage, Whole!Scanning, Stuck, Turn, ScanTurn
  <2>2. Counted(t, wUpdate') = Counted(t, wUpdate)
    BY <1>3, <1>8, CountedLater DEF Whole!WrapToLowerPage
  <2>3. WholeNow(t)' = FrameLeft(s)
    BY <1>1, <1>4, <1>8, <2>2 DEF Whole!WrapToLowerPage, Whole!Scanning, FrameLeft
  <2>4. wUpdate'.boundary
    BY <1>3, <1>8 DEF Whole!WrapToLowerPage, Outcomes
  <2> QED BY <2>1, <2>3, <2>4 DEF Present, s
<1>9. CASE Whole!OpenPage
  <2>1. Whole!Matched = {} /\ ~Whole!Backward /\ Whole!Accepted /\ controller # "ssd1306"
    BY <1>9 DEF Whole!OpenPage, Whole!Accepted, Whole!PageCommand
  <2>2. ~Stuck(s) /\ Turn(s) = PageOpened(s)
    BY <1>1, <1>2, <1>9, <2>1 DEF Whole!OpenPage, Whole!Scanning, Stuck, Turn, ScanTurn
  <2>3. WholeNow(t)' = PageOpened(s)
    BY <1>1, <1>2, <1>4, <1>9 DEF Whole!OpenPage, PageOpened
  <2> QED BY <1>5, <1>9, <2>2, <2>3 DEF Whole!OpenPage, s
<1>10. CASE Whole!AwaitCommand
  <2>1. Stuck(s)
    BY <1>1, <1>2, <1>10 DEF Whole!AwaitCommand, Whole!Scanning, Stuck
  <2>2. UNCHANGED <<WholeNow(t), wUpdate>>
    BY <1>10 DEF Whole!AwaitCommand, WholeNow
  <2> QED BY <2>1, <2>2 DEF s
<1>11. CASE Whole!Discard
  <2>1. Whole!Matched = {} /\ ~Whole!Backward /\ ~Whole!Accepted /\ ~Whole!Undecided
    BY <1>11 DEF Whole!Discard
  <2>2. ~Stuck(s) /\ Turn(s) = ByteDiscarded(s)
    BY <1>1, <1>2, <1>11, <2>1, SMTT(30) DEF Whole!Discard, Whole!Scanning, Stuck, Turn, ScanTurn
  <2>3. Counted(t, wUpdate') = [Counted(t, wUpdate) EXCEPT !.discarded = @ + 1]
    BY <1>3, <1>11, CountedLater, ZenonT(60) DEF Whole!Discard
  <2>4. WholeNow(t)' = ByteDiscarded(s)
    BY <1>1, <1>2, <1>4, <1>11, <2>3 DEF Whole!Discard, Whole!Scanning, ByteDiscarded
  <2> QED BY <1>5, <1>11, <2>2, <2>4 DEF Whole!Discard, s
<1>12. CASE Whole!Resynchronize
  <2>1. ~Stuck(s) /\ Turn(s) = CommandExpected(s)
    BY <1>1, <1>2, <1>12 DEF Whole!Resynchronize, Whole!Reading, Stuck, Turn, DataTurn
  <2>2. WholeNow(t)' = CommandExpected(s)
    BY <1>1, <1>4, <1>12 DEF Whole!Resynchronize, CommandExpected
  <2> QED BY <1>5, <1>12, <2>1, <2>2 DEF Whole!Resynchronize, s
<1>13. CASE Whole!AwaitData
  <2>1. Stuck(s)
    BY <1>1, <1>2, <1>13 DEF Whole!AwaitData, Whole!Reading, Stuck
  <2>2. UNCHANGED <<WholeNow(t), wUpdate>>
    BY <1>13 DEF Whole!AwaitData, WholeNow
  <2> QED BY <2>1, <2>2 DEF s
<1>14. CASE Whole!ReadWindow
  <2> DEFINE complete == Whole!FullWidth /\ wWindow.page = 0 /\ wWindow.pages = Pages
  <2>1. Counted(t, wUpdate') = Shown(Counted(t, wUpdate), complete)
    BY <1>3, <1>14, CountedLater, ZenonT(60) DEF Whole!ReadWindow, Whole!Presented, Shown
  <2>2. ~Stuck(s) /\ Turn(s) = WindowTaken(s)
    BY <1>1, <1>2, <1>14
       DEF Whole!ReadWindow, Whole!ReadData, Whole!Reading, Whole!DataRead, Whole!Misframed,
           Stuck, Turn, DataTurn
  <2>3. WholeNow(t)' = WindowTaken(s)
    BY <1>1, <1>2, <1>4, <1>14, <2>1 DEF Whole!ReadWindow, Whole!ReadData, WindowTaken
  <2> QED BY <1>5, <1>14, <2>2, <2>3 DEF Whole!ReadWindow, s
<1>15. CASE Whole!ReadPage
  <2>1. Counted(t, wUpdate') = Shown(Counted(t, wUpdate), FALSE)
    BY <1>3, <1>15, CountedLater DEF Whole!ReadPage
  <2>2. ~Stuck(s) /\ Turn(s) = PageTaken(s)
    BY <1>1, <1>2, <1>15
       DEF Whole!ReadPage, Whole!ReadData, Whole!Reading, Whole!DataRead, Whole!Misframed, Stuck,
           Turn, DataTurn
  <2>3. WholeNow(t)' = PageTaken(s)
    BY <1>1, <1>2, <1>4, <1>15, <2>1 DEF Whole!ReadPage, Whole!ReadData, PageTaken
  <2> QED BY <1>5, <1>15, <2>2, <2>3 DEF Whole!ReadPage, s
<1>16. CASE Whole!ReadLastPage
  <2> DEFINE complete == wStarted /\ Whole!PagesWritten = Rows
  <2>1. Counted(t, wUpdate') = Shown(Counted(t, wUpdate), complete)
    BY <1>3, <1>16, CountedLater, ZenonT(60) DEF Whole!ReadLastPage, Whole!Presented, Shown
  <2>2. ~Stuck(s) /\ Turn(s) = LastPageTaken(s)
    BY <1>1, <1>2, <1>3, <1>16
       DEF Whole!ReadLastPage, Whole!ReadData, Whole!Reading, Whole!DataRead, Whole!Misframed,
           Stuck, Turn, DataTurn
  <2>3. WholeNow(t)' = LastPageTaken(s)
    BY <1>1, <1>2, <1>4, <1>16, <2>1 DEF Whole!ReadLastPage, Whole!ReadData, LastPageTaken
  <2> QED BY <1>5, <1>16, <2>2, <2>3 DEF Whole!ReadLastPage, s
<1> QED BY <1>6, <1>7, <1>8, <1>9, <1>10, <1>11, <1>12, <1>13, <1>14, <1>15, <1>16 DEF Whole!Step

\* What is counted of it.
LEMMA WholeOutcomes ==
    ASSUME wUpdate \in Outcomes, Whole!Step
    PROVE  wUpdate' \in Outcomes
<1> USE DEF Whole!FrameVars
<1>1. ASSUME NEW complete, wUpdate' = Whole!Presented(complete) PROVE wUpdate' \in Outcomes
  <2>1. \A n \in Nat : n + 1 \in Nat
    OBVIOUS
  <2>2. [wUpdate EXCEPT !.updates = @ + 1] \in Outcomes
    BY <2>1 DEF Outcomes
  <2>3. PICK u \in Outcomes : u = [wUpdate EXCEPT !.updates = @ + 1]
    BY <2>2
  <2>4. /\ u.completed = wUpdate.completed
        /\ [u EXCEPT !.completed = @ + 1] \in Outcomes /\ [u EXCEPT !.boundary = TRUE] \in Outcomes
    BY <2>1, <2>3 DEF Outcomes
  <2>5. CASE complete
    <3>1. wUpdate' = [u EXCEPT !.completed = @ + 1]
      BY <1>1, <2>3, <2>4, <2>5 DEF Whole!Presented
    <3> QED BY <2>4, <3>1
  <2>6. CASE ~complete
    <3>1. wUpdate' = [u EXCEPT !.boundary = TRUE]
      BY <1>1, <2>3, <2>6 DEF Whole!Presented
    <3> QED BY <2>4, <3>1
  <2> QED BY <2>5, <2>6
<1>2. CASE Whole!ConsumePattern
  BY <1>2 DEF Whole!ConsumePattern
<1>3. CASE Whole!OpenWindow
  BY <1>3 DEF Whole!OpenWindow
<1>4. CASE Whole!WrapToLowerPage
  BY <1>4 DEF Whole!WrapToLowerPage, Outcomes
<1>5. CASE Whole!OpenPage
  BY <1>5 DEF Whole!OpenPage
<1>6. CASE Whole!AwaitCommand
  BY <1>6 DEF Whole!AwaitCommand
<1>7. CASE Whole!Discard
  BY <1>7 DEF Whole!Discard, Outcomes
<1>8. CASE Whole!Resynchronize
  BY <1>8 DEF Whole!Resynchronize
<1>9. CASE Whole!AwaitData
  BY <1>9 DEF Whole!AwaitData
<1>10. CASE Whole!ReadWindow
  BY <1>1, <1>10 DEF Whole!ReadWindow
<1>11. CASE Whole!ReadPage
  BY <1>11 DEF Whole!ReadPage, Outcomes
<1>12. CASE Whole!ReadLastPage
  BY <1>1, <1>12 DEF Whole!ReadLastPage
<1> QED BY <1>2, <1>3, <1>4, <1>5, <1>6, <1>7, <1>8, <1>9, <1>10, <1>11, <1>12 DEF Whole!Step

-----------------------------------------------------------------------------
(* A turn keeps what later turns need to know. *)

\* What is left of the bytes are bytes.
LEMMA RestReadable ==
    ASSUME NEW q \in Seq(Byte), NEW n \in Nat
    PROVE  SubSeq(q, n + 1, Len(q)) \in Seq(Byte)
<1>1. \A i \in n + 1..Len(q) : q[i] \in Byte
  OBVIOUS
<1>2. Len(q) \in Int /\ n + 1 \in Int
  OBVIOUS
<1> QED BY <1>1, <1>2, SubSeqProperties

\* The rectangle of an accepted command lies inside the display RAM.
LEMMA OpenedInside ==
    ASSUME NEW s, Readable(s), At(s)!Matched = {}, ~At(s)!Backward, At(s)!Accepted
    PROVE  /\ s.controller = "ssd1306" => WindowOpened(s).window \in Windows
           /\ s.controller # "ssd1306" => PageOpened(s).window \in Windows
<1>1. /\ s.pending \in Seq(Byte) /\ Len(s.pending) \in Nat
      /\ \A i \in 1..Len(s.pending) : s.pending[i] \in 0..255
  <2>1. s.pending \in Seq(Byte)
    BY DEF Readable
  <2>2. Len(s.pending) \in Nat /\ \A i \in 1..Len(s.pending) : s.pending[i] \in Byte
    BY <2>1
  <2> QED BY <2>1, <2>2 DEF Byte
<1>2. CASE s.controller = "ssd1306"
  <2> DEFINE a == s.pending[3]
             b == s.pending[4]
             c == s.pending[6]
             d == s.pending[7]
  <2>1. Len(s.pending) >= 7 /\ At(s)!WindowFits
    BY <1>2 DEF At!Accepted, At!PageCommand
  <2>2. /\ 3 \in 1..Len(s.pending) /\ 4 \in 1..Len(s.pending)
        /\ 6 \in 1..Len(s.pending) /\ 7 \in 1..Len(s.pending)
    BY <1>1, <2>1
  <2>3. a \in 0..255 /\ b \in 0..255 /\ c \in 0..255 /\ d \in 0..255
    BY <1>1, <2>2
  <2>4. a <= b /\ b < Width /\ c <= d /\ d < Pages
    BY <2>1 DEF At!WindowFits
  <2>5. WindowOpened(s).window = [x |-> a, width |-> b - a + 1, page |-> c, pages |-> d - c + 1]
    BY DEF WindowOpened, State
  <2> HIDE DEF a, b, c, d
  <2>6. /\ a \in Columns /\ b - a + 1 \in 1..Width /\ a + (b - a + 1) <= Width
        /\ c \in Rows /\ d - c + 1 \in 1..Pages /\ c + (d - c + 1) <= Pages
    BY <2>3, <2>4, SizeAssumption
  <2>7. [x |-> a, width |-> b - a + 1, page |-> c, pages |-> d - c + 1] \in Windows
    BY <2>6 DEF Windows
  <2> QED BY <1>2, <2>5, <2>7
<1>3. CASE s.controller # "ssd1306"
  <2>1. At(s)!PageCommand /\ At(s)!PageRangeFits
    BY <1>3 DEF At!Accepted, At!WindowCommand
  <2>2. At(s)!CommandedPage \in Rows /\ At(s)!CommandedPage + 1 <= Pages
    BY <2>1, SizeAssumption DEF At!PageCommand, At!CommandedPage
  <2>3. PageOpened(s).window = At(s)!PageRange
    BY DEF PageOpened, State
  <2>4. CASE At(s)!Legacy
    <3>1. 0 \in Columns /\ Width \in 1..Width /\ 0 + Width <= Width /\ 1 \in 1..Pages
      BY SizeAssumption
    <3> QED BY <1>3, <2>2, <2>3, <2>4, <3>1 DEF At!PageRange, Windows
  <2>5. CASE ~At(s)!Legacy
    <3>1. At(s)!StartColumn \in Int /\ At(s)!EndColumn \in Int
      BY DEF At!StartColumn, At!EndColumn, At!DecodeColumn
    <3>2. /\ At(s)!StartColumn >= 2 /\ At(s)!StartColumn <= At(s)!EndColumn
          /\ At(s)!EndColumn < Width + 2
      BY <2>1, <2>5 DEF At!PageRangeFits
    <3>3. /\ At(s)!StartColumn - 2 \in Columns
          /\ At(s)!EndColumn - At(s)!StartColumn + 1 \in 1..Width
          /\ At(s)!StartColumn - 2 + (At(s)!EndColumn - At(s)!StartColumn + 1) <= Width
          /\ 1 \in 1..Pages
      BY <3>1, <3>2, SizeAssumption
    <3> QED BY <1>3, <2>2, <2>3, <2>5, <3>3 DEF At!PageRange, Windows
  <2> QED BY <2>4, <2>5
<1> QED BY <1>2, <1>3

\* Whatever is decoded, the rectangle of the next pixel data lies inside the display RAM.
LEMMA TurnReadable ==
    ASSUME NEW s, Readable(s), ~Stuck(s)
    PROVE  Readable(Turn(s))
<1> DEFINE IsState(t) == t = State(t.controller, t.pending, t.mode, t.window, t.framebuffer,
                                   t.pages, t.started, t.last, t.counts)
<1>1. /\ s.controller \in {"ssd1306", "sh1106"} /\ s.pending \in Seq(Byte)
      /\ s.window \in Windows /\ {"Scan", "Ssd1306Data", "Sh1106PageData"} = Modes
  BY DEF Readable, Modes
<1>2. \A n \in Nat : At(s)!Rest(n) \in Seq(Byte)
  BY <1>1, RestReadable DEF At!Rest
<1>3. \A c, b, m, w, f, p, st, la, co :
         c \in {"ssd1306", "sh1106"} /\ b \in Seq(Byte) /\ m \in Modes /\ w \in Windows
         => Readable(State(c, b, m, w, f, p, st, la, co))
  BY DEF Readable, State
<1>4. CASE s.mode = "Scan"
  <2>1. CASE At(s)!Matched # {}
    <3>1. PICK p \in At(s)!Matched : TRUE
      BY <2>1
    <3>2. Len(p) \in Nat /\ (CHOOSE x \in At(s)!Matched : TRUE) = p
      BY <3>1, OneMatch, PatternAssumption DEF At!Matched, At!Patterns
    <3>3. At(s)!Rest(Len(CHOOSE x \in At(s)!Matched : TRUE)) \in Seq(Byte)
      BY <1>2, <3>2
    <3>4. Readable(PatternTaken(s))
      BY <1>1, <1>3, <3>3 DEF PatternTaken
    <3> QED BY <1>4, <2>1, <3>4 DEF Turn, ScanTurn
  <2>2. CASE At(s)!Matched = {} /\ At(s)!Backward
    <3>1. Readable(FrameLeft(s))
      BY <1>1, <1>3 DEF FrameLeft
    <3> QED BY <1>4, <2>2, <3>1 DEF Turn, ScanTurn
  <2>3. CASE At(s)!Matched = {} /\ ~At(s)!Backward /\ ~At(s)!Accepted
    <3>1. Readable(ByteDiscarded(s))
      BY <1>1, <1>2, <1>3 DEF ByteDiscarded
    <3> QED BY <1>4, <2>3, <3>1 DEF Turn, ScanTurn
  <2>4. CASE At(s)!Matched = {} /\ ~At(s)!Backward /\ At(s)!Accepted
    <3>1. CASE s.controller = "ssd1306"
      <4>1. Readable(WindowOpened(s))
        <5>1. At(s)!Rest(7) \in Seq(Byte) /\ "Ssd1306Data" \in Modes
          BY <1>1, <1>2
        <5>2. WindowOpened(s).window \in Windows
          BY <2>4, <3>1, OpenedInside
        <5>3. /\ WindowOpened(s).controller = s.controller
              /\ WindowOpened(s).pending = At(s)!Rest(7)
              /\ WindowOpened(s).mode = "Ssd1306Data" /\ IsState(WindowOpened(s))
          BY DEF WindowOpened, State
        <5> QED BY <1>1, <5>1, <5>2, <5>3 DEF Readable
      <4> QED BY <1>4, <2>4, <3>1, <4>1 DEF Turn, ScanTurn
    <3>2. CASE s.controller # "ssd1306"
      <4>1. Readable(PageOpened(s))
        <5>1. /\ At(s)!Rest(IF At(s)!Legacy THEN 4 ELSE 6) \in Seq(Byte)
              /\ "Sh1106PageData" \in Modes
          BY <1>1, <1>2
        <5>2. PageOpened(s).window \in Windows
          BY <2>4, <3>2, OpenedInside
        <5>3. /\ PageOpened(s).controller = s.controller
              /\ PageOpened(s).pending = At(s)!Rest(IF At(s)!Legacy THEN 4 ELSE 6)
              /\ PageOpened(s).mode = "Sh1106PageData" /\ IsState(PageOpened(s))
          BY DEF PageOpened, State
        <5> QED BY <1>1, <5>1, <5>2, <5>3 DEF Readable
      <4> QED BY <1>4, <2>4, <3>2, <4>1 DEF Turn, ScanTurn
    <3> QED BY <3>1, <3>2
  <2> QED BY <2>1, <2>2, <2>3, <2>4
<1>5. CASE s.mode # "Scan"
  <2>1. At(s)!MessageSize \in Nat
    BY <1>1, SMTT(30) DEF At!MessageSize, Windows
  <2>2. /\ Readable(CommandExpected(s)) /\ Readable(WindowTaken(s))
        /\ Readable(PageTaken(s)) /\ Readable(LastPageTaken(s))
    BY <1>1, <1>2, <1>3, <2>1 DEF CommandExpected, WindowTaken, PageTaken, LastPageTaken
  <2> QED BY <1>5, <2>2 DEF Turn, DataTurn
<1> QED BY <1>4, <1>5

-----------------------------------------------------------------------------
(* The stream. *)

\* Pixel data are bytes.
LEMMA PixelBytes ==
    ASSUME messages \in Nat, NEW n \in Nat
    PROVE  Pixels(n) \in Seq(Byte) /\ Len(Pixels(n)) = n
<1>1. \A i \in 1..n : (62 - messages + i) % 256 \in Byte
  BY DEF Byte
<1> QED BY <1>1, IsASeq DEF Pixels

\* So are the commands in front of them.
LEMMA CommandBytes ==
    ASSUME controller \in {"ssd1306", "sh1106"}, NEW w \in Updates, NEW range \in RangeCommands(w)
    PROVE  w \in Windows /\ range \in Seq(Byte)
<1>1. w \in Windows
  BY SenderAssumption DEF Updates
<1>2. /\ w.x \in Columns /\ w.width \in 1..Width /\ w.page \in Rows /\ w.pages \in 1..Pages
      /\ w.x + w.width <= Width /\ w.page + w.pages <= Pages
  BY <1>1 DEF Windows
<1>3. Width <= 128 /\ Pages <= 8 /\ Width \in Nat /\ Pages \in Nat
  BY SizeAssumption
<1>4. CASE controller = "ssd1306"
  <2>1. /\ w.x \in Byte /\ EndOf(w) \in Byte /\ w.page \in Byte
        /\ w.page + w.pages - 1 \in Byte
        /\ Command \in Byte /\ SetColumns \in Byte /\ SetPages \in Byte
    <3>1. /\ w.x \in 0..127 /\ EndOf(w) \in 0..127 /\ w.page \in 0..7
          /\ w.page + w.pages - 1 \in 0..7
      <4>1. w.x \in Int /\ w.x >= 0 /\ w.x + w.width <= 128 /\ w.width \in Int /\ w.width >= 1
        BY <1>2, <1>3
      <4>2. /\ w.page \in Int /\ w.page >= 0 /\ w.page + w.pages <= 8
            /\ w.pages \in Int /\ w.pages >= 1
        BY <1>2, <1>3
      <4>3. w.x \in 0..127 /\ EndOf(w) \in 0..127
        BY <4>1 DEF EndOf
      <4>4. w.page \in 0..7 /\ w.page + w.pages - 1 \in 0..7
        BY <4>2
      <4> QED BY <4>3, <4>4, Zenon
    <3>2. 0..127 \subseteq Byte /\ 0..7 \subseteq Byte
      BY DEF Byte
    <3> QED BY <3>1, <3>2 DEF Byte
  <2>2. range = <<Command, SetColumns, w.x, EndOf(w), SetPages, w.page, w.page + w.pages - 1>>
    BY <1>4 DEF RangeCommands
  <2> QED BY <1>1, <2>1, <2>2
<1>5. CASE controller # "ssd1306"
  <2> DEFINE Column(c) == <<(c + FirstColumn) % 16, 16 + (c + FirstColumn) \div 16>>
             page      == <<Command, SetPage + w.page>>
  <2>1. \A c \in 0..127 : (c + 2) % 16 \in 0..15 /\ (c + 2) \div 16 \in 0..8
    OBVIOUS
  <2>2. \A c \in 0..127 : Column(c) \in Seq(Byte)
    <3> SUFFICES ASSUME NEW c \in 0..127 PROVE Column(c) \in Seq(Byte)
      OBVIOUS
    <3>1. (c + FirstColumn) % 16 \in Byte /\ 16 + (c + FirstColumn) \div 16 \in Byte
      BY <2>1 DEF Byte
    <3> QED BY <3>1
  <2>3. page \in Seq(Byte)
    <3>1. Command \in Byte /\ SetPage + w.page \in Byte
      BY <1>2, <1>3 DEF Byte
    <3> QED BY <3>1
  <2>4. /\ EndOf(w) \in 0..127 /\ w.x \in 0..127 /\ 0 \in 0..127
    BY <1>2, <1>3, SMTT(30) DEF EndOf
  <2>5. \/ range = page \o Column(EndOf(w)) \o Column(w.x)
        \/ range = page \o Column(0)
    BY <1>5 DEF RangeCommands
  <2> HIDE DEF Column, page
  <2>6. /\ Column(EndOf(w)) \in Seq(Byte) /\ Column(w.x) \in Seq(Byte) /\ Column(0) \in Seq(Byte)
    BY <2>2, <2>4
  <2>7. \A x, y \in Seq(Byte) : x \o y \in Seq(Byte)
    BY ConcatProperties
  <2>8. page \o Column(EndOf(w)) \in Seq(Byte) /\ page \o Column(0) \in Seq(Byte)
    BY <2>3, <2>6, <2>7
  <2>9. page \o Column(EndOf(w)) \o Column(w.x) \in Seq(Byte)
    BY <2>6, <2>7, <2>8
  <2> QED BY <1>1, <2>5, <2>8, <2>9
<1> QED BY <1>4, <1>5

\* A message is a sequence of bytes.
LEMMA MessageBytes ==
    ASSUME controller \in {"ssd1306", "sh1106"}, messages \in Nat,
           NEW w \in Updates, NEW range \in RangeCommands(w)
    PROVE  range \o <<Data>> \o Pixels(w.width * w.pages) \in Seq(Byte)
<1>1. w \in Windows /\ range \in Seq(Byte)
  BY CommandBytes
<1>2. w.width * w.pages \in Nat
  BY <1>1 DEF Windows
<1>3. Pixels(w.width * w.pages) \in Seq(Byte)
  BY <1>2, PixelBytes
<1>4. <<Data>> \in Seq(Byte)
  BY DEF Byte
<1> QED BY <1>1, <1>3, <1>4, ConcatProperties

\* What is sent, whole, damaged or noise, is a sequence of bytes.
LEMMA StreamBytes ==
    ASSUME controller \in {"ssd1306", "sh1106"}, messages \in Nat, stream \in Seq(Byte),
           SendPattern \/ SendUpdate \/ SendDamaged
    PROVE  stream' \in Seq(Byte) /\ messages' \in Nat
<1>1. ASSUME NEW bytes \in Seq(Byte), Sent(bytes) PROVE stream' \in Seq(Byte) /\ messages' \in Nat
  BY <1>1, ConcatProperties DEF Sent
<1>2. CASE SendPattern
  BY <1>1, <1>2, PatternAssumption DEF SendPattern, Patterns
<1>3. CASE SendUpdate
  BY <1>1, <1>3, MessageBytes DEF SendUpdate
<1>4. CASE SendDamaged
  <2>1. ASSUME NEW w \in Updates, NEW range \in RangeCommands(w), NEW cut \in Cuts,
               cut < Len(range \o <<Data>> \o Pixels(w.width * w.pages)),
               Sent(SubSeq(range \o <<Data>> \o Pixels(w.width * w.pages), 1, cut))
        PROVE  stream' \in Seq(Byte) /\ messages' \in Nat
    <3> DEFINE message == range \o <<Data>> \o Pixels(w.width * w.pages)
    <3>1. message \in Seq(Byte) /\ cut \in Nat
      BY MessageBytes, SenderAssumption
    <3>2. cut < Len(message) /\ Sent(SubSeq(message, 1, cut))
      BY <2>1
    <3> HIDE DEF message
    <3>3. \A i \in 1..cut : message[i] \in Byte
      BY <3>1, <3>2
    <3>4. SubSeq(message, 1, cut) \in Seq(Byte)
      BY <3>1, <3>2, <3>3, SubSeqProperties
    <3> QED BY <1>1, <3>2, <3>4
  <2>2. ASSUME NEW bytes \in Noise, Sent(bytes) PROVE stream' \in Seq(Byte) /\ messages' \in Nat
    BY <1>1, <2>2, SenderAssumption
  <2> QED BY <1>4, <2>1, <2>2 DEF SendDamaged
<1> QED BY <1>2, <1>3, <1>4

-----------------------------------------------------------------------------
(* Both parsers decode the same stream. *)

FragmentCounts == IF called THEN Counted(totals, update) ELSE totals
WholeCounts    == IF wCalled THEN Counted(wTotals, wUpdate) ELSE wTotals

\* Both parsers' states; that of the one that gets fragments with more bytes behind its own.
FragmentState ==
    State(controller, pending, mode, window, framebuffer, sh1106Pages, frameStarted, lastPage,
          FragmentCounts)
WholeState ==
    State(controller, wPending, wMode, wWindow, wFramebuffer, wPages, wStarted, wLast,
          WholeCounts)

\* The bytes that are not delivered yet.
Left == SubSeq(stream, delivered + 1, Len(stream))

LoopTypes ==
    /\ phase \in {"send", "whole", "fragments"} /\ messages \in Nat
    /\ stream \in Seq(Byte) /\ delivered \in 0..Len(stream)
    /\ called \in BOOLEAN /\ totals \in Totals
    /\ wCalled \in BOOLEAN /\ wTotals \in Totals /\ wUpdate \in Outcomes
    /\ Readable(WholeState)

\* A call of push() that is over and has nothing to present has decoded all that can be.
FragmentCall ==
    /\ running => called
    /\ ~called \/ (~running /\ ~Present(update)) => Stuck(FragmentState)
WholeCall ==
    /\ wRunning => wCalled
    /\ ~wCalled \/ (~wRunning /\ ~Present(wUpdate)) => Stuck(WholeState)

\* The parsers begin one after the other, in the same state.
PhaseInv ==
    /\ phase # "fragments" => delivered = 0 /\ ~called
    /\ phase # "whole" => ~wCalled
    /\ phase = "send" => pending = <<>> /\ WholeState = FragmentState
    /\ phase = "whole" => pending = <<>>

\* What the other parser has decoded is what this one will.
SameInv == phase # "send" => Reaches(Longer(FragmentState, Left), WholeState)

StreamInv == Types /\ LoopTypes /\ FragmentCall /\ WholeCall /\ PhaseInv /\ SameInv

\* An empty input can only be waited behind.
LEMMA NothingPending ==
    ASSUME NEW s, Readable(s), s.pending = <<>>, s.mode = "Scan"
    PROVE  Stuck(s)
<1>1. ~At(s)!WindowCommand /\ ~At(s)!PageCommand
  BY DEF At!WindowCommand, At!StartsWith, At!PageCommand
<1>2. \A p \in At(s)!Patterns : Len(p) >= 2
  BY CommandsAssumption DEF At!Patterns
<1>3. At(s)!Matched = {}
  BY <1>2 DEF At!Matched, At!StartsWith
<1> QED BY <1>1, <1>3 DEF Stuck, At!Backward, At!Accepted, At!Undecided

\* Nothing is left of a stream of which all is delivered; what is delivered goes to the bytes
\* that are pending.
LEMMA LeftMoves ==
    ASSUME NEW q \in Seq(Byte), NEW rest \in Seq(Byte), NEW d \in 0..Len(rest),
           NEW n \in 0..(Len(rest) - d)
    PROVE  /\ SubSeq(rest, d + 1, d + n) \in Seq(Byte)
           /\ SubSeq(rest, d + n + 1, Len(rest)) \in Seq(Byte)
           /\ SubSeq(rest, d + 1, Len(rest)) \in Seq(Byte)
           /\ (q \o SubSeq(rest, d + 1, d + n)) \o SubSeq(rest, d + n + 1, Len(rest)) =
                 q \o SubSeq(rest, d + 1, Len(rest))
<1> DEFINE a == SubSeq(rest, d + 1, d + n)
           b == SubSeq(rest, d + n + 1, Len(rest))
           c == SubSeq(rest, d + 1, Len(rest))
<1>1. \A i \in 1..Len(rest) : rest[i] \in Byte
  OBVIOUS
<1>2. /\ a \in Seq(Byte) /\ Len(a) = n
      /\ \A i \in 1..n : a[i] = rest[d + i]
  BY <1>1, SubSeqProperties
<1>3. /\ b \in Seq(Byte) /\ Len(b) = Len(rest) - d - n
      /\ \A i \in 1..Len(rest) - d - n : b[i] = rest[d + n + i]
  BY <1>1, SubSeqProperties
<1>4. /\ c \in Seq(Byte) /\ Len(c) = Len(rest) - d
      /\ \A i \in 1..Len(rest) - d : c[i] = rest[d + i]
  BY <1>1, SubSeqProperties
<1> HIDE DEF a, b, c
<1>5. a \o b = c
  <2>1. /\ a \o b \in Seq(Byte) /\ Len(a \o b) = Len(c)
        /\ \A i \in 1..Len(c) : (a \o b)[i] = IF i <= n THEN a[i] ELSE b[i - n]
    BY <1>2, <1>3, <1>4, ConcatProperties, SMTT(30)
  <2>2. ASSUME NEW i \in 1..Len(c) PROVE (a \o b)[i] = c[i]
    <3>1. i \in 1..Len(rest) - d /\ c[i] = rest[d + i]
      BY <1>4
    <3>2. CASE i <= n
      BY <1>2, <2>1, <3>1, <3>2
    <3>3. CASE i > n
      <4>1. i - n \in 1..Len(rest) - d - n /\ d + n + (i - n) = d + i
        BY <3>1, <3>3
      <4>2. b[i - n] = rest[d + i]
        BY <1>3, <4>1
      <4>3. ~(i <= n)
        BY <3>1, <3>3
      <4>4. (a \o b)[i] = b[i - n]
        BY <2>1, <4>3
      <4> QED BY <3>1, <4>2, <4>4
    <3>4. i <= n \/ i > n
      BY <3>1
    <3> QED BY <3>2, <3>3, <3>4
  <2> QED BY <1>4, <2>1, <2>2, SeqEqual
<1>6. (q \o a) \o b = q \o (a \o b)
  <2>1. \A x, y, z \in Seq(Byte) : (x \o y) \o z = x \o (y \o z)
    BY ConcatAssociative, SMTT(30)
  <2> QED BY <1>2, <1>3, <2>1
<1> QED BY <1>2, <1>3, <1>4, <1>5, <1>6 DEF a, b, c

\* The state of a parser with the outcome of its call.
LEMMA FragmentIsNow ==
    /\ called => FragmentState = Now(totals)
    /\ Types => Readable(FragmentState)
    /\ wCalled => WholeState = WholeNow(wTotals)
<1>1. called => FragmentState = Now(totals)
  BY DEF FragmentState, FragmentCounts, Now
<1>2. Types => Readable(FragmentState)
  BY DEF Types, StateTypes, BytesType, Readable, FragmentState, State
<1>3. wCalled => WholeState = WholeNow(wTotals)
  BY DEF WholeState, WholeCounts, WholeNow
<1> QED BY <1>1, <1>2, <1>3

\* Nothing has been sent, nothing is pending.
LEMMA StreamInit == Init => StreamInv
<1> SUFFICES ASSUME Init PROVE StreamInv
  OBVIOUS
<1>1. Types
  BY InitTypes DEF Init
<1>2. WholeState = FragmentState /\ pending = <<>> /\ mode = "Scan"
  BY DEF Init, ParserInit, Whole!ParserInit, WholeState, FragmentState, WholeCounts,
         FragmentCounts, Whole!NoWindow, NoWindow, Whole!Blank, Blank, Whole!NoPage,
         Whole!Rows, Whole!Columns
<1>3. Readable(FragmentState)
  BY <1>1, FragmentIsNow
<1>4. FragmentState.pending = <<>> /\ FragmentState.mode = "Scan"
  BY <1>2 DEF FragmentState, State
<1>5. Stuck(FragmentState)
  BY <1>3, <1>4, NothingPending
<1>6. LoopTypes
  <2>1. NoTotals \in Totals /\ wUpdate \in Outcomes
    BY DEF Init, Whole!ParserInit, Whole!NoUpdate, NoTotals, Totals, Outcomes
  <2>2. stream \in Seq(Byte) /\ delivered \in 0..Len(stream)
    BY DEF Init
  <2> QED BY <1>2, <1>3, <2>1, <2>2 DEF Init, LoopTypes
<1>7. FragmentCall /\ WholeCall /\ PhaseInv /\ SameInv
  BY <1>2, <1>5 DEF Init, ParserInit, Whole!ParserInit, FragmentCall, WholeCall, PhaseInv,
                    SameInv
<1> QED BY <1>1, <1>6, <1>7 DEF StreamInv

\* The sender writes before anything is delivered.
LEMMA SendKeeps ==
    ASSUME StreamInv, SendPattern \/ SendUpdate \/ SendDamaged
    PROVE  StreamInv'
<1>1. UNCHANGED <<phase, loopVars, parserVars, wholeVars>> /\ phase = "send"
  BY DEF SendPattern, SendUpdate, SendDamaged, Sending, Sent
<1>2. UNCHANGED <<phase, delivered, called, totals, controller, pending, mode, window,
                  framebuffer, sh1106Pages, frameStarted, lastPage, update, running, wPending,
                  wMode, wWindow, wFramebuffer, wPages, wStarted, wLast, wUpdate, wRunning,
                  wCalled, wTotals>>
  BY <1>1 DEF loopVars, parserVars, wholeVars
<1>3. Types' /\ UNCHANGED <<FragmentState, WholeState>>
  BY <1>2 DEF StreamInv, Types, FlagTypes, StateTypes, PageTypes, RamType, UpdateType, BytesType,
              FragmentState, FragmentCounts, WholeState, WholeCounts
<1>4. stream' \in Seq(Byte) /\ messages' \in Nat
  BY StreamBytes DEF StreamInv, Types, StateTypes, LoopTypes
<1>5. delivered' = 0 /\ 0 \in 0..Len(stream')
  BY <1>1, <1>2, <1>4 DEF StreamInv, PhaseInv
<1> QED BY <1>1, <1>2, <1>3, <1>4, <1>5
        DEF StreamInv, LoopTypes, FragmentCall, WholeCall, PhaseInv, SameInv

\* The whole stream is pushed: the bytes are behind those that were pending.
LEMMA WholeDelivered ==
    ASSUME StreamInv, DeliverWhole
    PROVE  WholeState' = Longer(WholeState, stream)
<1>1. /\ Whole!Push(stream) /\ wCalled' /\ ~wCalled /\ phase = "send"
      /\ UNCHANGED <<parserVars, wTotals>>
  BY DEF DeliverWhole, StreamInv, PhaseInv
<1>2. UNCHANGED <<controller, wTotals>>
  BY <1>1 DEF parserVars
<1>3. /\ wPending' = wPending \o stream /\ wUpdate' = Whole!NoUpdate
      /\ UNCHANGED <<wMode, wWindow, wFramebuffer, wPages, wStarted, wLast>>
  BY <1>1 DEF Whole!Push
<1>4. WholeCounts' = wTotals /\ WholeCounts = wTotals
  <2>1. Counted(wTotals, NoUpdate) = wTotals /\ Whole!NoUpdate = NoUpdate
    <3>1. NoUpdate \in Outcomes
      BY DEF NoUpdate, Outcomes
    <3> QED BY <3>1, CountedLater DEF StreamInv, LoopTypes, Whole!NoUpdate, NoUpdate
  <2> QED BY <1>1, <1>3, <2>1 DEF WholeCounts
<1>5. WholeState' = Longer(WholeState, stream)
  <2>1. WholeState' = State(controller, wPending \o stream, wMode, wWindow, wFramebuffer, wPages,
                            wStarted, wLast, wTotals)
    BY <1>2, <1>3, <1>4 DEF WholeState
  <2>2. WholeState = State(controller, wPending, wMode, wWindow, wFramebuffer, wPages,
                           wStarted, wLast, wTotals)
    BY <1>4 DEF WholeState
  <2> QED BY <2>1, <2>2, LongerState
<1> QED BY <1>5

\* The whole stream is left to the other parser.
LEMMA DeliverWholeKeeps ==
    ASSUME StreamInv, DeliverWhole
    PROVE  StreamInv'
<1>1. /\ phase = "send" /\ phase' = "whole" /\ Whole!Push(stream) /\ wCalled'
      /\ UNCHANGED <<senderVars, loopVars, parserVars, wTotals>>
  BY DEF DeliverWhole
<1>2. UNCHANGED <<stream, messages, delivered, called, totals, controller, pending, mode, window,
                  framebuffer, sh1106Pages, frameStarted, lastPage, update, running, wTotals>>
  BY <1>1 DEF loopVars, parserVars, senderVars
<1>3. Types' /\ UNCHANGED FragmentState
  BY <1>2 DEF StreamInv, Types, FlagTypes, StateTypes, PageTypes, RamType, UpdateType, BytesType,
              FragmentState, FragmentCounts
<1>4. /\ wPending' = wPending \o stream /\ wUpdate' = Whole!NoUpdate /\ wRunning'
      /\ UNCHANGED <<wMode, wWindow, wFramebuffer, wPages, wStarted, wLast>>
  BY <1>1 DEF Whole!Push
<1>5. /\ delivered = 0 /\ ~called /\ ~wCalled /\ pending = <<>> /\ WholeState = FragmentState
      /\ stream \in Seq(Byte)
  BY <1>1 DEF StreamInv, PhaseInv, LoopTypes
<1>6. WholeState' = Longer(WholeState, stream)
  BY WholeDelivered
<1>7. Left' = stream
  <2>1. Left' = SubSeq(stream, 1, Len(stream))
    BY <1>2, <1>5 DEF Left
  <2> QED BY <1>5, <2>1, SubSeqFull
<1>8. Reaches(Longer(FragmentState, Left), WholeState)'
  <2>1. Longer(FragmentState, Left)' = WholeState'
    BY <1>3, <1>5, <1>6, <1>7 DEF Longer
  <2> QED BY <2>1, ReachesItself
<1>9. Readable(WholeState)'
  <2>1. Readable(WholeState)
    BY DEF StreamInv, LoopTypes
  <2>2. WholeState.pending \o stream \in Seq(Byte)
    BY <1>5, <2>1, ConcatProperties DEF Readable
  <2> QED BY <1>6, <2>1, <2>2 DEF Readable, Longer, State
<1>10. LoopTypes'
  <2>1. wUpdate' \in Outcomes
    BY <1>4 DEF Whole!NoUpdate, Outcomes
  <2> QED BY <1>1, <1>2, <1>9, <2>1 DEF StreamInv, LoopTypes
<1>11. FragmentCall' /\ WholeCall' /\ PhaseInv'
  BY <1>1, <1>2, <1>3, <1>4, <1>5 DEF StreamInv, FragmentCall, WholeCall, PhaseInv
<1> QED BY <1>3, <1>8, <1>10, <1>11 DEF StreamInv, SameInv

\* A turn of a parser is one of a call.
LEMMA TurnsInCalls ==
    /\ Step => running
    /\ Whole!Step => wRunning
<1>1. Step => running
  BY DEF Step, ConsumePattern, OpenWindow, WrapToLowerPage, OpenPage, AwaitCommand, Discard,
         Resynchronize, AwaitData, ReadWindow, ReadPage, ReadLastPage, ReadData, Reading, Scanning
<1>2. Whole!Step => wRunning
  BY DEF Whole!Step, Whole!ConsumePattern, Whole!OpenWindow, Whole!WrapToLowerPage,
         Whole!OpenPage, Whole!AwaitCommand, Whole!Discard, Whole!Resynchronize,
         Whole!AwaitData, Whole!ReadWindow, Whole!ReadPage, Whole!ReadLastPage,
         Whole!ReadData, Whole!Reading, Whole!Scanning
<1> QED BY <1>1, <1>2

\* The whole stream is decoded one turn further, or there is nothing more to decode.
LEMMA WholeTurned ==
    ASSUME StreamInv, WholeStep
    PROVE  \/ Stuck(WholeState) /\ WholeState' = WholeState
           \/ /\ ~Stuck(WholeState) /\ WholeState' = Turn(WholeState)
              /\ ~wRunning' => Present(wUpdate')
<1>1. Whole!Step /\ UNCHANGED <<senderVars, phase, loopVars, parserVars, wCalled, wTotals>>
  BY DEF WholeStep
<1>2. UNCHANGED <<stream, messages, delivered, called, totals, controller, pending, mode, window,
                  framebuffer, sh1106Pages, frameStarted, lastPage, update, running, phase,
                  wCalled, wTotals>>
  BY <1>1 DEF loopVars, parserVars, senderVars
<1>3. wCalled /\ phase = "whole" /\ wUpdate \in Outcomes /\ wTotals \in Totals
  BY <1>1, TurnsInCalls DEF StreamInv, WholeCall, PhaseInv, LoopTypes
<1>4. WholeState = WholeNow(wTotals) /\ Readable(WholeState)
  BY <1>3, FragmentIsNow DEF StreamInv, LoopTypes
<1>5. WholeState' = WholeNow(wTotals)'
  BY <1>2, <1>3 DEF WholeState, WholeCounts, WholeNow
<1>6. wWindow \in Windows
  BY <1>4 DEF WholeNow, State, Readable
<1>7. \/ Stuck(WholeState) /\ WholeState' = WholeState
      \/ /\ ~Stuck(WholeState) /\ WholeState' = Turn(WholeState)
         /\ ~wRunning' => Present(wUpdate')
  <2> DEFINE t == wTotals
  <2>1. \/ Stuck(WholeNow(t)) /\ UNCHANGED <<WholeNow(t), wUpdate>>
        \/ /\ ~Stuck(WholeNow(t)) /\ WholeNow(t)' = Turn(WholeNow(t))
           /\ ~wRunning' => Present(wUpdate')
    <3>1. PICK c \in Totals : c = t
      BY <1>3
    <3>2. \/ Stuck(WholeNow(c)) /\ UNCHANGED <<WholeNow(c), wUpdate>>
          \/ /\ ~Stuck(WholeNow(c)) /\ WholeNow(c)' = Turn(WholeNow(c))
             /\ ~wRunning' => Present(wUpdate')
      BY <1>1, <1>3, <1>6, WholeStepIsTurn
    <3>3. WholeNow(c) = WholeNow(t) /\ WholeNow(c)' = WholeNow(t)'
      BY <1>2, <3>1 DEF WholeNow
    <3> QED BY <3>2, <3>3
  <2> QED BY <1>4, <1>5, <2>1
<1> QED BY <1>7

\* It is what the other parser will decode.
LEMMA WholeStepKeeps ==
    ASSUME StreamInv, WholeStep
    PROVE  StreamInv'
<1>1. Whole!Step /\ UNCHANGED <<senderVars, phase, loopVars, parserVars, wCalled, wTotals>>
  BY DEF WholeStep
<1>2. UNCHANGED <<stream, messages, delivered, called, totals, controller, pending, mode, window,
                  framebuffer, sh1106Pages, frameStarted, lastPage, update, running, phase,
                  wCalled, wTotals>>
  BY <1>1 DEF loopVars, parserVars, senderVars
<1>3. Types' /\ UNCHANGED <<FragmentState, Left>>
  BY <1>2 DEF StreamInv, Types, FlagTypes, StateTypes, PageTypes, RamType, UpdateType, BytesType,
              FragmentState, FragmentCounts, Left
<1>4. wCalled /\ phase = "whole" /\ wUpdate \in Outcomes /\ wTotals \in Totals
  BY <1>1, TurnsInCalls DEF StreamInv, WholeCall, PhaseInv, LoopTypes
<1>5. Readable(WholeState)
  BY DEF StreamInv, LoopTypes
<1>6. wUpdate' \in Outcomes
  BY <1>1, <1>4, WholeOutcomes
<1>7. \/ Stuck(WholeState) /\ WholeState' = WholeState
      \/ /\ ~Stuck(WholeState) /\ WholeState' = Turn(WholeState)
         /\ ~wRunning' => Present(wUpdate')
  BY WholeTurned
<1>8. Readable(WholeState')
  BY <1>5, <1>7, TurnReadable
<1>9. Reaches(Longer(FragmentState, Left), WholeState')
  BY <1>4, <1>7, ReachesTurn DEF StreamInv, SameInv
<1>10. LoopTypes'
  BY <1>2, <1>6, <1>8 DEF StreamInv, LoopTypes
<1>11. WholeCall'
  BY <1>2, <1>4, <1>7 DEF WholeCall
<1>12. FragmentCall' /\ PhaseInv'
  BY <1>2, <1>3, <1>4 DEF StreamInv, FragmentCall, PhaseInv
<1>13. SameInv'
  BY <1>3, <1>9 DEF SameInv
<1> QED BY <1>3, <1>10, <1>11, <1>12, <1>13 DEF StreamInv

\* A call of the whole stream's parser ends, and its update is counted.
LEMMA WholeResumed ==
    ASSUME StreamInv, WholeCounted
    PROVE  WholeState' = WholeState /\ wUpdate' \in Outcomes
<1>1. /\ wCalled /\ ~wRunning /\ wTotals' = Counted(wTotals, wUpdate)
      /\ UNCHANGED <<senderVars, loopVars, parserVars>>
  BY DEF WholeCounted
<1>2. UNCHANGED <<stream, messages, delivered, called, totals, controller, pending, mode, window,
                  framebuffer, sh1106Pages, frameStarted, lastPage, update, running>>
  BY <1>1, SMTT(30) DEF loopVars, parserVars, senderVars
<1>3. /\ phase = "whole" /\ wUpdate \in Outcomes /\ wTotals \in Totals
      /\ wTotals' \in Totals /\ Counted(wTotals', NoUpdate) = wTotals'
      /\ wPending \in Seq(Byte)
  <2>1. phase = "whole" /\ wUpdate \in Outcomes /\ wTotals \in Totals /\ Readable(WholeState)
    BY <1>1, SMTT(30) DEF StreamInv, PhaseInv, LoopTypes
  <2>2. wTotals' \in Totals
    BY <1>1, <2>1, CountedLater
  <2>3. wPending \in Seq(Byte)
    BY <2>1 DEF Readable, WholeState, State
  <2> QED BY <2>1, <2>2, <2>3, CountedLater
<1>4. WholeState' = WholeState /\ wUpdate' \in Outcomes
  <2>1. CASE Present(wUpdate)
    <3>1. Whole!Push(<<>>) /\ UNCHANGED wCalled
      BY <2>1 DEF WholeCounted
    <3>2. /\ wPending' = wPending /\ wUpdate' = NoUpdate
          /\ UNCHANGED <<wMode, wWindow, wFramebuffer, wPages, wStarted, wLast>>
      BY <1>3, <3>1, ConcatEmptySeq DEF Whole!Push, Whole!NoUpdate, NoUpdate
    <3>3. WholeCounts' = WholeCounts
      BY <1>1, <1>3, <3>1, <3>2 DEF WholeCounts
    <3> QED BY <1>2, <3>2, <3>3 DEF WholeState, NoUpdate, Outcomes
  <2>2. CASE ~Present(wUpdate)
    <3>1. /\ ~wCalled' /\ UNCHANGED <<wPending, wMode, wWindow, wFramebuffer, wPages, wStarted,
                                      wLast, wUpdate>>
      BY <2>2 DEF WholeCounted
    <3>2. WholeCounts' = WholeCounts
      BY <1>1, <3>1 DEF WholeCounts
    <3> QED BY <1>2, <1>3, <3>1, <3>2 DEF WholeState
  <2> QED BY <2>1, <2>2
<1> QED BY <1>4

\* There may be another call.
LEMMA WholeCountedKeeps ==
    ASSUME StreamInv, WholeCounted
    PROVE  StreamInv'
<1>1. /\ wCalled /\ ~wRunning /\ wTotals' = Counted(wTotals, wUpdate)
      /\ UNCHANGED <<senderVars, loopVars, parserVars>>
  BY DEF WholeCounted
<1>2. UNCHANGED <<stream, messages, delivered, called, totals, controller, pending, mode, window,
                  framebuffer, sh1106Pages, frameStarted, lastPage, update, running>>
  BY <1>1 DEF loopVars, parserVars, senderVars
<1>3. Types' /\ UNCHANGED <<FragmentState, Left>>
  BY <1>2 DEF StreamInv, Types, FlagTypes, StateTypes, PageTypes, RamType, UpdateType, BytesType,
              FragmentState, FragmentCounts, Left
<1>4. /\ phase = "whole" /\ wUpdate \in Outcomes /\ wTotals \in Totals
      /\ wTotals' \in Totals /\ Counted(wTotals', NoUpdate) = wTotals'
      /\ wPending \in Seq(Byte)
  <2>1. phase = "whole" /\ wUpdate \in Outcomes /\ wTotals \in Totals /\ Readable(WholeState)
    BY <1>1 DEF StreamInv, PhaseInv, LoopTypes
  <2>2. wTotals' \in Totals
    BY <1>1, <2>1, CountedLater
  <2>3. wPending \in Seq(Byte)
    BY <2>1 DEF Readable, WholeState, State
  <2> QED BY <2>1, <2>2, <2>3, CountedLater
<1>5. WholeState' = WholeState /\ wUpdate' \in Outcomes
  BY WholeResumed
<1>6. LoopTypes'
  <2>1. phase' \in {"send", "whole", "fragments"} /\ wCalled' \in BOOLEAN
    BY <1>1, <1>4 DEF WholeCounted
  <2> QED BY <1>2, <1>4, <1>5, <2>1 DEF StreamInv, LoopTypes
<1>7. WholeCall'
  <2>1. CASE Present(wUpdate)
    <3>1. wCalled' /\ wRunning'
      BY <1>1, <2>1 DEF WholeCounted, Whole!Push
    <3> QED BY <3>1 DEF WholeCall
  <2>2. CASE ~Present(wUpdate)
    <3>1. Stuck(WholeState)
      BY <1>1, <2>2 DEF StreamInv, WholeCall
    <3>2. ~wRunning'
      BY <1>1, <2>2 DEF WholeCounted
    <3> QED BY <1>5, <3>1, <3>2 DEF WholeCall
  <2> QED BY <2>1, <2>2
<1>8. FragmentCall' /\ PhaseInv'
  <2>1. \/ phase' = "whole"
        \/ phase' = "fragments" /\ ~wCalled'
    BY <1>4 DEF WholeCounted
  <2> QED BY <1>2, <1>3, <1>4, <2>1 DEF StreamInv, FragmentCall, PhaseInv
<1>9. SameInv'
  BY <1>3, <1>4, <1>5 DEF StreamInv, SameInv
<1> QED BY <1>3, <1>6, <1>7, <1>8, <1>9 DEF StreamInv

\* A fragment goes from the bytes that are left to those that are pending.
LEMMA DeliverKeeps ==
    ASSUME StreamInv, Deliver
    PROVE  StreamInv'
<1>1. /\ phase = "fragments" /\ ~called /\ called'
      /\ UNCHANGED <<senderVars, phase, totals, wholeVars>>
  BY DEF Deliver
<1>2. UNCHANGED <<stream, messages, phase, totals, wPending, wMode, wWindow, wFramebuffer, wPages,
                  wStarted, wLast, wUpdate, wRunning, wCalled, wTotals>>
  BY <1>1 DEF senderVars, wholeVars
<1>3. PICK n \in 1..(Len(stream) - delivered) :
          /\ Push(SubSeq(stream, delivered + 1, delivered + n))
          /\ delivered' = delivered + n
  BY DEF Deliver
<1>4. /\ stream \in Seq(Byte) /\ delivered \in 0..Len(stream) /\ Len(stream) \in Nat
      /\ pending \in Seq(Byte) /\ totals \in Totals /\ phase # "send"
      /\ n \in 0..(Len(stream) - delivered)
  BY <1>1 DEF StreamInv, LoopTypes, Types, BytesType
<1>5. /\ SubSeq(stream, delivered + 1, delivered + n) \in Seq(Byte)
      /\ (pending \o SubSeq(stream, delivered + 1, delivered + n))
            \o SubSeq(stream, delivered + n + 1, Len(stream)) =
         pending \o SubSeq(stream, delivered + 1, Len(stream))
  BY <1>4, LeftMoves
<1>6. /\ pending' = pending \o SubSeq(stream, delivered + 1, delivered + n)
      /\ update' = NoUpdate /\ running'
      /\ UNCHANGED <<controller, mode, window, framebuffer, sh1106Pages, frameStarted, lastPage>>
  BY <1>3 DEF Push
<1>7. Types'
  BY <1>3, <1>5, NextTypes DEF StreamInv
<1>8. FragmentCounts' = totals /\ FragmentCounts = totals
  <2>1. NoUpdate \in Outcomes
    BY DEF NoUpdate, Outcomes
  <2> QED BY <1>1, <1>2, <1>4, <1>6, <2>1, CountedLater DEF FragmentCounts
<1>9. Longer(FragmentState, Left)' = Longer(FragmentState, Left)
  <2>1. Longer(FragmentState, Left) =
           State(controller, pending \o SubSeq(stream, delivered + 1, Len(stream)), mode, window,
                 framebuffer, sh1106Pages, frameStarted, lastPage, totals)
    BY <1>8, LongerState DEF FragmentState, Left
  <2>2. Longer(FragmentState, Left)' =
           State(controller, (pending \o SubSeq(stream, delivered + 1, delivered + n))
                    \o SubSeq(stream, delivered + n + 1, Len(stream)), mode, window,
                 framebuffer, sh1106Pages, frameStarted, lastPage, totals)
    BY <1>2, <1>3, <1>6, <1>8 DEF Longer, State, FragmentState, Left
  <2> QED BY <1>5, <2>1, <2>2
<1>10. WholeState' = WholeState
  BY <1>2, <1>6 DEF WholeState, WholeCounts
<1>11. LoopTypes'
  <2>1. delivered' \in 0..Len(stream)
    BY <1>3, <1>4
  <2> QED BY <1>1, <1>2, <1>10, <2>1 DEF StreamInv, LoopTypes
<1>12. FragmentCall' /\ WholeCall' /\ PhaseInv'
  BY <1>1, <1>2, <1>6, <1>10 DEF StreamInv, FragmentCall, WholeCall, PhaseInv
<1>13. SameInv'
  BY <1>4, <1>9, <1>10 DEF StreamInv, SameInv
<1> QED BY <1>7, <1>11, <1>12, <1>13 DEF StreamInv

\* A turn with the bytes of the fragments is the turn of the whole stream.
LEMMA FragmentStepKeeps ==
    ASSUME StreamInv, FragmentStep
    PROVE  StreamInv'
<1>1. Step /\ UNCHANGED <<senderVars, phase, delivered, called, totals, wholeVars>>
  BY DEF FragmentStep
<1>2. UNCHANGED <<stream, messages, phase, delivered, called, totals, wPending, wMode, wWindow,
                  wFramebuffer, wPages, wStarted, wLast, wUpdate, wRunning, wCalled, wTotals>>
  BY <1>1 DEF senderVars, wholeVars
<1>3. called /\ phase = "fragments" /\ ~wCalled /\ totals \in Totals
  BY <1>1, TurnsInCalls DEF StreamInv, FragmentCall, PhaseInv, LoopTypes
<1>4. Types'
  BY <1>1, NextTypes DEF StreamInv
<1>5. controller' = controller
  BY <1>1 DEF Step, ConsumePattern, OpenWindow, WrapToLowerPage, OpenPage, AwaitCommand, Discard,
         Resynchronize, AwaitData, ReadWindow, ReadPage, ReadLastPage, ReadData
<1>6. UNCHANGED <<WholeState, Left>>
  BY <1>2, <1>5 DEF WholeState, WholeCounts, Left
<1>7. FragmentState = Now(totals) /\ Readable(FragmentState)
  BY <1>3, FragmentIsNow DEF StreamInv
<1>8. FragmentState' = Now(totals)'
  BY <1>2, <1>3 DEF FragmentState, FragmentCounts, Now
<1>9. \/ Stuck(FragmentState) /\ FragmentState' = FragmentState
      \/ /\ ~Stuck(FragmentState) /\ FragmentState' = Turn(FragmentState)
         /\ ~running' => Present(update')
  <2>1. PICK c \in Totals : c = totals
    BY <1>3
  <2>2. \/ Stuck(Now(c)) /\ UNCHANGED <<Now(c), update>>
        \/ /\ ~Stuck(Now(c)) /\ Now(c)' = Turn(Now(c))
           /\ ~running' => Present(update')
    BY <1>1, StepIsTurn DEF StreamInv
  <2>3. Now(c) = Now(totals) /\ Now(c)' = Now(totals)'
    BY <1>2, <2>1 DEF Now
  <2> QED BY <1>7, <1>8, <2>2, <2>3
<1>10. PICK r \in Seq(Byte) : r = Left
  <2>1. Left \in Seq(Byte)
    <3>1. /\ \A i \in delivered + 1..Len(stream) : stream[i] \in Byte
          /\ delivered + 1 \in Int /\ Len(stream) \in Int
      BY DEF StreamInv, LoopTypes
    <3> QED BY <3>1, SubSeqProperties DEF Left
  <2> QED BY <2>1
<1>11. Stuck(WholeState) /\ Reaches(Longer(FragmentState, r), WholeState)
  BY <1>3, <1>10 DEF StreamInv, WholeCall, SameInv
<1>12. Reaches(Longer(FragmentState, r)', WholeState)
  <2>1. CASE FragmentState' = FragmentState
    <3>1. Longer(FragmentState, r)' = Longer(FragmentState, r)
      BY <2>1 DEF Longer
    <3> QED BY <1>11, <3>1
  <2>2. CASE ~Stuck(FragmentState) /\ FragmentState' = Turn(FragmentState)
    <3>1. /\ ~Stuck(Longer(FragmentState, r))
          /\ Turn(Longer(FragmentState, r)) = Longer(Turn(FragmentState), r)
      BY <1>7, <2>2, LongerTurn
    <3>2. Longer(FragmentState, r)' = Longer(Turn(FragmentState), r)
      BY <2>2 DEF Longer
    <3> QED BY <1>11, <3>1, <3>2, ReachedAfterTurn
  <2> QED BY <1>9, <2>1, <2>2
<1>13. SameInv'
  <2>1. Longer(FragmentState, Left)' = Longer(FragmentState, r)'
    BY <1>6, <1>10 DEF Longer
  <2> QED BY <1>6, <1>12, <2>1 DEF SameInv
<1>14. FragmentCall'
  BY <1>2, <1>3, <1>9 DEF FragmentCall
<1>15. LoopTypes' /\ WholeCall' /\ PhaseInv'
  BY <1>2, <1>3, <1>6 DEF StreamInv, LoopTypes, WholeCall, PhaseInv
<1> QED BY <1>4, <1>13, <1>14, <1>15 DEF StreamInv

\* A call for a fragment ends, and there may be another.
LEMMA UpdateCountedKeeps ==
    ASSUME StreamInv, UpdateCounted
    PROVE  StreamInv'
<1>1. /\ called /\ ~running /\ totals' = Counted(totals, update)
      /\ UNCHANGED <<senderVars, phase, delivered, wholeVars>>
  BY DEF UpdateCounted
<1>2. UNCHANGED <<stream, messages, phase, delivered, wPending, wMode, wWindow, wFramebuffer,
                  wPages, wStarted, wLast, wUpdate, wRunning, wCalled, wTotals>>
  BY <1>1, SMTT(30) DEF senderVars, wholeVars
<1>3. /\ phase = "fragments" /\ ~wCalled /\ totals \in Totals /\ update \in Outcomes
      /\ pending \in Seq(Byte) /\ totals' \in Totals /\ Counted(totals', NoUpdate) = totals'
  <2>1. /\ phase = "fragments" /\ ~wCalled /\ totals \in Totals /\ update \in Outcomes
        /\ pending \in Seq(Byte)
    BY <1>1, SMTT(30) DEF StreamInv, PhaseInv, LoopTypes, Types, UpdateType, BytesType, Outcomes
  <2>2. totals' \in Totals
    BY <1>1, <2>1, CountedLater
  <2> QED BY <2>1, <2>2, CountedLater
<1>4. Types' /\ FragmentState' = FragmentState /\ controller' = controller
  <2>1. CASE Present(update)
    <3>1. Push(<<>>) /\ UNCHANGED called
      BY <2>1 DEF UpdateCounted
    <3>2. /\ pending' = pending /\ update' = NoUpdate
          /\ UNCHANGED <<controller, mode, window, framebuffer, sh1106Pages, frameStarted,
                         lastPage>>
      BY <1>3, <3>1, ConcatEmptySeq DEF Push
    <3>3. FragmentCounts' = FragmentCounts
      BY <1>1, <1>3, <3>1, <3>2 DEF FragmentCounts
    <3>4. Types'
      <4>1. << >> \in Seq(Byte)
        OBVIOUS
      <4> QED BY <3>1, <4>1, NextTypes DEF StreamInv
    <3> QED BY <3>2, <3>3, <3>4 DEF FragmentState
  <2>2. CASE ~Present(update)
    <3>1. ~called' /\ UNCHANGED parserVars
      BY <2>2 DEF UpdateCounted
    <3>2. FragmentCounts' = FragmentCounts
      BY <1>1, <3>1 DEF FragmentCounts
    <3>3. Types'
      BY <3>1 DEF parserVars, StreamInv, Types, FlagTypes, StateTypes, PageTypes, RamType,
                  UpdateType, BytesType
    <3> QED BY <3>1, <3>2, <3>3 DEF FragmentState, parserVars
  <2> QED BY <2>1, <2>2
<1>5. UNCHANGED <<WholeState, Left>>
  BY <1>2, <1>4 DEF WholeState, WholeCounts, Left
<1>6. LoopTypes'
  <2>1. called' \in BOOLEAN
    BY <1>1 DEF UpdateCounted
  <2> QED BY <1>2, <1>3, <1>5, <2>1 DEF StreamInv, LoopTypes
<1>7. FragmentCall'
  <2>1. CASE Present(update)
    <3>1. called' /\ running'
      BY <1>1, <2>1 DEF UpdateCounted, Push
    <3> QED BY <3>1 DEF FragmentCall
  <2>2. CASE ~Present(update)
    <3>1. Stuck(FragmentState)
      BY <1>1, <2>2 DEF StreamInv, FragmentCall
    <3>2. ~running'
      BY <1>1, <2>2 DEF UpdateCounted, parserVars
    <3> QED BY <1>4, <3>1, <3>2 DEF FragmentCall
  <2> QED BY <2>1, <2>2
<1>8. WholeCall' /\ PhaseInv'
  BY <1>2, <1>3, <1>5 DEF StreamInv, WholeCall, PhaseInv
<1>9. SameInv'
  BY <1>2, <1>4, <1>5 DEF StreamInv, SameInv, Longer
<1> QED BY <1>4, <1>6, <1>7, <1>8, <1>9 DEF StreamInv

\* Every step keeps the invariant.
LEMMA StreamNext ==
    ASSUME StreamInv, [Next]_vars
    PROVE  StreamInv'
<1>1. CASE SendPattern \/ SendUpdate \/ SendDamaged
  BY <1>1, SendKeeps
<1>2. CASE DeliverWhole
  BY <1>2, DeliverWholeKeeps
<1>3. CASE WholeStep
  BY <1>3, WholeStepKeeps
<1>4. CASE WholeCounted
  BY <1>4, WholeCountedKeeps
<1>5. CASE Deliver
  BY <1>5, DeliverKeeps
<1>6. CASE FragmentStep
  BY <1>6, FragmentStepKeeps
<1>7. CASE UpdateCounted
  BY <1>7, UpdateCountedKeeps
<1>8. CASE UNCHANGED vars
  <2>1. UNCHANGED <<senderVars, phase, loopVars, parserVars, wholeVars>>
    BY <1>8 DEF vars
  <2>2. Types' /\ UNCHANGED <<FragmentState, WholeState, Left>>
    BY <2>1 DEF senderVars, loopVars, parserVars, wholeVars, StreamInv, Types, FlagTypes,
                StateTypes, PageTypes, RamType, UpdateType, BytesType, FragmentState,
                FragmentCounts, WholeState, WholeCounts, Left
  <2> QED BY <2>1, <2>2 DEF senderVars, loopVars, parserVars, wholeVars, StreamInv, LoopTypes,
                            FragmentCall, WholeCall, PhaseInv, SameInv
<1> QED BY <1>1, <1>2, <1>3, <1>4, <1>5, <1>6, <1>7, <1>8 DEF Next

\* When everything is delivered the parser has come to where the other one stopped: there is
\* one way, and both are at its end.
LEMMA StreamSame == StreamInv => FragmentsSameAsWhole
<1> SUFFICES ASSUME StreamInv, AllDelivered PROVE FragmentsSameAsWhole
  BY DEF FragmentsSameAsWhole
<1>1. phase = "fragments" /\ delivered = Len(stream) /\ ~called /\ ~wCalled
  BY DEF AllDelivered, StreamInv, PhaseInv
<1>2. Stuck(FragmentState) /\ Stuck(WholeState) /\ pending \in Seq(Byte)
  BY <1>1 DEF StreamInv, FragmentCall, WholeCall, Types, BytesType
<1>3. Left = <<>>
  <2>1. delivered + 1 \in Int /\ Len(stream) \in Int /\ Len(stream) < delivered + 1
    BY <1>1 DEF StreamInv, LoopTypes
  <2> QED BY <2>1, SubSeqEmpty DEF Left
<1>4. Longer(FragmentState, Left) = FragmentState
  <2>1. pending \o Left = pending
    BY <1>2, <1>3, ConcatEmptySeq
  <2>2. Longer(FragmentState, Left) =
           State(controller, pending \o Left, mode, window, framebuffer, sh1106Pages,
                 frameStarted, lastPage, FragmentCounts)
    BY LongerState DEF FragmentState
  <2> QED BY <2>1, <2>2 DEF FragmentState
<1>5. WholeState = FragmentState
  BY <1>1, <1>2, <1>4, StuckReaches DEF StreamInv, SameInv
<1>6. /\ pending = wPending /\ mode = wMode /\ framebuffer = wFramebuffer
      /\ sh1106Pages = wPages /\ frameStarted = wStarted /\ lastPage = wLast
      /\ FragmentCounts = WholeCounts
  BY <1>5 DEF FragmentState, WholeState, State
<1>7. totals = wTotals
  BY <1>1, <1>6 DEF FragmentCounts, WholeCounts
<1> QED BY <1>6, <1>7 DEF FragmentsSameAsWhole

\* The parser fed by DisplayRuntime::push keeps its types.
THEOREM StreamTypeCorrect == Spec => []TypeOK
<1>1. StreamInv => TypeOK
  BY DEF StreamInv, Types, FlagTypes, StateTypes, PageTypes, RamType, UpdateType, BytesType,
         TypeOK
<1>2. StreamInv /\ [Next]_vars => StreamInv'
  BY StreamNext
<1> QED BY StreamInit, <1>1, <1>2, PTL DEF Spec

\* However a stream of any bytes is cut into pieces, DisplayRuntime::push decodes the same
\* from it, and counts the same.
THEOREM FragmentsHarmless == Spec => []FragmentsSameAsWhole
<1>1. StreamInv /\ [Next]_vars => StreamInv'
  BY StreamNext
<1> QED BY StreamInit, StreamSame, <1>1, PTL DEF Spec

-----------------------------------------------------------------------------
(* What the messages of an undamaged stream decode to. *)

\* The pixels of a message in their rectangle of an image.
Painted(image, w, pixels) ==
    [row \in Rows |-> [column \in Columns |->
        IF row \in w.page..(w.page + w.pages - 1) /\ column \in w.x..EndOf(w)
        THEN pixels[1 + (row - w.page) * w.width + (column - w.x)]
        ELSE image[row][column]]]

\* A column address comes out of its nibbles as it went in.
LEMMA ColumnDecoded ==
    ASSUME NEW s, NEW c \in 0..127
    PROVE  /\ At(s)!DecodeColumn((c + 2) % 16, 16 + (c + 2) \div 16) = c + 2
           /\ (c + 2) % 16 # 64
<1> DEFINE low  == (c + 2) % 16
           high == (c + 2) \div 16
<1>1. low \in 0..15 /\ high \in 0..8 /\ c + 2 = 16 * high + low
  OBVIOUS
<1> HIDE DEF low, high
<1>2. 16 + high \in 16..31 /\ (16 + high - 16) * 16 + low = c + 2 /\ low # 64
  BY <1>1
<1> QED BY <1>1, <1>2 DEF At!DecodeColumn, low, high

\* Seven bytes open a rectangle of the SSD1306.
LEMMA WindowOpens ==
    ASSUME NEW s, Readable(s), s.mode = "Scan", s.controller = "ssd1306", NEW w \in Windows,
           s.pending = <<Command, SetColumns, w.x, EndOf(w), SetPages, w.page,
                         w.page + w.pages - 1>>
    PROVE  /\ ~Stuck(s)
           /\ Turn(s) = State(s.controller, <<>>, "Ssd1306Data", w, s.framebuffer, s.pages,
                              s.started, s.last, s.counts)
<1>1. /\ w.x \in 0..Width - 1 /\ w.width \in 1..Width /\ w.page \in 0..Pages - 1
      /\ w.pages \in 1..Pages /\ w.x + w.width <= Width /\ w.page + w.pages <= Pages
  BY DEF Windows
<1>w. w = [x |-> w.x, width |-> w.width, page |-> w.page, pages |-> w.pages]
  BY DEF Windows
<1>2. /\ Len(s.pending) = 7 /\ s.pending[1] = 0 /\ s.pending[2] = 33 /\ s.pending[3] = w.x
      /\ s.pending[4] = w.x + w.width - 1 /\ s.pending[5] = 34 /\ s.pending[6] = w.page
      /\ s.pending[7] = w.page + w.pages - 1
  BY DEF EndOf
<1>3. At(s)!WindowCommand /\ ~At(s)!PageCommand
  BY <1>2 DEF At!WindowCommand, At!StartsWith, At!PageCommand
<1>4. At(s)!WindowFits
  BY <1>1, <1>2, SizeAssumption DEF At!WindowFits
<1>5. At(s)!Matched = {} /\ ~At(s)!Backward /\ At(s)!Accepted
  BY <1>2, <1>3, <1>4, CommandsDiffer DEF At!Backward, At!Accepted
<1>6. ~Stuck(s) /\ Turn(s) = WindowOpened(s)
  BY <1>5 DEF Stuck, Turn, ScanTurn
<1>7. At(s)!Rest(7) = <<>>
  BY <1>2, SubSeqEmpty DEF At!Rest
<1>8. [x |-> s.pending[3], width |-> s.pending[4] - s.pending[3] + 1,
       page |-> s.pending[6], pages |-> s.pending[7] - s.pending[6] + 1] = w
  <2>1. /\ s.pending[4] - s.pending[3] + 1 = w.width
        /\ s.pending[7] - s.pending[6] + 1 = w.pages
    BY <1>1, <1>2, SizeAssumption
  <2> QED BY <1>2, <1>w, <2>1
<1>9. WindowOpened(s) = State(s.controller, <<>>, "Ssd1306Data", w, s.framebuffer, s.pages,
                              s.started, s.last, s.counts)
  BY <1>7, <1>8 DEF WindowOpened
<1> QED BY <1>6, <1>9

\* The columns of a rectangle.
LEMMA EndInside ==
    ASSUME NEW w \in Windows
    PROVE  EndOf(w) \in 0..127 /\ w.x \in 0..127 /\ EndOf(w) = w.x + w.width - 1
<1>1. w.x \in 0..Width - 1 /\ w.width \in 1..Width /\ w.x + w.width <= Width
  BY DEF Windows
<1>2. \A x \in 0..Width - 1, n \in 1..Width :
          x + n <= Width => x + n - 1 \in 0..127 /\ x \in 0..127
  BY SizeAssumption
<1>3. w.x + w.width - 1 \in 0..127 /\ w.x \in 0..127
  BY <1>1, <1>2
<1> QED BY <1>3 DEF EndOf

\* A page command of the SH1106: what it ends, and what it opens.
PageReady(s, w, taken) ==
    ~At(s)!Backward =>
        /\ ~Stuck(s)
        /\ Turn(s) = State(s.controller, taken, "Sh1106PageData", w, s.framebuffer,
                           IF w.page = 0 THEN {} ELSE s.pages, s.started \/ w.page = 0, w.page,
                           s.counts)

\* Six bytes open a range of a page.
LEMMA PageOpens ==
    ASSUME NEW s, Readable(s), s.mode = "Scan", s.controller = "sh1106", NEW w \in Windows,
           w.pages = 1, s.last \in Rows \union {NoPage},
           s.pending = <<Command, SetPage + w.page,
                         (EndOf(w) + FirstColumn) % 16, 16 + (EndOf(w) + FirstColumn) \div 16,
                         (w.x + FirstColumn) % 16, 16 + (w.x + FirstColumn) \div 16>>
    PROVE  /\ At(s)!Backward <=> s.last # NoPage /\ w.page < s.last
           /\ At(s)!PageCommand
           /\ PageReady(s, w, <<>>)
<1>1. /\ w.x \in 0..Width - 1 /\ w.width \in 1..Width /\ w.page \in 0..Pages - 1
      /\ w.x + w.width <= Width
  BY DEF Windows
<1>w. w = [x |-> w.x, width |-> w.width, page |-> w.page, pages |-> w.pages]
  BY DEF Windows
<1>2. EndOf(w) \in 0..127 /\ w.x \in 0..127 /\ EndOf(w) = w.x + w.width - 1
  BY EndInside
<1>3. /\ Len(s.pending) = 6 /\ s.pending[1] = 0 /\ s.pending[2] = 176 + w.page
      /\ s.pending[3] = (EndOf(w) + 2) % 16 /\ s.pending[4] = 16 + (EndOf(w) + 2) \div 16
      /\ s.pending[5] = (w.x + 2) % 16 /\ s.pending[6] = 16 + (w.x + 2) \div 16
  OBVIOUS
<1>4. At(s)!EndColumn = EndOf(w) + 2 /\ At(s)!StartColumn = w.x + 2 /\ ~At(s)!Legacy
  <2>1. /\ At(s)!EndColumn = At(s)!DecodeColumn((EndOf(w) + 2) % 16, 16 + (EndOf(w) + 2) \div 16)
        /\ At(s)!StartColumn = At(s)!DecodeColumn((w.x + 2) % 16, 16 + (w.x + 2) \div 16)
    BY <1>3 DEF At!EndColumn, At!StartColumn
  <2> QED BY <1>2, <1>3, <2>1, ColumnDecoded DEF At!Legacy
<1>5. At(s)!CommandedPage = w.page
  BY <1>1, <1>3, SizeAssumption DEF At!CommandedPage
<1>6. At(s)!PageCommand
  BY <1>1, <1>3, SizeAssumption DEF At!PageCommand
<1>7. At(s)!PageCommandRead /\ At(s)!PageRangeFits
  BY <1>1, <1>2, <1>3, <1>4, SizeAssumption DEF At!PageCommandRead, At!PageRangeFits
<1>8. At(s)!Backward <=> s.last # NoPage /\ w.page < s.last
  BY <1>2, <1>3, <1>4, <1>5, <1>6 DEF At!Backward
<1>9. At(s)!PageRange = w
  <2>1. /\ At(s)!StartColumn - 2 = w.x
        /\ At(s)!EndColumn - At(s)!StartColumn + 1 = w.width
    <3>1. w.x \in Int /\ w.width \in Int
      BY <1>1, SizeAssumption
    <3>2. \A x, n \in Int : x + 2 - 2 = x /\ x + n - 1 + 2 - (x + 2) + 1 = n
      OBVIOUS
    <3>3. At(s)!EndColumn = w.x + w.width - 1 + 2 /\ At(s)!StartColumn = w.x + 2
      BY <1>2, <1>4
    <3> QED BY <3>1, <3>2, <3>3
  <2> QED BY <1>4, <1>5, <1>w, <2>1 DEF At!PageRange
<1>10. At(s)!Rest(IF At(s)!Legacy THEN 4 ELSE 6) = <<>>
  BY <1>3, <1>4, SubSeqEmpty DEF At!Rest
<1>11. PageReady(s, w, <<>>)
  <2> SUFFICES ASSUME ~At(s)!Backward
               PROVE  /\ ~Stuck(s)
                      /\ Turn(s) = State(s.controller, <<>>, "Sh1106PageData", w, s.framebuffer,
                                         IF w.page = 0 THEN {} ELSE s.pages,
                                         s.started \/ w.page = 0, w.page, s.counts)
    BY DEF PageReady
  <2>1. At(s)!Matched = {} /\ At(s)!Accepted
    BY <1>6, <1>7, CommandsDiffer DEF At!Accepted
  <2>2. ~Stuck(s) /\ Turn(s) = PageOpened(s)
    BY <2>1 DEF Stuck, Turn, ScanTurn
  <2>3. PageOpened(s) = State(s.controller, <<>>, "Sh1106PageData", w, s.framebuffer,
                              IF w.page = 0 THEN {} ELSE s.pages, s.started \/ w.page = 0,
                              w.page, s.counts)
    BY <1>5, <1>9, <1>10 DEF PageOpened
  <2> QED BY <2>2, <2>3
<1> QED BY <1>6, <1>8, <1>11

\* Without a range the pixel data tell: the whole page.
LEMMA LegacyOpens ==
    ASSUME NEW s, Readable(s), s.mode = "Scan", s.controller = "sh1106", NEW w \in Windows,
           w.pages = 1, w.width = Width, s.last \in Rows \union {NoPage},
           s.pending = <<Command, SetPage + w.page, FirstColumn % 16, 16 + FirstColumn \div 16,
                         Data>>
    PROVE  /\ At(s)!Backward <=> s.last # NoPage /\ w.page < s.last
           /\ At(s)!PageCommand
           /\ PageReady(s, w, <<Data>>)
<1>1. /\ w.x = 0 /\ w.page \in 0..Pages - 1
      /\ w = [x |-> 0, width |-> Width, page |-> w.page, pages |-> 1]
  <2>1. /\ w.x \in 0..Width - 1 /\ w.page \in 0..Pages - 1 /\ w.x + Width <= Width
        /\ w = [x |-> w.x, width |-> Width, page |-> w.page, pages |-> 1]
    BY DEF Windows
  <2>2. w.x = 0
    BY <2>1, SizeAssumption
  <2> QED BY <2>1, <2>2
<1>2. /\ Len(s.pending) = 5 /\ s.pending[1] = 0 /\ s.pending[2] = 176 + w.page
      /\ s.pending[3] = 2 /\ s.pending[4] = 16 /\ s.pending[5] = 64
  OBVIOUS
<1>3. At(s)!EndColumn = 2 /\ At(s)!Legacy
  BY <1>2 DEF At!EndColumn, At!DecodeColumn, At!Legacy
<1>4. At(s)!CommandedPage = w.page
  BY <1>1, <1>2, SizeAssumption DEF At!CommandedPage
<1>5. At(s)!PageCommand
  BY <1>1, <1>2, SizeAssumption DEF At!PageCommand
<1>6. At(s)!PageCommandRead /\ At(s)!PageRangeFits
  BY <1>2, <1>3 DEF At!PageCommandRead, At!PageRangeFits
<1>7. At(s)!Backward <=> s.last # NoPage /\ w.page < s.last
  BY <1>2, <1>3, <1>4, <1>5 DEF At!Backward
<1>8. At(s)!PageRange = w
  BY <1>1, <1>3, <1>4 DEF At!PageRange
<1>9. At(s)!Rest(IF At(s)!Legacy THEN 4 ELSE 6) = <<Data>>
  <2>1. SubSeq(s.pending, 5, 5) = <<64>>
    <3> DEFINE q == SubSeq(s.pending, 5, 5)
    <3>1. \A i \in 5..5 : s.pending[i] \in Byte
      BY <1>2 DEF Byte
    <3>2. q \in Seq(Byte) /\ Len(q) = 1 /\ q[1] = s.pending[5]
      BY <3>1, SubSeqProperties
    <3> HIDE DEF q
    <3>3. <<64>> \in Seq(Byte) /\ Len(<<64>>) = 1 /\ <<64>>[1] = 64
      BY DEF Byte
    <3>4. \A i \in 1..Len(q) : q[i] = <<64>>[i]
      BY <1>2, <3>2, <3>3
    <3>5. q = <<64>>
      BY <3>2, <3>3, <3>4, SeqEqual
    <3> QED BY <3>5 DEF q
  <2> QED BY <1>2, <1>3, <2>1 DEF At!Rest
<1>10. PageReady(s, w, <<Data>>)
  <2> SUFFICES ASSUME ~At(s)!Backward
               PROVE  /\ ~Stuck(s)
                      /\ Turn(s) = State(s.controller, <<Data>>, "Sh1106PageData", w,
                                         s.framebuffer, IF w.page = 0 THEN {} ELSE s.pages,
                                         s.started \/ w.page = 0, w.page, s.counts)
    BY DEF PageReady
  <2>1. At(s)!Matched = {} /\ At(s)!Accepted
    BY <1>5, <1>6, CommandsDiffer DEF At!Accepted
  <2>2. ~Stuck(s) /\ Turn(s) = PageOpened(s)
    BY <2>1 DEF Stuck, Turn, ScanTurn
  <2>3. PageOpened(s) = State(s.controller, <<Data>>, "Sh1106PageData", w, s.framebuffer,
                              IF w.page = 0 THEN {} ELSE s.pages, s.started \/ w.page = 0,
                              w.page, s.counts)
    BY <1>4, <1>8, <1>9 DEF PageOpened
  <2> QED BY <2>2, <2>3
<1> QED BY <1>5, <1>7, <1>10

\* Pixel data are written where the command said, all of them.
LEMMA DataTaken ==
    ASSUME NEW s, Readable(s), s.mode # "Scan", NEW pixels \in Seq(Byte),
           s.pending = <<Data>> \o pixels, Len(pixels) = s.window.width * s.window.pages
    PROVE  /\ ~Stuck(s) /\ ~At(s)!Misframed
           /\ At(s)!Rest(At(s)!MessageSize) = <<>>
           /\ At(s)!Filled = Painted(s.framebuffer, s.window, pixels)
<1>1. /\ s.window \in Windows /\ Len(pixels) \in Nat /\ s.pending \in Seq(Byte)
      /\ s.window.width \in Nat /\ s.window.pages \in Nat
  BY DEF Readable, Windows
<1>2. /\ Len(s.pending) = 1 + Len(pixels) /\ s.pending[1] = Data
      /\ \A i \in 1..Len(pixels) : s.pending[1 + i] = pixels[i]
  <2>1. <<Data>> \in Seq(Byte) /\ Len(<<Data>>) = 1 /\ <<Data>>[1] = Data
    BY DEF Byte
  <2>2. /\ Len(s.pending) = 1 + Len(pixels)
        /\ \A i \in 1..1 + Len(pixels) :
              s.pending[i] = IF i <= 1 THEN <<Data>>[i] ELSE pixels[i - 1]
    BY <2>1, ConcatProperties
  <2>3. s.pending[1] = Data
    BY <1>1, <2>1, <2>2
  <2>4. ASSUME NEW i \in 1..Len(pixels) PROVE s.pending[1 + i] = pixels[i]
    <3>1. 1 + i \in 1..1 + Len(pixels) /\ ~(1 + i <= 1) /\ 1 + i - 1 = i
      BY <1>1
    <3> QED BY <2>2, <3>1
  <2> QED BY <2>2, <2>3, <2>4
<1>3. At(s)!MessageSize = Len(s.pending) /\ Len(s.pending) \in Nat /\ Len(s.pending) >= 1
  BY <1>1, <1>2 DEF At!MessageSize
<1>4. s.pending # <<>>
  <2>1. Len(<< >>) = 0
    OBVIOUS
  <2> QED BY <1>3, <2>1
<1>5. At(s)!DataRead /\ ~At(s)!Misframed
  BY <1>2, <1>3, <1>4 DEF At!DataRead, At!Misframed
<1>6. At(s)!Rest(At(s)!MessageSize) = <<>>
  BY <1>3, SubSeqEmpty DEF At!Rest
<1>7. ASSUME NEW row \in Rows, NEW column \in Columns, At(s)!InWindow(row, column)
      PROVE  s.pending[2 + (row - s.window.page) * s.window.width + (column - s.window.x)] =
             pixels[1 + (row - s.window.page) * s.window.width + (column - s.window.x)]
  <2> DEFINE k == (row - s.window.page) * s.window.width
             c == column - s.window.x
  <2>1. 2 + k + c \in 2..s.window.width * s.window.pages + 1
    BY <1>1, <1>7, PixelPlace DEF At!InWindow
  <2>2. k \in Int /\ c \in Int
    <3>1. /\ s.window.page \in Int /\ s.window.x \in Int /\ s.window.width \in Int
          /\ row \in Int /\ column \in Int
      BY <1>1 DEF Windows
    <3>2. row - s.window.page \in Int
      BY <3>1
    <3>3. \A a, b \in Int : a * b \in Int
      OBVIOUS
    <3>4. k \in Int
      BY <3>1, <3>2, <3>3, Zenon
    <3>5. c \in Int
      BY <3>1
    <3> QED BY <3>4, <3>5, Zenon
  <2> HIDE DEF k, c
  <2>3. 1 + k + c \in 1..Len(pixels) /\ 2 + k + c = 1 + (1 + k + c)
    BY <1>1, <2>1, <2>2
  <2> QED BY <1>2, <2>3 DEF k, c
<1>8. At(s)!Filled = Painted(s.framebuffer, s.window, pixels)
  BY <1>7 DEF At!Filled, At!InWindow, Painted, EndOf
<1> QED BY <1>5, <1>6, <1>8 DEF Stuck

\* What a rectangle adds to the counts.
LEMMA ShownCounts ==
    ASSUME NEW t \in Totals, NEW complete
    PROVE  /\ Shown(t, complete) \in Totals /\ Shown(t, complete).discarded = t.discarded
           /\ Shown(t, complete).frames >= t.frames
           /\ complete => Shown(t, complete).frames = t.frames + 1
<1>1. t.frames \in Nat /\ t.discarded \in Nat /\ t.updates \in Nat
  BY DEF Totals
<1>2. PICK u \in Totals : u = [t EXCEPT !.updates = @ + 1]
  <2>1. t.updates + 1 \in Nat
    BY <1>1
  <2> QED BY <2>1 DEF Totals
<1>3. u.frames = t.frames /\ u.discarded = t.discarded
  BY <1>2 DEF Totals
<1>4. PICK k \in Nat : k = (IF complete THEN 1 ELSE 0)
  OBVIOUS
<1>5. Shown(t, complete) = [u EXCEPT !.frames = @ + k]
  BY <1>2, <1>3, <1>4 DEF Shown, Totals
<1>6. u.frames + k \in Nat /\ u.frames + k >= t.frames
  BY <1>1, <1>3
<1> QED BY <1>3, <1>4, <1>5, <1>6 DEF Totals

\* Sequences of bytes one behind the other.
LEMMA Joined == \A a, b, c \in Seq(Byte) : (a \o b) \o c = a \o (b \o c)
  BY ConcatAssociative

\* They stay sequences of bytes.
LEMMA JoinedBytes == \A a, b \in Seq(Byte) : a \o b \in Seq(Byte)
  BY ConcatProperties

\* Nothing in front changes nothing.
LEMMA JoinedEmpty == \A a \in Seq(Byte) : <<>> \o a = a
  BY ConcatEmptySeq

\* A message is its commands and its data, or all but its pixels and these.
LEMMA MessageSplit ==
    \A range, control, pixels, rest \in Seq(Byte) :
        (range \o control \o pixels) \o rest = range \o ((control \o pixels) \o rest)
<1> SUFFICES ASSUME NEW range \in Seq(Byte), NEW control \in Seq(Byte), NEW pixels \in Seq(Byte),
                    NEW rest \in Seq(Byte)
             PROVE  (range \o control \o pixels) \o rest = range \o ((control \o pixels) \o rest)
  OBVIOUS
<1>1. (range \o control) \o pixels = range \o (control \o pixels)
  BY Joined
<1>2. (range \o (control \o pixels)) \o rest = range \o ((control \o pixels) \o rest)
  <2> DEFINE d == control \o pixels
  <2>1. d \in Seq(Byte)
    BY JoinedBytes
  <2> HIDE DEF d
  <2>2. (range \o d) \o rest = range \o (d \o rest)
    BY <2>1, Joined, SMTT(30)
  <2> QED BY <2>2 DEF d
<1> QED BY <1>1, <1>2

\* The same of the control byte for pixel data.
LEMMA DataMessage ==
    \A range, pixels, rest \in Seq(Byte) :
        (range \o <<Data>> \o pixels) \o rest = range \o ((<<Data>> \o pixels) \o rest)
<1> DEFINE e == <<Data>>
<1>1. e \in Seq(Byte)
  BY DEF Byte
<1> HIDE DEF e
<1>2. \A range, pixels, rest \in Seq(Byte) :
         (range \o e \o pixels) \o rest = range \o ((e \o pixels) \o rest)
  BY <1>1, MessageSplit
<1> QED BY <1>2 DEF e

\* More bytes and more.
LEMMA LongerTwice ==
    ASSUME NEW s, Readable(s), NEW a \in Seq(Byte), NEW b \in Seq(Byte)
    PROVE  Longer(Longer(s, a), b) = Longer(s, a \o b) /\ Readable(Longer(s, a))
<1>1. s.pending \in Seq(Byte) /\ (s.pending \o a) \o b = s.pending \o (a \o b)
  <2>1. s.pending \in Seq(Byte)
    BY DEF Readable
  <2> QED BY <2>1, Joined
<1>2. Longer(Longer(s, a), b) = Longer(s, a \o b)
  BY <1>1 DEF Longer, State
<1>3. s.pending \o a \in Seq(Byte)
  BY <1>1, ConcatProperties
<1>4. Readable(Longer(s, a))
  BY <1>3 DEF Readable, Longer, State
<1> QED BY <1>2, <1>4

\* The turn of a state, before the bytes that it does not take.
LEMMA ReachesOn ==
    ASSUME NEW x, NEW s, Readable(s), ~Stuck(s), NEW rest \in Seq(Byte), Reaches(x, Longer(s, rest))
    PROVE  Reaches(x, Longer(Turn(s), rest))
  BY LongerTurn, ReachesTurn

\* A state that is decoded to the end, with what the sender meant by the bytes before: an
\* image, the pages of an SH1106 pass, whole frames.
Meant(g, image, k, n) ==
    /\ Readable(g) /\ g.controller = controller /\ g.pending = <<>> /\ g.mode = "Scan"
    /\ g.framebuffer = image
    /\ g.counts \in Totals /\ g.counts.discarded = 0 /\ g.counts.frames >= n
    /\ g.pages \subseteq Rows /\ g.last \in Rows \union {NoPage} /\ g.started \in BOOLEAN
    /\ controller = "sh1106" /\ k \in 1..Pages - 1 =>
          g.started /\ 0..k - 1 \subseteq g.pages /\ g.last = k - 1

\* From g the bytes lead to h, whatever follows them.
Leads(g, bytes, h) ==
    \A x : \A rest \in Seq(Byte) :
        Reaches(x, Longer(g, bytes \o rest)) => Reaches(x, Longer(h, rest))

\* The state behind a message for a rectangle of the RAM.
MeantAfter(h, w, pixels) ==
    Meant(h, Painted(ram, w, pixels), PassAfter(w), framesSent + (IF EndsFrame(w) THEN 1 ELSE 0))

\* A whole frame of the SSD1306 is one rectangle.
LEMMA WholeRectangle ==
    ASSUME controller = "ssd1306", NEW w \in Windows, EndsFrame(w)
    PROVE  w.x = 0 /\ w.width = Width /\ w.page = 0 /\ w.pages = Pages
<1>1. /\ w.x \in 0..Width - 1 /\ w.width \in 1..Width /\ w.x + w.width <= Width
      /\ w.pages \in 1..Pages
  BY DEF Windows
<1>2. PassAfter(w) = Pages /\ w.page = 0
  BY DEF EndsFrame
<1>3. w.width = Width /\ w.page + w.pages = Pages
  BY <1>1, <1>2, SizeAssumption DEF PassAfter
<1>4. \A x \in 0..Width - 1 : x + Width <= Width => x = 0
  BY SizeAssumption
<1> QED BY <1>1, <1>2, <1>3, <1>4

\* A message to the SSD1306.
LEMMA WindowDecoded ==
    ASSUME controller = "ssd1306", framesSent \in Nat,
           NEW w \in Updates, NEW range \in RangeCommands(w),
           NEW pixels \in Seq(Byte), Len(pixels) = w.width * w.pages,
           NEW g, Meant(g, ram, pass, framesSent)
    PROVE  \E h : MeantAfter(h, w, pixels) /\ Leads(g, range \o <<Data>> \o pixels, h)
<1> DEFINE d  == <<Data>> \o pixels
           c0 == Longer(g, range)
           c1 == Turn(c0)
           c2 == Longer(c1, d)
           whole == w.x = 0 /\ w.width = Width /\ w.page = 0 /\ w.pages = Pages
           h  == State(controller, <<>>, "Scan", w, Painted(ram, w, pixels), g.pages, g.started,
                       g.last, Shown(g.counts, whole))
<1>1. /\ w \in Windows /\ range \in Seq(Byte) /\ d \in Seq(Byte) /\ <<Data>> \in Seq(Byte)
  <2>1. <<Data>> \in Seq(Byte)
    BY DEF Byte
  <2>2. d \in Seq(Byte)
    BY <2>1, ConcatProperties
  <2>3. w \in Windows /\ range \in Seq(Byte)
    BY CommandBytes
  <2> QED BY <2>1, <2>2, <2>3
<1>a. range = <<Command, SetColumns, w.x, EndOf(w), SetPages, w.page, w.page + w.pages - 1>>
  BY DEF RangeCommands
<1> HIDE DEF d
<1>2. /\ Readable(g) /\ g.pending = <<>> /\ g.controller = controller /\ g.mode = "Scan"
      /\ g.framebuffer = ram /\ g.counts \in Totals
  BY DEF Meant
<1>3. /\ c0 = State(controller, range, "Scan", g.window, ram, g.pages, g.started, g.last, g.counts)
      /\ Readable(c0)
  <2>1. <<>> \o range = range
    BY <1>1, ConcatEmptySeq
  <2> QED BY <1>1, <1>2, <2>1, LongerTwice DEF Longer
<1>4. /\ c0.mode = "Scan" /\ c0.controller = "ssd1306" /\ c0.pending = range
      /\ c0.framebuffer = ram /\ c0.pages = g.pages /\ c0.started = g.started
      /\ c0.last = g.last /\ c0.counts = g.counts
  BY <1>3, StateParts
<1> HIDE DEF c0
<1>5. /\ ~Stuck(c0) /\ Readable(c1)
      /\ c1 = State(controller, <<>>, "Ssd1306Data", w, ram, g.pages, g.started, g.last, g.counts)
  <2>1. c0.pending = <<Command, SetColumns, w.x, EndOf(w), SetPages, w.page,
                       w.page + w.pages - 1>>
    BY <1>a, <1>4
  <2>2. /\ ~Stuck(c0)
        /\ Turn(c0) = State(c0.controller, <<>>, "Ssd1306Data", w, c0.framebuffer, c0.pages,
                            c0.started, c0.last, c0.counts)
    BY <1>1, <1>3, <1>4, <2>1, WindowOpens
  <2>3. Readable(c1)
    BY <1>3, <2>2, TurnReadable
  <2> QED BY <1>4, <2>2, <2>3
<1> HIDE DEF c1
<1>6. /\ c2 = State(controller, d, "Ssd1306Data", w, ram, g.pages, g.started, g.last, g.counts)
      /\ Readable(c2)
  <2> DEFINE e == <<>>
  <2>1. e \o d = d
    BY <1>1, JoinedEmpty
  <2>2. c1 = State(controller, e, "Ssd1306Data", w, ram, g.pages, g.started, g.last, g.counts)
    BY <1>5
  <2> HIDE DEF e
  <2>3. c2 = State(controller, e \o d, "Ssd1306Data", w, ram, g.pages, g.started, g.last,
                   g.counts)
    BY <2>2, LongerState
  <2> QED BY <1>1, <1>5, <2>1, <2>3, LongerTwice
<1>7. /\ c2.mode = "Ssd1306Data" /\ c2.controller = controller /\ c2.pending = d /\ c2.window = w
      /\ c2.framebuffer = ram /\ c2.pages = g.pages /\ c2.started = g.started
      /\ c2.last = g.last /\ c2.counts = g.counts
  BY <1>6, StateParts
<1> HIDE DEF c2
<1>8. /\ ~Stuck(c2) /\ ~At(c2)!Misframed /\ At(c2)!Rest(At(c2)!MessageSize) = <<>>
      /\ At(c2)!Filled = Painted(ram, w, pixels)
  BY <1>6, <1>7, DataTaken, ZenonT(60) DEF d
<1>9. Turn(c2) = h
  <2>1. Turn(c2) = WindowTaken(c2)
    BY <1>7, <1>8 DEF Turn, DataTurn
  <2>2. (At(c2)!FullWidth /\ w.page = 0 /\ w.pages = Pages) <=> whole
    BY <1>7 DEF At!FullWidth
  <2>3. Shown(g.counts, At(c2)!FullWidth /\ w.page = 0 /\ w.pages = Pages) =
        Shown(g.counts, whole)
    BY <2>2 DEF Shown
  <2> QED BY <1>7, <1>8, <2>1, <2>3 DEF WindowTaken
<1>10. Readable(h)
  BY <1>6, <1>8, <1>9, TurnReadable
<1>11. MeantAfter(h, w, pixels)
  <2>1. /\ h.controller = controller /\ h.pending = <<>> /\ h.mode = "Scan"
        /\ h.framebuffer = Painted(ram, w, pixels) /\ h.pages = g.pages
        /\ h.started = g.started /\ h.last = g.last /\ h.counts = Shown(g.counts, whole)
    BY StateParts
  <2>2. EndsFrame(w) => whole
    BY <1>1, WholeRectangle
  <2>3. /\ g.counts.discarded = 0 /\ g.counts.frames >= framesSent /\ g.counts.frames \in Nat
        /\ g.pages \subseteq Rows /\ g.last \in Rows \union {NoPage} /\ g.started \in BOOLEAN
    BY <1>2 DEF Meant, Totals
  <2>4. h.counts \in Totals /\ h.counts.discarded = 0 /\ h.counts.frames \in Nat
    <3>1. Shown(g.counts, whole) \in Totals /\ Shown(g.counts, whole).discarded = 0
      BY <1>2, <2>3, ShownCounts
    <3>2. Shown(g.counts, whole).frames \in Nat
      BY <3>1 DEF Totals
    <3> QED BY <2>1, <3>1, <3>2
  <2>5. h.counts.frames >= framesSent + (IF EndsFrame(w) THEN 1 ELSE 0)
    <3> HIDE DEF whole
    <3>1. h.counts.frames >= g.counts.frames /\ (whole => h.counts.frames = g.counts.frames + 1)
      BY <1>2, <2>1, ShownCounts, SMTT(30)
    <3> QED BY <2>2, <2>3, <2>4, <3>1
  <2> HIDE DEF h
  <2> QED BY <1>10, <2>1, <2>3, <2>4, <2>5 DEF MeantAfter, Meant
<1>b. ASSUME NEW r \in Seq(Byte)
      PROVE  (range \o <<Data>> \o pixels) \o r = range \o (d \o r) /\ d \o r \in Seq(Byte)
  <2>1. range \in Seq(Byte) /\ d \in Seq(Byte)
    BY <1>1
  <2>2. d = <<Data>> \o pixels
    BY DEF d
  <2>3. d \o r \in Seq(Byte)
    BY <2>1, JoinedBytes
  <2>4. (range \o <<Data>> \o pixels) \o r = range \o ((<<Data>> \o pixels) \o r)
    <3> DEFINE joined(a, b, c) == (a \o <<Data>> \o b) \o c
               parts(a, b, c) == a \o ((<<Data>> \o b) \o c)
    <3>1. \A a, b, c \in Seq(Byte) : joined(a, b, c) = parts(a, b, c)
      BY DataMessage
    <3> HIDE DEF joined, parts
    <3>2. joined(range, pixels, r) = parts(range, pixels, r)
      BY <2>1, <3>1
    <3> QED BY <3>2 DEF joined, parts
  <2> QED BY <2>2, <2>3, <2>4
<1>12. Leads(g, range \o <<Data>> \o pixels, h)
  <2> SUFFICES ASSUME NEW x, NEW r \in Seq(Byte),
                      Reaches(x, Longer(g, (range \o <<Data>> \o pixels) \o r))
               PROVE  Reaches(x, Longer(h, r))
    BY DEF Leads
  <2>1. (range \o <<Data>> \o pixels) \o r = range \o (d \o r) /\ d \o r \in Seq(Byte)
    BY <1>b
  <2>3. Reaches(x, Longer(c0, d \o r))
    <3>1. Longer(Longer(g, range), d \o r) = Longer(g, range \o (d \o r))
      BY <1>1, <1>2, <2>1, LongerTwice
    <3> QED BY <2>1, <3>1 DEF c0
  <2>4. Reaches(x, Longer(c1, d \o r))
    BY <1>3, <1>5, <2>1, <2>3, ReachesOn DEF c1
  <2>5. Reaches(x, Longer(c2, r))
    BY <1>1, <1>5, <2>4, LongerTwice DEF c2
  <2> QED BY <1>6, <1>8, <1>9, <2>5, ReachesOn
<1> QED BY <1>11, <1>12
\* The state behind the command for a page.
PageAwaited(c, w, bytes, pages, started, t) ==
    c = State(controller, bytes, "Sh1106PageData", w, ram, IF w.page = 0 THEN {} ELSE pages,
              started \/ w.page = 0, w.page, t)

\* A page of the SH1106 is written: the pass goes on, ends or is given up.
LEMMA PageShown ==
    ASSUME controller = "sh1106", framesSent \in Nat, pass \in Nat,
           NEW w \in Windows, w.pages = 1,
           NEW pixels \in Seq(Byte), Len(pixels) = w.width * w.pages,
           NEW pages \in SUBSET Rows, NEW started \in BOOLEAN,
           NEW t \in Totals, t.discarded = 0, t.frames >= framesSent,
           pass \in 1..Pages - 1 /\ w.page = pass => started /\ 0..pass - 1 \subseteq pages,
           NEW c, Readable(c), PageAwaited(c, w, <<Data>> \o pixels, pages, started, t)
    PROVE  ~Stuck(c) /\ MeantAfter(Turn(c), w, pixels)
<1> DEFINE before == IF w.page = 0 THEN {} ELSE pages
           begun  == started \/ w.page = 0
           all    == IF w.x = 0 /\ w.width = Width THEN before \union {w.page} ELSE before
           d      == <<Data>> \o pixels
<1>1. /\ w.x \in 0..Width - 1 /\ w.width \in 1..Width /\ w.page \in 0..Pages - 1
      /\ w.x + w.width <= Width
  BY DEF Windows
<1>2. before \in SUBSET Rows /\ begun \in BOOLEAN /\ all \in SUBSET Rows
  BY <1>1
<1>3. w.width = Width => w.x = 0
  <2>1. \A x \in 0..Width - 1 : x + Width <= Width => x = 0
    BY SizeAssumption
  <2> QED BY <1>1, <2>1
\* The pages from 0 on are there when the pass has come to this one.
<1>4. PassAfter(w) # 0 => begun /\ 0..w.page \subseteq all
  <2> SUFFICES ASSUME PassAfter(w) # 0 PROVE begun /\ 0..w.page \subseteq all
    OBVIOUS
  <2>1. w.width = Width /\ w.page = (IF w.page = 0 THEN 0 ELSE pass)
    BY DEF PassAfter
  <2>2. CASE w.page = 0
    <3>1. 0..w.page = {0}
      BY <2>2
    <3> QED BY <1>3, <2>1, <2>2, <3>1
  <2>3. CASE w.page # 0
    <3>1. pass \in 1..Pages - 1 /\ w.page = pass
      BY <1>1, <2>1, <2>3, SizeAssumption
    <3>2. started /\ 0..pass - 1 \subseteq pages
      BY <3>1
    <3>3. \A i \in 0..w.page : i \in 0..pass - 1 \/ i = w.page
      BY <3>1, SizeAssumption
    <3> QED BY <1>3, <2>1, <2>3, <3>2, <3>3
  <2> QED BY <2>2, <2>3
<1>5. PassAfter(w) = 0 \/ PassAfter(w) = w.page + 1
  BY DEF PassAfter
<1> HIDE DEF before, begun
<1>6. c = State(controller, d, "Sh1106PageData", w, ram, before, begun, w.page, t)
  BY DEF before, begun, PageAwaited
<1>7. /\ c.mode = "Sh1106PageData" /\ c.controller = controller /\ c.pending = d /\ c.window = w
      /\ c.framebuffer = ram /\ c.pages = before /\ c.started = begun
      /\ c.last = w.page /\ c.counts = t
  <2> HIDE DEF d
  <2> QED BY <1>6, StateParts
<1>8. /\ ~Stuck(c) /\ ~At(c)!Misframed /\ At(c)!Rest(At(c)!MessageSize) = <<>>
      /\ At(c)!Filled = Painted(ram, w, pixels)
  <2>1. c.pending = <<Data>> \o pixels /\ Len(pixels) = c.window.width * c.window.pages
    BY <1>7
  <2> HIDE DEF d
  <2>2. /\ ~Stuck(c) /\ ~At(c)!Misframed /\ At(c)!Rest(At(c)!MessageSize) = <<>>
        /\ At(c)!Filled = Painted(c.framebuffer, c.window, pixels)
    <3>1. c.mode # "Scan"
      BY <1>7
    <3> QED BY <2>1, <3>1, DataTaken
  <2> QED BY <1>7, <2>2
<1> HIDE DEF d
<1>9. At(c)!PagesWritten = all
  <2>1. At(c)!FullWidth <=> w.x = 0 /\ w.width = Width
    BY <1>7 DEF At!FullWidth
  <2>2. At(c)!PagesWritten = IF At(c)!FullWidth THEN before \union {w.page} ELSE before
    BY <1>7 DEF At!PagesWritten
  <2> QED BY <2>1, <2>2
<1>10. Readable(Turn(c))
  BY <1>8, TurnReadable
<1>11. CASE w.page < Pages - 1
  <2> DEFINE counts == Shown(t, FALSE)
  <2>1. Turn(c) = State(controller, <<>>, "Scan", w, Painted(ram, w, pixels), all, begun, w.page,
                        counts)
    <3> HIDE DEF all, counts
    <3>1. Turn(c) = PageTaken(c)
      BY <1>7, <1>8, <1>11 DEF Turn, DataTurn
    <3>2. counts = Shown(c.counts, FALSE)
      BY <1>7 DEF counts
    <3>3. PageTaken(c) =
             State(c.controller, At(c)!Rest(At(c)!MessageSize), "Scan", c.window, At(c)!Filled,
                   At(c)!PagesWritten, c.started, c.last, counts)
      BY <3>2 DEF PageTaken
    <3> QED BY <1>7, <1>8, <1>9, <3>1, <3>3
  <2>2. counts \in Totals /\ counts.discarded = 0 /\ counts.frames >= framesSent
    <3> DEFINE no == FALSE
    <3>1. counts = Shown(t, no)
      OBVIOUS
    <3> HIDE DEF no, counts
    <3>2. /\ counts \in Totals /\ counts.discarded = t.discarded /\ counts.frames >= t.frames
      BY <3>1, ShownCounts
    <3>3. counts.frames \in Nat /\ t.frames \in Nat
      BY <3>2 DEF Totals
    <3> QED BY <3>2, <3>3
  <2>3. ~EndsFrame(w)
    BY <1>1, <1>5, <1>11, SizeAssumption DEF EndsFrame
  <2> DEFINE h == Turn(c)
             e == <<>>
  <2>4. h = State(controller, e, "Scan", w, Painted(ram, w, pixels), all, begun, w.page, counts)
    BY <2>1
  <2> HIDE DEF h, e, counts, all
  <2>5. /\ h.controller = controller /\ h.pending = e /\ h.mode = "Scan"
        /\ h.framebuffer = Painted(ram, w, pixels) /\ h.pages = all
        /\ h.started = begun /\ h.last = w.page /\ h.counts = counts
    BY <2>4, StateParts
  <2>6. PassAfter(w) \in 1..Pages - 1 =>
            begun /\ 0..PassAfter(w) - 1 \subseteq all /\ w.page = PassAfter(w) - 1
    <3> SUFFICES ASSUME PassAfter(w) \in 1..Pages - 1
                 PROVE  begun /\ 0..PassAfter(w) - 1 \subseteq all /\ w.page = PassAfter(w) - 1
      OBVIOUS
    <3>1. PassAfter(w) = w.page + 1 /\ PassAfter(w) # 0
      BY <1>5
    <3>2. PassAfter(w) - 1 = w.page
      BY <1>1, <3>1, SizeAssumption
    <3> QED BY <1>4, <3>1, <3>2
  <2>7. framesSent + (IF EndsFrame(w) THEN 1 ELSE 0) = framesSent
    BY <2>3
  <2>8. Readable(h)
    BY <1>10 DEF h
  <2>9. MeantAfter(h, w, pixels)
    BY <1>1, <1>2, <2>2, <2>5, <2>6, <2>7, <2>8 DEF MeantAfter, Meant, e
  <2> QED BY <1>8, <2>9 DEF h
<1>12. CASE ~(w.page < Pages - 1)
  <2> DEFINE whole  == begun /\ all = Rows
             counts == Shown(t, whole)
             no     == FALSE
             none   == {}
             e      == <<>>
             h      == Turn(c)
  <2>1. h = State(controller, e, "Scan", w, Painted(ram, w, pixels), none, no, NoPage, counts)
    <3>1. Turn(c) = LastPageTaken(c)
      BY <1>7, <1>8, <1>12 DEF Turn, DataTurn
    <3>2. counts = Shown(c.counts, c.started /\ At(c)!PagesWritten = Rows)
      <4>1. (c.started /\ At(c)!PagesWritten = Rows) <=> whole
        BY <1>7, <1>9
      <4> HIDE DEF whole
      <4> QED BY <1>7, <4>1 DEF Shown
    <3> HIDE DEF all, counts, whole
    <3>3. LastPageTaken(c) =
             State(c.controller, At(c)!Rest(At(c)!MessageSize), "Scan", c.window, At(c)!Filled,
                   none, no, NoPage, counts)
      BY <3>2 DEF LastPageTaken
    <3>4. At(c)!Rest(At(c)!MessageSize) = e
      BY <1>8
    <3> HIDE DEF e, no, none
    <3> QED BY <1>7, <1>8, <3>1, <3>3, <3>4
  <2>2. w.page = Pages - 1
    BY <1>1, <1>12, SizeAssumption
  <2>3. EndsFrame(w) => whole
    <3> SUFFICES ASSUME EndsFrame(w) PROVE whole
      OBVIOUS
    <3>1. PassAfter(w) = Pages /\ PassAfter(w) # 0
      BY SizeAssumption DEF EndsFrame
    <3>2. begun /\ 0..w.page \subseteq all
      BY <1>4, <3>1
    <3> QED BY <1>2, <2>2, <3>2
  <2> HIDE DEF whole
  <2>4. /\ counts \in Totals /\ counts.discarded = 0
        /\ counts.frames >= framesSent + (IF EndsFrame(w) THEN 1 ELSE 0)
    <3>1. /\ counts \in Totals /\ counts.discarded = t.discarded /\ counts.frames >= t.frames
          /\ whole => counts.frames = t.frames + 1
      BY ShownCounts
    <3> HIDE DEF counts
    <3>2. counts.frames \in Nat /\ t.frames \in Nat
      BY <3>1 DEF Totals
    <3> QED BY <2>3, <3>1, <3>2
  <2>5. ~(PassAfter(w) \in 1..Pages - 1)
    BY <1>5, <2>2, SizeAssumption
  <2>6. Readable(h)
    BY <1>10
  <2> HIDE DEF h, e, counts, no, none
  <2>7. /\ h.controller = controller /\ h.pending = e /\ h.mode = "Scan"
        /\ h.framebuffer = Painted(ram, w, pixels) /\ h.pages = none
        /\ h.started = no /\ h.last = NoPage /\ h.counts = counts
    BY <2>1, StateParts
  <2>8. MeantAfter(h, w, pixels)
    BY <2>4, <2>5, <2>6, <2>7 DEF MeantAfter, Meant, e, no, none
  <2> QED BY <1>8, <2>8 DEF h
<1> QED BY <1>11, <1>12
\* Two bytes and two.
LEMMA PairsJoined ==
    ASSUME NEW a \in Byte, NEW b \in Byte, NEW c \in Byte, NEW d \in Byte
    PROVE  <<a, b>> \o <<c, d>> = <<a, b, c, d>>
<1> DEFINE p == <<a, b>>
           q == <<c, d>>
           t == <<a, b, c, d>>
           s == p \o q
<1>1. /\ p \in Seq(Byte) /\ Len(p) = 2 /\ p[1] = a /\ p[2] = b
      /\ q \in Seq(Byte) /\ Len(q) = 2 /\ q[1] = c /\ q[2] = d
      /\ t \in Seq(Byte) /\ Len(t) = 4
      /\ t[1] = a /\ t[2] = b /\ t[3] = c /\ t[4] = d
  OBVIOUS
<1> HIDE DEF p, q, t
<1>2. /\ s \in Seq(Byte) /\ Len(s) = 4
      /\ \A i \in 1..4 : s[i] = IF i <= 2 THEN p[i] ELSE q[i - 2]
  <2>1. /\ s \in Seq(Byte) /\ Len(s) = Len(p) + Len(q)
        /\ \A i \in 1..Len(p) + Len(q) : s[i] = IF i <= Len(p) THEN p[i] ELSE q[i - Len(p)]
    BY <1>1, ConcatProperties
  <2> HIDE DEF s
  <2> QED BY <1>1, <2>1
<1> HIDE DEF s
<1>3. \A i \in 1..4 : s[i] = t[i]
  BY <1>1, <1>2
<1>4. s = t
  BY <1>1, <1>2, <1>3, SeqEqual
<1> QED BY <1>4 DEF p, q, s, t

\* Four bytes and two.
LEMMA PairAdded ==
    ASSUME NEW a \in Byte, NEW b \in Byte, NEW c \in Byte, NEW d \in Byte,
           NEW e \in Byte, NEW f \in Byte
    PROVE  <<a, b, c, d>> \o <<e, f>> = <<a, b, c, d, e, f>>
<1> DEFINE p == <<a, b, c, d>>
           q == <<e, f>>
           t == <<a, b, c, d, e, f>>
           s == p \o q
<1>1. /\ p \in Seq(Byte) /\ Len(p) = 4 /\ p[1] = a /\ p[2] = b /\ p[3] = c /\ p[4] = d
      /\ q \in Seq(Byte) /\ Len(q) = 2 /\ q[1] = e /\ q[2] = f
      /\ t \in Seq(Byte) /\ Len(t) = 6
      /\ t[1] = a /\ t[2] = b /\ t[3] = c /\ t[4] = d /\ t[5] = e /\ t[6] = f
  OBVIOUS
<1> HIDE DEF p, q, t
<1>2. /\ s \in Seq(Byte) /\ Len(s) = 6
      /\ \A i \in 1..6 : s[i] = IF i <= 4 THEN p[i] ELSE q[i - 4]
  <2>1. /\ s \in Seq(Byte) /\ Len(s) = Len(p) + Len(q)
        /\ \A i \in 1..Len(p) + Len(q) : s[i] = IF i <= Len(p) THEN p[i] ELSE q[i - Len(p)]
    BY <1>1, ConcatProperties
  <2> HIDE DEF s
  <2> QED BY <1>1, <2>1
<1> HIDE DEF s
<1>3. \A i \in 1..6 : s[i] = t[i]
  BY <1>1, <1>2
<1>4. s = t
  BY <1>1, <1>2, <1>3, SeqEqual
<1> QED BY <1>4 DEF p, q, s, t

\* Four bytes and one.
LEMMA ByteAdded ==
    ASSUME NEW a \in Byte, NEW b \in Byte, NEW c \in Byte, NEW d \in Byte, NEW e \in Byte
    PROVE  <<a, b, c, d>> \o <<e>> = <<a, b, c, d, e>>
<1> DEFINE p == <<a, b, c, d>>
           q == <<e>>
           t == <<a, b, c, d, e>>
           s == p \o q
<1>1. /\ p \in Seq(Byte) /\ Len(p) = 4 /\ p[1] = a /\ p[2] = b /\ p[3] = c /\ p[4] = d
      /\ q \in Seq(Byte) /\ Len(q) = 1 /\ q[1] = e
      /\ t \in Seq(Byte) /\ Len(t) = 5
      /\ t[1] = a /\ t[2] = b /\ t[3] = c /\ t[4] = d /\ t[5] = e
  OBVIOUS
<1> HIDE DEF p, q, t
<1>2. /\ s \in Seq(Byte) /\ Len(s) = 5
      /\ \A i \in 1..5 : s[i] = IF i <= 4 THEN p[i] ELSE q[i - 4]
  <2>1. /\ s \in Seq(Byte) /\ Len(s) = Len(p) + Len(q)
        /\ \A i \in 1..Len(p) + Len(q) : s[i] = IF i <= Len(p) THEN p[i] ELSE q[i - Len(p)]
    BY <1>1, ConcatProperties
  <2> HIDE DEF s
  <2> QED BY <1>1, <2>1
<1> HIDE DEF s
<1>3. \A i \in 1..5 : s[i] = t[i]
  BY <1>1, <1>2
<1>4. s = t
  BY <1>1, <1>2, <1>3, SeqEqual
<1> QED BY <1>4 DEF p, q, s, t
\* The commands of the SH1106: six bytes with the range, four for a whole page.
LEMMA PageCommands ==
    ASSUME controller = "sh1106", NEW w \in Updates, NEW range \in RangeCommands(w)
    PROVE  \/ range = <<Command, SetPage + w.page,
                        (EndOf(w) + FirstColumn) % 16, 16 + (EndOf(w) + FirstColumn) \div 16,
                        (w.x + FirstColumn) % 16, 16 + (w.x + FirstColumn) \div 16>>
           \/ /\ w.width = Width
              /\ range \o <<Data>> = <<Command, SetPage + w.page, FirstColumn % 16,
                                       16 + FirstColumn \div 16, Data>>
<1> DEFINE low(c)    == (c + 2) % 16
           high(c)   == 16 + (c + 2) \div 16
           column(c) == <<low(c), high(c)>>
           p         == 176 + w.page
           page      == <<0, p>>
<1>1. /\ EndOf(w) \in 0..127 /\ w.x \in 0..127 /\ p \in Byte /\ 0 \in Byte /\ 64 \in Byte
  <2>1. w \in Windows
    BY CommandBytes
  <2>2. w.page \in 0..Pages - 1
    BY <2>1 DEF Windows
  <2>3. \A i \in 0..Pages - 1 : 176 + i \in Byte
    BY SizeAssumption DEF Byte
  <2> QED BY <2>1, <2>2, <2>3, EndInside DEF Byte
<1>2. \A c \in 0..127 : low(c) \in Byte /\ high(c) \in Byte
  <2>1. \A c \in 0..127 : (c + 2) % 16 \in 0..15 /\ (c + 2) \div 16 \in 0..8
    OBVIOUS
  <2> QED BY <2>1 DEF Byte
<1>3. \/ range = page \o column(EndOf(w)) \o column(w.x)
      \/ w.width = Width /\ range = page \o column(0)
  BY DEF RangeCommands
<1>4. low(0) = 2 /\ high(0) = 16 /\ 2 % 16 = 2 /\ 16 + 2 \div 16 = 16
  OBVIOUS
<1> HIDE DEF low, high, p
<1>5. CASE range = page \o column(EndOf(w)) \o column(w.x)
  <2>1. /\ low(EndOf(w)) \in Byte /\ high(EndOf(w)) \in Byte
        /\ low(w.x) \in Byte /\ high(w.x) \in Byte
    BY <1>1, <1>2
  <2>2. page \o column(EndOf(w)) = <<0, p, low(EndOf(w)), high(EndOf(w))>>
    BY <1>1, <2>1, PairsJoined
  <2>3. range = <<0, p, low(EndOf(w)), high(EndOf(w)), low(w.x), high(w.x)>>
    <3> DEFINE four == <<0, p, low(EndOf(w)), high(EndOf(w))>>
               last == column(w.x)
    <3>1. four \o last = <<0, p, low(EndOf(w)), high(EndOf(w)), low(w.x), high(w.x)>>
      BY <1>1, <2>1, PairAdded
    <3>2. range = four \o last
      BY <1>5, <2>2
    <3> HIDE DEF four, last
    <3> QED BY <3>1, <3>2
  <2> QED BY <2>3 DEF low, high, p
<1>6. CASE w.width = Width /\ range = page \o column(0)
  <2>1. range = <<0, p, low(0), high(0)>>
    BY <1>1, <1>2, <1>6, PairsJoined
  <2>2. range \o <<64>> = <<0, p, low(0), high(0), 64>>
    <3> DEFINE four == <<0, p, low(0), high(0)>>
    <3>1. low(0) \in Byte /\ high(0) \in Byte
      BY <1>2
    <3>2. four \o <<64>> = <<0, p, low(0), high(0), 64>>
      BY <1>1, <3>1, ByteAdded
    <3> HIDE DEF four
    <3> QED BY <2>1, <3>2 DEF four
  <2> QED BY <1>4, <1>6, <2>2 DEF p
<1> QED BY <1>3, <1>5, <1>6

\* A state with a command at its front, and what opens with that.
Asked(c, front) ==
    /\ Readable(c) /\ c.controller = controller /\ c.mode = "Scan" /\ c.pending = front
    /\ c.framebuffer = ram /\ c.pages \in SUBSET Rows /\ c.started \in BOOLEAN
    /\ c.last \in Rows \union {NoPage}

Opens(c, w, taken) ==
    /\ At(c)!Backward <=> c.last # NoPage /\ w.page < c.last
    /\ At(c)!PageCommand
    /\ PageReady(c, w, taken)

\* What the command leaves and what follows it are the pixel data.
DataBehind(taken, back, pixels) == taken \o back = <<Data>> \o pixels

\* A message to the SH1106: a page before the last one ends a frame first.
LEMMA PageLeads ==
    ASSUME controller = "sh1106", framesSent \in Nat, pass \in Nat,
           NEW w \in Windows, w.pages = 1,
           NEW pixels \in Seq(Byte), Len(pixels) = w.width * w.pages,
           NEW g, Meant(g, ram, pass, framesSent),
           NEW front \in Seq(Byte), NEW taken \in Seq(Byte), NEW back \in Seq(Byte),
           DataBehind(taken, back, pixels),
           \A c : Asked(c, front) => Opens(c, w, taken)
    PROVE  \E h : MeantAfter(h, w, pixels) /\ Leads(g, front \o back, h)
<1> DEFINE c0 == Longer(g, front)
           carried(c) == pass \in 1..Pages - 1 /\ w.page = pass =>
                             c.started /\ 0..pass - 1 \subseteq c.pages
           after(c) == \A x : \A rest \in Seq(Byte) :
                          Reaches(x, Longer(c0, rest)) => Reaches(x, Longer(c, rest))
<1>1. /\ Readable(g) /\ g.pending = <<>> /\ g.controller = controller /\ g.mode = "Scan"
      /\ g.framebuffer = ram /\ g.counts \in Totals /\ g.counts.discarded = 0
      /\ g.counts.frames >= framesSent /\ g.pages \in SUBSET Rows
      /\ g.last \in Rows \union {NoPage} /\ g.started \in BOOLEAN
      /\ pass \in 1..Pages - 1 => g.started /\ 0..pass - 1 \subseteq g.pages /\ g.last = pass - 1
  BY DEF Meant
<1>2. Readable(c0) /\ c0 = State(controller, front, "Scan", g.window, ram, g.pages, g.started,
                                  g.last, g.counts)
  <2>1. <<>> \o front = front
    BY JoinedEmpty
  <2> QED BY <1>1, <2>1, LongerTwice DEF Longer
<1>3. Asked(c0, front) /\ c0.counts = g.counts /\ c0.pages = g.pages /\ c0.started = g.started
      /\ c0.last = g.last
  <2>1. /\ c0.mode = "Scan" /\ c0.controller = controller /\ c0.pending = front
        /\ c0.framebuffer = ram /\ c0.pages = g.pages /\ c0.started = g.started
        /\ c0.last = g.last /\ c0.counts = g.counts
    BY <1>2, StateParts
  <2> QED BY <1>1, <1>2, <2>1 DEF Asked
<1> HIDE DEF c0
<1>4. PICK b : /\ Asked(b, front) /\ Opens(b, w, taken) /\ ~At(b)!Backward
               /\ b.counts = g.counts /\ carried(b) /\ after(b)
  <2>1. CASE ~At(c0)!Backward
    <3>1. carried(c0) /\ after(c0)
      BY <1>1, <1>3
    <3> HIDE DEF carried, after
    <3> QED BY <1>3, <2>1, <3>1
  <2>2. CASE At(c0)!Backward
    <3> DEFINE b == Turn(c0)
               no == FALSE
               none == {}
    <3>1. Opens(c0, w, taken) /\ At(c0)!Matched = {} /\ c0.mode = "Scan" /\ c0.pending = front
          /\ c0.framebuffer = ram /\ c0.controller = controller
      BY <1>3, CommandsDiffer DEF Opens, Asked
    <3>2. ~Stuck(c0) /\ b = FrameLeft(c0)
      BY <2>2, <3>1 DEF Stuck, Turn, ScanTurn
    <3>3. Readable(b)
      BY <1>2, <3>2, TurnReadable
    <3>4. b = State(controller, front, "Scan", c0.window, ram, none, no, NoPage, g.counts)
      BY <1>3, <3>1, <3>2 DEF FrameLeft
    <3>5. after(b)
      BY <1>2, <3>2, ReachesOn
    <3> HIDE DEF b, none, no, after
    <3>6. /\ b.mode = "Scan" /\ b.controller = controller /\ b.pending = front
          /\ b.framebuffer = ram /\ b.pages = none /\ b.started = no
          /\ b.last = NoPage /\ b.counts = g.counts
      BY <3>4, StateParts
    <3>7. Asked(b, front)
      BY <3>3, <3>6 DEF Asked, none, no
    <3>8. Opens(b, w, taken)
      BY <3>7
    <3>9. ~At(b)!Backward
      BY <3>6, <3>8 DEF Opens
    <3>10. carried(b)
      <4>1. w.page < g.last
        BY <1>3, <2>2, <3>1 DEF Opens
      <4>2. ~(pass \in 1..Pages - 1 /\ w.page = pass)
        BY <1>1, <4>1, SizeAssumption
      <4> QED BY <4>2
    <3> HIDE DEF carried
    <3> QED BY <3>5, <3>6, <3>7, <3>8, <3>9, <3>10
  <2> QED BY <2>1, <2>2
<1> DEFINE c1 == Turn(b)
           c2 == Longer(c1, back)
<1>5. /\ Readable(b) /\ b.controller = controller /\ b.framebuffer = ram
      /\ b.pages \in SUBSET Rows /\ b.started \in BOOLEAN
  BY <1>4 DEF Asked
<1>6. ~Stuck(b) /\ Readable(c1) /\ PageAwaited(c1, w, taken, b.pages, b.started, g.counts)
  <2>1. /\ ~Stuck(b)
        /\ c1 = State(b.controller, taken, "Sh1106PageData", w, b.framebuffer,
                      IF w.page = 0 THEN {} ELSE b.pages, b.started \/ w.page = 0, w.page,
                      b.counts)
    BY <1>4 DEF Opens, PageReady
  <2>2. Readable(c1)
    BY <1>5, <2>1, TurnReadable
  <2> QED BY <1>4, <1>5, <2>1, <2>2 DEF PageAwaited
<1> HIDE DEF c1
<1>7. Readable(c2) /\ PageAwaited(c2, w, <<Data>> \o pixels, b.pages, b.started, g.counts)
  <2> DEFINE pages == IF w.page = 0 THEN {} ELSE b.pages
             begun == b.started \/ w.page = 0
  <2>1. c1 = State(controller, taken, "Sh1106PageData", w, ram, pages, begun, w.page, g.counts)
    BY <1>6 DEF PageAwaited
  <2> HIDE DEF pages, begun
  <2>2. c2 = State(controller, taken \o back, "Sh1106PageData", w, ram, pages, begun, w.page,
                   g.counts)
    BY <2>1, LongerState
  <2>3. Readable(c2)
    BY <1>6, LongerTwice
  <2>4. PageAwaited(c2, w, taken \o back, b.pages, b.started, g.counts)
    BY <2>2 DEF PageAwaited, pages, begun
  <2> HIDE DEF c2
  <2> QED BY <2>3, <2>4 DEF DataBehind
<1> HIDE DEF c2
<1>8. ~Stuck(c2) /\ MeantAfter(Turn(c2), w, pixels)
  <2>1. PICK pages \in SUBSET Rows, started \in BOOLEAN, t \in Totals :
            pages = b.pages /\ started = b.started /\ t = g.counts
    BY <1>1, <1>5
  <2>2. pass \in 1..Pages - 1 /\ w.page = pass => started /\ 0..pass - 1 \subseteq pages
    BY <1>4, <2>1
  <2>3. PageAwaited(c2, w, <<Data>> \o pixels, pages, started, t)
    BY <1>7, <2>1
  <2>4. t.discarded = 0 /\ t.frames >= framesSent
    BY <1>1, <2>1
  <2> HIDE DEF carried, after
  <2> QED BY <1>7, <2>2, <2>3, <2>4, PageShown
<1> HIDE DEF carried
<1>9. Leads(g, front \o back, Turn(c2))
  <2> SUFFICES ASSUME NEW x, NEW r \in Seq(Byte), Reaches(x, Longer(g, (front \o back) \o r))
               PROVE  Reaches(x, Longer(Turn(c2), r))
    BY DEF Leads
  <2>1. (front \o back) \o r = front \o (back \o r) /\ back \o r \in Seq(Byte)
    BY Joined, JoinedBytes, SMTT(30)
  <2> DEFINE z == back \o r
  <2>2. z \in Seq(Byte) /\ Reaches(x, Longer(g, front \o z)) /\ Longer(c1, z) = Longer(c2, r)
    BY <1>6, <2>1, LongerTwice DEF c2
  <2> HIDE DEF z
  <2>3. Reaches(x, Longer(c0, z))
    BY <1>1, <2>2, LongerTwice DEF c0
  <2>4. Reaches(x, Longer(b, z))
    BY <1>4, <2>2, <2>3
  <2> HIDE DEF after
  <2>5. Reaches(x, Longer(c1, z))
    BY <1>5, <1>6, <2>2, <2>4, ReachesOn DEF c1
  <2> QED BY <1>7, <1>8, <2>2, <2>5, ReachesOn
<1> QED BY <1>8, <1>9
\* Whole or a range, a page of the SH1106 decodes to what it was in the RAM.
LEMMA PageDecoded ==
    ASSUME controller = "sh1106", framesSent \in Nat, pass \in Nat,
           NEW w \in Updates, NEW range \in RangeCommands(w),
           NEW pixels \in Seq(Byte), Len(pixels) = w.width * w.pages,
           NEW g, Meant(g, ram, pass, framesSent)
    PROVE  \E h : MeantAfter(h, w, pixels) /\ Leads(g, range \o <<Data>> \o pixels, h)
<1> DEFINE control == <<Data>>
           d       == control \o pixels
           front   == range \o control
           none    == <<>>
<1>1. /\ w \in Windows /\ w.pages = 1 /\ range \in Seq(Byte) /\ control \in Seq(Byte)
      /\ d \in Seq(Byte) /\ front \in Seq(Byte) /\ none \in Seq(Byte)
  <2>1. w \in Windows /\ w.pages = 1 /\ range \in Seq(Byte)
    BY CommandBytes, SenderAssumption DEF Updates
  <2>2. control \in Seq(Byte) /\ none \in Seq(Byte)
    BY DEF Byte
  <2> HIDE DEF control, none
  <2>3. d \in Seq(Byte) /\ front \in Seq(Byte)
    BY <2>1, <2>2, JoinedBytes
  <2> QED BY <2>1, <2>2, <2>3
<1>2. CASE range = <<Command, SetPage + w.page,
                     (EndOf(w) + FirstColumn) % 16, 16 + (EndOf(w) + FirstColumn) \div 16,
                     (w.x + FirstColumn) % 16, 16 + (w.x + FirstColumn) \div 16>>
  <2>1. \A c : Asked(c, range) => Opens(c, w, none)
    <3> SUFFICES ASSUME NEW c, Asked(c, range) PROVE Opens(c, w, none)
      OBVIOUS
    <3>1. /\ Readable(c) /\ c.mode = "Scan" /\ c.controller = "sh1106"
          /\ c.last \in Rows \union {NoPage}
      BY DEF Asked
    <3>2. c.pending = <<Command, SetPage + w.page,
                     (EndOf(w) + FirstColumn) % 16, 16 + (EndOf(w) + FirstColumn) \div 16,
                     (w.x + FirstColumn) % 16, 16 + (w.x + FirstColumn) \div 16>>
      BY <1>2 DEF Asked
    <3> QED BY <1>1, <3>1, <3>2, PageOpens DEF Opens
  <2>2. DataBehind(none, d, pixels)
    <3>1. none \o d = d
      BY <1>1, JoinedEmpty
    <3> HIDE DEF none
    <3> QED BY <3>1 DEF DataBehind
  <2>3. range \o <<Data>> \o pixels = range \o d
    BY <1>1, Joined
  <2> HIDE DEF d, control, none, front
  <2>4. \E h : MeantAfter(h, w, pixels) /\ Leads(g, range \o d, h)
    BY <1>1, <2>1, <2>2, PageLeads
  <2> QED BY <2>3, <2>4
<1>3. CASE /\ w.width = Width
           /\ front = <<Command, SetPage + w.page, FirstColumn % 16, 16 + FirstColumn \div 16,
                        Data>>
  <2>1. \A c : Asked(c, front) => Opens(c, w, control)
    <3> SUFFICES ASSUME NEW c, Asked(c, front) PROVE Opens(c, w, control)
      OBVIOUS
    <3> HIDE DEF front
    <3>1. /\ Readable(c) /\ c.mode = "Scan" /\ c.controller = "sh1106"
          /\ c.last \in Rows \union {NoPage}
      BY DEF Asked
    <3>2. c.pending = <<Command, SetPage + w.page, FirstColumn % 16, 16 + FirstColumn \div 16,
                        Data>>
      BY <1>3 DEF Asked
    <3> QED BY <1>1, <1>3, <3>1, <3>2, LegacyOpens DEF Opens
  <2>2. DataBehind(control, pixels, pixels)
    BY DEF DataBehind
  <2> HIDE DEF control, front, d, none
  <2>3. \E h : MeantAfter(h, w, pixels) /\ Leads(g, front \o pixels, h)
    BY <1>1, <2>1, <2>2, PageLeads
  <2> QED BY <2>3 DEF front, control
<1> QED BY <1>2, <1>3, PageCommands

\* An initialisation sequence changes nothing.
LEMMA PatternDecoded ==
    ASSUME NEW p \in Patterns, NEW g, Readable(g), g.pending = <<>>, g.mode = "Scan",
           g.controller = controller
    PROVE  p \in Seq(Byte) /\ Leads(g, p, g)
<1> DEFINE c == Longer(g, p)
<1>1. p \in Seq(Byte)
  BY PatternAssumption DEF Patterns
<1>2. Readable(c) /\ c.pending = p /\ c.mode = "Scan" /\ c.controller = controller
  <2>1. <<>> \o p = p
    BY <1>1, JoinedEmpty
  <2>2. Readable(c)
    BY <1>1, LongerTwice
  <2> QED BY <2>1, <2>2 DEF Longer, State
<1>3. p \in At(c)!Matched
  BY <1>1, <1>2 DEF At!Matched, At!Patterns, At!StartsWith, Patterns
<1>4. At(c)!Rest(Len(p)) = <<>>
  BY <1>1, <1>2, SubSeqEmpty DEF At!Rest
<1>5. ~Stuck(c) /\ Turn(c) = PatternTaken(c)
  BY <1>2, <1>3 DEF Stuck, Turn, ScanTurn
<1>6. Turn(c) = g
  <2>1. Turn(c) = State(c.controller, <<>>, "Scan", c.window, c.framebuffer, c.pages, c.started,
                        c.last, c.counts)
    BY <1>3, <1>4, <1>5, OneMatch DEF PatternTaken
  <2>2. /\ c.controller = g.controller /\ c.window = g.window /\ c.framebuffer = g.framebuffer
        /\ c.pages = g.pages /\ c.started = g.started /\ c.last = g.last /\ c.counts = g.counts
    BY DEF Longer, State
  <2> HIDE DEF c
  <2> QED BY <2>1, <2>2 DEF Readable
<1> HIDE DEF c
<1>7. ASSUME NEW x, NEW r \in Seq(Byte), Reaches(x, Longer(g, p \o r))
      PROVE  Reaches(x, Longer(g, r))
  <2>1. Reaches(x, Longer(c, r))
    BY <1>1, <1>7, LongerTwice DEF c
  <2> QED BY <1>2, <1>5, <1>6, <2>1, ReachesOn
<1> QED BY <1>1, <1>7 DEF Leads

-----------------------------------------------------------------------------
(* An undamaged stream decodes to what its sender meant. *)

\* The state that the stream leads to: while it is sent whatever may be sent behind it, and
\* later from where the parser of the whole stream has come.
Ahead(g) ==
    IF phase = "send"
    THEN \A r \in Seq(Byte) : Reaches(Longer(WholeState, stream \o r), Longer(g, r))
    ELSE Reaches(WholeState, g)

CleanInv ==
    /\ damaged \in Nat /\ framesSent \in Nat /\ pass \in Nat
    /\ damaged = 0 => \E g : Meant(g, ram, pass, framesSent) /\ Ahead(g)

\* A new display is blank.
LEMMA CleanInit == Init => CleanInv
<1> SUFFICES ASSUME Init PROVE CleanInv
  OBVIOUS
<1> DEFINE g == WholeState
<1>1. Readable(g)
  BY StreamInit DEF StreamInv, LoopTypes
<1>2. /\ stream = <<>> /\ damaged = 0 /\ ram = Blank /\ pass = 0 /\ framesSent = 0
      /\ phase = "send" /\ ~wCalled /\ wTotals = NoTotals
  BY DEF Init
<1>3. /\ wPending = <<>> /\ wMode = "Scan" /\ wFramebuffer = Blank /\ wPages = {}
      /\ wStarted = FALSE /\ wLast = NoPage
  BY DEF Init, Whole!ParserInit, Whole!Blank, Blank, Whole!NoPage, Whole!Rows, Whole!Columns
<1>4. /\ g.controller = controller /\ g.pending = wPending /\ g.mode = wMode
      /\ g.framebuffer = wFramebuffer /\ g.pages = wPages /\ g.started = wStarted
      /\ g.last = wLast /\ g.counts = wTotals
  BY <1>2 DEF WholeState, WholeCounts, State
<1> HIDE DEF g
<1>5. NoTotals \in Totals /\ NoTotals.discarded = 0 /\ NoTotals.frames = 0
  BY DEF NoTotals, Totals
<1>6. Meant(g, ram, pass, framesSent)
  <2>1. ~(pass \in 1..Pages - 1)
    BY <1>2
  <2>2. g.counts \in Totals /\ g.counts.discarded = 0 /\ g.counts.frames >= framesSent
    BY <1>2, <1>4, <1>5
  <2>3. g.pages = {} /\ g.last = NoPage /\ g.started \in BOOLEAN
    BY <1>3, <1>4
  <2> QED BY <1>1, <1>2, <1>3, <1>4, <2>1, <2>2, <2>3 DEF Meant
<1>7. Ahead(g)
  <2> SUFFICES ASSUME NEW r \in Seq(Byte)
               PROVE  Reaches(Longer(WholeState, stream \o r), Longer(g, r))
    BY <1>2 DEF Ahead
  <2>1. stream \o r = r
    BY <1>2, JoinedEmpty
  <2> QED BY <2>1, ReachesItself DEF g
<1> QED BY <1>2, <1>6, <1>7 DEF CleanInv

\* Steps of the sender, and of the parser that gets the fragments, leave the other parser alone.
LEMMA WholeUntouched ==
    ASSUME \/ SendPattern \/ SendUpdate \/ SendDamaged
           \/ Deliver \/ FragmentStep \/ UpdateCounted \/ UNCHANGED vars
    PROVE  UNCHANGED <<WholeState, controller, phase>>
<1>1. UNCHANGED <<wholeVars, controller, phase>>
  <2>1. CASE SendPattern \/ SendUpdate \/ SendDamaged
    BY <2>1 DEF SendPattern, SendUpdate, SendDamaged, Sent, parserVars
  <2>2. CASE Deliver
    BY <2>2 DEF Deliver, Push
  <2>3. CASE FragmentStep
    BY <2>3 DEF FragmentStep, Step, ConsumePattern, OpenWindow, WrapToLowerPage, OpenPage,
         AwaitCommand, Discard, Resynchronize, AwaitData, ReadWindow, ReadPage, ReadLastPage,
         ReadData
  <2>4. CASE UpdateCounted
    BY <2>4 DEF UpdateCounted, Push, parserVars
  <2>5. CASE UNCHANGED vars
    BY <2>5 DEF vars, parserVars
  <2> QED BY <2>1, <2>2, <2>3, <2>4, <2>5
<1> QED BY <1>1 DEF wholeVars, WholeState, WholeCounts

\* What a message leads to, behind the stream.
LEMMA AheadOfMessage ==
    ASSUME StreamInv, phase = "send", NEW g, Ahead(g), NEW bytes \in Seq(Byte),
           NEW h, Leads(g, bytes, h), NEW r \in Seq(Byte)
    PROVE  Reaches(Longer(WholeState, (stream \o bytes) \o r), Longer(h, r))
<1> DEFINE z == bytes \o r
<1>1. stream \in Seq(Byte) /\ z \in Seq(Byte)
  BY JoinedBytes DEF StreamInv, LoopTypes
<1>2. (stream \o bytes) \o r = stream \o z
  BY <1>1, Joined
<1>3. Reaches(Longer(WholeState, stream \o z), Longer(g, z))
  BY <1>1 DEF Ahead
<1> HIDE DEF z
<1>4. Reaches(Longer(WholeState, (stream \o bytes) \o r), Longer(g, z))
  BY <1>2, <1>3
<1> QED BY <1>4 DEF z, Leads

\* What is sent is meant.
LEMMA CleanSend ==
    ASSUME StreamInv, CleanInv, SendPattern \/ SendUpdate \/ SendDamaged
    PROVE  CleanInv'
<1>1. UNCHANGED <<WholeState, controller, phase>> /\ phase = "send"
  BY WholeUntouched DEF SendPattern, SendUpdate, SendDamaged, Sending
<1>2. controller \in {"ssd1306", "sh1106"} /\ messages \in Nat
  BY DEF StreamInv, Types, StateTypes, LoopTypes
<1>3. damaged \in Nat /\ framesSent \in Nat /\ pass \in Nat
  BY DEF CleanInv
\* A state that a message leads to is the new one.
<1>4. ASSUME NEW g, Ahead(g), NEW bytes \in Seq(Byte), NEW h, Leads(g, bytes, h),
             stream' = stream \o bytes
      PROVE  Ahead(h)'
  <2> SUFFICES ASSUME NEW r \in Seq(Byte)
               PROVE  Reaches(Longer(WholeState, stream' \o r), Longer(h, r))
    BY <1>1 DEF Ahead, Longer
  <2>1. Reaches(Longer(WholeState, (stream \o bytes) \o r), Longer(h, r))
    BY <1>1, <1>4, AheadOfMessage
  <2> QED BY <1>4, <2>1
<1>5. CASE SendPattern
  <2>1. PICK p \in Patterns : stream' = stream \o p
    BY <1>5 DEF SendPattern, Sent
  <2>2. UNCHANGED <<damaged, ram, pass, framesSent>>
    BY <1>5 DEF SendPattern
  <2>3. ASSUME damaged = 0
        PROVE  \E g : Meant(g, ram, pass, framesSent)' /\ Ahead(g)'
    <3>1. PICK g : Meant(g, ram, pass, framesSent) /\ Ahead(g)
      BY <2>3 DEF CleanInv
    <3>2. p \in Seq(Byte) /\ Leads(g, p, g)
      BY <3>1, PatternDecoded DEF Meant
    <3>3. Ahead(g)'
      BY <1>4, <2>1, <3>1, <3>2
    <3>4. Meant(g, ram, pass, framesSent)'
      BY <1>1, <2>2, <3>1 DEF Meant
    <3> QED BY <3>3, <3>4
  <2> QED BY <1>3, <2>2, <2>3 DEF CleanInv
<1>6. CASE SendUpdate
  <2>1. PICK w \in Updates : \E range \in RangeCommands(w) :
           LET pixels == Pixels(w.width * w.pages) IN
           /\ Sent(range \o <<Data>> \o pixels)
           /\ ram' = Executed(w, pixels)
           /\ pass' = PassAfter(w)
           /\ framesSent' = framesSent + (IF EndsFrame(w) THEN 1 ELSE 0)
    BY <1>6 DEF SendUpdate
  <2>a. PICK range \in RangeCommands(w) :
           LET pixels == Pixels(w.width * w.pages) IN
           /\ Sent(range \o <<Data>> \o pixels)
           /\ ram' = Executed(w, pixels)
           /\ pass' = PassAfter(w)
           /\ framesSent' = framesSent + (IF EndsFrame(w) THEN 1 ELSE 0)
    BY <2>1
  <2> DEFINE pixels == Pixels(w.width * w.pages)
             bytes  == range \o <<Data>> \o pixels
  <2>2. w \in Windows /\ bytes \in Seq(Byte)
    BY <1>2, CommandBytes, MessageBytes
  <2>3. pixels \in Seq(Byte) /\ Len(pixels) = w.width * w.pages
    <3>1. w.width * w.pages \in Nat
      BY <2>2, SMTT(30) DEF Windows
    <3> QED BY <1>2, <3>1, PixelBytes
  <2> HIDE DEF pixels
  <2>4. /\ stream' = stream \o bytes /\ ram' = Painted(ram, w, pixels)
        /\ pass' = PassAfter(w) /\ UNCHANGED damaged
        /\ framesSent' = framesSent + (IF EndsFrame(w) THEN 1 ELSE 0)
    BY <1>6, <2>a DEF Sent, Executed, Painted, SendUpdate, pixels
  <2>5. framesSent' \in Nat /\ pass' \in Nat
    <3>1. w.page + w.pages \in Nat
      <4>1. w.page \in 0..Pages - 1 /\ w.pages \in 1..Pages
        BY <2>2 DEF Windows
      <4> QED BY <4>1, SizeAssumption
    <3>2. PassAfter(w) \in Nat
      BY <3>1 DEF PassAfter
    <3> QED BY <1>3, <2>4, <3>2
  <2>6. ASSUME damaged = 0
        PROVE  \E h : Meant(h, ram, pass, framesSent)' /\ Ahead(h)'
    <3>1. PICK g : Meant(g, ram, pass, framesSent) /\ Ahead(g)
      BY <2>6 DEF CleanInv
    <3>2. PICK h : MeantAfter(h, w, pixels) /\ Leads(g, bytes, h)
      BY <1>2, <1>3, <2>3, <3>1, WindowDecoded, PageDecoded
    <3> HIDE DEF bytes
    <3>3. Ahead(h)'
      BY <1>4, <2>2, <2>4, <3>1, <3>2
    <3>4. Meant(h, ram, pass, framesSent)'
      BY <1>1, <2>4, <3>2 DEF MeantAfter, Meant
    <3> QED BY <3>3, <3>4
  <2> QED BY <1>3, <2>4, <2>5, <2>6 DEF CleanInv
<1>7. CASE SendDamaged
  <2>1. damaged' = damaged + 1 /\ UNCHANGED <<ram, pass, framesSent>>
    BY <1>7 DEF SendDamaged
  <2> QED BY <1>3, <2>1 DEF CleanInv
<1> QED BY <1>5, <1>6, <1>7

\* The steps of the parser of the whole stream come after the sender's.
LEMMA WholeAfterSending ==
    ASSUME StreamInv, DeliverWhole \/ WholeStep \/ WholeCounted
    PROVE  phase' # "send" /\ (WholeStep \/ WholeCounted => phase # "send")
<1>1. CASE DeliverWhole
  <2>1. phase' # "send" /\ ~wCalled /\ ~wRunning
    BY <1>1 DEF DeliverWhole, StreamInv, PhaseInv, WholeCall
  <2> QED BY <2>1, TurnsInCalls DEF WholeStep, WholeCounted
<1>2. CASE WholeStep
  <2>1. wCalled /\ phase' = phase
    BY <1>2, TurnsInCalls DEF WholeStep, StreamInv, WholeCall
  <2> QED BY <2>1 DEF StreamInv, PhaseInv
<1>3. CASE WholeCounted
  <2>1. wCalled /\ (phase' = phase \/ phase' = "fragments")
    BY <1>3 DEF WholeCounted
  <2> QED BY <2>1 DEF StreamInv, PhaseInv
<1> QED BY <1>1, <1>2, <1>3

\* What is decoded leads there.
LEMMA CleanDecoding ==
    ASSUME StreamInv, CleanInv, DeliverWhole \/ WholeStep \/ WholeCounted
    PROVE  CleanInv'
<1>1. UNCHANGED <<damaged, ram, pass, framesSent, controller>> /\ phase' # "send"
  <2>1. UNCHANGED <<senderVars, parserVars>>
    BY DEF DeliverWhole, WholeStep, WholeCounted
  <2>2. phase' # "send"
    BY WholeAfterSending
  <2> QED BY <2>1, <2>2 DEF senderVars, parserVars
<1>2. damaged \in Nat /\ framesSent \in Nat /\ pass \in Nat
  BY DEF CleanInv
<1>3. ASSUME damaged = 0
      PROVE  \E g : Meant(g, ram, pass, framesSent)' /\ Ahead(g)'
  <2>1. PICK g : Meant(g, ram, pass, framesSent) /\ Ahead(g)
    BY <1>3 DEF CleanInv
  <2>2. Readable(g) /\ Stuck(g) /\ g.pending = <<>>
    BY <2>1, NothingPending DEF Meant
  <2>3. Reaches(WholeState', g)
    <3>1. CASE DeliverWhole
      <4> DEFINE none == <<>>
      <4>1. phase = "send" /\ none \in Seq(Byte) /\ stream \o none = stream
        BY <3>1, ConcatEmptySeq DEF DeliverWhole, StreamInv, LoopTypes
      <4>2. Longer(g, none) = g
        <5>1. g.pending \o none = g.pending
          BY <2>2, JoinedEmpty, <4>1
        <5> HIDE DEF none
        <5> QED BY <2>2, <5>1 DEF Longer, Readable
      <4> HIDE DEF none
      <4>3. Reaches(Longer(WholeState, stream), g)
        BY <2>1, <4>1, <4>2 DEF Ahead
      <4> QED BY <3>1, <4>3, WholeDelivered
    <3>2. CASE WholeStep
      <4>1. Reaches(WholeState, g)
        BY <2>1, <3>2, WholeAfterSending DEF Ahead
      <4> QED BY <2>2, <3>2, <4>1, WholeTurned, ReachedAfterTurn
    <3>3. CASE WholeCounted
      <4>1. Reaches(WholeState, g)
        BY <2>1, <3>3, WholeAfterSending DEF Ahead
      <4> QED BY <3>3, <4>1, WholeResumed
    <3> QED BY <3>1, <3>2, <3>3
  <2>4. Ahead(g)'
    BY <1>1, <2>3 DEF Ahead
  <2>5. Meant(g, ram, pass, framesSent)'
    BY <1>1, <2>1 DEF Meant
  <2> QED BY <2>4, <2>5
<1> QED BY <1>1, <1>2, <1>3 DEF CleanInv

\* Every step keeps what the stream leads to.
LEMMA CleanNext ==
    ASSUME StreamInv, CleanInv, [Next]_vars
    PROVE  CleanInv'
<1>1. CASE SendPattern \/ SendUpdate \/ SendDamaged
  BY <1>1, CleanSend
<1>2. CASE DeliverWhole \/ WholeStep \/ WholeCounted
  BY <1>2, CleanDecoding
<1>3. CASE Deliver \/ FragmentStep \/ UpdateCounted \/ UNCHANGED vars
  <2>1. UNCHANGED <<WholeState, controller, phase>>
    BY <1>3, WholeUntouched
  <2>2. UNCHANGED <<stream, damaged, ram, pass, framesSent>>
    BY <1>3 DEF Deliver, FragmentStep, UpdateCounted, vars, senderVars
  <2> QED BY <2>1, <2>2 DEF CleanInv, Meant, Ahead, Longer
<1> QED BY <1>1, <1>2, <1>3 DEF Next

\* When everything is delivered both parsers have come to the state that was meant.
LEMMA CleanDecoded == StreamInv /\ CleanInv => CleanStreamDecoded
<1> SUFFICES ASSUME StreamInv, CleanInv, AllDelivered, damaged = 0
             PROVE  /\ framebuffer = ram /\ pending = <<>>
                    /\ totals.discarded = 0 /\ totals.frames >= framesSent
  BY DEF CleanStreamDecoded
<1>1. phase = "fragments" /\ ~wCalled /\ Stuck(WholeState)
  BY DEF AllDelivered, StreamInv, PhaseInv, WholeCall
<1>2. PICK g : Meant(g, ram, pass, framesSent) /\ Ahead(g)
  BY DEF CleanInv
<1>3. g = WholeState
  BY <1>1, <1>2, StuckReaches DEF Ahead
<1>4. g.framebuffer = wFramebuffer /\ g.pending = wPending /\ g.counts = wTotals
  BY <1>1, <1>3 DEF WholeState, WholeCounts, State
<1>5. /\ g.framebuffer = ram /\ g.pending = <<>>
      /\ g.counts.discarded = 0 /\ g.counts.frames >= framesSent
  BY <1>2 DEF Meant
<1>6. pending = wPending /\ framebuffer = wFramebuffer /\ totals = wTotals
  BY StreamSame DEF FragmentsSameAsWhole
<1> QED BY <1>4, <1>5, <1>6

\* An undamaged stream, however it is cut into pieces, leaves in the framebuffer what it leaves
\* in the RAM of the controller that the sender writes to, and all its frames are counted.
THEOREM CleanStreamsMeant == Spec => []CleanStreamDecoded
<1>1. StreamInv /\ [Next]_vars => StreamInv'
  BY StreamNext
<1>2. StreamInv /\ CleanInv /\ [Next]_vars => CleanInv'
  BY CleanNext
<1> QED BY StreamInit, CleanInit, CleanDecoded, <1>1, <1>2, PTL DEF Spec
-----------------------------------------------------------------------------
(* A complete SH1106 frame is that of one pass. *)

\* The pages noted as written were written in the pass that goes on.
PassInv ==
    /\ writtenIn \in [Rows -> Int] /\ passNumber \in Int
    /\ mode = "Ssd1306Data" => controller = "ssd1306"
    /\ controller = "sh1106" => \A row \in sh1106Pages : writtenIn[row] = passNumber

\* What a turn does to the pages noted.
LEMMA PagesAfterStep ==
    ASSUME Types, PassInv, Step
    PROVE  /\ controller' = controller
           /\ mode' = "Ssd1306Data" => controller = "ssd1306"
           /\ \/ sh1106Pages' = {}
              \/ sh1106Pages' = sh1106Pages
              \/ sh1106Pages' = PagesWritten /\ update'.updates > update.updates
<1>1. CASE ConsumePattern \/ AwaitCommand \/ Discard \/ Resynchronize \/ AwaitData
  BY <1>1 DEF ConsumePattern, AwaitCommand, Discard, Resynchronize, AwaitData, FrameVars, PassInv
<1>2. CASE OpenWindow
  BY <1>2 DEF OpenWindow, FrameVars, WindowCommand
<1>3. CASE WrapToLowerPage
  BY <1>3 DEF WrapToLowerPage, PassInv
<1>4. CASE OpenPage
  BY <1>4 DEF OpenPage
<1>5. CASE ReadWindow
  BY <1>5 DEF ReadWindow, ReadData
<1>6. CASE ReadPage
  <2>1. /\ update' = [update EXCEPT !.updates = @ + 1] /\ sh1106Pages' = PagesWritten
        /\ controller' = controller /\ mode' = "Scan"
    BY <1>6 DEF ReadPage, ReadData
  <2>2. update'.updates > update.updates
    <3>1. /\ update \in [completed : Nat, boundary : BOOLEAN, discarded : Nat, updates : Nat]
          /\ update.updates \in Nat
      BY DEF Types, UpdateType
    <3>2. update'.updates = update.updates + 1
      BY <2>1, <3>1
    <3> QED BY <3>1, <3>2
  <2> QED BY <2>1, <2>2
<1>7. CASE ReadLastPage
  BY <1>7 DEF ReadLastPage, ReadData
<1> QED BY <1>1, <1>2, <1>3, <1>4, <1>5, <1>6, <1>7 DEF Step

\* What a turn notes.
LEMMA PassAfterStep ==
    ASSUME Types, PassInv, FragmentStep
    PROVE  /\ writtenIn' \in [Rows -> Int] /\ passNumber' \in Int
           /\ passNumber' = passNumber \/ sh1106Pages' = {}
           /\ \A row \in Rows : writtenIn'[row] \in {writtenIn[row], passNumber}
           /\ PageWritten => writtenIn'[window.page] = passNumber
<1>1. window.page \in Rows
  BY DEF Types, StateTypes, Windows
<1>2. /\ passNumber' = passNumber + (IF OpenPage /\ CommandedPage = 0 THEN 1 ELSE 0)
      /\ writtenIn' = (IF PageWritten THEN [writtenIn EXCEPT ![window.page] = passNumber]
                                      ELSE writtenIn)
  BY DEF FragmentStep
<1>3. writtenIn \in [Rows -> Int] /\ passNumber \in Int
  BY DEF PassInv
<1>4. passNumber' \in Int /\ (passNumber' = passNumber \/ sh1106Pages' = {})
  <2>1. CASE OpenPage /\ CommandedPage = 0
    <3>1. sh1106Pages' = {}
      BY <2>1 DEF OpenPage
    <3> QED BY <1>2, <1>3, <2>1, <3>1
  <2>2. CASE ~(OpenPage /\ CommandedPage = 0)
    <3>1. passNumber' = passNumber + 0
      BY <1>2, <2>2
    <3> QED BY <1>3, <3>1
  <2> QED BY <2>1, <2>2
<1>5. /\ writtenIn' \in [Rows -> Int]
      /\ \A row \in Rows : writtenIn'[row] \in {writtenIn[row], passNumber}
      /\ PageWritten => writtenIn'[window.page] = passNumber
  <2> DEFINE written == PageWritten
  <2>1. writtenIn' = (IF written THEN [writtenIn EXCEPT ![window.page] = passNumber]
                                 ELSE writtenIn)
    BY <1>2
  <2> HIDE DEF written
  <2>2. /\ writtenIn' \in [Rows -> Int]
        /\ \A row \in Rows : writtenIn'[row] \in {writtenIn[row], passNumber}
        /\ written => writtenIn'[window.page] = passNumber
    BY <1>1, <1>3, <2>1
  <2> QED BY <2>2 DEF written
<1> QED BY <1>4, <1>5

\* A turn keeps the invariant.
LEMMA PassStep ==
    ASSUME Types, PassInv, FragmentStep
    PROVE  PassInv'
<1>1. Step
  BY DEF FragmentStep
<1>2. sh1106Pages \subseteq Rows
  BY DEF Types, PageTypes
<1>3. ASSUME controller = "sh1106", NEW row \in sh1106Pages'
      PROVE  writtenIn'[row] = passNumber'
  <2>1. passNumber' = passNumber
    BY <1>3, PassAfterStep
  <2>2. CASE row \in sh1106Pages
    <3>1. writtenIn[row] = passNumber /\ row \in Rows
      BY <1>2, <1>3, <2>2 DEF PassInv
    <3> QED BY <2>1, <3>1, PassAfterStep
  <2>3. CASE row \notin sh1106Pages
    <3>1. sh1106Pages' = PagesWritten /\ update'.updates > update.updates
      BY <1>1, <1>3, <2>3, PagesAfterStep
    <3>2. FullWidth /\ row = window.page
      BY <1>3, <2>3, <3>1 DEF PagesWritten
    <3> QED BY <2>1, <3>1, <3>2, PassAfterStep DEF PageWritten
  <2> QED BY <2>2, <2>3
<1>4. /\ writtenIn' \in [Rows -> Int] /\ passNumber' \in Int /\ controller' = controller
      /\ mode' = "Ssd1306Data" => controller = "ssd1306"
  BY <1>1, PagesAfterStep, PassAfterStep
<1> QED BY <1>3, <1>4 DEF PassInv

\* The other steps do not touch it.
LEMMA PassNext ==
    ASSUME StreamInv, PassInv, [Next]_vars
    PROVE  PassInv'
<1>1. CASE FragmentStep
  BY <1>1, PassStep DEF StreamInv
<1>2. CASE Deliver \/ UpdateCounted
  <2>1. UNCHANGED <<controller, mode, sh1106Pages, writtenIn, passNumber>>
    BY <1>2 DEF Deliver, UpdateCounted, Push, parserVars
  <2> QED BY <2>1 DEF PassInv
<1>3. CASE \/ SendPattern \/ SendUpdate \/ SendDamaged
           \/ DeliverWhole \/ WholeStep \/ WholeCounted \/ UNCHANGED vars
  <2>1. UNCHANGED <<loopVars, parserVars>>
    BY <1>3 DEF SendPattern, SendUpdate, SendDamaged, Sent, DeliverWhole, WholeStep,
                WholeCounted, vars
  <2> QED BY <2>1 DEF loopVars, parserVars, PassInv
<1> QED BY <1>1, <1>2, <1>3 DEF Next

\* Only a turn completes a frame.
LEMMA CompletedByStep ==
    ASSUME StreamInv, Next, update'.completed > update.completed
    PROVE  FragmentStep
<1>1. update.completed \in Nat
  BY DEF StreamInv, Types, UpdateType
<1>2. CASE Deliver \/ UpdateCounted
  <2>1. update' = NoUpdate \/ update' = update
    BY <1>2 DEF Deliver, UpdateCounted, Push, parserVars
  <2>2. ~(update'.completed > update.completed)
    BY <1>1, <2>1 DEF NoUpdate
  <2> QED BY <2>2
<1>3. CASE \/ SendPattern \/ SendUpdate \/ SendDamaged
           \/ DeliverWhole \/ WholeStep \/ WholeCounted
  <2>1. update' = update
    BY <1>3 DEF SendPattern, SendUpdate, SendDamaged, Sent, DeliverWhole, WholeStep,
                WholeCounted, parserVars
  <2>2. ~(update'.completed > update.completed)
    BY <1>1, <2>1
  <2> QED BY <2>2
<1> QED BY <1>2, <1>3 DEF Next

\* The turn that completes it finds every page noted, the last one by itself.
LEMMA CompletedInOnePass ==
    ASSUME StreamInv, PassInv, FragmentStep, controller = "sh1106",
           update'.completed > update.completed
    PROVE  \A row \in Rows : writtenIn'[row] = passNumber
<1>1. /\ update \in [completed : Nat, boundary : BOOLEAN, discarded : Nat, updates : Nat]
      /\ update.completed \in Nat /\ update.updates \in Nat
  BY DEF StreamInv, Types, UpdateType
<1>2. ReadLastPage
  <2>1. CASE \/ ConsumePattern \/ OpenWindow \/ WrapToLowerPage \/ OpenPage \/ AwaitCommand
             \/ Discard \/ Resynchronize \/ AwaitData
    <3>1. \/ update' = update
          \/ update' = [update EXCEPT !.boundary = TRUE]
          \/ update' = [update EXCEPT !.discarded = @ + 1]
      BY <2>1 DEF ConsumePattern, OpenWindow, WrapToLowerPage, OpenPage, AwaitCommand, Discard,
                  Resynchronize, AwaitData
    <3>2. update'.completed = update.completed
      BY <1>1, <3>1
    <3> QED BY <1>1, <3>2
  <2>2. CASE ReadPage
    <3>1. update' = [update EXCEPT !.updates = @ + 1]
      BY <2>2 DEF ReadPage
    <3>2. update'.completed = update.completed
      BY <1>1, <3>1
    <3> QED BY <1>1, <3>2
  <2>3. CASE ReadWindow
    BY <2>3 DEF ReadWindow, ReadData, Reading, PassInv
  <2> QED BY <2>1, <2>2, <2>3 DEF FragmentStep, Step
<1>3. update' = Presented(frameStarted /\ PagesWritten = Rows)
  BY <1>2 DEF ReadLastPage
<1>4. PagesWritten = Rows /\ update'.updates > update.updates
  <2> DEFINE complete == frameStarted /\ PagesWritten = Rows
  <2>1. update' = Presented(complete)
    BY <1>3
  <2> HIDE DEF complete
  <2>2. update'.updates = update.updates + 1 /\ (~complete => update'.completed = update.completed)
    <3>1. PICK u \in [completed : Nat, boundary : BOOLEAN, discarded : Nat, updates : Nat] :
              u = [update EXCEPT !.updates = @ + 1]
      <4>1. update.updates + 1 \in Nat
        BY <1>1
      <4> QED BY <1>1, <4>1
    <3>2. u.completed = update.completed /\ u.updates = update.updates + 1
      BY <1>1, <3>1
    <3>3. update' = IF complete THEN [u EXCEPT !.completed = @ + 1]
                                ELSE [u EXCEPT !.boundary = TRUE]
      BY <2>1, <3>1, <3>2, <1>1 DEF Presented
    <3> QED BY <3>1, <3>2, <3>3
  <2>3. complete
    BY <1>1, <2>2
  <2> QED BY <1>1, <2>2, <2>3 DEF complete
<1>5. ASSUME NEW row \in Rows
      PROVE  writtenIn'[row] = passNumber
  <2>1. CASE row \in sh1106Pages
    BY <2>1, PassAfterStep DEF PassInv, StreamInv
  <2>2. CASE row \notin sh1106Pages
    <3>1. FullWidth /\ row = window.page
      BY <1>4, <2>2 DEF PagesWritten
    <3> QED BY <1>4, <3>1, PassAfterStep DEF PageWritten, StreamInv
  <2> QED BY <2>1, <2>2
<1> QED BY <1>5

\* No SH1106 frame that is counted as complete has a page that is left from an earlier pass.
THEOREM OnePass == Spec => CompleteMeansOnePass
<1>1. Init => PassInv
  <2> SUFFICES ASSUME Init PROVE PassInv
    OBVIOUS
  <2>1. /\ writtenIn = [row \in Rows |-> -1] /\ passNumber = 0 /\ mode = "Scan"
        /\ sh1106Pages = {}
    BY DEF Init, ParserInit
  <2> QED BY <2>1 DEF PassInv
<1>2. StreamInv /\ [Next]_vars => StreamInv'
  BY StreamNext
<1>3. StreamInv /\ PassInv /\ [Next]_vars => PassInv'
  BY PassNext
<1>4. StreamInv /\ PassInv /\ [Next]_vars =>
         [(controller = "sh1106" /\ update'.completed > update.completed) =>
             \A row \in Rows : writtenIn'[row] = passNumber]_vars
  BY CompletedByStep, CompletedInOnePass
<1> QED BY StreamInit, <1>1, <1>2, <1>3, <1>4, PTL DEF Spec, CompleteMeansOnePass
-----------------------------------------------------------------------------
(* No step of a call is in vain. *)

\* What is left to do in a decoding state.
ModeWeight(m)   == IF m = "Scan" THEN 0 ELSE 1
PageWeight(row) == IF row = NoPage THEN 0 ELSE 1
Weight(s)       == Len(s.pending) + ModeWeight(s.mode) + PageWeight(s.last)

\* A mode and a page weigh at most one byte.
LEMMA WeightTypes == \A x : ModeWeight(x) \in 0..1 /\ PageWeight(x) \in 0..1
  BY DEF ModeWeight, PageWeight

\* Bytes are taken.
LEMMA Shorter ==
    ASSUME NEW s, Readable(s), NEW n \in 1..Len(s.pending)
    PROVE  Len(At(s)!Rest(n)) = Len(s.pending) - n
<1>1. /\ s.pending \in Seq(Byte) /\ Len(s.pending) \in Nat /\ n + 1 \in Int
      /\ \A i \in n + 1..Len(s.pending) : s.pending[i] \in Byte
  BY ElementOfSeq DEF Readable
<1>2. Len(SubSeq(s.pending, n + 1, Len(s.pending))) = Len(s.pending) - (n + 1) + 1
  BY <1>1, SubSeqProperties
<1>3. \A k, m \in Nat : k - (m + 1) + 1 = k - m
  OBVIOUS
<1> QED BY <1>1, <1>2, <1>3 DEF At!Rest

\* It is enough to take bytes: three of them before the pixel data.
LEMMA FewerBytes ==
    ASSUME NEW s, Readable(s), NEW t, NEW n \in 1..Len(s.pending), t.pending = At(s)!Rest(n),
           \/ s.mode = "Scan" /\ n >= 3
           \/ t.mode = "Scan" /\ (t.last = s.last \/ t.last = NoPage)
    PROVE  Weight(s) \in Nat /\ Weight(t) \in Nat /\ Weight(t) < Weight(s)
<1> DEFINE a == ModeWeight(s.mode)
           b == PageWeight(s.last)
           c == ModeWeight(t.mode)
           d == PageWeight(t.last)
<1>1. Len(t.pending) = Len(s.pending) - n /\ Len(s.pending) \in Nat
  <2>1. Len(t.pending) = Len(s.pending) - n
    BY Shorter
  <2>2. s.pending \in Seq(Byte)
    BY DEF Readable
  <2> QED BY <2>1, <2>2
<1>2. a \in 0..1 /\ b \in 0..1 /\ c \in 0..1 /\ d \in 0..1
  BY WeightTypes
<1>3. n >= 3 \/ (c = 0 /\ (d = b \/ d = 0))
  BY DEF ModeWeight, PageWeight
<1>4. Weight(s) = Len(s.pending) + a + b /\ Weight(t) = Len(s.pending) - n + c + d
  BY <1>1 DEF Weight
<1> HIDE DEF a, b, c, d
<1> QED BY <1>1, <1>2, <1>3, <1>4

\* Or to give up a rectangle or a frame.
LEMMA FewerModes ==
    ASSUME NEW s, Readable(s), NEW t, t.pending = s.pending, t.mode = "Scan",
           \/ s.mode # "Scan" /\ t.last = s.last
           \/ s.last # NoPage /\ t.last = NoPage
    PROVE  Weight(s) \in Nat /\ Weight(t) \in Nat /\ Weight(t) < Weight(s)
<1> DEFINE a == ModeWeight(s.mode)
           b == PageWeight(s.last)
           d == PageWeight(t.last)
<1>1. Len(t.pending) = Len(s.pending) /\ Len(s.pending) \in Nat
  BY DEF Readable
<1>2. a \in 0..1 /\ b \in 0..1 /\ d \in 0..1
  BY WeightTypes
<1>3. (a = 1 /\ d = b) \/ (b = 1 /\ d = 0)
  BY DEF ModeWeight, PageWeight
<1>4. Weight(s) = Len(s.pending) + a + b /\ Weight(t) = Len(s.pending) + 0 + d
  BY <1>1 DEF Weight, ModeWeight
<1> HIDE DEF a, b, d
<1> QED BY <1>1, <1>2, <1>3, <1>4

\* Every turn leaves less.
LEMMA TurnShrinks ==
    ASSUME NEW s, Readable(s), ~Stuck(s)
    PROVE  Weight(s) \in Nat /\ Weight(Turn(s)) \in Nat /\ Weight(Turn(s)) < Weight(s)
<1> SUFFICES ASSUME NEW t, t = Turn(s)
             PROVE  Weight(s) \in Nat /\ Weight(t) \in Nat /\ Weight(t) < Weight(s)
  OBVIOUS
<1>1. s.pending \in Seq(Byte) /\ Len(s.pending) \in Nat
  BY DEF Readable
<1>2. CASE s.mode = "Scan"
  <2>1. CASE At(s)!Matched # {}
    <3>1. PICK p \in At(s)!Matched : TRUE
      BY <2>1
    <3>2. Len(p) \in 1..Len(s.pending) /\ (CHOOSE x \in At(s)!Matched : TRUE) = p
      <4>1. Len(p) >= 2 /\ Len(p) <= Len(s.pending) /\ Len(p) \in Nat
        BY <3>1, CommandsAssumption, PatternAssumption
           DEF At!Matched, At!Patterns, At!StartsWith
      <4> QED BY <1>1, <3>1, <4>1, OneMatch
    <3>3. t = PatternTaken(s)
      BY <1>2, <2>1 DEF Turn, ScanTurn
    <3>4. t.pending = At(s)!Rest(Len(p)) /\ t.mode = "Scan" /\ t.last = s.last
      <4>1. /\ t.pending = At(s)!Rest(Len(CHOOSE x \in At(s)!Matched : TRUE))
            /\ t.mode = "Scan" /\ t.last = s.last
        BY <3>3, StateParts DEF PatternTaken
      <4> QED BY <3>2, <4>1
    <3> QED BY <3>2, <3>4, FewerBytes
  <2>2. CASE At(s)!Matched = {} /\ At(s)!Backward
    <3>1. t = FrameLeft(s) /\ s.last # NoPage
      BY <1>2, <2>2 DEF Turn, ScanTurn, At!Backward
    <3>2. t.pending = s.pending /\ t.mode = "Scan" /\ t.last = NoPage
      BY <3>1 DEF FrameLeft, State
    <3> QED BY <1>2, <3>1, <3>2, FewerModes
  <2>3. CASE At(s)!Matched = {} /\ ~At(s)!Backward /\ ~At(s)!Accepted
    <3>1. t = ByteDiscarded(s)
      BY <1>2, <2>3 DEF Turn, ScanTurn
    <3>2. t.pending = At(s)!Rest(1) /\ t.mode = "Scan" /\ t.last = s.last
      BY <3>1 DEF ByteDiscarded, State
    <3>3. s.pending # <<>>
      BY <1>2, <2>3 DEF Stuck, At!Undecided
    <3>4. Len(s.pending) # 0
      BY <1>1, <3>3, EmptySeq
    <3>5. 1 \in 1..Len(s.pending)
      BY <1>1, <3>4
    <3> QED BY <3>2, <3>5, FewerBytes
  <2>4. CASE At(s)!Matched = {} /\ ~At(s)!Backward /\ At(s)!Accepted
    <3>1. CASE s.controller = "ssd1306"
      <4>1. t = WindowOpened(s) /\ 7 \in 1..Len(s.pending)
        BY <1>1, <1>2, <2>4, <3>1 DEF Turn, ScanTurn, At!Accepted, At!PageCommand
      <4>2. t.pending = At(s)!Rest(7)
        BY <4>1 DEF WindowOpened, State
      <4> QED BY <1>2, <4>1, <4>2, FewerBytes
    <3>2. CASE s.controller # "ssd1306"
      <4> DEFINE n == IF At(s)!Legacy THEN 4 ELSE 6
      <4>1. t = PageOpened(s) /\ n \in 1..Len(s.pending) /\ n >= 3
        BY <1>1, <1>2, <2>4, <3>2
           DEF Turn, ScanTurn, At!Accepted, At!WindowCommand, At!PageCommandRead
      <4>2. t.pending = At(s)!Rest(n)
        BY <4>1 DEF PageOpened, State
      <4> QED BY <1>2, <4>1, <4>2, FewerBytes
    <3> QED BY <3>1, <3>2
  <2> QED BY <2>1, <2>2, <2>3, <2>4
<1>3. CASE s.mode # "Scan"
  <2>1. CASE At(s)!Misframed
    <3>1. t = CommandExpected(s)
      BY <1>3, <2>1 DEF Turn, DataTurn
    <3>2. t.pending = s.pending /\ t.mode = "Scan" /\ t.last = s.last
      BY <3>1 DEF CommandExpected, State
    <3> QED BY <1>3, <3>2, FewerModes
  <2>2. CASE ~At(s)!Misframed
    <3>1. At(s)!DataRead
      BY <1>3, <2>2 DEF Stuck
    <3>2. At(s)!MessageSize \in 1..Len(s.pending)
      <4>1. s.window.width * s.window.pages \in Nat
        BY DEF Readable, Windows
      <4>2. At(s)!MessageSize \in Nat /\ At(s)!MessageSize >= 1
        BY <4>1 DEF At!MessageSize
      <4> QED BY <1>1, <3>1, <4>2 DEF At!DataRead
    <3>3. t \in {WindowTaken(s), PageTaken(s), LastPageTaken(s)}
      BY <1>3, <2>2 DEF Turn, DataTurn
    <3>4. /\ t.pending = At(s)!Rest(At(s)!MessageSize) /\ t.mode = "Scan"
          /\ t.last = s.last \/ t.last = NoPage
      <4>1. CASE t = WindowTaken(s)
        BY <4>1 DEF WindowTaken, State
      <4>2. CASE t = PageTaken(s)
        BY <4>2 DEF PageTaken, State
      <4>3. CASE t = LastPageTaken(s)
        BY <4>3 DEF LastPageTaken, State
      <4> QED BY <3>3, <4>1, <4>2, <4>3
    <3> QED BY <3>2, <3>4, FewerBytes
  <2> QED BY <2>1, <2>2
<1> QED BY <1>2, <1>3

\* push() goes on only without anything to present.
GoesOn == running => ~Present(update)

\* Every step keeps that.
LEMMA GoesOnNext ==
    ASSUME StreamInv, GoesOn, [Next]_vars
    PROVE  GoesOn'
<1>1. CASE FragmentStep
  <2>1. LoopAfterProgress => GoesOn'
    BY DEF LoopAfterProgress, GoesOn, Present
  <2>2. LoopAfterProgress \/ ~running'
    BY <1>1 DEF FragmentStep, Step, ConsumePattern, OpenWindow, WrapToLowerPage, OpenPage,
         AwaitCommand, Discard, Resynchronize, AwaitData, ReadWindow, ReadPage, ReadLastPage
  <2> QED BY <2>1, <2>2 DEF GoesOn
<1>2. CASE Deliver \/ UpdateCounted
  <2>1. update' = NoUpdate \/ UNCHANGED <<running, update>>
    BY <1>2 DEF Deliver, UpdateCounted, Push, parserVars
  <2>2. update' = NoUpdate => ~Present(update')
    BY DEF NoUpdate, Present
  <2> QED BY <2>1, <2>2 DEF GoesOn
<1>3. CASE \/ SendPattern \/ SendUpdate \/ SendDamaged
           \/ DeliverWhole \/ WholeStep \/ WholeCounted \/ UNCHANGED vars
  <2>1. UNCHANGED parserVars
    BY <1>3 DEF SendPattern, SendUpdate, SendDamaged, Sent, DeliverWhole, WholeStep,
                WholeCounted, vars
  <2> QED BY <2>1 DEF parserVars, GoesOn
<1> QED BY <1>1, <1>2, <1>3 DEF Next

\* While a call goes on only its own steps can be taken.
LEMMA OnlyTheCall ==
    ASSUME StreamInv, Next, called
    PROVE  FragmentStep \/ UpdateCounted
<1>1. phase = "fragments" /\ ~wCalled /\ ~wRunning
  BY DEF StreamInv, PhaseInv, WholeCall, LoopTypes
<1>2. ~SendPattern /\ ~SendUpdate /\ ~SendDamaged /\ ~DeliverWhole
  BY <1>1 DEF SendPattern, SendUpdate, SendDamaged, Sending, DeliverWhole
<1>3. ~WholeStep /\ ~WholeCounted /\ ~Deliver
  BY <1>1, TurnsInCalls DEF WholeStep, WholeCounted, Deliver
<1> QED BY <1>2, <1>3 DEF Next

\* A step of a call leaves less to do.
LEMMA CallStep ==
    ASSUME StreamInv, GoesOn, FragmentStep \/ UpdateCounted, called
    PROVE  4 * Undone' + Stage' < 4 * Undone + Stage
<1>1. /\ pending \in Seq(Byte) /\ Len(pending) \in Nat /\ Undone \in Nat /\ totals \in Totals
  <2>1. pending \in Seq(Byte) /\ Len(pending) \in Nat /\ totals \in Totals
    BY DEF StreamInv, Types, BytesType, LoopTypes
  <2>2. Undone = Len(pending) + ModeWeight(mode) + PageWeight(lastPage)
    BY DEF Undone, ModeWeight, PageWeight
  <2>3. ModeWeight(mode) \in 0..1 /\ PageWeight(lastPage) \in 0..1
    BY WeightTypes
  <2> QED BY <2>1, <2>2, <2>3
<1>2. CASE FragmentStep
  <2>1. Step /\ running /\ called' /\ UNCHANGED totals
    BY <1>2, TurnsInCalls DEF FragmentStep
  <2>2. Stage = 2
    BY <2>1 DEF Stage
  <2>3. PICK c \in Totals : c = totals
    BY <1>1
  <2> DEFINE s == Now(c)
  <2>4. Readable(s) /\ Weight(s) = Undone /\ Weight(s') = Undone'
    <3>1. s.pending = pending /\ s.mode = mode /\ s.last = lastPage
      BY DEF Now, State
    <3>2. s'.pending = pending' /\ s'.mode = mode' /\ s'.last = lastPage'
      BY DEF Now, State
    <3>3. Readable(s)
      BY <2>1, <2>3, FragmentIsNow DEF StreamInv, Now
    <3> QED BY <3>1, <3>2, <3>3 DEF Weight, Undone, ModeWeight, PageWeight
  <2>5. \/ Stuck(s) /\ UNCHANGED <<s, update>> /\ ~running'
        \/ ~Stuck(s) /\ s' = Turn(s)
    BY <2>1, StepIsTurn DEF StreamInv
  <2> HIDE DEF s
  <2>6. CASE Stuck(s) /\ UNCHANGED <<s, update>> /\ ~running'
    <3>1. Undone' = Undone
      BY <2>4, <2>6
    <3>2. Stage' = 1
      BY <2>1, <2>6 DEF GoesOn, Stage, Present
    <3> QED BY <1>1, <2>2, <3>1, <3>2
  <2>7. CASE ~Stuck(s) /\ s' = Turn(s)
    <3>1. Undone' \in Nat /\ Undone' < Undone
      BY <2>4, <2>7, TurnShrinks
    <3>2. Stage' \in 0..3
      BY DEF Stage
    <3>3. \A a, b \in Nat, k \in 0..3 : b < a => 4 * b + k < 4 * a + 2
      OBVIOUS
    <3> QED BY <1>1, <2>2, <3>1, <3>2, <3>3
  <2> QED BY <2>5, <2>6, <2>7
<1>3. CASE UpdateCounted
  <2>1. ~running
    BY <1>3 DEF UpdateCounted
  <2>2. CASE Present(update)
    <3>1. Push(<<>>) /\ called' /\ running'
      BY <1>3, <2>2 DEF UpdateCounted, Push
    <3>2. Undone' = Undone
      <4>1. pending' = pending /\ mode' = mode /\ lastPage' = lastPage
        BY <1>1, <3>1, ConcatEmptySeq DEF Push
      <4> QED BY <4>1 DEF Undone
    <3>3. Stage = 3 /\ Stage' = 2
      BY <2>1, <2>2, <3>1 DEF Stage
    <3> QED BY <1>1, <3>2, <3>3
  <2>3. CASE ~Present(update)
    <3>1. ~called' /\ UNCHANGED <<pending, mode, lastPage>>
      BY <1>3, <2>3 DEF UpdateCounted, parserVars
    <3>2. Undone' = Undone
      BY <3>1 DEF Undone
    <3>3. Stage = 1 /\ Stage' = 0
      BY <2>1, <2>3, <3>1 DEF Stage
    <3> QED BY <1>1, <3>2, <3>3
  <2> QED BY <2>2, <2>3
<1> QED BY <1>2, <1>3

\* A call of DisplayRuntime::push runs out of steps: each leaves less to do, and what is left
\* to do is never less than nothing.
THEOREM CallsEnd == Spec => CallsProgress
<1>1. Init => GoesOn
  BY DEF Init, ParserInit, GoesOn
<1>2. StreamInv /\ [Next]_vars => StreamInv'
  BY StreamNext
<1>3. StreamInv /\ GoesOn /\ [Next]_vars => GoesOn'
  BY GoesOnNext
<1>4. StreamInv /\ GoesOn /\ [Next]_vars =>
         [called => 4 * Undone' + Stage' < 4 * Undone + Stage]_vars
  BY OnlyTheCall, CallStep
<1> QED BY StreamInit, <1>1, <1>2, <1>3, <1>4, PTL DEF Spec, CallsProgress
=============================================================================
