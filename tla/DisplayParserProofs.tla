-------------------------- MODULE DisplayParserProofs --------------------------
(***************************************************************************)
(* Whatever bytes are pushed, in whatever pieces, the parser's rectangle   *)
(* stays inside the display RAM and the framebuffer keeps its shape, for   *)
(* every size of display and all initialisation sequences.                 *)
(***************************************************************************)
EXTENDS DisplayParser, SequenceTheorems, TLAPS

USE SizeAssumption

\* The parts of TypeOK.
FlagTypes  == frameStarted \in BOOLEAN /\ running \in BOOLEAN
StateTypes == controller \in {"ssd1306", "sh1106"} /\ mode \in Modes /\ window \in Windows
PageTypes  == sh1106Pages \in SUBSET Rows /\ lastPage \in Rows \union {NoPage}
RamType    == framebuffer \in [Rows -> [Columns -> Byte]]
UpdateType == update \in [completed : Nat, boundary : BOOLEAN, discarded : Nat, updates : Nat]
BytesType  == pending \in Seq(Byte)

Types == FlagTypes /\ StateTypes /\ PageTypes /\ RamType /\ UpdateType /\ BytesType

-----------------------------------------------------------------------------
(* Facts about the pending bytes. *)

\* What is left after the first n bytes are taken.
LEMMA RestBytes ==
    ASSUME BytesType, NEW n \in Nat
    PROVE  Rest(n) \in Seq(Byte)
<1>1. \A i \in n + 1..Len(pending) : pending[i] \in Byte
  BY DEF BytesType
<1>2. Len(pending) \in Int /\ n + 1 \in Int
  BY DEF BytesType
<1> QED BY <1>1, <1>2, SubSeqProperties DEF Rest

\* Each of the first Len(pending) bytes is a byte.
LEMMA ByteAt ==
    ASSUME BytesType, NEW i \in 1..Len(pending)
    PROVE  pending[i] \in 0..255
<1>1. pending[i] \in Byte
  BY DEF BytesType
<1> QED BY <1>1 DEF Byte

\* A rectangle commanded to the SSD1306 that fits lies inside the display RAM.
LEMMA WindowInside ==
    ASSUME BytesType, Len(pending) >= 7, WindowFits
    PROVE  [x |-> pending[3], width |-> pending[4] - pending[3] + 1,
            page |-> pending[6], pages |-> pending[7] - pending[6] + 1] \in Windows
<1> DEFINE a == pending[3]
           b == pending[4]
           c == pending[6]
           d == pending[7]
<1>1. Len(pending) \in Nat
  BY DEF BytesType
<1>2. /\ 3 \in 1..Len(pending) /\ 4 \in 1..Len(pending)
      /\ 6 \in 1..Len(pending) /\ 7 \in 1..Len(pending)
  BY <1>1
<1>3. a \in 0..255 /\ b \in 0..255 /\ c \in 0..255 /\ d \in 0..255
  BY <1>2, ByteAt
<1>4. a <= b /\ b < Width /\ c <= d /\ d < Pages
  BY DEF WindowFits
<1> HIDE DEF a, b, c, d
<1>5. a \in Columns /\ b - a + 1 \in 1..Width /\ a + (b - a + 1) <= Width
  BY <1>3, <1>4 DEF Columns
<1>6. c \in Rows /\ d - c + 1 \in 1..Pages /\ c + (d - c + 1) <= Pages
  BY <1>3, <1>4 DEF Rows
<1>7. [x |-> a, width |-> b - a + 1, page |-> c, pages |-> d - c + 1] \in Windows
  BY <1>5, <1>6 DEF Windows
<1> QED BY <1>7 DEF a, b, c, d

\* A decoded column address is a number.
LEMMA ColumnInt ==
    ASSUME NEW low, NEW high
    PROVE  DecodeColumn(low, high) \in Int
  BY DEF DecodeColumn, NoColumn

\* A range commanded to the SH1106 that fits lies inside the display RAM.
LEMMA PageRangeInside ==
    ASSUME BytesType, PageCommand, PageRangeFits
    PROVE  PageRange \in Windows
<1>1. CommandedPage \in Rows /\ CommandedPage + 1 <= Pages
  BY DEF PageCommand, CommandedPage, Rows
<1>2. CASE Legacy
  <2>1. 0 \in Columns /\ Width \in 1..Width /\ 0 + Width <= Width /\ 1 \in 1..Pages
    BY DEF Columns
  <2> QED BY <1>1, <1>2, <2>1 DEF PageRange, Windows
<1>3. CASE ~Legacy
  <2>1. StartColumn \in Int /\ EndColumn \in Int
    BY ColumnInt DEF StartColumn, EndColumn
  <2>2. StartColumn >= 2 /\ StartColumn <= EndColumn /\ EndColumn < Width + 2
    BY <1>3 DEF PageRangeFits, FirstColumn
  <2>3. /\ StartColumn - 2 \in Columns /\ EndColumn - StartColumn + 1 \in 1..Width
        /\ StartColumn - 2 + (EndColumn - StartColumn + 1) <= Width /\ 1 \in 1..Pages
    BY <2>1, <2>2 DEF Columns
  <2> QED BY <1>1, <1>3, <2>3 DEF PageRange, Windows, FirstColumn
<1> QED BY <1>2, <1>3

\* The pixel data of a whole message fill the rectangle with bytes, and nothing beside it.
LEMMA FilledBytes ==
    ASSUME Types, DataRead
    PROVE  Filled \in [Rows -> [Columns -> Byte]]
<1>1. window \in Windows /\ BytesType /\ RamType
  BY DEF Types, StateTypes
<1>2. /\ window.x \in Columns /\ window.width \in 1..Width
      /\ window.page \in Rows /\ window.pages \in 1..Pages
  BY <1>1 DEF Windows
<1>3. Len(pending) >= window.width * window.pages + 1
  BY DEF DataRead, MessageSize
<1>4. ASSUME NEW row \in Rows, NEW column \in Columns, InWindow(row, column)
      PROVE  pending[2 + (row - window.page) * window.width + (column - window.x)] \in Byte
  <2> DEFINE r == row - window.page
             c == column - window.x
             w == window.width
             p == window.pages
  <2>1. r \in 0..p - 1 /\ c \in 0..w - 1 /\ w \in Nat /\ p \in Nat
    BY <1>2, <1>4 DEF InWindow, Rows, Columns
  <2>2. Len(pending) >= w * p + 1
    BY <1>3
  <2> HIDE DEF r, c, w, p
  <2>3. r * w \in Nat /\ w * p \in Nat /\ r * w + w <= w * p
    <3>1. \A a \in Nat : \A b \in 0..a - 1 : \A d \in Nat : b * d + d <= d * a
      <4> SUFFICES ASSUME NEW a \in Nat, NEW b \in 0..a - 1, NEW d \in Nat
                   PROVE  b * d + d <= d * a
        OBVIOUS
      <4>1. PICK e \in Nat : a = b + 1 + e
        <5>1. a - b - 1 \in Nat /\ a = b + 1 + (a - b - 1)
          OBVIOUS
        <5> QED BY <5>1
      <4>2. d * a = b * d + d + d * e /\ d * e \in Nat
        BY <4>1
      <4> QED BY <4>2
    <3> QED BY <2>1, <3>1
  <2>4. 2 + r * w + c \in 1..Len(pending)
    <3>1. Len(pending) \in Nat
      BY <1>1 DEF BytesType
    <3> QED BY <2>1, <2>2, <2>3, <3>1
  <2>5. pending[2 + r * w + c] \in Byte
    BY <1>1, <2>4 DEF BytesType
  <2> QED BY <2>5 DEF r, c, w
<1>5. ASSUME NEW row \in Rows, NEW column \in Columns
      PROVE  framebuffer[row][column] \in Byte
  BY <1>1 DEF RamType
<1> QED BY <1>4, <1>5 DEF Filled

-----------------------------------------------------------------------------
(* The types are kept. *)

\* Loops and flags.
LEMMA StepFlags ==
    ASSUME Types, Step \/ \E input \in Seq(Byte) : Push(input)
    PROVE  FlagTypes'
<1> USE DEF Types, FlagTypes, FrameVars, LoopAfterProgress, ReadData
<1>1. ASSUME NEW input \in Seq(Byte), Push(input) PROVE FlagTypes'
  BY <1>1 DEF Push
<1>2. CASE ConsumePattern
  BY <1>2 DEF ConsumePattern
<1>3. CASE OpenWindow
  BY <1>3 DEF OpenWindow
<1>4. CASE WrapToLowerPage
  BY <1>4 DEF WrapToLowerPage
<1>5. CASE OpenPage
  BY <1>5 DEF OpenPage
<1>6. CASE AwaitCommand
  BY <1>6 DEF AwaitCommand
<1>7. CASE Discard
  BY <1>7 DEF Discard
<1>8. CASE Resynchronize
  BY <1>8 DEF Resynchronize
<1>9. CASE AwaitData
  BY <1>9 DEF AwaitData
<1>10. CASE ReadWindow
  BY <1>10 DEF ReadWindow
<1>11. CASE ReadPage
  BY <1>11 DEF ReadPage
<1>12. CASE ReadLastPage
  BY <1>12 DEF ReadLastPage
<1> QED BY <1>1, <1>2, <1>3, <1>4, <1>5, <1>6, <1>7, <1>8, <1>9, <1>10, <1>11, <1>12 DEF Step

\* The variant of ParseState and its rectangle: a rectangle is only ever taken from a
\* command whose range fits.
LEMMA StepState ==
    ASSUME Types, Step \/ \E input \in Seq(Byte) : Push(input)
    PROVE  StateTypes'
<1> USE DEF StateTypes, FrameVars, ReadData
<1>0. StateTypes /\ BytesType /\ {"Scan", "Ssd1306Data", "Sh1106PageData"} = Modes
  BY DEF Types, Modes
<1>1. ASSUME NEW input \in Seq(Byte), Push(input) PROVE StateTypes'
  BY <1>0, <1>1 DEF Push
<1>2. CASE ConsumePattern
  BY <1>0, <1>2 DEF ConsumePattern
<1>3. CASE OpenWindow
  <2>1. window' \in Windows
    BY <1>0, <1>3, WindowInside DEF OpenWindow
  <2>2. mode' = "Ssd1306Data" /\ controller' = controller
    BY <1>3 DEF OpenWindow
  <2> QED BY <1>0, <2>1, <2>2
<1>4. CASE WrapToLowerPage
  BY <1>0, <1>4 DEF WrapToLowerPage
<1>5. CASE OpenPage
  <2>1. window' \in Windows
    BY <1>0, <1>5, PageRangeInside DEF OpenPage
  <2>2. mode' = "Sh1106PageData" /\ controller' = controller
    BY <1>5 DEF OpenPage
  <2> QED BY <1>0, <2>1, <2>2
<1>6. CASE AwaitCommand
  BY <1>0, <1>6 DEF AwaitCommand
<1>7. CASE Discard
  BY <1>0, <1>7 DEF Discard
<1>8. CASE Resynchronize
  BY <1>0, <1>8 DEF Resynchronize
<1>9. CASE AwaitData
  BY <1>0, <1>9 DEF AwaitData
<1>10. CASE ReadWindow
  BY <1>0, <1>10 DEF ReadWindow
<1>11. CASE ReadPage
  BY <1>0, <1>11 DEF ReadPage
<1>12. CASE ReadLastPage
  BY <1>0, <1>12 DEF ReadLastPage
<1> QED BY <1>1, <1>2, <1>3, <1>4, <1>5, <1>6, <1>7, <1>8, <1>9, <1>10, <1>11, <1>12 DEF Step

\* The pages of the SH1106 frame.
LEMMA StepPages ==
    ASSUME Types, Step \/ \E input \in Seq(Byte) : Push(input)
    PROVE  PageTypes'
<1> USE DEF PageTypes, FrameVars, ReadData
<1>0. PageTypes /\ window.page \in Rows
  BY DEF Types, StateTypes, Windows
<1>1. ASSUME NEW input \in Seq(Byte), Push(input) PROVE PageTypes'
  BY <1>0, <1>1 DEF Push
<1>2. CASE ConsumePattern
  BY <1>0, <1>2 DEF ConsumePattern
<1>3. CASE OpenWindow
  BY <1>0, <1>3 DEF OpenWindow
<1>4. CASE WrapToLowerPage
  BY <1>0, <1>4 DEF WrapToLowerPage
<1>5. CASE OpenPage
  <2>1. CommandedPage \in Rows
    BY <1>5 DEF OpenPage, PageCommand, CommandedPage
  <2>2. sh1106Pages' = (IF CommandedPage = 0 THEN {} ELSE sh1106Pages)
        /\ lastPage' = CommandedPage
    BY <1>5 DEF OpenPage
  <2> QED BY <1>0, <2>1, <2>2
<1>6. CASE AwaitCommand
  BY <1>0, <1>6 DEF AwaitCommand
<1>7. CASE Discard
  BY <1>0, <1>7 DEF Discard
<1>8. CASE Resynchronize
  BY <1>0, <1>8 DEF Resynchronize
<1>9. CASE AwaitData
  BY <1>0, <1>9 DEF AwaitData
<1>10. CASE ReadWindow
  BY <1>0, <1>10 DEF ReadWindow
<1>11. CASE ReadPage
  BY <1>0, <1>11 DEF ReadPage, PagesWritten
<1>12. CASE ReadLastPage
  BY <1>0, <1>12 DEF ReadLastPage
<1> QED BY <1>1, <1>2, <1>3, <1>4, <1>5, <1>6, <1>7, <1>8, <1>9, <1>10, <1>11, <1>12 DEF Step

\* The display RAM.
LEMMA StepRam ==
    ASSUME Types, Step \/ \E input \in Seq(Byte) : Push(input)
    PROVE  RamType'
<1> USE DEF RamType, FrameVars
<1>0. RamType
  BY DEF Types
<1>1. ASSUME NEW input \in Seq(Byte), Push(input) PROVE RamType'
  BY <1>0, <1>1 DEF Push
<1>2. CASE ConsumePattern
  BY <1>0, <1>2 DEF ConsumePattern
<1>3. CASE OpenWindow
  BY <1>0, <1>3 DEF OpenWindow
<1>4. CASE WrapToLowerPage
  BY <1>0, <1>4 DEF WrapToLowerPage
<1>5. CASE OpenPage
  BY <1>0, <1>5 DEF OpenPage
<1>6. CASE AwaitCommand
  BY <1>0, <1>6 DEF AwaitCommand
<1>7. CASE Discard
  BY <1>0, <1>7 DEF Discard
<1>8. CASE Resynchronize
  BY <1>0, <1>8 DEF Resynchronize
<1>9. CASE AwaitData
  BY <1>0, <1>9 DEF AwaitData
<1>10. ASSUME NEW kind, ReadData(kind) PROVE RamType'
  <2>1. DataRead /\ framebuffer' = Filled
    BY <1>10 DEF ReadData
  <2> QED BY <2>1, FilledBytes
<1>11. CASE ReadWindow
  BY <1>10, <1>11 DEF ReadWindow
<1>12. CASE ReadPage
  BY <1>10, <1>12 DEF ReadPage
<1>13. CASE ReadLastPage
  BY <1>10, <1>13 DEF ReadLastPage
<1> QED BY <1>1, <1>2, <1>3, <1>4, <1>5, <1>6, <1>7, <1>8, <1>9, <1>11, <1>12, <1>13 DEF Step

\* The outcome of the current push().
LEMMA StepUpdate ==
    ASSUME Types, Step \/ \E input \in Seq(Byte) : Push(input)
    PROVE  UpdateType'
<1> USE DEF UpdateType, FrameVars
<1>0. UpdateType
  BY DEF Types
<1>a. /\ update.completed \in Nat /\ update.completed + 1 \in Nat /\ update.boundary \in BOOLEAN
      /\ update.discarded \in Nat /\ update.updates + 1 \in Nat
  BY <1>0
<1>b. /\ DOMAIN update = {"completed", "boundary", "discarded", "updates"}
      /\ update = [completed |-> update.completed, boundary |-> update.boundary,
                   discarded |-> update.discarded, updates |-> update.updates]
  BY <1>0
<1>c. ASSUME NEW complete, update' = Presented(complete) PROVE UpdateType'
  <2>1. CASE complete
    <3>1. update' = [update EXCEPT !.updates = @ + 1, !.completed = @ + 1]
      BY <1>c, <2>1 DEF Presented
    <3>2. update' = [completed |-> update.completed + 1, boundary |-> update.boundary,
                     discarded |-> update.discarded, updates |-> update.updates + 1]
      BY <1>b, <3>1
    <3> QED BY <1>a, <3>2
  <2>2. CASE ~complete
    <3>1. update' = [update EXCEPT !.updates = @ + 1, !.boundary = TRUE]
      BY <1>c, <2>2 DEF Presented
    <3>2. update' = [completed |-> update.completed, boundary |-> TRUE,
                     discarded |-> update.discarded, updates |-> update.updates + 1]
      BY <1>b, <3>1
    <3> QED BY <1>a, <3>2
  <2> QED BY <2>1, <2>2
<1>1. ASSUME NEW input \in Seq(Byte), Push(input) PROVE UpdateType'
  BY <1>1 DEF Push, NoUpdate
<1>2. CASE ConsumePattern
  BY <1>0, <1>2 DEF ConsumePattern
<1>3. CASE OpenWindow
  BY <1>0, <1>3 DEF OpenWindow
<1>4. CASE WrapToLowerPage
  BY <1>0, <1>4 DEF WrapToLowerPage
<1>5. CASE OpenPage
  BY <1>0, <1>5 DEF OpenPage
<1>6. CASE AwaitCommand
  BY <1>0, <1>6 DEF AwaitCommand
<1>7. CASE Discard
  BY <1>0, <1>7 DEF Discard
<1>8. CASE Resynchronize
  BY <1>0, <1>8 DEF Resynchronize
<1>9. CASE AwaitData
  BY <1>0, <1>9 DEF AwaitData
<1>10. CASE ReadWindow
  <2>1. update' = Presented(FullWidth /\ window.page = 0 /\ window.pages = Pages)
    BY <1>10 DEF ReadWindow
  <2> QED BY <1>c, <2>1
<1>11. CASE ReadPage
  BY <1>0, <1>11 DEF ReadPage
<1>12. CASE ReadLastPage
  <2>1. update' = Presented(frameStarted /\ PagesWritten = Rows)
    BY <1>12 DEF ReadLastPage
  <2> QED BY <1>c, <2>1
<1> QED BY <1>1, <1>2, <1>3, <1>4, <1>5, <1>6, <1>7, <1>8, <1>9, <1>10, <1>11, <1>12 DEF Step

\* The bytes not yet decoded.
LEMMA StepBytes ==
    ASSUME Types, Step \/ \E input \in Seq(Byte) : Push(input)
    PROVE  BytesType'
<1> USE DEF FrameVars
<1>0. BytesType /\ StateTypes
  BY DEF Types
<1>a. ASSUME pending' = pending PROVE BytesType'
  BY <1>0, <1>a DEF BytesType
<1>b. ASSUME NEW n \in Nat, pending' = Rest(n) PROVE BytesType'
  BY <1>0, <1>b, RestBytes DEF BytesType
<1>1. ASSUME NEW input \in Seq(Byte), Push(input) PROVE BytesType'
  BY <1>0, <1>1 DEF Push, BytesType
<1>2. CASE ConsumePattern
  <2>1. PICK p \in Matched : pending' = Rest(Len(p))
    BY <1>2 DEF ConsumePattern
  <2>2. p \in Seq(Byte)
    BY <2>1, PatternAssumption DEF Matched, Patterns
  <2>3. Len(p) \in Nat
    BY <2>2
  <2> QED BY <1>b, <2>1, <2>3
<1>3. CASE OpenWindow
  BY <1>3, <1>b DEF OpenWindow
<1>4. CASE WrapToLowerPage
  BY <1>4, <1>a DEF WrapToLowerPage
<1>5. CASE OpenPage
  <2>1. pending' = Rest(IF Legacy THEN 4 ELSE 6) /\ (IF Legacy THEN 4 ELSE 6) \in Nat
    BY <1>5 DEF OpenPage
  <2> QED BY <1>b, <2>1
<1>6. CASE AwaitCommand
  BY <1>6, <1>a DEF AwaitCommand
<1>7. CASE Discard
  BY <1>7, <1>b DEF Discard
<1>8. CASE Resynchronize
  BY <1>8, <1>a DEF Resynchronize
<1>9. CASE AwaitData
  BY <1>9, <1>a DEF AwaitData
<1>10. ASSUME NEW kind, ReadData(kind) PROVE BytesType'
  <2>1. window.width \in Nat /\ window.pages \in Nat
    BY <1>0 DEF StateTypes, Windows
  <2>2. MessageSize \in Nat
    BY <2>1 DEF MessageSize
  <2> QED BY <1>10, <1>b, <2>2 DEF ReadData
<1>11. CASE ReadWindow
  BY <1>10, <1>11 DEF ReadWindow
<1>12. CASE ReadPage
  BY <1>10, <1>12 DEF ReadPage
<1>13. CASE ReadLastPage
  BY <1>10, <1>13 DEF ReadLastPage
<1> QED BY <1>1, <1>2, <1>3, <1>4, <1>5, <1>6, <1>7, <1>8, <1>9, <1>11, <1>12, <1>13 DEF Step

\* The parser starts scanning a blank framebuffer.
LEMMA InitTypes == ParserInit => Types
<1> SUFFICES ASSUME ParserInit PROVE Types
  OBVIOUS
<1> USE DEF ParserInit
<1>1. FlagTypes
  BY DEF FlagTypes
<1>2. NoWindow \in Windows
  BY DEF NoWindow, Windows, Columns, Rows
<1>3. StateTypes
  BY <1>2 DEF StateTypes, Modes
<1>4. PageTypes
  BY DEF PageTypes
<1>5. RamType
  BY DEF RamType, Blank, Byte
<1>6. UpdateType
  BY DEF UpdateType, NoUpdate
<1>7. BytesType
  BY DEF BytesType
<1> QED BY <1>1, <1>3, <1>4, <1>5, <1>6, <1>7 DEF Types

\* Every turn of push()'s loop keeps the types; DisplayRuntime rests on it too.
LEMMA NextTypes ==
    ASSUME Types, Step \/ \E input \in Seq(Byte) : Push(input)
    PROVE  Types'
  BY StepFlags, StepState, StepPages, StepRam, StepUpdate, StepBytes DEF Types

\* Whatever is pushed, no rectangle of read_ssd1306_data or read_sh1106_page_data leaves the
\* display RAM, and the framebuffer stays a whole display of bytes.
THEOREM TypeCorrect == ParserSpec => []TypeOK
<1>1. Types /\ UNCHANGED parserVars => Types'
  BY DEF Types, FlagTypes, StateTypes, PageTypes, RamType, UpdateType, BytesType, parserVars
<1>2. Types /\ [ParserNext]_parserVars => Types'
  BY <1>1, NextTypes DEF ParserNext
<1>3. Types => TypeOK
  BY DEF Types, FlagTypes, StateTypes, PageTypes, RamType, UpdateType, BytesType, TypeOK
<1> QED BY InitTypes, <1>2, <1>3, PTL DEF ParserSpec
=============================================================================
