-------------------------- MODULE DirectTargetProofs --------------------------
(***************************************************************************)
(* The direct target keeps every byte, and answers every run of the        *)
(* controller that finds it in order, for every size of the FIFO, the      *)
(* commands and the responses.  The invariant follows a run's bytes from   *)
(* the FIFO into the program, and the response from the program through    *)
(* the pipe to the controller.                                             *)
(***************************************************************************)
EXTENDS DirectTarget, TLAPS, SequenceTheorems

USE SizesAssumption, RunsAssumption

\* TypeOK in four parts: Boolean variables, the bus, the two programs and history.
FlagTypes ==
    /\ enabled \in BOOLEAN /\ rxBusy \in BOOLEAN /\ running \in BOOLEAN
    /\ lost \in BOOLEAN /\ disordered \in BOOLEAN

BusTypes ==
    /\ pins \in {"input", "alt3"}
    /\ rxFifo \in Seq(Runs) /\ Len(rxFifo) <= FifoSize
    /\ txPipe \in Seq(TxByte) /\ Len(txPipe) <= FifoSize + 1

ProgramTypes ==
    /\ tpc \in {"off", "drain", "receiving", "busy", "disable", "enable", "load", "sleep",
                "closing", "exited"}
    /\ received \in Seq(Runs) /\ loaded \in Nat
    /\ run \in 0..MaxRuns /\ cpc \in {"idle", "write", "sent", "reply", "body", "done", "failed"}
    /\ message \in Nat /\ sending \in Nat /\ polls \in Nat /\ expected \in Nat
    /\ got \in Seq(TxByte)

HistoryTypes ==
    /\ sent \in Seq(Runs) /\ handled \in Seq(Runs) /\ replies \in Seq(Seq(Runs))

\* The target looks at RXBUSY only with bytes in hand, and loads only a response it has
\* begun; what waits to be sent are bytes of responses.
ProgramInv ==
    /\ tpc = "receiving" => received # <<>>
    /\ tpc = "load" => replies # <<>>
    /\ run = 0 <=> cpc = "idle"
    /\ \A i \in 1..Len(txPipe) : txPipe[i].reply \in 1..Len(replies)

\* The run's command is of an accepted length, and RXBUSY is set between its first byte
\* and its stop condition.
RunInv ==
    /\ cpc # "failed"
    /\ run = 0 => sending = 0
    /\ run > 0 => message \in 1..MaxCommand
    /\ sending <= message
    /\ cpc \in {"idle", "write", "sent", "reply"} => got = <<>>
    /\ cpc \notin {"idle", "write"} => sending = message
    /\ rxBusy <=> cpc = "write" /\ sending > 0

\* The run has its response.
Answered == run > 0 /\ Len(replies) = run

\* Before that all it has sent waits in the program or in the FIFO; the program may still
\* be about to leave the previous run's response.
PendingInv ==
    /\ Len(replies) = (IF run = 0 THEN 0 ELSE run - 1)
    /\ cpc \in {"idle", "write", "sent"} /\ txPipe = <<>>
    /\ \A i \in 1..Len(rxFifo) : rxFifo[i] = run
    /\ tpc = "load" => loaded > ResponseLen(Len(replies)) /\ Len(rxFifo) = sending
    /\ tpc # "load" => /\ Len(received) + Len(rxFifo) = sending
                       /\ \A i \in 1..Len(received) : received[i] = run
    /\ tpc \in {"busy", "disable", "enable"} => cpc = "sent" /\ rxFifo = <<>>

\* After that the pipe holds what was loaded of the response and not read.
AnsweredInv ==
    /\ cpc \in {"sent", "reply", "body", "done"} /\ rxFifo = <<>>
    /\ tpc \notin {"receiving", "busy", "disable", "enable"}
    /\ Len(replies[run]) = message /\ \A i \in 1..message : replies[run][i] = run
    /\ loaded <= ResponseLen(run) + 1
    /\ tpc # "load" => received = <<>> /\ loaded = ResponseLen(run) + 1
    /\ cpc = "sent" => /\ Len(txPipe) = loaded
                       /\ \A i \in 1..loaded : txPipe[i] = [reply |-> run, pos |-> i - 1]
    /\ cpc # "sent" =>
         /\ expected = ResponseLen(run)
         /\ loaded = Len(got) + Len(txPipe) + 1
         /\ \A i \in 1..Len(got) : got[i] = [reply |-> run, pos |-> i]
         /\ \A i \in 1..Len(txPipe) : txPipe[i] = [reply |-> run, pos |-> Len(got) + i]
    /\ cpc = "body" => Len(got) < expected
    /\ cpc = "done" => Len(got) = expected /\ txPipe = <<>>

\* As long as no run fails, no command is split and no reply is read too early.
OrderInv ==
    ~disordered => /\ RunInv /\ ~lost
                   /\ ~Answered => PendingInv
                   /\ Answered => AnsweredInv

IInv == /\ FlagTypes /\ BusTypes /\ ProgramTypes /\ HistoryTypes
        /\ ProgramInv /\ OrderInv /\ BytesHandledOnce

-----------------------------------------------------------------------------
(* Facts about sequences and about the operators of the model. *)

\* The four parts make the type invariant.
LEMMA TypeParts == TypeOK <=> FlagTypes /\ BusTypes /\ ProgramTypes /\ HistoryTypes
  BY DEF TypeOK, FlagTypes, BusTypes, ProgramTypes, HistoryTypes

\* The empty sequence, in the form the provers need it in.
LEMMA EmptyInSeq == ASSUME NEW S PROVE <<>> \in Seq(S) /\ Len(<<>>) = 0
  BY EmptySeq

\* The length of a sequence.
LEMMA Length ==
    ASSUME NEW S, NEW s \in Seq(S)
    PROVE  /\ Len(s) \in Nat /\ (Len(s) = 0 <=> s = <<>>)
           /\ \A i \in 1..Len(s) : s[i] \in S
  BY LenProperties, EmptySeq, ElementOfSeq

\* The first byte of a FIFO and the rest.
LEMMA TakeFirst ==
    ASSUME NEW S, NEW s \in Seq(S), s # <<>>
    PROVE  /\ Head(s) \in S /\ Head(s) = s[1] /\ Tail(s) \in Seq(S)
           /\ Len(s) \in Nat \ {0} /\ Len(Tail(s)) = Len(s) - 1
           /\ \A i \in 1..Len(s) - 1 : Tail(s)[i] = s[i + 1]
<1>1. Len(s) \in Nat \ {0}
  BY Length
<1>2. Head(s) \in S /\ Tail(s) \in Seq(S) /\ Len(Tail(s)) = Len(s) - 1
  BY HeadTailProperties
<1>3. \A i \in 1..Len(Tail(s)) : Tail(s)[i] = s[i + 1]
  BY HeadTailProperties
<1>4. Head(s) = s[1]
  OBVIOUS
<1> QED BY <1>1, <1>2, <1>3, <1>4

\* One byte more.
LEMMA PutLast ==
    ASSUME NEW S, NEW s \in Seq(S), NEW e \in S
    PROVE  /\ Append(s, e) \in Seq(S) /\ Append(s, e) # <<>>
           /\ Len(s) \in Nat /\ Len(Append(s, e)) = Len(s) + 1
           /\ \A i \in 1..Len(s) : Append(s, e)[i] = s[i]
           /\ Append(s, e)[Len(s) + 1] = e
  BY AppendProperties, LenProperties

\* A response is never empty.
LEMMA ResponseSize ==
    ASSUME HistoryTypes, NEW r \in 1..Len(replies)
    PROVE  /\ ResponseLen(r) \in Nat \ {0} /\ ResponseLen(r) <= MaxResponse
           /\ replies[r] \in Seq(Runs)
<1>1. replies[r] \in Seq(Runs)
  BY ElementOfSeq DEF HistoryTypes
<1>2. Len(replies[r]) \in Nat
  BY <1>1, Length
<1> QED BY <1>1, <1>2 DEF ResponseLen

\* A byte that moves from the head of one sequence to the end of the one before it.
LEMMA MoveFirst ==
    ASSUME NEW h \in Seq(Runs), NEW r \in Seq(Runs), NEW f \in Seq(Runs), f # <<>>
    PROVE  h \o Append(r, Head(f)) \o Tail(f) = h \o r \o f
<1>1. /\ Len(f) \in Nat \ {0} /\ Head(f) \in Runs /\ Head(f) = f[1] /\ Tail(f) \in Seq(Runs)
      /\ <<Head(f)>> \in Seq(Runs)
  BY TakeFirst
<1>2. f = <<Head(f)>> \o Tail(f)
  BY <1>1, TailIsSubSeq, SubSeqRecursiveFirst, SubSeqFull
<1>3. h \o Append(r, Head(f)) = (h \o r) \o <<Head(f)>>
  <2>1. Append(r, Head(f)) = r \o <<Head(f)>>
    BY <1>1, AppendIsConcat
  <2> QED BY <1>1, <2>1, ConcatAssociative
<1>4. h \o r \in Seq(Runs)
  BY ConcatProperties
<1>5. ((h \o r) \o <<Head(f)>>) \o Tail(f) = (h \o r) \o (<<Head(f)>> \o Tail(f))
  BY <1>1, <1>4, ConcatAssociative
<1> QED BY <1>2, <1>3, <1>5

\* A byte more at the end of three sequences.
LEMMA PutLastOfThree ==
    ASSUME NEW S, NEW h \in Seq(S), NEW r \in Seq(S), NEW f \in Seq(S), NEW e \in S
    PROVE  h \o r \o Append(f, e) = Append(h \o r \o f, e)
<1>1. h \o r \in Seq(S) /\ (h \o r) \o f \in Seq(S) /\ <<e>> \in Seq(S)
  BY ConcatProperties
<1>2. Append(f, e) = f \o <<e>> /\ Append((h \o r) \o f, e) = ((h \o r) \o f) \o <<e>>
  BY <1>1, AppendIsConcat
<1>3. ((h \o r) \o f) \o <<e>> = (h \o r) \o (f \o <<e>>)
  BY <1>1, ConcatAssociative
<1> QED BY <1>2, <1>3

-----------------------------------------------------------------------------
(* The invariant is inductive. *)

\* Boolean variables stay Boolean.
LEMMA NextFlags ==
    ASSUME FlagTypes, [Next]_vars
    PROVE  FlagTypes'
<1> USE DEF FlagTypes, Access, Away, vars, busVars, targetVars, ctlVars, historyVars
<1>1. CASE Open
  BY <1>1 DEF Open
<1>2. CASE Drain
  BY <1>2 DEF Drain
<1>3. CASE Drained
  BY <1>3 DEF Drained
<1>4. CASE StillReceiving
  BY <1>4 DEF StillReceiving
<1>5. CASE Discard
  BY <1>5 DEF Discard
<1>6. CASE Answer
  BY <1>6 DEF Answer
<1>7. CASE Idle
  BY <1>7 DEF Idle
<1>8. CASE Disable
  BY <1>8 DEF Disable
<1>9. CASE Enable
  BY <1>9 DEF Enable
<1>10. CASE Load
  BY <1>10 DEF Load
<1>11. CASE Loaded
  BY <1>11 DEF Loaded
<1>12. CASE Sleep
  BY <1>12 DEF Sleep
<1>13. CASE Shutdown
  BY <1>13 DEF Shutdown
<1>14. CASE Signal
  BY <1>14 DEF Signal
<1>15. CASE WriteByte
  BY <1>15 DEF WriteByte
<1>16. CASE WriteStop
  BY <1>16 DEF WriteStop
<1>17. CASE Nack
  BY <1>17 DEF Nack
<1>18. CASE PollZero
  BY <1>18 DEF PollZero
<1>19. CASE GiveUp
  BY <1>19 DEF GiveUp
<1>20. CASE PollLength
  BY <1>20 DEF PollLength
<1>21. CASE BeginBody
  BY <1>21 DEF BeginBody
<1>22. CASE ReadBody
  BY <1>22 DEF ReadBody
<1>23. ASSUME NEW length \in 0..MaxArgument, Start(length) PROVE FlagTypes'
  BY <1>23 DEF Start
<1>24. CASE UNCHANGED vars
  BY <1>24
<1> QED BY <1>1, <1>2, <1>3, <1>4, <1>5, <1>6, <1>7, <1>8, <1>9, <1>10, <1>11, <1>12, <1>13,
           <1>14, <1>15, <1>16, <1>17, <1>18, <1>19, <1>20, <1>21, <1>22, <1>23, <1>24 DEF
           Next, TargetStep, ControllerStep

\* The FIFOs keep their sizes.
LEMMA NextBus ==
    ASSUME BusTypes, ProgramTypes, HistoryTypes, ProgramInv, [Next]_vars
    PROVE  BusTypes'
<1> USE DEF BusTypes, Access, Away, vars, busVars, targetVars, ctlVars, historyVars
<1>1. CASE Open
  BY <1>1 DEF Open
<1>2. CASE Drain
  <2>1. /\ Tail(rxFifo) \in Seq(Runs) /\ Len(Tail(rxFifo)) = Len(rxFifo) - 1
        /\ Len(rxFifo) \in Nat
    BY <1>2, TakeFirst DEF Drain
  <2>2. rxFifo' = Tail(rxFifo) /\ UNCHANGED <<pins, txPipe>>
    BY <1>2 DEF Drain
  <2>3. Len(rxFifo') = Len(rxFifo) - 1 /\ Len(rxFifo) <= FifoSize /\ FifoSize \in Nat
    BY <2>1, <2>2
  <2>4. Len(rxFifo') <= FifoSize
    BY <2>1, <2>3
  <2> QED BY <2>1, <2>2, <2>4
<1>3. CASE Drained
  BY <1>3 DEF Drained
<1>4. CASE StillReceiving
  BY <1>4 DEF StillReceiving
<1>5. CASE Discard
  BY <1>5 DEF Discard
<1>6. CASE Answer
  BY <1>6 DEF Answer
<1>7. CASE Idle
  BY <1>7 DEF Idle
<1>8. CASE Disable
  BY <1>8 DEF Disable
<1>9. CASE Enable
  <2>1. txPipe # <<>> => /\ Tail(txPipe) \in Seq(TxByte) /\ Len(txPipe) \in Nat
                         /\ Len(Tail(txPipe)) = Len(txPipe) - 1
    BY TakeFirst
  <2> QED BY <1>9, <2>1, EmptyInSeq DEF Enable
<1>10. CASE Load
  <2>1. [reply |-> Len(replies), pos |-> loaded] \in TxByte
    BY Length DEF TxByte, HistoryTypes, ProgramTypes
  <2>2. /\ Len(txPipe) \in Nat /\ Len(txPipe) <= FifoSize
    BY <1>10, Length DEF Load, TxFull
  <2>3. txPipe' = Append(txPipe, [reply |-> Len(replies), pos |-> loaded])
    BY <1>10 DEF Load
  <2>4. txPipe' \in Seq(TxByte) /\ Len(txPipe') = Len(txPipe) + 1
    BY <2>1, <2>3, PutLast
  <2> QED BY <1>10, <2>2, <2>4 DEF Load
<1>11. CASE Loaded
  BY <1>11 DEF Loaded
<1>12. CASE Sleep
  BY <1>12 DEF Sleep
<1>13. CASE Shutdown
  BY <1>13 DEF Shutdown
<1>14. CASE Signal
  BY <1>14 DEF Signal
<1>15. CASE WriteByte
  <2>1. run \in Runs
    BY <1>15 DEF WriteByte, ProgramTypes, ProgramInv, Runs
  <2>2. /\ Append(rxFifo, run) \in Seq(Runs) /\ Len(Append(rxFifo, run)) = Len(rxFifo) + 1
        /\ Len(rxFifo) \in Nat
    BY <2>1, PutLast
  <2>3. UNCHANGED <<pins, txPipe>>
    BY <1>15 DEF WriteByte
  <2>4. rxFifo' = rxFifo \/ (Len(rxFifo) < FifoSize /\ rxFifo' = Append(rxFifo, run))
    BY <1>15 DEF WriteByte
  <2>5. CASE rxFifo' = rxFifo
    BY <2>3, <2>5
  <2>6. CASE Len(rxFifo) < FifoSize /\ rxFifo' = Append(rxFifo, run)
    <3>1. rxFifo' \in Seq(Runs) /\ Len(rxFifo') <= FifoSize
      BY <2>2, <2>6
    <3> QED BY <2>3, <3>1
  <2> QED BY <2>4, <2>5, <2>6
<1>16. CASE WriteStop
  BY <1>16 DEF WriteStop
<1>17. CASE Nack
  BY <1>17 DEF Nack
<1>18. CASE PollZero
  BY <1>18 DEF PollZero
<1>19. CASE GiveUp
  BY <1>19 DEF GiveUp
<1>20. CASE PollLength
  <2>1. txPipe # <<>> => /\ Tail(txPipe) \in Seq(TxByte) /\ Len(txPipe) \in Nat
                         /\ Len(Tail(txPipe)) = Len(txPipe) - 1
    BY TakeFirst
  <2> QED BY <1>20, <2>1, EmptyInSeq DEF PollLength
<1>21. CASE BeginBody
  BY <1>21 DEF BeginBody
<1>22. CASE ReadBody
  <2>1. txPipe # <<>> => /\ Tail(txPipe) \in Seq(TxByte) /\ Len(txPipe) \in Nat
                         /\ Len(Tail(txPipe)) = Len(txPipe) - 1
    BY TakeFirst
  <2> QED BY <1>22, <2>1, EmptyInSeq DEF ReadBody, TxConsumed
<1>23. ASSUME NEW length \in 0..MaxArgument, Start(length) PROVE BusTypes'
  BY <1>23 DEF Start
<1>24. CASE UNCHANGED vars
  BY <1>24
<1> QED BY <1>1, <1>2, <1>3, <1>4, <1>5, <1>6, <1>7, <1>8, <1>9, <1>10, <1>11, <1>12, <1>13,
           <1>14, <1>15, <1>16, <1>17, <1>18, <1>19, <1>20, <1>21, <1>22, <1>23, <1>24 DEF
           Next, TargetStep, ControllerStep

\* The two programs' variables keep their types.
LEMMA NextPrograms ==
    ASSUME BusTypes, ProgramTypes, HistoryTypes, ProgramInv, [Next]_vars
    PROVE  ProgramTypes'
<1> USE DEF ProgramTypes, Access, Away, vars, busVars, targetVars, ctlVars, historyVars
<1>1. CASE Open
  BY <1>1 DEF Open
<1>2. CASE Drain
  <2>1. Append(received, Head(rxFifo)) \in Seq(Runs)
    BY <1>2, TakeFirst, PutLast DEF Drain, BusTypes
  <2> QED BY <1>2, <2>1 DEF Drain
<1>3. CASE Drained
  BY <1>3 DEF Drained
<1>4. CASE StillReceiving
  BY <1>4 DEF StillReceiving
<1>5. CASE Discard
  BY <1>5, EmptyInSeq DEF Discard
<1>6. CASE Answer
  BY <1>6 DEF Answer
<1>7. CASE Idle
  BY <1>7 DEF Idle
<1>8. CASE Disable
  BY <1>8 DEF Disable
<1>9. CASE Enable
  BY <1>9 DEF Enable
<1>10. CASE Load
  BY <1>10 DEF Load
<1>11. CASE Loaded
  BY <1>11, EmptyInSeq DEF Loaded
<1>12. CASE Sleep
  BY <1>12 DEF Sleep
<1>13. CASE Shutdown
  BY <1>13 DEF Shutdown
<1>14. CASE Signal
  BY <1>14 DEF Signal
<1>15. CASE WriteByte
  BY <1>15 DEF WriteByte
<1>16. CASE WriteStop
  BY <1>16 DEF WriteStop
<1>17. CASE Nack
  BY <1>17 DEF Nack
<1>18. CASE PollZero
  BY <1>18 DEF PollZero
<1>19. CASE GiveUp
  BY <1>19 DEF GiveUp
<1>20. CASE PollLength
  <2>1. Head(txPipe) \in TxByte
    BY <1>20, TakeFirst DEF PollLength, BusTypes
  <2>2. Head(txPipe).reply \in 1..Len(replies)
    BY <1>20, TakeFirst DEF PollLength, BusTypes, ProgramInv
  <2>3. LengthOf(Head(txPipe)) \in Nat
    BY <2>2, ResponseSize DEF LengthOf
  <2> QED BY <1>20, <2>3 DEF PollLength
<1>21. CASE BeginBody
  BY <1>21 DEF BeginBody
<1>22. CASE ReadBody
  <2>1. NextTxByte \in TxByte
    <3>1. Zero \in TxByte
      BY DEF Zero, TxByte
    <3> QED BY <3>1, TakeFirst DEF NextTxByte, BusTypes
  <2>2. Append(got, NextTxByte) \in Seq(TxByte)
    BY <2>1, PutLast
  <2> QED BY <1>22, <2>2 DEF ReadBody
<1>23. ASSUME NEW length \in 0..MaxArgument, Start(length) PROVE ProgramTypes'
  BY <1>23, EmptyInSeq DEF Start, Accepts
<1>24. CASE UNCHANGED vars
  BY <1>24
<1> QED BY <1>1, <1>2, <1>3, <1>4, <1>5, <1>6, <1>7, <1>8, <1>9, <1>10, <1>11, <1>12, <1>13,
           <1>14, <1>15, <1>16, <1>17, <1>18, <1>19, <1>20, <1>21, <1>22, <1>23, <1>24 DEF
           Next, TargetStep, ControllerStep

\* The history keeps its types.
LEMMA NextHistory ==
    ASSUME BusTypes, ProgramTypes, HistoryTypes, ProgramInv, [Next]_vars
    PROVE  HistoryTypes'
<1> USE DEF HistoryTypes, Access, Away, vars, busVars, targetVars, ctlVars, historyVars
<1>1. CASE Open
  BY <1>1 DEF Open
<1>2. CASE Drain
  BY <1>2 DEF Drain
<1>3. CASE Drained
  BY <1>3 DEF Drained
<1>4. CASE StillReceiving
  BY <1>4 DEF StillReceiving
<1>5. CASE Discard
  BY <1>5, ConcatProperties DEF Discard, ProgramTypes
<1>6. CASE Answer
  BY <1>6 DEF Answer
<1>7. CASE Idle
  BY <1>7 DEF Idle
<1>8. CASE Disable
  BY <1>8 DEF Disable
<1>9. CASE Enable
  <2>1. Append(replies, received) \in Seq(Seq(Runs))
    BY PutLast DEF ProgramTypes
  <2> QED BY <1>9, <2>1 DEF Enable
<1>10. CASE Load
  BY <1>10 DEF Load
<1>11. CASE Loaded
  BY <1>11, ConcatProperties DEF Loaded, ProgramTypes
<1>12. CASE Sleep
  BY <1>12 DEF Sleep
<1>13. CASE Shutdown
  BY <1>13 DEF Shutdown
<1>14. CASE Signal
  BY <1>14 DEF Signal
<1>15. CASE WriteByte
  <2>1. run \in Runs
    BY <1>15 DEF WriteByte, ProgramTypes, ProgramInv, Runs
  <2>2. Append(sent, run) \in Seq(Runs)
    BY <2>1, PutLast
  <2> QED BY <1>15, <2>2 DEF WriteByte
<1>16. CASE WriteStop
  BY <1>16 DEF WriteStop
<1>17. CASE Nack
  BY <1>17 DEF Nack
<1>18. CASE PollZero
  BY <1>18 DEF PollZero
<1>19. CASE GiveUp
  BY <1>19 DEF GiveUp
<1>20. CASE PollLength
  BY <1>20 DEF PollLength
<1>21. CASE BeginBody
  BY <1>21 DEF BeginBody
<1>22. CASE ReadBody
  BY <1>22 DEF ReadBody
<1>23. ASSUME NEW length \in 0..MaxArgument, Start(length) PROVE HistoryTypes'
  BY <1>23 DEF Start
<1>24. CASE UNCHANGED vars
  BY <1>24
<1> QED BY <1>1, <1>2, <1>3, <1>4, <1>5, <1>6, <1>7, <1>8, <1>9, <1>10, <1>11, <1>12, <1>13,
           <1>14, <1>15, <1>16, <1>17, <1>18, <1>19, <1>20, <1>21, <1>22, <1>23, <1>24 DEF
           Next, TargetStep, ControllerStep

\* What the target has in hand.
LEMMA NextProgram ==
    ASSUME BusTypes, ProgramTypes, HistoryTypes, ProgramInv, [Next]_vars
    PROVE  ProgramInv'
<1> USE DEF ProgramInv, Access, Away, vars, busVars, targetVars, ctlVars, historyVars
<1>1. CASE Open
  BY <1>1 DEF Open
<1>2. CASE Drain
  BY <1>2 DEF Drain
<1>3. CASE Drained
  BY <1>3 DEF Drained
<1>4. CASE StillReceiving
  BY <1>4 DEF StillReceiving
<1>5. CASE Discard
  BY <1>5 DEF Discard
<1>6. CASE Answer
  BY <1>6 DEF Answer
<1>7. CASE Idle
  BY <1>7 DEF Idle
<1>8. CASE Disable
  BY <1>8 DEF Disable
<1>9. CASE Enable
  <2>1. Append(replies, received) # <<>> /\ Len(Append(replies,
        received)) = Len(replies) + 1 /\ Len(replies) \in Nat
    <3>1. received \in Seq(Runs) /\ replies \in Seq(Seq(Runs))
      BY DEF ProgramTypes, HistoryTypes
    <3> QED BY <3>1, PutLast
  <2>2. \A i \in 1..Len(txPipe') : txPipe'[i].reply \in 1..Len(replies)
    <3>1. CASE txPipe = <<>>
      BY <1>9, <3>1, EmptyInSeq DEF Enable
    <3>2. CASE txPipe # <<>>
      BY <1>9, <3>2, TakeFirst DEF Enable, BusTypes
    <3> QED BY <3>1, <3>2
  <2> QED BY <1>9, <2>1, <2>2 DEF Enable
<1>10. CASE Load
  <2>1. [reply |-> Len(replies), pos |-> loaded] \in TxByte /\ Len(replies) \in Nat \ {0}
    BY <1>10, Length DEF Load, TxByte, HistoryTypes, ProgramTypes
  <2>2. txPipe' = Append(txPipe, [reply |-> Len(replies), pos |-> loaded])
    BY <1>10 DEF Load
  <2>3. /\ Len(txPipe) \in Nat /\ Len(txPipe') = Len(txPipe) + 1
        /\ txPipe'[Len(txPipe) + 1] = [reply |-> Len(replies), pos |-> loaded]
        /\ \A i \in 1..Len(txPipe) : txPipe'[i] = txPipe[i]
    BY <2>1, <2>2, PutLast DEF BusTypes
  <2>4. \A i \in 1..Len(txPipe') : txPipe'[i].reply \in 1..Len(replies)
    BY <2>1, <2>3
  <2> QED BY <1>10, <2>4 DEF Load
<1>11. CASE Loaded
  BY <1>11 DEF Loaded
<1>12. CASE Sleep
  BY <1>12 DEF Sleep
<1>13. CASE Shutdown
  BY <1>13 DEF Shutdown
<1>14. CASE Signal
  BY <1>14 DEF Signal
<1>15. CASE WriteByte
  BY <1>15 DEF WriteByte
<1>16. CASE WriteStop
  BY <1>16 DEF WriteStop
<1>17. CASE Nack
  <2>1. cpc # "idle" /\ cpc' = "failed" /\ UNCHANGED <<tpc, received, replies, run, txPipe>>
    BY <1>17 DEF Nack, OnBus
  <2> QED BY <2>1
<1>18. CASE PollZero
  BY <1>18 DEF PollZero
<1>19. CASE GiveUp
  BY <1>19 DEF GiveUp
<1>20. CASE PollLength
  <2>1. \A i \in 1..Len(Tail(txPipe)) : Tail(txPipe)[i].reply \in 1..Len(replies)
    BY <1>20, TakeFirst DEF PollLength, BusTypes
  <2> QED BY <1>20, <2>1 DEF PollLength
<1>21. CASE BeginBody
  BY <1>21 DEF BeginBody
<1>22. CASE ReadBody
  <2>1. txPipe # <<>> => \A i \in 1..Len(Tail(txPipe)) : Tail(txPipe)[i].reply \in 1..Len(replies)
    BY TakeFirst DEF BusTypes
  <2> QED BY <1>22, <2>1, EmptyInSeq DEF ReadBody, TxConsumed
<1>23. ASSUME NEW length \in 0..MaxArgument, Start(length) PROVE ProgramInv'
  <2>1. run' > 0 /\ cpc' = "write" /\ UNCHANGED <<tpc, received, replies, txPipe>>
    BY <1>23 DEF Start, ProgramTypes
  <2> QED BY <2>1
<1>24. CASE UNCHANGED vars
  BY <1>24
<1> QED BY <1>1, <1>2, <1>3, <1>4, <1>5, <1>6, <1>7, <1>8, <1>9, <1>10, <1>11, <1>12, <1>13,
           <1>14, <1>15, <1>16, <1>17, <1>18, <1>19, <1>20, <1>21, <1>22, <1>23, <1>24 DEF
           Next, TargetStep, ControllerStep

\* Every byte is somewhere.
LEMMA NextBytes ==
    ASSUME BusTypes, ProgramTypes, HistoryTypes, ProgramInv, BytesHandledOnce, [Next]_vars
    PROVE  BytesHandledOnce'
<1> USE DEF BytesHandledOnce, Access, Away, vars, busVars, targetVars, ctlVars, historyVars
<1>1. CASE Open
  BY <1>1 DEF Open
<1>2. CASE Drain
  <2>1. handled \o Append(received, Head(rxFifo)) \o Tail(rxFifo) = handled \o received \o rxFifo
    <3>1. rxFifo \in Seq(Runs) /\ received \in Seq(Runs) /\ handled \in Seq(Runs) /\ rxFifo # <<>>
      BY <1>2 DEF Drain, BusTypes, ProgramTypes, HistoryTypes
    <3> QED BY <3>1, MoveFirst
  <2> QED BY <1>2, <2>1 DEF Drain
<1>3. CASE Drained
  BY <1>3 DEF Drained
<1>4. CASE StillReceiving
  BY <1>4 DEF StillReceiving
<1>5. CASE Discard
  <2>1. handled \o received \in Seq(Runs)
    BY ConcatProperties DEF ProgramTypes, HistoryTypes
  <2>2. (handled \o received) \o <<>> = handled \o received
    BY <2>1, ConcatEmptySeq
  <2> QED BY <1>5, <2>2 DEF Discard
<1>6. CASE Answer
  BY <1>6 DEF Answer
<1>7. CASE Idle
  BY <1>7 DEF Idle
<1>8. CASE Disable
  BY <1>8 DEF Disable
<1>9. CASE Enable
  BY <1>9 DEF Enable
<1>10. CASE Load
  BY <1>10 DEF Load
<1>11. CASE Loaded
  <2>1. handled \o received \in Seq(Runs)
    BY ConcatProperties DEF ProgramTypes, HistoryTypes
  <2>2. (handled \o received) \o <<>> = handled \o received
    BY <2>1, ConcatEmptySeq
  <2> QED BY <1>11, <2>2 DEF Loaded
<1>12. CASE Sleep
  BY <1>12 DEF Sleep
<1>13. CASE Shutdown
  BY <1>13 DEF Shutdown
<1>14. CASE Signal
  BY <1>14 DEF Signal
<1>15. CASE WriteByte
  <2>1. run \in Runs
    BY <1>15 DEF WriteByte, ProgramTypes, ProgramInv, Runs
  <2>2. handled \o received \o Append(rxFifo, run) = Append(handled \o received \o rxFifo, run)
    <3>1. rxFifo \in Seq(Runs) /\ received \in Seq(Runs) /\ handled \in Seq(Runs)
      BY DEF BusTypes, ProgramTypes, HistoryTypes
    <3> QED BY <2>1, <3>1, PutLastOfThree
  <2> QED BY <1>15, <2>2 DEF WriteByte
<1>16. CASE WriteStop
  BY <1>16 DEF WriteStop
<1>17. CASE Nack
  BY <1>17 DEF Nack
<1>18. CASE PollZero
  BY <1>18 DEF PollZero
<1>19. CASE GiveUp
  BY <1>19 DEF GiveUp
<1>20. CASE PollLength
  BY <1>20 DEF PollLength
<1>21. CASE BeginBody
  BY <1>21 DEF BeginBody
<1>22. CASE ReadBody
  BY <1>22 DEF ReadBody
<1>23. ASSUME NEW length \in 0..MaxArgument, Start(length) PROVE BytesHandledOnce'
  BY <1>23 DEF Start
<1>24. CASE UNCHANGED vars
  BY <1>24
<1> QED BY <1>1, <1>2, <1>3, <1>4, <1>5, <1>6, <1>7, <1>8, <1>9, <1>10, <1>11, <1>12, <1>13,
           <1>14, <1>15, <1>16, <1>17, <1>18, <1>19, <1>20, <1>21, <1>22, <1>23, <1>24 DEF
           Next, TargetStep, ControllerStep

\* A run that finds all in order leaves it so.
LEMMA NextOrder ==
    ASSUME FlagTypes, BusTypes, ProgramTypes, HistoryTypes, ProgramInv, OrderInv, [Next]_vars
    PROVE  OrderInv'
<1> USE DEF OrderInv, Access, Away, vars, busVars, targetVars, ctlVars, historyVars
<1>1. CASE Open
  BY <1>1 DEF Open, RunInv, Answered, PendingInv, AnsweredInv, ResponseLen, FlagTypes,
     BusTypes, ProgramTypes, HistoryTypes, ProgramInv
<1>2. CASE Drain
  <2> SUFFICES ASSUME ~disordered'
               PROVE  RunInv' /\ ~lost' /\ (~Answered' => PendingInv')
               /\ (Answered' => AnsweredInv')
    OBVIOUS
  <2>1. ~disordered /\ RunInv /\ ~lost /\ (~Answered => PendingInv) /\ (Answered => AnsweredInv)
    BY <1>2 DEF Drain
  <2>2. rxFifo # <<>> /\ ~Answered /\ PendingInv
    BY <1>2, <2>1 DEF Drain, AnsweredInv
  <2>3. /\ tpc = "drain" /\ received' = Append(received, Head(rxFifo)) /\ rxFifo' = Tail(rxFifo)
        /\ UNCHANGED <<tpc, cpc, run, message, sending, got, rxBusy, txPipe, loaded, lost,
                       replies>>
    BY <1>2 DEF Drain
  <2>4. /\ Len(rxFifo) \in Nat \ {0} /\ Len(rxFifo') = Len(rxFifo) - 1
        /\ Head(rxFifo) = run /\ Head(rxFifo) \in Runs
        /\ \A i \in 1..Len(rxFifo') : rxFifo'[i] = run
    BY <2>2, <2>3, TakeFirst DEF BusTypes, PendingInv
  <2>5. /\ Len(received) \in Nat /\ Len(received') = Len(received) + 1
        /\ \A i \in 1..Len(received') : received'[i] = run
    <3>1. \A i \in 1..Len(received) : received[i] = run
      BY <2>2, <2>3 DEF PendingInv
    <3>2. received \in Seq(Runs)
      BY DEF ProgramTypes
    <3>3. run \in Runs /\ received' = Append(received, run)
      BY <2>3, <2>4
    <3>4. /\ Len(received) \in Nat /\ Len(received') = Len(received) + 1
          /\ \A i \in 1..Len(received) : received'[i] = received[i]
          /\ received'[Len(received) + 1] = run
      BY <3>2, <3>3, PutLast
    <3> QED BY <3>1, <3>4
  <2>6. RunInv' /\ ~Answered'
    BY <2>1, <2>2, <2>3 DEF RunInv, Answered
  <2>7. PendingInv'
    <3>1. Len(received') + Len(rxFifo') = sending
      <4>1. Len(received) + Len(rxFifo) = sending
        BY <2>2, <2>3 DEF PendingInv
      <4> QED BY <2>4, <2>5, <4>1
    <3> QED BY <2>2, <2>3, <2>4, <2>5, <3>1 DEF PendingInv
  <2> QED BY <2>1, <2>3, <2>6, <2>7
<1>3. CASE Drained
  BY <1>3 DEF Drained, RunInv, Answered, PendingInv, AnsweredInv, ResponseLen, FlagTypes,
     BusTypes, ProgramTypes, HistoryTypes, ProgramInv
<1>4. CASE StillReceiving
  BY <1>4 DEF StillReceiving, RunInv, Answered, PendingInv, AnsweredInv, ResponseLen,
     FlagTypes, BusTypes, ProgramTypes, HistoryTypes, ProgramInv
<1>5. CASE Discard
  BY <1>5 DEF Discard, RunInv, Answered, PendingInv, AnsweredInv, ResponseLen, FlagTypes,
     BusTypes, ProgramTypes, HistoryTypes, ProgramInv
<1>6. CASE Answer
  <2> SUFFICES ASSUME ~disordered'
               PROVE  RunInv' /\ ~lost' /\ (~Answered' => PendingInv')
               /\ (Answered' => AnsweredInv')
    OBVIOUS
  <2>1. ~disordered /\ RunInv /\ ~lost /\ (~Answered => PendingInv) /\ (Answered => AnsweredInv)
    BY <1>6 DEF Answer
  <2>2. /\ tpc = "receiving" /\ tpc' = "busy" /\ ~rxBusy /\ rxFifo = <<>>
        /\ UNCHANGED <<cpc, run, message, sending, got, rxBusy, rxFifo, received, txPipe,
                       loaded, lost, replies>>
    BY <1>6 DEF Answer
  <2>3. ~Answered /\ PendingInv
    BY <2>1, <2>2 DEF AnsweredInv
  <2>4. sending > 0
    BY <2>2, <2>3, Length DEF PendingInv, ProgramInv, ProgramTypes, BusTypes
  <2>5. cpc = "sent"
    BY <2>1, <2>2, <2>3, <2>4 DEF PendingInv, RunInv, ProgramInv
  <2>6. RunInv' /\ ~Answered'
    BY <2>1, <2>2, <2>3 DEF RunInv, Answered
  <2>7. PendingInv'
    BY <2>2, <2>3, <2>5 DEF PendingInv
  <2> QED BY <2>1, <2>2, <2>6, <2>7
<1>7. CASE Idle
  BY <1>7 DEF Idle, RunInv, Answered, PendingInv, AnsweredInv, ResponseLen, FlagTypes,
     BusTypes, ProgramTypes, HistoryTypes, ProgramInv
<1>8. CASE Disable
  BY <1>8 DEF Disable, RunInv, Answered, PendingInv, AnsweredInv, ResponseLen, FlagTypes,
     BusTypes, ProgramTypes, HistoryTypes, ProgramInv
<1>9. CASE Enable
  <2> SUFFICES ASSUME ~disordered'
               PROVE  RunInv' /\ ~lost' /\ (~Answered' => PendingInv')
               /\ (Answered' => AnsweredInv')
    OBVIOUS
  <2>1. ~disordered /\ RunInv /\ ~lost /\ (~Answered => PendingInv) /\ (Answered => AnsweredInv)
    BY <1>9 DEF Enable
  <2>2. /\ tpc = "enable" /\ tpc' = "load" /\ replies' = Append(replies, received) /\ loaded' = 0
        /\ txPipe' = (IF txPipe = <<>> THEN <<>> ELSE Tail(txPipe))
        /\ UNCHANGED <<cpc, run, message, sending, got, rxBusy, rxFifo, received, lost>>
    BY <1>9 DEF Enable
  <2>3. ~Answered /\ PendingInv
    BY <2>1, <2>2 DEF AnsweredInv
  <2>4. /\ cpc = "sent" /\ rxFifo = <<>> /\ txPipe = <<>> /\ Len(replies) = run - 1 /\ run > 0
        /\ Len(received) + Len(rxFifo) = sending /\ sending = message
        /\ \A i \in 1..Len(received) : received[i] = run
    BY <2>1, <2>2, <2>3 DEF PendingInv, RunInv, ProgramInv, ProgramTypes
  <2>5. Len(received) = message /\ Len(received) \in Nat
    BY <2>4, EmptyInSeq, Length DEF ProgramTypes
  <2>6. Len(replies') = run /\ replies'[run] = received
    <3>1. replies \in Seq(Seq(Runs)) /\ received \in Seq(Runs)
      BY DEF HistoryTypes, ProgramTypes
    <3>2. /\ Len(replies) \in Nat /\ Len(replies') = Len(replies) + 1
          /\ replies'[Len(replies) + 1] = received
      BY <2>2, <3>1, PutLast
    <3>3. Len(replies) + 1 = run
      BY <2>4 DEF ProgramTypes
    <3> QED BY <3>2, <3>3
  <2>7. ResponseLen(run)' \in Nat
    BY <2>2, <2>5, <2>6 DEF ResponseLen
  <2>8. RunInv' /\ Answered'
    BY <2>1, <2>2, <2>4, <2>6 DEF RunInv, Answered
  <2>9. AnsweredInv'
    <3>1. txPipe' = <<>> /\ Len(txPipe') = 0
      BY <2>2, <2>4, EmptyInSeq
    <3> QED BY <2>2, <2>4, <2>5, <2>6, <2>7, <3>1 DEF AnsweredInv
  <2> QED BY <2>1, <2>2, <2>8, <2>9
<1>10. CASE Load
  <2> SUFFICES ASSUME ~disordered'
               PROVE  RunInv' /\ ~lost' /\ (~Answered' => PendingInv')
               /\ (Answered' => AnsweredInv')
    OBVIOUS
  <2>1. ~disordered /\ RunInv /\ ~lost /\ (~Answered => PendingInv) /\ (Answered => AnsweredInv)
    BY <1>10 DEF Load
  <2>2. /\ tpc = "load" /\ tpc' = "load" /\ loaded <= ResponseLen(Len(replies))
        /\ loaded' = loaded + 1
        /\ txPipe' = Append(txPipe, [reply |-> Len(replies), pos |-> loaded])
        /\ UNCHANGED <<cpc, run, message, sending, got, rxBusy, rxFifo, received, expected,
                       lost, replies>>
    BY <1>10 DEF Load
  <2>3. Len(replies) \in Nat \ {0} /\ loaded \in Nat
    BY <2>2, Length DEF ProgramInv, ProgramTypes, HistoryTypes
  <2>4. ResponseLen(Len(replies)) \in Nat
    BY <2>3, ResponseSize
  <2>5. Answered /\ AnsweredInv /\ Len(replies) = run
    BY <2>1, <2>2, <2>3, <2>4 DEF PendingInv, Answered
  <2>6. /\ Len(txPipe) \in Nat /\ Len(txPipe') = Len(txPipe) + 1
        /\ \A i \in 1..Len(txPipe) : txPipe'[i] = txPipe[i]
        /\ txPipe'[Len(txPipe) + 1] = [reply |-> run, pos |-> loaded]
    <3>1. [reply |-> run, pos |-> loaded] \in TxByte
      BY <2>3, <2>5 DEF TxByte
    <3>2. txPipe \in Seq(TxByte) /\ txPipe' = Append(txPipe, [reply |-> run, pos |-> loaded])
      BY <2>2, <2>5 DEF BusTypes
    <3> QED BY <3>1, <3>2, PutLast
  <2>7. RunInv' /\ Answered'
    BY <2>1, <2>2, <2>5 DEF RunInv, Answered
  <2>8. Len(got) \in Nat
    BY Length DEF ProgramTypes
  <2>9. ResponseLen(run)' = ResponseLen(run)
    BY <2>2 DEF ResponseLen
  <2>10. cpc # "done"
    BY <2>2, <2>4, <2>5, <2>8, EmptyInSeq DEF AnsweredInv
  <2>11. CASE cpc = "sent"
    <3>1. /\ Len(txPipe') = loaded'
          /\ \A i \in 1..loaded' : txPipe'[i] = [reply |-> run, pos |-> i - 1]
      BY <2>2, <2>3, <2>5, <2>6, <2>11 DEF AnsweredInv
    <3>2. AnsweredInv'
      BY <2>2, <2>3, <2>4, <2>5, <2>9, <2>11, <3>1 DEF AnsweredInv
    <3> QED BY <2>1, <2>2, <2>7, <3>2
  <2>12. CASE cpc # "sent"
    <3>1. /\ loaded = Len(got) + Len(txPipe) + 1
          /\ \A i \in 1..Len(txPipe) : txPipe[i] = [reply |-> run, pos |-> Len(got) + i]
      BY <2>5, <2>12 DEF AnsweredInv
    <3>2. loaded = Len(got) + (Len(txPipe) + 1)
      BY <2>6, <2>8, <3>1
    <3>3. \A i \in 1..Len(txPipe') : txPipe'[i] = [reply |-> run, pos |-> Len(got) + i]
      <4> SUFFICES ASSUME NEW i \in 1..Len(txPipe')
          PROVE txPipe'[i] = [reply |-> run, pos |-> Len(got) + i]
        OBVIOUS
      <4>1. CASE i \in 1..Len(txPipe)
        BY <2>6, <3>1, <4>1
      <4>2. CASE i = Len(txPipe) + 1
        BY <2>6, <3>2, <4>2
      <4> QED BY <2>6, <4>1, <4>2
    <3>4. /\ loaded' = Len(got) + Len(txPipe') + 1
          /\ \A i \in 1..Len(txPipe') : txPipe'[i] = [reply |-> run, pos |-> Len(got) + i]
      BY <2>2, <2>6, <2>8, <3>2, <3>3
    <3>5. AnsweredInv'
      BY <2>2, <2>3, <2>4, <2>5, <2>9, <2>10, <2>12, <3>4 DEF AnsweredInv
    <3> QED BY <2>1, <2>2, <2>7, <3>5
  <2> QED BY <2>11, <2>12
<1>11. CASE Loaded
  <2> SUFFICES ASSUME ~disordered'
               PROVE  RunInv' /\ ~lost' /\ (~Answered' => PendingInv')
               /\ (Answered' => AnsweredInv')
    OBVIOUS
  <2>1. ~disordered /\ RunInv /\ ~lost /\ (~Answered => PendingInv) /\ (Answered => AnsweredInv)
    BY <1>11 DEF Loaded
  <2>2. /\ tpc = "load" /\ tpc' = "sleep" /\ loaded > ResponseLen(Len(replies))
        /\ received' = <<>>
        /\ UNCHANGED <<cpc, run, message, sending, got, rxBusy, rxFifo, txPipe, loaded,
                       expected, lost, replies>>
    BY <1>11 DEF Loaded
  <2>3. RunInv' /\ (Answered' <=> Answered)
    BY <2>1, <2>2 DEF RunInv, Answered
  <2>4. ASSUME ~Answered PROVE PendingInv'
    <3>1. Len(received') = 0 /\ Len(rxFifo) \in Nat
      BY <2>2, EmptyInSeq, Length DEF BusTypes
    <3> QED BY <2>1, <2>2, <2>4, <3>1 DEF PendingInv
  <2>5. ASSUME Answered PROVE AnsweredInv'
    <3>1. Len(replies) = run /\ ResponseLen(run) \in Nat /\ loaded = ResponseLen(run) + 1
      <4>1. Len(replies) = run /\ run \in 1..Len(replies)
        BY <2>5 DEF Answered, ProgramTypes
      <4>2. ResponseLen(run) \in Nat
        BY <4>1, ResponseSize
      <4> QED BY <2>1, <2>2, <2>5, <4>1, <4>2 DEF AnsweredInv, ProgramTypes
    <3>2. ResponseLen(run)' = ResponseLen(run)
      BY <2>2 DEF ResponseLen
    <3> QED BY <2>1, <2>2, <2>5, <3>1, <3>2 DEF AnsweredInv
  <2> QED BY <2>1, <2>2, <2>3, <2>4, <2>5
<1>12. CASE Sleep
  BY <1>12 DEF Sleep, RunInv, Answered, PendingInv, AnsweredInv, ResponseLen, FlagTypes,
     BusTypes, ProgramTypes, HistoryTypes, ProgramInv
<1>13. CASE Shutdown
  BY <1>13 DEF Shutdown, RunInv, Answered, PendingInv, AnsweredInv, ResponseLen, FlagTypes,
     BusTypes, ProgramTypes, HistoryTypes, ProgramInv
<1>14. CASE Signal
  BY <1>14 DEF Signal, RunInv, Answered, PendingInv, AnsweredInv, ResponseLen, FlagTypes,
     BusTypes, ProgramTypes, HistoryTypes, ProgramInv
<1>15. CASE WriteByte
  <2> SUFFICES ASSUME ~disordered'
               PROVE  RunInv' /\ ~lost' /\ (~Answered' => PendingInv')
               /\ (Answered' => AnsweredInv')
    OBVIOUS
  <2>1. ~disordered /\ RunInv /\ ~lost /\ (~Answered => PendingInv) /\ (Answered => AnsweredInv)
    BY <1>15 DEF WriteByte
  <2>2. /\ cpc = "write" /\ cpc' = "write" /\ sending < message /\ sending' = sending + 1
        /\ rxBusy' = TRUE
        /\ IF Len(rxFifo) < FifoSize THEN rxFifo' = Append(rxFifo, run) /\ UNCHANGED lost
                                     ELSE lost' = TRUE /\ UNCHANGED rxFifo
        /\ UNCHANGED <<tpc, run, message, got, received, txPipe, loaded, expected, replies>>
    BY <1>15 DEF WriteByte
  <2>3. ~Answered /\ PendingInv
    BY <2>1, <2>2 DEF AnsweredInv
  <2>4. Len(rxFifo) \in Nat /\ Len(received) \in Nat
    BY Length DEF BusTypes, ProgramTypes
  <2>5. Len(rxFifo) <= sending
    BY <2>3, <2>4 DEF PendingInv, ProgramTypes
  <2>6. run \in Runs /\ message <= MaxCommand
    BY <2>1, <2>2 DEF RunInv, ProgramInv, ProgramTypes, Runs
  <2>7. rxFifo' = Append(rxFifo, run) /\ UNCHANGED lost
    BY <2>2, <2>4, <2>5, <2>6 DEF ProgramTypes
  <2>8. /\ Len(rxFifo') = Len(rxFifo) + 1 /\ \A i \in 1..Len(rxFifo') : rxFifo'[i] = run
    <3>1. /\ Len(rxFifo') = Len(rxFifo) + 1 /\ rxFifo'[Len(rxFifo) + 1] = run
          /\ \A i \in 1..Len(rxFifo) : rxFifo'[i] = rxFifo[i]
      BY <2>6, <2>7, PutLast DEF BusTypes
    <3>2. \A i \in 1..Len(rxFifo) : rxFifo[i] = run
      BY <2>3 DEF PendingInv
    <3> QED BY <2>4, <3>1, <3>2
  <2>9. RunInv' /\ ~Answered'
    <3>1. sending' > 0 /\ sending' <= message
      BY <2>2 DEF ProgramTypes
    <3>2. run > 0
      BY <2>2 DEF ProgramInv, ProgramTypes
    <3>3. ~Answered'
      BY <2>2, <2>3 DEF Answered
    <3>4. rxBusy' <=> cpc' = "write" /\ sending' > 0
      BY <2>2, <3>1
    <3> QED BY <2>1, <2>2, <3>1, <3>2, <3>3, <3>4 DEF RunInv
  <2>10. PendingInv'
    BY <2>2, <2>3, <2>4, <2>8 DEF PendingInv, ResponseLen, ProgramTypes
  <2> QED BY <2>1, <2>7, <2>9, <2>10
<1>16. CASE WriteStop
  BY <1>16 DEF WriteStop, RunInv, Answered, PendingInv, AnsweredInv, ResponseLen, FlagTypes,
     BusTypes, ProgramTypes, HistoryTypes, ProgramInv
<1>17. CASE Nack
  BY <1>17 DEF Nack, RunInv, Answered, PendingInv, AnsweredInv, ResponseLen, FlagTypes,
     BusTypes, ProgramTypes, HistoryTypes, ProgramInv
<1>18. CASE PollZero
  BY <1>18 DEF PollZero, RunInv, Answered, PendingInv, AnsweredInv, ResponseLen, FlagTypes,
     BusTypes, ProgramTypes, HistoryTypes, ProgramInv
<1>19. CASE GiveUp
  BY <1>19 DEF GiveUp, RunInv, Answered, PendingInv, AnsweredInv, ResponseLen, FlagTypes,
     BusTypes, ProgramTypes, HistoryTypes, ProgramInv
<1>20. CASE PollLength
  <2> SUFFICES ASSUME ~disordered'
               PROVE  RunInv' /\ ~lost' /\ (~Answered' => PendingInv')
               /\ (Answered' => AnsweredInv')
    OBVIOUS
  <2>1. ~disordered /\ RunInv /\ ~lost /\ (~Answered => PendingInv) /\ (Answered => AnsweredInv)
    BY <1>20 DEF PollLength
  <2>2. /\ cpc = "sent" /\ cpc' = "reply" /\ txPipe # <<>> /\ txPipe' = Tail(txPipe)
        /\ expected' = LengthOf(Head(txPipe))
        /\ UNCHANGED <<tpc, run, message, sending, got, rxBusy, rxFifo, received, loaded, lost,
                       replies>>
    BY <1>20 DEF PollLength
  <2>3. Answered /\ AnsweredInv
    BY <2>1, <2>2 DEF PendingInv
  <2>4. /\ Len(txPipe) \in Nat \ {0} /\ Len(txPipe') = Len(txPipe) - 1 /\ Head(txPipe) = txPipe[1]
        /\ \A i \in 1..Len(txPipe) - 1 : txPipe'[i] = txPipe[i + 1]
    BY <2>2, TakeFirst DEF BusTypes
  <2>5. Len(txPipe) = loaded /\ \A i \in 1..loaded : txPipe[i] = [reply |-> run, pos |-> i - 1]
    BY <2>2, <2>3 DEF AnsweredInv
  <2>6. expected' = ResponseLen(run)
    <3>1. Head(txPipe).pos = 0 /\ Head(txPipe).reply = run
      BY <2>4, <2>5
    <3> QED BY <2>2, <3>1 DEF LengthOf
  <2>7. got = <<>> /\ Len(got) = 0
    BY <2>1, <2>2, EmptyInSeq DEF RunInv
  <2>8. \A i \in 1..Len(txPipe') : txPipe'[i] = [reply |-> run, pos |-> Len(got) + i]
    <3> SUFFICES ASSUME NEW i \in 1..Len(txPipe') PROVE txPipe'[i] = [reply |-> run, pos |-> i]
      BY <2>7
    <3>1. i \in 1..Len(txPipe) - 1 /\ i + 1 \in 1..loaded /\ (i + 1) - 1 = i
      BY <2>4, <2>5
    <3> QED BY <2>4, <2>5, <3>1
  <2>9. RunInv' /\ Answered'
    BY <2>1, <2>2, <2>3 DEF RunInv, Answered
  <2>10. ResponseLen(run)' = ResponseLen(run)
    BY <2>2 DEF ResponseLen
  <2>11. AnsweredInv'
    BY <2>2, <2>3, <2>4, <2>5, <2>6, <2>7, <2>8, <2>10 DEF AnsweredInv
  <2> QED BY <2>1, <2>2, <2>9, <2>11
<1>21. CASE BeginBody
  <2> SUFFICES ASSUME ~disordered'
               PROVE  RunInv' /\ ~lost' /\ (~Answered' => PendingInv')
               /\ (Answered' => AnsweredInv')
    OBVIOUS
  <2>1. ~disordered /\ RunInv /\ ~lost /\ (~Answered => PendingInv) /\ (Answered => AnsweredInv)
    BY <1>21 DEF BeginBody
  <2>2. /\ cpc = "reply" /\ cpc' = "body"
        /\ UNCHANGED <<tpc, run, message, sending, expected, got, rxBusy, rxFifo, received,
                       txPipe, loaded, lost, replies>>
    BY <1>21 DEF BeginBody
  <2>3. Answered /\ AnsweredInv
    BY <2>1, <2>2 DEF PendingInv
  <2>4. got = <<>> /\ Len(got) = 0
    BY <2>1, <2>2, EmptyInSeq DEF RunInv
  <2>5. ResponseLen(run) \in Nat \ {0}
    BY <2>3, ResponseSize DEF Answered, ProgramTypes
  <2>6. RunInv' /\ Answered'
    BY <2>1, <2>2, <2>3 DEF RunInv, Answered
  <2>7. ResponseLen(run)' = ResponseLen(run)
    BY <2>2 DEF ResponseLen
  <2>8. AnsweredInv'
    BY <2>2, <2>3, <2>4, <2>5, <2>7 DEF AnsweredInv
  <2> QED BY <2>1, <2>2, <2>6, <2>8
<1>22. CASE ReadBody
  <2> SUFFICES ASSUME ~disordered'
               PROVE  RunInv' /\ ~lost' /\ (~Answered' => PendingInv')
               /\ (Answered' => AnsweredInv')
    OBVIOUS
  <2>1. ~disordered /\ RunInv /\ ~lost /\ (~Answered => PendingInv) /\ (Answered => AnsweredInv)
    BY <1>22 DEF ReadBody
  <2>2. /\ cpc = "body" /\ cpc' = (IF Len(got) + 1 < expected THEN "body" ELSE "done")
        /\ txPipe # <<>> /\ txPipe' = Tail(txPipe) /\ got' = Append(got, Head(txPipe))
        /\ UNCHANGED <<tpc, run, message, sending, expected, rxBusy, rxFifo, received, loaded,
                       lost, replies>>
    BY <1>22 DEF ReadBody, NextTxByte, TxConsumed
  <2>3. Answered /\ AnsweredInv
    BY <2>1, <2>2 DEF PendingInv
  <2>4. /\ Len(txPipe) \in Nat \ {0} /\ Len(txPipe') = Len(txPipe) - 1
        /\ Head(txPipe) = txPipe[1] /\ Head(txPipe) \in TxByte
        /\ \A i \in 1..Len(txPipe) - 1 : txPipe'[i] = txPipe[i + 1]
    BY <2>2, TakeFirst DEF BusTypes
  <2>5. /\ Len(got) \in Nat /\ Len(got') = Len(got) + 1 /\ got'[Len(got) + 1] = txPipe[1]
        /\ \A i \in 1..Len(got) : got'[i] = got[i]
    <3>1. got \in Seq(TxByte) /\ txPipe[1] \in TxByte /\ got' = Append(got, txPipe[1])
      BY <2>2, <2>4 DEF ProgramTypes
    <3> QED BY <3>1, PutLast
  <2>6. /\ expected = ResponseLen(run) /\ loaded = Len(got) + Len(txPipe) + 1
        /\ Len(got) < expected
        /\ \A i \in 1..Len(got) : got[i] = [reply |-> run, pos |-> i]
        /\ \A i \in 1..Len(txPipe) : txPipe[i] = [reply |-> run, pos |-> Len(got) + i]
        /\ loaded <= ResponseLen(run) + 1
    BY <2>2, <2>3 DEF AnsweredInv
  <2>7. ResponseLen(run) \in Nat \ {0}
    BY <2>3, ResponseSize DEF Answered, ProgramTypes
  <2>8. \A i \in 1..Len(got') : got'[i] = [reply |-> run, pos |-> i]
    <3>1. txPipe[1] = [reply |-> run, pos |-> Len(got) + 1]
      BY <2>4, <2>6
    <3> SUFFICES ASSUME NEW i \in 1..Len(got') PROVE got'[i] = [reply |-> run, pos |-> i]
      OBVIOUS
    <3>2. CASE i \in 1..Len(got)
      BY <2>5, <2>6, <3>2
    <3>3. CASE i = Len(got) + 1
      BY <2>5, <3>1, <3>3
    <3> QED BY <2>5, <3>2, <3>3
  <2>9. \A i \in 1..Len(txPipe') : txPipe'[i] = [reply |-> run, pos |-> Len(got') + i]
    <3> SUFFICES ASSUME NEW i \in 1..Len(txPipe')
        PROVE txPipe'[i] = [reply |-> run, pos |-> Len(got') + i]
      OBVIOUS
    <3>1. i \in 1..Len(txPipe) - 1 /\ i + 1 \in 1..Len(txPipe)
          /\ Len(got) + (i + 1) = Len(got') + i
      BY <2>4, <2>5
    <3> QED BY <2>4, <2>6, <3>1
  <2>10. loaded = Len(got') + Len(txPipe') + 1
    BY <2>4, <2>5, <2>6
  <2>11. cpc' = "body" => Len(got') < expected
    BY <2>2, <2>5
  <2>12. cpc' = "done" => Len(got') = expected /\ txPipe' = <<>>
    <3> SUFFICES ASSUME cpc' = "done" PROVE Len(got') = expected /\ txPipe' = <<>>
      OBVIOUS
    <3>1. Len(got') = expected /\ Len(txPipe') = 0
      BY <2>2, <2>4, <2>5, <2>6, <2>7, <2>10
    <3> QED BY <2>2, <3>1, TakeFirst, Length DEF BusTypes
  <2>13. RunInv' /\ Answered'
    BY <2>1, <2>2, <2>3 DEF RunInv, Answered
  <2>14. ResponseLen(run)' = ResponseLen(run)
    BY <2>2 DEF ResponseLen
  <2>15. AnsweredInv'
    BY <2>2, <2>3, <2>6, <2>8, <2>9, <2>10, <2>11, <2>12, <2>14 DEF AnsweredInv
  <2> QED BY <2>1, <2>2, <2>13, <2>15
<1>23. ASSUME NEW length \in 0..MaxArgument, Start(length) PROVE OrderInv'
  <2> SUFFICES ASSUME ~disordered'
               PROVE  RunInv' /\ ~lost' /\ (~Answered' => PendingInv')
               /\ (Answered' => AnsweredInv')
    OBVIOUS
  <2>1. ~disordered /\ RunInv /\ ~lost /\ (~Answered => PendingInv) /\ (Answered => AnsweredInv)
    BY <1>23 DEF Start, Accepts
  <2>2. /\ cpc \in {"idle", "done", "failed"} /\ cpc' = "write" /\ run' = run + 1
        /\ message' = length
        /\ length \in 1..MaxCommand /\ sending' = 0 /\ got' = <<>>
        /\ UNCHANGED <<tpc, rxBusy, rxFifo, received, txPipe, loaded, lost, replies>>
    BY <1>23 DEF Start, Accepts
  <2>3. Len(replies) \in Nat /\ Len(rxFifo) \in Nat /\ Len(received) \in Nat
    BY Length DEF BusTypes, ProgramTypes, HistoryTypes
  <2>4. rxBusy = FALSE
    BY <2>1, <2>2 DEF RunInv, FlagTypes
  <2>5. /\ Len(replies) = run /\ txPipe = <<>> /\ Len(rxFifo) = 0
        /\ tpc \notin {"busy", "disable", "enable"}
        /\ tpc = "load" => loaded > ResponseLen(Len(replies))
        /\ tpc # "load" => Len(received) = 0
    <3>1. CASE cpc = "idle"
      <4>1. run = 0 /\ sending = 0 /\ PendingInv
        BY <2>1, <3>1 DEF RunInv, ProgramInv, Answered
      <4>2. Len(replies) = 0 /\ replies = <<>>
        BY <4>1, Length DEF PendingInv, HistoryTypes
      <4> QED BY <2>3, <3>1, <4>1, <4>2 DEF PendingInv, ProgramInv
    <3>2. CASE cpc = "done"
      <4>1. Answered /\ AnsweredInv
        BY <2>1, <3>2 DEF PendingInv
      <4>2. ResponseLen(run) \in Nat /\ Len(replies) = run
        BY <4>1, ResponseSize DEF Answered, ProgramTypes
      <4> QED BY <3>2, <4>1, <4>2, EmptyInSeq DEF AnsweredInv, ProgramTypes
    <3> QED BY <2>1, <2>2, <3>1, <3>2 DEF RunInv
  <2>6. RunInv'
    BY <2>2, <2>4 DEF RunInv, ProgramTypes
  <2>7. ~Answered'
    BY <2>2, <2>5 DEF Answered, ProgramTypes
  <2>8. PendingInv'
    BY <2>2, <2>3, <2>5 DEF PendingInv, ResponseLen, ProgramTypes
  <2> QED BY <2>1, <2>2, <2>6, <2>7, <2>8
<1>24. CASE UNCHANGED vars
  BY <1>24 DEF RunInv, Answered, PendingInv, AnsweredInv, ResponseLen
<1> QED BY <1>1, <1>2, <1>3, <1>4, <1>5, <1>6, <1>7, <1>8, <1>9, <1>10, <1>11, <1>12, <1>13,
           <1>14, <1>15, <1>16, <1>17, <1>18, <1>19, <1>20, <1>21, <1>22, <1>23, <1>24 DEF
           Next, TargetStep, ControllerStep

\* The initial state satisfies the invariant.
LEMMA InitInv == Init => IInv
<1> SUFFICES ASSUME Init PROVE IInv
  OBVIOUS
<1>1. \A S : <<>> \in Seq(S)
  BY EmptyInSeq
<1>2. Len(<<>>) = 0
  BY EmptyInSeq
<1>3. FlagTypes
  BY Zenon DEF Init, FlagTypes
<1>4. BusTypes /\ ProgramTypes /\ HistoryTypes
  BY <1>1, <1>2 DEF Init, BusTypes, ProgramTypes, HistoryTypes
<1>5. ProgramInv
  BY <1>2 DEF Init, ProgramInv
<1>6. RunInv /\ PendingInv /\ ~Answered
  BY <1>2 DEF Init, RunInv, PendingInv, Answered
<1>7. BytesHandledOnce
  <2>1. <<>> \o <<>> \o <<>> = <<>>
    BY <1>1, ConcatEmptySeq
  <2> QED BY <2>1 DEF Init, BytesHandledOnce
<1> QED BY <1>3, <1>4, <1>5, <1>6, <1>7 DEF Init, IInv, OrderInv

\* In every state of every behaviour.
THEOREM Invariant == Spec => []IInv
<1>1. IInv /\ [Next]_vars => IInv'
  BY NextFlags, NextBus, NextPrograms, NextHistory, NextProgram, NextBytes, NextOrder DEF IInv
<1> QED BY <1>1, InitInv, PTL DEF Spec

-----------------------------------------------------------------------------
(* The properties. *)

\* Type correctness: the register accesses never find more bytes than the FIFOs hold.
THEOREM TypeCorrect == Spec => []TypeOK
<1>1. IInv => TypeOK
  BY TypeParts DEF IInv
<1> QED BY <1>1, Invariant, PTL

\* The loop answers or discards every byte that the FIFO took, once and in order.
THEOREM NoByteLost == Spec => []BytesHandledOnce
<1>1. IInv => BytesHandledOnce
  BY DEF IInv
<1> QED BY <1>1, Invariant, PTL

\* As long as nothing has gone out of order, MAX_COMMAND keeps the FIFO from overrunning.
THEOREM NoOverrun == Spec => []NoOverrunInOrder
<1>1. IInv => NoOverrunInOrder
  BY DEF IInv, OrderInv, NoOverrunInOrder
<1> QED BY <1>1, Invariant, PTL

\* As long as nothing has gone out of order, a run that ends well has read its own reply.
THEOREM RepliesOwn == Spec => []OwnReply
<1>1. IInv => OwnReply
  <2> SUFFICES ASSUME IInv, cpc = "done", ~disordered
               PROVE  LET r == Len(replies) IN
                      /\ replies[r] = [i \in 1..message |-> run]
                      /\ got = [i \in 1..ResponseLen(r) |-> [reply |-> r, pos |-> i]]
    BY DEF OwnReply
  <2>1. Answered /\ AnsweredInv /\ Len(replies) = run /\ RunInv
    BY DEF IInv, OrderInv, PendingInv, Answered
  <2>2. replies[run] \in Seq(Runs) /\ got \in Seq(TxByte)
    BY <2>1, ResponseSize DEF IInv, ProgramTypes, Answered
  <2>3. replies[run] = [i \in 1..message |-> run]
    BY <2>1, <2>2, LenProperties DEF AnsweredInv
  <2>4. got = [i \in 1..ResponseLen(run) |-> [reply |-> run, pos |-> i]]
    BY <2>1, <2>2, LenProperties DEF AnsweredInv
  <2> QED BY <2>1, <2>3, <2>4
<1> QED BY <1>1, Invariant, PTL
=============================================================================
