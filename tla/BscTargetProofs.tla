--------------------------- MODULE BscTargetProofs ---------------------------
(***************************************************************************)
(* Proofs about BscTarget, for every FIFO size, transfer limit, ring size  *)
(* and bound, with and without READY.  The inductive invariant is built in *)
(* layers; each layer is preserved by every step that starts and ends in   *)
(* the layers below it.                                                    *)
(***************************************************************************)
EXTENDS BscTarget, TLAPS, SequenceTheorems

-----------------------------------------------------------------------------
(* The inductive invariant. *)

\* The lock: who can be where, and that only an open device has work under it.
LockInv ==
    /\ holder = "none" <=> pc = "idle"
    /\ holder # "none" => active
    /\ pc \in {"publish", "reply"} => holder = "writer"
    /\ pc \in {"check", "configure"} => holder = "recover"
    /\ pc = "finish" => BurstBegun

\* A byte on the bus belongs to a write, and every record holds at least one byte.
RecordInv ==
    /\ rxBusy => curWrite > 0
    /\ \A i \in 1..Len(ring) : ring[i].bytes # <<>>

\* The order of the writes along the FIFO, the burst being assembled and the finished ones.
OrderInv ==
    /\ sealed <= drained /\ drained <= curWrite
    /\ \A i \in 1..Len(rxFifo) : drained <= rxFifo[i] /\ rxFifo[i] <= curWrite
    /\ \A i, j \in 1..Len(rxFifo) : i <= j => rxFifo[i] <= rxFifo[j]
    /\ pc = "finish" => /\ rxBusy => curWrite > drained
                        /\ \A i \in 1..Len(rxFifo) : rxFifo[i] > drained
    /\ NoSplit

\* With READY: which generations the ring, the worker and the reply can hold.
RequestInv ==
    /\ workerGeneration <= requestGeneration
    /\ txQueued => txGen = requestGeneration /\ ~BurstBegun
    /\ ReadyGpio =>
        /\ OneRequest
        /\ ring # <<>> => ~txQueued
        /\ workerPending /\ workerGeneration = requestGeneration =>
               ring = <<>> /\ ~BurstBegun /\ ~txQueued
        /\ pc = "reply" => ring = <<>> /\ ~workerPending /\ ~BurstBegun /\ txLen > 0
    /\ ~ReadyGpio => ~txQueued /\ ~ready /\ pc # "reply" /\ pc # "configure"
    /\ ready /\ pc # "finish" => ring = <<>> /\ ~workerPending /\ txLen > 0

\* The newest burst's last byte, from the drain to the worker.
OwnerInv ==
    ReadyGpio =>
        /\ rxWork # <<>> /\ ~rxOverflowed => rxWork[Len(rxWork)] = drained
        /\ ring # <<>> => ring[1].bytes[Len(ring[1].bytes)] = sealed
        /\ workerPending /\ workerGeneration = requestGeneration => workerWrite = sealed
        /\ holder = "writer" /\ inputAtLock /\ workerPending =>
               \/ workerGeneration # requestGeneration
               \/ pc = "drain" /\ rxFifo # <<>>

\* The serializer and the TX FIFO.
PipeInv ==
    /\ TxExact
    /\ active /\ ~abandoned /\ pc # "configure" /\ ~txQueued => txPipe = <<>>

\* IMSC, while the lock is free and after the service pass.
InterruptInv ==
    active /\ pc \in {"idle", "publish", "check"} => (imscTx <=> BytesToLoad)

IInv == /\ TypeOK /\ LockInv /\ RecordInv /\ OrderInv /\ RequestInv
        /\ OwnerInv /\ PipeInv /\ InterruptInv /\ ClosedIsInert

-----------------------------------------------------------------------------
(* Facts about sequences and about the operators of the model. *)

USE ReadyGpioAssumption, FifoSizeAssumption, ThresholdAssumption, MaxTransferAssumption,
    RxSlotsAssumption, BoundsAssumption
USE DEF Holders, Points

\* The empty sequence, in the form the provers need it in.
LEMMA EmptyInSeq == ASSUME NEW S PROVE <<>> \in Seq(S) /\ Len(<<>>) = 0
  BY EmptySeq

\* A bounded sequence that is kept or emptied (the FIFO when the peripheral is turned off,
\* the ring at the start of a burst) is still one.
LEMMA KeptOrCleared ==
    ASSUME NEW S, NEW bound \in Nat, NEW s \in Seq(S), Len(s) <= bound, NEW t \in {s, <<>>}
    PROVE  t \in Seq(S) /\ Len(t) <= bound
<1>1. CASE t = s
  BY <1>1
<1>2. CASE t = <<>>
  BY <1>2, EmptyInSeq
<1> QED  BY <1>1, <1>2

\* TXFLEVEL + 1 enable transitions (bsc_purge_tx_locked) empty the serializer and the FIFO.
LEMMA PurgeEmpties == ASSUME TxTypes PROVE AfterPurge(PurgeCount) = <<>>
<1>1. Len(txPipe) \in Nat /\ (txPipe = <<>> => Len(txPipe) = 0)
  BY EmptySeq, LenProperties DEF TxTypes
<1>2. PurgeCount + 1 \in Int /\ Len(txPipe) < PurgeCount + 1
  BY <1>1 DEF PurgeCount, TxFifoLevel
<1> QED  BY <1>1, <1>2, SubSeqEmpty DEF AfterPurge

\* The bytes waiting in the RX FIFO are bytes of numbered controller writes.
LEMMA FifoBytes ==
    ASSUME BusTypes
    PROVE  Len(rxFifo) \in Nat /\ \A i \in 1..Len(rxFifo) : rxFifo[i] \in Writes
  BY LenProperties, ElementOfSeq DEF BusTypes

\* A drained byte that is not the first of its burst leaves requests and replies alone.
LEMMA LaterByteKeepsRequests ==
    ASSUME TypeOK, RequestInv, DrainByte, BurstBegun
    PROVE  RequestInv'
<1>1. /\ BurstBegun' /\ pc = "drain" /\ pc' = "drain"
      /\ UNCHANGED <<workerGeneration, workerPending, txLen, txGen, ready, requestGeneration,
                    txQueued, ring>>
  <2>1. rxWork' # <<>> \/ rxOverflowed'
    BY DEF DrainByte, TypeOK, BusTypes, RxTypes
  <2> QED  BY <2>1 DEF DrainByte, BurstBegun, At, Goto
<1>2. ~txQueued /\ (ReadyGpio => ring = <<>>)
  BY DEF RequestInv, OneRequest
<1> QED  BY <1>1, <1>2, EmptySeq DEF RequestInv, OneRequest, BurstBegun

-----------------------------------------------------------------------------
(* One lemma for each layer: every step preserves it. *)

\* Every step keeps the flags Boolean.
LEMMA FlagStep ==
    ASSUME TypeOK, Next PROVE FlagTypes'
<1>1. CASE Wire
  <2>1. CASE WireStart
    BY <2>1 DEF WireStart, BusMayMove, BusMoved, rxVars, genVars, histVars, TypeOK, FlagTypes,
         UnreadInput
  <2>2. CASE WireStop
    BY <2>2 DEF WireStop, BusMayMove, BusMoved, rxVars, genVars, histVars, TypeOK, FlagTypes,
         UnreadInput
  <2>3. CASE WireRead
    BY <2>3 DEF WireRead, BusMayMove, BusMoved, hwVars, rxVars, genVars, histVars, TypeOK,
         FlagTypes, UnreadInput
  <2>4. ASSUME NEW stop \in BOOLEAN, WireByte(stop) PROVE FlagTypes'
    BY <2>4 DEF WireByte, BusMayMove, BusMoved, rxVars, genVars, histVars, TypeOK, FlagTypes,
         UnreadInput
  <2> QED  BY <1>1, <2>1, <2>2, <2>3, <2>4 DEF Wire
<1>2. CASE Enter
  <2>1. CASE IrqRaised
    BY <2>1 DEF IrqRaised, hwVars, rxVars, txVars, genVars, lockVars, histVars, TypeOK, FlagTypes,
         UnreadInput
  <2>2. CASE IrqEnter
    BY <2>2 DEF IrqEnter, Take, LockFree, hwVars, rxVars, txVars, genVars, TypeOK, FlagTypes,
         UnreadInput
  <2>3. CASE IrqIgnored
    BY <2>3 DEF IrqIgnored, LockFree, hwVars, rxVars, txVars, genVars, lockVars, histVars, TypeOK,
         FlagTypes, UnreadInput
  <2>4. CASE TimerEnter
    BY <2>4 DEF TimerEnter, Take, LockFree, hwVars, rxVars, txVars, genVars, TypeOK, FlagTypes,
         UnreadInput
  <2>5. CASE WriterEnter
    BY <2>5 DEF WriterEnter, Take, LockFree, hwVars, rxVars, txVars, genVars, TypeOK, FlagTypes,
         UnreadInput
  <2>6. CASE RecoverEnter
    BY <2>6 DEF RecoverEnter, Take, LockFree, hwVars, rxVars, txVars, genVars, TypeOK, FlagTypes,
         UnreadInput
  <2> QED  BY <1>2, <2>1, <2>2, <2>3, <2>4, <2>5, <2>6 DEF Enter
<1>3. CASE Service
  <2>1. CASE DrainByte
    BY <2>1 DEF DrainByte, At, Goto, BurstBegins, BurstBegun, TypeOK, FlagTypes, UnreadInput
  <2>2. CASE DrainDone
    BY <2>2 DEF DrainDone, At, Goto, rxVars, txVars, genVars, TypeOK, FlagTypes, UnreadInput
  <2>3. CASE Snapshot
    <3>1. ready' \in {ready, TRUE}
      BY <2>3 DEF Snapshot
    <3>2. UNCHANGED <<rxBusy, rxOverflowed, txQueued, imscTx, active, workerPending, irqSeen,
                    inputAtLock, abandoned>>
      BY <2>3 DEF Snapshot, At, rxVars, genVars
    <3> QED  BY <3>1, <3>2 DEF TypeOK, FlagTypes
  <2>4. CASE Finish
    BY <2>4 DEF Finish, At, Goto, PulseEnds, Pushed, txVars, genVars, TypeOK, FlagTypes,
         UnreadInput
  <2>5. CASE LoadByte
    BY <2>5 DEF LoadByte, At, Goto, BytesToLoad, TxFull, rxVars, genVars, TypeOK, FlagTypes,
         UnreadInput
  <2>6. CASE ServiceDone
    BY <2>6 DEF ServiceDone, At, Goto, Release, SetInterrupts, BytesToLoad, rxVars, genVars,
         TypeOK, FlagTypes, UnreadInput
  <2> QED  BY <1>3, <2>1, <2>2, <2>3, <2>4, <2>5, <2>6 DEF Service
<1>4. CASE Publish
  <2>1. CASE PublishRefused
    BY <2>1 DEF PublishRefused, At, Release, rxVars, txVars, genVars, TypeOK, FlagTypes,
         UnreadInput
  <2>2. CASE PublishDiscarded
    BY <2>2 DEF PublishDiscarded, At, Release, rxVars, txVars, TypeOK, FlagTypes, UnreadInput
  <2>3. ASSUME NEW count \in 1..MaxTransfer, PublishAccepted(count)
      PROVE  FlagTypes'
    BY <2>3 DEF PublishAccepted, At, Goto, rxVars, TypeOK, FlagTypes, UnreadInput
  <2>4. CASE ReplyReady
    BY <2>4 DEF ReplyReady, At, Release, SetInterrupts, BytesToLoad, rxVars, genVars, TypeOK,
         FlagTypes, UnreadInput
  <2> QED  BY <1>4, <2>1, <2>2, <2>3, <2>4 DEF Publish
<1>5. CASE Recover
  <2>1. CASE RecoverRefused
    BY <2>1 DEF RecoverRefused, At, Release, rxVars, txVars, genVars, TypeOK, FlagTypes,
         UnreadInput
  <2>2. CASE RecoverGranted
    BY <2>2 DEF RecoverGranted, At, Goto, rxVars, genVars, TypeOK, FlagTypes, UnreadInput
  <2>3. CASE RecoverConfigure
    BY <2>3 DEF RecoverConfigure, At, Release, ReceiverOff, SetInterrupts, BytesToLoad, rxVars,
         genVars, TypeOK, FlagTypes, UnreadInput
  <2> QED  BY <1>5, <2>1, <2>2, <2>3 DEF Recover
<1>6. CASE ReadMessage
  BY <1>6 DEF ReadMessage, LockFree, hwVars, txVars, lockVars, TypeOK, FlagTypes, UnreadInput
<1>7. CASE Open
  BY <1>7 DEF Open, LockFree, ResetIo, ReceiverOff, lockVars, TypeOK, FlagTypes, UnreadInput
<1>8. CASE Close
  BY <1>8 DEF Close, LockFree, ResetIo, ReceiverOff, lockVars, TypeOK, FlagTypes, UnreadInput
<1> QED  BY <1>1, <1>2, <1>3, <1>4, <1>5, <1>6, <1>7, <1>8 DEF Next

\* Every step keeps the generations, the lock's state and the history counters in range.
LEMMA CountStep ==
    ASSUME TypeOK, RecordInv, Next PROVE CountTypes'
<1>1. CASE Wire
  <2>1. CASE WireStart
    BY <2>1 DEF WireStart, BusMayMove, BusMoved, rxVars, genVars, histVars, TypeOK, CountTypes,
         BusTypes
  <2>2. CASE WireStop
    BY <2>2 DEF WireStop, BusMayMove, BusMoved, rxVars, genVars, histVars, TypeOK, CountTypes,
         BusTypes
  <2>3. CASE WireRead
    BY <2>3 DEF WireRead, BusMayMove, BusMoved, hwVars, rxVars, genVars, histVars, TypeOK,
         CountTypes, BusTypes
  <2>4. ASSUME NEW stop \in BOOLEAN, WireByte(stop) PROVE CountTypes'
    BY <2>4 DEF WireByte, BusMayMove, BusMoved, rxVars, genVars, histVars, TypeOK, CountTypes,
         BusTypes
  <2> QED  BY <1>1, <2>1, <2>2, <2>3, <2>4 DEF Wire
<1>2. CASE Enter
  <2>1. CASE IrqRaised
    BY <2>1 DEF IrqRaised, hwVars, rxVars, txVars, genVars, lockVars, histVars, TypeOK,
         CountTypes, BusTypes
  <2>2. CASE IrqEnter
    BY <2>2 DEF IrqEnter, Take, LockFree, hwVars, rxVars, txVars, genVars, TypeOK, CountTypes,
         BusTypes
  <2>3. CASE IrqIgnored
    BY <2>3 DEF IrqIgnored, LockFree, hwVars, rxVars, txVars, genVars, lockVars, histVars, TypeOK,
         CountTypes, BusTypes
  <2>4. CASE TimerEnter
    BY <2>4 DEF TimerEnter, Take, LockFree, hwVars, rxVars, txVars, genVars, TypeOK, CountTypes,
         BusTypes
  <2>5. CASE WriterEnter
    BY <2>5 DEF WriterEnter, Take, LockFree, hwVars, rxVars, txVars, genVars, TypeOK, CountTypes,
         BusTypes
  <2>6. CASE RecoverEnter
    BY <2>6 DEF RecoverEnter, Take, LockFree, hwVars, rxVars, txVars, genVars, TypeOK, CountTypes,
         BusTypes
  <2> QED  BY <1>2, <2>1, <2>2, <2>3, <2>4, <2>5, <2>6 DEF Enter
<1>3. CASE Service
  <2>1. CASE DrainByte
    <3>1. Head(rxFifo) \in Writes
      BY <2>1 DEF DrainByte, TypeOK, BusTypes
    <3>2. requestGeneration' \in Nat
      BY <2>1 DEF DrainByte, At, BurstBegins, TypeOK, CountTypes
    <3> QED  BY <2>1, <3>1, <3>2 DEF DrainByte, At, Goto, Writes, TypeOK, CountTypes
  <2>2. CASE DrainDone
    BY <2>2 DEF DrainDone, At, Goto, rxVars, txVars, genVars, TypeOK, CountTypes, BusTypes
  <2>3. CASE Snapshot
    BY <2>3 DEF Snapshot, At, Goto, BurstBegun, BurstComplete, rxVars, genVars, TypeOK,
         CountTypes, BusTypes
  <2>4. CASE Finish
    BY <2>4 DEF Finish, At, Goto, PulseEnds, Pushed, txVars, genVars, TypeOK, CountTypes, BusTypes
  <2>5. CASE LoadByte
    BY <2>5 DEF LoadByte, At, Goto, BytesToLoad, TxFull, rxVars, genVars, TypeOK, CountTypes,
         BusTypes
  <2>6. CASE ServiceDone
    <3>1. CASE holder = "writer"
      BY <2>6, <3>1 DEF ServiceDone, At, Goto, rxVars, genVars, TypeOK, CountTypes
    <3>2. CASE holder = "recover"
      BY <2>6, <3>2 DEF ServiceDone, At, Goto, rxVars, genVars, TypeOK, CountTypes
    <3>3. CASE holder \notin {"writer", "recover"}
      BY <2>6, <3>3 DEF ServiceDone, At, Release, rxVars, genVars, TypeOK, CountTypes
    <3> QED  BY <3>1, <3>2, <3>3
  <2> QED  BY <1>3, <2>1, <2>2, <2>3, <2>4, <2>5, <2>6 DEF Service
<1>4. CASE Publish
  <2>1. CASE PublishRefused
    BY <2>1 DEF PublishRefused, At, Release, rxVars, txVars, genVars, TypeOK, CountTypes, BusTypes
  <2>2. CASE PublishDiscarded
    BY <2>2 DEF PublishDiscarded, At, Release, rxVars, txVars, TypeOK, CountTypes, BusTypes
  <2>3. ASSUME NEW count \in 1..MaxTransfer, PublishAccepted(count)
      PROVE  CountTypes'
    BY <2>3 DEF PublishAccepted, At, Goto, rxVars, TypeOK, CountTypes, BusTypes
  <2>4. CASE ReplyReady
    BY <2>4 DEF ReplyReady, At, Release, SetInterrupts, BytesToLoad, rxVars, genVars, TypeOK,
         CountTypes, BusTypes
  <2> QED  BY <1>4, <2>1, <2>2, <2>3, <2>4 DEF Publish
<1>5. CASE Recover
  <2>1. CASE RecoverRefused
    BY <2>1 DEF RecoverRefused, At, Release, rxVars, txVars, genVars, TypeOK, CountTypes, BusTypes
  <2>2. CASE RecoverGranted
    BY <2>2 DEF RecoverGranted, At, Goto, rxVars, genVars, TypeOK, CountTypes, BusTypes
  <2>3. CASE RecoverConfigure
    BY <2>3 DEF RecoverConfigure, At, Release, ReceiverOff, SetInterrupts, BytesToLoad, rxVars,
         genVars, TypeOK, CountTypes, BusTypes
  <2> QED  BY <1>5, <2>1, <2>2, <2>3 DEF Recover
<1>6. CASE ReadMessage
  <2>1. ring \in Seq(Record) /\ ring # <<>> /\ Len(ring) \in Nat \ {0}
    BY <1>6, EmptySeq DEF ReadMessage, TypeOK, RxTypes
  <2>3. Head(ring) = ring[1] /\ ring[1] \in Record /\ ring[1].bytes # <<>>
    BY <2>1, ElementOfSeq DEF RecordInv
  <2>2. workerWrite' \in Writes
    BY <1>6, <2>3, EmptySeq, ElementOfSeq DEF ReadMessage, Record
  <2> QED  BY <1>6, <2>2 DEF ReadMessage, lockVars, Writes, TypeOK, CountTypes
<1>7. CASE Open
  BY <1>7 DEF Open, LockFree, ResetIo, ReceiverOff, lockVars, TypeOK, CountTypes, BusTypes
<1>8. CASE Close
  BY <1>8 DEF Close, LockFree, ResetIo, ReceiverOff, lockVars, TypeOK, CountTypes, BusTypes
<1> QED  BY <1>1, <1>2, <1>3, <1>4, <1>5, <1>6, <1>7, <1>8 DEF Next

\* Every step keeps the RX FIFO within its size and the controller within its bounds.
LEMMA BusStep ==
    ASSUME TypeOK, RecordInv, Next PROVE BusTypes'
<1>1. CASE Wire
  <2>1. CASE WireStart
    BY <2>1 DEF WireStart, BusMayMove, BusMoved, rxVars, genVars, histVars, TypeOK, BusTypes
  <2>2. CASE WireStop
    BY <2>2 DEF WireStop, BusMayMove, BusMoved, rxVars, genVars, histVars, TypeOK, BusTypes
  <2>3. CASE WireRead
    BY <2>3 DEF WireRead, BusMayMove, BusMoved, hwVars, rxVars, genVars, histVars, TypeOK,
         BusTypes
  <2>4. ASSUME NEW stop \in BOOLEAN, WireByte(stop) PROVE BusTypes'
    <3>1. curWrite \in Writes
      BY <2>4 DEF WireByte, Writes, TypeOK, BusTypes, RecordInv
    <3>2. rxFifo' \in Seq(Writes) /\ Len(rxFifo') <= FifoSize
      BY <2>4, <3>1 DEF WireByte, TypeOK, BusTypes
    <3> QED  BY <2>4, <3>2 DEF WireByte, TypeOK, BusTypes
  <2> QED  BY <1>1, <2>1, <2>2, <2>3, <2>4 DEF Wire
<1>2. CASE Enter
  BY <1>2 DEF Enter, IrqRaised, IrqEnter, IrqIgnored, TimerEnter, WriterEnter, RecoverEnter, Take,
       LockFree, hwVars, rxVars, txVars, genVars, lockVars, histVars, TypeOK, BusTypes
<1>3. CASE Service
  <2>1. CASE DrainByte
    BY <2>1 DEF DrainByte, At, Goto, BurstBegins, BurstBegun, TypeOK, BusTypes
  <2>2. CASE DrainDone
    BY <2>2 DEF DrainDone, At, Goto, rxVars, txVars, genVars, TypeOK, BusTypes
  <2>3. CASE Snapshot
    BY <2>3 DEF Snapshot, At, Goto, BurstBegun, BurstComplete, rxVars, genVars, TypeOK, BusTypes
  <2>4. CASE Finish
    BY <2>4 DEF Finish, At, Goto, PulseEnds, Pushed, txVars, genVars, TypeOK, BusTypes
  <2>5. CASE LoadByte
    BY <2>5 DEF LoadByte, At, Goto, BytesToLoad, TxFull, rxVars, genVars, TypeOK, BusTypes
  <2>6. CASE ServiceDone
    BY <2>6 DEF ServiceDone, At, Goto, Release, SetInterrupts, BytesToLoad, rxVars, genVars,
         TypeOK, BusTypes
  <2> QED  BY <1>3, <2>1, <2>2, <2>3, <2>4, <2>5, <2>6 DEF Service
<1>4. CASE Publish
  BY <1>4 DEF Publish, PublishRefused, PublishDiscarded, PublishAccepted, ReplyReady, At, Release,
       Goto, SetInterrupts, BytesToLoad, rxVars, txVars, genVars, TypeOK, BusTypes
<1>5. CASE Recover
  <2>1. CASE RecoverRefused
    BY <2>1 DEF RecoverRefused, At, Release, rxVars, txVars, genVars, TypeOK, BusTypes
  <2>2. CASE RecoverGranted
    BY <2>2 DEF RecoverGranted, At, Goto, rxVars, genVars, TypeOK, BusTypes
  <2>3. CASE RecoverConfigure
    <3>1. rxFifo' \in {rxFifo, <<>>}
      BY <2>3 DEF RecoverConfigure, ReceiverOff
    <3>2. rxFifo' \in Seq(Writes) /\ Len(rxFifo') <= FifoSize
      BY <3>1, KeptOrCleared DEF TypeOK, BusTypes
    <3>3. UNCHANGED <<curWrite, wireLen>>
      BY <2>3 DEF RecoverConfigure, At
    <3> QED  BY <3>2, <3>3 DEF TypeOK, BusTypes
  <2> QED  BY <1>5, <2>1, <2>2, <2>3 DEF Recover
<1>6. CASE ReadMessage
  BY <1>6 DEF ReadMessage, LockFree, hwVars, txVars, lockVars, TypeOK, BusTypes
<1>7. CASE Open
  <2>1. rxFifo' \in {rxFifo, <<>>}
    BY <1>7 DEF Open, ReceiverOff
  <2>2. rxFifo' \in Seq(Writes) /\ Len(rxFifo') <= FifoSize
    BY <2>1, KeptOrCleared DEF TypeOK, BusTypes
  <2>3. UNCHANGED <<curWrite, wireLen>>
    BY <1>7 DEF Open
  <2> QED  BY <2>2, <2>3 DEF TypeOK, BusTypes
<1>8. CASE Close
  <2>1. rxFifo' \in {rxFifo, <<>>}
    BY <1>8 DEF Close, ReceiverOff
  <2>2. rxFifo' \in Seq(Writes) /\ Len(rxFifo') <= FifoSize
    BY <2>1, KeptOrCleared DEF TypeOK, BusTypes
  <2>3. UNCHANGED <<curWrite, wireLen>>
    BY <1>8 DEF Close
  <2> QED  BY <2>2, <2>3 DEF TypeOK, BusTypes
<1> QED  BY <1>1, <1>2, <1>3, <1>4, <1>5, <1>6, <1>7, <1>8 DEF Next

\* Every step keeps the burst within BSC_MAX_TRANSFER and the ring within BSC_RX_SLOTS.
LEMMA RxStep ==
    ASSUME TypeOK, Next PROVE RxTypes'
<1>1. CASE Wire
  BY <1>1 DEF Wire, WireStart, WireStop, WireRead, WireByte, BusMayMove, BusMoved, hwVars, rxVars,
       genVars, histVars, TypeOK, RxTypes
<1>2. CASE Enter
  BY <1>2 DEF Enter, IrqRaised, IrqEnter, IrqIgnored, TimerEnter, WriterEnter, RecoverEnter, Take,
       LockFree, hwVars, rxVars, txVars, genVars, lockVars, histVars, TypeOK, RxTypes
<1>3. CASE Service
  <2>1. CASE DrainByte
    <3>1. Head(rxFifo) \in Writes
      BY <2>1 DEF DrainByte, TypeOK, BusTypes
    <3>2. ring' \in {ring, <<>>}
      BY <2>1 DEF DrainByte, BurstBegins
    <3>3. ring' \in Seq(Record) /\ Len(ring') <= RxSlots
      BY <3>2, KeptOrCleared DEF TypeOK, RxTypes
    <3>4. rxWork' \in Seq(Writes) /\ Len(rxWork') <= MaxTransfer
      <4>1. CASE Len(rxWork) < MaxTransfer
        <5>1. rxWork' = Append(rxWork, Head(rxFifo))
          BY <2>1, <4>1 DEF DrainByte
        <5> QED  BY <3>1, <4>1, <5>1 DEF TypeOK, RxTypes
      <4>2. CASE ~(Len(rxWork) < MaxTransfer)
        BY <2>1, <4>2 DEF DrainByte, TypeOK, RxTypes
      <4> QED  BY <4>1, <4>2
    <3> QED  BY <3>3, <3>4 DEF RxTypes
  <2>2. CASE DrainDone
    BY <2>2 DEF DrainDone, At, Goto, rxVars, txVars, genVars, TypeOK, RxTypes
  <2>3. CASE Snapshot
    BY <2>3 DEF Snapshot, At, Goto, BurstBegun, BurstComplete, rxVars, genVars, TypeOK, RxTypes
  <2>4. CASE Finish
    <3> DEFINE record == [bytes |-> rxWork, gen |-> requestGeneration]
    <3>1. record \in Record
      BY DEF Record, TypeOK, RxTypes, CountTypes
    <3>2. ring' \in {ring, Pushed(record)} /\ rxWork' = <<>>
      BY <2>4 DEF Finish
    <3> HIDE DEF record
    <3>3. Pushed(record) \in Seq(Record) /\ Len(Pushed(record)) <= RxSlots
      BY <3>1, EmptySeq DEF Pushed, TypeOK, RxTypes
    <3> QED  BY <3>2, <3>3, EmptyInSeq DEF TypeOK, RxTypes
  <2>5. CASE LoadByte
    BY <2>5 DEF LoadByte, At, Goto, BytesToLoad, TxFull, rxVars, genVars, TypeOK, RxTypes
  <2>6. CASE ServiceDone
    BY <2>6 DEF ServiceDone, At, Goto, Release, SetInterrupts, BytesToLoad, rxVars, genVars,
         TypeOK, RxTypes
  <2> QED  BY <1>3, <2>1, <2>2, <2>3, <2>4, <2>5, <2>6 DEF Service
<1>4. CASE Publish
  BY <1>4 DEF Publish, PublishRefused, PublishDiscarded, PublishAccepted, ReplyReady, At, Release,
       Goto, SetInterrupts, BytesToLoad, rxVars, txVars, genVars, TypeOK, RxTypes
<1>5. CASE Recover
  BY <1>5 DEF Recover, RecoverRefused, RecoverGranted, RecoverConfigure, At, Release, Goto,
       ReceiverOff, SetInterrupts, BytesToLoad, rxVars, txVars, genVars, TypeOK, RxTypes
<1>6. CASE ReadMessage
  BY <1>6 DEF ReadMessage, LockFree, hwVars, txVars, lockVars, TypeOK, RxTypes
<1>7. CASE Open
  BY EmptyInSeq, <1>7 DEF Open, ResetIo, RxTypes
<1>8. CASE Close
  BY EmptyInSeq, <1>8 DEF Close, ResetIo, RxTypes
<1> QED  BY <1>1, <1>2, <1>3, <1>4, <1>5, <1>6, <1>7, <1>8 DEF Next

\* Every step keeps the reply within BSC_MAX_TRANSFER and the serializer and FIFO within their size.
LEMMA TxStep ==
    ASSUME TypeOK, Next PROVE TxTypes'
<1>1. CASE Wire
  <2>1. CASE WireStart
    BY <2>1 DEF WireStart, BusMayMove, BusMoved, rxVars, genVars, histVars, TypeOK, TxTypes,
         TxByte, CountTypes
  <2>2. CASE WireStop
    BY <2>2 DEF WireStop, BusMayMove, BusMoved, rxVars, genVars, histVars, TypeOK, TxTypes,
         TxByte, CountTypes
  <2>3. CASE WireRead
    BY <2>3 DEF WireRead, BusMayMove, BusMoved, hwVars, rxVars, genVars, histVars, TypeOK,
         TxTypes, TxByte, CountTypes
  <2>4. ASSUME NEW stop \in BOOLEAN, WireByte(stop) PROVE TxTypes'
    BY <2>4 DEF WireByte, BusMayMove, BusMoved, rxVars, genVars, histVars, TypeOK, TxTypes,
         TxByte, CountTypes
  <2> QED  BY <1>1, <2>1, <2>2, <2>3, <2>4 DEF Wire
<1>2. CASE Enter
  BY <1>2 DEF Enter, IrqRaised, IrqEnter, IrqIgnored, TimerEnter, WriterEnter, RecoverEnter, Take,
       LockFree, hwVars, rxVars, txVars, genVars, lockVars, histVars, TypeOK, TxTypes, TxByte,
       CountTypes
<1>3. CASE Service
  <2>1. CASE DrainByte
    BY <2>1 DEF DrainByte, At, Goto, BurstBegins, BurstBegun, TypeOK, TxTypes, TxByte, CountTypes
  <2>2. CASE DrainDone
    BY <2>2 DEF DrainDone, At, Goto, rxVars, txVars, genVars, TypeOK, TxTypes, TxByte, CountTypes
  <2>3. CASE Snapshot
    BY <2>3 DEF Snapshot, At, Goto, BurstBegun, BurstComplete, rxVars, genVars, TypeOK, TxTypes,
         TxByte, CountTypes
  <2>4. CASE Finish
    BY <2>4 DEF Finish, At, Goto, PulseEnds, Pushed, txVars, genVars, TypeOK, TxTypes, TxByte,
         CountTypes
  <2>5. CASE LoadByte
    <3>1. [gen |-> txGen, pos |-> txLoaded + 1] \in TxByte
      BY DEF TxByte, TypeOK, TxTypes
    <3>2. txPipe' \in Seq(TxByte) /\ Len(txPipe') <= FifoSize + 1
      BY <2>5, <3>1 DEF LoadByte, TxFull, TypeOK, TxTypes
    <3>3. txLoaded' \in 0..txLen /\ UNCHANGED <<txLen, txGen>>
      BY <2>5 DEF LoadByte, BytesToLoad, TypeOK, TxTypes
    <3> QED  BY <3>2, <3>3 DEF TypeOK, TxTypes
  <2>6. CASE ServiceDone
    BY <2>6 DEF ServiceDone, At, Goto, Release, SetInterrupts, BytesToLoad, rxVars, genVars,
         TypeOK, TxTypes, TxByte, CountTypes
  <2> QED  BY <1>3, <2>1, <2>2, <2>3, <2>4, <2>5, <2>6 DEF Service
<1>4. CASE Publish
  <2>1. CASE PublishRefused
    BY <2>1 DEF PublishRefused, At, Release, rxVars, txVars, genVars, TypeOK, TxTypes, TxByte,
         CountTypes
  <2>2. CASE PublishDiscarded
    BY <2>2 DEF PublishDiscarded, At, Release, rxVars, txVars, TypeOK, TxTypes, TxByte, CountTypes
  <2>3. ASSUME NEW count \in 1..MaxTransfer, PublishAccepted(count)
      PROVE  TxTypes'
    BY <2>3 DEF PublishAccepted, At, Goto, rxVars, TypeOK, TxTypes, TxByte, CountTypes
  <2>4. CASE ReplyReady
    BY <2>4 DEF ReplyReady, At, Release, SetInterrupts, BytesToLoad, rxVars, genVars, TypeOK,
         TxTypes, TxByte, CountTypes
  <2> QED  BY <1>4, <2>1, <2>2, <2>3, <2>4 DEF Publish
<1>5. CASE Recover
  <2>1. CASE RecoverRefused
    BY <2>1 DEF RecoverRefused, At, Release, rxVars, txVars, genVars, TypeOK, TxTypes, TxByte,
         CountTypes
  <2>2. CASE RecoverGranted
    BY <2>2 DEF RecoverGranted, At, Goto, rxVars, genVars, TypeOK, TxTypes, TxByte, CountTypes
  <2>3. CASE RecoverConfigure
    BY EmptyInSeq, PurgeEmpties, <2>3 DEF RecoverConfigure, At, TypeOK, TxTypes
  <2> QED  BY <1>5, <2>1, <2>2, <2>3 DEF Recover
<1>6. CASE ReadMessage
  BY <1>6 DEF ReadMessage, LockFree, hwVars, txVars, lockVars, TypeOK, TxTypes, TxByte, CountTypes
<1>7. CASE Open
  BY EmptyInSeq, PurgeEmpties, <1>7 DEF Open, ResetIo, TypeOK, TxTypes
<1>8. CASE Close
  BY <1>8 DEF Close, LockFree, ResetIo, ReceiverOff, lockVars, TypeOK, TxTypes, TxByte, CountTypes
<1> QED  BY <1>1, <1>2, <1>3, <1>4, <1>5, <1>6, <1>7, <1>8 DEF Next

\* Every step keeps the lock's discipline.
LEMMA LockStep ==
    ASSUME TypeOK, LockInv, Next PROVE LockInv'
<1>1. CASE Wire
  BY <1>1 DEF Wire, WireStart, WireStop, WireRead, WireByte, BusMayMove, BusMoved, hwVars, rxVars,
       genVars, histVars, TypeOK, CountTypes, LockInv, BurstBegun
<1>2. CASE Enter
  BY <1>2 DEF Enter, IrqRaised, IrqEnter, IrqIgnored, TimerEnter, WriterEnter, RecoverEnter, Take,
       LockFree, hwVars, rxVars, txVars, genVars, lockVars, histVars, TypeOK, CountTypes, LockInv,
       BurstBegun
<1>3. CASE Service
  BY <1>3 DEF Service, DrainByte, DrainDone, Snapshot, Finish, LoadByte, ServiceDone, At, Goto,
       BurstBegins, BurstBegun, BurstComplete, PulseEnds, Pushed, BytesToLoad, TxFull, Release,
       SetInterrupts, rxVars, txVars, genVars, TypeOK, CountTypes, LockInv
<1>4. CASE Publish
  BY <1>4 DEF Publish, PublishRefused, PublishDiscarded, PublishAccepted, ReplyReady, At, Release,
       Goto, SetInterrupts, BytesToLoad, rxVars, txVars, genVars, TypeOK, CountTypes, LockInv,
       BurstBegun
<1>5. CASE Recover
  BY <1>5 DEF Recover, RecoverRefused, RecoverGranted, RecoverConfigure, At, Release, Goto,
       ReceiverOff, SetInterrupts, BytesToLoad, rxVars, txVars, genVars, TypeOK, CountTypes,
       LockInv, BurstBegun
<1>6. CASE ReadMessage
  BY <1>6 DEF ReadMessage, LockFree, hwVars, txVars, lockVars, TypeOK, CountTypes, LockInv,
       BurstBegun
<1>7. CASE Open
  BY <1>7 DEF Open, LockFree, ResetIo, ReceiverOff, lockVars, TypeOK, CountTypes, LockInv,
       BurstBegun
<1>8. CASE Close
  BY <1>8 DEF Close, LockFree, ResetIo, ReceiverOff, lockVars, TypeOK, CountTypes, LockInv,
       BurstBegun
<1> QED  BY <1>1, <1>2, <1>3, <1>4, <1>5, <1>6, <1>7, <1>8 DEF Next

\* Every step keeps the records of the ring nonempty.
LEMMA RecordStep ==
    ASSUME TypeOK, LockInv, RecordInv, Next PROVE RecordInv'
<1>1. CASE Wire
  <2>1. CASE WireStart
    BY <2>1 DEF WireStart, BusMayMove, BusMoved, rxVars, genVars, histVars, TypeOK, BusTypes,
         RxTypes, LockInv, RecordInv, BurstBegun
  <2>2. CASE WireStop
    BY <2>2 DEF WireStop, BusMayMove, BusMoved, rxVars, genVars, histVars, TypeOK, BusTypes,
         RxTypes, LockInv, RecordInv, BurstBegun
  <2>3. CASE WireRead
    BY <2>3 DEF WireRead, BusMayMove, BusMoved, hwVars, rxVars, genVars, histVars, TypeOK,
         BusTypes, RxTypes, LockInv, RecordInv, BurstBegun
  <2>4. ASSUME NEW stop \in BOOLEAN, WireByte(stop) PROVE RecordInv'
    BY <2>4 DEF WireByte, BusMayMove, BusMoved, rxVars, genVars, histVars, TypeOK, BusTypes,
         RxTypes, LockInv, RecordInv, BurstBegun
  <2> QED  BY <1>1, <2>1, <2>2, <2>3, <2>4 DEF Wire
<1>2. CASE Enter
  BY <1>2 DEF Enter, IrqRaised, IrqEnter, IrqIgnored, TimerEnter, WriterEnter, RecoverEnter, Take,
       LockFree, hwVars, rxVars, txVars, genVars, lockVars, histVars, TypeOK, BusTypes, RxTypes,
       LockInv, RecordInv, BurstBegun
<1>3. CASE Service
  <2>1. CASE DrainByte
    <3>1. ring' \in {ring, <<>>}
      BY <2>1 DEF DrainByte, BurstBegins
    <3> QED  BY <2>1, <3>1, EmptyInSeq DEF DrainByte, At, RecordInv
  <2>2. CASE DrainDone
    BY <2>2 DEF DrainDone, At, Goto, rxVars, txVars, genVars, TypeOK, BusTypes, RxTypes, LockInv,
         RecordInv, BurstBegun
  <2>3. CASE Snapshot
    BY <2>3 DEF Snapshot, At, Goto, BurstBegun, BurstComplete, rxVars, genVars, TypeOK, BusTypes,
         RxTypes, LockInv, RecordInv
  <2>4. CASE Finish
    <3> DEFINE record == [bytes |-> rxWork, gen |-> requestGeneration]
    <3>1. record \in Record /\ (~rxOverflowed => record.bytes # <<>>)
      BY <2>4 DEF Finish, At, LockInv, BurstBegun, Record, TypeOK, RxTypes, CountTypes
    <3>2. ring' = IF rxOverflowed THEN ring ELSE Pushed(record)
      BY <2>4 DEF Finish
    <3>3. ring \in Seq(Record)
      BY DEF TypeOK, RxTypes
    <3> HIDE DEF record
    <3>4. CASE ~rxOverflowed
      <4>1. \A i \in 1..Len(ring') : ring'[i].bytes # <<>>
        BY <3>1, <3>2, <3>3, <3>4, EmptySeq DEF Pushed, RecordInv
      <4> QED  BY <2>4, <4>1 DEF Finish, At, RecordInv
    <3>5. CASE rxOverflowed
      BY <2>4, <3>2, <3>5 DEF Finish, At, RecordInv
    <3> QED  BY <3>4, <3>5
  <2>5. CASE LoadByte
    BY <2>5 DEF LoadByte, At, Goto, BytesToLoad, TxFull, rxVars, genVars, TypeOK, BusTypes,
         RxTypes, LockInv, RecordInv, BurstBegun
  <2>6. CASE ServiceDone
    BY <2>6 DEF ServiceDone, At, Goto, Release, SetInterrupts, BytesToLoad, rxVars, genVars,
         TypeOK, BusTypes, RxTypes, LockInv, RecordInv, BurstBegun
  <2> QED  BY <1>3, <2>1, <2>2, <2>3, <2>4, <2>5, <2>6 DEF Service
<1>4. CASE Publish
  BY <1>4 DEF Publish, PublishRefused, PublishDiscarded, PublishAccepted, ReplyReady, At, Release,
       Goto, SetInterrupts, BytesToLoad, rxVars, txVars, genVars, TypeOK, BusTypes, RxTypes,
       LockInv, RecordInv, BurstBegun
<1>5. CASE Recover
  BY <1>5 DEF Recover, RecoverRefused, RecoverGranted, RecoverConfigure, At, Release, Goto,
       ReceiverOff, SetInterrupts, BytesToLoad, rxVars, txVars, genVars, TypeOK, BusTypes,
       RxTypes, LockInv, RecordInv, BurstBegun
<1>6. CASE ReadMessage
  BY <1>6 DEF ReadMessage, LockFree, hwVars, txVars, lockVars, TypeOK, BusTypes, RxTypes, LockInv,
       RecordInv, BurstBegun
<1>7. CASE Open
  BY <1>7 DEF Open, LockFree, ResetIo, ReceiverOff, lockVars, TypeOK, BusTypes, RxTypes, LockInv,
       RecordInv, BurstBegun
<1>8. CASE Close
  BY <1>8 DEF Close, LockFree, ResetIo, ReceiverOff, lockVars, TypeOK, BusTypes, RxTypes, LockInv,
       RecordInv, BurstBegun
<1> QED  BY <1>1, <1>2, <1>3, <1>4, <1>5, <1>6, <1>7, <1>8 DEF Next

\* Every step keeps the writes in order from the controller to the finished bursts.
LEMMA OrderStep ==
    ASSUME TypeOK, LockInv, OrderInv, Next PROVE OrderInv'
<1>1. CASE Wire
  <2>1. CASE WireStart
    <3>1. curWrite' = curWrite + 1 /\ UNCHANGED <<rxFifo, rxWork, pc, drained, sealed>>
      BY <2>1 DEF WireStart, BusMoved, rxVars, histVars
    <3>2. /\ curWrite \in Nat /\ drained \in Nat /\ sealed \in Nat
        /\ \A i \in 1..Len(rxFifo) : rxFifo[i] \in Nat
      BY FifoBytes DEF Writes, TypeOK, BusTypes, CountTypes
    <3> QED  BY <3>1, <3>2 DEF OrderInv, NoSplit
  <2>2. CASE WireStop
    BY <2>2 DEF WireStop, BusMayMove, BusMoved, rxVars, genVars, histVars, TypeOK, BusTypes,
         RxTypes, CountTypes, LockInv, OrderInv, NoSplit
  <2>3. CASE WireRead
    BY <2>3 DEF WireRead, BusMayMove, BusMoved, hwVars, rxVars, genVars, histVars, TypeOK,
         BusTypes, RxTypes, CountTypes, LockInv, OrderInv, NoSplit
  <2>4. ASSUME NEW stop \in BOOLEAN, WireByte(stop) PROVE OrderInv'
    <3>1. UNCHANGED <<curWrite, rxWork, pc, drained, sealed>> /\ rxBusy /\ sealed < curWrite
      BY <2>4 DEF WireByte, BusMoved, rxVars, histVars, OrderInv, NoSplit
    <3>2. CASE rxFifo' = rxFifo
      BY <3>1, <3>2 DEF OrderInv, NoSplit
    <3>3. CASE rxFifo' = Append(rxFifo, curWrite)
      <4>1. /\ Len(rxFifo') = Len(rxFifo) + 1 /\ rxFifo'[Len(rxFifo) + 1] = curWrite
            /\ \A i \in 1..Len(rxFifo) : rxFifo'[i] = rxFifo[i]
        BY <3>3 DEF TypeOK, BusTypes
      <4>2. \A i \in 1..Len(rxFifo') : i \notin 1..Len(rxFifo) => rxFifo'[i] = curWrite
        BY <4>1, FifoBytes DEF TypeOK
      <4> DEFINE q == rxFifo'
                 n == Len(rxFifo)
      <4>3. \A i \in 1..n + 1 : drained <= q[i] /\ q[i] <= curWrite /\ q[i] > sealed
        <5>1. \A i \in 1..n : drained <= q[i] /\ q[i] <= curWrite /\ q[i] > sealed
          BY <4>1 DEF OrderInv, NoSplit
        <5>2. drained <= q[n + 1] /\ q[n + 1] <= curWrite /\ q[n + 1] > sealed
          BY <3>1, <4>1 DEF TypeOK, CountTypes, BusTypes, OrderInv
        <5>3. \A i \in 1..n + 1 : i \in 1..n \/ i = n + 1
          BY FifoBytes DEF TypeOK
        <5> QED  BY <5>1, <5>2, <5>3
      <4>4. \A i, j \in 1..n + 1 : i <= j => q[i] <= q[j]
        BY <3>1, <4>1, <4>2, <4>3, FifoBytes DEF TypeOK, OrderInv, Writes
      <4>5. pc = "finish" => \A i \in 1..n + 1 : q[i] > drained
        BY <3>1, <4>1, <4>2, FifoBytes DEF TypeOK, OrderInv, Writes
      <4> QED  BY <3>1, <4>1, <4>3, <4>4, <4>5 DEF OrderInv, NoSplit
    <3> QED  BY <2>4, <3>2, <3>3 DEF WireByte
  <2> QED  BY <1>1, <2>1, <2>2, <2>3, <2>4 DEF Wire
<1>2. CASE Enter
  <2>1. CASE IrqRaised
    BY <2>1 DEF IrqRaised, hwVars, rxVars, txVars, genVars, lockVars, histVars, TypeOK, BusTypes,
         RxTypes, CountTypes, LockInv, OrderInv, NoSplit
  <2>2. CASE IrqEnter
    BY <2>2 DEF IrqEnter, Take, LockFree, hwVars, rxVars, txVars, genVars, TypeOK, BusTypes,
         RxTypes, CountTypes, LockInv, OrderInv, NoSplit
  <2>3. CASE IrqIgnored
    BY <2>3 DEF IrqIgnored, LockFree, hwVars, rxVars, txVars, genVars, lockVars, histVars, TypeOK,
         BusTypes, RxTypes, CountTypes, LockInv, OrderInv, NoSplit
  <2>4. CASE TimerEnter
    BY <2>4 DEF TimerEnter, Take, LockFree, hwVars, rxVars, txVars, genVars, TypeOK, BusTypes,
         RxTypes, CountTypes, LockInv, OrderInv, NoSplit
  <2>5. CASE WriterEnter
    BY <2>5 DEF WriterEnter, Take, LockFree, hwVars, rxVars, txVars, genVars, TypeOK, BusTypes,
         RxTypes, CountTypes, LockInv, OrderInv, NoSplit
  <2>6. CASE RecoverEnter
    BY <2>6 DEF RecoverEnter, Take, LockFree, hwVars, rxVars, txVars, genVars, TypeOK, BusTypes,
         RxTypes, CountTypes, LockInv, OrderInv, NoSplit
  <2> QED  BY <1>2, <2>1, <2>2, <2>3, <2>4, <2>5, <2>6 DEF Enter
<1>3. CASE Service
  <2>1. CASE DrainByte
    <3>1. Len(rxFifo) \in Nat \ {0} /\ Len(rxFifo') = Len(rxFifo) - 1 /\ drained' = rxFifo[1]
        /\ \A i \in 1..Len(rxFifo') : rxFifo'[i] = rxFifo[i + 1]
      BY <2>1 DEF DrainByte, TypeOK, BusTypes
    <3>2. UNCHANGED <<curWrite, rxBusy, sealed>> /\ pc' = "drain"
      BY <2>1 DEF DrainByte, At, Goto
    <3>3. rxFifo[1] > sealed /\ Head(rxFifo) = rxFifo[1] /\ rxFifo[1] \in Writes
      BY <2>1, FifoBytes, EmptySeq DEF DrainByte, TypeOK, BusTypes, OrderInv, NoSplit
    <3>4. \A i \in 1..Len(rxWork') : rxWork'[i] > sealed
      <4>1. CASE rxWork' = rxWork
        BY <4>1 DEF OrderInv, NoSplit
      <4>2. CASE rxWork' = Append(rxWork, Head(rxFifo))
        <5>1. /\ Len(rxWork') = Len(rxWork) + 1 /\ rxWork'[Len(rxWork) + 1] = rxFifo[1]
              /\ \A i \in 1..Len(rxWork) : rxWork'[i] = rxWork[i]
              /\ Len(rxWork) \in Nat
          BY <3>3, <4>2 DEF TypeOK, RxTypes
        <5> QED  BY <3>3, <5>1 DEF OrderInv, NoSplit
      <4> QED  BY <2>1, <4>1, <4>2 DEF DrainByte
    <3>5. \A i \in 1..Len(rxFifo') :
           drained' <= rxFifo'[i] /\ rxFifo'[i] <= curWrite /\ rxFifo'[i] > sealed
      <4> TAKE i \in 1..Len(rxFifo')
      <4>1. i + 1 \in 1..Len(rxFifo) /\ 1 \in 1..Len(rxFifo) /\ 1 <= i + 1
        BY <3>1
      <4>2. rxFifo'[i] = rxFifo[i + 1] /\ drained' = rxFifo[1]
        BY <3>1
      <4> QED  BY <4>1, <4>2 DEF OrderInv, NoSplit
    <3>6. \A i, j \in 1..Len(rxFifo') : i <= j => rxFifo'[i] <= rxFifo'[j]
      <4> TAKE i, j \in 1..Len(rxFifo')
      <4> HAVE i <= j
      <4>1. i + 1 \in 1..Len(rxFifo) /\ j + 1 \in 1..Len(rxFifo) /\ i + 1 <= j + 1
        BY <3>1
      <4>2. rxFifo'[i] = rxFifo[i + 1] /\ rxFifo'[j] = rxFifo[j + 1]
        BY <3>1
      <4> QED  BY <4>1, <4>2 DEF OrderInv
    <3>7. sealed <= drained' /\ drained' <= curWrite
      BY FifoBytes, <3>1, <3>3 DEF TypeOK, CountTypes, OrderInv, Writes
    <3> QED  BY <3>2, <3>4, <3>5, <3>6, <3>7 DEF OrderInv, NoSplit
  <2>2. CASE DrainDone
    BY <2>2 DEF DrainDone, At, Goto, rxVars, txVars, genVars, TypeOK, BusTypes, RxTypes,
         CountTypes, LockInv, OrderInv, NoSplit
  <2>3. CASE Snapshot
    BY <2>3 DEF Snapshot, At, Goto, BurstBegun, BurstComplete, rxVars, genVars, TypeOK, BusTypes,
         RxTypes, CountTypes, LockInv, OrderInv, NoSplit
  <2>4. CASE Finish
    BY <2>4 DEF Finish, At, Goto, PulseEnds, Pushed, txVars, genVars, TypeOK, BusTypes, RxTypes,
         CountTypes, LockInv, OrderInv, NoSplit
  <2>5. CASE LoadByte
    BY <2>5 DEF LoadByte, At, Goto, BytesToLoad, TxFull, rxVars, genVars, TypeOK, BusTypes,
         RxTypes, CountTypes, LockInv, OrderInv, NoSplit
  <2>6. CASE ServiceDone
    BY <2>6 DEF ServiceDone, At, Goto, Release, SetInterrupts, BytesToLoad, rxVars, genVars,
         TypeOK, BusTypes, RxTypes, CountTypes, LockInv, OrderInv, NoSplit
  <2> QED  BY <1>3, <2>1, <2>2, <2>3, <2>4, <2>5, <2>6 DEF Service
<1>4. CASE Publish
  <2>1. CASE PublishRefused
    BY <2>1 DEF PublishRefused, At, Release, rxVars, txVars, genVars, TypeOK, BusTypes, RxTypes,
         CountTypes, LockInv, OrderInv, NoSplit
  <2>2. CASE PublishDiscarded
    BY <2>2 DEF PublishDiscarded, At, Release, rxVars, txVars, TypeOK, BusTypes, RxTypes,
         CountTypes, LockInv, OrderInv, NoSplit
  <2>3. ASSUME NEW count \in 1..MaxTransfer, PublishAccepted(count)
      PROVE  OrderInv'
    BY <2>3 DEF PublishAccepted, At, Goto, rxVars, TypeOK, BusTypes, RxTypes, CountTypes, LockInv,
         OrderInv, NoSplit
  <2>4. CASE ReplyReady
    BY <2>4 DEF ReplyReady, At, Release, SetInterrupts, BytesToLoad, rxVars, genVars, TypeOK,
         BusTypes, RxTypes, CountTypes, LockInv, OrderInv, NoSplit
  <2> QED  BY <1>4, <2>1, <2>2, <2>3, <2>4 DEF Publish
<1>5. CASE Recover
  <2>1. CASE RecoverRefused
    BY <2>1 DEF RecoverRefused, At, Release, rxVars, txVars, genVars, TypeOK, BusTypes, RxTypes,
         CountTypes, LockInv, OrderInv, NoSplit
  <2>2. CASE RecoverGranted
    BY <2>2 DEF RecoverGranted, At, Goto, rxVars, genVars, TypeOK, BusTypes, RxTypes, CountTypes,
         LockInv, OrderInv, NoSplit
  <2>3. CASE RecoverConfigure
    BY <2>3 DEF RecoverConfigure, At, Release, ReceiverOff, SetInterrupts, BytesToLoad, rxVars,
         genVars, TypeOK, BusTypes, RxTypes, CountTypes, LockInv, OrderInv, NoSplit
  <2> QED  BY <1>5, <2>1, <2>2, <2>3 DEF Recover
<1>6. CASE ReadMessage
  BY <1>6 DEF ReadMessage, LockFree, hwVars, txVars, lockVars, TypeOK, BusTypes, RxTypes,
       CountTypes, LockInv, OrderInv, NoSplit
<1>7. CASE Open
  BY <1>7 DEF Open, LockFree, ResetIo, ReceiverOff, lockVars, TypeOK, BusTypes, RxTypes,
       CountTypes, LockInv, OrderInv, NoSplit
<1>8. CASE Close
  BY <1>8 DEF Close, LockFree, ResetIo, ReceiverOff, lockVars, TypeOK, BusTypes, RxTypes,
       CountTypes, LockInv, OrderInv, NoSplit
<1> QED  BY <1>1, <1>2, <1>3, <1>4, <1>5, <1>6, <1>7, <1>8 DEF Next

\* Every step keeps ring, worker and reply on the generations they may hold.
LEMMA RequestStep ==
    ASSUME TypeOK, LockInv, RequestInv, Next PROVE RequestInv'
<1>1. CASE Wire
  <2>1. CASE WireStart
    BY <2>1 DEF WireStart, BusMayMove, BusMoved, rxVars, genVars, histVars, TypeOK, BusTypes,
         RxTypes, TxTypes, CountTypes, BurstBegun, LockInv, RequestInv, OneRequest, Superseded
  <2>2. CASE WireStop
    BY <2>2 DEF WireStop, BusMayMove, BusMoved, rxVars, genVars, histVars, TypeOK, BusTypes,
         RxTypes, TxTypes, CountTypes, BurstBegun, LockInv, RequestInv, OneRequest, Superseded
  <2>3. CASE WireRead
    BY <2>3 DEF WireRead, BusMayMove, BusMoved, hwVars, rxVars, genVars, histVars, TypeOK,
         BusTypes, RxTypes, TxTypes, CountTypes, BurstBegun, LockInv, RequestInv, OneRequest,
         Superseded
  <2>4. ASSUME NEW stop \in BOOLEAN, WireByte(stop) PROVE RequestInv'
    BY <2>4 DEF WireByte, BusMayMove, BusMoved, rxVars, genVars, histVars, TypeOK, BusTypes,
         RxTypes, TxTypes, CountTypes, BurstBegun, LockInv, RequestInv, OneRequest, Superseded
  <2> QED  BY <1>1, <2>1, <2>2, <2>3, <2>4 DEF Wire
<1>2. CASE Enter
  <2>1. CASE IrqRaised
    BY <2>1 DEF IrqRaised, hwVars, rxVars, txVars, genVars, lockVars, histVars, TypeOK, BusTypes,
         RxTypes, TxTypes, CountTypes, BurstBegun, LockInv, RequestInv, OneRequest, Superseded
  <2>2. CASE IrqEnter
    BY <2>2 DEF IrqEnter, Take, LockFree, hwVars, rxVars, txVars, genVars, TypeOK, BusTypes,
         RxTypes, TxTypes, CountTypes, BurstBegun, LockInv, RequestInv, OneRequest, Superseded
  <2>3. CASE IrqIgnored
    BY <2>3 DEF IrqIgnored, LockFree, hwVars, rxVars, txVars, genVars, lockVars, histVars, TypeOK,
         BusTypes, RxTypes, TxTypes, CountTypes, BurstBegun, LockInv, RequestInv, OneRequest,
         Superseded
  <2>4. CASE TimerEnter
    BY <2>4 DEF TimerEnter, Take, LockFree, hwVars, rxVars, txVars, genVars, TypeOK, BusTypes,
         RxTypes, TxTypes, CountTypes, BurstBegun, LockInv, RequestInv, OneRequest, Superseded
  <2>5. CASE WriterEnter
    BY <2>5 DEF WriterEnter, Take, LockFree, hwVars, rxVars, txVars, genVars, TypeOK, BusTypes,
         RxTypes, TxTypes, CountTypes, BurstBegun, LockInv, RequestInv, OneRequest, Superseded
  <2>6. CASE RecoverEnter
    BY <2>6 DEF RecoverEnter, Take, LockFree, hwVars, rxVars, txVars, genVars, TypeOK, BusTypes,
         RxTypes, TxTypes, CountTypes, BurstBegun, LockInv, RequestInv, OneRequest, Superseded
  <2> QED  BY <1>2, <2>1, <2>2, <2>3, <2>4, <2>5, <2>6 DEF Enter
<1>3. CASE Service
  <2>1. CASE DrainByte
    <3>1. BurstBegun' /\ pc = "drain" /\ pc' = "drain"
        /\ UNCHANGED <<workerGeneration, workerPending, txLen, txGen, ready>>
      <4>1. rxWork' # <<>> \/ rxOverflowed'
        BY <2>1 DEF DrainByte, TypeOK, BusTypes, RxTypes
      <4> QED  BY <2>1, <4>1 DEF DrainByte, BurstBegun, At, Goto
    <3>3. CASE BurstBegun
      BY <2>1, <3>3, LaterByteKeepsRequests
    <3>4. CASE ~BurstBegun
      BY <2>1, <3>1, <3>4, EmptySeq DEF DrainByte, BurstBegins, TypeOK, CountTypes, RequestInv, OneRequest
    <3> QED  BY <3>3, <3>4
  <2>2. CASE DrainDone
    BY <2>2 DEF DrainDone, At, Goto, rxVars, txVars, genVars, TypeOK, BusTypes, RxTypes, TxTypes,
         CountTypes, BurstBegun, LockInv, RequestInv, OneRequest, Superseded
  <2>3. CASE Snapshot
    BY <2>3 DEF Snapshot, At, Goto, BurstBegun, BurstComplete, rxVars, genVars, TypeOK, BusTypes,
         RxTypes, TxTypes, CountTypes, LockInv, RequestInv, OneRequest, Superseded
  <2>4. CASE Finish
    BY <2>4 DEF Finish, At, Goto, PulseEnds, Pushed, txVars, genVars, TypeOK, BusTypes, RxTypes,
         TxTypes, CountTypes, BurstBegun, LockInv, RequestInv, OneRequest, Superseded
  <2>5. CASE LoadByte
    BY <2>5 DEF LoadByte, At, Goto, BytesToLoad, TxFull, rxVars, genVars, TypeOK, BusTypes,
         RxTypes, TxTypes, CountTypes, BurstBegun, LockInv, RequestInv, OneRequest, Superseded
  <2>6. CASE ServiceDone
    BY <2>6 DEF ServiceDone, At, Goto, Release, SetInterrupts, BytesToLoad, rxVars, genVars,
         TypeOK, BusTypes, RxTypes, TxTypes, CountTypes, BurstBegun, LockInv, RequestInv,
         OneRequest, Superseded
  <2> QED  BY <1>3, <2>1, <2>2, <2>3, <2>4, <2>5, <2>6 DEF Service
<1>4. CASE Publish
  <2>1. CASE PublishRefused
    BY <2>1 DEF PublishRefused, At, Release, rxVars, txVars, genVars, TypeOK, BusTypes, RxTypes,
         TxTypes, CountTypes, BurstBegun, LockInv, RequestInv, OneRequest, Superseded
  <2>2. CASE PublishDiscarded
    BY <2>2 DEF PublishDiscarded, At, Release, rxVars, txVars, TypeOK, BusTypes, RxTypes, TxTypes,
         CountTypes, BurstBegun, LockInv, RequestInv, OneRequest, Superseded
  <2>3. ASSUME NEW count \in 1..MaxTransfer, PublishAccepted(count)
      PROVE  RequestInv'
    BY <2>3 DEF PublishAccepted, At, Goto, rxVars, TypeOK, BusTypes, RxTypes, TxTypes, CountTypes,
         BurstBegun, LockInv, RequestInv, OneRequest, Superseded
  <2>4. CASE ReplyReady
    BY <2>4 DEF ReplyReady, At, Release, SetInterrupts, BytesToLoad, rxVars, genVars, TypeOK,
         BusTypes, RxTypes, TxTypes, CountTypes, BurstBegun, LockInv, RequestInv, OneRequest,
         Superseded
  <2> QED  BY <1>4, <2>1, <2>2, <2>3, <2>4 DEF Publish
<1>5. CASE Recover
  <2>1. CASE RecoverRefused
    BY <2>1 DEF RecoverRefused, At, Release, rxVars, txVars, genVars, TypeOK, BusTypes, RxTypes,
         TxTypes, CountTypes, BurstBegun, LockInv, RequestInv, OneRequest, Superseded
  <2>2. CASE RecoverGranted
    BY <2>2 DEF RecoverGranted, At, Goto, rxVars, genVars, TypeOK, BusTypes, RxTypes, TxTypes,
         CountTypes, BurstBegun, LockInv, RequestInv, OneRequest, Superseded
  <2>3. CASE RecoverConfigure
    BY <2>3 DEF RecoverConfigure, At, Release, ReceiverOff, SetInterrupts, BytesToLoad, rxVars,
         genVars, TypeOK, BusTypes, RxTypes, TxTypes, CountTypes, BurstBegun, LockInv, RequestInv,
         OneRequest, Superseded
  <2> QED  BY <1>5, <2>1, <2>2, <2>3 DEF Recover
<1>6. CASE ReadMessage
  BY <1>6 DEF ReadMessage, LockFree, hwVars, txVars, lockVars, TypeOK, BusTypes, RxTypes, TxTypes,
       CountTypes, BurstBegun, LockInv, RequestInv, OneRequest, Superseded
<1>7. CASE Open
  BY <1>7 DEF Open, LockFree, ResetIo, ReceiverOff, lockVars, TypeOK, BusTypes, RxTypes, TxTypes,
       CountTypes, BurstBegun, LockInv, RequestInv, OneRequest, Superseded
<1>8. CASE Close
  BY <1>8 DEF Close, LockFree, ResetIo, ReceiverOff, lockVars, TypeOK, BusTypes, RxTypes, TxTypes,
       CountTypes, BurstBegun, LockInv, RequestInv, OneRequest, Superseded
<1> QED  BY <1>1, <1>2, <1>3, <1>4, <1>5, <1>6, <1>7, <1>8 DEF Next

\* Every step keeps the worker of the newest generation on the newest finished burst.
LEMMA OwnerStep ==
    ASSUME TypeOK, LockInv, RecordInv, OrderInv, RequestInv, OwnerInv, Next PROVE OwnerInv'
<1>1. CASE Wire
  <2>1. CASE WireStart
    BY <2>1 DEF WireStart, BusMayMove, BusMoved, rxVars, genVars, histVars, TypeOK, RxTypes,
         CountTypes, BurstBegun, LockInv, OwnerInv, OrderInv, RequestInv, OneRequest, Superseded,
         UnreadInput
  <2>2. CASE WireStop
    BY <2>2 DEF WireStop, BusMayMove, BusMoved, rxVars, genVars, histVars, TypeOK, RxTypes,
         CountTypes, BurstBegun, LockInv, OwnerInv, OrderInv, RequestInv, OneRequest, Superseded,
         UnreadInput
  <2>3. CASE WireRead
    BY <2>3 DEF WireRead, BusMayMove, BusMoved, hwVars, rxVars, genVars, histVars, TypeOK,
         RxTypes, CountTypes, BurstBegun, LockInv, OwnerInv, OrderInv, RequestInv, OneRequest,
         Superseded, UnreadInput
  <2>4. ASSUME NEW stop \in BOOLEAN, WireByte(stop) PROVE OwnerInv'
    <3>1. rxFifo # <<>> => rxFifo' # <<>>
      BY <2>4 DEF WireByte, TypeOK, BusTypes
    <3> QED  BY <2>4, <3>1 DEF WireByte, BusMoved, rxVars, genVars, histVars, OwnerInv
  <2> QED  BY <1>1, <2>1, <2>2, <2>3, <2>4 DEF Wire
<1>2. CASE Enter
  BY <1>2 DEF Enter, IrqRaised, IrqEnter, IrqIgnored, TimerEnter, WriterEnter, RecoverEnter, Take,
       LockFree, hwVars, rxVars, txVars, genVars, lockVars, histVars, TypeOK, RxTypes, CountTypes,
       BurstBegun, LockInv, OwnerInv, OrderInv, RequestInv, OneRequest, Superseded, UnreadInput
<1>3. CASE Service
  <2>1. CASE DrainByte
    <3>1. rxWork' # <<>> /\ ~rxOverflowed' => rxWork'[Len(rxWork')] = drained'
      BY <2>1 DEF DrainByte, TypeOK, BusTypes, RxTypes
    <3>2. UNCHANGED <<holder, inputAtLock, workerWrite, workerGeneration, workerPending, sealed>>
      BY <2>1 DEF DrainByte, At, Goto
    <3>3. CASE BurstBegun
      BY <2>1, <3>1, <3>2, <3>3 DEF DrainByte, RequestInv, OneRequest, OwnerInv
    <3>4. CASE ~BurstBegun
      BY <2>1, <3>1, <3>2, <3>4 DEF DrainByte, BurstBegins, TypeOK, CountTypes, RequestInv, OwnerInv
    <3> QED  BY <3>3, <3>4
  <2>2. CASE DrainDone
    BY <2>2 DEF DrainDone, At, Goto, rxVars, txVars, genVars, TypeOK, RxTypes, CountTypes,
         BurstBegun, LockInv, OwnerInv, OrderInv, RequestInv, OneRequest, Superseded, UnreadInput
  <2>3. CASE Snapshot
    BY <2>3 DEF Snapshot, At, Goto, BurstBegun, BurstComplete, rxVars, genVars, TypeOK, RxTypes,
         CountTypes, LockInv, OwnerInv, OrderInv, RequestInv, OneRequest, Superseded, UnreadInput
  <2>4. CASE Finish
    BY <2>4 DEF Finish, At, Goto, PulseEnds, Pushed, txVars, genVars, TypeOK, RxTypes, CountTypes,
         BurstBegun, LockInv, OwnerInv, OrderInv, RequestInv, OneRequest, Superseded, UnreadInput
  <2>5. CASE LoadByte
    BY <2>5 DEF LoadByte, At, Goto, BytesToLoad, TxFull, rxVars, genVars, TypeOK, RxTypes,
         CountTypes, BurstBegun, LockInv, OwnerInv, OrderInv, RequestInv, OneRequest, Superseded,
         UnreadInput
  <2>6. CASE ServiceDone
    BY <2>6 DEF ServiceDone, At, Goto, Release, SetInterrupts, BytesToLoad, rxVars, genVars,
         TypeOK, RxTypes, CountTypes, BurstBegun, LockInv, OwnerInv, OrderInv, RequestInv,
         OneRequest, Superseded, UnreadInput
  <2> QED  BY <1>3, <2>1, <2>2, <2>3, <2>4, <2>5, <2>6 DEF Service
<1>4. CASE Publish
  BY <1>4 DEF Publish, PublishRefused, PublishDiscarded, PublishAccepted, ReplyReady, At, Release,
       Goto, SetInterrupts, BytesToLoad, rxVars, txVars, genVars, TypeOK, RxTypes, CountTypes,
       BurstBegun, LockInv, OwnerInv, OrderInv, RequestInv, OneRequest, Superseded, UnreadInput
<1>5. CASE Recover
  BY <1>5 DEF Recover, RecoverRefused, RecoverGranted, RecoverConfigure, At, Release, Goto,
       ReceiverOff, SetInterrupts, BytesToLoad, rxVars, txVars, genVars, TypeOK, RxTypes,
       CountTypes, BurstBegun, LockInv, OwnerInv, OrderInv, RequestInv, OneRequest, Superseded,
       UnreadInput
<1>6. CASE ReadMessage
  <2>1. SUFFICES ASSUME ReadyGpio PROVE OwnerInv'
    BY DEF OwnerInv
  <2>2. Head(ring) = ring[1] /\ ring' = <<>> /\ ~BurstBegun
    BY <1>6, <2>1 DEF ReadMessage, TypeOK, RxTypes, RequestInv, OneRequest
  <2>3. workerWrite' = sealed
    BY <1>6, <2>1, <2>2 DEF ReadMessage, OwnerInv
  <2> QED  BY <1>6, <2>1, <2>2, <2>3 DEF ReadMessage, LockFree, lockVars, BurstBegun, OwnerInv
<1>7. CASE Open
  BY <1>7 DEF Open, LockFree, ResetIo, ReceiverOff, lockVars, TypeOK, RxTypes, CountTypes,
       BurstBegun, LockInv, OwnerInv, OrderInv, RequestInv, OneRequest, Superseded, UnreadInput
<1>8. CASE Close
  BY <1>8 DEF Close, LockFree, ResetIo, ReceiverOff, lockVars, TypeOK, RxTypes, CountTypes,
       BurstBegun, LockInv, OwnerInv, OrderInv, RequestInv, OneRequest, Superseded, UnreadInput
<1> QED  BY <1>1, <1>2, <1>3, <1>4, <1>5, <1>6, <1>7, <1>8 DEF Next

\* Every step keeps the serializer and FIFO equal to the unread part of the loaded reply.
LEMMA PipeStep ==
    ASSUME TypeOK, LockInv, RequestInv, PipeInv, Next PROVE PipeInv'
<1>1. CASE Wire
  <2>1. CASE WireStart
    BY <2>1 DEF WireStart, BusMayMove, BusMoved, rxVars, genVars, histVars, TypeOK, TxTypes,
         CountTypes, BurstBegun, LockInv, RequestInv, PipeInv, TxExact, Superseded
  <2>2. CASE WireStop
    BY <2>2 DEF WireStop, BusMayMove, BusMoved, rxVars, genVars, histVars, TypeOK, TxTypes,
         CountTypes, BurstBegun, LockInv, RequestInv, PipeInv, TxExact, Superseded
  <2>3. CASE WireRead
    BY <2>3 DEF WireRead, BusMayMove, BusMoved, hwVars, rxVars, genVars, histVars, TypeOK,
         TxTypes, CountTypes, BurstBegun, LockInv, RequestInv, PipeInv, TxExact, Superseded
  <2>4. ASSUME NEW stop \in BOOLEAN, WireByte(stop) PROVE PipeInv'
    BY <2>4 DEF WireByte, BusMayMove, BusMoved, rxVars, genVars, histVars, TypeOK, TxTypes,
         CountTypes, BurstBegun, LockInv, RequestInv, PipeInv, TxExact, Superseded
  <2> QED  BY <1>1, <2>1, <2>2, <2>3, <2>4 DEF Wire
<1>2. CASE Enter
  BY <1>2 DEF Enter, IrqRaised, IrqEnter, IrqIgnored, TimerEnter, WriterEnter, RecoverEnter, Take,
       LockFree, hwVars, rxVars, txVars, genVars, lockVars, histVars, TypeOK, TxTypes, CountTypes,
       BurstBegun, LockInv, RequestInv, PipeInv, TxExact, Superseded
<1>3. CASE Service
  <2>1. CASE DrainByte
    BY <2>1 DEF DrainByte, At, Goto, BurstBegins, BurstBegun, TypeOK, TxTypes, CountTypes,
         LockInv, RequestInv, PipeInv, TxExact, Superseded
  <2>2. CASE DrainDone
    BY <2>2 DEF DrainDone, At, Goto, rxVars, txVars, genVars, TypeOK, TxTypes, CountTypes,
         BurstBegun, LockInv, RequestInv, PipeInv, TxExact, Superseded
  <2>3. CASE Snapshot
    BY <2>3 DEF Snapshot, At, Goto, BurstBegun, BurstComplete, rxVars, genVars, TypeOK, TxTypes,
         CountTypes, LockInv, RequestInv, PipeInv, TxExact, Superseded
  <2>4. CASE Finish
    BY <2>4 DEF Finish, At, Goto, PulseEnds, Pushed, txVars, genVars, TypeOK, TxTypes, CountTypes,
         BurstBegun, LockInv, RequestInv, PipeInv, TxExact, Superseded
  <2>5. CASE LoadByte
    <3>1. /\ txPipe' = Append(txPipe, [gen |-> txGen, pos |-> txLoaded + 1])
        /\ txLoaded' = txLoaded + 1 /\ txQueued
        /\ UNCHANGED <<txGen, txQueued, active, abandoned, pc>>
      BY <2>5 DEF LoadByte, At, Goto, BytesToLoad
    <3>2. /\ Len(txPipe') = Len(txPipe) + 1
        /\ txPipe'[Len(txPipe) + 1] = [gen |-> txGen, pos |-> txLoaded + 1]
        /\ \A i \in 1..Len(txPipe) : txPipe'[i] = txPipe[i]
      BY <3>1 DEF TypeOK, TxTypes
    <3>3. Len(txPipe) \in Nat /\ txLoaded \in Nat
      BY DEF TypeOK, TxTypes
    <3> QED  BY <3>1, <3>2, <3>3 DEF PipeInv, TxExact
  <2>6. CASE ServiceDone
    BY <2>6 DEF ServiceDone, At, Goto, Release, SetInterrupts, BytesToLoad, rxVars, genVars,
         TypeOK, TxTypes, CountTypes, BurstBegun, LockInv, RequestInv, PipeInv, TxExact,
         Superseded
  <2> QED  BY <1>3, <2>1, <2>2, <2>3, <2>4, <2>5, <2>6 DEF Service
<1>4. CASE Publish
  <2>1. CASE PublishRefused
    BY <2>1 DEF PublishRefused, At, Release, rxVars, txVars, genVars, TypeOK, TxTypes, CountTypes,
         BurstBegun, LockInv, RequestInv, PipeInv, TxExact, Superseded
  <2>2. CASE PublishDiscarded
    BY <2>2 DEF PublishDiscarded, At, Release, rxVars, txVars, TypeOK, TxTypes, CountTypes,
         BurstBegun, LockInv, RequestInv, PipeInv, TxExact, Superseded
  <2>3. ASSUME NEW count \in 1..MaxTransfer, PublishAccepted(count)
      PROVE  PipeInv'
    BY <2>3 DEF PublishAccepted, At, Goto, rxVars, TypeOK, TxTypes, CountTypes, BurstBegun,
         LockInv, RequestInv, PipeInv, TxExact, Superseded
  <2>4. CASE ReplyReady
    BY <2>4 DEF ReplyReady, At, Release, SetInterrupts, BytesToLoad, rxVars, genVars, TypeOK,
         TxTypes, CountTypes, BurstBegun, LockInv, RequestInv, PipeInv, TxExact, Superseded
  <2> QED  BY <1>4, <2>1, <2>2, <2>3, <2>4 DEF Publish
<1>5. CASE Recover
  <2>1. CASE RecoverRefused
    BY <2>1 DEF RecoverRefused, At, Release, rxVars, txVars, genVars, TypeOK, TxTypes, CountTypes,
         BurstBegun, LockInv, RequestInv, PipeInv, TxExact, Superseded
  <2>2. CASE RecoverGranted
    BY <2>2 DEF RecoverGranted, At, Goto, rxVars, genVars, TypeOK, TxTypes, CountTypes,
         BurstBegun, LockInv, RequestInv, PipeInv, TxExact, Superseded
  <2>3. CASE RecoverConfigure
    <3>1. txPipe' = <<>> /\ txLoaded' \in Nat
      BY <2>3, PurgeEmpties DEF RecoverConfigure, TypeOK, TxTypes
    <3> QED  BY <3>1 DEF PipeInv, TxExact
  <2> QED  BY <1>5, <2>1, <2>2, <2>3 DEF Recover
<1>6. CASE ReadMessage
  BY <1>6 DEF ReadMessage, LockFree, hwVars, txVars, lockVars, TypeOK, TxTypes, CountTypes,
       BurstBegun, LockInv, RequestInv, PipeInv, TxExact, Superseded
<1>7. CASE Open
  <2>1. txPipe' = <<>> /\ txLoaded' \in Nat
    BY <1>7, PurgeEmpties DEF Open, ResetIo, TypeOK
  <2> QED  BY <2>1 DEF PipeInv, TxExact
<1>8. CASE Close
  BY <1>8 DEF Close, LockFree, ResetIo, ReceiverOff, lockVars, TypeOK, TxTypes, CountTypes,
       BurstBegun, LockInv, RequestInv, PipeInv, TxExact, Superseded
<1> QED  BY <1>1, <1>2, <1>3, <1>4, <1>5, <1>6, <1>7, <1>8 DEF Next

\* Every step keeps IMSC's TX bit armed exactly for the bytes left to load.
LEMMA InterruptStep ==
    ASSUME TypeOK, LockInv, InterruptInv, Next PROVE InterruptInv'
<1>1. CASE Wire
  BY <1>1 DEF Wire, WireStart, WireStop, WireRead, WireByte, BusMayMove, BusMoved, hwVars, rxVars,
       genVars, histVars, TypeOK, CountTypes, LockInv, InterruptInv, BytesToLoad
<1>2. CASE Enter
  BY <1>2 DEF Enter, IrqRaised, IrqEnter, IrqIgnored, TimerEnter, WriterEnter, RecoverEnter, Take,
       LockFree, hwVars, rxVars, txVars, genVars, lockVars, histVars, TypeOK, CountTypes, LockInv,
       InterruptInv, BytesToLoad
<1>3. CASE Service
  BY <1>3 DEF Service, DrainByte, DrainDone, Snapshot, Finish, LoadByte, ServiceDone, At, Goto,
       BurstBegins, BurstBegun, BurstComplete, PulseEnds, Pushed, BytesToLoad, TxFull, Release,
       SetInterrupts, rxVars, txVars, genVars, TypeOK, CountTypes, LockInv, InterruptInv
<1>4. CASE Publish
  BY <1>4 DEF Publish, PublishRefused, PublishDiscarded, PublishAccepted, ReplyReady, At, Release,
       Goto, SetInterrupts, BytesToLoad, rxVars, txVars, genVars, TypeOK, CountTypes, LockInv,
       InterruptInv
<1>5. CASE Recover
  BY <1>5 DEF Recover, RecoverRefused, RecoverGranted, RecoverConfigure, At, Release, Goto,
       ReceiverOff, SetInterrupts, BytesToLoad, rxVars, txVars, genVars, TypeOK, CountTypes,
       LockInv, InterruptInv
<1>6. CASE ReadMessage
  BY <1>6 DEF ReadMessage, LockFree, hwVars, txVars, lockVars, TypeOK, CountTypes, LockInv,
       InterruptInv, BytesToLoad
<1>7. CASE Open
  BY <1>7 DEF Open, LockFree, ResetIo, ReceiverOff, lockVars, TypeOK, CountTypes, LockInv,
       InterruptInv, BytesToLoad
<1>8. CASE Close
  BY <1>8 DEF Close, LockFree, ResetIo, ReceiverOff, lockVars, TypeOK, CountTypes, LockInv,
       InterruptInv, BytesToLoad
<1> QED  BY <1>1, <1>2, <1>3, <1>4, <1>5, <1>6, <1>7, <1>8 DEF Next

\* Every step keeps a closed device inert.
LEMMA ClosedStep ==
    ASSUME TypeOK, LockInv, ClosedIsInert, Next PROVE ClosedIsInert'
<1>1. CASE Wire
  BY <1>1 DEF Wire, WireStart, WireStop, WireRead, WireByte, BusMayMove, BusMoved, hwVars, rxVars,
       genVars, histVars, TypeOK, LockInv, ClosedIsInert, BurstBegun, BytesToLoad
<1>2. CASE Enter
  BY <1>2 DEF Enter, IrqRaised, IrqEnter, IrqIgnored, TimerEnter, WriterEnter, RecoverEnter, Take,
       LockFree, hwVars, rxVars, txVars, genVars, lockVars, histVars, TypeOK, LockInv,
       ClosedIsInert, BurstBegun, BytesToLoad
<1>3. CASE Service
  BY <1>3 DEF Service, DrainByte, DrainDone, Snapshot, Finish, LoadByte, ServiceDone, At, Goto,
       BurstBegins, BurstBegun, BurstComplete, PulseEnds, Pushed, BytesToLoad, TxFull, Release,
       SetInterrupts, rxVars, txVars, genVars, TypeOK, LockInv, ClosedIsInert
<1>4. CASE Publish
  BY <1>4 DEF Publish, PublishRefused, PublishDiscarded, PublishAccepted, ReplyReady, At, Release,
       Goto, SetInterrupts, BytesToLoad, rxVars, txVars, genVars, TypeOK, LockInv, ClosedIsInert,
       BurstBegun
<1>5. CASE Recover
  BY <1>5 DEF Recover, RecoverRefused, RecoverGranted, RecoverConfigure, At, Release, Goto,
       ReceiverOff, SetInterrupts, BytesToLoad, rxVars, txVars, genVars, TypeOK, LockInv,
       ClosedIsInert, BurstBegun
<1>6. CASE ReadMessage
  BY <1>6 DEF ReadMessage, LockFree, hwVars, txVars, lockVars, TypeOK, LockInv, ClosedIsInert,
       BurstBegun, BytesToLoad
<1>7. CASE Open
  BY <1>7 DEF Open, LockFree, ResetIo, ReceiverOff, lockVars, TypeOK, LockInv, ClosedIsInert,
       BurstBegun, BytesToLoad
<1>8. CASE Close
  BY <1>8 DEF Close, LockFree, ResetIo, ReceiverOff, lockVars, TypeOK, LockInv, ClosedIsInert,
       BurstBegun, BytesToLoad
<1> QED  BY <1>1, <1>2, <1>3, <1>4, <1>5, <1>6, <1>7, <1>8 DEF Next

-----------------------------------------------------------------------------
(* The invariant and the theorems. *)

\* A device that has not been opened satisfies the invariant.
LEMMA InitInv == Init => IInv
<1> SUFFICES ASSUME Init PROVE IInv
  OBVIOUS
<1>1. BusTypes
  BY EmptyInSeq DEF Init, BusTypes
<1>2. RxTypes
  BY EmptyInSeq DEF Init, RxTypes
<1>3. TxTypes
  BY EmptyInSeq DEF Init, TxTypes
<1>4. FlagTypes
  BY Zenon DEF Init, FlagTypes
<1>5. CountTypes
  BY DEF Init, CountTypes
<1>6. LockInv /\ RecordInv /\ ClosedIsInert
  BY EmptyInSeq DEF Init, LockInv, RecordInv, ClosedIsInert, BurstBegun, BytesToLoad
<1>7. OrderInv
  BY EmptyInSeq DEF Init, OrderInv, NoSplit
<1>8. RequestInv /\ OwnerInv
  BY DEF Init, RequestInv, OneRequest, OwnerInv, BurstBegun
<1>9. PipeInv /\ InterruptInv
  BY DEF Init, PipeInv, TxExact, InterruptInv
<1> QED  BY <1>1, <1>2, <1>3, <1>4, <1>5, <1>6, <1>7, <1>8, <1>9 DEF IInv, TypeOK

\* Every step of the driver and of the bus, and every stuttering step, preserves it.
LEMMA StepInv == IInv /\ [Next]_vars => IInv'
<1>1. ASSUME IInv, Next PROVE IInv'
  <2>1. TypeOK'
    BY <1>1, FlagStep, CountStep, BusStep, RxStep, TxStep DEF IInv, TypeOK
  <2>2. LockInv' /\ RecordInv'
    BY <1>1, LockStep, RecordStep DEF IInv
  <2>3. OrderInv' /\ RequestInv' /\ OwnerInv'
    BY <1>1, OrderStep, RequestStep, OwnerStep DEF IInv
  <2>4. PipeInv' /\ InterruptInv' /\ ClosedIsInert'
    BY <1>1, PipeStep, InterruptStep, ClosedStep DEF IInv
  <2> QED  BY <2>1, <2>2, <2>3, <2>4 DEF IInv
<1>2. ASSUME IInv, UNCHANGED vars PROVE IInv'
  <2> USE <1>2 DEF IInv, vars, hwVars, rxVars, txVars, genVars, lockVars, histVars
  <2>1. TypeOK'
    BY DEF TypeOK, BusTypes, RxTypes, TxTypes, FlagTypes, CountTypes
  <2>2. LockInv' /\ RecordInv' /\ ClosedIsInert'
    BY DEF LockInv, RecordInv, ClosedIsInert, BurstBegun, BytesToLoad
  <2>3. OrderInv' /\ PipeInv' /\ InterruptInv'
    BY DEF OrderInv, NoSplit, PipeInv, TxExact, InterruptInv, BytesToLoad
  <2>4. RequestInv' /\ OwnerInv'
    BY DEF RequestInv, OneRequest, OwnerInv, BurstBegun
  <2> QED  BY <2>1, <2>2, <2>3, <2>4
<1> QED  BY <1>1, <1>2

\* The inductive invariant holds in every state of every behaviour of the driver.
THEOREM Invariance == Spec => []IInv
<1> QED  BY InitInv, StepInv, PTL DEF Spec

\* What the inductive invariant says of one state, property by property.
LEMMA InvImplies ==
    ASSUME IInv
    PROVE  /\ TypeOK /\ NoSplit /\ OneRequest /\ RepliesToNewest /\ ReadyMeansAnswered
           /\ TxExact /\ TxInterruptArmed /\ ClosedIsInert
<1>1. TypeOK /\ ClosedIsInert
  BY DEF IInv
<1>2. NoSplit
  BY DEF IInv, OrderInv
<1>3. OneRequest
  BY DEF IInv, RequestInv, OneRequest
<1>4. RepliesToNewest
  BY DEF IInv, RequestInv, RepliesToNewest, BytesToLoad
<1>5. ReadyMeansAnswered
  BY DEF IInv, LockInv, RequestInv, ReadyMeansAnswered, LockFree
<1>6. TxExact
  BY DEF IInv, PipeInv
<1>7. TxInterruptArmed
  BY DEF IInv, LockInv, InterruptInv, TxInterruptArmed, LockFree
<1> QED  BY <1>1, <1>2, <1>3, <1>4, <1>5, <1>6, <1>7

\* Every variable keeps its type: the drain never writes past rx_work, a push never past the
\* ring, a refill never past the TX FIFO.
THEOREM TypeCorrect == Spec => []TypeOK
<1> QED  BY Invariance, InvImplies, PTL

\* bsc_service_locked never finishes a burst whose last write still has bytes in the FIFO or
\* on the bus: no controller write is split over two records.
THEOREM WritesNeverSplit == Spec => []NoSplit
<1> QED  BY Invariance, InvImplies, PTL

\* With READY the ring holds at most the newest request, and none while a newer one is being
\* received (bsc_drain_rx_locked, bsc_finish_rx_locked).
THEOREM OneRequestWaits == Spec => []OneRequest
<1> QED  BY Invariance, InvImplies, PTL

\* bsc_refill_tx_locked never loads a byte of a reply to a request that is not the newest.
THEOREM NewestIsAnswered == Spec => []RepliesToNewest
<1> QED  BY Invariance, InvImplies, PTL

\* Outside the lock READY is asserted only over a published reply, with no request left to
\* read or answer.
THEOREM ReadyIsTruthful == Spec => []ReadyMeansAnswered
<1> QED  BY Invariance, InvImplies, PTL

\* Unless a request overtook an unconsumed reply, what the controller can clock out is exactly
\* what was loaded of the current reply and has not been clocked yet, in order.
THEOREM ReplyBytesExact == Spec => []TxExact
<1> QED  BY Invariance, InvImplies, PTL

\* Outside the lock IRQ_TX is enabled exactly while a reply has bytes to load.
THEOREM TxInterruptExact == Spec => []TxInterruptArmed
<1> QED  BY Invariance, InvImplies, PTL

\* A closed device stays without request, reply, READY or TX interrupt, whichever interrupt
\* handler or timer was late.
THEOREM LateHandlersHarmless == Spec => []ClosedIsInert
<1> QED  BY Invariance, InvImplies, PTL

\* bsc_publish_response_locked accepts a reply only from the worker of the newest finished
\* burst, and never in a write() that found unread input as it took the lock.
THEOREM RepliesAreOwned == Spec => PublishOwned
<1> DEFINE Owned == Accepts => workerWrite = sealed /\ ~inputAtLock
<1>1. ASSUME IInv, NEW count \in 1..MaxTransfer, PublishAccepted(count)
      PROVE  workerWrite = sealed /\ ~inputAtLock
  <2>1. /\ ReadyGpio /\ workerPending /\ workerGeneration = requestGeneration
        /\ pc = "publish"
    BY <1>1 DEF PublishAccepted, Superseded, At
  <2>2. holder = "writer"
    BY <1>1, <2>1 DEF IInv, LockInv
  <2> QED  BY <1>1, <2>1, <2>2 DEF IInv, OwnerInv, TypeOK, FlagTypes
<1>2. IInv /\ [Next]_vars => [Owned]_vars
  BY <1>1 DEF Accepts
<1> QED  BY Invariance, <1>2, PTL DEF Spec, PublishOwned

-----------------------------------------------------------------------------
(* The order of the records, from the burst through the ring to the worker. *)

\* Every byte in the ring is newer than the worker's record, and belongs to a finished burst;
\* a record's bytes are newer than those of the records before it.
QueueInv ==
    /\ workerWrite <= sealed
    /\ \A k \in 1..Len(rxWork) : rxWork[k] <= drained
    /\ \A i \in 1..Len(ring) : \A k \in 1..Len(ring[i].bytes) :
          workerWrite < ring[i].bytes[k] /\ ring[i].bytes[k] <= sealed
    /\ \A i, j \in 1..Len(ring) : i < j =>
          \A k \in 1..Len(ring[i].bytes), l \in 1..Len(ring[j].bytes) :
             ring[i].bytes[k] < ring[j].bytes[l]

\* What QueueInv speaks of; most steps leave it alone.
queueVars == <<rxWork, ring, sealed, drained, workerWrite>>

\* Only the drain, the end of a burst, read(), open() and close() touch records.
LEMMA QueueSteps ==
    ASSUME [Next]_vars
    PROVE  \/ DrainByte \/ Finish \/ ReadMessage \/ Open \/ Close
           \/ UNCHANGED queueVars
<1> USE DEF queueVars, rxVars, histVars
<1>1. CASE UNCHANGED vars
  BY <1>1 DEF vars
<1>2. CASE Wire
  BY <1>2 DEF Wire, WireStart, WireByte, WireStop, WireRead, BusMoved
<1>3. CASE Enter
  BY <1>3 DEF Enter, IrqRaised, IrqEnter, IrqIgnored, TimerEnter, WriterEnter, RecoverEnter, Take
<1>4. CASE Service
  BY <1>4 DEF Service, DrainDone, Snapshot, LoadByte, ServiceDone, At
<1>5. CASE Publish
  BY <1>5 DEF Publish, PublishRefused, PublishDiscarded, PublishAccepted, ReplyReady, At
<1>6. CASE Recover
  BY <1>6 DEF Recover, RecoverRefused, RecoverGranted, RecoverConfigure, At
<1> QED BY <1>1, <1>2, <1>3, <1>4, <1>5, <1>6 DEF Next

\* The ring after a push: what was in it, without the oldest record if it was full, and the
\* new record last.
LEMMA PushedRing ==
    ASSUME RxTypes, NEW record \in Record
    PROVE  LET pushed == Pushed(record)
               shift  == IF Len(ring) = RxSlots THEN 1 ELSE 0
           IN  /\ Len(pushed) = Len(ring) + 1 - shift
               /\ pushed[Len(pushed)] = record
               /\ \A i \in 1..Len(pushed) - 1 : pushed[i] = ring[i + shift]
<1>1. ring \in Seq(Record) /\ Len(ring) \in Nat
  BY DEF RxTypes
<1>2. CASE Len(ring) = RxSlots
  <2>1. ring # <<>>
    BY <1>2, EmptySeq
  <2>2. /\ Tail(ring) \in Seq(Record) /\ Len(Tail(ring)) = Len(ring) - 1
        /\ \A i \in 1..Len(ring) - 1 : Tail(ring)[i] = ring[i + 1]
    BY <1>1, <2>1, HeadTailProperties
  <2> QED BY <1>1, <1>2, <2>2, AppendProperties DEF Pushed
<1>3. CASE Len(ring) # RxSlots
  BY <1>1, <1>3, AppendProperties DEF Pushed
<1> QED BY <1>2, <1>3

\* bsc_finish_rx_locked: the record's bytes are newer than all the finished bursts.
LEMMA FinishKeepsQueue ==
    ASSUME TypeOK, OrderInv, QueueInv, Finish
    PROVE  QueueInv'
<1> USE DEF TypeOK
<1>1. /\ rxWork' = <<>> /\ sealed' = drained /\ UNCHANGED <<drained, workerWrite>>
  BY DEF Finish, At
<1>2. /\ workerWrite \in Nat /\ sealed \in Nat /\ drained \in Nat /\ sealed <= drained
      /\ workerWrite <= sealed
  BY DEF CountTypes, OrderInv, QueueInv
<1>3. \A k \in 1..Len(rxWork) : /\ rxWork[k] \in Nat /\ sealed < rxWork[k]
                                /\ rxWork[k] <= drained
  BY DEF RxTypes, OrderInv, NoSplit, QueueInv, Writes
<1>4. /\ Len(ring) \in Nat
      /\ \A i \in 1..Len(ring) : \A k \in 1..Len(ring[i].bytes) : ring[i].bytes[k] \in Nat
  <2>1. \A i \in 1..Len(ring) : ring[i].bytes \in Seq(Writes)
    <3>1. \A i \in 1..Len(ring) : ring[i] \in Record
      BY ElementOfSeq DEF RxTypes
    <3> QED BY <3>1 DEF Record
  <2>2. \A i \in 1..Len(ring) : \A k \in 1..Len(ring[i].bytes) : ring[i].bytes[k] \in Writes
    BY <2>1, ElementOfSeq
  <2> QED BY <2>2 DEF RxTypes, Writes
<1>5. CASE ring' = ring
  <2>1. \A i \in 1..Len(ring) : \A k \in 1..Len(ring[i].bytes) :
           workerWrite < ring[i].bytes[k] /\ ring[i].bytes[k] <= drained
    BY <1>2, <1>4 DEF QueueInv
  <2> QED BY <1>1, <1>2, <1>5, <2>1, EmptySeq DEF QueueInv
<1>6. CASE ring' = Pushed([bytes |-> rxWork, gen |-> requestGeneration])
  <2> DEFINE record == [bytes |-> rxWork, gen |-> requestGeneration]
             shift  == IF Len(ring) = RxSlots THEN 1 ELSE 0
             n      == Len(ring')
  <2>1. record \in Record
    BY DEF RxTypes, CountTypes, Record
  <2>2. /\ n = Len(ring) + 1 - shift /\ ring'[n] = record
        /\ \A i \in 1..n - 1 : ring'[i] = ring[i + shift]
    BY <1>6, <2>1, PushedRing
  <2>3. /\ shift \in 0..1 /\ n \in Nat /\ n >= 1
        /\ \A i \in 1..n - 1 : i + shift \in 1..Len(ring)
    BY <1>4, <2>2
  <2>4. record.bytes = rxWork
    OBVIOUS
  <2> HIDE DEF record, shift, n
  <2>5. \A i \in 1..n : i = n \/ i \in 1..n - 1
    BY <2>3
  <2>6. ASSUME NEW i \in 1..n, NEW k \in 1..Len(ring'[i].bytes)
        PROVE  workerWrite < ring'[i].bytes[k] /\ ring'[i].bytes[k] <= drained
    <3>1. CASE i = n
      BY <1>2, <1>3, <2>2, <2>4, <2>6, <3>1
    <3>2. CASE i \in 1..n - 1
      <4>1. ring'[i] = ring[i + shift] /\ i + shift \in 1..Len(ring)
        BY <2>2, <2>3, <3>2
      <4> QED BY <1>2, <1>4, <2>6, <4>1 DEF QueueInv
    <3> QED BY <2>5, <3>1, <3>2
  <2>7. ASSUME NEW i \in 1..n, NEW j \in 1..n, i < j,
               NEW k \in 1..Len(ring'[i].bytes), NEW l \in 1..Len(ring'[j].bytes)
        PROVE  ring'[i].bytes[k] < ring'[j].bytes[l]
    <3>1. ring'[i] = ring[i + shift] /\ i + shift \in 1..Len(ring)
      BY <2>2, <2>3, <2>7
    <3>2. CASE j = n
      <4>1. ring'[i].bytes[k] <= sealed /\ ring'[i].bytes[k] \in Nat
        BY <1>4, <2>7, <3>1 DEF QueueInv
      <4>2. ring'[j].bytes[l] > sealed /\ ring'[j].bytes[l] \in Nat
        BY <1>3, <2>2, <2>4, <2>7, <3>2
      <4> QED BY <1>2, <4>1, <4>2, SMTT(30)
    <3>3. CASE j \in 1..n - 1
      <4>1. ring'[j] = ring[j + shift] /\ j + shift \in 1..Len(ring) /\ i + shift < j + shift
        BY <2>2, <2>3, <2>7, <3>3
      <4> QED BY <2>7, <3>1, <4>1 DEF QueueInv
    <3> QED BY <2>5, <3>2, <3>3
  <2> QED BY <1>1, <1>2, <2>6, <2>7, EmptySeq DEF QueueInv, n
<1> QED BY <1>5, <1>6 DEF Finish

\* read(): the worker's record is the oldest one, and it becomes the mark.
LEMMA ReadKeepsQueue ==
    ASSUME TypeOK, RecordInv, QueueInv, ReadMessage
    PROVE  QueueInv'
<1> USE DEF TypeOK
<1>1. /\ ring # <<>> /\ ring' = Tail(ring) /\ UNCHANGED <<rxWork, sealed, drained>>
      /\ workerWrite' = Head(ring).bytes[Len(Head(ring).bytes)]
  BY DEF ReadMessage
<1>2. /\ Head(ring) = ring[1] /\ Len(ring) \in Nat /\ Len(ring) >= 1
      /\ Len(Tail(ring)) = Len(ring) - 1
      /\ \A i \in 1..Len(ring) - 1 : Tail(ring)[i] = ring[i + 1] /\ i + 1 \in 1..Len(ring)
  BY <1>1, EmptySeq, HeadTailProperties DEF RxTypes
<1>3. ring[1] \in Record /\ ring[1].bytes # <<>>
  BY <1>2 DEF RxTypes, RecordInv
<1>4. Len(ring[1].bytes) \in 1..Len(ring[1].bytes)
  BY <1>3, EmptySeq DEF Record
<1>5. workerWrite' = ring[1].bytes[Len(ring[1].bytes)] /\ workerWrite' <= sealed
  BY <1>1, <1>2, <1>4 DEF QueueInv
<1>6. ASSUME NEW i \in 1..Len(ring) - 1, NEW k \in 1..Len(ring[i + 1].bytes)
      PROVE  workerWrite' < ring[i + 1].bytes[k] /\ ring[i + 1].bytes[k] <= sealed
  BY <1>2, <1>4, <1>5, <1>6 DEF QueueInv
<1>7. ASSUME NEW i \in 1..Len(ring) - 1, NEW j \in 1..Len(ring) - 1, i < j,
             NEW k \in 1..Len(ring[i + 1].bytes), NEW l \in 1..Len(ring[j + 1].bytes)
      PROVE  ring[i + 1].bytes[k] < ring[j + 1].bytes[l]
  <2>1. i + 1 \in 1..Len(ring) /\ j + 1 \in 1..Len(ring) /\ i + 1 < j + 1
    BY <1>2, <1>7
  <2> QED BY <1>7, <2>1 DEF QueueInv
<1> QED BY <1>1, <1>2, <1>5, <1>6, <1>7 DEF QueueInv

\* Every step keeps the order of the records.
LEMMA QueueStep ==
    ASSUME IInv, QueueInv, [Next]_vars
    PROVE  QueueInv'
<1>0. TypeOK /\ RecordInv /\ OrderInv
  BY DEF IInv
<1>1. CASE DrainByte
  <2>1. /\ rxFifo # <<>> /\ drained' = Head(rxFifo) /\ UNCHANGED <<sealed, workerWrite>>
        /\ rxWork' \in {rxWork, Append(rxWork, Head(rxFifo))}
    BY <1>1 DEF DrainByte, At
  <2>2. /\ Head(rxFifo) = rxFifo[1] /\ 1 \in 1..Len(rxFifo)
        /\ Head(rxFifo) \in Nat /\ drained \in Nat
    BY <1>0, <2>1, EmptySeq DEF TypeOK, BusTypes, CountTypes, Writes
  <2>3. drained <= drained'
    BY <1>0, <2>1, <2>2 DEF OrderInv
  <2>4. \A k \in 1..Len(rxWork) : rxWork[k] \in Nat /\ rxWork[k] <= drained'
    BY <1>0, <2>1, <2>2, <2>3, SMTT(30) DEF QueueInv, TypeOK, RxTypes, Writes
  <2>5. \A k \in 1..Len(rxWork') : rxWork'[k] <= drained'
    <3>1. CASE rxWork' = rxWork
      BY <2>4, <3>1
    <3>2. CASE rxWork' = Append(rxWork, Head(rxFifo))
      <4>1. Head(rxFifo) \in Writes /\ rxWork \in Seq(Writes)
        BY <1>0, <2>1 DEF TypeOK, BusTypes, RxTypes
      <4>2. /\ Len(rxWork') = Len(rxWork) + 1 /\ rxWork'[Len(rxWork) + 1] = Head(rxFifo)
            /\ \A k \in 1..Len(rxWork) : rxWork'[k] = rxWork[k]
            /\ Len(rxWork) \in Nat
        BY <3>2, <4>1, AppendProperties
      <4> QED BY <2>1, <2>2, <2>4, <4>2
    <3> QED BY <2>1, <3>1, <3>2
  <2>6. ring' \in {ring, <<>>}
    BY <1>1 DEF DrainByte, BurstBegins
  <2>7. CASE ring' = ring
    BY <2>1, <2>5, <2>7 DEF QueueInv
  <2>8. CASE ring' = <<>>
    BY <2>1, <2>5, <2>8, EmptySeq DEF QueueInv
  <2> QED BY <2>6, <2>7, <2>8
<1>2. CASE Finish
  BY <1>0, <1>2, FinishKeepsQueue
<1>3. CASE ReadMessage
  BY <1>0, <1>3, ReadKeepsQueue
<1>4. CASE Open \/ Close
  BY <1>4, EmptySeq DEF Open, Close, ResetIo, QueueInv
<1>5. CASE UNCHANGED queueVars
  BY <1>5 DEF queueVars, QueueInv
<1> QED BY <1>1, <1>2, <1>3, <1>4, <1>5, QueueSteps

\* Whatever the ring drops, bsc_read hands the worker a record of which every byte was written
\* after every byte of the record before it.
THEOREM RecordsNewer == Spec => ReadsAdvance
<1> DEFINE Newer == ReadMessage => \A i \in 1..Len(Head(ring).bytes) :
                                      Head(ring).bytes[i] > workerWrite
<1>1. Init => QueueInv
  BY EmptySeq DEF Init, QueueInv
<1>2. IInv /\ QueueInv /\ [Next]_vars => QueueInv'
  BY QueueStep
<1>3. IInv /\ QueueInv /\ [Next]_vars => [Newer]_vars
  <2> SUFFICES ASSUME IInv, QueueInv, ReadMessage, NEW i \in 1..Len(Head(ring).bytes)
               PROVE  Head(ring).bytes[i] > workerWrite
    OBVIOUS
  <2>1. ring \in Seq(Record) /\ ring # <<>>
    BY DEF IInv, TypeOK, RxTypes, ReadMessage
  <2>2. Head(ring) = ring[1] /\ 1 \in 1..Len(ring) /\ ring[1] \in Record
    BY <2>1, EmptySeq
  <2>3. ring[1].bytes[i] \in Nat /\ workerWrite \in Nat
    BY <2>2 DEF Record, Writes, IInv, TypeOK, CountTypes
  <2> QED BY <2>2, <2>3 DEF QueueInv
<1> QED BY Invariance, <1>1, <1>2, <1>3, PTL DEF Spec, ReadsAdvance
=============================================================================
