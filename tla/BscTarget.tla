------------------------------ MODULE BscTarget ------------------------------
(***************************************************************************)
(* The I/O path of the kernel driver (kernel/bcm27xx_bsc_target.c) and the *)
(* BSC peripheral it drives.  The hard IRQ, the polling timer, a write()   *)
(* and a recovery ioctl each take the spinlock and run the service pass;   *)
(* under the lock every register access is a step of its own, so that the  *)
(* controller's traffic moves the peripheral between two accesses.         *)
(*                                                                         *)
(* Data.  A received byte is the number of the controller write it belongs *)
(* to.  A transmitted byte is the generation of the request it answers and *)
(* its position in the reply.  The ring is a sequence (its indices are in  *)
(* RxRing).  The counters of struct bsc_target_stats are left out.         *)
(***************************************************************************)
EXTENDS Naturals, Sequences

CONSTANTS
    ReadyGpio,    \* whether Device Tree gives the target a READY line
    FifoSize,     \* BSC_FIFO_SIZE: each FIFO; the TX serializer holds one more byte
    RxThreshold,  \* received bytes that raise IRQ_RX (IFLS_RX_THREE_QUARTERS)
    TxThreshold,  \* queued bytes at or below which IRQ_TX is raised (IFLS_TX_SEVEN_EIGHTHS)
    MaxTransfer,  \* BSC_MAX_TRANSFER
    RxSlots,      \* BSC_RX_SLOTS
    MaxWrites,    \* bound: controller writes in a behaviour
    MaxBytes,     \* bound: bytes of one controller write
    GapEvents     \* bus events between two successive register accesses under the lock

ASSUME ReadyGpioAssumption   == ReadyGpio \in BOOLEAN
ASSUME FifoSizeAssumption    == FifoSize \in Nat \ {0}
ASSUME ThresholdAssumption   == RxThreshold \in 1..FifoSize /\ TxThreshold \in 0..FifoSize
ASSUME MaxTransferAssumption == MaxTransfer \in Nat \ {0}
ASSUME RxSlotsAssumption     == RxSlots \in Nat \ {0}
ASSUME BoundsAssumption      == MaxWrites \in Nat /\ MaxBytes \in Nat /\ GapEvents \in Nat

VARIABLES
  \* the peripheral and the bus
    rxBusy,             \* FR_RXBUSY: a controller write is on the bus
    rxFifo,             \* the RX FIFO
    curWrite,           \* number of the newest write begun on the bus
    wireLen,            \* bytes of it the controller has sent
    txPipe,             \* the TX serializer (head) and the TX FIFO behind it
    imscTx,             \* IRQ_TX is set in IMSC
    ready,              \* READY is asserted
  \* struct bsc_target
    active, rxWork, rxOverflowed, ring,
    txLen, txLoaded, txQueued,
    requestGeneration, workerGeneration, workerPending,
  \* the spinlock
    holder,             \* the context that holds it
    pc,                 \* the point of the locked code it has reached
    gap,                \* bus events since its last register access
    irqSeen,            \* bsc_irq has read a nonzero MIS and not yet taken the lock
  \* history
    drained,            \* write of the newest byte the driver has taken from the FIFO
    sealed,             \* newest write of a finished burst, recorded or discarded
    workerWrite,        \* newest write of the record the worker last read
    txGen,              \* generation the current reply answers
    inputAtLock,        \* a write() found unread input when it took the lock
    abandoned           \* a request arrived before the previous reply was consumed

hwVars    == <<rxBusy, rxFifo, curWrite, wireLen>>
rxVars    == <<rxWork, rxOverflowed, ring>>
txVars    == <<txLen, txLoaded, txQueued, txPipe, imscTx, txGen>>
genVars   == <<requestGeneration, workerGeneration, workerPending>>
lockVars  == <<holder, pc, gap>>
histVars  == <<drained, sealed, workerWrite, inputAtLock, abandoned>>
vars      == <<hwVars, rxVars, txVars, genVars, lockVars, histVars, ready, active, irqSeen>>

Writes   == 1..MaxWrites
Record   == [bytes : Seq(Writes), gen : Nat]
TxByte   == [gen : Nat, pos : Nat]
Holders  == {"none", "irq", "timer", "writer", "recover"}
Points   == {"idle", "drain", "snapshot", "finish", "refill",
             "publish", "reply", "check", "configure"}

BusTypes ==
    /\ curWrite \in 0..MaxWrites /\ wireLen \in 0..MaxBytes
    /\ rxFifo \in Seq(Writes) /\ Len(rxFifo) <= FifoSize

RxTypes ==
    /\ rxWork \in Seq(Writes) /\ Len(rxWork) <= MaxTransfer
    /\ ring \in Seq(Record) /\ Len(ring) <= RxSlots

TxTypes ==
    /\ txPipe \in Seq(TxByte) /\ Len(txPipe) <= FifoSize + 1
    /\ txLen \in 0..MaxTransfer /\ txLoaded \in 0..txLen /\ txGen \in Nat

FlagTypes ==
    /\ rxBusy \in BOOLEAN /\ rxOverflowed \in BOOLEAN /\ txQueued \in BOOLEAN
    /\ imscTx \in BOOLEAN /\ ready \in BOOLEAN /\ active \in BOOLEAN
    /\ workerPending \in BOOLEAN /\ irqSeen \in BOOLEAN
    /\ inputAtLock \in BOOLEAN /\ abandoned \in BOOLEAN

CountTypes ==
    /\ requestGeneration \in Nat /\ workerGeneration \in Nat
    /\ holder \in Holders /\ pc \in Points /\ gap \in 0..GapEvents
    /\ drained \in 0..MaxWrites /\ sealed \in 0..MaxWrites /\ workerWrite \in 0..MaxWrites

TypeOK == BusTypes /\ RxTypes /\ TxTypes /\ FlagTypes /\ CountTypes

Init ==
    /\ rxBusy = FALSE /\ rxFifo = <<>> /\ curWrite = 0 /\ wireLen = 0
    /\ txPipe = <<>> /\ imscTx = FALSE /\ ready = FALSE /\ active = FALSE
    /\ rxWork = <<>> /\ rxOverflowed = FALSE /\ ring = <<>>
    /\ txLen = 0 /\ txLoaded = 0 /\ txQueued = FALSE
    /\ requestGeneration = 0 /\ workerGeneration = 0 /\ workerPending = FALSE
    /\ holder = "none" /\ pc = "idle" /\ gap = 0 /\ irqSeen = FALSE
    /\ drained = 0 /\ sealed = 0 /\ workerWrite = 0
    /\ txGen = 0 /\ inputAtLock = FALSE /\ abandoned = FALSE

-----------------------------------------------------------------------------
(* The peripheral. *)

TxFifoLevel == IF txPipe = <<>> THEN 0 ELSE Len(txPipe) - 1

\* Faulty form of TxFull: the refill loop does not look at FR_TXFF.
TxNeverFull == FALSE

\* FR_TXFF: the bytes behind the serializer fill the FIFO.
TxFull == Len(txPipe) > FifoSize

\* The interrupt causes the driver unmasks.  (A break condition also raises one;
\* the timer runs the same pass at any time.)
MaskedInterrupt == \/ Len(rxFifo) >= RxThreshold
                   \/ imscTx /\ TxFifoLevel <= TxThreshold

\* Enable transitions that each push the serializer's byte out and move the next in.
AfterPurge(transitions) == SubSeq(txPipe, transitions + 1, Len(txPipe))

\* Faulty form of PurgeCount: the serializer is forgotten.
PurgeCountOfLevel == TxFifoLevel

\* TXFLEVEL + 1 transitions: the FIFO's bytes and the serializer's.
PurgeCount == TxFifoLevel + 1

\* The bus runs freely while the lock is free, and makes at most GapEvents moves
\* between two register accesses of the lock's holder.
BusMayMove == active /\ (holder = "none" \/ gap < GapEvents)

BusMoved == /\ gap' = (IF holder = "none" THEN 0 ELSE gap + 1)
            /\ UNCHANGED <<holder, pc, irqSeen, rxVars, txLen, txLoaded, txQueued, imscTx,
                           txGen, genVars, histVars, ready, active>>

\* The controller addresses the target for writing.
WireStart ==
    /\ BusMayMove /\ ~rxBusy /\ curWrite < MaxWrites
    /\ rxBusy' = TRUE /\ curWrite' = curWrite + 1 /\ wireLen' = 0
    /\ BusMoved /\ UNCHANGED <<rxFifo, txPipe>>

\* A byte of the write; the STOP may follow before the next register access.
\* Without clock stretching a full FIFO loses the byte (RSR_OE).
WireByte(stop) ==
    /\ BusMayMove /\ rxBusy /\ wireLen < MaxBytes
    /\ rxFifo' = (IF Len(rxFifo) < FifoSize THEN Append(rxFifo, curWrite) ELSE rxFifo)
    /\ wireLen' = wireLen + 1
    /\ rxBusy' = ~stop
    /\ BusMoved /\ UNCHANGED <<curWrite, txPipe>>

WireStop ==
    /\ BusMayMove /\ rxBusy
    /\ rxBusy' = FALSE
    /\ BusMoved /\ UNCHANGED <<rxFifo, curWrite, wireLen, txPipe>>

\* The controller clocks one reply byte out of the serializer.  A read of an empty pipe
\* moves nothing but a statistics counter of the driver; what it does to a controller that
\* reads too early is in TargetWorker.
WireRead ==
    /\ BusMayMove /\ ~rxBusy /\ txPipe # <<>>
    /\ txPipe' = Tail(txPipe)
    /\ BusMoved /\ UNCHANGED hwVars

-----------------------------------------------------------------------------
(* Entering the lock: the four contexts that run the service pass. *)

LockFree == holder = "none"

Take(who) == /\ LockFree /\ holder' = who /\ pc' = "drain" /\ gap' = 0
             /\ UNCHANGED <<hwVars, rxVars, txVars, genVars, ready, active,
                            drained, sealed, workerWrite, abandoned>>

Release == holder' = "none" /\ pc' = "idle" /\ gap' = 0

At(point) == pc = point /\ UNCHANGED <<irqSeen, active, curWrite, wireLen, workerWrite, inputAtLock>>

Goto(point) == pc' = point /\ gap' = 0 /\ UNCHANGED holder

\* bsc_irq reads MIS before it takes the lock, so the lock may find the device closed.
IrqRaised ==
    /\ ~irqSeen /\ MaskedInterrupt /\ active
    /\ irqSeen' = TRUE
    /\ UNCHANGED <<hwVars, rxVars, txVars, genVars, lockVars, histVars, ready, active>>

\* Faulty form of IrqEnter: active is not checked again under the lock.
IrqEnterUnchecked == irqSeen /\ irqSeen' = FALSE /\ Take("irq") /\ UNCHANGED inputAtLock

IrqEnter == irqSeen /\ active /\ irqSeen' = FALSE /\ Take("irq") /\ UNCHANGED inputAtLock

IrqIgnored ==
    /\ irqSeen /\ LockFree /\ ~active
    /\ irqSeen' = FALSE
    /\ UNCHANGED <<hwVars, rxVars, txVars, genVars, lockVars, histVars, ready, active>>

\* Faulty form of TimerEnter: the timer skips its pass when no byte is waiting.
TimerEnterOnInput ==
    active /\ rxFifo # <<>> /\ Take("timer") /\ UNCHANGED <<irqSeen, inputAtLock>>

\* bsc_timer.
TimerEnter == active /\ Take("timer") /\ UNCHANGED <<irqSeen, inputAtLock>>

UnreadInput == rxFifo # <<>> \/ rxWork # <<>> \/ rxOverflowed

\* write(): bsc_queue_response.  It fails with ENODEV when the device is inactive.
WriterEnter == active /\ Take("writer") /\ inputAtLock' = UnreadInput /\ UNCHANGED irqSeen

\* BSC_TARGET_IOC_RECOVER.
RecoverEnter == active /\ Take("recover") /\ UNCHANGED <<irqSeen, inputAtLock>>

-----------------------------------------------------------------------------
(* bsc_service_locked *)

BurstBegun == rxWork # <<>> \/ rxOverflowed

\* Faulty forms of BurstBegins: the old reply keeps loading; the old request stays queued.
BurstBeginsKeepingReply ==
    /\ requestGeneration' = requestGeneration + 1
    /\ ring' = (IF ReadyGpio THEN <<>> ELSE ring)
    /\ UNCHANGED <<txQueued, abandoned>>

BurstBeginsKeepingRing ==
    /\ requestGeneration' = requestGeneration + 1
    /\ txQueued' = FALSE
    /\ UNCHANGED <<ring, abandoned>>

\* The first byte of a burst revokes the reply being sent, even while its worker is
\* still executing, and with READY the request waiting in the ring.
BurstBegins ==
    /\ requestGeneration' = requestGeneration + 1
    /\ txQueued' = FALSE
    /\ ring' = (IF ReadyGpio THEN <<>> ELSE ring)
    /\ abandoned' = (abandoned \/ txPipe # <<>> \/ (txQueued /\ txLoaded < txLen))

\* One turn of bsc_drain_rx_locked: FR says not empty, DR yields a byte.
DrainByte ==
    /\ At("drain") /\ rxFifo # <<>>
    /\ rxFifo' = Tail(rxFifo)
    /\ drained' = Head(rxFifo)
    /\ IF BurstBegun THEN UNCHANGED <<requestGeneration, txQueued, ring, abandoned>>
                     ELSE BurstBegins
    /\ IF Len(rxWork) < MaxTransfer
       THEN rxWork' = Append(rxWork, Head(rxFifo)) /\ UNCHANGED rxOverflowed
       ELSE rxOverflowed' = TRUE /\ UNCHANGED rxWork
    /\ Goto("drain")
    /\ UNCHANGED <<rxBusy, txLen, txLoaded, txPipe, imscTx, txGen, ready,
                   workerGeneration, workerPending, sealed>>

DrainDone ==
    /\ At("drain") /\ rxFifo = <<>>
    /\ Goto("snapshot")
    /\ UNCHANGED <<rxBusy, rxFifo, rxVars, txVars, genVars, ready, drained, sealed, abandoned>>

\* Faulty form of BurstComplete: the idle flag alone.
BurstCompleteWhenIdle == ~rxBusy

\* One FR value must show the bus idle and the FIFO empty.
BurstComplete == ~rxBusy /\ rxFifo = <<>>

\* The snapshot, and the part of bsc_finish_rx_locked up to the 20 us READY pulse.
Snapshot ==
    /\ At("snapshot")
    /\ IF BurstComplete /\ BurstBegun
       THEN /\ Goto("finish")
            /\ IF ReadyGpio THEN txLen' = 0 /\ txLoaded' = 0 /\ ready' = TRUE
                            ELSE UNCHANGED <<txLen, txLoaded, ready>>
       ELSE Goto("refill") /\ UNCHANGED <<txLen, txLoaded, ready>>
    /\ UNCHANGED <<rxBusy, rxFifo, rxVars, txQueued, txPipe, imscTx, txGen, genVars,
                   drained, sealed, abandoned>>

\* Faulty form of Pushed: rx_head stays where it was, the tail runs over it.
PushedOverHead(record) ==
    IF Len(ring) = RxSlots THEN <<record>> \o Tail(ring) ELSE Append(ring, record)

\* The ring after a push: a full ring gives up its oldest record.
Pushed(record) == Append(IF Len(ring) = RxSlots THEN Tail(ring) ELSE ring, record)

\* Faulty form of PulseEnds: READY stays asserted.
PulseStays == UNCHANGED ready

PulseEnds == ready' = (IF ReadyGpio THEN FALSE ELSE ready)

\* The end of the pulse and the rest of bsc_finish_rx_locked.
Finish ==
    /\ At("finish")
    /\ PulseEnds
    /\ ring' = (IF rxOverflowed THEN ring
                ELSE Pushed([bytes |-> rxWork, gen |-> requestGeneration]))
    /\ rxWork' = <<>> /\ rxOverflowed' = FALSE
    /\ sealed' = drained
    /\ Goto("refill")
    /\ UNCHANGED <<rxBusy, rxFifo, txVars, genVars, drained, abandoned>>

BytesToLoad == txQueued /\ txLoaded < txLen

\* One turn of bsc_refill_tx_locked's loop.  A byte enters the serializer if it is empty.
LoadByte ==
    /\ (At("refill") \/ At("reply")) /\ BytesToLoad /\ ~TxFull
    /\ txPipe' = Append(txPipe, [gen |-> txGen, pos |-> txLoaded + 1])
    /\ txLoaded' = txLoaded + 1
    /\ Goto(pc)
    /\ UNCHANGED <<rxBusy, rxFifo, rxVars, txLen, txQueued, imscTx, txGen, genVars, ready,
                   drained, sealed, abandoned>>

\* Faulty form of SetInterrupts: IRQ_TX stays on when the reply is loaded.
SetInterruptsWhileQueued == imscTx' = txQueued

\* bsc_set_interrupts_locked.
SetInterrupts == imscTx' = BytesToLoad

\* The end of the service pass: the IRQ and the timer release the lock, write() and
\* the ioctl go on.
ServiceDone ==
    /\ At("refill") /\ (~BytesToLoad \/ TxFull)
    /\ SetInterrupts
    /\ CASE holder = "writer"  -> Goto("publish")
         [] holder = "recover" -> Goto("check")
         [] OTHER              -> Release
    /\ UNCHANGED <<rxBusy, rxFifo, rxVars, txLen, txLoaded, txQueued, txPipe, txGen, genVars,
                   ready, drained, sealed, abandoned>>

-----------------------------------------------------------------------------
(* bsc_publish_response_locked, after its service pass *)

\* Faulty form of Superseded: the generations are not compared.
SupersededByBus == rxWork # <<>> \/ rxBusy

\* Newer input than the request the worker read, as far as the driver's check sees it.
Superseded == \/ workerGeneration # requestGeneration
              \/ rxWork # <<>>
              \/ rxBusy

\* EOPNOTSUPP without READY, EPROTO without a request being worked on.
PublishRefused ==
    /\ At("publish") /\ (~ReadyGpio \/ ~workerPending)
    /\ Release
    /\ UNCHANGED <<rxBusy, rxFifo, rxVars, txVars, genVars, ready, drained, sealed, abandoned>>

PublishDiscarded ==
    /\ At("publish") /\ ReadyGpio /\ workerPending /\ Superseded
    /\ workerPending' = FALSE
    /\ Release
    /\ UNCHANGED <<rxBusy, rxFifo, rxVars, txVars, requestGeneration, workerGeneration, ready,
                   drained, sealed, abandoned>>

PublishAccepted(count) ==
    /\ At("publish") /\ ReadyGpio /\ workerPending /\ ~Superseded
    /\ workerPending' = FALSE
    /\ txLen' = count /\ txLoaded' = 0 /\ txQueued' = TRUE /\ txGen' = workerGeneration
    /\ Goto("reply")
    /\ UNCHANGED <<rxBusy, rxFifo, rxVars, txPipe, imscTx, requestGeneration, workerGeneration,
                   ready, drained, sealed, abandoned>>

\* The reply's first bytes are in the FIFO: only now is READY raised.
ReplyReady ==
    /\ At("reply") /\ (~BytesToLoad \/ TxFull)
    /\ SetInterrupts
    /\ ready' = TRUE
    /\ Release
    /\ UNCHANGED <<rxBusy, rxFifo, rxVars, txLen, txLoaded, txQueued, txPipe, txGen, genVars,
                   drained, sealed, abandoned>>

-----------------------------------------------------------------------------
(* bsc_recover_response_locked, after its service pass *)

\* EPROTO without READY or a pending request, EAGAIN when it is superseded.
RecoverRefused ==
    /\ At("check") /\ (~ReadyGpio \/ ~workerPending \/ Superseded)
    /\ Release
    /\ UNCHANGED <<rxBusy, rxFifo, rxVars, txVars, genVars, ready, drained, sealed, abandoned>>

RecoverGranted ==
    /\ At("check") /\ ReadyGpio /\ workerPending /\ ~Superseded
    /\ txQueued' = FALSE /\ txLen' = 0 /\ txLoaded' = 0
    /\ Goto("configure")
    /\ UNCHANGED <<rxBusy, rxFifo, rxVars, txPipe, imscTx, txGen, genVars, ready,
                   drained, sealed, abandoned>>

\* What turning the peripheral off does to the receive side: a write on the bus is
\* no longer acknowledged, and the RX FIFO may or may not survive.
ReceiverOff == rxBusy' = FALSE /\ rxFifo' \in {rxFifo, <<>>}

\* bsc_configure_locked and the release of READY.
RecoverConfigure ==
    /\ At("configure")
    /\ ReceiverOff
    /\ txPipe' = AfterPurge(PurgeCount) /\ SetInterrupts
    /\ ready' = FALSE /\ abandoned' = FALSE
    /\ Release
    /\ UNCHANGED <<rxVars, txLen, txLoaded, txQueued, txGen, genVars, drained, sealed>>

-----------------------------------------------------------------------------
(* The character device. *)

\* read(): the oldest record leaves the ring and the worker owns the newest request.
\* A copy_to_user fault after this point (EFAULT) leaves the same kernel state; EAGAIN
\* and EMSGSIZE change nothing.
ReadMessage ==
    /\ LockFree /\ active /\ ring # <<>>
    /\ ring' = Tail(ring)
    /\ workerGeneration' = requestGeneration
    /\ workerPending' = TRUE
    /\ workerWrite' = Head(ring).bytes[Len(Head(ring).bytes)]
    /\ UNCHANGED <<hwVars, rxWork, rxOverflowed, txVars, requestGeneration, lockVars, drained,
                   sealed, inputAtLock, abandoned, ready, active, irqSeen>>

\* bsc_reset_io_locked.
ResetIo ==
    /\ rxWork' = <<>> /\ rxOverflowed' = FALSE /\ ring' = <<>>
    /\ txLen' = 0 /\ txLoaded' = 0 /\ txQueued' = FALSE
    /\ requestGeneration' = 0 /\ workerGeneration' = 0 /\ workerPending' = FALSE
    /\ ready' = FALSE /\ txGen' = 0

\* open(): bsc_activate.  A byte of an earlier session may still be in the RX FIFO.
Open ==
    /\ LockFree /\ ~active
    /\ active' = TRUE
    /\ ResetIo /\ ReceiverOff
    /\ txPipe' = AfterPurge(PurgeCount) /\ imscTx' = FALSE
    /\ abandoned' = FALSE
    /\ UNCHANGED <<curWrite, wireLen, lockVars, drained, sealed, workerWrite, inputAtLock, irqSeen>>

\* The last close(): bsc_deactivate.  The TX FIFO keeps its bytes.
Close ==
    /\ LockFree /\ active
    /\ active' = FALSE
    /\ ResetIo /\ ReceiverOff
    /\ imscTx' = FALSE
    /\ UNCHANGED <<curWrite, wireLen, txPipe, lockVars, drained, sealed, workerWrite, inputAtLock,
                   abandoned, irqSeen>>

-----------------------------------------------------------------------------

Wire == \/ WireStart \/ WireStop \/ WireRead
        \/ \E stop \in BOOLEAN : WireByte(stop)

Enter == IrqRaised \/ IrqEnter \/ IrqIgnored \/ TimerEnter \/ WriterEnter \/ RecoverEnter

Service == DrainByte \/ DrainDone \/ Snapshot \/ Finish \/ LoadByte \/ ServiceDone

Publish == \/ PublishRefused \/ PublishDiscarded \/ ReplyReady
           \/ \E count \in 1..MaxTransfer : PublishAccepted(count)

Recover == RecoverRefused \/ RecoverGranted \/ RecoverConfigure

Next == Wire \/ Enter \/ Service \/ Publish \/ Recover \/ ReadMessage \/ Open \/ Close

Spec == Init /\ [][Next]_vars

\* Locked code always runs to its end, and the hrtimer of an open device keeps firing:
\* it gets the (queued) spinlock again and again however busy the other contexts are.
Fairness == WF_vars(Service \/ Publish \/ Recover) /\ SF_vars(TimerEnter)

LiveSpec == Spec /\ Fairness

-----------------------------------------------------------------------------
(* Correctness properties. *)

\* With READY the ring never holds more than the newest request: a record waits only
\* while no newer byte has been drained (the drop on the first byte of a burst).
OneRequest ==
    ReadyGpio => /\ Len(ring) <= 1
                 /\ ring # <<>> => ~BurstBegun /\ ring[1].gen = requestGeneration

\* Writes are never split over two bursts: every byte still to be recorded, and the write
\* on the bus, is newer than all of the bursts already finished (the one-snapshot rule).
NoSplit ==
    /\ \A i \in 1..Len(rxFifo) : rxFifo[i] > sealed
    /\ \A i \in 1..Len(rxWork) : rxWork[i] > sealed
    /\ rxBusy => curWrite > sealed

\* Whenever the lock is free, asserted READY means an answered request: a reply is
\* published, no request waits to be read and no worker owes an answer.
ReadyMeansAnswered ==
    LockFree /\ ready => ring = <<>> /\ ~workerPending /\ txLen > 0

\* Bytes of a reply are only ever loaded for the newest generation the driver has seen.
RepliesToNewest == BytesToLoad => txGen = requestGeneration

\* Unless a request arrived on top of an unconsumed reply, the serializer and FIFO hold
\* exactly the loaded and not yet clocked bytes of the current reply, in order.
TxExact ==
    active /\ ~abandoned /\ pc # "configure" =>
        /\ Len(txPipe) <= txLoaded
        /\ \A i \in 1..Len(txPipe) :
              txPipe[i] = [gen |-> txGen, pos |-> txLoaded - Len(txPipe) + i]

\* Out of the lock the TX interrupt is enabled exactly while a reply has bytes to load.
TxInterruptArmed == LockFree /\ active => (imscTx <=> BytesToLoad)

\* A closed device keeps no request, reply or READY, whichever handlers were late.
ClosedIsInert ==
    ~active => /\ ring = <<>> /\ ~BurstBegun /\ ~BytesToLoad
               /\ ~workerPending /\ ~imscTx /\ ~ready

\* A reply is accepted only from the worker of the newest burst, and never when the
\* write() that brings it found unread input as it took the lock.
Accepts == \E count \in 1..MaxTransfer : PublishAccepted(count)
PublishOwned == [][Accepts => workerWrite = sealed /\ ~inputAtLock]_vars

\* The worker is handed newer and newer bursts: a record holds only writes that began after
\* every write of the record before it, whatever was dropped between them.
ReadsAdvance ==
    [][ReadMessage => \A i \in 1..Len(Head(ring).bytes) : Head(ring).bytes[i] > workerWrite]_vars

\* A finished burst is recorded or discarded although no interrupt reports its tail:
\* the timer sees it.
BurstsEnd == (active /\ BurstBegun /\ BurstComplete) ~> (~BurstBegun \/ rxBusy \/ rxFifo # <<>>)

\* A reply with bytes left is topped up whenever the FIFO has room for them.
RepliesFed == (active /\ BytesToLoad /\ ~TxFull) ~> (~BytesToLoad \/ TxFull)

\* Documented: "the driver ... acknowledges acceptance with a 20 microsecond READY
\* assertion" (docs/response-transport.md); a burst it discards is not acknowledged.
OnlyAcceptedAcknowledged == [][ready' /\ ~ready /\ pc = "snapshot" => ~rxOverflowed]_vars

\* Documented in bsc_publish_response_locked: "A superseded result is consumed, never
\* published": no reply is accepted while a newer request lies unread in the FIFO.
NotOverUnreadInput == [][Accepts => rxFifo = <<>>]_vars
=============================================================================
