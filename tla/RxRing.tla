------------------------------- MODULE RxRing -------------------------------
(***************************************************************************)
(* The receive ring of the kernel driver at the level of its indices, and  *)
(* the read() that empties it: the lockless checks of rx_count, the wait   *)
(* queue, the second check under the lock, and the wake-ups by a finished  *)
(* record and by device removal.  A record is its number.                  *)
(***************************************************************************)
EXTENDS Naturals

CONSTANTS
    ReadyGpio,   \* whether the target has a READY line
    RxSlots,     \* BSC_RX_SLOTS
    MaxRecords,  \* bound: bursts finished in a behaviour
    MaxCalls     \* bound: read() calls that fail

ASSUME ReadyGpioAssumption == ReadyGpio \in BOOLEAN
ASSUME RxSlotsAssumption   == RxSlots \in Nat \ {0}
ASSUME BoundsAssumption    == MaxRecords \in Nat /\ MaxCalls \in Nat

VARIABLES
    rxSlots, rxHead, rxTail, rxCount,
    burst,            \* rx_work_len or rx_overflowed is set
    rxTransactions,   \* stats.rx_transactions
    rxDropped,        \* stats.rx_dropped
    open,             \* a process has the character device open
    dead,             \* bsc_remove has begun
    wakeDue,          \* bsc_remove has set dead and not yet called wake_up
    reader,           \* where the worker's read() is
    \* history
    lastRecord,       \* number of the newest record pushed
    got,              \* the record read() dequeued last
    delivered, lost,  \* records returned to the worker; lost to EFAULT or a reset
    failed            \* read() calls that returned an error

ringVars   == <<rxSlots, rxHead, rxTail, rxCount>>
stats      == <<rxTransactions, rxDropped>>
deviceVars == <<open, dead, wakeDue>>
histVars   == <<lastRecord, got, delivered, lost, failed>>
vars       == <<ringVars, burst, stats, deviceVars, reader, histVars>>

TypeOK ==
    /\ rxSlots \in [0..RxSlots - 1 -> 0..MaxRecords]
    /\ rxHead \in 0..RxSlots - 1 /\ rxTail \in 0..RxSlots - 1 /\ rxCount \in 0..RxSlots
    /\ burst \in BOOLEAN
    /\ rxTransactions \in 0..MaxRecords /\ rxDropped \in 0..MaxRecords
    /\ open \in BOOLEAN /\ dead \in BOOLEAN /\ wakeDue \in BOOLEAN
    /\ reader \in {"idle", "check", "asleep", "lock"}
    /\ lastRecord \in 0..MaxRecords /\ got \in 0..MaxRecords
    /\ delivered \in 0..MaxRecords /\ lost \in 0..MaxRecords /\ failed \in 0..MaxCalls

Init ==
    /\ rxSlots = [i \in 0..RxSlots - 1 |-> 0]
    /\ rxHead = 0 /\ rxTail = 0 /\ rxCount = 0
    /\ burst = FALSE
    /\ rxTransactions = 0 /\ rxDropped = 0
    /\ open = FALSE /\ dead = FALSE /\ wakeDue = FALSE
    /\ reader = "idle"
    /\ lastRecord = 0 /\ got = 0 /\ delivered = 0 /\ lost = 0 /\ failed = 0

-----------------------------------------------------------------------------
(* The receive side, run by whichever context holds the spinlock. *)

After(index) == (index + 1) % RxSlots

\* Faulty forms of Supersede: the indices keep their values; the old request stays.
SupersedeCountOnly == rxDropped' = rxDropped + rxCount /\ rxCount' = 0 /\ UNCHANGED <<rxHead, rxTail>>
SupersedeNothing   == UNCHANGED <<rxDropped, rxHead, rxTail, rxCount>>

\* The request in the ring gives way to the one that begins.
Supersede == rxDropped' = rxDropped + rxCount /\ rxHead' = 0 /\ rxTail' = 0 /\ rxCount' = 0

Active == open /\ ~dead

\* The first byte of a burst.
FirstByte ==
    /\ Active /\ ~burst /\ lastRecord < MaxRecords
    /\ burst' = TRUE
    /\ IF ReadyGpio /\ rxCount > 0 THEN Supersede
                                  ELSE UNCHANGED <<rxDropped, rxHead, rxTail, rxCount>>
    /\ UNCHANGED <<rxSlots, rxTransactions, deviceVars, reader, histVars>>

\* Faulty form of Wake: a record is pushed without waking the worker.
NoWake == UNCHANGED reader

\* wake_up_interruptible: a sleeping read() evaluates its condition again.
Wake == reader' = (IF reader = "asleep" THEN "check" ELSE reader)

\* Faulty forms of MakeRoom: a full ring is overwritten in place; the loss is not counted.
MakeRoomInPlace ==
    IF rxCount = RxSlots
    THEN rxDropped' = rxDropped + 1 /\ UNCHANGED <<rxHead, rxCount>>
    ELSE rxCount' = rxCount + 1 /\ UNCHANGED <<rxHead, rxDropped>>

MakeRoomUncounted ==
    IF rxCount = RxSlots
    THEN rxHead' = After(rxHead) /\ UNCHANGED <<rxCount, rxDropped>>
    ELSE rxCount' = rxCount + 1 /\ UNCHANGED <<rxHead, rxDropped>>

\* A full ring gives up its oldest record for the new one.
MakeRoom ==
    IF rxCount = RxSlots
    THEN rxHead' = After(rxHead) /\ rxDropped' = rxDropped + 1 /\ UNCHANGED rxCount
    ELSE rxCount' = rxCount + 1 /\ UNCHANGED <<rxHead, rxDropped>>

\* bsc_finish_rx_locked for a burst that fitted.
FinishRecord ==
    /\ Active /\ burst /\ lastRecord < MaxRecords
    /\ lastRecord' = lastRecord + 1
    /\ MakeRoom
    /\ rxSlots' = [rxSlots EXCEPT ![rxTail] = lastRecord + 1]
    /\ rxTail' = After(rxTail)
    /\ rxTransactions' = rxTransactions + 1
    /\ burst' = FALSE
    /\ Wake
    /\ UNCHANGED <<deviceVars, got, delivered, lost, failed>>

\* bsc_finish_rx_locked for a burst that overflowed: no record and no wake-up.
FinishOverflowed ==
    /\ Active /\ burst
    /\ burst' = FALSE
    /\ UNCHANGED <<ringVars, stats, deviceVars, reader, histVars>>

-----------------------------------------------------------------------------
(* bsc_read_message *)

ReadCall ==
    /\ open /\ reader = "idle" /\ failed < MaxCalls
    /\ reader' = "check"
    /\ UNCHANGED <<ringVars, burst, stats, deviceVars, histVars>>

ReadFails == reader' = "idle" /\ failed' = failed + 1
             /\ UNCHANGED <<ringVars, burst, stats, deviceVars, lastRecord, got, delivered, lost>>

\* ENODEV.
ReadFindsDead == reader = "check" /\ dead /\ ReadFails

ReadSeesRecord ==
    /\ reader = "check" /\ ~dead /\ rxCount > 0
    /\ reader' = "lock"
    /\ UNCHANGED <<ringVars, burst, stats, deviceVars, histVars>>

\* EAGAIN with O_NONBLOCK.
ReadWouldBlock == reader = "check" /\ ~dead /\ rxCount = 0 /\ ReadFails

\* wait_event_interruptible: on the wait queue before the condition is tested.
ReadSleeps ==
    /\ reader = "check" /\ ~dead /\ rxCount = 0
    /\ reader' = "asleep"
    /\ UNCHANGED <<ringVars, burst, stats, deviceVars, histVars>>

\* ERESTARTSYS.
ReadInterrupted == reader = "asleep" /\ ReadFails

\* Faulty form of StillThere: rx_count is not checked again under the lock.
AssumedThere == TRUE

StillThere == rxCount > 0

\* Under the lock the ring may be empty again: the whole wait is repeated.
ReadRetries ==
    /\ reader = "lock" /\ ~StillThere
    /\ reader' = "check"
    /\ UNCHANGED <<ringVars, burst, stats, deviceVars, histVars>>

\* EMSGSIZE: the record stays.
ReadTooSmall == reader = "lock" /\ StillThere /\ ReadFails

\* The dequeue, and copy_to_user, which may fault after it (EFAULT).
ReadTake(fault) ==
    /\ reader = "lock" /\ StillThere
    /\ got' = rxSlots[rxHead]
    /\ rxHead' = After(rxHead)
    /\ rxCount' = rxCount - 1
    /\ delivered' = (IF fault THEN delivered ELSE delivered + 1)
    /\ lost' = (IF fault THEN lost + 1 ELSE lost)
    /\ reader' = "idle"
    /\ failed' = (IF fault THEN failed + 1 ELSE failed)
    /\ UNCHANGED <<rxSlots, rxTail, burst, stats, deviceVars, lastRecord>>

-----------------------------------------------------------------------------
(* Opening, closing and removing the device. *)

\* bsc_reset_io_locked: nothing is counted as dropped.
ResetIo ==
    /\ rxHead' = 0 /\ rxTail' = 0 /\ rxCount' = 0 /\ burst' = FALSE
    /\ lost' = lost + rxCount
    /\ UNCHANGED <<rxSlots, stats, lastRecord, got, delivered, failed>>

Open ==
    /\ ~open /\ ~dead
    /\ open' = TRUE
    /\ ResetIo
    /\ UNCHANGED <<dead, wakeDue, reader>>

\* The last close(), which cannot overtake a read() of the same file; on a removed device
\* it finds everything reset.
Close ==
    /\ open /\ reader = "idle"
    /\ open' = FALSE
    /\ IF dead THEN UNCHANGED <<ringVars, burst, stats, histVars>> ELSE ResetIo
    /\ UNCHANGED <<dead, wakeDue, reader>>

\* bsc_remove, whatever the worker is doing: dead, then the reset, then the wake-up.
Remove ==
    /\ ~dead
    /\ dead' = TRUE /\ wakeDue' = TRUE
    /\ IF open THEN ResetIo ELSE UNCHANGED <<ringVars, burst, stats, histVars>>
    /\ UNCHANGED <<open, reader>>

\* Faulty form of RemoveWakes: the worker is left asleep.
RemoveForgets ==
    /\ wakeDue
    /\ wakeDue' = FALSE
    /\ UNCHANGED <<ringVars, burst, stats, open, dead, reader, histVars>>

RemoveWakes ==
    /\ wakeDue
    /\ wakeDue' = FALSE
    /\ Wake
    /\ UNCHANGED <<ringVars, burst, stats, open, dead, histVars>>

-----------------------------------------------------------------------------

Receive == FirstByte \/ FinishRecord \/ FinishOverflowed

\* The steps of a read() that do not wait for anything.
ReadRuns == \/ ReadFindsDead \/ ReadSeesRecord \/ ReadWouldBlock \/ ReadSleeps
            \/ ReadRetries \/ ReadTooSmall
            \/ \E fault \in BOOLEAN : ReadTake(fault)

Next == Receive \/ ReadCall \/ ReadRuns \/ ReadInterrupted \/ Open \/ Close \/ Remove \/ RemoveWakes

Spec == Init /\ [][Next]_vars

\* The worker's thread and bsc_remove are scheduled.
LiveSpec == Spec /\ WF_vars(ReadRuns) /\ WF_vars(RemoveWakes)

-----------------------------------------------------------------------------
(* Correctness properties. *)

\* Head, tail and count describe one ring across wrap-around, the drop of the oldest
\* record and the resets.
RingShape == rxTail = (rxHead + rxCount) % RxSlots

\* A read() never sleeps beside a record, nor on a removed device whose wake-up is past.
NoLostWakeup == reader = "asleep" => rxCount = 0 /\ (dead => wakeDue)

\* The driver's own counters account for every record: it is in the ring, was counted as
\* dropped, was returned to the worker, or went with a close or a copy fault.
RecordsAccounted == rxTransactions = rxDropped + rxCount + delivered + lost

\* The indexed ring is the numbered queue of NewestWinsQueue; READY makes its capacity one.
Queue == INSTANCE NewestWinsQueue WITH
            Capacity <- IF ReadyGpio THEN 1 ELSE RxSlots,
            oldest   <- lastRecord + 1 - rxCount,
            newest   <- lastRecord,
            handed   <- got
NewestWins == Queue!Spec

\* Removing the device releases a worker that is blocked in read().
RemoveReleasesReader == dead ~> reader = "idle"
=============================================================================
