----------------------------- MODULE TargetWorker -----------------------------
(***************************************************************************)
(* The program target-driver (src/bin/target-driver.rs): it serves the     *)
(* device until a signal, an error or the removal of the device, and then  *)
(* closes and unloads it.  Under it the kernel driver, as far as it        *)
(* decides what a write() publishes: received bytes are counted, not kept. *)
(* On the bus the program controller-long (src/bin/controller-long.rs) and *)
(* other controllers.  A service pass is one step here; BscTarget takes it *)
(* apart.                                                                  *)
(*                                                                         *)
(* Data.  A request is its number and its length, a byte of a reply the    *)
(* number of the request it answers.  Time is the sleeps of                *)
(* queue_response, Deadline of which last five seconds; the 20 ms of       *)
(* controller-long are any interval, as nothing ties them to the worker.   *)
(***************************************************************************)
EXTENDS Integers, Sequences

CONSTANTS
    MaxTransfer,  \* MAX_TRANSFER of the driver and of both programs
    Prefix,       \* bytes of "ACK: "
    FifoSize,     \* bytes in the RX FIFO and in the TX FIFO
    RxSlots,      \* records the driver keeps
    Deadline,     \* sleeps between two attempts that fit in five seconds
    MaxRequests   \* bound: requests in a behaviour

ASSUME WorkerAssumption ==
    /\ MaxTransfer \in Nat /\ Prefix \in Nat \ {0} /\ Prefix < MaxTransfer
    /\ FifoSize \in Nat \ {0} /\ RxSlots \in Nat \ {0}
    /\ Deadline \in Nat /\ MaxRequests \in Nat

VARIABLES
  \* options
    receiveOnly,  \* --receive-only
    ready,        \* --ready-gpio
  \* the bus and its controllers
    newest,       \* number of the newest request begun
    length,       \* its length
    toCome,       \* bytes of it not yet sent
    rxBusy,       \* FR_RXBUSY: it is on the bus
    long,         \* its sender is controller-long
    want,         \* bytes that controller-long has still to read, -1 before it reads
    got,          \* bytes of its own reply among those it has read
  \* the device
    dead,         \* removed
    fifo,         \* bytes in the RX FIFO
    work,         \* bytes of the burst drained so far, MaxTransfer + 1 when it overflowed
    ring,         \* finished records not yet read, oldest first
    generation,   \* request_generation
    owner,        \* worker_generation
    tx,           \* bytes in the serializer and the TX FIFO
    left,         \* bytes of the reply not yet loaded
    replyTo,      \* request that the reply published last answers
  \* the worker
    running,      \* RUNNING
    pc,
    request,      \* the record it answers
    waited,       \* sleeps of queue_response
    result,       \* what main returns
  \* history
    mishaps       \* what befell the newest request

options == <<receiveOnly, ready>>
bus     == <<newest, length, toCome, rxBusy, long, want, got>>
driver  == <<fifo, work, ring, generation, owner, tx, left, replyTo>>
worker  == <<running, pc, request, waited, result>>
vars    == <<options, bus, dead, driver, worker, mishaps>>

Requests == 1..MaxRequests
Lengths  == 1..MaxTransfer + 1  \* one too many for the driver
Records  == [to : Requests, len : 1..MaxTransfer]
NoRecord == [to |-> 0, len |-> 0]

\* What controllers and the driver's timing can do to a request; see the actions.
Mishaps == {"unread", "overrun", "overtaken", "early", "starved", "stolen"}

TypeOK ==
    /\ receiveOnly \in BOOLEAN /\ ready \in BOOLEAN /\ (receiveOnly \/ ready)
    /\ newest \in 0..MaxRequests /\ length \in 0..MaxTransfer + 1
    /\ toCome \in 0..MaxTransfer + 1 /\ rxBusy \in BOOLEAN
    /\ long \in BOOLEAN /\ want \in -1..MaxTransfer /\ got \in 0..MaxTransfer
    /\ dead \in BOOLEAN /\ fifo \in 0..FifoSize /\ work \in 0..MaxTransfer + 1
    /\ ring \in Seq(Records) /\ Len(ring) <= RxSlots
    /\ generation \in Nat /\ owner \in Nat
    /\ tx \in Seq(Requests) /\ Len(tx) <= FifoSize + 1
    /\ left \in 0..MaxTransfer /\ replyTo \in 0..MaxRequests
    /\ running \in BOOLEAN
    /\ pc \in {"open", "loop", "read", "write", "publish", "close", "unload", "ended"}
    /\ request \in Records \union {NoRecord} /\ waited \in 0..Deadline
    /\ result \in {"none", "ok", "error"}
    /\ mishaps \subseteq Mishaps

\* main refuses to answer without a READY line; the guard has loaded the driver.
Init ==
    /\ receiveOnly \in BOOLEAN /\ ready \in BOOLEAN /\ (receiveOnly \/ ready)
    /\ newest = 0 /\ length = 0 /\ toCome = 0 /\ rxBusy = FALSE
    /\ long = FALSE /\ want = -1 /\ got = 0
    /\ dead = FALSE /\ fifo = 0 /\ work = 0 /\ ring = <<>>
    /\ generation = 0 /\ owner = 0 /\ tx = <<>> /\ left = 0 /\ replyTo = 0
    /\ running = TRUE /\ pc = "open" /\ request = NoRecord /\ waited = 0 /\ result = "none"
    /\ mishaps = {}

-----------------------------------------------------------------------------
(* The bus. *)

\* The session: the device answers on the bus while the worker has it open.
Listening == ~dead /\ pc \notin {"open", "unload", "ended"}

LongAccepts(n) == n \in 1..(MaxTransfer - Prefix)

\* Another request, or controller-long's write_all of a message it accepts.  It is
\* "unread" when the exchange before it has left something in the device.
Send ==
    /\ Listening /\ ~rxBusy /\ want <= 0 /\ newest < MaxRequests
    /\ \E n \in Lengths :
        /\ length' = n /\ toCome' = n
        /\ long' \in (IF LongAccepts(n) THEN BOOLEAN ELSE {FALSE})
    /\ newest' = newest + 1 /\ rxBusy' = TRUE /\ want' = -1 /\ got' = 0
    /\ mishaps' = (IF fifo > 0 \/ work > 0 \/ tx # <<>> \/ left > 0 THEN {"unread"} ELSE {})
    /\ UNCHANGED <<options, dead, driver, worker>>

\* A byte of it, and the STOP after the last one, at once or later.  A full FIFO loses it.
SendByte ==
    /\ Listening /\ rxBusy /\ toCome > 0
    /\ toCome' = toCome - 1
    /\ rxBusy' \in BOOLEAN /\ (toCome > 1 => rxBusy')
    /\ IF fifo < FifoSize THEN fifo' = fifo + 1 /\ UNCHANGED mishaps
                          ELSE mishaps' = mishaps \union {"overrun"} /\ UNCHANGED fifo
    /\ UNCHANGED <<options, newest, length, long, want, got, dead, work, ring, generation, owner,
                   tx, left, replyTo, worker>>

SendStop ==
    /\ Listening /\ rxBusy /\ toCome = 0 /\ rxBusy' = FALSE
    /\ UNCHANGED <<options, newest, length, toCome, long, want, got, dead, driver, worker, mishaps>>

\* controller-long's read_exact of message.len() + 5 bytes: 20 ms after its write, whether
\* or not there is a reply.
LongRead ==
    /\ Listening /\ ~rxBusy /\ long /\ want = -1
    /\ want' = length + Prefix
    /\ UNCHANGED <<options, newest, length, toCome, rxBusy, long, got, dead, driver, worker, mishaps>>

\* One byte of that read.  An empty TX FIFO gives a byte that is nobody's: the reply is not
\* yet published ("early"), its next byte not yet loaded ("starved"), or it is over.
LongReadByte ==
    /\ Listening /\ want > 0
    /\ want' = want - 1
    /\ IF tx # <<>>
       THEN /\ got' = (IF Head(tx) = newest THEN got + 1 ELSE got)
            /\ tx' = Tail(tx) /\ UNCHANGED mishaps
       ELSE /\ mishaps' = mishaps \union (IF replyTo # newest THEN {"early"}
                                          ELSE IF left > 0 THEN {"starved"} ELSE {})
            /\ UNCHANGED <<got, tx>>
    /\ UNCHANGED <<options, newest, length, toCome, rxBusy, long, dead, fifo, work, ring,
                   generation, owner, left, replyTo, worker>>

\* Any controller reads a byte of a reply; controller-long's is "stolen" when it has yet to read.
OtherRead ==
    /\ Listening /\ ~rxBusy /\ want <= 0 /\ tx # <<>>
    /\ tx' = Tail(tx)
    /\ mishaps' = (IF want = -1 THEN mishaps \union {"stolen"} ELSE mishaps)
    /\ UNCHANGED <<options, bus, dead, fifo, work, ring, generation, owner, left, replyTo, worker>>

-----------------------------------------------------------------------------
(* The driver. *)

\* bsc_refill_tx_locked of n bytes of a reply: what TXFF lets in, and what stays.
Room == FifoSize + 1 - Len(tx)
Refill(to, n) ==
    LET loaded == IF n <= Room THEN n ELSE Room
    IN  tx' = tx \o [i \in 1..loaded |-> to] /\ left' = n - loaded

\* A full ring loses its oldest record.
Stored(records, record) ==
    IF Len(records) = RxSlots THEN Append(Tail(records), record) ELSE Append(records, record)

\* A service pass.  It empties the FIFO; the first byte of a burst withdraws the reply and,
\* with READY, the record of the request before; an idle bus ends the burst, which is
\* recorded unless it overflowed; then the TX FIFO is filled up.
Serviced ==
    LET begins == fifo > 0 /\ work = 0
        bytes  == IF work + fifo <= MaxTransfer THEN work + fifo ELSE MaxTransfer + 1
        ends   == ~rxBusy /\ bytes > 0
        kept   == IF begins /\ ready THEN <<>> ELSE ring
    IN  /\ fifo' = 0
        /\ work' = (IF ends THEN 0 ELSE bytes)
        /\ generation' = (IF begins THEN generation + 1 ELSE generation)
        /\ ring' = (IF ends /\ bytes <= MaxTransfer
                    THEN Stored(kept, [to |-> newest, len |-> bytes]) ELSE kept)
        /\ Refill(replyTo, IF begins THEN 0 ELSE left)
        /\ UNCHANGED <<owner, replyTo>>

\* The interrupt or the timer.  The worker's write() holds the lock at "publish".
ServicePass ==
    /\ Listening /\ pc # "publish" /\ Serviced
    /\ UNCHANGED <<options, bus, dead, worker, mishaps>>

\* The overlay or the module goes away under the worker: calls fail with ENODEV.
Remove ==
    /\ ~dead /\ pc # "publish" /\ dead' = TRUE
    /\ UNCHANGED <<options, bus, driver, worker, mishaps>>

-----------------------------------------------------------------------------
(* serve *)

At(from, to) == pc = from /\ pc' = to /\ UNCHANGED <<options, dead>>

\* The device may be gone, or open in another process.
Open ==
    \/ /\ ~dead /\ At("open", "loop")
       /\ UNCHANGED <<bus, driver, running, request, waited, result, mishaps>>
    \/ /\ At("open", "unload") /\ result' = "error"
       /\ UNCHANGED <<bus, driver, running, request, waited, mishaps>>

Loop ==
    /\ At("loop", IF running THEN "read" ELSE "close")
    /\ UNCHANGED <<bus, driver, running, request, waited, result, mishaps>>

\* read: EAGAIN, and a sleep.  (After EINTR, read and write are made again.)
ReadNothing ==
    /\ ~dead /\ ring = <<>> /\ At("read", "loop")
    /\ UNCHANGED <<bus, driver, running, request, waited, result, mishaps>>

ReadRecord ==
    /\ ~dead /\ ring # <<>> /\ At("read", IF receiveOnly THEN "loop" ELSE "write")
    /\ ring' = Tail(ring) /\ owner' = generation
    /\ request' = Head(ring) /\ waited' = 0
    /\ UNCHANGED <<bus, fifo, work, generation, tx, left, replyTo, running, result, mishaps>>

Echoed(n) == IF n < MaxTransfer - Prefix THEN n ELSE MaxTransfer - Prefix

\* write takes the lock and makes a service pass.
Write ==
    /\ ~dead /\ At("write", "publish") /\ Serviced
    /\ UNCHANGED <<bus, running, request, waited, result, mishaps>>

\* Faulty form of StillOwned: the generation is not compared.
StillOwnedWhenIdle == work = 0 /\ ~rxBusy

\* The driver's test for a result that is still wanted.  It does not look at the RX FIFO.
StillOwned == owner = generation /\ work = 0 /\ ~rxBusy

\* The bus may have moved since.  The reply is published and the lock released; a newest
\* request that lies complete in the FIFO is "overtaken" by it.
Publish ==
    /\ StillOwned /\ At("publish", "loop")
    /\ replyTo' = request.to /\ Refill(request.to, Prefix + Echoed(request.len))
    /\ mishaps' = (IF fifo > 0 THEN mishaps \union {"overtaken"} ELSE mishaps)
    /\ UNCHANGED <<bus, fifo, work, ring, generation, owner, running, request, waited, result>>

\* A superseded result is consumed.
Supersede ==
    /\ ~StillOwned /\ At("publish", "loop")
    /\ UNCHANGED <<bus, driver, running, request, waited, result, mishaps>>

\* Faulty form of WriteBusy: no deadline.
WriteBusyForever ==
    /\ ~dead /\ At("write", "write")
    /\ waited' = (IF waited < Deadline THEN waited + 1 ELSE 0)
    /\ UNCHANGED <<bus, driver, running, request, result, mishaps>>

\* write gives EAGAIN: another attempt after a sleep.  (The driver of this repository
\* never refuses a write so; the program allows for one that does.)
WriteBusy ==
    /\ ~dead /\ waited < Deadline /\ At("write", "write")
    /\ waited' = waited + 1
    /\ UNCHANGED <<bus, driver, running, request, result, mishaps>>

\* write gives EAGAIN after the deadline: TimedOut, and the request stays unanswered.
GiveUp ==
    /\ ~dead /\ waited = Deadline /\ At("write", "close")
    /\ result' = "error"
    /\ UNCHANGED <<bus, driver, running, request, waited, mishaps>>

\* read or write gives ENODEV.
DeviceGone ==
    /\ dead /\ pc \in {"read", "write"} /\ At(pc, "close")
    /\ result' = "error"
    /\ UNCHANGED <<bus, driver, running, request, waited, mishaps>>

\* serve returns: the file is closed, and the device is deaf until the next open.
Close ==
    /\ At("close", "unload")
    /\ rxBusy' = FALSE /\ toCome' = 0 /\ work' = 0 /\ ring' = <<>> /\ left' = 0
    /\ UNCHANGED <<newest, length, long, want, got, fifo, generation, owner, tx, replyTo,
                   running, request, waited, result, mishaps>>

\* guard.unload, which may fail; main returns the first error.
Unload ==
    /\ At("unload", "ended")
    /\ result' \in (IF result = "error" THEN {"error"} ELSE {"ok", "error"})
    /\ UNCHANGED <<bus, driver, running, request, waited, mishaps>>

\* SIGINT or SIGTERM: only the flag is stored.
Signal ==
    /\ running /\ running' = FALSE
    /\ UNCHANGED <<options, bus, dead, driver, pc, request, waited, result, mishaps>>

WorkerStep == \/ Open \/ Loop \/ ReadNothing \/ ReadRecord \/ Write \/ Publish \/ Supersede
              \/ WriteBusy \/ GiveUp \/ DeviceGone \/ Close \/ Unload

BusStep == Send \/ SendByte \/ SendStop \/ LongRead \/ LongReadByte \/ OtherRead

Next == WorkerStep \/ BusStep \/ ServicePass \/ Signal \/ Remove

\* The worker's thread keeps running; nothing is assumed of controllers, interrupts or signals.
Spec == Init /\ [][Next]_vars /\ WF_vars(WorkerStep)

-----------------------------------------------------------------------------
(* Properties *)

\* The reply that controller-long's whole read_exact should have met.
EchoRead == got = length + Prefix /\ tx = <<>> /\ left = 0

\* Whatever other requests the worker reads, answers or has superseded meanwhile: when
\* nothing in Mishaps befell its request, controller-long reads the echo of its own message,
\* to the last byte.  (README.md:339-341; the 20 ms do not exclude "early", as
\* controller-long.rs:73 would have it.)
LongReadsEcho == want = 0 /\ mishaps = {} => EchoRead

\* A signal or the removal of the device ends the program and unloads the driver, also
\* when it comes while write is refused: the wait has a deadline.
StopEnds == (~running \/ dead) ~> pc = "ended"

=============================================================================
