# Specification of the Raspberry Pi I2C target

TLA+ models of this repository's I2C target, with the TLC configurations that
check them and machine-checked proofs of the main results. The kernel driver
(`kernel/bcm27xx_bsc_target.c`) is where the concurrency is, so it comes first;
the userspace programs of `src/` follow.

## The system

| Component | State | Operations | Correct when |
| --- | --- | --- | --- |
| Kernel driver, I/O path (`kernel/bcm27xx_bsc_target.c`) | `rx_work`, `rx_overflowed`, the ring, `tx_data` and its counters, the request and worker generations, READY, IMSC | service pass, run under one spinlock by the hard IRQ, the hrtimer, `write()` and `RECOVER`; `read()`; open, close | writes stay whole; only the newest request is answered; READY tells the truth; TX FIFO contents match the reply |
| Kernel driver, ring and `read()` | `rx_slots`, `rx_head`, `rx_tail`, `rx_count`, `rx_wait`, `dead` | push, drop oldest, drop on newer request, blocking read, reset, remove | newest records kept, none delivered twice, none unaccounted for, no lost wake-up |
| Kernel driver, lifecycle | `opened`, `active`, `dead`, `state_lock`, hrtimer | probe, open, release, remove | a closed or removed device is left alone by late handlers |
| BSC peripheral and bus (hardware) | RX FIFO, RXBUSY, TX serializer and FIFO, MIS | START, byte, STOP, read byte | external: the driver must be right for any order |
| Driver manager (`src/kernel_target.rs`) | overlay and module loaded, `DriverGuard` | load, unload, drop, `--unload` | every failure or kill leaves something `unload` can undo |
| Worker (`src/bin/target-driver.rs`) | the request being answered | read, compute, write with a 5 s deadline | each request is answered or superseded |
| Virtual display (`src/bin/virtual-display.rs`, `src/display_protocol.rs`) | parser buffer, framebuffer, render deadline, buttons | push, poll_idle, poll_input, serve | frames do not depend on fragmentation; rendering is never starved |
| Direct target (`src/bin/target.rs`) | registers by `/dev/mem` | configure, drain, queue_response, shutdown | commands are taken whole |
| Controllers (`src/bin/controller.rs`, `controller-long.rs`) | the exchange in progress | write, wait, read | the reply read is the reply to the request |

The components meet at four places: the controller and the driver on the bus
(bytes, and the READY line); the driver and the worker in the character device
(`read`, `write`, `ioctl`, `poll`); the IRQ, the timer and the system calls at the
spinlock; the launcher and the kernel through `dtoverlay`, `insmod`, `rmmod`.

The hard behaviours are: the bus moves between any two register accesses, also while
the lock is held; a new request can arrive at any point of the computation, the
publication or the transmission of an answer; four contexts run the same service
pass; the last bytes of a write raise no interrupt; reader and ring meet without a
lock; the transmit FIFO survives a close; device removal meets a blocked reader; a command
of the launcher fails half-way, and another launcher is there at the same time; a
display stream is cut anywhere; traffic that never pauses must not starve rendering
and input; the direct target reads FIFO and RXBUSY in two accesses.
`PROJECT.json` lists these hazards by line.

## Modules

**`BscTarget`** is the I/O path and the peripheral. `holder` and `pc` are the
spinlock and the position of the code that holds it; each register access of the
service pass is an action (`DrainByte`, `DrainDone`, `Snapshot`, `LoadByte`,
`ServiceDone`), and code between accesses is part of the action of the access before
it. `Snapshot` is the one FR read that decides whether a burst is over together with
the part of `bsc_finish_rx_locked` before the 20 microsecond pulse; `Finish` is the
rest. `Wire...` are bus events; they are possible whenever the lock is free and at
most `GapEvents` times between two accesses of a holder. `IrqRaised` is the read of
MIS before the lock, so an interrupt can be late. `ReadMessage`, `Open` and `Close`
are the locked parts of the system calls; their unlocked parts are in `RxRing`.
Recovery configures the peripheral in one step, since it is disabled meanwhile.

Data is abstracted to what the properties tell apart: a received byte is the number
of the write it belongs to, a reply byte the generation it answers and its position.
Six history variables record what the code does not: the write of the last byte
drained (`drained`) and of the last finished burst (`sealed`), the write of the
record the worker read (`workerWrite`), the generation of the reply (`txGen`),
whether `write()` found input waiting (`inputAtLock`), whether a request arrived
over an unconsumed reply (`abandoned`). No guard reads them.

**`RxRing`** is the ring by its indices with the steps of a blocking `read()`:
lockless test, sleep, second test under the lock, dequeue, copy fault. `open` is the
file, `dead` the removal; removal is two steps because the wake-up follows the unlock.
**`NewestWinsQueue`** is the abstract queue of numbered records that `RxRing`
implements: `NewestWins` is its specification under the mapping oldest =
`lastRecord + 1 - rxCount`.

**`TargetWorker`** is `target-driver.rs` over the driver, with the controllers on the bus:
`serve` (`Loop`, `ReadNothing`, `ReadRecord`, `Close`), `queue_response` with its deadline
(`Write`, `WriteBusy`, `GiveUp`), an unexpected removal (`DeviceGone`), the unload
(`Unload`), `controller-long` (`Send`, `LongRead`, `LongReadByte`), and other controllers
(`Send`, `OtherRead`). Requests are sent and replies read byte by byte (`SendByte`,
`SendStop`, `LongReadByte`). `controller-long` begins to read at any time after its
write: its 20 ms are any interval, as nothing ties them to the worker, and a read from an
empty transmit FIFO gives a byte that is nobody's. Of the driver the module has what decides
the content of a reply: the received bytes as counts, the ring, the generations, the
serializer and FIFO and the bytes not yet loaded. A service pass is one step (`Serviced`,
by interrupt, timer or `write()`); `write()` is that pass (`Write`) and the ownership test with the
publication (`Publish`, `Supersede`), and the bus moves in between. `StillOwned` is the
test as written: generation, `rx_work_len` and RXBUSY, but not the FIFO. The driver of
this commit never refuses a write with EAGAIN; the program allows for it and so does
the model. The variable `mishaps` is history, read by no guard. It holds what befell the newest
request:

| Mishap | What happened |
| --- | --- |
| `unread` | it was sent while bytes of an earlier exchange were in the device |
| `overrun` | the receive FIFO was full when a byte of it came |
| `overtaken` | the echo of an older request was published while it lay unread in the FIFO (`BscStalePublish`) |
| `early` | a byte was read before its reply was published |
| `starved` | a byte was read while the FIFO was empty and the rest of its reply not yet loaded |
| `stolen` | another controller read a byte of a reply before `controller-long` did |

**`DriverGuard`** is `kernel_target.rs`: two launchers that run `load_configured`, `unload`
and the drop of the guard, and one `--unload`, on a machine with overlays, a module and a
device node. Every command that changes the machine is a step, and so is every look at it, with
two exceptions: `CheckModule` looks at the device and at the module at once (line 286), and
`CleanOverlays` joins each `dtoverlay -l` of `unload_existing` with the `dtoverlay -r` it
leads to. A command may fail, a launcher may be killed. `pc[l]` is the position of launcher `l`,
`overlayLoaded[l]` and `moduleLoaded[l]` the fields of its guard; `overlays` and `module`
remember who is responsible, which the machine does not.

**`DisplayParser`** is `display_protocol.rs`, one action for each branch of `scan` and of the
two pixel-data readers, over byte sequences; `Push` is the entry of `push`. A field of
`window` is a rectangle in the display RAM, whichever of the two commands set it.
**`DisplayStream`** composes it with a sender, with the RAM of a real controller, and with a
second copy of the parser (`Whole`) that gets the same stream in one piece.
**`DisplayRuntime`** composes it with the loop of `virtual-display.rs`: the startup with a
failure at each of its nine steps (the conversion of the title is one, and the only one whose
error branch keeps something), `read`, the rendering deadline, `poll_idle`, `poll_input`, the
button lines of `gpio_buttons.rs`, and the resources of `sdl_display.rs`. Time is ticks;
one pass of the loop takes less than one. `DisplayStreamMC` and `DisplayRuntimeMC`
give the displays, messages and records for TLC.

**`DirectTarget`** is `target.rs` and `controller.rs` with the peripheral between them: each
register access and each byte on the bus is a step. `tpc` is the next access of the target:
drain, RXBUSY after it, the wait for the bus, disable, enable, load, sleep, shutdown.
`handled` and `replies` are history: the bytes answered or discarded, and what each reply
answers; `disordered` records that a run failed, that a command was split between two
passes of the loop, or that a reply was read before it was loaded.

The modules whose names end in `Proofs` hold the theorems.

A definition whose comment begins "Faulty form of" is a wrong variant of the next
definition; it is used by no specification and exists to show that the properties
notice the mistake.

## Runs

| Run | Shows |
| --- | --- |
| `BscReady` | The invariants and `PublishOwned` with READY: three writes of up to two bytes that may overtake each other, the worker, recovery, close and reopen. |
| `BscReceiveOnly` | Without READY: four writes into a ring of two; records reach the worker in order although the ring drops its oldest (`ReadsAdvance`). That they are whole in this mode too is the theorem `WritesNeverSplit`. |
| `BscLive` | The timer finishes every burst (`BurstsEnd`) and feeds every reply (`RepliesFed`). |
| `RxRingReceiveOnly` | Six records through three slots: accounting, wake-ups, the abstract queue, and release of the reader by remove. |
| `RxRingReady` | With READY the ring is a queue of capacity one (`NewestWins`) and its indices stay consistent (`RingShape`). |
| `TargetWorker` | With and without READY, two requests of any length up to one byte too long, the second of which may overtake the worker at any point, refused writes, signals, removal: whatever the order of bytes, service passes, `read()`, the two steps of `write()` and refills, `controller-long` reads the whole echo of its own message unless one of the six mishaps befell it (`LongReadsEcho`); a signal or the removal ends and unloads the worker (`StopEnds`). |
| `DriverGuard` | Two launchers that may race past `ensure_unloaded`, two failing commands, two kills, one `--unload`: the guards take back what they loaded and nothing else (`OverlaysAccounted`, `OnlyOwnModule`), nothing stays loaded behind a launcher that ends (`EndedClean`), `--unload` cleans up (`UnloadCleans`). |
| `DisplayStream` | Any fragmentation of a stream, damaged ones too, ends in the same display, remainder and counts (`FragmentsSameAsWhole`); a clean stream gives the RAM of a real controller (`CleanStreamDecoded`); a complete SH1106 frame is of one pass (`CompleteMeansOnePass`); every step of a `push` leaves less to do (`CallsProgress`), and `push` returns (`PushReturns`). |
| `DisplayRuntime` | Under traffic that need not pause, updates are shown in time (`NothingLeftUnshown`, `RenderedInTime`), the lines follow the pointer, a close event or a signal ends the loop, and no ending leaves a resource held, except SDL when the title is refused (`NothingHeld`). |
| `DirectTarget` | Three runs of the controller: every byte is handled once (`BytesHandledOnce`); as long as nothing got out of step the FIFO does not overrun and each run reads its own reply (`NoOverrunInOrder`, `OwnReply`); a signal restores the pins (`StopRestoresPins`), with the exception described below. |
| `BscOverflowAck` | Violation: an overflowed burst is acknowledged on READY, then discarded. |
| `BscStalePublish` | Violation: a one-byte request that completes between the service pass and the ownership check does not supersede the older reply. |

The bounds. FIFOs of one or two bytes, because the code has the two cases full and
not full, and the serializer makes a third place; `RxThreshold` equal to the FIFO
size, so that every shorter tail raises no interrupt; `TxThreshold` below it; three
writes, because a worker busy with one request, a second in the ring and a third on
the bus are all the driver distinguishes; replies longer than the FIFO
(`MaxTransfer` 3 with a FIFO of 2), so that refills happen; two bus events between
two accesses, enough for a byte and its STOP after a START. Two writes that merge into one burst, which the
service pass allows when it is late, exceed `MaxTransfer` in every run. In `RxRing` six
records make head and tail pass zero twice. `MaxWrites`, `MaxBytes`, `GapEvents`,
`MaxRecords` and `MaxCalls` are bounds, everything else is a parameter of the code.

For `TargetWorker`: `MaxTransfer` 4 with a prefix of 2, so that requests fit, fit without
the prefix only, and do not fit; FIFOs of one, so that requests need several service passes
and can overrun, and replies need refills; one record, so that the ring overflows in receive-only
mode; two requests, one with the worker and one that overtakes it. (Three requests give
about 3 million states with FIFOs of two, which pass as well but take longer than a run should.)

For `DriverGuard`: two launchers, because a race needs two; two
faults, so that a removal can fail twice; two kills, so that two overlays of a Pi 4 can be
left. For `DisplayStream`: three pages, so that there is a first, a middle and a last one;
two columns, so that rectangles can be narrow; at most three messages with a damaged
one (it counts as two) or four without; the initialisation sequences keep their first three
bytes, enough to be cut in. For `DisplayRuntime`: a timeout of two ticks, and a window of
three columns, one for each third. For `DirectTarget`: FIFOs of three, commands and
responses of two, so that a reply of an earlier run can fill the FIFO for the next one.

`RxRing` and the models of the programs turn deadlock checking off: a removed device
does stop, and programs end. `BscTarget` checks it.

Fairness. `LiveSpec` of `BscTarget` assumes weak fairness of the code under the
spinlock, which runs to its end with interrupts off, and strong fairness of the
timer: an hrtimer of an open device keeps firing every `poll_interval_ns`, and the
kernel's queued spinlock hands it the lock however often the others take it.
Nothing is assumed of the bus, the worker or the IRQ. `LiveSpec` of `RxRing` assumes
that a runnable reader and `bsc_remove` get to run; signals, records and calls may
never come. The programs' models assume weak fairness of the program's own thread
(`WorkerStep`, `Thread`, the target's steps, the decoding in `DisplayStream`), which
never blocks without a timeout; `DirectTarget` also of a controller that has begun a
transfer, because the target waits for the bus. Nothing is assumed of signals, of
traffic, or of other controllers.

## Disagreements found

1. `bsc_finish_rx_locked` acknowledges a burst on READY (line 255) before it tests
   `rx_overflowed` (line 258). `docs/response-transport.md` promises that the pulse
   acknowledges acceptance; an overlong request is acknowledged and dropped, and the
   controller then waits for a reply that cannot come. (`BscOverflowAck`)
2. `bsc_publish_response_locked` looks for newer input (lines 511-512) in the
   generation, in `rx_work` and in RXBUSY, but not in RXFE. A one-byte request that
   lies complete in the FIFO at that moment is overlooked and an answer to the older
   request is published over it, against the comments at lines 502 and 513.
   (`BscStalePublish`) The service pass of the same file tests both flags in
   one snapshot for this reason. `PublishOwned` is what does hold: input that was
   there when `write()` took the lock always supersedes. Only a controller that
   sends a request before it has consumed the preceding reply can meet the window.

Five more, visible in the models and without a run of their own:

- `controller-long` sleeps 20 ms after its write and then reads (lines 74-76), whether or not
  there is a reply. Its comment says that "Userspace must consume the request and queue
  the complete response first", `README.md` (339-341) that it then reads the echo, and
  `docs/architecture.md` (114) that reads must await READY. The worker is a process that
  may sleep or wait for the processor longer than that; then the bytes read are not the
  echo, `read_exact` does not notice, and the reply published later is left in the device
  for the next reader. `LongReadsEcho` has the premise that no byte was read `early`;
  without it TLC finds such a read in eight states, with the worker serving and nobody
  else on the bus.
- `target.rs` line 384 says "press Ctrl-C to restore the pins and exit". Disabling the
  peripheral does not empty its transmit FIFO, so replies that timed-out controllers
  never read can fill it, and `queue_response` then waits for room without looking
  at `RUNNING`. `StopRestoresPins` has the alternative `Blocked` for this; without it
  the property is false. For the same reason the next reply begins behind the bytes
  of the old one, against the comment at line 281, and `OwnReply` is stated for runs
  before anything of the kind has happened.
- `unload_existing` removes the overlay of the Pi 4 once and that of the Pi 3 in a loop. Two killed
  launchers on a Pi 4 need two runs of `--unload`; `UnloadCleans` says so.
- `SdlDisplay::new` converts the title after `SDL_Init` and returns by `?` when that fails
  (`sdl_display.rs` 141-146), without the `SDL_Quit` of every later error branch.
  `NothingHeld` says that SDL, and nothing else, is then left. `virtual-display` does not
  meet this: its title is a command-line argument, which cannot contain a NUL.
- `README.md` lines 323-326 say that `--unload` refuses while the device is in use. It looks at
  the module and the device once, and removes the overlay later: a launcher that
  starts in between loses its overlay. `UnloadCleans` is about a `--unload` with
  nobody else moving.

## What is proved

For all values of the constants that satisfy the named assumptions (sizes are
positive, thresholds lie within the FIFO, bounds are natural numbers) and for both
modes, TLAPS proves in `BscTargetProofs`:

- `TypeCorrect`: `Spec => []TypeOK`, so no buffer, ring or FIFO is exceeded;
- `WritesNeverSplit`, `OneRequestWaits`, `NewestIsAnswered`, `ReadyIsTruthful`,
  `ReplyBytesExact`, `TxInterruptExact`, `LateHandlersHarmless`: the seven other
  invariants of `BscReady`;
- `RepliesAreOwned` and `RecordsNewer`: the action properties `PublishOwned` and
  `ReadsAdvance`.

They follow from one inductive invariant, `IInv`, built in layers, each preserved by
every step given the layers below it (one lemma per layer, one step per action):

| Layer | Why it is needed |
| --- | --- |
| `TypeOK` | lengths and ranges for everything else |
| `LockInv` | which context can be at which point, and that only an open device is being serviced: with it a late IRQ cannot touch a closed one |
| `RecordInv` | records are not empty, so the last byte of a record exists |
| `OrderInv` | writes are in order along bus, FIFO and burst; at `finish` nothing of the drained write is left behind. `NoSplit` alone is not inductive: it does not survive a drained byte |
| `RequestInv` | the generations that ring, worker and reply can hold, and where READY may be asserted |
| `OwnerInv` | the newest burst's last write from the drain through the ring to the worker, and that input seen at the lock is drained before the check |
| `PipeInv` | an empty pipe when no reply is queued, without which a new reply could follow old bytes |
| `QueueInv` | the bytes in the ring are newer than the worker's record, belong to finished bursts, and get newer from slot to slot: `ReadsAdvance` only speaks of the head, and what becomes the head after a read or a drop has to be known before |
| `InterruptInv` | IMSC at the points between the service pass and the release of the lock |

The same layers are what justifies `GapEvents`: the proofs hold for any number of bus events
between two register accesses.

The other proof modules have the same form: an inductive invariant `IInv` in layers, one
lemma per layer with one step per action, and the properties as its consequences.

**`RxRingProofs`** (any number of slots): `TypeCorrect`, `NoRecordUncounted`, `NoWakeupLost`,
`OneRing`, and `Refinement`, `Spec => NewestWins`. `RingInv` says which record is in which
slot: the i-th slot from the head holds record `lastRecord + 1 - rxCount + i`; without it
nothing is known of what `ReadTake` returns. `RingSteps` reduces every action to four
kinds of change of the ring, and `Wrap` takes the remainder out of the index arithmetic.
With READY the refinement to a queue of capacity one needs that the ring is empty while
a burst is received, which is part of `RingInv`.

**`TargetWorkerProofs`** (any transfer limit, prefix, FIFO and ring size, deadline and
number of requests): `TypeCorrect` and `LongGetsEcho`, `Spec => []LongReadsEcho`. `BusInv` and `NumberInv`
are about every request. `Flow` follows a request of `controller-long` as long as no mishap
has befallen it (`Sound`): on its way to the ring (`ArrivingInv`: bytes to come, in
the FIFO and in the burst add up to its length), in the ring or with the worker (`ArrivedInv`), unanswered (`UnansweredInv`:
no byte of any reply is in the device), or answered (`AnsweredInv`: bytes read, in the FIFO
and still to load add up to the whole echo). `OlderInv` is why the echo of an older
request is not published: the worker's generation is behind, or the first byte of the
newer one is yet to be drained; in the latter case `StillOwned` can only hold with the byte
in the FIFO, which is the mishap `overtaken`. The mishaps are the premises of the theorem. None of them can be dropped without
assuming something of the controllers or of the worker's speed: in the instance of the
run, TLC finds for each of them a read spoilt by it alone.

**`DriverGuardProofs`** (any finite set of launchers, any number of faults and kills):
`GuardsAccount`, `EndsClean`, `CleansUp`, `NobodyElsesModule`. `GuardInv` says for each
position of a launcher what its guard owns; `AccountInv` counts the guards that own
an overlay, with the library's theorems on cardinality; `CleanInv` follows an
undisturbed `--unload`.

**`DirectTargetProofs`** (any FIFO, command and response sizes that satisfy
`SizesAssumption`, which the constants of the two programs do): `NoByteLost`,
`NoOverrun`, `RepliesOwn`. `RunInv` is the run in progress; `PendingInv` and
`AnsweredInv` are the exchange before and after the target has begun its reply, and
together they hold as long as nothing got out of step.

**`DisplayParserProofs`** (any display, any initialisation sequences, any bytes in any
pieces): `TypeCorrect`. Its content is that a rectangle is inside the display RAM when its
command is accepted (`WindowInside`, `PageRangeInside`), and that the bytes that fill
it are all there (`FilledBytes`).

**`DisplayRuntimeProofs`** (any set of records, timeout and window): `NothingForgotten`,
`DeadlineKept`, `GivesBack`. `ShownInv` adds to the property the time within `push`, when an
update is counted and has no deadline yet; `ClockInv` adds up ticks passed and ticks
left, and knows that an expired deadline is met by at most one more tick; `HeldInv` lists
what is held at each step of the startup, and after it. `GivesBack` is exact about the refused title:
SDL and nothing else.

**`DisplayStreamProofs`** (any display, sender, noise, number of messages and fragments):
`StreamTypeCorrect`, `FragmentsHarmless`, `CleanStreamsMeant`, `OnePass`, `CallsEnd`. What a
stream decodes to is not computed, since that would be an induction over its bytes; it is
followed in steps:

- A decoding state is a record of the parser's variables and the counts. `Turn` is one turn of
  `scan` as a function of it, `Stuck` is where `scan` asks for more bytes, and `Reaches(s, t)`
  says that every set of states that contains `s` and is closed under `Turn` contains `t`. The
  actions of `DisplayParser` are turns (one lemma for each), so a parser never leaves what its
  state at the beginning reaches.
- `Longer(s, rest)` is `s` with more bytes behind it. `LongerTurn` is the lemma the rest
  depends on: a turn that can be taken is the same turn when more bytes follow. It fails for a
  parser that decides on a prefix of an initialisation sequence or of a command.
- `StreamInv` holds the types, where both calls of `push` are, and that the fragments'
  parser, with the bytes not yet delivered behind it, reaches the state of the parser that got the
  whole stream. When both are stuck and nothing is left, the two states are equal:
  `FragmentsSameAsWhole`.
- `CleanInv` adds, for streams without damage, a state that the whole stream leads to
  (`Ahead`) and that shows what the sender meant (`Meant`): the image in the RAM, the pages of
  the pass, the frames sent. Each message leads from one such state to the next (`Leads`).
- `PassInv` says that a page noted in `sh1106_pages` was written in the pass that goes on.
- `Weight` is the measure of `CallsProgress`: the bytes left, plus one for an open rectangle
  and for a page to compare with. Each turn that goes on makes it smaller. A page wrap takes no
  byte, but the page it compares with is cleared, which is why it cannot repeat. As the measure
  is a natural number, this is the safety half of `PushReturns`; the other half is
  that an enabled step is taken. It is stated for the calls with a fragment; a call with the
  whole stream is one with a single fragment.

These proofs use four assumptions, all of which the code justifies: `SizeAssumption` (a display
has at most 128 columns and 8 pages, and a column or page fits a byte), `PatternAssumption` (the
initialisation sequences are not empty), `CommandsAssumption` (they begin with a command byte
and none begins like an addressing command or like the other one, which one can see in the three
constants of `display_protocol.rs`), and `SenderAssumption` (a sender writes to rectangles of the
display, one page at a time to an SH1106, and noise is bytes).

Only model-checked: the liveness properties (`BurstsEnd`, `RepliesFed`,
`RemoveReleasesReader`, `StopEnds`, `PushReturns`, `LinesFollowMouse`, `CloseEnds`,
`StopRestoresPins`), which are outside the prover. Every invariant and every action property
of the passing runs is a theorem, except those of a `violation` run, which do not hold.

## Not modelled

- In the kernel driver: the statistics other than the ring's two counters, `GET_INFO`,
  `GET_STATS`, `CLEAR_STATS`, sysfs and the `poll()` mask, which is a function of three
  fields; the `opened` counter, `hrtimer_cancel`, `synchronize_irq` and the error path of
  probe, where a model would be one of the kernel's timer, interrupt and file layers. The locked
  parts of open, close and the late handlers are in `BscTarget`.
- Break conditions, general calls and clock-level behaviour of the bus.
- Option and address parsing, printed reports, the search for the artifact directory; the
  ages of the artifacts are one check that may fail.
- The colours and the rotation in `sdl_display.rs`'s `render`, the `ioctl` structures of
  `gpio_buttons.rs`, hardware detection, the mapping of `/dev/mem`, the pull-up registers.
- Overlays, build files, the udev rule and CI, which have no behaviour; the receive-only
  diagnostics and the bench tests.
