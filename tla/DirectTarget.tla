----------------------------- MODULE DirectTarget -----------------------------
(***************************************************************************)
(* The direct userspace demonstration: the program target, which maps the  *)
(* BSC registers through /dev/mem (src/bin/target.rs), and the runs of the *)
(* program controller (src/bin/controller.rs) that follow one another on   *)
(* the bus.  Every register access of the target is a step of its own; so  *)
(* is every byte on the bus.  Time is left out: the controller's sleeps    *)
(* only bound its polls, and the target may be delayed anywhere.           *)
(*                                                                         *)
(* Data.  A command byte is the number of the controller run that sent it. *)
(* A reply byte is the number of the reply and its position in it, 0 being *)
(* the length prefix.  The peripheral's FIFOs are those of BscTarget.      *)
(***************************************************************************)
EXTENDS Naturals, Sequences

CONSTANTS
    FifoSize,     \* bytes of the RX FIFO; the TX serializer holds one more than the TX FIFO
    MaxCommand,   \* MAX_COMMAND of both programs
    MaxResponse,  \* MAX_RESPONSE
    Prefix,       \* bytes of "ACK: "
    Echo,         \* received bytes a response echoes at most (10)
    MaxPolls,     \* one-byte reads of the controller (100)
    MaxRuns,      \* bound: controller runs
    MaxArgument   \* bound: length of the message argument

ASSUME SizesAssumption ==
    /\ FifoSize \in Nat /\ MaxCommand \in Nat /\ MaxResponse \in Nat
    /\ Prefix \in Nat \ {0} /\ Echo \in Nat
    /\ MaxResponse < FifoSize /\ MaxCommand <= FifoSize /\ Prefix + Echo <= MaxResponse
ASSUME RunsAssumption == MaxPolls \in Nat /\ MaxRuns \in Nat /\ MaxArgument \in Nat

VARIABLES
  \* the peripheral and the pins
    enabled,      \* BSC_CR holds BSC_CONTROL
    pins,         \* function of SDA and SCL: "input" or "alt3"
    rxFifo, rxBusy,
    txPipe,       \* the TX serializer (head) and the TX FIFO behind it
  \* the target program
    running,      \* RUNNING
    tpc,          \* its next register access
    received,
    loaded,       \* bytes of the framed response written
  \* the controller program
    run, cpc, message, sending, polls, expected,
    got,          \* the payload read
  \* history
    sent,         \* every byte the bus has carried to the enabled target
    handled,      \* every byte answered or discarded
    replies,      \* the received bytes each response answers
    lost,         \* an RX overrun has happened
    disordered    \* a run failed, a command was split, or a reply was read before it was loaded

busVars     == <<enabled, pins, rxFifo, rxBusy, txPipe>>
targetVars  == <<running, tpc, received, loaded>>
ctlVars     == <<run, cpc, message, sending, polls, expected, got>>
historyVars == <<sent, handled, replies, lost, disordered>>
vars        == <<busVars, targetVars, ctlVars, historyVars>>

Runs   == 1..MaxRuns
TxByte == [reply : Nat, pos : Nat]

\* What an empty transmit FIFO gives the controller.
Zero == [reply |-> 0, pos |-> 0]

TypeOK ==
    /\ enabled \in BOOLEAN /\ pins \in {"input", "alt3"} /\ rxBusy \in BOOLEAN
    /\ rxFifo \in Seq(Runs) /\ Len(rxFifo) <= FifoSize
    /\ txPipe \in Seq(TxByte) /\ Len(txPipe) <= FifoSize + 1
    /\ running \in BOOLEAN
    /\ tpc \in {"off", "drain", "receiving", "busy", "disable", "enable", "load", "sleep",
                "closing", "exited"}
    /\ received \in Seq(Runs) /\ loaded \in Nat
    /\ run \in 0..MaxRuns /\ cpc \in {"idle", "write", "sent", "reply", "body", "done", "failed"}
    /\ message \in Nat /\ sending \in Nat /\ polls \in Nat /\ expected \in Nat
    /\ got \in Seq(TxByte)
    /\ sent \in Seq(Runs) /\ handled \in Seq(Runs) /\ replies \in Seq(Seq(Runs))
    /\ lost \in BOOLEAN /\ disordered \in BOOLEAN

Init ==
    /\ enabled = FALSE /\ pins = "input" /\ rxFifo = <<>> /\ rxBusy = FALSE /\ txPipe = <<>>
    /\ running = TRUE /\ tpc = "off" /\ received = <<>> /\ loaded = 0
    /\ run = 0 /\ cpc = "idle" /\ message = 0 /\ sending = 0 /\ polls = 0 /\ expected = 0
    /\ got = <<>>
    /\ sent = <<>> /\ handled = <<>> /\ replies = <<>> /\ lost = FALSE /\ disordered = FALSE

-----------------------------------------------------------------------------
(* The target program. *)

Access(from, to) ==
    /\ tpc = from /\ tpc' = to
    /\ UNCHANGED <<ctlVars, running>>

\* HardwareTarget::open and configure.
Open ==
    /\ Access("off", "drain")
    /\ enabled' = TRUE /\ pins' = "alt3"
    /\ UNCHANGED <<rxFifo, rxBusy, txPipe, received, loaded, historyVars>>

\* drain_received: one byte while RX_EMPTY is clear.
Drain ==
    /\ rxFifo # <<>> /\ Access("drain", "drain")
    /\ received' = Append(received, Head(rxFifo)) /\ rxFifo' = Tail(rxFifo)
    /\ UNCHANGED <<enabled, pins, rxBusy, txPipe, loaded, historyVars>>

Drained ==
    /\ rxFifo = <<>>
    /\ IF received = <<>> THEN Access("drain", "sleep") ELSE Access("drain", "receiving")
    /\ UNCHANGED <<busVars, received, loaded, historyVars>>

StillReceiving ==
    /\ rxBusy /\ Access("receiving", "sleep")
    /\ UNCHANGED <<busVars, received, loaded, historyVars>>

\* Faulty form of Discard: received is not cleared.
DiscardKeeping ==
    /\ ~rxBusy /\ Len(received) > MaxCommand
    /\ tpc = "receiving" /\ tpc' = (IF running THEN "drain" ELSE "closing")
    /\ handled' = handled \o received
    /\ UNCHANGED <<running, ctlVars, busVars, received, loaded, sent, replies, lost, disordered>>

\* An oversized command: continue goes straight back to the loop's condition.
Discard ==
    /\ ~rxBusy /\ Len(received) > MaxCommand
    /\ Access("receiving", IF running THEN "drain" ELSE "closing")
    /\ handled' = handled \o received /\ received' = <<>>
    /\ UNCHANGED <<busVars, loaded, sent, replies, lost, disordered>>

\* The command is taken as complete.  Bytes that came since the drain stay behind.
Answer ==
    /\ ~rxBusy /\ Len(received) <= MaxCommand
    /\ Access("receiving", "busy")
    /\ disordered' = (disordered \/ rxFifo # <<>>)
    /\ UNCHANGED <<busVars, received, loaded, sent, handled, replies, lost>>

\* FR_TXBUSY: the controller is inside a read of more than one byte.
TxBusy == cpc = "body"

TxFull == Len(txPipe) > FifoSize

\* queue_response: wait for an idle bus, then disable, enable and load.
Idle ==
    /\ ~TxBusy /\ ~rxBusy /\ Access("busy", "disable")
    /\ UNCHANGED <<busVars, received, loaded, historyVars>>

Disable ==
    /\ Access("disable", "enable") /\ enabled' = FALSE
    /\ UNCHANGED <<pins, rxFifo, rxBusy, txPipe, received, loaded, historyVars>>

\* The transition moves one byte into the serializer: at most one byte of an
\* earlier reply is lost, the others stay in front of this one.
Enable ==
    /\ Access("enable", "load") /\ enabled' = TRUE
    /\ txPipe' = (IF txPipe = <<>> THEN <<>> ELSE Tail(txPipe))
    /\ replies' = Append(replies, received) /\ loaded' = 0
    /\ UNCHANGED <<pins, rxFifo, rxBusy, received, sent, handled, lost, disordered>>

ResponseLen(r) ==
    Prefix + (IF Len(replies[r]) < Echo THEN Len(replies[r]) ELSE Echo)

Load ==
    /\ Access("load", "load")
    /\ ~TxFull /\ loaded <= ResponseLen(Len(replies))
    /\ txPipe' = Append(txPipe, [reply |-> Len(replies), pos |-> loaded])
    /\ loaded' = loaded + 1
    /\ UNCHANGED <<enabled, pins, rxFifo, rxBusy, received, historyVars>>

\* Faulty form of Loaded: received is not cleared.
LoadedKeeping ==
    /\ Access("load", "sleep") /\ loaded > ResponseLen(Len(replies))
    /\ handled' = handled \o received
    /\ UNCHANGED <<busVars, received, loaded, sent, replies, lost, disordered>>

Loaded ==
    /\ Access("load", "sleep") /\ loaded > ResponseLen(Len(replies))
    /\ handled' = handled \o received /\ received' = <<>>
    /\ UNCHANGED <<busVars, loaded, sent, replies, lost, disordered>>

\* Faulty form of Sleep: the loop's condition is not RUNNING.
SleepForever ==
    /\ Access("sleep", "drain")
    /\ UNCHANGED <<busVars, received, loaded, historyVars>>

\* The end of an iteration and the loop's condition.
Sleep ==
    /\ Access("sleep", IF running THEN "drain" ELSE "closing")
    /\ UNCHANGED <<busVars, received, loaded, historyVars>>

\* drop: shutdown.
Shutdown ==
    /\ Access("closing", "exited")
    /\ enabled' = FALSE /\ pins' = "input"
    /\ UNCHANGED <<rxFifo, rxBusy, txPipe, received, loaded, historyVars>>

\* SIGINT or SIGTERM: only the flag is stored.
Signal ==
    /\ running /\ tpc # "off" /\ running' = FALSE
    /\ UNCHANGED <<busVars, tpc, received, loaded, ctlVars, historyVars>>

TargetStep ==
    \/ Open \/ Drain \/ Drained \/ StillReceiving \/ Discard \/ Answer
    \/ Idle \/ Disable \/ Enable \/ Load \/ Loaded \/ Sleep \/ Shutdown

-----------------------------------------------------------------------------
(* The controller program. *)

Away(from, to) ==
    /\ cpc = from /\ cpc' = to
    /\ UNCHANGED <<targetVars, enabled, pins, handled, replies>>

\* Faulty form of Accepts: the length of the message is not checked.
AcceptsAny(length) == TRUE

Accepts(length) == length \in 1..MaxCommand

\* A run starts when the previous one is over.  A message it does not accept ends it at once.
Start(length) ==
    /\ run < MaxRuns /\ cpc \in {"idle", "done", "failed"}
    /\ Accepts(length)
    /\ run' = run + 1 /\ message' = length /\ sending' = 0 /\ polls' = 0
    /\ cpc' = "write" /\ expected' = 0 /\ got' = <<>>
    /\ UNCHANGED <<targetVars, busVars, historyVars>>

\* A byte of the command.  Without clock stretching a full FIFO loses it.
WriteByte ==
    /\ enabled /\ sending < message /\ Away("write", "write")
    /\ sending' = sending + 1 /\ rxBusy' = TRUE
    /\ sent' = Append(sent, run)
    /\ IF Len(rxFifo) < FifoSize
         THEN rxFifo' = Append(rxFifo, run) /\ UNCHANGED lost
         ELSE lost' = TRUE /\ UNCHANGED rxFifo
    /\ UNCHANGED <<txPipe, run, message, polls, expected, got, disordered>>

WriteStop ==
    /\ sending = message /\ Away("write", "sent")
    /\ rxBusy' = FALSE
    /\ UNCHANGED <<rxFifo, txPipe, run, message, sending, polls, expected, got,
                   sent, lost, disordered>>

\* The controller's next move addresses the target or transfers a byte.
OnBus == cpc \in {"sent", "reply", "body"} \/ (cpc = "write" /\ sending < message)

\* A disabled peripheral does not acknowledge: the call fails and the run with it.
Nack ==
    /\ ~enabled /\ OnBus
    /\ Away(cpc, "failed")
    /\ rxBusy' = FALSE /\ disordered' = TRUE
    /\ UNCHANGED <<rxFifo, txPipe, run, message, sending, polls, expected, got, sent, lost>>

NextTxByte == IF txPipe = <<>> THEN Zero ELSE Head(txPipe)
TxConsumed == IF txPipe = <<>> THEN <<>> ELSE Tail(txPipe)

\* The value of a byte that stands where the length is expected; every payload byte
\* is a character, larger than any length.
LengthOf(byte) == IF byte.pos = 0 THEN ResponseLen(byte.reply) ELSE MaxResponse + 1

\* A one-byte read of the length: zero is polled again.
PollZero ==
    /\ enabled /\ txPipe = <<>> /\ polls + 1 < MaxPolls
    /\ Away("sent", "sent") /\ polls' = polls + 1
    /\ UNCHANGED <<rxFifo, rxBusy, txPipe, run, message, sending, expected, got,
                   sent, lost, disordered>>

\* The last poll gives zero as well: target reply timed out.
GiveUp ==
    /\ enabled /\ txPipe = <<>> /\ polls + 1 = MaxPolls
    /\ Away("sent", "failed") /\ disordered' = TRUE
    /\ UNCHANGED <<rxFifo, rxBusy, txPipe, run, message, sending, polls, expected, got, sent, lost>>

PollLength ==
    /\ enabled /\ txPipe # <<>> /\ Away("sent", "reply")
    /\ expected' = LengthOf(Head(txPipe)) /\ txPipe' = Tail(txPipe)
    /\ UNCHANGED <<rxFifo, rxBusy, run, message, sending, polls, got, sent, lost, disordered>>

\* The second read: the payload in one transaction.
BeginBody ==
    /\ enabled /\ Away("reply", "body")
    /\ UNCHANGED <<rxFifo, rxBusy, txPipe, run, message, sending, polls, expected, got,
                   sent, lost, disordered>>

ReadBody ==
    /\ enabled /\ Away("body", IF Len(got) + 1 < expected THEN "body" ELSE "done")
    /\ got' = Append(got, NextTxByte) /\ txPipe' = TxConsumed
    /\ disordered' = (disordered \/ txPipe = <<>>)
    /\ UNCHANGED <<rxFifo, rxBusy, run, message, sending, polls, expected, sent, lost>>

ControllerStep ==
    \/ WriteByte \/ WriteStop \/ Nack
    \/ PollZero \/ GiveUp \/ PollLength \/ BeginBody \/ ReadBody

Next == \/ TargetStep \/ Signal \/ ControllerStep
        \/ \E length \in 0..MaxArgument : Start(length)

\* The target's thread keeps running, and the bus ends the transfers it has begun.
Fairness == WF_vars(TargetStep) /\ WF_vars(ControllerStep)

Spec == Init /\ [][Next]_vars /\ Fairness

-----------------------------------------------------------------------------
(* Properties *)

\* Unless the RX FIFO overruns, every byte of every command is answered or discarded
\* exactly once and in order, or still waits in the program or in the FIFO: also when
\* a command is split between two passes of the loop or merged with the next one.
BytesHandledOnce == ~lost => sent = handled \o received \o rxFifo

\* A command of an accepted length fits the RX FIFO however late the target runs: it
\* overruns only after a run that failed, a split command or a reply read too early.
\* (controller.rs:17-18, target.rs:52-53)
NoOverrunInOrder == ~disordered => ~lost

\* While nothing of that kind has happened, a run that ends well has read the reply to
\* its own message, the whole of it and nothing else, although it polls while the
\* target resets the peripheral and loads the reply.
OwnReply ==
    cpc = "done" /\ ~disordered =>
        LET r == Len(replies) IN
        /\ replies[r] = [i \in 1..message |-> run]
        /\ got = [i \in 1..ResponseLen(r) |-> [reply |-> r, pos |-> i]]

\* The response waits behind bytes of earlier replies that nobody reads.
Blocked == tpc = "load" /\ TxFull

\* A signal ends the loop and the pins are inputs again, unless queue_response waits
\* for ever behind an unread reply: its waits do not look at RUNNING.
StopRestoresPins == ~running ~> (tpc = "exited" /\ pins = "input" /\ ~enabled) \/ Blocked

=============================================================================
