-------------------------- MODULE TargetWorkerProofs --------------------------
(***************************************************************************)
(* controller-long reads the echo of its message, for every transfer       *)
(* limit, prefix, FIFO and ring size and deadline.  The invariant follows  *)
(* a request that no mishap befell from the bus through the FIFO, the      *)
(* burst, the ring and the worker to its reply, and keeps apart from it    *)
(* the older request that the worker may still be answering.               *)
(***************************************************************************)
EXTENDS TargetWorker, TLAPS, SequenceTheorems

USE WorkerAssumption

\* TypeOK in two parts: Boolean variables, and the others.
FlagTypes ==
    /\ receiveOnly \in BOOLEAN /\ ready \in BOOLEAN /\ (receiveOnly \/ ready)
    /\ rxBusy \in BOOLEAN /\ long \in BOOLEAN /\ dead \in BOOLEAN /\ running \in BOOLEAN

BusTypes ==
    /\ newest \in 0..MaxRequests /\ length \in 0..MaxTransfer + 1
    /\ toCome \in 0..MaxTransfer + 1
    /\ want \in -1..MaxTransfer /\ got \in 0..MaxTransfer
    /\ mishaps \subseteq Mishaps

RxTypes ==
    /\ fifo \in 0..FifoSize /\ work \in 0..MaxTransfer + 1
    /\ ring \in Seq(Records) /\ Len(ring) <= RxSlots
    /\ generation \in Nat /\ owner \in Nat /\ owner <= generation

TxTypes ==
    /\ tx \in Seq(Requests) /\ Len(tx) <= FifoSize + 1
    /\ left \in 0..MaxTransfer /\ replyTo \in 0..MaxRequests

WorkerTypes ==
    /\ pc \in {"open", "loop", "read", "write", "publish", "close", "unload", "ended"}
    /\ request \in Records \union {NoRecord} /\ waited \in 0..Deadline
    /\ result \in {"none", "ok", "error"}

Writing  == pc \in {"write", "publish"}
Arriving == rxBusy \/ fifo > 0 \/ work > 0

\* The bus: one transfer at a time, and what controller-long may ask for.
BusInv ==
    /\ toCome > 0 => rxBusy
    /\ rxBusy => want = -1
    /\ want # -1 => long /\ got + want <= MaxTransfer
    /\ want = -1 => got = 0
    /\ long => length \in 1..(MaxTransfer - Prefix)

\* Nothing is of a request that is not yet begun.
NumberInv ==
    /\ Arriving => newest > 0
    /\ \A i \in 1..Len(ring) : ring[i].to <= newest
    /\ replyTo <= newest /\ (left > 0 => replyTo > 0)
    /\ Writing => ready /\ ~receiveOnly /\ request \in Records /\ request.to <= newest

\* A request of controller-long that no mishap befell, while the device is open:
Sound == long /\ mishaps = {} /\ pc \notin {"unload", "ended"}

\* on its way to the ring, where no record of it is yet, and in READY mode from its first
\* drained byte on no other record either;
ArrivingInv ==
    Arriving =>
        /\ toCome + fifo + work = length
        /\ replyTo < newest /\ (Writing => request.to < newest)
        /\ \A i \in 1..Len(ring) : ring[i].to < newest
        /\ ready /\ work > 0 => ring = <<>>

\* arrived: in the ring or with the worker;
ArrivedInv ==
    ~Arriving =>
        /\ ready => ring = <<>> \/ ring = <<[to |-> newest, len |-> length]>>
        /\ Writing /\ request.to = newest => ring = <<>> /\ request.len = length

\* an older request that the worker has is superseded, or will be when the driver drains;
OlderInv ==
    Writing /\ request.to < newest => owner < generation \/ (Arriving /\ work = 0)

\* nothing of any reply is in the device, and nothing read;
UnansweredInv ==
    replyTo # newest => tx = <<>> /\ left = 0 /\ got = 0 /\ want \in {-1, length + Prefix}

\* or its reply is, and all of it.
AnsweredInv ==
    replyTo = newest =>
        /\ ready /\ ring = <<>> /\ ~Arriving /\ ~Writing
        /\ \A i \in 1..Len(tx) : tx[i] = newest
        /\ got + Len(tx) + left = length + Prefix
        /\ want # -1 => want + got = length + Prefix

Flow     == ArrivingInv /\ ArrivedInv /\ OlderInv /\ UnansweredInv /\ AnsweredInv
SoundInv == Sound => Flow

Types == FlagTypes /\ BusTypes /\ RxTypes /\ TxTypes /\ WorkerTypes
IInv  == Types /\ BusInv /\ NumberInv /\ SoundInv /\ LongReadsEcho

-----------------------------------------------------------------------------
(* Sequences, the ring and the TX FIFO. *)

\* The parts make the type invariant.
LEMMA TypeParts == Types => TypeOK
  BY DEF Types, TypeOK, FlagTypes, BusTypes, RxTypes, TxTypes, WorkerTypes

\* The empty sequence, in the form the provers need it in.
LEMMA EmptyInSeq == ASSUME NEW S PROVE <<>> \in Seq(S) /\ Len(<<>>) = 0
  BY EmptySeq

\* The first element of a sequence, and the sequence without it.
LEMMA FirstAndRest ==
    ASSUME NEW S, NEW s \in Seq(S), s # <<>>
    PROVE  /\ Head(s) = s[1] /\ Head(s) \in S /\ Tail(s) \in Seq(S)
           /\ Len(s) \in Nat \ {0} /\ Len(Tail(s)) = Len(s) - 1
           /\ \A i \in 1..Len(Tail(s)) : Tail(s)[i] = s[i + 1]
           /\ \A x : s = <<x>> => Head(s) = x /\ Tail(s) = <<>>
<1>1. /\ Head(s) = s[1] /\ Head(s) \in S /\ Tail(s) \in Seq(S)
      /\ Len(s) \in Nat \ {0} /\ Len(Tail(s)) = Len(s) - 1
      /\ \A i \in 1..Len(Tail(s)) : Tail(s)[i] = s[i + 1]
  BY HeadTailProperties, LenProperties, EmptySeq, ElementOfSeq
<1>2. ASSUME NEW x, s = <<x>> PROVE Head(s) = x /\ Tail(s) = <<>>
  BY <1>2
<1> QED BY <1>1, <1>2

\* A full ring makes room: what it keeps is what it had and the new record.
LEMMA StoredRecord ==
    ASSUME NEW records \in Seq(Records), Len(records) <= RxSlots, NEW record \in Records
    PROVE  LET stored == Stored(records, record)
           IN  /\ stored \in Seq(Records) /\ Len(stored) <= RxSlots
               /\ \A i \in 1..Len(stored) :
                    \/ stored[i] = record
                    \/ \E j \in 1..Len(records) : stored[i] = records[j]
               /\ records = <<>> => stored = <<record>>
<1> DEFINE stored == Stored(records, record)
<1>0. Len(records) \in Nat
  BY LenProperties
<1>1. CASE Len(records) = RxSlots
  <2>1. records # <<>>
    BY <1>1, EmptyInSeq
  <2>2. /\ Tail(records) \in Seq(Records) /\ Len(Tail(records)) = Len(records) - 1
        /\ \A i \in 1..Len(Tail(records)) : Tail(records)[i] = records[i + 1]
    BY <2>1, FirstAndRest
  <2>3. stored = Append(Tail(records), record)
    BY <1>1 DEF Stored
  <2>4. /\ stored \in Seq(Records) /\ Len(stored) = Len(records)
        /\ \A i \in 1..(Len(records) - 1) : stored[i] = records[i + 1]
        /\ stored[Len(records)] = record
    BY <1>0, <2>2, <2>3, AppendProperties
  <2> QED BY <1>0, <2>1, <2>4
<1>2. CASE Len(records) # RxSlots
  <2>1. stored = Append(records, record)
    BY <1>2 DEF Stored
  <2>2. /\ stored \in Seq(Records) /\ Len(stored) = Len(records) + 1
        /\ \A i \in 1..Len(records) : stored[i] = records[i]
        /\ stored[Len(records) + 1] = record
    BY <1>0, <2>1, AppendProperties
  <2>3. records = <<>> => stored = <<record>>
    BY <2>1
  <2> QED BY <1>0, <1>2, <2>2, <2>3
<1> QED BY <1>1, <1>2

\* A refill never exceeds the FIFO, loses nothing, and puts in bytes of one request.
LEMMA Refilled ==
    ASSUME TxTypes, NEW to \in 0..MaxRequests, NEW n \in 0..MaxTransfer, n > 0 => to > 0,
           Refill(to, n)
    PROVE  /\ tx' \in Seq(Requests) /\ Len(tx') <= FifoSize + 1
           /\ left' \in 0..n /\ Len(tx') + left' = Len(tx) + n
           /\ n = 0 => tx' = tx /\ left' = 0
           /\ \A m : (\A i \in 1..Len(tx) : tx[i] = m) /\ (n > 0 => to = m)
                       => \A i \in 1..Len(tx') : tx'[i] = m
<1> DEFINE loaded == IF n <= Room THEN n ELSE Room
<1> DEFINE more == [i \in 1..loaded |-> to]
<1>1. tx \in Seq(Requests) /\ Len(tx) \in Nat /\ Room \in Nat /\ Room = FifoSize + 1 - Len(tx)
  BY LenProperties DEF TxTypes, Room
<1>2. loaded \in 0..n /\ loaded <= Room
  BY <1>1
<1>3. tx' = tx \o more /\ left' = n - loaded
  BY DEF Refill
<1>4. more \in Seq(Requests) /\ Len(more) = loaded
  <2>1. \A i \in 1..loaded : to \in Requests
    BY <1>2 DEF Requests
  <2> QED BY <1>2, <2>1
<1> HIDE DEF loaded
<1>5. /\ tx' \in Seq(Requests) /\ Len(tx') = Len(tx) + loaded
      /\ \A i \in 1..Len(tx') : tx'[i] = (IF i <= Len(tx) THEN tx[i] ELSE more[i - Len(tx)])
  BY <1>1, <1>3, <1>4, ConcatProperties
<1>6. n = 0 => tx' = tx
  <2> SUFFICES ASSUME n = 0 PROVE tx' = tx
    OBVIOUS
  <2>1. loaded = 0
    BY <1>2
  <2>2. more = <<>>
    BY <1>4, <2>1, EmptySeq
  <2> QED BY <1>1, <1>3, <2>2, ConcatEmptySeq
<1>7. ASSUME NEW m, \A i \in 1..Len(tx) : tx[i] = m, n > 0 => to = m
      PROVE  \A i \in 1..Len(tx') : tx'[i] = m
  <2> SUFFICES ASSUME NEW i \in 1..Len(tx') PROVE tx'[i] = m
    OBVIOUS
  <2>1. CASE i <= Len(tx)
    BY <1>1, <1>5, <1>7, <2>1
  <2>2. CASE i > Len(tx)
    <3>1. i - Len(tx) \in 1..loaded
      BY <1>1, <1>2, <1>5, <2>2
    <3>2. tx'[i] = more[i - Len(tx)] /\ n > 0
      BY <1>1, <1>2, <1>5, <2>2, <3>1
    <3> QED BY <1>7, <3>1, <3>2
  <2> QED BY <1>1, <1>5, <2>1, <2>2
<1> QED BY <1>1, <1>2, <1>3, <1>5, <1>6, <1>7

-----------------------------------------------------------------------------
(* The service pass. *)

\* Its outcome, taken apart.
LEMMA ServiceOutcome ==
    ASSUME Types, NumberInv, Serviced
    PROVE  /\ fifo' = 0 /\ UNCHANGED <<owner, replyTo>>
           /\ fifo = 0 /\ work = 0 => UNCHANGED <<work, generation, ring>> /\ Refill(replyTo, left)
           /\ fifo = 0 /\ work > 0 => generation' = generation /\ Refill(replyTo, left)
           /\ fifo > 0 /\ work = 0 => generation' = generation + 1 /\ Refill(replyTo, 0)
           /\ fifo > 0 /\ work > 0 => generation' = generation /\ Refill(replyTo, left)
           /\ fifo > 0 \/ work > 0 =>
                \E kept \in {ring, <<>>}, bytes \in 1..MaxTransfer + 1 :
                    /\ work + fifo <= MaxTransfer => bytes = work + fifo
                    /\ fifo > 0 /\ work = 0 /\ ready => kept = <<>>
                    /\ rxBusy => work' = bytes /\ ring' = kept
                    /\ ~rxBusy => work' = 0
                    /\ ~rxBusy /\ bytes <= MaxTransfer =>
                         ring' = Stored(kept, [to |-> newest, len |-> bytes])
                    /\ ~rxBusy /\ bytes > MaxTransfer => ring' = kept
<1> DEFINE begins == fifo > 0 /\ work = 0
           bytes  == IF work + fifo <= MaxTransfer THEN work + fifo ELSE MaxTransfer + 1
           ends   == ~rxBusy /\ bytes > 0
           kept   == IF begins /\ ready THEN <<>> ELSE ring
<1>1. /\ fifo' = 0 /\ UNCHANGED <<owner, replyTo>>
      /\ work' = (IF ends THEN 0 ELSE bytes)
      /\ generation' = (IF begins THEN generation + 1 ELSE generation)
      /\ ring' = (IF ends /\ bytes <= MaxTransfer
                  THEN Stored(kept, [to |-> newest, len |-> bytes]) ELSE kept)
      /\ Refill(replyTo, IF begins THEN 0 ELSE left)
  BY Zenon DEF Serviced
<1>2. fifo \in Nat /\ work \in 0..MaxTransfer + 1 /\ rxBusy \in BOOLEAN
  BY DEF Types, RxTypes, FlagTypes
<1>3. /\ bytes \in 0..MaxTransfer + 1 /\ (bytes = 0 <=> fifo = 0 /\ work = 0)
      /\ work + fifo <= MaxTransfer => bytes = work + fifo
  BY <1>2
<1>4. kept \in {ring, <<>>}
  OBVIOUS
<1>5. CASE fifo = 0 /\ work = 0
  <2>1. ~begins /\ ~ends /\ bytes = 0 /\ kept = ring
    BY <1>3, <1>5
  <2> HIDE DEF begins, bytes, ends, kept
  <2> QED BY <1>1, <1>5, <2>1
<1>6. CASE fifo > 0 \/ work > 0
  <2>1. bytes \in 1..MaxTransfer + 1
    BY <1>2, <1>3, <1>6
  <2>2. ends <=> ~rxBusy
    BY <2>1
  <2>3. begins <=> fifo > 0 /\ work = 0
    OBVIOUS
  <2>4. begins /\ ready => kept = <<>>
    OBVIOUS
  <2> HIDE DEF begins, bytes, ends, kept
  <2>5. /\ work + fifo <= MaxTransfer => bytes = work + fifo
        /\ fifo > 0 /\ work = 0 /\ ready => kept = <<>>
        /\ rxBusy => work' = bytes /\ ring' = kept
        /\ ~rxBusy => work' = 0
        /\ ~rxBusy /\ bytes <= MaxTransfer =>
             ring' = Stored(kept, [to |-> newest, len |-> bytes])
        /\ ~rxBusy /\ bytes > MaxTransfer => ring' = kept
    BY <1>1, <1>3, <2>1, <2>2, <2>3, <2>4
  <2>6. \/ fifo = 0 /\ work > 0 /\ ~begins
        \/ fifo > 0 /\ work = 0 /\ begins
        \/ fifo > 0 /\ work > 0 /\ ~begins
    BY <1>2, <1>6, <2>3
  <2> QED BY <1>1, <1>4, <2>1, <2>5, <2>6
<1> QED BY <1>2, <1>5, <1>6

\* What it leaves is well typed and of requests that are begun.
LEMMA ServiceTypes ==
    ASSUME Types, NumberInv, Serviced, UNCHANGED <<newest, rxBusy>>
    PROVE  /\ RxTypes' /\ TxTypes'
           /\ \A i \in 1..Len(ring') : ring'[i].to <= newest
           /\ left' > 0 => replyTo > 0
           /\ Arriving' => Arriving
<1>0. /\ fifo \in 0..FifoSize /\ work \in 0..MaxTransfer + 1 /\ generation \in Nat /\ owner \in Nat
      /\ owner <= generation /\ ring \in Seq(Records) /\ Len(ring) <= RxSlots
      /\ TxTypes /\ left \in 0..MaxTransfer /\ replyTo \in 0..MaxRequests
      /\ newest \in 0..MaxRequests /\ (left > 0 => replyTo > 0)
      /\ \A i \in 1..Len(ring) : ring[i].to <= newest
  BY DEF Types, RxTypes, TxTypes, BusTypes, NumberInv
<1>1. TxTypes' /\ (left' > 0 => replyTo > 0)
  <2>1. \E n \in {0, left} : Refill(replyTo, n)
    BY <1>0, ServiceOutcome
  <2>2. PICK n \in {0, left} : Refill(replyTo, n)
    BY <2>1
  <2>3. n \in 0..MaxTransfer /\ (n > 0 => replyTo > 0)
    BY <1>0
  <2>4. /\ tx' \in Seq(Requests) /\ Len(tx') <= FifoSize + 1 /\ left' \in 0..n
    BY <1>0, <2>2, <2>3, Refilled
  <2>5. replyTo' = replyTo
    BY ServiceOutcome
  <2> QED BY <1>0, <2>3, <2>4, <2>5 DEF TxTypes
<1>2. /\ ring' \in Seq(Records) /\ Len(ring') <= RxSlots /\ work' \in 0..MaxTransfer + 1
      /\ \A i \in 1..Len(ring') : ring'[i].to <= newest
      /\ work' > 0 => Arriving
  <2>1. CASE fifo = 0 /\ work = 0
    <3>1. ring' = ring /\ work' = work
      BY <2>1, ServiceOutcome
    <3> QED BY <1>0, <3>1 DEF Arriving
  <2>2. CASE fifo > 0 \/ work > 0
    <3>1. PICK kept \in {ring, <<>>}, bytes \in 1..MaxTransfer + 1 :
                    /\ rxBusy => work' = bytes /\ ring' = kept
                    /\ ~rxBusy => work' = 0
                    /\ ~rxBusy /\ bytes <= MaxTransfer =>
                         ring' = Stored(kept, [to |-> newest, len |-> bytes])
                    /\ ~rxBusy /\ bytes > MaxTransfer => ring' = kept
      BY <2>2, ServiceOutcome
    <3>2. work' \in 0..MaxTransfer + 1 /\ (work' > 0 => Arriving)
      BY <2>2, <3>1 DEF Types, FlagTypes, Arriving
    <3>3. /\ kept \in Seq(Records) /\ Len(kept) <= RxSlots
          /\ \A i \in 1..Len(kept) : kept[i].to <= newest
      <4>1. CASE kept = ring
        BY <1>0, <4>1
      <4>2. CASE kept = <<>>
        <5>1. kept \in Seq(Records) /\ Len(kept) = 0
          BY <4>2, EmptyInSeq
        <5> QED BY <1>0, <5>1
      <4> QED BY <3>1, <4>1, <4>2
    <3>4. CASE ring' = kept
      BY <3>2, <3>3, <3>4
    <3>5. CASE bytes <= MaxTransfer /\ ring' = Stored(kept, [to |-> newest, len |-> bytes])
      <4>1. newest > 0
        BY <2>2 DEF NumberInv, Arriving
      <4> DEFINE record == [to |-> newest, len |-> bytes]
      <4>2. record \in Records /\ record.to = newest
        BY <1>0, <3>5, <4>1 DEF Records, Requests
      <4> HIDE DEF record
      <4>3. /\ ring' \in Seq(Records) /\ Len(ring') <= RxSlots
            /\ \A i \in 1..Len(ring') :
                 ring'[i] = record \/ \E j \in 1..Len(kept) : ring'[i] = kept[j]
        <5>1. ring' = Stored(kept, record)
          BY <3>5 DEF record
        <5>2. kept \in Seq(Records) /\ Len(kept) <= RxSlots /\ record \in Records
          BY <3>3, <4>2
        <5> DEFINE stored == Stored(kept, record)
        <5>3. /\ stored \in Seq(Records) /\ Len(stored) <= RxSlots
              /\ \A i \in 1..Len(stored) :
                   stored[i] = record \/ \E j \in 1..Len(kept) : stored[i] = kept[j]
          BY <5>2, StoredRecord, Zenon
        <5> HIDE DEF stored
        <5>4. ring' = stored
          BY <5>1 DEF stored
        <5> QED BY <5>3, <5>4, Zenon
      <4>4. \A i \in 1..Len(ring') : ring'[i].to <= newest
        BY <1>0, <3>3, <4>2, <4>3
      <4> QED BY <3>2, <4>3, <4>4
    <3> QED BY <3>1, <3>4, <3>5 DEF Types, FlagTypes
  <2> QED BY <1>0, <2>1, <2>2
<1>3. fifo' = 0 /\ owner' = owner /\ generation' \in {generation, generation + 1}
  BY <1>0, ServiceOutcome
<1>4. RxTypes'
  BY <1>0, <1>2, <1>3 DEF RxTypes
<1>5. Arriving' => Arriving
  BY <1>2, <1>3 DEF Arriving
<1> QED BY <1>1, <1>2, <1>4, <1>5

\* It carries a sound request on: to the burst, or to the ring when the bus is idle.
LEMMA ServiceFlow ==
    ASSUME Types, BusInv, NumberInv, Flow, long, Serviced, UNCHANGED <<options, bus, request>>,
           Writing' <=> Writing
    PROVE  Flow'
<1>0. /\ fifo \in Nat /\ work \in 0..MaxTransfer + 1 /\ generation \in Nat /\ owner \in Nat
      /\ owner <= generation /\ TxTypes /\ left \in 0..MaxTransfer /\ replyTo \in 0..MaxRequests
      /\ newest \in Nat /\ length \in 1..(MaxTransfer - Prefix) /\ toCome \in Nat
      /\ got \in Nat /\ want \in Int
      /\ rxBusy \in BOOLEAN /\ ready \in BOOLEAN /\ (left > 0 => replyTo > 0)
      /\ toCome > 0 => rxBusy
  BY DEF Types, FlagTypes, BusTypes, RxTypes, TxTypes, BusInv, NumberInv
<1>1. UNCHANGED <<ready, newest, length, toCome, rxBusy, want, got, owner, replyTo>> /\ fifo' = 0
  BY ServiceOutcome DEF options, bus
<1>2. CASE fifo = 0 /\ work = 0
  <2>1. UNCHANGED <<work, generation, ring>> /\ Refill(replyTo, left)
    BY <1>2, ServiceOutcome
  <2>2. (Arriving' <=> Arriving) /\ fifo' = fifo
    BY <1>1, <1>2, <2>1 DEF Arriving
  <2>3. ArrivingInv' /\ ArrivedInv' /\ OlderInv'
    BY <1>1, <2>1, <2>2 DEF Flow, ArrivingInv, ArrivedInv, OlderInv
  <2>4. /\ left' \in 0..left /\ Len(tx') + left' = Len(tx) + left
        /\ left = 0 => tx' = tx /\ left' = 0
        /\ (\A i \in 1..Len(tx) : tx[i] = newest) /\ (left > 0 => replyTo = newest)
             => \A i \in 1..Len(tx') : tx'[i] = newest
    BY <1>0, <2>1, Refilled
  <2>5. UnansweredInv'
    BY <1>1, <2>4 DEF Flow, UnansweredInv
  <2>6. AnsweredInv'
    <3> SUFFICES ASSUME replyTo = newest PROVE AnsweredInv'
      BY <1>1 DEF AnsweredInv
    <3>1. /\ ready /\ ring = <<>> /\ ~Arriving /\ ~Writing
          /\ \A i \in 1..Len(tx) : tx[i] = newest
          /\ got + Len(tx) + left = length + Prefix
          /\ want # -1 => want + got = length + Prefix
      BY DEF Flow, AnsweredInv
    <3>2. Len(tx) \in Nat /\ Len(tx') \in Nat
      <4>1. TxTypes'
        BY <1>1, ServiceTypes
      <4> QED BY <4>1, LenProperties DEF TxTypes
    <3>3. got + Len(tx') + left' = length + Prefix
      <4>1. Len(tx') + left' = Len(tx) + left /\ left' \in 0..left
        BY <2>4
      <4>2. got + Len(tx) + left = length + Prefix
        BY <3>1
      <4>3. got \in Nat /\ left \in Nat
        BY <1>0
      <4> QED BY <3>2, <4>1, <4>2, <4>3
    <3> QED BY <1>1, <2>1, <2>2, <2>4, <3>1, <3>3 DEF AnsweredInv
  <2> QED BY <2>3, <2>5, <2>6 DEF Flow
<1>3. CASE fifo > 0 \/ work > 0
  <2>1. Arriving
    BY <1>3 DEF Arriving
  <2>2. /\ toCome + fifo + work = length /\ replyTo < newest /\ (Writing => request.to < newest)
        /\ \A i \in 1..Len(ring) : ring[i].to < newest
        /\ ready /\ work > 0 => ring = <<>>
    BY <2>1 DEF Flow, ArrivingInv
  <2>3. tx = <<>> /\ left = 0 /\ got = 0 /\ want \in {-1, length + Prefix}
    BY <1>0, <2>2 DEF Flow, UnansweredInv
  <2>4. tx' = tx /\ left' = 0
    <3>1. Refill(replyTo, 0)
      BY <1>0, <1>3, <2>3, ServiceOutcome
    <3>2. 0 \in 0..MaxTransfer
      OBVIOUS
    <3> QED BY <1>0, <3>1, <3>2, Refilled
  <2>5. UnansweredInv' /\ AnsweredInv'
    BY <1>0, <1>1, <2>2, <2>3, <2>4 DEF UnansweredInv, AnsweredInv
  <2>6. /\ fifo > 0 /\ work = 0 => generation' = generation + 1
        /\ work > 0 => generation' = generation
    BY <1>0, ServiceOutcome
  <2>7. OlderInv'
    <3> SUFFICES ASSUME Writing PROVE owner < generation'
      BY <1>1 DEF OlderInv
    <3>1. CASE work = 0
      BY <1>0, <1>3, <2>6, <3>1
    <3>2. CASE work > 0
      BY <1>0, <2>2, <2>6, <3>2 DEF Flow, OlderInv
    <3> QED BY <1>0, <3>1, <3>2
  <2>8. PICK kept \in {ring, <<>>}, bytes \in 1..MaxTransfer + 1 :
                    /\ work + fifo <= MaxTransfer => bytes = work + fifo
                    /\ fifo > 0 /\ work = 0 /\ ready => kept = <<>>
                    /\ rxBusy => work' = bytes /\ ring' = kept
                    /\ ~rxBusy => work' = 0
                    /\ ~rxBusy /\ bytes <= MaxTransfer =>
                         ring' = Stored(kept, [to |-> newest, len |-> bytes])
    BY <1>3, ServiceOutcome
  <2>9. bytes = work + fifo /\ bytes > 0 /\ bytes <= MaxTransfer
    BY <1>0, <1>3, <2>2, <2>8
  <2>10. ready => kept = <<>>
    BY <1>0, <1>3, <2>2, <2>8
  <2>11. CASE rxBusy
    <3>1. Arriving' /\ work' = work + fifo /\ work' > 0 /\ ring' = kept
      BY <1>1, <2>8, <2>9, <2>11 DEF Arriving
    <3>2. toCome' + fifo' + work' = length'
      BY <1>0, <1>1, <2>2, <3>1
    <3>3. \A i \in 1..Len(ring') : ring'[i].to < newest
      <4>1. CASE kept = ring
        BY <2>2, <3>1, <4>1
      <4>2. CASE kept = <<>>
        <5>1. Len(ring') = 0
          BY <3>1, <4>2, EmptyInSeq
        <5> QED BY <5>1
      <4> QED BY <2>8, <4>1, <4>2
    <3>4. ArrivingInv'
      BY <1>1, <2>2, <2>10, <3>1, <3>2, <3>3 DEF ArrivingInv
    <3>5. ArrivedInv'
      BY <3>1 DEF ArrivedInv
    <3> QED BY <2>5, <2>7, <3>4, <3>5 DEF Flow
  <2>12. CASE ~rxBusy
    <3>1. ~Arriving' /\ work' = 0
      BY <1>1, <2>8, <2>12 DEF Arriving
    <3>2. bytes = length
      BY <1>0, <2>2, <2>9, <2>12
    <3>3. ready => ring' = <<[to |-> newest, len |-> length]>>
      <4> SUFFICES ASSUME ready PROVE ring' = <<[to |-> newest, len |-> length]>>
        OBVIOUS
      <4> DEFINE record == [to |-> newest, len |-> length]
      <4>1. ring' = Stored(<<>>, record)
        BY <2>8, <2>9, <2>10, <2>12, <3>2
      <4> HIDE DEF record
      <4>2. Stored(<<>>, record) = <<record>>
        BY EmptyInSeq DEF Stored
      <4> QED BY <4>1, <4>2 DEF record
    <3>4. ArrivingInv'
      BY <3>1 DEF ArrivingInv
    <3>5. ArrivedInv'
      <4>1. Writing' => request'.to < newest'
        BY <1>1, <2>2
      <4>2. newest' = newest /\ length' = length /\ ready' = ready
        BY <1>1
      <4> QED BY <1>0, <3>3, <4>1, <4>2 DEF ArrivedInv, NumberInv, WorkerTypes, Types
    <3> QED BY <2>5, <2>7, <3>4, <3>5 DEF Flow
  <2> QED BY <1>0, <2>11, <2>12
<1> QED BY <1>0, <1>2, <1>3

-----------------------------------------------------------------------------
(* The invariant is inductive. *)

\* Steps that leave the bus and the driver alone.
Calm ==
    /\ UNCHANGED <<options, bus, driver, request, mishaps>>
    /\ Writing' => Writing
    /\ pc \in {"unload", "ended"} => pc' \in {"unload", "ended"}

\* All steps but these are calm.
LEMMA CalmSteps ==
    ASSUME WorkerTypes, [Next]_vars
    PROVE  \/ Calm \/ ReadRecord \/ Write \/ Publish \/ Close \/ ServicePass
           \/ Send \/ SendByte \/ SendStop \/ LongRead \/ LongReadByte \/ OtherRead
<1> USE DEF Calm, Writing, At, worker
<1>1. CASE Open
  BY <1>1 DEF Open
<1>2. CASE Loop
  BY <1>2 DEF Loop
<1>3. CASE ReadNothing
  BY <1>3 DEF ReadNothing
<1>4. CASE Supersede
  BY <1>4 DEF Supersede
<1>5. CASE WriteBusy
  BY <1>5 DEF WriteBusy
<1>6. CASE GiveUp
  BY <1>6 DEF GiveUp
<1>7. CASE DeviceGone
  BY <1>7 DEF DeviceGone
<1>8. CASE Unload
  BY <1>8 DEF Unload
<1>9. CASE Signal
  BY <1>9 DEF Signal
<1>10. CASE Remove
  BY <1>10 DEF Remove
<1>11. CASE UNCHANGED vars
  BY <1>11 DEF vars
<1> QED BY <1>1, <1>2, <1>3, <1>4, <1>5, <1>6, <1>7, <1>8, <1>9, <1>10, <1>11
       DEF Next, WorkerStep, BusStep

\* The Boolean variables and the worker's own.
LEMMA NextWorker ==
    ASSUME FlagTypes, WorkerTypes, RxTypes, [Next]_vars
    PROVE  FlagTypes' /\ WorkerTypes'
<1> USE DEF FlagTypes, WorkerTypes, At, options, bus, driver, worker
<1>1. CASE Open
  BY <1>1 DEF Open
<1>2. CASE Loop
  BY <1>2 DEF Loop
<1>3. CASE ReadNothing
  BY <1>3 DEF ReadNothing
<1>4. CASE ReadRecord
  <2>1. Head(ring) \in Records
    BY <1>4, FirstAndRest DEF ReadRecord, RxTypes
  <2> QED BY <1>4, <2>1 DEF ReadRecord
<1>5. CASE Write
  BY <1>5 DEF Write
<1>6. CASE Publish
  BY <1>6 DEF Publish
<1>7. CASE Supersede
  BY <1>7 DEF Supersede
<1>8. CASE WriteBusy
  BY <1>8 DEF WriteBusy
<1>9. CASE GiveUp
  BY <1>9 DEF GiveUp
<1>10. CASE DeviceGone
  BY <1>10 DEF DeviceGone
<1>11. CASE Close
  BY <1>11 DEF Close
<1>12. CASE Unload
  BY <1>12 DEF Unload
<1>13. CASE Send
  BY <1>13 DEF Send
<1>14. CASE SendByte
  BY <1>14 DEF SendByte
<1>15. CASE SendStop
  BY <1>15 DEF SendStop
<1>16. CASE LongRead
  BY <1>16 DEF LongRead
<1>17. CASE LongReadByte
  BY <1>17 DEF LongReadByte
<1>18. CASE OtherRead
  BY <1>18 DEF OtherRead
<1>19. CASE ServicePass
  BY <1>19 DEF ServicePass
<1>20. CASE Signal
  BY <1>20 DEF Signal
<1>21. CASE Remove
  BY <1>21 DEF Remove
<1>22. CASE UNCHANGED vars
  BY <1>22 DEF vars
<1> QED BY <1>1, <1>2, <1>3, <1>4, <1>5, <1>6, <1>7, <1>8, <1>9, <1>10, <1>11, <1>12, <1>13, <1>14,
           <1>15, <1>16, <1>17, <1>18, <1>19, <1>20, <1>21, <1>22 DEF Next, WorkerStep, BusStep

\* The rest of the invariant.
Rest == BusTypes /\ RxTypes /\ TxTypes /\ BusInv /\ NumberInv /\ SoundInv

\* Calm steps move nothing.
LEMMA CalmKeeps == ASSUME Types, Rest, Calm PROVE Rest'
<1>1. UNCHANGED <<options, bus, driver, request, mishaps>> /\ (Writing' => Writing)
      /\ (pc \in {"unload", "ended"} => pc' \in {"unload", "ended"})
  BY DEF Calm
<1>2. BusTypes' /\ RxTypes' /\ TxTypes'
  BY <1>1 DEF Rest, BusTypes, RxTypes, TxTypes, bus, driver
<1>3. (Arriving' <=> Arriving) /\ BusInv'
  BY <1>1 DEF Rest, BusInv, Arriving, bus, driver
<1>4. NumberInv'
  BY <1>1, <1>3 DEF Rest, NumberInv, bus, driver, options
<1>5. ASSUME Sound' PROVE Flow'
  <2>1. Flow
    BY <1>1, <1>5 DEF Rest, SoundInv, Sound, bus
  <2>2. UNCHANGED <<ready, newest, length, toCome, rxBusy, want, got, fifo, work, ring, generation,
                    owner, tx, left, replyTo, request>>
    BY <1>1 DEF options, bus, driver
  <2>3. ArrivingInv' /\ ArrivedInv' /\ OlderInv'
    BY <1>1, <1>3, <2>1, <2>2 DEF Flow, ArrivingInv, ArrivedInv, OlderInv
  <2>4. UnansweredInv' /\ AnsweredInv'
    BY <1>1, <1>3, <2>1, <2>2 DEF Flow, UnansweredInv, AnsweredInv
  <2> QED BY <2>3, <2>4 DEF Flow
<1> QED BY <1>2, <1>3, <1>4, <1>5 DEF Rest, SoundInv

\* A request begun when the device is at rest.
LEMMA SendKeeps == ASSUME Types, Rest, Send PROVE Rest'
<1>1. PICK n \in Lengths :
        /\ length' = n /\ toCome' = n
        /\ long' \in (IF LongAccepts(n) THEN BOOLEAN ELSE {FALSE})
  BY DEF Send
<1>2. /\ newest' = newest + 1 /\ newest < MaxRequests /\ rxBusy' = TRUE /\ want' = -1 /\ got' = 0
      /\ mishaps' = (IF fifo > 0 \/ work > 0 \/ tx # <<>> \/ left > 0 THEN {"unread"} ELSE {})
      /\ UNCHANGED <<options, dead, driver, worker>>
  BY DEF Send
<1>3. newest \in Nat /\ n \in 1..MaxTransfer + 1
  BY <1>1 DEF Rest, BusTypes, Lengths
<1>4. BusTypes'
  BY <1>1, <1>2, <1>3 DEF Rest, BusTypes, Mishaps
<1>5. RxTypes' /\ TxTypes'
  BY <1>2 DEF Rest, RxTypes, TxTypes, driver
<1>6. BusInv'
  <2>1. long' => n \in 1..(MaxTransfer - Prefix)
    BY <1>1 DEF LongAccepts
  <2> QED BY <1>1, <1>2, <2>1 DEF BusInv
<1>7. NumberInv' /\ \A i \in 1..Len(ring) : ring[i].to < newest'
  <2>1. \A i \in 1..Len(ring) : ring[i].to \in Nat
    <3>1. \A i \in 1..Len(ring) : ring[i] \in Records
      BY ElementOfSeq DEF Rest, RxTypes
    <3> QED BY <3>1 DEF Records, Requests
  <2>2. \A i \in 1..Len(ring) : ring[i].to < newest'
    BY <1>2, <1>3, <2>1 DEF Rest, NumberInv
  <2>3. replyTo \in Nat /\ (Writing => request.to \in Nat)
    BY DEF Rest, TxTypes, NumberInv, Records, Requests
  <2> QED BY <1>2, <1>3, <2>1, <2>2, <2>3 DEF Rest, NumberInv, Arriving, Writing, driver, worker, options
<1>8. ASSUME Sound' PROVE Flow'
  <2>1. ~(fifo > 0) /\ ~(work > 0) /\ tx = <<>> /\ ~(left > 0)
    BY <1>2, <1>8 DEF Sound
  <2>2. fifo = 0 /\ work = 0 /\ left = 0
    BY <2>1 DEF Rest, RxTypes, TxTypes
  <2>3. replyTo \in Nat /\ replyTo <= newest /\ (Writing => request.to \in Nat /\ request.to <= newest)
    BY DEF Rest, TxTypes, NumberInv, Records, Requests
  <2>4. UNCHANGED <<ready, fifo, work, ring, generation, owner, tx, left, replyTo, pc, request>>
    BY <1>2 DEF options, driver, worker
  <2>5. Arriving' /\ replyTo' < newest' /\ (Writing' => request'.to < newest')
    BY <1>2, <1>3, <2>3, <2>4 DEF Arriving, Writing
  <2>6. ArrivingInv'
    BY <1>1, <1>3, <1>7, <2>2, <2>4, <2>5 DEF ArrivingInv
  <2>7. ArrivedInv' /\ OlderInv'
    BY <2>2, <2>4, <2>5 DEF ArrivedInv, OlderInv
  <2>8. UnansweredInv' /\ AnsweredInv'
    BY <1>2, <1>3, <2>1, <2>2, <2>3, <2>4 DEF UnansweredInv, AnsweredInv
  <2> QED BY <2>6, <2>7, <2>8 DEF Flow
<1> QED BY <1>4, <1>5, <1>6, <1>7, <1>8 DEF Rest, SoundInv

\* A byte goes from the bus to the FIFO.
LEMMA SendByteKeeps == ASSUME Types, Rest, SendByte PROVE Rest'
<1>1. /\ rxBusy /\ toCome > 0 /\ toCome' = toCome - 1
      /\ rxBusy' \in BOOLEAN /\ (toCome > 1 => rxBusy')
      /\ \/ fifo < FifoSize /\ fifo' = fifo + 1 /\ mishaps' = mishaps
         \/ mishaps' = mishaps \union {"overrun"} /\ fifo' = fifo
      /\ UNCHANGED <<ready, receiveOnly, newest, length, long, want, got, work, ring, generation,
                     owner, tx, left, replyTo, pc, request>>
  BY DEF SendByte, options, worker
<1>2. /\ toCome \in 0..MaxTransfer + 1 /\ fifo \in 0..FifoSize /\ work \in Nat /\ length \in Nat
      /\ newest \in Nat
  BY DEF Rest, BusTypes, RxTypes
<1>3. BusTypes' /\ RxTypes' /\ TxTypes'
  <2>1. mishaps' \subseteq Mishaps
    BY <1>1 DEF Rest, BusTypes, Mishaps
  <2>2. toCome' \in 0..MaxTransfer + 1 /\ fifo' \in 0..FifoSize
    BY <1>1, <1>2
  <2> QED BY <1>1, <2>1, <2>2 DEF Rest, BusTypes, RxTypes, TxTypes
<1>4. BusInv'
  BY <1>1, <1>2 DEF Rest, BusInv
<1>5. Arriving
  BY <1>1 DEF Arriving
<1>6. NumberInv'
  BY <1>1, <1>5 DEF Rest, NumberInv, Writing
<1>7. ASSUME Sound' PROVE Flow'
  <2>1. mishaps = {} /\ fifo' = fifo + 1 /\ Flow
    BY <1>1, <1>7 DEF Rest, SoundInv, Sound
  <2>2. toCome + fifo + work = length /\ replyTo < newest
    BY <1>5, <2>1 DEF Flow, ArrivingInv
  <2>3. Arriving' /\ toCome' + fifo' + work' = length'
    BY <1>1, <1>2, <2>1, <2>2 DEF Arriving
  <2>4. ArrivingInv' /\ ArrivedInv'
    BY <1>1, <1>5, <2>1, <2>3 DEF Flow, ArrivingInv, ArrivedInv, Writing
  <2>5. OlderInv'
    BY <1>1, <1>5, <2>1, <2>3 DEF Flow, OlderInv, Writing
  <2>6. UnansweredInv' /\ AnsweredInv'
    <3>1. replyTo \in Nat
      BY DEF Rest, TxTypes
    <3> QED BY <1>1, <1>2, <2>1, <2>2, <3>1 DEF Flow, UnansweredInv, AnsweredInv
  <2> QED BY <2>4, <2>5, <2>6 DEF Flow
<1> QED BY <1>3, <1>4, <1>6, <1>7 DEF Rest, SoundInv

\* The STOP.
LEMMA SendStopKeeps == ASSUME Types, Rest, SendStop PROVE Rest'
<1>1. /\ rxBusy /\ toCome = 0 /\ rxBusy' = FALSE
      /\ UNCHANGED <<ready, receiveOnly, newest, length, toCome, long, want, got, fifo, work, ring,
                     generation, owner, tx, left, replyTo, pc, request, mishaps>>
  BY DEF SendStop, options, driver, worker
<1>2. BusTypes' /\ RxTypes' /\ TxTypes'
  BY <1>1 DEF Rest, BusTypes, RxTypes, TxTypes
<1>3. BusInv'
  BY <1>1 DEF Rest, BusInv
<1>4. Arriving
  BY <1>1 DEF Arriving
<1>5. NumberInv'
  BY <1>1, <1>4 DEF Rest, NumberInv, Writing
<1>6. ASSUME Sound' PROVE Flow'
  <2>1. Flow /\ length > 0
    BY <1>1, <1>6 DEF Rest, SoundInv, Sound, BusInv
  <2>2. fifo + work = length /\ replyTo < newest /\ (Writing => request.to < newest)
    BY <1>1, <1>4, <2>1 DEF Flow, ArrivingInv, Rest, RxTypes
  <2>3. Arriving' /\ (work = 0 => fifo > 0)
    BY <1>1, <2>1, <2>2 DEF Arriving, Rest, RxTypes
  <2>4. ArrivingInv' /\ ArrivedInv'
    BY <1>1, <1>4, <2>1, <2>3 DEF Flow, ArrivingInv, ArrivedInv, Writing
  <2>5. OlderInv'
    BY <1>1, <1>4, <2>1, <2>3 DEF Flow, OlderInv, Writing
  <2>6. UnansweredInv' /\ AnsweredInv'
    <3>1. replyTo # newest
      BY <2>2 DEF Rest, TxTypes, BusTypes
    <3> QED BY <1>1, <2>1, <3>1 DEF Flow, UnansweredInv, AnsweredInv
  <2> QED BY <2>4, <2>5, <2>6 DEF Flow
<1> QED BY <1>2, <1>3, <1>5, <1>6 DEF Rest, SoundInv

\* controller-long starts to read.
LEMMA LongReadKeeps == ASSUME Types, Rest, LongRead PROVE Rest'
<1>1. /\ ~rxBusy /\ long /\ want = -1 /\ want' = length + Prefix
      /\ UNCHANGED <<ready, receiveOnly, newest, length, toCome, rxBusy, long, got, fifo, work, ring,
                     generation, owner, tx, left, replyTo, pc, request, mishaps>>
  BY DEF LongRead, options, driver, worker
<1>2. length \in 1..(MaxTransfer - Prefix) /\ got = 0
  BY <1>1 DEF Rest, BusInv
<1>3. BusTypes' /\ RxTypes' /\ TxTypes' /\ BusInv'
  BY <1>1, <1>2 DEF Rest, BusTypes, RxTypes, TxTypes, BusInv
<1>4. (Arriving' <=> Arriving) /\ (Writing' <=> Writing)
  BY <1>1 DEF Arriving, Writing
<1>5. NumberInv'
  BY <1>1, <1>4 DEF Rest, NumberInv
<1>6. ASSUME Sound' PROVE Flow'
  <2>1. Flow
    BY <1>1, <1>6 DEF Rest, SoundInv, Sound
  <2>2. ArrivingInv' /\ ArrivedInv' /\ OlderInv'
    BY <1>1, <1>4, <2>1 DEF Flow, ArrivingInv, ArrivedInv, OlderInv
  <2>3. UnansweredInv' /\ AnsweredInv'
    BY <1>1, <1>2, <1>4, <2>1 DEF Flow, UnansweredInv, AnsweredInv
  <2> QED BY <2>2, <2>3 DEF Flow
<1> QED BY <1>3, <1>5, <1>6 DEF Rest, SoundInv

\* The byte in front of a reply is read.
LEMMA ByteTaken ==
    ASSUME TxTypes, tx # <<>>, tx' = Tail(tx), UNCHANGED <<left, replyTo>>
    PROVE  TxTypes' /\ Len(tx) \in Nat /\ Len(tx') = Len(tx) - 1
<1>1. Tail(tx) \in Seq(Requests) /\ Len(Tail(tx)) = Len(tx) - 1 /\ Len(tx) \in Nat
  BY FirstAndRest DEF TxTypes
<1> QED BY <1>1 DEF TxTypes

\* A byte of controller-long's read: of its reply, or a mishap.
LEMMA LongReadByteKeeps == ASSUME Types, Rest, LongReadByte PROVE Rest'
<1>1. /\ want > 0 /\ want' = want - 1
      /\ UNCHANGED <<ready, receiveOnly, newest, length, toCome, rxBusy, long, fifo, work, ring,
                     generation, owner, left, replyTo, pc, request>>
  BY DEF LongReadByte, options, worker
<1>2. /\ tx # <<>> => /\ got' = (IF Head(tx) = newest THEN got + 1 ELSE got)
                      /\ tx' = Tail(tx) /\ mishaps' = mishaps
      /\ tx = <<>> =>
           /\ mishaps' = mishaps \union (IF replyTo # newest THEN {"early"}
                                         ELSE IF left > 0 THEN {"starved"} ELSE {})
           /\ UNCHANGED <<got, tx>>
  BY DEF LongReadByte
<1>3. /\ want \in -1..MaxTransfer /\ got \in 0..MaxTransfer /\ want > 0
      /\ got + want <= MaxTransfer /\ long /\ ~rxBusy
  BY <1>1 DEF Types, FlagTypes, Rest, BusTypes, BusInv
<1>4. got' \in {got, got + 1} /\ mishaps' \subseteq Mishaps
  <2>1. mishaps \subseteq Mishaps
    BY DEF Rest, BusTypes
  <2> QED BY <1>2, <2>1 DEF Mishaps
<1>5. BusTypes'
  BY <1>1, <1>3, <1>4 DEF Rest, BusTypes
<1>6. RxTypes'
  BY <1>1 DEF Rest, RxTypes
<1>7. TxTypes'
  <2>1. CASE tx = <<>>
    BY <1>1, <1>2, <2>1 DEF Rest, TxTypes
  <2>2. CASE tx # <<>>
    BY <1>1, <1>2, <2>2, ByteTaken DEF Rest
  <2> QED BY <2>1, <2>2
<1>8. BusInv'
  <2>1. want' # -1 /\ got' + want' <= MaxTransfer
    <3>1. want' = want - 1
      BY <1>1
    <3>2. want \in Int /\ got \in Int /\ want > 0 /\ got + want <= MaxTransfer
      BY <1>3
    <3>3. got' = got \/ got' = got + 1
      BY <1>4
    <3> QED BY <3>1, <3>2, <3>3
  <2> QED BY <1>1, <1>3, <2>1 DEF Rest, BusInv
<1>9. (Arriving' <=> Arriving) /\ (Writing' <=> Writing)
  BY <1>1 DEF Arriving, Writing
<1>10. NumberInv'
  BY <1>1, <1>9 DEF Rest, NumberInv
<1>11. ASSUME Sound' PROVE Flow'
  <2>1. mishaps = {} /\ Flow
    BY <1>1, <1>2, <1>11 DEF Rest, SoundInv, Sound
  <2>2. replyTo = newest
    <3> SUFFICES ASSUME replyTo # newest PROVE FALSE
      OBVIOUS
    <3>1. tx = <<>>
      BY <2>1 DEF Flow, UnansweredInv
    <3>2. "early" \in mishaps'
      BY <1>2, <3>1
    <3> QED BY <1>11, <3>2 DEF Sound
  <2>3. /\ ready /\ ring = <<>> /\ ~Arriving /\ ~Writing
        /\ \A i \in 1..Len(tx) : tx[i] = newest
        /\ got + Len(tx) + left = length + Prefix
        /\ want # -1 => want + got = length + Prefix
    BY <2>1, <2>2 DEF Flow, AnsweredInv
  <2>4. left \in Nat /\ length \in Nat /\ tx \in Seq(Requests)
    BY DEF Rest, TxTypes, BusTypes
  <2>5. tx # <<>>
    <3> SUFFICES ASSUME tx = <<>> PROVE FALSE
      OBVIOUS
    <3>1. ~(left > 0)
      <4> SUFFICES ASSUME left > 0 PROVE FALSE
        OBVIOUS
      <4>1. "starved" \in mishaps'
        BY <1>2, <2>2
      <4> QED BY <1>11, <4>1 DEF Sound
    <3>2. left = 0 /\ Len(tx) = 0
      BY <2>4, <3>1, EmptyInSeq
    <3> QED BY <1>3, <2>3, <2>4, <3>2
  <2>6. /\ Head(tx) = newest /\ Len(tx') = Len(tx) - 1 /\ Len(tx) \in Nat
        /\ \A i \in 1..Len(tx') : tx'[i] = newest
    <3>1. /\ Head(tx) = tx[1] /\ Len(tx) \in Nat \ {0} /\ Len(Tail(tx)) = Len(tx) - 1
          /\ \A i \in 1..Len(Tail(tx)) : Tail(tx)[i] = tx[i + 1]
      BY <2>4, <2>5, FirstAndRest
    <3>2. tx' = Tail(tx)
      BY <1>2, <2>5
    <3> QED BY <2>3, <3>1, <3>2
  <2>7. got' = got + 1
    BY <1>2, <2>5, <2>6
  <2>8. got' + Len(tx') + left' = length' + Prefix
    <3>1. got + Len(tx) + left = length + Prefix /\ got \in Nat /\ left \in Nat
      BY <1>3, <2>3, <2>4
    <3>2. Len(tx) \in Nat /\ Len(tx') = Len(tx) - 1 /\ got' = got + 1
      BY <2>6, <2>7
    <3> QED BY <1>1, <3>1, <3>2
  <2>9. want' + got' = length' + Prefix
    BY <1>1, <1>3, <2>3, <2>4, <2>7
  <2>10. AnsweredInv' /\ UnansweredInv'
    BY <1>1, <1>9, <2>2, <2>3, <2>6, <2>8, <2>9 DEF AnsweredInv, UnansweredInv
  <2>11. ArrivingInv' /\ ArrivedInv' /\ OlderInv'
    BY <1>1, <1>9, <2>1 DEF Flow, ArrivingInv, ArrivedInv, OlderInv
  <2> QED BY <2>10, <2>11 DEF Flow
<1> QED BY <1>5, <1>6, <1>7, <1>8, <1>10, <1>11 DEF Rest, SoundInv

\* A byte of anybody else's read: a mishap, unless controller-long is done.
LEMMA OtherReadKeeps == ASSUME Types, Rest, LongReadsEcho, OtherRead PROVE Rest'
<1>1. /\ tx # <<>> /\ tx' = Tail(tx) /\ want <= 0
      /\ mishaps' = (IF want = -1 THEN mishaps \union {"stolen"} ELSE mishaps)
      /\ UNCHANGED <<ready, receiveOnly, newest, length, toCome, rxBusy, long, want, got, fifo, work,
                     ring, generation, owner, left, replyTo, pc, request>>
  BY DEF OtherRead, options, bus, worker
<1>2. BusTypes' /\ RxTypes' /\ TxTypes'
  <2>1. mishaps' \subseteq Mishaps
    BY <1>1 DEF Rest, BusTypes, Mishaps
  <2>2. TxTypes'
    BY <1>1, ByteTaken DEF Rest
  <2> QED BY <1>1, <2>1, <2>2 DEF Rest, BusTypes, RxTypes
<1>3. BusInv'
  BY <1>1 DEF Rest, BusInv
<1>4. (Arriving' <=> Arriving) /\ (Writing' <=> Writing)
  BY <1>1 DEF Arriving, Writing
<1>5. NumberInv'
  BY <1>1, <1>4 DEF Rest, NumberInv
<1>6. ~Sound'
  <2> SUFFICES ASSUME mishaps' = {} PROVE FALSE
    BY DEF Sound
  <2>1. want = 0 /\ mishaps = {}
    BY <1>1 DEF Rest, BusTypes
  <2> QED BY <1>1, <2>1 DEF LongReadsEcho, EchoRead
<1> QED BY <1>2, <1>3, <1>5, <1>6 DEF Rest, SoundInv

\* The worker takes the oldest record: the sound request's, or an older one before its
\* first byte is drained.
LEMMA ReadRecordKeeps == ASSUME Types, Rest, ReadRecord PROVE Rest'
<1>1. /\ ring # <<>> /\ ring' = Tail(ring) /\ owner' = generation /\ request' = Head(ring)
      /\ pc = "read" /\ pc' = (IF receiveOnly THEN "loop" ELSE "write")
      /\ UNCHANGED <<ready, receiveOnly, bus, fifo, work, generation, tx, left, replyTo, mishaps>>
  BY DEF ReadRecord, At, options
<1>2. /\ Head(ring) = ring[1] /\ Head(ring) \in Records /\ Tail(ring) \in Seq(Records)
      /\ Len(ring) \in Nat \ {0} /\ Len(Tail(ring)) = Len(ring) - 1
      /\ \A i \in 1..Len(Tail(ring)) : Tail(ring)[i] = ring[i + 1]
      /\ \A x : ring = <<x>> => Head(ring) = x /\ Tail(ring) = <<>>
  BY <1>1, FirstAndRest DEF Rest, RxTypes
<1>3. BusTypes' /\ TxTypes' /\ BusInv'
  BY <1>1 DEF Rest, BusTypes, TxTypes, BusInv, bus
<1>4. RxTypes'
  BY <1>1, <1>2 DEF Rest, RxTypes
<1>5. (Arriving' <=> Arriving) /\ (Writing' <=> ~receiveOnly) /\ ~Writing
  BY <1>1 DEF Arriving, Writing, bus
<1>6. NumberInv'
  <2>1. \A i \in 1..Len(ring) : ring[i].to <= newest
    BY DEF Rest, NumberInv
  <2>2. (\A i \in 1..Len(ring') : ring'[i].to <= newest) /\ request'.to <= newest
    BY <1>1, <1>2, <2>1
  <2>3. ~receiveOnly => ready
    BY DEF Types, FlagTypes
  <2> QED BY <1>1, <1>2, <1>5, <2>2, <2>3 DEF Rest, NumberInv, bus
<1>7. ASSUME Sound' PROVE Flow'
  <2>1. Flow
    BY <1>1, <1>7 DEF Rest, SoundInv, Sound, bus
  <2>2. UNCHANGED <<newest, length, toCome, rxBusy, want, got>>
    BY <1>1 DEF bus
  <2>3. replyTo # newest
    BY <1>1, <2>1 DEF Flow, AnsweredInv
  <2>4. UnansweredInv' /\ AnsweredInv'
    BY <1>1, <2>1, <2>2, <2>3 DEF Flow, UnansweredInv, AnsweredInv
  <2>5. CASE Arriving
    <3>1. /\ toCome + fifo + work = length /\ replyTo < newest
          /\ \A i \in 1..Len(ring) : ring[i].to < newest
          /\ ready /\ work > 0 => ring = <<>>
      BY <2>1, <2>5 DEF Flow, ArrivingInv
    <3>2. (\A i \in 1..Len(ring') : ring'[i].to < newest) /\ request'.to < newest
      BY <1>1, <1>2, <3>1
    <3>3. ready => ~(work > 0)
      BY <1>1, <3>1
    <3>4. ArrivingInv'
      BY <1>1, <2>2, <3>1, <3>2, <3>3 DEF ArrivingInv
    <3>5. ArrivedInv'
      BY <1>5, <2>5 DEF ArrivedInv
    <3>6. OlderInv'
      <4>1. ready => work = 0
        BY <3>3 DEF Rest, RxTypes
      <4>2. ~receiveOnly => ready
        BY DEF Types, FlagTypes
      <4> QED BY <1>1, <1>5, <2>5, <4>1, <4>2 DEF OlderInv
    <3> QED BY <2>4, <3>4, <3>5, <3>6 DEF Flow
  <2>6. CASE ~Arriving
    <3>1. ready => ring = <<[to |-> newest, len |-> length]>>
      BY <1>1, <2>1, <2>6 DEF Flow, ArrivedInv
    <3>2. ready => ring' = <<>> /\ request' = [to |-> newest, len |-> length]
      BY <1>1, <1>2, <3>1
    <3>3. Writing' => ready /\ request'.to = newest' /\ request'.len = length'
      BY <1>5, <2>2, <3>2 DEF Types, FlagTypes
    <3>4. ArrivingInv'
      BY <1>5, <2>6 DEF ArrivingInv
    <3>5. ArrivedInv'
      BY <1>1, <3>2, <3>3 DEF ArrivedInv
    <3>6. OlderInv'
      BY <2>2, <3>3 DEF OlderInv, Rest, BusTypes
    <3> QED BY <2>4, <3>4, <3>5, <3>6 DEF Flow
  <2> QED BY <2>5, <2>6
<1> QED BY <1>3, <1>4, <1>6, <1>7 DEF Rest, SoundInv

\* A service pass of the interrupt, the timer or the worker's own write.
LEMMA ServiceKeeps == ASSUME Types, Rest, ServicePass \/ Write PROVE Rest'
<1>1. Serviced /\ UNCHANGED <<options, bus, request, mishaps>>
  BY DEF ServicePass, Write, worker, At
<1>2. Writing' <=> Writing
  BY DEF ServicePass, Write, worker, At, Writing
<1>3. UNCHANGED <<newest, rxBusy, replyTo>>
  BY <1>1, ServiceOutcome DEF bus, Rest
<1>4. BusTypes' /\ BusInv'
  BY <1>1 DEF Rest, BusTypes, BusInv, bus
<1>5. /\ RxTypes' /\ TxTypes' /\ (left' > 0 => replyTo > 0) /\ (Arriving' => Arriving)
      /\ \A i \in 1..Len(ring') : ring'[i].to <= newest
  BY <1>1, <1>3, ServiceTypes DEF Rest
<1>6. NumberInv'
  BY <1>1, <1>2, <1>3, <1>5 DEF Rest, NumberInv, options
<1>7. ASSUME Sound' PROVE Flow'
  <2>1. long /\ mishaps = {} /\ pc \notin {"unload", "ended"}
    BY <1>1, <1>7 DEF Sound, bus, ServicePass, Write, Listening, At
  <2> QED BY <1>1, <1>2, <2>1, ServiceFlow DEF Rest, SoundInv, Sound
<1> QED BY <1>4, <1>5, <1>6, <1>7 DEF Rest, SoundInv

\* What the echo of a message of controller-long is.
LEMMA EchoedFits ==
    ASSUME NEW n \in Nat
    PROVE  /\ Prefix + Echoed(n) \in 1..MaxTransfer
           /\ n <= MaxTransfer - Prefix => Echoed(n) = n
  BY DEF Echoed

\* The reply is published: an older request's would be a mishap of the sound one.
LEMMA PublishKeeps == ASSUME Types, Rest, Publish PROVE Rest'
<1>1. /\ owner = generation /\ work = 0 /\ ~rxBusy /\ pc = "publish" /\ pc' = "loop"
      /\ replyTo' = request.to /\ Refill(request.to, Prefix + Echoed(request.len))
      /\ mishaps' = (IF fifo > 0 THEN mishaps \union {"overtaken"} ELSE mishaps)
      /\ UNCHANGED <<ready, receiveOnly, bus, fifo, work, ring, generation, owner, request>>
  BY DEF Publish, StillOwned, At, options
<1>2. Writing /\ ~Writing' /\ (Arriving' <=> Arriving)
  BY <1>1 DEF Writing, Arriving, bus
<1>3. /\ request \in Records /\ request.to \in Requests /\ request.len \in Nat /\ ready
      /\ request.to <= newest
  BY <1>2 DEF Rest, NumberInv, Records
<1> DEFINE n == Prefix + Echoed(request.len)
<1>4. n \in 1..MaxTransfer /\ request.to \in 0..MaxRequests /\ request.to > 0
  BY <1>3, EchoedFits DEF Requests
<1> HIDE DEF n
<1>5. Refill(request.to, n)
  BY <1>1 DEF n
<1>6. /\ tx' \in Seq(Requests) /\ Len(tx') <= FifoSize + 1 /\ left' \in 0..n
      /\ Len(tx') + left' = Len(tx) + n
      /\ (\A i \in 1..Len(tx) : tx[i] = request.to) => \A i \in 1..Len(tx') : tx'[i] = request.to
  <2>1. n \in 0..MaxTransfer /\ (n > 0 => request.to > 0) /\ TxTypes
    BY <1>4 DEF Rest
  <2>2. /\ tx' \in Seq(Requests) /\ Len(tx') <= FifoSize + 1 /\ left' \in 0..n
        /\ Len(tx') + left' = Len(tx) + n
        /\ \A m : (\A i \in 1..Len(tx) : tx[i] = m) /\ (n > 0 => request.to = m)
                    => \A i \in 1..Len(tx') : tx'[i] = m
    BY <1>4, <1>5, <2>1, Refilled
  <2> QED BY <2>2
<1>7. BusTypes' /\ RxTypes' /\ TxTypes' /\ BusInv'
  <2>1. mishaps' \subseteq Mishaps
    BY <1>1 DEF Rest, BusTypes, Mishaps
  <2>2. TxTypes'
    BY <1>1, <1>4, <1>6 DEF TxTypes
  <2> QED BY <1>1, <2>1, <2>2 DEF Rest, BusTypes, RxTypes, BusInv, bus
<1>8. NumberInv'
  BY <1>1, <1>2, <1>3, <1>4 DEF Rest, NumberInv, bus
<1>9. ASSUME Sound' PROVE Flow'
  <2>1. mishaps = {} /\ ~(fifo > 0)
    BY <1>1, <1>9 DEF Sound
  <2>2. Flow /\ length \in 1..(MaxTransfer - Prefix)
    BY <1>1, <1>9, <2>1 DEF Rest, SoundInv, Sound, BusInv, bus
  <2>3. ~Arriving
    BY <1>1, <2>1 DEF Arriving
  <2>4. request.to = newest
    <3> SUFFICES ASSUME request.to # newest PROVE FALSE
      OBVIOUS
    <3>1. request.to < newest
      BY <1>3 DEF Requests, Rest, BusTypes
    <3>2. owner < generation
      BY <1>2, <2>2, <2>3, <3>1 DEF Flow, OlderInv
    <3> QED BY <1>1, <3>2 DEF Rest, RxTypes
  <2>5. ring = <<>> /\ request.len = length
    BY <1>2, <2>2, <2>3, <2>4 DEF Flow, ArrivedInv
  <2>6. n = length + Prefix
    BY <2>2, <2>5, EchoedFits DEF n
  <2>7. replyTo # newest
    BY <1>2, <2>2 DEF Flow, AnsweredInv
  <2>8. tx = <<>> /\ left = 0 /\ got = 0 /\ want \in {-1, length + Prefix}
    BY <2>2, <2>7 DEF Flow, UnansweredInv
  <2>9. Len(tx) = 0
    BY <2>8, EmptyInSeq
  <2>10. UNCHANGED <<newest, length, want, got>>
    BY <1>1 DEF bus
  <2>11. got' + Len(tx') + left' = length' + Prefix
    <3>1. Len(tx') \in Nat /\ left' \in Nat
      BY <1>4, <1>6, LenProperties
    <3> QED BY <1>6, <2>2, <2>6, <2>8, <2>9, <2>10, <3>1
  <2>12. \A i \in 1..Len(tx') : tx'[i] = newest'
    BY <1>6, <2>4, <2>9, <2>10
  <2>13. want' # -1 => want' + got' = length' + Prefix
    BY <2>2, <2>8, <2>10
  <2>14. AnsweredInv' /\ UnansweredInv'
    BY <1>1, <1>2, <1>3, <2>3, <2>4, <2>5, <2>10, <2>11, <2>12, <2>13
    DEF AnsweredInv, UnansweredInv
  <2>15. ArrivingInv' /\ ArrivedInv' /\ OlderInv'
    BY <1>1, <1>2, <2>3, <2>5 DEF ArrivingInv, ArrivedInv, OlderInv
  <2> QED BY <2>14, <2>15 DEF Flow
<1> QED BY <1>7, <1>8, <1>9 DEF Rest, SoundInv

\* The session ends.
LEMMA CloseKeeps == ASSUME Types, Rest, Close PROVE Rest'
<1>1. /\ pc' = "unload" /\ rxBusy' = FALSE /\ toCome' = 0 /\ work' = 0 /\ ring' = <<>> /\ left' = 0
      /\ UNCHANGED <<options, newest, length, long, want, got, fifo, generation, owner, tx, replyTo,
                     request, mishaps>>
  BY DEF Close, At
<1>2. <<>> \in Seq(Records) /\ Len(<<>>) = 0
  BY EmptyInSeq
<1>3. BusTypes' /\ RxTypes' /\ TxTypes' /\ BusInv'
  BY <1>1, <1>2 DEF Rest, BusTypes, RxTypes, TxTypes, BusInv
<1>4. NumberInv'
  <2>1. \A i \in 1..Len(ring') : ring'[i].to <= newest'
    BY <1>1, <1>2
  <2>2. ~Writing' /\ (Arriving' => Arriving)
    BY <1>1 DEF Writing, Arriving
  <2> QED BY <1>1, <2>1, <2>2 DEF Rest, NumberInv
<1>5. ~Sound'
  BY <1>1 DEF Sound
<1> QED BY <1>3, <1>4, <1>5 DEF Rest, SoundInv

\* Every step keeps it.
LEMMA NextRest == ASSUME Types, Rest, LongReadsEcho, [Next]_vars PROVE Rest'
  BY CalmSteps, CalmKeeps, SendKeeps, SendByteKeeps, SendStopKeeps, LongReadKeeps,
     LongReadByteKeeps, OtherReadKeeps, ReadRecordKeeps, ServiceKeeps, PublishKeeps, CloseKeeps
  DEF Types

\* In a sound request's flow the read ends with the whole reply.
LEMMA FlowEnds == Types /\ BusInv /\ SoundInv /\ Sound /\ want = 0 => EchoRead
<1> SUFFICES ASSUME Types, BusInv, SoundInv, Sound, want = 0 PROVE EchoRead
  OBVIOUS
<1>1. /\ length \in 1..(MaxTransfer - Prefix) /\ Flow /\ tx \in Seq(Requests) /\ Len(tx) \in Nat
      /\ left \in Nat /\ got \in Nat
  BY LenProperties DEF Types, TxTypes, BusTypes, BusInv, SoundInv, Sound
<1>2. replyTo = newest
  BY <1>1 DEF Flow, UnansweredInv
<1>3. got + Len(tx) + left = length + Prefix /\ want + got = length + Prefix
  BY <1>2, <1>1 DEF Flow, AnsweredInv
<1>4. got = length + Prefix /\ Len(tx) = 0 /\ left = 0
  BY <1>1, <1>3
<1>5. tx = <<>>
  BY <1>1, <1>4, EmptySeq
<1> QED BY <1>4, <1>5 DEF EchoRead

\* Where there is no sound request any more, what controller-long has read stays read.
LEMMA NextEcho == ASSUME IInv, Types', Rest', [Next]_vars PROVE LongReadsEcho'
<1> SUFFICES ASSUME want' = 0, mishaps' = {} PROVE EchoRead'
  BY DEF LongReadsEcho
<1>1. long'
  BY DEF Rest, BusInv
<1>2. CASE Sound'
  <2>1. (Types /\ BusInv /\ SoundInv /\ Sound /\ want = 0 => EchoRead)'
    BY FlowEnds, PTL
  <2> QED BY <1>2, <2>1 DEF Rest
<1>3. CASE ~Sound'
  <2>1. pc' \in {"unload", "ended"}
    BY <1>1, <1>3 DEF Sound
  <2>2. Calm \/ Close
    BY <2>1, CalmSteps DEF IInv, Types, ReadRecord, Write, Publish, ServicePass, Listening, Send,
       SendByte, SendStop, LongRead, LongReadByte, OtherRead, At, worker
  <2>3. UNCHANGED <<length, want, got, tx, mishaps>> /\ left' \in {left, 0}
    BY <2>2 DEF Calm, Close, bus, driver
  <2> QED BY <2>3 DEF IInv, LongReadsEcho, EchoRead
<1> QED BY <1>2, <1>3

\* The initial states satisfy the invariant.
LEMMA InitInv == Init => IInv
<1> SUFFICES ASSUME Init PROVE IInv
  OBVIOUS
<1>1. <<>> \in Seq(Records) /\ <<>> \in Seq(Requests) /\ Len(<<>>) = 0
  BY EmptyInSeq
<1>2. FlagTypes
  BY Zenon DEF Init, FlagTypes
<1>3. BusTypes /\ RxTypes /\ TxTypes /\ WorkerTypes
  BY <1>1 DEF Init, BusTypes, RxTypes, TxTypes, WorkerTypes, Mishaps
<1>4. BusInv /\ SoundInv /\ LongReadsEcho
  BY DEF Init, BusInv, SoundInv, Sound, LongReadsEcho
<1>5. NumberInv
  BY <1>1 DEF Init, NumberInv, Arriving, Writing
<1> QED BY <1>2, <1>3, <1>4, <1>5 DEF IInv, Types

\* The invariant holds throughout.
THEOREM Invariant == Spec => []IInv
<1>1. ASSUME IInv, [Next]_vars PROVE IInv'
  <2>1. Rest'
    BY <1>1, NextRest DEF IInv, Rest, Types
  <2>2. Types'
    BY <1>1, <2>1, NextWorker DEF IInv, Rest, Types
  <2>3. LongReadsEcho'
    BY <1>1, <2>1, <2>2, NextEcho
  <2> QED BY <2>1, <2>2, <2>3 DEF IInv, Rest
<1> QED BY InitInv, <1>1, PTL DEF Spec

-----------------------------------------------------------------------------
(* The properties that follow from the invariant. *)

\* Every variable keeps its type: the ring, the FIFOs and the counters stay within bounds.
THEOREM TypeCorrect == Spec => []TypeOK
<1>1. IInv => TypeOK
  BY TypeParts DEF IInv
<1> QED BY Invariant, <1>1, PTL

\* controller-long's read_exact meets the echo of its own message to the last byte, whatever
\* requests came before and whatever the worker was doing, unless a mishap befell it:
\* it wrote over an exchange that was not over, the FIFO overran, the driver published over
\* its unread message, it read too early or too fast, or somebody else read its reply.
THEOREM LongGetsEcho == Spec => []LongReadsEcho
<1>1. IInv => LongReadsEcho
  BY DEF IInv
<1> QED BY Invariant, <1>1, PTL
=============================================================================
