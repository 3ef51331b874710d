----------------------------- MODULE RxRingProofs -----------------------------
(***************************************************************************)
(* The receive ring with its wrapping indices is the numbered queue of     *)
(* NewestWinsQueue, loses no count of a record and no wake-up, for every   *)
(* number of slots, with and without READY.                                *)
(***************************************************************************)
EXTENDS RxRing, Integers, TLAPS

USE ReadyGpioAssumption, RxSlotsAssumption, BoundsAssumption

\* An index at most one round ahead, brought back into the ring.
Wrapped(n) == IF n < RxSlots THEN n ELSE n - RxSlots

\* TypeOK in two parts: Boolean variables, and the others.
FlagTypes == burst \in BOOLEAN /\ open \in BOOLEAN /\ dead \in BOOLEAN /\ wakeDue \in BOOLEAN

DataTypes ==
    /\ rxSlots \in [0..RxSlots - 1 -> 0..MaxRecords]
    /\ rxHead \in 0..RxSlots - 1 /\ rxTail \in 0..RxSlots - 1 /\ rxCount \in 0..RxSlots
    /\ rxTransactions \in Nat /\ rxDropped \in Nat
    /\ reader \in {"idle", "check", "asleep", "lock"}
    /\ lastRecord \in 0..MaxRecords /\ got \in 0..MaxRecords
    /\ delivered \in Nat /\ lost \in Nat /\ failed \in Nat

\* The ring holds the newest records, in order; with READY at most one, and none while a
\* burst is being received.
RingInv ==
    /\ rxTail = Wrapped(rxHead + rxCount)
    /\ rxCount <= lastRecord
    /\ \A i \in 0..rxCount - 1 : rxSlots[Wrapped(rxHead + i)] = lastRecord + 1 - rxCount + i
    /\ ReadyGpio => rxCount <= 1 /\ (burst => rxCount = 0)

\* Every record is counted, and every call of read() that has begun may still fail.
CountInv ==
    /\ rxTransactions = lastRecord /\ RecordsAccounted
    /\ failed <= MaxCalls /\ (reader # "idle" => failed < MaxCalls)

IInv == FlagTypes /\ DataTypes /\ RingInv /\ CountInv /\ NoLostWakeup

-----------------------------------------------------------------------------
(* What steps do to the ring. *)

\* The ring is left alone; a burst that begins over it finds none with READY.
RingSame ==
    /\ UNCHANGED <<rxSlots, rxHead, rxTail, rxCount, lastRecord, got>>
    /\ burst' => burst \/ (ReadyGpio => rxCount = 0)

\* The ring is emptied.
RingEmptied ==
    /\ rxHead' = 0 /\ rxTail' = 0 /\ rxCount' = 0
    /\ UNCHANGED <<rxSlots, lastRecord, got>>

\* The remainder of an index at most one round ahead.
LEMMA Wrap ==
    ASSUME NEW n \in 0..2 * RxSlots - 1
    PROVE  n % RxSlots = Wrapped(n) /\ Wrapped(n) \in 0..RxSlots - 1
<1>1. RxSlots \in Nat \ {0}
  OBVIOUS
<1> HIDE RxSlotsAssumption, BoundsAssumption, ReadyGpioAssumption
<1>2. n % RxSlots = (IF n < RxSlots THEN n ELSE n - RxSlots)
  BY <1>1
<1> QED BY <1>1, <1>2 DEF Wrapped

\* The next index.
LEMMA AfterWraps ==
    ASSUME NEW index \in 0..RxSlots - 1
    PROVE  /\ After(index) = Wrapped(index + 1)
           /\ After(index) \in 0..RxSlots - 1
<1>1. index + 1 \in 0..2 * RxSlots - 1
  OBVIOUS
<1>2. (index + 1) % RxSlots = Wrapped(index + 1) /\ Wrapped(index + 1) \in 0..RxSlots - 1
  BY <1>1, Wrap
<1> QED BY <1>2, Zenon DEF After

\* A record joins the ring, leaves it, or the ring is left alone or emptied.
LEMMA RingSteps ==
    ASSUME DataTypes, [Next]_vars
    PROVE  RingSame \/ RingEmptied \/ FinishRecord \/ \E f \in BOOLEAN : ReadTake(f)
<1> USE DEF vars, ringVars, stats, deviceVars, histVars, ReadFails, ResetIo
<1>1. CASE FirstByte
  <2>1. CASE ReadyGpio /\ rxCount > 0
    BY <1>1, <2>1 DEF FirstByte, Supersede, RingEmptied
  <2>2. CASE ~(ReadyGpio /\ rxCount > 0)
    <3>1. UNCHANGED <<rxSlots, rxHead, rxTail, rxCount, lastRecord, got>>
      BY <1>1, <2>2 DEF FirstByte
    <3>2. ReadyGpio => rxCount = 0
      BY <2>2 DEF DataTypes
    <3> QED BY <3>1, <3>2 DEF RingSame
  <2> QED BY <2>1, <2>2
<1>2. CASE FinishRecord
  BY <1>2
<1>3. CASE FinishOverflowed
  BY <1>3 DEF FinishOverflowed, RingSame
<1>4. CASE ReadCall
  BY <1>4 DEF ReadCall, RingSame
<1>5. CASE ReadFindsDead
  BY <1>5 DEF ReadFindsDead, RingSame
<1>6. CASE ReadSeesRecord
  BY <1>6 DEF ReadSeesRecord, RingSame
<1>7. CASE ReadWouldBlock
  BY <1>7 DEF ReadWouldBlock, RingSame
<1>8. CASE ReadSleeps
  BY <1>8 DEF ReadSleeps, RingSame
<1>9. CASE ReadInterrupted
  BY <1>9 DEF ReadInterrupted, RingSame
<1>10. CASE ReadRetries
  BY <1>10 DEF ReadRetries, RingSame
<1>11. CASE ReadTooSmall
  BY <1>11 DEF ReadTooSmall, RingSame
<1>12. CASE Open
  BY <1>12 DEF Open, RingEmptied
<1>13. CASE Close
  BY <1>13 DEF Close, RingEmptied, RingSame
<1>14. CASE Remove
  BY <1>14 DEF Remove, RingEmptied, RingSame
<1>15. CASE RemoveWakes
  BY <1>15 DEF RemoveWakes, RingSame
<1>16. ASSUME NEW fault \in BOOLEAN, ReadTake(fault)
       PROVE  RingSame \/ RingEmptied \/ FinishRecord \/ \E f \in BOOLEAN : ReadTake(f)
  BY <1>16
<1>17. CASE UNCHANGED vars
  BY <1>17 DEF RingSame
<1> QED BY <1>1, <1>2, <1>3, <1>4, <1>5, <1>6, <1>7, <1>8, <1>9, <1>10, <1>11, <1>12, <1>13,
           <1>14, <1>15, <1>16, <1>17 DEF Next, Receive, ReadRuns

-----------------------------------------------------------------------------
(* The invariant is inductive. *)

\* Boolean variables stay Boolean.
LEMMA NextFlags ==
    ASSUME FlagTypes, [Next]_vars
    PROVE  FlagTypes'
<1> USE DEF FlagTypes, vars, ringVars, stats, deviceVars, histVars, ReadFails, ResetIo
<1>1. CASE FirstByte
  BY <1>1 DEF FirstByte, Supersede, Active
<1>2. CASE FinishRecord
  BY <1>2 DEF FinishRecord, Wake, MakeRoom, Active
<1>3. CASE FinishOverflowed
  BY <1>3 DEF FinishOverflowed, Active
<1>4. CASE ReadCall
  BY <1>4 DEF ReadCall
<1>5. CASE ReadFindsDead
  BY <1>5 DEF ReadFindsDead
<1>6. CASE ReadSeesRecord
  BY <1>6 DEF ReadSeesRecord
<1>7. CASE ReadWouldBlock
  BY <1>7 DEF ReadWouldBlock
<1>8. CASE ReadSleeps
  BY <1>8 DEF ReadSleeps
<1>9. CASE ReadInterrupted
  BY <1>9 DEF ReadInterrupted
<1>10. CASE ReadRetries
  BY <1>10 DEF ReadRetries, StillThere
<1>11. CASE ReadTooSmall
  BY <1>11 DEF ReadTooSmall, StillThere
<1>12. CASE Open
  BY <1>12 DEF Open
<1>13. CASE Close
  BY <1>13 DEF Close
<1>14. CASE Remove
  BY <1>14 DEF Remove
<1>15. CASE RemoveWakes
  BY <1>15 DEF RemoveWakes, Wake
<1>16. ASSUME NEW fault \in BOOLEAN, ReadTake(fault) PROVE FlagTypes'
  BY <1>16 DEF ReadTake, StillThere
<1>17. CASE UNCHANGED vars
  BY <1>17
<1> QED BY <1>1, <1>2, <1>3, <1>4, <1>5, <1>6, <1>7, <1>8, <1>9, <1>10, <1>11, <1>12, <1>13,
           <1>14, <1>15, <1>16, <1>17 DEF Next, Receive, ReadRuns

\* The others keep their types.
LEMMA NextData ==
    ASSUME DataTypes, [Next]_vars
    PROVE  DataTypes'
<1> USE DEF DataTypes, vars, ringVars, stats, deviceVars, histVars, ReadFails, ResetIo
<1>1. CASE FirstByte
  BY <1>1 DEF FirstByte, Supersede, Active
<1>2. CASE FinishRecord
  <2>1. After(rxHead) \in 0..RxSlots - 1 /\ After(rxTail) \in 0..RxSlots - 1
    BY AfterWraps
  <2>2. lastRecord' = lastRecord + 1 /\ lastRecord' \in 0..MaxRecords /\ rxTransactions' \in Nat
    BY <1>2 DEF FinishRecord
  <2>3. rxSlots' = [rxSlots EXCEPT ![rxTail] = lastRecord']
    BY <1>2 DEF FinishRecord
  <2>4. rxSlots' \in [0..RxSlots - 1 -> 0..MaxRecords]
    BY <2>2, <2>3
  <2>5. rxHead' \in 0..RxSlots - 1 /\ rxCount' \in 0..RxSlots /\ rxDropped' \in Nat
    <3>1. \/ rxHead' = After(rxHead) /\ rxDropped' = rxDropped + 1 /\ rxCount' = rxCount
          \/ /\ rxHead' = rxHead /\ rxDropped' = rxDropped
             /\ rxCount < RxSlots /\ rxCount' = rxCount + 1
      BY <1>2 DEF FinishRecord, MakeRoom
    <3>2. rxHead' \in 0..RxSlots - 1
      BY <2>1, <3>1
    <3>3. rxCount' \in 0..RxSlots
      BY <3>1
    <3>4. rxDropped' \in Nat
      BY <3>1
    <3> QED BY <3>2, <3>3, <3>4
  <2>6. rxTail' \in 0..RxSlots - 1
    BY <1>2, <2>1 DEF FinishRecord
  <2>7. reader' \in {"idle", "check", "asleep", "lock"}
    BY <1>2 DEF FinishRecord, Wake
  <2>8. UNCHANGED <<got, delivered, lost, failed>>
    BY <1>2 DEF FinishRecord
  <2> QED BY <2>2, <2>4, <2>5, <2>6, <2>7, <2>8
<1>3. CASE FinishOverflowed
  BY <1>3 DEF FinishOverflowed, Active
<1>4. CASE ReadCall
  BY <1>4 DEF ReadCall
<1>5. CASE ReadFindsDead
  BY <1>5 DEF ReadFindsDead
<1>6. CASE ReadSeesRecord
  BY <1>6 DEF ReadSeesRecord
<1>7. CASE ReadWouldBlock
  BY <1>7 DEF ReadWouldBlock
<1>8. CASE ReadSleeps
  BY <1>8 DEF ReadSleeps
<1>9. CASE ReadInterrupted
  BY <1>9 DEF ReadInterrupted
<1>10. CASE ReadRetries
  BY <1>10 DEF ReadRetries, StillThere
<1>11. CASE ReadTooSmall
  BY <1>11 DEF ReadTooSmall, StillThere
<1>12. CASE Open
  BY <1>12 DEF Open
<1>13. CASE Close
  <2>1. rxHead' \in {rxHead, 0} /\ rxTail' \in {rxTail, 0} /\ rxCount' \in {rxCount, 0}
    BY <1>13 DEF Close
  <2>2. lost' \in {lost, lost + rxCount}
    BY <1>13 DEF Close
  <2>3. UNCHANGED <<rxSlots, rxTransactions, rxDropped, reader, lastRecord, got, delivered,
                  failed>>
    BY <1>13 DEF Close
  <2> QED BY <2>1, <2>2, <2>3
<1>14. CASE Remove
  <2>1. rxHead' \in {rxHead, 0} /\ rxTail' \in {rxTail, 0} /\ rxCount' \in {rxCount, 0}
    BY <1>14 DEF Remove
  <2>2. lost' \in {lost, lost + rxCount}
    BY <1>14 DEF Remove
  <2>3. UNCHANGED <<rxSlots, rxTransactions, rxDropped, reader, lastRecord, got, delivered,
                  failed>>
    BY <1>14 DEF Remove
  <2> QED BY <2>1, <2>2, <2>3
<1>15. CASE RemoveWakes
  BY <1>15 DEF RemoveWakes, Wake
<1>16. ASSUME NEW fault \in BOOLEAN, ReadTake(fault) PROVE DataTypes'
  <2>1. After(rxHead) \in 0..RxSlots - 1
    BY AfterWraps
  <2>2. rxHead' \in 0..RxSlots - 1 /\ rxCount' \in 0..RxSlots
    BY <1>16, <2>1 DEF ReadTake, StillThere
  <2>3. got' \in 0..MaxRecords
    BY <1>16 DEF ReadTake
  <2>4. delivered' \in Nat /\ lost' \in Nat /\ failed' \in Nat
    BY <1>16 DEF ReadTake
  <2>5. reader' = "idle" /\ UNCHANGED <<rxSlots, rxTail, rxTransactions, rxDropped, lastRecord>>
    BY <1>16 DEF ReadTake
  <2> QED BY <2>2, <2>3, <2>4, <2>5
<1>17. CASE UNCHANGED vars
  BY <1>17
<1> QED BY <1>1, <1>2, <1>3, <1>4, <1>5, <1>6, <1>7, <1>8, <1>9, <1>10, <1>11, <1>12, <1>13,
           <1>14, <1>15, <1>16, <1>17 DEF Next, Receive, ReadRuns

\* The indices go round with the records.
LEMMA NextRing ==
    ASSUME FlagTypes, DataTypes, RingInv, [Next]_vars
    PROVE  RingInv'
<1> USE DEF RingInv, DataTypes
<1>1. CASE RingSame
  <2>1. UNCHANGED <<rxSlots, rxHead, rxTail, rxCount, lastRecord>>
    BY <1>1 DEF RingSame
  <2>2. ReadyGpio => (burst' => rxCount = 0)
    BY <1>1 DEF RingSame
  <2> QED BY <2>1, <2>2 DEF Wrapped
<1>2. CASE RingEmptied
  BY <1>2 DEF RingEmptied, Wrapped
<1>3. CASE FinishRecord
  <2>1. /\ burst /\ ~burst' /\ lastRecord' = lastRecord + 1 /\ rxTail' = After(rxTail)
        /\ rxSlots' = [rxSlots EXCEPT ![rxTail] = lastRecord + 1]
    BY <1>3 DEF FinishRecord, FlagTypes
  <2>2. After(rxTail) = Wrapped(rxTail + 1) /\ After(rxHead) = Wrapped(rxHead + 1)
    BY AfterWraps
  <2>3. CASE rxCount < RxSlots
    <3>1. rxHead' = rxHead /\ rxCount' = rxCount + 1
      BY <1>3, <2>3 DEF FinishRecord, MakeRoom
    <3>2. Wrapped(rxTail + 1) = Wrapped(rxHead + rxCount + 1)
      BY <2>3 DEF Wrapped
    <3>3. (rxTail = Wrapped(rxHead + rxCount))'
      BY <2>1, <2>2, <3>1, <3>2 DEF Wrapped
    <3>4. ASSUME NEW i \in 0..rxCount
          PROVE  rxSlots'[Wrapped(rxHead + i)] = lastRecord + 1 - rxCount + i
      <4>1. CASE i = rxCount
        BY <2>1, <4>1
      <4>2. CASE i < rxCount
        <5>1. Wrapped(rxHead + i) # rxTail /\ Wrapped(rxHead + i) \in 0..RxSlots - 1
          BY <2>3, <4>2 DEF Wrapped
        <5>2. i \in 0..rxCount - 1
          BY <4>2
        <5>3. rxSlots[Wrapped(rxHead + i)] = lastRecord + 1 - rxCount + i
          BY <5>2
        <5> QED BY <2>1, <5>1, <5>3
      <4> QED BY <4>1, <4>2
    <3>5. (\A i \in 0..rxCount - 1 :
              rxSlots[Wrapped(rxHead + i)] = lastRecord + 1 - rxCount + i)'
      <4>1. \A i \in 0..rxCount' - 1 :
                rxSlots'[Wrapped(rxHead + i)] = lastRecord' + 1 - rxCount' + i
        <5>1. rxCount' - 1 = rxCount /\ lastRecord' + 1 - rxCount' = lastRecord + 1 - rxCount
          BY <2>1, <3>1
        <5> QED BY <3>4, <5>1
      <4> QED BY <3>1, <4>1 DEF Wrapped
    <3> QED BY <2>1, <3>1, <3>3, <3>5
  <2>4. CASE rxCount = RxSlots
    <3>1. rxHead' = Wrapped(rxHead + 1) /\ rxCount' = rxCount
      BY <1>3, <2>2, <2>4 DEF FinishRecord, MakeRoom
    <3>2. rxTail = rxHead
      BY <2>4 DEF Wrapped
    <3>3. (rxTail = Wrapped(rxHead + rxCount))'
      BY <2>1, <2>2, <2>4, <3>1, <3>2 DEF Wrapped
    <3>4. ASSUME NEW i \in 0..rxCount - 1
          PROVE  rxSlots'[Wrapped(rxHead' + i)] = lastRecord + 2 - rxCount + i
      <4>1. CASE i = RxSlots - 1
        <5>1. Wrapped(rxHead' + i) = rxTail
          BY <3>1, <3>2, <4>1 DEF Wrapped
        <5> QED BY <2>1, <2>4, <4>1, <5>1
      <4>2. CASE i < RxSlots - 1
        <5>1. i + 1 \in 0..rxCount - 1
          BY <2>4, <4>2
        <5>2. /\ Wrapped(rxHead' + i) = Wrapped(rxHead + (i + 1))
              /\ Wrapped(rxHead + (i + 1)) # rxTail
              /\ Wrapped(rxHead + (i + 1)) \in 0..RxSlots - 1
          BY <3>1, <3>2, <4>2 DEF Wrapped
        <5>3. rxSlots[Wrapped(rxHead + (i + 1))] = lastRecord + 1 - rxCount + (i + 1)
          BY <5>1
        <5> QED BY <2>1, <5>2, <5>3
      <4> QED BY <2>4, <4>1, <4>2
    <3>5. (\A i \in 0..rxCount - 1 :
              rxSlots[Wrapped(rxHead + i)] = lastRecord + 1 - rxCount + i)'
      <4>1. \A i \in 0..rxCount' - 1 :
                rxSlots'[Wrapped(rxHead' + i)] = lastRecord' + 1 - rxCount' + i
        <5>1. rxCount' = rxCount /\ lastRecord' + 1 - rxCount' = lastRecord + 2 - rxCount
          BY <2>1, <3>1
        <5> QED BY <3>4, <5>1
      <4> QED BY <4>1 DEF Wrapped
    <3> QED BY <2>1, <3>1, <3>3, <3>5
  <2> QED BY <2>3, <2>4
<1>4. ASSUME NEW fault \in BOOLEAN, ReadTake(fault) PROVE RingInv'
  <2>1. /\ rxCount > 0 /\ rxHead' = After(rxHead) /\ rxCount' = rxCount - 1
        /\ UNCHANGED <<rxSlots, rxTail, burst, lastRecord>>
    BY <1>4 DEF ReadTake, StillThere
  <2>2. rxHead' = Wrapped(rxHead + 1)
    BY <2>1, AfterWraps
  <2>3. (rxTail = Wrapped(rxHead + rxCount))'
    BY <2>1, <2>2 DEF Wrapped
  <2>4. ASSUME NEW i \in 0..rxCount - 2
        PROVE  rxSlots[Wrapped(rxHead' + i)] = lastRecord + 2 - rxCount + i
    <3>1. i + 1 \in 0..rxCount - 1
      BY <2>1
    <3>2. Wrapped(rxHead' + i) = Wrapped(rxHead + (i + 1))
      BY <2>1, <2>2, <3>1 DEF Wrapped
    <3>3. rxSlots[Wrapped(rxHead + (i + 1))] = lastRecord + 1 - rxCount + (i + 1)
      BY <3>1
    <3> QED BY <3>2, <3>3
  <2>5. (\A i \in 0..rxCount - 1 :
            rxSlots[Wrapped(rxHead + i)] = lastRecord + 1 - rxCount + i)'
    BY <2>1, <2>4 DEF Wrapped
  <2> QED BY <2>1, <2>3, <2>5
<1> QED BY <1>1, <1>2, <1>3, <1>4, RingSteps

\* Every record stays counted.
LEMMA NextCount ==
    ASSUME DataTypes, CountInv, [Next]_vars
    PROVE  CountInv'
<1> USE DEF vars, ringVars, stats, deviceVars, histVars, ReadFails, ResetIo
<1>0. /\ rxTransactions \in Nat /\ rxDropped \in Nat /\ rxCount \in Nat /\ delivered \in Nat
      /\ lost \in Nat /\ failed \in Nat /\ lastRecord \in Nat /\ MaxCalls \in Nat
  BY DEF DataTypes
<1>1. CASE FirstByte
  <2>1. UNCHANGED <<rxTransactions, delivered, lost, lastRecord, failed, reader>>
    BY <1>1 DEF FirstByte
  <2>2. \/ rxDropped' = rxDropped + rxCount /\ rxCount' = 0
        \/ UNCHANGED <<rxDropped, rxCount>>
    BY <1>1 DEF FirstByte, Supersede
  <2>7. RecordsAccounted'
    BY <1>0, <2>1, <2>2 DEF CountInv, RecordsAccounted
  <2>8. (failed <= MaxCalls)' /\ (reader # "idle" => failed < MaxCalls)'
    BY <1>0, <2>1, <2>2 DEF CountInv
  <2> QED BY <2>1, <2>2, <2>7, <2>8 DEF CountInv
<1>2. CASE FinishRecord
  <2>1. rxTransactions' = rxTransactions + 1 /\ lastRecord' = lastRecord + 1
        /\ UNCHANGED <<delivered, lost, failed>>
    BY <1>2 DEF FinishRecord
  <2>2. \/ rxDropped' = rxDropped + 1 /\ rxCount' = rxCount
        \/ rxDropped' = rxDropped /\ rxCount' = rxCount + 1
    BY <1>2 DEF FinishRecord, MakeRoom
  <2>3. reader' # "idle" => reader # "idle"
    BY <1>2 DEF FinishRecord, Wake
  <2>7. RecordsAccounted'
    BY <1>0, <2>1, <2>2, <2>3 DEF CountInv, RecordsAccounted
  <2>8. (failed <= MaxCalls)' /\ (reader # "idle" => failed < MaxCalls)'
    BY <1>0, <2>1, <2>2, <2>3 DEF CountInv
  <2> QED BY <2>1, <2>2, <2>3, <2>7, <2>8 DEF CountInv
<1>3. CASE FinishOverflowed
  BY <1>3 DEF FinishOverflowed, CountInv, RecordsAccounted, Active
<1>4. CASE ReadCall
  BY <1>4 DEF ReadCall, CountInv, RecordsAccounted
<1>5. CASE ReadFindsDead
  <2>1. reader # "idle" /\ reader' = "idle" /\ failed' = failed + 1
        /\ UNCHANGED <<rxTransactions, rxDropped, rxCount, delivered, lost, lastRecord>>
    BY <1>5 DEF ReadFindsDead
  <2>7. RecordsAccounted'
    BY <1>0, <2>1 DEF CountInv, RecordsAccounted
  <2>8. (failed <= MaxCalls)' /\ (reader # "idle" => failed < MaxCalls)'
    BY <1>0, <2>1 DEF CountInv
  <2> QED BY <2>1, <2>7, <2>8 DEF CountInv
<1>6. CASE ReadSeesRecord
  BY <1>6 DEF ReadSeesRecord, CountInv, RecordsAccounted
<1>7. CASE ReadWouldBlock
  <2>1. reader # "idle" /\ reader' = "idle" /\ failed' = failed + 1
        /\ UNCHANGED <<rxTransactions, rxDropped, rxCount, delivered, lost, lastRecord>>
    BY <1>7 DEF ReadWouldBlock
  <2>7. RecordsAccounted'
    BY <1>0, <2>1 DEF CountInv, RecordsAccounted
  <2>8. (failed <= MaxCalls)' /\ (reader # "idle" => failed < MaxCalls)'
    BY <1>0, <2>1 DEF CountInv
  <2> QED BY <2>1, <2>7, <2>8 DEF CountInv
<1>8. CASE ReadSleeps
  BY <1>8 DEF ReadSleeps, CountInv, RecordsAccounted
<1>9. CASE ReadInterrupted
  <2>1. reader # "idle" /\ reader' = "idle" /\ failed' = failed + 1
        /\ UNCHANGED <<rxTransactions, rxDropped, rxCount, delivered, lost, lastRecord>>
    BY <1>9 DEF ReadInterrupted
  <2>7. RecordsAccounted'
    BY <1>0, <2>1 DEF CountInv, RecordsAccounted
  <2>8. (failed <= MaxCalls)' /\ (reader # "idle" => failed < MaxCalls)'
    BY <1>0, <2>1 DEF CountInv
  <2> QED BY <2>1, <2>7, <2>8 DEF CountInv
<1>10. CASE ReadRetries
  BY <1>10 DEF ReadRetries, CountInv, RecordsAccounted, StillThere
<1>11. CASE ReadTooSmall
  <2>1. reader # "idle" /\ reader' = "idle" /\ failed' = failed + 1
        /\ UNCHANGED <<rxTransactions, rxDropped, rxCount, delivered, lost, lastRecord>>
    BY <1>11 DEF ReadTooSmall
  <2>7. RecordsAccounted'
    BY <1>0, <2>1 DEF CountInv, RecordsAccounted
  <2>8. (failed <= MaxCalls)' /\ (reader # "idle" => failed < MaxCalls)'
    BY <1>0, <2>1 DEF CountInv
  <2> QED BY <2>1, <2>7, <2>8 DEF CountInv
<1>12. CASE Open
  <2>1. rxCount' = 0 /\ lost' = lost + rxCount
        /\ UNCHANGED <<rxTransactions, rxDropped, lastRecord, delivered, failed>>
    BY <1>12 DEF Open
  <2>2. reader' = reader
    BY <1>12 DEF Open
  <2>7. RecordsAccounted'
    BY <1>0, <2>1, <2>2 DEF CountInv, RecordsAccounted
  <2>8. (failed <= MaxCalls)' /\ (reader # "idle" => failed < MaxCalls)'
    BY <1>0, <2>1, <2>2 DEF CountInv
  <2> QED BY <2>1, <2>2, <2>7, <2>8 DEF CountInv
<1>13. CASE Close
  <2>1. \/ rxCount' = 0 /\ lost' = lost + rxCount
        \/ UNCHANGED <<rxCount, lost>>
    BY <1>13 DEF Close
  <2>2. UNCHANGED <<rxTransactions, rxDropped, lastRecord, delivered, failed, reader>>
    BY <1>13 DEF Close
  <2>7. RecordsAccounted'
    BY <1>0, <2>1, <2>2 DEF CountInv, RecordsAccounted
  <2>8. (failed <= MaxCalls)' /\ (reader # "idle" => failed < MaxCalls)'
    BY <1>0, <2>1, <2>2 DEF CountInv
  <2> QED BY <2>1, <2>2, <2>7, <2>8 DEF CountInv
<1>14. CASE Remove
  <2>1. \/ rxCount' = 0 /\ lost' = lost + rxCount
        \/ UNCHANGED <<rxCount, lost>>
    BY <1>14 DEF Remove
  <2>2. UNCHANGED <<rxTransactions, rxDropped, lastRecord, delivered, failed, reader>>
    BY <1>14 DEF Remove
  <2>7. RecordsAccounted'
    BY <1>0, <2>1, <2>2 DEF CountInv, RecordsAccounted
  <2>8. (failed <= MaxCalls)' /\ (reader # "idle" => failed < MaxCalls)'
    BY <1>0, <2>1, <2>2 DEF CountInv
  <2> QED BY <2>1, <2>2, <2>7, <2>8 DEF CountInv
<1>15. CASE RemoveWakes
  BY <1>15 DEF RemoveWakes, CountInv, RecordsAccounted, Wake
<1>16. ASSUME NEW fault \in BOOLEAN, ReadTake(fault) PROVE CountInv'
  <2>1. /\ rxCount > 0 /\ rxCount' = rxCount - 1 /\ reader = "lock" /\ reader' = "idle"
        /\ UNCHANGED <<rxTransactions, rxDropped, lastRecord>>
    BY <1>16 DEF ReadTake, StillThere
  <2>2. \/ delivered' = delivered + 1 /\ UNCHANGED <<lost, failed>>
        \/ lost' = lost + 1 /\ failed' = failed + 1 /\ UNCHANGED delivered
    BY <1>16 DEF ReadTake
  <2>7. RecordsAccounted'
    BY <1>0, <2>1, <2>2 DEF CountInv, RecordsAccounted
  <2>8. (failed <= MaxCalls)' /\ (reader # "idle" => failed < MaxCalls)'
    BY <1>0, <2>1, <2>2 DEF CountInv
  <2> QED BY <2>1, <2>2, <2>7, <2>8 DEF CountInv
<1>17. CASE UNCHANGED vars
  BY <1>17 DEF CountInv, RecordsAccounted
<1> QED BY <1>1, <1>2, <1>3, <1>4, <1>5, <1>6, <1>7, <1>8, <1>9, <1>10, <1>11, <1>12, <1>13,
           <1>14, <1>15, <1>16, <1>17 DEF Next, Receive, ReadRuns

\* No wake-up is lost.
LEMMA NextWakeup ==
    ASSUME FlagTypes, DataTypes, NoLostWakeup, [Next]_vars
    PROVE  NoLostWakeup'
<1> USE DEF FlagTypes, DataTypes, NoLostWakeup, vars, ringVars, stats, deviceVars, histVars,
            ReadFails, ResetIo
<1>1. CASE FirstByte
  BY <1>1 DEF FirstByte, Supersede, Active
<1>2. CASE FinishRecord
  BY <1>2 DEF FinishRecord, Wake, MakeRoom, Active
<1>3. CASE FinishOverflowed
  BY <1>3 DEF FinishOverflowed, Active
<1>4. CASE ReadCall
  BY <1>4 DEF ReadCall
<1>5. CASE ReadFindsDead
  BY <1>5 DEF ReadFindsDead
<1>6. CASE ReadSeesRecord
  BY <1>6 DEF ReadSeesRecord
<1>7. CASE ReadWouldBlock
  BY <1>7 DEF ReadWouldBlock
<1>8. CASE ReadSleeps
  BY <1>8 DEF ReadSleeps
<1>9. CASE ReadInterrupted
  BY <1>9 DEF ReadInterrupted
<1>10. CASE ReadRetries
  BY <1>10 DEF ReadRetries, StillThere
<1>11. CASE ReadTooSmall
  BY <1>11 DEF ReadTooSmall, StillThere
<1>12. CASE Open
  BY <1>12 DEF Open
<1>13. CASE Close
  BY <1>13 DEF Close
<1>14. CASE Remove
  BY <1>14 DEF Remove
<1>15. CASE RemoveWakes
  BY <1>15 DEF RemoveWakes, Wake
<1>16. ASSUME NEW fault \in BOOLEAN, ReadTake(fault) PROVE NoLostWakeup'
  BY <1>16 DEF ReadTake, StillThere
<1>17. CASE UNCHANGED vars
  BY <1>17
<1> QED BY <1>1, <1>2, <1>3, <1>4, <1>5, <1>6, <1>7, <1>8, <1>9, <1>10, <1>11, <1>12, <1>13,
           <1>14, <1>15, <1>16, <1>17 DEF Next, Receive, ReadRuns

\* The invariant holds initially.
LEMMA InitInv == Init => IInv
<1> SUFFICES ASSUME Init PROVE IInv
  OBVIOUS
<1> USE DEF Init
<1>1. FlagTypes
  BY DEF FlagTypes
<1>2. DataTypes
  BY DEF DataTypes
<1>3. RingInv
  BY DEF RingInv, Wrapped
<1>4. RecordsAccounted
  BY DEF RecordsAccounted
<1>5. CountInv
  BY <1>4 DEF CountInv
<1>6. NoLostWakeup
  BY DEF NoLostWakeup
<1> QED BY <1>1, <1>2, <1>3, <1>5, <1>6 DEF IInv

\* The invariant holds throughout: the indices of struct bsc_target, its counters and
\* the sleeping reader agree between any two steps of the driver.
THEOREM Invariant == Spec => []IInv
<1>1. IInv /\ [Next]_vars => IInv'
  BY NextFlags, NextData, NextRing, NextCount, NextWakeup DEF IInv
<1> QED BY InitInv, <1>1, PTL DEF Spec

-----------------------------------------------------------------------------
(* The properties that follow from the invariant. *)

\* Every variable of the ring, of its counters and of read() keeps its type: the indices
\* stay inside rx_slots[], and no counter passes the number of records.
THEOREM TypeCorrect == Spec => []TypeOK
<1>1. IInv => TypeOK
  <2> SUFFICES ASSUME IInv PROVE TypeOK
    OBVIOUS
  <2>1. FlagTypes /\ DataTypes
    BY DEF IInv
  <2>2. /\ rxDropped \in Nat /\ rxCount \in Nat /\ delivered \in Nat /\ lost \in Nat
        /\ rxTransactions \in Nat /\ lastRecord \in 0..MaxRecords
    BY <2>1 DEF DataTypes
  <2>3. rxTransactions = lastRecord /\ rxTransactions = rxDropped + rxCount + delivered + lost
    BY DEF IInv, CountInv, RecordsAccounted
  <2>4. rxTransactions \in 0..MaxRecords
    BY <2>2, <2>3
  <2>5. rxDropped \in 0..MaxRecords /\ delivered \in 0..MaxRecords /\ lost \in 0..MaxRecords
    <3>1. rxDropped <= rxTransactions /\ delivered <= rxTransactions /\ lost <= rxTransactions
      BY <2>2, <2>3
    <3> QED BY <2>2, <2>4, <3>1
  <2>6. failed \in Nat /\ failed <= MaxCalls
    BY <2>1 DEF DataTypes, IInv, CountInv
  <2>7. failed \in 0..MaxCalls
    BY <2>6
  <2> QED BY <2>1, <2>4, <2>5, <2>7 DEF FlagTypes, DataTypes, TypeOK
<1> QED BY Invariant, <1>1, PTL

\* bsc_finish_rx_locked, the supersession, read() and the resets together lose count of no
\* record.
THEOREM NoRecordUncounted == Spec => []RecordsAccounted
<1>1. IInv => RecordsAccounted
  BY DEF IInv, CountInv
<1> QED BY Invariant, <1>1, PTL

\* A read() never sleeps beside a record, nor on a removed device whose wake-up is past.
THEOREM NoWakeupLost == Spec => []NoLostWakeup
<1>1. IInv => NoLostWakeup
  BY DEF IInv
<1> QED BY Invariant, <1>1, PTL

\* Head, tail and count describe one ring whatever the number of slots.
THEOREM OneRing == Spec => []RingShape
<1>1. IInv => RingShape
  <2> SUFFICES ASSUME IInv PROVE RingShape
    OBVIOUS
  <2>1. rxTail = Wrapped(rxHead + rxCount)
    BY DEF IInv, RingInv
  <2>2. rxHead + rxCount \in 0..2 * RxSlots - 1
    BY DEF IInv, DataTypes
  <2>3. (rxHead + rxCount) % RxSlots = Wrapped(rxHead + rxCount)
    BY <2>2, Wrap
  <2> QED BY <2>1, <2>3, Zenon DEF RingShape
<1> QED BY Invariant, <1>1, PTL

-----------------------------------------------------------------------------
(* The refinement of the numbered queue. *)

\* A step of the ring is a step of the queue, or none.
LEMMA QueueStep ==
    ASSUME IInv, [Next]_vars
    PROVE  [Queue!Next]_(Queue!vars)
<1>1. /\ rxCount \in 0..RxSlots /\ rxHead \in 0..RxSlots - 1 /\ lastRecord \in Nat
      /\ RxSlots \in Nat \ {0}
  BY DEF IInv, DataTypes
<1>2. CASE RingSame
  BY <1>2 DEF RingSame, Queue!vars
<1>3. CASE RingEmptied
  <2>1. rxCount' = 0 /\ lastRecord' = lastRecord /\ got' = got
    BY <1>3 DEF RingEmptied
  <2>2. lastRecord' + 1 - rxCount' = lastRecord + 1
    BY <1>1, <2>1
  <2>3. Queue!Forget
    BY <2>1, <2>2 DEF Queue!Forget
  <2> QED BY <2>3 DEF Queue!Next
<1>4. CASE FinishRecord
  <2>1. burst /\ lastRecord' = lastRecord + 1 /\ got' = got
    BY <1>4 DEF FinishRecord
  <2>2. \/ rxCount = RxSlots /\ rxCount' = rxCount
        \/ rxCount # RxSlots /\ rxCount' = rxCount + 1
    BY <1>4 DEF FinishRecord, MakeRoom
  <2>3. lastRecord + 1 - (lastRecord + 1 - rxCount) = rxCount
    BY <1>1
  <2>4. lastRecord' + 1 - rxCount'
          = IF rxCount = (IF ReadyGpio THEN 1 ELSE RxSlots)
            THEN lastRecord + 1 - rxCount + 1 ELSE lastRecord + 1 - rxCount
    <3>1. CASE ReadyGpio
      <4>1. rxCount = 0
        BY <2>1, <3>1 DEF IInv, RingInv
      <4> QED BY <1>1, <2>1, <2>2, <3>1, <4>1
    <3>2. CASE ~ReadyGpio
      BY <1>1, <2>1, <2>2, <3>2
    <3> QED BY <3>1, <3>2
  <2>5. Queue!Put
    BY <2>1, <2>3, <2>4 DEF Queue!Put, Queue!OldestKept
  <2> QED BY <2>5 DEF Queue!Next
<1>5. ASSUME NEW fault \in BOOLEAN, ReadTake(fault) PROVE Queue!Next
  <2>1. /\ rxCount > 0 /\ rxCount' = rxCount - 1 /\ got' = rxSlots[rxHead]
        /\ lastRecord' = lastRecord
    BY <1>5 DEF ReadTake, StillThere
  <2>2. 0 \in 0..rxCount - 1 /\ Wrapped(rxHead + 0) = rxHead
    BY <1>1, <2>1 DEF Wrapped
  <2>3. rxSlots[Wrapped(rxHead + 0)] = lastRecord + 1 - rxCount + 0
    BY <2>2 DEF IInv, RingInv
  <2>4. got' = lastRecord + 1 - rxCount
    BY <1>1, <2>1, <2>2, <2>3
  <2>5. lastRecord + 1 - rxCount <= lastRecord
        /\ lastRecord' + 1 - rxCount' = lastRecord + 1 - rxCount + 1
    BY <1>1, <2>1
  <2>6. Queue!Take
    BY <2>1, <2>4, <2>5 DEF Queue!Take
  <2> QED BY <2>6 DEF Queue!Next
<1>6. DataTypes
  BY DEF IInv
<1> QED BY <1>2, <1>3, <1>4, <1>5, <1>6, RingSteps

\* The driver's ring of any number of slots hands records to read() exactly as the
\* numbered queue promises: in order, none twice, the oldest lost first, and with READY
\* only ever the newest.
THEOREM Refinement == Spec => NewestWins
<1>1. Init => Queue!Init
  BY DEF Init, Queue!Init
<1> QED BY <1>1, Invariant, QueueStep, PTL DEF Spec, NewestWins, Queue!Spec
=============================================================================
