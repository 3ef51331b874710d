-------------------------- MODULE NewestWinsQueue --------------------------
(***************************************************************************)
(* What read() promises its worker about received records, numbered in the *)
(* order in which they were completed on the bus: records are handed over  *)
(* one at a time, oldest first, none twice, and a record is lost to the    *)
(* queue's limit only when Capacity newer ones are waiting.                *)
(***************************************************************************)
EXTENDS Naturals

CONSTANT Capacity  \* how many records may wait, at least one

VARIABLES oldest,  \* the oldest record waiting, newest + 1 when none is
          newest,  \* the newest record completed
          handed   \* the record handed over last

vars == <<oldest, newest, handed>>

Init == oldest = 1 /\ newest = 0 /\ handed = 0

\* The oldest record still waiting when one more than newest has been completed.
OldestKept == IF newest + 1 - oldest = Capacity THEN oldest + 1 ELSE oldest

Put == newest' = newest + 1 /\ oldest' = OldestKept /\ UNCHANGED handed

Take == oldest <= newest /\ handed' = oldest /\ oldest' = oldest + 1 /\ UNCHANGED newest

\* A newer request has begun, or the session has ended.
Forget == oldest' = newest + 1 /\ UNCHANGED <<newest, handed>>

Next == Put \/ Take \/ Forget

Spec == Init /\ [][Next]_vars
=============================================================================
