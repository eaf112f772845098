--------------------------- MODULE ReplayAbstract ---------------------------
(***************************************************************************)
(* What WAL replay promises, whatever the budget: the records the WAL      *)
(* receiver has flushed are applied one at a time in LSN order, and none   *)
(* is skipped or applied before it has arrived.  Records are numbered by   *)
(* LSN 1, 2, ...; flushed is the number flushed and replayedUpTo the       *)
(* number replayed.                                                        *)
(* Spec 4.4 (consumption contract) and spec 1 (LSN ordering, no skipped    *)
(* records preserved through the budget).                                  *)
(***************************************************************************)
EXTENDS Naturals

CONSTANT MaxRecords     \* the length of the WAL stream in a model

VARIABLES flushed, replayedUpTo

avars == <<flushed, replayedUpTo>>

Init == flushed = 0 /\ replayedUpTo = 0

\* The WAL receiver flushes the next record.
Receive ==
    /\ flushed < MaxRecords
    /\ flushed' = flushed + 1
    /\ UNCHANGED replayedUpTo

\* The record after the last one replayed is replayed.
Apply ==
    /\ replayedUpTo < flushed
    /\ replayedUpTo' = replayedUpTo + 1
    /\ UNCHANGED flushed

Next == Receive \/ Apply

Spec == Init /\ [][Next]_avars

=============================================================================
