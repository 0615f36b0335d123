--------------------------- MODULE OrderedDelivery ---------------------------
(***************************************************************************)
(* What the reorder stage of a session promises to the virtual switch:     *)
(* batches of frames whose sequences increase strictly, within a batch and *)
(* from one batch to the next, with no frame repeated.  Frames may be      *)
(* missing (a gap is skipped after 50 ms).  The order starts afresh only   *)
(* when the buffer is reset or after the last sequence of the epoch.       *)
(***************************************************************************)
EXTENDS Integers, Sequences

CONSTANT MaxSeq     \* the last sequence of an epoch

VARIABLES
    floor,          \* no frame below floor may be delivered any more
    batch           \* the frames delivered by the last step

odVars == <<floor, batch>>

Increasing(b) == \A i, j \in 1..Len(b) : i < j => b[i] < b[j]

Init == floor = 0 /\ batch = << >>

\* Deliver some frames at or above the floor and raise the floor above them;
\* after MaxSeq there is nothing left to deliver and the floor is 0 again.
Deliver ==
    /\ Increasing(batch')
    /\ \A i \in 1..Len(batch') : batch'[i] >= floor
    /\ \/ /\ floor' >= floor
          /\ \A i \in 1..Len(batch') : batch'[i] < floor'
       \/ /\ floor' = 0
          /\ Len(batch') > 0
          /\ batch'[Len(batch')] = MaxSeq

\* A new session or epoch: the sequences start again.
Restart == floor' = 0 /\ batch' = << >>

Next == Deliver \/ Restart

Spec == Init /\ [][Next]_odVars
=============================================================================
