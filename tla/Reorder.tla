------------------------------- MODULE Reorder -------------------------------
(***************************************************************************)
(* The receive reorder buffer of a session (struct ReorderBuffer,          *)
(* src/buffer.rs).  Data frames of one AEAD epoch carry sequences          *)
(* 1..MaxSeq and reach the buffer over several TCP connections, so they    *)
(* come out of order, twice (FEC recovery plus a late original) or never.  *)
(* The buffer releases them in order; a gap is skipped 50 ms after it was  *)
(* first seen.  Every operation runs under the mutex of the session, so    *)
(* one action is one call.                                                 *)
(*                                                                         *)
(* A frame is represented by its sequence: seq_slots and ring are one      *)
(* function, with NoFrame (0) for an empty slot, and the occupancy bitmap  *)
(* is the set of its other slots.  Zero-length frames, which the code      *)
(* releases and then drops, are released like any other.                   *)
(***************************************************************************)
EXTENDS Integers, Sequences

CONSTANTS
    MaxSeq,         \* u32::MAX: the last sequence of an epoch
    InitialWindow,  \* REORDER_INITIAL_WINDOW
    Doublings,      \* how often the ring may double before REORDER_MAX_WINDOW
    Sent,           \* the sequences the sender uses in an epoch
    MaxBatch        \* bound: length of a directly delivered burst

NoFrame == 0
SeqSpace == MaxSeq + 1

\* The ring sizes grow_window can produce; MaxWindow is REORDER_MAX_WINDOW.
Sizes == {InitialWindow * 2^k : k \in 0..Doublings}
MaxWindow == InitialWindow * 2^Doublings

(***************************************************************************)
(* The windows and the sequence space are powers of two, so masking is the *)
(* remainder and a ring size divides the space, and the int32 distance of  *)
(* a sequence that is at most MaxWindow ahead is positive.                 *)
(***************************************************************************)
ASSUME ConstantsAssumption ==
    /\ MaxSeq \in Nat
    /\ InitialWindow \in Nat \ {0}
    /\ Doublings \in Nat
    /\ MaxBatch \in Nat
    /\ Sent \subseteq 1..MaxSeq

ASSUME SizesAssumption ==
    /\ InitialWindow \in Sizes
    /\ \A n \in Sizes : n \in Nat \ {0} /\ n <= MaxWindow /\ SeqSpace % n = 0
    /\ MaxWindow \in Nat
    /\ 2 * MaxWindow <= SeqSpace

VARIABLES
    expected,   \* expected_seq: next sequence to release, 0 = not learned yet
    size,       \* ring.len() = window_mask + 1
    ring,       \* ring / seq_slots / bitmap
    gap,        \* gap_since: "none", "armed" (Some, < 50 ms old) or "due"
    skipped,    \* what the last call added to stats.skipped_frames
    ready       \* the frames the last call appended to its ready vector

vars == <<expected, size, ring, gap, skipped, ready>>

-----------------------------------------------------------------------------
(***************************************************************************)
(* u32 arithmetic and the ring.                                            *)
(***************************************************************************)

\* seq.wrapping_sub(base), both in 0..MaxSeq
Distance(seq, base) == IF seq >= base THEN seq - base ELSE seq + SeqSpace - base

\* wrapping_add of a small n
Plus(seq, n) == IF seq + n > MaxSeq THEN seq + n - SeqSpace ELSE seq + n

\* seq & window_mask of a ring of n slots
Slot(seq, n) == seq % n

Empty(n) == [i \in 0..n-1 |-> NoFrame]

\* The frames a ring of n slots holds (its non-zero bitmap bits).
Occupied(r, n) == {i \in 0..n-1 : r[i] # NoFrame}

\* fn has_gap
HasGap(e, r, n) ==
    /\ e # 0
    /\ r[Slot(e, n)] = NoFrame
    /\ Occupied(r, n) # {}

\* fn refresh_gap: an armed gap keeps its start.
RefreshGap(g, e, r, n) ==
    IF HasGap(e, r, n) THEN IF g = "none" THEN "armed" ELSE g ELSE "none"

(***************************************************************************)
(* fn grow_window: the ring doubles until it has `required' slots and      *)
(* every frame is rehashed by its own sequence.  Grown holds of the size   *)
(* m the loop stops at.                                                    *)
(***************************************************************************)
Grown(n, required, m) ==
    /\ m \in Sizes
    /\ m >= required /\ m >= n
    /\ \A o \in Sizes : o >= required /\ o >= n => m <= o

\* Mutant of Rehash: the larger ring keeps the old slot numbers.
RehashInPlace(r, n, m) == [j \in 0..m-1 |-> IF j < n THEN r[j] ELSE NoFrame]

Rehash(r, n, m) ==
    [j \in 0..m-1 |->
        IF \E i \in Occupied(r, n) : Slot(r[i], m) = j
        THEN r[CHOOSE i \in Occupied(r, n) : Slot(r[i], m) = j]
        ELSE NoFrame]

(***************************************************************************)
(* fn flush_locked_into pops slot after slot from e on until one is empty: *)
(* len is the number of frames it pops.                                    *)
(***************************************************************************)
RunLength(e, r, n, len) ==
    /\ len \in 0..n
    /\ \A k \in 0..len-1 : r[Slot(Plus(e, k), n)] # NoFrame
    /\ len < n => r[Slot(Plus(e, len), n)] = NoFrame

Popped(e, r, n, len) ==
    [i \in 0..n-1 |->
        IF \E k \in 0..len-1 : i = Slot(Plus(e, k), n) THEN NoFrame ELSE r[i]]

\* Mutant of FlushLocked: the gap behind the released run is not armed.
FlushLockedNoRearm(e, r, n) ==
    \E len \in 0..n :
        /\ RunLength(e, r, n, len)
        /\ ready' = [k \in 1..len |-> r[Slot(Plus(e, k - 1), n)]]
        /\ expected' = Plus(e, len)
        /\ ring' = Popped(e, r, n, len)
        /\ gap' = "none"

\* The whole of flush_locked_into on a ring r whose next sequence is e.
FlushLocked(e, r, n) ==
    \E len \in 0..n :
        /\ RunLength(e, r, n, len)
        /\ ready' = [k \in 1..len |-> r[Slot(Plus(e, k - 1), n)]]
        /\ expected' = Plus(e, len)
        /\ ring' = Popped(e, r, n, len)
        /\ gap' = RefreshGap("none", Plus(e, len), Popped(e, r, n, len), n)

-----------------------------------------------------------------------------
Init ==
    /\ expected = 0
    /\ size = InitialWindow
    /\ ring = Empty(InitialWindow)
    /\ gap = "none"
    /\ skipped = 0
    /\ ready = << >>


(***************************************************************************)
(* fn insert_into, one action per way it can end.  `Learned' is            *)
(* expected_seq after the first-frame rule.  A frame is delayed by less    *)
(* than half the sequence space: the sender stops at MaxSeq and a TCP      *)
(* connection does not hold back 2^31 frames.                              *)
(***************************************************************************)
Learned(seq) == IF expected = 0 THEN seq ELSE expected

InFlight(seq) ==
    /\ seq \in Sent
    /\ 2 * (seq - Learned(seq)) < SeqSpace
    /\ 2 * (Learned(seq) - seq) <= SeqSpace

\* insert_into returns without storing the frame.
Discard(seq) ==
    /\ expected' = Learned(seq)
    /\ ready' = << >>
    /\ skipped' = 0
    /\ UNCHANGED <<size, ring, gap>>

\* Stores a frame whose slot exists and is free, in a ring of n slots.
Store(seq, e, r, n) ==
    LET stored == [r EXCEPT ![Slot(seq, n)] = seq]
    IN  /\ size' = n
        /\ IF seq = e
           THEN FlushLocked(e, stored, n)
           ELSE /\ ring' = stored
                /\ expected' = e
                /\ gap' = RefreshGap(gap, e, stored, n)
                /\ ready' = << >>
        /\ skipped' = 0

\* diff < 0 as an i32: the frame was released or skipped before.
InsertOld(seq) ==
    /\ InFlight(seq)
    /\ 2 * Distance(seq, Learned(seq)) >= SeqSpace
    /\ Discard(seq)

\* Too far ahead for the largest window.
InsertTooFar(seq) ==
    /\ InFlight(seq)
    /\ 2 * Distance(seq, Learned(seq)) < SeqSpace
    /\ Distance(seq, Learned(seq)) >= size
    /\ Distance(seq, Learned(seq)) >= MaxWindow \/ size >= MaxWindow
    /\ Discard(seq)

\* The slot is taken: whoever came first stays.
InsertTaken(seq) ==
    /\ InFlight(seq)
    /\ 2 * Distance(seq, Learned(seq)) < SeqSpace
    /\ Distance(seq, Learned(seq)) < size
    /\ ring[Slot(seq, size)] # NoFrame
    /\ Discard(seq)

InsertInWindow(seq) ==
    /\ InFlight(seq)
    /\ 2 * Distance(seq, Learned(seq)) < SeqSpace
    /\ Distance(seq, Learned(seq)) < size
    /\ ring[Slot(seq, size)] = NoFrame
    /\ Store(seq, Learned(seq), ring, size)

\* The frame only fits a larger ring: grow, rehash, then store.
InsertGrow(seq) ==
    /\ InFlight(seq)
    /\ 2 * Distance(seq, Learned(seq)) < SeqSpace
    /\ Distance(seq, Learned(seq)) >= size
    /\ Distance(seq, Learned(seq)) < MaxWindow
    /\ size < MaxWindow
    /\ \E m \in Sizes :
        /\ Grown(size, Distance(seq, Learned(seq)) + 1, m)
        /\ LET r == Rehash(ring, size, m)
           IN  IF r[Slot(seq, m)] # NoFrame
               THEN /\ size' = m
                    /\ ring' = r
                    /\ ready' = << >>
                    /\ expected' = Learned(seq)
                    /\ skipped' = 0
                    /\ UNCHANGED gap
               ELSE Store(seq, Learned(seq), r, m)

(***************************************************************************)
(* fn try_direct_batch / try_advance_sequences: a burst of n frames from   *)
(* `first' on that continues exactly at the expected sequence bypasses the *)
(* ring.  Anything else returns false and leaves the buffer alone.         *)
(***************************************************************************)
\* Mutant of TryDirectBatch: the burst need not start at expected_seq.
TryDirectBatchAnywhere(first, n) ==
    /\ gap = "none"
    /\ \A k \in 0..n-1 : Plus(first, k) # 0 /\ Plus(first, k) \in Sent
    /\ expected' = Plus(first, n)
    /\ ready' = [k \in 1..n |-> Plus(first, k - 1)]
    /\ skipped' = 0
    /\ UNCHANGED <<size, ring, gap>>

TryDirectBatch(first, n) ==
    /\ gap = "none"
    /\ first = Learned(first)
    /\ \A k \in 0..n-1 : Plus(first, k) # 0 /\ Plus(first, k) \in Sent
    /\ expected' = Plus(first, n)
    /\ ready' = [k \in 1..n |-> Plus(first, k - 1)]
    /\ skipped' = 0
    /\ UNCHANGED <<size, ring, gap>>

\* 50 ms pass since gap_since was set.
GapExpires ==
    /\ gap = "armed"
    /\ gap' = "due"
    /\ ready' = << >>
    /\ skipped' = 0
    /\ UNCHANGED <<expected, size, ring>>

\* Mutant of FlushTimeout: the skip counter misses one frame.
FlushTimeoutMiscounts ==
    /\ gap = "due"
    /\ HasGap(expected, ring, size)
    /\ \E delta \in 1..size-1 :
        /\ ring[Slot(Plus(expected, delta), size)] # NoFrame
        /\ \A d \in 1..delta-1 : ring[Slot(Plus(expected, d), size)] = NoFrame
        /\ skipped' = delta - 1
        /\ FlushLocked(Plus(expected, delta), ring, size)
    /\ UNCHANGED size

\* fn flush_timeout_into when a frame is found behind the gap.
FlushTimeout ==
    /\ gap = "due"
    /\ HasGap(expected, ring, size)
    /\ \E delta \in 1..size-1 :
        /\ ring[Slot(Plus(expected, delta), size)] # NoFrame
        /\ \A d \in 1..delta-1 : ring[Slot(Plus(expected, d), size)] = NoFrame
        /\ skipped' = delta
        /\ FlushLocked(Plus(expected, delta), ring, size)
    /\ UNCHANGED size

\* Mutant of Reset: gap_since survives.
ResetKeepsGap ==
    /\ expected' = 0
    /\ ring' = Empty(size)
    /\ ready' = << >>
    /\ skipped' = 0
    /\ UNCHANGED <<size, gap>>

\* fn reset, called when a new session or a new AEAD epoch starts.
Reset ==
    /\ expected' = 0
    /\ ring' = Empty(size)
    /\ gap' = "none"
    /\ ready' = << >>
    /\ skipped' = 0
    /\ UNCHANGED size

Insert(seq) ==
    \/ InsertOld(seq)
    \/ InsertTooFar(seq)
    \/ InsertTaken(seq)
    \/ InsertInWindow(seq)
    \/ InsertGrow(seq)

Next ==
    \/ \E seq \in Sent : Insert(seq)
    \/ \E first \in Sent, n \in 1..MaxBatch : TryDirectBatch(first, n)
    \/ GapExpires
    \/ FlushTimeout
    \/ Reset

(***************************************************************************)
(* The 50 ms pass, and the actor's timer thread (or any producer) calls    *)
(* flush_timeout once they have.                                           *)
(***************************************************************************)
Fairness == WF_vars(GapExpires) /\ WF_vars(FlushTimeout)

Spec == Init /\ [][Next]_vars /\ Fairness

-----------------------------------------------------------------------------
(***************************************************************************)
(* Properties.                                                             *)
(***************************************************************************)

\* The variables of ReorderBuffer have their types; the ring has size slots.
TypeOK ==
    /\ expected \in 0..MaxSeq
    /\ size \in Sizes
    /\ ring \in [0..size-1 -> 0..MaxSeq]
    /\ gap \in {"none", "armed", "due"}
    /\ skipped \in 0..MaxWindow
    /\ ready \in Seq(1..MaxSeq)

(***************************************************************************)
(* Between calls a buffered frame sits in the slot of its own sequence and *)
(* lies strictly inside the window behind expected_seq, whatever inserts,  *)
(* growths and skips came before: no two live sequences ever collide in a  *)
(* slot, so first-come-first-kept never drops a frame that was not a       *)
(* duplicate, and the flush loop never releases the wrong frame.           *)
(***************************************************************************)
WindowInv ==
    \A i \in 0..size-1 :
        ring[i] # NoFrame =>
            /\ Slot(ring[i], size) = i
            /\ expected # 0
            /\ expected < ring[i]
            /\ ring[i] < expected + size

(***************************************************************************)
(* gap_since is set exactly while frames wait behind a gap.  A frame that  *)
(* waited without it would never be flushed by the timer, and              *)
(* try_advance_sequences, which only looks at gap_since, would advance     *)
(* past frames still in the ring.                                          *)
(***************************************************************************)
GapTracked == (gap = "none") <=> (Occupied(ring, size) = {})

(***************************************************************************)
(* stats.skipped_frames counts exactly the sequences that expected_seq     *)
(* passed without releasing a frame: every call that moves an already      *)
(* learned position forward accounts for each sequence as released or as   *)
(* skipped (a step to 0 that releases nothing is a reset).                 *)
(***************************************************************************)
SkipAccounting ==
    [][ expected # 0 /\ (expected' # 0 \/ ready' # << >>) =>
            Distance(expected', expected) = Len(ready') + skipped' ]_vars

(***************************************************************************)
(* ReorderBuffer implements ordered delivery: whatever the arrival order,  *)
(* the frames it releases are strictly increasing and none is released     *)
(* twice until the buffer is reset or the sequence space is used up.       *)
(***************************************************************************)
OD == INSTANCE OrderedDelivery WITH floor <- expected, batch <- ready

ImplementsOrderedDelivery == OD!Spec

(***************************************************************************)
(* No frame stays in the ring for ever: the gap timer of flush_timeout     *)
(* eventually releases it even if the missing frames never come.           *)
(***************************************************************************)
Buffered(s) == \E i \in 0..size-1 : ring[i] = s

NoFrameStuck == \A s \in Sent : Buffered(s) ~> ~Buffered(s)
=============================================================================
