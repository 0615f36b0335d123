---------------------------- MODULE ReorderProofs ----------------------------
(***************************************************************************)
(* Proofs about the reorder buffer, for every sequence space, ring size    *)
(* and set of sent sequences.                                              *)
(***************************************************************************)
EXTENDS Reorder, TLAPS

\* The ring function r of n slots.
IsRing(r, n) == r \in [0..n-1 -> 0..MaxSeq]

\* Every frame of r sits in its slot, in the n sequences from e on.
Window(e, r, n) ==
    \A i \in 0..n-1 :
        r[i] # NoFrame => Slot(r[i], n) = i /\ e <= r[i] /\ r[i] < e + n

\* The same behind e, as WindowInv states it between calls.
WindowBehind(e, r, n) ==
    \A i \in 0..n-1 :
        r[i] # NoFrame =>
            Slot(r[i], n) = i /\ e # 0 /\ e < r[i] /\ r[i] < e + n

-----------------------------------------------------------------------------
(***************************************************************************)
(* Arithmetic: remainders are slots, and two sequences less than n apart   *)
(* never share one of n slots.                                             *)
(***************************************************************************)
LEMMA SlotRange ==
    ASSUME NEW a \in Nat, NEW n \in Nat \ {0}
    PROVE  Slot(a, n) \in 0..n-1
  BY DEF Slot

\* Two sequences of one window never share a slot of the ring.
LEMMA SlotInjective ==
    ASSUME NEW a \in Nat, NEW b \in Nat, NEW n \in Nat \ {0},
           Slot(a, n) = Slot(b, n), a <= b, b < a + n
    PROVE  a = b
  <1>1. a = n * (a \div n) + (a % n)
    OBVIOUS
  <1>2. b = n * (b \div n) + (b % n)
    OBVIOUS
  <1> DEFINE q == (b \div n) - (a \div n)
  <1>3. q \in Int
    OBVIOUS
  <1>4. b - a = n * q
    BY <1>1, <1>2 DEF Slot
  <1>5. q < 1
    <2>1. SUFFICES ASSUME q >= 1 PROVE FALSE
      BY <1>3
    <2>2. n * q >= n
      BY <1>3, <2>1
    <2> QED BY <2>2, <1>4
  <1>6. q > -1
    <2>1. SUFFICES ASSUME q <= -1 PROVE FALSE
      BY <1>3
    <2>2. n * q <= -n
      BY <1>3, <2>1
    <2> QED BY <2>2, <1>4
  <1>7. q = 0
    BY <1>3, <1>5, <1>6
  <1> QED BY <1>4, <1>7

\* What the assumptions on the constants say of one size of the ring.
LEMMA SizeFacts ==
    ASSUME NEW n \in Sizes
    PROVE  /\ n \in Nat \ {0}
           /\ n <= MaxWindow
           /\ SeqSpace % n = 0
           /\ MaxSeq \in Nat
           /\ SeqSpace = MaxSeq + 1
           /\ 2 * MaxWindow <= SeqSpace
           /\ MaxWindow \in Nat
  BY ConstantsAssumption, SizesAssumption DEF SeqSpace

-----------------------------------------------------------------------------
(***************************************************************************)
(* A ring whose frames all lie behind e has a gap exactly when it holds a  *)
(* frame: the slot of e itself is free.                                    *)
(***************************************************************************)
LEMMA GapIffOccupied ==
    ASSUME NEW n \in Sizes, NEW e \in 0..MaxSeq, NEW r, IsRing(r, n),
           WindowBehind(e, r, n)
    PROVE  HasGap(e, r, n) <=> Occupied(r, n) # {}
  <1>1. ASSUME Occupied(r, n) # {}
        PROVE  e # 0 /\ r[Slot(e, n)] = NoFrame
    <2>1. PICK i \in 0..n-1 : r[i] # NoFrame
      BY <1>1 DEF Occupied
    <2>2. e # 0
      BY <2>1 DEF WindowBehind
    <2>3. Slot(e, n) \in 0..n-1
      BY SlotRange, SizeFacts
    <2>4. SUFFICES ASSUME r[Slot(e, n)] # NoFrame PROVE FALSE
      BY <2>2
    <2> DEFINE s == r[Slot(e, n)]
    <2>5. s \in Nat /\ Slot(s, n) = Slot(e, n) /\ e < s /\ s < e + n
      BY <2>3, <2>4, SizeFacts DEF WindowBehind, IsRing
    <2>6. e = s
      BY <2>5, SlotInjective, SizeFacts
    <2> QED BY <2>5, <2>6
  <1> QED BY <1>1 DEF HasGap

(***************************************************************************)
(* The flush loop started at e on a ring whose frames lie in the window    *)
(* from e on: it pops exactly e, e+1, ..., e+len-1, it ends at the end of  *)
(* the sequence space at the latest, and what is left lies behind the new  *)
(* expected sequence.                                                      *)
(***************************************************************************)
LEMMA FlushRun ==
    ASSUME NEW n \in Sizes, NEW e \in 1..MaxSeq, NEW r, IsRing(r, n),
           Window(e, r, n), NEW len \in 0..n, RunLength(e, r, n, len)
    PROVE  /\ e + len <= SeqSpace
           /\ \A k \in 0..len-1 : Plus(e, k) = e + k /\ r[Slot(e + k, n)] = e + k
  <1> USE SizeFacts
  <1>1. e + len <= SeqSpace
    <2>1. SUFFICES ASSUME e + len > SeqSpace PROVE FALSE
      OBVIOUS
    <2> DEFINE k == SeqSpace - e
    <2>2. k \in 0..len-1
      BY <2>1
    <2>3. Plus(e, k) = 0
      BY <2>2 DEF Plus
    <2>4. Slot(0, n) = 0 /\ Slot(SeqSpace, n) = 0
      BY DEF Slot
    <2>5. r[0] # NoFrame
      BY <2>2, <2>3, <2>4 DEF RunLength
    <2>6. r[0] \in 0..MaxSeq /\ Slot(r[0], n) = 0 /\ e <= r[0] /\ r[0] < e + n
      BY <2>5 DEF Window, IsRing
    <2>7. r[0] = SeqSpace
      BY <2>2, <2>4, <2>6, SlotInjective
    <2> QED BY <2>6, <2>7
  <1>2. ASSUME NEW k \in 0..len-1
        PROVE  Plus(e, k) = e + k /\ r[Slot(e + k, n)] = e + k
    <2>1. Plus(e, k) = e + k
      BY <1>1 DEF Plus
    <2>2. r[Slot(e + k, n)] # NoFrame
      BY <2>1 DEF RunLength
    <2>a. e + k \in Nat
      OBVIOUS
    <2>3. Slot(e + k, n) \in 0..n-1
      BY <2>a, SlotRange
    <2> DEFINE s == r[Slot(e + k, n)]
    <2>4. s \in Nat /\ Slot(s, n) = Slot(e + k, n) /\ e <= s /\ s < e + n
      BY <2>2, <2>3 DEF Window, IsRing
    <2>5. s = e + k
      <3>1. CASE s <= e + k
        BY <3>1, <2>4, SlotInjective
      <3>2. CASE s >= e + k
        BY <3>2, <2>4, SlotInjective
      <3> QED BY <3>1, <3>2, <2>4
    <2> QED BY <2>1, <2>5
  <1> QED BY <1>1, <1>2

\* What flush_locked_into leaves: a ring of the same size, and every frame in
\* it strictly behind the new position, inside the window.
LEMMA FlushLeaves ==
    ASSUME NEW n \in Sizes, NEW e \in 1..MaxSeq, NEW r, IsRing(r, n),
           Window(e, r, n), NEW len \in 0..n, RunLength(e, r, n, len)
    PROVE  /\ IsRing(Popped(e, r, n, len), n)
           /\ Plus(e, len) \in 0..MaxSeq
           /\ Plus(e, len) = IF e + len = SeqSpace THEN 0 ELSE e + len
           /\ WindowBehind(Plus(e, len), Popped(e, r, n, len), n)
  <1> USE SizeFacts
  <1>1. /\ e + len <= SeqSpace
        /\ \A k \in 0..len-1 : Plus(e, k) = e + k /\ r[Slot(e + k, n)] = e + k
    BY FlushRun
  <1> DEFINE p == Popped(e, r, n, len)
             e2 == Plus(e, len)
  <1>2. e2 \in 0..MaxSeq /\ e2 = IF e + len = SeqSpace THEN 0 ELSE e + len
    BY <1>1 DEF Plus
  <1>3. IsRing(p, n)
    BY DEF Popped, IsRing, NoFrame
  <1>4. ASSUME NEW i \in 0..n-1, p[i] # NoFrame
        PROVE  Slot(p[i], n) = i /\ e2 # 0 /\ e2 < p[i] /\ p[i] < e2 + n
    <2>1. p[i] = r[i] /\ \A k \in 0..len-1 : i # Slot(Plus(e, k), n)
      BY <1>4 DEF Popped
    <2>2. r[i] \in 0..MaxSeq /\ Slot(r[i], n) = i /\ e <= r[i] /\ r[i] < e + n
      BY <1>4, <2>1 DEF Window, IsRing
    <2>3. r[i] >= e + len
      <3>1. SUFFICES ASSUME r[i] < e + len PROVE FALSE
        BY <2>2
      <3>2. r[i] - e \in 0..len-1 /\ Plus(e, r[i] - e) = r[i]
        BY <3>1, <2>2 DEF Plus
      <3> QED BY <3>2, <2>1, <2>2
    <2>4. e + len # SeqSpace /\ e2 = e + len
      BY <2>3, <2>2, <1>2
    <2>5. len < n
      BY <2>3, <2>2
    <2>6. r[Slot(e + len, n)] = NoFrame
      BY <2>5, <2>4 DEF RunLength
    <2>7. r[i] # e + len
      BY <2>6, <2>2, <2>1, <1>4
    <2> QED BY <2>1, <2>2, <2>3, <2>4, <2>7
  <1> QED BY <1>2, <1>3, <1>4 DEF WindowBehind

\* What flush_locked_into as a whole leaves and releases.
LEMMA FlushStep ==
    ASSUME NEW n \in Sizes, NEW e \in 1..MaxSeq, NEW r, IsRing(r, n),
           Window(e, r, n), FlushLocked(e, r, n), size' = n
    PROVE  /\ expected' \in 0..MaxSeq
           /\ IsRing(ring', n)
           /\ gap' \in {"none", "armed"}
           /\ WindowInv'
           /\ GapTracked'
           /\ \E len \in 0..n :
                /\ e + len <= SeqSpace
                /\ ready' = [k \in 1..len |-> e + k - 1]
                /\ expected' = IF e + len = SeqSpace THEN 0 ELSE e + len
  <1> USE SizeFacts
  <1>1. PICK len \in 0..n :
            /\ RunLength(e, r, n, len)
            /\ ready' = [k \in 1..len |-> r[Slot(Plus(e, k - 1), n)]]
            /\ expected' = Plus(e, len)
            /\ ring' = Popped(e, r, n, len)
            /\ gap' = RefreshGap("none", Plus(e, len), Popped(e, r, n, len), n)
    BY DEF FlushLocked
  <1>a. RunLength(e, r, n, len)
    BY <1>1
  <1>2. /\ e + len <= SeqSpace
        /\ \A k \in 0..len-1 : Plus(e, k) = e + k /\ r[Slot(e + k, n)] = e + k
    BY ONLY <1>a, FlushRun, n \in Sizes, e \in 1..MaxSeq, IsRing(r, n),
            Window(e, r, n), len \in 0..n
  <1>3. /\ IsRing(ring', n)
        /\ expected' \in 0..MaxSeq
        /\ expected' = IF e + len = SeqSpace THEN 0 ELSE e + len
        /\ WindowBehind(expected', ring', n)
    BY <1>1, FlushLeaves
  <1>4. HasGap(expected', ring', n) <=> Occupied(ring', n) # {}
    BY <1>3, GapIffOccupied
  <1>5. gap' \in {"none", "armed"} /\ (gap' = "none" <=> Occupied(ring', n) = {})
    BY <1>1, <1>4 DEF RefreshGap
  <1>6. ready' = [k \in 1..len |-> e + k - 1]
    <2>1. ASSUME NEW k \in 1..len
          PROVE  r[Slot(Plus(e, k - 1), n)] = e + k - 1
      <3>1. k - 1 \in 0..len-1
        OBVIOUS
      <3>2. Plus(e, k - 1) = e + (k - 1) /\ r[Slot(e + (k - 1), n)] = e + (k - 1)
        BY <3>1, <1>2
      <3> QED BY <3>2
    <2> QED BY <2>1, <1>1
  <1>7. WindowInv'
    BY <1>3 DEF WindowBehind, WindowInv
  <1>8. GapTracked'
    BY <1>5 DEF GapTracked
  <1> QED BY <1>2, <1>3, <1>5, <1>6, <1>7, <1>8

\* A run of sequences is a sequence of sequences.
LEMMA RunIsSeq ==
    ASSUME NEW e \in 1..MaxSeq, NEW len \in Nat, e + len <= SeqSpace
    PROVE  [k \in 1..len |-> e + k - 1] \in Seq(1..MaxSeq)
  <1>1. \A k \in 1..len : e + k - 1 \in 1..MaxSeq
    BY ConstantsAssumption DEF SeqSpace
  <1> QED BY <1>1

(***************************************************************************)
(* The inductive invariant.  WindowInv alone is not inductive: a direct    *)
(* batch moves expected_seq over the ring without looking at it, which is  *)
(* harmless only because gap_since = None means that the ring is empty.    *)
(***************************************************************************)
IInv == TypeOK /\ WindowInv /\ GapTracked

\* A new buffer satisfies the invariant.
LEMMA InitInv == Init => IInv
  <1> SUFFICES ASSUME Init PROVE IInv
    OBVIOUS
  <1> USE ConstantsAssumption, SizesAssumption
  <1>1. InitialWindow \in Sizes /\ InitialWindow \in Nat \ {0} /\ MaxWindow \in Nat
    OBVIOUS
  <1>2. TypeOK
    BY <1>1 DEF Init, TypeOK, Empty, NoFrame
  <1>3. WindowInv
    BY <1>1 DEF Init, WindowInv, Empty, NoFrame
  <1>4. GapTracked
    BY <1>1 DEF Init, GapTracked, Occupied, Empty, NoFrame
  <1> QED BY <1>2, <1>3, <1>4 DEF IInv

-----------------------------------------------------------------------------
(***************************************************************************)
(* The three shapes of a step: it releases the run of len frames from e    *)
(* on, e being at or after the expected sequence; it releases nothing and  *)
(* at most learns the position; or it starts afresh.                       *)
(***************************************************************************)
Releases(e, len) ==
    /\ e + len <= SeqSpace
    /\ ready' = [k \in 1..len |-> e + k - 1]
    /\ expected' = IF e + len = SeqSpace THEN 0 ELSE e + len

Advance ==
    \E e \in 1..MaxSeq, len \in Nat :
        /\ Releases(e, len)
        /\ expected <= e
        /\ expected # 0 => skipped' = e - expected

Hold == ready' = << >> /\ skipped' = 0 /\ (expected' = expected \/ expected = 0)

Afresh == ready' = << >> /\ expected' = 0

-----------------------------------------------------------------------------
(***************************************************************************)
(* Facts about one arriving frame.                                         *)
(***************************************************************************)
LEMMA LearnedFacts ==
    ASSUME TypeOK, NEW seq, InFlight(seq)
    PROVE  /\ seq \in 1..MaxSeq
           /\ Learned(seq) \in 1..MaxSeq
           /\ 2 * Distance(seq, Learned(seq)) < SeqSpace =>
                /\ seq >= Learned(seq)
                /\ Distance(seq, Learned(seq)) = seq - Learned(seq)
  <1> USE ConstantsAssumption
  <1>1. seq \in 1..MaxSeq
    BY DEF InFlight
  <1>2. Learned(seq) \in 1..MaxSeq
    BY <1>1 DEF Learned, TypeOK
  <1>3. ASSUME 2 * Distance(seq, Learned(seq)) < SeqSpace
        PROVE  seq >= Learned(seq)
    BY <1>1, <1>2, <1>3 DEF InFlight, Distance, SeqSpace
  <1>4. seq >= Learned(seq) => Distance(seq, Learned(seq)) = seq - Learned(seq)
    BY DEF Distance
  <1> QED BY <1>1, <1>2, <1>3, <1>4

\* Before the first frame is learned the ring is empty, so the frames lie
\* behind the learned position in either case.
LEMMA LearnedWindow ==
    ASSUME IInv, NEW seq, InFlight(seq)
    PROVE  WindowBehind(Learned(seq), ring, size)
  BY DEF IInv, WindowInv, WindowBehind, Learned

\* Storing a frame of the window in its free slot, and flushing if it is
\* the expected one, keeps the invariant.
LEMMA StoreInv ==
    ASSUME NEW n \in Sizes, NEW e \in 1..MaxSeq, NEW r, IsRing(r, n),
           WindowBehind(e, r, n), NEW seq \in 1..MaxSeq, e <= seq, seq < e + n,
           gap \in {"none", "armed", "due"}, Store(seq, e, r, n),
           expected = e \/ expected = 0
    PROVE  IInv' /\ (Advance \/ Hold)
  <1> USE SizeFacts
  <1> DEFINE stored == [r EXCEPT ![Slot(seq, n)] = seq]
  <1>1. Slot(seq, n) \in 0..n-1
    BY SlotRange
  <1>2. IsRing(stored, n)
    BY <1>1 DEF IsRing
  <1>3. size' = n /\ skipped' = 0
    BY DEF Store
  <1>4. CASE seq = e
    <2>1. Window(e, stored, n)
      BY <1>1, <1>4 DEF Window, WindowBehind, IsRing
    <2>2. FlushLocked(e, stored, n)
      BY <1>4 DEF Store
    <2>3. /\ expected' \in 0..MaxSeq
          /\ IsRing(ring', n)
          /\ gap' \in {"none", "armed"}
          /\ WindowInv'
          /\ GapTracked'
          /\ \E len \in 0..n :
                /\ e + len <= SeqSpace
                /\ ready' = [k \in 1..len |-> e + k - 1]
                /\ expected' = IF e + len = SeqSpace THEN 0 ELSE e + len
      BY <1>2, <1>3, <2>1, <2>2, FlushStep
    <2>4. ready' \in Seq(1..MaxSeq)
      BY <2>3, RunIsSeq
    <2>5. Advance
      <3>1. PICK len \in 0..n :
                /\ e + len <= SeqSpace
                /\ ready' = [k \in 1..len |-> e + k - 1]
                /\ expected' = IF e + len = SeqSpace THEN 0 ELSE e + len
        BY <2>3
      <3>2. Releases(e, len) /\ skipped' = 0 /\ len \in Nat
        BY <3>1, <1>3 DEF Releases
      <3>3. expected <= e /\ (expected # 0 => skipped' = e - expected)
        BY <3>2
      <3> QED BY <3>2, <3>3 DEF Advance
    <2> QED BY <1>3, <2>3, <2>4, <2>5 DEF IInv, TypeOK, IsRing
  <1>5. CASE seq # e
    <2>1. /\ ring' = stored
          /\ expected' = e
          /\ gap' = RefreshGap(gap, e, stored, n)
          /\ ready' = << >>
      BY <1>5 DEF Store
    <2>2. WindowBehind(e, stored, n)
      BY <1>1, <1>5 DEF WindowBehind, IsRing
    <2>3. stored[Slot(seq, n)] # NoFrame
      BY <1>1 DEF IsRing, NoFrame
    <2>4. Occupied(stored, n) # {}
      BY <1>1, <2>3 DEF Occupied
    <2>a. e \in 0..MaxSeq
      OBVIOUS
    <2>5. HasGap(e, stored, n)
      BY <2>a, <1>2, <2>2, <2>4, GapIffOccupied
    <2>6. gap' \in {"armed", "due"}
      BY <2>1, <2>5 DEF RefreshGap
    <2>7. WindowInv'
      BY <1>3, <2>1, <2>2 DEF WindowInv, WindowBehind
    <2>8. GapTracked'
      BY <1>3, <2>1, <2>4, <2>6 DEF GapTracked
    <2>9. TypeOK'
      BY <1>2, <1>3, <2>1, <2>6 DEF TypeOK, IsRing
    <2>10. Hold
      BY <1>3, <2>1 DEF Hold
    <2> QED BY <2>7, <2>8, <2>9, <2>10 DEF IInv
  <1> QED BY <1>4, <1>5

\* Rehashing into a larger ring keeps every frame in its (new) slot.
LEMMA RehashWindow ==
    ASSUME NEW n \in Sizes, NEW m \in Sizes, n <= m,
           NEW e \in 1..MaxSeq, NEW r, IsRing(r, n), WindowBehind(e, r, n)
    PROVE  /\ IsRing(Rehash(r, n, m), m)
           /\ WindowBehind(e, Rehash(r, n, m), m)
           /\ \A j \in 0..m-1 : Rehash(r, n, m)[j] # NoFrame =>
                \E i \in 0..n-1 : Rehash(r, n, m)[j] = r[i]
  <1> USE SizeFacts
  <1> DEFINE h == Rehash(r, n, m)
  <1>1. ASSUME NEW j \in 0..m-1
        PROVE  \/ h[j] = NoFrame
               \/ \E i \in Occupied(r, n) : h[j] = r[i] /\ Slot(r[i], m) = j
    BY DEF Rehash
  <1>2. \A i \in Occupied(r, n) : i \in 0..n-1 /\ r[i] # NoFrame
    BY DEF Occupied
  <1>3. \A j \in 0..m-1 : h[j] \in 0..MaxSeq
    BY <1>1, <1>2 DEF IsRing, NoFrame
  <1>4. IsRing(h, m)
    BY <1>3 DEF Rehash, IsRing
  <1>5. WindowBehind(e, h, m)
    BY <1>1, <1>2 DEF WindowBehind, IsRing
  <1> QED BY <1>1, <1>2, <1>4, <1>5

-----------------------------------------------------------------------------
(***************************************************************************)
(* One lemma per group of actions.                                         *)
(***************************************************************************)
LEMMA DiscardInv ==
    ASSUME IInv, NEW seq, InFlight(seq), Discard(seq)
    PROVE  IInv' /\ Hold
  <1>1. Learned(seq) \in 1..MaxSeq
    BY LearnedFacts DEF IInv
  <1>2. /\ expected' = Learned(seq) /\ ready' = << >> /\ skipped' = 0
        /\ size' = size /\ ring' = ring /\ gap' = gap
    BY DEF Discard
  <1>3. WindowBehind(Learned(seq), ring, size)
    BY LearnedWindow
  <1>4. WindowInv'
    BY <1>2, <1>3 DEF WindowInv, WindowBehind
  <1>5. TypeOK'
    BY <1>1, <1>2, SizesAssumption DEF IInv, TypeOK
  <1>6. GapTracked'
    BY <1>2 DEF IInv, GapTracked
  <1>7. Hold
    BY <1>2 DEF Hold, Learned
  <1> QED BY <1>4, <1>5, <1>6, <1>7 DEF IInv

\* A call of insert_into keeps the invariant and advances or holds a frame.
LEMMA InsertInv ==
    ASSUME IInv, NEW seq \in Sent, Insert(seq)
    PROVE  IInv' /\ (Advance \/ Hold)
  <1> DEFINE e == Learned(seq)
  <1>1. InFlight(seq)
    BY DEF Insert, InsertOld, InsertTooFar, InsertTaken, InsertInWindow, InsertGrow
  <1>2. /\ seq \in 1..MaxSeq
        /\ e \in 1..MaxSeq
        /\ 2 * Distance(seq, e) < SeqSpace =>
             seq >= e /\ Distance(seq, e) = seq - e
    BY <1>1, LearnedFacts DEF IInv
  <1>3. WindowBehind(e, ring, size)
    BY <1>1, LearnedWindow
  <1>4. expected = e \/ expected = 0
    BY DEF Learned
  <1>5. size \in Sizes /\ IsRing(ring, size) /\ gap \in {"none", "armed", "due"}
    BY DEF IInv, TypeOK, IsRing
  <1>6. CASE InsertOld(seq) \/ InsertTooFar(seq) \/ InsertTaken(seq)
    <2>1. Discard(seq)
      BY <1>6 DEF InsertOld, InsertTooFar, InsertTaken
    <2> QED BY <1>1, <2>1, DiscardInv
  <1>7. CASE InsertInWindow(seq)
    <2>1. e <= seq /\ seq < e + size
      BY <1>2, <1>5, <1>7, SizeFacts DEF InsertInWindow
    <2>2. Store(seq, e, ring, size)
      BY <1>7 DEF InsertInWindow
    <2> QED BY <1>2, <1>3, <1>4, <1>5, <2>1, <2>2, StoreInv
  <1>8. CASE InsertGrow(seq)
    <2> DEFINE d == Distance(seq, e)
    <2>1. PICK m \in Sizes :
            /\ Grown(size, d + 1, m)
            /\ IF Rehash(ring, size, m)[Slot(seq, m)] # NoFrame
               THEN /\ size' = m
                    /\ ring' = Rehash(ring, size, m)
                    /\ ready' = << >>
                    /\ expected' = Learned(seq)
                    /\ skipped' = 0
                    /\ UNCHANGED gap
               ELSE Store(seq, e, Rehash(ring, size, m), m)
      BY <1>8 DEF InsertGrow
    <2> DEFINE r == Rehash(ring, size, m)
    <2>2. e <= seq /\ d = seq - e /\ seq >= e + size
      BY <1>2, <1>5, <1>8, SizeFacts DEF InsertGrow
    <2>3. size <= m /\ seq < e + m
      BY <2>1, <2>2, <1>2, <1>5, SizeFacts DEF Grown
    <2>4. /\ IsRing(r, m)
          /\ WindowBehind(e, r, m)
          /\ \A j \in 0..m-1 : r[j] # NoFrame => \E i \in 0..size-1 : r[j] = ring[i]
      BY <1>2, <1>3, <1>5, <2>3, RehashWindow
    <2>5. r[Slot(seq, m)] = NoFrame
      <3>1. Slot(seq, m) \in 0..m-1
        BY <1>2, SlotRange, SizeFacts
      <3>2. SUFFICES ASSUME r[Slot(seq, m)] # NoFrame PROVE FALSE
        OBVIOUS
      <3> DEFINE s == r[Slot(seq, m)]
      <3>3. s \in Nat /\ Slot(s, m) = Slot(seq, m) /\ e < s
        BY <3>1, <3>2, <2>4 DEF WindowBehind, IsRing
      <3>4. PICK i \in 0..size-1 : s = ring[i]
        BY <3>1, <3>2, <2>4
      <3>5. s < e + size
        BY <3>2, <3>4, <1>3 DEF WindowBehind
      <3>6. s <= seq /\ seq < s + m
        BY <3>3, <3>5, <2>2, <2>3, <1>2, <1>5, SizeFacts
      <3>7. s = seq
        BY <3>3, <3>6, <1>2, SlotInjective, SizeFacts
      <3> QED BY <3>5, <3>7, <2>2, <1>2, <1>5, SizeFacts
    <2>6. Store(seq, e, r, m)
      BY <2>1, <2>5
    <2> QED BY <1>2, <1>4, <1>5, <2>2, <2>3, <2>4, <2>6, StoreInv
  <1> QED BY <1>6, <1>7, <1>8 DEF Insert

\* A direct batch keeps the invariant and advances.
LEMMA DirectInv ==
    ASSUME IInv, NEW first \in Sent, NEW n \in 1..MaxBatch, TryDirectBatch(first, n)
    PROVE  IInv' /\ Advance
  <1> USE ConstantsAssumption
  <1>1. /\ gap = "none"
        /\ first = Learned(first)
        /\ \A k \in 0..n-1 : Plus(first, k) # 0
        /\ expected' = Plus(first, n)
        /\ ready' = [k \in 1..n |-> Plus(first, k - 1)]
        /\ skipped' = 0
        /\ size' = size /\ ring' = ring /\ gap' = gap
    BY DEF TryDirectBatch
  <1>2. first \in 1..MaxSeq /\ n \in Nat
    OBVIOUS
  <1>3. first + n <= SeqSpace
    <2>1. SUFFICES ASSUME first + n > SeqSpace PROVE FALSE
      BY <1>2 DEF SeqSpace
    <2> DEFINE k == SeqSpace - first
    <2>2. k \in 0..n-1 /\ Plus(first, k) = 0
      BY <1>2, <2>1 DEF SeqSpace, Plus
    <2> QED BY <2>2, <1>1
  <1>4. \A k \in 1..n : Plus(first, k - 1) = first + k - 1
    BY <1>2, <1>3 DEF Plus, SeqSpace
  <1>5. ready' = [k \in 1..n |-> first + k - 1]
    BY <1>1, <1>4
  <1>6. expected' = IF first + n = SeqSpace THEN 0 ELSE first + n
    BY <1>1, <1>2, <1>3 DEF Plus, SeqSpace
  <1>7. ready' \in Seq(1..MaxSeq)
    BY <1>2, <1>3, <1>5, RunIsSeq
  <1>8. expected' \in 0..MaxSeq
    BY <1>2, <1>3, <1>6 DEF SeqSpace
  <1>9. TypeOK'
    BY <1>1, <1>7, <1>8, SizesAssumption DEF IInv, TypeOK
  <1>10. \A i \in 0..size-1 : ring[i] = NoFrame
    BY <1>1 DEF IInv, GapTracked, Occupied
  <1>11. WindowInv'
    BY <1>1, <1>10 DEF WindowInv
  <1>12. GapTracked'
    BY <1>1 DEF IInv, GapTracked
  <1>13. Advance
    <2>1. Releases(first, n)
      BY <1>3, <1>5, <1>6 DEF Releases
    <2>2. expected <= first /\ (expected # 0 => skipped' = first - expected)
      BY <1>1, <1>2 DEF Learned
    <2> QED BY <1>2, <2>1, <2>2 DEF Advance
  <1> QED BY <1>9, <1>11, <1>12, <1>13 DEF IInv

\* The timer moves to the first buffered frame, so none is left behind.
LEMMA TimeoutInv ==
    ASSUME IInv, FlushTimeout
    PROVE  IInv' /\ Advance
  <1>1. /\ expected # 0 /\ Occupied(ring, size) # {}
        /\ size' = size
    BY DEF FlushTimeout, HasGap
  <1>2. /\ expected \in 1..MaxSeq /\ size \in Sizes /\ IsRing(ring, size)
        /\ WindowBehind(expected, ring, size)
    BY <1>1, ConstantsAssumption DEF IInv, TypeOK, IsRing, WindowInv, WindowBehind
  <1>3. PICK delta \in 1..size-1 :
            /\ \A d \in 1..delta-1 : ring[Slot(Plus(expected, d), size)] = NoFrame
            /\ skipped' = delta
            /\ FlushLocked(Plus(expected, delta), ring, size)
    BY DEF FlushTimeout
  <1>4. ASSUME NEW i \in 0..size-1, ring[i] # NoFrame
        PROVE  expected + delta <= ring[i]
    <2>1. /\ ring[i] \in 0..MaxSeq /\ Slot(ring[i], size) = i
          /\ expected < ring[i] /\ ring[i] < expected + size
      BY <1>2, <1>4 DEF WindowBehind, IsRing
    <2>2. SUFFICES ASSUME ring[i] < expected + delta PROVE FALSE
      BY <1>2, <2>1, SizeFacts
    <2> DEFINE d == ring[i] - expected
    <2>3. d \in 1..delta-1 /\ Plus(expected, d) = ring[i]
      BY <1>2, <2>1, <2>2, SizeFacts DEF Plus
    <2> QED BY <1>3, <1>4, <2>1, <2>3
  <1> DEFINE e == expected + delta
  <1>5. PICK i \in 0..size-1 : ring[i] # NoFrame
    BY <1>1 DEF Occupied
  <1>6. e \in 1..MaxSeq /\ Plus(expected, delta) = e
    BY <1>2, <1>4, <1>5, SizeFacts DEF IsRing, Plus
  <1>7. Window(e, ring, size)
    <2>1. ASSUME NEW j \in 0..size-1, ring[j] # NoFrame
          PROVE  Slot(ring[j], size) = j /\ e <= ring[j] /\ ring[j] < e + size
      <3>1. Slot(ring[j], size) = j /\ ring[j] < expected + size /\ ring[j] \in Nat
        BY <1>2, <2>1 DEF WindowBehind, IsRing
      <3>2. e <= ring[j]
        BY <1>4, <2>1
      <3> QED BY <1>2, <3>1, <3>2, SizeFacts
    <2> QED BY <2>1 DEF Window
  <1>8. FlushLocked(e, ring, size)
    BY <1>3, <1>6
  <1>9. /\ expected' \in 0..MaxSeq
        /\ IsRing(ring', size)
        /\ gap' \in {"none", "armed"}
        /\ WindowInv'
        /\ GapTracked'
        /\ \E len \in 0..size :
                /\ e + len <= SeqSpace
                /\ ready' = [k \in 1..len |-> e + k - 1]
                /\ expected' = IF e + len = SeqSpace THEN 0 ELSE e + len
    <2> HIDE DEF e
    <2> QED BY <1>1, <1>2, <1>6, <1>7, <1>8, FlushStep
  <1>10. PICK len \in 0..size :
                /\ e + len <= SeqSpace
                /\ ready' = [k \in 1..len |-> e + k - 1]
                /\ expected' = IF e + len = SeqSpace THEN 0 ELSE e + len
    BY <1>9
  <1>11. len \in Nat /\ ready' \in Seq(1..MaxSeq)
    <2>1. len \in Nat
      BY <1>2, SizeFacts
    <2> HIDE DEF e
    <2> QED BY <1>6, <1>10, <2>1, RunIsSeq
  <1>12. TypeOK'
    BY <1>1, <1>2, <1>3, <1>9, <1>11, SizeFacts DEF TypeOK, IsRing
  <1>13. Advance
    <2>1. Releases(e, len)
      BY <1>10 DEF Releases
    <2>2. expected <= e /\ skipped' = e - expected
      BY <1>2, <1>3, SizeFacts
    <2> HIDE DEF e
    <2> QED BY <1>6, <1>11, <2>1, <2>2 DEF Advance
  <1> QED BY <1>9, <1>12, <1>13 DEF IInv

\* Every call keeps the invariant and is a step of ordered delivery.
LEMMA StepInv ==
    ASSUME IInv, Next
    PROVE  IInv' /\ (Advance \/ Hold \/ Afresh)
  <1>1. ASSUME NEW seq \in Sent, Insert(seq)
        PROVE  IInv' /\ (Advance \/ Hold)
    BY <1>1, InsertInv
  <1>2. ASSUME NEW first \in Sent, NEW n \in 1..MaxBatch, TryDirectBatch(first, n)
        PROVE  IInv' /\ Advance
    BY <1>2, DirectInv
  <1>3. CASE GapExpires
    <2>1. /\ gap = "armed" /\ gap' = "due" /\ ready' = << >> /\ skipped' = 0
          /\ expected' = expected /\ size' = size /\ ring' = ring
      BY <1>3 DEF GapExpires
    <2>2. TypeOK'
      BY <2>1, SizesAssumption DEF IInv, TypeOK
    <2>3. WindowInv' /\ GapTracked'
      BY <2>1 DEF IInv, WindowInv, GapTracked
    <2>4. Hold
      BY <2>1 DEF Hold
    <2> QED BY <2>2, <2>3, <2>4 DEF IInv
  <1>4. CASE FlushTimeout
    BY <1>4, TimeoutInv
  <1>5. CASE Reset
    <2>1. /\ expected' = 0 /\ ring' = Empty(size) /\ gap' = "none"
          /\ ready' = << >> /\ skipped' = 0 /\ size' = size
      BY <1>5 DEF Reset
    <2>2. TypeOK'
      BY <2>1, SizesAssumption, ConstantsAssumption DEF IInv, TypeOK, Empty, NoFrame
    <2>3. WindowInv' /\ GapTracked'
      BY <2>1 DEF WindowInv, GapTracked, Occupied, Empty
    <2>4. Afresh
      BY <2>1 DEF Afresh
    <2> QED BY <2>2, <2>3, <2>4 DEF IInv
  <1> QED BY <1>1, <1>2, <1>3, <1>4, <1>5 DEF Next

\* The invariant is inductive.
LEMMA NextInv == IInv /\ [Next]_vars => IInv'
  <1>1. ASSUME IInv, Next PROVE IInv'
    BY <1>1, StepInv
  <1>2. ASSUME IInv, UNCHANGED vars PROVE IInv'
    BY <1>2 DEF IInv, TypeOK, WindowInv, GapTracked, vars
  <1> QED BY <1>1, <1>2

-----------------------------------------------------------------------------
(***************************************************************************)
(* The reorder buffer keeps its inductive invariant.                       *)
(***************************************************************************)
THEOREM InvariantHolds == Spec => []IInv
  BY InitInv, NextInv, PTL DEF Spec

\* The fields of ReorderBuffer keep their types (TypeOK).
THEOREM TypeCorrect == Spec => []TypeOK
  <1>1. IInv => TypeOK
    BY DEF IInv
  <1> QED BY <1>1, InvariantHolds, PTL

\* Buffered frames never collide and lie in the window (WindowInv), for
\* every window size and however often the ring grew.
THEOREM WindowSafe == Spec => []WindowInv
  <1>1. IInv => WindowInv
    BY DEF IInv
  <1> QED BY <1>1, InvariantHolds, PTL

\* The gap timer runs exactly while frames wait (GapTracked), which is what
\* makes the direct path of try_advance_sequences safe.
THEOREM GapAlwaysTracked == Spec => []GapTracked
  <1>1. IInv => GapTracked
    BY DEF IInv
  <1> QED BY <1>1, InvariantHolds, PTL

\* Every step that moves the position accounts for each sequence it passes
\* as released or skipped (SkipAccounting).
THEOREM SkipsAccounted == Spec => SkipAccounting
  <1> DEFINE A == expected # 0 /\ (expected' # 0 \/ ready' # << >>) =>
                     Distance(expected', expected) = Len(ready') + skipped'
  <1>1. ASSUME IInv, Next PROVE A
    <2> USE ConstantsAssumption
    <2>1. expected \in 0..MaxSeq
      BY <1>1 DEF IInv, TypeOK
    <2>2. CASE Advance
      <3>1. PICK e \in 1..MaxSeq, len \in Nat :
              /\ Releases(e, len)
              /\ expected <= e
              /\ expected # 0 => skipped' = e - expected
        BY <2>2 DEF Advance
      <3>2. Len(ready') = len /\ len \in Nat
        BY <3>1 DEF Releases
      <3>3. ASSUME expected # 0
            PROVE  Distance(expected', expected) = len + (e - expected)
        BY <2>1, <3>1, <3>3 DEF Releases, Distance, SeqSpace
      <3> QED BY <3>1, <3>2, <3>3
    <2>3. CASE Hold
      BY <2>1, <2>3 DEF Hold, Distance
    <2>4. CASE Afresh
      BY <2>4 DEF Afresh
    <2> QED BY <1>1, <2>2, <2>3, <2>4, StepInv
  <1>2. IInv /\ [Next]_vars => [A]_vars
    BY <1>1
  <1> QED BY <1>2, InvariantHolds, PTL DEF Spec, SkipAccounting

(***************************************************************************)
(* The reorder buffer implements OrderedDelivery: a receiver sees every    *)
(* frame at most once and in sequence order, whatever the network did.     *)
(***************************************************************************)
THEOREM Refinement == Spec => ImplementsOrderedDelivery
  <1>1. Init => OD!Init
    BY DEF Init, OD!Init
  <1>2. ASSUME IInv, Next PROVE OD!Next
    <2> USE ConstantsAssumption
    <2>1. expected \in 0..MaxSeq /\ expected' \in 0..MaxSeq
      BY <1>2, StepInv DEF IInv, TypeOK
    <2>2. CASE Advance
      <3>1. PICK e \in 1..MaxSeq, len \in Nat : Releases(e, len) /\ expected <= e
        BY <2>2 DEF Advance
      <3>2. /\ Len(ready') = len
            /\ \A i \in 1..len : ready'[i] = e + i - 1
        BY <3>1 DEF Releases
      <3>3. OD!Increasing(ready')
        BY <3>2 DEF OD!Increasing
      <3>4. \A i \in 1..Len(ready') : ready'[i] >= expected
        BY <2>1, <3>1, <3>2
      <3>5. CASE e + len # SeqSpace
        <4>1. expected' = e + len
          BY <3>1, <3>5 DEF Releases
        <4>2. expected' >= expected
          BY <2>1, <3>1, <4>1
        <4>3. \A i \in 1..Len(ready') : ready'[i] < expected'
          BY <3>2, <4>1
        <4> QED BY <3>3, <3>4, <4>2, <4>3 DEF OD!Next, OD!Deliver
      <3>6. CASE e + len = SeqSpace
        <4>1. expected' = 0
          BY <3>1, <3>6 DEF Releases
        <4>2. Len(ready') > 0 /\ ready'[Len(ready')] = MaxSeq
          BY <3>2, <3>6 DEF SeqSpace
        <4> QED BY <3>3, <3>4, <4>1, <4>2 DEF OD!Next, OD!Deliver
      <3> QED BY <3>5, <3>6
    <2>3. CASE Hold
      BY <2>1, <2>3 DEF Hold, OD!Next, OD!Deliver, OD!Increasing
    <2>4. CASE Afresh
      BY <2>4 DEF Afresh, OD!Next, OD!Restart
    <2> QED BY <1>2, <2>2, <2>3, <2>4, StepInv
  <1>3. IInv /\ [Next]_vars => [OD!Next]_(OD!odVars)
    BY <1>2 DEF vars, OD!odVars
  <1> QED BY <1>1, <1>3, InvariantHolds, PTL DEF Spec, ImplementsOrderedDelivery, OD!Spec
=============================================================================
