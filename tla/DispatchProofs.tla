---------------------------- MODULE DispatchProofs ----------------------------
(***************************************************************************)
(* The dispatch thread of a port, for any number of connections, frames    *)
(* and epochs and any round-trip times: what a path is charged with is     *)
(* what it carries, a number names one frame of its epoch, and the path    *)
(* that is picked after the wait has room.                                 *)
(***************************************************************************)
EXTENDS Dispatch, SequenceTheorems, FiniteSetTheorems, WellFoundedInduction, TLAPS

Items == [frame : Nat, seq : Nat, epoch : Nat]
Sent == [epoch : Nat, seq : Nat, frame : Nat, numbered : Nat]

Elems(s) == {s[i] : i \in DOMAIN s}
Injective(s) == \A i, j \in DOMAIN s : s[i] = s[j] => i = j

TypeOK ==
    /\ produced \in Nat /\ input \in Seq(Nat)
    /\ pc \in {"recv", "wait", "collect", "number", "charge", "push", "settle", "done"}
    /\ batch \in Seq(Items) /\ tries \in Nat
    /\ txSeq \in Nat /\ seqEpoch \in Nat /\ epoch \in Nat
    /\ conn \in [Conns -> {"off", "joined", "up"}] /\ connEpoch \in [Conns -> Nat]
    /\ backends \in Seq(Conns)
    /\ queue \in [Conns -> Seq(Items)] /\ drained \in [Conns -> Nat]
    /\ queued \in [Conns -> Nat]
    /\ wire \in SUBSET Sent

\* The list has every connection that is up, once; a queue keeps its capacity.
BackendsInv ==
    /\ Injective(backends)
    /\ Elems(backends) = {c \in Conns : conn[c] = "up"}
    /\ \A c \in Conns : Len(queue[c]) <= Cap

\* What the thread has charged to c and not yet queued or taken back.
Pending(c) == IF pc \in {"push", "settle"} /\ backends[idx] = c THEN Len(batch) ELSE 0

ChargeInv ==
    /\ pc \in {"push", "settle"} => idx \in DOMAIN backends
    /\ \A c \in Conns : conn[c] = "up" => queued[c] = Len(queue[c]) + drained[c] + Pending(c)

\* The numbers are reset before the new epoch is published, by a connection
\* that is in neither.
EpochInv ==
    /\ \/ resetting = {} /\ seqEpoch = epoch
       \/ seqEpoch = epoch + 1 /\ \E c \in Conns : resetting = {c} /\ conn[c] = "off"
    /\ \A c \in Conns : connEpoch[c] <= epoch
    /\ \A w \in wire : w.epoch <= epoch

\* When items of the batch have their numbers.
StageInv ==
    /\ pc \in {"recv", "done"} => batch = <<>>
    /\ pc \in {"wait", "collect"} => \A i \in DOMAIN batch : batch[i].seq = 0
    /\ pc \in {"charge", "push", "settle"} => \A i \in DOMAIN batch : batch[i].seq > 0

Fresh(x) == x.seq > 0 /\ x.epoch = seqEpoch

Current == {w \in wire : w.epoch = seqEpoch}

\* The numbers of now: those in the batch are not yet used and differ, and under
\* the lock no path of this epoch meets an item numbered before.
NumberInv ==
    /\ \A i \in DOMAIN batch : batch[i].epoch <= seqEpoch
    /\ \A i \in DOMAIN batch : Fresh(batch[i]) => batch[i].seq <= txSeq
    /\ \A i \in DOMAIN batch : Fresh(batch[i]) => \A w \in Current : w.seq # batch[i].seq
    /\ \A i, j \in DOMAIN batch :
         Fresh(batch[i]) /\ Fresh(batch[j]) /\ batch[i].seq = batch[j].seq => i = j
    /\ \A w \in Current : w.seq <= txSeq
    /\ Locked => \A i \in DOMAIN batch, c \in Conns :
         conn[c] = "up" /\ batch[i].seq > 0 /\ connEpoch[c] = seqEpoch => Fresh(batch[i])

DispatchInv ==
    TypeOK /\ BackendsInv /\ ChargeInv /\ EpochInv /\ StageInv /\ NumberInv /\ EpochPure

-----------------------------------------------------------------------------
(* Induction, from the well-foundedness of < on the naturals. *)

\* A set of naturals that is not empty has a least element.
LEMMA NatLeast ==
    ASSUME NEW T \in SUBSET Nat, T # {}
    PROVE  \E n \in T : \A m \in T : n <= m
<1> DEFINE R == OpToRel(<, Nat)
<1>1. IsWellFoundedOn(R, Nat) BY NatLessThanWellFounded
<1>2. \A x, y \in Nat : x < y => <<x, y>> \in R BY DEF OpToRel
<1> HIDE DEF R
<1>3. \E x \in T : \A y \in T : ~ (<<y, x>> \in R) BY <1>1, WFMin
<1>4. PICK x \in T : \A y \in T : ~ (<<y, x>> \in R) BY <1>3
<1>5. \A y \in T : x <= y
  <2> TAKE y \in T
  <2>1. x \in Nat /\ y \in Nat OBVIOUS
  <2>2. ~(y < x) BY <1>2, <1>4, <2>1
  <2> QED BY <2>1, <2>2
<1> QED BY <1>5

\* A set with 0 that is closed under successor has every natural number.
LEMMA Induction ==
    ASSUME NEW T, 0 \in T, \A n \in Nat : n \in T => n + 1 \in T
    PROVE  Nat \subseteq T
<1> SUFFICES ASSUME Nat \ T # {} PROVE FALSE
  OBVIOUS
<1>1. PICK n \in Nat \ T : \A m \in Nat \ T : n <= m BY NatLeast
<1>2. n # 0 /\ n - 1 \in Nat /\ n - 1 \in T /\ (n - 1) + 1 = n BY <1>1
<1> QED BY <1>1, <1>2

\* The least of a set of naturals.
LEMMA MinNat ==
    ASSUME NEW T \in SUBSET Nat, T # {}
    PROVE  Min(T) \in T /\ \A m \in T : Min(T) <= m
BY NatLeast DEF Min

-----------------------------------------------------------------------------
(* Sequences *)

\* Retaining all but c, by induction over the list.
LEMMA WithoutForm ==
    ASSUME NEW S, NEW s \in Seq(S), NEW c
    PROVE  /\ Without(s, c) \in Seq(S)
           /\ Elems(Without(s, c)) = Elems(s) \ {c}
           /\ Injective(s) => Injective(Without(s, c))
<1> DEFINE Item(acc, n) == IF s[n] = c THEN acc ELSE Append(acc, s[n])
           Steps(F, k) == F = [n \in 0..k |-> IF n = 0 THEN <<>> ELSE Item(F[n - 1], n)]
           T == {k \in Nat : \E F : Steps(F, k)}
<1>0. Len(s) \in Nat /\ DOMAIN s = 1..Len(s) /\ \A n \in 1..Len(s) : s[n] \in S OBVIOUS
<1>1. \E F : Steps(F, Len(s))
  <2> HIDE DEF Item
  <2>1. 0 \in T
    <3>1. Steps([n \in 0..0 |-> <<>>], 0) OBVIOUS
    <3> QED BY <3>1
  <2>2. ASSUME NEW k \in Nat, k \in T PROVE k + 1 \in T
    <3>1. PICK F : Steps(F, k) BY <2>2
    <3> DEFINE G == [n \in 0..k + 1 |-> IF n = k + 1 THEN Item(F[k], n) ELSE F[n]]
               H == [n \in 0..k + 1 |-> IF n = 0 THEN <<>> ELSE Item(G[n - 1], n)]
    <3>2. ASSUME NEW n \in 0..k + 1 PROVE G[n] = H[n]
      <4>1. CASE n = 0 BY <3>1, <4>1
      <4>2. CASE n = k + 1
        <5>1. G[n - 1] = F[k] BY <4>2
        <5> QED BY <4>2, <5>1
      <4>3. CASE n \in 1..k
        <5>1. G[n - 1] = F[n - 1] /\ G[n] = F[n] BY <4>3
        <5>2. F[n] = Item(F[n - 1], n) BY <3>1, <4>3
        <5> QED BY <4>3, <5>1, <5>2
      <4> QED BY <4>1, <4>2, <4>3
    <3>3. G = H BY <3>2
    <3>4. Steps(G, k + 1) BY <3>3
    <3> HIDE DEF Steps, G, H
    <3> QED BY <3>4
  <2> HIDE DEF Steps
  <2>3. Nat \subseteq T
    <3> HIDE DEF T
    <3> QED BY <2>1, <2>2, Induction
  <2> QED BY <1>0, <2>3
<1> DEFINE F == CHOOSE g : Steps(g, Len(s))
<1>2. Steps(F, Len(s))
  <2> HIDE DEF Steps
  <2> QED BY <1>1
<1>3. Without(s, c) = F[Len(s)] BY DEF Without
<1> HIDE DEF F
<1> DEFINE Good(t, n) == /\ t \in Seq(S)
                         /\ Elems(t) = {s[i] : i \in 1..n} \ {c}
                         /\ Injective(s) => Injective(t)
           U == {n \in Nat : n <= Len(s) => Good(F[n], n)}
<1>4. 0 \in U
  <2>1. F[0] = <<>> BY <1>0, <1>2
  <2>2. DOMAIN <<>> = {} /\ <<>> \in Seq(S) /\ {s[i] : i \in 1..0} = {} OBVIOUS
  <2>3. Elems(<<>>) = {} /\ Injective(<<>>) BY <2>2 DEF Elems, Injective
  <2>4. Good(<<>>, 0) BY <2>2, <2>3
  <2> HIDE DEF Good
  <2> QED BY <2>1, <2>4
<1>5. ASSUME NEW n \in Nat, n \in U PROVE n + 1 \in U
  <2> SUFFICES ASSUME n + 1 <= Len(s) PROVE Good(F[n + 1], n + 1)
    OBVIOUS
  <2>1. Good(F[n], n) BY <1>0, <1>5
  <2>2. n + 1 \in 0..Len(s) /\ n + 1 # 0 /\ (n + 1) - 1 = n /\ n + 1 \in 1..Len(s) BY <1>0
  <2>3. F[n + 1] = Item(F[n], n + 1)
    <3> HIDE DEF Item
    <3> QED BY <1>2, <2>2
  <2>4. {s[i] : i \in 1..n + 1} = {s[i] : i \in 1..n} \cup {s[n + 1]} OBVIOUS
  <2>5. CASE s[n + 1] = c
    <3>1. F[n + 1] = F[n] BY <2>3, <2>5
    <3>2. {s[i] : i \in 1..n + 1} \ {c} = {s[i] : i \in 1..n} \ {c} BY <2>4, <2>5
    <3> QED BY <2>1, <3>1, <3>2
  <2>6. CASE s[n + 1] # c
    <3> DEFINE t == F[n]
               u == Append(t, s[n + 1])
    <3>1. F[n + 1] = u BY <2>3, <2>6
    <3>2. s[n + 1] \in S /\ t \in Seq(S) BY <1>0, <2>1, <2>2
    <3> HIDE DEF t
    <3>3. /\ u \in Seq(S) /\ Len(u) = Len(t) + 1 /\ Len(t) \in Nat
          /\ DOMAIN t = 1..Len(t) /\ DOMAIN u = 1..Len(t) + 1
          /\ u[Len(t) + 1] = s[n + 1]
          /\ \A i \in 1..Len(t) : u[i] = t[i]
      BY <3>2
    <3> HIDE DEF u
    <3>4. Elems(u) = Elems(t) \cup {s[n + 1]} BY <3>3 DEF Elems
    <3>5. Elems(u) = {s[i] : i \in 1..n + 1} \ {c}
      <4>1. Elems(t) = {s[i] : i \in 1..n} \ {c} BY <2>1 DEF t
      <4> QED BY <4>1, <2>4, <2>6, <3>4
    <3>6. ASSUME Injective(s) PROVE Injective(u)
      <4>1. Injective(t) BY <2>1, <3>6 DEF t
      <4>2. \A i \in 1..Len(t) : t[i] # s[n + 1]
        <5> SUFFICES ASSUME NEW i \in 1..Len(t), t[i] = s[n + 1] PROVE FALSE
          OBVIOUS
        <5>1. t[i] \in {s[j] : j \in 1..n} BY <2>1, <3>3 DEF t, Elems
        <5>2. PICK j \in 1..n : s[j] = s[n + 1] BY <5>1
        <5>3. j \in DOMAIN s /\ n + 1 \in DOMAIN s /\ j # n + 1 BY <1>0, <2>2
        <5> QED BY <3>6, <5>2, <5>3 DEF Injective
      <4>3. ASSUME NEW i \in DOMAIN u, NEW j \in DOMAIN u, u[i] = u[j] PROVE i = j
        <5>1. CASE i \in 1..Len(t) /\ j \in 1..Len(t)
          BY <3>3, <4>1, <4>3, <5>1 DEF Injective
        <5>2. CASE i = Len(t) + 1 \/ j = Len(t) + 1
          BY <3>3, <4>2, <4>3, <5>2
        <5> QED BY <3>3, <5>1, <5>2
      <4> QED BY <4>3 DEF Injective
    <3> QED BY <3>1, <3>3, <3>5, <3>6
  <2> QED BY <2>5, <2>6
<1>6. Nat \subseteq U
  <2> HIDE DEF U
  <2> QED BY <1>4, <1>5, Induction
<1>7. Good(F[Len(s)], Len(s))
  <2> HIDE DEF Good
  <2> QED BY <1>0, <1>6
<1> QED BY <1>0, <1>3, <1>7 DEF Elems

\* What is left of a sequence after one element was removed.
LEMMA RemoveForm ==
    ASSUME NEW S, NEW s \in Seq(S), NEW k \in 1..Len(s)
    PROVE  /\ RemoveAt(s, k) \in Seq(S)
           /\ Len(RemoveAt(s, k)) = Len(s) - 1
           /\ \A i \in 1..Len(s) - 1 : RemoveAt(s, k)[i] = s[IF i < k THEN i ELSE i + 1]
<1> DEFINE a == SubSeq(s, 1, k - 1)
           b == SubSeq(s, k + 1, Len(s))
<1>1. a \in Seq(S) /\ Len(a) = k - 1 /\ \A i \in 1..k - 1 : a[i] = s[i]
  BY SubSeqProperties
<1>2. b \in Seq(S) /\ Len(b) = Len(s) - k /\ \A i \in 1..Len(s) - k : b[i] = s[i + k]
  BY SubSeqProperties
<1> HIDE DEF a, b
<1>3. /\ a \o b \in Seq(S) /\ Len(a \o b) = Len(s) - 1
      /\ \A i \in 1..Len(s) - 1 : (a \o b)[i] = IF i <= k - 1 THEN a[i] ELSE b[i - (k - 1)]
  BY <1>1, <1>2, ConcatProperties
<1>4. ASSUME NEW i \in 1..Len(s) - 1
      PROVE  (a \o b)[i] = s[IF i < k THEN i ELSE i + 1]
  <2>1. CASE i < k BY <1>1, <1>3, <2>1
  <2>2. CASE ~(i < k)
    <3>1. i - (k - 1) \in 1..Len(s) - k /\ (i - (k - 1)) + k = i + 1 BY <2>2
    <3> QED BY <1>2, <1>3, <2>2, <3>1
  <2> QED BY <2>1, <2>2
<1>5. RemoveAt(s, k) = a \o b BY DEF RemoveAt, a, b
<1> QED BY <1>3, <1>4, <1>5

\* The first n elements, and the rest.
LEMMA SplitForm ==
    ASSUME NEW S, NEW s \in Seq(S), NEW n \in 0..Len(s)
    PROVE  /\ SubSeq(s, 1, n) \in Seq(S) /\ Len(SubSeq(s, 1, n)) = n
           /\ SubSeq(s, n + 1, Len(s)) \in Seq(S)
           /\ Len(SubSeq(s, n + 1, Len(s))) = Len(s) - n
           /\ \A i \in 1..Len(s) - n : SubSeq(s, n + 1, Len(s))[i] = s[i + n]
BY SubSeqProperties

\* Less is the subtraction where the code's counters hold what is taken back.
LEMMA LessExact ==
    ASSUME NEW n \in Nat, NEW m \in Nat, m <= n
    PROVE  Less(n, m) = n - m
BY DEF Less

\* The prefix try_push_batch accepts.
LEMMA MinOfTwo ==
    ASSUME NEW a \in Nat, NEW b \in Nat
    PROVE  Min({a, b}) \in Nat /\ Min({a, b}) <= a /\ Min({a, b}) <= b
BY MinNat

-----------------------------------------------------------------------------
(* The steps that change the batch *)

LEMMA NumberedForm ==
    ASSUME NEW r \in Items, NEW a \in Nat, NEW b \in Nat
    PROVE  [[r EXCEPT !.seq = a] EXCEPT !.epoch = b] = [frame |-> r.frame, seq |-> a, epoch |-> b]
<1>2. PICK q : q = [r EXCEPT !.seq = a] OBVIOUS
<1>3. q \in Items /\ q.frame = r.frame /\ q.seq = a BY <1>2 DEF Items
<1>4. [q EXCEPT !.epoch = b] = [frame |-> q.frame, seq |-> q.seq, epoch |-> b] BY <1>3 DEF Items
<1> QED BY <1>2, <1>3, <1>4

\* Number gives the first item without a number the next one, or drops it.
LEMMA NumberShape ==
    ASSUME TypeOK, Number
    PROVE  /\ pc = "number" /\ pc' = pc
           /\ batch' \in Seq(Items) /\ txSeq' \in Nat /\ seqEpoch' = seqEpoch
           /\ \E k \in 1..Len(batch) :
                /\ batch[k].seq = 0
                /\ \/ /\ txSeq' = txSeq /\ Len(batch') = Len(batch) - 1
                      /\ \A i \in 1..Len(batch) - 1 :
                           batch'[i] = batch[IF i < k THEN i ELSE i + 1]
                   \/ /\ txSeq' = txSeq + 1 /\ Len(batch') = Len(batch)
                      /\ \A i \in 1..Len(batch) \ {k} : batch'[i] = batch[i]
                      /\ batch'[k].seq = txSeq + 1 /\ batch'[k].epoch = seqEpoch
<1> DEFINE K == {j \in DOMAIN batch : batch[j].seq = 0}
           k == Min(K)
<1>0. /\ batch \in Seq(Items) /\ txSeq \in Nat /\ seqEpoch \in Nat
      /\ DOMAIN batch = 1..Len(batch) /\ Len(batch) \in Nat
  BY DEF TypeOK
<1>1. \A i \in DOMAIN batch : batch[i].seq \in Nat
  <2>1. \A i \in DOMAIN batch : batch[i] \in Items BY <1>0
  <2> QED BY <2>1 DEF Items
<1>2. K # {} /\ K \in SUBSET Nat BY <1>0, <1>1 DEF Number, AllNumbered
<1>3. k \in 1..Len(batch) /\ batch[k].seq = 0
  <2>1. k \in K
    <3> HIDE DEF K
    <3> QED BY <1>2, MinNat
  <2> HIDE DEF k
  <2> QED BY <1>0, <2>1
<1>4. /\ IF txSeq = MaxSeq
         THEN batch' = RemoveAt(batch, k) /\ UNCHANGED txSeq
         ELSE /\ txSeq' = txSeq + 1
              /\ batch' = [batch EXCEPT ![k].seq = txSeq', ![k].epoch = seqEpoch]
      /\ pc = "number" /\ pc' = pc /\ seqEpoch' = seqEpoch
  BY DEF Number
<1> HIDE DEF k, K
<1>5. CASE txSeq = MaxSeq
  <2>1. batch' = RemoveAt(batch, k) /\ txSeq' = txSeq BY <1>4, <1>5
  <2>2. /\ batch' \in Seq(Items) /\ Len(batch') = Len(batch) - 1
        /\ \A i \in 1..Len(batch) - 1 : batch'[i] = batch[IF i < k THEN i ELSE i + 1]
    BY <1>0, <1>3, <2>1, RemoveForm
  <2> QED BY <1>0, <1>3, <1>4, <2>1, <2>2
<1>6. CASE txSeq # MaxSeq
  <2> DEFINE x == [frame |-> batch[k].frame, seq |-> txSeq + 1, epoch |-> seqEpoch]
  <2>0. batch[k] \in Items BY <1>0, <1>3
  <2>1. x \in Items BY <1>0, <2>0 DEF Items
  <2>2. [[batch[k] EXCEPT !.seq = txSeq + 1] EXCEPT !.epoch = seqEpoch] = x
    <3>1. PICK r \in Items : r = batch[k] BY <2>0
    <3>2. PICK a, b : a = txSeq + 1 /\ b = seqEpoch OBVIOUS
    <3>3. a \in Nat /\ b \in Nat BY <1>0, <3>2
    <3> QED BY <3>1, <3>2, <3>3, NumberedForm
  <2>3. txSeq' = txSeq + 1 /\ batch' = [batch EXCEPT ![k] = x]
    <3>1. /\ txSeq' = txSeq + 1
          /\ batch' = [[batch EXCEPT ![k] = [batch[k] EXCEPT !.seq = txSeq + 1]]
                          EXCEPT ![k] = [[batch[k] EXCEPT !.seq = txSeq + 1] EXCEPT !.epoch = seqEpoch]]
      BY <1>0, <1>3, <1>4, <1>6
    <3> HIDE DEF x
    <3> QED BY <1>0, <1>3, <2>2, <3>1
  <2>4. x.seq = txSeq + 1 /\ x.epoch = seqEpoch OBVIOUS
  <2> HIDE DEF x
  <2>5. /\ batch' \in Seq(Items) /\ Len(batch') = Len(batch) /\ batch'[k] = x
        /\ \A i \in 1..Len(batch) \ {k} : batch'[i] = batch[i]
    BY <1>0, <1>3, <2>1, <2>3, ExceptSeq
  <2>6. txSeq + 1 \in Nat BY <1>0
  <2>7. /\ txSeq' = txSeq + 1 /\ Len(batch') = Len(batch)
        /\ \A i \in 1..Len(batch) \ {k} : batch'[i] = batch[i]
        /\ batch'[k].seq = txSeq + 1 /\ batch'[k].epoch = seqEpoch
    BY <2>3, <2>4, <2>5
  <2> QED BY <1>3, <1>4, <2>3, <2>5, <2>6, <2>7
<1> QED BY <1>5, <1>6

\* Push moves the prefix that fits from the batch into the queue of the path.
LEMMA PushShape ==
    ASSUME DispatchInv, Push
    PROVE  /\ batch' \in Seq(Items) /\ queue' \in [Conns -> Seq(Items)] /\ wire' \in SUBSET Sent
           /\ pc = "push" /\ pc' = "settle" /\ backends[idx] \in Conns /\ conn[backends[idx]] = "up"
           /\ \E n \in 0..Len(batch) :
                /\ Len(batch') = Len(batch) - n
                /\ \A i \in 1..Len(batch) - n : batch'[i] = batch[i + n]
                /\ \A c \in Conns \ {backends[idx]} : queue'[c] = queue[c]
                /\ Len(queue'[backends[idx]]) = Len(queue[backends[idx]]) + n
                /\ Len(queue'[backends[idx]]) <= Cap
                /\ \A w \in wire' : \/ w \in wire
                                    \/ \E i \in 1..n : /\ w.epoch = connEpoch[backends[idx]]
                                                       /\ w.seq = batch[i].seq
                                                       /\ w.frame = batch[i].frame
                                                       /\ w.numbered = batch[i].epoch
<1> DEFINE c == backends[idx]
           n == Min({Len(batch), Cap - Len(queue[c])})
           W(i) == [epoch |-> connEpoch[c], seq |-> batch[i].seq, frame |-> batch[i].frame,
                    numbered |-> batch[i].epoch]
<1>0. /\ batch \in Seq(Items) /\ queue \in [Conns -> Seq(Items)] /\ backends \in Seq(Conns)
      /\ wire \in SUBSET Sent /\ connEpoch \in [Conns -> Nat]
      /\ DOMAIN batch = 1..Len(batch) /\ Len(batch) \in Nat
  BY DEF DispatchInv, TypeOK
<1>1. pc = "push" /\ idx \in DOMAIN backends BY DEF Push, DispatchInv, ChargeInv
<1>2. c \in Conns /\ conn[c] = "up"
  <2>1. c \in Conns /\ c \in Elems(backends) BY <1>0, <1>1 DEF Elems
  <2> QED BY <2>1 DEF DispatchInv, BackendsInv
<1>3. queue[c] \in Seq(Items) /\ Len(queue[c]) \in Nat BY <1>0, <1>2
<1>4. Cap - Len(queue[c]) \in Nat
  BY <1>2, <1>3, DispatchAssumption DEF DispatchInv, BackendsInv
<1>5. n \in 0..Len(batch) /\ n <= Cap - Len(queue[c])
  <2>1. PICK a, b : a = Len(batch) /\ b = Cap - Len(queue[c]) OBVIOUS
  <2>2. a \in Nat /\ b \in Nat BY <1>0, <1>4, <2>1
  <2>3. Min({a, b}) \in Nat /\ Min({a, b}) <= a /\ Min({a, b}) <= b BY <2>2, MinOfTwo
  <2> QED BY <2>1, <2>2, <2>3
<1>6. /\ queue' = [queue EXCEPT ![c] = queue[c] \o SubSeq(batch, 1, n)]
      /\ batch' = SubSeq(batch, n + 1, Len(batch))
      /\ wire' = wire \cup {W(i) : i \in 1..n}
      /\ pc' = "settle"
  BY DEF Push
<1> HIDE DEF n, c
<1>7. /\ SubSeq(batch, 1, n) \in Seq(Items) /\ Len(SubSeq(batch, 1, n)) = n
      /\ batch' \in Seq(Items) /\ Len(batch') = Len(batch) - n
      /\ \A i \in 1..Len(batch) - n : batch'[i] = batch[i + n]
  BY <1>0, <1>5, <1>6, SplitForm, ZenonT(40)
<1>8. /\ queue[c] \o SubSeq(batch, 1, n) \in Seq(Items)
      /\ Len(queue[c] \o SubSeq(batch, 1, n)) = Len(queue[c]) + n
  BY <1>3, <1>7, ConcatProperties
<1>9. /\ queue' \in [Conns -> Seq(Items)] /\ \A d \in Conns \ {c} : queue'[d] = queue[d]
      /\ Len(queue'[c]) = Len(queue[c]) + n
  <2> DEFINE q == queue[c] \o SubSeq(batch, 1, n)
  <2>1. queue' = [queue EXCEPT ![c] = q] /\ q \in Seq(Items) /\ Len(q) = Len(queue[c]) + n
    BY <1>6, <1>8
  <2> HIDE DEF q
  <2> QED BY <1>0, <1>2, <2>1
<1>10. Len(queue'[c]) <= Cap BY <1>3, <1>5, <1>9, DispatchAssumption
<1>11. ASSUME NEW i \in 1..n PROVE W(i) \in Sent
  <2>1. i \in 1..Len(batch) BY <1>0, <1>5
  <2>2. batch[i] \in Items BY <1>0, <2>1
  <2> QED BY <1>0, <1>2, <2>2 DEF Items, Sent
<1>12. wire' \in SUBSET Sent
  <2> HIDE DEF W
  <2> QED BY <1>0, <1>6, <1>11
<1>13. ASSUME NEW w \in wire', w \notin wire
       PROVE  \E i \in 1..n : /\ w.epoch = connEpoch[c]
                              /\ w.seq = batch[i].seq
                              /\ w.frame = batch[i].frame
                              /\ w.numbered = batch[i].epoch
  <2>1. PICK i \in 1..n : w = W(i)
    <3> HIDE DEF W
    <3> QED BY <1>6, <1>13
  <2> QED BY <2>1
<1> HIDE DEF W
<1> QED BY <1>1, <1>2, <1>5, <1>6, <1>7, <1>9, <1>10, <1>12, <1>13 DEF c

\* A path of the list is a connection that is up.
LEMMA PathUp ==
    ASSUME DispatchInv, NEW i \in DOMAIN backends
    PROVE  backends[i] \in Conns /\ conn[backends[i]] = "up"
<1>1. backends[i] \in Elems(backends) BY DEF Elems
<1> QED BY <1>1 DEF DispatchInv, BackendsInv

\* Charge gives the batch up, or charges a path with it.
LEMMA ChargeShape ==
    ASSUME DispatchInv, Charge
    PROVE  /\ pc = "charge" \/ (pc = "number" /\ AllNumbered)
           /\ \/ /\ pc' = "recv" /\ batch' = <<>>
                 /\ tries' = tries /\ queued' = queued
              \/ /\ pc' = "push" /\ batch' = batch /\ tries' = tries + 1
                 /\ idx \in DOMAIN backends /\ backends[idx] \in Conns
                 /\ queued' \in [Conns -> Nat]
                 /\ queued'[backends[idx]] = queued[backends[idx]] + Len(batch)
                 /\ \A c \in Conns \ {backends[idx]} : queued'[c] = queued[c]
<1>1. pc = "charge" \/ (pc = "number" /\ AllNumbered) BY DEF Charge
<1>2. CASE batch = <<>> \/ tries > Len(backends) \/ idx \notin DOMAIN backends
  BY <1>1, <1>2 DEF Charge, Leftover
<1>3. CASE ~(batch = <<>> \/ tries > Len(backends) \/ idx \notin DOMAIN backends)
  <2>1. /\ queued' = [queued EXCEPT ![backends[idx]] = queued[backends[idx]] + Len(batch)]
        /\ tries' = tries + 1 /\ pc' = "push" /\ batch' = batch
    BY <1>3 DEF Charge
  <2>2. idx \in DOMAIN backends /\ backends[idx] \in Conns BY <1>3, PathUp
  <2>3. queued \in [Conns -> Nat] /\ Len(batch) \in Nat BY DEF DispatchInv, TypeOK
  <2>4. /\ queued' \in [Conns -> Nat]
        /\ queued'[backends[idx]] = queued[backends[idx]] + Len(batch)
        /\ \A c \in Conns \ {backends[idx]} : queued'[c] = queued[c]
    BY <2>1, <2>2, <2>3
  <2> QED BY <1>1, <2>1, <2>2, <2>4
<1> QED BY <1>2, <1>3

\* Settle takes back what was not queued; it ends the batch or tries elsewhere.
LEMMA SettleShape ==
    ASSUME DispatchInv, Settle
    PROVE  /\ pc = "settle" /\ backends[idx] \in Conns /\ idx \in DOMAIN backends
           /\ queued' \in [Conns -> Nat]
           /\ queued'[backends[idx]] = queued[backends[idx]] - Len(batch)
           /\ \A c \in Conns \ {backends[idx]} : queued'[c] = queued[c]
           /\ \/ pc' = "recv" /\ batch' = <<>>
              \/ pc' = "charge" /\ batch' = batch
<1>1. pc = "settle" /\ idx \in DOMAIN backends BY DEF Settle, DispatchInv, ChargeInv
<1>2. backends[idx] \in Conns /\ conn[backends[idx]] = "up" BY <1>1, PathUp
<1>3. /\ queued \in [Conns -> Nat] /\ drained \in [Conns -> Nat] /\ Len(batch) \in Nat
      /\ Len(queue[backends[idx]]) \in Nat
  <2>1. queue[backends[idx]] \in Seq(Items) BY <1>2 DEF DispatchInv, TypeOK
  <2> QED BY <2>1, SMTT(20) DEF DispatchInv, TypeOK
<1>4. Len(batch) <= queued[backends[idx]]
  <2>1. Pending(backends[idx]) = Len(batch) BY <1>1 DEF Pending
  <2>2. queued[backends[idx]]
          = Len(queue[backends[idx]]) + drained[backends[idx]] + Pending(backends[idx])
    BY <1>2 DEF DispatchInv, ChargeInv
  <2> QED BY <1>2, <1>3, <2>1, <2>2
<1>5. Less(queued[backends[idx]], Len(batch)) = queued[backends[idx]] - Len(batch)
  <2>1. PICK a, b : a = queued[backends[idx]] /\ b = Len(batch) OBVIOUS
  <2>2. a \in Nat /\ b \in Nat /\ b <= a BY <1>2, <1>3, <1>4, <2>1
  <2> QED BY <2>1, <2>2, LessExact
<1>6. queued' = [queued EXCEPT ![backends[idx]] = Less(queued[backends[idx]], Len(batch))]
  BY DEF Settle
<1>7. \/ pc' = "recv" /\ batch' = <<>>
      \/ pc' = "charge" /\ batch' = batch
  BY DEF Settle
<1>8. /\ queued' \in [Conns -> Nat]
      /\ queued'[backends[idx]] = queued[backends[idx]] - Len(batch)
      /\ \A c \in Conns \ {backends[idx]} : queued'[c] = queued[c]
  BY <1>2, <1>3, <1>4, <1>5, <1>6
<1> QED BY <1>1, <1>2, <1>7, <1>8

-----------------------------------------------------------------------------
(* Types *)

LEMMA TypeInit == Init => TypeOK
<1> SUFFICES ASSUME Init PROVE TypeOK
  OBVIOUS
<1>1. \A S : <<>> \in Seq(S) OBVIOUS
<1> QED BY <1>1 DEF Init, TypeOK

LEMMA TypeNext == DispatchInv /\ [Next]_vars => TypeOK'
<1> SUFFICES ASSUME DispatchInv, [Next]_vars PROVE TypeOK'
  OBVIOUS
<1> USE DEF threadVars, epochVars, connVars, pickVars, queueVars, ghosts
<1>0. TypeOK BY DEF DispatchInv
<1>e. \A S : <<>> \in Seq(S) OBVIOUS
<1>1. CASE Enqueue
  <2>1. produced + 1 \in Nat BY <1>0 DEF TypeOK
  <2>2. produced' \in Nat /\ input' \in Seq(Nat) BY <1>0, <1>1, <2>1 DEF TypeOK, Enqueue
  <2> QED BY <1>0, <1>1, <2>2 DEF TypeOK, Enqueue
<1>2. CASE Drop BY <1>0, <1>2 DEF TypeOK, Drop
<1>3. ASSUME NEW c \in Conns, NEW n \in 1..Cap, Drain(c, n) PROVE TypeOK'
  <2>1. queue[c] \in Seq(Items) /\ n \in 1..Len(queue[c]) BY <1>0, <1>3 DEF TypeOK, Drain
  <2>2. SubSeq(queue[c], n + 1, Len(queue[c])) \in Seq(Items)
    BY <2>1, SplitForm
  <2>3. queue' \in [Conns -> Seq(Items)] /\ drained' \in [Conns -> Nat]
    BY <1>0, <1>3, <2>1, <2>2 DEF TypeOK, Drain
  <2> QED BY <1>0, <1>3, <2>3 DEF TypeOK, Drain
<1>4. ASSUME NEW c \in Conns, Delivered(c) PROVE TypeOK'
  <2>1. queued' \in [Conns -> Nat] /\ drained' \in [Conns -> Nat]
    BY <1>0, <1>4 DEF TypeOK, Delivered, Less
  <2> QED BY <1>0, <1>4, <2>1 DEF TypeOK, Delivered
<1>5. ASSUME NEW c \in Conns, Join(c) PROVE TypeOK'
  BY <1>0, <1>5 DEF TypeOK, Join
<1>6. ASSUME NEW c \in Conns, ResetEpoch(c) PROVE TypeOK'
  BY <1>0, <1>6 DEF TypeOK, ResetEpoch
<1>7. ASSUME NEW c \in Conns, Rotated(c) PROVE TypeOK'
  BY <1>0, <1>7 DEF TypeOK, Rotated
<1>8. ASSUME NEW c \in Conns, Register(c) PROVE TypeOK'
  <2>1. backends' \in Seq(Conns) /\ queue' \in [Conns -> Seq(Items)]
    BY <1>0, <1>e, <1>8 DEF TypeOK, Register
  <2> QED BY <1>0, <1>8, <2>1 DEF TypeOK, Register
<1>9. ASSUME NEW c \in Conns, Unregister(c) PROVE TypeOK'
  <2>1. backends' \in Seq(Conns) BY <1>0, <1>9, WithoutForm DEF TypeOK, Unregister
  <2> QED BY <1>0, <1>9, <2>1 DEF TypeOK, Unregister
<1>10. CASE Receive
  <2>1. Unnumbered(Head(input)) \in Items /\ input' \in Seq(Nat)
    BY <1>0, <1>10 DEF TypeOK, Receive, Unnumbered, Items
  <2>2. batch' \in Seq(Items) BY <1>10, <2>1 DEF Receive
  <2> QED BY <1>0, <1>10, <2>1, <2>2 DEF TypeOK, Receive
<1>11. CASE Exit BY <1>0, <1>e, <1>11 DEF TypeOK, Exit
<1>12. CASE WaitSlot
  <2>1. batch' \in Seq(Items) /\ pc' \in {"recv", "collect"}
    BY <1>0, <1>e, <1>12 DEF TypeOK, WaitSlot
  <2> QED BY <1>0, <1>12, <2>1 DEF TypeOK, WaitSlot
<1>13. CASE Collect
  <2>1. Unnumbered(Head(input)) \in Items /\ input' \in Seq(Nat)
    BY <1>0, <1>13 DEF TypeOK, Collect, Unnumbered, Items
  <2>2. batch' \in Seq(Items) BY <1>0, <1>13, <2>1 DEF TypeOK, Collect
  <2> QED BY <1>0, <1>13, <2>1, <2>2 DEF TypeOK, Collect
<1>14. CASE Pick
  <2>1. batch' \in Seq(Items) /\ pc' \in {"recv", "number"} /\ tries' = 0
    BY <1>0, <1>e, <1>14 DEF TypeOK, Pick
  <2>2. UNCHANGED <<produced, input, epochVars, connVars, queueVars, ghosts>> BY <1>14 DEF Pick
  <2> QED BY <1>0, <2>1, <2>2 DEF TypeOK
<1>15. CASE Number
  <2>1. batch' \in Seq(Items) /\ txSeq' \in Nat BY <1>0, <1>15, NumberShape
  <2> QED BY <1>0, <1>15, <2>1 DEF TypeOK, Number
<1>16. CASE Charge
  <2>1. /\ batch' \in Seq(Items) /\ tries' \in Nat /\ pc' \in {"recv", "push"}
        /\ queued' \in [Conns -> Nat]
    <3>1. batch \in Seq(Items) /\ tries \in Nat /\ tries + 1 \in Nat /\ queued \in [Conns -> Nat]
      BY <1>0 DEF TypeOK
    <3>2. \/ /\ pc' = "recv" /\ batch' = <<>> /\ tries' = tries /\ queued' = queued
          \/ /\ pc' = "push" /\ batch' = batch /\ tries' = tries + 1
             /\ queued' \in [Conns -> Nat]
      BY <1>16, ChargeShape
    <3> QED BY <1>e, <3>1, <3>2
  <2> QED BY <1>0, <1>16, <2>1 DEF TypeOK, Charge
<1>17. CASE Push
  <2>1. /\ batch' \in Seq(Items) /\ queue' \in [Conns -> Seq(Items)] /\ wire' \in SUBSET Sent
    BY <1>17, PushShape
  <2> QED BY <1>0, <1>17, <2>1 DEF TypeOK, Push
<1>18. CASE Settle
  <2>1. batch' \in Seq(Items) /\ pc' \in {"recv", "charge"} /\ queued' \in [Conns -> Nat]
    BY <1>0, <1>e, <1>18, SettleShape DEF TypeOK
  <2> QED BY <1>0, <1>18, <2>1 DEF TypeOK, Settle
<1>19. CASE UNCHANGED vars BY <1>0, <1>19 DEF TypeOK, vars
<1> QED
  BY <1>1, <1>2, <1>3, <1>4, <1>5, <1>6, <1>7, <1>8, <1>9, <1>10, <1>11, <1>12, <1>13, <1>14,
     <1>15, <1>16, <1>17, <1>18, <1>19 DEF Next, Thread

-----------------------------------------------------------------------------
(* The list of backends and their queues *)

\* The steps of the thread that leave the connections and the queues alone.
Inner == Receive \/ Exit \/ WaitSlot \/ Collect \/ Pick \/ Number \/ Charge \/ Settle

LEMMA InnerKeeps ==
    ASSUME Inner
    PROVE  /\ UNCHANGED <<conn, connEpoch, backends, queue, drained, wire, seqEpoch, epoch, resetting>>
           /\ ~(Charge \/ Settle) => UNCHANGED queued
<1> USE DEF epochVars, connVars, queueVars, ghosts
<1>1. CASE Receive BY <1>1 DEF Receive
<1>2. CASE Exit BY <1>2 DEF Exit
<1>3. CASE WaitSlot BY <1>3 DEF WaitSlot
<1>4. CASE Collect BY <1>4 DEF Collect
<1>5. CASE Pick BY <1>5 DEF Pick
<1>6. CASE Number BY <1>6 DEF Number
<1>7. CASE Charge BY <1>7 DEF Charge
<1>8. CASE Settle BY <1>8 DEF Settle
<1> QED BY <1>1, <1>2, <1>3, <1>4, <1>5, <1>6, <1>7, <1>8 DEF Inner

\* The cases of a step.
LEMMA Cases ==
    ASSUME [Next]_vars
    PROVE  \/ Enqueue \/ Drop \/ Inner \/ Push \/ UNCHANGED vars
           \/ \E c \in Conns : \/ \E n \in 1..Cap : Drain(c, n)
                               \/ Delivered(c) \/ Join(c) \/ ResetEpoch(c) \/ Rotated(c)
                               \/ Register(c) \/ Unregister(c)
BY DEF Next, Thread, Inner

LEMMA BackendsInit == Init => BackendsInv
<1> SUFFICES ASSUME Init PROVE BackendsInv
  OBVIOUS
<1>1. DOMAIN <<>> = {} /\ Len(<<>>) = 0 OBVIOUS
<1>2. Injective(backends) /\ Elems(backends) = {} BY <1>1 DEF Init, Injective, Elems
<1>3. {c \in Conns : conn[c] = "up"} = {} BY DEF Init
<1>4. \A c \in Conns : Len(queue[c]) <= Cap BY <1>1, DispatchAssumption DEF Init
<1> QED BY <1>2, <1>3, <1>4 DEF BackendsInv

LEMMA BackendsNext == DispatchInv /\ [Next]_vars => BackendsInv'
<1> SUFFICES ASSUME DispatchInv, [Next]_vars PROVE BackendsInv'
  OBVIOUS
<1> USE DEF threadVars, epochVars, connVars, pickVars, queueVars, ghosts
<1>0. /\ BackendsInv /\ backends \in Seq(Conns) /\ conn \in [Conns -> {"off", "joined", "up"}]
      /\ queue \in [Conns -> Seq(Items)] /\ Cap \in Nat
  BY DispatchAssumption DEF DispatchInv, TypeOK
<1> DEFINE up == {c \in Conns : conn[c] = "up"}
<1>1. ASSUME UNCHANGED <<backends, conn, queue>> PROVE BackendsInv'
  BY <1>0, <1>1 DEF BackendsInv, Injective, Elems
<1>2. ASSUME NEW c \in Conns, NEW n \in 1..Cap, Drain(c, n) PROVE BackendsInv'
  <2>1. queue[c] \in Seq(Items) /\ n \in 1..Len(queue[c]) BY <1>0, <1>2 DEF Drain
  <2>2. Len(SubSeq(queue[c], n + 1, Len(queue[c]))) = Len(queue[c]) - n BY <2>1, SplitForm
  <2>3. UNCHANGED <<backends, conn>> BY <1>2 DEF Drain
  <2>4. ASSUME NEW d \in Conns PROVE Len(queue'[d]) <= Cap
    <3>1. CASE d = c
      <4>1. Len(queue'[d]) = Len(queue[c]) - n BY <1>0, <1>2, <2>2, <3>1 DEF Drain
      <4>2. Len(queue[c]) <= Cap BY <1>0 DEF BackendsInv
      <4> QED BY <1>0, <2>1, <4>1, <4>2
    <3>2. CASE d # c
      <4>1. queue'[d] = queue[d] BY <1>0, <1>2, <3>2 DEF Drain
      <4> QED BY <1>0, <4>1 DEF BackendsInv
    <3> QED BY <3>1, <3>2
  <2> QED BY <1>0, <2>3, <2>4 DEF BackendsInv, Injective, Elems
<1>3. ASSUME NEW c \in Conns, Join(c) \/ Rotated(c) PROVE BackendsInv'
  <2>1. conn[c] = "off"
    <3>1. CASE Join(c) BY <3>1 DEF Join
    <3>2. CASE Rotated(c)
      <4>1. resetting = {c} BY <3>2 DEF Rotated
      <4> QED BY <4>1 DEF DispatchInv, EpochInv
    <3> QED BY <1>3, <3>1, <3>2
  <2>2. UNCHANGED <<backends, queue>> /\ conn' = [conn EXCEPT ![c] = "joined"]
    BY <1>3 DEF Join, Rotated
  <2>3. {d \in Conns : conn'[d] = "up"} = up BY <1>0, <2>1, <2>2
  <2> QED BY <1>0, <2>2, <2>3 DEF BackendsInv, Injective, Elems
<1>4. ASSUME NEW c \in Conns, Register(c) PROVE BackendsInv'
  <2>1. /\ conn[c] = "joined" /\ conn' = [conn EXCEPT ![c] = "up"] /\ backends' = Append(backends, c)
        /\ queue' = [queue EXCEPT ![c] = <<>>]
    BY <1>4 DEF Register
  <2>2. {d \in Conns : conn'[d] = "up"} = up \cup {c} BY <1>0, <2>1
  <2>3. /\ Len(backends) \in Nat /\ DOMAIN backends = 1..Len(backends)
        /\ DOMAIN backends' = 1..Len(backends) + 1 /\ backends'[Len(backends) + 1] = c
        /\ \A i \in 1..Len(backends) : backends'[i] = backends[i]
    BY <1>0, <2>1
  <2>4. Elems(backends') = Elems(backends) \cup {c} BY <2>3 DEF Elems
  <2>5. \A i \in 1..Len(backends) : backends[i] # c
    BY <1>0, <2>1, <2>3 DEF BackendsInv, Elems
  <2>6. Injective(backends')
    <3>1. Injective(backends) BY <1>0 DEF BackendsInv
    <3>2. ASSUME NEW i \in DOMAIN backends', NEW j \in DOMAIN backends', backends'[i] = backends'[j]
          PROVE  i = j
      <4>1. CASE i \in 1..Len(backends) /\ j \in 1..Len(backends)
        BY <2>3, <3>1, <3>2, <4>1 DEF Injective
      <4>2. CASE i = Len(backends) + 1 \/ j = Len(backends) + 1
        BY <2>3, <2>5, <3>2, <4>2
      <4> QED BY <2>3, <4>1, <4>2
    <3> QED BY <3>2 DEF Injective
  <2>7. Len(<<>>) = 0 OBVIOUS
  <2>8. \A d \in Conns : Len(queue'[d]) <= Cap BY <1>0, <2>1, <2>7 DEF BackendsInv
  <2>9. Elems(backends') = {d \in Conns : conn'[d] = "up"} BY <1>0, <2>2, <2>4 DEF BackendsInv
  <2> QED BY <2>6, <2>8, <2>9 DEF BackendsInv, Injective, Elems
<1>5. ASSUME NEW c \in Conns, Unregister(c) PROVE BackendsInv'
  <2>1. /\ conn' = [conn EXCEPT ![c] = "off"] /\ backends' = Without(backends, c)
        /\ queue' = queue
    BY <1>5 DEF Unregister
  <2>2. {d \in Conns : conn'[d] = "up"} = up \ {c} BY <1>0, <2>1
  <2>3. Elems(backends') = Elems(backends) \ {c} /\ Injective(backends')
    BY <1>0, <2>1, WithoutForm DEF BackendsInv
  <2>4. Elems(backends') = {d \in Conns : conn'[d] = "up"} BY <1>0, <2>2, <2>3 DEF BackendsInv
  <2> QED BY <1>0, <2>1, <2>3, <2>4 DEF BackendsInv, Injective, Elems
<1>6. CASE Push
  <2>1. UNCHANGED <<backends, conn>> BY <1>6 DEF Push
  <2>2. \A d \in Conns : Len(queue'[d]) <= Cap BY <1>0, <1>6, PushShape DEF BackendsInv
  <2> QED BY <1>0, <2>1, <2>2 DEF BackendsInv, Injective, Elems
<1>7. CASE Enqueue \/ Drop BY <1>1, <1>7 DEF Enqueue, Drop
<1>8. CASE Inner BY <1>1, <1>8, InnerKeeps
<1>9. CASE UNCHANGED vars BY <1>1, <1>9 DEF vars
<1>10. ASSUME NEW c \in Conns, Delivered(c) \/ ResetEpoch(c) PROVE BackendsInv'
  BY <1>1, <1>10 DEF Delivered, ResetEpoch
<1> QED BY <1>2, <1>3, <1>4, <1>5, <1>6, <1>7, <1>8, <1>9, <1>10, Cases

-----------------------------------------------------------------------------
(* Charges *)

LEMMA ChargeInit == Init => ChargeInv
BY DEF Init, ChargeInv

\* Outside push and settle nothing is pending.
LEMMA NothingPending ==
    ASSUME pc \notin {"push", "settle"}
    PROVE  \A c \in Conns : Pending(c) = 0
BY DEF Pending

LEMMA ChargeNext == DispatchInv /\ [Next]_vars => ChargeInv'
<1> SUFFICES ASSUME DispatchInv, [Next]_vars PROVE ChargeInv'
  OBVIOUS
<1> USE DEF threadVars, epochVars, connVars, pickVars, queueVars, ghosts
<1>0. /\ ChargeInv /\ conn \in [Conns -> {"off", "joined", "up"}]
      /\ queue \in [Conns -> Seq(Items)] /\ drained \in [Conns -> Nat] /\ queued \in [Conns -> Nat]
      /\ batch \in Seq(Items) /\ Len(batch) \in Nat
      /\ \A c \in Conns : Len(queue[c]) \in Nat
  BY DEF DispatchInv, TypeOK
<1>1. ASSUME UNCHANGED <<backends, idx, pc, batch, conn, queue, drained, queued>> PROVE ChargeInv'
  BY <1>0, <1>1 DEF ChargeInv, Pending
<1>2. ASSUME NEW c \in Conns, NEW n \in 1..Cap, Drain(c, n) PROVE ChargeInv'
  <2>1. queue[c] \in Seq(Items) /\ n \in 1..Len(queue[c]) /\ drained[c] = 0 BY <1>0, <1>2 DEF Drain
  <2>2. Len(SubSeq(queue[c], n + 1, Len(queue[c]))) = Len(queue[c]) - n BY <2>1, SplitForm
  <2>3. UNCHANGED <<backends, idx, pc, batch, conn, queued>> BY <1>2 DEF Drain
  <2>4. \A d \in Conns : Pending(d)' = Pending(d) BY <2>3 DEF Pending
  <2>5. ASSUME NEW d \in Conns PROVE Len(queue'[d]) + drained'[d] = Len(queue[d]) + drained[d]
    <3>1. CASE d = c
      <4>1. Len(queue'[d]) = Len(queue[c]) - n /\ drained'[d] = n
        BY <1>0, <1>2, <2>2, <3>1 DEF Drain
      <4> QED BY <1>0, <2>1, <3>1, <4>1
    <3>2. CASE d # c
      <4>1. queue'[d] = queue[d] /\ drained'[d] = drained[d] BY <1>0, <1>2, <3>2 DEF Drain
      <4> QED BY <1>0, <4>1
    <3> QED BY <3>1, <3>2
  <2> QED BY <1>0, <2>3, <2>4, <2>5 DEF ChargeInv
<1>3. ASSUME NEW c \in Conns, Delivered(c) PROVE ChargeInv'
  <2>1. UNCHANGED <<backends, idx, pc, batch, conn, queue>> /\ conn[c] = "up" BY <1>3 DEF Delivered
  <2>2. \A d \in Conns : Pending(d)' = Pending(d) /\ Pending(d) \in Nat BY <1>0, <2>1 DEF Pending
  <2>3. queued[c] = Len(queue[c]) + drained[c] + Pending(c) BY <1>0, <2>1 DEF ChargeInv
  <2>4. drained[c] <= queued[c] BY <1>0, <2>2, <2>3
  <2>5. Less(queued[c], drained[c]) = queued[c] - drained[c]
    <3>1. PICK a, b : a = queued[c] /\ b = drained[c] OBVIOUS
    <3> QED BY <1>0, <2>4, <3>1, LessExact
  <2>6. ASSUME NEW d \in Conns, conn[d] = "up"
        PROVE  queued'[d] = Len(queue[d]) + drained'[d] + Pending(d)
    <3>1. CASE d = c
      <4>1. queued'[d] = queued[c] - drained[c] /\ drained'[d] = 0
        BY <1>0, <1>3, <2>5, <3>1 DEF Delivered
      <4> QED BY <1>0, <2>2, <2>3, <3>1, <4>1
    <3>2. CASE d # c
      <4>1. queued'[d] = queued[d] /\ drained'[d] = drained[d] BY <1>0, <1>3, <3>2 DEF Delivered
      <4> QED BY <1>0, <2>6, <4>1 DEF ChargeInv
    <3> QED BY <3>1, <3>2
  <2> QED BY <1>0, <2>1, <2>2, <2>6 DEF ChargeInv
<1>4. ASSUME NEW c \in Conns, Join(c) \/ Rotated(c) PROVE ChargeInv'
  <2>1. UNCHANGED <<backends, idx, pc, batch, queue, drained, queued>> BY <1>4 DEF Join, Rotated
  <2>2. conn' = [conn EXCEPT ![c] = "joined"] BY <1>4 DEF Join, Rotated
  <2>3. \A d \in Conns : conn'[d] = "up" => conn[d] = "up" BY <1>0, <2>2
  <2> QED BY <1>0, <2>1, <2>3 DEF ChargeInv, Pending
<1>5. ASSUME NEW c \in Conns, Register(c) PROVE ChargeInv'
  <2>1. UNCHANGED <<idx, pc, batch>> /\ pc \notin {"push", "settle"} BY <1>5 DEF Register, Locked
  <2>2. \A d \in Conns : Pending(d)' = 0 /\ Pending(d) = 0 BY <2>1 DEF Pending
  <2>3. ASSUME NEW d \in Conns, conn'[d] = "up"
        PROVE  queued'[d] = Len(queue'[d]) + drained'[d]
    <3>1. CASE d = c
      <4>1. queued'[d] = 0 /\ drained'[d] = 0 /\ queue'[d] = <<>> BY <1>0, <1>5, <3>1 DEF Register
      <4>2. Len(<<>>) = 0 OBVIOUS
      <4> QED BY <4>1, <4>2
    <3>2. CASE d # c
      <4>1. /\ queued'[d] = queued[d] /\ drained'[d] = drained[d] /\ queue'[d] = queue[d]
            /\ conn[d] = "up"
        BY <1>0, <1>5, <2>3, <3>2 DEF Register
      <4>2. queued[d] = Len(queue[d]) + drained[d] + 0 BY <1>0, <2>2, <4>1 DEF ChargeInv
      <4> QED BY <1>0, <4>1, <4>2
    <3> QED BY <3>1, <3>2
  <2>4. ASSUME NEW d \in Conns, conn'[d] = "up"
        PROVE  queued'[d] = Len(queue'[d]) + drained'[d] + Pending(d)'
    <3>1. /\ queued'[d] \in Nat /\ drained'[d] \in Nat /\ Len(queue'[d]) \in Nat
      BY <1>0, <1>5, TypeNext DEF Register, TypeOK
    <3> QED BY <2>2, <2>3, <2>4, <3>1
  <2> QED BY <2>1, <2>4 DEF ChargeInv
<1>6. ASSUME NEW c \in Conns, Unregister(c) PROVE ChargeInv'
  <2>1. /\ UNCHANGED <<idx, pc, batch, queue, drained, queued>> /\ pc \notin {"push", "settle"}
        /\ conn' = [conn EXCEPT ![c] = "off"]
    BY <1>6 DEF Unregister, Locked
  <2>2. \A d \in Conns : Pending(d)' = Pending(d) BY <2>1 DEF Pending
  <2>3. \A d \in Conns : conn'[d] = "up" => conn[d] = "up" BY <1>0, <2>1
  <2> QED BY <1>0, <2>1, <2>2, <2>3 DEF ChargeInv
<1>7. CASE Push
  <2>1. UNCHANGED <<backends, idx, conn, drained, queued>> BY <1>7 DEF Push
  <2>2. PICK n \in 0..Len(batch) :
          /\ pc = "push" /\ pc' = "settle" /\ Len(batch') = Len(batch) - n
          /\ \A c \in Conns \ {backends[idx]} : queue'[c] = queue[c]
          /\ Len(queue'[backends[idx]]) = Len(queue[backends[idx]]) + n
    BY <1>7, PushShape
  <2>3. ASSUME NEW d \in Conns, conn[d] = "up"
        PROVE  queued[d] = Len(queue'[d]) + drained[d] + Pending(d)'
    <3>0. queued[d] = Len(queue[d]) + drained[d] + Pending(d) BY <1>0, <2>3 DEF ChargeInv
    <3>1. CASE d = backends[idx]
      <4>1. Pending(d) = Len(batch) /\ Pending(d)' = Len(batch) - n
        BY <2>1, <2>2, <3>1 DEF Pending
      <4>2. Len(queue'[d]) = Len(queue[d]) + n BY <2>2, <3>1
      <4>3. Len(queue[d]) \in Nat /\ drained[d] \in Nat BY <1>0
      <4> QED BY <1>0, <3>0, <4>1, <4>2, <4>3
    <3>2. CASE d # backends[idx]
      <4>1. Pending(d) = 0 /\ Pending(d)' = 0 BY <2>1, <3>2 DEF Pending
      <4> QED BY <1>0, <2>2, <3>0, <3>2, <4>1
    <3> QED BY <3>1, <3>2
  <2>4. idx \in DOMAIN backends BY <1>0, <2>2 DEF ChargeInv
  <2> QED BY <2>1, <2>3, <2>4 DEF ChargeInv
<1>8. CASE Charge
  <2>1. UNCHANGED <<backends, conn, queue, drained, idx>> BY <1>8 DEF Charge
  <2>2. pc \notin {"push", "settle"} BY <1>8, ChargeShape
  <2>3. \A d \in Conns : Pending(d) = 0 BY <2>2, NothingPending
  <2>4. CASE pc' = "recv" /\ queued' = queued
    <3>1. \A d \in Conns : Pending(d)' = 0 BY <2>4 DEF Pending
    <3> QED BY <1>0, <2>1, <2>3, <2>4, <3>1 DEF ChargeInv
  <2>5. CASE /\ pc' = "push" /\ batch' = batch /\ idx \in DOMAIN backends
             /\ queued'[backends[idx]] = queued[backends[idx]] + Len(batch)
             /\ \A c \in Conns \ {backends[idx]} : queued'[c] = queued[c]
    <3>1. ASSUME NEW d \in Conns, conn[d] = "up"
          PROVE  queued'[d] = Len(queue[d]) + drained[d] + Pending(d)'
      <4>0. queued[d] = Len(queue[d]) + drained[d] + 0 BY <1>0, <2>3, <3>1 DEF ChargeInv
      <4>1. CASE d = backends[idx]
        <5>1. Pending(d)' = Len(batch) BY <2>1, <2>5, <4>1 DEF Pending
        <5> QED BY <1>0, <2>5, <4>0, <4>1, <5>1
      <4>2. CASE d # backends[idx]
        <5>1. Pending(d)' = 0 BY <2>1, <4>2 DEF Pending
        <5> QED BY <1>0, <2>5, <4>0, <4>2, <5>1
      <4> QED BY <4>1, <4>2
    <3> QED BY <2>1, <2>5, <3>1 DEF ChargeInv
  <2> QED BY <1>8, <2>4, <2>5, ChargeShape
<1>9. CASE Settle
  <2>1. UNCHANGED <<backends, conn, queue, drained>> BY <1>9 DEF Settle
  <2>2. /\ pc = "settle" /\ pc' \notin {"push", "settle"}
        /\ queued'[backends[idx]] = queued[backends[idx]] - Len(batch)
        /\ \A c \in Conns \ {backends[idx]} : queued'[c] = queued[c]
    BY <1>9, SettleShape
  <2>3. ASSUME NEW d \in Conns, conn[d] = "up"
        PROVE  queued'[d] = Len(queue[d]) + drained[d] + Pending(d)'
    <3>0. queued[d] = Len(queue[d]) + drained[d] + Pending(d) BY <1>0, <2>3 DEF ChargeInv
    <3>1. Pending(d)' = 0 BY <2>2 DEF Pending
    <3>2. CASE d = backends[idx]
      <4>1. Pending(d) = Len(batch) BY <2>2, <3>2 DEF Pending
      <4> QED BY <1>0, <2>2, <3>0, <3>1, <3>2, <4>1
    <3>3. CASE d # backends[idx]
      <4>1. Pending(d) = 0 BY <3>3 DEF Pending
      <4> QED BY <1>0, <2>2, <3>0, <3>1, <3>3, <4>1
    <3> QED BY <3>2, <3>3
  <2> QED BY <2>1, <2>2, <2>3 DEF ChargeInv
<1>10. CASE Inner /\ ~(Charge \/ Settle)
  <2>1. UNCHANGED <<conn, backends, queue, drained, queued>> BY <1>10, InnerKeeps
  <2>2. pc \notin {"push", "settle"} /\ pc' \notin {"push", "settle"}
    BY <1>10 DEF Inner, Receive, Exit, WaitSlot, Collect, Pick, Number
  <2>3. \A d \in Conns : Pending(d) = 0 /\ Pending(d)' = 0 BY <2>2 DEF Pending
  <2> QED BY <1>0, <2>1, <2>2, <2>3 DEF ChargeInv
<1>11. CASE Enqueue \/ Drop \/ UNCHANGED vars BY <1>1, <1>11 DEF Enqueue, Drop, vars
<1>12. ASSUME NEW c \in Conns, ResetEpoch(c) PROVE ChargeInv'
  BY <1>1, <1>12 DEF ResetEpoch
<1> QED BY <1>2, <1>3, <1>4, <1>5, <1>6, <1>7, <1>8, <1>9, <1>10, <1>11, <1>12, Cases

-----------------------------------------------------------------------------
(* Epochs *)

LEMMA EpochInit == Init => EpochInv
BY DEF Init, EpochInv

LEMMA EpochNext == DispatchInv /\ [Next]_vars => EpochInv'
<1> SUFFICES ASSUME DispatchInv, [Next]_vars PROVE EpochInv'
  OBVIOUS
<1> USE DEF threadVars, epochVars, connVars, pickVars, queueVars, ghosts
<1>0. /\ EpochInv /\ conn \in [Conns -> {"off", "joined", "up"}] /\ connEpoch \in [Conns -> Nat]
      /\ epoch \in Nat /\ seqEpoch \in Nat /\ wire \in SUBSET Sent
  BY DEF DispatchInv, TypeOK
<1>1. ASSUME UNCHANGED <<resetting, seqEpoch, epoch, conn, connEpoch, wire>> PROVE EpochInv'
  BY <1>0, <1>1 DEF EpochInv
<1>2. ASSUME NEW c \in Conns, Join(c) PROVE EpochInv'
  <2>1. /\ resetting = {} /\ UNCHANGED <<resetting, seqEpoch, epoch, wire>>
        /\ connEpoch' = [connEpoch EXCEPT ![c] = epoch]
    BY <1>2 DEF Join
  <2>2. seqEpoch = epoch BY <1>0, <2>1 DEF EpochInv
  <2>3. \A d \in Conns : connEpoch'[d] <= epoch BY <1>0, <2>1 DEF EpochInv
  <2> QED BY <1>0, <2>1, <2>2, <2>3 DEF EpochInv
<1>3. ASSUME NEW c \in Conns, ResetEpoch(c) PROVE EpochInv'
  <2>1. /\ resetting = {} /\ UNCHANGED <<conn, connEpoch, epoch, wire>>
        /\ resetting' = {c} /\ seqEpoch' = seqEpoch + 1 /\ conn[c] = "off"
    BY <1>3 DEF ResetEpoch
  <2>2. seqEpoch = epoch BY <1>0, <2>1 DEF EpochInv
  <2> QED BY <1>0, <2>1, <2>2 DEF EpochInv
<1>4. ASSUME NEW c \in Conns, Rotated(c) PROVE EpochInv'
  <2>1. /\ resetting = {c} /\ UNCHANGED <<seqEpoch, wire>>
        /\ resetting' = {} /\ epoch' = epoch + 1
        /\ connEpoch' = [connEpoch EXCEPT ![c] = epoch + 1]
    BY <1>4 DEF Rotated
  <2>2. seqEpoch = epoch + 1 BY <1>0, <2>1 DEF EpochInv
  <2>3. \A d \in Conns : connEpoch'[d] <= epoch + 1 BY <1>0, <2>1 DEF EpochInv
  <2>4. \A w \in wire : w.epoch <= epoch + 1
    <3>1. \A w \in wire : w.epoch \in Nat BY <1>0 DEF Sent
    <3> QED BY <1>0, <3>1 DEF EpochInv
  <2> QED BY <2>1, <2>2, <2>3, <2>4 DEF EpochInv
<1>5. ASSUME NEW c \in Conns, Register(c) \/ Unregister(c) PROVE EpochInv'
  <2>1. /\ UNCHANGED <<resetting, seqEpoch, epoch, connEpoch, wire>> /\ conn[c] # "off"
        /\ \A d \in Conns \ {c} : conn'[d] = conn[d]
    BY <1>0, <1>5 DEF Register, Unregister
  <2> QED BY <1>0, <2>1 DEF EpochInv
<1>6. CASE Push
  <2>1. UNCHANGED <<resetting, seqEpoch, epoch, conn, connEpoch>> BY <1>6 DEF Push
  <2>2. \A w \in wire' : w.epoch <= epoch
    <3> SUFFICES ASSUME NEW w \in wire' PROVE w.epoch <= epoch
      OBVIOUS
    <3>1. /\ backends[idx] \in Conns
          /\ w \in wire \/ w.epoch = connEpoch[backends[idx]]
      BY <1>6, PushShape
    <3> QED BY <1>0, <3>1 DEF EpochInv
  <2> QED BY <1>0, <2>1, <2>2 DEF EpochInv
<1>7. CASE Enqueue \/ Drop \/ UNCHANGED vars BY <1>1, <1>7 DEF Enqueue, Drop, vars
<1>8. CASE Inner BY <1>1, <1>8, InnerKeeps
<1>9. ASSUME NEW c \in Conns, NEW n \in 1..Cap, Drain(c, n) PROVE EpochInv'
  BY <1>1, <1>9 DEF Drain
<1>10. ASSUME NEW c \in Conns, Delivered(c) PROVE EpochInv'
  BY <1>1, <1>10 DEF Delivered
<1> QED BY <1>2, <1>3, <1>4, <1>5, <1>6, <1>7, <1>8, <1>9, <1>10, Cases

-----------------------------------------------------------------------------
(* Numbers *)

LEMMA StageInit == Init => StageInv
BY DEF Init, StageInv

LEMMA StageNext == DispatchInv /\ [Next]_vars => StageInv'
<1> SUFFICES ASSUME DispatchInv, [Next]_vars PROVE StageInv'
  OBVIOUS
<1> USE DEF threadVars, epochVars, connVars, pickVars, queueVars, ghosts
<1>0. /\ StageInv /\ batch \in Seq(Items) /\ Len(batch) \in Nat /\ DOMAIN batch = 1..Len(batch)
  BY DEF DispatchInv, TypeOK
<1>e. DOMAIN <<>> = {} OBVIOUS
<1>1. ASSUME UNCHANGED <<pc, batch>> PROVE StageInv'
  BY <1>0, <1>1 DEF StageInv
<1>2. CASE Receive
  <2>1. batch' = <<Unnumbered(Head(input))>> /\ pc' = "wait" BY <1>2 DEF Receive
  <2>2. \A i \in DOMAIN batch' : batch'[i].seq = 0 BY <2>1 DEF Unnumbered
  <2> QED BY <2>1, <2>2 DEF StageInv
<1>3. CASE Exit BY <1>0, <1>3 DEF Exit, StageInv
<1>4. CASE WaitSlot BY <1>0, <1>4 DEF WaitSlot, StageInv
<1>5. CASE Collect
  <2>1. batch' = Append(batch, Unnumbered(Head(input))) /\ pc' = pc /\ pc = "collect"
    BY <1>5 DEF Collect
  <2>2. /\ DOMAIN batch' = 1..Len(batch) + 1 /\ batch'[Len(batch) + 1] = Unnumbered(Head(input))
        /\ \A i \in 1..Len(batch) : batch'[i] = batch[i]
    <3>1. PICK x : x = Unnumbered(Head(input)) OBVIOUS
    <3> QED BY <1>0, <2>1, <3>1
  <2>3. Unnumbered(Head(input)).seq = 0 BY DEF Unnumbered
  <2>4. \A i \in DOMAIN batch' : batch'[i].seq = 0 BY <1>0, <2>1, <2>2, <2>3 DEF StageInv
  <2> QED BY <2>1, <2>4 DEF StageInv
<1>6. CASE Pick
  <2>1. (pc' = "recv" /\ batch' = <<>>) \/ pc' = "number" BY <1>6 DEF Pick
  <2> QED BY <2>1 DEF StageInv
<1>7. CASE Number
  <2>1. pc' = "number" BY <1>7 DEF Number
  <2> QED BY <2>1 DEF StageInv
<1>8. CASE Charge
  <2>1. \A i \in DOMAIN batch : batch[i].seq > 0 BY <1>0, <1>8 DEF Charge, AllNumbered, StageInv
  <2>2. (pc' = "recv" /\ batch' = <<>>) \/ (pc' = "push" /\ batch' = batch) BY <1>8, ChargeShape
  <2> QED BY <2>1, <2>2 DEF StageInv
<1>9. CASE Push
  <2>1. PICK n \in 0..Len(batch) :
          /\ pc = "push" /\ pc' = "settle" /\ Len(batch') = Len(batch) - n
          /\ \A i \in 1..Len(batch) - n : batch'[i] = batch[i + n]
    BY <1>9, PushShape
  <2>2. batch' \in Seq(Items) BY <1>9, PushShape
  <2>3. DOMAIN batch' = 1..Len(batch) - n BY <2>1, <2>2
  <2>4. \A i \in DOMAIN batch' : batch'[i].seq > 0
    <3> SUFFICES ASSUME NEW i \in 1..Len(batch) - n PROVE batch'[i].seq > 0
      BY <2>3
    <3>1. i + n \in DOMAIN batch BY <1>0
    <3> QED BY <1>0, <2>1, <3>1 DEF StageInv
  <2> QED BY <2>1, <2>4 DEF StageInv
<1>10. CASE Settle
  <2>1. \/ pc' = "recv" /\ batch' = <<>>
        \/ pc = "settle" /\ pc' = "charge" /\ batch' = batch
    BY <1>10, SettleShape
  <2> QED BY <1>0, <2>1 DEF StageInv
<1>11. CASE Enqueue \/ Drop \/ UNCHANGED vars BY <1>1, <1>11 DEF Enqueue, Drop, vars
<1>12. ASSUME NEW c \in Conns,
              \/ Delivered(c) \/ Join(c) \/ ResetEpoch(c) \/ Rotated(c)
              \/ Register(c) \/ Unregister(c) \/ \E n \in 1..Cap : Drain(c, n)
       PROVE  StageInv'
  BY <1>1, <1>12 DEF Drain, Delivered, Join, ResetEpoch, Rotated, Register, Unregister
<1> QED BY <1>2, <1>3, <1>4, <1>5, <1>6, <1>7, <1>8, <1>9, <1>10, <1>11, <1>12, Cases DEF Inner

LEMMA NumberInit == Init => NumberInv /\ EpochPure
<1> SUFFICES ASSUME Init PROVE NumberInv /\ EpochPure
  OBVIOUS
<1>1. DOMAIN <<>> = {} OBVIOUS
<1>2. DOMAIN batch = {} /\ Current = {} /\ wire = {} BY <1>1 DEF Init, Current
<1> QED BY <1>2 DEF NumberInv, EpochPure

\* A batch that only lost items keeps the invariant.
LEMMA NumberShrinks ==
    ASSUME DispatchInv, NEW b, DOMAIN b \subseteq Nat,
           NEW f \in [DOMAIN b -> DOMAIN batch],
           \A i, j \in DOMAIN b : f[i] = f[j] => i = j,
           \A i \in DOMAIN b : b[i] = batch[f[i]]
    PROVE  /\ \A i \in DOMAIN b : b[i].epoch <= seqEpoch
           /\ \A i \in DOMAIN b : Fresh(b[i]) => b[i].seq <= txSeq
           /\ \A i \in DOMAIN b : Fresh(b[i]) => \A w \in Current : w.seq # b[i].seq
           /\ \A i, j \in DOMAIN b :
                Fresh(b[i]) /\ Fresh(b[j]) /\ b[i].seq = b[j].seq => i = j
           /\ Locked => \A i \in DOMAIN b, c \in Conns :
                conn[c] = "up" /\ b[i].seq > 0 /\ connEpoch[c] = seqEpoch => Fresh(b[i])
<1>0. NumberInv BY DEF DispatchInv
<1>1. \A i \in DOMAIN b : f[i] \in DOMAIN batch /\ b[i] = batch[f[i]] OBVIOUS
<1>2. ASSUME NEW i \in DOMAIN b, NEW j \in DOMAIN b, Fresh(b[i]), Fresh(b[j]), b[i].seq = b[j].seq
      PROVE  i = j
  <2>1. f[i] = f[j]
    <3> HIDE DEF Fresh
    <3> QED BY <1>0, <1>1, <1>2 DEF NumberInv
  <2> QED BY <2>1
<1> QED BY <1>0, <1>1, <1>2 DEF NumberInv

\* Items of the batch and of the wire, as far as their numbers are concerned.
LEMMA ItemsTyped ==
    ASSUME TypeOK
    PROVE  /\ \A i \in DOMAIN batch : batch[i].seq \in Nat /\ batch[i].epoch \in Nat
           /\ \A w \in wire : w.seq \in Nat /\ w.epoch \in Nat
<1>1. \A i \in DOMAIN batch : batch[i] \in Items BY DEF TypeOK
<1>2. \A w \in wire : w \in Sent BY DEF TypeOK
<1> QED BY <1>1, <1>2 DEF Items, Sent

LEMMA NumberNext == DispatchInv /\ [Next]_vars => NumberInv' /\ EpochPure'
<1> SUFFICES ASSUME DispatchInv, [Next]_vars PROVE NumberInv' /\ EpochPure'
  OBVIOUS
<1> USE DEF threadVars, epochVars, connVars, pickVars, queueVars, ghosts
<1>0. /\ NumberInv /\ EpochPure /\ StageInv /\ EpochInv /\ TypeOK
      /\ batch \in Seq(Items) /\ Len(batch) \in Nat /\ DOMAIN batch = 1..Len(batch)
      /\ txSeq \in Nat /\ seqEpoch \in Nat /\ epoch \in Nat /\ connEpoch \in [Conns -> Nat]
      /\ conn \in [Conns -> {"off", "joined", "up"}]
  BY DEF DispatchInv, TypeOK
<1>t. /\ \A i \in DOMAIN batch : batch[i].seq \in Nat /\ batch[i].epoch \in Nat
      /\ \A w \in wire : w.seq \in Nat /\ w.epoch \in Nat
  BY <1>0, ItemsTyped
<1>e. DOMAIN <<>> = {} OBVIOUS
<1>p. ASSUME UNCHANGED <<wire, seqEpoch>> PROVE EpochPure'
  BY <1>0, <1>p DEF EpochPure
\* A batch of now, or a part of it, with the same numbers behind it.
<1>1. ASSUME UNCHANGED <<wire, txSeq, seqEpoch>>, batch' \in {batch, <<>>},
             Locked' => \/ batch' = <<>>
                        \/ /\ Locked
                           /\ \A c \in Conns : conn'[c] = "up" =>
                                conn[c] = "up" /\ connEpoch'[c] = connEpoch[c]
      PROVE  NumberInv'
  <2>1. Current' = Current /\ \A x : Fresh(x)' <=> Fresh(x) BY <1>1 DEF Current, Fresh
  <2>2. CASE batch' = <<>>
    <3>1. DOMAIN batch' = {} BY <1>e, <2>2
    <3>2. \A w \in Current : w.seq <= txSeq BY <1>0 DEF NumberInv
    <3> QED BY <1>1, <2>1, <3>1, <3>2 DEF NumberInv
  <2>3. CASE batch' = batch /\ batch # <<>>
    BY <1>0, <1>1, <2>1, <2>3 DEF NumberInv, Fresh
  <2> QED BY <1>1, <2>2, <2>3
<1>2. CASE Enqueue \/ Drop \/ UNCHANGED vars
  <2>1. UNCHANGED <<wire, txSeq, seqEpoch, batch, pc, conn, connEpoch>>
    BY <1>2 DEF Enqueue, Drop, vars
  <2> QED BY <1>1, <1>p, <2>1 DEF Locked
<1>3. ASSUME NEW c \in Conns, Delivered(c) \/ \E n \in 1..Cap : Drain(c, n)
      PROVE  NumberInv' /\ EpochPure'
  <2>1. UNCHANGED <<wire, txSeq, seqEpoch, batch, pc, conn, connEpoch>>
    BY <1>3 DEF Delivered, Drain
  <2> QED BY <1>1, <1>p, <2>1 DEF Locked
<1>4. ASSUME NEW c \in Conns, Join(c) \/ Rotated(c) PROVE NumberInv' /\ EpochPure'
  <2>1. /\ UNCHANGED <<wire, txSeq, seqEpoch, batch, pc>>
        /\ conn' = [conn EXCEPT ![c] = "joined"] /\ \E e : connEpoch' = [connEpoch EXCEPT ![c] = e]
    BY <1>4 DEF Join, Rotated
  <2>2. \A d \in Conns : conn'[d] = "up" => conn[d] = "up" /\ connEpoch'[d] = connEpoch[d]
    BY <1>0, <2>1
  <2> QED BY <1>1, <1>p, <2>1, <2>2 DEF Locked
<1>5. ASSUME NEW c \in Conns, Register(c) \/ Unregister(c) PROVE NumberInv' /\ EpochPure'
  <2>1. /\ UNCHANGED <<wire, txSeq, seqEpoch, batch, pc>> /\ ~Locked
    BY <1>5 DEF Register, Unregister
  <2> QED BY <1>1, <1>p, <2>1 DEF Locked
<1>6. ASSUME NEW c \in Conns, ResetEpoch(c) PROVE NumberInv' /\ EpochPure'
  <2>1. /\ resetting = {} /\ txSeq' = 0 /\ seqEpoch' = seqEpoch + 1
        /\ UNCHANGED <<wire, batch, conn, connEpoch>>
    BY <1>6 DEF ResetEpoch
  <2>2. seqEpoch = epoch BY <1>0, <2>1 DEF EpochInv
  <2>3. \A i \in DOMAIN batch : batch[i].epoch <= seqEpoch /\ batch[i].epoch # seqEpoch + 1
    BY <1>0, <1>t DEF NumberInv
  <2>4. \A w \in wire : w.epoch # seqEpoch + 1 BY <1>0, <1>t, <2>2 DEF EpochInv
  <2>5. \A d \in Conns : connEpoch[d] # seqEpoch + 1 BY <1>0, <2>2 DEF EpochInv
  <2>6. Current' = {} BY <2>1, <2>4 DEF Current
  <2>7. \A i \in DOMAIN batch : ~Fresh(batch[i])' BY <2>1, <2>3 DEF Fresh
  <2>8. \A i \in DOMAIN batch : batch[i].epoch <= seqEpoch + 1 BY <1>0, <1>t, <2>3
  <2>9. EpochPure' BY <2>1, <2>4 DEF EpochPure
  <2> HIDE DEF Fresh, Current
  <2>10. NumberInv' BY <2>1, <2>5, <2>6, <2>7, <2>8 DEF NumberInv
  <2> QED BY <2>9, <2>10
<1>7. ASSUME UNCHANGED <<wire, txSeq, seqEpoch>>,
             \A i \in DOMAIN batch' : batch'[i].seq = 0 /\ batch'[i].epoch <= seqEpoch
      PROVE  NumberInv'
  <2>1. \A i \in DOMAIN batch' : ~Fresh(batch[i])' BY <1>7 DEF Fresh
  <2>2. Current' = Current BY <1>7 DEF Current
  <2>3. \A w \in Current : w.seq <= txSeq BY <1>0 DEF NumberInv
  <2>4. \A i \in DOMAIN batch' : ~(batch'[i].seq > 0) BY <1>7
  <2> HIDE DEF Fresh, Current
  <2> QED BY <1>7, <2>1, <2>2, <2>3, <2>4 DEF NumberInv
<1>8. CASE Receive \/ Collect
  <2>0. UNCHANGED <<wire, txSeq, seqEpoch>> BY <1>8 DEF Receive, Collect
  <2>1. Unnumbered(Head(input)).seq = 0 /\ Unnumbered(Head(input)).epoch = 0 BY DEF Unnumbered
  <2>2. \A i \in DOMAIN batch' : batch'[i].seq = 0 /\ batch'[i].epoch <= seqEpoch
    <3>1. PICK x : x = Unnumbered(Head(input)) OBVIOUS
    <3>2. CASE Receive
      <4>1. batch' = <<x>> BY <3>1, <3>2 DEF Receive
      <4> QED BY <1>0, <2>1, <3>1, <4>1
    <3>3. CASE Collect
      <4>1. batch' = Append(batch, x) /\ pc = "collect" BY <3>1, <3>3 DEF Collect
      <4>2. /\ DOMAIN batch' = 1..Len(batch) + 1 /\ batch'[Len(batch) + 1] = x
            /\ \A i \in 1..Len(batch) : batch'[i] = batch[i]
        BY <1>0, <4>1
      <4>3. \A i \in 1..Len(batch) : batch[i].seq = 0 /\ batch[i].epoch <= seqEpoch
        BY <1>0, <4>1 DEF StageInv, NumberInv
      <4> QED BY <1>0, <2>1, <3>1, <4>2, <4>3
    <3> QED BY <1>8, <3>2, <3>3
  <2> QED BY <1>7, <1>p, <2>0, <2>2
<1>9. CASE WaitSlot \/ Pick
  <2>1. UNCHANGED <<wire, txSeq, seqEpoch>> /\ pc \in {"wait", "collect"} /\ batch' \in {batch, <<>>}
    BY <1>9 DEF WaitSlot, Pick
  <2>2. \A i \in DOMAIN batch : batch[i].seq = 0 /\ batch[i].epoch <= seqEpoch
    BY <1>0, <2>1 DEF StageInv, NumberInv
  <2>3. \A i \in DOMAIN batch' : batch'[i].seq = 0 /\ batch'[i].epoch <= seqEpoch
    BY <1>e, <2>1, <2>2
  <2> QED BY <1>7, <1>p, <2>1, <2>3
<1>10. CASE Exit
  <2>1. UNCHANGED <<wire, txSeq, seqEpoch, batch>> /\ ~Locked' BY <1>10 DEF Exit, Locked
  <2> QED BY <1>1, <1>p, <2>1
<1>11. CASE Charge
  <2>1. UNCHANGED <<wire, txSeq, seqEpoch, conn, connEpoch>> /\ Locked BY <1>11 DEF Charge, Locked
  <2>2. batch' \in {batch, <<>>} BY <1>11, ChargeShape
  <2> QED BY <1>1, <1>p, <2>1, <2>2
<1>12. CASE Settle
  <2>1. UNCHANGED <<wire, txSeq, seqEpoch, conn, connEpoch>> /\ Locked BY <1>12 DEF Settle, Locked
  <2>2. batch' \in {batch, <<>>} BY <1>12, SettleShape
  <2> QED BY <1>1, <1>p, <2>1, <2>2
<1>13. CASE Number
  <2>0. UNCHANGED <<wire, seqEpoch, conn, connEpoch, pc>> /\ pc = "number" /\ Locked
    BY <1>13 DEF Number, Locked
  <2>1. batch' \in Seq(Items) BY <1>13, <1>0, NumberShape
  <2>2. DOMAIN batch' = 1..Len(batch') /\ Len(batch') \in Nat BY <2>1
  <2>3. Current' = Current /\ \A x : Fresh(x)' <=> Fresh(x) BY <2>0 DEF Current, Fresh
  <2>4. PICK k \in 1..Len(batch) :
          /\ batch[k].seq = 0
          /\ \/ /\ txSeq' = txSeq /\ Len(batch') = Len(batch) - 1
                /\ \A i \in 1..Len(batch) - 1 : batch'[i] = batch[IF i < k THEN i ELSE i + 1]
             \/ /\ txSeq' = txSeq + 1 /\ Len(batch') = Len(batch)
                /\ \A i \in 1..Len(batch) \ {k} : batch'[i] = batch[i]
                /\ batch'[k].seq = txSeq + 1 /\ batch'[k].epoch = seqEpoch
    BY <1>13, <1>0, NumberShape
  <2>5. CASE /\ txSeq' = txSeq /\ Len(batch') = Len(batch) - 1
             /\ \A i \in 1..Len(batch) - 1 : batch'[i] = batch[IF i < k THEN i ELSE i + 1]
    <3>1. PICK b : b = batch' OBVIOUS
    <3> DEFINE f == [i \in DOMAIN b |-> IF i < k THEN i ELSE i + 1]
    <3>2. /\ DOMAIN b \subseteq Nat /\ f \in [DOMAIN b -> DOMAIN batch]
          /\ \A i, j \in DOMAIN b : f[i] = f[j] => i = j
          /\ \A i \in DOMAIN b : b[i] = batch[f[i]]
      BY <1>0, <2>2, <2>5, <3>1
    <3> HIDE DEF f
    <3>3. /\ \A i \in DOMAIN b : b[i].epoch <= seqEpoch
          /\ \A i \in DOMAIN b : Fresh(b[i]) => b[i].seq <= txSeq
          /\ \A i \in DOMAIN b : Fresh(b[i]) => \A w \in Current : w.seq # b[i].seq
          /\ \A i, j \in DOMAIN b :
               Fresh(b[i]) /\ Fresh(b[j]) /\ b[i].seq = b[j].seq => i = j
          /\ Locked => \A i \in DOMAIN b, c \in Conns :
               conn[c] = "up" /\ b[i].seq > 0 /\ connEpoch[c] = seqEpoch => Fresh(b[i])
      BY <3>2, NumberShrinks
    <3>4. \A w \in Current : w.seq <= txSeq BY <1>0 DEF NumberInv
    <3>5. NumberInv'
      BY <2>0, <2>3, <2>5, <3>1, <3>3, <3>4 DEF NumberInv, Fresh
    <3> QED BY <1>p, <2>0, <3>5
  <2>6. CASE /\ txSeq' = txSeq + 1 /\ Len(batch') = Len(batch)
             /\ \A i \in 1..Len(batch) \ {k} : batch'[i] = batch[i]
             /\ batch'[k].seq = txSeq + 1 /\ batch'[k].epoch = seqEpoch
    <3>1. DOMAIN batch' = DOMAIN batch BY <1>0, <2>2, <2>6
    <3>2. \A i \in DOMAIN batch' : batch'[i].epoch <= seqEpoch
      BY <1>0, <2>6, <3>1 DEF NumberInv
    <3>3. ASSUME NEW i \in DOMAIN batch', i # k, Fresh(batch'[i])
          PROVE  /\ batch'[i].seq <= txSeq /\ batch'[i].seq \in Nat
                 /\ \A w \in Current : w.seq # batch'[i].seq
      <4>1. batch'[i] = batch[i] /\ i \in DOMAIN batch BY <1>0, <2>6, <3>1, <3>3
      <4>2. Fresh(batch[i]) BY <3>3, <4>1 DEF Fresh
      <4> QED BY <1>0, <1>t, <4>1, <4>2 DEF NumberInv
    <3>4. \A w \in Current : w.seq <= txSeq /\ w.seq \in Nat
      BY <1>0, <1>t DEF NumberInv, Current
    <3>5. \A i \in DOMAIN batch' : Fresh(batch'[i]) =>
            batch'[i].seq <= txSeq + 1 /\ \A w \in Current : w.seq # batch'[i].seq
      <4> SUFFICES ASSUME NEW i \in DOMAIN batch', Fresh(batch'[i])
                   PROVE batch'[i].seq <= txSeq + 1 /\ \A w \in Current : w.seq # batch'[i].seq
        OBVIOUS
      <4>1. CASE i = k BY <1>0, <2>6, <3>4, <4>1
      <4>2. CASE i # k BY <1>0, <3>3, <4>2
      <4> QED BY <4>1, <4>2
    <3>6. ASSUME NEW i \in DOMAIN batch', NEW j \in DOMAIN batch',
                 Fresh(batch'[i]), Fresh(batch'[j]), batch'[i].seq = batch'[j].seq
          PROVE  i = j
      <4>1. CASE i # k /\ j # k
        <5>1. /\ batch'[i] = batch[i] /\ batch'[j] = batch[j]
              /\ i \in DOMAIN batch /\ j \in DOMAIN batch
          BY <1>0, <2>6, <3>1, <4>1
        <5>2. Fresh(batch[i]) /\ Fresh(batch[j]) /\ batch[i].seq = batch[j].seq
          BY <3>6, <5>1 DEF Fresh
        <5> QED BY <1>0, <5>1, <5>2 DEF NumberInv
      <4>2. CASE i # k /\ j = k
        <5>1. batch'[i].seq <= txSeq /\ batch'[i].seq \in Nat BY <3>3, <3>6, <4>2
        <5> QED BY <1>0, <2>6, <3>6, <4>2, <5>1
      <4>3. CASE i = k /\ j # k
        <5>1. batch'[j].seq <= txSeq /\ batch'[j].seq \in Nat BY <3>3, <3>6, <4>3
        <5> QED BY <1>0, <2>6, <3>6, <4>3, <5>1
      <4> QED BY <4>1, <4>2, <4>3
    <3>7. ASSUME NEW i \in DOMAIN batch', NEW c \in Conns,
                 conn[c] = "up", batch'[i].seq > 0, connEpoch[c] = seqEpoch
          PROVE  Fresh(batch'[i])
      <4>1. CASE i = k BY <1>0, <2>6, <4>1 DEF Fresh
      <4>2. CASE i # k
        <5>1. batch'[i] = batch[i] /\ i \in DOMAIN batch BY <1>0, <2>6, <3>1, <4>2
        <5>2. Fresh(batch[i]) BY <1>0, <2>0, <3>7, <5>1 DEF NumberInv
        <5> QED BY <5>1, <5>2 DEF Fresh
      <4> QED BY <4>1, <4>2
    <3>8. \A w \in Current : w.seq <= txSeq + 1 BY <1>0, <3>4
    <3>9. NumberInv'
      BY <2>0, <2>3, <2>6, <3>2, <3>5, <3>6, <3>7, <3>8 DEF NumberInv, Fresh
    <3> QED BY <1>p, <2>0, <3>9
  <2> QED BY <2>4, <2>5, <2>6
<1>14. CASE Push
  <2>0. UNCHANGED <<txSeq, seqEpoch, conn, connEpoch>> /\ pc = "push" /\ Locked
    BY <1>14 DEF Push, Locked
  <2>1. batch' \in Seq(Items) /\ backends[idx] \in Conns /\ conn[backends[idx]] = "up"
    BY <1>14, PushShape
  <2>2. DOMAIN batch' = 1..Len(batch') /\ Len(batch') \in Nat BY <2>1
  <2>3. PICK n \in 0..Len(batch) :
          /\ Len(batch') = Len(batch) - n
          /\ \A i \in 1..Len(batch) - n : batch'[i] = batch[i + n]
          /\ \A w \in wire' : \/ w \in wire
                              \/ \E i \in 1..n : /\ w.epoch = connEpoch[backends[idx]]
                                                 /\ w.seq = batch[i].seq
                                                 /\ w.frame = batch[i].frame
                                                 /\ w.numbered = batch[i].epoch
    BY <1>14, PushShape
  <2>4. PICK b : b = batch' OBVIOUS
  <2> DEFINE f == [i \in DOMAIN b |-> i + n]
  <2>5. /\ DOMAIN b \subseteq Nat /\ f \in [DOMAIN b -> DOMAIN batch]
        /\ \A i, j \in DOMAIN b : f[i] = f[j] => i = j
        /\ \A i \in DOMAIN b : b[i] = batch[f[i]] /\ f[i] \in DOMAIN batch /\ f[i] > n
    BY <1>0, <2>2, <2>3, <2>4
  <2> HIDE DEF f
  <2>6. /\ \A i \in DOMAIN b : b[i].epoch <= seqEpoch
        /\ \A i \in DOMAIN b : Fresh(b[i]) => b[i].seq <= txSeq
        /\ \A i \in DOMAIN b : Fresh(b[i]) => \A w \in Current : w.seq # b[i].seq
        /\ \A i, j \in DOMAIN b :
             Fresh(b[i]) /\ Fresh(b[j]) /\ b[i].seq = b[j].seq => i = j
        /\ Locked => \A i \in DOMAIN b, c \in Conns :
             conn[c] = "up" /\ b[i].seq > 0 /\ connEpoch[c] = seqEpoch => Fresh(b[i])
    BY <2>5, NumberShrinks
  <2>7. ASSUME NEW w \in wire', w.epoch = seqEpoch
        PROVE  \/ w \in Current
               \/ \E i \in 1..n : /\ w.epoch = connEpoch[backends[idx]] /\ w.seq = batch[i].seq
                                  /\ w.frame = batch[i].frame /\ w.numbered = batch[i].epoch
                                  /\ i \in DOMAIN batch /\ Fresh(batch[i])
    <3>1. CASE w \in wire BY <2>7, <3>1 DEF Current
    <3>2. CASE w \notin wire
      <4>1. PICK i \in 1..n : /\ w.epoch = connEpoch[backends[idx]] /\ w.seq = batch[i].seq
                              /\ w.frame = batch[i].frame /\ w.numbered = batch[i].epoch
        BY <2>3, <3>2
      <4>2. i \in DOMAIN batch BY <1>0
      <4>3. batch[i].seq > 0 BY <1>0, <2>0, <4>2 DEF StageInv
      <4>4. Fresh(batch[i]) BY <1>0, <2>0, <2>1, <2>7, <4>1, <4>2, <4>3 DEF NumberInv
      <4> QED BY <4>1, <4>2, <4>4
    <3> QED BY <3>1, <3>2
  <2>8. \A x : Fresh(x)' <=> Fresh(x) BY <2>0 DEF Fresh
  <2>9. \A w \in Current' : w.seq <= txSeq
    <3> SUFFICES ASSUME NEW w \in wire', w.epoch = seqEpoch PROVE w.seq <= txSeq
      BY <2>0 DEF Current
    <3> QED BY <1>0, <2>7 DEF NumberInv
  <2>10. ASSUME NEW i \in DOMAIN b, Fresh(b[i]), NEW w \in Current' PROVE w.seq # b[i].seq
    <3>1. w \in wire' /\ w.epoch = seqEpoch BY <2>0, <2>10 DEF Current
    <3>2. CASE w \in Current BY <2>6, <2>10, <3>2
    <3>3. CASE w \notin Current
      <4>1. PICK j \in 1..n : w.seq = batch[j].seq /\ j \in DOMAIN batch /\ Fresh(batch[j])
        BY <2>7, <3>1, <3>3
      <4>2. f[i] \in DOMAIN batch /\ b[i] = batch[f[i]] /\ f[i] # j
        <5>1. f[i] \in Int /\ f[i] > n BY <1>0, <2>5
        <5> QED BY <2>5, <5>1
      <4>3. Fresh(batch[f[i]]) BY <2>10, <4>2
      <4> QED BY <1>0, <4>1, <4>2, <4>3 DEF NumberInv
    <3> QED BY <3>2, <3>3
  <2>11. NumberInv'
    BY <2>0, <2>4, <2>6, <2>8, <2>9, <2>10 DEF NumberInv, Fresh
  <2>12. ASSUME NEW w \in wire', w.epoch = seqEpoch PROVE w.numbered = seqEpoch
    <3>1. CASE w \in Current BY <1>0, <3>1 DEF EpochPure, Current
    <3>2. CASE w \notin Current BY <2>7, <2>12, <3>2 DEF Fresh
    <3> QED BY <3>1, <3>2
  <2>13. ASSUME NEW v \in wire', NEW w \in wire', v.epoch = seqEpoch, w.epoch = seqEpoch,
                v.seq = w.seq
         PROVE  v = w
    <3>1. CASE v \in Current /\ w \in Current BY <1>0, <2>13, <3>1 DEF EpochPure, Current
    <3>2. CASE v \in Current /\ w \notin Current
      <4>1. PICK i \in DOMAIN batch : w.seq = batch[i].seq /\ Fresh(batch[i])
        BY <2>7, <2>13, <3>2
      <4> QED BY <1>0, <2>13, <3>2, <4>1 DEF NumberInv
    <3>3. CASE v \notin Current /\ w \in Current
      <4>1. PICK i \in DOMAIN batch : v.seq = batch[i].seq /\ Fresh(batch[i])
        BY <2>7, <2>13, <3>3
      <4> QED BY <1>0, <2>13, <3>3, <4>1 DEF NumberInv
    <3>4. CASE v \notin Current /\ w \notin Current
      <4>1. PICK i \in DOMAIN batch : /\ v.seq = batch[i].seq /\ v.frame = batch[i].frame
                                      /\ v.numbered = batch[i].epoch /\ Fresh(batch[i])
        BY <2>7, <2>13, <3>4
      <4>2. PICK j \in DOMAIN batch : /\ w.seq = batch[j].seq /\ w.frame = batch[j].frame
                                      /\ w.numbered = batch[j].epoch /\ Fresh(batch[j])
        BY <2>7, <2>13, <3>4
      <4>3. i = j BY <1>0, <2>13, <4>1, <4>2 DEF NumberInv
      <4>4. v \in Sent /\ w \in Sent BY TypeNext DEF TypeOK
      <4>5. v.epoch = w.epoch /\ v.seq = w.seq /\ v.frame = w.frame /\ v.numbered = w.numbered
        BY <2>13, <4>1, <4>2, <4>3
      <4> QED BY <4>4, <4>5 DEF Sent
    <3> QED BY <3>1, <3>2, <3>3, <3>4
  <2>14. EpochPure' BY <2>0, <2>12, <2>13 DEF EpochPure
  <2> QED BY <2>11, <2>14
<1> QED BY <1>2, <1>3, <1>4, <1>5, <1>6, <1>8, <1>9, <1>10, <1>11, <1>12, <1>13, <1>14, Cases
        DEF Inner

-----------------------------------------------------------------------------
(* The invariant and its consequences *)

LEMMA DispatchReached == Spec => []DispatchInv
<1>1. Init => DispatchInv
  BY TypeInit, BackendsInit, ChargeInit, EpochInit, StageInit, NumberInit DEF DispatchInv
<1>2. DispatchInv /\ [Next]_vars => DispatchInv'
  BY TypeNext, BackendsNext, ChargeNext, EpochNext, StageNext, NumberNext DEF DispatchInv
<1> QED BY <1>1, <1>2, PTL DEF Spec

\* What a path is charged with is in its queue, in the TLS buffer of its
\* connection or about to be queued, for any number of connections and any
\* interleaving with their threads (add_queued, complete_queued).
THEOREM ChargesAlwaysMatch == Spec => []ChargesMatch
<1>1. DispatchInv => ChargesMatch
  <2> SUFFICES ASSUME DispatchInv, NEW i \in DOMAIN backends
               PROVE  queued[backends[i]] = Len(queue[backends[i]]) + drained[backends[i]]
                        + IF i = idx /\ pc \in {"push", "settle"} THEN Len(batch) ELSE 0
    BY DEF ChargesMatch
  <2>1. backends[i] \in Conns /\ conn[backends[i]] = "up" BY PathUp
  <2>2. queued[backends[i]]
          = Len(queue[backends[i]]) + drained[backends[i]] + Pending(backends[i])
    BY <2>1 DEF DispatchInv, ChargeInv
  <2>3. Pending(backends[i]) = IF i = idx /\ pc \in {"push", "settle"} THEN Len(batch) ELSE 0
    <3>1. pc \in {"push", "settle"} => idx \in DOMAIN backends BY DEF DispatchInv, ChargeInv
    <3>2. \A j \in DOMAIN backends : backends[j] = backends[i] => j = i
      BY DEF DispatchInv, BackendsInv, Injective
    <3> QED BY <3>1, <3>2 DEF Pending
  <2> QED BY <2>2, <2>3
<1> QED BY <1>1, DispatchReached, PTL

\* A number names one frame of the current epoch and none numbered before the
\* reset reaches a connection of it, for any number of epochs, although
\* reset_epoch does not wait for the dispatch thread.
THEOREM NumbersStayPure == Spec => []EpochPure
<1>1. DispatchInv => EpochPure BY DEF DispatchInv
<1> QED BY <1>1, DispatchReached, PTL

-----------------------------------------------------------------------------
(* The choice of a path *)

VirtualOK == virtual \in [Conns -> Nat]

\* The free slot that was seen stays, until the path is picked and charged.
RoomInv ==
    /\ pc = "collect" /\ steady => SlotFree
    /\ pc = "number" => tries = 0
    /\ pc = "number" /\ steady => idx \in DOMAIN backends /\ Healthy(backends[idx])
    /\ pc \in {"charge", "push", "settle"} => tries > 0
    /\ pc = "push" /\ tries = 1 /\ steady => Healthy(backends[idx])

\* Some c of S comes before the others.
HasLeast(S, f, g, h) ==
    \E c \in S : \A d \in S \ {c} :
      f[c] < f[d] \/ (f[c] = f[d] /\ (g[c] < g[d] \/ (g[c] = g[d] /\ h[c] < h[d])))

\* A lexicographic minimum: by f, which is bounded from below, then g, then h.
LEMMA LexLeast ==
    ASSUME NEW S, S # {}, NEW b \in Nat,
           NEW f \in [S -> Int], \A c \in S : f[c] + b \in Nat,
           NEW g \in [S -> Nat], NEW h \in [S -> Nat],
           \A c, d \in S : h[c] = h[d] => c = d
    PROVE  HasLeast(S, f, g, h)
<1> DEFINE F == {f[c] + b : c \in S}
<1>1. PICK x \in F : \A y \in F : x <= y
  <2>1. F \in SUBSET Nat /\ F # {} OBVIOUS
  <2> HIDE DEF F
  <2> QED BY <2>1, NatLeast
<1> DEFINE T == {c \in S : f[c] + b = x}
<1>2. T # {} /\ T \subseteq S /\ \A c \in T : \A d \in S \ T : f[c] < f[d]
  <2>1. \A d \in S : x <= f[d] + b BY <1>1
  <2>2. ASSUME NEW c \in T, NEW d \in S \ T PROVE f[c] < f[d]
    <3>1. f[c] + b = x /\ x <= f[d] + b /\ f[d] + b # x /\ f[c] \in Int /\ f[d] \in Int
      BY <2>1
    <3> QED BY <3>1
  <2> QED BY <1>1, <2>2
<1>3. \A c, d \in T : f[c] = f[d] OBVIOUS
<1> HIDE DEF F, T
<1> DEFINE G == {g[c] : c \in T}
<1>4. PICK y \in G : \A z \in G : y <= z
  <2>1. G \in SUBSET Nat /\ G # {} BY <1>2
  <2> HIDE DEF G
  <2> QED BY <2>1, NatLeast
<1> DEFINE U == {c \in T : g[c] = y}
<1>5. U # {} /\ U \subseteq T /\ \A c \in U : \A d \in T \ U : g[c] < g[d]
  <2>1. U # {} BY <1>4
  <2>2. ASSUME NEW c \in U, NEW d \in T \ U PROVE g[c] < g[d]
    <3>1. g[c] = y /\ y <= g[d] /\ g[d] # y /\ g[c] \in Nat /\ g[d] \in Nat BY <1>2, <1>4
    <3> QED BY <3>1
  <2> QED BY <2>1, <2>2
<1>6. \A c, d \in U : g[c] = g[d] OBVIOUS
<1> HIDE DEF G, U
<1> DEFINE H == {h[c] : c \in U}
<1>7. PICK z \in H : \A w \in H : z <= w
  <2>1. H \in SUBSET Nat /\ H # {} BY <1>2, <1>5
  <2> HIDE DEF H
  <2> QED BY <2>1, NatLeast
<1>8. PICK c \in U : h[c] = z BY <1>7
<1>9. ASSUME NEW d \in S, d # c
      PROVE  f[c] < f[d] \/ (f[c] = f[d] /\ (g[c] < g[d] \/ (g[c] = g[d] /\ h[c] < h[d])))
  <2>0. c \in T /\ c \in S BY <1>2, <1>5
  <2>1. CASE d \notin T BY <1>2, <2>0, <2>1
  <2>2. CASE d \in T /\ d \notin U BY <1>3, <1>5, <2>0, <2>2
  <2>3. CASE d \in U
    <3>1. h[c] <= h[d] BY <1>7, <1>8, <2>3
    <3>2. h[c] # h[d] /\ h[c] \in Nat /\ h[d] \in Nat BY <1>9, <2>0
    <3> QED BY <1>3, <1>5, <1>6, <2>0, <2>3, <3>1, <3>2
  <2> QED BY <2>1, <2>2, <2>3
<1> QED BY <1>2, <1>5, <1>9 DEF HasLeast

\* The index of a path, which tells paths apart.
LEMMA IndexForm ==
    ASSUME backends \in Seq(Conns)
    PROVE  \A c \in Paths : Index(c) \in DOMAIN backends /\ backends[Index(c)] = c /\ Index(c) \in Nat
<1> SUFFICES ASSUME NEW c \in Paths
             PROVE  Index(c) \in DOMAIN backends /\ backends[Index(c)] = c /\ Index(c) \in Nat
  OBVIOUS
<1>1. \E i \in DOMAIN backends : backends[i] = c BY DEF Paths
<1>2. Index(c) \in DOMAIN backends /\ backends[Index(c)] = c BY <1>1 DEF Index
<1>3. \A i \in DOMAIN backends : i \in Nat OBVIOUS
<1> QED BY <1>2, <1>3

\* Among paths there is a first one.
LEMMA FirstForm ==
    ASSUME backends \in Seq(Conns), NEW rtt \in [Paths -> Nat], NEW S \in SUBSET Paths, S # {}
    PROVE  \E c \in S : \A d \in S \ {c} : Before(rtt, c, d)
<1> DEFINE f == [c \in S |-> 0]
           g == [c \in S |-> rtt[c]]
           h == [c \in S |-> Index(c)]
<1>1. f \in [S -> Int] /\ g \in [S -> Nat] /\ \A c \in S : f[c] + 0 \in Nat OBVIOUS
<1>2. h \in [S -> Nat] /\ \A c, d \in S : h[c] = h[d] => c = d BY IndexForm
<1>3. \A c \in S : f[c] = 0 /\ g[c] = rtt[c] /\ h[c] = Index(c) OBVIOUS
<1> HIDE DEF f, g, h
<1>4. PICK c \in S : \A d \in S \ {c} :
         f[c] < f[d] \/ (f[c] = f[d] /\ (g[c] < g[d] \/ (g[c] = g[d] /\ h[c] < h[d])))
  <2>1. PICK b : b = 0 OBVIOUS
  <2>2. b \in Nat /\ \A c \in S : f[c] + b \in Nat BY <1>1, <2>1
  <2>3. HasLeast(S, f, g, h) BY <1>1, <1>2, <2>2, LexLeast
  <2> QED BY <2>3 DEF HasLeast
<1>5. \A d \in S \ {c} : Before(rtt, c, d) BY <1>3, <1>4 DEF Before
<1> QED BY <1>5

\* With a healthy path there are candidates, finitely many.
LEMMA CandidatesForm ==
    ASSUME backends \in Seq(Conns), NEW rtt \in [Paths -> Nat], SlotFree
    PROVE  /\ Candidates(rtt) # {} /\ Candidates(rtt) \in SUBSET Paths
           /\ \A c \in Candidates(rtt) : Healthy(c)
           /\ IsFiniteSet(Candidates(rtt))
<1> DEFINE H == {p \in Paths : Healthy(p)}
           R == {rtt[c] : c \in H}
<1>1. R \in SUBSET Nat /\ R # {} BY DEF SlotFree
<1>2. Min(R) \in R
  <2> HIDE DEF R
  <2> QED BY <1>1, MinNat
<1>3. PICK c \in H : rtt[c] = Min(R) BY <1>2
<1>4. rtt[c] \in Nat /\ RttSlack \in Nat BY DispatchAssumption
<1>5. Candidates(rtt) = {d \in Paths : Healthy(d) /\ rtt[d] <= Min(R) + RttSlack} BY DEF Candidates
<1> HIDE DEF R
<1>6. c \in Candidates(rtt) BY <1>3, <1>4, <1>5
<1>7. IsFiniteSet(Paths)
  <2>1. DOMAIN backends = 1..Len(backends) /\ Len(backends) \in Int OBVIOUS
  <2>2. IsFiniteSet(DOMAIN backends) BY <2>1, FS_Interval
  <2>3. \E f : f \in Surjection(DOMAIN backends, Paths)
    <3>1. backends \in Surjection(DOMAIN backends, Paths) BY DEF Surjection, Paths
    <3> QED BY <3>1
  <2> QED BY <2>2, <2>3, FS_Surjection
<1>8. Candidates(rtt) \in SUBSET Paths BY <1>5
<1> QED BY <1>5, <1>6, <1>7, <1>8, FS_Subset

\* How many paths are used: one at least.
LEMMA TargetForm ==
    ASSUME NEW n, NEW rate \in Nat, NEW eligible \in Nat, eligible > 0
    PROVE  ActiveTarget(n, rate, eligible) \in Nat /\ ActiveTarget(n, rate, eligible) > 0
<1> DEFINE P(x) == {i \in 1..3 : x >= Pressure[i]}
           pressure == n + MapThenSumSet(LAMBDA c : queued[c], Paths)
           want == 1 + Cardinality(P(pressure))
<1>1. \A x : Cardinality(P(x)) \in Nat
  <2> TAKE x
  <2>0. 1 \in Int /\ 3 \in Int OBVIOUS
  <2>1. IsFiniteSet(1..3) BY ONLY <2>0, FS_Interval
  <2>2. P(x) \in SUBSET (1..3) OBVIOUS
  <2> QED BY <2>1, <2>2, FS_Subset, FS_CardinalityType
<1>2. want \in Nat /\ want > 0
  <2> HIDE DEF P, pressure
  <2> QED BY <1>1
<1>3. ActiveTarget(n, rate, eligible) = Min({eligible, Max({want, rate})}) BY DEF ActiveTarget
<1> HIDE DEF want
<1>4. PICK w : w = want OBVIOUS
<1>5. w \in Nat /\ w > 0 BY <1>2, <1>4
<1>6. Max({w, rate}) \in {w, rate} /\ Max({w, rate}) >= w
  <2>1. \E x \in {w, rate} : \A y \in {w, rate} : x >= y BY <1>5
  <2> QED BY <2>1 DEF Max
<1>7. PICK m : m = Max({w, rate}) OBVIOUS
<1>8. m \in Nat /\ m > 0 BY <1>5, <1>6, <1>7
<1>9. Min({eligible, m}) \in {eligible, m} BY <1>8, MinNat
<1> QED BY <1>3, <1>4, <1>7, <1>8, <1>9

\* The first k candidates: at least one.
LEMMA RankedForm ==
    ASSUME backends \in Seq(Conns), NEW rtt \in [Paths -> Nat], SlotFree, NEW k \in Nat, k > 0
    PROVE  Ranked(rtt, k) # {} /\ Ranked(rtt, k) \in SUBSET Candidates(rtt)
<1>1. Candidates(rtt) # {} /\ Candidates(rtt) \in SUBSET Paths BY CandidatesForm
<1>2. PICK c \in Candidates(rtt) : \A d \in Candidates(rtt) \ {c} : Before(rtt, c, d)
  BY <1>1, FirstForm
<1>3. ASSUME NEW d \in Candidates(rtt), Before(rtt, d, c) PROVE FALSE
  <2>1. rtt[c] \in Nat /\ rtt[d] \in Nat /\ Index(c) \in Nat /\ Index(d) \in Nat
    BY <1>1, IndexForm
  <2>2. CASE d = c BY <1>3, <2>1, <2>2 DEF Before
  <2>3. CASE d # c BY <1>2, <1>3, <2>1, <2>3 DEF Before
  <2> QED BY <2>2, <2>3
<1>4. {d \in Candidates(rtt) : Before(rtt, d, c)} = {} BY <1>3
<1>5. c \in Ranked(rtt, k) BY <1>4, FS_EmptySet DEF Ranked
<1> QED BY <1>5 DEF Ranked

\* What a choice among healthy paths gives.
GoodChoice ==
    /\ idx' \in DOMAIN backends /\ Healthy(backends[idx'])
    /\ virtual' \in [Conns -> Nat]

\* The choice of a candidate.
LEMMA ChosenGood ==
    ASSUME backends \in Seq(Conns), NEW rtt \in [Paths -> Nat], SlotFree,
           NEW c \in Candidates(rtt), idx' = Index(c), virtual' \in [Conns -> Nat]
    PROVE  GoodChoice
<1>1. c \in Paths /\ Healthy(c) BY CandidatesForm
<1>2. Index(c) \in DOMAIN backends /\ backends[Index(c)] = c BY <1>1, IndexForm
<1> QED BY <1>1, <1>2 DEF GoodChoice

LEMMA PickOneGood ==
    ASSUME backends \in Seq(Conns), NEW rtt \in [Paths -> Nat], SlotFree, VirtualOK, PickOne(rtt)
    PROVE  GoodChoice
<1> DEFINE first == First(Candidates(rtt), rtt)
           chosen == IF /\ preferred \in DOMAIN backends
                        /\ backends[preferred] \in Candidates(rtt)
                        /\ rtt[backends[preferred]] <= rtt[first] + Sticky
                     THEN backends[preferred] ELSE first
<1>1. first \in Candidates(rtt)
  <2>1. Candidates(rtt) # {} /\ Candidates(rtt) \in SUBSET Paths BY CandidatesForm
  <2>2. \E c \in Candidates(rtt) : \A d \in Candidates(rtt) \ {c} : Before(rtt, c, d)
    BY <2>1, FirstForm
  <2> QED BY <2>2 DEF First
<1>2. /\ idx' = Index(chosen)
      /\ virtual' = [c \in Conns |-> IF c \in Paths THEN 0 ELSE virtual[c]]
  BY DEF PickOne
<1> HIDE DEF first
<1>3. chosen \in Candidates(rtt) BY <1>1
<1>4. virtual' \in [Conns -> Nat] BY <1>2 DEF VirtualOK
<1> HIDE DEF chosen
<1> QED BY <1>2, <1>3, <1>4, ChosenGood

LEMMA PickSharedGood ==
    ASSUME backends \in Seq(Conns), NEW rtt \in [Paths -> Nat], SlotFree, VirtualOK,
           queued \in [Conns -> Nat],
           NEW using \in SUBSET Candidates(rtt), using # {}, NEW n \in Nat, NEW carry,
           PickShared(using, rtt, n, carry)
    PROVE  GoodChoice
<1> DEFINE old    == active \cap using
           start  == IF old = {} THEN 0 ELSE Min({virtual[c] : c \in old})
           joined == [c \in using |-> IF c \in old THEN virtual[c] ELSE start]
           base   == Min({joined[c] : c \in using})
           score  == [c \in using |-> joined[c] - base + queued[c]
                                      - IF c \in carry THEN CarryBonus ELSE 0]
           better(c, d) == score[c] < score[d] \/ (score[c] = score[d] /\ Before(rtt, c, d))
           chosen == CHOOSE c \in using : \A d \in using \ {c} : better(c, d)
<1>1. /\ idx' = Index(chosen)
      /\ virtual' = [c \in Conns |->
                        IF c \in using THEN joined[c] - base + IF c = chosen THEN n ELSE 0
                        ELSE IF c \in Paths THEN 0 ELSE virtual[c]]
  BY DEF PickShared
<1>2. using \subseteq Paths /\ using \subseteq Conns
  <2>1. using \subseteq Paths BY CandidatesForm
  <2>2. Paths \subseteq Conns BY DEF Paths
  <2> QED BY <2>1, <2>2
<1>3. start \in Nat
  <2>1. CASE old = {} BY <2>1
  <2>2. CASE old # {}
    <3> DEFINE V == {virtual[c] : c \in old}
    <3>1. V \in SUBSET Nat /\ V # {} BY <1>2, <2>2 DEF VirtualOK
    <3>2. start = Min(V) BY <2>2
    <3> HIDE DEF V, start
    <3> QED BY <3>1, <3>2, MinNat
  <2> QED BY <2>1, <2>2
<1> HIDE DEF start
<1>4. joined \in [using -> Nat] BY <1>2, <1>3 DEF VirtualOK
<1> HIDE DEF joined
<1>5. base \in Nat /\ \A c \in using : base <= joined[c]
  <2> DEFINE J == {joined[c] : c \in using}
  <2>1. J \in SUBSET Nat /\ J # {} BY <1>4
  <2>2. base = Min(J) OBVIOUS
  <2>3. base \in J /\ \A m \in J : base <= m
    <3> HIDE DEF J, base
    <3> QED BY <2>1, <2>2, MinNat
  <2> HIDE DEF base
  <2> QED BY <2>1, <2>3
<1> HIDE DEF base
<1>6. score \in [using -> Int] /\ \A c \in using : score[c] + CarryBonus \in Nat
  <2>1. CarryBonus \in Nat BY DispatchAssumption
  <2>2. \A c \in using : joined[c] - base \in Nat /\ queued[c] \in Nat BY <1>2, <1>4, <1>5
  <2> QED BY <2>1, <2>2, SMTT(20)
<1> HIDE DEF score
<1>7. chosen \in using
  <2> DEFINE g == [c \in using |-> rtt[c]]
             h == [c \in using |-> Index(c)]
  <2>1. g \in [using -> Nat] /\ \A c \in using : g[c] = rtt[c] /\ h[c] = Index(c) BY <1>2
  <2>2. h \in [using -> Nat] /\ \A c, d \in using : h[c] = h[d] => c = d BY <1>2, IndexForm
  <2> HIDE DEF g, h
  <2>3. CarryBonus \in Nat BY DispatchAssumption
  <2>4. HasLeast(using, score, g, h) BY <1>6, <2>1, <2>2, <2>3, LexLeast
  <2>5. PICK c \in using : \A d \in using \ {c} :
          score[c] < score[d]
            \/ (score[c] = score[d] /\ (g[c] < g[d] \/ (g[c] = g[d] /\ h[c] < h[d])))
    BY <2>4 DEF HasLeast
  <2>6. \A d \in using \ {c} : better(c, d) BY <2>1, <2>5 DEF Before
  <2> HIDE DEF better
  <2> QED BY <2>6
<1> HIDE DEF chosen
<1>8. virtual' \in [Conns -> Nat]
  <2>1. \A c \in using : joined[c] - base \in Nat /\ joined[c] - base + n \in Nat
                         /\ joined[c] - base + 0 \in Nat
    BY <1>4, <1>5
  <2>2. \A c \in Conns : virtual[c] \in Nat BY DEF VirtualOK
  <2>3. ASSUME NEW c \in Conns PROVE virtual'[c] \in Nat
    BY <1>1, <2>1, <2>2
  <2> QED BY <1>1, <2>3
<1> QED BY <1>1, <1>7, <1>8, ChosenGood

\* AdaptivePortState::pick finds a healthy path when there is one.
LEMMA PickGood ==
    ASSUME backends \in Seq(Conns), batch \in Seq(Items), queued \in [Conns -> Nat], VirtualOK,
           Pick, backends # <<>>
    PROVE  /\ pc = "collect" /\ pc' = "number" /\ tries' = 0
           /\ virtual' \in [Conns -> Nat]
           /\ SlotFree => GoodChoice
<1>1. PICK rtt \in [Paths -> Rtts], rate \in 1..Len(backends), carry \in SUBSET Paths :
        IF \E c \in Paths : Healthy(c)
        THEN PickHealthy(Len(batch), rtt, rate, carry)
        ELSE PickFull
  BY DEF Pick
<1>2. pc = "collect" /\ pc' = "number" /\ tries' = 0 BY DEF Pick
<1>3. rtt \in [Paths -> Nat] BY DispatchAssumption
<1>4. CASE ~SlotFree
  <2>1. PickFull BY <1>1, <1>4 DEF SlotFree
  <2>2. virtual' = [c \in Conns |-> IF c \in Paths THEN 0 ELSE virtual[c]] BY <2>1 DEF PickFull
  <2>3. virtual' \in [Conns -> Nat] BY <2>2 DEF VirtualOK
  <2> QED BY <1>2, <1>4, <2>3
<1>5. CASE SlotFree
  <2> DEFINE k == ActiveTarget(Len(batch), rate, Cardinality(Candidates(rtt)))
  <2>1. IF k = 1 THEN PickOne(rtt) ELSE PickShared(Ranked(rtt, k), rtt, Len(batch), carry)
    BY <1>1, <1>5 DEF SlotFree, PickHealthy
  <2>2. Cardinality(Candidates(rtt)) \in Nat /\ Cardinality(Candidates(rtt)) > 0
    <3>1. Candidates(rtt) # {} /\ IsFiniteSet(Candidates(rtt)) BY <1>3, <1>5, CandidatesForm
    <3>2. Cardinality(Candidates(rtt)) \in Nat BY <3>1, FS_CardinalityType
    <3>3. Cardinality(Candidates(rtt)) # 0 BY <3>1, FS_EmptySet
    <3> QED BY <3>2, <3>3
  <2>3. k \in Nat /\ k > 0
    <3>1. rate \in Nat OBVIOUS
    <3> QED BY <2>2, <3>1, TargetForm
  <2>4. Len(batch) \in Nat OBVIOUS
  <2> HIDE DEF k
  <2>5. CASE k = 1
    <3>1. GoodChoice BY <1>3, <1>5, <2>1, <2>5, PickOneGood
    <3> QED BY <1>2, <3>1 DEF GoodChoice
  <2>6. CASE k # 1
    <3>1. Ranked(rtt, k) # {} /\ Ranked(rtt, k) \in SUBSET Candidates(rtt)
      BY <1>3, <1>5, <2>3, RankedForm
    <3>2. PickShared(Ranked(rtt, k), rtt, Len(batch), carry) BY <2>1, <2>6
    <3>3. GoodChoice
      <4>1. PICK using, n : using = Ranked(rtt, k) /\ n = Len(batch) OBVIOUS
      <4>2. using # {} /\ using \in SUBSET Candidates(rtt) /\ n \in Nat BY <2>4, <3>1, <4>1
      <4>3. PickShared(using, rtt, n, carry) BY <3>2, <4>1
      <4> QED BY <1>3, <1>5, <4>2, <4>3, PickSharedGood
    <3> QED BY <1>2, <3>3 DEF GoodChoice
  <2> QED BY <2>5, <2>6
<1> QED BY <1>4, <1>5

-----------------------------------------------------------------------------
(* Room *)

LEMMA VirtualNext == DispatchInv /\ VirtualOK /\ [Next]_vars => VirtualOK'
<1> SUFFICES ASSUME DispatchInv, VirtualOK, [Next]_vars PROVE VirtualOK'
  OBVIOUS
<1> USE DEF pickVars
<1>0. batch \in Seq(Items) /\ queued \in [Conns -> Nat] /\ backends \in Seq(Conns)
  BY DEF DispatchInv, TypeOK
<1>1. CASE UNCHANGED virtual BY <1>1 DEF VirtualOK
<1>2. CASE Pick
  <2>1. CASE backends = <<>> BY <1>1, <1>2, <2>1 DEF Pick
  <2>2. CASE backends # <<>> BY <1>0, <1>2, <2>2, PickGood DEF VirtualOK
  <2> QED BY <2>1, <2>2
<1>3. ASSUME NEW c \in Conns, Register(c) PROVE VirtualOK'
  BY <1>3 DEF Register, VirtualOK
<1>4. CASE Inner /\ ~Pick
  BY <1>1, <1>4 DEF Inner, Receive, Exit, WaitSlot, Collect, Number, Charge, Settle
<1>5. CASE Enqueue \/ Drop \/ Push \/ UNCHANGED vars
  BY <1>1, <1>5 DEF Enqueue, Drop, Push, vars
<1>6. ASSUME NEW c \in Conns,
             \/ Delivered(c) \/ Join(c) \/ ResetEpoch(c) \/ Rotated(c)
             \/ Unregister(c) \/ \E n \in 1..Cap : Drain(c, n)
      PROVE  VirtualOK'
  BY <1>1, <1>6 DEF Drain, Delivered, Join, ResetEpoch, Rotated, Unregister
<1> QED BY <1>2, <1>3, <1>4, <1>5, <1>6, Cases

LEMMA RoomNext == DispatchInv /\ VirtualOK /\ RoomInv /\ [Next]_vars => RoomInv'
<1> SUFFICES ASSUME DispatchInv, VirtualOK, RoomInv, [Next]_vars PROVE RoomInv'
  OBVIOUS
<1> USE DEF threadVars, epochVars, connVars, pickVars, queueVars, ghosts
<1>0. /\ batch \in Seq(Items) /\ queued \in [Conns -> Nat] /\ backends \in Seq(Conns)
      /\ queue \in [Conns -> Seq(Items)] /\ tries \in Nat /\ Cap \in Nat /\ Cap > 2
      /\ \A c \in Conns : Len(queue[c]) \in Nat
  BY DispatchAssumption DEF DispatchInv, TypeOK
<1>1. ASSUME UNCHANGED <<pc, tries, idx, steady, backends>>,
             \A c \in Conns : Healthy(c) => Healthy(c)'
      PROVE  RoomInv'
  <2>1. Paths' = Paths /\ Paths \subseteq Conns BY <1>0, <1>1 DEF Paths
  <2>2. SlotFree => SlotFree' BY <1>1, <2>1 DEF SlotFree
  <2>3. pc = "number" /\ steady => Healthy(backends[idx])'
    BY <1>0, <1>1, PathUp DEF RoomInv, Healthy
  <2>4. pc = "push" /\ tries = 1 /\ steady => Healthy(backends[idx])'
    <3>1. pc = "push" => idx \in DOMAIN backends BY DEF DispatchInv, ChargeInv
    <3> QED BY <1>0, <1>1, <3>1, PathUp DEF RoomInv, Healthy
  <2> QED BY <1>1, <2>2, <2>3, <2>4 DEF RoomInv
<1>2. ASSUME UNCHANGED <<pc, tries, idx, steady, backends, queue>> PROVE RoomInv'
  BY <1>1, <1>2 DEF Healthy
<1>3. CASE Enqueue \/ Drop \/ UNCHANGED vars BY <1>2, <1>3 DEF Enqueue, Drop, vars
<1>4. ASSUME NEW c \in Conns, Delivered(c) \/ Join(c) \/ ResetEpoch(c) \/ Rotated(c)
      PROVE  RoomInv'
  BY <1>2, <1>4 DEF Delivered, Join, ResetEpoch, Rotated
<1>5. ASSUME NEW c \in Conns, NEW n \in 1..Cap, Drain(c, n) PROVE RoomInv'
  <2>1. queue[c] \in Seq(Items) /\ n \in 1..Len(queue[c]) BY <1>0, <1>5 DEF Drain
  <2>2. Len(SubSeq(queue[c], n + 1, Len(queue[c]))) = Len(queue[c]) - n BY <2>1, SplitForm
  <2>3. ASSUME NEW d \in Conns, Healthy(d) PROVE Healthy(d)'
    <3>1. CASE d = c
      <4>1. Len(queue'[d]) = Len(queue[c]) - n BY <1>0, <1>5, <2>2, <3>1 DEF Drain
      <4> QED BY <1>0, <2>1, <2>3, <3>1, <4>1 DEF Healthy
    <3>2. CASE d # c
      <4>1. queue'[d] = queue[d] BY <1>0, <1>5, <3>2 DEF Drain
      <4> QED BY <2>3, <4>1 DEF Healthy
    <3> QED BY <3>1, <3>2
  <2> QED BY <1>1, <1>5, <2>3 DEF Drain
<1>6. ASSUME NEW c \in Conns, Register(c) PROVE RoomInv'
  <2>1. UNCHANGED <<pc, tries, steady>> /\ ~Locked BY <1>6 DEF Register
  <2>2. SlotFree => SlotFree'
    <3>1. ASSUME NEW d \in Paths, Healthy(d) PROVE d \in Paths' /\ Healthy(d)'
      <4>0. /\ DOMAIN backends = 1..Len(backends) /\ Len(backends) \in Nat
            /\ DOMAIN backends' = 1..Len(backends) + 1
            /\ \A i \in 1..Len(backends) : backends'[i] = backends[i]
        BY <1>0, <1>6 DEF Register
      <4>1. d \in Paths' BY <4>0 DEF Paths
      <4>2. d \in Conns BY <1>0 DEF Paths
      <4>3. queue'[d] = queue[d] \/ queue'[d] = <<>> BY <1>0, <1>6, <4>2 DEF Register
      <4>4. Len(<<>>) = 0 /\ 0 < Cap - 2 BY <1>0
      <4> QED BY <3>1, <4>1, <4>3, <4>4 DEF Healthy
    <3> QED BY <3>1 DEF SlotFree
  <2> QED BY <2>1, <2>2 DEF RoomInv, Locked
<1>7. ASSUME NEW c \in Conns, Unregister(c) PROVE RoomInv'
  <2>1. UNCHANGED <<pc, tries>> /\ ~Locked /\ steady' = FALSE BY <1>7 DEF Unregister
  <2> QED BY <2>1 DEF RoomInv, Locked
<1>8. CASE Receive \/ Exit
  <2>1. pc' \in {"wait", "done"} BY <1>8 DEF Receive, Exit
  <2> QED BY <2>1 DEF RoomInv
<1>9. CASE WaitSlot
  <2>1. UNCHANGED <<backends, queue>> BY <1>9 DEF WaitSlot
  <2>2. SlotFree => SlotFree' BY <2>1 DEF SlotFree, Paths, Healthy
  <2>3. pc' = "recv" \/ (pc' = "collect" /\ SlotFree) BY <1>9 DEF WaitSlot
  <2> QED BY <2>2, <2>3 DEF RoomInv
<1>10. CASE Collect
  BY <1>2, <1>10 DEF Collect
<1>11. CASE Pick
  <2>1. UNCHANGED <<backends, queue, steady>> BY <1>11 DEF Pick
  <2>2. CASE backends = <<>>
    <3>1. pc' = "recv" BY <1>11, <2>2 DEF Pick
    <3> QED BY <3>1 DEF RoomInv
  <2>3. CASE backends # <<>>
    <3>1. /\ pc = "collect" /\ pc' = "number" /\ tries' = 0
          /\ SlotFree => idx' \in DOMAIN backends /\ Healthy(backends[idx'])
      BY <1>0, <1>11, <2>3, PickGood DEF GoodChoice
    <3>2. steady => SlotFree BY <3>1 DEF RoomInv
    <3>3. steady' => idx' \in DOMAIN backends' /\ Healthy(backends[idx])'
      BY <2>1, <3>1, <3>2 DEF Healthy
    <3> QED BY <3>1, <3>3 DEF RoomInv
  <2> QED BY <2>2, <2>3
<1>12. CASE Number
  BY <1>2, <1>12 DEF Number
<1>13. CASE Charge
  <2>1. UNCHANGED <<backends, queue, idx, steady>> BY <1>13 DEF Charge
  <2>2. CASE pc' = "recv" BY <2>2 DEF RoomInv
  <2>3. CASE pc' = "push" /\ tries' = tries + 1
    <3>1. pc = "charge" \/ pc = "number" BY <1>13, ChargeShape
    <3>2. tries' > 0 BY <1>0, <2>3
    <3>3. tries' = 1 /\ steady => Healthy(backends[idx])
      BY <1>0, <2>3, <3>1 DEF RoomInv
    <3>4. tries' = 1 /\ steady' => Healthy(backends[idx])' BY <2>1, <3>3 DEF Healthy
    <3> QED BY <2>3, <3>2, <3>4 DEF RoomInv
  <2> QED BY <1>13, <2>2, <2>3, ChargeShape
<1>14. CASE Push
  <2>1. UNCHANGED tries /\ pc = "push" /\ pc' = "settle" BY <1>14 DEF Push
  <2> QED BY <2>1 DEF RoomInv
<1>15. CASE Settle
  <2>1. UNCHANGED tries /\ pc = "settle" /\ pc' \in {"recv", "charge"} BY <1>15 DEF Settle
  <2> QED BY <2>1 DEF RoomInv
<1> QED BY <1>3, <1>4, <1>5, <1>6, <1>7, <1>8, <1>9, <1>10, <1>11, <1>12, <1>13, <1>14, <1>15, Cases
        DEF Inner

\* After the wait for a free slot the path that is picked has room for three
\* frames, whatever the round-trip times, the rates and the paths in use, unless
\* a connection ended in between (wait_backend_slot, pick, dispatch_owned_batch).
THEOREM RoomIsThere == Spec => []RoomForFirst
<1>1. Init => VirtualOK /\ RoomInv BY DEF Init, VirtualOK, RoomInv
<1>2. DispatchInv /\ RoomInv => RoomForFirst
  <2> SUFFICES ASSUME DispatchInv, RoomInv, pc = "push", tries = 1, steady
               PROVE  Cap - Len(queue[backends[idx]]) >= 3
    BY DEF RoomForFirst
  <2>1. Healthy(backends[idx]) BY DEF RoomInv
  <2>2. idx \in DOMAIN backends BY DEF DispatchInv, ChargeInv
  <2>3. backends[idx] \in Conns BY <2>2, PathUp
  <2>4. queue[backends[idx]] \in Seq(Items) BY <2>3 DEF DispatchInv, TypeOK
  <2>5. Len(queue[backends[idx]]) \in Nat /\ Cap \in Nat BY <2>4, DispatchAssumption
  <2> QED BY <2>1, <2>5 DEF Healthy
<1> QED BY <1>1, <1>2, DispatchReached, VirtualNext, RoomNext, PTL DEF Spec

=============================================================================
