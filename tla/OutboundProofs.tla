---------------------------- MODULE OutboundProofs ----------------------------
(***************************************************************************)
(* The downstream path of a connection, for any number of producers and    *)
(* frames and any limits: what was accepted is on the socket, in rustls,   *)
(* in send_buf and in the queue, in order, and a backlog is forgotten in   *)
(* the two known ways only.                                                *)
(***************************************************************************)
EXTENDS Outbound, SequenceTheorems, WellFoundedInduction, TLAPS

Items == [id : Nat \ {0}, bytes : Nat]

TypeOK ==
    /\ queue \in Seq(Seq(Items)) /\ buf \in Seq(Items)
    /\ tls \in Seq(Items) \cup {<<Heartbeat>>}
    /\ accepted \in Seq(Items) /\ wire \in Seq(Items)
    /\ prod \in [Producers -> {"idle", "wake", "push", "poke"}]
    /\ pc \in {"poll", "scan", "dirty", "flush", "pull", "closed"}
    /\ ret \in {"poll", "dirty"}

\* send_buf is used by a pull only, which starts when rustls is empty; a stalled
\* write has something to write.
StageInv ==
    /\ pc # "pull" => buf = << >>
    /\ pc = "pull" => tls = << >>
    /\ stall # "no" => tls # << >>

\* Somebody remembers what is in the queue: a producer that is about to wake the
\* worker, the gate of the next scan, or a flush that has begun.
Remembered ==
    queue # << >> =>
        \/ \E p \in Producers : prod[p] = "wake"
        \/ FlushGate(tls) \/ forgotten \/ pc \in {"flush", "pull"}

FlowInv == TypeOK /\ StageInv /\ Fifo

-----------------------------------------------------------------------------
(* Induction, from the well-foundedness of < on the naturals. *)

\* A set with 0 that is closed under successor has every natural number.
LEMMA Induction ==
    ASSUME NEW T, 0 \in T, \A n \in Nat : n \in T => n + 1 \in T
    PROVE  Nat \subseteq T
<1> DEFINE R == OpToRel(<, Nat)
           U == Nat \ T
<1>1. IsWellFoundedOn(R, Nat) BY NatLessThanWellFounded
<1>2. \A x, y \in Nat : x < y => <<x, y>> \in R BY DEF OpToRel
<1> HIDE DEF R
<1> SUFFICES ASSUME U # {} PROVE FALSE
  OBVIOUS
<1>3. \E x \in U : \A y \in U : ~ (<<y, x>> \in R)
  <2>1. U \subseteq Nat OBVIOUS
  <2> HIDE DEF U
  <2> QED BY <1>1, <2>1, WFMin
<1>4. PICK x \in U : \A y \in U : ~ (<<y, x>> \in R) BY <1>3
<1>5. x # 0 /\ x \in Nat /\ x - 1 \in Nat /\ (x - 1) + 1 = x BY <1>4
<1>6. x - 1 \in U BY <1>4, <1>5
<1>7. <<x - 1, x>> \in R BY <1>2, <1>5
<1> QED BY <1>4, <1>6, <1>7

-----------------------------------------------------------------------------
(* The bytes of a sequence of frames *)

Sums(s, F) == F[0] = 0 /\ \A i \in 1..Len(s) : F[i] = F[i - 1] + s[i].bytes

\* Bytes is the last of the partial sums.
LEMMA BytesForm ==
    ASSUME NEW s \in Seq(Items)
    PROVE  \E F : Sums(s, F) /\ Bytes(s) = F[Len(s)]
<1> DEFINE Steps(F, k) == F = [n \in 0..k |-> IF n = 0 THEN 0 ELSE F[n - 1] + s[n].bytes]
           T == {k \in Nat : \E F : Steps(F, k)}
<1>0. Len(s) \in Nat OBVIOUS
<1>1. 0 \in T
  <2>1. Steps([n \in 0..0 |-> 0], 0) OBVIOUS
  <2> QED BY <2>1
<1>2. ASSUME NEW k \in Nat, k \in T PROVE k + 1 \in T
  <2>1. PICK F : Steps(F, k) BY <1>2
  <2> DEFINE G == [n \in 0..k + 1 |-> IF n = k + 1 THEN F[k] + s[n].bytes ELSE F[n]]
             H == [n \in 0..k + 1 |-> IF n = 0 THEN 0 ELSE G[n - 1] + s[n].bytes]
  <2>2. ASSUME NEW n \in 0..k + 1 PROVE G[n] = H[n]
    <3>1. CASE n = 0 BY <2>1, <3>1
    <3>2. CASE n = k + 1
      <4>1. G[n - 1] = F[k] BY <3>2
      <4> QED BY <3>2, <4>1
    <3>3. CASE n \in 1..k
      <4>1. G[n - 1] = F[n - 1] /\ G[n] = F[n] BY <3>3
      <4>2. F[n] = F[n - 1] + s[n].bytes BY <2>1, <3>3
      <4> QED BY <3>3, <4>1, <4>2
    <3> QED BY <3>1, <3>2, <3>3
  <2>3. G = H BY <2>2
  <2>4. Steps(G, k + 1) BY <2>3
  <2> HIDE DEF Steps, G, H
  <2> QED BY <2>4
<1>3. \E F : Steps(F, Len(s))
  <2>1. Nat \subseteq T
    <3> HIDE DEF T
    <3> QED BY <1>1, <1>2, Induction
  <2> HIDE DEF Steps
  <2> QED BY <1>0, <2>1
<1> DEFINE F == CHOOSE g : Steps(g, Len(s))
<1>4. Steps(F, Len(s))
  <2> HIDE DEF Steps
  <2> QED BY <1>3
<1>5. Bytes(s) = F[Len(s)] BY DEF Bytes
<1> HIDE DEF F
<1>6. Sums(s, F)
  <2>1. F[0] = 0 BY <1>0, <1>4
  <2>2. ASSUME NEW i \in 1..Len(s) PROVE F[i] = F[i - 1] + s[i].bytes
    <3>1. i \in 0..Len(s) /\ i # 0 BY <1>0
    <3> QED BY <1>4, <3>1
  <2> QED BY <2>1, <2>2 DEF Sums
<1> QED BY <1>5, <1>6

\* Sums along a concatenation.
LEMMA BytesConcat ==
    ASSUME NEW a \in Seq(Items), NEW b \in Seq(Items)
    PROVE  Bytes(a) \in Nat /\ Bytes(b) \in Nat /\ Bytes(a \o b) = Bytes(a) + Bytes(b)
<1>1. PICK F : Sums(a, F) /\ Bytes(a) = F[Len(a)] BY BytesForm
<1>2. PICK G : Sums(b, G) /\ Bytes(b) = G[Len(b)] BY BytesForm
<1>3. a \o b \in Seq(Items) /\ Len(a) \in Nat /\ Len(b) \in Nat /\ Len(a \o b) = Len(a) + Len(b)
  OBVIOUS
<1>4. PICK H : Sums(a \o b, H) /\ Bytes(a \o b) = H[Len(a \o b)] BY <1>3, BytesForm
<1>5. /\ \A i \in 1..Len(a) : a[i].bytes \in Nat /\ (a \o b)[i] = a[i]
      /\ \A i \in 1..Len(b) : b[i].bytes \in Nat /\ (a \o b)[Len(a) + i] = b[i]
  <2>1. /\ \A i \in 1..Len(a) : a[i] \in Items /\ (a \o b)[i] = a[i]
        /\ \A i \in 1..Len(b) : b[i] \in Items /\ (a \o b)[Len(a) + i] = b[i]
    OBVIOUS
  <2> QED BY <2>1 DEF Items
<1> DEFINE T == {n \in Nat : n <= Len(a) => F[n] \in Nat /\ H[n] = F[n]}
           U == {n \in Nat : n <= Len(b) => G[n] \in Nat /\ H[Len(a) + n] = F[Len(a)] + G[n]}
<1>6. Nat \subseteq T
  <2>1. 0 \in T BY <1>1, <1>4 DEF Sums
  <2>2. ASSUME NEW n \in Nat, n \in T PROVE n + 1 \in T
    <3> SUFFICES ASSUME n + 1 <= Len(a) PROVE F[n + 1] \in Nat /\ H[n + 1] = F[n + 1]
      OBVIOUS
    <3>1. F[n] \in Nat /\ H[n] = F[n] /\ n + 1 \in 1..Len(a) /\ n + 1 \in 1..Len(a \o b)
      BY <1>3, <2>2
    <3>2. F[n + 1] = F[n] + a[n + 1].bytes /\ H[n + 1] = H[n] + (a \o b)[n + 1].bytes
      BY <1>1, <1>4, <3>1 DEF Sums
    <3> QED BY <1>5, <3>1, <3>2
  <2> HIDE DEF T
  <2> QED BY <2>1, <2>2, Induction
<1>7. F[Len(a)] \in Nat /\ H[Len(a)] = F[Len(a)] BY <1>3, <1>6
<1>8. Nat \subseteq U
  <2>1. 0 \in U BY <1>2, <1>3, <1>7 DEF Sums
  <2>2. ASSUME NEW n \in Nat, n \in U PROVE n + 1 \in U
    <3> SUFFICES ASSUME n + 1 <= Len(b)
                 PROVE  G[n + 1] \in Nat /\ H[Len(a) + (n + 1)] = F[Len(a)] + G[n + 1]
      OBVIOUS
    <3>1. /\ G[n] \in Nat /\ H[Len(a) + n] = F[Len(a)] + G[n] /\ n + 1 \in 1..Len(b)
          /\ Len(a) + (n + 1) \in 1..Len(a \o b)
          /\ (Len(a) + (n + 1)) - 1 = Len(a) + n
      BY <1>3, <2>2
    <3>2. /\ G[n + 1] = G[n] + b[n + 1].bytes
          /\ H[Len(a) + (n + 1)] = H[Len(a) + n] + (a \o b)[Len(a) + (n + 1)].bytes
      BY <1>2, <1>4, <3>1 DEF Sums
    <3>3. (a \o b)[Len(a) + (n + 1)].bytes = b[n + 1].bytes /\ b[n + 1].bytes \in Nat
      BY <1>5, <3>1
    <3> QED BY <1>7, <3>1, <3>2, <3>3
  <2> HIDE DEF U
  <2> QED BY <2>1, <2>2, Induction
<1>9. G[Len(b)] \in Nat /\ H[Len(a) + Len(b)] = F[Len(a)] + G[Len(b)] BY <1>3, <1>8
<1> QED BY <1>1, <1>2, <1>3, <1>4, <1>7, <1>9

\* An empty buffer.
LEMMA BytesEmpty == Bytes(<< >>) = 0
<1>1. << >> \in Seq(Items) /\ Len(<< >>) = 0 OBVIOUS
<1>2. PICK F : Sums(<< >>, F) /\ Bytes(<< >>) = F[Len(<< >>)] BY <1>1, BytesForm
<1> QED BY <1>1, <1>2 DEF Sums

LEMMA WireEmpty == Wire(<< >>) = 0
<1>1. Len(<< >>) = 0 /\ Header \in Nat BY OutboundAssumption
<1> QED BY <1>1, BytesEmpty DEF Wire

\* The allowance of try_pop_fitting covers what append_unpadded_frame adds: a
\* batch that fits by the estimate fits on the wire.
LEMMA FitsOnWire ==
    ASSUME NEW a \in Seq(Items), NEW b \in Seq(Items), Estimated(b) <= Budget - Wire(a)
    PROVE  Wire(a \o b) <= Budget
<1>1. Bytes(a) \in Nat /\ Bytes(b) \in Nat /\ Bytes(a \o b) = Bytes(a) + Bytes(b) BY BytesConcat
<1>2. /\ Budget \in Nat /\ Header \in Nat /\ Allowance \in Nat /\ Header <= Allowance
  BY OutboundAssumption
<1>3. PICK m, n \in Nat : m = Len(a) /\ n = Len(b) /\ Len(a \o b) = m + n OBVIOUS
<1>4. PICK x, y \in Nat : x = Bytes(a) /\ y = Bytes(b) BY <1>1
<1>5. Wire(a) = x + Header * m /\ Estimated(b) = y + Allowance * n
  BY <1>3, <1>4 DEF Wire, Estimated
<1>6. Wire(a \o b) = (x + y) + Header * (m + n) BY <1>1, <1>3, <1>4 DEF Wire
<1>7. Header * (m + n) = Header * m + Header * n BY <1>2
<1>8. Header * n <= Allowance * n
  <2>1. PICK d \in Nat : Allowance = Header + d
    <3>1. Allowance - Header \in Nat /\ Allowance = Header + (Allowance - Header) BY <1>2
    <3> QED BY <3>1
  <2>2. (Header + d) * n = Header * n + d * n BY <1>2
  <2>3. d * n \in Nat /\ Header * n \in Nat BY <1>2
  <2>4. Allowance * n = Header * n + d * n BY <2>1, <2>2
  <2> QED BY <2>3, <2>4
<1>9. PICK h, k, l \in Nat : h = Header * m /\ k = Header * n /\ l = Allowance * n BY <1>2
<1>10. Wire(a) = x + h /\ Estimated(b) = y + l BY <1>5, <1>9
<1>11. Wire(a \o b) = (x + y) + (h + k) BY <1>6, <1>7, <1>9
<1>12. k <= l BY <1>8, <1>9
<1>13. (y + l) <= Budget - (x + h) BY <1>10
<1>14. PICK budget \in Nat : budget = Budget BY <1>2
<1>15. (x + y) + (h + k) <= budget BY <1>12, <1>13, <1>14
<1> QED BY <1>11, <1>14, <1>15

-----------------------------------------------------------------------------
(* The frames of a queue of batches *)

Associates(x, y, z) == (x \o y) \o z = x \o (y \o z)

LEMMA ItemsAssociate ==
    ASSUME NEW x \in Seq(Items), NEW y \in Seq(Items), NEW z \in Seq(Items)
    PROVE  Associates(x, y, z)
BY ConcatAssociative DEF Associates

Flat(q, F) == F[0] = << >> /\ \A i \in 1..Len(q) : F[i] = F[i - 1] \o q[i]

\* FlattenSeq is the last of the partial concatenations.
LEMMA FlattenForm ==
    ASSUME NEW q \in Seq(Seq(Items))
    PROVE  \E F : Flat(q, F) /\ FlattenSeq(q) = F[Len(q)]
<1>0. Len(q) \in Nat /\ \A i \in 1..Len(q) : q[i] \in Seq(Items) OBVIOUS
<1>1. CASE Len(q) = 0
  <2>1. q = << >> /\ FlattenSeq(q) = q BY <1>1 DEF FlattenSeq
  <2>2. Flat(q, [i \in 0..0 |-> << >>]) BY <1>1 DEF Flat
  <2> QED BY <1>1, <2>1, <2>2
<1>2. CASE Len(q) # 0
  <2> DEFINE Add(acc, i) == acc \o q[i]
             Steps(F, k) == F = [i \in 1..k |-> IF i = 1 THEN q[i] ELSE Add(F[i - 1], i)]
             T == {k \in Nat : \E F : Steps(F, k + 1)}
  <2> HIDE DEF Add
  <2>1. 0 \in T
    <3>1. Steps([i \in 1..0 + 1 |-> q[i]], 0 + 1) OBVIOUS
    <3> HIDE DEF Steps
    <3> QED BY <3>1
  <2>2. ASSUME NEW k \in Nat, k \in T PROVE k + 1 \in T
    <3>1. PICK F : Steps(F, k + 1) BY <2>2
    <3> DEFINE G == [i \in 1..(k + 1) + 1 |-> IF i = k + 2 THEN Add(F[k + 1], i) ELSE F[i]]
               H == [i \in 1..(k + 1) + 1 |-> IF i = 1 THEN q[i] ELSE Add(G[i - 1], i)]
    <3>2. ASSUME NEW i \in 1..(k + 1) + 1 PROVE G[i] = H[i]
      <4>1. CASE i = 1 BY <3>1, <4>1
      <4>2. CASE i = k + 2
        <5>1. G[i - 1] = F[k + 1] BY <4>2
        <5> QED BY <4>2, <5>1
      <4>3. CASE i \in 2..k + 1
        <5>1. G[i - 1] = F[i - 1] /\ G[i] = F[i] BY <4>3
        <5>2. F[i] = Add(F[i - 1], i) BY <3>1, <4>3
        <5> QED BY <4>3, <5>1, <5>2
      <4> QED BY <4>1, <4>2, <4>3
    <3>3. G = H BY <3>2
    <3>4. Steps(G, (k + 1) + 1) BY <3>3
    <3> HIDE DEF Steps, G, H
    <3> QED BY <3>4
  <2>3. \E F : Steps(F, Len(q))
    <3>1. Nat \subseteq T
      <4> HIDE DEF T
      <4> QED BY <2>1, <2>2, Induction
    <3>2. Len(q) - 1 \in Nat /\ (Len(q) - 1) + 1 = Len(q) BY <1>0, <1>2
    <3> HIDE DEF Steps
    <3> QED BY <3>1, <3>2
  <2> DEFINE G == CHOOSE g : Steps(g, Len(q))
  <2>4. Steps(G, Len(q))
    <3> HIDE DEF Steps
    <3> QED BY <2>3
  <2>5. FlattenSeq(q) = G[Len(q)] BY <1>2 DEF FlattenSeq, Add
  <2> HIDE DEF G
  <2> DEFINE F == [i \in 0..Len(q) |-> IF i = 0 THEN << >> ELSE G[i]]
  <2>6. ASSUME NEW i \in 1..Len(q) PROVE F[i] = F[i - 1] \o q[i]
    <3>1. CASE i = 1
      <4>1. G[1] = q[1] BY <1>0, <2>4, <3>1
      <4>2. << >> \o q[1] = q[1] BY <1>0, <3>1
      <4> QED BY <1>0, <3>1, <4>1, <4>2
    <3>2. CASE i # 1
      <4>1. F[i - 1] = G[i - 1] /\ F[i] = G[i] BY <1>0, <3>2
      <4>2. G[i] = Add(G[i - 1], i) BY <1>0, <2>4, <3>2
      <4> QED BY <4>1, <4>2 DEF Add
    <3> QED BY <3>1, <3>2
  <2>7. F[0] = << >> /\ F[Len(q)] = G[Len(q)] BY <1>0, <1>2
  <2> HIDE DEF F
  <2>8. Flat(q, F) BY <2>6, <2>7 DEF Flat
  <2> QED BY <2>5, <2>7, <2>8
<1> QED BY <1>1, <1>2

\* Partial concatenations depend on the batches seen so far only.
LEMMA FlatPrefix ==
    ASSUME NEW q \in Seq(Seq(Items)), NEW r \in Seq(Seq(Items)), NEW F, NEW G, Flat(q, F), Flat(r, G),
           NEW k \in Nat, k <= Len(q), k <= Len(r), \A i \in 1..k : q[i] = r[i]
    PROVE  F[k] = G[k] /\ F[k] \in Seq(Items)
<1> DEFINE T == {n \in Nat : n <= k => F[n] = G[n] /\ F[n] \in Seq(Items)}
<1>1. 0 \in T
  <2>1. F[0] = << >> /\ G[0] = << >> BY DEF Flat
  <2>2. << >> \in Seq(Items) OBVIOUS
  <2> QED BY <2>1, <2>2
<1>2. ASSUME NEW n \in Nat, n \in T PROVE n + 1 \in T
  <2> SUFFICES ASSUME n + 1 <= k PROVE F[n + 1] = G[n + 1] /\ F[n + 1] \in Seq(Items)
    OBVIOUS
  <2>1. F[n] = G[n] /\ F[n] \in Seq(Items) BY <1>2
  <2>2. /\ n + 1 \in 1..Len(q) /\ n + 1 \in 1..Len(r) /\ n + 1 \in 1..k /\ (n + 1) - 1 = n
        /\ q[n + 1] \in Seq(Items)
    <3>1. Len(q) \in Nat /\ Len(r) \in Nat OBVIOUS
    <3>2. n + 1 \in 1..Len(q) /\ n + 1 \in 1..Len(r) /\ n + 1 \in 1..k /\ (n + 1) - 1 = n
      BY <3>1
    <3>3. \A i \in 1..Len(q) : q[i] \in Seq(Items) OBVIOUS
    <3> QED BY <3>2, <3>3
  <2>3. F[n + 1] = F[n] \o q[n + 1] /\ G[n + 1] = G[n] \o r[n + 1] BY <2>2 DEF Flat
  <2>4. q[n + 1] = r[n + 1] BY <2>2
  <2>5. PICK x, y : x = F[n] /\ y = q[n + 1] OBVIOUS
  <2>6. x \o y \in Seq(Items)
    <3>1. x \in Seq(Items) /\ y \in Seq(Items) BY <2>1, <2>2, <2>5
    <3> QED BY <3>1
  <2>7. F[n + 1] = x \o y /\ G[n + 1] = x \o y BY <2>1, <2>3, <2>4, <2>5
  <2> QED BY ONLY <2>6, <2>7
<1>3. Nat \subseteq T
  <2> HIDE DEF T
  <2> QED BY <1>1, <1>2, Induction
<1> QED BY <1>3

\* The frames of a queue are frames.
LEMMA FlattenType ==
    ASSUME NEW q \in Seq(Seq(Items))
    PROVE  FlattenSeq(q) \in Seq(Items)
<1>1. PICK F : Flat(q, F) /\ FlattenSeq(q) = F[Len(q)] BY FlattenForm
<1>2. PICK k \in Nat : k = Len(q) OBVIOUS
<1>3. k <= Len(q) /\ \A i \in 1..k : q[i] = q[i] BY <1>2
<1>4. F[k] \in Seq(Items) BY <1>1, <1>3, FlatPrefix
<1> QED BY <1>1, <1>2, <1>4

\* Taking the first batch off.
LEMMA FlattenHead ==
    ASSUME NEW q \in Seq(Seq(Items)), q # << >>
    PROVE  FlattenSeq(q) = Head(q) \o FlattenSeq(Tail(q))
<1>0. /\ Len(q) \in Nat \ {0} /\ Tail(q) \in Seq(Seq(Items)) /\ Len(Tail(q)) = Len(q) - 1
      /\ \A i \in 1..Len(q) - 1 : Tail(q)[i] = q[i + 1]
      /\ Head(q) = q[1] /\ \A i \in 1..Len(q) : q[i] \in Seq(Items)
  OBVIOUS
<1>1. PICK F : Flat(q, F) /\ FlattenSeq(q) = F[Len(q)] BY FlattenForm
<1>2. PICK G : Flat(Tail(q), G) /\ FlattenSeq(Tail(q)) = G[Len(Tail(q))] BY <1>0, FlattenForm
<1> DEFINE Good(n) == F[n + 1] = q[1] \o G[n] /\ G[n] \in Seq(Items)
           T == {n \in Nat : n <= Len(q) - 1 => Good(n)}
<1>3. 0 \in T
  <2>1. F[0] = << >> /\ G[0] = << >> /\ 1 \in 1..Len(q) BY <1>0, <1>1, <1>2 DEF Flat
  <2>2. F[1] = F[0] \o q[1]
    <3>1. PICK i \in 1..Len(q) : i = 1 BY <2>1
    <3>2. F[i] = F[i - 1] \o q[i] BY <1>1 DEF Flat
    <3>3. i - 1 = 0 BY <3>1
    <3> QED BY <3>1, <3>2, <3>3
  <2>3. PICK x : x = q[1] OBVIOUS
  <2>4. << >> \o x = x /\ x \o << >> = x
    <3>1. x \in Seq(Items) BY <1>0, <2>1, <2>3
    <3> QED BY <3>1
  <2>5. F[0 + 1] = q[1] \o << >> BY <2>1, <2>2, <2>3, <2>4
  <2>6. << >> \in Seq(Items) OBVIOUS
  <2>7. Good(0) BY ONLY <2>1, <2>5, <2>6
  <2> HIDE DEF Good
  <2> QED BY <2>7
<1>4. ASSUME NEW n \in Nat, n \in T PROVE n + 1 \in T
  <2> SUFFICES ASSUME n + 1 <= Len(q) - 1 PROVE Good(n + 1)
    <3> HIDE DEF Good
    <3> QED OBVIOUS
  <2>1. Good(n)
    <3> HIDE DEF Good
    <3> QED BY <1>0, <1>4
  <2>2. /\ (n + 1) + 1 \in 1..Len(q) /\ ((n + 1) + 1) - 1 = n + 1 /\ n + 1 \in 1..Len(Tail(q))
        /\ (n + 1) - 1 = n /\ 1 \in 1..Len(q) /\ n + 1 \in 1..Len(q) - 1
    BY <1>0
  <2>3. F[(n + 1) + 1] = F[n + 1] \o q[(n + 1) + 1] /\ G[n + 1] = G[n] \o Tail(q)[n + 1]
    BY <1>1, <1>2, <2>2 DEF Flat
  <2>4. PICK x, y, z : x = q[(n + 1) + 1] /\ y = q[1] /\ z = G[n] OBVIOUS
  <2>5. Tail(q)[n + 1] = x /\ x \in Seq(Items) /\ y \in Seq(Items) BY <1>0, <2>2, <2>4
  <2>6. z \in Seq(Items) /\ F[n + 1] = y \o z BY <2>1, <2>4
  <2>7. (y \o z) \o x = y \o (z \o x)
    <3>1. Associates(y, z, x) BY <2>5, <2>6, ItemsAssociate
    <3> QED BY ONLY <3>1 DEF Associates
  <2>8. z \o x \in Seq(Items) BY ONLY <2>5, <2>6
  <2>9. F[(n + 1) + 1] = y \o (z \o x) /\ G[n + 1] = z \o x
    BY ONLY <2>3, <2>4, <2>5, <2>6, <2>7
  <2>10. F[(n + 1) + 1] = q[1] \o G[n + 1] /\ G[n + 1] \in Seq(Items)
    BY ONLY <2>4, <2>8, <2>9
  <2> QED BY <2>10
<1>5. Nat \subseteq T
  <2> HIDE DEF T
  <2> QED BY <1>3, <1>4, Induction
<1>6. Len(q) - 1 \in Nat /\ (Len(q) - 1) + 1 = Len(q) BY <1>0
<1>7. Good(Len(q) - 1)
  <2> HIDE DEF Good
  <2> QED BY <1>5, <1>6
<1>8. F[(Len(q) - 1) + 1] = q[1] \o G[Len(q) - 1] BY <1>7
<1> QED BY <1>0, <1>1, <1>2, <1>6, <1>8

\* push_locked puts the frame behind all others, whichever batch takes it.
LEMMA PushLockedForm ==
    ASSUME NEW q \in Seq(Seq(Items)), NEW f \in Items
    PROVE  /\ PushLocked(q, f) \in Seq(Seq(Items)) /\ PushLocked(q, f) # << >>
           /\ FlattenSeq(PushLocked(q, f)) = Append(FlattenSeq(q), f)
<1>0. Len(q) \in Nat /\ <<f>> \in Seq(Items) /\ \A i \in 1..Len(q) : q[i] \in Seq(Items) OBVIOUS
<1>1. PICK F : Flat(q, F) /\ FlattenSeq(q) = F[Len(q)] BY FlattenForm
<1>2. ASSUME NEW r, r = Append(q, <<f>>)
      PROVE  r \in Seq(Seq(Items)) /\ r # << >> /\ FlattenSeq(r) = Append(FlattenSeq(q), f)
  <2>1. /\ r \in Seq(Seq(Items)) /\ r # << >> /\ Len(r) = Len(q) + 1 /\ r[Len(q) + 1] = <<f>>
        /\ \A i \in 1..Len(q) : q[i] = r[i]
    BY <1>0, <1>2
  <2>2. PICK G : Flat(r, G) /\ FlattenSeq(r) = G[Len(r)] BY <2>1, FlattenForm
  <2>3. PICK k \in Nat : k = Len(q) BY <1>0
  <2>4. k <= Len(q) /\ k <= Len(r) /\ \A i \in 1..k : q[i] = r[i] BY <2>1, <2>3
  <2>5. F[k] = G[k] /\ F[k] \in Seq(Items) BY <1>1, <2>1, <2>2, <2>4, FlatPrefix
  <2>6. k + 1 \in 1..Len(r) /\ (k + 1) - 1 = k BY <2>1, <2>3
  <2>7. G[k + 1] = G[k] \o r[k + 1] BY <2>2, <2>6 DEF Flat
  <2>8. PICK x : x = F[k] OBVIOUS
  <2>9. x \o <<f>> = Append(x, f) BY <2>5, <2>8
  <2> QED BY <1>1, <2>1, <2>2, <2>3, <2>5, <2>7, <2>8, <2>9
<1>3. ASSUME NEW r, q # << >>, r = [q EXCEPT ![Len(q)] = Append(q[Len(q)], f)]
      PROVE  r \in Seq(Seq(Items)) /\ r # << >> /\ FlattenSeq(r) = Append(FlattenSeq(q), f)
  <2>0. PICK m \in Nat : m + 1 = Len(q) /\ m + 1 \in 1..Len(q)
    <3>1. Len(q) - 1 \in Nat /\ (Len(q) - 1) + 1 = Len(q) /\ Len(q) \in 1..Len(q) BY <1>0, <1>3
    <3> QED BY <3>1
  <2> DEFINE x == q[m + 1]
  <2>1. x \in Seq(Items) /\ Append(x, f) \in Seq(Items) BY <1>0, <2>0
  <2>2. r = [q EXCEPT ![m + 1] = Append(x, f)] BY <1>3, <2>0
  <2> HIDE DEF x
  <2>3. /\ r \in Seq(Seq(Items)) /\ Len(r) = Len(q) /\ r[m + 1] = Append(x, f)
        /\ \A i \in 1..m : q[i] = r[i]
    <3>1. PICK e \in Seq(Items) : e = Append(x, f) BY <2>1
    <3>2. r = [q EXCEPT ![m + 1] = e] BY <2>2, <3>1
    <3>3. \A i \in 1..m : i \in 1..Len(q) /\ i # m + 1 BY <2>0
    <3> QED BY <2>0, <3>1, <3>2, <3>3, ExceptSeq
  <2>4. r # << >> BY <2>0, <2>3
  <2>5. PICK G : Flat(r, G) /\ FlattenSeq(r) = G[Len(r)] BY <2>3, FlattenForm
  <2>6. m <= Len(q) /\ m <= Len(r) BY <2>0, <2>3
  <2>7. F[m] = G[m] /\ F[m] \in Seq(Items) BY <1>1, <2>3, <2>5, <2>6, FlatPrefix
  <2>8. m + 1 \in 1..Len(r) /\ (m + 1) - 1 = m BY <2>0, <2>3
  <2>9. G[m + 1] = G[m] \o r[m + 1] /\ F[m + 1] = F[m] \o x
    BY <1>1, <2>0, <2>5, <2>8 DEF Flat, x
  <2>10. PICK y : y = F[m] OBVIOUS
  <2>11. y \o Append(x, f) = Append(y \o x, f)
    <3>1. y \in Seq(Items) BY <2>7, <2>10
    <3>2. Append(x, f) = x \o <<f>> /\ Append(y \o x, f) = (y \o x) \o <<f>> BY <2>1, <3>1
    <3>3. (y \o x) \o <<f>> = y \o (x \o <<f>>)
      <4>1. Associates(y, x, <<f>>) BY <1>0, <2>1, <3>1, ItemsAssociate
      <4> QED BY ONLY <4>1 DEF Associates
    <3> QED BY <3>2, <3>3
  <2> QED BY <1>1, <2>0, <2>3, <2>4, <2>5, <2>7, <2>9, <2>10, <2>11
<1>4. \/ PushLocked(q, f) = Append(q, <<f>>)
      \/ q # << >> /\ PushLocked(q, f) = [q EXCEPT ![Len(q)] = Append(q[Len(q)], f)]
  BY DEF PushLocked
<1> QED BY <1>2, <1>3, <1>4

-----------------------------------------------------------------------------
(* Records in rustls *)

Records == Seq(Items) \cup {<<Heartbeat>>}

\* Only a keepalive carries nothing.
LEMMA PayloadForm ==
    /\ \A held \in Seq(Items) : Payload(held) = held
    /\ Payload(<<Heartbeat>>) = << >> /\ <<Heartbeat>> # << >>
    /\ \A held \in Records : Payload(held) \in Seq(Items)
<1>1. ASSUME NEW held \in Seq(Items) PROVE held # <<Heartbeat>>
  <2> SUFFICES ASSUME held = <<Heartbeat>> PROVE FALSE
    OBVIOUS
  <2>1. Len(held) = 1 /\ held[1] = Heartbeat OBVIOUS
  <2>2. held[1] \in Items BY <2>1
  <2> QED BY <2>1, <2>2 DEF Items, Heartbeat
<1>2. \A held \in Seq(Items) : Payload(held) = held BY <1>1 DEF Payload
<1>3. Payload(<<Heartbeat>>) = << >> /\ <<Heartbeat>> # << >> BY DEF Payload
<1>4. << >> \in Seq(Items) OBVIOUS
<1> QED BY <1>2, <1>3, <1>4 DEF Records

\* drain_tls writes everything or nothing.
LEMMA DrainTlsForm ==
    ASSUME NEW held \in Records, wire \in Seq(Items), DrainTls(held)
    PROVE  /\ tls' \in Records /\ wire' \in Seq(Items)
           /\ wire' \o Payload(tls') = wire \o Payload(held)
           /\ tls' = << >> \/ tls' = held
           /\ stall' # "no" => tls' # << >>
<1>0. << >> \in Seq(Items) /\ << >> \in Records BY DEF Records
<1>1. Payload(<< >>) = << >> BY <1>0, PayloadForm
<1>2. CASE held = << >> BY <1>0, <1>2 DEF DrainTls
<1>3. CASE held # << >> /\ blocked BY <1>3 DEF DrainTls
<1>4. CASE held # << >> /\ ~blocked
  <2>1. tls' = << >> /\ stall' = "no" /\ wire' = wire \o Payload(held) BY <1>4 DEF DrainTls
  <2>2. PICK x \in Seq(Items) : x = Payload(held) BY PayloadForm
  <2>3. wire \o x \in Seq(Items) /\ (wire \o x) \o << >> = wire \o x OBVIOUS
  <2> QED BY <1>0, <1>1, <2>1, <2>2, <2>3
<1> QED BY <1>2, <1>3, <1>4

-----------------------------------------------------------------------------
(* The flow of frames *)

\* Nothing moves when the four places are left alone.
LEMMA FlowStutter ==
    ASSUME Fifo, UNCHANGED <<queue, buf, tls, wire, accepted>>
    PROVE  Fifo'
BY DEF Fifo, Frames

\* A frame pushed behind the others.
LEMMA AppendBehind ==
    ASSUME NEW x \in Seq(Items), NEW r \in Seq(Items), NEW f \in Items
    PROVE  x \o Append(r, f) = Append(x \o r, f)
<1>1. <<f>> \in Seq(Items) /\ x \o r \in Seq(Items) OBVIOUS
<1>2. (x \o r) \o <<f>> = x \o (r \o <<f>>)
  <2>1. Associates(x, r, <<f>>) BY <1>1, ItemsAssociate
  <2> QED BY ONLY <2>1 DEF Associates
<1>3. Append(r, f) = r \o <<f>> OBVIOUS
<1>4. PICK y \in Seq(Items) : y = x \o r BY <1>1
<1>5. Append(y, f) = y \o <<f>> OBVIOUS
<1> QED BY <1>2, <1>3, <1>4, <1>5

\* What is ahead of the queue.
LEMMA AheadType ==
    ASSUME TypeOK
    PROVE  wire \o Payload(tls) \o buf \in Seq(Items)
<1>1. PICK w, t, b \in Seq(Items) : w = wire /\ t = Payload(tls) /\ b = buf
  BY PayloadForm DEF TypeOK, Records
<1>2. w \o t \in Seq(Items) OBVIOUS
<1>3. PICK y \in Seq(Items) : y = w \o t BY <1>2
<1>4. y \o b \in Seq(Items) OBVIOUS
<1> QED BY <1>1, <1>3, <1>4

LEMMA InitFlow == Init => FlowInv /\ Remembered
<1> SUFFICES ASSUME Init PROVE FlowInv /\ Remembered
  OBVIOUS
<1>0. << >> \in Seq(Items) /\ << >> \in Seq(Seq(Items)) OBVIOUS
<1>1. TypeOK BY <1>0 DEF Init, TypeOK
<1>2. StageInv /\ Remembered BY DEF Init, StageInv, Remembered
<1>3. FlattenSeq(<< >>) = << >> BY DEF FlattenSeq
<1>4. Payload(<< >>) = << >> BY <1>0, PayloadForm
<1>5. << >> \o << >> = << >> OBVIOUS
<1>6. Fifo BY <1>3, <1>4, <1>5, WireEmpty, OutboundAssumption DEF Init, Fifo, Frames
<1> QED BY <1>1, <1>2, <1>6 DEF FlowInv

\* One frame into the queue.
LEMMA PushFlow ==
    ASSUME TypeOK, Fifo, NEW f \in Items
    PROVE  /\ PushLocked(queue, f) \in Seq(Seq(Items))
           /\ Append(accepted, f) \in Seq(Items)
           /\ Append(accepted, f)
                = wire \o Payload(tls) \o buf \o FlattenSeq(PushLocked(queue, f))
<1>1. /\ queue \in Seq(Seq(Items)) /\ wire \in Seq(Items) /\ buf \in Seq(Items)
      /\ accepted \in Seq(Items) /\ tls \in Records
  BY DEF TypeOK, Records
<1>2. PICK q \in Seq(Seq(Items)) : q = queue BY <1>1
<1>3. PushLocked(q, f) \in Seq(Seq(Items)) /\ FlattenSeq(PushLocked(q, f)) = Append(FlattenSeq(q), f)
  BY PushLockedForm
<1>4. PICK x, r \in Seq(Items) : x = wire \o Payload(tls) \o buf /\ r = FlattenSeq(q)
  BY AheadType, FlattenType
<1>5. x \o Append(r, f) = Append(x \o r, f) BY AppendBehind
<1>6. accepted = x \o r BY <1>2, <1>4 DEF Fifo, Frames
<1>7. Append(accepted, f) \in Seq(Items) BY <1>1
<1> QED BY <1>2, <1>3, <1>4, <1>5, <1>6, <1>7

LEMMA NewFrameType ==
    ASSUME TypeOK, NEW n \in FrameSizes
    PROVE  NewFrame(n) \in Items /\ [NewFrame(n) EXCEPT !.id = @ + 1] \in Items
<1>1. n \in Nat /\ Len(accepted) \in Nat BY OutboundAssumption DEF TypeOK
<1> QED BY <1>1 DEF NewFrame, Items

LEMMA TryPushFlow ==
    ASSUME FlowInv, NEW p \in Producers, NEW n \in FrameSizes, TryPush(p, n)
    PROVE  FlowInv'
<1>1. TypeOK /\ StageInv /\ Fifo BY DEF FlowInv
<1>2. PICK f \in Items : f = NewFrame(n) BY <1>1, NewFrameType
<1>3. /\ queue' = PushLocked(queue, f) /\ accepted' = Append(accepted, f)
      /\ prod' = [prod EXCEPT ![p] = "wake"]
      /\ UNCHANGED <<workerVars>>
  BY <1>2 DEF TryPush
<1>4. /\ queue' \in Seq(Seq(Items)) /\ accepted' \in Seq(Items)
      /\ accepted' = wire \o Payload(tls) \o buf \o FlattenSeq(queue')
  BY <1>1, <1>3, PushFlow
<1>5. prod' \in [Producers -> {"idle", "wake", "push", "poke"}] BY <1>1, <1>3 DEF TypeOK
<1>6. TypeOK' BY <1>1, <1>3, <1>4, <1>5 DEF TypeOK, workerVars
<1>7. StageInv' BY <1>1, <1>3 DEF StageInv, workerVars
<1>8. Fifo' BY <1>1, <1>3, <1>4 DEF Fifo, Frames, workerVars
<1> QED BY <1>6, <1>7, <1>8 DEF FlowInv

LEMMA BatchFlow ==
    ASSUME FlowInv, NEW p \in Producers, NEW n \in FrameSizes, WritePayloadBatch(p, n)
    PROVE  FlowInv'
<1>1. TypeOK /\ StageInv /\ Fifo BY DEF FlowInv
<1>2. PICK f, g \in Items : f = NewFrame(n) /\ g = [NewFrame(n) EXCEPT !.id = @ + 1]
  BY <1>1, NewFrameType
<1>3. /\ \/ /\ queue' = PushLocked(PushLocked(queue, f), g)
            /\ accepted' = accepted \o <<f, g>>
         \/ queue' = PushLocked(queue, f) /\ accepted' = Append(accepted, f)
      /\ prod' = [prod EXCEPT ![p] = "wake"]
      /\ UNCHANGED <<workerVars>>
  BY <1>2 DEF WritePayloadBatch
<1>4. /\ queue' \in Seq(Seq(Items)) /\ accepted' \in Seq(Items)
      /\ accepted' = wire \o Payload(tls) \o buf \o FlattenSeq(queue')
  <2>1. CASE queue' = PushLocked(queue, f) /\ accepted' = Append(accepted, f)
    BY <1>1, <2>1, PushFlow
  <2>2. CASE queue' = PushLocked(PushLocked(queue, f), g) /\ accepted' = accepted \o <<f, g>>
    <3>1. PICK q, a : q = PushLocked(queue, f) /\ a = Append(accepted, f) OBVIOUS
    <3>2. /\ q \in Seq(Seq(Items)) /\ a \in Seq(Items)
          /\ a = wire \o Payload(tls) \o buf \o FlattenSeq(q)
      BY <1>1, <3>1, PushFlow
    <3>3. /\ PushLocked(q, g) \in Seq(Seq(Items))
          /\ FlattenSeq(PushLocked(q, g)) = Append(FlattenSeq(q), g)
      BY <3>2, PushLockedForm
    <3>4. PICK x, r \in Seq(Items) : x = wire \o Payload(tls) \o buf /\ r = FlattenSeq(q)
      BY <1>1, <3>2, AheadType, FlattenType
    <3>5. x \o Append(r, g) = Append(x \o r, g) BY AppendBehind
    <3>6. accepted \in Seq(Items) BY <1>1 DEF TypeOK
    <3>7. accepted \o <<f, g>> = Append(Append(accepted, f), g) BY <3>6
    <3>8. Append(a, g) \in Seq(Items) BY <3>2
    <3> QED BY <2>2, <3>1, <3>2, <3>3, <3>4, <3>5, <3>7, <3>8
  <2> QED BY <1>3, <2>1, <2>2
<1>5. prod' \in [Producers -> {"idle", "wake", "push", "poke"}] BY <1>1, <1>3 DEF TypeOK
<1>6. TypeOK' BY <1>1, <1>3, <1>4, <1>5 DEF TypeOK, workerVars
<1>7. StageInv' BY <1>1, <1>3 DEF StageInv, workerVars
<1>8. Fifo' BY <1>1, <1>3, <1>4 DEF Fifo, Frames, workerVars
<1> QED BY <1>6, <1>7, <1>8 DEF FlowInv

LEMMA ScanFlow ==
    ASSUME FlowInv, Scan
    PROVE  FlowInv'
<1>1. TypeOK /\ StageInv /\ Fifo BY DEF FlowInv
<1>2. /\ pc = "scan" /\ pc' \in {"flush", "dirty"} /\ ret' = "dirty"
      /\ UNCHANGED <<queue, prod, buf, stall, accepted, wire>>
      /\ tls' = tls \/ (tls = << >> /\ stall = "no" /\ tls' = <<Heartbeat>>)
  BY DEF Scan
<1>3. << >> \in Seq(Items) OBVIOUS
<1>4. Payload(tls') = Payload(tls) BY <1>2, <1>3, PayloadForm
<1>5. TypeOK' BY <1>1, <1>2 DEF TypeOK
<1>6. StageInv' BY <1>1, <1>2 DEF StageInv
<1>7. Fifo' BY <1>1, <1>2, <1>4 DEF Fifo, Frames
<1> QED BY <1>5, <1>6, <1>7 DEF FlowInv

\* drain_tls outside a pull: what leaves rustls arrives on the socket.
LEMMA DrainFlow ==
    ASSUME FlowInv, pc # "pull", DrainTls(tls), buf' = << >>,
           UNCHANGED <<queue, accepted, prod, ret>>,
           pc' \in {"poll", "scan", "dirty", "flush", "pull", "closed"},
           pc' = "pull" => tls' = << >>
    PROVE  FlowInv'
<1>1. TypeOK /\ StageInv /\ Fifo BY DEF FlowInv
<1>2. tls \in Records /\ wire \in Seq(Items) BY <1>1 DEF TypeOK, Records
<1>3. /\ tls' \in Records /\ wire' \in Seq(Items)
      /\ wire' \o Payload(tls') = wire \o Payload(tls)
      /\ stall' # "no" => tls' # << >>
  BY <1>2, DrainTlsForm
<1>4. buf = << >> BY <1>1 DEF StageInv
<1>5. TypeOK' BY <1>1, <1>3, <1>4 DEF TypeOK, Records
<1>6. StageInv' BY <1>3 DEF StageInv
<1>7. Fifo' BY <1>1, <1>3, <1>4 DEF Fifo, Frames
<1> QED BY <1>5, <1>6, <1>7 DEF FlowInv

\* A batch moved from the front of the queue to the end of the buffer.
Moved(x, b, h, r) == (x \o b) \o (h \o r) = (x \o (b \o h)) \o r

\* Moving a batch changes nothing along the line.
LEMMA MoveBatch ==
    ASSUME NEW x \in Seq(Items), NEW b \in Seq(Items), NEW h \in Seq(Items), NEW r \in Seq(Items)
    PROVE  Moved(x, b, h, r)
<1>1. PICK y \in Seq(Items) : y = x \o b
  <2>1. x \o b \in Seq(Items) OBVIOUS
  <2> QED BY <2>1
<1>2. (x \o b) \o h = x \o (b \o h)
  <2>1. Associates(x, b, h) BY ItemsAssociate
  <2> QED BY ONLY <2>1 DEF Associates
<1>3. (y \o h) \o r = y \o (h \o r)
  <2>1. Associates(y, h, r) BY ItemsAssociate
  <2> QED BY ONLY <2>1 DEF Associates
<1> QED BY <1>1, <1>2, <1>3 DEF Moved

LEMMA FlushPullFlow ==
    ASSUME FlowInv, FlushPull
    PROVE  FlowInv'
<1>1. TypeOK /\ StageInv /\ Fifo BY DEF FlowInv
<1>2. /\ pc = "pull" /\ queue # << >> /\ Estimated(Head(queue)) <= Budget - Wire(buf)
      /\ buf' = buf \o Head(queue) /\ queue' = Tail(queue)
      /\ UNCHANGED <<prod, pc, ret, tls, stall, accepted, wire>>
  BY DEF FlushPull, FrontFits
<1>3. PICK q \in Seq(Seq(Items)) : q = queue BY <1>1 DEF TypeOK
<1>4. Head(q) \in Seq(Items) /\ Tail(q) \in Seq(Seq(Items)) BY <1>2, <1>3
<1>5. FlattenSeq(q) = Head(q) \o FlattenSeq(Tail(q)) BY <1>2, <1>3, FlattenHead
<1>6. PICK w, t, b, h, r :
        /\ w = wire /\ t = Payload(tls) /\ b = buf /\ h = Head(q) /\ r = FlattenSeq(Tail(q))
        /\ w \in Seq(Items) /\ t \in Seq(Items) /\ b \in Seq(Items) /\ h \in Seq(Items)
        /\ r \in Seq(Items)
  <2>1. wire \in Seq(Items) /\ buf \in Seq(Items) /\ tls \in Records BY <1>1 DEF TypeOK, Records
  <2>2. Payload(tls) \in Seq(Items) BY <2>1, PayloadForm
  <2>3. FlattenSeq(Tail(q)) \in Seq(Items) BY <1>4, FlattenType
  <2> QED BY <1>4, <2>1, <2>2, <2>3
<1>7. b \o h \in Seq(Items) BY <1>6
<1>8. TypeOK' BY <1>1, <1>2, <1>3, <1>4, <1>6, <1>7 DEF TypeOK
<1>9. StageInv' BY <1>1, <1>2 DEF StageInv
<1>10. accepted' = wire' \o Payload(tls') \o buf' \o FlattenSeq(queue')
  <2>1. PICK x : x = w \o t /\ x \in Seq(Items)
    <3>1. w \o t \in Seq(Items) BY <1>6
    <3> QED BY <3>1
  <2>3. Moved(x, b, h, r) BY <1>6, <2>1, MoveBatch
  <2>4. (x \o b) \o (h \o r) = (x \o (b \o h)) \o r BY <2>3 DEF Moved
  <2>5. accepted = (x \o b) \o (h \o r) BY <1>1, <1>3, <1>5, <1>6, <2>1 DEF Fifo, Frames
  <2> QED BY <1>2, <1>3, <1>6, <2>1, <2>4, <2>5
<1>11. Wire(buf') <= Budget BY <1>2, <1>3, <1>6, FitsOnWire
<1>12. Fifo' BY <1>10, <1>11 DEF Fifo, Frames
<1> QED BY <1>8, <1>9, <1>12 DEF FlowInv

LEMMA FlushEndFlow ==
    ASSUME FlowInv, FlushEnd
    PROVE  FlowInv'
<1>1. TypeOK /\ StageInv /\ Fifo BY DEF FlowInv
<1>2. /\ pc = "pull" /\ pc' = ret /\ buf' = << >> /\ DrainTls(buf)
      /\ UNCHANGED <<queue, prod, ret, accepted>>
  BY DEF FlushEnd
<1>3. buf \in Records /\ buf \in Seq(Items) /\ wire \in Seq(Items) BY <1>1 DEF TypeOK, Records
<1>4. /\ tls' \in Records /\ wire' \in Seq(Items)
      /\ wire' \o Payload(tls') = wire \o Payload(buf)
      /\ stall' # "no" => tls' # << >>
  BY <1>2, <1>3, DrainTlsForm
<1>5. tls = << >> /\ << >> \in Seq(Items) BY <1>1, <1>2 DEF StageInv
<1>6. Payload(tls) = << >> /\ Payload(buf) = buf BY <1>3, <1>5, PayloadForm
<1>7. pc' \in {"poll", "dirty"} BY <1>1, <1>2 DEF TypeOK
<1>8. TypeOK' BY <1>1, <1>2, <1>4, <1>5, <1>7 DEF TypeOK, Records
<1>9. StageInv' BY <1>2, <1>4, <1>7 DEF StageInv
<1>10. Fifo'
  <2>1. wire \o << >> = wire BY <1>3
  <2>2. PICK y \in Seq(Items) : y = wire \o buf
    <3>1. PICK w, b \in Seq(Items) : w = wire /\ b = buf BY <1>3
    <3>2. w \o b \in Seq(Items) OBVIOUS
    <3> QED BY <3>1, <3>2
  <2>3. y \o << >> = y OBVIOUS
  <2>4. accepted = wire \o << >> \o buf \o Frames BY <1>1, <1>6 DEF Fifo
  <2>5. accepted = y \o Frames BY <2>1, <2>2, <2>4
  <2>6. accepted' = wire' \o Payload(tls') \o buf' \o Frames'
    BY <1>2, <1>4, <1>6, <2>2, <2>3, <2>5 DEF Frames
  <2>7. Wire(buf') <= Budget BY <1>2, WireEmpty, OutboundAssumption
  <2> QED BY <2>6, <2>7 DEF Fifo
<1> QED BY <1>8, <1>9, <1>10 DEF FlowInv

\* Every step keeps the flow.
LEMMA FlowStep ==
    ASSUME FlowInv, [Next]_vars
    PROVE  FlowInv'
<1>1. TypeOK /\ StageInv /\ Fifo BY DEF FlowInv
<1>2. ASSUME NEW p \in Producers, NEW n \in FrameSizes, TryPush(p, n) \/ WritePayloadBatch(p, n)
      PROVE  FlowInv'
  BY <1>2, TryPushFlow, BatchFlow
<1>3. ASSUME NEW p \in Producers, Wake(p) PROVE FlowInv'
  <2>1. /\ UNCHANGED <<queue, accepted, pc, ret, buf, tls, stall, wire>>
        /\ \E v \in {"idle", "push", "poke"} : prod' = [prod EXCEPT ![p] = v]
    BY <1>3 DEF Wake, WakeCas, WakePush, WakePoke, workerVars
  <2>2. prod' \in [Producers -> {"idle", "wake", "push", "poke"}] BY <1>1, <2>1 DEF TypeOK
  <2> QED BY <1>1, <2>1, <2>2, FlowStutter DEF FlowInv, TypeOK, StageInv
<1>4. ASSUME UNCHANGED <<queue, accepted, buf, tls, stall, wire, prod>>, ret' \in {"poll", "dirty"},
             pc' \in {"poll", "scan", "dirty", "flush", "closed"}, pc # "pull"
      PROVE  FlowInv'
  BY <1>1, <1>4, FlowStutter DEF FlowInv, TypeOK, StageInv
<1>5. ASSUME Poll \/ ScanStalled \/ PopDirty \/ EventsDone PROVE FlowInv'
  <2>1. ret \in {"poll", "dirty"} BY <1>1 DEF TypeOK
  <2> QED BY <1>4, <1>5, <2>1 DEF Poll, ScanStalled, PopDirty, EventsDone
<1>6. CASE Scan BY <1>6, ScanFlow
<1>7. CASE FlushBegin
  <2>1. pc' \in {"poll", "dirty", "pull"} /\ (pc' = "pull" => tls' = << >>)
    BY <1>1, <1>7 DEF FlushBegin, TypeOK
  <2> QED BY <1>7, <2>1, DrainFlow DEF FlushBegin
<1>8. CASE FlushPull BY <1>8, FlushPullFlow
<1>9. CASE FlushEnd BY <1>9, FlushEndFlow
<1>10. CASE ReadEvent
  <2>1. buf' = << >> /\ pc = "dirty" /\ pc' = "dirty" BY <1>1, <1>10 DEF ReadEvent, StageInv
  <2> QED BY <1>10, <2>1, DrainFlow DEF ReadEvent
<1>11. ASSUME SocketChanges \/ KeepaliveDue \/ StallTimeout \/ UNCHANGED vars PROVE FlowInv'
  <2>1. UNCHANGED <<queue, accepted, buf, tls, wire, prod, ret, pc>>
    BY <1>11 DEF SocketChanges, KeepaliveDue, StallTimeout, vars, workerVars
  <2>2. stall' = stall \/ stall = "yes"
    BY <1>11 DEF SocketChanges, KeepaliveDue, StallTimeout, vars, workerVars
  <2> QED BY <1>1, <2>1, <2>2, FlowStutter DEF FlowInv, TypeOK, StageInv
<1> QED BY <1>2, <1>3, <1>5, <1>6, <1>7, <1>8, <1>9, <1>10, <1>11 DEF Next, Worker

-----------------------------------------------------------------------------
(* The wake-up protocol *)

\* Every step leaves somebody who remembers the queue.
LEMMA RememberedStep ==
    ASSUME FlowInv, Remembered, [Next]_vars
    PROVE  Remembered'
<1>1. TypeOK /\ StageInv BY DEF FlowInv
<1>2. ASSUME NEW p \in Producers, NEW n \in FrameSizes, TryPush(p, n) \/ WritePayloadBatch(p, n)
      PROVE  Remembered'
  <2>1. prod' = [prod EXCEPT ![p] = "wake"] BY <1>2 DEF TryPush, WritePayloadBatch
  <2>2. prod'[p] = "wake" BY <1>1, <2>1 DEF TypeOK
  <2> QED BY <2>2 DEF Remembered
<1>3. ASSUME NEW p \in Producers, Wake(p) PROVE Remembered'
  <2>1. CASE WakeCas(p) BY <2>1 DEF WakeCas, Remembered, FlushGate
  <2>2. CASE WakePush(p) \/ WakePoke(p)
    <3>1. /\ prod[p] # "wake" /\ UNCHANGED <<queue, pending, leftover, tls, stall, forgotten, pc>>
          /\ \A o \in Producers \ {p} : prod'[o] = prod[o]
      BY <1>1, <2>2 DEF WakePush, WakePoke, workerVars, TypeOK
    <3> QED BY <3>1 DEF Remembered, FlushGate
  <2> QED BY <1>3, <2>1, <2>2 DEF Wake
<1>4. ASSUME UNCHANGED <<queue, prod, pending, leftover, tls, stall, forgotten>>,
             pc \notin {"flush", "pull"} \/ pc' = pc
      PROVE  Remembered'
  BY <1>4 DEF Remembered, FlushGate
<1>5. CASE Poll \/ ScanStalled \/ EventsDone \/ SocketChanges \/ KeepaliveDue \/ UNCHANGED vars
  BY <1>4, <1>5
  DEF Poll, ScanStalled, EventsDone, SocketChanges, KeepaliveDue, vars, notifyVars, workerVars
<1>6. CASE Scan
  <2>1. /\ pc = "scan" /\ UNCHANGED <<queue, prod, pending, leftover, stall, forgotten>>
        /\ tls # << >> => tls' = tls
    BY <1>6 DEF Scan, notifyVars
  <2> QED BY <2>1 DEF Remembered, FlushGate
<1>7. CASE PopDirty BY <1>7 DEF PopDirty, Remembered
<1>8. CASE ReadEvent
  <2>1. /\ pc = "dirty" /\ UNCHANGED <<queue, prod, pending, leftover>>
        /\ forgotten' = (forgotten \/ (tls # << >> /\ tls' = << >>))
    BY <1>8 DEF ReadEvent, notifyVars
  <2>2. CASE tls # << >> BY <2>1, <2>2 DEF Remembered, FlushGate
  <2>3. CASE tls = << >>
    <3>1. stall = "no" BY <1>1, <2>3 DEF StageInv
    <3> QED BY <2>1, <2>3, <3>1 DEF Remembered, FlushGate
  <2> QED BY <2>2, <2>3
<1>9. CASE FlushBegin BY <1>9 DEF FlushBegin, Remembered, FlushGate
<1>10. CASE FlushPull BY <1>10 DEF FlushPull, Remembered
<1>11. CASE FlushEnd BY <1>11 DEF FlushEnd, Remembered, FlushGate
<1>12. CASE StallTimeout BY <1>12 DEF StallTimeout, Remembered, FlushGate
<1> QED BY <1>2, <1>3, <1>5, <1>6, <1>7, <1>8, <1>9, <1>10, <1>11, <1>12 DEF Next, Worker

-----------------------------------------------------------------------------
(* Results *)

(***************************************************************************)
(* From OwnedBatchQueue through send_buf and rustls to the socket no frame *)
(* is lost, repeated or overtaken, and no flush builds a record above the  *)
(* plaintext budget: for any number of producers, any frame sizes within a *)
(* batch, and any batch, record and queue limits.                          *)
(***************************************************************************)
THEOREM FifoHolds == Spec => []Fifo
<1>1. Init => FlowInv BY InitFlow
<1>2. FlowInv /\ [Next]_vars => FlowInv' BY FlowStep
<1>3. FlowInv => Fifo BY DEF FlowInv
<1> QED BY <1>1, <1>2, <1>3, PTL DEF Spec

(***************************************************************************)
(* The wake-up protocol of BackendNotify loses nothing: a backlog that the *)
(* worker sleeps on opens the gate of the next scan, or was left by one of *)
(* the two flushes that forget it.                                         *)
(***************************************************************************)
THEOREM BacklogKept == Spec => []BacklogRemembered
<1>1. Init => FlowInv /\ Remembered BY InitFlow
<1>2. FlowInv /\ Remembered /\ [Next]_vars => (FlowInv /\ Remembered)' BY FlowStep, RememberedStep
<1>3. Remembered => BacklogRemembered
  BY DEF Remembered, BacklogRemembered, Unattended, FlushGate
<1> QED BY <1>1, <1>2, <1>3, PTL DEF Spec

=============================================================================
