---------------------------- MODULE RxActorProofs ----------------------------
(***************************************************************************)
(* The receive side of a session, for any number of connections, epochs,   *)
(* batch sizes and sequence numbers: no frame is delivered twice, and on   *)
(* the server no frame of an old epoch enters the shared buffer.           *)
(***************************************************************************)
EXTENDS RxActor, SequenceTheorems, WellFoundedInduction, TLAPS

Frames == [ep : Nat, seq : Seqs]
Records == [ep : Nat, seq : Seqs \cup {Control}]

\* The shared buffer: nothing it holds lies behind its position.
RxType == [expected : 0..MaxSeq + 1, held : SUBSET Frames,
           slots : [0..DedupWindow - 1 -> Nat], fed : SUBSET Nat]

RxOK(r) ==
    /\ r \in RxType
    /\ \A f \in r.held : r.expected <= f.seq
    /\ r.expected = 0 => r.held = {}

ConnType == [pc : {"down", "joined", "tuned", "up", "flush", "deliver"},
             epoch : Nat, gen : Nat, reconf : BOOLEAN, batch : Seq(Records),
             ready : SUBSET Frames, rgen : Nat, failed : BOOLEAN]

TypeOK ==
    /\ epoch \in Nat /\ generation \in Nat
    /\ RxOK(rx)
    /\ conn \in [Conns -> ConnType]
    /\ timer \in [ready : SUBSET Frames, gen : Nat]
    /\ delivered \subseteq [gen : Nat, seq : Seqs]

\* What is delivered, as the model records it.
Tag(frames, g) == {[gen |-> g, seq |-> f.seq] : f \in frames}

\* The buffer will not release this frame again.
Past(t) == t.gen < generation \/ (t.gen = generation /\ t.seq < rx.expected)

Carried(c) == Tag(conn[c].ready, conn[c].rgen)
TimerCarried == Tag(timer.ready, timer.gen)

\* Everything released is behind the buffer's position, and is either delivered
\* or carried by one thread only.
ReleasedOnce ==
    /\ \A t \in delivered : Past(t)
    /\ \A t \in TimerCarried : Past(t) /\ t \notin delivered
    /\ \A c \in Conns : \A t \in Carried(c) :
         /\ Past(t) /\ t \notin delivered /\ t \notin TimerCarried
         /\ \A d \in Conns \ {c} : t \notin Carried(d)

OnceInv == TypeOK /\ ReleasedOnce /\ DeliveredOnce

\* On the server a rotation takes the epoch and the generation forward together,
\* and a connection that has batched a frame under the epoch of now has a
\* producer of the generation of now.
Fenced(c) ==
    /\ conn[c].epoch <= epoch
    /\ conn[c].pc \in {"up", "flush", "deliver"} =>
         /\ conn[c].gen <= generation
         /\ conn[c].epoch = epoch => conn[c].gen = generation
    /\ conn[c].pc \notin {"up", "flush"} => conn[c].batch = <<>>
    /\ conn[c].batch # <<>> /\ conn[c].gen = generation => conn[c].epoch = epoch
    /\ \A i \in 1..Len(conn[c].batch) : conn[c].batch[i].ep = conn[c].epoch

FenceInv ==
    side = "server" =>
        /\ generation = epoch
        /\ \A c \in Conns : Fenced(c)
        /\ mode = "actor" => rx.fed \subseteq {epoch}

-----------------------------------------------------------------------------
(* Induction, from the well-foundedness of < on the naturals. *)

\* A set of naturals that is not empty has a least element.
LEMMA NatLeast ==
    ASSUME NEW T \in SUBSET Nat, T # {}
    PROVE  \E n \in T : \A m \in T : n <= m
<1> DEFINE R == OpToRel(<, Nat)
<1>1. IsWellFoundedOn(R, Nat) BY NatLessThanWellFounded
<1>2. \A x, y \in Nat : x < y => <<x, y>> \in R BY DEF OpToRel
<1> HIDE DEF R
<1>3. \E x \in T : \A y \in T : ~ (<<y, x>> \in R) BY <1>1, WFMin
<1>4. PICK x \in T : \A y \in T : ~ (<<y, x>> \in R) BY <1>3
<1>5. \A y \in T : x <= y
  <2> TAKE y \in T
  <2>1. x \in Nat /\ y \in Nat OBVIOUS
  <2>2. ~(y < x) BY <1>2, <1>4, <2>1
  <2> QED BY <2>1, <2>2
<1> QED BY <1>5

\* A set with 0 that is closed under successor has every natural number.
LEMMA Induction ==
    ASSUME NEW T, 0 \in T, \A n \in Nat : n \in T => n + 1 \in T
    PROVE  Nat \subseteq T
<1> SUFFICES ASSUME Nat \ T # {} PROVE FALSE
  OBVIOUS
<1>1. PICK n \in Nat \ T : \A m \in Nat \ T : n <= m BY NatLeast
<1>2. n # 0 /\ n - 1 \in Nat /\ n - 1 \in T /\ (n - 1) + 1 = n BY <1>1
<1> QED BY <1>1, <1>2

-----------------------------------------------------------------------------
(* The operators of the shared buffer. *)

\* RunEnd finds the end of the run, for a buffer without frames beyond MaxSeq.
LEMMA RunEndFound ==
    ASSUME NEW held \in SUBSET Frames, NEW e \in 1..MaxSeq + 1
    PROVE  /\ RunEnd(e, held) \in e..MaxSeq + 1
           /\ RunEnd(e, held) \notin HeldSeqs(held)
<1> DEFINE T == {n \in e..MaxSeq + 1 : n \notin HeldSeqs(held)}
<1>1. MaxSeq \in Nat BY RxActorAssumption
<1>2. MaxSeq + 1 \in T BY <1>1 DEF HeldSeqs, Frames, Seqs
<1>3. T \in SUBSET Nat BY <1>1
<1>4. PICK n \in T : \A m \in T : n <= m
  <2> HIDE DEF T
  <2> QED BY <1>2, <1>3, NatLeast
<1>5. \A i \in e..n - 1 : i \in HeldSeqs(held)
  <2> TAKE i \in e..n - 1
  <2>1. i \in e..MaxSeq + 1 /\ i < n BY <1>1, <1>4
  <2>2. i \notin T BY <1>1, <1>4, <2>1
  <2> QED BY <2>1, <2>2
<1>6. \E m \in e..MaxSeq + 1 :
        m \notin HeldSeqs(held) /\ \A i \in e..m - 1 : i \in HeldSeqs(held)
  BY <1>4, <1>5
<1> QED BY <1>6 DEF RunEnd

\* What a pass over the buffer r may do, given the epochs of the frames it saw:
\* the position moves forward, and what became ready lies between the old
\* position and the new one.
Advance(r, eps, p) ==
    /\ RxOK(p.rx)
    /\ r.expected <= p.rx.expected
    /\ p.ready \in SUBSET Frames
    /\ \A f \in p.ready : r.expected <= f.seq /\ f.seq < p.rx.expected
    /\ p.rx.fed \subseteq r.fed \cup eps

\* Releasing the run that starts at e.
LEMMA Release ==
    ASSUME NEW r, RxOK(r), NEW held \in SUBSET Frames, NEW e \in 1..MaxSeq + 1,
           r.expected <= e, \A f \in held : r.expected <= f.seq,
           NEW fed \in SUBSET Nat
    PROVE  LET n == RunEnd(e, held)
               ready == {g \in held : g.seq < n}
               q == [r EXCEPT !.expected = n, !.held = held \ ready, !.fed = fed]
           IN  Advance(r, fed, [rx |-> q, ready |-> ready])
<1> DEFINE n == RunEnd(e, held)
           ready == {g \in held : g.seq < n}
           q == [r EXCEPT !.expected = n, !.held = held \ ready, !.fed = fed]
<1>1. MaxSeq \in Nat /\ Seqs \subseteq Nat BY RxActorAssumption DEF Seqs
<1>2. n \in e..MaxSeq + 1 BY RunEndFound
<1> HIDE DEF n
<1>3. n \in 0..MaxSeq + 1 /\ n # 0 /\ r.expected <= n BY <1>1, <1>2 DEF RxOK, RxType
<1>4. \A g \in held : g.seq \in Nat BY <1>1 DEF Frames
<1>5. q \in RxType /\ q.expected = n /\ q.held = held \ ready /\ q.fed = fed
  <2>1. r \in RxType /\ held \ ready \in SUBSET Frames BY DEF RxOK
  <2> HIDE DEF ready
  <2>2. n \in 0..MaxSeq + 1 /\ fed \in SUBSET Nat BY <1>3
  <2> DEFINE h == held \ ready
  <2>3. h \in SUBSET Frames BY <2>1
  <2>4. q = [r EXCEPT !.expected = n, !.held = h, !.fed = fed] OBVIOUS
  <2> HIDE DEF h, q
  <2>5. q = [expected |-> n, held |-> h, slots |-> r.slots, fed |-> fed]
    BY <2>1, <2>2, <2>3, <2>4 DEF RxType
  <2>6. h = held \ ready BY DEF h
  <2> QED BY <2>1, <2>2, <2>3, <2>5, <2>6 DEF RxType
<1> HIDE DEF q
<1>6. RxOK(q) BY <1>3, <1>4, <1>5 DEF RxOK
<1>7. Advance(r, fed, [rx |-> q, ready |-> ready])
  BY <1>3, <1>4, <1>5, <1>6 DEF Advance
<1> QED BY <1>7 DEF n, q

LEMMA InsertAdvances ==
    ASSUME NEW r, RxOK(r), NEW f \in Frames
    PROVE  Advance(r, {f.ep}, Insert(r, f))
<1> DEFINE e == IF r.expected = 0 THEN f.seq ELSE r.expected
           held == IF f.seq < e \/ f.seq \in HeldSeqs(r.held)
                   THEN r.held ELSE r.held \cup {f}
           fed == r.fed \cup {f.ep}
<1>1. MaxSeq \in Nat BY RxActorAssumption
<1>2. f.seq \in 1..MaxSeq /\ f.ep \in Nat BY DEF Frames, Seqs
<1>3. r.expected \in 0..MaxSeq + 1 /\ r.held \in SUBSET Frames /\ r.fed \in SUBSET Nat
  BY DEF RxOK, RxType
<1>4. e \in 1..MaxSeq + 1 /\ r.expected <= e BY <1>1, <1>2, <1>3
<1>5. held \in SUBSET Frames BY <1>3
<1>6. \A g \in held : r.expected <= g.seq BY <1>1, <1>2, <1>3 DEF RxOK, RxType
<1>7. fed \in SUBSET Nat BY <1>2, <1>3
<1> DEFINE n == RunEnd(e, held)
           ready == {g \in held : g.seq < n}
           q == [r EXCEPT !.expected = n, !.held = held \ ready, !.fed = fed]
<1>8. Advance(r, fed, [rx |-> q, ready |-> ready])
  <2> HIDE DEF e, held, fed
  <2> QED BY <1>4, <1>5, <1>6, <1>7, Release
<1>9. Insert(r, f) = [rx |-> q, ready |-> ready] BY DEF Insert
<1> QED
  <2> HIDE DEF q, ready
  <2> QED BY <1>8, <1>9 DEF Advance

LEMMA MarkKeeps ==
    ASSUME NEW r, RxOK(r), NEW s \in Seqs
    PROVE  /\ RxOK(Mark(r, s))
           /\ Mark(r, s).expected = r.expected /\ Mark(r, s).fed = r.fed
<1>1. s \in Nat /\ Slot(s) \in 0..DedupWindow - 1 BY RxActorAssumption DEF Seqs, Slot
<1>2. [r.slots EXCEPT ![Slot(s)] = s] \in [0..DedupWindow - 1 -> Nat] BY <1>1 DEF RxOK, RxType
<1>3. Mark(r, s) = [expected |-> r.expected, held |-> r.held,
                    slots |-> [r.slots EXCEPT ![Slot(s)] = s], fed |-> r.fed]
  BY DEF Mark, RxOK, RxType
<1> QED BY <1>2, <1>3 DEF RxOK, RxType

\* An insertion keeps what the pass has done so far, and advances.
LEMMA InsertIntoAdvances ==
    ASSUME NEW r, RxOK(r), NEW eps, NEW acc, Advance(r, eps, acc),
           NEW f \in Frames, f.ep \in eps
    PROVE  Advance(r, eps, InsertInto(acc, f))
<1> DEFINE m == acc.rx
           i == Insert(m, f)
<1>1. RxOK(m) BY DEF Advance
<1>2. Advance(m, {f.ep}, i)
  <2> HIDE DEF m
  <2> QED BY <1>1, InsertAdvances
<1>3. InsertInto(acc, f) = [rx |-> i.rx, ready |-> acc.ready \cup i.ready] BY DEF InsertInto
<1>4. m = acc.rx OBVIOUS
<1> HIDE DEF m, i
<1>5. /\ r.expected \in Int /\ acc.rx.expected \in Int /\ i.rx.expected \in Int
      /\ r.expected <= acc.rx.expected /\ acc.rx.expected <= i.rx.expected
  BY <1>1, <1>2, <1>4, RxActorAssumption DEF Advance, RxOK, RxType
<1>6. /\ acc.ready \cup i.ready \in SUBSET Frames
      /\ \A g \in acc.ready \cup i.ready : g.seq \in Int
  BY <1>2, RxActorAssumption DEF Advance, Frames, Seqs
<1>7. \A g \in acc.ready \cup i.ready : r.expected <= g.seq /\ g.seq < i.rx.expected
  BY <1>2, <1>4, <1>5, <1>6 DEF Advance
<1>8. i.rx.fed \subseteq r.fed \cup eps BY <1>2, <1>4 DEF Advance
<1>9. RxOK(i.rx) BY <1>2 DEF Advance
<1> QED BY <1>3, <1>5, <1>6, <1>7, <1>8, <1>9 DEF Advance

LEMMA RecoverAdvances ==
    ASSUME NEW r, RxOK(r), NEW eps, NEW acc, Advance(r, eps, acc),
           NEW f \in Records, f.ep \in eps, NEW rec \in Seqs \cup {Nothing}
    PROVE  Advance(r, eps, Recover(acc, f, rec))
<1>1. CASE rec = Nothing BY <1>1 DEF Recover
<1>2. CASE rec # Nothing
  <2> DEFINE g == Frame(f.ep, rec)
  <2>1. g \in Frames /\ g.ep = f.ep BY <1>2 DEF Frame, Frames, Records
  <2>2. Recover(acc, f, rec) = InsertInto(acc, g) BY <1>2 DEF Recover
  <2> HIDE DEF g
  <2> QED BY <2>1, <2>2, InsertIntoAdvances
<1> QED BY <1>1, <1>2

\* process_item, whatever the decoder rebuilds from the record.
LEMMA ProcessItemAdvances ==
    ASSUME NEW r, RxOK(r), NEW eps, NEW acc, Advance(r, eps, acc),
           NEW f \in Records, f.ep \in eps, NEW rec \in Seqs \cup {Nothing},
           NEW dedup \in BOOLEAN
    PROVE  Advance(r, eps, ProcessItem(acc, f, rec, dedup))
<1>1. CASE f.seq = Control \/ (dedup /\ Duplicate(acc.rx, f.seq))
  BY <1>1, RecoverAdvances DEF ProcessItem
<1>2. CASE ~(f.seq = Control \/ (dedup /\ Duplicate(acc.rx, f.seq)))
  <2> DEFINE m == IF dedup THEN Mark(acc.rx, f.seq) ELSE acc.rx
             a == [rx |-> m, ready |-> acc.ready]
  <2>1. f.seq \in Seqs /\ f.ep \in Nat /\ f \in Frames BY <1>2 DEF Records, Frames
  <2>2. RxOK(m) /\ m.expected = acc.rx.expected /\ m.fed = acc.rx.fed
    BY <2>1, MarkKeeps DEF Advance
  <2>3. ProcessItem(acc, f, rec, dedup) = InsertPair(a, f, rec)
    BY <1>2 DEF ProcessItem
  <2> HIDE DEF m
  <2>4. Advance(r, eps, a) BY <2>2 DEF Advance
  <2> HIDE DEF a
  <2>5. /\ Advance(r, eps, InsertInto(a, f)) /\ Advance(r, eps, Recover(a, f, rec))
    BY <2>1, <2>4, InsertIntoAdvances, RecoverAdvances
  <2>6. /\ Advance(r, eps, InsertInto(Recover(a, f, rec), f))
        /\ Advance(r, eps, Recover(InsertInto(a, f), f, rec))
    <3> DEFINE b == InsertInto(a, f)
               d == Recover(a, f, rec)
    <3>1. Advance(r, eps, b) /\ Advance(r, eps, d) BY <2>5
    <3> HIDE DEF b, d
    <3>2. Advance(r, eps, InsertInto(d, f)) /\ Advance(r, eps, Recover(b, f, rec))
      BY <2>1, <3>1, InsertIntoAdvances, RecoverAdvances
    <3> QED BY <3>2 DEF b, d
  <2>7. \/ InsertPair(a, f, rec) = InsertInto(a, f)
        \/ InsertPair(a, f, rec) = InsertInto(Recover(a, f, rec), f)
        \/ InsertPair(a, f, rec) = Recover(InsertInto(a, f), f, rec)
    BY DEF InsertPair
  <2> QED BY <2>3, <2>5, <2>6, <2>7
<1> QED BY <1>1, <1>2

\* A batch of any length, by induction over its items.
LEMMA ProcessedAdvances ==
    ASSUME NEW r, RxOK(r), NEW b \in Seq(Records),
           NEW rec \in [1..Len(b) -> Seqs \cup {Nothing}], NEW upto, NEW dedup \in BOOLEAN
    PROVE  Advance(r, {b[i].ep : i \in 1..Len(b)}, Processed(r, b, rec, upto, dedup))
<1> DEFINE Item(acc, n) == IF n > upto THEN acc ELSE ProcessItem(acc, b[n], rec[n], dedup)
           start == [rx |-> r, ready |-> {}]
           eps == {b[i].ep : i \in 1..Len(b)}
           Steps(F, k) == F = [n \in 0..k |-> IF n = 0 THEN start ELSE Item(F[n - 1], n)]
           T == {k \in Nat : \E F : Steps(F, k)}
<1>0. Len(b) \in Nat /\ \A n \in 1..Len(b) : b[n] \in Records OBVIOUS
<1>1. \E F : Steps(F, Len(b))
  <2> HIDE DEF Item, start
  <2>1. 0 \in T
    <3>1. Steps([n \in 0..0 |-> start], 0) OBVIOUS
    <3> QED BY <3>1
  <2>2. ASSUME NEW k \in Nat, k \in T PROVE k + 1 \in T
    <3>1. PICK F : Steps(F, k) BY <2>2
    <3> DEFINE G == [n \in 0..k + 1 |-> IF n = k + 1 THEN Item(F[k], n) ELSE F[n]]
               H == [n \in 0..k + 1 |-> IF n = 0 THEN start ELSE Item(G[n - 1], n)]
    <3>2. ASSUME NEW n \in 0..k + 1 PROVE G[n] = H[n]
      <4>1. CASE n = 0 BY <3>1, <4>1
      <4>2. CASE n = k + 1
        <5>1. G[n - 1] = F[k] BY <4>2
        <5> QED BY <4>2, <5>1
      <4>3. CASE n \in 1..k
        <5>1. G[n - 1] = F[n - 1] /\ G[n] = F[n] BY <4>3
        <5>2. F[n] = Item(F[n - 1], n) BY <3>1, <4>3
        <5> QED BY <4>3, <5>1, <5>2
      <4> QED BY <4>1, <4>2, <4>3
    <3>3. G = H BY <3>2
    <3>4. Steps(G, k + 1) BY <3>3
    <3> HIDE DEF Steps, G, H
    <3> QED BY <3>4
  <2> HIDE DEF Steps
  <2>3. Nat \subseteq T
    <3> HIDE DEF T
    <3> QED BY <2>1, <2>2, Induction
  <2> QED BY <1>0, <2>3
<1> DEFINE F == CHOOSE g : Steps(g, Len(b))
<1>2. Steps(F, Len(b))
  <2> HIDE DEF Steps
  <2> QED BY <1>1
<1>3. Processed(r, b, rec, upto, dedup) = F[Len(b)] BY DEF Processed
<1> HIDE DEF F
<1> DEFINE Good(p) == Advance(r, eps, p)
           U == {n \in Nat : n <= Len(b) => Good(F[n])}
<1>4. 0 \in U
  <2>1. F[0] = start BY <1>0, <1>2
  <2>2. r.expected \in Int BY RxActorAssumption DEF RxOK, RxType
  <2> QED BY <2>1, <2>2 DEF Advance
<1>5. ASSUME NEW n \in Nat, n \in U PROVE n + 1 \in U
  <2> SUFFICES ASSUME n + 1 <= Len(b) PROVE Good(F[n + 1])
    OBVIOUS
  <2>1. Good(F[n]) BY <1>0, <1>5
  <2>2. n + 1 \in 0..Len(b) /\ n + 1 # 0 /\ (n + 1) - 1 = n /\ n + 1 \in 1..Len(b) BY <1>0
  <2>3. F[n + 1] = Item(F[n], n + 1)
    <3> HIDE DEF Item, start
    <3> QED BY <1>2, <2>2
  <2>4. b[n + 1] \in Records /\ b[n + 1].ep \in eps /\ rec[n + 1] \in Seqs \cup {Nothing}
    BY <1>0, <2>2
  <2>5. Good(ProcessItem(F[n], b[n + 1], rec[n + 1], dedup))
    <3> HIDE DEF eps
    <3> QED BY <2>1, <2>4, ProcessItemAdvances
  <2> HIDE DEF Good
  <2> QED BY <2>1, <2>3, <2>5
<1>6. Nat \subseteq U
  <2> HIDE DEF U
  <2> QED BY <1>4, <1>5, Induction
<1>7. Good(F[Len(b)])
  <2> HIDE DEF Good
  <2> QED BY <1>0, <1>6
<1> QED BY <1>3, <1>7

\* The direct path, with the frames rebuilt from the batch behind it.
LEMMA InsertedAdvances ==
    ASSUME NEW r, RxOK(r), NEW b \in Seq(Records), NEW e \in Nat, NEW k \in Nat,
           NEW rebuilt \in [1..k -> {Frame(e, s) : s \in Seqs}]
    PROVE  \E eps : Advance(r, eps, Inserted(r, b, rebuilt))
<1> DEFINE input == b \o rebuilt
           rec == [n \in 1..Len(input) |-> Nothing]
<1>1. rebuilt \in Seq(Records)
  <2>1. {Frame(e, s) : s \in Seqs} \subseteq Records BY DEF Frame, Records
  <2>2. rebuilt \in [1..k -> Records] BY <2>1
  <2> QED BY <2>2, SeqDef
<1>2. input \in Seq(Records) BY <1>1
<1> HIDE DEF input
<1>3. rec \in [1..Len(input) -> Seqs \cup {Nothing}] OBVIOUS
<1> HIDE DEF rec
<1>4. Advance(r, {input[i].ep : i \in 1..Len(input)}, Processed(r, input, rec, Len(input), FALSE))
  BY <1>2, <1>3, ProcessedAdvances
<1>5. Inserted(r, b, rebuilt) = Processed(r, input, rec, Len(input), FALSE)
  BY DEF Inserted, input, rec
<1> QED BY <1>4, <1>5

-----------------------------------------------------------------------------
(* Types *)

LEMMA NoConnType == NoConn \in ConnType /\ NoConn.ready = {} /\ NoConn.batch = <<>>
<1>1. <<>> \in Seq(Records) OBVIOUS
<1> QED BY <1>1 DEF NoConn, ConnType

LEMMA EmptyOK == RxOK(Empty)
<1>1. [i \in 0..DedupWindow - 1 |-> 0] \in [0..DedupWindow - 1 -> Nat] OBVIOUS
<1> QED BY <1>1, RxActorAssumption DEF Empty, RxOK, RxType

LEMMA InitTypes == Init => TypeOK
<1> SUFFICES ASSUME Init PROVE TypeOK
  OBVIOUS
<1>1. conn \in [Conns -> ConnType] BY NoConnType DEF Init
<1>2. RxOK(rx) BY EmptyOK DEF Init
<1> QED BY <1>1, <1>2 DEF Init, TypeOK

\* One connection changes.
ConnSet(c, x) == conn' = [conn EXCEPT ![c] = x]

LEMMA ConnSetType ==
    ASSUME conn \in [Conns -> ConnType], NEW c \in Conns, NEW x \in ConnType, ConnSet(c, x)
    PROVE  /\ conn' \in [Conns -> ConnType] /\ conn'[c] = x
           /\ \A d \in Conns \ {c} : conn'[d] = conn[d]
BY DEF ConnSet

\* What an action makes of the connection's record.
LEMMA ConnForms ==
    ASSUME TypeOK, NEW c \in Conns
    PROVE  /\ conn[c] \in ConnType
           /\ \A pc \in {"tuned", "up", "flush"} :
                [conn[c] EXCEPT !.pc = pc] \in ConnType
           /\ [conn[c] EXCEPT !.pc = "tuned", !.epoch = epoch] \in ConnType
           /\ \A v \in BOOLEAN : [conn[c] EXCEPT !.pc = "tuned", !.reconf = v] \in ConnType
           /\ [conn[c] EXCEPT !.reconf = FALSE] \in ConnType
           /\ [conn[c] EXCEPT !.pc = "up", !.gen = generation] \in ConnType
           /\ [conn[c] EXCEPT !.pc = "up", !.batch = <<>>] \in ConnType
           /\ [conn[c] EXCEPT !.pc = "flush", !.failed = TRUE] \in ConnType
           /\ [conn[c] EXCEPT !.pc = "up", !.ready = {}, !.rgen = 0] \in ConnType
<1>1. conn[c] \in ConnType /\ epoch \in Nat /\ generation \in Nat BY DEF TypeOK
<1>2. <<>> \in Seq(Records) OBVIOUS
<1> QED BY <1>1, <1>2 DEF ConnType

-----------------------------------------------------------------------------
(* Steps that release and deliver nothing *)

\* The position of the buffer, over all generations, never moves back.
Forward == generation < generation' \/ (generation' = generation /\ rx.expected <= rx'.expected)

QuietStep ==
    /\ Forward
    /\ UNCHANGED <<timer, delivered, twice>>
    /\ \A c \in Conns : \/ conn'[c].ready = {}
                        \/ conn'[c].ready = conn[c].ready /\ conn'[c].rgen = conn[c].rgen

\* A step of connection c that leaves the epoch alone.
LEMMA LocalStep ==
    ASSUME TypeOK, NEW c \in Conns, NEW x \in ConnType, ConnSet(c, x),
           x.ready = {} \/ (x.ready = conn[c].ready /\ x.rgen = conn[c].rgen),
           UNCHANGED <<setting, epoch, generation, timer, output>>,
           RxOK(rx'), rx.expected = rx'.expected, rx.fed = rx'.fed,
           FenceInv, side = "server" => Fenced(c)'
    PROVE  TypeOK' /\ QuietStep /\ FenceInv'
<1>1. conn \in [Conns -> ConnType] /\ generation \in Nat /\ rx.expected \in Int
  BY RxActorAssumption DEF TypeOK, RxOK, RxType
<1>2. /\ conn' \in [Conns -> ConnType] /\ conn'[c] = x
      /\ \A d \in Conns \ {c} : conn'[d] = conn[d]
  BY <1>1, ConnSetType
<1>3. UNCHANGED <<side, mode, epoch, generation, timer, delivered, twice>> BY DEF setting, output
<1>4. TypeOK' BY <1>2, <1>3 DEF TypeOK
<1>5. QuietStep
  <2>1. \A d \in Conns : \/ conn'[d].ready = {}
                         \/ conn'[d].ready = conn[d].ready /\ conn'[d].rgen = conn[d].rgen
    BY <1>2
  <2> QED BY <1>1, <1>3, <2>1 DEF QuietStep, Forward
<1>6. FenceInv'
  <2> SUFFICES ASSUME side = "server" PROVE
                 generation' = epoch' /\ (\A d \in Conns : Fenced(d)')
                 /\ (mode' = "actor" => rx'.fed \subseteq {epoch'})
    BY <1>3 DEF FenceInv
  <2>1. ASSUME NEW d \in Conns, d # c PROVE Fenced(d)'
    <3>1. conn'[d] = conn[d] BY <1>2, <2>1
    <3>2. Fenced(d) BY DEF FenceInv
    <3> QED BY <1>3, <3>1, <3>2 DEF Fenced
  <2> QED BY <1>3, <2>1 DEF FenceInv
<1> QED BY <1>4, <1>5, <1>6

LEMMA SnapshotStep ==
    ASSUME TypeOK, FenceInv, NEW c \in Conns, Snapshot(c)
    PROVE  TypeOK' /\ QuietStep /\ FenceInv'
<1> DEFINE x == [conn[c] EXCEPT !.pc = "tuned", !.epoch = epoch]
<1>1. conn[c] \in ConnType /\ x \in ConnType BY ConnForms
<1>2. /\ x.ready = conn[c].ready /\ x.rgen = conn[c].rgen
      /\ x.pc = "tuned" /\ x.epoch = epoch /\ x.batch = conn[c].batch
  BY <1>1 DEF ConnType
<1>3. ConnSet(c, x) BY DEF Snapshot, ConnSet
<1>4. /\ UNCHANGED <<setting, epoch, generation, timer, output>>
      /\ rx' = rx /\ conn[c].pc = "joined" /\ epoch \in Nat
      /\ conn'[c] = x
  BY <1>1, <1>3, ConnSetType DEF Snapshot, actorState, At, TypeOK
<1> HIDE DEF x
<1>5. side = "server" => Fenced(c)'
  <2> SUFFICES ASSUME side = "server" PROVE Fenced(c)'
    OBVIOUS
  <2>1. conn[c].batch = <<>> BY <1>4 DEF FenceInv, Fenced
  <2> QED BY <1>2, <1>4, <2>1 DEF Fenced
<1>6. RxOK(rx') /\ rx.expected = rx'.expected /\ rx.fed = rx'.fed BY <1>4 DEF TypeOK
<1> QED BY <1>1, <1>2, <1>3, <1>4, <1>5, <1>6, LocalStep

LEMMA NegotiateStep ==
    ASSUME TypeOK, FenceInv, NEW c \in Conns, Negotiate(c)
    PROVE  TypeOK' /\ QuietStep /\ FenceInv'
<1> DEFINE x == [conn[c] EXCEPT !.pc = "tuned", !.reconf = (known # conn[c].epoch)]
<1>1. conn[c] \in ConnType /\ x \in ConnType BY ConnForms
<1>2. x.ready = conn[c].ready /\ x.rgen = conn[c].rgen BY <1>1 DEF ConnType
<1>3. ConnSet(c, x) BY DEF Negotiate, ConnSet
<1>4. /\ UNCHANGED <<setting, epoch, generation, timer, output>>
      /\ rx' = rx /\ side # "server"
  BY DEF Negotiate, actorState
<1> HIDE DEF x
<1>6. RxOK(rx') /\ rx.expected = rx'.expected /\ rx.fed = rx'.fed BY <1>4 DEF TypeOK
<1> QED BY <1>1, <1>2, <1>3, <1>4, <1>6, LocalStep

LEMMA MakeProducerStep ==
    ASSUME TypeOK, FenceInv, NEW c \in Conns, MakeProducer(c)
    PROVE  TypeOK' /\ QuietStep /\ FenceInv'
<1> DEFINE x == [conn[c] EXCEPT !.pc = "up", !.gen = generation]
<1>1. conn[c] \in ConnType /\ x \in ConnType BY ConnForms
<1>2. /\ x.ready = conn[c].ready /\ x.rgen = conn[c].rgen
      /\ x.pc = "up" /\ x.epoch = conn[c].epoch /\ x.batch = conn[c].batch
      /\ x.gen = generation
  BY <1>1 DEF ConnType
<1>3. ConnSet(c, x) BY DEF MakeProducer, ConnSet
<1>4. /\ UNCHANGED <<setting, epoch, generation, timer, output>>
      /\ rx' = rx /\ conn[c].pc = "tuned" /\ generation \in Nat
      /\ conn'[c] = x
  BY <1>1, <1>3, ConnSetType DEF MakeProducer, actorState, At, TypeOK
<1> HIDE DEF x
<1>5. side = "server" => Fenced(c)'
  <2> SUFFICES ASSUME side = "server" PROVE Fenced(c)'
    OBVIOUS
  <2>1. conn[c].batch = <<>> /\ conn[c].epoch <= epoch BY <1>4 DEF FenceInv, Fenced
  <2> QED BY <1>2, <1>4, <2>1 DEF Fenced
<1>6. RxOK(rx') /\ rx.expected = rx'.expected /\ rx.fed = rx'.fed BY <1>4 DEF TypeOK
<1> QED BY <1>1, <1>2, <1>3, <1>4, <1>5, <1>6, LocalStep

LEMMA DrainedStep ==
    ASSUME TypeOK, FenceInv, NEW c \in Conns, Drained(c)
    PROVE  TypeOK' /\ QuietStep /\ FenceInv'
<1> DEFINE x == [conn[c] EXCEPT !.pc = "flush"]
<1>1. conn[c] \in ConnType /\ x \in ConnType BY ConnForms
<1>2. /\ x.ready = conn[c].ready /\ x.rgen = conn[c].rgen
      /\ x.pc = "flush" /\ x.epoch = conn[c].epoch /\ x.batch = conn[c].batch
      /\ x.gen = conn[c].gen
  BY <1>1 DEF ConnType
<1>3. ConnSet(c, x) BY DEF Drained, ConnSet
<1>4. /\ UNCHANGED <<setting, epoch, generation, timer, output>>
      /\ rx' = rx /\ conn[c].pc = "up" /\ conn'[c] = x
  BY <1>1, <1>3, ConnSetType DEF Drained, actorState, At, TypeOK
<1> HIDE DEF x
<1>5. side = "server" => Fenced(c)' BY <1>2, <1>4 DEF Fenced, FenceInv
<1>6. RxOK(rx') /\ rx.expected = rx'.expected /\ rx.fed = rx'.fed BY <1>4 DEF TypeOK
<1> QED BY <1>1, <1>2, <1>3, <1>4, <1>5, <1>6, LocalStep

\* A connection ends.
LEMMA CloseStep ==
    ASSUME TypeOK, FenceInv, NEW c \in Conns, Close(c),
           UNCHANGED <<setting, epoch, generation, rx, timer, output>>
    PROVE  TypeOK' /\ QuietStep /\ FenceInv'
<1>1. NoConn \in ConnType /\ NoConn.ready = {} /\ NoConn.batch = <<>> BY NoConnType
<1>2. NoConn.pc = "down" /\ NoConn.epoch = 0 /\ epoch \in Nat BY DEF NoConn, TypeOK
<1>3. ConnSet(c, NoConn) BY DEF Close, ConnSet
<1>4. conn'[c] = NoConn BY <1>1, <1>3, ConnSetType DEF TypeOK
<1>5. Fenced(c)' BY <1>1, <1>2, <1>4 DEF Fenced
<1>6. RxOK(rx') BY DEF TypeOK
<1> QED BY <1>1, <1>3, <1>5, <1>6, LocalStep

\* A frame is batched; on the server under the epoch of now only.
LEMMA AppendStep ==
    ASSUME TypeOK, FenceInv, NEW c \in Conns, NEW s \in Seqs \cup {Control},
           NEW pc \in {"up", "flush"},
           ConnSet(c, [conn[c] EXCEPT !.batch = Append(@, Frame(conn[c].epoch, s)), !.pc = pc]),
           conn[c].pc = "up", side = "server" => conn[c].epoch = epoch,
           UNCHANGED <<setting, epoch, generation, timer, output>>,
           RxOK(rx'), rx.expected = rx'.expected, rx.fed = rx'.fed
    PROVE  TypeOK' /\ QuietStep /\ FenceInv'
<1> DEFINE f == Frame(conn[c].epoch, s)
           b == Append(conn[c].batch, f)
           x == [conn[c] EXCEPT !.batch = b, !.pc = pc]
<1>1. /\ conn[c] \in ConnType /\ conn[c].batch \in Seq(Records) /\ conn[c].epoch \in Nat
      /\ conn \in [Conns -> ConnType]
  BY DEF TypeOK, ConnType
<1>2. f \in Records /\ f.ep = conn[c].epoch BY <1>1 DEF Frame, Records
<1>3. /\ b \in Seq(Records) /\ Len(b) = Len(conn[c].batch) + 1
      /\ b[Len(b)] = f /\ \A i \in 1..Len(conn[c].batch) : b[i] = conn[c].batch[i]
  <2> HIDE DEF f
  <2> QED BY <1>1, <1>2
<1>4. ConnSet(c, x) OBVIOUS
<1>5. pc \in {"up", "flush"} OBVIOUS
<1> HIDE DEF b
<1>6. /\ x \in ConnType /\ x.batch = b /\ x.pc = pc
      /\ x.ready = conn[c].ready /\ x.rgen = conn[c].rgen
      /\ x.epoch = conn[c].epoch /\ x.gen = conn[c].gen
  BY <1>1, <1>3, <1>5 DEF ConnType
<1> HIDE DEF x
<1>7. conn'[c] = x BY <1>1, <1>4, <1>6, ConnSetType
<1>8. side = "server" => Fenced(c)'
  <2> SUFFICES ASSUME side = "server" PROVE Fenced(c)'
    OBVIOUS
  <2>1. Fenced(c) /\ conn[c].epoch = epoch /\ conn[c].gen = generation
    BY DEF FenceInv, Fenced
  <2>2. \A i \in 1..Len(b) : b[i].ep = x.epoch
    <3> TAKE i \in 1..Len(b)
    <3>1. CASE i = Len(b) BY <1>2, <1>3, <1>6, <3>1
    <3>2. CASE i # Len(b)
      <4>1. i \in 1..Len(conn[c].batch) BY <1>1, <1>3, <3>2
      <4> QED BY <1>3, <1>6, <2>1, <4>1 DEF Fenced
    <3> QED BY <3>1, <3>2
  <2> QED BY <1>5, <1>6, <1>7, <2>1, <2>2 DEF Fenced
<1> QED BY <1>4, <1>6, <1>8, LocalStep

LEMMA PushStep ==
    ASSUME TypeOK, FenceInv, NEW c \in Conns, NEW s \in Seqs \cup {Control}, Push(c, s),
           conn[c].pc = "up", side = "server" => conn[c].epoch = epoch,
           UNCHANGED <<setting, epoch, generation, timer, output>>,
           RxOK(rx'), rx.expected = rx'.expected, rx.fed = rx'.fed
    PROVE  TypeOK' /\ QuietStep /\ FenceInv'
<1> DEFINE pc == IF \/ mode = "actor" /\ s = Control
                    \/ Len(conn[c].batch) + 1 >= BatchCap THEN "flush" ELSE "up"
<1>1. ConnSet(c, [conn[c] EXCEPT !.batch = Append(@, Frame(conn[c].epoch, s)), !.pc = pc])
  BY DEF Push, ConnSet
<1>2. pc \in {"up", "flush"} OBVIOUS
<1> HIDE DEF pc
<1> QED BY <1>1, <1>2, AppendStep

LEMMA FilterStep ==
    ASSUME TypeOK, FenceInv, NEW c \in Conns, NEW s \in Seqs \cup {Control}, Filter(c, s),
           conn[c].pc = "up", side = "server" => conn[c].epoch = epoch,
           UNCHANGED <<setting, epoch, generation, timer, output>>
    PROVE  TypeOK' /\ QuietStep /\ FenceInv'
<1>1. RxOK(rx') /\ rx.expected = rx'.expected /\ rx.fed = rx'.fed
  <2>1. CASE rx' = rx BY <2>1 DEF TypeOK
  <2>2. CASE s # Control /\ rx' = Mark(rx, s) BY <2>2, MarkKeeps DEF TypeOK
  <2> QED BY <2>1, <2>2 DEF Filter
<1>2. CASE UNCHANGED conn
  <2>1. ConnSet(c, conn[c]) /\ conn[c] \in ConnType BY <1>2 DEF ConnSet, TypeOK
  <2>2. side = "server" => Fenced(c)' BY <1>2 DEF FenceInv, Fenced
  <2> QED BY <1>1, <2>1, <2>2, LocalStep
<1>3. ASSUME NEW q \in Seqs \cup {Control}, Push(c, q)
      PROVE  TypeOK' /\ QuietStep /\ FenceInv'
  BY <1>1, <1>3, PushStep
<1>4. ASSUME NEW q \in Seqs,
             conn' = [conn EXCEPT ![c].batch = Append(@, Frame(conn[c].epoch, q))]
      PROVE  TypeOK' /\ QuietStep /\ FenceInv'
  <2>1. conn[c] \in ConnType BY DEF TypeOK
  <2>2. ConnSet(c, [conn[c] EXCEPT !.batch = Append(@, Frame(conn[c].epoch, q)), !.pc = "up"])
    <3> DEFINE b == Append(conn[c].batch, Frame(conn[c].epoch, q))
    <3>1. conn' = [conn EXCEPT ![c] = [conn[c] EXCEPT !.batch = b]] BY <1>4
    <3> HIDE DEF b
    <3>2. [conn[c] EXCEPT !.batch = b] = [conn[c] EXCEPT !.batch = b, !.pc = "up"]
      BY <2>1 DEF ConnType
    <3> QED BY <3>1, <3>2 DEF ConnSet, b
  <2> QED BY <1>1, <2>2, AppendStep
<1>5. \/ UNCHANGED conn
      \/ \E q \in Seqs \cup {Control} : Push(c, q)
      \/ \E q \in Seqs : conn' = [conn EXCEPT ![c].batch = Append(@, Frame(conn[c].epoch, q))]
  BY DEF Filter
<1> QED BY <1>2, <1>3, <1>4, <1>5

\* The server finds the epoch of a connection stale: it flushes, then closes.
LEMMA RejectStep ==
    ASSUME TypeOK, FenceInv, NEW c \in Conns, Reject(c), conn[c].pc = "up",
           UNCHANGED <<setting, epoch, generation, rx, timer, output>>
    PROVE  TypeOK' /\ QuietStep /\ FenceInv'
<1>1. CASE Close(c) BY <1>1, CloseStep
<1>2. CASE ~Close(c)
  <2> DEFINE x == [conn[c] EXCEPT !.pc = "flush", !.failed = TRUE]
  <2>1. conn[c] \in ConnType /\ x \in ConnType BY ConnForms
  <2>2. /\ x.ready = conn[c].ready /\ x.rgen = conn[c].rgen
        /\ x.pc = "flush" /\ x.epoch = conn[c].epoch /\ x.batch = conn[c].batch
        /\ x.gen = conn[c].gen
    BY <2>1 DEF ConnType
  <2>3. ConnSet(c, x) BY <1>2 DEF Reject, ConnSet
  <2>4. conn'[c] = x BY <2>1, <2>3, ConnSetType DEF TypeOK
  <2> HIDE DEF x
  <2>5. side = "server" => Fenced(c)' BY <2>2, <2>4 DEF Fenced, FenceInv
  <2>6. RxOK(rx') /\ rx.expected = rx'.expected /\ rx.fed = rx'.fed BY DEF TypeOK
  <2> QED BY <2>1, <2>2, <2>3, <2>5, <2>6, LocalStep
<1> QED BY <1>1, <1>2

LEMMA ServerReceiveStep ==
    ASSUME TypeOK, FenceInv, NEW c \in Conns, NEW s \in Seqs \cup {Control}, ServerReceive(c, s)
    PROVE  TypeOK' /\ QuietStep /\ FenceInv'
<1>1. conn[c].pc = "up" /\ UNCHANGED <<setting, epoch, generation, timer, output>>
  BY DEF ServerReceive, At
<1>2. CASE conn[c].epoch # epoch
  <2>1. Reject(c) /\ UNCHANGED rx BY <1>2 DEF ServerReceive
  <2> QED BY <1>1, <2>1, RejectStep
<1>3. CASE conn[c].epoch = epoch
  <2>1. Filter(c, s) BY <1>3 DEF ServerReceive
  <2> QED BY <1>1, <1>3, <2>1, FilterStep
<1> QED BY <1>2, <1>3

LEMMA ClientReceiveStep ==
    ASSUME TypeOK, FenceInv, NEW c \in Conns, NEW s \in Seqs \cup {Control}, ClientReceive(c, s)
    PROVE  TypeOK' /\ QuietStep /\ FenceInv'
<1>1. /\ conn[c].pc = "up" /\ UNCHANGED <<setting, epoch, generation, timer, output>>
      /\ side # "server" /\ Filter(c, s)
  BY DEF ClientReceive, At
<1> QED BY <1>1, FilterStep

\* A rotation: the epoch and the generation advance, the buffer starts anew, and
\* no producer of before is of the new generation.
LEMMA JoinStep ==
    ASSUME TypeOK, FenceInv, NEW c \in Conns, NEW rotate \in BOOLEAN, Join(c, rotate)
    PROVE  TypeOK' /\ QuietStep /\ FenceInv'
<1> DEFINE e == IF side = "client" THEN epoch' ELSE 0
           x == [NoConn EXCEPT !.pc = "joined", !.epoch = e]
<1>1. /\ epoch \in Nat /\ generation \in Nat /\ conn \in [Conns -> ConnType] /\ RxOK(rx)
      /\ rx.expected \in Int
  BY RxActorAssumption DEF TypeOK, RxOK, RxType
<1>2. /\ UNCHANGED <<side, mode, timer, delivered, twice>>
      /\ epoch' = IF rotate THEN epoch + 1 ELSE epoch
      /\ ConnSet(c, x)
  BY DEF Join, setting, output, ConnSet
<1>3. /\ epoch' \in Nat /\ e \in Nat BY <1>1, <1>2
<1> HIDE DEF e
<1>4. /\ x \in ConnType /\ x.ready = {} /\ x.batch = <<>> /\ x.pc = "joined" /\ x.epoch = e
  BY <1>3, NoConnType DEF ConnType
<1> HIDE DEF x
<1>5. /\ conn' \in [Conns -> ConnType] /\ conn'[c] = x
      /\ \A d \in Conns \ {c} : conn'[d] = conn[d]
  BY <1>1, <1>2, <1>4, ConnSetType
<1>6. \/ side = "server" /\ rotate /\ rx' = Empty /\ generation' = generation + 1
      \/ ~(side = "server" /\ rotate) /\ rx' = rx /\ generation' = generation
  BY DEF Join
<1>7. TypeOK'
  <2>1. RxOK(rx') /\ generation' \in Nat BY <1>1, <1>6, EmptyOK
  <2> QED BY <1>2, <1>3, <1>5, <2>1 DEF TypeOK
<1>8. QuietStep
  <2>1. \A d \in Conns : \/ conn'[d].ready = {}
                         \/ conn'[d].ready = conn[d].ready /\ conn'[d].rgen = conn[d].rgen
    BY <1>4, <1>5
  <2>2. Forward BY <1>1, <1>6 DEF Forward
  <2> QED BY <1>2, <2>1, <2>2 DEF QuietStep
<1>9. FenceInv'
  <2> SUFFICES ASSUME side = "server" PROVE
                 generation' = epoch' /\ (\A d \in Conns : Fenced(d)')
                 /\ (mode' = "actor" => rx'.fed \subseteq {epoch'})
    BY <1>2 DEF FenceInv
  <2>1. generation' = epoch' BY <1>1, <1>2, <1>6 DEF FenceInv
  <2>2. mode' = "actor" => rx'.fed \subseteq {epoch'}
    BY <1>2, <1>6 DEF FenceInv, Empty
  <2>3. Fenced(c)' BY <1>3, <1>4, <1>5 DEF Fenced, e
  <2>4. ASSUME NEW d \in Conns, d # c PROVE Fenced(d)'
    <3>1. conn'[d] = conn[d] /\ Fenced(d) BY <1>5, <2>4 DEF FenceInv
    <3>2. conn[d].epoch \in Nat /\ conn[d].gen \in Nat BY <1>1 DEF ConnType
    <3>3. CASE rotate
      <4>1. /\ epoch' = epoch + 1 /\ generation' = generation + 1 BY <1>2, <1>6, <3>3
      <4>2. conn[d].pc \in {"up", "flush", "deliver"} => conn[d].gen < generation'
        BY <1>1, <3>1, <3>2, <4>1 DEF Fenced
      <4>3. conn[d].batch # <<>> => conn[d].gen # generation'
        BY <1>1, <3>1, <3>2, <4>1 DEF Fenced
      <4>4. conn[d].epoch < epoch' BY <1>1, <3>1, <3>2, <4>1 DEF Fenced
      <4> QED BY <1>1, <3>1, <3>2, <4>1, <4>2, <4>3, <4>4 DEF Fenced
    <3>4. CASE ~rotate
      <4>1. epoch' = epoch /\ generation' = generation BY <1>2, <1>6, <3>4
      <4> QED BY <3>1, <4>1 DEF Fenced
    <3> QED BY <3>3, <3>4
  <2> QED BY <2>1, <2>2, <2>3, <2>4
<1> QED BY <1>7, <1>8, <1>9

LEMMA ReconfigureStep ==
    ASSUME TypeOK, FenceInv, NEW c \in Conns, Reconfigure(c)
    PROVE  TypeOK' /\ QuietStep /\ FenceInv'
<1> DEFINE x == [conn[c] EXCEPT !.reconf = FALSE]
<1>1. conn[c] \in ConnType /\ x \in ConnType BY ConnForms
<1>2. x.ready = conn[c].ready /\ x.rgen = conn[c].rgen BY <1>1 DEF ConnType
<1>3. ConnSet(c, x) BY DEF Reconfigure, ConnSet
<1> HIDE DEF x
<1>4. /\ conn' \in [Conns -> ConnType] /\ conn'[c] = x
      /\ \A d \in Conns \ {c} : conn'[d] = conn[d]
  BY <1>1, <1>3, ConnSetType DEF TypeOK
<1>5. /\ UNCHANGED <<side, epoch, timer, delivered, twice>> /\ side # "server"
      /\ rx' = Empty /\ generation' = generation + 1 /\ generation \in Nat
  BY DEF Reconfigure, setting, output, TypeOK
<1>6. TypeOK' BY <1>4, <1>5, EmptyOK DEF TypeOK
<1>7. QuietStep
  <2>1. \A d \in Conns : \/ conn'[d].ready = {}
                         \/ conn'[d].ready = conn[d].ready /\ conn'[d].rgen = conn[d].rgen
    BY <1>2, <1>4
  <2> QED BY <1>5, <2>1 DEF QuietStep, Forward
<1> QED BY <1>5, <1>6, <1>7 DEF FenceInv

-----------------------------------------------------------------------------
(* What is released, and by whom it is carried *)

Tags == [gen : Nat, seq : Seqs]

LEMMA TagType ==
    ASSUME NEW frames \in SUBSET Frames, NEW g \in Nat
    PROVE  Tag(frames, g) \in SUBSET Tags
BY DEF Tag, Tags, Frames

LEMMA CarriedType ==
    ASSUME TypeOK
    PROVE  /\ delivered \in SUBSET Tags /\ TimerCarried \in SUBSET Tags
           /\ \A c \in Conns : Carried(c) \in SUBSET Tags
<1>1. timer.ready \in SUBSET Frames /\ timer.gen \in Nat BY DEF TypeOK
<1>2. \A c \in Conns : conn[c].ready \in SUBSET Frames /\ conn[c].rgen \in Nat
  BY DEF TypeOK, ConnType
<1>3. delivered \in SUBSET Tags BY DEF TypeOK, Tags
<1> QED BY <1>1, <1>2, <1>3, TagType DEF TimerCarried, Carried

\* What is past stays past.
LEMMA PastStays ==
    ASSUME TypeOK, TypeOK', Forward, NEW t \in Tags, Past(t)
    PROVE  Past(t)'
<1>1. t.gen \in Nat /\ t.seq \in Int BY RxActorAssumption DEF Tags, Seqs
<1>2. /\ generation \in Nat /\ generation' \in Nat
      /\ rx.expected \in Int /\ rx'.expected \in Int
  BY RxActorAssumption DEF TypeOK, RxOK, RxType
<1> QED BY <1>1, <1>2 DEF Past, Forward

\* What a pass over the buffer releases was not past before, and is now.
LEMMA Fresh ==
    ASSUME TypeOK, generation' = generation, NEW eps, NEW p, Advance(rx, eps, p), rx' = p.rx,
           NEW t \in Tag(p.ready, generation)
    PROVE  t \in Tags /\ ~Past(t) /\ Past(t)'
<1>1. p.ready \in SUBSET Frames /\ generation \in Nat BY DEF Advance, TypeOK
<1>2. t \in Tags BY <1>1, TagType
<1>3. PICK f \in p.ready : t = [gen |-> generation, seq |-> f.seq] BY DEF Tag
<1>4. f.seq \in Int /\ rx.expected \in Int /\ p.rx.expected \in Int
  BY <1>1, RxActorAssumption DEF Frames, Seqs, TypeOK, RxOK, RxType, Advance
<1>5. t.gen = generation /\ t.seq = f.seq /\ rx.expected <= f.seq /\ f.seq < p.rx.expected
  BY <1>3 DEF Advance
<1> QED BY <1>1, <1>2, <1>4, <1>5 DEF Past

LEMMA QuietOnce ==
    ASSUME OnceInv, TypeOK', QuietStep
    PROVE  OnceInv'
<1>1. /\ Forward /\ delivered' = delivered /\ twice' = twice /\ TimerCarried' = TimerCarried
  BY DEF QuietStep, TimerCarried
<1>2. \A c \in Conns : Carried(c)' \subseteq Carried(c)
  BY DEF QuietStep, Carried, Tag
<1>3. \A t \in Tags : Past(t) => Past(t)' BY <1>1, PastStays DEF OnceInv
<1>4. /\ delivered \in SUBSET Tags /\ TimerCarried \in SUBSET Tags
      /\ \A c \in Conns : Carried(c) \in SUBSET Tags
  BY CarriedType DEF OnceInv
<1>5. ReleasedOnce'
  <2>1. \A t \in delivered : Past(t)' BY <1>3, <1>4 DEF OnceInv, ReleasedOnce
  <2>2. \A t \in TimerCarried : Past(t)' /\ t \notin delivered
    BY <1>3, <1>4 DEF OnceInv, ReleasedOnce
  <2>3. ASSUME NEW c \in Conns, NEW t \in Carried(c)'
        PROVE  /\ Past(t)' /\ t \notin delivered /\ t \notin TimerCarried
               /\ \A d \in Conns \ {c} : t \notin Carried(d)'
    BY <1>2, <1>3, <1>4, <2>3 DEF OnceInv, ReleasedOnce
  <2> QED BY <1>1, <2>1, <2>2, <2>3 DEF ReleasedOnce
<1> QED BY <1>1, <1>5 DEF OnceInv, DeliveredOnce

\* A reader takes a batch through the buffer and carries what is ready.
LEMMA ReleaseOnce ==
    ASSUME OnceInv, TypeOK', NEW c \in Conns, NEW eps, NEW p, Advance(rx, eps, p),
           rx' = p.rx, UNCHANGED <<generation, timer, delivered, twice>>,
           conn'[c].ready = p.ready, conn'[c].rgen = generation,
           \A d \in Conns \ {c} : conn'[d] = conn[d]
    PROVE  OnceInv'
<1>0. Forward BY DEF Forward, Advance, OnceInv, TypeOK
<1>1. /\ TimerCarried' = TimerCarried /\ Carried(c)' = Tag(p.ready, generation)
      /\ \A d \in Conns \ {c} : Carried(d)' = Carried(d)
  BY DEF TimerCarried, Carried
<1>2. \A t \in Carried(c)' : t \in Tags /\ ~Past(t) /\ Past(t)' BY <1>1, Fresh DEF OnceInv
<1>3. \A t \in Tags : Past(t) => Past(t)' BY <1>0, PastStays DEF OnceInv
<1>4. /\ delivered \in SUBSET Tags /\ TimerCarried \in SUBSET Tags
      /\ \A d \in Conns : Carried(d) \in SUBSET Tags
  BY CarriedType DEF OnceInv
<1>5. ReleasedOnce'
  <2>1. \A t \in delivered : Past(t)' BY <1>3, <1>4 DEF OnceInv, ReleasedOnce
  <2>2. \A t \in TimerCarried : Past(t)' /\ t \notin delivered
    BY <1>3, <1>4 DEF OnceInv, ReleasedOnce
  <2>3. ASSUME NEW t \in Carried(c)'
        PROVE  /\ Past(t)' /\ t \notin delivered /\ t \notin TimerCarried
               /\ \A d \in Conns \ {c} : t \notin Carried(d)'
    BY <1>1, <1>2, <2>3 DEF OnceInv, ReleasedOnce
  <2>4. ASSUME NEW b \in Conns, b # c, NEW t \in Carried(b)'
        PROVE  /\ Past(t)' /\ t \notin delivered /\ t \notin TimerCarried
               /\ \A d \in Conns \ {b} : t \notin Carried(d)'
    <3>1. t \in Carried(b) /\ Past(t) /\ t \in Tags
      BY <1>1, <1>4, <2>4 DEF OnceInv, ReleasedOnce
    <3>2. t \notin Carried(c)' BY <1>2, <3>1
    <3> QED BY <1>1, <1>3, <2>4, <3>1, <3>2 DEF OnceInv, ReleasedOnce
  <2> QED BY <1>1, <2>1, <2>2, <2>3, <2>4 DEF ReleasedOnce
<1> QED BY <1>5 DEF OnceInv, DeliveredOnce

\* The direct client path: what is ready is queued for the TAP at once.
LEMMA ReleaseDelivered ==
    ASSUME OnceInv, TypeOK', NEW eps, NEW p, Advance(rx, eps, p),
           rx' = p.rx, UNCHANGED <<generation, timer>>, Deliver(p.ready, generation),
           \A d \in Conns : conn'[d].ready = conn[d].ready /\ conn'[d].rgen = conn[d].rgen
    PROVE  OnceInv'
<1> DEFINE now == Tag(p.ready, generation)
<1>0. Forward BY DEF Forward, Advance, OnceInv, TypeOK
<1>1. /\ TimerCarried' = TimerCarried /\ \A d \in Conns : Carried(d)' = Carried(d)
      /\ delivered' = delivered \cup now /\ twice' = (twice \/ now \cap delivered # {})
  BY DEF TimerCarried, Carried, Deliver, Tag
<1>2. \A t \in now : t \in Tags /\ ~Past(t) /\ Past(t)' BY Fresh DEF OnceInv
<1>3. \A t \in Tags : Past(t) => Past(t)' BY <1>0, PastStays DEF OnceInv
<1>4. /\ delivered \in SUBSET Tags /\ TimerCarried \in SUBSET Tags
      /\ \A d \in Conns : Carried(d) \in SUBSET Tags
  BY CarriedType DEF OnceInv
<1> HIDE DEF now
<1>5. now \cap delivered = {} /\ ~twice BY <1>2 DEF OnceInv, ReleasedOnce, DeliveredOnce
<1>6. ~twice' BY <1>1, <1>5
<1>7. ReleasedOnce'
  <2>1. \A t \in delivered' : Past(t)' BY <1>1, <1>2, <1>3, <1>4 DEF OnceInv, ReleasedOnce
  <2>2. \A t \in TimerCarried' : Past(t)' /\ t \notin delivered'
    BY <1>1, <1>2, <1>3, <1>4 DEF OnceInv, ReleasedOnce
  <2>3. ASSUME NEW c \in Conns, NEW t \in Carried(c)'
        PROVE  /\ Past(t)' /\ t \notin delivered' /\ t \notin TimerCarried'
               /\ \A d \in Conns \ {c} : t \notin Carried(d)'
    BY <1>1, <1>2, <1>3, <1>4, <2>3 DEF OnceInv, ReleasedOnce
  <2> QED BY <2>1, <2>2, <2>3 DEF ReleasedOnce
<1> QED BY <1>6, <1>7 DEF OnceInv, DeliveredOnce

\* The timer takes the first run, and carries it.
LEMMA TimerReleaseOnce ==
    ASSUME OnceInv, TypeOK', NEW eps, NEW p, Advance(rx, eps, p), TimerCarried = {},
           rx' = p.rx, UNCHANGED <<generation, conn, delivered, twice>>,
           timer' = [ready |-> p.ready, gen |-> generation]
    PROVE  OnceInv'
<1>0. Forward BY DEF Forward, Advance, OnceInv, TypeOK
<1>1. /\ TimerCarried' = Tag(p.ready, generation) /\ \A d \in Conns : Carried(d)' = Carried(d)
  BY DEF TimerCarried, Carried
<1>2. \A t \in TimerCarried' : t \in Tags /\ ~Past(t) /\ Past(t)' BY <1>1, Fresh DEF OnceInv
<1>3. \A t \in Tags : Past(t) => Past(t)' BY <1>0, PastStays DEF OnceInv
<1>4. /\ delivered \in SUBSET Tags
      /\ \A d \in Conns : Carried(d) \in SUBSET Tags
  BY CarriedType DEF OnceInv
<1>5. ReleasedOnce'
  <2>1. \A t \in delivered : Past(t)' BY <1>3, <1>4 DEF OnceInv, ReleasedOnce
  <2>2. \A t \in TimerCarried' : Past(t)' /\ t \notin delivered
    BY <1>2 DEF OnceInv, ReleasedOnce
  <2>3. ASSUME NEW c \in Conns, NEW t \in Carried(c)'
        PROVE  /\ Past(t)' /\ t \notin delivered /\ t \notin TimerCarried'
               /\ \A d \in Conns \ {c} : t \notin Carried(d)'
    BY <1>1, <1>2, <1>3, <1>4, <2>3 DEF OnceInv, ReleasedOnce
  <2> QED BY <2>1, <2>2, <2>3 DEF ReleasedOnce
<1> QED BY <1>5 DEF OnceInv, DeliveredOnce

\* A reader hands over what it carries.
LEMMA HandOverOnce ==
    ASSUME OnceInv, TypeOK', NEW c \in Conns, Deliver(conn[c].ready, conn[c].rgen),
           UNCHANGED <<generation, rx, timer>>, conn'[c].ready = {},
           \A d \in Conns \ {c} : conn'[d] = conn[d]
    PROVE  OnceInv'
<1>1. /\ TimerCarried' = TimerCarried /\ Carried(c)' = {}
      /\ \A d \in Conns \ {c} : Carried(d)' = Carried(d)
      /\ delivered' = delivered \cup Carried(c)
      /\ twice' = (twice \/ Carried(c) \cap delivered # {})
  BY DEF TimerCarried, Carried, Deliver, Tag
<1>2. \A t : Past(t)' <=> Past(t) BY DEF Past
<1>3. Carried(c) \cap delivered = {} /\ ~twice BY DEF OnceInv, ReleasedOnce, DeliveredOnce
<1>4. ~twice' BY <1>1, <1>3
<1>5. ReleasedOnce'
  <2>1. \A t \in delivered' : Past(t)' BY <1>1, <1>2 DEF OnceInv, ReleasedOnce
  <2>2. \A t \in TimerCarried' : Past(t)' /\ t \notin delivered'
    BY <1>1, <1>2 DEF OnceInv, ReleasedOnce
  <2>3. ASSUME NEW b \in Conns, NEW t \in Carried(b)'
        PROVE  /\ Past(t)' /\ t \notin delivered' /\ t \notin TimerCarried'
               /\ \A d \in Conns \ {b} : t \notin Carried(d)'
    <3>1. b # c /\ t \in Carried(b) BY <1>1, <2>3
    <3> QED BY <1>1, <1>2, <3>1 DEF OnceInv, ReleasedOnce
  <2> QED BY <2>1, <2>2, <2>3 DEF ReleasedOnce
<1> QED BY <1>4, <1>5 DEF OnceInv, DeliveredOnce

-----------------------------------------------------------------------------
(* The steps that release and deliver *)

\* A connection takes its batch through the buffer, in either mode.
LEMMA FlushStep ==
    ASSUME OnceInv, FenceInv, NEW c \in Conns, NEW eps, NEW p, Advance(rx, eps, p),
           NEW failed \in BOOLEAN, conn[c].pc = "flush",
           UNCHANGED <<setting, epoch, generation, timer, output>>,
           rx' = p.rx,
           ConnSet(c, [conn[c] EXCEPT !.pc = "deliver", !.batch = <<>>, !.ready = p.ready,
                                      !.rgen = generation, !.failed = failed]),
           mode = "actor" => /\ conn[c].gen = generation
                             /\ eps = {conn[c].batch[i].ep : i \in 1..Len(conn[c].batch)}
    PROVE  OnceInv' /\ FenceInv'
<1> DEFINE b == conn[c].batch
           ready == p.ready
           x == [conn[c] EXCEPT !.pc = "deliver", !.batch = <<>>, !.ready = ready,
                                !.rgen = generation, !.failed = failed]
<1>1. /\ conn[c] \in ConnType /\ b \in Seq(Records) /\ RxOK(rx) /\ generation \in Nat
      /\ conn \in [Conns -> ConnType]
  BY DEF OnceInv, TypeOK, ConnType
<1>2. Advance(rx, eps, p) OBVIOUS
<1>3. RxOK(rx') /\ ready \in SUBSET Frames BY <1>2 DEF Advance
<1>4. ConnSet(c, x) OBVIOUS
<1>5. UNCHANGED <<side, mode, epoch, generation, timer, delivered, twice>> BY DEF setting, output
<1> HIDE DEF ready
<1>6. /\ x \in ConnType /\ x.pc = "deliver" /\ x.batch = <<>> /\ x.ready = ready
      /\ x.rgen = generation /\ x.epoch = conn[c].epoch /\ x.gen = conn[c].gen
  <2>1. <<>> \in Seq(Records) OBVIOUS
  <2> QED BY <1>1, <1>3, <2>1 DEF ConnType
<1> HIDE DEF x
<1>7. /\ conn' \in [Conns -> ConnType] /\ conn'[c] = x
      /\ \A d \in Conns \ {c} : conn'[d] = conn[d]
  BY <1>1, <1>4, <1>6, ConnSetType
<1>8. TypeOK' BY <1>3, <1>5, <1>7 DEF OnceInv, TypeOK
<1>9. OnceInv' BY <1>2, <1>5, <1>6, <1>7, <1>8, ReleaseOnce DEF ready
<1>10. FenceInv'
  <2> SUFFICES ASSUME side = "server" PROVE
                 generation' = epoch' /\ (\A d \in Conns : Fenced(d)')
                 /\ (mode' = "actor" => rx'.fed \subseteq {epoch'})
    BY <1>5 DEF FenceInv
  <2>1. Fenced(c) BY DEF FenceInv
  <2>2. Fenced(c)' BY <1>5, <1>6, <1>7, <2>1 DEF Fenced
  <2>3. ASSUME NEW d \in Conns, d # c PROVE Fenced(d)'
    <3>1. conn'[d] = conn[d] /\ Fenced(d) BY <1>7, <2>3 DEF FenceInv
    <3> QED BY <1>5, <3>1 DEF Fenced
  <2>4. ASSUME mode = "actor" PROVE rx'.fed \subseteq {epoch}
    <3>1. rx.fed \subseteq {epoch} /\ conn[c].gen = generation BY <2>4 DEF FenceInv
    <3>2. rx'.fed \subseteq rx.fed \cup eps BY <1>2 DEF Advance
    <3>3. ASSUME NEW i \in 1..Len(b) PROVE b[i].ep = epoch
      <4>1. b # <<>> BY <1>1, <3>3
      <4>2. conn[c].epoch = epoch BY <2>1, <3>1, <4>1 DEF Fenced
      <4> QED BY <2>1, <4>2 DEF Fenced
    <3>4. eps \subseteq {epoch} BY <2>4, <3>3
    <3> QED BY <3>1, <3>2, <3>4
  <2> QED BY <1>5, <2>2, <2>3, <2>4 DEF FenceInv
<1> QED BY <1>9, <1>10

LEMMA ProcessBatchStep ==
    ASSUME OnceInv, FenceInv, NEW c \in Conns, NEW upto \in 0..BatchCap, ProcessBatch(c, upto)
    PROVE  OnceInv' /\ FenceInv'
<1>1. conn[c].pc = "flush" /\ UNCHANGED <<setting, epoch, generation, timer, output>>
  BY DEF ProcessBatch, At
<1>2. CASE conn[c].gen # generation /\ conn[c].failed
  <2>1. Close(c) /\ UNCHANGED rx BY <1>2 DEF ProcessBatch
  <2>2. TypeOK' /\ QuietStep /\ FenceInv' BY <1>1, <2>1, CloseStep DEF OnceInv
  <2> QED BY <2>2, QuietOnce
<1>3. CASE conn[c].gen # generation /\ ~conn[c].failed
  <2> DEFINE x == [conn[c] EXCEPT !.pc = "up", !.batch = <<>>]
  <2>1. rx' = rx /\ ConnSet(c, x) BY <1>3 DEF ProcessBatch, ConnSet
  <2>2. conn[c] \in ConnType /\ x \in ConnType BY ConnForms DEF OnceInv
  <2>3. /\ x.ready = conn[c].ready /\ x.rgen = conn[c].rgen /\ x.batch = <<>>
        /\ x.pc = "up" /\ x.epoch = conn[c].epoch /\ x.gen = conn[c].gen
    BY <2>2 DEF ConnType
  <2> HIDE DEF x
  <2>4. conn'[c] = x BY <2>1, <2>2, ConnSetType DEF OnceInv, TypeOK
  <2>5. side = "server" => Fenced(c)' BY <1>1, <2>3, <2>4 DEF FenceInv, Fenced
  <2>6. TypeOK /\ RxOK(rx') /\ rx.expected = rx'.expected /\ rx.fed = rx'.fed
    BY <2>1 DEF OnceInv, TypeOK
  <2>7. TypeOK' /\ QuietStep /\ FenceInv'
    BY <1>1, <2>1, <2>2, <2>3, <2>5, <2>6, LocalStep
  <2> QED BY <2>7, QuietOnce
<1>4. CASE conn[c].gen = generation
  <2> DEFINE b == conn[c].batch
             bad == conn[c].failed \/ upto < Len(b)
             P(rec) == Processed(rx, b, rec, upto, TRUE)
  <2>0. PICK rec \in [1..Len(b) -> Seqs \cup {Nothing}] :
          /\ rx' = P(rec).rx
          /\ conn' = [conn EXCEPT ![c].pc = "deliver", ![c].batch = <<>>,
                        ![c].ready = P(rec).ready, ![c].rgen = generation,
                        ![c].failed = bad]
    BY <1>4, Zenon DEF ProcessBatch
  <2>1. /\ rx' = P(rec).rx
        /\ ConnSet(c, [conn[c] EXCEPT !.pc = "deliver", !.batch = <<>>, !.ready = P(rec).ready,
                                     !.rgen = generation, !.failed = bad])
    <3> HIDE DEF P, bad
    <3> QED BY <2>0 DEF ConnSet
  <2>2. b \in Seq(Records) /\ RxOK(rx) /\ conn[c].failed \in BOOLEAN
    BY DEF OnceInv, TypeOK, ConnType
  <2>3. Advance(rx, {b[i].ep : i \in 1..Len(b)}, P(rec)) BY <2>2, ProcessedAdvances
  <2>4. bad \in BOOLEAN OBVIOUS
  <2> DEFINE p == P(rec)
  <2>5. /\ Advance(rx, {b[i].ep : i \in 1..Len(b)}, p) /\ rx' = p.rx
        /\ ConnSet(c, [conn[c] EXCEPT !.pc = "deliver", !.batch = <<>>, !.ready = p.ready,
                                     !.rgen = generation, !.failed = bad])
    BY <2>1, <2>3
  <2> HIDE DEF bad, P, p
  <2> QED BY <1>1, <1>4, <2>4, <2>5, FlushStep
<1> QED BY <1>2, <1>3, <1>4

\* What the direct paths insert.
LEMMA DirectAdvances ==
    ASSUME TypeOK, NEW c \in Conns, NEW rebuilt \in Rebuilt(c)
    PROVE  \E eps : Advance(rx, eps, Inserted(rx, conn[c].batch, rebuilt))
<1>1. /\ conn[c].batch \in Seq(Records) /\ conn[c].epoch \in Nat /\ RxOK(rx)
      /\ Len(conn[c].batch) \in Nat
  BY DEF TypeOK, ConnType
<1>2. PICK k \in 0..Len(conn[c].batch) :
        rebuilt \in [1..k -> {Frame(conn[c].epoch, s) : s \in Seqs}]
  BY DEF Rebuilt
<1>3. k \in Nat BY <1>1
<1> QED BY <1>1, <1>2, <1>3, InsertedAdvances

LEMMA ServerFlushStep ==
    ASSUME OnceInv, FenceInv, NEW c \in Conns, ServerFlush(c)
    PROVE  OnceInv' /\ FenceInv'
<1>1. PICK rebuilt \in Rebuilt(c) :
        /\ rx' = Inserted(rx, conn[c].batch, rebuilt).rx
        /\ ConnSet(c, [conn[c] EXCEPT !.pc = "deliver", !.batch = <<>>,
                         !.ready = Inserted(rx, conn[c].batch, rebuilt).ready,
                         !.rgen = generation])
  BY DEF ServerFlush, ConnSet
<1>2. /\ conn[c].pc = "flush" /\ UNCHANGED <<setting, epoch, generation, timer, output>>
      /\ mode # "actor"
  BY DEF ServerFlush, At
<1> DEFINE p == Inserted(rx, conn[c].batch, rebuilt)
           f == conn[c].failed
<1>3. PICK eps : Advance(rx, eps, p) BY DirectAdvances DEF OnceInv
<1>4. conn[c] \in ConnType /\ f \in BOOLEAN BY DEF OnceInv, TypeOK, ConnType
<1>5. rx' = p.rx /\ ConnSet(c, [conn[c] EXCEPT !.pc = "deliver", !.batch = <<>>, !.ready = p.ready,
                                               !.rgen = generation])
  BY <1>1
<1> HIDE DEF p
<1>6. [conn[c] EXCEPT !.pc = "deliver", !.batch = <<>>, !.ready = p.ready, !.rgen = generation]
        = [conn[c] EXCEPT !.pc = "deliver", !.batch = <<>>, !.ready = p.ready,
                          !.rgen = generation, !.failed = f]
  BY <1>4 DEF ConnType
<1> HIDE DEF f
<1> QED BY <1>2, <1>3, <1>4, <1>5, <1>6, FlushStep

LEMMA ClientFlushStep ==
    ASSUME OnceInv, FenceInv, NEW c \in Conns, ClientFlush(c)
    PROVE  OnceInv' /\ FenceInv'
<1> DEFINE x == [conn[c] EXCEPT !.pc = "up", !.batch = <<>>]
<1>0. PICK rebuilt \in Rebuilt(c) :
        /\ rx' = Inserted(rx, conn[c].batch, rebuilt).rx
        /\ Deliver(Inserted(rx, conn[c].batch, rebuilt).ready, generation)
  BY DEF ClientFlush
<1> DEFINE p == Inserted(rx, conn[c].batch, rebuilt)
<1>1. /\ UNCHANGED <<side, epoch, generation, timer>> /\ side # "server"
      /\ rx' = p.rx /\ Deliver(p.ready, generation) /\ ConnSet(c, x)
  BY <1>0 DEF ClientFlush, setting, ConnSet
<1>2. /\ conn[c] \in ConnType /\ RxOK(rx)
      /\ conn \in [Conns -> ConnType] /\ generation \in Nat /\ x \in ConnType
      /\ delivered \in SUBSET Tags
  <2>1. conn[c] \in ConnType /\ x \in ConnType BY ConnForms DEF OnceInv
  <2>2. /\ RxOK(rx) /\ conn \in [Conns -> ConnType] /\ generation \in Nat
        /\ delivered \in SUBSET Tags
    BY DEF OnceInv, TypeOK, Tags
  <2> QED BY <2>1, <2>2
<1>3. PICK eps : Advance(rx, eps, p) BY DirectAdvances DEF OnceInv
<1>4. x.ready = conn[c].ready /\ x.rgen = conn[c].rgen BY <1>2 DEF ConnType
<1> HIDE DEF p, x
<1>5. /\ conn' \in [Conns -> ConnType] /\ conn'[c] = x
      /\ \A d \in Conns \ {c} : conn'[d] = conn[d]
  BY <1>1, <1>2, ConnSetType
<1>6. TypeOK'
  <2>1. RxOK(rx') /\ p.ready \in SUBSET Frames BY <1>1, <1>3 DEF Advance
  <2>2. delivered' = delivered \cup Tag(p.ready, generation) BY <1>1 DEF Deliver, Tag
  <2>3. delivered' \in SUBSET Tags BY <1>2, <2>1, <2>2, TagType
  <2> QED BY <1>1, <1>5, <2>1, <2>3 DEF OnceInv, TypeOK, Tags
<1>7. \A d \in Conns : conn'[d].ready = conn[d].ready /\ conn'[d].rgen = conn[d].rgen
  BY <1>4, <1>5
<1>8. OnceInv' BY <1>1, <1>3, <1>6, <1>7, ReleaseDelivered
<1> QED BY <1>1, <1>8 DEF FenceInv

LEMMA DeliverReadyStep ==
    ASSUME OnceInv, FenceInv, NEW c \in Conns, DeliverReady(c)
    PROVE  OnceInv' /\ FenceInv'
<1> DEFINE x == IF conn[c].failed THEN NoConn
                ELSE [conn[c] EXCEPT !.pc = "up", !.ready = {}, !.rgen = 0]
<1>1. /\ UNCHANGED <<side, mode, epoch, generation, rx, timer>> /\ conn[c].pc = "deliver"
      /\ Deliver(conn[c].ready, conn[c].rgen) /\ ConnSet(c, x)
  BY DEF DeliverReady, setting, actorState, At, ConnSet, Close
<1>2. /\ conn[c] \in ConnType /\ conn \in [Conns -> ConnType] /\ x \in ConnType
      /\ delivered \in SUBSET Tags /\ Carried(c) \in SUBSET Tags /\ epoch \in Nat
  BY ConnForms, NoConnType, CarriedType DEF OnceInv, TypeOK
<1>3. /\ x.ready = {}
      /\ \/ x = NoConn
         \/ /\ x.pc = "up" /\ x.batch = conn[c].batch
            /\ x.epoch = conn[c].epoch /\ x.gen = conn[c].gen
  BY <1>2, NoConnType DEF ConnType
<1> HIDE DEF x
<1>4. /\ conn' \in [Conns -> ConnType] /\ conn'[c] = x
      /\ \A d \in Conns \ {c} : conn'[d] = conn[d]
  BY <1>1, <1>2, ConnSetType
<1>5. delivered' \in SUBSET Tags
  <2>1. delivered' = delivered \cup Carried(c) BY <1>1 DEF Deliver, Carried, Tag
  <2> QED BY <1>2, <2>1
<1>6. TypeOK' BY <1>1, <1>4, <1>5 DEF OnceInv, TypeOK, Tags
<1>7. OnceInv' BY <1>1, <1>3, <1>4, <1>6, HandOverOnce
<1>8. FenceInv'
  <2> SUFFICES ASSUME side = "server" PROVE
                 generation' = epoch' /\ (\A d \in Conns : Fenced(d)')
                 /\ (mode' = "actor" => rx'.fed \subseteq {epoch'})
    BY <1>1 DEF FenceInv
  <2>1. Fenced(c)'
    <3>1. CASE x = NoConn BY <1>1, <1>2, <1>4, <3>1 DEF Fenced, NoConn
    <3>2. CASE x.pc = "up" /\ x.batch = conn[c].batch /\ x.epoch = conn[c].epoch
               /\ x.gen = conn[c].gen
      <4>1. Fenced(c) BY DEF FenceInv
      <4> QED BY <1>1, <1>4, <3>2, <4>1 DEF Fenced
    <3> QED BY <1>3, <3>1, <3>2
  <2>2. ASSUME NEW d \in Conns, d # c PROVE Fenced(d)'
    <3>1. conn'[d] = conn[d] /\ Fenced(d) BY <1>4, <2>2 DEF FenceInv
    <3> QED BY <1>1, <3>1 DEF Fenced
  <2> QED BY <1>1, <2>1, <2>2 DEF FenceInv
<1> QED BY <1>7, <1>8

LEMMA TimeoutFlushStep ==
    ASSUME OnceInv, FenceInv, TimeoutFlush
    PROVE  OnceInv' /\ FenceInv'
<1> DEFINE first == CHOOSE s \in HeldSeqs(rx.held) : \A i \in HeldSeqs(rx.held) : s <= i
           n == RunEnd(first, rx.held)
           ready == {g \in rx.held : g.seq < n}
           q == [rx EXCEPT !.expected = n, !.held = rx.held \ ready]
           p == [rx |-> q, ready |-> ready]
<1>1. /\ UNCHANGED <<side, mode, epoch, generation, conn, delivered, twice>>
      /\ timer.ready = {} /\ rx.held # {}
      /\ rx' = q /\ timer' = [ready |-> ready, gen |-> generation]
  BY DEF TimeoutFlush, setting, output
<1>2. /\ RxOK(rx) /\ rx.held \in SUBSET Frames /\ rx.fed \in SUBSET Nat /\ rx \in RxType
      /\ rx.expected \in Int
  BY RxActorAssumption DEF OnceInv, TypeOK, RxOK, RxType
<1>3. first \in 1..MaxSeq + 1 /\ rx.expected <= first
  <2>1. HeldSeqs(rx.held) \in SUBSET Nat /\ HeldSeqs(rx.held) # {}
        /\ HeldSeqs(rx.held) \subseteq 1..MaxSeq
    BY <1>1, <1>2, RxActorAssumption DEF HeldSeqs, Frames, Seqs
  <2>2. \E s \in HeldSeqs(rx.held) : \A i \in HeldSeqs(rx.held) : s <= i BY <2>1, NatLeast
  <2>3. first \in HeldSeqs(rx.held) BY <2>2
  <2>4. PICK f \in rx.held : f.seq = first BY <2>3 DEF HeldSeqs
  <2>5. rx.expected <= first BY <1>2, <2>4 DEF RxOK
  <2> HIDE DEF first
  <2>6. first \in 1..MaxSeq /\ MaxSeq \in Nat BY <2>1, <2>3, RxActorAssumption
  <2> QED BY <2>5, <2>6
<1> HIDE DEF first
<1>4. Advance(rx, rx.fed, p)
  <2>1. q = [rx EXCEPT !.expected = n, !.held = rx.held \ ready, !.fed = rx.fed]
    <3> HIDE DEF n, ready
    <3> QED BY <1>2 DEF RxType
  <2>2. \A f \in rx.held : rx.expected <= f.seq BY <1>2 DEF RxOK
  <2>3. Advance(rx, rx.fed, [rx |-> [rx EXCEPT !.expected = n, !.held = rx.held \ ready,
                                               !.fed = rx.fed], ready |-> ready])
    BY <1>2, <1>3, <2>2, Release
  <2> QED BY <2>1, <2>3
<1>5. p.rx = q /\ p.ready = ready OBVIOUS
<1> HIDE DEF p, q, ready
<1>6. RxOK(q) /\ ready \in SUBSET Frames /\ q.fed \subseteq rx.fed BY <1>4, <1>5 DEF Advance
<1>7. TypeOK' BY <1>1, <1>6 DEF OnceInv, TypeOK
<1>8. TimerCarried = {} BY <1>1 DEF TimerCarried, Tag
<1>9. OnceInv' BY <1>1, <1>4, <1>5, <1>7, <1>8, TimerReleaseOnce
<1>10. FenceInv' BY <1>1, <1>6 DEF FenceInv, Fenced
<1> QED BY <1>9, <1>10

LEMMA TimeoutDeliverStep ==
    ASSUME OnceInv, FenceInv, TimeoutDeliver
    PROVE  OnceInv' /\ FenceInv'
<1>1. /\ UNCHANGED <<side, mode, epoch, generation, rx, conn>>
      /\ timer' = [ready |-> {}, gen |-> 0] /\ Deliver(timer.ready, timer.gen)
  BY DEF TimeoutDeliver, setting
<1>2. /\ TimerCarried' = {} /\ delivered' = delivered \cup TimerCarried
      /\ twice' = (twice \/ TimerCarried \cap delivered # {})
      /\ \A d \in Conns : Carried(d)' = Carried(d)
  BY <1>1 DEF TimerCarried, Carried, Deliver, Tag
<1>3. delivered' \in SUBSET Tags BY <1>2, CarriedType DEF OnceInv
<1>4. TypeOK' BY <1>1, <1>3 DEF OnceInv, TypeOK, Tags
<1>5. \A t : Past(t)' <=> Past(t) BY <1>1 DEF Past
<1>6. TimerCarried \cap delivered = {} /\ ~twice BY DEF OnceInv, ReleasedOnce, DeliveredOnce
<1>7. ~twice' BY <1>2, <1>6
<1>8. ReleasedOnce'
  <2>1. \A t \in delivered' : Past(t)' BY <1>2, <1>5 DEF OnceInv, ReleasedOnce
  <2>2. \A c \in Conns : \A t \in Carried(c)' :
          /\ Past(t)' /\ t \notin delivered' /\ t \notin TimerCarried'
          /\ \A d \in Conns \ {c} : t \notin Carried(d)'
    BY <1>2, <1>5 DEF OnceInv, ReleasedOnce
  <2> QED BY <1>2, <2>1, <2>2 DEF ReleasedOnce
<1>9. OnceInv' BY <1>4, <1>7, <1>8 DEF OnceInv, DeliveredOnce
<1> QED BY <1>1, <1>9 DEF FenceInv, Fenced

-----------------------------------------------------------------------------
(* The theorems *)

RxInv == OnceInv /\ FenceInv

LEMMA RxInit == Init => RxInv
<1> SUFFICES ASSUME Init PROVE RxInv
  OBVIOUS
<1>1. TypeOK BY InitTypes
<1>2. /\ delivered = {} /\ TimerCarried = {} /\ \A c \in Conns : Carried(c) = {}
  BY NoConnType DEF Init, TimerCarried, Carried, Tag
<1>3. ReleasedOnce /\ DeliveredOnce BY <1>2 DEF ReleasedOnce, DeliveredOnce, Init
<1>4. \A c \in Conns : Fenced(c) BY DEF Init, Fenced, NoConn
<1>5. FenceInv BY <1>4 DEF FenceInv, Init, Empty
<1> QED BY <1>1, <1>3, <1>5 DEF RxInv, OnceInv

LEMMA RxStep == RxInv /\ [Next]_vars => RxInv'
<1> SUFFICES ASSUME RxInv, [Next]_vars PROVE RxInv'
  OBVIOUS
<1> USE DEF RxInv
<1>1. OnceInv /\ FenceInv /\ TypeOK BY DEF OnceInv
<1>2. ASSUME NEW c \in Conns,
             \/ \E rotate \in BOOLEAN : Join(c, rotate)
             \/ Snapshot(c)
             \/ Negotiate(c)
             \/ Reconfigure(c)
             \/ MakeProducer(c)
             \/ \E s \in Seqs \cup {Control} : ServerReceive(c, s)
             \/ \E s \in Seqs \cup {Control} : ClientReceive(c, s)
             \/ Drained(c)
             \/ Disconnect(c)
      PROVE  RxInv'
  <2>1. CASE \E rotate \in BOOLEAN : Join(c, rotate) BY <1>1, <2>1, JoinStep, QuietOnce
  <2>2. CASE Snapshot(c) BY <1>1, <2>2, SnapshotStep, QuietOnce
  <2>3. CASE Negotiate(c) BY <1>1, <2>3, NegotiateStep, QuietOnce
  <2>4. CASE Reconfigure(c) BY <1>1, <2>4, ReconfigureStep, QuietOnce
  <2>5. CASE MakeProducer(c) BY <1>1, <2>5, MakeProducerStep, QuietOnce
  <2>6. CASE \E s \in Seqs \cup {Control} : ServerReceive(c, s)
    BY <1>1, <2>6, ServerReceiveStep, QuietOnce
  <2>7. CASE \E s \in Seqs \cup {Control} : ClientReceive(c, s)
    BY <1>1, <2>7, ClientReceiveStep, QuietOnce
  <2>8. CASE Drained(c) BY <1>1, <2>8, DrainedStep, QuietOnce
  <2>9. CASE Disconnect(c)
    <3>1. Close(c) /\ UNCHANGED <<setting, epoch, generation, rx, timer, output>>
      BY <2>9 DEF Disconnect, actorState
    <3> QED BY <1>1, <3>1, CloseStep, QuietOnce
  <2> QED BY <1>2, <2>1, <2>2, <2>3, <2>4, <2>5, <2>6, <2>7, <2>8, <2>9
<1>3. ASSUME NEW c \in Conns,
             \/ \E upto \in 0..BatchCap : ProcessBatch(c, upto)
             \/ DeliverReady(c)
             \/ ServerFlush(c)
             \/ ClientFlush(c)
      PROVE  RxInv'
  BY <1>1, <1>3, ProcessBatchStep, DeliverReadyStep, ServerFlushStep, ClientFlushStep
<1>4. CASE TimeoutFlush BY <1>1, <1>4, TimeoutFlushStep
<1>5. CASE TimeoutDeliver BY <1>1, <1>5, TimeoutDeliverStep
<1>6. CASE UNCHANGED vars
  BY <1>1, <1>6 DEF vars, OnceInv, TypeOK, ReleasedOnce, DeliveredOnce, Past, TimerCarried,
                    Carried, FenceInv, Fenced
<1> QED BY <1>2, <1>3, <1>4, <1>5, <1>6 DEF Next

\* Whatever readers and the timer do, in whatever order they leave the lock and
\* reach the switch, no frame of a generation is delivered twice: src/rx_actor.rs
\* process_batch, flush_timeout_into and deliver_reusing, and the direct paths of the
\* server and the client.
THEOREM OnceHolds == Spec => []DeliveredOnce
<1>1. RxInv => DeliveredOnce BY DEF RxInv, OnceInv
<1> QED BY RxInit, RxStep, <1>1, PTL DEF Spec

\* With an actor on the server, a batch made under an older epoch never reaches
\* the shared buffer: the generation it carries was taken before the rotation.
THEOREM FenceHolds == Spec => []StaleEpochFenced
<1>1. RxInv => StaleEpochFenced BY DEF RxInv, FenceInv, StaleEpochFenced
<1> QED BY RxInit, RxStep, <1>1, PTL DEF Spec

\* The fence never cuts off a connection of the current epoch on the server.
THEOREM CurrentHeard == Spec => []CurrentProducerHeard
<1>1. RxInv => CurrentProducerHeard BY DEF RxInv, FenceInv, Fenced, CurrentProducerHeard
<1> QED BY RxInit, RxStep, <1>1, PTL DEF Spec

=============================================================================
