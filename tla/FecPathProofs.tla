---------------------------- MODULE FecPathProofs ----------------------------
(***************************************************************************)
(* FenceBeforeGoverned for any set of backends and any number of threads   *)
(* that write to the port: on every stream, a data record is preceded by   *)
(* the FEC_MODE control that governs it.  Then, for one writing thread,    *)
(* what FEC repairs: RecoveredIsSent, RetiredStaysGone,                    *)
(* PreCollapseRepaired and ParityIsArithmetic.                             *)
(*                                                                         *)
(* FenceBeforeGoverned is not inductive.  It needs to know that            *)
(*   - the generation a registered backend remembers was announced on its  *)
(*     stream (the receiver has applied it, or a control that carries it   *)
(*     is still in the stream), and                                        *)
(*   - the generation of a write that has sent the control and not yet the *)
(*     data was announced on the stream it was sent to.                    *)
(***************************************************************************)
EXTENDS FecPath, TLAPS, FiniteSetTheorems, WellFoundedInduction

ControlT == [op : {"none", "suspend", "resume"}, gen : Nat, boundary : Int]

WriterT ==
    [pc : {"idle", "encode", "send", "publish", "data", "parity"}, seq : Int,
     control : ControlT, parity : Seq(Int), tried : SUBSET Backends,
     at : Backends \cup {"none"}]

RecordT ==
    [kind : {"data"}, seq : Int, gov : Nat]
        \cup [kind : {"control"}, op : {"none", "suspend", "resume"}, gen : Nat, boundary : Int]
        \cup [kind : {"parity"}, members : Seq(Int)]

TypeInv ==
    /\ up \subseteq Backends
    /\ fenceGen \in [Backends -> Nat]
    /\ txSeq \in Int
    /\ enc \in [members : Seq(Int), multipath : BOOLEAN, armed : BOOLEAN]
    /\ mode \in [seen : BOOLEAN, suspended : BOOLEAN, gen : Nat, current : ControlT]
    /\ writer \in [Writers -> WriterT]
    /\ chan \in [Backends -> Seq(RecordT)]
    /\ fence.gen \in Nat

\* Generation g was announced on the stream s to a receiver at generation f.
Announced(s, f, g) ==
    \/ g <= f
    \/ \E j \in 1..Len(s) : s[j].kind = "control" /\ s[j].gen >= g

Governed(s, f) ==
    \A i \in 1..Len(s) : s[i].kind = "data" =>
        \/ s[i].gov <= f
        \/ \E j \in 1..i - 1 : s[j].kind = "control" /\ s[j].gen >= s[i].gov

StreamsGoverned == \A b \in Backends : Governed(chan[b], fence.gen)

BackendsAnnounced ==
    \A b \in up : b \notin refused => Announced(chan[b], fence.gen, fenceGen[b])

WritersAnnounced ==
    \A w \in Writers : writer[w].pc \in {"publish", "data"} =>
        /\ writer[w].at \in up
        /\ writer[w].at \notin refused =>
               Announced(chan[writer[w].at], fence.gen, writer[w].control.gen)

IInv == TypeInv /\ StreamsGoverned /\ BackendsAnnounced /\ WritersAnnounced

-----------------------------------------------------------------------------
\* Streams: what an enqueue, a read and a lost connection do to them.

\* The fields of the records in a stream.
LEMMA RecordFields ==
    ASSUME NEW r \in RecordT
    PROVE  /\ r.kind = "data" => r.gov \in Nat
           /\ r.kind = "control" => r.gen \in Nat
BY DEF RecordT

\* An announcement stays when a record follows it.
LEMMA AnnouncedAppend ==
    ASSUME NEW s \in Seq(RecordT), NEW f \in Nat, NEW g \in Nat, NEW r \in RecordT,
           Announced(s, f, g)
    PROVE  Announced(Append(s, r), f, g)
<1>1. CASE g <= f  BY <1>1 DEF Announced
<1>2. CASE \E j \in 1..Len(s) : s[j].kind = "control" /\ s[j].gen >= g
  <2>1. PICK j \in 1..Len(s) : s[j].kind = "control" /\ s[j].gen >= g  BY <1>2
  <2>2. j \in 1..Len(Append(s, r)) /\ Append(s, r)[j] = s[j]  BY <2>1
  <2>3. QED  BY <2>1, <2>2 DEF Announced
<1>3. QED  BY <1>1, <1>2 DEF Announced

\* An announcement stands for every earlier generation.
LEMMA AnnouncedLower ==
    ASSUME NEW s \in Seq(RecordT), NEW f \in Nat, NEW g \in Nat, NEW h \in Nat, h <= g,
           Announced(s, f, g)
    PROVE  Announced(s, f, h)
<1>1. \A j \in 1..Len(s) : s[j].kind = "control" => s[j].gen \in Nat
  <2>1. \A j \in 1..Len(s) : s[j] \in RecordT  OBVIOUS
  <2>2. QED  BY <2>1, RecordFields
<1>2. QED  BY <1>1 DEF Announced

\* Enqueuing a control announces its generation.
LEMMA ControlAnnounces ==
    ASSUME NEW s \in Seq(RecordT), NEW f \in Nat, NEW r \in RecordT,
           r.kind = "control", r.gen \in Nat
    PROVE  Announced(Append(s, r), f, r.gen)
<1>1. Len(s) + 1 \in 1..Len(Append(s, r)) /\ Append(s, r)[Len(s) + 1] = r  OBVIOUS
<1>2. QED  BY <1>1 DEF Announced

\* A data record may be enqueued where its generation was announced.
LEMMA GovernedAppend ==
    ASSUME NEW s \in Seq(RecordT), NEW f \in Nat, NEW r \in RecordT,
           Governed(s, f), r.kind = "data" => Announced(s, f, r.gov)
    PROVE  Governed(Append(s, r), f)
<1> DEFINE t == Append(s, r)
<1>1. Len(t) = Len(s) + 1 /\ \A i \in 1..Len(s) : t[i] = s[i]  OBVIOUS
<1>2. t[Len(s) + 1] = r  OBVIOUS
<1> SUFFICES ASSUME NEW i \in 1..Len(t), t[i].kind = "data"
             PROVE  \/ t[i].gov <= f
                    \/ \E j \in 1..i - 1 : t[j].kind = "control" /\ t[j].gen >= t[i].gov
    BY DEF Governed
<1> HIDE DEF t
<1>3. CASE i \in 1..Len(s)
  <2>1. t[i] = s[i] /\ \A j \in 1..i - 1 : t[j] = s[j]  BY <1>1, <1>3
  <2>2. QED  BY <1>3, <2>1 DEF Governed
<1>4. CASE i = Len(s) + 1
  <2>1. t[i] = r /\ i - 1 = Len(s)  BY <1>2, <1>4
  <2>2. QED  BY <1>1, <2>1 DEF Announced
<1>5. QED  BY <1>1, <1>3, <1>4

\* Reading the head: a control raises the receiver's generation to its own.
LEMMA AnnouncedTail ==
    ASSUME NEW s \in Seq(RecordT), s # << >>, NEW f \in Nat, NEW f2 \in Nat, NEW g \in Nat,
           f <= f2, Head(s).kind = "control" => Head(s).gen \in Nat /\ Head(s).gen <= f2,
           Announced(s, f, g)
    PROVE  Announced(Tail(s), f2, g)
<1>1. CASE g <= f  BY <1>1 DEF Announced
<1>2. CASE \E j \in 1..Len(s) : s[j].kind = "control" /\ s[j].gen >= g
  <2>1. PICK j \in 1..Len(s) : s[j].kind = "control" /\ s[j].gen >= g  BY <1>2
  <2>2. CASE j = 1
    <3>1. s[j] = Head(s)  BY <2>2
    <3>2. QED  BY <2>1, <3>1 DEF Announced
  <2>3. CASE j # 1
    <3>1. j - 1 \in 1..Len(Tail(s)) /\ Tail(s)[j - 1] = s[j]  BY <2>1, <2>3
    <3>2. QED  BY <2>1, <3>1 DEF Announced
  <2>4. QED  BY <2>2, <2>3
<1>3. QED  BY <1>1, <1>2 DEF Announced

\* Reading the head of a stream leaves every later data record governed,
\* provided the receiver has applied the head when it was a control.
LEMMA GovernedTail ==
    ASSUME NEW s \in Seq(RecordT), s # << >>, NEW f \in Nat, NEW f2 \in Nat,
           f <= f2, Head(s).kind = "control" => Head(s).gen \in Nat /\ Head(s).gen <= f2,
           Governed(s, f),
           \A i \in 1..Len(s) : s[i].kind = "data" => s[i].gov \in Nat
    PROVE  Governed(Tail(s), f2)
<1> DEFINE t == Tail(s)
<1>1. Len(t) = Len(s) - 1 /\ \A i \in 1..Len(s) - 1 : t[i] = s[i + 1]  OBVIOUS
<1>2. s[1] = Head(s)  OBVIOUS
<1> SUFFICES ASSUME NEW i \in 1..Len(t), t[i].kind = "data"
             PROVE  \/ t[i].gov <= f2
                    \/ \E j \in 1..i - 1 : t[j].kind = "control" /\ t[j].gen >= t[i].gov
    BY DEF Governed
<1> HIDE DEF t
<1>3. i + 1 \in 1..Len(s) /\ t[i] = s[i + 1]  BY <1>1
<1>4. CASE s[i + 1].gov <= f  BY <1>3, <1>4
<1>5. CASE \E j \in 1..i : s[j].kind = "control" /\ s[j].gen >= s[i + 1].gov
  <2>1. PICK j \in 1..i : s[j].kind = "control" /\ s[j].gen >= s[i + 1].gov  BY <1>5
  <2>2. CASE j = 1  BY <1>2, <1>3, <2>1, <2>2
  <2>3. CASE j # 1
    <3>1. j - 1 \in 1..i - 1 /\ j - 1 \in 1..Len(s) - 1  BY <1>3, <2>3
    <3>2. t[j - 1] = s[j]  BY <1>1, <3>1
    <3>3. QED  BY <1>3, <2>1, <3>1, <3>2
  <2>4. QED  BY <2>2, <2>3
<1>6. QED  BY <1>3, <1>4, <1>5 DEF Governed

\* A higher generation at the receiver keeps both.
LEMMA Monotone ==
    ASSUME NEW s \in Seq(RecordT), NEW f \in Nat, NEW f2 \in Nat, f <= f2,
           \A i \in 1..Len(s) : s[i].kind = "data" => s[i].gov \in Nat
    PROVE  /\ Governed(s, f) => Governed(s, f2)
           /\ \A g \in Nat : Announced(s, f, g) => Announced(s, f2, g)
BY DEF Governed, Announced

\* A lost connection leaves a prefix of what was in its stream.
LEMMA GovernedPrefix ==
    ASSUME NEW s \in Seq(RecordT), NEW f \in Nat, NEW n \in 0..Len(s), Governed(s, f)
    PROVE  Governed(SubSeq(s, 1, n), f)
<1>1. Len(SubSeq(s, 1, n)) = n /\ \A i \in 1..n : SubSeq(s, 1, n)[i] = s[i]  OBVIOUS
<1>2. QED  BY <1>1 DEF Governed


-----------------------------------------------------------------------------
\* Steps of the system.

\* An enqueue keeps every stream governed and every announcement made.
LEMMA EnqueueStep ==
    ASSUME TypeInv, StreamsGoverned, fence' = fence,
           NEW b \in Backends, NEW r \in RecordT, Enqueue(b, r),
           b \notin refused /\ r.kind = "data" => Announced(chan[b], fence.gen, r.gov)
    PROVE  /\ chan' \in [Backends -> Seq(RecordT)]
           /\ StreamsGoverned'
           /\ \A c \in Backends, g \in Nat :
                  Announced(chan[c], fence.gen, g) => Announced(chan'[c], fence'.gen, g)
           /\ b \notin refused /\ r.kind = "control" => Announced(chan'[b], fence'.gen, r.gen)
<1>1. CASE b \in refused
  <2>1. chan' = chan  BY <1>1 DEF Enqueue
  <2>2. QED  BY <1>1, <2>1 DEF TypeInv, StreamsGoverned
<1>2. CASE b \notin refused
  <2>1. chan' = [chan EXCEPT ![b] = Append(chan[b], r)]  BY <1>2 DEF Enqueue
  <2>2. chan[b] \in Seq(RecordT) /\ fence.gen \in Nat  BY DEF TypeInv
  <2>3. chan'[b] = Append(chan[b], r) /\ \A c \in Backends : c # b => chan'[c] = chan[c]
    BY <2>1 DEF TypeInv
  <2>4. chan' \in [Backends -> Seq(RecordT)]  BY <2>1, <2>2 DEF TypeInv
  <2>5. StreamsGoverned'
    <3>1. Governed(chan[b], fence.gen)  BY DEF StreamsGoverned
    <3>2. Governed(chan'[b], fence.gen)  BY <1>2, <2>2, <2>3, <3>1, GovernedAppend
    <3>3. QED  BY <2>3, <3>2 DEF StreamsGoverned
  <2>6. ASSUME NEW c \in Backends, NEW g \in Nat, Announced(chan[c], fence.gen, g)
        PROVE  Announced(chan'[c], fence'.gen, g)
    BY <2>2, <2>3, <2>6, AnnouncedAppend
  <2>7. r.kind = "control" => Announced(chan'[b], fence'.gen, r.gen)
    BY <2>2, <2>3, ControlAnnounces, RecordFields
  <2>8. QED  BY <2>4, <2>5, <2>6, <2>7
<1>3. QED  BY <1>1, <1>2

\* So does a read, which may raise the receiver's generation.
LEMMA PopStep ==
    ASSUME TypeInv, StreamsGoverned, NEW b \in Backends, chan[b] # << >>, Pop(b),
           fence'.gen \in Nat, fence.gen <= fence'.gen,
           Head(chan[b]).kind = "control" => Head(chan[b]).gen <= fence'.gen
    PROVE  /\ chan' \in [Backends -> Seq(RecordT)]
           /\ StreamsGoverned'
           /\ \A c \in Backends, g \in Nat :
                  Announced(chan[c], fence.gen, g) => Announced(chan'[c], fence'.gen, g)
<1>1. chan' = [chan EXCEPT ![b] = Tail(chan[b])]  BY DEF Pop
<1>2. /\ fence.gen \in Nat
      /\ \A c \in Backends : chan[c] \in Seq(RecordT)
  BY DEF TypeInv
<1>3. \A c \in Backends : \A i \in 1..Len(chan[c]) : chan[c][i].kind = "data" => chan[c][i].gov \in Nat
  <2>1. \A c \in Backends : \A i \in 1..Len(chan[c]) : chan[c][i] \in RecordT  BY <1>2
  <2>2. QED  BY <2>1, RecordFields
<1>4. Head(chan[b]) \in RecordT  BY <1>2
<1>5. Head(chan[b]).kind = "control" => Head(chan[b]).gen \in Nat  BY <1>4, RecordFields
<1>6. chan'[b] = Tail(chan[b]) /\ \A c \in Backends : c # b => chan'[c] = chan[c]
  BY <1>1 DEF TypeInv
<1>7. chan' \in [Backends -> Seq(RecordT)]
  <2>1. Tail(chan[b]) \in Seq(RecordT)  BY <1>2
  <2>2. QED  BY <1>1, <2>1 DEF TypeInv
<1>8. ASSUME NEW c \in Backends PROVE Governed(chan'[c], fence'.gen)
  <2>1. Governed(chan[c], fence.gen)  BY DEF StreamsGoverned
  <2>2. CASE c = b  BY <1>2, <1>3, <1>5, <1>6, <2>1, <2>2, GovernedTail
  <2>3. CASE c # b  BY <1>2, <1>3, <1>6, <2>1, <2>3, Monotone
  <2>4. QED  BY <2>2, <2>3
<1>9. ASSUME NEW c \in Backends, NEW g \in Nat, Announced(chan[c], fence.gen, g)
      PROVE  Announced(chan'[c], fence'.gen, g)
  <2>1. CASE c = b  BY <1>2, <1>5, <1>6, <1>9, <2>1, AnnouncedTail
  <2>2. CASE c # b  BY <1>2, <1>3, <1>6, <1>9, <2>2, Monotone
  <2>3. QED  BY <2>1, <2>2
<1>10. QED  BY <1>7, <1>8, <1>9 DEF StreamsGoverned

\* apply_actor never lowers the generation and reaches that of the control.
LEMMA ApplyGeneration ==
    ASSUME NEW c, c.gen \in Nat, fence.gen \in Nat
    PROVE  /\ ApplyControl(c).gen \in Nat
           /\ fence.gen <= ApplyControl(c).gen
           /\ c.gen <= ApplyControl(c).gen
BY DEF ApplyControl

\* The records the sender enqueues.
LEMMA RecordsTyped ==
    /\ \A seq \in Int, gov \in Nat : Data(seq, gov) \in RecordT /\ Data(seq, gov).kind = "data"
                                     /\ Data(seq, gov).gov = gov
    /\ \A c \in ControlT : Control(c) \in RecordT /\ Control(c).kind = "control"
                           /\ Control(c).gen = c.gen
    /\ \A m \in Seq(Int) : Parity(m) \in RecordT /\ Parity(m).kind = "parity"
BY DEF Data, Control, Parity, RecordT, ControlT

\* The critical section of a write keeps the types of encoder and mode.
LEMMA EncodeTyped ==
    ASSUME NEW m \in [seen : BOOLEAN, suspended : BOOLEAN, gen : Nat, current : ControlT],
           NEW e \in [members : Seq(Int), multipath : BOOLEAN, armed : BOOLEAN],
           NEW paths, NEW seq \in Int
    PROVE  /\ Observe(m, paths, seq)
                  \in [seen : BOOLEAN, suspended : BOOLEAN, gen : Nat, current : ControlT]
           /\ SetPhysicalPathCount(e, paths)
                  \in [members : Seq(Int), multipath : BOOLEAN, armed : BOOLEAN]
           /\ Add(e, seq).enc \in [members : Seq(Int), multipath : BOOLEAN, armed : BOOLEAN]
           /\ Add(e, seq).parity \in Seq(Int)
<1>1. GroupStart(seq) \in Int /\ NextGroupStart(seq) \in Int
  BY FecAssumption DEF GroupStart, NextGroupStart
<1>2. Observe(m, paths, seq)
          \in [seen : BOOLEAN, suspended : BOOLEAN, gen : Nat, current : ControlT]
  BY <1>1 DEF Observe, ControlT
<1>3. SetPhysicalPathCount(e, paths)
          \in [members : Seq(Int), multipath : BOOLEAN, armed : BOOLEAN]
  BY DEF SetPhysicalPathCount
<1>4. /\ Add(e, seq).enc \in [members : Seq(Int), multipath : BOOLEAN, armed : BOOLEAN]
      /\ Add(e, seq).parity \in Seq(Int)
  BY DEF Add
<1>5. QED  BY <1>2, <1>3, <1>4

-----------------------------------------------------------------------------
\* The invariant.

\* The initial state: no stream holds a record and nothing is announced.
LEMMA InitIInv == Init => IInv
<1> SUFFICES ASSUME Init PROVE IInv  OBVIOUS
<1>1. TypeInv
  BY DEF Init, TypeInv, WriterT, ControlT, Idle, NoControl
<1>2. StreamsGoverned  BY DEF Init, StreamsGoverned, Governed
<1>3. BackendsAnnounced  BY DEF Init, BackendsAnnounced
<1>4. WritersAnnounced  BY DEF Init, WritersAnnounced, Idle
<1>5. QED  BY <1>1, <1>2, <1>3, <1>4 DEF IInv

\* Topology changes happen between writes.
LEMMA TopologyStep ==
    ASSUME IInv, NEW b \in Backends, RegisterBackend(b) \/ UnregisterBackend(b)
    PROVE  IInv'
<1> USE DEF IInv
<1>1. CASE RegisterBackend(b)
  <2> USE <1>1 DEF RegisterBackend, rxVars, histVars
  <2>1. TypeInv'  BY DEF TypeInv
  <2>2. StreamsGoverned'  BY DEF StreamsGoverned
  <2>3. BackendsAnnounced'
    <3> SUFFICES ASSUME NEW c \in up', c \notin refused'
                 PROVE  Announced(chan[c], fence.gen, fenceGen'[c])
        BY DEF BackendsAnnounced
    <3>1. CASE c = b  BY <3>1 DEF Announced, TypeInv
    <3>2. CASE c # b  BY <3>2 DEF BackendsAnnounced, TypeInv
    <3>3. QED  BY <3>1, <3>2
  <2>4. WritersAnnounced'  BY DEF WritersAnnounced, NoCall
  <2>5. QED  BY <2>1, <2>2, <2>3, <2>4
<1>2. CASE UnregisterBackend(b)
  <2> USE <1>2 DEF UnregisterBackend, sendVars, rxVars, histVars
  <2>1. PICK n \in 0..Len(chan[b]) : chan' = [chan EXCEPT ![b] = SubSeq(chan[b], 1, n)]
    OBVIOUS
  <2>2. chan[b] \in Seq(RecordT) /\ fence.gen \in Nat  BY DEF TypeInv
  <2>3. SubSeq(chan[b], 1, n) \in Seq(RecordT)  BY <2>2
  <2>4. TypeInv'  BY <2>1, <2>3 DEF TypeInv
  <2>5. chan'[b] = SubSeq(chan[b], 1, n) /\ \A c \in Backends : c # b => chan'[c] = chan[c]
    BY <2>1 DEF TypeInv
  <2>6. Governed(chan'[b], fence.gen)
    <3>1. Governed(chan[b], fence.gen)  BY DEF StreamsGoverned
    <3>2. QED  BY <2>2, <2>5, <3>1, GovernedPrefix
  <2>7. StreamsGoverned'  BY <2>5, <2>6 DEF StreamsGoverned
  <2>8. BackendsAnnounced'  BY <2>5 DEF BackendsAnnounced, TypeInv
  <2>9. WritersAnnounced'  BY DEF WritersAnnounced, NoCall
  <2>10. QED  BY <2>4, <2>7, <2>8, <2>9
<1>3. QED  BY <1>1, <1>2

\* A write that sends nothing and stays away from the streams.
LEMMA QuietWrite ==
    ASSUME IInv, NEW w \in Writers, NEW x \in WriterT,
           writer' = [writer EXCEPT ![w] = x],
           x.pc \in {"publish", "data"} =>
               /\ x.at \in up
               /\ x.at \notin refused => Announced(chan[x.at], fence.gen, x.control.gen),
           UNCHANGED <<up, chan, refused, fence>>,
           BackendsAnnounced', TypeInv'
    PROVE  IInv'
<1>1. StreamsGoverned'  BY DEF IInv, StreamsGoverned
<1>2. WritersAnnounced'
  <2> SUFFICES ASSUME NEW v \in Writers, writer'[v].pc \in {"publish", "data"}
               PROVE  /\ writer'[v].at \in up
                      /\ writer'[v].at \notin refused =>
                             Announced(chan[writer'[v].at], fence.gen, writer'[v].control.gen)
      BY DEF WritersAnnounced
  <2>1. CASE v = w
    <3>1. writer'[v] = x  BY <2>1 DEF IInv, TypeInv
    <3>2. QED  BY <3>1
  <2>2. CASE v # w
    <3>1. writer'[v] = writer[v]  BY <2>2 DEF IInv, TypeInv
    <3>2. QED  BY <3>1 DEF IInv, WritersAnnounced
  <2>3. QED  BY <2>1, <2>2
<1>3. QED  BY <1>1, <1>2 DEF IInv

\* A write that enqueues a record.
LEMMA LoudWrite ==
    ASSUME IInv, NEW w \in Writers, NEW x \in WriterT,
           writer' = [writer EXCEPT ![w] = x],
           NEW b \in Backends, NEW r \in RecordT, Enqueue(b, r),
           b \notin refused /\ r.kind = "data" => Announced(chan[b], fence.gen, r.gov),
           x.pc \in {"publish", "data"} =>
               b \in up /\ x.at = b /\ r.kind = "control" /\ r.gen = x.control.gen,
           UNCHANGED <<up, fenceGen, txSeq, enc, mode, refused, fence>>
    PROVE  IInv'
<1> USE DEF IInv
<1>1. /\ chan' \in [Backends -> Seq(RecordT)]
      /\ StreamsGoverned'
      /\ \A c \in Backends, g \in Nat :
             Announced(chan[c], fence.gen, g) => Announced(chan'[c], fence'.gen, g)
      /\ b \notin refused /\ r.kind = "control" => Announced(chan'[b], fence'.gen, r.gen)
  BY EnqueueStep
<1>2. TypeInv'  BY <1>1 DEF TypeInv
<1>3. BackendsAnnounced'
  <2>1. \A c \in up : c \in Backends /\ fenceGen[c] \in Nat  BY DEF TypeInv
  <2>2. QED  BY <1>1, <2>1 DEF BackendsAnnounced
<1>4. WritersAnnounced'
  <2> SUFFICES ASSUME NEW v \in Writers, writer'[v].pc \in {"publish", "data"}
               PROVE  /\ writer'[v].at \in up
                      /\ writer'[v].at \notin refused =>
                             Announced(chan'[writer'[v].at], fence'.gen, writer'[v].control.gen)
      BY DEF WritersAnnounced
  <2>1. CASE v = w
    <3>1. writer'[v] = x  BY <2>1 DEF TypeInv
    <3>2. QED  BY <1>1, <3>1
  <2>2. CASE v # w
    <3>1. writer'[v] = writer[v]  BY <2>2 DEF TypeInv
    <3>2. writer[v].control.gen \in Nat  BY DEF TypeInv, WriterT, ControlT
    <3>3. /\ writer[v].at \in up
          /\ writer[v].at \notin refused =>
                 Announced(chan[writer[v].at], fence.gen, writer[v].control.gen)
      BY <3>1 DEF WritersAnnounced
    <3>4. writer[v].at \in Backends  BY <3>3 DEF TypeInv
    <3>5. QED  BY <1>1, <3>1, <3>2, <3>3, <3>4
  <2>3. QED  BY <2>1, <2>2
<1>5. QED  BY <1>1, <1>2, <1>3, <1>4

\* Every step of a write_payload call keeps the invariant.
LEMMA WriteStep ==
    ASSUME IInv, NEW w \in Writers, Write(w)
    PROVE  IInv'
<1> USE DEF IInv
<1>1. writer[w] \in WriterT  BY DEF TypeInv
<1>2. /\ writer[w].control \in ControlT /\ writer[w].control.gen \in Nat
      /\ writer[w].seq \in Int
      /\ writer[w].parity \in Seq(Int)
  BY <1>1 DEF WriterT, ControlT
<1>3. CASE NextSeq(w)
  <2>1. CASE txSeq = MaxSeq
    BY <1>3, <2>1
    DEF NextSeq, rxVars, TypeInv, StreamsGoverned, BackendsAnnounced, WritersAnnounced
  <2>2. CASE txSeq # MaxSeq
    <3> DEFINE x == [writer[w] EXCEPT !.pc = "encode", !.seq = txSeq + 1]
    <3>1. /\ writer' = [writer EXCEPT ![w] = x] /\ txSeq' = txSeq + 1
          /\ UNCHANGED <<up, fenceGen, enc, mode, chan, refused, fence>>
      BY <1>3, <2>2 DEF NextSeq, rxVars
    <3>2. txSeq + 1 \in Int  BY DEF TypeInv
    <3>3. x \in WriterT /\ x.pc = "encode"  BY <1>1, <3>2 DEF WriterT
    <3> HIDE DEF x
    <3>4. TypeInv'  BY <3>1, <3>2, <3>3 DEF TypeInv
    <3>5. BackendsAnnounced'  BY <3>1 DEF BackendsAnnounced
    <3>6. QED  BY <3>1, <3>3, <3>4, <3>5, QuietWrite
  <2>3. QED  BY <2>1, <2>2
<1>4. CASE Encode(w)
  <2> DEFINE paths == Cardinality(up)
             m == Observe(mode, paths, writer[w].seq)
             e == SetPhysicalPathCount(enc, paths)
             r == Add(e, writer[w].seq)
             x == [writer[w] EXCEPT !.pc = "send", !.control = m.current,
                                    !.parity = r.parity, !.tried = {}]
  <2>1. /\ enc' = r.enc /\ mode' = m
        /\ writer' = [writer EXCEPT ![w] = x]
        /\ UNCHANGED <<up, fenceGen, txSeq, chan, refused, fence>>
    BY <1>4 DEF Encode, rxVars
  <2>2. m \in [seen : BOOLEAN, suspended : BOOLEAN, gen : Nat, current : ControlT]
    BY <1>2, EncodeTyped DEF TypeInv
  <2>3. e \in [members : Seq(Int), multipath : BOOLEAN, armed : BOOLEAN]
    BY <1>2, EncodeTyped DEF TypeInv
  <2>4. /\ r.enc \in [members : Seq(Int), multipath : BOOLEAN, armed : BOOLEAN]
        /\ r.parity \in Seq(Int)
    <3> HIDE DEF e, m
    <3>1. QED  BY <1>2, <2>2, <2>3, EncodeTyped
  <2> HIDE DEF m, r
  <2>5. x \in WriterT /\ x.pc = "send"  BY <1>1, <2>2, <2>4 DEF WriterT
  <2> HIDE DEF x
  <2>6. TypeInv'  BY <2>1, <2>2, <2>4, <2>5 DEF TypeInv
  <2>7. BackendsAnnounced'  BY <2>1 DEF BackendsAnnounced
  <2>8. QED  BY <2>1, <2>5, <2>6, <2>7, QuietWrite
<1>5. CASE PublishFence(w)
  <2> DEFINE x == [writer[w] EXCEPT !.pc = "data"]
             b == writer[w].at
             g == writer[w].control.gen
  <2>1. /\ writer[w].pc = "publish"
        /\ fenceGen' = [fenceGen EXCEPT ![b] = g]
        /\ writer' = [writer EXCEPT ![w] = x]
        /\ UNCHANGED <<up, txSeq, enc, mode, chan, refused, fence>>
    BY <1>5 DEF PublishFence, rxVars
  <2>2. x \in WriterT /\ x.pc = "data" /\ x.at = b /\ x.control = writer[w].control
    BY <1>1 DEF WriterT
  <2>3. b \in up /\ (b \notin refused => Announced(chan[b], fence.gen, g))
    BY <2>1 DEF WritersAnnounced
  <2> HIDE DEF x
  <2>4. TypeInv'  BY <1>2, <2>1, <2>2, <2>3 DEF TypeInv
  <2>5. BackendsAnnounced'
    <3> SUFFICES ASSUME NEW c \in up, c \notin refused
                 PROVE  Announced(chan[c], fence.gen, fenceGen'[c])
        BY <2>1 DEF BackendsAnnounced
    <3>1. CASE c = b
      <4>1. fenceGen'[c] = g  BY <2>1, <3>1 DEF TypeInv
      <4>2. QED  BY <2>3, <3>1, <4>1
    <3>2. CASE c # b
      <4>1. fenceGen'[c] = fenceGen[c]  BY <2>1, <3>2 DEF TypeInv
      <4>2. QED  BY <4>1 DEF BackendsAnnounced
    <3>3. QED  BY <3>1, <3>2
  <2>6. QED  BY <2>1, <2>2, <2>3, <2>4, <2>5, QuietWrite
<1>6. CASE TryNext(w)
  <2> DEFINE x == [writer[w] EXCEPT !.pc = "send", !.tried = @ \cup {writer[w].at}]
  <2>1. /\ writer[w].pc = "data"
        /\ writer' = [writer EXCEPT ![w] = x]
        /\ UNCHANGED <<up, fenceGen, txSeq, enc, mode, chan, refused, fence>>
    BY <1>6 DEF TryNext, rxVars
  <2>2. writer[w].at \in Backends  BY <2>1 DEF WritersAnnounced, TypeInv
  <2>3. x \in WriterT /\ x.pc = "send"  BY <1>1, <2>2 DEF WriterT
  <2> HIDE DEF x
  <2>4. TypeInv'  BY <2>1, <2>3 DEF TypeInv
  <2>5. BackendsAnnounced'  BY <2>1 DEF BackendsAnnounced
  <2>6. QED  BY <2>1, <2>3, <2>4, <2>5, QuietWrite
<1>7. ASSUME AfterData(w)
      PROVE  \E x \in WriterT : /\ writer' = [writer EXCEPT ![w] = x]
                               /\ x.pc \notin {"publish", "data"}
  <2>1. CASE writer[w].parity = << >>
    <3>1. writer' = [writer EXCEPT ![w] = Idle]  BY <1>7, <2>1 DEF AfterData
    <3>2. Idle \in WriterT /\ Idle.pc = "idle"  BY DEF Idle, WriterT, NoControl, ControlT
    <3>3. QED  BY <3>1, <3>2
  <2>2. CASE writer[w].parity # << >>
    <3> DEFINE x == [writer[w] EXCEPT !.pc = "parity"]
    <3>1. writer' = [writer EXCEPT ![w] = x]  BY <1>7, <2>2 DEF AfterData
    <3>2. x \in WriterT /\ x.pc = "parity"  BY <1>1 DEF WriterT
    <3> HIDE DEF x
    <3>3. QED  BY <3>1, <3>2
  <2>3. QED  BY <2>1, <2>2
<1>8. CASE DropData(w)
  <2>1. /\ AfterData(w)
        /\ UNCHANGED <<up, fenceGen, txSeq, enc, mode, chan, refused, fence>>
    BY <1>8 DEF DropData, rxVars
  <2>2. PICK x \in WriterT : /\ writer' = [writer EXCEPT ![w] = x]
                             /\ x.pc \notin {"publish", "data"}
    BY <1>7, <2>1
  <2>3. TypeInv'  BY <2>1, <2>2 DEF TypeInv
  <2>4. BackendsAnnounced'  BY <2>1 DEF BackendsAnnounced
  <2>5. QED  BY <2>1, <2>2, <2>3, <2>4, QuietWrite
<1>9. CASE SendParity(w)
  <2>1. /\ writer' = [writer EXCEPT ![w] = Idle]
        /\ UNCHANGED <<up, fenceGen, txSeq, enc, mode, refused, fence>>
    BY <1>9 DEF SendParity, rxVars
  <2>2. Idle \in WriterT /\ Idle.pc = "idle"  BY DEF Idle, WriterT, NoControl, ControlT
  <2>3. CASE UNCHANGED chan
    <3>1. TypeInv'  BY <2>1, <2>2, <2>3 DEF TypeInv
    <3>2. BackendsAnnounced'  BY <2>1, <2>3 DEF BackendsAnnounced
    <3>3. QED  BY <2>1, <2>2, <2>3, <3>1, <3>2, QuietWrite
  <2>4. CASE \E b \in up : Enqueue(b, Parity(writer[w].parity))
    <3>1. PICK b \in up : Enqueue(b, Parity(writer[w].parity))  BY <2>4
    <3>2. b \in Backends  BY DEF TypeInv
    <3>3. /\ Parity(writer[w].parity) \in RecordT
          /\ Parity(writer[w].parity).kind = "parity"
      BY <1>2, RecordsTyped
    <3>4. QED  BY <2>1, <2>2, <3>1, <3>2, <3>3, LoudWrite
  <2>5. QED  BY <1>9, <2>3, <2>4 DEF SendParity
<1>10. ASSUME NEW b \in Backends, SendControl(w, b)  PROVE IInv'
  <2> DEFINE x == [writer[w] EXCEPT !.pc = "publish", !.at = b]
             r == Control(writer[w].control)
  <2>1. /\ b \in up
        /\ Enqueue(b, r)
        /\ writer' = [writer EXCEPT ![w] = x]
        /\ UNCHANGED <<up, fenceGen, txSeq, enc, mode, refused, fence>>
    BY <1>10 DEF SendControl, rxVars
  <2>2. x \in WriterT /\ x.at = b /\ x.control = writer[w].control  BY <1>1 DEF WriterT
  <2>3. r \in RecordT /\ r.kind = "control" /\ r.gen = writer[w].control.gen
    BY <1>2, RecordsTyped
  <2> HIDE DEF x, r
  <2>4. QED  BY <2>1, <2>2, <2>3, LoudWrite
<1>11. ASSUME NEW b \in Backends, SendData(w, b)  PROVE IInv'
  <2> DEFINE r == Data(writer[w].seq, writer[w].control.gen)
  <2>1. /\ Enqueue(b, r)
        /\ AfterData(w)
        /\ UNCHANGED <<up, fenceGen, txSeq, enc, mode, refused, fence>>
    BY <1>11 DEF SendData, rxVars
  <2>2. PICK x \in WriterT : /\ writer' = [writer EXCEPT ![w] = x]
                             /\ x.pc \notin {"publish", "data"}
    BY <1>7, <2>1
  <2>3. r \in RecordT /\ r.kind = "data" /\ r.gov = writer[w].control.gen
    BY <1>2, RecordsTyped
  <2>4. ASSUME b \notin refused
        PROVE  Announced(chan[b], fence.gen, writer[w].control.gen)
    <3>1. CASE writer[w].pc = "data" /\ b = writer[w].at
      BY <2>4, <3>1 DEF WritersAnnounced
    <3>2. CASE b \in up /\ ~Behind(w, b)
      <4>1. Announced(chan[b], fence.gen, fenceGen[b])  BY <2>4, <3>2 DEF BackendsAnnounced
      <4>2. writer[w].control.gen <= fenceGen[b] /\ fenceGen[b] \in Nat
        BY <1>2, <3>2 DEF Behind, TypeInv
      <4>3. chan[b] \in Seq(RecordT) /\ fence.gen \in Nat  BY DEF TypeInv
      <4>4. QED  BY <1>2, <4>1, <4>2, <4>3, AnnouncedLower
    <3>3. QED  BY <1>11, <3>1, <3>2 DEF SendData
  <2> HIDE DEF r
  <2>5. QED  BY <2>1, <2>2, <2>3, <2>4, LoudWrite
<1>12. QED  BY <1>3, <1>4, <1>5, <1>6, <1>8, <1>9, <1>10, <1>11 DEF Write

\* Every record process_item reads keeps the invariant.
LEMMA ReceiveStep ==
    ASSUME IInv, NEW b \in Backends, Receive(b)
    PROVE  IInv'
<1> USE DEF IInv
<1>1. ASSUME chan[b] # << >>, Pop(b), UNCHANGED <<up, fenceGen, txSeq, enc, mode, writer, refused>>,
             fence'.gen \in Nat, fence.gen <= fence'.gen,
             Head(chan[b]).kind = "control" => Head(chan[b]).gen <= fence'.gen
      PROVE  IInv'
  <2>1. /\ chan' \in [Backends -> Seq(RecordT)]
        /\ StreamsGoverned'
        /\ \A c \in Backends, g \in Nat :
               Announced(chan[c], fence.gen, g) => Announced(chan'[c], fence'.gen, g)
    BY <1>1, PopStep
  <2>2. TypeInv'  BY <1>1, <2>1 DEF TypeInv
  <2>3. BackendsAnnounced'
    <3>1. \A c \in up : c \in Backends /\ fenceGen[c] \in Nat  BY DEF TypeInv
    <3>2. QED  BY <1>1, <2>1, <3>1 DEF BackendsAnnounced
  <2>4. WritersAnnounced'
    <3>1. \A v \in Writers : writer[v].control.gen \in Nat  BY DEF TypeInv, WriterT, ControlT
    <3>2. up \subseteq Backends  BY DEF TypeInv
    <3>3. QED  BY <1>1, <2>1, <3>1, <3>2 DEF WritersAnnounced
  <2>5. QED  BY <2>1, <2>2, <2>3, <2>4
<1>2. CASE RxData(b)
  <2>1. /\ chan[b] # << >> /\ Pop(b) /\ Head(chan[b]).kind = "data"
        /\ UNCHANGED <<up, fenceGen, txSeq, enc, mode, writer, refused, fence>>
    BY <1>2 DEF RxData, Head1, sendVars
  <2>2. QED  BY <1>1, <2>1 DEF TypeInv
<1>3. CASE RxParity(b) /\ ValidDescriptor(Head(chan[b]).members)
  <2>1. /\ chan[b] # << >> /\ Pop(b) /\ Head(chan[b]).kind = "parity"
        /\ UNCHANGED <<up, fenceGen, txSeq, enc, mode, writer, refused, fence>>
    BY <1>3 DEF RxParity, AcceptParity, Head1, sendVars
  <2>2. QED  BY <1>1, <2>1 DEF TypeInv
<1>4. CASE RxControl(b)
  <2>1. /\ chan[b] # << >> /\ Pop(b) /\ Head(chan[b]).kind = "control"
        /\ fence' = ApplyControl(Head(chan[b]))
        /\ UNCHANGED <<up, fenceGen, txSeq, enc, mode, writer, refused>>
    BY <1>4 DEF RxControl, Head1, sendVars
  <2>2. Head(chan[b]).gen \in Nat
    <3>1. Head(chan[b]) \in RecordT  BY <2>1 DEF TypeInv
    <3>2. QED  BY <2>1, <3>1, RecordFields
  <2>3. fence.gen \in Nat  BY DEF TypeInv
  <2>4. QED  BY <1>1, <2>1, <2>2, <2>3, ApplyGeneration
<1>5. CASE RxParity(b) /\ ~ValidDescriptor(Head(chan[b]).members)
  <2>1. /\ chan' = [chan EXCEPT ![b] = << >>]
        /\ refused' = refused \cup {b}
        /\ UNCHANGED <<up, fenceGen, txSeq, enc, mode, writer, fence>>
    BY <1>5 DEF RxParity, RefuseParity, sendVars, rxVars
  <2>2. chan'[b] = << >> /\ \A c \in Backends : c # b => chan'[c] = chan[c]
    BY <2>1 DEF TypeInv
  <2>3. TypeInv'  BY <2>1 DEF TypeInv
  <2>4. StreamsGoverned'  BY <2>1, <2>2 DEF StreamsGoverned, Governed
  <2>5. BackendsAnnounced'  BY <2>1, <2>2 DEF BackendsAnnounced, TypeInv
  <2>6. WritersAnnounced'
    <3>1. up \subseteq Backends  BY DEF TypeInv
    <3>2. QED  BY <2>1, <2>2, <3>1 DEF WritersAnnounced
  <2>7. QED  BY <2>3, <2>4, <2>5, <2>6
<1>6. QED  BY <1>2, <1>3, <1>4, <1>5 DEF Receive

\* The invariant is inductive.
LEMMA NextIInv == IInv /\ [Next]_vars => IInv'
<1> SUFFICES ASSUME IInv, [Next]_vars PROVE IInv'  OBVIOUS
<1>1. ASSUME NEW b \in Backends, RegisterBackend(b) \/ UnregisterBackend(b)  PROVE IInv'
  BY <1>1, TopologyStep
<1>2. ASSUME NEW w \in Writers, Write(w)  PROVE IInv'  BY <1>2, WriteStep
<1>3. ASSUME NEW b \in Backends, Receive(b)  PROVE IInv'  BY <1>3, ReceiveStep
<1>4. CASE GapTimeout
  BY <1>4
  DEF GapTimeout, sendVars, IInv, TypeInv, StreamsGoverned, BackendsAnnounced, WritersAnnounced
<1>5. CASE UNCHANGED vars
  BY <1>5
  DEF vars, sendVars, rxVars, IInv, TypeInv, StreamsGoverned, BackendsAnnounced, WritersAnnounced
<1>6. QED  BY <1>1, <1>2, <1>3, <1>4, <1>5 DEF Next

(***************************************************************************)
(* The invariant holds of every reachable state, for any backends, any     *)
(* threads that call write_payload and any number of lost connections.     *)
(***************************************************************************)
THEOREM FenceInvariant == Spec => []IInv
BY InitIInv, NextIInv, PTL DEF Spec

(***************************************************************************)
(* "A backend MUST receive the current FEC_MODE generation before its      *)
(* first governed data record" (docs/protocol_v3.md, section 10.4): the    *)
(* order of try_send_payload_to_fenced is enough, without a lock around    *)
(* control, recorded generation and data.                                  *)
(***************************************************************************)
THEOREM GovernedDataFenced == Spec => []FenceBeforeGoverned
<1>1. IInv => FenceBeforeGoverned
  BY DEF IInv, StreamsGoverned, Governed, FenceBeforeGoverned, ControlBefore
<1>2. QED  BY <1>1, FenceInvariant, PTL

(***************************************************************************)
(* The repair properties, when one thread writes to the port.              *)
(*                                                                         *)
(* The invariant follows a group from the encoder to the decoder:          *)
(*   SenderInv    an armed encoder has exactly the part of the group that  *)
(*                was sent, so a parity record is a whole arithmetic group;*)
(*                a SUSPEND names the start of a group;                    *)
(*   StreamInv    the records in the streams are such records;             *)
(*   ReceiverInv  a decoder group has members of its own only, what lies   *)
(*                below the retired boundary is empty, and the output has  *)
(*                reached that boundary, unless it ran through the last    *)
(*                sequence of the epoch;                                   *)
(*   GroupInv     a group sent before the first SUSPEND is complete, given *)
(*                up, retired, or has all that was read of it and lacks    *)
(*                more than the repair could give.                         *)
(***************************************************************************)
\* One thread writes to the port, as on the client (its TAP reader).
SingleWriter == \A v, w \in Writers : v = w

\* s starts a group.
Aligned(s) == s \in Nat \ {0} /\ (s - 1) % K = 0

\* m is the run of n sequences from s on.
IsRun(m, s, n) == m \in Seq(Int) /\ Len(m) = n /\ \A i \in 1..n : m[i] = s + i - 1

\* m lists the members of the group that starts at s.
IsGroup(m, s) == Aligned(s) /\ s + K - 1 <= MaxSeq /\ IsRun(m, s, K)

\* The sequence that the encoder sees next: those in between went to nobody else.
Upcoming(x, n) == IF x.pc = "encode" THEN x.seq ELSE n + 1

\* An armed encoder has the part of the group that was sent before n.
EncOK(e, n) ==
    /\ ~e.armed => e.members = << >>
    /\ ~e.multipath => ~e.armed
    /\ e.armed => IsRun(e.members, GroupStart(n), n - GroupStart(n))

\* A SUSPEND names the start of a group, none before the first one.
ControlOK(c, first) ==
    c.op = "suspend" => Aligned(c.boundary) /\ first # 0 /\ first <= c.boundary

WriterOK(x, first) ==
    /\ x.pc # "idle" => x.seq \in Seqs
    /\ x.pc = "parity" => x.parity # << >>
    /\ x.parity # << >> => \E s \in Starts : IsGroup(x.parity, s)
    /\ ControlOK(x.control, first)

SenderInv ==
    /\ txSeq \in 0..MaxSeq
    /\ firstSuspend \in Nat
    /\ firstSuspend # 0 => Aligned(firstSuspend) /\ firstSuspend <= txSeq
    /\ mode.suspended => firstSuspend # 0
    /\ ControlOK(mode.current, firstSuspend)
    /\ \A w \in Writers :
         /\ WriterOK(writer[w], firstSuspend)
         /\ writer[w].pc = "encode" => writer[w].seq = txSeq
         /\ EncOK(enc, Upcoming(writer[w], txSeq))

RecordOK(r, first) ==
    /\ r.kind = "data" => r.seq \in Seqs
    /\ r.kind = "parity" => \E s \in Starts : IsGroup(r.members, s)
    /\ r.kind = "control" => ControlOK(r, first)

StreamInv == \A b \in Backends : \A i \in 1..Len(chan[b]) : RecordOK(chan[b][i], firstSuspend)

Frames == [seq : Int, body : SUBSET Int, length : Int]

DecT == [got : [Starts -> SUBSET Int], par : [Starts -> Seq(Int)],
         done : [0..DoneSlots - 1 -> Int], cleanup : Nat, retired : Nat,
         out : SUBSET Frames, evicted : SUBSET Int]

\* Groups hold their own members; what is retired holds nothing.
DecOK(d) ==
    /\ d \in DecT
    /\ d.retired <= d.cleanup
    /\ d.retired # 0 => Aligned(d.retired)
    /\ d.cleanup # 0 => Aligned(d.cleanup)
    /\ \A s \in Starts :
         /\ d.got[s] \subseteq Members(s)
         /\ d.par[s] # << >> => IsGroup(d.par[s], s)
         /\ s < d.retired => d.got[s] = {} /\ d.par[s] = << >>

Rebuilt == {f.seq : f \in recovered}

\* What is held lies behind the position; what was taken was received or rebuilt.
ReorderOK(r) ==
    /\ r \in [expected : 0..MaxSeq, held : SUBSET Seqs]
    /\ \A n \in r.held : r.expected < n
    /\ r.expected = 0 => r.held = {}

ReceiverInv ==
    /\ DecOK(dec)
    /\ ReorderOK(reorder) /\ reorder.held \subseteq rxData \cup Rebuilt
    /\ reorder.expected >= dec.retired \/ EpochOver
    /\ fence \in [gen : Nat, from : Nat, until : Int]
    /\ fence.from # 0 => Aligned(fence.from) /\ firstSuspend # 0 /\ firstSuspend <= fence.from
    /\ rxData \subseteq Seqs /\ rxParity \subseteq Starts

\* A group is complete, given up, behind the output, or has all that was read of
\* it and is not yet ripe for a repair.
GroupOK(d, s, data, rebuilt, parity) ==
    \/ Members(s) \subseteq data \cup rebuilt
    \/ s \in d.evicted
    \/ s < d.retired
    \/ /\ d.got[s] = data \cap Members(s)
       /\ s \in parity => d.par[s] # << >>
       /\ d.par[s] # << >> => Cardinality(Members(s) \ d.got[s]) # 1

\* What the groups of d owe to the data and the parity that were read, the frames
\* that were rebuilt, and the first SUSPEND: before it, every group is repaired.
Groups(d, data, rebuilt, parity, first) ==
    \A s \in Starts :
        /\ IsDone(d, s) => Members(s) \subseteq data \cup rebuilt
        /\ d.got[s] \subseteq data
        /\ first = 0 \/ s < first => GroupOK(d, s, data, rebuilt, parity)

GroupInv == Groups(dec, rxData, Rebuilt, rxParity, firstSuspend)

RepairInv == IInv /\ SenderInv /\ StreamInv /\ ReceiverInv /\ GroupInv /\ RecoveredIsSent

-----------------------------------------------------------------------------
(* Groups of K sequences *)

\* A multiple of K that is smaller than K in absolute value is 0.
LEMMA SmallMultiple ==
    ASSUME NEW q \in Int, K * q < K, -K < K * q
    PROVE  q = 0
<1>1. K \in Nat /\ K >= 2 BY FecAssumption
<1>2. ~(q >= 1)
  <2> SUFFICES ASSUME q >= 1 PROVE FALSE
    OBVIOUS
  <2>1. K * q >= K BY <1>1
  <2> QED BY <1>1, <2>1
<1>3. ~(q <= -1)
  <2> SUFFICES ASSUME q <= -1 PROVE FALSE
    OBVIOUS
  <2>1. K * q <= -K BY <1>1
  <2> QED BY <1>1, <2>1
<1> QED BY <1>2, <1>3

\* Division with remainder, by any divisor and by K.
LEMMA DivisionBy ==
    ASSUME NEW a \in Nat, NEW n \in Nat \ {0}
    PROVE  a % n \in 0..n - 1 /\ a \div n \in Nat /\ a = n * (a \div n) + (a % n)
<1>1. a = n * (a \div n) + (a % n) OBVIOUS
<1>2. a % n \in 0..n - 1 OBVIOUS
<1>3. a \div n \in Nat OBVIOUS
<1> QED BY <1>1, <1>2, <1>3

\* Division with remainder by K.
LEMMA Division ==
    ASSUME NEW a \in Nat
    PROVE  a % K \in 0..K - 1 /\ a \div K \in Nat /\ a = K * (a \div K) + (a % K)
<1>1. PICK n \in Nat \ {0} : n = K BY FecAssumption
<1>2. a % n \in 0..n - 1 /\ a \div n \in Nat /\ a = n * (a \div n) + (a % n) BY DivisionBy
<1> QED BY <1>1, <1>2

\* A multiple leaves no remainder.
LEMMA MultipleMod ==
    ASSUME NEW q \in Nat
    PROVE  K * q \in Nat /\ (K * q) % K = 0
<1>1. K \in Nat /\ K >= 2 BY FecAssumption
<1>2. PICK a \in Nat : a = K * q
  <2>1. K * q \in Nat BY <1>1
  <2> QED BY <2>1
<1>3. a % K \in 0..K - 1 /\ a \div K \in Nat /\ a = K * (a \div K) + (a % K) BY Division
<1>4. PICK p \in Int : p = q - (a \div K) BY <1>3
<1>5. a % K = K * p BY <1>1, <1>2, <1>3, <1>4
<1>6. p = 0 BY <1>1, <1>3, <1>5, SmallMultiple
<1> QED BY <1>1, <1>2, <1>5, <1>6

\* Two starts are a group apart.
LEMMA AlignedApart ==
    ASSUME NEW r, NEW s, Aligned(r), Aligned(s), r < s
    PROVE  r + K <= s
<1>1. K \in Nat /\ K >= 2 BY FecAssumption
<1>2. PICK a, b \in Nat : a = r - 1 /\ b = s - 1 /\ a % K = 0 /\ b % K = 0 BY DEF Aligned
<1>3. /\ a \div K \in Nat /\ a = K * (a \div K) + (a % K)
      /\ b \div K \in Nat /\ b = K * (b \div K) + (b % K)
  BY Division
<1>4. PICK x, y \in Nat : x = a \div K /\ y = b \div K BY <1>3
<1>5. PICK p \in Int : p = y - x OBVIOUS
<1>6. a = K * x /\ b = K * y
  <2>1. a = K * x + 0 /\ b = K * y + 0 BY <1>2, <1>3, <1>4
  <2>2. K * x \in Int /\ K * y \in Int BY <1>1
  <2> QED BY <2>1, <2>2
<1>7. b - a = K * p BY <1>1, <1>5, <1>6
<1>8. b > a /\ r \in Nat /\ s \in Nat BY <1>2 DEF Aligned
<1>9. CASE p >= 1
  <2>1. K * p >= K BY <1>1, <1>9
  <2> QED BY <1>1, <1>2, <1>7, <1>8, <2>1
<1>10. CASE p <= 0
  <2>1. K * p <= 0 BY <1>1, <1>10
  <2> QED BY <1>1, <1>2, <1>7, <1>8, <2>1
<1> QED BY <1>9, <1>10

\* The group of a sequence.
LEMMA GroupForm ==
    ASSUME NEW n \in Nat \ {0}
    PROVE  /\ GroupStart(n) \in 1..n /\ n <= GroupStart(n) + K - 1
           /\ Aligned(GroupStart(n)) /\ (n - 1) % K = n - GroupStart(n)
<1>1. K \in Nat /\ K >= 2 BY FecAssumption
<1>2. PICK a \in Nat : a = n - 1 OBVIOUS
<1>3. a % K \in 0..K - 1 /\ a \div K \in Nat /\ a = K * (a \div K) + (a % K) BY Division
<1>4. PICK q \in Nat : q = a \div K BY <1>3
<1>5. K * q \in Nat /\ (K * q) % K = 0 BY MultipleMod
<1>6. GroupStart(n) = n - (a % K) BY <1>2 DEF GroupStart
<1>7. GroupStart(n) - 1 = K * q BY <1>1, <1>2, <1>3, <1>4, <1>5, <1>6
<1>8. GroupStart(n) \in 1..n BY <1>1, <1>2, <1>3, <1>5, <1>6, <1>7
<1>9. n <= GroupStart(n) + K - 1 BY <1>1, <1>3, <1>6
<1>10. Aligned(GroupStart(n)) BY <1>5, <1>7, <1>8 DEF Aligned
<1>11. (n - 1) % K = n - GroupStart(n) BY <1>2, <1>3, <1>6
<1> QED BY <1>8, <1>9, <1>10, <1>11

\* A sequence between two starts belongs to the first of them.
LEMMA GroupOf ==
    ASSUME NEW s, Aligned(s), NEW n \in Int, s <= n, n <= s + K - 1
    PROVE  n \in Nat \ {0} /\ GroupStart(n) = s
<1>1. K \in Nat /\ K >= 2 /\ s \in Nat \ {0} BY FecAssumption DEF Aligned
<1>2. n \in Nat \ {0} BY <1>1
<1>3. PICK g : g = GroupStart(n) OBVIOUS
<1>4. g \in 1..n /\ n <= g + K - 1 /\ Aligned(g) BY <1>2, <1>3, GroupForm
<1>5. ~(g < s)
  <2>1. g < s => g + K <= s BY <1>4, AlignedApart
  <2> QED BY <1>1, <1>4, <2>1
<1>6. ~(s < g)
  <2>1. s < g => s + K <= g BY <1>4, AlignedApart
  <2> QED BY <1>1, <1>4, <2>1
<1> QED BY <1>1, <1>2, <1>3, <1>4, <1>5, <1>6

\* A start that is not behind a sequence is not behind its group.
LEMMA GroupFloor ==
    ASSUME NEW r, Aligned(r), NEW n \in Nat \ {0}, r <= n
    PROVE  r <= GroupStart(n)
<1>1. K \in Nat /\ K >= 2 /\ r \in Nat \ {0} BY FecAssumption DEF Aligned
<1>2. PICK g : g = GroupStart(n) OBVIOUS
<1>3. g \in 1..n /\ n <= g + K - 1 /\ Aligned(g) BY <1>2, GroupForm
<1>4. g < r => g + K <= r BY <1>3, AlignedApart
<1> QED BY <1>1, <1>2, <1>3, <1>4

\* The group after a complete one.
LEMMA AlignedNext ==
    ASSUME NEW s, Aligned(s)
    PROVE  Aligned(s + K)
<1>1. K \in Nat /\ K >= 2 /\ s \in Nat \ {0} BY FecAssumption DEF Aligned
<1>2. PICK a \in Nat : a = s - 1 /\ a % K = 0 BY <1>1 DEF Aligned
<1>3. a \div K \in Nat /\ a = K * (a \div K) + (a % K) BY Division
<1>4. PICK q, p \in Nat : q = a \div K /\ p = q + 1 BY <1>3
<1>5. K * p \in Nat /\ (K * p) % K = 0 BY MultipleMod
<1>6. K * p = K * q + K BY <1>1, <1>4
<1>7. (s + K) - 1 = K * p BY <1>1, <1>2, <1>3, <1>4, <1>6
<1> QED BY <1>1, <1>5, <1>7 DEF Aligned

\* Starts are the aligned sequences of the epoch.
LEMMA StartsForm ==
    /\ \A s \in Starts : Aligned(s) /\ s \in Nat \ {0} /\ s <= MaxSeq
    /\ \A n \in Seqs : GroupStart(n) \in Starts
    /\ \A s : Aligned(s) /\ s <= MaxSeq => s \in Starts
<1>1. K \in Nat /\ K >= 2 /\ MaxSeq \in Nat BY FecAssumption
<1>2. ASSUME NEW s \in Starts PROVE Aligned(s) /\ s \in Nat \ {0} /\ s <= MaxSeq
  <2>1. PICK n \in Seqs : s = GroupStart(n) BY DEF Starts
  <2>2. n \in Nat \ {0} /\ n <= MaxSeq BY <1>1 DEF Seqs
  <2>3. s \in 1..n /\ Aligned(s) BY <2>1, <2>2, GroupForm
  <2> QED BY <1>1, <2>2, <2>3
<1>3. ASSUME NEW s, Aligned(s), s <= MaxSeq PROVE s \in Starts
  <2>1. s \in Nat \ {0} BY <1>3 DEF Aligned
  <2>2. s <= s + K - 1 BY <1>1, <2>1
  <2>3. GroupStart(s) = s BY <1>3, <2>1, <2>2, GroupOf
  <2>4. s \in Seqs BY <1>1, <1>3, <2>1 DEF Seqs
  <2> QED BY <2>3, <2>4 DEF Starts
<1> QED BY <1>2, <1>3 DEF Starts

\* Groups do not overlap.
LEMMA MembersApart ==
    ASSUME NEW s \in Starts, NEW t \in Starts, NEW n \in Members(s), n \in Members(t)
    PROVE  s = t
<1>1. K \in Nat /\ Aligned(s) /\ Aligned(t) /\ s \in Nat /\ t \in Nat BY StartsForm, FecAssumption
<1>2. n \in Int /\ s <= n /\ n <= s + K - 1 /\ t <= n /\ n <= t + K - 1 BY <1>1 DEF Members
<1>3. GroupStart(n) = s BY <1>1, <1>2, GroupOf
<1>4. GroupStart(n) = t BY <1>1, <1>2, GroupOf
<1> QED BY <1>3, <1>4

-----------------------------------------------------------------------------
(* The sender *)

EncT == [members : Seq(Int), multipath : BOOLEAN, armed : BOOLEAN]
ModeT == [seen : BOOLEAN, suspended : BOOLEAN, gen : Nat, current : ControlT]

\* FecEncoder: after n, whatever the number of paths became, the encoder has the
\* part of a group that was sent before n + 1, and its parity is a whole group.
LEMMA EncodeForm ==
    ASSUME NEW e \in EncT, NEW n \in Seqs, EncOK(e, n), NEW paths,
           NEW r, r = Add(SetPhysicalPathCount(e, paths), n)
    PROVE  /\ EncOK(r.enc, n + 1)
           /\ r.parity # << >> => \E s \in Starts : IsGroup(r.parity, s)
<1>0. K \in Nat /\ K >= 2 /\ MaxSeq \in Nat /\ n \in Nat \ {0} /\ n <= MaxSeq
  BY FecAssumption DEF Seqs
<1>1. PICK x \in EncT : x = SetPhysicalPathCount(e, paths)
  <2>1. SetPhysicalPathCount(e, paths) \in EncT BY DEF SetPhysicalPathCount, EncT
  <2> QED BY <2>1
<1>2. EncOK(x, n)
  <2>1. CASE x = e BY <2>1
  <2>2. CASE x # e
    <3>1. x = [members |-> IF paths >= 2 THEN e.members ELSE << >>,
               multipath |-> paths >= 2, armed |-> FALSE] /\ (paths >= 2) # e.multipath
      BY <1>1, <2>2 DEF SetPhysicalPathCount
    <3>2. paths >= 2 => e.members = << >> BY <3>1 DEF EncOK, EncT
    <3>3. x.members = << >> /\ ~x.armed BY <3>1, <3>2
    <3> QED BY <3>3 DEF EncOK
  <2> QED BY <2>1, <2>2
<1>3. PICK g : g = GroupStart(n) OBVIOUS
<1>4. /\ g \in 1..n /\ n <= g + K - 1 /\ Aligned(g) /\ (n - 1) % K = n - g /\ g \in Starts
  BY <1>0, <1>3, GroupForm, StartsForm
<1>5. r = Add(x, n) BY <1>1
<1>6. CASE ~x.multipath \/ (~x.armed /\ (n - 1) % K # 0)
  <2>1. r = [enc |-> x, parity |-> << >>] BY <1>5, <1>6 DEF Add
  <2>2. ~x.armed BY <1>2, <1>6 DEF EncOK
  <2>3. EncOK(x, n + 1) BY <1>2, <2>2 DEF EncOK
  <2> QED BY <2>1, <2>3
<1>7. CASE ~(~x.multipath \/ (~x.armed /\ (n - 1) % K # 0))
  <2> DEFINE m == Append(x.members, n)
  <2>1. IsRun(x.members, g, n - g)
    <3>1. CASE x.armed BY <1>2, <1>3, <3>1 DEF EncOK
    <3>2. CASE ~x.armed
      <4>1. x.members = << >> /\ n - g = 0 BY <1>0, <1>2, <1>4, <1>7, <3>2 DEF EncOK
      <4> QED BY <4>1 DEF IsRun
    <3> QED BY <3>1, <3>2
  <2>2. IsRun(m, g, n - g + 1)
    <3>1. PICK y \in Seq(Int) : y = x.members BY DEF EncT
    <3>2. Len(y) = n - g /\ \A i \in 1..n - g : y[i] = g + i - 1 BY <2>1, <3>1 DEF IsRun
    <3>3. /\ Append(y, n) \in Seq(Int) /\ Len(Append(y, n)) = Len(y) + 1
          /\ Append(y, n)[Len(y) + 1] = n /\ \A i \in 1..Len(y) : Append(y, n)[i] = y[i]
      BY <1>0
    <3>4. ASSUME NEW i \in 1..n - g + 1 PROVE Append(y, n)[i] = g + i - 1
      <4>1. CASE i \in 1..n - g
        <5>1. i \in 1..Len(y) BY <3>2, <4>1
        <5>2. Append(y, n)[i] = y[i] BY <3>3, <5>1
        <5> QED BY <3>2, <4>1, <5>2
      <4>2. CASE i = n - g + 1 BY <1>0, <1>4, <3>2, <3>3, <4>2
      <4>3. i \in 1..n - g \/ i = n - g + 1 BY <1>0, <1>4
      <4> QED BY <4>1, <4>2, <4>3
    <3> QED BY <3>1, <3>2, <3>3, <3>4 DEF IsRun
  <2>3. Len(m) = n - g + 1 BY <2>2 DEF IsRun
  <2> HIDE DEF m
  <2>4. CASE Len(m) < K
    <3>1. r = [enc |-> [members |-> m, multipath |-> TRUE, armed |-> TRUE], parity |-> << >>]
      BY <1>5, <1>7, <2>4 DEF Add, m
    <3>2. g <= n + 1 /\ n + 1 <= g + K - 1 /\ n + 1 \in Int BY <1>0, <1>4, <2>3, <2>4
    <3>3. GroupStart(n + 1) = g BY <1>4, <3>2, GroupOf
    <3>4. (n + 1) - g = n - g + 1 BY <1>0, <1>4
    <3>5. IsRun(m, GroupStart(n + 1), (n + 1) - GroupStart(n + 1)) BY <2>2, <3>3, <3>4
    <3> QED BY <3>1, <3>5 DEF EncOK
  <2>5. CASE ~(Len(m) < K)
    <3>1. r = [enc |-> [members |-> << >>, multipath |-> TRUE, armed |-> TRUE], parity |-> m]
      BY <1>5, <1>7, <2>5 DEF Add, m
    <3>2. n - g + 1 = K /\ g + K = n + 1 /\ n + 1 \in Int BY <1>0, <1>4, <2>3, <2>5
    <3>3. Aligned(n + 1) BY <1>4, <3>2, AlignedNext
    <3>4. GroupStart(n + 1) = n + 1
      <4>1. n + 1 <= n + 1 /\ n + 1 <= (n + 1) + K - 1 BY <1>0
      <4> QED BY <3>2, <3>3, <4>1, GroupOf
    <3>5. (n + 1) - (n + 1) = 0 BY <1>0
    <3>6. IsRun(<< >>, n + 1, 0) BY DEF IsRun
    <3>7. EncOK(r.enc, n + 1) BY <3>1, <3>4, <3>5, <3>6 DEF EncOK
    <3>8. IsGroup(m, g) BY <1>0, <1>4, <2>2, <3>2 DEF IsGroup
    <3> QED BY <1>4, <3>1, <3>7, <3>8
  <2> QED BY <2>4, <2>5
<1> QED BY <1>6, <1>7

\* The mode goes from m to x at sequence n: it stays, resumes, or suspends at the
\* start of the group.
ModeMoves(m, x, n) ==
    \/ x.suspended = m.suspended /\ x.current = m.current
    \/ x.suspended = FALSE /\ x.current.op = "resume"
    \/ x.suspended = TRUE /\ x.current.op = "suspend" /\ x.current.boundary = GroupStart(n)

\* What FecTxModeState::observe returns.
LEMMA ObserveForm ==
    ASSUME NEW m \in ModeT, NEW paths, NEW n, NEW x, x = Observe(m, paths, n)
    PROVE  ModeMoves(m, x, n)
BY DEF Observe, ModeT, ModeMoves

\* The first SUSPEND stays the first.
LEMMA ControlKept ==
    ASSUME NEW f, NEW g, f # 0 => g = f, NEW c, ControlOK(c, f)
    PROVE  ControlOK(c, g)
BY DEF ControlOK

\* So does a write under way that carries the control.
LEMMA WriterKept ==
    ASSUME NEW f, NEW g, f # 0 => g = f, NEW x, WriterOK(x, f)
    PROVE  WriterOK(x, g)
<1>1. ControlOK(x.control, g) BY ControlKept DEF WriterOK
<1> QED BY <1>1 DEF WriterOK

\* A thread goes on outside the encoder's critical section.
LEMMA WriterMoves ==
    ASSUME TypeInv, SenderInv, NEW w \in Writers, NEW x, writer' = [writer EXCEPT ![w] = x],
           WriterOK(x, firstSuspend), x.pc # "encode", writer[w].pc # "encode",
           UNCHANGED <<txSeq, enc, mode, firstSuspend>>
    PROVE  SenderInv'
<1>1. writer'[w] = x /\ \A v \in Writers \ {w} : writer'[v] = writer[v] BY DEF TypeInv
<1>2. txSeq' = txSeq /\ enc' = enc /\ mode' = mode /\ firstSuspend' = firstSuspend OBVIOUS
<1>3. ASSUME NEW v \in Writers
      PROVE  /\ WriterOK(writer'[v], firstSuspend')
             /\ writer'[v].pc = "encode" => writer'[v].seq = txSeq'
             /\ EncOK(enc', Upcoming(writer'[v], txSeq'))
  <2>1. /\ WriterOK(writer[v], firstSuspend) /\ (writer[v].pc = "encode" => writer[v].seq = txSeq)
        /\ EncOK(enc, Upcoming(writer[v], txSeq))
    BY DEF SenderInv
  <2>2. CASE v = w
    <3>1. Upcoming(x, txSeq) = Upcoming(writer[w], txSeq) BY DEF Upcoming
    <3> QED BY <1>1, <1>2, <2>1, <2>2, <3>1
  <2>3. CASE v # w BY <1>1, <1>2, <2>1, <2>3
  <2> QED BY <2>2, <2>3
<1> QED BY <1>2, <1>3 DEF SenderInv

\* Steps of the receiver and of the topology leave the sender alone.
LEMMA SenderQuiet ==
    ASSUME SenderInv, UNCHANGED <<txSeq, enc, mode, writer, firstSuspend>>
    PROVE  SenderInv'
BY DEF SenderInv

\* write_payload takes the next sequence.
LEMMA SenderNextSeq ==
    ASSUME SingleWriter, TypeInv, SenderInv, NEW w \in Writers, NextSeq(w)
    PROVE  SenderInv'
<1>0. MaxSeq \in Nat BY FecAssumption
<1>1. CASE txSeq = MaxSeq BY <1>1, SenderQuiet DEF NextSeq, histVars
<1>2. CASE txSeq # MaxSeq
  <2>1. /\ writer[w].pc = "idle" /\ txSeq' = txSeq + 1
        /\ writer' = [writer EXCEPT ![w].pc = "encode", ![w].seq = txSeq + 1]
        /\ enc' = enc /\ mode' = mode /\ firstSuspend' = firstSuspend
    BY <1>2 DEF NextSeq, histVars
  <2>2. txSeq \in 0..MaxSeq BY DEF SenderInv
  <2>3. txSeq + 1 \in Seqs /\ txSeq' \in 0..MaxSeq BY <1>0, <1>2, <2>1, <2>2 DEF Seqs
  <2>4. PICK x : x = writer'[w] OBVIOUS
  <2>5. /\ x.pc = "encode" /\ x.seq = txSeq + 1
        /\ x.control = writer[w].control /\ x.parity = writer[w].parity
    BY <2>1, <2>4 DEF TypeInv, WriterT
  <2>6. /\ WriterOK(writer[w], firstSuspend) /\ EncOK(enc, Upcoming(writer[w], txSeq))
    BY DEF SenderInv
  <2>7. WriterOK(x, firstSuspend) BY <2>3, <2>5, <2>6 DEF WriterOK
  <2>8. Upcoming(x, txSeq') = Upcoming(writer[w], txSeq) BY <2>1, <2>5 DEF Upcoming
  <2>9. \A v \in Writers : v = w BY DEF SingleWriter
  <2>10. \A v \in Writers :
           /\ WriterOK(writer'[v], firstSuspend')
           /\ writer'[v].pc = "encode" => writer'[v].seq = txSeq'
           /\ EncOK(enc', Upcoming(writer'[v], txSeq'))
    BY <2>1, <2>4, <2>5, <2>6, <2>7, <2>8, <2>9
  <2>11. /\ firstSuspend' \in Nat
         /\ firstSuspend' # 0 => Aligned(firstSuspend') /\ firstSuspend' <= txSeq'
         /\ mode'.suspended => firstSuspend' # 0
         /\ ControlOK(mode'.current, firstSuspend')
    BY <2>1, <2>2 DEF SenderInv
  <2> QED BY <2>3, <2>10, <2>11 DEF SenderInv
<1> QED BY <1>1, <1>2

\* The critical section of fec_mode and encoder.
LEMMA SenderEncode ==
    ASSUME SingleWriter, TypeInv, SenderInv, NEW w \in Writers, Encode(w)
    PROVE  SenderInv' /\ (firstSuspend # 0 => firstSuspend' = firstSuspend)
<1>0. MaxSeq \in Nat BY FecAssumption
<1>1. PICK n, p : n = writer[w].seq /\ p = Cardinality(up) OBVIOUS
<1>2. PICK m : m = Observe(mode, p, n) OBVIOUS
<1>3. PICK r : r = Add(SetPhysicalPathCount(enc, p), n) OBVIOUS
<1>4. /\ writer[w].pc = "encode" /\ enc' = r.enc /\ mode' = m /\ txSeq' = txSeq
      /\ writer' = [writer EXCEPT ![w].pc = "send", ![w].control = m.current,
                                  ![w].parity = r.parity, ![w].tried = {}]
      /\ firstSuspend' = IF firstSuspend = 0 /\ m.suspended THEN GroupStart(n) ELSE firstSuspend
  BY <1>1, <1>2, <1>3 DEF Encode
<1>5. PICK x : x = writer'[w] OBVIOUS
<1>6. x.pc = "send" /\ x.control = m.current /\ x.parity = r.parity /\ x.seq = n
  BY <1>1, <1>4, <1>5 DEF TypeInv, WriterT
<1>7. /\ n = txSeq /\ txSeq \in 0..MaxSeq /\ n \in Seqs /\ EncOK(enc, Upcoming(writer[w], txSeq))
      /\ firstSuspend \in Nat /\ (firstSuspend # 0 => Aligned(firstSuspend) /\ firstSuspend <= txSeq)
      /\ (mode.suspended => firstSuspend # 0) /\ ControlOK(mode.current, firstSuspend)
  BY <1>1, <1>4 DEF SenderInv, WriterOK
<1>8. EncOK(enc, n) BY <1>1, <1>4, <1>7 DEF Upcoming
<1>9. EncOK(r.enc, n + 1) /\ (r.parity # << >> => \E s \in Starts : IsGroup(r.parity, s))
  <2>1. PICK e \in EncT : e = enc BY DEF TypeInv, EncT
  <2>2. EncOK(e, n) /\ r = Add(SetPhysicalPathCount(e, p), n) BY <1>3, <1>8, <2>1
  <2> QED BY <1>7, <2>2, EncodeForm
<1>10. Upcoming(x, txSeq') = n + 1 BY <1>4, <1>6, <1>7 DEF Upcoming
<1>11. PICK g : g = GroupStart(n) OBVIOUS
<1>12. n \in Nat \ {0} BY <1>0, <1>7 DEF Seqs
<1>13. g \in 1..n /\ Aligned(g) BY <1>11, <1>12, GroupForm
<1>14. firstSuspend # 0 => firstSuspend <= g BY <1>7, <1>11, <1>12, GroupFloor
<1>15. firstSuspend' \in Nat /\ (firstSuspend' # 0 => Aligned(firstSuspend') /\ firstSuspend' <= txSeq')
  BY <1>4, <1>7, <1>11, <1>12, <1>13
<1>16. firstSuspend # 0 => firstSuspend' = firstSuspend BY <1>4
<1>17. (m.suspended => firstSuspend' # 0) /\ ControlOK(m.current, firstSuspend')
  <2>1. \/ m.suspended = mode.suspended /\ m.current = mode.current
        \/ m.suspended = FALSE /\ m.current.op = "resume"
        \/ m.suspended = TRUE /\ m.current.op = "suspend" /\ m.current.boundary = GroupStart(n)
    <3>1. PICK y \in ModeT : y = mode BY DEF TypeInv, ModeT
    <3>2. m = Observe(y, p, n) BY <1>2, <3>1
    <3>3. ModeMoves(y, m, n) BY <3>2, ObserveForm
    <3> QED BY <3>1, <3>3 DEF ModeMoves
  <2>2. CASE m.suspended = mode.suspended /\ m.current = mode.current
    <3>1. ControlOK(mode.current, firstSuspend') BY <1>7, <1>16, ControlKept
    <3> QED BY <1>7, <1>16, <2>2, <3>1
  <2>3. CASE m.suspended = FALSE /\ m.current.op = "resume" BY <2>3 DEF ControlOK
  <2>4. CASE m.suspended = TRUE /\ m.current.op = "suspend" /\ m.current.boundary = GroupStart(n)
    <3>1. firstSuspend' # 0 /\ firstSuspend' <= g BY <1>4, <1>7, <1>11, <1>12, <1>13, <1>14, <2>4
    <3> QED BY <1>11, <1>13, <2>4, <3>1 DEF ControlOK
  <2> QED BY <2>1, <2>2, <2>3, <2>4
<1>18. WriterOK(x, firstSuspend') BY <1>6, <1>7, <1>9, <1>17 DEF WriterOK
<1>19. \A v \in Writers : v = w BY DEF SingleWriter
<1>20. \A v \in Writers :
         /\ WriterOK(writer'[v], firstSuspend')
         /\ writer'[v].pc = "encode" => writer'[v].seq = txSeq'
         /\ EncOK(enc', Upcoming(writer'[v], txSeq'))
  BY <1>4, <1>5, <1>6, <1>9, <1>10, <1>18, <1>19
<1>21. txSeq' \in 0..MaxSeq /\ (mode'.suspended => firstSuspend' # 0)
       /\ ControlOK(mode'.current, firstSuspend')
  BY <1>4, <1>7, <1>17
<1>22. SenderInv' BY <1>15, <1>20, <1>21 DEF SenderInv
<1> QED BY <1>16, <1>22

\* No call under way.
LEMMA IdleOK == ASSUME NEW f PROVE WriterOK(Idle, f) /\ Idle.pc # "encode"
BY DEF WriterOK, ControlOK, Idle, NoControl

\* What is left of a call once the data frame is enqueued or dropped.
LEMMA AfterDataForm ==
    ASSUME TypeInv, NEW w \in Writers, AfterData(w), NEW f, WriterOK(writer[w], f),
           writer[w].pc # "idle"
    PROVE  \E x : writer' = [writer EXCEPT ![w] = x] /\ WriterOK(x, f) /\ x.pc # "encode"
<1>1. CASE writer[w].parity = << >>
  <2>1. writer' = [writer EXCEPT ![w] = Idle] BY <1>1 DEF AfterData, TypeInv
  <2> QED BY <2>1, IdleOK
<1>2. CASE writer[w].parity # << >>
  <2> DEFINE x == [writer[w] EXCEPT !.pc = "parity"]
  <2>1. writer' = [writer EXCEPT ![w] = x] BY <1>2 DEF AfterData, TypeInv
  <2>2. /\ x.pc = "parity" /\ x.seq = writer[w].seq /\ x.control = writer[w].control
        /\ x.parity = writer[w].parity
    BY DEF TypeInv, WriterT
  <2> HIDE DEF x
  <2>3. WriterOK(x, f) BY <1>2, <2>2 DEF WriterOK
  <2>4. x.pc # "encode" BY <2>2
  <2> QED BY <2>1, <2>3, <2>4
<1> QED BY <1>1, <1>2

\* Every step of write_payload keeps the sender; the first SUSPEND stays the first.
LEMMA SenderWrite ==
    ASSUME SingleWriter, TypeInv, SenderInv, NEW w \in Writers, Write(w)
    PROVE  SenderInv' /\ (firstSuspend # 0 => firstSuspend' = firstSuspend)
<1>0. WriterOK(writer[w], firstSuspend) BY DEF SenderInv
<1>1. CASE NextSeq(w)
  <2>1. firstSuspend' = firstSuspend BY <1>1 DEF NextSeq, histVars
  <2> QED BY <1>1, <2>1, SenderNextSeq
<1>2. CASE Encode(w) BY <1>2, SenderEncode
<1>3. CASE PublishFence(w)
  <2> DEFINE x == [writer[w] EXCEPT !.pc = "data"]
  <2>1. writer[w].pc = "publish" /\ writer' = [writer EXCEPT ![w] = x]
        /\ UNCHANGED <<txSeq, enc, mode, firstSuspend>>
    BY <1>3 DEF PublishFence, histVars, TypeInv
  <2>2. /\ x.pc = "data" /\ x.seq = writer[w].seq /\ x.control = writer[w].control
        /\ x.parity = writer[w].parity
    BY DEF TypeInv, WriterT
  <2> HIDE DEF x
  <2>3. WriterOK(x, firstSuspend) BY <1>0, <2>1, <2>2 DEF WriterOK
  <2> QED BY <2>1, <2>2, <2>3, WriterMoves
<1>4. CASE TryNext(w)
  <2> DEFINE x == [writer[w] EXCEPT !.pc = "send", !.tried = writer[w].tried \cup {writer[w].at}]
  <2>1. writer[w].pc = "data" /\ writer' = [writer EXCEPT ![w] = x]
        /\ UNCHANGED <<txSeq, enc, mode, firstSuspend>>
    BY <1>4 DEF TryNext, histVars, TypeInv
  <2>2. /\ x.pc = "send" /\ x.seq = writer[w].seq /\ x.control = writer[w].control
        /\ x.parity = writer[w].parity
    BY DEF TypeInv, WriterT
  <2> HIDE DEF x
  <2>3. WriterOK(x, firstSuspend) BY <1>0, <2>1, <2>2 DEF WriterOK
  <2> QED BY <2>1, <2>2, <2>3, WriterMoves
<1>5. CASE DropData(w)
  <2>1. /\ writer[w].pc = "send" /\ AfterData(w) /\ UNCHANGED <<txSeq, enc, mode, firstSuspend>>
    BY <1>5 DEF DropData, histVars
  <2>2. PICK x : writer' = [writer EXCEPT ![w] = x] /\ WriterOK(x, firstSuspend) /\ x.pc # "encode"
    BY <1>0, <2>1, AfterDataForm
  <2> QED BY <2>1, <2>2, WriterMoves
<1>6. CASE SendParity(w)
  <2>1. /\ writer[w].pc = "parity" /\ writer' = [writer EXCEPT ![w] = Idle]
        /\ UNCHANGED <<txSeq, enc, mode, firstSuspend>>
    BY <1>6 DEF SendParity, histVars
  <2> QED BY <2>1, IdleOK, WriterMoves
<1>7. ASSUME NEW b \in Backends, SendControl(w, b)
      PROVE  SenderInv' /\ firstSuspend' = firstSuspend
  <2> DEFINE x == [writer[w] EXCEPT !.pc = "publish", !.at = b]
  <2>1. writer[w].pc = "send" /\ writer' = [writer EXCEPT ![w] = x]
        /\ UNCHANGED <<txSeq, enc, mode, firstSuspend>>
    BY <1>7 DEF SendControl, histVars, TypeInv
  <2>2. /\ x.pc = "publish" /\ x.seq = writer[w].seq /\ x.control = writer[w].control
        /\ x.parity = writer[w].parity
    BY DEF TypeInv, WriterT
  <2> HIDE DEF x
  <2>3. WriterOK(x, firstSuspend) BY <1>0, <2>1, <2>2 DEF WriterOK
  <2> QED BY <2>1, <2>2, <2>3, WriterMoves
<1>8. ASSUME NEW b \in Backends, SendData(w, b)
      PROVE  SenderInv' /\ firstSuspend' = firstSuspend
  <2>1. /\ writer[w].pc \in {"send", "data"} /\ AfterData(w)
        /\ UNCHANGED <<txSeq, enc, mode, firstSuspend>>
    BY <1>8 DEF SendData, histVars
  <2>2. PICK x : writer' = [writer EXCEPT ![w] = x] /\ WriterOK(x, firstSuspend) /\ x.pc # "encode"
    BY <1>0, <2>1, AfterDataForm
  <2> QED BY <2>1, <2>2, WriterMoves
<1> QED BY <1>1, <1>2, <1>3, <1>4, <1>5, <1>6, <1>7, <1>8 DEF Write

\* Every step does.
LEMMA SenderStep ==
    ASSUME SingleWriter, TypeInv, SenderInv, Next
    PROVE  SenderInv' /\ (firstSuspend # 0 => firstSuspend' = firstSuspend)
<1>1. CASE \E w \in Writers : Write(w) BY <1>1, SenderWrite
<1>2. CASE ~\E w \in Writers : Write(w)
  <2>1. UNCHANGED <<txSeq, enc, mode, writer, firstSuspend>>
    BY <1>2 DEF Next, RegisterBackend, UnregisterBackend, Receive, RxData, RxParity, AcceptParity,
             RefuseParity, RxControl, GapTimeout, sendVars, histVars
  <2> QED BY <2>1, SenderQuiet
<1> QED BY <1>1, <1>2

-----------------------------------------------------------------------------
(* The streams *)

AllOK(s, f) == \A i \in 1..Len(s) : RecordOK(s[i], f)

\* A record stays right when the first SUSPEND is sent after it.
LEMMA RecordKept ==
    ASSUME NEW f, NEW g, f # 0 => g = f, NEW r, RecordOK(r, f)
    PROVE  RecordOK(r, g)
<1>1. r.kind = "control" => ControlOK(r, g) BY ControlKept DEF RecordOK
<1> QED BY <1>1 DEF RecordOK

\* Streams of right records: a record is added, read, or cut off.
LEMMA AppendOK ==
    ASSUME NEW s \in Seq(RecordT), NEW r \in RecordT, NEW f, AllOK(s, f), RecordOK(r, f)
    PROVE  AllOK(Append(s, r), f)
<1>1. /\ Len(Append(s, r)) = Len(s) + 1 /\ Append(s, r)[Len(s) + 1] = r
      /\ \A i \in 1..Len(s) : Append(s, r)[i] = s[i]
  OBVIOUS
<1>2. ASSUME NEW i \in 1..Len(Append(s, r)) PROVE RecordOK(Append(s, r)[i], f)
  <2>1. i \in 1..Len(s) \/ i = Len(s) + 1 BY <1>1
  <2>2. CASE i \in 1..Len(s)
    <3>1. Append(s, r)[i] = s[i] /\ RecordOK(s[i], f) BY <1>1, <2>2 DEF AllOK
    <3> QED BY <3>1
  <2>3. CASE i = Len(s) + 1 BY <1>1, <2>3
  <2> QED BY <2>1, <2>2, <2>3
<1> QED BY <1>2 DEF AllOK

\* The head of a stream is read.
LEMMA TailOK ==
    ASSUME NEW s \in Seq(RecordT), s # << >>, NEW f, AllOK(s, f)
    PROVE  AllOK(Tail(s), f) /\ RecordOK(Head(s), f) /\ Head(s) \in RecordT
<1>1. /\ Len(s) \in Nat /\ Len(s) >= 1 /\ Head(s) = s[1] /\ Len(Tail(s)) = Len(s) - 1
      /\ \A i \in 1..Len(s) - 1 : Tail(s)[i] = s[i + 1]
  OBVIOUS
<1>2. ASSUME NEW i \in 1..Len(Tail(s)) PROVE RecordOK(Tail(s)[i], f)
  <2>1. Tail(s)[i] = s[i + 1] /\ i + 1 \in 1..Len(s) BY <1>1
  <2>2. RecordOK(s[i + 1], f) BY <2>1 DEF AllOK
  <2> QED BY <2>1, <2>2
<1>3. 1 \in 1..Len(s) BY <1>1
<1>4. Head(s) \in RecordT OBVIOUS
<1> QED BY <1>1, <1>2, <1>3, <1>4 DEF AllOK

\* A lost connection loses the end of its stream.
LEMMA PrefixOK ==
    ASSUME NEW s \in Seq(RecordT), NEW n \in 0..Len(s), NEW f, AllOK(s, f)
    PROVE  AllOK(SubSeq(s, 1, n), f)
<1>1. Len(SubSeq(s, 1, n)) = n /\ \A i \in 1..n : SubSeq(s, 1, n)[i] = s[i] OBVIOUS
<1>2. ASSUME NEW i \in 1..Len(SubSeq(s, 1, n)) PROVE RecordOK(SubSeq(s, 1, n)[i], f)
  <2>1. i \in 1..Len(s) /\ SubSeq(s, 1, n)[i] = s[i] BY <1>1
  <2>2. RecordOK(s[i], f) BY <2>1 DEF AllOK
  <2> QED BY <2>1, <2>2
<1> QED BY <1>2 DEF AllOK

\* One stream changes, the others stay.
LEMMA StreamMoves ==
    ASSUME TypeInv, StreamInv, NEW b \in Backends, NEW s, chan' = [chan EXCEPT ![b] = s],
           AllOK(s, firstSuspend), firstSuspend # 0 => firstSuspend' = firstSuspend
    PROVE  StreamInv'
<1>1. chan'[b] = s /\ \A a \in Backends \ {b} : chan'[a] = chan[a] BY DEF TypeInv
<1>2. ASSUME NEW a \in Backends, NEW i \in 1..Len(chan'[a]) PROVE RecordOK(chan'[a][i], firstSuspend')
  <2>1. RecordOK(chan'[a][i], firstSuspend)
    <3>1. CASE a = b BY <1>1, <1>2, <3>1 DEF AllOK
    <3>2. CASE a # b BY <1>1, <1>2, <3>2 DEF StreamInv
    <3> QED BY <3>1, <3>2
  <2>2. PICK r : r = chan'[a][i] OBVIOUS
  <2> QED BY <2>1, <2>2, RecordKept
<1> QED BY <1>2 DEF StreamInv

\* No stream changes.
LEMMA StreamQuiet ==
    ASSUME StreamInv, chan' = chan, firstSuspend # 0 => firstSuspend' = firstSuspend
    PROVE  StreamInv'
<1>1. ASSUME NEW a \in Backends, NEW i \in 1..Len(chan[a]) PROVE RecordOK(chan[a][i], firstSuspend')
  <2>1. RecordOK(chan[a][i], firstSuspend) BY DEF StreamInv
  <2>2. PICK r : r = chan[a][i] OBVIOUS
  <2> QED BY <2>1, <2>2, RecordKept
<1> QED BY <1>1 DEF StreamInv

\* A record is enqueued, or dropped on a stream that was ended.
LEMMA EnqueueOK ==
    ASSUME TypeInv, StreamInv, NEW b \in Backends, NEW r \in RecordT, Enqueue(b, r),
           RecordOK(r, firstSuspend), firstSuspend' = firstSuspend
    PROVE  StreamInv'
<1>1. CASE b \in refused BY <1>1, StreamQuiet DEF Enqueue
<1>2. CASE b \notin refused
  <2>1. chan' = [chan EXCEPT ![b] = Append(chan[b], r)] BY <1>2 DEF Enqueue, TypeInv
  <2>2. PICK s \in Seq(RecordT) : s = chan[b] BY DEF TypeInv
  <2>3. AllOK(s, firstSuspend) BY <2>2 DEF StreamInv, AllOK
  <2>4. AllOK(Append(s, r), firstSuspend) BY <2>3, AppendOK
  <2> QED BY <2>1, <2>2, <2>4, StreamMoves
<1> QED BY <1>1, <1>2

\* The record that a step reads.
LEMMA PopOK ==
    ASSUME TypeInv, StreamInv, NEW b \in Backends, chan[b] # << >>
    PROVE  /\ RecordOK(Head(chan[b]), firstSuspend) /\ Head(chan[b]) \in RecordT
           /\ Pop(b) /\ firstSuspend' = firstSuspend => StreamInv'
<1>1. PICK s \in Seq(RecordT) : s = chan[b] BY DEF TypeInv
<1>2. AllOK(s, firstSuspend) BY <1>1 DEF StreamInv, AllOK
<1>3. AllOK(Tail(s), firstSuspend) /\ RecordOK(Head(s), firstSuspend) /\ Head(s) \in RecordT
  BY <1>1, <1>2, TailOK
<1>4. ASSUME Pop(b), firstSuspend' = firstSuspend PROVE StreamInv'
  <2>1. chan' = [chan EXCEPT ![b] = Tail(s)] BY <1>1, <1>4 DEF Pop, TypeInv
  <2> QED BY <1>3, <1>4, <2>1, StreamMoves
<1> QED BY <1>1, <1>3, <1>4

\* The records that every step sends are right.
LEMMA StreamStep ==
    ASSUME SingleWriter, TypeInv, SenderInv, StreamInv, Next
    PROVE  StreamInv'
<1>0. firstSuspend # 0 => firstSuspend' = firstSuspend BY SenderStep
<1>1. ASSUME NEW w \in Writers, Write(w) PROVE StreamInv'
  <2>0. WriterOK(writer[w], firstSuspend) /\ writer[w] \in WriterT BY DEF SenderInv, TypeInv
  <2>1. CASE chan' = chan BY <1>0, <2>1, StreamQuiet
  <2>2. ASSUME NEW b \in Backends, SendControl(w, b) PROVE StreamInv'
    <3>1. PICK c : c = writer[w].control OBVIOUS
    <3>2. PICK r : r = Control(c) OBVIOUS
    <3>3. c \in ControlT /\ ControlOK(c, firstSuspend) BY <2>0, <3>1 DEF WriterOK, WriterT
    <3>4. r \in RecordT BY <3>2, <3>3 DEF RecordT, ControlT, Control
    <3>5. r.kind = "control" /\ r.op = c.op /\ r.boundary = c.boundary BY <3>2 DEF Control
    <3>6. RecordOK(r, firstSuspend) BY <3>3, <3>5 DEF RecordOK, ControlOK
    <3>7. Enqueue(b, r) /\ firstSuspend' = firstSuspend BY <2>2, <3>1, <3>2 DEF SendControl, histVars
    <3> QED BY <3>4, <3>6, <3>7, EnqueueOK
  <2>3. ASSUME NEW b \in Backends, SendData(w, b) PROVE StreamInv'
    <3>1. PICK r : r = Data(writer[w].seq, writer[w].control.gen) OBVIOUS
    <3>2. writer[w].pc # "idle" BY <2>3 DEF SendData
    <3>3. writer[w].seq \in Seqs BY <2>0, <3>2 DEF WriterOK
    <3>4. writer[w].seq \in Int /\ writer[w].control.gen \in Nat BY <2>0 DEF WriterT, ControlT
    <3>5. r \in RecordT BY <3>1, <3>4 DEF RecordT, Data
    <3>6. r.kind = "data" /\ r.seq \in Seqs BY <3>1, <3>3 DEF Data
    <3>7. RecordOK(r, firstSuspend) BY <3>6 DEF RecordOK
    <3>8. Enqueue(b, r) /\ firstSuspend' = firstSuspend BY <2>3, <3>1 DEF SendData, histVars
    <3> QED BY <3>5, <3>7, <3>8, EnqueueOK
  <2>4. CASE SendParity(w) /\ chan' # chan
    <3>1. PICK r : r = Parity(writer[w].parity) OBVIOUS
    <3>2. PICK b \in up : Enqueue(b, r) BY <2>4, <3>1 DEF SendParity
    <3>3. firstSuspend' = firstSuspend /\ b \in Backends BY <2>4 DEF SendParity, histVars, TypeInv
    <3>4. writer[w].parity # << >> BY <2>0, <2>4 DEF WriterOK, SendParity
    <3>5. \E s \in Starts : IsGroup(writer[w].parity, s) BY <2>0, <3>4 DEF WriterOK
    <3>6. r.kind = "parity" /\ r.members = writer[w].parity BY <3>1 DEF Parity
    <3>7. r \in RecordT BY <2>0, <3>1 DEF RecordT, Parity, WriterT
    <3>8. RecordOK(r, firstSuspend) BY <3>5, <3>6 DEF RecordOK
    <3> QED BY <3>2, <3>3, <3>7, <3>8, EnqueueOK
  <2>5. \/ chan' = chan \/ (SendParity(w) /\ chan' # chan)
        \/ \E b \in Backends : SendControl(w, b) \/ SendData(w, b)
    BY <1>1 DEF Write, NextSeq, Encode, PublishFence, TryNext, DropData
  <2> QED BY <2>1, <2>2, <2>3, <2>4, <2>5
<1>2. ASSUME NEW b \in Backends, UnregisterBackend(b) PROVE StreamInv'
  <2>1. PICK s \in Seq(RecordT) : s = chan[b] BY DEF TypeInv
  <2>2. PICK n \in 0..Len(s) : chan' = [chan EXCEPT ![b] = SubSeq(s, 1, n)]
    BY <1>2, <2>1 DEF UnregisterBackend
  <2>3. AllOK(s, firstSuspend) BY <2>1 DEF StreamInv, AllOK
  <2>4. AllOK(SubSeq(s, 1, n), firstSuspend) BY <2>3, PrefixOK
  <2> QED BY <1>0, <2>2, <2>4, StreamMoves
<1>3. ASSUME NEW b \in Backends, Receive(b) PROVE StreamInv'
  <2>1. firstSuspend' = firstSuspend /\ chan[b] # << >>
    BY <1>3 DEF Receive, RxData, RxParity, AcceptParity, RefuseParity, RxControl, histVars, Head1
  <2>2. CASE Pop(b) BY <2>1, <2>2, PopOK
  <2>3. CASE RefuseParity(b)
    <3>1. chan' = [chan EXCEPT ![b] = << >>] /\ AllOK(<< >>, firstSuspend)
      BY <2>3 DEF RefuseParity, AllOK
    <3> QED BY <1>0, <3>1, StreamMoves
  <2>4. Pop(b) \/ RefuseParity(b) BY <1>3 DEF Receive, RxData, RxParity, AcceptParity, RxControl
  <2> QED BY <2>2, <2>3, <2>4
<1>4. CASE chan' = chan BY <1>0, <1>4, StreamQuiet
<1>5. \/ \E w \in Writers : Write(w)
      \/ \E b \in Backends : UnregisterBackend(b) \/ Receive(b)
      \/ chan' = chan
  BY DEF Next, RegisterBackend, GapTimeout
<1> QED BY <1>1, <1>2, <1>3, <1>4, <1>5

-----------------------------------------------------------------------------
(* The reorder position *)

\* A set of natural numbers has a least one.
LEMMA NatLeast ==
    ASSUME NEW S \in SUBSET Nat, S # {}
    PROVE  \E n \in S : \A m \in S : n <= m
<1>1. PICK n \in S : \A m \in Nat : <<m, n>> \in OpToRel(<, Nat) => m \notin S
  BY NatLessThanWellFounded, WFMin
<1>2. \A m \in S : ~(m < n) BY <1>1 DEF OpToRel
<1> QED BY <1>2

\* What Min and Max return.
LEMMA MinForm ==
    ASSUME NEW S \in SUBSET Nat, S # {}
    PROVE  Min(S) \in S /\ \A m \in S : Min(S) <= m
<1>1. \E n \in S : \A m \in S : n <= m BY NatLeast
<1> QED BY <1>1 DEF Min

\* The largest of a set of sequences.
LEMMA MaxForm ==
    ASSUME NEW S \in SUBSET Seqs, S # {}
    PROVE  Max(S) \in S
<1>1. MaxSeq \in Nat /\ \A n \in S : n \in Nat /\ n <= MaxSeq BY FecAssumption DEF Seqs
<1> DEFINE T == {MaxSeq - n : n \in S}
<1>2. T \in SUBSET Nat /\ T # {} BY <1>1
<1>3. PICK t \in T : \A u \in T : t <= u
  <2> HIDE DEF T
  <2> QED BY <1>2, NatLeast
<1>4. PICK n \in S : t = MaxSeq - n BY <1>3
<1>5. ASSUME NEW m \in S PROVE n >= m
  <2>1. t <= MaxSeq - m BY <1>3
  <2> QED BY <1>1, <1>4, <2>1
<1>6. \E x \in S : \A y \in S : x >= y BY <1>5
<1> QED BY <1>6 DEF Max

\* The larger of two.
LEMMA MaxTwo ==
    ASSUME NEW a \in Nat, NEW b \in Nat
    PROVE  Max({a, b}) \in {a, b} /\ Max({a, b}) >= a /\ Max({a, b}) >= b
<1>1. \E x \in {a, b} : \A y \in {a, b} : x >= y OBVIOUS
<1>2. PICK x : x = Max({a, b}) OBVIOUS
<1>3. x \in {a, b} /\ \A y \in {a, b} : x >= y BY <1>1, <1>2 DEF Max
<1> QED BY <1>2, <1>3

\* Where the output goes from position e with the sequences h and q is at r: no
\* step back, unless the last sequence of the epoch is taken.
Advanced(r, e, h) ==
    /\ ReorderOK(r)
    /\ r.held \subseteq h
    /\ r.expected >= e \/ MaxSeq \in h

\* Flush: the output runs from e through what is held.
LEMMA FlushForm ==
    ASSUME NEW e \in Seqs, NEW h \in SUBSET Seqs
    PROVE  Advanced(Flush(e, h), e, h)
<1>0. MaxSeq \in Nat /\ e \in Nat /\ e >= 1 /\ e <= MaxSeq BY FecAssumption DEF Seqs
<1> DEFINE S == {n \in e..MaxSeq + 1 : n \notin h}
<1>1. S \in SUBSET Nat /\ MaxSeq + 1 \in S BY <1>0 DEF Seqs
<1>2. PICK x : x = Min(S) OBVIOUS
<1>3. x \in S /\ \A m \in S : x <= m
  <2>1. S # {} BY <1>1
  <2> HIDE DEF S
  <2> QED BY <1>1, <1>2, <2>1, MinForm
<1>4. x \in e..MaxSeq + 1 /\ x \in Nat BY <1>0, <1>3
<1>5. PICK r : r = Flush(e, h) OBVIOUS
<1>6. r = [expected |-> x % (MaxSeq + 1), held |-> {n \in h : n > x}] BY <1>2, <1>5 DEF Flush
<1>7. r.expected = x % (MaxSeq + 1) /\ r.held = {n \in h : n > x} BY <1>6
<1>8. CASE x <= MaxSeq
  <2>1. x % (MaxSeq + 1) = x BY <1>0, <1>4, <1>8
  <2>2. r.expected = x BY <1>7, <2>1
  <2>3. r \in [expected : 0..MaxSeq, held : SUBSET Seqs]
    <3>1. x \in 0..MaxSeq BY <1>0, <1>4, <1>8
    <3>2. {n \in h : n > x} \in SUBSET Seqs OBVIOUS
    <3> QED BY <1>6, <2>1, <3>1, <3>2
  <2>4. \A n \in r.held : r.expected < n BY <1>0, <1>4, <1>7, <2>2 DEF Seqs
  <2>5. r.expected >= e /\ r.expected # 0 BY <1>0, <1>4, <2>2
  <2> QED BY <1>5, <1>7, <2>3, <2>4, <2>5 DEF Advanced, ReorderOK
<1>9. CASE x = MaxSeq + 1
  <2>1. x % (MaxSeq + 1) = 0
    <3>1. PICK n \in Nat \ {0} : n = MaxSeq + 1 BY <1>0
    <3>2. n % n = 0 BY <3>1
    <3> QED BY <1>9, <3>1, <3>2
  <2>2. r.expected = 0 BY <1>7, <2>1
  <2>3. r.held = {}
    <3>1. ASSUME NEW n \in h PROVE ~(n > x)
      <4>1. n \in 1..MaxSeq BY DEF Seqs
      <4> QED BY <1>0, <1>9, <4>1
    <3> QED BY <1>7, <3>1
  <2>4. MaxSeq \in h
    <3>1. MaxSeq \notin S BY <1>0, <1>3, <1>9
    <3> QED BY <1>0, <3>1
  <2>5. r \in [expected : 0..MaxSeq, held : SUBSET Seqs]
    <3>1. 0 \in 0..MaxSeq BY <1>0
    <3>2. {n \in h : n > x} \in SUBSET Seqs OBVIOUS
    <3> QED BY <1>6, <2>1, <3>1, <3>2
  <2> QED BY <1>5, <1>7, <2>2, <2>3, <2>4, <2>5 DEF Advanced, ReorderOK
<1> QED BY <1>0, <1>4, <1>8, <1>9

\* Insert: one frame.
LEMMA InsertForm ==
    ASSUME NEW r, ReorderOK(r), NEW q \in Seqs
    PROVE  Advanced(Insert(r, q), r.expected, r.held \cup {q})
<1>0. MaxSeq \in Nat /\ q \in Nat /\ q >= 1 /\ q <= MaxSeq BY FecAssumption DEF Seqs
<1>1. /\ r \in [expected : 0..MaxSeq, held : SUBSET Seqs] /\ r.expected \in Nat /\ r.expected <= MaxSeq
      /\ r.held \subseteq Seqs /\ (\A n \in r.held : r.expected < n) /\ (r.expected = 0 => r.held = {})
  BY <1>0 DEF ReorderOK
<1>2. PICK e : e = IF r.expected = 0 THEN q ELSE r.expected OBVIOUS
<1>3. e \in Seqs /\ e \in Nat /\ e >= r.expected BY <1>0, <1>1, <1>2 DEF Seqs
<1>4. CASE q < e
  <2>1. Insert(r, q) = r BY <1>0, <1>2, <1>3, <1>4 DEF Insert
  <2> QED BY <1>1, <2>1 DEF Advanced
<1>5. CASE q = e
  <2>1. Insert(r, q) = Flush(e, r.held \cup {q}) BY <1>0, <1>2, <1>3, <1>5 DEF Insert
  <2>2. Advanced(Flush(e, r.held \cup {q}), e, r.held \cup {q}) BY <1>1, <1>3, FlushForm
  <2>3. PICK y : y = Insert(r, q) OBVIOUS
  <2>4. ReorderOK(y) /\ y.held \subseteq r.held \cup {q} /\ (y.expected >= e \/ MaxSeq \in r.held \cup {q})
    BY <2>1, <2>2, <2>3 DEF Advanced
  <2>5. y.expected \in Int BY <1>0, <2>4 DEF ReorderOK
  <2>6. y.expected >= e => y.expected >= r.expected BY <1>1, <1>3, <2>5
  <2> QED BY <2>3, <2>4, <2>6 DEF Advanced
<1>6. CASE e < q
  <2>1. PICK y : y = Insert(r, q) OBVIOUS
  <2>2. y = [expected |-> e, held |-> r.held \cup {q}] BY <1>0, <1>2, <1>3, <1>6, <2>1 DEF Insert
  <2>3. y.expected = e /\ y.held = r.held \cup {q} BY <2>2
  <2>4. y \in [expected : 0..MaxSeq, held : SUBSET Seqs] BY <1>0, <1>1, <1>3, <2>2 DEF Seqs
  <2>5. e # 0 /\ \A n \in y.held : e < n
    <3>1. e # 0 BY <1>0, <1>2
    <3>2. ASSUME NEW n \in r.held PROVE e < n
      <4>1. r.expected # 0 BY <1>1
      <4>2. e = r.expected /\ r.expected < n BY <1>1, <1>2, <4>1
      <4> QED BY <4>2
    <3> QED BY <1>6, <2>3, <3>1, <3>2
  <2> QED BY <1>3, <2>1, <2>3, <2>4, <2>5 DEF Advanced, ReorderOK
<1> QED BY <1>0, <1>3, <1>4, <1>5, <1>6

\* insert_pair: the frame that was read and the one that was rebuilt.
LEMMA InsertAllForm ==
    ASSUME NEW r, ReorderOK(r), NEW S \in SUBSET Seqs
    PROVE  Advanced(InsertAll(r, S), r.expected, r.held \cup S)
<1>0. MaxSeq \in Nat BY FecAssumption
<1>1. r.expected \in Nat BY <1>0 DEF ReorderOK
<1>2. CASE S = {}
  <2>1. InsertAll(r, S) = r BY <1>2 DEF InsertAll
  <2> QED BY <1>1, <2>1 DEF Advanced
<1>3. CASE S # {}
  <2>1. Min(S) \in S
    <3>1. S \in SUBSET Nat BY <1>0 DEF Seqs
    <3> QED BY <1>3, <3>1, MinForm
  <2>2. Max(S) \in S BY <1>3, MaxForm
  <2>3. PICK y, p, q : y = Insert(r, p) /\ p = Min(S) /\ q = Max(S) OBVIOUS
  <2>4. p \in S /\ q \in S /\ p \in Seqs /\ q \in Seqs BY <2>1, <2>2, <2>3
  <2>5. ReorderOK(y) /\ y.held \subseteq r.held \cup {p}
        /\ (y.expected >= r.expected \/ MaxSeq \in r.held \cup {p})
    BY <2>3, <2>4, InsertForm DEF Advanced
  <2>6. y.expected \in Nat BY <1>0, <2>5 DEF ReorderOK
  <2>7. CASE Cardinality(S) = 1
    <3>1. InsertAll(r, S) = y BY <1>3, <2>3, <2>7 DEF InsertAll
    <3> QED BY <2>4, <2>5, <3>1 DEF Advanced
  <2>8. CASE Cardinality(S) # 1
    <3>1. PICK z : z = Insert(y, q) OBVIOUS
    <3>2. InsertAll(r, S) = z BY <1>3, <2>3, <2>8, <3>1 DEF InsertAll
    <3>3. ReorderOK(z) /\ z.held \subseteq y.held \cup {q}
          /\ (z.expected >= y.expected \/ MaxSeq \in y.held \cup {q})
      BY <2>4, <2>5, <3>1, InsertForm DEF Advanced
    <3>4. z.expected \in Nat BY <1>0, <3>3 DEF ReorderOK
    <3>5. z.held \subseteq r.held \cup S BY <2>4, <2>5, <3>3
    <3>6. z.expected >= r.expected \/ MaxSeq \in r.held \cup S
      BY <1>1, <2>4, <2>5, <2>6, <3>3, <3>4
    <3> QED BY <3>2, <3>3, <3>5, <3>6 DEF Advanced
  <2> QED BY <2>7, <2>8
<1> QED BY <1>2, <1>3

-----------------------------------------------------------------------------
(* The decoder *)

Same(d, c, t) == c.got[t] = d.got[t] /\ c.par[t] = d.par[t]
Gone(c, t) == c.got[t] = {} /\ c.par[t] = << >>

\* The slot of a group in the done cache.
LEMMA SlotForm ==
    ASSUME NEW s \in Starts
    PROVE  DoneSlot(s) \in 0..DoneSlots - 1
<1>1. PICK a \in Nat : a = s - 1 BY StartsForm
<1>2. a \div K \in Nat BY Division
<1>3. PICK q \in Nat, n \in Nat \ {0} : q = a \div K /\ n = DoneSlots BY <1>2, FecAssumption
<1>4. q % n \in 0..n - 1 BY DivisionBy
<1> QED BY <1>1, <1>3, <1>4 DEF DoneSlot

\* DropGroups empties the doomed groups and changes nothing else.
LEMMA DropForm ==
    ASSUME NEW d \in DecT, NEW D, NEW c, c = DropGroups(d, D)
    PROVE  /\ c \in DecT
           /\ c.done = d.done /\ c.cleanup = d.cleanup /\ c.retired = d.retired
           /\ c.out = d.out /\ c.evicted = d.evicted
           /\ \A t \in Starts : IF t \in D THEN Gone(c, t) ELSE Same(d, c, t)
<1> DEFINE g == [s \in Starts |-> IF s \in D THEN {} ELSE d.got[s]]
           p == [s \in Starts |-> IF s \in D THEN << >> ELSE d.par[s]]
<1>1. c = [d EXCEPT !.got = g, !.par = p] BY DEF DropGroups, DecT
<1>2. g \in [Starts -> SUBSET Int] BY DEF DecT
<1>3. p \in [Starts -> Seq(Int)]
  <2>1. << >> \in Seq(Int) OBVIOUS
  <2>2. \A s \in Starts : d.par[s] \in Seq(Int) BY DEF DecT
  <2> QED BY <2>1, <2>2
<1>4. \A t \in Starts : IF t \in D THEN g[t] = {} /\ p[t] = << >> ELSE g[t] = d.got[t] /\ p[t] = d.par[t]
  OBVIOUS
<1> HIDE DEF g, p
<1>5. /\ c.got = g /\ c.par = p /\ c.done = d.done /\ c.cleanup = d.cleanup
      /\ c.retired = d.retired /\ c.out = d.out /\ c.evicted = d.evicted
  BY <1>1 DEF DecT
<1>6. c \in DecT BY <1>1, <1>2, <1>3 DEF DecT
<1> QED BY <1>4, <1>5, <1>6 DEF Gone, Same

\* Groups that are dropped leave the decoder well formed.
LEMMA DroppedOK ==
    ASSUME NEW d, DecOK(d), NEW D, NEW c, c = DropGroups(d, D)
    PROVE  DecOK(c) /\ \A t \in Starts : c.got[t] \subseteq d.got[t]
<1>1. d \in DecT BY DEF DecOK
<1>2. /\ c \in DecT
      /\ c.done = d.done /\ c.cleanup = d.cleanup /\ c.retired = d.retired
      /\ c.out = d.out /\ c.evicted = d.evicted
      /\ \A t \in Starts : IF t \in D THEN Gone(c, t) ELSE Same(d, c, t)
  BY <1>1, DropForm
<1>3. ASSUME NEW t \in Starts
      PROVE  /\ c.got[t] \subseteq Members(t) /\ c.got[t] \subseteq d.got[t]
             /\ c.par[t] # << >> => IsGroup(c.par[t], t)
             /\ t < c.retired => c.got[t] = {} /\ c.par[t] = << >>
  <2>1. CASE t \in D BY <1>2, <2>1 DEF Gone
  <2>2. CASE t \notin D BY <1>2, <2>2 DEF Same, DecOK
  <2> QED BY <2>1, <2>2
<1> QED BY <1>2, <1>3 DEF DecOK

\* Retirement drops what lies below its boundary, which the output has reached.
LEMMA RetireForm ==
    ASSUME NEW d, DecOK(d), NEW e \in Nat, NEW c, c = Retire(d, e)
    PROVE  /\ DecOK(c)
           /\ c.done = d.done /\ c.cleanup = d.cleanup /\ c.out = d.out /\ c.evicted = d.evicted
           /\ c.retired >= d.retired /\ (c.retired = d.retired \/ c.retired <= e)
           /\ \A t \in Starts : c.got[t] \subseteq d.got[t] /\ (Same(d, c, t) \/ t < c.retired)
<1>0. d \in DecT /\ d.retired \in Nat /\ d.cleanup \in Nat /\ d.retired <= d.cleanup
  BY DEF DecOK, DecT
<1>1. CASE c = d BY <1>0, <1>1 DEF Same
<1>2. CASE c # d
  <2> DEFINE D == {s \in Starts : s < d.cleanup}
  <2>1. PICK x : x = DropGroups(d, D) OBVIOUS
  <2>2. /\ d.cleanup # 0 /\ e >= d.cleanup /\ c = [x EXCEPT !.retired = d.cleanup]
    BY <1>0, <1>2, <2>1 DEF Retire
  <2>3. /\ x \in DecT
        /\ x.done = d.done /\ x.cleanup = d.cleanup /\ x.retired = d.retired
        /\ x.out = d.out /\ x.evicted = d.evicted
        /\ \A t \in Starts : IF t \in D THEN Gone(x, t) ELSE Same(d, x, t)
    BY <1>0, <2>1, DropForm
  <2>4. DecOK(x) /\ \A t \in Starts : x.got[t] \subseteq d.got[t]
    BY <2>1, DroppedOK
  <2>5. /\ c.got = x.got /\ c.par = x.par /\ c.done = x.done /\ c.cleanup = x.cleanup
        /\ c.retired = d.cleanup /\ c.out = x.out /\ c.evicted = x.evicted
    BY <2>2, <2>3 DEF DecT
  <2>6. c \in DecT BY <1>0, <2>2, <2>3 DEF DecT
  <2>7. ASSUME NEW t \in Starts
        PROVE  /\ c.got[t] \subseteq Members(t)
               /\ c.par[t] # << >> => IsGroup(c.par[t], t)
               /\ t < c.retired => c.got[t] = {} /\ c.par[t] = << >>
               /\ Same(d, c, t) \/ t < c.retired
    <3>1. c.got[t] \subseteq Members(t) /\ (c.par[t] # << >> => IsGroup(c.par[t], t))
      BY <2>4, <2>5 DEF DecOK
    <3>2. CASE t \in D BY <2>3, <2>5, <3>1, <3>2 DEF Gone
    <3>3. CASE t \notin D
      <4>1. ~(t < c.retired) BY <2>5, <3>3
      <4> QED BY <2>3, <2>5, <3>1, <3>3, <4>1 DEF Same
    <3> QED BY <3>2, <3>3
  <2>8. c.retired <= c.cleanup /\ Aligned(c.retired) /\ Aligned(c.cleanup)
    BY <1>0, <2>2, <2>3, <2>5 DEF DecOK
  <2>9. DecOK(c) BY <2>6, <2>7, <2>8 DEF DecOK
  <2> QED BY <1>0, <2>2, <2>3, <2>4, <2>5, <2>7, <2>9
<1> QED BY <1>1, <1>2

\* There is an oldest group when room has to be made.
LEMMA PendingLeast ==
    ASSUME NEW d, Cardinality(Pending(d)) >= MaxPending
    PROVE  Min(Pending(d)) \in Starts
<1>1. Pending(d) # {}
  <2>1. Cardinality({}) = 0 BY FS_EmptySet
  <2> QED BY <2>1, FecAssumption
<1>2. Pending(d) \subseteq Starts BY DEF Pending
<1>3. Pending(d) \in SUBSET Nat BY <1>2, StartsForm
<1>4. Min(Pending(d)) \in Pending(d) BY <1>1, <1>3, MinForm
<1> QED BY <1>2, <1>4

\* Making room touches no group but the one it gives up.
LEMMA EntryForm ==
    ASSUME NEW d, DecOK(d), NEW s \in Starts, NEW c, c = Entry(d, s)
    PROVE  /\ DecOK(c)
           /\ c.done = d.done /\ c.cleanup = d.cleanup /\ c.out = d.out /\ c.retired = d.retired
           /\ d.evicted \subseteq c.evicted
           /\ Same(d, c, s)
           /\ \A t \in Starts : c.got[t] \subseteq d.got[t] /\ (Same(d, c, t) \/ t \in c.evicted)
<1>0. d \in DecT BY DEF DecOK
<1>1. CASE c = d BY <1>0, <1>1 DEF Same
<1>2. CASE c # d
  <2>1. PICK o, x : o = Min(Pending(d)) /\ x = DropGroups(d, {o}) OBVIOUS
  <2>2. /\ s \notin Pending(d) /\ ~(Cardinality(Pending(d)) < MaxPending)
        /\ c = [x EXCEPT !.evicted = d.evicted \cup {o}]
    <3>1. /\ s \notin Pending(d) /\ ~(Cardinality(Pending(d)) < MaxPending)
          /\ c = [x EXCEPT !.evicted = @ \cup {o}]
      BY <1>2, <2>1 DEF Entry
    <3>2. x.evicted = d.evicted BY <1>0, <2>1, DropForm
    <3>3. x \in DecT BY <1>0, <2>1, DropForm
    <3> QED BY <3>1, <3>2, <3>3 DEF DecT
  <2>3. o \in Starts
    <3>1. Cardinality(Pending(d)) \in Nat
      <4>1. IsFiniteSet(1..MaxSeq)
        <5>1. 1 \in Int /\ MaxSeq \in Int BY FecAssumption
        <5> QED BY <5>1, FS_Interval
      <4>2. Pending(d) \in SUBSET (1..MaxSeq) BY StartsForm, FecAssumption DEF Pending
      <4>3. IsFiniteSet(Pending(d)) BY <4>1, <4>2, FS_Subset
      <4> QED BY <4>3, FS_CardinalityType
    <3>2. Cardinality(Pending(d)) >= MaxPending BY <2>2, <3>1, FecAssumption
    <3> QED BY <2>1, <3>2, PendingLeast
  <2>4. o \in Int BY <2>3, StartsForm
  <2>5. /\ x \in DecT
        /\ x.done = d.done /\ x.cleanup = d.cleanup /\ x.retired = d.retired
        /\ x.out = d.out /\ x.evicted = d.evicted
        /\ \A t \in Starts : IF t \in {o} THEN Gone(x, t) ELSE Same(d, x, t)
    BY <1>0, <2>1, DropForm
  <2>6. DecOK(x) /\ \A t \in Starts : x.got[t] \subseteq d.got[t] BY <2>1, DroppedOK
  <2>7. /\ c.got = x.got /\ c.par = x.par /\ c.done = x.done /\ c.cleanup = x.cleanup
        /\ c.retired = x.retired /\ c.out = x.out /\ c.evicted = d.evicted \cup {o}
    BY <2>2, <2>5 DEF DecT
  <2>8. c \in DecT
    <3>1. d.evicted \cup {o} \in SUBSET Int BY <1>0, <2>4 DEF DecT
    <3> QED BY <2>2, <2>5, <3>1 DEF DecT
  <2>9. DecOK(c) BY <2>6, <2>7, <2>8 DEF DecOK
  <2>10. Same(d, c, s)
    <3>1. Gone(d, s) BY <2>2 DEF Pending, Gone
    <3>2. CASE s = o BY <2>5, <2>7, <3>1, <3>2 DEF Gone, Same
    <3>3. CASE s # o BY <2>5, <2>7, <3>3 DEF Same
    <3> QED BY <3>2, <3>3
  <2>11. ASSUME NEW t \in Starts PROVE Same(d, c, t) \/ t \in c.evicted
    <3>1. CASE t = o BY <2>7, <3>1
    <3>2. CASE t # o BY <2>5, <2>7, <3>2 DEF Same
    <3> QED BY <3>1, <3>2
  <2> QED BY <2>5, <2>6, <2>7, <2>9, <2>10, <2>11
<1> QED BY <1>1, <1>2

\* A frame that is what was sent with its sequence.
Sent(f) == f.seq \in Seqs /\ f.body = {f.seq} /\ f.length = f.seq

\* try_recover builds the one frame of the group that was not received.
LEMMA RepairForm ==
    ASSUME NEW s \in Starts, NEW p, IsGroup(p, s), NEW g, g \subseteq Members(s),
           NEW m, Members(s) \ g = {m}, NEW f, f = Repair(p, g, m, s)
    PROVE  Sent(f) /\ f.seq = m /\ f \in Frames
<1>0. K \in Nat /\ K >= 2 /\ MaxSeq \in Nat /\ s \in Nat /\ s >= 1 BY FecAssumption, StartsForm
<1>1. /\ s + K - 1 <= MaxSeq /\ p \in Seq(Int) /\ Len(p) = K /\ \A i \in 1..K : p[i] = s + i - 1
  BY DEF IsGroup, IsRun
<1>2. m \in Members(s) /\ m \in Int /\ s <= m /\ m <= s + K - 1 BY <1>0 DEF Members
<1>3. PICK b : b = {p[i] : i \in 1..Len(p)} OBVIOUS
<1>4. b = Members(s)
  <2>1. ASSUME NEW n \in b PROVE n \in Members(s)
    <3>1. PICK i \in 1..K : n = p[i] BY <1>1, <1>3
    <3>2. n = s + i - 1 BY <1>1, <3>1
    <3> QED BY <1>0, <3>2 DEF Members
  <2>2. ASSUME NEW n \in Members(s) PROVE n \in b
    <3>1. n \in Int /\ n - s + 1 \in 1..K BY <1>0 DEF Members
    <3>2. p[n - s + 1] = s + (n - s + 1) - 1 BY <1>1, <3>1
    <3>3. p[n - s + 1] = n BY <1>0, <3>1, <3>2
    <3> QED BY <1>1, <1>3, <3>1, <3>3
  <2> QED BY <2>1, <2>2
<1>5. (b \cup g) \ (b \cap g) = {m} BY <1>4
<1>6. p[m - s + 1] = m
  <2>1. m - s + 1 \in 1..K BY <1>0, <1>2
  <2>2. p[m - s + 1] = s + (m - s + 1) - 1 BY <1>1, <2>1
  <2> QED BY <1>0, <1>2, <2>2
<1>7. f = [seq |-> m, body |-> {m}, length |-> m] BY <1>3, <1>5, <1>6 DEF Repair
<1>8. m \in Seqs BY <1>0, <1>1, <1>2 DEF Seqs
<1> QED BY <1>2, <1>7, <1>8 DEF Sent, Frames

\* What try_recover makes of group s: it stays as it is, and is not ripe; or it is
\* closed, complete with what was rebuilt.
Closed(d, c, s) ==
    /\ Gone(c, s)
    /\ c.done = [d.done EXCEPT ![DoneSlot(s)] = s]
    /\ Members(s) \subseteq d.got[s] \cup Seq1(c)
    /\ \A f \in c.out : Sent(f) /\ f.seq \in Members(s)

Open(d, c, s) == c = d /\ (d.par[s] # << >> => Cardinality(Members(s) \ d.got[s]) # 1)

\* try_recover leaves other groups alone.
LEMMA SettleForm ==
    ASSUME NEW d, DecOK(d), NEW s \in Starts, NEW c, c = Settle(d, s)
    PROVE  /\ DecOK(c) /\ c.retired = d.retired /\ c.evicted = d.evicted
           /\ \A t \in Starts \ {s} : Same(d, c, t)
           /\ Open(d, c, s) \/ Closed(d, c, s)
<1>0. d \in DecT /\ K \in Nat /\ s \in Nat BY FecAssumption, StartsForm DEF DecOK
<1>1. PICK mis : mis = Members(s) \ d.got[s] OBVIOUS
<1>2. IsFiniteSet(mis) /\ Cardinality(mis) \in Nat
  <2>1. s \in Int /\ s + K - 1 \in Int BY <1>0
  <2>2. IsFiniteSet(Members(s)) BY <2>1, FS_Interval DEF Members
  <2>3. mis \in SUBSET Members(s) BY <1>1
  <2>4. IsFiniteSet(mis) BY <2>2, <2>3, FS_Subset
  <2> QED BY <2>4, FS_CardinalityType
<1>3. CASE mis # {} /\ (d.par[s] = << >> \/ Cardinality(mis) > 1)
  <2>1. c = d BY <1>1, <1>3 DEF Settle
  <2>2. d.par[s] # << >> => Cardinality(mis) # 1 BY <1>2, <1>3
  <2> QED BY <1>1, <2>1, <2>2 DEF Open, Same
<1>4. CASE ~(mis # {} /\ (d.par[s] = << >> \/ Cardinality(mis) > 1))
  <2>1. PICK x : x = DropGroups(d, {s}) OBVIOUS
  <2>2. PICK o : o = {Repair(d.par[s], d.got[s], m, s) : m \in mis} OBVIOUS
  <2>3. c = [x EXCEPT !.done[DoneSlot(s)] = s, !.out = o]
    BY <1>1, <1>4, <2>1, <2>2 DEF Settle
  <2>4. /\ x \in DecT
        /\ x.done = d.done /\ x.cleanup = d.cleanup /\ x.retired = d.retired
        /\ x.out = d.out /\ x.evicted = d.evicted
        /\ \A t \in Starts : IF t \in {s} THEN Gone(x, t) ELSE Same(d, x, t)
    BY <1>0, <2>1, DropForm
  <2>5. DecOK(x) BY <2>1, DroppedOK
  <2>6. PICK e : e = [d.done EXCEPT ![DoneSlot(s)] = s] OBVIOUS
  <2>7. /\ c.got = x.got /\ c.par = x.par /\ c.done = e /\ c.cleanup = x.cleanup
        /\ c.retired = x.retired /\ c.out = o /\ c.evicted = x.evicted
    BY <2>3, <2>4, <2>6 DEF DecT
  <2>8. /\ \A f \in o : Sent(f) /\ f.seq \in mis /\ f \in Frames
        /\ \A m \in mis : \E f \in o : f.seq = m
    <3>1. CASE mis = {} BY <2>2, <3>1
    <3>2. CASE mis # {}
      <4>1. d.par[s] # << >> /\ Cardinality(mis) <= 1 BY <1>2, <1>4, <3>2
      <4>2. Cardinality(mis) # 0 BY <1>2, <3>2, FS_EmptySet
      <4>3. Cardinality(mis) = 1 BY <1>2, <4>1, <4>2
      <4>4. PICK m : mis = {m} BY <1>2, <4>3, FS_Singleton
      <4>5. PICK f : f = Repair(d.par[s], d.got[s], m, s) OBVIOUS
      <4>6. o = {f} BY <2>2, <4>4, <4>5
      <4>7. IsGroup(d.par[s], s) /\ d.got[s] \subseteq Members(s) BY <4>1 DEF DecOK
      <4>8. PICK p, g : p = d.par[s] /\ g = d.got[s] OBVIOUS
      <4>9. /\ IsGroup(p, s) /\ g \subseteq Members(s) /\ Members(s) \ g = {m}
            /\ f = Repair(p, g, m, s)
        BY <1>1, <4>4, <4>5, <4>7, <4>8
      <4>10. Sent(f) /\ f.seq = m /\ f \in Frames BY <4>9, RepairForm
      <4> QED BY <4>4, <4>6, <4>10
    <3> QED BY <3>1, <3>2
  <2>9. c \in DecT
    <3>1. o \in SUBSET Frames BY <2>8
    <3>2. e \in [0..DoneSlots - 1 -> Int]
      <4>1. d.done \in [0..DoneSlots - 1 -> Int] /\ s \in Int BY <1>0 DEF DecT
      <4> QED BY <2>6, <4>1
    <3>3. c = [x EXCEPT !.done = e, !.out = o] BY <2>3, <2>4, <2>6 DEF DecT
    <3> QED BY <2>4, <3>1, <3>2, <3>3 DEF DecT
  <2>10. DecOK(c) BY <2>5, <2>7, <2>9 DEF DecOK
  <2>11. Gone(c, s) /\ \A t \in Starts \ {s} : Same(d, c, t) BY <2>4, <2>7 DEF Gone, Same
  <2>12. Members(s) \subseteq d.got[s] \cup Seq1(c)
    <3>1. mis \subseteq Seq1(c) BY <2>7, <2>8 DEF Seq1
    <3> QED BY <1>1, <3>1
  <2>13. \A f \in c.out : Sent(f) /\ f.seq \in Members(s) BY <1>1, <2>7, <2>8
  <2>14. Closed(d, c, s) BY <2>6, <2>7, <2>11, <2>12, <2>13 DEF Closed
  <2> QED BY <2>4, <2>7, <2>10, <2>11, <2>14
<1> QED BY <1>3, <1>4

Put(d, s, g, p) == [d EXCEPT !.got = [d.got EXCEPT ![s] = g], !.par = [d.par EXCEPT ![s] = p]]

\* A frame or a parity record that belongs to s is added to a decoder that has room.
LEMMA PutForm ==
    ASSUME NEW d, DecOK(d), NEW s \in Starts, ~(s < d.retired), NEW g, NEW p, NEW c,
           g \subseteq Members(s), p \in Seq(Int), p # << >> => IsGroup(p, s),
           c = Put(d, s, g, p)
    PROVE  /\ DecOK(c) /\ c.retired = d.retired /\ c.evicted = d.evicted /\ c.done = d.done
           /\ c.out = d.out /\ c.got[s] = g /\ c.par[s] = p
           /\ \A t \in Starts \ {s} : Same(d, c, t)
<1>0. d \in DecT /\ K \in Nat /\ s \in Nat BY FecAssumption, StartsForm DEF DecOK
<1>1. d.got \in [Starts -> SUBSET Int] /\ d.par \in [Starts -> Seq(Int)] BY <1>0 DEF DecT
<1>2. PICK x, y : x = [d.got EXCEPT ![s] = g] /\ y = [d.par EXCEPT ![s] = p] OBVIOUS
<1>3. g \in SUBSET Int BY <1>0 DEF Members
<1>4. x \in [Starts -> SUBSET Int] /\ x[s] = g /\ \A t \in Starts \ {s} : x[t] = d.got[t]
  BY <1>1, <1>2, <1>3
<1>5. y \in [Starts -> Seq(Int)] /\ y[s] = p /\ \A t \in Starts \ {s} : y[t] = d.par[t]
  BY <1>1, <1>2
<1>6. /\ c.got = x /\ c.par = y /\ c.done = d.done /\ c.cleanup = d.cleanup
      /\ c.retired = d.retired /\ c.out = d.out /\ c.evicted = d.evicted
  BY <1>0, <1>2 DEF DecT, Put
<1>7. c \in DecT BY <1>0, <1>2, <1>4, <1>5 DEF DecT, Put
<1>8. \A t \in Starts \ {s} : Same(d, c, t) BY <1>4, <1>5, <1>6 DEF Same
<1>9. ASSUME NEW t \in Starts
      PROVE  /\ c.got[t] \subseteq Members(t)
             /\ c.par[t] # << >> => IsGroup(c.par[t], t)
             /\ t < c.retired => c.got[t] = {} /\ c.par[t] = << >>
  <2>1. CASE t = s BY <1>4, <1>5, <1>6, <2>1
  <2>2. CASE t # s BY <1>4, <1>5, <1>6, <2>2 DEF DecOK
  <2> QED BY <2>1, <2>2
<1>10. DecOK(c) BY <1>6, <1>7, <1>9 DEF DecOK
<1> QED BY <1>4, <1>5, <1>6, <1>8, <1>10

\* What a record of group s does to the decoder, when the group then has the frames
\* g and the parity p: other groups stay or are given up, and s is open or closed.
Outcome(d, c, s, g, p) ==
    /\ DecOK(c) /\ c.retired = d.retired /\ d.evicted \subseteq c.evicted
    /\ \A f \in c.out : Sent(f)
    /\ \A t \in Starts \ {s} :
         /\ c.got[t] \subseteq d.got[t]
         /\ Same(d, c, t) \/ t \in c.evicted
         /\ IsDone(c, t) => IsDone(d, t)
    /\ \/ /\ c.got[s] = g /\ c.par[s] = p
          /\ IsDone(c, s) => IsDone(d, s)
          /\ p # << >> => Cardinality(Members(s) \ g) # 1
       \/ Gone(c, s) /\ Members(s) \subseteq g \cup Seq1(c)

\* A record of group s is added, after room was made for it, and the group settled.
LEMMA TakeForm ==
    ASSUME NEW d, DecOK(d), d.out = {}, NEW s \in Starts, ~(s < d.retired), NEW g, NEW p,
           g \subseteq Members(s), p \in Seq(Int), p # << >> => IsGroup(p, s),
           NEW x, x = Entry(d, s), NEW y, y = Put(x, s, g, p), NEW c, c = Settle(y, s)
    PROVE  Outcome(d, c, s, g, p)
<1>1. /\ DecOK(x) /\ x.done = d.done /\ x.out = d.out /\ x.retired = d.retired
      /\ d.evicted \subseteq x.evicted
      /\ \A t \in Starts : x.got[t] \subseteq d.got[t] /\ (Same(d, x, t) \/ t \in x.evicted)
  BY EntryForm
<1>2. /\ DecOK(y) /\ y.retired = x.retired /\ y.evicted = x.evicted /\ y.done = x.done
      /\ y.out = x.out /\ y.got[s] = g /\ y.par[s] = p
      /\ \A t \in Starts \ {s} : Same(x, y, t)
  <2>1. ~(s < x.retired) BY <1>1
  <2> QED BY <1>1, <2>1, PutForm
<1>3. /\ DecOK(c) /\ c.retired = y.retired /\ c.evicted = y.evicted
      /\ \A t \in Starts \ {s} : Same(y, c, t)
      /\ Open(y, c, s) \/ Closed(y, c, s)
  BY <1>2, SettleForm
<1>4. d.done \in [0..DoneSlots - 1 -> Int] BY DEF DecOK, DecT
<1>5. \A t \in Starts : DoneSlot(t) \in 0..DoneSlots - 1 BY SlotForm
<1>6. ASSUME NEW t \in Starts \ {s}
      PROVE  c.got[t] \subseteq d.got[t] /\ (Same(d, c, t) \/ t \in c.evicted)
  <2>1. Same(x, y, t) /\ Same(y, c, t) BY <1>2, <1>3
  <2>2. x.got[t] \subseteq d.got[t] /\ (Same(d, x, t) \/ t \in x.evicted) BY <1>1
  <2> QED BY <1>2, <1>3, <2>1, <2>2 DEF Same
<1>7. c.retired = d.retired /\ d.evicted \subseteq c.evicted BY <1>1, <1>2, <1>3
<1>8. CASE Open(y, c, s)
  <2>1. c = y /\ (p # << >> => Cardinality(Members(s) \ g) # 1) BY <1>2, <1>8 DEF Open
  <2>2. c.done = d.done /\ c.out = {} BY <1>1, <1>2, <2>1
  <2>3. \A t \in Starts : IsDone(c, t) => IsDone(d, t) BY <2>2 DEF IsDone
  <2> QED BY <1>2, <1>3, <1>6, <1>7, <2>1, <2>2, <2>3 DEF Outcome
<1>9. CASE Closed(y, c, s)
  <2>1. /\ Gone(c, s) /\ c.done = [d.done EXCEPT ![DoneSlot(s)] = s]
        /\ Members(s) \subseteq g \cup Seq1(c) /\ \A f \in c.out : Sent(f)
    BY <1>1, <1>2, <1>9 DEF Closed
  <2>2. ASSUME NEW t \in Starts \ {s}, IsDone(c, t) PROVE IsDone(d, t)
    <3>1. c.done[DoneSlot(t)] = t BY <2>2 DEF IsDone
    <3>2. CASE DoneSlot(t) = DoneSlot(s)
      <4>1. c.done[DoneSlot(t)] = s BY <1>4, <1>5, <2>1, <3>2
      <4> QED BY <3>1, <4>1
    <3>3. CASE DoneSlot(t) # DoneSlot(s)
      <4>1. c.done[DoneSlot(t)] = d.done[DoneSlot(t)] BY <1>4, <1>5, <2>1, <3>3
      <4> QED BY <3>1, <4>1 DEF IsDone
    <3> QED BY <3>2, <3>3
  <2> QED BY <1>3, <1>6, <1>7, <2>1, <2>2 DEF Outcome
<1> QED BY <1>3, <1>8, <1>9

\* The record of group s takes what was read from D to E, or from P to Q.
Grown(d, s, g, p, D, E, P, Q) ==
    /\ D \subseteq E /\ g \subseteq E
    /\ \A t \in Starts \ {s} : E \cap Members(t) = D \cap Members(t) /\ (t \in Q => t \in P)
    /\ d.got[s] = D \cap Members(s) => g = E \cap Members(s)
    /\ d.par[s] # << >> => p # << >>
    /\ s \in Q => s \in P \/ p # << >>

\* The groups after a record of group s was taken.
LEMMA GroupsTake ==
    ASSUME NEW d, NEW c, NEW s \in Starts, NEW g, NEW p, ~(s < d.retired), Outcome(d, c, s, g, p),
           NEW D, NEW E, NEW R, NEW P, NEW Q, NEW F, Groups(d, D, R, P, F),
           Grown(d, s, g, p, D, E, P, Q)
    PROVE  Groups(c, E, R \cup Seq1(c), Q, F)
<1>7. /\ D \subseteq E /\ g \subseteq E
      /\ \A t \in Starts \ {s} : E \cap Members(t) = D \cap Members(t) /\ (t \in Q => t \in P)
      /\ d.got[s] = D \cap Members(s) => g = E \cap Members(s)
      /\ d.par[s] # << >> => p # << >>
      /\ s \in Q => s \in P \/ p # << >>
  BY DEF Grown
<1>0. /\ c.retired = d.retired /\ d.evicted \subseteq c.evicted
      /\ \A t \in Starts \ {s} :
           /\ c.got[t] \subseteq d.got[t]
           /\ Same(d, c, t) \/ t \in c.evicted
           /\ IsDone(c, t) => IsDone(d, t)
      /\ \/ /\ c.got[s] = g /\ c.par[s] = p
            /\ IsDone(c, s) => IsDone(d, s)
            /\ p # << >> => Cardinality(Members(s) \ g) # 1
         \/ Gone(c, s) /\ Members(s) \subseteq g \cup Seq1(c)
  BY DEF Outcome
<1> DEFINE S == R \cup Seq1(c)
<1> SUFFICES ASSUME NEW t \in Starts
             PROVE  /\ IsDone(c, t) => Members(t) \subseteq E \cup S
                    /\ c.got[t] \subseteq E
                    /\ F = 0 \/ t < F => GroupOK(c, t, E, S, Q)
  BY DEF Groups
<1>1. /\ IsDone(d, t) => Members(t) \subseteq D \cup R
      /\ d.got[t] \subseteq D
      /\ F = 0 \/ t < F => GroupOK(d, t, D, R, P)
  BY DEF Groups
<1>2. R \subseteq S OBVIOUS
<1>3. Seq1(c) \subseteq S OBVIOUS
<1> HIDE DEF S
<1>4. CASE t # s
  <2>1. /\ c.got[t] \subseteq d.got[t] /\ (Same(d, c, t) \/ t \in c.evicted)
        /\ (IsDone(c, t) => IsDone(d, t))
        /\ E \cap Members(t) = D \cap Members(t) /\ (t \in Q => t \in P)
    BY <1>7, <1>0, <1>4
  <2>2. ASSUME GroupOK(d, t, D, R, P) PROVE GroupOK(c, t, E, S, Q)
    <3>1. CASE Members(t) \subseteq D \cup R BY <1>7, <1>2, <3>1 DEF GroupOK
    <3>2. CASE t \in d.evicted \/ t \in c.evicted BY <1>0, <3>2 DEF GroupOK
    <3>3. CASE t < d.retired BY <1>0, <3>3 DEF GroupOK
    <3>4. CASE /\ Same(d, c, t)
               /\ d.got[t] = D \cap Members(t)
               /\ t \in P => d.par[t] # << >>
               /\ d.par[t] # << >> => Cardinality(Members(t) \ d.got[t]) # 1
      <4>1. c.got[t] = d.got[t] /\ c.par[t] = d.par[t] BY <3>4 DEF Same
      <4>2. /\ c.got[t] = E \cap Members(t)
            /\ t \in Q => c.par[t] # << >>
            /\ c.par[t] # << >> => Cardinality(Members(t) \ c.got[t]) # 1
        BY <2>1, <3>4, <4>1
      <4> QED BY <4>2 DEF GroupOK
    <3> QED BY <2>1, <2>2, <3>1, <3>2, <3>3, <3>4 DEF GroupOK
  <2> QED BY <1>7, <1>1, <1>2, <2>1, <2>2
<1>5. CASE t = s /\ Gone(c, s) /\ Members(s) \subseteq g \cup Seq1(c)
  <2>1. Members(t) \subseteq E \cup S BY <1>7, <1>3, <1>5
  <2>2. c.got[t] \subseteq E BY <1>5 DEF Gone
  <2> QED BY <2>1, <2>2 DEF GroupOK
<1>6. CASE /\ t = s /\ c.got[s] = g /\ c.par[s] = p
           /\ IsDone(c, s) => IsDone(d, s)
           /\ p # << >> => Cardinality(Members(s) \ g) # 1
  <2>1. ASSUME GroupOK(d, t, D, R, P) PROVE GroupOK(c, t, E, S, Q)
    <3>1. CASE Members(t) \subseteq D \cup R BY <1>7, <1>2, <3>1 DEF GroupOK
    <3>2. CASE t \in d.evicted BY <1>0, <3>2 DEF GroupOK
    <3>3. CASE t < d.retired BY <1>6, <3>3
    <3>4. CASE /\ d.got[t] = D \cap Members(t)
               /\ t \in P => d.par[t] # << >>
      <4>1. /\ c.got[t] = E \cap Members(t)
            /\ t \in Q => c.par[t] # << >>
            /\ c.par[t] # << >> => Cardinality(Members(t) \ c.got[t]) # 1
        BY <1>7, <1>6, <3>4
      <4> QED BY <4>1 DEF GroupOK
    <3> QED BY <2>1, <3>1, <3>2, <3>3, <3>4 DEF GroupOK
  <2> QED BY <1>7, <1>1, <1>2, <1>6, <2>1
<1> QED BY <1>0, <1>4, <1>5, <1>6

\* The groups when groups were only retired, and the record that was read is one of
\* a group that is not owed anything.
LEMMA GroupsSkip ==
    ASSUME NEW d, NEW c, NEW D, NEW E, NEW R, NEW P, NEW Q, NEW F, Groups(d, D, R, P, F),
           DecOK(d), DecOK(c), c.done = d.done, d.evicted \subseteq c.evicted, c.retired >= d.retired,
           \A t \in Starts : c.got[t] \subseteq d.got[t] /\
                             (Same(d, c, t) \/ t < c.retired \/ (F # 0 /\ ~(t < F))),
           D \subseteq E, NEW s,
           \A t \in Starts \ {s} : E \cap Members(t) = D \cap Members(t) /\ (t \in Q => t \in P),
           \/ F # 0 /\ ~(s < F)
           \/ s < c.retired
           \/ IsDone(d, s)
           \/ E = D /\ (s \in Q => s \in P)
           \/ E = D /\ c.par[s] # << >>
    PROVE  Groups(c, E, R, Q, F)
<1> SUFFICES ASSUME NEW t \in Starts
             PROVE  /\ IsDone(c, t) => Members(t) \subseteq E \cup R
                    /\ c.got[t] \subseteq E
                    /\ F = 0 \/ t < F => GroupOK(c, t, E, R, Q)
  BY DEF Groups
<1>1. /\ IsDone(d, t) => Members(t) \subseteq D \cup R
      /\ d.got[t] \subseteq D
      /\ F = 0 \/ t < F => GroupOK(d, t, D, R, P)
  BY DEF Groups
<1>2. IsDone(c, t) => IsDone(d, t) BY DEF IsDone
<1>3. t \in Nat /\ c.retired \in Nat /\ d.retired \in Nat BY StartsForm DEF DecOK, DecT
<1>4. ASSUME F = 0 \/ t < F PROVE GroupOK(c, t, E, R, Q)
  <2>0. GroupOK(d, t, D, R, P) /\ ~(F # 0 /\ ~(t < F)) BY <1>1, <1>4
  <2>1. CASE Members(t) \subseteq D \cup R BY <2>1 DEF GroupOK
  <2>2. CASE t \in d.evicted BY <2>2 DEF GroupOK
  <2>3. CASE t < c.retired BY <2>3 DEF GroupOK
  <2>4. CASE /\ Same(d, c, t)
             /\ d.got[t] = D \cap Members(t)
             /\ t \in P => d.par[t] # << >>
             /\ d.par[t] # << >> => Cardinality(Members(t) \ d.got[t]) # 1
    <3>1. c.got[t] = d.got[t] /\ c.par[t] = d.par[t] BY <2>4 DEF Same
    <3>2. CASE t # s \/ (E = D /\ ((s \in Q => s \in P) \/ c.par[s] # << >>))
      <4>1. /\ c.got[t] = E \cap Members(t)
            /\ t \in Q => c.par[t] # << >>
            /\ c.par[t] # << >> => Cardinality(Members(t) \ c.got[t]) # 1
        BY <2>4, <3>1, <3>2
      <4> QED BY <4>1 DEF GroupOK
    <3>3. CASE t = s /\ ~(E = D /\ ((s \in Q => s \in P) \/ c.par[s] # << >>))
      <4>1. s < c.retired \/ IsDone(d, s) BY <2>0, <3>3
      <4>2. CASE s < c.retired BY <3>3, <4>2 DEF GroupOK
      <4>3. CASE IsDone(d, s) BY <1>1, <3>3, <4>3 DEF GroupOK
      <4> QED BY <4>1, <4>2, <4>3
    <3> QED BY <3>2, <3>3
  <2>5. t < d.retired => t < c.retired BY <1>3
  <2>6. Same(d, c, t) \/ t < c.retired BY <2>0
  <2> QED BY <2>0, <2>1, <2>2, <2>3, <2>4, <2>5, <2>6 DEF GroupOK
<1> QED BY <1>1, <1>2, <1>4

\* The frame q is added to group s.
LEMMA PutData ==
    ASSUME NEW x \in DecT, NEW s \in Starts, NEW q
    PROVE  [x EXCEPT !.got[s] = @ \cup {q}] = Put(x, s, x.got[s] \cup {q}, x.par[s])
<1>1. x.got \in [Starts -> SUBSET Int] /\ x.par \in [Starts -> Seq(Int)] BY DEF DecT
<1>2. [x.par EXCEPT ![s] = x.par[s]] = x.par BY <1>1
<1> QED BY <1>1, <1>2 DEF Put, DecT

\* The parity record m is added to group s.
LEMMA PutParity ==
    ASSUME NEW x \in DecT, NEW s \in Starts, NEW m
    PROVE  [x EXCEPT !.par[s] = m] = Put(x, s, x.got[s], m)
<1>1. x.got \in [Starts -> SUBSET Int] /\ x.par \in [Starts -> Seq(Int)] BY DEF DecT
<1>2. [x.got EXCEPT ![s] = x.got[s]] = x.got BY <1>1
<1> QED BY <1>1, <1>2 DEF Put, DecT

\* What the decoder is when it has processed a record: D and P are what was read.
Processed(c, D, P) ==
    /\ DecOK(c)
    /\ \A f \in c.out : Sent(f)
    /\ c.retired = dec.retired \/ c.retired <= reorder.expected
    /\ Groups(c, D, Rebuilt \cup Seq1(c), P, firstSuspend)

\* The decoder at the beginning of a call, which has not rebuilt anything yet.
LEMMA FreshForm ==
    ASSUME ReceiverInv, GroupInv, NEW d, d = Fresh
    PROVE  /\ DecOK(d) /\ d.out = {} /\ d.retired = dec.retired /\ d.cleanup = dec.cleanup
           /\ d.done = dec.done /\ d.evicted = dec.evicted
           /\ Groups(d, rxData, Rebuilt, rxParity, firstSuspend)
<1>1. DecOK(dec) /\ dec \in DecT BY DEF ReceiverInv, DecOK
<1>2. /\ d.got = dec.got /\ d.par = dec.par /\ d.done = dec.done /\ d.cleanup = dec.cleanup
      /\ d.retired = dec.retired /\ d.out = {} /\ d.evicted = dec.evicted /\ d \in DecT
  BY <1>1 DEF Fresh, DecT
<1>3. DecOK(d) BY <1>1, <1>2 DEF DecOK
<1>4. Groups(d, rxData, Rebuilt, rxParity, firstSuspend)
  BY <1>2 DEF GroupInv, Groups, GroupOK, IsDone
<1> QED BY <1>2, <1>3, <1>4

\* A call that rebuilds nothing.
LEMMA OutNone ==
    ASSUME NEW c, c.out = {}
    PROVE  Seq1(c) = {} /\ \A f \in c.out : Sent(f)
BY DEF Seq1

\* The sequence q is in its group and in no other.
LEMMA OwnGroup ==
    ASSUME NEW q \in Seqs, NEW s, s = GroupStart(q)
    PROVE  /\ s \in Starts /\ q \in Members(s) /\ s \in Nat /\ q \in Nat /\ s <= q /\ q <= s + K - 1
           /\ \A t \in Starts \ {s} : \A D : (D \cup {q}) \cap Members(t) = D \cap Members(t)
<1>0. K \in Nat /\ MaxSeq \in Nat /\ q \in Nat \ {0} /\ q <= MaxSeq BY FecAssumption DEF Seqs
<1>1. s \in 1..q /\ q <= s + K - 1 /\ s \in Starts BY <1>0, GroupForm, StartsForm
<1>2. q \in Members(s) BY <1>0, <1>1 DEF Members
<1>3. ASSUME NEW t \in Starts \ {s} PROVE q \notin Members(t) BY <1>1, <1>2, MembersApart
<1> QED BY <1>0, <1>1, <1>2, <1>3

\* on_data_actor: a frame is bypassed, ignored or taken.
LEMMA OnDataForm ==
    ASSUME SenderInv, ReceiverInv, GroupInv, NEW q \in Seqs, NEW c, c = OnData(Fresh, q)
    PROVE  Processed(c, rxData \cup {q}, rxParity)
<1>0. /\ reorder.expected \in Nat /\ MaxSeq \in Nat /\ K \in Nat /\ firstSuspend \in Nat
  BY FecAssumption DEF ReceiverInv, ReorderOK, SenderInv
<1>1. PICK d : d = Fresh OBVIOUS
<1>2. /\ DecOK(d) /\ d.out = {} /\ d.retired = dec.retired
      /\ Groups(d, rxData, Rebuilt, rxParity, firstSuspend)
  BY <1>1, FreshForm
<1>3. PICK s : s = GroupStart(q) OBVIOUS
<1>4. /\ s \in Starts /\ q \in Members(s) /\ s \in Nat /\ q \in Nat /\ s <= q
      /\ \A t \in Starts \ {s} : (rxData \cup {q}) \cap Members(t) = rxData \cap Members(t)
  BY <1>3, OwnGroup
<1>5. d.retired \in Nat /\ d \in DecT BY <1>2 DEF DecOK, DecT
<1>6. q < d.retired <=> s < d.retired
  <2>1. ASSUME d.retired # 0, d.retired <= q PROVE d.retired <= s
    <3>1. Aligned(d.retired) /\ q \in Nat \ {0} BY <1>2, <2>1, <1>4, <1>5 DEF DecOK
    <3> QED BY <1>3, <2>1, <3>1, GroupFloor
  <2> QED BY <1>4, <1>5, <2>1
<1>7. CASE BypassData(q)
  <2>1. firstSuspend # 0 /\ ~(s < firstSuspend)
    <3>1. fence.from # 0 /\ q >= fence.from /\ fence.from \in Nat BY <1>7 DEF BypassData, ReceiverInv
    <3>2. firstSuspend # 0 /\ firstSuspend <= fence.from BY <3>1 DEF ReceiverInv
    <3>3. Aligned(firstSuspend) BY <3>2 DEF SenderInv
    <3>4. firstSuspend <= q /\ q \in Nat \ {0} BY <1>0, <1>4, <3>1, <3>2
    <3>5. firstSuspend <= s BY <1>3, <3>3, <3>4, GroupFloor
    <3> QED BY <1>0, <1>4, <3>2, <3>5
  <2>2. /\ DecOK(c) /\ c.done = d.done /\ c.out = {} /\ c.evicted = d.evicted
        /\ c.retired >= d.retired /\ (c.retired = d.retired \/ c.retired <= reorder.expected)
        /\ \A t \in Starts : c.got[t] \subseteq d.got[t] /\ (Same(d, c, t) \/ t < c.retired)
    <3>1. CASE c = d BY <1>2, <1>5, <3>1 DEF Same
    <3>2. CASE c = Retire(d, reorder.expected)
      <4>1. PICK e \in Nat : e = reorder.expected BY <1>0
      <4>2. c = Retire(d, e) BY <3>2, <4>1
      <4>3. /\ DecOK(c) /\ c.done = d.done /\ c.out = d.out /\ c.evicted = d.evicted
            /\ c.retired >= d.retired /\ (c.retired = d.retired \/ c.retired <= e)
            /\ \A t \in Starts : c.got[t] \subseteq d.got[t] /\ (Same(d, c, t) \/ t < c.retired)
        BY <1>2, <4>2, RetireForm
      <4> QED BY <1>2, <4>1, <4>3
    <3>3. c = d \/ c = Retire(d, reorder.expected) BY <1>1, <1>7 DEF OnData
    <3> QED BY <3>1, <3>2, <3>3
  <2>3. Groups(c, rxData \cup {q}, Rebuilt, rxParity, firstSuspend)
    BY <1>2, <1>4, <2>1, <2>2, GroupsSkip
  <2>4. Seq1(c) = {} /\ \A f \in c.out : Sent(f) BY <2>2, OutNone
  <2>5. Rebuilt \cup Seq1(c) = Rebuilt BY <2>4
  <2> QED BY <1>2, <2>2, <2>3, <2>4, <2>5 DEF Processed
<1>8. CASE ~BypassData(q) /\ (q < d.retired \/ IsDone(d, s) \/ q \in d.got[s])
  <2>1. c = d BY <1>1, <1>3, <1>8 DEF OnData
  <2>2. \/ s < d.retired \/ IsDone(d, s) \/ rxData \cup {q} = rxData
    <3>1. d.got[s] \subseteq rxData BY <1>2, <1>4 DEF Groups
    <3> QED BY <1>6, <1>8, <3>1
  <2>3. \A t \in Starts : Same(d, d, t) BY DEF Same
  <2>4. d.retired >= d.retired BY <1>5
  <2>5. Groups(d, rxData \cup {q}, Rebuilt, rxParity, firstSuspend)
    BY <1>2, <1>4, <2>2, <2>3, <2>4, GroupsSkip
  <2>6. Seq1(c) = {} /\ \A f \in c.out : Sent(f) BY <1>2, <2>1, OutNone
  <2>7. Rebuilt \cup Seq1(c) = Rebuilt BY <2>6
  <2> QED BY <1>2, <2>1, <2>5, <2>6, <2>7 DEF Processed
<1>9. CASE ~BypassData(q) /\ ~(q < d.retired \/ IsDone(d, s) \/ q \in d.got[s])
  <2>1. PICK x : x = Entry(d, s) OBVIOUS
  <2>2. DecOK(x) /\ Same(d, x, s) BY <1>2, <1>4, <2>1, EntryForm
  <2>3. x \in DecT BY <2>2 DEF DecOK
  <2>4. PICK g, p : g = d.got[s] \cup {q} /\ p = d.par[s] OBVIOUS
  <2>5. PICK y : y = Put(x, s, g, p) OBVIOUS
  <2>6. c = Settle(y, s)
    <3>1. c = Settle([x EXCEPT !.got[s] = @ \cup {q}], s) BY <1>1, <1>3, <1>9, <2>1 DEF OnData
    <3>2. [x EXCEPT !.got[s] = @ \cup {q}] = Put(x, s, x.got[s] \cup {q}, x.par[s])
      BY <1>4, <2>3, PutData
    <3>3. x.got[s] \cup {q} = g /\ x.par[s] = p BY <2>2, <2>4 DEF Same
    <3> QED BY <2>5, <3>1, <3>2, <3>3
  <2>7. g \subseteq Members(s) /\ p \in Seq(Int) /\ (p # << >> => IsGroup(p, s))
    BY <1>2, <1>4, <1>5, <2>4 DEF DecOK, DecT
  <2>8. ~(s < d.retired) BY <1>6, <1>9
  <2>9. Outcome(d, c, s, g, p) BY <1>2, <1>4, <2>1, <2>5, <2>6, <2>7, <2>8, TakeForm
  <2>10. PICK E : E = rxData \cup {q} OBVIOUS
  <2>11. /\ g \subseteq E /\ rxData \subseteq E
         /\ d.got[s] = rxData \cap Members(s) => g = E \cap Members(s)
         /\ \A t \in Starts \ {s} : E \cap Members(t) = rxData \cap Members(t)
    <3>1. d.got[s] \subseteq rxData BY <1>2, <1>4 DEF Groups
    <3> QED BY <1>4, <2>4, <2>10, <3>1
  <2>14. Grown(d, s, g, p, rxData, E, rxParity, rxParity) BY <2>4, <2>11 DEF Grown
  <2>12. Groups(c, E, Rebuilt \cup Seq1(c), rxParity, firstSuspend)
    BY <1>2, <1>4, <2>8, <2>9, <2>14, GroupsTake
  <2>13. DecOK(c) /\ c.retired = d.retired /\ \A f \in c.out : Sent(f) BY <2>9 DEF Outcome
  <2> QED BY <1>2, <2>10, <2>12, <2>13 DEF Processed
<1> QED BY <1>7, <1>8, <1>9

\* on_parity_actor: a parity record is ignored or taken.
LEMMA OnParityForm ==
    ASSUME SenderInv, ReceiverInv, GroupInv, NEW s \in Starts, NEW m, IsGroup(m, s),
           NEW c, c = OnParity(Fresh, m)
    PROVE  Processed(c, rxData, rxParity \cup {s}) /\ m[1] = s
<1>0. /\ reorder.expected \in Nat /\ MaxSeq \in Nat /\ K \in Nat /\ K >= 2 /\ firstSuspend \in Nat
  BY FecAssumption DEF ReceiverInv, ReorderOK, SenderInv
<1>1. m \in Seq(Int) /\ Len(m) = K /\ m[1] = s /\ m # << >>
  <2>1. m \in Seq(Int) /\ Len(m) = K /\ \A i \in 1..K : m[i] = s + i - 1 BY DEF IsGroup, IsRun
  <2>2. 1 \in 1..K /\ s \in Nat BY <1>0, StartsForm
  <2>3. m[1] = s BY <2>1, <2>2
  <2>4. m # << >> BY <1>0, <2>1
  <2> QED BY <2>1, <2>3, <2>4
<1>2. PICK f0 : f0 = Fresh OBVIOUS
<1>3. /\ DecOK(f0) /\ f0.out = {} /\ f0.retired = dec.retired
      /\ Groups(f0, rxData, Rebuilt, rxParity, firstSuspend)
  BY <1>2, FreshForm
<1>4. PICK d : d = Retire(f0, reorder.expected) OBVIOUS
<1>5. /\ DecOK(d) /\ d.done = f0.done /\ d.out = {} /\ d.evicted = f0.evicted
      /\ d.retired >= f0.retired /\ (d.retired = f0.retired \/ d.retired <= reorder.expected)
      /\ \A t \in Starts : d.got[t] \subseteq f0.got[t] /\ (Same(f0, d, t) \/ t < d.retired)
  <2>1. PICK e \in Nat : e = reorder.expected BY <1>0
  <2>2. d = Retire(f0, e) BY <1>4, <2>1
  <2>3. /\ DecOK(d) /\ d.done = f0.done /\ d.out = f0.out /\ d.evicted = f0.evicted
        /\ d.retired >= f0.retired /\ (d.retired = f0.retired \/ d.retired <= e)
        /\ \A t \in Starts : d.got[t] \subseteq f0.got[t] /\ (Same(f0, d, t) \/ t < d.retired)
    BY <1>3, <2>2, RetireForm
  <2> QED BY <1>3, <2>1, <2>3
<1>6. CASE s < d.retired \/ IsDone(d, s) \/ d.par[s] # << >>
  <2>1. c = d BY <1>1, <1>2, <1>4, <1>6 DEF OnParity
  <2>2. s < d.retired \/ IsDone(f0, s) \/ d.par[s] # << >> BY <1>5, <1>6 DEF IsDone
  <2>3. \A t \in Starts \ {s} : t \in rxParity \cup {s} => t \in rxParity OBVIOUS
  <2>4. Groups(d, rxData, Rebuilt, rxParity \cup {s}, firstSuspend)
    BY <1>3, <1>5, <2>2, <2>3, GroupsSkip
  <2>5. Seq1(c) = {} /\ \A f \in c.out : Sent(f) BY <1>5, <2>1, OutNone
  <2>6. Rebuilt \cup Seq1(c) = Rebuilt BY <2>5
  <2> QED BY <1>1, <1>3, <1>5, <2>1, <2>4, <2>5, <2>6 DEF Processed
<1>7. CASE ~(s < d.retired \/ IsDone(d, s) \/ d.par[s] # << >>)
  <2>1. PICK x : x = Entry(d, s) OBVIOUS
  <2>2. DecOK(x) /\ Same(d, x, s) BY <1>5, <2>1, EntryForm
  <2>3. x \in DecT BY <2>2 DEF DecOK
  <2>4. PICK g : g = d.got[s] OBVIOUS
  <2>5. PICK y : y = Put(x, s, g, m) OBVIOUS
  <2>6. c = Settle(y, s)
    <3>1. c = Settle([x EXCEPT !.par[s] = m], s)
      <4>1. c = IF m[1] < d.retired \/ IsDone(d, m[1]) \/ d.par[m[1]] # << >> THEN d
                ELSE Settle([Entry(d, m[1]) EXCEPT !.par[m[1]] = m], m[1])
        BY <1>2, <1>4 DEF OnParity
      <4>2. c = IF s < d.retired \/ IsDone(d, s) \/ d.par[s] # << >> THEN d
                ELSE Settle([Entry(d, s) EXCEPT !.par[s] = m], s)
        BY <1>1, <4>1
      <4> QED BY <1>7, <2>1, <4>2
    <3>2. [x EXCEPT !.par[s] = m] = Put(x, s, x.got[s], m) BY <2>3, PutParity
    <3>3. x.got[s] = g BY <2>2, <2>4 DEF Same
    <3> QED BY <2>5, <3>1, <3>2, <3>3
  <2>7. g \subseteq Members(s) BY <1>5, <2>4 DEF DecOK
  <2>8. ~(s < d.retired) BY <1>7
  <2>9. Outcome(d, c, s, g, m) BY <1>1, <1>5, <2>1, <2>5, <2>6, <2>7, <2>8, TakeForm
  <2>10. Groups(d, rxData, Rebuilt, rxParity, firstSuspend)
    <3>1. \A t \in Starts \ {s} : t \in rxParity => t \in rxParity OBVIOUS
    <3> QED BY <1>3, <1>5, GroupsSkip
  <2>11. g \subseteq rxData BY <2>4, <2>10 DEF Groups
  <2>12. PICK Q : Q = rxParity \cup {s} OBVIOUS
  <2>13. \A t \in Starts \ {s} : t \in Q => t \in rxParity BY <2>12
  <2>16. Grown(d, s, g, m, rxData, rxData, rxParity, Q) BY <1>1, <2>4, <2>11, <2>13 DEF Grown
  <2>14. Groups(c, rxData, Rebuilt \cup Seq1(c), Q, firstSuspend)
    BY <2>8, <2>9, <2>10, <2>16, GroupsTake
  <2>15. DecOK(c) /\ c.retired = d.retired /\ \A f \in c.out : Sent(f) BY <2>9 DEF Outcome
  <2> QED BY <1>1, <1>3, <1>5, <2>12, <2>14, <2>15 DEF Processed
<1> QED BY <1>6, <1>7

\* A control that was applied drops groups of the suspended window only.
LEMMA OnModeForm ==
    ASSUME SenderInv, ReceiverInv, GroupInv, NEW f, f.from \in Nat,
           f.from # 0 => Aligned(f.from) /\ firstSuspend # 0 /\ firstSuspend <= f.from,
           NEW c, c = OnMode(Fresh, f)
    PROVE  Processed(c, rxData, rxParity) /\ c.out = {}
<1>0. /\ reorder.expected \in Nat /\ MaxSeq \in Nat /\ K \in Nat /\ firstSuspend \in Nat
  BY FecAssumption DEF ReceiverInv, ReorderOK, SenderInv
<1>1. PICK d : d = Fresh OBVIOUS
<1>2. /\ DecOK(d) /\ d.out = {} /\ d.retired = dec.retired
      /\ Groups(d, rxData, Rebuilt, rxParity, firstSuspend)
  BY <1>1, FreshForm
<1>3. d \in DecT /\ d.cleanup \in Nat /\ d.retired \in Nat /\ d.retired <= d.cleanup
  BY <1>2 DEF DecOK, DecT
<1>4. CASE f.from = 0
  <2>1. c = d BY <1>1, <1>4 DEF OnMode
  <2>2. Seq1(c) = {} /\ \A x \in c.out : Sent(x) BY <1>2, <2>1, OutNone
  <2>3. Rebuilt \cup Seq1(c) = Rebuilt BY <2>2
  <2> QED BY <1>2, <2>1, <2>2, <2>3 DEF Processed
<1>5. CASE f.from # 0
  <2>1. PICK D : D = {s \in Starts : s >= f.from /\ (f.until = 0 \/ s < f.until)} OBVIOUS
  <2>2. PICK x : x = DropGroups(d, D) OBVIOUS
  <2>3. /\ x \in DecT
        /\ x.done = d.done /\ x.cleanup = d.cleanup /\ x.retired = d.retired
        /\ x.out = d.out /\ x.evicted = d.evicted
        /\ \A t \in Starts : IF t \in D THEN Gone(x, t) ELSE Same(d, x, t)
    BY <1>3, <2>2, DropForm
  <2>4. DecOK(x) /\ \A t \in Starts : x.got[t] \subseteq d.got[t] BY <1>2, <2>2, DroppedOK
  <2>5. PICK n : n = Max({d.cleanup, f.from}) OBVIOUS
  <2>6. n \in {d.cleanup, f.from} /\ n >= d.cleanup /\ n >= f.from BY <1>3, <2>5, MaxTwo
  <2>7. PICK y : y = [x EXCEPT !.cleanup = n] OBVIOUS
  <2>8. c = Retire(y, reorder.expected)
    <3>1. [DropGroups(d, D) EXCEPT !.cleanup = Max({@, f.from})] = y BY <2>2, <2>3, <2>5, <2>7 DEF DecT
    <3> QED BY <1>1, <1>5, <2>1, <3>1 DEF OnMode
  <2>9. /\ y.got = x.got /\ y.par = x.par /\ y.done = x.done /\ y.cleanup = n
        /\ y.retired = x.retired /\ y.out = x.out /\ y.evicted = x.evicted
    BY <2>3, <2>7 DEF DecT
  <2>10. n \in Nat /\ Aligned(n) /\ y.retired <= n
    <3>1. n \in Nat BY <1>3, <2>6
    <3>2. n # 0 BY <1>5, <2>6, <3>1
    <3>3. Aligned(n)
      <4>1. CASE n = f.from BY <1>5, <4>1
      <4>2. CASE n = d.cleanup BY <1>2, <3>2, <4>2 DEF DecOK
      <4> QED BY <2>6, <4>1, <4>2
    <3>4. y.retired <= n BY <1>3, <2>3, <2>6, <2>9, <3>1
    <3> QED BY <3>1, <3>3, <3>4
  <2>11. y \in DecT BY <2>3, <2>7, <2>10 DEF DecT
  <2>12. DecOK(y) BY <2>4, <2>9, <2>10, <2>11 DEF DecOK
  <2>13. PICK e \in Nat : e = reorder.expected BY <1>0
  <2>14. /\ DecOK(c) /\ c.done = y.done /\ c.out = y.out /\ c.evicted = y.evicted
         /\ c.retired >= y.retired /\ (c.retired = y.retired \/ c.retired <= e)
         /\ \A t \in Starts : c.got[t] \subseteq y.got[t] /\ (Same(y, c, t) \/ t < c.retired)
    <3>1. c = Retire(y, e) BY <2>8, <2>13
    <3> QED BY <2>12, <3>1, RetireForm
  <2>15. ASSUME NEW t \in Starts
         PROVE  /\ c.got[t] \subseteq d.got[t]
                /\ Same(d, c, t) \/ t < c.retired \/ (firstSuspend # 0 /\ ~(t < firstSuspend))
    <3>1. c.got[t] \subseteq d.got[t] BY <2>4, <2>9, <2>14
    <3>2. CASE t \in D
      <4>1. t \in Nat /\ t >= f.from BY <2>1, <3>2, StartsForm
      <4> QED BY <1>0, <1>5, <3>1, <4>1
    <3>3. CASE t \notin D BY <2>3, <2>9, <2>14, <3>1, <3>3 DEF Same
    <3> QED BY <3>2, <3>3
  <2>16. c.done = d.done /\ c.evicted = d.evicted /\ c.retired >= d.retired /\ c.out = {}
         /\ (c.retired = dec.retired \/ c.retired <= reorder.expected)
    BY <1>2, <2>3, <2>9, <2>13, <2>14
  <2>17. Groups(c, rxData, Rebuilt, rxParity, firstSuspend)
    <3>1. PICK s : s = 0 OBVIOUS
    <3>2. \A t \in Starts \ {s} : rxData \cap Members(t) = rxData \cap Members(t)
                                  /\ (t \in rxParity => t \in rxParity)
      OBVIOUS
    <3> QED BY <1>2, <2>14, <2>15, <2>16, <3>2, GroupsSkip
  <2>18. Seq1(c) = {} /\ \A z \in c.out : Sent(z) BY <2>16, OutNone
  <2>19. Rebuilt \cup Seq1(c) = Rebuilt BY <2>18
  <2> QED BY <2>14, <2>16, <2>17, <2>18, <2>19 DEF Processed
<1> QED BY <1>4, <1>5

-----------------------------------------------------------------------------
(* The receiver *)

\* A processed record, and the frames it gives to the output.
LEMMA ReceiverMoves ==
    ASSUME ReceiverInv, GroupInv, RecoveredIsSent, NEW c, NEW X \in SUBSET Seqs,
           Processed(c, rxData \cup X, rxParity'), rxParity' \subseteq Starts,
           dec' = c, reorder' = InsertAll(reorder, X \cup Seq1(c)),
           rxData' = rxData \cup X, recovered' = recovered \cup c.out,
           UNCHANGED <<fence, firstSuspend>>
    PROVE  ReceiverInv' /\ GroupInv' /\ RecoveredIsSent'
<1>0. MaxSeq \in Nat /\ ReorderOK(reorder) /\ reorder.expected \in Nat
  BY FecAssumption DEF ReceiverInv, ReorderOK
<1>1. /\ DecOK(c) /\ (\A f \in c.out : Sent(f))
      /\ (c.retired = dec.retired \/ c.retired <= reorder.expected)
      /\ Groups(c, rxData \cup X, Rebuilt \cup Seq1(c), rxParity', firstSuspend)
  BY DEF Processed
<1>2. Rebuilt' = Rebuilt \cup Seq1(c) BY DEF Rebuilt, Seq1
<1>3. X \cup Seq1(c) \in SUBSET Seqs BY <1>1 DEF Seq1, Sent
<1>4. PICK S : S = X \cup Seq1(c) OBVIOUS
<1>5. PICK r : r = reorder OBVIOUS
<1>6. Advanced(reorder', r.expected, r.held \cup S) BY <1>0, <1>3, <1>4, <1>5, InsertAllForm
<1>7. /\ ReorderOK(reorder') /\ reorder'.held \subseteq r.held \cup S
      /\ reorder'.expected >= r.expected \/ MaxSeq \in r.held \cup S
  BY <1>6 DEF Advanced
<1>8. r.held \cup S \subseteq rxData' \cup Rebuilt' BY <1>2, <1>4, <1>5 DEF ReceiverInv
<1>9. EpochOver' <=> MaxSeq \in rxData' \cup Rebuilt' BY DEF EpochOver, Rebuilt
<1>10. reorder'.expected >= c.retired \/ EpochOver'
  <2>1. c.retired \in Nat /\ reorder'.expected \in Nat /\ dec.retired \in Nat
    BY <1>0, <1>1, <1>7 DEF ReceiverInv, DecOK, DecT, ReorderOK
  <2>2. CASE EpochOver
    <3>1. MaxSeq \in rxData' \cup Rebuilt' BY <1>2, <2>2 DEF EpochOver, Rebuilt
    <3> QED BY <1>9, <3>1
  <2>3. CASE MaxSeq \in r.held \cup S BY <1>8, <1>9, <2>3
  <2>4. CASE ~EpochOver /\ reorder'.expected >= r.expected
    <3>1. reorder.expected >= dec.retired BY <2>4 DEF ReceiverInv
    <3> QED BY <1>0, <1>1, <1>5, <2>1, <2>4, <3>1
  <2> QED BY <1>7, <2>2, <2>3, <2>4
<1>11. rxData' \subseteq Seqs BY DEF ReceiverInv
<1>12. /\ fence' \in [gen : Nat, from : Nat, until : Int]
       /\ fence'.from # 0 => Aligned(fence'.from) /\ firstSuspend' # 0 /\ firstSuspend' <= fence'.from
  BY DEF ReceiverInv
<1>13. ReceiverInv'
  BY <1>1, <1>7, <1>8, <1>10, <1>11, <1>12 DEF ReceiverInv
<1>14. GroupInv' BY <1>1, <1>2 DEF GroupInv
<1>15. RecoveredIsSent' BY <1>1 DEF RecoveredIsSent, Sent
<1> QED BY <1>13, <1>14, <1>15

\* process_item for a data frame.
LEMMA ReceiverRxData ==
    ASSUME TypeInv, SenderInv, StreamInv, ReceiverInv, GroupInv, RecoveredIsSent,
           NEW b \in Backends, RxData(b)
    PROVE  ReceiverInv' /\ GroupInv' /\ RecoveredIsSent'
<1>1. PICK q, c : q = Head(chan[b]).seq /\ c = OnData(Fresh, q) OBVIOUS
<1>2. /\ chan[b] # << >> /\ Head(chan[b]).kind = "data"
      /\ dec' = c /\ reorder' = InsertAll(reorder, {q} \cup Seq1(c)) /\ rxData' = rxData \cup {q}
      /\ recovered' = recovered \cup c.out /\ UNCHANGED <<fence, rxParity, firstSuspend>>
  BY <1>1 DEF RxData, Head1
<1>3. q \in Seqs
  <2>1. RecordOK(Head(chan[b]), firstSuspend) BY <1>2, PopOK
  <2> QED BY <1>1, <1>2, <2>1 DEF RecordOK
<1>4. Processed(c, rxData \cup {q}, rxParity) BY <1>1, <1>3, OnDataForm
<1>5. PICK X \in SUBSET Seqs : X = {q} BY <1>3
<1>6. rxParity' = rxParity /\ rxParity' \subseteq Starts BY <1>2 DEF ReceiverInv
<1>7. Processed(c, rxData \cup X, rxParity') BY <1>4, <1>5, <1>6
<1>8. /\ dec' = c /\ reorder' = InsertAll(reorder, X \cup Seq1(c)) /\ rxData' = rxData \cup X
      /\ recovered' = recovered \cup c.out /\ UNCHANGED <<fence, firstSuspend>>
  BY <1>2, <1>5
<1> QED BY <1>6, <1>7, <1>8, ReceiverMoves

\* process_item for a parity record.
LEMMA ReceiverRxParity ==
    ASSUME TypeInv, SenderInv, StreamInv, ReceiverInv, GroupInv, RecoveredIsSent,
           NEW b \in Backends, Head1(b, "parity"), AcceptParity(b)
    PROVE  ReceiverInv' /\ GroupInv' /\ RecoveredIsSent'
<1>1. PICK m, c : m = Head(chan[b]).members /\ c = OnParity(Fresh, m) OBVIOUS
<1>2. /\ chan[b] # << >> /\ Head(chan[b]).kind = "parity"
      /\ dec' = c /\ reorder' = InsertAll(reorder, Seq1(c)) /\ rxParity' = rxParity \cup {m[1]}
      /\ recovered' = recovered \cup c.out /\ UNCHANGED <<fence, rxData, firstSuspend>>
  BY <1>1 DEF AcceptParity, Head1
<1>3. PICK s \in Starts : IsGroup(m, s)
  <2>1. RecordOK(Head(chan[b]), firstSuspend) BY <1>2, PopOK
  <2> QED BY <1>1, <1>2, <2>1 DEF RecordOK
<1>4. Processed(c, rxData, rxParity \cup {s}) /\ m[1] = s BY <1>1, <1>3, OnParityForm
<1>5. PICK X \in SUBSET Seqs : X = {} OBVIOUS
<1>6. rxParity' = rxParity \cup {s} /\ rxParity' \subseteq Starts BY <1>2, <1>4 DEF ReceiverInv
<1>7. X \cup Seq1(c) = Seq1(c) /\ rxData \cup X = rxData BY <1>5
<1>8. Processed(c, rxData \cup X, rxParity') BY <1>4, <1>6, <1>7
<1>9. /\ dec' = c /\ reorder' = InsertAll(reorder, X \cup Seq1(c)) /\ rxData' = rxData \cup X
      /\ recovered' = recovered \cup c.out /\ UNCHANGED <<fence, firstSuspend>>
  BY <1>2, <1>7
<1> QED BY <1>6, <1>8, <1>9, ReceiverMoves

\* FecRxFenceState: the window starts at a SUSPEND.
LEMMA ApplyForm ==
    ASSUME ReceiverInv, NEW c \in RecordT, c.kind = "control", ControlOK(c, firstSuspend),
           NEW f, f = ApplyControl(c)
    PROVE  /\ f \in [gen : Nat, from : Nat, until : Int]
           /\ f.from # 0 => Aligned(f.from) /\ firstSuspend # 0 /\ firstSuspend <= f.from
<1>1. c.gen \in Nat /\ c.boundary \in Int BY DEF RecordT
<1>2. /\ fence \in [gen : Nat, from : Nat, until : Int]
      /\ fence.from # 0 => Aligned(fence.from) /\ firstSuspend # 0 /\ firstSuspend <= fence.from
  BY DEF ReceiverInv
<1>3. CASE f = fence BY <1>2, <1>3
<1>4. CASE f # fence
  <2>1. PICK x : x = IF c.op = "suspend" THEN c.boundary
                     ELSE IF c.boundary <= fence.from THEN 0 ELSE fence.from
    OBVIOUS
  <2>2. x \in Nat /\ (x # 0 => Aligned(x) /\ firstSuspend # 0 /\ firstSuspend <= x)
    <3>1. CASE c.op = "suspend" BY <2>1, <3>1 DEF ControlOK, Aligned
    <3>2. CASE c.op # "suspend" BY <1>2, <2>1, <3>2
    <3> QED BY <3>1, <3>2
  <2>3. PICK u : u = IF c.op = "suspend" \/ x = 0 THEN 0 ELSE c.boundary OBVIOUS
  <2>4. f = [gen |-> c.gen, from |-> x, until |-> u] BY <1>4, <2>1, <2>3 DEF ApplyControl
  <2>5. u \in Int BY <1>1, <2>3
  <2>6. f.from = x BY <2>4
  <2>7. f \in [gen : Nat, from : Nat, until : Int] BY <1>1, <2>2, <2>4, <2>5
  <2> QED BY <2>2, <2>6, <2>7
<1> QED BY <1>3, <1>4

\* process_item for a control.
LEMMA ReceiverRxControl ==
    ASSUME TypeInv, SenderInv, StreamInv, ReceiverInv, GroupInv, RecoveredIsSent,
           NEW b \in Backends, RxControl(b)
    PROVE  ReceiverInv' /\ GroupInv' /\ RecoveredIsSent'
<1>0. MaxSeq \in Nat /\ reorder.expected \in Nat BY FecAssumption DEF ReceiverInv, ReorderOK
<1>1. PICK h, f, c : h = Head(chan[b]) /\ f = ApplyControl(h)
                     /\ c = IF f = fence THEN Fresh ELSE OnMode(Fresh, f)
  OBVIOUS
<1>2. /\ chan[b] # << >> /\ h.kind = "control" /\ fence' = f /\ dec' = c
      /\ UNCHANGED <<reorder, rxData, rxParity, recovered, firstSuspend>>
  BY <1>1 DEF RxControl, Head1, histVars
<1>3. h \in RecordT /\ ControlOK(h, firstSuspend)
  <2>1. RecordOK(Head(chan[b]), firstSuspend) /\ Head(chan[b]) \in RecordT BY <1>2, PopOK
  <2> QED BY <1>1, <1>2, <2>1 DEF RecordOK
<1>4. /\ f \in [gen : Nat, from : Nat, until : Int]
      /\ f.from # 0 => Aligned(f.from) /\ firstSuspend # 0 /\ firstSuspend <= f.from
  BY <1>1, <1>2, <1>3, ApplyForm
<1>5. Processed(c, rxData, rxParity) /\ c.out = {}
  <2>1. CASE f = fence
    <3>1. c = Fresh BY <1>1, <2>1
    <3>2. /\ DecOK(c) /\ c.out = {} /\ c.retired = dec.retired
          /\ Groups(c, rxData, Rebuilt, rxParity, firstSuspend)
      BY <3>1, FreshForm
    <3>3. Seq1(c) = {} /\ \A x \in c.out : Sent(x) BY <3>2, OutNone
    <3>4. Rebuilt \cup Seq1(c) = Rebuilt BY <3>3
    <3> QED BY <3>2, <3>3, <3>4 DEF Processed
  <2>2. CASE f # fence
    <3>1. c = OnMode(Fresh, f) /\ f.from \in Nat BY <1>1, <1>4, <2>2
    <3> QED BY <1>4, <3>1, OnModeForm
  <2> QED BY <2>1, <2>2
<1>6. Seq1(c) = {} /\ Rebuilt \cup Seq1(c) = Rebuilt BY <1>5, OutNone
<1>7. /\ DecOK(c) /\ (c.retired = dec.retired \/ c.retired <= reorder.expected)
      /\ Groups(c, rxData, Rebuilt, rxParity, firstSuspend)
  BY <1>5, <1>6 DEF Processed
<1>8. Rebuilt' = Rebuilt /\ (EpochOver' <=> EpochOver) BY <1>2 DEF Rebuilt, EpochOver
<1>9. c.retired \in Nat /\ dec.retired \in Nat BY <1>7 DEF ReceiverInv, DecOK, DecT
<1>10. reorder.expected >= c.retired \/ EpochOver BY <1>0, <1>7, <1>9 DEF ReceiverInv
<1>11. ReceiverInv' BY <1>2, <1>4, <1>7, <1>8, <1>10 DEF ReceiverInv
<1>12. GroupInv' BY <1>2, <1>7, <1>8 DEF GroupInv
<1>13. RecoveredIsSent' BY <1>2 DEF RecoveredIsSent
<1> QED BY <1>11, <1>12, <1>13

\* The timeout thread gives up a gap.
LEMMA ReceiverGapTimeout ==
    ASSUME SenderInv, ReceiverInv, GroupInv, RecoveredIsSent, GapTimeout
    PROVE  ReceiverInv' /\ GroupInv' /\ RecoveredIsSent'
<1>0. MaxSeq \in Nat /\ reorder.expected \in Nat /\ ReorderOK(reorder) /\ reorder.held \subseteq Seqs
  BY FecAssumption DEF ReceiverInv, ReorderOK
<1>1. PICK e, h : h = reorder.held /\ e = Min(h) OBVIOUS
<1>2. /\ h # {} /\ reorder' = Flush(e, h)
      /\ UNCHANGED <<fence, dec, rxData, rxParity, recovered, firstSuspend>>
  BY <1>1 DEF GapTimeout, histVars
<1>3. h \in SUBSET Seqs /\ h \in SUBSET Nat BY <1>0, <1>1 DEF Seqs
<1>4. e \in h /\ e \in Seqs /\ e \in Nat BY <1>1, <1>2, <1>3, MinForm
<1>5. Advanced(reorder', e, h) BY <1>2, <1>3, <1>4, FlushForm
<1>6. /\ ReorderOK(reorder') /\ reorder'.held \subseteq h
      /\ reorder'.expected >= e \/ MaxSeq \in h
  BY <1>5 DEF Advanced
<1>7. Rebuilt' = Rebuilt /\ (EpochOver' <=> EpochOver) BY <1>2 DEF Rebuilt, EpochOver
<1>8. h \subseteq rxData \cup Rebuilt BY <1>1 DEF ReceiverInv
<1>9. reorder'.expected >= dec.retired \/ EpochOver
  <2>1. CASE MaxSeq \in h BY <1>8, <2>1 DEF EpochOver, Rebuilt
  <2>2. CASE reorder'.expected >= e
    <3>1. reorder.expected < e BY <1>0, <1>1, <1>4 DEF ReorderOK
    <3>2. dec.retired \in Nat /\ reorder'.expected \in Nat
      BY <1>0, <1>6 DEF ReceiverInv, DecOK, DecT, ReorderOK
    <3>3. reorder.expected >= dec.retired \/ EpochOver BY DEF ReceiverInv
    <3> QED BY <1>0, <1>4, <2>2, <3>1, <3>2, <3>3
  <2> QED BY <1>6, <2>1, <2>2
<1>10. ReceiverInv' BY <1>2, <1>6, <1>7, <1>8, <1>9 DEF ReceiverInv
<1>11. GroupInv' BY <1>2, <1>7 DEF GroupInv
<1>12. RecoveredIsSent' BY <1>2 DEF RecoveredIsSent
<1> QED BY <1>10, <1>11, <1>12

\* A step that leaves the receiver alone; the first SUSPEND may be sent in it.
LEMMA ReceiverQuiet ==
    ASSUME ReceiverInv, GroupInv, RecoveredIsSent,
           UNCHANGED <<fence, dec, reorder, rxData, rxParity, recovered>>,
           firstSuspend # 0 => firstSuspend' = firstSuspend
    PROVE  ReceiverInv' /\ GroupInv' /\ RecoveredIsSent'
<1>1. Rebuilt' = Rebuilt /\ (EpochOver' <=> EpochOver) BY DEF Rebuilt, EpochOver
<1>2. ReceiverInv' BY <1>1 DEF ReceiverInv
<1>3. Groups(dec, rxData, Rebuilt, rxParity, firstSuspend') BY DEF GroupInv, Groups
<1>4. GroupInv' BY <1>1, <1>3 DEF GroupInv
<1>5. RecoveredIsSent' BY DEF RecoveredIsSent
<1> QED BY <1>2, <1>4, <1>5

\* Every step keeps the receiver right.
LEMMA ReceiverStep ==
    ASSUME SingleWriter, TypeInv, SenderInv, StreamInv, ReceiverInv, GroupInv, RecoveredIsSent, Next
    PROVE  ReceiverInv' /\ GroupInv' /\ RecoveredIsSent'
<1>0. firstSuspend # 0 => firstSuspend' = firstSuspend BY SenderStep
<1>1. ASSUME NEW b \in Backends, Receive(b) PROVE ReceiverInv' /\ GroupInv' /\ RecoveredIsSent'
  <2>1. CASE RxData(b) BY <2>1, ReceiverRxData
  <2>2. CASE RxControl(b) BY <2>2, ReceiverRxControl
  <2>3. CASE Head1(b, "parity") /\ AcceptParity(b) BY <2>3, ReceiverRxParity
  <2>4. CASE RefuseParity(b)
    <3>1. UNCHANGED <<fence, dec, reorder, rxData, rxParity, recovered>>
      BY <2>4 DEF RefuseParity, rxVars, histVars
    <3> QED BY <1>0, <3>1, ReceiverQuiet
  <2> QED BY <1>1, <2>1, <2>2, <2>3, <2>4 DEF Receive, RxParity
<1>2. CASE GapTimeout BY <1>2, ReceiverGapTimeout
<1>3. CASE UNCHANGED <<fence, dec, reorder, rxData, rxParity, recovered>>
  BY <1>0, <1>3, ReceiverQuiet
<1>4. ASSUME NEW w \in Writers, Write(w)
      PROVE  UNCHANGED <<fence, dec, reorder, rxData, rxParity, recovered>>
  <2>1. CASE NextSeq(w) BY <2>1 DEF NextSeq, rxVars, histVars
  <2>2. CASE Encode(w) BY <2>2 DEF Encode, rxVars
  <2>3. CASE PublishFence(w) \/ TryNext(w) BY <2>3 DEF PublishFence, TryNext, rxVars, histVars
  <2>4. CASE DropData(w) \/ SendParity(w) BY <2>4 DEF DropData, SendParity, rxVars, histVars
  <2>5. CASE \E b \in Backends : SendControl(w, b) \/ SendData(w, b)
    BY <2>5 DEF SendControl, SendData, rxVars, histVars
  <2> QED BY <1>4, <2>1, <2>2, <2>3, <2>4, <2>5 DEF Write
<1>5. ASSUME NEW b \in Backends, RegisterBackend(b) \/ UnregisterBackend(b)
      PROVE  UNCHANGED <<fence, dec, reorder, rxData, rxParity, recovered>>
  BY <1>5 DEF RegisterBackend, UnregisterBackend, rxVars, histVars
<1> QED BY <1>1, <1>2, <1>3, <1>4, <1>5 DEF Next

-----------------------------------------------------------------------------
(* The repair properties *)

\* The invariant holds initially,
LEMMA InitRepair == Init => RepairInv
<1> SUFFICES ASSUME Init PROVE RepairInv
  OBVIOUS
<1>0. K \in Nat /\ MaxSeq \in Nat /\ MaxSeq > K /\ K >= 2 /\ DoneSlots \in Nat \ {0} BY FecAssumption
<1>1. IInv BY InitIInv
<1>2. SenderInv
  <2>1. /\ txSeq = 0 /\ firstSuspend = 0 /\ mode.suspended = FALSE /\ mode.current = NoControl
        /\ enc = [members |-> << >>, multipath |-> TRUE, armed |-> TRUE]
        /\ \A w \in Writers : writer[w] = Idle
    BY DEF Init
  <2>2. ControlOK(NoControl, 0) BY DEF ControlOK, NoControl
  <2>3. EncOK(enc, 1)
    <3>1. Aligned(1)
      <4>1. K * 0 \in Nat /\ (K * 0) % K = 0 BY MultipleMod
      <4>2. K * 0 = 0 BY <1>0
      <4>3. 0 % K = 0 BY <4>1, <4>2
      <4>4. 1 - 1 = 0 OBVIOUS
      <4> QED BY <4>3, <4>4 DEF Aligned
    <3>2. 1 <= 1 + K - 1 BY <1>0
    <3>3. GroupStart(1) = 1 BY <3>1, <3>2, GroupOf
    <3>4. IsRun(<< >>, 1, 0) BY DEF IsRun
    <3>5. 1 - 1 = 0 OBVIOUS
    <3> QED BY <2>1, <3>3, <3>4, <3>5 DEF EncOK
  <2>4. \A w \in Writers : Upcoming(writer[w], txSeq) = 1 BY <2>1 DEF Upcoming, Idle
  <2>5. \A w \in Writers :
          /\ WriterOK(writer[w], firstSuspend)
          /\ writer[w].pc = "encode" => writer[w].seq = txSeq
          /\ EncOK(enc, Upcoming(writer[w], txSeq))
    BY <2>1, <2>3, <2>4, IdleOK
  <2> QED BY <1>0, <2>1, <2>2, <2>5 DEF SenderInv
<1>3. StreamInv BY DEF Init, StreamInv
<1>4. /\ dec = NewDecoder /\ reorder = [expected |-> 0, held |-> {}] /\ recovered = {}
      /\ fence = [gen |-> 0, from |-> 0, until |-> 0] /\ rxData = {} /\ rxParity = {}
  BY DEF Init
<1>5. /\ \A s \in Starts : dec.got[s] = {} /\ dec.par[s] = << >>
      /\ dec.done = [i \in 0..DoneSlots - 1 |-> 0] /\ dec.cleanup = 0 /\ dec.retired = 0
  BY <1>4 DEF NewDecoder
<1>6. dec \in DecT
  <2>1. << >> \in Seq(Int) OBVIOUS
  <2> QED BY <1>4, <2>1 DEF NewDecoder, DecT
<1>7. DecOK(dec) BY <1>5, <1>6 DEF DecOK
<1>8. ReorderOK(reorder) /\ reorder.held = {} BY <1>0, <1>4 DEF ReorderOK
<1>9. ReceiverInv BY <1>4, <1>5, <1>7, <1>8 DEF ReceiverInv
<1>10. GroupInv
  <2>1. ASSUME NEW s \in Starts
        PROVE  /\ ~IsDone(dec, s) /\ dec.got[s] \subseteq rxData
               /\ GroupOK(dec, s, rxData, Rebuilt, rxParity)
    <3>1. s \in Nat \ {0} /\ DoneSlot(s) \in 0..DoneSlots - 1 BY StartsForm, SlotForm
    <3>2. ~IsDone(dec, s) BY <1>5, <3>1 DEF IsDone
    <3>3. GroupOK(dec, s, rxData, Rebuilt, rxParity) BY <1>4, <1>5 DEF GroupOK
    <3> QED BY <1>5, <3>2, <3>3
  <2> QED BY <2>1 DEF GroupInv, Groups
<1>11. RecoveredIsSent BY <1>4 DEF RecoveredIsSent
<1> QED BY <1>1, <1>2, <1>3, <1>9, <1>10, <1>11 DEF RepairInv

\* every step keeps it when one thread writes,
LEMMA NextRepair == ASSUME SingleWriter PROVE RepairInv /\ [Next]_vars => RepairInv'
<1> SUFFICES ASSUME RepairInv, [Next]_vars PROVE RepairInv'
  OBVIOUS
<1>0. IInv /\ TypeInv /\ SenderInv /\ StreamInv /\ ReceiverInv /\ GroupInv /\ RecoveredIsSent
  BY DEF RepairInv, IInv
<1>1. IInv' BY <1>0, NextIInv
<1>2. CASE Next
  <2>1. SenderInv' BY <1>0, <1>2, SenderStep
  <2>2. StreamInv' BY <1>0, <1>2, StreamStep
  <2>3. ReceiverInv' /\ GroupInv' /\ RecoveredIsSent' BY <1>0, <1>2, ReceiverStep
  <2> QED BY <1>1, <2>1, <2>2, <2>3 DEF RepairInv
<1>3. CASE UNCHANGED vars
  <2>1. UNCHANGED <<txSeq, enc, mode, writer, firstSuspend, chan,
                    fence, dec, reorder, rxData, rxParity, recovered>>
    BY <1>3 DEF vars, sendVars, rxVars, histVars
  <2>2. SenderInv' BY <1>0, <2>1, SenderQuiet
  <2>3. StreamInv' BY <1>0, <2>1, StreamQuiet
  <2>4. ReceiverInv' /\ GroupInv' /\ RecoveredIsSent' BY <1>0, <2>1, ReceiverQuiet
  <2> QED BY <1>1, <2>2, <2>3, <2>4 DEF RepairInv
<1> QED BY <1>2, <1>3

\* and so it holds of every reachable state.
LEMMA RepairReached == ASSUME SingleWriter PROVE Spec => []RepairInv
<1>1. Init => RepairInv BY InitRepair
<1>2. RepairInv /\ [Next]_vars => RepairInv' BY NextRepair
<1> QED BY <1>1, <1>2, PTL DEF Spec

\* Retirement, from the invariant.
LEMMA RetiredGone == RepairInv => RetiredStaysGone
<1> SUFFICES ASSUME RepairInv PROVE RetiredStaysGone
  OBVIOUS
<1>1. ReceiverInv /\ DecOK(dec) BY DEF RepairInv, ReceiverInv
<1>2. ASSUME NEW s \in Pending(dec) PROVE s >= dec.retired
  <2>1. s \in Starts /\ (dec.got[s] # {} \/ dec.par[s] # << >>) BY DEF Pending
  <2>2. ~(s < dec.retired) BY <1>1, <2>1 DEF DecOK
  <2>3. s \in Nat /\ dec.retired \in Nat BY <1>1, <2>1, StartsForm DEF DecOK, DecT
  <2> QED BY <2>2, <2>3
<1>3. reorder.expected >= dec.retired \/ EpochOver BY <1>1 DEF ReceiverInv
<1> QED BY <1>2, <1>3 DEF RetiredStaysGone

\* Repair of the groups before the first SUSPEND, from the invariant.
LEMMA PreCollapse == RepairInv => PreCollapseRepaired
<1> SUFFICES ASSUME RepairInv, NEW s \in rxParity, firstSuspend = 0 \/ s < firstSuspend,
                    Cardinality(Members(s) \ rxData) = 1, NEW m \in Members(s) \ rxData
             PROVE  (\E f \in recovered : f.seq = m) \/ Passed(m) \/ s \in dec.evicted
  BY DEF PreCollapseRepaired, Repaired
<1>0. K \in Nat /\ MaxSeq \in Nat BY FecAssumption
<1>1. ReceiverInv /\ GroupInv /\ DecOK(dec) BY DEF RepairInv, ReceiverInv
<1>2. s \in Starts BY <1>1 DEF ReceiverInv
<1>3. GroupOK(dec, s, rxData, Rebuilt, rxParity) BY <1>1, <1>2 DEF GroupInv, Groups
<1>4. CASE Members(s) \subseteq rxData \cup Rebuilt
  <2>1. m \in Rebuilt BY <1>4
  <2> QED BY <2>1 DEF Rebuilt
<1>5. CASE s < dec.retired
  <2>1. CASE EpochOver BY <2>1 DEF Passed
  <2>2. CASE ~EpochOver
    <3>1. reorder.expected >= dec.retired BY <1>1, <2>2 DEF ReceiverInv
    <3>2. s \in Nat /\ dec.retired \in Nat /\ reorder.expected \in Nat
      BY <1>0, <1>1, <1>2, StartsForm DEF ReceiverInv, DecOK, DecT, ReorderOK
    <3>3. Aligned(s) /\ Aligned(dec.retired) BY <1>1, <1>2, <1>5, <3>2, StartsForm DEF DecOK
    <3>4. s + K <= dec.retired BY <1>5, <3>3, AlignedApart
    <3>5. m \in Int /\ m <= s + K - 1 BY <1>0, <3>2 DEF Members
    <3>6. reorder.expected > m BY <1>0, <3>1, <3>2, <3>4, <3>5
    <3> QED BY <3>6 DEF Passed
  <2> QED BY <2>1, <2>2
<1>6. CASE /\ dec.got[s] = rxData \cap Members(s)
           /\ s \in rxParity => dec.par[s] # << >>
           /\ dec.par[s] # << >> => Cardinality(Members(s) \ dec.got[s]) # 1
  <2>1. Members(s) \ dec.got[s] = Members(s) \ rxData BY <1>6
  <2> QED BY <1>6, <2>1
<1> QED BY <1>3, <1>4, <1>5, <1>6 DEF GroupOK

(***************************************************************************)
(* With one thread that calls write_payload, every frame that try_recover  *)
(* rebuilds is the frame that was sent with its sequence, for any group    *)
(* size, any number of backends and any topology changes in between.       *)
(***************************************************************************)
THEOREM RepairExact == ASSUME SingleWriter PROVE Spec => []RecoveredIsSent
<1>1. Spec => []RepairInv BY RepairReached
<1>2. RepairInv => RecoveredIsSent BY DEF RepairInv
<1> QED BY <1>1, <1>2, PTL

(***************************************************************************)
(* With one writing thread, no late record recreates a group below the     *)
(* retired boundary, and maybe_retire_old_groups_actor retires nothing     *)
(* that the ordered output still waits for.                                *)
(***************************************************************************)
THEOREM RetirementFinal == ASSUME SingleWriter PROVE Spec => []RetiredStaysGone
<1>1. Spec => []RepairInv BY RepairReached
<1>2. RepairInv => RetiredStaysGone BY RetiredGone
<1> QED BY <1>1, <1>2, PTL

(***************************************************************************)
(* With one writing thread, the groups sent before the first SUSPEND are   *)
(* repaired, however late their parity or members arrive: bypass_data and  *)
(* handle_mode_control_actor touch no group before the boundary.           *)
(***************************************************************************)
THEOREM PreCollapseSafe == ASSUME SingleWriter PROVE Spec => []PreCollapseRepaired
<1>1. Spec => []RepairInv BY RepairReached
<1>2. RepairInv => PreCollapseRepaired BY PreCollapse
<1> QED BY <1>1, <1>2, PTL

\* The parity records in the streams, from the invariant.
LEMMA ParityGroups == RepairInv => ParityIsArithmetic
<1> SUFFICES ASSUME RepairInv, NEW b \in Backends, NEW i \in 1..MaxSeq * K, i \in 1..Len(chan[b]),
                    chan[b][i].kind = "parity"
             PROVE  chan[b][i].members =
                        [n \in 1..K |-> GroupStart(chan[b][i].members[1]) + n - 1]
  BY DEF ParityIsArithmetic
<1>0. K \in Nat /\ K >= 2 BY FecAssumption
<1>1. PICK m : m = chan[b][i].members OBVIOUS
<1>2. PICK s \in Starts : IsGroup(m, s)
  <2>1. RecordOK(chan[b][i], firstSuspend) BY DEF RepairInv, StreamInv
  <2> QED BY <1>1, <2>1 DEF RecordOK
<1>3. Aligned(s) /\ m \in Seq(Int) /\ Len(m) = K /\ \A n \in 1..K : m[n] = s + n - 1
  BY <1>2 DEF IsGroup, IsRun
<1>4. s \in Nat BY StartsForm
<1>5. m[1] = s
  <2>1. 1 \in 1..K BY <1>0
  <2>2. m[1] = s + 1 - 1 BY <1>3, <2>1
  <2> QED BY <1>4, <2>2
<1>6. GroupStart(m[1]) = s
  <2>1. s \in Int /\ s <= s /\ s <= s + K - 1 BY <1>0, <1>4
  <2> QED BY <1>3, <1>5, <2>1, GroupOf
<1>7. m = [n \in 1..K |-> s + n - 1]
  <2>1. m \in [1..K -> Int] BY <1>3
  <2> QED BY <1>3, <2>1
<1> QED BY <1>1, <1>6, <1>7

(***************************************************************************)
(* "Group starts satisfy group_start = 1 (mod K)" (docs/protocol_v3.md,    *)
(* section 9): with one writing thread, FecEncoder::add emits the parity   *)
(* of a whole arithmetic group only, whatever set_physical_path_count      *)
(* discarded before.  Two threads break this (FecWriters.cfg).             *)
(***************************************************************************)
THEOREM ParityArithmetic == ASSUME SingleWriter PROVE Spec => []ParityIsArithmetic
<1>1. Spec => []RepairInv BY RepairReached
<1>2. RepairInv => ParityIsArithmetic BY ParityGroups
<1> QED BY <1>1, <1>2, PTL
=============================================================================
