------------------------------- MODULE FecPath -------------------------------
(***************************************************************************)
(* XOR forward error correction between the two ends of one session and    *)
(* one direction, across several TCP connections:                          *)
(*                                                                         *)
(*   sender    AsyncPort::write_payload (net.rs) called by Writers, with   *)
(*             FecEncoder (fec.rs) and FecTxModeState (protocol.rs);       *)
(*   streams   chan[b], everything backend b has accepted and the peer has *)
(*             not read: its queue, the socket and the TCP stream, a FIFO; *)
(*   receiver  process_item of the session's receive actor (rx_actor.rs)   *)
(*             with FecDecoder, FecRxFenceState and the reorder position.  *)
(*                                                                         *)
(* A frame is the sequence number it was sent with.  The XOR of frames is  *)
(* the set of frames XORed an odd number of times; a parity record carries *)
(* the members it was built from in the order they were added, which gives *)
(* both its body and its list of lengths.                                  *)
(*                                                                         *)
(* Whether a queue is full is a choice at each attempt to enqueue, so the  *)
(* adaptive choice of a backend is any order of attempts.                  *)
(***************************************************************************)
EXTENDS Integers, Sequences, FiniteSets, FiniteSetsExt

CONSTANTS
    Backends,       \* connection slots of the session
    Writers,        \* threads that call write_payload on the port
    K,              \* negotiated group size
    MaxSeq,         \* u32::MAX, the last sequence number of an epoch
    MaxPending,     \* FEC_MAX_PENDING_GROUPS
    DoneSlots,      \* FEC_DONE_CACHE
    RetireEvery,    \* a bypassed sequence that is a multiple of this retires
    MaxCloses,      \* bound: connections lost
    MaxFull         \* bound: attempts that meet a full queue

ASSUME FecAssumption ==
    /\ K \in Nat /\ K >= 2
    /\ MaxSeq \in Nat /\ MaxSeq > K
    /\ MaxPending \in Nat \ {0}
    /\ DoneSlots \in Nat \ {0}
    /\ RetireEvery \in Nat \ {0}
    /\ MaxCloses \in Nat
    /\ MaxFull \in Nat

Seqs == 1..MaxSeq

\* fn fec_group_start
GroupStart(seq) == seq - ((seq - 1) % K)

\* fn fec_next_group_start: 0 when the epoch has no further boundary.
NextGroupStart(seq) ==
    LET next == IF (seq - 1) % K = 0 THEN seq ELSE GroupStart(seq) + K
    IN  IF next <= MaxSeq THEN next ELSE 0

Starts == {GroupStart(seq) : seq \in Seqs}

VARIABLES
    \* sender: topology, sequence allocation, encoder, mode
    up,             \* registered backends
    fenceGen,       \* Backend.fec_fence_gen
    txSeq,          \* tx_seq
    exhausted,      \* sequence_exhausted
    enc,            \* FecEncoder: members, multipath, armed
    mode,           \* FecTxModeState: seen, suspended, gen, current control
    writer,         \* the calls of write_payload under way
    \* streams
    chan,           \* records accepted by a backend and not yet read
    refused,        \* streams the receiver has ended with a protocol error
    closes,         \* connections lost so far
    full,           \* full queues met so far
    \* receiver
    fence,          \* FecRxFenceState: gen and the window [from, until)
    dec,            \* FecDecoder, see NewDecoder
    reorder,        \* ReorderBuffer: expected_seq and the sequences held
    \* history
    rxData,         \* data frames the receiver has read
    rxParity,       \* groups whose parity it has read
    recovered,      \* frames it has rebuilt
    firstSuspend    \* group of the frame that met the first SUSPEND

sendVars == <<fenceGen, txSeq, exhausted, enc, mode, writer>>
rxVars == <<fence, dec, reorder>>
histVars == <<rxData, rxParity, recovered, firstSuspend>>
vars == <<up, sendVars, chan, refused, closes, full, rxVars, histVars>>

NoControl == [op |-> "none", gen |-> 0, boundary |-> 0]
Idle == [pc |-> "idle", seq |-> 0, control |-> NoControl, parity |-> << >>,
         tried |-> {}, at |-> "none"]

\* FecDecoder::new.  A pending group has received members (got_mask and the
\* XOR of their bodies) or its parity record; `out' is what the last call
\* rebuilt and `evicted' the groups given up at the pending limit.
NewDecoder == [got |-> [s \in Starts |-> {}], par |-> [s \in Starts |-> << >>],
               done |-> [i \in 0..DoneSlots - 1 |-> 0],
               cleanup |-> 0, retired |-> 0, out |-> {}, evicted |-> {}]

Data(seq, gov) == [kind |-> "data", seq |-> seq, gov |-> gov]
Parity(members) == [kind |-> "parity", members |-> members]
Control(c) == [kind |-> "control", op |-> c.op, gen |-> c.gen, boundary |-> c.boundary]

Init ==
    /\ up = {}
    /\ fenceGen = [b \in Backends |-> 0]
    /\ txSeq = 0
    /\ exhausted = FALSE
    /\ enc = [members |-> << >>, multipath |-> TRUE, armed |-> TRUE]
    /\ mode = [seen |-> FALSE, suspended |-> FALSE, gen |-> 0, current |-> NoControl]
    /\ writer = [w \in Writers |-> Idle]
    /\ chan = [b \in Backends |-> << >>]
    /\ refused = {}
    /\ closes = 0
    /\ full = 0
    /\ fence = [gen |-> 0, from |-> 0, until |-> 0]
    /\ dec = NewDecoder
    /\ reorder = [expected |-> 0, held |-> {}]
    /\ rxData = {}
    /\ rxParity = {}
    /\ recovered = {}
    /\ firstSuspend = 0

(***************************************************************************)
(* Topology.  register_backend and unregister_backend take the write lock  *)
(* of `backends', and write_payload holds the read lock for the whole      *)
(* call, so the topology changes between calls only.  A lost connection    *)
(* loses what the peer can no longer read; a slot is used again for a new  *)
(* connection when its old stream is gone.                                 *)
(***************************************************************************)
NoCall == \A w \in Writers : writer[w].pc = "idle"

RegisterBackend(b) ==
    /\ NoCall
    /\ b \notin up
    /\ chan[b] = << >>
    /\ up' = up \cup {b}
    /\ fenceGen' = [fenceGen EXCEPT ![b] = 0]
    /\ refused' = refused \ {b}
    /\ UNCHANGED <<txSeq, exhausted, enc, mode, writer, chan, closes, full, rxVars, histVars>>

UnregisterBackend(b) ==
    /\ NoCall
    /\ b \in up
    /\ closes < MaxCloses
    /\ up' = up \ {b}
    /\ closes' = closes + 1
    /\ \E n \in 0..Len(chan[b]) :
           chan' = [chan EXCEPT ![b] = SubSeq(chan[b], 1, n)]
    /\ UNCHANGED <<sendVars, refused, full, rxVars, histVars>>

(***************************************************************************)
(* The sender.                                                             *)
(***************************************************************************)
\* Mutant of SetPhysicalPathCount: a collapse keeps the partial group.
SetPathsKeepsGroup(e, paths) ==
    IF (paths >= 2) = e.multipath THEN e
    ELSE [e EXCEPT !.multipath = paths >= 2, !.armed = FALSE]

\* FecEncoder::set_physical_path_count
SetPhysicalPathCount(e, paths) ==
    IF (paths >= 2) = e.multipath THEN e
    ELSE [members |-> IF paths >= 2 THEN e.members ELSE << >>,
          multipath |-> paths >= 2, armed |-> FALSE]

\* Mutant of Observe: the boundary of SUSPEND is taken one sequence early.
ObserveEarly(m, paths, seq) ==
    IF paths >= 2 /\ ~m.seen THEN [m EXCEPT !.seen = TRUE]
    ELSE IF paths >= 2 /\ m.suspended /\ NextGroupStart(seq) # 0
    THEN [m EXCEPT !.suspended = FALSE, !.gen = @ + 1,
                   !.current = [op |-> "resume", gen |-> m.gen + 1,
                                boundary |-> NextGroupStart(seq)]]
    ELSE IF paths < 2 /\ m.seen /\ ~m.suspended
    THEN [m EXCEPT !.suspended = TRUE, !.gen = @ + 1,
                   !.current = [op |-> "suspend", gen |-> m.gen + 1,
                                boundary |-> GroupStart(seq - 1)]]
    ELSE m

\* FecTxModeState::observe
Observe(m, paths, seq) ==
    LET next(op, boundary) ==
            [seen |-> TRUE, suspended |-> (op = "suspend"), gen |-> m.gen + 1,
             current |-> [op |-> op, gen |-> m.gen + 1, boundary |-> boundary]]
        first ==
            [seen |-> TRUE, suspended |-> m.suspended, gen |-> m.gen, current |-> m.current]
    IN  IF paths >= 2
        THEN IF ~m.seen THEN first
             ELSE IF m.suspended /\ NextGroupStart(seq) # 0
             THEN next("resume", NextGroupStart(seq)) ELSE m
        ELSE IF m.seen /\ ~m.suspended THEN next("suspend", GroupStart(seq)) ELSE m

\* FecEncoder::add: the encoder afterwards, and the members of the parity
\* record it returns (none: the empty sequence).
Add(e, seq) ==
    IF ~e.multipath \/ (~e.armed /\ (seq - 1) % K # 0)
    THEN [enc |-> e, parity |-> << >>]
    ELSE LET members == Append(e.members, seq)
         IN  IF Len(members) < K
             THEN [enc |-> [members |-> members, multipath |-> TRUE, armed |-> TRUE],
                   parity |-> << >>]
             ELSE [enc |-> [members |-> << >>, multipath |-> TRUE, armed |-> TRUE],
                   parity |-> members]

\* write_payload up to next_seq: at least one backend is below its high
\* water mark, and the epoch has a sequence number left.
NextSeq(w) ==
    /\ writer[w].pc = "idle"
    /\ up # {}
    /\ IF txSeq = MaxSeq
       THEN /\ exhausted' = TRUE
            /\ UNCHANGED <<txSeq, writer>>
       ELSE /\ txSeq' = txSeq + 1
            /\ writer' = [writer EXCEPT ![w].pc = "encode", ![w].seq = txSeq + 1]
            /\ UNCHANGED exhausted
    /\ UNCHANGED <<up, fenceGen, enc, mode, chan, refused, closes, full, rxVars, histVars>>

\* The critical section of fec_mode and encoder.
Encode(w) ==
    LET paths == Cardinality(up)
        m == Observe(mode, paths, writer[w].seq)
        r == Add(SetPhysicalPathCount(enc, paths), writer[w].seq)
    IN  /\ writer[w].pc = "encode"
        /\ enc' = r.enc
        /\ mode' = m
        /\ writer' = [writer EXCEPT ![w].pc = "send", ![w].control = m.current,
                                    ![w].parity = r.parity, ![w].tried = {}]
        /\ firstSuspend' = IF firstSuspend = 0 /\ m.suspended
                           THEN GroupStart(writer[w].seq) ELSE firstSuspend
        /\ UNCHANGED <<up, fenceGen, txSeq, exhausted, chan, refused, closes, full, rxVars,
                       rxData, rxParity, recovered>>

\* A record enters the stream unless the receiver has ended it.
Enqueue(b, record) ==
    chan' = IF b \in refused THEN chan
            ELSE [chan EXCEPT ![b] = Append(@, record)]

Behind(w, b) == fenceGen[b] < writer[w].control.gen

\* try_send_payload_to_fenced: the control goes first where it is missing ...
SendControl(w, b) ==
    /\ writer[w].pc = "send"
    /\ b \in up \ writer[w].tried
    /\ Behind(w, b)
    /\ Enqueue(b, Control(writer[w].control))
    /\ writer' = [writer EXCEPT ![w].pc = "publish", ![w].at = b]
    /\ UNCHANGED <<up, fenceGen, txSeq, exhausted, enc, mode, refused, closes, full, rxVars, histVars>>

\* Mutant of PublishFence: one generation for the port instead of one per backend.
PublishFencePort(w) ==
    /\ writer[w].pc = "publish"
    /\ fenceGen' = [b \in Backends |-> writer[w].control.gen]
    /\ writer' = [writer EXCEPT ![w].pc = "data"]
    /\ UNCHANGED <<up, txSeq, exhausted, enc, mode, chan, refused, closes, full, rxVars, histVars>>

\* ... and its generation is recorded once it is in the queue.
PublishFence(w) ==
    /\ writer[w].pc = "publish"
    /\ fenceGen' = [fenceGen EXCEPT ![writer[w].at] = writer[w].control.gen]
    /\ writer' = [writer EXCEPT ![w].pc = "data"]
    /\ UNCHANGED <<up, txSeq, exhausted, enc, mode, chan, refused, closes, full, rxVars, histVars>>

\* What is left of the call once the data frame is enqueued or dropped.
AfterData(w) ==
    writer' = [writer EXCEPT ![w] = IF @.parity = << >> THEN Idle
                                    ELSE [@ EXCEPT !.pc = "parity"]]

SendData(w, b) ==
    /\ \/ writer[w].pc = "send" /\ b \in up \ writer[w].tried /\ ~Behind(w, b)
       \/ writer[w].pc = "data" /\ b = writer[w].at
    /\ Enqueue(b, Data(writer[w].seq, writer[w].control.gen))
    /\ AfterData(w)
    /\ UNCHANGED <<up, fenceGen, txSeq, exhausted, enc, mode, refused, closes, full, rxVars, histVars>>

QueueFull == full < MaxFull /\ full' = full + 1

\* The queue took the control and is full for the data: the frame goes on to
\* the other backends.
TryNext(w) ==
    /\ writer[w].pc = "data"
    /\ QueueFull
    /\ writer' = [writer EXCEPT ![w].pc = "send", ![w].tried = @ \cup {writer[w].at}]
    /\ UNCHANGED <<up, fenceGen, txSeq, exhausted, enc, mode, chan, refused, closes,
                   rxVars, histVars>>

\* Every backend that is left refuses: the frame is dropped, its sequence is
\* used up.
DropData(w) ==
    /\ writer[w].pc = "send"
    /\ \/ up \subseteq writer[w].tried /\ UNCHANGED full
       \/ QueueFull
    /\ AfterData(w)
    /\ UNCHANGED <<up, fenceGen, txSeq, exhausted, enc, mode, chan, refused, closes,
                   rxVars, histVars>>

\* The parity record goes to one backend, without a fence, or is dropped.
SendParity(w) ==
    /\ writer[w].pc = "parity"
    /\ \/ /\ \E b \in up : Enqueue(b, Parity(writer[w].parity))
          /\ UNCHANGED full
       \/ QueueFull /\ UNCHANGED chan
    /\ writer' = [writer EXCEPT ![w] = Idle]
    /\ UNCHANGED <<up, fenceGen, txSeq, exhausted, enc, mode, refused, closes, rxVars, histVars>>

(***************************************************************************)
(* The decoder, as operators on its state d.                               *)
(***************************************************************************)
Members(s) == s..s + K - 1
Pending(d) == {s \in Starts : d.got[s] # {} \/ d.par[s] # << >>}

DropGroups(d, doomed) ==
    [d EXCEPT !.got = [s \in Starts |-> IF s \in doomed THEN {} ELSE @[s]],
              !.par = [s \in Starts |-> IF s \in doomed THEN << >> ELSE @[s]]]

DoneSlot(s) == ((s - 1) \div K) % DoneSlots
IsDone(d, s) == d.done[DoneSlot(s)] = s

\* fn maybe_retire_old_groups_actor: once the ordered output has reached the
\* cleanup boundary, groups below it can no longer matter.
Retire(d, expected) ==
    IF d.cleanup = 0 \/ d.retired >= d.cleanup \/ expected = 0 \/ expected < d.cleanup
    THEN d
    ELSE [DropGroups(d, {s \in Starts : s < d.cleanup}) EXCEPT !.retired = d.cleanup]

\* fn entry: room for a new group is made by giving up the oldest one.
Entry(d, s) ==
    IF s \in Pending(d) \/ Cardinality(Pending(d)) < MaxPending THEN d
    ELSE LET oldest == Min(Pending(d))
         IN  [DropGroups(d, {oldest}) EXCEPT !.evicted = @ \cup {oldest}]

\* The frame try_recover builds: parity XOR accumulator, cut to the length
\* the parity record lists for the missing position.
Repair(members, received, m, s) ==
    LET body == {members[i] : i \in 1..Len(members)}
    IN  [seq |-> m, body |-> (body \cup received) \ (body \cap received),
         length |-> members[m - s + 1]]

\* try_recover, and the end of a group that is complete.
Settle(d, s) ==
    LET missing == Members(s) \ d.got[s]
    IN  IF missing # {} /\ (d.par[s] = << >> \/ Cardinality(missing) > 1)
        THEN d
        ELSE [DropGroups(d, {s}) EXCEPT
                 !.done[DoneSlot(s)] = s,
                 !.out = {Repair(d.par[s], d.got[s], m, s) : m \in missing}]

\* FecRxFenceState::bypass_data
BypassData(seq) ==
    /\ fence.from # 0
    /\ seq >= fence.from
    /\ fence.until = 0 \/ seq < fence.until

\* FecDecoder::on_data_actor
OnData(d, seq) ==
    LET s == GroupStart(seq)
    IN  IF BypassData(seq)
        THEN IF seq % RetireEvery = 0 THEN Retire(d, reorder.expected) ELSE d
        ELSE IF seq < d.retired \/ IsDone(d, s) \/ seq \in d.got[s]
        THEN d
        ELSE Settle([Entry(d, s) EXCEPT !.got[s] = @ \cup {seq}], s)

\* Mutant of OnParity: late parity of a retired group is taken.
OnParityRetired(d0, members) ==
    LET s == members[1]
        d == Retire(d0, reorder.expected)
    IN  IF IsDone(d, s) \/ d.par[s] # << >> THEN d
        ELSE Settle([Entry(d, s) EXCEPT !.par[s] = members], s)

\* FecDecoder::on_parity_actor, for a record with a valid descriptor
OnParity(d0, members) ==
    LET s == members[1]
        d == Retire(d0, reorder.expected)
    IN  IF s < d.retired \/ IsDone(d, s) \/ d.par[s] # << >>
        THEN d
        ELSE Settle([Entry(d, s) EXCEPT !.par[s] = members], s)

\* FecRxFenceState::apply_actor
ApplyControl(c) ==
    LET from == IF c.op = "suspend" THEN c.boundary
                ELSE IF c.boundary <= fence.from THEN 0 ELSE fence.from
        until == IF c.op = "suspend" \/ from = 0 THEN 0 ELSE c.boundary
    IN  IF c.gen <= fence.gen THEN fence
        ELSE [gen |-> c.gen, from |-> from, until |-> until]

\* FecDecoder::handle_mode_control_actor, for a control that was applied
OnMode(d, f) ==
    IF f.from = 0 THEN d
    ELSE LET inside == {s \in Starts : s >= f.from /\ (f.until = 0 \/ s < f.until)}
             c == [DropGroups(d, inside) EXCEPT !.cleanup = Max({@, f.from})]
         IN  Retire(c, reorder.expected)

(***************************************************************************)
(* The reorder buffer, as far as the decoder looks at it: its position and *)
(* the sequences it holds (module Reorder has the ring itself).  After the *)
(* last sequence the u32 position wraps to 0, which is "not yet learned".  *)
(***************************************************************************)
Flush(e, held) ==
    LET next == Min({n \in e..MaxSeq + 1 : n \notin held})
    IN  [expected |-> next % (MaxSeq + 1), held |-> {n \in held : n > next}]

Insert(r, seq) ==
    LET e == IF r.expected = 0 THEN seq ELSE r.expected
    IN  CASE seq < e -> r
          [] seq = e -> Flush(e, r.held \cup {seq})
          [] OTHER -> [expected |-> e, held |-> r.held \cup {seq}]

\* insert_pair: in the order of the sequences.
InsertAll(r, seqs) ==
    IF seqs = {} THEN r
    ELSE LET first == Insert(r, Min(seqs))
         IN  IF Cardinality(seqs) = 1 THEN first ELSE Insert(first, Max(seqs))

Seq1(d) == {f.seq : f \in d.out}

(***************************************************************************)
(* The receiver: process_item under the lock of the actor's state.         *)
(***************************************************************************)
Head1(b, kind) == chan[b] # << >> /\ Head(chan[b]).kind = kind
Pop(b) == chan' = [chan EXCEPT ![b] = Tail(@)]
Fresh == [dec EXCEPT !.out = {}]

RxData(b) ==
    /\ Head1(b, "data")
    /\ Pop(b)
    /\ LET seq == Head(chan[b]).seq
           d == OnData(Fresh, seq)
       IN  /\ dec' = d
           /\ reorder' = InsertAll(reorder, {seq} \cup Seq1(d))
           /\ rxData' = rxData \cup {seq}
           /\ recovered' = recovered \cup d.out
    /\ UNCHANGED <<up, sendVars, refused, closes, full, fence, rxParity, firstSuspend>>

ValidDescriptor(members) == Len(members) = K /\ (members[1] - 1) % K = 0

AcceptParity(b) ==
    /\ Pop(b)
    /\ LET members == Head(chan[b]).members
           d == OnParity(Fresh, members)
       IN  /\ dec' = d
           /\ reorder' = InsertAll(reorder, Seq1(d))
           /\ rxParity' = rxParity \cup {members[1]}
           /\ recovered' = recovered \cup d.out
    /\ UNCHANGED <<up, sendVars, refused, closes, full, fence, rxData, firstSuspend>>

\* An invalid descriptor is a protocol error, which ends the connection.
RefuseParity(b) ==
    /\ chan' = [chan EXCEPT ![b] = << >>]
    /\ refused' = refused \cup {b}
    /\ UNCHANGED <<up, sendVars, closes, full, rxVars, histVars>>

RxParity(b) ==
    /\ Head1(b, "parity")
    /\ IF ValidDescriptor(Head(chan[b]).members) THEN AcceptParity(b) ELSE RefuseParity(b)

RxControl(b) ==
    /\ Head1(b, "control")
    /\ Pop(b)
    /\ LET f == ApplyControl(Head(chan[b]))
       IN  /\ fence' = f
           /\ dec' = IF f = fence THEN Fresh ELSE OnMode(Fresh, f)
    /\ UNCHANGED <<up, sendVars, refused, closes, full, reorder, histVars>>

\* The timeout thread of the actor gives up a gap.
GapTimeout ==
    /\ reorder.held # {}
    /\ reorder' = Flush(Min(reorder.held), reorder.held)
    /\ UNCHANGED <<up, sendVars, chan, refused, closes, full, fence, dec, histVars>>

Write(w) ==
    \/ NextSeq(w)
    \/ Encode(w)
    \/ PublishFence(w)
    \/ TryNext(w)
    \/ DropData(w)
    \/ SendParity(w)
    \/ \E b \in Backends : SendControl(w, b) \/ SendData(w, b)

Receive(b) == RxData(b) \/ RxParity(b) \/ RxControl(b)

Next ==
    \/ \E b \in Backends : RegisterBackend(b) \/ UnregisterBackend(b)
    \/ \E w \in Writers : Write(w)
    \/ \E b \in Backends : Receive(b)
    \/ GapTimeout

Spec == Init /\ [][Next]_vars

(***************************************************************************)
(* Properties.                                                             *)
(***************************************************************************)
(***************************************************************************)
(* A frame that FEC rebuilds is the frame that was sent with its sequence: *)
(* the right body, cut to the right length.  The decoder derives the       *)
(* members of a group from the sequence alone, while the encoder adds      *)
(* whatever it is given, across topology changes that discard half a group *)
(* and re-arm later.                                                       *)
(***************************************************************************)
RecoveredIsSent == \A f \in recovered : f.body = {f.seq} /\ f.length = f.seq

(***************************************************************************)
(* "Group starts satisfy group_start = 1 (mod K)" (docs/protocol_v3.md,    *)
(* section 9): a parity record covers one arithmetic group, in order.      *)
(***************************************************************************)
ParityIsArithmetic ==
    \A b \in Backends, i \in 1..MaxSeq * K :
        i \in 1..Len(chan[b]) /\ chan[b][i].kind = "parity" =>
            chan[b][i].members = [n \in 1..K |-> GroupStart(chan[b][i].members[1]) + n - 1]

(***************************************************************************)
(* "A backend MUST receive the current FEC_MODE generation before its      *)
(* first governed data record": whatever data record is still in a stream, *)
(* the receiver will have applied its generation, or a newer one, by the   *)
(* time it reads the record.  Holds across fallback to another backend, a  *)
(* control that fits a queue its data does not, and a replaced connection. *)
(***************************************************************************)
ControlBefore(b, i, gen) ==
    \/ gen <= fence.gen
    \/ \E j \in 1..i - 1 : chan[b][j].kind = "control" /\ chan[b][j].gen >= gen

FenceBeforeGoverned ==
    \A b \in Backends : \A i \in 1..Len(chan[b]) :
        chan[b][i].kind = "data" => ControlBefore(b, i, chan[b][i].gov)

(***************************************************************************)
(* FEC does its job: once the receiver has read the parity of a group and  *)
(* all its members but one, it has rebuilt the missing one, unless the     *)
(* ordered output is already past it or the group was given up at the      *)
(* pending limit.                                                          *)
(***************************************************************************)
EpochOver == MaxSeq \in rxData \cup {f.seq : f \in recovered}
Passed(seq) == reorder.expected > seq \/ EpochOver

Repaired(s) ==
    Cardinality(Members(s) \ rxData) = 1 =>
        \A m \in Members(s) \ rxData :
            \/ \E f \in recovered : f.seq = m
            \/ Passed(m)
            \/ s \in dec.evicted

SingleLossRepaired == \A s \in rxParity : Repaired(s)

(***************************************************************************)
(* "Temporary path loss can trigger RX CPU bypass without sacrificing      *)
(* in-flight pre-collapse recovery": the groups sent before the first      *)
(* SUSPEND are repaired, however late their parity or members arrive.      *)
(***************************************************************************)
PreCollapseRepaired ==
    \A s \in rxParity : (firstSuspend = 0 \/ s < firstSuspend) => Repaired(s)

(***************************************************************************)
(* "After retirement, late data/parity below the retired boundary MUST NOT *)
(* recreate decoder state", and nothing the ordered output still waits for *)
(* has been retired.                                                       *)
(***************************************************************************)
RetiredStaysGone ==
    /\ \A s \in Pending(dec) : s >= dec.retired
    /\ reorder.expected >= dec.retired \/ EpochOver
=============================================================================
