------------------------------ MODULE Dispatch ------------------------------
(***************************************************************************)
(* A port with its own dispatch thread (TLSVPN_PORT_DISPATCH=1, AsyncPort  *)
(* and dispatch_loop in src/net.rs) and the choice of a path               *)
(* (src/adaptive_multipath.rs). Producers put frames into a bounded queue; *)
(* the thread waits for a free slot, collects a batch, picks a path,       *)
(* numbers the frames and appends them to the queues of the connections,   *)
(* whose own threads drain them. Meanwhile connections come and go and a   *)
(* handshake may start a new epoch, which resets the numbers.              *)
(*                                                                         *)
(* Every frame is one byte. What the clock decides (round-trip times, the  *)
(* input rate, whether a connection is corked) is chosen anew at each pick.*)
(***************************************************************************)
EXTENDS Integers, Sequences, SequencesExt, FiniteSetsExt

CONSTANTS
    Conns,       \* connections of the session
    InputCap,    \* DISPATCH_QUEUE_FRAMES
    Cap,         \* capacity_frames of a connection's queue
    MaxBatch,    \* DISPATCH_BATCH_MAX_BYTES
    MaxSeq,      \* u32::MAX
    MaxFrames,   \* bound: frames produced
    MaxEpoch,    \* bound: epochs
    MaxJoins,    \* bound: connections made
    Rtts,        \* round-trip times
    RttSlack,    \* RTT_HYSTERESIS_MIN_US: a path slower than that is not used
    Sticky,      \* STICKY_MIN_US: the preferred path is kept within it
    CarryBonus,  \* CARRY_BONUS_US
    Pressure     \* ACTIVE2_PRESSURE and on: bytes from which one more path is used

ASSUME DispatchAssumption ==
    /\ InputCap \in Nat \ {0} /\ Cap \in Nat /\ Cap > 2 /\ MaxBatch \in Nat \ {0}
    /\ MaxSeq \in Nat /\ MaxFrames \in Nat /\ MaxEpoch \in Nat /\ MaxJoins \in Nat
    /\ Rtts \subseteq Nat /\ RttSlack \in Nat /\ Sticky \in Nat
    /\ CarryBonus \in Nat /\ Pressure \in [1..3 -> Nat]

NoIndex == 0

VARIABLES
    produced,  \* frames produced so far (ghost, names of the frames)
    input,     \* the queue to the dispatch thread
    pc,        \* where the thread is
    batch,     \* frames collected: [frame, seq, epoch], seq 0 until numbered
    idx,       \* path being tried
    tries,     \* attempts of the fallback loop
    txSeq,     \* tx_seq
    seqEpoch,  \* number of resets of tx_seq (ghost)
    epoch,     \* session epoch
    resetting, \* the connection inside rotate_session_epoch
    conn,      \* state of each connection: off, joined, up
    connEpoch, \* epoch a connection negotiated
    joins,     \* connections made so far
    backends,  \* the port's list of backends
    queue,     \* owned_batches of each connection
    drained,   \* frames taken from it whose bytes are still in the TLS buffer
    queued,    \* queued_bytes of the scheduler
    active,    \* paths in use
    virtual,   \* virtual_finish_ns
    preferred, \* index of the path used last
    wire,      \* [epoch, seq, frame] of all frames that entered a queue (ghost)
    holes,     \* numbers given to frames that were dropped afterwards (ghost)
    gone,      \* the port's owner dropped it
    steady     \* no backend left since the thread saw a free slot (ghost)

threadVars == <<pc, batch, idx, tries>>
epochVars == <<txSeq, seqEpoch, epoch, resetting>>
connVars == <<conn, connEpoch, joins, backends>>
pickVars == <<active, virtual, preferred>>
queueVars == <<queue, drained, queued>>
ghosts == <<wire, holes, steady>>
vars == <<produced, input, gone, threadVars, epochVars, connVars, queueVars, pickVars, ghosts>>

Init ==
    /\ produced = 0 /\ input = <<>> /\ gone = FALSE
    /\ pc = "recv" /\ batch = <<>> /\ idx = NoIndex /\ tries = 0
    /\ txSeq = 0 /\ seqEpoch = 1 /\ epoch = 1 /\ resetting = {}
    /\ conn = [c \in Conns |-> "off"] /\ connEpoch = [c \in Conns |-> 0] /\ joins = 0
    /\ backends = <<>>
    /\ queue = [c \in Conns |-> <<>>] /\ drained = [c \in Conns |-> 0]
    /\ queued = [c \in Conns |-> 0]
    /\ active = {} /\ virtual = [c \in Conns |-> 0] /\ preferred = NoIndex
    /\ wire = {} /\ holes = {} /\ steady = TRUE

-----------------------------------------------------------------------------
(* Producers and connection threads *)

\* write_owned_payload, dispatch_enqueued: a full queue drops the frame.
Enqueue ==
    /\ produced < MaxFrames /\ ~gone
    /\ produced' = produced + 1
    /\ input' = IF Len(input) < InputCap THEN Append(input, produced') ELSE input
    /\ UNCHANGED <<gone, threadVars, epochVars, connVars, queueVars, pickVars, ghosts>>

\* Once TLS has nothing to write the connection's thread takes what fits into
\* its next record; the bytes stay charged until TLS has written them.
Drain(c, n) ==
    /\ conn[c] = "up" /\ drained[c] = 0
    /\ n \in 1..Len(queue[c])
    /\ queue' = [queue EXCEPT ![c] = SubSeq(@, n + 1, Len(@))]
    /\ drained' = [drained EXCEPT ![c] = n]
    /\ UNCHANGED <<gone, produced, input, threadVars, epochVars, connVars, queued, pickVars, ghosts>>

\* complete_queued subtracts, but not below zero.
Less(n, m) == IF n > m THEN n - m ELSE 0

Delivered(c) ==
    /\ conn[c] = "up" /\ drained[c] > 0
    /\ queued' = [queued EXCEPT ![c] = Less(@, drained[c])]
    /\ drained' = [drained EXCEPT ![c] = 0]
    /\ UNCHANGED <<gone, produced, input, threadVars, epochVars, connVars, queue, pickVars, ghosts>>

-----------------------------------------------------------------------------
(* Handshakes and the end of connections *)

\* Mutant of Locked: frames are numbered before the lock is taken.
LockedLate == pc \in {"charge", "push", "settle"}

\* dispatch_owned_batch holds the read lock of the backends throughout.
Locked == pc \in {"number", "charge", "push", "settle"}

\* A connection of the current instance joins its epoch.
Join(c) ==
    /\ conn[c] = "off" /\ joins < MaxJoins /\ resetting = {} /\ ~gone
    /\ conn' = [conn EXCEPT ![c] = "joined"]
    /\ connEpoch' = [connEpoch EXCEPT ![c] = epoch]
    /\ joins' = joins + 1
    /\ UNCHANGED <<gone, produced, input, threadVars, epochVars, backends, queueVars, pickVars, ghosts>>

\* rotate_session_epoch under the epoch lock: reset_epoch first, ...
ResetEpoch(c) ==
    /\ conn[c] = "off" /\ joins < MaxJoins /\ resetting = {} /\ ~gone
    /\ epoch < MaxEpoch
    /\ resetting' = {c}
    /\ txSeq' = 0
    /\ seqEpoch' = seqEpoch + 1
    /\ UNCHANGED <<gone, produced, input, threadVars, epoch, connVars, queueVars, pickVars, ghosts>>

\* ... then the new epoch is published.
Rotated(c) ==
    /\ resetting = {c}
    /\ resetting' = {}
    /\ epoch' = epoch + 1
    /\ conn' = [conn EXCEPT ![c] = "joined"]
    /\ connEpoch' = [connEpoch EXCEPT ![c] = epoch']
    /\ joins' = joins + 1
    /\ UNCHANGED <<gone, produced, input, threadVars, txSeq, seqEpoch, backends, queueVars, pickVars, ghosts>>

\* A new Backend with fresh scheduler state.
Register(c) ==
    /\ conn[c] = "joined" /\ ~Locked
    /\ conn' = [conn EXCEPT ![c] = "up"]
    /\ backends' = Append(backends, c)
    /\ queue' = [queue EXCEPT ![c] = <<>>]
    /\ drained' = [drained EXCEPT ![c] = 0]
    /\ queued' = [queued EXCEPT ![c] = 0]
    /\ active' = active \ {c}
    /\ virtual' = [virtual EXCEPT ![c] = 0]
    /\ UNCHANGED <<gone, produced, input, threadVars, epochVars, connEpoch, joins, preferred, ghosts>>

\* Vec::retain of all but c.
Without(s, c) ==
    LET kept[i \in 0..Len(s)] ==
          IF i = 0 THEN <<>> ELSE IF s[i] = c THEN kept[i - 1] ELSE Append(kept[i - 1], s[i])
    IN  kept[Len(s)]

\* The connection ends; the list moves up and the preferred path is forgotten.
Unregister(c) ==
    /\ conn[c] = "up" /\ ~Locked
    /\ conn' = [conn EXCEPT ![c] = "off"]
    /\ backends' = Without(backends, c)
    /\ preferred' = NoIndex
    /\ steady' = FALSE
    /\ UNCHANGED <<gone, produced, input, threadVars, epochVars, connEpoch, joins, queueVars,
                   active, virtual, wire, holes>>

\* The session is destroyed once its connections are gone.
Drop ==
    /\ ~gone /\ resetting = {} /\ \A c \in Conns : conn[c] = "off"
    /\ gone' = TRUE
    /\ UNCHANGED <<produced, input, threadVars, epochVars, connVars, queueVars, pickVars, ghosts>>

-----------------------------------------------------------------------------
(* AdaptivePortState::pick *)

\* Health of a path, and backend_score being Some.
Healthy(c) == Len(queue[c]) < Cap - 2

Paths == {backends[i] : i \in DOMAIN backends}

Index(c) == CHOOSE i \in DOMAIN backends : backends[i] = c

\* Candidates: healthy paths not much slower than the fastest healthy one.
Candidates(rtt) ==
    LET fastest == Min({rtt[c] : c \in {p \in Paths : Healthy(p)}})
    IN  {c \in Paths : Healthy(c) /\ rtt[c] <= fastest + RttSlack}

\* Their order: fastest first, then by index.
Before(rtt, c, d) == rtt[c] < rtt[d] \/ (rtt[c] = rtt[d] /\ Index(c) < Index(d))

First(S, rtt) == CHOOSE c \in S : \A d \in S \ {c} : Before(rtt, c, d)

\* The first k of them.
Ranked(rtt, k) ==
    {c \in Candidates(rtt) : Cardinality({d \in Candidates(rtt) : Before(rtt, d, c)}) < k}

\* active_target: by the bytes waiting, or by the input rate.
ActiveTarget(n, rate, eligible) ==
    LET pressure == n + MapThenSumSet(LAMBDA c : queued[c], Paths)
        want     == 1 + Cardinality({i \in 1..3 : pressure >= Pressure[i]})
    IN  Min({eligible, Max({want, rate})})

\* One path: the fastest, unless the preferred one is about as fast.
PickOne(rtt) ==
    LET first  == First(Candidates(rtt), rtt)
        chosen == IF /\ preferred \in DOMAIN backends
                     /\ backends[preferred] \in Candidates(rtt)
                     /\ rtt[backends[preferred]] <= rtt[first] + Sticky
                  THEN backends[preferred] ELSE first
    IN  /\ idx' = Index(chosen)
        /\ active' = {chosen}
        /\ virtual' = [c \in Conns |-> IF c \in Paths THEN 0 ELSE virtual[c]]

\* Several paths: a path that becomes active starts at the earliest virtual
\* time of the active ones, times are kept relative to the earliest, and the
\* path with the least virtual time and backlog is charged with the batch.
PickShared(using, rtt, n, carry) ==
    LET old    == active \cap using
        start  == IF old = {} THEN 0 ELSE Min({virtual[c] : c \in old})
        joined == [c \in using |-> IF c \in old THEN virtual[c] ELSE start]
        base   == Min({joined[c] : c \in using})
        score  == [c \in using |-> joined[c] - base + queued[c]
                                   - IF c \in carry THEN CarryBonus ELSE 0]
        better(c, d) == score[c] < score[d] \/ (score[c] = score[d] /\ Before(rtt, c, d))
        chosen == CHOOSE c \in using : \A d \in using \ {c} : better(c, d)
    IN  /\ idx' = Index(chosen)
        /\ active' = using
        /\ virtual' = [c \in Conns |->
                          IF c \in using THEN joined[c] - base + IF c = chosen THEN n ELSE 0
                          ELSE IF c \in Paths THEN 0 ELSE virtual[c]]

\* Mutant of PickHealthy: the fullest path is as good as any.
PickFirst(n, rtt, rate, carry) ==
    idx' = 1 /\ active' = {backends[1]} /\ UNCHANGED virtual

PickHealthy(n, rtt, rate, carry) ==
    LET k == ActiveTarget(n, rate, Cardinality(Candidates(rtt)))
    IN  IF k = 1 THEN PickOne(rtt) ELSE PickShared(Ranked(rtt, k), rtt, n, carry)

\* No path is healthy: the first one.
PickFull ==
    /\ idx' = 1
    /\ active' = {backends[1]}
    /\ virtual' = [c \in Conns |-> IF c \in Paths THEN 0 ELSE virtual[c]]

-----------------------------------------------------------------------------
(* The dispatch thread *)

Unnumbered(f) == [frame |-> f, seq |-> 0, epoch |-> 0]

\* rx.recv
Receive ==
    /\ pc = "recv" /\ ~gone /\ input # <<>>
    /\ batch' = <<Unnumbered(Head(input))>>
    /\ input' = Tail(input)
    /\ pc' = "wait"
    /\ UNCHANGED <<gone, produced, idx, tries, epochVars, connVars, queueVars, pickVars, ghosts>>

\* The senders or the port are gone: the thread ends.
Exit ==
    /\ pc = "recv" /\ gone
    /\ pc' = "done" /\ input' = <<>>
    /\ UNCHANGED <<produced, gone, batch, idx, tries, epochVars, connVars, queueVars, pickVars, ghosts>>

SlotFree == \E c \in Paths : Healthy(c)

\* wait_backend_slot: without backends the frame is dropped.
WaitSlot ==
    /\ pc = "wait"
    /\ \/ /\ backends = <<>>
          /\ batch' = <<>> /\ pc' = "recv"
          /\ UNCHANGED steady
       \/ /\ backends # <<>> /\ SlotFree
          /\ pc' = "collect" /\ steady' = TRUE
          /\ UNCHANGED batch
    /\ UNCHANGED <<gone, produced, input, idx, tries, epochVars, connVars, queueVars, pickVars, wire, holes>>

\* The batch grows while frames are there, up to its limit.
Collect ==
    /\ pc = "collect"
    /\ input # <<>> /\ Len(batch) < MaxBatch
    /\ batch' = Append(batch, Unnumbered(Head(input)))
    /\ input' = Tail(input)
    /\ UNCHANGED <<gone, produced, pc, idx, tries, epochVars, connVars, queueVars, pickVars, ghosts>>

\* dispatch_owned_batch takes the lock and picks a path.
Pick ==
    /\ pc = "collect"
    /\ input = <<>> \/ Len(batch) >= MaxBatch
    /\ tries' = 0
    /\ \/ /\ backends = <<>>
          /\ pc' = "recv" /\ batch' = <<>>
          /\ UNCHANGED <<idx, pickVars>>
       \/ /\ backends # <<>>
          /\ \E rtt \in [Paths -> Rtts], rate \in 1..Len(backends), carry \in SUBSET Paths :
                IF \E c \in Paths : Healthy(c)
                THEN PickHealthy(Len(batch), rtt, rate, carry)
                ELSE PickFull
          /\ preferred' = idx'
          /\ pc' = "number"
          /\ UNCHANGED batch
    /\ UNCHANGED <<gone, produced, input, epochVars, connVars, queueVars, ghosts>>

AllNumbered == \A i \in DOMAIN batch : batch[i].seq > 0

\* next_seq for one frame after the other; without a number it is dropped.
Number ==
    /\ pc = "number"
    /\ ~AllNumbered
    /\ LET i == Min({j \in DOMAIN batch : batch[j].seq = 0})
       IN  IF txSeq = MaxSeq
           THEN batch' = RemoveAt(batch, i) /\ UNCHANGED txSeq
           ELSE /\ txSeq' = txSeq + 1
                /\ batch' = [batch EXCEPT ![i].seq = txSeq', ![i].epoch = seqEpoch]
    /\ UNCHANGED <<gone, produced, input, pc, idx, tries, seqEpoch, epoch, resetting, connVars, queueVars,
                   pickVars, ghosts>>

\* What is left is dropped, its numbers with it.
Leftover ==
    /\ holes' = holes \cup {batch[i].seq : i \in DOMAIN batch}
    /\ batch' = <<>>
    /\ pc' = "recv"
    /\ UNCHANGED <<tries, queued>>

\* Mutant of Charge: the bytes are not charged before they are queued.
ChargeNothing ==
    /\ pc = "charge" \/ (pc = "number" /\ AllNumbered)
    /\ IF batch = <<>> \/ tries > Len(backends) \/ idx \notin DOMAIN backends
       THEN Leftover
       ELSE pc' = "push" /\ tries' = tries + 1 /\ UNCHANGED <<queued, batch, holes>>
    /\ UNCHANGED <<gone, produced, input, idx, epochVars, connVars, queue, drained, pickVars, wire, steady>>

\* The head of the fallback loop: add_queued before the frames are visible.
Charge ==
    /\ pc = "charge" \/ (pc = "number" /\ AllNumbered)
    /\ IF batch = <<>> \/ tries > Len(backends) \/ idx \notin DOMAIN backends
       THEN Leftover
       ELSE /\ queued' = [queued EXCEPT ![backends[idx]] = @ + Len(batch)]
            /\ tries' = tries + 1
            /\ pc' = "push"
            /\ UNCHANGED <<batch, holes>>
    /\ UNCHANGED <<gone, produced, input, idx, epochVars, connVars, queue, drained, pickVars, wire, steady>>

\* try_push_batch: the prefix that fits.
Push ==
    LET c == backends[idx]
        n == Min({Len(batch), Cap - Len(queue[c])})
    IN  /\ pc = "push"
        /\ queue' = [queue EXCEPT ![c] = @ \o SubSeq(batch, 1, n)]
        /\ batch' = SubSeq(batch, n + 1, Len(batch))
        /\ wire' = wire \cup {[epoch |-> connEpoch[c], seq |-> batch[i].seq, frame |-> batch[i].frame,
                               numbered |-> batch[i].epoch] : i \in 1..n}
        /\ pc' = "settle"
        /\ UNCHANGED <<gone, produced, input, idx, tries, epochVars, connVars, drained, queued, pickVars,
                       holes, steady>>

\* The bytes that were not accepted are taken back; the next healthy path takes
\* the rest, or it is dropped.
Settle ==
    LET c    == backends[idx]
        next == {i \in DOMAIN backends : i # idx /\ Healthy(backends[i])}
    IN  /\ pc = "settle"
        /\ queued' = [queued EXCEPT ![c] = Less(@, Len(batch))]
        /\ IF batch = <<>> \/ next = {}
           THEN /\ holes' = holes \cup {batch[i].seq : i \in DOMAIN batch}
                /\ pc' = "recv" /\ batch' = <<>> /\ UNCHANGED idx
           ELSE /\ idx' = Min(next)
                /\ pc' = "charge" /\ UNCHANGED <<batch, holes>>
        /\ UNCHANGED <<gone, produced, input, tries, epochVars, connVars, queue, drained, pickVars, wire, steady>>

Thread == Receive \/ Exit \/ WaitSlot \/ Collect \/ Pick \/ Number \/ Charge \/ Push \/ Settle

Next ==
    \/ Enqueue \/ Drop \/ Thread
    \/ \E c \in Conns :
          (\E n \in 1..Cap : Drain(c, n)) \/ Delivered(c) \/ Join(c) \/ ResetEpoch(c) \/ Rotated(c) \/ Register(c) \/ Unregister(c)

Spec == Init /\ [][Next]_vars

-----------------------------------------------------------------------------
(* Properties *)

\* The bytes a path is charged with are those in its queue, those in the TLS
\* buffer of its connection and those about to be queued, whichever way the
\* dispatch thread, the connection's thread and the fallback to another path
\* interleave (add_queued, complete_queued).
ChargesMatch ==
    \A i \in DOMAIN backends :
        LET c == backends[i]
        IN  queued[c] = Len(queue[c]) + drained[c]
                        + IF i = idx /\ pc \in {"push", "settle"} THEN Len(batch) ELSE 0

\* Within the current epoch a number names one frame, and none that was given
\* before the numbers were reset reaches a connection of the new epoch, though
\* reset_epoch does not wait for the dispatch thread.
EpochPure ==
    LET current == {w \in wire : w.epoch = seqEpoch}
    IN  /\ \A w \in current : w.numbered = seqEpoch
        /\ \A v, w \in current : v.seq = w.seq => v = w

\* After the wait for a free slot the path that is picked has room for three
\* frames at least, unless a connection ended in between (wait_backend_slot,
\* pick, dispatch_owned_batch).
RoomForFirst ==
    pc = "push" /\ tries = 1 /\ steady => Cap - Len(queue[backends[idx]]) >= 3

\* No number is lost while the connections stay: frames are dropped before they
\* are numbered (the comments of wait_backend_slot and dispatch_owned_batch).
NoHoles == steady => holes = {}
=============================================================================
