------------------------------ MODULE Outbound -------------------------------
(***************************************************************************)
(* The downstream path of one server connection: threads that switch       *)
(* frames to it put them into its OwnedBatchQueue and wake the worker      *)
(* through BackendNotify (src/net.rs); the worker's loop, by the timer     *)
(* scan or by the dirty token, runs flush_outbound, which moves whole      *)
(* batches into one TLS record and drains it to the socket                 *)
(* (src/server.rs).  The socket is registered for READABLE only, so        *)
(* nothing but the wake-ups, tx_leftover, a stalled write or a keepalive   *)
(* brings the worker back to a queue.                                      *)
(*                                                                         *)
(* A frame is its acceptance number and its size; sizes are in a unit      *)
(* that scales the 8 KiB / 12 KiB / 15.5 KiB limits down together.  No     *)
(* frame is too large to be queued: the MTU is any u16 (src/main.rs), and  *)
(* the peer's frames are as large as it likes.                             *)
(***************************************************************************)
EXTENDS Integers, SequencesExt

CONSTANTS
    Producers,       \* threads that write to the port
    BatchProducers,  \* those that use write_payload_batch
    FrameSizes,      \* sizes a frame can have
    Capacity,        \* capacity_frames
    BatchFrames,     \* max_batch_frames
    BatchBytes,      \* OWNED_BATCH_MAX_BYTES
    SoftLimit,       \* STREAM_TLS_BATCH_SOFT_LIMIT
    Budget,          \* MAX_TLS_PLAINTEXT_RECORD - STREAM_PAD_ABSOLUTE_LIMIT
    Allowance,       \* OWNED_BATCH_WIRE_OVERHEAD_PER_FRAME
    Header,          \* what a frame's header and tag add to it
    PullLimit,       \* 2048: frames pulled by one flush
    Reads,           \* whether the peer sends data on this connection
    MaxFrames        \* bound: frames accepted

ASSUME OutboundAssumption ==
    /\ BatchProducers \subseteq Producers
    /\ FrameSizes \subseteq Nat
    /\ Budget \in Nat /\ Allowance \in Nat /\ Header \in Nat /\ Header <= Allowance
    /\ Reads \in BOOLEAN

VARIABLES
    queue,      \* OwnedBatchQueueInner.batches: batches of frames
    hint,       \* frames_hint
    pending,    \* BackendNotify.pending
    dirty,      \* the token is in the dirty queue
    woken,      \* the poller's waker fired
    prod,       \* pc of each producer
    pc, ret,    \* the worker's position, and where flush_outbound returns to
    took,       \* the current poll returned the wake event
    buf,        \* sess.send_buf
    leftover,   \* sess.tx_leftover
    tls,        \* frames in rustls, not yet on the socket (wants_write)
    stall,      \* write_stalled: "no", "yes" or "long" (10 s old)
    blocked,    \* the socket does not accept data
    keepalive,  \* 4 s since the last keepalive
    forgotten,  \* history: see BacklogRemembered
    accepted,   \* history: frames taken into the queue, in order
    wire        \* history: frames written to the socket, in order

vars == <<queue, hint, pending, dirty, woken, prod, pc, ret, took, buf,
          leftover, tls, stall, blocked, keepalive, forgotten, accepted, wire>>

notifyVars == <<pending, dirty, woken>>
workerVars == <<pc, ret, took, buf, leftover, tls, stall, keepalive, forgotten, wire>>

Bytes(fs) ==
    LET sum[i \in 0..Len(fs)] == IF i = 0 THEN 0 ELSE sum[i - 1] + fs[i].bytes
    IN  sum[Len(fs)]

\* What append_unpadded_frame makes of frames, and what try_pop_fitting reckons.
Wire(fs) == Bytes(fs) + Header * Len(fs)
Estimated(fs) == Bytes(fs) + Allowance * Len(fs)

Frames == FlattenSeq(queue)
Heartbeat == [id |-> 0, bytes |-> 0]

\* What a record in rustls carries: a keepalive has one of its own.
Payload(held) == IF held = <<Heartbeat>> THEN << >> ELSE held

Init ==
    /\ queue = << >> /\ hint = 0
    /\ pending = FALSE /\ dirty = FALSE /\ woken = FALSE
    /\ prod = [p \in Producers |-> "idle"]
    /\ pc = "poll" /\ ret = "poll" /\ took = FALSE
    /\ buf = << >> /\ leftover = FALSE
    /\ tls = << >> /\ stall = "no" /\ blocked = FALSE
    /\ keepalive = FALSE /\ forgotten = FALSE
    /\ accepted = << >> /\ wire = << >>

-----------------------------------------------------------------------------
(***************************************************************************)
(* Producers.                                                              *)
(***************************************************************************)

\* fn push_locked: the tail batch takes the frame if it has room.
PushLocked(q, f) ==
    IF /\ q # << >>
       /\ Len(Last(q)) < BatchFrames
       /\ Bytes(Last(q)) + f.bytes <= BatchBytes
    THEN [q EXCEPT ![Len(q)] = Append(@, f)]
    ELSE Append(q, <<f>>)

NewFrame(n) == [id |-> Len(accepted) + 1, bytes |-> n]

\* fn try_push (from try_send_payload_to); a full queue returns the frame to
\* the caller, which tries another backend or drops it.
TryPush(p, n) ==
    /\ pc # "closed"
    /\ p \notin BatchProducers
    /\ prod[p] = "idle"
    /\ Len(accepted) < MaxFrames
    /\ Len(Frames) < Capacity
    /\ queue' = PushLocked(queue, NewFrame(n))
    /\ hint' = Len(Frames) + 1
    /\ accepted' = Append(accepted, NewFrame(n))
    /\ prod' = [prod EXCEPT ![p] = "wake"]
    /\ UNCHANGED <<notifyVars, workerVars, blocked>>

\* fn write_payload_batch on a single backend without FEC: the frames are
\* pushed under one lock.  Frames that find the queue at its high-water mark
\* are dropped.  Two frames stand for a burst.
WritePayloadBatch(p, n) ==
    LET f == NewFrame(n)
        g == [f EXCEPT !.id = @ + 1]
        room == Capacity - 2 - Len(Frames)
    IN  /\ pc # "closed"
        /\ p \in BatchProducers
        /\ prod[p] = "idle"
        /\ Len(accepted) + 2 <= MaxFrames
        /\ room > 0
        /\ IF room >= 2
           THEN /\ queue' = PushLocked(PushLocked(queue, f), g)
                /\ accepted' = accepted \o <<f, g>>
           ELSE /\ queue' = PushLocked(queue, f)
                /\ accepted' = Append(accepted, f)
        /\ prod' = [prod EXCEPT ![p] = "wake"]
        /\ UNCHANGED <<hint, notifyVars, workerVars, blocked>>

\* fn wake: only the thread that turns pending on goes on.
WakeCas(p) ==
    /\ prod[p] = "wake"
    /\ pending' = TRUE
    /\ prod' = [prod EXCEPT ![p] = IF pending THEN "idle" ELSE "push"]
    /\ UNCHANGED <<queue, hint, dirty, woken, accepted, workerVars, blocked>>

\* dirty.push fails when tokens of other connections fill the queue.
WakePush(p) ==
    /\ prod[p] = "push"
    /\ dirty' \in {dirty, TRUE}
    /\ prod' = [prod EXCEPT ![p] = "poke"]
    /\ UNCHANGED <<queue, hint, pending, woken, accepted, workerVars, blocked>>

WakePoke(p) ==
    /\ prod[p] = "poke"
    /\ woken' = TRUE
    /\ prod' = [prod EXCEPT ![p] = "idle"]
    /\ UNCHANGED <<queue, hint, pending, dirty, accepted, workerVars, blocked>>

-----------------------------------------------------------------------------
(***************************************************************************)
(* The worker.                                                             *)
(***************************************************************************)

\* Mutant of DrainTls: every blocked attempt restarts the 10 s clock.
DrainTlsRestartsClock(held) ==
    IF held = << >> THEN /\ tls' = << >> /\ stall' = "no" /\ UNCHANGED wire
    ELSE IF blocked THEN tls' = held /\ stall' = "yes" /\ UNCHANGED wire
    ELSE /\ tls' = << >>
         /\ stall' = "no"
         /\ wire' = wire \o Payload(held)

\* fn drain_tls on what rustls holds.
DrainTls(held) ==
    IF held = << >> THEN /\ tls' = << >> /\ stall' = "no" /\ UNCHANGED wire
    ELSE IF blocked
    THEN /\ tls' = held
         /\ stall' = IF stall = "no" THEN "yes" ELSE stall
         /\ UNCHANGED wire
    ELSE /\ tls' = << >>
         /\ stall' = "no"
         /\ wire' = wire \o Payload(held)

\* poll.poll returns on the wake event or after 250 ms.
Poll ==
    /\ pc = "poll"
    /\ pc' = "scan"
    /\ took' = woken
    /\ woken' = FALSE
    /\ UNCHANGED <<queue, hint, pending, dirty, prod, ret, buf, leftover, tls,
                   stall, blocked, keepalive, forgotten, accepted, wire>>

\* The scan closes a connection whose write is stalled for 10 s.
ScanStalled ==
    /\ pc = "scan"
    /\ stall = "long"
    /\ pc' = "closed"
    /\ UNCHANGED <<queue, hint, notifyVars, prod, ret, took, buf, leftover, tls,
                   stall, blocked, keepalive, forgotten, accepted, wire>>

\* Mutant of FlushGate: an unfinished pull does not open the gate.
FlushGateNoLeftover(held) == pending \/ held # << >> \/ stall # "no"

\* The scan of a connection: keepalive if one is due and nothing is held
\* back, then flush_outbound if there is a reason to.
FlushGate(held) == pending \/ leftover \/ held # << >> \/ stall # "no"

Scan ==
    LET due == keepalive /\ stall = "no" /\ tls = << >>
        held == IF due THEN <<Heartbeat>> ELSE tls
    IN  /\ pc = "scan"
        /\ stall # "long"
        /\ keepalive' = (keepalive /\ ~due)
        /\ tls' = held
        /\ pc' = IF FlushGate(held) THEN "flush" ELSE "dirty"
        /\ ret' = "dirty"
        /\ UNCHANGED <<queue, hint, notifyVars, prod, took, buf, leftover,
                       stall, blocked, forgotten, accepted, wire>>

\* The wake event pops the dirty token and flushes its connection.
PopDirty ==
    /\ pc = "dirty"
    /\ took /\ dirty
    /\ dirty' = FALSE
    /\ pc' = "flush" /\ ret' = "dirty"
    /\ UNCHANGED <<queue, hint, pending, woken, prod, took, buf, leftover, tls,
                   stall, blocked, keepalive, forgotten, accepted, wire>>

EventsDone ==
    /\ pc = "dirty"
    /\ ~(took /\ dirty)
    /\ pc' = "poll"
    /\ UNCHANGED <<queue, hint, notifyVars, prod, ret, took, buf, leftover, tls,
                   stall, blocked, keepalive, forgotten, accepted, wire>>

\* The socket is readable: after the received frames drain_tls runs too.
ReadEvent ==
    /\ Reads
    /\ pc = "dirty"
    /\ DrainTls(tls)
    /\ forgotten' = (forgotten \/ (tls # << >> /\ tls' = << >>))
    /\ UNCHANGED <<queue, hint, notifyVars, prod, pc, ret, took, buf, leftover,
                   blocked, keepalive, accepted>>

\* flush_outbound begins: consume_wake, then what rustls still holds; if the
\* socket does not take it the flush ends here.
FlushBegin ==
    /\ pc = "flush"
    /\ pending' = FALSE
    /\ DrainTls(tls)
    /\ pc' = IF tls' # << >> THEN ret ELSE "pull"
    /\ buf' = << >>
    /\ forgotten' = FALSE
    /\ UNCHANGED <<queue, hint, dirty, woken, prod, ret, took, leftover,
                   blocked, keepalive, accepted>>

AtDrainLimit == Wire(buf) >= SoftLimit \/ Len(buf) >= PullLimit

\* fn try_pop_fitting refuses a front batch that exceeds the record's rest.
FrontFits == queue # << >> /\ Estimated(Head(queue)) <= Budget - Wire(buf)

\* Mutant of FlushPull: the newest batch is taken first.
FlushPullNewest ==
    /\ pc = "pull"
    /\ ~AtDrainLimit
    /\ FrontFits
    /\ buf' = buf \o Last(queue)
    /\ queue' = Front(queue)
    /\ hint' = Len(Frames) - Len(Last(queue))
    /\ UNCHANGED <<notifyVars, prod, pc, ret, took, leftover, tls, stall,
                   blocked, keepalive, forgotten, accepted, wire>>

\* One turn of the loop: a whole batch moves to send_buf.
FlushPull ==
    /\ pc = "pull"
    /\ ~AtDrainLimit
    /\ FrontFits
    /\ buf' = buf \o Head(queue)
    /\ queue' = Tail(queue)
    /\ hint' = Len(Frames) - Len(Head(queue))
    /\ UNCHANGED <<notifyVars, prod, pc, ret, took, leftover, tls, stall,
                   blocked, keepalive, forgotten, accepted, wire>>

\* The loop ends; tx_leftover is set only by the drain limit.  The record is
\* written and drained.
FlushEnd ==
    /\ pc = "pull"
    /\ AtDrainLimit \/ ~FrontFits
    /\ leftover' = AtDrainLimit
    /\ forgotten' = (~AtDrainLimit /\ queue # << >>)
    /\ DrainTls(buf)
    /\ buf' = << >>
    /\ pc' = ret
    /\ UNCHANGED <<queue, hint, notifyVars, prod, ret, took, blocked, keepalive, accepted>>

-----------------------------------------------------------------------------
(***************************************************************************)
(* Environment: the peer stops and starts reading, time passes.            *)
(***************************************************************************)
SocketChanges ==
    /\ pc # "closed"
    /\ blocked' = ~blocked
    /\ UNCHANGED <<queue, hint, notifyVars, prod, accepted, workerVars>>

StallTimeout ==
    /\ stall = "yes"
    /\ stall' = "long"
    /\ UNCHANGED <<queue, hint, notifyVars, prod, pc, ret, took, buf, leftover,
                   tls, blocked, keepalive, forgotten, accepted, wire>>

KeepaliveDue ==
    /\ pc # "closed"
    /\ ~keepalive
    /\ keepalive' = TRUE
    /\ UNCHANGED <<queue, hint, notifyVars, prod, pc, ret, took, buf, leftover,
                   tls, stall, blocked, forgotten, accepted, wire>>

Wake(p) == WakeCas(p) \/ WakePush(p) \/ WakePoke(p)

Worker ==
    \/ Poll \/ ScanStalled \/ Scan \/ PopDirty \/ EventsDone
    \/ FlushBegin \/ FlushPull \/ FlushEnd

Next ==
    \/ \E p \in Producers, n \in FrameSizes : TryPush(p, n) \/ WritePayloadBatch(p, n)
    \/ \E p \in Producers : Wake(p)
    \/ Worker \/ ReadEvent
    \/ SocketChanges \/ StallTimeout \/ KeepaliveDue

(***************************************************************************)
(* Threads run; 10 s stalls and 4 s keepalive periods pass.  The peer need *)
(* not read.                                                               *)
(***************************************************************************)
Fairness ==
    /\ \A p \in Producers : WF_vars(Wake(p))
    /\ WF_vars(Worker)
    /\ WF_vars(StallTimeout) /\ WF_vars(KeepaliveDue)

Spec == Init /\ [][Next]_vars /\ Fairness

-----------------------------------------------------------------------------
(***************************************************************************)
(* Properties.                                                             *)
(***************************************************************************)
(***************************************************************************)
(* From the queue to the socket no frame is lost, repeated or overtaken:   *)
(* socket, rustls, send_buf and queue together hold exactly the accepted   *)
(* frames, in order, while producers push concurrently with the flush; and *)
(* a flush never builds a record above the plaintext budget, whatever      *)
(* mixture of batches it pulls ("a batch accepted under the budget cannot  *)
(* push the rustls plaintext buffer past its hard record limit").          *)
(***************************************************************************)
Fifo ==
    /\ accepted = wire \o Payload(tls) \o buf \o Frames
    /\ Wire(buf) <= Budget

(***************************************************************************)
(* When the worker sleeps in poll and no producer is about to wake it, a   *)
(* frame still in the queue or in rustls has something that brings the     *)
(* next scan to it: an unconsumed wake, tx_leftover or a pending write     *)
(* ("there is no lost-wakeup window", the comment on consume_wake).        *)
(***************************************************************************)
Unattended ==
    /\ pc = "poll"
    /\ \A p \in Producers : prod[p] # "wake"
    /\ queue # << >> \/ tls # << >>

NoSilentBacklog == Unattended => FlushGate(tls)

(***************************************************************************)
(* The wake-up protocol itself loses nothing.  A backlog is forgotten in   *)
(* two ways only: the last flush stopped at a batch that did not fit its   *)
(* record, or a read event drained rustls for a flush that had given up    *)
(* on it; whatever producers, wakes and scans do in between, every other   *)
(* backlog is remembered.                                                  *)
(***************************************************************************)
BacklogRemembered == Unattended => FlushGate(tls) \/ forgotten

(***************************************************************************)
(* Once the socket stays writable, or stays blocked, everything accepted   *)
(* reaches it again and again, or the connection is closed because the     *)
(* peer did not read for 10 s (write_stalled keeps its first instant).  A  *)
(* forgotten backlog waits for the next wake or keepalive, no longer.  The *)
(* exception is a queue whose first batch no record takes, empty as it may *)
(* be: a single frame above the budget (try_pop_fitting).                  *)
(***************************************************************************)
Stuck == queue # << >> /\ Estimated(Head(queue)) > Budget

EveryFrameWritten ==
    (<>[]blocked \/ <>[]~blocked) => []<>(wire = accepted \/ pc = "closed" \/ Stuck)

(***************************************************************************)
(* The same without the exception, which an MTU below the budget ("TAP     *)
(* MTU, validated in the 576-9000 range", README.md) would make needless:  *)
(* no frame that was accepted holds up the queue for ever.                 *)
(***************************************************************************)
NoFrameHoldsUp ==
    (<>[]blocked \/ <>[]~blocked) => []<>(wire = accepted \/ pc = "closed")
=============================================================================
