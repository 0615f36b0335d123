------------------------------- MODULE RxActor -------------------------------
(***************************************************************************)
(* The receive side of one logical session: the physical connections that  *)
(* feed it, each with a producer, the state they share (reorder buffer and *)
(* duplicate filter behind one lock), the timeout thread, and the change   *)
(* of the session epoch, which must keep frames of the old epoch out.      *)
(*                                                                         *)
(* side says who receives.  The server (src/server.rs) rotates the epoch   *)
(* inside a handshake and compares it for every frame; the client          *)
(* (src/client.rs) learns the epoch from the answer to its own handshake.  *)
(* mode says how: with more than one connection through RxSessionActor     *)
(* (src/rx_actor.rs), whose generation number fences old producers, with a *)
(* single one through the buffer and filter of the session itself.         *)
(*                                                                         *)
(* A frame is its sequence number: on the wire it belongs to the epoch of  *)
(* its connection, whose key alone opens it.  The window of the buffer is  *)
(* the subject of module Reorder, the FEC decoder that of FecPath: here    *)
(* any record it sees may let it rebuild a frame of the record's epoch,    *)
(* for whose keys the decoder was made, and a control record may be a      *)
(* protocol error.                                                         *)
(***************************************************************************)
EXTENDS Integers, Sequences, FiniteSets

CONSTANTS
    Conns,       \* connection slots
    MaxSeq,      \* bound: sequence numbers used per epoch
    MaxEpoch,    \* bound: epochs
    MaxJoins,    \* bound: handshakes
    MaxArrivals, \* bound: records that arrive; a frame may arrive again
    DedupWindow, \* DEDUP_WINDOW
    BatchCap     \* rx_batch_size()

ASSUME RxActorAssumption ==
    /\ MaxSeq \in Nat \ {0} /\ MaxEpoch \in Nat \ {0}
    /\ DedupWindow \in Nat \ {0} /\ BatchCap \in Nat \ {0}

Seqs == 1..MaxSeq
Epochs == 1..MaxEpoch
Control == 0     \* a record with sequence 0: FEC control
Nothing == 0     \* the decoder rebuilt no frame

VARIABLES
    side, mode,  \* who receives and how, fixed for the session
    epoch,       \* the epoch of the session on the server
    known,       \* the client's record of it: SessionState.session_epoch
    generation,  \* RxSessionActor.generation, also RxActorState.generation
    rx,          \* reorder position, frames held, duplicate filter
    conn,        \* the connections
    timer,       \* frames the timeout thread has released and not delivered
    delivered,   \* frames handed to the switch or the TAP, by generation
    twice,       \* some frame was handed over a second time
    arrivals,    \* records that arrived so far
    joins        \* handshakes so far

vars == <<side, mode, epoch, known, generation, rx, conn, timer, delivered, twice,
          arrivals, joins>>

\* A frame remembers the epoch it was sent in.
Frame(e, s) == [ep |-> e, seq |-> s]

\* fed is the set of epochs whose frames reached the buffer since its reset.
Empty == [expected |-> 0, held |-> {}, slots |-> [i \in 0..DedupWindow - 1 |-> 0],
          fed |-> {}]

NoConn == [pc |-> "down", epoch |-> 0, gen |-> 0, reconf |-> FALSE,
           batch |-> <<>>, ready |-> {}, rgen |-> 0, failed |-> FALSE]

Init ==
    /\ side \in {"server", "client"}
    /\ mode \in {"actor", "direct"}
    /\ epoch = 1
    /\ known = 0
    /\ generation = 1
    /\ rx = Empty
    /\ conn = [c \in Conns |-> NoConn]
    /\ timer = [ready |-> {}, gen |-> 0]
    /\ delivered = {} /\ twice = FALSE
    /\ arrivals = 0
    /\ joins = 0

At(c, pc) == conn[c].pc = pc
actorState == <<generation, rx, timer>>
output == <<delivered, twice>>
setting == <<side, mode>>

-----------------------------------------------------------------------------
(***************************************************************************)
(* ReorderBuffer::insert_into and DeDuplicator::is_duplicate, on the       *)
(* shared state: the result and the frames that became ready.              *)
(***************************************************************************)
HeldSeqs(held) == {f.seq : f \in held}

\* The first sequence from e on that is not held.
RunEnd(e, held) ==
    CHOOSE n \in e..MaxSeq + 1 :
        n \notin HeldSeqs(held) /\ \A i \in e..n - 1 : i \in HeldSeqs(held)

\* Mutant of Insert: a sequence behind the position is passed on.
InsertLate(r, f) ==
    LET e == IF r.expected = 0 THEN f.seq ELSE r.expected
        held == IF f.seq \in HeldSeqs(r.held) THEN r.held ELSE r.held \cup {f}
        n == RunEnd(e, held)
        ready == {g \in held : g.seq < n}
    IN  [rx |-> [r EXCEPT !.expected = n, !.held = held \ ready, !.fed = @ \cup {f.ep}],
         ready |-> ready]

Insert(r, f) ==
    LET e == IF r.expected = 0 THEN f.seq ELSE r.expected
        held == IF f.seq < e \/ f.seq \in HeldSeqs(r.held)
                THEN r.held ELSE r.held \cup {f}
        n == RunEnd(e, held)
        ready == {g \in held : g.seq < n}
    IN  [rx |-> [r EXCEPT !.expected = n, !.held = held \ ready, !.fed = @ \cup {f.ep}],
         ready |-> ready]

Slot(s) == s % DedupWindow
Duplicate(r, s) == r.slots[Slot(s)] = s
Mark(r, s) == [r EXCEPT !.slots[Slot(s)] = s]

\* A pass over the buffer: its state and what became ready so far.
InsertInto(acc, f) ==
    LET i == Insert(acc.rx, f)
    IN  [rx |-> i.rx, ready |-> acc.ready \cup i.ready]

\* The frame the decoder rebuilt from f goes past the duplicate filter.
Recover(acc, f, rec) ==
    IF rec = Nothing THEN acc ELSE InsertInto(acc, Frame(f.ep, rec))

\* insert_pair: the lower sequence first; a copy of f itself is dropped.
InsertPair(acc, f, rec) ==
    IF rec = f.seq THEN InsertInto(acc, f)
    ELSE IF rec < f.seq THEN InsertInto(Recover(acc, f, rec), f)
    ELSE Recover(InsertInto(acc, f), f, rec)

\* process_item; dedup says whether the duplicate filter is asked here, or was
\* frame by frame before the batch was made (the direct path).
ProcessItem(acc, f, rec, dedup) ==
    IF f.seq = Control \/ (dedup /\ Duplicate(acc.rx, f.seq)) THEN Recover(acc, f, rec)
    ELSE InsertPair([rx |-> IF dedup THEN Mark(acc.rx, f.seq) ELSE acc.rx,
                     ready |-> acc.ready], f, rec)

\* The first upto items of a batch; rec is what the decoder made of each.
Processed(r, batch, rec, upto, dedup) ==
    LET step[n \in 0..Len(batch)] ==
          IF n = 0 THEN [rx |-> r, ready |-> {}]
          ELSE IF n > upto THEN step[n - 1]
          ELSE ProcessItem(step[n - 1], batch[n], rec[n], dedup)
    IN  step[Len(batch)]

\* The direct path: on_data_batch appends the frames rebuilt from a batch to it,
\* and all are inserted in this order.
Inserted(r, batch, rebuilt) ==
    LET input == batch \o rebuilt
    IN  Processed(r, input, [n \in 1..Len(input) |-> Nothing], Len(input), FALSE)

\* What the decoder may rebuild from the batch of c: at most a frame per record.
Rebuilt(c) ==
    UNION {[1..n -> {Frame(conn[c].epoch, s) : s \in Seqs}] : n \in 0..Len(conn[c].batch)}

Deliver(frames, g) ==
    LET now == {[gen |-> g, seq |-> f.seq] : f \in frames}
    IN  /\ delivered' = delivered \cup now
        /\ twice' = (twice \/ now \cap delivered # {})

-----------------------------------------------------------------------------
(***************************************************************************)
(* Joining.  On the server the handshake holds the sessions lock; a        *)
(* changed client instance rotates the epoch with everything it fences.    *)
(* Seen from the client, the same step happens at its peer, and the answer *)
(* carries the epoch of that moment.                                       *)
(***************************************************************************)
\* Mutant of Join: the receive state is fenced for every joining connection.
JoinResetting(c, rotate) ==
    /\ At(c, "down") /\ joins < MaxJoins
    /\ mode = "direct" /\ side = "client" => \A d \in Conns : At(d, "down")
    /\ rotate => epoch < MaxEpoch
    /\ joins' = joins + 1
    /\ epoch' = IF rotate THEN epoch + 1 ELSE epoch
    /\ IF side = "server"
       THEN rx' = Empty /\ generation' = generation + 1
       ELSE UNCHANGED <<rx, generation>>
    /\ conn' = [conn EXCEPT ![c] =
                  [NoConn EXCEPT !.pc = "joined",
                                 !.epoch = IF side = "client" THEN epoch' ELSE 0]]
    /\ UNCHANGED <<setting, known, timer, output, arrivals>>

Join(c, rotate) ==
    /\ At(c, "down") /\ joins < MaxJoins
    /\ mode = "direct" /\ side = "client" => \A d \in Conns : At(d, "down")
    /\ rotate => epoch < MaxEpoch
    /\ joins' = joins + 1
    /\ epoch' = IF rotate THEN epoch + 1 ELSE epoch
    /\ IF side = "server" /\ rotate
       THEN rx' = Empty /\ generation' = generation + 1
       ELSE UNCHANGED <<rx, generation>>
    /\ conn' = [conn EXCEPT ![c] =
                  [NoConn EXCEPT !.pc = "joined",
                                 !.epoch = IF side = "client" THEN epoch' ELSE 0]]
    /\ UNCHANGED <<setting, known, timer, output, arrivals>>

\* Server: key and epoch of the connection are copied under the epoch lock.
Snapshot(c) ==
    /\ side = "server" /\ At(c, "joined")
    /\ conn' = [conn EXCEPT ![c].pc = "tuned", ![c].epoch = epoch]
    /\ UNCHANGED <<setting, epoch, known, actorState, output, arrivals, joins>>

\* Client: the session lock guards the comparison with the recorded epoch; the
\* receive state is reset after it, by the thread that saw the change.
Negotiate(c) ==
    /\ side = "client" /\ At(c, "joined")
    /\ known' = conn[c].epoch
    /\ conn' = [conn EXCEPT ![c].pc = "tuned", ![c].reconf = (known # conn[c].epoch)]
    /\ UNCHANGED <<setting, epoch, actorState, output, arrivals, joins>>

Reconfigure(c) ==
    /\ side = "client" /\ At(c, "tuned") /\ conn[c].reconf
    /\ rx' = Empty
    /\ generation' = generation + 1
    /\ conn' = [conn EXCEPT ![c].reconf = FALSE]
    /\ UNCHANGED <<setting, epoch, known, timer, output, arrivals, joins>>

\* RxSessionActor::producer: the connection takes the generation of now.
MakeProducer(c) ==
    /\ At(c, "tuned") /\ ~conn[c].reconf
    /\ conn' = [conn EXCEPT ![c].pc = "up", ![c].gen = generation]
    /\ UNCHANGED <<setting, epoch, known, actorState, output, arrivals, joins>>

-----------------------------------------------------------------------------
(***************************************************************************)
(* Receiving.                                                              *)
(***************************************************************************)
Close(c) == conn' = [conn EXCEPT ![c] = NoConn]

Push(c, s) ==
    conn' = [conn EXCEPT ![c].batch = Append(@, Frame(conn[c].epoch, s)),
                         ![c].pc = IF \/ mode = "actor" /\ s = Control
                                      \/ Len(conn[c].batch) + 1 >= BatchCap
                                   THEN "flush" ELSE "up"]

Arrives == arrivals < MaxArrivals /\ arrivals' = arrivals + 1

\* Without an actor the filter is asked at once; a duplicate is left to the
\* decoder, if there is one (an item that inserts nothing).  static_rx (one
\* connection, no FEC) does not ask the filter.  A control record is decoded at
\* once too, and what it lets rebuild waits in the batch.
Filter(c, s) ==
    \/ mode = "actor" /\ UNCHANGED rx /\ Push(c, s)
    \/ /\ mode = "direct" /\ s = Control /\ UNCHANGED rx
       /\ \/ UNCHANGED conn
          \/ \E r \in Seqs :
               conn' = [conn EXCEPT ![c].batch = Append(@, Frame(conn[c].epoch, r))]
    \/ /\ mode = "direct" /\ s # Control /\ rx' = Mark(rx, s)
       /\ IF Duplicate(rx, s) THEN UNCHANGED conn \/ Push(c, Control) ELSE Push(c, s)
    \/ mode = "direct" /\ s # Control /\ UNCHANGED rx /\ Push(c, s)

\* Mutant of ServerReceive: the epoch is not compared for every frame.
ServerReceiveUnchecked(c, s) ==
    /\ side = "server" /\ At(c, "up")
    /\ Arrives /\ Filter(c, s)
    /\ UNCHANGED <<setting, epoch, known, generation, timer, output, joins>>

\* A record of a connection with a stale epoch: what is batched is still flushed,
\* then the connection is closed.
Reject(c) ==
    IF conn[c].batch = <<>> THEN Close(c)
    ELSE conn' = [conn EXCEPT ![c].pc = "flush", ![c].failed = TRUE]

ServerReceive(c, s) ==
    /\ side = "server" /\ At(c, "up")
    /\ Arrives
    /\ IF conn[c].epoch # epoch THEN Reject(c) /\ UNCHANGED rx ELSE Filter(c, s)
    /\ UNCHANGED <<setting, epoch, known, generation, timer, output, joins>>

ClientReceive(c, s) ==
    /\ side = "client" /\ At(c, "up")
    /\ Arrives /\ Filter(c, s)
    /\ UNCHANGED <<setting, epoch, known, generation, timer, output, joins>>

\* The socket is drained: what is batched is flushed.
Drained(c) ==
    /\ At(c, "up") /\ conn[c].batch # <<>>
    /\ conn' = [conn EXCEPT ![c].pc = "flush"]
    /\ UNCHANGED <<setting, epoch, known, actorState, output, arrivals, joins>>

\* RxSessionActor::process_batch: under the lock the batch of an old generation
\* is dropped, any other is processed up to its first bad control record.
ProcessBatch(c, upto) ==
    /\ mode = "actor" /\ At(c, "flush")
    /\ LET b == conn[c].batch
           bad == upto < Len(b)
       IN  /\ bad => b[upto + 1].seq = Control
           /\ IF conn[c].gen # generation
              THEN /\ upto = Len(b) /\ UNCHANGED rx
                   /\ IF conn[c].failed THEN Close(c)
                      ELSE conn' = [conn EXCEPT ![c].pc = "up", ![c].batch = <<>>]
              ELSE \E rec \in [1..Len(b) -> Seqs \cup {Nothing}] :
                     LET p == Processed(rx, b, rec, upto, TRUE)
                     IN  /\ rx' = p.rx
                         /\ conn' = [conn EXCEPT
                                ![c].pc = "deliver", ![c].batch = <<>>, ![c].ready = p.ready,
                                ![c].rgen = generation, ![c].failed = (conn[c].failed \/ bad)]
    /\ UNCHANGED <<setting, epoch, known, generation, timer, output, arrivals, joins>>

\* deliver_reusing, after the lock: then a protocol error is reported, which
\* closes the connection.
DeliverReady(c) ==
    /\ At(c, "deliver")
    /\ Deliver(conn[c].ready, conn[c].rgen)
    /\ IF conn[c].failed THEN Close(c)
       ELSE conn' = [conn EXCEPT ![c].pc = "up", ![c].ready = {}, ![c].rgen = 0]
    /\ UNCHANGED <<setting, epoch, known, actorState, arrivals, joins>>

\* flush_server_rx_batch: the session's own buffer, without a fence; the frames
\* go to the switch after its lock.
ServerFlush(c) ==
    /\ mode = "direct" /\ side = "server" /\ At(c, "flush")
    /\ \E rebuilt \in Rebuilt(c) :
         LET p == Inserted(rx, conn[c].batch, rebuilt)
         IN  /\ rx' = p.rx
             /\ conn' = [conn EXCEPT ![c].pc = "deliver", ![c].batch = <<>>,
                                     ![c].ready = p.ready, ![c].rgen = generation]
    /\ UNCHANGED <<setting, epoch, known, generation, timer, output, arrivals, joins>>

\* flush_client_rx_batch: the frames are queued for the TAP under the lock.
ClientFlush(c) ==
    /\ mode = "direct" /\ side = "client" /\ At(c, "flush")
    /\ \E rebuilt \in Rebuilt(c) :
         LET p == Inserted(rx, conn[c].batch, rebuilt)
         IN  rx' = p.rx /\ Deliver(p.ready, generation)
    /\ conn' = [conn EXCEPT ![c].pc = "up", ![c].batch = <<>>]
    /\ UNCHANGED <<setting, epoch, known, generation, timer, arrivals, joins>>

\* A connection ends: its batch and what it has not delivered are dropped.
Disconnect(c) ==
    /\ At(c, "up")
    /\ Close(c)
    /\ UNCHANGED <<setting, epoch, known, actorState, output, arrivals, joins>>

\* The timeout thread (or, without an actor, a poll loop) gives up a gap: the
\* buffer continues with the first frame it holds.
TimeoutFlush ==
    /\ timer.ready = {} /\ rx.held # {}
    /\ LET first == CHOOSE s \in HeldSeqs(rx.held) : \A i \in HeldSeqs(rx.held) : s <= i
           n == RunEnd(first, rx.held)
           ready == {g \in rx.held : g.seq < n}
       IN  /\ rx' = [rx EXCEPT !.expected = n, !.held = @ \ ready]
           /\ timer' = [ready |-> ready, gen |-> generation]
    /\ UNCHANGED <<setting, epoch, known, generation, conn, output, arrivals, joins>>

TimeoutDeliver ==
    /\ timer.ready # {}
    /\ Deliver(timer.ready, timer.gen)
    /\ timer' = [ready |-> {}, gen |-> 0]
    /\ UNCHANGED <<setting, epoch, known, generation, rx, conn, arrivals, joins>>

Next ==
    \/ \E c \in Conns :
         \/ \E rotate \in BOOLEAN : Join(c, rotate)
         \/ Snapshot(c)
         \/ Negotiate(c)
         \/ Reconfigure(c)
         \/ MakeProducer(c)
         \/ \E s \in Seqs \cup {Control} : ServerReceive(c, s)
         \/ \E s \in Seqs \cup {Control} : ClientReceive(c, s)
         \/ Drained(c)
         \/ \E upto \in 0..BatchCap : ProcessBatch(c, upto)
         \/ DeliverReady(c)
         \/ ServerFlush(c)
         \/ ClientFlush(c)
         \/ Disconnect(c)
    \/ TimeoutFlush
    \/ TimeoutDeliver

Spec == Init /\ [][Next]_vars

-----------------------------------------------------------------------------
\* Whatever arrives twice, is recovered and also received, is given up and then
\* comes late, or is released by the timer while a reader is at work: within one
\* generation no frame is handed to the switch or the TAP twice.
DeliveredOnce == ~twice

\* "A connection from an older epoch MUST NOT inject traffic after a newer epoch
\* has been established": on the server with an actor, where frames pass the
\* epoch check long before their batch reaches the shared state, the buffer is
\* fed with frames of the session's epoch only.
StaleEpochFenced ==
    side = "server" /\ mode = "actor" => rx.fed \subseteq {epoch}

\* On the server no connection of the current epoch is deaf: its producer is of
\* the current generation, so its batches are not dropped.
CurrentProducerHeard ==
    \A c \in Conns : side = "server" /\ conn[c].pc \in {"up", "flush"} /\ conn[c].epoch = epoch
                       => conn[c].gen = generation

\* The same demand for every receiver: docs/protocol_v3.md makes no exception
\* for the client or for sessions with one connection.
NoForeignEpoch ==
    /\ Cardinality(rx.fed) <= 1
    /\ side = "server" => rx.fed \subseteq {epoch}
=============================================================================
