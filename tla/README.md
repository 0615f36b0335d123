# A TLA+ verification of tlsvpn-rs

tlsvpn-rs carries Ethernet frames over several TLS connections per client.
This directory holds TLA+ models of the parts of it in which threads,
connections and timers interact, TLC configurations that check them on small
instances, and TLAPS proofs of the results that hold for every instance.
`PROJECT.json` maps every definition to the lines it models and lists runs,
findings, hazards and theorems. Paths such as `server.rs` are under `src/src/`.

## 1. The system

    TAP thread ---> VSwitch ---> AsyncPort (one per session)
    workers    --/                 | seq, FEC encoder, mode fence
                                   v
                     Backend (one per TCP connection): OwnedBatchQueue
                                   | wake (BackendNotify)
                                   v
                     worker_loop / client writer: flush_outbound -> rustls -> TCP
    ------------------------------- the network -------------------------------
                     worker / client reader: frames of one connection
                                   v
                     RxSessionActor: FEC decoder, reorder buffer
                                   v
                     VSwitch (server) or TAP (client)

| component | state | operations | what makes it correct |
| --- | --- | --- | --- |
| reorder buffer (`buffer.rs`) | ring of power-of-two size, `expected_seq`, `gap_since` | insert, direct batch, gap timeout, reset | released frames increase strictly, none twice; no frame waits for ever; skipped sequences are counted |
| server sessions (`server.rs`, `api.rs`) | session table, `ClientSession` objects, IP pool, registry, ban list | handshake, connection close, reaper, kick/ban, `destroy_session` | a connection in service has a live session with a switch port; addresses are neither shared nor leaked; the connection count is exact; an abandoned session ends |
| outbound path (`net.rs`, `server.rs`) | batch queue, wake flag, dirty token, `tx_leftover`, rustls buffer, `write_stalled` | push, wake, scan, flush, drain | no frame lost, repeated or overtaken; records stay in budget; no backlog without something that will look at it |
| FEC path (`fec.rs`, `protocol.rs`, `net.rs`, `rx_actor.rs`) | encoder group, mode and generation, per-backend fence, decoder groups, fence window | `write_payload`, parity, SUSPEND/RESUME, repair, retirement | what is rebuilt is what was sent; a mode control precedes the data it governs; a single loss is repaired |
| receive actor (`rx_actor.rs`, `server.rs`, `client.rs`) | producers with a generation, reorder buffer, duplicate filter, timeout thread | submit a batch, reconfigure, flush a gap, deliver outside the lock | no frame delivered twice; frames of an old epoch are refused; a current connection is heard |
| port dispatch (`net.rs`, `adaptive_multipath.rs`) | input queue, batch at hand, `tx_seq`, charge of each path, active paths | collect, wait for a slot, pick, number, push, complete; `reset_epoch` | a number is used once per epoch; a path is charged what it holds; a numbered batch finds room |
| virtual switch (`net.rs`) | ports, MAC table, static MACs, flood budgets | learn, forward, flood, add/remove port, collect | a session's MAC stays its own; nothing goes to a removed port; floods stay in their budget |
| session resumption (`server.rs`, `client.rs`, `client_state.rs`) | current and pending token, epoch, instance, state file | request, answer, save, rotate, destroy, restart | a client that lost an answer, or crashed, can resume; one that stays up is served |
| host of the client (`client.rs`, `net.rs`, `hooks.rs`) | rules and routes in the kernel, `network_setup` lock, `CLEANUP_INFO`, hook state, `EXIT` | install, report, up, down, clean up, signals | the process ends and takes back what it installed; hooks run once and in order |
| link set-up (`net.rs`, `socks5.rs`, `tcp_cork.rs`) | socket, mark, bytes of the proxy's answer, congestion control and rate, cork and its deadline | dial, SOCKS5 exchange, TCP Brutal, cork, flush | TLS starts on a clean, marked stream; the reported rate is in force; no tail is held back |
| dashboard (`api.rs`, `web_parity.rs`) | listeners per tunnel address, sessions, configuration file, traffic history, event ring | bind, stop, log in, save, sample, flush, stream | a session dies with its credential; the file is never torn; nothing is counted twice; an address is served again |
| framing, crypto, TAP, configuration | | | not modelled, see section 7 |

Interactions. The TAP thread and the workers call the switch, which calls
`AsyncPort` of the destination, concurrently; the port's `backends` lock is
read-held for a whole `write_payload`. A queue push wakes the worker that owns
the connection through an atomic flag, a token queue and the poller. Workers
share the session table, the pool and the switch with each other and with API
threads. Each session has one receive actor, fed by all its connections; a
timer thread flushes its gaps. On the client one thread per connection dials,
sets up the host under one lock, and serves; the main thread joins them all
before it cleans up. The dashboard's manager thread starts one listener thread
per tunnel address; listeners share the configuration and the session store.

What is hard here: the same session is touched by several workers, the reaper
and the API between locks; a wake-up is coalesced with a flag cleared before
the work; records of one FEC transition travel on different TCP streams;
sequence numbers and encoder order are decided in different critical sections;
epochs change under running connections; client, server and state file learn of
a new token at different times; one of many external commands fails; a process
ends in the middle of a save. The hazards of `PROJECT.json` list these at their
lines.

## 2. Modules

| module | models | checked by | proofs |
| --- | --- | --- | --- |
| `OrderedDelivery` | abstract: what the reorder stage promises | as a property of `Reorder` | |
| `Reorder` | `ReorderBuffer` | `MCReorder.cfg` | `ReorderProofs` |
| `ServerSession` | sessions, pool, epochs, retention, reaper, kick, ban | `ServerSession*.cfg`, `Session{Workers,Teardown}.cfg` | `ServerSessionProofs` |
| `Outbound` | queue, wake-ups, flush of one server connection | `Outbound*.cfg` | `OutboundProofs` |
| `FecPath` | FEC sender, streams, receiver of one direction | `Fec*.cfg` | `FecPathProofs` |
| `RxActor` | producers, generations, epochs, duplicate filter, timer of one session | `RxActor.cfg`, `RxForeign.cfg` | `RxActorProofs` |
| `Dispatch` | dispatch thread, path choice, epoch reset of one port | `Dispatch.cfg` | `DispatchProofs` |
| `VSwitch` | ports, MAC table, flood budgets | `VSwitch.cfg` | `VSwitchProofs` |
| `SessionResume` | tokens, epochs and instances between client, server and state file | `SessionResume.cfg`, `Resume*.cfg` | `EdgeProofs` |
| `ClientHost` | policy routing, hooks, exit of the client process | `ClientHost.cfg` | `EdgeProofs` |
| `LinkSetup` | dialling, SOCKS5, TCP Brutal, corking of one connection | `LinkSetup.cfg` | `EdgeProofs` |
| `WebPanel` | listeners, manager, authentication, configuration saves | composed | in `Dashboard` |
| `WebStats` | traffic history, sampler, event hub and streams | composed | in `Dashboard` |
| `Dashboard` | composition of `WebPanel` and `WebStats` | `Dashboard.cfg` | `EdgeProofs` |

A module named `MC...` gives the constants of its specification values for TLC.
Definitions named "Mutant of ..." are plausible bugs put beside the definition
they replace; each breaks the property `PROJECT.json` names for it, which
shows that the property depends on that line of the code.

### Reorder
`ring` is a function from slots to sequences (a frame is its sequence),
`expected`, `size` and `gap` (`none`, `armed`, `due` for no `gap_since`, one
younger or older than 50 ms) are the fields of the struct; `ready` and
`skipped` are the results of the last call. `insert_into` is split into its
returns (`InsertOld`, `InsertTooFar`, `InsertTaken`, `InsertInWindow`,
`InsertGrow`); every action includes the trailing flush and `refresh_gap`.
`Distance` keeps the wrap-around of the `i32` difference, `Plus` the wrap of
the position to 0, which the code also uses for "not yet learned".
`OrderedDelivery` is implemented with `floor <- expected, batch <- ready`.

### ServerSession
`sessions` is the table, `obj` the `ClientSession` objects (a connection keeps
its `Arc` when the table no longer has it), `conn` the physical connections
with their position inside `handle_handshake` or `on_conn_closed`, `del` the
`destroy_session` call of each thread. One step is one critical section or one
atomic operation; a worker is in one handler at a time. Time is
`Expire`: a deadline may be found passed at any moment after it was set.
`active` wraps like the `AtomicU32`. What a request carries is reduced to its
client, its process instance and whether it is accepted. After a rotation of
the epoch the handshake may still fail to make the next token (`HsTokenFails`):
the epoch is then a new one that no connection counts for. `orders` and
`exhaustions` count the control requests and used-up sequence spaces of a
behaviour. Two fields of an object are history: `raced`, it was created while a
thread had still to remove its predecessor's port or registry entry, and
`stranded`, its epoch was raised with no connection in it.

### Outbound
`queue` is a sequence of batches, `pending`/`dirty`/`woken` the three stages of
`BackendNotify::wake`, `pc` the worker between `poll`, the scan, the dirty
tokens and `flush_outbound`; `tls` is what rustls holds. The socket is
registered for READABLE only, as in the code, so a blocked write is retried by
the scan. A frame is its number and its size; the limits of batch, producer and
record are small numbers in the order of the code's 8, 12 and 15.5 KiB. The
budget of a record is compared with an estimate (`Estimated`: the bytes and an
`Allowance` per frame, 32 in the code); what is written has a `Header` per frame
(`Wire`). Frames are of any size, also larger than a batch or than the budget:
no code bounds them. `forgotten` is a history variable. A keepalive is
a record without payload (`Payload`), made only when rustls is empty.

### FecPath
A frame is its sequence; the XOR of frames is a set under symmetric
difference, so a wrong repair shows as a wrong set. `chan[b]` is everything
connection `b` has accepted and the peer has not read, a FIFO; streams are
read in any interleaving. `write_payload` is a sequence of steps: sequence number;
critical section of mode and encoder; control; publication of the generation;
data (or the next connection); then parity. Whether a queue is full is a
choice. A lost connection loses any suffix of its stream. The receiver runs
`process_item` as one step under the actor's lock.

### RxActor
`side` and `mode` fix who receives and whether an actor or the direct path is
used; `conn` holds each connection's producer (`gen`), its negotiated epoch and
the batch it is filling; `rx` is the state behind the actor's lock, with the
ghost `fed` (epochs whose frames entered it). Receiving, submitting and delivering
are separate steps, because the code releases the lock between them. What FEC
rebuilds is not computed here (`FecPath` does): with every item the decoder may
hand over any frame or none (`Recover`), which enters the buffer past the
duplicate filter, before or after the item's own as its number says. What
reached the switch is a set of frames; the order in which two threads hand over
their batches is not promised by the code and not recorded.

### Dispatch
`pc` walks through `dispatch_loop` and `dispatch_owned_batch`: wait for a slot,
collect, pick, lock and number, push, settle. Every frame is one byte; what the
clock decides (round-trip times, pressure, carry) is chosen anew at every pick.
The fallback over the other paths, the trimming of a batch that does not fit and
the return of the charge are steps of their own. `backends.retain` is `Without`,
a recursive function over the list; the ranking of `pick` is the set of the
first k candidates in its order (`Ranked`), which is all that the scan over them
depends on.

### VSwitch
A step is one access to one shared map. `thr` holds what each thread carries: a
handshake between `add_port` and `add_static_mac`, a removal between its three
maps, a frame between lookup and write, a flood with the ports still to serve.
`budget` is the token bucket with the time it owes. `raced` is a ghost: sessions
created while a removal for their id was running.

### SessionResume
`stateFile`, `ident` and `ss` are the three places a client keeps its session in
(file, copy of the file, last answer), `obj` the server's sessions with current
and pending token. A connection has two ends that close at different times.
`Crash`, `ServerRestart`, a failed save, a lost connection and a used-up sequence
space are faults and may come between any two steps, and a handshake may fail
after the server rotated the epoch (`HandshakeFails`). `PlainFec` says that FEC is
on and inner encryption off: then the answer has no salts, nothing in it shows
the client that the epoch is new, and its sequence space stays as it was
(`RotateEpoch`, `Negotiate`). `InitMac` is the address in the first state file, which may
be one that `parse_config_mac` refuses. `spoiled` is a ghost that names what may
cost a client its stored token.

### ClientHost
`kernel` is the set of rules and routes installed; the command lists of
`policy_routing_cmds` and `clean_policy_routing_cmds` are sequences run one by
one, of which any may fail. `lock` is `network_setup`; `cleanup` is
`CLEANUP_INFO`. A signal may come at any step, a second one ends the process on
the spot.

### LinkSetup
`stage` walks through `dial_and_serve` up to the serving loop; `unread` counts the
bytes of the proxy's answer still in the stream. The answer's address type is one
of the three of SOCKS5 or another, of which the code reads nothing. `cc` and
`rate` are the kernel's, `result` what the code reports; `cork` is the struct and
`wire` what the kernel holds back. The loop looks at the cork only after the
events of a poll, and a poll lasts whole milliseconds: a deadline is met up to
`Late` after it passed. A keepalive is written without `before_write`. Every
system call may fail.

### WebPanel, WebStats, Dashboard
A request is split where it reads shared state: expected credential, session
store, each file operation of a save. Files are inodes, so that a rename, a
truncation and a crash between them are told apart. `Dashboard` lets requests
and statistics share one process: saves and control requests emit events, a save
may change the days that are kept and the place of the traffic file, a restart
ends both. The panel's configuration is reduced to credential and days, so that
the place (`Paths`) is chosen anew at each save and each start. `ahead` marks a
stream whose browser named an event the hub has not reached, which happens when
the process was started again. What comes from outside
is drawn from budgets; the run's initial states give each scenario its own.

## 3. Runs

| run | question | bounds and why they suffice |
| --- | --- | --- |
| `reorder` | ring, gap tracking, accounting, refinement of `OrderedDelivery`, `NoFrameStuck` | 32 sequences, rings of 2, 4, 8: both doublings, frames beyond the largest window, and the end of the sequence space all occur; sequences are sent in any order, any number of times |
| `session` | `CountExact`, `ServedByLiveSession`, `LiveSessionReachable`, `AddressAccounting`, `RetentionEnds` | two clients with two processes, two connections, one worker, an API thread, a limit of one or of two sessions, one rare event (a control request or a used-up sequence space), tokens that cannot be made after a rotation: join, rotation, refusal at the limit, revival, re-creation after the reaper, and after a kick while the old session is torn down |
| `outbound` | `Fifo`, `BacklogRemembered`, `EveryFrameWritten` | two producers (one batching), three frames of two sizes, one of which is larger than a batch and than a record, a peer that blocks, inbound reads: all three ends of a flush and all interleavings of a wake occur |
| `fec` | `RecoveredIsSent`, `PreCollapseRepaired`, `RetiredStaysGone`, `FenceBeforeGoverned` | K = 2, six sequences (three groups: before, inside and after a collapse), one connection lost and replaced, one full queue, two pending groups, two done slots so that slots are reused |
| `rx_actor` | `DeliveredOnce`, `StaleEpochFenced`, `CurrentProducerHeard` | two connections, three handshakes, two epochs, three arrivals of three sequences, each of which may bring a rebuilt frame, a filter of two slots (so that it forgets), batches of two: a duplicate after its slot was reused, a gap given up before its frame, a frame both rebuilt and received, a batch overtaken by a rotation |
| `dispatch` | `ChargesMatch`, `EpochPure`, `RoomForFirst` | two paths, five frames, queues of three, numbers up to 4 (used up), two epochs, three joins: fallback to the other path, a batch cut in two, a reset between pick and numbering |
| `vswitch` | `RegisteredMacPinned`, `NoWriteAfterRemoval`, `FloodBudgetHeld` | one client, created twice, a station behind the TAP, three threads, a bucket of one and one refill, batches of two: removal meets learning, forwarding, flooding and re-creation |
| `resume` | `Rejoins`, `Comes` | two connections, two faults of any kind, four processes, five sessions and epochs |
| `client_host` | `CleansUp`, `RoutingReportTrue`, `HooksInOrder`, `Ends` | two threads, mark rules, an extra route and a source rule in different families, three answers with changing gateways, one failing command, with and without hooks |
| `link` | `StreamReady`, `RateReportTrue`, `TailReleased` | two addresses, all address types of a reply and an unknown one, late polls, rates up to 2, batches of an eighth of a segment and, with their framing, of a whole one: small records that together stay below a segment for longer than the bound, and a deadline that moves under an older tail (a tail is held for exactly the two delays with their late polls) |
| `web` | `StaysGuarded`, `ConfigDurable`, `NeverOvercounts`, `StreamGapless`, `ComesUp` | two addresses, four listener threads, two credentials, one session token, two clients, two places for the traffic file, rings of two, channels of one; up to three tunnel events, three requests or six events of the statistics |
| `session_revive_race` | expected violation of `ServedByLiveSession` | two workers |

`ServedByLiveSession` is claimed until the first control request: a kick can meet a
handshake as the reaper can. `LiveSessionReachable` is claimed throughout, for
the API thread and the reaper destroy the same client's sessions beside its
handshakes, except of a session that is created between the removal of its
predecessor from the table and that of its port (`raced`);
`SessionWorkers.cfg` checks it with two workers. `outbound` passes because
`BacklogRemembered` excuses exactly two ways of forgetting a backlog: there is no
third. `EveryFrameWritten` takes out the queue that a frame larger than any record
heads, `Comes` a session that the server keeps without a countdown (`Leaked`) and a
state file with an unusable address, and it is checked with inner encryption.

### Where the code and what is said of it differ

`session_revive_race` is a run: the reaper destroys a session that a handshake
on another worker has just revived (`server.rs:1491`). The following stronger
properties are stated in the modules and are false; where a configuration is
named, TLC shows the counterexample with it.

* `ServerSession.EverySessionReachable` (`SessionTeardown.cfg`): `destroy_session`
  takes the session out of the table, drops the lock and then removes port and
  registry entry by client id (`server.rs:501`). A handshake in between creates
  the session anew, which then loses its port: it is in service and the switch
  does not know it. One worker and an API request suffice.
* `Outbound.NoFrameHoldsUp` (`OutboundOversize.cfg`): `try_push` accepts a frame that
  `try_pop_fitting` takes into no record, be it empty (`net.rs:1306`); everything
  behind it waits while the connection stays up. The repository's README (line 127)
  says the MTU is validated in the range 576-9000, which would exclude such
  frames; `main.rs:262` refuses 0 only.
* `SessionResume.Comes` with an unusable address in the state file
  (`ResumeBadMac.cfg`): `start_client` says it generates a new one
  (`client.rs:836`), and sends the stored one in every handshake
  (`client.rs:877`), which the server refuses; `client_state.rs:28` says that a bad
  state file must never keep the client from coming up.
* `SessionResume.NewEpochFresh` (`ResumePlainFec.cfg`): `docs/protocol_v3.md:175` says
  that a new epoch must reset the sequence allocation to 1. With FEC and without
  inner encryption the client sees no difference in the answer, so neither the
  rebuild nor `reset_epoch` runs (`client.rs:1602`, `client.rs:1675`): a client whose
  sequence space is used up rotates its instance and connects again and again.

* `ServerSession.AbandonedIsFreed` (`ServerSessionExhaust.cfg`): after the
  sequence space is used up no connection starts the retention period; the
  session of a client that stays away is never freed (`server.rs:1545`, against
  the comment at `server.rs:2889`). So is that of a client whose handshake rotated
  the epoch and then could not make the next token (`server.rs:2497`).
* `Outbound.NoSilentBacklog` (`OutboundRead.cfg`, `OutboundRecord.cfg`): frames
  stay queued with no wake, no `tx_leftover` and no pending write, until the
  next wake or the 4 s keepalive: after a read event that drains TLS
  (`server.rs:2052`), and after a flush that stopped at a batch too big for the
  rest of its record (`server.rs:2122`).
* `FecPath.ParityIsArithmetic` (`FecWriters.cfg`): two threads enter the encoder
  in the opposite order of their sequence numbers; the parity is not an
  arithmetic group and the peer ends the connection (`net.rs:1842`).
* `FecPath.SingleLossRepaired` (`FecResume.cfg`): a late SUSPEND on one stream
  drops a group that was sent after the RESUME (`fec.rs:775`).
* `RxActor.NoForeignEpoch` (`RxForeign.cfg`): `docs/protocol_v3.md:27` and `:186`
  say that an older epoch must not inject traffic. The server's direct path
  checks the epoch when a frame is read and inserts it later
  (`flush_server_rx_batch`), without a fence; the client takes its producer
  after the epoch may have moved on (`client.rs:1813`).
* `SessionResume.RejoinsRecreated` (`ResumeRecreated.cfg`): a session made anew
  starts with a low epoch, and `persist_session_state` refuses an epoch below
  the stored one (`client.rs:790`): later tokens are not stored, and a client that
  crashes then waits for the 120 s expiry that `client_state.rs:5` wants to
  avoid.
* `ClientHost.NothingLeftAtAll`: the comment at `client.rs:62` says the latest
  installation is remembered; `CLEANUP_INFO` is a `OnceLock` and keeps the first,
  so a default route of a family whose gateway came later is left behind.
* `LinkSetup.StreamClean`: of a SOCKS5 reply with a domain name the port is not
  read, two bytes stay in front of the TLS stream (`socks5.rs:175`); of one with an
  unknown address type nothing is read (`socks5.rs:191`).
* `Dispatch.NoHoles`: the comment of `wait_backend_slot` says that no number is
  lost; a batch larger than the free room is numbered first and its rest may be
  dropped.

Smaller ones that the properties mention as exceptions or that the models leave
out: two listeners that save at once share one temporary file name
(`ConfigDurable`); a listener that ended with a receive error stays adopted and
its address is not served again (`ComesUp`); `configure_tcp_brutal` reports the
requested rate when the rule is locked and cannot be read back
(`RateReportTrue`); `write_payload_batch` does not store `frames_hint`; the
`lost` counter of `try_recover` is always 0. With two workers
the connection count can wrap (the epoch comparison and `fetch_sub` of
`on_conn_closed` are two steps), a connection can go uncounted (a rotation
between the join of another handshake and its reading of the epoch), and a
deadline can carry a stale version; a browser that reconnects after the process
was started again, naming an event the hub has not reached, gets nothing of the
ring (`StreamGapless`); `session` claims `CountExact` and `RetentionEnds` for one worker only.

## 4. Fairness

Safety properties use none. `Reorder`: the 50 ms of a gap pass and the actor's
timer thread calls `flush_timeout` (`timeout_loop` runs as long as the actor).
`ServerSession`: a worker finishes the handler it is in and keeps scanning (its
loop polls with a 250 ms timeout), deadlines pass; neither new connections nor
connection failures are assumed. `Outbound`: threads run, 10 s and 4 s periods
pass; `EveryFrameWritten` assumes that the socket ends up either writable or
blocked, and nothing about the peer. `SessionResume`: both ends of a connection
go on, a save that began ends, a countdown ends; faults are bounded, so they
stop. `ClientHost`: threads and the main thread run, external commands return
(`run_ip` waits for them), and the set-up lock is given fairly in the long run
(strong fairness of taking it: `parking_lot` mutexes hand over to a waiter
eventually). `Dashboard`: the manager's rounds continue, a listener thread comes
to bind and looks at its stop flag (its receive has a timeout). The other modules
state no fairness: they promise nothing about when.

Deadlock checking is off where the system may stop: every client gone, all
frames sent, the sequence space used up, the process ended.

## 5. Proofs

`ReorderProofs`, for every ring size, number of doublings, batch size, set of
sent sequences and sequence space at least twice the largest window:

* `InvariantHolds`: `Spec => []IInv`, `IInv = TypeOK /\ WindowInv /\ GapTracked`.
  `GapTracked` alone is not inductive: that a flush empties the slots it
  passes needs `WindowInv` (each frame in its own slot, inside the window).
  The arithmetic core is `SlotInjective`: two sequences less than `n` apart
  never share one of `n` slots, hence growing the ring loses no frame.
* `WindowSafe`, `GapAlwaysTracked`, `TypeCorrect`: its parts.
* `SkipsAccounted`: the action property `SkipAccounting`.
* `Refinement`: `Spec => OD!Spec`; every step maps to `Deliver`, `Restart` or a
  stutter.

`FecPathProofs`, for any set of connections and of sending threads, any group
size and any bounds:

* `GovernedDataFenced`: `Spec => []FenceBeforeGoverned`. A data record is
  preceded on its stream by the control of its generation. Not inductive: it
  needs that the generation a connection has recorded was announced on its
  stream (`BackendsAnnounced`), and that between sending the control and the
  data the thread's generation was announced where it is about to send
  (`WritersAnnounced`). "Announced" is monotone: it survives appending, reading
  the head, and a receiver that moves to a newer generation. The proof covers
  the race of two threads that both find the generation missing, and that of an
  older control published after a newer one, which lowers `fec_fence_gen`:
  later data then merely repeats the control.
* `RepairExact`, `RetirementFinal`, `PreCollapseSafe`, `ParityArithmetic`:
  `RecoveredIsSent`, `RetiredStaysGone`, `PreCollapseRepaired` and
  `ParityIsArithmetic`, under `SingleWriter`: one thread calls `write_payload`, as
  the TAP reader of a client does. The hypothesis is needed: with two threads the
  encoder may be given sequences out of order (`FecWriters.cfg`). The invariant
  `RepairInv` follows a group through the system. An armed encoder has exactly
  the part of the current group that was sent, so a parity record covers a whole
  arithmetic group and a SUSPEND names a group's start (`SenderInv`); the streams
  carry such records (`StreamInv`); a decoder group has members of its own only,
  and the output has reached the retired boundary, unless the epoch's last
  sequence was taken and its position wrapped (`ReceiverInv`); a group sent before
  the first SUSPEND is complete, given up, retired, or has all that was read of
  it and lacks more than one frame or the parity (`GroupInv`). The arithmetic
  core is `AlignedApart` and `GroupOf`: starts lie `K` apart, so a sequence
  belongs to one group, and a boundary never cuts one. The decoder's operators
  each have a lemma that says what they change (`RetireForm`, `EntryForm`,
  `SettleForm`), from which `OnDataForm`, `OnParityForm` and `OnModeForm` follow.

`VSwitchProofs`, for any clients with distinct MACs, any addresses, worker and
API threads, burst, and any bounds:

* `SwitchInvariant`: `Spec => []IInv`, `IInv = TypeOK /\ PortInv /\ FloodInv`.
  `TypeOK` is not inductive by itself: that the TAP's port survives, and that
  what is pinned is a session object, needs to know what a removing and a
  creating thread hold.
* `MacStaysPinned`: `Spec => []RegisteredMacPinned`. `Pinned` adds that nobody is
  removing the client's port; `Creation` carries this from `AddPort` to
  `AddStaticMac`, because the handshake holds the sessions lock meanwhile and
  `destroy_session` needs it to start. Learning and expiry leave static entries
  alone, and removals go by client id, which the MACs determine.
* `NothingAfterRemoval`: `Spec => []NoWriteAfterRemoval`. What a removal detaches
  belongs to its client (`Ownership`), its port entry went first (`Removals`),
  a handshake in progress creates a younger object (`Settled`), and the TAP
  thread only ever caches the TAP (`Detached`); so no table leads to it.
* `FloodsBounded`: `Spec => []FloodBudgetHeld`, from the balance `FloodInv`:
  tokens at hand, tokens owed and floods admitted never exceed the burst plus
  the time since the budget was opened.
* `SwitchTyped`: the type invariant.

`RxActorProofs`, for any number of connections, epochs, generations and sequences,
batches of any length and both sides, with and without the actor:

* `OnceHolds`: `Spec => []DeliveredOnce`. Frames leave the lock in `ready` lists
  and reach the switch later, so "not delivered twice" is not inductive.
  `ReleasedOnce` says what is: everything released lies behind the buffer's
  position or in an older generation (`Past`), and is delivered or carried by one
  thread only. It needs that the buffer holds nothing behind its position
  (`RxOK`), which the duplicate filter alone does not give: the filter's slots
  are overwritten, the position is not, and a rebuilt frame does not pass the
  filter at all. `Advance` says of the buffer's insertion what both need.
* `FenceHolds`, `CurrentHeard`: `StaleEpochFenced` and `CurrentProducerHeard`, from
  `FenceInv`: on the server a rotation moves epoch and generation together, so a
  batch whose generation is current was filled under the current epoch, and a
  connection of the current epoch has a producer of the current generation.

`ServerSessionProofs`, for any clients, connections, API threads and bounds:

* `AddressesAccounted`: `Spec => []AddressAccounting`, with any number of workers.
  The used sets are the addresses of the sessions in the table or being torn down
  (`AddrInv`). This rests on `OwnInv` (a session is in the table under its
  client, or in the hands of the one thread that took it out) and on
  `PendingInv` (an object is created at most once per accepted connection).
* `LiveReachable`: `Spec => []LiveSessionReachable`, with any number of workers, API
  threads and requests. `ReachInv` adds that a thread between the removal from
  the table and that of the registry entry works for a client whose session is
  absent or `raced`: only the thread that took the session out goes on, and what
  is created meanwhile is marked (`ReachStep`).
* `CountsExact`, `ServedWhileLive`: `CountExact` and `ServedByLiveSession`, with
  `SingleWorker` as a hypothesis. `--workers 1` is a configuration of the program, and the one a
  single-core host gets by default (`server.rs:1182`); with two workers
  `ServedByLiveSession` is false, as the run `session_revive_race` shows. The
  invariant `SoloInv` adds that at most one handler is in progress and no reaper
  runs beside it (`Exclusive`), that connections are of epochs up to their
  session's (`EpochInv`), and that the counter is the cardinality of the
  connections that count (`CountInv`), through every rotation that sets it to 0.
  API threads interleave freely; `ServeInv` speaks until the first request of
  theirs, as `ServedByLiveSession` does.

`DispatchProofs`, for any number of connections, frames and epochs, any
capacities, round-trip times and slacks:

* `ChargesAlwaysMatch`: `Spec => []ChargesMatch`. `ChargeInv` adds what the thread
  has charged and not yet queued, and `BackendsInv` that the list has every
  connection once, so that a path is not charged under two indices.
* `NumbersStayPure`: `Spec => []EpochPure`. `NumberInv`: numbers in the batch are
  unused, distinct and up to `txSeq` when they are of the current numbering, and
  under the lock no path of this epoch meets an item numbered before it;
  `EpochInv`: the numbers are reset before the epoch is published, by a
  connection that is in neither.
* `RoomIsThere`: `Spec => []RoomForFirst`. `RoomInv` carries the free slot seen by
  the wait to the pick; that `pick` then finds it needs that every choice of
  paths has a first one (`LexLeast`: the order by score, then round-trip time,
  then index has a least element in every set of candidates, although a score
  may be negative).

`OutboundProofs`, for any producers, frame sizes, and batch, queue, record and pull
limits, if the allowance per frame covers its header:

* `FifoHolds`: `Spec => []Fifo`. `StageInv` adds that `send_buf` is used by a
  pull only and a pull starts with rustls empty: otherwise the record of a
  second flush would overtake what is still in rustls. The byte budget needs
  that `Bytes` adds up along a concatenation (`BytesConcat`), the order that
  taking the first batch off and pushing behind the last one commute with
  flattening (`FlattenHead`, `PushLockedForm`).
* `BacklogKept`: `Spec => []BacklogRemembered`. The property speaks of a sleeping
  worker; `Remembered` extends it to every position: a producer is about to wake
  the worker, the next scan's gate is open, or a flush has begun.

`EdgeProofs` holds the parts around the tunnel. `LinkSetup`, for any addresses,
reply lengths, budgets, numbers of connections, segment and batch sizes:

* `StreamIsReady`: `LinkSpec => []StreamReady`. `ReadyInv` says of every stage what
  the property says of the stage `tls`: only a domain name and an unknown address
  type leave bytes.
* `RateIsTrue`: `LinkSpec => []RateReportTrue`. `BrutalInv` says which algorithm
  the kernel has at each call, that what is remembered is the former one, and
  that at the read-back the kernel's rate is the wanted one unless a rule is
  locked.
* `TailsLeave`: `LinkSpec => []TailReleased`. The two delays, each with a late poll,
  are not inductive by themselves. In `CorkInv` the deadline of a tail is one delay after it came, or
  two, and in the second case the counted progress is less than the tail: the
  deadline moves only when progress fills a segment, and by then the tail,
  which is at least as far, has left.

`ClientHost`, for any threads, families, routes and hooks:

* `HostIsCleaned`, `RoutingIsReported`, `HooksKeepOrder`: `HostSpec => []CleansUp`,
  `[]RoutingReportTrue` and `[]HooksInOrder`, from one invariant, `HostInv`. A
  thread holds `network_setup` exactly while it installs or runs the hook
  (`LockInv`). `Underway` says of the command list that is left: with what is in
  the kernel it completes what the answer demands, so that the report is true
  when the list is empty (`RouteInv`). `Cleaning` says the same of the cleanup:
  what it has still to take away and what is left by design are all there is,
  and a rule goes before the routes of its table (`CleanInv`). That the lists
  have this form is proved from their construction (`policy_routing_cmds`,
  `clean_policy_routing_cmds`).

`Dashboard`, for any addresses, credentials, days, finite sets of listeners and
of clients, ring and channel sizes:

* `PanelStaysGuarded`, `ConfigIsDurable`: `Spec => []StaysGuarded` and
  `[]ConfigDurable`. A login's hash stands for the credential it proved
  (`SessionInv`). Until two saves overlap, `Progressed` follows the inode of the
  one save there is: the thread's handle is the temporary file, which is
  complete at the rename, and after the rename the file is what will be
  published; `FileInv` says that file and memory agree outside that last step. A
  crash keeps this because it forgets the thread and not the disk.
* `StreamsHaveNoGap`: `Spec => []StreamGapless`. `EventInv` adds that the ring has
  the latest events, consecutively (`RingInv`), and that what a stream is to
  hand out, backlog then channel, increases, starts after what was seen, and
  until an overflow, and unless the browser was ahead, is every number up to the
  latest (`Flow`). `LaterForm` proves
  what the filter of a subscription returns for rings of any length.
* `HistoryTrue`: `Spec => []NeverOvercounts`. The property is not inductive: an
  observation adds the difference between a reading and the one before, and the
  counters may have been reset, moved on or gone away since the reading was
  taken. `HistoryInv` bounds what is still to be added: the history and what the
  present counters exceed the latest observation by are not more than was moved,
  and while a reading is on its way the same holds with the reading in between
  (`Counted`, once for the totals and once for each client). What was written to
  the files is bounded separately and in every place (`FileCounted`), which is why
  a restart between the two writes counts nothing twice. The sums are folds over sets: that `Total` does not depend
  on the order, changes with one value by that value and falls with a smaller
  domain is proved for finite sets of any size (`SumsExist`, `SumAnyOrder`,
  `TotalChanged`, `TotalAtMost`).

`SessionResume`, for any connections, addresses, process starts, sessions and
epochs:

* `TokenOpens`: `ResumeSpec => []Rejoins`, as long as nothing happened that the
  property excepts. `ResumeInv` says that there is one address and only the latest
  session may be in the table (`OneClient`); that session, file, identity and
  last answer agree but for a save under way, and that what is stored of an
  earlier session has a first epoch, so that the epoch comparison of
  `persist_session_state` lets the next answer through (`Copies`); that the latest
  session gives out the latest token and, until it is shown, also accepts the one
  before, and that file and identity have one of the two (`TokenInv`); and that of
  the answers on their way one of a later epoch has no earlier token, neither
  than another answer nor than what is stored (`AnswerInv`). The last part is what
  makes it safe that answers are made after the table was unlocked and arrive in
  any order. The attempt at this proof showed that `Rejoins` has to except a
  session made anew not only when the file has a later epoch but also when one is
  being written: `persist_session_state` compares with the copy in memory. No
  state within the bounds of the run tells the two apart.

The proofs rest on the named assumptions of the constants, and on the hypothesis
of one worker or one writing thread where it is written. Four modules need
induction over a batch, a list, a ring, a queue or a set: `Induction` derives it,
for sets of naturals, from the library's `NatLessThanWellFounded` and `WFMin`, so
that `Processed`, `Without`, `Bytes`, `FlattenSeq`, `Later` and `Total` are proved about
for inputs of any size.

Every invariant and every action property that a passing run checks is stated
by a theorem. Left to TLC: liveness (`NoFrameStuck`, `RetentionEnds`,
`EveryFrameWritten`, `Comes`, `Ends`, `ComesUp`), which is out of the prover's
reach.

## 6. Possible extensions

`reset_epoch` against a thread inside the FEC branch of `write_payload`
(`Dispatch` covers the branch without FEC).

## 7. Not modelled

Framing and padding, inner encryption and key derivation: byte-level codecs and
cryptography, fixed by golden vectors in the repository. The adaptive path
choice is modelled with its thresholds and charges; the smoothing of measured
times is not. The TAP device, configuration parsing and start-up, the log, the
trend rings and the dashboard's presentation: I/O or set-up on which no property
here depends; `needs_restart` is only shown. The locked entry points of
`FecDecoder` and `FecRxFenceState::apply` serve the direct receive path of a
session with a single connection (where there is no second stream to reorder
against); the actor's versions, used by every multi-connection session, are
modelled. `static_single` turns FEC off for a client with one connection. The
client's serving loop (keepalive, idle and write timers) mirrors the server's,
which `Outbound` models; its backoff only decides when it dials again.
