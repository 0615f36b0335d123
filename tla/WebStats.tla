------------------------------ MODULE WebStats ------------------------------
(***************************************************************************)
(* What the dashboard remembers (src/web_parity.rs): the traffic history,  *)
(* which a sampler thread derives once a second from the byte counters of  *)
(* the sessions there are at that moment (TrafficState), and the events,   *)
(* a ring of the latest ones with bounded queues to the browsers that      *)
(* listen (EventHub).                                                      *)
(*                                                                         *)
(* The counters die with a session and with the process; the history is    *)
(* written to two files now and then and read back at the next start.      *)
(* One direction of the traffic stands for both.                           *)
(***************************************************************************)
EXTENDS Integers, Sequences, SequencesExt, Functions, FiniteSetsExt

CONSTANTS
    Clients,    \* clients of the server
    Browsers,   \* event streams
    EventCap,   \* EVENT_CAP
    StreamCap,  \* bound of a subscriber's channel (256)
    MaxDay,     \* bound: days that pass
    KeptDays,   \* traffic_days at the first start
    Paths,      \* places for the traffic files
    FirstPath   \* traffic_file at the first start

ASSUME WebStatsAssumption ==
    /\ EventCap \in Nat \ {0} /\ StreamCap \in Nat \ {0} /\ MaxDay \in Nat /\ KeptDays \in Nat \ {0}
    /\ IsFiniteSet(Clients) /\ FirstPath \in Paths

VARIABLES
    online,   \* sessions and their byte counters
    today,    \* the date
    sampler,  \* the sampler thread and the counters it read
    traffic,  \* TrafficState: days kept, file, aggregate and per-client buckets, latest counters
    files,    \* the two traffic files at each place
    known,    \* last_clients
    hub,      \* EventHub: seq and ring
    stream,   \* a browser's EventStream: backlog, channel
    moved     \* ghost: the bytes each client ever moved

hubVars == <<hub, stream>>
trafficVars == <<sampler, traffic, files, known>>
statsVars == <<online, today, trafficVars, hubVars, moved>>

None == [d \in {} |-> 0]
NoStream == [on |-> FALSE, seen |-> 0, ahead |-> FALSE, backlog |-> <<>>, chan |-> <<>>, full |-> FALSE]

\* A function of the buckets with some added to one of them.
Plus(f, x, n) == [y \in DOMAIN f \cup {x} |-> (IF y \in DOMAIN f THEN f[y] ELSE 0) + IF y = x THEN n ELSE 0]

StatsInit ==
    /\ online = None /\ today = 1
    /\ sampler = [pc |-> "off", read |-> None]
    /\ traffic = [days |-> KeptDays, file |-> FirstPath, all |-> None, each |-> None,
                  last |-> 0, lastEach |-> None]
    /\ files = [p \in Paths |-> [all |-> None, each |-> None]]
    /\ known = {}
    /\ hub = [seq |-> 0, ring |-> <<>>]
    /\ stream = [b \in Browsers |-> NoStream]
    /\ moved = [c \in Clients |-> 0]

-----------------------------------------------------------------------------
(* EventHub *)

\* try_send to every subscriber; a full channel drops the event.
Sent(s, e) ==
    IF ~s.on THEN s
    ELSE IF Len(s.chan) < StreamCap THEN [s EXCEPT !.chan = Append(@, e)]
    ELSE [s EXCEPT !.full = TRUE]

Ring(r, e) == LET longer == Append(r, e) IN
    IF Len(longer) > EventCap THEN Tail(longer) ELSE longer

Emit ==
    LET e == hub.seq + 1
    IN  /\ hub' = [seq |-> e, ring |-> Ring(hub.ring, e)]
        /\ stream' = [b \in Browsers |-> Sent(stream[b], e)]

\* The events of a ring after a given one, in their order.
Later(r, after) ==
    LET kept[i \in 0..Len(r)] ==
          IF i = 0 THEN <<>> ELSE IF r[i] > after THEN Append(kept[i - 1], r[i]) ELSE kept[i - 1]
    IN  kept[Len(r)]

\* Mutant of Backlog: the event the browser has seen is sent again.
BacklogInclusive(after) == Later(hub.ring, after - 1)

Backlog(after) == Later(hub.ring, after)

\* EventHub::stream: the backlog is taken and the channel registered under one
\* lock. What the ring has lost already cannot be sent. A browser that names an
\* event of an earlier process, ahead of this one's, is sent nothing of the ring.
Subscribe(b, after) ==
    /\ ~stream[b].on
    /\ stream' = [stream EXCEPT ![b] =
           [NoStream EXCEPT !.on = TRUE, !.backlog = Backlog(after),
                            !.ahead = after > hub.seq,
                            !.seen = IF hub.ring = <<>> \/ after > hub.seq THEN hub.seq
                                     ELSE Max({after, hub.ring[1] - 1})]]
    /\ UNCHANGED <<online, today, trafficVars, hub, moved>>

\* EventStream::refill: the backlog first.
Refill(b) ==
    LET s == stream[b]
    IN  /\ s.on /\ s.backlog \o s.chan # <<>>
        /\ stream' = [stream EXCEPT ![b] =
               IF s.backlog # <<>>
               THEN [s EXCEPT !.seen = Head(s.backlog), !.backlog = Tail(@)]
               ELSE [s EXCEPT !.seen = Head(s.chan), !.chan = Tail(@)]]
        /\ UNCHANGED <<online, today, trafficVars, hub, moved>>

Leave(b) ==
    /\ stream[b].on
    /\ stream' = [stream EXCEPT ![b] = NoStream]
    /\ UNCHANGED <<online, today, trafficVars, hub, moved>>

-----------------------------------------------------------------------------
(* Sessions *)

Connect(c) ==
    /\ c \notin DOMAIN online
    /\ online' = Plus(online, c, 0)
    /\ UNCHANGED <<today, trafficVars, hubVars, moved>>

Disconnect(c) ==
    /\ c \in DOMAIN online
    /\ online' = Restrict(online, DOMAIN online \ {c})
    /\ UNCHANGED <<today, trafficVars, hubVars, moved>>

Move(c) ==
    /\ c \in DOMAIN online
    /\ online' = [online EXCEPT ![c] = @ + 1]
    /\ moved' = [moved EXCEPT ![c] = @ + 1]
    /\ UNCHANGED <<today, trafficVars, hubVars>>

Midnight ==
    /\ today < MaxDay
    /\ today' = today + 1
    /\ UNCHANGED <<online, trafficVars, hubVars, moved>>

-----------------------------------------------------------------------------
(* The sampler *)

Total(f) == FoldFunction(+, 0, f)

\* Mutant of Delta: a counter that went back is taken for a new one.
DeltaRestarting(now, before) == IF now < before THEN now ELSE now - before

\* saturating_sub
Delta(now, before) == IF now < before THEN 0 ELSE now - before

\* trim: the oldest day goes first, and its clients with it.
Oldest(S, n) == {d \in S : Cardinality({e \in S : e > d}) >= n}

Trim(t) ==
    LET old  == Oldest(DOMAIN t.all, t.days)
        each == Restrict(t.each, DOMAIN t.each \ old)
    IN  [t EXCEPT !.all = Restrict(t.all, DOMAIN t.all \ old),
                  !.each = Restrict(each, DOMAIN each \ Oldest(DOMAIN each, t.days))]

\* start_dashboard_sampler
StartSampler ==
    /\ sampler.pc = "off"
    /\ sampler' = [sampler EXCEPT !.pc = "sleep"]
    /\ UNCHANGED <<online, today, traffic, files, known, hubVars, moved>>

\* stats_json: the counters of the sessions there are.
ReadStats ==
    /\ sampler.pc = "sleep"
    /\ sampler' = [pc |-> "observe", read |-> online]
    /\ UNCHANGED <<online, today, traffic, files, known, hubVars, moved>>

\* TrafficState::observe
Observe ==
    LET now  == sampler.read
        was(c) == IF c \in DOMAIN traffic.lastEach THEN traffic.lastEach[c] ELSE 0
        day  == IF today \in DOMAIN traffic.each THEN traffic.each[today] ELSE None
        each == [c \in DOMAIN day \cup DOMAIN now |->
                    (IF c \in DOMAIN day THEN day[c] ELSE 0)
                    + IF c \in DOMAIN now THEN Delta(now[c], was(c)) ELSE 0]
    IN  /\ sampler.pc = "observe"
        /\ traffic' = Trim([traffic EXCEPT
               !.all = Plus(@, today, Delta(Total(now), traffic.last)),
               !.each = IF now = None THEN @
                        ELSE [d \in DOMAIN @ \cup {today} |-> IF d = today THEN each ELSE @[d]],
               !.last = Total(now),
               !.lastEach = [c \in DOMAIN @ \cup DOMAIN now |->
                                IF c \in DOMAIN now THEN now[c] ELSE @[c]]])
        /\ \E due \in BOOLEAN : sampler' = [sampler EXCEPT !.pc = IF due THEN "persist" ELSE "events"]
        /\ UNCHANGED <<online, today, files, known, hubVars, moved>>

\* persist, at most once a minute: one file after the other; a file that cannot
\* be written stays as it was.
PersistAll(ok) ==
    /\ sampler.pc = "persist"
    /\ files' = IF ok THEN [files EXCEPT ![traffic.file].all = traffic.all] ELSE files
    /\ sampler' = [sampler EXCEPT !.pc = "persist_each"]
    /\ UNCHANGED <<online, today, traffic, known, hubVars, moved>>

PersistEach(ok) ==
    /\ sampler.pc = "persist_each"
    /\ files' = IF ok THEN [files EXCEPT ![traffic.file].each = traffic.each] ELSE files
    /\ sampler' = [sampler EXCEPT !.pc = "events"]
    /\ UNCHANGED <<online, today, traffic, known, hubVars, moved>>

\* observe_client_events: one event for every client that came or went.
ClientEvent(c) ==
    /\ sampler.pc = "events"
    /\ c \in SymDiff(known, DOMAIN sampler.read)
    /\ known' = SymDiff(known, {c})
    /\ Emit
    /\ UNCHANGED <<online, today, sampler, traffic, files, moved>>

Sleep ==
    /\ sampler.pc = "events" /\ known = DOMAIN sampler.read
    /\ sampler' = [pc |-> "sleep", read |-> None]
    /\ UNCHANGED <<online, today, traffic, files, known, hubVars, moved>>

\* apply_traffic_config of save_apply: the history goes on and is written to the
\* new place from now on; what is there is not read. It waits for the traffic
\* lock, which the sampler holds while it writes the files.
ApplyTraffic(days, path) ==
    /\ sampler.pc \notin {"persist", "persist_each"}
    /\ traffic' = Trim([traffic EXCEPT !.days = days, !.file = path])

\* The process is started again: TrafficState::new reads the files.
StatsRestart(days, path) ==
    /\ online' = None
    /\ sampler' = [pc |-> "off", read |-> None]
    /\ traffic' = Trim([days |-> days, file |-> path, all |-> files[path].all, each |-> files[path].each,
                        last |-> 0, lastEach |-> None])
    /\ known' = {}
    /\ hub' = [seq |-> 0, ring |-> <<>>]
    /\ stream' = [b \in Browsers |-> NoStream]
    /\ UNCHANGED <<today, files, moved>>

-----------------------------------------------------------------------------
(* Properties *)

\* What the days have of one client.
ClientDays(each, c) == [d \in DOMAIN each |-> IF c \in DOMAIN each[d] THEN each[d][c] ELSE 0]

\* The history never shows more than was moved, in total or for a client, over
\* reconnections, restarts at any point of a flush, changes of the day and of the
\* files (TrafficState::observe, persist, apply_config and new).
NeverOvercounts ==
    /\ Total(traffic.all) <= Total(moved)
    /\ \A c \in Clients : Total(ClientDays(traffic.each, c)) <= moved[c]

\* An event stream hands out each event once, in order, and without a gap from
\* where the browser left off, or from the oldest event of the ring, unless its
\* channel overflowed. Nothing is said of what a browser misses that names an
\* event ahead of the process, which was started again since: the events of the
\* ring have lower numbers and it never gets them (EventHub::stream, emit,
\* EventStream::refill).
StreamGapless ==
    \A b \in Browsers :
        LET s == stream[b]
            pending == s.backlog \o s.chan
        IN  s.on =>
              /\ \A i \in 1..Len(pending) : pending[i] > IF i = 1 THEN s.seen ELSE pending[i - 1]
              /\ ~s.full /\ ~s.ahead => Len(pending) = hub.seq - s.seen
=============================================================================
