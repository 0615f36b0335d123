---------------------------- MODULE ServerSession ----------------------------
(***************************************************************************)
(* The life of a logical session on the server (src/server.rs): physical   *)
(* connections join it in handle_handshake and leave it in on_conn_closed, *)
(* a new client process rotates its key epoch, the reaper of worker_loop   *)
(* destroys it after 120 s without a connection, and the web API kicks it. *)
(*                                                                         *)
(* A connection belongs to one worker thread.  A worker runs one handler   *)
(* at a time, so a connection whose pc is inside a handler keeps the       *)
(* worker busy; the steps of handlers on different workers, and of API     *)
(* threads, interleave.  A step is one critical section (the sessions      *)
(* lock, the epoch_state lock, one atomic operation).                      *)
(*                                                                         *)
(* Abstracted: what a request carries beyond the client, its process       *)
(* instance and whether its resume token is accepted; TLS, framing, keys.  *)
(***************************************************************************)
EXTENDS Integers, FiniteSets

CONSTANTS
    Clients,        \* client ids (each is derived from one MAC)
    Conns,          \* connection slots
    Workers,        \* worker threads
    WorkerOf,       \* [Conns -> Workers], the acceptor's distribution
    Admins,         \* threads serving API control requests
    Instances,      \* client process instances (client_instance)
    Addrs4, Addrs6, \* host addresses of the two pools, gateway excluded
    MaxConns,       \* 16: physical connections of a session
    SessionLimits,  \* the values of core.max_sessions
    CountMod,       \* 2^32: active_conns is an AtomicU32
    MaxHandshakes,  \* bound: connections accepted, hence sessions created
    MaxRare         \* bound: sequence spaces used up, and API requests that remove sessions

None == 0
Obj == 1..MaxHandshakes
NoAddr == 0         \* the empty string alloc_v4 / alloc_v6 return

ASSUME ServerSessionAssumption ==
    /\ WorkerOf \in [Conns -> Workers]
    /\ Workers \cap Admins = {}
    /\ NoAddr \notin Addrs4 /\ Addrs4 \subseteq Nat
    /\ NoAddr \notin Addrs6 /\ Addrs6 \subseteq Nat
    /\ MaxConns \in Nat \ {0} /\ CountMod \in Nat /\ MaxConns < CountMod
    /\ MaxHandshakes \in Nat

VARIABLES
    sessions,   \* core.sessions: client -> session object or None
    obj,        \* the ClientSession objects, by creation number
    created,    \* how many objects exist
    ports,      \* vswitch.ports (and the static MAC entry of the port)
    registry,   \* core.registry
    used4, used6, macToIp,  \* core.pool
    banned,     \* core.banned
    conn,       \* the physical connections
    del,        \* the destroy_session calls in progress, by thread
    maxSessions,                    \* core.max_sessions, fixed at the start
    accepted, exhaustions, orders   \* counters that bound the exploration

vars == <<sessions, obj, created, ports, registry, used4, used6, macToIp,
          banned, conn, del, maxSessions, accepted, exhaustions, orders>>

poolVars == <<used4, used6, macToIp>>
tableVars == <<sessions, ports, registry, banned>>
fixed == <<maxSessions, accepted, exhaustions, orders>>

Deadline(st, v) == [st |-> st, ver |-> v]
NoDeadline == Deadline("none", 0)

\* Two fields are history and no state of the code: `raced', the session was
\* created while an earlier one of its client was torn down, and `stranded',
\* its epoch ended with no connection in the next one and no countdown.
NewSession(k, inst, a4, a6, raced) ==
    [client |-> k, instance |-> inst, epoch |-> 1, active |-> 1,
     version |-> 0, deadline |-> NoDeadline, force |-> FALSE,
     exhausted |-> FALSE, retired |-> FALSE, v4 |-> a4, v6 |-> a6, backends |-> {},
     raced |-> raced, stranded |-> FALSE]

NoSession == [client |-> None, instance |-> None,
     epoch |-> 0, active |-> 0, version |-> 0, deadline |-> NoDeadline,
     force |-> FALSE, exhausted |-> FALSE, retired |-> FALSE,
     v4 |-> NoAddr, v6 |-> NoAddr, backends |-> {}, raced |-> FALSE, stranded |-> FALSE]

NoConn == [pc |-> "closed", client |-> None,
           inst |-> None, s |-> None, epoch |-> 0, ver |-> 0]

NoDel == [pc |-> "idle", todo |-> {}, s |-> None]

-----------------------------------------------------------------------------
\* The pcs at which a connection's worker is inside one of its handlers.
InHandler == {"gated", "joined", "snapped", "leaving", "last", "stamped"}

WorkerIdle(w) ==
    /\ del[w].pc = "idle"
    /\ \A c \in Conns : WorkerOf[c] = w => conn[c].pc \notin InHandler

At(c, pc) == conn[c].pc = pc

Goto(c, pc) == conn' = [conn EXCEPT ![c].pc = pc]

Close(c) == conn' = [conn EXCEPT ![c] = NoConn]

Live == {s \in Obj : s <= created /\ sessions[obj[s].client] = s}

(***************************************************************************)
(* fn alloc_v4 / alloc_v6: the wanted address if it is a free one of the   *)
(* network, else the first free address, else NoAddr.                      *)
(***************************************************************************)
Alloc(addrs, used, want) ==
    IF want \in addrs \ used THEN want
    ELSE IF addrs \ used = {} THEN NoAddr
    ELSE CHOOSE a \in addrs \ used : \A b \in addrs \ used : a <= b

Init ==
    /\ sessions = [k \in Clients |-> None]
    /\ obj = [s \in Obj |-> NoSession]
    /\ created = 0
    /\ ports = [k \in Clients |-> None]
    /\ registry = [k \in Clients |-> None]
    /\ used4 = {} /\ used6 = {}
    /\ macToIp = [k \in Clients |-> <<NoAddr, NoAddr>>]
    /\ banned = {}
    /\ conn = [c \in Conns |-> NoConn]
    /\ del = [d \in Workers \cup Admins |-> NoDel]
    /\ accepted = 0
    /\ exhaustions = 0
    /\ orders = 0
    /\ maxSessions \in SessionLimits

-----------------------------------------------------------------------------
(***************************************************************************)
(* The handshake of a connection.                                          *)
(***************************************************************************)

\* A TCP connection of some process of client k is accepted.
Connect(c, k, inst) ==
    /\ At(c, "closed")
    /\ accepted < MaxHandshakes
    /\ accepted' = accepted + 1
    /\ conn' = [conn EXCEPT ![c] = [NoConn EXCEPT !.pc = "hello", !.client = k, !.inst = inst]]
    /\ UNCHANGED <<maxSessions, obj, created, del, exhaustions, orders, tableVars, poolVars>>

\* handle_handshake up to the session lock: the last gate is the ban list.
HsGate(c) ==
    /\ At(c, "hello")
    /\ WorkerIdle(WorkerOf[c])
    /\ IF conn[c].client \in banned THEN Close(c) ELSE Goto(c, "gated")
    /\ UNCHANGED <<obj, created, del, tableVars, poolVars, fixed>>

\* A request for an existing session that is refused under the lock: another
\* cipher, or a new instance whose resume token is not accepted.
HsRefuse(c) ==
    /\ At(c, "gated")
    /\ sessions[conn[c].client] # None
    /\ Close(c)
    /\ UNCHANGED <<obj, created, del, tableVars, poolVars, fixed>>

(***************************************************************************)
(* rotate_session_epoch on a session record: a fresh epoch for instance    *)
(* inst with no connection in it; port.reset_epoch clears the exhausted    *)
(* sequence space.                                                         *)
(***************************************************************************)
RotateSessionEpoch(o, inst) ==
    [o EXCEPT !.instance = inst, !.epoch = @ + 1, !.active = 0,
              !.exhausted = FALSE, !.retired = FALSE]

\* An epoch with no connection in it: only a countdown that already runs ends it.
Strand(o) == [o EXCEPT !.stranded = (o.deadline = NoDeadline)]

\* Mutant of Occupy: the connection is not counted under the lock.
OccupyUncounted(o) == [o EXCEPT !.deadline = NoDeadline, !.stranded = FALSE]

\* The rest of the existing-session branch: the countdown is cancelled and
\* the connection is counted unless the session is full.
Occupy(o) ==
    LET r == [o EXCEPT !.deadline = NoDeadline, !.stranded = FALSE]
    IN  IF o.active >= MaxConns THEN r ELSE [r EXCEPT !.active = @ + 1]

SameInstance(s, inst) == obj[s].instance = inst /\ ~obj[s].retired

HsJoin(c) ==
    LET s == sessions[conn[c].client]
        o == IF SameInstance(s, conn[c].inst) THEN obj[s] ELSE RotateSessionEpoch(obj[s], conn[c].inst)
    IN  /\ At(c, "gated")
        /\ s # None
        /\ obj' = [obj EXCEPT ![s] = Occupy(o)]
        /\ IF o.active >= MaxConns
           THEN Close(c)
           ELSE conn' = [conn EXCEPT ![c].pc = "joined", ![c].s = s]
        /\ UNCHANGED <<created, del, tableVars, poolVars, fixed>>

\* The epoch was rotated and no next resume token can be made: the connection
\* is refused with the countdown as it was and nothing counted.
HsTokenFails(c) ==
    LET s == sessions[conn[c].client]
    IN  /\ At(c, "gated")
        /\ s # None
        /\ ~SameInstance(s, conn[c].inst)
        /\ obj' = [obj EXCEPT ![s] = Strand(RotateSessionEpoch(obj[s], conn[c].inst))]
        /\ Close(c)
        /\ UNCHANGED <<created, del, tableVars, poolVars, fixed>>

\* No session yet, and one cannot be created: the session limit, or one of
\* the address pools is empty (the IPv4 address is then given back).
HsNoCapacity(c) ==
    /\ At(c, "gated")
    /\ sessions[conn[c].client] = None
    /\ \/ Cardinality(Live) >= maxSessions
       \/ Addrs4 \subseteq used4
       \/ Addrs6 \subseteq used6
    /\ Close(c)
    /\ UNCHANGED <<obj, created, del, tableVars, poolVars, fixed>>

\* No session yet, there are addresses, and no resume token can be made for the
\* session: both addresses are given back.
HsNoToken(c) ==
    /\ At(c, "gated")
    /\ sessions[conn[c].client] = None
    /\ Cardinality(Live) < maxSessions
    /\ Addrs4 \ used4 # {} /\ Addrs6 \ used6 # {}
    /\ Close(c)
    /\ UNCHANGED <<obj, created, del, tableVars, poolVars, fixed>>

\* The destroy_session calls that took a session of client k out of the table
\* and have its port or its registry entry still to remove.
TearingDown(k) ==
    {d \in Workers \cup Admins : del[d].pc \in {"port", "registry"} /\ obj[del[d].s].client = k}

\* No session yet: addresses (the MAC's binding has priority over the
\* requested ones), switch port, registry entry and session in one critical
\* section of the sessions lock.
HsCreate(c) ==
    LET k == conn[c].client
        bound == macToIp[k]
    IN  /\ At(c, "gated")
        /\ sessions[k] = None
        /\ Cardinality(Live) < maxSessions
        /\ \E want4 \in Addrs4 \cup {NoAddr}, want6 \in Addrs6 \cup {NoAddr} :
            LET free == bound = <<NoAddr, NoAddr>>
                a4 == Alloc(Addrs4, used4, IF free THEN want4 ELSE bound[1])
                a6 == Alloc(Addrs6, used6, IF free THEN want6 ELSE bound[2])
                s == created + 1
            IN  /\ a4 # NoAddr /\ a6 # NoAddr
                /\ used4' = used4 \cup {a4}
                /\ used6' = used6 \cup {a6}
                /\ macToIp' = [macToIp EXCEPT ![k] = <<a4, a6>>]
                /\ created' = s
                /\ obj' = [obj EXCEPT ![s] =
                             NewSession(k, conn[c].inst, a4, a6, TearingDown(k) # {})]
                /\ sessions' = [sessions EXCEPT ![k] = s]
                /\ ports' = [ports EXCEPT ![k] = s]
                /\ registry' = [registry EXCEPT ![k] = s]
                /\ conn' = [conn EXCEPT ![c].pc = "joined", ![c].s = s]
        /\ UNCHANGED <<banned, del, fixed>>

\* After the sessions lock is released: the epoch the connection will use is
\* read from the session now.
HsSnapshot(c) ==
    /\ At(c, "joined")
    /\ conn' = [conn EXCEPT ![c].pc = "snapped", ![c].epoch = obj[conn[c].s].epoch]
    /\ UNCHANGED <<obj, created, del, tableVars, poolVars, fixed>>

\* register_backend, the response, and the connection is in service.
HsRegister(c) ==
    /\ At(c, "snapped")
    /\ obj' = [obj EXCEPT ![conn[c].s].backends = @ \cup {c}]
    /\ Goto(c, "up")
    /\ UNCHANGED <<created, del, tableVars, poolVars, fixed>>

-----------------------------------------------------------------------------
(***************************************************************************)
(* The end of a connection.                                                *)
(***************************************************************************)

\* The peer is gone, 15 s idle, a write stalled for 10 s, a protocol error,
\* or the first connection step failed.
Fail(c) ==
    /\ conn[c].pc \in {"hello", "up"}
    /\ WorkerIdle(WorkerOf[c])
    /\ IF At(c, "hello") THEN Close(c) ELSE Goto(c, "doomed")
    /\ UNCHANGED <<obj, created, del, tableVars, poolVars, fixed>>

\* The timer scan finds a rotated epoch or a kick.
ScanCloses(c) ==
    /\ At(c, "up")
    /\ WorkerIdle(WorkerOf[c])
    /\ ~obj[conn[c].s].exhausted
    /\ obj[conn[c].s].epoch # conn[c].epoch \/ obj[conn[c].s].force
    /\ Goto(c, "doomed")
    /\ UNCHANGED <<obj, created, del, tableVars, poolVars, fixed>>

RetireEpoch(o) == [o EXCEPT !.retired = TRUE, !.epoch = @ + 1, !.active = 0]

\* The timer scan finds the sequence space used up.  The first connection to
\* see it retires the epoch: the instance becomes "exhausted-...".
ScanExhausted(c) ==
    LET s == conn[c].s
    IN  /\ At(c, "up")
        /\ WorkerIdle(WorkerOf[c])
        /\ obj[s].exhausted
        /\ obj' = [obj EXCEPT ![s] = IF @.retired THEN @ ELSE Strand(RetireEpoch(@))]
        /\ Goto(c, "doomed")
        /\ UNCHANGED <<created, del, tableVars, poolVars, fixed>>

\* Mutant of CloseEpoch: a connection of an older epoch is subtracted too.
CloseEpochUnchecked(c) ==
    /\ At(c, "doomed")
    /\ WorkerIdle(WorkerOf[c])
    /\ obj' = [obj EXCEPT ![conn[c].s].backends = @ \ {c}]
    /\ Goto(c, "leaving")
    /\ UNCHANGED <<created, del, tableVars, poolVars, fixed>>

\* on_conn_closed: the backend is unregistered and the connection's epoch is
\* compared with the session's; a connection of an older epoch is not counted.
CloseEpoch(c) ==
    LET s == conn[c].s
    IN  /\ At(c, "doomed")
        /\ WorkerIdle(WorkerOf[c])
        /\ obj' = [obj EXCEPT ![s].backends = @ \ {c}]
        /\ IF obj[s].epoch # conn[c].epoch THEN Close(c) ELSE Goto(c, "leaving")
        /\ UNCHANGED <<created, del, tableVars, poolVars, fixed>>

\* active_conns.fetch_sub(1) <= 1, in u32.
CloseCount(c) ==
    LET s == conn[c].s
    IN  /\ At(c, "leaving")
        /\ obj' = [obj EXCEPT ![s].active = IF @ = 0 THEN CountMod - 1 ELSE @ - 1]
        /\ IF obj[s].active <= 1 THEN Goto(c, "last") ELSE Close(c)
        /\ UNCHANGED <<created, del, tableVars, poolVars, fixed>>

\* disconnect_version.fetch_add(1) + 1
CloseVersion(c) ==
    LET s == conn[c].s
    IN  /\ At(c, "last")
        /\ obj' = [obj EXCEPT ![s].version = @ + 1]
        /\ conn' = [conn EXCEPT ![c].pc = "stamped", ![c].ver = obj[s].version + 1]
        /\ UNCHANGED <<created, del, tableVars, poolVars, fixed>>

\* Mutant of CloseDeadline: the deadline keeps the previous version.
CloseDeadlineStale(c) ==
    /\ At(c, "stamped")
    /\ obj' = [obj EXCEPT ![conn[c].s].deadline = Deadline("running", conn[c].ver - 1)]
    /\ Close(c)
    /\ UNCHANGED <<created, del, tableVars, poolVars, fixed>>

\* The 120 s retention period starts.
CloseDeadline(c) ==
    /\ At(c, "stamped")
    /\ obj' = [obj EXCEPT ![conn[c].s].deadline = Deadline("running", conn[c].ver)]
    /\ Close(c)
    /\ UNCHANGED <<created, del, tableVars, poolVars, fixed>>

-----------------------------------------------------------------------------
(***************************************************************************)
(* Destruction.                                                            *)
(***************************************************************************)

\* 120 s have passed since the deadline was set.
Expire(s) ==
    /\ obj[s].deadline.st = "running"
    /\ obj' = [obj EXCEPT ![s].deadline.st = "expired"]
    /\ UNCHANGED <<created, conn, del, tableVars, poolVars, fixed>>

\* The reaper's filter on one session, as it reads it.
Reapable(s) ==
    /\ obj[s].active = 0
    /\ obj[s].deadline.st = "expired"
    /\ obj[s].deadline.ver = obj[s].version

\* The once-a-second scan of worker w collects the expired sessions.
Reap(w) ==
    LET expired == {s \in Live : Reapable(s)}
    IN  /\ WorkerIdle(w)
        /\ expired # {}
        /\ del' = [del EXCEPT ![w] = [NoDel EXCEPT !.pc = "picked", !.todo = expired]]
        /\ UNCHANGED <<obj, created, conn, tableVars, poolVars, fixed>>

\* control("kick" | "ban" | "kickall"): the sessions of ks are looked up.
Kick(a, ks) ==
    LET found == {s \in Live : obj[s].client \in ks}
    IN  /\ del[a].pc = "idle"
        /\ exhaustions + orders < MaxRare /\ orders' = orders + 1
        /\ found # {}
        /\ del' = [del EXCEPT ![a] = [NoDel EXCEPT !.pc = "picked", !.todo = found]]
        /\ UNCHANGED <<maxSessions, sessions, ports, registry, obj, created, conn, accepted,
                       exhaustions, poolVars>>

AdminKick(a, k) == Kick(a, {k}) /\ UNCHANGED banned
AdminKickAll(a) == Kick(a, Clients) /\ UNCHANGED banned

\* control("ban"): the ban comes first, then the session if there is one.
AdminBan(a, k) ==
    /\ k \notin banned
    /\ del[a].pc = "idle"
    /\ exhaustions + orders < MaxRare /\ orders' = orders + 1
    /\ banned' = banned \cup {k}
    /\ del' = IF sessions[k] = None THEN del
              ELSE [del EXCEPT ![a] = [NoDel EXCEPT !.pc = "picked", !.todo = {sessions[k]}]]
    /\ UNCHANGED <<maxSessions, sessions, ports, registry, obj, created, conn, accepted,
                   exhaustions, poolVars>>

\* control("unban"), or the ban's ttl runs out.
AdminUnban(a, k) ==
    /\ k \in banned
    /\ del[a].pc = "idle"
    /\ banned' = banned \ {k}
    /\ UNCHANGED <<sessions, ports, registry, obj, created, conn, del, poolVars, fixed>>

\* Mutant of DestroyRemove: a session that is no longer the table's is left in
\* it, but its port and the rest are removed all the same.
DestroyRemoveNoReturn(d) ==
    \E s \in del[d].todo :
        LET k == obj[s].client
        IN  /\ del[d].pc = "picked"
            /\ obj' = IF d \in Admins THEN [obj EXCEPT ![s].force = TRUE] ELSE obj
            /\ sessions' = IF sessions[k] = s THEN [sessions EXCEPT ![k] = None] ELSE sessions
            /\ del' = [del EXCEPT ![d] = [pc |-> "port", todo |-> @.todo \ {s}, s |-> s]]
            /\ UNCHANGED <<ports, registry, banned, created, conn, poolVars, fixed>>

\* destroy_session, first critical section: an API thread has set
\* force_disconnect; the object leaves the table if it is still in it.
DestroyRemove(d) ==
    \E s \in del[d].todo :
        LET k == obj[s].client
            rest == del[d].todo \ {s}
        IN  /\ del[d].pc = "picked"
            /\ obj' = IF d \in Admins THEN [obj EXCEPT ![s].force = TRUE] ELSE obj
            /\ IF sessions[k] = s
               THEN /\ sessions' = [sessions EXCEPT ![k] = None]
                    /\ del' = [del EXCEPT ![d] = [pc |-> "port", todo |-> rest, s |-> s]]
               ELSE /\ del' = [del EXCEPT ![d] =
                                 IF rest = {} THEN NoDel ELSE [@ EXCEPT !.todo = rest]]
                    /\ UNCHANGED sessions
            /\ UNCHANGED <<ports, registry, banned, created, conn, poolVars, fixed>>

\* vswitch.remove_port(cid), by client id and outside the sessions lock.
DestroyPort(d) ==
    /\ del[d].pc = "port"
    /\ ports' = [ports EXCEPT ![obj[del[d].s].client] = None]
    /\ del' = [del EXCEPT ![d].pc = "registry"]
    /\ UNCHANGED <<sessions, registry, banned, obj, created, conn, poolVars, fixed>>

DestroyRegistry(d) ==
    /\ del[d].pc = "registry"
    /\ registry' = [registry EXCEPT ![obj[del[d].s].client] = None]
    /\ del' = [del EXCEPT ![d].pc = "pool"]
    /\ UNCHANGED <<sessions, ports, banned, obj, created, conn, poolVars, fixed>>

\* Mutant of Unbind: the binding of the MAC goes unconditionally.
UnbindAlways(m, k, o) == [m EXCEPT ![k] = <<NoAddr, NoAddr>>]

\* fn release: the binding goes only if it still names this address.
Unbind(m, k, o) == IF m[k][1] = o.v4 THEN [m EXCEPT ![k] = <<NoAddr, NoAddr>>] ELSE m

DestroyRelease(d) ==
    LET o == obj[del[d].s]
    IN  /\ del[d].pc = "pool"
        /\ used4' = used4 \ {o.v4}
        /\ used6' = used6 \ {o.v6}
        /\ macToIp' = Unbind(macToIp, o.client, o)
        /\ del' = [del EXCEPT ![d] = IF @.todo = {} THEN NoDel
                                     ELSE [@ EXCEPT !.pc = "picked", !.s = None]]
        /\ UNCHANGED <<obj, created, conn, tableVars, fixed>>

\* The session's sender reaches sequence u32::MAX (AsyncPort::next_seq).
SequenceExhausted(s) ==
    /\ s \in Live
    /\ exhaustions + orders < MaxRare
    /\ ~obj[s].exhausted
    /\ obj[s].backends # {}
    /\ obj' = [obj EXCEPT ![s].exhausted = TRUE]
    /\ exhaustions' = exhaustions + 1
    /\ UNCHANGED <<maxSessions, created, conn, del, accepted, orders, tableVars, poolVars>>

-----------------------------------------------------------------------------
Handshake(c) ==
    \/ HsGate(c) \/ HsRefuse(c) \/ HsJoin(c) \/ HsTokenFails(c) \/ HsNoCapacity(c)
    \/ HsNoToken(c) \/ HsCreate(c) \/ HsSnapshot(c) \/ HsRegister(c)

Leave(c) ==
    \/ CloseEpoch(c) \/ CloseCount(c) \/ CloseVersion(c) \/ CloseDeadline(c)

Destroy(d) ==
    DestroyRemove(d) \/ DestroyPort(d) \/ DestroyRegistry(d) \/ DestroyRelease(d)

Next ==
    \/ \E c \in Conns, k \in Clients, i \in Instances : Connect(c, k, i)
    \/ \E c \in Conns : Handshake(c) \/ Fail(c) \/ ScanCloses(c) \/ ScanExhausted(c) \/ Leave(c)
    \/ \E s \in Obj : Expire(s) \/ SequenceExhausted(s)
    \/ \E w \in Workers : Reap(w)
    \/ \E a \in Admins, k \in Clients : AdminKick(a, k) \/ AdminBan(a, k) \/ AdminUnban(a, k)
    \/ \E a \in Admins : AdminKickAll(a)
    \/ \E d \in Workers \cup Admins : Destroy(d)

(***************************************************************************)
(* A worker finishes the handler it is in and keeps scanning; a connection *)
(* in service may last for ever, so Fail and Connect are not fair.         *)
(***************************************************************************)
Fairness ==
    /\ \A c \in Conns : WF_vars(Handshake(c)) /\ WF_vars(Leave(c))
                        /\ WF_vars(ScanCloses(c)) /\ WF_vars(ScanExhausted(c))
    /\ \A s \in Obj : WF_vars(Expire(s))
    /\ \A w \in Workers : WF_vars(Reap(w))
    /\ \A d \in Workers \cup Admins : WF_vars(Destroy(d))

Spec == Init /\ [][Next]_vars /\ Fairness

-----------------------------------------------------------------------------
(***************************************************************************)
(* Properties.                                                             *)
(***************************************************************************)
\* Sessions that left the table but whose addresses are not released yet.
Dying == {del[d].s : d \in {e \in Workers \cup Admins : del[e].pc \in {"port", "registry", "pool"}}}

(***************************************************************************)
(* The pool's used sets are exactly the addresses of the sessions that are *)
(* in the table or still being torn down, each held by one of them: no     *)
(* address is given to two sessions while one is destroyed by another      *)
(* thread, and none leaks on any refused, rotated or destroyed path.  The  *)
(* MAC binding of a client that has a session names that session's         *)
(* addresses, although an earlier session of the client may be released    *)
(* after the new one was created (the match in fn release).                *)
(***************************************************************************)
AddressAccounting ==
    LET holders == Live \cup Dying
    IN  /\ used4 = {obj[s].v4 : s \in holders}
        /\ used6 = {obj[s].v6 : s \in holders}
        /\ Cardinality(used4) = Cardinality(holders)
        /\ Cardinality(used6) = Cardinality(holders)
        /\ \A s \in Live : macToIp[obj[s].client] = <<obj[s].v4, obj[s].v6>>

(***************************************************************************)
(* active_conns is exact: it is the number of connections that joined the  *)
(* session's current epoch and were not subtracted yet, over rotations and *)
(* used-up sequence spaces that store 0 into it.  It never exceeds the 16  *)
(* connections of a session and never goes below zero: the u32 would wrap, *)
(* refuse every further connection and never look like 0 to the reaper.    *)
(***************************************************************************)
Counted(s) ==
    {c \in Conns :
        /\ conn[c].s = s
        /\ \/ conn[c].pc = "joined"
           \/ /\ conn[c].pc \in {"snapped", "up", "doomed", "leaving"}
              /\ conn[c].epoch = obj[s].epoch}

CountExact ==
    \A s \in 1..created : obj[s].active = Cardinality(Counted(s)) /\ obj[s].active <= MaxConns

(***************************************************************************)
(* "120s grace with seamless resume": a connection in service that nobody  *)
(* kicked, and whose epoch is the session's, belongs to a session that is  *)
(* still in the table.  Otherwise no scan ever closes it and it keeps      *)
(* exchanging keepalives for a session that has neither addresses nor a    *)
(* switch port.  (Before an API request removes a session: a kick can meet *)
(* a handshake as the reaper can.)                                         *)
(***************************************************************************)
ServedByLiveSession ==
    orders = 0 => \A c \in Conns :
        /\ At(c, "up")
        /\ ~obj[conn[c].s].force
        /\ conn[c].epoch = obj[conn[c].s].epoch
        => conn[c].s \in Live

(***************************************************************************)
(* A session in the table is reachable from the switch and listed in the   *)
(* registry: both name its own objects, whatever other workers and API     *)
(* threads destroy at the same time.  destroy_session removes port and     *)
(* registry entry by client id after it released the sessions lock, so a   *)
(* thread that found the session gone must not go on to them.  Taken out   *)
(* is the session that a handshake creates between those two steps of the  *)
(* thread that removed its predecessor: it does lose its port              *)
(* (EverySessionReachable).                                                *)
(***************************************************************************)
LiveSessionReachable ==
    \A k \in Clients :
        sessions[k] # None /\ ~obj[sessions[k]].raced =>
            ports[k] = sessions[k] /\ registry[k] = sessions[k]

\* destroy_session removes the port and the registry entry of its session, as its
\* comment says, and leaves those of another one alone: a session made anew for
\* the client meanwhile too.
EverySessionReachable ==
    \A k \in Clients :
        sessions[k] # None => ports[k] = sessions[k] /\ registry[k] = sessions[k]

(***************************************************************************)
(* A session that all its connections left does not stay for ever: after   *)
(* the retention period it is destroyed, unless a connection joins it      *)
(* again.                                                                  *)
(***************************************************************************)
Abandoned(s) == s \in Live /\ \A c \in Conns : conn[c].s # s

AbandonedIsFreed == \A s \in Obj : Abandoned(s) ~> ~Abandoned(s)

\* The same for a session that no epoch without a connection left stranded (a
\* used-up sequence space, a rotation whose handshake then failed): the last
\* connection always starts the countdown that on_conn_closed announces.
RetentionEnds ==
    \A s \in Obj : (Abandoned(s) /\ ~obj[s].stranded) ~> ~Abandoned(s)
=============================================================================
