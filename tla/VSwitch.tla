------------------------------- MODULE VSwitch -------------------------------
(***************************************************************************)
(* The virtual switch of the server (VSwitch in src/net.rs): the ports of  *)
(* the sessions and of the local TAP device, the MAC table that maps a     *)
(* station to a port, and the flood budget of every session port.          *)
(*                                                                         *)
(* A handshake gives a session its port and pins the session's MAC to it;  *)
(* destroy_session takes port, budget and MAC entries away again, after it *)
(* has released the sessions lock.  Meanwhile other threads carry frames:  *)
(* a frame of a session must bear the session's own MAC; only a frame that *)
(* enters through the TAP teaches the table.  A step is one access to one  *)
(* shared map under its lock.                                              *)
(*                                                                         *)
(* A handshake without a unicast MAC is refused (is_valid_session_mac in   *)
(* handle_handshake), so no session takes the branch for ports without a   *)
(* registered MAC: the TAP is the only source of learning.                 *)
(***************************************************************************)
EXTENDS Integers, FiniteSets, Sequences

CONSTANTS
    Clients,     \* client ids; the id is derived from the MAC
    Tap,         \* TAP_PORT_ID, the trusted port
    Macs,        \* unicast addresses
    MacOf,       \* [Clients -> Macs], injective
    Bcast,       \* a destination with the group bit
    Workers,     \* worker threads: handshakes, frames and the reaper
    Admins,      \* API threads: they only destroy sessions
    Reader,      \* the thread that reads the TAP device
    Burst,       \* flood_burst
    MaxObj,      \* bound: sessions created
    MaxTicks,    \* bound: refills of the flood budgets
    MaxRun       \* bound: frames a session hands over at once

ASSUME VSwitchAssumption ==
    /\ Tap \notin Clients
    /\ Bcast \notin Macs
    /\ Reader \notin Workers \cup Admins /\ Workers \cap Admins = {}
    /\ -1 \notin Workers \cup Admins        \* the lock that nobody holds
    /\ MacOf \in [Clients -> Macs]
    /\ \A c, d \in Clients : MacOf[c] = MacOf[d] => c = d
    /\ Burst \in Nat \ {0} /\ MaxObj \in Nat /\ MaxTicks \in Nat /\ MaxRun \in Nat

VARIABLES
    sessions,    \* core.sessions: the session object of a client, or None
    lock,        \* the thread that holds the sessions lock for writing
    ports,       \* VSwitch.ports: the port object behind an id, or None
    mac,         \* VSwitch.mac_table
    budget,      \* VSwitch.flood_mu, with the time passed since b.last
    created,     \* how many sessions exist or existed
    owner,       \* the client a session object belongs to
    thr,         \* the threads
    batching,    \* TLSVPN_SWITCH_BATCH
    ticks,       \* time, in refilled tokens
    detached,    \* objects whose remove_port has returned
    late,        \* objects written to after that
    raced,       \* objects created while a removal for their id was running
    admitted     \* floods admitted since a budget was opened, and since when

vars == <<sessions, lock, ports, mac, budget, created, owner, thr, batching,
          ticks, detached, late, raced, admitted>>

None == -1
TapObj == 0
Objs == 1..MaxObj
Ids == Clients \cup {Tap}
Threads == Workers \cup Admins
Everyone == Threads \cup {Reader}
Dests == Macs \cup {Bcast}

\* A MacEntry: how it came about, the port id and the cached port object.
Entry(kind, id, o) == [kind |-> kind, id |-> id, obj |-> o]
NoEntry == Entry("none", Tap, None)

\* A FloodBudget: tokens, and the refill that is due at the next call.
NoBudget == [open |-> FALSE, tokens |-> 0, owed |-> 0]

\* A thread: what it does, for which port id and object, the source to learn,
\* the destinations still to serve and the ports a flood has still to visit.
Idle == [pc |-> "idle", id |-> Tap, obj |-> None, src |-> Bcast,
         todo |-> <<>>, left |-> {}]

At(t, pc) == thr[t].pc = pc
Goto(t, pc) == thr' = [thr EXCEPT ![t].pc = pc]
Done(t) == thr' = [thr EXCEPT ![t] = Idle]

\* The first n frames at hand are served; the thread turns to the rest of its batch.
After(th, n) ==
    IF Len(th.todo) <= n THEN Idle
    ELSE [th EXCEPT !.pc = "forward", !.left = {},
                    !.todo = SubSeq(th.todo, n + 1, Len(th.todo))]

NextFrame(t) == thr' = [thr EXCEPT ![t] = After(thr[t], 1)]

\* Threads inside destroy_session of client c, after the sessions lock.
Removing(c) == {t \in Threads : /\ thr[t].pc \in {"unport", "unbudget", "unmac"}
                                /\ thr[t].id = c}

Write(o) == late' = IF o \in detached THEN late \cup {o} ELSE late

Init ==
    /\ sessions = [c \in Clients |-> None]
    /\ lock = None
    /\ ports = [p \in Ids |-> IF p = Tap THEN TapObj ELSE None]
    /\ mac = [m \in Macs |-> NoEntry]
    /\ budget = [c \in Clients |-> NoBudget]
    /\ created = 0
    /\ owner = [o \in Objs |-> Tap]
    /\ thr = [t \in Everyone |-> Idle]
    /\ batching \in BOOLEAN
    /\ ticks = 0
    /\ detached = {} /\ late = {} /\ raced = {}
    /\ admitted = [c \in Clients |-> [n |-> 0, from |-> 0]]

-----------------------------------------------------------------------------
(***************************************************************************)
(* handle_handshake, first connection of a client, with the sessions lock  *)
(* held: add_port, then add_static_mac, which resolves the port before it  *)
(* touches the MAC table, then the session becomes visible.                *)
(***************************************************************************)
AddPort(t, c) ==
    /\ At(t, "idle") /\ lock = None
    /\ sessions[c] = None /\ created < MaxObj
    /\ lock' = t
    /\ created' = created + 1
    /\ owner' = [owner EXCEPT ![created'] = c]
    /\ ports' = [ports EXCEPT ![c] = created']
    /\ raced' = IF Removing(c) = {} THEN raced ELSE raced \cup {created'}
    /\ thr' = [thr EXCEPT ![t] = [Idle EXCEPT !.pc = "resolve", !.id = c]]
    /\ UNCHANGED <<sessions, mac, budget, batching, ticks, detached, late, admitted>>

ResolvePort(t) ==
    /\ At(t, "resolve")
    /\ thr' = [thr EXCEPT ![t].pc = "pin", ![t].obj = ports[thr[t].id]]
    /\ UNCHANGED <<sessions, lock, ports, mac, budget, created, owner, batching,
                   ticks, detached, late, raced, admitted>>

AddStaticMac(t) ==
    /\ At(t, "pin")
    /\ LET c == thr[t].id
       IN  /\ mac' = [mac EXCEPT ![MacOf[c]] = Entry("static", c, thr[t].obj)]
           /\ sessions' = [sessions EXCEPT ![c] = created]
    /\ lock' = None
    /\ Done(t)
    /\ UNCHANGED <<ports, budget, created, owner, batching, ticks, detached, late,
                   raced, admitted>>

(***************************************************************************)
(* destroy_session: out of the session table, then remove_port in three    *)
(* steps without the sessions lock.                                        *)
(***************************************************************************)
DestroySession(t, c) ==
    /\ At(t, "idle") /\ lock = None
    /\ sessions[c] # None
    /\ thr' = [thr EXCEPT ![t] = [Idle EXCEPT !.pc = "unport", !.id = c,
                                              !.obj = sessions[c]]]
    /\ sessions' = [sessions EXCEPT ![c] = None]
    /\ UNCHANGED <<lock, ports, mac, budget, created, owner, batching, ticks,
                   detached, late, raced, admitted>>

RemovePort(t) ==
    /\ At(t, "unport")
    /\ ports' = [ports EXCEPT ![thr[t].id] = None]
    /\ Goto(t, "unbudget")
    /\ UNCHANGED <<sessions, lock, mac, budget, created, owner, batching, ticks,
                   detached, late, raced, admitted>>

RemoveBudget(t) ==
    /\ At(t, "unbudget")
    /\ budget' = [budget EXCEPT ![thr[t].id] = NoBudget]
    /\ admitted' = [admitted EXCEPT ![thr[t].id] = [n |-> 0, from |-> ticks]]
    /\ Goto(t, "unmac")
    /\ UNCHANGED <<sessions, lock, ports, mac, created, owner, batching, ticks,
                   detached, late, raced>>

\* Mutant of RemoveMacs: only learned entries are dropped, as the collector does.
RemoveLearnedMacs(t) ==
    /\ At(t, "unmac")
    /\ mac' = [m \in Macs |-> IF mac[m].id = thr[t].id /\ mac[m].kind = "dynamic"
                              THEN NoEntry ELSE mac[m]]
    /\ detached' = detached \cup {thr[t].obj}
    /\ Done(t)
    /\ UNCHANGED <<sessions, lock, ports, budget, created, owner, batching, ticks,
                   late, raced, admitted>>

RemoveMacs(t) ==
    /\ At(t, "unmac")
    /\ mac' = [m \in Macs |-> IF mac[m].id = thr[t].id THEN NoEntry ELSE mac[m]]
    /\ detached' = detached \cup {thr[t].obj}
    /\ Done(t)
    /\ UNCHANGED <<sessions, lock, ports, budget, created, owner, batching, ticks,
                   late, raced, admitted>>

-----------------------------------------------------------------------------
(***************************************************************************)
(* Frames.  Connections of session o hand over frames as long as they are  *)
(* open, also after the session was destroyed.                             *)
(***************************************************************************)
SessionFrames(t, o) ==
    /\ At(t, "idle")
    /\ o <= created /\ (lock = None \/ o < created)
    /\ \E s \in Macs, n \in 1..MaxRun : \E todo \in [1..n -> Dests] :
         \* a frame that bears another MAC than the registered one is dropped
         thr' = IF s # MacOf[owner[o]] THEN thr
                ELSE [thr EXCEPT ![t] = [Idle EXCEPT !.pc = "forward", !.id = owner[o],
                                                     !.todo = todo]]
    /\ UNCHANGED <<sessions, lock, ports, mac, budget, created, owner, batching,
                   ticks, detached, late, raced, admitted>>

\* A frame from the TAP: the first look at its source.  An entry of the TAP's
\* own is refreshed when it is older than 5 s.
TapFrame(s, d, aged) ==
    /\ At(Reader, "idle")
    /\ LET e == mac[s]
           need == \/ e.kind = "none"
                   \/ e.kind = "dynamic" /\ (e.id # Tap \/ aged)
       IN  thr' = [thr EXCEPT ![Reader] =
                     [Idle EXCEPT !.pc = IF need THEN "validate" ELSE "forward",
                                  !.src = IF need THEN s ELSE Bcast, !.todo = <<d>>]]
    /\ UNCHANGED <<sessions, lock, ports, mac, budget, created, owner, batching,
                   ticks, detached, late, raced, admitted>>

\* validate_mac waits for the sessions lock; the TAP has no session, so it may
\* speak for any address.  Then the port is resolved.
ValidateMac ==
    /\ At(Reader, "validate") /\ lock = None
    /\ thr' = [thr EXCEPT ![Reader].pc = "learn", ![Reader].obj = ports[Tap]]
    /\ UNCHANGED <<sessions, lock, ports, mac, budget, created, owner, batching,
                   ticks, detached, late, raced, admitted>>

\* Mutant of Learn: the entry is written without looking again.
LearnBlindly ==
    /\ At(Reader, "learn")
    /\ mac' = [mac EXCEPT ![thr[Reader].src] = Entry("dynamic", Tap, thr[Reader].obj)]
    /\ thr' = [thr EXCEPT ![Reader].pc = "forward", ![Reader].src = Bcast]
    /\ UNCHANGED <<sessions, lock, ports, budget, created, owner, batching, ticks,
                   detached, late, raced, admitted>>

\* The source may have been pinned since the first look: a pinned entry of
\* another port stays, and the trusted TAP's frame passes all the same.
Learn ==
    /\ At(Reader, "learn")
    /\ mac' = [mac EXCEPT ![thr[Reader].src] =
                 IF @.kind = "static" THEN @ ELSE Entry("dynamic", Tap, thr[Reader].obj)]
    /\ thr' = [thr EXCEPT ![Reader].pc = "forward", ![Reader].src = Bcast]
    /\ UNCHANGED <<sessions, lock, ports, budget, created, owner, batching, ticks,
                   detached, late, raced, admitted>>

\* The collector drops an entry that was not refreshed for 1800 s.
Expire(m) ==
    /\ mac[m].kind = "dynamic"
    /\ mac' = [mac EXCEPT ![m] = NoEntry]
    /\ UNCHANGED <<sessions, lock, ports, budget, created, owner, thr, batching,
                   ticks, detached, late, raced, admitted>>

(***************************************************************************)
(* The frame at the head of todo.  A known destination is written to under *)
(* the table's guard, so the entry cannot go while the frame is queued.    *)
(***************************************************************************)
Hit(t) == LET d == Head(thr[t].todo) IN d \in Macs /\ mac[d].kind # "none"

\* process_session_batch takes a run of frames to one destination at once: the
\* set of its length.
RunLength(t) ==
    LET q == thr[t].todo
        Same(n) == \A i \in 1..n : q[i] = Head(q)
    IN  IF batching /\ t # Reader
        THEN {n \in 1..Len(q) : Same(n) /\ (n = Len(q) \/ ~Same(n + 1))}
        ELSE {1}

Unicast(t) ==
    /\ At(t, "forward") /\ Hit(t)
    /\ LET e == mac[Head(thr[t].todo)]
       IN  /\ e.id # thr[t].id /\ e.obj # None
           /\ Write(e.obj)
    /\ \E n \in RunLength(t) : thr' = [thr EXCEPT ![t] = After(thr[t], n)]
    /\ UNCHANGED <<sessions, lock, ports, mac, budget, created, owner, batching,
                   ticks, detached, raced, admitted>>

\* The station sits behind the port the frame came from.
Hairpin(t) ==
    /\ At(t, "forward") /\ Hit(t)
    /\ mac[Head(thr[t].todo)].id = thr[t].id
    /\ NextFrame(t)
    /\ UNCHANGED <<sessions, lock, ports, mac, budget, created, owner, batching,
                   ticks, detached, late, raced, admitted>>

\* An entry without a cached port: the id is looked up after the guard.
Uncached(t) ==
    /\ At(t, "forward") /\ Hit(t)
    /\ LET e == mac[Head(thr[t].todo)]
       IN  /\ e.id # thr[t].id /\ e.obj = None
           /\ thr' = [thr EXCEPT ![t].pc = "fallback", ![t].left = {e.id}]
    /\ UNCHANGED <<sessions, lock, ports, mac, budget, created, owner, batching,
                   ticks, detached, late, raced, admitted>>

Fallback(t) ==
    /\ At(t, "fallback")
    /\ \E p \in thr[t].left : IF ports[p] # None THEN Write(ports[p]) ELSE late' = late
    /\ NextFrame(t)
    /\ UNCHANGED <<sessions, lock, ports, mac, budget, created, owner, batching,
                   ticks, detached, raced, admitted>>

-----------------------------------------------------------------------------
\* allow_flood: the call that opens a budget spends its first token.
Refilled(b) == IF b.tokens + b.owed < Burst THEN b.tokens + b.owed ELSE Burst

\* Mutant of AllowFlood: a new budget starts full although a frame has passed.
AllowFloodGenerous(c, ok) ==
    IF ~budget[c].open
    THEN /\ ok
         /\ budget' = [budget EXCEPT ![c] = [open |-> TRUE, tokens |-> Burst, owed |-> 0]]
         /\ admitted' = [admitted EXCEPT ![c] = [n |-> 1, from |-> ticks]]
    ELSE LET n == Refilled(budget[c])
         IN  /\ ok = (n >= 1)
             /\ budget' = [budget EXCEPT ![c] = [open |-> TRUE, owed |-> 0,
                                                tokens |-> IF ok THEN n - 1 ELSE n]]
             /\ admitted' = [admitted EXCEPT ![c].n = IF ok THEN @ + 1 ELSE @]

AllowFlood(c, ok) ==
    IF ~budget[c].open
    THEN /\ ok
         /\ budget' = [budget EXCEPT ![c] = [open |-> TRUE, tokens |-> Burst - 1, owed |-> 0]]
         /\ admitted' = [admitted EXCEPT ![c] = [n |-> 1, from |-> ticks]]
    ELSE LET n == Refilled(budget[c])
         IN  /\ ok = (n >= 1)
             /\ budget' = [budget EXCEPT ![c] = [open |-> TRUE, owed |-> 0,
                                                tokens |-> IF ok THEN n - 1 ELSE n]]
             /\ admitted' = [admitted EXCEPT ![c].n = IF ok THEN @ + 1 ELSE @]

\* flood: the TAP is exempt, a session pays or loses the frame.
FloodStart(t) ==
    /\ At(t, "forward") /\ ~Hit(t)
    /\ \/ /\ thr[t].id = Tap
          /\ thr' = [thr EXCEPT ![t].pc = "flood", ![t].left = Clients]
          /\ UNCHANGED <<budget, admitted>>
       \/ /\ thr[t].id # Tap
          /\ AllowFlood(thr[t].id, TRUE)
          /\ thr' = [thr EXCEPT ![t].pc = "flood", ![t].left = Ids \ {thr[t].id}]
       \/ /\ thr[t].id # Tap
          /\ AllowFlood(thr[t].id, FALSE)
          /\ NextFrame(t)
    /\ UNCHANGED <<sessions, lock, ports, mac, created, owner, batching, ticks,
                   detached, late, raced>>

\* ports.iter: every port that is there when the iterator reaches it.
FloodPort(t, p) ==
    /\ At(t, "flood") /\ p \in thr[t].left
    /\ IF ports[p] # None THEN Write(ports[p]) ELSE late' = late
    /\ IF thr[t].left = {p} THEN NextFrame(t)
       ELSE thr' = [thr EXCEPT ![t].left = @ \ {p}]
    /\ UNCHANGED <<sessions, lock, ports, mac, budget, created, owner, batching,
                   ticks, detached, raced, admitted>>

\* Time passes: every budget is owed one more token.
Tick ==
    /\ ticks < MaxTicks
    /\ ticks' = ticks + 1
    /\ budget' = [c \in Clients |-> IF budget[c].open
                                    THEN [budget[c] EXCEPT !.owed = @ + 1] ELSE budget[c]]
    /\ UNCHANGED <<sessions, lock, ports, mac, created, owner, thr, batching,
                   detached, late, raced, admitted>>

Admit(t) ==
    \/ \E c \in Clients : AddPort(t, c)
    \/ ResolvePort(t)
    \/ AddStaticMac(t)
    \/ \E o \in Objs : SessionFrames(t, o)

Destroy(t) ==
    \/ \E c \in Clients : DestroySession(t, c)
    \/ RemovePort(t)
    \/ RemoveBudget(t)
    \/ RemoveMacs(t)

Serve(t) ==
    \/ Unicast(t)
    \/ Hairpin(t)
    \/ Uncached(t)
    \/ Fallback(t)
    \/ FloodStart(t)
    \/ \E p \in Ids : FloodPort(t, p)

Next ==
    \/ \E t \in Workers : Admit(t)
    \/ \E t \in Threads : Destroy(t)
    \/ \E s \in Macs, d \in Dests, aged \in BOOLEAN : TapFrame(s, d, aged)
    \/ ValidateMac
    \/ Learn
    \/ \E m \in Macs : Expire(m)
    \/ \E t \in Everyone : Serve(t)
    \/ Tick

Spec == Init /\ [][Next]_vars

-----------------------------------------------------------------------------
Threading == [pc : {"idle", "resolve", "pin", "unport", "unbudget", "unmac",
                    "validate", "learn", "forward", "fallback", "flood"},
              id : Ids, obj : Objs \cup {TapObj, None}, src : Dests,
              todo : Seq(Dests), left : SUBSET Ids]

\* Every variable keeps its type; the TAP's port is never removed.
TypeOK ==
    /\ sessions \in [Clients -> Objs \cup {None}]
    /\ lock \in Threads \cup {None}
    /\ ports \in [Ids -> Objs \cup {TapObj, None}] /\ ports[Tap] = TapObj
    /\ mac \in [Macs -> [kind : {"none", "dynamic", "static"}, id : Ids,
                         obj : Objs \cup {TapObj, None}]]
    /\ budget \in [Clients -> [open : BOOLEAN, tokens : 0..Burst, owed : Nat]]
    /\ created \in 0..MaxObj
    /\ owner \in [Objs -> Ids]
    /\ thr \in [Everyone -> Threading]
    /\ batching \in BOOLEAN
    /\ ticks \in 0..MaxTicks
    /\ detached \subseteq Objs /\ late \subseteq Objs \cup {TapObj}
    /\ raced \subseteq Objs
    /\ admitted \in [Clients -> [n : Nat, from : 0..MaxTicks]]

\* add_static_mac promises that a session's MAC stays pinned to its port for
\* the life of the port, whatever the TAP thread learns and the collector
\* drops meanwhile: only a destroy_session that was still running for the same
\* client when the session was created can break this.
RegisteredMacPinned ==
    \A c \in Clients :
        LET o == sessions[c]
        IN  o # None /\ o \notin raced
              => ports[c] = o /\ mac[MacOf[c]] = Entry("static", c, o)

\* "removal cannot send to a detached port": once remove_port has returned, no
\* thread writes to the port any more, neither one that floods nor one that
\* found the entry before.
NoWriteAfterRemoval == late = {}

\* A session that floods as fast as it can gets at most Burst frames through,
\* plus one for every token refilled since its budget was opened.
FloodBudgetHeld ==
    \A c \in Clients : budget[c].open => admitted[c].n <= Burst + ticks - admitted[c].from
=============================================================================
