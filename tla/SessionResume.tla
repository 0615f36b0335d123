---------------------------- MODULE SessionResume ----------------------------
(***************************************************************************)
(* How a client comes back to its session: the identity a client process   *)
(* stores (src/client_state.rs), its connection threads (conn_loop and the *)
(* handshake half of dial_and_serve in src/client.rs), and the server's    *)
(* side of the same handshake (handle_handshake, rotate_session_epoch and  *)
(* the two-phase replacement of the resume token in src/server.rs).        *)
(*                                                                         *)
(* Every process start draws a new instance number.  A request of another  *)
(* instance than the session's must show the session's token; it is then   *)
(* given a new epoch and the next token, which replaces the current one    *)
(* only when the client shows it: the answer may be lost.                  *)
(*                                                                         *)
(* A connection has two ends that close at different times: a request may  *)
(* reach the server after the client process that sent it has died.        *)
(* Faults: lost connections, a client killed at any step (between the      *)
(* answer and the saved file too), a failing disk, a restarted server.     *)
(***************************************************************************)
EXTENDS Integers, FiniteSets

CONSTANTS
    Conns,        \* physical connections
    InitMac,      \* the address in the state file at the very first start
    PlainFec,     \* FEC was negotiated, inner encryption was not
    MaxMac,       \* bound: addresses generated
    MaxObj,       \* bound: sessions created
    MaxInst,      \* bound: instance numbers drawn
    MaxEpoch,     \* bound: epochs of one session
    MaxFaults     \* bound: connections lost, processes killed, servers restarted,
                  \* sequence spaces exhausted and saves that fail

NoMac == 0
BadMac == -1      \* a stored address that is not a unicast MAC
NoToken == 0
NoObj == 0
CountMod == 8     \* active_conns is unsigned and wraps, here at 8
Exhausted == -1   \* the instance name "exhausted-<random>"
NoSave == "none"

ASSUME SessionResumeAssumption ==
    /\ {MaxMac, MaxObj, MaxInst, MaxEpoch, MaxFaults} \subseteq Nat
    /\ InitMac \in {NoMac, BadMac} \cup 1..MaxMac
    /\ PlainFec \in BOOLEAN

VARIABLES
    stateFile, \* the state file: ClientState
    alive,     \* the client process runs
    ident,     \* Client.identity: its copy of the file
    mac,       \* the address the process uses; it determines client_id
    ss,        \* Client.session: token, epoch and session of the last answer
    inst,      \* Client.instance_id
    gen,       \* Client.force_generation
    rekeying,  \* Client.sequence_rekeying
    spent,     \* the client's sequence space is exhausted
    saving,    \* what save_client_state is writing; Client.session is locked
    cli,       \* the client end of each connection
    srv,       \* the server end of each connection
    live,      \* ServerCore.sessions: the session of each address
    obj,       \* every session ever created
    tokens,    \* tokens drawn so far
    macs,      \* addresses generated so far
    insts,     \* instance numbers drawn so far
    spoiled,   \* ghost: what has happened that may cost the client its token
    faults     \* faults so far

client == <<stateFile, alive, ident, mac, ss, inst, gen, rekeying, spent, saving, cli, macs,
            insts>>
server == <<srv, live, obj, tokens>>
resumeVars == <<client, server, spoiled, faults>>

NoClient == [pc |-> "none", gen |-> 0, inst |-> 0]
NoServer == [pc |-> "none", mac |-> NoMac, inst |-> 0, token |-> NoToken, obj |-> NoObj, epoch |-> 0,
             answer |-> NoToken]
NoState == [mac |-> NoMac, cid |-> NoMac, sid |-> NoObj, token |-> NoToken, epoch |-> 0]
NoSession == [sid |-> NoObj, token |-> NoToken, epoch |-> 0]

Objs == 1..MaxObj
Created == {o \in Objs : obj[o].epoch > 0}

ResumeInit ==
    /\ stateFile = [NoState EXCEPT !.mac = InitMac]
    /\ alive = FALSE
    /\ ident = NoState
    /\ mac = NoMac
    /\ ss = NoSession
    /\ inst = 0 /\ insts = 0 /\ gen = 0
    /\ rekeying = FALSE /\ spent = FALSE
    /\ saving = NoSave
    /\ cli = [c \in Conns |-> NoClient]
    /\ srv = [c \in Conns |-> NoServer]
    /\ live = [m \in 1..MaxMac |-> NoObj]
    /\ obj = [o \in Objs |-> [inst |-> 0, epoch |-> 0, current |-> NoToken, pending |-> NoToken,
                              active |-> 0, deadline |-> FALSE]]
    /\ tokens = 0
    /\ macs = IF InitMac > 0 THEN InitMac ELSE 0
    /\ spoiled = {}
    /\ faults = 0

Fault == faults < MaxFaults /\ faults' = faults + 1

-----------------------------------------------------------------------------
(* The client process *)

\* The address of the process: the stored one if there is one, be it usable
\* or not, else a random one.
ActualMac == IF stateFile.mac # NoMac THEN stateFile.mac ELSE macs + 1

\* start_client: load the file, settle the address and save it if it is new
\* (a save that fails is only logged), restore the session if the file
\* belongs to this client id, and draw an instance number.
StartWith(saved) ==
    LET m == ActualMac
        id == [stateFile EXCEPT !.mac = m]
    IN  /\ ~alive
        /\ m <= MaxMac /\ insts < MaxInst
        /\ alive' = TRUE
        /\ mac' = m /\ ident' = id
        /\ macs' = IF m > macs THEN m ELSE macs
        /\ stateFile' = IF saved THEN id ELSE stateFile
        /\ ss' = IF stateFile.cid = m /\ stateFile.sid # NoObj
                 THEN [sid |-> stateFile.sid, token |-> stateFile.token, epoch |-> stateFile.epoch]
                 ELSE NoSession
        /\ insts' = insts + 1 /\ inst' = insts + 1
        /\ gen' = 0 /\ rekeying' = FALSE /\ spent' = FALSE
        /\ UNCHANGED <<saving, cli, server>>

Start == StartWith(TRUE) /\ UNCHANGED <<spoiled, faults>>

StartUnsaved ==
    /\ stateFile.mac = NoMac
    /\ Fault
    /\ StartWith(FALSE)
    /\ spoiled' = spoiled \cup {"save"}

\* The process is killed: memory and client ends are gone, the file and the
\* server ends stay.  A file being written is not renamed yet.
Crash ==
    /\ alive
    /\ Fault
    /\ alive' = FALSE
    /\ ident' = NoState /\ mac' = NoMac /\ ss' = NoSession
    /\ inst' = 0 /\ gen' = 0 /\ rekeying' = FALSE /\ spent' = FALSE
    /\ saving' = NoSave
    /\ cli' = [c \in Conns |-> NoClient]
    /\ UNCHANGED <<stateFile, macs, insts, server, spoiled>>

\* fs::rename over the old file, after the temporary one was written.
StateSaved ==
    /\ saving # NoSave
    /\ stateFile' = ident
    /\ saving' = NoSave
    /\ UNCHANGED <<alive, ident, mac, ss, inst, gen, rekeying, spent, cli, macs, insts, server,
                   spoiled, faults>>

\* save_client_state returns an error: persist_session_state logs it.
StateLost ==
    /\ saving # NoSave
    /\ Fault
    /\ saving' = NoSave
    /\ spoiled' = spoiled \cup {"save"}
    /\ UNCHANGED <<stateFile, alive, ident, mac, ss, inst, gen, rekeying, spent, cli, macs, insts,
                   server>>

-----------------------------------------------------------------------------
(* A connection thread of the client *)

identity == <<stateFile, alive, ident, mac, ss, inst, gen, rekeying, spent, saving, macs, insts>>

\* conn_loop calls dial_and_serve, which reads the generation, dials, and
\* reads the instance before the TLS handshake.  (A generation that changes
\* between the two reads costs one more reconnection and is left out.)
Dial(c) ==
    /\ alive
    /\ cli[c].pc = "none" /\ srv[c].pc = "none"
    /\ cli' = [cli EXCEPT ![c] = [pc |-> "tls", gen |-> gen, inst |-> inst]]
    /\ UNCHANGED <<identity, server, spoiled, faults>>

\* The token is read after it, under the session lock, and the request sent.
Request(c) ==
    /\ cli[c].pc = "tls"
    /\ saving = NoSave
    /\ cli' = [cli EXCEPT ![c].pc = "sent"]
    /\ srv' = [srv EXCEPT ![c] = [NoServer EXCEPT !.pc = "request", !.mac = mac,
                                                  !.inst = cli[c].inst, !.token = ss.token]]
    /\ UNCHANGED <<identity, live, obj, tokens, spoiled, faults>>

\* The client end closes: the dial, the TLS handshake or the wait for the
\* answer failed or timed out, or an established connection broke.
Lose(c) ==
    /\ cli[c].pc # "none"
    /\ Fault
    /\ cli' = [cli EXCEPT ![c] = NoClient]
    /\ UNCHANGED <<identity, server, spoiled>>

\* The server closed the connection: dial_and_serve returns.
SeeClosed(c) ==
    /\ cli[c].pc \in {"sent", "up"}
    /\ srv[c].pc = "none"
    /\ cli' = [cli EXCEPT ![c] = NoClient]
    /\ UNCHANGED <<identity, server, spoiled, faults>>

\* persist_session_state: an answer of an earlier epoch is not stored.
Persist(sid, token, epoch) ==
    IF epoch < ident.epoch
    THEN UNCHANGED <<ident, saving>>
    ELSE /\ ident' = [ident EXCEPT !.cid = mac, !.sid = sid, !.token = token, !.epoch = epoch]
         /\ saving' = "file"

\* The negotiation under the session lock, once the answer has arrived. A new
\* epoch calls reset_epoch if FEC is off or, with FEC, if its key has changed:
\* without inner encryption there is none, and the sequence space stays spent.
Negotiate(c) ==
    LET a == srv[c]
        isNew == ss.sid # a.obj \/ ss.epoch # a.epoch
    IN  /\ cli[c].pc = "sent" /\ a.pc = "answered"
        /\ saving = NoSave
        /\ ss' = [sid |-> a.obj, token |-> a.answer, epoch |-> a.epoch]
        /\ Persist(a.obj, a.answer, a.epoch)
        /\ spent' = (spent /\ (~isNew \/ PlainFec))
        /\ rekeying' = (rekeying /\ ~isNew)
        /\ cli' = [cli EXCEPT ![c].pc = "up"]
        /\ spoiled' = IF a.obj < ss.sid \/ (a.obj = ss.sid /\ a.epoch < ss.epoch)
                         \/ a.obj # live[mac]
                      THEN spoiled \cup {"late"} ELSE spoiled
        /\ UNCHANGED <<stateFile, alive, mac, inst, gen, macs, insts, server, faults>>

\* The serving loop finds the sequence space exhausted: the first connection
\* to see it draws a new instance and makes the others reconnect.
SpendSequence ==
    /\ alive /\ ~spent
    /\ \E c \in Conns : cli[c].pc = "up"
    /\ Fault
    /\ spent' = TRUE
    /\ UNCHANGED <<stateFile, alive, ident, mac, ss, inst, gen, rekeying, saving, cli, macs, insts,
                   server, spoiled>>

Rekey(c) ==
    /\ cli[c].pc = "up" /\ spent
    /\ cli' = [cli EXCEPT ![c] = NoClient]
    /\ IF rekeying
       THEN UNCHANGED <<inst, insts, gen, rekeying>>
       ELSE /\ insts < MaxInst
            /\ insts' = insts + 1 /\ inst' = insts + 1
            /\ gen' = gen + 1
            /\ rekeying' = TRUE
    /\ UNCHANGED <<stateFile, alive, ident, mac, ss, spent, saving, macs, server, spoiled, faults>>

\* The serving loop finds that a reconnection was forced.
ForcedReconnect(c) ==
    /\ cli[c].pc = "up" /\ ~spent
    /\ cli[c].gen # gen
    /\ cli' = [cli EXCEPT ![c] = NoClient]
    /\ UNCHANGED <<identity, server, spoiled, faults>>

-----------------------------------------------------------------------------
(* The server *)

\* accept_session_resume_token
Accepts(s, token) == token # NoToken /\ token \in {s.current, s.pending}

\* The session after the token was shown: a pending one becomes current.
Promote(s, token) ==
    IF s.pending # NoToken /\ token = s.pending
    THEN [s EXCEPT !.current = s.pending, !.pending = NoToken] ELSE s

\* response_resume_token
ResponseToken(s) == IF s.pending = NoToken THEN s.current ELSE s.pending

\* Mutant of Rotate: the next token takes effect at once, in one phase.
RotateAtOnce(s, i, next) ==
    [s EXCEPT !.inst = i, !.epoch = @ + 1, !.active = 0, !.current = next]

\* rotate_session_epoch
RotateEpoch(s, i) == [s EXCEPT !.inst = i, !.epoch = @ + 1, !.active = 0]

\* rotate_session_epoch, then ensure_pending_resume_token with token next.
Rotate(s, i, next) ==
    [RotateEpoch(s, i) EXCEPT !.pending = IF @ = NoToken THEN next ELSE @]

\* The connection is counted and the destroy countdown is stopped.
Occupy(s) == [s EXCEPT !.active = (@ + 1) % CountMod, !.deadline = FALSE]

Arrived(c) == srv[c].pc = "request" /\ srv[c].mac # BadMac
SessionOf(c) == live[srv[c].mac]
ToClient == UNCHANGED <<client, faults>>

Admit(c, o, s) ==
    /\ obj' = [obj EXCEPT ![o] = Occupy(s)]
    /\ srv' = [srv EXCEPT ![c].pc = "admitted", ![c].obj = o]

\* No session of this client: a new one, which adopts the token it was shown.
HandshakeNew(c) ==
    LET o == Cardinality(Created) + 1
        fresh == srv[c].token = NoToken
    IN  /\ Arrived(c) /\ SessionOf(c) = NoObj
        /\ o <= MaxObj
        /\ Admit(c, o, [inst |-> srv[c].inst, epoch |-> 1,
                        current |-> IF fresh THEN tokens + 1 ELSE srv[c].token,
                        pending |-> NoToken, active |-> 0, deadline |-> FALSE])
        /\ tokens' = IF fresh THEN tokens + 1 ELSE tokens
        /\ live' = [live EXCEPT ![srv[c].mac] = o]
        /\ spoiled' = spoiled \cup (IF stateFile.epoch > 1 \/ ident.epoch > 1
                                   THEN {"recreated"} ELSE {})
                             \cup (IF o > 1 /\ ResponseToken(obj[o - 1]) # srv[c].token
                                   THEN {"other_token"} ELSE {})
        /\ ToClient

\* The same client process: no token is asked for, but showing the pending
\* one confirms it.
HandshakeSame(c) ==
    LET o == SessionOf(c) IN
        /\ Arrived(c) /\ o # NoObj
        /\ obj[o].inst = srv[c].inst
        /\ Admit(c, o, Promote(obj[o], srv[c].token))
        /\ UNCHANGED <<live, tokens, spoiled>>
        /\ ToClient

\* Another process of the client, with a valid token.
HandshakeRotate(c) ==
    LET o == SessionOf(c)
        s == Promote(obj[o], srv[c].token)
    IN  /\ Arrived(c) /\ o # NoObj
        /\ obj[o].inst # srv[c].inst
        /\ Accepts(obj[o], srv[c].token)
        /\ obj[o].epoch < MaxEpoch
        /\ Admit(c, o, Rotate(s, srv[c].inst, tokens + 1))
        /\ tokens' = IF s.pending = NoToken THEN tokens + 1 ELSE tokens
        /\ UNCHANGED <<live, spoiled>>
        /\ ToClient

\* The same, but the new keys (rotated = FALSE) or the next token cannot be made:
\* the connection is closed, what has been changed stays changed.
HandshakeFails(c, rotated) ==
    LET o == SessionOf(c)
        s == Promote(obj[o], srv[c].token)
    IN  /\ Arrived(c) /\ o # NoObj
        /\ obj[o].inst # srv[c].inst
        /\ Accepts(obj[o], srv[c].token)
        /\ rotated => s.pending = NoToken /\ obj[o].epoch < MaxEpoch
        /\ Fault
        /\ obj' = [obj EXCEPT ![o] = IF rotated THEN RotateEpoch(s, srv[c].inst) ELSE s]
        /\ srv' = [srv EXCEPT ![c] = NoServer]
        /\ UNCHANGED <<live, tokens, spoiled, client>>

\* Another process without one, or an address that is none: refused.
HandshakeRefuse(c) ==
    /\ srv[c].pc = "request"
    /\ \/ srv[c].mac = BadMac
       \/ /\ Arrived(c) /\ SessionOf(c) # NoObj
          /\ obj[SessionOf(c)].inst # srv[c].inst
          /\ ~Accepts(obj[SessionOf(c)], srv[c].token)
    /\ srv' = [srv EXCEPT ![c] = NoServer]
    /\ UNCHANGED <<live, obj, tokens, spoiled>>
    /\ ToClient

\* The answer is made after the table of sessions was unlocked, from the
\* epoch state as it is then.
SendAnswer(c) ==
    LET s == obj[srv[c].obj] IN
        /\ srv[c].pc = "admitted"
        /\ srv' = [srv EXCEPT ![c].pc = "answered", ![c].epoch = s.epoch,
                              ![c].answer = ResponseToken(s)]
        /\ UNCHANGED <<live, obj, tokens, spoiled>>
        /\ ToClient

\* Mutant of CloseEnd: on_conn_closed does not start the countdown.
CloseForgetful(c) ==
    LET o == srv[c].obj IN
        /\ srv[c].pc = "answered"
        /\ cli[c].pc = "none" \/ obj[o].epoch # srv[c].epoch
        /\ obj' = IF obj[o].epoch # srv[c].epoch THEN obj
                  ELSE [obj EXCEPT ![o].active = (@ + CountMod - 1) % CountMod]
        /\ srv' = [srv EXCEPT ![c] = NoServer]
        /\ UNCHANGED <<live, tokens, spoiled>>
        /\ ToClient

\* The sweep closes a connection whose peer is gone, whose epoch is over or
\* whose session has no sequence numbers left; the last one of the epoch
\* starts the destroy countdown.
CloseEnd(c) ==
    LET o == srv[c].obj
        s == obj[o]
        last == s.active <= 1
    IN  /\ srv[c].pc = "answered"
        /\ \/ cli[c].pc = "none"
           \/ s.epoch # srv[c].epoch
           \/ s.inst = Exhausted
        /\ obj' = IF s.epoch # srv[c].epoch THEN obj
                  ELSE [obj EXCEPT ![o].active = (@ + CountMod - 1) % CountMod,
                                      ![o].deadline = @ \/ last]
        /\ srv' = [srv EXCEPT ![c] = NoServer]
        /\ UNCHANGED <<live, tokens, spoiled>>
        /\ ToClient

\* The sequence space towards the client is exhausted: the session gets an
\* instance no client has, and a new epoch which no connection belongs to.
ServerExhausted(o) ==
    /\ o \in Created
    /\ obj[o].inst # Exhausted /\ obj[o].epoch < MaxEpoch
    /\ \E c \in Conns : srv[c].pc = "answered" /\ srv[c].obj = o
    /\ Fault
    /\ obj' = [obj EXCEPT ![o].inst = Exhausted, ![o].epoch = @ + 1, ![o].active = 0]
    /\ UNCHANGED <<srv, live, tokens, spoiled, client>>

\* 120 s without a connection: destroy_session.
Destroy(m) ==
    /\ live[m] # NoObj
    /\ obj[live[m]].active = 0 /\ obj[live[m]].deadline
    /\ live' = [live EXCEPT ![m] = NoObj]
    /\ UNCHANGED <<srv, obj, tokens, spoiled>>
    /\ ToClient

\* The server process restarts: nothing of its sessions survives.
ServerRestart ==
    /\ Fault
    /\ live' = [m \in DOMAIN live |-> NoObj]
    /\ srv' = [c \in Conns |-> NoServer]
    /\ UNCHANGED <<obj, tokens, spoiled, client>>

-----------------------------------------------------------------------------
ClientStep(c) ==
    \/ Dial(c) \/ Request(c) \/ SeeClosed(c) \/ Negotiate(c)
    \/ Rekey(c) \/ ForcedReconnect(c)

ServerStep(c) ==
    \/ HandshakeNew(c) \/ HandshakeSame(c) \/ HandshakeRotate(c) \/ HandshakeRefuse(c)
    \/ SendAnswer(c) \/ CloseEnd(c)

ResumeNext ==
    \/ Start \/ StartUnsaved \/ Crash \/ StateSaved \/ StateLost
    \/ SpendSequence
    \/ \E c \in Conns : ClientStep(c) \/ Lose(c) \/ ServerStep(c)
    \/ \E c \in Conns, rotated \in BOOLEAN : HandshakeFails(c, rotated)
    \/ \E o \in Objs : ServerExhausted(o)
    \/ \E m \in 1..MaxMac : Destroy(m)
    \/ ServerRestart

\* Threads keep running, requests and answers that are not lost arrive, the
\* sweep comes round and the countdown runs out.
ResumeFairness ==
    /\ WF_resumeVars(StateSaved)
    /\ \A c \in Conns : WF_resumeVars(ClientStep(c) \/ ServerStep(c))
    /\ \A m \in 1..MaxMac : WF_resumeVars(Destroy(m))

ResumeSpec == ResumeInit /\ [][ResumeNext]_resumeVars /\ ResumeFairness

-----------------------------------------------------------------------------
Stored == stateFile.cid > 0 /\ stateFile.token # NoToken
Present == live[stateFile.cid] # NoObj
Opens(token) == Accepts(obj[live[stateFile.cid]], token)

\* Whatever answer is lost and wherever the client process is killed, the token
\* in the state file opens the session the server keeps for this client: a
\* restarted client rejoins at once.  Not covered are a save that failed, an
\* answer that overtook a later one, and a session made anew whose epochs
\* start below the one stored, or about to be, or whose token is not the last
\* one given out.
Rejoins == Stored /\ Present /\ spoiled = {} => Opens(stateFile.token)

\* What client_state.rs promises without that last reservation: a client that
\* is killed or crashes rejoins its session instead of waiting for it to
\* expire, be it one that was made anew after a restart of the server.
RejoinsRecreated == Stored /\ Present /\ spoiled \subseteq {"recreated"} => Opens(stateFile.token)

\* A connection that both ends hold, of the current epoch of the session in
\* the table, over which the client has numbers left to send with.
Served == \E c \in Conns, m \in 1..MaxMac :
    /\ cli[c].pc = "up" /\ srv[c].pc = "answered" /\ ~spent
    /\ live[m] = srv[c].obj
    /\ obj[srv[c].obj].epoch = srv[c].epoch

\* A session that is not freed although no connection of its epoch is counted: its
\* sequence numbers ran out, or a handshake began the epoch and failed before the
\* epoch had a token to announce.
Leaked == \E m \in 1..MaxMac :
    /\ live[m] # NoObj
    /\ LET s == obj[live[m]]
       IN  \/ s.inst = Exhausted
           \/ s.epoch > 1 /\ s.active = 0 /\ ~s.deadline /\ s.pending = NoToken

\* Whatever the faults, a client process that stays up is served in the end:
\* even a client that was refused for want of a token is, since the countdown
\* of the unreachable session ends and a new session adopts the token shown.
\* It needs a usable address in the state file (InitMac) and fails without: a
\* stored address that is none is kept, and every handshake refused.
Comes == <>[](alive => Served \/ Leaked)

\* A new epoch gives the client a new sequence space (reset_epoch in
\* dial_and_serve): the numbers it allocates start again at 1.
NewEpochFresh == [][<<ss.sid, ss.epoch>>' # <<ss.sid, ss.epoch>> => ~spent']_resumeVars
=============================================================================
