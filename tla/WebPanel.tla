------------------------------ MODULE WebPanel ------------------------------
(***************************************************************************)
(* The dashboard as its requests see it: the manager that opens a listener *)
(* on every tunnel address (start_web_server_tunnel in src/api.rs), the    *)
(* listener threads and the requests they serve (serve_listener), the      *)
(* login sessions, and the configuration in memory and on disk             *)
(* (src/web_parity.rs).                                                    *)
(*                                                                         *)
(* Each listener serves one request at a time, but there is one for each   *)
(* address, so two requests run side by side. A request reads the expected *)
(* credential when it begins and its body whenever the sender is done.     *)
(* A configuration is its credential and the days of traffic it keeps.     *)
(***************************************************************************)
EXTENDS Integers, Sequences, FiniteSets, FiniteSetsExt

CONSTANTS
    Addrs,      \* tunnel addresses
    Listeners,  \* bound: listener threads at a time
    Creds,      \* credentials
    Tokens,     \* bound: login sessions at a time
    MaxDays     \* bound: days of traffic a configuration may keep

ASSUME WebPanelAssumption == MaxDays \in Nat \ {0} /\ IsFiniteSet(Listeners)

NoCred == ""
NoAddr == "none"
Nobody == "nobody"
Partial == [auth |-> NoCred, days |-> 0]    \* a file that was opened and not yet written

Configs == [auth : Creds \cup {NoCred}, days : 1..MaxDays]

VARIABLES
    wanted,     \* tunnel_addrs
    usable,     \* addresses the interface has
    manager,    \* the manager thread: what is left of its round, and the bind it waits for
    adopted,    \* the listener adopted for an address
    listener,   \* the listener threads
    conf,       \* source_config
    startAuth,  \* the credential the process was started with
    disk,       \* the inodes of the configuration file and its temporary, and their content
    sessions,   \* SessionStore: the credential a session's hash stands for, the one it proved
    accepted,   \* ghost: the proof of the latest request accepted by cookie
    overlapped, \* ghost: two saves have run side by side
    guarded,    \* ghost: a credential has been in force
    died        \* ghost: addresses whose adopted listener ended by itself

managerVars == <<wanted, usable, manager, adopted, died>>
configVars == <<conf, startAuth, disk, overlapped, guarded>>
sessionVars == <<sessions, accepted>>
panelVars == <<managerVars, configVars, sessionVars, listener>>

Idle == [addr |-> NoAddr, pc |-> "none", stop |-> FALSE, expected |-> NoCred,
         how |-> "none", merged |-> Partial, fd |-> 0]

Inodes == 1..Cardinality(Listeners) + 2

PanelInit ==
    /\ wanted \in {{}, Addrs} /\ usable = wanted
    /\ manager = [todo |-> {}, waits |-> Nobody]
    /\ adopted = [a \in Addrs |-> Nobody] /\ died = {}
    /\ listener = [l \in Listeners |-> Idle]
    /\ conf \in [auth : {NoCred, CHOOSE c \in Creds : TRUE}, days : 1..MaxDays]
    /\ startAuth = conf.auth
    /\ disk = [file |-> 1, temp |-> 0, data |-> [i \in Inodes |-> conf]]
    /\ sessions = [t \in {} |-> NoCred]
    /\ accepted = [proved |-> NoCred, expected |-> NoCred]
    /\ overlapped = FALSE /\ guarded = (conf.auth # NoCred)

At(l, pc) == listener[l].pc = pc
Become(l, pc) == listener' = [listener EXCEPT ![l].pc = pc]

\* The request is answered, or goes on without the credential it was checked against.
Proceed(l, pc) ==
    listener' = [listener EXCEPT ![l] = [Idle EXCEPT !.pc = pc, !.addr = listener[l].addr,
                                                     !.stop = listener[l].stop]]
Answer(l) == Proceed(l, "idle")

-----------------------------------------------------------------------------
(* The manager *)

\* The tunnel is given other addresses, or the interface is.
TunnelChanges(S, T) ==
    /\ wanted' = S /\ usable' = T
    /\ UNCHANGED <<manager, adopted, died, configVars, sessionVars, listener>>

\* Mutant of Retain: a listener that is told to stop stays adopted.
RetainStopped(gone) == UNCHANGED adopted

Retain(gone) == adopted' = [a \in Addrs |-> IF a \in gone THEN Nobody ELSE adopted[a]]

\* A round begins: listeners of addresses that are gone are told to stop, but
\* for a tunnel without addresses, which is not ready.
Round ==
    LET gone == IF wanted = {} THEN {} ELSE {a \in Addrs \ wanted : adopted[a] # Nobody}
    IN  /\ manager.todo = {} /\ manager.waits = Nobody
        /\ Retain(gone)
        /\ listener' = [l \in Listeners |->
                           IF \E a \in gone : adopted[a] = l
                           THEN [listener[l] EXCEPT !.stop = TRUE] ELSE listener[l]]
        /\ manager' = [manager EXCEPT !.todo = {a \in wanted : adopted'[a] = Nobody}]
        /\ died' = died \ gone
        /\ UNCHANGED <<wanted, usable, configVars, sessionVars>>

\* The handle of a thread that ended stays with the address that adopted it.
Unused(l) == At(l, "none") /\ \A a \in Addrs : adopted[a] # l

\* A thread is started for the next address and waited for.
Spawn ==
    LET a == CHOOSE x \in Addrs : x \in manager.todo
        l == CHOOSE x \in Listeners : Unused(x)
    IN  /\ manager.todo # {} /\ manager.waits = Nobody
        /\ \E x \in Listeners : Unused(x)
        /\ manager' = [todo |-> manager.todo \ {a}, waits |-> l]
        /\ listener' = [listener EXCEPT ![l] = [Idle EXCEPT !.addr = a, !.pc = "bind"]]
        /\ UNCHANGED <<wanted, usable, adopted, died, configVars, sessionVars>>

\* The thread that holds the port of an address: the kernel allows one.
Holds(l, a) == listener[l].addr = a /\ listener[l].pc \notin {"none", "bind"}
Free(a) == \A l \in Listeners : ~Holds(l, a)

\* The outcome of the bind, which the manager takes unless it gave up.
Bind(l) ==
    LET ok == listener[l].addr \in usable /\ Free(listener[l].addr)
    IN  /\ At(l, "bind")
        /\ listener' = [listener EXCEPT ![l] = IF ok THEN [@ EXCEPT !.pc = "idle"] ELSE Idle]
        /\ adopted' = IF ok /\ manager.waits = l
                      THEN [adopted EXCEPT ![listener[l].addr] = l] ELSE adopted
        /\ manager' = IF manager.waits = l THEN [manager EXCEPT !.waits = Nobody] ELSE manager
        /\ UNCHANGED <<wanted, usable, died, configVars, sessionVars>>

\* The manager does not wait longer than a second; the thread is never adopted.
GiveUp ==
    /\ manager.waits # Nobody
    /\ manager' = [manager EXCEPT !.waits = Nobody]
    /\ UNCHANGED <<wanted, usable, adopted, died, configVars, sessionVars, listener>>

\* A listener that is told to stop ends between two requests.
StopSeen(l) ==
    /\ At(l, "idle") /\ listener[l].stop
    /\ listener' = [listener EXCEPT ![l] = Idle]
    /\ UNCHANGED <<managerVars, configVars, sessionVars>>

\* recv_timeout fails: the thread ends, the manager does not look at it again.
RecvError(l) ==
    /\ At(l, "idle")
    /\ listener' = [listener EXCEPT ![l] = Idle]
    /\ died' = died \cup {a \in Addrs : adopted[a] = l}
    /\ UNCHANGED <<wanted, usable, manager, adopted, configVars, sessionVars>>

-----------------------------------------------------------------------------
(* Requests *)

Expected == IF conf.auth = NoCred THEN startAuth ELSE conf.auth

Begin(l) ==
    /\ At(l, "idle") /\ ~listener[l].stop
    /\ listener' = [listener EXCEPT ![l].pc = "request", ![l].expected = Expected]
    /\ UNCHANGED <<managerVars, configVars, sessionVars>>

\* POST /api/login, its body read: SessionStore::create.
Login(l, c, t) ==
    /\ At(l, "request") /\ listener[l].expected # NoCred
    /\ t \notin DOMAIN sessions
    /\ IF c = listener[l].expected
       THEN sessions' = [u \in DOMAIN sessions \cup {t} |->
                            IF u = t THEN [hash |-> listener[l].expected, proved |-> c]
                            ELSE sessions[u]]
       ELSE UNCHANGED sessions
    /\ Answer(l)
    /\ UNCHANGED <<managerVars, configVars, accepted>>

Without(t) == [u \in DOMAIN sessions \ {t} |-> sessions[u]]

\* POST /api/logout: SessionStore::revoke.
Logout(l, t) ==
    /\ At(l, "request") /\ listener[l].expected # NoCred
    /\ t \in DOMAIN sessions
    /\ sessions' = Without(t)
    /\ Answer(l)
    /\ UNCHANGED <<managerVars, configVars, accepted>>

\* Mutant of Valid: any session that has not expired will do.
ValidAny(t, expected) == t \in DOMAIN sessions

\* SessionStore::valid
Valid(t, expected) == t \in DOMAIN sessions /\ sessions[t].hash = expected

\* dashboard_authenticated by cookie: what the request asks for is done, or
\* goes on with its body. An invalid session is removed.
ByCookie(l, t, what) ==
    /\ At(l, "request") /\ listener[l].expected # NoCred
    /\ t \in DOMAIN sessions
    /\ IF Valid(t, listener[l].expected)
       THEN /\ accepted' = [proved |-> sessions[t].proved, expected |-> listener[l].expected]
            /\ Proceed(l, what)
            /\ UNCHANGED sessions
       ELSE /\ sessions' = Without(t)
            /\ Answer(l)
            /\ UNCHANGED accepted
    /\ UNCHANGED <<managerVars, configVars>>

\* By Basic authentication with the right credential, or without any being set.
ByCredential(l, what) ==
    /\ At(l, "request")
    /\ Proceed(l, what)
    /\ UNCHANGED <<managerVars, configVars, sessionVars>>

Expire(t) ==
    /\ t \in DOMAIN sessions
    /\ sessions' = Without(t)
    /\ UNCHANGED <<managerVars, configVars, accepted, listener>>

-----------------------------------------------------------------------------
(* The three ways to save: POST /api/config, and save and save_apply of /api/control *)

Ways == {"config", "save", "save_apply"}

Saving(l) == listener[l].pc \in {"open", "write", "rename", "publish"}

\* merge_preserving_secrets
Merge(cand) == IF cand.auth = NoCred THEN [cand EXCEPT !.auth = conf.auth] ELSE cand

\* The body is there and valid.
BodyRead(l, cand, how) ==
    /\ At(l, "body")
    /\ listener' = [listener EXCEPT ![l].pc = "open", ![l].how = how, ![l].merged = Merge(cand)]
    /\ overlapped' = (overlapped \/ \E k \in Listeners \ {l} : Saving(k))
    /\ UNCHANGED <<managerVars, conf, startAuth, disk, guarded, sessionVars>>

\* The body is too long, not JSON, not a valid configuration or not an action.
BodyRefused(l) ==
    /\ listener[l].pc \in {"body", "control"}
    /\ Answer(l)
    /\ UNCHANGED <<managerVars, configVars, sessionVars>>

\* atomic_write_json: the temporary file, named after the process, is created
\* or truncated, ...
OpenTemp(l) ==
    LET used  == {disk.file, disk.temp} \cup {listener[k].fd : k \in Listeners}
        inode == IF disk.temp # 0 THEN disk.temp ELSE Min(Inodes \ used)
    IN  /\ At(l, "open")
        /\ disk' = [disk EXCEPT !.temp = inode, !.data[inode] = Partial]
        /\ listener' = [listener EXCEPT ![l].pc = "write", ![l].fd = inode]
        /\ UNCHANGED <<managerVars, conf, startAuth, overlapped, guarded, sessionVars>>

\* ... written and given its mode, ...
WriteTemp(l, ok) ==
    /\ At(l, "write")
    /\ IF ok THEN /\ disk' = [disk EXCEPT !.data[listener[l].fd] = listener[l].merged]
                  /\ listener' = [listener EXCEPT ![l].pc = "rename", ![l].fd = 0]
             ELSE UNCHANGED disk /\ Answer(l)
    /\ UNCHANGED <<managerVars, conf, startAuth, overlapped, guarded, sessionVars>>

\* Mutant of Rename: the new configuration is used whatever became of the file.
RenameCareless(l, ok) ==
    /\ disk' = IF ok /\ disk.temp # 0 THEN [disk EXCEPT !.file = disk.temp, !.temp = 0]
               ELSE [disk EXCEPT !.temp = 0]
    /\ Become(l, "publish")

\* ... and renamed. If that fails it is removed and the request is refused.
Rename(l, ok) ==
    IF ok /\ disk.temp # 0
    THEN /\ disk' = [disk EXCEPT !.file = disk.temp, !.temp = 0]
         /\ Become(l, "publish")
    ELSE /\ disk' = [disk EXCEPT !.temp = 0]
         /\ Answer(l)

RenameTemp(l, ok) ==
    /\ At(l, "rename")
    /\ Rename(l, ok)
    /\ UNCHANGED <<managerVars, conf, startAuth, overlapped, guarded, sessionVars>>

\* replace_config. The fields that wait for a restart (needs_restart) are only
\* shown.
Publish(l) ==
    LET merged == listener[l].merged
    IN  /\ At(l, "publish")
        /\ conf' = merged
        /\ guarded' = (guarded \/ merged.auth # NoCred)
        /\ Answer(l)
        /\ UNCHANGED <<managerVars, startAuth, disk, overlapped, sessionVars>>

\* The process ends and is started again with the file as it is; one that is
\* not whole cannot be read.
PanelRestarts ==
    LET saved == disk.data[disk.file]
    IN  /\ saved # Partial
        /\ conf' = saved /\ startAuth' = saved.auth
        /\ disk' = [disk EXCEPT !.temp = 0]
        /\ sessions' = [t \in {} |-> NoCred]
        /\ listener' = [l \in Listeners |-> Idle]
        /\ manager' = [todo |-> {}, waits |-> Nobody]
        /\ adopted' = [a \in Addrs |-> Nobody] /\ died' = {}
        /\ UNCHANGED <<wanted, usable, accepted, overlapped, guarded>>

-----------------------------------------------------------------------------
(* Properties *)

\* A cookie opens the panel only for requests that expect the very credential
\* its login proved: replacing the credential shuts out every earlier session,
\* also one whose login was in progress. And a panel that once asked for a
\* credential keeps asking: no save without one opens it, and no restart
\* (SessionStore::create and valid, dashboard_authenticated,
\* merge_preserving_secrets).
StaysGuarded ==
    /\ accepted.proved = accepted.expected
    /\ guarded /\ ~overlapped => Expected # NoCred

\* Unless two listeners save at the same time, the configuration file is whole
\* at every moment, so that a crash never leaves one that cannot be read, and
\* between saves it is the configuration in memory, whichever step of a save
\* failed and wherever the process was restarted (atomic_write_json,
\* replace_config).
ConfigDurable ==
    ~overlapped =>
        /\ disk.data[disk.file] # Partial
        /\ (\A l \in Listeners : ~At(l, "publish")) => conf = disk.data[disk.file]
=============================================================================
