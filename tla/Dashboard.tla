----------------------------- MODULE Dashboard ------------------------------
(***************************************************************************)
(* The dashboard of one process: the panel's requests (WebPanel) and what  *)
(* it remembers (WebStats). They meet in save_apply, which changes the     *)
(* days the history keeps, in the events that saves and control actions    *)
(* emit, and in the end of the process. A client's tunnel addresses change *)
(* (a server's do not), a server has clients to report.                    *)
(*                                                                         *)
(* What comes from outside (requests, address changes, traffic, failures,  *)
(* restarts) is drawn from three budgets, so that long runs of one kind    *)
(* meet short ones of the others.                                          *)
(***************************************************************************)
EXTENDS WebPanel, WebStats

CONSTANT
    Budgets     \* bound: events of the tunnel, of the requests and of the statistics,
                \* with the addresses and the credentials to begin with and the ways to save

\* What comes from outside, bounded.
Allowances == [tunnel : Nat, panel : Nat, stats : Nat, addrs : SUBSET Addrs,
               auths : SUBSET (Creds \cup {NoCred}), ways : SUBSET Ways]

ASSUME DashboardAssumption == Budgets \subseteq Allowances

VARIABLE budget

vars == <<panelVars, statsVars, budget>>

Init ==
    /\ PanelInit /\ StatsInit
    /\ conf.days = KeptDays
    /\ budget \in Budgets
    /\ wanted = budget.addrs /\ conf.auth \in budget.auths

Spend(side) == budget[side] > 0 /\ budget' = [budget EXCEPT ![side] = @ - 1]

\* What befalls the listeners, and the requests.
TunnelEvent ==
    \/ \E S, T \in SUBSET Addrs : TunnelChanges(S, T)
    \/ GiveUp
    \/ \E l \in Listeners : RecvError(l)

RequestEvent ==
    \/ \E t \in Tokens : Expire(t)
    \/ \E l \in Listeners : Begin(l) \/ WriteTemp(l, FALSE) \/ RenameTemp(l, FALSE)

ManagerStep == Round \/ Spawn \/ \E l \in Listeners : Bind(l)

Serve(l) ==
    \/ \E c \in Creds, t \in Tokens : Login(l, c, t)
    \/ \E t \in Tokens : Logout(l, t)
    \/ \E what \in {"idle", "body", "control"} :
        ByCredential(l, what) \/ \E t \in Tokens : ByCookie(l, t, what)
    \/ BodyRefused(l)
    \/ \E cand \in Configs, how \in budget.ways : BodyRead(l, cand, how)
    \/ OpenTemp(l) \/ WriteTemp(l, TRUE) \/ RenameTemp(l, TRUE)

\* The end of a save: save_apply sets the days and the file of the history first,
\* and a save by /api/control is reported as an event. The file is a part of the
\* configuration that the panel's model does not keep: it may be any.
SaveDone(l) ==
    /\ Publish(l)
    /\ IF listener[l].how = "config" THEN UNCHANGED hubVars ELSE Emit
    /\ IF listener[l].how = "save_apply"
       THEN \E path \in Paths : ApplyTraffic(listener[l].merged.days, path)
       ELSE UNCHANGED traffic
    /\ UNCHANGED <<online, today, sampler, files, known, moved>>

\* Another action of /api/control that succeeds; kick ends a session.
Control(l, kicked) ==
    /\ At(l, "control")
    /\ Become(l, "idle")
    /\ online' = Restrict(online, DOMAIN online \ kicked)
    /\ Emit
    /\ UNCHANGED <<managerVars, configVars, sessionVars, today, trafficVars, moved>>

PanelStep ==
    \/ TunnelEvent /\ Spend("tunnel") /\ UNCHANGED statsVars
    \/ RequestEvent /\ Spend("panel") /\ UNCHANGED statsVars
    \/ (ManagerStep \/ \E l \in Listeners : Serve(l) \/ StopSeen(l)) /\ UNCHANGED <<statsVars, budget>>
    \/ \E l \in Listeners :
        (SaveDone(l) \/ \E k \in SUBSET Clients : Control(l, k))
       /\ UNCHANGED budget

StatsStep ==
    /\ \/ /\ Spend("stats")
          /\ \/ \E c \in Clients : Connect(c) \/ Disconnect(c) \/ Move(c)
             \/ StartSampler \/ Midnight \/ PersistAll(FALSE) \/ PersistEach(FALSE)
             \/ \E b \in Browsers : Leave(b) \/ \E after \in 0..hub.seq + 1 : Subscribe(b, after)
       \/ /\ UNCHANGED budget
          /\ \/ ReadStats \/ Observe \/ PersistAll(TRUE) \/ PersistEach(TRUE) \/ Sleep
             \/ \E c \in Clients : ClientEvent(c)
             \/ \E b \in Browsers : Refill(b)
    /\ UNCHANGED panelVars

\* The process ends anywhere and is started again.
Restart ==
    /\ Spend("panel") \/ Spend("stats")
    /\ PanelRestarts
    /\ \E path \in Paths : StatsRestart(conf'.days, path)

Next == PanelStep \/ StatsStep \/ Restart

\* The manager's rounds go on, bind and the threads' own steps end. The body of
\* a request may never come.
Fairness ==
    /\ WF_vars(Round /\ UNCHANGED <<statsVars, budget>>)
    /\ WF_vars(Spawn /\ UNCHANGED <<statsVars, budget>>)
    /\ \A l \in Listeners : WF_vars((Bind(l) \/ StopSeen(l)) /\ UNCHANGED <<statsVars, budget>>)

Spec == Init /\ [][Next]_vars /\ Fairness

\* A tunnel address that stays wanted and usable is served in the end, though
\* binds failed, came late or met a listener that was told to stop, unless its
\* listener ended by itself (start_web_server_tunnel, serve_listener).
ComesUp ==
    \A a \in Addrs :
        <>[](a \in wanted \cap usable) => []<>(~Free(a) \/ a \in died)
=============================================================================
