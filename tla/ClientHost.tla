----------------------------- MODULE ClientHost ------------------------------
(***************************************************************************)
(* What a client process does to its host: the addresses, policy rules and *)
(* routes it installs when a handshake has been answered                   *)
(* (setup_policy_routing in src/net.rs, dial_and_serve step 6 in           *)
(* src/client.rs), the lifecycle hooks it runs (src/hooks.rs), and what it *)
(* takes back when it ends (on_exit_cleanup, LifecycleHooks::down).        *)
(*                                                                         *)
(* Every connection thread sets the host up again after each handshake,    *)
(* one at a time; each `ip` command is a step and may fail.  Which         *)
(* gateways exist is told by the answer, and may change from one answer to *)
(* the next.  Termination is asked for by a signal or by a hook that       *)
(* failed; a second signal ends the process on the spot.                   *)
(***************************************************************************)
EXTENDS Integers, Sequences, FiniteSets, SequencesExt

CONSTANTS
    Threads,     \* connection threads
    Mark,        \* fwmark > 0: rules and default routes in the table of the mark
    Extra,       \* families of extra_routes, in the table of the mark
    Source,      \* families of source_rules, each with a table of its own
    HookSets,    \* the hooks that may be configured: sets of "up" and "down"
    MaxAnswers,  \* bound: handshakes answered
    MaxFailures  \* bound: `ip` commands that fail for no reason of the model's

ASSUME ClientHostAssumption ==
    /\ Mark \in BOOLEAN
    /\ HookSets \subseteq SUBSET {"up", "down"}
    /\ Extra \subseteq {4, 6} /\ Source \subseteq {4, 6}
    /\ "nobody" \notin Threads

Families == {4, 6}
NoThread == "nobody"
Unset == {0}          \* no value in the OnceLock

VARIABLES
    thread,     \* connection threads: where each is, and the gateways it was told
    lock,       \* the holder of Client.network_setup
    job,        \* `ip` commands left to run, and what has failed so far
    kernel,     \* rules and routes installed
    prOk,       \* Client.pr_ok
    cleanup,    \* CLEANUP_INFO: the gateways of the spec it holds
    scripts,    \* the hooks that are configured
    hooks,      \* HookState
    fatal,      \* Client.fatal_error is set
    exit,       \* EXIT
    main,       \* the main thread
    answers, failures,
    last,       \* ghost: the gateways of the latest successful installation
    foreseen,   \* ghost: the kernel state when the cleanup began
    runs        \* ghost: how often each hook was run

processVars == <<thread, lock, job, kernel, prOk, cleanup, scripts, hooks, fatal, exit, main,
                 answers, failures, last, foreseen, runs>>

-----------------------------------------------------------------------------
(* Commands *)

Rule(f, t) == <<"rule", f, t>>
Route(f, t, p) == <<"route", f, t, p>>
TableOf(obj) == obj[3]
IsRule(obj) == obj[1] = "rule"
SourceTable(f) == IF f = 4 THEN "s4" ELSE "s6"

Cmd(op, obj) == [op |-> op, obj |-> obj]

\* An operator applied to the families of a set, in the order of the code.
Each(S, Op(_)) == (IF 4 \in S THEN Op(4) ELSE <<>>) \o (IF 6 \in S THEN Op(6) ELSE <<>>)

Enabled == Mark \/ Source # {}
Marked == IF Mark THEN Families ELSE {}

\* policy_routing_cmds: a source rule whose family has no gateway is an error.
Installable(gw) == Source \subseteq gw

Pre(gw) ==
    Each(Marked, LAMBDA f : <<Cmd("del", Rule(f, "mark"))>>)
    \o Each(Source, LAMBDA f : <<Cmd("del", Rule(f, SourceTable(f)))>>)

Install(gw) ==
    Each(Marked, LAMBDA f : <<Cmd("add", Rule(f, "mark"))>>)
    \o Each(Marked \cap gw, LAMBDA f : <<Cmd("replace", Route(f, "mark", "default"))>>)
    \o Each(Marked \cap Extra, LAMBDA f : <<Cmd("replace", Route(f, "mark", "extra"))>>)
    \o Each(Source, LAMBDA f : <<Cmd("add", Rule(f, SourceTable(f))),
                                 Cmd("replace", Route(f, SourceTable(f), "default")),
                                 Cmd("replace", Route(f, SourceTable(f), "extra"))>>)

\* Mutant of Clean: the routes go before the rules.
CleanRoutesFirst(gw) ==
    Each(Marked \cap Extra, LAMBDA f : <<Cmd("del", Route(f, "mark", "extra"))>>)
    \o Each(Marked \cap gw, LAMBDA f : <<Cmd("del", Route(f, "mark", "default"))>>)
    \o Each(Marked, LAMBDA f : <<Cmd("del", Rule(f, "mark"))>>)
    \o Each(Source, LAMBDA f : <<Cmd("del", Rule(f, SourceTable(f))),
                                 Cmd("del", Route(f, SourceTable(f), "extra")),
                                 Cmd("del", Route(f, SourceTable(f), "default"))>>)

\* clean_policy_routing_cmds: rules first, so that no rule points to a table
\* that is being emptied.
Clean(gw) ==
    Each(Marked, LAMBDA f : <<Cmd("del", Rule(f, "mark"))>>)
    \o Each(Marked \cap Extra, LAMBDA f : <<Cmd("del", Route(f, "mark", "extra"))>>)
    \o Each(Marked \cap gw, LAMBDA f : <<Cmd("del", Route(f, "mark", "default"))>>)
    \o Each(Source, LAMBDA f :
            <<Cmd("del", Rule(f, SourceTable(f))), Cmd("del", Route(f, SourceTable(f), "extra"))>>
            \o IF f \in gw THEN <<Cmd("del", Route(f, SourceTable(f), "default"))>> ELSE <<>>)

\* The kernel's answer to a command (external): a rule is not added twice, and
\* what is deleted must be there.
Succeeds(cmd) ==
    CASE cmd.op = "add"     -> cmd.obj \notin kernel
      [] cmd.op = "del"     -> cmd.obj \in kernel
      [] cmd.op = "replace" -> TRUE

Effect(cmd) == IF cmd.op = "del" THEN kernel \ {cmd.obj} ELSE kernel \cup {cmd.obj}

Demands(gw) == {Install(gw)[i].obj : i \in DOMAIN Install(gw)}

-----------------------------------------------------------------------------
Retrying == [pc |-> "retry", gw |-> {}]
NoJob == [cmds |-> <<>>, iface |-> FALSE, route |-> FALSE]

HostInit ==
    /\ thread = [t \in Threads |-> Retrying]
    /\ lock = NoThread /\ job = NoJob
    /\ kernel = {}
    /\ prOk = FALSE
    /\ cleanup = Unset
    /\ scripts \in HookSets
    /\ hooks = [active |-> FALSE, up |-> "unknown", down |-> "unknown"]
    /\ fatal = FALSE /\ exit = FALSE
    /\ main = "join"
    /\ answers = 0 /\ failures = 0
    /\ last = Unset /\ foreseen = {}
    /\ runs = [up |-> 0, down |-> 0]

Running == main \notin {"exited", "killed"}
ThreadAt(t, pc) == Running /\ thread[t].pc = pc
Goto(t, pc) == thread' = [thread EXCEPT ![t].pc = pc]
Return(t, pc) == thread' = [thread EXCEPT ![t] = [pc |-> pc, gw |-> {}]]

hostVars == <<kernel, prOk, cleanup, scripts, hooks, last, foreseen, runs>>
endVars == <<fatal, exit, main>>
bounds == <<answers, failures>>

(* A connection thread *)

\* dial_and_serve gets the answer to its handshake; the gateways are in it.
Answered(t, gw) ==
    /\ ThreadAt(t, "retry")
    /\ answers < MaxAnswers
    /\ answers' = answers + 1
    /\ thread' = [thread EXCEPT ![t] = [pc |-> "answered", gw |-> gw]]
    /\ UNCHANGED <<lock, job, hostVars, endVars, failures>>

\* The loop of conn_loop, and its backoff, end when EXIT is set.
LeaveLoop(t) ==
    /\ ThreadAt(t, "retry") /\ exit
    /\ Goto(t, "done")
    /\ UNCHANGED <<lock, job, hostVars, endVars, bounds>>

Fails(broken) ==
    /\ ~broken \/ failures < MaxFailures
    /\ failures' = IF broken THEN failures + 1 ELSE failures

\* The network_setup lock is taken, the addresses are set, and the commands of
\* the policy routing are made, or cannot be.
SetUpInterface(t, broken) ==
    LET gw == thread[t].gw IN
        /\ ThreadAt(t, "answered") /\ lock = NoThread
        /\ Fails(broken)
        /\ lock' = t
        /\ job' = [cmds |-> IF Installable(gw) THEN Pre(gw) \o Install(gw) ELSE <<>>,
                   iface |-> broken, route |-> ~Installable(gw)]
        /\ Goto(t, "install")
        /\ UNCHANGED <<hostVars, endVars, answers>>

\* One command of setup_policy_routing.  The outcome of the deletions of the
\* first phase is ignored.
RunIp(t, broken) ==
    LET cmd == Head(job.cmds)
        ok == ~broken /\ Succeeds(cmd)
    IN  /\ ThreadAt(t, "install") /\ job.cmds # <<>>
        /\ Fails(broken)
        /\ kernel' = IF ok THEN Effect(cmd) ELSE kernel
        /\ job' = [job EXCEPT !.cmds = Tail(@), !.route = @ \/ (cmd.op # "del" /\ ~ok)]
        /\ UNCHANGED <<thread, lock, prOk, cleanup, scripts, hooks, last, foreseen, runs, endVars, answers>>

\* CLEANUP_INFO.set: only the first value stays.
Remember(gw) == cleanup' = IF cleanup = Unset THEN gw ELSE cleanup

\* Mutant of ReportRouting: a failure leaves the earlier verdict.
ReportRoutingOnce(t) ==
    /\ prOk' = (prOk \/ ~job.route)
    /\ last' = IF job.route THEN last ELSE thread[t].gw

\* pr_ok and pr_err for the dashboard.
ReportRouting(t) ==
    /\ prOk' = ~job.route
    /\ last' = IF job.route THEN last ELSE thread[t].gw

\* Mutant of Abort: the network_setup lock stays taken.
AbortHolding(t) ==
    /\ fatal' = TRUE /\ exit' = TRUE
    /\ Return(t, "retry")
    /\ UNCHANGED lock

\* A readiness error or a failed hook: the thread returns, EXIT is set.
Abort(t) ==
    /\ fatal' = TRUE /\ exit' = TRUE
    /\ lock' = NoThread
    /\ Return(t, "retry")

\* The commands are done.  Without hooks the tunnel is used whatever failed;
\* with hooks a failure activates them, so that down is run, and is fatal.
SetUpDone(t) ==
    /\ ThreadAt(t, "install") /\ job.cmds = <<>>
    /\ ReportRouting(t)
    /\ Remember(thread[t].gw)
    /\ \/ /\ scripts = {}
          /\ lock' = NoThread /\ Return(t, "up")
          /\ UNCHANGED <<hooks, fatal, exit>>
       \/ /\ scripts # {}
          /\ job.iface \/ job.route
          /\ hooks' = [hooks EXCEPT !.active = TRUE]
          /\ Abort(t)
       \/ /\ scripts # {}
          /\ ~job.iface /\ ~job.route
          /\ Goto(t, "hook")
          /\ UNCHANGED <<lock, hooks, fatal, exit>>
    /\ job' = NoJob
    /\ UNCHANGED <<scripts, kernel, main, foreseen, runs, bounds>>

\* Mutant of UpResult: the outcome is not remembered.
UpResultForgotten(ok) ==
    /\ hooks' = [hooks EXCEPT !.active = TRUE]
    /\ runs' = [runs EXCEPT !.up = @ + 1]

\* LifecycleHooks::up: one run for the whole process, whose outcome every
\* later connection is given.  A hook that hangs is killed after 30 s.
UpResult(ok) ==
    /\ hooks' = [hooks EXCEPT !.active = TRUE,
                              !.up = IF @ # "unknown" THEN @
                                     ELSE IF "up" \in scripts /\ ~ok THEN "failed" ELSE "ok"]
    /\ runs' = IF hooks.up = "unknown" /\ "up" \in scripts THEN [runs EXCEPT !.up = @ + 1] ELSE runs

HookUp(t, ok) ==
    /\ ThreadAt(t, "hook")
    /\ UpResult(ok)
    /\ IF hooks'.up = "failed"
       THEN Abort(t)
       ELSE /\ Return(t, "up") /\ lock' = NoThread
            /\ UNCHANGED <<fatal, exit>>
    /\ UNCHANGED <<scripts, job, kernel, prOk, cleanup, last, foreseen, main, bounds>>

\* The serving loop ends, with the connection or with EXIT.
Closed(t) ==
    /\ ThreadAt(t, "up")
    /\ Goto(t, "retry")
    /\ UNCHANGED <<lock, job, hostVars, endVars, bounds>>

(* The main thread *)

\* Mutant of JoinAll: the cleanup does not wait for the threads.
JoinNone ==
    /\ main = "join" /\ exit
    /\ main' = "clean"
    /\ job' = [NoJob EXCEPT !.cmds = IF cleanup = Unset THEN <<>> ELSE Clean(cleanup)]
    /\ foreseen' = kernel
    /\ UNCHANGED <<thread, lock, kernel, prOk, cleanup, scripts, hooks, last, runs, fatal, exit, bounds>>

\* All connection threads are joined; on_exit_cleanup begins.
JoinAll ==
    /\ main = "join"
    /\ \A t \in Threads : thread[t].pc = "done"
    /\ main' = "clean"
    /\ job' = [NoJob EXCEPT !.cmds = IF cleanup = Unset THEN <<>> ELSE Clean(cleanup)]
    /\ foreseen' = kernel
    /\ UNCHANGED <<thread, lock, kernel, prOk, cleanup, scripts, hooks, last, runs, fatal, exit, bounds>>

\* One command of clean_policy_routing; failures are only logged.
CleanIp(broken) ==
    LET cmd == Head(job.cmds) IN
        /\ main = "clean" /\ job.cmds # <<>>
        /\ Fails(broken)
        /\ kernel' = IF ~broken /\ Succeeds(cmd) THEN Effect(cmd) ELSE kernel
        /\ job' = [job EXCEPT !.cmds = Tail(@)]
        /\ UNCHANGED <<thread, lock, prOk, cleanup, scripts, hooks, last, foreseen, runs, endVars, answers>>

\* LifecycleHooks::down, then the process ends.
HookDown(ok) ==
    LET run == hooks.active /\ "down" \in scripts IN
        /\ main = "clean" /\ job.cmds = <<>>
        /\ hooks' = [hooks EXCEPT !.down = IF run /\ ~ok THEN "failed" ELSE "ok"]
        /\ runs' = IF run THEN [runs EXCEPT !.down = @ + 1] ELSE runs
        /\ main' = "exited"
        /\ UNCHANGED <<thread, lock, job, kernel, prOk, cleanup, scripts, last, foreseen, fatal, exit, bounds>>

\* The signal handler: EXIT, and a second time the end of the process.
Signal ==
    /\ Running
    /\ exit' = TRUE
    /\ main' = IF exit THEN "killed" ELSE main
    /\ UNCHANGED <<thread, lock, job, hostVars, fatal, bounds>>

ThreadStep(t) ==
    \/ \E gw \in SUBSET Families : Answered(t, gw)
    \/ LeaveLoop(t) \/ SetUpDone(t) \/ Closed(t)
    \/ \E b \in BOOLEAN : SetUpInterface(t, b) \/ RunIp(t, b) \/ HookUp(t, b)

MainStep == JoinAll \/ \E b \in BOOLEAN : CleanIp(b) \/ HookDown(b)

HostNext == (\E t \in Threads : ThreadStep(t)) \/ MainStep \/ Signal

\* Threads are scheduled and every command and hook ends.  The lock is handed
\* to a waiting thread in the end (parking_lot mutexes are fair over time).
HostFairness ==
    /\ \A t \in Threads :
        /\ WF_processVars(LeaveLoop(t) \/ SetUpDone(t) \/ Closed(t)
                          \/ \E b \in BOOLEAN : RunIp(t, b) \/ HookUp(t, b))
        /\ SF_processVars(\E b \in BOOLEAN : SetUpInterface(t, b))
    /\ WF_processVars(MainStep)

HostSpec == HostInit /\ [][HostNext]_processVars /\ HostFairness

-----------------------------------------------------------------------------
Undisturbed == failures = 0

\* A process that ends by itself has taken back every rule and route it
\* installed, whichever thread was where when the end was asked for; only a
\* default route of a family the first answer had no gateway for is left. And
\* while the cleanup runs no rule that is still installed points to a table
\* from which a route has gone (start_client, clean_policy_routing_cmds).
CleansUp ==
    Undisturbed =>
        /\ main = "exited" =>
               kernel \subseteq {Route(f, t, "default") : f \in Families \ cleanup,
                                                         t \in {"mark", "s4", "s6"}}
        /\ main = "clean" => \A r \in kernel : IsRule(r) =>
               {o \in foreseen : TableOf(o) = TableOf(r) /\ ~IsRule(o)} \subseteq kernel

\* What the comment on CLEANUP_INFO promises: the parameters of the latest
\* installation are cleaned up, so nothing is left at all.
NothingLeftAtAll == main = "exited" /\ Undisturbed => kernel = {}

\* What the dashboard says of the policy routing is so: between two set-ups,
\* "ok" means that every rule and route is in the kernel.
RoutingReportTrue ==
    prOk /\ lock = NoThread /\ main = "join" => Demands(last) \subseteq kernel

\* The up hook runs on a finished network, and neither hook runs twice; down
\* runs only after every thread is gone.
HooksInOrder ==
    /\ runs.up <= 1 /\ runs.down <= 1
    /\ \A t \in Threads : thread[t].pc = "hook" => Demands(thread[t].gw) \subseteq kernel
    /\ runs.up = 1 /\ main = "exited" /\ "down" \in scripts => runs.down = 1
    /\ main # "join" => \A t \in Threads : thread[t].pc = "done" \/ main = "killed"

\* Once the end is asked for it comes.
Ends == exit ~> ~Running
=============================================================================
