---------------------------- MODULE MCDashboard -----------------------------
EXTENDS Dashboard

\* Many changes of the tunnel; many requests; long runs of the statistics,
\* before the tunnel has addresses; a request among the statistics.
MCBudgets ==
    {[tunnel |-> 3, panel |-> 0, stats |-> 0, addrs |-> Addrs, auths |-> {NoCred},
      ways |-> {}],
     [tunnel |-> 0, panel |-> 3, stats |-> 0, addrs |-> Addrs, auths |-> {NoCred, "a"},
      ways |-> {"config"}],
     [tunnel |-> 0, panel |-> 0, stats |-> 6, addrs |-> {}, auths |-> {NoCred},
      ways |-> {}],
     [tunnel |-> 0, panel |-> 1, stats |-> 2, addrs |-> Addrs, auths |-> {NoCred},
      ways |-> Ways]}
=============================================================================
