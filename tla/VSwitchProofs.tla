--------------------------- MODULE VSwitchProofs ----------------------------
(***************************************************************************)
(* The virtual switch, for any number of clients, addresses, threads and   *)
(* sessions: a session's MAC stays pinned, nothing is written to a port    *)
(* after its removal, and floods stay in their budget.                     *)
(***************************************************************************)
EXTENDS VSwitch, SequenceTheorems, TLAPS

\* Where a thread is that holds nothing another step depends on.
Quiet == {"idle", "validate", "forward", "fallback", "flood"}
Creating == {"resolve", "pin"}
Removal == {"unport", "unbudget", "unmac"}

\* An object whose handshake has given the sessions lock back.
Settled(o) == o \in Objs /\ o <= created /\ (lock # None => o < created)

\* Whoever refers to a port object refers to one of his own.
Ownership ==
    /\ \A p \in Clients : ports[p] # None => ports[p] \in 1..created /\ owner[ports[p]] = p
    /\ \A m \in Macs : mac[m].obj \in Objs => mac[m].obj <= created
                                              /\ owner[mac[m].obj] = mac[m].id
    /\ \A c \in Clients : sessions[c] # None => Settled(sessions[c]) /\ owner[sessions[c]] = c

\* A handshake holds the lock, and only a removal that was already running can
\* take its port away.
Creation ==
    \A t \in Everyone : thr[t].pc \in Creating =>
        /\ lock = t /\ t \in Threads /\ thr[t].id \in Clients
        /\ created \in Objs /\ owner[created] = thr[t].id
        /\ ports[thr[t].id] \in {created, None}
        /\ thr[t].pc = "pin" => thr[t].obj \in {created, None}
        /\ created \notin raced =>
              /\ ports[thr[t].id] = created
              /\ thr[t].pc = "pin" => thr[t].obj = created
              /\ Removing(thr[t].id) = {}

\* A removal is for a finished object, whose port entry goes first.
Removals ==
    \A t \in Everyone : thr[t].pc \in Removal =>
        /\ t \in Threads /\ thr[t].id \in Clients
        /\ Settled(thr[t].obj) /\ owner[thr[t].obj] = thr[t].id
        /\ thr[t].pc # "unport" => ports[thr[t].id] # thr[t].obj

\* Nobody refers to a port whose removal is over.
Detached ==
    /\ \A o \in detached : Settled(o)
    /\ \A p \in Ids : ports[p] \notin detached
    /\ \A m \in Macs : mac[m].obj \notin detached
    /\ thr[Reader].pc = "learn" => thr[Reader].obj = TapObj
    /\ late = {}

Pinned ==
    \A c \in Clients : sessions[c] # None /\ sessions[c] \notin raced =>
        /\ ports[c] = sessions[c] /\ mac[MacOf[c]] = Entry("static", c, sessions[c])
        /\ Removing(c) = {}

PortInv == Ownership /\ Creation /\ Removals /\ Detached /\ Pinned

\* Tokens at hand and owed, and those spent, are what was granted so far.
FloodInv ==
    \A c \in Clients : budget[c].open =>
        budget[c].tokens + budget[c].owed + admitted[c].n <= Burst + ticks - admitted[c].from

-----------------------------------------------------------------------------
(* Types *)

LEMMA IdleType == Idle \in Threading
BY DEF Idle, Threading, Ids, Dests

\* Whatever of its frames a thread has served, the rest are frames.
LEMMA AfterType ==
    ASSUME NEW th \in Threading, NEW n \in Nat
    PROVE  After(th, n) \in Threading /\ After(th, n).pc \in {"idle", "forward"}
<1>1. th.todo \in Seq(Dests) /\ Len(th.todo) \in Nat BY DEF Threading
<1>2. CASE Len(th.todo) <= n BY <1>1, <1>2, IdleType DEF After, Idle
<1>3. CASE Len(th.todo) > n
  <2>1. SubSeq(th.todo, n + 1, Len(th.todo)) \in Seq(Dests)
    <3>1. \A i \in n + 1..Len(th.todo) : th.todo[i] \in Dests BY <1>1
    <3> QED BY <1>1, <3>1, SubSeqProperties
  <2>2. After(th, n) = [th EXCEPT !.pc = "forward", !.left = {},
                                  !.todo = SubSeq(th.todo, n + 1, Len(th.todo))]
    BY <1>1, <1>3 DEF After
  <2>3. \A q \in Seq(Dests) : /\ [th EXCEPT !.pc = "forward", !.left = {}, !.todo = q] \in Threading
                              /\ [th EXCEPT !.pc = "forward", !.left = {}, !.todo = q].pc = "forward"
    BY DEF Threading
  <2> QED BY <2>1, <2>2, <2>3
<1> QED BY <1>1, <1>2, <1>3

LEMMA NextFrameType ==
    ASSUME NEW t \in Everyone, TypeOK, NextFrame(t)
    PROVE  thr' \in [Everyone -> Threading] /\ thr'[t].pc \in {"idle", "forward"}
BY AfterType DEF TypeOK, NextFrame

LEMMA RunLengthType == ASSUME NEW t \in Everyone, NEW n \in RunLength(t) PROVE n \in Nat
BY DEF RunLength

LEMMA TypeInit == Init => TypeOK
BY VSwitchAssumption, IdleType DEF Init, TypeOK, None, TapObj, Objs, Ids, NoEntry, Entry, NoBudget

\* allow_flood keeps a budget between nothing and a full bucket.
LEMMA AllowFloodType ==
    ASSUME NEW c \in Clients, NEW ok \in BOOLEAN, TypeOK, AllowFlood(c, ok)
    PROVE  /\ budget' \in [Clients -> [open : BOOLEAN, tokens : 0..Burst, owed : Nat]]
           /\ admitted' \in [Clients -> [n : Nat, from : 0..MaxTicks]]
<1> USE VSwitchAssumption
<1>a. /\ budget \in [Clients -> [open : BOOLEAN, tokens : 0..Burst, owed : Nat]]
      /\ admitted \in [Clients -> [n : Nat, from : 0..MaxTicks]] /\ ticks \in 0..MaxTicks
  BY DEF TypeOK
<1>1. CASE ~budget[c].open
  <2>1. /\ budget' = [budget EXCEPT ![c] = [open |-> TRUE, tokens |-> Burst - 1, owed |-> 0]]
        /\ admitted' = [admitted EXCEPT ![c] = [n |-> 1, from |-> ticks]]
    BY <1>1 DEF AllowFlood
  <2>2. Burst - 1 \in 0..Burst OBVIOUS
  <2> QED BY <1>a, <2>1, <2>2
<1>2. CASE budget[c].open
  <2> DEFINE n == Refilled(budget[c])
  <2>1. n \in 0..Burst BY <1>a DEF Refilled
  <2>2. /\ ok = (n >= 1)
        /\ budget' = [budget EXCEPT ![c] = [open |-> TRUE, owed |-> 0,
                                            tokens |-> IF ok THEN n - 1 ELSE n]]
        /\ admitted' = [admitted EXCEPT ![c].n = IF ok THEN @ + 1 ELSE @]
    BY <1>2 DEF AllowFlood
  <2> HIDE DEF n
  <2>3. CASE ok
    <3>0. n >= 1 BY <2>2, <2>3, Zenon
    <3>1. n - 1 \in 0..Burst BY <2>1, <3>0
    <3>2. budget' = [budget EXCEPT ![c] = [open |-> TRUE, owed |-> 0, tokens |-> n - 1]]
      BY <2>2, <2>3, Zenon
    <3>3. admitted' = [admitted EXCEPT ![c].n = @ + 1] BY <2>2, <2>3, Zenon
    <3>4. budget' \in [Clients -> [open : BOOLEAN, tokens : 0..Burst, owed : Nat]]
      BY <1>a, <3>1, <3>2
    <3>5. admitted' \in [Clients -> [n : Nat, from : 0..MaxTicks]] BY <1>a, <3>3
    <3> QED BY <3>4, <3>5
  <2>4. CASE ~ok
    <3>1. budget' = [budget EXCEPT ![c] = [open |-> TRUE, owed |-> 0, tokens |-> n]]
      BY <2>2, <2>4, Zenon
    <3>2. admitted' = [admitted EXCEPT ![c].n = @] BY <2>2, <2>4, Zenon
    <3>3. budget' \in [Clients -> [open : BOOLEAN, tokens : 0..Burst, owed : Nat]]
      BY <1>a, <2>1, <3>1
    <3>4. admitted' \in [Clients -> [n : Nat, from : 0..MaxTicks]] BY <1>a, <3>2
    <3> QED BY <3>3, <3>4
  <2> QED BY <2>3, <2>4
<1> QED BY <1>1, <1>2

LEMMA TypeNext == TypeOK /\ Creation /\ Removals /\ [Next]_vars => TypeOK'
<1> SUFFICES ASSUME TypeOK, Creation, Removals, [Next]_vars PROVE TypeOK'
  OBVIOUS
<1> USE VSwitchAssumption
<1>a. \A t \in Everyone : thr[t] \in Threading BY DEF TypeOK
<1>b. Workers \subseteq Everyone /\ Threads \subseteq Everyone /\ Reader \in Everyone
  BY DEF Everyone, Threads
<1>c. thr \in [Everyone -> Threading] BY DEF TypeOK
<1>1. ASSUME NEW t \in Workers, NEW c \in Clients, AddPort(t, c) PROVE TypeOK'
  <2>1. created' \in Objs BY <1>1 DEF AddPort, TypeOK, Objs
  <2>2. [Idle EXCEPT !.pc = "resolve", !.id = c] \in Threading
    BY IdleType DEF Threading, Ids
  <2>3. thr' \in [Everyone -> Threading]
    BY <1>1, <2>2 DEF AddPort, TypeOK, Everyone, Threads
  <2>4. owner' \in [Objs -> Ids] /\ raced' \subseteq Objs /\ created' \in 0..MaxObj
    BY <1>1, <2>1 DEF AddPort, TypeOK, Ids, Objs
  <2>5. ports' \in [Ids -> Objs \cup {TapObj, None}] /\ ports'[Tap] = TapObj
    BY <1>1, <2>1 DEF AddPort, TypeOK, Ids
  <2> QED BY <1>1, <2>3, <2>4, <2>5 DEF AddPort, TypeOK, Threads
<1>2. ASSUME NEW t \in Workers, ResolvePort(t) PROVE TypeOK'
  <2>1. t \in Everyone /\ thr[t] \in Threading BY DEF TypeOK, Everyone, Threads
  <2>2. ports[thr[t].id] \in Objs \cup {TapObj, None} BY <2>1 DEF TypeOK, Threading
  <2>3. thr' \in [Everyone -> Threading]
    BY <1>2, <2>1, <2>2 DEF ResolvePort, TypeOK, Threading
  <2> QED BY <1>2, <2>3 DEF ResolvePort, TypeOK
<1>3. ASSUME NEW t \in Workers, AddStaticMac(t) PROVE TypeOK'
  <2>1. t \in Everyone /\ thr[t] \in Threading BY <1>a, <1>b
  <2>2. created \in Objs BY <1>3, <2>1 DEF AddStaticMac, At, Creation, Creating
  <2>3. thr' \in [Everyone -> Threading]
    BY <1>3, IdleType DEF AddStaticMac, Done, TypeOK
  <2>4. sessions' \in [Clients -> Objs \cup {None}] BY <1>3, <2>2 DEF AddStaticMac, TypeOK
  <2>5. Entry("static", thr[t].id, thr[t].obj) \in
          [kind : {"none", "dynamic", "static"}, id : Ids, obj : Objs \cup {TapObj, None}]
    BY <2>1 DEF Entry, Threading
  <2> QED BY <1>3, <2>3, <2>4, <2>5 DEF AddStaticMac, TypeOK
<1>4. ASSUME NEW t \in Workers, NEW o \in Objs, SessionFrames(t, o) PROVE TypeOK'
  <2>1. PICK s \in Macs, n \in 1..MaxRun : \E todo \in [1..n -> Dests] :
          thr' = IF s # MacOf[owner[o]] THEN thr
                 ELSE [thr EXCEPT ![t] = [Idle EXCEPT !.pc = "forward", !.id = owner[o],
                                                      !.todo = todo]]
    BY <1>4 DEF SessionFrames
  <2>2. PICK todo \in [1..n -> Dests] :
          thr' = IF s # MacOf[owner[o]] THEN thr
                 ELSE [thr EXCEPT ![t] = [Idle EXCEPT !.pc = "forward", !.id = owner[o],
                                                      !.todo = todo]]
    BY <2>1
  <2>3. todo \in Seq(Dests) OBVIOUS
  <2>4. [Idle EXCEPT !.pc = "forward", !.id = owner[o], !.todo = todo] \in Threading
    BY <2>3, IdleType DEF Threading, TypeOK
  <2>5. thr' \in [Everyone -> Threading] BY <2>2, <2>4, <1>b DEF TypeOK
  <2> QED BY <1>4, <2>5 DEF SessionFrames, TypeOK
<1>5. ASSUME NEW t \in Threads, NEW c \in Clients, DestroySession(t, c) PROVE TypeOK'
  <2>1. [Idle EXCEPT !.pc = "unport", !.id = c, !.obj = sessions[c]] \in Threading
    BY IdleType DEF Threading, Ids, TypeOK
  <2>2. thr' \in [Everyone -> Threading] BY <1>5, <2>1, <1>b DEF DestroySession, TypeOK
  <2> QED BY <1>5, <2>2 DEF DestroySession, TypeOK
<1>6. ASSUME NEW t \in Threads, RemovePort(t) PROVE TypeOK'
  <2>1. thr[t].id # Tap BY <1>6, <1>b DEF RemovePort, At, Removals, Removal
  <2>2. [thr[t] EXCEPT !.pc = "unbudget"] \in Threading BY <1>a, <1>b DEF Threading
  <2>3. thr' \in [Everyone -> Threading] BY <1>6, <1>c, <2>2 DEF RemovePort, Goto
  <2>4. ports' \in [Ids -> Objs \cup {TapObj, None}] /\ ports'[Tap] = TapObj
    BY <1>6, <2>1 DEF RemovePort, TypeOK, Ids
  <2> QED BY <1>6, <2>3, <2>4 DEF RemovePort, TypeOK
<1>7. ASSUME NEW t \in Threads, RemoveBudget(t) PROVE TypeOK'
  <2>1. [thr[t] EXCEPT !.pc = "unmac"] \in Threading BY <1>a, <1>b DEF Threading
  <2>2. thr' \in [Everyone -> Threading] BY <1>7, <1>c, <2>1 DEF RemoveBudget, Goto
  <2>3. NoBudget \in [open : BOOLEAN, tokens : 0..Burst, owed : Nat] BY DEF NoBudget
  <2>4. [n |-> 0, from |-> ticks] \in [n : Nat, from : 0..MaxTicks] BY DEF TypeOK
  <2> QED BY <1>7, <2>2, <2>3, <2>4 DEF RemoveBudget, TypeOK
<1>8. ASSUME NEW t \in Threads, RemoveMacs(t) PROVE TypeOK'
  <2>1. thr[t].obj \in Objs BY <1>8, <1>b DEF RemoveMacs, At, Removals, Removal, Settled
  <2>2. thr' \in [Everyone -> Threading] BY <1>8, IdleType DEF RemoveMacs, Done, TypeOK
  <2>3. NoEntry \in [kind : {"none", "dynamic", "static"}, id : Ids, obj : Objs \cup {TapObj, None}]
    BY DEF NoEntry, Entry, Ids
  <2> QED BY <1>8, <2>1, <2>2, <2>3 DEF RemoveMacs, TypeOK
<1>9. ASSUME NEW s \in Macs, NEW d \in Dests, NEW aged \in BOOLEAN, TapFrame(s, d, aged)
      PROVE  TypeOK'
  <2>1. \A pc \in {"validate", "forward"}, src \in Dests :
          [Idle EXCEPT !.pc = pc, !.src = src, !.todo = <<d>>] \in Threading
    <3>1. <<d>> \in Seq(Dests) OBVIOUS
    <3> QED BY <3>1, IdleType DEF Threading
  <2>2. thr' \in [Everyone -> Threading]
    <3> DEFINE need == \/ mac[s].kind = "none"
                       \/ mac[s].kind = "dynamic" /\ (mac[s].id # Tap \/ aged)
    <3>1. (IF need THEN s ELSE Bcast) \in Dests BY DEF Dests
    <3>2. (IF need THEN "validate" ELSE "forward") \in {"validate", "forward"} OBVIOUS
    <3>3. thr' = [thr EXCEPT ![Reader] = [Idle EXCEPT !.pc = IF need THEN "validate" ELSE "forward",
                                                      !.src = IF need THEN s ELSE Bcast,
                                                      !.todo = <<d>>]]
      BY <1>9 DEF TapFrame
    <3> HIDE DEF need
    <3> QED BY <2>1, <3>1, <3>2, <3>3, <1>b DEF TypeOK
  <2> QED BY <1>9, <2>2 DEF TapFrame, TypeOK
<1>10. ASSUME ValidateMac PROVE TypeOK'
  <2>1. ports[Tap] \in Objs \cup {TapObj, None} BY DEF TypeOK
  <2>2. [thr[Reader] EXCEPT !.pc = "learn", !.obj = ports[Tap]] \in Threading
    BY <2>1, <1>a, <1>b DEF Threading
  <2>3. thr' \in [Everyone -> Threading] BY <1>10, <1>b, <1>c, <2>2 DEF ValidateMac
  <2> QED BY <1>10, <2>3 DEF ValidateMac, TypeOK
<1>11. ASSUME Learn PROVE TypeOK'
  <2>0. [thr[Reader] EXCEPT !.pc = "forward", !.src = Bcast] \in Threading
    BY <1>a, <1>b DEF Threading, Dests
  <2>1. thr' \in [Everyone -> Threading] BY <1>11, <1>b, <1>c, <2>0 DEF Learn
  <2>2. Entry("dynamic", Tap, thr[Reader].obj) \in
          [kind : {"none", "dynamic", "static"}, id : Ids, obj : Objs \cup {TapObj, None}]
    BY <1>a, <1>b DEF Entry, Threading, Ids
  <2> QED BY <1>11, <2>1, <2>2 DEF Learn, TypeOK
<1>12. ASSUME NEW m \in Macs, Expire(m) PROVE TypeOK'
  BY <1>12 DEF Expire, TypeOK, NoEntry, Entry, Ids
<1>13. ASSUME NEW t \in Everyone, Unicast(t) PROVE TypeOK'
  <2>1. thr' \in [Everyone -> Threading]
    BY <1>13, <1>a, AfterType, RunLengthType DEF Unicast, TypeOK
  <2>2. late' \subseteq Objs \cup {TapObj} BY <1>13 DEF Unicast, Write, TypeOK
  <2> QED BY <1>13, <2>1, <2>2 DEF Unicast, TypeOK
<1>14. ASSUME NEW t \in Everyone, Hairpin(t) PROVE TypeOK'
  BY <1>14, NextFrameType DEF Hairpin, TypeOK
<1>15. ASSUME NEW t \in Everyone, Uncached(t) PROVE TypeOK'
  <2>1. mac[Head(thr[t].todo)].id \in Ids
    <3>1. Head(thr[t].todo) \in Macs BY <1>15 DEF Uncached, Hit
    <3> QED BY <3>1 DEF TypeOK
  <2>2. [thr[t] EXCEPT !.pc = "fallback", !.left = {mac[Head(thr[t].todo)].id}] \in Threading
    BY <1>a, <2>1 DEF Threading
  <2>3. thr' \in [Everyone -> Threading] BY <1>15, <1>c, <2>2 DEF Uncached
  <2> QED BY <1>15, <2>3 DEF Uncached, TypeOK
<1>16. ASSUME NEW t \in Everyone, Fallback(t) PROVE TypeOK'
  <2>1. late' \subseteq Objs \cup {TapObj} BY <1>16 DEF Fallback, Write, TypeOK
  <2> QED BY <1>16, <2>1, NextFrameType DEF Fallback, TypeOK
<1>17. ASSUME NEW t \in Everyone, FloodStart(t) PROVE TypeOK'
  <2>1. thr' \in [Everyone -> Threading]
    <3>1. \A left \in SUBSET Ids : [thr[t] EXCEPT !.pc = "flood", !.left = left] \in Threading
      BY <1>a DEF Threading
    <3>2. Clients \in SUBSET Ids /\ Ids \ {thr[t].id} \in SUBSET Ids BY DEF Ids
    <3> QED BY <1>17, <1>c, <3>1, <3>2, NextFrameType DEF FloodStart
  <2>2. thr[t].id # Tap => thr[t].id \in Clients BY <1>a DEF Threading, Ids
  <2>3. /\ budget' \in [Clients -> [open : BOOLEAN, tokens : 0..Burst, owed : Nat]]
        /\ admitted' \in [Clients -> [n : Nat, from : 0..MaxTicks]]
    BY <1>17, <2>2, AllowFloodType DEF FloodStart, TypeOK
  <2> QED BY <1>17, <2>1, <2>3 DEF FloodStart, TypeOK
<1>18. ASSUME NEW t \in Everyone, NEW p \in Ids, FloodPort(t, p) PROVE TypeOK'
  <2>1. thr' \in [Everyone -> Threading]
    <3>1. [thr[t] EXCEPT !.left = @ \ {p}] \in Threading BY <1>a DEF Threading
    <3> QED BY <1>18, <1>c, <3>1, NextFrameType DEF FloodPort
  <2>2. late' \subseteq Objs \cup {TapObj} BY <1>18 DEF FloodPort, Write, TypeOK
  <2> QED BY <1>18, <2>1, <2>2 DEF FloodPort, TypeOK
<1>19. ASSUME Tick PROVE TypeOK'
  <2>1. ticks' \in 0..MaxTicks BY <1>19 DEF Tick, TypeOK
  <2>2. ASSUME NEW c \in Clients
        PROVE  [budget[c] EXCEPT !.owed = @ + 1] \in [open : BOOLEAN, tokens : 0..Burst, owed : Nat]
    <3>1. budget[c] \in [open : BOOLEAN, tokens : 0..Burst, owed : Nat] BY DEF TypeOK
    <3> QED BY <3>1
  <2>3. budget' \in [Clients -> [open : BOOLEAN, tokens : 0..Burst, owed : Nat]]
    BY <1>19, <2>2 DEF Tick, TypeOK
  <2> QED BY <1>19, <2>1, <2>3 DEF Tick, TypeOK
<1>20. CASE UNCHANGED vars BY <1>20 DEF vars, TypeOK
<1> QED
  <2>1. ASSUME NEW t \in Workers, Admit(t) PROVE TypeOK'
    BY <2>1, <1>1, <1>2, <1>3, <1>4 DEF Admit
  <2>2. ASSUME NEW t \in Threads, Destroy(t) PROVE TypeOK'
    BY <2>2, <1>5, <1>6, <1>7, <1>8 DEF Destroy
  <2>3. ASSUME NEW t \in Everyone, Serve(t) PROVE TypeOK'
    BY <2>3, <1>13, <1>14, <1>15, <1>16, <1>17, <1>18 DEF Serve
  <2> QED BY <2>1, <2>2, <2>3, <1>9, <1>10, <1>11, <1>12, <1>19, <1>20 DEF Next

-----------------------------------------------------------------------------
(* Flood budgets *)

\* allow_flood spends what it admits, and a refill never exceeds what is owed.
LEMMA AllowFloodHeld ==
    ASSUME NEW c \in Clients, NEW ok \in BOOLEAN, TypeOK, FloodInv, AllowFlood(c, ok),
           ticks' = ticks
    PROVE  FloodInv'
<1> USE VSwitchAssumption
<1>a. /\ budget \in [Clients -> [open : BOOLEAN, tokens : 0..Burst, owed : Nat]]
      /\ admitted \in [Clients -> [n : Nat, from : 0..MaxTicks]] /\ ticks \in 0..MaxTicks
  BY DEF TypeOK
<1>1. CASE ~budget[c].open
  <2>1. /\ budget' = [budget EXCEPT ![c] = [open |-> TRUE, tokens |-> Burst - 1, owed |-> 0]]
        /\ admitted' = [admitted EXCEPT ![c] = [n |-> 1, from |-> ticks]]
    BY <1>1 DEF AllowFlood
  <2> QED BY <1>a, <2>1 DEF FloodInv
<1>2. CASE budget[c].open
  <2> DEFINE n == Refilled(budget[c])
  <2>1. n \in 0..Burst /\ n <= budget[c].tokens + budget[c].owed BY <1>a DEF Refilled
  <2>2. /\ ok = (n >= 1)
        /\ budget' = [budget EXCEPT ![c] = [open |-> TRUE, owed |-> 0,
                                            tokens |-> IF ok THEN n - 1 ELSE n]]
        /\ admitted' = [admitted EXCEPT ![c].n = IF ok THEN @ + 1 ELSE @]
    BY <1>2 DEF AllowFlood
  <2> HIDE DEF n
  <2>3. CASE ok
    <3>1. budget' = [budget EXCEPT ![c] = [open |-> TRUE, owed |-> 0, tokens |-> n - 1]]
      BY <2>2, <2>3, Zenon
    <3>2. admitted' = [admitted EXCEPT ![c].n = @ + 1] BY <2>2, <2>3, Zenon
    <3> QED BY <1>a, <1>2, <2>1, <3>1, <3>2 DEF FloodInv
  <2>4. CASE ~ok
    <3>1. budget' = [budget EXCEPT ![c] = [open |-> TRUE, owed |-> 0, tokens |-> n]]
      BY <2>2, <2>4, Zenon
    <3>2. admitted' = [admitted EXCEPT ![c].n = @] BY <2>2, <2>4, Zenon
    <3> QED BY <1>a, <1>2, <2>1, <3>1, <3>2 DEF FloodInv
  <2> QED BY <2>3, <2>4
<1> QED BY <1>1, <1>2

LEMMA FloodNext == TypeOK /\ FloodInv /\ [Next]_vars => FloodInv'
<1> SUFFICES ASSUME TypeOK, FloodInv, [Next]_vars PROVE FloodInv'
  OBVIOUS
<1> USE VSwitchAssumption
<1>a. /\ budget \in [Clients -> [open : BOOLEAN, tokens : 0..Burst, owed : Nat]]
      /\ admitted \in [Clients -> [n : Nat, from : 0..MaxTicks]] /\ ticks \in 0..MaxTicks
  BY DEF TypeOK
<1>1. CASE UNCHANGED <<budget, admitted, ticks>> BY <1>1 DEF FloodInv
<1>2. ASSUME NEW t \in Threads, RemoveBudget(t) PROVE FloodInv'
  <2>1. /\ budget' = [budget EXCEPT ![thr[t].id] = NoBudget]
        /\ admitted' = [admitted EXCEPT ![thr[t].id] = [n |-> 0, from |-> ticks]]
        /\ ticks' = ticks
    BY <1>2 DEF RemoveBudget
  <2> QED BY <1>a, <2>1 DEF FloodInv, NoBudget
<1>3. ASSUME NEW t \in Everyone, FloodStart(t) PROVE FloodInv'
  <2>1. thr[t].id # Tap => thr[t].id \in Clients BY DEF TypeOK, Threading, Ids
  <2>2. ticks' = ticks BY <1>3 DEF FloodStart
  <2> QED BY <1>1, <1>3, <2>1, <2>2, AllowFloodHeld DEF FloodStart
<1>4. ASSUME Tick PROVE FloodInv'
  <2>1. /\ budget' = [c \in Clients |-> IF budget[c].open
                                        THEN [budget[c] EXCEPT !.owed = @ + 1] ELSE budget[c]]
        /\ ticks' = ticks + 1 /\ admitted' = admitted
    BY <1>4 DEF Tick
  <2> QED BY <1>a, <2>1 DEF FloodInv
<1>5. ASSUME NEW t \in Workers, Admit(t) PROVE UNCHANGED <<budget, admitted, ticks>>
  BY <1>5 DEF Admit, AddPort, ResolvePort, AddStaticMac, SessionFrames
<1>6. ASSUME NEW t \in Threads, Destroy(t), ~RemoveBudget(t)
      PROVE  UNCHANGED <<budget, admitted, ticks>>
  BY <1>6 DEF Destroy, DestroySession, RemovePort, RemoveMacs
<1>7. ASSUME NEW t \in Everyone, Serve(t), ~FloodStart(t)
      PROVE  UNCHANGED <<budget, admitted, ticks>>
  BY <1>7 DEF Serve, Unicast, Hairpin, Uncached, Fallback, FloodPort
<1>8. CASE \/ \E s \in Macs, d \in Dests, aged \in BOOLEAN : TapFrame(s, d, aged)
           \/ ValidateMac \/ Learn \/ \E m \in Macs : Expire(m)
  BY <1>8, <1>1 DEF TapFrame, ValidateMac, Learn, Expire
<1>9. CASE UNCHANGED vars BY <1>9, <1>1 DEF vars
<1> QED BY <1>1, <1>2, <1>3, <1>4, <1>5, <1>6, <1>7, <1>8, <1>9 DEF Next

-----------------------------------------------------------------------------
(* Ports and the MAC table *)

LEMMA PortInit == Init => PortInv /\ FloodInv
<1> SUFFICES ASSUME Init PROVE PortInv /\ FloodInv
  OBVIOUS
<1> USE VSwitchAssumption
<1>1. \A t \in Everyone : thr[t].pc = "idle" BY DEF Init, Idle
<1>2. Reader \in Everyone BY DEF Everyone
<1>3. Ownership BY DEF Init, Ownership, Ids, NoEntry, Entry, None, Objs
<1>4. Creation BY <1>1 DEF Creation, Creating
<1>5. Removals BY <1>1 DEF Removals, Removal
<1>6. Detached BY <1>1, <1>2 DEF Init, Detached
<1>7. Pinned BY DEF Init, Pinned
<1>8. FloodInv BY DEF Init, FloodInv, NoBudget
<1> QED BY <1>3, <1>4, <1>5, <1>6, <1>7, <1>8 DEF PortInv

\* While nobody holds the sessions lock, no handshake is between its steps.
LEMMA NobodyCreates ==
    ASSUME Creation, lock = None
    PROVE  \A t \in Everyone : thr[t].pc \notin Creating
BY VSwitchAssumption DEF Creation, None, Threads

\* Who is removing c's port only depends on the threads that remove.
LEMMA RemovingSame ==
    ASSUME NEW t, \A u \in Everyone \ {t} : thr'[u] = thr[u],
           NEW c, (thr[t].pc \in Removal /\ thr[t].id = c)
                    <=> (thr'[t].pc \in Removal /\ thr'[t].id = c)
    PROVE  Removing(c)' = Removing(c)
BY DEF Removing, Removal, Everyone

\* A step of a thread that neither creates nor removes, which leaves ports and
\* table alone, changes nothing the invariant speaks of.
LEMMA QuietStep ==
    ASSUME PortInv, NEW t \in Everyone,
           UNCHANGED <<sessions, lock, ports, mac, created, owner, detached, late, raced>>,
           thr[t].pc \in Quiet, thr'[t].pc \in Quiet,
           \A u \in Everyone \ {t} : thr'[u] = thr[u]
    PROVE  PortInv'
<1>1. \A u \in Everyone : thr'[u].pc \notin Quiet => thr'[u] = thr[u]
  OBVIOUS
<1>2. \A c : Removing(c)' = Removing(c)
  BY RemovingSame DEF Quiet, Removal
<1>3. Ownership' BY DEF PortInv, Ownership, Settled
<1>4. Creation' BY <1>1, <1>2 DEF PortInv, Creation, Creating, Quiet
<1>5. Removals' BY <1>1 DEF PortInv, Removals, Removal, Quiet, Settled
<1>6. Detached'
  <2>1. thr'[Reader].pc = "learn" => thr'[Reader] = thr[Reader]
    BY <1>1 DEF Quiet, Everyone
  <2> QED BY <2>1 DEF PortInv, Detached, Settled
<1>7. Pinned' BY <1>2 DEF PortInv, Pinned
<1> QED BY <1>3, <1>4, <1>5, <1>6, <1>7 DEF PortInv

\* No frame is written to a port whose removal is over, because nobody can
\* find such a port any more.
LEMMA WriteAttached ==
    ASSUME TypeOK, Detached, NEW t \in Everyone, NEW p \in Ids
    PROVE  /\ Unicast(t) => late' = late
           /\ Fallback(t) => late' = late
           /\ FloodPort(t, p) => late' = late
<1>1. ASSUME NEW q \in Ids, Write(ports[q]) PROVE late' = late
  BY <1>1 DEF Write, Detached
<1>2. ASSUME NEW m \in Macs, Write(mac[m].obj) PROVE late' = late
  BY <1>2 DEF Write, Detached
<1>3. Unicast(t) => late' = late
  BY <1>2 DEF Unicast, Hit
<1>4. thr[t].left \subseteq Ids BY DEF TypeOK, Threading
<1>5. Fallback(t) => late' = late
  BY <1>1, <1>4 DEF Fallback
<1>6. FloodPort(t, p) => late' = late
  BY <1>1 DEF FloodPort
<1> QED BY <1>3, <1>5, <1>6

LEMMA ServePort ==
    ASSUME TypeOK, PortInv, NEW t \in Everyone, Serve(t)
    PROVE  PortInv'
<1> USE VSwitchAssumption
<1>a. thr \in [Everyone -> Threading] /\ thr[t] \in Threading BY DEF TypeOK
<1>b. Detached BY DEF PortInv
<1>c. NextFrame(t) => /\ thr'[t].pc \in {"idle", "forward"}
                      /\ \A u \in Everyone \ {t} : thr'[u] = thr[u]
  BY <1>a, NextFrameType DEF NextFrame
<1>d. ASSUME UNCHANGED <<sessions, lock, ports, mac, created, owner, detached, late, raced>>,
             thr[t].pc \in {"forward", "fallback", "flood"},
             thr'[t].pc \in {"idle", "forward", "fallback", "flood"},
             \A u \in Everyone \ {t} : thr'[u] = thr[u]
      PROVE  PortInv'
  BY <1>d, QuietStep DEF Quiet
<1>1. CASE Unicast(t)
  <2>1. /\ thr'[t].pc \in {"idle", "forward"}
        /\ \A u \in Everyone \ {t} : thr'[u] = thr[u]
    BY <1>1, <1>a, AfterType, RunLengthType DEF Unicast
  <2>2. late' = late BY <1>1, <1>b, WriteAttached DEF Ids
  <2> QED BY <1>1, <1>d, <2>1, <2>2 DEF Unicast, At
<1>2. CASE Hairpin(t)
  BY <1>2, <1>c, <1>d DEF Hairpin, At
<1>3. CASE Uncached(t)
  <2>1. /\ thr'[t].pc = "fallback" /\ \A u \in Everyone \ {t} : thr'[u] = thr[u]
    BY <1>3, <1>a DEF Uncached, Threading
  <2> QED BY <1>3, <1>d, <2>1 DEF Uncached, At
<1>4. CASE Fallback(t)
  <2>1. late' = late BY <1>4, <1>b, WriteAttached DEF Ids
  <2> QED BY <1>4, <2>1, <1>c, <1>d DEF Fallback, At
<1>5. CASE FloodStart(t)
  <2>1. /\ thr'[t].pc \in {"idle", "forward", "flood"}
        /\ \A u \in Everyone \ {t} : thr'[u] = thr[u]
    <3>1. \A s \in SUBSET Ids : thr' = [thr EXCEPT ![t].pc = "flood", ![t].left = s]
                                  => /\ thr'[t].pc = "flood"
                                     /\ \A u \in Everyone \ {t} : thr'[u] = thr[u]
      BY <1>a DEF Threading
    <3>2. Clients \in SUBSET Ids /\ Ids \ {thr[t].id} \in SUBSET Ids BY DEF Ids
    <3> QED BY <1>5, <1>c, <3>1, <3>2 DEF FloodStart
  <2> QED BY <1>5, <1>d, <2>1 DEF FloodStart, At
<1>6. ASSUME NEW p \in Ids, FloodPort(t, p) PROVE PortInv'
  <2>1. late' = late BY <1>6, <1>b, WriteAttached
  <2>2. /\ thr'[t].pc \in {"idle", "forward", "flood"}
        /\ \A u \in Everyone \ {t} : thr'[u] = thr[u]
    BY <1>6, <1>a, <1>c DEF FloodPort, Threading, At
  <2> QED BY <1>6, <1>d, <2>1, <2>2 DEF FloodPort, At
<1> QED BY <1>1, <1>2, <1>3, <1>4, <1>5, <1>6 DEF Serve

LEMMA AddPortStep ==
    ASSUME TypeOK, PortInv, NEW t \in Threads, NEW c \in Clients, AddPort(t, c)
    PROVE  PortInv'
<1> USE VSwitchAssumption
<1>a. /\ thr \in [Everyone -> Threading] /\ ports \in [Ids -> Objs \cup {TapObj, None}]
      /\ owner \in [Objs -> Ids] /\ created \in 0..MaxObj /\ raced \subseteq Objs
      /\ sessions \in [Clients -> Objs \cup {None}]
      /\ mac \in [Macs -> [kind : {"none", "dynamic", "static"}, id : Ids,
                           obj : Objs \cup {TapObj, None}]]
  BY DEF TypeOK
<1>b. t \in Everyone /\ t # Reader /\ t # None /\ c \in Ids /\ Reader \in Everyone
  BY DEF Everyone, Threads, Ids, None
<1>1. /\ lock = None /\ lock' = t /\ sessions[c] = None /\ thr[t].pc = "idle"
      /\ created' = created + 1 /\ created < MaxObj
      /\ owner' = [owner EXCEPT ![created'] = c]
      /\ ports' = [ports EXCEPT ![c] = created']
      /\ raced' = IF Removing(c) = {} THEN raced ELSE raced \cup {created'}
      /\ sessions' = sessions /\ mac' = mac /\ detached' = detached /\ late' = late
  BY DEF AddPort, At
<1>2. /\ thr'[t].pc = "resolve" /\ thr'[t].id = c
      /\ \A u \in Everyone \ {t} : thr'[u] = thr[u]
  BY <1>a, <1>b DEF AddPort, Idle
<1>3. \A u \in Everyone : thr[u].pc \notin Creating
  BY <1>1, NobodyCreates DEF PortInv
<1>4. created' \in Objs /\ created' \notin 1..created
      /\ \A o \in Objs : o <= created => owner'[o] = owner[o] /\ o < created'
  BY <1>a, <1>1 DEF Objs
<1>5. \A o : Settled(o) => Settled(o)' /\ owner'[o] = owner[o] /\ o # created'
  BY <1>1, <1>4, <1>a DEF Settled, Objs
<1>6. \A d : Removing(d)' = Removing(d)
  BY <1>1, <1>2, RemovingSame DEF Removal
<1>7. Ownership'
  <2>1. ASSUME NEW p \in Clients, ports'[p] # None
        PROVE  ports'[p] \in 1..created' /\ owner'[ports'[p]] = p
    <3>1. CASE p = c BY <3>1, <1>a, <1>b, <1>1, <1>4 DEF Objs
    <3>2. CASE p # c
      <4>1. ports'[p] = ports[p] BY <3>2, <1>a, <1>1
      <4>2. ports[p] \in 1..created /\ owner[ports[p]] = p
        BY <2>1, <4>1 DEF PortInv, Ownership
      <4> QED BY <4>1, <4>2, <1>a, <1>1, <1>4 DEF Objs
    <3> QED BY <3>1, <3>2
  <2>2. ASSUME NEW m \in Macs, mac'[m].obj \in Objs
        PROVE  mac'[m].obj <= created' /\ owner'[mac'[m].obj] = mac'[m].id
    BY <2>2, <1>a, <1>1, <1>4 DEF PortInv, Ownership, Objs
  <2>3. ASSUME NEW d \in Clients, sessions'[d] # None
        PROVE  Settled(sessions[d])' /\ owner'[sessions'[d]] = d
    BY <2>3, <1>1, <1>5 DEF PortInv, Ownership
  <2> QED BY <2>1, <2>2, <2>3, <1>1 DEF Ownership, Settled
<1>8. Creation'
  <2> SUFFICES ASSUME NEW u \in Everyone, thr'[u].pc \in Creating
               PROVE  /\ lock' = u /\ u \in Threads /\ thr'[u].id \in Clients
                      /\ created' \in Objs /\ owner'[created'] = thr'[u].id
                      /\ ports'[thr'[u].id] \in {created', None}
                      /\ thr'[u].pc = "pin" => thr'[u].obj \in {created', None}
                      /\ created' \notin raced' =>
                            /\ ports'[thr'[u].id] = created'
                            /\ thr'[u].pc = "pin" => thr'[u].obj = created'
                            /\ Removing(thr[u].id)' = {}
    BY DEF Creation
  <2>1. u = t BY <1>2, <1>3
  <2>2. owner'[created'] = c /\ ports'[c] = created' BY <1>a, <1>b, <1>1, <1>4
  <2>3. created' \notin raced' => Removing(c)' = {} BY <1>1, <1>6
  <2> QED BY <2>1, <2>2, <2>3, <1>1, <1>2, <1>4
<1>9. Removals'
  <2> SUFFICES ASSUME NEW u \in Everyone, thr'[u].pc \in Removal
               PROVE  /\ u \in Threads /\ thr'[u].id \in Clients
                      /\ Settled(thr[u].obj)' /\ owner'[thr'[u].obj] = thr'[u].id
                      /\ thr'[u].pc # "unport" => ports'[thr'[u].id] # thr'[u].obj
    BY DEF Removals
  <2>1. thr'[u] = thr[u] BY <1>2 DEF Removal
  <2>2. /\ u \in Threads /\ thr[u].id \in Clients
        /\ Settled(thr[u].obj) /\ owner[thr[u].obj] = thr[u].id
        /\ thr[u].pc # "unport" => ports[thr[u].id] # thr[u].obj
    BY <2>1 DEF PortInv, Removals
  <2>3. Settled(thr[u].obj)' /\ owner'[thr[u].obj] = thr[u].id /\ thr[u].obj # created'
    BY <2>1, <2>2, <1>5 DEF Settled
  <2> QED BY <2>1, <2>2, <2>3, <1>a, <1>b, <1>1 DEF Ids, Settled
<1>10. Detached'
  <2>1. \A o \in detached : Settled(o)' /\ o # created' BY <1>5 DEF PortInv, Detached
  <2>2. \A p \in Ids : ports'[p] \notin detached
    BY <2>1, <1>a, <1>b, <1>1 DEF PortInv, Detached
  <2>3. thr'[Reader] = thr[Reader] BY <1>b, <1>2
  <2> QED BY <2>1, <2>2, <2>3, <1>1 DEF PortInv, Detached, Settled
<1>11. Pinned'
  <2> SUFFICES ASSUME NEW d \in Clients, sessions'[d] # None, sessions'[d] \notin raced'
               PROVE  /\ ports'[d] = sessions'[d]
                      /\ mac'[MacOf[d]] = Entry("static", d, sessions'[d])
                      /\ Removing(d)' = {}
    BY DEF Pinned
  <2>1. d # c /\ sessions[d] \notin raced BY <1>1
  <2>2. ports'[d] = ports[d] BY <2>1, <1>a, <1>1
  <2> QED BY <2>1, <2>2, <1>1, <1>6 DEF PortInv, Pinned
<1> QED BY <1>7, <1>8, <1>9, <1>10, <1>11 DEF PortInv

LEMMA ResolvePortStep ==
    ASSUME TypeOK, PortInv, NEW t \in Threads, ResolvePort(t)
    PROVE  PortInv'
<1> USE VSwitchAssumption
<1>a. thr \in [Everyone -> Threading] BY DEF TypeOK
<1>b. t \in Everyone /\ t # Reader /\ Reader \in Everyone BY DEF Everyone, Threads
<1>1. /\ UNCHANGED <<sessions, lock, ports, mac, created, owner, detached, late, raced>>
      /\ thr[t].pc = "resolve"
  BY DEF ResolvePort, At
<1>2. /\ thr'[t].pc = "pin" /\ thr'[t].id = thr[t].id /\ thr'[t].obj = ports[thr[t].id]
      /\ \A u \in Everyone \ {t} : thr'[u] = thr[u]
  BY <1>a, <1>b DEF ResolvePort, Threading
<1>3. \A d : Removing(d)' = Removing(d) BY <1>1, <1>2, RemovingSame DEF Removal
<1>4. Ownership' BY <1>1 DEF PortInv, Ownership, Settled
<1>5. Creation' BY <1>1, <1>2, <1>3, <1>b DEF PortInv, Creation, Creating
<1>6. Removals' BY <1>1, <1>2 DEF PortInv, Removals, Removal, Settled
<1>7. Detached' BY <1>1, <1>2, <1>b DEF PortInv, Detached, Settled
<1>8. Pinned' BY <1>1, <1>3 DEF PortInv, Pinned
<1> QED BY <1>4, <1>5, <1>6, <1>7, <1>8 DEF PortInv

LEMMA AddStaticMacStep ==
    ASSUME TypeOK, PortInv, NEW t \in Threads, AddStaticMac(t)
    PROVE  PortInv'
<1> USE VSwitchAssumption
<1>a. /\ thr \in [Everyone -> Threading] /\ ports \in [Ids -> Objs \cup {TapObj, None}]
      /\ owner \in [Objs -> Ids] /\ created \in 0..MaxObj
      /\ sessions \in [Clients -> Objs \cup {None}] /\ ports[Tap] = TapObj
      /\ mac \in [Macs -> [kind : {"none", "dynamic", "static"}, id : Ids,
                           obj : Objs \cup {TapObj, None}]]
  BY DEF TypeOK
<1>b. t \in Everyone /\ t # Reader /\ t # None /\ Reader \in Everyone
  BY DEF Everyone, Threads, None
<1> DEFINE c == thr[t].id
<1>1. /\ UNCHANGED <<ports, created, owner, detached, late, raced>>
      /\ thr[t].pc = "pin" /\ lock' = None
      /\ mac' = [mac EXCEPT ![MacOf[c]] = Entry("static", c, thr[t].obj)]
      /\ sessions' = [sessions EXCEPT ![c] = created]
  BY DEF AddStaticMac, At
<1>2. thr'[t].pc = "idle" /\ \A u \in Everyone \ {t} : thr'[u] = thr[u]
  BY <1>a, <1>b DEF AddStaticMac, Done, Idle
<1>3. /\ lock = t /\ c \in Clients /\ created \in Objs /\ owner[created] = c
      /\ thr[t].obj \in {created, None}
      /\ created \notin raced => /\ ports[c] = created /\ thr[t].obj = created
                                 /\ Removing(c) = {}
  BY <1>1, <1>b DEF PortInv, Creation, Creating
<1>4. \A u \in Everyone : u # t => thr[u].pc \notin Creating
  BY <1>3 DEF PortInv, Creation
<1>5. \A o : Settled(o) => Settled(o)' /\ o # created
  BY <1>1, <1>3, <1>b, <1>a DEF Settled, Objs
<1>6. \A d : Removing(d)' = Removing(d) BY <1>1, <1>2, RemovingSame DEF Removal
<1>7. mac'[MacOf[c]] = Entry("static", c, thr[t].obj)
      /\ \A m \in Macs : m # MacOf[c] => mac'[m] = mac[m]
  BY <1>1, <1>3, <1>a
<1>8. sessions'[c] = created /\ \A d \in Clients : d # c => sessions'[d] = sessions[d]
  BY <1>1, <1>3, <1>a
<1> HIDE DEF c
<1>9. Ownership'
  <2>1. ASSUME NEW m \in Macs, mac'[m].obj \in Objs
        PROVE  mac'[m].obj <= created /\ owner[mac'[m].obj] = mac'[m].id
    <3>1. CASE m = MacOf[c]
      <4>1. mac'[m].obj = created /\ mac'[m].id = c
        BY <2>1, <3>1, <1>7, <1>3 DEF Entry, Objs, None
      <4> QED BY <4>1, <1>3, <1>a
    <3>2. CASE m # MacOf[c] BY <2>1, <3>2, <1>7 DEF PortInv, Ownership
    <3> QED BY <3>1, <3>2
  <2>2. ASSUME NEW d \in Clients, sessions'[d] # None
        PROVE  Settled(sessions[d])' /\ owner[sessions'[d]] = d
    <3>1. CASE d = c
      <4>1. Settled(sessions[d])' BY <3>1, <1>8, <1>1, <1>3, <1>a DEF Settled
      <4> QED BY <4>1, <3>1, <1>8, <1>3
    <3>2. CASE d # c
      <4>1. Settled(sessions[d]) /\ owner[sessions[d]] = d
        BY <2>2, <3>2, <1>8 DEF PortInv, Ownership
      <4>2. sessions'[d] = sessions[d] BY <3>2, <1>8
      <4> QED BY <4>1, <4>2, <1>5 , <1>1 DEF Settled
    <3> QED BY <3>1, <3>2
  <2> QED BY <2>1, <2>2, <1>1 DEF PortInv, Ownership
<1>10. Creation' BY <1>2, <1>4 DEF Creation, Creating
<1>11. Removals'
  <2>1. \A u \in Everyone : thr'[u].pc \in Removal => thr'[u] = thr[u] BY <1>2 DEF Removal
  <2>2. \A o : Settled(o) => o \in Objs /\ o <= created /\ lock' = None
    BY <1>1 DEF Settled
  <2> QED BY <2>1, <2>2, <1>1 DEF PortInv, Removals, Settled
<1>12. Detached'
  <2>1. \A o \in detached : Settled(o)' /\ o # created BY <1>5 DEF PortInv, Detached
  <2>2. \A o \in detached : o \in Objs BY DEF PortInv, Detached, Settled
  <2>3. \A m \in Macs : mac'[m].obj \notin detached
    <3>1. thr[t].obj \notin detached BY <2>1, <2>2, <1>3 DEF None, Objs
    <3> QED BY <3>1, <1>7 DEF PortInv, Detached, Entry
  <2>4. thr'[Reader] = thr[Reader] BY <1>b, <1>2
  <2> QED BY <2>1, <2>3, <2>4, <1>1 DEF PortInv, Detached, Settled
<1>13. Pinned'
  <2> SUFFICES ASSUME NEW d \in Clients, sessions'[d] # None, sessions'[d] \notin raced
               PROVE  /\ ports[d] = sessions'[d]
                      /\ mac'[MacOf[d]] = Entry("static", d, sessions'[d])
                      /\ Removing(d)' = {}
    BY <1>1 DEF Pinned
  <2>1. CASE d = c BY <2>1, <1>3, <1>6, <1>7, <1>8
  <2>2. CASE d # c
    <3>1. MacOf[d] # MacOf[c] /\ MacOf[d] \in Macs BY <2>2, <1>3
    <3>2. mac'[MacOf[d]] = mac[MacOf[d]] /\ sessions'[d] = sessions[d]
      BY <3>1, <2>2, <1>7, <1>8
    <3> QED BY <3>2, <1>6 DEF PortInv, Pinned
  <2> QED BY <2>1, <2>2
<1> QED BY <1>9, <1>10, <1>11, <1>12, <1>13 DEF PortInv

LEMMA DestroySessionStep ==
    ASSUME TypeOK, PortInv, NEW t \in Threads, NEW c \in Clients, DestroySession(t, c)
    PROVE  PortInv'
<1> USE VSwitchAssumption
<1>a. /\ thr \in [Everyone -> Threading] /\ ports \in [Ids -> Objs \cup {TapObj, None}]
      /\ owner \in [Objs -> Ids] /\ created \in 0..MaxObj
      /\ sessions \in [Clients -> Objs \cup {None}] /\ ports[Tap] = TapObj
      /\ mac \in [Macs -> [kind : {"none", "dynamic", "static"}, id : Ids,
                           obj : Objs \cup {TapObj, None}]]
  BY DEF TypeOK
<1>b. t \in Everyone /\ t # Reader /\ Reader \in Everyone BY DEF Everyone, Threads
<1>1. /\ UNCHANGED <<lock, ports, mac, created, owner, detached, late, raced>>
      /\ thr[t].pc = "idle" /\ lock = None /\ sessions[c] # None
      /\ sessions' = [sessions EXCEPT ![c] = None]
  BY DEF DestroySession, At
<1>2. /\ thr'[t].pc = "unport" /\ thr'[t].id = c /\ thr'[t].obj = sessions[c]
      /\ \A u \in Everyone \ {t} : thr'[u] = thr[u]
  BY <1>a, <1>b DEF DestroySession, Idle
<1>3. \A u \in Everyone : thr[u].pc \notin Creating
  BY <1>1, NobodyCreates DEF PortInv
<1>4. sessions'[c] = None /\ \A d \in Clients : d # c => sessions'[d] = sessions[d]
  BY <1>1, <1>a
<1>5. \A d : d # c => Removing(d)' = Removing(d)
  BY <1>1, <1>2, RemovingSame DEF Removal
<1>6. Settled(sessions[c]) /\ owner[sessions[c]] = c BY <1>1 DEF PortInv, Ownership
<1>7. Ownership' BY <1>1, <1>4 DEF PortInv, Ownership, Settled
<1>8. Creation' BY <1>2, <1>3 DEF Creation, Creating
<1>9. Removals' BY <1>1, <1>2, <1>6 DEF PortInv, Removals, Removal, Settled
<1>10. Detached' BY <1>1, <1>2, <1>b DEF PortInv, Detached, Settled
<1>11. Pinned' BY <1>1, <1>4, <1>5 DEF PortInv, Pinned
<1> QED BY <1>7, <1>8, <1>9, <1>10, <1>11 DEF PortInv

LEMMA RemovePortStep ==
    ASSUME TypeOK, PortInv, NEW t \in Threads, RemovePort(t)
    PROVE  PortInv'
<1> USE VSwitchAssumption
<1>a. /\ thr \in [Everyone -> Threading] /\ ports \in [Ids -> Objs \cup {TapObj, None}]
      /\ owner \in [Objs -> Ids] /\ created \in 0..MaxObj
      /\ sessions \in [Clients -> Objs \cup {None}] /\ ports[Tap] = TapObj
      /\ mac \in [Macs -> [kind : {"none", "dynamic", "static"}, id : Ids,
                           obj : Objs \cup {TapObj, None}]]
  BY DEF TypeOK
<1>b. t \in Everyone /\ t # Reader /\ Reader \in Everyone BY DEF Everyone, Threads
<1> DEFINE c == thr[t].id
<1>1. /\ UNCHANGED <<sessions, lock, mac, created, owner, detached, late, raced>>
      /\ thr[t].pc = "unport" /\ ports' = [ports EXCEPT ![c] = None]
  BY DEF RemovePort, At
<1>2. /\ thr'[t].pc = "unbudget" /\ thr'[t].id = c /\ thr'[t].obj = thr[t].obj
      /\ \A u \in Everyone \ {t} : thr'[u] = thr[u]
  BY <1>a, <1>b DEF RemovePort, Goto, Threading
<1>3. c \in Clients /\ Settled(thr[t].obj) /\ owner[thr[t].obj] = c
  BY <1>1, <1>b DEF PortInv, Removals, Removal
<1>4. ports'[c] = None /\ \A p \in Ids : p # c => ports'[p] = ports[p]
  BY <1>1, <1>3, <1>a DEF Ids
<1>5. \A d : Removing(d)' = Removing(d) BY <1>1, <1>2, RemovingSame DEF Removal
<1>6. Removing(c) # {} BY <1>1 DEF Removing
<1> HIDE DEF c
<1>7. Ownership' BY <1>1, <1>4 DEF PortInv, Ownership, Settled, Ids
<1>8. Creation'
  <2>1. \A u \in Everyone : thr'[u].pc \in Creating => thr'[u] = thr[u] /\ u # t
    BY <1>2 DEF Creating
  <2> QED BY <2>1, <1>1, <1>4, <1>5, <1>6 DEF PortInv, Creation, Ids
<1>9. Removals'
  <2> SUFFICES ASSUME NEW u \in Everyone, thr'[u].pc \in Removal
               PROVE  /\ u \in Threads /\ thr'[u].id \in Clients
                      /\ Settled(thr[u].obj)' /\ owner[thr'[u].obj] = thr'[u].id
                      /\ thr'[u].pc # "unport" => ports'[thr'[u].id] # thr'[u].obj
    BY <1>1 DEF Removals
  <2>1. /\ thr'[u].id = thr[u].id /\ thr'[u].obj = thr[u].obj
        /\ thr[u].pc \in Removal /\ (u # t => thr'[u].pc = thr[u].pc)
    BY <1>1, <1>2 DEF Removal, c
  <2>2. /\ u \in Threads /\ thr[u].id \in Clients
        /\ Settled(thr[u].obj) /\ owner[thr[u].obj] = thr[u].id
        /\ thr[u].pc # "unport" => ports[thr[u].id] # thr[u].obj
    BY <2>1 DEF PortInv, Removals
  <2>3. Settled(thr[u].obj)' BY <2>1, <2>2, <1>1 DEF Settled
  <2>4. thr'[u].pc # "unport" => ports'[thr'[u].id] # thr'[u].obj
    <3>1. CASE thr[u].id = c BY <3>1, <2>1, <2>2, <1>4 DEF Settled, Objs, None
    <3>2. CASE thr[u].id # c BY <3>2, <2>1, <2>2, <1>2, <1>4 DEF Ids, c
    <3> QED BY <3>1, <3>2
  <2> QED BY <2>1, <2>2, <2>3, <2>4
<1>10. Detached'
  <2>1. None \notin detached BY DEF PortInv, Detached, Settled, Objs, None
  <2>2. \A p \in Ids : ports'[p] \notin detached BY <2>1, <1>4 DEF PortInv, Detached
  <2> QED BY <2>2, <1>1, <1>2, <1>b DEF PortInv, Detached, Settled
<1>11. Pinned' BY <1>1, <1>4, <1>5, <1>6 DEF PortInv, Pinned, Ids
<1> QED BY <1>7, <1>8, <1>9, <1>10, <1>11 DEF PortInv

LEMMA RemoveBudgetStep ==
    ASSUME TypeOK, PortInv, NEW t \in Threads, RemoveBudget(t)
    PROVE  PortInv'
<1> USE VSwitchAssumption
<1>a. thr \in [Everyone -> Threading] BY DEF TypeOK
<1>b. t \in Everyone /\ t # Reader /\ Reader \in Everyone BY DEF Everyone, Threads
<1>1. /\ UNCHANGED <<sessions, lock, ports, mac, created, owner, detached, late, raced>>
      /\ thr[t].pc = "unbudget"
  BY DEF RemoveBudget, At
<1>2. /\ thr'[t].pc = "unmac" /\ thr'[t].id = thr[t].id /\ thr'[t].obj = thr[t].obj
      /\ \A u \in Everyone \ {t} : thr'[u] = thr[u]
  BY <1>a, <1>b DEF RemoveBudget, Goto, Threading
<1>3. \A d : Removing(d)' = Removing(d) BY <1>1, <1>2, RemovingSame DEF Removal
<1>4. Ownership' BY <1>1 DEF PortInv, Ownership, Settled
<1>5. Creation' BY <1>1, <1>2, <1>3 DEF PortInv, Creation, Creating
<1>6. Removals' BY <1>1, <1>2 DEF PortInv, Removals, Removal, Settled
<1>7. Detached' BY <1>1, <1>2, <1>b DEF PortInv, Detached, Settled
<1>8. Pinned' BY <1>1, <1>3 DEF PortInv, Pinned
<1> QED BY <1>4, <1>5, <1>6, <1>7, <1>8 DEF PortInv

LEMMA RemoveMacsStep ==
    ASSUME TypeOK, PortInv, NEW t \in Threads, RemoveMacs(t)
    PROVE  PortInv'
<1> USE VSwitchAssumption
<1>a. /\ thr \in [Everyone -> Threading] /\ ports[Tap] = TapObj
      /\ mac \in [Macs -> [kind : {"none", "dynamic", "static"}, id : Ids,
                           obj : Objs \cup {TapObj, None}]]
  BY DEF TypeOK
<1>b. t \in Everyone /\ t # Reader /\ Reader \in Everyone BY DEF Everyone, Threads
<1> DEFINE c == thr[t].id
           o == thr[t].obj
<1>1. /\ UNCHANGED <<sessions, lock, ports, created, owner, late, raced>>
      /\ thr[t].pc = "unmac"
      /\ mac' = [m \in Macs |-> IF mac[m].id = c THEN NoEntry ELSE mac[m]]
      /\ detached' = detached \cup {o}
  BY DEF RemoveMacs, At
<1>2. thr'[t].pc = "idle" /\ \A u \in Everyone \ {t} : thr'[u] = thr[u]
  BY <1>a, <1>b DEF RemoveMacs, Done, Idle
<1>3. c \in Clients /\ Settled(o) /\ owner[o] = c /\ ports[c] # o /\ o \in Objs
  BY <1>1, <1>b DEF PortInv, Removals, Removal, Settled
<1>4. \A d : d # c => Removing(d)' = Removing(d)
  BY <1>1, <1>2, RemovingSame DEF Removal
<1>5. Removing(c) # {} BY <1>1 DEF Removing
<1>6. \A m \in Macs : mac'[m] = mac[m] \/ (mac[m].id = c /\ mac'[m] = NoEntry)
  BY <1>1
<1>7. NoEntry.obj = None /\ None \notin Objs BY DEF NoEntry, Entry, Objs, None
<1> HIDE DEF c, o
<1>8. Ownership' BY <1>1, <1>6, <1>7 DEF PortInv, Ownership, Settled
<1>9. Creation'
  <2> SUFFICES ASSUME NEW u \in Everyone, thr'[u].pc \in Creating
               PROVE  /\ lock = u /\ u \in Threads /\ thr'[u].id \in Clients
                      /\ created \in Objs /\ owner[created] = thr'[u].id
                      /\ ports[thr'[u].id] \in {created, None}
                      /\ thr'[u].pc = "pin" => thr'[u].obj \in {created, None}
                      /\ created \notin raced =>
                            /\ ports[thr'[u].id] = created
                            /\ thr'[u].pc = "pin" => thr'[u].obj = created
                            /\ Removing(thr[u].id)' = {}
    BY <1>1 DEF Creation
  <2>1. thr'[u] = thr[u] BY <1>2 DEF Creating
  <2>2. created \notin raced => thr[u].id # c /\ Removing(thr[u].id) = {}
    BY <2>1, <1>5 DEF PortInv, Creation
  <2>3. ASSUME created \notin raced PROVE Removing(thr[u].id)' = {}
    <3>1. PICK d : d = thr[u].id OBVIOUS
    <3>2. Removing(d)' = {} BY <3>1, <2>2, <2>3, <1>4
    <3> QED BY <3>1, <3>2, <2>1 DEF Removing
  <2> QED BY <2>1, <2>3 DEF PortInv, Creation
<1>10. Removals'
  <2>1. \A u \in Everyone : thr'[u].pc \in Removal => thr'[u] = thr[u] BY <1>2 DEF Removal
  <2> QED BY <2>1, <1>1 DEF PortInv, Removals, Settled
<1>11. Detached'
  <2>1. \A p \in Ids : ports[p] # o
    <3>1. \A p \in Clients : ports[p] # o
      BY <1>3, <1>7 DEF PortInv, Ownership
    <3>2. ports[Tap] # o BY <1>a, <1>3 DEF TapObj, Objs
    <3> QED BY <3>1, <3>2 DEF Ids
  <2>2. \A m \in Macs : mac'[m].obj # o
    <3> SUFFICES ASSUME NEW m \in Macs, mac'[m].obj = o PROVE FALSE
      OBVIOUS
    <3>1. mac'[m] = mac[m] BY <1>3, <1>6, <1>7
    <3>2. mac[m].id = c BY <3>1, <1>3 DEF PortInv, Ownership
    <3>3. mac'[m] = NoEntry BY <3>2, <1>1
    <3> QED BY <3>3, <1>3, <1>7
  <2>3. None \notin detached BY DEF PortInv, Detached, Settled, Objs, None
  <2>4. \A m \in Macs : mac'[m].obj \notin detached BY <2>3, <1>6, <1>7 DEF PortInv, Detached
  <2>5. \A q \in detached' : Settled(q)' BY <1>1, <1>3 DEF PortInv, Detached, Settled
  <2>6. thr'[Reader] = thr[Reader] BY <1>b, <1>2
  <2> QED BY <2>1, <2>2, <2>4, <2>5, <2>6, <1>1 DEF PortInv, Detached
<1>12. Pinned'
  <2> SUFFICES ASSUME NEW d \in Clients, sessions[d] # None, sessions[d] \notin raced
               PROVE  /\ ports[d] = sessions[d]
                      /\ mac'[MacOf[d]] = Entry("static", d, sessions[d])
                      /\ Removing(d)' = {}
    BY <1>1 DEF Pinned
  <2>1. /\ ports[d] = sessions[d] /\ mac[MacOf[d]] = Entry("static", d, sessions[d])
        /\ Removing(d) = {}
    BY DEF PortInv, Pinned
  <2>2. d # c BY <2>1, <1>5
  <2>3. mac[MacOf[d]].id = d /\ MacOf[d] \in Macs BY <2>1 DEF Entry
  <2> QED BY <2>1, <2>2, <2>3, <1>4, <1>6
<1> QED BY <1>8, <1>9, <1>10, <1>11, <1>12 DEF PortInv

\* Learning and expiry leave pinned entries alone and only ever cache the TAP.
LEMMA TableStep ==
    ASSUME TypeOK, PortInv,
           UNCHANGED <<sessions, lock, ports, created, owner, detached, late, raced>>,
           \A u \in Everyone \ {Reader} : thr'[u] = thr[u],
           thr[Reader].pc \in Quiet \cup {"learn"},
           thr'[Reader].pc \in Quiet \/ (thr'[Reader].pc = "learn" /\ thr'[Reader].obj = TapObj),
           \A m \in Macs : \/ mac'[m] = mac[m]
                           \/ mac[m].kind # "static" /\ mac'[m].obj \in {TapObj, None}
    PROVE  PortInv'
<1> USE VSwitchAssumption
<1>b. Reader \in Everyone BY DEF Everyone
<1>1. \A u \in Everyone : thr'[u].pc \notin Quiet /\ u # Reader => thr'[u] = thr[u]
  OBVIOUS
<1>2. \A d : Removing(d)' = Removing(d) BY RemovingSame DEF Quiet, Removal
<1>3. TapObj \notin Objs /\ None \notin Objs BY DEF Objs, TapObj, None
<1>4. Ownership' BY <1>3 DEF PortInv, Ownership, Settled
<1>5. Creation'
  <2>1. \A u \in Everyone : thr'[u].pc \in Creating => thr'[u] = thr[u]
    BY DEF Creating, Quiet
  <2> QED BY <2>1, <1>2 DEF PortInv, Creation
<1>6. Removals'
  <2>1. \A u \in Everyone : thr'[u].pc \in Removal => thr'[u] = thr[u]
    BY DEF Removal, Quiet
  <2> QED BY <2>1 DEF PortInv, Removals, Settled
<1>7. Detached'
  <2>1. \A q \in detached : q \in Objs BY DEF PortInv, Detached, Settled
  <2>2. \A m \in Macs : mac'[m].obj \notin detached BY <2>1, <1>3 DEF PortInv, Detached
  <2> QED BY <2>2 DEF PortInv, Detached, Settled, Quiet
<1>8. Pinned'
  <2> SUFFICES ASSUME NEW d \in Clients, sessions[d] # None, sessions[d] \notin raced
               PROVE  /\ ports[d] = sessions[d]
                      /\ mac'[MacOf[d]] = Entry("static", d, sessions[d])
                      /\ Removing(d)' = {}
    BY DEF Pinned
  <2>1. /\ ports[d] = sessions[d] /\ mac[MacOf[d]] = Entry("static", d, sessions[d])
        /\ Removing(d) = {}
    BY DEF PortInv, Pinned
  <2>2. mac[MacOf[d]].kind = "static" /\ MacOf[d] \in Macs BY <2>1 DEF Entry
  <2> QED BY <2>1, <2>2, <1>2
<1> QED BY <1>4, <1>5, <1>6, <1>7, <1>8 DEF PortInv

LEMMA PortNext == TypeOK /\ PortInv /\ [Next]_vars => PortInv'
<1> SUFFICES ASSUME TypeOK, PortInv, [Next]_vars PROVE PortInv'
  OBVIOUS
<1> USE VSwitchAssumption
<1>a. thr \in [Everyone -> Threading] /\ ports[Tap] = TapObj
      /\ mac \in [Macs -> [kind : {"none", "dynamic", "static"}, id : Ids,
                           obj : Objs \cup {TapObj, None}]]
  BY DEF TypeOK
<1>b. Workers \subseteq Threads /\ Threads \subseteq Everyone /\ Reader \in Everyone
  BY DEF Everyone, Threads
<1>1. ASSUME NEW t \in Workers, NEW o \in Objs, SessionFrames(t, o) PROVE PortInv'
  <2>1. thr[t].pc = "idle" /\ t \in Everyone BY <1>1, <1>b DEF SessionFrames, At
  <2>2. thr'[t].pc \in {"idle", "forward"} /\ \A u \in Everyone \ {t} : thr'[u] = thr[u]
    <3>1. CASE thr' = thr BY <2>1, <3>1
    <3>2. CASE thr' # thr
      <4>1. PICK n \in 1..MaxRun : \E todo \in [1..n -> Dests] :
              thr' = [thr EXCEPT ![t] = [Idle EXCEPT !.pc = "forward", !.id = owner[o],
                                                     !.todo = todo]]
        BY <1>1, <3>2 DEF SessionFrames
      <4>2. PICK todo \in [1..n -> Dests] :
              thr' = [thr EXCEPT ![t] = [Idle EXCEPT !.pc = "forward", !.id = owner[o],
                                                     !.todo = todo]]
        BY <4>1
      <4> QED BY <4>2, <1>a, <2>1 DEF Idle
    <3> QED BY <3>1, <3>2
  <2> QED BY <1>1, <2>1, <2>2, QuietStep DEF SessionFrames, Quiet
<1>2. ASSUME NEW s \in Macs, NEW d \in Dests, NEW aged \in BOOLEAN, TapFrame(s, d, aged)
      PROVE  PortInv'
  <2>1. thr[Reader].pc = "idle" BY <1>2 DEF TapFrame, At
  <2>2. thr'[Reader].pc \in {"validate", "forward"}
        /\ \A u \in Everyone \ {Reader} : thr'[u] = thr[u]
    BY <1>2, <1>a, <1>b DEF TapFrame, Idle
  <2> QED BY <1>2, <1>b, <2>1, <2>2, QuietStep DEF TapFrame, Quiet
<1>3. ASSUME ValidateMac PROVE PortInv'
  <2>1. thr[Reader].pc = "validate" BY <1>3 DEF ValidateMac, At
  <2>2. /\ thr'[Reader].pc = "learn" /\ thr'[Reader].obj = TapObj
        /\ \A u \in Everyone \ {Reader} : thr'[u] = thr[u]
    BY <1>3, <1>a, <1>b DEF ValidateMac, Threading
  <2> QED BY <1>3, <2>1, <2>2, TableStep DEF ValidateMac, Quiet
<1>4. ASSUME Learn PROVE PortInv'
  <2>1. thr[Reader].pc = "learn" BY <1>4 DEF Learn, At
  <2>2. thr'[Reader].pc = "forward" /\ \A u \in Everyone \ {Reader} : thr'[u] = thr[u]
    BY <1>4, <1>a, <1>b DEF Learn, Threading
  <2>3. thr[Reader].obj = TapObj BY <2>1 DEF PortInv, Detached
  <2>4. mac' = [mac EXCEPT ![thr[Reader].src] =
                  IF @.kind = "static" THEN @ ELSE Entry("dynamic", Tap, TapObj)]
    BY <1>4, <2>3 DEF Learn
  <2>5. \A m \in Macs : \/ mac'[m] = mac[m]
                        \/ mac[m].kind # "static" /\ mac'[m].obj \in {TapObj, None}
    BY <2>4, <1>a DEF Entry
  <2> QED BY <1>4, <2>1, <2>2, <2>5, TableStep DEF Learn, Quiet
<1>5. ASSUME NEW m \in Macs, Expire(m) PROVE PortInv'
  <2>1. \A n \in Macs : \/ mac'[n] = mac[n]
                        \/ mac[n].kind # "static" /\ mac'[n].obj \in {TapObj, None}
    BY <1>5, <1>a DEF Expire, NoEntry, Entry
  <2>2. UNCHANGED <<sessions, lock, ports, created, owner, thr, detached, late, raced>>
    BY <1>5 DEF Expire
  <2>3. CASE thr[Reader].pc \in Quiet \cup {"learn"}
    <3>1. thr[Reader].pc = "learn" => thr[Reader].obj = TapObj BY DEF PortInv, Detached
    <3> QED BY <2>1, <2>2, <2>3, <3>1, TableStep DEF Quiet
  <2>4. Reader \notin Threads BY DEF Threads
  <2>5. thr[Reader].pc \in Quiet \cup {"learn"}
    <3>1. thr[Reader].pc \notin Creating \cup Removal
      BY <1>b, <2>4 DEF PortInv, Creation, Removals
    <3> QED BY <1>a, <1>b, <3>1 DEF Threading, Quiet, Creating, Removal
  <2> QED BY <2>3, <2>5
<1>6. CASE UNCHANGED <<sessions, lock, ports, mac, created, owner, thr, detached, late, raced>>
  <2>1. \A d : Removing(d)' = Removing(d) BY <1>6 DEF Removing
  <2> QED BY <1>6, <2>1 DEF PortInv, Ownership, Creation, Removals, Detached, Pinned, Settled
<1>7. ASSUME NEW t \in Workers, Admit(t) PROVE PortInv'
  BY <1>7, <1>1, <1>b, AddPortStep, ResolvePortStep, AddStaticMacStep DEF Admit
<1>8. ASSUME NEW t \in Threads, Destroy(t) PROVE PortInv'
  BY <1>8, DestroySessionStep, RemovePortStep, RemoveBudgetStep, RemoveMacsStep DEF Destroy
<1>9. ASSUME NEW t \in Everyone, Serve(t) PROVE PortInv'
  BY <1>9, ServePort
<1>10. CASE Tick BY <1>10, <1>6 DEF Tick
<1>11. CASE UNCHANGED vars BY <1>11, <1>6 DEF vars
<1> QED BY <1>2, <1>3, <1>4, <1>5, <1>7, <1>8, <1>9, <1>10, <1>11 DEF Next

-----------------------------------------------------------------------------
(* The theorems *)

\* The inductive invariant of the switch.
IInv == TypeOK /\ PortInv /\ FloodInv

\* Every state the handshakes, the removals and the frame paths of VSwitch reach
\* satisfies the invariant the following theorems rest on.
THEOREM SwitchInvariant == Spec => []IInv
<1>1. Init => IInv BY TypeInit, PortInit DEF IInv
<1>2. IInv /\ [Next]_vars => IInv'
  BY TypeNext, PortNext, FloodNext DEF IInv, PortInv
<1> QED BY <1>1, <1>2, PTL DEF Spec

\* The table and the threads stay well formed, and remove_port never takes the
\* TAP's own port away.
THEOREM SwitchTyped == Spec => []TypeOK
<1>1. IInv => TypeOK BY DEF IInv
<1> QED BY <1>1, SwitchInvariant, PTL

\* The entry add_static_mac writes at the handshake stands as long as the
\* session, for any number of clients, learners and removals, unless a removal
\* for the same client id was still running when the session was created.
THEOREM MacStaysPinned == Spec => []RegisteredMacPinned
<1>1. IInv => RegisteredMacPinned BY DEF IInv, PortInv, Pinned, RegisteredMacPinned
<1> QED BY <1>1, SwitchInvariant, PTL

\* After remove_port has returned no thread of process_frame,
\* process_session_batch or flood writes to the port, whatever it read before.
THEOREM NothingAfterRemoval == Spec => []NoWriteAfterRemoval
<1>1. IInv => NoWriteAfterRemoval BY DEF IInv, PortInv, Detached, NoWriteAfterRemoval
<1> QED BY <1>1, SwitchInvariant, PTL

\* allow_flood admits no more than the burst and the refills since the budget
\* was opened, however the calls and the refills interleave.
THEOREM FloodsBounded == Spec => []FloodBudgetHeld
<1>1. IInv => FloodBudgetHeld
  <2> SUFFICES ASSUME IInv, NEW c \in Clients, budget[c].open
               PROVE  admitted[c].n <= Burst + ticks - admitted[c].from
    BY DEF FloodBudgetHeld
  <2>1. /\ budget[c].tokens \in 0..Burst /\ budget[c].owed \in Nat
        /\ admitted[c].n \in Nat /\ admitted[c].from \in 0..MaxTicks /\ ticks \in 0..MaxTicks
    <3>1. /\ budget \in [Clients -> [open : BOOLEAN, tokens : 0..Burst, owed : Nat]]
          /\ admitted \in [Clients -> [n : Nat, from : 0..MaxTicks]] /\ ticks \in 0..MaxTicks
      BY DEF IInv, TypeOK
    <3>2. /\ budget[c] \in [open : BOOLEAN, tokens : 0..Burst, owed : Nat]
          /\ admitted[c] \in [n : Nat, from : 0..MaxTicks]
      BY <3>1
    <3> QED BY <3>1, <3>2
  <2>2. budget[c].tokens + budget[c].owed + admitted[c].n <= Burst + ticks - admitted[c].from
    BY DEF IInv, FloodInv
  <2> QED BY <2>1, <2>2, VSwitchAssumption
<1> QED BY <1>1, SwitchInvariant, PTL
=============================================================================
