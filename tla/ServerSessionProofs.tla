------------------------- MODULE ServerSessionProofs -------------------------
(***************************************************************************)
(* The sessions of a server, for any number of clients, connections,       *)
(* workers and API threads: every address of the pools is held by one      *)
(* session that is in the table or being torn down, and a session in the   *)
(* table has its switch port.  With a single worker the connection count   *)
(* is exact and a connection in service has its session in the table.      *)
(***************************************************************************)
EXTENDS ServerSession, FiniteSetTheorems, WellFoundedInduction, TLAPS

Threads == Workers \cup Admins
Pcs == {"closed", "hello"} \cup {"up", "doomed"} \cup InHandler
Before == {"closed", "hello", "gated"}   \* not in a session yet
Counting == {"snapped", "up", "doomed", "leaving"}

SessionType ==
    [client : Clients \cup {None}, instance : Instances \cup {None}, epoch : Nat,
     active : Nat, version : Nat,
     deadline : [st : {"none", "running", "expired"}, ver : Nat],
     force : BOOLEAN, exhausted : BOOLEAN, retired : BOOLEAN,
     v4 : Addrs4 \cup {NoAddr}, v6 : Addrs6 \cup {NoAddr}, backends : SUBSET Conns,
     raced : BOOLEAN, stranded : BOOLEAN]

ConnType ==
    [pc : Pcs, client : Clients \cup {None}, inst : Instances \cup {None},
     s : 0..MaxHandshakes, epoch : Nat, ver : Nat]

DelType ==
    [pc : {"idle", "picked", "port", "registry", "pool"}, todo : SUBSET Obj,
     s : 0..MaxHandshakes]

TypeOK ==
    /\ sessions \in [Clients -> 0..MaxHandshakes]
    /\ obj \in [Obj -> SessionType]
    /\ created \in 0..MaxHandshakes
    /\ ports \in [Clients -> 0..MaxHandshakes]
    /\ registry \in [Clients -> 0..MaxHandshakes]
    /\ macToIp \in [Clients -> (Addrs4 \cup {NoAddr}) \X (Addrs6 \cup {NoAddr})]
    /\ conn \in [Conns -> ConnType]
    /\ del \in [Threads -> DelType]
    /\ accepted \in Nat /\ orders \in Nat /\ exhaustions \in Nat

\* Every accepted connection creates at most one session.
Pending == {c \in Conns : conn[c].pc \in {"hello", "gated"}}

PendingInv ==
    /\ IsFiniteSet(Pending)
    /\ created + Cardinality(Pending) <= accepted /\ accepted <= MaxHandshakes

ConnInv ==
    \A c \in Conns :
        /\ conn[c].pc # "closed" => conn[c].client \in Clients
        /\ conn[c].pc \in Before => conn[c].s = None
        /\ conn[c].pc \notin Before => conn[c].s \in 1..created

Busy(d) == del[d].pc \in {"port", "registry", "pool"}

\* A session leaves the table once, by the thread that tears it down.
OwnInv ==
    /\ \A k \in Clients : sessions[k] # None =>
         sessions[k] \in 1..created /\ obj[sessions[k]].client = k
    /\ \A s \in 1..created : obj[s].client \in Clients
    /\ \A d \in Threads :
         /\ del[d].todo \subseteq 1..created
         /\ Busy(d) => del[d].s \in 1..created /\ sessions[obj[del[d].s].client] # del[d].s
    /\ \A d, e \in Threads : d # e /\ Busy(d) /\ Busy(e) => del[d].s # del[e].s

Holders == Live \cup Dying

AddrInv ==
    /\ used4 = {obj[s].v4 : s \in Holders}
    /\ used6 = {obj[s].v6 : s \in Holders}
    /\ \A s, r \in Holders : s # r => obj[s].v4 # obj[r].v4 /\ obj[s].v6 # obj[r].v6
    /\ \A s \in Live : macToIp[obj[s].client] = <<obj[s].v4, obj[s].v6>>

PoolInv == TypeOK /\ PendingInv /\ ConnInv /\ OwnInv /\ AddrInv

-----------------------------------------------------------------------------
(* Helpers *)

\* A set of naturals that is not empty has a least element.
LEMMA NatLeast ==
    ASSUME NEW T \in SUBSET Nat, T # {}
    PROVE  \E n \in T : \A m \in T : n <= m
<1> DEFINE R == OpToRel(<, Nat)
<1>1. IsWellFoundedOn(R, Nat) BY NatLessThanWellFounded
<1>2. \A x, y \in Nat : x < y => <<x, y>> \in R BY DEF OpToRel
<1> HIDE DEF R
<1>3. \E x \in T : \A y \in T : ~ (<<y, x>> \in R) BY <1>1, WFMin
<1>4. PICK x \in T : \A y \in T : ~ (<<y, x>> \in R) BY <1>3
<1>5. \A y \in T : x <= y
  <2> TAKE y \in T
  <2>1. x \in Nat /\ y \in Nat OBVIOUS
  <2>2. ~(y < x) BY <1>2, <1>4, <2>1
  <2> QED BY <2>1, <2>2
<1> QED BY <1>5

\* What alloc_v4 and alloc_v6 return is free.
LEMMA AllocFree ==
    ASSUME NEW addrs \in SUBSET Nat, NEW used, NEW want, Alloc(addrs, used, want) # NoAddr
    PROVE  Alloc(addrs, used, want) \in addrs \ used
<1> DEFINE free == addrs \ used
<1>1. CASE want \in free BY <1>1 DEF Alloc
<1>2. CASE want \notin free
  <2>1. free \in SUBSET Nat /\ free # {} BY <1>2 DEF Alloc
  <2>2. \E a \in free : \A b \in free : a <= b
    <3> HIDE DEF free
    <3> QED BY <2>1, NatLeast
  <2>3. Alloc(addrs, used, want) = CHOOSE a \in free : \A b \in free : a <= b
    BY <1>2, <2>1 DEF Alloc
  <2> QED BY <2>2, <2>3
<1> QED BY <1>1, <1>2

LEMMA Constants ==
    /\ MaxHandshakes \in Nat /\ CountMod \in Nat /\ MaxConns \in Nat
    /\ 0 < MaxConns /\ MaxConns < CountMod
    /\ Addrs4 \in SUBSET Nat /\ Addrs6 \in SUBSET Nat /\ 0 \notin Addrs4 /\ 0 \notin Addrs6
    /\ WorkerOf \in [Conns -> Workers] /\ Workers \cap Admins = {}
BY ServerSessionAssumption DEF NoAddr

LEMMA NoConnType == NoConn \in ConnType /\ NoConn.pc = "closed" /\ NoConn.s = None
BY Constants DEF NoConn, ConnType, None, Pcs

LEMMA NoDelType == NoDel \in DelType /\ NoDel.pc = "idle" /\ NoDel.todo = {}
BY Constants DEF NoDel, DelType, None

\* A thread at the start of destroy_session for the sessions of todo.
Picked(todo) == [NoDel EXCEPT !.pc = "picked", !.todo = todo]

LEMMA PickedType ==
    ASSUME NEW todo \in SUBSET Obj, NEW x, x = Picked(todo)
    PROVE  x \in DelType /\ x.pc = "picked" /\ x.todo = todo
BY NoDelType DEF DelType, Picked

LEMMA NoSessionType == NoSession \in SessionType
BY DEF NoSession, NoDeadline, Deadline, SessionType, None, NoAddr

LEMMA NewSessionForm ==
    ASSUME NEW k \in Clients, NEW i \in Instances \cup {None}, NEW a4 \in Addrs4,
           NEW a6 \in Addrs6, NEW raced \in BOOLEAN
    PROVE  LET o == NewSession(k, i, a4, a6, raced)
           IN  /\ o \in SessionType /\ o.client = k /\ o.v4 = a4 /\ o.v6 = a6
               /\ o.active = 1 /\ o.raced = raced
BY DEF NewSession, NoDeadline, Deadline, SessionType

-----------------------------------------------------------------------------
(***************************************************************************)
(* What an action makes of the connection and of the session it belongs    *)
(* to.                                                                     *)
(***************************************************************************)
ConnSet(c, x) ==
    /\ x \in ConnType /\ conn' = [conn EXCEPT ![c] = x]
    /\ UNCHANGED <<created, del, tableVars, poolVars, fixed>>

ObjSet(s, o) ==
    /\ s \in 1..created /\ o \in SessionType /\ obj' = [obj EXCEPT ![s] = o]
    /\ o.client = obj[s].client /\ o.v4 = obj[s].v4 /\ o.v6 = obj[s].v6 /\ o.raced = obj[s].raced

\* The same connection, further on.
Follows(c, x) == x.s = conn[c].s /\ x.client = conn[c].client

SameCount(s, o) == o.active = obj[s].active /\ o.epoch = obj[s].epoch

LEMMA ConnOf ==
    ASSUME TypeOK, NEW c \in Conns
    PROVE  /\ conn \in [Conns -> ConnType] /\ conn[c] \in ConnType /\ conn[c].epoch \in Nat
           /\ conn[c].pc \in Pcs
BY DEF TypeOK, ConnType

LEMMA ObjOf ==
    ASSUME TypeOK, NEW s \in 1..created
    PROVE  /\ s \in Obj /\ obj[s] \in SessionType /\ obj \in [Obj -> SessionType]
           /\ obj[s].epoch \in Nat /\ obj[s].active \in Nat /\ obj[s].version \in Nat
           /\ obj[s].backends \in SUBSET Conns
           /\ obj[s].deadline \in [st : {"none", "running", "expired"}, ver : Nat]
<1>1. s \in Obj BY Constants DEF TypeOK, Obj
<1> QED BY <1>1 DEF TypeOK, SessionType

LEMMA PcForm ==
    ASSUME TypeOK, NEW c \in Conns, NEW pc \in Pcs
    PROVE  LET x == [conn[c] EXCEPT !.pc = pc]
           IN  x \in ConnType /\ x.pc = pc /\ Follows(c, x) /\ x.epoch = conn[c].epoch
<1>1. conn[c] \in ConnType BY ConnOf
<1> QED BY <1>1 DEF ConnType, Follows

\* Before the sessions lock, or refused under it: no session is touched.
LEMMA OutsideShape ==
    ASSUME TypeOK, ConnInv, NEW c \in Conns,
           HsGate(c) \/ HsRefuse(c) \/ HsNoCapacity(c) \/ HsNoToken(c) \/ (Fail(c) /\ At(c, "hello"))
    PROVE  \E x : /\ ConnSet(c, x) /\ obj' = obj /\ conn[c].pc \in {"hello", "gated"}
                 /\ \/ x = NoConn
                    \/ /\ x.pc = "gated" /\ x.s = None /\ x.client \in Clients
                       /\ WorkerIdle(WorkerOf[c])
<1>1. CASE conn' = [conn EXCEPT ![c] = NoConn] /\ conn[c].pc \in {"hello", "gated"}
  BY <1>1, NoConnType DEF ConnSet, HsGate, HsRefuse, HsNoCapacity, HsNoToken, Fail, At
<1>2. CASE HsGate(c) /\ Goto(c, "gated")
  <2> DEFINE x == [conn[c] EXCEPT !.pc = "gated"]
  <2>1. conn[c].s = None /\ conn[c].client \in Clients /\ conn[c].pc = "hello"
    BY <1>2 DEF ConnInv, Before, HsGate, At
  <2>2. "gated" \in Pcs BY DEF Pcs, InHandler
  <2>3. x \in ConnType /\ x.pc = "gated" /\ x.s = None /\ x.client \in Clients
    BY <2>1, <2>2, PcForm DEF Follows
  <2>4. conn' = [conn EXCEPT ![c] = x] BY <1>2 DEF Goto
  <2>5. ConnSet(c, x) /\ obj' = obj /\ WorkerIdle(WorkerOf[c])
    BY <1>2, <2>3, <2>4 DEF HsGate, ConnSet
  <2> HIDE DEF x
  <2> QED BY <2>1, <2>3, <2>5
<1> QED BY <1>1, <1>2 DEF HsGate, HsRefuse, HsNoCapacity, HsNoToken, Fail, At, Close

\* A session that is joined: counted once more, after a rotation from zero.
Joins(s, o) ==
    \/ o.epoch = obj[s].epoch /\ o.active = obj[s].active + 1 /\ obj[s].active < MaxConns
    \/ o.epoch = obj[s].epoch + 1 /\ o.active = 1

LEMMA RotateForm ==
    ASSUME NEW o \in SessionType, NEW i \in Instances \cup {None}
    PROVE  LET r == RotateSessionEpoch(o, i)
           IN  /\ r \in SessionType /\ r.client = o.client /\ r.v4 = o.v4 /\ r.v6 = o.v6 /\ r.raced = o.raced
               /\ r.active = 0 /\ r.epoch = o.epoch + 1
<1> DEFINE e == o.epoch + 1
           r == RotateSessionEpoch(o, i)
<1>1. e \in Nat BY DEF SessionType
<1>2. r = [o EXCEPT !.instance = i, !.epoch = e, !.active = 0, !.exhausted = FALSE,
                    !.retired = FALSE]
  BY DEF RotateSessionEpoch
<1> HIDE DEF r, e
<1>3. r.client = o.client /\ r.v4 = o.v4 /\ r.v6 = o.v6 /\ r.raced = o.raced /\ r.active = 0 /\ r.epoch = e
  BY <1>2 DEF SessionType
<1>4. r \in SessionType BY <1>1, <1>2 DEF SessionType
<1> QED BY <1>3, <1>4 DEF e, r

LEMMA StrandForm ==
    ASSUME NEW o \in SessionType
    PROVE  LET r == Strand(o)
           IN  /\ r \in SessionType /\ r.client = o.client /\ r.v4 = o.v4 /\ r.v6 = o.v6 /\ r.raced = o.raced
               /\ r.active = o.active /\ r.epoch = o.epoch
<1>1. PICK b \in BOOLEAN : b = (o.deadline = NoDeadline) OBVIOUS
<1>2. PICK r : r = [o EXCEPT !.stranded = b] OBVIOUS
<1>3. Strand(o) = r BY <1>1, <1>2 DEF Strand
<1>4. /\ r \in SessionType /\ r.client = o.client /\ r.v4 = o.v4 /\ r.v6 = o.v6 /\ r.raced = o.raced
      /\ r.active = o.active /\ r.epoch = o.epoch
  BY <1>2 DEF SessionType
<1> QED BY <1>3, <1>4

LEMMA OccupyForm ==
    ASSUME NEW o \in SessionType
    PROVE  LET r == Occupy(o)
           IN  /\ r \in SessionType /\ r.client = o.client /\ r.v4 = o.v4 /\ r.v6 = o.v6 /\ r.raced = o.raced
               /\ r.epoch = o.epoch
               /\ r.active = IF o.active >= MaxConns THEN o.active ELSE o.active + 1
<1> DEFINE r == [o EXCEPT !.deadline = NoDeadline, !.stranded = FALSE]
<1>1. /\ r \in SessionType /\ r.client = o.client /\ r.v4 = o.v4 /\ r.v6 = o.v6 /\ r.raced = o.raced
      /\ r.epoch = o.epoch /\ r.active = o.active /\ r.active \in Nat
  <2>1. NoDeadline \in [st : {"none", "running", "expired"}, ver : Nat]
    BY DEF NoDeadline, Deadline
  <2> HIDE DEF NoDeadline
  <2> QED BY <2>1 DEF SessionType
<1>2. Occupy(o) = IF o.active >= MaxConns THEN r ELSE [r EXCEPT !.active = r.active + 1]
  BY DEF Occupy
<1> HIDE DEF r
<1>3. CASE o.active >= MaxConns BY <1>1, <1>2, <1>3
<1>4. CASE ~(o.active >= MaxConns)
  <2> DEFINE q == [r EXCEPT !.active = r.active + 1]
  <2>1. /\ q \in SessionType /\ q.client = r.client /\ q.v4 = r.v4 /\ q.v6 = r.v6 /\ q.raced = r.raced
        /\ q.epoch = r.epoch /\ q.active = r.active + 1
    BY <1>1 DEF SessionType
  <2>2. Occupy(o) = q BY <1>2, <1>4
  <2> HIDE DEF q
  <2> QED BY <1>1, <1>4, <2>1, <2>2
<1> QED BY <1>3, <1>4

LEMMA HsJoinShape ==
    ASSUME TypeOK, ConnInv, OwnInv, NEW c \in Conns, HsJoin(c)
    PROVE  \E x, o : LET s == sessions[conn[c].client] IN
             /\ ConnSet(c, x) /\ ObjSet(s, o) /\ conn[c].pc = "gated" /\ s \in Live
             /\ \/ x = NoConn /\ SameCount(s, o)
                \/ /\ x.pc = "joined" /\ x.s = s /\ x.client \in Clients /\ Joins(s, o)
<1> DEFINE k == conn[c].client
           s == sessions[k]
           same == SameInstance(s, conn[c].inst)
           o == IF same THEN obj[s] ELSE RotateSessionEpoch(obj[s], conn[c].inst)
<1>1. /\ conn[c].pc = "gated" /\ s # None /\ obj' = [obj EXCEPT ![s] = Occupy(o)]
      /\ IF o.active >= MaxConns THEN Close(c)
         ELSE conn' = [conn EXCEPT ![c].pc = "joined", ![c].s = s]
      /\ UNCHANGED <<created, del, tableVars, poolVars, fixed>>
  BY DEF HsJoin, At
<1>2. k \in Clients /\ conn[c] \in ConnType /\ conn[c].inst \in Instances \cup {None}
  BY <1>1, ConnOf DEF ConnInv, ConnType
<1>3. s \in 1..created /\ obj[s].client = k BY <1>1, <1>2 DEF OwnInv
<1>4. s \in Obj /\ obj[s] \in SessionType /\ obj[s].active \in Nat BY <1>3, ObjOf
<1>5. s \in Live BY <1>2, <1>3, <1>4 DEF Live, TypeOK
<1>6. /\ o \in SessionType /\ o.client = obj[s].client /\ o.v4 = obj[s].v4 /\ o.v6 = obj[s].v6 /\ o.raced = obj[s].raced
      /\ \/ o.active = obj[s].active /\ o.epoch = obj[s].epoch
         \/ o.active = 0 /\ o.epoch = obj[s].epoch + 1
  <2> HIDE DEF same
  <2>1. CASE same BY <1>4, <2>1
  <2>2. CASE ~same
    <3>1. o = RotateSessionEpoch(obj[s], conn[c].inst) BY <2>2
    <3> QED BY <1>2, <1>4, <3>1, RotateForm
  <2> QED BY <2>1, <2>2
<1> HIDE DEF o
<1> DEFINE r == Occupy(o)
<1>7. /\ r \in SessionType /\ r.client = o.client /\ r.v4 = o.v4 /\ r.v6 = o.v6 /\ r.raced = o.raced
      /\ r.epoch = o.epoch /\ r.active = IF o.active >= MaxConns THEN o.active ELSE o.active + 1
  BY <1>6, OccupyForm
<1> HIDE DEF r
<1>8. ObjSet(s, r) BY <1>1, <1>3, <1>6, <1>7 DEF ObjSet, r
<1>9. CASE o.active >= MaxConns
  <2>1. ConnSet(c, NoConn) BY <1>1, <1>9, NoConnType DEF ConnSet, Close
  <2>2. SameCount(s, r) BY <1>4, <1>6, <1>7, <1>9, Constants DEF SameCount
  <2> QED BY <1>1, <1>5, <1>8, <2>1, <2>2
<1>10. CASE ~(o.active >= MaxConns)
  <2> DEFINE x == [conn[c] EXCEPT !.pc = "joined", !.s = s]
  <2>1. conn' = [conn EXCEPT ![c] = x] BY <1>1, <1>10
  <2>2. x \in ConnType /\ x.pc = "joined" /\ x.s = s /\ x.client = k
    <3>1. "joined" \in Pcs /\ s \in 0..MaxHandshakes BY <1>4, Constants DEF Pcs, InHandler, Obj
    <3> HIDE DEF s
    <3> QED BY <1>2, <3>1 DEF ConnType
  <2>3. ConnSet(c, x) BY <1>1, <2>1, <2>2 DEF ConnSet
  <2>4. Joins(s, r) BY <1>4, <1>6, <1>7, <1>10, Constants DEF Joins
  <2> HIDE DEF x
  <2> QED BY <1>1, <1>2, <1>5, <1>8, <2>2, <2>3, <2>4
<1> QED BY <1>9, <1>10

\* A rotation whose handshake then failed.
LEMMA TokenFailsShape ==
    ASSUME TypeOK, ConnInv, OwnInv, NEW c \in Conns, HsTokenFails(c)
    PROVE  \E o : LET s == sessions[conn[c].client] IN
             /\ ConnSet(c, NoConn) /\ ObjSet(s, o) /\ conn[c].pc = "gated"
             /\ o.epoch = obj[s].epoch + 1 /\ o.active = 0
<1> DEFINE k == conn[c].client
           s == sessions[k]
           r == RotateSessionEpoch(obj[s], conn[c].inst)
           o == Strand(r)
<1>1. /\ conn[c].pc = "gated" /\ s # None /\ obj' = [obj EXCEPT ![s] = o]
      /\ conn' = [conn EXCEPT ![c] = NoConn]
      /\ UNCHANGED <<created, del, tableVars, poolVars, fixed>>
  BY DEF HsTokenFails, At, Close
<1>2. k \in Clients /\ conn[c].inst \in Instances \cup {None}
  BY <1>1, ConnOf DEF ConnInv, ConnType
<1>3. s \in 1..created BY <1>1, <1>2 DEF OwnInv
<1>4. obj[s] \in SessionType BY <1>3, ObjOf
<1>5. /\ r \in SessionType /\ r.client = obj[s].client /\ r.v4 = obj[s].v4 /\ r.v6 = obj[s].v6
      /\ r.raced = obj[s].raced /\ r.active = 0 /\ r.epoch = obj[s].epoch + 1
  BY <1>2, <1>4, RotateForm
<1> HIDE DEF r
<1>6. /\ o \in SessionType /\ o.client = r.client /\ o.v4 = r.v4 /\ o.v6 = r.v6
      /\ o.raced = r.raced /\ o.active = r.active /\ o.epoch = r.epoch
  BY <1>5, StrandForm
<1> HIDE DEF o
<1>7. ObjSet(s, o) /\ ConnSet(c, NoConn)
  BY <1>1, <1>3, <1>5, <1>6, NoConnType DEF ObjSet, ConnSet
<1> QED BY <1>1, <1>5, <1>6, <1>7

\* A session that keeps its identity, epoch and count.
LEMMA ObjForms ==
    ASSUME TypeOK, NEW s \in 1..created, NEW b \in SUBSET Conns, NEW n \in Nat,
           NEW dl \in [st : {"none", "running", "expired"}, ver : Nat], NEW o,
           \/ o = obj[s]
           \/ o = [obj[s] EXCEPT !.backends = b]
           \/ o = [obj[s] EXCEPT !.version = n]
           \/ o = [obj[s] EXCEPT !.deadline = dl]
           \/ o = [obj[s] EXCEPT !.exhausted = TRUE]
           \/ o = [obj[s] EXCEPT !.force = TRUE],
           obj' = [obj EXCEPT ![s] = o]
    PROVE  ObjSet(s, o) /\ SameCount(s, o)
<1>1. obj[s] \in SessionType BY ObjOf
<1>2. /\ o \in SessionType /\ SameCount(s, o)
      /\ o.client = obj[s].client /\ o.v4 = obj[s].v4 /\ o.v6 = obj[s].v6 /\ o.raced = obj[s].raced
  <2>1. CASE o = obj[s] BY <1>1, <2>1 DEF SameCount
  <2>2. CASE o = [obj[s] EXCEPT !.backends = b] BY <1>1, <2>2 DEF SessionType, SameCount
  <2>3. CASE o = [obj[s] EXCEPT !.version = n] BY <1>1, <2>3 DEF SessionType, SameCount
  <2>4. CASE o = [obj[s] EXCEPT !.deadline = dl] BY <1>1, <2>4 DEF SessionType, SameCount
  <2>5. CASE o = [obj[s] EXCEPT !.exhausted = TRUE] BY <1>1, <2>5 DEF SessionType, SameCount
  <2>6. CASE o = [obj[s] EXCEPT !.force = TRUE] BY <1>1, <2>6 DEF SessionType, SameCount
  <2> QED BY <2>1, <2>2, <2>3, <2>4, <2>5, <2>6
<1> QED BY <1>2 DEF ObjSet

LEMMA InSession ==
    ASSUME TypeOK, ConnInv, NEW c \in Conns, conn[c].pc \notin Before
    PROVE  /\ conn[c].s \in 1..created /\ conn[c].client \in Clients
           /\ obj = [obj EXCEPT ![conn[c].s] = obj[conn[c].s]]
<1>1. conn[c].s \in 1..created /\ conn[c].client \in Clients BY DEF ConnInv, Before
<1> QED BY <1>1, ObjOf

\* HsSnapshot, HsRegister: the connection is brought into service.
LEMMA EnterShape ==
    ASSUME TypeOK, ConnInv, NEW c \in Conns, HsSnapshot(c) \/ HsRegister(c)
    PROVE  \E x, o :
             /\ ConnSet(c, x) /\ ObjSet(conn[c].s, o) /\ Follows(c, x) /\ SameCount(conn[c].s, o)
             /\ \/ conn[c].pc = "joined" /\ x.pc = "snapped" /\ x.epoch = obj[conn[c].s].epoch
                \/ conn[c].pc = "snapped" /\ x.pc = "up" /\ x.epoch = conn[c].epoch
<1> DEFINE s == conn[c].s
<1>1. conn[c].pc \notin Before BY DEF HsSnapshot, HsRegister, At, Before
<1>2. s \in 1..created /\ conn[c].client \in Clients /\ obj = [obj EXCEPT ![s] = obj[s]]
  BY <1>1, InSession
<1>3. obj[s].epoch \in Nat /\ obj[s].backends \in SUBSET Conns /\ conn[c] \in ConnType
  BY <1>2, ObjOf, ConnOf
<1>4. "snapped" \in Pcs /\ "up" \in Pcs BY DEF Pcs, InHandler
<1>5. CASE HsSnapshot(c)
  <2> DEFINE e == obj[s].epoch
             x == [conn[c] EXCEPT !.pc = "snapped", !.epoch = e]
  <2>1. x \in ConnType /\ x.pc = "snapped" /\ Follows(c, x) /\ x.epoch = e
    <3> HIDE DEF e
    <3> QED BY <1>3, <1>4 DEF ConnType, Follows, e
  <2>2. ConnSet(c, x) BY <1>5, <2>1 DEF HsSnapshot, ConnSet
  <2>3. obj' = [obj EXCEPT ![s] = obj[s]] BY <1>2, <1>5 DEF HsSnapshot
  <2>4. ObjSet(s, obj[s]) /\ SameCount(s, obj[s])
    BY <1>2, <2>3, ObjOf DEF ObjSet, SameCount
  <2>5. conn[c].pc = "joined" BY <1>5 DEF HsSnapshot, At
  <2> HIDE DEF x
  <2> QED BY <2>1, <2>2, <2>4, <2>5
<1>6. CASE HsRegister(c)
  <2> DEFINE x == [conn[c] EXCEPT !.pc = "up"]
             b == obj[s].backends \cup {c}
             o == [obj[s] EXCEPT !.backends = b]
  <2>1. x \in ConnType /\ x.pc = "up" /\ Follows(c, x) /\ x.epoch = conn[c].epoch
    BY <1>4, PcForm
  <2>2. ConnSet(c, x) BY <1>6, <2>1 DEF HsRegister, ConnSet, Goto
  <2>3. obj' = [obj EXCEPT ![s] = o] BY <1>6 DEF HsRegister
  <2>4. b \in SUBSET Conns BY <1>3
  <2>5. ObjSet(s, o) /\ SameCount(s, o)
    <3> HIDE DEF b
    <3>1. 0 \in Nat /\ obj[s].deadline \in [st : {"none", "running", "expired"}, ver : Nat]
      BY <1>2, ObjOf
    <3> QED BY <1>2, <2>3, <2>4, <3>1, ObjForms
  <2>6. conn[c].pc = "snapped" BY <1>6 DEF HsRegister, At
  <2> HIDE DEF x, o
  <2> QED BY <2>1, <2>2, <2>5, <2>6
<1> QED BY <1>5, <1>6

\* Fail, ScanCloses, ScanExhausted: the connection is given up, and the first
\* that sees a used-up sequence space retires the epoch.
LEMMA DoomShape ==
    ASSUME TypeOK, ConnInv, NEW c \in Conns, conn[c].pc = "up",
           Fail(c) \/ ScanCloses(c) \/ ScanExhausted(c)
    PROVE  \E x, o :
             /\ ConnSet(c, x) /\ ObjSet(conn[c].s, o) /\ Follows(c, x)
             /\ x.pc = "doomed" /\ x.epoch = conn[c].epoch /\ WorkerIdle(WorkerOf[c])
             /\ \/ SameCount(conn[c].s, o)
                \/ o.epoch = obj[conn[c].s].epoch + 1 /\ o.active = 0
<1> DEFINE s == conn[c].s
           x == [conn[c] EXCEPT !.pc = "doomed"]
<1>1. s \in 1..created /\ obj = [obj EXCEPT ![s] = obj[s]]
  BY InSession DEF Before
<1>2. obj[s] \in SessionType /\ obj[s].epoch \in Nat BY <1>1, ObjOf
<1>3. "doomed" \in Pcs BY DEF Pcs
<1>4. x \in ConnType /\ x.pc = "doomed" /\ Follows(c, x) /\ x.epoch = conn[c].epoch
  BY <1>3, PcForm
<1>5. ConnSet(c, x) /\ WorkerIdle(WorkerOf[c])
  BY <1>4 DEF Fail, ScanCloses, ScanExhausted, ConnSet, Goto, At
<1> HIDE DEF x
<1>6. CASE obj' = obj
  <2>1. ObjSet(s, obj[s]) /\ SameCount(s, obj[s])
    BY <1>1, <1>2, <1>6 DEF ObjSet, SameCount
  <2> QED BY <1>4, <1>5, <2>1
<1>7. CASE obj' = [obj EXCEPT ![s] = Strand(RetireEpoch(obj[s]))]
  <2> DEFINE e == obj[s].epoch + 1
             p == [obj[s] EXCEPT !.retired = TRUE, !.epoch = e, !.active = 0]
             o == Strand(p)
  <2>0. p = RetireEpoch(obj[s]) BY DEF RetireEpoch
  <2>1. obj' = [obj EXCEPT ![s] = o] BY <1>7, <2>0
  <2>2. e \in Nat BY <1>2
  <2>a. /\ p \in SessionType /\ p.client = obj[s].client /\ p.v4 = obj[s].v4
        /\ p.v6 = obj[s].v6 /\ p.raced = obj[s].raced /\ p.epoch = e /\ p.active = 0
    <3> HIDE DEF e
    <3> QED BY <1>2, <2>2 DEF SessionType
  <2> HIDE DEF p
  <2>3. /\ o \in SessionType /\ o.client = obj[s].client /\ o.v4 = obj[s].v4
        /\ o.v6 = obj[s].v6 /\ o.raced = obj[s].raced /\ o.epoch = e /\ o.active = 0
    BY <2>a, StrandForm
  <2>4. ObjSet(s, o) BY <1>1, <2>1, <2>3 DEF ObjSet
  <2> HIDE DEF o
  <2> QED BY <1>4, <1>5, <2>3, <2>4
<1>8. ASSUME ScanExhausted(c)
      PROVE  \/ obj' = [obj EXCEPT ![s] = obj[s]]
             \/ obj' = [obj EXCEPT ![s] = Strand(RetireEpoch(obj[s]))]
  BY <1>8 DEF ScanExhausted
<1> QED BY <1>1, <1>6, <1>7, <1>8 DEF Fail, ScanCloses, At

LEMMA CloseEpochShape ==
    ASSUME TypeOK, ConnInv, NEW c \in Conns, CloseEpoch(c)
    PROVE  \E x, o :
             /\ ConnSet(c, x) /\ ObjSet(conn[c].s, o) /\ SameCount(conn[c].s, o)
             /\ conn[c].pc = "doomed" /\ WorkerIdle(WorkerOf[c])
             /\ \/ x = NoConn /\ conn[c].epoch # obj[conn[c].s].epoch
                \/ /\ x.pc = "leaving" /\ Follows(c, x) /\ x.epoch = conn[c].epoch
                   /\ conn[c].epoch = obj[conn[c].s].epoch
<1> DEFINE s == conn[c].s
           b == obj[s].backends \ {c}
           o == [obj[s] EXCEPT !.backends = b]
<1>1. conn[c].pc = "doomed" /\ WorkerIdle(WorkerOf[c]) BY DEF CloseEpoch, At
<1>2. s \in 1..created BY <1>1, InSession DEF Before
<1>3. b \in SUBSET Conns /\ obj[s].deadline \in [st : {"none", "running", "expired"}, ver : Nat]
  BY <1>2, ObjOf
<1>4. obj' = [obj EXCEPT ![s] = o] BY DEF CloseEpoch
<1>5. ObjSet(s, o) /\ SameCount(s, o)
  <2> HIDE DEF b
  <2> QED BY <1>2, <1>3, <1>4, ObjForms
<1> HIDE DEF o
<1>6. CASE conn[c].epoch # obj[s].epoch
  <2>1. ConnSet(c, NoConn) BY <1>6, NoConnType DEF CloseEpoch, ConnSet, Close
  <2> QED BY <1>1, <1>5, <1>6, <2>1
<1>7. CASE conn[c].epoch = obj[s].epoch
  <2> DEFINE x == [conn[c] EXCEPT !.pc = "leaving"]
  <2>1. "leaving" \in Pcs BY DEF Pcs, InHandler
  <2>2. x \in ConnType /\ x.pc = "leaving" /\ Follows(c, x) /\ x.epoch = conn[c].epoch
    BY <2>1, PcForm
  <2>3. ConnSet(c, x) BY <1>7, <2>2 DEF CloseEpoch, ConnSet, Goto
  <2> HIDE DEF x
  <2> QED BY <1>1, <1>5, <1>7, <2>2, <2>3
<1> QED BY <1>6, <1>7

LEMMA CloseCountShape ==
    ASSUME TypeOK, ConnInv, NEW c \in Conns, CloseCount(c)
    PROVE  \E x, o :
             /\ ConnSet(c, x) /\ ObjSet(conn[c].s, o) /\ conn[c].pc = "leaving"
             /\ o.epoch = obj[conn[c].s].epoch
             /\ o.active = IF obj[conn[c].s].active = 0 THEN CountMod - 1
                           ELSE obj[conn[c].s].active - 1
             /\ x = NoConn \/ (x.pc = "last" /\ Follows(c, x))
<1> DEFINE s == conn[c].s
           n == IF obj[s].active = 0 THEN CountMod - 1 ELSE obj[s].active - 1
           o == [obj[s] EXCEPT !.active = n]
<1>1. conn[c].pc = "leaving" BY DEF CloseCount, At
<1>2. s \in 1..created BY <1>1, InSession DEF Before
<1>3. obj[s] \in SessionType /\ obj[s].active \in Nat BY <1>2, ObjOf
<1>4. n \in Nat BY <1>3, Constants
<1>5. obj' = [obj EXCEPT ![s] = o] BY DEF CloseCount
<1> HIDE DEF n
<1>6. /\ o \in SessionType /\ o.client = obj[s].client /\ o.v4 = obj[s].v4
      /\ o.v6 = obj[s].v6 /\ o.raced = obj[s].raced /\ o.epoch = obj[s].epoch /\ o.active = n
  BY <1>3, <1>4 DEF SessionType
<1>7. ObjSet(s, o) BY <1>2, <1>5, <1>6 DEF ObjSet
<1> HIDE DEF o
<1>8. CASE Close(c)
  <2>1. ConnSet(c, NoConn) BY <1>8, NoConnType DEF CloseCount, ConnSet, Close
  <2> QED BY <1>1, <1>6, <1>7, <2>1 DEF n
<1>9. CASE Goto(c, "last")
  <2> DEFINE x == [conn[c] EXCEPT !.pc = "last"]
  <2>1. "last" \in Pcs BY DEF Pcs, InHandler
  <2>2. x \in ConnType /\ x.pc = "last" /\ Follows(c, x) BY <2>1, PcForm
  <2>3. ConnSet(c, x) BY <1>9, <2>2 DEF CloseCount, ConnSet, Goto
  <2> HIDE DEF x
  <2> QED BY <1>1, <1>6, <1>7, <2>2, <2>3 DEF n
<1> QED BY <1>8, <1>9 DEF CloseCount

\* CloseVersion, CloseDeadline: the countdown is started.
LEMMA CloseLastShape ==
    ASSUME TypeOK, ConnInv, NEW c \in Conns, CloseVersion(c) \/ CloseDeadline(c)
    PROVE  \E x, o :
             /\ ConnSet(c, x) /\ ObjSet(conn[c].s, o) /\ SameCount(conn[c].s, o)
             /\ conn[c].pc \in {"last", "stamped"}
             /\ x = NoConn \/ (x.pc = "stamped" /\ Follows(c, x))
<1> DEFINE s == conn[c].s
<1>1. conn[c].pc \in {"last", "stamped"} BY DEF CloseVersion, CloseDeadline, At
<1>2. s \in 1..created BY <1>1, InSession DEF Before
<1>3. /\ obj[s] \in SessionType /\ obj[s].version \in Nat /\ {} \in SUBSET Conns
      /\ obj[s].deadline \in [st : {"none", "running", "expired"}, ver : Nat]
      /\ conn[c] \in ConnType /\ conn[c].ver \in Nat
  BY <1>2, ObjOf, ConnOf DEF ConnType
<1>4. CASE CloseVersion(c)
  <2> DEFINE n == obj[s].version + 1
             o == [obj[s] EXCEPT !.version = n]
             x == [conn[c] EXCEPT !.pc = "stamped", !.ver = n]
  <2>1. n \in Nat /\ "stamped" \in Pcs BY <1>3 DEF Pcs, InHandler
  <2>2. obj' = [obj EXCEPT ![s] = o] /\ conn' = [conn EXCEPT ![c] = x]
    BY <1>4 DEF CloseVersion
  <2> HIDE DEF n
  <2>3. ObjSet(s, o) /\ SameCount(s, o) BY <1>2, <1>3, <2>1, <2>2, ObjForms
  <2>4. x \in ConnType /\ x.pc = "stamped" /\ Follows(c, x)
    BY <1>3, <2>1 DEF ConnType, Follows
  <2>5. ConnSet(c, x) BY <1>4, <2>2, <2>4 DEF CloseVersion, ConnSet
  <2> HIDE DEF o, x
  <2> QED BY <1>1, <2>3, <2>4, <2>5
<1>5. CASE CloseDeadline(c)
  <2> DEFINE dl == Deadline("running", conn[c].ver)
             o == [obj[s] EXCEPT !.deadline = dl]
  <2>1. dl \in [st : {"none", "running", "expired"}, ver : Nat] BY <1>3 DEF Deadline
  <2>2. obj' = [obj EXCEPT ![s] = o] BY <1>5 DEF CloseDeadline
  <2> HIDE DEF dl
  <2>3. ObjSet(s, o) /\ SameCount(s, o) BY <1>2, <1>3, <2>1, <2>2, ObjForms
  <2>4. ConnSet(c, NoConn) BY <1>5, NoConnType DEF CloseDeadline, ConnSet, Close
  <2> HIDE DEF o
  <2> QED BY <1>1, <2>3, <2>4
<1> QED BY <1>4, <1>5

\* Time passes, a sequence space is used up: no connection moves.
LEMMA TimeShape ==
    ASSUME TypeOK, NEW s \in Obj, Expire(s) \/ SequenceExhausted(s)
    PROVE  /\ UNCHANGED <<created, conn, del, tableVars, poolVars, accepted, orders>>
           /\ exhaustions' \in Nat
           /\ \E o : /\ obj' = [obj EXCEPT ![s] = o] /\ o \in SessionType /\ SameCount(s, o)
                    /\ o.client = obj[s].client /\ o.v4 = obj[s].v4 /\ o.v6 = obj[s].v6 /\ o.raced = obj[s].raced
<1>1. obj[s] \in SessionType /\ exhaustions \in Nat
      /\ obj[s].deadline \in [st : {"none", "running", "expired"}, ver : Nat]
  BY DEF TypeOK, SessionType
<1>2. CASE Expire(s)
  <2> DEFINE dl == [obj[s].deadline EXCEPT !.st = "expired"]
             o == [obj[s] EXCEPT !.deadline = dl]
  <2>1. dl \in [st : {"none", "running", "expired"}, ver : Nat] BY <1>1
  <2>2. obj' = [obj EXCEPT ![s] = o] BY <1>2 DEF Expire
  <2> HIDE DEF dl
  <2>3. /\ o \in SessionType /\ SameCount(s, o)
        /\ o.client = obj[s].client /\ o.v4 = obj[s].v4 /\ o.v6 = obj[s].v6 /\ o.raced = obj[s].raced
    BY <1>1, <2>1 DEF SessionType, SameCount
  <2> HIDE DEF o
  <2> QED BY <1>1, <1>2, <2>2, <2>3 DEF Expire, fixed
<1>3. CASE SequenceExhausted(s)
  <2> DEFINE o == [obj[s] EXCEPT !.exhausted = TRUE]
  <2>1. obj' = [obj EXCEPT ![s] = o] BY <1>3 DEF SequenceExhausted
  <2>2. /\ o \in SessionType /\ SameCount(s, o)
        /\ o.client = obj[s].client /\ o.v4 = obj[s].v4 /\ o.v6 = obj[s].v6 /\ o.raced = obj[s].raced
    BY <1>1 DEF SessionType, SameCount
  <2>3. /\ UNCHANGED <<created, conn, del, tableVars, poolVars, accepted, orders>>
        /\ exhaustions' \in Nat
    BY <1>1, <1>3 DEF SequenceExhausted
  <2> HIDE DEF o
  <2> QED BY <2>1, <2>2, <2>3
<1> QED BY <1>2, <1>3

-----------------------------------------------------------------------------
(* The pool under the steps that leave table and pool alone *)

ObjKeeps ==
    /\ obj' \in [Obj -> SessionType]
    /\ \A s \in Obj : obj'[s].client = obj[s].client /\ obj'[s].v4 = obj[s].v4
                      /\ obj'[s].v6 = obj[s].v6 /\ obj'[s].raced = obj[s].raced

LEMMA LiveFacts ==
    ASSUME TypeOK, OwnInv
    PROVE  /\ Live \subseteq 1..created /\ Dying \subseteq 1..created /\ 1..created \subseteq Obj
           /\ Live \cap Dying = {}
           /\ \A d \in Threads : Busy(d) => del[d].s \in Dying
<1>1. created \in 0..MaxHandshakes /\ MaxHandshakes \in Nat BY Constants DEF TypeOK
<1>2. Live \subseteq 1..created BY <1>1 DEF Live, Obj
<1>3. Dying = {del[d].s : d \in {e \in Threads : Busy(e)}} BY DEF Dying, Threads, Busy
<1>4. Dying \subseteq 1..created BY <1>3 DEF OwnInv
<1>5. Live \cap Dying = {} BY <1>3 DEF OwnInv, Live
<1> QED BY <1>1, <1>2, <1>3, <1>4, <1>5 DEF Obj

LEMMA KeepsPool ==
    ASSUME TypeOK, OwnInv, AddrInv, ObjKeeps,
           UNCHANGED <<sessions, created, del, used4, used6, macToIp>>
    PROVE  Live' = Live /\ Dying' = Dying /\ OwnInv' /\ AddrInv'
<1>1. \A s \in 1..created : s \in Obj BY LiveFacts
<1>2. \A k \in Clients : sessions[k] # None => sessions[k] \in 1..created BY DEF OwnInv
<1>3. Live' = Live BY DEF Live, ObjKeeps
<1>4. Dying' = Dying BY DEF Dying
<1>5. OwnInv'
  <2>1. \A k \in Clients : sessions'[k] # None =>
          sessions'[k] \in 1..created' /\ obj'[sessions'[k]].client = k
    BY <1>1 DEF OwnInv, ObjKeeps
  <2>2. \A s \in 1..created' : obj'[s].client \in Clients BY <1>1 DEF OwnInv, ObjKeeps
  <2>3. ASSUME NEW d \in Threads
        PROVE  /\ del'[d].todo \subseteq 1..created'
               /\ Busy(d)' => del'[d].s \in 1..created'
                              /\ sessions'[obj'[del'[d].s].client] # del'[d].s
    BY <1>1 DEF OwnInv, ObjKeeps, Busy
  <2>4. \A d, e \in Threads : d # e /\ Busy(d)' /\ Busy(e)' => del'[d].s # del'[e].s
    BY DEF OwnInv, Busy
  <2> QED BY <2>1, <2>2, <2>3, <2>4 DEF OwnInv
<1>6. AddrInv'
  <2>1. Holders' = Holders BY <1>3, <1>4 DEF Holders
  <2>2. \A s \in Holders : s \in Obj BY LiveFacts DEF Holders
  <2>3. {obj'[s].v4 : s \in Holders} = {obj[s].v4 : s \in Holders}
    BY <2>2 DEF ObjKeeps
  <2>4. {obj'[s].v6 : s \in Holders} = {obj[s].v6 : s \in Holders}
    BY <2>2 DEF ObjKeeps
  <2>5. \A s, r \in Holders : s # r => obj'[s].v4 # obj'[r].v4 /\ obj'[s].v6 # obj'[r].v6
    BY <2>2 DEF ObjKeeps, AddrInv
  <2>6. \A s \in Live : macToIp'[obj'[s].client] = <<obj'[s].v4, obj'[s].v6>>
    BY <2>2 DEF ObjKeeps, AddrInv, Holders
  <2> QED BY <1>3, <2>1, <2>3, <2>4, <2>5, <2>6 DEF AddrInv
<1> QED BY <1>3, <1>4, <1>5, <1>6

LEMMA ObjSetKeeps ==
    ASSUME TypeOK, NEW s, NEW o, ObjSet(s, o)
    PROVE  /\ ObjKeeps /\ obj'[s] = o /\ s \in Obj
           /\ \A r \in Obj \ {s} : obj'[r] = obj[r]
<1>1. s \in Obj /\ obj \in [Obj -> SessionType] BY ObjOf DEF ObjSet
<1> QED BY <1>1 DEF ObjSet, ObjKeeps

LEMMA PendingShrinks ==
    ASSUME TypeOK, PendingInv, Pending' \subseteq Pending, UNCHANGED <<created, accepted>>
    PROVE  PendingInv'
<1>1. IsFiniteSet(Pending') /\ Cardinality(Pending') <= Cardinality(Pending)
  BY FS_Subset DEF PendingInv
<1>2. Cardinality(Pending) \in Nat /\ Cardinality(Pending') \in Nat
  BY <1>1, FS_CardinalityType DEF PendingInv
<1> QED BY <1>1, <1>2, Constants DEF PendingInv, TypeOK

\* A step of connection c with its session.
LEMMA LocalPool ==
    ASSUME PoolInv, NEW c \in Conns, NEW x, ConnSet(c, x), ObjKeeps,
           x.pc # "closed" => x.client \in Clients,
           x.pc \in Before => x.s = None,
           x.pc \notin Before => x.s \in 1..created,
           x.pc \in {"hello", "gated"} => conn[c].pc \in {"hello", "gated"}
    PROVE  PoolInv' /\ Live' = Live
<1>1. UNCHANGED <<sessions, ports, registry, created, del, used4, used6, macToIp,
                  accepted, exhaustions, orders>>
  BY DEF ConnSet, tableVars, poolVars, fixed
<1>2. /\ conn' \in [Conns -> ConnType] /\ conn'[c] = x
      /\ \A d \in Conns \ {c} : conn'[d] = conn[d]
  BY ConnOf DEF ConnSet, PoolInv
<1>3. TypeOK' BY <1>1, <1>2 DEF PoolInv, TypeOK, ObjKeeps
<1>4. Live' = Live /\ OwnInv' /\ AddrInv' BY <1>1, KeepsPool DEF PoolInv
<1>5. Pending' \subseteq Pending BY <1>2 DEF Pending
<1>6. PendingInv' BY <1>1, <1>5, PendingShrinks DEF PoolInv
<1>7. ConnInv' BY <1>1, <1>2 DEF PoolInv, ConnInv
<1> QED BY <1>3, <1>4, <1>6, <1>7 DEF PoolInv

LEMMA ConnPool ==
    ASSUME PoolInv, NEW c \in Conns,
           \/ HsGate(c) \/ HsRefuse(c) \/ HsNoCapacity(c) \/ HsNoToken(c) \/ HsJoin(c)
           \/ HsTokenFails(c) \/ HsSnapshot(c)
           \/ HsRegister(c) \/ Fail(c) \/ ScanCloses(c) \/ ScanExhausted(c) \/ CloseEpoch(c)
           \/ CloseCount(c) \/ CloseVersion(c) \/ CloseDeadline(c)
    PROVE  PoolInv' /\ Live' = Live
<1> USE NoConnType DEF Before
<1>1. TypeOK /\ ConnInv /\ OwnInv BY DEF PoolInv
<1>2. CASE HsGate(c) \/ HsRefuse(c) \/ HsNoCapacity(c) \/ HsNoToken(c) \/ (Fail(c) /\ At(c, "hello"))
  <2>1. PICK x : /\ ConnSet(c, x) /\ obj' = obj /\ conn[c].pc \in {"hello", "gated"}
                 /\ \/ x = NoConn
                    \/ x.pc = "gated" /\ x.s = None /\ x.client \in Clients
    BY <1>1, <1>2, OutsideShape
  <2>2. ObjKeeps BY <1>1, <2>1 DEF ObjKeeps, TypeOK
  <2> QED BY <2>1, <2>2, LocalPool
<1>3. CASE HsJoin(c)
  <2> DEFINE s == sessions[conn[c].client]
  <2>1. PICK x, o : /\ ConnSet(c, x) /\ ObjSet(s, o) /\ s \in Live
                    /\ x = NoConn \/ (x.pc = "joined" /\ x.s = s /\ x.client \in Clients)
    BY <1>1, <1>3, HsJoinShape
  <2>2. ObjKeeps /\ s \in 1..created BY <1>1, <2>1, ObjSetKeeps DEF ObjSet
  <2> HIDE DEF s
  <2> QED BY <2>1, <2>2, LocalPool
<1>t. CASE HsTokenFails(c)
  <2>1. PICK o : ConnSet(c, NoConn) /\ ObjSet(sessions[conn[c].client], o)
    BY <1>1, <1>t, TokenFailsShape
  <2>2. ObjKeeps BY <1>1, <2>1, ObjSetKeeps
  <2> QED BY <2>1, <2>2, LocalPool
<1>4. ASSUME NEW x, NEW o, ConnSet(c, x), ObjSet(conn[c].s, o), conn[c].pc \notin Before,
             x = NoConn \/ (Follows(c, x) /\ x.pc \notin Before)
      PROVE  PoolInv' /\ Live' = Live
  <2>1. conn[c].s \in 1..created /\ conn[c].client \in Clients BY <1>1, <1>4, InSession
  <2>2. ObjKeeps BY <1>1, <1>4, ObjSetKeeps
  <2> QED BY <1>4, <2>1, <2>2, LocalPool DEF Follows
<1>5. CASE HsSnapshot(c) \/ HsRegister(c)
  <2>1. PICK x, o : /\ ConnSet(c, x) /\ ObjSet(conn[c].s, o) /\ Follows(c, x)
                    /\ conn[c].pc \in {"joined", "snapped"} /\ x.pc \in {"snapped", "up"}
    BY <1>1, <1>5, EnterShape
  <2> QED BY <1>4, <2>1
<1>6. CASE (Fail(c) /\ ~At(c, "hello")) \/ ScanCloses(c) \/ ScanExhausted(c)
  <2>1. conn[c].pc = "up" BY <1>6 DEF Fail, ScanCloses, ScanExhausted, At
  <2>2. PICK x, o : ConnSet(c, x) /\ ObjSet(conn[c].s, o) /\ Follows(c, x) /\ x.pc = "doomed"
    BY <1>1, <1>6, <2>1, DoomShape
  <2> QED BY <1>4, <2>1, <2>2
<1>7. CASE CloseEpoch(c)
  <2>1. PICK x, o : /\ ConnSet(c, x) /\ ObjSet(conn[c].s, o) /\ conn[c].pc = "doomed"
                    /\ x = NoConn \/ (x.pc = "leaving" /\ Follows(c, x))
    BY <1>1, <1>7, CloseEpochShape
  <2> QED BY <1>4, <2>1
<1>8. CASE CloseCount(c)
  <2>1. PICK x, o : /\ ConnSet(c, x) /\ ObjSet(conn[c].s, o) /\ conn[c].pc = "leaving"
                    /\ x = NoConn \/ (x.pc = "last" /\ Follows(c, x))
    BY <1>1, <1>8, CloseCountShape
  <2> QED BY <1>4, <2>1
<1>9. CASE CloseVersion(c) \/ CloseDeadline(c)
  <2>1. PICK x, o : /\ ConnSet(c, x) /\ ObjSet(conn[c].s, o)
                    /\ conn[c].pc \in {"last", "stamped"}
                    /\ x = NoConn \/ (x.pc = "stamped" /\ Follows(c, x))
    BY <1>1, <1>9, CloseLastShape
  <2> QED BY <1>4, <2>1
<1> QED BY <1>2, <1>3, <1>t, <1>5, <1>6, <1>7, <1>8, <1>9

LEMMA TimePool ==
    ASSUME PoolInv, NEW s \in Obj, Expire(s) \/ SequenceExhausted(s)
    PROVE  PoolInv' /\ Live' = Live
<1>1. TypeOK /\ OwnInv /\ AddrInv BY DEF PoolInv
<1>2. /\ UNCHANGED <<created, conn, del, tableVars, poolVars, accepted, orders>>
      /\ exhaustions' \in Nat
  BY <1>1, TimeShape
<1>3. PICK o : /\ obj' = [obj EXCEPT ![s] = o] /\ o \in SessionType /\ SameCount(s, o)
               /\ o.client = obj[s].client /\ o.v4 = obj[s].v4 /\ o.v6 = obj[s].v6 /\ o.raced = obj[s].raced
  BY <1>1, TimeShape
<1>4. ObjKeeps BY <1>1, <1>3 DEF ObjKeeps, TypeOK
<1>5. Live' = Live /\ OwnInv' /\ AddrInv'
  BY <1>1, <1>2, <1>4, KeepsPool DEF tableVars, poolVars
<1>6. TypeOK' BY <1>1, <1>2, <1>4 DEF TypeOK, ObjKeeps, tableVars, poolVars
<1>7. PendingInv' /\ ConnInv' BY <1>2 DEF PoolInv, PendingInv, Pending, ConnInv
<1> QED BY <1>5, <1>6, <1>7 DEF PoolInv

LEMMA ConnectPool ==
    ASSUME PoolInv, NEW c \in Conns, NEW k \in Clients, NEW i \in Instances, Connect(c, k, i)
    PROVE  PoolInv' /\ Live' = Live
<1> DEFINE x == [NoConn EXCEPT !.pc = "hello", !.client = k, !.inst = i]
<1>1. x \in ConnType /\ x.pc = "hello" /\ x.client = k /\ x.s = None
  <2>1. "hello" \in Pcs BY DEF Pcs
  <2> QED BY <2>1, NoConnType DEF ConnType
<1>2. /\ conn' = [conn EXCEPT ![c] = x] /\ conn[c].pc = "closed"
      /\ accepted < MaxHandshakes /\ accepted' = accepted + 1
      /\ UNCHANGED <<obj, created, del, sessions, ports, registry, exhaustions, orders,
                     used4, used6, macToIp>>
  BY DEF Connect, At, tableVars, poolVars
<1> HIDE DEF x
<1>3. /\ conn' \in [Conns -> ConnType] /\ conn'[c] = x
      /\ \A d \in Conns \ {c} : conn'[d] = conn[d]
  BY <1>1, <1>2, ConnOf DEF PoolInv
<1>4. TypeOK' BY <1>2, <1>3 DEF PoolInv, TypeOK
<1>5. ObjKeeps BY <1>2 DEF PoolInv, TypeOK, ObjKeeps
<1>6. Live' = Live /\ OwnInv' /\ AddrInv' BY <1>2, <1>5, KeepsPool DEF PoolInv
<1>7. PendingInv'
  <2>1. Pending' = Pending \cup {c} /\ c \notin Pending BY <1>1, <1>2, <1>3 DEF Pending
  <2>2. IsFiniteSet(Pending') /\ Cardinality(Pending') = Cardinality(Pending) + 1
    BY <2>1, FS_AddElement DEF PoolInv, PendingInv
  <2>3. Cardinality(Pending) \in Nat BY FS_CardinalityType DEF PoolInv, PendingInv
  <2> QED BY <1>2, <2>2, <2>3, Constants DEF PoolInv, PendingInv, TypeOK
<1>8. ConnInv' BY <1>1, <1>2, <1>3 DEF PoolInv, ConnInv, Before
<1> QED BY <1>4, <1>6, <1>7, <1>8 DEF PoolInv

-----------------------------------------------------------------------------
(* Destruction *)

\* A thread changes its place in destroy_session.
DelSet(d, x) == del' = [del EXCEPT ![d] = x]

LEMMA DelSetType ==
    ASSUME TypeOK, NEW d \in Threads, NEW x \in DelType, DelSet(d, x)
    PROVE  /\ del' \in [Threads -> DelType] /\ del'[d] = x
           /\ \A e \in Threads \ {d} : del'[e] = del[e]
BY DEF TypeOK, DelSet

\* Reap, Kick and the ban: a thread picks sessions, and nothing else changes.
LEMMA PickPool ==
    ASSUME PoolInv, NEW d \in Threads, NEW todo, todo \subseteq 1..created,
           del[d].pc = "idle", DelSet(d, Picked(todo)),
           UNCHANGED <<sessions, ports, registry, obj, created, conn, accepted, exhaustions,
                       used4, used6, macToIp>>, orders' \in Nat
    PROVE  /\ PoolInv' /\ Live' = Live /\ del'[d].pc = "picked" /\ del'[d].todo = todo
           /\ \A e \in Threads \ {d} : del'[e] = del[e]
<1> DEFINE x == Picked(todo)
<1>1. TypeOK /\ OwnInv BY DEF PoolInv
<1>2. todo \in SUBSET Obj BY <1>1, LiveFacts
<1>3. x \in DelType /\ x.pc = "picked" /\ x.todo = todo BY <1>2, PickedType
<1> HIDE DEF x
<1>4. /\ del' \in [Threads -> DelType] /\ del'[d] = x
      /\ \A e \in Threads \ {d} : del'[e] = del[e]
  BY <1>1, <1>3, DelSetType DEF x
<1>5. TypeOK' BY <1>1, <1>4 DEF TypeOK
<1>6. \A e \in Threads : Busy(e)' <=> Busy(e) BY <1>3, <1>4 DEF Busy
<1>7. Live' = Live BY DEF Live
<1>8. Dying' = Dying
  <2>1. Dying = {del[e].s : e \in {f \in Threads : Busy(f)}} BY DEF Dying, Threads, Busy
  <2>2. Dying' = {del'[e].s : e \in {f \in Threads : Busy(f)'}} BY DEF Dying, Threads, Busy
  <2>3. \A e \in Threads : Busy(e) => del'[e].s = del[e].s BY <1>4 DEF Busy
  <2> QED BY <1>6, <2>1, <2>2, <2>3
<1>9. OwnInv'
  <2>1. \A e \in Threads :
          /\ del'[e].todo \subseteq 1..created
          /\ Busy(e) => del'[e].s \in 1..created /\ sessions[obj[del'[e].s].client] # del'[e].s
    BY <1>1, <1>3, <1>4, ZenonT(40) DEF OwnInv, Busy
  <2>2. \A e, f \in Threads : e # f /\ Busy(e) /\ Busy(f) => del'[e].s # del'[f].s
    BY <1>1, <1>4 DEF OwnInv, Busy
  <2> QED BY <1>1, <1>6, <2>1, <2>2 DEF OwnInv
<1>10. AddrInv' BY <1>7, <1>8 DEF PoolInv, AddrInv, Holders
<1>11. PendingInv' /\ ConnInv' BY DEF PoolInv, PendingInv, Pending, ConnInv
<1> QED BY <1>3, <1>4, <1>5, <1>7, <1>9, <1>10, <1>11 DEF PoolInv

\* The session leaves the table: it moves from Live to Dying, or another thread
\* was first.
LEMMA RemoveShape ==
    ASSUME PoolInv, NEW d \in Threads, DestroyRemove(d)
    PROVE  \E s \in del[d].todo, x \in DelType :
             /\ DelSet(d, x) /\ del[d].pc = "picked" /\ ObjKeeps
             /\ \A r \in 1..created : SameCount(r, obj'[r])
             /\ x.todo = del[d].todo \ {s}
             /\ UNCHANGED <<ports, registry, banned, created, conn, poolVars, fixed>>
             /\ \/ /\ sessions[obj[s].client] = s /\ x.pc = "port" /\ x.s = s
                   /\ sessions' = [sessions EXCEPT ![obj[s].client] = None]
                \/ /\ sessions[obj[s].client] # s /\ x.pc \in {"idle", "picked"}
                   /\ sessions' = sessions
<1>1. PICK s \in del[d].todo :
        LET k == obj[s].client
            rest == del[d].todo \ {s}
        IN  /\ del[d].pc = "picked"
            /\ obj' = IF d \in Admins THEN [obj EXCEPT ![s].force = TRUE] ELSE obj
            /\ IF sessions[k] = s
               THEN /\ sessions' = [sessions EXCEPT ![k] = None]
                    /\ del' = [del EXCEPT ![d] = [pc |-> "port", todo |-> rest, s |-> s]]
               ELSE /\ del' = [del EXCEPT ![d] =
                                 IF rest = {} THEN NoDel ELSE [@ EXCEPT !.todo = rest]]
                    /\ UNCHANGED sessions
            /\ UNCHANGED <<ports, registry, banned, created, conn, poolVars, fixed>>
  BY DEF DestroyRemove
<1> DEFINE rest == del[d].todo \ {s}
<1>2. TypeOK /\ OwnInv /\ s \in 1..created BY <1>1 DEF PoolInv, OwnInv
<1>3. /\ s \in Obj /\ obj[s] \in SessionType /\ del[d] \in DelType /\ rest \in SUBSET Obj
      /\ s \in 0..MaxHandshakes /\ obj \in [Obj -> SessionType]
  BY <1>2, ObjOf, Constants DEF TypeOK, DelType, Obj
<1>4. ObjKeeps /\ \A r \in 1..created : SameCount(r, obj'[r])
  <2>1. CASE obj' = obj BY <1>2, <1>3, <2>1 DEF ObjKeeps, SameCount
  <2>2. CASE obj' = [obj EXCEPT ![s].force = TRUE]
    <3> DEFINE o == [obj[s] EXCEPT !.force = TRUE]
    <3>1. obj' = [obj EXCEPT ![s] = o] BY <2>2
    <3>2. /\ o \in SessionType /\ SameCount(s, o)
          /\ o.client = obj[s].client /\ o.v4 = obj[s].v4 /\ o.v6 = obj[s].v6 /\ o.raced = obj[s].raced
      BY <1>3 DEF SessionType, SameCount
    <3> HIDE DEF o
    <3>3. ObjSet(s, o) BY <1>2, <3>1, <3>2 DEF ObjSet
    <3>4. ObjKeeps /\ obj'[s] = o /\ \A r \in Obj \ {s} : obj'[r] = obj[r]
      BY <1>2, <3>3, ObjSetKeeps
    <3>5. \A r \in 1..created : r \in Obj BY <1>2, LiveFacts
    <3> QED BY <3>2, <3>4, <3>5 DEF SameCount
  <2> QED BY <1>1, <2>1, <2>2
<1>5. CASE sessions[obj[s].client] = s
  <2> DEFINE x == [pc |-> "port", todo |-> rest, s |-> s]
  <2>1. x \in DelType BY <1>3 DEF DelType
  <2>2. DelSet(d, x) /\ sessions' = [sessions EXCEPT ![obj[s].client] = None]
    BY <1>1, <1>5 DEF DelSet
  <2>3. x.pc = "port" /\ x.todo = rest /\ x.s = s OBVIOUS
  <2> HIDE DEF x, rest
  <2> QED BY <1>1, <1>4, <1>5, <2>1, <2>2, <2>3 DEF rest
<1>6. CASE sessions[obj[s].client] # s
  <2> DEFINE x == IF rest = {} THEN NoDel ELSE [del[d] EXCEPT !.todo = rest]
  <2>1. x \in DelType /\ x.todo = rest /\ x.pc \in {"idle", "picked"}
    <3> HIDE DEF rest
    <3>1. CASE rest = {} BY <3>1, NoDelType
    <3>2. CASE rest # {} BY <1>1, <1>3, <3>2 DEF DelType
    <3> QED BY <3>1, <3>2
  <2>2. DelSet(d, x) /\ sessions' = sessions BY <1>1, <1>6 DEF DelSet
  <2> HIDE DEF x
  <2> QED BY <1>1, <1>4, <1>6, <2>1, <2>2
<1> QED BY <1>5, <1>6

LEMMA RemovePool ==
    ASSUME PoolInv, NEW d \in Threads, DestroyRemove(d)
    PROVE  PoolInv'
<1>1. PICK s \in del[d].todo, x \in DelType :
        /\ DelSet(d, x) /\ del[d].pc = "picked" /\ ObjKeeps
        /\ x.todo = del[d].todo \ {s}
        /\ UNCHANGED <<ports, registry, banned, created, conn, poolVars, fixed>>
        /\ \/ /\ sessions[obj[s].client] = s /\ x.pc = "port" /\ x.s = s
              /\ sessions' = [sessions EXCEPT ![obj[s].client] = None]
           \/ /\ sessions[obj[s].client] # s /\ x.pc \in {"idle", "picked"}
              /\ sessions' = sessions
  BY RemoveShape
<1>2. TypeOK /\ OwnInv /\ s \in 1..created /\ s \in Obj /\ obj[s].client \in Clients
  BY <1>1, ObjOf DEF PoolInv, OwnInv
<1>3. /\ del' \in [Threads -> DelType] /\ del'[d] = x
      /\ \A e \in Threads \ {d} : del'[e] = del[e]
  BY <1>1, <1>2, DelSetType
<1>4. /\ sessions' \in [Clients -> 0..MaxHandshakes]
      /\ \A k \in Clients : sessions'[k] # None => sessions'[k] = sessions[k]
  BY <1>1, <1>2, Constants DEF TypeOK, None
<1>5. /\ UNCHANGED <<ports, registry, created, conn, accepted, exhaustions, orders,
                     used4, used6, macToIp>>
  BY <1>1 DEF poolVars, fixed
<1>6. TypeOK' BY <1>1, <1>2, <1>3, <1>4, <1>5 DEF TypeOK, ObjKeeps
<1>7. 1..created \subseteq Obj /\ Live \subseteq 1..created /\ None \notin 1..created
  BY <1>2, LiveFacts DEF None
<1>8. /\ Dying = {del[e].s : e \in {f \in Threads : Busy(f)}}
      /\ Dying' = {del'[e].s : e \in {f \in Threads : Busy(f)'}}
  BY DEF Dying, Threads, Busy
<1>9. \A e \in Threads \ {d} : (Busy(e)' <=> Busy(e)) /\ del'[e].s = del[e].s BY <1>3 DEF Busy
<1>10. ~Busy(d) BY <1>1 DEF Busy
<1>11. /\ Holders' = Holders /\ Live' \subseteq Live
       /\ OwnInv'
  <2>1. CASE sessions[obj[s].client] = s
    <3>1. Busy(d)' /\ del'[d].s = s BY <1>1, <1>3, <2>1 DEF Busy
    <3>2. \A k \in Clients : sessions'[k] = IF k = obj[s].client THEN None ELSE sessions[k]
      BY <1>1, <1>2, <2>1 DEF TypeOK
    <3>3. s \in Live BY <1>2, <2>1 DEF Live, TypeOK
    <3>4. \A r \in 1..created : obj[r].client \in Clients BY <1>2 DEF OwnInv
    <3>5. Live' = Live \ {s}
      <4>1. ASSUME NEW r \in Live' PROVE r \in Live \ {s}
        <5>1. r \in Obj /\ r <= created /\ sessions'[obj[r].client] = r
          BY <1>5, <4>1, <1>1 DEF Live, ObjKeeps
        <5>2. r \in 1..created /\ r # None BY <1>2, <5>1 DEF Obj, None, TypeOK
        <5> QED BY <3>2, <3>4, <5>1, <5>2 DEF Live
      <4>2. ASSUME NEW r \in Live, r # s PROVE r \in Live'
        <5>1. r \in Obj /\ r <= created /\ sessions[obj[r].client] = r BY DEF Live
        <5>2. obj[r].client # obj[s].client BY <2>1, <4>2, <5>1
        <5>3. r \in 1..created BY <1>7
        <5>4. sessions'[obj'[r].client] = r BY <1>1, <3>2, <3>4, <5>1, <5>2, <5>3 DEF ObjKeeps
        <5> QED BY <1>5, <5>1, <5>4 DEF Live
      <4> QED BY <4>1, <4>2
    <3>6. Dying' = Dying \cup {s} BY <1>8, <1>9, <1>10, <3>1
    <3>7. Holders' = Holders BY <3>3, <3>5, <3>6 DEF Holders
    <3>8. OwnInv'
      <4>1. \A k \in Clients : sessions'[k] # None =>
              sessions'[k] \in 1..created /\ obj'[sessions'[k]].client = k
        BY <1>1, <1>2, <1>4, <1>7 DEF OwnInv, ObjKeeps
      <4>2. \A r \in 1..created : obj'[r].client \in Clients
        BY <1>1, <1>7, <3>4 DEF ObjKeeps
      <4>3. ASSUME NEW e \in Threads
            PROVE  /\ del'[e].todo \subseteq 1..created
                   /\ Busy(e)' => del'[e].s \in 1..created
                                  /\ sessions'[obj'[del'[e].s].client] # del'[e].s
        <5>1. CASE e = d
          <6>1. sessions'[obj'[s].client] = None BY <1>1, <1>2, <3>2 DEF ObjKeeps
          <6> QED BY <1>1, <1>2, <1>3, <1>7, <3>1, <5>1, <6>1 DEF OwnInv
        <5>2. CASE e # d
          <6>1. del'[e] = del[e] /\ (Busy(e)' <=> Busy(e)) BY <1>3, <1>9, <5>2
          <6>2. CASE Busy(e)
            <7>1. /\ del[e].s \in 1..created /\ sessions[obj[del[e].s].client] # del[e].s
                  /\ obj[del[e].s].client \in Clients
              BY <1>2, <6>2, <3>4 DEF OwnInv
            <7>2. sessions'[obj[del[e].s].client] # del[e].s BY <1>4, <1>7, <7>1
            <7>3. obj'[del[e].s].client = obj[del[e].s].client BY <1>1, <1>7, <7>1 DEF ObjKeeps
            <7> QED BY <1>2, <6>1, <7>1, <7>2, <7>3 DEF OwnInv
          <6>3. CASE ~Busy(e) BY <1>2, <6>1, <6>3 DEF OwnInv
          <6> QED BY <6>2, <6>3
        <5> QED BY <5>1, <5>2
      <4>4. \A e \in Threads : Busy(e) => del[e].s # s BY <1>2, <2>1 DEF OwnInv
      <4>5. \A e, f \in Threads : e # f /\ Busy(e)' /\ Busy(f)' => del'[e].s # del'[f].s
        BY <1>2, <1>9, <3>1, <4>4 DEF OwnInv
      <4> QED BY <1>5, <4>1, <4>2, <4>3, <4>5 DEF OwnInv
    <3> QED BY <3>5, <3>7, <3>8
  <2>2. CASE sessions[obj[s].client] # s
    <3>1. ~Busy(d)' /\ sessions' = sessions BY <1>1, <1>3, <2>2 DEF Busy
    <3>2. Live' = Live BY <1>1, <1>5, <3>1 DEF Live, ObjKeeps
    <3>3. Dying' = Dying BY <1>8, <1>9, <1>10, <3>1
    <3>4. \A e \in Threads : Busy(e)' <=> Busy(e) BY <1>9, <1>10, <3>1
    <3>5. OwnInv'
      <4>1. \A k \in Clients : sessions[k] # None =>
              sessions[k] \in 1..created /\ obj'[sessions[k]].client = k
        BY <1>1, <1>2, <1>7 DEF OwnInv, ObjKeeps
      <4>2. \A r \in 1..created : obj'[r].client \in Clients
        BY <1>1, <1>2, <1>7 DEF OwnInv, ObjKeeps
      <4>3. ASSUME NEW e \in Threads
            PROVE  /\ del'[e].todo \subseteq 1..created
                   /\ Busy(e)' => del'[e].s \in 1..created
                                  /\ sessions[obj'[del'[e].s].client] # del'[e].s
        <5>1. del'[e].todo \subseteq 1..created BY <1>1, <1>2, <1>3 DEF OwnInv
        <5>2. Busy(e)' => del[e].s \in 1..created /\ sessions[obj[del[e].s].client] # del[e].s
          BY <1>2, <3>4 DEF OwnInv
        <5>3. Busy(e)' => del'[e].s = del[e].s BY <1>9, <3>1
        <5> QED BY <1>1, <1>7, <5>1, <5>2, <5>3 DEF ObjKeeps
      <4>4. \A e, f \in Threads : e # f /\ Busy(e)' /\ Busy(f)' => del'[e].s # del'[f].s
        BY <1>2, <1>9, <3>1, <3>4 DEF OwnInv
      <4> QED BY <1>5, <3>1, <4>1, <4>2, <4>3, <4>4 DEF OwnInv
    <3> QED BY <3>2, <3>3, <3>5 DEF Holders
  <2> QED BY <2>1, <2>2
<1>12. AddrInv'
  <2>1. \A r \in Holders : r \in Obj BY <1>2, LiveFacts DEF Holders
  <2>2. /\ {obj'[r].v4 : r \in Holders} = {obj[r].v4 : r \in Holders}
        /\ {obj'[r].v6 : r \in Holders} = {obj[r].v6 : r \in Holders}
    BY <1>1, <2>1 DEF ObjKeeps
  <2>3. \A q, r \in Holders : q # r => obj'[q].v4 # obj'[r].v4 /\ obj'[q].v6 # obj'[r].v6
    BY <1>1, <2>1 DEF ObjKeeps, PoolInv, AddrInv
  <2>4. \A r \in Live' : macToIp'[obj'[r].client] = <<obj'[r].v4, obj'[r].v6>>
    BY <1>1, <1>5, <1>11, <2>1 DEF ObjKeeps, PoolInv, AddrInv, Holders
  <2> QED BY <1>5, <1>11, <2>2, <2>3, <2>4 DEF PoolInv, AddrInv
<1>13. PendingInv' /\ ConnInv' BY <1>5 DEF PoolInv, PendingInv, Pending, ConnInv
<1> QED BY <1>6, <1>11, <1>12, <1>13 DEF PoolInv

\* DestroyPort, DestroyRegistry.
LEMMA UnlistPool ==
    ASSUME PoolInv, NEW d \in Threads, DestroyPort(d) \/ DestroyRegistry(d)
    PROVE  /\ PoolInv' /\ Live' = Live /\ del[d].pc \in {"port", "registry"}
           /\ del'[d].pc = (IF del[d].pc = "port" THEN "registry" ELSE "pool")
           /\ del'[d].s = del[d].s /\ del'[d].todo = del[d].todo
           /\ \A e \in Threads \ {d} : del'[e] = del[e]
<1> DEFINE pc == IF del[d].pc = "port" THEN "registry" ELSE "pool"
           x == [del[d] EXCEPT !.pc = pc]
<1>1. TypeOK /\ OwnInv /\ AddrInv /\ del[d] \in DelType BY DEF PoolInv, TypeOK
<1>2. /\ del[d].pc \in {"port", "registry"} /\ DelSet(d, x)
      /\ UNCHANGED <<sessions, obj, created, conn, used4, used6, macToIp, accepted,
                     exhaustions, orders>>
  BY DEF DestroyPort, DestroyRegistry, DelSet, poolVars, fixed
<1>3. pc \in {"registry", "pool"} OBVIOUS
<1>4. x \in DelType /\ x.pc = pc /\ x.s = del[d].s /\ x.todo = del[d].todo
  <2> HIDE DEF pc
  <2> QED BY <1>1, <1>3 DEF DelType
<1> HIDE DEF x
<1>5. /\ del' \in [Threads -> DelType] /\ del'[d] = x
      /\ \A e \in Threads \ {d} : del'[e] = del[e]
  BY <1>1, <1>2, <1>4, DelSetType
<1>6. TypeOK'
  <2>1. ports' \in [Clients -> 0..MaxHandshakes] /\ registry' \in [Clients -> 0..MaxHandshakes]
    BY <1>1, Constants DEF DestroyPort, DestroyRegistry, TypeOK, None
  <2> QED BY <1>1, <1>2, <1>5, <2>1 DEF TypeOK
<1>7. \A e \in Threads : (Busy(e)' <=> Busy(e)) /\ del'[e].s = del[e].s
                         /\ del'[e].todo = del[e].todo
  BY <1>2, <1>3, <1>4, <1>5 DEF Busy
<1>8. Live' = Live BY <1>2 DEF Live
<1>9. Dying' = Dying
  <2>1. Dying = {del[e].s : e \in {f \in Threads : Busy(f)}} BY DEF Dying, Threads, Busy
  <2>2. Dying' = {del'[e].s : e \in {f \in Threads : Busy(f)'}} BY DEF Dying, Threads, Busy
  <2> QED BY <1>7, <2>1, <2>2
<1>10. OwnInv' BY <1>1, <1>2, <1>7 DEF OwnInv
<1>11. AddrInv' BY <1>1, <1>2, <1>8, <1>9 DEF AddrInv, Holders
<1>12. PendingInv' /\ ConnInv' BY <1>2 DEF PoolInv, PendingInv, Pending, ConnInv
<1> QED BY <1>2, <1>4, <1>5, <1>6, <1>8, <1>10, <1>11, <1>12 DEF PoolInv

\* fn release: the addresses of the session leave the pool, and the binding of
\* the MAC only if it still names them.
LEMMA ReleasePool ==
    ASSUME PoolInv, NEW d \in Threads, DestroyRelease(d)
    PROVE  /\ PoolInv' /\ Live' = Live /\ del[d].pc = "pool"
           /\ del'[d].pc \in {"idle", "picked"} /\ del'[d].todo = del[d].todo
           /\ \A e \in Threads \ {d} : del'[e] = del[e]
<1> DEFINE s == del[d].s
           o == obj[s]
           x == IF del[d].todo = {} THEN NoDel ELSE [del[d] EXCEPT !.pc = "picked", !.s = None]
<1>1. TypeOK /\ OwnInv /\ AddrInv /\ del[d] \in DelType BY DEF PoolInv, TypeOK
<1>2. /\ del[d].pc = "pool" /\ DelSet(d, x)
      /\ used4' = used4 \ {o.v4} /\ used6' = used6 \ {o.v6}
      /\ macToIp' = Unbind(macToIp, o.client, o)
      /\ UNCHANGED <<sessions, ports, registry, obj, created, conn, accepted,
                     exhaustions, orders>>
  BY DEF DestroyRelease, DelSet, tableVars, fixed
<1>3. x \in DelType /\ x.pc \in {"idle", "picked"} /\ x.todo = del[d].todo
  <2>1. CASE del[d].todo = {} BY <2>1, NoDelType
  <2>2. CASE del[d].todo # {}
    <3>1. x = [del[d] EXCEPT !.pc = "picked", !.s = 0] BY <2>2 DEF None
    <3>2. 0 \in 0..MaxHandshakes BY Constants
    <3> HIDE DEF x
    <3> QED BY <1>1, <3>1, <3>2 DEF DelType
  <2> QED BY <2>1, <2>2
<1> HIDE DEF x
<1>4. /\ del' \in [Threads -> DelType] /\ del'[d] = x
      /\ \A e \in Threads \ {d} : del'[e] = del[e]
  BY <1>1, <1>2, <1>3, DelSetType
<1>5. Busy(d) /\ s \in 1..created /\ s \in Dying /\ s \in Holders
  BY <1>1, <1>2, LiveFacts DEF OwnInv, Busy, Holders
<1>6. ~Busy(d)' /\ \A e \in Threads \ {d} : (Busy(e)' <=> Busy(e)) /\ del'[e].s = del[e].s
  BY <1>3, <1>4 DEF Busy
<1>7. Live' = Live /\ s \notin Live BY <1>1, <1>2, <1>5, LiveFacts DEF Live
<1>8. Dying' = Dying \ {s}
  <2>1. Dying = {del[e].s : e \in {f \in Threads : Busy(f)}} BY DEF Dying, Threads, Busy
  <2>2. Dying' = {del'[e].s : e \in {f \in Threads : Busy(f)'}} BY DEF Dying, Threads, Busy
  <2>3. \A e \in Threads \ {d} : Busy(e) => del[e].s # s BY <1>1, <1>5 DEF OwnInv
  <2> QED BY <1>6, <2>1, <2>2, <2>3
<1>9. Holders' = Holders \ {s} BY <1>7, <1>8 DEF Holders
<1>10. macToIp' \in [Clients -> (Addrs4 \cup {NoAddr}) \X (Addrs6 \cup {NoAddr})]
  BY <1>1, <1>2 DEF Unbind, TypeOK, NoAddr
<1>11. TypeOK' BY <1>1, <1>2, <1>4, <1>10 DEF TypeOK
<1>12. OwnInv'
  <2>1. \A e \in Threads :
          /\ del'[e].todo \subseteq 1..created
          /\ Busy(e)' => del'[e].s \in 1..created /\ sessions[obj[del'[e].s].client] # del'[e].s
    BY <1>1, <1>3, <1>4, <1>6 DEF OwnInv
  <2>2. \A e, f \in Threads : e # f /\ Busy(e)' /\ Busy(f)' => del'[e].s # del'[f].s
    BY <1>1, <1>6 DEF OwnInv
  <2> QED BY <1>1, <1>2, <2>1, <2>2 DEF OwnInv
<1>13. AddrInv'
  <2>1. \A r \in Holders \ {s} : obj[r].v4 # o.v4 /\ obj[r].v6 # o.v6
    BY <1>1, <1>5 DEF AddrInv
  <2>2. used4' = {obj[r].v4 : r \in Holders \ {s}} BY <1>1, <1>2, <2>1 DEF AddrInv
  <2>3. used6' = {obj[r].v6 : r \in Holders \ {s}} BY <1>1, <1>2, <2>1 DEF AddrInv
  <2>4. \A q, r \in Holders \ {s} : q # r => obj[q].v4 # obj[r].v4 /\ obj[q].v6 # obj[r].v6
    BY <1>1 DEF AddrInv
  <2>5. ASSUME NEW r \in Live PROVE macToIp'[obj[r].client] = <<obj[r].v4, obj[r].v6>>
    <3>1. macToIp[obj[r].client] = <<obj[r].v4, obj[r].v6>> BY <1>1 DEF AddrInv
    <3>2. obj[r].v4 # o.v4 BY <1>7, <2>1 DEF Holders
    <3>3. obj[r].client \in Clients BY <1>1, LiveFacts DEF OwnInv
    <3>4. CASE obj[r].client = o.client
      <4>1. macToIp[o.client][1] # o.v4 BY <3>1, <3>2, <3>4
      <4> QED BY <1>2, <3>1, <4>1 DEF Unbind
    <3>5. CASE obj[r].client # o.client
      BY <1>1, <1>2, <3>1, <3>3, <3>5 DEF Unbind, TypeOK
    <3> QED BY <3>4, <3>5
  <2> QED BY <1>2, <1>7, <1>9, <2>2, <2>3, <2>4, <2>5, SMTT(20) DEF AddrInv
<1>14. PendingInv' /\ ConnInv' BY <1>2 DEF PoolInv, PendingInv, Pending, ConnInv
<1> QED BY <1>2, <1>3, <1>4, <1>7, <1>11, <1>12, <1>13, <1>14 DEF PoolInv

-----------------------------------------------------------------------------
(* Creation *)

LEMMA HsCreateShape ==
    ASSUME PoolInv, NEW c \in Conns, HsCreate(c)
    PROVE  \E a4 \in Addrs4 \ used4, a6 \in Addrs6 \ used6, x \in ConnType,
              o \in SessionType :
             LET k == conn[c].client
                 s == created + 1
             IN  /\ conn[c].pc = "gated" /\ k \in Clients /\ sessions[k] = None
                 /\ used4' = used4 \cup {a4} /\ used6' = used6 \cup {a6}
                 /\ macToIp' = [macToIp EXCEPT ![k] = <<a4, a6>>]
                 /\ created' = s /\ s \in Obj /\ obj' = [obj EXCEPT ![s] = o]
                 /\ o \in SessionType /\ o.client = k /\ o.v4 = a4 /\ o.v6 = a6
                 /\ o.active = 1 /\ o.raced = (TearingDown(k) # {})
                 /\ sessions' = [sessions EXCEPT ![k] = s]
                 /\ ports' = [ports EXCEPT ![k] = s] /\ registry' = [registry EXCEPT ![k] = s]
                 /\ conn' = [conn EXCEPT ![c] = x] /\ x \in ConnType
                 /\ x.pc = "joined" /\ x.s = s /\ x.client = k
                 /\ UNCHANGED <<del, accepted, exhaustions, orders>>
<1> DEFINE k == conn[c].client
           s == created + 1
           bound == macToIp[k]
           free == bound = <<NoAddr, NoAddr>>
           A4(w) == Alloc(Addrs4, used4, IF free THEN w ELSE bound[1])
           A6(w) == Alloc(Addrs6, used6, IF free THEN w ELSE bound[2])
<1>1. PICK w4 \in Addrs4 \cup {NoAddr}, w6 \in Addrs6 \cup {NoAddr} :
        /\ A4(w4) # NoAddr /\ A6(w6) # NoAddr
        /\ used4' = used4 \cup {A4(w4)} /\ used6' = used6 \cup {A6(w6)}
        /\ macToIp' = [macToIp EXCEPT ![k] = <<A4(w4), A6(w6)>>]
        /\ created' = s
        /\ obj' = [obj EXCEPT ![s] =
                     NewSession(k, conn[c].inst, A4(w4), A6(w6), TearingDown(k) # {})]
        /\ sessions' = [sessions EXCEPT ![k] = s]
        /\ ports' = [ports EXCEPT ![k] = s] /\ registry' = [registry EXCEPT ![k] = s]
        /\ conn' = [conn EXCEPT ![c].pc = "joined", ![c].s = s]
  BY DEF HsCreate
<1>2. conn[c].pc = "gated" /\ sessions[k] = None /\ UNCHANGED <<del, accepted, exhaustions, orders>>
  BY DEF HsCreate, At, fixed
<1>3. k \in Clients /\ conn[c] \in ConnType /\ conn[c].inst \in Instances \cup {None}
  BY <1>2, ConnOf DEF PoolInv, ConnInv, ConnType
<1>4. A4(w4) \in Addrs4 \ used4 /\ A6(w6) \in Addrs6 \ used6
  BY <1>1, Constants, AllocFree
<1>5. s \in Obj
  <2>1. c \in Pending BY <1>2 DEF Pending
  <2>2. Cardinality(Pending) \in Nat /\ Cardinality(Pending) # 0
    BY <2>1, FS_CardinalityType, FS_EmptySet DEF PoolInv, PendingInv
  <2> QED BY <2>2, Constants DEF PoolInv, PendingInv, TypeOK, Obj
<1> HIDE DEF A4, A6
<1> DEFINE raced == TearingDown(k) # {}
           o == NewSession(k, conn[c].inst, A4(w4), A6(w6), raced)
           x == [conn[c] EXCEPT !.pc = "joined", !.s = s]
<1>6. /\ o \in SessionType /\ o.client = k /\ o.v4 = A4(w4) /\ o.v6 = A6(w6) /\ o.active = 1
      /\ o.raced = raced
  <2>1. raced \in BOOLEAN OBVIOUS
  <2>2. A4(w4) \in Addrs4 /\ A6(w6) \in Addrs6 BY <1>4
  <2> DEFINE i == conn[c].inst
             p == A4(w4)
             q == A6(w6)
  <2>3. i \in Instances \cup {None} /\ k \in Clients /\ p \in Addrs4 /\ q \in Addrs6
    BY <1>3, <2>2
  <2>4. o = NewSession(k, i, p, q, raced) /\ p = A4(w4) /\ q = A6(w6) OBVIOUS
  <2> HIDE DEF raced, k, i, p, q, o
  <2>5. LET n == NewSession(k, i, p, q, raced)
        IN  /\ n \in SessionType /\ n.client = k /\ n.v4 = p /\ n.v6 = q
            /\ n.active = 1 /\ n.raced = raced
    BY <2>1, <2>3, NewSessionForm
  <2> QED BY <2>4, <2>5
<1>7. x \in ConnType /\ x.pc = "joined" /\ x.s = s /\ x.client = k
  <2>1. "joined" \in Pcs /\ s \in 0..MaxHandshakes BY <1>5, Constants DEF Pcs, InHandler, Obj
  <2> HIDE DEF s
  <2> QED BY <1>3, <2>1 DEF ConnType
<1>8. conn' = [conn EXCEPT ![c] = x] BY <1>1
<1> HIDE DEF o, x
<1>9. obj' = [obj EXCEPT ![s] = o] BY <1>1 DEF o
<1> QED BY <1>1, <1>2, <1>3, <1>4, <1>5, <1>6, <1>7, <1>8, <1>9

LEMMA HsCreatePool ==
    ASSUME PoolInv, NEW c \in Conns, HsCreate(c)
    PROVE  PoolInv'
<1> DEFINE k == conn[c].client
           s == created + 1
<1>1. PICK a4 \in Addrs4 \ used4, a6 \in Addrs6 \ used6, x \in ConnType, o \in SessionType :
        /\ conn[c].pc = "gated" /\ k \in Clients /\ sessions[k] = None
        /\ used4' = used4 \cup {a4} /\ used6' = used6 \cup {a6}
        /\ macToIp' = [macToIp EXCEPT ![k] = <<a4, a6>>]
        /\ created' = s /\ s \in Obj /\ obj' = [obj EXCEPT ![s] = o]
        /\ o \in SessionType /\ o.client = k /\ o.v4 = a4 /\ o.v6 = a6
        /\ sessions' = [sessions EXCEPT ![k] = s]
        /\ ports' = [ports EXCEPT ![k] = s] /\ registry' = [registry EXCEPT ![k] = s]
        /\ conn' = [conn EXCEPT ![c] = x] /\ x \in ConnType
        /\ x.pc = "joined" /\ x.s = s /\ x.client = k
        /\ UNCHANGED <<del, accepted, exhaustions, orders>>
  BY HsCreateShape
<1>2. TypeOK /\ OwnInv /\ AddrInv /\ created \in Nat BY Constants DEF PoolInv, TypeOK
<1>3. /\ s \in 0..MaxHandshakes /\ s # None /\ s \notin 1..created
      /\ 1..s = 1..created \cup {s} /\ 1..created \subseteq Obj
  BY <1>1, <1>2, Constants, LiveFacts DEF Obj, None
<1> HIDE DEF k
<1>4. /\ obj' \in [Obj -> SessionType] /\ obj'[s] = o /\ \A r \in Obj \ {s} : obj'[r] = obj[r]
  BY <1>1, <1>2 DEF TypeOK
<1>5. /\ sessions' \in [Clients -> 0..MaxHandshakes] /\ sessions'[k] = s
      /\ \A j \in Clients \ {k} : sessions'[j] = sessions[j]
  BY <1>1, <1>2, <1>3 DEF TypeOK
<1>6. /\ conn' \in [Conns -> ConnType] /\ conn'[c] = x
      /\ \A d \in Conns \ {c} : conn'[d] = conn[d]
  BY <1>1, <1>2, ConnOf
<1>7. /\ macToIp' \in [Clients -> (Addrs4 \cup {NoAddr}) \X (Addrs6 \cup {NoAddr})]
      /\ macToIp'[k] = <<a4, a6>> /\ \A j \in Clients \ {k} : macToIp'[j] = macToIp[j]
  BY <1>1, <1>2 DEF TypeOK
<1>8. TypeOK'
  <2>1. ports' \in [Clients -> 0..MaxHandshakes] /\ registry' \in [Clients -> 0..MaxHandshakes]
    BY <1>1, <1>2, <1>3 DEF TypeOK
  <2> QED BY <1>1, <1>2, <1>3, <1>4, <1>5, <1>6, <1>7, <2>1 DEF TypeOK
<1>9. PendingInv'
  <2>1. Pending' = Pending \ {c} /\ c \in Pending BY <1>1, <1>6 DEF Pending
  <2>2. IsFiniteSet(Pending') /\ Cardinality(Pending') = Cardinality(Pending) - 1
    BY <2>1, FS_RemoveElement DEF PoolInv, PendingInv
  <2>3. Cardinality(Pending) \in Nat BY FS_CardinalityType DEF PoolInv, PendingInv
  <2> QED BY <1>1, <1>2, <2>2, <2>3, Constants DEF PoolInv, PendingInv, TypeOK
<1>10. ConnInv'
  <2>2. s \in 1..created' /\ "joined" \notin Before BY <1>1, <1>3 DEF Before
  <2>4. /\ conn'[c].client \in Clients /\ conn'[c].pc \notin Before
        /\ conn'[c].s \in 1..created'
    BY <1>1, <1>6, <2>2
  <2> HIDE DEF s
  <2>5. ASSUME NEW d \in Conns
        PROVE  /\ conn'[d].pc # "closed" => conn'[d].client \in Clients
               /\ conn'[d].pc \in Before => conn'[d].s = None
               /\ conn'[d].pc \notin Before => conn'[d].s \in 1..created'
    <3>1. CASE d = c BY <2>4, <3>1
    <3>2. CASE d # c
      <4>1. conn'[d] = conn[d] /\ created' = s BY <1>1, <1>6, <3>2
      <4>2. /\ conn[d].pc # "closed" => conn[d].client \in Clients
            /\ conn[d].pc \in Before => conn[d].s = None
            /\ conn[d].pc \notin Before => conn[d].s \in 1..created
        BY DEF PoolInv, ConnInv
      <4> QED BY <1>3, <4>1, <4>2
    <3> QED BY <3>1, <3>2
  <2> QED BY <2>5 DEF ConnInv
<1>11. Live' = Live \cup {s}
  <2>1. ASSUME NEW r \in Obj, r # s PROVE r \in Live' <=> r \in Live
    <3>1. obj'[r] = obj[r] /\ (r <= created' <=> r <= created)
      BY <1>1, <1>2, <1>4, <2>1, Constants DEF Obj
    <3>2. CASE r <= created
      <4>1. r \in 1..created /\ obj[r].client \in Clients
        BY <1>2, <2>1, <3>2, Constants DEF Obj, OwnInv
      <4>2. sessions'[obj[r].client] = r <=> sessions[obj[r].client] = r
        <5>1. CASE obj[r].client = k
          BY <1>1, <1>3, <1>5, <2>1, <4>1, <5>1 DEF None
        <5>2. CASE obj[r].client # k BY <1>5, <4>1, <5>2
        <5> QED BY <5>1, <5>2
      <4> QED BY <3>1, <4>2 DEF Live
    <3>3. CASE ~(r <= created) BY <3>1, <3>3 DEF Live
    <3> QED BY <3>2, <3>3
  <2>2. s \in Live'
    <3>1. s <= created' BY <1>1, <1>2
    <3> HIDE DEF s
    <3> QED BY <1>1, <1>4, <1>5, <3>1 DEF Live
  <2>3. Live \subseteq Obj /\ Live' \subseteq Obj BY DEF Live
  <2> HIDE DEF s
  <2> QED BY <2>1, <2>2, <2>3
<1>12. Dying' = Dying /\ s \notin Holders
  BY <1>1, <1>2, <1>3, LiveFacts DEF Dying, Holders
<1>13. Holders' = Holders \cup {s} BY <1>11, <1>12 DEF Holders
<1>14. Holders \subseteq 1..created /\ \A r \in Holders : obj'[r] = obj[r]
  BY <1>2, <1>3, <1>4, LiveFacts DEF Holders
<1>15. OwnInv'
  <2>1. ASSUME NEW j \in Clients, sessions'[j] # None
        PROVE  sessions'[j] \in 1..created' /\ obj'[sessions'[j]].client = j
    <3>1. CASE j = k
      <4> HIDE DEF s
      <4> QED BY <1>1, <1>3, <1>4, <1>5, <3>1
    <3>2. CASE j # k
      <4>1. sessions'[j] = sessions[j] /\ sessions[j] \in 1..created
            /\ obj[sessions[j]].client = j
        BY <1>2, <1>5, <2>1, <3>2 DEF OwnInv
      <4> HIDE DEF s
      <4> QED BY <1>1, <1>3, <1>4, <4>1
    <3> QED BY <3>1, <3>2
  <2>2. \A r \in 1..created' : obj'[r].client \in Clients
    <3>1. o.client \in Clients /\ created' = s BY <1>1
    <3>2. \A r \in 1..created : obj'[r].client \in Clients BY <1>2, <1>3, <1>4 DEF OwnInv
    <3> HIDE DEF s
    <3> QED BY <1>3, <1>4, <3>1, <3>2
  <2>3. ASSUME NEW d \in Threads
        PROVE  /\ del'[d].todo \subseteq 1..created'
               /\ Busy(d)' => del'[d].s \in 1..created'
                              /\ sessions'[obj'[del'[d].s].client] # del'[d].s
    <3> DEFINE r == del[d].s
    <3>1. del'[d].todo \subseteq 1..created'
      <4> HIDE DEF s
      <4> QED BY <1>1, <1>2, <1>3 DEF OwnInv
    <3>2. ASSUME Busy(d) PROVE r \in 1..created' /\ sessions'[obj'[r].client] # r
      <4>1. r \in 1..created /\ sessions[obj[r].client] # r /\ obj[r].client \in Clients
        BY <1>2, <3>2 DEF OwnInv
      <4>2. obj'[r] = obj[r] /\ r # s BY <1>3, <1>4, <4>1
      <4> HIDE DEF s, r
      <4> QED BY <1>1, <1>3, <1>5, <4>1, <4>2
    <3> QED BY <1>1, <3>1, <3>2 DEF Busy
  <2>4. \A d, e \in Threads : d # e /\ Busy(d)' /\ Busy(e)' => del'[d].s # del'[e].s
    BY <1>1, <1>2 DEF OwnInv, Busy
  <2> QED BY <2>1, <2>2, <2>3, <2>4 DEF OwnInv
<1>16. AddrInv'
  <2> HIDE DEF s
  <2>1. \A r \in Holders : obj[r].v4 # a4 /\ obj[r].v6 # a6 BY <1>2 DEF AddrInv
  <2>2. used4' = {obj'[r].v4 : r \in Holders'}
    <3>1. used4 = {obj'[r].v4 : r \in Holders}
      <4>1. used4 = {obj[r].v4 : r \in Holders} BY <1>2 DEF AddrInv
      <4> QED BY <1>14, <4>1
    <3>2. obj'[s].v4 = a4 BY <1>1, <1>4
    <3> QED BY <1>1, <1>13, <3>1, <3>2
  <2>3. used6' = {obj'[r].v6 : r \in Holders'}
    <3>1. used6 = {obj'[r].v6 : r \in Holders}
      <4>1. used6 = {obj[r].v6 : r \in Holders} BY <1>2 DEF AddrInv
      <4> QED BY <1>14, <4>1
    <3>2. obj'[s].v6 = a6 BY <1>1, <1>4
    <3> QED BY <1>1, <1>13, <3>1, <3>2
  <2>4. \A q, r \in Holders' : q # r => obj'[q].v4 # obj'[r].v4 /\ obj'[q].v6 # obj'[r].v6
    BY <1>1, <1>2, <1>4, <1>13, <1>14, <2>1 DEF AddrInv
  <2>5. ASSUME NEW r \in Live' PROVE macToIp'[obj'[r].client] = <<obj'[r].v4, obj'[r].v6>>
    <3>1. CASE r = s BY <1>1, <1>4, <1>7, <3>1
    <3>2. CASE r # s
      <4>1. r \in Live /\ obj'[r] = obj[r] /\ r # None /\ sessions[obj[r].client] = r
        BY <1>2, <1>11, <1>14, <3>2, LiveFacts DEF Holders, Live, Obj, None
      <4>2. obj[r].client \in Clients /\ obj[r].client # k
        BY <1>1, <1>2, <4>1, LiveFacts DEF OwnInv
      <4>3. macToIp[obj[r].client] = <<obj[r].v4, obj[r].v6>> BY <1>2, <4>1 DEF AddrInv
      <4> QED BY <1>7, <4>1, <4>2, <4>3
    <3> QED BY <3>1, <3>2
  <2> QED BY <2>2, <2>3, <2>4, <2>5 DEF AddrInv
<1> QED BY <1>8, <1>9, <1>10, <1>15, <1>16 DEF PoolInv

-----------------------------------------------------------------------------
(* The pool, for any number of workers *)

LEMMA PoolInit == Init => PoolInv
<1> SUFFICES ASSUME Init PROVE PoolInv
  OBVIOUS
<1>1. TypeOK
  <2>1. del \in [Threads -> DelType] BY NoDelType DEF Init, Threads
  <2>2. obj \in [Obj -> SessionType] BY NoSessionType DEF Init
  <2>3. conn \in [Conns -> ConnType] BY NoConnType DEF Init
  <2> QED BY <2>1, <2>2, <2>3, Constants DEF Init, TypeOK, None, NoAddr
<1>2. created = 0 /\ \A d \in Threads : ~Busy(d) BY NoDelType DEF Init, Busy, Threads
<1>3. Live = {} /\ Dying = {}
  <2>1. Dying = {del[d].s : d \in {e \in Threads : Busy(e)}} BY DEF Dying, Threads, Busy
  <2>2. Live = {} BY <1>2, Constants DEF Live, Obj
  <2> QED BY <1>2, <2>1, <2>2
<1>4. PendingInv
  <2>1. Pending = {} BY NoConnType DEF Init, Pending
  <2> QED BY <1>2, <2>1, FS_EmptySet, Constants DEF PendingInv, Init
<1>5. ConnInv BY NoConnType DEF Init, ConnInv, Before
<1>6. OwnInv BY <1>2, NoDelType DEF Init, OwnInv, Threads
<1>7. AddrInv BY <1>3 DEF Init, AddrInv, Holders
<1> QED BY <1>1, <1>4, <1>5, <1>6, <1>7 DEF PoolInv

\* Reap, Kick and the ban, as PickPool takes them.
Picks(d) ==
    \/ del' = del
    \/ \E todo : /\ todo \subseteq Live
                 /\ orders' = orders => \A s \in todo : obj[s].active = 0
                 /\ DelSet(d, Picked(todo))

LEMMA PickShape ==
    ASSUME PoolInv, NEW d \in Threads,
           (d \in Workers /\ Reap(d)) \/ (\E k \in Clients : AdminKick(d, k) \/ AdminBan(d, k))
           \/ AdminKickAll(d)
    PROVE  /\ UNCHANGED <<sessions, ports, registry, obj, created, conn, accepted, exhaustions,
                          used4, used6, macToIp>>
           /\ orders' \in Nat /\ orders <= orders'
           /\ orders' = orders => d \in Workers /\ WorkerIdle(d)
           /\ del[d].pc = "idle" /\ Picks(d)
<1>1. TypeOK /\ OwnInv /\ orders \in Nat BY DEF PoolInv, TypeOK
<1>2. CASE d \in Workers /\ Reap(d)
  <2> DEFINE todo == {s \in Live : Reapable(s)}
  <2>1. DelSet(d, Picked(todo)) BY <1>2 DEF Reap, DelSet, Picked
  <2>2. todo \subseteq Live /\ \A s \in todo : obj[s].active = 0 BY DEF Reapable
  <2>3. /\ UNCHANGED <<sessions, ports, registry, obj, created, conn, accepted, exhaustions,
                       used4, used6, macToIp, orders>>
        /\ WorkerIdle(d) /\ del[d].pc = "idle"
    BY <1>2 DEF Reap, WorkerIdle, tableVars, poolVars, fixed
  <2>4. Picks(d)
    <3> HIDE DEF todo
    <3> QED BY <2>1, <2>2 DEF Picks
  <2> QED BY <1>1, <1>2, <2>3, <2>4
<1>3. orders + 1 \in Nat /\ orders <= orders + 1 /\ orders + 1 # orders BY <1>1
<1>4. ASSUME NEW ks, Kick(d, ks) PROVE Picks(d)
  <2> DEFINE todo == {s \in Live : obj[s].client \in ks}
  <2>1. DelSet(d, Picked(todo)) BY <1>4 DEF Kick, DelSet, Picked
  <2>2. todo \subseteq Live /\ orders' # orders BY <1>3, <1>4 DEF Kick
  <2> HIDE DEF todo
  <2> QED BY <2>1, <2>2 DEF Picks
<1>5. ASSUME NEW k \in Clients, AdminBan(d, k) PROVE Picks(d)
  <2>1. CASE sessions[k] = None BY <1>5, <2>1 DEF AdminBan, Picks
  <2>2. CASE sessions[k] # None
    <3> DEFINE todo == {sessions[k]}
    <3>1. sessions[k] \in 1..created /\ obj[sessions[k]].client = k BY <1>1, <2>2 DEF OwnInv
    <3>2. sessions[k] \in Obj /\ sessions[k] <= created
      BY <1>1, <3>1, LiveFacts DEF TypeOK
    <3>3. sessions[k] \in Live BY <3>1, <3>2 DEF Live
    <3>4. DelSet(d, Picked(todo)) BY <1>5, <2>2 DEF AdminBan, DelSet, Picked
    <3>5. todo \subseteq Live /\ orders' # orders BY <1>3, <1>5, <3>3 DEF AdminBan
    <3> HIDE DEF todo
    <3> QED BY <3>4, <3>5 DEF Picks
  <2> QED BY <2>1, <2>2
<1>6. ASSUME NEW k \in Clients, AdminKick(d, k) \/ AdminBan(d, k) \/ AdminKickAll(d)
      PROVE  /\ UNCHANGED <<sessions, ports, registry, obj, created, conn, accepted, exhaustions,
                            used4, used6, macToIp>>
             /\ orders' = orders + 1 /\ del[d].pc = "idle" /\ Picks(d)
  <2>1. Picks(d) BY <1>4, <1>5, <1>6 DEF AdminKick, AdminKickAll
  <2> QED BY <1>6, <2>1 DEF AdminKick, AdminKickAll, AdminBan, Kick, poolVars
<1>7. ASSUME AdminKickAll(d) PROVE Clients # {}
  BY <1>1, <1>7, LiveFacts DEF AdminKickAll, Kick, OwnInv
<1>8. CASE (\E k \in Clients : AdminKick(d, k) \/ AdminBan(d, k)) \/ AdminKickAll(d)
  <2>1. PICK k \in Clients : AdminKick(d, k) \/ AdminBan(d, k) \/ AdminKickAll(d)
    BY <1>7, <1>8
  <2> QED BY <1>3, <1>6, <2>1
<1> QED BY <1>2, <1>8

LEMMA PoolStep == PoolInv /\ [Next]_vars => PoolInv'
<1> SUFFICES ASSUME PoolInv, [Next]_vars PROVE PoolInv'
  OBVIOUS
<1>1. CASE UNCHANGED vars
  BY <1>1 DEF vars, PoolInv, TypeOK, PendingInv, Pending, ConnInv, OwnInv, Busy, AddrInv,
     Holders, Live, Dying
<1>2. ASSUME NEW c \in Conns, NEW k \in Clients, NEW i \in Instances, Connect(c, k, i)
      PROVE  PoolInv'
  BY <1>2, ConnectPool
<1>3. ASSUME NEW c \in Conns,
             Handshake(c) \/ Fail(c) \/ ScanCloses(c) \/ ScanExhausted(c) \/ Leave(c)
      PROVE  PoolInv'
  BY <1>3, ConnPool, HsCreatePool DEF Handshake, Leave
<1>4. ASSUME NEW s \in Obj, Expire(s) \/ SequenceExhausted(s) PROVE PoolInv'
  BY <1>4, TimePool
<1>5. ASSUME NEW d \in Threads,
             (d \in Workers /\ Reap(d)) \/ (\E k \in Clients : AdminKick(d, k) \/ AdminBan(d, k))
             \/ AdminKickAll(d)
      PROVE  PoolInv'
  <2>1. /\ UNCHANGED <<sessions, ports, registry, obj, created, conn, accepted, exhaustions,
                       used4, used6, macToIp>>
        /\ orders' \in Nat /\ del[d].pc = "idle" /\ Picks(d)
    BY <1>5, PickShape
  <2>2. CASE del' = del
    <3>1. TypeOK' BY <2>1, <2>2 DEF PoolInv, TypeOK
    <3>2. PendingInv' /\ ConnInv' BY <2>1 DEF PoolInv, PendingInv, Pending, ConnInv
    <3>3. OwnInv' BY <2>1, <2>2 DEF PoolInv, OwnInv, Busy
    <3>4. AddrInv' BY <2>1, <2>2 DEF PoolInv, AddrInv, Holders, Live, Dying
    <3> QED BY <3>1, <3>2, <3>3, <3>4 DEF PoolInv
  <2>3. CASE del' # del
    <3>1. PICK todo : todo \subseteq Live /\ DelSet(d, Picked(todo)) BY <2>1, <2>3 DEF Picks
    <3>2. todo \subseteq 1..created BY <3>1, LiveFacts DEF PoolInv
    <3> QED BY <2>1, <3>1, <3>2, PickPool
  <2> QED BY <2>2, <2>3
<1>6. ASSUME NEW a \in Admins, NEW k \in Clients, AdminUnban(a, k) PROVE PoolInv'
  <2>1. UNCHANGED <<sessions, ports, registry, obj, created, conn, del, accepted, exhaustions,
                    orders, used4, used6, macToIp>>
    BY <1>6 DEF AdminUnban, poolVars, fixed
  <2> QED BY <2>1 DEF PoolInv, TypeOK, PendingInv, Pending, ConnInv, OwnInv, Busy, AddrInv,
          Holders, Live, Dying
<1>7. ASSUME NEW d \in Threads, Destroy(d) PROVE PoolInv'
  BY <1>7, RemovePool, UnlistPool, ReleasePool DEF Destroy
<1> QED BY <1>1, <1>2, <1>3, <1>4, <1>5, <1>6, <1>7 DEF Next, Threads

\* As many addresses as sessions hold one, when no two hold the same.
LEMMA ImageCardinality ==
    ASSUME NEW S, IsFiniteSet(S), NEW f, \A s, r \in S : s # r => f[s] # f[r]
    PROVE  Cardinality({f[s] : s \in S}) = Cardinality(S)
<1> DEFINE T == {f[s] : s \in S}
           g == [s \in S |-> f[s]]
<1>1. g \in Bijection(S, T)
  <2>1. g \in [S -> T] /\ DOMAIN g = S /\ \A s \in S : g[s] = f[s] OBVIOUS
  <2>2. \A t \in T : \E s \in S : g[s] = t BY <2>1
  <2> HIDE DEF g, T
  <2>3. g \in Injection(S, T) BY <2>1 DEF Injection, IsInjective
  <2>4. g \in Surjection(S, T) BY <2>1, <2>2 DEF Surjection
  <2> QED BY <2>3, <2>4 DEF Bijection
<1> HIDE DEF g, T
<1>2. ExistsBijection(S, T) BY <1>1 DEF ExistsBijection
<1>3. Cardinality(S) = Cardinality(T) BY <1>2, FS_Bijection
<1> QED BY <1>3 DEF T

LEMMA PoolImplies == PoolInv => AddressAccounting
<1> SUFFICES ASSUME PoolInv PROVE AddressAccounting
  OBVIOUS
<1>1. TypeOK /\ OwnInv /\ AddrInv /\ created \in Nat /\ Live \cup Dying = Holders
  BY Constants DEF PoolInv, TypeOK, Holders
<1>2. IsFiniteSet(Holders)
  <2>1. IsFiniteSet(1..created) BY <1>1, FS_Interval
  <2> QED BY <1>1, <2>1, FS_Subset, LiveFacts
<1>3. Cardinality(used4) = Cardinality(Holders)
  <2> DEFINE f == [s \in Holders |-> obj[s].v4]
  <2>1. \A s, r \in Holders : s # r => f[s] # f[r] BY <1>1 DEF AddrInv
  <2>2. used4 = {f[s] : s \in Holders}
    <3>1. used4 = {obj[s].v4 : s \in Holders} BY <1>1 DEF AddrInv
    <3> QED BY <3>1
  <2> HIDE DEF f
  <2> QED BY <1>2, <2>1, <2>2, ImageCardinality
<1>4. Cardinality(used6) = Cardinality(Holders)
  <2> DEFINE f == [s \in Holders |-> obj[s].v6]
  <2>1. \A s, r \in Holders : s # r => f[s] # f[r] BY <1>1 DEF AddrInv
  <2>2. used6 = {f[s] : s \in Holders}
    <3>1. used6 = {obj[s].v6 : s \in Holders} BY <1>1 DEF AddrInv
    <3> QED BY <3>1
  <2> HIDE DEF f
  <2> QED BY <1>2, <2>1, <2>2, ImageCardinality
<1> QED BY <1>1, <1>3, <1>4 DEF AddressAccounting, AddrInv

(***************************************************************************)
(* For any number of workers and API threads that tear sessions down       *)
(* while others create them (handle_handshake, destroy_session): the used  *)
(* sets are the addresses of the sessions in the table or being torn down, *)
(* each address held by one of them, and the MAC binding of a client with  *)
(* a session names that session's addresses.                               *)
(***************************************************************************)
THEOREM AddressesAccounted == Spec => []AddressAccounting
<1>1. Init => PoolInv BY PoolInit
<1>2. PoolInv /\ [Next]_vars => PoolInv' BY PoolStep
<1>3. PoolInv => AddressAccounting BY PoolImplies
<1> QED BY <1>1, <1>2, <1>3, PTL DEF Spec

-----------------------------------------------------------------------------
(***************************************************************************)
(* The port and the registry entry, for any number of workers.  A thread   *)
(* goes on to remove them only when it took the session out of the table   *)
(* itself, so a session that was created with no such thread around meets  *)
(* none as long as it is in the table.                                     *)
(***************************************************************************)
Own(k) == ports[k] = sessions[k] /\ registry[k] = sessions[k]

ReachInv ==
    \A k \in Clients : sessions[k] # None /\ ~obj[sessions[k]].raced =>
        Own(k) /\ TearingDown(k) = {}

LEMMA TearingForm ==
    ASSUME NEW k
    PROVE  /\ TearingDown(k) = {} <=>
                \A d \in Threads : del[d].pc \in {"port", "registry"} => obj[del[d].s].client # k
           /\ TearingDown(k)' = {} <=>
                \A d \in Threads : del'[d].pc \in {"port", "registry"} => obj'[del'[d].s].client # k
BY DEF TearingDown, Threads

\* Steps that leave the tables alone, and no thread enters the tearing down.
LEMMA ReachKept ==
    ASSUME PoolInv, ReachInv, ObjKeeps, UNCHANGED <<sessions, ports, registry, created>>,
           \A d \in Threads : del'[d].pc \in {"port", "registry"} => del'[d] = del[d]
    PROVE  ReachInv'
<1>1. TypeOK /\ OwnInv BY DEF PoolInv
<1>2. 1..created \subseteq Obj BY <1>1, LiveFacts
<1>3. ASSUME NEW k \in Clients, sessions[k] # None, ~obj'[sessions[k]].raced
      PROVE  Own(k)' /\ TearingDown(k)' = {}
  <2>1. sessions[k] \in Obj BY <1>1, <1>2, <1>3 DEF OwnInv
  <2>2. ~obj[sessions[k]].raced BY <1>3, <2>1 DEF ObjKeeps
  <2>3. Own(k) /\ TearingDown(k) = {} BY <1>3, <2>2 DEF ReachInv
  <2>4. ASSUME NEW d \in Threads, del'[d].pc \in {"port", "registry"}
        PROVE  obj'[del'[d].s].client # k
    <3>1. del'[d] = del[d] /\ Busy(d) BY <2>4 DEF Busy
    <3>2. del[d].s \in Obj BY <1>1, <1>2, <3>1 DEF OwnInv
    <3>3. obj[del[d].s].client # k BY <2>3, <2>4, <3>1, TearingForm
    <3> QED BY <3>1, <3>2, <3>3 DEF ObjKeeps
  <2> QED BY <2>3, <2>4, TearingForm DEF Own
<1> QED BY <1>3 DEF ReachInv

LEMMA ConnKeeps ==
    ASSUME PoolInv, NEW c \in Conns,
           \/ HsGate(c) \/ HsRefuse(c) \/ HsNoCapacity(c) \/ HsNoToken(c) \/ HsJoin(c)
           \/ HsTokenFails(c) \/ HsSnapshot(c)
           \/ HsRegister(c) \/ Fail(c) \/ ScanCloses(c) \/ ScanExhausted(c) \/ CloseEpoch(c)
           \/ CloseCount(c) \/ CloseVersion(c) \/ CloseDeadline(c)
    PROVE  ObjKeeps /\ UNCHANGED <<sessions, ports, registry, created, del>>
<1>1. TypeOK /\ ConnInv /\ OwnInv BY DEF PoolInv
<1>2. ASSUME NEW x, ConnSet(c, x) PROVE UNCHANGED <<sessions, ports, registry, created, del>>
  BY <1>2 DEF ConnSet, tableVars
<1>3. CASE HsGate(c) \/ HsRefuse(c) \/ HsNoCapacity(c) \/ HsNoToken(c) \/ (Fail(c) /\ At(c, "hello"))
  <2>1. PICK x : ConnSet(c, x) /\ obj' = obj BY <1>1, <1>3, OutsideShape
  <2>2. ObjKeeps BY <1>1, <2>1 DEF ObjKeeps, TypeOK
  <2> QED BY <1>2, <2>1, <2>2
<1>4. ASSUME NEW x, NEW s, NEW o, ConnSet(c, x), ObjSet(s, o)
      PROVE  ObjKeeps /\ UNCHANGED <<sessions, ports, registry, created, del>>
  BY <1>1, <1>2, <1>4, ObjSetKeeps
<1>5. CASE HsJoin(c)
  <2>1. PICK x, o : ConnSet(c, x) /\ ObjSet(sessions[conn[c].client], o)
    BY <1>1, <1>5, HsJoinShape
  <2> QED BY <1>4, <2>1
<1>6. CASE HsTokenFails(c)
  <2>1. PICK o : ConnSet(c, NoConn) /\ ObjSet(sessions[conn[c].client], o)
    BY <1>1, <1>6, TokenFailsShape
  <2> QED BY <1>4, <2>1
<1>7. CASE HsSnapshot(c) \/ HsRegister(c)
  <2>1. PICK x, o : ConnSet(c, x) /\ ObjSet(conn[c].s, o) BY <1>1, <1>7, EnterShape
  <2> QED BY <1>4, <2>1
<1>8. CASE (Fail(c) /\ ~At(c, "hello")) \/ ScanCloses(c) \/ ScanExhausted(c)
  <2>1. conn[c].pc = "up" BY <1>8 DEF Fail, ScanCloses, ScanExhausted, At
  <2>2. PICK x, o : ConnSet(c, x) /\ ObjSet(conn[c].s, o) BY <1>1, <1>8, <2>1, DoomShape
  <2> QED BY <1>4, <2>2
<1>9. CASE CloseEpoch(c)
  <2>1. PICK x, o : ConnSet(c, x) /\ ObjSet(conn[c].s, o) BY <1>1, <1>9, CloseEpochShape
  <2> QED BY <1>4, <2>1
<1>10. CASE CloseCount(c)
  <2>1. PICK x, o : ConnSet(c, x) /\ ObjSet(conn[c].s, o) BY <1>1, <1>10, CloseCountShape
  <2> QED BY <1>4, <2>1
<1>11. CASE CloseVersion(c) \/ CloseDeadline(c)
  <2>1. PICK x, o : ConnSet(c, x) /\ ObjSet(conn[c].s, o) BY <1>1, <1>11, CloseLastShape
  <2> QED BY <1>4, <2>1
<1> QED BY <1>3, <1>5, <1>6, <1>7, <1>8, <1>9, <1>10, <1>11

LEMMA CreateReach ==
    ASSUME PoolInv, ReachInv, NEW c \in Conns, HsCreate(c)
    PROVE  ReachInv'
<1>0. PICK s, k : s = created + 1 /\ k = conn[c].client OBVIOUS
<1>1. PICK o : /\ k \in Clients /\ s \in Obj /\ obj' = [obj EXCEPT ![s] = o]
               /\ o.raced = (TearingDown(k) # {})
               /\ sessions' = [sessions EXCEPT ![k] = s]
               /\ ports' = [ports EXCEPT ![k] = s] /\ registry' = [registry EXCEPT ![k] = s]
               /\ del' = del
  BY <1>0, HsCreateShape
<1>2. TypeOK /\ OwnInv /\ created \in Nat BY Constants DEF PoolInv, TypeOK
<1>3. 1..created \subseteq Obj /\ s \notin 1..created BY <1>0, <1>2, LiveFacts
<1>4. obj'[s] = o /\ \A r \in 1..created : obj'[r] = obj[r] BY <1>1, <1>2, <1>3 DEF TypeOK
<1>5. /\ sessions'[k] = s /\ ports'[k] = s /\ registry'[k] = s
      /\ \A j \in Clients \ {k} : /\ sessions'[j] = sessions[j]
                                   /\ ports'[j] = ports[j] /\ registry'[j] = registry[j]
  BY <1>1, <1>2 DEF TypeOK
<1>6. ASSUME NEW d \in Threads, del'[d].pc \in {"port", "registry"}
      PROVE  obj'[del'[d].s].client = obj[del[d].s].client
  <2>1. Busy(d) BY <1>1, <1>6 DEF Busy
  <2>2. del[d].s \in 1..created BY <1>2, <2>1 DEF OwnInv
  <2> QED BY <1>1, <1>4, <2>2
<1>7. \A j : TearingDown(j) = {} => TearingDown(j)' = {} BY <1>1, <1>6, TearingForm
<1>8. ASSUME NEW j \in Clients, sessions'[j] # None, ~obj'[sessions'[j]].raced
      PROVE  Own(j)' /\ TearingDown(j)' = {}
  <2>1. CASE j = k
    <3>1. TearingDown(k) = {} BY <1>1, <1>4, <1>5, <1>8, <2>1
    <3> QED BY <1>5, <1>7, <2>1, <3>1 DEF Own
  <2>2. CASE j # k
    <3>1. sessions'[j] = sessions[j] /\ sessions[j] \in 1..created
      BY <1>2, <1>5, <1>8, <2>2 DEF OwnInv
    <3>2. Own(j) /\ TearingDown(j) = {} BY <1>4, <1>8, <3>1 DEF ReachInv
    <3> QED BY <1>5, <1>7, <2>2, <3>1, <3>2 DEF Own
  <2> QED BY <2>1, <2>2
<1> QED BY <1>8 DEF ReachInv

LEMMA DestroyReach ==
    ASSUME PoolInv, ReachInv, NEW d \in Threads, Destroy(d)
    PROVE  ReachInv'
<1>1. TypeOK /\ OwnInv BY DEF PoolInv
<1>2. 1..created \subseteq Obj BY <1>1, LiveFacts
<1>3. CASE DestroyRemove(d)
  <2>1. PICK s \in del[d].todo, x \in DelType :
             /\ DelSet(d, x) /\ ObjKeeps /\ UNCHANGED <<ports, registry, created>>
             /\ \/ /\ sessions[obj[s].client] = s /\ x.pc = "port" /\ x.s = s
                   /\ sessions' = [sessions EXCEPT ![obj[s].client] = None]
                \/ x.pc \in {"idle", "picked"} /\ sessions' = sessions
    BY <1>3, RemoveShape
  <2>2. del'[d] = x /\ \A e \in Threads \ {d} : del'[e] = del[e]
    BY <1>1, <2>1, DelSetType
  <2>3. CASE x.pc \in {"idle", "picked"} /\ sessions' = sessions
    <3>1. \A e \in Threads : del'[e].pc \in {"port", "registry"} => del'[e] = del[e]
      BY <2>2, <2>3
    <3> QED BY <2>1, <2>3, <3>1, ReachKept
  <2>4. CASE x.s = s /\ sessions' = [sessions EXCEPT ![obj[s].client] = None]
    <3>1. s \in 1..created /\ s \in Obj BY <1>1, <1>2 DEF OwnInv
    <3>2. ASSUME NEW k \in Clients, sessions'[k] # None, ~obj'[sessions'[k]].raced
          PROVE  Own(k)' /\ TearingDown(k)' = {}
      <4>1. k # obj[s].client /\ sessions'[k] = sessions[k] /\ sessions[k] \in Obj
        BY <1>1, <1>2, <2>4, <3>2 DEF TypeOK, OwnInv
      <4>2. Own(k) /\ TearingDown(k) = {}
        BY <2>1, <3>2, <4>1 DEF ReachInv, ObjKeeps
      <4>3. ASSUME NEW e \in Threads, del'[e].pc \in {"port", "registry"}
            PROVE  obj'[del'[e].s].client # k
        <5>1. CASE e = d BY <2>1, <2>2, <2>4, <3>1, <4>1, <5>1 DEF ObjKeeps
        <5>2. CASE e # d
          <6>1. del'[e] = del[e] /\ Busy(e) BY <2>2, <4>3, <5>2 DEF Busy
          <6>2. del[e].s \in Obj BY <1>1, <1>2, <6>1 DEF OwnInv
          <6>3. obj[del[e].s].client # k BY <4>2, <4>3, <6>1, TearingForm
          <6> QED BY <2>1, <6>1, <6>2, <6>3 DEF ObjKeeps
        <5> QED BY <5>1, <5>2
      <4> QED BY <2>1, <4>1, <4>2, <4>3, TearingForm DEF Own
    <3> QED BY <3>2 DEF ReachInv
  <2> QED BY <2>1, <2>3, <2>4
<1>4. CASE DestroyPort(d) \/ DestroyRegistry(d)
  <2>0. PICK k : k = obj[del[d].s].client OBVIOUS
  <2>1. /\ del[d].pc \in {"port", "registry"} /\ del'[d].s = del[d].s
        /\ \A e \in Threads \ {d} : del'[e] = del[e]
    BY <1>4, UnlistPool
  <2>2. /\ UNCHANGED <<sessions, obj, created>>
        /\ ports' = ports \/ ports' = [ports EXCEPT ![k] = None]
        /\ registry' = registry \/ registry' = [registry EXCEPT ![k] = None]
    BY <1>4, <2>0 DEF DestroyPort, DestroyRegistry
  <2>3. \A j \in Clients : j # k => ports'[j] = ports[j] /\ registry'[j] = registry[j]
    BY <1>1, <2>2 DEF TypeOK
  <2>4. ASSUME NEW j \in Clients, sessions[j] # None, ~obj[sessions[j]].raced
        PROVE  Own(j)' /\ TearingDown(j)' = {}
    <3>1. Own(j) /\ TearingDown(j) = {} BY <2>4 DEF ReachInv
    <3>2. j # k BY <2>0, <2>1, <3>1, TearingForm
    <3>3. \A e \in Threads : del'[e].pc \in {"port", "registry"} => obj[del'[e].s].client # j
      BY <2>0, <2>1, <3>1, <3>2, TearingForm
    <3> QED BY <2>2, <2>3, <3>1, <3>2, <3>3, TearingForm DEF Own
  <2> QED BY <2>2, <2>4 DEF ReachInv
<1>5. CASE DestroyRelease(d)
  <2>1. del'[d].pc \in {"idle", "picked"} /\ \A e \in Threads \ {d} : del'[e] = del[e]
    BY <1>5, ReleasePool
  <2>2. UNCHANGED <<sessions, ports, registry, created, obj>>
    BY <1>5 DEF DestroyRelease, tableVars
  <2>3. ObjKeeps BY <1>1, <2>2 DEF ObjKeeps, TypeOK
  <2>4. \A e \in Threads : del'[e].pc \in {"port", "registry"} => del'[e] = del[e] BY <2>1
  <2> QED BY <2>2, <2>3, <2>4, ReachKept
<1> QED BY <1>3, <1>4, <1>5 DEF Destroy

LEMMA ReachStep == PoolInv /\ ReachInv /\ [Next]_vars => ReachInv'
<1> SUFFICES ASSUME PoolInv, ReachInv, [Next]_vars PROVE ReachInv'
  OBVIOUS
<1>1. TypeOK /\ OwnInv BY DEF PoolInv
<1>2. ASSUME ObjKeeps, UNCHANGED <<sessions, ports, registry, created, del>> PROVE ReachInv'
  BY <1>2, ReachKept
<1>3. ASSUME UNCHANGED <<sessions, ports, registry, created, del, obj>> PROVE ReachInv'
  <2>1. ObjKeeps BY <1>1, <1>3 DEF ObjKeeps, TypeOK
  <2> QED BY <1>2, <1>3, <2>1
<1>4. CASE UNCHANGED vars BY <1>3, <1>4 DEF vars
<1>5. ASSUME NEW c \in Conns, NEW k \in Clients, NEW i \in Instances, Connect(c, k, i)
      PROVE  ReachInv'
  BY <1>3, <1>5 DEF Connect, tableVars
<1>6. ASSUME NEW c \in Conns,
             Handshake(c) \/ Fail(c) \/ ScanCloses(c) \/ ScanExhausted(c) \/ Leave(c)
      PROVE  ReachInv'
  <2>1. CASE HsCreate(c) BY <2>1, CreateReach
  <2>2. CASE ~HsCreate(c) BY <1>2, <1>6, <2>2, ConnKeeps DEF Handshake, Leave
  <2> QED BY <2>1, <2>2
<1>7. ASSUME NEW s \in Obj, Expire(s) \/ SequenceExhausted(s) PROVE ReachInv'
  <2>1. UNCHANGED <<sessions, ports, registry, created, del>>
    BY <1>1, <1>7, TimeShape DEF tableVars
  <2>2. PICK o : /\ obj' = [obj EXCEPT ![s] = o] /\ o \in SessionType
                 /\ o.client = obj[s].client /\ o.v4 = obj[s].v4 /\ o.v6 = obj[s].v6 /\ o.raced = obj[s].raced
    BY <1>1, <1>7, TimeShape
  <2>3. ObjKeeps BY <1>1, <2>2 DEF ObjKeeps, TypeOK
  <2> QED BY <1>2, <2>1, <2>3
<1>8. ASSUME NEW d \in Threads,
             (d \in Workers /\ Reap(d)) \/ (\E k \in Clients : AdminKick(d, k) \/ AdminBan(d, k))
             \/ AdminKickAll(d)
      PROVE  ReachInv'
  <2>1. /\ UNCHANGED <<sessions, ports, registry, obj, created>> /\ Picks(d)
    BY <1>8, PickShape
  <2>2. CASE del' = del BY <1>3, <2>1, <2>2
  <2>3. CASE del' # del
    <3>1. PICK todo : todo \subseteq Live /\ DelSet(d, Picked(todo)) BY <2>1, <2>3 DEF Picks
    <3>2. todo \in SUBSET Obj BY <3>1 DEF Live
    <3>3. PICK x \in DelType : x = Picked(todo) /\ x.pc = "picked" BY <3>2, PickedType
    <3>4. del'[d] = x /\ \A e \in Threads \ {d} : del'[e] = del[e]
      BY <1>1, <3>1, <3>3, DelSetType
    <3>5. \A e \in Threads : del'[e].pc \in {"port", "registry"} => del'[e] = del[e]
      BY <3>3, <3>4
    <3>6. ObjKeeps BY <1>1, <2>1 DEF ObjKeeps, TypeOK
    <3> QED BY <2>1, <3>5, <3>6, ReachKept
  <2> QED BY <2>2, <2>3
<1>9. ASSUME NEW a \in Admins, NEW k \in Clients, AdminUnban(a, k) PROVE ReachInv'
  BY <1>3, <1>9 DEF AdminUnban
<1>10. ASSUME NEW d \in Threads, Destroy(d) PROVE ReachInv'
  BY <1>10, DestroyReach
<1> QED BY <1>4, <1>5, <1>6, <1>7, <1>8, <1>9, <1>10 DEF Next, Threads

(***************************************************************************)
(* For any number of workers and API threads: destroy_session removes the  *)
(* switch port and the registry entry, by client id and outside the        *)
(* sessions lock, of no session in the table, except one that a handshake  *)
(* created while the same client's earlier session was between the two.    *)
(***************************************************************************)
THEOREM LiveReachable == Spec => []LiveSessionReachable
<1>1. Init => PoolInv /\ ReachInv BY PoolInit DEF Init, ReachInv
<1>2. (PoolInv /\ ReachInv) /\ [Next]_vars => (PoolInv /\ ReachInv)' BY PoolStep, ReachStep
<1>3. (PoolInv /\ ReachInv) => LiveSessionReachable BY DEF ReachInv, Own, LiveSessionReachable
<1> QED BY <1>1, <1>2, <1>3, PTL DEF Spec

-----------------------------------------------------------------------------
(***************************************************************************)
(* One worker.  The steps of handle_handshake and on_conn_closed of two    *)
(* connections do not interleave then: between the sessions lock and the   *)
(* reading of the epoch, and between the comparison of the epochs and the  *)
(* subtraction, no other connection rotates the session.                   *)
(***************************************************************************)
SingleWorker == \A v, w \in Workers : v = w

Exclusive ==
    \A c \in Conns : conn[c].pc \in InHandler =>
        /\ \A w \in Workers : del[w].pc = "idle"
        /\ \A d \in Conns : conn[d].pc \in InHandler => d = c

EpochInv ==
    \A c \in Conns : conn[c].pc \in Counting =>
        /\ conn[c].epoch <= obj[conn[c].s].epoch
        /\ conn[c].pc = "leaving" => conn[c].epoch = obj[conn[c].s].epoch

CountInv ==
    \A s \in 1..created :
        /\ IsFiniteSet(Counted(s))
        /\ obj[s].active = Cardinality(Counted(s)) /\ obj[s].active <= MaxConns

\* Until an API request, only the worker's reaper removes sessions.
ServeInv ==
    orders = 0 =>
        /\ \A a \in Admins : del[a].pc = "idle"
        /\ \A s \in 1..created : Counted(s) # {} => s \in Live
        /\ \A w \in Workers : del[w].pc # "idle" => \A s \in del[w].todo : Counted(s) = {}

SoloInv == PoolInv /\ Exclusive /\ EpochInv /\ CountInv /\ ServeInv

\* Connection record x counts for session s when the session's epoch is e.
CountsIn(x, s, e) == x.s = s /\ (x.pc = "joined" \/ (x.pc \in Counting /\ x.epoch = e))

\* No session's epoch or count changes.
Steady == \A r \in 1..created : obj'[r].epoch = obj[r].epoch /\ obj'[r].active = obj[r].active

LEMMA CountedForm ==
    ASSUME NEW s
    PROVE  /\ Counted(s) = {c \in Conns : CountsIn(conn[c], s, obj[s].epoch)}
           /\ Counted(s)' = {c \in Conns : CountsIn(conn'[c], s, obj'[s].epoch)}
BY DEF Counted, CountsIn, Counting

LEMMA IdleAll ==
    ASSUME SingleWorker, NEW w \in Workers, WorkerIdle(w)
    PROVE  /\ \A v \in Workers : del[v].pc = "idle"
           /\ \A c \in Conns : conn[c].pc \notin InHandler
BY Constants DEF SingleWorker, WorkerIdle

LEMMA ConnSetForm ==
    ASSUME TypeOK, NEW c \in Conns, NEW x, ConnSet(c, x)
    PROVE  /\ conn'[c] = x /\ \A d \in Conns \ {c} : conn'[d] = conn[d]
           /\ UNCHANGED <<created, del, sessions, ports, registry, orders>>
<1>1. conn \in [Conns -> ConnType] BY DEF TypeOK
<1>2. conn' = [conn EXCEPT ![c] = x] BY DEF ConnSet
<1> QED BY <1>1, <1>2 DEF ConnSet, tableVars, fixed

LEMMA ConnExclusive ==
    ASSUME SingleWorker, TypeOK, Exclusive, NEW c \in Conns, NEW x, ConnSet(c, x),
           x.pc \in InHandler => conn[c].pc \in InHandler \/ WorkerIdle(WorkerOf[c])
    PROVE  Exclusive'
<1>1. /\ conn'[c] = x /\ \A d \in Conns \ {c} : conn'[d] = conn[d]
      /\ del' = del
  BY ConnSetForm
<1>2. CASE x.pc \notin InHandler BY <1>1, <1>2 DEF Exclusive
<1>3. CASE x.pc \in InHandler
  <2>1. (\A w \in Workers : del[w].pc = "idle")
        /\ \A d \in Conns \ {c} : conn[d].pc \notin InHandler
    <3>1. CASE conn[c].pc \in InHandler BY <3>1 DEF Exclusive
    <3>2. CASE WorkerIdle(WorkerOf[c])
      <4>1. WorkerOf[c] \in Workers BY Constants
      <4> QED BY <3>2, <4>1, IdleAll
    <3> QED BY <1>3, <3>1, <3>2
  <2> QED BY <1>1, <2>1 DEF Exclusive
<1> QED BY <1>2, <1>3

\* The count is kept by a step of c that is counted as before.
LEMMA CountKept ==
    ASSUME TypeOK, ConnInv, EpochInv, CountInv, Steady, created' = created,
           NEW c \in Conns, conn' \in [Conns -> ConnType],
           \A d \in Conns \ {c} : conn'[d] = conn[d],
           conn'[c].pc \in Counting =>
               /\ conn'[c].s \in 1..created /\ conn'[c].epoch <= obj[conn'[c].s].epoch
               /\ conn'[c].pc = "leaving" => conn'[c].epoch = obj[conn'[c].s].epoch,
           \A r \in 1..created :
               CountsIn(conn'[c], r, obj[r].epoch) <=> CountsIn(conn[c], r, obj[r].epoch)
    PROVE  /\ EpochInv' /\ CountInv'
           /\ \A r \in 1..created : Counted(r)' = Counted(r)
<1>1. ASSUME NEW r \in 1..created PROVE Counted(r)' = Counted(r)
  <2>1. obj'[r].epoch = obj[r].epoch BY DEF Steady
  <2>2. \A d \in Conns :
          CountsIn(conn'[d], r, obj'[r].epoch) <=> CountsIn(conn[d], r, obj[r].epoch)
    BY <2>1
  <2> QED BY <2>2, CountedForm
<1>2. CountInv' BY <1>1 DEF CountInv, Steady
<1>3. EpochInv'
  <2>1. ASSUME NEW d \in Conns, conn'[d].pc \in Counting
        PROVE  /\ conn'[d].epoch <= obj'[conn'[d].s].epoch
               /\ conn'[d].pc = "leaving" => conn'[d].epoch = obj'[conn'[d].s].epoch
    <3>1. CASE d = c BY <2>1, <3>1 DEF Steady
    <3>2. CASE d # c
      <4>1. conn'[d] = conn[d] BY <3>2
      <4>2. conn[d].pc \notin Before BY <2>1, <4>1 DEF Counting, Before
      <4>3. conn[d].s \in 1..created BY <4>2 DEF ConnInv
      <4> QED BY <2>1, <4>1, <4>3 DEF Steady, EpochInv
    <3> QED BY <3>1, <3>2
  <2> QED BY <2>1 DEF EpochInv
<1> QED BY <1>1, <1>2, <1>3

\* A step that leaves the tables alone and lets a session only be counted
\* more when it is in the table and no worker tears sessions down.
LEMMA ServeKept ==
    ASSUME TypeOK, OwnInv, ServeInv, ObjKeeps, Live' = Live,
           UNCHANGED <<created, del, sessions, ports, registry, orders>>,
           \A r \in 1..created :
               \/ Counted(r)' \subseteq Counted(r)
               \/ r \in Live /\ \A w \in Workers : del[w].pc = "idle"
    PROVE  ServeInv'
<1> SUFFICES ASSUME orders = 0
             PROVE  /\ \A a \in Admins : del'[a].pc = "idle"
                    /\ \A s \in 1..created' : Counted(s)' # {} => s \in Live'
                    /\ \A w \in Workers :
                         del'[w].pc # "idle" => \A s \in del'[w].todo : Counted(s)' = {}
  BY DEF ServeInv
<1>1. \A s \in 1..created : Counted(s)' # {} => s \in Live BY DEF ServeInv
<1>2. ASSUME NEW w \in Workers, del[w].pc # "idle", NEW s \in del[w].todo
      PROVE  Counted(s)' = {}
  <2>1. s \in 1..created BY DEF OwnInv, Threads
  <2>2. Counted(s) = {} /\ Counted(s)' \subseteq Counted(s) BY <1>2, <2>1 DEF ServeInv
  <2> QED BY <2>2
<1> QED BY <1>1, <1>2 DEF ServeInv

\* A step of c that changes no count.
LEMMA SoloKept ==
    ASSUME SingleWorker, SoloInv, PoolInv', Live' = Live, ObjKeeps, Steady,
           NEW c \in Conns, NEW x, ConnSet(c, x),
           x.pc \in InHandler => conn[c].pc \in InHandler \/ WorkerIdle(WorkerOf[c]),
           x.pc \in Counting =>
               /\ x.s \in 1..created /\ x.epoch <= obj[x.s].epoch
               /\ x.pc = "leaving" => x.epoch = obj[x.s].epoch,
           \A r \in 1..created : CountsIn(x, r, obj[r].epoch) <=> CountsIn(conn[c], r, obj[r].epoch)
    PROVE  SoloInv'
<1>1. TypeOK /\ ConnInv /\ OwnInv /\ TypeOK' BY DEF SoloInv, PoolInv
<1>2. /\ conn'[c] = x /\ \A d \in Conns \ {c} : conn'[d] = conn[d]
      /\ UNCHANGED <<created, del, sessions, ports, registry, orders>>
  BY <1>1, ConnSetForm
<1>3. conn' \in [Conns -> ConnType] BY <1>1 DEF TypeOK
<1>4. Exclusive' BY <1>1, ConnExclusive DEF SoloInv
<1>5. EpochInv' /\ CountInv' /\ \A r \in 1..created : Counted(r)' = Counted(r)
  <2>1. EpochInv /\ CountInv BY DEF SoloInv
  <2> QED BY <1>1, <1>2, <1>3, <2>1, CountKept
<1>6. ServeInv' BY <1>1, <1>2, <1>5, ServeKept DEF SoloInv
<1> QED BY <1>4, <1>5, <1>6 DEF SoloInv

\* A step of c that changes the count of its session s: the epochs of the
\* connections of s, and which of them are counted, are given.
LEMMA SoloCounts ==
    ASSUME SingleWorker, SoloInv, PoolInv', Live' = Live, ObjKeeps,
           NEW c \in Conns, NEW x, ConnSet(c, x), NEW s, NEW o, ObjSet(s, o),
           x.pc \in InHandler => conn[c].pc \in InHandler \/ WorkerIdle(WorkerOf[c]),
           x.pc \in Counting => x.s = s /\ x.epoch <= o.epoch /\ x.pc # "leaving",
           \A d \in Conns \ {c} : conn[d].pc \in Counting /\ conn[d].s = s =>
               /\ conn[d].epoch <= o.epoch
               /\ conn[d].pc = "leaving" => conn[d].epoch = o.epoch,
           IsFiniteSet(Counted(s)'), o.active = Cardinality(Counted(s)'), o.active <= MaxConns,
           conn[c].pc \in Before \/ conn[c].s = s,
           x.pc \in Before \/ x.s = s,
           \/ Counted(s)' \subseteq Counted(s)
           \/ s \in Live /\ conn[c].pc \in InHandler
    PROVE  SoloInv'
<1>1. TypeOK /\ ConnInv /\ OwnInv /\ s \in 1..created BY DEF SoloInv, PoolInv, ObjSet
<1>2. /\ conn'[c] = x /\ \A d \in Conns \ {c} : conn'[d] = conn[d]
      /\ UNCHANGED <<created, del, sessions, ports, registry, orders>>
  BY <1>1, ConnSetForm
<1>3. obj'[s] = o /\ \A r \in 1..created \ {s} : obj'[r] = obj[r]
  <2>1. 1..created \subseteq Obj BY <1>1, LiveFacts
  <2> QED BY <1>1, <2>1, ObjSetKeeps
<1>4. Exclusive' BY <1>1, ConnExclusive DEF SoloInv
<1>5. ASSUME NEW r \in 1..created, r # s PROVE Counted(r)' = Counted(r)
  <2>1. ~CountsIn(conn[c], r, obj[r].epoch) /\ ~CountsIn(x, r, obj[r].epoch)
    BY <1>5 DEF CountsIn, Before, Counting
  <2>2. \A d \in Conns :
          CountsIn(conn'[d], r, obj'[r].epoch) <=> CountsIn(conn[d], r, obj[r].epoch)
    BY <1>2, <1>3, <1>5, <2>1
  <2> QED BY <2>2, CountedForm
<1>6. CountInv'
  <2>1. ASSUME NEW r \in 1..created
        PROVE  /\ IsFiniteSet(Counted(r)')
               /\ obj'[r].active = Cardinality(Counted(r)') /\ obj'[r].active <= MaxConns
    <3>1. CASE r = s BY <1>3, <3>1
    <3>2. CASE r # s
      <4>1. Counted(r)' = Counted(r) /\ obj'[r] = obj[r] BY <1>3, <1>5, <3>2
      <4> QED BY <4>1 DEF SoloInv, CountInv
    <3> QED BY <3>1, <3>2
  <2>2. created' = created BY <1>2
  <2> QED BY <2>1, <2>2 DEF CountInv
<1>7. EpochInv'
  <2>1. ASSUME NEW d \in Conns, conn'[d].pc \in Counting
        PROVE  /\ conn'[d].epoch <= obj'[conn'[d].s].epoch
               /\ conn'[d].pc = "leaving" => conn'[d].epoch = obj'[conn'[d].s].epoch
    <3>1. CASE d = c BY <1>2, <1>3, <2>1, <3>1
    <3>2. CASE d # c
      <4>1. conn'[d] = conn[d] BY <1>2, <3>2
      <4>2. conn[d].pc \notin Before BY <2>1, <4>1 DEF Counting, Before
      <4>3. conn[d].s \in 1..created BY <1>1, <4>2 DEF ConnInv
      <4>4. CASE conn[d].s = s BY <1>3, <2>1, <3>2, <4>1, <4>4
      <4>5. CASE conn[d].s # s
        <5>1. obj'[conn[d].s] = obj[conn[d].s] BY <1>3, <4>3, <4>5
        <5> QED BY <2>1, <4>1, <5>1 DEF SoloInv, EpochInv
      <4> QED BY <4>4, <4>5
    <3> QED BY <3>1, <3>2
  <2> QED BY <2>1 DEF EpochInv
<1>8. ServeInv'
  <2>1. conn[c].pc \in InHandler => \A w \in Workers : del[w].pc = "idle"
    BY DEF SoloInv, Exclusive
  <2>2. \A r \in 1..created :
          \/ Counted(r)' \subseteq Counted(r)
          \/ r \in Live /\ \A w \in Workers : del[w].pc = "idle"
    <3> TAKE r \in 1..created
    <3>1. CASE r = s BY <2>1, <3>1
    <3>2. CASE r # s BY <1>5, <3>2
    <3> QED BY <3>1, <3>2
  <2> QED BY <1>1, <1>2, <2>2, ServeKept DEF SoloInv
<1> QED BY <1>4, <1>6, <1>7, <1>8 DEF SoloInv

LEMMA OutsideSolo ==
    ASSUME SingleWorker, SoloInv, NEW c \in Conns,
           HsGate(c) \/ HsRefuse(c) \/ HsNoCapacity(c) \/ HsNoToken(c) \/ (Fail(c) /\ At(c, "hello"))
    PROVE  SoloInv'
<1>1. PoolInv /\ TypeOK /\ ConnInv BY DEF SoloInv, PoolInv
<1>2. PoolInv' /\ Live' = Live BY <1>1, ConnPool
<1>3. PICK x : /\ ConnSet(c, x) /\ obj' = obj /\ conn[c].pc \in {"hello", "gated"}
               /\ \/ x = NoConn
                  \/ x.pc = "gated" /\ WorkerIdle(WorkerOf[c])
  BY <1>1, OutsideShape
<1>4. ObjKeeps /\ Steady BY <1>1, <1>3 DEF ObjKeeps, Steady, TypeOK
<1>5. x.pc \in {"closed", "gated"} /\ "closed" \notin InHandler BY <1>3, NoConnType DEF InHandler
<1>6. x.pc \in InHandler => WorkerIdle(WorkerOf[c]) BY <1>3, <1>5, NoConnType
<1>7. \A r, e : ~CountsIn(x, r, e) /\ ~CountsIn(conn[c], r, e)
  BY <1>3, <1>5 DEF CountsIn, Counting
<1>8. x.pc \notin Counting BY <1>5 DEF Counting
<1> QED BY <1>2, <1>3, <1>4, <1>6, <1>7, <1>8, SoloKept

LEMMA SameSteady ==
    ASSUME TypeOK, OwnInv, NEW s, NEW o, ObjSet(s, o), SameCount(s, o)
    PROVE  ObjKeeps /\ Steady
<1>1. ObjKeeps /\ obj'[s] = o /\ \A r \in Obj \ {s} : obj'[r] = obj[r] BY ObjSetKeeps
<1>2. 1..created \subseteq Obj BY LiveFacts
<1> QED BY <1>1, <1>2 DEF Steady, SameCount

LEMMA EnterSolo ==
    ASSUME SingleWorker, SoloInv, NEW c \in Conns, HsSnapshot(c) \/ HsRegister(c)
    PROVE  SoloInv'
<1> DEFINE s == conn[c].s
<1>1. PoolInv /\ TypeOK /\ ConnInv /\ OwnInv BY DEF SoloInv, PoolInv
<1>2. PoolInv' /\ Live' = Live BY <1>1, ConnPool
<1>3. PICK x, o :
        /\ ConnSet(c, x) /\ ObjSet(s, o) /\ Follows(c, x) /\ SameCount(s, o)
        /\ \/ conn[c].pc = "joined" /\ x.pc = "snapped" /\ x.epoch = obj[s].epoch
           \/ conn[c].pc = "snapped" /\ x.pc = "up" /\ x.epoch = conn[c].epoch
  BY <1>1, EnterShape
<1>4. ObjKeeps /\ Steady BY <1>1, <1>3, SameSteady
<1>5. s \in 1..created /\ obj[s].epoch \in Nat BY <1>1, <1>3, ObjOf DEF ObjSet
<1>6. x.s = s BY <1>3 DEF Follows
<1>7. conn[c].pc \in InHandler BY <1>3 DEF InHandler
<1>8. x.epoch <= obj[s].epoch /\ x.pc # "leaving"
  BY <1>3, <1>5 DEF SoloInv, EpochInv, Counting
<1>9. \A r \in 1..created :
        CountsIn(x, r, obj[r].epoch) <=> CountsIn(conn[c], r, obj[r].epoch)
  BY <1>3, <1>6 DEF CountsIn, Counting
<1> QED BY <1>2, <1>3, <1>4, <1>5, <1>6, <1>7, <1>8, <1>9, SoloKept

LEMMA CloseSolo ==
    ASSUME SingleWorker, SoloInv, NEW c \in Conns,
           CloseEpoch(c) \/ CloseVersion(c) \/ CloseDeadline(c)
    PROVE  SoloInv'
<1> DEFINE s == conn[c].s
<1>1. PoolInv /\ TypeOK /\ ConnInv /\ OwnInv BY DEF SoloInv, PoolInv
<1>2. PoolInv' /\ Live' = Live BY <1>1, ConnPool
<1>3. CASE CloseEpoch(c)
  <2>1. PICK x, o :
             /\ ConnSet(c, x) /\ ObjSet(s, o) /\ SameCount(s, o)
             /\ conn[c].pc = "doomed" /\ WorkerIdle(WorkerOf[c])
             /\ \/ x = NoConn /\ conn[c].epoch # obj[s].epoch
                \/ /\ x.pc = "leaving" /\ Follows(c, x) /\ x.epoch = conn[c].epoch
                   /\ conn[c].epoch = obj[s].epoch
    BY <1>1, <1>3, CloseEpochShape
  <2>2. ObjKeeps /\ Steady BY <1>1, <2>1, SameSteady
  <2>3. s \in 1..created /\ obj[s].epoch \in Nat BY <1>1, <2>1, ObjOf DEF ObjSet
  <2>4. x.pc \in Counting =>
               /\ x.s \in 1..created /\ x.epoch <= obj[x.s].epoch
               /\ x.pc = "leaving" => x.epoch = obj[x.s].epoch
    BY <2>1, <2>3, NoConnType DEF Counting, Follows
  <2>5. \A r \in 1..created :
          CountsIn(x, r, obj[r].epoch) <=> CountsIn(conn[c], r, obj[r].epoch)
    BY <2>1, NoConnType DEF CountsIn, Counting, Follows
  <2> QED BY <1>2, <2>1, <2>2, <2>4, <2>5, SoloKept
<1>4. CASE CloseVersion(c) \/ CloseDeadline(c)
  <2>1. PICK x, o :
             /\ ConnSet(c, x) /\ ObjSet(s, o) /\ SameCount(s, o)
             /\ conn[c].pc \in {"last", "stamped"}
             /\ x = NoConn \/ x.pc = "stamped"
    BY <1>1, <1>4, CloseLastShape
  <2>2. ObjKeeps /\ Steady BY <1>1, <2>1, SameSteady
  <2>3. x.pc \in {"closed", "stamped"} BY <2>1, NoConnType
  <2>4. conn[c].pc \in InHandler /\ x.pc \notin Counting BY <2>1, <2>3 DEF InHandler, Counting
  <2>5. \A r, e : ~CountsIn(x, r, e) /\ ~CountsIn(conn[c], r, e)
    BY <2>1, <2>3 DEF CountsIn, Counting
  <2> QED BY <1>2, <2>1, <2>2, <2>4, <2>5, SoloKept
<1> QED BY <1>3, <1>4

\* The connections of a session that stay as they are while c is in a handler
\* or about to enter one.
LEMMA Bystanders ==
    ASSUME TypeOK, ConnInv, EpochInv, NEW c \in Conns, NEW s \in 1..created,
           \A d \in Conns \ {c} : conn[d].pc \notin InHandler
    PROVE  \A d \in Conns \ {c} :
               /\ conn[d].pc \notin {"joined", "leaving"}
               /\ conn[d].epoch \in Nat /\ obj[s].epoch \in Nat
               /\ conn[d].pc \in Counting /\ conn[d].s = s => conn[d].epoch <= obj[s].epoch
<1> TAKE d \in Conns \ {c}
<1>1. conn[d].epoch \in Nat /\ obj[s].epoch \in Nat BY ConnOf, ObjOf
<1>2. conn[d].pc \notin {"joined", "leaving"} BY DEF InHandler
<1>3. conn[d].pc \in Counting /\ conn[d].s = s => conn[d].epoch <= obj[s].epoch
  BY DEF EpochInv
<1> QED BY <1>1, <1>2, <1>3

LEMMA JoinSolo ==
    ASSUME SingleWorker, SoloInv, NEW c \in Conns, HsJoin(c)
    PROVE  SoloInv'
<1>0. PICK s : s = sessions[conn[c].client] OBVIOUS
<1>1. PoolInv /\ TypeOK /\ ConnInv /\ OwnInv /\ EpochInv /\ CountInv BY DEF SoloInv, PoolInv
<1>2. PoolInv' /\ Live' = Live BY <1>1, ConnPool
<1>3. PICK x, o :
        /\ ConnSet(c, x) /\ ObjSet(s, o) /\ conn[c].pc = "gated" /\ s \in Live
        /\ \/ x = NoConn /\ SameCount(s, o)
           \/ /\ x.pc = "joined" /\ x.s = s /\ x.client \in Clients /\ Joins(s, o)
  BY <1>0, <1>1, HsJoinShape
<1>4. conn[c].pc \in InHandler /\ \A r, e : ~CountsIn(conn[c], r, e)
  BY <1>3 DEF InHandler, CountsIn, Counting
<1>5. CASE x = NoConn /\ SameCount(s, o)
  <2>1. ObjKeeps /\ Steady BY <1>1, <1>3, <1>5, SameSteady
  <2>2. x.pc = "closed" BY <1>5, NoConnType
  <2>3. x.pc \notin Counting /\ \A r, e : ~CountsIn(x, r, e) BY <2>2 DEF CountsIn, Counting
  <2> QED BY <1>2, <1>3, <1>4, <2>1, <2>3, SoloKept
<1>6. CASE x.pc = "joined" /\ x.s = s /\ Joins(s, o)
  <2>1. ObjKeeps /\ obj'[s] = o /\ s \in 1..created BY <1>1, <1>3, ObjSetKeeps DEF ObjSet
  <2>2. conn'[c] = x /\ \A d \in Conns \ {c} : conn'[d] = conn[d] BY <1>1, <1>3, ConnSetForm
  <2>3. \A d \in Conns \ {c} : conn[d].pc \notin InHandler
    BY <1>4 DEF SoloInv, Exclusive
  <2>4. \A d \in Conns \ {c} :
               /\ conn[d].pc \notin {"joined", "leaving"}
               /\ conn[d].epoch \in Nat /\ obj[s].epoch \in Nat
               /\ conn[d].pc \in Counting /\ conn[d].s = s => conn[d].epoch <= obj[s].epoch
    BY <1>1, <2>1, <2>3, Bystanders
  <2>5. obj[s].epoch \in Nat /\ obj[s].active \in Nat BY <1>1, <2>1, ObjOf
  <2>6. CountsIn(x, s, o.epoch) /\ x.pc \notin Counting /\ c \notin Counted(s)
    BY <1>4, <1>6, CountedForm, ZenonT(40) DEF CountsIn, Counting
  <2>7. /\ IsFiniteSet(Counted(s)') /\ o.active = Cardinality(Counted(s)')
        /\ o.active <= MaxConns
    <3>1. CASE o.epoch = obj[s].epoch /\ o.active = obj[s].active + 1 /\ obj[s].active < MaxConns
      <4>1. \A d \in Conns : CountsIn(conn'[d], s, obj'[s].epoch) <=>
                             d = c \/ CountsIn(conn[d], s, obj[s].epoch)
        BY <2>1, <2>2, <2>6, <3>1
      <4>2. Counted(s)' = Counted(s) \cup {c} BY <4>1, CountedForm
      <4>3. IsFiniteSet(Counted(s)) /\ obj[s].active = Cardinality(Counted(s))
        BY <1>1, <2>1 DEF CountInv
      <4>4. /\ IsFiniteSet(Counted(s) \cup {c})
            /\ Cardinality(Counted(s) \cup {c}) = Cardinality(Counted(s)) + 1
        BY <2>6, <4>3, FS_AddElement
      <4> QED BY <2>5, <3>1, <4>2, <4>3, <4>4, Constants
    <3>2. CASE o.epoch = obj[s].epoch + 1 /\ o.active = 1
      <4>1. \A d \in Conns \ {c} : ~CountsIn(conn[d], s, o.epoch)
        BY <2>4, <3>2 DEF CountsIn
      <4>2. Counted(s)' = {c} BY <2>1, <2>2, <2>6, <4>1, CountedForm
      <4>3. IsFiniteSet({c}) /\ Cardinality({c}) = 1 BY FS_Singleton
      <4> QED BY <3>2, <4>2, <4>3, Constants
    <3> QED BY <1>6, <3>1, <3>2 DEF Joins
  <2>8. \A d \in Conns \ {c} : conn[d].pc \in Counting /\ conn[d].s = s =>
               /\ conn[d].epoch <= o.epoch
               /\ conn[d].pc = "leaving" => conn[d].epoch = o.epoch
    BY <1>6, <2>4 DEF Joins
  <2>9. conn[c].pc \in Before BY <1>3 DEF Before
  <2> QED BY <1>2, <1>3, <1>4, <1>6, <2>1, <2>6, <2>7, <2>8, <2>9, SoloCounts
<1> QED BY <1>3, <1>5, <1>6

\* The connections of session s once its epoch is raised: none of them counts.
LEMMA RaisedNone ==
    ASSUME SingleWorker, SoloInv, PoolInv', Live' = Live, NEW c \in Conns, NEW x,
           NEW s, NEW o, ConnSet(c, x), ObjSet(s, o),
           o.epoch = obj[s].epoch + 1, o.active = 0,
           \A d \in Conns \ {c} : conn[d].pc \notin InHandler,
           x.pc \notin InHandler,
           x.pc \in Counting => x.s = s /\ x.epoch <= obj[s].epoch /\ x.epoch \in Nat,
           conn[c].pc \in Before \/ conn[c].s = s, x.pc \in Before \/ x.s = s
    PROVE  SoloInv'
<1>1. PoolInv /\ TypeOK /\ ConnInv /\ OwnInv /\ EpochInv /\ CountInv BY DEF SoloInv, PoolInv
<1>2. ObjKeeps /\ obj'[s] = o /\ s \in 1..created BY <1>1, ObjSetKeeps DEF ObjSet
<1>3. conn'[c] = x /\ \A d \in Conns \ {c} : conn'[d] = conn[d] BY <1>1, ConnSetForm
<1>4. \A d \in Conns \ {c} :
           /\ conn[d].pc \notin {"joined", "leaving"}
           /\ conn[d].epoch \in Nat /\ obj[s].epoch \in Nat
           /\ conn[d].pc \in Counting /\ conn[d].s = s => conn[d].epoch <= obj[s].epoch
  BY <1>1, <1>2, Bystanders
<1>5. obj[s].epoch \in Nat BY <1>1, <1>2, ObjOf
<1>6. x.pc # "joined" /\ x.pc # "leaving" BY DEF InHandler
<1>7. Counted(s)' = {}
  <2>1. ~CountsIn(x, s, o.epoch) BY <1>5, <1>6 DEF CountsIn
  <2>2. \A d \in Conns \ {c} : ~CountsIn(conn[d], s, o.epoch) BY <1>4 DEF CountsIn
  <2> QED BY <1>2, <1>3, <2>1, <2>2, CountedForm
<1>8. /\ IsFiniteSet(Counted(s)') /\ o.active = Cardinality(Counted(s)')
      /\ o.active <= MaxConns /\ Counted(s)' \subseteq Counted(s)
  BY <1>7, FS_EmptySet, Constants
<1>9. \A d \in Conns \ {c} : conn[d].pc \in Counting /\ conn[d].s = s =>
           /\ conn[d].epoch <= o.epoch
           /\ conn[d].pc = "leaving" => conn[d].epoch = o.epoch
  BY <1>4
<1>10. x.pc \in Counting => x.s = s /\ x.epoch <= o.epoch /\ x.pc # "leaving"
  BY <1>5, <1>6
<1> QED BY <1>2, <1>8, <1>9, <1>10, SoloCounts

LEMMA TokenFailsSolo ==
    ASSUME SingleWorker, SoloInv, NEW c \in Conns, HsTokenFails(c)
    PROVE  SoloInv'
<1>0. PICK s : s = sessions[conn[c].client] OBVIOUS
<1>1. PoolInv /\ TypeOK /\ ConnInv /\ OwnInv /\ Exclusive BY DEF SoloInv, PoolInv
<1>2. PoolInv' /\ Live' = Live BY <1>1, ConnPool
<1>3. PICK o : /\ ConnSet(c, NoConn) /\ ObjSet(s, o) /\ conn[c].pc = "gated"
               /\ o.epoch = obj[s].epoch + 1 /\ o.active = 0
  BY <1>0, <1>1, TokenFailsShape
<1>4. conn[c].pc \in InHandler /\ conn[c].pc \in Before BY <1>3 DEF InHandler, Before
<1>5. \A d \in Conns \ {c} : conn[d].pc \notin InHandler BY <1>1, <1>4 DEF Exclusive
<1>6. /\ NoConn.pc \notin InHandler /\ NoConn.pc \notin Counting /\ NoConn.pc \in Before
  BY NoConnType DEF InHandler, Counting, Before
<1> QED BY <1>2, <1>3, <1>4, <1>5, <1>6, RaisedNone

LEMMA DoomSolo ==
    ASSUME SingleWorker, SoloInv, NEW c \in Conns, conn[c].pc = "up",
           Fail(c) \/ ScanCloses(c) \/ ScanExhausted(c)
    PROVE  SoloInv'
<1>0. PICK s : s = conn[c].s OBVIOUS
<1>1. PoolInv /\ TypeOK /\ ConnInv /\ OwnInv /\ EpochInv /\ CountInv BY DEF SoloInv, PoolInv
<1>2. PoolInv' /\ Live' = Live BY <1>1, ConnPool
<1>3. PICK x, o :
        /\ ConnSet(c, x) /\ ObjSet(s, o) /\ Follows(c, x)
        /\ x.pc = "doomed" /\ x.epoch = conn[c].epoch /\ WorkerIdle(WorkerOf[c])
        /\ \/ SameCount(s, o)
           \/ o.epoch = obj[s].epoch + 1 /\ o.active = 0
  BY <1>0, <1>1, DoomShape
<1>4. /\ s \in 1..created /\ obj[s].epoch \in Nat /\ conn[c].epoch \in Nat
      /\ conn[c].epoch <= obj[s].epoch
  BY <1>0, <1>1, <1>3, ObjOf, ConnOf DEF ObjSet, EpochInv, Counting
<1>5. x.pc \notin InHandler /\ x.s = s BY <1>0, <1>3 DEF InHandler, Follows
<1>6. CASE SameCount(s, o)
  <2>1. ObjKeeps /\ Steady BY <1>1, <1>3, <1>6, SameSteady
  <2>2. \A r \in 1..created :
          CountsIn(x, r, obj[r].epoch) <=> CountsIn(conn[c], r, obj[r].epoch)
    BY <1>0, <1>3, <1>5 DEF CountsIn, Counting
  <2> QED BY <1>2, <1>3, <1>4, <1>5, <2>1, <2>2, SoloKept
<1>7. CASE o.epoch = obj[s].epoch + 1 /\ o.active = 0
  <2>1. \A d \in Conns : conn[d].pc \notin InHandler
    <3>1. WorkerOf[c] \in Workers BY Constants
    <3> QED BY <1>3, <3>1, IdleAll
  <2> QED BY <1>0, <1>2, <1>3, <1>4, <1>5, <1>7, <2>1, RaisedNone
<1> QED BY <1>3, <1>6, <1>7

LEMMA CountSolo ==
    ASSUME SingleWorker, SoloInv, NEW c \in Conns, CloseCount(c)
    PROVE  SoloInv'
<1>0. PICK s : s = conn[c].s OBVIOUS
<1>1. PoolInv /\ TypeOK /\ ConnInv /\ OwnInv /\ EpochInv /\ CountInv BY DEF SoloInv, PoolInv
<1>2. PoolInv' /\ Live' = Live BY <1>1, ConnPool
<1>3. PICK x, o :
        /\ ConnSet(c, x) /\ ObjSet(s, o) /\ conn[c].pc = "leaving"
        /\ o.epoch = obj[s].epoch
        /\ o.active = IF obj[s].active = 0 THEN CountMod - 1 ELSE obj[s].active - 1
        /\ x = NoConn \/ (x.pc = "last" /\ Follows(c, x))
  BY <1>0, <1>1, CloseCountShape
<1>4. s \in 1..created /\ conn[c].epoch = obj[s].epoch /\ obj[s].active \in Nat
  BY <1>0, <1>1, <1>3, ObjOf DEF ObjSet, EpochInv, Counting
<1>5. ObjKeeps /\ obj'[s] = o BY <1>1, <1>3, ObjSetKeeps
<1>6. conn'[c] = x /\ \A d \in Conns \ {c} : conn'[d] = conn[d] BY <1>1, <1>3, ConnSetForm
<1>7. x.pc \in {"closed", "last"} BY <1>3, NoConnType
<1>8. x.pc \notin Counting /\ conn[c].pc \in InHandler /\ \A r, e : ~CountsIn(x, r, e)
  BY <1>3, <1>7 DEF Counting, CountsIn, InHandler
<1>9. c \in Counted(s) BY <1>0, <1>3, <1>4, CountedForm DEF CountsIn, Counting
<1>10. Counted(s)' = Counted(s) \ {c} BY <1>3, <1>5, <1>6, <1>8, CountedForm
<1>11. /\ IsFiniteSet(Counted(s)') /\ o.active = Cardinality(Counted(s)')
       /\ o.active <= MaxConns
  <2>1. /\ IsFiniteSet(Counted(s)) /\ obj[s].active = Cardinality(Counted(s))
        /\ obj[s].active <= MaxConns
    BY <1>1, <1>4 DEF CountInv
  <2>2. /\ IsFiniteSet(Counted(s) \ {c})
        /\ Cardinality(Counted(s) \ {c}) = Cardinality(Counted(s)) - 1
    BY <1>9, <2>1, FS_RemoveElement
  <2>3. obj[s].active # 0 BY <1>9, <2>1, FS_EmptySet
  <2> QED BY <1>3, <1>4, <1>10, <2>1, <2>2, <2>3, Constants
<1>12. \A d \in Conns \ {c} : conn[d].pc \in Counting /\ conn[d].s = s =>
               /\ conn[d].epoch <= o.epoch
               /\ conn[d].pc = "leaving" => conn[d].epoch = o.epoch
  BY <1>1, <1>3 DEF EpochInv
<1>13. x.pc \in Before \/ x.s = s BY <1>0, <1>3, NoConnType DEF Before, Follows
<1>14. Counted(s)' \subseteq Counted(s) BY <1>10
<1> QED BY <1>0, <1>2, <1>3, <1>5, <1>8, <1>11, <1>12, <1>13, <1>14, SoloCounts

LEMMA CreateSolo ==
    ASSUME SingleWorker, SoloInv, NEW c \in Conns, HsCreate(c)
    PROVE  SoloInv'
<1>0. PICK s, k : s = created + 1 /\ k = conn[c].client OBVIOUS
<1>1. PICK x, o :
        /\ conn[c].pc = "gated" /\ k \in Clients /\ sessions[k] = None
        /\ created' = s /\ s \in Obj /\ obj' = [obj EXCEPT ![s] = o]
        /\ o.client = k /\ o.active = 1
        /\ sessions' = [sessions EXCEPT ![k] = s]
        /\ ports' = [ports EXCEPT ![k] = s] /\ registry' = [registry EXCEPT ![k] = s]
        /\ conn' = [conn EXCEPT ![c] = x] /\ x.pc = "joined" /\ x.s = s
        /\ UNCHANGED <<del, orders>>
  BY <1>0, HsCreateShape DEF SoloInv
<1>2. /\ TypeOK /\ ConnInv /\ OwnInv /\ Exclusive /\ EpochInv /\ CountInv /\ ServeInv
      /\ created \in Nat /\ PoolInv'
  BY Constants, HsCreatePool DEF SoloInv, PoolInv, TypeOK
<1>3. /\ s \notin 1..created /\ s # None /\ s \in 1..s /\ 1..created \subseteq Obj
      /\ \A r \in 1..s : r # s => r \in 1..created
  BY <1>0, <1>2, LiveFacts DEF None
<1>4. /\ obj'[s] = o /\ \A r \in 1..created : obj'[r] = obj[r]
  BY <1>1, <1>2, <1>3 DEF TypeOK
<1>5. /\ conn'[c] = x /\ \A d \in Conns \ {c} : conn'[d] = conn[d]
  BY <1>1, <1>2 DEF TypeOK
<1>6. sessions'[k] = s /\ \A j \in Clients \ {k} : sessions'[j] = sessions[j]
  BY <1>1, <1>2 DEF TypeOK
<1>7. /\ \A w \in Workers : del[w].pc = "idle"
      /\ \A d \in Conns \ {c} : conn[d].pc \notin InHandler
  <2>1. conn[c].pc \in InHandler BY <1>1 DEF InHandler
  <2> QED BY <1>2, <2>1 DEF Exclusive
<1>8. Exclusive' BY <1>1, <1>5, <1>7 DEF Exclusive
<1>9. \A d \in Conns : conn[d].s # s
  <2> TAKE d \in Conns
  <2>1. conn[d].s = None \/ conn[d].s \in 1..created BY <1>2 DEF ConnInv
  <2> QED BY <1>3, <2>1
<1>10. EpochInv'
  <2>1. ASSUME NEW d \in Conns, conn'[d].pc \in Counting
        PROVE  /\ conn'[d].epoch <= obj'[conn'[d].s].epoch
               /\ conn'[d].pc = "leaving" => conn'[d].epoch = obj'[conn'[d].s].epoch
    <3>1. d # c BY <1>1, <1>5, <2>1 DEF Counting
    <3>2. conn'[d] = conn[d] BY <1>5, <3>1
    <3>3. conn[d].pc \notin Before BY <2>1, <3>2 DEF Counting, Before
    <3>4. conn[d].s \in 1..created BY <1>2, <3>3 DEF ConnInv
    <3>5. obj'[conn[d].s] = obj[conn[d].s] BY <1>4, <3>4
    <3> QED BY <1>2, <2>1, <3>2, <3>5 DEF EpochInv
  <2> QED BY <2>1 DEF EpochInv
<1>11. ASSUME NEW r \in 1..created PROVE Counted(r)' = Counted(r)
  <2>1. obj'[r] = obj[r] /\ r # s BY <1>3, <1>4
  <2>2. ~CountsIn(x, r, obj[r].epoch) /\ ~CountsIn(conn[c], r, obj[r].epoch)
    BY <1>1, <2>1 DEF CountsIn, Counting
  <2>3. \A d \in Conns :
          CountsIn(conn'[d], r, obj'[r].epoch) <=> CountsIn(conn[d], r, obj[r].epoch)
    BY <1>5, <2>1, <2>2
  <2> QED BY <2>3, CountedForm
<1>12. Counted(s)' = {c}
  <2>1. CountsIn(conn'[c], s, obj'[s].epoch) BY <1>1, <1>5 DEF CountsIn
  <2>2. \A d \in Conns \ {c} : ~CountsIn(conn'[d], s, obj'[s].epoch)
    BY <1>5, <1>9 DEF CountsIn
  <2> QED BY <2>1, <2>2, CountedForm
<1>13. CountInv'
  <2>1. ASSUME NEW r \in 1..s
        PROVE  /\ IsFiniteSet(Counted(r)')
               /\ obj'[r].active = Cardinality(Counted(r)') /\ obj'[r].active <= MaxConns
    <3>1. CASE r = s
      <4>1. IsFiniteSet({c}) /\ Cardinality({c}) = 1 BY FS_Singleton
      <4>2. obj'[r].active = 1 BY <1>1, <1>4, <3>1
      <4> QED BY <1>12, <3>1, <4>1, <4>2, Constants
    <3>2. CASE r # s
      <4>1. r \in 1..created BY <1>3, <3>2
      <4>2. obj'[r] = obj[r] /\ Counted(r)' = Counted(r) BY <1>4, <1>11, <4>1
      <4> QED BY <1>2, <4>1, <4>2 DEF CountInv
    <3> QED BY <3>1, <3>2
  <2>2. created' = s BY <1>1
  <2> QED BY <2>1, <2>2 DEF CountInv
<1>14. ServeInv'
  <2> SUFFICES ASSUME orders = 0
               PROVE  \A r \in 1..s : Counted(r)' # {} => r \in Live'
    BY <1>1, <1>2, <1>7 DEF ServeInv
  <2>1. ASSUME NEW r \in 1..s, Counted(r)' # {} PROVE r \in Live'
    <3>1. CASE r = s
      <4>1. s \in Obj /\ s <= created' /\ sessions'[obj'[s].client] = s
        BY <1>1, <1>4, <1>6, <1>3
      <4> QED BY <3>1, <4>1 DEF Live
    <3>2. CASE r # s
      <4>1. r \in 1..created BY <1>3, <3>2
      <4>2. r \in Live BY <1>2, <1>11, <2>1, <4>1 DEF ServeInv
      <4>3. r \in Obj /\ sessions[obj[r].client] = r /\ r # None /\ obj[r].client \in Clients
        BY <1>2, <4>1, <4>2 DEF Live, None, OwnInv
      <4>4. obj'[r] = obj[r] /\ obj[r].client # k BY <1>1, <1>4, <4>1, <4>3
      <4>5. sessions'[obj'[r].client] = r BY <1>6, <4>3, <4>4
      <4>6. r <= created' BY <1>1, <1>0, <1>2
      <4> QED BY <4>3, <4>5, <4>6 DEF Live
    <3> QED BY <3>1, <3>2
  <2> QED BY <2>1
<1> QED BY <1>2, <1>8, <1>10, <1>13, <1>14 DEF SoloInv

LEMMA ConnectSolo ==
    ASSUME SoloInv, NEW c \in Conns, NEW k \in Clients, NEW i \in Instances,
           Connect(c, k, i)
    PROVE  SoloInv'
<1>1. PoolInv /\ TypeOK /\ ConnInv /\ OwnInv /\ EpochInv /\ CountInv BY DEF SoloInv, PoolInv
<1>2. PoolInv' /\ Live' = Live BY <1>1, ConnectPool
<1>3. PICK x : x = [NoConn EXCEPT !.pc = "hello", !.client = k, !.inst = i] OBVIOUS
<1>4. x.pc = "hello" BY <1>3, NoConnType DEF ConnType
<1>5. /\ conn' = [conn EXCEPT ![c] = x] /\ conn[c].pc = "closed"
      /\ UNCHANGED <<obj, created, del, sessions, ports, registry, orders>>
  BY <1>3 DEF Connect, At, tableVars
<1>6. /\ conn' \in [Conns -> ConnType] /\ conn'[c] = x
      /\ \A d \in Conns \ {c} : conn'[d] = conn[d]
  BY <1>1, <1>2, <1>5 DEF PoolInv, TypeOK
<1>7. ObjKeeps /\ Steady BY <1>1, <1>5 DEF ObjKeeps, Steady, TypeOK
<1>8. /\ x.pc \notin Counting /\ x.pc \notin InHandler
      /\ \A r, e : ~CountsIn(x, r, e) /\ ~CountsIn(conn[c], r, e)
  BY <1>4, <1>5 DEF CountsIn, Counting, InHandler
<1>9. EpochInv' /\ CountInv' /\ \A r \in 1..created : Counted(r)' = Counted(r)
  BY <1>1, <1>5, <1>6, <1>7, <1>8, CountKept
<1>10. Exclusive' BY <1>5, <1>6, <1>8 DEF SoloInv, Exclusive
<1>11. ServeInv' BY <1>1, <1>2, <1>5, <1>7, <1>9, ServeKept DEF SoloInv
<1> QED BY <1>2, <1>9, <1>10, <1>11 DEF SoloInv

\* No connection moves, and no session's epoch or count changes.
LEMMA StillCounts ==
    ASSUME TypeOK, ConnInv, EpochInv, CountInv, Steady, UNCHANGED <<created, conn>>
    PROVE  EpochInv' /\ CountInv' /\ \A r \in 1..created : Counted(r)' = Counted(r)
<1>1. ASSUME NEW r \in 1..created PROVE Counted(r)' = Counted(r)
  <2>1. obj'[r].epoch = obj[r].epoch BY DEF Steady
  <2> QED BY <2>1, CountedForm
<1>2. CountInv' BY <1>1 DEF CountInv, Steady
<1>3. EpochInv'
  <2>1. ASSUME NEW d \in Conns, conn[d].pc \in Counting
        PROVE  obj'[conn[d].s].epoch = obj[conn[d].s].epoch
    <3>1. conn[d].pc \notin Before BY <2>1 DEF Counting, Before
    <3>2. conn[d].s \in 1..created BY <3>1 DEF ConnInv
    <3> QED BY <3>2 DEF Steady
  <2> QED BY <2>1 DEF EpochInv
<1> QED BY <1>1, <1>2, <1>3

LEMMA TimeSolo ==
    ASSUME SoloInv, NEW s \in Obj, Expire(s) \/ SequenceExhausted(s)
    PROVE  SoloInv'
<1>1. PoolInv /\ TypeOK /\ ConnInv /\ OwnInv /\ EpochInv /\ CountInv BY DEF SoloInv, PoolInv
<1>2. PoolInv' /\ Live' = Live BY <1>1, TimePool
<1>3. UNCHANGED <<created, conn, del, sessions, ports, registry, orders>>
  BY <1>1, TimeShape DEF tableVars
<1>4. PICK o : /\ obj' = [obj EXCEPT ![s] = o] /\ o \in SessionType /\ SameCount(s, o)
               /\ o.client = obj[s].client /\ o.v4 = obj[s].v4 /\ o.v6 = obj[s].v6 /\ o.raced = obj[s].raced
  BY <1>1, TimeShape
<1>5. ObjKeeps /\ Steady
  <2>1. 1..created \subseteq Obj BY <1>1, LiveFacts
  <2>2. obj'[s] = o /\ \A r \in Obj \ {s} : obj'[r] = obj[r] BY <1>1, <1>4 DEF TypeOK
  <2>3. obj' \in [Obj -> SessionType] BY <1>2 DEF PoolInv, TypeOK
  <2> QED BY <1>4, <2>1, <2>2, <2>3 DEF ObjKeeps, Steady, SameCount
<1>6. EpochInv' /\ CountInv' /\ \A r \in 1..created : Counted(r)' = Counted(r)
  BY <1>1, <1>3, <1>5, StillCounts
<1>7. Exclusive' BY <1>3 DEF SoloInv, Exclusive
<1>8. ServeInv' BY <1>1, <1>2, <1>3, <1>5, <1>6, ServeKept DEF SoloInv
<1> QED BY <1>2, <1>6, <1>7, <1>8 DEF SoloInv

LEMMA PickSolo ==
    ASSUME SingleWorker, SoloInv, NEW d \in Threads,
           \/ d \in Workers /\ Reap(d)
           \/ /\ d \in Admins
              /\ (\E k \in Clients : AdminKick(d, k) \/ AdminBan(d, k)) \/ AdminKickAll(d)
    PROVE  SoloInv'
<1>1. /\ PoolInv /\ TypeOK /\ ConnInv /\ OwnInv /\ Exclusive /\ EpochInv /\ CountInv
      /\ ServeInv /\ orders \in Nat
  BY DEF SoloInv, PoolInv, TypeOK
<1>2. /\ UNCHANGED <<sessions, ports, registry, obj, created, conn, accepted, exhaustions,
                     used4, used6, macToIp>>
      /\ orders' \in Nat /\ orders <= orders'
      /\ orders' = orders => d \in Workers /\ WorkerIdle(d)
      /\ del[d].pc = "idle" /\ Picks(d)
  BY <1>1, PickShape
<1>3. d \in Workers => WorkerIdle(d) BY Constants DEF Reap
<1>4. Steady BY <1>2 DEF Steady
<1>5. EpochInv' /\ CountInv' /\ \A r \in 1..created : Counted(r)' = Counted(r)
  BY <1>1, <1>2, <1>4, StillCounts
<1>6. orders' = 0 => orders = 0 BY <1>1, <1>2
<1>7. CASE del' = del
  <2>1. PoolInv'
    BY <1>1, <1>2, <1>7 DEF PoolInv, TypeOK, PendingInv, Pending, ConnInv, OwnInv, Busy,
       AddrInv, Holders, Live, Dying
  <2>2. Exclusive' BY <1>1, <1>2, <1>7 DEF Exclusive
  <2>3. Live' = Live BY <1>2 DEF Live
  <2>4. \A w \in Workers : del[w].todo \subseteq 1..created BY <1>1 DEF OwnInv, Threads
  <2>5. ServeInv' BY <1>1, <1>2, <1>5, <1>6, <1>7, <2>3, <2>4 DEF ServeInv
  <2> QED BY <1>5, <2>1, <2>2, <2>5 DEF SoloInv
<1>8. CASE del' # del
  <2>1. PICK todo : /\ todo \subseteq Live /\ DelSet(d, Picked(todo))
                    /\ orders' = orders => \A s \in todo : obj[s].active = 0
    BY <1>2, <1>8 DEF Picks
  <2>2. todo \subseteq 1..created BY <1>1, <2>1, LiveFacts
  <2>3. /\ PoolInv' /\ Live' = Live /\ del'[d].pc = "picked" /\ del'[d].todo = todo
        /\ \A e \in Threads \ {d} : del'[e] = del[e]
    BY <1>1, <1>2, <2>1, <2>2, PickPool
  <2>4. Exclusive'
    <3>1. CASE d \in Workers
      <4>1. \A c \in Conns : conn[c].pc \notin InHandler BY <1>3, <3>1, IdleAll
      <4> QED BY <1>2, <4>1 DEF Exclusive
    <3>2. CASE d \notin Workers
      <4>1. \A w \in Workers : del'[w] = del[w] BY <2>3, <3>2 DEF Threads
      <4> QED BY <1>1, <1>2, <4>1 DEF Exclusive
    <3> QED BY <3>1, <3>2
  <2>5. ServeInv'
    <3> SUFFICES ASSUME orders' = 0
                 PROVE  /\ \A a \in Admins : del'[a].pc = "idle"
                        /\ \A s \in 1..created' : Counted(s)' # {} => s \in Live'
                        /\ \A w \in Workers :
                             del'[w].pc # "idle" => \A s \in del'[w].todo : Counted(s)' = {}
      BY DEF ServeInv
    <3>1. orders = 0 /\ d \in Workers /\ d \notin Admins BY <1>2, <1>6, Constants
    <3>2. \A s \in todo : Counted(s)' = {}
      <4> TAKE s \in todo
      <4>1. obj[s].active = 0 /\ s \in 1..created BY <1>6, <2>1, <2>2, <3>1
      <4>2. IsFiniteSet(Counted(s)) /\ Cardinality(Counted(s)) = 0
        BY <1>1, <4>1 DEF CountInv
      <4>3. Counted(s) = {} BY <4>2, FS_EmptySet
      <4> QED BY <1>5, <4>1, <4>3
    <3>3. \A a \in Admins : del'[a] = del[a] BY <2>3, <3>1 DEF Threads
    <3>4. ASSUME NEW w \in Workers
          PROVE  del'[w].pc # "idle" => \A s \in del'[w].todo : Counted(s)' = {}
      <4>1. w = d BY <3>1 DEF SingleWorker
      <4> QED BY <2>3, <3>2, <4>1
    <3> QED BY <1>1, <1>2, <1>5, <2>3, <3>1, <3>3, <3>4 DEF ServeInv
  <2> QED BY <1>5, <2>3, <2>4, <2>5 DEF SoloInv
<1> QED BY <1>7, <1>8

\* A step of destroy_session by thread d.
LEMMA DestroySolo ==
    ASSUME SingleWorker, SoloInv, NEW d \in Threads, Destroy(d)
    PROVE  SoloInv'
<1>1. /\ PoolInv /\ TypeOK /\ ConnInv /\ OwnInv /\ Exclusive /\ EpochInv /\ CountInv
      /\ ServeInv
  BY DEF SoloInv, PoolInv
<1>2. /\ UNCHANGED <<conn, created, orders>> /\ Steady /\ ObjKeeps
      /\ \A e \in Threads \ {d} : del'[e] = del[e]
      /\ del[d].pc # "idle" /\ PoolInv' /\ del'[d].todo \subseteq del[d].todo
  <2>1. CASE DestroyRemove(d)
    <3>1. PICK s \in del[d].todo, x \in DelType :
             /\ DelSet(d, x) /\ del[d].pc = "picked" /\ ObjKeeps
             /\ \A r \in 1..created : SameCount(r, obj'[r])
             /\ x.todo = del[d].todo \ {s}
             /\ UNCHANGED <<ports, registry, banned, created, conn, poolVars, fixed>>
      BY <1>1, <2>1, RemoveShape
    <3>2. PoolInv' BY <1>1, <2>1, RemovePool
    <3>3. del'[d] = x /\ \A e \in Threads \ {d} : del'[e] = del[e]
      BY <1>1, <3>1, DelSetType
    <3> QED BY <3>1, <3>2, <3>3 DEF Steady, SameCount, fixed
  <2>2. CASE DestroyPort(d) \/ DestroyRegistry(d)
    <3>1. UNCHANGED <<conn, created, orders, obj>>
      BY <2>2 DEF DestroyPort, DestroyRegistry, fixed
    <3> QED BY <1>1, <2>2, <3>1, UnlistPool DEF Steady, ObjKeeps, TypeOK
  <2>3. CASE DestroyRelease(d)
    <3>1. UNCHANGED <<conn, created, orders, obj>>
      BY <2>3 DEF DestroyRelease, fixed
    <3> QED BY <1>1, <2>3, <3>1, ReleasePool DEF Steady, ObjKeeps, TypeOK
  <2> QED BY <2>1, <2>2, <2>3 DEF Destroy
<1>3. EpochInv' /\ CountInv' /\ \A r \in 1..created : Counted(r)' = Counted(r)
  BY <1>1, <1>2, StillCounts
<1>4. Exclusive'
  <2>1. CASE d \in Workers BY <1>1, <1>2, <2>1 DEF Exclusive
  <2>2. CASE d \notin Workers
    <3>1. \A w \in Workers : del'[w] = del[w] BY <1>2, <2>2 DEF Threads
    <3> QED BY <1>1, <1>2, <3>1 DEF Exclusive
  <2> QED BY <2>1, <2>2
<1>5. ServeInv'
  <2> SUFFICES ASSUME orders = 0
               PROVE  /\ \A a \in Admins : del'[a].pc = "idle"
                      /\ \A s \in 1..created : Counted(s)' # {} => s \in Live'
                      /\ \A w \in Workers :
                           del'[w].pc # "idle" => \A s \in del'[w].todo : Counted(s)' = {}
    BY <1>2 DEF ServeInv
  <2>1. d \in Workers /\ d \notin Admins BY <1>1, <1>2, Constants DEF ServeInv, Threads
  <2>2. \A a \in Admins : del'[a].pc = "idle" BY <1>1, <1>2, <2>1 DEF ServeInv, Threads
  <2>3. \A s \in del[d].todo : s \in 1..created /\ Counted(s) = {}
    BY <1>1, <1>2, <2>1 DEF ServeInv, OwnInv
  <2>4. \A s \in del'[d].todo : Counted(s)' = {} BY <1>2, <1>3, <2>3
  <2>5. ASSUME NEW w \in Workers
        PROVE  del'[w].pc # "idle" => \A r \in del'[w].todo : Counted(r)' = {}
    <3>1. w = d BY <2>1 DEF SingleWorker
    <3> QED BY <2>4, <3>1
  <2>6. CASE DestroyRemove(d)
    <3>1. PICK s \in del[d].todo :
             \/ /\ sessions[obj[s].client] = s
                /\ sessions' = [sessions EXCEPT ![obj[s].client] = None]
             \/ sessions' = sessions
      BY <1>1, <2>6, RemoveShape
    <3>2. s \in 1..created /\ Counted(s) = {} /\ obj[s].client \in Clients
      BY <1>1, <2>3 DEF OwnInv
    <3>a. CASE sessions' = sessions
      <4>1. Live' = Live BY <1>2, <3>a DEF Live, ObjKeeps
      <4>2. \A r \in 1..created : Counted(r)' # {} => r \in Live'
        BY <1>1, <1>3, <4>1 DEF ServeInv
      <4> QED BY <2>2, <2>5, <4>2
    <3>b. CASE /\ sessions[obj[s].client] = s
               /\ sessions' = [sessions EXCEPT ![obj[s].client] = None]
      <4>1. ASSUME NEW r \in 1..created, Counted(r)' # {} PROVE r \in Live'
        <5>1. r # s /\ r \in Live BY <1>1, <1>3, <3>2, <4>1 DEF ServeInv
        <5>2. /\ r \in Obj /\ r <= created /\ sessions[obj[r].client] = r
              /\ obj[r].client \in Clients
          BY <1>1, <5>1 DEF Live, OwnInv
        <5>3. obj'[r].client = obj[r].client /\ sessions'[obj[r].client] = r
          BY <1>1, <1>2, <3>b, <5>1, <5>2 DEF ObjKeeps, TypeOK
        <5> QED BY <1>2, <5>2, <5>3 DEF Live
      <4> QED BY <2>2, <2>5, <4>1
    <3> QED BY <3>1, <3>a, <3>b
  <2>7. CASE DestroyPort(d) \/ DestroyRegistry(d) \/ DestroyRelease(d)
    <3>1. Live' = Live BY <1>1, <2>7, UnlistPool, ReleasePool
    <3>2. \A s \in 1..created : Counted(s)' # {} => s \in Live'
      BY <1>1, <1>3, <3>1 DEF ServeInv
    <3> QED BY <2>2, <2>5, <3>2
  <2> QED BY <2>6, <2>7 DEF Destroy
<1> QED BY <1>2, <1>3, <1>4, <1>5 DEF SoloInv

LEMMA SoloInit == Init => SoloInv
<1> SUFFICES ASSUME Init PROVE SoloInv
  OBVIOUS
<1>1. PoolInv BY PoolInit
<1>2. created = 0 /\ \A c \in Conns : conn[c].pc = "closed" BY NoConnType DEF Init
<1>3. \A d \in Threads : del[d].pc = "idle" BY NoDelType DEF Init, Threads
<1>4. Exclusive /\ EpochInv BY <1>2 DEF Exclusive, EpochInv, InHandler, Counting
<1>5. CountInv BY <1>2 DEF CountInv
<1>6. ServeInv BY <1>2, <1>3 DEF ServeInv, Init, Threads
<1> QED BY <1>1, <1>4, <1>5, <1>6 DEF SoloInv

LEMMA SoloStep == ASSUME SingleWorker PROVE SoloInv /\ [Next]_vars => SoloInv'
<1> SUFFICES ASSUME SoloInv, [Next]_vars PROVE SoloInv'
  OBVIOUS
<1>1. ASSUME UNCHANGED <<sessions, ports, registry, obj, created, conn, del, accepted,
                         exhaustions, orders, used4, used6, macToIp>>
      PROVE  SoloInv'
  <2>1. PoolInv'
    BY <1>1 DEF SoloInv, PoolInv, TypeOK, PendingInv, Pending, ConnInv, OwnInv, Busy, AddrInv,
       Holders, Live, Dying
  <2>2. Exclusive' /\ EpochInv' /\ CountInv'
    BY <1>1 DEF SoloInv, Exclusive, EpochInv, CountInv, Counted
  <2>3. ServeInv' BY <1>1 DEF SoloInv, ServeInv, Counted, Live
  <2> QED BY <2>1, <2>2, <2>3 DEF SoloInv
<1>2. CASE UNCHANGED vars BY <1>1, <1>2 DEF vars
<1>3. ASSUME NEW c \in Conns, NEW k \in Clients, NEW i \in Instances, Connect(c, k, i)
      PROVE  SoloInv'
  BY <1>3, ConnectSolo
<1>4. ASSUME NEW c \in Conns, Handshake(c) PROVE SoloInv'
  BY <1>4, OutsideSolo, JoinSolo, TokenFailsSolo, CreateSolo, EnterSolo DEF Handshake
<1>5. ASSUME NEW c \in Conns, Fail(c) \/ ScanCloses(c) \/ ScanExhausted(c) PROVE SoloInv'
  <2>1. CASE conn[c].pc = "up" BY <1>5, <2>1, DoomSolo
  <2>2. CASE conn[c].pc # "up"
    <3>1. Fail(c) /\ At(c, "hello") BY <1>5, <2>2 DEF Fail, ScanCloses, ScanExhausted, At
    <3> QED BY <3>1, OutsideSolo
  <2> QED BY <2>1, <2>2
<1>6. ASSUME NEW c \in Conns, Leave(c) PROVE SoloInv'
  BY <1>6, CloseSolo, CountSolo DEF Leave
<1>7. ASSUME NEW s \in Obj, Expire(s) \/ SequenceExhausted(s) PROVE SoloInv'
  BY <1>7, TimeSolo
<1>8. ASSUME NEW w \in Workers, Reap(w) PROVE SoloInv'
  BY <1>8, PickSolo DEF Threads
<1>9. ASSUME NEW a \in Admins,
             (\E k \in Clients : AdminKick(a, k) \/ AdminBan(a, k)) \/ AdminKickAll(a)
      PROVE  SoloInv'
  BY <1>9, PickSolo DEF Threads
<1>10. ASSUME NEW a \in Admins, NEW k \in Clients, AdminUnban(a, k) PROVE SoloInv'
  BY <1>1, <1>10 DEF AdminUnban, poolVars, fixed
<1>11. ASSUME NEW d \in Threads, Destroy(d) PROVE SoloInv'
  BY <1>11, DestroySolo
<1> QED BY <1>2, <1>3, <1>4, <1>5, <1>6, <1>7, <1>8, <1>9, <1>10, <1>11 DEF Next, Threads

LEMMA SoloImplies == SoloInv => CountExact /\ ServedByLiveSession
<1> SUFFICES ASSUME SoloInv PROVE CountExact /\ ServedByLiveSession
  OBVIOUS
<1>1. CountExact BY DEF SoloInv, CountInv, CountExact
<1>2. ServedByLiveSession
  <2> SUFFICES ASSUME orders = 0, NEW c \in Conns, At(c, "up"),
                      conn[c].epoch = obj[conn[c].s].epoch
               PROVE  conn[c].s \in Live
    BY DEF ServedByLiveSession
  <2>1. conn[c].pc = "up" BY DEF At
  <2>2. conn[c].s \in 1..created BY <2>1 DEF SoloInv, PoolInv, ConnInv, Before
  <2>3. c \in Counted(conn[c].s) BY <2>1 DEF Counted
  <2> QED BY <2>2, <2>3 DEF SoloInv, ServeInv
<1> QED BY <1>1, <1>2

\* With one worker every reachable state satisfies the invariant.
LEMMA SoloReached == ASSUME SingleWorker PROVE Spec => []SoloInv
<1>1. Init => SoloInv BY SoloInit
<1>2. SoloInv /\ [Next]_vars => SoloInv' BY SoloStep
<1> QED BY <1>1, <1>2, PTL DEF Spec

(***************************************************************************)
(* With one worker, active_conns is the number of connections that joined  *)
(* the session's current epoch (handle_handshake) and were not subtracted  *)
(* yet (on_conn_closed): rotations and used-up sequence spaces that store  *)
(* 0 into it never make the fetch_sub wrap, whatever the API threads do.   *)
(***************************************************************************)
THEOREM CountsExact == ASSUME SingleWorker PROVE Spec => []CountExact
<1>1. Spec => []SoloInv BY SoloReached
<1>2. SoloInv => CountExact BY SoloImplies
<1> QED BY <1>1, <1>2, PTL

(***************************************************************************)
(* With one worker and before an API request, the reaper of worker_loop    *)
(* never takes the session from under a connection in service: a joining   *)
(* connection is counted under the sessions lock, and the worker that      *)
(* collected a session runs no handler until it is destroyed.              *)
(***************************************************************************)
THEOREM ServedWhileLive == ASSUME SingleWorker PROVE Spec => []ServedByLiveSession
<1>1. Spec => []SoloInv BY SoloReached
<1>2. SoloInv => ServedByLiveSession BY SoloImplies
<1> QED BY <1>1, <1>2, PTL

=============================================================================
