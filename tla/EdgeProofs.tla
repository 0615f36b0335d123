------------------------------- MODULE EdgeProofs -------------------------------
(***************************************************************************)
(* Proofs about the parts around the tunnel: a link's handshake            *)
(* (LinkSetup), the client's start, hooks and policy routes (ClientHost),  *)
(* the web panel with its listeners, its configuration file, its event     *)
(* streams and its traffic history (Dashboard), and a client that comes    *)
(* back to its session (SessionResume).                                    *)
(***************************************************************************)
EXTENDS LinkSetup, ClientHost, Dashboard, SessionResume, FiniteSetTheorems, SequenceTheorems,
        WellFoundedInduction, TLAPS

(***************************************************************************)
(* The set-up of a connection.                                             *)
(***************************************************************************)

Stages == {"dial", "mark", "connect", "greet", "auth", "request", "tls", "brutal", "set_cc",
           "version", "set_params", "read_back", "cork", "serve", "failed"}

\* What StreamReady rests on: a reply with an IP address leaves no bytes.
ReadyInv ==
    /\ stage \in Stages /\ link.mark \in BOOLEAN
    /\ open = IF stage \in {"dial", "failed"} THEN 0 ELSE 1
    /\ stage \notin {"dial", "mark", "failed"} => marked = link.mark
    /\ unread \in [atyp : AddressTypes \cup {"none"}, bytes : Int]
    /\ unread.atyp \in {"none", "ipv4", "ipv6"} => unread.bytes = 0

LEMMA ReadyInit == LinkInit => ReadyInv
BY DEF LinkInit, ReadyInv, Stages, AddressTypes

\* The bytes of a reply that connect_over leaves.
LEMMA LeftBytes ==
    ASSUME NEW atyp \in AddressTypes, NEW len \in Nat
    PROVE  /\ BoundBytes(atyp, len) - ReadBytes(atyp, len) \in Int
           /\ atyp \in {"ipv4", "ipv6"} => BoundBytes(atyp, len) - ReadBytes(atyp, len) = 0
<1>1. CASE atyp = "ipv4" BY <1>1 DEF BoundBytes, ReadBytes
<1>2. CASE atyp = "ipv6" BY <1>2 DEF BoundBytes, ReadBytes
<1>3. CASE atyp = "domain" BY <1>3 DEF BoundBytes, ReadBytes
<1>4. CASE atyp = "other" BY <1>4 DEF BoundBytes, ReadBytes
<1> QED BY <1>1, <1>2, <1>3, <1>4 DEF AddressTypes

LEMMA ReadyStep == ReadyInv /\ [LinkNext]_linkVars => ReadyInv'
<1> SUFFICES ASSUME ReadyInv, [LinkNext]_linkVars PROVE ReadyInv' OBVIOUS
<1> USE DEF ReadyInv, Stages, AddressTypes
<1>1. ASSUME NEW ok \in BOOLEAN, OpenSocket(ok) \/ SetMark(ok) \/ ConnectSocket(ok) \/ Handshake(ok)
      PROVE  ReadyInv'
  <2>1. CASE OpenSocket(ok) BY <2>1 DEF OpenSocket
  <2>2. CASE SetMark(ok) /\ ok BY <2>2 DEF SetMark
  <2>3. CASE SetMark(ok) /\ ~ok BY <2>3 DEF SetMark, NextAddress
  <2>4. CASE ConnectSocket(ok) /\ ok BY <2>4 DEF ConnectSocket, Go, dialVars
  <2>5. CASE ConnectSocket(ok) /\ ~ok BY <2>5 DEF ConnectSocket, NextAddress
  <2>6. CASE Handshake(ok) /\ Go("brutal") BY <2>6 DEF Handshake, Go, dialVars
  <2>7. CASE Handshake(ok) /\ Fail BY <2>7 DEF Handshake, Fail
  <2> QED BY <1>1, <2>1, <2>2, <2>3, <2>4, <2>5, <2>6, <2>7 DEF Handshake
<1>2. CASE NoAddressLeft BY <1>2 DEF NoAddressLeft, dialVars
<1>3. CASE ProxyFails
  <2>1. open = 1 BY <1>3 DEF ProxyFails
  <2>2. stage' = "failed" /\ open' = 0 /\ UNCHANGED <<link, unread>>
    BY <1>3, <2>1 DEF ProxyFails, Fail
  <2> QED BY <2>2
<1>4. ASSUME NEW method, Greeting(method) PROVE ReadyInv' BY <1>4 DEF Greeting, Go, dialVars
<1>5. CASE Authenticated BY <1>5 DEF Authenticated, Go, dialVars
<1>6. ASSUME NEW atyp \in AddressTypes, NEW len \in 0..MaxLen, ConnectReply(atyp, len) PROVE ReadyInv'
  <2>1. /\ BoundBytes(atyp, len) - ReadBytes(atyp, len) \in Int
        /\ atyp \in {"ipv4", "ipv6"} => BoundBytes(atyp, len) - ReadBytes(atyp, len) = 0
    <3>1. MaxLen \in Nat BY LinkSetupAssumption
    <3>2. len \in Nat BY <3>1
    <3> HIDE DEF AddressTypes
    <3> QED BY <3>2, LeftBytes
  <2> QED BY <1>6, <2>1 DEF ConnectReply, Go, dialVars
<1>7. ASSUME NEW ok \in BOOLEAN, GetCongestion(ok) \/ SkipBrutal PROVE ReadyInv'
  BY <1>7 DEF GetCongestion, SkipBrutal, Go, dialVars
<1>8. ASSUME NEW outcome, SetCongestion(outcome) \/ ReadBack(outcome) PROVE ReadyInv'
  BY <1>8 DEF SetCongestion, ReadBack, Go, dialVars
<1>9. ASSUME NEW outcome, NEW ok, GetVersion(outcome, ok) \/ SetParams(outcome, ok) PROVE ReadyInv'
  BY <1>9 DEF GetVersion, SetParams, Restore, Go, dialVars
<1>10. ASSUME NEW ok \in BOOLEAN, NewCork(ok) \/ MaybeFlush(ok) \/ Tick PROVE ReadyInv'
  BY <1>10 DEF NewCork, MaybeFlush, Tick, corkRest, dialVars
<1>11. ASSUME NEW ok, NEW n, Write(n, ok) \/ WriteKeepalive(n) PROVE ReadyInv'
  BY <1>11 DEF Write, WriteKeepalive, corkRest, dialVars
<1>12. ASSUME NEW ok, Close(ok) PROVE ReadyInv' BY <1>12 DEF Close, Fail
<1>13. CASE Done \/ UNCHANGED linkVars BY <1>13 DEF Done, linkVars
<1> QED
  BY <1>1, <1>2, <1>3, <1>4, <1>5, <1>6, <1>7, <1>8, <1>9, <1>10, <1>11, <1>12, <1>13 DEF LinkNext

\* dial_with_mark, connect_over and dial_and_serve hold one socket at most, with
\* its mark, and leave nothing of the proxy's replies in the stream but for the
\* port after a domain name and an address of a type they do not know.
THEOREM StreamIsReady == LinkSpec => []StreamReady
<1>1. ReadyInv => StreamReady BY DEF ReadyInv, StreamReady
<1> QED BY <1>1, ReadyInit, ReadyStep, PTL DEF LinkSpec

(* TCP Brutal *)

Results == [attempted : BOOLEAN, applied : BOOLEAN, managed : BOOLEAN, grouped : BOOLEAN,
            rate : Nat, error : {"none", "failed", "stuck"}]

\* What the code knows of the socket's algorithm, stage by stage.
BrutalInv ==
    /\ stage \in Stages
    /\ link \in [mark : BOOLEAN, proxy : BOOLEAN, mine : 0..MaxRate, theirs : 0..MaxRate,
                 conns : 1..MaxConns, index : 0..MaxConns - 1]
    /\ rate \in Nat /\ result \in Results
    /\ stage \in Stages \ {"cork", "serve", "failed"} =>
          ~result.applied /\ result.rate = 0 /\ (previous # "none" => previous = first)
    /\ stage \in Stages \ {"version", "set_params", "read_back", "cork", "serve", "failed"} => cc = first
    /\ stage \in {"version", "set_params"} => cc = "brutal"
    /\ stage = "read_back" => result.managed \/ rate = Wanted
    /\ RateReportTrue

LEMMA WantedType ==
    ASSUME link \in [mark : BOOLEAN, proxy : BOOLEAN, mine : 0..MaxRate, theirs : 0..MaxRate,
                     conns : 1..MaxConns, index : 0..MaxConns - 1]
    PROVE  Wanted \in Nat
<1>1. Agreed \in Nat BY LinkSetupAssumption DEF Agreed, Clip
<1>2. Agreed * Unit \in Nat /\ link.conns \in Nat \ {0} BY <1>1, LinkSetupAssumption
<1>3. (Agreed * Unit) \div link.conns \in Nat BY <1>2
<1> QED BY <1>2, <1>3 DEF Wanted, Share

LEMMA LockedRate == MaxRate * Unit + 1 \in Nat
BY LinkSetupAssumption

LEMMA BrutalInit == LinkInit => BrutalInv
BY DEF LinkInit, BrutalInv, Stages, Results, NoResult, RateReportTrue

LEMMA BrutalStep == BrutalInv /\ [LinkNext]_linkVars => BrutalInv'
<1> SUFFICES ASSUME BrutalInv, [LinkNext]_linkVars PROVE BrutalInv' OBVIOUS
<1> USE DEF BrutalInv, Stages, RateReportTrue
<1>w. Wanted \in Nat BY WantedType
<1>k. ASSUME UNCHANGED <<link, result>> PROVE Wanted' = Wanted
  BY <1>k DEF Wanted, Share, Agreed, Clip
<1>1. ASSUME UNCHANGED <<link, brutalVars>>, stage' \in Stages,
             \/ stage' = stage
             \/ stage' = "failed"
             \/ stage \notin {"version", "set_params", "read_back", "cork", "serve", "failed"}
                /\ stage' \notin {"version", "set_params", "read_back"}
             \/ stage = "cork" /\ stage' = "serve"
      PROVE  BrutalInv'
  <2>1. UNCHANGED <<link, result, cc, first, rate, previous>> /\ Wanted' = Wanted
    BY <1>1, <1>k DEF brutalVars
  <2> QED BY <1>1, <2>1
<1>2. ASSUME NEW ok, OpenSocket(ok) \/ SetMark(ok) \/ ConnectSocket(ok) \/ Handshake(ok)
      PROVE  BrutalInv'
  BY <1>2, <1>1 DEF OpenSocket, SetMark, ConnectSocket, Handshake, NextAddress, Go, Fail
<1>3. ASSUME NEW method, Greeting(method) PROVE BrutalInv' BY <1>3, <1>1 DEF Greeting, Go
<1>4. CASE NoAddressLeft \/ ProxyFails \/ Authenticated
  BY <1>4, <1>1 DEF NoAddressLeft, ProxyFails, Authenticated, Go, Fail
<1>5. ASSUME NEW atyp, NEW len, ConnectReply(atyp, len) PROVE BrutalInv'
  BY <1>5, <1>1 DEF ConnectReply, Go
<1>6. CASE SkipBrutal BY <1>6, <1>1 DEF SkipBrutal, Go
<1>7. ASSUME NEW ok \in BOOLEAN, GetCongestion(ok) PROVE BrutalInv'
  BY <1>7 DEF GetCongestion, Go, NoResult, Results
<1>8. ASSUME NEW outcome, SetCongestion(outcome) PROVE BrutalInv'
  <2>1. CASE stage' = "version" BY <1>8, <2>1 DEF SetCongestion, Go, Results
  <2>2. CASE stage' = "cork" BY <1>8, <2>2 DEF SetCongestion, Go, Results
  <2> QED BY <1>8, <2>1, <2>2 DEF SetCongestion, Go
<1>9. ASSUME NEW answer, NEW ok \in BOOLEAN, GetVersion(answer, ok) PROVE BrutalInv'
  <2>1. CASE answer = "error" /\ ok BY <1>9, <2>1 DEF GetVersion, Restore, Go, Results
  <2>2. CASE answer = "error" /\ ~ok BY <1>9, <2>2 DEF GetVersion, Restore, Go, Results
  <2>3. CASE answer # "error"
    <3>1. PICK g \in BOOLEAN : result' = [result EXCEPT !.grouped = g]
      BY <1>9, <2>3 DEF GetVersion
    <3> QED BY <1>9, <2>3, <3>1 DEF GetVersion, Go, Results
  <2> QED BY <2>1, <2>2, <2>3
<1>10. ASSUME NEW outcome, NEW ok \in BOOLEAN, SetParams(outcome, ok) PROVE BrutalInv'
  <2>2. CASE outcome = "ok" /\ Wanted > 0 /\ rate' = Wanted /\ Go("read_back") /\ UNCHANGED <<cc, result>>
    BY <1>10, <2>2, <1>w, <1>k DEF SetParams, Go
  <2>3. CASE /\ outcome = "locked" /\ Wanted > 0 /\ rate' = MaxRate * Unit + 1
             /\ result' = [result EXCEPT !.managed = TRUE]
             /\ Go("read_back") /\ UNCHANGED cc
    BY <1>10, <2>3, LockedRate DEF SetParams, Go, Results
  <2>4. CASE Restore(ok) /\ UNCHANGED rate
    <3>1. CASE ok BY <1>10, <2>4, <3>1 DEF SetParams, Restore, Go, Results
    <3>2. CASE ~ok BY <1>10, <2>4, <3>2 DEF SetParams, Restore, Go, Results
    <3> QED BY <3>1, <3>2
  <2> QED BY <1>10, <2>2, <2>3, <2>4 DEF SetParams
<1>11. ASSUME NEW outcome \in Outcomes, ReadBack(outcome) PROVE BrutalInv'
  <2>1. /\ Claim(outcome) \in Nat
        /\ Claim(outcome) > 0 => Claim(outcome) = rate \/ (result.managed /\ outcome # "ok")
    BY <1>11, <1>w DEF ReadBack, Claim, Outcomes
  <2> QED BY <1>11, <2>1 DEF ReadBack, Go, Results
<1>12. ASSUME NEW ok, NewCork(ok) \/ MaybeFlush(ok) \/ Tick \/ Close(ok) PROVE BrutalInv'
  BY <1>12, <1>1 DEF NewCork, MaybeFlush, Tick, Close, Fail, corkRest
<1>13. ASSUME NEW ok, NEW n, Write(n, ok) \/ WriteKeepalive(n) PROVE BrutalInv'
  BY <1>13, <1>1 DEF Write, WriteKeepalive, corkRest
<1>14. CASE Done \/ UNCHANGED linkVars BY <1>14, <1>1 DEF Done, linkVars, brutalVars
<1> HIDE DEF BrutalInv
<1> QED
  BY <1>2, <1>3, <1>4, <1>5, <1>6, <1>7, <1>8, <1>9, <1>10, <1>11, <1>12, <1>13, <1>14 DEF LinkNext

\* configure_tcp_brutal reports the rate the kernel enforces, and leaves the
\* former algorithm when it gives up.
THEOREM RateIsTrue == LinkSpec => []RateReportTrue
<1>1. BrutalInv => RateReportTrue BY DEF BrutalInv
<1> QED BY <1>1, BrutalInit, BrutalStep, PTL DEF LinkSpec

(* The cork *)

\* What is left of a segment-wise count.
LEMMA Modulo ==
    ASSUME NEW a \in Nat
    PROVE  /\ (a % Mss) \in 0..Mss - 1
           /\ a < Mss => (a % Mss) = a
           /\ a >= Mss => (a % Mss) <= a - Mss
           /\ a >= Mss /\ a < 2 * Mss => (a % Mss) = a - Mss
<1>1. Mss \in Nat \ {0} BY LinkSetupAssumption
<1>2. PICK q \in Int : a = Mss * q + (a % Mss) /\ (a % Mss) \in 0..Mss - 1
  <2>1. a = Mss * (a \div Mss) + (a % Mss) /\ a \div Mss \in Int /\ (a % Mss) \in 0..Mss - 1 BY <1>1
  <2> QED BY <2>1
<1>3. PICK r \in 0..Mss - 1 : r = (a % Mss) BY <1>2
<1>4. a = Mss * q + r BY <1>2, <1>3
<1>5. a < Mss => q = 0
  <2>1. q >= 1 => Mss * q >= Mss BY <1>1
  <2>2. q <= -1 => Mss * q <= -Mss BY <1>1
  <2> QED BY <1>1, <1>3, <1>4, <2>1, <2>2
<1>6. a >= Mss => q >= 1 /\ Mss * q >= Mss
  <2>1. q <= 0 => Mss * q <= 0 BY <1>1
  <2>2. q >= 1 => Mss * q >= Mss BY <1>1
  <2> QED BY <1>1, <1>3, <1>4, <2>1, <2>2
<1>7. a < 2 * Mss => q <= 1
  <2>1. q >= 2 => Mss * q >= 2 * Mss BY <1>1
  <2> QED BY <1>1, <1>3, <1>4, <2>1
<1> QED BY <1>1, <1>3, <1>4, <1>5, <1>6, <1>7

\* While the cork holds back a tail its deadline is at most a late poll behind,
\* and within a delay of the tail's first byte or, once it has moved under the
\* tail, within two and a late poll, and then the plaintext counted since is less
\* than the tail, so that it cannot move again before the tail leaves.
CorkInv ==
    /\ stage \in Stages /\ clock \in Nat
    /\ cork \in [enabled : BOOLEAN, corked : BOOLEAN, progress : 0..Mss - 1, deadline : Int,
                 carry : BOOLEAN]
    /\ wire \in [corked : BOOLEAN, tail : 0..Mss - 1, since : Int]
    /\ stage \in Stages \ {"serve", "failed"} => ~wire.corked /\ wire.tail = 0
    /\ cork.corked => cork.enabled
    /\ cork.enabled => wire.corked = cork.corked
    /\ cork.enabled /\ ~cork.corked => wire.tail = 0
    /\ cork.corked => clock <= cork.deadline + Late /\ cork.deadline <= clock + Delay
    /\ cork.corked /\ wire.tail > 0 =>
          \/ cork.deadline <= wire.since + Delay
          \/ cork.progress < wire.tail /\ cork.deadline <= wire.since + 2 * Delay + Late

LEMMA CorkInit == LinkInit => CorkInv
BY LinkSetupAssumption DEF LinkInit, CorkInv, Stages, Uncorked, NoTime

\* before_write counts the batch; what the kernel holds back afterwards.
LEMMA ProgressForm ==
    ASSUME NEW p \in 0..Mss - 1, NEW n \in Nat, NEW d \in Int, NEW c,
           c \in [enabled : BOOLEAN, corked : BOOLEAN, progress : 0..Mss - 1, deadline : Int,
                  carry : BOOLEAN],
           c.progress = p, c.deadline = d, clock \in Nat
    PROVE  /\ Progress(c, n) \in [enabled : BOOLEAN, corked : BOOLEAN, progress : 0..Mss - 1,
                                  deadline : Int, carry : BOOLEAN]
           /\ Progress(c, n).enabled = c.enabled /\ Progress(c, n).corked = c.corked
           /\ Progress(c, n).progress = ((p + n) % Mss)
           /\ Progress(c, n).deadline = IF p + n >= Mss THEN clock + Delay ELSE d
<1>1. Mss \in Nat \ {0} /\ Delay \in Nat BY LinkSetupAssumption
<1>2. p + n \in Nat BY <1>1
<1>3. ((p + n) % Mss) \in 0..Mss - 1 BY <1>2, Modulo
<1>4. PICK r \in 0..Mss - 1 : r = ((p + n) % Mss) BY <1>3
<1>5. PICK e \in Int : e = IF p + n >= Mss THEN clock + Delay ELSE d BY <1>1
<1>6. Progress(c, n) = [[c EXCEPT !.progress = r] EXCEPT !.deadline = e]
  BY <1>4, <1>5 DEF Progress
<1> QED BY <1>1, <1>4, <1>5, <1>6

LEMMA OnWireForm ==
    ASSUME wire \in [corked : BOOLEAN, tail : 0..Mss - 1, since : Int], clock \in Nat,
           NEW n \in Nat, NEW t \in Nat, t = wire.tail + n + Overhead
    PROVE  /\ OnWire(TRUE, n) \in [corked : BOOLEAN, tail : 0..Mss - 1, since : Int]
           /\ OnWire(FALSE, n) \in [corked : BOOLEAN, tail : 0..Mss - 1, since : Int]
           /\ OnWire(TRUE, n).corked = TRUE /\ OnWire(TRUE, n).tail = (t % Mss)
           /\ (t % Mss) > 0 =>
                 IF wire.tail > 0 /\ t < Mss THEN OnWire(TRUE, n).since = wire.since
                 ELSE OnWire(TRUE, n).since = clock
<1>1. Mss \in Nat \ {0} /\ Overhead \in Nat BY LinkSetupAssumption
<1>2. /\ (t % Mss) \in 0..Mss - 1
      /\ t >= Mss => (t % Mss) <= t - Mss
  BY Modulo
<1>3. PICK r \in 0..Mss - 1 : r = (t % Mss) BY <1>2
<1>4. t >= Mss => r <= n + Overhead BY <1>1, <1>2, <1>3
<1>5. OnWire(TRUE, n) = [corked |-> TRUE, tail |-> r,
                         since |-> IF r = 0 THEN NoTime
                                   ELSE IF wire.tail = 0 \/ (t >= Mss /\ r <= n + Overhead) THEN clock
                                   ELSE wire.since]
  BY <1>3 DEF OnWire
<1>6. OnWire(FALSE, n) = [corked |-> FALSE, tail |-> 0, since |-> NoTime] BY DEF OnWire
<1>7. PICK s \in Int : s = IF r = 0 THEN NoTime
                          ELSE IF wire.tail = 0 \/ (t >= Mss /\ r <= n + Overhead) THEN clock
                          ELSE wire.since
  BY DEF NoTime
<1>8. OnWire(TRUE, n) = [corked |-> TRUE, tail |-> r, since |-> s] BY <1>5, <1>7
<1>9. r > 0 => s = IF wire.tail > 0 /\ t < Mss THEN wire.since ELSE clock
  BY <1>1, <1>4, <1>7
<1>10. NoTime \in Int /\ 0 \in 0..Mss - 1 BY <1>1 DEF NoTime
<1>11. [corked |-> FALSE, tail |-> 0, since |-> NoTime] \in [corked : BOOLEAN, tail : 0..Mss - 1, since : Int]
  BY <1>10
<1>12. OnWire(FALSE, n) \in [corked : BOOLEAN, tail : 0..Mss - 1, since : Int] BY <1>6, <1>11, Zenon
<1>13. PICK w : w = [corked |-> TRUE, tail |-> r, since |-> s] OBVIOUS
<1>14. w \in [corked : BOOLEAN, tail : 0..Mss - 1, since : Int] /\ w.corked = TRUE /\ w.tail = r /\ w.since = s
  BY <1>13
<1>15. OnWire(TRUE, n) = w BY <1>8, <1>13
<1>16. r > 0 => IF wire.tail > 0 /\ t < Mss THEN w.since = wire.since ELSE w.since = clock BY <1>9, <1>14
<1> QED BY <1>3, <1>12, <1>14, <1>15, <1>16

LEMMA CorkStep == CorkInv /\ [LinkNext]_linkVars => CorkInv'
<1> SUFFICES ASSUME CorkInv, [LinkNext]_linkVars PROVE CorkInv' OBVIOUS
<1>0. Mss \in Nat \ {0} /\ Delay \in Nat \ {0} /\ Late \in Nat /\ Overhead \in Nat
  BY LinkSetupAssumption
<1>1. ASSUME UNCHANGED corkVars, stage' \in Stages,
             \/ stage' = stage \/ stage' = "failed"
             \/ stage' # "serve" /\ stage \notin {"serve", "failed"}
      PROVE  CorkInv'
  BY <1>1 DEF CorkInv, corkVars
<1>2. ASSUME NEW ok, OpenSocket(ok) \/ SetMark(ok) \/ ConnectSocket(ok) \/ Handshake(ok) PROVE CorkInv'
  BY <1>2, <1>1 DEF OpenSocket, SetMark, ConnectSocket, Handshake, NextAddress, Go, Fail, Stages
<1>3. CASE NoAddressLeft \/ ProxyFails \/ Authenticated \/ SkipBrutal
  BY <1>3, <1>1 DEF NoAddressLeft, ProxyFails, Authenticated, SkipBrutal, Go, Fail, Stages
<1>4. ASSUME NEW method, Greeting(method) PROVE CorkInv' BY <1>4, <1>1 DEF Greeting, Go, Stages
<1>5. ASSUME NEW atyp, NEW len, ConnectReply(atyp, len) PROVE CorkInv'
  BY <1>5, <1>1 DEF ConnectReply, Go, Stages
<1>6. ASSUME NEW ok, GetCongestion(ok) PROVE CorkInv' BY <1>6, <1>1 DEF GetCongestion, Go, Stages
<1>7. ASSUME NEW outcome, SetCongestion(outcome) \/ ReadBack(outcome) PROVE CorkInv'
  BY <1>7, <1>1 DEF SetCongestion, ReadBack, Go, Stages
<1>8. ASSUME NEW outcome, NEW ok, GetVersion(outcome, ok) \/ SetParams(outcome, ok) PROVE CorkInv'
  BY <1>8, <1>1 DEF GetVersion, SetParams, Restore, Go, Stages
<1>9. ASSUME NEW slow \in BOOLEAN, NewCork(slow) PROVE CorkInv'
  <2>1. cork' = [enabled |-> slow, corked |-> FALSE, progress |-> 0, deadline |-> NoTime, carry |-> FALSE]
    BY <1>9 DEF NewCork, Uncorked
  <2>2. stage = "cork" /\ stage' = "serve" /\ UNCHANGED <<wire, clock>> BY <1>9 DEF NewCork
  <2>3. NoTime \in Int /\ 0 \in 0..Mss - 1 BY <1>0 DEF NoTime
  <2>4. cork' \in [enabled : BOOLEAN, corked : BOOLEAN, progress : 0..Mss - 1, deadline : Int,
                   carry : BOOLEAN] /\ ~cork'.corked
    BY <2>1, <2>3
  <2> QED BY <2>2, <2>4 DEF CorkInv, Stages
<1>10. ASSUME NEW n \in Sizes, NEW ok \in BOOLEAN, Write(n, ok) PROVE CorkInv'
  <2>0. n \in Nat /\ stage = "serve" /\ UNCHANGED <<stage, clock>>
    BY <1>10, LinkSetupAssumption DEF Write
  <2>1. PICK t \in Nat : t = wire.tail + n + Overhead BY <1>0, <2>0 DEF CorkInv
  <2>2. /\ OnWire(TRUE, n) \in [corked : BOOLEAN, tail : 0..Mss - 1, since : Int]
        /\ OnWire(FALSE, n) \in [corked : BOOLEAN, tail : 0..Mss - 1, since : Int]
        /\ OnWire(TRUE, n).corked = TRUE /\ OnWire(TRUE, n).tail = (t % Mss)
        /\ (t % Mss) > 0 => IF wire.tail > 0 /\ t < Mss THEN OnWire(TRUE, n).since = wire.since
                            ELSE OnWire(TRUE, n).since = clock
    BY <2>0, <2>1, OnWireForm DEF CorkInv
  <2>3. wire' \in [corked : BOOLEAN, tail : 0..Mss - 1, since : Int]
    <3>1. wire' = OnWire(wire.corked \/ cork'.corked, n) BY <1>10 DEF Write
    <3>2. CASE wire.corked \/ cork'.corked BY <3>1, <3>2, <2>2
    <3>3. CASE ~(wire.corked \/ cork'.corked) BY <3>1, <3>3, <2>2
    <3> QED BY <3>2, <3>3
  <2>4. CASE ~cork.enabled /\ UNCHANGED cork BY <2>0, <2>3, <2>4 DEF CorkInv
  <2>5. CASE cork' = [cork EXCEPT !.enabled = FALSE, !.carry = FALSE] /\ ~cork.corked
    BY <2>0, <2>3, <2>5 DEF CorkInv
  <2>6. ASSUME NEW c, cork' = Progress(c, n), cork.enabled, c.enabled = TRUE, c.corked = TRUE,
               c \in [enabled : BOOLEAN, corked : BOOLEAN, progress : 0..Mss - 1, deadline : Int,
                      carry : BOOLEAN],
               clock <= c.deadline + Late, c.deadline <= clock + Delay,
               wire.tail > 0 => \/ c.deadline <= wire.since + Delay
                                \/ c.progress < wire.tail /\ c.deadline <= wire.since + 2 * Delay + Late
        PROVE  CorkInv'
    <3>1. PICK p \in 0..Mss - 1, d \in Int : p = c.progress /\ d = c.deadline BY <2>6
    <3>2. /\ cork' \in [enabled : BOOLEAN, corked : BOOLEAN, progress : 0..Mss - 1, deadline : Int,
                        carry : BOOLEAN]
          /\ cork'.enabled = TRUE /\ cork'.corked = TRUE
          /\ cork'.progress = ((p + n) % Mss)
          /\ cork'.deadline = IF p + n >= Mss THEN clock + Delay ELSE d
      BY <2>0, <2>6, <3>1, ProgressForm DEF CorkInv
    <3>3. wire' = OnWire(TRUE, n)
      <4>1. wire' = OnWire(wire.corked \/ cork'.corked, n) BY <1>10 DEF Write
      <4>2. (wire.corked \/ cork'.corked) = TRUE BY <3>2
      <4> QED BY <4>1, <4>2
    <3>4. /\ p + n \in Nat /\ (t < Mss => (t % Mss) = t)
          /\ p + n < Mss => ((p + n) % Mss) = p + n
          /\ p + n >= Mss /\ p + n < 2 * Mss => ((p + n) % Mss) = p + n - Mss
      <4>1. PICK m \in Nat : m = p + n BY <1>0, <2>0
      <4>2. /\ m < Mss => (m % Mss) = m
            /\ m >= Mss /\ m < 2 * Mss => (m % Mss) = m - Mss
        BY Modulo
      <4>3. t < Mss => (t % Mss) = t BY Modulo
      <4>4. p + n \in Nat BY <4>1
      <4>5. p + n < Mss => ((p + n) % Mss) = p + n BY <4>1, <4>2
      <4>6. p + n >= Mss /\ p + n < 2 * Mss => ((p + n) % Mss) = p + n - Mss
        <5>1. PICK k \in Int : k = (m % Mss) /\ k = ((p + n) % Mss) BY <1>0, <4>1
        <5>2. m >= Mss /\ m < 2 * Mss => k = m - Mss BY <4>2, <5>1
        <5> QED BY <1>0, <2>0, <4>1, <5>1, <5>2
      <4> QED BY <4>3, <4>4, <4>5, <4>6
    <3>5. PICK x \in Int, y \in Int, e \in Int, s \in Int :
            x = cork'.progress /\ y = wire'.tail /\ e = cork'.deadline /\ s = wire'.since
      BY <2>3, <3>2
    <3>6. PICK w \in 0..Mss - 1, v \in Int : w = wire.tail /\ v = wire.since BY DEF CorkInv
    <3>7. clock \in Nat /\ clock <= e + Late /\ e <= clock + Delay BY <1>0, <2>6, <3>1, <3>2, <3>5 DEF CorkInv
    <3>8. ASSUME y > 0 PROVE e <= s + Delay \/ (x < y /\ e <= s + 2 * Delay + Late)
      <4>1. CASE w > 0 /\ t < Mss
        <5>1. s = v /\ y = t /\ t = w + n + Overhead
          BY <4>1, <2>1, <2>2, <3>3, <3>4, <3>5, <3>6, <3>8
        <5>2. CASE p + n < Mss
          <6>1. x = p + n /\ e = d BY <5>2, <1>0, <2>0, <3>2, <3>4, <3>5
          <6> QED BY <1>0, <2>0, <2>6, <3>1, <3>6, <4>1, <5>1, <6>1
        <5>3. CASE p + n >= Mss
          <6>1. ~(p < w) BY <1>0, <2>0, <4>1, <5>1, <5>3
          <6>2. d <= v + Delay BY <2>6, <3>1, <3>6, <4>1, <6>1
          <6>3. n < Mss /\ p + n < 2 * Mss BY <1>0, <2>0, <4>1, <5>1
          <6>4. x = p + n - Mss /\ e = clock + Delay BY <5>3, <6>3, <1>0, <2>0, <3>2, <3>4, <3>5
          <6> QED BY <1>0, <2>0, <2>6, <3>1, <3>7, <5>1, <6>2, <6>4
        <5> QED BY <1>0, <2>0, <5>2, <5>3
      <4>2. CASE ~(w > 0 /\ t < Mss)
        <5>1. s = clock BY <4>2, <2>2, <3>3, <3>5, <3>6, <3>8
        <5> QED BY <5>1, <3>7, <1>0
      <4> QED BY <4>1, <4>2
    <3>9. wire'.corked = TRUE BY <2>2, <3>3
    <3> QED BY <2>0, <2>3, <3>2, <3>5, <3>7, <3>8, <3>9 DEF CorkInv
  <2>7. CASE cork.corked /\ cork' = Progress(cork, n) BY <2>6, <2>7 DEF CorkInv
  <2>8. CASE /\ cork.enabled /\ ~cork.corked
             /\ cork' = Progress([cork EXCEPT !.corked = TRUE, !.carry = TRUE, !.progress = 0,
                                              !.deadline = clock + Delay], n)
    <3>1. PICK c : c = [cork EXCEPT !.corked = TRUE, !.carry = TRUE, !.progress = 0,
                                    !.deadline = clock + Delay] OBVIOUS
    <3>2. /\ c \in [enabled : BOOLEAN, corked : BOOLEAN, progress : 0..Mss - 1, deadline : Int,
                    carry : BOOLEAN]
          /\ c.enabled = TRUE /\ c.corked = TRUE /\ c.deadline = clock + Delay
      <4>1. clock + Delay \in Int /\ 0 \in 0..Mss - 1 BY <1>0 DEF CorkInv
      <4>2. c = [enabled |-> TRUE, corked |-> TRUE, progress |-> 0, deadline |-> clock + Delay,
                 carry |-> TRUE]
        BY <2>8, <3>1 DEF CorkInv
      <4> QED BY <4>1, <4>2
    <3>3. wire.tail = 0 BY <2>8 DEF CorkInv
    <3>4. clock <= c.deadline + Late /\ c.deadline <= clock + Delay BY <1>0, <3>2 DEF CorkInv
    <3>5. cork' = Progress(c, n) /\ cork.enabled BY <2>8, <3>1
    <3>6. ~(wire.tail > 0) BY <3>3
    <3> QED BY <2>6, <3>2, <3>4, <3>5, <3>6
  <2> QED BY <1>10, <2>4, <2>5, <2>7, <2>8 DEF Write
<1>16. ASSUME NEW n \in Sizes, WriteKeepalive(n) PROVE CorkInv'
  <2>0. n \in Nat /\ stage = "serve" /\ UNCHANGED <<stage, clock, cork>>
    BY <1>16, LinkSetupAssumption DEF WriteKeepalive
  <2>1. PICK t \in Nat : t = wire.tail + n + Overhead BY <1>0, <2>0 DEF CorkInv
  <2>2. /\ OnWire(TRUE, n) \in [corked : BOOLEAN, tail : 0..Mss - 1, since : Int]
        /\ OnWire(FALSE, n) \in [corked : BOOLEAN, tail : 0..Mss - 1, since : Int]
        /\ OnWire(TRUE, n).corked = TRUE /\ OnWire(TRUE, n).tail = (t % Mss)
        /\ (t % Mss) > 0 => IF wire.tail > 0 /\ t < Mss THEN OnWire(TRUE, n).since = wire.since
                            ELSE OnWire(TRUE, n).since = clock
    BY <2>0, <2>1, OnWireForm DEF CorkInv
  <2>3. CASE wire.corked
    <3>1. wire.corked = TRUE BY <2>3 DEF CorkInv
    <3>2. wire' = OnWire(TRUE, n) BY <1>16, <3>1 DEF WriteKeepalive
    <3>3. t < Mss => (t % Mss) = t BY Modulo
    <3>4. PICK x \in 0..Mss - 1, y \in 0..Mss - 1, d \in Int, v \in Int, s \in Int :
            x = wire.tail /\ y = wire'.tail /\ d = cork.deadline /\ v = wire.since /\ s = wire'.since
      BY <2>2, <3>2 DEF CorkInv
    <3>5. ASSUME cork.corked, y > 0
          PROVE  d <= s + Delay \/ (cork.progress < y /\ d <= s + 2 * Delay + Late)
      <4>1. CASE x > 0 /\ t < Mss
        <5>0. y = (t % Mss) /\ y = t BY <2>2, <3>2, <3>3, <3>4, <4>1
        <5>1. s = v /\ y = t /\ x <= y
          <6>1. (t % Mss) > 0 BY <3>5, <5>0
          <6>2. s = v BY <2>2, <3>2, <3>4, <4>1, <6>1
          <6>3. t = x + n + Overhead BY <2>1, <3>4
          <6> QED BY <1>0, <2>0, <3>4, <5>0, <6>2, <6>3
        <5>2. cork.progress \in Int BY DEF CorkInv
        <5> QED BY <3>4, <3>5, <4>1, <5>1, <5>2 DEF CorkInv
      <4>2. CASE ~(x > 0 /\ t < Mss)
        <5>1. s = clock BY <2>2, <3>2, <3>4, <3>5, <4>2
        <5> QED BY <1>0, <3>4, <3>5, <5>1 DEF CorkInv
      <4> QED BY <4>1, <4>2
    <3>6. wire' \in [corked : BOOLEAN, tail : 0..Mss - 1, since : Int] /\ wire'.corked = TRUE
      BY <2>2, <3>2
    <3>7. cork.corked /\ wire'.tail > 0 =>
             \/ cork.deadline <= wire'.since + Delay
             \/ cork.progress < wire'.tail /\ cork.deadline <= wire'.since + 2 * Delay + Late
      BY <3>4, <3>5
    <3>8. cork.enabled => cork.corked = TRUE BY <3>1 DEF CorkInv
    <3> QED BY <2>0, <3>6, <3>7, <3>8 DEF CorkInv
  <2>4. CASE ~wire.corked
    <3>1. wire.corked = FALSE BY <2>4 DEF CorkInv
    <3>2. wire' = OnWire(FALSE, n) BY <1>16, <3>1 DEF WriteKeepalive
    <3>3. wire'.corked = FALSE /\ wire'.tail = 0 BY <3>2 DEF OnWire
    <3>4. wire' \in [corked : BOOLEAN, tail : 0..Mss - 1, since : Int] BY <2>2, <3>2
    <3>5. ~cork.corked BY <3>1 DEF CorkInv
    <3> QED BY <2>0, <3>1, <3>3, <3>4, <3>5 DEF CorkInv
  <2> QED BY <2>3, <2>4
<1>11. ASSUME NEW ok \in BOOLEAN, Flush(ok), cork.corked, clock' = clock,
              stage = "serve", stage' \in {"serve", "failed"}
       PROVE  CorkInv'
  <2>1. cork' = [enabled |-> cork.enabled /\ ok, corked |-> FALSE, progress |-> 0,
                 deadline |-> NoTime, carry |-> FALSE]
    BY <1>11 DEF Flush, Uncorked
  <2>2. CASE ok
    <3>1. wire' = [corked |-> FALSE, tail |-> 0, since |-> NoTime] BY <1>11, <2>2 DEF Flush
    <3>2. cork' = [enabled |-> TRUE, corked |-> FALSE, progress |-> 0, deadline |-> NoTime,
                   carry |-> FALSE]
      BY <1>11, <2>1, <2>2 DEF CorkInv
    <3> QED BY <1>0, <1>11, <3>1, <3>2 DEF CorkInv, Stages, NoTime
  <2>3. CASE ~ok
    <3>1. cork' = [enabled |-> FALSE, corked |-> FALSE, progress |-> 0, deadline |-> NoTime,
                   carry |-> FALSE]
      BY <2>1, <2>3
    <3>2. wire' = wire BY <1>11, <2>3 DEF Flush
    <3> QED BY <1>0, <1>11, <3>1, <3>2 DEF CorkInv, Stages, NoTime
  <2> QED BY <2>2, <2>3
<1>12. ASSUME NEW ok \in BOOLEAN, MaybeFlush(ok) PROVE CorkInv' BY <1>12, <1>11 DEF MaybeFlush
<1>13. CASE Tick
  <2>1. stage' = stage /\ clock' = clock + 1 /\ UNCHANGED <<cork, wire>> /\ ~(cork.corked /\ clock >= cork.deadline + Late)
    BY <1>13 DEF Tick
  <2>2. cork.corked => clock + 1 <= cork.deadline + Late /\ cork.deadline <= clock + 1 + Delay
    BY <1>0, <2>1 DEF CorkInv
  <2> QED BY <2>1, <2>2 DEF CorkInv
<1>14. ASSUME NEW ok \in BOOLEAN, Close(ok) PROVE CorkInv'
  <2>1. CASE cork.corked BY <1>14, <2>1, <1>11 DEF Close, Fail
  <2>2. CASE ~cork.corked
    <3>1. UNCHANGED corkVars /\ stage' = "failed" BY <1>14, <2>2 DEF Close, Fail, corkVars
    <3>2. stage' \in Stages BY <3>1 DEF Stages
    <3> QED BY <3>1, <3>2, <1>1 DEF corkVars
  <2> QED BY <2>1, <2>2
<1>15. CASE Done \/ UNCHANGED linkVars
  <2>1. UNCHANGED stage /\ UNCHANGED corkVars BY <1>15 DEF Done, linkVars, corkVars
  <2>2. stage' \in Stages BY <2>1 DEF CorkInv
  <2> QED BY <2>1, <2>2, <1>1 DEF corkVars
<1> QED
  BY <1>2, <1>3, <1>4, <1>5, <1>6, <1>7, <1>8, <1>9, <1>10, <1>12, <1>13, <1>14, <1>15, <1>16 DEF LinkNext

\* TlsBatchCork holds a tail back for two delays and two late polls at most, for every segment and
\* batch size.
THEOREM TailsLeave == LinkSpec => []TailReleased
<1>1. CorkInv => TailReleased
  <2> SUFFICES ASSUME CorkInv, cork.enabled, wire.tail > 0 PROVE clock - wire.since <= 2 * (Delay + Late)
    BY DEF TailReleased
  <2>1. Mss \in Nat \ {0} /\ Delay \in Nat \ {0} /\ Late \in Nat BY LinkSetupAssumption
  <2>2. cork.corked BY <2>1 DEF CorkInv
  <2> QED BY <2>1, <2>2 DEF CorkInv
<1> QED BY <1>1, CorkInit, CorkStep, PTL DEF LinkSpec

-----------------------------------------------------------------------------

(***************************************************************************)
(* The host.                                                               *)
(***************************************************************************)

(* The commands *)

\* Every rule and route a configuration asks for, whatever the gateways are.
HostObjs ==
    {Rule(f, "mark") : f \in Marked} \cup {Route(f, "mark", "default") : f \in Marked}
    \cup {Route(f, "mark", "extra") : f \in Marked \cap Extra}
    \cup {Rule(f, SourceTable(f)) : f \in Source}
    \cup {Route(f, SourceTable(f), "default") : f \in Source}
    \cup {Route(f, SourceTable(f), "extra") : f \in Source}

Dels == [op : {"del"}, obj : HostObjs]
Adds == [op : {"add", "replace"}, obj : HostObjs]
Cmds == [op : {"add", "del", "replace"}, obj : HostObjs]

\* The objects of the commands of a sequence.
ObjsOf(s) == {s[i].obj : i \in DOMAIN s}

\* No route goes before a rule of its table.
RulesFirst(s) ==
    \A i, j \in DOMAIN s :
        i < j /\ ~IsRule(s[i].obj) /\ IsRule(s[j].obj) => TableOf(s[i].obj) # TableOf(s[j].obj)

\* What a cleanup with the gateways gw cannot know of.
Left(gw) == {Route(f, t, "default") : f \in Families \ gw, t \in {"mark", "s4", "s6"}}

\* A sequence over S whose commands are about the objects O.
Built(s, S, O) == s \in Seq(S) /\ ObjsOf(s) = O

LEMMA Joined ==
    ASSUME NEW S, NEW a, NEW b, NEW A, NEW B, Built(a, S, A), Built(b, S, B)
    PROVE  Built(a \o b, S, A \cup B)
<1> USE DEF Built
<1>1. a \o b \in Seq(S) /\ Len(a \o b) = Len(a) + Len(b) OBVIOUS
<1>2. ObjsOf(a \o b) \subseteq ObjsOf(a) \cup ObjsOf(b)
  <2> SUFFICES ASSUME NEW i \in DOMAIN (a \o b) PROVE (a \o b)[i].obj \in ObjsOf(a) \cup ObjsOf(b)
    BY DEF ObjsOf
  <2>1. CASE i <= Len(a) BY <2>1, <1>1 DEF ObjsOf
  <2>2. CASE i > Len(a)
    <3>1. i - Len(a) \in DOMAIN b /\ (a \o b)[i] = b[i - Len(a)] BY <2>2, <1>1
    <3> QED BY <3>1 DEF ObjsOf
  <2> QED BY <1>1, <2>1, <2>2
<1>3. ASSUME NEW i \in DOMAIN a PROVE a[i].obj \in ObjsOf(a \o b)
  <2>1. i \in DOMAIN (a \o b) /\ (a \o b)[i] = a[i] BY <1>1, <1>3
  <2> QED BY <2>1 DEF ObjsOf
<1>4. ASSUME NEW i \in DOMAIN b PROVE b[i].obj \in ObjsOf(a \o b)
  <2>1. i + Len(a) \in DOMAIN (a \o b) /\ (a \o b)[i + Len(a)] = b[i] BY <1>1, <1>4
  <2> QED BY <2>1 DEF ObjsOf
<1> QED BY <1>1, <1>2, <1>3, <1>4 DEF ObjsOf

LEMMA JoinedRulesFirst ==
    ASSUME NEW S, NEW a \in Seq(S), NEW b \in Seq(S), RulesFirst(a), RulesFirst(b),
           \A o \in ObjsOf(a), r \in ObjsOf(b) :
               ~IsRule(o) /\ IsRule(r) => TableOf(o) # TableOf(r)
    PROVE  RulesFirst(a \o b)
<1> SUFFICES ASSUME NEW i \in DOMAIN (a \o b), NEW j \in DOMAIN (a \o b), i < j,
                    ~IsRule((a \o b)[i].obj), IsRule((a \o b)[j].obj)
             PROVE  TableOf((a \o b)[i].obj) # TableOf((a \o b)[j].obj)
  BY DEF RulesFirst
<1>1. i \in Nat /\ j \in Nat /\ i >= 1 /\ j <= Len(a) + Len(b) OBVIOUS
<1>2. CASE j <= Len(a)
  <2>1. i \in DOMAIN a /\ j \in DOMAIN a /\ (a \o b)[i] = a[i] /\ (a \o b)[j] = a[j] BY <1>1, <1>2
  <2> QED BY <2>1 DEF RulesFirst
<1>3. CASE i > Len(a)
  <2>1. PICK k \in DOMAIN b, m \in DOMAIN b : k = i - Len(a) /\ m = j - Len(a) /\ k < m BY <1>1, <1>3
  <2>2. (a \o b)[i] = b[k] /\ (a \o b)[j] = b[m] BY <1>1, <1>3, <2>1
  <2> QED BY <2>1, <2>2 DEF RulesFirst
<1>4. CASE i <= Len(a) /\ j > Len(a)
  <2>1. (a \o b)[i] = a[i] /\ i \in DOMAIN a BY <1>1, <1>4
  <2>2. (a \o b)[j] = b[j - Len(a)] /\ j - Len(a) \in DOMAIN b BY <1>1, <1>4
  <2>3. a[i].obj \in ObjsOf(a) /\ b[j - Len(a)].obj \in ObjsOf(b) BY <2>1, <2>2 DEF ObjsOf
  <2> QED BY <2>1, <2>2, <2>3
<1> QED BY <1>1, <1>2, <1>3, <1>4

\* One command, or none.
LEMMA Short ==
    ASSUME NEW S, NEW c \in S
    PROVE  Built(<<c>>, S, {c.obj}) /\ RulesFirst(<<c>>)
BY DEF ObjsOf, RulesFirst, Built

LEMMA Empty ==
    ASSUME NEW S
    PROVE  Built(<<>>, S, {}) /\ RulesFirst(<<>>)
BY DEF ObjsOf, RulesFirst, Built

\* A sequence for each family of a set, those of 4 first.
LEMMA TwoFamilies ==
    ASSUME NEW S, NEW F, NEW a, NEW b, NEW A, NEW B,
           4 \in F => Built(a, S, A), 6 \in F => Built(b, S, B)
    PROVE  Built((IF 4 \in F THEN a ELSE <<>>) \o (IF 6 \in F THEN b ELSE <<>>), S,
                 (IF 4 \in F THEN A ELSE {}) \cup (IF 6 \in F THEN B ELSE {}))
<1>1. Built(IF 4 \in F THEN a ELSE <<>>, S, IF 4 \in F THEN A ELSE {})
  <2>1. CASE 4 \in F BY <2>1
  <2>2. CASE 4 \notin F BY Empty, <2>2
  <2> QED BY <2>1, <2>2
<1>2. Built(IF 6 \in F THEN b ELSE <<>>, S, IF 6 \in F THEN B ELSE {})
  <2>1. CASE 6 \in F BY <2>1
  <2>2. CASE 6 \notin F BY Empty, <2>2
  <2> QED BY <2>1, <2>2
<1> QED BY <1>1, <1>2, Joined, Zenon

\* A single command for each family.
LEMMA OneEach ==
    ASSUME NEW S, NEW F, NEW c4, NEW c6, 4 \in F => c4 \in S, 6 \in F => c6 \in S
    PROVE  Built((IF 4 \in F THEN <<c4>> ELSE <<>>) \o (IF 6 \in F THEN <<c6>> ELSE <<>>), S,
                 (IF 4 \in F THEN {c4.obj} ELSE {}) \cup (IF 6 \in F THEN {c6.obj} ELSE {}))
<1>1. 4 \in F => Built(<<c4>>, S, {c4.obj}) BY Short
<1>2. 6 \in F => Built(<<c6>>, S, {c6.obj}) BY Short
<1> QED BY <1>1, <1>2, TwoFamilies, Zenon

LEMMA FamiliesOf ==
    /\ Marked \in SUBSET Families /\ Source \in SUBSET Families /\ Extra \in SUBSET Families
    /\ \A gw : Marked \cap gw \in SUBSET Families
BY ClientHostAssumption DEF Marked, Families

LEMMA PreForm ==
    ASSUME NEW gw
    PROVE  Pre(gw) \in Seq(Dels)
<1>1. PICK a : a = Each(Marked, LAMBDA f : <<Cmd("del", Rule(f, "mark"))>>) OBVIOUS
<1>2. PICK b : b = Each(Source, LAMBDA f : <<Cmd("del", Rule(f, SourceTable(f)))>>) OBVIOUS
<1>3. a \in Seq(Dels)
  <2>1. \A f \in Marked : Cmd("del", Rule(f, "mark")) \in Dels BY DEF Cmd, Dels, HostObjs
  <2> QED BY <1>1, <2>1, OneEach DEF Each, Built
<1>4. b \in Seq(Dels)
  <2>1. \A f \in Source : Cmd("del", Rule(f, SourceTable(f))) \in Dels BY DEF Cmd, Dels, HostObjs
  <2> QED BY <1>2, <2>1, OneEach DEF Each, Built
<1>5. Pre(gw) = a \o b BY <1>1, <1>2 DEF Pre
<1> QED BY <1>3, <1>4, <1>5

LEMMA InstallForm ==
    ASSUME NEW gw
    PROVE  Install(gw) \in Seq(Adds)
<1>1. PICK a : a = Each(Marked, LAMBDA f : <<Cmd("add", Rule(f, "mark"))>>) OBVIOUS
<1>2. PICK b : b = Each(Marked \cap gw, LAMBDA f : <<Cmd("replace", Route(f, "mark", "default"))>>) OBVIOUS
<1>3. PICK c : c = Each(Marked \cap Extra, LAMBDA f : <<Cmd("replace", Route(f, "mark", "extra"))>>) OBVIOUS
<1>4. PICK d : d = Each(Source, LAMBDA f : <<Cmd("add", Rule(f, SourceTable(f))),
                                            Cmd("replace", Route(f, SourceTable(f), "default")),
                                            Cmd("replace", Route(f, SourceTable(f), "extra"))>>)
  OBVIOUS
<1>5. a \in Seq(Adds)
  <2>1. \A f \in Marked : Cmd("add", Rule(f, "mark")) \in Adds BY DEF Cmd, Adds, HostObjs
  <2> QED BY <1>1, <2>1, OneEach DEF Each, Built
<1>6. b \in Seq(Adds)
  <2>1. \A f \in Marked \cap gw : Cmd("replace", Route(f, "mark", "default")) \in Adds
    BY DEF Cmd, Adds, HostObjs
  <2> QED BY <1>2, <2>1, OneEach DEF Each, Built
<1>7. c \in Seq(Adds)
  <2>1. \A f \in Marked \cap Extra : Cmd("replace", Route(f, "mark", "extra")) \in Adds
    BY DEF Cmd, Adds, HostObjs
  <2> QED BY <1>3, <2>1, OneEach DEF Each, Built
<1>8. d \in Seq(Adds)
  <2>1. \A f \in Source : /\ Cmd("add", Rule(f, SourceTable(f))) \in Adds
                          /\ Cmd("replace", Route(f, SourceTable(f), "default")) \in Adds
                          /\ Cmd("replace", Route(f, SourceTable(f), "extra")) \in Adds
    BY DEF Cmd, Adds, HostObjs
  <2>2. \A f \in Source : <<Cmd("add", Rule(f, SourceTable(f))),
                            Cmd("replace", Route(f, SourceTable(f), "default")),
                            Cmd("replace", Route(f, SourceTable(f), "extra"))>> \in Seq(Adds)
    BY <2>1
  <2>3. \A f \in Source : \E O : Built(<<Cmd("add", Rule(f, SourceTable(f))),
                            Cmd("replace", Route(f, SourceTable(f), "default")),
                            Cmd("replace", Route(f, SourceTable(f), "extra"))>>, Adds, O)
    BY <2>2 DEF Built
  <2> QED BY <1>4, <2>3, TwoFamilies DEF Each, Built
<1>9. Install(gw) = ((a \o b) \o c) \o d BY <1>1, <1>2, <1>3, <1>4 DEF Install
<1> QED BY <1>5, <1>6, <1>7, <1>8, <1>9

\* The cleanup deletes what its gateways tell of, each rule before its routes.
LEMMA CleanForm ==
    ASSUME NEW gw \in SUBSET Families
    PROVE  /\ Clean(gw) \in Seq(Dels)
           /\ RulesFirst(Clean(gw))
           /\ HostObjs \subseteq ObjsOf(Clean(gw)) \cup Left(gw)
<1>1. PICK a : a = Each(Marked, LAMBDA f : <<Cmd("del", Rule(f, "mark"))>>) OBVIOUS
<1>2. PICK b : b = Each(Marked \cap Extra, LAMBDA f : <<Cmd("del", Route(f, "mark", "extra"))>>) OBVIOUS
<1>3. PICK c : c = Each(Marked \cap gw, LAMBDA f : <<Cmd("del", Route(f, "mark", "default"))>>) OBVIOUS
<1> DEFINE Two(f) == <<Cmd("del", Rule(f, SourceTable(f))), Cmd("del", Route(f, SourceTable(f), "extra"))>>
           Last1(f) == IF f \in gw THEN <<Cmd("del", Route(f, SourceTable(f), "default"))>> ELSE <<>>
<1>4. PICK d : d = Each(Source, LAMBDA f : Two(f) \o Last1(f)) OBVIOUS
<1>5. Clean(gw) = ((a \o b) \o c) \o d BY <1>1, <1>2, <1>3, <1>4 DEF Clean
<1>6. Built(a, Dels, {Rule(f, "mark") : f \in Marked})
  <2>1. \A f \in Marked : Cmd("del", Rule(f, "mark")) \in Dels BY DEF Cmd, Dels, HostObjs
  <2>2. PICK O : O = (IF 4 \in Marked THEN {Cmd("del", Rule(4, "mark")).obj} ELSE {})
                     \cup (IF 6 \in Marked THEN {Cmd("del", Rule(6, "mark")).obj} ELSE {}) OBVIOUS
  <2>3. Built(a, Dels, O) BY <1>1, <2>1, <2>2, OneEach DEF Each
  <2>4. O = {Rule(f, "mark") : f \in Marked} BY <2>2, FamiliesOf DEF Cmd, Families
  <2> QED BY <2>3, <2>4
<1>7. Built(b, Dels, {Route(f, "mark", "extra") : f \in Marked \cap Extra})
  <2>0. PICK F : F = Marked \cap Extra OBVIOUS
  <2>1. \A f \in F : Cmd("del", Route(f, "mark", "extra")) \in Dels BY <2>0 DEF Cmd, Dels, HostObjs
  <2>2. PICK O : O = (IF 4 \in F THEN {Cmd("del", Route(4, "mark", "extra")).obj} ELSE {})
                     \cup (IF 6 \in F THEN {Cmd("del", Route(6, "mark", "extra")).obj} ELSE {}) OBVIOUS
  <2>3. b = (IF 4 \in F THEN <<Cmd("del", Route(4, "mark", "extra"))>> ELSE <<>>)
            \o (IF 6 \in F THEN <<Cmd("del", Route(6, "mark", "extra"))>> ELSE <<>>)
    BY <1>2, <2>0 DEF Each
  <2>4. Built(b, Dels, O) BY <2>1, <2>2, <2>3, OneEach
  <2>5. O = {Route(f, "mark", "extra") : f \in F} BY <2>0, <2>2, FamiliesOf DEF Cmd, Families
  <2> QED BY <2>0, <2>4, <2>5
<1>8. Built(c, Dels, {Route(f, "mark", "default") : f \in Marked \cap gw})
  <2>0. PICK F : F = Marked \cap gw OBVIOUS
  <2>1. \A f \in F : Cmd("del", Route(f, "mark", "default")) \in Dels BY <2>0 DEF Cmd, Dels, HostObjs
  <2>2. PICK O : O = (IF 4 \in F THEN {Cmd("del", Route(4, "mark", "default")).obj} ELSE {})
                     \cup (IF 6 \in F THEN {Cmd("del", Route(6, "mark", "default")).obj} ELSE {}) OBVIOUS
  <2>3. c = (IF 4 \in F THEN <<Cmd("del", Route(4, "mark", "default"))>> ELSE <<>>)
            \o (IF 6 \in F THEN <<Cmd("del", Route(6, "mark", "default"))>> ELSE <<>>)
    BY <1>3, <2>0 DEF Each
  <2>4. Built(c, Dels, O) BY <2>1, <2>2, <2>3, OneEach
  <2>5. O = {Route(f, "mark", "default") : f \in F} BY <2>0, <2>2, FamiliesOf DEF Cmd, Families
  <2> QED BY <2>0, <2>4, <2>5
<1> DEFINE Obj3(f) == {Rule(f, SourceTable(f)), Route(f, SourceTable(f), "extra")}
                      \cup (IF f \in gw THEN {Route(f, SourceTable(f), "default")} ELSE {})
<1>9. ASSUME NEW f \in Source
      PROVE  Built(Two(f) \o Last1(f), Dels, Obj3(f)) /\ RulesFirst(Two(f) \o Last1(f))
  <2>1. PICK x, y, z : /\ x = Cmd("del", Rule(f, SourceTable(f)))
                       /\ y = Cmd("del", Route(f, SourceTable(f), "extra"))
                       /\ z = Cmd("del", Route(f, SourceTable(f), "default"))
    OBVIOUS
  <2>2. x \in Dels /\ y \in Dels /\ z \in Dels BY <1>9, <2>1 DEF Cmd, Dels, HostObjs
  <2>3. /\ x.obj = Rule(f, SourceTable(f)) /\ y.obj = Route(f, SourceTable(f), "extra")
        /\ z.obj = Route(f, SourceTable(f), "default")
    BY <2>1 DEF Cmd
  <2>4. IsRule(x.obj) /\ ~IsRule(y.obj) /\ ~IsRule(z.obj) BY <2>3 DEF IsRule, Rule, Route
  <2>5. Built(<<x, y>>, Dels, {x.obj, y.obj}) /\ RulesFirst(<<x, y>>)
    BY <2>2, <2>4 DEF ObjsOf, RulesFirst, Built
  <2>6. PICK l, O : /\ l = IF f \in gw THEN <<z>> ELSE <<>>
                    /\ O = IF f \in gw THEN {z.obj} ELSE {} OBVIOUS
  <2>7. Built(l, Dels, O) /\ RulesFirst(l)
    <3>1. Built(<<z>>, Dels, {z.obj}) /\ RulesFirst(<<z>>) BY <2>2, Short
    <3>2. Built(<<>>, Dels, {}) /\ RulesFirst(<<>>) BY Empty
    <3> QED BY <2>6, <3>1, <3>2
  <2>8. RulesFirst(<<x, y>> \o l)
    <3>1. \A o \in O : ~IsRule(o) BY <2>4, <2>6
    <3> QED BY <2>5, <2>7, <3>1, JoinedRulesFirst DEF Built
  <2>9. Built(<<x, y>> \o l, Dels, {x.obj, y.obj} \cup O) BY <2>5, <2>7, Joined, Zenon
  <2>10. Two(f) \o Last1(f) = <<x, y>> \o l BY <2>1, <2>6
  <2>11. Obj3(f) = {x.obj, y.obj} \cup O BY <2>3, <2>6
  <2> HIDE DEF Two, Last1, Obj3
  <2> QED BY <2>8, <2>9, <2>10, <2>11
<1>10. PICK u, v : u = Two(4) \o Last1(4) /\ v = Two(6) \o Last1(6) OBVIOUS
<1>11. d = (IF 4 \in Source THEN u ELSE <<>>) \o (IF 6 \in Source THEN v ELSE <<>>)
  BY <1>4, <1>10 DEF Each
<1> HIDE DEF Two, Last1
<1>12. 4 \in Source => Built(u, Dels, Obj3(4)) /\ RulesFirst(u)
  <2> HIDE DEF Obj3
  <2> QED BY <1>9, <1>10
<1>13. 6 \in Source => Built(v, Dels, Obj3(6)) /\ RulesFirst(v)
  <2> HIDE DEF Obj3
  <2> QED BY <1>9, <1>10
<1>14. PICK D : D = (IF 4 \in Source THEN Obj3(4) ELSE {}) \cup (IF 6 \in Source THEN Obj3(6) ELSE {}) OBVIOUS
<1>15. Built(d, Dels, D)
  <2> HIDE DEF Obj3
  <2> QED BY <1>11, <1>12, <1>13, <1>14, TwoFamilies
<1>16. \A o \in Obj3(4) : TableOf(o) = "s4" BY DEF TableOf, Rule, Route, SourceTable
<1>17. \A o \in Obj3(6) : TableOf(o) = "s6" BY DEF TableOf, Rule, Route, SourceTable
<1>18. RulesFirst(d)
  <2> HIDE DEF Obj3
  <2>0. Built(<<>>, Dels, {}) /\ RulesFirst(<<>>) BY Empty
  <2>1. PICK x, y : /\ x = IF 4 \in Source THEN u ELSE <<>>
                    /\ y = IF 6 \in Source THEN v ELSE <<>> OBVIOUS
  <2>2. x \in Seq(Dels) /\ RulesFirst(x) /\ \A o \in ObjsOf(x) : TableOf(o) = "s4"
    BY <2>0, <2>1, <1>12, <1>16 DEF Built
  <2>3. y \in Seq(Dels) /\ RulesFirst(y) /\ \A o \in ObjsOf(y) : TableOf(o) = "s6"
    BY <2>0, <2>1, <1>13, <1>17 DEF Built
  <2>4. \A o \in ObjsOf(x), r \in ObjsOf(y) : TableOf(o) # TableOf(r) BY <2>2, <2>3
  <2>5. RulesFirst(x \o y) BY <2>2, <2>3, <2>4, JoinedRulesFirst
  <2> QED BY <1>11, <2>1, <2>5
<1>19. PICK A, B, C : /\ A = {Rule(f, "mark") : f \in Marked}
                      /\ B = {Route(f, "mark", "extra") : f \in Marked \cap Extra}
                      /\ C = {Route(f, "mark", "default") : f \in Marked \cap gw} OBVIOUS
<1>20. Built(a, Dels, A) /\ Built(b, Dels, B) /\ Built(c, Dels, C) BY <1>6, <1>7, <1>8, <1>19
<1>21. /\ Built(a \o b, Dels, A \cup B)
       /\ Built((a \o b) \o c, Dels, (A \cup B) \cup C)
       /\ Built(((a \o b) \o c) \o d, Dels, ((A \cup B) \cup C) \cup D)
  BY <1>15, <1>20, Joined, Zenon
<1>22. /\ \A o \in A : IsRule(o) /\ TableOf(o) = "mark"
       /\ \A o \in B : ~IsRule(o) /\ TableOf(o) = "mark"
       /\ \A o \in C : ~IsRule(o) /\ TableOf(o) = "mark"
  BY <1>19 DEF IsRule, TableOf, Rule, Route
<1>23. \A o \in D : TableOf(o) \in {"s4", "s6"}
  <2> HIDE DEF Obj3
  <2> QED BY <1>14, <1>16, <1>17
<1>24. RulesFirst(a) BY <1>20, <1>22 DEF RulesFirst, ObjsOf, Built
<1>25. RulesFirst(b) BY <1>20, <1>22 DEF RulesFirst, ObjsOf, Built
<1>26. RulesFirst(c) BY <1>20, <1>22 DEF RulesFirst, ObjsOf, Built
<1>27. RulesFirst(a \o b)
  <2>1. \A o \in A, r \in B : IsRule(o) BY <1>22
  <2> QED BY <1>20, <1>24, <1>25, <2>1, JoinedRulesFirst DEF Built
<1>28. RulesFirst((a \o b) \o c)
  <2>1. \A o \in A \cup B, r \in C : ~IsRule(r) BY <1>22
  <2>2. PICK e : e = a \o b OBVIOUS
  <2> QED BY <1>20, <1>21, <1>26, <1>27, <2>1, <2>2, JoinedRulesFirst DEF Built
<1>29. RulesFirst(((a \o b) \o c) \o d)
  <2>1. \A o \in (A \cup B) \cup C, r \in D : TableOf(o) # TableOf(r) BY <1>22, <1>23
  <2>2. PICK e : e = (a \o b) \o c OBVIOUS
  <2> QED BY <1>15, <1>18, <1>21, <1>28, <2>1, <2>2, JoinedRulesFirst DEF Built
<1>30. ASSUME NEW o \in HostObjs PROVE o \in (((A \cup B) \cup C) \cup D) \cup Left(gw)
  <2>1. CASE o \in A \cup B BY <2>1
  <2>2. ASSUME NEW f \in Marked, o = Route(f, "mark", "default") PROVE o \in C \cup Left(gw)
    <3>1. CASE f \in gw BY <2>2, <3>1, <1>19
    <3>2. CASE f \notin gw BY <2>2, <3>2, FamiliesOf DEF Left
    <3> QED BY <3>1, <3>2
  <2>3. ASSUME NEW f \in Source, o \in {Rule(f, SourceTable(f)), Route(f, SourceTable(f), "extra")}
        PROVE  o \in D
    <3>1. f = 4 \/ f = 6 BY FamiliesOf DEF Families
    <3>2. o \in Obj3(f) BY <2>3
    <3> HIDE DEF Obj3
    <3> QED BY <3>1, <3>2, <1>14
  <2>4. ASSUME NEW f \in Source, o = Route(f, SourceTable(f), "default") PROVE o \in D \cup Left(gw)
    <3>1. f = 4 \/ f = 6 BY FamiliesOf DEF Families
    <3>2. CASE f \in gw
      <4>1. o \in Obj3(f) BY <2>4, <3>2
      <4> HIDE DEF Obj3
      <4> QED BY <3>1, <4>1, <1>14
    <3>3. CASE f \notin gw BY <3>1, <3>3, <2>4 DEF Left, SourceTable, Families
    <3> QED BY <3>2, <3>3
  <2> QED BY <2>1, <2>2, <2>3, <2>4, <1>19 DEF HostObjs
<1> QED BY <1>5, <1>21, <1>29, <1>30 DEF Built

(* A set-up under way *)

\* What a set-up that has not failed yet has left to do: deletions come first, and
\* every object demanded is still to be installed or there to stay.
Underway(D, cmds, K) ==
    /\ \A i, j \in DOMAIN cmds : i < j /\ cmds[i].op # "del" => cmds[j].op # "del"
    /\ \A o \in D :
          \/ \E i \in DOMAIN cmds : cmds[i].op # "del" /\ cmds[i].obj = o
          \/ o \in K /\ \A i \in DOMAIN cmds : cmds[i].op # "del"

LEMMA SetUpBegins ==
    ASSUME NEW gw, NEW K
    PROVE  /\ Pre(gw) \o Install(gw) \in Seq(Cmds)
           /\ Underway(Demands(gw), Pre(gw) \o Install(gw), K)
<1>1. PICK a \in Seq(Dels) : a = Pre(gw) BY PreForm
<1>2. PICK b \in Seq(Adds) : b = Install(gw) BY InstallForm
<1>3. a \in Seq(Cmds) /\ b \in Seq(Cmds)
  <2>1. Dels \subseteq Cmds /\ Adds \subseteq Cmds BY DEF Dels, Adds, Cmds
  <2> QED BY <1>1, <1>2, <2>1
<1>4. a \o b \in Seq(Cmds) /\ Len(a \o b) = Len(a) + Len(b) BY <1>3
<1>5. \A i \in DOMAIN a : (a \o b)[i].op = "del"
  <2> SUFFICES ASSUME NEW i \in DOMAIN a PROVE (a \o b)[i].op = "del" OBVIOUS
  <2>1. (a \o b)[i] = a[i] /\ a[i] \in Dels BY <1>1, <1>3
  <2> QED BY <2>1 DEF Dels
<1>6. \A i \in DOMAIN (a \o b) : i > Len(a) => (a \o b)[i].op # "del"
  <2> SUFFICES ASSUME NEW i \in DOMAIN (a \o b), i > Len(a) PROVE (a \o b)[i].op # "del" OBVIOUS
  <2>1. (a \o b)[i] = b[i - Len(a)] /\ i - Len(a) \in DOMAIN b BY <1>3, <1>4
  <2>2. b[i - Len(a)] \in Adds BY <1>2, <2>1
  <2> QED BY <2>1, <2>2 DEF Adds
<1>7. \A i, j \in DOMAIN (a \o b) : i < j /\ (a \o b)[i].op # "del" => (a \o b)[j].op # "del"
  <2> SUFFICES ASSUME NEW i \in DOMAIN (a \o b), NEW j \in DOMAIN (a \o b), i < j, (a \o b)[i].op # "del"
               PROVE  (a \o b)[j].op # "del"
    OBVIOUS
  <2>1. i > Len(a) BY <1>3, <1>4, <1>5
  <2> QED BY <1>3, <1>4, <1>6, <2>1
<1>8. ASSUME NEW o \in Demands(gw)
      PROVE  \E i \in DOMAIN (a \o b) : (a \o b)[i].op # "del" /\ (a \o b)[i].obj = o
  <2>1. PICK k \in DOMAIN b : b[k].obj = o BY <1>2 DEF Demands
  <2>2. k + Len(a) \in DOMAIN (a \o b) /\ (a \o b)[k + Len(a)] = b[k] BY <1>3, <1>4, <2>1
  <2>3. b[k] \in Adds BY <1>2, <2>1
  <2>4. b[k].op # "del" BY <2>3 DEF Adds
  <2> QED BY <2>1, <2>2, <2>4
<1> QED BY <1>1, <1>2, <1>4, <1>7, <1>8 DEF Underway

LEMMA Tails ==
    ASSUME NEW S, NEW cmds \in Seq(S), cmds # <<>>
    PROVE  /\ Tail(cmds) \in Seq(S) /\ Len(cmds) >= 1 /\ 1 \in DOMAIN cmds /\ Head(cmds) = cmds[1]
           /\ \A i \in DOMAIN Tail(cmds) : i + 1 \in DOMAIN cmds /\ Tail(cmds)[i] = cmds[i + 1]
           /\ \A i \in DOMAIN cmds : i # 1 => i - 1 \in DOMAIN Tail(cmds) /\ Tail(cmds)[i - 1] = cmds[i]
<1>1. Len(cmds) \in Nat /\ Len(cmds) >= 1 /\ Len(Tail(cmds)) = Len(cmds) - 1 OBVIOUS
<1>2. \A i \in DOMAIN Tail(cmds) : i + 1 \in DOMAIN cmds /\ Tail(cmds)[i] = cmds[i + 1] BY <1>1
<1>3. \A i \in DOMAIN cmds : i # 1 => i - 1 \in DOMAIN Tail(cmds) /\ Tail(cmds)[i - 1] = cmds[i]
  <2> SUFFICES ASSUME NEW i \in DOMAIN cmds, i # 1
               PROVE  i - 1 \in DOMAIN Tail(cmds) /\ Tail(cmds)[i - 1] = cmds[i]
    OBVIOUS
  <2>1. i - 1 \in DOMAIN Tail(cmds) BY <1>1
  <2>2. i - 1 + 1 = i BY <1>1
  <2> QED BY <1>2, <2>1, <2>2
<1> QED BY <1>1, <1>2, <1>3

LEMMA CmdDone ==
    ASSUME NEW D, NEW K, NEW L, NEW cmds \in Seq(Cmds), cmds # <<>>, Underway(D, cmds, K),
           Head(cmds).op # "del" => K \cup {Head(cmds).obj} \subseteq L
    PROVE  Underway(D, Tail(cmds), L)
<1>1. PICK s : s = Tail(cmds) OBVIOUS
<1>2. /\ s \in Seq(Cmds) /\ Len(cmds) >= 1 /\ 1 \in DOMAIN cmds /\ Head(cmds) = cmds[1]
      /\ \A i \in DOMAIN s : i + 1 \in DOMAIN cmds /\ s[i] = cmds[i + 1]
      /\ \A i \in DOMAIN cmds : i # 1 => i - 1 \in DOMAIN s /\ s[i - 1] = cmds[i]
  BY <1>1, Tails
<1>3. \A i, j \in DOMAIN s : i < j /\ s[i].op # "del" => s[j].op # "del"
  <2> SUFFICES ASSUME NEW i \in DOMAIN s, NEW j \in DOMAIN s, i < j, s[i].op # "del" PROVE s[j].op # "del"
    OBVIOUS
  <2>1. i + 1 < j + 1 BY <1>2
  <2> QED BY <1>2, <2>1 DEF Underway
<1>4. cmds[1].op # "del" => \A i \in DOMAIN s : s[i].op # "del"
  <2> SUFFICES ASSUME cmds[1].op # "del", NEW i \in DOMAIN s PROVE s[i].op # "del" OBVIOUS
  <2>1. 1 < i + 1 BY <1>2
  <2> QED BY <1>2, <2>1 DEF Underway
<1>5. ASSUME NEW o \in D
      PROVE  \/ \E i \in DOMAIN s : s[i].op # "del" /\ s[i].obj = o
             \/ o \in L /\ \A i \in DOMAIN s : s[i].op # "del"
  <2>1. CASE o \in K /\ \A i \in DOMAIN cmds : cmds[i].op # "del" BY <1>2, <1>4, <2>1
  <2>2. ASSUME NEW i \in DOMAIN cmds, cmds[i].op # "del", cmds[i].obj = o
        PROVE  \/ \E k \in DOMAIN s : s[k].op # "del" /\ s[k].obj = o
               \/ o \in L /\ \A k \in DOMAIN s : s[k].op # "del"
    <3>1. CASE i = 1 BY <1>2, <1>4, <2>2, <3>1
    <3>2. CASE i # 1 BY <1>2, <2>2, <3>2
    <3> QED BY <3>1, <3>2
  <2> QED BY <2>1, <2>2 DEF Underway
<1> QED BY <1>1, <1>3, <1>5 DEF Underway

LEMMA SetUpComplete ==
    ASSUME NEW D, NEW K, Underway(D, <<>>, K)
    PROVE  D \subseteq K
BY DEF Underway

(* A cleanup under way *)

\* What a cleanup in which nothing failed has left to do.
Cleaning(cmds, K, past, gw) ==
    /\ cmds \in Seq(Dels) /\ RulesFirst(cmds)
    /\ K \subseteq ObjsOf(cmds) \cup Left(gw)
    /\ \A r \in K : IsRule(r) => {o \in past : TableOf(o) = TableOf(r) /\ ~IsRule(o)} \subseteq K

LEMMA DelDone ==
    ASSUME NEW cmds, NEW K, NEW past, NEW gw, Cleaning(cmds, K, past, gw), cmds # <<>>
    PROVE  Cleaning(Tail(cmds), K \ {Head(cmds).obj}, past, gw)
<1>1. PICK s, x : s = Tail(cmds) /\ x = Head(cmds).obj OBVIOUS
<1>2. cmds \in Seq(Dels) BY DEF Cleaning
<1>3. /\ s \in Seq(Dels) /\ Len(cmds) >= 1 /\ 1 \in DOMAIN cmds /\ x = cmds[1].obj
      /\ \A i \in DOMAIN s : i + 1 \in DOMAIN cmds /\ s[i] = cmds[i + 1]
      /\ \A i \in DOMAIN cmds : i # 1 => i - 1 \in DOMAIN s /\ s[i - 1] = cmds[i]
  BY <1>1, <1>2, Tails
<1>4. RulesFirst(s)
  <2> SUFFICES ASSUME NEW i \in DOMAIN s, NEW j \in DOMAIN s, i < j, ~IsRule(s[i].obj), IsRule(s[j].obj)
               PROVE  TableOf(s[i].obj) # TableOf(s[j].obj)
    BY DEF RulesFirst
  <2>1. i + 1 < j + 1 BY <1>3
  <2>2. s[i] = cmds[i + 1] /\ s[j] = cmds[j + 1] /\ i + 1 \in DOMAIN cmds /\ j + 1 \in DOMAIN cmds BY <1>3
  <2> QED BY <2>1, <2>2 DEF Cleaning, RulesFirst
<1>5. \A o \in ObjsOf(cmds) : o # x => o \in ObjsOf(s)
  <2> SUFFICES ASSUME NEW i \in DOMAIN cmds, cmds[i].obj # x PROVE cmds[i].obj \in ObjsOf(s) BY DEF ObjsOf
  <2>1. i # 1 BY <1>3
  <2> QED BY <1>3, <2>1 DEF ObjsOf
<1>6. K \ {x} \subseteq ObjsOf(s) \cup Left(gw) BY <1>5 DEF Cleaning
<1>7. ASSUME NEW r \in K \ {x}, IsRule(r), NEW o \in past, TableOf(o) = TableOf(r), ~IsRule(o)
      PROVE  o \in K \ {x}
  <2>1. o \in K BY <1>7 DEF Cleaning
  <2>2. r \notin Left(gw) BY <1>7 DEF Left, IsRule, Route
  <2>3. r \in ObjsOf(cmds) BY <1>7, <2>2 DEF Cleaning
  <2>4. PICK j \in DOMAIN cmds : cmds[j].obj = r BY <2>3 DEF ObjsOf
  <2>5. j # 1 BY <1>3, <1>7, <2>4
  <2>6. 1 < j BY <1>2, <2>5
  <2>7. o # x BY <1>3, <1>7, <2>4, <2>6 DEF Cleaning, RulesFirst
  <2> QED BY <2>1, <2>7
<1> QED BY <1>1, <1>3, <1>4, <1>6, <1>7 DEF Cleaning

(* The invariant *)

ThreadStates == [pc : {"retry", "answered", "install", "hook", "up", "done"}, gw : SUBSET Families]

HostTypes ==
    /\ thread \in [Threads -> ThreadStates]
    /\ job \in [cmds : Seq(Cmds), iface : BOOLEAN, route : BOOLEAN]
    /\ kernel \subseteq HostObjs
    /\ cleanup \in {Unset} \cup SUBSET Families
    /\ hooks \in [active : BOOLEAN, up : {"unknown", "ok", "failed"}, down : {"unknown", "ok", "failed"}]
    /\ main \in {"join", "clean", "exited", "killed"}
    /\ failures \in Nat
    /\ runs \in [up : Nat, down : Nat]

\* The network_setup lock, and the threads that are joined.
LockInv ==
    /\ \A t \in Threads : thread[t].pc \in {"install", "hook"} <=> lock = t
    /\ main \in {"clean", "exited"} => \A t \in Threads : thread[t].pc = "done"

\* What the thread that holds the lock has achieved, and the report.
RouteInv ==
    /\ \A t \in Threads : thread[t].pc = "install" /\ ~job.route =>
          Underway(Demands(thread[t].gw), job.cmds, kernel)
    /\ \A t \in Threads : thread[t].pc = "hook" => last = thread[t].gw /\ Demands(last) \subseteq kernel
    /\ RoutingReportTrue

HookInv ==
    /\ runs.up <= 1 /\ runs.down <= 1
    /\ hooks.up = "unknown" => runs.up = 0
    /\ runs.up = 1 => hooks.active
    /\ main \in {"join", "clean"} => runs.down = 0
    /\ runs.up = 1 /\ main = "exited" /\ "down" \in scripts => runs.down = 1

\* What the cleanup will find.
CleanInv ==
    /\ main = "join" /\ cleanup = Unset /\ (\A t \in Threads : thread[t].pc # "install") => kernel = {}
    /\ main = "clean" /\ failures = 0 => Cleaning(job.cmds, kernel, foreseen, cleanup)
    /\ main = "exited" /\ failures = 0 => kernel \subseteq Left(cleanup)

HostInv == HostTypes /\ LockInv /\ RouteInv /\ HookInv /\ CleanInv

LEMMA HostInitial == HostInit => HostInv
<1> SUFFICES ASSUME HostInit PROVE HostInv OBVIOUS
<1>0. "nobody" \notin Threads BY ClientHostAssumption
<1>1. HostTypes
  <2>1. Retrying \in ThreadStates BY DEF Retrying, ThreadStates
  <2>2. NoJob \in [cmds : Seq(Cmds), iface : BOOLEAN, route : BOOLEAN] BY DEF NoJob
  <2> QED BY <2>1, <2>2 DEF HostInit, HostTypes
<1>2. \A t \in Threads : thread[t].pc = "retry" BY DEF HostInit, Retrying
<1>3. LockInv BY <1>0, <1>2 DEF HostInit, LockInv, NoThread
<1>4. RouteInv BY <1>2 DEF HostInit, RouteInv, RoutingReportTrue
<1>5. HookInv BY DEF HostInit, HookInv
<1>6. CleanInv BY DEF HostInit, CleanInv
<1> QED BY <1>1, <1>3, <1>4, <1>5, <1>6 DEF HostInv

\* A thread that runs is joined by nobody yet.
LEMMA StillJoining ==
    ASSUME HostInv, NEW t \in Threads, NEW p, ThreadAt(t, p), p # "done"
    PROVE  main = "join" /\ thread[t].pc = p
BY DEF HostInv, HostTypes, LockInv, ThreadAt, Running

\* answered, waiting, serving or done: the steps of a thread without the lock.
LEMMA Moves ==
    ASSUME HostInv, NEW t \in Threads, NEW r \in ThreadStates, thread' = [thread EXCEPT ![t] = r],
           r.pc \notin {"install", "hook"}, thread[t].pc \notin {"install", "hook"}, main = "join",
           UNCHANGED <<lock, job, hostVars, endVars, failures>>
    PROVE  HostInv'
<1>1. UNCHANGED <<lock, job, kernel, prOk, cleanup, scripts, hooks, last, foreseen, runs, fatal, exit, main, failures>>
  BY DEF hostVars, endVars
<1>2. /\ thread' \in [Threads -> ThreadStates] /\ thread'[t] = r
      /\ \A u \in Threads : u # t => thread'[u] = thread[u]
  BY DEF HostInv, HostTypes
<1>3. HostTypes' BY <1>1, <1>2 DEF HostInv, HostTypes
<1>4. LockInv' BY <1>1, <1>2 DEF HostInv, LockInv
<1>5. RouteInv' BY <1>1, <1>2 DEF HostInv, RouteInv, RoutingReportTrue
<1>6. HookInv' BY <1>1 DEF HostInv, HookInv
<1>7. CleanInv' BY <1>1, <1>2 DEF HostInv, CleanInv
<1> QED BY <1>3, <1>4, <1>5, <1>6, <1>7 DEF HostInv

LEMMA ThreadMoves ==
    ASSUME HostInv, NEW t \in Threads, NEW gw \in SUBSET Families,
           Answered(t, gw) \/ LeaveLoop(t) \/ Closed(t)
    PROVE  HostInv'
<1>0. thread[t] \in ThreadStates BY DEF HostInv, HostTypes
<1>1. CASE Answered(t, gw)
  <2>1. [pc |-> "answered", gw |-> gw] \in ThreadStates BY DEF ThreadStates
  <2>2. main = "join" /\ thread[t].pc = "retry" BY <1>1, StillJoining DEF Answered
  <2> QED BY <1>1, <2>1, <2>2, Moves DEF Answered
<1>2. CASE LeaveLoop(t)
  <2>1. PICK r : r = [thread[t] EXCEPT !.pc = "done"] OBVIOUS
  <2>2. r \in ThreadStates /\ r.pc = "done" BY <1>0, <2>1 DEF ThreadStates
  <2>3. main = "join" /\ thread[t].pc = "retry" BY <1>2, StillJoining DEF LeaveLoop
  <2>4. thread' = [thread EXCEPT ![t] = r] BY <1>2, <2>1 DEF LeaveLoop, Goto, HostInv, HostTypes
  <2> QED BY <1>2, <2>2, <2>3, <2>4, Moves DEF LeaveLoop, bounds
<1>3. CASE Closed(t)
  <2>1. PICK r : r = [thread[t] EXCEPT !.pc = "retry"] OBVIOUS
  <2>2. r \in ThreadStates /\ r.pc = "retry" BY <1>0, <2>1 DEF ThreadStates
  <2>3. main = "join" /\ thread[t].pc = "up" BY <1>3, StillJoining DEF Closed
  <2>4. thread' = [thread EXCEPT ![t] = r] BY <1>3, <2>1 DEF Closed, Goto, HostInv, HostTypes
  <2> QED BY <1>3, <2>2, <2>3, <2>4, Moves DEF Closed, bounds
<1> QED BY <1>1, <1>2, <1>3

LEMMA SetUpInterfaceKeeps ==
    ASSUME HostInv, NEW t \in Threads, NEW broken \in BOOLEAN, SetUpInterface(t, broken)
    PROVE  HostInv'
<1>0. "nobody" \notin Threads BY ClientHostAssumption
<1>1. PICK gw : gw = thread[t].gw OBVIOUS
<1>2. /\ UNCHANGED <<kernel, prOk, cleanup, scripts, hooks, last, foreseen, runs, fatal, exit, main>>
      /\ lock = NoThread /\ lock' = t /\ thread' = [thread EXCEPT ![t].pc = "install"]
      /\ job' = [cmds |-> IF Installable(gw) THEN Pre(gw) \o Install(gw) ELSE <<>>,
                 iface |-> broken, route |-> ~Installable(gw)]
  BY <1>1 DEF SetUpInterface, hostVars, endVars, Goto
<1>3. main = "join" /\ thread[t].pc = "answered" BY StillJoining DEF SetUpInterface
<1>4. /\ thread' \in [Threads -> ThreadStates] /\ thread'[t].pc = "install" /\ thread'[t].gw = gw
      /\ \A u \in Threads : u # t => thread'[u] = thread[u]
  BY <1>1, <1>2 DEF HostInv, HostTypes, ThreadStates
<1>5. failures' \in Nat BY DEF SetUpInterface, Fails, HostInv, HostTypes
<1>6. Pre(gw) \o Install(gw) \in Seq(Cmds) /\ Underway(Demands(gw), Pre(gw) \o Install(gw), kernel)
  BY SetUpBegins
<1>7. job' \in [cmds : Seq(Cmds), iface : BOOLEAN, route : BOOLEAN]
  <2>1. CASE Installable(gw) BY <1>2, <1>6, <2>1
  <2>2. CASE ~Installable(gw) BY <1>2, <2>2
  <2> QED BY <2>1, <2>2
<1>8. ~job'.route => job'.cmds = Pre(gw) \o Install(gw) BY <1>2
<1>9. \A u \in Threads : thread[u].pc \notin {"install", "hook"} BY <1>0, <1>2 DEF HostInv, LockInv, NoThread
<1>10. HostTypes' BY <1>2, <1>4, <1>5, <1>7 DEF HostInv, HostTypes
<1>11. LockInv' BY <1>2, <1>3, <1>4, <1>9 DEF LockInv
<1>12. RouteInv'
  <2>1. \A u \in Threads : thread'[u].pc = "install" => u = t BY <1>4, <1>9
  <2>2. \A u \in Threads : thread'[u].pc # "hook" BY <1>4, <1>9
  <2>3. ~job'.route => Underway(Demands(thread'[t].gw), job'.cmds, kernel') BY <1>2, <1>4, <1>6, <1>8
  <2>4. lock' # NoThread BY <1>0, <1>2 DEF NoThread
  <2> QED BY <2>1, <2>2, <2>3, <2>4 DEF RouteInv, RoutingReportTrue
<1>13. HookInv' BY <1>2 DEF HostInv, HookInv
<1>14. CleanInv' BY <1>2, <1>3, <1>4 DEF HostInv, CleanInv
<1> QED BY <1>10, <1>11, <1>12, <1>13, <1>14 DEF HostInv

LEMMA RunIpKeeps ==
    ASSUME HostInv, NEW t \in Threads, NEW broken \in BOOLEAN, RunIp(t, broken)
    PROVE  HostInv'
<1>1. PICK cmd : cmd = Head(job.cmds) OBVIOUS
<1>2. PICK ok \in BOOLEAN : ok = (~broken /\ Succeeds(cmd)) OBVIOUS
<1>3. /\ UNCHANGED <<thread, lock, prOk, cleanup, scripts, hooks, last, foreseen, runs, fatal, exit, main>>
      /\ job.cmds # <<>> /\ kernel' = (IF ok THEN Effect(cmd) ELSE kernel)
      /\ job' = [job EXCEPT !.cmds = Tail(job.cmds), !.route = job.route \/ (cmd.op # "del" /\ ~ok)]
  BY <1>1, <1>2 DEF RunIp, endVars
<1>4. main = "join" /\ thread[t].pc = "install" BY StillJoining DEF RunIp
<1>5. cmd \in Cmds /\ Tail(job.cmds) \in Seq(Cmds) BY <1>1, <1>3 DEF HostInv, HostTypes
<1>6. PICK r \in BOOLEAN : r = (job.route \/ (cmd.op # "del" /\ ~ok)) BY DEF HostInv, HostTypes
<1>7. /\ job' \in [cmds : Seq(Cmds), iface : BOOLEAN, route : BOOLEAN]
      /\ job'.cmds = Tail(job.cmds) /\ job'.route = r
  BY <1>3, <1>5, <1>6 DEF HostInv, HostTypes
<1>8. kernel' \subseteq HostObjs BY <1>3, <1>5 DEF Effect, Cmds, HostInv, HostTypes
<1>9. failures' \in Nat BY DEF RunIp, Fails, HostInv, HostTypes
<1>10. \A u \in Threads : thread[u].pc \in {"install", "hook"} => u = t BY <1>4 DEF HostInv, LockInv
<1>11. lock = t BY <1>4 DEF HostInv, LockInv
<1>12. HostTypes' BY <1>3, <1>7, <1>8, <1>9 DEF HostInv, HostTypes
<1>13. LockInv' BY <1>3 DEF HostInv, LockInv
<1>14. RouteInv'
  <2>1. ASSUME ~r PROVE Underway(Demands(thread[t].gw), Tail(job.cmds), kernel')
    <3>1. Underway(Demands(thread[t].gw), job.cmds, kernel) BY <1>4, <1>6, <2>1 DEF HostInv, RouteInv
    <3>2. cmd.op # "del" => kernel \cup {cmd.obj} \subseteq kernel' BY <1>3, <1>6, <2>1 DEF Effect
    <3>3. job.cmds \in Seq(Cmds) BY DEF HostInv, HostTypes
    <3> QED BY <1>1, <1>3, <3>1, <3>2, <3>3, CmdDone
  <2>2. lock' # NoThread BY <1>3, <1>11, ClientHostAssumption DEF NoThread
  <2> QED BY <1>3, <1>4, <1>7, <1>10, <2>1, <2>2 DEF RouteInv, RoutingReportTrue
<1>15. HookInv' BY <1>3 DEF HostInv, HookInv
<1>16. CleanInv' BY <1>3, <1>4 DEF HostInv, CleanInv
<1> QED BY <1>12, <1>13, <1>14, <1>15, <1>16 DEF HostInv

LEMMA SetUpDoneKeeps ==
    ASSUME HostInv, NEW t \in Threads, SetUpDone(t)
    PROVE  HostInv'
<1>0. "nobody" \notin Threads BY ClientHostAssumption
<1>1. PICK gw \in SUBSET Families : gw = thread[t].gw BY DEF HostInv, HostTypes, ThreadStates
<1>2. /\ UNCHANGED <<scripts, kernel, main, foreseen, runs, answers, failures>>
      /\ job.cmds = <<>> /\ job' = NoJob
      /\ prOk' = ~job.route /\ last' = (IF job.route THEN last ELSE gw)
      /\ cleanup' = (IF cleanup = Unset THEN gw ELSE cleanup)
  BY <1>1 DEF SetUpDone, ReportRouting, Remember, bounds
<1>3. main = "join" /\ thread[t].pc = "install" BY StillJoining DEF SetUpDone
<1>4. \A u \in Threads : thread[u].pc \in {"install", "hook"} => u = t BY <1>3 DEF HostInv, LockInv
<1>5. lock = t BY <1>3 DEF HostInv, LockInv
<1>6. ~job.route => Demands(gw) \subseteq kernel
  <2> SUFFICES ASSUME ~job.route PROVE Demands(gw) \subseteq kernel OBVIOUS
  <2>1. Underway(Demands(gw), <<>>, kernel) BY <1>1, <1>2, <1>3 DEF HostInv, RouteInv
  <2> QED BY <2>1, SetUpComplete
<1>7. cleanup' # Unset /\ cleanup' \in SUBSET Families
  <2>1. gw # Unset BY <1>1 DEF Families, Unset
  <2>2. cleanup \in {Unset} \cup SUBSET Families BY DEF HostInv, HostTypes
  <2>3. CASE cleanup = Unset BY <1>2, <2>1, <2>3
  <2>4. CASE cleanup # Unset BY <1>2, <2>2, <2>4
  <2> QED BY <2>3, <2>4
<1>8. NoJob \in [cmds : Seq(Cmds), iface : BOOLEAN, route : BOOLEAN] BY DEF NoJob
<1>9. job.route \in BOOLEAN BY DEF HostInv, HostTypes
<1>10. CleanInv' BY <1>2, <1>3, <1>7 DEF CleanInv
<1>11. \/ /\ lock' = NoThread /\ \E p \in {"retry", "up"} : thread' = [thread EXCEPT ![t] = [pc |-> p, gw |-> {}]]
          /\ hooks' = hooks \/ hooks' = [hooks EXCEPT !.active = TRUE]
       \/ /\ lock' = lock /\ thread' = [thread EXCEPT ![t].pc = "hook"] /\ hooks' = hooks /\ ~job.route
  BY DEF SetUpDone, Abort, Return, Goto
<1>12. /\ hooks' \in [active : BOOLEAN, up : {"unknown", "ok", "failed"}, down : {"unknown", "ok", "failed"}]
       /\ hooks'.up = hooks.up /\ (hooks.active => hooks'.active)
  BY <1>11 DEF HostInv, HostTypes
<1>13. HookInv' BY <1>2, <1>12 DEF HostInv, HookInv
<1>14. CASE /\ lock' = NoThread
            /\ \E p \in {"retry", "up"} : thread' = [thread EXCEPT ![t] = [pc |-> p, gw |-> {}]]
  <2>1. PICK p \in {"retry", "up"} : thread' = [thread EXCEPT ![t] = [pc |-> p, gw |-> {}]] BY <1>14
  <2>2. /\ thread' \in [Threads -> ThreadStates] /\ thread'[t].pc = p
        /\ \A u \in Threads : u # t => thread'[u] = thread[u]
    BY <2>1 DEF HostInv, HostTypes, ThreadStates
  <2>3. \A u \in Threads : thread'[u].pc \notin {"install", "hook"} BY <1>4, <2>2
  <2>4. HostTypes' BY <1>2, <1>7, <1>8, <1>12, <2>2 DEF HostInv, HostTypes
  <2>5. LockInv' BY <1>0, <1>2, <1>3, <1>14, <2>3 DEF LockInv, NoThread
  <2>6. RouteInv' BY <1>2, <1>6, <1>9, <2>3 DEF RouteInv, RoutingReportTrue
  <2> QED BY <1>10, <1>13, <2>4, <2>5, <2>6 DEF HostInv
<1>15. CASE lock' = lock /\ thread' = [thread EXCEPT ![t].pc = "hook"] /\ ~job.route
  <2>2. /\ thread' \in [Threads -> ThreadStates] /\ thread'[t].pc = "hook" /\ thread'[t].gw = gw
        /\ \A u \in Threads : u # t => thread'[u] = thread[u]
    BY <1>1, <1>15 DEF HostInv, HostTypes, ThreadStates
  <2>3. \A u \in Threads : thread'[u].pc \in {"install", "hook"} => u = t BY <1>4, <2>2
  <2>4. HostTypes' BY <1>2, <1>7, <1>8, <1>12, <2>2 DEF HostInv, HostTypes
  <2>5. LockInv' BY <1>2, <1>3, <1>5, <1>15, <2>2, <2>3 DEF LockInv
  <2>6. last' = gw /\ Demands(gw) \subseteq kernel' BY <1>2, <1>6, <1>15
  <2>7. lock' # NoThread BY <1>0, <1>5, <1>15 DEF NoThread
  <2>8. RouteInv' BY <2>2, <2>3, <2>6, <2>7 DEF RouteInv, RoutingReportTrue
  <2> QED BY <1>10, <1>13, <2>4, <2>5, <2>8 DEF HostInv
<1> QED BY <1>11, <1>14, <1>15

LEMMA HookUpKeeps ==
    ASSUME HostInv, NEW t \in Threads, NEW ok \in BOOLEAN, HookUp(t, ok)
    PROVE  HostInv'
<1>0. "nobody" \notin Threads BY ClientHostAssumption
<1>1. /\ UNCHANGED <<scripts, job, kernel, prOk, cleanup, last, foreseen, main, answers, failures>>
      /\ lock' = NoThread
      /\ \E p \in {"retry", "up"} : thread' = [thread EXCEPT ![t] = [pc |-> p, gw |-> {}]]
  BY DEF HookUp, Abort, Return, bounds
<1>2. main = "join" /\ thread[t].pc = "hook" BY StillJoining DEF HookUp
<1>3. \A u \in Threads : thread[u].pc \in {"install", "hook"} => u = t BY <1>2 DEF HostInv, LockInv
<1>4. PICK p \in {"retry", "up"} : thread' = [thread EXCEPT ![t] = [pc |-> p, gw |-> {}]] BY <1>1
<1>5. /\ thread' \in [Threads -> ThreadStates] /\ thread'[t].pc = p
      /\ \A u \in Threads : u # t => thread'[u] = thread[u]
  BY <1>4 DEF HostInv, HostTypes, ThreadStates
<1>6. \A u \in Threads : thread'[u].pc \notin {"install", "hook"} BY <1>3, <1>5
<1>7. PICK res \in {"ok", "failed"} : res = IF "up" \in scripts /\ ~ok THEN "failed" ELSE "ok" OBVIOUS
<1>8. /\ hooks' = [hooks EXCEPT !.active = TRUE, !.up = IF hooks.up # "unknown" THEN hooks.up ELSE res]
      /\ runs' = IF hooks.up = "unknown" /\ "up" \in scripts THEN [runs EXCEPT !.up = runs.up + 1] ELSE runs
  BY <1>7 DEF HookUp, UpResult
<1>9. /\ hooks' \in [active : BOOLEAN, up : {"unknown", "ok", "failed"}, down : {"unknown", "ok", "failed"}]
      /\ hooks'.active /\ hooks'.up # "unknown"
  <2>1. hooks.up \in {"unknown", "ok", "failed"} BY DEF HostInv, HostTypes
  <2>2. PICK x \in {"ok", "failed"} : x = IF hooks.up # "unknown" THEN hooks.up ELSE res BY <1>7, <2>1
  <2>3. hooks' = [hooks EXCEPT !.active = TRUE, !.up = x] BY <1>8, <2>2
  <2> QED BY <2>2, <2>3 DEF HostInv, HostTypes
<1>10. runs' \in [up : Nat, down : Nat] /\ runs'.down = runs.down /\ runs'.up <= 1
  <2>1. CASE hooks.up = "unknown" /\ "up" \in scripts
    <3>1. runs.up = 0 BY <2>1 DEF HostInv, HookInv
    <3>2. runs' = [runs EXCEPT !.up = 1] BY <1>8, <2>1, <3>1
    <3> QED BY <3>2 DEF HostInv, HostTypes
  <2>2. CASE ~(hooks.up = "unknown" /\ "up" \in scripts)
    <3>1. runs' = runs BY <1>8, <2>2
    <3> QED BY <3>1 DEF HostInv, HostTypes, HookInv
  <2> QED BY <2>1, <2>2
<1>11. HostTypes' BY <1>1, <1>5, <1>9, <1>10 DEF HostInv, HostTypes
<1>12. LockInv' BY <1>0, <1>1, <1>2, <1>6 DEF LockInv, NoThread
<1>13. Demands(last) \subseteq kernel BY <1>2 DEF HostInv, RouteInv
<1>14. RouteInv' BY <1>1, <1>6, <1>13 DEF RouteInv, RoutingReportTrue
<1>15. HookInv' BY <1>1, <1>2, <1>9, <1>10 DEF HostInv, HookInv
<1>16. CleanInv'
  <2>1. \A u \in Threads : thread[u].pc # "install" BY <1>2, <1>3
  <2> QED BY <1>1, <1>2, <2>1 DEF HostInv, CleanInv
<1> QED BY <1>11, <1>12, <1>14, <1>15, <1>16 DEF HostInv

LEMMA JoinAllKeeps ==
    ASSUME HostInv, JoinAll
    PROVE  HostInv'
<1>1. /\ UNCHANGED <<thread, lock, kernel, prOk, cleanup, scripts, hooks, last, runs, fatal, exit, answers, failures>>
      /\ main = "join" /\ main' = "clean" /\ foreseen' = kernel
      /\ \A t \in Threads : thread[t].pc = "done"
      /\ job' = [NoJob EXCEPT !.cmds = IF cleanup = Unset THEN <<>> ELSE Clean(cleanup)]
  BY DEF JoinAll, bounds
<1>2. PICK cmds : cmds = IF cleanup = Unset THEN <<>> ELSE Clean(cleanup) OBVIOUS
<1>3. job' = [cmds |-> cmds, iface |-> FALSE, route |-> FALSE] BY <1>1, <1>2 DEF NoJob
<1>4. Cleaning(cmds, kernel, kernel, cleanup)
  <2>1. CASE cleanup = Unset
    <3>1. kernel = {} BY <1>1, <2>1 DEF HostInv, CleanInv
    <3>2. cmds = <<>> BY <1>2, <2>1
    <3>3. cmds \in Seq(Dels) /\ RulesFirst(cmds) BY <3>2, Empty DEF Built
    <3> QED BY <3>1, <3>3 DEF Cleaning
  <2>2. CASE cleanup # Unset
    <3>1. cleanup \in SUBSET Families BY <2>2 DEF HostInv, HostTypes
    <3>2. cmds = Clean(cleanup) BY <1>2, <2>2
    <3>3. /\ cmds \in Seq(Dels) /\ RulesFirst(cmds)
          /\ HostObjs \subseteq ObjsOf(cmds) \cup Left(cleanup)
      BY <3>1, <3>2, CleanForm
    <3>4. kernel \subseteq HostObjs BY DEF HostInv, HostTypes
    <3> QED BY <3>3, <3>4 DEF Cleaning
  <2> QED BY <2>1, <2>2
<1>5. cmds \in Seq(Cmds)
  <2>1. cmds \in Seq(Dels) BY <1>4 DEF Cleaning
  <2>2. \A c \in Dels : c \in Cmds BY DEF Dels, Cmds
  <2> QED BY <2>1, <2>2
<1>6. job' \in [cmds : Seq(Cmds), iface : BOOLEAN, route : BOOLEAN] BY <1>3, <1>5
<1>7. HostTypes' BY <1>1, <1>6 DEF HostInv, HostTypes
<1>8. LockInv' BY <1>1 DEF HostInv, LockInv
<1>9. RouteInv' BY <1>1 DEF RouteInv, RoutingReportTrue
<1>10. HookInv' BY <1>1 DEF HostInv, HookInv
<1>11. job'.cmds = cmds BY <1>3
<1>12. CleanInv'
  <2>2. Cleaning(job'.cmds, kernel', foreseen', cleanup') BY <1>1, <1>4, <1>11
  <2> QED BY <1>1, <2>2 DEF CleanInv
<1> QED BY <1>7, <1>8, <1>9, <1>10, <1>12 DEF HostInv

LEMMA CleanIpKeeps ==
    ASSUME HostInv, NEW broken \in BOOLEAN, CleanIp(broken)
    PROVE  HostInv'
<1>1. PICK cmd : cmd = Head(job.cmds) OBVIOUS
<1>2. /\ UNCHANGED <<thread, lock, prOk, cleanup, scripts, hooks, last, foreseen, runs, fatal, exit, main, answers>>
      /\ main = "clean" /\ job.cmds # <<>>
      /\ kernel' = (IF ~broken /\ Succeeds(cmd) THEN Effect(cmd) ELSE kernel)
      /\ job' = [job EXCEPT !.cmds = Tail(job.cmds)]
  BY <1>1 DEF CleanIp, endVars
<1>3. cmd \in Cmds /\ Tail(job.cmds) \in Seq(Cmds) BY <1>1, <1>2 DEF HostInv, HostTypes
<1>4. /\ job' \in [cmds : Seq(Cmds), iface : BOOLEAN, route : BOOLEAN] /\ job'.cmds = Tail(job.cmds)
  BY <1>2, <1>3 DEF HostInv, HostTypes
<1>5. kernel' \subseteq HostObjs BY <1>2, <1>3 DEF Effect, Cmds, HostInv, HostTypes
<1>6. failures' \in Nat /\ (failures' = 0 => failures = 0 /\ ~broken)
  <2>1. CASE broken BY <2>1 DEF CleanIp, Fails, HostInv, HostTypes
  <2>2. CASE ~broken BY <2>2 DEF CleanIp, Fails, HostInv, HostTypes
  <2> QED BY <2>1, <2>2
<1>7. \A u \in Threads : thread[u].pc = "done" BY <1>2 DEF HostInv, LockInv
<1>8. HostTypes' BY <1>2, <1>4, <1>5, <1>6 DEF HostInv, HostTypes
<1>9. LockInv' BY <1>2 DEF HostInv, LockInv
<1>10. RouteInv' BY <1>2, <1>7 DEF RouteInv, RoutingReportTrue
<1>11. HookInv' BY <1>2 DEF HostInv, HookInv
<1>12. CleanInv'
  <2>3. failures' = 0 => Cleaning(job'.cmds, kernel', foreseen', cleanup')
    <3> SUFFICES ASSUME failures' = 0 PROVE Cleaning(job'.cmds, kernel', foreseen', cleanup') OBVIOUS
    <3>1. Cleaning(job.cmds, kernel, foreseen, cleanup) BY <1>2, <1>6 DEF HostInv, CleanInv
    <3>2. Cleaning(Tail(job.cmds), kernel \ {cmd.obj}, foreseen, cleanup) BY <1>1, <1>2, <3>1, DelDone
    <3>3. cmd \in Dels BY <1>1, <1>2, <3>1 DEF Cleaning
    <3>4. kernel' = kernel \ {cmd.obj} BY <1>2, <1>6, <3>3 DEF Dels, Succeeds, Effect
    <3> QED BY <1>2, <1>4, <3>2, <3>4
  <2> QED BY <1>2, <2>3 DEF CleanInv
<1> QED BY <1>8, <1>9, <1>10, <1>11, <1>12 DEF HostInv

LEMMA HookDownKeeps ==
    ASSUME HostInv, NEW ok \in BOOLEAN, HookDown(ok)
    PROVE  HostInv'
<1>1. PICK run \in BOOLEAN : run = (hooks.active /\ "down" \in scripts) OBVIOUS
<1>2. PICK res \in {"ok", "failed"} : res = IF run /\ ~ok THEN "failed" ELSE "ok" OBVIOUS
<1>3. /\ UNCHANGED <<thread, lock, job, kernel, prOk, cleanup, scripts, last, foreseen, fatal, exit, answers, failures>>
      /\ main = "clean" /\ job.cmds = <<>> /\ main' = "exited"
      /\ hooks' = [hooks EXCEPT !.down = res]
      /\ runs' = IF run THEN [runs EXCEPT !.down = runs.down + 1] ELSE runs
  BY <1>1, <1>2 DEF HookDown, bounds
<1>4. /\ hooks' \in [active : BOOLEAN, up : {"unknown", "ok", "failed"}, down : {"unknown", "ok", "failed"}]
      /\ hooks'.active = hooks.active /\ hooks'.up = hooks.up
  BY <1>2, <1>3 DEF HostInv, HostTypes
<1>5. runs.down = 0 BY <1>3 DEF HostInv, HookInv
<1>6. /\ runs' \in [up : Nat, down : Nat] /\ runs'.up = runs.up
      /\ runs'.down <= 1 /\ (run => runs'.down = 1)
  <2>1. CASE run
    <3>1. runs' = [runs EXCEPT !.down = 1] BY <1>3, <1>5, <2>1
    <3> QED BY <3>1 DEF HostInv, HostTypes
  <2>2. CASE ~run BY <1>3, <1>5, <2>2 DEF HostInv, HostTypes
  <2> QED BY <2>1, <2>2
<1>7. \A u \in Threads : thread[u].pc = "done" BY <1>3 DEF HostInv, LockInv
<1>8. HostTypes' BY <1>3, <1>4, <1>6 DEF HostInv, HostTypes
<1>9. LockInv' BY <1>3, <1>7 DEF HostInv, LockInv
<1>10. RouteInv' BY <1>3, <1>7 DEF RouteInv, RoutingReportTrue
<1>11. HookInv'
  <2>1. runs.up = 1 => hooks.active BY DEF HostInv, HookInv
  <2> QED BY <1>1, <1>3, <1>4, <1>6, <2>1 DEF HostInv, HookInv
<1>12. CleanInv'
  <2>1. ASSUME failures = 0 PROVE kernel \subseteq Left(cleanup)
    <3>1. Cleaning(<<>>, kernel, foreseen, cleanup) BY <1>3, <2>1 DEF HostInv, CleanInv
    <3>2. ObjsOf(<<>>) = {} BY DEF ObjsOf
    <3> QED BY <3>1, <3>2 DEF Cleaning
  <2> QED BY <1>3, <2>1 DEF CleanInv
<1> QED BY <1>8, <1>9, <1>10, <1>11, <1>12 DEF HostInv

LEMMA SignalKeeps ==
    ASSUME HostInv, Signal
    PROVE  HostInv'
<1>1. /\ UNCHANGED <<thread, lock, job, kernel, prOk, cleanup, scripts, hooks, last, foreseen, runs, failures>>
      /\ main' = main \/ main' = "killed"
  BY DEF Signal, hostVars, bounds
<1>2. HostTypes' BY <1>1 DEF HostInv, HostTypes
<1>3. LockInv' BY <1>1 DEF HostInv, LockInv
<1>4. RouteInv' BY <1>1 DEF HostInv, RouteInv, RoutingReportTrue
<1>5. HookInv' BY <1>1 DEF HostInv, HookInv
<1>6. CleanInv' BY <1>1 DEF HostInv, CleanInv
<1> QED BY <1>2, <1>3, <1>4, <1>5, <1>6 DEF HostInv

LEMMA HostStep == HostInv /\ [HostNext]_processVars => HostInv'
<1> SUFFICES ASSUME HostInv, [HostNext]_processVars PROVE HostInv' OBVIOUS
<1>1. CASE UNCHANGED processVars
  <2>1. UNCHANGED <<thread, lock, job, kernel, prOk, cleanup, scripts, hooks, last, foreseen, runs, main, failures>>
    BY <1>1 DEF processVars
  <2>2. HostTypes' BY <2>1 DEF HostInv, HostTypes
  <2>3. LockInv' BY <2>1 DEF HostInv, LockInv
  <2>4. RouteInv' BY <2>1 DEF HostInv, RouteInv, RoutingReportTrue
  <2>5. HookInv' BY <2>1 DEF HostInv, HookInv
  <2>6. CleanInv' BY <2>1 DEF HostInv, CleanInv
  <2> QED BY <2>2, <2>3, <2>4, <2>5, <2>6 DEF HostInv
<1>2. ASSUME NEW t \in Threads, ThreadStep(t) PROVE HostInv'
  <2>1. CASE \E gw \in SUBSET Families : Answered(t, gw) BY <2>1, ThreadMoves
  <2>2. CASE LeaveLoop(t) \/ Closed(t) BY <2>2, ThreadMoves
  <2>3. CASE SetUpDone(t) BY <2>3, SetUpDoneKeeps
  <2>4. CASE \E b \in BOOLEAN : SetUpInterface(t, b) BY <2>4, SetUpInterfaceKeeps
  <2>5. CASE \E b \in BOOLEAN : RunIp(t, b) BY <2>5, RunIpKeeps
  <2>6. CASE \E b \in BOOLEAN : HookUp(t, b) BY <2>6, HookUpKeeps
  <2> QED BY <1>2, <2>1, <2>2, <2>3, <2>4, <2>5, <2>6 DEF ThreadStep
<1>3. CASE MainStep
  <2>1. CASE JoinAll BY <2>1, JoinAllKeeps
  <2>2. CASE \E b \in BOOLEAN : CleanIp(b) BY <2>2, CleanIpKeeps
  <2>3. CASE \E b \in BOOLEAN : HookDown(b) BY <2>3, HookDownKeeps
  <2> QED BY <1>3, <2>1, <2>2, <2>3 DEF MainStep
<1>4. CASE Signal BY <1>4, SignalKeeps
<1> QED BY <1>1, <1>2, <1>3, <1>4 DEF HostNext

LEMMA HostInvariant == HostSpec => []HostInv
BY HostInitial, HostStep, PTL DEF HostSpec

\* However many threads set the host up, in whatever order, and whatever the
\* answers said: a process that ends by itself, none of whose commands failed,
\* leaves only default routes of families its first answer had no gateway for,
\* and its cleanup never empties a table while a rule points to it
\* (clean_policy_routing_cmds, on_exit_cleanup and the joins of start_client).
THEOREM HostIsCleaned == HostSpec => []CleansUp
<1>1. HostInv => CleansUp
  <2> SUFFICES ASSUME HostInv, failures = 0 PROVE CleansUp BY DEF CleansUp, Undisturbed
  <2>1. main = "exited" => kernel \subseteq Left(cleanup) BY DEF HostInv, CleanInv
  <2>2. main = "clean" => \A r \in kernel : IsRule(r) =>
            {o \in foreseen : TableOf(o) = TableOf(r) /\ ~IsRule(o)} \subseteq kernel
    BY DEF HostInv, CleanInv, Cleaning
  <2> QED BY <2>1, <2>2 DEF CleansUp, Left
<1> QED BY <1>1, HostInvariant, PTL

\* Between two set-ups a dashboard that says the policy routing is in order
\* says so of the kernel: every rule and route of the latest installation that
\* succeeded is there (setup_policy_routing, dial_and_serve step 6).
THEOREM RoutingIsReported == HostSpec => []RoutingReportTrue
<1>1. HostInv => RoutingReportTrue BY DEF HostInv, RouteInv
<1> QED BY <1>1, HostInvariant, PTL

\* The up hook finds every rule and route of its thread's answer in the kernel,
\* neither hook runs twice, an up is followed by a down before the process ends
\* by itself, and no cleanup begins before every thread is joined
\* (LifecycleHooks in src/hooks.rs, start_client).
THEOREM HooksKeepOrder == HostSpec => []HooksInOrder
<1>1. HostInv => HooksInOrder
  <2> SUFFICES ASSUME HostInv PROVE HooksInOrder OBVIOUS
  <2>1. runs.up <= 1 /\ runs.down <= 1 BY DEF HostInv, HookInv
  <2>2. \A t \in Threads : thread[t].pc = "hook" => Demands(thread[t].gw) \subseteq kernel
    BY DEF HostInv, RouteInv
  <2>3. runs.up = 1 /\ main = "exited" /\ "down" \in scripts => runs.down = 1 BY DEF HostInv, HookInv
  <2>4. main # "join" => \A t \in Threads : thread[t].pc = "done" \/ main = "killed"
    BY DEF HostInv, HostTypes, LockInv
  <2> QED BY <2>1, <2>2, <2>3, <2>4 DEF HooksInOrder
<1> QED BY <1>1, HostInvariant, PTL

-----------------------------------------------------------------------------

(***************************************************************************)
(* The dashboard.                                                          *)
(***************************************************************************)

(* The manager and the login sessions *)

ManagerInv ==
    /\ wanted \subseteq Addrs
    /\ manager \in [todo : SUBSET Addrs, waits : Listeners \cup {Nobody}]

\* A session's hash stands for the credential its login proved.
SessionInv ==
    /\ accepted.proved = accepted.expected
    /\ \A t \in DOMAIN sessions : sessions[t].hash = sessions[t].proved

(* Saves *)

SavePcs == {"open", "write", "rename", "publish"}
Auths == Creds \cup {NoCred, CHOOSE c \in Creds : TRUE}
Whole == [auth : Auths, days : 1..MaxDays]
ListenerStates ==
    [addr : Addrs \cup {NoAddr},
     pc : SavePcs \cup {"none", "bind", "idle", "request", "body", "control"},
     stop : BOOLEAN, expected : Auths, how : Ways \cup {"none"},
     merged : Whole \cup {Partial}, fd : Inodes \cup {0}]

SaveTypes ==
    /\ listener \in [Listeners -> ListenerStates]
    /\ conf \in Whole /\ startAuth \in Auths
    /\ disk \in [file : Inodes, temp : Inodes \cup {0}, data : [Inodes -> Whole \cup {Partial}]]

\* Where the one save there is has got to.
Progressed ==
    /\ \A k, l \in Listeners : Saving(k) /\ Saving(l) => k = l
    /\ \A l \in Listeners :
          /\ Saving(l) => /\ listener[l].merged \in Whole
                          /\ conf.auth # NoCred => listener[l].merged.auth # NoCred
          /\ listener[l].fd # 0 => listener[l].pc = "write"
          /\ listener[l].pc = "write" => listener[l].fd = disk.temp /\ disk.temp # 0
          /\ listener[l].pc = "rename" => disk.temp # 0 /\ disk.data[disk.temp] = listener[l].merged
          /\ listener[l].pc = "publish" => disk.data[disk.file] = listener[l].merged

\* The file between saves and during one.
FileInv ==
    /\ disk.temp # disk.file
    /\ disk.data[disk.file] \in Whole
    /\ (\A l \in Listeners : listener[l].pc # "publish") => disk.data[disk.file] = conf
    /\ guarded => conf.auth # NoCred

SaveInv == ~overlapped => SaveTypes /\ Progressed /\ FileInv

PanelInv == ManagerInv /\ SessionInv /\ SaveInv

LEMMA TwoInodes == {1, 2} \subseteq Inodes /\ Inodes \subseteq Nat \ {0}
<1>1. Cardinality(Listeners) \in Nat BY WebPanelAssumption, FS_CardinalityType
<1> QED BY <1>1 DEF Inodes

LEMMA PartialIsNot == Partial \notin Whole
BY WebPanelAssumption DEF Partial, Whole

LEMMA IdleTyped == Idle \in ListenerStates /\ Idle.pc = "none" /\ Idle.fd = 0
BY DEF Idle, ListenerStates, Auths

LEMMA PanelInitial == Init => PanelInv
<1> SUFFICES ASSUME Init PROVE PanelInv OBVIOUS
<1>0. PanelInit BY DEF Init
<1>1. ManagerInv BY <1>0 DEF PanelInit, ManagerInv
<1>2. SessionInv BY <1>0 DEF PanelInit, SessionInv
<1>3. conf \in Whole /\ startAuth \in Auths BY <1>0 DEF PanelInit, Whole, Auths
<1>4. /\ disk = [file |-> 1, temp |-> 0, data |-> [i \in Inodes |-> conf]]
      /\ listener = [l \in Listeners |-> Idle] /\ guarded = (conf.auth # NoCred)
  BY <1>0 DEF PanelInit
<1>5. disk \in [file : Inodes, temp : Inodes \cup {0}, data : [Inodes -> Whole \cup {Partial}]]
  BY <1>3, <1>4, TwoInodes
<1>6. SaveTypes BY <1>3, <1>4, <1>5, IdleTyped DEF SaveTypes
<1>7. \A l \in Listeners : listener[l].pc = "none" /\ listener[l].fd = 0 BY <1>4, IdleTyped
<1>8. Progressed BY <1>7 DEF Progressed, Saving
<1>9. FileInv BY <1>3, <1>4, TwoInodes DEF FileInv
<1> QED BY <1>1, <1>2, <1>6, <1>8, <1>9 DEF PanelInv, SaveInv

\* A step of a thread that is not saving, or that gives its save up before the
\* file is replaced.
Stays(l) ==
    /\ listener'[l].pc = listener[l].pc /\ listener'[l].merged = listener[l].merged
    /\ listener'[l].fd = listener[l].fd
Quits(l) ==
    listener[l].pc # "publish" /\ listener'[l].pc \notin SavePcs /\ listener'[l].fd = 0

LEMMA Aside ==
    ASSUME SaveInv, UNCHANGED <<conf, startAuth, disk, overlapped, guarded>>,
           ~overlapped => /\ listener' \in [Listeners -> ListenerStates]
                          /\ \A l \in Listeners : Stays(l) \/ Quits(l)
    PROVE  SaveInv'
<1> SUFFICES ASSUME ~overlapped PROVE SaveTypes' /\ Progressed' /\ FileInv'
  BY DEF SaveInv
<1>1. SaveTypes /\ Progressed /\ FileInv BY DEF SaveInv
<1>2. SaveTypes' BY <1>1 DEF SaveTypes
<1>3. \A l \in Listeners : Stays(l) \/ Quits(l) OBVIOUS
<1>4. \A l \in Listeners : Saving(l)' => Stays(l) /\ Saving(l)
  BY <1>3 DEF Stays, Quits, Saving, SavePcs
<1>5. Progressed'
  <2>1. \A k, l \in Listeners : Saving(k)' /\ Saving(l)' => k = l BY <1>1, <1>4 DEF Progressed
  <2>2. ASSUME NEW l \in Listeners
        PROVE  /\ Saving(l)' => /\ listener'[l].merged \in Whole
                                /\ conf.auth # NoCred => listener'[l].merged.auth # NoCred
               /\ listener'[l].fd # 0 => listener'[l].pc = "write"
               /\ listener'[l].pc = "write" => listener'[l].fd = disk.temp /\ disk.temp # 0
               /\ listener'[l].pc = "rename" => disk.temp # 0 /\ disk.data[disk.temp] = listener'[l].merged
               /\ listener'[l].pc = "publish" => disk.data[disk.file] = listener'[l].merged
    <3>1. CASE Stays(l) BY <1>1, <3>1 DEF Stays, Progressed, Saving
    <3>2. CASE Quits(l) BY <3>2 DEF Quits, Saving, SavePcs
    <3> QED BY <1>3, <3>1, <3>2
  <2> QED BY <2>1, <2>2 DEF Progressed
<1>6. FileInv'
  <2>1. \A l \in Listeners : listener'[l].pc # "publish" => listener[l].pc # "publish"
    BY <1>3 DEF Stays, Quits
  <2> QED BY <1>1, <2>1 DEF FileInv
<1> QED BY <1>2, <1>5, <1>6

(* The steps of the manager *)

LEMMA TunnelKeeps ==
    ASSUME PanelInv, NEW S \in SUBSET Addrs, NEW T, TunnelChanges(S, T) \/ GiveUp
    PROVE  PanelInv'
<1>1. UNCHANGED <<conf, startAuth, disk, overlapped, guarded, sessions, accepted, listener>>
  BY DEF TunnelChanges, GiveUp, configVars, sessionVars
<1>2. ManagerInv' BY DEF TunnelChanges, GiveUp, PanelInv, ManagerInv
<1>3. SessionInv' BY <1>1 DEF PanelInv, SessionInv
<1>4. SaveInv'
  <2>1. SaveInv /\ (~overlapped => listener' \in [Listeners -> ListenerStates])
    BY <1>1 DEF PanelInv, SaveInv, SaveTypes
  <2>2. \A l \in Listeners : Stays(l) BY <1>1 DEF Stays
  <2> QED BY <1>1, <2>1, <2>2, Aside
<1> QED BY <1>2, <1>3, <1>4 DEF PanelInv

LEMMA RoundKeeps ==
    ASSUME PanelInv, Round
    PROVE  PanelInv'
<1>1. PICK gone : gone = IF wanted = {} THEN {} ELSE {a \in Addrs \ wanted : adopted[a] # Nobody} OBVIOUS
<1>2. /\ UNCHANGED <<conf, startAuth, disk, overlapped, guarded, sessions, accepted, wanted>>
      /\ listener' = [l \in Listeners |->
                          IF \E a \in gone : adopted[a] = l
                          THEN [listener[l] EXCEPT !.stop = TRUE] ELSE listener[l]]
      /\ manager' = [manager EXCEPT !.todo = {a \in wanted : adopted'[a] = Nobody}]
  BY <1>1 DEF Round, configVars, sessionVars
<1>3. ManagerInv'
  <2>1. PICK todo : todo = {a \in wanted : adopted'[a] = Nobody} OBVIOUS
  <2>2. todo \in SUBSET Addrs BY <2>1 DEF PanelInv, ManagerInv
  <2>3. manager' = [manager EXCEPT !.todo = todo] BY <1>2, <2>1
  <2> QED BY <1>2, <2>2, <2>3 DEF PanelInv, ManagerInv
<1>4. SessionInv' BY <1>2 DEF PanelInv, SessionInv
<1>5. SaveInv'
  <2>1. SaveInv BY DEF PanelInv
  <2>2. ASSUME ~overlapped, NEW l \in Listeners PROVE listener'[l] \in ListenerStates /\ Stays(l)
    <3>1. listener[l] \in ListenerStates BY <2>1, <2>2 DEF SaveInv, SaveTypes
    <3>2. CASE \E a \in gone : adopted[a] = l
      <4>1. listener'[l] = [listener[l] EXCEPT !.stop = TRUE] BY <1>2, <3>2
      <4> QED BY <3>1, <4>1 DEF ListenerStates, Stays
    <3>3. CASE ~ \E a \in gone : adopted[a] = l
      <4>1. listener'[l] = listener[l] BY <1>2, <3>3
      <4> QED BY <3>1, <4>1 DEF Stays
    <3> QED BY <3>2, <3>3
  <2>3. ~overlapped => listener' \in [Listeners -> ListenerStates] BY <1>2, <2>2
  <2> QED BY <1>2, <2>1, <2>2, <2>3, Aside
<1> QED BY <1>3, <1>4, <1>5 DEF PanelInv

\* One thread leaves what it was doing.
LEMMA OneQuits ==
    ASSUME PanelInv, NEW l \in Listeners, NEW r, listener' = [listener EXCEPT ![l] = r],
           UNCHANGED <<conf, startAuth, disk, overlapped, guarded>>,
           ~overlapped => /\ r \in ListenerStates /\ r.fd = 0
                          /\ r.pc \notin SavePcs /\ listener[l].pc # "publish"
    PROVE  SaveInv'
<1>1. SaveInv BY DEF PanelInv
<1>2. ASSUME ~overlapped PROVE /\ listener' \in [Listeners -> ListenerStates]
                               /\ \A k \in Listeners : Stays(k) \/ Quits(k)
  <2>1. listener \in [Listeners -> ListenerStates] BY <1>1, <1>2 DEF SaveInv, SaveTypes
  <2>2. listener'[l] = r /\ \A k \in Listeners : k # l => listener'[k] = listener[k] BY <2>1
  <2>3. Quits(l) BY <1>2, <2>2 DEF Quits
  <2>4. \A k \in Listeners : k # l => Stays(k) BY <2>2 DEF Stays
  <2> QED BY <1>2, <2>1, <2>3, <2>4
<1> QED BY <1>1, <1>2, Aside

LEMMA SpawnKeeps ==
    ASSUME PanelInv, Spawn
    PROVE  PanelInv'
<1>1. PICK a : a = CHOOSE x \in Addrs : x \in manager.todo OBVIOUS
<1>2. PICK l : l = CHOOSE x \in Listeners : Unused(x) OBVIOUS
<1>3. PICK r : r = [Idle EXCEPT !.addr = a, !.pc = "bind"] OBVIOUS
<1>4. /\ UNCHANGED <<conf, startAuth, disk, overlapped, guarded, sessions, accepted, wanted>>
      /\ listener' = [listener EXCEPT ![l] = r] /\ manager' = [todo |-> manager.todo \ {a}, waits |-> l]
      /\ manager.todo # {} /\ \E x \in Listeners : Unused(x)
  BY <1>1, <1>2, <1>3 DEF Spawn, configVars, sessionVars
<1>5. manager.todo \in SUBSET Addrs BY DEF PanelInv, ManagerInv
<1>6. a \in Addrs BY <1>1, <1>4, <1>5
<1>7. l \in Listeners /\ Unused(l) BY <1>2, <1>4
<1>8. r \in ListenerStates /\ r.pc = "bind" /\ r.fd = 0 BY <1>3, <1>6, IdleTyped DEF ListenerStates
<1>9. ManagerInv' BY <1>4, <1>5, <1>7 DEF PanelInv, ManagerInv
<1>10. SessionInv' BY <1>4 DEF PanelInv, SessionInv
<1>11. SaveInv'
  <2>1. listener[l].pc # "publish" BY <1>7 DEF Unused, At
  <2> QED BY <1>4, <1>7, <1>8, <2>1, OneQuits DEF SavePcs
<1> QED BY <1>9, <1>10, <1>11 DEF PanelInv

LEMMA BindKeeps ==
    ASSUME PanelInv, NEW l \in Listeners, Bind(l)
    PROVE  PanelInv'
<1>1. PICK ok \in BOOLEAN : ok = (listener[l].addr \in usable /\ Free(listener[l].addr)) OBVIOUS
<1>2. PICK r : r = IF ok THEN [listener[l] EXCEPT !.pc = "idle"] ELSE Idle OBVIOUS
<1>3. /\ UNCHANGED <<conf, startAuth, disk, overlapped, guarded, sessions, accepted, wanted>>
      /\ listener' = [listener EXCEPT ![l] = r] /\ listener[l].pc = "bind"
      /\ manager' = IF manager.waits = l THEN [manager EXCEPT !.waits = Nobody] ELSE manager
  BY <1>1, <1>2 DEF Bind, At, configVars, sessionVars
<1>4. ManagerInv' BY <1>3 DEF PanelInv, ManagerInv
<1>5. SessionInv' BY <1>3 DEF PanelInv, SessionInv
<1>6. SaveInv'
  <2>1. ASSUME ~overlapped PROVE r \in ListenerStates /\ r.fd = 0 /\ r.pc \notin SavePcs
    <3>1. listener[l] \in ListenerStates /\ listener[l].fd = 0
      BY <1>3, <2>1 DEF PanelInv, SaveInv, SaveTypes, Progressed
    <3>2. CASE ok BY <1>2, <3>1, <3>2 DEF ListenerStates, SavePcs
    <3>3. CASE ~ok BY <1>2, <3>3, IdleTyped DEF SavePcs
    <3> QED BY <3>2, <3>3
  <2> QED BY <1>3, <2>1, OneQuits
<1> QED BY <1>4, <1>5, <1>6 DEF PanelInv

LEMMA EndKeeps ==
    ASSUME PanelInv, NEW l \in Listeners, StopSeen(l) \/ RecvError(l)
    PROVE  PanelInv'
<1>1. /\ UNCHANGED <<conf, startAuth, disk, overlapped, guarded, sessions, accepted, wanted, manager>>
      /\ listener' = [listener EXCEPT ![l] = Idle] /\ listener[l].pc = "idle"
  BY DEF StopSeen, RecvError, At, managerVars, configVars, sessionVars
<1>2. ManagerInv' BY <1>1 DEF PanelInv, ManagerInv
<1>3. SessionInv' BY <1>1 DEF PanelInv, SessionInv
<1>4. SaveInv' BY <1>1, IdleTyped, OneQuits DEF SavePcs
<1> QED BY <1>2, <1>3, <1>4 DEF PanelInv

(* Requests *)

LEMMA ProceedKeeps ==
    ASSUME PanelInv, NEW l \in Listeners, NEW what \in {"idle", "body", "control"}, Proceed(l, what),
           UNCHANGED <<conf, startAuth, disk, overlapped, guarded>>, listener[l].pc # "publish"
    PROVE  SaveInv'
<1>1. PICK r : r = [Idle EXCEPT !.pc = what, !.addr = listener[l].addr, !.stop = listener[l].stop] OBVIOUS
<1>2. listener' = [listener EXCEPT ![l] = r] BY <1>1 DEF Proceed
<1>3. ASSUME ~overlapped PROVE r \in ListenerStates /\ r.fd = 0 /\ r.pc \notin SavePcs
  <2>1. listener[l] \in ListenerStates BY <1>3 DEF PanelInv, SaveInv, SaveTypes
  <2>2. PICK a \in Addrs \cup {NoAddr}, s \in BOOLEAN : a = listener[l].addr /\ s = listener[l].stop
    BY <2>1 DEF ListenerStates
  <2>3. r = [Idle EXCEPT !.pc = what, !.addr = a, !.stop = s] BY <1>1, <2>2
  <2> QED BY <2>3, IdleTyped DEF ListenerStates, SavePcs
<1> QED BY <1>2, <1>3, OneQuits

LEMMA BeginKeeps ==
    ASSUME PanelInv, NEW l \in Listeners, Begin(l)
    PROVE  PanelInv'
<1>1. /\ UNCHANGED <<conf, startAuth, disk, overlapped, guarded, sessions, accepted, wanted, manager>>
      /\ listener' = [listener EXCEPT ![l].pc = "request", ![l].expected = Expected]
      /\ listener[l].pc = "idle"
  BY DEF Begin, At, managerVars, configVars, sessionVars
<1>2. ManagerInv' BY <1>1 DEF PanelInv, ManagerInv
<1>3. SessionInv' BY <1>1 DEF PanelInv, SessionInv
<1>4. SaveInv'
  <2>1. SaveInv BY DEF PanelInv
  <2>2. ASSUME ~overlapped PROVE /\ listener' \in [Listeners -> ListenerStates]
                                 /\ \A k \in Listeners : Stays(k) \/ Quits(k)
    <3>1. listener \in [Listeners -> ListenerStates] BY <2>1, <2>2 DEF SaveInv, SaveTypes
    <3>2. Expected \in Auths BY <2>1, <2>2 DEF SaveInv, SaveTypes, Expected, Whole
    <3>3. PICK r : r = [listener[l] EXCEPT !.pc = "request", !.expected = Expected] OBVIOUS
    <3>4. listener[l].fd = 0 BY <1>1, <2>1, <2>2 DEF SaveInv, Progressed
    <3>5. r \in ListenerStates /\ r.pc = "request" /\ r.fd = 0
      BY <3>1, <3>2, <3>3, <3>4, ZenonT(60) DEF ListenerStates
    <3>6. listener' = [listener EXCEPT ![l] = r] BY <1>1, <3>1, <3>3
    <3>7. listener'[l] = r /\ \A k \in Listeners : k # l => listener'[k] = listener[k] BY <3>1, <3>6
    <3>8. Quits(l) BY <1>1, <3>5, <3>7 DEF Quits, SavePcs
    <3>9. \A k \in Listeners : k # l => Stays(k) BY <3>7 DEF Stays
    <3> QED BY <3>1, <3>5, <3>6, <3>8, <3>9
  <2> QED BY <1>1, <2>1, <2>2, Aside
<1> QED BY <1>2, <1>3, <1>4 DEF PanelInv

LEMMA SomeGo ==
    ASSUME PanelInv, NEW t, sessions' = Without(t)
    PROVE  \A u \in DOMAIN sessions' : sessions'[u].hash = sessions'[u].proved
BY DEF Without, PanelInv, SessionInv

LEMMA LoginKeeps ==
    ASSUME PanelInv, NEW l \in Listeners, NEW c, NEW t, Login(l, c, t) \/ Logout(l, t)
    PROVE  PanelInv'
<1>1. /\ UNCHANGED <<conf, startAuth, disk, overlapped, guarded, accepted, wanted, manager>>
      /\ Proceed(l, "idle") /\ listener[l].pc = "request"
  BY DEF Login, Logout, Answer, At, managerVars, configVars
<1>2. ManagerInv' BY <1>1 DEF PanelInv, ManagerInv
<1>3. SessionInv'
  <2>1. CASE Login(l, c, t)
    <3>1. CASE c = listener[l].expected
      <4>1. sessions' = [u \in DOMAIN sessions \cup {t} |->
                            IF u = t THEN [hash |-> listener[l].expected, proved |-> c] ELSE sessions[u]]
        BY <2>1, <3>1 DEF Login
      <4> QED BY <1>1, <3>1, <4>1 DEF PanelInv, SessionInv
    <3>2. CASE c # listener[l].expected
      <4>1. sessions' = sessions BY <2>1, <3>2 DEF Login
      <4> QED BY <1>1, <4>1 DEF PanelInv, SessionInv
    <3> QED BY <3>1, <3>2
  <2>2. CASE Logout(l, t)
    <3>1. sessions' = Without(t) BY <2>2 DEF Logout
    <3> QED BY <1>1, <3>1, SomeGo DEF PanelInv, SessionInv
  <2> QED BY <2>1, <2>2
<1>4. SaveInv' BY <1>1, ProceedKeeps
<1> QED BY <1>2, <1>3, <1>4 DEF PanelInv

LEMMA ByCookieKeeps ==
    ASSUME PanelInv, NEW l \in Listeners, NEW t, NEW what \in {"idle", "body", "control"},
           ByCookie(l, t, what)
    PROVE  PanelInv'
<1>1. /\ UNCHANGED <<conf, startAuth, disk, overlapped, guarded, wanted, manager>>
      /\ listener[l].pc = "request" /\ t \in DOMAIN sessions
  BY DEF ByCookie, At, managerVars, configVars
<1>2. ManagerInv' BY <1>1 DEF PanelInv, ManagerInv
<1>3. CASE Valid(t, listener[l].expected)
  <2>1. /\ accepted' = [proved |-> sessions[t].proved, expected |-> listener[l].expected]
        /\ Proceed(l, what) /\ sessions' = sessions
    BY <1>3 DEF ByCookie
  <2>2. SessionInv' BY <1>1, <1>3, <2>1 DEF Valid, PanelInv, SessionInv
  <2>3. SaveInv' BY <1>1, <2>1, ProceedKeeps
  <2> QED BY <1>2, <2>2, <2>3 DEF PanelInv
<1>4. CASE ~Valid(t, listener[l].expected)
  <2>1. sessions' = Without(t) /\ Proceed(l, "idle") /\ accepted' = accepted
    BY <1>4 DEF ByCookie, Answer
  <2>2. SessionInv' BY <2>1, SomeGo DEF PanelInv, SessionInv
  <2>3. SaveInv' BY <1>1, <2>1, ProceedKeeps
  <2> QED BY <1>2, <2>2, <2>3 DEF PanelInv
<1> QED BY <1>3, <1>4

LEMMA RequestKeeps ==
    ASSUME PanelInv, NEW l \in Listeners, NEW what \in {"idle", "body", "control"},
           ByCredential(l, what) \/ BodyRefused(l)
    PROVE  PanelInv'
<1>1. /\ UNCHANGED <<conf, startAuth, disk, overlapped, guarded, sessions, accepted, wanted, manager>>
      /\ Proceed(l, what) \/ Proceed(l, "idle")
      /\ listener[l].pc \in {"request", "body", "control"}
  BY DEF ByCredential, BodyRefused, Answer, At, managerVars, configVars, sessionVars
<1>2. ManagerInv' BY <1>1 DEF PanelInv, ManagerInv
<1>3. SessionInv' BY <1>1 DEF PanelInv, SessionInv
<1>4. SaveInv' BY <1>1, ProceedKeeps
<1> QED BY <1>2, <1>3, <1>4 DEF PanelInv

LEMMA ExpireKeeps ==
    ASSUME PanelInv, NEW t, Expire(t)
    PROVE  PanelInv'
<1>1. /\ UNCHANGED <<conf, startAuth, disk, overlapped, guarded, accepted, wanted, manager, listener>>
      /\ sessions' = Without(t)
  BY DEF Expire, managerVars, configVars
<1>2. ManagerInv' BY <1>1 DEF PanelInv, ManagerInv
<1>3. SessionInv' BY <1>1, SomeGo DEF PanelInv, SessionInv
<1>4. SaveInv'
  <2>1. SaveInv /\ (~overlapped => listener' \in [Listeners -> ListenerStates])
    BY <1>1 DEF PanelInv, SaveInv, SaveTypes
  <2>2. \A l \in Listeners : Stays(l) BY <1>1 DEF Stays
  <2> QED BY <1>1, <2>1, <2>2, Aside
<1> QED BY <1>2, <1>3, <1>4 DEF PanelInv

\* Another action of /api/control.
LEMMA ControlKeeps ==
    ASSUME PanelInv, NEW l \in Listeners, NEW k, Control(l, k)
    PROVE  PanelInv'
<1>1. /\ UNCHANGED <<conf, startAuth, disk, overlapped, guarded, sessions, accepted, wanted, manager>>
      /\ listener' = [listener EXCEPT ![l].pc = "idle"] /\ listener[l].pc = "control"
  BY DEF Control, Become, At, managerVars, configVars, sessionVars
<1>2. ManagerInv' BY <1>1 DEF PanelInv, ManagerInv
<1>3. SessionInv' BY <1>1 DEF PanelInv, SessionInv
<1>4. SaveInv'
  <2>1. SaveInv BY DEF PanelInv
  <2>2. ASSUME ~overlapped PROVE /\ listener' \in [Listeners -> ListenerStates]
                                 /\ \A m \in Listeners : Stays(m) \/ Quits(m)
    <3>1. listener \in [Listeners -> ListenerStates] /\ listener[l].fd = 0
      BY <1>1, <2>1, <2>2 DEF SaveInv, SaveTypes, Progressed
    <3>2. PICK r : r = [listener[l] EXCEPT !.pc = "idle"] OBVIOUS
    <3>3. r \in ListenerStates /\ r.pc = "idle" /\ r.fd = 0 BY <3>1, <3>2 DEF ListenerStates
    <3>4. listener' = [listener EXCEPT ![l] = r] BY <1>1, <3>1, <3>2
    <3>5. listener'[l] = r /\ \A m \in Listeners : m # l => listener'[m] = listener[m] BY <3>1, <3>4
    <3>6. Quits(l) BY <1>1, <3>3, <3>5 DEF Quits, SavePcs
    <3>7. \A m \in Listeners : m # l => Stays(m) BY <3>5 DEF Stays
    <3> QED BY <3>1, <3>3, <3>4, <3>6, <3>7
  <2> QED BY <1>1, <2>1, <2>2, Aside
<1> QED BY <1>2, <1>3, <1>4 DEF PanelInv

(* The steps of a save *)

\* What the others do while one listener saves.
LEMMA OthersWait ==
    ASSUME SaveInv, ~overlapped, NEW l \in Listeners, Saving(l), NEW k \in Listeners, k # l
    PROVE  listener[k].pc \notin SavePcs /\ listener[k].fd = 0
BY DEF SaveInv, Progressed, Saving, SavePcs

LEMMA BodyReadKeeps ==
    ASSUME PanelInv, NEW l \in Listeners, NEW cand \in Configs, NEW how \in Ways, BodyRead(l, cand, how)
    PROVE  PanelInv'
<1>1. /\ UNCHANGED <<conf, startAuth, disk, guarded, sessions, accepted, wanted, manager>>
      /\ listener[l].pc = "body"
      /\ listener' = [listener EXCEPT ![l].pc = "open", ![l].how = how, ![l].merged = Merge(cand)]
      /\ overlapped' = (overlapped \/ \E k \in Listeners \ {l} : Saving(k))
  BY DEF BodyRead, At, managerVars, sessionVars
<1>2. ManagerInv' BY <1>1 DEF PanelInv, ManagerInv
<1>3. SessionInv' BY <1>1 DEF PanelInv, SessionInv
<1>4. ASSUME ~overlapped' PROVE SaveTypes' /\ Progressed' /\ FileInv'
  <2>1. /\ SaveTypes /\ Progressed /\ FileInv
        /\ \A k \in Listeners : k # l => ~Saving(k)
    BY <1>1, <1>4 DEF PanelInv, SaveInv
  <2>2. PICK m : m = Merge(cand) OBVIOUS
  <2>3. m \in Whole /\ (conf.auth # NoCred => m.auth # NoCred)
    <3>1. cand \in Whole /\ conf \in Whole BY <2>1 DEF Configs, Whole, Auths, SaveTypes
    <3>2. CASE cand.auth = NoCred
      <4>1. m = [cand EXCEPT !.auth = conf.auth] BY <2>2, <3>2 DEF Merge
      <4> QED BY <3>1, <4>1 DEF Whole
    <3>3. CASE cand.auth # NoCred
      <4>1. m = cand BY <2>2, <3>3 DEF Merge
      <4> QED BY <3>1, <3>3, <4>1
    <3> QED BY <3>2, <3>3
  <2>4. PICK r : r = [listener[l] EXCEPT !.pc = "open", !.how = how, !.merged = m] OBVIOUS
  <2>5. listener \in [Listeners -> ListenerStates] /\ listener[l].fd = 0
    BY <1>1, <2>1 DEF SaveTypes, Progressed
  <2>6. r \in ListenerStates /\ r.pc = "open" /\ r.fd = 0 /\ r.merged = m
    BY <2>3, <2>4, <2>5, ZenonT(60) DEF ListenerStates, SavePcs
  <2>7. listener' = [listener EXCEPT ![l] = r] BY <1>1, <2>2, <2>4, <2>5
  <2>8. listener'[l] = r /\ \A k \in Listeners : k # l => listener'[k] = listener[k] BY <2>5, <2>7
  <2>9. SaveTypes' BY <1>1, <2>1, <2>5, <2>6, <2>7, ZenonT(60) DEF SaveTypes
  <2>10. \A k \in Listeners : Saving(k)' => k = l BY <2>1, <2>8 DEF Saving
  <2>11. Progressed'
    <3>1. ASSUME NEW k \in Listeners
          PROVE  /\ Saving(k)' => /\ listener'[k].merged \in Whole
                                  /\ conf.auth # NoCred => listener'[k].merged.auth # NoCred
                 /\ listener'[k].fd # 0 => listener'[k].pc = "write"
                 /\ listener'[k].pc = "write" => listener'[k].fd = disk.temp /\ disk.temp # 0
                 /\ listener'[k].pc = "rename" =>
                        disk.temp # 0 /\ disk.data[disk.temp] = listener'[k].merged
                 /\ listener'[k].pc = "publish" => disk.data[disk.file] = listener'[k].merged
      <4>1. CASE k = l BY <2>3, <2>6, <2>8, <4>1
      <4>2. CASE k # l BY <2>1, <2>8, <4>2 DEF Progressed, Saving
      <4> QED BY <4>1, <4>2
    <3> QED BY <1>1, <2>10, <3>1 DEF Progressed
  <2>12. FileInv'
    <3>1. \A k \in Listeners : listener[k].pc # "publish" BY <1>1, <2>1 DEF Saving
    <3> QED BY <1>1, <2>1, <3>1 DEF FileInv
  <2> QED BY <2>9, <2>11, <2>12
<1> QED BY <1>2, <1>3, <1>4 DEF PanelInv, SaveInv

LEMMA FreeInode ==
    ASSUME NEW file \in Inodes
    PROVE  Min(Inodes \ {file, 0}) \in Inodes \ {file, 0}
<1>1. PICK S : S = Inodes \ {file, 0} OBVIOUS
<1>2. \E x \in S : \A y \in S : x <= y
  <2>1. CASE file = 1 BY <1>1, <2>1, TwoInodes
  <2>2. CASE file # 1 BY <1>1, <2>2, TwoInodes
  <2> QED BY <2>1, <2>2
<1>3. Min(S) \in S BY <1>2 DEF Min
<1> QED BY <1>1, <1>3

\* The listener that saves goes on to its next step.
LEMMA SaveGoesOn ==
    ASSUME SaveInv, ~overlapped, NEW l \in Listeners, Saving(l), NEW r \in ListenerStates,
           listener' = [listener EXCEPT ![l] = r], r.merged = listener[l].merged, r.pc \in SavePcs,
           UNCHANGED <<conf, startAuth, guarded>>, FileInv',
           disk' \in [file : Inodes, temp : Inodes \cup {0}, data : [Inodes -> Whole \cup {Partial}]],
           r.fd # 0 => r.pc = "write",
           r.pc = "write" => r.fd = disk'.temp /\ disk'.temp # 0,
           r.pc = "rename" => disk'.temp # 0 /\ disk'.data[disk'.temp] = r.merged,
           r.pc = "publish" => disk'.data[disk'.file] = r.merged
    PROVE  SaveInv'
<1>1. SaveTypes /\ Progressed BY DEF SaveInv
<1>2. listener \in [Listeners -> ListenerStates] BY <1>1 DEF SaveTypes
<1>3. listener'[l] = r /\ \A k \in Listeners : k # l => listener'[k] = listener[k] BY <1>2
<1>4. \A k \in Listeners : k # l => listener'[k].pc \notin SavePcs /\ listener'[k].fd = 0
  BY <1>3, OthersWait
<1>5. SaveTypes' BY <1>1, <1>2 DEF SaveTypes
<1>6. listener[l].merged \in Whole /\ (conf.auth # NoCred => listener[l].merged.auth # NoCred)
  BY <1>1 DEF Progressed
<1>7. \A k \in Listeners : Saving(k)' => k = l BY <1>4 DEF Saving, SavePcs
<1>8. Progressed'
  <2>1. ASSUME NEW k \in Listeners
        PROVE  /\ Saving(k)' => /\ listener'[k].merged \in Whole
                                /\ conf.auth # NoCred => listener'[k].merged.auth # NoCred
               /\ listener'[k].fd # 0 => listener'[k].pc = "write"
               /\ listener'[k].pc = "write" => listener'[k].fd = disk'.temp /\ disk'.temp # 0
               /\ listener'[k].pc = "rename" =>
                      disk'.temp # 0 /\ disk'.data[disk'.temp] = listener'[k].merged
               /\ listener'[k].pc = "publish" => disk'.data[disk'.file] = listener'[k].merged
    <3>1. CASE k = l BY <1>3, <1>6, <3>1
    <3>2. CASE k # l BY <1>4, <1>7, <3>2 DEF SavePcs
    <3> QED BY <3>1, <3>2
  <2> QED BY <1>7, <2>1 DEF Progressed
<1> QED BY <1>5, <1>8 DEF SaveInv

LEMMA OpenTempKeeps ==
    ASSUME PanelInv, NEW l \in Listeners, OpenTemp(l)
    PROVE  PanelInv'
<1>1. PICK used : used = {disk.file, disk.temp} \cup {listener[k].fd : k \in Listeners} OBVIOUS
<1>2. PICK inode : inode = IF disk.temp # 0 THEN disk.temp ELSE Min(Inodes \ used) OBVIOUS
<1>3. /\ UNCHANGED <<conf, startAuth, overlapped, guarded, sessions, accepted, wanted, manager>>
      /\ listener[l].pc = "open"
      /\ disk' = [disk EXCEPT !.temp = inode, !.data[inode] = Partial]
      /\ listener' = [listener EXCEPT ![l].pc = "write", ![l].fd = inode]
  BY <1>1, <1>2 DEF OpenTemp, At, managerVars, sessionVars
<1>4. ManagerInv' BY <1>3 DEF PanelInv, ManagerInv
<1>5. SessionInv' BY <1>3 DEF PanelInv, SessionInv
<1>6. ASSUME ~overlapped PROVE SaveInv'
  <2>1. SaveInv /\ SaveTypes /\ Progressed /\ FileInv /\ Saving(l) BY <1>3, <1>6 DEF PanelInv, SaveInv, Saving
  <2>2. inode \in Inodes /\ inode # disk.file /\ inode # 0
    <3>1. CASE disk.temp # 0 BY <1>2, <2>1, <3>1 DEF SaveTypes, FileInv
    <3>2. CASE disk.temp = 0
      <4>1. \A k \in Listeners : listener[k].fd = 0 BY <1>3, <1>6, <2>1, OthersWait DEF Progressed
      <4>2. Inodes \ used = Inodes \ {disk.file, 0} BY <1>1, <3>2, <4>1
      <4>3. disk.file \in Inodes BY <2>1 DEF SaveTypes
      <4>4. inode \in Inodes \ {disk.file, 0} BY <1>2, <3>2, <4>2, <4>3, FreeInode
      <4> QED BY <4>4
    <3> QED BY <3>1, <3>2
  <2>3. PICK d : d = [disk.data EXCEPT ![inode] = Partial] OBVIOUS
  <2>4. d \in [Inodes -> Whole \cup {Partial}] /\ d[disk.file] = disk.data[disk.file]
    BY <2>1, <2>2, <2>3 DEF SaveTypes
  <2>5. disk' = [disk EXCEPT !.temp = inode, !.data = d] BY <1>3, <2>1, <2>3 DEF SaveTypes
  <2>6. /\ disk' \in [file : Inodes, temp : Inodes \cup {0}, data : [Inodes -> Whole \cup {Partial}]]
        /\ disk'.file = disk.file /\ disk'.temp = inode /\ disk'.data = d
    BY <2>1, <2>2, <2>4, <2>5 DEF SaveTypes
  <2>7. listener \in [Listeners -> ListenerStates] BY <2>1 DEF SaveTypes
  <2>8. PICK r : r = [listener[l] EXCEPT !.pc = "write", !.fd = inode] OBVIOUS
  <2>9. /\ r \in ListenerStates /\ r.pc = "write" /\ r.fd = inode /\ r.merged = listener[l].merged
        /\ listener' = [listener EXCEPT ![l] = r]
    BY <1>3, <2>2, <2>7, <2>8 DEF ListenerStates, SavePcs
  <2>10. FileInv'
    <3>1. \A k \in Listeners : listener[k].pc # "publish" BY <1>3, <1>6, <2>1, OthersWait DEF SavePcs
    <3> QED BY <1>3, <2>1, <2>2, <2>4, <2>6, <3>1 DEF FileInv
  <2> QED BY <1>3, <1>6, <2>1, <2>2, <2>6, <2>9, <2>10, SaveGoesOn, ZenonT(60) DEF SavePcs
<1>7. SaveInv' BY <1>3, <1>6 DEF SaveInv
<1> QED BY <1>4, <1>5, <1>7 DEF PanelInv

LEMMA WriteTempKeeps ==
    ASSUME PanelInv, NEW l \in Listeners, NEW ok \in BOOLEAN, WriteTemp(l, ok)
    PROVE  PanelInv'
<1>1. /\ UNCHANGED <<conf, startAuth, overlapped, guarded, sessions, accepted, wanted, manager>>
      /\ listener[l].pc = "write"
  BY DEF WriteTemp, At, managerVars, sessionVars
<1>2. ManagerInv' BY <1>1 DEF PanelInv, ManagerInv
<1>3. SessionInv' BY <1>1 DEF PanelInv, SessionInv
<1>4. CASE ~ok
  <2>1. disk' = disk /\ Proceed(l, "idle") BY <1>4 DEF WriteTemp, Answer
  <2>2. SaveInv' BY <1>1, <2>1, ProceedKeeps
  <2> QED BY <1>2, <1>3, <2>2 DEF PanelInv
<1>5. CASE ok
  <2>0. /\ disk' = [disk EXCEPT !.data[listener[l].fd] = listener[l].merged]
        /\ listener' = [listener EXCEPT ![l].pc = "rename", ![l].fd = 0]
    BY <1>5 DEF WriteTemp
  <2>1. ASSUME ~overlapped PROVE SaveInv'
    <3>1. SaveInv /\ SaveTypes /\ Progressed /\ FileInv /\ Saving(l) BY <1>1, <2>1 DEF PanelInv, SaveInv, Saving
    <3>2. PICK inode, m : inode = listener[l].fd /\ m = listener[l].merged OBVIOUS
    <3>3. inode = disk.temp /\ inode # 0 /\ m \in Whole BY <1>1, <3>1, <3>2 DEF Progressed
    <3>4. inode \in Inodes /\ inode # disk.file BY <3>1, <3>3 DEF SaveTypes, FileInv
    <3>5. PICK d : d = [disk.data EXCEPT ![inode] = m] OBVIOUS
    <3>6. d \in [Inodes -> Whole \cup {Partial}] /\ d[disk.file] = disk.data[disk.file] /\ d[inode] = m
      BY <3>1, <3>3, <3>4, <3>5 DEF SaveTypes
    <3>7. disk' = [disk EXCEPT !.data = d] BY <2>0, <3>1, <3>2, <3>5 DEF SaveTypes
    <3>8. /\ disk' \in [file : Inodes, temp : Inodes \cup {0}, data : [Inodes -> Whole \cup {Partial}]]
          /\ disk'.file = disk.file /\ disk'.temp = inode /\ disk'.data = d
      BY <3>1, <3>3, <3>6, <3>7 DEF SaveTypes
    <3>9. listener \in [Listeners -> ListenerStates] BY <3>1 DEF SaveTypes
    <3>10. PICK r : r = [listener[l] EXCEPT !.pc = "rename", !.fd = 0] OBVIOUS
    <3>11. /\ r \in ListenerStates /\ r.pc = "rename" /\ r.fd = 0 /\ r.merged = listener[l].merged
           /\ listener' = [listener EXCEPT ![l] = r]
      BY <2>0, <3>9, <3>10 DEF ListenerStates, SavePcs
    <3>12. FileInv'
      <4>1. \A k \in Listeners : listener[k].pc # "publish" BY <1>1, <2>1, <3>1, OthersWait DEF SavePcs
      <4> QED BY <1>1, <3>1, <3>4, <3>6, <3>8, <4>1 DEF FileInv
    <3> QED BY <1>1, <2>1, <3>1, <3>2, <3>3, <3>6, <3>8, <3>11, <3>12, SaveGoesOn DEF SavePcs
  <2>2. SaveInv' BY <1>1, <2>1 DEF SaveInv
  <2> QED BY <1>2, <1>3, <2>2 DEF PanelInv
<1> QED BY <1>4, <1>5

LEMMA NobodySaves ==
    ASSUME \A k \in Listeners : listener[k].pc \notin SavePcs /\ listener[k].fd = 0
    PROVE  Progressed
BY DEF Progressed, Saving, SavePcs

\* The end of a save, good or bad: the request is answered.
LEMMA SaveEnds ==
    ASSUME SaveInv, ~overlapped, NEW l \in Listeners, Saving(l), Proceed(l, "idle")
    PROVE  /\ listener' \in [Listeners -> ListenerStates]
           /\ \A k \in Listeners : listener'[k].pc \notin SavePcs /\ listener'[k].fd = 0
<1>1. SaveTypes BY DEF SaveInv
<1>2. listener \in [Listeners -> ListenerStates] BY <1>1 DEF SaveTypes
<1>3. PICK a \in Addrs \cup {NoAddr}, s \in BOOLEAN : a = listener[l].addr /\ s = listener[l].stop
  BY <1>2 DEF ListenerStates
<1>4. PICK r : r = [Idle EXCEPT !.pc = "idle", !.addr = a, !.stop = s] OBVIOUS
<1>5. r \in ListenerStates /\ r.pc = "idle" /\ r.fd = 0 BY <1>4, IdleTyped DEF ListenerStates
<1>6. listener' = [listener EXCEPT ![l] = r] BY <1>3, <1>4 DEF Proceed
<1>7. listener'[l] = r /\ \A k \in Listeners : k # l => listener'[k] = listener[k] BY <1>2, <1>6
<1>8. \A k \in Listeners : k # l => listener[k].pc \notin SavePcs /\ listener[k].fd = 0 BY OthersWait
<1> QED BY <1>2, <1>5, <1>6, <1>7, <1>8 DEF SavePcs

LEMMA RenameTempKeeps ==
    ASSUME PanelInv, NEW l \in Listeners, NEW ok \in BOOLEAN, RenameTemp(l, ok)
    PROVE  PanelInv'
<1>1. /\ UNCHANGED <<conf, startAuth, overlapped, guarded, sessions, accepted, wanted, manager>>
      /\ listener[l].pc = "rename" /\ Rename(l, ok)
  BY DEF RenameTemp, At, managerVars, sessionVars
<1>2. ManagerInv' BY <1>1 DEF PanelInv, ManagerInv
<1>3. SessionInv' BY <1>1 DEF PanelInv, SessionInv
<1>4. ASSUME ~overlapped PROVE SaveInv'
  <2>1. SaveInv /\ SaveTypes /\ Progressed /\ FileInv /\ Saving(l) BY <1>1, <1>4 DEF PanelInv, SaveInv, Saving
  <2>2. disk.temp # 0 /\ disk.data[disk.temp] = listener[l].merged /\ listener[l].merged \in Whole
    BY <1>1, <2>1 DEF Progressed
  <2>3. 0 \notin Inodes BY TwoInodes
  <2>4. CASE ok
    <3>1. /\ disk' = [disk EXCEPT !.file = disk.temp, !.temp = 0]
          /\ listener' = [listener EXCEPT ![l].pc = "publish"]
      BY <1>1, <2>2, <2>4 DEF Rename, Become
    <3>2. /\ disk' \in [file : Inodes, temp : Inodes \cup {0}, data : [Inodes -> Whole \cup {Partial}]]
          /\ disk'.file = disk.temp /\ disk'.temp = 0 /\ disk'.data = disk.data
      BY <2>1, <2>2, <3>1 DEF SaveTypes
    <3>3. listener \in [Listeners -> ListenerStates] BY <2>1 DEF SaveTypes
    <3>4. PICK r : r = [listener[l] EXCEPT !.pc = "publish"] OBVIOUS
    <3>5. listener[l].fd = 0 BY <1>1, <2>1 DEF Progressed
    <3>6. /\ r \in ListenerStates /\ r.pc = "publish" /\ r.fd = 0 /\ r.merged = listener[l].merged
          /\ listener' = [listener EXCEPT ![l] = r] /\ listener'[l] = r
      BY <3>1, <3>3, <3>4, <3>5 DEF ListenerStates, SavePcs
    <3>7. disk'.file \in Inodes BY <2>1, <2>2, <3>2 DEF SaveTypes
    <3>8. FileInv' BY <1>1, <2>1, <2>2, <2>3, <3>2, <3>6, <3>7 DEF FileInv
    <3> QED BY <1>1, <1>4, <2>1, <2>2, <3>2, <3>6, <3>8, SaveGoesOn DEF SavePcs
  <2>5. CASE ~ok
    <3>1. disk' = [disk EXCEPT !.temp = 0] /\ Proceed(l, "idle") BY <1>1, <2>5 DEF Rename, Answer
    <3>2. /\ disk' \in [file : Inodes, temp : Inodes \cup {0}, data : [Inodes -> Whole \cup {Partial}]]
          /\ disk'.file = disk.file /\ disk'.temp = 0 /\ disk'.data = disk.data
      BY <2>1, <3>1 DEF SaveTypes
    <3>3. /\ listener' \in [Listeners -> ListenerStates]
          /\ \A k \in Listeners : listener'[k].pc \notin SavePcs /\ listener'[k].fd = 0
      BY <1>4, <2>1, <3>1, SaveEnds
    <3>4. SaveTypes' BY <1>1, <2>1, <3>2, <3>3 DEF SaveTypes
    <3>5. Progressed' BY <3>3 DEF Progressed, Saving, SavePcs
    <3>6. \A k \in Listeners : listener[k].pc # "publish" BY <1>1, <1>4, <2>1, OthersWait DEF SavePcs
    <3>7. disk.file \in Inodes BY <2>1 DEF SaveTypes
    <3>8. FileInv' BY <1>1, <2>1, <2>3, <3>2, <3>6, <3>7 DEF FileInv
    <3> QED BY <3>4, <3>5, <3>8 DEF SaveInv
  <2> QED BY <2>4, <2>5
<1>5. SaveInv' BY <1>1, <1>4 DEF SaveInv
<1> QED BY <1>2, <1>3, <1>5 DEF PanelInv

LEMMA PublishKeeps ==
    ASSUME PanelInv, NEW l \in Listeners, Publish(l)
    PROVE  PanelInv'
<1>1. /\ UNCHANGED <<startAuth, disk, overlapped, sessions, accepted, wanted, manager>>
      /\ listener[l].pc = "publish" /\ Proceed(l, "idle")
      /\ conf' = listener[l].merged /\ guarded' = (guarded \/ listener[l].merged.auth # NoCred)
  BY DEF Publish, At, Answer, managerVars, sessionVars
<1>2. ManagerInv' BY <1>1 DEF PanelInv, ManagerInv
<1>3. SessionInv' BY <1>1 DEF PanelInv, SessionInv
<1>4. ASSUME ~overlapped PROVE SaveInv'
  <2>1. SaveInv /\ SaveTypes /\ Progressed /\ FileInv /\ Saving(l) BY <1>1, <1>4 DEF PanelInv, SaveInv, Saving
  <2>2. /\ listener[l].merged \in Whole /\ disk.data[disk.file] = listener[l].merged
        /\ conf.auth # NoCred => listener[l].merged.auth # NoCred
    BY <1>1, <2>1 DEF Progressed
  <2>3. /\ listener' \in [Listeners -> ListenerStates]
        /\ \A k \in Listeners : listener'[k].pc \notin SavePcs /\ listener'[k].fd = 0
    BY <1>1, <1>4, <2>1, SaveEnds
  <2>4. SaveTypes' BY <1>1, <2>1, <2>2, <2>3 DEF SaveTypes
  <2>5. Progressed' BY <2>3 DEF Progressed, Saving, SavePcs
  <2>6. FileInv' BY <1>1, <2>1, <2>2 DEF FileInv
  <2> QED BY <2>4, <2>5, <2>6 DEF SaveInv
<1>5. SaveInv' BY <1>1, <1>4 DEF SaveInv
<1> QED BY <1>2, <1>3, <1>5 DEF PanelInv

LEMMA RestartKeeps ==
    ASSUME PanelInv, PanelRestarts
    PROVE  PanelInv'
<1>1. PICK saved : saved = disk.data[disk.file] OBVIOUS
<1>2. /\ UNCHANGED <<wanted, accepted, overlapped, guarded>>
      /\ conf' = saved /\ startAuth' = saved.auth /\ disk' = [disk EXCEPT !.temp = 0]
      /\ sessions' = [t \in {} |-> NoCred] /\ listener' = [l \in Listeners |-> Idle]
      /\ manager' = [todo |-> {}, waits |-> Nobody]
  BY <1>1 DEF PanelRestarts
<1>3. ManagerInv' BY <1>2 DEF PanelInv, ManagerInv
<1>4. SessionInv' BY <1>2 DEF PanelInv, SessionInv
<1>5. ASSUME ~overlapped PROVE SaveInv'
  <2>1. SaveTypes /\ Progressed /\ FileInv BY <1>5 DEF PanelInv, SaveInv
  <2>2. /\ disk' \in [file : Inodes, temp : Inodes \cup {0}, data : [Inodes -> Whole \cup {Partial}]]
        /\ disk'.file = disk.file /\ disk'.temp = 0 /\ disk'.data = disk.data
    BY <1>2, <2>1 DEF SaveTypes
  <2>3. saved \in Whole BY <1>1, <2>1 DEF FileInv
  <2>4. guarded => saved.auth # NoCred
    <3>1. CASE \A l \in Listeners : listener[l].pc # "publish" BY <1>1, <2>1, <3>1 DEF FileInv
    <3>2. ASSUME NEW l \in Listeners, listener[l].pc = "publish" PROVE guarded => saved.auth # NoCred
      BY <1>1, <2>1, <3>2 DEF FileInv, Progressed, Saving
    <3> QED BY <3>1, <3>2
  <2>5. \A k \in Listeners : listener'[k].pc \notin SavePcs /\ listener'[k].fd = 0
    BY <1>2, IdleTyped DEF SavePcs
  <2>6. SaveTypes' BY <1>2, <2>2, <2>3, IdleTyped DEF SaveTypes, Whole
  <2>7. Progressed' BY <2>5 DEF Progressed, Saving, SavePcs
  <2>8. disk.file \in Inodes /\ 0 \notin Inodes BY <2>1, TwoInodes DEF SaveTypes
  <2>9. FileInv' BY <1>1, <1>2, <2>2, <2>3, <2>4, <2>8 DEF FileInv
  <2> QED BY <2>6, <2>7, <2>9 DEF SaveInv
<1>6. SaveInv' BY <1>2, <1>5 DEF SaveInv
<1> QED BY <1>3, <1>4, <1>6 DEF PanelInv

(* The whole *)

LEMMA PanelUnchanged ==
    ASSUME PanelInv, UNCHANGED panelVars
    PROVE  PanelInv'
<1>1. UNCHANGED <<conf, startAuth, disk, overlapped, guarded, sessions, accepted, wanted, manager, listener>>
  BY DEF panelVars, managerVars, configVars, sessionVars
<1>2. ManagerInv' BY <1>1 DEF PanelInv, ManagerInv
<1>3. SessionInv' BY <1>1 DEF PanelInv, SessionInv
<1>4. SaveInv'
  <2>1. SaveInv /\ (~overlapped => listener' \in [Listeners -> ListenerStates])
    BY <1>1 DEF PanelInv, SaveInv, SaveTypes
  <2>2. \A l \in Listeners : Stays(l) BY <1>1 DEF Stays
  <2> QED BY <1>1, <2>1, <2>2, Aside
<1> QED BY <1>2, <1>3, <1>4 DEF PanelInv

LEMMA ServeKeeps ==
    ASSUME PanelInv, NEW l \in Listeners, Serve(l), budget.ways \subseteq Ways
    PROVE  PanelInv'
<1>1. ASSUME NEW c \in Creds, NEW t \in Tokens, Login(l, c, t) PROVE PanelInv' BY <1>1, LoginKeeps
<1>2. ASSUME NEW t \in Tokens, Logout(l, t) PROVE PanelInv' BY <1>2, LoginKeeps
<1>3. ASSUME NEW what \in {"idle", "body", "control"},
             ByCredential(l, what) \/ \E t \in Tokens : ByCookie(l, t, what)
      PROVE  PanelInv'
  BY <1>3, RequestKeeps, ByCookieKeeps
<1>4. CASE BodyRefused(l) BY <1>4, RequestKeeps
<1>5. ASSUME NEW cand \in Configs, NEW how \in budget.ways, BodyRead(l, cand, how) PROVE PanelInv'
  BY <1>5, BodyReadKeeps
<1>6. CASE OpenTemp(l) \/ WriteTemp(l, TRUE) \/ RenameTemp(l, TRUE)
  BY <1>6, OpenTempKeeps, WriteTempKeeps, RenameTempKeeps
<1> QED BY <1>1, <1>2, <1>3, <1>4, <1>5, <1>6 DEF Serve

LEMMA SpendKeeps ==
    ASSUME budget \in Allowances, NEW side \in {"tunnel", "panel", "stats"}, Spend(side)
    PROVE  budget' \in Allowances
<1>1. budget[side] > 0 /\ budget' = [budget EXCEPT ![side] = budget[side] - 1] BY DEF Spend
<1>2. CASE side = "tunnel" BY <1>1, <1>2 DEF Allowances
<1>3. CASE side = "panel" BY <1>1, <1>3 DEF Allowances
<1>4. CASE side = "stats" BY <1>1, <1>4 DEF Allowances
<1> QED BY <1>2, <1>3, <1>4

LEMMA BudgetKeeps == budget \in Allowances /\ [Next]_vars => budget' \in Allowances
<1> SUFFICES ASSUME budget \in Allowances, [Next]_vars PROVE budget' \in Allowances OBVIOUS
<1>1. \/ UNCHANGED budget
      \/ \E side \in {"tunnel", "panel", "stats"} : Spend(side)
  BY DEF Next, PanelStep, StatsStep, Restart, vars
<1> QED BY <1>1, SpendKeeps

LEMMA PanelStepKeeps ==
    ASSUME PanelInv, budget \in Allowances, PanelStep
    PROVE  PanelInv'
<1>0. budget.ways \subseteq Ways BY DEF Allowances
<1>1. CASE TunnelEvent
  <2>1. CASE \E S, T \in SUBSET Addrs : TunnelChanges(S, T) BY <2>1, TunnelKeeps
  <2>2. CASE GiveUp BY <2>2, TunnelKeeps
  <2>3. CASE \E l \in Listeners : RecvError(l) BY <2>3, EndKeeps
  <2> QED BY <1>1, <2>1, <2>2, <2>3 DEF TunnelEvent
<1>2. CASE RequestEvent
  <2>1. CASE \E t \in Tokens : Expire(t) BY <2>1, ExpireKeeps
  <2>2. ASSUME NEW l \in Listeners, Begin(l) \/ WriteTemp(l, FALSE) \/ RenameTemp(l, FALSE) PROVE PanelInv'
    BY <2>2, BeginKeeps, WriteTempKeeps, RenameTempKeeps
  <2> QED BY <1>2, <2>1, <2>2 DEF RequestEvent
<1>3. CASE ManagerStep BY <1>3, RoundKeeps, SpawnKeeps, BindKeeps DEF ManagerStep
<1>4. ASSUME NEW l \in Listeners, Serve(l) \/ StopSeen(l) PROVE PanelInv'
  BY <1>0, <1>4, ServeKeeps, EndKeeps
<1>5. ASSUME NEW l \in Listeners, SaveDone(l) \/ \E k \in SUBSET Clients : Control(l, k) PROVE PanelInv'
  <2>1. CASE SaveDone(l) BY <2>1, PublishKeeps DEF SaveDone
  <2>2. CASE \E k \in SUBSET Clients : Control(l, k) BY <2>2, ControlKeeps
  <2> QED BY <1>5, <2>1, <2>2
<1> QED BY <1>1, <1>2, <1>3, <1>4, <1>5 DEF PanelStep

DashboardInv == PanelInv /\ budget \in Allowances

LEMMA DashboardStep == DashboardInv /\ [Next]_vars => DashboardInv'
<1> SUFFICES ASSUME PanelInv, budget \in Allowances, [Next]_vars PROVE PanelInv'
  BY BudgetKeeps DEF DashboardInv
<1>1. CASE UNCHANGED vars BY <1>1, PanelUnchanged DEF vars
<1>2. CASE PanelStep BY <1>2, PanelStepKeeps
<1>3. CASE StatsStep BY <1>3, PanelUnchanged DEF StatsStep
<1>4. CASE Restart BY <1>4, RestartKeeps DEF Restart
<1> QED BY <1>1, <1>2, <1>3, <1>4 DEF Next

LEMMA PanelInvariant == Spec => []PanelInv
<1>1. Init => DashboardInv BY PanelInitial, DashboardAssumption DEF Init, DashboardInv
<1>2. DashboardInv => PanelInv BY DEF DashboardInv
<1> QED BY <1>1, <1>2, DashboardStep, PTL DEF Spec

\* For any addresses, listeners, credentials and requests that run side by
\* side: a cookie opens the panel only for a request that expects the credential
\* its login proved, and a panel that once had a credential has one, over saves,
\* failed saves and restarts at any point of a save, unless two saves ran side
\* by side (SessionStore, dashboard_authenticated, merge_preserving_secrets).
THEOREM PanelStaysGuarded == Spec => []StaysGuarded
<1>1. PanelInv => StaysGuarded
  <2> SUFFICES ASSUME PanelInv PROVE StaysGuarded OBVIOUS
  <2>1. accepted.proved = accepted.expected BY DEF PanelInv, SessionInv
  <2>2. guarded /\ ~overlapped => conf.auth # NoCred BY DEF PanelInv, SaveInv, FileInv
  <2> QED BY <2>1, <2>2 DEF StaysGuarded, Expected
<1> QED BY <1>1, PanelInvariant, PTL

\* Unless two saves ran side by side the configuration file is whole at every
\* moment, and outside the step from rename to replace_config it is the
\* configuration in memory, whichever step of a save failed and wherever the
\* process was started again (atomic_write_json, replace_config).
THEOREM ConfigIsDurable == Spec => []ConfigDurable
<1>1. PanelInv => ConfigDurable
  <2> SUFFICES ASSUME PanelInv, ~overlapped
               PROVE  /\ disk.data[disk.file] # Partial
                      /\ (\A l \in Listeners : ~At(l, "publish")) => conf = disk.data[disk.file]
    BY DEF ConfigDurable
  <2>1. FileInv BY DEF PanelInv, SaveInv
  <2>2. disk.data[disk.file] # Partial BY <2>1, PartialIsNot DEF FileInv
  <2> QED BY <2>1, <2>2 DEF FileInv, At
<1> QED BY <1>1, PanelInvariant, PTL

(* The events *)

\* A set of naturals that is not empty has a least element.
LEMMA NatLeast ==
    ASSUME NEW T \in SUBSET Nat, T # {}
    PROVE  \E n \in T : \A m \in T : n <= m
<1> DEFINE R == OpToRel(<, Nat)
<1>1. IsWellFoundedOn(R, Nat) BY NatLessThanWellFounded
<1>2. \A x, y \in Nat : x < y => <<x, y>> \in R BY DEF OpToRel
<1> HIDE DEF R
<1>3. \E x \in T : \A y \in T : ~ (<<y, x>> \in R) BY <1>1, WFMin
<1>4. PICK x \in T : \A y \in T : ~ (<<y, x>> \in R) BY <1>3
<1>5. \A y \in T : x <= y
  <2> TAKE y \in T
  <2>1. x \in Nat /\ y \in Nat OBVIOUS
  <2>2. ~(y < x) BY <1>2, <1>4, <2>1
  <2> QED BY <2>1, <2>2
<1> QED BY <1>5

\* A set with 0 that is closed under successor has every natural number.
LEMMA Induction ==
    ASSUME NEW T, 0 \in T, \A n \in Nat : n \in T => n + 1 \in T
    PROVE  Nat \subseteq T
<1> SUFFICES ASSUME Nat \ T # {} PROVE FALSE
  OBVIOUS
<1>1. PICK n \in Nat \ T : \A m \in Nat \ T : n <= m BY NatLeast
<1>2. n # 0 /\ n - 1 \in Nat /\ n - 1 \in T /\ (n - 1) + 1 = n BY <1>1
<1> QED BY <1>1, <1>2

MaxOf(x, y) == IF x > y THEN x ELSE y

\* The numbers after m, up to and with top.
RestFrom(m, top, s) ==
    /\ s \in Seq(Nat)
    /\ Len(s) = IF top > m THEN top - m ELSE 0
    /\ \A i \in DOMAIN s : s[i] = m + i

\* What is later in a ring of consecutive events: the rest of them, from the
\* given one or from the first there is.
LEMMA LaterForm ==
    ASSUME NEW base \in Nat, NEW r \in Seq(Nat), \A i \in DOMAIN r : r[i] = base + i,
           NEW after \in Nat, NEW m \in Nat, m = MaxOf(after, base)
    PROVE  RestFrom(m, base + Len(r), Later(r, after))
<1> USE DEF MaxOf
<1> DEFINE Item(acc, n) == IF r[n] > after THEN Append(acc, r[n]) ELSE acc
           Steps(F, k) == F = [n \in 0..k |-> IF n = 0 THEN <<>> ELSE Item(F[n - 1], n)]
           T == {k \in Nat : \E F : Steps(F, k)}
<1>0. Len(r) \in Nat /\ DOMAIN r = 1..Len(r) OBVIOUS
<1>1. \E F : Steps(F, Len(r))
  <2> HIDE DEF Item
  <2>1. 0 \in T
    <3>1. Steps([n \in 0..0 |-> <<>>], 0) OBVIOUS
    <3> QED BY <3>1
  <2>2. ASSUME NEW k \in Nat, k \in T PROVE k + 1 \in T
    <3>1. PICK F : Steps(F, k) BY <2>2
    <3> DEFINE G == [n \in 0..k + 1 |-> IF n = k + 1 THEN Item(F[k], n) ELSE F[n]]
               H == [n \in 0..k + 1 |-> IF n = 0 THEN <<>> ELSE Item(G[n - 1], n)]
    <3>2. ASSUME NEW n \in 0..k + 1 PROVE G[n] = H[n]
      <4>1. CASE n = 0 BY <3>1, <4>1
      <4>2. CASE n = k + 1
        <5>1. G[n - 1] = F[k] BY <4>2
        <5> QED BY <4>2, <5>1
      <4>3. CASE n \in 1..k
        <5>1. G[n - 1] = F[n - 1] /\ G[n] = F[n] BY <4>3
        <5>2. F[n] = Item(F[n - 1], n) BY <3>1, <4>3
        <5> QED BY <4>3, <5>1, <5>2
      <4> QED BY <4>1, <4>2, <4>3
    <3>3. G = H BY <3>2
    <3>4. Steps(G, k + 1) BY <3>3
    <3> HIDE DEF Steps, G, H
    <3> QED BY <3>4
  <2> HIDE DEF Steps
  <2>3. Nat \subseteq T
    <3> HIDE DEF T
    <3> QED BY <2>1, <2>2, Induction
  <2> QED BY <1>0, <2>3
<1> DEFINE F == CHOOSE g : Steps(g, Len(r))
<1>2. Steps(F, Len(r))
  <2> HIDE DEF Steps
  <2> QED BY <1>1
<1>3. Later(r, after) = F[Len(r)] BY DEF Later
<1> HIDE DEF F
<1> DEFINE Good(t, n) == /\ t \in Seq(Nat)
                         /\ Len(t) = IF base + n > m THEN base + n - m ELSE 0
                         /\ \A i \in DOMAIN t : t[i] = m + i
           U == {n \in Nat : n <= Len(r) => Good(F[n], n)}
<1>4. 0 \in U
  <2>1. F[0] = <<>> BY <1>0, <1>2
  <2>2. ~(base + 0 > m) OBVIOUS
  <2>3. <<>> \in Seq(Nat) /\ Len(<<>>) = 0 /\ DOMAIN <<>> = {} OBVIOUS
  <2>4. Good(<<>>, 0) BY <2>2, <2>3
  <2> HIDE DEF Good
  <2> QED BY <2>1, <2>4
<1>5. ASSUME NEW n \in Nat, n \in U PROVE n + 1 \in U
  <2> SUFFICES ASSUME n + 1 <= Len(r) PROVE Good(F[n + 1], n + 1) OBVIOUS
  <2>1. PICK t : t = F[n] OBVIOUS
  <2>2. Good(t, n) BY <1>0, <1>5, <2>1
  <2>3. F[n + 1] = Item(t, n + 1)
    <3>1. n + 1 \in 0..Len(r) /\ n + 1 # 0 /\ n + 1 - 1 = n BY <1>0
    <3> HIDE DEF Item
    <3> QED BY <1>2, <2>1, <3>1
  <2>4. r[n + 1] = base + n + 1
    <3>1. n + 1 \in DOMAIN r /\ base + (n + 1) = base + n + 1 BY <1>0
    <3> QED BY <3>1
  <2>5. CASE base + n + 1 > after
    <3>1. F[n + 1] = Append(t, base + n + 1) BY <2>3, <2>4, <2>5
    <3>2. Len(t) = base + n - m /\ base + n + 1 > m BY <2>2, <2>5
    <3>3. PICK u : u = Append(t, base + n + 1) OBVIOUS
    <3>4. u \in Seq(Nat) /\ Len(u) = base + n + 1 - m
      <4>1. t \in Seq(Nat) /\ base + n + 1 \in Nat BY <2>2
      <4>2. u \in Seq(Nat) /\ Len(u) = Len(t) + 1 BY <3>3, <4>1
      <4> QED BY <3>2, <4>2
    <3>5. \A i \in DOMAIN u : u[i] = m + i
      <4> SUFFICES ASSUME NEW i \in DOMAIN u PROVE u[i] = m + i OBVIOUS
      <4>1. CASE i \in DOMAIN t BY <2>2, <3>3, <4>1
      <4>2. CASE i \notin DOMAIN t
        <5>1. i = Len(t) + 1 BY <2>2, <3>3, <4>2
        <5>2. u[i] = base + n + 1 BY <2>2, <3>3, <5>1
        <5> QED BY <3>2, <5>1, <5>2
      <4> QED BY <4>1, <4>2
    <3> QED BY <3>1, <3>2, <3>3, <3>4, <3>5, SMTT(30)
  <2>6. CASE ~(base + n + 1 > after)
    <3>1. F[n + 1] = t BY <2>3, <2>4, <2>6
    <3>2. Len(t) = 0 /\ ~(base + n + 1 > m) BY <2>2, <2>6
    <3> QED BY <2>2, <3>1, <3>2
  <2> QED BY <2>5, <2>6
<1>6. Nat \subseteq U
  <2> HIDE DEF U
  <2> QED BY <1>4, <1>5, Induction
<1>7. Good(F[Len(r)], Len(r)) BY <1>0, <1>6
<1> QED BY <1>3, <1>7 DEF RestFrom

\* What a browser is still to be given, when the latest event is seq.
Flow(seen, p, full, seq) ==
    /\ p \in Seq(Nat) /\ seen <= seq
    /\ \A i \in DOMAIN p : seen < p[i] /\ p[i] <= seq
    /\ \A i, j \in DOMAIN p : i < j => p[i] < p[j]
    /\ ~full => Len(p) = seq - seen /\ \A i \in DOMAIN p : p[i] = seen + i

LEMMA FlowSent ==
    ASSUME NEW seen \in Nat, NEW p, NEW full \in BOOLEAN, NEW seq \in Nat, Flow(seen, p, full, seq)
    PROVE  Flow(seen, Append(p, seq + 1), full, seq + 1)
<1>1. p \in Seq(Nat) /\ Len(p) \in Nat BY DEF Flow
<1>2. PICK u : u = Append(p, seq + 1) OBVIOUS
<1>3. u \in Seq(Nat) /\ Len(u) = Len(p) + 1 BY <1>1, <1>2
<1>4. /\ \A i \in DOMAIN u : i \in DOMAIN p \/ i = Len(p) + 1
      /\ \A i \in DOMAIN p : u[i] = p[i] /\ i < Len(p) + 1 /\ i \in Nat
      /\ u[Len(p) + 1] = seq + 1
  BY <1>1, <1>2
<1>5. ASSUME NEW i \in DOMAIN u PROVE seen < u[i] /\ u[i] <= seq + 1
  <2>1. CASE i \in DOMAIN p
    <3>1. p[i] \in Nat /\ seen < p[i] /\ p[i] <= seq BY <1>1, <2>1 DEF Flow
    <3> QED BY <1>4, <2>1, <3>1
  <2>2. CASE i = Len(p) + 1 BY <1>4, <2>2 DEF Flow
  <2> QED BY <1>4, <1>5, <2>1, <2>2
<1>6. ASSUME NEW i \in DOMAIN u, NEW j \in DOMAIN u, i < j PROVE u[i] < u[j]
  <2>1. i \in DOMAIN p BY <1>1, <1>3, <1>4, <1>6
  <2>2. CASE j \in DOMAIN p BY <1>4, <1>6, <2>1, <2>2 DEF Flow
  <2>3. CASE j = Len(p) + 1
    <3>1. p[i] \in Nat /\ p[i] <= seq BY <1>1, <2>1 DEF Flow
    <3> QED BY <1>4, <2>1, <2>3, <3>1
  <2> QED BY <1>4, <1>6, <2>2, <2>3
<1>7. ASSUME ~full PROVE Len(u) = seq + 1 - seen /\ \A i \in DOMAIN u : u[i] = seen + i
  <2>1. Len(p) = seq - seen /\ \A i \in DOMAIN p : p[i] = seen + i BY <1>7 DEF Flow
  <2>2. seen + (Len(p) + 1) = seq + 1 BY <2>1
  <2> QED BY <1>3, <1>4, <2>1, <2>2
<1>8. seen <= seq + 1 BY DEF Flow
<1> QED BY <1>2, <1>3, <1>5, <1>6, <1>7, <1>8 DEF Flow

LEMMA FlowLost ==
    ASSUME NEW seen \in Nat, NEW p, NEW full \in BOOLEAN, NEW seq \in Nat, Flow(seen, p, full, seq)
    PROVE  Flow(seen, p, TRUE, seq + 1)
<1>1. \A i \in DOMAIN p : p[i] \in Nat BY DEF Flow
<1> QED BY <1>1 DEF Flow

LEMMA FlowTaken ==
    ASSUME NEW seen \in Nat, NEW p, NEW full \in BOOLEAN, NEW seq \in Nat, Flow(seen, p, full, seq), p # <<>>
    PROVE  Head(p) \in Nat /\ Flow(Head(p), Tail(p), full, seq)
<1>1. p \in Seq(Nat) BY DEF Flow
<1>2. PICK u, h : u = Tail(p) /\ h = Head(p) OBVIOUS
<1>3. /\ u \in Seq(Nat) /\ Len(u) = Len(p) - 1 /\ 1 \in DOMAIN p /\ h = p[1] /\ h \in Nat
      /\ \A i \in DOMAIN u : i + 1 \in DOMAIN p /\ u[i] = p[i + 1] /\ 1 < i + 1 /\ i \in Nat
  BY <1>1, <1>2
<1>4. h <= seq /\ \A i \in DOMAIN u : h < u[i] /\ u[i] <= seq BY <1>3 DEF Flow
<1>5. ASSUME NEW i \in DOMAIN u, NEW j \in DOMAIN u, i < j PROVE u[i] < u[j]
  <2>1. i + 1 < j + 1 BY <1>3, <1>5
  <2> QED BY <1>3, <2>1 DEF Flow
<1>6. ASSUME ~full PROVE Len(u) = seq - h /\ \A i \in DOMAIN u : u[i] = h + i
  <2>1. Len(p) = seq - seen /\ \A i \in DOMAIN p : p[i] = seen + i BY <1>6 DEF Flow
  <2>2. h = seen + 1 BY <1>3, <2>1
  <2> QED BY <1>3, <2>1, <2>2
<1> QED BY <1>2, <1>3, <1>4, <1>5, <1>6 DEF Flow

StreamStates == [on : BOOLEAN, seen : Nat, ahead : BOOLEAN, backlog : Seq(Nat), chan : Seq(Nat), full : BOOLEAN]

Flows(s, seq) == s \in StreamStates /\ (s.on => Flow(s.seen, s.backlog \o s.chan, s.full, seq))

\* The ring has the latest events, one after the other.
RingInv(h) ==
    /\ h \in [seq : Nat, ring : Seq(Nat)]
    /\ Len(h.ring) <= h.seq
    /\ \A i \in DOMAIN h.ring : h.ring[i] = h.seq - Len(h.ring) + i

EventInv ==
    /\ RingInv(hub)
    /\ stream \in [Browsers -> StreamStates]
    /\ \A b \in Browsers : Flows(stream[b], hub.seq)

LEMMA NoStreamFlows == NoStream \in StreamStates /\ ~NoStream.on
BY DEF NoStream, StreamStates

LEMMA EventInitial == Init => EventInv
<1> SUFFICES ASSUME Init PROVE EventInv OBVIOUS
<1>1. hub = [seq |-> 0, ring |-> <<>>] /\ stream = [b \in Browsers |-> NoStream] BY DEF Init, StatsInit
<1>2. RingInv(hub) BY <1>1 DEF RingInv
<1> QED BY <1>1, <1>2, NoStreamFlows DEF EventInv, Flows

LEMMA SentFlows ==
    ASSUME NEW s, NEW seq \in Nat, Flows(s, seq)
    PROVE  Flows(Sent(s, seq + 1), seq + 1)
<1>1. s \in StreamStates BY DEF Flows
<1>2. PICK t : t = Sent(s, seq + 1) OBVIOUS
<1>3. CASE ~s.on
  <2>1. t = s BY <1>2, <1>3 DEF Sent
  <2> QED BY <1>1, <1>2, <1>3, <2>1 DEF Flows
<1>4. CASE s.on /\ Len(s.chan) < StreamCap
  <2>0. PICK w \in Seq(Nat) : w = Append(s.chan, seq + 1)
    <3>1. PICK c \in Seq(Nat) : c = s.chan BY <1>1 DEF StreamStates
    <3>2. Append(c, seq + 1) \in Seq(Nat) OBVIOUS
    <3> QED BY <3>1, <3>2
  <2>1. t = [s EXCEPT !.chan = w] BY <1>2, <1>4, <2>0 DEF Sent
  <2>2. t \in StreamStates /\ t.seen = s.seen /\ t.full = s.full BY <1>1, <2>1 DEF StreamStates
  <2>3. t.backlog = s.backlog /\ t.chan = Append(s.chan, seq + 1) BY <1>1, <2>0, <2>1 DEF StreamStates
  <2>4. PICK a \in Seq(Nat), c \in Seq(Nat) : a = s.backlog /\ c = s.chan BY <1>1 DEF StreamStates
  <2>5. a \o Append(c, seq + 1) = Append(a \o c, seq + 1) BY SMTT(30)
  <2>6. Flow(s.seen, a \o c, s.full, seq) BY <1>4, <2>4 DEF Flows
  <2>7. s.seen \in Nat /\ s.full \in BOOLEAN BY <1>1 DEF StreamStates
  <2>8. Flow(s.seen, Append(a \o c, seq + 1), s.full, seq + 1) BY <2>6, <2>7, FlowSent
  <2> QED BY <1>2, <2>2, <2>3, <2>4, <2>5, <2>8 DEF Flows
<1>5. CASE s.on /\ ~(Len(s.chan) < StreamCap)
  <2>1. t = [s EXCEPT !.full = TRUE] BY <1>2, <1>5 DEF Sent
  <2>2. /\ t \in StreamStates /\ t.seen = s.seen /\ t.backlog = s.backlog /\ t.chan = s.chan
        /\ t.full = TRUE
    BY <1>1, <2>1 DEF StreamStates
  <2>3. Flow(s.seen, s.backlog \o s.chan, s.full, seq) BY <1>5 DEF Flows
  <2>4. s.seen \in Nat /\ s.full \in BOOLEAN BY <1>1 DEF StreamStates
  <2>5. Flow(s.seen, s.backlog \o s.chan, TRUE, seq + 1) BY <2>3, <2>4, FlowLost
  <2> QED BY <1>2, <2>2, <2>5 DEF Flows
<1> QED BY <1>3, <1>4, <1>5

LEMMA EmitKeeps ==
    ASSUME EventInv, Emit
    PROVE  EventInv'
<1>1. hub \in [seq : Nat, ring : Seq(Nat)] BY DEF EventInv, RingInv
<1>2. PICK seq \in Nat, r \in Seq(Nat) : seq = hub.seq /\ r = hub.ring BY <1>1
<1>3. PICK u : u = Ring(r, seq + 1) OBVIOUS
<1>4. hub' = [seq |-> seq + 1, ring |-> u] /\ stream' = [b \in Browsers |-> Sent(stream[b], seq + 1)]
  BY <1>2, <1>3 DEF Emit
<1>5. Len(r) <= seq /\ \A i \in DOMAIN r : r[i] = seq - Len(r) + i BY <1>2 DEF EventInv, RingInv
<1>6. PICK v : v = Append(r, seq + 1) OBVIOUS
<1>7. v \in Seq(Nat) /\ Len(v) = Len(r) + 1 /\ v # <<>> BY <1>6
<1>8. \A i \in DOMAIN v : v[i] = seq - Len(r) + i
  <2> SUFFICES ASSUME NEW i \in DOMAIN v PROVE v[i] = seq - Len(r) + i OBVIOUS
  <2>1. CASE i \in DOMAIN r BY <1>5, <1>6, <2>1
  <2>2. CASE i \notin DOMAIN r
    <3>1. i = Len(r) + 1 /\ v[i] = seq + 1 BY <1>6, <1>7, <2>2
    <3>2. Len(r) \in Nat OBVIOUS
    <3> QED BY <3>1, <3>2
  <2> QED BY <2>1, <2>2
<1>9. RingInv(hub')
  <2>1. hub'.seq = seq + 1 /\ hub'.ring = u BY <1>4
  <2>2. Len(r) \in Nat OBVIOUS
  <2>3. CASE Len(v) > EventCap
    <3>1. u = Tail(v) BY <1>3, <1>6, <2>3 DEF Ring
    <3>2. /\ u \in Seq(Nat) /\ Len(u) = Len(r)
          /\ \A i \in DOMAIN u : i + 1 \in DOMAIN v /\ u[i] = v[i + 1] /\ i \in Nat
      BY <1>7, <3>1
    <3>3. \A i \in DOMAIN u : u[i] = seq + 1 - Len(u) + i BY <1>8, <2>2, <3>2
    <3>4. Len(u) <= seq + 1 BY <1>5, <2>2, <3>2
    <3>5. hub' \in [seq : Nat, ring : Seq(Nat)] BY <1>4, <3>2
    <3> QED BY <2>1, <3>3, <3>4, <3>5 DEF RingInv
  <2>4. CASE ~(Len(v) > EventCap)
    <3>1. u = v BY <1>3, <1>6, <2>4 DEF Ring
    <3>2. \A i \in DOMAIN v : i \in Nat BY <1>7
    <3>3. \A i \in DOMAIN v : v[i] = seq + 1 - Len(v) + i BY <1>7, <1>8, <2>2, <3>2
    <3>4. v \in Seq(Nat) /\ Len(v) <= seq + 1 BY <1>5, <1>7, <2>2
    <3>5. hub' \in [seq : Nat, ring : Seq(Nat)] BY <1>4, <3>1, <3>4
    <3> QED BY <2>1, <3>1, <3>3, <3>4, <3>5 DEF RingInv
  <2> QED BY <2>3, <2>4
<1>10. ASSUME NEW b \in Browsers PROVE Flows(stream'[b], hub'.seq)
  <2>1. Flows(stream[b], seq) BY <1>2 DEF EventInv
  <2>2. stream'[b] = Sent(stream[b], seq + 1) /\ hub'.seq = seq + 1 BY <1>4
  <2> QED BY <2>1, <2>2, SentFlows
<1>11. stream' \in [Browsers -> StreamStates] BY <1>4, <1>10 DEF Flows
<1> QED BY <1>9, <1>10, <1>11 DEF EventInv

LEMMA HeadAndTail ==
    ASSUME NEW a \in Seq(Nat), a # <<>>
    PROVE  Head(a) \in Nat /\ Tail(a) \in Seq(Nat)
<1>1. Len(a) \in Nat /\ Len(a) >= 1 OBVIOUS
<1> QED BY <1>1

LEMMA HeadOfJoin ==
    ASSUME NEW a \in Seq(Nat), NEW c \in Seq(Nat), a # <<>>
    PROVE  Head(a \o c) = Head(a)
<1>1. Len(a) \in Nat /\ Len(a) >= 1 /\ Len(c) \in Nat OBVIOUS
<1>2. (a \o c)[1] = a[1] BY <1>1
<1> QED BY <1>1, <1>2

LEMMA TailOfJoin ==
    ASSUME NEW a \in Seq(Nat), NEW c \in Seq(Nat), a # <<>>
    PROVE  Tail(a \o c) = Tail(a) \o c
<1>1. PICK n \in Nat, k \in Nat : n = Len(a) /\ k = Len(c) /\ n >= 1 OBVIOUS
<1>2. PICK u \in Seq(Nat) : u = Tail(a) BY HeadAndTail
<1>3. Len(u) = n - 1 /\ \A i \in 1..n - 1 : u[i] = a[i + 1] BY <1>1, <1>2
<1>4. PICK v : v = a \o c OBVIOUS
<1>5. v \in Seq(Nat) /\ Len(v) = n + k /\ v # <<>> BY <1>1, <1>4
<1>6. Tail(v) \in Seq(Nat) /\ Len(Tail(v)) = n + k - 1 /\ \A i \in 1..n + k - 1 : Tail(v)[i] = v[i + 1]
  BY <1>1, <1>5
<1>7. u \o c \in Seq(Nat) /\ Len(u \o c) = n + k - 1
  <2>1. u \o c \in Seq(Nat) /\ Len(u \o c) = Len(u) + Len(c) OBVIOUS
  <2> QED BY <1>1, <1>3, <2>1
<1>8. ASSUME NEW i \in 1..n + k - 1 PROVE Tail(v)[i] = (u \o c)[i]
  <2>1. CASE i <= n - 1
    <3>1. v[i + 1] = a[i + 1] BY <1>1, <1>4, <2>1
    <3>2. (u \o c)[i] = u[i] BY <1>1, <1>3, <2>1
    <3>3. u[i] = a[i + 1] BY <1>1, <1>3, <2>1
    <3> QED BY <1>6, <3>1, <3>2, <3>3
  <2>2. CASE ~(i <= n - 1)
    <3>1. v[i + 1] = c[i + 1 - n] BY <1>1, <1>4, <2>2
    <3>2. (u \o c)[i] = c[i - (n - 1)]
      <4>1. i \in Len(u) + 1..Len(u) + Len(c) BY <1>1, <1>3, <2>2
      <4>2. (u \o c)[i] = c[i - Len(u)] BY <4>1
      <4> QED BY <1>3, <4>2
    <3>3. i + 1 - n = i - (n - 1) BY <1>1
    <3> QED BY <1>6, <3>1, <3>2, <3>3
  <2> QED BY <2>1, <2>2
<1> QED BY <1>1, <1>2, <1>4, <1>6, <1>7, <1>8, SeqEqual

LEMMA SubscribeKeeps ==
    ASSUME EventInv, NEW b \in Browsers, NEW after \in 0..hub.seq + 1, Subscribe(b, after)
    PROVE  EventInv'
<1>1. hub \in [seq : Nat, ring : Seq(Nat)] BY DEF EventInv, RingInv
<1>2. PICK seq \in Nat, r \in Seq(Nat) : seq = hub.seq /\ r = hub.ring BY <1>1
<1>0. PICK ahead \in BOOLEAN : ahead = (after > seq)
  <2>1. (after > seq) \in BOOLEAN BY <1>2
  <2> QED BY ONLY <2>1, Zenon
<1>3. PICK seen, back : /\ seen = IF r = <<>> \/ after > seq THEN seq ELSE Max({after, r[1] - 1})
                        /\ back = Later(r, after)
  OBVIOUS
<1>4. PICK s : s = [NoStream EXCEPT !.on = TRUE, !.backlog = back, !.ahead = ahead, !.seen = seen] OBVIOUS
<1>5. hub' = hub /\ stream' = [stream EXCEPT ![b] = s] BY <1>0, <1>2, <1>3, <1>4 DEF Subscribe, Backlog
<1>6. Len(r) \in Nat /\ Len(r) <= seq /\ \A i \in DOMAIN r : r[i] = seq - Len(r) + i
  BY <1>2 DEF EventInv, RingInv
<1>7. PICK base \in Nat : base = seq - Len(r)
  <2>1. PICK n \in Nat : n = Len(r) /\ n <= seq BY <1>6
  <2>2. seq - n \in Nat BY <2>1
  <2> QED BY <2>1, <2>2
<1>8. PICK m \in Nat : m = IF after > base THEN after ELSE base BY <1>2
<1>9. after \in Nat /\ \A i \in DOMAIN r : r[i] = base + i BY <1>2, <1>6, <1>7
<1>10. /\ back \in Seq(Nat)
       /\ Len(back) = IF base + Len(r) > m THEN base + Len(r) - m ELSE 0
       /\ \A i \in DOMAIN back : back[i] = m + i
  <2>1. m = MaxOf(after, base) BY <1>8 DEF MaxOf
  <2>2. RestFrom(m, base + Len(r), Later(r, after))
    BY ONLY <1>9, <2>1, LaterForm, base \in Nat, r \in Seq(Nat), m \in Nat, Zenon
  <2> QED BY <1>3, <2>2 DEF RestFrom
<1>11. base + Len(r) = seq BY <1>6, <1>7
<1>12. seen \in Nat /\ seen <= seq /\ Len(back) = seq - seen /\ \A i \in DOMAIN back : back[i] = seen + i
  <2>1. CASE r = <<>>
    <3>1. seen = seq /\ base = seq BY <1>3, <1>7, <2>1
    <3>2. Len(back) = 0 BY <1>8, <1>10, <1>11, <3>1
    <3>3. DOMAIN back = {} BY <1>10, <3>2
    <3> QED BY <3>1, <3>2, <3>3
  <2>2. CASE after > seq
    <3>1. seen = seq BY <1>3, <2>2
    <3>2. Len(back) = 0 BY <1>8, <1>9, <1>10, <1>11, <2>2
    <3>3. DOMAIN back = {} BY <1>10, <3>2
    <3> QED BY <3>1, <3>2, <3>3
  <2>3. CASE r # <<>> /\ ~(after > seq)
    <3>1. r[1] = base + 1 BY <1>9, <2>3
    <3>2. r[1] - 1 = base BY <3>1
    <3>3. Max({after, base}) = m
      <4>1. /\ m \in {after, base} /\ after <= m /\ base <= m BY <1>8, <1>9
      <4>2. \A x \in {after, base} : (\A y \in {after, base} : x >= y) => x = m BY <1>9, <4>1
      <4>3. \A y \in {after, base} : m >= y BY <1>9, <4>1
      <4> QED BY <4>1, <4>2, <4>3 DEF Max
    <3>4. seen = m BY <1>3, <2>3, <3>2, <3>3
    <3>5. m <= seq BY <1>6, <1>7, <1>8, <1>9, <2>3
    <3> QED BY <1>10, <1>11, <3>4, <3>5
  <2> QED BY <2>1, <2>2, <2>3
<1>13. s = [on |-> TRUE, seen |-> seen, ahead |-> ahead, backlog |-> back, chan |-> <<>>, full |-> FALSE]
  BY <1>4 DEF NoStream
<1>14. s \in StreamStates BY <1>10, <1>12, <1>13 DEF StreamStates
<1>15. Flow(seen, back, FALSE, seq)
  <2>1. \A i \in DOMAIN back : i \in Nat /\ 1 <= i /\ i <= Len(back) BY <1>10
  <2>2. \A i \in DOMAIN back : seen < back[i] /\ back[i] <= seq BY <1>12, <2>1
  <2>3. \A i, j \in DOMAIN back : i < j => back[i] < back[j] BY <1>12, <2>1
  <2> QED BY <1>10, <1>12, <2>2, <2>3 DEF Flow
<1>16. back \o <<>> = back BY <1>10
<1>17. Flows(s, seq) BY <1>13, <1>14, <1>15, <1>16 DEF Flows
<1> QED BY <1>2, <1>5, <1>14, <1>17 DEF EventInv

LEMMA RefillKeeps ==
    ASSUME EventInv, NEW b \in Browsers, Refill(b)
    PROVE  EventInv'
<1>1. PICK s : s = stream[b] OBVIOUS
<1>2. Flows(s, hub.seq) /\ s \in StreamStates /\ hub.seq \in Nat BY <1>1 DEF EventInv, Flows, RingInv
<1>3. PICK a \in Seq(Nat), c \in Seq(Nat) : a = s.backlog /\ c = s.chan BY <1>2 DEF StreamStates
<1>4. /\ s.on /\ a \o c # <<>> /\ hub' = hub
      /\ stream' = [stream EXCEPT ![b] = IF a # <<>> THEN [s EXCEPT !.seen = Head(a), !.backlog = Tail(a)]
                                         ELSE [s EXCEPT !.seen = Head(c), !.chan = Tail(c)]]
  BY <1>1, <1>3 DEF Refill
<1>5. s.seen \in Nat /\ s.full \in BOOLEAN /\ Flow(s.seen, a \o c, s.full, hub.seq)
  BY <1>2, <1>3, <1>4 DEF Flows, StreamStates
<1>6. Head(a \o c) \in Nat /\ Flow(Head(a \o c), Tail(a \o c), s.full, hub.seq)
  BY <1>2, <1>4, <1>5, FlowTaken
<1>7. CASE a # <<>>
  <2>1. PICK h \in Nat, u \in Seq(Nat) : h = Head(a) /\ u = Tail(a) BY <1>7, HeadAndTail
  <2>2. PICK t : t = [s EXCEPT !.seen = h, !.backlog = u] OBVIOUS
  <2>3. /\ t \in StreamStates /\ t.on = s.on /\ t.seen = h /\ t.backlog = u /\ t.chan = c
        /\ t.full = s.full
    BY <1>2, <1>3, <2>1, <2>2 DEF StreamStates
  <2>4. Head(a \o c) = h /\ Tail(a \o c) = u \o c BY <1>7, <2>1, HeadOfJoin, TailOfJoin
  <2>5. Flows(t, hub.seq) BY <1>6, <2>3, <2>4 DEF Flows
  <2>6. stream' = [stream EXCEPT ![b] = t] BY <1>4, <1>7, <2>1, <2>2
  <2> QED BY <1>4, <2>3, <2>5, <2>6 DEF EventInv
<1>8. CASE a = <<>>
  <2>1. a \o c = c BY <1>8
  <2>2. c # <<>> BY <1>4, <2>1
  <2>3. PICK h \in Nat, u \in Seq(Nat) : h = Head(c) /\ u = Tail(c) BY <2>2, HeadAndTail
  <2>4. PICK t : t = [s EXCEPT !.seen = h, !.chan = u] OBVIOUS
  <2>5. /\ t \in StreamStates /\ t.on = s.on /\ t.seen = h /\ t.backlog = a /\ t.chan = u
        /\ t.full = s.full
    BY <1>2, <1>3, <2>3, <2>4 DEF StreamStates
  <2>6. a \o u = u BY <1>8
  <2>7. Flows(t, hub.seq) BY <1>6, <2>1, <2>3, <2>5, <2>6 DEF Flows
  <2>8. stream' = [stream EXCEPT ![b] = t] BY <1>4, <1>8, <2>3, <2>4
  <2> QED BY <1>4, <2>5, <2>7, <2>8 DEF EventInv
<1> QED BY <1>7, <1>8

LEMMA HubUnchanged ==
    ASSUME EventInv, UNCHANGED hubVars
    PROVE  EventInv'
BY DEF EventInv, hubVars

LEMMA StatsStepKeeps ==
    ASSUME EventInv, StatsStep
    PROVE  EventInv'
<1>1. ASSUME NEW b \in Browsers, Leave(b) PROVE EventInv'
  <2>1. hub' = hub /\ stream' = [stream EXCEPT ![b] = NoStream] BY <1>1 DEF Leave
  <2> QED BY <2>1, NoStreamFlows DEF EventInv, Flows
<1>2. ASSUME NEW b \in Browsers, NEW after \in 0..hub.seq + 1, Subscribe(b, after) PROVE EventInv'
  BY <1>2, SubscribeKeeps
<1>3. ASSUME NEW b \in Browsers, Refill(b) PROVE EventInv' BY <1>3, RefillKeeps
<1>4. ASSUME NEW c \in Clients, ClientEvent(c) PROVE EventInv' BY <1>4, EmitKeeps DEF ClientEvent
<1>5. ASSUME NEW c \in Clients, Connect(c) \/ Disconnect(c) \/ Move(c) PROVE EventInv'
  BY <1>5, HubUnchanged DEF Connect, Disconnect, Move
<1>6. CASE StartSampler \/ Midnight \/ ReadStats \/ Observe \/ Sleep
  BY <1>6, HubUnchanged DEF StartSampler, Midnight, ReadStats, Observe, Sleep
<1>7. ASSUME NEW ok \in BOOLEAN, PersistAll(ok) \/ PersistEach(ok) PROVE EventInv'
  BY <1>7, HubUnchanged DEF PersistAll, PersistEach
<1> QED BY <1>1, <1>2, <1>3, <1>4, <1>5, <1>6, <1>7 DEF StatsStep

LEMMA EventStep == EventInv /\ [Next]_vars => EventInv'
<1> SUFFICES ASSUME EventInv, [Next]_vars PROVE EventInv' OBVIOUS
<1>1. CASE UNCHANGED vars BY <1>1, HubUnchanged DEF vars, statsVars
<1>2. CASE PanelStep
  <2>1. ASSUME NEW l \in Listeners, SaveDone(l) PROVE EventInv'
    BY <2>1, EmitKeeps, HubUnchanged DEF SaveDone
  <2>2. ASSUME NEW l \in Listeners, NEW k \in SUBSET Clients, Control(l, k) PROVE EventInv'
    BY <2>2, EmitKeeps DEF Control
  <2>3. CASE UNCHANGED statsVars BY <2>3, HubUnchanged DEF statsVars
  <2> QED BY <1>2, <2>1, <2>2, <2>3 DEF PanelStep
<1>3. CASE StatsStep BY <1>3, StatsStepKeeps
<1>4. CASE Restart
  <2>1. hub' = [seq |-> 0, ring |-> <<>>] /\ stream' = [b \in Browsers |-> NoStream]
    BY <1>4 DEF Restart, StatsRestart
  <2>2. RingInv(hub') BY <2>1 DEF RingInv
  <2> QED BY <2>1, <2>2, NoStreamFlows DEF EventInv, Flows
<1> QED BY <1>1, <1>2, <1>3, <1>4 DEF Next

\* For any ring and channel size, any browsers and any sequence of events,
\* subscriptions and restarts: a stream gives out increasing events, and until
\* its channel overflows every one from where the browser left off, or from the
\* oldest the ring still had, unless the browser is ahead of a process that was
\* started again (EventHub::emit, stream, EventStream::refill).
THEOREM StreamsHaveNoGap == Spec => []StreamGapless
<1>1. EventInv => StreamGapless
  <2> SUFFICES ASSUME EventInv, NEW b \in Browsers, stream[b].on
               PROVE  LET s == stream[b]
                          pending == s.backlog \o s.chan
                      IN  /\ \A i \in 1..Len(pending) :
                                pending[i] > IF i = 1 THEN s.seen ELSE pending[i - 1]
                          /\ ~s.full /\ ~s.ahead => Len(pending) = hub.seq - s.seen
    BY DEF StreamGapless
  <2>1. PICK s, p : s = stream[b] /\ p = s.backlog \o s.chan OBVIOUS
  <2>2. Flow(s.seen, p, s.full, hub.seq) /\ s.seen \in Nat /\ s.full \in BOOLEAN
    BY <2>1 DEF EventInv, Flows, StreamStates
  <2>3. ASSUME NEW i \in 1..Len(p) PROVE p[i] > IF i = 1 THEN s.seen ELSE p[i - 1]
    <3>1. p \in Seq(Nat) /\ i \in DOMAIN p BY <2>2, <2>3 DEF Flow
    <3>2. CASE i = 1 BY <2>2, <3>1, <3>2 DEF Flow
    <3>3. CASE i # 1
      <4>1. i - 1 \in DOMAIN p /\ i - 1 < i BY <3>1, <3>3
      <4>2. p[i - 1] < p[i] /\ p[i] \in Nat /\ p[i - 1] \in Nat BY <2>2, <3>1, <4>1 DEF Flow
      <4> QED BY <3>3, <4>2
    <3> QED BY <3>2, <3>3
  <2>4. ~s.full => Len(p) = hub.seq - s.seen BY <2>2 DEF Flow
  <2> QED BY <2>1, <2>3, <2>4
<1> QED BY <1>1, EventInitial, EventStep, PTL DEF Spec

(* The history of the traffic *)

AnyOf(s) == CHOOSE x \in s : TRUE

\* The sums of the values of f on the sets of D, as Total makes them.
Sums(F, f, D) == F = [s \in D |-> IF s = {} THEN 0 ELSE f[AnyOf(s)] + F[s \ {AnyOf(s)}]]

UpTo(S, k) == {s \in SUBSET S : Cardinality(s) <= k}

LEMMA SizeOf ==
    ASSUME NEW S, IsFiniteSet(S), NEW s \in SUBSET S
    PROVE  /\ IsFiniteSet(s) /\ Cardinality(s) \in Nat /\ Cardinality(s) <= Cardinality(S)
           /\ Cardinality(s) = 0 <=> s = {}
           /\ s # {} => AnyOf(s) \in s
           /\ \A x \in s : s \ {x} \in SUBSET S /\ Cardinality(s \ {x}) = Cardinality(s) - 1
<1>1. IsFiniteSet(s) /\ Cardinality(s) <= Cardinality(S) BY FS_Subset
<1>2. Cardinality(s) \in Nat BY <1>1, FS_CardinalityType
<1>3. Cardinality(s) = 0 <=> s = {} BY <1>1, FS_EmptySet
<1>4. \A x \in s : Cardinality(s \ {x}) = Cardinality(s) - 1 BY <1>1, FS_RemoveElement
<1> QED BY <1>1, <1>2, <1>3, <1>4 DEF AnyOf

\* The recursion of Total has a solution.
LEMMA SumsExist ==
    ASSUME NEW S, IsFiniteSet(S), NEW f \in [S -> Nat]
    PROVE  \E F : Sums(F, f, SUBSET S)
<1> DEFINE T == {k \in Nat : \E F : Sums(F, f, UpTo(S, k))}
<1>1. 0 \in T
  <2>1. \A s \in UpTo(S, 0) : s = {} BY SizeOf DEF UpTo
  <2>2. Sums([s \in UpTo(S, 0) |-> 0], f, UpTo(S, 0)) BY <2>1 DEF Sums
  <2> QED BY <2>2
<1>2. ASSUME NEW k \in Nat, k \in T PROVE k + 1 \in T
  <2>1. PICK F : Sums(F, f, UpTo(S, k)) BY <1>2
  <2>2. PICK G : G = [s \in UpTo(S, k + 1) |-> IF s = {} THEN 0 ELSE f[AnyOf(s)] + F[s \ {AnyOf(s)}]]
    OBVIOUS
  <2>3. UpTo(S, k) \subseteq UpTo(S, k + 1) BY SizeOf DEF UpTo
  <2>4. ASSUME NEW u \in UpTo(S, k) PROVE G[u] = F[u]
    <3>1. F[u] = IF u = {} THEN 0 ELSE f[AnyOf(u)] + F[u \ {AnyOf(u)}] BY <2>1 DEF Sums
    <3>2. G[u] = IF u = {} THEN 0 ELSE f[AnyOf(u)] + F[u \ {AnyOf(u)}] BY <2>2, <2>3
    <3> QED BY <3>1, <3>2
  <2>5. ASSUME NEW s \in UpTo(S, k + 1), s # {} PROVE s \ {AnyOf(s)} \in UpTo(S, k)
    <3>1. PICK x : x = AnyOf(s) OBVIOUS
    <3>2. s \in SUBSET S /\ Cardinality(s) <= k + 1 BY DEF UpTo
    <3>3. /\ x \in s /\ s \ {x} \in SUBSET S /\ Cardinality(s \ {x}) = Cardinality(s) - 1
          /\ Cardinality(s) \in Nat
      BY <2>5, <3>1, <3>2, SizeOf
    <3> QED BY <3>1, <3>2, <3>3 DEF UpTo
  <2>6. Sums(G, f, UpTo(S, k + 1))
    <3>1. ASSUME NEW s \in UpTo(S, k + 1)
          PROVE  G[s] = IF s = {} THEN 0 ELSE f[AnyOf(s)] + G[s \ {AnyOf(s)}]
      BY <2>2, <2>4, <2>5
    <3> QED BY <2>2, <3>1 DEF Sums
  <2> QED BY <2>6
<1> HIDE DEF T
<1>3. Nat \subseteq T BY <1>1, <1>2, Induction
<1>4. PICK n \in Nat : n = Cardinality(S) BY FS_CardinalityType
<1>5. PICK F : Sums(F, f, UpTo(S, n)) BY <1>3 DEF T
<1>6. UpTo(S, n) = SUBSET S BY <1>4, SizeOf DEF UpTo
<1> QED BY <1>5, <1>6

\* A sum does not depend on the order.
IsSum(F, f, S) ==
    /\ F[{}] = 0
    /\ \A s \in SUBSET S : F[s] \in Nat /\ \A x \in s : F[s] = f[x] + F[s \ {x}]

LEMMA SumAnyOrder ==
    ASSUME NEW S, IsFiniteSet(S), NEW f \in [S -> Nat], NEW F, Sums(F, f, SUBSET S)
    PROVE  IsSum(F, f, S)
<1> DEFINE Good(s) == F[s] \in Nat /\ \A x \in s : F[s] = f[x] + F[s \ {x}]
           T == {k \in Nat : \A s \in UpTo(S, k) : Good(s)}
<1>1. F[{}] = 0 BY DEF Sums
<1>2. 0 \in T
  <2>1. ASSUME NEW s \in UpTo(S, 0) PROVE Good(s)
    <3>1. s = {} BY SizeOf DEF UpTo
    <3>2. F[s] \in Nat BY <1>1, <3>1
    <3> QED BY <3>1, <3>2
  <2> QED BY <2>1
<1>3. ASSUME NEW k \in Nat, k \in T PROVE k + 1 \in T
  <2> SUFFICES ASSUME NEW s \in UpTo(S, k + 1) PROVE Good(s) OBVIOUS
  <2>1. s \in SUBSET S /\ Cardinality(s) <= k + 1 BY DEF UpTo
  <2>2. CASE s = {} BY <1>1, <2>2
  <2>3. CASE s # {}
    <3>1. PICK c \in s : c = AnyOf(s) BY <2>1, <2>3, SizeOf
    <3>2. F[s] = f[c] + F[s \ {c}] BY <2>1, <2>3, <3>1 DEF Sums
    <3>3. \A x \in s : s \ {x} \in UpTo(S, k)
      <4> TAKE x \in s
      <4>1. /\ s \ {x} \in SUBSET S /\ Cardinality(s \ {x}) = Cardinality(s) - 1
            /\ Cardinality(s) \in Nat
        BY <2>1, SizeOf
      <4> QED BY <2>1, <4>1 DEF UpTo
    <3>4. \A x \in s : Good(s \ {x}) BY <1>3, <3>3
    <3>5. ASSUME NEW x \in s, x # c PROVE F[s] = f[x] + F[s \ {x}]
      <4>1. PICK u : u = (s \ {c}) \ {x} OBVIOUS
      <4>2. (s \ {x}) \ {c} = u /\ x \in s \ {c} /\ c \in s \ {x} BY <3>5, <4>1
      <4>3. F[s \ {c}] = f[x] + F[u] BY <3>4, <4>1, <4>2
      <4>4. F[s \ {x}] = f[c] + F[u] BY <3>4, <4>2
      <4>5. F[u] \in Nat
        <5>1. PICK v : v = s \ {c} OBVIOUS
        <5>2. v \in SUBSET S /\ v \in UpTo(S, k) BY <2>1, <3>3, <5>1
        <5>3. u \in SUBSET S /\ Cardinality(u) = Cardinality(v) - 1 /\ Cardinality(v) \in Nat
          BY <4>1, <4>2, <5>1, <5>2, SizeOf
        <5>4. u \in UpTo(S, k) BY <5>2, <5>3 DEF UpTo
        <5> QED BY <1>3, <5>4
      <4>6. f[x] \in Nat /\ f[c] \in Nat BY <2>1
      <4> QED BY <3>2, <4>3, <4>4, <4>5, <4>6
    <3>6. F[s] \in Nat
      <4>1. f[c] \in Nat /\ F[s \ {c}] \in Nat BY <2>1, <3>4
      <4> QED BY <3>2, <4>1
    <3> QED BY <3>2, <3>5, <3>6
  <2> QED BY <2>2, <2>3
<1>4. Nat \subseteq T
  <2> HIDE DEF T
  <2> QED BY <1>2, <1>3, Induction
<1>5. ASSUME NEW s \in SUBSET S PROVE Good(s)
  <2>1. PICK n \in Nat : n = Cardinality(s) BY SizeOf
  <2>2. s \in UpTo(S, n) BY <2>1 DEF UpTo
  <2>3. n \in T BY <1>4
  <2> QED BY <2>2, <2>3
<1> QED BY <1>1, <1>5 DEF IsSum

LEMMA TotalIsSum ==
    ASSUME NEW S, IsFiniteSet(S), NEW f \in [S -> Nat]
    PROVE  \E F : IsSum(F, f, S) /\ Total(f) = F[S]
<1>1. PICK G : G = CHOOSE g : Sums(g, f, SUBSET S) OBVIOUS
<1>2. Sums(G, f, SUBSET S) BY <1>1, SumsExist
<1>3. DOMAIN f = S OBVIOUS
<1>4. G = CHOOSE g : g = [s \in SUBSET DOMAIN f |->
               IF s = {} THEN 0 ELSE f[CHOOSE x \in s : TRUE] + g[s \ {CHOOSE x \in s : TRUE}]]
  BY <1>1, <1>3 DEF Sums, AnyOf
<1>5. Total(f) = G[DOMAIN f] BY <1>4 DEF Total, FoldFunction, FoldFunctionOnSet, MapThenFoldSet
<1> QED BY <1>2, <1>3, <1>5, SumAnyOrder

LEMMA SumAtMost ==
    ASSUME NEW S, IsFiniteSet(S), NEW f, NEW F, IsSum(F, f, S), \A x \in S : f[x] \in Nat,
           NEW T, NEW g, NEW G, IsSum(G, g, T), \A x \in T : g[x] \in Nat,
           \A x \in S \cap T : g[x] <= f[x]
    PROVE  G[S \cap T] <= F[S]
<1> DEFINE K == {k \in Nat : \A s \in UpTo(S, k) : G[s \cap T] <= F[s]}
<1>1. 0 \in K
  <2>1. ASSUME NEW s \in UpTo(S, 0) PROVE G[s \cap T] <= F[s]
    <3>1. s = {} BY SizeOf DEF UpTo
    <3>2. s \cap T = {} BY <3>1
    <3>3. F[s] = 0 /\ G[s \cap T] = 0 BY <3>1, <3>2 DEF IsSum
    <3> QED BY <3>3
  <2> QED BY <2>1
<1>2. ASSUME NEW k \in Nat, k \in K PROVE k + 1 \in K
  <2> SUFFICES ASSUME NEW s \in UpTo(S, k + 1) PROVE G[s \cap T] <= F[s] OBVIOUS
  <2>1. s \in SUBSET S /\ Cardinality(s) <= k + 1 BY DEF UpTo
  <2>2. CASE s = {}
    <3>1. s \cap T = {} BY <2>2
    <3>2. F[s] = 0 /\ G[s \cap T] = 0 BY <2>2, <3>1 DEF IsSum
    <3> QED BY <3>2
  <2>3. CASE s # {}
    <3>1. PICK x \in s : TRUE BY <2>3
    <3>2. PICK u : u = s \ {x} OBVIOUS
    <3>3. u \in SUBSET S /\ Cardinality(u) = Cardinality(s) - 1 /\ Cardinality(s) \in Nat
      BY <2>1, <3>2, SizeOf
    <3>4. u \in UpTo(S, k) BY <2>1, <3>3 DEF UpTo
    <3>5. G[u \cap T] <= F[u] BY <1>2, <3>4
    <3>6. F[s] = f[x] + F[u] /\ F[u] \in Nat /\ f[x] \in Nat BY <2>1, <3>2, <3>3 DEF IsSum
    <3>7. PICK v : v = s \cap T OBVIOUS
    <3>8. v \in SUBSET T /\ u \cap T \in SUBSET T BY <3>7
    <3>9. G[u \cap T] \in Nat BY <3>8 DEF IsSum
    <3>10. CASE x \in T
      <4>1. v \ {x} = u \cap T /\ x \in v BY <3>2, <3>7, <3>10
      <4>2. G[v] = g[x] + G[u \cap T]
        <5>1. \A y \in v : G[v] = g[y] + G[v \ {y}] BY <3>8 DEF IsSum
        <5>2. G[v] = g[x] + G[v \ {x}] BY <4>1, <5>1
        <5> QED BY <4>1, <5>2
      <4>3. g[x] <= f[x] /\ g[x] \in Nat BY <2>1, <3>10
      <4> QED BY <3>5, <3>6, <3>7, <3>9, <4>2, <4>3
    <3>11. CASE x \notin T
      <4>1. v = u \cap T BY <3>2, <3>7, <3>11
      <4> QED BY <3>5, <3>6, <3>7, <3>9, <4>1
    <3> QED BY <3>10, <3>11
  <2> QED BY <2>2, <2>3
<1>3. Nat \subseteq K
  <2> HIDE DEF K
  <2> QED BY <1>1, <1>2, Induction
<1>4. PICK n \in Nat : n = Cardinality(S) BY FS_CardinalityType
<1>5. S \in UpTo(S, n) BY <1>4 DEF UpTo
<1>6. n \in K BY <1>3
<1> QED BY <1>5, <1>6

LEMMA TotalNat ==
    ASSUME NEW S, IsFiniteSet(S), NEW f \in [S -> Nat]
    PROVE  Total(f) \in Nat /\ (S = {} => Total(f) = 0)
<1>1. PICK F : IsSum(F, f, S) /\ Total(f) = F[S] BY TotalIsSum
<1> QED BY <1>1 DEF IsSum

\* With fewer or smaller values the total is not larger.
LEMMA TotalAtMost ==
    ASSUME NEW S, IsFiniteSet(S), NEW f \in [S -> Nat], NEW T \in SUBSET S, NEW g \in [T -> Nat],
           \A x \in T : g[x] <= f[x]
    PROVE  Total(g) \in Nat /\ Total(g) <= Total(f)
<1>1. PICK F : IsSum(F, f, S) /\ Total(f) = F[S] BY TotalIsSum
<1>2. IsFiniteSet(T) BY FS_Subset
<1>3. PICK G : IsSum(G, g, T) /\ Total(g) = G[T] BY <1>2, TotalIsSum
<1>4. S \cap T = T OBVIOUS
<1>5. G[S \cap T] <= F[S] BY <1>1, <1>3, SumAtMost
<1> QED BY <1>1, <1>2, <1>3, <1>4, <1>5, TotalNat

\* One value changes, or is added.
ValueAt(f, x) == IF x \in DOMAIN f THEN f[x] ELSE 0

IsCounts(f) == IsFiniteSet(DOMAIN f) /\ f \in [DOMAIN f -> Nat]

LEMMA TotalChanged ==
    ASSUME NEW f, IsCounts(f), NEW g, IsCounts(g), NEW x, DOMAIN g = DOMAIN f \cup {x},
           \A y \in DOMAIN f : y # x => g[y] = f[y]
    PROVE  /\ Total(g) = Total(f) - ValueAt(f, x) + g[x]
           /\ Total(f) \in Nat /\ Total(g) \in Nat /\ g[x] \in Nat /\ ValueAt(f, x) \in Nat
           /\ ValueAt(f, x) <= Total(f)
<1>0. PICK S : S = DOMAIN f /\ IsFiniteSet(S) /\ f \in [S -> Nat] BY DEF IsCounts
<1>1. PICK F : IsSum(F, f, S) /\ Total(f) = F[S] BY <1>0, TotalIsSum
<1>2. PICK X : X = S \cup {x} OBVIOUS
<1>3. IsFiniteSet(X) /\ g \in [X -> Nat] /\ x \in X BY <1>0, <1>2 DEF IsCounts
<1>4. PICK G : IsSum(G, g, X) /\ Total(g) = G[X] BY <1>3, TotalIsSum
<1>5. PICK U : U = S \ {x} OBVIOUS
<1>6. U \in SUBSET S /\ U \in SUBSET X /\ X \ {x} = U BY <1>2, <1>5
<1>7. IsFiniteSet(U) BY <1>0, <1>6, FS_Subset
<1>8. IsSum(F, f, U) /\ IsSum(G, g, U)
  <2>1. SUBSET U \subseteq SUBSET S /\ SUBSET U \subseteq SUBSET X BY <1>6
  <2> QED BY <1>1, <1>4, <2>1 DEF IsSum
<1>9. \A y \in U : f[y] \in Nat /\ g[y] \in Nat /\ g[y] = f[y] BY <1>0, <1>3, <1>5, <1>6
<1>10. F[U] \in Nat /\ G[U] \in Nat BY <1>8 DEF IsSum
<1>11. F[U] = G[U]
  <2>1. U \cap U = U OBVIOUS
  <2>2. \A y \in U : f[y] <= g[y] /\ g[y] <= f[y] BY <1>9
  <2>3. F[U \cap U] <= G[U] BY <1>7, <1>8, <1>9, <2>2, SumAtMost
  <2>4. G[U \cap U] <= F[U] BY <1>7, <1>8, <1>9, <2>2, SumAtMost
  <2>5. F[U] <= G[U] /\ G[U] <= F[U] BY <2>1, <2>3, <2>4
  <2>6. PICK i \in Nat, j \in Nat : i = F[U] /\ j = G[U] BY <1>10
  <2> QED BY <2>5, <2>6
<1>12. G[X] = g[x] + G[U] /\ g[x] \in Nat BY <1>3, <1>4, <1>6 DEF IsSum
<1>13. F[S] = ValueAt(f, x) + F[U] /\ ValueAt(f, x) \in Nat
  <2>1. CASE x \in S BY <1>0, <1>1, <1>5, <2>1 DEF IsSum, ValueAt
  <2>2. CASE x \notin S
    <3>1. U = S BY <1>5, <2>2
    <3>2. ValueAt(f, x) = 0 BY <1>0, <2>2 DEF ValueAt
    <3> QED BY <1>10, <3>1, <3>2
  <2> QED BY <2>1, <2>2
<1> QED BY <1>1, <1>4, <1>10, <1>11, <1>12, <1>13

\* A counter t that lags behind what was moved, m, by what it has yet to see of
\* o, since it saw l or, while a reading r is on its way, since that.
Counted(t, l, o, r, reading, m) ==
    /\ t \in Nat /\ l \in Nat /\ o \in Nat /\ r \in Nat /\ m \in Nat
    /\ t + Delta(o, l) <= m
    /\ reading => t + Delta(r, l) + Delta(o, r) <= m

IsDays(each) == IsFiniteSet(DOMAIN each) /\ \A d \in DOMAIN each : IsCounts(each[d])

TrafficTypes(t) ==
    /\ t \in [days : {t.days}, file : Paths, all : {t.all}, each : {t.each}, last : Nat, lastEach : {t.lastEach}]
    /\ IsCounts(t.all) /\ IsDays(t.each) /\ IsCounts(t.lastEach)

IsFile(f) == f \in [all : {f.all}, each : {f.each}] /\ IsCounts(f.all) /\ IsDays(f.each)

StatsTypes ==
    /\ moved \in [Clients -> Nat]
    /\ IsCounts(online)
    /\ sampler \in [pc : {sampler.pc}, read : {sampler.read}] /\ IsCounts(sampler.read)
    /\ TrafficTypes(traffic)
    /\ files = [p \in Paths |-> files[p]] /\ \A p \in Paths : IsFile(files[p])

CountedAll ==
    Counted(Total(traffic.all), traffic.last, Total(online), Total(sampler.read),
            sampler.pc = "observe", Total(moved))
CountedOne(c) ==
    Counted(Total(ClientDays(traffic.each, c)), ValueAt(traffic.lastEach, c), ValueAt(online, c),
            ValueAt(sampler.read, c), sampler.pc = "observe" /\ c \in DOMAIN sampler.read,
            moved[c])

\* What a file has, whichever place it is at, was moved.
FileCounted(f) == Total(f.all) <= Total(moved) /\ \A c \in Clients : Total(ClientDays(f.each, c)) <= moved[c]

\* What NeverOvercounts rests on: what the next observation adds was moved.
HistoryInv ==
    /\ StatsTypes /\ CountedAll /\ \A c \in Clients : CountedOne(c)
    /\ \A p \in Paths : FileCounted(files[p])

(* What the steps do to the counts *)

LEMMA CountedLess ==
    ASSUME NEW t, NEW l, NEW o, NEW r, NEW b \in BOOLEAN, NEW m, Counted(t, l, o, r, b, m),
           NEW t1 \in Nat, t1 <= t, NEW o1 \in Nat, o1 <= o, NEW r1 \in Nat, NEW b1 \in BOOLEAN,
           b1 => b /\ r1 = r
    PROVE  Counted(t1, l, o1, r1, b1, m)
BY DEF Counted, Delta

LEMMA CountedMoved ==
    ASSUME NEW t, NEW l, NEW o, NEW r, NEW b \in BOOLEAN, NEW m, Counted(t, l, o, r, b, m)
    PROVE  Counted(t, l, o + 1, r, b, m + 1)
BY DEF Counted, Delta

LEMMA CountedRead ==
    ASSUME NEW t, NEW l, NEW o, NEW r, NEW b, NEW m, Counted(t, l, o, r, b, m), NEW b1
    PROVE  Counted(t, l, o, o, b1, m)
BY DEF Counted, Delta

LEMMA CountedObserved ==
    ASSUME NEW t, NEW l, NEW o, NEW r, NEW m, Counted(t, l, o, r, TRUE, m),
           NEW t1 \in Nat, t1 <= t + Delta(r, l)
    PROVE  Counted(t1, r, o, r, FALSE, m)
BY DEF Counted, Delta

LEMMA CountedAnew ==
    ASSUME NEW t1 \in Nat, NEW m \in Nat, t1 <= m
    PROVE  Counted(t1, 0, 0, 0, FALSE, m)
BY DEF Counted, Delta

LEMMA CountsNat ==
    ASSUME NEW f, IsCounts(f)
    PROVE  Total(f) \in Nat /\ \A c : ValueAt(f, c) \in Nat
<1>1. Total(f) \in Nat BY TotalNat DEF IsCounts
<1>2. \A c : ValueAt(f, c) \in Nat BY DEF ValueAt, IsCounts
<1> QED BY <1>1, <1>2

LEMMA NoneCounts ==
    /\ IsCounts(None) /\ IsDays(None) /\ DOMAIN None = {} /\ Total(None) = 0
    /\ \A c : ValueAt(None, c) = 0 /\ Total(ClientDays(None, c)) = 0
<1>1. None \in [{} -> Nat] /\ DOMAIN None = {} BY DEF None
<1>2. IsFiniteSet({}) BY FS_EmptySet
<1>3. Total(None) = 0 BY <1>1, <1>2, TotalNat
<1>4. ASSUME NEW c PROVE Total(ClientDays(None, c)) = 0
  <2>1. ClientDays(None, c) \in [{} -> Nat] BY <1>1 DEF ClientDays
  <2> QED BY <1>2, <2>1, TotalNat
<1> QED BY <1>1, <1>2, <1>3, <1>4 DEF IsCounts, IsDays, ValueAt

LEMMA SharesCount ==
    ASSUME NEW each, IsDays(each), NEW c
    PROVE  /\ IsFiniteSet(DOMAIN each) /\ ClientDays(each, c) \in [DOMAIN each -> Nat]
           /\ Total(ClientDays(each, c)) \in Nat
<1>1. ClientDays(each, c) \in [DOMAIN each -> Nat] BY DEF IsDays, IsCounts, ClientDays
<1> QED BY <1>1, TotalNat DEF IsDays

\* Some clients go.
LEMMA Fewer ==
    ASSUME NEW f, IsCounts(f), NEW U, U \subseteq DOMAIN f
    PROVE  /\ IsCounts(Restrict(f, U)) /\ Total(Restrict(f, U)) <= Total(f)
           /\ \A c : ValueAt(Restrict(f, U), c) <= ValueAt(f, c)
<1>1. Restrict(f, U) \in [U -> Nat] /\ DOMAIN Restrict(f, U) = U BY DEF Restrict, IsCounts
<1>2. IsFiniteSet(U) BY FS_Subset DEF IsCounts
<1>3. IsCounts(Restrict(f, U)) BY <1>1, <1>2 DEF IsCounts
<1>4. \A x \in U : Restrict(f, U)[x] = f[x] /\ f[x] \in Nat BY DEF Restrict, IsCounts
<1>5. Total(Restrict(f, U)) <= Total(f)
  <2>1. \A x \in U : Restrict(f, U)[x] <= f[x] BY <1>4
  <2> QED BY <1>1, <2>1, TotalAtMost DEF IsCounts
<1>6. ASSUME NEW c PROVE ValueAt(Restrict(f, U), c) <= ValueAt(f, c)
  <2>1. CASE c \in U
    <3>1. ValueAt(Restrict(f, U), c) = f[c] /\ ValueAt(f, c) = f[c] /\ f[c] \in Nat
      BY <1>1, <1>4, <2>1 DEF ValueAt
    <3> QED BY <3>1
  <2>2. CASE c \notin U
    <3>1. ValueAt(Restrict(f, U), c) = 0 BY <1>1, <2>2 DEF ValueAt
    <3>2. ValueAt(f, c) \in Nat BY CountsNat
    <3> QED BY <3>1, <3>2
  <2> QED BY <2>1, <2>2
<1> QED BY <1>3, <1>5, <1>6

LEMMA FewerDays ==
    ASSUME NEW each, IsDays(each), NEW U, U \subseteq DOMAIN each, NEW c
    PROVE  /\ IsDays(Restrict(each, U)) /\ DOMAIN Restrict(each, U) = U
           /\ Total(ClientDays(Restrict(each, U), c)) <= Total(ClientDays(each, c))
<1>1. DOMAIN Restrict(each, U) = U /\ \A d \in U : Restrict(each, U)[d] = each[d] BY DEF Restrict
<1>2. IsDays(Restrict(each, U)) BY <1>1, FS_Subset DEF IsDays
<1>3. PICK g : g = ClientDays(Restrict(each, U), c) OBVIOUS
<1>4. PICK f : f = ClientDays(each, c) OBVIOUS
<1>5. IsFiniteSet(DOMAIN each) /\ f \in [DOMAIN each -> Nat] BY <1>4, SharesCount
<1>6. g \in [U -> Nat] BY <1>1, <1>2, <1>3, SharesCount
<1>7. \A d \in U : g[d] = f[d] BY <1>1, <1>3, <1>4 DEF ClientDays
<1>8. \A d \in U : g[d] <= f[d] BY <1>5, <1>7
<1>9. Total(g) <= Total(f) BY <1>5, <1>6, <1>8, TotalAtMost
<1> QED BY <1>1, <1>2, <1>3, <1>4, <1>9

\* Bytes are added to a client's counter, or to a day.
LEMMA TotalPlus ==
    ASSUME NEW f, IsCounts(f), NEW x, NEW n \in Nat
    PROVE  /\ IsCounts(Plus(f, x, n)) /\ Total(Plus(f, x, n)) = Total(f) + n
           /\ \A c : ValueAt(Plus(f, x, n), c) = ValueAt(f, c) + IF c = x THEN n ELSE 0
<1>1. PICK g : g = Plus(f, x, n) OBVIOUS
<1>2. /\ DOMAIN g = DOMAIN f \cup {x}
      /\ \A y \in DOMAIN g : g[y] = ValueAt(f, y) + IF y = x THEN n ELSE 0
  BY <1>1 DEF Plus, ValueAt
<1>3. \A y : ValueAt(f, y) \in Nat BY CountsNat
<1>4. g \in [DOMAIN f \cup {x} -> Nat]
  <2>1. \A y \in DOMAIN g : g[y] \in Nat BY <1>2, <1>3
  <2>2. g = [y \in DOMAIN f \cup {x} |-> g[y]] BY <1>1 DEF Plus
  <2> QED BY <1>2, <2>1, <2>2
<1>5. IsFiniteSet(DOMAIN f \cup {x}) BY FS_AddElement DEF IsCounts
<1>6. \A y \in DOMAIN f : y # x => g[y] = f[y] BY <1>2, <1>3 DEF ValueAt
<1>7. g[x] = ValueAt(f, x) + n BY <1>2
<1>8. Total(g) = Total(f) - ValueAt(f, x) + g[x] /\ Total(f) \in Nat
  <2>1. IsCounts(g) BY <1>2, <1>4, <1>5 DEF IsCounts
  <2> QED BY <1>2, <1>6, <2>1, TotalChanged
<1>9. Total(g) = Total(f) + n BY <1>3, <1>7, <1>8
<1>10. ASSUME NEW c PROVE ValueAt(g, c) = ValueAt(f, c) + IF c = x THEN n ELSE 0
  <2>1. CASE c \in DOMAIN g BY <1>2, <2>1 DEF ValueAt
  <2>2. CASE c \notin DOMAIN g BY <1>2, <2>2 DEF ValueAt
  <2> QED BY <2>1, <2>2
<1> QED BY <1>1, <1>2, <1>4, <1>5, <1>9, <1>10 DEF IsCounts

\* The oldest days go.
LEMMA Trimmed ==
    ASSUME NEW t, TrafficTypes(t), NEW u, u = Trim(t)
    PROVE  /\ TrafficTypes(u) /\ u.last = t.last /\ u.lastEach = t.lastEach
           /\ Total(u.all) <= Total(t.all)
           /\ \A c : Total(ClientDays(u.each, c)) <= Total(ClientDays(t.each, c))
<1>1. PICK old : old = Oldest(DOMAIN t.all, t.days) OBVIOUS
<1>2. PICK a : a = Restrict(t.all, DOMAIN t.all \ old) OBVIOUS
<1>3. PICK e : e = Restrict(t.each, DOMAIN t.each \ old) OBVIOUS
<1>4. PICK h : h = Restrict(e, DOMAIN e \ Oldest(DOMAIN e, t.days)) OBVIOUS
<1>5. u = [t EXCEPT !.all = a, !.each = h] BY <1>1, <1>2, <1>3, <1>4 DEF Trim
<1>6. IsCounts(a) /\ Total(a) <= Total(t.all) BY <1>2, Fewer DEF TrafficTypes
<1>7. IsDays(e) /\ \A c : Total(ClientDays(e, c)) <= Total(ClientDays(t.each, c))
  BY <1>3, FewerDays DEF TrafficTypes
<1>8. IsDays(h) /\ \A c : Total(ClientDays(h, c)) <= Total(ClientDays(e, c)) BY <1>4, <1>7, FewerDays
<1>9. /\ u.days = t.days /\ u.all = a /\ u.each = h /\ u.last = t.last /\ u.lastEach = t.lastEach
      /\ u \in [days : {t.days}, file : Paths, all : {a}, each : {h}, last : Nat, lastEach : {t.lastEach}]
  BY <1>5 DEF TrafficTypes
<1>10. TrafficTypes(u) BY <1>6, <1>8, <1>9 DEF TrafficTypes
<1>11. ASSUME NEW c PROVE Total(ClientDays(h, c)) <= Total(ClientDays(t.each, c))
  <2>1. /\ Total(ClientDays(h, c)) \in Nat /\ Total(ClientDays(e, c)) \in Nat /\ Total(ClientDays(t.each, c)) \in Nat
    BY <1>7, <1>8, SharesCount DEF TrafficTypes
  <2> QED BY <1>7, <1>8, <2>1
<1> QED BY <1>6, <1>9, <1>10, <1>11

\* Steps that count nothing: clients and days may go, a reading may be dropped.
Shrinks ==
    /\ UNCHANGED <<files, moved>>
    /\ IsCounts(online') /\ Total(online') <= Total(online)
    /\ \A c : ValueAt(online', c) <= ValueAt(online, c)
    /\ TrafficTypes(traffic') /\ traffic'.last = traffic.last /\ traffic'.lastEach = traffic.lastEach
    /\ Total(traffic'.all) <= Total(traffic.all)
    /\ \A c : Total(ClientDays(traffic'.each, c)) <= Total(ClientDays(traffic.each, c))
    /\ sampler' \in [pc : {sampler'.pc}, read : {sampler'.read}] /\ IsCounts(sampler'.read)
    /\ sampler'.pc = "observe" => sampler.pc = "observe" /\ sampler'.read = sampler.read

LEMMA ShrinkKeeps ==
    ASSUME HistoryInv, Shrinks
    PROVE  HistoryInv'
<1>1. StatsTypes' BY DEF HistoryInv, StatsTypes, Shrinks
<1>2. CountedAll'
  <2>1. Counted(Total(traffic.all), traffic.last, Total(online), Total(sampler.read),
                sampler.pc = "observe", Total(moved))
    BY DEF HistoryInv, CountedAll
  <2>2. Total(traffic'.all) \in Nat /\ Total(online') \in Nat /\ Total(sampler'.read) \in Nat
    BY CountsNat DEF Shrinks, TrafficTypes
  <2>3. Counted(Total(traffic'.all), traffic.last, Total(online'), Total(sampler'.read),
                sampler'.pc = "observe", Total(moved))
    BY <2>1, <2>2, CountedLess DEF Shrinks
  <2> QED BY <2>3 DEF CountedAll, Shrinks
<1>3. ASSUME NEW c \in Clients PROVE CountedOne(c)'
  <2>1. Counted(Total(ClientDays(traffic.each, c)), ValueAt(traffic.lastEach, c), ValueAt(online, c),
                ValueAt(sampler.read, c), sampler.pc = "observe" /\ c \in DOMAIN sampler.read,
                moved[c])
    BY DEF HistoryInv, CountedOne
  <2>2. /\ Total(ClientDays(traffic'.each, c)) \in Nat /\ ValueAt(online', c) \in Nat
        /\ ValueAt(sampler'.read, c) \in Nat
    BY CountsNat, SharesCount DEF Shrinks, TrafficTypes
  <2>3. Counted(Total(ClientDays(traffic'.each, c)), ValueAt(traffic.lastEach, c), ValueAt(online', c),
                ValueAt(sampler'.read, c), sampler'.pc = "observe" /\ c \in DOMAIN sampler'.read,
                moved[c])
    BY <2>1, <2>2, CountedLess DEF Shrinks
  <2> QED BY <2>3 DEF CountedOne, Shrinks
<1>4. \A p \in Paths : FileCounted(files[p])' BY DEF HistoryInv, FileCounted, Shrinks
<1> QED BY <1>1, <1>2, <1>3, <1>4 DEF HistoryInv

LEMMA AsideKeeps ==
    ASSUME HistoryInv, UNCHANGED <<online, traffic, files, moved>>,
           sampler' \in [pc : {sampler'.pc}, read : {sampler'.read}], IsCounts(sampler'.read),
           sampler'.pc = "observe" => sampler' = sampler
    PROVE  HistoryInv'
<1>1. StatsTypes BY DEF HistoryInv
<1>2. Total(online) \in Nat /\ Total(traffic.all) \in Nat /\ \A c : ValueAt(online, c) \in Nat
  BY <1>1, CountsNat DEF StatsTypes, TrafficTypes
<1>3. \A c : Total(ClientDays(traffic.each, c)) \in Nat BY <1>1, SharesCount DEF StatsTypes, TrafficTypes
<1>4. Shrinks BY <1>1, <1>2, <1>3 DEF Shrinks, StatsTypes, TrafficTypes
<1> QED BY <1>4, ShrinkKeeps

LEMMA TrafficKeeps ==
    ASSUME HistoryInv, NEW days, NEW path \in Paths, ApplyTraffic(days, path), UNCHANGED <<online, sampler, files, moved>>
    PROVE  HistoryInv'
<1>1. StatsTypes BY DEF HistoryInv
<1>2. Total(online) \in Nat /\ \A c : ValueAt(online, c) \in Nat BY <1>1, CountsNat DEF StatsTypes
<1>3. PICK t : t = [traffic EXCEPT !.days = days, !.file = path] OBVIOUS
<1>4. /\ TrafficTypes(t) /\ t.last = traffic.last /\ t.lastEach = traffic.lastEach
      /\ t.all = traffic.all /\ t.each = traffic.each
  BY <1>1, <1>3 DEF StatsTypes, TrafficTypes
<1>5. traffic' = Trim(t) BY <1>3 DEF ApplyTraffic
<1>6. /\ TrafficTypes(traffic') /\ traffic'.last = t.last /\ traffic'.lastEach = t.lastEach
      /\ Total(traffic'.all) <= Total(t.all)
      /\ \A c : Total(ClientDays(traffic'.each, c)) <= Total(ClientDays(t.each, c))
  BY <1>4, <1>5, Trimmed
<1>7. Shrinks BY <1>1, <1>2, <1>4, <1>6 DEF Shrinks, StatsTypes
<1> QED BY <1>7, ShrinkKeeps

LEMMA OnlineKeeps ==
    ASSUME HistoryInv, UNCHANGED <<sampler, traffic, files, moved>>,
           IsCounts(online'), Total(online') <= Total(online),
           \A c : ValueAt(online', c) <= ValueAt(online, c)
    PROVE  HistoryInv'
<1>1. StatsTypes BY DEF HistoryInv
<1>2. Total(traffic.all) \in Nat /\ \A c : Total(ClientDays(traffic.each, c)) \in Nat
  BY <1>1, CountsNat, SharesCount DEF StatsTypes, TrafficTypes
<1>3. Shrinks BY <1>1, <1>2 DEF Shrinks, StatsTypes
<1> QED BY <1>3, ShrinkKeeps

LEMMA ConnectKeeps ==
    ASSUME HistoryInv, NEW c, Connect(c)
    PROVE  HistoryInv'
<1>1. online' = Plus(online, c, 0) /\ UNCHANGED <<sampler, traffic, files, moved>>
  BY DEF Connect, trafficVars
<1>2. IsCounts(online) BY DEF HistoryInv, StatsTypes
<1>3. Total(online) \in Nat /\ \A d : ValueAt(online, d) \in Nat BY <1>2, CountsNat
<1>4. /\ IsCounts(online') /\ Total(online') = Total(online) + 0
      /\ \A d : ValueAt(online', d) = ValueAt(online, d) + IF d = c THEN 0 ELSE 0
  BY <1>1, <1>2, TotalPlus
<1>5. Total(online') <= Total(online) /\ \A d : ValueAt(online', d) <= ValueAt(online, d)
  BY <1>3, <1>4
<1> QED BY <1>1, <1>4, <1>5, OnlineKeeps

LEMMA GoneKeeps ==
    ASSUME HistoryInv, NEW K, online' = Restrict(online, DOMAIN online \ K),
           UNCHANGED <<sampler, traffic, files, moved>>
    PROVE  HistoryInv'
<1>1. IsCounts(online) BY DEF HistoryInv, StatsTypes
<1>2. /\ IsCounts(online') /\ Total(online') <= Total(online)
      /\ \A c : ValueAt(online', c) <= ValueAt(online, c)
  BY <1>1, Fewer
<1> QED BY <1>2, OnlineKeeps

LEMMA MovedCounts ==
    ASSUME StatsTypes
    PROVE  IsCounts(moved) /\ DOMAIN moved = Clients
BY WebStatsAssumption DEF StatsTypes, IsCounts

LEMMA PlusOne ==
    ASSUME NEW f, IsCounts(f), NEW x \in DOMAIN f
    PROVE  [f EXCEPT ![x] = f[x] + 1] = Plus(f, x, 1)
<1>1. PICK g : g = Plus(f, x, 1) OBVIOUS
<1>2. PICK h : h = [f EXCEPT ![x] = f[x] + 1] OBVIOUS
<1>3. f \in [DOMAIN f -> Nat] BY DEF IsCounts
<1>4. DOMAIN f \cup {x} = DOMAIN f OBVIOUS
<1>5. g = [y \in DOMAIN f |-> f[y] + IF y = x THEN 1 ELSE 0] BY <1>1, <1>4 DEF Plus
<1>6. h = [y \in DOMAIN f |-> IF y = x THEN f[x] + 1 ELSE f[y]] BY <1>2, <1>3
<1>7. \A y \in DOMAIN f : f[y] + (IF y = x THEN 1 ELSE 0) = IF y = x THEN f[x] + 1 ELSE f[y] BY <1>3
<1> QED BY <1>1, <1>2, <1>5, <1>6, <1>7

LEMMA MoveKeeps ==
    ASSUME HistoryInv, NEW c \in Clients, Move(c)
    PROVE  HistoryInv'
<1>1. StatsTypes BY DEF HistoryInv
<1>2. IsCounts(online) /\ IsCounts(moved) /\ DOMAIN moved = Clients
  BY <1>1, MovedCounts DEF StatsTypes
<1>3. /\ online' = [online EXCEPT ![c] = online[c] + 1] /\ moved' = [moved EXCEPT ![c] = moved[c] + 1]
      /\ UNCHANGED <<sampler, traffic, files>> /\ c \in DOMAIN online
  BY DEF Move, trafficVars
<1>4. online' = Plus(online, c, 1) BY <1>2, <1>3, PlusOne
<1>5. moved' = Plus(moved, c, 1) BY <1>2, <1>3, PlusOne
<1>6. /\ IsCounts(online') /\ Total(online') = Total(online) + 1
      /\ \A d : ValueAt(online', d) = ValueAt(online, d) + IF d = c THEN 1 ELSE 0
  BY <1>2, <1>4, TotalPlus
<1>7. /\ IsCounts(moved') /\ Total(moved') = Total(moved) + 1
  BY <1>2, <1>5, TotalPlus
<1>8. StatsTypes'
  <2>1. moved' \in [Clients -> Nat] BY <1>1, <1>3 DEF StatsTypes
  <2> QED BY <1>1, <1>3, <1>6, <2>1 DEF StatsTypes
<1>9. CountedAll'
  <2>1. Counted(Total(traffic.all), traffic.last, Total(online), Total(sampler.read),
                sampler.pc = "observe", Total(moved))
    BY DEF HistoryInv, CountedAll
  <2>2. Counted(Total(traffic.all), traffic.last, Total(online) + 1, Total(sampler.read),
                sampler.pc = "observe", Total(moved) + 1)
    BY <2>1, CountedMoved
  <2> QED BY <1>3, <1>6, <1>7, <2>2 DEF CountedAll
<1>10. ASSUME NEW d \in Clients PROVE CountedOne(d)'
  <2>1. Counted(Total(ClientDays(traffic.each, d)), ValueAt(traffic.lastEach, d), ValueAt(online, d),
                ValueAt(sampler.read, d), sampler.pc = "observe" /\ d \in DOMAIN sampler.read,
                moved[d])
    BY DEF HistoryInv, CountedOne
  <2>2. Counted(Total(ClientDays(traffic.each, d)), ValueAt(traffic.lastEach, d), ValueAt(online', d),
                ValueAt(sampler.read, d), sampler.pc = "observe" /\ d \in DOMAIN sampler.read,
                moved'[d])
    <3>1. CASE d = c
      <4>1. ValueAt(online', d) = ValueAt(online, d) + 1 BY <1>6, <3>1
      <4>2. moved'[d] = moved[d] + 1 BY <1>1, <1>3, <3>1 DEF StatsTypes
      <4> QED BY <2>1, <4>1, <4>2, CountedMoved
    <3>2. CASE d # c
      <4>1. ValueAt(online, d) \in Nat BY <1>2, CountsNat
      <4>2. ValueAt(online', d) = ValueAt(online, d) BY <1>6, <3>2, <4>1
      <4>3. moved'[d] = moved[d] BY <1>1, <1>3, <3>2 DEF StatsTypes
      <4> QED BY <2>1, <4>2, <4>3
    <3> QED BY <3>1, <3>2
  <2> QED BY <1>3, <2>2 DEF CountedOne
<1>11. ASSUME NEW p \in Paths PROVE FileCounted(files[p])'
  <2>1. FileCounted(files[p]) /\ files' = files BY <1>3 DEF HistoryInv
  <2>2. IsFile(files[p]) BY <1>1 DEF StatsTypes
  <2>3. Total(files[p].all) \in Nat /\ Total(moved) \in Nat BY <1>2, <2>2, CountsNat DEF IsFile
  <2>4. Total(files[p].all) <= Total(moved') BY <1>7, <2>1, <2>3 DEF FileCounted
  <2>5. ASSUME NEW d \in Clients PROVE Total(ClientDays(files[p].each, d)) <= moved'[d]
    <3>1. Total(ClientDays(files[p].each, d)) \in Nat BY <2>2, SharesCount DEF IsFile
    <3>2. moved[d] \in Nat /\ moved'[d] \in Nat /\ moved[d] <= moved'[d] BY <1>1, <1>3 DEF StatsTypes
    <3> QED BY <2>1, <3>1, <3>2 DEF FileCounted
  <2> QED BY <2>1, <2>4, <2>5 DEF FileCounted
<1> QED BY <1>8, <1>9, <1>10, <1>11 DEF HistoryInv

LEMMA ReadKeeps ==
    ASSUME HistoryInv, ReadStats
    PROVE  HistoryInv'
<1>1. StatsTypes BY DEF HistoryInv
<1>2. /\ UNCHANGED <<online, traffic, files, moved>>
      /\ sampler' = [pc |-> "observe", read |-> online] /\ sampler'.read = online
  BY DEF ReadStats
<1>3. StatsTypes' BY <1>1, <1>2 DEF StatsTypes
<1>4. CountedAll'
  <2>1. Counted(Total(traffic.all), traffic.last, Total(online), Total(sampler.read),
                sampler.pc = "observe", Total(moved))
    BY DEF HistoryInv, CountedAll
  <2>2. Counted(Total(traffic.all), traffic.last, Total(online), Total(online),
                sampler'.pc = "observe", Total(moved))
    BY <2>1, CountedRead
  <2> QED BY <1>2, <2>2 DEF CountedAll
<1>5. ASSUME NEW c \in Clients PROVE CountedOne(c)'
  <2>1. Counted(Total(ClientDays(traffic.each, c)), ValueAt(traffic.lastEach, c), ValueAt(online, c),
                ValueAt(sampler.read, c), sampler.pc = "observe" /\ c \in DOMAIN sampler.read,
                moved[c])
    BY DEF HistoryInv, CountedOne
  <2>2. Counted(Total(ClientDays(traffic.each, c)), ValueAt(traffic.lastEach, c), ValueAt(online, c),
                ValueAt(online, c), sampler'.pc = "observe" /\ c \in DOMAIN sampler'.read,
                moved[c])
    BY <2>1, CountedRead
  <2> QED BY <1>2, <2>2 DEF CountedOne
<1>6. \A p \in Paths : FileCounted(files[p])' BY <1>2 DEF HistoryInv, FileCounted
<1> QED BY <1>3, <1>4, <1>5, <1>6 DEF HistoryInv

LEMMA PersistKeeps ==
    ASSUME HistoryInv, NEW ok \in BOOLEAN, PersistAll(ok) \/ PersistEach(ok)
    PROVE  HistoryInv'
<1>1. StatsTypes BY DEF HistoryInv
<1>2. UNCHANGED <<online, traffic, moved>> BY DEF PersistAll, PersistEach
<1>3. PICK pc : pc # "observe" /\ sampler' = [sampler EXCEPT !.pc = pc] BY DEF PersistAll, PersistEach
<1>4. /\ sampler'.pc = pc /\ sampler'.read = sampler.read
      /\ sampler' \in [pc : {sampler'.pc}, read : {sampler'.read}]
  BY <1>1, <1>3 DEF StatsTypes
<1>5. PICK q \in Paths : q = traffic.file BY <1>1 DEF StatsTypes, TrafficTypes
<1>6. PICK g : /\ g = files[q] \/ g = [files[q] EXCEPT !.all = traffic.all]
                  \/ g = [files[q] EXCEPT !.each = traffic.each]
               /\ files' = [files EXCEPT ![q] = g]
  <2>1. \/ files' = files
        \/ files' = [files EXCEPT ![q] = [files[q] EXCEPT !.all = traffic.all]]
        \/ files' = [files EXCEPT ![q] = [files[q] EXCEPT !.each = traffic.each]]
    BY <1>5 DEF PersistAll, PersistEach
  <2>2. files = [files EXCEPT ![q] = files[q]] BY <1>1 DEF StatsTypes
  <2> QED BY <2>1, <2>2
<1>7. IsFile(files[q]) BY <1>1 DEF StatsTypes
<1>8. /\ g \in [all : {g.all}, each : {g.each}]
      /\ g.all = files[q].all \/ g.all = traffic.all
      /\ g.each = files[q].each \/ g.each = traffic.each
  BY <1>6, <1>7 DEF IsFile
<1>9. IsFile(g) BY <1>1, <1>7, <1>8 DEF IsFile, StatsTypes, TrafficTypes
<1>10. /\ files' = [p \in Paths |-> files'[p]]
       /\ \A p \in Paths : files'[p] = IF p = q THEN g ELSE files[p]
  BY <1>1, <1>6 DEF StatsTypes
<1>11. StatsTypes' BY <1>1, <1>2, <1>4, <1>9, <1>10 DEF StatsTypes
<1>12. CountedAll'
  <2>1. Counted(Total(traffic.all), traffic.last, Total(online), Total(sampler.read),
                sampler.pc = "observe", Total(moved))
    BY DEF HistoryInv, CountedAll
  <2>2. Counted(Total(traffic.all), traffic.last, Total(online), Total(sampler.read), FALSE, Total(moved))
    BY <2>1 DEF Counted
  <2>3. (sampler'.pc = "observe") = FALSE BY <1>3, <1>4
  <2> QED BY <1>2, <1>4, <2>2, <2>3 DEF CountedAll
<1>13. ASSUME NEW c \in Clients PROVE CountedOne(c)'
  <2>1. Counted(Total(ClientDays(traffic.each, c)), ValueAt(traffic.lastEach, c), ValueAt(online, c),
                ValueAt(sampler.read, c), sampler.pc = "observe" /\ c \in DOMAIN sampler.read, moved[c])
    BY DEF HistoryInv, CountedOne
  <2>2. Counted(Total(ClientDays(traffic.each, c)), ValueAt(traffic.lastEach, c), ValueAt(online, c),
                ValueAt(sampler.read, c), FALSE, moved[c])
    BY <2>1 DEF Counted
  <2>3. (sampler'.pc = "observe" /\ c \in DOMAIN sampler'.read) = FALSE BY <1>3, <1>4
  <2> QED BY <1>2, <1>4, <2>2, <2>3 DEF CountedOne
<1>14. FileCounted(g)
  <2>1. FileCounted(files[q]) BY DEF HistoryInv
  <2>2. Total(traffic.all) <= Total(moved) BY DEF HistoryInv, CountedAll, Counted, Delta
  <2>3. ASSUME NEW c \in Clients PROVE Total(ClientDays(traffic.each, c)) <= moved[c]
    <3>1. CountedOne(c) BY DEF HistoryInv
    <3> QED BY <3>1 DEF CountedOne, Counted, Delta
  <2> QED BY <1>8, <2>1, <2>2, <2>3 DEF FileCounted
<1>15. ASSUME NEW p \in Paths PROVE FileCounted(files[p])'
  <2>1. FileCounted(files[p]) BY DEF HistoryInv
  <2>2. FileCounted(files'[p]) BY <1>10, <1>14, <2>1
  <2> QED BY <1>2, <2>2 DEF FileCounted
<1> QED BY <1>11, <1>12, <1>13, <1>15 DEF HistoryInv

LEMMA AnewKeeps ==
    ASSUME HistoryInv, NEW days, NEW path \in Paths, StatsRestart(days, path)
    PROVE  HistoryInv'
<1>1. StatsTypes BY DEF HistoryInv
<1>2. /\ UNCHANGED <<files, moved>> /\ online' = None /\ sampler' = [pc |-> "off", read |-> None]
  BY DEF StatsRestart
<1>3. PICK f : f = files[path] /\ IsFile(f) /\ FileCounted(f) BY <1>1 DEF StatsTypes, HistoryInv
<1>4. PICK t : t = [days |-> days, file |-> path, all |-> f.all, each |-> f.each, last |-> 0,
                    lastEach |-> None]
  OBVIOUS
<1>5. /\ TrafficTypes(t) /\ t.last = 0 /\ t.lastEach = None /\ t.all = f.all /\ t.each = f.each
  BY <1>3, <1>4, NoneCounts DEF IsFile, TrafficTypes
<1>6. traffic' = Trim(t) BY <1>3, <1>4 DEF StatsRestart
<1>7. /\ TrafficTypes(traffic') /\ traffic'.last = 0 /\ traffic'.lastEach = None
      /\ Total(traffic'.all) <= Total(f.all)
      /\ \A c : Total(ClientDays(traffic'.each, c)) <= Total(ClientDays(f.each, c))
  BY <1>5, <1>6, Trimmed
<1>8. sampler'.pc = "off" /\ sampler'.read = None BY <1>2
<1>9. StatsTypes' BY <1>1, <1>2, <1>7, <1>8, NoneCounts DEF StatsTypes
<1>10. CountedAll'
  <2>1. PICK k \in Nat : k = Total(traffic'.all) BY <1>7, CountsNat DEF TrafficTypes
  <2>2. PICK m \in Nat : m = Total(moved) BY <1>1, MovedCounts, CountsNat
  <2>3. Total(f.all) \in Nat BY <1>3, CountsNat DEF IsFile
  <2>4. k <= m BY <1>3, <1>7, <2>1, <2>2, <2>3 DEF FileCounted
  <2>5. Counted(k, 0, 0, 0, FALSE, m) BY <2>4, CountedAnew
  <2>6. (sampler'.pc = "observe") = FALSE BY <1>8
  <2> QED BY <1>2, <1>7, <1>8, <2>1, <2>2, <2>5, <2>6, NoneCounts DEF CountedAll
<1>11. ASSUME NEW c \in Clients PROVE CountedOne(c)'
  <2>1. PICK k \in Nat : k = Total(ClientDays(traffic'.each, c)) BY <1>7, SharesCount DEF TrafficTypes
  <2>2. PICK m \in Nat : m = moved[c] BY <1>1 DEF StatsTypes
  <2>3. Total(ClientDays(f.each, c)) \in Nat BY <1>3, SharesCount DEF IsFile
  <2>4. k <= m BY <1>3, <1>7, <2>1, <2>2, <2>3 DEF FileCounted
  <2>5. Counted(k, 0, 0, 0, FALSE, m) BY <2>4, CountedAnew
  <2>6. (sampler'.pc = "observe" /\ c \in DOMAIN sampler'.read) = FALSE BY <1>8
  <2> QED BY <1>2, <1>7, <1>8, <2>1, <2>2, <2>5, <2>6, NoneCounts DEF CountedOne
<1>12. \A p \in Paths : FileCounted(files[p])' BY <1>2 DEF HistoryInv, FileCounted
<1> QED BY <1>9, <1>10, <1>11, <1>12 DEF HistoryInv

\* What an observation adds for a client.
Added(c) ==
    IF c \in DOMAIN sampler.read THEN Delta(sampler.read[c], ValueAt(traffic.lastEach, c)) ELSE 0

LEMMA ObservedDay ==
    ASSUME StatsTypes, NEW each, NEW day,
           day = (IF today \in DOMAIN traffic.each THEN traffic.each[today] ELSE None),
           each = [c \in DOMAIN day \cup DOMAIN sampler.read |-> ValueAt(day, c) + Added(c)]
    PROVE  /\ IsCounts(each)
           /\ \A c : /\ Added(c) \in Nat /\ ValueAt(each, c) = ValueAt(day, c) + Added(c)
                     /\ ValueAt(day, c) = ValueAt(ClientDays(traffic.each, c), today)
                     /\ ValueAt(day, c) \in Nat
<1>1. IsCounts(sampler.read) /\ IsCounts(traffic.lastEach) /\ IsDays(traffic.each)
  BY DEF StatsTypes, TrafficTypes
<1>2. IsCounts(day) BY <1>1, NoneCounts DEF IsDays
<1>3. ASSUME NEW c PROVE Added(c) \in Nat /\ ValueAt(day, c) \in Nat
  <2>1. ValueAt(traffic.lastEach, c) \in Nat /\ ValueAt(day, c) \in Nat BY <1>1, <1>2, CountsNat
  <2>2. c \in DOMAIN sampler.read => sampler.read[c] \in Nat BY <1>1 DEF IsCounts
  <2> QED BY <2>1, <2>2 DEF Added, Delta
<1>4. IsCounts(each)
  <2>1. DOMAIN each = DOMAIN day \cup DOMAIN sampler.read OBVIOUS
  <2>2. IsFiniteSet(DOMAIN each) BY <1>1, <1>2, <2>1, FS_Union DEF IsCounts
  <2>3. \A c : ValueAt(day, c) + Added(c) \in Nat BY <1>3
  <2>4. each \in [DOMAIN each -> Nat] BY <2>1, <2>3
  <2> QED BY <2>2, <2>4 DEF IsCounts
<1>5. ASSUME NEW c PROVE ValueAt(each, c) = ValueAt(day, c) + Added(c)
  <2>1. CASE c \in DOMAIN day \cup DOMAIN sampler.read BY <2>1 DEF ValueAt
  <2>2. CASE c \notin DOMAIN day \cup DOMAIN sampler.read
    <3>1. ValueAt(each, c) = 0 /\ ValueAt(day, c) = 0 /\ Added(c) = 0 BY <2>2 DEF ValueAt, Added
    <3> QED BY <3>1
  <2> QED BY <2>1, <2>2
<1>6. ASSUME NEW c PROVE ValueAt(day, c) = ValueAt(ClientDays(traffic.each, c), today)
  BY NoneCounts DEF ValueAt, ClientDays
<1> QED BY <1>3, <1>4, <1>5, <1>6

\* A day's counts are put into the history.
LEMMA DayWritten ==
    ASSUME NEW each, IsDays(each), NEW day, IsCounts(day), NEW d, NEW h, NEW c, NEW k \in Nat,
           h = [e \in DOMAIN each \cup {d} |-> IF e = d THEN day ELSE each[e]],
           ValueAt(day, c) = ValueAt(ClientDays(each, c), d) + k
    PROVE  IsDays(h) /\ Total(ClientDays(h, c)) = Total(ClientDays(each, c)) + k
<1>1. DOMAIN h = DOMAIN each \cup {d} /\ h[d] = day OBVIOUS
<1>2. \A e \in DOMAIN each : e # d => h[e] = each[e] OBVIOUS
<1>3. IsDays(h)
  <2>1. IsFiniteSet(DOMAIN h) BY <1>1, FS_AddElement DEF IsDays
  <2>2. \A e \in DOMAIN h : IsCounts(h[e]) BY <1>1, <1>2 DEF IsDays
  <2> QED BY <2>1, <2>2 DEF IsDays
<1>4. PICK f : f = ClientDays(each, c) OBVIOUS
<1>5. PICK g : g = ClientDays(h, c) OBVIOUS
<1>6. IsCounts(f) /\ DOMAIN f = DOMAIN each
  <2>1. IsFiniteSet(DOMAIN each) /\ f \in [DOMAIN each -> Nat] BY <1>4, SharesCount
  <2> QED BY <2>1 DEF IsCounts
<1>7. IsCounts(g) /\ DOMAIN g = DOMAIN f \cup {d}
  <2>1. IsFiniteSet(DOMAIN h) /\ g \in [DOMAIN h -> Nat] BY <1>3, <1>5, SharesCount
  <2> QED BY <1>1, <1>6, <2>1 DEF IsCounts
<1>8. \A e \in DOMAIN f : e # d => g[e] = f[e] BY <1>1, <1>2, <1>4, <1>5, <1>6 DEF ClientDays
<1>9. g[d] = ValueAt(day, c) BY <1>1, <1>5 DEF ClientDays, ValueAt
<1>10. /\ Total(g) = Total(f) - ValueAt(f, d) + g[d]
       /\ Total(f) \in Nat /\ ValueAt(f, d) \in Nat
  BY <1>6, <1>7, <1>8, TotalChanged
<1>11. g[d] = ValueAt(f, d) + k BY <1>4, <1>9
<1>12. Total(g) = Total(f) + k BY <1>10, <1>11
<1> QED BY <1>3, <1>4, <1>5, <1>12

LEMMA ObserveKeeps ==
    ASSUME HistoryInv, Observe
    PROVE  HistoryInv'
<1>1. StatsTypes BY DEF HistoryInv
<1>2. PICK day : day = IF today \in DOMAIN traffic.each THEN traffic.each[today] ELSE None OBVIOUS
<1>3. PICK each : each = [c \in DOMAIN day \cup DOMAIN sampler.read |-> ValueAt(day, c) + Added(c)]
  OBVIOUS
<1>4. PICK n \in Nat : n = Delta(Total(sampler.read), traffic.last)
  BY <1>1, CountsNat DEF StatsTypes, TrafficTypes, Delta
<1>5. PICK a : a = Plus(traffic.all, today, n) OBVIOUS
<1>6. PICK h : h = IF sampler.read = None THEN traffic.each
                   ELSE [d \in DOMAIN traffic.each \cup {today} |->
                            IF d = today THEN each ELSE traffic.each[d]]
  OBVIOUS
<1>7. PICK w : w = [c \in DOMAIN traffic.lastEach \cup DOMAIN sampler.read |->
                       IF c \in DOMAIN sampler.read THEN sampler.read[c] ELSE traffic.lastEach[c]]
  OBVIOUS
<1>8. PICK t : t = [traffic EXCEPT !.all = a, !.each = h, !.last = Total(sampler.read), !.lastEach = w]
  OBVIOUS
<1>9. traffic' = Trim(t)
  BY <1>2, <1>3, <1>4, <1>5, <1>6, <1>7, <1>8 DEF Observe, ValueAt, Added
<1>10. /\ sampler.pc = "observe" /\ UNCHANGED <<online, files, moved>>
       /\ \E due \in BOOLEAN : sampler' = [sampler EXCEPT !.pc = IF due THEN "persist" ELSE "events"]
  BY DEF Observe
<1>11. /\ sampler'.pc # "observe" /\ sampler'.read = sampler.read
       /\ sampler' \in [pc : {sampler'.pc}, read : {sampler'.read}]
  BY <1>1, <1>10 DEF StatsTypes
<1>12. /\ IsCounts(each)
       /\ \A c : /\ Added(c) \in Nat /\ ValueAt(each, c) = ValueAt(day, c) + Added(c)
                 /\ ValueAt(day, c) = ValueAt(ClientDays(traffic.each, c), today)
  BY <1>1, <1>2, <1>3, ObservedDay
<1>13. IsCounts(a) /\ Total(a) = Total(traffic.all) + n BY <1>1, <1>5, TotalPlus DEF StatsTypes, TrafficTypes
<1>14. IsDays(h) /\ \A c : Total(ClientDays(h, c)) = Total(ClientDays(traffic.each, c)) + Added(c)
  <2>1. IsDays(traffic.each) BY <1>1 DEF StatsTypes, TrafficTypes
  <2>2. CASE sampler.read = None
    <3>1. \A c : Added(c) = 0 BY <2>2, NoneCounts DEF Added
    <3>2. \A c : Total(ClientDays(traffic.each, c)) \in Nat BY <2>1, SharesCount
    <3> QED BY <1>6, <2>1, <2>2, <3>1, <3>2
  <2>3. CASE sampler.read # None
    <3>1. h = [d \in DOMAIN traffic.each \cup {today} |-> IF d = today THEN each ELSE traffic.each[d]]
      BY <1>6, <2>3
    <3>2. ASSUME NEW c PROVE IsDays(h) /\ Total(ClientDays(h, c)) = Total(ClientDays(traffic.each, c)) + Added(c)
      <4>1. PICK k \in Nat : k = Added(c) BY <1>12
      <4>2. ValueAt(each, c) = ValueAt(ClientDays(traffic.each, c), today) + k BY <1>12, <4>1
      <4>3. IsDays(h) /\ Total(ClientDays(h, c)) = Total(ClientDays(traffic.each, c)) + k
        BY <1>12, <2>1, <3>1, <4>2, DayWritten
      <4> QED BY <4>1, <4>3
    <3> QED BY <3>2
  <2> QED BY <2>2, <2>3
<1>15. /\ IsCounts(w)
       /\ \A c : c \in DOMAIN sampler.read => ValueAt(w, c) = ValueAt(sampler.read, c)
       /\ \A c : c \notin DOMAIN sampler.read => ValueAt(w, c) = ValueAt(traffic.lastEach, c)
  <2>1. IsCounts(sampler.read) /\ IsCounts(traffic.lastEach) BY <1>1 DEF StatsTypes, TrafficTypes
  <2>2. DOMAIN w = DOMAIN traffic.lastEach \cup DOMAIN sampler.read BY <1>7
  <2>3. IsFiniteSet(DOMAIN w) BY <2>1, <2>2, FS_Union DEF IsCounts
  <2>4. w \in [DOMAIN w -> Nat] BY <1>7, <2>1, <2>2 DEF IsCounts
  <2> QED BY <1>7, <2>2, <2>3, <2>4 DEF IsCounts, ValueAt
<1>16. Total(sampler.read) \in Nat /\ \A c : ValueAt(sampler.read, c) \in Nat
  BY <1>1, CountsNat DEF StatsTypes
<1>17. /\ TrafficTypes(t) /\ t.all = a /\ t.each = h /\ t.last = Total(sampler.read) /\ t.lastEach = w
  <2>1. /\ t \in [days : {t.days}, file : Paths, all : {a}, each : {h}, last : Nat, lastEach : {w}]
        /\ t.all = a /\ t.each = h /\ t.last = Total(sampler.read) /\ t.lastEach = w
    BY <1>1, <1>8, <1>16 DEF StatsTypes, TrafficTypes
  <2> QED BY <1>13, <1>14, <1>15, <2>1 DEF TrafficTypes
<1>18. /\ TrafficTypes(traffic') /\ traffic'.last = Total(sampler.read) /\ traffic'.lastEach = w
       /\ Total(traffic'.all) <= Total(a)
       /\ \A c : Total(ClientDays(traffic'.each, c)) <= Total(ClientDays(h, c))
  BY <1>9, <1>17, Trimmed
<1>19. StatsTypes' BY <1>1, <1>10, <1>11, <1>18 DEF StatsTypes
<1>20. CountedAll'
  <2>1. Counted(Total(traffic.all), traffic.last, Total(online), Total(sampler.read), TRUE,
                Total(moved))
    BY <1>10 DEF HistoryInv, CountedAll
  <2>2. PICK k \in Nat : k = Total(traffic'.all) BY <1>18, CountsNat DEF TrafficTypes
  <2>3. k <= Total(traffic.all) + Delta(Total(sampler.read), traffic.last) BY <1>4, <1>13, <1>18, <2>2
  <2>4. Counted(k, Total(sampler.read), Total(online), Total(sampler.read), FALSE, Total(moved))
    BY <2>1, <2>3, CountedObserved
  <2>5. (sampler'.pc = "observe") = FALSE BY <1>11
  <2> QED BY <1>10, <1>11, <1>18, <2>2, <2>4, <2>5 DEF CountedAll
<1>21. ASSUME NEW c \in Clients PROVE CountedOne(c)'
  <2>1. Counted(Total(ClientDays(traffic.each, c)), ValueAt(traffic.lastEach, c), ValueAt(online, c),
                ValueAt(sampler.read, c), c \in DOMAIN sampler.read,
                moved[c])
    BY <1>10 DEF HistoryInv, CountedOne
  <2>2. PICK k \in Nat : k = Total(ClientDays(traffic'.each, c)) BY <1>18, SharesCount DEF TrafficTypes
  <2>3. k <= Total(ClientDays(traffic.each, c)) + Added(c) BY <1>14, <1>18, <2>2
  <2>4. Counted(k, ValueAt(w, c), ValueAt(online, c), ValueAt(sampler.read, c), FALSE,
                moved[c])
    <3>1. CASE c \in DOMAIN sampler.read
      <4>1. Added(c) = Delta(ValueAt(sampler.read, c), ValueAt(traffic.lastEach, c))
        BY <3>1 DEF Added, ValueAt
      <4>2. Counted(Total(ClientDays(traffic.each, c)), ValueAt(traffic.lastEach, c), ValueAt(online, c),
                    ValueAt(sampler.read, c), TRUE, moved[c])
        BY <2>1, <3>1 DEF Counted
      <4>3. Counted(k, ValueAt(sampler.read, c), ValueAt(online, c), ValueAt(sampler.read, c), FALSE,
                    moved[c])
        BY <2>3, <4>1, <4>2, CountedObserved
      <4> QED BY <1>15, <3>1, <4>3
    <3>2. CASE c \notin DOMAIN sampler.read
      <4>1. Added(c) = 0 /\ ValueAt(w, c) = ValueAt(traffic.lastEach, c) BY <1>15, <3>2 DEF Added
      <4>2. k <= Total(ClientDays(traffic.each, c)) BY <2>1, <2>3, <4>1 DEF Counted
      <4>3. PICK o \in Nat : o = ValueAt(online, c) BY <2>1 DEF Counted
      <4>4. Counted(k, ValueAt(traffic.lastEach, c), o, ValueAt(sampler.read, c), FALSE,
                    moved[c])
        BY <2>1, <4>2, <4>3 DEF Counted, Delta
      <4> QED BY <4>1, <4>3, <4>4
    <3> QED BY <3>1, <3>2
  <2>5. (sampler'.pc = "observe" /\ c \in DOMAIN sampler'.read) = FALSE BY <1>11
  <2> QED BY <1>10, <1>11, <1>18, <2>2, <2>4, <2>5 DEF CountedOne
<1>22. \A p \in Paths : FileCounted(files[p])' BY <1>10 DEF HistoryInv, FileCounted
<1> QED BY <1>19, <1>20, <1>21, <1>22 DEF HistoryInv

LEMMA HistoryInitial == Init => HistoryInv
<1> SUFFICES ASSUME Init PROVE HistoryInv OBVIOUS
<1>1. /\ online = None /\ sampler = [pc |-> "off", read |-> None]
      /\ traffic = [days |-> KeptDays, file |-> FirstPath, all |-> None, each |-> None, last |-> 0,
                    lastEach |-> None]
      /\ files = [p \in Paths |-> [all |-> None, each |-> None]] /\ moved = [c \in Clients |-> 0]
  BY DEF Init, StatsInit
<1>2. /\ sampler.pc = "off" /\ sampler.read = None
      /\ traffic.all = None /\ traffic.each = None /\ traffic.last = 0 /\ traffic.lastEach = None
      /\ traffic.days = KeptDays
      /\ \A p \in Paths : files[p] = [all |-> None, each |-> None]
  BY <1>1
<1>3. StatsTypes
  <2>1. TrafficTypes(traffic) BY <1>1, <1>2, NoneCounts, WebStatsAssumption DEF TrafficTypes
  <2>2. \A p \in Paths : IsFile(files[p]) BY <1>2, NoneCounts DEF IsFile
  <2>3. files = [p \in Paths |-> files[p]] BY <1>1
  <2> QED BY <1>1, <1>2, <2>1, <2>2, <2>3, NoneCounts DEF StatsTypes
<1>4. Total(moved) \in Nat /\ \A c \in Clients : moved[c] = 0
  BY <1>1, <1>3, MovedCounts, CountsNat
<1>5. CountedAll BY <1>1, <1>2, <1>4, NoneCounts DEF CountedAll, Counted, Delta
<1>6. \A c \in Clients : CountedOne(c) BY <1>1, <1>2, <1>4, NoneCounts DEF CountedOne, Counted, Delta
<1>7. \A p \in Paths : FileCounted(files[p]) BY <1>2, <1>4, NoneCounts DEF FileCounted
<1> QED BY <1>3, <1>5, <1>6, <1>7 DEF HistoryInv

LEMMA SamplerKeeps ==
    ASSUME HistoryInv, StartSampler \/ Sleep \/ \E c \in Clients : ClientEvent(c)
    PROVE  HistoryInv'
<1>1. StatsTypes BY DEF HistoryInv
<1>2. UNCHANGED <<online, traffic, files, moved>> BY DEF StartSampler, Sleep, ClientEvent
<1>3. CASE StartSampler
  <2>1. /\ sampler' \in [pc : {sampler'.pc}, read : {sampler'.read}] /\ sampler'.pc = "sleep"
        /\ sampler'.read = sampler.read
    BY <1>1, <1>3 DEF StartSampler, StatsTypes
  <2>2. IsCounts(sampler'.read) BY <1>1, <2>1 DEF StatsTypes
  <2> QED BY <1>2, <2>1, <2>2, AsideKeeps
<1>4. CASE Sleep
  <2>1. /\ sampler' \in [pc : {sampler'.pc}, read : {sampler'.read}] /\ sampler'.pc = "sleep"
        /\ IsCounts(sampler'.read)
    BY <1>4, NoneCounts DEF Sleep
  <2> QED BY <1>2, <2>1, AsideKeeps
<1>5. CASE \E c \in Clients : ClientEvent(c)
  <2>1. sampler' = sampler BY <1>5 DEF ClientEvent
  <2>2. sampler' \in [pc : {sampler'.pc}, read : {sampler'.read}] /\ IsCounts(sampler'.read)
    BY <1>1, <2>1 DEF StatsTypes
  <2> QED BY <1>2, <2>1, <2>2, AsideKeeps
<1> QED BY <1>3, <1>4, <1>5

LEMMA StatsKept ==
    ASSUME HistoryInv, UNCHANGED <<online, sampler, traffic, files, moved>>
    PROVE  HistoryInv'
<1>1. sampler' \in [pc : {sampler'.pc}, read : {sampler'.read}] /\ IsCounts(sampler'.read)
  BY DEF HistoryInv, StatsTypes
<1> QED BY <1>1, AsideKeeps

LEMMA HistoryStep == HistoryInv /\ [Next]_vars => HistoryInv'
<1> SUFFICES ASSUME HistoryInv, [Next]_vars PROVE HistoryInv' OBVIOUS
<1>1. CASE UNCHANGED statsVars BY <1>1, StatsKept DEF statsVars, trafficVars
<1>2. ASSUME NEW l \in Listeners, SaveDone(l) PROVE HistoryInv'
  <2>1. UNCHANGED <<online, sampler, files, moved>> BY <1>2 DEF SaveDone
  <2>2. CASE UNCHANGED traffic BY <2>1, <2>2, StatsKept
  <2>3. CASE \E path \in Paths : ApplyTraffic(listener[l].merged.days, path)
    BY <2>1, <2>3, TrafficKeeps
  <2> QED BY <1>2, <2>2, <2>3 DEF SaveDone
<1>3. ASSUME NEW l \in Listeners, NEW k \in SUBSET Clients, Control(l, k) PROVE HistoryInv'
  BY <1>3, GoneKeeps DEF Control, trafficVars
<1>4. ASSUME NEW c \in Clients, Connect(c) \/ Disconnect(c) \/ Move(c) PROVE HistoryInv'
  <2>1. CASE Connect(c) BY <2>1, ConnectKeeps
  <2>2. CASE Disconnect(c) BY <2>2, GoneKeeps DEF Disconnect, trafficVars
  <2>3. CASE Move(c) BY <2>3, MoveKeeps
  <2> QED BY <1>4, <2>1, <2>2, <2>3
<1>5. CASE StartSampler \/ Sleep \/ \E c \in Clients : ClientEvent(c) BY <1>5, SamplerKeeps
<1>6. CASE Midnight BY <1>6, StatsKept DEF Midnight, trafficVars
<1>7. ASSUME NEW ok \in BOOLEAN, PersistAll(ok) \/ PersistEach(ok) PROVE HistoryInv'
  BY <1>7, PersistKeeps
<1>8. ASSUME NEW b \in Browsers, Leave(b) \/ Refill(b) \/ \E after \in 0..hub.seq + 1 : Subscribe(b, after)
      PROVE  HistoryInv'
  BY <1>8, StatsKept DEF Leave, Refill, Subscribe, trafficVars
<1>9. CASE ReadStats BY <1>9, ReadKeeps
<1>10. CASE Observe BY <1>10, ObserveKeeps
<1>11. CASE Restart BY <1>11, AnewKeeps DEF Restart
<1>12. CASE PanelStep
  <2>1. \/ UNCHANGED statsVars
        \/ \E l \in Listeners : SaveDone(l) \/ \E k \in SUBSET Clients : Control(l, k)
    BY <1>12 DEF PanelStep
  <2> QED BY <1>1, <1>2, <1>3, <2>1
<1>13. CASE StatsStep
  <2>1. \/ \E c \in Clients : Connect(c) \/ Disconnect(c) \/ Move(c)
        \/ StartSampler \/ Sleep \/ \E c \in Clients : ClientEvent(c)
        \/ Midnight \/ ReadStats \/ Observe
        \/ \E ok \in BOOLEAN : PersistAll(ok) \/ PersistEach(ok)
        \/ \E b \in Browsers : Leave(b) \/ Refill(b) \/ \E after \in 0..hub.seq + 1 : Subscribe(b, after)
    BY <1>13 DEF StatsStep
  <2> QED BY <1>4, <1>5, <1>6, <1>7, <1>8, <1>9, <1>10, <2>1
<1> QED BY <1>1, <1>11, <1>12, <1>13 DEF Next, vars

\* The traffic history of src/web_parity.rs never shows more than was moved, for
\* any number of clients, sessions, days, files, restarts and failed writes: what is in
\* the history and what the next observation will add to it, whatever reading is
\* on its way, never exceed the bytes that were moved.
THEOREM HistoryTrue == Spec => []NeverOvercounts
<1>1. HistoryInv => NeverOvercounts
  <2> SUFFICES ASSUME HistoryInv PROVE NeverOvercounts OBVIOUS
  <2>1. Total(traffic.all) <= Total(moved) BY DEF HistoryInv, CountedAll, Counted, Delta
  <2>2. ASSUME NEW c \in Clients PROVE Total(ClientDays(traffic.each, c)) <= moved[c]
    <3>1. CountedOne(c) BY DEF HistoryInv
    <3> QED BY <3>1 DEF CountedOne, Counted, Delta
  <2> QED BY <2>1, <2>2 DEF NeverOvercounts
<1> QED BY <1>1, HistoryInitial, HistoryStep, PTL DEF Spec

(***************************************************************************)
(* Coming back to a session.                                               *)
(***************************************************************************)

StateRecords == [mac : Int, cid : Int, sid : Nat, token : Nat, epoch : Nat]
ClientEnds == [pc : {"none", "tls", "sent", "up"}, gen : Nat, inst : Nat]
ServerEnds == [pc : {"none", "request", "admitted", "answered"}, mac : Int, inst : Nat, token : Nat,
               obj : Nat, epoch : Nat, answer : Nat]
ServerSessions == [inst : Int, epoch : Nat, current : Nat, pending : Nat, active : Nat,
                   deadline : BOOLEAN]

ResumeTypes ==
    /\ stateFile \in StateRecords /\ ident \in StateRecords
    /\ ss \in [sid : Nat, token : Nat, epoch : Nat]
    /\ alive \in BOOLEAN /\ macs \in Nat /\ insts \in Nat /\ inst \in Nat /\ gen \in Nat
    /\ cli \in [Conns -> ClientEnds] /\ srv \in [Conns -> ServerEnds]
    /\ live \in [1..MaxMac -> Nat] /\ obj \in [Objs -> ServerSessions]
    /\ tokens \in Nat

\* There is one address and, of the n sessions there were, the latest is the
\* only one the server may still have.
OneClient(n) ==
    /\ n \in Nat /\ Created = 1..n
    /\ stateFile.mac \in {NoMac, BadMac} \cup 1..MaxMac
    /\ stateFile.mac = NoMac => ~alive /\ n = 0 /\ \A c \in Conns : srv[c].pc = "none"
    /\ ~alive => ident = NoState /\ \A c \in Conns : cli[c].pc = "none"
    /\ alive => mac = stateFile.mac /\ ident.mac = stateFile.mac
    /\ \A c \in Conns : srv[c].pc # "none" => srv[c].mac = stateFile.mac
    /\ \A c \in Conns : srv[c].pc \in {"admitted", "answered"} =>
          stateFile.mac # BadMac /\ srv[c].obj \in 1..n
    /\ \A m \in 1..MaxMac : live[m] # NoObj => m = stateFile.mac /\ live[m] = n

\* What is stored: nothing yet, or the answer of a session.
Stores(x, n) ==
    \/ x.cid = NoMac /\ x.sid = NoObj /\ x.token = NoToken /\ x.epoch = 0
    \/ x.cid = stateFile.mac /\ x.sid \in 1..n /\ x.token > 0

\* The copies of the state: in the session, in the identity and in the file,
\* which a save makes equal.
Copies(n) ==
    /\ Stores(stateFile, n) /\ Stores(ident, n)
    /\ alive => /\ ss.sid = ident.sid /\ ss.token = ident.token /\ ss.epoch = ident.epoch
                /\ stateFile.token <= ident.token
                /\ saving = NoSave => stateFile = ident
    /\ ~alive => saving = NoSave
    /\ stateFile.sid < n => stateFile.epoch <= 1
    /\ ident.sid < n => ident.epoch <= 1

\* The latest session has the latest token to give out, and before it was shown
\* the one before it as well.
Accepted(t, n) == t = tokens \/ (t = tokens - 1 /\ obj[n].pending # NoToken)

TokenInv(n) ==
    /\ n = 0 => tokens = 0
    /\ n > 0 => /\ tokens > 0
                /\ \/ obj[n].pending = NoToken /\ obj[n].current = tokens
                   \/ obj[n].pending = tokens /\ obj[n].current = tokens - 1 /\ obj[n].current > 0
    /\ stateFile.token = NoToken => tokens <= 1
    /\ stateFile.token # NoToken => Accepted(stateFile.token, n)
    /\ ident.token # NoToken => Accepted(ident.token, n)
    /\ \A c \in Conns : srv[c].pc = "request" => srv[c].token <= stateFile.token

\* The answers of the latest session that are on their way: a later epoch has
\* no earlier token, neither than another answer nor than what is stored.
Answering(c, n) == srv[c].pc = "answered" /\ srv[c].obj = n
NotBefore(x, a, n) == x.sid < n \/ x.epoch <= a.epoch => x.token <= a.answer
AnswerInv(n) ==
    /\ \A c \in Conns : Answering(c, n) =>
          /\ srv[c].epoch \in 1..obj[n].epoch /\ srv[c].answer \in 1..tokens
          /\ srv[c].epoch = obj[n].epoch => srv[c].answer = tokens
          /\ NotBefore(stateFile, srv[c], n) /\ NotBefore(ident, srv[c], n)
    /\ \A c, d \in Conns : Answering(c, n) /\ Answering(d, n) /\ srv[c].epoch <= srv[d].epoch =>
          srv[c].answer <= srv[d].answer

InStep(n) == OneClient(n) /\ Copies(n) /\ TokenInv(n) /\ AnswerInv(n)

\* Until something the property excepts has happened.
ResumeInv == spoiled = {} => ResumeTypes /\ \E n \in Nat : InStep(n)

LEMMA ResumeBounds == MaxMac \in Nat /\ MaxObj \in Nat /\ InitMac \in {NoMac, BadMac} \cup 1..MaxMac
BY SessionResumeAssumption

LEMMA ResumeInitial == ResumeInit => ResumeInv
<1> SUFFICES ASSUME ResumeInit PROVE ResumeTypes /\ InStep(0)
  BY DEF ResumeInv
<1> USE DEF NoMac, BadMac, NoToken, NoObj
<1>1. InitMac \in Int BY ResumeBounds
<1>2. stateFile = [mac |-> InitMac, cid |-> 0, sid |-> 0, token |-> 0, epoch |-> 0]
  BY DEF ResumeInit, NoState
<1>3. ident = [mac |-> 0, cid |-> 0, sid |-> 0, token |-> 0, epoch |-> 0] BY DEF ResumeInit, NoState
<1>4. stateFile \in StateRecords /\ ident \in StateRecords BY <1>1, <1>2, <1>3 DEF StateRecords
<1>5. /\ cli \in [Conns -> ClientEnds] /\ \A c \in Conns : cli[c].pc = "none"
      /\ srv \in [Conns -> ServerEnds] /\ \A c \in Conns : srv[c].pc = "none"
  BY DEF ResumeInit, NoClient, NoServer, ClientEnds, ServerEnds
<1>6. /\ obj \in [Objs -> ServerSessions] /\ \A o \in Objs : obj[o].epoch = 0
      /\ live \in [1..MaxMac -> Nat] /\ \A m \in 1..MaxMac : live[m] = 0
  BY DEF ResumeInit, ServerSessions
<1>7. macs \in Nat BY <1>1 DEF ResumeInit
<1>8. /\ alive = FALSE /\ insts = 0 /\ inst = 0 /\ gen = 0 /\ tokens = 0 /\ ident = NoState
      /\ ss \in [sid : Nat, token : Nat, epoch : Nat] /\ saving = NoSave
  BY DEF ResumeInit, NoSession
<1>9. ResumeTypes BY <1>4, <1>5, <1>6, <1>7, <1>8 DEF ResumeTypes
<1>10. OneClient(0)
  <2>1. Created = 1..0 BY <1>6 DEF Created
  <2>2. stateFile.mac = InitMac BY <1>2
  <2> QED BY <1>5, <1>6, <1>8, <2>1, <2>2, ResumeBounds DEF OneClient
<1>11. Copies(0) BY <1>2, <1>3, <1>8 DEF Copies, Stores
<1>12. TokenInv(0) BY <1>2, <1>3, <1>5, <1>8 DEF TokenInv
<1>13. AnswerInv(0) BY <1>5 DEF AnswerInv, Answering
<1> QED BY <1>9, <1>10, <1>11, <1>12, <1>13 DEF InStep

\* Steps that keep what is stored: ends are closed, sessions forgotten, epochs
\* begun.
Recedes ==
    /\ UNCHANGED <<stateFile, alive, ident, mac, ss, saving, tokens>>
    /\ ~alive => \A c \in Conns : cli'[c].pc = "none"
    /\ \A c \in Conns : srv'[c] = srv[c] \/ srv'[c].pc = "none"
    /\ \A m \in 1..MaxMac : live'[m] = live[m] \/ live'[m] = NoObj
    /\ \A o \in Objs : /\ obj'[o].current = obj[o].current /\ obj'[o].pending = obj[o].pending
                       /\ obj'[o].epoch >= obj[o].epoch
                       /\ obj[o].epoch = 0 => obj'[o].epoch = 0

LEMMA LatestMade ==
    ASSUME NEW n, OneClient(n), n # 0
    PROVE  n \in Objs
<1>1. n \in 1..n BY DEF OneClient
<1> QED BY <1>1 DEF OneClient, Created

LEMMA RecedeKeeps ==
    ASSUME ResumeTypes, ResumeTypes', NEW n \in Nat, InStep(n), Recedes
    PROVE  InStep(n)'
<1>1. OneClient(n) /\ Copies(n) /\ TokenInv(n) /\ AnswerInv(n) BY DEF InStep
<1>2. UNCHANGED <<stateFile, alive, ident, mac, ss, saving, tokens>> BY DEF Recedes
<1>3. \A c \in Conns : srv'[c] = srv[c] \/ srv'[c].pc = "none" BY DEF Recedes
<1>4. /\ \A o \in Objs : obj[o] \in ServerSessions /\ obj'[o] \in ServerSessions
      /\ \A o \in Objs : obj[o].epoch \in Nat /\ obj'[o].epoch \in Nat
  BY DEF ResumeTypes, ServerSessions
<1>5. OneClient(n)'
  <2>1. \A o \in Objs : (obj'[o].epoch > 0) <=> (obj[o].epoch > 0) BY <1>4 DEF Recedes
  <2>2. Created' = Created BY <2>1 DEF Created
  <2>3. \A c \in Conns : srv'[c].pc # "none" => srv'[c] = srv[c] BY <1>3
  <2>4. \A m \in 1..MaxMac : live'[m] # NoObj => live'[m] = live[m] BY DEF Recedes
  <2>5. ~alive => \A c \in Conns : cli'[c].pc = "none" BY DEF Recedes
  <2>6. \A c \in Conns : srv[c].pc = "none" => srv'[c].pc = "none" BY <1>3
  <2> QED BY <1>1, <1>2, <2>2, <2>3, <2>4, <2>5, <2>6 DEF OneClient
<1>6. Copies(n)' BY <1>1, <1>2 DEF Copies, Stores
<1>7. n # 0 => obj'[n].current = obj[n].current /\ obj'[n].pending = obj[n].pending
               /\ obj'[n].epoch >= obj[n].epoch /\ obj'[n].epoch \in Nat /\ obj[n].epoch \in Nat
  BY <1>1, <1>4, LatestMade DEF Recedes
<1>8. TokenInv(n)'
  <2>1. \A c \in Conns : srv'[c].pc = "request" => srv'[c] = srv[c] BY <1>3
  <2>2. CASE n = 0
    <3>1. tokens = 0 /\ stateFile.token \in Nat /\ ident.token \in Nat
      BY <1>1, <2>2 DEF TokenInv, ResumeTypes, StateRecords
    <3>2. stateFile.token = NoToken /\ ident.token = NoToken
      BY <1>1, <2>2, <3>1 DEF Copies, Stores
    <3> QED BY <1>1, <1>2, <2>1, <2>2, <3>1, <3>2 DEF TokenInv
  <2>3. CASE n # 0 BY <1>1, <1>2, <1>7, <2>1, <2>3 DEF TokenInv, Accepted
  <2> QED BY <2>2, <2>3
<1>9. AnswerInv(n)'
  <2>1. \A c \in Conns : Answering(c, n)' => srv'[c] = srv[c] /\ Answering(c, n)
    BY <1>3 DEF Answering
  <2>2. \A c \in Conns : Answering(c, n) => n # 0 BY <1>1 DEF Answering, OneClient
  <2>3. ASSUME NEW c \in Conns, Answering(c, n)'
        PROVE  /\ srv'[c].epoch \in 1..obj'[n].epoch /\ srv'[c].answer \in 1..tokens'
               /\ srv'[c].epoch = obj'[n].epoch => srv'[c].answer = tokens'
               /\ NotBefore(stateFile, srv[c], n)' /\ NotBefore(ident, srv[c], n)'
    <3>1. srv'[c] = srv[c] /\ Answering(c, n) /\ n # 0 BY <2>1, <2>2, <2>3
    <3>2. /\ srv[c].epoch \in 1..obj[n].epoch /\ srv[c].answer \in 1..tokens
          /\ srv[c].epoch = obj[n].epoch => srv[c].answer = tokens
          /\ NotBefore(stateFile, srv[c], n) /\ NotBefore(ident, srv[c], n)
      BY <1>1, <3>1 DEF AnswerInv
    <3>3. NotBefore(stateFile, srv[c], n)' /\ NotBefore(ident, srv[c], n)'
      BY <1>2, <3>1, <3>2 DEF NotBefore
    <3> QED BY <1>2, <1>7, <3>1, <3>2, <3>3
  <2>4. \A c, d \in Conns : Answering(c, n)' /\ Answering(d, n)' /\ srv'[c].epoch <= srv'[d].epoch =>
            srv'[c].answer <= srv'[d].answer
    BY <1>1, <2>1 DEF AnswerInv
  <2> QED BY <2>3, <2>4 DEF AnswerInv
<1> QED BY <1>5, <1>6, <1>8, <1>9 DEF InStep

(* The steps of the client *)

\* What the steps of the ends have in common with ResumeTypes.
LEMMA ClientEndKeeps ==
    ASSUME ResumeTypes, NEW n \in Nat, InStep(n), NEW c \in Conns,
           Dial(c) \/ Lose(c) \/ SeeClosed(c) \/ Rekey(c) \/ ForcedReconnect(c)
    PROVE  ResumeTypes' /\ InStep(n)'
<1>1. UNCHANGED <<stateFile, alive, ident, mac, ss, saving, macs, srv, live, obj, tokens>>
  BY DEF Dial, Lose, SeeClosed, Rekey, ForcedReconnect, identity, server
<1>2. PICK e : e \in ClientEnds /\ (~alive => e.pc = "none") /\ cli' = [cli EXCEPT ![c] = e]
  <2>1. CASE Dial(c)
    <3>1. [pc |-> "tls", gen |-> gen, inst |-> inst] \in ClientEnds BY DEF ResumeTypes, ClientEnds
    <3> QED BY <2>1, <3>1 DEF Dial
  <2>2. CASE Lose(c) \/ SeeClosed(c) \/ Rekey(c) \/ ForcedReconnect(c)
    <3>1. NoClient \in ClientEnds /\ NoClient.pc = "none" BY DEF NoClient, ClientEnds
    <3>2. cli' = [cli EXCEPT ![c] = NoClient] BY <2>2 DEF Lose, SeeClosed, Rekey, ForcedReconnect
    <3> QED BY <3>1, <3>2
  <2> QED BY <2>1, <2>2
<1>3. insts' \in Nat /\ inst' \in Nat /\ gen' \in Nat
  BY DEF Dial, Lose, SeeClosed, Rekey, ForcedReconnect, identity, ResumeTypes
<1>4. ResumeTypes' BY <1>1, <1>2, <1>3 DEF ResumeTypes
<1>5. ~alive => \A d \in Conns : cli'[d].pc = "none"
  BY <1>2 DEF InStep, OneClient, ResumeTypes
<1>6. Recedes
  <2>1. \A o \in Objs : obj[o].epoch \in Nat BY DEF ResumeTypes, ServerSessions
  <2> QED BY <1>1, <1>5, <2>1 DEF Recedes
<1> QED BY <1>4, <1>6, RecedeKeeps

LEMMA SpendSequenceKeeps ==
    ASSUME ResumeTypes, NEW n \in Nat, InStep(n), SpendSequence
    PROVE  ResumeTypes' /\ InStep(n)'
<1>1. UNCHANGED <<stateFile, alive, ident, mac, ss, saving, macs, srv, live, obj, tokens, cli,
                  insts, inst, gen>>
  BY DEF SpendSequence, server
<1>2. ResumeTypes' BY <1>1 DEF ResumeTypes
<1>3. \A o \in Objs : obj[o].epoch \in Nat BY DEF ResumeTypes, ServerSessions
<1>4. Recedes BY <1>1, <1>3 DEF Recedes, InStep, OneClient
<1> QED BY <1>2, <1>4, RecedeKeeps

LEMMA CrashKeeps ==
    ASSUME ResumeTypes, NEW n \in Nat, InStep(n), Crash
    PROVE  ResumeTypes' /\ InStep(n)'
<1>1. OneClient(n) /\ Copies(n) /\ TokenInv(n) /\ AnswerInv(n) BY DEF InStep
<1>2. UNCHANGED <<stateFile, macs, insts, srv, live, obj, tokens>> BY DEF Crash, server
<1>3. /\ alive' = FALSE /\ ident' = NoState /\ ss' = NoSession /\ inst' = 0 /\ gen' = 0
      /\ saving' = NoSave /\ cli' = [c \in Conns |-> NoClient]
  BY DEF Crash
<1>4. /\ NoState \in StateRecords /\ NoState.cid = NoMac /\ NoState.sid = NoObj
      /\ NoState.token = NoToken /\ NoState.epoch = 0
  BY DEF NoState, StateRecords, NoMac, NoObj, NoToken
<1>5. NoSession \in [sid : Nat, token : Nat, epoch : Nat] BY DEF NoSession, NoObj, NoToken
<1>6. NoClient \in ClientEnds /\ NoClient.pc = "none" BY DEF NoClient, ClientEnds
<1>7. ResumeTypes' BY <1>2, <1>3, <1>4, <1>5, <1>6 DEF ResumeTypes
<1>8. OneClient(n)'
  <2>1. Created' = Created BY <1>2 DEF Created
  <2> QED BY <1>1, <1>2, <1>3, <1>6, <2>1 DEF OneClient
<1>9. Copies(n)' BY <1>1, <1>2, <1>3, <1>4 DEF Copies, Stores
<1>10. TokenInv(n)' BY <1>1, <1>2, <1>3, <1>4 DEF TokenInv, Accepted
<1>11. AnswerInv(n)'
  <2>1. ASSUME NEW c \in Conns, Answering(c, n) PROVE NotBefore(NoState, srv[c], n)
    BY <1>1, <1>4, <2>1 DEF AnswerInv, NotBefore, NoToken
  <2>2. \A c \in Conns : Answering(c, n)' <=> Answering(c, n) BY <1>2 DEF Answering
  <2>3. \A c \in Conns : Answering(c, n) => NotBefore(ident, srv[c], n)'
    BY <1>2, <1>3, <2>1 DEF NotBefore
  <2>4. \A c \in Conns : Answering(c, n) => NotBefore(stateFile, srv[c], n)'
    BY <1>1, <1>2 DEF NotBefore, AnswerInv
  <2> QED BY <1>1, <1>2, <2>2, <2>3, <2>4 DEF AnswerInv
<1> QED BY <1>7, <1>8, <1>9, <1>10, <1>11 DEF InStep

LEMMA StartKeeps ==
    ASSUME ResumeTypes, NEW n \in Nat, InStep(n), Start
    PROVE  ResumeTypes' /\ InStep(n)'
<1> USE DEF NoMac, BadMac, NoToken, NoObj
<1>1. OneClient(n) /\ Copies(n) /\ TokenInv(n) /\ AnswerInv(n) BY DEF InStep
<1>2. PICK m \in Int : m = ActualMac BY DEF ActualMac, ResumeTypes, StateRecords
<1>3. PICK f : f = [stateFile EXCEPT !.mac = m] OBVIOUS
<1>4. /\ UNCHANGED <<saving, cli, srv, live, obj, tokens>> /\ ~alive /\ alive' = TRUE
      /\ mac' = m /\ ident' = f /\ stateFile' = f /\ m <= MaxMac
      /\ ss' = IF stateFile.cid = m /\ stateFile.sid # NoObj
               THEN [sid |-> stateFile.sid, token |-> stateFile.token, epoch |-> stateFile.epoch]
               ELSE NoSession
      /\ insts' = insts + 1 /\ inst' = insts + 1 /\ gen' = 0 /\ macs' = IF m > macs THEN m ELSE macs
  BY <1>2, <1>3 DEF Start, StartWith, server
<1>5. /\ f \in StateRecords /\ f.mac = m /\ f.cid = stateFile.cid /\ f.sid = stateFile.sid
      /\ f.token = stateFile.token /\ f.epoch = stateFile.epoch
  BY <1>3 DEF ResumeTypes, StateRecords
<1>6. stateFile.mac # NoMac => m = stateFile.mac BY <1>2 DEF ActualMac
<1>7. stateFile.mac = NoMac => m \in 1..MaxMac BY <1>2, <1>4 DEF ActualMac, ResumeTypes
<1>8. saving = NoSave BY <1>1, <1>4 DEF Copies
<1>9. stateFile.mac = NoMac => n = 0 /\ \A c \in Conns : srv[c].pc = "none" BY <1>1 DEF OneClient
<1>10. Stores(stateFile, n) BY <1>1 DEF Copies
<1>11. ss'.sid = f.sid /\ ss'.token = f.token /\ ss'.epoch = f.epoch
  <2>1. CASE stateFile.sid = NoObj
    <3>1. ss' = NoSession BY <1>4, <2>1
    <3>2. stateFile.token = 0 /\ stateFile.epoch = 0 BY <1>10, <2>1 DEF Stores
    <3> QED BY <1>5, <2>1, <3>1, <3>2 DEF NoSession
  <2>2. CASE stateFile.sid # NoObj
    <3>1. stateFile.cid = stateFile.mac /\ n # 0 BY <1>10, <2>2 DEF Stores
    <3>2. stateFile.cid = m BY <1>6, <1>9, <3>1
    <3> QED BY <1>4, <1>5, <2>2, <3>2
  <2> QED BY <2>1, <2>2
<1>12. ss' \in [sid : Nat, token : Nat, epoch : Nat]
  BY <1>4 DEF NoSession, ResumeTypes, StateRecords
<1>13. ResumeTypes' BY <1>2, <1>4, <1>5, <1>12 DEF ResumeTypes
<1>14. OneClient(n)'
  <2>1. Created' = Created BY <1>4 DEF Created
  <2>2. m \in {NoMac, BadMac} \cup 1..MaxMac /\ m # NoMac BY <1>1, <1>6, <1>7 DEF OneClient
  <2>3. \A c \in Conns : srv[c].pc # "none" => srv[c].mac = m /\ m = stateFile.mac
    BY <1>1, <1>6, <1>9 DEF OneClient
  <2>4. \A c \in Conns : srv[c].pc \in {"admitted", "answered"} => m # BadMac /\ srv[c].obj \in 1..n
    BY <1>1, <2>3 DEF OneClient
  <2>5. \A k \in 1..MaxMac : live[k] # NoObj => k = m /\ live[k] = n
    <3>1. \A k \in 1..MaxMac : live[k] # NoObj => k = stateFile.mac /\ live[k] = n
      BY <1>1 DEF OneClient
    <3>2. \A k \in 1..MaxMac : k # NoMac OBVIOUS
    <3> QED BY <1>6, <3>1, <3>2
  <2> QED BY <1>1, <1>4, <1>5, <2>1, <2>2, <2>3, <2>4, <2>5 DEF OneClient
<1>15. Copies(n)'
  <2>1. Stores(f, n)'
    <3>1. CASE stateFile.mac = NoMac BY <1>5, <1>9, <1>10, <3>1 DEF Stores
    <3>2. CASE stateFile.mac # NoMac BY <1>4, <1>5, <1>6, <1>10, <3>2 DEF Stores
    <3> QED BY <3>1, <3>2
  <2>2. f.token <= f.token BY <1>5 DEF StateRecords
  <2>3. Stores(stateFile, n)' /\ Stores(ident, n)' BY <1>4, <2>1 DEF Stores
  <2>4. f.sid < n => f.epoch <= 1 BY <1>1, <1>5 DEF Copies
  <2> QED BY <1>4, <1>8, <1>11, <2>2, <2>3, <2>4 DEF Copies
<1>16. TokenInv(n)' BY <1>1, <1>4, <1>5 DEF TokenInv, Accepted
<1>17. AnswerInv(n)'
  <2>1. \A c \in Conns : Answering(c, n)' <=> Answering(c, n) BY <1>4 DEF Answering
  <2>2. \A c \in Conns : Answering(c, n) => NotBefore(f, srv[c], n)
    BY <1>1, <1>5 DEF AnswerInv, NotBefore
  <2>3. \A c \in Conns : Answering(c, n) => NotBefore(stateFile, srv[c], n)' /\ NotBefore(ident, srv[c], n)'
    BY <1>4, <2>2 DEF NotBefore
  <2> QED BY <1>1, <1>4, <2>1, <2>3 DEF AnswerInv
<1> QED BY <1>13, <1>14, <1>15, <1>16, <1>17 DEF InStep

LEMMA SavedKeeps ==
    ASSUME ResumeTypes, NEW n \in Nat, InStep(n), StateSaved
    PROVE  ResumeTypes' /\ InStep(n)'
<1>1. OneClient(n) /\ Copies(n) /\ TokenInv(n) /\ AnswerInv(n) BY DEF InStep
<1>2. /\ UNCHANGED <<alive, ident, mac, ss, inst, gen, cli, macs, insts, srv, live, obj, tokens>>
      /\ stateFile' = ident /\ saving' = NoSave
  BY DEF StateSaved, server
<1>3. alive BY <1>1 DEF StateSaved, Copies
<1>4. ident.mac = stateFile.mac /\ stateFile.token <= ident.token
  BY <1>1, <1>3 DEF OneClient, Copies
<1>5. ResumeTypes' BY <1>2 DEF ResumeTypes
<1>6. OneClient(n)'
  <2>1. Created' = Created BY <1>2 DEF Created
  <2> QED BY <1>1, <1>2, <1>3, <1>4, <2>1 DEF OneClient
<1>7. Copies(n)'
  <2>1. ident.token \in Nat BY DEF ResumeTypes, StateRecords
  <2> QED BY <1>1, <1>2, <1>3, <1>4, <2>1 DEF Copies, Stores
<1>8. TokenInv(n)'
  <2>1. \A c \in Conns : srv[c].pc = "request" => srv[c].token <= ident.token
    <3>1. \A c \in Conns : srv[c].token \in Nat BY DEF ResumeTypes, ServerEnds
    <3>2. stateFile.token \in Nat /\ ident.token \in Nat BY DEF ResumeTypes, StateRecords
    <3> QED BY <1>1, <1>4, <3>1, <3>2 DEF TokenInv
  <2>2. ident.token = NoToken => stateFile.token = NoToken
    BY <1>4 DEF ResumeTypes, StateRecords, NoToken
  <2> QED BY <1>1, <1>2, <2>1, <2>2 DEF TokenInv, Accepted
<1>9. AnswerInv(n)'
  <2>1. \A c \in Conns : Answering(c, n)' <=> Answering(c, n) BY <1>2 DEF Answering
  <2>2. \A c \in Conns : Answering(c, n) => NotBefore(stateFile, srv[c], n)' /\ NotBefore(ident, srv[c], n)'
    BY <1>1, <1>2 DEF NotBefore, AnswerInv
  <2> QED BY <1>1, <1>2, <2>1, <2>2 DEF AnswerInv
<1> QED BY <1>5, <1>6, <1>7, <1>8, <1>9 DEF InStep

LEMMA ResumeRequestKeeps ==
    ASSUME ResumeTypes, NEW n \in Nat, InStep(n), NEW c \in Conns, Request(c)
    PROVE  ResumeTypes' /\ InStep(n)'
<1>1. OneClient(n) /\ Copies(n) /\ TokenInv(n) /\ AnswerInv(n) BY DEF InStep
<1>2. alive BY <1>1 DEF OneClient, Request
<1>3. /\ mac = stateFile.mac /\ stateFile.mac # NoMac /\ ss.token = stateFile.token
  BY <1>1, <1>2 DEF OneClient, Copies, Request
<1>4. PICK r : r = [NoServer EXCEPT !.pc = "request", !.mac = mac, !.inst = cli[c].inst, !.token = ss.token]
  OBVIOUS
<1>5. /\ UNCHANGED <<stateFile, alive, ident, mac, ss, inst, gen, saving, macs, insts, live, obj,
                     tokens>>
      /\ srv' = [srv EXCEPT ![c] = r] /\ cli' = [cli EXCEPT ![c].pc = "sent"]
  BY <1>4 DEF Request, identity
<1>6. r \in ServerEnds /\ r.pc = "request" /\ r.mac = stateFile.mac /\ r.token = stateFile.token
  BY <1>3, <1>4
     DEF NoServer, NoMac, NoToken, NoObj, ServerEnds, ResumeTypes, StateRecords, ClientEnds
<1>7. ResumeTypes'
  <2>1. cli' \in [Conns -> ClientEnds] BY <1>5 DEF ResumeTypes, ClientEnds
  <2>2. srv' \in [Conns -> ServerEnds] BY <1>5, <1>6 DEF ResumeTypes
  <2> QED BY <1>5, <2>1, <2>2 DEF ResumeTypes
<1>8. /\ srv'[c] = r /\ \A d \in Conns : d # c => srv'[d] = srv[d]
  BY <1>5 DEF ResumeTypes
<1>9. OneClient(n)'
  <2>1. Created' = Created BY <1>5 DEF Created
  <2> QED BY <1>1, <1>2, <1>3, <1>5, <1>6, <1>8, <2>1 DEF OneClient
<1>10. Copies(n)' BY <1>1, <1>5 DEF Copies, Stores
<1>11. TokenInv(n)'
  <2>1. \A d \in Conns : srv'[d].pc = "request" => srv'[d].token <= stateFile.token
    <3>1. stateFile.token \in Nat BY DEF ResumeTypes, StateRecords
    <3> QED BY <1>1, <1>6, <1>8, <3>1 DEF TokenInv
  <2> QED BY <1>1, <1>5, <2>1 DEF TokenInv, Accepted
<1>12. AnswerInv(n)'
  <2>1. \A d \in Conns : Answering(d, n)' => Answering(d, n) /\ srv'[d] = srv[d]
    BY <1>6, <1>8 DEF Answering
  <2>2. \A d \in Conns : Answering(d, n)' => NotBefore(stateFile, srv[d], n)' /\ NotBefore(ident, srv[d], n)'
    BY <1>1, <1>5, <2>1 DEF NotBefore, AnswerInv
  <2> QED BY <1>1, <1>5, <2>1, <2>2 DEF AnswerInv
<1> QED BY <1>7, <1>9, <1>10, <1>11, <1>12 DEF InStep

LEMMA NegotiateKeeps ==
    ASSUME ResumeTypes, NEW n \in Nat, InStep(n), NEW c \in Conns, Negotiate(c), spoiled' = {}
    PROVE  ResumeTypes' /\ InStep(n)'
<1> USE DEF NoMac, BadMac, NoToken, NoObj
<1>1. OneClient(n) /\ Copies(n) /\ TokenInv(n) /\ AnswerInv(n) BY DEF InStep
<1>2. PICK a \in ServerEnds : a = srv[c] BY DEF ResumeTypes
<1>3. a.obj \in Nat /\ a.epoch \in Nat /\ a.answer \in Nat BY DEF ServerEnds
<1>4. alive BY <1>1 DEF OneClient, Negotiate
<1>5. /\ cli[c].pc = "sent" /\ a.pc = "answered" /\ saving = NoSave
      /\ ss' = [sid |-> a.obj, token |-> a.answer, epoch |-> a.epoch]
      /\ cli' = [cli EXCEPT ![c].pc = "up"]
      /\ UNCHANGED <<stateFile, alive, mac, inst, gen, macs, insts, srv, live, obj, tokens>>
      /\ Persist(a.obj, a.answer, a.epoch)
  BY <1>2 DEF Negotiate, server
<1>6. ~(a.obj = ss.sid /\ a.epoch < ss.epoch) /\ a.obj = live[mac]
  BY <1>2 DEF Negotiate
<1>7. /\ mac = stateFile.mac /\ ident.mac = mac /\ mac \in 1..MaxMac /\ a.obj \in 1..n
  BY <1>1, <1>2, <1>4, <1>5 DEF OneClient
<1>8. a.obj = n BY <1>1, <1>6, <1>7 DEF OneClient
<1>9. Answering(c, n) /\ n # 0 BY <1>2, <1>5, <1>7, <1>8 DEF Answering
<1>10. a.epoch >= 1 /\ a.answer \in 1..tokens /\ NotBefore(ident, a, n) /\ NotBefore(stateFile, a, n)
  BY <1>1, <1>2, <1>9 DEF AnswerInv
<1>11. /\ ident.epoch \in Nat /\ ident.sid \in Nat /\ ident.token \in Nat /\ tokens \in Nat
       /\ stateFile.token \in Nat
  BY DEF ResumeTypes, StateRecords
<1>12. ident.sid < n \/ ident.epoch <= a.epoch
  <2>1. ss.sid = ident.sid /\ ss.epoch = ident.epoch BY <1>1, <1>4 DEF Copies
  <2>2. ident.sid <= n BY <1>1, <1>11 DEF Copies, Stores
  <2> QED BY <1>3, <1>6, <1>8, <1>11, <2>1, <2>2
<1>13. ident.token <= a.answer BY <1>10, <1>12 DEF NotBefore
<1>14. ~(a.epoch < ident.epoch)
  <2>1. ident.sid < n => ident.epoch <= 1 BY <1>1 DEF Copies
  <2> QED BY <1>3, <1>10, <1>11, <1>12, <2>1
<1>15. PICK f : f = [ident EXCEPT !.cid = mac, !.sid = a.obj, !.token = a.answer, !.epoch = a.epoch]
  OBVIOUS
<1>16. ident' = f /\ saving' = "file" BY <1>5, <1>14, <1>15 DEF Persist
<1>17. /\ f \in StateRecords /\ f.mac = ident.mac /\ f.cid = mac /\ f.sid = n /\ f.token = a.answer
       /\ f.epoch = a.epoch
  BY <1>3, <1>7, <1>8, <1>15 DEF ResumeTypes, StateRecords
<1>18. ResumeTypes'
  <2>1. cli' \in [Conns -> ClientEnds] BY <1>5 DEF ResumeTypes, ClientEnds
  <2>2. ss' \in [sid : Nat, token : Nat, epoch : Nat] BY <1>3, <1>5
  <2> QED BY <1>5, <1>16, <1>17, <2>1, <2>2 DEF ResumeTypes
<1>19. OneClient(n)'
  <2>1. Created' = Created BY <1>5 DEF Created
  <2> QED BY <1>1, <1>4, <1>5, <1>7, <1>16, <1>17, <2>1 DEF OneClient
<1>20. Copies(n)'
  <2>1. Stores(stateFile, n)' BY <1>1, <1>5 DEF Copies, Stores
  <2>2. Stores(ident, n)' BY <1>5, <1>7, <1>8, <1>10, <1>16, <1>17 DEF Stores
  <2>3. ss'.sid = f.sid /\ ss'.token = f.token /\ ss'.epoch = f.epoch BY <1>5, <1>8, <1>17
  <2>4. stateFile.token <= f.token
    <3>1. stateFile.token <= ident.token BY <1>1, <1>4 DEF Copies
    <3> QED BY <1>3, <1>11, <1>13, <1>17, <3>1
  <2>5. saving' # NoSave BY <1>16 DEF NoSave
  <2>6. ~(f.sid < n) BY <1>17
  <2> QED BY <1>1, <1>4, <1>5, <1>16, <2>1, <2>2, <2>3, <2>4, <2>5, <2>6 DEF Copies
<1>21. TokenInv(n)'
  <2>1. Accepted(a.answer, n)
    <3>1. CASE ident.token = 0
      <4>1. stateFile.token = 0 BY <1>1, <1>4, <1>11, <3>1 DEF Copies
      <4>2. tokens <= 1 BY <1>1, <4>1 DEF TokenInv
      <4> QED BY <1>10, <1>11, <4>2 DEF Accepted
    <3>2. CASE ident.token # 0
      <4>1. Accepted(ident.token, n) BY <1>1, <3>2 DEF TokenInv
      <4> QED BY <1>10, <1>11, <1>13, <4>1 DEF Accepted
    <3> QED BY <3>1, <3>2
  <2>2. Accepted(ident.token, n)' BY <1>5, <1>16, <1>17, <2>1 DEF Accepted
  <2>3. stateFile.token # NoToken => Accepted(stateFile.token, n)'
    BY <1>1, <1>5 DEF TokenInv, Accepted
  <2> QED BY <1>1, <1>5, <2>2, <2>3 DEF TokenInv
<1>22. AnswerInv(n)'
  <2>1. \A d \in Conns : Answering(d, n)' <=> Answering(d, n) BY <1>5 DEF Answering
  <2>2. \A d \in Conns : Answering(d, n) => NotBefore(stateFile, srv[d], n)'
    BY <1>1, <1>5 DEF NotBefore, AnswerInv
  <2>3. \A d \in Conns : Answering(d, n) => NotBefore(ident, srv[d], n)'
    <3> SUFFICES ASSUME NEW d \in Conns, Answering(d, n), f.sid < n \/ f.epoch <= srv[d].epoch
                 PROVE  f.token <= srv[d].answer
      BY <1>5, <1>16 DEF NotBefore
    <3>1. srv[c].epoch <= srv[d].epoch BY <1>2, <1>17
    <3> QED BY <1>1, <1>2, <1>9, <1>17, <3>1 DEF AnswerInv
  <2> QED BY <1>1, <1>5, <2>1, <2>2, <2>3 DEF AnswerInv
<1> QED BY <1>18, <1>19, <1>20, <1>21, <1>22 DEF InStep

(* The steps of the server *)

LEMMA NoServerTyped == NoServer \in ServerEnds /\ NoServer.pc = "none"
BY DEF NoServer, ServerEnds, NoMac, NoToken, NoObj

LEMMA RefuseKeeps ==
    ASSUME ResumeTypes, NEW n \in Nat, InStep(n), NEW c \in Conns, HandshakeRefuse(c)
    PROVE  ResumeTypes' /\ InStep(n)'
<1>1. /\ UNCHANGED <<stateFile, alive, ident, mac, ss, inst, gen, saving, cli, macs, insts, live,
                     obj, tokens>>
      /\ srv' = [srv EXCEPT ![c] = NoServer]
  BY DEF HandshakeRefuse, ToClient, client
<1>2. srv' \in [Conns -> ServerEnds] BY <1>1, NoServerTyped DEF ResumeTypes
<1>3. ResumeTypes' BY <1>1, <1>2 DEF ResumeTypes
<1>4. \A d \in Conns : srv'[d] = srv[d] \/ srv'[d].pc = "none"
  BY <1>1, NoServerTyped DEF ResumeTypes
<1>5. \A o \in Objs : obj[o].epoch \in Nat BY DEF ResumeTypes, ServerSessions
<1>6. Recedes BY <1>1, <1>4, <1>5 DEF Recedes, InStep, OneClient
<1> QED BY <1>3, <1>6, RecedeKeeps

LEMMA CloseKeeps ==
    ASSUME ResumeTypes, NEW n \in Nat, InStep(n), NEW c \in Conns, CloseEnd(c)
    PROVE  ResumeTypes' /\ InStep(n)'
<1>1. /\ UNCHANGED <<stateFile, alive, ident, mac, ss, inst, gen, saving, cli, macs, insts, live,
                     tokens>>
      /\ srv' = [srv EXCEPT ![c] = NoServer] /\ srv[c].pc = "answered"
  BY DEF CloseEnd, ToClient, client
<1>2. PICK o : o = srv[c].obj OBVIOUS
<1>3. o \in Objs BY <1>1, <1>2 DEF InStep, OneClient, Created
<1>4. PICK s \in ServerSessions : s = obj[o] BY <1>3 DEF ResumeTypes
<1>k. PICK k \in Nat : k = (s.active + CountMod - 1) % CountMod BY DEF CountMod, ServerSessions
<1>b. PICK b \in BOOLEAN : b = (s.deadline \/ s.active <= 1) BY DEF ServerSessions
<1>5. obj' = obj \/ obj' = [obj EXCEPT ![o] = [s EXCEPT !.active = k, !.deadline = b]]
  <2>1. \/ obj' = obj
        \/ obj' = [obj EXCEPT ![o].active = (obj[o].active + CountMod - 1) % CountMod,
                              ![o].deadline = obj[o].deadline \/ obj[o].active <= 1]
    BY <1>2 DEF CloseEnd
  <2>2. obj' = obj \/ obj' = [obj EXCEPT ![o].active = k, ![o].deadline = b]
    BY <1>4, <1>k, <1>b, <2>1
  <2>3. ASSUME obj' = [obj EXCEPT ![o].active = k, ![o].deadline = b]
        PROVE  obj' = [obj EXCEPT ![o] = [s EXCEPT !.active = k, !.deadline = b]]
    <3>1. obj \in [Objs -> ServerSessions] BY DEF ResumeTypes
    <3>2. obj' = [[obj EXCEPT ![o] = [obj[o] EXCEPT !.active = k]]
                     EXCEPT ![o] = [[obj[o] EXCEPT !.active = k] EXCEPT !.deadline = b]]
      BY <1>3, <2>3, <3>1
    <3>3. [[obj[o] EXCEPT !.active = k] EXCEPT !.deadline = b] = [s EXCEPT !.active = k, !.deadline = b]
      BY <1>4
    <3> QED BY <1>3, <3>1, <3>2, <3>3
  <2> QED BY <2>2, <2>3
<1>6. PICK t : t = [s EXCEPT !.active = k, !.deadline = b] OBVIOUS
<1>7. /\ t \in ServerSessions /\ t.epoch = s.epoch /\ t.current = s.current /\ t.pending = s.pending
  BY <1>6 DEF ServerSessions
<1>8. obj' \in [Objs -> ServerSessions] BY <1>5, <1>6, <1>7 DEF ResumeTypes
<1>9. srv' \in [Conns -> ServerEnds] BY <1>1, NoServerTyped DEF ResumeTypes
<1>10. ResumeTypes' BY <1>1, <1>8, <1>9 DEF ResumeTypes
<1>11. \A d \in Conns : srv'[d] = srv[d] \/ srv'[d].pc = "none"
  BY <1>1, NoServerTyped DEF ResumeTypes
<1>12. ASSUME NEW p \in Objs
       PROVE  /\ obj'[p].current = obj[p].current /\ obj'[p].pending = obj[p].pending
              /\ obj'[p].epoch = obj[p].epoch /\ obj[p].epoch \in Nat
  BY <1>3, <1>4, <1>5, <1>6, <1>7 DEF ResumeTypes, ServerSessions
<1>13. Recedes BY <1>1, <1>11, <1>12 DEF Recedes, InStep, OneClient
<1> QED BY <1>10, <1>13, RecedeKeeps

LEMMA ExhaustedKeeps ==
    ASSUME ResumeTypes, NEW n \in Nat, InStep(n), NEW o \in Objs, ServerExhausted(o)
    PROVE  ResumeTypes' /\ InStep(n)'
<1>1. UNCHANGED <<stateFile, alive, ident, mac, ss, inst, gen, saving, cli, macs, insts, srv,
                  live, tokens>>
  BY DEF ServerExhausted, client
<1>2. PICK s \in ServerSessions : s = obj[o] BY DEF ResumeTypes
<1>3. PICK t : t = [s EXCEPT !.inst = Exhausted, !.epoch = s.epoch + 1, !.active = 0] OBVIOUS
<1>4. /\ t \in ServerSessions /\ t.epoch = s.epoch + 1 /\ t.current = s.current
      /\ t.pending = s.pending /\ s.epoch \in Nat
  <2>1. PICK i \in Int, e \in Nat : i = Exhausted /\ e = s.epoch + 1
    BY DEF ServerSessions, Exhausted
  <2>2. t = [s EXCEPT !.inst = i, !.epoch = e, !.active = 0] BY <1>3, <2>1
  <2>3. t \in ServerSessions /\ t.epoch = e /\ t.current = s.current /\ t.pending = s.pending
    BY <2>2 DEF ServerSessions
  <2> QED BY <2>1, <2>3 DEF ServerSessions
<1>5. obj' = [obj EXCEPT ![o] = t] /\ s.epoch > 0
  <2>1. obj' = [obj EXCEPT ![o].inst = Exhausted, ![o].epoch = obj[o].epoch + 1, ![o].active = 0]
    BY DEF ServerExhausted
  <2> QED BY <1>2, <1>3, <2>1 DEF ResumeTypes, ServerSessions, ServerExhausted, Created
<1>6. ResumeTypes' BY <1>1, <1>4, <1>5 DEF ResumeTypes
<1>7. ASSUME NEW p \in Objs
      PROVE  /\ obj'[p].current = obj[p].current /\ obj'[p].pending = obj[p].pending
             /\ obj'[p].epoch >= obj[p].epoch /\ (obj[p].epoch = 0 => obj'[p].epoch = 0)
  <2>1. CASE p = o
    <3>1. obj'[p] = t BY <1>5, <2>1 DEF ResumeTypes
    <3> QED BY <1>2, <1>4, <1>5, <2>1, <3>1
  <2>2. CASE p # o
    <3>1. obj'[p] = obj[p] BY <1>5, <2>2 DEF ResumeTypes
    <3>2. obj[p].epoch \in Nat BY DEF ResumeTypes, ServerSessions
    <3> QED BY <3>1, <3>2
  <2> QED BY <2>1, <2>2
<1>8. Recedes BY <1>1, <1>7 DEF Recedes, InStep, OneClient
<1> QED BY <1>6, <1>8, RecedeKeeps

LEMMA ForgetKeeps ==
    ASSUME ResumeTypes, NEW n \in Nat, InStep(n), ServerRestart \/ \E m \in 1..MaxMac : Destroy(m)
    PROVE  ResumeTypes' /\ InStep(n)'
<1>1. UNCHANGED <<stateFile, alive, ident, mac, ss, inst, gen, saving, cli, macs, insts, obj,
                  tokens>>
  BY DEF ServerRestart, Destroy, ToClient, client
<1>2. srv' = srv \/ srv' = [c \in Conns |-> NoServer] BY DEF ServerRestart, Destroy
<1>3. /\ live' \in [1..MaxMac -> Nat] /\ \A m \in 1..MaxMac : live'[m] = live[m] \/ live'[m] = NoObj
  <2>1. live \in [1..MaxMac -> Nat] /\ NoObj \in Nat BY DEF ResumeTypes, NoObj
  <2>2. CASE ServerRestart
    <3>1. DOMAIN live = 1..MaxMac BY <2>1
    <3>2. live' = [m \in 1..MaxMac |-> NoObj] BY <2>2, <3>1 DEF ServerRestart
    <3> QED BY <2>1, <3>2
  <2>3. CASE \E m \in 1..MaxMac : Destroy(m)
    <3>1. PICK m \in 1..MaxMac : live' = [live EXCEPT ![m] = NoObj] BY <2>3 DEF Destroy
    <3> QED BY <2>1, <3>1
  <2> QED BY <2>2, <2>3
<1>4. srv' \in [Conns -> ServerEnds] BY <1>2, NoServerTyped DEF ResumeTypes
<1>5. ResumeTypes' BY <1>1, <1>3, <1>4 DEF ResumeTypes
<1>6. \A d \in Conns : srv'[d] = srv[d] \/ srv'[d].pc = "none" BY <1>2, NoServerTyped
<1>7. \A o \in Objs : obj[o].epoch \in Nat BY DEF ResumeTypes, ServerSessions
<1>8. Recedes BY <1>1, <1>3, <1>6, <1>7 DEF Recedes, InStep, OneClient
<1> QED BY <1>5, <1>8, RecedeKeeps

LEMMA AnswerKeeps ==
    ASSUME ResumeTypes, NEW n \in Nat, InStep(n), NEW c \in Conns, SendAnswer(c)
    PROVE  ResumeTypes' /\ InStep(n)'
<1>1. OneClient(n) /\ Copies(n) /\ TokenInv(n) /\ AnswerInv(n) BY DEF InStep
<1>2. PICK a \in ServerEnds : a = srv[c] BY DEF ResumeTypes
<1>3. a.pc = "admitted" /\ a.obj \in Nat BY <1>2 DEF SendAnswer, ServerEnds
<1>4. a.obj \in 1..n /\ a.obj \in Objs /\ obj[a.obj].epoch > 0
  BY <1>1, <1>2, <1>3 DEF OneClient, Created
<1>5. PICK s \in ServerSessions : s = obj[a.obj] BY <1>4 DEF ResumeTypes
<1>6. s.epoch \in Nat /\ s.epoch > 0 /\ ResponseToken(s) \in Nat
  BY <1>4, <1>5 DEF ServerSessions, ResponseToken
<1>7. PICK r : r = [a EXCEPT !.pc = "answered", !.epoch = s.epoch, !.answer = ResponseToken(s)] OBVIOUS
<1>8. /\ r \in ServerEnds /\ r.pc = "answered" /\ r.mac = a.mac /\ r.obj = a.obj
      /\ r.epoch = s.epoch /\ r.answer = ResponseToken(s)
  BY <1>6, <1>7 DEF ServerEnds
<1>9. /\ UNCHANGED <<stateFile, alive, ident, mac, ss, inst, gen, saving, cli, macs, insts, live,
                     obj, tokens>>
      /\ srv' = [srv EXCEPT ![c] = r]
  <2>1. srv' = [srv EXCEPT ![c].pc = "answered", ![c].epoch = obj[srv[c].obj].epoch,
                           ![c].answer = ResponseToken(obj[srv[c].obj])]
    BY DEF SendAnswer
  <2>2. srv' = [srv EXCEPT ![c] = r] BY <1>2, <1>5, <1>7, <2>1 DEF ResumeTypes, ServerEnds
  <2> QED BY <2>2 DEF SendAnswer, ToClient, client
<1>10. srv'[c] = r /\ \A d \in Conns : d # c => srv'[d] = srv[d] BY <1>9 DEF ResumeTypes
<1>11. ResumeTypes'
  <2>1. srv' \in [Conns -> ServerEnds] BY <1>8, <1>9 DEF ResumeTypes
  <2> QED BY <1>9, <2>1 DEF ResumeTypes
<1>12. OneClient(n)'
  <2>1. Created' = Created BY <1>9 DEF Created
  <2>2. stateFile.mac # BadMac /\ a.mac = stateFile.mac BY <1>1, <1>2, <1>3 DEF OneClient
  <2>3. stateFile.mac # NoMac BY <1>1, <1>2, <1>3 DEF OneClient
  <2> QED BY <1>1, <1>4, <1>8, <1>9, <1>10, <2>1, <2>2, <2>3 DEF OneClient
<1>13. Copies(n)' BY <1>1, <1>9 DEF Copies, Stores
<1>14. TokenInv(n)' BY <1>1, <1>8, <1>9, <1>10 DEF TokenInv, Accepted
<1>15. a.obj = n => r.answer = tokens /\ tokens > 0 /\ tokens \in Nat
  BY <1>1, <1>4, <1>5, <1>8 DEF TokenInv, ResponseToken, ResumeTypes, NoToken
<1>16. stateFile.token <= tokens /\ ident.token <= tokens
  <2>1. stateFile.token \in Nat /\ ident.token \in Nat /\ tokens \in Nat
    BY DEF ResumeTypes, StateRecords
  <2>2. stateFile.token <= tokens BY <1>1, <2>1 DEF TokenInv, Accepted, NoToken
  <2>3. ident.token <= tokens BY <1>1, <2>1 DEF TokenInv, Accepted, NoToken
  <2> QED BY <2>2, <2>3
<1>17. AnswerInv(n)'
  <2>1. \A d \in Conns : d # c => (Answering(d, n)' <=> Answering(d, n)) BY <1>10 DEF Answering
  <2>2. ASSUME NEW d \in Conns, Answering(d, n)'
        PROVE  /\ srv'[d].epoch \in 1..obj[n].epoch /\ srv'[d].answer \in 1..tokens
               /\ srv'[d].epoch = obj[n].epoch => srv'[d].answer = tokens
               /\ NotBefore(stateFile, srv'[d], n) /\ NotBefore(ident, srv'[d], n)
    <3>1. CASE d = c
      <4>1. a.obj = n BY <1>8, <1>10, <2>2, <3>1 DEF Answering
      <4>2. srv'[d].epoch = obj[n].epoch /\ srv'[d].answer = tokens
        BY <1>5, <1>8, <1>10, <1>15, <3>1, <4>1
      <4>3. obj[n].epoch \in Nat /\ obj[n].epoch > 0 BY <1>5, <1>6, <4>1
      <4> QED BY <1>15, <1>16, <4>1, <4>2, <4>3 DEF NotBefore
    <3>2. CASE d # c BY <1>1, <1>10, <2>1, <2>2, <3>2 DEF AnswerInv
    <3> QED BY <3>1, <3>2
  <2>3. ASSUME NEW d \in Conns, NEW e \in Conns, Answering(d, n)', Answering(e, n)',
               srv'[d].epoch <= srv'[e].epoch
        PROVE  srv'[d].answer <= srv'[e].answer
    <3>1. CASE d # c /\ e # c BY <1>1, <1>10, <2>1, <2>3, <3>1 DEF AnswerInv
    <3>2. CASE e = c
      <4>1. srv'[e].answer = tokens BY <1>8, <1>10, <1>15, <2>3, <3>2 DEF Answering
      <4>2. srv'[d].answer \in 1..tokens BY <2>2, <2>3
      <4> QED BY <4>1, <4>2
    <3>3. CASE d = c
      <4>1. /\ srv'[d].epoch = obj[n].epoch /\ srv'[d].answer = tokens /\ obj[n].epoch \in Nat
        BY <1>5, <1>6, <1>8, <1>10, <1>15, <2>3, <3>3 DEF Answering
      <4>2. srv'[e].epoch \in 1..obj[n].epoch /\ (srv'[e].epoch = obj[n].epoch => srv'[e].answer = tokens)
        BY <2>2, <2>3
      <4>3. srv'[e].epoch = obj[n].epoch BY <2>3, <4>1, <4>2
      <4> QED BY <1>8, <1>10, <1>15, <2>3, <3>3, <4>1, <4>2, <4>3 DEF Answering
    <3> QED BY <3>1, <3>2, <3>3
  <2>4. ASSUME NEW d \in Conns, Answering(d, n)'
        PROVE  NotBefore(stateFile, srv[d], n)' /\ NotBefore(ident, srv[d], n)'
    <3>1. NotBefore(stateFile, srv'[d], n) /\ NotBefore(ident, srv'[d], n) BY <2>2, <2>4
    <3> QED BY <1>9, <3>1 DEF NotBefore
  <2> QED BY <1>9, <2>2, <2>3, <2>4 DEF AnswerInv
<1> QED BY <1>11, <1>12, <1>13, <1>14, <1>17 DEF InStep

\* A session is admitted under the address there is; if there was one before,
\* it is the latest.
LEMMA RequestAddress ==
    ASSUME ResumeTypes, NEW n \in Nat, InStep(n), NEW c \in Conns, Arrived(c)
    PROVE  /\ srv[c].pc = "request" /\ srv[c].mac = stateFile.mac /\ stateFile.mac \in 1..MaxMac
           /\ SessionOf(c) # NoObj => SessionOf(c) = n /\ n # 0 /\ n \in Objs
           /\ srv[c].token \in Nat /\ srv[c].inst \in Nat /\ srv[c].token <= stateFile.token
           /\ stateFile.token \in Nat
<1>1. OneClient(n) /\ TokenInv(n) BY DEF InStep
<1>2. srv[c].pc = "request" /\ srv[c].mac # BadMac BY DEF Arrived
<1>3. srv[c].mac = stateFile.mac /\ stateFile.mac \in 1..MaxMac BY <1>1, <1>2 DEF OneClient
<1>4. srv[c].token \in Nat /\ srv[c].inst \in Nat /\ stateFile.token \in Nat
  BY DEF ResumeTypes, ServerEnds, StateRecords
<1>5. srv[c].token <= stateFile.token BY <1>1, <1>2 DEF TokenInv
<1>6. SessionOf(c) # NoObj => SessionOf(c) = n /\ n # 0
  BY <1>1, <1>3 DEF SessionOf, OneClient, NoObj
<1> QED BY <1>1, <1>2, <1>3, <1>4, <1>5, <1>6, LatestMade

\* The latest token is stored once a token as late as it was shown.
LEMMA LatestStored ==
    ASSUME ResumeTypes, NEW n \in Nat, InStep(n), NEW k \in Nat, k <= stateFile.token, k = tokens, k > 0
    PROVE  stateFile.token = tokens /\ (ident.token = NoToken \/ ident.token = tokens)
<1>1. OneClient(n) /\ Copies(n) /\ TokenInv(n) BY DEF InStep
<1>2. stateFile.token \in Nat /\ ident.token \in Nat /\ tokens \in Nat
  BY DEF ResumeTypes, StateRecords
<1>3. stateFile.token = tokens BY <1>1, <1>2 DEF TokenInv, Accepted, NoToken
<1>4. CASE alive
  <2>1. stateFile.token <= ident.token BY <1>1, <1>4 DEF Copies
  <2> QED BY <1>1, <1>2, <1>3, <2>1 DEF TokenInv, Accepted, NoToken
<1>5. CASE ~alive
  <2>1. ident = NoState BY <1>1, <1>5 DEF OneClient
  <2> QED BY <1>3, <2>1 DEF NoState
<1> QED BY <1>4, <1>5 DEF ResumeTypes

\* A request that was admitted to the latest session.
AdmittedEnd(c, n) == srv' = [srv EXCEPT ![c].pc = "admitted", ![c].obj = n]

LEMMA AdmittedEnds ==
    ASSUME srv \in [Conns -> ServerEnds], NEW c \in Conns, NEW n \in Nat, AdmittedEnd(c, n)
    PROVE  /\ srv' \in [Conns -> ServerEnds]
           /\ srv'[c].pc = "admitted" /\ srv'[c].obj = n /\ srv'[c].mac = srv[c].mac
           /\ \A d \in Conns : d # c => srv'[d] = srv[d]
<1>1. PICK a \in ServerEnds : a = srv[c] OBVIOUS
<1>2. PICK r : r = [a EXCEPT !.pc = "admitted", !.obj = n] OBVIOUS
<1>3. r \in ServerEnds /\ r.pc = "admitted" /\ r.obj = n /\ r.mac = a.mac BY <1>2 DEF ServerEnds
<1>4. srv' = [srv EXCEPT ![c] = r] BY <1>1, <1>2 DEF AdmittedEnd, ServerEnds
<1> QED BY <1>1, <1>3, <1>4

\* A request that was dealt with: admitted to the latest session, or closed.
EndMoved(c, n) ==
    /\ srv' \in [Conns -> ServerEnds]
    /\ srv'[c].pc \in {"admitted", "none"}
    /\ srv'[c].pc = "admitted" => srv'[c].obj = n /\ srv'[c].mac = srv[c].mac
    /\ \A d \in Conns : d # c => srv'[d] = srv[d]

LEMMA AdmitKeeps ==
    ASSUME ResumeTypes, NEW n \in Nat, InStep(n), NEW c \in Conns, Arrived(c), n # 0, n \in Objs,
           UNCHANGED <<stateFile, alive, ident, mac, ss, inst, gen, saving, cli, macs, insts,
                       live>>,
           EndMoved(c, n),
           NEW t \in ServerSessions, obj' = [obj EXCEPT ![n] = t], obj[n].epoch <= t.epoch,
           tokens' \in Nat, tokens <= tokens', obj[n].epoch = t.epoch => tokens' = tokens,
           TokenInv(n)'
    PROVE  ResumeTypes' /\ InStep(n)'
<1>1. OneClient(n) /\ Copies(n) /\ TokenInv(n) /\ AnswerInv(n) BY DEF InStep
<1>2. srv[c].pc = "request" /\ srv[c].mac = stateFile.mac /\ stateFile.mac \in 1..MaxMac
  BY RequestAddress
<1>3. /\ srv' \in [Conns -> ServerEnds]
      /\ srv'[c].pc \in {"admitted", "none"}
      /\ srv'[c].pc = "admitted" => srv'[c].obj = n /\ srv'[c].mac = srv[c].mac
      /\ \A d \in Conns : d # c => srv'[d] = srv[d]
  BY DEF EndMoved
<1>4. ResumeTypes' BY <1>3 DEF ResumeTypes
<1>5. obj'[n] = t /\ \A o \in Objs : o # n => obj'[o] = obj[o] BY DEF ResumeTypes
<1>6. obj[n].epoch > 0 /\ obj[n].epoch \in Nat /\ t.epoch \in Nat
  <2>1. n \in 1..n OBVIOUS
  <2> QED BY <1>1, <2>1 DEF OneClient, Created, ResumeTypes, ServerSessions
<1>7. OneClient(n)'
  <2>1. \A o \in Objs : (obj'[o].epoch > 0) <=> (obj[o].epoch > 0) BY <1>5, <1>6
  <2>2. Created' = Created BY <2>1 DEF Created
  <2>3. stateFile.mac # NoMac /\ stateFile.mac # BadMac BY <1>2 DEF NoMac, BadMac
  <2>4. n \in 1..n OBVIOUS
  <2>5. \A d \in Conns : srv'[d].pc # "none" => srv'[d].mac = stateFile.mac
    BY <1>1, <1>2, <1>3 DEF OneClient
  <2>6. \A d \in Conns : srv'[d].pc \in {"admitted", "answered"} => srv'[d].obj \in 1..n
    BY <1>1, <1>3, <2>4 DEF OneClient
  <2> QED BY <1>1, <2>2, <2>3, <2>5, <2>6 DEF OneClient
<1>8. Copies(n)' BY <1>1 DEF Copies, Stores
<1>9. AnswerInv(n)'
  <2>1. \A d \in Conns : Answering(d, n)' => Answering(d, n) /\ srv'[d] = srv[d]
    BY <1>3 DEF Answering
  <2>2. ASSUME NEW d \in Conns, Answering(d, n)'
        PROVE  /\ srv'[d].epoch \in 1..obj'[n].epoch /\ srv'[d].answer \in 1..tokens'
               /\ srv'[d].epoch = obj'[n].epoch => srv'[d].answer = tokens'
               /\ NotBefore(stateFile, srv[d], n)' /\ NotBefore(ident, srv[d], n)'
    <3>1. Answering(d, n) /\ srv'[d] = srv[d] BY <2>1, <2>2
    <3>2. /\ srv[d].epoch \in 1..obj[n].epoch /\ srv[d].answer \in 1..tokens
          /\ srv[d].epoch = obj[n].epoch => srv[d].answer = tokens
          /\ NotBefore(stateFile, srv[d], n) /\ NotBefore(ident, srv[d], n)
      BY <1>1, <3>1 DEF AnswerInv
    <3>3. NotBefore(stateFile, srv[d], n)' /\ NotBefore(ident, srv[d], n)'
      BY <3>1, <3>2 DEF NotBefore
    <3>4. tokens \in Nat BY DEF ResumeTypes
    <3> QED BY <1>5, <1>6, <3>1, <3>2, <3>3, <3>4
  <2>3. \A d, e \in Conns : Answering(d, n)' /\ Answering(e, n)' /\ srv'[d].epoch <= srv'[e].epoch =>
            srv'[d].answer <= srv'[e].answer
    BY <1>1, <2>1 DEF AnswerInv
  <2> QED BY <2>2, <2>3 DEF AnswerInv
<1> QED BY <1>4, <1>7, <1>8, <1>9 DEF InStep

\* The tokens of the latest session after one was shown.
LEMMA Promoted ==
    ASSUME ResumeTypes, NEW n \in Nat, InStep(n), n # 0, n \in Objs, NEW k \in Nat, k <= stateFile.token
    PROVE  LET s == Promote(obj[n], k) IN
           /\ s \in ServerSessions /\ s.epoch = obj[n].epoch /\ tokens \in Nat /\ tokens > 0
           /\ \/ s.pending = NoToken /\ s.current = tokens
              \/ s.pending = tokens /\ s.current = tokens - 1 /\ s.current > 0
           /\ s.pending = obj[n].pending
              \/ /\ s.pending = NoToken /\ stateFile.token = tokens
                 /\ ident.token = NoToken \/ ident.token = tokens
<1>1. TokenInv(n) BY DEF InStep
<1>2. PICK u \in ServerSessions : u = obj[n] BY DEF ResumeTypes
<1>3. /\ tokens \in Nat /\ tokens > 0
      /\ \/ u.pending = NoToken /\ u.current = tokens
         \/ u.pending = tokens /\ u.current = tokens - 1 /\ u.current > 0
  BY <1>1, <1>2 DEF TokenInv, ResumeTypes
<1>4. CASE u.pending # NoToken /\ k = u.pending
  <2>1. k = tokens /\ k > 0 BY <1>3, <1>4
  <2>2. PICK s : s = [u EXCEPT !.current = u.pending, !.pending = NoToken] OBVIOUS
  <2>3. Promote(obj[n], k) = s BY <1>2, <1>4, <2>2 DEF Promote
  <2>4. /\ s \in ServerSessions /\ s.epoch = u.epoch /\ s.pending = NoToken /\ s.current = u.pending
    BY <2>2 DEF ServerSessions, NoToken
  <2>5. stateFile.token = tokens /\ (ident.token = NoToken \/ ident.token = tokens)
    BY <2>1, LatestStored
  <2> QED BY <1>2, <1>3, <1>4, <2>1, <2>3, <2>4, <2>5
<1>5. CASE ~(u.pending # NoToken /\ k = u.pending)
  <2>1. Promote(obj[n], k) = u BY <1>2, <1>5 DEF Promote
  <2> QED BY <1>2, <1>3, <2>1
<1> QED BY <1>4, <1>5

LEMMA Occupied ==
    ASSUME NEW s \in ServerSessions
    PROVE  /\ Occupy(s) \in ServerSessions /\ Occupy(s).epoch = s.epoch
           /\ Occupy(s).current = s.current /\ Occupy(s).pending = s.pending
<1>1. PICK k \in Nat : k = (s.active + 1) % CountMod BY DEF ServerSessions, CountMod
<1>2. Occupy(s) = [s EXCEPT !.active = k, !.deadline = FALSE] BY <1>1 DEF Occupy
<1> QED BY <1>2 DEF ServerSessions

LEMMA SameKeeps ==
    ASSUME ResumeTypes, NEW n \in Nat, InStep(n), NEW c \in Conns, HandshakeSame(c)
    PROVE  ResumeTypes' /\ InStep(n)'
<1>1. Arrived(c) /\ SessionOf(c) # NoObj BY DEF HandshakeSame
<1>2. PICK k \in Nat : k = srv[c].token BY <1>1, RequestAddress
<1>3. SessionOf(c) = n /\ n # 0 /\ n \in Objs /\ k <= stateFile.token BY <1>1, <1>2, RequestAddress
<1>4. PICK s \in ServerSessions :
        /\ s = Promote(obj[n], k) /\ s.epoch = obj[n].epoch /\ tokens \in Nat /\ tokens > 0
        /\ \/ s.pending = NoToken /\ s.current = tokens
           \/ s.pending = tokens /\ s.current = tokens - 1 /\ s.current > 0
        /\ s.pending = obj[n].pending
           \/ /\ s.pending = NoToken /\ stateFile.token = tokens
              /\ ident.token = NoToken \/ ident.token = tokens
  BY <1>3, Promoted
<1>5. PICK t \in ServerSessions :
        t = Occupy(s) /\ t.epoch = s.epoch /\ t.current = s.current /\ t.pending = s.pending
  BY Occupied
<1>6. /\ UNCHANGED <<stateFile, alive, ident, mac, ss, inst, gen, saving, cli, macs, insts, live,
                     tokens>>
      /\ obj' = [obj EXCEPT ![n] = t] /\ AdmittedEnd(c, n)
  BY <1>2, <1>3, <1>4, <1>5 DEF HandshakeSame, Admit, AdmittedEnd, ToClient, client
<1>7. obj'[n] = t BY <1>3, <1>6 DEF ResumeTypes
<1>8. TokenInv(n)'
  <2>1. TokenInv(n) BY DEF InStep
  <2>2. \A d \in Conns : srv'[d].pc = "request" => srv'[d] = srv[d]
    BY <1>6, AdmittedEnds DEF ResumeTypes
  <2>3. stateFile.token # NoToken => Accepted(stateFile.token, n)'
    BY <1>4, <1>5, <1>6, <1>7, <2>1 DEF TokenInv, Accepted
  <2>4. ident.token # NoToken => Accepted(ident.token, n)'
    BY <1>4, <1>5, <1>6, <1>7, <2>1 DEF TokenInv, Accepted
  <2> QED BY <1>3, <1>4, <1>5, <1>6, <1>7, <2>1, <2>2, <2>3, <2>4 DEF TokenInv
<1>9. t.epoch \in Nat BY DEF ServerSessions
<1>10. obj[n].epoch <= t.epoch BY <1>4, <1>5, <1>9
<1>11. tokens' \in Nat /\ tokens <= tokens' /\ tokens' = tokens BY <1>4, <1>6
<1>12. EndMoved(c, n) BY <1>6, AdmittedEnds DEF ResumeTypes, EndMoved
<1> QED BY <1>1, <1>3, <1>6, <1>8, <1>10, <1>11, <1>12, AdmitKeeps

LEMMA RotateKeeps ==
    ASSUME ResumeTypes, NEW n \in Nat, InStep(n), NEW c \in Conns, HandshakeRotate(c)
    PROVE  ResumeTypes' /\ InStep(n)'
<1>1. Arrived(c) /\ SessionOf(c) # NoObj BY DEF HandshakeRotate
<1>2. PICK k \in Nat : k = srv[c].token BY <1>1, RequestAddress
<1>3. /\ SessionOf(c) = n /\ n # 0 /\ n \in Objs /\ k <= stateFile.token /\ stateFile.token \in Nat
      /\ srv[c].inst \in Nat
  BY <1>1, <1>2, RequestAddress
<1>4. PICK s \in ServerSessions :
        /\ s = Promote(obj[n], k) /\ s.epoch = obj[n].epoch /\ tokens \in Nat /\ tokens > 0
        /\ \/ s.pending = NoToken /\ s.current = tokens
           \/ s.pending = tokens /\ s.current = tokens - 1 /\ s.current > 0
        /\ s.pending = obj[n].pending
           \/ /\ s.pending = NoToken /\ stateFile.token = tokens
              /\ ident.token = NoToken \/ ident.token = tokens
  BY <1>3, Promoted
<1>5. k # 0 BY <1>2, <1>3 DEF HandshakeRotate, Accepts, NoToken
<1>6. PICK p \in Nat : p = IF s.pending = NoToken THEN tokens + 1 ELSE s.pending
  BY <1>4 DEF ServerSessions
<1>7. PICK e \in Nat : e = s.epoch + 1 BY DEF ServerSessions
<1>8. PICK i \in Int : i = srv[c].inst BY <1>3
<1>9. PICK u : u = [s EXCEPT !.inst = i, !.epoch = e, !.active = 0, !.pending = p] OBVIOUS
<1>10. u \in ServerSessions /\ u.epoch = e /\ u.current = s.current /\ u.pending = p
  BY <1>9 DEF ServerSessions
<1>11. Rotate(s, srv[c].inst, tokens + 1) = u BY <1>6, <1>7, <1>8, <1>9 DEF Rotate, RotateEpoch
<1>12. PICK t \in ServerSessions :
         t = Occupy(u) /\ t.epoch = u.epoch /\ t.current = u.current /\ t.pending = u.pending
  BY <1>10, Occupied
<1>13. /\ UNCHANGED <<stateFile, alive, ident, mac, ss, inst, gen, saving, cli, macs, insts, live>>
       /\ obj' = [obj EXCEPT ![n] = t] /\ AdmittedEnd(c, n)
       /\ tokens' = IF s.pending = NoToken THEN tokens + 1 ELSE tokens
  BY <1>2, <1>3, <1>4, <1>11, <1>12 DEF HandshakeRotate, Admit, AdmittedEnd, ToClient, client
<1>14. obj'[n] = t BY <1>3, <1>13 DEF ResumeTypes
<1>15. t.current = s.current /\ t.pending = p /\ t.epoch = s.epoch + 1 BY <1>7, <1>10, <1>12
<1>16. p = tokens' /\ t.current = tokens' - 1 /\ t.current > 0
  <2>1. CASE s.pending = NoToken
    <3>1. s.current = tokens BY <1>4, <2>1 DEF NoToken
    <3>2. p = tokens + 1 /\ tokens' = tokens + 1 BY <1>6, <1>13, <2>1
    <3> QED BY <1>4, <1>15, <3>1, <3>2
  <2>2. CASE s.pending # NoToken BY <1>4, <1>6, <1>13, <1>15, <2>2
  <2> QED BY <2>1, <2>2
<1>17. TokenInv(n)'
  <2>1. TokenInv(n) BY DEF InStep
  <2>2. \A d \in Conns : srv'[d].pc = "request" => srv'[d] = srv[d]
    BY <1>13, AdmittedEnds DEF ResumeTypes
  <2>3. stateFile.token # NoToken BY <1>3, <1>5 DEF NoToken
  <2>4. t.pending # NoToken BY <1>4, <1>13, <1>15, <1>16 DEF NoToken
  <2>5. Accepted(stateFile.token, n)'
    <3>1. stateFile.token = tokens \/ (stateFile.token = tokens - 1 /\ s.pending # NoToken)
      BY <1>4, <2>1, <2>3 DEF TokenInv, Accepted
    <3>2. Accepted(stateFile.token, n)' <=> (stateFile.token = tokens' \/ (stateFile.token = tokens' - 1 /\ obj'[n].pending # NoToken))
      BY <1>13 DEF Accepted
    <3> QED BY <1>4, <1>13, <1>14, <2>4, <3>1, <3>2
  <2>6. ident.token # NoToken => Accepted(ident.token, n)'
    <3>1. ident.token # NoToken => ident.token = tokens \/ (ident.token = tokens - 1 /\ s.pending # NoToken)
      BY <1>4, <2>1 DEF TokenInv, Accepted
    <3>2. Accepted(ident.token, n)' <=> (ident.token = tokens' \/ (ident.token = tokens' - 1 /\ obj'[n].pending # NoToken))
      BY <1>13 DEF Accepted
    <3> QED BY <1>4, <1>13, <1>14, <2>4, <3>1, <3>2
  <2>7. tokens' > 0 BY <1>4, <1>13
  <2> QED BY <1>3, <1>13, <1>14, <1>15, <1>16, <2>1, <2>2, <2>3, <2>5, <2>6, <2>7 DEF TokenInv
<1>18. tokens' \in Nat /\ tokens <= tokens' BY <1>4, <1>13
<1>19. obj[n].epoch <= t.epoch /\ obj[n].epoch # t.epoch BY <1>4, <1>15 DEF ServerSessions
<1>20. EndMoved(c, n) BY <1>13, AdmittedEnds DEF ResumeTypes, EndMoved
<1> QED BY <1>1, <1>3, <1>13, <1>17, <1>18, <1>19, <1>20, AdmitKeeps

LEMMA FailsKeeps ==
    ASSUME ResumeTypes, NEW n \in Nat, InStep(n), NEW c \in Conns, NEW rotated \in BOOLEAN,
           HandshakeFails(c, rotated)
    PROVE  ResumeTypes' /\ InStep(n)'
<1>1. Arrived(c) /\ SessionOf(c) # NoObj BY DEF HandshakeFails
<1>2. PICK k \in Nat : k = srv[c].token BY <1>1, RequestAddress
<1>3. /\ SessionOf(c) = n /\ n # 0 /\ n \in Objs /\ k <= stateFile.token
      /\ srv[c].inst \in Nat
  BY <1>1, <1>2, RequestAddress
<1>4. PICK s \in ServerSessions :
        /\ s = Promote(obj[n], k) /\ s.epoch = obj[n].epoch /\ tokens \in Nat /\ tokens > 0
        /\ \/ s.pending = NoToken /\ s.current = tokens
           \/ s.pending = tokens /\ s.current = tokens - 1 /\ s.current > 0
        /\ s.pending = obj[n].pending
           \/ /\ s.pending = NoToken /\ stateFile.token = tokens
              /\ ident.token = NoToken \/ ident.token = tokens
  BY <1>3, Promoted
<1>5. PICK i \in Int, e \in Nat : i = srv[c].inst /\ e = s.epoch + 1 BY <1>3 DEF ServerSessions
<1>6. PICK u \in ServerSessions :
        /\ u = RotateEpoch(s, srv[c].inst)
        /\ u.epoch = s.epoch + 1 /\ u.current = s.current /\ u.pending = s.pending
  <2>1. RotateEpoch(s, srv[c].inst) = [s EXCEPT !.inst = i, !.epoch = e, !.active = 0]
    BY <1>5 DEF RotateEpoch
  <2>2. PICK u : u = [s EXCEPT !.inst = i, !.epoch = e, !.active = 0] OBVIOUS
  <2>3. u \in ServerSessions /\ u.epoch = e /\ u.current = s.current /\ u.pending = s.pending
    BY <2>2 DEF ServerSessions
  <2> QED BY <1>5, <2>1, <2>2, <2>3
<1>7. PICK t \in ServerSessions :
        /\ t = IF rotated THEN RotateEpoch(s, srv[c].inst) ELSE s
        /\ s.epoch <= t.epoch /\ t.current = s.current /\ t.pending = s.pending
  <2>1. s.epoch \in Nat BY DEF ServerSessions
  <2> QED BY <1>6, <2>1
<1>8. /\ UNCHANGED <<stateFile, alive, ident, mac, ss, inst, gen, saving, cli, macs, insts, live,
                     tokens>>
      /\ obj' = [obj EXCEPT ![n] = t] /\ srv' = [srv EXCEPT ![c] = NoServer]
  BY <1>2, <1>3, <1>4, <1>7 DEF HandshakeFails, client
<1>9. EndMoved(c, n)
  <2>1. srv' \in [Conns -> ServerEnds] /\ srv'[c] = NoServer
    BY <1>8, NoServerTyped DEF ResumeTypes
  <2>2. \A d \in Conns : d # c => srv'[d] = srv[d] BY <1>8 DEF ResumeTypes
  <2> QED BY <2>1, <2>2, NoServerTyped DEF EndMoved
<1>10. obj'[n] = t BY <1>3, <1>8 DEF ResumeTypes
<1>11. TokenInv(n)'
  <2>1. TokenInv(n) BY DEF InStep
  <2>2. \A d \in Conns : srv'[d].pc = "request" => srv'[d] = srv[d] BY <1>9 DEF EndMoved
  <2>3. stateFile.token # NoToken => Accepted(stateFile.token, n)'
    BY <1>4, <1>7, <1>8, <1>10, <2>1 DEF TokenInv, Accepted
  <2>4. ident.token # NoToken => Accepted(ident.token, n)'
    BY <1>4, <1>7, <1>8, <1>10, <2>1 DEF TokenInv, Accepted
  <2> QED BY <1>3, <1>4, <1>7, <1>8, <1>10, <2>1, <2>2, <2>3, <2>4 DEF TokenInv
<1>12. obj[n].epoch <= t.epoch BY <1>4, <1>7
<1>13. tokens' \in Nat /\ tokens <= tokens' /\ tokens' = tokens BY <1>4, <1>8
<1> QED BY <1>1, <1>3, <1>8, <1>9, <1>11, <1>12, <1>13, AdmitKeeps

\* A session made anew: nothing but an answer of a first epoch is stored, and
\* the client shows the latest token.
LEMMA NewKeeps ==
    ASSUME ResumeTypes, NEW n \in Nat, InStep(n), NEW c \in Conns, HandshakeNew(c), spoiled' = {}
    PROVE  ResumeTypes' /\ InStep(n + 1)'
<1> USE DEF NoToken, NoObj
<1>1. OneClient(n) /\ Copies(n) /\ TokenInv(n) /\ AnswerInv(n) BY DEF InStep
<1>2. Arrived(c) /\ SessionOf(c) = NoObj BY DEF HandshakeNew
<1>3. PICK k \in Nat : k = srv[c].token BY <1>2, RequestAddress
<1>4. /\ srv[c].pc = "request" /\ srv[c].mac = stateFile.mac /\ stateFile.mac \in 1..MaxMac
      /\ k <= stateFile.token /\ stateFile.token \in Nat /\ srv[c].inst \in Nat
  BY <1>2, <1>3, RequestAddress
<1>5. PICK o \in Nat : o = n + 1 OBVIOUS
<1>6. Cardinality(Created) + 1 = o
  <2>1. Created = 1..n BY <1>1 DEF OneClient
  <2>2. Cardinality(1..n) = n BY FS_Interval
  <2> QED BY <1>5, <2>1, <2>2
<1>7. PICK q \in Nat : q = IF k = 0 THEN tokens + 1 ELSE k BY DEF ResumeTypes
<1>8. PICK s : s = [inst |-> srv[c].inst, epoch |-> 1, current |-> q, pending |-> 0, active |-> 0,
                    deadline |-> FALSE]
  OBVIOUS
<1>9. s \in ServerSessions /\ s.epoch = 1 /\ s.current = q /\ s.pending = 0
  BY <1>4, <1>8 DEF ServerSessions
<1>10. PICK t \in ServerSessions :
         t = Occupy(s) /\ t.epoch = s.epoch /\ t.current = s.current /\ t.pending = s.pending
  BY <1>9, Occupied
<1>11. /\ UNCHANGED <<stateFile, alive, ident, mac, ss, inst, gen, saving, cli, macs, insts>>
       /\ obj' = [obj EXCEPT ![o] = t] /\ AdmittedEnd(c, o)
       /\ tokens' = (IF k = 0 THEN tokens + 1 ELSE tokens)
       /\ live' = [live EXCEPT ![stateFile.mac] = o]
       /\ o <= MaxObj /\ ~(stateFile.epoch > 1) /\ ~(ident.epoch > 1)
       /\ o > 1 => ResponseToken(obj[o - 1]) = k
  <2>1. Admit(c, o, s) BY <1>3, <1>6, <1>7, <1>8 DEF HandshakeNew
  <2>2. obj' = [obj EXCEPT ![o] = t] /\ AdmittedEnd(c, o) BY <1>10, <2>1 DEF Admit, AdmittedEnd
  <2>3. ~(stateFile.epoch > 1) /\ ~(ident.epoch > 1) /\ (o > 1 => ResponseToken(obj[o - 1]) = k)
    BY <1>3, <1>6 DEF HandshakeNew
  <2> QED BY <1>3, <1>4, <1>6, <2>2, <2>3 DEF HandshakeNew, ToClient, client
<1>12. o \in Objs /\ MaxObj \in Nat BY <1>5, <1>11, ResumeBounds DEF Objs
<1>13. obj'[o] = t /\ \A p \in Objs : p # o => obj'[p] = obj[p] BY <1>11, <1>12 DEF ResumeTypes
<1>14. /\ srv' \in [Conns -> ServerEnds]
       /\ srv'[c].pc = "admitted" /\ srv'[c].obj = o /\ srv'[c].mac = srv[c].mac
       /\ \A d \in Conns : d # c => srv'[d] = srv[d]
  BY <1>11, AdmittedEnds DEF ResumeTypes
<1>15. live' \in [1..MaxMac -> Nat] /\ tokens' \in Nat /\ obj' \in [Objs -> ServerSessions]
  <2>1. live' \in [1..MaxMac -> Nat] BY <1>11 DEF ResumeTypes
  <2>2. tokens' \in Nat BY <1>11 DEF ResumeTypes
  <2>3. obj' \in [Objs -> ServerSessions] BY <1>11 DEF ResumeTypes
  <2> QED BY <2>1, <2>2, <2>3
<1>16. ResumeTypes' BY <1>11, <1>14, <1>15 DEF ResumeTypes
<1>17. OneClient(o)'
  <2>1. Created' = 1..o
    <3>1. \A p \in Objs : (obj[p].epoch > 0) <=> (p \in 1..n) BY <1>1 DEF OneClient, Created
    <3>2. \A p \in Objs : (obj'[p].epoch > 0) <=> (p \in 1..o)
      BY <1>5, <1>9, <1>10, <1>13, <3>1 DEF Objs
    <3>3. 1..o \subseteq Objs BY <1>11, <1>12 DEF Objs
    <3> QED BY <3>2, <3>3 DEF Created
  <2>2. stateFile.mac # NoMac /\ stateFile.mac # BadMac BY <1>4 DEF NoMac, BadMac
  <2>3. \A d \in Conns : srv'[d].pc # "none" => srv'[d].mac = stateFile.mac
    BY <1>1, <1>4, <1>14 DEF OneClient
  <2>4. \A d \in Conns : srv'[d].pc \in {"admitted", "answered"} => srv'[d].obj \in 1..o
    <3>1. o \in 1..o /\ 1..n \subseteq 1..o BY <1>5
    <3> QED BY <1>1, <1>14, <3>1 DEF OneClient
  <2>5. \A m \in 1..MaxMac : live'[m] # 0 => m = stateFile.mac /\ live'[m] = o
    <3>1. \A m \in 1..MaxMac : m # stateFile.mac => live[m] = 0 BY <1>1 DEF OneClient
    <3> QED BY <1>4, <1>11, <3>1 DEF ResumeTypes
  <2> QED BY <1>1, <1>5, <1>11, <2>1, <2>2, <2>3, <2>4, <2>5 DEF OneClient
<1>18. Copies(o)'
  <2>1. Stores(stateFile, o)' /\ Stores(ident, o)'
    <3>1. 1..n \subseteq 1..o BY <1>5
    <3> QED BY <1>1, <1>11, <3>1 DEF Copies, Stores
  <2>2. stateFile.epoch <= 1 /\ ident.epoch <= 1 BY <1>11 DEF ResumeTypes, StateRecords
  <2> QED BY <1>1, <1>11, <2>1, <2>2 DEF Copies
<1>19. /\ tokens' > 0 /\ q = tokens'
       /\ stateFile.token = 0 => tokens' <= 1
       /\ stateFile.token # 0 => stateFile.token = tokens'
       /\ ident.token # 0 => ident.token = tokens'
  <2>1. tokens \in Nat BY DEF ResumeTypes
  <2>2. CASE n = 0
    <3>1. tokens = 0 BY <1>1, <2>2 DEF TokenInv
    <3>2. stateFile.token = 0 /\ ident.token = 0 BY <1>1, <2>2 DEF Copies, Stores
    <3>3. k = 0 BY <1>4, <3>2
    <3> QED BY <1>7, <1>11, <3>1, <3>2, <3>3
  <2>3. CASE n # 0
    <3>1. o - 1 = n /\ o > 1 BY <1>5, <2>3
    <3>2. k = tokens /\ tokens > 0
      BY <1>1, <1>11, <2>1, <2>3, <3>1 DEF TokenInv, ResponseToken
    <3>3. stateFile.token = tokens /\ (ident.token = 0 \/ ident.token = tokens)
      BY <1>4, <3>2, LatestStored
    <3> QED BY <1>7, <1>11, <2>1, <3>2, <3>3
  <2> QED BY <2>2, <2>3
<1>20. TokenInv(o)'
  <2>1. \A d \in Conns : srv'[d].pc = "request" => srv'[d] = srv[d] BY <1>14
  <2>2. obj'[o].pending = 0 /\ obj'[o].current = tokens' BY <1>9, <1>10, <1>13, <1>19
  <2>3. \A d \in Conns : srv'[d].pc = "request" => srv'[d].token <= stateFile'.token
    BY <1>1, <1>11, <2>1 DEF TokenInv
  <2> QED BY <1>5, <1>11, <1>19, <2>2, <2>3 DEF TokenInv, Accepted
<1>21. AnswerInv(o)'
  <2>1. \A d \in Conns : ~Answering(d, o)'
    <3>1. \A d \in Conns : srv[d].pc = "answered" => srv[d].obj \in 1..n BY <1>1 DEF OneClient
    <3> QED BY <1>5, <1>14, <3>1 DEF Answering
  <2>2. \A d \in Conns : ~(srv'[d].pc = "answered" /\ srv'[d].obj = o) BY <2>1 DEF Answering
  <2> QED BY <2>2 DEF AnswerInv, Answering
<1> QED BY <1>5, <1>16, <1>17, <1>18, <1>20, <1>21 DEF InStep

\* What has happened is not forgotten.
LEMMA SpoiledStays ==
    ASSUME [ResumeNext]_resumeVars, spoiled' = {}
    PROVE  spoiled = {} /\ ~StartUnsaved /\ ~StateLost
<1>1. ASSUME NEW c \in Conns, ClientStep(c) \/ Lose(c) \/ ServerStep(c) PROVE spoiled \subseteq spoiled'
  <2>1. CASE Dial(c) \/ Request(c) \/ SeeClosed(c) \/ Rekey(c) \/ ForcedReconnect(c) \/ Lose(c)
    BY <2>1 DEF Dial, Request, SeeClosed, Rekey, ForcedReconnect, Lose
  <2>2. CASE Negotiate(c) BY <2>2 DEF Negotiate
  <2>3. CASE HandshakeNew(c) BY <2>3 DEF HandshakeNew
  <2>4. CASE HandshakeSame(c) \/ HandshakeRotate(c) \/ HandshakeRefuse(c) \/ SendAnswer(c) \/ CloseEnd(c)
    BY <2>4 DEF HandshakeSame, HandshakeRotate, HandshakeRefuse, SendAnswer, CloseEnd
  <2> QED BY <1>1, <2>1, <2>2, <2>3, <2>4 DEF ClientStep, ServerStep
<1>2. \A c \in Conns, rotated \in BOOLEAN : HandshakeFails(c, rotated) => spoiled \subseteq spoiled'
  BY DEF HandshakeFails
<1>3. Start \/ Crash \/ StateSaved \/ SpendSequence \/ ServerRestart => spoiled \subseteq spoiled'
  BY DEF Start, Crash, StateSaved, SpendSequence, ServerRestart
<1>4. /\ \A o \in Objs : ServerExhausted(o) => spoiled \subseteq spoiled'
      /\ \A m \in 1..MaxMac : Destroy(m) => spoiled \subseteq spoiled'
  <2>1. \A o \in Objs : ServerExhausted(o) => spoiled' = spoiled BY DEF ServerExhausted
  <2>2. \A m \in 1..MaxMac : Destroy(m) => spoiled' = spoiled BY DEF Destroy
  <2> QED BY <2>1, <2>2
<1>5. StartUnsaved \/ StateLost => "save" \in spoiled' BY DEF StartUnsaved, StateLost
<1>6. ~StartUnsaved /\ ~StateLost BY <1>5
<1>7. CASE UNCHANGED resumeVars BY <1>6, <1>7 DEF resumeVars
<1>8. CASE ResumeNext
  <2>1. spoiled \subseteq spoiled' BY <1>1, <1>2, <1>3, <1>4, <1>6, <1>8 DEF ResumeNext
  <2> QED BY <1>6, <2>1
<1> QED BY <1>7, <1>8

LEMMA ResumeStep == ResumeInv /\ [ResumeNext]_resumeVars => ResumeInv'
<1> SUFFICES ASSUME ResumeInv, [ResumeNext]_resumeVars, spoiled' = {}
             PROVE  ResumeTypes' /\ \E n \in Nat : InStep(n)'
  BY DEF ResumeInv
<1>1. spoiled = {} /\ ~StartUnsaved /\ ~StateLost BY SpoiledStays
<1>2. ResumeTypes BY <1>1 DEF ResumeInv
<1>3. PICK n \in Nat : InStep(n) BY <1>1 DEF ResumeInv
<1>4. CASE Start BY <1>2, <1>3, <1>4, StartKeeps
<1>5. CASE Crash BY <1>2, <1>3, <1>5, CrashKeeps
<1>6. CASE StateSaved BY <1>2, <1>3, <1>6, SavedKeeps
<1>7. CASE SpendSequence BY <1>2, <1>3, <1>7, SpendSequenceKeeps
<1>8. ASSUME NEW c \in Conns, ClientStep(c) \/ Lose(c) PROVE ResumeTypes' /\ InStep(n)'
  <2>1. CASE Request(c) BY <1>2, <1>3, <2>1, ResumeRequestKeeps
  <2>2. CASE Negotiate(c) BY <1>2, <1>3, <2>2, NegotiateKeeps
  <2>3. CASE Dial(c) \/ Lose(c) \/ SeeClosed(c) \/ Rekey(c) \/ ForcedReconnect(c)
    BY <1>2, <1>3, <2>3, ClientEndKeeps
  <2> QED BY <1>8, <2>1, <2>2, <2>3 DEF ClientStep
<1>9. ASSUME NEW c \in Conns, ServerStep(c)
      PROVE  ResumeTypes' /\ (InStep(n)' \/ InStep(n + 1)')
  <2>1. CASE HandshakeNew(c) BY <1>2, <1>3, <2>1, NewKeeps
  <2>2. CASE HandshakeSame(c) BY <1>2, <1>3, <2>2, SameKeeps
  <2>3. CASE HandshakeRotate(c) BY <1>2, <1>3, <2>3, RotateKeeps
  <2>4. CASE HandshakeRefuse(c) BY <1>2, <1>3, <2>4, RefuseKeeps
  <2>5. CASE SendAnswer(c) BY <1>2, <1>3, <2>5, AnswerKeeps
  <2>6. CASE CloseEnd(c) BY <1>2, <1>3, <2>6, CloseKeeps
  <2> QED BY <1>9, <2>1, <2>2, <2>3, <2>4, <2>5, <2>6 DEF ServerStep
<1>10. ASSUME NEW o \in Objs, ServerExhausted(o) PROVE ResumeTypes' /\ InStep(n)'
  BY <1>2, <1>3, <1>10, ExhaustedKeeps
<1>11. CASE ServerRestart \/ \E m \in 1..MaxMac : Destroy(m) BY <1>2, <1>3, <1>11, ForgetKeeps
<1>17. CASE \E c \in Conns, rotated \in BOOLEAN : HandshakeFails(c, rotated)
  BY <1>2, <1>3, <1>17, FailsKeeps
<1>12. CASE UNCHANGED resumeVars
  <2>1. UNCHANGED <<stateFile, alive, ident, mac, ss, saving, macs, srv, live, obj, tokens, cli, insts,
                    inst, gen>>
    BY <1>12 DEF resumeVars, client, server
  <2>2. ResumeTypes' BY <1>2, <2>1 DEF ResumeTypes
  <2>3. \A o \in Objs : obj[o].epoch \in Nat BY <1>2 DEF ResumeTypes, ServerSessions
  <2>4. Recedes BY <1>3, <2>1, <2>3 DEF Recedes, InStep, OneClient
  <2> QED BY <1>2, <1>3, <2>2, <2>4, RecedeKeeps
<1>13. n + 1 \in Nat OBVIOUS
<1>14. CASE \E c \in Conns : ClientStep(c) \/ Lose(c) \/ ServerStep(c)
  <2>1. ResumeTypes' /\ (InStep(n)' \/ InStep(n + 1)') BY <1>8, <1>9, <1>14
  <2> QED BY <1>13, <2>1
<1>15. CASE \E o \in Objs : ServerExhausted(o) BY <1>10, <1>15
<1>16. \/ Start \/ Crash \/ StateSaved \/ SpendSequence
       \/ \E c \in Conns : ClientStep(c) \/ Lose(c) \/ ServerStep(c)
       \/ \E c \in Conns, rotated \in BOOLEAN : HandshakeFails(c, rotated)
       \/ \E o \in Objs : ServerExhausted(o)
       \/ ServerRestart \/ \E m \in 1..MaxMac : Destroy(m)
       \/ UNCHANGED resumeVars
  BY <1>1 DEF ResumeNext
<1> QED BY <1>4, <1>5, <1>6, <1>7, <1>11, <1>12, <1>14, <1>15, <1>16, <1>17

\* The token in the state file opens the session the server keeps for the client,
\* whatever answers are lost and wherever the client process is killed: the two
\* phases in which src/server.rs replaces a resume token and the two copies
\* src/client_state.rs keeps never part, for any number of connections, process
\* starts, epochs and sessions.
THEOREM TokenOpens == ResumeSpec => []Rejoins
<1>1. ResumeInv => Rejoins
  <2> SUFFICES ASSUME ResumeInv, Stored, Present, spoiled = {} PROVE Opens(stateFile.token)
    BY DEF Rejoins
  <2> USE DEF NoToken, NoObj, NoMac
  <2>1. ResumeTypes BY DEF ResumeInv
  <2>2. PICK n \in Nat : InStep(n) BY DEF ResumeInv
  <2>3. OneClient(n) /\ Copies(n) /\ TokenInv(n) BY <2>2 DEF InStep
  <2>4. stateFile.cid = stateFile.mac /\ stateFile.cid > 0 BY <2>3 DEF Stored, Copies, Stores
  <2>5. stateFile.mac \in 1..MaxMac BY <2>3, <2>4 DEF OneClient, BadMac
  <2>6. live[stateFile.cid] = n /\ n # 0 BY <2>3, <2>4, <2>5 DEF Present, OneClient
  <2>7. Accepted(stateFile.token, n) BY <2>3 DEF TokenInv, Stored
  <2>8. Accepts(obj[n], stateFile.token)
    BY <2>1, <2>3, <2>6, <2>7 DEF Accepted, Accepts, TokenInv, Stored, ResumeTypes
  <2> QED BY <2>6, <2>8 DEF Opens
<1> QED BY <1>1, ResumeInitial, ResumeStep, PTL DEF ResumeSpec
=============================================================================
