----------------------------- MODULE LinkSetup ------------------------------
(***************************************************************************)
(* One physical connection on the client's side from the first socket to   *)
(* the batches it carries: dial_with_mark (src/net.rs), the SOCKS5         *)
(* handshake (src/socks5.rs), TCP Brutal with the rate both ends agreed on *)
(* (configure_tcp_brutal in src/net.rs, negotiation in src/server.rs) and  *)
(* the cork that holds back the last partial segment (src/tcp_cork.rs).    *)
(*                                                                         *)
(* The proxy, the kernel and the congestion module answer as they please:  *)
(* every system call may fail, and a proxy may choose any address type.    *)
(* Streams are counted in bytes, rates in small units.                     *)
(***************************************************************************)
EXTENDS Integers, FiniteSetsExt

CONSTANTS
    Names,     \* number of addresses the name resolves to
    MaxLen,    \* bound: length of a domain name in a proxy's reply
    MaxRate,   \* MAX_BRUTAL_RATE_MBPS
    Unit,      \* bytes/s in one unit of rate (125000 in the code)
    MaxConns,  \* bound: connections of the client
    Mss,       \* bytes of a full segment
    Sizes,     \* bound: bytes of a batch
    Overhead,  \* bytes TLS adds to a batch
    Delay,     \* time a tail is held back
    Late,      \* time a poll may return after its timeout
    MaxTime    \* bound on the clock

ASSUME LinkSetupAssumption ==
    /\ Names \in Nat /\ MaxLen \in Nat /\ MaxRate \in Nat \ {0} /\ Unit \in Nat \ {0}
    /\ MaxConns \in Nat \ {0} /\ Mss \in Nat \ {0} /\ Sizes \subseteq Nat \ {0}
    /\ Overhead \in Nat /\ Delay \in Nat \ {0} /\ Late \in Nat /\ MaxTime \in Nat

NoTime == -1

VARIABLES
    link,    \* configuration: fwmark, proxy, upstream budgets, connection
    stage,   \* where dial_and_serve is
    left,    \* addresses not tried yet
    open,    \* sockets open
    marked,  \* the socket carries SO_MARK
    unread,  \* the address type of the proxy's reply and its bytes still in the stream
    cc,      \* the socket's congestion control (kernel)
    first,   \* what it was before TCP Brutal was tried (ghost)
    rate,    \* the rate the kernel enforces for it
    previous,\* what the code remembers of it, "none" if it could not be read
    result,  \* BrutalApplyResult; error is "none", "failed" or "stuck"
    cork,    \* TlsBatchCork
    wire,    \* the kernel's TCP_CORK, the tail it holds and since when
    clock

linkVars == <<link, stage, left, open, marked, unread, cc, first, rate, previous, result, cork, wire, clock>>
dialVars == <<left, open, marked>>
brutalVars == <<cc, first, rate, previous, result>>
corkVars == <<cork, wire, clock>>

NoResult == [attempted |-> FALSE, applied |-> FALSE, managed |-> FALSE, grouped |-> FALSE,
             rate |-> 0, error |-> "none"]
Uncorked == [enabled |-> FALSE, corked |-> FALSE, progress |-> 0, deadline |-> NoTime,
             carry |-> FALSE]

LinkInit ==
    /\ link \in [mark : BOOLEAN, proxy : BOOLEAN, mine : 0..MaxRate, theirs : 0..MaxRate,
                 conns : 1..MaxConns, index : 0..MaxConns - 1]
    /\ link.index < link.conns
    /\ stage = "dial" /\ left = Names /\ open = 0 /\ marked = FALSE
    /\ unread = [atyp |-> "none", bytes |-> 0]
    /\ cc \in {"cubic", "brutal"} /\ first = cc /\ rate = 0 /\ previous = "none"
    /\ result = NoResult
    /\ cork = Uncorked /\ wire = [corked |-> FALSE, tail |-> 0, since |-> NoTime]
    /\ clock = 0

-----------------------------------------------------------------------------
(* dial_with_mark: one address after the other *)

OpenSocket(ok) ==
    /\ stage = "dial" /\ left > 0
    /\ left' = left - 1
    /\ open' = IF ok THEN open + 1 ELSE open
    /\ stage' = IF ok THEN "mark" ELSE "dial"
    /\ UNCHANGED <<link, marked, unread, brutalVars, corkVars>>

Go(next) == stage' = next /\ UNCHANGED dialVars

\* Mutant of NextAddress: the socket is not closed.
NextAddressOpen == stage' = "dial" /\ marked' = FALSE /\ UNCHANGED open

\* libc::close and on to the next address.
NextAddress == stage' = "dial" /\ marked' = FALSE /\ open' = open - 1

SetMark(ok) ==
    /\ stage = "mark"
    /\ link.mark \/ ok
    /\ IF ok THEN stage' = "connect" /\ marked' = link.mark /\ UNCHANGED open
             ELSE NextAddress
    /\ UNCHANGED <<link, left, unread, brutalVars, corkVars>>

ConnectSocket(ok) ==
    /\ stage = "connect"
    /\ IF ok THEN Go(IF link.proxy THEN "greet" ELSE "tls") ELSE NextAddress /\ UNCHANGED left
    /\ UNCHANGED <<link, unread, brutalVars, corkVars>>

NoAddressLeft ==
    /\ stage = "dial" /\ left = 0
    /\ stage' = "failed"
    /\ UNCHANGED <<link, dialVars, unread, brutalVars, corkVars>>

\* dial_and_serve returns: the stream is dropped.
Fail ==
    /\ stage' = "failed"
    /\ open' = open - 1
    /\ UNCHANGED <<left, marked>>

-----------------------------------------------------------------------------
(* Socks5Proxy::connect_over *)

\* A read that times out after 10 s, a wrong version, a refusal.
ProxyFails ==
    /\ stage \in {"greet", "auth", "request"}
    /\ Fail
    /\ UNCHANGED <<link, unread, brutalVars, corkVars>>

\* The answer to the greeting: no authentication, or user and password, which
\* is answered even if no account is configured.
Greeting(method) ==
    /\ stage = "greet"
    /\ Go(IF method = "none" THEN "request" ELSE "auth")
    /\ UNCHANGED <<link, unread, brutalVars, corkVars>>

Authenticated ==
    /\ stage = "auth"
    /\ Go("request")
    /\ UNCHANGED <<link, unread, brutalVars, corkVars>>

\* The code does not refuse a type it does not know.
AddressTypes == {"ipv4", "ipv6", "domain", "other"}

\* The bytes of BND.ADDR and BND.PORT a proxy sends after the four bytes of the
\* head (external: RFC 1928); those of another type are as many as it likes.
BoundBytes(atyp, len) ==
    CASE atyp = "ipv4" -> 4 + 2 [] atyp = "ipv6" -> 16 + 2 [] atyp = "domain" -> 1 + len + 2
      [] atyp = "other" -> len + 2

\* Mutant of ReadBytes: the port after an IPv4 address is left.
ReadBytesNoPort(atyp, len) ==
    CASE atyp = "ipv4" -> 4 [] atyp = "ipv6" -> 18 [] atyp = "domain" -> 1 + len
      [] atyp = "other" -> 0

\* The bytes of them the code reads; none of an address type it does not know.
ReadBytes(atyp, len) ==
    CASE atyp = "ipv4" -> 6 [] atyp = "ipv6" -> 18 [] atyp = "domain" -> 1 + len
      [] atyp = "other" -> 0

ConnectReply(atyp, len) ==
    /\ stage = "request"
    /\ unread' = [atyp |-> atyp, bytes |-> BoundBytes(atyp, len) - ReadBytes(atyp, len)]
    /\ Go("tls")
    /\ UNCHANGED <<link, brutalVars, corkVars>>

\* The TLS and tunnel handshakes follow; they cannot succeed behind stray bytes.
Handshake(ok) ==
    /\ stage = "tls"
    /\ IF ok /\ unread.bytes = 0 THEN Go("brutal") ELSE Fail
    /\ UNCHANGED <<link, unread, brutalVars, corkVars>>

-----------------------------------------------------------------------------
(* TCP Brutal: configure_tcp_brutal, upstream *)

\* What a set or get of a congestion option answers: LinuxBrutalSocket tells EPERM,
\* a rule that is locked, from every other errno.
Outcomes == {"ok", "locked", "error"}

\* What it answers to TCP_BRUTAL_VERSION: a module that knows groups, one that
\* does not know the option (ENOPROTOOPT), or another errno.
Versions == {"v2", "old", "error"}

\* The server clips its own budget to the one the client asks for; 0 is none.
Clip(requested, budget) ==
    IF requested > 0 /\ (budget = 0 \/ requested < budget) THEN requested ELSE budget

Agreed == Clip(link.mine, link.theirs)

\* split_legacy_brutal_rate_bps
Share(total, conns, index) ==
    IF index >= conns THEN 0
    ELSE (total * Unit) \div conns + IF index < (total * Unit) % conns THEN 1 ELSE 0

\* Not wanted, or over a proxy: the connection is served as it is.
SkipBrutal ==
    /\ stage = "brutal"
    /\ link.proxy \/ Share(link.mine, link.conns, link.index) = 0
    /\ Go("cork")
    /\ UNCHANGED <<link, unread, brutalVars, corkVars>>

GetCongestion(ok) ==
    /\ stage = "brutal"
    /\ ~link.proxy /\ Share(link.mine, link.conns, link.index) > 0
    /\ result' = [NoResult EXCEPT !.attempted = TRUE]
    /\ previous' = IF ok THEN cc ELSE "none"
    /\ Go("set_cc")
    /\ UNCHANGED <<link, unread, cc, first, rate, corkVars>>

\* Brutal gives up: the former algorithm is set again if it is known. That the
\* kernel refuses it (ok = FALSE) is ignored; "stuck" records it for the property.
Restore(ok) ==
    /\ result' = [result EXCEPT !.error = IF ok THEN "failed" ELSE "stuck"]
    /\ cc' = IF previous \notin {"none", "brutal"} /\ ok THEN previous ELSE cc
    /\ Go("cork")

\* EPERM means that a rule of the administrator owns the socket's algorithm.
SetCongestion(outcome) ==
    /\ stage = "set_cc"
    /\ \/ /\ outcome = "ok"
          /\ cc' = "brutal"
          /\ Go("version") /\ UNCHANGED result
       \/ /\ outcome = "locked" /\ cc = "brutal"
          /\ result' = [result EXCEPT !.managed = TRUE]
          /\ Go("version") /\ UNCHANGED cc
       \/ /\ outcome = "error" \/ (outcome = "locked" /\ cc # "brutal")
          /\ result' = [result EXCEPT !.error = "failed"]
          /\ Go("cork") /\ UNCHANGED cc
    /\ UNCHANGED <<link, unread, first, rate, previous, corkVars>>

\* A module of version 2 shares the total among the group's connections; one
\* without a version takes a share for each.
GetVersion(answer, ok) ==
    /\ stage = "version"
    /\ IF answer = "error"
       THEN Restore(ok)
       ELSE /\ result' = [result EXCEPT !.grouped = answer = "v2"]
            /\ Go("set_params") /\ UNCHANGED cc
    /\ UNCHANGED <<link, unread, first, rate, previous, corkVars>>

Wanted == IF result.grouped THEN Agreed * Unit ELSE Share(Agreed, link.conns, link.index)

\* A locked rule keeps its own rate, here one no configuration asks for.
SetParams(outcome, ok) ==
    /\ stage = "set_params"
    /\ \/ /\ outcome = "ok" /\ Wanted > 0
          /\ rate' = Wanted
          /\ Go("read_back") /\ UNCHANGED <<cc, result>>
       \/ /\ outcome = "locked" /\ Wanted > 0
          /\ rate' = MaxRate * Unit + 1
          /\ result' = [result EXCEPT !.managed = TRUE]
          /\ Go("read_back") /\ UNCHANGED cc
       \/ /\ outcome = "error" \/ Wanted = 0
          /\ Restore(ok) /\ UNCHANGED rate
    /\ UNCHANGED <<link, unread, first, previous, corkVars>>

\* Mutant of Claim: the wanted rate is claimed whatever the readback says.
ClaimWanted(outcome) == Wanted

\* The rate the result claims.
Claim(outcome) ==
    CASE outcome = "ok" -> rate
      [] outcome = "locked" /\ result.managed -> 0
      [] OTHER -> Wanted

ReadBack(outcome) ==
    /\ stage = "read_back"
    /\ result' = [result EXCEPT !.applied = TRUE, !.rate = Claim(outcome),
                             !.error = IF outcome = "ok" THEN "none" ELSE "failed"]
    /\ Go("cork")
    /\ UNCHANGED <<link, unread, cc, first, rate, previous, corkVars>>

-----------------------------------------------------------------------------
(* TlsBatchCork *)

corkRest == <<link, dialVars, unread, brutalVars>>

\* A path of less than a millisecond is not corked.
NewCork(slow) ==
    /\ stage = "cork"
    /\ cork' = [Uncorked EXCEPT !.enabled = slow]
    /\ stage' = "serve"
    /\ UNCHANGED <<corkRest, wire, clock>>

\* Mutant of Progress: the deadline moves with every write.
ProgressRestarting(c, n) ==
    [c EXCEPT !.progress = (@ + n) % Mss, !.deadline = clock + Delay]

\* before_write counts the batch; the deadline moves when a segment is complete.
Progress(c, n) ==
    [c EXCEPT !.progress = (@ + n) % Mss,
              !.deadline = IF c.progress + n >= Mss THEN clock + Delay ELSE @]

\* The kernel (external): full segments leave; what is left of the latest bytes
\* stays while TCP_CORK is set.
OnWire(corked, n) ==
    LET total == wire.tail + n + Overhead
        tail  == IF corked THEN total % Mss ELSE 0
    IN  [corked |-> corked, tail |-> tail,
         since  |-> IF tail = 0 THEN NoTime
                    ELSE IF wire.tail = 0 \/ (total >= Mss /\ tail <= n + Overhead) THEN clock
                    ELSE wire.since]

\* before_write, with the setsockopt of an uncorked socket succeeding or not,
\* and the write.
Write(n, ok) ==
    LET starts == [cork EXCEPT !.corked = TRUE, !.carry = TRUE, !.progress = 0,
                               !.deadline = clock + Delay]
    IN  /\ stage = "serve"
        /\ \/ ~cork.enabled /\ ok /\ UNCHANGED cork
           \/ cork.corked /\ ok /\ cork' = Progress(cork, n)
           \/ cork.enabled /\ ~cork.corked /\ ok /\ cork' = Progress(starts, n)
           \/ cork.enabled /\ ~cork.corked /\ ~ok
              /\ cork' = [cork EXCEPT !.enabled = FALSE, !.carry = FALSE]
        /\ wire' = OnWire(wire.corked \/ cork'.corked, n)
        /\ UNCHANGED <<corkRest, stage, clock>>

\* A batch of nothing but a keepalive, after 4 s of silence, which are not timed
\* here: the cork does not hear of it.
WriteKeepalive(n) ==
    /\ stage = "serve"
    /\ wire' = OnWire(wire.corked, n)
    /\ UNCHANGED <<corkRest, stage, cork, clock>>

\* flush_with
Flush(ok) ==
    /\ cork' = [Uncorked EXCEPT !.enabled = cork.enabled /\ ok]
    /\ wire' = IF ok THEN [corked |-> FALSE, tail |-> 0, since |-> NoTime] ELSE wire

\* maybe_flush after every poll; the server writes first, so that a Write may
\* still come past the deadline.
MaybeFlush(ok) ==
    /\ stage = "serve"
    /\ cork.corked /\ clock >= cork.deadline
    /\ Flush(ok)
    /\ UNCHANGED <<corkRest, stage, clock>>

\* poll is given the cork's next_timeout. It returns late: mio rounds less than a
\* millisecond up to one, and other events are handled first.
Tick ==
    /\ stage = "serve" /\ clock < MaxTime
    /\ ~(cork.corked /\ clock >= cork.deadline + Late)
    /\ clock' = clock + 1
    /\ UNCHANGED <<corkRest, stage, cork, wire>>

\* The connection ends: the cork is closed, then the socket.
Close(ok) ==
    /\ stage = "serve"
    /\ IF cork.corked THEN Flush(ok) ELSE ok /\ UNCHANGED <<cork, wire>>
    /\ Fail
    /\ UNCHANGED <<link, unread, brutalVars, clock>>

Done == stage = "failed" /\ UNCHANGED linkVars

LinkNext ==
    \/ \E ok \in BOOLEAN :
          \/ OpenSocket(ok) \/ SetMark(ok) \/ ConnectSocket(ok) \/ Handshake(ok)
          \/ GetCongestion(ok) \/ NewCork(ok) \/ MaybeFlush(ok) \/ Close(ok)
          \/ \E n \in Sizes : Write(n, ok)
          \/ \E answer \in Versions : GetVersion(answer, ok)
          \/ \E outcome \in Outcomes : SetParams(outcome, ok)
    \/ \E outcome \in Outcomes : SetCongestion(outcome) \/ ReadBack(outcome)
    \/ \E n \in Sizes : WriteKeepalive(n)
    \/ \E method \in {"none", "password"} : Greeting(method)
    \/ \E atyp \in AddressTypes, len \in 0..MaxLen : ConnectReply(atyp, len)
    \/ NoAddressLeft \/ ProxyFails \/ Authenticated \/ SkipBrutal \/ Tick \/ Done

LinkSpec == LinkInit /\ [][LinkNext]_linkVars

-----------------------------------------------------------------------------
(* Properties *)

\* Whatever fails on the way, at most one socket is open, none is left when the
\* connection is given up, and with an fwmark no traffic of the handshake goes
\* over a socket without it, which the tunnel's own routes would catch. When TLS
\* starts on a proxied stream nothing of the proxy's replies is left in it,
\* unless the proxy answered with a domain name, of which connect_over reads the
\* name and not the port that follows it, or with an address type it does not
\* know, of which it reads nothing (dial_with_mark, connect_over, dial_and_serve).
StreamReady ==
    /\ open = IF stage \in {"dial", "failed"} THEN 0 ELSE 1
    /\ stage \notin {"dial", "mark", "failed"} => marked = link.mark
    /\ stage = "tls" /\ unread.atyp \in {"none", "ipv4", "ipv6"} => unread.bytes = 0

\* Nothing of the proxy's replies is left in the stream when TLS starts.
StreamClean == stage = "tls" => unread.bytes = 0

\* A rate that is reported is the one the kernel enforces, a Brutal that is not
\* reported is not left behind unless the kernel refused to tell or to restore
\* the former algorithm (configure_tcp_brutal). The exception is a locked rule
\* whose rate cannot be read back for another reason than the lock.
RateReportTrue ==
    stage \in {"cork", "serve"} =>
        /\ result.rate > 0 => result.rate = rate \/ (result.managed /\ result.error = "failed")
        /\ ~result.applied /\ previous # "none" /\ result.error # "stuck" => cc = first

\* The tail of a batch is held back for no longer than two delays and two late
\* polls: progress is counted in plaintext, and a keepalive not at all, so a
\* deadline can move under a tail that is older, but not twice (before_write,
\* maybe_flush). After a setsockopt that failed the release is the kernel's.
TailReleased == cork.enabled /\ wire.tail > 0 => clock - wire.since <= 2 * (Delay + Late)
=============================================================================
