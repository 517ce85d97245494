---------------------------- MODULE ProxyClient ----------------------------
(***************************************************************************)
(* The client of the Hysteria, Hysteria2 and TUIC outbounds: one shared    *)
(* connection, dialed by at most one offer at a time on behalf of everyone *)
(* who asks, counted by the streams and UDP sessions that use it, and      *)
(* closed when it is idle, when it fails and when the client is reset.     *)
(* The three packages carry the same machine; they differ in how an offer  *)
(* authenticates and in how a UDP session is opened.  The shared actions   *)
(* are those of hysteria2/client.go; the wrappers at the end name the      *)
(* copies of hysteria/client.go and tuic/client.go.                        *)
(***************************************************************************)
EXTENDS Naturals, FiniteSets

CONSTANTS Users,       \* callers of DialConn and ListenPacket
          Offers,      \* protocol -> how many connections its client may dial
          SessionIds,  \* values of the UDP session counter before it wraps
          Protocols    \* subset of {"hysteria", "hysteria2", "tuic"}

ASSUME ProxyConstants ==
  /\ IsFiniteSet(Users) /\ "nobody" \notin Users
  /\ Protocols \subseteq {"hysteria", "hysteria2", "tuic"} /\ Offers \in [Protocols -> Nat]
  /\ SessionIds \in Nat \ {0}

VARIABLES proto,       \* which package this client is of; rigid
          shared,      \* c.conn, 0 if nil
          pending,     \* c.pending, 0 if nil
          closeIdle,   \* c.closeIdle
          offer,       \* offer -> [at, discarded, ok]
          link,        \* its connection -> [life, lost, doomed, idle, streams, ids, udp];
                       \* connection 0 stands for none
          user         \* caller -> [at, kind, keep, link, id]

proxyVars == <<proto, shared, pending, closeIdle, offer, link, user>>

Nobody == "nobody"
IdSpace == 0..(SessionIds - 1)
IdleUser == [at |-> "idle", kind |-> "tcp", keep |-> FALSE, link |-> 0, id |-> 0]

ProxyInit ==
  /\ proto \in Protocols
  /\ shared = 0 /\ pending = 0 /\ closeIdle \in BOOLEAN
  /\ offer = [o \in 1..Offers[proto] |-> [at |-> "unused", discarded |-> FALSE, ok |-> FALSE]]
  /\ link = [o \in 0..Offers[proto] |-> [life |-> "none", lost |-> FALSE, doomed |-> FALSE, idle |-> FALSE,
                                  streams |-> 0, ids |-> 0, udp |-> [i \in IdSpace |-> Nobody]]]
  /\ user = [u \in Users |-> IdleUser]

Active(k) == link[k].life = "open" /\ ~link[k].lost
NoSessions(l) == \A i \in IdSpace : l.udp[i] = Nobody

(* The test of releaseStream, releaseUDPSession and CloseIdleConnections.  *)
IdleNow(l) == l.life = "open" /\ l.streams = 0 /\ NoSessions(l)

(* markClosedLocked and closeTransport; idle records that nobody used it.  *)
Closed(l) == [l EXCEPT !.life = "closed", !.idle = IdleNow(l), !.lost = FALSE, !.doomed = FALSE]

(* Hysteria and DialConn keep the connection by a stream; ListenPacket of  *)
(* the other two takes what offer returns.                                 *)
WithStream(u) == user[u].kind = "tcp" \/ proto = "hysteria"

(* offer, under connAccess: the live connection, the offer under way, or a *)
(* new offer with a context of its own.                                    *)
Asks(u) ==
  /\ user[u].at = "idle"
  /\ \E kind \in {"tcp", "udp"}, keep \in BOOLEAN :
       /\ kind = "udp" => ~keep   \* KeepSessionFromContext is DialConn's
       /\ \/ /\ Active(shared)
             /\ user' = [user EXCEPT ![u] = [IdleUser EXCEPT !.at = "offered", !.kind = kind, !.keep = keep, !.link = shared]]
             /\ UNCHANGED <<pending, offer>>
          \/ /\ ~Active(shared)
             /\ \E o \in 1..Offers[proto] :
                  /\ IF pending # 0 THEN o = pending /\ UNCHANGED offer
                     ELSE /\ offer[o].at = "unused" /\ \A p \in 1..(o - 1) : offer[p].at # "unused"
                          /\ offer' = [offer EXCEPT ![o].at = "dialing"]
                  /\ pending' = o
                  /\ user' = [user EXCEPT ![u] = [IdleUser EXCEPT !.at = "waits", !.kind = kind, !.keep = keep, !.link = o]]
  /\ UNCHANGED <<proto, shared, closeIdle, link>>

(* The caller's own context ends its wait, never the offer.                *)
UserGivesUp(u) ==
  /\ user[u].at = "waits"
  /\ user' = [user EXCEPT ![u] = IdleUser]
  /\ UNCHANGED <<proto, shared, pending, closeIdle, offer, link>>

Answered(u) ==
  /\ user[u].at = "waits" /\ offer[user[u].link].at \in {"done", "discards"}
  /\ user' = [user EXCEPT ![u] = IF offer[user[u].link].ok THEN [@ EXCEPT !.at = "offered"] ELSE IdleUser]
  /\ UNCHANGED <<proto, shared, pending, closeIdle, offer, link>>

\* Faulty, unused: no second look at the connection.
MutStillOpen(l) == TRUE

(* acquireStream: a connection closed since sends the caller back to offer.*)
StillOpen(l) == l.life = "open"
Acquires(u) ==
  /\ user[u].at = "offered" /\ WithStream(u)
  /\ LET k == user[u].link IN
       IF StillOpen(link[k])
       THEN /\ link' = [link EXCEPT ![k].streams = @ + 1]
            /\ user' = [user EXCEPT ![u].at = "acquired"]
       ELSE user' = [user EXCEPT ![u] = [@ EXCEPT !.at = "idle", !.link = 0]] /\ UNCHANGED link
  /\ UNCHANGED <<proto, shared, pending, closeIdle, offer>>

(* releaseStream; a stream that keeps its session never closes the idle.   *)
StreamFreed(l, keep) ==
  LET r == [l EXCEPT !.streams = @ - 1]
  IN  IF closeIdle /\ ~keep /\ IdleNow(r) THEN Closed(r) ELSE r

(* DialConn after the offer: OpenStream gives the caller its connection or *)
(* gives the count back.                                                   *)
OpensStream(u) ==
  /\ user[u].at = "acquired" /\ user[u].kind = "tcp"
  /\ \/ Active(user[u].link) /\ user' = [user EXCEPT ![u].at = "stream"] /\ UNCHANGED link
     \/ /\ user' = [user EXCEPT ![u] = IdleUser]
        /\ link' = [link EXCEPT ![user[u].link] = StreamFreed(@, FALSE)]
  /\ UNCHANGED <<proto, shared, pending, closeIdle, offer>>

(* clientConn.Close, once.                                                 *)
ClosesStream(u) ==
  /\ user[u].at = "stream"
  /\ user' = [user EXCEPT ![u] = IdleUser]
  /\ link' = [link EXCEPT ![user[u].link] = StreamFreed(@, user[u].keep)]
  /\ UNCHANGED <<proto, shared, pending, closeIdle, offer>>

(* ListenPacket takes the next session number and its place in the map;    *)
(* on a connection already closed it fails.  Hysteria's number comes with  *)
(* the server's answer, and its stream is released once registered.        *)
SessionTaken(l, u) == [l EXCEPT !.udp[l.ids % SessionIds] = u, !.ids = @ + 1]
Listens(u) ==
  /\ user[u].kind = "udp" /\ user[u].at = IF proto = "hysteria" THEN "acquired" ELSE "offered"
  /\ LET k == user[u].link
         taken == IF link[k].life = "open" THEN SessionTaken(link[k], u) ELSE link[k]
     IN /\ link[k].ids <= SessionIds
        /\ user' = [user EXCEPT ![u] = IF link[k].life = "open"
                                       THEN [@ EXCEPT !.at = "session", !.id = link[k].ids % SessionIds]
                                       ELSE IdleUser]
        /\ link' = [link EXCEPT ![k] = IF proto = "hysteria" THEN StreamFreed(taken, FALSE) ELSE taken]
  /\ UNCHANGED <<proto, shared, pending, closeIdle, offer>>

(* Hysteria: the request is refused or its stream fails.                   *)
ListenFails(u) ==
  /\ proto = "hysteria" /\ user[u].kind = "udp" /\ user[u].at = "acquired"
  /\ user' = [user EXCEPT ![u] = IdleUser]
  /\ link' = [link EXCEPT ![user[u].link] = StreamFreed(@, FALSE)]
  /\ UNCHANGED <<proto, shared, pending, closeIdle, offer>>

(* udpPacketConn.Close: cancelled, then releaseUDPSession takes the number *)
(* out of the map.                                                         *)
SessionFreed(l, id) ==
  LET r == [l EXCEPT !.udp[id] = Nobody]
  IN  IF closeIdle /\ IdleNow(r) THEN Closed(r) ELSE r
ClosesSession(u) ==
  /\ user[u].at = "session"
  /\ user' = [user EXCEPT ![u] = IdleUser]
  /\ link' = [link EXCEPT ![user[u].link] = SessionFreed(@, user[u].id)]
  /\ UNCHANGED <<proto, shared, pending, closeIdle, offer>>

(* clientQUICConnection.closeWithError: marked closed and its sessions     *)
(* cancelled; who holds one still closes it.                               *)
LinkEnded(l) == [Closed(l) EXCEPT !.idle = FALSE, !.udp = [i \in IdSpace |-> Nobody]]
LinkEnds(k) ==
  /\ link[k].life = "open" /\ (link[k].lost \/ link[k].doomed)
  /\ link' = [link EXCEPT ![k] = LinkEnded(@)]
  /\ UNCHANGED <<proto, shared, pending, closeIdle, offer, user>>

(* The environment: the peer or the path ends the QUIC connection.         *)
LinkLost(k) ==
  /\ Active(k) /\ link' = [link EXCEPT ![k].lost = TRUE]
  /\ UNCHANGED <<proto, shared, pending, closeIdle, offer, user>>

(* offerNew: the socket is opened.                                         *)
OpensSocket(o) ==
  /\ offer[o].at = "dialing" /\ link[o].life = "none"
  /\ link' = [link EXCEPT ![o].life = "socket"]
  /\ UNCHANGED <<proto, shared, pending, closeIdle, offer, user>>

(* What an offer that fails leaves of its socket.                          *)
OfferFailed(l) == [l EXCEPT !.life = "closed"]
OfferFails(o) ==
  /\ offer[o].at = "dialing"
  /\ offer' = [offer EXCEPT ![o].at = "dialed"]
  /\ link' = [link EXCEPT ![o] = OfferFailed(@)]
  /\ UNCHANGED <<proto, shared, pending, closeIdle, user>>

(* Hysteria2 is answered by an HTTP status, Hysteria by a hello; TUIC does *)
(* not wait: its handshake goes on while the connection is in use.         *)
Authenticates(o) ==
  /\ offer[o].at = "dialing" /\ link[o].life = "socket"
  /\ offer' = [offer EXCEPT ![o].at = "dialed", ![o].ok = TRUE]
  /\ link' = [link EXCEPT ![o].life = "open"]
  /\ UNCHANGED <<proto, shared, pending, closeIdle, user>>

\* Faulty, unused: completeOffer forgets that it was discarded.
MutInstalls(o) == offer[o].ok

(* completeOffer under connAccess; what was discarded is closed after it.  *)
Installs(o) == offer[o].ok /\ ~offer[o].discarded
CompletesOffer(o) ==
  /\ offer[o].at = "dialed"
  /\ offer' = [offer EXCEPT ![o].at = IF offer[o].discarded /\ offer[o].ok THEN "discards" ELSE "done",
                            ![o].ok = Installs(o)]
  /\ shared' = IF Installs(o) THEN o ELSE shared
  /\ pending' = IF pending = o THEN 0 ELSE pending
  /\ UNCHANGED <<proto, closeIdle, link, user>>

DiscardsLink(o) ==
  /\ offer[o].at = "discards"
  /\ offer' = [offer EXCEPT ![o].at = "done"]
  /\ link' = [link EXCEPT ![o] = IF @.life = "open" THEN LinkEnded(@) ELSE @]
  /\ UNCHANGED <<proto, shared, pending, closeIdle, user>>

(* TUIC: the handshake, a heartbeat or a first write that fails dooms it.  *)
TuicHandshakeFails(k) ==
  /\ proto = "tuic" /\ Active(k) /\ ~link[k].doomed
  /\ link' = [link EXCEPT ![k].doomed = TRUE]
  /\ UNCHANGED <<proto, shared, pending, closeIdle, offer, user>>

(* CloseWithError: the client forgets its connection and its offer under   *)
(* connAccess and closes them after it.                                    *)
ClientResets ==
  /\ shared # 0 \/ pending # 0
  /\ shared' = 0
  /\ offer' = [o \in 1..Offers[proto] |-> IF o = pending THEN [offer[o] EXCEPT !.discarded = TRUE] ELSE offer[o]]
  /\ link' = [link EXCEPT ![shared].doomed = Active(shared)]
  /\ UNCHANGED <<proto, pending, closeIdle, user>>

(* CloseIdleConnections, of the connection it read some time before, and   *)
(* SetKeepIdleConnections, whose own closing is the former.                *)
Installed(k) == offer[k].at = "done" /\ offer[k].ok
ClosesIdle(k) ==
  /\ Installed(k) /\ IdleNow(link[k])
  /\ link' = [link EXCEPT ![k] = Closed(@)]
  /\ UNCHANGED <<proto, shared, pending, closeIdle, offer, user>>

KeepsIdle ==
  /\ closeIdle' = ~closeIdle
  /\ UNCHANGED <<proto, shared, pending, offer, link, user>>

Common ==
  \/ ClientResets \/ KeepsIdle
  \/ \E u \in Users : UserGivesUp(u) \/ Answered(u)
  \/ \E o \in 1..Offers[proto] :
       OpensSocket(o) \/ OfferFails(o) \/ DiscardsLink(o) \/ LinkLost(o) \/ ClosesIdle(o)

(* The same machine in the three packages. *)
Hysteria2Next ==
  /\ proto = "hysteria2"
  /\ \/ \E u \in Users : \/ Asks(u) \/ Acquires(u) \/ OpensStream(u) \/ ClosesStream(u)
                        \/ Listens(u) \/ ClosesSession(u)
     \/ \E o \in 1..Offers[proto] : Authenticates(o) \/ CompletesOffer(o) \/ LinkEnds(o)

HysteriaAsks(u) == Asks(u)
HysteriaAcquires(u) == Acquires(u)
HysteriaDialsConn(u) == OpensStream(u)
HysteriaStreamEnds(u) == ClosesStream(u)
HysteriaListens(u) == Listens(u)
HysteriaSessionEnds(u) == ClosesSession(u)
HysteriaSaysHello(o) == Authenticates(o)
HysteriaCompletes(o) == CompletesOffer(o)
HysteriaLinkEnds(k) == LinkEnds(k)
HysteriaNext ==
  /\ proto = "hysteria"
  /\ \/ \E u \in Users : \/ HysteriaAsks(u) \/ HysteriaAcquires(u) \/ HysteriaDialsConn(u)
                        \/ HysteriaStreamEnds(u) \/ HysteriaListens(u) \/ ListenFails(u)
                        \/ HysteriaSessionEnds(u)
     \/ \E o \in 1..Offers[proto] : HysteriaSaysHello(o) \/ HysteriaCompletes(o) \/ HysteriaLinkEnds(o)

TuicAsks(u) == Asks(u)
TuicAcquires(u) == Acquires(u)
TuicDialsConn(u) == OpensStream(u)
TuicStreamEnds(u) == ClosesStream(u)
TuicListens(u) == Listens(u)
TuicSessionEnds(u) == ClosesSession(u)
TuicDials(o) == Authenticates(o)
TuicCompletes(o) == CompletesOffer(o)
TuicLinkEnds(k) == LinkEnds(k)
TuicNext ==
  /\ proto = "tuic"
  /\ \/ \E u \in Users : \/ TuicAsks(u) \/ TuicAcquires(u) \/ TuicDialsConn(u)
                        \/ TuicStreamEnds(u) \/ TuicListens(u) \/ TuicSessionEnds(u)
     \/ \E o \in 1..Offers[proto] : TuicDials(o) \/ TuicCompletes(o) \/ TuicLinkEnds(o) \/ TuicHandshakeFails(o)

ProxyNext == Common \/ HysteriaNext \/ Hysteria2Next \/ TuicNext

ProxySpec == ProxyInit /\ [][ProxyNext]_proxyVars

Uses(u, k) == user[u].link = k /\ user[u].at \in {"acquired", "stream", "session"}
Streams(k) == {u \in Users : user[u].link = k /\ user[u].at \in {"acquired", "stream"}}

(***************************************************************************)
(* Whatever is reset, closed idle or lost while callers come and go: at    *)
(* most one dial is under way and its socket is closed when it fails; an   *)
(* open connection is the shared one or about to be closed; a discarded    *)
(* offer is never shared; the count is exactly the streams held; a session *)
(* keeps its number until the counter wraps; and a connection closed for   *)
(* being idle had no user and gains none.                                  *)
(***************************************************************************)
ProxyInv ==
  /\ \A o \in 1..Offers[proto] :
       /\ offer[o].at \in {"dialing", "dialed"} => o = pending
       /\ link[o].life = "socket" => offer[o].at = "dialing"
       /\ link[o].life = "open" =>
            o = shared \/ link[o].doomed \/ link[o].lost \/ offer[o].at \in {"dialed", "discards"}
       /\ link[o].streams = Cardinality(Streams(o))
       /\ link[o].idle /\ link[o].ids <= SessionIds => \A u \in Users : ~Uses(u, o)
       /\ link[o].life = "open" /\ link[o].ids <= SessionIds =>
            \A i \in IdSpace, u \in Users :
              link[o].udp[i] = u <=> user[u].at = "session" /\ user[u].link = o /\ user[u].id = i
  /\ shared # 0 => ~offer[shared].discarded \/ link[shared].doomed
=============================================================================
