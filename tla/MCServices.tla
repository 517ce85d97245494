----------------------------- MODULE MCServices -----------------------------
(***************************************************************************)
(* Small instances of the parts that serve the flows and share no state      *)
(* with one another: the budgets, the proxies of the other protocols, the     *)
(* rendezvous and the port hopping under them, the coded datagrams, the       *)
(* probing and the sizing of a path and the congestion controllers.  Each      *)
(* behaviour moves one of them, `side` says which, and the others stay in one  *)
(* initial state.                                                             *)
(***************************************************************************)
EXTENDS MemoryBudget, RateBudget, ProxyClient, ProxyDatagram, ProxyServer,
        ProxyStream, RealmServer, RealmPunch, PortMux, PortHop, Gecko, FecWindow,
        CodedSend, Assembler, PathModel, TuicBBR, PacketQueue,
        CubicSender, TLC

CONSTANTS Sides, x1, x2, x3
Two   == {x1, x2}
Three == {x1, x2, x3}
\* Flows, senders, users, peers, dials and sources differ in nothing but their names.
\* (x3, where there is one, is kept apart.)
Names == Permutations(Two)

MemoryPlans == [send: {1, 3}, perFlow: {1, 2}, queue: {0, 2}, reserve: {0, 2}]
RatePlans   == {[total |-> 0, reserve |-> 1, chunk |-> 0], [total |-> 4, reserve |-> 1, chunk |-> 5]}
\* The three clients are one machine: the second connection is tried with one of them.
DialsOf     == [p \in Protocols |-> IF p = "hysteria2" THEN 2 ELSE 1]
FrameList   == <<1, 1, 3, 2>>
\* A frame in one source, in two, in three, and one whose last fragment never came to be.
OneOf(f)    == <<[frame |-> f, index |-> 0, count |-> 1]>>
Cut(f, n)   == [i \in 1..n |-> [frame |-> f, index |-> i - 1, count |-> n]]
LayoutList  == {Cut("a", 2) \o OneOf("b") \o Cut("c", 3),
                SubSeq(Cut("a", 3), 1, 2) \o Cut("b", 2) \o OneOf("c")}
\* Two lanes of one egress.
Chains      == [l \in {x1, x2} |-> <<"egress">>]

VARIABLE side
vars == <<memVars, rateVars, proxyVars, datagramVars, serverVars, streamVars,
          realmVars, punchVars, muxVars, hopVars, hopSocketVars, geckoVars, fecVars,
          codedVars, assemblerVars, pathVars, groupVars, bbrVars,
          queueVars, cubicVars, erasureVars, side>>

\* A part that does not move starts with one of its configurations.
Fixed(s, v, choices) == side # s => v = CHOOSE x \in choices : TRUE

Init ==
  /\ side \in Sides
  /\ MemInit /\ Fixed("memory", limits, {Resolve(c) : c \in MemConfigs})
  /\ RateInit /\ Fixed("rate", plan, {Accepted(c) : c \in RateConfigs})
  /\ ProxyInit /\ Fixed("client", proto, Protocols) /\ Fixed("client", closeIdle, BOOLEAN)
  /\ DatagramInit /\ Fixed("datagram", dproto, DatagramProtocols) /\ Fixed("datagram", sizeLimit, Limits)
  /\ ServerInit /\ Fixed("server", svc, Services)
  /\ StreamInit /\ Fixed("relay", streamProtocol, StreamProtocols)
  /\ RealmInit
  /\ PunchInit
  /\ MuxInit /\ Fixed("mux", bound, {Ports})
  /\ HopInit
  /\ HopSocketInit
  /\ GeckoInit /\ Fixed("gecko", kind, GeckoKinds)
  /\ FecInit /\ Fixed("fec", ring, Capacities)
  /\ CodedInit
  /\ AssemblerInit /\ Fixed("assembler", layout, Layouts)
  /\ PathInit
  /\ GroupsInit
  /\ BBRInit /\ Fixed("bbr", fullBandwidth, BOOLEAN)
  /\ QueueInit
  /\ CubicInit /\ Fixed("cubic", isReno, BOOLEAN)
  /\ ErasureInit /\ Fixed("erasure", seededLevel, ArrivalLevels)

\* Everything but the moving part stays as it is.
Only(s) ==
  /\ side = s /\ UNCHANGED side
  /\ s # "memory" => UNCHANGED memVars
  /\ s # "rate" => UNCHANGED rateVars
  /\ s # "client" => UNCHANGED proxyVars
  /\ s # "datagram" => UNCHANGED datagramVars
  /\ s # "server" => UNCHANGED serverVars
  /\ s # "relay" => UNCHANGED streamVars
  /\ s # "realm" => UNCHANGED realmVars
  /\ s # "punch" => UNCHANGED punchVars
  /\ s # "mux" => UNCHANGED muxVars
  /\ s # "hop" => UNCHANGED hopVars
  /\ s # "socket" => UNCHANGED hopSocketVars
  /\ s # "gecko" => UNCHANGED geckoVars
  /\ s # "fec" => UNCHANGED fecVars
  /\ s # "coded" => UNCHANGED codedVars
  /\ s # "assembler" => UNCHANGED assemblerVars
  /\ s # "path" => UNCHANGED pathVars
  /\ s # "groups" => UNCHANGED groupVars
  /\ s # "bbr" => UNCHANGED bbrVars
  /\ s # "queue" => UNCHANGED queueVars
  /\ s # "cubic" => UNCHANGED cubicVars
  /\ s # "erasure" => UNCHANGED erasureVars

MemoryMoves == Only("memory") /\ MemNext
RateMoves == Only("rate") /\ RateNext
ClientMoves == Only("client") /\ ProxyNext
DatagramMoves == Only("datagram") /\ DatagramNext
ServerMoves == Only("server") /\ ServerNext
RelayMoves == Only("relay") /\ StreamNext
RealmMoves == Only("realm") /\ RealmNext
PunchMoves == Only("punch") /\ PunchNext
MuxMoves == Only("mux") /\ MuxNext
HopMoves == Only("hop") /\ HopNext
SocketMoves == Only("socket") /\ HopSocketNext
GeckoMoves == Only("gecko") /\ GeckoNext
FecMoves == Only("fec") /\ FecNext
CodedMoves == Only("coded") /\ CodedNext
AssemblerMoves == Only("assembler") /\ AssemblerNext
PathMoves == Only("path") /\ PathNext
GroupsMoves == Only("groups") /\ GroupsNext
BbrMoves == Only("bbr") /\ BBRNext
QueueMoves == Only("queue") /\ QueueNext
CubicMoves == Only("cubic") /\ CubicNext
ErasureMoves == Only("erasure") /\ ErasureNext

Next ==
  \/ MemoryMoves \/ RateMoves \/ ClientMoves \/ DatagramMoves \/ ServerMoves
  \/ RelayMoves \/ RealmMoves \/ PunchMoves \/ MuxMoves \/ HopMoves
  \/ SocketMoves \/ GeckoMoves \/ FecMoves \/ CodedMoves \/ AssemblerMoves
  \/ PathMoves \/ GroupsMoves \/ BbrMoves \/ QueueMoves
  \/ CubicMoves \/ ErasureMoves

Spec == Init /\ [][Next]_vars

(***************************************************************************)
(* Properties                                                               *)
(***************************************************************************)

\* The proxies of the three protocols: ProxyInv of their shared connection, DatagramInv of
\* their cut datagrams, ServerInv of their session tables and RelayInv of their streams.
ProxiesInv ==
  /\ side = "client" => ProxyInv
  /\ side = "datagram" => DatagramInv
  /\ side = "server" => ServerInv
  /\ side = "relay" => RelayInv

\* How a peer is reached: RealmInv of what a server publishes, PunchInv of the race to reach
\* it, HopInv of the ports one dial is given, HopSocketInv of the sockets it leaves behind,
\* GeckoInv of the packets cut for the way.
HopsInv ==
  /\ side = "realm" => RealmInv
  /\ side = "punch" => PunchInv
  /\ side = "hop" => HopInv
  /\ side = "socket" => HopSocketInv
  /\ side = "gecko" => GeckoInv

\* Coded datagrams: CodedInv of the sender, FecInv of the decoder's window, AssemblerInv of
\* the frames put together again.
CodingInv ==
  /\ side = "coded" => CodedInv
  /\ side = "fec" => FecInv
  /\ side = "assembler" => AssemblerInv

\* What may be sent over a path: PathInv and GroupsInv of the shared model of the path,
\* BBRInv, CubicInv and ErasureInv of the controllers, QueueInv of BBR's packet ring.
CongestionInv ==
  /\ side = "path" => PathInv
  /\ side = "groups" => GroupsInv
  /\ side = "bbr" => BBRInv
  /\ side = "cubic" => CubicInv
  /\ side = "erasure" => ErasureInv
  /\ side = "queue" => QueueInv
=============================================================================
