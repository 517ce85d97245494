----------------------------- MODULE PathProbe -----------------------------
(***************************************************************************)
(* What the client does when the machine changes how it reaches the        *)
(* gateway (queqiao/internal/pep/uplink.go): the watcher polls the local   *)
(* address, a change resets the pool of connections and starts a prewarm,  *)
(* the prewarm dials (transport.go), sends a numbered probe over a stream  *)
(* of the pooled connection and reads its echo, and a gateway that does    *)
(* not echo what it was sent is rejected.  Several prewarms may be under   *)
(* way.  The gateway's side is the echo loop of server.go.  The pool's own *)
(* rules are those of ControlPool; here it is one generation and one dial. *)
(***************************************************************************)
EXTENDS Naturals, Sequences, SequencesExt, FiniteSets

CONSTANTS Addresses,    \* local addresses the uplink may have
          ProbeFrames,  \* pathProbePackets: frames a probe sends
          EchoMax,      \* maxPathProbeFrames: frames the gateway echoes
          Prewarms,     \* prewarms, numbered; also the connections dialed
          UplinkMoves   \* how often the uplink may change

\* A probe sends something, and no more than a gateway echoes (uplink.go:202,
\* protocol/frame.go:56).
ASSUME ProbeConstants ==
  /\ {ProbeFrames, EchoMax, Prewarms, UplinkMoves} \subseteq Nat \ {0}
  /\ ProbeFrames <= EchoMax

VARIABLES uplink,    \* [addr, dynamic]: what ResolveWithInterface would say
          moves, watch,             \* uplinkWatchState
          poolConn, poolDial,       \* quicGeneration and quicDial, 0 if none
          conns,     \* connection -> [life, holds, cause]
          warm,      \* prewarm -> [at, conn, sent, got]
          gate,      \* prewarm -> the gateway's side of its stream
          accused    \* prewarms whose peer was rejected, with the fate of the
                     \* connection at that moment

probeVars == <<uplink, moves, watch, poolConn, poolDial, conns, warm, gate, accused>>

NoAddress == "none"
ProbeConns == 1..(2 * Prewarms)
FreshConn == {c \in ProbeConns : conns[c].life = "unused"}
Uplinks == [addr : Addresses, dynamic : {FALSE}] \cup [addr : {NoAddress}, dynamic : BOOLEAN]

(* A wrong echo is any frame that is not the one due. *)
WrongEcho == ProbeFrames + 1

ProbeInit ==
  \E u \in Uplinks :
    /\ uplink = u /\ moves = 0 /\ watch = [known |-> u.addr, interrupted |-> FALSE]
    /\ poolConn = 0 /\ poolDial = 0
    /\ conns = [c \in ProbeConns |-> [life |-> "unused", holds |-> {}, cause |-> "none"]]
    /\ warm = [p \in 1..Prewarms |-> [at |-> IF p = 1 THEN "acquires" ELSE "idle", conn |-> 0, sent |-> 0, got |-> 0]]
    /\ gate = [p \in 1..Prewarms |->
                 [at |-> "none", up |-> <<>>, down |-> <<>>, half |-> FALSE, frames |-> 0, honest |-> TRUE]]
    /\ accused = {}

(* The environment: the address changes, disappears or comes back. *)
UplinkChanges ==
  /\ moves < UplinkMoves /\ moves' = moves + 1
  /\ uplink' \in Uplinks \ {uplink}
  /\ UNCHANGED <<watch, poolConn, poolDial, conns, warm, gate, accused>>

(* Closing a connection gives back all that it holds. *)
ConnClosed(c, cause) == [conns EXCEPT ![c] = [life |-> "closed", holds |-> {}, cause |-> cause]]

(* closeQUICPool: the generation is closed, the dial under way abandoned. *)
PoolReset(cs) ==
  /\ poolConn' = 0 /\ poolDial' = 0
  /\ conns' = IF poolConn = 0 THEN cs
              ELSE [cs EXCEPT ![poolConn] = [life |-> "closed", holds |-> {},
                                             cause |-> IF @.life = "open" THEN "local" ELSE @.cause]]

(* uplinkWatchState.observe: an outage makes the next address a change.    *)
UplinkObserved ==
  IF uplink.addr = NoAddress
  THEN [known |-> watch.known, interrupted |-> watch.interrupted \/ uplink.dynamic]
  ELSE [known |-> uplink.addr, interrupted |-> FALSE]

UplinkDiffers == uplink.addr # NoAddress /\ (watch.interrupted \/ uplink.addr # watch.known)

(* A tick of watchUplink; a change resets the pool and starts a prewarm.   *)
WatchTick ==
  /\ watch' = UplinkObserved
  /\ IF UplinkDiffers
     THEN /\ PoolReset(conns)
          /\ \E p \in 1..Prewarms :
               /\ warm[p].at = "idle" /\ \A q \in 1..(p - 1) : warm[q].at # "idle"
               /\ warm' = [warm EXCEPT ![p].at = "acquires"]
     ELSE watch' # watch /\ UNCHANGED <<poolConn, poolDial, conns, warm>>
  /\ UNCHANGED <<uplink, moves, gate, accused>>

(* acquireControlQUICGeneration: the live generation, or the dial under    *)
(* way, or a new dial; a dead generation is closed.                        *)
PoolLive == poolConn # 0 /\ conns[poolConn].life = "open"

WarmAcquires(p) ==
  /\ warm[p].at = "acquires"
  /\ \/ /\ PoolLive
        /\ warm' = [warm EXCEPT ![p].at = "sends", ![p].conn = poolConn]
        /\ UNCHANGED <<poolConn, poolDial, conns>>
     \/ /\ ~PoolLive
        /\ \E c \in IF poolDial # 0 THEN {poolDial} ELSE FreshConn :
             /\ \A d \in FreshConn : c # poolDial => c <= d
             /\ poolDial' = c
             /\ warm' = [warm EXCEPT ![p].at = "waits", ![p].conn = c]
             /\ conns' = [d \in ProbeConns |->
                            CASE d = c -> [conns[c] EXCEPT !.life = "dialing"]
                              [] d = poolConn -> [conns[d] EXCEPT !.holds = {}]
                              [] OTHER -> conns[d]]
        /\ poolConn' = 0
  /\ UNCHANGED <<uplink, moves, watch, gate, accused>>

(* dialQUICConnection: a socket, then the handshake, then the password.    *)
DialGains(c) ==
  /\ conns[c].life = "dialing"
  /\ conns' = [conns EXCEPT ![c].holds =
                 IF @ = {} THEN {"socket"} ELSE IF "conn" \notin @ THEN @ \cup {"conn"} ELSE @ \cup {"auth"}]
  /\ conns[c].holds # {"socket", "conn", "auth"}
  /\ UNCHANGED <<uplink, moves, watch, poolConn, poolDial, warm, gate, accused>>

\* Faulty, unused: a refused password leaves the socket open.
MutDialErrorHolds(holds) == holds \cap {"socket"}

(* Each step that fails closes what the steps before it opened: the route  *)
(* cannot be bound, the handshake fails or the password is refused.        *)
DialErrorHolds(holds) == {}

(* runControlQUICDial: the result is the pool's unless the pool moved on.  *)
(* Waiters of a superseded dial acquire again; of a failed one give up.    *)
DialEnds(c) ==
  /\ conns[c].life = "dialing"
  /\ \E ok \in BOOLEAN :
       LET current == poolDial = c
           next == [p \in 1..Prewarms |->
                      IF warm[p].at = "waits" /\ warm[p].conn = c
                      THEN [warm[p] EXCEPT !.at = IF ~current THEN "acquires"
                                                  ELSE IF ok THEN "sends" ELSE "done"]
                      ELSE warm[p]]
       IN  /\ ok => conns[c].holds = {"socket", "conn", "auth"}
           /\ conns' = IF ok /\ current THEN [conns EXCEPT ![c].life = "open"]
                       ELSE IF ok THEN ConnClosed(c, "local")
                       ELSE [conns EXCEPT ![c] = [life |-> "closed", holds |-> DialErrorHolds(@.holds),
                                                  cause |-> IF current THEN "path" ELSE "local"]]
           /\ poolConn' = IF ok /\ current THEN c ELSE poolConn
           /\ poolDial' = IF current THEN 0 ELSE poolDial
           /\ warm' = next
  /\ UNCHANGED <<uplink, moves, watch, gate, accused>>

(* prewarmTimeout ends the wait for a dial, never the dial.                *)
WarmGivesUp(p) ==
  /\ warm[p].at \in {"acquires", "waits"}
  /\ warm' = [warm EXCEPT ![p].at = "done"]
  /\ UNCHANGED <<uplink, moves, watch, poolConn, poolDial, conns, gate, accused>>

WarmLive(p) == warm[p].conn # 0 /\ conns[warm[p].conn].life = "open"

(* probePath: the frames, then the half-close that delimits them.          *)
ProbeSends(p) ==
  /\ warm[p].at = "sends" /\ WarmLive(p)
  /\ IF warm[p].sent < ProbeFrames
     THEN /\ warm' = [warm EXCEPT ![p].sent = @ + 1]
          /\ gate' = [gate EXCEPT ![p].up = Append(@, warm[p].sent)]
     ELSE /\ warm' = [warm EXCEPT ![p].at = "reads"]
          /\ gate' = [gate EXCEPT ![p].half = TRUE]
  /\ UNCHANGED <<uplink, moves, watch, poolConn, poolDial, conns, accused>>

(* A write that fails, or the budget running out before the echo, ends the *)
(* probe without a verdict.                                                *)
ProbeEnds(p) ==
  /\ \/ warm[p].at = "sends"
     \/ warm[p].at = "reads" /\ (WarmLive(p) \/ conns[warm[p].conn].cause = "path")
     \/ warm[p].at = "measures"
  /\ warm' = [warm EXCEPT ![p].at = "done"]
  /\ UNCHANGED <<uplink, moves, watch, poolConn, poolDial, conns, gate, accused>>

(* What readPathProbeEchoes sees next: a frame, the end of the stream, an  *)
(* error of the connection, or nothing yet.                                *)
EchoRead(p) ==
  IF ~WarmLive(p) THEN IF conns[warm[p].conn].cause = "path" THEN "timeout" ELSE "ended"
  ELSE IF gate[p].down # <<>> THEN IF Head(gate[p].down) = warm[p].got THEN "due" ELSE "wrong"
  ELSE IF gate[p].at = "closed" THEN "ended" ELSE "nothing"

ProbeReads(p) ==
  /\ warm[p].at = "reads" /\ EchoRead(p) = "due"
  /\ warm' = [warm EXCEPT ![p].got = @ + 1,
                          ![p].at = IF warm[p].got + 1 = warm[p].sent THEN "measures" ELSE @]
  /\ gate' = [gate EXCEPT ![p].down = Tail(@)]
  /\ UNCHANGED <<uplink, moves, watch, poolConn, poolDial, conns, accused>>

(* rejectProbePeer: any other answer is the peer's fault; the pool goes.   *)
ProbeRejects(p) ==
  /\ warm[p].at = "reads" /\ EchoRead(p) \in {"wrong", "ended"}
  /\ warm' = [warm EXCEPT ![p].at = "done"]
  /\ accused' = accused \cup {<<p, conns[warm[p].conn].cause>>}
  /\ PoolReset(conns)
  /\ UNCHANGED <<uplink, moves, watch, gate>>

(* handleQUIC's dispatch: a slot of the session semaphore, or the stream   *)
(* is closed at once.                                                      *)
GateAccepts(p) ==
  /\ WarmLive(p) /\ gate[p].at = "none" /\ gate[p].up # <<>>
  /\ \E at \in {"reads", "closed"} : gate' = [gate EXCEPT ![p].at = at, ![p].honest = at = "reads"]
  /\ UNCHANGED <<uplink, moves, watch, poolConn, poolDial, conns, warm, accused>>

\* Faulty, unused: an echo limit one below the client's count.
MutEchoFull(frames) == frames + 1 >= EchoMax

(* handlePathProbe: a frame in order is written back; at the limit, or at  *)
(* the end of the probe, the stream is closed.                             *)
EchoFull(frames) == frames >= EchoMax
GateEchoes(p) ==
  /\ WarmLive(p) /\ gate[p].at = "reads"
  /\ \/ /\ gate[p].up # <<>>
        /\ gate' = [gate EXCEPT ![p].up = Tail(@), ![p].down = Append(@, Head(gate[p].up)),
                                ![p].frames = @ + 1,
                                ![p].at = IF EchoFull(gate[p].frames + 1) THEN "closed" ELSE @]
     \/ /\ gate[p].up = <<>> /\ gate[p].half
        /\ gate' = [gate EXCEPT ![p].at = "closed"]
  /\ UNCHANGED <<uplink, moves, watch, poolConn, poolDial, conns, warm, accused>>

(* The environment: a gateway that is not this program answers otherwise.  *)
GateMisbehaves(p) ==
  /\ WarmLive(p) /\ gate[p].at = "reads" /\ gate[p].honest
  /\ gate' = [gate EXCEPT ![p].honest = FALSE, ![p].down = Append(@, WrongEcho)]
  /\ UNCHANGED <<uplink, moves, watch, poolConn, poolDial, conns, warm, accused>>

(* The environment: the peer or the path ends a connection.                *)
ConnLost(c) ==
  /\ conns[c].life = "open"
  /\ \E cause \in {"peer", "path"} : conns' = [conns EXCEPT ![c].life = "closed", ![c].cause = cause]
  /\ UNCHANGED <<uplink, moves, watch, poolConn, poolDial, warm, gate, accused>>

ProbeNext ==
  \/ UplinkChanges \/ WatchTick
  \/ \E c \in ProbeConns : DialGains(c) \/ DialEnds(c) \/ ConnLost(c)
  \/ \E p \in 1..Prewarms :
       \/ WarmAcquires(p) \/ WarmGivesUp(p) \/ ProbeSends(p) \/ ProbeEnds(p) \/ ProbeReads(p)
       \/ ProbeRejects(p) \/ GateAccepts(p) \/ GateEchoes(p) \/ GateMisbehaves(p)

ProbeSpec == ProbeInit /\ [][ProbeNext]_probeVars

(***************************************************************************)
(* A connection that holds a socket is the pool's, or a dial's that will   *)
(* hand it over or close it; a gateway that echoes is accused only when    *)
(* its connection ended under the probe, for the limits of the two sides   *)
(* agree; what the probe reads is what it sent, in order.                  *)
(***************************************************************************)
ProbeInv ==
  /\ \A c \in ProbeConns : conns[c].holds # {} => c = poolConn \/ conns[c].life = "dialing"
  /\ \A c \in ProbeConns : conns[c].life = "open" => c = poolConn
  /\ poolDial # 0 => conns[poolDial].life = "dialing" /\ poolConn = 0
  /\ \A v \in accused : gate[v[1]].honest => v[2] \in {"peer", "local"}
  /\ \A p \in 1..Prewarms : gate[p].honest => warm[p].got <= gate[p].frames /\ gate[p].frames <= warm[p].sent

(***************************************************************************)
(* "either the budget expired, ..., or the peer disagrees about the        *)
(* protocol" (uplink.go:262-266): a peer that echoed all it read is never  *)
(* accused.  It is, when another change of uplink or another prewarm's     *)
(* verdict closes the pool under the probe.                                *)
(***************************************************************************)
OnlyViolatorsAreAccused == \A v \in accused : v[2] = "local" => ~gate[v[1]].honest
=============================================================================
