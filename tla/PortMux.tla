------------------------------- MODULE PortMux -------------------------------
(***************************************************************************)
(* The gateway's merged hop ports (queqiao/internal/portmux/portmux.go,    *)
(* ServerPortMux): one reader per socket, the merged queue, the            *)
(* two-generation table of return sockets, and Close.  Port 1 is the       *)
(* primary; a peer is a source address.                                    *)
(***************************************************************************)
EXTENDS Naturals, FiniteSets, Sequences

CONSTANTS Peers, HopPorts,
          MaxRoutes,   \* maxServerRoutes
          MuxQueue     \* the capacity of incoming

ASSUME MuxAssumption == /\ IsFiniteSet(Peers) /\ Peers \cap {"reads", "ended"} = {}
                        /\ {HopPorts, MaxRoutes, MuxQueue} \subseteq Nat \ {0}

VARIABLES bound,       \* the ports that could be bound
          sockets,     \* reader of a port: "reads", a peer: has its datagram, "ended"
          incoming, current, previous,
          muxClose,    \* "no", "waits" for the readers, "done"
          heard,       \* the port a peer was last read from, 0 for never
          newer        \* the peers read since a peer was last read

muxVars == <<bound, sockets, incoming, current, previous, muxClose, heard, newer>>

Ports == 1..HopPorts
NoRoutes == [p \in Peers |-> 0]

(* NewServerPortMux: ports the host refuses are skipped, not all of them.  *)
MuxInit ==
  /\ bound \in {b \in SUBSET Ports : 1 \in b /\ (HopPorts > 1 => b # {1})}
  /\ sockets = [p \in Ports |-> IF p \in bound THEN "reads" ELSE "ended"]
  /\ incoming = <<>> /\ current = NoRoutes /\ previous = NoRoutes /\ muxClose = "no"
  /\ heard = NoRoutes /\ newer = [p \in Peers |-> {}]

(* readSocket: a datagram is read, and waits for room in the queue.        *)
SocketReads(port, peer) ==
  /\ sockets[port] = "reads" /\ muxClose = "no"
  /\ sockets' = [sockets EXCEPT ![port] = peer]
  /\ UNCHANGED <<bound, incoming, current, previous, muxClose, heard, newer>>

SocketQueues(port) ==
  /\ sockets[port] \in Peers /\ Len(incoming) < MuxQueue
  /\ incoming' = Append(incoming, [port |-> port, peer |-> sockets[port]])
  /\ sockets' = [sockets EXCEPT ![port] = "reads"]
  /\ UNCHANGED <<bound, current, previous, muxClose, heard, newer>>

ReaderEnds(port) ==
  /\ muxClose # "no" /\ sockets[port] # "ended" /\ sockets' = [sockets EXCEPT ![port] = "ended"]
  /\ UNCHANGED <<bound, incoming, current, previous, muxClose, heard, newer>>

(* rememberRoute: what is heard on the primary takes no entry; a full      *)
(* generation becomes the previous one.                                    *)
Routed(table) == {p \in Peers : table[p] # 0}
Turns(d) == current[d.peer] = 0 /\ Cardinality(Routed(current)) >= MaxRoutes
Generation(d) == IF Turns(d) THEN NoRoutes ELSE current
\* Faulty, unused: the primary clears the current generation only.
MutOlder(d) == IF d.port # 1 /\ Turns(d) THEN current ELSE previous

Older(d) == IF d.port = 1 THEN [previous EXCEPT ![d.peer] = 0]
            ELSE IF Turns(d) THEN current ELSE previous
Newest(d) == IF d.port = 1 THEN [current EXCEPT ![d.peer] = 0]
             ELSE [Generation(d) EXCEPT ![d.peer] = d.port]

ReadFrom ==
  /\ incoming # <<>> /\ incoming' = Tail(incoming)
  /\ LET d == Head(incoming) IN
       /\ current' = Newest(d) /\ previous' = Older(d)
       /\ heard' = [heard EXCEPT ![d.peer] = d.port]
       /\ newer' = [p \in Peers |-> IF p = d.peer THEN {} ELSE newer[p] \cup {d.peer}]
  /\ UNCHANGED <<bound, sockets, muxClose>>

CloseMux ==
  /\ muxClose = "no" /\ muxClose' = "waits"
  /\ UNCHANGED <<bound, sockets, incoming, current, previous, heard, newer>>

ReadersGone ==
  /\ muxClose = "waits" /\ \A p \in Ports : sockets[p] = "ended"
  /\ muxClose' = "done"
  /\ UNCHANGED <<bound, sockets, incoming, current, previous, heard, newer>>

MuxNext ==
  \/ ReadFrom \/ CloseMux \/ ReadersGone
  \/ \E port \in Ports :
       SocketQueues(port) \/ ReaderEnds(port) \/ \E p \in Peers : SocketReads(port, p)

MuxSpec == MuxInit /\ [][MuxNext]_muxVars

(* pickConn: the socket a reply to a peer leaves by.                       *)
PickConn(p) == IF current[p] # 0 THEN current[p] ELSE IF previous[p] # 0 THEN previous[p] ELSE 1

(***************************************************************************)
(* A reply leaves by the port the peer was last read from, unless so many  *)
(* other peers were read since that a whole generation is between them:    *)
(* then by the primary, never by an older port.  A peer of the primary     *)
(* holds no entry, and neither generation outgrows its bound.              *)
(***************************************************************************)
MuxInv ==
  /\ \A p \in Peers :
       /\ heard[p] \in {0, 1} => current[p] = 0 /\ previous[p] = 0
       /\ heard[p] > 1 => \/ PickConn(p) = heard[p]
                          \/ PickConn(p) = 1 /\ Cardinality(newer[p]) >= MaxRoutes
  /\ Cardinality(Routed(current)) <= MaxRoutes /\ Cardinality(Routed(previous)) <= MaxRoutes
  /\ muxClose = "done" => \A p \in Ports : sockets[p] = "ended"
=============================================================================
