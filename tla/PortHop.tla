------------------------------- MODULE PortHop -------------------------------
(***************************************************************************)
(* The client's port hopping (queqiao/internal/portmux/hop.go and          *)
(* ClientPortMux): the walk all dials share, the samples of a dial's       *)
(* controller, and when it hops.  A port is its index in the pool; time is *)
(* counted in polls.                                                       *)
(***************************************************************************)
EXTENDS Naturals, FiniteSets, Sequences, SequencesExt

CONSTANTS Dials, PoolPorts,
          DetectSamples,  \* samplesPerWindow
          MinSent,
          Cooldown        \* in polls

(* A controller's pool has a port at least, and its window a sample.         *)
ASSUME HopConstants ==
  /\ PoolPorts \in Nat \ {0} /\ DetectSamples \in Nat \ {0} /\ MinSent \in Nat /\ Cooldown \in Nat

VARIABLES left,     \* the ports the walk has not yet given in this round
          age,      \* draws since a port was last drawn
          dialed    \* dial -> [port, window, hopped, moved], port 0: not dialed

hopVars == <<left, age, dialed>>

Pool == 1..PoolPorts
LongAgo == Cooldown + DetectSamples
NoDial == [port |-> 0, window |-> <<>>, hopped |-> LongAgo, moved |-> "no"]

HopInit ==
  /\ left = Pool /\ age = [p \in Pool |-> 0] /\ dialed = [d \in Dials |-> NoDial]

\* Faulty, unused: the next round begins one port early, leaving the last one out.
MutRound == IF Cardinality(left) <= 1 THEN Pool ELSE left

(* HopWalk.Next: when the round is over, another permutation.              *)
Round == IF left = {} THEN Pool ELSE left
DrawAges(p, ages) == [q \in Pool |-> IF q = p THEN 0 ELSE ages[q] + 1]
Draws(p) == p \in Round /\ left' = Round \ {p} /\ age' = DrawAges(p, age)

(* dialQUICConnection: a dial begins at the next port of the walk.         *)
Dialed(d) ==
  /\ dialed[d].port = 0
  /\ \E p \in Pool : Draws(p) /\ dialed' = [dialed EXCEPT ![d].port = p]

DialCloses(d) ==
  /\ dialed[d].port # 0 /\ dialed' = [dialed EXCEPT ![d] = NoDial] /\ UNCHANGED <<left, age>>

(* A poll takes what was sent since the last one, and whether anything     *)
(* came, from whomever; the oldest sample gives way.  A full window in     *)
(* which enough was sent and nothing came is a hop, unless the last one is *)
(* too recent.                                                             *)
Samples == [sent : 0..MinSent, recv : BOOLEAN]
Sampled(d, s) == Append(IF Len(dialed[d].window) < DetectSamples THEN dialed[d].window
                        ELSE Tail(dialed[d].window), s)
WindowSent(w) == FoldLeft(LAMBDA n, s : n + s.sent, 0, w)
HopSilent(w) ==
  /\ Len(w) = DetectSamples /\ WindowSent(w) >= MinSent
  /\ \A i \in DOMAIN w : ~w[i].recv
Longer(n) == IF n < LongAgo THEN n + 1 ELSE n
Detects(d, s) == PoolPorts > 1 /\ HopSilent(Sampled(d, s)) /\ Longer(dialed[d].hopped) >= Cooldown

Polls(d, s) ==
  /\ dialed[d].port # 0 /\ dialed[d].moved = "no"
  /\ dialed' = [dialed EXCEPT ![d].hopped = Longer(@), ![d].window = Sampled(d, s),
                             ![d].moved = IF Detects(d, s) THEN "draws" ELSE "no"]
  /\ UNCHANGED <<left, age>>

\* Faulty, unused: the window is not begun anew after a hop.
MutHopped(d, p) == [dialed[d] EXCEPT !.port = p, !.hopped = 0, !.moved = "no"]

(* The controller draws until it has another port than its own; other      *)
(* dials draw from the same walk meanwhile.                                *)
Hopped(d, p) == [dialed[d] EXCEPT !.port = p, !.window = <<>>, !.hopped = 0, !.moved = "no"]
HopDraws(d) ==
  /\ dialed[d].moved = "draws"
  /\ \E p \in Pool :
       /\ Draws(p)
       /\ dialed' = IF p = dialed[d].port THEN dialed ELSE [dialed EXCEPT ![d] = Hopped(d, p)]

HopNext ==
  \E d \in Dials : Dialed(d) \/ DialCloses(d) \/ HopDraws(d) \/ \E s \in Samples : Polls(d, s)

HopSpec == HopInit /\ [][HopNext]_hopVars

(***************************************************************************)
(* Whatever the dials draw in between, every port of the pool comes within *)
(* two rounds; a dial that hears anything keeps its port, and gives each   *)
(* port a whole window and the cooldown before it leaves it.               *)
(***************************************************************************)
HopInv ==
  /\ \A p \in Pool : age[p] <= 2 * PoolPorts - 2
  /\ \A d \in Dials :
       dialed[d].moved = "draws" =>
         HopSilent(dialed[d].window) /\ dialed[d].hopped >= Cooldown /\ dialed[d].hopped >= DetectSamples

-----------------------------------------------------------------------------
(***************************************************************************)
(* A hopping client socket of Hysteria and Hysteria2 (hysteria/hop.go,     *)
(* HopConn): the current and the previous socket, a receive loop each, the *)
(* hop loop, read deadlines and Close.  Sockets are numbered as they are   *)
(* dialed.                                                                 *)
(***************************************************************************)

CONSTANTS HopSockets,  \* bound: sockets dialed
          HopPackets   \* the capacity of packetChan

(* The connection begins with a socket.                                    *)
ASSUME HopSocketConstants == HopSockets \in Nat \ {0} /\ HopPackets \in Nat

VARIABLES dials,     \* sockets dialed so far
          open,      \* the sockets that are open
          due,       \* those whose read deadline has passed
          currentConn, previousConn,
          recv,      \* socket -> its loop: none, reads, reports (to errChan), ended
          hopper,    \* hopLoop: [at, new, old], at is waits, dials, swaps, starts or ended
          packets, errs,
          hopClose,  \* Close: [at, rest], at is no, closes or done
          felt       \* the sockets a deadline was felt on

hopSocketVars == <<dials, open, due, currentConn, previousConn, recv, hopper, packets, errs, hopClose, felt>>

HopIdle == [at |-> "waits", new |-> 0, old |-> 0]
HopDone == hopClose.at # "no"

HopSocketInit ==
  /\ dials = 1 /\ open = {1} /\ due = {} /\ currentConn = 1 /\ previousConn = 0
  /\ recv = [s \in 1..HopSockets |-> IF s = 1 THEN "reads" ELSE "none"]
  /\ hopper = HopIdle /\ packets = 0 /\ errs = 0
  /\ hopClose = [at |-> "no", rest |-> {}] /\ felt = {}

(* hop: done is looked at, the lock released, and the next port dialed.    *)
HopBegins ==
  /\ hopper.at = "waits"
  /\ hopper' = [HopIdle EXCEPT !.at = IF HopDone THEN "ended" ELSE "dials"]
  /\ UNCHANGED <<dials, open, due, currentConn, previousConn, recv, packets, errs, hopClose, felt>>

HopDials ==
  /\ hopper.at = "dials" /\ dials < HopSockets
  /\ dials' = dials + 1 /\ open' = open \cup {dials + 1}
  /\ hopper' = [hopper EXCEPT !.at = "swaps", !.new = dials + 1]
  /\ UNCHANGED <<due, currentConn, previousConn, recv, packets, errs, hopClose, felt>>

HopFails ==
  /\ hopper.at = "dials" /\ hopper' = HopIdle
  /\ UNCHANGED <<dials, open, due, currentConn, previousConn, recv, packets, errs, hopClose, felt>>

\* Faulty, unused: the second look at done is left out.
MutLapsed == FALSE

(* Done is looked at again; the old previous socket is to be closed.       *)
Lapsed == HopDone
HopSwaps ==
  /\ hopper.at = "swaps"
  /\ IF Lapsed
       THEN hopper' = HopIdle /\ open' = open \ {hopper.new} /\ UNCHANGED <<currentConn, previousConn>>
       ELSE /\ previousConn' = currentConn /\ currentConn' = hopper.new /\ UNCHANGED open
            /\ hopper' = [hopper EXCEPT !.at = "starts", !.old = previousConn]
  /\ UNCHANGED <<dials, due, recv, packets, errs, hopClose, felt>>

HopStarts ==
  /\ hopper.at = "starts" /\ hopper' = HopIdle
  /\ open' = open \ {hopper.old} /\ recv' = [recv EXCEPT ![hopper.new] = "reads"]
  /\ UNCHANGED <<dials, due, currentConn, previousConn, packets, errs, hopClose, felt>>

(* SetReadDeadline: of both sockets, the one being dialed not among them.  *)
SetsDeadline(past) ==
  /\ due' = IF past THEN due \cup ({currentConn, previousConn} \ {0}) ELSE due \ {currentConn, previousConn}
  /\ UNCHANGED <<dials, open, currentConn, previousConn, recv, hopper, packets, errs, hopClose, felt>>

(* recvLoop: a packet, dropped when the queue is full; a deadline, which   *)
(* ends the loop once it is reported; another error, which ends it.        *)
RecvPacket(s) ==
  /\ recv[s] = "reads" /\ s \in open /\ packets < HopPackets /\ packets' = packets + 1
  /\ UNCHANGED <<dials, open, due, currentConn, previousConn, recv, hopper, errs, hopClose, felt>>

RecvTimesOut(s) ==
  /\ recv[s] = "reads" /\ s \in open \cap due
  /\ recv' = [recv EXCEPT ![s] = "reports"] /\ felt' = felt \cup {s}
  /\ UNCHANGED <<dials, open, due, currentConn, previousConn, hopper, packets, errs, hopClose>>

RecvReports(s) ==
  /\ recv[s] = "reports" /\ recv' = [recv EXCEPT ![s] = "ended"]
  /\ (errs = 0 /\ errs' = 1) \/ (HopDone /\ UNCHANGED errs)
  /\ UNCHANGED <<dials, open, due, currentConn, previousConn, hopper, packets, hopClose, felt>>

RecvEnds(s) ==
  /\ recv[s] = "reads" /\ s \notin open /\ recv' = [recv EXCEPT ![s] = "ended"]
  /\ UNCHANGED <<dials, open, due, currentConn, previousConn, hopper, packets, errs, hopClose, felt>>

HopReads ==
  /\ (packets > 0 /\ packets' = packets - 1 /\ UNCHANGED errs) \/ (errs = 1 /\ errs' = 0 /\ UNCHANGED packets)
  /\ UNCHANGED <<dials, open, due, currentConn, previousConn, recv, hopper, hopClose, felt>>

(* Close: done, then the sockets it found.                                 *)
HopCloses ==
  /\ ~HopDone /\ hopClose' = [at |-> "closes", rest |-> {currentConn, previousConn} \ {0}]
  /\ UNCHANGED <<dials, open, due, currentConn, previousConn, recv, hopper, packets, errs, felt>>

HopClosed ==
  /\ hopClose.at = "closes" /\ open' = open \ hopClose.rest
  /\ hopClose' = [at |-> "done", rest |-> {}]
  /\ UNCHANGED <<dials, due, currentConn, previousConn, recv, hopper, packets, errs, felt>>

HopSocketNext ==
  \/ HopBegins \/ HopDials \/ HopFails \/ HopSwaps \/ HopStarts \/ HopReads \/ HopCloses \/ HopClosed
  \/ \E past \in BOOLEAN : SetsDeadline(past)
  \/ \E s \in 1..HopSockets : RecvPacket(s) \/ RecvTimesOut(s) \/ RecvReports(s) \/ RecvEnds(s)

HopSocketSpec == HopSocketInit /\ [][HopSocketNext]_hopSocketVars

(***************************************************************************)
(* A socket is open while it is the current or the previous one, is being  *)
(* installed or replaced, or is being closed, and no longer: a hop that is *)
(* dialing while the connection closes leaves none behind.  The sockets    *)
(* still used are read, so packets to the port before the last hop arrive, *)
(* unless a deadline was felt on them: its loop has ended, and nothing     *)
(* reads that socket again, not even after the deadline is lifted.  No     *)
(* loop waits to report on a closed connection with no way out.            *)
(***************************************************************************)
HopSocketInv ==
  /\ open \subseteq {currentConn, previousConn, hopper.new, hopper.old} \cup hopClose.rest
  /\ hopClose.at = "no" => {currentConn, previousConn} \ {0} \subseteq open
  /\ hopClose.at = "done" => open \subseteq (CASE hopper.at = "swaps" -> {hopper.new}
                                             [] hopper.at = "starts" -> {hopper.old} [] OTHER -> {})
  /\ \A s \in {currentConn, previousConn} \ {0, hopper.new} :
       s \in open => recv[s] = "reads" \/ s \in felt
  /\ \A s \in open \ {hopper.new} : recv[s] # "none"
=============================================================================
