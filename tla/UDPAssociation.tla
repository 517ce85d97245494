--------------------------- MODULE UDPAssociation ---------------------------
(***************************************************************************)
(* One UDP association from end to end (queqiao/internal/pep/udp.go): the     *)
(* client's packet connection, its reader and its read loop, the server's          *)
(* relay loop with its readers and its replay window, and between them the          *)
(* stream of the lane and the datagrams of its connection.                    *)
(*                                                                         *)
(* The association is open.  A packet from the client is its sequence number,  *)
(* a reply its number.  The stream is reliable and in order until it breaks;   *)
(* a datagram may be lost, overtake another, or arrive again.  Frames this client   *)
(* never sends (invalid ones) and a RESET, which this server sends only        *)
(* instead of opening, are left out; so are contents and addresses.           *)
(***************************************************************************)
EXTENDS Integers, FiniteSets, Sequences

CONSTANTS
  Width,       \* packetWindowWidth
  Packets,     \* bound: calls of WriteTo
  Replies,     \* bound: datagrams the relay socket receives
  Datagrams,   \* bound: the two together
  Repeats,     \* bound: packets that arrive again
  FrameSlots,  \* capacity of the channels frames and packets
  ReadSlots    \* readWaitQueue

ASSUME UDPConstants ==
  /\ {Width, FrameSlots, ReadSlots} \subseteq Nat \ {0}
  /\ {Packets, Replies, Datagrams, Repeats} \subseteq Nat

Seqs == 0 .. Packets - 1

\* The one control frame of each direction: CLOSE up, the final acknowledgement down.
Farewell == -1

UpFrames   == Seqs \cup {Farewell}
DownFrames == Nat \cup {Farewell}

VARIABLES
  \* the stream and the datagrams between the two ends
  line,        \* "up" or "broken"
  up, down,    \* frames on the stream
  clientShut,  \* the client closed its end: frameConn.Close
  serverShut,  \* the server closed its end
  air, airDown, repeats,
  \* the client
  seq,                    \* of the next WriteTo
  frames, frameErr,       \* what udpFrames returned
  clientReader,           \* its stream reader: "reading" or "ended"
  readLoop,               \* readLoop: waiting, parked, about to tell, ended
  unread,                 \* packets in readChan
  cancelled, stopped,     \* the association's context, and the client's
  closing,                \* how far the application's Close came
  told,                   \* what onClose was called with
  \* the server
  relayFrames, relayErr,  \* frames and frameErr
  relayReader,            \* "reading", "closed" after CLOSE, "failed"
  packets, replySeq,
  highest, seen,          \* packetWindow, seen as the set of its offsets
  relayed,                \* how often each packet was handed to the socket
  relay                   \* "running", or why the loop ended

wire   == <<line, up, down, clientShut, serverShut, air, airDown, repeats>>
client == <<seq, frames, frameErr, clientReader, readLoop, unread,
            cancelled, stopped, closing, told>>
window == <<highest, seen, relayed>>
server == <<relayFrames, relayErr, relayReader, packets, replySeq, window, relay>>
udpVars == <<wire, client, server>>

UDPInit ==
  /\ line = "up" /\ up = <<>> /\ down = <<>> /\ clientShut = FALSE /\ serverShut = FALSE
  /\ air = {} /\ airDown = {} /\ repeats = 0
  /\ seq = 0 /\ frames = <<>> /\ frameErr = FALSE /\ clientReader = "reading"
  /\ readLoop = "waiting" /\ unread = 0 /\ cancelled = FALSE /\ stopped = FALSE
  /\ closing = "no" /\ told = "nobody"
  /\ relayFrames = <<>> /\ relayErr = FALSE /\ relayReader = "reading"
  /\ packets = <<>> /\ replySeq = 0
  /\ highest = 0 /\ seen = {} /\ relayed = [s \in Seqs |-> 0] /\ relay = "running"

\* The association's context: its own cancel, or the client's.
ContextDone == cancelled \/ stopped

\* Either end closed cancels the reading of the other's stream, so writes fail.
Writable == line = "up" /\ ~clientShut /\ ~serverShut

\* The client closes its framing: what was still to arrive is dropped.
ClientShuts == clientShut' = TRUE /\ down' = <<>> /\ airDown' = {}

-----------------------------------------------------------------------------
(* The client's packet connection *)

\* Room for one more within the bound of packets and replies together.
More == seq + replySeq + Len(packets) < Datagrams

\* WriteTo numbers the packet, and WriteContext sends it while the context lives: a
\* datagram, or the stream where there is none.  A packet whose write fails is like
\* a lost datagram; one for a relay that ended need not fly.
WriteTo ==
  /\ seq < Packets /\ More /\ seq' = seq + 1
  /\ \/ ~ContextDone /\ relay = "running" /\ air' = air \cup {seq} /\ UNCHANGED up
     \/ ~ContextDone /\ Writable /\ up' = Append(up, seq) /\ UNCHANGED air
     \/ (ContextDone \/ relay # "running") /\ UNCHANGED <<air, up>>
  /\ UNCHANGED <<line, down, clientShut, serverShut, airDown, repeats, server, frames, frameErr,
                 clientReader, readLoop, unread, cancelled, stopped, closing, told>>

ReadFrom ==
  /\ unread > 0 /\ unread' = unread - 1
  /\ UNCHANGED <<wire, server, seq, frames, frameErr, clientReader, readLoop, cancelled,
                 stopped, closing, told>>

\* notifyClose, behind its sync.Once.
Tell(what) == told' = IF told = "nobody" THEN what ELSE told

MutCloseBegins ==
  /\ closing = "no" /\ closing' = "telling" /\ ClientShuts
  /\ UNCHANGED <<line, up, serverShut, air, repeats, server, seq, frames,
                 frameErr, clientReader, readLoop, unread, cancelled, stopped, told>>

\* Close, step by step: tell, cancel, write CLOSE, close the framing.
CloseBegins ==
  /\ closing = "no" /\ closing' = "telling" /\ Tell("clean")
  /\ UNCHANGED <<wire, server, seq, frames, frameErr, clientReader, readLoop, unread,
                 cancelled, stopped>>

CloseCancels ==
  /\ closing = "telling" /\ closing' = "writing" /\ cancelled' = TRUE
  /\ UNCHANGED <<wire, server, seq, frames, frameErr, clientReader, readLoop, unread,
                 stopped, told>>

\* Within udpCloseWriteTimeout, or not at all.
CloseWrites ==
  /\ closing = "writing" /\ closing' = "closing"
  /\ \/ Writable /\ up' = Append(up, Farewell)
     \/ UNCHANGED up
  /\ UNCHANGED <<line, down, clientShut, serverShut, air, airDown, repeats, server, seq, frames,
                 frameErr, clientReader, readLoop, unread, cancelled, stopped, told>>

CloseEnds ==
  /\ closing = "closing" /\ closing' = "done" /\ ClientShuts
  /\ UNCHANGED <<line, up, serverShut, air, repeats, server, seq, frames,
                 frameErr, clientReader, readLoop, unread, cancelled, stopped, told>>

ClientStops ==
  /\ ~stopped /\ stopped' = TRUE
  /\ UNCHANGED <<wire, server, seq, frames, frameErr, clientReader, readLoop, unread,
                 cancelled, closing, told>>

-----------------------------------------------------------------------------
(* udpFrames and readLoop *)

\* The stream reader of the client stops after the final acknowledgement.
ClientReads ==
  /\ clientReader = "reading" /\ line = "up" /\ ~clientShut
  /\ down # <<>> /\ Len(frames) < FrameSlots
  /\ frames' = Append(frames, Head(down)) /\ down' = Tail(down)
  /\ clientReader' = IF Head(down) = Farewell THEN "ended" ELSE "reading"
  /\ UNCHANGED <<line, up, clientShut, serverShut, air, airDown, repeats, server, seq, frameErr,
                 readLoop, unread, cancelled, stopped, closing, told>>

ClientReadFails ==
  /\ clientReader = "reading"
  /\ line = "broken" \/ clientShut \/ (down = <<>> /\ serverShut)
  /\ clientReader' = "ended" /\ frameErr' = TRUE
  /\ UNCHANGED <<wire, server, seq, frames, readLoop, unread, cancelled, stopped,
                 closing, told>>

\* It gives up a frame it cannot publish once the context is done.
ClientReaderLeaves ==
  /\ clientReader = "reading" /\ ContextDone /\ down # <<>> /\ Len(frames) = FrameSlots
  /\ clientReader' = "ended"
  /\ UNCHANGED <<wire, server, seq, frames, frameErr, readLoop, unread, cancelled,
                 stopped, closing, told>>

\* The reader of this flow's share of the connection's datagrams.
ClientHears(r) ==
  /\ r \in airDown /\ airDown' = airDown \ {r}
  /\ ~ContextDone /\ Len(frames) < FrameSlots /\ frames' = Append(frames, r)
  /\ UNCHANGED <<line, up, down, clientShut, serverShut, air, repeats, server, seq, frameErr,
                 clientReader, readLoop, unread, cancelled, stopped, closing, told>>

\* A packet goes to the application, or waits for room in readChan.
LoopForwards ==
  /\ readLoop = "waiting" /\ frames # <<>> /\ Head(frames) # Farewell /\ frames' = Tail(frames)
  /\ IF unread < ReadSlots
       THEN unread' = unread + 1 /\ UNCHANGED readLoop
       ELSE readLoop' = "parked" /\ UNCHANGED unread
  /\ UNCHANGED <<wire, server, seq, frameErr, clientReader, cancelled, stopped,
                 closing, told>>

LoopUnparks ==
  /\ readLoop = "parked" /\ unread < ReadSlots
  /\ unread' = unread + 1 /\ readLoop' = "waiting"
  /\ UNCHANGED <<wire, server, seq, frames, frameErr, clientReader, cancelled, stopped,
                 closing, told>>

\* Every end cancels and closes the framing, and then tells.
LoopSeesFinal ==
  /\ readLoop = "waiting" /\ frames # <<>> /\ Head(frames) = Farewell /\ frames' = Tail(frames)
  /\ readLoop' = "clean" /\ cancelled' = TRUE /\ ClientShuts
  /\ UNCHANGED <<line, up, serverShut, air, repeats, server, seq, frameErr,
                 clientReader, unread, stopped, closing, told>>

LoopSeesError ==
  /\ readLoop = "waiting" /\ frameErr /\ frameErr' = FALSE
  /\ readLoop' = "error" /\ cancelled' = TRUE /\ ClientShuts
  /\ UNCHANGED <<line, up, serverShut, air, repeats, server, seq, frames,
                 clientReader, unread, stopped, closing, told>>

MutLoopTells ==
  /\ readLoop \in {"clean", "error"} /\ readLoop' = "ended"
  /\ UNCHANGED <<wire, server, seq, frames, frameErr, clientReader, unread, cancelled, stopped,
                 closing, told>>

\* ReadFrom returns whether or not the reason still finds its way into readChan.
LoopTells ==
  /\ readLoop \in {"clean", "error"} /\ Tell(readLoop) /\ readLoop' = "ended"
  /\ UNCHANGED <<wire, server, seq, frames, frameErr, clientReader, unread, cancelled, stopped,
                 closing>>

MutLoopLeaves ==
  /\ readLoop = "waiting" /\ ContextDone /\ readLoop' = "ended"
  /\ UNCHANGED <<wire, server, seq, frames, frameErr, clientReader, unread, cancelled,
                 stopped, closing, told>>

\* The deferred calls return the session's slot and the share of the datagrams.
LoopLeaves ==
  /\ readLoop \in {"waiting", "parked"} /\ ContextDone /\ readLoop' = "ended"
  /\ UNCHANGED <<wire, server, seq, frames, frameErr, clientReader, unread, cancelled,
                 stopped, closing, told>>

-----------------------------------------------------------------------------
(* The network *)

LineBreaks ==
  /\ line = "up" /\ line' = "broken" /\ up' = <<>> /\ down' = <<>>
  /\ UNCHANGED <<clientShut, serverShut, air, airDown, repeats, client, server>>

-----------------------------------------------------------------------------
(* handleUDPAssociation: its readers *)

MutRelayReads ==
  /\ relay = "running" /\ relayReader = "reading" /\ line = "up"
  /\ up # <<>> /\ Len(relayFrames) < FrameSlots
  /\ relayFrames' = Append(relayFrames, Head(up)) /\ up' = Tail(up)
  /\ UNCHANGED <<line, down, clientShut, serverShut, air, airDown, repeats, client, relayErr, relayReader,
                 packets, replySeq, window, relay>>

\* The stream reader of the server stops after CLOSE.
RelayReads ==
  /\ relay = "running" /\ relayReader = "reading" /\ line = "up"
  /\ up # <<>> /\ Len(relayFrames) < FrameSlots
  /\ relayFrames' = Append(relayFrames, Head(up)) /\ up' = Tail(up)
  /\ relayReader' = IF Head(up) = Farewell THEN "closed" ELSE "reading"
  /\ UNCHANGED <<line, down, clientShut, serverShut, air, airDown, repeats, client, relayErr,
                 packets, replySeq, window, relay>>

RelayReadFails ==
  /\ relay = "running" /\ relayReader = "reading"
  /\ line = "broken" \/ (up = <<>> /\ clientShut)
  /\ relayReader' = "failed" /\ relayErr' = TRUE
  /\ UNCHANGED <<wire, client, relayFrames, packets, replySeq, window, relay>>

RelayHears(s) ==
  /\ s \in air
  /\ \/ air' = air \ {s} /\ UNCHANGED repeats
     \/ repeats < Repeats /\ repeats' = repeats + 1 /\ UNCHANGED air
  /\ relay = "running" /\ Len(relayFrames) < FrameSlots
  /\ relayFrames' = Append(relayFrames, s)
  /\ UNCHANGED <<line, up, down, clientShut, serverShut, airDown, client, relayErr, relayReader,
                 packets, replySeq, window, relay>>

\* The goroutine that reads the relay socket; a host answers only what it was sent.
SocketReads ==
  /\ relay = "running" /\ Len(packets) < FrameSlots
  /\ replySeq + Len(packets) < Replies /\ More /\ \E s \in Seqs : relayed[s] > 0
  /\ packets' = Append(packets, "reply")
  /\ UNCHANGED <<wire, client, relayFrames, relayErr, relayReader, replySeq, window,
                 relay>>

-----------------------------------------------------------------------------
(* handleUDPAssociation: its loop.  Each step is one case of the select. *)

MutAdmits(s) == s > highest \/ highest - s < Width

\* packetWindow.admit; `started` is told by a seen that is not empty.
Admits(s) == s > highest \/ (highest - s < Width /\ highest - s \notin seen)

MutShifted(n) == {0} \cup seen

\* What the bitmap becomes when the highest number grows by n.
Shifted(n) == {0} \cup ({d + n : d \in seen} \cap (0 .. Width - 1))

Admit(s) ==
  /\ highest' = IF s > highest THEN s ELSE highest
  /\ seen' = IF s > highest THEN Shifted(s - highest) ELSE seen \cup {highest - s}

MutRelayEnds(why) == relay' = why /\ UNCHANGED <<serverShut, up, air>>

\* The loop ends for a reason and closes the stream; the deferred calls give back
\* the share of the datagrams and the socket.  What was still to arrive is dropped.
RelayEnds(why) == relay' = why /\ serverShut' = TRUE /\ up' = <<>> /\ air' = {}
RelayGoesOn    == UNCHANGED <<relay, serverShut, up, air>>

\* A packet of the window goes to the socket.  A transient error or a timeout
\* of the write costs only the packet; another error ends the association.
RelayPacket ==
  /\ relay = "running" /\ relayFrames # <<>> /\ Head(relayFrames) # Farewell
  /\ relayFrames' = Tail(relayFrames)
  /\ LET s == Head(relayFrames) IN
       IF Admits(s)
         THEN /\ Admit(s) /\ relayed' = [relayed EXCEPT ![s] = @ + 1]
              /\ RelayEnds("failed") \/ RelayGoesOn
         ELSE UNCHANGED window /\ RelayGoesOn
  /\ UNCHANGED <<line, down, clientShut, airDown, repeats, client, relayErr, relayReader, packets,
                 replySeq>>

\* CLOSE is answered, if the stream takes the answer, and ends the association.
RelayCloses ==
  /\ relay = "running" /\ relayFrames # <<>> /\ Head(relayFrames) = Farewell
  /\ relayFrames' = Tail(relayFrames) /\ RelayEnds("closed")
  /\ \/ Writable /\ down' = Append(down, Farewell)
     \/ UNCHANGED down
  /\ UNCHANGED <<line, clientShut, airDown, repeats, client, relayErr, relayReader, packets,
                 replySeq, window>>

RelayReplies ==
  /\ relay = "running" /\ packets # <<>> /\ packets' = Tail(packets)
  /\ \/ /\ replySeq' = replySeq + 1 /\ RelayGoesOn
        /\ \/ airDown' = airDown \cup {replySeq} /\ UNCHANGED down
           \/ Writable /\ down' = Append(down, replySeq) /\ UNCHANGED airDown
     \/ RelayEnds("failed") /\ UNCHANGED <<replySeq, down, airDown>>
  /\ UNCHANGED <<line, clientShut, repeats, client, relayFrames, relayErr, relayReader,
                 window>>

RelaySeesError ==
  /\ relay = "running" /\ relayErr /\ RelayEnds("reader")
  /\ UNCHANGED <<line, down, clientShut, airDown, repeats, client, relayFrames, relayErr,
                 relayReader, packets, replySeq, window>>

\* An error of the socket's reader, the idle or the lifetime timer, or the end of
\* the server.
RelayExpires ==
  /\ relay = "running" /\ \E why \in {"failed", "stopped"} : RelayEnds(why)
  /\ UNCHANGED <<line, down, clientShut, airDown, repeats, client, relayFrames, relayErr,
                 relayReader, packets, replySeq, window>>

-----------------------------------------------------------------------------
AppStep     == WriteTo \/ ReadFrom \/ CloseBegins \/ ClientStops
CloseStep   == CloseCancels \/ CloseWrites \/ CloseEnds
ClientRead  == ClientReads \/ ClientReadFails \/ ClientReaderLeaves
ReadLoopStep    == LoopForwards \/ LoopUnparks \/ LoopSeesFinal \/ LoopSeesError \/ LoopTells \/ LoopLeaves
RelayRead   == RelayReads \/ RelayReadFails
RelayStep   == RelayPacket \/ RelayCloses \/ RelayReplies \/ RelaySeesError
NetworkStep == LineBreaks \/ (\E s \in air : RelayHears(s)) \/ (\E r \in airDown : ClientHears(r))

UDPNext ==
  \/ AppStep \/ CloseStep \/ ClientRead \/ ReadLoopStep \/ NetworkStep
  \/ RelayRead \/ RelayStep \/ SocketReads \/ RelayExpires

UDPSpec == UDPInit /\ [][UDPNext]_udpVars

\* Goroutines that can run do run: the loops, the readers, a Close once begun.
\* Nothing is assumed of the application, the network, the timers and the socket.
UDPFairness ==
  /\ WF_udpVars(CloseStep) /\ WF_udpVars(ClientRead) /\ WF_udpVars(ReadLoopStep)
  /\ WF_udpVars(RelayRead) /\ WF_udpVars(RelayStep)

UDPFairSpec == UDPSpec /\ UDPFairness

-----------------------------------------------------------------------------
(* Properties *)

\* The variables have their types.
UDPTypeOK ==
  /\ line \in {"up", "broken"} /\ clientShut \in BOOLEAN /\ serverShut \in BOOLEAN
  /\ up \in Seq(UpFrames) /\ down \in Seq(DownFrames)
  /\ air \in SUBSET Seqs /\ airDown \in SUBSET Nat /\ repeats \in 0 .. Repeats
  /\ seq \in 0 .. Packets /\ frames \in Seq(DownFrames) /\ frameErr \in BOOLEAN
  /\ clientReader \in {"reading", "ended"} /\ unread \in 0 .. ReadSlots
  /\ readLoop \in {"waiting", "parked", "clean", "error", "ended"}
  /\ cancelled \in BOOLEAN /\ stopped \in BOOLEAN
  /\ closing \in {"no", "telling", "writing", "closing", "done"}
  /\ told \in {"nobody", "clean", "error"}
  /\ relayFrames \in Seq(UpFrames) /\ relayErr \in BOOLEAN
  /\ relayReader \in {"reading", "closed", "failed"}
  /\ packets \in Seq({"reply"}) /\ replySeq \in Nat
  /\ highest \in Nat /\ seen \in SUBSET (0 .. Width - 1) /\ relayed \in [Seqs -> Nat]
  /\ relay \in {"running", "closed", "failed", "reader", "stopped"}

\* No packet is handed to the socket twice, however often and in whatever order it
\* arrives, and the window remembers exactly the numbers within its width that
\* were: what it refuses was relayed or is too old (packetWindow.admit, udp.go:88).
RelayedOnce ==
  /\ \A s \in Seqs : relayed[s] <= 1
  /\ \A d \in 0 .. Width - 1 : d \in seen <=> highest - d \in Seqs /\ relayed[highest - d] = 1
  /\ \A s \in Seqs : relayed[s] > 0 => s <= highest

\* The window in its type, and exact: what the theorem of Sessions_proofs
\* states (packetWindow, udp.go:84).
WindowInv == UDPTypeOK /\ RelayedOnce

\* A stream reader that has read the last frame of its direction reports no error
\* behind it, which the select could take first: a clean close is never a failure
\* (handleUDPAssociation, udp.go:565, and udpFrames, udp.go:492).
CloseIsNoFailure ==
  /\ relay = "reader" => \A i \in DOMAIN relayFrames : relayFrames[i] # Farewell
  /\ readLoop = "error" => \A i \in DOMAIN frames : frames[i] # Farewell

\* onClose hears of an error only when the line or the server ended, never of the
\* errors the application's own Close causes; and unless the client stops it has
\* heard something when the read loop is gone (clientUDPPacketConn, udp.go:167).
TheEndIsTold ==
  /\ told = "error" => line = "broken" \/ serverShut
  /\ readLoop = "ended" => told # "nobody" \/ stopped

\* An association that ends says how it ended, and says it truly (udp.go:167 and 492).
EndingInv == CloseIsNoFailure /\ TheEndIsTold

NoFarewell(q) == \A i \in DOMAIN q : q[i] # Farewell

\* What EndingInv rests on: a reader reports an error only if it has not read the last
\* frame, and it reads nothing behind it;
ReadersStopThere ==
  /\ relayReader # "closed" => NoFarewell(relayFrames)
  /\ relayErr \/ relay = "reader" => relayReader = "failed"
  /\ clientReader = "reading" \/ frameErr \/ readLoop = "error" => NoFarewell(frames)
  /\ frameErr \/ readLoop = "error" => clientReader = "ended"

\* and while the read loop goes on, whatever ends the client's side has been told of,
\* but for an end of the line or of the server.
EndsHaveGrounds ==
  /\ closing # "no" => told # "nobody"
  /\ readLoop \in {"waiting", "parked"} /\ (clientShut \/ cancelled) => told # "nobody"
  /\ (readLoop \in {"waiting", "parked"} /\ frameErr) \/ readLoop = "error" =>
       line = "broken" \/ serverShut \/ told # "nobody"

EndingIInv == UDPTypeOK /\ ReadersStopThere /\ EndsHaveGrounds /\ EndingInv

\* The end of either side reaches the other. When the server's side ends, so does the
\* client's loop, unless it waits for an application that leaves packets unread
\* (readLoop, udp.go:191); once the application closes, both loops end and give back
\* what they hold, with nobody reading, whatever is lost, and without waiting for a
\* timer (Close, udp.go:329).
EndsReachTheOther ==
  closing # "no" \/ relay # "running"
    ~> /\ readLoop \in {"ended", "parked"}
       /\ closing # "no" => readLoop = "ended" /\ relay # "running"
=============================================================================
