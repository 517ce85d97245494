----------------------------- MODULE CubicSender -----------------------------
(***************************************************************************)
(* The window of congestion_meta1 (cubic_sender.go, hybrid_slow_start.go), *)
(* Reno's in full and Cubic's up to its growth function: slow start and    *)
(* the delay that ends it, one cut for the losses of a flight, timeouts    *)
(* and larger datagrams.  Windows and sizes are in units of data; a packet *)
(* fills a datagram of the size it was sent with.                          *)
(***************************************************************************)
EXTENDS Integers, FiniteSets, FiniteSetsExt

CONSTANTS CubicPackets,     \* the last packet number sent
          CubicSizes,       \* datagram sizes, which only grow
          FirstWindow, LargestWindow, LeastWindow,   \* in datagrams
          BurstPackets,     \* maxBurstPackets
          StartSamples,     \* hybridStartMinSamples
          LowWindow,        \* hybridStartLowWindow, in datagrams
          Timeouts          \* how many timeouts may fire

ASSUME CubicConstants ==
  /\ CubicPackets \in Nat /\ Timeouts \in Nat /\ BurstPackets \in Nat /\ StartSamples \in Nat /\ LowWindow \in Nat
  /\ CubicSizes \subseteq Nat \ {0} /\ CubicSizes # {} /\ IsFiniteSet(CubicSizes)
  /\ LeastWindow \in Nat \ {0} /\ FirstWindow \in LeastWindow..LargestWindow /\ LargestWindow \in Nat

NonePN == -1
Unlimited == LargestWindow * Max(CubicSizes) + 1   \* MaxByteCount

VARIABLES isReno, sentTo, ackedTo,     \* reno, largestSentPacketNumber, largestAckedPacketNumber
          cutTo,                       \* largestSentAtLastCutback
          win, threshold, ackedCount,  \* congestionWindow, slowStartThreshold, numAckedPackets
          dgram,                       \* maxDatagramSize
          start,                       \* HybridSlowStart: [on, end, samples, found]
          air,                         \* packets in flight: number -> [size, flight]
          timeouts,                    \* timeouts so far
          flights, blamed, cutTwice    \* ghosts: cuts so far, those a loss answers for, whether two were for one flight

cubicVars == <<isReno, sentTo, ackedTo, cutTo, win, threshold, ackedCount, dgram, start, air, timeouts, flights, blamed, cutTwice>>

LeastBytes == LeastWindow * dgram
MostBytes == LargestWindow * dgram
InFlight == MapThenSumSet(LAMBDA p : air[p].size, DOMAIN air)
InSlowStart == win < threshold
InRecovery(acked) == acked # NonePN /\ acked <= cutTo
Landed(p) == air' = [q \in DOMAIN air \ {p} |-> air[q]]

CubicInit ==
  /\ isReno \in BOOLEAN /\ dgram = Min(CubicSizes)
  /\ sentTo = NonePN /\ ackedTo = NonePN /\ cutTo = NonePN
  /\ win = FirstWindow * dgram /\ threshold = Unlimited /\ ackedCount = 0
  /\ start = [on |-> FALSE, end |-> 0, samples |-> 0, found |-> FALSE]
  /\ air = <<>> /\ timeouts = 0
  /\ flights = 0 /\ blamed = {} /\ cutTwice = FALSE

(* OnPacketSent, under CanSend.                                            *)
SendsPacket ==
  /\ sentTo < CubicPackets /\ InFlight < win
  /\ sentTo' = sentTo + 1
  /\ air' = [p \in DOMAIN air \cup {sentTo'} |-> IF p = sentTo' THEN [size |-> dgram, flight |-> flights] ELSE air[p]]
  /\ UNCHANGED <<isReno, ackedTo, cutTo, win, threshold, ackedCount, dgram, start, timeouts, flights, blamed, cutTwice>>

(* MaybeExitSlowStart, at any time between acknowledgements: delayed says that the      *)
(* least round trip of the round's first samples is well above the least   *)
(* of all.                                                                 *)
DelaySampled(delayed) ==
  LET begun == IF start.on THEN start ELSE [start EXCEPT !.on = TRUE, !.end = sentTo, !.samples = 0]
  IN  IF begun.found THEN begun
      ELSE [begun EXCEPT !.samples = Min({StartSamples + 1, @ + 1}),
                         !.found = (delayed /\ begun.samples + 1 = StartSamples)]
MaybeExitSlowStart(delayed) ==
  /\ ackedTo # NonePN /\ InSlowStart
  /\ start' = DelaySampled(delayed)
  /\ threshold' = (IF start.found \/ (start'.found /\ win \div dgram >= LowWindow) THEN win ELSE threshold)
  /\ UNCHANGED <<isReno, sentTo, ackedTo, cutTo, win, ackedCount, dgram, air, timeouts, flights, blamed, cutTwice>>

(* isCwndLimited, and CongestionWindowAfterAck as any growth up to what    *)
(* was acknowledged.                                                       *)
CwndLimited == \/ InFlight >= win
               \/ (InSlowStart /\ InFlight > win \div 2)
               \/ win - InFlight <= BurstPackets * dgram
CubicGrowth(size) == {Min({w, MostBytes}) : w \in win..win + size}

(* maybeIncreaseCwnd.                                                      *)
Increased(size) ==
  LET grows == CwndLimited /\ win < MostBytes
  IN  \/ ~grows /\ UNCHANGED <<win, ackedCount>>
      \/ grows /\ InSlowStart /\ win' = win + dgram /\ UNCHANGED ackedCount
      \/ grows /\ ~InSlowStart /\ ~isReno /\ win' \in CubicGrowth(size) /\ UNCHANGED ackedCount
      \/ /\ grows /\ ~InSlowStart /\ isReno
         /\ IF ackedCount + 1 >= win \div dgram THEN win' = win + dgram /\ ackedCount' = 0
            ELSE ackedCount' = ackedCount + 1 /\ UNCHANGED win

(* OnPacketAcked.                                                          *)
PacketAcked(p) ==
  /\ Landed(p) /\ ackedTo' = Max({p, ackedTo})
  /\ IF InRecovery(ackedTo') THEN UNCHANGED <<win, ackedCount, start>>
     ELSE /\ Increased(air[p].size)
          /\ start' = (IF win' < threshold /\ start.end < p THEN [start EXCEPT !.on = FALSE] ELSE start)
  /\ UNCHANGED <<isReno, sentTo, cutTo, threshold, dgram, timeouts, flights, blamed, cutTwice>>

\* Faulty, unused: the cut covers the packets up to the lost one.
MutCutsTo(p) == p

(* OnCongestionEvent: the losses of one flight cut the window once.        *)
CutsTo(p) == sentTo
PacketLost(p) ==
  /\ Landed(p)
  /\ IF p <= cutTo THEN UNCHANGED <<win, threshold, cutTo, ackedCount, flights, blamed, cutTwice>>
     ELSE /\ win' = Max({LeastBytes, (7 * win) \div 10}) /\ threshold' = win'
          /\ cutTo' = CutsTo(p) /\ ackedCount' = 0
          /\ flights' = flights + 1 /\ blamed' = blamed \cup {air[p].flight}
          /\ cutTwice' = (cutTwice \/ air[p].flight \in blamed)
  /\ UNCHANGED <<isReno, sentTo, ackedTo, dgram, start, timeouts>>

(* OnRetransmissionTimeout.                                                *)
TimedOut(retransmitted) ==
  /\ timeouts < Timeouts /\ timeouts' = timeouts + 1
  /\ cutTo' = NonePN /\ blamed' = {}
  /\ IF retransmitted
     THEN /\ start' = [start EXCEPT !.on = FALSE, !.found = FALSE]
          /\ threshold' = win \div 2 /\ win' = LeastBytes
     ELSE UNCHANGED <<start, threshold, win>>
  /\ UNCHANGED <<isReno, sentTo, ackedTo, ackedCount, dgram, air, flights, cutTwice>>

(* SetMaxDatagramSize.                                                     *)
DatagramGrows(s) ==
  /\ s > dgram /\ dgram' = s
  /\ win' = (IF win = LeastBytes THEN LeastWindow * s ELSE win)
  /\ UNCHANGED <<isReno, sentTo, ackedTo, cutTo, threshold, ackedCount, start, air, timeouts, flights, blamed, cutTwice>>

CubicNext ==
  \/ SendsPacket
  \/ \E p \in DOMAIN air : PacketAcked(p) \/ PacketLost(p)
  \/ \E b \in BOOLEAN : MaybeExitSlowStart(b) \/ TimedOut(b)
  \/ \E s \in CubicSizes : DatagramGrows(s)
CubicSpec == CubicInit /\ [][CubicNext]_cubicVars

-----------------------------------------------------------------------------
(* Losses of packets sent between two cuts cut the window once; a window   *)
(* that was cut stays so until a packet sent after the cut arrives; and it *)
(* stays within a datagram of its bounds, whatever the datagrams grow to.  *)
CubicInv ==
  /\ ~cutTwice
  /\ (cutTo # NonePN /\ ackedTo # NonePN /\ ackedTo <= cutTo) => win <= Max({threshold, LeastBytes})
  /\ win >= LeastWindow * Min(CubicSizes) /\ win < MostBytes + dgram
==============================================================================
