------------------------------ MODULE TuicBBR ------------------------------
(***************************************************************************)
(* The BBR sender of congestion_queqiao (bbr_tuic.go): modes, rounds, loss *)
(* recovery, the probes of the round-trip time, and the window and pacing  *)
(* rate they give.  Time is what its tests decide (a probe is due, a cycle *)
(* is over), an estimate of the bandwidth filter is any of BBRRates, gains *)
(* are in quarters and every packet is one unit of data.                   *)
(***************************************************************************)
EXTENDS Integers, Sequences, FiniteSets, FiniteSetsExt

CONSTANTS LastPacket,        \* the last packet number sent
          BBRRates,          \* what the bandwidth filter may estimate, per round trip
          DatagramSizes,     \* the sizes a datagram may be set to
          MinPackets, InitialPackets, MaxPackets,  \* the windows, in datagrams
          NoGainRounds,      \* tuicStartupNoGainRounds
          LossEvents,        \* tuicStartupLossEvents
          LossIsCongestion   \* whether losses start a recovery

ASSUME BBRConstants ==
  /\ LastPacket \in Nat /\ LossIsCongestion \in BOOLEAN /\ NoGainRounds \in Nat /\ LossEvents \in Nat
  /\ BBRRates \subseteq Nat /\ \E r \in BBRRates : \A q \in BBRRates : r <= q
  /\ DatagramSizes \subseteq Nat \ {0} /\ \E s \in DatagramSizes : \A t \in DatagramSizes : s <= t
  /\ MinPackets \in Nat \ {0} /\ InitialPackets \in MinPackets..MaxPackets /\ MaxPackets \in Nat

VARIABLES sentPN, flying,             \* maxSentPN, and the packets in flight
          mode, phase, fullBandwidth,          \* mode, cycleOffset, fullBandwidth
          roundEnd, lastRate, noGain, \* roundEndPN, bwAtLastRound, roundsNoGain
          lossesSeen,                 \* lossEventsInRound, up to its threshold
          cwnd, size, initial,        \* cwnd, maxDatagramSize, initialCwnd
          ackedSoFar,                 \* ackedBytes, up to the initial window
          estimate, peak, pacing,     \* the filter's estimate, peakBandwidth, pacingRate
          recovery, recoveryEnd, recoveryWindow,
          probe,                      \* exitProbeRTT and probeRTTRoundPassed
          leavingIdle,                \* exitingQuiescence
          lostAt, topAcked            \* ghosts: maxSentPN at the last loss that counts, the greatest number acked

bbrVars == <<sentPN, flying, mode, phase, fullBandwidth, roundEnd, lastRate, noGain, lossesSeen, cwnd, size, initial,
             ackedSoFar, estimate, peak, pacing, recovery, recoveryEnd, recoveryWindow, probe, leavingIdle, lostAt, topAcked>>

LeastOf(a, b) == IF a < b THEN a ELSE b
MostOf(a, b) == IF a < b THEN b ELSE a
MinCwnd == MinPackets * size
MaxCwnd == MaxPackets * size
Clamped(window, least, most) == LeastOf(most, MostOf(least, window))

(* tuicPacingGains, the gains of the other modes and tuicCwndGain.         *)
Cycle == <<5, 3, 4>>
HighGain == 12
CwndGain == 8
PacingGain(m, p) == CASE m = "startup" -> HighGain [] m = "drain" -> 1 [] m = "probeBW" -> Cycle[p] [] m = "probeRTT" -> 4

(* NewTUICBBRSender; or a sender at rest that has found its bandwidth,     *)
(* packets numbered from there.                                            *)
BBRInit ==
  /\ sentPN = -1 /\ flying = {} /\ roundEnd = -1
  /\ size = Min(DatagramSizes) /\ initial = InitialPackets * size
  /\ fullBandwidth \in BOOLEAN /\ noGain = 0 /\ lossesSeen = 0
  /\ estimate = (IF fullBandwidth THEN Min(BBRRates) ELSE 0) /\ peak = estimate /\ lastRate = estimate
  /\ mode = (IF fullBandwidth THEN "probeBW" ELSE "startup") /\ phase = Len(Cycle) /\ pacing = estimate
  /\ ackedSoFar = (IF fullBandwidth THEN initial ELSE 0)
  /\ cwnd = (IF fullBandwidth THEN Clamped((estimate * CwndGain) \div 4, MinCwnd, MaxCwnd) ELSE initial)
  /\ recovery = "none" /\ recoveryEnd = -1 /\ recoveryWindow = 0
  /\ probe = "none" /\ leavingIdle = FALSE
  /\ lostAt = -1 /\ topAcked = -1

(* targetCwnd and GetCongestionWindow.                                     *)
Target(rate, gain) == Clamped(((IF rate = 0 THEN initial ELSE rate) * gain) \div 4, MinCwnd, MaxCwnd)
CongestionWindow ==
  LET window == MostOf(MinCwnd, IF mode = "probeRTT" THEN MinCwnd ELSE cwnd)
  IN  IF recovery # "none" /\ mode # "startup" /\ recoveryWindow > 0 THEN LeastOf(window, recoveryWindow) ELSE window

(* OnPacketSent, under CanSend: the first packet after a quiet time brings *)
(* back the highest rate seen, while it is still in the filter's window.   *)
Seeds(fresh) == flying = {} /\ peak > estimate /\ fresh
SendsData(fresh) ==
  /\ sentPN < LastPacket /\ Cardinality(flying) < CongestionWindow
  /\ sentPN' = sentPN + 1 /\ flying' = flying \cup {sentPN'}
  /\ leavingIdle' = (leavingIdle \/ flying = {})
  /\ estimate' = (IF Seeds(fresh) THEN peak ELSE estimate)
  /\ pacing' = (IF Seeds(fresh) THEN MostOf(pacing, (peak * HighGain) \div 4) ELSE pacing)
  /\ cwnd' = (IF Seeds(fresh) THEN MostOf(cwnd, LeastOf(peak, MaxCwnd)) ELSE cwnd)
  /\ UNCHANGED <<mode, phase, fullBandwidth, roundEnd, lastRate, noGain, lossesSeen, size, initial, ackedSoFar, peak,
                 recovery, recoveryEnd, recoveryWindow, probe, lostAt, topAcked>>

-----------------------------------------------------------------------------
(* OnCongestionEventEx, in the order of its calls.  acks and losses are    *)
(* the packets of the event.                                               *)
NewestAcked(acks) == IF acks = {} THEN -1 ELSE Max(acks)
StartsRound(acks) == NewestAcked(acks) > roundEnd
Counts(acks, losses) == LossIsCongestion /\ fullBandwidth /\ acks # {} /\ losses # {}

\* Faulty, unused: a loss during a recovery does not move its end.
MutEndAfter(acks, losses) == IF Counts(acks, losses) /\ recovery = "none" THEN sentPN ELSE recoveryEnd

(* updateRecoveryState.                                                    *)
EndAfter(acks, losses) == IF Counts(acks, losses) THEN sentPN ELSE recoveryEnd
RecoveryAfter(acks, losses) ==
  IF ~fullBandwidth \/ acks = {} THEN recovery
  ELSE IF recovery = "none" THEN (IF Counts(acks, losses) THEN "conservation" ELSE "none")
  ELSE IF ~Counts(acks, losses) /\ NewestAcked(acks) > EndAfter(acks, losses) THEN "none"
  ELSE IF recovery = "conservation" /\ StartsRound(acks) THEN "growth"
  ELSE recovery
Enters(acks, losses) == recovery = "none" /\ Counts(acks, losses)

(* updateGainCycle: due when the cycle's round trip is over.               *)
Advances(due, losses, rest) ==
  LET gain == Cycle[phase]
  IN  \/ gain < 4 /\ rest <= Target(estimate', 4)
      \/ due /\ ~(gain > 4 /\ losses = {} /\ Cardinality(flying) < Target(estimate', gain))
PhaseAfter(due, losses, rest) ==
  IF mode = "probeBW" /\ Advances(due, losses, rest) THEN (phase % Len(Cycle)) + 1 ELSE phase

(* checkFullBandwidth, shouldExitStartupForLoss.                           *)
Gained == 4 * estimate' >= 5 * lastRate
Checks(acks, limited) == StartsRound(acks) /\ ~fullBandwidth /\ ~limited
FullAfter(acks, limited, lossy, seen) ==
  fullBandwidth \/ (Checks(acks, limited) /\ ~Gained /\ (noGain + 1 >= NoGainRounds \/ (lossy /\ seen >= LossEvents)))

(* maybeExitStartupDrain.                                                  *)
ModeDrained(rest) ==
  LET m == IF mode = "startup" /\ fullBandwidth' THEN "drain" ELSE mode
  IN  IF m = "drain" /\ rest <= Target(estimate', 4) THEN "probeBW" ELSE m

(* maybeProbeRTT: the probe's time starts once the flight is small, and    *)
(* the round that begins after may end it.                                 *)
Probing(m, expired) == m = "probeRTT" \/ (expired /\ ~leavingIdle)
ProbeTimed(m, rest) == (m = "probeRTT" /\ probe # "none") \/ rest < MinCwnd + size
ProbeAfter(m, expired, acks, rest) ==
  IF ~Probing(m, expired) THEN probe
  ELSE IF ~ProbeTimed(m, rest) THEN "none"
  ELSE IF StartsRound(acks) \/ (m = "probeRTT" /\ probe = "passed") THEN "passed" ELSE "timed"
ModeAfter(m, probed, over) ==
  IF ~probed THEN m
  ELSE IF m = "probeRTT" /\ probe # "none" /\ probe' = "passed" /\ over THEN (IF fullBandwidth' THEN "probeBW" ELSE "startup")
  ELSE "probeRTT"

(* calculatePacingRate, calculateCwnd, calculateRecoveryWindow.            *)
PacingAfter ==
  LET target == (estimate' * PacingGain(mode', phase')) \div 4
  IN  IF estimate' = 0 THEN pacing ELSE IF fullBandwidth' THEN target ELSE MostOf(pacing, target)
CwndAfter(gained, height) ==
  LET target == Target(estimate', CwndGain)
  IN  IF mode' = "probeRTT" THEN cwnd
      ELSE MostOf(MinCwnd, IF fullBandwidth' THEN LeastOf(LeastOf(MaxCwnd, target + height), cwnd + gained)
                           ELSE IF cwnd < target \/ ackedSoFar' < initial THEN LeastOf(MaxCwnd, cwnd + gained)
                           ELSE cwnd)
\* Faulty, unused: a recovery holds what is in flight, however little that is.
MutHeldInRecovery(gained, rest) == rest + gained

HeldInRecovery(gained, rest) == MostOf(MinCwnd, rest + gained)
RecoveryWindowAfter(window, gained, lost, rest) ==
  LET held == HeldInRecovery(gained, rest)
      kept == IF window >= lost THEN window - lost ELSE size
  IN  IF recovery' = "none" THEN window
      ELSE IF window = 0 THEN held
      ELSE MostOf(held, IF recovery' = "growth" THEN kept + gained ELSE kept)

(* The whole event: due, expired, over, limited, lossy and height stand    *)
(* for the clock, the round-trip samples, the sampler and its ack heights; *)
(* draw is nextCycleOffset, which never draws the phase that drains.       *)
CongestionEvent(acks, losses, rate, due, expired, over, limited, lossy, height, draw) ==
  LET rest == Cardinality(flying) - Cardinality(acks) - Cardinality(losses)
      gained == Cardinality(acks)
      seen == LeastOf(LossEvents, lossesSeen + (IF losses = {} THEN 0 ELSE 1))
      drained == ModeDrained(rest)
      probed == Probing(drained, expired)
  IN  /\ flying' = flying \ (acks \cup losses)
      /\ estimate' = (IF acks = {} THEN estimate ELSE rate)
      /\ peak' = MostOf(peak, estimate')
      /\ recovery' = RecoveryAfter(acks, losses) /\ recoveryEnd' = EndAfter(acks, losses)
      /\ roundEnd' = (IF StartsRound(acks) \/ Enters(acks, losses) THEN sentPN ELSE roundEnd)
      /\ fullBandwidth' = FullAfter(acks, limited, lossy, seen)
      /\ IF Checks(acks, limited)
         THEN /\ lastRate' = (IF Gained THEN estimate' ELSE lastRate)
              /\ noGain' = (IF Gained THEN 0 ELSE LeastOf(NoGainRounds, noGain + 1))
         ELSE UNCHANGED <<lastRate, noGain>>
      /\ lossesSeen' = (IF StartsRound(acks) THEN 0 ELSE seen)
      /\ probe' = ProbeAfter(drained, expired, acks, rest)
      /\ mode' = ModeAfter(drained, probed, over)
      /\ phase' = (IF mode' = "probeBW" /\ (mode # "probeBW" \/ probed) THEN draw ELSE PhaseAfter(due, losses, rest))
      /\ leavingIdle' = FALSE
      /\ ackedSoFar' = LeastOf(initial, ackedSoFar + gained)
      /\ pacing' = PacingAfter
      /\ cwnd' = CwndAfter(gained, height)
      /\ recoveryWindow' = RecoveryWindowAfter(IF Enters(acks, losses) THEN 0 ELSE recoveryWindow, gained, Cardinality(losses), rest)
      /\ lostAt' = (IF Counts(acks, losses) THEN sentPN ELSE lostAt)
      /\ topAcked' = MostOf(topAcked, NewestAcked(acks))
      /\ UNCHANGED <<sentPN, size, initial>>

(* SetMaxDatagramSize.                                                     *)
SizeSet(s) ==
  LET least == MinPackets * s
      most == MaxPackets * s
      first == Clamped((initial * s) \div size, least, most)
  IN  /\ size' = s /\ initial' = first
      /\ cwnd' = (IF cwnd = MinCwnd THEN least ELSE IF cwnd = initial THEN first ELSE Clamped(cwnd, least, most))
      /\ recoveryWindow' = Clamped(recoveryWindow, least, most)
      /\ UNCHANGED <<sentPN, flying, mode, phase, fullBandwidth, roundEnd, lastRate, noGain, lossesSeen, ackedSoFar, estimate, peak,
                     pacing, recovery, recoveryEnd, probe, leavingIdle, lostAt, topAcked>>

(* What an event may bring is chosen only where the code looks at it.      *)
If(c, s, t) == IF c THEN s ELSE t
BBRNext ==
  \/ \E fresh \in BOOLEAN : SendsData(fresh)
  \/ \E acks \in SUBSET flying : \E losses \in SUBSET (flying \ acks) :
       /\ acks \cup losses # {}
       /\ \E rate \in If(acks # {}, BBRRates, {0}), over \in If(mode = "probeRTT" /\ probe # "none", BOOLEAN, {FALSE}),
             expired \in If(acks # {} /\ ~leavingIdle /\ mode # "probeRTT", BOOLEAN, {FALSE}),
             due \in If(mode = "probeBW", BOOLEAN, {FALSE}),
             limited \in If(StartsRound(acks) /\ ~fullBandwidth, BOOLEAN, {FALSE}),
             lossy \in If(StartsRound(acks) /\ ~fullBandwidth /\ losses # {}, BOOLEAN, {FALSE}),
             height \in If(fullBandwidth /\ mode # "probeRTT", {0, 1}, {0}), draw \in If(mode # "probeBW" /\ (fullBandwidth \/ acks # {}), {1, 3}, {1}) :
            CongestionEvent(acks, losses, rate, due, expired, over, limited, lossy, height, draw)
  \/ \E s \in DatagramSizes : SizeSet(s)
BBRSpec == BBRInit /\ [][BBRNext]_bbrVars

-----------------------------------------------------------------------------
(* Startup ends for good, and only it comes before the full bandwidth.     *)
ModesFit == /\ mode = "startup" => ~fullBandwidth
            /\ mode \in {"drain", "probeBW"} => fullBandwidth
(* A recovery lasts until a packet sent after the last loss is             *)
(* acknowledged, holds its size for a round, and never begins while the    *)
(* bandwidth is still being found or where losses are no congestion.       *)
RecoveryLasts ==
  /\ lostAt > topAcked => recovery # "none"
  /\ recovery # "none" => LossIsCongestion /\ fullBandwidth /\ recoveryEnd = lostAt /\ roundEnd <= sentPN
  /\ recovery = "conservation" => topAcked <= roundEnd
(* The window stays between its bounds through a change of the datagram    *)
(* size, and a recovery never leaves less than the least window.           *)
WindowsFit ==
  /\ cwnd \in MinCwnd..MaxCwnd /\ initial \in MinCwnd..MaxCwnd
  /\ CongestionWindow \in MinCwnd..MaxCwnd
  /\ recovery # "none" => recoveryWindow >= MinCwnd
BBRInv == ModesFit /\ RecoveryLasts /\ WindowsFit

-----------------------------------------------------------------------------
(***************************************************************************)
(* How much more than it delivers an erasure sender sends                  *)
(* (congestion_queqiao/erasure.go).  The share of its packets that arrive  *)
(* is one of ArrivalLevels: the top level is all of them, each level below *)
(* is nine tenths of the next, level 0 is erasureMinArrival.  Losses, the  *)
(* delivered rate and rounds come from the estimator and the BBR sender.   *)
(***************************************************************************)

CONSTANTS TopLevel,      \* the level at which everything arrives
          DeliveredRates,\* what the BBR sender may estimate
          ErasureRounds  \* the last round

ASSUME ErasureConstants == TopLevel \in Nat /\ ErasureRounds \in Nat /\ DeliveredRates \subseteq Nat

VARIABLES arrivalLevel,  \* arrival: what the rate and the window are divided by
          applied,       \* appliedArrival, Unset before the first event
          paidAt,        \* deliveredAtCompensation
          paidRound,     \* compensationRound
          bbrRound,      \* the BBR sender's round
          timedPath,     \* whether a round trip was measured
          seededLevel,   \* the level the path's model gave at the start
          fromLevel, fromRound  \* ghosts: where and when the present descent began

erasureVars == <<arrivalLevel, applied, paidAt, paidRound, bbrRound, timedPath, seededLevel, fromLevel, fromRound>>

Unset == -1
ArrivalLevels == 0..TopLevel

(* NewErasureSenderOn: with an erasure of the path's model, or without.    *)
ErasureInit ==
  /\ seededLevel \in ArrivalLevels /\ arrivalLevel = seededLevel
  /\ applied = (IF seededLevel = TopLevel THEN Unset ELSE seededLevel)
  /\ paidAt = 0 /\ paidRound = 0 /\ bbrRound = 0 /\ timedPath = FALSE
  /\ fromLevel = seededLevel /\ fromRound = 0

(* compensationFor.                                                        *)
Applied == IF applied = Unset THEN TopLevel ELSE applied
Raises(want) == want >= Applied
\* Faulty, unused: the round of the last step is not asked for.
MutHoldsBack(delivered) == delivered <= paidAt

HoldsBack(delivered) == bbrRound' = paidRound \/ delivered <= paidAt
CompensationFor(want, delivered) ==
  /\ applied' = (IF Raises(want) THEN want ELSE IF HoldsBack(delivered) THEN Applied ELSE Applied - 1)
  /\ IF ~Raises(want) /\ bbrRound' = paidRound THEN UNCHANGED <<paidAt, paidRound>>
     ELSE paidAt' = delivered /\ paidRound' = bbrRound'
  /\ IF Raises(want) THEN fromLevel' = want /\ fromRound' = bbrRound'
     ELSE UNCHANGED <<fromLevel, fromRound>>
  /\ arrivalLevel' = applied'

(* OnCongestionEventEx: the losses, the BBR sender's own event, then the   *)
(* compensation, once a round trip is known.                               *)
ErasureEvent(want, delivered, newRound, timed) ==
  /\ bbrRound' = (IF newRound THEN bbrRound + 1 ELSE bbrRound)
  /\ bbrRound' <= ErasureRounds
  /\ timedPath' = (timedPath \/ timed)
  /\ IF timedPath' THEN CompensationFor(want, delivered)
     ELSE UNCHANGED <<arrivalLevel, applied, paidAt, paidRound, fromLevel, fromRound>>
  /\ UNCHANGED seededLevel

ErasureNext ==
  \E want \in ArrivalLevels, delivered \in DeliveredRates, newRound, timed \in BOOLEAN :
    ErasureEvent(want, delivered, newRound, timed)
ErasureSpec == ErasureInit /\ [][ErasureNext]_erasureVars

-----------------------------------------------------------------------------
(* However the losses look, a sender takes one step of compensation a      *)
(* round at the most from where it last agreed with them; and before a     *)
(* round trip is measured it keeps to what the path's model said.          *)
ErasureInv ==
  /\ fromLevel - Applied <= bbrRound - fromRound
  /\ ~timedPath => arrivalLevel = seededLevel
=============================================================================
