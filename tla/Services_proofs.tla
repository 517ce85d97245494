------------------------------ MODULE Services_proofs -------------------------------
(***********************************************************************************)
(* The parts that serve the flows, for every configuration the constructors        *)
(* accept and any number of flows, senders, ports, peers, payloads and fragments;  *)
(* and, from Paths_proofs and Proxies_proofs, what MCServices checks of its parts. *)
(*                                                                                 *)
(*   MemoryBudget   what is used is the sum of what flows hold, and that a         *)
(*                  request is never too large rests on the limits' being          *)
(*                  resolved within the budget (MemLimits)                         *)
(*   RateBudget     what was granted and what is left in the buckets was           *)
(*                  earned until the last refill (Earned)                          *)
(*   PortMux        who has no route in the current generation was read before     *)
(*                  everybody who has one (RoutesAreRecent)                        *)
(***********************************************************************************)
EXTENDS MCServices, Paths_proofs, Proxies_proofs

-----------------------------------------------------------------------------
(* MemoryBudget: what is used is held, and nobody sleeps beside room *)

MemTypeOK ==
  /\ limits \in [send : Int, perFlow : Int, queue : Int, reserve : Int]
  /\ used \in Nat /\ waiters \in Nat /\ tooLarge \in BOOLEAN
  /\ memState \in [MemFlows -> {"idle", "waiting", "left"}]
  /\ want \in [MemFlows -> 0..MemChunk] /\ held \in [MemFlows -> Nat]
  /\ asleep \subseteq MemFlows /\ cancelled \subseteq MemFlows

\* An accepted limit of one flow is within what all of them have, which is why no
\* flow is told that its request is too large.
MemLimits == limits # Refused => limits.perFlow <= limits.send

\* Whoever waits asks for something.
MemAsks == \A f \in MemFlows : memState[f] = "waiting" => want[f] # 0

MemIInv == MemTypeOK /\ MemLimits /\ MemAsks /\ MemInv

\* One flow's holding becomes m, and the others' stay.
Wants(f, m) == held' = [held EXCEPT ![f] = m]

\* The sum moves with the one holding that changes.
LEMMA HeldMoves ==
  ASSUME MemTypeOK, NEW f \in MemFlows, NEW m \in Nat, Wants(f, m)
  PROVE  SumFunctionOnSet(held', MemFlows) = SumFunctionOnSet(held, MemFlows) - held[f] + m
<1> DEFINE others == MemFlows \ {f}
           s == SumFunctionOnSet(held, others)
<1>1. held' \in [MemFlows -> Nat] /\ held'[f] = m /\ \A g \in others : held'[g] = held[g]
  BY DEF MemTypeOK, Wants
<1>2. held[f] \in Nat /\ \A g \in MemFlows : held[g] \in Nat /\ held'[g] \in Nat
  BY <1>1 DEF MemTypeOK
<1>3. IsFiniteSet(MemFlows) /\ IsFiniteSet(others)
  BY MemAssumption, FS_RemoveElement
<1>4. SumFunctionOnSet(held, MemFlows) = held[f] + s
  BY <1>2, <1>3, SumRemove
<1>5. SumFunctionOnSet(held', MemFlows) = m + SumFunctionOnSet(held', others)
  BY <1>1, <1>2, <1>3, SumRemove
<1>6. SumFunctionOnSet(held', others) = s
  BY <1>1, <1>2, <1>3, SumSame
<1>7. s \in Nat /\ held[f] \in Nat
  BY <1>2, <1>3, SumType
<1> HIDE DEF s, others
<1> QED BY <1>4, <1>5, <1>6, <1>7

LEMMA WaitingIsFinite == IsFiniteSet(Waiting) /\ Cardinality(Waiting) \in Nat
<1>1. Waiting \in SUBSET MemFlows
  BY DEF Waiting
<1> QED BY <1>1, MemAssumption, FS_Subset, FS_CardinalityType

\* A flow comes to the state s.
TurnsTo(f, s) == memState' = [memState EXCEPT ![f] = s]

\* The count of the waiters moves with the one flow that begins or ends its wait.
LEMMA WaitingMoves ==
  ASSUME MemTypeOK, NEW f \in MemFlows, NEW s, TurnsTo(f, s)
  PROVE  /\ s = "waiting" /\ memState[f] # "waiting" =>
              Cardinality(Waiting') = Cardinality(Waiting) + 1
         /\ s = "waiting" /\ memState[f] = "waiting" => Waiting' = Waiting
         /\ s # "waiting" /\ memState[f] = "waiting" =>
              Cardinality(Waiting') = Cardinality(Waiting) - 1
         /\ s # "waiting" /\ memState[f] # "waiting" => Waiting' = Waiting
         /\ Waiting \ {f} \subseteq Waiting'
         /\ s = "waiting" => f \in Waiting'
         /\ Cardinality(Waiting') \in Nat
<1>0. Cardinality(Waiting') \in Nat
  <2>1. Waiting' \in SUBSET MemFlows
    BY DEF Waiting
  <2> QED BY <2>1, MemAssumption, FS_Subset, FS_CardinalityType
<1>1. CASE s = "waiting" /\ memState[f] # "waiting"
  <2>1. Waiting' = Waiting \cup {f} /\ f \notin Waiting
    BY <1>1 DEF Waiting, TurnsTo, MemTypeOK
  <2> QED BY <1>0, <1>1, <2>1, WaitingIsFinite, FS_AddElement
<1>2. CASE s # "waiting" /\ memState[f] = "waiting"
  <2>1. Waiting' = Waiting \ {f} /\ f \in Waiting
    BY <1>2 DEF Waiting, TurnsTo, MemTypeOK
  <2> QED BY <1>0, <1>2, <2>1, WaitingIsFinite, FS_RemoveElement
<1>3. CASE s = "waiting" <=> memState[f] = "waiting"
  <2>1. Waiting' = Waiting /\ (s = "waiting" => f \in Waiting)
    BY <1>3 DEF Waiting, TurnsTo, MemTypeOK
  <2> QED BY <1>0, <1>3, <2>1
<1> QED BY <1>0, <1>1, <1>2, <1>3

\* What NewClient accepts.
LEMMA ResolveBounds ==
  ASSUME NEW c \in MemConfigs
  PROVE  /\ Resolve(c) \in [send : Int, perFlow : Int, queue : Int, reserve : Int]
         /\ Resolve(c) # Refused =>
              Resolve(c).perFlow <= Resolve(c).send /\ 0 <= Resolve(c).send
<1>1. c \in [send : Int, perFlow : Int, queue : Int, reserve : Int] /\ MemChunk \in Nat \ {0}
  BY MemAssumption
<1> DEFINE l == [send    |-> c.send,
                 perFlow |-> OrDefault(c.perFlow, SendDefault),
                 queue   |-> OrDefault(c.queue, QueueCeiling),
                 reserve |-> OrDefault(c.reserve, 1)]
<1>2. l \in [send : Int, perFlow : Int, queue : Int, reserve : Int]
  BY <1>1 DEF OrDefault, SendDefault, QueueCeiling
<1>3. Refused \in [send : Int, perFlow : Int, queue : Int, reserve : Int]
  BY DEF Refused
<1>4. \/ Resolve(c) = l /\ l.perFlow <= l.send /\ l.send >= MemChunk
      \/ Resolve(c) = Refused
  BY DEF Resolve
<1> HIDE DEF l
<1> QED BY <1>1, <1>2, <1>3, <1>4

LEMMA MemInitInv == MemInit => MemIInv
<1> SUFFICES ASSUME MemInit PROVE MemIInv
  OBVIOUS
<1>1. PICK c \in MemConfigs : limits = Resolve(c)
  BY DEF MemInit
<1>2. MemTypeOK /\ MemLimits
  <2>1. limits \in [send : Int, perFlow : Int, queue : Int, reserve : Int] /\ MemLimits
    BY <1>1, ResolveBounds DEF MemLimits
  <2>2. want \in [MemFlows -> 0..MemChunk] /\ held \in [MemFlows -> Nat]
    BY MemAssumption DEF MemInit
  <2>3. memState \in [MemFlows -> {"idle", "waiting", "left"}]
    BY DEF MemInit
  <2> QED BY <2>1, <2>2, <2>3 DEF MemInit, MemTypeOK
<1>3. SumFunctionOnSet(held, MemFlows) = 0
  <2> DEFINE F == {T \in SUBSET MemFlows : SumFunctionOnSet(held, T) = 0}
  <2>1. {} \in F
    BY SumEmpty
  <2>2. ASSUME NEW T \in SUBSET MemFlows, NEW x \in MemFlows, T \in F, x \notin T
        PROVE  T \cup {x} \in F
    <3>1. IsFiniteSet(T) /\ \A y \in T \cup {x} : held[y] = 0
      BY MemAssumption, FS_Subset DEF MemInit
    <3>2. SumFunctionOnSet(held, T \cup {x}) = SumFunctionOnSet(held, T) + held[x]
      BY <2>2, <3>1, SumAdd
    <3> QED BY <2>2, <3>1, <3>2
  <2> HIDE DEF F
  <2>3. \A T \in SUBSET MemFlows : T \in F
    BY <2>1, <2>2, MemAssumption, SetInduction
  <2> QED BY <2>3 DEF F
<1>4. Waiting = {} /\ Cardinality(Waiting) = 0
  <2>1. Waiting = {}
    BY DEF MemInit, Waiting
  <2> QED BY <2>1, FS_EmptySet
<1>5. MemInv /\ MemAsks
  BY <1>1, <1>3, <1>4, ResolveBounds DEF MemInit, MemInv, MemAsks
<1> QED BY <1>2, <1>5 DEF MemIInv

\* What one flow's step does: its state, its holding, and who sleeps.
LEMMA MemDecidesTypes ==
  ASSUME MemIInv, NEW f \in MemFlows, NEW n \in 1..MemChunk, MemDecides(f, n)
  PROVE  /\ \E s \in {"idle", "waiting", "left"} : TurnsTo(f, s)
         /\ used' \in Nat /\ held' \in [MemFlows -> Nat] /\ asleep' \subseteq MemFlows
         /\ used' = SumFunctionOnSet(held', MemFlows)
         /\ limits # Refused => used' <= limits.send /\ used <= used'
         /\ memState'[f] = "waiting" => /\ n > limits.send - used /\ used' = used
                                        /\ asleep' = asleep \cup {f}
         /\ memState'[f] # "waiting" => asleep' = asleep
<1> n \in Nat /\ limits.send \in Int /\ used \in Nat /\ held[f] \in Nat
  BY MemAssumption DEF MemIInv, MemTypeOK
<1>1. CASE f \in cancelled /\ TurnsTo(f, "left") /\ UNCHANGED <<used, held, asleep>>
  BY <1>1 DEF MemIInv, MemTypeOK, MemInv, TurnsTo
<1>2. CASE /\ n <= limits.send - used /\ used' = used + n /\ Wants(f, held[f] + n)
           /\ TurnsTo(f, "idle") /\ UNCHANGED asleep
  <2>1. SumFunctionOnSet(held', MemFlows) = SumFunctionOnSet(held, MemFlows) - held[f] + (held[f] + n)
    BY <1>2, HeldMoves DEF MemIInv
  <2>2. used' = SumFunctionOnSet(held', MemFlows)
    BY <1>2, <2>1 DEF MemIInv, MemInv
  <2>3. held' \in [MemFlows -> Nat]
    BY <1>2 DEF MemIInv, MemTypeOK, Wants
  <2>4. memState'[f] = "idle" /\ asleep' = asleep /\ asleep \subseteq MemFlows
    BY <1>2 DEF MemIInv, MemTypeOK, TurnsTo
  <2>5. used' \in Nat /\ used' <= limits.send /\ used <= used'
    BY <1>2
  <2> QED BY <1>2, <2>2, <2>3, <2>4, <2>5
<1>3. CASE /\ n > limits.send - used /\ TurnsTo(f, "waiting")
           /\ asleep' = asleep \cup {f} /\ UNCHANGED <<used, held>>
  BY <1>3 DEF MemIInv, MemTypeOK, MemInv, TurnsTo
<1> QED BY <1>1, <1>2, <1>3 DEF MemDecides, TurnsTo, Wants

LEMMA MemStep == MemIInv /\ [MemNext]_memVars => MemIInv'
<1> SUFFICES ASSUME MemIInv, [MemNext]_memVars PROVE MemIInv'
  OBVIOUS
<1> USE DEF MemIInv
<1>t. /\ limits.send \in Int /\ limits.perFlow \in Int /\ used \in Nat /\ waiters \in Nat /\ MemChunk \in Nat
      /\ \A f \in MemFlows : want[f] \in 0..MemChunk /\ held[f] \in Nat
  BY MemAssumption DEF MemTypeOK
<1>1. ASSUME NEW f \in MemFlows, MemAcquire(f) PROVE MemIInv'
  <2>1. PICK n \in 1..MemChunk :
          /\ held[f] + n <= limits.perFlow
          /\ want' = [want EXCEPT ![f] = n]
          /\ IF n > limits.send
               THEN /\ tooLarge' = TRUE /\ memState' = [memState EXCEPT ![f] = "left"]
                    /\ UNCHANGED <<used, held, asleep>>
               ELSE MemDecides(f, n) /\ UNCHANGED tooLarge
    BY <1>1 DEF MemAcquire
  <2>2. /\ limits # Refused /\ memState[f] = "idle" /\ UNCHANGED <<limits, cancelled>>
        /\ waiters' = IF memState'[f] = "waiting" THEN waiters + 1 ELSE waiters
    BY <1>1 DEF MemAcquire
  <2>3. n <= limits.send
    BY <1>t, <2>1, <2>2 DEF MemLimits
  <2>4. MemDecides(f, n) /\ UNCHANGED tooLarge
    BY <1>t, <2>1, <2>3
  <2>5. PICK s \in {"idle", "waiting", "left"} : TurnsTo(f, s)
    BY <2>4, MemDecidesTypes
  <2>6. memState'[f] = s
    BY <2>5 DEF TurnsTo, MemTypeOK
  <2>7. waiters' = Cardinality(Waiting') /\ waiters' \in Nat
    BY <1>t, <2>2, <2>5, <2>6, WaitingMoves, WaitingIsFinite DEF MemInv
  <2>8. MemTypeOK'
    <3>1. memState' \in [MemFlows -> {"idle", "waiting", "left"}] /\ want' \in [MemFlows -> 0..MemChunk]
      BY <2>1, <2>5 DEF MemTypeOK, TurnsTo
    <3>2. used' \in Nat /\ held' \in [MemFlows -> Nat] /\ asleep' \subseteq MemFlows
      BY <2>4, MemDecidesTypes
    <3> QED BY <2>2, <2>4, <2>7, <3>1, <3>2 DEF MemTypeOK
  <2>9. asleep' \subseteq Waiting'
    <3>1. asleep \subseteq Waiting /\ f \notin Waiting
      BY <2>2 DEF MemInv, Waiting
    <3>2. Waiting \ {f} \subseteq Waiting' /\ (s = "waiting" => f \in Waiting')
      BY <2>5, WaitingMoves
    <3>3. asleep' = IF s = "waiting" THEN asleep \cup {f} ELSE asleep
      BY <2>4, <2>6, MemDecidesTypes
    <3> QED BY <3>1, <3>2, <3>3
  <2>10. \A g \in asleep' : want'[g] > limits.send - used'
    <3> SUFFICES ASSUME NEW g \in asleep' PROVE want'[g] > limits.send - used'
      OBVIOUS
    <3>1. g \in MemFlows /\ want'[g] = IF g = f THEN n ELSE want[g]
      BY <2>1, <2>8 DEF MemTypeOK
    <3>2. f \notin asleep
      BY <2>2 DEF MemInv, Waiting
    <3>3. CASE g = f
      BY <2>4, <3>1, <3>2, <3>3, MemDecidesTypes
    <3>4. CASE g # f
      <4>1. g \in asleep /\ want[g] > limits.send - used
        BY <2>2, <2>4, <3>4, MemDecidesTypes DEF MemInv
      <4>2. used <= used' /\ used' \in Nat
        BY <2>2, <2>4, MemDecidesTypes
      <4> QED BY <1>t, <3>1, <3>4, <4>1, <4>2
    <3> QED BY <3>3, <3>4
  <2>11. used' = SumFunctionOnSet(held', MemFlows) /\ used' <= limits.send
    BY <2>2, <2>4, MemDecidesTypes
  <2>12. MemAsks'
    <3>1. \A g \in MemFlows : /\ want'[g] = IF g = f THEN n ELSE want[g]
                              /\ memState'[g] = IF g = f THEN s ELSE memState[g]
      BY <2>1, <2>5 DEF TurnsTo, MemTypeOK
    <3>2. n # 0
      BY <1>t
    <3> QED BY <3>1, <3>2 DEF MemAsks
  <2> QED BY <2>2, <2>4, <2>7, <2>8, <2>9, <2>10, <2>11, <2>12 DEF MemInv, MemLimits
<1>2. ASSUME NEW f \in MemFlows, MemWakes(f) PROVE MemIInv'
  <2>1. /\ memState[f] = "waiting" /\ f \notin asleep /\ UNCHANGED <<limits, want, cancelled, tooLarge>>
        /\ waiters' = IF memState'[f] = "waiting" THEN waiters ELSE waiters - 1
        /\ MemDecides(f, want[f])
    BY <1>2 DEF MemWakes
  <2> DEFINE n == want[f]
  <2>2. n \in 1..MemChunk
    BY <1>t, <2>1 DEF MemAsks
  <2> HIDE DEF n
  <2>4. MemDecides(f, n)
    BY <2>1 DEF n
  <2>5. PICK s \in {"idle", "waiting", "left"} : TurnsTo(f, s)
    BY <2>2, <2>4, MemDecidesTypes
  <2>6. memState'[f] = s
    BY <2>5 DEF TurnsTo, MemTypeOK
  <2>7. waiters' = Cardinality(Waiting') /\ waiters' \in Nat
    BY <1>t, <2>1, <2>5, <2>6, WaitingMoves DEF MemInv
  <2>8. MemTypeOK'
    <3>1. memState' \in [MemFlows -> {"idle", "waiting", "left"}]
      BY <2>5 DEF MemTypeOK, TurnsTo
    <3>2. used' \in Nat /\ held' \in [MemFlows -> Nat] /\ asleep' \subseteq MemFlows
      BY <2>2, <2>4, MemDecidesTypes
    <3> QED BY <2>1, <2>7, <3>1, <3>2 DEF MemTypeOK
  <2>9. asleep' \subseteq Waiting'
    <3>1. asleep \subseteq Waiting \ {f}
      BY <2>1 DEF MemInv
    <3>2. Waiting \ {f} \subseteq Waiting' /\ (s = "waiting" => f \in Waiting')
      BY <2>5, WaitingMoves
    <3>3. asleep' = IF s = "waiting" THEN asleep \cup {f} ELSE asleep
      BY <2>2, <2>4, <2>6, MemDecidesTypes
    <3> QED BY <3>1, <3>2, <3>3
  <2>10. ASSUME limits # Refused, NEW g \in asleep' PROVE want'[g] > limits.send - used'
    <3>1. g \in MemFlows /\ want'[g] = want[g]
      BY <2>1, <2>8, <2>10 DEF MemTypeOK
    <3>3. CASE g = f
      BY <2>1, <2>2, <2>4, <3>1, <3>3, MemDecidesTypes DEF n
    <3>4. CASE g # f
      <4>1. g \in asleep /\ want[g] > limits.send - used
        BY <2>2, <2>4, <2>10, <3>4, MemDecidesTypes DEF MemInv
      <4>2. used <= used' /\ used' \in Nat
        BY <2>2, <2>4, <2>10, MemDecidesTypes
      <4> QED BY <1>t, <3>1, <3>4, <4>1, <4>2
    <3> QED BY <3>3, <3>4
  <2>11. used' = SumFunctionOnSet(held', MemFlows) /\ (limits # Refused => used' <= limits.send)
    BY <2>2, <2>4, MemDecidesTypes
  <2>12. MemAsks'
    <3>1. ASSUME NEW g \in MemFlows PROVE memState'[g] = "waiting" => memState[g] = "waiting"
      BY <2>1, <2>5 DEF TurnsTo, MemTypeOK
    <3> QED BY <2>1, <3>1 DEF MemAsks
  <2> QED BY <2>1, <2>7, <2>8, <2>9, <2>10, <2>11, <2>12 DEF MemInv, MemLimits
<1>3. ASSUME NEW f \in MemFlows, MemLeaves(f) PROVE MemIInv'
  <2>1. /\ memState[f] = "waiting" /\ TurnsTo(f, "left") /\ asleep' = asleep \ {f}
        /\ waiters' = waiters - 1 /\ UNCHANGED <<limits, used, want, held, cancelled, tooLarge>>
    BY <1>3 DEF MemLeaves, TurnsTo
  <2>2. waiters' = Cardinality(Waiting') /\ waiters' \in Nat
    BY <1>t, <2>1, WaitingMoves DEF MemInv
  <2>3. MemTypeOK' /\ MemAsks'
    <3>1. memState' \in [MemFlows -> {"idle", "waiting", "left"}]
          /\ \A g \in MemFlows : memState'[g] = "waiting" => memState[g] = "waiting"
      BY <2>1 DEF MemTypeOK, TurnsTo
    <3> QED BY <2>1, <2>2, <3>1 DEF MemTypeOK, MemAsks
  <2>4. asleep' \subseteq Waiting'
    <3>1. Waiting \ {f} \subseteq Waiting'
      BY <2>1, WaitingMoves
    <3> QED BY <2>1, <3>1 DEF MemInv
  <2> QED BY <2>1, <2>2, <2>3, <2>4 DEF MemInv, MemLimits
<1>4. ASSUME NEW f \in MemFlows, MemTryAcquire(f) PROVE MemIInv'
  <2>1. PICK n \in 1..MemChunk : n <= limits.send - used /\ used' = used + n /\ Wants(f, held[f] + n)
    BY <1>4 DEF MemTryAcquire, Wants
  <2>2. UNCHANGED <<limits, waiters, memState, want, asleep, cancelled, tooLarge>>
    BY <1>4 DEF MemTryAcquire
  <2>3. n \in Nat /\ held[f] + n \in Nat
    BY <1>t
  <2>4. SumFunctionOnSet(held', MemFlows) = SumFunctionOnSet(held, MemFlows) - held[f] + (held[f] + n)
    BY <2>1, <2>3, HeldMoves
  <2>5. used' = SumFunctionOnSet(held', MemFlows)
    BY <1>t, <2>1, <2>3, <2>4 DEF MemInv
  <2>6. held' \in [MemFlows -> Nat]
    BY <2>1, <2>3 DEF MemTypeOK, Wants
  <2>7. MemTypeOK' /\ MemAsks' /\ MemLimits'
    BY <1>t, <2>1, <2>2, <2>3, <2>6 DEF MemTypeOK, MemAsks, MemLimits
  <2>8. asleep' \subseteq Waiting' /\ waiters' = Cardinality(Waiting') /\ ~tooLarge'
    BY <2>2 DEF MemInv, Waiting
  <2>9. ASSUME limits # Refused, NEW g \in asleep PROVE want[g] > limits.send - used'
    <3>1. want[g] > limits.send - used /\ want[g] \in Int
      BY <1>t, <2>9 DEF MemInv, MemTypeOK
    <3> QED BY <1>t, <2>1, <2>3, <3>1
  <2>10. used' <= limits.send
    BY <1>t, <2>1, <2>3
  <2> QED BY <2>2, <2>5, <2>7, <2>8, <2>9, <2>10 DEF MemInv
<1>5. ASSUME NEW f \in MemFlows, MemRelease(f) PROVE MemIInv'
  <2>1. PICK n \in 1..held[f] : used' = used - n /\ Wants(f, held[f] - n)
    BY <1>5 DEF MemRelease, Wants
  <2>2. UNCHANGED <<limits, waiters, memState, want, cancelled, tooLarge>> /\ asleep' = {}
    BY <1>5 DEF MemRelease, MemWoken
  <2>3. n \in Nat /\ held[f] - n \in Nat
    BY <1>t
  <2>4. SumFunctionOnSet(held', MemFlows) = SumFunctionOnSet(held, MemFlows) - held[f] + (held[f] - n)
    BY <2>1, <2>3, HeldMoves
  <2>5. used' = SumFunctionOnSet(held', MemFlows)
    BY <1>t, <2>1, <2>3, <2>4 DEF MemInv
  <2>6. held' \in [MemFlows -> Nat]
    BY <2>1, <2>3 DEF MemTypeOK, Wants
  <2>7. used' \in Nat
    BY <2>5, <2>6, MemAssumption, SumType
  <2>8. MemTypeOK' /\ MemAsks' /\ MemLimits'
    BY <2>2, <2>6, <2>7 DEF MemTypeOK, MemAsks, MemLimits
  <2>9. asleep' \subseteq Waiting' /\ waiters' = Cardinality(Waiting') /\ ~tooLarge'
    BY <2>2 DEF MemInv, Waiting
  <2>10. limits # Refused => used' <= limits.send
    BY <1>t, <2>1, <2>3 DEF MemInv
  <2> QED BY <2>2, <2>5, <2>8, <2>9, <2>10 DEF MemInv
<1>6. ASSUME NEW f \in MemFlows, MemCancel(f) PROVE MemIInv'
  BY <1>6 DEF MemCancel, MemTypeOK, MemInv, MemAsks, MemLimits, Waiting
<1>7. CASE UNCHANGED memVars
  BY <1>7 DEF memVars, MemTypeOK, MemInv, MemAsks, MemLimits, Waiting
<1> QED BY <1>1, <1>2, <1>3, <1>4, <1>5, <1>6, <1>7 DEF MemNext

\* The budget is what its flows hold, and whoever sleeps asks for more than is free,
\* for any number of flows and any configuration.
THEOREM NobodySleepsBesideRoom == MemSpec => []MemInv
<1>1. MemIInv => MemInv
  BY DEF MemIInv
<1> QED BY <1>1, MemInitInv, MemStep, PTL DEF MemSpec

-----------------------------------------------------------------------------
(* RateBudget: no interleaving of refills and waits overspends *)

\* What a rate earns by l and then until c, it earns by c.
LEMMA Earns ==
  ASSUME NEW r \in Nat, NEW l \in Nat, NEW c \in Nat, l <= c
  PROVE  /\ r * l \in Nat /\ r * c \in Nat /\ r * (c - l) \in Nat
         /\ r * l + r * (c - l) = r * c /\ r * l <= r * c
<1>1. /\ r * l \in Nat /\ r * c \in Nat /\ r * (c - l) \in Nat
  OBVIOUS
<1>2. r * l + r * (c - l) = r * c
  OBVIOUS
<1> QED BY <1>1, <1>2

LEMMA EarnsTogether ==
  ASSUME NEW r \in Nat, NEW q \in Nat, NEW c \in Nat
  PROVE  (r + q) * c = r * c + q * c
OBVIOUS

-----------------------------------------------------------------------------
\* The plan in force: a reserve below the total, and a chunk that a full bucket admits.
PlanOK ==
  /\ plan.total \in Nat /\ plan.reserve \in Nat /\ plan.chunk \in Int
  /\ plan.reserve <= plan.total
  /\ plan.total > 0 => plan.reserve < plan.total /\ plan.chunk <= BulkCap(plan)

RateTypeOK ==
  /\ PlanOK
  /\ clock \in Nat /\ last \in Nat /\ total \in Nat /\ reserve \in Nat
  /\ ask \in [RateSenders -> [n : Nat, fast : BOOLEAN, at : Int, refused : BOOLEAN]]
  /\ granted \in [bulk : Nat, fast : Nat]

\* What was granted and what is left was earned until the last refill; only an endpoint
\* with a budget asks for anything.
Earned ==
  /\ granted.bulk + total <= BulkCap(plan) + BulkRate(plan) * last
  /\ granted.bulk + granted.fast + total + reserve
       <= BulkCap(plan) + ReserveCap(plan) + plan.total * last
  /\ \A s \in RateSenders : ask[s].n > 0 => plan.total > 0

RateIInv == RateTypeOK /\ Earned /\ RateInv

\* The buckets of a plan hold something wherever there is a rate to fill them.
LEMMA Buckets ==
  ASSUME NEW p, p.total \in Nat, p.reserve \in Nat, p.reserve <= p.total
  PROVE  /\ BulkRate(p) \in Nat /\ BulkCap(p) \in Nat /\ ReserveCap(p) \in Nat
         /\ p.reserve < p.total => BulkRate(p) > 0 /\ BulkCap(p) > 0
<1>1. BulkRate(p) \in Nat /\ (p.reserve < p.total => BulkRate(p) > 0)
  BY DEF BulkRate
<1>2. Max({BulkFloor, BulkRate(p)}) \in Nat \ {0} /\ Max({ReserveFloor, p.reserve}) \in Nat
  <2>1. BulkFloor \in Nat \ {0} /\ ReserveFloor \in Nat \ {0}
    BY RateAssumption
  <2> QED BY <1>1, <2>1, MaxOfTwo
<1> QED BY <1>1, <1>2 DEF BulkCap, ReserveCap

LEMMA AcceptedIsOK ==
  ASSUME NEW c \in RateConfigs
  PROVE  LET p == Accepted(c) IN
         /\ p.total \in Nat /\ p.reserve \in Nat /\ p.chunk \in Int /\ p.reserve <= p.total
         /\ p.total > 0 => p.reserve < p.total /\ p.chunk <= BulkCap(p)
<1> DEFINE chunk == IF c.chunk \in 1..RateMaxChunk THEN c.chunk ELSE RateDefault
           p == [c EXCEPT !.chunk = chunk]
           q == [p EXCEPT !.chunk = ChunkFor(p)]
<1>0. c \in [total : Nat, reserve : Nat, chunk : Int] /\ RateDefault \in Int
  BY RateAssumption
<1>1. chunk \in Int
  BY <1>0
<1> DEFINE turned == (c.total = 0 /\ c.reserve # 0) \/ (c.total # 0 /\ c.reserve >= c.total)
<1>a. Accepted(c) = IF turned THEN Turned ELSE q
  BY Zenon DEF Accepted
<1>2. CASE turned
  <2>1. Accepted(c) = Turned
    BY <1>a, <1>2
  <2> QED BY <2>1 DEF Turned
<1>3. CASE ~turned
  <2>1. Accepted(c) = q
    BY <1>a, <1>3
  <2>2. /\ p \in [total : Nat, reserve : Nat, chunk : Int] /\ p.total = c.total /\ p.reserve = c.reserve
    BY <1>0, <1>1
  <2>3. p.reserve <= p.total /\ (p.total > 0 => p.reserve < p.total)
    BY <1>0, <1>3, <2>2
  <2> HIDE DEF p
  <2>4. BulkCap(p) \in Nat
    BY <2>2, <2>3, Buckets
  <2>5. ChunkFor(p) \in Int /\ (p.total > 0 => ChunkFor(p) <= BulkCap(p))
    BY <2>2, <2>4, MinOfTwo DEF ChunkFor
  <2>6. /\ q.total = p.total /\ q.reserve = p.reserve /\ q.chunk = ChunkFor(p)
    BY <2>2
  <2>7. BulkCap(q) = BulkCap(p)
    BY <2>6 DEF BulkCap, BulkRate
  <2> HIDE DEF q
  <2> QED BY <2>1, <2>2, <2>3, <2>5, <2>6, <2>7
<1> QED BY <1>2, <1>3

LEMMA RateInitInv == RateInit => RateIInv
<1> SUFFICES ASSUME RateInit PROVE RateIInv
  OBVIOUS
<1>1. PICK c \in RateConfigs : plan = Accepted(c)
  BY DEF RateInit
<1>2. PlanOK
  BY <1>1, AcceptedIsOK DEF PlanOK
<1>3. BulkRate(plan) \in Nat /\ BulkCap(plan) \in Nat /\ ReserveCap(plan) \in Nat
  BY <1>2, Buckets DEF PlanOK
<1>4. RateTypeOK
  BY <1>2, <1>3 DEF RateInit, RateTypeOK, Silent
<1>5. BulkRate(plan) * 0 = 0 /\ plan.total * 0 = 0
  BY <1>2, <1>3 DEF PlanOK
<1>6. /\ granted.bulk = 0 /\ granted.fast = 0 /\ clock = 0 /\ last = 0
      /\ total = BulkCap(plan) /\ reserve = ReserveCap(plan)
      /\ \A s \in RateSenders : ask[s].n = 0 /\ ~ask[s].refused
  BY DEF RateInit, Silent
<1>7. Earned
  BY <1>3, <1>5, <1>6 DEF Earned
<1>8. RateInv
  BY <1>3, <1>5, <1>6 DEF RateInv
<1> QED BY <1>4, <1>7, <1>8 DEF RateIInv

\* A refill now: what the buckets hold is within their sizes and what was earned.
LEMMA RefillEarns ==
  ASSUME RateIInv
  PROVE  /\ Refilled \in 0..BulkCap(plan) /\ RefilledReserve \in 0..ReserveCap(plan)
         /\ granted.bulk + Refilled <= BulkCap(plan) + BulkRate(plan) * clock
         /\ granted.bulk + granted.fast + Refilled + RefilledReserve
              <= BulkCap(plan) + ReserveCap(plan) + plan.total * clock
<1> DEFINE bc == BulkCap(plan)
           rc == ReserveCap(plan)
           br == BulkRate(plan)
           bl == br * last
           bd == br * (clock - last)
           b == br * clock
           ql == plan.reserve * last
           qd == plan.reserve * (clock - last)
           q == plan.reserve * clock
           tl == plan.total * last
           t == plan.total * clock
<1>1. bc \in Nat /\ rc \in Nat /\ br \in Nat /\ plan.reserve \in Nat /\ plan.total \in Nat
  BY Buckets DEF RateIInv, RateTypeOK, PlanOK
<1>2. /\ clock \in Nat /\ last \in Nat /\ last <= clock /\ total \in 0..bc /\ reserve \in 0..rc
      /\ granted.bulk \in Nat /\ granted.fast \in Nat
  BY DEF RateIInv, RateTypeOK, RateInv
<1>3. plan.total = br + plan.reserve
  BY <1>1 DEF BulkRate, RateIInv, RateTypeOK, PlanOK
<1>4. bl \in Nat /\ bd \in Nat /\ b \in Nat /\ bl + bd = b
  <2> HIDE DEF br
  <2> QED BY <1>1, <1>2, Earns
<1>5. ql \in Nat /\ qd \in Nat /\ q \in Nat /\ ql + qd = q
  BY <1>1, <1>2, Earns
<1>6. tl = bl + ql /\ t = b + q
  <2> HIDE DEF br
  <2> QED BY <1>1, <1>2, <1>3, EarnsTogether
<1>7. granted.bulk + total <= bc + bl /\ granted.bulk + granted.fast + total + reserve <= bc + rc + tl
  BY DEF RateIInv, Earned
<1>8. Refilled = IF bc <= total + bd THEN bc ELSE total + bd
  <2> HIDE DEF br
  <2>1. total + bd \in Int
    BY <1>2, <1>4
  <2>2. Refilled = Min({bc, total + bd})
    BY DEF Refilled, br
  <2> HIDE DEF bc, bd
  <2> QED BY <1>1, <2>1, <2>2, MinOfTwo
<1>9. RefilledReserve = IF rc <= reserve + qd THEN rc ELSE reserve + qd
  <2>1. reserve + qd \in Int
    BY <1>2, <1>5
  <2>2. RefilledReserve = Min({rc, reserve + qd})
    BY DEF RefilledReserve
  <2> HIDE DEF rc, qd
  <2> QED BY <1>1, <2>1, <2>2, MinOfTwo
<1> HIDE DEF bc, rc, br, bl, bd, b, ql, qd, q, tl, t
<1>10. /\ Refilled \in 0..bc /\ RefilledReserve \in 0..rc
  BY <1>1, <1>2, <1>4, <1>5, <1>8, <1>9
<1>11. granted.bulk + Refilled <= bc + b
  BY <1>1, <1>2, <1>4, <1>7, <1>8
<1>12. Refilled <= total + bd /\ RefilledReserve <= reserve + qd
  BY <1>1, <1>2, <1>4, <1>5, <1>8, <1>9
<1>13. granted.bulk + granted.fast + Refilled + RefilledReserve <= bc + rc + t
  BY <1>1, <1>2, <1>4, <1>5, <1>6, <1>7, <1>10, <1>12
<1> QED BY <1>10, <1>11, <1>13 DEF bc, rc, br, b, t

\* What was granted is within what is earned at any time since the last refill.
LEMMA EarnedByThen ==
  ASSUME RateTypeOK, Earned, NEW c \in Nat, last <= c
  PROVE  /\ granted.bulk <= BulkCap(plan) + BulkRate(plan) * c
         /\ granted.bulk + granted.fast <= BulkCap(plan) + ReserveCap(plan) + plan.total * c
<1> DEFINE bc == BulkCap(plan)
           rc == ReserveCap(plan)
           br == BulkRate(plan)
           bl == br * last
           b == br * c
           tl == plan.total * last
           t == plan.total * c
<1>1. bc \in Nat /\ rc \in Nat /\ br \in Nat /\ plan.total \in Nat
  BY Buckets DEF RateTypeOK, PlanOK
<1>2. /\ last \in Nat /\ total \in Nat /\ reserve \in Nat
      /\ granted.bulk \in Nat /\ granted.fast \in Nat
  BY DEF RateTypeOK
<1>3. bl \in Nat /\ b \in Nat /\ bl <= b
  <2> HIDE DEF br
  <2> QED BY <1>1, <1>2, Earns
<1>4. tl \in Nat /\ t \in Nat /\ tl <= t
  BY <1>1, <1>2, Earns
<1>5. granted.bulk + total <= bc + bl /\ granted.bulk + granted.fast + total + reserve <= bc + rc + tl
  BY DEF Earned
<1> HIDE DEF bc, rc, br, bl, b, tl, t
<1>6. granted.bulk <= bc + b /\ granted.bulk + granted.fast <= bc + rc + t
  BY <1>1, <1>2, <1>3, <1>4, <1>5
<1> QED BY <1>6 DEF bc, rc, br, b, t

\* A request looks again after a wait that is a number.
LEMMA WaitIsANumber ==
  ASSUME NEW a \in Int, NEW b \in Nat \ {0}
  PROVE  CeilDiv(a, b) \in Int
BY DEF CeilDiv

\* One round of Wait: granted from the refilled buckets, or put off.
LEMMA TriesStep ==
  ASSUME RateIInv, NEW s \in RateSenders, RateTries(s)
  PROVE  RateIInv'
<1> DEFINE a == ask[s]
           R == Refilled
           V == RefilledReserve
           k == FromReserve(a)
<1>1. a \in [n : Nat, fast : BOOLEAN, at : Int, refused : BOOLEAN] /\ a.n > 0
  BY DEF RateTries, RateIInv, RateTypeOK
<1>2. /\ R \in 0..BulkCap(plan) /\ V \in 0..ReserveCap(plan)
      /\ granted.bulk + R <= BulkCap(plan) + BulkRate(plan) * clock
      /\ granted.bulk + granted.fast + R + V
           <= BulkCap(plan) + ReserveCap(plan) + plan.total * clock
  BY RefillEarns
<1>3. last' = clock /\ UNCHANGED <<plan, clock>>
  BY DEF RateTries
<1>4. /\ plan.total > 0 /\ PlanOK /\ clock \in Nat /\ granted \in [bulk : Nat, fast : Nat]
      /\ BulkCap(plan) \in Nat /\ ReserveCap(plan) \in Nat /\ BulkRate(plan) \in Nat
      /\ BulkRate(plan) > 0 /\ plan.reserve \in Nat
  BY <1>1, Buckets DEF RateIInv, RateTypeOK, Earned, PlanOK
<1>5. BulkRate(plan) * clock \in Nat /\ plan.total * clock \in Nat
  <2> DEFINE br == BulkRate(plan)
  <2>1. br \in Nat /\ plan.total \in Nat
    BY <1>4 DEF PlanOK
  <2> HIDE DEF br
  <2>2. br * clock \in Nat /\ plan.total * clock \in Nat
    BY <1>4, <2>1
  <2> QED BY <2>2 DEF br
<1> DEFINE b == BulkRate(plan) * clock
           t == plan.total * clock
           bc == BulkCap(plan)
           rc == ReserveCap(plan)
<1>6. CASE Within(a) >= a.n
  <2>1. /\ reserve' = V - k /\ total' = R - (a.n - k)
        /\ ask' = [ask EXCEPT ![s] = Silent]
        /\ granted' = IF a.fast THEN [granted EXCEPT !.fast = @ + a.n]
                                ELSE [granted EXCEPT !.bulk = @ + a.n]
    BY <1>6 DEF RateTries
  <2>2. k = IF a.fast THEN (IF V <= a.n THEN V ELSE a.n) ELSE 0
    <3>1. V \in Int /\ a.n \in Int
      BY <1>1, <1>2, <1>4
    <3>2. k = IF a.fast THEN Min({V, a.n}) ELSE 0
      BY DEF FromReserve
    <3> HIDE DEF V, k
    <3> QED BY <3>1, <3>2, MinOfTwo
  <2>3. a.n <= IF a.fast THEN R + V ELSE R
    <3>1. Within(a) = R + IF a.fast THEN V ELSE 0
      BY DEF Within
    <3> HIDE DEF R, V
    <3> QED BY <1>1, <1>2, <1>4, <1>6, <3>1
  <2>4. /\ granted'.bulk = IF a.fast THEN granted.bulk ELSE granted.bulk + a.n
        /\ granted'.fast = IF a.fast THEN granted.fast + a.n ELSE granted.fast
        /\ granted' \in [bulk : Nat, fast : Nat]
    <3>1. a.fast \in BOOLEAN /\ a.n \in Nat
      BY <1>1
    <3> HIDE DEF a
    <3> QED BY <1>4, <2>1, <3>1
  <2> HIDE DEF R, V, k, b, t, bc, rc
  <2>5. /\ total' \in 0..bc /\ reserve' \in 0..rc
        /\ granted'.bulk + total' <= bc + b
        /\ granted'.bulk + granted'.fast + total' + reserve' <= bc + rc + t
    <3>1. /\ a.n \in Nat /\ a.fast \in BOOLEAN /\ bc \in Nat /\ rc \in Nat /\ b \in Nat /\ t \in Nat
          /\ granted.bulk \in Nat /\ granted.fast \in Nat
      BY <1>1, <1>4, <1>5 DEF b, t, bc, rc
    <3>2. /\ R \in 0..bc /\ V \in 0..rc
          /\ granted.bulk + R <= bc + b
          /\ granted.bulk + granted.fast + R + V <= bc + rc + t
      BY <1>2 DEF b, t, bc, rc
    <3> HIDE DEF a
    <3>3. CASE a.fast
      BY <2>1, <2>2, <2>3, <2>4, <3>1, <3>2, <3>3
    <3>4. CASE ~a.fast
      BY <2>1, <2>2, <2>3, <2>4, <3>1, <3>2, <3>4
    <3> QED BY <3>3, <3>4
  <2>6. /\ ask' \in [RateSenders -> [n : Nat, fast : BOOLEAN, at : Int, refused : BOOLEAN]]
        /\ \A r \in RateSenders : ~ask'[r].refused
    BY <2>1 DEF RateIInv, RateTypeOK, RateInv, Silent
  <2>7. RateTypeOK'
    <3>1. total' \in Nat /\ reserve' \in Nat
      BY <1>4, <2>5 DEF bc, rc
    <3> QED BY <1>3, <1>4, <2>4, <2>6, <3>1 DEF RateTypeOK, PlanOK, BulkCap, BulkRate
  <2>8. Earned'
    <3>1. /\ BulkCap(plan)' = bc /\ ReserveCap(plan)' = rc /\ (BulkRate(plan) * last)' = b
          /\ (plan.total * last)' = t
      BY <1>3 DEF BulkCap, ReserveCap, BulkRate, b, t, bc, rc
    <3> QED BY <1>3, <1>4, <2>5, <3>1 DEF Earned
  <2>9. last' <= clock' /\ total' \in 0..BulkCap(plan)' /\ reserve' \in 0..ReserveCap(plan)'
    BY <1>3, <1>4, <2>5 DEF BulkCap, ReserveCap, BulkRate, bc, rc
  <2>10. /\ (granted.bulk)' <= (BulkCap(plan) + BulkRate(plan) * clock)'
         /\ (granted.bulk + granted.fast)'
              <= (BulkCap(plan) + ReserveCap(plan) + plan.total * clock)'
    <3>1. /\ BulkCap(plan)' = bc /\ ReserveCap(plan)' = rc /\ (BulkRate(plan) * clock)' = b
          /\ (plan.total * clock)' = t
      BY <1>3 DEF BulkCap, ReserveCap, BulkRate, b, t, bc, rc
    <3>2. bc \in Nat /\ rc \in Nat /\ b \in Nat /\ t \in Nat
      BY <1>4, <1>5 DEF bc, rc, b, t
    <3> QED BY <2>4, <2>5, <3>1, <3>2
  <2> QED BY <2>6, <2>7, <2>8, <2>9, <2>10 DEF RateIInv, RateInv
<1>7. CASE Within(a) < a.n
  <2>1. /\ reserve' = V /\ total' = R /\ UNCHANGED granted
        /\ ask' = [ask EXCEPT ![s].at = clock + CeilDiv(a.n - Within(a), ComesAt(a))]
    <3>1. Within(a) \in Int /\ a.n \in Int
      <4>1. Within(a) = R + IF a.fast THEN V ELSE 0
        BY DEF Within
      <4>2. R \in Nat /\ V \in Nat /\ a.n \in Int
        BY <1>1, <1>2, <1>4
      <4> HIDE DEF R, V, a
      <4> QED BY <4>1, <4>2
    <3>2. ~(Within(a) >= a.n)
      BY <1>7, <3>1
    <3> QED BY <3>2 DEF RateTries
  <2>2. /\ ask' \in [RateSenders -> [n : Nat, fast : BOOLEAN, at : Int, refused : BOOLEAN]]
        /\ \A r \in RateSenders : ask'[r].refused = ask[r].refused /\ ask'[r].n = ask[r].n
    <3>1. ComesAt(a) \in Nat \ {0}
      BY <1>4 DEF ComesAt
    <3>2. a.n - Within(a) \in Int
      <4>1. Within(a) = R + IF a.fast THEN V ELSE 0
        BY DEF Within
      <4>2. R \in Nat /\ V \in Nat /\ a.n \in Int
        BY <1>1, <1>2, <1>4
      <4> HIDE DEF R, V, a
      <4> QED BY <4>1, <4>2
    <3>3. clock + CeilDiv(a.n - Within(a), ComesAt(a)) \in Int
      BY <1>4, <3>1, <3>2, WaitIsANumber
    <3> DEFINE at == clock + CeilDiv(a.n - Within(a), ComesAt(a))
    <3>4. ask' = [ask EXCEPT ![s].at = at] /\ at \in Int
      BY <2>1, <3>3
    <3>5. ask \in [RateSenders -> [n : Nat, fast : BOOLEAN, at : Int, refused : BOOLEAN]]
      BY DEF RateIInv, RateTypeOK
    <3> HIDE DEF at
    <3> QED BY <3>4, <3>5
  <2> HIDE DEF R, V
  <2>3. total' \in Nat /\ reserve' \in Nat
    BY <1>2, <1>4, <2>1
  <2>4. RateTypeOK'
    BY <1>3, <1>4, <2>1, <2>2, <2>3 DEF RateTypeOK, PlanOK, BulkCap, BulkRate
  <2>5. /\ BulkCap(plan)' = bc /\ ReserveCap(plan)' = rc /\ (BulkRate(plan) * last)' = b
        /\ (plan.total * last)' = t /\ (BulkRate(plan) * clock)' = b /\ (plan.total * clock)' = t
    BY <1>3 DEF BulkCap, ReserveCap, BulkRate
  <2>6. Earned'
    <3>1. \A r \in RateSenders : (ask[r].n)' > 0 => (plan.total)' > 0
      BY <1>3, <1>4, <2>2 DEF RateIInv, Earned
    <3>2. /\ (granted.bulk)' + total' <= bc + b
          /\ (granted.bulk)' + (granted.fast)' + total' + reserve' <= bc + rc + t
      BY <1>2, <2>1
    <3> HIDE DEF b, t, bc, rc
    <3> QED BY <2>5, <3>1, <3>2 DEF Earned
  <2>7. RateInv'
    <3>1. /\ total' \in 0..bc /\ reserve' \in 0..rc
          /\ \A r \in RateSenders : ~ask'[r].refused
      BY <1>2, <2>1, <2>2 DEF RateIInv, RateInv
    <3>2. last' <= clock'
      BY <1>3, <1>4
    <3>3. granted'.bulk <= bc + b /\ granted'.bulk + granted'.fast <= bc + rc + t
      <4>1. /\ bc \in Nat /\ rc \in Nat /\ b \in Nat /\ t \in Nat /\ R \in Nat /\ V \in Nat
            /\ granted.bulk \in Nat /\ granted.fast \in Nat
        BY <1>2, <1>4, <1>5
      <4>2. /\ granted.bulk + R <= bc + b /\ granted.bulk + granted.fast + R + V <= bc + rc + t
        BY <1>2
      <4> HIDE DEF b, t, bc, rc
      <4> QED BY <2>1, <4>1, <4>2
    <3> HIDE DEF b, t, bc, rc
    <3> QED BY <2>5, <3>1, <3>2, <3>3 DEF RateInv
  <2> QED BY <2>4, <2>6, <2>7 DEF RateIInv
<1>8. Within(a) \in Int /\ a.n \in Int
  <2>1. Within(a) = R + IF a.fast THEN V ELSE 0
    BY DEF Within
  <2>2. R \in Nat /\ V \in Nat /\ a.n \in Int
    BY <1>1, <1>2, <1>4
  <2> HIDE DEF R, V, a
  <2> QED BY <2>1, <2>2
<1> QED BY <1>6, <1>7, <1>8

LEMMA RateStep == RateIInv /\ [RateNext]_rateVars => RateIInv'
<1> SUFFICES ASSUME RateIInv, [RateNext]_rateVars PROVE RateIInv'
  OBVIOUS
<1>1. ASSUME RateTick PROVE RateIInv'
  <2>1. clock' = clock + 1 /\ UNCHANGED <<plan, last, total, reserve, ask, granted>>
    BY <1>1 DEF RateTick
  <2>2. clock' \in Nat /\ last <= clock' /\ last' <= clock'
    BY <2>1 DEF RateIInv, RateTypeOK, RateInv
  <2>3. /\ granted.bulk <= BulkCap(plan) + BulkRate(plan) * clock'
        /\ granted.bulk + granted.fast <= BulkCap(plan) + ReserveCap(plan) + plan.total * clock'
    BY <2>2, EarnedByThen DEF RateIInv
  <2>4. RateTypeOK' /\ Earned'
    BY <2>1, <2>2 DEF RateIInv, RateTypeOK, Earned, PlanOK, BulkCap, BulkRate, ReserveCap
  <2>5. RateInv'
    BY <2>1, <2>2, <2>3 DEF RateIInv, RateInv, BulkCap, BulkRate, ReserveCap
  <2> QED BY <2>4, <2>5 DEF RateIInv
<1>2. ASSUME NEW s \in RateSenders, RateAsks(s) PROVE RateIInv'
  <2>1. PICK n \in 1..plan.chunk, fast \in BOOLEAN :
          ask' = [ask EXCEPT ![s] = [n |-> n, fast |-> fast, at |-> clock,
                    refused |-> n > (BulkCap(plan) + IF fast THEN ReserveCap(plan) ELSE 0)]]
    BY <1>2 DEF RateAsks
  <2>2. plan.total > 0 /\ UNCHANGED <<plan, clock, last, total, reserve, granted>>
    BY <1>2 DEF RateAsks
  <2> DEFINE cap == BulkCap(plan) + IF fast THEN ReserveCap(plan) ELSE 0
  <2>3. n \in Nat /\ (n > cap) = FALSE
    <3>1. plan.chunk <= BulkCap(plan) /\ BulkCap(plan) \in Nat /\ ReserveCap(plan) \in Nat /\ plan.chunk \in Int
      BY <2>2, Buckets DEF RateIInv, RateTypeOK, PlanOK
    <3>2. n \in Nat /\ n <= plan.chunk
      BY <3>1
    <3>3. cap \in Nat /\ n <= cap
      BY <3>1, <3>2
    <3> HIDE DEF cap
    <3> QED BY <3>2, <3>3
  <2>4. ask' = [ask EXCEPT ![s] = [n |-> n, fast |-> fast, at |-> clock, refused |-> FALSE]]
    BY <2>1, <2>3
  <2>5. /\ ask' \in [RateSenders -> [n : Nat, fast : BOOLEAN, at : Int, refused : BOOLEAN]]
        /\ \A r \in RateSenders : ~ask'[r].refused
    BY <2>3, <2>4 DEF RateIInv, RateTypeOK, RateInv
  <2>6. RateTypeOK'
    BY <2>2, <2>5 DEF RateIInv, RateTypeOK, PlanOK, BulkCap, BulkRate
  <2>7. Earned'
    BY <2>2 DEF RateIInv, Earned, BulkCap, BulkRate, ReserveCap
  <2>8. RateInv'
    BY <2>2, <2>5 DEF RateIInv, RateInv, BulkCap, BulkRate, ReserveCap
  <2> QED BY <2>6, <2>7, <2>8 DEF RateIInv
<1>3. ASSUME NEW s \in RateSenders, RateTries(s) PROVE RateIInv'
  BY <1>3, TriesStep
<1>4. ASSUME NEW s \in RateSenders, RateLeaves(s) PROVE RateIInv'
  <2>1. ask' = [ask EXCEPT ![s] = Silent] /\ UNCHANGED <<plan, clock, last, total, reserve, granted>>
    BY <1>4 DEF RateLeaves
  <2>2. /\ ask' \in [RateSenders -> [n : Nat, fast : BOOLEAN, at : Int, refused : BOOLEAN]]
        /\ \A r \in RateSenders : ~ask'[r].refused /\ (ask'[r].n > 0 => ask[r].n > 0)
    BY <2>1 DEF RateIInv, RateTypeOK, RateInv, Silent
  <2>3. RateTypeOK' /\ Earned'
    BY <2>1, <2>2 DEF RateIInv, RateTypeOK, Earned, PlanOK, BulkCap, BulkRate, ReserveCap
  <2>4. RateInv'
    BY <2>1, <2>2 DEF RateIInv, RateInv, BulkCap, BulkRate, ReserveCap
  <2> QED BY <2>3, <2>4 DEF RateIInv
<1>5. CASE UNCHANGED rateVars
  BY <1>5 DEF rateVars, RateIInv, RateTypeOK, Earned, PlanOK, RateInv, BulkCap, BulkRate, ReserveCap
<1> QED BY <1>1, <1>2, <1>3, <1>4, <1>5 DEF RateNext

\* No rate is overspent and no chunk refused for ever, for any configuration NewClient
\* accepts, any number of senders and any time.
THEOREM NoRateIsOverspent == RateSpec => []RateInv
<1>1. RateIInv => RateInv
  BY DEF RateIInv
<1> QED BY <1>1, RateInitInv, RateStep, PTL DEF RateSpec

-----------------------------------------------------------------------------
(* PortMux: a reply leaves by the port its peer was last heard on *)

MuxTypeOK ==
  /\ sockets \in [Ports -> {"reads", "ended"} \cup Peers]
  /\ incoming \in Seq([port : Ports, peer : Peers])
  /\ current \in [Peers -> 0..HopPorts] /\ previous \in [Peers -> 0..HopPorts]
  /\ heard \in [Peers -> 0..HopPorts] /\ newer \in [Peers -> SUBSET Peers]
  /\ muxClose \in {"no", "waits", "done"}

\* A route of the current generation is the port last heard.  Whoever has none there was
\* read before everybody who has one, so that when the generation is full and turns, a
\* peer that falls out of both has as many peers read after it.
RoutesAreRecent ==
  \A p \in Peers :
    /\ current[p] # 0 => current[p] = heard[p]
    /\ heard[p] > 1 /\ current[p] = 0 =>
         /\ Routed(current) \subseteq newer[p]
         /\ previous[p] # 0 => previous[p] = heard[p]
         /\ previous[p] = 0 => Cardinality(newer[p]) >= MaxRoutes

LEMMA MuxBounds == HopPorts \in Nat \ {0} /\ MaxRoutes \in Nat \ {0} /\ IsFiniteSet(Peers)
BY MuxAssumption

LEMMA PeersAreFinite ==
  ASSUME NEW S, S \subseteq Peers
  PROVE  IsFiniteSet(S) /\ Cardinality(S) \in Nat
BY MuxBounds, FS_Subset, FS_CardinalityType

LEMMA SmallerCounts ==
  ASSUME NEW S, NEW T, S \subseteq T, T \subseteq Peers
  PROVE  Cardinality(S) <= Cardinality(T)
BY PeersAreFinite, FS_Subset

\* The parts of MuxInv that a datagram may disturb.
TablesFit ==
  /\ \A p \in Peers : heard[p] \in {0, 1} => current[p] = 0 /\ previous[p] = 0
  /\ Cardinality(Routed(current)) <= MaxRoutes /\ Cardinality(Routed(previous)) <= MaxRoutes

MuxEnds == muxClose = "done" => \A p \in Ports : sockets[p] = "ended"

MuxIInv == MuxTypeOK /\ RoutesAreRecent /\ TablesFit /\ MuxEnds

\* They say all of it: who has a route is answered by it, who has none by the primary.
LEMMA RoutesServe == MuxTypeOK /\ RoutesAreRecent => (MuxInv <=> TablesFit /\ MuxEnds)
<1> SUFFICES ASSUME MuxTypeOK, RoutesAreRecent PROVE MuxInv <=> TablesFit /\ MuxEnds
  OBVIOUS
<1>1. ASSUME NEW p \in Peers, heard[p] > 1
      PROVE  \/ PickConn(p) = heard[p]
             \/ PickConn(p) = 1 /\ Cardinality(newer[p]) >= MaxRoutes
  <2>1. /\ current[p] # 0 => current[p] = heard[p]
        /\ current[p] = 0 /\ previous[p] # 0 => previous[p] = heard[p]
        /\ current[p] = 0 /\ previous[p] = 0 => Cardinality(newer[p]) >= MaxRoutes
    BY <1>1 DEF RoutesAreRecent
  <2> QED BY <2>1 DEF PickConn
<1> QED BY <1>1 DEF MuxInv, TablesFit, MuxEnds

LEMMA MuxInitInv == MuxInit => MuxIInv
<1> SUFFICES ASSUME MuxInit PROVE MuxIInv
  OBVIOUS
<1>1. 0 \in 0..HopPorts /\ MaxRoutes \in Nat
  BY MuxBounds
<1>2. MuxTypeOK
  BY <1>1 DEF MuxInit, MuxTypeOK, NoRoutes
<1>3. RoutesAreRecent
  BY DEF MuxInit, NoRoutes, RoutesAreRecent
<1>4. TablesFit /\ MuxEnds
  <2>1. Routed(current) = {} /\ Routed(previous) = {}
    BY DEF MuxInit, NoRoutes, Routed
  <2>2. Cardinality(Routed(current)) <= MaxRoutes /\ Cardinality(Routed(previous)) <= MaxRoutes
    BY <1>1, <2>1, FS_EmptySet
  <2> QED BY <2>2 DEF MuxInit, NoRoutes, TablesFit, MuxEnds
<1> QED BY <1>2, <1>3, <1>4 DEF MuxIInv

\* A table with one entry cleared, or one added.
Emptied(notes, q) == [notes EXCEPT ![q] = 0]
Written(notes, q, port) == [notes EXCEPT ![q] = port]

LEMMA ClearedTable ==
  ASSUME NEW notes \in [Peers -> 0..HopPorts], NEW q \in Peers
  PROVE  /\ Emptied(notes, q) \in [Peers -> 0..HopPorts]
         /\ \A p \in Peers : Emptied(notes, q)[p] = IF p = q THEN 0 ELSE notes[p]
         /\ Routed(Emptied(notes, q)) = Routed(notes) \ {q}
<1>1. /\ Emptied(notes, q) \in [Peers -> 0..HopPorts]
      /\ \A p \in Peers : Emptied(notes, q)[p] = IF p = q THEN 0 ELSE notes[p]
  BY MuxBounds DEF Emptied
<1> QED BY <1>1 DEF Routed

LEMMA EnteredTable ==
  ASSUME NEW notes \in [Peers -> 0..HopPorts], NEW q \in Peers, NEW port \in Ports
  PROVE  /\ Written(notes, q, port) \in [Peers -> 0..HopPorts]
         /\ \A p \in Peers : Written(notes, q, port)[p] = IF p = q THEN port ELSE notes[p]
         /\ Routed(Written(notes, q, port)) = Routed(notes) \cup {q}
<1>1. port \in 0..HopPorts /\ port # 0
  BY MuxBounds DEF Ports
<1>2. /\ Written(notes, q, port) \in [Peers -> 0..HopPorts]
      /\ \A p \in Peers : Written(notes, q, port)[p] = IF p = q THEN port ELSE notes[p]
  BY <1>1 DEF Written
<1> QED BY <1>1, <1>2 DEF Routed

LEMMA HeadAndTail ==
  ASSUME NEW S, NEW s \in Seq(S), s # <<>>
  PROVE  Head(s) \in S /\ Tail(s) \in Seq(S)
OBVIOUS

\* A datagram of q, heard on the port n.
Hears(q, n) ==
  /\ heard' = [heard EXCEPT ![q] = n]
  /\ newer' = [p \in Peers |-> IF p = q THEN {} ELSE newer[p] \cup {q}]

LEMMA ReadStep ==
  ASSUME MuxIInv, ReadFrom
  PROVE  MuxIInv'
<1> DEFINE d == Head(incoming)
           q == d.peer
           n == d.port
<1>1. /\ incoming # <<>> /\ incoming' = Tail(incoming)
      /\ current' = Newest(d) /\ previous' = Older(d) /\ Hears(q, n)
      /\ UNCHANGED <<bound, sockets, muxClose>>
  BY DEF ReadFrom, Hears
<1>2. q \in Peers /\ n \in Ports /\ incoming' \in Seq([port : Ports, peer : Peers])
  <2>1. incoming \in Seq([port : Ports, peer : Peers]) /\ incoming # <<>>
    BY <1>1 DEF MuxIInv, MuxTypeOK
  <2>2. d \in [port : Ports, peer : Peers] /\ Tail(incoming) \in Seq([port : Ports, peer : Peers])
    BY <2>1, HeadAndTail
  <2> QED BY <1>1, <2>2
<1>3. n \in 0..HopPorts /\ n # 0 /\ n \in Nat /\ MaxRoutes \in Nat \ {0}
  BY <1>2, MuxBounds DEF Ports
<1>4. /\ current \in [Peers -> 0..HopPorts] /\ previous \in [Peers -> 0..HopPorts]
      /\ heard \in [Peers -> 0..HopPorts] /\ newer \in [Peers -> SUBSET Peers]
  BY DEF MuxIInv, MuxTypeOK
<1>5. NoRoutes \in [Peers -> 0..HopPorts] /\ Routed(NoRoutes) = {} /\ \A p \in Peers : NoRoutes[p] = 0
  BY MuxBounds DEF NoRoutes, Routed
<1> HIDE DEF d
<1>6. /\ heard' \in [Peers -> 0..HopPorts] /\ newer' \in [Peers -> SUBSET Peers]
      /\ \A p \in Peers : /\ heard'[p] = IF p = q THEN n ELSE heard[p]
                          /\ newer'[p] = IF p = q THEN {} ELSE newer[p] \cup {q}
  BY <1>1, <1>2, <1>3, <1>4 DEF Hears
<1>7. Cardinality(Routed(current)) <= MaxRoutes /\ Cardinality(Routed(previous)) <= MaxRoutes
  BY DEF MuxIInv, TablesFit
<1>8. \A p \in Peers : Cardinality(newer[p]) <= Cardinality(newer[p] \cup {q})
  BY <1>2, <1>4, SmallerCounts
<1>9. \A S \in SUBSET Peers : Cardinality(S) \in Nat /\ Cardinality(S \cup {q}) \in Nat
  BY <1>2, PeersAreFinite
<1>10. Routed(current) \subseteq Peers /\ Routed(previous) \subseteq Peers
  BY DEF Routed
\* What the tables become, in the three cases.
<1>11. CASE n = 1
  <2>1. current' = Emptied(current, q) /\ previous' = Emptied(previous, q)
    BY <1>1, <1>11 DEF Newest, Older, Emptied
  <2>2. /\ current' \in [Peers -> 0..HopPorts] /\ previous' \in [Peers -> 0..HopPorts]
        /\ \A p \in Peers : /\ current'[p] = IF p = q THEN 0 ELSE current[p]
                            /\ previous'[p] = IF p = q THEN 0 ELSE previous[p]
        /\ Routed(current') = Routed(current) \ {q} /\ Routed(previous') = Routed(previous) \ {q}
    <3> DEFINE c == Emptied(current, q)
               v == Emptied(previous, q)
    <3>1. /\ c \in [Peers -> 0..HopPorts] /\ Routed(c) = Routed(current) \ {q}
          /\ \A p \in Peers : c[p] = IF p = q THEN 0 ELSE current[p]
      BY <1>2, <1>4, ClearedTable
    <3>2. /\ v \in [Peers -> 0..HopPorts] /\ Routed(v) = Routed(previous) \ {q}
          /\ \A p \in Peers : v[p] = IF p = q THEN 0 ELSE previous[p]
      BY <1>2, <1>4, ClearedTable
    <3> HIDE DEF c, v
    <3>3. current' = c /\ previous' = v
      BY <2>1 DEF c, v
    <3> QED BY <3>1, <3>2, <3>3
  <2>3. MuxTypeOK'
    BY <1>1, <1>2, <1>6, <2>2 DEF MuxIInv, MuxTypeOK
  <2>4. RoutesAreRecent'
    <3> SUFFICES ASSUME NEW p \in Peers
                 PROVE  /\ current'[p] # 0 => current'[p] = heard'[p]
                        /\ heard'[p] > 1 /\ current'[p] = 0 =>
                             /\ Routed(current') \subseteq newer'[p]
                             /\ previous'[p] # 0 => previous'[p] = heard'[p]
                             /\ previous'[p] = 0 => Cardinality(newer'[p]) >= MaxRoutes
      BY DEF RoutesAreRecent
    <3>1. CASE p = q
      BY <1>6, <1>11, <2>2, <3>1
    <3>2. CASE p # q
      <4>1. /\ current[p] # 0 => current[p] = heard[p]
            /\ heard[p] > 1 /\ current[p] = 0 =>
                 /\ Routed(current) \subseteq newer[p]
                 /\ previous[p] # 0 => previous[p] = heard[p]
                 /\ previous[p] = 0 => Cardinality(newer[p]) >= MaxRoutes
        BY DEF MuxIInv, RoutesAreRecent
      <4>2. Cardinality(newer[p]) >= MaxRoutes => Cardinality(newer'[p]) >= MaxRoutes
        BY <1>3, <1>4, <1>6, <1>8, <1>9, <3>2
      <4> QED BY <1>6, <2>2, <3>2, <4>1, <4>2
    <3> QED BY <3>1, <3>2
  <2>5. Cardinality(Routed(current')) <= MaxRoutes /\ Cardinality(Routed(previous')) <= MaxRoutes
    <3>1. /\ Cardinality(Routed(current')) <= Cardinality(Routed(current))
          /\ Cardinality(Routed(previous')) <= Cardinality(Routed(previous))
      BY <1>10, <2>2, SmallerCounts
    <3>2. /\ Cardinality(Routed(current')) \in Nat /\ Cardinality(Routed(previous')) \in Nat
          /\ Cardinality(Routed(current)) \in Nat /\ Cardinality(Routed(previous)) \in Nat
      BY <1>10, <2>2, PeersAreFinite
    <3> QED BY <1>3, <1>7, <3>1, <3>2
  <2>6. \A p \in Peers : heard'[p] \in {0, 1} => current'[p] = 0 /\ previous'[p] = 0
    BY <1>6, <2>2 DEF MuxIInv, TablesFit
  <2>7. TablesFit'
    BY <2>5, <2>6 DEF TablesFit
  <2>8. MuxEnds'
    BY <1>1 DEF MuxIInv, MuxEnds
  <2> QED BY <2>3, <2>4, <2>7, <2>8 DEF MuxIInv
<1>12. CASE n # 1 /\ ~Turns(d)
  <2>1. current' = Written(current, q, n) /\ previous' = previous
    BY <1>1, <1>12 DEF Newest, Older, Generation, Written
  <2>2. /\ current' \in [Peers -> 0..HopPorts] /\ Routed(current') = Routed(current) \cup {q}
        /\ \A p \in Peers : current'[p] = IF p = q THEN n ELSE current[p]
    <3> DEFINE c == Written(current, q, n)
    <3>0. current \in [Peers -> 0..HopPorts] /\ q \in Peers /\ n \in Ports
      BY <1>2, <1>4
    <3> HIDE DEF q, n
    <3>1. /\ c \in [Peers -> 0..HopPorts] /\ Routed(c) = Routed(current) \cup {q}
          /\ \A p \in Peers : c[p] = IF p = q THEN n ELSE current[p]
      BY <3>0, EnteredTable
    <3> HIDE DEF c
    <3>2. current' = c
      BY <2>1 DEF c
    <3> QED BY <3>1, <3>2
  <2>3. MuxTypeOK'
    BY <1>1, <1>2, <1>4, <1>6, <2>1, <2>2 DEF MuxIInv, MuxTypeOK
  <2>4. RoutesAreRecent'
    <3> SUFFICES ASSUME NEW p \in Peers
                 PROVE  /\ current'[p] # 0 => current'[p] = heard'[p]
                        /\ heard'[p] > 1 /\ current'[p] = 0 =>
                             /\ Routed(current') \subseteq newer'[p]
                             /\ previous'[p] # 0 => previous'[p] = heard'[p]
                             /\ previous'[p] = 0 => Cardinality(newer'[p]) >= MaxRoutes
      BY DEF RoutesAreRecent
    <3>1. CASE p = q
      BY <1>3, <1>6, <2>2, <3>1
    <3>2. CASE p # q
      <4>1. /\ current[p] # 0 => current[p] = heard[p]
            /\ heard[p] > 1 /\ current[p] = 0 =>
                 /\ Routed(current) \subseteq newer[p]
                 /\ previous[p] # 0 => previous[p] = heard[p]
                 /\ previous[p] = 0 => Cardinality(newer[p]) >= MaxRoutes
        BY DEF MuxIInv, RoutesAreRecent
      <4>2. Cardinality(newer[p]) >= MaxRoutes => Cardinality(newer'[p]) >= MaxRoutes
        BY <1>3, <1>4, <1>6, <1>8, <1>9, <3>2
      <4> QED BY <1>6, <2>1, <2>2, <3>2, <4>1, <4>2
    <3> QED BY <3>1, <3>2
  <2>5. Cardinality(Routed(current')) <= MaxRoutes
    <3>1. CASE q \in Routed(current)
      <4>1. Routed(current') = Routed(current)
        BY <2>2, <3>1
      <4> QED BY <1>7, <4>1
    <3>2. CASE q \notin Routed(current)
      <4>1. Cardinality(Routed(current')) = Cardinality(Routed(current)) + 1
        BY <1>10, <2>2, <3>2, PeersAreFinite, FS_AddElement
      <4>2. ~(Cardinality(Routed(current)) >= MaxRoutes)
        BY <1>2, <1>12, <3>2 DEF Turns, Routed
      <4>3. Cardinality(Routed(current)) \in Nat
        BY <1>10, PeersAreFinite
      <4> QED BY <1>3, <4>1, <4>2, <4>3
    <3> QED BY <3>1, <3>2
  <2>6. \A p \in Peers : heard'[p] \in {0, 1} => current'[p] = 0 /\ previous'[p] = 0
    BY <1>3, <1>6, <1>12, <2>1, <2>2 DEF MuxIInv, TablesFit
  <2>7. TablesFit'
    BY <1>7, <2>1, <2>5, <2>6 DEF TablesFit
  <2>8. MuxEnds'
    BY <1>1 DEF MuxIInv, MuxEnds
  <2> QED BY <2>3, <2>4, <2>7, <2>8 DEF MuxIInv
<1>13. CASE n # 1 /\ Turns(d)
  <2>1. current' = Written(NoRoutes, q, n) /\ previous' = current
    BY <1>1, <1>13 DEF Newest, Older, Generation, Written
  <2>2. /\ current' \in [Peers -> 0..HopPorts] /\ Routed(current') = {q}
        /\ \A p \in Peers : current'[p] = IF p = q THEN n ELSE 0
    <3> DEFINE c == Written(NoRoutes, q, n)
    <3>1. /\ c \in [Peers -> 0..HopPorts] /\ Routed(c) = Routed(NoRoutes) \cup {q}
          /\ \A p \in Peers : c[p] = IF p = q THEN n ELSE NoRoutes[p]
      BY <1>2, <1>5, EnteredTable
    <3> HIDE DEF c
    <3>2. current' = c
      BY <2>1 DEF c
    <3> QED BY <1>5, <3>1, <3>2
  <2>3. MuxTypeOK'
    BY <1>1, <1>2, <1>4, <1>6, <2>1, <2>2 DEF MuxIInv, MuxTypeOK
  <2>4. Cardinality(Routed(current)) >= MaxRoutes /\ current[q] = 0
    BY <1>13 DEF Turns
  <2>5. RoutesAreRecent'
    <3> SUFFICES ASSUME NEW p \in Peers
                 PROVE  /\ current'[p] # 0 => current'[p] = heard'[p]
                        /\ heard'[p] > 1 /\ current'[p] = 0 =>
                             /\ Routed(current') \subseteq newer'[p]
                             /\ previous'[p] # 0 => previous'[p] = heard'[p]
                             /\ previous'[p] = 0 => Cardinality(newer'[p]) >= MaxRoutes
      BY DEF RoutesAreRecent
    <3>1. CASE p = q
      BY <1>3, <1>6, <2>2, <3>1
    <3>2. CASE p # q
      <4>1. /\ current[p] # 0 => current[p] = heard[p]
            /\ heard[p] > 1 /\ current[p] = 0 => Routed(current) \subseteq newer[p]
        BY DEF MuxIInv, RoutesAreRecent
      <4>2. heard[p] > 1 /\ current[p] = 0 => Cardinality(newer'[p]) >= MaxRoutes
        <5>1. Routed(current) \subseteq newer[p] =>
                Cardinality(Routed(current)) <= Cardinality(newer[p])
          BY <1>4, SmallerCounts
        <5>2. Cardinality(newer[p]) <= Cardinality(newer'[p])
          BY <1>6, <1>8, <3>2
        <5>3. /\ Cardinality(newer[p]) \in Nat /\ Cardinality(newer'[p]) \in Nat
              /\ Cardinality(Routed(current)) \in Nat
          BY <1>4, <1>6, <1>10, PeersAreFinite
        <5> QED BY <1>3, <2>4, <4>1, <5>1, <5>2, <5>3
      <4> QED BY <1>6, <2>1, <2>2, <3>2, <4>1, <4>2
    <3> QED BY <3>1, <3>2
  <2>6. Cardinality(Routed(current')) <= MaxRoutes
    <3>1. Cardinality({q}) = 1
      BY FS_Singleton
    <3> QED BY <1>3, <2>2, <3>1
  <2>7. \A p \in Peers : heard'[p] \in {0, 1} => current'[p] = 0 /\ previous'[p] = 0
    BY <1>3, <1>6, <1>13, <2>1, <2>2 DEF MuxIInv, TablesFit
  <2>8. TablesFit'
    BY <1>7, <2>1, <2>6, <2>7 DEF TablesFit
  <2>9. MuxEnds'
    BY <1>1 DEF MuxIInv, MuxEnds
  <2> QED BY <2>3, <2>5, <2>8, <2>9 DEF MuxIInv
<1> QED BY <1>11, <1>12, <1>13

\* The steps of the sockets and of Close leave the tables alone.
LEMMA SocketStep ==
  ASSUME MuxIInv, [MuxNext]_muxVars, ~ReadFrom
  PROVE  MuxIInv'
<1>1. /\ UNCHANGED <<current, previous, heard, newer>>
      /\ incoming' = incoming \/ \E port \in Ports : SocketQueues(port)
  BY DEF MuxNext, muxVars, CloseMux, ReadersGone, SocketQueues, ReaderEnds, SocketReads
<1>2. RoutesAreRecent' /\ TablesFit'
  BY <1>1 DEF MuxIInv, RoutesAreRecent, TablesFit, Routed
<1>3. MuxTypeOK'
  <2>1. incoming' \in Seq([port : Ports, peer : Peers])
    <3>1. ASSUME NEW port \in Ports, SocketQueues(port) PROVE <2>1
      <4>1. sockets[port] \in Peers /\ incoming' = Append(incoming, [port |-> port, peer |-> sockets[port]])
        BY <3>1 DEF SocketQueues
      <4> QED BY <4>1 DEF MuxIInv, MuxTypeOK
    <3> QED BY <1>1, <3>1 DEF MuxIInv, MuxTypeOK
  <2>2. sockets' \in [Ports -> {"reads", "ended"} \cup Peers] /\ muxClose' \in {"no", "waits", "done"}
    BY DEF MuxIInv, MuxTypeOK, MuxNext, muxVars, CloseMux, ReadersGone, SocketQueues, ReaderEnds,
           SocketReads
  <2> QED BY <1>1, <2>1, <2>2 DEF MuxIInv, MuxTypeOK
<1>4. MuxEnds'
  BY MuxAssumption DEF MuxIInv, MuxEnds, MuxTypeOK, MuxNext, muxVars, CloseMux, ReadersGone,
     SocketQueues, ReaderEnds, SocketReads
<1> QED BY <1>2, <1>3, <1>4 DEF MuxIInv

\* A reply leaves by the port its peer was last heard on, or by the primary when a whole
\* generation of peers came between, whatever the number of ports and the order.
THEOREM RepliesFollowTheirPeers == MuxSpec => []MuxInv
<1>1. MuxIInv /\ [MuxNext]_muxVars => MuxIInv'
  BY ReadStep, SocketStep
<1>2. MuxIInv => MuxInv
  BY RoutesServe DEF MuxIInv
<1> QED BY <1>1, <1>2, MuxInitInv, PTL DEF MuxSpec

-----------------------------------------------------------------------------
(* MCServices: one part moves, and each keeps what it promises *)

\* A part that does not move starts in one of its configurations, too.
LEMMA PartsStart ==
  ASSUME Init
  PROVE  /\ ProxyInit /\ DatagramInit /\ ServerInit /\ StreamInit
         /\ CodedInit /\ FecInit /\ AssemblerInit
         /\ RealmInit /\ PunchInit /\ HopInit /\ HopSocketInit /\ GeckoInit
         /\ PathInit /\ GroupsInit /\ BBRInit /\ CubicInit /\ ErasureInit /\ QueueInit
BY DEF Init

\* The part that is named s takes a step of its own.
Moves(s) ==
  /\ s = "client" => ProxyNext
  /\ s = "datagram" => DatagramNext
  /\ s = "server" => ServerNext
  /\ s = "relay" => StreamNext
  /\ s = "realm" => RealmNext
  /\ s = "punch" => PunchNext
  /\ s = "hop" => HopNext
  /\ s = "socket" => HopSocketNext
  /\ s = "gecko" => GeckoNext
  /\ s = "coded" => CodedNext
  /\ s = "fec" => FecNext
  /\ s = "assembler" => AssemblerNext
  /\ s = "path" => PathNext
  /\ s = "groups" => GroupsNext
  /\ s = "bbr" => BBRNext
  /\ s = "cubic" => CubicNext
  /\ s = "erasure" => ErasureNext
  /\ s = "queue" => QueueNext

LEMMA OnePartMoves ==
  ASSUME Next
  PROVE  \E s : Only(s) /\ Moves(s)
BY DEF Next, Moves, MemoryMoves, RateMoves, ClientMoves, DatagramMoves, ServerMoves, RelayMoves, RealmMoves,
       PunchMoves, MuxMoves, HopMoves, SocketMoves, GeckoMoves, FecMoves, CodedMoves, AssemblerMoves, PathMoves,
       GroupsMoves, BbrMoves, QueueMoves, CubicMoves, ErasureMoves

LEMMA PartsStep ==
  ASSUME [Next]_vars
  PROVE  /\ [ProxyNext]_proxyVars /\ [DatagramNext]_datagramVars /\ [ServerNext]_serverVars /\ [StreamNext]_streamVars
         /\ [RealmNext]_realmVars /\ [PunchNext]_punchVars /\ [HopNext]_hopVars /\ [HopSocketNext]_hopSocketVars
         /\ [GeckoNext]_geckoVars
         /\ [CodedNext]_codedVars /\ [FecNext]_fecVars /\ [AssemblerNext]_assemblerVars
         /\ [PathNext]_pathVars /\ [GroupsNext]_groupVars /\ [BBRNext]_bbrVars /\ [CubicNext]_cubicVars
         /\ [ErasureNext]_erasureVars /\ [QueueNext]_queueVars
<1>1. CASE UNCHANGED vars
  BY <1>1 DEF vars
<1>2. CASE Next
  <2>1. PICK s : Only(s) /\ Moves(s)
    BY <1>2, OnePartMoves
  <2> QED BY <2>1 DEF Only, Moves
<1> QED BY <1>1, <1>2

\* However they are used and whatever the peers send: the proxies of the three protocols keep
\* their connections, sessions, datagrams and streams apart.
THEOREM ProxiesAreSound == Spec => []ProxiesInv
<1>1. Spec => ProxySpec /\ DatagramSpec /\ ServerSpec /\ StreamSpec
  BY PartsStart, PartsStep, PTL DEF Spec, ProxySpec, DatagramSpec, ServerSpec, StreamSpec
<1>2. ProxyInv /\ DatagramInv /\ ServerInv /\ RelayInv => ProxiesInv
  BY DEF ProxiesInv
<1> QED BY <1>1, <1>2, TheSharedConnectionIsSound, PayloadsAreWhole, SessionsHaveOwners, RelaysKeepOrder, PTL

\* A peer is reached by what it published: registrations, races, ports, sockets and chunks of
\* any number and in any order.
THEOREM PeersAreReachedSoundly == Spec => []HopsInv
<1>1. Spec => RealmSpec /\ PunchSpec /\ HopSpec /\ HopSocketSpec /\ GeckoSpec
  BY PartsStart, PartsStep, PTL DEF Spec, RealmSpec, PunchSpec, HopSpec, HopSocketSpec, GeckoSpec
<1>2. RealmInv /\ PunchInv /\ HopInv /\ HopSocketInv /\ GeckoInv => HopsInv
  BY DEF HopsInv
<1> QED BY <1>1, <1>2, RegistrationsAreKnown, TheRaceIsCleanedUp, EveryPortComesAround, NoSocketIsLeftBehind,
           PacketsAreTheirOwnChunks, PTL

\* Whatever is lost, repeated and reordered on the way: frames are cut and put together whole,
\* and the decoder's window holds what was sent, until a source comes that a row had for its
\* pivot.
THEOREM CodedFramesAreWhole == Spec => []CodingInv
<1>1. Spec => CodedSpec /\ FecSpec /\ AssemblerSpec
  BY PartsStart, PartsStep, PTL DEF Spec, CodedSpec, FecSpec, AssemblerSpec
<1>2. CodedInv /\ FecInv /\ AssemblerInv => CodingInv
  BY DEF CodingInv
<1> QED BY <1>1, <1>2, FramesGoOutWhole, RowsStaySolved, FramesAreAssembledWhole, PTL

\* What the path, the groups of its lanes and the controllers let a sender send stays within
\* its bounds, and follows every loss and every report: for any lanes, rates and packets.
THEOREM SendersAreHeldToTheirPath == Spec => []CongestionInv
<1>1. Spec => PathSpec /\ GroupsSpec /\ BBRSpec /\ CubicSpec /\ ErasureSpec /\ QueueSpec
  BY PartsStart, PartsStep, PTL DEF Spec, PathSpec, GroupsSpec, BBRSpec, CubicSpec, ErasureSpec, QueueSpec
<1>2. PathInv /\ GroupsInv /\ BBRInv /\ CubicInv /\ ErasureInv /\ QueueInv => CongestionInv
  BY DEF CongestionInv
<1> QED BY <1>1, <1>2, NobodyIsHeldBackAlone, MergedGroupsMeet, RecoveriesLast, LossesCutOnce, CompensationIsSlow,
           PacketsAreFound, PTL
=============================================================================
