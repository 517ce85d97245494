----------------------------- MODULE Sessions_proofs -----------------------------
(********************************************************************************)
(* Theorems about ReceivePath for every stream, channel, bound and budget       *)
(* and every order of the lanes, the pump, the loop and the other flows;        *)
(* and about UDPAssociation: no packet is relayed twice, for any width of       *)
(* the replay window, any number of packets and any order of arrival.           *)
(*                                                                              *)
(* WindowInv is inductive.  That a number relayed is never above the highest    *)
(* makes a new highest number fresh; that the bitmap is exact within the width  *)
(* makes a clear bit mean a number never relayed, and it must stay exact when   *)
(* the bitmap moves, which is the one step with something to prove.             *)
(*                                                                              *)
(* EndingIInv is the invariant of the association's end.  That a close told by  *)
(* the peer is never taken for a failure rests on there being one farewell at   *)
(* most, last in its stream (ReadersStopThere), and that an end is told on what *)
(* each side may have seen of it (EndsHaveGrounds).                             *)
(*                                                                              *)
(* FlowDelivery is a byte stream for every length of the stream, every window   *)
(* and buffer, every number of losses and every order of arrivals (IInv).       *)
(*                                                                              *)
(* The probe of a path, for any number of prewarms and frames: what is under    *)
(* way between a probe and a gateway that echoes is a run of consecutive frames *)
(* (EchoOrder).                                                                 *)
(********************************************************************************)
EXTENDS ReceivePath, UDPAssociation, FlowDelivery, PathProbe,
        SumTheorems, FiniteSetTheorems, SequenceTheorems, TLAPS

-----------------------------------------------------------------------------
(* Weights and the reach of the cursor *)

LEMMA SizeType == ASSUME NEW f PROVE Size(f) \in {0, 1}
BY DEF Size

\* The places in S of data.
Data(S) == {i \in DOMAIN S : Size(S[i]) > 0}

LEMMA DataIsFinite ==
  ASSUME NEW S \in Seq(Frames)
  PROVE  /\ IsFiniteSet(Data(S)) /\ Data(S) \subseteq 1..Len(S)
         /\ Weight(S) = Cardinality(Data(S)) /\ Weight(S) \in Nat
<1>1. Data(S) \subseteq 1..Len(S)
      BY DEF Data
<1>2. IsFiniteSet(Data(S))
      BY <1>1, FS_Interval, FS_Subset, 1 \in Int, Len(S) \in Int
<1>3. Weight(S) = Cardinality(Data(S))
      BY DEF Weight, Data
<1> QED BY <1>1, <1>2, <1>3, FS_CardinalityType

LEMMA WeightOfNone == Weight(<<>>) = 0
<1>1. {i \in DOMAIN <<>> : Size(<<>>[i]) > 0} = {}
      OBVIOUS
<1> QED BY <1>1, FS_EmptySet DEF Weight

LEMMA WeightOfAppend ==
  ASSUME NEW S \in Seq(Frames), NEW f \in Frames
  PROVE  Weight(Append(S, f)) = Weight(S) + Size(f)
<1> DEFINE n == Len(S) + 1
<1>1. /\ Append(S, f) \in Seq(Frames) /\ Len(Append(S, f)) = n
      /\ \A i \in 1..Len(S) : Append(S, f)[i] = S[i]
      /\ Append(S, f)[n] = f
      BY AppendProperties
<1>2. DOMAIN Append(S, f) = 1..n /\ DOMAIN S = 1..Len(S) /\ Len(S) \in Nat
      BY <1>1
<1>3. Data(Append(S, f)) = IF Size(f) > 0 THEN Data(S) \cup {n} ELSE Data(S)
  <2>1. ASSUME NEW i PROVE i \in Data(Append(S, f)) <=> i \in Data(S) \/ (i = n /\ Size(f) > 0)
    <3>1. CASE i = n
          BY <3>1, <1>1, <1>2 DEF Data
    <3>2. CASE i # n
          BY <3>2, <1>1, <1>2 DEF Data
    <3> QED BY <3>1, <3>2
  <2> QED BY <2>1
<1>4. n \notin Data(S)
      BY <1>2 DEF Data
<1>5. Cardinality(Data(S) \cup {n}) = Cardinality(Data(S)) + 1
      BY <1>4, DataIsFinite, FS_AddElement
<1>6. Weight(Append(S, f)) = Cardinality(Data(Append(S, f))) /\ Weight(S) = Cardinality(Data(S)) /\ Weight(S) \in Nat
      BY <1>1, DataIsFinite
<1> QED BY <1>3, <1>5, <1>6, SizeType

LEMMA WeightOfTail ==
  ASSUME NEW S \in Seq(Frames), S # <<>>
  PROVE  Weight(Tail(S)) = Weight(S) - Size(Head(S))
<1>1. /\ Tail(S) \in Seq(Frames) /\ Len(Tail(S)) = Len(S) - 1
      /\ \A i \in 1..Len(Tail(S)) : Tail(S)[i] = S[i + 1]
      BY HeadTailProperties
<1>2. DOMAIN Tail(S) = 1..Len(S) - 1 /\ DOMAIN S = 1..Len(S) /\ Len(S) \in Nat \ {0} /\ Head(S) = S[1]
      BY <1>1
<1> DEFINE D == Data(Tail(S))
           E == Data(S) \ {1}
           succ[i \in D] == i + 1
<1>3. \A i \in 1..Len(S) - 1 : i \in D <=> i + 1 \in E
      BY <1>1, <1>2 DEF Data
<1>4. D \subseteq 1..Len(S) - 1 /\ E \subseteq 2..Len(S)
      BY <1>2 DEF Data
<1>5. succ \in Bijection(D, E)
  <2>1. succ \in [D -> E]
        BY <1>3, <1>4
  <2>2. \A a, b \in D : succ[a] = succ[b] => a = b
        BY <1>4
  <2>3. \A e \in E : \E d \in D : succ[d] = e
    <3> SUFFICES ASSUME NEW e \in E PROVE \E d \in D : succ[d] = e
        OBVIOUS
    <3>1. e - 1 \in D /\ succ[e - 1] = e
          BY <1>3, <1>4
    <3> QED BY <3>1
  <2> HIDE DEF succ, D, E
  <2> QED BY <2>1, <2>2, <2>3 DEF Bijection, Injection, Surjection, IsInjective
<1>6. IsFiniteSet(D) /\ IsFiniteSet(Data(S)) /\ IsFiniteSet(E)
      BY <1>1, DataIsFinite, FS_RemoveElement
<1>7. Cardinality(D) = Cardinality(E)
  <2> HIDE DEF D, E, succ
  <2> QED BY <1>5, <1>6, FS_Bijection DEF ExistsBijection
<1>8. Cardinality(E) = IF Size(S[1]) > 0 THEN Cardinality(Data(S)) - 1 ELSE Cardinality(Data(S))
  <2>1. 1 \in Data(S) <=> Size(S[1]) > 0
        BY <1>2 DEF Data
  <2> QED BY <2>1, <1>6, FS_RemoveElement
<1>9. Weight(Tail(S)) = Cardinality(D) /\ Weight(S) = Cardinality(Data(S)) /\ Weight(S) \in Nat
      BY <1>1, DataIsFinite
<1> QED BY <1>2, <1>7, <1>8, <1>9, SizeType

\* Frames and Reach: the cursor stops at a gap or the FIN, all before it is buffered.
LEMMA ReachStops ==
  ASSUME segments \subseteq Frames, NEW f \in Frames
  PROVE  /\ Reach(f) \in f + Size(f) .. StreamUnits
         /\ Reach(f) \notin segments \/ Reach(f) = StreamUnits
         /\ \A o \in f + Size(f) .. Reach(f) - 1 : o \in segments /\ o # StreamUnits
<1> USE ReceivePathConstants
<1> DEFINE G == {o \in f + Size(f) .. StreamUnits : o \notin segments \/ Size(o) = 0}
<1>1. f \in Nat /\ f + Size(f) <= StreamUnits /\ f + Size(f) \in Nat
      BY DEF Frames, Size
<1>2. StreamUnits \in G /\ G \subseteq Nat
      BY <1>1 DEF Size
<1>3. \E x \in G : \A y \in G : x <= y
      BY <1>2, LeastNatural
<1>4. Reach(f) \in G /\ \A y \in G : Reach(f) <= y
      BY <1>3 DEF Reach, Min
<1>5. Reach(f) \in f + Size(f) .. StreamUnits /\ (Reach(f) \notin segments \/ Size(Reach(f)) = 0)
      BY <1>4
<1>6. ASSUME NEW o \in f + Size(f) .. Reach(f) - 1 PROVE o \in segments /\ o # StreamUnits
  <2>1. o \in f + Size(f) .. StreamUnits /\ o \notin G /\ o < StreamUnits
    <3>1. o \in f + Size(f) .. StreamUnits /\ ~(Reach(f) <= o) /\ o < StreamUnits
      <4> HIDE DEF G
      <4> QED BY <1>1, <1>5, <1>6
    <3> QED BY <3>1, <1>4
  <2> QED BY <2>1
<1> QED BY <1>5, <1>6 DEF Size

-----------------------------------------------------------------------------
(* The frames under way *)

LEMMA InFlightIsSeq ==
  ASSUME ReceiveTypeOK
  PROVE  InFlight \in Seq(Frames) /\ Len(InFlight) \in Nat
         /\ (Len(InFlight) = Len(events) + Len(inHand) + Len(queue))
<1>1. events \in Seq(Frames) /\ inHand \in Seq(Frames) /\ queue \in Seq(Frames)
      BY DEF ReceiveTypeOK
<1>2. events \o inHand \in Seq(Frames) /\ Len(events \o inHand) = Len(events) + Len(inHand)
      BY <1>1, ConcatProperties
<1>3. InFlight = (events \o inHand) \o queue
      BY DEF InFlight
<1> QED BY <1>1, <1>2, <1>3, ConcatProperties

LEMMA AppendKeeps ==
  ASSUME NEW S \in Seq(Frames), NEW f \in Frames, NEW g
  PROVE  (\E i \in 1..Len(Append(S, f)) : Append(S, f)[i] = g)
           <=> (g = f \/ \E i \in 1..Len(S) : S[i] = g)
<1>1. /\ Len(Append(S, f)) = Len(S) + 1 /\ Len(S) \in Nat
      /\ \A i \in 1..Len(S) : Append(S, f)[i] = S[i]
      /\ Append(S, f)[Len(S) + 1] = f
      BY AppendProperties
<1> QED BY <1>1

LEMMA TailKeeps ==
  ASSUME NEW S \in Seq(Frames), S # <<>>, NEW g
  PROVE  (\E i \in 1..Len(S) : S[i] = g)
           => (g = Head(S) \/ \E i \in 1..Len(Tail(S)) : Tail(S)[i] = g)
<1>1. /\ Len(Tail(S)) = Len(S) - 1 /\ Len(S) \in Nat /\ Head(S) = S[1]
      /\ \A i \in 1..Len(Tail(S)) : Tail(S)[i] = S[i + 1]
      BY HeadTailProperties
<1>2. ASSUME NEW i \in 1..Len(S), S[i] = g, g # Head(S) PROVE \E j \in 1..Len(Tail(S)) : Tail(S)[j] = g
  <2>1. i - 1 \in 1..Len(Tail(S)) /\ Tail(S)[i - 1] = g
        BY <1>1, <1>2
  <2> QED BY <2>1
<1> QED BY <1>2

-----------------------------------------------------------------------------
(* The budget *)

Owned == used = others + Weight(queue) + Cardinality(Charged)

LEMMA ChargedIsFinite ==
  ASSUME segments \subseteq Frames
  PROVE  IsFiniteSet(segments) /\ IsFiniteSet(Charged) /\ Cardinality(segments) \in Nat
         /\ Cardinality(Charged) \in Nat
<1>1. IsFiniteSet(Frames)
      BY FS_Interval, ReceivePathConstants DEF Frames
<1>2. IsFiniteSet(segments)
      BY <1>1, FS_Subset
<1>3. Charged \subseteq segments
      BY DEF Charged
<1>4. IsFiniteSet(Charged)
      BY <1>2, <1>3, FS_Subset
<1> QED BY <1>2, <1>4, FS_CardinalityType

\* A flow that has ended keeps nothing, once what it owns is what it is charged.
LEMMA OwnedAtRest ==
  ASSUME ReceiveTypeOK, Owned, ReceiveShape
  PROVE  BudgetIsOwned
<1>1. ASSUME finished, loop = "returned", ~pumping PROVE used = others
  <2>1. Charged = {} /\ queue = <<>>
        BY <1>1 DEF ReceiveShape, ReturnedIsEmpty, PumpLeavesNone, Charged
  <2>2. Cardinality(Charged) = 0 /\ Weight(queue) = 0
        BY <2>1, FS_EmptySet, WeightOfNone
  <2> QED BY <2>2 DEF Owned, ReceiveTypeOK
<1> QED BY <1>1 DEF Owned, BudgetIsOwned

-----------------------------------------------------------------------------
(* The readers *)

LEMMA ReadStep ==
  ASSUME ReceiveIInv, NEW f \in Frames, ReadFrame(f)
  PROVE  /\ ReceiveTypeOK' /\ Owned' /\ ReceiveShape'
         /\ (InFlight' = InFlight /\ accepted' = accepted)
              \/ (InFlight' = Append(InFlight, f) /\ accepted' = accepted \cup {f})
<1> USE ReceivePathConstants
<1>1. /\ events \in Seq(Frames) /\ queue \in Seq(Frames) /\ inHand \in Seq(Frames)
      /\ Len(events) \in Nat /\ Len(queue) \in Nat /\ used \in Nat /\ others \in Nat
      BY DEF ReceiveIInv, ReceiveInv, BudgetInv, ReceiveTypeOK
<1>2. Append(events, f) \in Seq(Frames) /\ Len(Append(events, f)) = Len(events) + 1
      /\ Append(queue, f) \in Seq(Frames)
      BY <1>1, AppendProperties
<1>3. CASE /\ ViaChannel
           /\ events' = Append(events, f)
           /\ accepted' = accepted \cup {f}
           /\ UNCHANGED <<queue, pumping, ackErr, used>>
  <2>1. queue = <<>> /\ inHand = <<>> /\ ~pumping
        BY <1>3 DEF ReceiveIInv, ReceiveShape, PumpLeavesNone, ViaChannel
  <2>2. InFlight = events /\ InFlight' = Append(events, f)
    <3>1. InFlight = (events \o <<>>) \o <<>> /\ InFlight' = (Append(events, f) \o <<>>) \o <<>>
          BY <1>3, <2>1 DEF InFlight, ReadFrame
    <3> QED BY <3>1, <1>1, <1>2, ConcatEmptySeq
  <2>3. ReceiveTypeOK'
        BY <1>1, <1>2, <1>3 DEF ReadFrame, ViaChannel, ReceiveIInv, ReceiveInv, BudgetInv, ReceiveTypeOK, reassembler
  <2>4. Owned'
        BY <1>3 DEF ReadFrame, ReceiveIInv, ReceiveInv, BudgetInv, BudgetIsOwned, Owned, Charged, reassembler
  <2>5. ReceiveShape'
        BY <1>3 DEF ReadFrame, ReceiveIInv, ReceiveShape, BeyondCursor, PumpLeavesNone, FINIsBuffered, ReturnedIsEmpty, reassembler
  <2> QED BY <1>3, <2>2, <2>3, <2>4, <2>5
<1>4. CASE /\ Granted(Size(f))
           /\ queue' = Append(queue, f)
           /\ pumping' = TRUE
           /\ used' = used + Size(f)
           /\ accepted' = accepted \cup {f}
           /\ UNCHANGED <<events, ackErr>>
  <2>1. InFlight' = Append(InFlight, f)
    <3>1. events \o inHand \in Seq(Frames)
          BY <1>1, ConcatProperties
    <3>2. Append(queue, f) = queue \o <<f>> /\ <<f>> \in Seq(Frames)
          BY <1>1, AppendIsConcat
    <3>3. (events \o inHand) \o (queue \o <<f>>) = ((events \o inHand) \o queue) \o <<f>>
          BY <1>1, <3>1, <3>2, ConcatAssociative
    <3>4. InFlight \in Seq(Frames)
          BY InFlightIsSeq DEF ReceiveIInv, ReceiveInv, BudgetInv
    <3>5. InFlight' = (events \o inHand) \o Append(queue, f) /\ InFlight = (events \o inHand) \o queue
          BY <1>4 DEF ReadFrame, InFlight
    <3>6. Append(InFlight, f) = InFlight \o <<f>>
          BY <3>4, AppendIsConcat
    <3> QED BY <3>2, <3>3, <3>5, <3>6
  <2>2. used' \in 0..Capacity
        BY <1>1, <1>4, SizeType DEF Granted, ReceiveIInv, ReceiveInv, BudgetInv, ReceiveTypeOK
  <2>3. ReceiveTypeOK'
        BY <1>1, <1>2, <1>4, <2>2 DEF ReadFrame, ReceiveIInv, ReceiveInv, BudgetInv, ReceiveTypeOK, reassembler
  <2>4. Owned'
    <3>1. Charged' = Charged
          BY DEF ReadFrame, Charged, reassembler
    <3>2. Weight(queue)' = Weight(queue) + Size(f) /\ Weight(queue) \in Nat /\ Size(f) \in Nat
      <4>1. Weight(Append(queue, f)) = Weight(queue) + Size(f)
            BY <1>1, WeightOfAppend
      <4>2. Weight(queue)' = Weight(Append(queue, f))
            BY <1>4
      <4>3. Weight(queue) \in Nat
            BY <1>1, DataIsFinite
      <4> QED BY <4>1, <4>2, <4>3, SizeType
    <3>3. Cardinality(Charged) \in Nat
          BY ChargedIsFinite DEF ReceiveIInv, ReceiveInv, BudgetInv, ReceiveTypeOK
    <3>4. others' = others /\ used = others + Weight(queue) + Cardinality(Charged)
          BY DEF ReadFrame, ReceiveIInv, ReceiveInv, BudgetInv, BudgetIsOwned
    <3> QED BY <1>1, <1>4, <3>1, <3>2, <3>3, <3>4 DEF Owned
  <2>5. ReceiveShape'
        BY <1>4 DEF ReadFrame, ReceiveIInv, ReceiveShape, BeyondCursor, PumpLeavesNone, FINIsBuffered, ReturnedIsEmpty, reassembler
  <2> QED BY <1>4, <2>1, <2>3, <2>4, <2>5
<1>5. CASE ackErr' = TRUE /\ UNCHANGED <<events, queue, pumping, used, accepted>>
  <2>1. InFlight' = InFlight
        BY <1>5 DEF ReadFrame, InFlight
  <2>2. ReceiveTypeOK'
        BY <1>1, <1>5 DEF ReadFrame, ReceiveIInv, ReceiveInv, BudgetInv, ReceiveTypeOK, reassembler
  <2>3. Owned'
        BY <1>5 DEF ReadFrame, ReceiveIInv, ReceiveInv, BudgetInv, BudgetIsOwned, Owned, Charged, reassembler
  <2>4. ReceiveShape'
        BY <1>5 DEF ReadFrame, ReceiveIInv, ReceiveShape, BeyondCursor, PumpLeavesNone, FINIsBuffered, ReturnedIsEmpty, reassembler
  <2> QED BY <1>5, <2>1, <2>2, <2>3, <2>4
<1> QED BY <1>3, <1>4, <1>5 DEF ReadFrame

-----------------------------------------------------------------------------
(* The pump *)

LEMMA PumpKeeps ==
  ASSUME ReceiveIInv, PumpStep
  PROVE  /\ ReceiveTypeOK' /\ Owned' /\ ReceiveShape'
         /\ InFlight' = InFlight \/ finished
<1> USE ReceivePathConstants
<1>1. /\ events \in Seq(Frames) /\ queue \in Seq(Frames) /\ inHand \in Seq(Frames)
      /\ Len(inHand) <= 1 /\ used \in 0..Capacity /\ others \in Nat
      BY DEF ReceiveIInv, ReceiveInv, BudgetInv, ReceiveTypeOK
<1>2. used = others + Weight(queue) + Cardinality(Charged)
      BY DEF ReceiveIInv, ReceiveInv, BudgetInv, BudgetIsOwned
<1>3. Weight(queue) \in Nat /\ Cardinality(Charged) \in Nat
      BY <1>1, DataIsFinite, ChargedIsFinite DEF ReceiveIInv, ReceiveInv, BudgetInv, ReceiveTypeOK
<1>4. Charged' = Charged /\ others' = others
      BY DEF PumpStep, PumpTakes, PumpPublishes, PumpRetires, PumpCleansUp, Charged, reassembler
<1>5. CASE PumpTakes
  <2>1. Head(queue) \in Frames /\ Tail(queue) \in Seq(Frames)
        BY <1>1, <1>5, HeadTailProperties DEF PumpTakes
  <2>2. InFlight' = InFlight
    <3>1. InFlight = (events \o <<>>) \o queue /\ InFlight' = (events \o <<Head(queue)>>) \o Tail(queue)
          BY <1>5 DEF InFlight, PumpTakes
    <3>2. queue = <<Head(queue)>> \o Tail(queue)
          BY <1>1, <1>5 DEF PumpTakes
    <3>3. <<Head(queue)>> \in Seq(Frames)
          BY <2>1
    <3>4. (events \o <<Head(queue)>>) \o Tail(queue) = events \o (<<Head(queue)>> \o Tail(queue))
          BY <1>1, <2>1, <3>3, ConcatAssociative
    <3>5. events \o <<>> = events
          BY <1>1, ConcatEmptySeq
    <3> QED BY <3>1, <3>2, <3>4, <3>5
  <2>3. Owned' /\ used' \in 0..Capacity
    <3>1. Weight(Tail(queue)) = Weight(queue) - Size(Head(queue))
          BY <1>1, <1>5, WeightOfTail DEF PumpTakes
    <3>2. Weight(queue)' = Weight(Tail(queue)) /\ used' = used - Size(Head(queue))
          BY <1>5 DEF PumpTakes
    <3>3. Weight(Tail(queue)) \in Nat
          BY <2>1, DataIsFinite
    <3>4. Size(Head(queue)) \in {0, 1}
          BY SizeType
    <3>5. used' = others + Weight(Tail(queue)) + Cardinality(Charged)
      <4> DEFINE w == Weight(queue)
                 h == Size(Head(queue))
                 c == Cardinality(Charged)
      <4>1. w \in Nat /\ h \in {0, 1} /\ c \in Nat /\ others \in Nat
            BY <1>1, <1>3, <3>4
      <4>2. used = others + w + c /\ Weight(Tail(queue)) = w - h /\ used' = used - h
            BY <1>2, <3>1, <3>2
      <4> HIDE DEF w, h, c
      <4>3. used' = others + (w - h) + c
            BY <4>1, <4>2
      <4> QED BY <4>2, <4>3 DEF c
    <3>6. Owned'
          BY <1>4, <3>2, <3>5 DEF Owned
    <3> QED BY <1>1, <1>3, <3>2, <3>3, <3>4, <3>5, <3>6
  <2>4. ReceiveTypeOK'
    <3>1. inHand' \in Seq(Frames) /\ Len(inHand') = 1 /\ queue' \in Seq(Frames)
          BY <1>5, <2>1 DEF PumpTakes
    <3> QED BY <1>5, <2>3, <3>1 DEF PumpTakes, ReceiveIInv, ReceiveInv, BudgetInv, ReceiveTypeOK, reassembler, counters
  <2>5. ReceiveShape'
        BY <1>5 DEF PumpTakes, ReceiveIInv, ReceiveShape, BeyondCursor, PumpLeavesNone, FINIsBuffered, ReturnedIsEmpty, reassembler
  <2> QED BY <2>2, <2>3, <2>4, <2>5
<1>6. CASE PumpPublishes
  <2>1. events \o inHand \in Seq(Frames) /\ Len(events \o inHand) = Len(events) + Len(inHand)
        BY <1>1, ConcatProperties
  <2>2. InFlight' = InFlight
    <3>1. InFlight = (events \o inHand) \o queue /\ InFlight' = ((events \o inHand) \o <<>>) \o queue
          BY <1>6 DEF InFlight, PumpPublishes
    <3> QED BY <2>1, <3>1, ConcatEmptySeq
  <2>3. Owned'
        BY <1>2, <1>4, <1>6 DEF PumpPublishes, Owned
  <2>4. ReceiveTypeOK'
    <3>1. inHand' \in Seq(Frames) /\ Len(inHand') = 0 /\ events' \in Seq(Frames) /\ Len(events') <= EventSlots
          BY <1>1, <1>6, <2>1 DEF PumpPublishes
    <3> QED BY <1>6, <3>1 DEF PumpPublishes, ReceiveIInv, ReceiveInv, BudgetInv, ReceiveTypeOK, reassembler, counters
  <2>5. ReceiveShape'
        BY <1>6 DEF PumpPublishes, ReceiveIInv, ReceiveShape, BeyondCursor, PumpLeavesNone, FINIsBuffered, ReturnedIsEmpty, reassembler
  <2> QED BY <2>2, <2>3, <2>4, <2>5
<1>7. CASE PumpRetires
  <2>1. InFlight' = InFlight
        BY <1>7 DEF InFlight, PumpRetires
  <2>2. Owned'
        BY <1>2, <1>4, <1>7 DEF PumpRetires, Owned
  <2>3. ReceiveTypeOK'
        BY <1>7 DEF PumpRetires, ReceiveIInv, ReceiveInv, BudgetInv, ReceiveTypeOK, reassembler, counters
  <2>4. ReceiveShape'
        BY <1>7 DEF PumpRetires, ReceiveIInv, ReceiveShape, BeyondCursor, PumpLeavesNone, FINIsBuffered, ReturnedIsEmpty, reassembler
  <2> QED BY <2>1, <2>2, <2>3, <2>4
<1>8. CASE PumpCleansUp
  <2>1. Owned' /\ used' \in 0..Capacity
    <3>1. Weight(queue)' = Weight(<<>>) /\ used' = used - Weight(queue)
          BY <1>8 DEF PumpCleansUp
    <3>2. used' = others + Cardinality(Charged) /\ used' \in 0..Capacity
          BY <1>1, <1>2, <1>3, <3>1
    <3> QED BY <1>1, <1>3, <1>4, <3>1, <3>2, WeightOfNone DEF Owned
  <2>2. ReceiveTypeOK'
    <3>1. inHand' \in Seq(Frames) /\ Len(inHand') = 0 /\ queue' \in Seq(Frames)
          BY <1>8 DEF PumpCleansUp
    <3>2. pumping' = FALSE /\ UNCHANGED <<events, reassembler, ackErr, finished, others, counters>>
          BY <1>8 DEF PumpCleansUp
    <3>3. /\ events' = events /\ cursor' = cursor /\ segments' = segments /\ finalAt' = finalAt /\ app' = app
          /\ loop' = loop /\ ackErr' = ackErr /\ finished' = finished /\ others' = others
          /\ reads' = reads /\ accepted' = accepted /\ pumping' \in BOOLEAN
          BY <3>2 DEF reassembler, counters
    <3>4. ReceiveTypeOK
          BY DEF ReceiveIInv, ReceiveInv, BudgetInv
    <3> QED BY <2>1, <3>1, <3>3, <3>4 DEF ReceiveTypeOK
  <2>3. ReceiveShape'
        BY <1>8 DEF PumpCleansUp, ReceiveIInv, ReceiveShape, BeyondCursor, PumpLeavesNone, FINIsBuffered, ReturnedIsEmpty, reassembler
  <2> QED BY <1>8, <2>1, <2>2, <2>3 DEF PumpCleansUp
<1> QED BY <1>5, <1>6, <1>7, <1>8 DEF PumpStep

-----------------------------------------------------------------------------
(* The receive loop *)

\* Consuming the frame at the cursor.
LEMMA ConsumeKeeps ==
  ASSUME ReceiveIInv, NEW f \in Frames, f = cursor, loop = "running", Consume(f), others' = others, queue' = queue,
         pumping' = pumping, inHand' = inHand, finished' = finished
  PROVE  /\ cursor' \in cursor..StreamUnits /\ segments' \subseteq segments
         /\ finalAt' \in {StreamUnits, StreamUnits + 1} /\ app' \in Seq(Frames) /\ loop' \in {"running", "closed"}
         /\ used' \in 0..Capacity /\ Owned' /\ ReceiveShape' /\ DeliveredInOrder'
         /\ \A g \in segments \cup {f} : g < StreamUnits => g < cursor' \/ g \in segments'
<1> USE ReceivePathConstants
<1> DEFINE r == Reach(f)
<1>1. /\ segments \subseteq Frames /\ cursor \in 0..StreamUnits /\ used \in 0..Capacity /\ others \in Nat
      /\ queue \in Seq(Frames) /\ app \in Seq(Frames) /\ finalAt \in {StreamUnits, StreamUnits + 1}
      BY DEF ReceiveIInv, ReceiveInv, BudgetInv, ReceiveTypeOK
<1>2. /\ r \in f + Size(f) .. StreamUnits
      /\ r \notin segments \/ r = StreamUnits
      /\ \A o \in f + Size(f) .. r - 1 : o \in segments /\ o # StreamUnits
      BY <1>1, ReachStops
<1>3. cursor' = r /\ segments' = segments \ (f .. r) /\ app' = app \o Written(f) /\ used' = used - Refund(f)
      /\ finalAt' = (IF Ends(f) THEN StreamUnits ELSE finalAt)
      /\ loop' = IF Ends(f) THEN "closed" ELSE "running"
      BY DEF Consume
<1>4. f \in Nat /\ r \in Nat /\ f <= r /\ r <= StreamUnits
      BY <1>1, <1>2, SizeType DEF Frames
<1>5. \A g \in segments : g > cursor
      BY DEF ReceiveIInv, ReceiveShape, BeyondCursor
<1> HIDE DEF r
<1>6. \A g \in segments' : g > cursor'
  <2> SUFFICES ASSUME NEW g \in segments' PROVE g > r
      BY <1>3
  <2>1. g \in segments /\ g \notin f .. r /\ g > f /\ g \in Nat
        BY <1>1, <1>3, <1>5 DEF Frames
  <2> QED BY <1>4, <2>1
<1>7. Ends(f) <=> r = StreamUnits /\ (f = StreamUnits \/ StreamUnits \in segments)
      BY <1>2, <1>4 DEF Ends, r
<1>8. /\ app' \in Seq(Frames) /\ Len(app') = r /\ \A i \in 1..Len(app') : app'[i] = i - 1
  <2>1. Len(app) = cursor /\ \A i \in 1..Len(app) : app[i] = i - 1
        BY DEF ReceiveIInv, ReceiveInv, DeliveredInOrder
  <2>2. Written(f) = [i \in 1 .. r - cursor |-> cursor + i - 1] /\ r - cursor \in Nat
        BY <1>1, <1>4 DEF Written, r
  <2>3. Written(f) \in Seq(Frames) /\ Len(Written(f)) = r - cursor
    <3>1. \A i \in 1 .. r - cursor : cursor + i - 1 \in Frames
          BY <1>1, <1>4 DEF Frames
    <3>2. Written(f) \in [1 .. r - cursor -> Frames]
          BY <2>2, <3>1
    <3> QED BY <2>2, <3>2, LenProperties
  <2>4. /\ app \o Written(f) \in Seq(Frames) /\ Len(app \o Written(f)) = Len(app) + Len(Written(f))
        /\ \A i \in 1 .. Len(app) + Len(Written(f)) :
             (app \o Written(f))[i] = IF i <= Len(app) THEN app[i] ELSE Written(f)[i - Len(app)]
    <3>1. app \in Seq(Frames) /\ Written(f) \in Seq(Frames)
          BY <1>1, <2>3
    <3> QED BY ONLY <3>1, ConcatProperties
  <2>5. \A i \in 1 .. r : (app \o Written(f))[i] = i - 1
        BY <1>1, <1>4, <2>1, <2>2, <2>3, <2>4
  <2>6. Len(app) + Len(Written(f)) = r /\ app' = app \o Written(f)
        BY <1>1, <1>3, <1>4, <2>1, <2>3
  <2> QED BY <2>4, <2>5, <2>6
<1>9. Owned' /\ used' \in 0..Capacity
  <2>1. Charged' = Charged \ (f .. r)
        BY <1>3 DEF Charged
  <2>2. IsFiniteSet(Charged) /\ Cardinality(Charged) \in Nat
        BY <1>1, ChargedIsFinite
  <2>3. Cardinality(Charged \ (f .. r)) = Cardinality(Charged) - Cardinality(Charged \cap (f .. r))
        BY <2>2, FS_Difference
  <2>4. Cardinality(Charged \cap (f .. r)) \in 0..Cardinality(Charged)
    <3>1. Charged \cap (f .. r) \subseteq Charged
          OBVIOUS
    <3>2. IsFiniteSet(Charged \cap (f .. r)) /\ Cardinality(Charged \cap (f .. r)) <= Cardinality(Charged)
          BY <2>2, <3>1, FS_Subset
    <3>3. Cardinality(Charged \cap (f .. r)) \in Nat
          BY <3>2, FS_CardinalityType
    <3> QED BY <2>2, <3>2, <3>3
  <2>5. Weight(queue)' = Weight(queue) /\ Weight(queue) \in Nat
        BY <1>1, DataIsFinite
  <2>6. used = others + Weight(queue) + Cardinality(Charged) /\ Refund(f) = Cardinality(Charged \cap (f .. r))
        BY DEF ReceiveIInv, ReceiveInv, BudgetInv, BudgetIsOwned, Refund, r
  <2>7. Cardinality(Charged') = Cardinality(Charged) - Refund(f)
        BY <2>1, <2>3, <2>6
  <2>8. Refund(f) \in 0..Cardinality(Charged) /\ used' = used - Refund(f)
        BY <1>3, <2>4, <2>6
  <2>9. used' = others + Weight(queue) + Cardinality(Charged') /\ used' \in 0..Capacity
    <3> DEFINE w == Weight(queue)
               c == Cardinality(Charged)
               d == Refund(f)
    <3>1. w \in Nat /\ c \in Nat /\ d \in 0..c /\ others \in Nat /\ used \in 0..Capacity /\ Capacity \in Nat
          BY <1>1, <2>2, <2>5, <2>8
    <3>2. used = others + w + c /\ used' = used - d /\ Cardinality(Charged') = c - d
          BY <2>6, <2>7, <2>8
    <3> HIDE DEF r, w, c, d
    <3>3. used' = others + w + (c - d) /\ used' \in 0..Capacity
          BY ONLY <3>1, <3>2
    <3> QED BY <3>2, <3>3 DEF w
  <2> QED BY <2>5, <2>9 DEF Owned
<1>10. ReceiveShape'
  <2>1. BeyondCursor'
        BY <1>6 DEF BeyondCursor
  <2>2. PumpLeavesNone'
        BY DEF ReceiveIInv, ReceiveShape, PumpLeavesNone
  <2>3. FINIsBuffered'
    <3> SUFFICES ASSUME ~Ends(f), finalAt' = StreamUnits PROVE StreamUnits \in segments'
        BY <1>3 DEF FINIsBuffered
    <3>1. StreamUnits \in segments
          BY <1>3 DEF ReceiveIInv, ReceiveShape, FINIsBuffered
    <3> QED BY <1>3, <1>4, <1>7, <3>1
  <2>4. ReturnedIsEmpty'
        BY <1>3 DEF ReturnedIsEmpty
  <2> QED BY <2>1, <2>2, <2>3, <2>4 DEF ReceiveShape
<1>11. DeliveredInOrder'
  <2>1. loop' = "closed" => cursor' = StreamUnits
        BY <1>3, <1>7
  <2>2. cursor' = StreamUnits /\ finalAt' = StreamUnits => loop' # "running"
    <3> SUFFICES ASSUME cursor' = StreamUnits, finalAt' = StreamUnits, loop' = "running" PROVE FALSE
        OBVIOUS
    <3>1. StreamUnits \in segments'
          BY <1>10 DEF ReceiveShape, FINIsBuffered
    <3>2. StreamUnits > StreamUnits
          BY <1>6, <3>1
    <3> QED BY <3>2
  <2> QED BY <1>3, <1>8, <2>1, <2>2 DEF DeliveredInOrder
<1>12. \A g \in segments \cup {f} : g < StreamUnits => g < cursor' \/ g \in segments'
  <2> SUFFICES ASSUME NEW g \in segments \cup {f}, g < StreamUnits, g \in f .. r PROVE g < r
      BY <1>3, <1>1, <1>4
  <2>1. g # r
    <3>1. CASE g = f
          BY <1>2, <1>4, <3>1 DEF Size
    <3>2. CASE g \in segments
          BY <1>2, <1>4, <3>2
    <3> QED BY <3>1, <3>2
  <2> QED BY <1>4, <2>1
<1> QED BY <1>1, <1>3, <1>4, <1>8, <1>9, <1>10, <1>11, <1>12

LEMMA TailOfConcat ==
  ASSUME NEW S \in Seq(Frames), NEW T \in Seq(Frames), S # <<>>
  PROVE  S \o T # <<>> /\ Head(S \o T) = Head(S) /\ Tail(S \o T) = Tail(S) \o T
<1>1. /\ S \o T \in Seq(Frames) /\ Len(S \o T) = Len(S) + Len(T)
      /\ \A i \in 1 .. Len(S) + Len(T) : (S \o T)[i] = IF i <= Len(S) THEN S[i] ELSE T[i - Len(S)]
      BY ConcatProperties
<1>2. /\ Tail(S) \in Seq(Frames) /\ Len(Tail(S)) = Len(S) - 1
      /\ \A i \in 1 .. Len(Tail(S)) : Tail(S)[i] = S[i + 1]
      BY HeadTailProperties
<1>3. Len(S) \in Nat \ {0} /\ Len(T) \in Nat
      BY <1>2
<1>4. S \o T # <<>>
      BY <1>1, <1>3
<1>5. /\ Tail(S \o T) \in Seq(Frames) /\ Len(Tail(S \o T)) = Len(S) + Len(T) - 1
      /\ \A i \in 1 .. Len(S) + Len(T) - 1 : Tail(S \o T)[i] = (S \o T)[i + 1]
      BY <1>1, <1>4, HeadTailProperties
<1>6. /\ Tail(S) \o T \in Seq(Frames) /\ Len(Tail(S) \o T) = Len(S) + Len(T) - 1
      /\ \A i \in 1 .. Len(S) - 1 + Len(T) :
           (Tail(S) \o T)[i] = IF i <= Len(S) - 1 THEN Tail(S)[i] ELSE T[i - (Len(S) - 1)]
      BY <1>2, <1>3, ConcatProperties
<1>7. ASSUME NEW i \in 1 .. Len(S) + Len(T) - 1 PROVE Tail(S \o T)[i] = (Tail(S) \o T)[i]
  <2>1. Tail(S \o T)[i] = IF i + 1 <= Len(S) THEN S[i + 1] ELSE T[i + 1 - Len(S)]
        BY <1>1, <1>3, <1>5
  <2>2. (Tail(S) \o T)[i] = IF i <= Len(S) - 1 THEN S[i + 1] ELSE T[i - (Len(S) - 1)]
        BY <1>2, <1>3, <1>6
  <2>3. i + 1 - Len(S) = i - (Len(S) - 1) /\ (i + 1 <= Len(S) <=> i <= Len(S) - 1)
        BY <1>3
  <2> QED BY <2>1, <2>2, <2>3
<1>8. Tail(S \o T) = Tail(S) \o T
      BY <1>5, <1>6, <1>7, SeqEqual
<1>9. Head(S \o T) = Head(S)
      BY <1>1, <1>3
<1> QED BY <1>4, <1>8, <1>9

LEMMA EventLeaves ==
  ASSUME ReceiveTypeOK, events # <<>>, events' = Tail(events), inHand' = inHand, queue' = queue
  PROVE  /\ events' \in Seq(Frames) /\ Len(events') <= EventSlots /\ Head(events) \in Frames
         /\ InFlight # <<>> /\ Head(InFlight) = Head(events) /\ InFlight' = Tail(InFlight)
<1>1. /\ events \in Seq(Frames) /\ queue \in Seq(Frames) /\ inHand \in Seq(Frames) /\ Len(events) <= EventSlots
      BY DEF ReceiveTypeOK
<1>2. /\ Tail(events) \in Seq(Frames) /\ Len(Tail(events)) = Len(events) - 1 /\ Head(events) \in Frames
      BY <1>1, HeadTailProperties
<1>3. /\ events \o inHand # <<>> /\ Head(events \o inHand) = Head(events)
      /\ Tail(events \o inHand) = Tail(events) \o inHand
      BY <1>1, TailOfConcat
<1>4. events \o inHand \in Seq(Frames)
      BY <1>1, ConcatProperties
<1>5. /\ (events \o inHand) \o queue # <<>> /\ Head((events \o inHand) \o queue) = Head(events)
      /\ Tail((events \o inHand) \o queue) = (Tail(events) \o inHand) \o queue
      BY <1>1, <1>3, <1>4, TailOfConcat
<1>6. InFlight = (events \o inHand) \o queue /\ InFlight' = (Tail(events) \o inHand) \o queue
      BY DEF InFlight
<1>7. Len(events') <= EventSlots
      BY <1>1, <1>2, ReceivePathConstants
<1> QED BY <1>2, <1>5, <1>6, <1>7

\* A frame beyond the cursor is retained, or the flow fails.
LEMMA RetainKeeps ==
  ASSUME ReceiveIInv, NEW f \in Frames, loop = "running", ~Duplicate(f), f # cursor, Retain(f),
         others' = others, queue' = queue, pumping' = pumping, inHand' = inHand, finished' = finished
  PROVE  /\ cursor' = cursor /\ segments \subseteq segments' /\ segments' \subseteq Frames
         /\ finalAt' \in {StreamUnits, StreamUnits + 1} /\ app' = app /\ loop' \in {"running", "failed"}
         /\ used' \in 0..Capacity /\ Owned' /\ ReceiveShape' /\ DeliveredInOrder'
         /\ loop' = "running" => f \in segments'
<1> USE ReceivePathConstants
<1>1. /\ segments \subseteq Frames /\ cursor \in 0..StreamUnits /\ used \in 0..Capacity /\ others \in Nat
      /\ queue \in Seq(Frames) /\ finalAt \in {StreamUnits, StreamUnits + 1}
      BY DEF ReceiveIInv, ReceiveInv, BudgetInv, ReceiveTypeOK
<1>2. used = others + Weight(queue) + Cardinality(Charged)
      BY DEF ReceiveIInv, ReceiveInv, BudgetInv, BudgetIsOwned
<1>3. /\ Weight(queue)' = Weight(queue) /\ Weight(queue) \in Nat
      /\ IsFiniteSet(Charged) /\ Cardinality(Charged) \in Nat
      BY <1>1, DataIsFinite, ChargedIsFinite
<1>4. cursor' = cursor /\ app' = app
      BY DEF Retain
<1>5. CASE loop' = "failed" /\ UNCHANGED <<segments, used, finalAt>>
  <2>1. Owned'
        BY <1>2, <1>5 DEF Owned, Charged
  <2>2. ReceiveShape'
        BY <1>4, <1>5 DEF ReceiveIInv, ReceiveShape, BeyondCursor, PumpLeavesNone, FINIsBuffered, ReturnedIsEmpty
  <2>3. DeliveredInOrder'
        BY <1>4, <1>5 DEF ReceiveIInv, ReceiveInv, DeliveredInOrder
  <2> QED BY <1>1, <1>4, <1>5, <2>1, <2>2, <2>3
<1>6. CASE /\ Granted(Size(f)) /\ segments' = segments \cup {f} /\ used' = used + Size(f)
           /\ finalAt' = (IF f = StreamUnits THEN StreamUnits ELSE finalAt) /\ loop' = loop
  <2>1. f > cursor /\ f \notin segments
        BY <1>1 DEF Duplicate, Frames, Size
  <2>2. Cardinality(Charged') = Cardinality(Charged) + Size(f)
    <3>1. Charged' = IF Size(f) > 0 THEN Charged \cup {f} ELSE Charged
          BY <1>6 DEF Charged
    <3>2. f \notin Charged
          BY <2>1 DEF Charged
    <3>3. Cardinality(Charged \cup {f}) = Cardinality(Charged) + 1
          BY <1>3, <3>2, FS_AddElement
    <3> QED BY <1>3, <3>1, <3>3, SizeType
  <2>3. used' = others + Weight(queue) + Cardinality(Charged')
        BY <1>1, <1>2, <1>3, <1>6, <2>2, SizeType
  <2>4. Owned'
        BY <1>3, <2>3 DEF Owned
  <2>5. used' \in 0..Capacity
        BY <1>1, <1>6, SizeType DEF Granted
  <2>6. ReceiveShape'
    <3>1. BeyondCursor'
          BY <1>4, <1>6, <2>1 DEF ReceiveIInv, ReceiveShape, BeyondCursor
    <3>2. PumpLeavesNone' /\ ReturnedIsEmpty'
          BY <1>6 DEF ReceiveIInv, ReceiveShape, PumpLeavesNone, ReturnedIsEmpty
    <3>3. FINIsBuffered'
          BY <1>6 DEF ReceiveIInv, ReceiveShape, FINIsBuffered
    <3> QED BY <3>1, <3>2, <3>3 DEF ReceiveShape
  <2>7. DeliveredInOrder'
    <3>1. cursor' = StreamUnits => FALSE
          BY <1>1, <1>4, <2>1 DEF Frames
    <3>2. Len(app') = cursor' /\ \A i \in 1..Len(app') : app'[i] = i - 1
          BY <1>4 DEF ReceiveIInv, ReceiveInv, DeliveredInOrder
    <3> QED BY <1>6, <3>1, <3>2 DEF DeliveredInOrder
  <2> QED BY <1>1, <1>4, <1>6, <2>4, <2>5, <2>6, <2>7
<1> QED BY <1>5, <1>6 DEF Retain

LEMMA EventKeeps ==
  ASSUME ReceiveIInv, ReceiveEvent
  PROVE  /\ ReceiveTypeOK' /\ Owned' /\ ReceiveShape' /\ DeliveredInOrder'
         /\ InFlight # <<>> /\ InFlight' = Tail(InFlight) /\ accepted' = accepted /\ finished' = finished
         /\ cursor <= cursor'
         /\ \A g \in segments \cup {Head(InFlight)} :
              g < StreamUnits => loop' # "running" \/ g < cursor' \/ g \in segments'
<1> USE ReceivePathConstants
<1> DEFINE f == Head(events)
<1>1. /\ loop = "running" /\ events # <<>> /\ events' = Tail(events)
      /\ queue' = queue /\ inHand' = inHand /\ pumping' = pumping /\ ackErr' = ackErr /\ finished' = finished
      /\ others' = others /\ reads' = reads /\ accepted' = accepted
      BY DEF ReceiveEvent, counters
<1>2. ReceiveTypeOK
      BY DEF ReceiveIInv, ReceiveInv, BudgetInv
<1>3. /\ events' \in Seq(Frames) /\ Len(events') <= EventSlots /\ f \in Frames
      /\ InFlight # <<>> /\ Head(InFlight) = f /\ InFlight' = Tail(InFlight)
      BY <1>1, <1>2, EventLeaves
<1>4. ASSUME cursor' \in cursor..StreamUnits, segments' \subseteq Frames,
             finalAt' \in {StreamUnits, StreamUnits + 1}, app' \in Seq(Frames),
             loop' \in {"running", "closed", "failed"}, used' \in 0..Capacity
      PROVE  ReceiveTypeOK' /\ cursor <= cursor'
  <2>1. cursor \in 0..StreamUnits
        BY <1>2 DEF ReceiveTypeOK
  <2>2. cursor' \in 0..StreamUnits /\ cursor <= cursor'
        BY <1>4, <2>1
  <2> QED BY <1>1, <1>2, <1>3, <1>4, <2>2 DEF ReceiveTypeOK
<1>5. CASE Duplicate(f) /\ UNCHANGED <<reassembler, used>>
  <2>1. cursor' = cursor /\ segments' = segments /\ finalAt' = finalAt /\ app' = app /\ loop' = loop /\ used' = used
        BY <1>5 DEF reassembler
  <2>2. ReceiveTypeOK' /\ cursor <= cursor'
    <3>1. cursor \in cursor..StreamUnits
          BY <1>2 DEF ReceiveTypeOK
    <3> QED BY <1>1, <1>2, <1>4, <2>1, <3>1 DEF ReceiveTypeOK
  <2>3. Owned'
        BY <1>1, <2>1 DEF ReceiveIInv, ReceiveInv, BudgetInv, BudgetIsOwned, Owned, Charged
  <2>4. ReceiveShape'
        BY <1>1, <2>1 DEF ReceiveIInv, ReceiveShape, BeyondCursor, PumpLeavesNone, FINIsBuffered, ReturnedIsEmpty
  <2>5. DeliveredInOrder'
        BY <1>1, <2>1 DEF ReceiveIInv, ReceiveInv, DeliveredInOrder
  <2>6. f < cursor \/ f \in segments
        BY <1>5 DEF Duplicate
  <2> QED BY <1>1, <1>3, <2>1, <2>2, <2>3, <2>4, <2>5, <2>6
<1>6. CASE f = cursor /\ Consume(f)
  <2>1. /\ cursor' \in cursor..StreamUnits /\ segments' \subseteq segments
        /\ finalAt' \in {StreamUnits, StreamUnits + 1} /\ app' \in Seq(Frames) /\ loop' \in {"running", "closed"}
        /\ used' \in 0..Capacity /\ Owned' /\ ReceiveShape' /\ DeliveredInOrder'
        /\ \A g \in segments \cup {f} : g < StreamUnits => g < cursor' \/ g \in segments'
        BY <1>1, <1>3, <1>6, ConsumeKeeps
  <2>2. ReceiveTypeOK' /\ cursor <= cursor'
    <3>1. segments' \subseteq Frames
          BY <1>2, <2>1 DEF ReceiveTypeOK
    <3> QED BY <1>4, <2>1, <3>1
  <2> QED BY <1>1, <1>3, <2>1, <2>2
<1>7. CASE ~Duplicate(f) /\ f # cursor /\ Retain(f)
  <2>1. /\ cursor' = cursor /\ segments \subseteq segments' /\ segments' \subseteq Frames
        /\ finalAt' \in {StreamUnits, StreamUnits + 1} /\ app' = app /\ loop' \in {"running", "failed"}
        /\ used' \in 0..Capacity /\ Owned' /\ ReceiveShape' /\ DeliveredInOrder'
        /\ loop' = "running" => f \in segments'
        BY <1>1, <1>3, <1>7, RetainKeeps
  <2>2. ReceiveTypeOK' /\ cursor <= cursor'
    <3>1. cursor \in cursor..StreamUnits /\ app \in Seq(Frames)
          BY <1>2 DEF ReceiveTypeOK
    <3> QED BY <1>4, <2>1, <3>1
  <2> QED BY <1>1, <1>3, <2>1, <2>2
<1> QED BY <1>5, <1>6, <1>7 DEF ReceiveEvent

\* The loop's other steps and those of the flow and its neighbours.
LEMMA OtherStepsKeep ==
  ASSUME ReceiveIInv, ReceiveReplay \/ LoopReturns \/ FlowEnds \/ OtherAcquires \/ OtherReleases
  PROVE  /\ ReceiveTypeOK' /\ Owned' /\ ReceiveShape' /\ DeliveredInOrder'
         /\ accepted' = accepted /\ cursor' = cursor /\ (segments' = segments \/ loop' = "returned")
         /\ finished => finished'
         /\ loop # "running" => loop' # "running"
         /\ InFlight' = InFlight \/ (InFlight # <<>> /\ InFlight' = Tail(InFlight) /\ loop # "running")
<1> USE ReceivePathConstants
<1>1. /\ ReceiveTypeOK /\ segments \subseteq Frames /\ queue \in Seq(Frames)
      /\ used \in 0..Capacity /\ others \in 0..OtherFlows
      BY DEF ReceiveIInv, ReceiveInv, BudgetInv, ReceiveTypeOK
<1>2. used = others + Weight(queue) + Cardinality(Charged)
      BY DEF ReceiveIInv, ReceiveInv, BudgetInv, BudgetIsOwned
<1>3. Weight(queue) \in Nat /\ Cardinality(Charged) \in Nat
      BY <1>1, DataIsFinite, ChargedIsFinite
<1>4. CASE ReceiveReplay
  <2>1. /\ events # <<>> /\ events' = Tail(events) /\ inHand' = inHand /\ queue' = queue
        /\ UNCHANGED <<pumping, reassembler, ackErr, finished, used, others, counters>> /\ loop = "closed"
        BY <1>4 DEF ReceiveReplay
  <2>2. /\ events' \in Seq(Frames) /\ Len(events') <= EventSlots
        /\ InFlight # <<>> /\ InFlight' = Tail(InFlight)
        BY <1>1, <2>1, EventLeaves
  <2>3. ReceiveTypeOK'
        BY <1>1, <2>1, <2>2 DEF ReceiveTypeOK, reassembler, counters
  <2>4. Owned'
        BY <1>2, <2>1 DEF Owned, Charged, reassembler
  <2>5. ReceiveShape'
        BY <2>1 DEF ReceiveIInv, ReceiveShape, BeyondCursor, PumpLeavesNone, FINIsBuffered, ReturnedIsEmpty, reassembler
  <2>6. DeliveredInOrder'
        BY <2>1 DEF ReceiveIInv, ReceiveInv, DeliveredInOrder, reassembler
  <2> QED BY <2>1, <2>2, <2>3, <2>4, <2>5, <2>6 DEF reassembler, counters
<1>5. CASE LoopReturns
  <2>1. /\ UNCHANGED <<backlog, cursor, finalAt, app, ackErr, finished, others, counters>>
        /\ loop' = "returned" /\ segments' = {} /\ used' = used - Cardinality(Charged)
        BY <1>5 DEF LoopReturns
  <2>2. Charged' = {} /\ Cardinality(Charged') = 0
    <3>1. Charged' = {}
          BY <2>1 DEF Charged
    <3> QED BY <3>1, FS_EmptySet
  <2>3. used' = others + Weight(queue) /\ used' \in 0..Capacity
        BY <1>1, <1>2, <1>3, <2>1
  <2>4. Owned'
        BY <1>1, <1>3, <2>1, <2>2, <2>3 DEF Owned, backlog
  <2>5. ReceiveTypeOK'
        BY <1>1, <2>1, <2>3 DEF ReceiveTypeOK, backlog, counters
  <2>6. ReceiveShape'
        BY <2>1 DEF ReceiveIInv, ReceiveShape, BeyondCursor, PumpLeavesNone, FINIsBuffered, ReturnedIsEmpty, backlog
  <2>7. DeliveredInOrder'
        BY <2>1 DEF ReceiveIInv, ReceiveInv, DeliveredInOrder
  <2>8. InFlight' = InFlight
        BY <2>1 DEF InFlight, backlog
  <2> QED BY <2>1, <2>4, <2>5, <2>6, <2>7, <2>8 DEF counters
<1>6. CASE FlowEnds
  <2>1. UNCHANGED <<backlog, reassembler, ackErr, used, others, counters>> /\ finished' = TRUE
        BY <1>6 DEF FlowEnds
  <2>2. ReceiveTypeOK'
        BY <1>1, <2>1 DEF ReceiveTypeOK, backlog, reassembler, counters
  <2>3. Owned'
        BY <1>2, <2>1 DEF Owned, Charged, backlog, reassembler
  <2>4. ReceiveShape'
        BY <2>1 DEF ReceiveIInv, ReceiveShape, BeyondCursor, PumpLeavesNone, FINIsBuffered, ReturnedIsEmpty, backlog, reassembler
  <2>5. DeliveredInOrder'
        BY <2>1 DEF ReceiveIInv, ReceiveInv, DeliveredInOrder, reassembler
  <2>6. InFlight' = InFlight
        BY <2>1 DEF InFlight, backlog
  <2> QED BY <2>1, <2>2, <2>3, <2>4, <2>5, <2>6 DEF reassembler, counters
<1>7. CASE OtherAcquires \/ OtherReleases
  <2>1. UNCHANGED <<backlog, reassembler, ackErr, finished, counters>>
        BY <1>7 DEF OtherAcquires, OtherReleases
  <2>2. used' \in 0..Capacity /\ others' \in 0..OtherFlows /\ used' = others' + Weight(queue) + Cardinality(Charged)
    <3>1. CASE OtherAcquires
      <4>1. others < OtherFlows /\ 1 <= Capacity - used /\ others' = others + 1 /\ used' = used + 1
            BY <3>1 DEF OtherAcquires, Granted
      <4> QED BY <1>1, <1>2, <1>3, <4>1
    <3>2. CASE OtherReleases
      <4>1. others > 0 /\ others' = others - 1 /\ used' = used - 1
            BY <3>2 DEF OtherReleases
      <4> QED BY <1>1, <1>2, <1>3, <4>1
    <3> QED BY <1>7, <3>1, <3>2
  <2>3. ReceiveTypeOK'
        BY <1>1, <2>1, <2>2 DEF ReceiveTypeOK, backlog, reassembler, counters
  <2>4. Owned'
        BY <2>1, <2>2 DEF Owned, Charged, backlog, reassembler
  <2>5. ReceiveShape'
        BY <2>1 DEF ReceiveIInv, ReceiveShape, BeyondCursor, PumpLeavesNone, FINIsBuffered, ReturnedIsEmpty, backlog, reassembler
  <2>6. DeliveredInOrder'
        BY <2>1 DEF ReceiveIInv, ReceiveInv, DeliveredInOrder, reassembler
  <2>7. InFlight' = InFlight
        BY <2>1 DEF InFlight, backlog
  <2> QED BY <2>1, <2>3, <2>4, <2>5, <2>6, <2>7 DEF reassembler, counters
<1> QED BY <1>4, <1>5, <1>6, <1>7

-----------------------------------------------------------------------------
(* The invariant *)

LEMMA ReceiveInitInv == ReceiveInit => ReceiveIInv
<1> SUFFICES ASSUME ReceiveInit PROVE ReceiveIInv
    OBVIOUS
<1> USE ReceivePathConstants
<1>1. ReceiveTypeOK
  <2>1. <<>> \in Seq(Frames) /\ Len(<<>>) = 0
        OBVIOUS
  <2>2. cursor \in 0..StreamUnits /\ used \in 0..Capacity /\ others \in 0..OtherFlows /\ reads \in 0..MaxReads
        BY DEF ReceiveInit
  <2>3. segments \subseteq Frames /\ accepted \subseteq Frames /\ finalAt \in {StreamUnits, StreamUnits + 1}
        BY DEF ReceiveInit
  <2>4. events = <<>> /\ queue = <<>> /\ inHand = <<>> /\ app = <<>> /\ loop = "running"
        BY DEF ReceiveInit
  <2>5. pumping \in BOOLEAN /\ ackErr \in BOOLEAN /\ finished \in BOOLEAN
        BY DEF ReceiveInit
  <2> QED BY <2>1, <2>2, <2>3, <2>4, <2>5 DEF ReceiveTypeOK
<1>2. ReceiveShape
      BY DEF ReceiveInit, ReceiveShape, BeyondCursor, PumpLeavesNone, FINIsBuffered, ReturnedIsEmpty
<1>3. BudgetIsOwned
  <2>1. Charged = {}
        BY DEF ReceiveInit, Charged
  <2>2. Cardinality(Charged) = 0 /\ Weight(queue) = 0
        BY <2>1, FS_EmptySet, WeightOfNone DEF ReceiveInit
  <2> QED BY <2>2 DEF ReceiveInit, BudgetIsOwned
<1>4. AcceptedIsHeld
      BY DEF ReceiveInit, AcceptedIsHeld
<1>5. DeliveredInOrder
  <2>1. Len(app) = 0
        BY DEF ReceiveInit
  <2> QED BY <2>1 DEF ReceiveInit, DeliveredInOrder
<1> QED BY <1>1, <1>2, <1>3, <1>4, <1>5 DEF ReceiveIInv, ReceiveInv, BudgetInv

\* A step moves the frames under way in their order, and those accepted stay held.
LEMMA ReceiveStep ==
  ASSUME ReceiveIInv, [ReceiveNext]_receiveVars
  PROVE  /\ ReceiveIInv'
         /\ \/ InFlight' = InFlight
            \/ \E f \in Frames : InFlight' = Append(InFlight, f)
            \/ InFlight # <<>> /\ InFlight' = Tail(InFlight)
            \/ finished
<1>1. ReceiveTypeOK /\ AcceptedIsHeld /\ DeliveredInOrder
      BY DEF ReceiveIInv, ReceiveInv, BudgetInv
<1>2. InFlight \in Seq(Frames)
      BY <1>1, InFlightIsSeq
<1>3. ASSUME ReceiveTypeOK', Owned', ReceiveShape', DeliveredInOrder', AcceptedIsHeld'
      PROVE  ReceiveIInv'
  <2>1. BudgetIsOwned'
        BY <1>3, OwnedAtRest, PTL
  <2> QED BY <1>3, <2>1 DEF ReceiveIInv, ReceiveInv, BudgetInv
<1>4. ASSUME NEW f \in Frames, ReadFrame(f) PROVE ReceiveIInv' /\ (InFlight' = InFlight \/ InFlight' = Append(InFlight, f))
  <2>1. /\ ReceiveTypeOK' /\ Owned' /\ ReceiveShape'
        /\ (InFlight' = InFlight /\ accepted' = accepted)
              \/ (InFlight' = Append(InFlight, f) /\ accepted' = accepted \cup {f})
        BY <1>4, ReadStep
  <2>2. UNCHANGED <<cursor, segments, finalAt, app, loop, finished>>
        BY <1>4 DEF ReadFrame, reassembler
  <2>3. DeliveredInOrder'
        BY <1>1, <2>2 DEF DeliveredInOrder
  <2>4. AcceptedIsHeld'
    <3> SUFFICES ASSUME NEW g \in accepted', g \in 0 .. StreamUnits - 1, ~finished, loop = "running",
                        ~(g < cursor), g \notin segments
                 PROVE  \E i \in 1..Len(InFlight') : InFlight'[i] = g
        BY <2>2 DEF AcceptedIsHeld
    <3>1. g \in accepted => \E i \in 1..Len(InFlight) : InFlight[i] = g
          BY <1>1 DEF AcceptedIsHeld
    <3>2. CASE InFlight' = InFlight /\ accepted' = accepted
          BY <3>1, <3>2
    <3>3. CASE InFlight' = Append(InFlight, f) /\ accepted' = accepted \cup {f}
      <4>1. g = f \/ \E i \in 1..Len(InFlight) : InFlight[i] = g
            BY <3>1, <3>3
      <4>2. \E i \in 1..Len(Append(InFlight, f)) : Append(InFlight, f)[i] = g
            BY <1>2, <4>1, AppendKeeps
      <4> QED BY <3>3, <4>2
    <3> QED BY <2>1, <3>2, <3>3
  <2> QED BY <1>3, <2>1, <2>3, <2>4
<1>5. CASE PumpStep
  <2>1. /\ ReceiveTypeOK' /\ Owned' /\ ReceiveShape'
        /\ InFlight' = InFlight \/ finished
        BY <1>5, PumpKeeps
  <2>2. UNCHANGED <<cursor, segments, finalAt, app, loop, finished, accepted>>
        BY <1>5 DEF PumpStep, PumpTakes, PumpPublishes, PumpRetires, PumpCleansUp, reassembler, counters
  <2>3. DeliveredInOrder'
        BY <1>1, <2>2 DEF DeliveredInOrder
  <2>4. AcceptedIsHeld'
        BY <1>1, <2>1, <2>2 DEF AcceptedIsHeld
  <2> QED BY <1>3, <2>1, <2>3, <2>4
<1>6. CASE ReceiveEvent
  <2>1. /\ ReceiveTypeOK' /\ Owned' /\ ReceiveShape' /\ DeliveredInOrder'
        /\ InFlight # <<>> /\ InFlight' = Tail(InFlight) /\ accepted' = accepted /\ finished' = finished
        /\ cursor <= cursor'
        /\ \A g \in segments \cup {Head(InFlight)} :
              g < StreamUnits => loop' # "running" \/ g < cursor' \/ g \in segments'
        BY <1>6, EventKeeps
  <2>2. loop = "running" /\ cursor \in Int /\ cursor' \in Int
        BY <1>1, <1>6, <2>1 DEF ReceiveEvent, ReceiveTypeOK
  <2>3. AcceptedIsHeld'
    <3> SUFFICES ASSUME NEW g \in accepted, g \in 0 .. StreamUnits - 1, ~finished, loop' = "running",
                        ~(g < cursor'), g \notin segments'
                 PROVE  \E i \in 1..Len(InFlight') : InFlight'[i] = g
        BY <2>1 DEF AcceptedIsHeld
    <3>1. g < StreamUnits /\ ~(g < cursor)
          BY <2>1, <2>2, ReceivePathConstants
    <3>2. g # Head(InFlight) /\ g \notin segments
          BY <2>1, <3>1
    <3>3. \E i \in 1..Len(InFlight) : InFlight[i] = g
          BY <1>1, <2>2, <3>1, <3>2 DEF AcceptedIsHeld
    <3>4. \E i \in 1..Len(Tail(InFlight)) : Tail(InFlight)[i] = g
          BY <1>2, <2>1, <3>2, <3>3, TailKeeps
    <3> QED BY <2>1, <3>4
  <2> QED BY <1>3, <2>1, <2>3
<1>7. CASE ReceiveReplay \/ LoopReturns \/ FlowEnds \/ OtherAcquires \/ OtherReleases
  <2>1. /\ ReceiveTypeOK' /\ Owned' /\ ReceiveShape' /\ DeliveredInOrder'
        /\ accepted' = accepted /\ cursor' = cursor /\ (segments' = segments \/ loop' = "returned")
        /\ finished => finished'
        /\ loop # "running" => loop' # "running"
        /\ InFlight' = InFlight \/ (InFlight # <<>> /\ InFlight' = Tail(InFlight) /\ loop # "running")
        BY <1>7, OtherStepsKeep
  <2>2. AcceptedIsHeld'
        BY <1>1, <2>1 DEF AcceptedIsHeld
  <2> QED BY <1>3, <2>1, <2>2
<1>8. CASE UNCHANGED receiveVars
  <2>1. UNCHANGED <<events, queue, inHand, pumping, cursor, segments, finalAt, app, loop, ackErr, finished,
                    used, others, reads, accepted>>
        BY <1>8 DEF receiveVars, backlog, reassembler, counters
  <2>2. InFlight' = InFlight
        BY <2>1 DEF InFlight
  <2>3. ReceiveTypeOK'
        BY <1>1, <2>1 DEF ReceiveTypeOK
  <2>4. Owned'
        BY <2>1 DEF ReceiveIInv, ReceiveInv, BudgetInv, BudgetIsOwned, Owned, Charged
  <2>5. ReceiveShape'
        BY <2>1 DEF ReceiveIInv, ReceiveShape, BeyondCursor, PumpLeavesNone, FINIsBuffered, ReturnedIsEmpty
  <2>6. DeliveredInOrder' /\ AcceptedIsHeld'
        BY <1>1, <2>1, <2>2 DEF DeliveredInOrder, AcceptedIsHeld
  <2> QED BY <1>3, <2>2, <2>3, <2>4, <2>5, <2>6
<1> QED BY <1>4, <1>5, <1>6, <1>7, <1>8 DEF ReceiveNext, LoopStep, ReceiveEnded

\* What was accepted is paid for once, held until it is delivered, and delivered in order:
\* no order of readers, pump, loop and the flow's end loses, doubles or leaks a frame or its
\* charge (inbound_queue.go:54, reassembly.go:112).
THEOREM ReceivePathIsSafe == ReceiveSpec => []ReceiveInv
<1>1. ReceiveIInv /\ [ReceiveNext]_receiveVars => ReceiveIInv'
      BY ReceiveStep
<1>2. ReceiveIInv => ReceiveInv
      BY DEF ReceiveIInv
<1> QED BY ReceiveInitInv, <1>1, <1>2, PTL DEF ReceiveSpec

\* Frames reach the loop in the order the readers delivered them, whichever of them took
\* the channel and which the backlog (inbound_queue.go:54).
THEOREM ReadOrderIsKept == ReceiveSpec => ReadOrderKept
<1>1. ReceiveIInv /\ [ReceiveNext]_receiveVars => ReceiveIInv'
      BY ReceiveStep
<1>2. ReceiveIInv /\ [ReceiveNext]_receiveVars
        => [\/ InFlight' = InFlight
            \/ \E f \in Frames : InFlight' = Append(InFlight, f)
            \/ InFlight # <<>> /\ InFlight' = Tail(InFlight)
            \/ finished]_receiveVars
      BY ReceiveStep
<1> QED BY ReceiveInitInv, <1>1, <1>2, PTL DEF ReceiveSpec, ReadOrderKept

-----------------------------------------------------------------------------
(* UDPAssociation: the replay window *)

\* The bounds are numbers.
LEMMA Bounds == Width \in Nat \ {0} /\ ReadSlots \in Nat /\ Packets \in Nat /\ Repeats \in Nat
BY UDPConstants

\* A queue of frames stays one when a frame is put or taken.
LEMMA Queues ==
  ASSUME NEW S, NEW q \in Seq(S)
  PROVE  /\ \A e \in S : Append(q, e) \in Seq(S)
         /\ q # <<>> => Head(q) \in S /\ Tail(q) \in Seq(S)
OBVIOUS

\* An association begins with an empty window and nothing relayed.
LEMMA WindowInit == UDPInit => WindowInv
<1> SUFFICES ASSUME UDPInit PROVE WindowInv
  OBVIOUS
<1> USE Bounds DEF UDPInit
<1>1. UDPTypeOK
  <2>1. <<>> \in Seq(UpFrames) /\ <<>> \in Seq(DownFrames) /\ <<>> \in Seq({"reply"})
    OBVIOUS
  <2>2. relayed \in [Seqs -> Nat] /\ 0 \in 0 .. Packets /\ 0 \in 0 .. Repeats /\ 0 \in 0 .. ReadSlots
    OBVIOUS
  <2> QED BY <2>1, <2>2 DEF UDPTypeOK
<1>2. RelayedOnce
  BY DEF RelayedOnce, Seqs
<1> QED BY <1>1, <1>2 DEF WindowInv

\* What WindowInv says of the window alone.
WindowIsExact ==
  /\ highest \in Nat /\ seen \in SUBSET (0 .. Width - 1) /\ relayed \in [Seqs -> Nat]
  /\ RelayedOnce

\* A number above the highest shifts the bitmap, which stays exact (packetWindow.admit).
LEMMA ShiftKeepsTheWindow ==
  ASSUME WindowIsExact, NEW s \in Seqs, s > highest, Admit(s),
         relayed' = [relayed EXCEPT ![s] = @ + 1]
  PROVE  WindowIsExact'
<1> USE Bounds DEF Seqs
<1>1. highest' = s /\ seen' = {0} \cup ({d + (s - highest) : d \in seen} \cap (0 .. Width - 1))
  BY DEF Admit, Shifted
<1>2. relayed[s] = 0 /\ relayed'[s] = 1 /\ \A t \in Seqs : t # s => relayed'[t] = relayed[t]
  BY DEF WindowIsExact, RelayedOnce
<1>3. highest' \in Nat /\ seen' \in SUBSET (0 .. Width - 1) /\ relayed' \in [Seqs -> Nat]
  BY <1>1 DEF WindowIsExact
<1>4. \A t \in Seqs : relayed'[t] <= 1 /\ (relayed'[t] > 0 => t <= highest')
  BY <1>1, <1>2 DEF WindowIsExact, RelayedOnce
<1>5. ASSUME NEW d \in 0 .. Width - 1
      PROVE  d \in seen' <=> s - d \in Seqs /\ relayed'[s - d] = 1
  <2>1. CASE d = 0
    BY <2>1, <1>1, <1>2
  <2>2. CASE d # 0 /\ d < s - highest
    <3>1. d \notin seen'
      BY <2>2, <1>1 DEF WindowIsExact
    <3>2. ASSUME s - d \in Seqs PROVE relayed'[s - d] = 0
      <4> DEFINE t == s - d
      <4>1. t \in Seqs /\ t > highest /\ t # s
        BY <2>2, <3>2 DEF WindowIsExact
      <4>2. relayed[t] = 0
        BY <4>1 DEF WindowIsExact, RelayedOnce
      <4> HIDE DEF t
      <4>3. relayed'[t] = 0
        BY <4>1, <4>2, <1>2
      <4> QED BY <4>3 DEF t
    <3> QED BY <3>1, <3>2
  <2>3. CASE d >= s - highest
    <3> DEFINE e == d - (s - highest)
    <3>1. e \in 0 .. Width - 1 /\ highest - e = s - d /\ d # 0
      BY <2>3 DEF WindowIsExact
    <3>2. d \in seen' <=> e \in seen
      <4>1. d = e + (s - highest) /\ e \in Int
        BY DEF WindowIsExact
      <4>2. d \in seen' <=> \E x \in seen : d = x + (s - highest)
        BY <3>1, <1>1
      <4>3. ASSUME NEW x \in seen, d = x + (s - highest) PROVE x = e
        BY <4>1, <4>3 DEF WindowIsExact
      <4> HIDE DEF e
      <4> QED BY <4>1, <4>2, <4>3
    <3>3. e \in seen <=> s - d \in Seqs /\ relayed[s - d] = 1
      BY <3>1 DEF WindowIsExact, RelayedOnce
    <3>4. s - d \in Seqs => relayed'[s - d] = relayed[s - d]
      BY <3>1, <1>2
    <3> QED BY <3>2, <3>3, <3>4
  <2> QED BY <2>1, <2>2, <2>3 DEF WindowIsExact
<1> QED BY <1>1, <1>3, <1>4, <1>5 DEF WindowIsExact, RelayedOnce

\* A number within the window whose bit is clear sets it, and was not relayed before.
LEMMA FillKeepsTheWindow ==
  ASSUME WindowIsExact, NEW s \in Seqs, ~(s > highest), Admits(s), Admit(s),
         relayed' = [relayed EXCEPT ![s] = @ + 1]
  PROVE  WindowIsExact'
<1> USE Bounds DEF Seqs
<1>1. highest' = highest /\ seen' = seen \cup {highest - s}
  BY DEF Admit
<1>2. highest - s \in 0 .. Width - 1 /\ highest - s \notin seen /\ highest - (highest - s) = s
  BY DEF Admits, WindowIsExact
<1>3. relayed[s] = 0
  BY <1>2 DEF WindowIsExact, RelayedOnce
<1>4. relayed'[s] = 1 /\ \A t \in Seqs : t # s => relayed'[t] = relayed[t]
  BY <1>3 DEF WindowIsExact
<1>5. highest' \in Nat /\ seen' \in SUBSET (0 .. Width - 1) /\ relayed' \in [Seqs -> Nat]
  BY <1>1, <1>2 DEF WindowIsExact
<1>6. \A t \in Seqs : relayed'[t] <= 1 /\ (relayed'[t] > 0 => t <= highest')
  BY <1>1, <1>4 DEF WindowIsExact, RelayedOnce
<1>7. ASSUME NEW d \in 0 .. Width - 1
      PROVE  d \in seen' <=> highest - d \in Seqs /\ relayed'[highest - d] = 1
  <2>1. CASE d = highest - s
    BY <2>1, <1>1, <1>2, <1>4
  <2>2. CASE d # highest - s
    <3>1. highest - d # s
      BY <2>2 DEF WindowIsExact
    <3> QED BY <3>1, <2>2, <1>1, <1>4 DEF WindowIsExact, RelayedOnce
  <2> QED BY <2>1, <2>2
<1> QED BY <1>1, <1>5, <1>6, <1>7 DEF WindowIsExact, RelayedOnce

\* Everything but the relay's loop leaves the window alone, and keeps its types:
\* the application, the client's goroutines, the network and the relay's readers.
LEMMA OthersKeepTypes ==
  ASSUME UDPTypeOK, AppStep \/ CloseStep \/ ClientRead \/ ReadLoopStep \/ NetworkStep
                   \/ RelayRead \/ SocketReads
  PROVE  UDPTypeOK' /\ UNCHANGED window
<1> USE Bounds DEF UDPTypeOK, wire, client, server, window
<1>0. up \in Seq(UpFrames) /\ relayFrames \in Seq(UpFrames) /\ down \in Seq(DownFrames)
      /\ frames \in Seq(DownFrames) /\ Farewell \in UpFrames /\ Farewell \in DownFrames
  BY DEF UpFrames, DownFrames
<1>1. CASE AppStep
  <2>1. CASE WriteTo
    <3>1. seq \in Seqs /\ seq' \in 0 .. Packets
      BY <2>1 DEF WriteTo, Seqs
    <3>2. up' \in Seq(UpFrames)
      <4>1. up' = up \/ up' = Append(up, seq)
        BY <2>1 DEF WriteTo
      <4>2. seq \in UpFrames
        BY <3>1 DEF UpFrames
      <4> HIDE DEF UDPTypeOK
      <4> QED BY <1>0, <4>1, <4>2, Queues
    <3>3. air' \in SUBSET Seqs
      BY <2>1, <3>1 DEF WriteTo
    <3> QED BY <2>1, <3>1, <3>2, <3>3 DEF WriteTo
  <2>2. CASE ReadFrom
    BY <2>2 DEF ReadFrom
  <2>3. CASE CloseBegins
    BY <2>3 DEF CloseBegins, Tell
  <2>4. CASE ClientStops
    BY <2>4 DEF ClientStops
  <2> QED BY <1>1, <2>1, <2>2, <2>3, <2>4 DEF AppStep
<1>2. CASE CloseStep
  <2>1. CASE CloseCancels
    BY <2>1 DEF CloseCancels
  <2>2. CASE CloseWrites
    <3>1. up' \in Seq(UpFrames)
      <4>1. up' = up \/ up' = Append(up, Farewell)
        BY <2>2 DEF CloseWrites
      <4> HIDE DEF UDPTypeOK
      <4> QED BY <1>0, <4>1, Queues
    <3> QED BY <2>2, <3>1 DEF CloseWrites
  <2>3. CASE CloseEnds
    BY <2>3 DEF CloseEnds, ClientShuts
  <2> QED BY <1>2, <2>1, <2>2, <2>3 DEF CloseStep
<1>3. CASE ClientRead
  <2>1. CASE ClientReads
    <3>1. frames' \in Seq(DownFrames) /\ down' \in Seq(DownFrames)
      BY <1>0, <2>1, Queues DEF ClientReads
    <3> QED BY <2>1, <3>1 DEF ClientReads
  <2>2. CASE ClientReadFails
    BY <2>2 DEF ClientReadFails
  <2>3. CASE ClientReaderLeaves
    BY <2>3 DEF ClientReaderLeaves
  <2> QED BY <1>3, <2>1, <2>2, <2>3 DEF ClientRead
<1>4. CASE ReadLoopStep
  <2>1. CASE LoopForwards
    <3>1. frames' \in Seq(DownFrames)
      BY <1>0, <2>1, Queues DEF LoopForwards
    <3>2. unread' \in 0 .. ReadSlots /\ readLoop' \in {"waiting", "parked"}
      BY <2>1 DEF LoopForwards
    <3> QED BY <2>1, <3>1, <3>2 DEF LoopForwards
  <2>2. CASE LoopUnparks
    BY <2>2 DEF LoopUnparks
  <2>3. CASE LoopSeesFinal
    <3>1. frames' \in Seq(DownFrames) /\ down' \in Seq(DownFrames)
      BY <1>0, <2>3, Queues DEF LoopSeesFinal, ClientShuts
    <3> QED BY <2>3, <3>1 DEF LoopSeesFinal, ClientShuts
  <2>4. CASE LoopSeesError
    <3>1. down' \in Seq(DownFrames) /\ frames' \in Seq(DownFrames)
      BY <1>0, <2>4 DEF LoopSeesError, ClientShuts
    <3>2. /\ airDown' = {} /\ clientShut' = TRUE /\ frameErr' = FALSE /\ cancelled' = TRUE
          /\ readLoop' = "error"
          /\ UNCHANGED <<line, up, serverShut, air, repeats, server, seq, clientReader, unread,
                         stopped, closing, told>>
      BY <2>4 DEF LoopSeesError, ClientShuts
    <3>3. /\ clientShut' \in BOOLEAN /\ frameErr' \in BOOLEAN /\ cancelled' \in BOOLEAN
          /\ airDown' \in SUBSET Nat
          /\ readLoop' \in {"waiting", "parked", "clean", "error", "ended"}
      BY <3>2, Zenon
    <3>4. UNCHANGED <<line, up, serverShut, air, repeats, server, seq, clientReader, unread,
                      stopped, closing, told>>
      BY <3>2
    <3> QED BY <3>1, <3>3, <3>4
  <2>5. CASE LoopTells
    BY <2>5 DEF LoopTells, Tell
  <2>6. CASE LoopLeaves
    BY <2>6 DEF LoopLeaves
  <2> QED BY <1>4, <2>1, <2>2, <2>3, <2>4, <2>5, <2>6 DEF ReadLoopStep
<1>5. CASE NetworkStep
  <2>1. CASE LineBreaks
    BY <2>1 DEF LineBreaks
  <2>2. ASSUME NEW s \in air, RelayHears(s) PROVE UDPTypeOK' /\ UNCHANGED window
    <3>1. relayFrames' \in Seq(UpFrames) /\ air' \in SUBSET Seqs
      BY <1>0, <2>2, Queues DEF RelayHears, UpFrames
    <3>2. repeats' \in 0 .. Repeats
      BY <2>2 DEF RelayHears
    <3> QED BY <2>2, <3>1, <3>2 DEF RelayHears
  <2>3. ASSUME NEW r \in airDown, ClientHears(r) PROVE UDPTypeOK' /\ UNCHANGED window
    <3>1. frames' \in Seq(DownFrames) /\ airDown' \in SUBSET Nat
      BY <1>0, <2>3, Queues DEF ClientHears, DownFrames
    <3> QED BY <2>3, <3>1 DEF ClientHears
  <2> QED BY <1>5, <2>1, <2>2, <2>3 DEF NetworkStep
<1>6. CASE RelayRead
  <2>1. CASE RelayReads
    <3>1. relayFrames' \in Seq(UpFrames) /\ up' \in Seq(UpFrames)
      BY <1>0, <2>1, Queues DEF RelayReads
    <3> QED BY <2>1, <3>1 DEF RelayReads
  <2>2. CASE RelayReadFails
    BY <2>2 DEF RelayReadFails
  <2> QED BY <1>6, <2>1, <2>2 DEF RelayRead
<1>7. CASE SocketReads
  BY <1>7 DEF SocketReads
<1> QED BY <1>1, <1>2, <1>3, <1>4, <1>5, <1>6, <1>7

\* The cases of the relay's select that admit nothing leave the window alone too.
LEMMA RelayKeepsTypes ==
  ASSUME UDPTypeOK, RelayCloses \/ RelayReplies \/ RelaySeesError \/ RelayExpires
  PROVE  UDPTypeOK' /\ UNCHANGED window
<1> USE Bounds DEF UDPTypeOK, client, window, RelayEnds, RelayGoesOn
<1>0. up \in Seq(UpFrames) /\ relayFrames \in Seq(UpFrames) /\ down \in Seq(DownFrames)
      /\ Farewell \in DownFrames /\ <<>> \in Seq(UpFrames)
  BY DEF UpFrames, DownFrames
<1>1. CASE RelayCloses
  <2>1. relayFrames' \in Seq(UpFrames) /\ down' \in Seq(DownFrames) /\ up' \in Seq(UpFrames)
    <3>1. /\ relayFrames # <<>> /\ relayFrames' = Tail(relayFrames) /\ up' = <<>>
          /\ down' = down \/ down' = Append(down, Farewell)
      BY <1>1 DEF RelayCloses
    <3> HIDE DEF UDPTypeOK
    <3> QED BY <1>0, <3>1, Queues
  <2> QED BY <1>1, <2>1 DEF RelayCloses
<1>2. CASE RelayReplies
  <2>1. packets' \in Seq({"reply"}) /\ replySeq' \in Nat
    BY <1>2, Queues DEF RelayReplies
  <2>2. down' \in Seq(DownFrames) /\ airDown' \in SUBSET Nat
    <3>1. down' = down \/ down' = Append(down, replySeq)
      BY <1>2 DEF RelayReplies
    <3>2. replySeq \in DownFrames
      BY DEF DownFrames
    <3>3. airDown' = airDown \/ airDown' = airDown \cup {replySeq}
      BY <1>2 DEF RelayReplies
    <3>4. airDown' \in SUBSET Nat
      BY <3>3
    <3> HIDE DEF UDPTypeOK
    <3> QED BY <1>0, <3>1, <3>2, <3>4, Queues
  <2>3. up' \in Seq(UpFrames) /\ air' \in SUBSET Seqs /\ serverShut' \in BOOLEAN
        /\ relay' \in {"running", "failed"}
    BY <1>0, <1>2 DEF RelayReplies
  <2>4. UNCHANGED <<line, clientShut, repeats, client, relayFrames, relayErr, relayReader,
                    window>>
    BY <1>2 DEF RelayReplies
  <2> HIDE DEF RelayEnds, RelayGoesOn
  <2> QED BY <2>1, <2>2, <2>3, <2>4
<1>3. CASE RelaySeesError
  BY <1>3 DEF RelaySeesError
<1>4. CASE RelayExpires
  BY <1>4 DEF RelayExpires
<1> QED BY <1>1, <1>2, <1>3, <1>4

\* A frame of the client, taken by the relay's loop, keeps the window exact: it shifts
\* it, fills it, or is refused.
LEMMA RelayPacketKeepsWindow ==
  ASSUME WindowInv, RelayPacket
  PROVE  WindowInv'
<1> DEFINE s == Head(relayFrames)
<1>1. s \in Seqs /\ relayFrames' \in Seq(UpFrames)
  <2>1. /\ relayFrames \in Seq(UpFrames) /\ relayFrames # <<>> /\ s # Farewell
        /\ relayFrames' = Tail(relayFrames)
    BY DEF WindowInv, UDPTypeOK, RelayPacket
  <2>2. s \in UpFrames /\ relayFrames' \in Seq(UpFrames)
    BY <2>1, Queues
  <2> QED BY <2>1, <2>2 DEF UpFrames
<1>2. WindowIsExact
  BY DEF WindowInv, UDPTypeOK, WindowIsExact
<1>3. \/ Admits(s) /\ Admit(s) /\ relayed' = [relayed EXCEPT ![s] = @ + 1]
      \/ UNCHANGED window
  BY DEF RelayPacket
<1>4. WindowIsExact'
  <2> HIDE DEF s
  <2>1. CASE UNCHANGED window
    BY <1>2, <2>1 DEF WindowIsExact, RelayedOnce, window
  <2>2. CASE ~UNCHANGED window /\ s > highest
    BY <1>1, <1>2, <1>3, <2>2, ShiftKeepsTheWindow
  <2>3. CASE ~UNCHANGED window /\ ~(s > highest)
    BY <1>1, <1>2, <1>3, <2>3, FillKeepsTheWindow
  <2> QED BY <2>1, <2>2, <2>3
<1>5. relay' \in {"running", "failed"} /\ serverShut' \in BOOLEAN /\ air' \in SUBSET Seqs
      /\ up' \in Seq(UpFrames)
  <2>1. <<>> \in Seq(UpFrames)
    OBVIOUS
  <2>2. \/ relay' = "failed" /\ serverShut' = TRUE /\ up' = <<>> /\ air' = {}
        \/ relay' = "running" /\ UNCHANGED <<serverShut, up, air>>
    BY DEF RelayPacket, RelayEnds, RelayGoesOn
  <2> QED BY <2>1, <2>2 DEF WindowInv, UDPTypeOK
<1>6. UDPTypeOK'
  <2>1. UNCHANGED <<line, down, clientShut, airDown, repeats, client, relayErr, relayReader,
                    packets, replySeq>>
    BY DEF RelayPacket
  <2>2. highest' \in Nat /\ seen' \in SUBSET (0 .. Width - 1) /\ relayed' \in [Seqs -> Nat]
    BY <1>4 DEF WindowIsExact
  <2> QED BY <1>1, <1>5, <2>1, <2>2 DEF WindowInv, UDPTypeOK, client
<1> QED BY <1>4, <1>6 DEF WindowInv, WindowIsExact

\* Every step of the association preserves WindowInv.
LEMMA WindowStep == WindowInv /\ [UDPNext]_udpVars => WindowInv'
<1> SUFFICES ASSUME WindowInv, [UDPNext]_udpVars PROVE WindowInv'
  OBVIOUS
<1>1. ASSUME UDPTypeOK' /\ UNCHANGED window PROVE WindowInv'
  <2>1. RelayedOnce /\ highest' = highest /\ seen' = seen /\ relayed' = relayed
    BY <1>1 DEF WindowInv, window
  <2>2. RelayedOnce'
    BY <2>1 DEF RelayedOnce
  <2> QED BY <1>1, <2>2 DEF WindowInv
<1>2. CASE AppStep \/ CloseStep \/ ClientRead \/ ReadLoopStep \/ NetworkStep
             \/ RelayRead \/ SocketReads
  BY <1>1, <1>2, OthersKeepTypes DEF WindowInv
<1>3. CASE RelayCloses \/ RelayReplies \/ RelaySeesError \/ RelayExpires
  BY <1>1, <1>3, RelayKeepsTypes DEF WindowInv
<1>4. CASE RelayPacket
  BY <1>4, RelayPacketKeepsWindow
<1>5. CASE UNCHANGED udpVars
  <2>1. UDPTypeOK'
    BY <1>5 DEF WindowInv, UDPTypeOK, udpVars, wire, client, server, window
  <2> QED BY <1>1, <1>5, <2>1 DEF udpVars, server
<1> QED BY <1>2, <1>3, <1>4, <1>5 DEF UDPNext, RelayStep

\* The window of an association of any width is exact in every reachable state
\* (packetWindow, udp.go:84).
THEOREM WindowInvariant == UDPSpec => []WindowInv
BY WindowInit, WindowStep, PTL DEF UDPSpec

\* However often and in whatever order packets arrive, over stream and datagrams,
\* no packet is handed to the relay socket twice (packetWindow.admit, udp.go:88).
THEOREM NothingRelayedTwice == UDPSpec => [](\A s \in Seqs : relayed[s] <= 1)
<1>1. WindowInv => \A s \in Seqs : relayed[s] <= 1
  BY DEF WindowInv, RelayedOnce
<1> QED BY <1>1, WindowInvariant, PTL

-----------------------------------------------------------------------------
(* How an association ends *)

\* Taking a frame leaves no farewell where there was none; so does putting another frame.
LEMMA FarewellComesOnce ==
  ASSUME NEW S, NEW q \in Seq(S), NoFarewell(q)
  PROVE  /\ q # <<>> => NoFarewell(Tail(q)) /\ Head(q) # Farewell
         /\ \A e \in S : e # Farewell => NoFarewell(Append(q, e))
<1>1. ASSUME q # <<>> PROVE NoFarewell(Tail(q)) /\ Head(q) # Farewell
  <2>1. /\ Tail(q) \in Seq(S) /\ Len(Tail(q)) = Len(q) - 1 /\ Head(q) = q[1] /\ Len(q) \in Nat \ {0}
        /\ \A i \in 1..Len(Tail(q)) : Tail(q)[i] = q[i + 1]
    BY <1>1
  <2>2. ASSUME NEW i \in DOMAIN Tail(q) PROVE Tail(q)[i] # Farewell
    <3>1. i \in 1..Len(Tail(q)) /\ i + 1 \in DOMAIN q
      BY <2>1, <2>2
    <3> QED BY <2>1, <3>1 DEF NoFarewell
  <2> QED BY <2>1, <2>2 DEF NoFarewell
<1>2. ASSUME NEW e \in S, e # Farewell PROVE NoFarewell(Append(q, e))
  BY <1>2 DEF NoFarewell
<1> QED BY <1>1, <1>2

\* The frames the client's loop has before it.
ClientFrames ==
  \/ frames' = frames
  \/ frames # <<>> /\ frames' = Tail(frames)
  \/ \E e \in DownFrames : frames' = Append(frames, e) /\ (e = Farewell => clientReader' = "ended" /\ clientReader = "reading")

RelayFrames ==
  \/ relayFrames' = relayFrames
  \/ relayFrames # <<>> /\ relayFrames' = Tail(relayFrames)
  \/ \E e \in UpFrames : relayFrames' = Append(relayFrames, e) /\ (e = Farewell => relayReader' = "closed")

LEMMA FramesMove ==
  ASSUME UDPTypeOK, UDPNext
  PROVE  ClientFrames /\ RelayFrames
<1>0. /\ up \in Seq(UpFrames) /\ down \in Seq(DownFrames) /\ airDown \in SUBSET Nat /\ air \in SUBSET Seqs
      /\ Farewell \notin Nat /\ Farewell \notin Seqs /\ Seqs \subseteq UpFrames /\ Nat \subseteq DownFrames
  BY DEF UDPTypeOK, Farewell, Seqs, UpFrames, DownFrames
<1> USE DEF ClientFrames, RelayFrames
<1>1. CASE AppStep
  BY <1>1 DEF AppStep, WriteTo, ReadFrom, CloseBegins, ClientStops, server
<1>2. CASE CloseStep
  BY <1>2 DEF CloseStep, CloseCancels, CloseWrites, CloseEnds, server
<1>3. CASE ClientRead
  <2>1. CASE ClientReads
    <3>1. Head(down) \in DownFrames
      BY <1>0, <2>1, Queues DEF ClientReads
    <3> QED BY <2>1, <3>1 DEF ClientReads, server
  <2> QED BY <1>3, <2>1 DEF ClientRead, ClientReadFails, ClientReaderLeaves, server
<1>4. CASE ReadLoopStep
  BY <1>4 DEF ReadLoopStep, LoopForwards, LoopUnparks, LoopSeesFinal, LoopSeesError, LoopTells, LoopLeaves, server
<1>5. CASE NetworkStep
  <2>1. CASE LineBreaks
    BY <2>1 DEF LineBreaks, client, server
  <2>2. ASSUME NEW s \in air, RelayHears(s) PROVE ClientFrames /\ RelayFrames
    BY <1>0, <2>2 DEF RelayHears, client
  <2>3. ASSUME NEW r \in airDown, ClientHears(r) PROVE ClientFrames /\ RelayFrames
    BY <1>0, <2>3 DEF ClientHears, server
  <2> QED BY <1>5, <2>1, <2>2, <2>3 DEF NetworkStep
<1>6. CASE RelayRead
  <2>1. CASE RelayReads
    <3>1. Head(up) \in UpFrames
      BY <1>0, <2>1, Queues DEF RelayReads
    <3> QED BY <2>1, <3>1 DEF RelayReads, client
  <2> QED BY <1>6, <2>1 DEF RelayRead, RelayReadFails, client
<1>7. CASE RelayStep
  BY <1>7 DEF RelayStep, RelayPacket, RelayCloses, RelayReplies, RelaySeesError, client
<1>8. CASE SocketReads \/ RelayExpires
  BY <1>8 DEF SocketReads, RelayExpires, client
<1> QED BY <1>1, <1>2, <1>3, <1>4, <1>5, <1>6, <1>7, <1>8 DEF UDPNext

\* Who leaves none behind in a queue.
LEMMA FarewellsKept ==
  ASSUME UDPTypeOK, ClientFrames, RelayFrames
  PROVE  /\ NoFarewell(frames) => NoFarewell(frames') \/ (clientReader' = "ended" /\ clientReader = "reading")
         /\ NoFarewell(relayFrames) => NoFarewell(relayFrames') \/ relayReader' = "closed"
<1>1. frames \in Seq(DownFrames) /\ relayFrames \in Seq(UpFrames)
  BY DEF UDPTypeOK
<1>2. ASSUME NoFarewell(frames) PROVE NoFarewell(frames') \/ (clientReader' = "ended" /\ clientReader = "reading")
  BY <1>1, <1>2, FarewellComesOnce DEF ClientFrames
<1>3. ASSUME NoFarewell(relayFrames) PROVE NoFarewell(relayFrames') \/ relayReader' = "closed"
  BY <1>1, <1>3, FarewellComesOnce DEF RelayFrames
<1> QED BY <1>2, <1>3

\* A reader that reports an error has not read a farewell, whatever else happens.
LEMMA ReadersStep ==
  ASSUME EndingIInv, UDPNext
  PROVE  ReadersStopThere'
<1>0. /\ ReadersStopThere
      /\ NoFarewell(frames) => NoFarewell(frames') \/ (clientReader' = "ended" /\ clientReader = "reading")
      /\ NoFarewell(relayFrames) => NoFarewell(relayFrames') \/ relayReader' = "closed"
  BY FramesMove, FarewellsKept DEF EndingIInv
<1> USE DEF ReadersStopThere
<1>1. CASE AppStep
  <2>1. CASE WriteTo
    BY <1>0, <2>1 DEF WriteTo, server
  <2>2. CASE ReadFrom
    BY <1>0, <2>2 DEF ReadFrom, wire, server
  <2>3. CASE CloseBegins
    BY <1>0, <2>3 DEF CloseBegins, wire, server, Tell
  <2>4. CASE ClientStops
    BY <1>0, <2>4 DEF ClientStops, wire, server
  <2> QED BY <1>1, <2>1, <2>2, <2>3, <2>4 DEF AppStep
<1>2. CASE CloseStep
  <2>1. CASE CloseCancels
    BY <1>0, <2>1 DEF CloseCancels, wire, server
  <2>2. CASE CloseWrites
    BY <1>0, <2>2 DEF CloseWrites, server
  <2>3. CASE CloseEnds
    BY <1>0, <2>3 DEF CloseEnds, server, ClientShuts
  <2> QED BY <1>2, <2>1, <2>2, <2>3 DEF CloseStep
<1>3. CASE ClientRead
  <2>1. CASE ClientReads
    BY <1>0, <2>1 DEF ClientReads, server
  <2>2. CASE ClientReadFails
    BY <1>0, <2>2 DEF ClientReadFails, wire, server
  <2>3. CASE ClientReaderLeaves
    BY <1>0, <2>3 DEF ClientReaderLeaves, wire, server, ContextDone
  <2> QED BY <1>3, <2>1, <2>2, <2>3 DEF ClientRead
<1>4. CASE ReadLoopStep
  <2>1. CASE LoopForwards
    BY <1>0, <2>1 DEF LoopForwards, wire, server
  <2>2. CASE LoopUnparks
    BY <1>0, <2>2 DEF LoopUnparks, wire, server
  <2>3. CASE LoopSeesFinal
    BY <1>0, <2>3 DEF LoopSeesFinal, server, ClientShuts
  <2>4. CASE LoopSeesError
    BY <1>0, <2>4 DEF LoopSeesError, server, ClientShuts
  <2>5. CASE LoopTells
    BY <1>0, <2>5 DEF LoopTells, wire, server, Tell
  <2>6. CASE LoopLeaves
    BY <1>0, <2>6 DEF LoopLeaves, wire, server, ContextDone
  <2> QED BY <1>4, <2>1, <2>2, <2>3, <2>4, <2>5, <2>6 DEF ReadLoopStep
<1>5. CASE RelayRead
  <2>1. CASE RelayReads
    BY <1>0, <2>1 DEF RelayReads, client
  <2>2. CASE RelayReadFails
    BY <1>0, <2>2 DEF RelayReadFails, wire, client
  <2> QED BY <1>5, <2>1, <2>2 DEF RelayRead
<1>6. CASE RelayStep
  <2>1. CASE RelayPacket
    BY <1>0, <2>1 DEF RelayPacket, client, RelayEnds, RelayGoesOn
  <2>2. CASE RelayCloses
    BY <1>0, <2>2 DEF RelayCloses, client, RelayEnds
  <2>3. CASE RelayReplies
    BY <1>0, <2>3 DEF RelayReplies, client, RelayEnds, RelayGoesOn
  <2>4. CASE RelaySeesError
    BY <1>0, <2>4 DEF RelaySeesError, client, RelayEnds
  <2> QED BY <1>6, <2>1, <2>2, <2>3, <2>4 DEF RelayStep
<1>7. CASE NetworkStep
  <2>1. CASE LineBreaks
    BY <1>0, <2>1 DEF LineBreaks, client, server
  <2>2. CASE \E s \in air : RelayHears(s)
    BY <1>0, <2>2 DEF RelayHears, client
  <2>3. CASE \E r \in airDown : ClientHears(r)
    BY <1>0, <2>3 DEF ClientHears, server
  <2> QED BY <1>7, <2>1, <2>2, <2>3 DEF NetworkStep
<1>8. CASE SocketReads
  BY <1>0, <1>8 DEF SocketReads, wire, client
<1>9. CASE RelayExpires
  BY <1>0, <1>9 DEF RelayExpires, RelayEnds, client
<1> QED BY <1>1, <1>2, <1>3, <1>4, <1>5, <1>6, <1>7, <1>8, <1>9 DEF UDPNext

\* Nothing ends the client's side untold but the line and the server.
LEMMA GroundsStep ==
  ASSUME EndingIInv, UDPNext
  PROVE  EndsHaveGrounds'
<1>0. EndsHaveGrounds /\ (readLoop \in {"waiting", "parked"} \/ readLoop \notin {"waiting", "parked"})
  BY DEF EndingIInv
<1> USE DEF EndsHaveGrounds
<1>1. CASE AppStep
  <2>1. CASE WriteTo
    BY <1>0, <2>1 DEF WriteTo, server
  <2>2. CASE ReadFrom
    BY <1>0, <2>2 DEF ReadFrom, wire, server
  <2>3. CASE CloseBegins
    BY <1>0, <2>3 DEF CloseBegins, wire, server, Tell
  <2>4. CASE ClientStops
    BY <1>0, <2>4 DEF ClientStops, wire, server
  <2> QED BY <1>1, <2>1, <2>2, <2>3, <2>4 DEF AppStep
<1>2. CASE CloseStep
  <2>1. CASE CloseCancels
    BY <1>0, <2>1 DEF CloseCancels, wire, server
  <2>2. CASE CloseWrites
    BY <1>0, <2>2 DEF CloseWrites, server
  <2>3. CASE CloseEnds
    BY <1>0, <2>3 DEF CloseEnds, server, ClientShuts
  <2> QED BY <1>2, <2>1, <2>2, <2>3 DEF CloseStep
<1>3. CASE ClientRead
  <2>1. CASE ClientReads
    BY <1>0, <2>1 DEF ClientReads, server
  <2>2. CASE ClientReadFails
    BY <1>0, <2>2 DEF ClientReadFails, wire, server
  <2>3. CASE ClientReaderLeaves
    BY <1>0, <2>3 DEF ClientReaderLeaves, wire, server, ContextDone
  <2> QED BY <1>3, <2>1, <2>2, <2>3 DEF ClientRead
<1>4. CASE ReadLoopStep
  <2>1. CASE LoopForwards
    BY <1>0, <2>1 DEF LoopForwards, wire, server
  <2>2. CASE LoopUnparks
    BY <1>0, <2>2 DEF LoopUnparks, wire, server
  <2>3. CASE LoopSeesFinal
    BY <1>0, <2>3 DEF LoopSeesFinal, server, ClientShuts
  <2>4. CASE LoopSeesError
    BY <1>0, <2>4 DEF LoopSeesError, server, ClientShuts
  <2>5. CASE LoopTells
    BY <1>0, <2>5 DEF LoopTells, wire, server, Tell
  <2>6. CASE LoopLeaves
    BY <1>0, <2>6 DEF LoopLeaves, wire, server, ContextDone
  <2> QED BY <1>4, <2>1, <2>2, <2>3, <2>4, <2>5, <2>6 DEF ReadLoopStep
<1>5. CASE RelayRead
  <2>1. CASE RelayReads
    BY <1>0, <2>1 DEF RelayReads, client
  <2>2. CASE RelayReadFails
    BY <1>0, <2>2 DEF RelayReadFails, wire, client
  <2> QED BY <1>5, <2>1, <2>2 DEF RelayRead
<1>6. CASE RelayStep
  <2>1. CASE RelayPacket
    BY <1>0, <2>1 DEF RelayPacket, client, RelayEnds, RelayGoesOn
  <2>2. CASE RelayCloses
    BY <1>0, <2>2 DEF RelayCloses, client, RelayEnds
  <2>3. CASE RelayReplies
    BY <1>0, <2>3 DEF RelayReplies, client, RelayEnds, RelayGoesOn
  <2>4. CASE RelaySeesError
    BY <1>0, <2>4 DEF RelaySeesError, client, RelayEnds
  <2> QED BY <1>6, <2>1, <2>2, <2>3, <2>4 DEF RelayStep
<1>7. CASE NetworkStep
  <2>1. CASE LineBreaks
    BY <1>0, <2>1 DEF LineBreaks, client, server
  <2>2. CASE \E s \in air : RelayHears(s)
    BY <1>0, <2>2 DEF RelayHears, client
  <2>3. CASE \E r \in airDown : ClientHears(r)
    BY <1>0, <2>3 DEF ClientHears, server
  <2> QED BY <1>7, <2>1, <2>2, <2>3 DEF NetworkStep
<1>8. CASE SocketReads
  BY <1>0, <1>8 DEF SocketReads, wire, client
<1>9. CASE RelayExpires
  BY <1>0, <1>9 DEF RelayExpires, RelayEnds, client
<1> QED BY <1>1, <1>2, <1>3, <1>4, <1>5, <1>6, <1>7, <1>8, <1>9 DEF UDPNext

\* What onClose hears is true, and it hears something.
LEMMA TheEndStep ==
  ASSUME EndingIInv, UDPNext
  PROVE  TheEndIsTold'
<1>0. /\ EndsHaveGrounds /\ TheEndIsTold
      /\ told \in {"nobody", "clean", "error"} /\ readLoop \in {"waiting", "parked", "clean", "error", "ended"}
  BY DEF EndingIInv, EndingInv, UDPTypeOK
<1> USE DEF EndsHaveGrounds
<1> USE DEF TheEndIsTold
<1>1. CASE AppStep
  <2>1. CASE WriteTo
    BY <1>0, <2>1 DEF WriteTo, server
  <2>2. CASE ReadFrom
    BY <1>0, <2>2 DEF ReadFrom, wire, server
  <2>3. CASE CloseBegins
    BY <1>0, <2>3 DEF CloseBegins, wire, server, Tell
  <2>4. CASE ClientStops
    BY <1>0, <2>4 DEF ClientStops, wire, server
  <2> QED BY <1>1, <2>1, <2>2, <2>3, <2>4 DEF AppStep
<1>2. CASE CloseStep
  <2>1. CASE CloseCancels
    BY <1>0, <2>1 DEF CloseCancels, wire, server
  <2>2. CASE CloseWrites
    BY <1>0, <2>2 DEF CloseWrites, server
  <2>3. CASE CloseEnds
    BY <1>0, <2>3 DEF CloseEnds, server, ClientShuts
  <2> QED BY <1>2, <2>1, <2>2, <2>3 DEF CloseStep
<1>3. CASE ClientRead
  <2>1. CASE ClientReads
    BY <1>0, <2>1 DEF ClientReads, server
  <2>2. CASE ClientReadFails
    BY <1>0, <2>2 DEF ClientReadFails, wire, server
  <2>3. CASE ClientReaderLeaves
    BY <1>0, <2>3 DEF ClientReaderLeaves, wire, server, ContextDone
  <2> QED BY <1>3, <2>1, <2>2, <2>3 DEF ClientRead
<1>4. CASE ReadLoopStep
  <2>1. CASE LoopForwards
    BY <1>0, <2>1 DEF LoopForwards, wire, server
  <2>2. CASE LoopUnparks
    BY <1>0, <2>2 DEF LoopUnparks, wire, server
  <2>3. CASE LoopSeesFinal
    BY <1>0, <2>3 DEF LoopSeesFinal, server, ClientShuts
  <2>4. CASE LoopSeesError
    BY <1>0, <2>4 DEF LoopSeesError, server, ClientShuts
  <2>5. CASE LoopTells
    BY <1>0, <2>5 DEF LoopTells, wire, server, Tell
  <2>6. CASE LoopLeaves
    BY <1>0, <2>6 DEF LoopLeaves, wire, server, ContextDone
  <2> QED BY <1>4, <2>1, <2>2, <2>3, <2>4, <2>5, <2>6 DEF ReadLoopStep
<1>5. CASE RelayRead
  <2>1. CASE RelayReads
    BY <1>0, <2>1 DEF RelayReads, client
  <2>2. CASE RelayReadFails
    BY <1>0, <2>2 DEF RelayReadFails, wire, client
  <2> QED BY <1>5, <2>1, <2>2 DEF RelayRead
<1>6. CASE RelayStep
  <2>1. CASE RelayPacket
    BY <1>0, <2>1 DEF RelayPacket, client, RelayEnds, RelayGoesOn
  <2>2. CASE RelayCloses
    BY <1>0, <2>2 DEF RelayCloses, client, RelayEnds
  <2>3. CASE RelayReplies
    BY <1>0, <2>3 DEF RelayReplies, client, RelayEnds, RelayGoesOn
  <2>4. CASE RelaySeesError
    BY <1>0, <2>4 DEF RelaySeesError, client, RelayEnds
  <2> QED BY <1>6, <2>1, <2>2, <2>3, <2>4 DEF RelayStep
<1>7. CASE NetworkStep
  <2>1. CASE LineBreaks
    BY <1>0, <2>1 DEF LineBreaks, client, server
  <2>2. CASE \E s \in air : RelayHears(s)
    BY <1>0, <2>2 DEF RelayHears, client
  <2>3. CASE \E r \in airDown : ClientHears(r)
    BY <1>0, <2>3 DEF ClientHears, server
  <2> QED BY <1>7, <2>1, <2>2, <2>3 DEF NetworkStep
<1>8. CASE SocketReads
  BY <1>0, <1>8 DEF SocketReads, wire, client
<1>9. CASE RelayExpires
  BY <1>0, <1>9 DEF RelayExpires, RelayEnds, client
<1> QED BY <1>1, <1>2, <1>3, <1>4, <1>5, <1>6, <1>7, <1>8, <1>9 DEF UDPNext

\* An association begins with nothing to tell, and every step keeps what its end rests on.
LEMMA EndingInitInv == UDPInit => EndingIInv
<1> SUFFICES ASSUME UDPInit PROVE EndingIInv
  OBVIOUS
<1>1. UDPTypeOK
  BY WindowInit DEF WindowInv
<1>2. NoFarewell(<<>>)
  BY DEF NoFarewell
<1> QED BY <1>1, <1>2 DEF UDPInit, EndingIInv, ReadersStopThere, EndsHaveGrounds, EndingInv, CloseIsNoFailure, TheEndIsTold

\* The types are WindowInv's.
LEMMA EndingStep == EndingIInv /\ UDPTypeOK' /\ [UDPNext]_udpVars => EndingIInv'
<1> SUFFICES ASSUME EndingIInv, UDPTypeOK', [UDPNext]_udpVars PROVE EndingIInv'
  OBVIOUS
<1>1. CASE UDPNext
  <2>1. ReadersStopThere' /\ EndsHaveGrounds' /\ TheEndIsTold'
    BY <1>1, ReadersStep, GroundsStep, TheEndStep
  <2>2. CloseIsNoFailure'
    BY <2>1 DEF ReadersStopThere, CloseIsNoFailure, NoFarewell
  <2> QED BY <2>1, <2>2 DEF EndingIInv, EndingInv
<1>2. CASE UNCHANGED udpVars
  <2>1. UNCHANGED <<line, clientShut, serverShut, frames, frameErr, clientReader, readLoop, cancelled, stopped,
                    closing, told, relayFrames, relayErr, relayReader, relay>>
    BY <1>2 DEF udpVars, wire, client, server
  <2>2. ReadersStopThere' /\ EndsHaveGrounds' /\ TheEndIsTold' /\ CloseIsNoFailure'
    BY <2>1 DEF EndingIInv, ReadersStopThere, EndsHaveGrounds, EndingInv, TheEndIsTold, CloseIsNoFailure, NoFarewell
  <2> QED BY <2>2 DEF EndingIInv, EndingInv
<1> QED BY <1>1, <1>2

\* An association that ends says how it ended, and says it truly: a clean close is never
\* reported as a failure, whichever reader and whichever side comes first (udp.go:167 and 492).
THEOREM EndsAreToldTruly == UDPSpec => []EndingInv
<1>1. WindowInv => UDPTypeOK
  BY DEF WindowInv
<1>2. EndingIInv => EndingInv
  BY DEF EndingIInv
<1> QED BY EndingInitInv, EndingStep, WindowInvariant, <1>1, <1>2, PTL DEF UDPSpec

-----------------------------------------------------------------------------
(* FlowDelivery: a flow is a byte stream *)

\* Once the source is done nothing is missing at the receiver.
LEMMA DoneIsDelivered == IInv /\ finSent => eof /\ next = read /\ buffered = {}
<1> SUFFICES ASSUME IInv, finSent PROVE eof /\ next = read /\ buffered = {}
    OBVIOUS
<1> USE FlowConstants
<1>1. eof /\ retained = {}
      BY DEF IInv, Closing, SourceDone
<1>2. next = read
  <2>1. SUFFICES ASSUME next < read PROVE FALSE
        BY DEF IInv, Ledger, TypeOK
  <2>2. next \in Units
        BY <2>1 DEF IInv, TypeOK, Units
  <2>3. next \in Held
        BY <1>1, <2>1, <2>2 DEF IInv, Ledger, NothingForgotten
  <2>4. next \in buffered
        BY <2>2, <2>3 DEF Held, IInv, TypeOK
  <2> QED BY <2>4 DEF IInv, Ledger, TypeOK
<1>3. buffered = {}
      BY <1>2 DEF IInv, Ledger, TypeOK, Units
<1> QED BY <1>1, <1>2, <1>3

LEMMA IInvInit == Init => IInv
<1> SUFFICES ASSUME Init PROVE IInv
    OBVIOUS
<1> USE FlowConstants
<1>1. TypeOK
  <2>1. reports \subseteq [cumulative: 0..N, above: SUBSET Units]
        BY DEF Init
  <2>2. read \in 0..N /\ next \in 0..N /\ finAt \in 0..N \cup {NoFIN} /\ losses \in 0..MaxLosses
        BY DEF Init
  <2> QED BY <2>1, <2>2 DEF Init, TypeOK
<1>2. Ledger
      BY DEF Init, Ledger, NothingForgotten, Held, Units
<1>3. Closing
      BY DEF Init, Closing, SourceDone
<1> QED BY <1>1, <1>2, <1>3 DEF IInv

\* The cursor stays at or below what was read, and what was held stays held.
LEMMA CursorFacts ==
  ASSUME IInv, NEW o \in copies, ReceiveData(o)
  PROVE  /\ next' \in 0..N /\ next <= next' /\ next' <= read
         /\ buffered' \subseteq Units
         /\ \A b \in buffered' : next' < b /\ b < read
         /\ Held \subseteq Held'
<1> USE FlowConstants
<1> DEFINE B == {b \in buffered \cup {o} : b >= next}
<1>1. PICK c \in 0..N : /\ Consumes(c, B)
                       /\ next' = c /\ buffered' = {b \in B : b >= c}
      BY DEF ReceiveData
<1>2. B \subseteq Units /\ \A b \in B : b < read
      BY DEF IInv, TypeOK, Ledger
<1>3. next <= c /\ c \notin B /\ \A b \in next .. c - 1 : b \in B
      BY <1>1 DEF Consumes
<1>4. c <= read
  <2>1. SUFFICES ASSUME read < c PROVE FALSE
        BY DEF IInv, TypeOK
  <2>2. read \in next .. c - 1
        BY <1>3, <2>1 DEF IInv, TypeOK, Ledger
  <2>3. read \in B
        BY <1>3, <2>2
  <2> QED BY <1>2, <2>3 DEF IInv, TypeOK
<1>5. \A b \in buffered' : c < b /\ b < read
      BY <1>1, <1>2, <1>3 DEF Units
<1>6. Held \subseteq Held'
  <2> SUFFICES ASSUME NEW h \in Held PROVE h \in Held'
      OBVIOUS
  <2>1. h \in Units
        BY DEF Held, IInv, TypeOK
  <2>2. CASE h < c
        BY <1>1, <2>1, <2>2 DEF Held
  <2>3. CASE h >= c
    <3>1. h \in buffered
          BY <1>3, <2>1, <2>3 DEF Held, IInv, TypeOK, Units
    <3>2. h \in B
          BY <1>3, <2>1, <2>3, <3>1 DEF IInv, TypeOK, Units
    <3> QED BY <1>1, <2>3, <3>2 DEF Held
  <2> QED BY <2>1, <2>2, <2>3 DEF Units
<1> QED BY <1>1, <1>2, <1>3, <1>4, <1>5, <1>6

LEMMA TypeStep == IInv /\ [Next]_vars => TypeOK'
<1> SUFFICES ASSUME IInv, [Next]_vars PROVE TypeOK'
    OBVIOUS
<1> USE FlowConstants
<1>1. CASE Read
      BY <1>1 DEF Read, IInv, TypeOK, Units, NoFIN, sender, receiver, path
<1>2. CASE ReadEOF
      BY <1>2 DEF ReadEOF, IInv, TypeOK, Units, NoFIN, sender, receiver, path
<1>3. CASE SendFinal
      BY <1>3 DEF SendFinal, IInv, TypeOK, Units, NoFIN, sender, receiver, path
<1>4. CASE ReplayFinal
      BY <1>4 DEF ReplayFinal, IInv, TypeOK, Units, NoFIN, sender, receiver, path
<1>5. CASE ReceiveFinalAck
      BY <1>5 DEF ReceiveFinalAck, IInv, TypeOK, Units, NoFIN, sender, receiver, path
<1>6. CASE SeeRemoteFin
      BY <1>6 DEF SeeRemoteFin, IInv, TypeOK, Units, NoFIN, sender, receiver, path
<1>7. CASE CompletionWatchdog
      BY <1>7 DEF CompletionWatchdog, IInv, TypeOK, Units, NoFIN, sender, receiver, path
<1>8. CASE SenderStops
      BY <1>8 DEF SenderStops, IInv, TypeOK, Units, NoFIN, sender, receiver, path
<1>9. CASE Report
  <2>1. PICK A \in SUBSET buffered : reports' = reports \cup {[cumulative |-> next, above |-> A]}
        BY <1>9 DEF Report
  <2>2. [cumulative |-> next, above |-> A] \in [cumulative: 0..N, above: SUBSET Units]
        BY DEF IInv, TypeOK
  <2>3. reports' \subseteq [cumulative: 0..N, above: SUBSET Units]
        BY <2>1, <2>2 DEF IInv, TypeOK
  <2> QED BY <1>9, <2>3 DEF Report, IInv, TypeOK, Units, sender, receiver
<1>10. CASE ReceiveFIN
  <2>1. finAt' \in 0..N \cup {NoFIN} /\ finalAck' \in BOOLEAN
        BY <1>10 DEF ReceiveFIN, FINSequence, RepeatsFinal, IInv, TypeOK
  <2>2. sink' \in {"open", "closed", "gone", "failed"}
        BY <1>10 DEF ReceiveFIN, IInv, TypeOK
  <2> QED BY <1>10, <2>1, <2>2 DEF ReceiveFIN, IInv, TypeOK, Units, sender
<1>11. CASE SinkLeaves
      BY <1>11 DEF SinkLeaves, IInv, TypeOK, Units, NoFIN, sender, receiver, path
<1>12. CASE ReceiverFails
      BY <1>12 DEF ReceiverFails, IInv, TypeOK, Units, NoFIN, sender, receiver, path
<1>13. CASE Lose
  <2>1. losses' \in 0..MaxLosses
        BY <1>13 DEF Lose, IInv, TypeOK
  <2>2. copies' \subseteq Units /\ fin' \in BOOLEAN /\ finalAck' \in BOOLEAN
        BY <1>13 DEF Lose, IInv, TypeOK
  <2>3. reports' \subseteq [cumulative: 0..N, above: SUBSET Units]
        BY <1>13 DEF Lose, IInv, TypeOK
  <2> QED BY <1>13, <2>1, <2>2, <2>3 DEF Lose, IInv, TypeOK, Units, sender, receiver
<1>14. CASE Over
      BY <1>14 DEF Over, vars, IInv, TypeOK, Units, NoFIN, sender, receiver, path
<1>15. ASSUME NEW o \in Units, Dispatch(o) PROVE TypeOK'
      BY <1>15 DEF Dispatch, IInv, TypeOK, Units, NoFIN, sender, receiver, path
<1>16. ASSUME NEW o \in Units, Complete(o) PROVE TypeOK'
      BY <1>16 DEF Complete, IInv, TypeOK, Units, NoFIN, sender, receiver, path
<1>17. ASSUME NEW r \in reports, ReceiveReport(r) PROVE TypeOK'
  <2>1. sacked' \subseteq Units
        BY <1>17 DEF ReceiveReport, Acked, IInv, TypeOK
  <2> QED BY <1>17, <2>1 DEF ReceiveReport, IInv, TypeOK, Units, receiver, path
<1>18. ASSUME NEW o \in copies, ReceiveData(o) PROVE TypeOK'
  <2>1. finalAck' \in BOOLEAN /\ sink' \in {"open", "closed", "gone", "failed"}
        BY <1>18 DEF ReceiveData, IInv, TypeOK
  <2> QED BY <1>18, <2>1, CursorFacts DEF ReceiveData, IInv, TypeOK, Units, sender
<1>19. ASSUME NEW o \in copies, ReceiveOverflow(o) PROVE TypeOK'
      BY <1>19 DEF ReceiveOverflow, IInv, TypeOK, Units, NoFIN, sender, receiver, path
<1>20. ASSUME NEW o \in copies, ReceiveLate(o) PROVE TypeOK'
      BY <1>20 DEF ReceiveLate, IInv, TypeOK, Units, NoFIN, sender, receiver, path
<1>22. CASE LaneJoins
       BY <1>22 DEF LaneJoins, IInv, TypeOK, Units, NoFIN, sender, receiver, path
<1>21. CASE UNCHANGED vars
      BY <1>21 DEF vars, IInv, TypeOK, Units, NoFIN, sender, receiver, path
<1> QED BY <1>1, <1>2, <1>3, <1>4, <1>5, <1>6, <1>7, <1>8, <1>9, <1>10, <1>11, <1>12, <1>13, <1>14, <1>15, <1>16, <1>17, <1>18, <1>19, <1>20, <1>21, <1>22 DEF Next

LEMMA LedgerStep == IInv /\ [Next]_vars => Ledger'
<1> SUFFICES ASSUME IInv, [Next]_vars PROVE Ledger'
    OBVIOUS
<1> USE FlowConstants
<1>1. CASE Read
      BY <1>1 DEF Read, IInv, TypeOK, Ledger, NothingForgotten, Held, Units, NoFIN, sender, receiver, path
<1>2. CASE ReadEOF
      BY <1>2 DEF ReadEOF, IInv, TypeOK, Ledger, NothingForgotten, Held, Units, NoFIN, sender, receiver, path
<1>3. CASE SendFinal
      BY <1>3 DEF SendFinal, IInv, TypeOK, Ledger, NothingForgotten, Held, Units, NoFIN, sender, receiver, path
<1>4. CASE ReplayFinal
      BY <1>4 DEF ReplayFinal, IInv, TypeOK, Ledger, NothingForgotten, Held, Units, NoFIN, sender, receiver, path
<1>5. CASE ReceiveFinalAck
      BY <1>5 DEF ReceiveFinalAck, IInv, TypeOK, Ledger, NothingForgotten, Held, Units, NoFIN, sender, receiver, path
<1>6. CASE SeeRemoteFin
      BY <1>6 DEF SeeRemoteFin, IInv, TypeOK, Ledger, NothingForgotten, Held, Units, NoFIN, sender, receiver, path
<1>7. CASE CompletionWatchdog
      BY <1>7 DEF CompletionWatchdog, IInv, TypeOK, Ledger, NothingForgotten, Held, Units, NoFIN, sender, receiver, path
<1>8. CASE SenderStops
      BY <1>8 DEF SenderStops, IInv, TypeOK, Ledger, NothingForgotten, Held, Units, NoFIN, sender, receiver, path
<1>9. CASE Report
  <2>1. PICK A \in SUBSET buffered : reports' = reports \cup {[cumulative |-> next, above |-> A]}
        BY <1>9 DEF Report
  <2>2. UNCHANGED <<sender, next, buffered, copies>>
        BY <1>9 DEF Report
  <2>3. Held' = Held
        BY <2>2 DEF Held
  <2>4. A \subseteq Held
        BY DEF Held
  <2>5. \A r \in reports' : r.cumulative <= next' /\ r.above \subseteq Held'
        BY <2>1, <2>2, <2>3, <2>4 DEF IInv, TypeOK, Ledger
  <2> QED BY <2>2, <2>3, <2>5 DEF IInv, Ledger, NothingForgotten, sender
<1>10. CASE ReceiveFIN
      BY <1>10 DEF ReceiveFIN, IInv, TypeOK, Ledger, NothingForgotten, Held, Units, NoFIN, sender, receiver, path
<1>11. CASE SinkLeaves
      BY <1>11 DEF SinkLeaves, IInv, TypeOK, Ledger, NothingForgotten, Held, Units, NoFIN, sender, receiver, path
<1>12. CASE ReceiverFails
      BY <1>12 DEF ReceiverFails, IInv, TypeOK, Ledger, NothingForgotten, Held, Units, NoFIN, sender, receiver, path
<1>13. CASE Lose
      BY <1>13 DEF Lose, IInv, TypeOK, Ledger, NothingForgotten, Held, Units, NoFIN, sender, receiver, path
<1>14. CASE Over
      BY <1>14 DEF Over, vars, IInv, TypeOK, Ledger, NothingForgotten, Held, Units, NoFIN, sender, receiver, path
<1>15. ASSUME NEW o \in Units, Dispatch(o) PROVE Ledger'
      BY <1>15 DEF Dispatch, IInv, TypeOK, Ledger, NothingForgotten, Held, Units, NoFIN, sender, receiver, path
<1>16. ASSUME NEW o \in Units, Complete(o) PROVE Ledger'
      BY <1>16 DEF Complete, IInv, TypeOK, Ledger, NothingForgotten, Held, Units, NoFIN, sender, receiver, path
<1>17. ASSUME NEW r \in reports, ReceiveReport(r) PROVE Ledger'
  <2>1. UNCHANGED <<read, retained, receiver, path>> /\ sacked' = sacked \cup Acked(r)
        BY <1>17 DEF ReceiveReport
  <2>2. Held' = Held
        BY <2>1 DEF Held, receiver
  <2>3. Acked(r) \subseteq Held
        BY <1>17 DEF Acked, Held, IInv, TypeOK, Ledger, Units
  <2> QED BY <2>1, <2>2, <2>3 DEF IInv, Ledger, NothingForgotten, receiver, path
<1>18. ASSUME NEW o \in copies, ReceiveData(o) PROVE Ledger'
  <2>1. UNCHANGED <<sender, copies, reports>>
        BY <1>18 DEF ReceiveData
  <2>2. /\ next' \in 0..N /\ next <= next' /\ next' <= read
        /\ \A b \in buffered' : next' < b /\ b < read
        /\ Held \subseteq Held'
        BY <1>18, CursorFacts
  <2>3. \A r \in reports' : r.cumulative <= next' /\ r.above \subseteq Held'
        BY <2>1, <2>2 DEF IInv, TypeOK, Ledger
  <2>4. NothingForgotten' /\ sacked' \subseteq Held'
        BY <2>1, <2>2 DEF IInv, Ledger, NothingForgotten, sender
  <2> QED BY <2>1, <2>2, <2>3, <2>4 DEF IInv, TypeOK, Ledger, sender
<1>19. ASSUME NEW o \in copies, ReceiveOverflow(o) PROVE Ledger'
      BY <1>19 DEF ReceiveOverflow, IInv, TypeOK, Ledger, NothingForgotten, Held, Units, NoFIN, sender, receiver, path
<1>20. ASSUME NEW o \in copies, ReceiveLate(o) PROVE Ledger'
      BY <1>20 DEF ReceiveLate, IInv, TypeOK, Ledger, NothingForgotten, Held, Units, NoFIN, sender, receiver, path
<1>22. CASE LaneJoins
       BY <1>22 DEF LaneJoins, IInv, TypeOK, Ledger, NothingForgotten, Held, Units, NoFIN, sender, receiver, path
<1>21. CASE UNCHANGED vars
      BY <1>21 DEF vars, IInv, TypeOK, Ledger, NothingForgotten, Held, Units, NoFIN, sender, receiver, path
<1> QED BY <1>1, <1>2, <1>3, <1>4, <1>5, <1>6, <1>7, <1>8, <1>9, <1>10, <1>11, <1>12, <1>13, <1>14, <1>15, <1>16, <1>17, <1>18, <1>19, <1>20, <1>21, <1>22 DEF Next

LEMMA ClosingStep == IInv /\ [Next]_vars => Closing'
<1> SUFFICES ASSUME IInv, [Next]_vars PROVE Closing'
    OBVIOUS
<1> USE FlowConstants
<1>1. CASE Read
      BY <1>1 DEF Read, IInv, TypeOK, Ledger, Closing, SourceDone, FINSequence, EndsAt, Units, NoFIN, sender, receiver, path
<1>2. CASE ReadEOF
      BY <1>2 DEF ReadEOF, IInv, TypeOK, Ledger, Closing, SourceDone, FINSequence, EndsAt, Units, NoFIN, sender, receiver, path
<1>3. CASE SendFinal
      BY <1>3 DEF SendFinal, IInv, TypeOK, Ledger, Closing, SourceDone, FINSequence, EndsAt, Units, NoFIN, sender, receiver, path
<1>4. CASE ReplayFinal
      BY <1>4 DEF ReplayFinal, IInv, TypeOK, Ledger, Closing, SourceDone, FINSequence, EndsAt, Units, NoFIN, sender, receiver, path
<1>5. CASE ReceiveFinalAck
      BY <1>5 DEF ReceiveFinalAck, IInv, TypeOK, Ledger, Closing, SourceDone, FINSequence, EndsAt, Units, NoFIN, sender, receiver, path
<1>6. CASE SeeRemoteFin
      BY <1>6 DEF SeeRemoteFin, IInv, TypeOK, Ledger, Closing, SourceDone, FINSequence, EndsAt, Units, NoFIN, sender, receiver, path
<1>7. CASE CompletionWatchdog
      BY <1>7 DEF CompletionWatchdog, BothFINs, IInv, TypeOK, Ledger, Closing, SourceDone, FINSequence, EndsAt, Units, NoFIN, sender, receiver, path
<1>8. CASE SenderStops
      BY <1>8 DEF SenderStops, IInv, TypeOK, Ledger, Closing, SourceDone, FINSequence, EndsAt, Units, NoFIN, sender, receiver, path
<1>9. CASE Report
      BY <1>9 DEF Report, IInv, TypeOK, Ledger, Closing, SourceDone, FINSequence, EndsAt, Units, NoFIN, sender, receiver, path
<1>10. CASE ReceiveFIN
      BY <1>10 DEF ReceiveFIN, IInv, TypeOK, Ledger, Closing, SourceDone, FINSequence, EndsAt, Units, NoFIN, sender, receiver, path
<1>11. CASE SinkLeaves
      BY <1>11 DEF SinkLeaves, IInv, TypeOK, Ledger, Closing, SourceDone, FINSequence, EndsAt, Units, NoFIN, sender, receiver, path
<1>12. CASE ReceiverFails
      BY <1>12 DEF ReceiverFails, IInv, TypeOK, Ledger, Closing, SourceDone, FINSequence, EndsAt, Units, NoFIN, sender, receiver, path
<1>13. CASE Lose
      BY <1>13 DEF Lose, IInv, TypeOK, Ledger, Closing, SourceDone, FINSequence, EndsAt, Units, NoFIN, sender, receiver, path
<1>14. CASE Over
      BY <1>14 DEF Over, vars, IInv, TypeOK, Ledger, Closing, SourceDone, FINSequence, EndsAt, Units, NoFIN, sender, receiver, path
<1>15. ASSUME NEW o \in Units, Dispatch(o) PROVE Closing'
      BY <1>15 DEF Dispatch, IInv, TypeOK, Ledger, Closing, SourceDone, FINSequence, EndsAt, Units, NoFIN, sender, receiver, path
<1>16. ASSUME NEW o \in Units, Complete(o) PROVE Closing'
      BY <1>16 DEF Complete, IInv, TypeOK, Ledger, Closing, SourceDone, FINSequence, EndsAt, Units, NoFIN, sender, receiver, path
<1>17. ASSUME NEW r \in reports, ReceiveReport(r) PROVE Closing'
      BY <1>17 DEF ReceiveReport, IInv, TypeOK, Ledger, Closing, SourceDone, FINSequence, EndsAt, Units, NoFIN, sender, receiver, path
<1>18. ASSUME NEW o \in copies, ReceiveData(o) PROVE Closing'
      BY <1>18 DEF ReceiveData, IInv, TypeOK, Ledger, Closing, SourceDone, FINSequence, EndsAt, Units, NoFIN, sender, receiver, path
<1>19. ASSUME NEW o \in copies, ReceiveOverflow(o) PROVE Closing'
      BY <1>19 DEF ReceiveOverflow, IInv, TypeOK, Ledger, Closing, SourceDone, FINSequence, EndsAt, Units, NoFIN, sender, receiver, path
<1>20. ASSUME NEW o \in copies, ReceiveLate(o) PROVE Closing'
  <2>1. finAt # NoFIN
        BY <1>20 DEF ReceiveLate, Ended, IInv, TypeOK, NoFIN
  <2> QED BY <1>20, <2>1 DEF ReceiveLate, IInv, Closing, SourceDone, sender, receiver
<1>22. CASE LaneJoins
       BY <1>22 DEF LaneJoins, IInv, TypeOK, Ledger, Closing, SourceDone, Units, NoFIN, sender, receiver, path
<1>21. CASE UNCHANGED vars
      BY <1>21 DEF vars, IInv, TypeOK, Ledger, Closing, SourceDone, FINSequence, EndsAt, Units, NoFIN, sender, receiver, path
<1> QED BY <1>1, <1>2, <1>3, <1>4, <1>5, <1>6, <1>7, <1>8, <1>9, <1>10, <1>11, <1>12, <1>13, <1>14, <1>15, <1>16, <1>17, <1>18, <1>19, <1>20, <1>21, <1>22 DEF Next

LEMMA IInvStep == IInv /\ [Next]_vars => IInv'
BY TypeStep, LedgerStep, ClosingStep DEF IInv

\* In every order of arrivals, replays, completions and endings the variables keep their
\* types, nothing read is forgotten, and every sign of the end (stripedsend.go, mpflow.go,
\* reassembly.go) follows a delivered stream.
THEOREM FlowInvariant == Spec => []IInv
<1>1. Init => IInv
      BY IInvInit
<1>2. IInv /\ [Next]_vars => IInv'
      BY IInvStep
<1> QED BY <1>1, <1>2, PTL DEF Spec

\* However reports, replays and completions interleave, watchChunkCompletion and
\* Complete forget no unit the receiver does not hold.
THEOREM NoUnitForgotten == Spec => []NothingForgotten
<1>1. IInv => NothingForgotten
      BY DEF IInv, Ledger
<1> QED BY <1>1, FlowInvariant, PTL

\* sendFinal sends the FIN only when the receiver has delivered the whole stream.
THEOREM FINAfterDelivery == Spec => []FINComesLast
<1>1. IInv => FINComesLast
      BY DoneIsDelivered DEF FINComesLast
<1> QED BY <1>1, FlowInvariant, PTL

\* The sender completes only a delivered stream, also through completionWatchdog.
THEOREM CompletionIsDelivery == Spec => []SuccessIsDelivery
<1>1. IInv => SuccessIsDelivery
      BY DoneIsDelivered DEF SuccessIsDelivery, IInv, Closing
<1> QED BY <1>1, FlowInvariant, PTL

LEMMA InitRefines == Init => Stream!Init
BY DEF Init, Stream!Init

\* Every step of the composition is a step of the byte stream or leaves it alone.
LEMMA StepRefines == IInv /\ [Next]_vars => [Stream!Next]_(Stream!vars)
<1> SUFFICES ASSUME IInv, [Next]_vars PROVE [Stream!Next]_(Stream!vars)
    OBVIOUS
<1> USE FlowConstants
<1>1. CASE Read
      BY <1>1 DEF Read, receiver, Stream!Next, Stream!Give
<1>2. CASE ReadEOF
      BY <1>2 DEF ReadEOF, receiver, Stream!Next, Stream!End
<1>3. CASE SendFinal \/ ReplayFinal \/ SeeRemoteFin \/ LaneJoins \/ Report \/ Lose \/ Over \/ UNCHANGED vars
      BY <1>3 DEF SendFinal, ReplayFinal, SeeRemoteFin, LaneJoins, Report, Lose, Over, vars, sender,
                  receiver, Stream!vars
<1>4. CASE ReceiveFinalAck \/ CompletionWatchdog
  <2>1. finSent
        BY <1>4 DEF ReceiveFinalAck, CompletionWatchdog, BothFINs
  <2>2. eof /\ next = read
        BY <2>1, DoneIsDelivered
  <2> QED BY <1>4, <2>2 DEF ReceiveFinalAck, CompletionWatchdog, receiver, Stream!Next,
                            Stream!Succeed
<1>5. CASE SenderStops
      BY <1>5 DEF SenderStops, receiver, Stream!Next, Stream!Stop
<1>6. CASE ReceiveFIN
  <2>1. eof /\ next = read
        BY <1>6, DoneIsDelivered DEF ReceiveFIN, IInv, Closing
  <2>2. UNCHANGED <<read, eof, next, verdict>>
        BY <1>6 DEF ReceiveFIN, sender
  <2>3. CASE sink' = sink
        BY <2>2, <2>3 DEF Stream!vars
  <2>4. CASE sink' # sink
    <3>1. sink = "open" /\ sink' = "closed"
          BY <1>6, <2>4 DEF ReceiveFIN
    <3> QED BY <2>1, <2>2, <3>1 DEF Stream!Next, Stream!CloseSink
  <2> QED BY <2>3, <2>4
<1>7. CASE SinkLeaves \/ ReceiverFails
      BY <1>7 DEF SinkLeaves, ReceiverFails, Receiving, sender, Stream!Next, Stream!LoseSink
<1>8. ASSUME NEW o \in Units, Dispatch(o) \/ Complete(o) PROVE [Stream!Next]_(Stream!vars)
      BY <1>8 DEF Dispatch, Complete, sender, receiver, Stream!vars
<1>9. ASSUME NEW r \in reports, ReceiveReport(r) PROVE [Stream!Next]_(Stream!vars)
      BY <1>9 DEF ReceiveReport, receiver, Stream!vars
<1>10. ASSUME NEW o \in copies, ReceiveData(o) PROVE [Stream!Next]_(Stream!vars)
  <2>1. UNCHANGED <<read, eof, verdict>>
        BY <1>10 DEF ReceiveData, sender
  <2>2. next \in 0..N /\ next' \in 0..N /\ next <= next' /\ next' <= read /\ read \in 0..N
        BY <1>10, CursorFacts DEF IInv, TypeOK
  <2>3. CASE sink' = sink
    <3>1. CASE next' = next
          BY <2>1, <2>3, <3>1 DEF Stream!vars
    <3>2. CASE next' # next
      <4>1. next' \in next + 1 .. read
            BY <2>2, <3>2
      <4>2. sink \in {"open", "gone"}
            BY <1>10 DEF ReceiveData, Receiving
      <4> QED BY <2>1, <2>3, <4>1, <4>2 DEF Stream!Next, Stream!Pass
    <3> QED BY <3>1, <3>2
  <2>4. CASE sink' # sink
    <3>1. finAt # NoFIN /\ sink = "open" /\ sink' = "closed"
          BY <1>10, <2>4 DEF ReceiveData, EndsAt
    <3>2. eof /\ next = read
          BY <3>1, DoneIsDelivered DEF IInv, Closing
    <3>3. next' = next
          BY <2>2, <3>2
    <3> QED BY <2>1, <3>1, <3>2, <3>3 DEF Stream!Next, Stream!CloseSink
  <2> QED BY <2>3, <2>4
<1>11. ASSUME NEW o \in copies, ReceiveOverflow(o) PROVE [Stream!Next]_(Stream!vars)
       BY <1>11 DEF ReceiveOverflow, Receiving, sender, Stream!Next, Stream!LoseSink
<1>12. ASSUME NEW o \in copies, ReceiveLate(o) PROVE [Stream!Next]_(Stream!vars)
       BY <1>12 DEF ReceiveLate, sender, receiver, Stream!vars
<1> QED BY <1>1, <1>2, <1>3, <1>4, <1>5, <1>6, <1>7, <1>8, <1>9, <1>10, <1>11, <1>12 DEF Next

\* One direction of a flow, scheduler, acknowledgements and reassembly together, is a
\* byte stream.
THEOREM FlowIsAByteStream == Spec => ImplementsByteStream
<1>1. Init => Stream!Init
      BY InitRefines
<1>2. IInv /\ [Next]_vars => [Stream!Next]_(Stream!vars)
      BY StepRefines
<1> QED BY <1>1, <1>2, FlowInvariant, PTL DEF Spec, ImplementsByteStream, Stream!Spec

-----------------------------------------------------------------------------
(* PathProbe: what the probe sends comes back in order, from a gateway that echoes *)

Lives == {"unused", "dialing", "open", "closed"}
Causes == {"none", "local", "peer", "path"}

ProbeTypeOK ==
  /\ poolConn \in ProbeConns \cup {0} /\ poolDial \in ProbeConns \cup {0}
  /\ conns \in [ProbeConns -> [life : Lives, holds : SUBSET {"socket", "conn", "auth"}, cause : Causes]]
  /\ warm \in [1..Prewarms -> [at : {"idle", "acquires", "waits", "sends", "reads", "measures", "done"},
                               conn : ProbeConns \cup {0}, sent : Nat, got : Nat]]
  /\ gate \in [1..Prewarms -> [at : {"none", "reads", "closed"}, up : Seq(Nat), down : Seq(Nat),
                               half : BOOLEAN, frames : Nat, honest : BOOLEAN]]
  /\ accused \subseteq (1..Prewarms) \X Causes

ConnEnded(c) == conns[c].life \in {"open", "closed"}

\* The pool's connection was dialed to its end, and is the only one that is open.
PoolOwns ==
  /\ poolConn # 0 => ConnEnded(poolConn)
  /\ \A c \in ProbeConns : conns[c].life = "closed" => conns[c].cause # "none"
  /\ \A c \in ProbeConns : conns[c].holds # {} => c = poolConn \/ conns[c].life = "dialing"
  /\ \A c \in ProbeConns : conns[c].life = "open" => c = poolConn
  /\ poolDial # 0 => conns[poolDial].life = "dialing" /\ poolConn = 0

\* A prewarm beyond its dial has a connection, open or closed for a reason.
WarmConns ==
  \A p \in 1..Prewarms :
    /\ warm[p].at = "waits" => warm[p].conn # 0
    /\ warm[p].at \in {"sends", "reads", "measures"} => warm[p].conn # 0 /\ ConnEnded(warm[p].conn)

\* The echo is read once the whole probe is sent, and read until it is complete.
WarmCounts ==
  \A p \in 1..Prewarms :
    /\ warm[p].sent <= ProbeFrames
    /\ warm[p].at \in {"idle", "acquires", "waits", "sends"} => warm[p].got = 0
    /\ warm[p].at = "reads" => warm[p].sent = ProbeFrames /\ warm[p].got < warm[p].sent
    /\ gate[p].half => warm[p].sent = ProbeFrames

Consecutive(s, first) == \A i \in 1..Len(s) : s[i] = first + i - 1

\* What a gateway has not read is the probe's end, what was not read of its echo is
\* what it read last; and it ends the stream with all of the probe echoed.
Ordered(g, w) ==
  /\ Len(g.up) = w.sent - g.frames /\ Consecutive(g.up, g.frames)
  /\ Len(g.down) = g.frames - w.got /\ Consecutive(g.down, w.got)
  /\ g.at = "closed" => g.frames = ProbeFrames

EchoOrder ==
  \A p \in 1..Prewarms : /\ gate[p].at = "none" => gate[p].honest
                         /\ gate[p].honest => Ordered(gate[p], warm[p])

AccusedFairly == \A v \in accused : gate[v[1]].honest => v[2] \in {"peer", "local"}

ProbeIInv == ProbeTypeOK /\ PoolOwns /\ WarmConns /\ WarmCounts /\ EchoOrder /\ AccusedFairly

\* A sequence of consecutive numbers stays one when its next number comes.
LEMMA ConsecutiveAppend ==
  ASSUME NEW s \in Seq(Nat), NEW first \in Nat, NEW n, Consecutive(s, first), n = first + Len(s)
  PROVE  Len(Append(s, n)) = Len(s) + 1 /\ Consecutive(Append(s, n), first)
BY DEF Consecutive

\* And when its head goes.
LEMMA ConsecutiveTail ==
  ASSUME NEW s \in Seq(Nat), NEW first \in Nat, Consecutive(s, first), s # <<>>
  PROVE  /\ Head(s) = first /\ Len(s) >= 1 /\ Len(Tail(s)) = Len(s) - 1
         /\ Consecutive(Tail(s), first + 1)
<1>1. Len(s) >= 1 /\ Head(s) = s[1] /\ Len(Tail(s)) = Len(s) - 1
  OBVIOUS
<1>2. \A i \in 1..Len(Tail(s)) : Tail(s)[i] = s[i + 1]
  BY <1>1
<1>3. ASSUME NEW i \in 1..Len(Tail(s)) PROVE Tail(s)[i] = first + 1 + i - 1
  <2>1. i + 1 \in 1..Len(s)
    BY <1>1
  <2> QED BY <1>2, <2>1 DEF Consecutive
<1> QED BY <1>1, <1>3 DEF Consecutive

LEMMA ProbeInitInv == ProbeInit => ProbeIInv
<1> SUFFICES ASSUME ProbeInit PROVE ProbeIInv
  OBVIOUS
<1>1. ProbeTypeOK
  BY ProbeConstants DEF ProbeInit, ProbeTypeOK, ProbeConns, Lives, Causes
<1>2. PoolOwns /\ WarmConns /\ WarmCounts /\ AccusedFairly
  BY ProbeConstants DEF ProbeInit, PoolOwns, WarmConns, WarmCounts, AccusedFairly, ConnEnded, ProbeConns
<1>3. EchoOrder
  BY ProbeConstants DEF ProbeInit, EchoOrder, Consecutive, Ordered
<1> QED BY <1>1, <1>2, <1>3 DEF ProbeIInv

\* What PoolReset and the other steps on connections may do to them.
LEMMA ResetStep ==
  ASSUME ProbeTypeOK, PoolOwns, PoolReset(conns)
  PROVE  /\ PoolOwns'
         /\ poolConn' = 0 /\ poolDial' = 0
         /\ conns' \in [ProbeConns -> [life : Lives, holds : SUBSET {"socket", "conn", "auth"}, cause : Causes]]
         /\ \A c \in ProbeConns : ConnEnded(c) => ConnEnded(c)'
<1>1. CASE poolConn = 0
  BY <1>1 DEF ProbeTypeOK, PoolOwns, PoolReset, ConnEnded
<1>2. CASE poolConn # 0
  <2> DEFINE n == [life |-> "closed", holds |-> {},
                   cause |-> IF conns[poolConn].life = "open" THEN "local" ELSE conns[poolConn].cause]
  <2>1. poolConn \in ProbeConns /\ conns' = [conns EXCEPT ![poolConn] = n] /\ poolConn' = 0 /\ poolDial' = 0
    BY <1>2 DEF ProbeTypeOK, PoolReset
  <2>2. n \in [life : Lives, holds : SUBSET {"socket", "conn", "auth"}, cause : Causes]
    BY <2>1 DEF ProbeTypeOK, Lives, Causes
  <2>3. n.life = "closed" /\ n.holds = {} /\ n.cause # "none"
    BY <1>2, <2>1 DEF PoolOwns, ConnEnded
  <2> HIDE DEF n
  <2> QED BY <1>2, <2>1, <2>2, <2>3 DEF ProbeTypeOK, PoolOwns, ConnEnded
<1> QED BY <1>1, <1>2

\* The steps that touch neither the pool nor a connection.
PoolRests == UNCHANGED <<poolConn, poolDial, conns>>

ConnStep ==
  \/ PoolReset(conns)
  \/ \E p \in 1..Prewarms : WarmAcquires(p)
  \/ \E c \in ProbeConns : DialGains(c) \/ DialEnds(c) \/ ConnLost(c)

\* Every step keeps the pool's connection the only open one, and an ended dial ended.
LEMMA PoolStep ==
  ASSUME ProbeTypeOK, PoolOwns, PoolRests \/ ConnStep
  PROVE  /\ PoolOwns'
         /\ poolConn' \in ProbeConns \cup {0} /\ poolDial' \in ProbeConns \cup {0}
         /\ conns' \in [ProbeConns -> [life : Lives, holds : SUBSET {"socket", "conn", "auth"}, cause : Causes]]
         /\ \A c \in ProbeConns : ConnEnded(c) => ConnEnded(c)'
<1> DEFINE Records == [life : Lives, holds : SUBSET {"socket", "conn", "auth"}, cause : Causes]
<1>0. /\ conns \in [ProbeConns -> Records] /\ 0 \notin ProbeConns
      /\ \A c \in ProbeConns : conns[c] \in Records
  BY DEF ProbeTypeOK, ProbeConns
<1>1. CASE PoolRests
  BY <1>1 DEF PoolRests, ProbeTypeOK, PoolOwns, ConnEnded
<1>2. CASE PoolReset(conns)
  BY <1>2, ResetStep
<1>3. ASSUME NEW p \in 1..Prewarms, WarmAcquires(p)
      PROVE  /\ PoolOwns' /\ conns' \in [ProbeConns -> Records]
             /\ poolConn' \in ProbeConns \cup {0} /\ poolDial' \in ProbeConns \cup {0}
             /\ \A c \in ProbeConns : ConnEnded(c) => ConnEnded(c)'
  <2>1. CASE PoolLive
    BY <1>3, <2>1 DEF WarmAcquires, ProbeTypeOK, PoolOwns, ConnEnded
  <2>2. CASE ~PoolLive
    <3>1. PICK c \in IF poolDial # 0 THEN {poolDial} ELSE FreshConn :
            /\ poolDial' = c /\ poolConn' = 0
            /\ conns' = [d \in ProbeConns |->
                            CASE d = c -> [conns[c] EXCEPT !.life = "dialing"]
                              [] d = poolConn -> [conns[d] EXCEPT !.holds = {}]
                              [] OTHER -> conns[d]]
      BY <1>3, <2>2 DEF WarmAcquires
    <3>2. c \in ProbeConns /\ conns[c].life \in {"unused", "dialing"}
      BY <3>1 DEF ProbeTypeOK, PoolOwns, FreshConn
    <3>3. /\ c # poolConn
          /\ conns'[c] = [conns[c] EXCEPT !.life = "dialing"]
          /\ poolConn # 0 => conns'[poolConn] = [conns[poolConn] EXCEPT !.holds = {}]
          /\ \A d \in ProbeConns \ {c, poolConn} : conns'[d] = conns[d]
      <4>1. c # poolConn
        BY <1>0, <3>2 DEF PoolOwns, ConnEnded
      <4>2. \A d \in ProbeConns : conns'[d] = CASE d = c -> [conns[c] EXCEPT !.life = "dialing"]
                                              [] d = poolConn -> [conns[d] EXCEPT !.holds = {}]
                                              [] OTHER -> conns[d]
        BY <3>1
      <4>3. poolConn # 0 => poolConn \in ProbeConns
        BY DEF ProbeTypeOK
      <4>4. conns'[c] = [conns[c] EXCEPT !.life = "dialing"]
        BY <3>2, <4>1, <4>2
      <4>5. poolConn # 0 => conns'[poolConn] = [conns[poolConn] EXCEPT !.holds = {}]
        BY <4>1, <4>2, <4>3
      <4> QED BY <4>1, <4>2, <4>4, <4>5
    <3>4. /\ conns'[c] \in Records /\ conns'[c].life = "dialing"
          /\ poolConn # 0 => /\ conns'[poolConn] \in Records /\ conns'[poolConn].holds = {}
                             /\ conns'[poolConn].life = conns[poolConn].life
                             /\ conns'[poolConn].cause = conns[poolConn].cause
      <4>1. conns[c] \in Records
        BY <1>0, <3>2
      <4>2. poolConn # 0 => conns[poolConn] \in Records
        BY <1>0 DEF ProbeTypeOK
      <4> QED BY <3>3, <4>1, <4>2 DEF Lives
    <3>5. conns' \in [ProbeConns -> Records]
      BY <1>0, <3>1, <3>3, <3>4
    <3>6. \A d \in ProbeConns : conns[d].life # "open"
      BY <2>2, <1>0 DEF PoolLive, PoolOwns
    <3>7. \A d \in ProbeConns : d # c => conns'[d].life = conns[d].life /\ conns'[d].cause = conns[d].cause
      BY <1>0, <3>3, <3>4
    <3>8. \A d \in ProbeConns : d # c /\ conns'[d].holds # {} => conns[d].life = "dialing"
      BY <1>0, <3>3, <3>4 DEF PoolOwns
    <3>9. poolConn' \in ProbeConns \cup {0} /\ poolDial' \in ProbeConns \cup {0}
      BY <3>1, <3>2
    <3>10. PoolOwns'
      BY <3>1, <3>2, <3>4, <3>6, <3>7, <3>8 DEF PoolOwns
    <3>11. \A d \in ProbeConns : ConnEnded(d) => ConnEnded(d)'
      BY <3>2, <3>7 DEF ConnEnded
    <3> HIDE DEF Records
    <3> QED BY <3>5, <3>9, <3>10, <3>11
  <2> QED BY <2>1, <2>2
<1>4. ASSUME NEW c \in ProbeConns, DialGains(c)
      PROVE  /\ PoolOwns' /\ conns' \in [ProbeConns -> Records]
             /\ poolConn' \in ProbeConns \cup {0} /\ poolDial' \in ProbeConns \cup {0}
             /\ \A d \in ProbeConns : ConnEnded(d) => ConnEnded(d)'
  <2>1. PICK h \in SUBSET {"socket", "conn", "auth"} : conns' = [conns EXCEPT ![c].holds = h]
    BY <1>0, <1>4 DEF DialGains
  <2>2. conns[c].life = "dialing" /\ UNCHANGED <<poolConn, poolDial>>
    BY <1>4 DEF DialGains
  <2> QED BY <1>0, <2>1, <2>2 DEF ProbeTypeOK, PoolOwns, ConnEnded
<1>5. ASSUME NEW c \in ProbeConns, DialEnds(c)
      PROVE  /\ PoolOwns' /\ conns' \in [ProbeConns -> Records]
             /\ poolConn' \in ProbeConns \cup {0} /\ poolDial' \in ProbeConns \cup {0}
             /\ \A d \in ProbeConns : ConnEnded(d) => ConnEnded(d)'
  <2>1. PICK ok \in BOOLEAN :
          /\ conns' = IF ok /\ poolDial = c THEN [conns EXCEPT ![c].life = "open"]
                      ELSE IF ok THEN ConnClosed(c, "local")
                      ELSE [conns EXCEPT ![c] = [life |-> "closed", holds |-> DialErrorHolds(@.holds),
                                                 cause |-> IF poolDial = c THEN "path" ELSE "local"]]
          /\ poolConn' = IF ok /\ poolDial = c THEN c ELSE poolConn
          /\ poolDial' = IF poolDial = c THEN 0 ELSE poolDial
    BY <1>5 DEF DialEnds
  <2>2. conns[c].life = "dialing"
    BY <1>5 DEF DialEnds
  <2>3. CASE ok /\ poolDial = c
    <3>1. /\ conns' = [conns EXCEPT ![c].life = "open"]
          /\ poolConn' = c /\ poolDial' = 0
      BY <2>1, <2>3
    <3>2. poolConn = 0
      BY <1>0, <2>3 DEF PoolOwns
    <3> QED BY <1>0, <2>2, <3>1, <3>2 DEF PoolOwns, ConnEnded, Lives
  <2>4. CASE ~(ok /\ poolDial = c)
    <3>1. PICK cause \in {"local", "path"} :
            conns' = [conns EXCEPT ![c] = [life |-> "closed", holds |-> {}, cause |-> cause]]
      BY <2>1, <2>4 DEF ConnClosed, DialErrorHolds
    <3>2. poolConn' = poolConn /\ ((poolDial' = poolDial /\ poolDial # c) \/ poolDial' = 0)
      BY <2>1, <2>4
    <3>3. [life |-> "closed", holds |-> {}, cause |-> cause] \in Records
      BY DEF Lives, Causes
    <3> QED BY <1>0, <2>2, <3>1, <3>2, <3>3 DEF PoolOwns, ConnEnded, ProbeTypeOK
  <2> QED BY <2>3, <2>4
<1>6. ASSUME NEW c \in ProbeConns, ConnLost(c)
      PROVE  /\ PoolOwns' /\ conns' \in [ProbeConns -> Records]
             /\ poolConn' \in ProbeConns \cup {0} /\ poolDial' \in ProbeConns \cup {0}
             /\ \A d \in ProbeConns : ConnEnded(d) => ConnEnded(d)'
  <2>1. PICK cause \in {"peer", "path"} : conns' = [conns EXCEPT ![c].life = "closed", ![c].cause = cause]
    BY <1>6 DEF ConnLost
  <2>2. conns[c].life = "open" /\ UNCHANGED <<poolConn, poolDial>>
    BY <1>6 DEF ConnLost
  <2>3. /\ conns' \in [ProbeConns -> Records] /\ conns'[c].life = "closed" /\ conns'[c].cause = cause
        /\ conns'[c].holds = conns[c].holds /\ \A d \in ProbeConns \ {c} : conns'[d] = conns[d]
    <3>1. conns[c] \in Records
      BY <1>0
    <3>2. conns'[c] = [conns[c] EXCEPT !.life = "closed", !.cause = cause]
      BY <1>0, <2>1
    <3>3. \A d \in ProbeConns \ {c} : conns'[d] = conns[d]
      BY <1>0, <2>1
    <3>4. /\ conns'[c] \in Records /\ conns'[c].life = "closed" /\ conns'[c].cause = cause
          /\ conns'[c].holds = conns[c].holds
      BY <3>1, <3>2 DEF Lives, Causes
    <3>5. DOMAIN conns' = ProbeConns /\ conns' = [d \in ProbeConns |-> conns'[d]]
      BY <1>0, <2>1
    <3> QED BY <1>0, <3>3, <3>4, <3>5
  <2>4. poolConn = c /\ poolDial = 0 /\ cause # "none"
    BY <1>0, <2>1, <2>2 DEF PoolOwns
  <2>5. poolConn' = c /\ poolDial' = 0
    BY <2>2, <2>4
  <2>6. PoolOwns'
    BY <1>0, <2>1, <2>3, <2>4, <2>5 DEF PoolOwns, ConnEnded
  <2>7. \A d \in ProbeConns : ConnEnded(d) => ConnEnded(d)'
    BY <2>3 DEF ConnEnded
  <2> HIDE DEF Records
  <2> QED BY <2>3, <2>5, <2>6, <2>7
<1> QED BY <1>1, <1>2, <1>3, <1>4, <1>5, <1>6 DEF ConnStep

\* Every step is one of these.
LEMMA ProbeSteps == [ProbeNext]_probeVars => PoolRests \/ ConnStep
BY DEF ProbeNext, probeVars, PoolRests, ConnStep, UplinkChanges, WatchTick, WarmGivesUp, ProbeSends,
   ProbeEnds, ProbeReads, ProbeRejects, GateAccepts, GateEchoes, GateMisbehaves

WarmType == [at : {"idle", "acquires", "waits", "sends", "reads", "measures", "done"},
             conn : ProbeConns \cup {0}, sent : Nat, got : Nat]

GateType == [at : {"none", "reads", "closed"}, up : Seq(Nat), down : Seq(Nat),
             half : BOOLEAN, frames : Nat, honest : BOOLEAN]

\* What an echoed frame changes at the gateway.
LEMMA EchoedFrame ==
  ASSUME ProbeTypeOK, NEW p \in 1..Prewarms, GateEchoes(p), gate[p].up # <<>>
  PROVE  /\ gate'[p].up = Tail(gate[p].up) /\ gate'[p].down = Append(gate[p].down, Head(gate[p].up))
         /\ gate'[p].frames = gate[p].frames + 1 /\ gate'[p].half = gate[p].half
         /\ gate'[p].honest = gate[p].honest
         /\ gate'[p].at = IF EchoFull(gate[p].frames + 1) THEN "closed" ELSE gate[p].at
         /\ gate' = [gate EXCEPT ![p] = gate'[p]]
<1> DEFINE at == IF EchoFull(gate[p].frames + 1) THEN "closed" ELSE gate[p].at
           r == [gate[p] EXCEPT !.up = Tail(gate[p].up), !.down = Append(gate[p].down, Head(gate[p].up)),
                                !.frames = gate[p].frames + 1, !.at = at]
<1>1. gate \in [1..Prewarms -> GateType]
  BY DEF ProbeTypeOK, GateType
<1>2. gate' = [gate EXCEPT ![p] = r]
  BY <1>1 DEF GateEchoes
<1>3. gate'[p] = r
  BY <1>1, <1>2
<1>4. gate[p] \in GateType
  BY <1>1
<1>5. /\ r.up = Tail(gate[p].up) /\ r.down = Append(gate[p].down, Head(gate[p].up))
      /\ r.frames = gate[p].frames + 1 /\ r.half = gate[p].half /\ r.honest = gate[p].honest
      /\ r.at = at
  BY <1>4 DEF GateType
<1> HIDE DEF r
<1> QED BY <1>2, <1>3, <1>5

\* A prewarm moves by the steps of the connections, of its own or of the gateway's.
LEMMA WarmStep ==
  ASSUME ProbeTypeOK, PoolOwns, WarmConns, WarmCounts, [ProbeNext]_probeVars
  PROVE  WarmConns' /\ WarmCounts' /\ warm' \in [1..Prewarms -> WarmType]
<1> USE ProbeConstants
<1>0. /\ warm \in [1..Prewarms -> WarmType] /\ \A p \in 1..Prewarms : warm[p] \in WarmType
      /\ 0 \notin ProbeConns
      /\ \A c \in ProbeConns : ConnEnded(c) => conns'[c].life \in {"open", "closed"}
  <2>1. \A c \in ProbeConns : ConnEnded(c) => ConnEnded(c)'
    BY ProbeSteps, PoolStep
  <2>2. \A c \in ProbeConns : ConnEnded(c) => conns'[c].life \in {"open", "closed"}
    BY <2>1 DEF ConnEnded
  <2>3. warm \in [1..Prewarms -> WarmType] /\ 0 \notin ProbeConns
    BY DEF ProbeTypeOK, WarmType, ProbeConns
  <2> HIDE DEF WarmType
  <2> QED BY <2>2, <2>3
<1>a. ASSUME NEW q \in 1..Prewarms, warm'[q] = warm[q]
      PROVE  /\ warm'[q].at = "waits" => warm'[q].conn # 0
             /\ warm'[q].at \in {"sends", "reads", "measures"} =>
                  warm'[q].conn # 0 /\ conns'[warm'[q].conn].life \in {"open", "closed"}
  <2>1. warm[q].conn \in ProbeConns \cup {0}
    BY <1>0 DEF WarmType
  <2> QED BY <1>0, <1>a, <2>1 DEF WarmConns
<1>b. ASSUME NEW q \in 1..Prewarms, warm'[q].sent = warm[q].sent, gate'[q].half = gate[q].half,
             warm'[q].got = warm[q].got, warm'[q].at \in {warm[q].at, "acquires", "done"},
             warm'[q].at = "acquires" => warm[q].at \in {"idle", "waits", "acquires"}
      PROVE  /\ warm'[q].sent <= ProbeFrames
             /\ warm'[q].at \in {"idle", "acquires", "waits", "sends"} => warm'[q].got = 0
             /\ warm'[q].at = "reads" => warm'[q].sent = ProbeFrames /\ warm'[q].got < warm'[q].sent
             /\ gate'[q].half => warm'[q].sent = ProbeFrames
  BY <1>b DEF WarmCounts
<1>1. CASE UNCHANGED warm /\ \A p \in 1..Prewarms : gate'[p].half = gate[p].half
  <2>1. WarmConns'
    BY <1>1, <1>a DEF WarmConns, ConnEnded
  <2>2. WarmCounts'
    BY <1>1, <1>b DEF WarmCounts
  <2> QED BY <1>0, <1>1, <2>1, <2>2
\* One prewarm moves, and no stream is half-closed.
<1>2. ASSUME NEW p \in 1..Prewarms, NEW r \in WarmType, warm' = [warm EXCEPT ![p] = r],
             \A q \in 1..Prewarms : gate'[q].half = gate[q].half,
             r.at = "waits" => r.conn # 0,
             r.at \in {"sends", "reads", "measures"} => r.conn # 0 /\ conns'[r.conn].life \in {"open", "closed"},
             r.sent <= ProbeFrames, r.at \in {"idle", "acquires", "waits", "sends"} => r.got = 0,
             r.at = "reads" => r.sent = ProbeFrames /\ r.got < r.sent,
             r.sent # warm[p].sent => ~gate[p].half
      PROVE  WarmConns' /\ WarmCounts' /\ warm' \in [1..Prewarms -> WarmType]
  <2>1. warm'[p] = r /\ \A q \in 1..Prewarms \ {p} : warm'[q] = warm[q]
    BY <1>0, <1>2
  <2>2. WarmConns'
    BY <1>2, <1>a, <2>1 DEF WarmConns, ConnEnded
  <2>3. WarmCounts'
    <3>1. ASSUME NEW q \in 1..Prewarms, q # p
          PROVE  /\ warm'[q].sent <= ProbeFrames
                 /\ warm'[q].at \in {"idle", "acquires", "waits", "sends"} => warm'[q].got = 0
                 /\ warm'[q].at = "reads" => warm'[q].sent = ProbeFrames /\ warm'[q].got < warm'[q].sent
                 /\ gate'[q].half => warm'[q].sent = ProbeFrames
      BY <1>2, <1>b, <2>1, <3>1
    <3>2. gate'[p].half => r.sent = ProbeFrames
      BY <1>2 DEF WarmCounts
    <3> QED BY <1>2, <2>1, <3>1, <3>2 DEF WarmCounts
  <2> QED BY <1>0, <1>2, <2>2, <2>3
<1>3. CASE WatchTick
  <2>1. CASE UNCHANGED warm
    BY <1>1, <1>3, <2>1 DEF WatchTick
  <2>2. CASE \E p \in 1..Prewarms : warm[p].at = "idle" /\ warm' = [warm EXCEPT ![p].at = "acquires"]
    <3>1. PICK p \in 1..Prewarms : warm[p].at = "idle" /\ warm' = [warm EXCEPT ![p].at = "acquires"]
      BY <2>2
    <3> DEFINE r == [warm[p] EXCEPT !.at = "acquires"]
    <3>2. r \in WarmType /\ warm' = [warm EXCEPT ![p] = r]
      BY <1>0, <3>1 DEF WarmType
    <3>3. r.at = "acquires" /\ r.sent = warm[p].sent /\ r.got = warm[p].got
      BY <1>0 DEF WarmType
    <3> HIDE DEF r
    <3>4. UNCHANGED gate
      BY <1>3 DEF WatchTick
    <3>5. warm[p].sent <= ProbeFrames /\ warm[p].got = 0
      BY <3>1 DEF WarmCounts
    <3>6. r.sent <= ProbeFrames /\ r.got = 0
      BY <3>3, <3>5
    <3> QED BY <1>2, <3>2, <3>3, <3>4, <3>6
  <2> QED BY <1>3, <2>1, <2>2 DEF WatchTick
<1>4. ASSUME NEW p \in 1..Prewarms, WarmAcquires(p)
      PROVE  WarmConns' /\ WarmCounts' /\ warm' \in [1..Prewarms -> WarmType]
  <2>1. CASE PoolLive
    <3> DEFINE r == [warm[p] EXCEPT !.at = "sends", !.conn = poolConn]
    <3>1. poolConn \in ProbeConns /\ ConnEnded(poolConn)
      BY <2>1 DEF PoolLive, ProbeTypeOK, ConnEnded
    <3>2. r \in WarmType /\ warm' = [warm EXCEPT ![p] = r]
      BY <1>0, <1>4, <2>1, <3>1 DEF WarmAcquires, WarmType
    <3>3. r.at = "sends" /\ r.conn = poolConn /\ r.sent = warm[p].sent /\ r.got = warm[p].got
      BY <1>0 DEF WarmType
    <3> HIDE DEF r
    <3>4. warm[p].at = "acquires" /\ UNCHANGED gate
      BY <1>4 DEF WarmAcquires
    <3>5. warm[p].sent <= ProbeFrames /\ warm[p].got = 0
      BY <3>4 DEF WarmCounts
    <3>6. r.sent <= ProbeFrames /\ r.got = 0 /\ r.conn # 0 /\ conns'[r.conn].life \in {"open", "closed"}
      BY <1>0, <3>1, <3>3, <3>5
    <3> QED BY <1>2, <3>2, <3>3, <3>4, <3>6
  <2>2. CASE ~PoolLive
    <3>1. PICK c \in ProbeConns : warm' = [warm EXCEPT ![p].at = "waits", ![p].conn = c]
      BY <1>4, <2>2 DEF WarmAcquires, FreshConn, ProbeTypeOK
    <3> DEFINE r == [warm[p] EXCEPT !.at = "waits", !.conn = c]
    <3>2. r \in WarmType /\ warm' = [warm EXCEPT ![p] = r]
      BY <1>0, <3>1 DEF WarmType
    <3>3. r.at = "waits" /\ r.conn = c /\ r.sent = warm[p].sent /\ r.got = warm[p].got
      BY <1>0 DEF WarmType
    <3> HIDE DEF r
    <3>4. warm[p].at = "acquires" /\ UNCHANGED gate
      BY <1>4 DEF WarmAcquires
    <3>5. warm[p].sent <= ProbeFrames /\ warm[p].got = 0
      BY <3>4 DEF WarmCounts
    <3>6. r.sent <= ProbeFrames /\ r.got = 0 /\ r.conn # 0
      BY <1>0, <3>3, <3>5
    <3> QED BY <1>2, <3>2, <3>3, <3>4, <3>6
  <2> QED BY <2>1, <2>2
<1>5. ASSUME NEW c \in ProbeConns, DialEnds(c)
      PROVE  WarmConns' /\ WarmCounts' /\ warm' \in [1..Prewarms -> WarmType]
  <2>1. PICK at \in {"acquires", "sends", "done"} :
          /\ warm' = [p \in 1..Prewarms |->
                        IF warm[p].at = "waits" /\ warm[p].conn = c THEN [warm[p] EXCEPT !.at = at] ELSE warm[p]]
          /\ at = "sends" => conns'[c].life = "open"
    <3>1. PICK ok \in BOOLEAN :
            /\ warm' = [p \in 1..Prewarms |->
                          IF warm[p].at = "waits" /\ warm[p].conn = c
                          THEN [warm[p] EXCEPT !.at = IF poolDial # c THEN "acquires"
                                                      ELSE IF ok THEN "sends" ELSE "done"]
                          ELSE warm[p]]
            /\ ok /\ poolDial = c => conns' = [conns EXCEPT ![c].life = "open"]
      BY <1>5 DEF DialEnds
    <3>2. ok /\ poolDial = c => conns'[c].life = "open"
      BY <3>1 DEF ProbeTypeOK
    <3> DEFINE at == IF poolDial # c THEN "acquires" ELSE IF ok THEN "sends" ELSE "done"
    <3>3. at \in {"acquires", "sends", "done"} /\ (at = "sends" => ok /\ poolDial = c)
      OBVIOUS
    <3> QED BY <3>1, <3>2, <3>3
  <2>2. UNCHANGED gate
    BY <1>5 DEF DialEnds
  <2>3. ASSUME NEW p \in 1..Prewarms
        PROVE  /\ warm'[p] \in WarmType /\ warm'[p].conn = warm[p].conn
               /\ warm'[p].sent = warm[p].sent /\ warm'[p].got = warm[p].got
               /\ \/ warm'[p].at = warm[p].at
                  \/ warm[p].at = "waits" /\ warm[p].conn = c /\ warm'[p].at = at
    BY <1>0, <2>1 DEF WarmType
  <2>4. WarmConns'
    BY <1>0, <2>1, <2>3 DEF WarmConns, ConnEnded, WarmType
  <2>5. WarmCounts'
    BY <2>2, <2>3 DEF WarmCounts
  <2> QED BY <2>1, <2>3, <2>4, <2>5
<1>6. ASSUME NEW p \in 1..Prewarms, WarmGivesUp(p) \/ ProbeEnds(p) \/ ProbeRejects(p)
      PROVE  WarmConns' /\ WarmCounts' /\ warm' \in [1..Prewarms -> WarmType]
  <2> DEFINE r == [warm[p] EXCEPT !.at = "done"]
  <2>1. r \in WarmType /\ warm' = [warm EXCEPT ![p] = r] /\ UNCHANGED gate
    BY <1>0, <1>6 DEF WarmGivesUp, ProbeEnds, ProbeRejects, WarmType
  <2>2. r.at = "done" /\ r.sent = warm[p].sent /\ r.got = warm[p].got
    BY <1>0 DEF WarmType
  <2> HIDE DEF r
  <2>3. warm[p].sent <= ProbeFrames
    BY DEF WarmCounts
  <2>4. r.sent <= ProbeFrames
    BY <2>2, <2>3
  <2> QED BY <1>2, <2>1, <2>2, <2>4
<1>7. ASSUME NEW p \in 1..Prewarms, ProbeSends(p)
      PROVE  WarmConns' /\ WarmCounts' /\ warm' \in [1..Prewarms -> WarmType]
  <2>1. warm[p].at = "sends" /\ gate \in [1..Prewarms -> [at : {"none", "reads", "closed"}, up : Seq(Nat),
           down : Seq(Nat), half : BOOLEAN, frames : Nat, honest : BOOLEAN]]
    BY <1>7 DEF ProbeSends, ProbeTypeOK
  <2>2. CASE warm[p].sent < ProbeFrames
    <3> DEFINE r == [warm[p] EXCEPT !.sent = warm[p].sent + 1]
    <3>0. warm' = [warm EXCEPT ![p].sent = @ + 1]
      BY <1>7, <2>2 DEF ProbeSends
    <3>1. r \in WarmType /\ warm' = [warm EXCEPT ![p] = r]
      <4>1. warm[p] \in WarmType /\ warm[p].sent + 1 \in Nat
        BY <1>0 DEF WarmType
      <4>2. r \in WarmType
        BY <4>1 DEF WarmType
      <4>3. warm'[p] = r /\ \A q \in 1..Prewarms \ {p} : warm'[q] = warm[q]
        BY <1>0, <3>0
      <4>4. warm' = [q \in 1..Prewarms |-> warm'[q]]
        BY <1>0, <3>0
      <4> HIDE DEF r
      <4> QED BY <1>0, <4>2, <4>3, <4>4
    <3>2. r.at = warm[p].at /\ r.conn = warm[p].conn /\ r.sent = warm[p].sent + 1 /\ r.got = warm[p].got
      BY <1>0 DEF WarmType
    <3>3. gate' = [gate EXCEPT ![p].up = Append(@, warm[p].sent)]
      BY <1>7, <2>2 DEF ProbeSends
    <3>4. \A q \in 1..Prewarms : gate'[q].half = gate[q].half
      BY <2>1, <3>3
    <3>5. ~gate[p].half /\ warm[p].sent \in Nat
      BY <1>0, <2>2 DEF WarmCounts, WarmType
    <3>6. r.conn # 0 /\ conns'[r.conn].life \in {"open", "closed"}
      <4>1. warm[p].conn \in ProbeConns /\ ConnEnded(warm[p].conn)
        BY <1>0, <2>1 DEF WarmConns, WarmType
      <4> QED BY <1>0, <3>2, <4>1
    <3> HIDE DEF r
    <3>7. r.sent <= ProbeFrames /\ r.at = "sends" /\ r.got = 0
      BY <2>1, <2>2, <3>2, <3>5 DEF WarmCounts
    <3>8. r.at # "waits" /\ r.at # "reads"
      BY <3>7
    <3> QED BY <1>2, <3>1, <3>4, <3>5, <3>6, <3>7, <3>8
  <2>3. CASE ~(warm[p].sent < ProbeFrames)
    <3>1. /\ warm' = [warm EXCEPT ![p].at = "reads"] /\ gate' = [gate EXCEPT ![p].half = TRUE]
      BY <1>7, <2>3 DEF ProbeSends
    <3>2. warm[p].sent = ProbeFrames /\ warm[p].got = 0
      BY <1>0, <2>1, <2>3 DEF WarmCounts, WarmType
    <3>3. /\ warm'[p] = [warm[p] EXCEPT !.at = "reads"] /\ \A q \in 1..Prewarms \ {p} : warm'[q] = warm[q]
          /\ \A q \in 1..Prewarms \ {p} : gate'[q] = gate[q]
      BY <1>0, <2>1, <3>1
    <3>4. /\ warm'[p].at = "reads" /\ warm'[p].conn = warm[p].conn /\ warm'[p].sent = warm[p].sent
          /\ warm'[p].got = warm[p].got /\ warm'[p] \in WarmType
      BY <1>0, <3>3 DEF WarmType
    <3>5. WarmConns'
      <4>1. warm[p].conn \in ProbeConns /\ ConnEnded(warm[p].conn)
        BY <1>0, <2>1 DEF WarmConns, WarmType
      <4>2. conns'[warm[p].conn].life \in {"open", "closed"} /\ warm[p].conn # 0
        BY <1>0, <4>1
      <4>3. ASSUME NEW q \in 1..Prewarms, q # p
            PROVE  /\ warm'[q].at = "waits" => warm'[q].conn # 0
                   /\ warm'[q].at \in {"sends", "reads", "measures"} =>
                        warm'[q].conn # 0 /\ conns'[warm'[q].conn].life \in {"open", "closed"}
        BY <1>a, <3>3, <4>3
      <4>4. warm'[p].at # "waits" /\ warm'[p].conn # 0 /\ conns'[warm'[p].conn].life \in {"open", "closed"}
        BY <3>4, <4>2
      <4> QED BY <4>3, <4>4 DEF WarmConns, ConnEnded
    <3>6. WarmCounts'
      <4>1. warm'[p].sent = ProbeFrames /\ warm'[p].got = 0
        BY <3>2, <3>4
      <4>2. ASSUME NEW q \in 1..Prewarms, q # p
            PROVE  /\ warm'[q].sent <= ProbeFrames
                   /\ warm'[q].at \in {"idle", "acquires", "waits", "sends"} => warm'[q].got = 0
                   /\ warm'[q].at = "reads" => warm'[q].sent = ProbeFrames /\ warm'[q].got < warm'[q].sent
                   /\ gate'[q].half => warm'[q].sent = ProbeFrames
        BY <1>b, <3>3, <4>2
      <4> QED BY <3>4, <4>1, <4>2 DEF WarmCounts
    <3> QED BY <1>0, <3>1, <3>4, <3>5, <3>6
  <2> QED BY <2>2, <2>3
<1>8. ASSUME NEW p \in 1..Prewarms, ProbeReads(p)
      PROVE  WarmConns' /\ WarmCounts' /\ warm' \in [1..Prewarms -> WarmType]
  <2>1. PICK at \in {"reads", "measures"} :
          /\ warm' = [warm EXCEPT ![p].got = @ + 1, ![p].at = at]
          /\ at = "reads" => warm[p].got + 1 # warm[p].sent
    BY <1>0, <1>8 DEF ProbeReads
  <2> DEFINE r == [warm[p] EXCEPT !.got = warm[p].got + 1, !.at = at]
  <2>2. r \in WarmType /\ warm' = [warm EXCEPT ![p] = r]
    <3>1. warm[p] \in WarmType /\ warm[p].got + 1 \in Nat
      BY <1>0 DEF WarmType
    <3>2. r \in WarmType
      BY <3>1 DEF WarmType
    <3>3. warm'[p] = r /\ \A q \in 1..Prewarms \ {p} : warm'[q] = warm[q]
      BY <1>0, <2>1
    <3>4. warm' = [q \in 1..Prewarms |-> warm'[q]]
      BY <1>0, <2>1
    <3> HIDE DEF r
    <3> QED BY <1>0, <3>2, <3>3, <3>4
  <2>3. r.at = at /\ r.conn = warm[p].conn /\ r.sent = warm[p].sent /\ r.got = warm[p].got + 1
    BY <1>0 DEF WarmType
  <2>4. \A q \in 1..Prewarms : gate'[q].half = gate[q].half
    BY <1>8 DEF ProbeReads, ProbeTypeOK
  <2>5. warm[p].at = "reads" /\ warm[p].got \in Nat /\ warm[p].sent \in Nat
    BY <1>0, <1>8 DEF ProbeReads, WarmType
  <2>6. r.conn # 0 /\ conns'[r.conn].life \in {"open", "closed"}
    <3>1. warm[p].conn \in ProbeConns /\ ConnEnded(warm[p].conn)
      BY <1>0, <2>5 DEF WarmConns, WarmType
    <3> QED BY <1>0, <2>3, <3>1
  <2> HIDE DEF r
  <2>7. /\ r.at # "waits" /\ r.at \notin {"idle", "acquires", "waits", "sends"}
        /\ r.sent <= ProbeFrames
        /\ r.at = "reads" => r.sent = ProbeFrames /\ r.got < r.sent
    BY <2>1, <2>3, <2>5 DEF WarmCounts
  <2> QED BY <1>2, <2>2, <2>3, <2>4, <2>6, <2>7
<1>9. ASSUME NEW p \in 1..Prewarms, GateAccepts(p) \/ GateEchoes(p) \/ GateMisbehaves(p)
      PROVE  WarmConns' /\ WarmCounts' /\ warm' \in [1..Prewarms -> WarmType]
  <2>1. UNCHANGED warm
    BY <1>9 DEF GateAccepts, GateEchoes, GateMisbehaves
  <2>2. \A q \in 1..Prewarms : gate'[q].half = gate[q].half
    <3> DEFINE Gates == [at : {"none", "reads", "closed"}, up : Seq(Nat), down : Seq(Nat),
                         half : BOOLEAN, frames : Nat, honest : BOOLEAN]
    <3>1. gate \in [1..Prewarms -> Gates]
      BY DEF ProbeTypeOK
    <3>2. CASE GateAccepts(p)
      BY <3>1, <3>2 DEF GateAccepts
    <3>3. CASE GateEchoes(p)
      <4>1. CASE gate[p].up # <<>>
        BY <3>1, <3>3, <4>1, EchoedFrame
      <4>2. CASE gate[p].up = <<>>
        BY <3>1, <3>3, <4>2 DEF GateEchoes
      <4> QED BY <4>1, <4>2
    <3>4. CASE GateMisbehaves(p)
      BY <3>1, <3>4 DEF GateMisbehaves
    <3> QED BY <1>9, <3>2, <3>3, <3>4
  <2> QED BY <1>0, <1>1, <2>1, <2>2
<1>10. CASE UplinkChanges \/ UNCHANGED probeVars \/ \E c \in ProbeConns : DialGains(c) \/ ConnLost(c)
  BY <1>0, <1>1, <1>10 DEF UplinkChanges, probeVars, DialGains, ConnLost
<1> QED BY <1>3, <1>4, <1>5, <1>6, <1>7, <1>8, <1>9, <1>10 DEF ProbeNext

\* A step of the probe or of the gateway keeps the frames between them in order.
LEMMA EchoStep ==
  ASSUME ProbeTypeOK, PoolOwns, WarmConns, WarmCounts, EchoOrder, [ProbeNext]_probeVars
  PROVE  /\ EchoOrder' /\ gate' \in [1..Prewarms -> GateType]
         /\ \A p \in 1..Prewarms : gate'[p].honest => gate[p].honest
<1> DEFINE Goal == /\ EchoOrder' /\ gate' \in [1..Prewarms -> GateType]
                   /\ \A p \in 1..Prewarms : gate'[p].honest => gate[p].honest
<1>0. /\ warm \in [1..Prewarms -> WarmType] /\ \A p \in 1..Prewarms : warm[p] \in WarmType
      /\ gate \in [1..Prewarms -> GateType] /\ \A p \in 1..Prewarms : gate[p] \in GateType
  <2>1. warm \in [1..Prewarms -> WarmType] /\ gate \in [1..Prewarms -> GateType]
    BY DEF ProbeTypeOK, WarmType, GateType
  <2> HIDE DEF GateType, WarmType
  <2> QED BY <2>1
<1>c. \A p \in 1..Prewarms : /\ gate[p].at = "none" => gate[p].honest
                             /\ gate[p].honest => Ordered(gate[p], warm[p])
  BY DEF EchoOrder
\* The order of one stream rests on its own two ends.
<1>1. ASSUME NEW p \in 1..Prewarms, NEW g \in GateType, gate' = [gate EXCEPT ![p] = g],
             \A q \in 1..Prewarms \ {p} : warm'[q] = warm[q],
             g.honest => gate[p].honest, g.at = "none" => g.honest,
             g.honest => Ordered(g, warm'[p])
      PROVE  Goal
  <2>1. gate'[p] = g /\ \A q \in 1..Prewarms \ {p} : gate'[q] = gate[q]
    BY <1>0, <1>1
  <2>2. ASSUME NEW q \in 1..Prewarms
        PROVE  /\ gate'[q].at = "none" => gate'[q].honest
               /\ gate'[q].honest => Ordered(gate'[q], warm'[q])
    <3>1. CASE q = p
      BY <1>1, <2>1, <3>1
    <3>2. CASE q # p
      BY <1>c, <1>1, <2>1, <3>2
    <3> QED BY <3>1, <3>2
  <2>3. EchoOrder'
    BY <2>2 DEF EchoOrder
  <2>4. gate' \in [1..Prewarms -> GateType]
    BY <1>0, <1>1
  <2> QED BY <1>1, <2>1, <2>3, <2>4
<1>2. ASSUME UNCHANGED gate,
             \A q \in 1..Prewarms : warm'[q].sent = warm[q].sent /\ warm'[q].got = warm[q].got
      PROVE  Goal
  BY <1>0, <1>c, <1>2 DEF EchoOrder, Ordered
<1>3. ASSUME NEW p \in 1..Prewarms, ProbeSends(p) PROVE Goal
  <2>1. CASE warm[p].sent < ProbeFrames
    <3> DEFINE g == [gate[p] EXCEPT !.up = Append(gate[p].up, warm[p].sent)]
    <3>1. gate[p] \in GateType /\ warm[p].sent \in Nat /\ warm[p] \in WarmType
      BY <1>0 DEF WarmType
    <3>2. gate' = [gate EXCEPT ![p] = g] /\ warm' = [warm EXCEPT ![p].sent = @ + 1]
      BY <1>0, <1>3, <2>1 DEF ProbeSends
    <3>3. /\ warm'[p].sent = warm[p].sent + 1 /\ warm'[p].got = warm[p].got
          /\ \A q \in 1..Prewarms \ {p} : warm'[q] = warm[q]
      BY <1>0, <3>1, <3>2 DEF WarmType
    <3>4. Append(gate[p].up, warm[p].sent) \in Seq(Nat)
      BY <3>1 DEF GateType
    <3>5. /\ g \in GateType /\ g.up = Append(gate[p].up, warm[p].sent) /\ g.down = gate[p].down
          /\ g.frames = gate[p].frames /\ g.at = gate[p].at /\ g.honest = gate[p].honest
      BY <3>1, <3>4 DEF GateType
    <3>6. ASSUME gate[p].honest PROVE Ordered(g, warm'[p])
      <4>0. gate[p].up \in Seq(Nat) /\ gate[p].frames \in Nat
        BY <3>1 DEF GateType
      <4>1. Ordered(gate[p], warm[p]) /\ Len(gate[p].up) \in Nat
        BY <1>0, <1>c, <3>6, <4>0
      <4>2. warm[p].sent = gate[p].frames + Len(gate[p].up)
        BY <3>1, <4>0, <4>1 DEF Ordered
      <4>3. Len(g.up) = Len(gate[p].up) + 1 /\ Consecutive(g.up, gate[p].frames)
        <5>1. Consecutive(gate[p].up, gate[p].frames)
          BY <4>1 DEF Ordered
        <5>2. /\ Len(Append(gate[p].up, warm[p].sent)) = Len(gate[p].up) + 1
              /\ Consecutive(Append(gate[p].up, warm[p].sent), gate[p].frames)
          BY <4>0, <4>2, <5>1, ConsecutiveAppend
        <5> QED BY <3>5, <5>2
      <4> HIDE DEF g
      <4> QED BY <3>1, <3>3, <3>5, <4>0, <4>1, <4>2, <4>3 DEF Ordered
    <3> HIDE DEF g, Goal
    <3> QED BY <1>0, <1>c, <1>1, <3>2, <3>3, <3>5, <3>6
  <2>2. CASE ~(warm[p].sent < ProbeFrames)
    <3> DEFINE g == [gate[p] EXCEPT !.half = TRUE]
    <3>1. gate[p] \in GateType /\ warm[p] \in WarmType
      BY <1>0
    <3>2. gate' = [gate EXCEPT ![p] = g] /\ warm' = [warm EXCEPT ![p].at = "reads"]
      BY <1>0, <1>3, <2>2 DEF ProbeSends
    <3>3. /\ warm'[p].sent = warm[p].sent /\ warm'[p].got = warm[p].got
          /\ \A q \in 1..Prewarms \ {p} : warm'[q] = warm[q]
      BY <1>0, <3>1, <3>2 DEF WarmType
    <3>4. /\ g \in GateType /\ g.up = gate[p].up /\ g.down = gate[p].down
          /\ g.frames = gate[p].frames /\ g.at = gate[p].at /\ g.honest = gate[p].honest
      BY <3>1 DEF GateType
    <3>5. ASSUME gate[p].honest PROVE Ordered(g, warm'[p])
      BY <1>0, <1>c, <3>3, <3>4, <3>5 DEF Ordered
    <3> HIDE DEF g, Goal
    <3> QED BY <1>0, <1>c, <1>1, <3>2, <3>3, <3>4, <3>5
  <2> QED BY <2>1, <2>2
<1>4. ASSUME NEW p \in 1..Prewarms, ProbeReads(p) PROVE Goal
  <2> DEFINE g == [gate[p] EXCEPT !.down = Tail(gate[p].down)]
  <2>1. gate[p] \in GateType /\ warm[p] \in WarmType
    BY <1>0
  <2>2. gate' = [gate EXCEPT ![p] = g] /\ gate[p].down # <<>>
    BY <1>0, <1>4 DEF ProbeReads, EchoRead
  <2>3. PICK at \in {"reads", "measures"} : warm' = [warm EXCEPT ![p].got = @ + 1, ![p].at = at]
    BY <1>0, <1>4 DEF ProbeReads
  <2>4. /\ warm'[p] = [warm[p] EXCEPT !.got = warm[p].got + 1, !.at = at]
        /\ \A q \in 1..Prewarms \ {p} : warm'[q] = warm[q]
    BY <1>0, <2>3
  <2>5. warm'[p].sent = warm[p].sent /\ warm'[p].got = warm[p].got + 1
    BY <2>1, <2>4 DEF WarmType
  <2>6. Tail(gate[p].down) \in Seq(Nat)
    BY <2>1, <2>2 DEF GateType
  <2>7. /\ g \in GateType /\ g.up = gate[p].up /\ g.down = Tail(gate[p].down)
        /\ g.frames = gate[p].frames /\ g.at = gate[p].at /\ g.honest = gate[p].honest
    BY <2>1, <2>6 DEF GateType
  <2>8. ASSUME gate[p].honest PROVE Ordered(g, warm'[p])
    <3>1. /\ gate[p].down \in Seq(Nat) /\ gate[p].frames \in Nat /\ warm[p].got \in Nat
          /\ Ordered(gate[p], warm[p])
      BY <1>0, <1>c, <2>1, <2>8 DEF GateType, WarmType
    <3>2. /\ Len(Tail(gate[p].down)) = Len(gate[p].down) - 1
          /\ Consecutive(Tail(gate[p].down), warm[p].got + 1)
      BY <2>2, <3>1, ConsecutiveTail DEF Ordered
    <3> QED BY <2>5, <2>7, <3>1, <3>2 DEF Ordered
  <2> HIDE DEF g, Goal
  <2> QED BY <1>0, <1>c, <1>1, <2>2, <2>4, <2>7, <2>8
<1>5. ASSUME NEW p \in 1..Prewarms, GateEchoes(p) PROVE Goal
  <2>1. gate[p] \in GateType /\ warm[p] \in WarmType /\ UNCHANGED warm /\ gate[p].at = "reads"
    BY <1>0, <1>5 DEF GateEchoes
  <2>2. CASE gate[p].up # <<>>
    <3> DEFINE g == gate'[p]
    <3>1. /\ g.up = Tail(gate[p].up) /\ g.down = Append(gate[p].down, Head(gate[p].up))
          /\ g.frames = gate[p].frames + 1 /\ g.half = gate[p].half /\ g.honest = gate[p].honest
          /\ g.at = IF EchoFull(gate[p].frames + 1) THEN "closed" ELSE gate[p].at
          /\ gate' = [gate EXCEPT ![p] = g]
      BY <1>5, <2>2, EchoedFrame
    <3>2. /\ gate[p].up \in Seq(Nat) /\ gate[p].down \in Seq(Nat) /\ gate[p].frames \in Nat
          /\ Head(gate[p].up) \in Nat /\ Tail(gate[p].up) \in Seq(Nat)
      BY <2>1, <2>2 DEF GateType
    <3>3. g \in GateType
      <4>1. g = [gate[p] EXCEPT !.up = g.up, !.down = g.down, !.frames = g.frames, !.at = g.at]
        <5>1. gate' = [gate EXCEPT ![p].up = Tail(@), ![p].down = Append(@, Head(gate[p].up)),
                                ![p].frames = @ + 1,
                                ![p].at = IF EchoFull(gate[p].frames + 1) THEN "closed" ELSE @]
          BY <1>5, <2>2 DEF GateEchoes
        <5>2. g = [gate[p] EXCEPT !.up = Tail(gate[p].up), !.down = Append(gate[p].down, Head(gate[p].up)),
                     !.frames = gate[p].frames + 1,
                     !.at = IF EchoFull(gate[p].frames + 1) THEN "closed" ELSE gate[p].at]
          BY <1>0, <5>1
        <5> HIDE DEF g
        <5> QED BY <3>1, <5>2
      <4>2. g.up \in Seq(Nat) /\ g.down \in Seq(Nat) /\ g.frames \in Nat /\ g.at \in {"none", "reads", "closed"}
        BY <2>1, <3>1, <3>2
      <4> HIDE DEF g
      <4> QED BY <2>1, <4>1, <4>2 DEF GateType
    <3>4. ASSUME gate[p].honest PROVE Ordered(g, warm[p])
      <4>1. Ordered(gate[p], warm[p]) /\ warm[p].got \in Nat /\ warm[p].sent \in Nat /\ warm[p].sent <= ProbeFrames
        BY <1>0, <1>c, <2>1, <3>4 DEF WarmType, WarmCounts
      <4>2. /\ Head(gate[p].up) = gate[p].frames /\ Len(gate[p].up) >= 1
            /\ Len(Tail(gate[p].up)) = Len(gate[p].up) - 1
            /\ Consecutive(Tail(gate[p].up), gate[p].frames + 1)
        BY <2>2, <3>2, <4>1, ConsecutiveTail DEF Ordered
      <4>0. Len(gate[p].down) \in Nat /\ Len(gate[p].up) \in Nat
        BY <3>2
      <4>3. /\ Len(gate[p].down) \in Nat /\ gate[p].frames = warm[p].got + Len(gate[p].down)
            /\ Len(gate[p].up) \in Nat /\ warm[p].sent = gate[p].frames + Len(gate[p].up)
        <5>1. Len(gate[p].down) = gate[p].frames - warm[p].got /\ Len(gate[p].up) = warm[p].sent - gate[p].frames
          BY <4>1 DEF Ordered
        <5>2. gate[p].frames \in Nat /\ warm[p].got \in Nat /\ warm[p].sent \in Nat
          BY <3>2, <4>1
        <5>3. Len(gate[p].down) = gate[p].frames - warm[p].got
          BY <5>1
        <5>4. gate[p].frames = warm[p].got + Len(gate[p].down)
          BY <4>0, <5>2, <5>3
        <5>5. Len(gate[p].up) = warm[p].sent - gate[p].frames
          BY <5>1
        <5>6. warm[p].sent = gate[p].frames + Len(gate[p].up)
          BY <4>0, <5>2, <5>5
        <5> QED BY <4>0, <5>4, <5>6
      <4> HIDE DEF g
      <4>4. /\ Len(g.down) = Len(gate[p].down) + 1 /\ Consecutive(g.down, warm[p].got)
        <5>1. gate[p].down \in Seq(Nat) /\ warm[p].got \in Nat /\ Consecutive(gate[p].down, warm[p].got)
          BY <3>2, <4>1 DEF Ordered
        <5>2. Head(gate[p].up) = warm[p].got + Len(gate[p].down)
          BY <4>2, <4>3
        <5>3. /\ Len(Append(gate[p].down, Head(gate[p].up))) = Len(gate[p].down) + 1
              /\ Consecutive(Append(gate[p].down, Head(gate[p].up)), warm[p].got)
          BY <5>1, <5>2, ConsecutiveAppend
        <5> QED BY <3>1, <5>3
      <4>5. Len(g.up) = Len(gate[p].up) - 1 /\ Consecutive(g.up, g.frames)
        BY <3>1, <4>2
      <4>6. g.at = "closed" => g.frames = ProbeFrames
        <5>1. gate[p].frames + 1 <= warm[p].sent /\ warm[p].sent <= ProbeFrames
          BY <3>2, <4>1, <4>2, <4>3
        <5>2. g.at = "closed" => gate[p].frames + 1 >= EchoMax
          BY <2>1, <3>1 DEF EchoFull
        <5>3. ProbeFrames \in Nat /\ EchoMax \in Nat /\ ProbeFrames <= EchoMax
          BY ProbeConstants
        <5>4. gate[p].frames \in Nat /\ warm[p].sent \in Nat /\ g.frames = gate[p].frames + 1
          BY <3>1, <3>2, <4>1
        <5>5. g.at = "closed" => gate[p].frames + 1 = ProbeFrames
          BY <5>1, <5>2, <5>3, <5>4
        <5> QED BY <5>4, <5>5
      <4>7. Len(g.up) = warm[p].sent - g.frames /\ Len(g.down) = g.frames - warm[p].got
        <5>1. g.frames = gate[p].frames + 1 /\ gate[p].frames \in Nat /\ warm[p].got \in Nat /\ warm[p].sent \in Nat
          BY <3>1, <3>2, <4>1
        <5>2. Len(g.up) = Len(gate[p].up) - 1 /\ Len(g.down) = Len(gate[p].down) + 1
          BY <4>4, <4>5
        <5>3. Len(gate[p].up) - 1 = warm[p].sent - (gate[p].frames + 1)
          BY <4>3, <5>1
        <5>4. Len(gate[p].down) + 1 = gate[p].frames + 1 - warm[p].got
          <6>1. Len(gate[p].down) \in Nat /\ gate[p].frames = warm[p].got + Len(gate[p].down)
            BY <4>3
          <6>2. gate[p].frames \in Nat /\ warm[p].got \in Nat
            BY <5>1
          <6> QED BY <6>1, <6>2
        <5>5. warm[p].sent - g.frames = warm[p].sent - (gate[p].frames + 1)
          BY <5>1
        <5>6. g.frames - warm[p].got = gate[p].frames + 1 - warm[p].got
          BY <5>1
        <5> QED BY <5>2, <5>3, <5>4, <5>5, <5>6
      <4> QED BY <4>4, <4>5, <4>6, <4>7 DEF Ordered
    <3>5. g.at # "none"
      BY <2>1, <3>1
    <3> HIDE DEF g, Goal
    <3> QED BY <1>0, <1>c, <1>1, <2>1, <3>1, <3>3, <3>4, <3>5
  <2>3. CASE gate[p].up = <<>>
    <3> DEFINE g == [gate[p] EXCEPT !.at = "closed"]
    <3>1. gate' = [gate EXCEPT ![p] = g] /\ gate[p].half
      BY <1>0, <1>5, <2>3 DEF GateEchoes
    <3>2. /\ g \in GateType /\ g.up = gate[p].up /\ g.down = gate[p].down
          /\ g.frames = gate[p].frames /\ g.at = "closed" /\ g.honest = gate[p].honest
      BY <2>1 DEF GateType
    <3>3. ASSUME gate[p].honest PROVE Ordered(g, warm[p])
      <4>1. Ordered(gate[p], warm[p]) /\ warm[p].sent = ProbeFrames /\ gate[p].frames \in Nat
        BY <1>0, <1>c, <2>1, <3>1, <3>3 DEF GateType, WarmCounts
      <4>2. Len(gate[p].up) = 0
        BY <2>3
      <4>3. gate[p].frames = ProbeFrames
        BY <4>1, <4>2, ProbeConstants DEF Ordered
      <4> QED BY <3>2, <4>1, <4>3 DEF Ordered
    <3> HIDE DEF g, Goal
    <3> QED BY <1>0, <1>c, <1>1, <2>1, <3>1, <3>2, <3>3
  <2> QED BY <2>2, <2>3
<1>6. ASSUME NEW p \in 1..Prewarms, GateAccepts(p) PROVE Goal
  <2>1. PICK at \in {"reads", "closed"} : gate' = [gate EXCEPT ![p].at = at, ![p].honest = at = "reads"]
    BY <1>6 DEF GateAccepts
  <2> DEFINE g == [gate[p] EXCEPT !.at = at, !.honest = at = "reads"]
  <2>2. gate' = [gate EXCEPT ![p] = g]
    BY <1>0, <2>1
  <2>3. gate[p] \in GateType /\ gate[p].honest /\ UNCHANGED warm
    <3>1. gate[p].at = "none" /\ UNCHANGED warm
      BY <1>6 DEF GateAccepts
    <3>2. gate[p].honest
      BY <1>c, <3>1
    <3> QED BY <1>0, <3>1, <3>2
  <2>4. /\ g \in GateType /\ g.up = gate[p].up /\ g.down = gate[p].down
        /\ g.frames = gate[p].frames /\ g.at = at /\ g.honest = (at = "reads")
    BY <2>3 DEF GateType
  <2>5. ASSUME at = "reads" PROVE Ordered(g, warm[p])
    BY <1>0, <1>c, <2>3, <2>4, <2>5 DEF Ordered
  <2> HIDE DEF g, Goal
  <2> QED BY <1>0, <1>c, <1>1, <2>2, <2>3, <2>4, <2>5
<1>7. ASSUME NEW p \in 1..Prewarms, GateMisbehaves(p) PROVE Goal
  <2> DEFINE g == [gate[p] EXCEPT !.honest = FALSE, !.down = Append(gate[p].down, WrongEcho)]
  <2>1. gate' = [gate EXCEPT ![p] = g] /\ gate[p].at = "reads" /\ UNCHANGED warm /\ gate[p] \in GateType
    BY <1>0, <1>7 DEF GateMisbehaves
  <2>2. WrongEcho \in Nat
    BY ProbeConstants DEF WrongEcho
  <2>3. Append(gate[p].down, WrongEcho) \in Seq(Nat)
    BY <2>1, <2>2 DEF GateType
  <2>4. g \in GateType /\ g.at = "reads" /\ ~g.honest
    BY <2>1, <2>3 DEF GateType
  <2> HIDE DEF g, Goal
  <2> QED BY <1>0, <1>c, <1>1, <2>1, <2>4
<1>8. ASSUME UNCHANGED gate, \A p \in 1..Prewarms : ~ProbeSends(p) /\ ~ProbeReads(p) PROVE Goal
  <2>1. \A q \in 1..Prewarms : warm'[q].sent = warm[q].sent /\ warm'[q].got = warm[q].got
    <3>0. ASSUME NEW p \in 1..Prewarms, NEW at, NEW c, warm' = [warm EXCEPT ![p].at = at, ![p].conn = c]
          PROVE  <2>1
      <4>1. /\ warm'[p] = [warm[p] EXCEPT !.at = at, !.conn = c]
            /\ \A q \in 1..Prewarms \ {p} : warm'[q] = warm[q]
        BY <1>0, <3>0
      <4>2. warm'[p].sent = warm[p].sent /\ warm'[p].got = warm[p].got
        BY <1>0, <4>1 DEF WarmType
      <4> QED BY <4>1, <4>2
    <3>00. ASSUME NEW p \in 1..Prewarms, NEW at, warm' = [warm EXCEPT ![p].at = at]
          PROVE  <2>1
      <4>1. /\ warm'[p] = [warm[p] EXCEPT !.at = at]
            /\ \A q \in 1..Prewarms \ {p} : warm'[q] = warm[q]
        BY <1>0, <3>00
      <4>2. warm'[p].sent = warm[p].sent /\ warm'[p].got = warm[p].got
        BY <1>0, <4>1 DEF WarmType
      <4> QED BY <4>1, <4>2
    <3>1. CASE WatchTick
      BY <3>1, <3>00 DEF WatchTick
    <3>2. ASSUME NEW p \in 1..Prewarms, WarmAcquires(p) PROVE <2>1
      BY <3>0, <3>2 DEF WarmAcquires
    <3>3. ASSUME NEW p \in 1..Prewarms, WarmGivesUp(p) \/ ProbeEnds(p) \/ ProbeRejects(p) PROVE <2>1
      BY <3>00, <3>3 DEF WarmGivesUp, ProbeEnds, ProbeRejects
    <3>4. ASSUME NEW c \in ProbeConns, DialEnds(c) PROVE <2>1
      <4>1. \A q \in 1..Prewarms : \E at \in {"acquires", "sends", "done"} :
              warm'[q] \in {warm[q], [warm[q] EXCEPT !.at = at]}
        BY <3>4 DEF DialEnds
      <4> QED BY <1>0, <4>1 DEF WarmType
    <3>5. CASE UNCHANGED warm
      BY <3>5
    <3>6. ASSUME NEW p \in 1..Prewarms, GateAccepts(p) \/ GateEchoes(p) \/ GateMisbehaves(p) PROVE UNCHANGED warm
      BY <3>6 DEF GateAccepts, GateEchoes, GateMisbehaves
    <3>7. ASSUME NEW c \in ProbeConns, DialGains(c) \/ ConnLost(c) PROVE UNCHANGED warm
      BY <3>7 DEF DialGains, ConnLost
    <3>8. CASE UplinkChanges \/ UNCHANGED probeVars
      BY <3>8 DEF UplinkChanges, probeVars
    <3> QED BY <1>8, <3>1, <3>2, <3>3, <3>4, <3>5, <3>6, <3>7, <3>8 DEF ProbeNext
  <2> HIDE DEF Goal
  <2> QED BY <1>2, <1>8, <2>1
<1>9. \/ UNCHANGED gate
      \/ \E p \in 1..Prewarms : ProbeSends(p) \/ ProbeReads(p) \/ GateEchoes(p) \/ GateAccepts(p) \/ GateMisbehaves(p)
  BY DEF ProbeNext, probeVars, UplinkChanges, WatchTick, WarmAcquires, DialGains, DialEnds, ConnLost,
     WarmGivesUp, ProbeEnds, ProbeRejects
<1> HIDE DEF Goal
<1>10. Goal
  BY <1>3, <1>4, <1>5, <1>6, <1>7, <1>8, <1>9
<1> QED BY <1>10 DEF Goal

\* Who rejects the answer of a gateway that echoes has lost its connection.
LEMMA FairStep ==
  ASSUME ProbeTypeOK, PoolOwns, WarmConns, WarmCounts, EchoOrder, AccusedFairly, [ProbeNext]_probeVars
  PROVE  AccusedFairly' /\ accused' \subseteq (1..Prewarms) \X Causes
<1>1. \A p \in 1..Prewarms : gate'[p].honest => gate[p].honest
  BY EchoStep
<1>2. \A v \in accused : v[1] \in 1..Prewarms
  BY DEF ProbeTypeOK
<1>3. CASE UNCHANGED accused
  BY <1>1, <1>2, <1>3 DEF AccusedFairly, ProbeTypeOK
<1>4. ASSUME NEW p \in 1..Prewarms, ProbeRejects(p)
      PROVE  AccusedFairly' /\ accused' \subseteq (1..Prewarms) \X Causes
  <2> DEFINE c == warm[p].conn
             cause == conns[c].cause
  <2>1. /\ warm[p].at = "reads" /\ EchoRead(p) \in {"wrong", "ended"}
        /\ accused' = accused \cup {<<p, cause>>} /\ UNCHANGED gate
    BY <1>4 DEF ProbeRejects
  <2>2. c \in ProbeConns /\ ConnEnded(c) /\ cause \in Causes /\ c # 0
    <3>1. c \in ProbeConns \cup {0} /\ c # 0 /\ ConnEnded(c)
      BY <2>1 DEF ProbeTypeOK, WarmConns
    <3> QED BY <3>1 DEF ProbeTypeOK
  <2>3. ASSUME gate[p].honest PROVE cause \in {"peer", "local"}
    <3>1. CASE ~WarmLive(p)
      <4>1. conns[c].life = "closed" /\ cause # "path"
        BY <2>1, <2>2, <3>1 DEF EchoRead, WarmLive, ConnEnded
      <4> QED BY <2>2, <4>1 DEF PoolOwns, Causes
    <3>2. CASE WarmLive(p)
      <4>1. /\ gate[p].down \in Seq(Nat) /\ warm[p].got \in Nat /\ gate[p].frames \in Nat
            /\ Len(gate[p].down) = gate[p].frames - warm[p].got /\ Consecutive(gate[p].down, warm[p].got)
            /\ gate[p].at = "closed" => gate[p].frames = ProbeFrames
            /\ warm[p].got < ProbeFrames
        BY <2>1, <2>3 DEF ProbeTypeOK, EchoOrder, WarmCounts, Ordered
      <4>2. CASE gate[p].down # <<>>
        <5>1. Head(gate[p].down) = warm[p].got
          BY <4>1, <4>2, ConsecutiveTail
        <5> QED BY <2>1, <3>2, <4>2, <5>1 DEF EchoRead
      <4>3. CASE gate[p].down = <<>>
        <5>1. Len(gate[p].down) = 0
          BY <4>3
        <5>2. gate[p].at # "closed"
          BY <4>1, <5>1, ProbeConstants
        <5> QED BY <2>1, <3>2, <4>3, <5>2 DEF EchoRead
      <4> QED BY <4>2, <4>3
    <3> QED BY <3>1, <3>2
  <2> HIDE DEF cause
  <2>4. accused' \subseteq (1..Prewarms) \X Causes
    BY <2>1, <2>2 DEF ProbeTypeOK
  <2>5. AccusedFairly'
    BY <2>1, <2>3 DEF AccusedFairly
  <2> QED BY <2>4, <2>5
<1>5. UNCHANGED accused \/ \E p \in 1..Prewarms : ProbeRejects(p)
  BY DEF ProbeNext, probeVars, UplinkChanges, WatchTick, WarmAcquires, DialGains, DialEnds, ConnLost,
     WarmGivesUp, ProbeSends, ProbeEnds, ProbeReads, GateAccepts, GateEchoes, GateMisbehaves
<1> QED BY <1>3, <1>4, <1>5

\* Whatever the number of prewarms and of frames in a probe: the pool is the only owner of
\* an open connection, and a gateway that echoes is accused only when its connection was
\* taken from under the probe.
THEOREM EchoersAreNotAccused == ProbeSpec => []ProbeInv
<1>1. ProbeIInv /\ [ProbeNext]_probeVars => ProbeIInv'
  <2> SUFFICES ASSUME ProbeIInv, [ProbeNext]_probeVars PROVE ProbeIInv'
    OBVIOUS
  <2>1. ProbeTypeOK /\ PoolOwns /\ WarmConns /\ WarmCounts /\ EchoOrder /\ AccusedFairly
    BY DEF ProbeIInv
  <2>2. PoolOwns' /\ WarmConns' /\ WarmCounts' /\ EchoOrder' /\ AccusedFairly'
    BY <2>1, ProbeSteps, PoolStep, WarmStep, EchoStep, FairStep
  <2>3. ProbeTypeOK'
    BY <2>1, ProbeSteps, PoolStep, WarmStep, EchoStep, FairStep DEF ProbeTypeOK, WarmType, GateType
  <2> QED BY <2>2, <2>3 DEF ProbeIInv
<1>2. ProbeIInv => ProbeInv
  <2> SUFFICES ASSUME ProbeIInv PROVE ProbeInv
    OBVIOUS
  <2>1. ASSUME NEW p \in 1..Prewarms, gate[p].honest
        PROVE  warm[p].got <= gate[p].frames /\ gate[p].frames <= warm[p].sent
    <3>1. /\ gate[p].up \in Seq(Nat) /\ gate[p].down \in Seq(Nat) /\ gate[p].frames \in Nat
          /\ warm[p].sent \in Nat /\ warm[p].got \in Nat
          /\ Len(gate[p].up) = warm[p].sent - gate[p].frames /\ Len(gate[p].down) = gate[p].frames - warm[p].got
      BY <2>1 DEF ProbeIInv, ProbeTypeOK, EchoOrder, Ordered
    <3>2. Len(gate[p].up) >= 0 /\ Len(gate[p].down) >= 0
      BY <3>1
    <3> QED BY <3>1, <3>2
  <2> QED BY <2>1 DEF ProbeIInv, ProbeInv, PoolOwns, AccusedFairly
<1> QED BY <1>1, <1>2, ProbeInitInv, PTL DEF ProbeSpec
=============================================================================
